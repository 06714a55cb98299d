--------------------------- MODULE ProxyTransport ---------------------------
(***************************************************************************)
(* The first stream of a connection: direct, through an HTTP or a SOCKS5   *)
(* proxy, or from a command (remcmd-ssh proxy.rs), and the approval a      *)
(* command needs (plan.rs).                                                *)
(*                                                                         *)
(* A conversation is what the other side sends, byte after byte, and what  *)
(* is said to it; it ends with what is left to read. Numbers are bytes of  *)
(* SOCKS5; in HTTP a word of the response counts as one byte.              *)
(***************************************************************************)
EXTENDS Naturals, Sequences, SequencesExt

CONSTANTS
  None,
  ResponseLimit,   \* MAX_PROXY_RESPONSE_BYTES
  StderrLimit,     \* MAX_PROXY_COMMAND_STDERR_BYTES
  MaxByte          \* 255

Conversation(input) == [input |-> input, got |-> <<>>, sent |-> <<>>, result |-> "Open"]

\* The ? of every step: what follows is done while nothing failed.
Then(c, Step(_)) == IF c.result = "Open" THEN Step(c) ELSE c
Fails(c, kind) == [c EXCEPT !.result = kind]

Send(c, message) == [c EXCEPT !.sent = @ \o message]

\* read_exact: an end of the stream within is an error.
ReadExact(c, n) ==
  IF Len(c.input) < n THEN [Fails(c, "Proxy") EXCEPT !.input = <<>>]
  ELSE [c EXCEPT !.got = SubSeq(c.input, 1, n), !.input = SubSeq(c.input, n + 1, Len(c.input))]

HasCredentials(proxy) == proxy.username # None /\ proxy.password # None
Incomplete(proxy) == (proxy.username = None) # (proxy.password = None)

-----------------------------------------------------------------------------
(* HTTP CONNECT.                                                           *)

BlankLine == <<"CR", "LF", "CR", "LF">>

\* read_headers: byte by byte up to the first empty line, within the limit.
ReadHeaders(c) ==
  LET within == IF Len(c.input) < ResponseLimit THEN Len(c.input) ELSE ResponseLimit
      ends == {n \in 4..within : SubSeq(c.input, n - 3, n) = BlankLine}
  IN IF ends = {} THEN Fails(ReadExact(c, within), "Proxy")
     ELSE Then(ReadExact(c, CHOOSE n \in ends : \A m \in ends : n <= m),
               LAMBDA d : IF Contains(d.got, "not utf-8") THEN Fails(d, "Proxy") ELSE d)

\* The second word of the first line, if it is a number.
Status(response, Numbers) ==
  LET end == CHOOSE n \in DOMAIN response : response[n] = "LF" /\ \A m \in 1..(n - 1) : response[m] # "LF"
      words == SelectSeq(SubSeq(response, 1, end), LAMBDA w : w \notin {"CR", "LF"})
  IN IF Len(words) >= 2 /\ words[2] \in Numbers THEN words[2] ELSE "none"

\* The statuses are a set of words: those the proxy accepts with, the one for a refusal of
\* the credentials, and others.
OpenHttpConnect(proxy, endpoint, input, Accepted, Numbers) ==
  IF Incomplete(proxy) THEN Fails(Conversation(input), "Configuration")
  ELSE LET request == <<[connect |-> endpoint, user |-> proxy.username, password |-> proxy.password]>>
           c == ReadHeaders(Send(Conversation(input), request))
       IN Then(c, LAMBDA d :
            LET status == Status(d.got, Numbers) IN
            CASE status \in Accepted -> d
              [] status = "407" -> Fails(d, "ProxyAuthentication")
              [] OTHER -> Fails(d, "Proxy"))

-----------------------------------------------------------------------------
(* SOCKS5.                                                                 *)

AuthenticateSocks5(c, proxy) ==
  IF Len(proxy.username) > MaxByte \/ Len(proxy.password) > MaxByte THEN Fails(c, "Configuration")
  ELSE LET request == <<1, Len(proxy.username)>> \o proxy.username
                        \o <<Len(proxy.password)>> \o proxy.password
       IN Then(ReadExact(Send(c, request), 2),
               LAMBDA d : IF d.got = <<1, 0>> THEN d ELSE Fails(d, "ProxyAuthentication"))

SelectMethod(c, proxy) ==
  CASE c.got[1] # 5 -> Fails(c, "Proxy")
    [] c.got = <<5, 0>> -> c
    [] c.got = <<5, 2>> /\ HasCredentials(proxy) -> AuthenticateSocks5(c, proxy)
    [] OTHER -> Fails(c, "ProxyAuthentication")

RequestTarget(c, endpoint) ==
  IF Len(endpoint.host) > MaxByte THEN Fails(c, "Configuration")
  ELSE ReadExact(Send(c, <<5, 1, 0, 3, Len(endpoint.host)>> \o endpoint.host
                          \o <<endpoint.port \div 256, endpoint.port % 256>>), 4)

\* The address the proxy is bound to is read and thrown away.
DiscardAddress(c) ==
  CASE c.got[1] # 5 \/ c.got[2] # 0 -> Fails(c, "Proxy")
    [] c.got[1] = 5 /\ c.got[2] = 0 /\ c.got[4] = 1 -> ReadExact(c, 4 + 2)
    [] c.got[1] = 5 /\ c.got[2] = 0 /\ c.got[4] = 3 ->
         Then(ReadExact(c, 1), LAMBDA d : ReadExact(d, d.got[1] + 2))
    [] c.got[1] = 5 /\ c.got[2] = 0 /\ c.got[4] = 4 -> ReadExact(c, 16 + 2)
    [] OTHER -> Fails(c, "Proxy")

OpenSocks5(proxy, endpoint, input) ==
  IF Incomplete(proxy) THEN Fails(Conversation(input), "Configuration")
  ELSE LET greeting == IF HasCredentials(proxy) THEN <<5, 2, 0, 2>> ELSE <<5, 1, 0>>
           greeted == ReadExact(Send(Conversation(input), greeting), 2)
           selected == Then(greeted, LAMBDA c : SelectMethod(c, proxy))
           asked == Then(selected, LAMBDA c : RequestTarget(c, endpoint))
       IN Then(asked, DiscardAddress)

-----------------------------------------------------------------------------
(* A command instead of a connection.                                      *)

Value(endpoint, token) ==
  CASE token = "%" -> <<"%">> [] token = "h" -> endpoint.host [] token = "n" -> endpoint.name
    [] token = "p" -> endpoint.port [] token = "r" -> endpoint.username

\* expand_proxy_command: a command is a sequence of characters.
ExpandStep(endpoint, x, character) ==
  CASE ~x.ok -> x
    [] x.ok /\ ~x.token /\ character # "%" -> [x EXCEPT !.output = Append(@, character)]
    [] x.ok /\ ~x.token /\ character = "%" -> [x EXCEPT !.token = TRUE]
    [] x.ok /\ x.token /\ character \in {"%", "h", "n", "p", "r"} ->
         [x EXCEPT !.token = FALSE, !.output = @ \o Value(endpoint, character)]
    [] OTHER -> [x EXCEPT !.ok = FALSE]

ExpandProxyCommand(command, endpoint) ==
  LET x == FoldLeft(LAMBDA y, character : ExpandStep(endpoint, y, character),
                    [output |-> <<>>, token |-> FALSE, ok |-> TRUE], command)
  IN IF x.ok /\ ~x.token THEN x.output ELSE <<"Configuration">>

\* What is hashed: five texts, each with a zero behind it.
ApprovalDigest(command, endpoint) ==
  FlattenSeq([i \in 1..5 |->
    Append(<<command, endpoint.name, endpoint.host, endpoint.port, endpoint.username>>[i], "zero")])

First(plan) == IF plan.jumps = <<>> THEN plan.target ELSE Head(plan.jumps)

\* approve_proxy_command: only what a preview of this plan would show.
ApproveProxyCommand(plan, digest) ==
  LET expanded == ExpandProxyCommand(plan.command, First(plan)) IN
  IF expanded = <<"Configuration">> \/ digest # ApprovalDigest(plan.command, First(plan)) THEN plan
  ELSE [plan EXCEPT !.approved = digest]

\* open_initial_stream with a ProxyCommand: what is started, or why nothing is.
OpenCommand(plan) ==
  IF plan.approved # ApprovalDigest(plan.command, First(plan)) THEN <<"ProxyCommandApproval">>
  ELSE ExpandProxyCommand(plan.command, First(plan))

\* ProxyCommandStream: the pipes of the command. Its errors are read to the end and kept
\* up to a limit.
Started == [stdin |-> "open", child |-> "running", stderr |-> 0, reader |-> TRUE, refused |-> 0]

CommandStep(s, op) ==
  CASE op.kind = "write" -> IF s.stdin = "open" THEN s ELSE [s EXCEPT !.refused = @ + 1]
    [] op.kind = "shutdown" -> [s EXCEPT !.stdin = "closed"]
    [] op.kind = "complain" ->
         [s EXCEPT !.stderr = IF ~s.reader THEN @
                              ELSE IF @ + op.bytes < StderrLimit THEN @ + op.bytes ELSE StderrLimit]
    [] op.kind = "drop" -> [s EXCEPT !.child = "killed", !.reader = FALSE, !.stdin = "closed"]

\* open_initial_stream: what fails on the way through a proxy is said of the proxy.
InitialStage(proxy, result) ==
  IF result = "Open" \/ proxy = None THEN "none" ELSE "Proxy"
=============================================================================

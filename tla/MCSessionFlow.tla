--------------------------- MODULE MCSessionFlow ---------------------------
(***************************************************************************)
(* Two sessions and three profiles: "web" is reached through a proxy with  *)
(* a password and has a password itself, "db" has an encrypted key and is  *)
(* reached through "web", and "ops" is reached by a proxy command and      *)
(* takes no password. The checks of what a connection is made of - its     *)
(* proxies, its transports, the shell behind it - are evaluated with it.   *)
(***************************************************************************)
EXTENDS SessionFlow, SequencesExt, TLC

CONSTANTS
  NoText,
  NoOutput,
  Unset   \* model values

MCProfiles == {"web", "db", "ops"}
MCAuth == [p \in MCProfiles |->
  CASE p = "web" -> "Password" [] p = "db" -> "PrivateKeyPassphrase" [] p = "ops" -> "None"]
MCProxy == [p \in MCProfiles |->
  CASE p = "web" -> "ProxyPassword" [] p = "db" -> "None" [] p = "ops" -> "ProxyCommand"]
MCJumps == [p \in MCProfiles |-> IF p = "db" THEN <<"web">> ELSE <<>>]

\* The command of "ops", and a password of "web" that is no longer right.
MCKeychains == {[i \in MCProfiles \X {"Password", "PrivateKeyPassphrase",
                                      "ProxyPassword", "ProxyCommand"} |->
  CASE i = <<"ops", "ProxyCommand">> -> "right"
    [] i = <<"web", "Password">> -> "wrong"
    [] OTHER -> "none"]}

MCTyped == {<<"right", TRUE>>, <<"wrong", TRUE>>}

\* The code never tells one session id from another.
Symmetry == Permutations(Sessions)

---------------------------------------------------------------------------
\* ProxyTransport on every short answer of a proxy: it reads no further than the answer goes,
\* since what comes next is the SSH server's; a password goes where it was asked for; and what
\* is approved is what is started.

LOCAL Transport == INSTANCE ProxyTransport
  WITH None <- NoText, ResponseLimit <- 8, StderrLimit <- 2, MaxByte <- 255

LOCAL Anonymous == [username |-> NoText, password |-> NoText]
LOCAL Known == [username |-> <<7>>, password |-> <<9, 9>>]
LOCAL Target == [host |-> <<65>>, port |-> 22]

LOCAL AfterIt == <<"server">>

\* The answer of an HTTP proxy read one byte after the other until it ends.
LOCAL ReadOn(s, byte) ==
  IF s.ended THEN [s EXCEPT !.left = Append(@, byte)]
  ELSE LET read == Append(s.read, byte) IN
       [s EXCEPT !.read = read, !.ended = IsSuffix(Transport!BlankLine, read) \/ Len(read) = 8]

LOCAL Answers == {<<"v">> \o a \o b : a \in SeqOf({"200", "407", "v", "LF"}, 2),
                                      b \in {s \in SeqOf({"CR", "LF", "200"}, 6) : Len(s) \in {0, 4, 6}}}

\* What is behind the empty line is left for the server; the tunnel is open if the proxy
\* said so in time, and only then (proxy.rs:176, :155).
ASSUME HttpAnswerEndsAtTheEmptyLine ==
  \A answer \in Answers :
    LET c == Transport!OpenHttpConnect(Anonymous, Target, answer \o AfterIt, {"200"}, {"200", "407"})
        s == FoldLeft(ReadOn, [read |-> <<>>, left |-> <<>>, ended |-> FALSE], answer \o AfterIt)
        whole == IsSuffix(Transport!BlankLine, s.read)
    IN /\ c.result = "Open" =>
            /\ whole /\ c.input = s.left
            /\ \E i \in 2..Len(s.read) : s.read[i] = "200" /\ \A j \in 1..(i - 1) : s.read[j] # "LF"
       /\ whole /\ SubSeq(answer, 1, 3) = <<"v", "200", "CR">> => c.result = "Open"
       /\ c.result = "ProxyAuthentication" => Contains(s.read, "407")

LOCAL Address(kind) ==
  CASE kind = 1 -> [i \in 1..6 |-> 5] [] kind = 4 -> [i \in 1..18 |-> 5]
    [] kind = 3 -> <<2, 5, 5, 5, 5>>

\* However long the address a SOCKS5 proxy answers with, the next byte is the server's
\* (proxy.rs:279).
ASSUME SocksAnswerIsReadExactly ==
  \A kind \in {1, 3, 4}, proxy \in {Anonymous, Known}, method \in {<<5, 0>>, <<5, 2, 1, 0>>} :
    LET answer == method \o <<5, 0, 0, kind>> \o Address(kind)
        c == Transport!OpenSocks5(proxy, Target, answer \o AfterIt)
    IN /\ proxy = Known \/ method = <<5, 0>> => c.result = "Open" /\ c.input = AfterIt
       \* The answer cut short opens nothing.
       /\ \A n \in 0..(Len(answer) - 1) :
            Transport!OpenSocks5(proxy, Target, SubSeq(answer, 1, n)).result # "Open"

\* The password is sent to a SOCKS5 proxy that chose that method, and to no other, whatever
\* else it says; a refusal of the credentials is told as one (proxy.rs:228, :319).
ASSUME PasswordOnlyWhenAsked ==
  \A answer \in SeqOf({0, 1, 2, 5, 255}, 4), proxy \in {Anonymous, Known} :
    LET c == Transport!OpenSocks5(proxy, Target, answer) IN
    /\ (\E i \in DOMAIN c.sent : c.sent[i] = 9) <=> proxy = Known /\ IsPrefix(<<5, 2>>, answer)
    /\ c.result = "Open" => FALSE
    /\ proxy = Known /\ IsPrefix(<<5, 2>>, answer) /\ Len(answer) = 4 /\ answer[4] # 0
         => c.result = "ProxyAuthentication"

\* Texts that do not fit their length byte are refused before they are sent
\* (proxy.rs:245, :303).
ASSUME LengthsFitTheirByte ==
  LET Long == [i \in 1..256 |-> 9]
      late == Transport!OpenSocks5(Anonymous, [host |-> Long, port |-> 22], <<5, 0>>)
      secret == Transport!OpenSocks5([Known EXCEPT !.password = Long], Target, <<5, 2>>)
  IN /\ late.result = "Configuration" /\ late.sent = <<5, 1, 0>>
     /\ secret.result = "Configuration" /\ secret.sent = <<5, 2, 0, 2>>

LOCAL Host == [name |-> <<"n">>, host |-> <<"h">>, port |-> <<"2", "2">>, username |-> <<"%">>]

\* A command made of words expands word by word; what a value puts in is not expanded
\* again, and a token that is none fails the whole (plan.rs:312).
ASSUME TokensExpandOnce ==
  LET Words == {<<"a">>, <<"%", "%">>, <<"%", "h">>, <<"%", "p">>, <<"%", "r">>, <<"%", "a">>}
      Meaning(w) == IF Len(w) = 1 THEN w ELSE IF w = <<"%", "a">> THEN <<>> ELSE Transport!Value(Host, w[2])
  IN \A words \in SeqOf(Words, 3) :
       LET command == FlattenSeq(words) IN
       /\ Transport!ExpandProxyCommand(command, Host) =
            IF Contains(words, <<"%", "a">>) THEN <<"Configuration">>
            ELSE FlattenSeq([i \in DOMAIN words |-> Meaning(words[i])])
       /\ Transport!ExpandProxyCommand(Append(command, "%"), Host) = <<"Configuration">>

LOCAL Plans ==
  LET Texts == {<<>>, <<"h">>, <<"h", "h">>}
      Endpoints == {[name |-> n, host |-> h, port |-> <<"2">>, username |-> u] : n, h, u \in Texts}
  IN {[command |-> c, target |-> e, jumps |-> <<>>, approved |-> NoText] :
        c \in {<<"%", "h">>, <<"%", "n">>}, e \in Endpoints}

\* A command approved for one destination is not started for another: what runs is what
\* was shown (plan.rs:288, proxy.rs:82).
ASSUME ApprovedIsWhatRuns ==
  \A shown, now \in Plans :
    LET digest == Transport!ApprovalDigest(shown.command, shown.target)
        plan == Transport!ApproveProxyCommand(now, digest)
        carried == [now EXCEPT !.approved = digest]
    IN \A p \in {plan, carried} :
         LET started == Transport!OpenCommand(p) IN
         /\ started # <<"ProxyCommandApproval">> =>
              started = Transport!ExpandProxyCommand(shown.command, shown.target)
         /\ shown = now => started # <<"ProxyCommandApproval">>

\* Nothing is written to a command whose input was closed, and its complaints never hold
\* more than their limit (proxy.rs:367, :414).
ASSUME CommandStreamIsBounded ==
  LET Ops == {[kind |-> "write"], [kind |-> "shutdown"], [kind |-> "complain", bytes |-> 2], [kind |-> "drop"]} IN
  \A ops \in SeqOf(Ops, 4) :
    LET s == FoldLeft(Transport!CommandStep, Transport!Started, ops)
        Closes == {i \in DOMAIN ops : ops[i].kind \in {"shutdown", "drop"}}
        Late == {i \in DOMAIN ops : ops[i].kind = "write" /\ \E j \in Closes : j < i}
    IN /\ s.refused = Len(SelectSeq([i \in DOMAIN ops |-> i], LAMBDA i : i \in Late))
       /\ s.stderr <= 2
       /\ [kind |-> "drop"] \in ToSet(ops) => s.child = "killed"

---------------------------------------------------------------------------
\* SshTransport on all short answers of the network, an agent and a server.

LOCAL Ssh == INSTANCE SshTransport WITH OutputLimit <- 2

\* A connection is made if an address can be reached at all, whatever the others do and
\* however often an address is named, and to the one that was there first
\* (transport.rs:766).
ASSUME FirstAddressWins ==
  \A addresses \in SeqOf({"v4", "v6", "vx"}, 3) :
    LET attempts == Ssh!Unique(addresses) IN
    \A order \in SetToSeqs(ToSet(addresses)), reachable \in SUBSET ToSet(addresses) :
      LET r == Ssh!RaceConnections(addresses,
                 [i \in DOMAIN order |-> [address |-> order[i], connects |-> order[i] \in reachable]])
          there == SelectSeq(order, LAMBDA a : a \in reachable)
      IN /\ Len(attempts) = Cardinality(ToSet(addresses))
         /\ r.stream = IF there = <<>> THEN "none" ELSE Head(there)
         /\ there = <<>> => ToSet(r.failures) = ToSet(addresses) /\ r.error # "no"

LOCAL AllKeys ==
  {[name |-> n, rsa |-> rsa, signs |-> signs] : n \in {"a", "b"}, rsa, signs \in BOOLEAN}
LOCAL Servers ==
  {[accepts |-> accepts, negotiates |-> n] : accepts \in SUBSET {"a", "b"}, n \in BOOLEAN}
LOCAL Agents == {[state |-> "ready", keys |-> keys] : keys \in SeqOf(AllKeys, 3)}
LOCAL WithAgent(agent) == [kind |-> "agent", agent |-> agent]
LOCAL Names(keys) == [i \in DOMAIN keys |-> keys[i].name]

\* The keys of an agent are offered in its order, each once, up to the first that is
\* accepted; the hash for RSA is asked for once; an error ends it (transport.rs:486).
ASSUME AgentKeysInOrder ==
  \A agent \in Agents, server \in Servers :
    LET a == Ssh!Authenticate(WithAgent(agent), server, FALSE)
        taken == {i \in DOMAIN agent.keys : agent.keys[i].name \in server.accepts /\ agent.keys[i].signs}
        broken == {i \in DOMAIN agent.keys : ~agent.keys[i].signs \/ (agent.keys[i].rsa /\ ~server.negotiates)}
    IN /\ IsPrefix(a.offered, Names(agent.keys))
       /\ a.negotiated <= 1
       /\ a.result = "Authenticated" <=>
            \E i \in taken : (\A j \in broken : i < j) /\ (\A j \in taken : i <= j) /\ Len(a.offered) = i
       /\ a.result = "Authentication" /\ broken = {} => Len(a.offered) = Len(agent.keys)

\* A secret is taken for wrong only if the server, the agent or the key file said so: the
\* kinds of error on which the window forgets or asks again (transport.rs:436, :379).
ASSUME WrongSecretIsSaid ==
  \A file \in {"loads", "encrypted", "wrong passphrase", "missing", "corrupt", "no home"},
     key \in AllKeys, server \in Servers, late \in BOOLEAN :
    LET a == Ssh!Authenticate([kind |-> "key", file |-> file, key |-> key], server, late)
        p == Ssh!Authenticate([kind |-> "password", password |-> key.name], server, late)
    IN /\ a.result = "PrivateKeyPassphrase" <=> file \in {"encrypted", "wrong passphrase"}
       /\ a.result = "Authentication" =>
            ~late /\ file = "loads" /\ key.name \notin server.accepts /\ a.offered = <<key.name>>
       /\ file # "loads" => a.offered = <<>>
       /\ p.result = "Authentication" <=> ~late /\ key.name \notin server.accepts

LOCAL ExecMessages ==
  {[kind |-> k] : k \in {"success", "failure", "close", "eof"}}
    \cup {[kind |-> "status", code |-> c] : c \in {"0", "1"}}
    \cup {[kind |-> "data", data |-> <<"x">>], [kind |-> "extended", data |-> <<"y", "y">>]}
LOCAL KindsOf(messages) == {messages[i].kind : i \in DOMAIN messages}
LOCAL UpToClose(messages) ==
  LET closes == {i \in DOMAIN messages : messages[i].kind = "close"} IN
  IF closes = {} THEN messages
  ELSE SubSeq(messages, 1, CHOOSE i \in closes : \A j \in closes : i <= j)

\* The output of a command is believed if the server accepted it, it did not say it failed
\* and nothing was too long; it is what came before the channel closed, in order
\* (transport.rs:648).
ASSUME OutputIsWhole ==
  \A messages \in SeqOf(ExecMessages, 4) :
    LET heard == UpToClose(messages)
        Of(kind) == SelectSeq(heard, LAMBDA m : m.kind = kind)
        stdout == FlattenSeq([i \in DOMAIN Of("data") |-> Of("data")[i].data])
        statuses == Of("status")
        x == Ssh!Execute(messages)
    IN /\ x.ok <=> /\ "success" \in KindsOf(heard) /\ "failure" \notin KindsOf(heard)
                   /\ Len(stdout) <= 2 /\ Len(Of("extended")) <= 1
                   /\ statuses # <<>> => Last(statuses).code = "0"
       /\ x.output = IF x.ok THEN stdout ELSE <<>>

\* An answer that is not one of the two is no answer (transport.rs:815).
ASSUME AvailabilityIsExact ==
  \A output \in SeqOf({"available", "unavailable", "LF"}, 3) :
    Ssh!Availability(output) # "invalid" => Len(output) = 2 /\ Last(output) = "LF"

\* Closing a chain that was combined says goodbye in the order in which the transports of
\* one that was not would be closed: to the newest first (transport.rs:718, :744).
ASSUME CombinedClosesAlike ==
  \A n \in 1..4 :
    LET transports == [i \in 1..n |-> Ssh!Transport(i, <<>>)]
        nested == <<Ssh!Transport(2, <<1>>)>> \o [i \in 1..n |-> Ssh!Transport(i + 2, <<>>)]
    IN /\ Ssh!DisconnectOrder(Ssh!CombineChain(transports)) = Ssh!DisconnectEstablished(transports)
       /\ Ssh!DisconnectOrder(Ssh!CombineChain(nested)) = Ssh!DisconnectEstablished(nested)
       /\ Ssh!DisconnectEstablished(transports) = [i \in 1..n |-> n + 1 - i]

\* Whatever is called, a session is connected only by way of connecting and authenticating
\* since it last was at rest, and no call but mark_failed leaves Disconnecting for anything
\* but Disconnected (session.rs:54).
ASSUME SessionsGoTheWholeWay ==
  LET Calls == {"begin_connect", "begin_authentication", "mark_connected", "begin_disconnect",
                "mark_disconnected", "mark_failed"}
      Go(trace, call) == Append(trace, Ssh!Transition(Last(trace), call))
      Rest == {"Disconnected", "Failed"}
  IN \A calls \in SeqOf(Calls, 4) :
       LET trace == FoldLeft(Go, <<"Disconnected">>, calls) IN
       \A i \in DOMAIN trace :
         /\ trace[i] = "Connected" =>
              \E a, b, c \in 1..i : /\ a < b /\ b < c /\ trace[a] \in Rest /\ trace[b] = "Connecting"
                                    /\ trace[c] = "Authenticating" /\ \A k \in c..i : trace[k] \notin Rest
         /\ i < Len(trace) /\ trace[i] = "Disconnecting" =>
              trace[i + 1] \in {"Disconnecting", "Disconnected", "Failed"}

---------------------------------------------------------------------------
\* ShellStream on short outputs cut into all pieces: what is hidden, what is shown, and the
\* directories that are found.

LOCAL Shell(startupLimit) ==
  INSTANCE ShellStream WITH StartupLimit <- startupLimit, PayloadLimit <- 5, Absent <- NoOutput

\* The shell is used once both requests were granted, in the order they were made, and a
\* channel that ends, or a refusal, is an error before that (shell.rs:96).
ASSUME BothRequestsGranted ==
  \A replies \in SeqOf({"success", "failure", "eof", "other"}, 4) :
    LET Upto(n) == {i \in 1..n : replies[i] = "success"}
        granted == \E n \in DOMAIN replies :
          /\ \A i \in 1..n : replies[i] \in {"success", "other"}
          /\ \E i, j \in Upto(n) : i < j
    IN Shell(9)!OpenShell(replies) = "open" <=> granted

LOCAL Bytes == {"$", "LF", "rea", "dy"}
LOCAL Data(events) == FlattenSeq([i \in DOMAIN events |-> events[i].data])
LOCAL Said(limit, messages) ==
  LET S == INSTANCE ShellStream WITH StartupLimit <- limit, PayloadLimit <- 5, Absent <- NoOutput
  IN FoldLeft(S!Hear, S!BeginFilter(S!Reader), messages).said
LOCAL Piece(data) == [kind |-> "data", data |-> data]

\* However the output is cut, the installation is hidden up to its marker and what is behind
\* the marker is shown, all of it and once (shell.rs:202).
ASSUME MarkerEndsTheFilter ==
  \A stream \in SeqOf(Bytes, 5), cut \in 0..5, again \in 0..5 :
    cut <= again /\ again <= Len(stream) =>
      LET pieces == <<Piece(SubSeq(stream, 1, cut)), Piece(SubSeq(stream, cut + 1, again)),
                      Piece(SubSeq(stream, again + 1, Len(stream)))>>
          shown == Data(Said(9, pieces))
          markers == {n \in 2..Len(stream) : SubSeq(stream, n - 1, n) = <<"rea", "dy">>}
      IN IF markers = {} THEN shown = <<>>
         ELSE \E n \in markers : (\A k \in markers : n <= k) /\ shown = SubSeq(stream, n + 1, Len(stream))

LOCAL ShellMessages ==
  {Piece(<<"$">>), Piece(<<"LF", "$">>), Piece(<<"LF">>), Piece(<<"rea", "dy", "$">>),
   [kind |-> "extended", data |-> <<"LF">>], [kind |-> "deadline"], [kind |-> "status"], [kind |-> "close"]}
LOCAL HasData(message) == message.kind \in {"data", "extended", "output", "error"}

\* Whether the marker comes, the time or the room runs out or the shell ends: what is shown
\* is the end of what came, the first time behind an erased line if that would be nothing,
\* and the end of the shell is told after it, once (shell.rs:272, :290).
ASSUME WhatIsShownIsTheEnd ==
  \A messages \in SeqOf(ShellMessages, 4), limit \in {2, 9} :
    LET all == FlattenSeq([i \in DOMAIN messages |-> IF HasData(messages[i]) THEN messages[i].data ELSE <<>>])
        said == Said(limit, messages)
        shown == Data(SelectSeq(said, HasData))
        erased == IsPrefix(<<"CR", "clear">>, shown)
        IsEnd(e) == e.kind \in {"status", "close"}
    IN /\ \A i \in DOMAIN said : HasData(said[i]) => said[i].data # <<>>
       /\ IsSuffix(IF erased THEN SubSeq(shown, 3, Len(shown)) ELSE shown, all)
       /\ SelectSeq(said, IsEnd) = SelectSeq(messages, IsEnd)
       /\ said # <<>> /\ IsEnd(said[1]) => all # <<>> /\ \E i \in DOMAIN messages : messages[i] = Piece(<<"rea", "dy", "$">>)
       \* The end is told where it came: what was shown before it came before it.
       /\ messages # <<>> /\ IsEnd(Last(messages)) => IsEnd(Last(said))

\* The first word that names a shell with a hook, wherever that is (shell_integration.rs:10).
ASSUME FirstKnownShell ==
  LET Words == {<<<<"usr">>, <<"bash">>>>, <<<<"-", "zsh">>>>, <<<<"fish">>>>, <<<<"bash">>, <<"fish">>>>} IN
  \A words \in SeqOf(Words, 3) :
    LET kind == Shell(9)!DetectShell(words) IN
    IF \A i \in DOMAIN words : words[i] \in {<<<<"fish">>>>, <<<<"bash">>, <<"fish">>>>} THEN kind = NoOutput
    ELSE \E i \in DOMAIN words :
           /\ kind = IF words[i] = <<<<"-", "zsh">>>> THEN "zsh" ELSE "bash"
           /\ words[i] \notin {<<<<"fish">>>>, <<<<"bash">>, <<"fish">>>>}
           /\ \A j \in 1..(i - 1) : words[j] \in {<<<<"fish">>>>, <<<<"bash">>, <<"fish">>>>}

LOCAL Report(path) == <<"ESC", "]", "7;file://">> \o path \o <<"BEL">>
LOCAL Output == {<<"$">>, <<"ESC", "$">>, <<"ESC", "ESC">>, <<"ESC", "]", "$", "ESC", "\\">>, <<"letter", "second">>}
LOCAL Reports == {<<"/", "$">>, <<"/", "letter", "second">>, <<"/", "%", "2", "0">>}
LOCAL Meaning(path) == IF "%" \in ToSet(path) THEN <<"/", " ">> ELSE path
LOCAL Found(segments) ==
  LET S == INSTANCE ShellStream WITH StartupLimit <- 9, PayloadLimit <- 5, Absent <- NoOutput
  IN S!AdvanceAll(S!Parser, FlattenSeq(segments)).events

LOCAL Segments == Output \cup {Report(path) : path \in Reports}
LOCAL Reported(segments) ==
  LET reports == SelectSeq(segments, LAMBDA s : Len(s) >= 4 /\ s[3] = "7;file://")
  IN [i \in DOMAIN reports |-> Meaning(SubSeq(reports[i], 4, Len(reports[i]) - 1))]

\* The directories reported in an output are found in it, each once and in order, also
\* behind an escape that stands alone or another string (cwd.rs:25).
ASSUME ReportsAreFound ==
  \A segments \in SeqOf(Segments, 3) : Found(segments) = Reported(segments)

\* Whatever the output is cut into, the emulator is given all of it in order, and a report is
\* told right behind its last byte, before what comes after it (engine.rs:60).
ASSUME ReportsKeepTheirPlace ==
  LET S == INSTANCE ShellStream WITH StartupLimit <- 9, PayloadLimit <- 5, Absent <- NoOutput
      Places(s) == S!Given(s) \o Reported(<<s>>)
  IN \A segments \in SeqOf(Segments, 3) :
       LET bytes == FlattenSeq(segments) IN
       \A cut \in 0..Len(bytes) :
         LET one == SubSeq(bytes, 1, cut)
             two == SubSeq(bytes, cut + 1, Len(bytes))
         IN S!Process(S!Parser, one) \o S!Process(S!AdvanceAll(S!Parser, one), two) =
              FlattenSeq([i \in DOMAIN segments |-> Places(segments[i])])

\* A letter whose second byte is that of an 8-bit control hides a report, the one it stands
\* in or the next, but makes up none and hides no other (cwd.rs:31, :42).
ASSUME LettersHideOneReport ==
  LET Letter == <<"letter", "OSC8">>
      There == Report(<<"/", "letter", "ST8">>)
      Here == Report(<<"/", "$">>)
      Beside == Report(<<"/", "%", "2", "0">>)
  IN /\ Found(<<There, Here>>) = <<<<"/", "$">>>>
     /\ Found(<<Letter, Here, Beside>>) = <<<<"/", " ">>>>
     /\ \A segments \in SeqOf({Letter, There, Here, Beside, <<"$">>}, 4) :
          \A i \in DOMAIN Found(segments) : Found(segments)[i] \in {<<"/", "$">>, <<"/", " ">>}

\* A path that is cut, too long, not absolute or has a control in it is reported by nobody.
ASSUME OnlyPathsAreFound ==
  \A path \in SeqOf({"/", "$", "%", "0", "2"}, 4) :
    LET found == Found(<<Report(path)>>) IN
    found # <<>> => /\ Len(found) = 1 /\ found[1][1] = "/"
                    /\ ToSet(found[1]) \cap {"%", "LF"} = {}

---------------------------------------------------------------------------
\* OpenSshConfig against the textual reading of its files and the rule of the first obtained
\* value, on every pair of short files: three lines in the root, one in the file it may
\* include (which may include the root).

LOCAL Config == INSTANCE OpenSshConfig WITH LocalUser <- "me", Unset <- Unset

LOCAL InnerLines ==
  {Config!HostLine(<<Config!Literal("a")>>), Config!Set("user", "u1"), Config!Set("hostname", "x"),
   Config!Include(<<"root">>)}
LOCAL RootLines ==
  {Config!HostLine(<<Config!Literal("a"), Config!Literal("b")>>),
   Config!HostLine(<<Config!Pattern(FALSE, {"a", "b"}), Config!Pattern(TRUE, {"b"})>>),
   Config!MatchLine(<<[on |-> "host", patterns |-> <<Config!Pattern(FALSE, {"x"})>>]>>),
   Config!Unsupported,
   Config!Set("user", "u2"), Config!Set("hostname", "x"), Config!Set("identityfile", Config!Expand),
   Config!SetJumps(<<Config!Named("b"), Config!Hop("u1", "b", Unset)>>),
   Config!SetJumps(<<Config!Named("a"), Config!Named("a")>>),
   Config!Set("proxycommand", "helper"), Config!Include(<<"inner">>)}

LOCAL Contents ==
  {[root |-> r, inner |-> i] : r \in SeqOf(RootLines, 3), i \in {<<line>> : line \in InnerLines}}

\* The lines in the order they are read, an Include giving way to its file.
LOCAL Expanded(lines, inner) ==
  FlattenSeq([i \in DOMAIN lines |-> IF lines[i].kind = "include" THEN inner ELSE <<lines[i]>>])
LOCAL WithoutIncludes(lines) == SelectSeq(lines, LAMBDA l : l.kind # "include")
LOCAL Text(content) == Expanded(content.root, WithoutIncludes(content.inner))

LOCAL ScopeAt(text, i) ==
  LET heads == {j \in 1..i : text[j].kind # "set"} IN
  IF heads = {} THEN [kind |-> "all"] ELSE text[CHOOSE j \in heads : \A k \in heads : k <= j]
LOCAL Settings(text) == SelectSeq([i \in DOMAIN text |-> i], LAMBDA i : text[i].kind = "set")

\* A file is read as if it stood where it is included, so that its last Host or Match goes
\* on behind the Include; one that includes itself is not read again (openssh.rs:782, :804).
ASSUME ReadsInOrder ==
  \A content \in Contents :
    LET text == Text(content)  at == Settings(text)  p == Config!ParseRoot(content, "root") IN
    /\ p.rules = [i \in DOMAIN at |->
         [scope |-> ScopeAt(text, at[i]), set |-> text[at[i]]]]
    /\ p.cycles > 0 <=> content.inner[1].kind = "include" /\ Config!Include(<<"inner">>) \in ToSet(content.root)

\* One pattern after the other, a negated one that matches ends the search (openssh.rs:966).
ASSUME PatternsInTurn ==
  LET Patterns == {Config!Pattern(negated, matches) : negated \in BOOLEAN, matches \in SUBSET {"a", "b"}}
      Look(found, p) == IF found = "no" \/ "a" \notin p.matches THEN found
                        ELSE IF p.negated THEN "no" ELSE "yes"
  IN \A patterns \in SeqOf(Patterns, 3) :
       Config!PatternListMatches(patterns, "a") <=> FoldLeft(Look, "none yet", patterns) = "yes"

LOCAL Applies(scope, alias) ==
  \/ scope.kind = "all"
  \/ scope.kind = "host" /\ Config!PatternListMatches(scope.patterns, alias)

\* Of what the lines for a host set, it obtains the first (openssh.rs:905).
ASSUME FirstObtainedWins ==
  \A content \in {c \in Contents : \A l \in ToSet(c.root) : l.kind # "match"} :
    LET p == Config!ParseRoot(content, "root") IN
    \A alias \in p.aliases :
      LET e == Config!ResolveHost(p.rules, alias)
          about == SelectSeq(p.rules, LAMBDA r : Applies(r.scope, alias))
          Of(keywords) == SelectSeq(about, LAMBDA r : r.set.keyword \in keywords)
          users == Of({"user"})  routes == Of({"proxyjump", "proxycommand"})
      IN /\ e.user = IF users = <<>> THEN Unset ELSE users[1].set.value
         /\ e.route = IF routes = <<>> THEN Unset ELSE routes[1].set

\* A path is expanded with what the host has in the end, whatever line set it
\* (openssh.rs:933).
ASSUME IdentitiesExpandedLast ==
  \A content \in Contents :
    LET p == Config!ParseRoot(content, "root") IN
    \A alias \in p.aliases :
      LET e == Config!ResolveHost(p.rules, alias) IN
      \A i \in ToSet(e.identities) :
        i.tokens = <<Config!HostName(alias, e), Config!Port(e), Config!UserName(e)>>

\* A candidate that can be imported reaches its host through candidates only, none twice
\* and never itself, and by a command or by hosts but not both (openssh.rs:526).
ASSUME RoutesAreWhole ==
  \A content \in Contents :
    LET preview == Config!Preview(content, "root") IN
    \A key \in DOMAIN preview : preview[key].valid =>
      LET jumps == preview[key].jumps IN
      /\ ToSet(jumps) \subseteq DOMAIN preview \ {key} /\ IsInjective(jumps)
      /\ jumps = <<>> \/ preview[key].command = Unset

\* A destination with a user of its own goes to the name it gives, not to the HostName of
\* the host of that name (openssh.rs:377).
ASSUME DestinationsKeepTheirName ==
  \A content \in Contents :
    LET preview == Config!Preview(content, "root") IN
    \A key \in DOMAIN preview :
      preview[key].valid /\ key.user # Unset => preview[key].host = key.host /\ preview[key].user = key.user
============================================================================

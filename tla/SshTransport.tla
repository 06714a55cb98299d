---------------------------- MODULE SshTransport ----------------------------
(***************************************************************************)
(* What one SSH transport does with what the network, the agent and the    *)
(* server answer (remcmd-ssh transport.rs), and the states a session may   *)
(* go through (session.rs).                                                *)
(*                                                                         *)
(* An answer is a record of the outcome; "late" is one that did not come   *)
(* in time. Host keys are the business of ConnectionWorker.                *)
(***************************************************************************)
EXTENDS Naturals, Sequences, SequencesExt

CONSTANT OutputLimit   \* MAX_EXEC_OUTPUT_BYTES

-----------------------------------------------------------------------------
(* race_tcp_connections: one attempt for each address, at the same time.   *)

Unique(addresses) ==
  FoldLeft(LAMBDA found, a : IF Contains(found, a) THEN found ELSE Append(found, a), <<>>, addresses)

\* The attempts end in the order of ends; the first that connects is the stream, and the
\* others are given up.
RaceConnections(addresses, ends) ==
  LET attempts == Unique(addresses)
      Join(r, e) ==
        CASE r.stream # "none" -> r
          [] r.stream = "none" /\ e.connects -> [r EXCEPT !.stream = e.address]
          [] r.stream = "none" /\ ~e.connects -> [r EXCEPT !.failures = Append(@, e.address)]
  IN IF attempts = <<>> THEN [stream |-> "none", failures |-> <<>>, error |-> "unresolved"]
     ELSE LET r == FoldLeft(Join, [stream |-> "none", failures |-> <<>>], ends) IN
          [stream |-> r.stream, failures |-> r.failures,
           error |-> IF r.stream = "none" THEN "all failed" ELSE "no"]

-----------------------------------------------------------------------------
(* Authentication: what is offered, what is asked, and how it ends.        *)

Attempt == [offered |-> <<>>, negotiated |-> 0, result |-> "trying"]
Ends(a, result) == [a EXCEPT !.result = result]

\* validate_authentication_result.
Answered(a, success) == Ends(a, IF success THEN "Authenticated" ELSE "Authentication")

\* load_private_key: a wrong passphrase is told from a file that is no key.
LoadError(file) ==
  CASE file \in {"encrypted", "wrong passphrase"} -> "PrivateKeyPassphrase"
    [] file \in {"missing", "corrupt", "no home"} -> "Configuration"

\* Of an RSA key the hash is negotiated with the server, once for all keys of an agent.
Negotiate(a, key, server) ==
  CASE ~key.rsa \/ a.negotiated > 0 -> a
    [] key.rsa /\ a.negotiated = 0 /\ server.negotiates -> [a EXCEPT !.negotiated = 1]
    [] key.rsa /\ a.negotiated = 0 /\ ~server.negotiates -> Ends(a, "Network")

Offer(a, key) == IF a.result = "trying" THEN [a EXCEPT !.offered = Append(@, key.name)] ELSE a

\* One identity of the agent; a rejected one is followed by the next.
TryIdentity(server, a, key) ==
  IF a.result # "trying" THEN a
  ELSE LET b == Offer(Negotiate(a, key, server), key) IN
       CASE b.result # "trying" -> b
         [] b.result = "trying" /\ ~key.signs -> Ends(b, "Authentication")
         [] b.result = "trying" /\ key.signs /\ key.name \in server.accepts -> Ends(b, "Authenticated")
         [] OTHER -> b

AuthenticateWithAgent(agent, server) ==
  CASE agent.state = "absent" -> Ends(Attempt, "Configuration")
    [] agent.state = "locked" -> Ends(Attempt, "Authentication")
    [] agent.state = "ready" ->
         LET a == FoldLeft(LAMBDA b, key : TryIdentity(server, b, key), Attempt, agent.keys) IN
         IF a.result = "trying" THEN Ends(a, "Authentication") ELSE a

AuthenticateWithKey(auth, server) ==
  IF auth.file # "loads" THEN Ends(Attempt, LoadError(auth.file))
  ELSE LET a == Offer(Negotiate(Attempt, auth.key, server), auth.key) IN
       IF a.result # "trying" THEN a ELSE Answered(a, auth.key.name \in server.accepts)

\* authenticate_with_timeout: the answer of the server has its time; the agent has one time
\* for all it does; loading a key and negotiating for it have none.
Authenticate(auth, server, late) ==
  LET a == CASE auth.kind = "none" -> Answered(Offer(Attempt, [name |-> "none"]), "none" \in server.accepts)
             [] auth.kind = "password" ->
                  Answered(Offer(Attempt, [name |-> auth.password]), auth.password \in server.accepts)
             [] auth.kind = "key" -> AuthenticateWithKey(auth, server)
             [] auth.kind = "agent" -> AuthenticateWithAgent(auth.agent, server)
      asked == auth.kind # "key" \/ a.offered # <<>>
  IN IF late /\ asked THEN Ends(a, "Timeout") ELSE a

-----------------------------------------------------------------------------
(* execute: a command and the messages of its channel.                     *)

Running == [accepted |-> FALSE, stdout |-> <<>>, stderr |-> <<>>, status |-> "none", end |-> "no"]

\* append_command_output.
Fits(output, data) == Len(output) + Len(data) <= OutputLimit

ExecStep(x, message) ==
  CASE x.end # "no" -> x
    [] x.end = "no" /\ message.kind = "success" -> [x EXCEPT !.accepted = TRUE]
    [] x.end = "no" /\ message.kind = "failure" -> [x EXCEPT !.end = "rejected"]
    [] x.end = "no" /\ message.kind = "data" ->
         IF Fits(x.stdout, message.data) THEN [x EXCEPT !.stdout = @ \o message.data]
         ELSE [x EXCEPT !.end = "too long"]
    [] x.end = "no" /\ message.kind = "extended" ->
         IF Fits(x.stderr, message.data) THEN [x EXCEPT !.stderr = @ \o message.data]
         ELSE [x EXCEPT !.end = "too long"]
    [] x.end = "no" /\ message.kind = "status" -> [x EXCEPT !.status = message.code]
    [] x.end = "no" /\ message.kind = "close" -> [x EXCEPT !.end = "closed"]
    [] OTHER -> x

\* The messages end when the channel does. A command without a status succeeded.
Execute(messages) ==
  LET x == FoldLeft(ExecStep, Running, messages) IN
  IF x.end \in {"no", "closed"} /\ x.accepted /\ x.status \in {"none", "0"}
  THEN [ok |-> TRUE, output |-> x.stdout] ELSE [ok |-> FALSE, output |-> <<>>]

\* parse_transfer_availability: an exact answer.
Availability(output) ==
  CASE output = <<"available", "LF">> -> "yes"
    [] output = <<"unavailable", "LF">> -> "no"
    [] OTHER -> "invalid"

-----------------------------------------------------------------------------
(* The transports of a chain, oldest first; each may hold those it runs    *)
(* through.                                                                *)

Transport(handle, upstream) == [handle |-> handle, upstream |-> upstream]

\* combine_chain: the last transport holds the handles of all the others.
CombineChain(transports) ==
  Transport(Last(transports).handle,
            FlattenSeq([i \in 1..(Len(transports) - 1) |->
                          transports[i].upstream \o <<transports[i].handle>>])
              \o Last(transports).upstream)

\* disconnect: its own handle first, then those it runs through, the newest first; an
\* error stops none of them.
DisconnectOrder(transport) == <<transport.handle>> \o Reverse(transport.upstream)

\* disconnect_established.
DisconnectEstablished(transports) ==
  FlattenSeq([i \in DOMAIN transports |-> DisconnectOrder(Reverse(transports)[i])])

-----------------------------------------------------------------------------
(* SshSession: its calls, each refused in a state that is not its own.     *)

\* Where a call may be made, and where it leads.
From(call) ==
  CASE call = "begin_connect" -> {"Disconnected", "Failed"}
    [] call = "begin_authentication" -> {"Connecting"}
    [] call = "mark_connected" -> {"Authenticating"}
    [] call = "begin_disconnect" -> {"Connecting", "Authenticating", "Connected"}
    [] call = "mark_disconnected" -> {"Disconnecting"}
    [] call = "mark_failed" ->
         {"Disconnected", "Connecting", "Authenticating", "Connected", "Disconnecting", "Failed"}

To(call) ==
  CASE call = "begin_connect" -> "Connecting"
    [] call = "begin_authentication" -> "Authenticating"
    [] call = "mark_connected" -> "Connected"
    [] call = "begin_disconnect" -> "Disconnecting"
    [] call = "mark_disconnected" -> "Disconnected"
    [] call = "mark_failed" -> "Failed"

Transition(state, call) == IF state \in From(call) THEN To(call) ELSE state
=============================================================================

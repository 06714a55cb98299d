------------------------------ MODULE ScpSink ------------------------------
(***************************************************************************)
(* The SCP side of an upload (scp.rs): the client answers an "scp -t" on   *)
(* the server with a header, the file and a zero byte, and reads one       *)
(* acknowledgement before each. What the server does is a sequence of      *)
(* channel messages, complete before the conversation starts: the client   *)
(* takes one after the other when it waits, and a server that has no more  *)
(* to say is one that is waited for until the ten seconds are over. A      *)
(* "Cancel" among them is the user's, at that place.                       *)
(***************************************************************************)
EXTENDS Naturals, Sequences, SequencesExt

CONSTANT MaxScpErrorBytes   \* of standard error kept for the message (scp.rs:21)

\* Bytes of paths and acknowledgements.
Nul == 0
Newline == 10
Quote == 39
Backslash == 92
Slash == 47

---------------------------------------------------------------------------
\* Paths in commands (scp.rs:326-357).

ShellQuote(value) ==
  [valid |-> \A i \in DOMAIN value : value[i] # Nul,
   word |-> <<Quote>>
            \o FlattenSeq([i \in DOMAIN value |-> IF value[i] = Quote
                                                  THEN <<Quote, Backslash, Quote, Quote>>
                                                  ELSE <<value[i]>>])
            \o <<Quote>>]

\* What is behind the last slash, the trailing ones cut off; empty is refused.
RemoteFileName(path) ==
  LET kept == {i \in DOMAIN path : path[i] # Slash}
      end == IF kept = {} THEN 0 ELSE CHOOSE i \in kept : \A j \in kept : j <= i
      slashes == {i \in 1..end : path[i] = Slash}
      start == IF slashes = {} THEN 0 ELSE CHOOSE i \in slashes : \A j \in slashes : j <= i
  IN SubSeq(path, start + 1, end)

\* "mkdir -p" for one path after the other; the first that fails ends it.
CreateDirectories(paths, refused) ==
  LET bad == {i \in DOMAIN paths : ~ShellQuote(paths[i]).valid \/ paths[i] \in refused}
      end == IF bad = {} THEN Len(paths) + 1 ELSE CHOOSE i \in bad : \A j \in bad : i <= j
  IN [made |-> SubSeq(paths, 1, end - 1), ok |-> bad = {}]

---------------------------------------------------------------------------
\* Acknowledgements.

AppendScpError(output, data) ==
  LET all == output \o data IN
  IF Len(all) <= MaxScpErrorBytes THEN all ELSE SubSeq(all, 1, MaxScpErrorBytes)

\* Zero is an acknowledgement, one and two begin an error that ends with its line.
TakeScpAck(stdout) ==
  CASE stdout = <<>> -> "Wait"
    [] stdout # <<>> /\ stdout[1] = 0 -> "Ok"
    [] stdout # <<>> /\ stdout[1] \in {1, 2} ->
         IF \E i \in DOMAIN stdout : stdout[i] = Newline THEN "Rejected" ELSE "Wait"
    [] OTHER -> "Protocol"

\* A wait looks at what it has, then at the user, then takes the next message.
Settle(s) ==
  LET taken == TakeScpAck(s.stdout) IN
  CASE taken # "Wait" -> [s EXCEPT !.result = taken,
                                   !.stdout = IF taken = "Ok" THEN Tail(@) ELSE @]
    [] taken = "Wait" /\ s.cancelled -> [s EXCEPT !.result = "Cancelled"]
    [] OTHER -> s

Receive(s, message) ==
  CASE message.kind = "Data" -> [s EXCEPT !.stdout = @ \o message.data]
    [] message.kind = "Stderr" -> [s EXCEPT !.stderr = AppendScpError(@, message.data)]
    [] message.kind = "ExitStatus" ->
         [s EXCEPT !.status = message.status, !.result = IF message.status = 0 THEN @ ELSE "Ended"]
    [] message.kind \in {"Eof", "Close", "ExitSignal"} -> [s EXCEPT !.result = "Ended"]
    [] message.kind = "Failure" -> [s EXCEPT !.result = "Protocol"]
    [] message.kind = "Cancel" -> [s EXCEPT !.cancelled = TRUE]
    [] OTHER -> s

AckStep(s, message) ==
  IF s.result # "Waiting" THEN [s EXCEPT !.left = Append(@, message)]
  ELSE LET r == Receive(s, message) IN IF r.result = "Waiting" THEN Settle(r) ELSE r

ReadScpAck(s) ==
  LET r == FoldLeft(AckStep, Settle([s EXCEPT !.result = "Waiting", !.left = <<>>]), s.left)
  IN [r EXCEPT !.result = IF @ = "Waiting" THEN "Timeout" ELSE @]

---------------------------------------------------------------------------
\* The end: the status counts if there is one, whatever else is written or closed.

ExitStep(s, message) ==
  CASE s.result # "Waiting" -> s
    [] s.result = "Waiting" /\ message.kind = "ExitStatus" -> [s EXCEPT !.status = message.status]
    [] s.result = "Waiting" /\ message.kind = "Stderr" ->
         [s EXCEPT !.stderr = AppendScpError(@, message.data)]
    [] s.result = "Waiting" /\ message.kind = "Close" -> [s EXCEPT !.result = "Closed"]
    [] s.result = "Waiting" /\ message.kind = "ExitSignal" -> [s EXCEPT !.result = "Ended"]
    [] OTHER -> s

WaitForScpExit(s) ==
  LET r == FoldLeft(ExitStep, [s EXCEPT !.result = "Waiting"], s.left) IN
  [r EXCEPT !.result = CASE r.result = "Waiting" -> "Timeout"
                         [] r.result = "Closed" -> IF r.status = 0 THEN "Ok" ELSE "Ended"
                         [] OTHER -> @]

---------------------------------------------------------------------------
\* copy_to_scp_sink: the user may have cancelled when `keeps` chunks are sent.

Then(s, Next(_)) == IF s.result = "Ok" THEN Next(s) ELSE s
Send(s, item) == [s EXCEPT !.sent = Append(@, item)]

SendChunks(s, chunks, keeps) ==
  IF keeps < Len(chunks) \/ s.cancelled
  THEN [s EXCEPT !.sent = @ \o SubSeq(chunks, 1, IF s.cancelled THEN 0 ELSE keeps),
                 !.result = "Cancelled"]
  ELSE [s EXCEPT !.sent = @ \o chunks]

CopyToScpSink(file, messages, keeps) ==
  LET start == [left |-> messages, stdout |-> <<>>, stderr |-> <<>>, status |-> 0,
                cancelled |-> FALSE, result |-> "Ok", sent |-> <<>>]
      header == [mode |-> file.mode, total |-> file.total, name |-> file.name]
      opened == ReadScpAck(start)
      named == Then(opened, LAMBDA s : ReadScpAck(Send(s, header)))
      copied == Then(named, LAMBDA s : SendChunks(s, file.chunks, keeps))
      ended == Then(copied, LAMBDA s : ReadScpAck(Send(s, Nul)))
  IN Then(ended, WaitForScpExit)
============================================================================

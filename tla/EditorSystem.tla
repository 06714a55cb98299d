---------------------------- MODULE EditorSystem ----------------------------
(***************************************************************************)
(* The remote editor of every session, the file workers that carry out its *)
(* requests, the files themselves, and the exit of the window.             *)
(*                                                                         *)
(* A session has one connection after another.  Each has a queue of        *)
(* commands, a worker that takes them in order, and events of its own.  A  *)
(* save is not one step at the server: the worker reads the file, compares *)
(* it with what the editor was given, truncates it and writes it, and the  *)
(* connection may be lost, or someone else may write, between any two.     *)
(* All sessions are on the same host.                                      *)
(*                                                                         *)
(* The worker of a connection that has ended still answers what it was     *)
(* given, and the window hears events by session: an answer to the old     *)
(* connection may be heard in the new one, which counts its requests from  *)
(* 1 again.                                                                *)
(*                                                                         *)
(* The exit (lifecycle.rs) asks about edits, waits for saves, asks about   *)
(* transfers and looks again before the window goes, while the user and    *)
(* the connections go on.                                                  *)
(***************************************************************************)
EXTENDS RemoteEditor

CONSTANTS
  Sessions,       \* the sessions of the window
  InitialText,    \* what the files hold at first
  MaxConnections, \* bound: the connections of a session, one after another
  MaxRequests,    \* bound: ids the user spends on a connection
  MaxUnheard,     \* bound: requests of a connection sent or answered and not heard of
  MaxTroubles     \* bound: what happens beside the editing, until the window closes

ASSUME InitialTextAssumption == InitialText \in Texts
ASSUME BoundsAssumption == /\ MaxConnections \in Nat \ {0} /\ MaxRequests \in Nat
                           /\ MaxUnheard \in Nat \ {0} /\ MaxTroubles \in Nat

Connections == Sessions \X (1..MaxConnections)

VARIABLES
  session,    \* the sessions of the window
  alive,      \* the connections that still take commands
  sent,       \* what each connection was told to do and its worker has not done
  stage,      \* how far the worker of each is with the save it carries out
  answers,    \* the events of each connection
  remote,     \* the contents of the files
  exit,       \* the exit under way, and the consents given in it
  open,       \* the window is there
  failed,     \* history: the sessions whose save failed, with the edit unsaved, while the
              \* exit waited for saves, and whose user has not turned to the file since
  troubles    \* history: the files created, deleted and written by others, the transfers
              \* begun and the connections lost

windowVars == <<session, exit, open, failed>>
workerVars == <<alive, sent, stage, answers>>
vars == <<windowVars, workerVars, remote, troubles>>

NoExit == [phase |-> "None", discard |-> FALSE, stop |-> FALSE]

\* The connection the session has, or had last, a handle of.
Current(s) == <<s, session[s].conn>>
Live(s)    == Current(s) \in alive

Init ==
  /\ session = [s \in Sessions |-> NewSession(1)]
  /\ alive = {<<s, 1>> : s \in Sessions}
  /\ sent = [c \in Connections |-> <<>>]
  /\ stage = [c \in Connections |-> "Idle"]
  /\ answers = [c \in Connections |-> <<>>]
  /\ remote = [p \in Files |-> InitialText]
  /\ exit = NoExit /\ open = TRUE /\ failed = {} /\ troubles = 0

\* The session is left as a handler leaves it, and the commands are on their way.
Leave(s, result) ==
  /\ session' = [session EXCEPT ![s] = [result EXCEPT !.out = <<>>]]
  /\ sent' = [sent EXCEPT ![Current(s)] = @ \o result.out]

-----------------------------------------------------------------------------
(* What the user does with a session that is there.                        *)

Unheard(s) == Len(sent[Current(s)]) + Len(answers[Current(s)])

Act(s, result) ==
  /\ session[s].state # "Removed" /\ ~session[s].closing
  /\ result # session[s]
  /\ result.next > session[s].next => Unheard(s) < MaxUnheard /\ session[s].next <= MaxRequests
  /\ Leave(s, result)
  /\ failed' = failed \ {s}
  /\ UNCHANGED <<exit, open, alive, stage, answers, remote>>

ShowFiles(s) == Act(s, EnsureDirectory(session[s], Live(s)))

\* From either list, whatever the editor shows.
OpenFile(s, path) == Act(s, OpenRemoteFile(session[s], Live(s), path))

Type(s, text) ==
  /\ \E f \in session[s].file : f.editor # {}
  /\ Act(s, Edit(session[s], text))

Save(s) == Act(s, SaveRemoteFile(session[s], Live(s)))

\* The button is there for a file that is dirty and not being saved.
Revert(s) ==
  /\ Dirty(session[s]) /\ ~Saving(session[s])
  /\ Act(s, RevertRemoteFile(session[s]))

CloseFile(s) ==
  /\ ~Saving(session[s])
  /\ Act(s, CloseRemoteFile(session[s]))

\* submit_sftp_create and delete_selected_sftp_entries: only the handle is asked for.
Ask(s, command) ==
  /\ HasHandle(session[s])
  /\ LET r == [session[s] EXCEPT !.next = @ + 1]
     IN  Act(s, IF Live(s) THEN Send(r, command) ELSE r)

CreateFile(s, path, placement) ==
  Ask(s, [op |-> "CreateFile", path |-> path, placement |-> placement])

DeletePaths(s, path, placement) ==
  Ask(s, [op |-> "DeletePaths", path |-> path, placement |-> placement])

\* A transfer is queued or running; its queue is the business of TransferQueue.
StartTransfer(s) ==
  /\ session[s].state = "Connected" /\ ~session[s].transfers
  /\ Unheard(s) < MaxUnheard
  /\ Act(s, [session[s] EXCEPT !.transfers = TRUE])

\* The terminal stays, with what is open beside it.
DisconnectActive(s) == Act(s, DisconnectSession(session[s], Live(s)))

\* An edit that is not saved keeps the tab of its session open.
CloseTab(s) ==
  /\ ~Dirty(session[s])
  /\ Act(s, CloseSession(session[s], Live(s)))

\* The button of a terminal that has ended: nothing is asked.
CloseEnded(s) ==
  /\ session[s].state = "Disconnected"
  /\ Act(s, CloseSession(session[s], Live(s)))

\* The next connection of the session; nothing is asked about its file either.
Reconnect(s) ==
  /\ session[s].state = "Disconnected" /\ session[s].conn < MaxConnections
  /\ session' = [session EXCEPT ![s] = StartConnection(@)]
  /\ alive' = alive \cup {<<s, session[s].conn + 1>>}
  /\ UNCHANGED <<exit, open, failed, sent, stage, answers, remote>>

UserStep(s) ==
  \/ ShowFiles(s) \/ Save(s) \/ Revert(s) \/ CloseFile(s)
  \/ DisconnectActive(s) \/ CloseTab(s) \/ CloseEnded(s) \/ Reconnect(s)
  \/ \E path \in Files : OpenFile(s, path)
  \/ \E text \in Texts : Type(s, text)

ListStep(s) ==
  \/ StartTransfer(s)
  \/ \E path \in Files, placement \in Placements :
       CreateFile(s, path, placement) \/ DeletePaths(s, path, placement)

-----------------------------------------------------------------------------
(* The file worker (remote_files.rs, sftp.rs), of a connection c.          *)

Answer(c, answer) == answers' = [answers EXCEPT ![c] = Append(@, answer)]

Takes(c, op) == sent[c] # <<>> /\ Head(sent[c]).op = op

Done(c) == sent' = [sent EXCEPT ![c] = Tail(@)]

\* Whoever has read or written the file before is no longer current.
Outdated(r, path) ==
  [r EXCEPT !.file = {[f EXCEPT !.current = @ /\ f.path # path] : f \in @}]
OutdatedAnswers(queue, path) ==
  [i \in DOMAIN queue |->
     IF "current" \in DOMAIN queue[i] /\ queue[i].path = path
     THEN [queue[i] EXCEPT !.current = FALSE] ELSE queue[i]]

\* A file gets new contents; the workers that did it, if one did, say so or do not yet.
Store(path, contents, by, answer) ==
  /\ remote' = [remote EXCEPT ![path] = contents]
  /\ answers' = [c \in Connections |-> OutdatedAnswers(answers[c], path)
                                        \o (IF c \in by THEN answer ELSE <<>>)]
  /\ session' = [s \in Sessions |-> Outdated(session[s], path)]

\* Any request may be refused or time out, a save also after it has truncated the file.
FailRequested(c) ==
  /\ sent[c] # <<>>
  /\ LET command == Head(sent[c])
     IN  Answer(c, IF command.op \in {"ReadDirectory", "ReadFile", "WriteFile"}
                   THEN [kind |-> "SftpFailed", op |-> command.op, id |-> command.id]
                   ELSE [kind |-> "SftpFailed", op |-> command.op])
  /\ Done(c)
  /\ stage' = [stage EXCEPT ![c] = "Idle"]
  /\ UNCHANGED <<windowVars, alive, remote>>

ReadDirectory(c) ==
  /\ Takes(c, "ReadDirectory")
  /\ Answer(c, [kind |-> "DirectoryRead", id |-> Head(sent[c]).id])
  /\ Done(c)
  /\ UNCHANGED <<windowVars, alive, stage, remote>>

ReadFile(c) ==
  /\ Takes(c, "ReadFile")
  /\ LET command == Head(sent[c]) IN
       /\ remote[command.path] # Absent
       /\ Answer(c, [kind |-> "FileRead", id |-> command.id,
                     path |-> command.path, text |-> remote[command.path],
                     current |-> TRUE])
  /\ Done(c)
  /\ UNCHANGED <<windowVars, alive, stage, remote>>

\* write_file reads the file again, and goes on only if it is what the editor was given.
Compare(c) ==
  /\ Takes(c, "WriteFile") /\ stage[c] = "Idle"
  /\ LET command == Head(sent[c]) IN remote[command.path] = command.expected
  /\ stage' = [stage EXCEPT ![c] = "Compared"]
  /\ UNCHANGED <<windowVars, alive, sent, answers, remote>>

Truncate(c) ==
  /\ Takes(c, "WriteFile") /\ stage[c] = "Compared"
  /\ Store(Head(sent[c]).path, Empty, {c}, <<>>)
  /\ stage' = [stage EXCEPT ![c] = "Truncated"]
  /\ UNCHANGED <<exit, open, failed, alive, sent>>

WriteContents(c) ==
  /\ Takes(c, "WriteFile") /\ stage[c] = "Truncated"
  /\ LET command == Head(sent[c]) IN
       \E answer \in {[kind |-> "FileWritten", id |-> command.id, path |-> command.path,
                       text |-> command.text, current |-> TRUE],
                      [kind |-> "SftpFailed", op |-> "WriteFile", id |-> command.id]} :
         Store(command.path, command.text, {c}, <<answer>>)
  /\ Done(c)
  /\ stage' = [stage EXCEPT ![c] = "Idle"]
  /\ UNCHANGED <<exit, open, failed, alive>>

\* A file that is there is never replaced by a new one.
CreateRequested(c) ==
  /\ Takes(c, "CreateFile")
  /\ LET command == Head(sent[c]) IN
       /\ remote[command.path] = Absent
       /\ Store(command.path, Empty, {c}, <<[kind |-> "PathCreated", path |-> command.path,
                                            placement |-> command.placement]>>)
  /\ Done(c)
  /\ UNCHANGED <<exit, open, failed, alive, stage>>

DeleteRequested(c) ==
  /\ Takes(c, "DeletePaths")
  /\ LET command == Head(sent[c]) IN
       /\ remote[command.path] # Absent
       /\ Store(command.path, Absent, {c}, <<[kind |-> "PathsDeleted",
                                             placement |-> command.placement]>>)
  /\ Done(c)
  /\ UNCHANGED <<exit, open, failed, alive, stage>>

\* Transfers run beside the requests.  A connection that has ended still tells of its own,
\* one of which the next connection may have taken up again.
TransferEnds(c) ==
  /\ session[c[1]].transfers /\ c[2] <= session[c[1]].conn
  /\ ~\E i \in DOMAIN answers[c] : answers[c][i].kind = "TransferEnded"
  /\ \E uploaded \in BOOLEAN : Answer(c, [kind |-> "TransferEnded", uploaded |-> uploaded])
  /\ UNCHANGED <<windowVars, alive, sent, stage, remote>>

\* The connection ends.  Its worker keeps what has been passed on to it, a beginning of
\* what was sent, and goes on with it: a connection that has failed is closed after it
\* has said so, and what can no longer be done then is answered as a failure.
Ends(c) ==
  /\ c \in alive
  /\ alive' = alive \ {c}
  /\ \E n \in 0..Len(sent[c]) :
       /\ stage[c] # "Idle" => n > 0
       /\ sent' = [sent EXCEPT ![c] = SubSeq(@, 1, n)]
  /\ Answer(c, [kind |-> "Disconnected"])
  /\ UNCHANGED <<windowVars, stage, remote>>

Lose(c) == Ends(c)

\* A connection that was told to, or of which nobody has a handle any more.
Disconnect(c) ==
  /\ c # Current(c[1]) \/ session[c[1]].state # "Connected"
  /\ Ends(c)

WorkerStep(c) ==
  \/ FailRequested(c) \/ ReadDirectory(c) \/ ReadFile(c) \/ Compare(c) \/ Truncate(c)
  \/ WriteContents(c) \/ CreateRequested(c) \/ DeleteRequested(c)

\* Another program on the host.
OutsideWrite(path, text) ==
  /\ remote[path] # text
  /\ Store(path, text, {}, <<>>)
  /\ UNCHANGED <<exit, open, failed, alive, sent, stage>>

-----------------------------------------------------------------------------
(* The window hears of an answer (handle_connection_event): whichever      *)
(* connection gave it, it is taken as one to the session.                  *)

Heard(s, a, activeSession) ==
  LET r == session[s] IN
    IF r.state = "Removed" THEN r
    ELSE CASE a.kind = "DirectoryRead" -> CompleteRequest(r, a.id)
           [] a.kind = "FileRead"      -> CompleteRead(r, a)
           [] a.kind = "FileWritten"   -> CompleteWrite(r, a)
           [] a.kind = "PathCreated"   -> PathCreated(r, Live(s), a, activeSession)
           [] a.kind = "PathsDeleted"  -> PathsDeleted(r, Live(s), a)
           [] a.kind = "TransferEnded" -> TransferEnded(r, Live(s), a)
           [] a.kind = "Disconnected"  -> Disconnected(r)
           [] a.kind = "SftpFailed" ->
                IF a.op = "ReadDirectory" THEN FailRequest(r, a.id)
                ELSE IF a.op \in {"ReadFile", "WriteFile"} THEN FailFileRequest(r, a.op, a.id)
                ELSE r

Hear(c) ==
  /\ answers[c] # <<>>
  /\ LET s == c[1]
         a == Head(answers[c])
     IN  \E activeSession \in BOOLEAN :
           LET r == Heard(s, a, activeSession) IN
             /\ Leave(s, r)
             /\ failed' = IF /\ exit.phase = "Saving" /\ a.kind \in {"SftpFailed", "Disconnected"}
                             /\ Saving(session[s]) /\ ~Saving(r) /\ Dirty(r)
                          THEN failed \cup {s} ELSE failed
  /\ answers' = [answers EXCEPT ![c] = Tail(@)]
  /\ UNCHANGED <<exit, open, alive, stage, remote>>

-----------------------------------------------------------------------------
(* The exit of the window (request_exit).                                  *)

SaveProgress(w) ==
  IF \E s \in Sessions : Saving(w[s]) THEN "Waiting"
  ELSE IF \E s \in Sessions : Dirty(w[s]) THEN "Blocked"
  ELSE "Ready"

PendingTransfers == \E s \in Sessions : session[s].transfers

Quiet == UNCHANGED <<workerVars, remote>>

Finish(discard, stop) ==
  /\ open' = FALSE
  /\ exit' = [phase |-> "None", discard |-> discard, stop |-> stop]

\* request_exit, when no exit is under way.
BeginExit ==
  IF SaveProgress(session) = "Ready" /\ ~PendingTransfers
  THEN Finish(FALSE, FALSE)
  ELSE /\ exit' = [NoExit EXCEPT !.phase = IF SaveProgress(session) = "Ready" THEN "Starting"
                                           ELSE "AskingSave"]
       /\ UNCHANGED open

\* Wrong: the edits made while a question was open are not looked for.
FinalWithoutLook(discard, stop) == Finish(discard, stop)

\* "Edits may have arrived while a transfer confirmation was open."
Final(discard, stop) ==
  IF ~discard /\ SaveProgress(session) # "Ready" THEN BeginExit ELSE Finish(discard, stop)

\* Transfers that are not finished are asked about.
Proceed(discard) ==
  IF PendingTransfers
  THEN exit' = [phase |-> "AskingTransfers", discard |-> discard, stop |-> FALSE] /\ UNCHANGED open
  ELSE Final(discard, FALSE)

GiveUp == exit' = NoExit /\ UNCHANGED open

RequestExit ==
  /\ exit.phase = "None"
  /\ BeginExit
  /\ failed' = {}
  /\ UNCHANGED session /\ Quiet

StartExit ==
  /\ exit.phase = "Starting"
  /\ Proceed(FALSE)
  /\ UNCHANGED <<session, failed>> /\ Quiet

\* Every file that is dirty and not being saved is saved, and looked at once.
AnswerSaveAll ==
  /\ exit.phase = "AskingSave"
  /\ \A s \in Sessions : CanSave(session[s]) => session[s].next <= MaxRequests
  /\ LET saved == [s \in Sessions |-> IF Dirty(session[s]) /\ ~Saving(session[s])
                                      THEN SaveRemoteFile(session[s], Live(s)) ELSE session[s]]
     IN  /\ session' = [s \in Sessions |-> [saved[s] EXCEPT !.out = <<>>]]
         /\ sent' = [c \in Connections |->
              IF c = Current(c[1]) THEN sent[c] \o saved[c[1]].out ELSE sent[c]]
         /\ CASE SaveProgress(saved) = "Waiting" ->
                   exit' = [NoExit EXCEPT !.phase = "Saving"] /\ UNCHANGED open
              [] SaveProgress(saved) = "Blocked" -> GiveUp
              [] SaveProgress(saved) = "Ready"   -> Proceed(FALSE)
  /\ failed' = {}
  /\ UNCHANGED <<alive, stage, answers, remote>>

AnswerDiscard ==
  /\ exit.phase = "AskingSave"
  /\ Proceed(TRUE)
  /\ UNCHANGED <<session, failed>> /\ Quiet

AnswerCancel ==
  /\ exit.phase \in {"AskingSave", "AskingTransfers"}
  /\ GiveUp
  /\ UNCHANGED <<session, failed>> /\ Quiet

\* Looked at every 100 ms.
SavesAreDone ==
  /\ exit.phase = "Saving"
  /\ SaveProgress(session) = "Ready"
  /\ Proceed(FALSE)
  /\ UNCHANGED <<session, failed>> /\ Quiet

\* A save failed or text was typed, or a save takes longer than 60 s.
SavesAreNotDone ==
  /\ exit.phase = "Saving"
  /\ SaveProgress(session) # "Ready"
  /\ GiveUp
  /\ UNCHANGED <<session, failed>> /\ Quiet

AnswerStop ==
  /\ exit.phase = "AskingTransfers"
  /\ Final(exit.discard, TRUE)
  /\ UNCHANGED <<session, failed>> /\ Quiet

ExitStep ==
  \/ RequestExit \/ StartExit \/ AnswerSaveAll \/ AnswerDiscard \/ AnswerCancel
  \/ SavesAreDone \/ SavesAreNotDone \/ AnswerStop

-----------------------------------------------------------------------------
Course ==
  \/ \E s \in Sessions : UserStep(s)
  \/ \E c \in Connections : WorkerStep(c) \/ Hear(c) \/ TransferEnds(c) \/ Disconnect(c)
  \/ ExitStep

Trouble ==
  \/ \E s \in Sessions : ListStep(s)
  \/ \E c \in Connections : Lose(c)
  \/ \E path \in Files, text \in Texts : OutsideWrite(path, text)

Next ==
  /\ open
  /\ \/ Course /\ UNCHANGED troubles
     \/ Trouble /\ troubles < MaxTroubles /\ troubles' = troubles + 1

\* A request is answered, refused or timed out, a closed connection ends, and the window
\* handles its events and polls: the user and the network owe nothing.
Fairness ==
  /\ \A c \in Connections :
       WF_vars(open /\ WorkerStep(c) /\ UNCHANGED troubles)
         /\ WF_vars(open /\ Hear(c) /\ UNCHANGED troubles)
         /\ WF_vars(open /\ Disconnect(c) /\ UNCHANGED troubles)
  /\ WF_vars(open /\ (StartExit \/ SavesAreDone \/ SavesAreNotDone) /\ UNCHANGED troubles)

Spec == Init /\ [][Next]_vars /\ Fairness

-----------------------------------------------------------------------------
\* A session and its file are of their types, and what they wait for is what they say: the
\* file is loading, or being saved, exactly while the id of that request is kept for its
\* answer, and so is the listing of a connected session (state.rs:66-73, 402-415).
EditorTypeOK ==
  /\ \A s \in Sessions : LET r == session[s] IN
       /\ r.state \in {"Connected", "Disconnecting", "Disconnected", "Removed"}
       /\ r.conn \in 1..MaxConnections /\ r.next \in Nat \ {0}
       /\ r.loading => r.active # {}
       /\ r.state = "Connected" => (r.loading <=> r.active # {})
       /\ r.state = "Removed" => r.file = {} /\ r.active = {}
       /\ \A f \in r.file :
            /\ f.path \in Files /\ f.original \in Contents /\ f.editor \subseteq Contents
            /\ f.loading <=> f.read # {}
            /\ f.saving <=> f.write # {}
  /\ alive \subseteq Connections
  /\ remote \in [Files -> Contents \cup {Absent}]
  /\ exit.phase \in {"None", "Starting", "AskingSave", "Saving", "AskingTransfers"}
  /\ failed \subseteq Sessions

\* What the editor shows as saved is what the file it names holds, unless someone has changed
\* that since the editor read or wrote it: neither a late answer, an answer to a request of
\* the connection before that bears the same id, text typed during a save, nor a save whose
\* answer was lost makes an editor clean that is not (operations.rs:331-452, sftp.rs:752-784,
\* connection_flow.rs:842).
CleanMeansSaved ==
  \A s \in Sessions : \A f \in session[s].file :
    f.editor # {} /\ ~IsDirty(f) /\ f.current
      => TextOf(f) = remote[f.path]

\* The window goes away over edits only if the user said "Discard", and over transfers
\* only if the user agreed to stop them, in the very exit that removes it
\* (lifecycle.rs:52-176).
WindowClosesKnowingly ==
  [][~open' =>
       /\ exit'.discard \/ SaveProgress(session) = "Ready"
       /\ exit'.stop \/ ~PendingTransfers]_open

\* The text of an edit that is not saved survives what the user did not do: lost connections,
\* failed and late answers, answers of the connection before, the course of an exit.  Three
\* things drop it, all of which the code does without looking at the edit: the answers that
\* have the directory read again (state.rs:109-130, connection_flow.rs:1512-1545), a new
\* connection of the session (connection_flow.rs:842), and the end of a session whose tab
\* the user has closed.
EditsSurviveTrouble ==
  [][\A s \in Sessions : Dirty(session[s]) /\ ~session[s].closing =>
       \/ \E f \in session'[s].file : f.editor = FileOf(session[s]).editor
       \/ \E c \in Connections :
            /\ c[1] = s /\ answers[c] # <<>> /\ answers'[c] = Tail(answers[c])
            /\ Head(answers[c]).kind \in {"PathCreated", "PathsDeleted", "TransferEnded"}
       \/ session'[s].conn # session[s].conn
     ]_<<alive, stage, answers, exit>>

\* A save ends, whatever fails, and so does an exit that waits for saves or has only
\* begun (connection_flow.rs:1313, 1407, 1621-1655, lifecycle.rs:103-127).
SavesSettle ==
  /\ \A s \in Sessions : Saving(session[s]) ~> ~open \/ ~Saving(session[s])
  /\ exit.phase \in {"Starting", "Saving"} ~> exit.phase \notin {"Starting", "Saving"}

\* i18n/en-US/remcmd.ftl:418, in the prompt of the exit: "RemCmd will stay open if saving
\* fails."  An exit that was not told to discard does not remove the window after a save it
\* waited for has failed, unless the user has turned to the file since.
StaysOpenIfSavingFails ==
  [][~open' /\ ~exit'.discard => failed' = {}]_open

\* state.rs, stale_sftp_response_does_not_replace_the_latest_directory: the listing that is
\* waited for is not completed by the answer to another one, here of the connection before.
StaleAnswersIgnored ==
  [][\A c \in Connections :
       LET s == c[1] IN
         /\ c # Current(s) /\ answers[c] # <<>> /\ answers'[c] = Tail(answers[c])
         /\ Head(answers[c]).kind = "DirectoryRead"
         => session'[s].active = session[s].active]_answers
=============================================================================

---------------------------- MODULE RemoteEditor ----------------------------
(***************************************************************************)
(* The files of a session as the window sees them: its directory listing   *)
(* and the file open in its editor (sftp/state.rs, sftp/operations.rs).    *)
(*                                                                         *)
(* Every request of a session carries an id, counted from 1 for each       *)
(* connection.  The listing remembers the id of the request it waits for,  *)
(* the open file those of its read and of its save, and an answer with any *)
(* other id is ignored.                                                    *)
(*                                                                         *)
(* A session is one record, and the functions of the code are operators    *)
(* from the record they find to the record they leave, with the commands   *)
(* they send in out; alive says whether the connection the session has a   *)
(* handle of still takes commands.  An Option is a set of at most one      *)
(* element.                                                                *)
(*                                                                         *)
(* All files lie in one directory; the list shown beside the terminal,     *)
(* which opens and creates files like the list of the Files view but shows *)
(* no editor, has no state of its own here.  Files are opened to be edited *)
(* and a connected session has a file service.                             *)
(***************************************************************************)
EXTENDS Naturals, FiniteSetsExt, SequencesExt

CONSTANTS
  Files,       \* the paths of the remote files
  Texts,       \* the contents a file may be given
  TooLong      \* those longer than MAX_REMOTE_FILE_BYTES

ASSUME TextsAssumption == TooLong \subseteq Texts

Empty  == "empty"     \* the contents of a file that was created or truncated
Absent == "absent"    \* there is no such file
Contents == Texts \cup {Empty}
Placements == {"Center", "Sidebar"}

\* An open file.  current is history: the file has not changed since the editor's original.
NewFile(path, id) ==
  [path |-> path, original |-> Empty, editor |-> {}, read |-> {id}, write |-> {},
   loading |-> TRUE, saving |-> FALSE, current |-> FALSE]

\* conn counts the connections of the session; Failed and Disconnected are one state.
NewSession(conn) ==
  [state |-> "Connected", conn |-> conn, closing |-> FALSE, next |-> 1,
   active |-> {}, loading |-> FALSE, loaded |-> FALSE,
   file |-> {}, transfers |-> FALSE, out |-> <<>>]
Gone(r) == [NewSession(r.conn) EXCEPT !.state = "Removed"]

FileOf(r)  == CHOOSE f \in r.file : TRUE
TextOf(f)  == CHOOSE t \in f.editor : TRUE
IsDirty(f) == f.editor # {} /\ TextOf(f) # f.original
Dirty(r)   == \E f \in r.file : IsDirty(f)
Saving(r)  == \E f \in r.file : f.saving

CanSend(r)   == r.state = "Connected"
HasHandle(r) == r.state \in {"Connected", "Disconnecting"}
Send(r, command) == [r EXCEPT !.out = Append(@, command)]

-----------------------------------------------------------------------------
(* The listing (SftpBrowserState).                                         *)

BeginRequest(r) ==
  [r EXCEPT !.next = @ + 1, !.active = {r.next}, !.loading = TRUE, !.file = {}]

CompleteRequest(r, id) ==
  IF id \in r.active
  THEN [r EXCEPT !.loading = FALSE, !.loaded = TRUE, !.active = {}]
  ELSE r

FailRequest(r, id) ==
  IF id \in r.active THEN [r EXCEPT !.loading = FALSE, !.active = {}] ELSE r

\* Wrong: the answers that are still on their way are waited for.
StopShowing(r) ==
  [r EXCEPT !.loading = FALSE, !.file = {[f EXCEPT !.loading = FALSE, !.saving = FALSE] : f \in @}]

StopLoading(r) ==
  [r EXCEPT !.loading = FALSE, !.active = {},
            !.file = {[f EXCEPT !.loading = FALSE, !.saving = FALSE,
                                !.read = {}, !.write = {}] : f \in @}]

\* An open connection that no longer takes commands is found out by sending one.
RequestDirectory(r, alive) ==
  IF ~CanSend(r) THEN [r EXCEPT !.loading = FALSE]
  ELSE IF alive THEN Send(BeginRequest(r), [op |-> "ReadDirectory", id |-> r.next])
  ELSE FailRequest(BeginRequest(r), r.next)

\* The Files view shows the directory unless it shows a file or has it already.
EnsureDirectory(r, alive) ==
  IF r.file = {} /\ r.active = {} /\ ~r.loaded THEN RequestDirectory(r, alive) ELSE r

-----------------------------------------------------------------------------
(* The open file (SftpFileState).                                          *)

BeginFileRequest(r, path) == [r EXCEPT !.next = @ + 1, !.file = {NewFile(path, r.next)}]

\* Wrong: the answer to a save is looked for among the reads.
FailFileAsRead(r, op, id) ==
  [r EXCEPT !.file =
    {IF id \in f.read THEN [f EXCEPT !.read = {}, !.loading = FALSE] ELSE f : f \in @}]

FailFileRequest(r, op, id) ==
  [r EXCEPT !.file =
    {CASE op = "ReadFile" /\ id \in f.read -> [f EXCEPT !.read = {}, !.loading = FALSE]
       [] op = "WriteFile" /\ id \in f.write -> [f EXCEPT !.write = {}, !.saving = FALSE]
       [] OTHER -> f : f \in @}]

OpenRemoteFile(r, alive, path) ==
  IF ~CanSend(r) THEN r
  ELSE LET q == BeginFileRequest(r, path) IN
    IF alive THEN Send(q, [op |-> "ReadFile", id |-> r.next, path |-> path])
    ELSE FailFileRequest(q, "ReadFile", r.next)

\* Wrong: the answer to any read fills the editor.
CompleteAnyRead(r, a) ==
  [r EXCEPT !.file =
    {[f EXCEPT !.path = a.path, !.original = a.text, !.editor = {a.text},
               !.current = a.current, !.read = {}, !.loading = FALSE] : f \in @}]

CompleteRead(r, a) ==
  [r EXCEPT !.file =
    {IF a.id \in f.read
     THEN [f EXCEPT !.path = a.path, !.original = a.text, !.editor = {a.text},
                    !.current = a.current, !.read = {}, !.loading = FALSE]
     ELSE f : f \in @}]

CanSave(r) ==
  /\ CanSend(r)
  /\ \E f \in r.file : /\ IsDirty(f) /\ ~f.loading /\ ~f.saving
                       /\ TextOf(f) \notin TooLong

SaveRemoteFile(r, alive) ==
  IF ~CanSave(r) THEN r
  ELSE LET f == FileOf(r)
           q == [r EXCEPT !.next = @ + 1, !.file = {[f EXCEPT !.saving = TRUE, !.write = {r.next}]}]
       IN  IF alive
           THEN Send(q, [op |-> "WriteFile", id |-> r.next, path |-> f.path,
                         expected |-> f.original, text |-> TextOf(f)])
           ELSE FailFileRequest(q, "WriteFile", r.next)

\* Wrong: what is in the editor by now counts as saved.
CompleteWriteOfEditor(r, a) ==
  [r EXCEPT !.file =
    {IF a.id \in f.write
     THEN [f EXCEPT !.path = a.path, !.original = TextOf(f), !.current = a.current,
                    !.write = {}, !.saving = FALSE]
     ELSE f : f \in @}]

CompleteWrite(r, a) ==
  [r EXCEPT !.file =
    {IF a.id \in f.write
     THEN [f EXCEPT !.path = a.path, !.original = a.text, !.current = a.current,
                    !.write = {}, !.saving = FALSE]
     ELSE f : f \in @}]

RevertRemoteFile(r) ==
  [r EXCEPT !.file = {[f EXCEPT !.editor = {f.original}] : f \in @}]

CloseRemoteFile(r) == IF Dirty(r) THEN r ELSE [r EXCEPT !.file = {}]

Edit(r, text) == [r EXCEPT !.file = {[f EXCEPT !.editor = {text}] : f \in @}]

-----------------------------------------------------------------------------
(* Answers that change what the directory holds, and ends of connections.  *)

\* A new file is opened when its session is the active one.
PathCreated(r, alive, a, activeSession) ==
  LET q == IF a.placement = "Center" THEN RequestDirectory(r, alive) ELSE r
  IN  IF activeSession THEN OpenRemoteFile(q, alive, a.path) ELSE q

PathsDeleted(r, alive, a) ==
  IF a.placement = "Center" THEN RequestDirectory(r, alive) ELSE r

\* A transfer that was given up with its connection is not heard of again.
TransferEnded(r, alive, a) ==
  LET q == [r EXCEPT !.transfers = FALSE] IN
    IF ~r.transfers THEN r
    ELSE IF a.uploaded /\ r.loaded THEN RequestDirectory(q, alive) ELSE q

\* A connection ended or failed: nothing is waited for, and the edits stay.
Disconnected(r) ==
  IF r.closing THEN Gone(r)
  ELSE [StopLoading(r) EXCEPT !.state = "Disconnected", !.transfers = FALSE]

\* A handle whose connection takes no command any more fails at once, and nothing else is done.
DisconnectSession(r, alive) ==
  IF r.state # "Connected" THEN r
  ELSE IF alive THEN [r EXCEPT !.state = "Disconnecting"]
  ELSE IF r.closing THEN Gone(r)
  ELSE [r EXCEPT !.state = "Disconnected"]

CloseSession(r, alive) ==
  IF r.state = "Connected" THEN DisconnectSession([r EXCEPT !.closing = TRUE], alive)
  ELSE Gone(r)

\* A new connection finds no listing and no open file, and counts its requests from 1.
StartConnection(r) == [NewSession(r.conn + 1) EXCEPT !.transfers = r.transfers]
=============================================================================

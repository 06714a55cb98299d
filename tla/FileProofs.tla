----------------------------- MODULE FileProofs -----------------------------
(***************************************************************************)
(* What becomes of files: of the two files of an attempt at a transfer     *)
(* (FileInstall), for every choice of methods, and of the files in the     *)
(* editors of the window (EditorSystem), for every set of sessions, files  *)
(* and texts and any number of connections, requests and troubles.         *)
(***************************************************************************)
EXTENDS EditorSystem, FileInstall,
        SequenceTheorems, TLAPS

-----------------------------------------------------------------------------
(* An attempt at a transfer.  FileInstall has no counters, so what the     *)
(* proofs add to the runs is the argument: which step keeps which promise, *)
(* and why.                                                                *)

\* Before the installation the destination has not been touched; a cancellation
\* and a failed copy are concluded before it.
Untouched ==
  touched => /\ pc \in {"Rename", "Discard", "Done", "Aborted"}
             /\ outcome \notin {"Cancelled", "CopyFailed"}

\* The temporary file is whole when the installation starts, and there is none
\* before the copy.
TemporaryReady ==
  /\ pc \in {"Verify", "Install", "Remove", "Rename"} => temp = "Whole"
  /\ pc \in {"Check", "Prepare"} => temp = "None"

\* Only a confirmed replacement that is not over SCP removes the destination.
RemovalConfirmed == pc = "Remove" => overwrite /\ method # "ScpUpload"

\* What an unconfirmed attempt finds at the end was not there when it looked.
DestinationIsNew ==
  ~overwrite => /\ pc \in Steps \ {"Check", "Discard"} => dest \in {"None", "Foreign"}
                /\ pc = "Check" => dest # "Whole"

InstallInv ==
  /\ InstallTypeOK
  /\ Untouched
  /\ TemporaryReady
  /\ RemovalConfirmed
  /\ DestinationIsNew
  /\ NeverPartial
  /\ NoStrayTemporary
  /\ MissingOnlyInBetween

-----------------------------------------------------------------------------
LEMMA InitInstallInv == InstallInit => InstallInv
BY DEF InstallInit, InstallInv, InstallTypeOK, Untouched, TemporaryReady, OutcomeStage,
       RemovalConfirmed, DestinationIsNew, NeverPartial, NoStrayTemporary, MissingOnlyInBetween, Steps,
       Outcomes, Causes, FileContents

LEMMA NextInstallInv == InstallInv /\ [InstallNext]_installVars => InstallInv'
<1> SUFFICES ASSUME InstallInv, [InstallNext]_installVars PROVE InstallInv'
  OBVIOUS
<1> USE DEF InstallInv, InstallTypeOK, Untouched, TemporaryReady, OutcomeStage,
            RemovalConfirmed, DestinationIsNew, NeverPartial, NoStrayTemporary, MissingOnlyInBetween,
            Steps, Outcomes, Causes, FileContents, context, Exists, Go, Return, DiscardBecause
<1>1. CASE CheckDestination \/ Prepare \/ FailEarly
  BY <1>1 DEF CheckDestination, Prepare, FailEarly
<1>2. CASE CreateTemporary \/ FinishCopy \/ FailCopy
  BY <1>2 DEF CreateTemporary, FinishCopy, FailCopy
<1>3. CASE ObserveCancellation \/ Verify
  BY <1>3 DEF ObserveCancellation, Verify
<1>4. CASE ChooseInstallation \/ RefuseInstallation \/ FailInstallation
  BY <1>4 DEF ChooseInstallation, RefuseInstallation, FailInstallation, InPlace
<1>5. CASE RemoveDestination
  BY <1>5 DEF RemoveDestination, Reported
<1>6. CASE RenameTemporary
  BY <1>6 DEF RenameTemporary, Reported
<1>7. CASE DiscardTemporary
  <2>1. PICK v \in Outcomes : Verdict(v) /\ Return(v)
    BY <1>7 DEF DiscardTemporary
  <2> QED
    BY <1>7, <2>1, ZenonT(60) DEF DiscardTemporary, Verdict
<1>8. CASE OthersChange \/ Cancel \/ Abort
  <2>1. CASE OthersChange
    BY <2>1 DEF OthersChange
  <2>2. CASE Cancel
    BY <2>2 DEF Cancel, Working
  <2>3. CASE Abort
    BY <2>3 DEF Abort, Working
  <2> QED
    BY <1>8, <2>1, <2>2, <2>3
<1>9. CASE Confirm
  BY <1>9 DEF Confirm
<1>10. CASE UNCHANGED installVars
  BY <1>10 DEF installVars
<1> QED
  BY <1>1, <1>2, <1>3, <1>4, <1>5, <1>6, <1>7, <1>8, <1>9, <1>10 DEF InstallNext, Attempt

LEMMA InstallInvariance == InstallSpec => []InstallInv
BY InitInstallInv, NextInstallInv, PTL DEF InstallSpec

-----------------------------------------------------------------------------
\* Every variable of an attempt keeps its type.
THEOREM InstallTypeCorrectness == InstallSpec => []InstallTypeOK
<1>1. InstallInv => InstallTypeOK
  BY DEF InstallInv
<1> QED
  BY <1>1, InstallInvariance, PTL

\* The destination never bears a file that was copied in part, because only a
\* whole temporary file reaches the rename.
THEOREM WholeFilesOnly == InstallSpec => []NeverPartial
<1>1. InstallInv => NeverPartial
  BY DEF InstallInv
<1> QED
  BY <1>1, InstallInvariance, PTL

\* A transfer reported as cancelled has not touched its destination, because the
\* flag is not looked at once the installation has begun.
THEOREM CancellationIsHarmless == InstallSpec => []CancelledTouchesNothing
<1>1. InstallInv => CancelledTouchesNothing
  BY DEF InstallInv, Untouched, CancelledTouchesNothing
<1> QED
  BY <1>1, InstallInvariance, PTL

\* An attempt that returns leaves no temporary file unless its removal failed.
THEOREM NoStrays == InstallSpec => []NoStrayTemporary
<1>1. InstallInv => NoStrayTemporary
  BY DEF InstallInv
<1> QED
  BY <1>1, InstallInvariance, PTL

\* The transfer itself leaves its destination missing only around the installation
\* of a confirmed replacement.
THEOREM MissingDestination == InstallSpec => []MissingOnlyInBetween
<1>1. InstallInv => MissingOnlyInBetween
  BY DEF InstallInv
<1> QED
  BY <1>1, InstallInvariance, PTL

\* An unconfirmed transfer destroys no file that its check could have seen.
THEOREM UnconfirmedIsHarmless == InstallSpec => UnconfirmedReplacesOnlyNewcomers
<1> DEFINE A == pc' # pc /\ ~overwrite /\ Exists(dest) /\ dest' # dest
                  => dest = "Foreign" /\ pc = "Rename" /\ method # "SftpUpload"
<1>1. InstallInv /\ [InstallNext]_installVars => A
  <2> SUFFICES ASSUME InstallInv, [InstallNext]_installVars PROVE A
    OBVIOUS
  <2> USE DEF InstallInv, InstallTypeOK, OutcomeStage, DestinationIsNew, RemovalConfirmed, context
  <2>1. CASE RemoveDestination
    BY <2>1 DEF RemoveDestination
  <2>2. CASE RenameTemporary
    BY <2>2 DEF RenameTemporary, Exists, FileContents, Steps
  <2>3. CASE ~RemoveDestination /\ ~RenameTemporary
    <3>1. dest' = dest \/ pc' = pc
      BY <2>3 DEF InstallNext, Attempt, CheckDestination, Prepare, FailEarly, CreateTemporary,
                  FinishCopy, ObserveCancellation, FailCopy, Verify, ChooseInstallation,
                  RefuseInstallation, FailInstallation, DiscardTemporary, OthersChange,
                  Cancel, Abort, Confirm, installVars
    <3> QED
      BY <3>1
  <2> QED
    BY <2>1, <2>2, <2>3
<1> QED
  BY <1>1, InstallInvariance, PTL DEF InstallSpec, UnconfirmedReplacesOnlyNewcomers

-----------------------------------------------------------------------------
(* The remote editor.  What is on its way between a session and a worker   *)
(* has a type, and everything the proofs need of a session and of the      *)
(* answers of a connection is said of them and of the files at the server. *)

Commands ==
  [op : {"ReadDirectory"}, id : Nat]
    \cup [op : {"ReadFile"}, id : Nat, path : Files]
    \cup [op : {"WriteFile"}, id : Nat, path : Files, expected : Contents, text : Contents]
    \cup [op : {"CreateFile", "DeletePaths"}, path : Files, placement : Placements]

Answers ==
  [kind : {"DirectoryRead"}, id : Nat]
    \cup [kind : {"FileRead", "FileWritten"}, id : Nat, path : Files, text : Contents,
          current : BOOLEAN]
    \cup [kind : {"SftpFailed"}, op : {"ReadDirectory", "ReadFile", "WriteFile"}, id : Nat]
    \cup [kind : {"SftpFailed"}, op : {"CreateFile", "DeletePaths"}]
    \cup [kind : {"PathCreated"}, path : Files, placement : Placements]
    \cup [kind : {"PathsDeleted"}, placement : Placements]
    \cup [kind : {"TransferEnded"}, uploaded : BOOLEAN]
    \cup [kind : {"Disconnected"}]

FileType ==
  [path : Files, original : Contents, editor : SUBSET Contents, read : SUBSET Nat,
   write : SUBSET Nat, loading : BOOLEAN, saving : BOOLEAN, current : BOOLEAN]

\* A file waits for what it says; while it is read there is nothing to edit; and what was
\* read or written last is what the file holds, as long as it is current.
FileOK(f, files) ==
  /\ f \in FileType
  /\ f.loading <=> f.read # {}
  /\ f.saving <=> f.write # {}
  /\ f.loading => f.editor = {}
  /\ f.current => f.original = files[f.path]

\* At most one file is open.
FilesOK(r, files) ==
  /\ r.file = {} \/ \E f \in r.file : r.file = {f}
  /\ \A f \in r.file : FileOK(f, files)

SessionType ==
  [state : {"Connected", "Disconnecting", "Disconnected", "Removed"},
   conn : 1..MaxConnections, closing : BOOLEAN, next : Nat \ {0},
   active : SUBSET Nat, loading : BOOLEAN, loaded : BOOLEAN, file : SUBSET FileType,
   transfers : BOOLEAN, out : Seq(Commands)]

ListOK(r) ==
  /\ r.loading => r.active # {}
  /\ r.state = "Connected" => (r.loading <=> r.active # {})
  /\ r.state = "Removed" => r.file = {} /\ r.active = {}

SessionOK(r, files) ==
  /\ r \in SessionType
  /\ ListOK(r)
  /\ FilesOK(r, files)

\* What a worker has read or written is what the file holds, unless it says otherwise.
AnswerOK(a, files) ==
  a.kind \in {"FileRead", "FileWritten"} /\ a.current => a.text = files[a.path]

QueueOK(queue, files) ==
  /\ queue \in Seq(Answers)
  /\ \A i \in DOMAIN queue : AnswerOK(queue[i], files)

SessionsOK ==
  /\ session \in [Sessions -> SessionType]
  /\ \A s \in Sessions : SessionOK(session[s], remote)

ConnectionsOK ==
  /\ alive \subseteq Connections
  /\ sent \in [Connections -> Seq(Commands)]
  /\ answers \in [Connections -> Seq(Answers)]
  /\ \A c \in Connections : QueueOK(answers[c], remote)

ExitOK ==
  /\ exit \in [phase : {"None", "Starting", "AskingSave", "Saving", "AskingTransfers"},
               discard : BOOLEAN, stop : BOOLEAN]
  /\ failed \subseteq Sessions

EditorInv ==
  /\ remote \in [Files -> Contents \cup {Absent}]
  /\ SessionsOK
  /\ ConnectionsOK
  /\ ExitOK

-----------------------------------------------------------------------------
LEMMA CommandFacts ==
  ASSUME NEW c \in Commands
  PROVE  /\ c.op \in {"ReadDirectory", "ReadFile", "WriteFile", "CreateFile", "DeletePaths"}
         /\ c.op \in {"ReadDirectory", "ReadFile", "WriteFile"} => c.id \in Nat
         /\ c.op # "ReadDirectory" => c.path \in Files
         /\ c.op = "WriteFile" => c.expected \in Contents /\ c.text \in Contents
         /\ c.op \in {"CreateFile", "DeletePaths"} => c.placement \in Placements
BY DEF Commands

LEMMA AnswerFacts ==
  ASSUME NEW a \in Answers
  PROVE  /\ a.kind \in {"DirectoryRead", "FileRead", "FileWritten", "SftpFailed", "PathCreated",
                        "PathsDeleted", "TransferEnded", "Disconnected"}
         /\ a.kind \in {"FileRead", "FileWritten"} =>
              /\ a.id \in Nat /\ a.path \in Files /\ a.text \in Contents /\ a.current \in BOOLEAN
              /\ "current" \in DOMAIN a
         /\ a.kind \notin {"FileRead", "FileWritten"} => "current" \notin DOMAIN a
         /\ a.kind = "PathCreated" => a.path \in Files
BY DEF Answers

LEMMA TailIs ==
  ASSUME NEW S, NEW q \in Seq(S), q # <<>>
  PROVE  /\ Tail(q) \in Seq(S) /\ Head(q) \in S /\ Head(q) = q[1]
         /\ 1 \in DOMAIN q
         /\ \A i \in DOMAIN Tail(q) : i + 1 \in DOMAIN q /\ Tail(q)[i] = q[i + 1]
<1>1. Len(q) \in Nat \ {0}
  BY EmptySeq
<1> QED BY <1>1, HeadTailProperties

-----------------------------------------------------------------------------
(* What becomes of a session when one of its parts changes.                *)

\* The parts that say nothing of its file and of its listing.
LEMMA MarksKeep ==
  ASSUME NEW r, NEW files, SessionOK(r, files), NEW b \in BOOLEAN, NEW next \in Nat \ {0},
         NEW out \in Seq(Commands)
  PROVE  /\ SessionOK([r EXCEPT !.transfers = b], files)
         /\ SessionOK([r EXCEPT !.closing = b], files)
         /\ SessionOK([r EXCEPT !.next = next], files)
         /\ SessionOK([r EXCEPT !.out = out], files)
         /\ r.state \in {"Connected", "Disconnecting"} =>
              SessionOK([r EXCEPT !.state = "Disconnecting"], files)
         /\ r.state # "Removed" => SessionOK([r EXCEPT !.state = "Disconnected"], files)
<1>1. r \in SessionType
  BY DEF SessionOK
<1>2. ASSUME NEW q \in SessionType, q.file = r.file, q.active = r.active, q.loading = r.loading,
             q.state = r.state \/ (q.state \in {"Disconnecting", "Disconnected"} /\ r.state # "Removed")
      PROVE  SessionOK(q, files)
  BY <1>2 DEF SessionOK, ListOK, FilesOK
<1>3. SessionOK([r EXCEPT !.transfers = b], files)
  <2> DEFINE q == [r EXCEPT !.transfers = b]
  <2>1. /\ q \in SessionType /\ q.file = r.file /\ q.active = r.active /\ q.loading = r.loading
        /\ q.state = r.state
    BY <1>1 DEF SessionType
  <2> QED BY <1>2, <2>1
<1>4. SessionOK([r EXCEPT !.closing = b], files)
  <2> DEFINE q == [r EXCEPT !.closing = b]
  <2>1. /\ q \in SessionType /\ q.file = r.file /\ q.active = r.active /\ q.loading = r.loading
        /\ q.state = r.state
    BY <1>1 DEF SessionType
  <2> QED BY <1>2, <2>1
<1>5. SessionOK([r EXCEPT !.next = next], files)
  <2> DEFINE q == [r EXCEPT !.next = next]
  <2>1. /\ q \in SessionType /\ q.file = r.file /\ q.active = r.active /\ q.loading = r.loading
        /\ q.state = r.state
    BY <1>1 DEF SessionType
  <2> QED BY <1>2, <2>1
<1>6. SessionOK([r EXCEPT !.out = out], files)
  <2> DEFINE q == [r EXCEPT !.out = out]
  <2>1. /\ q \in SessionType /\ q.file = r.file /\ q.active = r.active /\ q.loading = r.loading
        /\ q.state = r.state
    BY <1>1 DEF SessionType
  <2> QED BY <1>2, <2>1
<1>7. ASSUME NEW state \in {"Disconnecting", "Disconnected"}, r.state # "Removed"
      PROVE  SessionOK([r EXCEPT !.state = state], files)
  <2> DEFINE q == [r EXCEPT !.state = state]
  <2>1. /\ q \in SessionType /\ q.file = r.file /\ q.active = r.active /\ q.loading = r.loading
        /\ q.state = state
    BY <1>1 DEF SessionType
  <2> QED BY <1>2, <1>7, <2>1
<1> QED BY <1>3, <1>4, <1>5, <1>6, <1>7

LEMMA SendKeeps ==
  ASSUME NEW r, NEW files, SessionOK(r, files), NEW c \in Commands
  PROVE  SessionOK(Send(r, c), files)
<1>1. r.out \in Seq(Commands)
  BY DEF SessionOK, SessionType
<1>2. Append(r.out, c) \in Seq(Commands)
  BY <1>1, AppendProperties
<1>3. SessionOK([r EXCEPT !.out = Append(r.out, c)], files)
  <2> DEFINE out == Append(r.out, c)
  <2>1. out \in Seq(Commands)
    BY <1>2
  <2> HIDE DEF out
  <2>2. SessionOK([r EXCEPT !.out = out], files)
    BY <2>1, 1 \in Nat \ {0}, MarksKeep
  <2> QED BY <2>2 DEF out
<1> QED BY <1>3 DEF Send

\* The next id is given away.
LEMMA CountKeeps ==
  ASSUME NEW r, NEW files, SessionOK(r, files)
  PROVE  SessionOK([r EXCEPT !.next = @ + 1], files) /\ r.next \in Nat
<1>1. r.next \in Nat \ {0} /\ r.next + 1 \in Nat \ {0} /\ <<>> \in Seq(Commands)
  BY DEF SessionOK, SessionType
<1>2. \A next \in Nat \ {0} : SessionOK([r EXCEPT !.next = next], files)
  BY <1>1, MarksKeep
<1> QED BY <1>1, <1>2

LEMMA ListKeeps ==
  ASSUME NEW r, NEW files, SessionOK(r, files), NEW active \in SUBSET Nat, NEW loaded \in BOOLEAN,
         r.state # "Removed" \/ active = {}
  PROVE  SessionOK([r EXCEPT !.active = active, !.loading = (active # {}), !.loaded = loaded], files)
<1> DEFINE q == [r EXCEPT !.active = active, !.loading = (active # {}), !.loaded = loaded]
<1>1. r \in SessionType
  BY DEF SessionOK
<1>2. /\ q \in SessionType /\ q.state = r.state /\ q.active = active
      /\ q.loading = (active # {}) /\ q.file = r.file
  BY <1>1 DEF SessionType
<1> HIDE DEF q
<1>3. SessionOK(q, files)
  BY <1>2 DEF SessionOK, ListOK, FilesOK
<1> QED BY <1>3 DEF q

\* The file is closed.
LEMMA CloseKeeps ==
  ASSUME NEW r, NEW files, SessionOK(r, files)
  PROVE  SessionOK([r EXCEPT !.file = {}], files)
<1> DEFINE q == [r EXCEPT !.file = {}]
<1>1. r \in SessionType
  BY DEF SessionOK
<1>2. /\ q \in SessionType /\ q.state = r.state /\ q.active = r.active
      /\ q.loading = r.loading /\ q.file = {}
  BY <1>1 DEF SessionType
<1> QED BY <1>2 DEF SessionOK, ListOK, FilesOK

\* Another file, or the same one in another state, takes the place of the open one.
LEMMA FileKeeps ==
  ASSUME NEW r, NEW files, SessionOK(r, files), NEW g, FileOK(g, files), r.state # "Removed"
  PROVE  SessionOK([r EXCEPT !.file = {g}], files)
<1> DEFINE q == [r EXCEPT !.file = {g}]
<1>1. r \in SessionType /\ g \in FileType
  BY DEF SessionOK, FileOK
<1>2. /\ q \in SessionType /\ q.state = r.state /\ q.active = r.active
      /\ q.loading = r.loading /\ q.file = {g}
  BY <1>1 DEF SessionType
<1> QED BY <1>2 DEF SessionOK, ListOK, FilesOK

\* Either no file is open or one is, and that of a session that is there.
LEMMA OpenFileIs ==
  ASSUME NEW r, NEW files, SessionOK(r, files)
  PROVE  \/ r.file = {}
         \/ /\ r.state # "Removed"
            /\ \E f \in FileType : r.file = {f} /\ FileOK(f, files) /\ FileOf(r) = f
<1>1. CASE r.file # {}
  <2>1. PICK f \in r.file : r.file = {f}
    BY <1>1 DEF SessionOK, FilesOK
  <2>2. FileOK(f, files) /\ FileOf(r) = f
    BY <2>1 DEF SessionOK, FilesOK, FileOf
  <2>3. r.state # "Removed"
    BY <1>1 DEF SessionOK, ListOK
  <2> QED BY <2>1, <2>2, <2>3 DEF FileOK
<1> QED BY <1>1

-----------------------------------------------------------------------------
(* The listing.                                                            *)

LEMMA ListEndsKeeps ==
  ASSUME NEW r, NEW files, SessionOK(r, files), NEW id
  PROVE  /\ SessionOK(FailRequest(r, id), files)
         /\ SessionOK(CompleteRequest(r, id), files)
<1>1. r \in SessionType /\ r.loaded \in BOOLEAN /\ {} \in SUBSET Nat
  BY DEF SessionOK, SessionType
<1>2. \A loaded \in BOOLEAN :
        SessionOK([r EXCEPT !.active = {}, !.loading = ({} # {}), !.loaded = loaded], files)
  BY <1>1, ListKeeps
<1>3. [r EXCEPT !.loading = FALSE, !.active = {}]
        = [r EXCEPT !.active = {}, !.loading = ({} # {}), !.loaded = r.loaded]
  BY <1>1 DEF SessionType
<1>4. [r EXCEPT !.loading = FALSE, !.loaded = TRUE, !.active = {}]
        = [r EXCEPT !.active = {}, !.loading = ({} # {}), !.loaded = TRUE]
  BY <1>1 DEF SessionType
<1>5. SessionOK(FailRequest(r, id), files)
  BY <1>1, <1>2, <1>3 DEF FailRequest
<1>6. SessionOK(CompleteRequest(r, id), files)
  BY <1>1, <1>2, <1>4 DEF CompleteRequest
<1> QED BY <1>5, <1>6

LEMMA BeginRequestKeeps ==
  ASSUME NEW r, NEW files, SessionOK(r, files), r.state = "Connected"
  PROVE  SessionOK(BeginRequest(r), files)
<1> DEFINE p == [r EXCEPT !.file = {}]
           q == [p EXCEPT !.active = {r.next}, !.loading = ({r.next} # {}), !.loaded = r.loaded]
<1>1. r \in SessionType /\ r.loaded \in BOOLEAN /\ r.next \in Nat
  BY DEF SessionOK, SessionType
<1>2. SessionOK(p, files) /\ p.state = "Connected"
  BY <1>1, CloseKeeps DEF SessionType
<1>3. SessionOK(q, files) /\ q.next = r.next
  <2>1. {r.next} \in SUBSET Nat
    BY <1>1
  <2>2. q.next = r.next
    BY <1>1 DEF SessionType
  <2> HIDE DEF p
  <2> QED BY <1>1, <1>2, <2>1, <2>2, ListKeeps
<1>4. BeginRequest(r) = [q EXCEPT !.next = @ + 1]
  BY <1>1 DEF SessionType, BeginRequest
<1> HIDE DEF q
<1> QED BY <1>3, <1>4, CountKeeps

LEMMA RequestDirectoryKeeps ==
  ASSUME NEW r, NEW files, SessionOK(r, files), NEW live
  PROVE  SessionOK(RequestDirectory(r, live), files)
<1>1. r \in SessionType /\ r.next \in Nat
  BY DEF SessionOK, SessionType
<1>2. CASE ~CanSend(r)
  <2> DEFINE q == [r EXCEPT !.loading = FALSE]
  <2>1. /\ q \in SessionType /\ q.state = r.state /\ q.active = r.active
        /\ q.loading = FALSE /\ q.file = r.file
    BY <1>1 DEF SessionType
  <2> HIDE DEF q
  <2>2. SessionOK(q, files)
    BY <1>2, <2>1 DEF SessionOK, ListOK, FilesOK, CanSend
  <2> QED BY <1>2, <2>2 DEF RequestDirectory, q
<1>3. CASE CanSend(r)
  <2>1. SessionOK(BeginRequest(r), files)
    BY <1>3, BeginRequestKeeps DEF CanSend
  <2>2. [op |-> "ReadDirectory", id |-> r.next] \in Commands
    BY <1>1 DEF Commands
  <2>3. SessionOK(Send(BeginRequest(r), [op |-> "ReadDirectory", id |-> r.next]), files)
    BY <2>1, <2>2, SendKeeps
  <2>4. SessionOK(FailRequest(BeginRequest(r), r.next), files)
    BY <2>1, ListEndsKeeps
  <2> QED BY <1>3, <2>3, <2>4 DEF RequestDirectory
<1> QED BY <1>2, <1>3

-----------------------------------------------------------------------------
(* The open file.                                                          *)

LEMMA FailFileKeeps ==
  ASSUME NEW r, NEW files, SessionOK(r, files), NEW op, NEW id
  PROVE  SessionOK(FailFileRequest(r, op, id), files)
<1>1. r \in SessionType
  BY DEF SessionOK
<1>2. CASE r.file = {}
  <2>1. FailFileRequest(r, op, id) = r
    BY <1>1, <1>2 DEF FailFileRequest, SessionType
  <2> QED BY <2>1
<1>3. ASSUME NEW f \in FileType, r.file = {f}, FileOK(f, files), r.state # "Removed"
      PROVE  SessionOK(FailFileRequest(r, op, id), files)
  <2> DEFINE g == CASE op = "ReadFile" /\ id \in f.read -> [f EXCEPT !.read = {}, !.loading = FALSE]
                    [] op = "WriteFile" /\ id \in f.write -> [f EXCEPT !.write = {}, !.saving = FALSE]
                    [] OTHER -> f
  <2>1. FailFileRequest(r, op, id) = [r EXCEPT !.file = {g}]
    BY <1>3 DEF FailFileRequest
  <2>2. FileOK([f EXCEPT !.read = {}, !.loading = FALSE], files)
    BY <1>3 DEF FileOK, FileType
  <2>3. FileOK([f EXCEPT !.write = {}, !.saving = FALSE], files)
    BY <1>3 DEF FileOK, FileType
  <2>4. FileOK(g, files)
    BY <1>3, <2>2, <2>3
  <2> HIDE DEF g
  <2> QED BY <1>3, <2>1, <2>4, FileKeeps
<1> QED BY <1>2, <1>3, OpenFileIs

LEMMA OpenRemoteFileKeeps ==
  ASSUME NEW r, NEW files, SessionOK(r, files), NEW live, NEW path \in Files
  PROVE  SessionOK(OpenRemoteFile(r, live, path), files)
<1> DEFINE f == NewFile(path, r.next)
           q == BeginFileRequest(r, path)
           c == [op |-> "ReadFile", id |-> r.next, path |-> path]
<1>1. r \in SessionType /\ r.next \in Nat
  BY DEF SessionOK, SessionType
<1>2. CASE CanSend(r)
  <2>1. FileOK(f, files)
    BY <1>1 DEF FileOK, FileType, NewFile, Contents
  <2> HIDE DEF f
  <2> DEFINE p == [r EXCEPT !.file = {f}]
  <2>2. SessionOK(p, files)
    BY <1>2, <2>1, FileKeeps DEF CanSend
  <2>3. q = [p EXCEPT !.next = @ + 1]
    BY <1>1 DEF BeginFileRequest, SessionType, f
  <2> HIDE DEF p, q
  <2>4. SessionOK(q, files)
    BY <2>2, <2>3, CountKeeps
  <2>5. c \in Commands
    BY <1>1 DEF Commands
  <2> HIDE DEF c
  <2>6. SessionOK(Send(q, c), files) /\ SessionOK(FailFileRequest(q, "ReadFile", r.next), files)
    BY <2>4, <2>5, SendKeeps, FailFileKeeps
  <2>7. OpenRemoteFile(r, live, path)
          = IF live THEN Send(q, c) ELSE FailFileRequest(q, "ReadFile", r.next)
    BY <1>2 DEF OpenRemoteFile, q, c
  <2> QED BY <2>6, <2>7
<1>3. CASE ~CanSend(r)
  BY <1>3 DEF OpenRemoteFile
<1> QED BY <1>2, <1>3

\* What a file is told of a read or a save becomes what it holds for saved.
LEMMA CompleteKeeps ==
  ASSUME NEW r, NEW files, SessionOK(r, files),
         NEW a \in Answers, a.kind \in {"FileRead", "FileWritten"}, AnswerOK(a, files)
  PROVE  SessionOK(CompleteRead(r, a), files) /\ SessionOK(CompleteWrite(r, a), files)
<1>1. r \in SessionType
  BY DEF SessionOK
<1>2. /\ a.path \in Files /\ a.text \in Contents /\ a.current \in BOOLEAN
      /\ a.current => a.text = files[a.path]
  BY AnswerFacts DEF AnswerOK
<1>3. CASE r.file = {}
  <2>1. CompleteRead(r, a) = r /\ CompleteWrite(r, a) = r
    BY <1>1, <1>3 DEF CompleteRead, CompleteWrite, SessionType
  <2> QED BY <2>1
<1>4. ASSUME NEW f \in FileType, r.file = {f}, FileOK(f, files), r.state # "Removed"
      PROVE  SessionOK(CompleteRead(r, a), files) /\ SessionOK(CompleteWrite(r, a), files)
  <2> DEFINE g == [f EXCEPT !.path = a.path, !.original = a.text, !.editor = {a.text},
                            !.current = a.current, !.read = {}, !.loading = FALSE]
             h == [f EXCEPT !.path = a.path, !.original = a.text, !.current = a.current,
                            !.write = {}, !.saving = FALSE]
  <2>1. FileOK(g, files) /\ FileOK(h, files)
    <3>1. /\ g \in FileType /\ g.loading = FALSE /\ g.read = {} /\ g.write = f.write
          /\ g.path = a.path /\ g.current = a.current
          /\ g.original = a.text /\ g.saving = f.saving
      BY <1>2 DEF FileType
    <3>2. /\ h \in FileType /\ h.loading = f.loading /\ h.read = f.read /\ h.write = {}
          /\ h.path = a.path /\ h.editor = f.editor /\ h.current = a.current
          /\ h.original = a.text /\ h.saving = FALSE
      BY <1>2 DEF FileType
    <3> HIDE DEF g, h
    <3> QED BY <1>2, <1>4, <3>1, <3>2 DEF FileOK
  <2>2. CompleteRead(r, a) \in {[r EXCEPT !.file = {g}], [r EXCEPT !.file = {f}]}
    BY <1>4 DEF CompleteRead
  <2>3. CompleteWrite(r, a) \in {[r EXCEPT !.file = {h}], [r EXCEPT !.file = {f}]}
    BY <1>4 DEF CompleteWrite
  <2> HIDE DEF g, h
  <2>4. /\ SessionOK([r EXCEPT !.file = {g}], files) /\ SessionOK([r EXCEPT !.file = {f}], files)
        /\ SessionOK([r EXCEPT !.file = {h}], files)
    BY <1>4, <2>1, FileKeeps
  <2> QED BY <2>2, <2>3, <2>4
<1> QED BY <1>3, <1>4, OpenFileIs

LEMMA SaveKeeps ==
  ASSUME NEW r, NEW files, SessionOK(r, files), NEW live
  PROVE  SessionOK(SaveRemoteFile(r, live), files)
<1>1. r \in SessionType /\ r.next \in Nat
  BY DEF SessionOK, SessionType
<1>2. CASE ~CanSave(r)
  BY <1>2 DEF SaveRemoteFile
<1>3. ASSUME CanSave(r), NEW f \in FileType, r.file = {f}, FileOK(f, files), FileOf(r) = f,
             r.state # "Removed"
      PROVE  SessionOK(SaveRemoteFile(r, live), files)
  <2> DEFINE g == [f EXCEPT !.saving = TRUE, !.write = {r.next}]
             q == [r EXCEPT !.next = @ + 1, !.file = {g}]
             c == [op |-> "WriteFile", id |-> r.next, path |-> f.path, expected |-> f.original,
                   text |-> TextOf(f)]
  <2>1. IsDirty(f)
    BY <1>3 DEF CanSave
  <2>2. TextOf(f) \in Contents
    BY <1>3, <2>1 DEF IsDirty, TextOf, FileType
  <2>3. FileOK(g, files)
    BY <1>1, <1>3 DEF FileOK, FileType
  <2>4. c \in Commands
    <3>1. f.path \in Files /\ f.original \in Contents
      BY DEF FileType
    <3> QED BY <1>1, <2>2, <3>1 DEF Commands
  <2>5. SaveRemoteFile(r, live)
          = IF live THEN Send(q, c) ELSE FailFileRequest(q, "WriteFile", r.next)
    BY <1>3 DEF SaveRemoteFile
  <2> HIDE DEF g, c
  <2>6. SessionOK(q, files)
    <3>1. SessionOK([r EXCEPT !.file = {g}], files)
      BY <1>3, <2>3, FileKeeps
    <3>2. q = [[r EXCEPT !.file = {g}] EXCEPT !.next = @ + 1]
      BY <1>1 DEF SessionType
    <3> QED BY <3>1, <3>2, CountKeeps
  <2> HIDE DEF q
  <2>7. SessionOK(Send(q, c), files) /\ SessionOK(FailFileRequest(q, "WriteFile", r.next), files)
    BY <2>4, <2>6, SendKeeps, FailFileKeeps
  <2> QED BY <2>5, <2>7
<1>4. CanSave(r) => r.file # {}
  BY DEF CanSave
<1> QED BY <1>2, <1>3, <1>4, OpenFileIs

LEMMA EditKeeps ==
  ASSUME NEW r, NEW files, SessionOK(r, files), NEW text \in Contents,
         \E f \in r.file : f.editor # {}
  PROVE  SessionOK(Edit(r, text), files)
<1>1. PICK f \in FileType : /\ r.file = {f} /\ FileOK(f, files) /\ f.editor # {}
                            /\ r.state # "Removed"
  BY OpenFileIs
<1> DEFINE g == [f EXCEPT !.editor = {text}]
<1>2. Edit(r, text) = [r EXCEPT !.file = {g}]
  BY <1>1 DEF Edit
<1>3. FileOK(g, files)
  BY <1>1 DEF FileOK, FileType
<1> HIDE DEF g
<1> QED BY <1>1, <1>2, <1>3, FileKeeps

LEMMA RevertKeeps ==
  ASSUME NEW r, NEW files, SessionOK(r, files), Dirty(r)
  PROVE  SessionOK(RevertRemoteFile(r), files)
<1>1. PICK f \in FileType : r.file = {f} /\ FileOK(f, files) /\ IsDirty(f)
  BY OpenFileIs DEF Dirty
<1>2. RevertRemoteFile(r) = Edit(r, f.original)
  BY <1>1 DEF RevertRemoteFile, Edit
<1>3. f.original \in Contents /\ f.editor # {}
  BY <1>1 DEF IsDirty, FileType
<1> QED BY <1>1, <1>2, <1>3, EditKeeps

-----------------------------------------------------------------------------
(* Answers that change the directory, and ends of connections.             *)

\* A change of the directory that is heard of: the list is read again, and a file that
\* was created is opened.
LEMMA ChangesKeep ==
  ASSUME NEW r, NEW files, SessionOK(r, files), NEW live, NEW a \in Answers
  PROVE  /\ a.kind = "PathCreated" =>
              \A activeSession \in BOOLEAN : SessionOK(PathCreated(r, live, a, activeSession), files)
         /\ SessionOK(PathsDeleted(r, live, a), files)
         /\ SessionOK(TransferEnded(r, live, a), files)
<1>1. SessionOK(RequestDirectory(r, live), files)
  BY RequestDirectoryKeeps
<1>2. ASSUME a.kind = "PathCreated", NEW activeSession \in BOOLEAN
      PROVE  SessionOK(PathCreated(r, live, a, activeSession), files)
  <2> DEFINE q == IF a.placement = "Center" THEN RequestDirectory(r, live) ELSE r
  <2>1. SessionOK(q, files)
    BY <1>1
  <2>2. a.path \in Files
    BY <1>2, AnswerFacts
  <2> HIDE DEF q
  <2>3. SessionOK(OpenRemoteFile(q, live, a.path), files)
    BY <2>1, <2>2, OpenRemoteFileKeeps
  <2> QED BY <2>1, <2>3 DEF PathCreated, q
<1>3. SessionOK(PathsDeleted(r, live, a), files)
  BY <1>1 DEF PathsDeleted
<1>4. SessionOK(TransferEnded(r, live, a), files)
  <2> DEFINE q == [r EXCEPT !.transfers = FALSE]
  <2>1. SessionOK(q, files)
    <3>1. <<>> \in Seq(Commands) /\ 1 \in Nat \ {0}
      OBVIOUS
    <3> QED BY <3>1, MarksKeep
  <2>2. TransferEnded(r, live, a) \in {r, q, RequestDirectory(q, live)}
    BY DEF TransferEnded
  <2> HIDE DEF q
  <2> QED BY <2>1, <2>2, RequestDirectoryKeeps
<1> QED BY <1>2, <1>3, <1>4

LEMMA FreshKeeps ==
  ASSUME NEW files, NEW conn \in 1..MaxConnections
  PROVE  SessionOK(NewSession(conn), files)
<1> DEFINE q == NewSession(conn)
<1>1. /\ q \in SessionType /\ q.file = {} /\ q.active = {} /\ q.loading = FALSE
      /\ q.state = "Connected"
  <2>1. <<>> \in Seq(Commands) /\ 1 \in Nat \ {0}
    OBVIOUS
  <2> QED BY <2>1 DEF NewSession, SessionType
<1> HIDE DEF q
<1>2. SessionOK(q, files)
  BY <1>1 DEF SessionOK, ListOK, FilesOK
<1> QED BY <1>2 DEF q

LEMMA GoneKeeps ==
  ASSUME NEW r, NEW files, SessionOK(r, files)
  PROVE  SessionOK(Gone(r), files)
<1> DEFINE p == NewSession(r.conn)
           q == Gone(r)
<1>1. p \in SessionType /\ p.file = {} /\ p.active = {} /\ p.loading = FALSE
  <2>1. r.conn \in 1..MaxConnections
    BY DEF SessionOK, SessionType
  <2>2. SessionOK(p, files)
    BY <2>1, FreshKeeps
  <2> QED BY <2>2 DEF SessionOK, NewSession
<1>2. q = [p EXCEPT !.state = "Removed"]
  BY DEF Gone
<1> HIDE DEF p
<1>3. /\ q \in SessionType /\ q.file = {} /\ q.active = {} /\ q.loading = FALSE
      /\ q.state = "Removed"
  BY <1>1, <1>2 DEF SessionType
<1> HIDE DEF q
<1>4. SessionOK(q, files)
  BY <1>3 DEF SessionOK, ListOK, FilesOK
<1> QED BY <1>4 DEF q

LEMMA DisconnectedKeeps ==
  ASSUME NEW r, NEW files, SessionOK(r, files), r.state # "Removed"
  PROVE  SessionOK(Disconnected(r), files)
<1>1. r \in SessionType
  BY DEF SessionOK
<1>2. CASE r.closing
  BY <1>2, GoneKeeps DEF Disconnected
<1>3. ASSUME ~r.closing, NEW file \in SUBSET FileType,
             file = {} \/ \E g \in file : file = {g},
             \A g \in file : FileOK(g, files),
             StopLoading(r) = [r EXCEPT !.loading = FALSE, !.active = {}, !.file = file]
      PROVE  SessionOK(Disconnected(r), files)
  <2> DEFINE q == Disconnected(r)
  <2>1. q = [r EXCEPT !.loading = FALSE, !.active = {}, !.file = file,
                      !.state = "Disconnected", !.transfers = FALSE]
    BY <1>1, <1>3 DEF Disconnected, SessionType
  <2>2. /\ q \in SessionType /\ q.file = file /\ q.active = {}
        /\ q.state = "Disconnected" /\ q.loading = FALSE
    BY <1>1, <1>3, <2>1 DEF SessionType
  <2> HIDE DEF q
  <2>3. SessionOK(q, files)
    BY <1>3, <2>2 DEF SessionOK, ListOK, FilesOK
  <2> QED BY <2>3 DEF q
<1>4. CASE ~r.closing /\ r.file = {}
  <2>1. StopLoading(r) = [r EXCEPT !.loading = FALSE, !.active = {}, !.file = {}]
    BY <1>1, <1>4 DEF StopLoading
  <2> QED BY <1>3, <1>4, <2>1
<1>5. ASSUME ~r.closing, NEW f \in FileType, r.file = {f}, FileOK(f, files)
      PROVE  SessionOK(Disconnected(r), files)
  <2> DEFINE g == [f EXCEPT !.loading = FALSE, !.saving = FALSE, !.read = {}, !.write = {}]
  <2>1. StopLoading(r) = [r EXCEPT !.loading = FALSE, !.active = {}, !.file = {g}]
    BY <1>1, <1>5 DEF StopLoading
  <2>2. FileOK(g, files)
    BY <1>5 DEF FileOK, FileType
  <2> HIDE DEF g
  <2>3. {g} \in SUBSET FileType
    BY <2>2 DEF FileOK
  <2> QED BY <1>3, <1>5, <2>1, <2>2, <2>3
<1>6. r.closing \in BOOLEAN
  BY <1>1 DEF SessionType
<1> QED BY <1>2, <1>4, <1>5, <1>6, OpenFileIs

LEMMA DisconnectKeeps ==
  ASSUME NEW r, NEW files, SessionOK(r, files), NEW live \in BOOLEAN
  PROVE  /\ SessionOK(DisconnectSession(r, live), files)
         /\ SessionOK(CloseSession(r, live), files)
<1>1. <<>> \in Seq(Commands) /\ 1 \in Nat \ {0}
  OBVIOUS
<1>2. ASSUME NEW q, SessionOK(q, files) PROVE SessionOK(DisconnectSession(q, live), files)
  <2>1. /\ q.state = "Connected" => SessionOK([q EXCEPT !.state = "Disconnecting"], files)
        /\ q.state = "Connected" => SessionOK([q EXCEPT !.state = "Disconnected"], files)
        /\ SessionOK(Gone(q), files)
    BY <1>1, <1>2, MarksKeep, GoneKeeps
  <2>2. CASE q.state # "Connected"
    <3>1. DisconnectSession(q, live) = q
      BY <2>2 DEF DisconnectSession
    <3> QED BY <1>2, <3>1
  <2>3. CASE q.state = "Connected" /\ live
    <3>1. DisconnectSession(q, live) = [q EXCEPT !.state = "Disconnecting"]
      BY <2>3 DEF DisconnectSession
    <3> QED BY <2>1, <2>3, <3>1
  <2>4. CASE q.state = "Connected" /\ ~live
    <3>1. DisconnectSession(q, live) = IF q.closing THEN Gone(q) ELSE [q EXCEPT !.state = "Disconnected"]
      BY <2>4 DEF DisconnectSession
    <3> QED BY <2>1, <2>4, <3>1
  <2> QED BY <2>2, <2>3, <2>4
<1>3. SessionOK([r EXCEPT !.closing = TRUE], files)
  BY <1>1, MarksKeep
<1> QED BY <1>2, <1>3, GoneKeeps DEF CloseSession

-----------------------------------------------------------------------------
(* The steps of the user.                                                  *)

\* A session is left with another record, and what it sends is on its way.
LEMMA LeaveKeeps ==
  ASSUME SessionsOK, ConnectionsOK, NEW s \in Sessions, NEW result, Leave(s, result),
         SessionOK(result, remote), remote' = remote
  PROVE  SessionsOK' /\ sent' \in [Connections -> Seq(Commands)]
<1> DEFINE q == [result EXCEPT !.out = <<>>]
           c == Current(s)
<1>1. SessionOK(q, remote) /\ q \in SessionType
  <2>1. <<>> \in Seq(Commands) /\ 1 \in Nat \ {0}
    OBVIOUS
  <2>2. SessionOK(q, remote)
    BY <2>1, MarksKeep
  <2> QED BY <2>2 DEF SessionOK
<1>2. session' = [session EXCEPT ![s] = q] /\ sent' = [sent EXCEPT ![c] = sent[c] \o result.out]
  BY DEF Leave
<1> HIDE DEF q
<1>3. SessionsOK'
  <2>1. session' \in [Sessions -> SessionType]
    BY <1>1, <1>2 DEF SessionsOK
  <2>2. \A u \in Sessions : session'[u] = q \/ session'[u] = session[u]
    BY <1>2 DEF SessionsOK
  <2>3. \A u \in Sessions : SessionOK(session'[u], remote)
    BY <1>1, <2>2 DEF SessionsOK
  <2> QED BY <2>1, <2>3 DEF SessionsOK
<1>4. c \in Connections
  <2>1. session[s].conn \in 1..MaxConnections
    BY DEF SessionsOK, SessionType
  <2> QED BY <2>1 DEF Current, Connections
<1> HIDE DEF c
<1>5. sent[c] \o result.out \in Seq(Commands)
  <2>1. sent[c] \in Seq(Commands) /\ result.out \in Seq(Commands)
    BY <1>4 DEF ConnectionsOK, SessionOK, SessionType
  <2> QED BY <2>1, ConcatProperties
<1>6. sent' \in [Connections -> Seq(Commands)]
  BY <1>2, <1>4, <1>5 DEF ConnectionsOK
<1> QED BY <1>3, <1>6

LEMMA ActKeeps ==
  ASSUME EditorInv, NEW s \in Sessions, NEW result, Act(s, result), SessionOK(result, remote)
  PROVE  EditorInv'
<1>1. /\ Leave(s, result) /\ failed' = failed \ {s}
      /\ UNCHANGED <<exit, open, alive, stage, answers, remote>>
  BY DEF Act
<1>2. SessionsOK' /\ sent' \in [Connections -> Seq(Commands)]
  BY <1>1, LeaveKeeps DEF EditorInv
<1> QED BY <1>1, <1>2 DEF EditorInv, ConnectionsOK, ExitOK

LEMMA LiveIs ==
  ASSUME NEW s
  PROVE  Live(s) \in BOOLEAN
BY DEF Live

LEMMA ReconnectKeeps ==
  ASSUME EditorInv, NEW s \in Sessions, Reconnect(s)
  PROVE  EditorInv'
<1> DEFINE r == session[s]
           p == NewSession(r.conn + 1)
           q == StartConnection(r)
<1>1. /\ r \in SessionType /\ r.conn < MaxConnections
      /\ session' = [session EXCEPT ![s] = q]
      /\ alive' = alive \cup {<<s, r.conn + 1>>}
      /\ UNCHANGED <<exit, failed, sent, answers, remote>>
  BY DEF Reconnect, EditorInv, SessionsOK
<1>2. r.conn + 1 \in 1..MaxConnections /\ r.transfers \in BOOLEAN
  BY <1>1, BoundsAssumption DEF SessionType
<1>3. SessionOK(q, remote) /\ q \in SessionType
  <2>1. SessionOK(p, remote)
    BY <1>2, FreshKeeps
  <2>2. <<>> \in Seq(Commands) /\ 1 \in Nat \ {0}
    OBVIOUS
  <2> HIDE DEF p, r
  <2>3. SessionOK([p EXCEPT !.transfers = r.transfers], remote)
    BY <1>2, <2>1, <2>2, MarksKeep
  <2>4. q = [p EXCEPT !.transfers = r.transfers]
    BY DEF StartConnection, p
  <2> QED BY <2>3, <2>4 DEF SessionOK
<1> HIDE DEF q
<1>4. SessionsOK'
  <2>1. session' \in [Sessions -> SessionType]
    BY <1>1, <1>3 DEF EditorInv, SessionsOK
  <2>2. \A u \in Sessions : session'[u] = q \/ session'[u] = session[u]
    BY <1>1 DEF EditorInv, SessionsOK
  <2>3. \A u \in Sessions : SessionOK(session'[u], remote)
    BY <1>3, <2>2 DEF EditorInv, SessionsOK
  <2> QED BY <1>1, <2>1, <2>3 DEF SessionsOK
<1>5. alive' \subseteq Connections
  BY <1>1, <1>2 DEF EditorInv, ConnectionsOK, Connections
<1> QED BY <1>1, <1>4, <1>5 DEF EditorInv, ConnectionsOK, ExitOK

LEMMA UserKeeps ==
  ASSUME EditorInv, NEW s \in Sessions, UserStep(s)
  PROVE  EditorInv'
<1> DEFINE r == session[s]
<1>1. SessionOK(r, remote)
  BY DEF EditorInv, SessionsOK
<1>2. CASE ShowFiles(s)
  <2>1. SessionOK(EnsureDirectory(r, Live(s)), remote)
    BY <1>1, RequestDirectoryKeeps DEF EnsureDirectory
  <2> QED BY <1>2, <2>1, ActKeeps DEF ShowFiles
<1>3. CASE Save(s)
  <2>1. SessionOK(SaveRemoteFile(r, Live(s)), remote)
    BY <1>1, SaveKeeps
  <2> QED BY <1>3, <2>1, ActKeeps DEF Save
<1>4. CASE Revert(s)
  <2>1. SessionOK(RevertRemoteFile(r), remote)
    BY <1>1, <1>4, RevertKeeps DEF Revert
  <2> QED BY <1>4, <2>1, ActKeeps DEF Revert
<1>5. CASE CloseFile(s)
  <2>1. SessionOK(CloseRemoteFile(r), remote)
    BY <1>1, CloseKeeps DEF CloseRemoteFile
  <2> QED BY <1>5, <2>1, ActKeeps DEF CloseFile
<1>6. SessionOK(DisconnectSession(r, Live(s)), remote) /\ SessionOK(CloseSession(r, Live(s)), remote)
  BY <1>1, LiveIs, DisconnectKeeps
<1>7. CASE DisconnectActive(s)
  BY <1>6, <1>7, ActKeeps DEF DisconnectActive
<1>8. CASE CloseTab(s) \/ CloseEnded(s)
  BY <1>6, <1>8, ActKeeps DEF CloseTab, CloseEnded
<1>9. CASE Reconnect(s)
  BY <1>9, ReconnectKeeps
<1>10. ASSUME NEW path \in Files, OpenFile(s, path) PROVE EditorInv'
  <2>1. SessionOK(OpenRemoteFile(r, Live(s), path), remote)
    BY <1>1, OpenRemoteFileKeeps
  <2> QED BY <1>10, <2>1, ActKeeps DEF OpenFile
<1>11. ASSUME NEW text \in Texts, Type(s, text) PROVE EditorInv'
  <2>1. SessionOK(Edit(r, text), remote)
    BY <1>1, <1>11, EditKeeps DEF Type, Contents
  <2> QED BY <1>11, <2>1, ActKeeps DEF Type
<1> QED BY <1>2, <1>3, <1>4, <1>5, <1>7, <1>8, <1>9, <1>10, <1>11 DEF UserStep

LEMMA ListStepKeeps ==
  ASSUME EditorInv, NEW s \in Sessions, ListStep(s)
  PROVE  EditorInv'
<1> DEFINE r == session[s]
           q == [r EXCEPT !.next = @ + 1]
<1>1. SessionOK(r, remote) /\ <<>> \in Seq(Commands) /\ 1 \in Nat \ {0}
  BY DEF EditorInv, SessionsOK
<1>2. CASE StartTransfer(s)
  <2>1. SessionOK([r EXCEPT !.transfers = TRUE], remote)
    BY <1>1, MarksKeep
  <2> QED BY <1>2, <2>1, ActKeeps DEF StartTransfer
<1>3. ASSUME NEW c \in Commands, Ask(s, c) PROVE EditorInv'
  <2>1. SessionOK(q, remote)
    BY <1>1, CountKeeps
  <2>2. Act(s, IF Live(s) THEN Send(q, c) ELSE q)
    BY <1>3 DEF Ask
  <2> HIDE DEF q
  <2>3. SessionOK(Send(q, c), remote)
    BY <2>1, SendKeeps
  <2> QED BY <2>1, <2>2, <2>3, ActKeeps
<1>4. ASSUME NEW path \in Files, NEW placement \in Placements,
             CreateFile(s, path, placement) \/ DeletePaths(s, path, placement)
      PROVE  EditorInv'
  <2>1. /\ [op |-> "CreateFile", path |-> path, placement |-> placement] \in Commands
        /\ [op |-> "DeletePaths", path |-> path, placement |-> placement] \in Commands
    BY DEF Commands
  <2> QED BY <1>3, <1>4, <2>1 DEF CreateFile, DeletePaths
<1> QED BY <1>2, <1>4 DEF ListStep

-----------------------------------------------------------------------------
(* The steps of the workers.                                               *)

\* One more answer that says the truth.
LEMMA AnswerKeeps ==
  ASSUME NEW queue, NEW files, QueueOK(queue, files), NEW a \in Answers, AnswerOK(a, files)
  PROVE  QueueOK(Append(queue, a), files)
<1> DEFINE longer == Append(queue, a)
<1>1. queue \in Seq(Answers) /\ Len(queue) \in Nat /\ DOMAIN queue = 1..Len(queue)
  BY DEF QueueOK
<1>2. /\ longer \in Seq(Answers) /\ DOMAIN longer = 1..(Len(queue) + 1)
      /\ longer[Len(queue) + 1] = a
      /\ \A i \in 1..Len(queue) : longer[i] = queue[i]
  BY <1>1, AppendProperties
<1> HIDE DEF longer
<1>3. \A i \in DOMAIN longer : i \in DOMAIN queue \/ i = Len(queue) + 1
  BY <1>1, <1>2
<1>4. \A i \in DOMAIN longer : AnswerOK(longer[i], files)
  BY <1>1, <1>2, <1>3 DEF QueueOK
<1>5. QueueOK(longer, files)
  BY <1>2, <1>4 DEF QueueOK
<1> QED BY <1>5 DEF longer

\* A worker takes what was sent first, or nothing, and answers it.
LEMMA ToldKeeps ==
  ASSUME EditorInv, NEW c \in Connections, NEW a \in Answers, AnswerOK(a, remote), Answer(c, a),
         sent' \in [Connections -> Seq(Commands)], alive' \subseteq Connections,
         UNCHANGED <<windowVars, remote>>
  PROVE  EditorInv'
<1> DEFINE queue == Append(answers[c], a)
<1>1. QueueOK(queue, remote)
  BY AnswerKeeps DEF EditorInv, ConnectionsOK
<1>2. queue \in Seq(Answers)
  BY <1>1 DEF QueueOK
<1>3. answers' = [answers EXCEPT ![c] = queue]
  BY DEF Answer
<1> HIDE DEF queue
<1>4. answers' \in [Connections -> Seq(Answers)]
  BY <1>2, <1>3 DEF EditorInv, ConnectionsOK
<1>5. \A d \in Connections : answers'[d] = queue \/ answers'[d] = answers[d]
  BY <1>3 DEF EditorInv, ConnectionsOK
<1>6. \A d \in Connections : QueueOK(answers'[d], remote)
  BY <1>1, <1>5 DEF EditorInv, ConnectionsOK
<1> QED BY <1>4, <1>6 DEF EditorInv, SessionsOK, ConnectionsOK, ExitOK, windowVars

LEMMA DoneIs ==
  ASSUME EditorInv, NEW c \in Connections, sent[c] # <<>>
  PROVE  /\ Head(sent[c]) \in Commands
         /\ Done(c) => sent' \in [Connections -> Seq(Commands)]
<1>1. sent \in [Connections -> Seq(Commands)] /\ sent[c] \in Seq(Commands)
  BY DEF EditorInv, ConnectionsOK
<1>2. Head(sent[c]) \in Commands /\ Tail(sent[c]) \in Seq(Commands)
  BY <1>1, TailIs
<1> QED BY <1>1, <1>2 DEF Done

\* A file has new contents, and no session takes what it had for current any more.
LEMMA OutdatedSessionKeeps ==
  ASSUME NEW r, NEW files \in [Files -> Contents \cup {Absent}], SessionOK(r, files),
         NEW path \in Files, NEW contents \in Contents \cup {Absent}
  PROVE  SessionOK(Outdated(r, path), [files EXCEPT ![path] = contents])
<1> DEFINE now == [files EXCEPT ![path] = contents]
           q == Outdated(r, path)
<1>1. r \in SessionType
  BY DEF SessionOK
<1>2. /\ now[path] = contents
      /\ \A p \in Files \ {path} : now[p] = files[p]
  OBVIOUS
<1> HIDE DEF now
<1>3. /\ q.file = {} <=> r.file = {}
      /\ q.file = {} \/ \E g \in q.file : q.file = {g}
      /\ \A g \in q.file : FileOK(g, now) /\ g \in FileType
  <2>1. q.file = {[f EXCEPT !.current = @ /\ f.path # path] : f \in r.file}
    BY <1>1 DEF Outdated, SessionType
  <2>2. CASE r.file = {}
    BY <2>1, <2>2
  <2>3. ASSUME NEW f \in FileType, r.file = {f}, FileOK(f, files)
        PROVE  /\ q.file = {} <=> r.file = {}
               /\ q.file = {} \/ \E g \in q.file : q.file = {g}
               /\ \A g \in q.file : FileOK(g, now) /\ g \in FileType
    <3> DEFINE g == [f EXCEPT !.current = @ /\ f.path # path]
    <3>1. q.file = {g}
      BY <2>1, <2>3
    <3>2. /\ g \in FileType /\ g.loading = f.loading /\ g.read = f.read /\ g.write = f.write
          /\ g.path = f.path /\ g.editor = f.editor /\ g.current = (f.current /\ f.path # path)
          /\ g.original = f.original /\ g.saving = f.saving
      BY <2>3 DEF FileType
    <3>3. f.path \in Files
      BY DEF FileType
    <3> HIDE DEF g
    <3>4. FileOK(g, now)
      BY <1>2, <2>3, <3>2, <3>3 DEF FileOK
    <3> QED BY <2>3, <3>1, <3>2, <3>4
  <2> QED BY <2>2, <2>3, OpenFileIs
<1>4. /\ q \in SessionType /\ q.state = r.state /\ q.active = r.active /\ q.loading = r.loading
  <2>1. q = [r EXCEPT !.file = q.file]
    BY <1>1 DEF Outdated, SessionType
  <2>2. q.file \in SUBSET FileType
    BY <1>3
  <2> HIDE DEF q
  <2>3. [r EXCEPT !.file = q.file] \in SessionType
    BY <1>1, <2>2 DEF SessionType
  <2> QED BY <1>1, <2>1, <2>3 DEF SessionType
<1> HIDE DEF q
<1>5. ListOK(q)
  BY <1>3, <1>4 DEF SessionOK, ListOK
<1>6. SessionOK(q, now)
  BY <1>3, <1>4, <1>5 DEF SessionOK, FilesOK
<1> QED BY <1>6 DEF q, now

\* Nor do the answers that are on their way.
LEMMA OutdatedQueueKeeps ==
  ASSUME NEW queue, NEW files \in [Files -> Contents \cup {Absent}], QueueOK(queue, files),
         NEW path \in Files, NEW contents \in Contents \cup {Absent}
  PROVE  QueueOK(OutdatedAnswers(queue, path), [files EXCEPT ![path] = contents])
<1> DEFINE now == [files EXCEPT ![path] = contents]
           told == OutdatedAnswers(queue, path)
<1>1. /\ queue \in Seq(Answers) /\ DOMAIN queue = 1..Len(queue) /\ Len(queue) \in Nat
      /\ \A i \in DOMAIN queue : queue[i] \in Answers /\ AnswerOK(queue[i], files)
  BY DEF QueueOK
<1>2. now[path] = contents /\ \A p \in Files \ {path} : now[p] = files[p]
  OBVIOUS
<1> HIDE DEF now
<1>3. ASSUME NEW i \in DOMAIN queue
      PROVE  told[i] \in Answers /\ AnswerOK(told[i], now)
  <2> DEFINE a == queue[i]
             b == [a EXCEPT !.current = FALSE]
  <2>1. a \in Answers /\ AnswerOK(a, files)
    BY <1>1
  <2>2. told[i] = IF "current" \in DOMAIN a /\ a.path = path THEN b ELSE a
    BY DEF OutdatedAnswers
  <2> HIDE DEF a, told
  <2>3. CASE a.kind \in {"FileRead", "FileWritten"}
    <3>1. a \in [kind : {"FileRead", "FileWritten"}, id : Nat, path : Files, text : Contents,
                 current : BOOLEAN]
      BY <2>1, <2>3 DEF Answers
    <3>2. "current" \in DOMAIN a /\ a.path \in Files
      BY <3>1
    <3>3. CASE a.path = path
      <4>1. b \in [kind : {"FileRead", "FileWritten"}, id : Nat, path : Files, text : Contents,
                   current : BOOLEAN]
        BY <3>1
      <4>2. b.current = FALSE
        BY <3>1
      <4>3. told[i] = b
        BY <2>2, <3>2, <3>3
      <4> HIDE DEF b
      <4> QED BY <4>1, <4>2, <4>3 DEF Answers, AnswerOK
    <3>4. CASE a.path # path
      <4>1. told[i] = a
        BY <2>2, <3>4
      <4>2. now[a.path] = files[a.path]
        BY <1>2, <3>2, <3>4
      <4> QED BY <2>1, <4>1, <4>2 DEF AnswerOK
    <3> QED BY <3>3, <3>4
  <2>4. CASE a.kind \notin {"FileRead", "FileWritten"}
    <3>1. "current" \notin DOMAIN a
      BY <2>1, <2>4, AnswerFacts
    <3>2. told[i] = a
      BY <2>2, <3>1
    <3> QED BY <2>1, <2>4, <3>2 DEF AnswerOK
  <2> QED BY <2>3, <2>4
<1>4. told = [i \in 1..Len(queue) |-> told[i]]
  BY <1>1 DEF OutdatedAnswers
<1> HIDE DEF told
<1>5. told \in Seq(Answers) /\ DOMAIN told = DOMAIN queue
  <2>1. \A i \in 1..Len(queue) : told[i] \in Answers
    BY <1>1, <1>3
  <2> QED BY <1>1, <1>4, <2>1
<1>6. QueueOK(told, now)
  BY <1>3, <1>5 DEF QueueOK
<1> QED BY <1>6 DEF told, now

\* One more answer, or none.
LEMMA MoreKeeps ==
  ASSUME NEW queue, NEW files, QueueOK(queue, files), NEW answer,
         answer = <<>> \/ \E a \in Answers : answer = <<a>> /\ AnswerOK(a, files)
  PROVE  QueueOK(queue \o answer, files)
<1>1. queue \in Seq(Answers)
  BY DEF QueueOK
<1>2. CASE answer = <<>>
  <2>1. queue \o <<>> = queue
    BY <1>1
  <2> QED BY <1>2, <2>1
<1>3. ASSUME NEW a \in Answers, answer = <<a>>, AnswerOK(a, files)
      PROVE  QueueOK(queue \o answer, files)
  <2>1. queue \o <<a>> = Append(queue, a)
    BY <1>1
  <2> QED BY <1>3, <2>1, AnswerKeeps
<1> QED BY <1>2, <1>3

LEMMA StoreKeeps ==
  ASSUME EditorInv, NEW path \in Files, NEW contents \in Contents \cup {Absent}, NEW by, NEW answer,
         Store(path, contents, by, answer),
         answer = <<>> \/ \E a \in Answers :
           answer = <<a>> /\ AnswerOK(a, [remote EXCEPT ![path] = contents]),
         sent' \in [Connections -> Seq(Commands)], UNCHANGED <<exit, failed, alive>>
  PROVE  EditorInv'
<1> DEFINE now == [remote EXCEPT ![path] = contents]
<1>1. /\ remote' = now
      /\ answers' = [c \in Connections |-> OutdatedAnswers(answers[c], path)
                                            \o (IF c \in by THEN answer ELSE <<>>)]
      /\ session' = [s \in Sessions |-> Outdated(session[s], path)]
  BY DEF Store
<1>2. remote \in [Files -> Contents \cup {Absent}] /\ now \in [Files -> Contents \cup {Absent}]
  BY DEF EditorInv
<1>3. \A s \in Sessions : SessionOK(Outdated(session[s], path), now)
  BY <1>2, OutdatedSessionKeeps DEF EditorInv, SessionsOK
<1>4. \A c \in Connections : QueueOK(OutdatedAnswers(answers[c], path), now)
  BY <1>2, OutdatedQueueKeeps DEF EditorInv, ConnectionsOK
<1>5. \A c \in Connections : QueueOK(answers'[c], now)
  <2> HIDE DEF now
  <2> SUFFICES ASSUME NEW c \in Connections PROVE QueueOK(answers'[c], now)
    OBVIOUS
  <2>1. CASE c \in by
    <3>1. answers'[c] = OutdatedAnswers(answers[c], path) \o answer
      BY <1>1, <2>1
    <3>2. answer = <<>> \/ \E a \in Answers : answer = <<a>> /\ AnswerOK(a, now)
      BY DEF now
    <3> QED BY <1>4, <3>1, <3>2, MoreKeeps
  <2>2. CASE c \notin by
    <3>1. answers'[c] = OutdatedAnswers(answers[c], path) \o <<>>
      BY <1>1, <2>2
    <3> QED BY <1>4, <3>1, MoreKeeps
  <2> QED BY <2>1, <2>2
<1> HIDE DEF now
<1>6. SessionsOK'
  <2>1. \A s \in Sessions : session'[s] = Outdated(session[s], path)
    BY <1>1
  <2>2. \A s \in Sessions : SessionOK(session'[s], now) /\ session'[s] \in SessionType
    BY <1>3, <2>1 DEF SessionOK
  <2>3. session' \in [Sessions -> SessionType]
    <3>1. session' = [s \in Sessions |-> session'[s]]
      BY <1>1
    <3> QED BY <2>2, <3>1
  <2> QED BY <1>1, <2>2, <2>3 DEF SessionsOK
<1>7. ConnectionsOK'
  <2>1. answers' \in [Connections -> Seq(Answers)]
    <3>1. \A c \in Connections : answers'[c] \in Seq(Answers)
      BY <1>5 DEF QueueOK
    <3>2. answers' = [c \in Connections |-> answers'[c]]
      BY <1>1
    <3> QED BY <3>1, <3>2
  <2>2. (alive \subseteq Connections)'
    BY DEF EditorInv, ConnectionsOK
  <2> QED BY <1>1, <1>5, <2>1, <2>2 DEF ConnectionsOK
<1> QED BY <1>1, <1>2, <1>6, <1>7 DEF EditorInv, ExitOK

LEMMA WorkerKeeps ==
  ASSUME EditorInv, NEW c \in Connections, WorkerStep(c)
  PROVE  EditorInv'
<1> DEFINE command == Head(sent[c])
<1>1. sent[c] # <<>> => command \in Commands
  BY DoneIs
<1>2. alive \subseteq Connections
  BY DEF EditorInv, ConnectionsOK
<1>3. CASE FailRequested(c)
  <2>1. sent[c] # <<>> /\ Done(c) /\ UNCHANGED <<windowVars, alive, remote>>
    BY <1>3 DEF FailRequested
  <2> DEFINE a == IF command.op \in {"ReadDirectory", "ReadFile", "WriteFile"}
                  THEN [kind |-> "SftpFailed", op |-> command.op, id |-> command.id]
                  ELSE [kind |-> "SftpFailed", op |-> command.op]
  <2>2. Answer(c, a)
    BY <1>3 DEF FailRequested
  <2>3. a \in Answers /\ AnswerOK(a, remote)
    <3> HIDE DEF command
    <3>1. CASE command.op \in {"ReadDirectory", "ReadFile", "WriteFile"}
      BY <1>1, <2>1, <3>1, CommandFacts DEF Answers, AnswerOK
    <3>2. CASE command.op \notin {"ReadDirectory", "ReadFile", "WriteFile"}
      <4>1. command.op \in {"CreateFile", "DeletePaths"}
        BY <1>1, <2>1, <3>2, CommandFacts
      <4> QED BY <3>2, <4>1 DEF Answers, AnswerOK
    <3> QED BY <3>1, <3>2
  <2> HIDE DEF a
  <2> QED BY <1>2, <2>1, <2>2, <2>3, DoneIs, ToldKeeps
<1>4. CASE ReadDirectory(c)
  <2> DEFINE a == [kind |-> "DirectoryRead", id |-> command.id]
  <2>1. /\ sent[c] # <<>> /\ command.op = "ReadDirectory" /\ Answer(c, a) /\ Done(c)
        /\ UNCHANGED <<windowVars, alive, remote>>
    BY <1>4 DEF ReadDirectory, Takes
  <2>2. a \in Answers /\ AnswerOK(a, remote)
    BY <1>1, <2>1, CommandFacts DEF Answers, AnswerOK
  <2> HIDE DEF a
  <2> QED BY <1>2, <2>1, <2>2, DoneIs, ToldKeeps
<1>5. CASE ReadFile(c)
  <2> DEFINE a == [kind |-> "FileRead", id |-> command.id, path |-> command.path,
                   text |-> remote[command.path], current |-> TRUE]
  <2>1. /\ sent[c] # <<>> /\ command.op = "ReadFile" /\ Answer(c, a) /\ Done(c)
        /\ remote[command.path] # Absent /\ UNCHANGED <<windowVars, alive, remote>>
    BY <1>5 DEF ReadFile, Takes
  <2>2. command.id \in Nat /\ command.path \in Files
    BY <1>1, <2>1, CommandFacts
  <2>3. remote[command.path] \in Contents
    BY <2>1, <2>2 DEF EditorInv
  <2>4. a \in Answers /\ AnswerOK(a, remote)
    BY <2>2, <2>3 DEF Answers, AnswerOK
  <2> HIDE DEF a
  <2> QED BY <1>2, <2>1, <2>4, DoneIs, ToldKeeps
<1>6. CASE Compare(c)
  BY <1>6 DEF Compare, windowVars, EditorInv, SessionsOK, ConnectionsOK, ExitOK
<1>7. CASE Truncate(c)
  <2>1. /\ sent[c] # <<>> /\ command.op = "WriteFile" /\ Store(command.path, Empty, {c}, <<>>)
        /\ UNCHANGED <<exit, failed, alive, sent>>
    BY <1>7 DEF Truncate, Takes
  <2>2. command.path \in Files /\ Empty \in Contents \cup {Absent}
    BY <1>1, <2>1, CommandFacts DEF Contents
  <2>3. sent' \in [Connections -> Seq(Commands)]
    BY <2>1 DEF EditorInv, ConnectionsOK
  <2> HIDE DEF command
  <2> QED BY <2>1, <2>2, <2>3, StoreKeeps
<1>8. CASE WriteContents(c)
  <2>1. PICK answer \in {[kind |-> "FileWritten", id |-> command.id, path |-> command.path,
                          text |-> command.text, current |-> TRUE],
                         [kind |-> "SftpFailed", op |-> "WriteFile", id |-> command.id]} :
          Store(command.path, command.text, {c}, <<answer>>)
    BY <1>8 DEF WriteContents
  <2>2. /\ sent[c] # <<>> /\ command.op = "WriteFile" /\ Done(c)
        /\ UNCHANGED <<exit, failed, alive>>
    BY <1>8 DEF WriteContents, Takes
  <2>3. command.path \in Files /\ command.text \in Contents /\ command.id \in Nat
    BY <1>1, <2>2, CommandFacts
  <2>4. sent' \in [Connections -> Seq(Commands)]
    BY <2>2, DoneIs
  <2> HIDE DEF command
  <2>5. answer \in Answers /\ AnswerOK(answer, [remote EXCEPT ![command.path] = command.text])
    <3>1. [remote EXCEPT ![command.path] = command.text][command.path] = command.text
      BY <2>3 DEF EditorInv
    <3> DEFINE now == [remote EXCEPT ![command.path] = command.text]
    <3>2. now[command.path] = command.text
      BY <3>1
    <3> HIDE DEF now
    <3> DEFINE written == [kind |-> "FileWritten", id |-> command.id, path |-> command.path,
                           text |-> command.text, current |-> TRUE]
               refused == [kind |-> "SftpFailed", op |-> "WriteFile", id |-> command.id]
    <3>3. written \in Answers /\ AnswerOK(written, now)
      BY <2>3, <3>2 DEF Answers, AnswerOK
    <3>4. refused \in Answers /\ AnswerOK(refused, now)
      BY <2>3 DEF Answers, AnswerOK
    <3>5. answer = written \/ answer = refused
      BY <2>1
    <3> HIDE DEF written, refused
    <3>6. answer \in Answers /\ AnswerOK(answer, now)
      BY <3>3, <3>4, <3>5
    <3> QED BY <3>6 DEF now
  <2> QED BY <2>1, <2>2, <2>3, <2>4, <2>5, StoreKeeps
<1>9. CASE CreateRequested(c)
  <2> DEFINE a == [kind |-> "PathCreated", path |-> command.path, placement |-> command.placement]
  <2>1. /\ sent[c] # <<>> /\ command.op = "CreateFile" /\ Done(c)
        /\ Store(command.path, Empty, {c}, <<a>>) /\ UNCHANGED <<exit, failed, alive>>
    BY <1>9 DEF CreateRequested, Takes
  <2>2. command.path \in Files /\ command.placement \in Placements /\ Empty \in Contents \cup {Absent}
    BY <1>1, <2>1, CommandFacts DEF Contents
  <2>3. sent' \in [Connections -> Seq(Commands)]
    BY <2>1, DoneIs
  <2>4. a \in Answers /\ \A files : AnswerOK(a, files)
    BY <2>2 DEF Answers, AnswerOK
  <2> HIDE DEF command, a
  <2> QED BY <2>1, <2>2, <2>3, <2>4, StoreKeeps
<1>10. CASE DeleteRequested(c)
  <2> DEFINE a == [kind |-> "PathsDeleted", placement |-> command.placement]
  <2>1. /\ sent[c] # <<>> /\ command.op = "DeletePaths" /\ Done(c)
        /\ Store(command.path, Absent, {c}, <<a>>) /\ UNCHANGED <<exit, failed, alive>>
    BY <1>10 DEF DeleteRequested, Takes
  <2>2. command.path \in Files /\ command.placement \in Placements
    BY <1>1, <2>1, CommandFacts
  <2>3. sent' \in [Connections -> Seq(Commands)]
    BY <2>1, DoneIs
  <2>4. a \in Answers /\ \A files : AnswerOK(a, files)
    BY <2>2 DEF Answers, AnswerOK
  <2> HIDE DEF command, a
  <2> QED BY <2>1, <2>2, <2>3, <2>4, StoreKeeps
<1> QED BY <1>3, <1>4, <1>5, <1>6, <1>7, <1>8, <1>9, <1>10 DEF WorkerStep

-----------------------------------------------------------------------------
(* Transfers and connections that end, other programs, and what is heard.  *)

LEMMA BesideKeeps ==
  ASSUME EditorInv, NEW c \in Connections, TransferEnds(c) \/ Ends(c)
  PROVE  EditorInv'
<1>1. sent \in [Connections -> Seq(Commands)] /\ alive \subseteq Connections
  BY DEF EditorInv, ConnectionsOK
<1>2. CASE TransferEnds(c)
  <2>1. PICK uploaded \in BOOLEAN : Answer(c, [kind |-> "TransferEnded", uploaded |-> uploaded])
    BY <1>2 DEF TransferEnds
  <2> DEFINE a == [kind |-> "TransferEnded", uploaded |-> uploaded]
  <2>2. a \in Answers /\ AnswerOK(a, remote)
    BY DEF Answers, AnswerOK
  <2>3. UNCHANGED <<windowVars, alive, sent, remote>>
    BY <1>2 DEF TransferEnds
  <2> QED BY <1>1, <2>1, <2>2, <2>3, ToldKeeps
<1>3. CASE Ends(c)
  <2>1. PICK n \in 0..Len(sent[c]) : sent' = [sent EXCEPT ![c] = SubSeq(@, 1, n)]
    BY <1>3 DEF Ends
  <2>2. SubSeq(sent[c], 1, n) \in Seq(Commands)
    <3>1. sent[c] \in Seq(Commands)
      BY <1>1
    <3>2. \A i \in 1..n : sent[c][i] \in Commands
      BY <3>1
    <3> QED BY <3>1, <3>2, SubSeqProperties
  <2>3. sent' \in [Connections -> Seq(Commands)]
    BY <1>1, <2>1, <2>2
  <2> DEFINE a == [kind |-> "Disconnected"]
  <2>4. a \in Answers /\ AnswerOK(a, remote)
    BY DEF Answers, AnswerOK
  <2>5. Answer(c, a) /\ alive' \subseteq Connections /\ UNCHANGED <<windowVars, remote>>
    BY <1>1, <1>3 DEF Ends
  <2> QED BY <2>3, <2>4, <2>5, ToldKeeps
<1> QED BY <1>2, <1>3

LEMMA OutsideKeeps ==
  ASSUME EditorInv, NEW path \in Files, NEW text \in Texts, OutsideWrite(path, text)
  PROVE  EditorInv'
<1>1. Store(path, text, {}, <<>>) /\ UNCHANGED <<exit, failed, alive, sent>>
  BY DEF OutsideWrite
<1>2. text \in Contents \cup {Absent} /\ sent' \in [Connections -> Seq(Commands)]
  BY <1>1 DEF Contents, EditorInv, ConnectionsOK
<1> QED BY <1>1, <1>2, StoreKeeps

LEMMA HeardKeeps ==
  ASSUME EditorInv, NEW s \in Sessions, NEW a \in Answers, AnswerOK(a, remote),
         NEW activeSession \in BOOLEAN
  PROVE  SessionOK(Heard(s, a, activeSession), remote)
<1> DEFINE r == session[s]
           q == Heard(s, a, activeSession)
           live == Live(s)
<1>1. SessionOK(r, remote)
  BY DEF EditorInv, SessionsOK
<1>2. CASE r.state = "Removed"
  <2>1. q = r
    BY <1>2 DEF Heard
  <2> QED BY <1>1, <2>1
<1>3. CASE r.state # "Removed"
  <2>1. /\ a.kind = "DirectoryRead" => q = CompleteRequest(r, a.id)
        /\ a.kind = "FileRead" => q = CompleteRead(r, a)
        /\ a.kind = "FileWritten" => q = CompleteWrite(r, a)
        /\ a.kind = "PathCreated" => q = PathCreated(r, live, a, activeSession)
        /\ a.kind = "PathsDeleted" => q = PathsDeleted(r, live, a)
        /\ a.kind = "TransferEnded" => q = TransferEnded(r, live, a)
        /\ a.kind = "Disconnected" => q = Disconnected(r)
        /\ a.kind = "SftpFailed" =>
             q \in {FailRequest(r, a.id), FailFileRequest(r, a.op, a.id), r}
    BY <1>3 DEF Heard
  <2> HIDE DEF r, q, live
  <2>2. SessionOK(CompleteRequest(r, a.id), remote) /\ SessionOK(FailRequest(r, a.id), remote)
    BY <1>1, ListEndsKeeps
  <2>3. SessionOK(FailFileRequest(r, a.op, a.id), remote)
    BY <1>1, FailFileKeeps
  <2>4. a.kind \in {"FileRead", "FileWritten"} =>
          SessionOK(CompleteRead(r, a), remote) /\ SessionOK(CompleteWrite(r, a), remote)
    BY <1>1, CompleteKeeps
  <2>5. /\ a.kind = "PathCreated" => SessionOK(PathCreated(r, live, a, activeSession), remote)
        /\ SessionOK(PathsDeleted(r, live, a), remote)
        /\ SessionOK(TransferEnded(r, live, a), remote)
    BY <1>1, ChangesKeep
  <2>6. SessionOK(Disconnected(r), remote)
    BY <1>1, <1>3, DisconnectedKeeps
  <2>7. SessionOK(q, remote)
    BY <1>1, <2>1, <2>2, <2>3, <2>4, <2>5, <2>6, AnswerFacts
  <2> QED BY <2>7 DEF q
<1> QED BY <1>2, <1>3

LEMMA HearKeeps ==
  ASSUME EditorInv, NEW c \in Connections, Hear(c)
  PROVE  EditorInv'
<1> DEFINE s == c[1]
           a == Head(answers[c])
           rest == Tail(answers[c])
<1>1. /\ answers[c] # <<>> /\ answers' = [answers EXCEPT ![c] = rest]
      /\ UNCHANGED <<exit, open, alive, stage, remote>>
  BY DEF Hear
<1>2. s \in Sessions
  BY DEF Connections
<1>3. answers[c] \in Seq(Answers) /\ QueueOK(answers[c], remote)
  BY DEF EditorInv, ConnectionsOK
<1>4. /\ rest \in Seq(Answers) /\ a \in Answers /\ AnswerOK(a, remote)
      /\ QueueOK(rest, remote)
  <2>1. /\ rest \in Seq(Answers) /\ a \in Answers /\ a = answers[c][1] /\ 1 \in DOMAIN answers[c]
        /\ \A i \in DOMAIN rest : i + 1 \in DOMAIN answers[c] /\ rest[i] = answers[c][i + 1]
    BY <1>1, <1>3, TailIs
  <2> HIDE DEF rest, a
  <2> QED BY <1>3, <2>1 DEF QueueOK
<1>5. PICK activeSession \in BOOLEAN :
        /\ Leave(s, Heard(s, a, activeSession))
        /\ failed' = failed \cup {s} \/ failed' = failed
  BY DEF Hear
<1> HIDE DEF s, a, rest
<1>6. SessionOK(Heard(s, a, activeSession), remote)
  BY <1>2, <1>4, HeardKeeps
<1>7. SessionsOK' /\ sent' \in [Connections -> Seq(Commands)]
  BY <1>1, <1>2, <1>5, <1>6, LeaveKeeps DEF EditorInv
<1>8. ConnectionsOK'
  <2>1. answers' \in [Connections -> Seq(Answers)]
    BY <1>1, <1>4 DEF EditorInv, ConnectionsOK
  <2>2. \A d \in Connections : answers'[d] = rest \/ answers'[d] = answers[d]
    BY <1>1 DEF EditorInv, ConnectionsOK
  <2>3. \A d \in Connections : QueueOK(answers'[d], remote)
    BY <1>4, <2>2 DEF EditorInv, ConnectionsOK
  <2> QED BY <1>1, <1>7, <2>1, <2>3 DEF EditorInv, ConnectionsOK
<1>9. ExitOK'
  BY <1>1, <1>2, <1>5 DEF EditorInv, ExitOK
<1> QED BY <1>1, <1>7, <1>8, <1>9 DEF EditorInv

\* The course of an exit: the window stays, or it goes, and the exit is of its type.
LEMMA PhasesKeep ==
  ASSUME NEW discard \in BOOLEAN,
         Proceed(discard) \/ BeginExit \/ GiveUp \/ (\E stop \in BOOLEAN : Final(discard, stop))
  PROVE  exit' \in [phase : {"None", "Starting", "AskingSave", "Saving", "AskingTransfers"},
                    discard : BOOLEAN, stop : BOOLEAN]
<1> DEFINE PhaseOK == exit' \in [phase : {"None", "Starting", "AskingSave", "Saving", "AskingTransfers"},
                                 discard : BOOLEAN, stop : BOOLEAN]
<1>1. ASSUME NEW d \in BOOLEAN, NEW stop \in BOOLEAN, Finish(d, stop) PROVE PhaseOK
  BY <1>1 DEF Finish
<1>2. ASSUME BeginExit PROVE PhaseOK
  <2>1. NoExit \in [phase : {"None", "Starting", "AskingSave", "Saving", "AskingTransfers"},
                    discard : BOOLEAN, stop : BOOLEAN]
    BY DEF NoExit
  <2>2. CASE SaveProgress(session) = "Ready" /\ ~PendingTransfers
    BY <1>1, <1>2, <2>2 DEF BeginExit
  <2>3. CASE ~(SaveProgress(session) = "Ready" /\ ~PendingTransfers)
    <3>1. PICK phase \in {"Starting", "AskingSave"} : exit' = [NoExit EXCEPT !.phase = phase]
      BY <1>2, <2>3 DEF BeginExit
    <3> QED BY <2>1, <3>1
  <2> QED BY <2>2, <2>3
<1>3. ASSUME GiveUp PROVE PhaseOK
  BY <1>3 DEF GiveUp, NoExit
<1> HIDE DEF PhaseOK
<1>4. ASSUME NEW d \in BOOLEAN, NEW stop \in BOOLEAN, Final(d, stop) PROVE PhaseOK
  BY <1>1, <1>2, <1>4 DEF Final
<1>5. ASSUME Proceed(discard) PROVE PhaseOK
  <2>1. CASE PendingTransfers
    <3>1. exit' = [phase |-> "AskingTransfers", discard |-> discard, stop |-> FALSE]
      BY <1>5, <2>1 DEF Proceed
    <3> QED BY <3>1 DEF PhaseOK
  <2>2. CASE ~PendingTransfers
    BY <1>4, <1>5, <2>2 DEF Proceed
  <2> QED BY <2>1, <2>2
<1>6. PhaseOK
  BY <1>2, <1>3, <1>4, <1>5
<1> QED BY <1>6 DEF PhaseOK

\* What "Save All" makes of the sessions and of what is sent.
SavedBefore(s) == IF Dirty(session[s]) /\ ~Saving(session[s])
                  THEN SaveRemoteFile(session[s], Live(s)) ELSE session[s]

LEMMA SaveAllIs ==
  ASSUME AnswerSaveAll
  PROVE  /\ session' = [s \in Sessions |-> [SavedBefore(s) EXCEPT !.out = <<>>]]
         /\ sent' = [c \in Connections |->
              IF c = Current(c[1]) THEN sent[c] \o SavedBefore(c[1]).out ELSE sent[c]]
         /\ \/ exit' = [NoExit EXCEPT !.phase = "Saving"] /\ UNCHANGED open
            \/ GiveUp
            \/ Proceed(FALSE)
         /\ failed' = {} /\ UNCHANGED <<alive, stage, answers, remote>>
<1> DEFINE saved == [s \in Sessions |-> SavedBefore(s)]
<1>1. /\ session' = [s \in Sessions |-> [saved[s] EXCEPT !.out = <<>>]]
      /\ sent' = [c \in Connections |->
           IF c = Current(c[1]) THEN sent[c] \o saved[c[1]].out ELSE sent[c]]
      /\ CASE SaveProgress(saved) = "Waiting" ->
                exit' = [NoExit EXCEPT !.phase = "Saving"] /\ UNCHANGED open
           [] SaveProgress(saved) = "Blocked" -> GiveUp
           [] SaveProgress(saved) = "Ready"   -> Proceed(FALSE)
      /\ failed' = {} /\ UNCHANGED <<alive, stage, answers, remote>>
  BY DEF AnswerSaveAll, SavedBefore
<1>2. SaveProgress(saved) \in {"Waiting", "Blocked", "Ready"}
  BY DEF SaveProgress
<1>3. /\ \A s \in Sessions : saved[s] = SavedBefore(s)
      /\ \A c \in Connections : saved[c[1]] = SavedBefore(c[1])
  BY DEF Connections
<1> HIDE DEF saved
<1>4. \/ exit' = [NoExit EXCEPT !.phase = "Saving"] /\ UNCHANGED open
      \/ GiveUp
      \/ Proceed(FALSE)
  <2> DEFINE progress == SaveProgress(saved)
  <2>1. CASE progress = "Waiting"
    BY <1>1, <2>1
  <2>2. CASE progress = "Blocked"
    BY <1>1, <2>2
  <2>3. CASE progress = "Ready"
    BY <1>1, <2>3
  <2> QED BY <1>2, <2>1, <2>2, <2>3
<1>5. session' = [s \in Sessions |-> [SavedBefore(s) EXCEPT !.out = <<>>]]
  BY <1>1, <1>3
<1>6. sent' = [c \in Connections |->
        IF c = Current(c[1]) THEN sent[c] \o SavedBefore(c[1]).out ELSE sent[c]]
  BY <1>1, <1>3
<1> QED BY <1>1, <1>4, <1>5, <1>6

LEMMA SaveAllKeeps ==
  ASSUME EditorInv, AnswerSaveAll
  PROVE  EditorInv'
<1>1. ASSUME NEW s \in Sessions PROVE SessionOK(SavedBefore(s), remote)
  <2>1. SessionOK(session[s], remote)
    BY DEF EditorInv, SessionsOK
  <2>2. SessionOK(SaveRemoteFile(session[s], Live(s)), remote)
    BY <2>1, SaveKeeps
  <2> QED BY <2>1, <2>2 DEF SavedBefore
<1>2. /\ session' = [s \in Sessions |-> [SavedBefore(s) EXCEPT !.out = <<>>]]
      /\ sent' = [c \in Connections |->
           IF c = Current(c[1]) THEN sent[c] \o SavedBefore(c[1]).out ELSE sent[c]]
      /\ failed' = {} /\ UNCHANGED <<alive, stage, answers, remote>>
  BY SaveAllIs
<1>3. ASSUME NEW s \in Sessions PROVE SessionOK(session'[s], remote)
  <2> DEFINE q == SavedBefore(s)
  <2>1. SessionOK(q, remote) /\ session'[s] = [q EXCEPT !.out = <<>>]
    BY <1>1, <1>2
  <2>2. <<>> \in Seq(Commands) /\ 1 \in Nat \ {0}
    OBVIOUS
  <2> HIDE DEF q
  <2>3. SessionOK([q EXCEPT !.out = <<>>], remote)
    BY <2>1, <2>2, MarksKeep
  <2> QED BY <2>1, <2>3
<1>4. SessionsOK'
  <2>1. \A s \in Sessions : session'[s] \in SessionType
    BY <1>3 DEF SessionOK
  <2>2. session' = [s \in Sessions |-> session'[s]]
    BY <1>2
  <2>3. session' \in [Sessions -> SessionType]
    BY <2>1, <2>2
  <2> QED BY <1>2, <1>3, <2>3 DEF SessionsOK
<1>5. sent' \in [Connections -> Seq(Commands)]
  <2>1. ASSUME NEW c \in Connections PROVE sent'[c] \in Seq(Commands)
    <3>1. sent[c] \in Seq(Commands) /\ c[1] \in Sessions
      BY DEF EditorInv, ConnectionsOK, Connections
    <3>2. SavedBefore(c[1]).out \in Seq(Commands)
      BY <1>1, <3>1 DEF SessionOK, SessionType
    <3>3. sent[c] \o SavedBefore(c[1]).out \in Seq(Commands)
      BY <3>1, <3>2, ConcatProperties
    <3> QED BY <1>2, <3>1, <3>3
  <2>2. sent' = [c \in Connections |-> sent'[c]]
    BY <1>2
  <2> QED BY <2>1, <2>2
<1>6. ExitOK'
  <2>1. CASE exit' = [NoExit EXCEPT !.phase = "Saving"]
    BY <1>2, <2>1 DEF ExitOK, NoExit
  <2>2. CASE GiveUp \/ Proceed(FALSE)
    BY <1>2, <2>2, PhasesKeep DEF ExitOK
  <2> QED BY <2>1, <2>2, SaveAllIs
<1> QED BY <1>2, <1>4, <1>5, <1>6 DEF EditorInv, ConnectionsOK

LEMMA ExitKeeps ==
  ASSUME EditorInv, ExitStep
  PROVE  EditorInv'
<1>1. CASE AnswerSaveAll
  BY <1>1, SaveAllKeeps
<1>2. CASE ~AnswerSaveAll
  <2>1. UNCHANGED <<session, alive, sent, stage, answers, remote>> /\ failed' \subseteq Sessions
    BY <1>2 DEF ExitStep, RequestExit, StartExit, AnswerDiscard, AnswerCancel, SavesAreDone,
                SavesAreNotDone, AnswerStop, Quiet, workerVars, EditorInv, ExitOK
  <2>2. exit.discard \in BOOLEAN
    BY DEF EditorInv, ExitOK
  <2>3. \E discard \in BOOLEAN : \/ Proceed(discard) \/ BeginExit \/ GiveUp
                                 \/ \E stop \in BOOLEAN : Final(discard, stop)
    BY <1>2, <2>2 DEF ExitStep, RequestExit, StartExit, AnswerDiscard, AnswerCancel, SavesAreDone,
                SavesAreNotDone, AnswerStop
  <2>4. ExitOK'
    BY <2>1, <2>3, PhasesKeep DEF ExitOK
  <2> QED BY <2>1, <2>4 DEF EditorInv, SessionsOK, ConnectionsOK
<1> QED BY <1>1, <1>2

-----------------------------------------------------------------------------
(* The invariant of the specification.                                     *)

LEMMA InitOK ==
  ASSUME Init
  PROVE  EditorInv
<1>1. <<>> \in Seq(Commands) /\ <<>> \in Seq(Answers) /\ DOMAIN <<>> = {}
  OBVIOUS
<1>2. remote \in [Files -> Contents \cup {Absent}]
  BY InitialTextAssumption DEF Init, Contents
<1>3. 1 \in 1..MaxConnections
  BY BoundsAssumption
<1>4. SessionOK(NewSession(1), remote) /\ NewSession(1) \in SessionType
  BY <1>3, FreshKeeps DEF SessionOK
<1>5. SessionsOK
  BY <1>4 DEF Init, SessionsOK
<1>6. ConnectionsOK
  BY <1>1, <1>3 DEF Init, ConnectionsOK, Connections, QueueOK
<1>7. ExitOK
  BY DEF Init, ExitOK, NoExit
<1> QED BY <1>2, <1>5, <1>6, <1>7 DEF EditorInv

LEMMA StepOK ==
  ASSUME EditorInv, [Next]_vars
  PROVE  EditorInv'
<1>1. CASE Course
  <2>1. ASSUME NEW s \in Sessions, UserStep(s) PROVE EditorInv'
    BY <2>1, UserKeeps
  <2>2. ASSUME NEW c \in Connections, WorkerStep(c) \/ Hear(c) \/ TransferEnds(c) \/ Disconnect(c)
        PROVE  EditorInv'
    BY <2>2, WorkerKeeps, HearKeeps, BesideKeeps DEF Disconnect
  <2> QED BY <1>1, <2>1, <2>2, ExitKeeps DEF Course
<1>2. CASE Trouble
  <2>1. ASSUME NEW s \in Sessions, ListStep(s) PROVE EditorInv'
    BY <2>1, ListStepKeeps
  <2>2. ASSUME NEW c \in Connections, Lose(c) PROVE EditorInv'
    BY <2>2, BesideKeeps DEF Lose
  <2> QED BY <1>2, <2>1, <2>2, OutsideKeeps DEF Trouble
<1>3. CASE UNCHANGED vars
  BY <1>3 DEF vars, windowVars, workerVars, EditorInv, SessionsOK, ConnectionsOK, ExitOK
<1> QED BY <1>1, <1>2, <1>3 DEF Next

LEMMA EditorInvariant ==
  Spec => []EditorInv
<1>1. Init => EditorInv
  BY InitOK
<1>2. EditorInv /\ [Next]_vars => EditorInv'
  BY StepOK
<1> QED BY <1>1, <1>2, PTL DEF Spec

\* The sessions, their files and the exit are of their types, and a listing and a file
\* wait exactly for the answers whose ids they keep (state.rs:66-73, 402-415).
THEOREM EditorTypeCorrect ==
  Spec => []EditorTypeOK
<1>1. EditorInv => EditorTypeOK
  <2> SUFFICES ASSUME EditorInv PROVE EditorTypeOK
    OBVIOUS
  <2>1. ASSUME NEW s \in Sessions
        PROVE  LET r == session[s] IN
                 /\ r.state \in {"Connected", "Disconnecting", "Disconnected", "Removed"}
                 /\ r.conn \in 1..MaxConnections /\ r.next \in Nat \ {0}
                 /\ r.loading => r.active # {}
                 /\ r.state = "Connected" => (r.loading <=> r.active # {})
                 /\ r.state = "Removed" => r.file = {} /\ r.active = {}
                 /\ \A f \in r.file :
                      /\ f.path \in Files /\ f.original \in Contents /\ f.editor \subseteq Contents
                      /\ f.loading <=> f.read # {}
                      /\ f.saving <=> f.write # {}
    <3> DEFINE r == session[s]
    <3>1. SessionOK(r, remote)
      BY DEF EditorInv, SessionsOK
    <3> HIDE DEF r
    <3>2. /\ r.state \in {"Connected", "Disconnecting", "Disconnected", "Removed"}
          /\ r.conn \in 1..MaxConnections /\ r.next \in Nat \ {0}
      BY <3>1 DEF SessionOK, SessionType
    <3>3. \A f \in r.file :
            /\ f.path \in Files /\ f.original \in Contents /\ f.editor \subseteq Contents
            /\ f.loading <=> f.read # {}
            /\ f.saving <=> f.write # {}
      BY <3>1 DEF SessionOK, FilesOK, FileOK, FileType
    <3>4. /\ r.loading => r.active # {}
          /\ r.state = "Connected" => (r.loading <=> r.active # {})
          /\ r.state = "Removed" => r.file = {} /\ r.active = {}
      BY <3>1 DEF SessionOK, ListOK
    <3> QED BY <3>2, <3>3, <3>4 DEF r
  <2>2. /\ exit.phase \in {"None", "Starting", "AskingSave", "Saving", "AskingTransfers"}
        /\ failed \subseteq Sessions /\ alive \subseteq Connections
        /\ remote \in [Files -> Contents \cup {Absent}]
    BY DEF EditorInv, ExitOK, ConnectionsOK
  <2> QED BY <2>1, <2>2 DEF EditorTypeOK
<1> QED BY <1>1, EditorInvariant, PTL

\* An editor that shows a file as saved shows what the file it names holds, until someone
\* else changes that: no late answer, no answer to the connection before that bears the id
\* of a request of this one, no text typed during a save and no save whose answer was lost
\* makes it clean that is not (operations.rs:331-452, sftp.rs:752-784,
\* connection_flow.rs:842).
THEOREM CleanAlwaysSaved ==
  Spec => []CleanMeansSaved
<1>1. EditorInv => CleanMeansSaved
  <2> SUFFICES ASSUME EditorInv, NEW s \in Sessions, NEW f \in session[s].file,
                      f.editor # {}, ~IsDirty(f), f.current
               PROVE  TextOf(f) = remote[f.path]
    BY DEF CleanMeansSaved
  <2>1. FileOK(f, remote)
    BY DEF EditorInv, SessionsOK, SessionOK, FilesOK
  <2> QED BY <2>1 DEF FileOK, IsDirty
<1> QED BY <1>1, EditorInvariant, PTL

-----------------------------------------------------------------------------
(* What a step may never do.                                               *)

\* The window goes away over edits only after "Discard", and over transfers only after
\* the user agreed to stop them, however the questions of the exit interleave with typing,
\* saves and answers (lifecycle.rs:52-176).
THEOREM WindowAlwaysClosesKnowingly ==
  Spec => WindowClosesKnowingly
<1> DEFINE Knowingly ==
      ~open' => /\ exit'.discard \/ SaveProgress(session) = "Ready"
                /\ exit'.stop \/ ~PendingTransfers
<1>1. ASSUME [Next]_vars PROVE [Knowingly]_open
  <2>1. ASSUME NEW discard, NEW stop, Finish(discard, stop),
               discard \/ SaveProgress(session) = "Ready", stop \/ ~PendingTransfers
        PROVE  Knowingly
    BY <2>1 DEF Finish
  <2>2. ASSUME BeginExit PROVE Knowingly \/ UNCHANGED open
    <3>1. CASE SaveProgress(session) = "Ready" /\ ~PendingTransfers
      <4>1. Finish(FALSE, FALSE)
        BY <2>2, <3>1 DEF BeginExit
      <4> QED BY <2>1, <3>1, <4>1
    <3>2. CASE ~(SaveProgress(session) = "Ready" /\ ~PendingTransfers)
      BY <2>2, <3>2 DEF BeginExit
    <3> QED BY <3>1, <3>2
  <2>3. ASSUME NEW discard, NEW stop, Final(discard, stop), stop \/ ~PendingTransfers
        PROVE  Knowingly \/ UNCHANGED open
    <3>1. CASE ~discard /\ SaveProgress(session) # "Ready"
      BY <2>2, <2>3, <3>1 DEF Final
    <3>2. CASE ~(~discard /\ SaveProgress(session) # "Ready")
      <4>1. Finish(discard, stop)
        BY <2>3, <3>2 DEF Final
      <4> QED BY <2>1, <2>3, <3>2, <4>1
    <3> QED BY <3>1, <3>2
  <2>4. ASSUME NEW discard, Proceed(discard) PROVE Knowingly \/ UNCHANGED open
    <3>1. CASE PendingTransfers
      BY <2>4, <3>1 DEF Proceed
    <3>2. CASE ~PendingTransfers
      <4>1. Final(discard, FALSE)
        BY <2>4, <3>2 DEF Proceed
      <4> QED BY <2>3, <3>2, <4>1
    <3> QED BY <3>1, <3>2
  <2> HIDE DEF Knowingly
  <2>5. CASE ExitStep
    <3>1. CASE RequestExit
      BY <2>2, <3>1 DEF RequestExit
    <3>2. CASE StartExit \/ AnswerDiscard \/ SavesAreDone
      BY <2>4, <3>2 DEF StartExit, AnswerDiscard, SavesAreDone
    <3>3. CASE AnswerCancel \/ SavesAreNotDone
      BY <3>3 DEF AnswerCancel, SavesAreNotDone, GiveUp
    <3>4. CASE AnswerSaveAll
      BY <2>4, <3>4, SaveAllIs DEF GiveUp
    <3>5. CASE AnswerStop
      BY <2>3, <3>5 DEF AnswerStop
    <3> QED BY <2>5, <3>1, <3>2, <3>3, <3>4, <3>5 DEF ExitStep
  <2>6. ASSUME NEW s \in Sessions, UserStep(s) \/ ListStep(s) PROVE UNCHANGED open
    <3>1. CASE UserStep(s)
      BY <3>1 DEF UserStep, ShowFiles, Save, Revert, CloseFile, DisconnectActive, CloseTab,
                  CloseEnded, Reconnect, OpenFile, Type, Act
    <3>2. CASE ListStep(s)
      BY <3>2 DEF ListStep, StartTransfer, CreateFile, DeletePaths, Ask, Act
    <3> QED BY <2>6, <3>1, <3>2
  <2>7. ASSUME NEW c \in Connections,
               WorkerStep(c) \/ Hear(c) \/ TransferEnds(c) \/ Disconnect(c) \/ Lose(c)
        PROVE  UNCHANGED open
    <3>1. CASE WorkerStep(c)
      BY <3>1 DEF WorkerStep, FailRequested, ReadDirectory, ReadFile, Compare, Truncate,
                  WriteContents, CreateRequested, DeleteRequested, windowVars
    <3>2. CASE Hear(c) \/ TransferEnds(c) \/ Disconnect(c) \/ Lose(c)
      BY <3>2 DEF Hear, TransferEnds, Disconnect, Lose, Ends, windowVars
    <3> QED BY <2>7, <3>1, <3>2
  <2>8. ASSUME NEW path \in Files, NEW text \in Texts, OutsideWrite(path, text)
        PROVE  UNCHANGED open
    BY <2>8 DEF OutsideWrite
  <2>9. CASE UNCHANGED vars
    BY <2>9 DEF vars, windowVars
  <2> QED BY <1>1, <2>5, <2>6, <2>7, <2>8, <2>9 DEF Next, Course, Trouble
<1>2. [][Next]_vars => [][Knowingly]_open
  BY <1>1, PTL
<1> QED BY <1>2, PTL DEF Spec, WindowClosesKnowingly


\* What is edited in a session goes on in another record of it.
EditGoesOn(r, q) == \E f \in q.file : f.editor = FileOf(r).editor

LEMMA EditStays ==
  ASSUME NEW r, NEW files, SessionOK(r, files), Dirty(r), NEW q, q.file = r.file
  PROVE  EditGoesOn(r, q)
<1>1. PICK f \in FileType : r.file = {f} /\ FileOf(r) = f
  BY OpenFileIs DEF Dirty
<1> QED BY <1>1 DEF EditGoesOn

\* What is sent is not part of the file.
LEMMA EditLeft ==
  ASSUME NEW r, NEW files, NEW q, SessionOK(q, files), EditGoesOn(r, q)
  PROVE  EditGoesOn(r, [q EXCEPT !.out = <<>>])
<1>1. [q EXCEPT !.out = <<>>].file = q.file
  BY DEF SessionOK, SessionType
<1> QED BY <1>1 DEF EditGoesOn

\* Whatever the file goes through that keeps its editor.
LEMMA EditKept ==
  ASSUME NEW r, NEW files, SessionOK(r, files), Dirty(r)
  PROVE  /\ \A path : EditGoesOn(r, Outdated(r, path))
         /\ \A op, id : EditGoesOn(r, FailFileRequest(r, op, id))
         /\ \A id : EditGoesOn(r, FailRequest(r, id)) /\ EditGoesOn(r, CompleteRequest(r, id))
         /\ \A a : EditGoesOn(r, CompleteRead(r, a)) /\ EditGoesOn(r, CompleteWrite(r, a))
         /\ ~r.closing => EditGoesOn(r, Disconnected(r))
         /\ \A on : EditGoesOn(r, SaveRemoteFile(r, on))
<1>1. r \in SessionType
  BY DEF SessionOK
<1>2. PICK f \in FileType : r.file = {f} /\ FileOK(f, files) /\ FileOf(r) = f
  BY OpenFileIs DEF Dirty
<1>3. f.editor # {} /\ f.read = {}
  BY <1>2 DEF Dirty, IsDirty, FileOK
<1>4. ASSUME NEW q, NEW g, q.file = {g}, g.editor = f.editor
      PROVE  EditGoesOn(r, q)
  BY <1>2, <1>4 DEF EditGoesOn
<1>5. ASSUME NEW path PROVE EditGoesOn(r, Outdated(r, path))
  <2> DEFINE g == [f EXCEPT !.current = @ /\ f.path # path]
  <2>1. Outdated(r, path).file = {g}
    BY <1>1, <1>2 DEF Outdated, SessionType
  <2>2. g.editor = f.editor
    BY DEF FileType
  <2> QED BY <1>4, <2>1, <2>2
<1>6. ASSUME NEW op, NEW id PROVE EditGoesOn(r, FailFileRequest(r, op, id))
  <2> DEFINE g == CASE op = "ReadFile" /\ id \in f.read -> [f EXCEPT !.read = {}, !.loading = FALSE]
                    [] op = "WriteFile" /\ id \in f.write -> [f EXCEPT !.write = {}, !.saving = FALSE]
                    [] OTHER -> f
  <2>1. FailFileRequest(r, op, id).file = {g}
    BY <1>1, <1>2 DEF FailFileRequest, SessionType
  <2>2. g \in {[f EXCEPT !.read = {}, !.loading = FALSE], [f EXCEPT !.write = {}, !.saving = FALSE], f}
    OBVIOUS
  <2> HIDE DEF g
  <2>3. g.editor = f.editor
    BY <2>2 DEF FileType
  <2> QED BY <1>4, <2>1, <2>3
<1>7. ASSUME NEW id PROVE EditGoesOn(r, FailRequest(r, id)) /\ EditGoesOn(r, CompleteRequest(r, id))
  <2>1. FailRequest(r, id).file = {f} /\ CompleteRequest(r, id).file = {f}
    BY <1>1, <1>2 DEF FailRequest, CompleteRequest, SessionType
  <2> QED BY <1>4, <2>1
<1>8. ASSUME NEW a PROVE EditGoesOn(r, CompleteRead(r, a)) /\ EditGoesOn(r, CompleteWrite(r, a))
  <2> DEFINE g == IF a.id \in f.write
                  THEN [f EXCEPT !.path = a.path, !.original = a.text, !.current = a.current,
                                 !.write = {}, !.saving = FALSE]
                  ELSE f
  <2>1. CompleteRead(r, a).file = {f}
    BY <1>1, <1>2, <1>3 DEF CompleteRead, SessionType
  <2>2. CompleteWrite(r, a).file = {g}
    BY <1>1, <1>2 DEF CompleteWrite, SessionType
  <2>3. g.editor = f.editor
    BY DEF FileType
  <2> HIDE DEF g
  <2> QED BY <1>4, <2>1, <2>2, <2>3
<1>9. ASSUME ~r.closing PROVE EditGoesOn(r, Disconnected(r))
  <2> DEFINE g == [f EXCEPT !.loading = FALSE, !.saving = FALSE, !.read = {}, !.write = {}]
  <2>1. Disconnected(r).file = {g}
    BY <1>1, <1>2, <1>9 DEF Disconnected, StopLoading, SessionType
  <2>2. g.editor = f.editor
    BY DEF FileType
  <2> QED BY <1>4, <2>1, <2>2
<1>10. ASSUME NEW on PROVE EditGoesOn(r, SaveRemoteFile(r, on))
  <2> DEFINE g == [f EXCEPT !.saving = TRUE, !.write = {r.next}]
             q == [r EXCEPT !.next = @ + 1, !.file = {g}]
             c == [op |-> "WriteFile", id |-> r.next, path |-> f.path, expected |-> f.original,
                   text |-> TextOf(f)]
             h == [g EXCEPT !.write = {}, !.saving = FALSE]
  <2>1. CASE ~CanSave(r)
    BY <1>2, <1>4, <2>1 DEF SaveRemoteFile
  <2>2. CASE CanSave(r)
    <3>1. SaveRemoteFile(r, on) = IF on THEN Send(q, c) ELSE FailFileRequest(q, "WriteFile", r.next)
      BY <1>2, <2>2 DEF SaveRemoteFile
    <3>2. /\ g.editor = f.editor /\ g.write = {r.next}
          /\ h.editor = f.editor
      BY DEF FileType
    <3>3. q.file = {g}
      BY <1>1 DEF SessionType
    <3> HIDE DEF c, g
    <3>4. Send(q, c).file = {g}
      BY <1>1, <3>3 DEF SessionType, Send
    <3>5. FailFileRequest(q, "WriteFile", r.next).file = {h}
      BY <1>1, <3>2, <3>3 DEF FailFileRequest, SessionType
    <3> HIDE DEF h, q
    <3> QED BY <1>4, <3>1, <3>2, <3>4, <3>5
  <2> QED BY <2>1, <2>2
<1> QED BY <1>5, <1>6, <1>7, <1>8, <1>9, <1>10

\* What drops the edit of a session that is not being closed: an answer that has the
\* directory read again, and a new connection.
DroppedBy(s) ==
  \/ \E c \in Connections :
       /\ c[1] = s /\ answers[c] # <<>> /\ answers'[c] = Tail(answers[c])
       /\ Head(answers[c]).kind \in {"PathCreated", "PathsDeleted", "TransferEnded"}
  \/ session'[s].conn # session[s].conn

\* The text of an edit that is not saved survives what the user did not do: lost
\* connections, late and failed answers, those of the connection before among them, saves,
\* the changes of others and the course of an exit.  Only an answer that has the directory
\* read again and a new connection of the session drop it (state.rs:109-130,
\* connection_flow.rs:842, 1512-1545).
THEOREM EditsAlwaysSurvive ==
  Spec => EditsSurviveTrouble
<1> DEFINE Survive ==
      \A s \in Sessions : Dirty(session[s]) /\ ~session[s].closing =>
        \/ \E f \in session'[s].file : f.editor = FileOf(session[s]).editor
        \/ \E c \in Connections :
             /\ c[1] = s /\ answers[c] # <<>> /\ answers'[c] = Tail(answers[c])
             /\ Head(answers[c]).kind \in {"PathCreated", "PathsDeleted", "TransferEnded"}
        \/ session'[s].conn # session[s].conn
<1>1. ASSUME EditorInv, [Next]_vars PROVE [Survive]_<<alive, stage, answers, exit>>
  <2>1. ASSUME \A s \in Sessions : Dirty(session[s]) /\ ~session[s].closing =>
                 EditGoesOn(session[s], session'[s]) \/ DroppedBy(s)
        PROVE  Survive
    BY <2>1 DEF EditGoesOn, DroppedBy
  <2> HIDE DEF Survive
  <2>2. ASSUME NEW s \in Sessions
        PROVE  SessionOK(session[s], remote)
    BY <1>1 DEF EditorInv, SessionsOK
  <2>3. \A s \in Sessions : Dirty(session[s]) => EditGoesOn(session[s], session[s])
    BY <2>2, EditStays
  <2>4. ASSUME UNCHANGED session PROVE Survive
    BY <2>1, <2>3, <2>4
  <2>5. ASSUME NEW s \in Sessions, NEW q, session' = [session EXCEPT ![s] = q],
               Dirty(session[s]) /\ ~session[s].closing =>
                 EditGoesOn(session[s], q) \/ DroppedBy(s)
        PROVE  Survive
    <3>1. session \in [Sessions -> SessionType]
      BY <1>1 DEF EditorInv, SessionsOK
    <3> SUFFICES ASSUME NEW u \in Sessions, Dirty(session[u]) /\ ~session[u].closing
                 PROVE  EditGoesOn(session[u], session'[u]) \/ DroppedBy(u)
      BY <2>1
    <3>2. CASE u = s
      BY <2>5, <3>1, <3>2
    <3>3. CASE u # s
      <4>1. session'[u] = session[u]
        BY <2>5, <3>1, <3>3
      <4> QED BY <2>3, <4>1
    <3> QED BY <3>2, <3>3
  <2>6. ASSUME NEW path, NEW contents, NEW by, NEW answer, Store(path, contents, by, answer)
        PROVE  Survive
    <3> SUFFICES ASSUME NEW s \in Sessions, Dirty(session[s])
                 PROVE  EditGoesOn(session[s], session'[s])
      BY <2>1
    <3>1. session'[s] = Outdated(session[s], path)
      BY <2>6 DEF Store
    <3>2. EditGoesOn(session[s], Outdated(session[s], path))
      BY <2>2, EditKept
    <3> QED BY <3>1, <3>2
  <2>7. ASSUME NEW s \in Sessions, UserStep(s)
        PROVE  [Survive]_<<alive, stage, answers, exit>>
    <3>1. CASE Reconnect(s)
      <4> DEFINE q == StartConnection(session[s])
      <4>1. session' = [session EXCEPT ![s] = q]
        BY <3>1 DEF Reconnect
      <4>2. session[s].conn \in Nat /\ session'[s] = q
        BY <1>1, <2>2, <4>1, BoundsAssumption DEF EditorInv, SessionsOK, SessionOK, SessionType
      <4>3. q.conn = session[s].conn + 1
        BY DEF StartConnection, NewSession
      <4> HIDE DEF q
      <4>4. DroppedBy(s)
        BY <4>2, <4>3 DEF DroppedBy
      <4>5. Survive
        BY <2>5, <4>1, <4>4
      <4> QED BY <4>5
    <3>2. CASE ~Reconnect(s)
      BY <2>7, <3>2 DEF UserStep, ShowFiles, Save, Revert, CloseFile, DisconnectActive, CloseTab,
                  CloseEnded, OpenFile, Type, Act
    <3> QED BY <3>1, <3>2
  <2>8. ASSUME NEW s \in Sessions, ListStep(s)
        PROVE  [Survive]_<<alive, stage, answers, exit>>
    BY <2>8 DEF ListStep, StartTransfer, CreateFile, DeletePaths, Ask, Act
  <2>9. ASSUME NEW c \in Connections, WorkerStep(c) PROVE Survive
    <3>1. CASE FailRequested(c) \/ ReadDirectory(c) \/ ReadFile(c) \/ Compare(c)
      BY <2>4, <3>1 DEF FailRequested, ReadDirectory, ReadFile, Compare, windowVars
    <3>2. CASE Truncate(c) \/ WriteContents(c) \/ CreateRequested(c) \/ DeleteRequested(c)
      <4>1. \E path, contents, answer : Store(path, contents, {c}, answer)
        BY <3>2 DEF Truncate, WriteContents, CreateRequested, DeleteRequested
      <4> QED BY <2>6, <4>1
    <3> QED BY <2>9, <3>1, <3>2 DEF WorkerStep
  <2>10. ASSUME NEW c \in Connections, Hear(c) PROVE Survive
    <3> DEFINE s == c[1]
               r == session[s]
               a == Head(answers[c])
    <3>1. PICK activeSession \in BOOLEAN : Leave(s, Heard(s, a, activeSession))
      BY <2>10 DEF Hear
    <3>2. /\ answers[c] # <<>> /\ answers' = [answers EXCEPT ![c] = Tail(@)]
          /\ s \in Sessions /\ answers[c] \in Seq(Answers) /\ QueueOK(answers[c], remote)
          /\ answers \in [Connections -> Seq(Answers)]
      BY <1>1, <2>10 DEF Hear, Connections, EditorInv, ConnectionsOK
    <3>3. a \in Answers /\ AnswerOK(a, remote)
      <4>1. a \in Answers /\ a = answers[c][1] /\ 1 \in DOMAIN answers[c]
        BY <3>2, TailIs
      <4> QED BY <3>2, <4>1 DEF QueueOK
    <3> DEFINE h == Heard(s, a, activeSession)
    <3>4. SessionOK(r, remote) /\ SessionOK(h, remote)
      BY <1>1, <2>2, <3>2, <3>3, HeardKeeps
    <3>5. ASSUME Dirty(r), ~r.closing, a.kind \notin {"PathCreated", "PathsDeleted", "TransferEnded"}
          PROVE  EditGoesOn(r, h)
      <4>1. a.kind \in {"DirectoryRead", "FileRead", "FileWritten", "SftpFailed", "Disconnected"}
        BY <3>3, <3>5, AnswerFacts
      <4>2. h \in {FailFileRequest(r, a.op, a.id), FailRequest(r, a.id), CompleteRequest(r, a.id),
                   CompleteRead(r, a), CompleteWrite(r, a), Disconnected(r), r}
        BY <4>1 DEF Heard
      <4> HIDE DEF a, r, h
      <4>3. /\ \A op, id : EditGoesOn(r, FailFileRequest(r, op, id))
            /\ \A id : EditGoesOn(r, FailRequest(r, id)) /\ EditGoesOn(r, CompleteRequest(r, id))
            /\ EditGoesOn(r, CompleteRead(r, a)) /\ EditGoesOn(r, CompleteWrite(r, a))
            /\ EditGoesOn(r, Disconnected(r))
            /\ EditGoesOn(r, r)
        BY <3>4, <3>5, EditKept, EditStays
      <4> QED BY <4>2, <4>3
    <3>6. ASSUME a.kind \in {"PathCreated", "PathsDeleted", "TransferEnded"}
          PROVE  DroppedBy(s)
      <4>1. answers'[c] = Tail(answers[c])
        BY <3>2
      <4> QED BY <3>2, <3>6, <4>1 DEF DroppedBy
    <3>7. session' = [session EXCEPT ![s] = [h EXCEPT !.out = <<>>]]
      BY <3>1 DEF Leave
    <3> HIDE DEF a, h, r
    <3>8. Dirty(r) /\ ~r.closing => EditGoesOn(r, [h EXCEPT !.out = <<>>]) \/ DroppedBy(s)
      BY <3>4, <3>5, <3>6, EditLeft
    <3> QED BY <2>5, <3>2, <3>7, <3>8 DEF r
  <2>11. ASSUME NEW c \in Connections, TransferEnds(c) \/ Lose(c) \/ Disconnect(c) PROVE Survive
    BY <2>4, <2>11 DEF TransferEnds, Lose, Disconnect, Ends, windowVars
  <2>12. ASSUME NEW path \in Files, NEW text \in Texts, OutsideWrite(path, text) PROVE Survive
    BY <2>6, <2>12 DEF OutsideWrite
  <2>13. CASE ExitStep
    <3>1. CASE AnswerSaveAll
      <4>1. session' = [s \in Sessions |-> [SavedBefore(s) EXCEPT !.out = <<>>]]
        BY <3>1, SaveAllIs
      <4>2. ASSUME NEW s \in Sessions, Dirty(session[s])
            PROVE  EditGoesOn(session[s], session'[s])
        <5> DEFINE q == SavedBefore(s)
        <5>1. SessionOK(session[s], remote) /\ SessionOK(SaveRemoteFile(session[s], Live(s)), remote)
          BY <2>2, SaveKeeps
        <5>2. EditGoesOn(session[s], SaveRemoteFile(session[s], Live(s)))
          BY <4>2, <5>1, EditKept
        <5>3. SessionOK(q, remote) /\ EditGoesOn(session[s], q)
          BY <2>3, <4>2, <5>1, <5>2 DEF SavedBefore
        <5>4. session'[s] = [q EXCEPT !.out = <<>>]
          BY <4>1
        <5> HIDE DEF q
        <5> QED BY <5>3, <5>4, EditLeft
      <4> QED BY <2>1, <4>2
    <3>2. CASE ~AnswerSaveAll
      <4>1. UNCHANGED session
        BY <2>13, <3>2 DEF ExitStep, RequestExit, StartExit, AnswerDiscard, AnswerCancel,
                           SavesAreDone, SavesAreNotDone, AnswerStop
      <4> QED BY <2>4, <4>1
    <3> QED BY <3>1, <3>2
  <2>14. CASE UNCHANGED vars
    BY <2>4, <2>14 DEF vars, windowVars
  <2> QED BY <1>1, <2>7, <2>8, <2>9, <2>10, <2>11, <2>12, <2>13, <2>14
          DEF Next, Course, Trouble
<1>2. []EditorInv /\ [][Next]_vars => [][Survive]_<<alive, stage, answers, exit>>
  BY <1>1, PTL
<1> QED BY <1>2, EditorInvariant, PTL DEF Spec, EditsSurviveTrouble
=============================================================================

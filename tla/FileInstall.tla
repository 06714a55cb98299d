----------------------------- MODULE FileInstall -----------------------------
(***************************************************************************)
(* One attempt at a transfer, as the files see it: an upload over SFTP, an *)
(* upload over SCP or a download, each through a temporary file beside the *)
(* destination that takes the destination's name once it is whole.         *)
(*                                                                         *)
(* Every call to the file system or the server may fail, and one that the  *)
(* server executes may still be reported as failed when its answer is lost *)
(* (timeouts).  Other programs create and remove the destination whenever  *)
(* they like.  The user may cancel at any moment, and the file worker may  *)
(* abort the task at any await (or the application may end).  After a      *)
(* conflict the user may confirm, and a second attempt replaces.           *)
(***************************************************************************)
EXTENDS Naturals

CONSTANT Methods
ASSUME MethodsAssumption == Methods \subseteq {"SftpUpload", "ScpUpload", "Download"}

\* The destination: missing, removed by this transfer, what it held at first, what
\* another program wrote, or what this transfer installed, in whole or in part.
FileContents == {"None", "Removed", "Old", "Foreign", "Partial", "Whole"}

Steps == {"Check", "Prepare", "Copy", "Verify", "Install", "Remove", "Rename", "Discard"}
Outcomes == {"Completed", "Conflict", "Cancelled", "Failed"}
Causes   == {"Cancelled", "CopyFailed", "InstallFailed"}

VARIABLES
  method,     \* which of the three functions runs
  overwrite,  \* its overwrite argument
  pc,         \* the next step of the attempt, "Done" or "Aborted"
  dest,       \* the destination file
  temp,       \* the temporary file of this attempt; its name is never reused
  cancelled,  \* the cancellation flag
  outcome,    \* what the attempt returned; while it discards, the cause
  touched,    \* history: this attempt removed or replaced the destination
  untidy      \* history: some removal of a temporary file failed

installVars == <<method, overwrite, pc, dest, temp, cancelled, outcome, touched, untidy>>
context == <<method, overwrite, cancelled>>

InstallInit ==
  /\ method \in Methods
  /\ overwrite = FALSE
  /\ pc = "Check"
  /\ dest \in {"None", "Old"}
  /\ temp = "None"
  /\ cancelled = FALSE
  /\ outcome = "None"
  /\ touched = FALSE
  /\ untidy = FALSE

Exists(file) == file \notin {"None", "Removed"}

Go(to) == pc' = to

Return(value) ==
  /\ pc' = "Done"
  /\ outcome' = value

\* Remove the temporary file, then return what Verdict makes of the cause.
DiscardBecause(cause) ==
  /\ pc' = "Discard"
  /\ outcome' = cause

-----------------------------------------------------------------------------
\* A destination that exists stops an unconfirmed attempt before it writes.
CheckDestination ==
  /\ pc = "Check"
  /\ \/ Exists(dest) /\ ~overwrite /\ Return("Conflict")
     \/ (~Exists(dest) \/ overwrite) /\ Go("Prepare") /\ UNCHANGED outcome
  /\ UNCHANGED <<context, dest, temp, touched, untidy>>

\* is_cancelled, then a temporary name of its own.
Prepare ==
  /\ pc = "Prepare"
  /\ IF cancelled THEN Return("Cancelled") ELSE Go("Copy") /\ UNCHANGED outcome
  /\ UNCHANGED <<context, dest, temp, touched, untidy>>

\* Nothing has been written: an error is returned as it is.
FailEarly ==
  /\ pc \in {"Check", "Prepare"}
  /\ Return("Failed")
  /\ UNCHANGED <<context, dest, temp, touched, untidy>>

CreateTemporary ==
  /\ pc = "Copy" /\ temp = "None"
  /\ temp' = "Partial"
  /\ UNCHANGED <<context, pc, dest, outcome, touched, untidy>>

\* The last chunk is written and synced.
FinishCopy ==
  /\ pc = "Copy" /\ temp = "Partial"
  /\ temp' = "Whole"
  /\ Go("Verify")
  /\ UNCHANGED <<context, dest, outcome, touched, untidy>>

\* Wrong: a cancelled copy returns at once.
CancelWithoutCleanup ==
  /\ pc \in {"Copy", "Verify"}
  /\ cancelled
  /\ Return("Cancelled")
  /\ UNCHANGED <<context, dest, temp, touched, untidy>>

\* Wrong: the flag is read once more before the rename.
CancelLate ==
  /\ pc \in {"Copy", "Verify", "Rename"}
  /\ cancelled
  /\ DiscardBecause("Cancelled")
  /\ UNCHANGED <<context, dest, temp, touched, untidy>>

\* The flag is read before every chunk and once more after the copy.
ObserveCancellation ==
  /\ pc \in {"Copy", "Verify"}
  /\ cancelled
  /\ DiscardBecause("Cancelled")
  /\ UNCHANGED <<context, dest, temp, touched, untidy>>

\* Wrong: the error of a copy is lost, and what it left is installed.
IgnoreCopyError ==
  /\ pc = "Copy" /\ Exists(temp)
  /\ Go("Verify")
  /\ UNCHANGED <<context, dest, temp, outcome, touched, untidy>>

FailCopy ==
  /\ pc = "Copy"
  /\ DiscardBecause("CopyFailed")
  /\ UNCHANGED <<context, dest, temp, touched, untidy>>

Verify ==
  /\ pc = "Verify"
  /\ ~cancelled
  /\ Go("Install")
  /\ UNCHANGED <<context, dest, temp, outcome, touched, untidy>>

-----------------------------------------------------------------------------
(* Installing: remove and rename (SFTP, download); mv in one remote shell,  *)
(* after a test of its own when it may not replace (SCP).                   *)

\* Wrong: SCP removes the destination first, like the others.
NeverInPlace == ~overwrite

InPlace == method = "ScpUpload" \/ ~overwrite

ChooseInstallation ==
  /\ pc = "Install"
  /\ \/ InPlace /\ (method = "ScpUpload" /\ ~overwrite => ~Exists(dest)) /\ Go("Rename")
     \/ ~InPlace /\ Exists(dest) /\ Go("Remove")
     \/ ~InPlace /\ ~Exists(dest) /\ Go("Rename")
  /\ UNCHANGED <<context, dest, temp, outcome, touched, untidy>>

\* The remote shell exits with 73 when a destination has appeared.
RefuseInstallation ==
  /\ pc = "Install"
  /\ method = "ScpUpload" /\ ~overwrite /\ Exists(dest)
  /\ DiscardBecause("InstallFailed")
  /\ UNCHANGED <<context, dest, temp, touched, untidy>>

\* A remote call that is executed may still be reported as failed.
Reported(next) ==
  \/ next
  \/ method # "Download" /\ DiscardBecause("InstallFailed")

RemoveDestination ==
  /\ pc = "Remove"
  /\ Exists(dest)
  /\ dest' = "Removed"
  /\ touched' = TRUE
  /\ Reported(Go("Rename") /\ UNCHANGED outcome)
  /\ UNCHANGED <<context, temp, untidy>>

\* Wrong: a rename that replaces, whatever the method.
RenameOver ==
  /\ pc = "Rename"
  /\ dest' = temp
  /\ temp' = "None"
  /\ touched' = TRUE
  /\ Reported(Return("Completed"))
  /\ UNCHANGED <<context, untidy>>

\* SFTP's rename does not replace; a local rename and mv do.
RenameTemporary ==
  /\ pc = "Rename"
  /\ method = "SftpUpload" => ~Exists(dest)
  /\ dest' = temp
  /\ temp' = "None"
  /\ touched' = TRUE
  /\ Reported(Return("Completed"))
  /\ UNCHANGED <<context, untidy>>

FailInstallation ==
  /\ pc \in {"Install", "Remove", "Rename"}
  /\ DiscardBecause("InstallFailed")
  /\ UNCHANGED <<context, dest, temp, touched, untidy>>

-----------------------------------------------------------------------------
\* SCP looks again after a failure: at the flag if the copy failed, at the
\* destination if an unconfirmed installation did, its own file if only the
\* answer was lost.
Verdict(v) ==
  \/ /\ v = "Cancelled"
     /\ \/ outcome = "Cancelled"
        \/ outcome = "CopyFailed" /\ method = "ScpUpload" /\ cancelled
  \/ /\ v = "Failed"
     /\ \/ outcome = "InstallFailed"
        \/ outcome = "CopyFailed" /\ ~(method = "ScpUpload" /\ cancelled)
  \/ /\ v = "Conflict"
     /\ outcome = "InstallFailed" /\ method = "ScpUpload" /\ ~overwrite /\ Exists(dest)

\* The temporary file is removed as far as possible: the error is dropped.
DiscardTemporary ==
  /\ pc = "Discard"
  /\ \/ temp' = "None" /\ UNCHANGED untidy
     \/ Exists(temp) /\ untidy' = TRUE /\ UNCHANGED temp
  /\ \E v \in Outcomes : Verdict(v) /\ Return(v)
  /\ UNCHANGED <<context, dest, touched>>

Attempt ==
  \/ CheckDestination \/ Prepare \/ FailEarly \/ CreateTemporary \/ FinishCopy
  \/ ObserveCancellation \/ FailCopy \/ Verify \/ ChooseInstallation
  \/ RefuseInstallation \/ RemoveDestination \/ RenameTemporary \/ FailInstallation
  \/ DiscardTemporary
-----------------------------------------------------------------------------
(* Everyone else.                                                          *)

Working == pc \in Steps

\* Another program, or another transfer, creates or removes the destination.
OthersChange ==
  /\ \/ ~Exists(dest) /\ dest' = "Foreign"
     \/ Exists(dest) /\ dest' = "None"
  /\ UNCHANGED <<context, pc, temp, outcome, touched, untidy>>

Cancel ==
  /\ Working
  /\ cancelled' = TRUE
  /\ UNCHANGED <<method, overwrite, pc, dest, temp, outcome, touched, untidy>>

\* The task is dropped at an await: it cleans up nothing.  What a remote shell
\* was told to do it does all the same.
Abort ==
  /\ Working
  /\ ~(method = "ScpUpload" /\ pc = "Rename")
  /\ Go("Aborted")
  /\ UNCHANGED <<context, dest, temp, outcome, touched, untidy>>

\* Wrong: the second attempt starts with what the first came to.
ConfirmStale ==
  /\ pc = "Done" /\ outcome = "Conflict"
  /\ overwrite' = TRUE
  /\ Go("Check")
  /\ temp' = "None"
  /\ cancelled' = FALSE
  /\ touched' = FALSE
  /\ UNCHANGED <<method, dest, outcome, untidy>>

\* The user answers the conflict, and the scheduler starts a second attempt.
Confirm ==
  /\ pc = "Done" /\ outcome = "Conflict"
  /\ overwrite' = TRUE
  /\ Go("Check")
  /\ temp' = "None"
  /\ cancelled' = FALSE
  /\ outcome' = "None"
  /\ touched' = FALSE
  /\ UNCHANGED <<method, dest, untidy>>

InstallNext == Attempt \/ OthersChange \/ Cancel \/ Abort \/ Confirm

InstallSpec == InstallInit /\ [][InstallNext]_installVars

-----------------------------------------------------------------------------
(* Properties.                                                             *)

\* The outcome has a meaning of its own at every stage: none while the attempt
\* works, a cause while it discards, a result when it is done.
OutcomeStage ==
  /\ pc \in Steps \ {"Discard"} => outcome = "None"
  /\ pc = "Discard" => outcome \in Causes
  /\ pc = "Done" => outcome \in Outcomes

\* Every variable keeps its type, and the outcome the one of its stage.
InstallTypeOK ==
  /\ OutcomeStage
  /\ method \in Methods
  /\ overwrite \in BOOLEAN
  /\ pc \in Steps \union {"Done", "Aborted"}
  /\ dest \in FileContents
  /\ temp \in {"None", "Partial", "Whole"}
  /\ cancelled \in BOOLEAN
  /\ outcome \in {"None"} \union Outcomes \union Causes
  /\ touched \in BOOLEAN
  /\ untidy \in BOOLEAN

\* Whatever fails or is aborted, the destination's name never belongs to a file
\* that was only copied in part.
NeverPartial == dest # "Partial"

\* ConnectionEvent::TransferCancelled "confirms that a transfer stopped without
\* replacing its destination": a cancellation seen too late does not count as one.
CancelledTouchesNothing == pc = "Done" /\ outcome = "Cancelled" => ~touched

\* A transfer that nobody confirmed destroys a file only if another program
\* created it after the check, and then only where the last step replaces what it
\* finds: a download, or mv in a shell that has made its test already.
UnconfirmedReplacesOnlyNewcomers ==
  [][pc' # pc /\ ~overwrite /\ Exists(dest) /\ dest' # dest
     => dest = "Foreign" /\ pc = "Rename" /\ method # "SftpUpload"]_installVars

\* An attempt that returns has removed its temporary file, unless the removal
\* itself failed; only an aborted one leaves a file behind in silence.
NoStrayTemporary == pc = "Done" /\ ~untidy => temp = "None"

\* A destination to be replaced is missing, through this transfer, only between
\* its removal and the rename, or for good when the attempt fails or is aborted
\* there; until the attempt gives up, the whole new content is beside it.  A
\* replacement over SCP never makes it missing.
MissingOnlyInBetween ==
  dest = "Removed" =>
    /\ overwrite /\ method # "ScpUpload"
    /\ \/ pc \in {"Rename", "Aborted"} /\ temp = "Whole"
       \/ pc = "Aborted" /\ outcome = "InstallFailed"
       \/ pc = "Discard" /\ outcome = "InstallFailed"
       \/ pc = "Done" /\ outcome = "Failed"

\* sftp/tests.rs, interrupted_parallel_downloads_keep_the_destination_and_remove_partial_files:
\* a transfer that fails keeps the destination it was to replace.
FailureKeepsDestination == pc = "Done" /\ outcome = "Failed" => dest # "Removed"
=============================================================================

------------------------------ MODULE Updates ------------------------------
(***************************************************************************)
(* The updater: what updates.rs keeps in the window and the checks,        *)
(* downloads and verifications that remcmd-update runs for it.             *)
(*                                                                         *)
(* The window and the worker run at the same time: a cancellation may find *)
(* the package already in place, a result waits in its task until the      *)
(* window takes it, and the file of a download may be changed by others at *)
(* any time.  What GitHub answers is left open; a package is its version,  *)
(* its size and its digest, and the file of a version has one name.        *)
(* Versions, digests and sizes count from 1; 0 is the Option without one.  *)
(***************************************************************************)
EXTENDS Naturals

CONSTANTS
  Current,      \* the version that is running
  MaxVersion,   \* bound: versions that are ever published
  MaxDigest,    \* bound: contents that files may have
  MaxPackage    \* MAX_PACKAGE_BYTES

VARIABLES
  automatic,    \* settings.automatic
  due,          \* whether last_check_unix lies a day back
  scheduled,    \* auto_task
  status,
  release,
  downloaded,   \* the version of the package at the path `downloaded`
  stop,         \* cancel: "none", or the flag in the channel
  task,         \* the worker and the result it left
  temporary,    \* the temporary file of receive_package
  received,     \* bytes in it
  disk,         \* by version: the file of its package
  opened        \* the package handed to the system last

updateVars ==
  <<automatic, due, scheduled, status, release, downloaded, stop, task, temporary, received, disk, opened>>

window == <<automatic, due, scheduled, status, release, downloaded, stop, opened>>
worker == <<temporary, received, disk>>

Versions == 1..MaxVersion
Digests  == 1..MaxDigest

Files    == [size : Nat, sha : Digests \cup {0}]
NoFile   == [size |-> 0, sha |-> 0]
Packages == [version : Versions, size : 1..MaxPackage, sha : Digests]
NoPackage == [version |-> 0, size |-> 0, sha |-> 0]
Releases  == [version : Versions, package : Packages \cup {NoPackage}]
NoRelease == [version |-> 0, package |-> NoPackage]

\* A task runs for the package it was given; its answer waits until the window takes it.
Jobs    == {"Checking", "Downloading", "Verifying"}
Answers == {"Working", "Ok", "Cancelled", "Failed", "Panicked"}
Tasks   == [job : Jobs, package : Packages \cup {NoPackage}, answer : Answers,
            found : Releases \cup {NoRelease}]
NoTask  == [job |-> "none", package |-> NoPackage, answer |-> "Working", found |-> NoRelease]

Status == Jobs \cup {"Idle", "Current", "Available", "Ready", "Cancelled", "Failed"}
Busy   == status \in Jobs

UpdatesInit ==
  /\ automatic \in BOOLEAN /\ due \in BOOLEAN /\ scheduled = FALSE
  /\ status = "Idle" /\ release = NoRelease /\ downloaded = 0 /\ stop = "none"
  /\ task = NoTask
  /\ temporary = FALSE /\ received = 0
  /\ disk \in [Versions -> {NoFile}]
  /\ opened = NoPackage

\* The task that a handler starts, and the end of one.
Start(job, package) ==
  /\ task' = [job |-> job, package |-> package, answer |-> "Working", found |-> NoRelease]
  /\ status' = job

Answer(kind) == task' = [task EXCEPT !.answer = kind]

-----------------------------------------------------------------------------
(* What the worker learns from GitHub.                                     *)

\* What is published: the latest release with the asset for this platform. `official`
\* says that its URL is the expected one, and sha 0 that no digest is published.
Published ==
  [version : Versions, stable : BOOLEAN, uploaded : BOOLEAN, size : 0..MaxPackage + 1,
   official : BOOLEAN, sha : Digests \cup {0}]

Newer(p)    == p.stable /\ p.version > Current
Bounded(p)  == p.size \in 1..MaxPackage
Offer(p)    == [version |-> p.version, size |-> p.size, sha |-> p.sha]
With(p, package) == [version |-> p.version, package |-> package]

\* parse_release: an asset that is there must be sound, or the whole check fails.
ParseRelease(p) ==
  \/ ~Newer(p) /\ task' = [task EXCEPT !.answer = "Ok"]
  \/ Newer(p) /\ ~p.uploaded
       /\ task' = [task EXCEPT !.answer = "Ok", !.found = With(p, NoPackage)]
  \/ Newer(p) /\ p.uploaded /\ Bounded(p) /\ p.official /\ p.sha # 0
       /\ task' = [task EXCEPT !.answer = "Ok", !.found = With(p, Offer(p))]
  \/ Newer(p) /\ p.uploaded /\ ~(Bounded(p) /\ p.official /\ p.sha # 0) /\ Answer("Failed")

\* check_public_release, when the API refuses: a release without a digest or an asset
\* is offered without a package, and the URL is the expected one because it is built.
CheckPublicRelease(p) ==
  \/ ~Newer(p) /\ task' = [task EXCEPT !.answer = "Ok"]
  \/ Newer(p) /\ (p.sha = 0 \/ ~p.uploaded)
       /\ task' = [task EXCEPT !.answer = "Ok", !.found = With(p, NoPackage)]
  \/ Newer(p) /\ p.sha # 0 /\ p.uploaded /\ Bounded(p)
       /\ task' = [task EXCEPT !.answer = "Ok", !.found = With(p, Offer(p))]
  \/ Newer(p) /\ p.sha # 0 /\ p.uploaded /\ ~Bounded(p) /\ Answer("Failed")

\* check: no release at all, the API's answer, or the public page when the API refuses.
Check ==
  /\ task.job = "Checking" /\ task.answer = "Working"
  /\ \/ task' = [task EXCEPT !.answer = "Ok"]
     \/ \E p \in Published : ParseRelease(p) \/ CheckPublicRelease(p)
  /\ UNCHANGED <<window, worker>>

-----------------------------------------------------------------------------
(* What the worker does with a package.                                    *)

Downloading == task.job = "Downloading" /\ task.answer = "Working"

\* receive_package begins: the response has the size of the package, or does not say.
OpenTemporary ==
  /\ Downloading /\ ~temporary
  /\ temporary' = TRUE /\ received' = 0
  /\ UNCHANGED <<window, task, disk>>

\* A chunk, unless it is more than the package has.
ReceiveChunk ==
  /\ Downloading /\ temporary
  /\ \/ received < task.package.size /\ received' = received + 1 /\ UNCHANGED <<task, temporary>>
     \/ received = task.package.size /\ Answer("Failed") /\ temporary' = FALSE /\ received' = 0
  /\ UNCHANGED <<window, disk>>

\* The response ends with the contents `sha`: a package that is whole is put in place.
Persist(sha) ==
  /\ Downloading /\ temporary
  /\ LET whole == received = task.package.size /\ sha = task.package.sha
     IN \/ whole /\ Answer("Ok")
             /\ disk' = [disk EXCEPT ![task.package.version] = [size |-> received, sha |-> sha]]
        \/ ~whole /\ Answer("Failed") /\ disk' = disk
  /\ temporary' = FALSE /\ received' = 0
  /\ UNCHANGED window

\* download: the flag is looked at first whenever the worker runs, which it may be doing
\* as the flag is set.
SeeCancel ==
  /\ Downloading /\ stop = "set"
  /\ Answer("Cancelled") /\ temporary' = FALSE /\ received' = 0
  /\ UNCHANGED <<window, disk>>

\* verify: the file at the path against the package.
Verify ==
  /\ task.job = "Verifying" /\ task.answer = "Working"
  /\ LET whole == disk[downloaded] = [size |-> task.package.size, sha |-> task.package.sha]
     IN Answer(IF whole THEN "Ok" ELSE "Failed")
  /\ UNCHANGED <<window, worker>>

\* The network, the file system or the worker itself may fail at any point; a temporary
\* file goes with the task that made it.
WorkerFails(kind) ==
  /\ task.job \in Jobs /\ task.answer = "Working"
  /\ Answer(kind) /\ temporary' = FALSE /\ received' = 0
  /\ UNCHANGED <<window, disk>>

\* Someone else changes or removes a file of the directory.
ChangeFile(v, file) ==
  /\ disk' = [disk EXCEPT ![v] = file]
  /\ UNCHANGED <<window, task, temporary, received>>

-----------------------------------------------------------------------------
(* The window.                                                             *)

\* schedule_update_check, at the start and when automatic checks are switched on.
ScheduleUpdateCheck ==
  /\ automatic /\ ~scheduled
  /\ scheduled' = TRUE
  /\ UNCHANGED <<automatic, due, status, release, downloaded, stop, opened, task, worker>>

SetAutomaticUpdates(enabled) ==
  /\ automatic # enabled
  /\ automatic' = enabled /\ scheduled' = enabled
  /\ UNCHANGED <<due, status, release, downloaded, stop, opened, task, worker>>

\* A day passes, or the clock is set back.
DayPasses ==
  /\ due' = TRUE
  /\ UNCHANGED <<automatic, scheduled, status, release, downloaded, stop, opened, task, worker>>

\* check_for_updates. The attempt counts, whatever comes of it.
CheckForUpdates(manual) ==
  /\ manual \/ scheduled
  /\ ~Busy /\ (manual \/ (automatic /\ due))
  /\ Start("Checking", NoPackage) /\ due' = FALSE
  /\ UNCHANGED <<automatic, scheduled, release, downloaded, stop, opened, worker>>

DownloadUpdate ==
  /\ ~Busy /\ release.package # NoPackage
  /\ Start("Downloading", release.package)
  /\ downloaded' = 0 /\ stop' = "clear"
  /\ UNCHANGED <<automatic, due, scheduled, release, opened, worker>>

\* The button of a download.
CancelDownload ==
  /\ status = "Downloading" /\ stop # "none"
  /\ stop' = "set"
  /\ UNCHANGED <<automatic, due, scheduled, status, release, downloaded, opened, task, worker>>

OpenUpdate ==
  /\ ~Busy /\ release.package # NoPackage /\ downloaded # 0
  /\ Start("Verifying", release.package)
  /\ UNCHANGED <<automatic, due, scheduled, release, downloaded, stop, opened, worker>>

\* update_error, and what each closure does when its worker could not be joined.
UpdateError == status' = IF task.answer = "Cancelled" THEN "Cancelled" ELSE "Failed"

\* check_for_updates' closure: what was found replaces the offer and its download.
TakeRelease ==
  /\ task.job = "Checking" /\ task.answer # "Working"
  /\ \/ /\ task.answer = "Ok"
        /\ status' = IF task.found = NoRelease THEN "Current" ELSE "Available"
        /\ release' = task.found /\ downloaded' = 0
     \/ task.answer # "Ok" /\ UpdateError /\ UNCHANGED <<release, downloaded>>
  /\ task' = NoTask
  /\ UNCHANGED <<automatic, due, scheduled, stop, opened, worker>>

\* download_update's closure.
TakeDownload ==
  /\ task.job = "Downloading" /\ task.answer # "Working"
  /\ \/ task.answer = "Ok" /\ status' = "Ready" /\ downloaded' = task.package.version
     \/ task.answer # "Ok" /\ UpdateError /\ UNCHANGED downloaded
  /\ task' = NoTask /\ stop' = "none"
  /\ UNCHANGED <<automatic, due, scheduled, release, opened, worker>>

\* open_update's closure: a file that does not verify is forgotten; one that could not be
\* looked at, because the worker was lost, is not.
TakeVerification ==
  /\ task.job = "Verifying" /\ task.answer # "Working"
  /\ \/ task.answer = "Ok" /\ status' = "Ready" /\ opened' = task.package /\ UNCHANGED downloaded
     \/ task.answer # "Ok" /\ UpdateError /\ UNCHANGED opened
          /\ downloaded' = IF task.answer = "Panicked" THEN downloaded ELSE 0
  /\ task' = NoTask
  /\ UNCHANGED <<automatic, due, scheduled, release, stop, worker>>

-----------------------------------------------------------------------------
WorkerStep ==
  \/ Check \/ OpenTemporary \/ ReceiveChunk \/ SeeCancel \/ Verify
  \/ \E sha \in Digests : Persist(sha)
  \/ \E kind \in {"Failed", "Panicked"} : WorkerFails(kind)

WindowStep ==
  \/ ScheduleUpdateCheck \/ \E enabled \in BOOLEAN : SetAutomaticUpdates(enabled)
  \/ \E manual \in BOOLEAN : CheckForUpdates(manual)
  \/ DownloadUpdate \/ CancelDownload \/ OpenUpdate
  \/ TakeRelease \/ TakeDownload \/ TakeVerification

Outside ==
  \/ DayPasses
  \/ \E v \in Versions, file \in [size : 1..MaxPackage, sha : Digests] \cup {NoFile} :
       ChangeFile(v, file)

UpdatesNext == WorkerStep \/ WindowStep \/ Outside
UpdatesSpec == UpdatesInit /\ [][UpdatesNext]_updateVars

-----------------------------------------------------------------------------
(* Properties.                                                             *)

UpdatesTypeOK ==
  /\ automatic \in BOOLEAN /\ due \in BOOLEAN /\ scheduled \in BOOLEAN
  /\ status \in Status
  /\ release \in Releases \cup {NoRelease}
  /\ downloaded \in Versions \cup {0}
  /\ stop \in {"none", "clear", "set"}
  /\ task \in Tasks \cup {NoTask}
  /\ temporary \in BOOLEAN /\ received \in Nat
  /\ disk \in [Versions -> Files]
  /\ opened \in Packages \cup {NoPackage}

\* The task in the state is the one its status names, a cancellation can be sent exactly
\* while a download runs, and a schedule lives only while checks are automatic: no result
\* of an earlier task is left to be taken later (updates.rs:28, :122, :185, :250).
OneTask ==
  /\ status \in Jobs => task.job = status
  /\ status \notin Jobs => task = NoTask
  /\ stop # "none" <=> status = "Downloading"
  /\ scheduled => automatic

\* What can be opened belongs to the release that is offered, and a task works on the
\* package that is offered when it ends: a check that found something else in between
\* would leave the file of one release to be verified as another (updates.rs:150, :207).
DownloadMatchesOffer ==
  /\ downloaded # 0 => release.package # NoPackage /\ downloaded = release.package.version
  /\ task.package # NoPackage => task.package = release.package
  /\ task.job = "Verifying" => downloaded # 0 /\ task.package # NoPackage

\* A temporary file never outlives the download that fills it, and never holds more than
\* the package (remcmd-update lib.rs:442).
TemporaryBounded ==
  /\ temporary => task.job = "Downloading" /\ task.answer = "Working"
                  /\ received <= task.package.size
  /\ ~temporary => received = 0

\* Only the package that is offered is handed to the system, under its own name and after
\* its file was verified for this very opening (remcmd-update lib.rs:474, updating.md:17).
OpensVerified ==
  [][opened' # opened =>
       /\ opened' = release.package /\ downloaded = opened'.version
       /\ task.job = "Verifying" /\ task.answer = "Ok"]_updateVars

\* No release without a sound digest and size, or not newer than what runs, is ever
\* offered (remcmd-update lib.rs:151, :161, :281, :363).
OffersNewer ==
  release # NoRelease =>
    /\ release.version > Current
    /\ release.package # NoPackage => release.package.version = release.version
=============================================================================

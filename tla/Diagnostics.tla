---------------------------- MODULE Diagnostics ----------------------------
(***************************************************************************)
(* The diagnostic store: remcmd-diagnostics, and what the window asks of   *)
(* it (app/diagnostics.rs).                                                *)
(*                                                                         *)
(* Any thread records.  An event is redacted with the secrets registered   *)
(* so far, then put into the list in memory under one lock, then appended  *)
(* to the log of the day under another; between these steps other threads  *)
(* record, clear or export.  An append that fails lets go of the lock      *)
(* before the failure is noted.                                            *)
(*                                                                         *)
(* Of an event only which secrets its text holds matters.  Lines of a log  *)
(* are a set, as each event is written at most once; a log without lines   *)
(* and a missing one are the same.                                         *)
(***************************************************************************)
EXTENDS Integers, Sequences

CONSTANTS
  Secrets,      \* what texts may hold: passwords, hosts, paths
  Identities,   \* those of Secrets that name profiles, registered by an export
  Threads,
  Capacity,     \* capacity of the list in memory
  FlushInterval, \* LOG_FLUSH_EVENT_INTERVAL
  Retention,    \* LOG_RETENTION_DAYS
  MaxDay,       \* bound: days the clock may show
  MaxEvents     \* bound: events ever recorded

VARIABLES
  registered,   \* Redactor.secrets
  detailed,     \* debug_enabled
  today,        \* the date the clock shows
  nextId,
  recording,    \* by thread: the event of its record(), and how far it is
  memory,       \* DiagnosticInner.events
  date, open,   \* FileState.date, and whether there is a file
  buffered,     \* lines in the BufWriter
  pending,      \* pending_lines
  error,        \* FileState.error
  logs,         \* by day: the lines in the file of that day
  clearing,     \* whether a clear has emptied the memory and not yet the logs
  bundle        \* the export that is being written, or the last one

file == <<date, open, buffered, pending, error, logs>>
vars == <<registered, detailed, today, nextId, recording, memory, file, clearing, bundle>>

Days   == 1..MaxDay
Events == [id : Nat, holds : SUBSET Secrets]

\* redact: what is registered is cut out.
Redact(e) == [e EXCEPT !.holds = @ \ registered]

Stages  == {"Idle", "Redacted", "Remembered", "Failed"}
Idle    == [stage |-> "Idle", event |-> [id |-> 0, holds |-> {}]]
NoBundle == [stage |-> "None", known |-> {}, lines |-> {}, left |-> {}]

Init ==
  /\ registered = {} /\ detailed = FALSE
  /\ today \in Days /\ nextId = 1
  /\ recording = [t \in Threads |-> Idle]
  /\ memory = <<>>
  /\ date = 0 /\ open = FALSE /\ buffered = <<>> /\ pending = 0 /\ error \in BOOLEAN
  /\ logs \in [Days -> {{}}]
  /\ clearing = FALSE /\ bundle = NoBundle

-----------------------------------------------------------------------------
(* Recording.                                                              *)

\* record: level_enabled, then redact_event.
Record(t, fine, holds) ==
  /\ recording[t] = Idle
  /\ ~fine \/ detailed
  /\ nextId <= MaxEvents /\ nextId' = nextId + 1
  /\ recording' = [recording EXCEPT ![t] =
       [stage |-> "Redacted", event |-> Redact([id |-> nextId, holds |-> holds])]]
  /\ UNCHANGED <<registered, detailed, today, memory, file, clearing, bundle>>

\* write_event: the oldest event makes room.
Remember(t) ==
  /\ recording[t].stage = "Redacted"
  /\ memory' = Append(IF Len(memory) < Capacity THEN memory ELSE Tail(memory), recording[t].event)
  /\ recording' = [recording EXCEPT ![t].stage = "Remembered"]
  /\ UNCHANGED <<registered, detailed, today, nextId, file, clearing, bundle>>

Lines(s) == {s[i] : i \in 1..Len(s)}

\* The first n lines of the buffer reach the log of its day.
Written(n) == IF date \in Days THEN [logs EXCEPT ![date] = @ \cup Lines(SubSeq(buffered, 1, n))]
                               ELSE logs

\* cleanup_old_logs
Old(d)      == d < today - (Retention - 1)
WithoutOld(l) == [d \in Days |-> IF Old(d) THEN {} ELSE l[d]]

MustRotate == date # today \/ ~open

\* append_line: into the log of the day, opened first if need be, and to the disk when
\* enough lines wait or the last flush is a second ago.
AppendLine(t) ==
  /\ recording[t].stage = "Remembered"
  /\ LET rotate == MustRotate
         base   == IF rotate THEN WithoutOld(Written(Len(buffered))) ELSE logs
         queue  == Append(IF rotate THEN <<>> ELSE buffered, recording[t].event)
         count  == (IF rotate THEN 0 ELSE pending) + 1
     IN /\ date' = today /\ open' = TRUE
        /\ error' = IF rotate THEN FALSE ELSE error
        /\ \/ /\ count < FlushInterval
              /\ buffered' = queue /\ pending' = count /\ logs' = base
           \/ /\ buffered' = <<>> /\ pending' = 0
              /\ logs' = [base EXCEPT ![today] = @ \cup Lines(queue)]
  /\ recording' = [recording EXCEPT ![t] = Idle]
  /\ UNCHANGED <<registered, detailed, today, nextId, memory, clearing, bundle>>

\* It fails while the log is opened: the old one is flushed in part, or wholly, and then
\* some old logs may be gone.
RotateFails ==
  /\ MustRotate
  /\ \/ \E n \in 0..Len(buffered) :
          logs' = Written(n) /\ buffered' = SubSeq(buffered, n + 1, Len(buffered))
     \/ \E gone \in SUBSET Days :
          /\ \A d \in gone : Old(d)
          /\ logs' = [d \in Days |-> IF d \in gone THEN {} ELSE Written(Len(buffered))[d]]
          /\ buffered' = <<>>
  /\ UNCHANGED <<date, open, pending, error>>

\* It fails as the line is written, or as the buffer with the line is flushed.
WriteFails(e) ==
  /\ ~MustRotate
  /\ \E n \in 0..Len(buffered) :
       /\ logs' = Written(n)
       /\ LET rest == SubSeq(buffered, n + 1, Len(buffered))
          IN \/ buffered' = rest /\ pending' = pending
             \/ buffered' = Append(rest, e) /\ pending' = pending + 1
  /\ UNCHANGED <<date, open, error>>

\* A log has been opened, and a line that is longer than the buffer fails.
FirstWriteFails ==
  /\ MustRotate
  /\ logs' = WithoutOld(Written(Len(buffered)))
  /\ date' = today /\ open' = TRUE /\ buffered' = <<>> /\ pending' = 0 /\ error' = FALSE

AppendFails(t) ==
  /\ recording[t].stage = "Remembered"
  /\ RotateFails \/ FirstWriteFails \/ WriteFails(recording[t].event)
  /\ recording' = [recording EXCEPT ![t].stage = "Failed"]
  /\ UNCHANGED <<registered, detailed, today, nextId, memory, clearing, bundle>>

\* set_file_error: the file is dropped, and what its buffer holds is written if it can be.
SetFileError(t) ==
  /\ recording[t].stage = "Failed"
  /\ \E n \in 0..Len(buffered) : logs' = Written(n)
  /\ buffered' = <<>> /\ open' = FALSE /\ pending' = 0 /\ error' = TRUE /\ date' = date
  /\ recording' = [recording EXCEPT ![t] = Idle]
  /\ UNCHANGED <<registered, detailed, today, nextId, memory, clearing, bundle>>

-----------------------------------------------------------------------------
(* What else happens.                                                      *)

RegisterSecret(s) ==
  /\ registered' = registered \cup {s}
  /\ UNCHANGED <<detailed, today, nextId, recording, memory, file, clearing, bundle>>

\* toggle_detailed_diagnostics; the event it records is one of any thread's.
ToggleDetailed ==
  /\ detailed' = ~detailed
  /\ UNCHANGED <<registered, today, nextId, recording, memory, file, clearing, bundle>>

\* The clock, which may also be set back; a record reads it before it takes the lock, so that
\* two of them may append with their dates the wrong way round.
ClockShows(d) ==
  /\ today' = d
  /\ UNCHANGED <<registered, detailed, nextId, recording, memory, file, clearing, bundle>>

\* clear: the memory under its lock, then the logs under theirs; each log may stay.
ClearMemory ==
  /\ ~clearing /\ clearing' = TRUE
  /\ memory' = <<>>
  /\ UNCHANGED <<registered, detailed, today, nextId, recording, file, bundle>>

ClearLogs ==
  /\ clearing /\ clearing' = FALSE
  /\ \E n \in 0..Len(buffered), kept \in SUBSET Days :
       logs' = [d \in Days |-> IF d \in kept THEN Written(n)[d] ELSE {}]
  /\ date' = 0 /\ open' = FALSE /\ buffered' = <<>> /\ pending' = 0 /\ error' = error
  /\ UNCHANGED <<registered, detailed, today, nextId, recording, memory, bundle>>

\* export_support_bundle: what names a profile is registered, the log is flushed, and the
\* export begins; a flush that fails ends it there.
BeginExport ==
  /\ bundle.stage \in {"None", "Written"}
  /\ registered' = registered \cup Identities
  /\ \/ /\ logs' = Written(Len(buffered)) /\ buffered' = <<>> /\ pending' = 0
        /\ bundle' = [stage |-> "Memory", known |-> registered', lines |-> {}, left |-> {}]
     \/ \E n \in 0..Len(buffered) :
          /\ logs' = Written(n) /\ buffered' = SubSeq(buffered, n + 1, Len(buffered))
          /\ UNCHANGED <<pending, bundle>>
  /\ UNCHANGED <<detailed, today, nextId, recording, memory, date, open, error, clearing>>

\* The events in memory are copied under the lock, and the logs are listed.
ExportMemory ==
  /\ bundle.stage = "Memory"
  /\ bundle' = [bundle EXCEPT !.stage = "Logs", !.lines = {Redact(e) : e \in Lines(memory)}, !.left = Days]
  /\ UNCHANGED <<registered, detailed, today, nextId, recording, memory, file, clearing>>

\* A log is read line by line and redacted again.
ExportLog(d) ==
  /\ bundle.stage = "Logs" /\ d \in bundle.left
  /\ bundle' = [bundle EXCEPT !.lines = @ \cup {Redact(e) : e \in logs[d]}, !.left = @ \ {d}]
  /\ UNCHANGED <<registered, detailed, today, nextId, recording, memory, file, clearing>>

\* The archive is put in place when it is whole, and dropped on any failure.
EndExport ==
  /\ \/ bundle.stage = "Logs" /\ bundle.left = {} /\ bundle' = [bundle EXCEPT !.stage = "Written"]
     \/ bundle.stage \in {"Memory", "Logs"} /\ bundle' = NoBundle
  /\ UNCHANGED <<registered, detailed, today, nextId, recording, memory, file, clearing>>

Next ==
  \/ \E t \in Threads :
       \/ \E fine \in BOOLEAN, holds \in SUBSET Secrets : Record(t, fine, holds)
       \/ Remember(t) \/ AppendLine(t) \/ AppendFails(t) \/ SetFileError(t)
  \/ \E s \in Secrets : RegisterSecret(s)
  \/ ToggleDetailed \/ \E d \in Days : ClockShows(d)
  \/ ClearMemory \/ ClearLogs
  \/ BeginExport \/ ExportMemory \/ EndExport \/ \E d \in Days : ExportLog(d)

Spec == Init /\ [][Next]_vars

-----------------------------------------------------------------------------
(* Properties.                                                             *)

DiagnosticsTypeOK ==
  /\ registered \in SUBSET (Secrets \cup Identities) /\ detailed \in BOOLEAN
  /\ today \in Days /\ nextId \in Nat
  /\ recording \in [Threads -> [stage : Stages, event : Events]]
  /\ memory \in Seq(Events) /\ buffered \in Seq(Events)
  /\ date \in Days \cup {0} /\ open \in BOOLEAN /\ pending \in Nat /\ error \in BOOLEAN
  /\ logs \in [Days -> SUBSET Events]
  /\ clearing \in BOOLEAN
  /\ bundle \in [stage : {"None", "Memory", "Logs", "Written"}, known : SUBSET (Secrets \cup Identities),
                 lines : SUBSET Events, left : SUBSET Days]

\* The memory never holds more than its capacity, however many threads record
\* (remcmd-diagnostics lib.rs:524, diagnostics.md:13).
MemoryBounded == Len(memory) <= Capacity

\* A crash loses fewer lines than a flush writes, unless an append has just failed: what
\* waits in the buffer is counted, through rotations, failures, clears and exports
\* (remcmd-diagnostics lib.rs:571).
FewLinesWait ==
  /\ Len(buffered) <= pending
  /\ (\A t \in Threads : recording[t].stage # "Failed") => pending < FlushInterval

\* While a log is open no line older than the retention is on the disk, whatever failed,
\* and wherever the clock went in between (remcmd-diagnostics lib.rs:554, diagnostics.md:12).
RetentionKept ==
  open => \A d \in Days : logs[d] # {} => d >= date - (Retention - 1)

\* A support bundle holds nothing that was registered when the export began, and nothing
\* that names a profile, although lines of it were recorded before it was registered and
\* others are recorded while it is written (remcmd-diagnostics lib.rs:444, :474).
BundleClean ==
  bundle.stage # "None" =>
    /\ Identities \subseteq bundle.known
    /\ \A e \in bundle.lines : e.holds \cap bundle.known = {}
=============================================================================

---------------------------- MODULE ServiceProofs ----------------------------
(***************************************************************************)
(* Proofs about the two services that run beside the sessions and share    *)
(* nothing with them or with each other: Diagnostics, for any threads,     *)
(* secrets, capacity, flush interval, retention and number of days, and    *)
(* Updates, for any versions, digests and sizes.                           *)
(*                                                                         *)
(* The invariant of Diagnostics splits along the two locks: FileInv is     *)
(* about the log and its buffer, and every step either leaves the file     *)
(* alone or is shown to keep it by one of the lemmas below; MemoryInv and  *)
(* BundleInv are about what the first lock guards and what an export has   *)
(* collected.                                                              *)
(*                                                                         *)
(* The properties of Updates lean on each other: a check can replace the   *)
(* offer only because no download or verification runs beside it           *)
(* (OneTask), and what it replaces it with was newer when it was found     *)
(* (FoundOK).  The worker's steps and the window's are two lemmas each,    *)
(* one for the data and one for what relates them.                         *)
(***************************************************************************)
EXTENDS Diagnostics, Updates, SequenceTheorems, TLAPS

-----------------------------------------------------------------------------
(* Diagnostics: what holds in every state.                                 *)

Sizes == Capacity \in Nat \ {0} /\ FlushInterval \in Nat \ {0} /\ Retention \in Nat \ {0}

FileTypeOK ==
  /\ buffered \in Seq(Events)
  /\ date \in Days \cup {0} /\ open \in BOOLEAN /\ pending \in Nat /\ error \in BOOLEAN
  /\ logs \in [Days -> SUBSET Events]

FileInv == FileTypeOK /\ FewLinesWait /\ RetentionKept

RecordingInv ==
  /\ today \in Days /\ nextId \in Nat /\ detailed \in BOOLEAN /\ clearing \in BOOLEAN
  /\ recording \in [Threads -> [stage : Stages, event : Events]]

MemoryInv == memory \in Seq(Events) /\ MemoryBounded

BundleInv ==
  /\ registered \in SUBSET (Secrets \cup Identities)
  /\ bundle \in [stage : {"None", "Memory", "Logs", "Written"}, known : SUBSET (Secrets \cup Identities),
                 lines : SUBSET Events, left : SUBSET Days]
  /\ bundle.known \subseteq registered
  /\ BundleClean

IInv == FileInv /\ RecordingInv /\ MemoryInv /\ BundleInv

LEMMA RedactCuts ==
  ASSUME NEW e \in Events
  PROVE  Redact(e) \in Events /\ Redact(e).holds \cap registered = {}
BY DEF Redact, Events

LEMMA InitOK ==
  ASSUME Sizes, Init
  PROVE  IInv
<1>1. FileInv
  <2>1. buffered \in Seq(Events) /\ Len(buffered) = 0
    BY EmptySeq DEF Init
  <2>2. logs \in [Days -> SUBSET Events]
    BY DEF Init
  <2>3. date = 0 /\ open = FALSE /\ pending = 0 /\ error \in BOOLEAN
    BY DEF Init
  <2>4. FileTypeOK
    BY <2>1, <2>2, <2>3 DEF FileTypeOK
  <2>5. FewLinesWait
    BY <2>1, <2>3 DEF FewLinesWait, Sizes
  <2>6. RetentionKept
    BY <2>3 DEF RetentionKept
  <2> QED BY <2>4, <2>5, <2>6 DEF FileInv
<1>2. RecordingInv
  <2>1. Idle \in [stage : Stages, event : Events]
    BY DEF Idle, Stages, Events
  <2> QED BY <2>1 DEF Init, RecordingInv
<1>3. MemoryInv
  BY DEF Sizes, Init, MemoryInv, MemoryBounded
<1>4. BundleInv
  BY DEF Init, BundleInv, BundleClean, NoBundle
<1> QED BY <1>1, <1>2, <1>3, <1>4 DEF IInv

-----------------------------------------------------------------------------
(* The log.                                                                *)

\* Lines that leave the buffer go to the log of its day; the rest stays in order.
LEMMA SpillKeeps ==
  ASSUME FileTypeOK, NEW n \in 0..Len(buffered)
  PROVE  /\ Written(n) \in [Days -> SUBSET Events]
         /\ \A d \in Days : d # date => Written(n)[d] = logs[d]
         /\ SubSeq(buffered, n + 1, Len(buffered)) \in Seq(Events)
         /\ Len(SubSeq(buffered, n + 1, Len(buffered))) = Len(buffered) - n
<1>1. Len(buffered) \in Nat /\ n \in Nat /\ \A i \in 1..Len(buffered) : buffered[i] \in Events
  BY LenProperties, ElementOfSeq DEF FileTypeOK
<1>2. SubSeq(buffered, 1, n) \in Seq(Events)
  BY <1>1, SubSeqProperties
<1>3. Lines(SubSeq(buffered, 1, n)) \subseteq Events
  BY <1>2, ElementOfSeq DEF Lines
<1>4. Written(n) \in [Days -> SUBSET Events]
  BY <1>3 DEF Written, FileTypeOK
<1>5. \A d \in Days : d # date => Written(n)[d] = logs[d]
  BY DEF Written, FileTypeOK
<1>6. /\ SubSeq(buffered, n + 1, Len(buffered)) \in Seq(Events)
      /\ Len(SubSeq(buffered, n + 1, Len(buffered))) = Len(buffered) - n
  BY <1>1, SubSeqProperties
<1> QED BY <1>4, <1>5, <1>6

\* What is written, with the old logs removed: the log of a day is from then on young enough.
LEMMA RotateKeeps ==
  ASSUME Sizes, FileTypeOK, today \in Days
  PROVE  /\ WithoutOld(Written(Len(buffered))) \in [Days -> SUBSET Events]
         /\ \A d \in Days : WithoutOld(Written(Len(buffered)))[d] # {} => d >= today - (Retention - 1)
<1>1. Written(Len(buffered)) \in [Days -> SUBSET Events]
  BY SpillKeeps, LenProperties DEF FileTypeOK
<1>2. \A d \in Days : Old(d) \/ d >= today - (Retention - 1)
  BY DEF Old, Days, Sizes
<1>3. \A d \in Days : WithoutOld(Written(Len(buffered)))[d] # {} => ~Old(d)
  BY DEF WithoutOld
<1>4. WithoutOld(Written(Len(buffered))) \in [Days -> SUBSET Events]
  BY <1>1 DEF WithoutOld
<1> QED BY <1>2, <1>3, <1>4

\* A flush, whole or in part, with or without the end of the file: the buffer only shrinks,
\* and only the log of its own day grows.
LEMMA FlushKeeps ==
  ASSUME Sizes, FileInv, NEW n \in 0..Len(buffered), logs' = Written(n),
         buffered' \in {SubSeq(buffered, n + 1, Len(buffered)), <<>>},
         date' = date, open' \in BOOLEAN, open' => open, error' \in BOOLEAN,
         \/ pending' = pending /\ \A t \in Threads : recording[t].stage = "Failed" => recording'[t].stage = "Failed"
         \/ pending' = 0 /\ buffered' = <<>>
         \/ pending' = pending /\ \E t \in Threads : recording'[t].stage = "Failed"
  PROVE  FileInv'
<1>1. /\ logs' \in [Days -> SUBSET Events] /\ \A d \in Days : d # date => logs'[d] = logs[d]
      /\ buffered' \in Seq(Events) /\ Len(buffered') <= Len(buffered) /\ Len(buffered') \in Nat
  <2>1. Len(buffered) \in Nat /\ n \in Nat /\ n <= Len(buffered)
    BY LenProperties DEF FileInv, FileTypeOK
  <2>2. /\ Written(n) \in [Days -> SUBSET Events] /\ \A d \in Days : d # date => Written(n)[d] = logs[d]
        /\ SubSeq(buffered, n + 1, Len(buffered)) \in Seq(Events)
        /\ Len(SubSeq(buffered, n + 1, Len(buffered))) = Len(buffered) - n
    BY SpillKeeps DEF FileInv
  <2>3. <<>> \in Seq(Events) /\ Len(<<>>) = 0
    BY EmptySeq
  <2>4. buffered' = SubSeq(buffered, n + 1, Len(buffered)) \/ buffered' = <<>>
    OBVIOUS
  <2>5. buffered' \in Seq(Events) /\ Len(buffered') <= Len(buffered) /\ Len(buffered') \in Nat
    <3>1. buffered' \in Seq(Events) /\ (Len(buffered') = Len(buffered) - n \/ Len(buffered') = 0)
      BY <2>2, <2>3, <2>4, Zenon
    <3> QED BY <2>1, <3>1
  <2> QED BY <2>2, <2>5
<1>2. FileTypeOK'
  BY <1>1 DEF FileInv, FileTypeOK
<1>3. FewLinesWait'
  <2>1. Len(buffered) \in Nat /\ pending \in Nat /\ Len(buffered) <= pending
    BY LenProperties DEF FileInv, FileTypeOK, FewLinesWait
  <2>2. Len(buffered') <= pending'
    BY <1>1, <2>1, EmptySeq
  <2>3. (\A t \in Threads : recording'[t].stage # "Failed") => pending' < FlushInterval
    BY DEF FileInv, FewLinesWait, Sizes
  <2> QED BY <2>2, <2>3 DEF FewLinesWait
<1>4. RetentionKept'
  <2> SUFFICES ASSUME open', NEW d \in Days, logs'[d] # {}
               PROVE  d >= date - (Retention - 1)
    BY DEF RetentionKept
  <2>1. CASE d = date
    BY <2>1 DEF Sizes, Days
  <2>2. CASE d # date
    BY <2>2, <1>1 DEF FileInv, RetentionKept
  <2> QED BY <2>1, <2>2
<1> QED BY <1>2, <1>3, <1>4 DEF FileInv

\* A thread that appends its line.
LEMMA AppendKeeps ==
  ASSUME Sizes, IInv, NEW t \in Threads, AppendLine(t)
  PROVE  FileInv'
<1> DEFINE rotate == MustRotate
           base   == IF rotate THEN WithoutOld(Written(Len(buffered))) ELSE logs
           prior  == IF rotate THEN <<>> ELSE buffered
           queue  == Append(prior, recording[t].event)
           count  == (IF rotate THEN 0 ELSE pending) + 1
<1>1. today \in Days /\ recording[t].event \in Events /\ FileTypeOK /\ RetentionKept /\ FewLinesWait
  BY DEF IInv, RecordingInv, FileInv
<1>2. base \in [Days -> SUBSET Events]
  BY <1>1, RotateKeeps DEF FileTypeOK
<1>3. \A d \in Days : base[d] # {} => d >= today - (Retention - 1)
  <2>1. CASE rotate
    BY <2>1, <1>1, RotateKeeps
  <2>2. CASE ~rotate
    BY <2>2, <1>1 DEF RetentionKept, MustRotate
  <2> QED BY <2>1, <2>2
<1>4. prior \in Seq(Events) /\ queue \in Seq(Events) /\ Len(queue) = Len(prior) + 1 /\ Len(prior) \in Nat
  BY <1>1, EmptySeq, LenProperties DEF FileTypeOK
<1>5. Lines(queue) \subseteq Events
  BY <1>4, ElementOfSeq DEF Lines
<1>6. count \in Nat /\ Len(queue) <= count
  BY <1>1, <1>4, EmptySeq DEF FileTypeOK, FewLinesWait
<1> HIDE DEF base, prior, queue, count
<1>7. /\ date' = today /\ open' = TRUE /\ error' \in BOOLEAN
      /\ \/ count < FlushInterval /\ buffered' = queue /\ pending' = count /\ logs' = base
         \/ /\ buffered' = <<>> /\ pending' = 0
            /\ logs' = [base EXCEPT ![today] = @ \cup Lines(queue)]
  BY <1>1 DEF AppendLine, base, prior, queue, count, FileTypeOK
<1>8. logs' \in [Days -> SUBSET Events] /\ buffered' \in Seq(Events) /\ pending' \in Nat
      /\ Len(buffered') <= pending' /\ pending' < FlushInterval
  <2>1. CASE count < FlushInterval /\ buffered' = queue /\ pending' = count /\ logs' = base
    BY <2>1, <1>2, <1>4, <1>6
  <2>2. CASE /\ buffered' = <<>> /\ pending' = 0
             /\ logs' = [base EXCEPT ![today] = @ \cup Lines(queue)]
    <3>1. buffered' \in Seq(Events) /\ Len(buffered') = 0
      BY <2>2, EmptySeq
    <3>2. logs' \in [Days -> SUBSET Events]
      BY <2>2, <1>1, <1>2, <1>5
    <3> QED BY <2>2, <3>1, <3>2 DEF Sizes
  <2> QED BY <1>7, <2>1, <2>2
<1>9. \A d \in Days : d = today \/ logs'[d] = base[d]
  BY <1>2, <1>7
<1>10. RetentionKept'
  <2> SUFFICES ASSUME NEW d \in Days, logs'[d] # {}
               PROVE  d >= today - (Retention - 1)
    BY <1>7 DEF RetentionKept
  <2>1. CASE d = today
    BY <2>1, <1>1 DEF Sizes, Days
  <2> QED BY <2>1, <1>3, <1>9
<1> QED BY <1>1, <1>7, <1>8, <1>10 DEF FileInv, FileTypeOK, FewLinesWait

\* A thread whose append fails: until it says so, nothing is promised of what waits.
LEMMA AppendFailsKeeps ==
  ASSUME Sizes, IInv, NEW t \in Threads, AppendFails(t)
  PROVE  FileInv'
<1>1. today \in Days /\ recording[t].event \in Events /\ FileTypeOK /\ RetentionKept /\ FewLinesWait
  BY DEF IInv, RecordingInv, FileInv
<1>2. recording'[t].stage = "Failed"
  BY DEF AppendFails, IInv, RecordingInv
<1>3. CASE RotateFails
  <2>1. CASE \E n \in 0..Len(buffered) :
               logs' = Written(n) /\ buffered' = SubSeq(buffered, n + 1, Len(buffered))
    <3> PICK n \in 0..Len(buffered) :
               logs' = Written(n) /\ buffered' = SubSeq(buffered, n + 1, Len(buffered))
      BY <2>1
    <3> QED BY <1>2, <1>3, <1>1, FlushKeeps DEF RotateFails, IInv, FileInv, FileTypeOK
  <2>2. CASE \E gone \in SUBSET Days :
               /\ logs' = [d \in Days |-> IF d \in gone THEN {} ELSE Written(Len(buffered))[d]]
               /\ buffered' = <<>>
    <3> PICK gone \in SUBSET Days :
               /\ logs' = [d \in Days |-> IF d \in gone THEN {} ELSE Written(Len(buffered))[d]]
               /\ buffered' = <<>>
      BY <2>2
    <3>1. Len(buffered) \in Nat /\ Len(buffered) \in 0..Len(buffered)
      BY <1>1, LenProperties DEF FileTypeOK
    <3>2. /\ Written(Len(buffered)) \in [Days -> SUBSET Events]
          /\ \A d \in Days : d # date => Written(Len(buffered))[d] = logs[d]
      BY <1>1, <3>1, SpillKeeps
    <3>3. /\ logs' \in [Days -> SUBSET Events]
          /\ \A d \in Days : logs'[d] # {} => d = date \/ logs[d] # {}
      BY <3>2
    <3>4. UNCHANGED <<date, open, pending, error>>
      BY <1>3 DEF RotateFails
    <3>5. RetentionKept'
      <4> SUFFICES ASSUME open, NEW d \in Days, logs'[d] # {}
                   PROVE  d >= date - (Retention - 1)
        BY <3>4 DEF RetentionKept
      <4>1. CASE d = date
        BY <4>1 DEF Sizes, Days
      <4> QED BY <4>1, <3>3, <1>1 DEF RetentionKept
    <3>6. buffered' \in Seq(Events) /\ Len(buffered') = 0
      BY EmptySeq
    <3> QED BY <1>1, <1>2, <3>3, <3>4, <3>5, <3>6 DEF FileInv, FileTypeOK, FewLinesWait
  <2> QED BY <1>3, <2>1, <2>2 DEF RotateFails
<1>4. CASE FirstWriteFails
  <2>1. buffered' \in Seq(Events) /\ Len(buffered') = 0
    BY <1>4, EmptySeq DEF FirstWriteFails
  <2>2. /\ logs' = WithoutOld(Written(Len(buffered)))
        /\ date' = today /\ open' = TRUE /\ pending' = 0 /\ error' = FALSE
    BY <1>4 DEF FirstWriteFails
  <2>3. logs' \in [Days -> SUBSET Events] /\ RetentionKept'
    BY <1>1, <2>2, RotateKeeps DEF RetentionKept
  <2>4. FileTypeOK'
    BY <1>1, <2>1, <2>2, <2>3 DEF FileTypeOK
  <2>5. FewLinesWait'
    BY <1>2, <2>1, <2>2 DEF FewLinesWait
  <2> QED BY <2>3, <2>4, <2>5 DEF FileInv
<1>5. CASE WriteFails(recording[t].event)
  <2> PICK n \in 0..Len(buffered) :
         /\ logs' = Written(n)
         /\ LET rest == SubSeq(buffered, n + 1, Len(buffered))
            IN \/ buffered' = rest /\ pending' = pending
               \/ buffered' = Append(rest, recording[t].event) /\ pending' = pending + 1
    BY <1>5 DEF WriteFails
  <2> DEFINE rest == SubSeq(buffered, n + 1, Len(buffered))
  <2>1. /\ logs' \in [Days -> SUBSET Events] /\ \A d \in Days : d # date => logs'[d] = logs[d]
        /\ rest \in Seq(Events) /\ Len(rest) = Len(buffered) - n
    BY <1>1, SpillKeeps
  <2>2. Len(buffered) \in Nat /\ pending \in Nat /\ Len(buffered) <= pending
    BY <1>1, LenProperties DEF FileTypeOK, FewLinesWait
  <2>3. Append(rest, recording[t].event) \in Seq(Events) /\ Len(Append(rest, recording[t].event)) = Len(rest) + 1
    BY <1>1, <2>1
  <2> HIDE DEF rest
  <2>4. \/ buffered' = rest /\ pending' = pending
        \/ buffered' = Append(rest, recording[t].event) /\ pending' = pending + 1
    BY DEF rest
  <2>5. buffered' \in Seq(Events) /\ pending' \in Nat /\ Len(buffered') <= pending'
    <3>1. n \in Nat /\ Len(rest) <= pending /\ Len(rest) \in Nat
      BY <2>1, <2>2, LenProperties
    <3>2. CASE buffered' = rest /\ pending' = pending
      BY <3>1, <3>2, <2>1, <2>2
    <3>3. CASE buffered' = Append(rest, recording[t].event) /\ pending' = pending + 1
      <4>1. Len(buffered') = Len(rest) + 1 /\ buffered' \in Seq(Events)
        BY <3>3, <2>3
      <4> QED BY <3>1, <3>3, <4>1, <2>2
    <3> QED BY <2>4, <3>2, <3>3
  <2>6. UNCHANGED <<date, open, error>>
    BY <1>5 DEF WriteFails
  <2>7. RetentionKept'
    <3> SUFFICES ASSUME open, NEW d \in Days, logs'[d] # {}
                 PROVE  d >= date - (Retention - 1)
      BY <2>6 DEF RetentionKept
    <3>1. CASE d = date
      BY <3>1 DEF Sizes, Days
    <3> QED BY <3>1, <2>1, <1>1 DEF RetentionKept
  <2> QED BY <1>1, <1>2, <2>1, <2>5, <2>6, <2>7 DEF FileInv, FileTypeOK, FewLinesWait
<1> QED BY <1>3, <1>4, <1>5 DEF AppendFails

\* Every other step that touches the file.
LEMMA FileKeeps ==
  ASSUME Sizes, IInv, (\E t \in Threads : SetFileError(t)) \/ ClearLogs \/ BeginExport
  PROVE  FileInv'
<1> USE DEF IInv
<1>0. FileTypeOK /\ RetentionKept /\ FewLinesWait /\ Len(buffered) \in Nat
  BY LenProperties DEF FileInv, FileTypeOK
<1>1. CASE \E t \in Threads : SetFileError(t)
  <2> PICK t \in Threads : SetFileError(t)
    BY <1>1
  <2>1. PICK n \in 0..Len(buffered) : logs' = Written(n)
    BY DEF SetFileError
  <2> QED BY <2>1, FlushKeeps DEF SetFileError
<1>2. CASE ClearLogs
  <2>1. logs' \in [Days -> SUBSET Events]
    <3>1. PICK n \in 0..Len(buffered), kept \in SUBSET Days :
            logs' = [d \in Days |-> IF d \in kept THEN Written(n)[d] ELSE {}]
      BY <1>2 DEF ClearLogs
    <3>2. Written(n) \in [Days -> SUBSET Events]
      BY <1>0, SpillKeeps
    <3> QED BY <3>1, <3>2
  <2>2. date' = 0 /\ open' = FALSE /\ buffered' = <<>> /\ pending' = 0 /\ error' = error
    BY <1>2 DEF ClearLogs
  <2>3. buffered' \in Seq(Events) /\ Len(buffered') = 0
    BY <2>2, EmptySeq
  <2>4. FileTypeOK'
    BY <1>0, <2>1, <2>2, <2>3 DEF FileTypeOK
  <2>5. FewLinesWait'
    BY <2>2, <2>3 DEF FewLinesWait, Sizes
  <2>6. RetentionKept'
    BY <2>2 DEF RetentionKept
  <2> QED BY <2>4, <2>5, <2>6 DEF FileInv
<1>3. CASE BeginExport
  <2>1. UNCHANGED <<date, open, error, recording>>
    BY <1>3 DEF BeginExport
  <2>2. CASE logs' = Written(Len(buffered)) /\ buffered' = <<>> /\ pending' = 0
    <3>1. Len(buffered) \in 0..Len(buffered)
      BY <1>0
    <3> QED BY <1>0, <2>1, <2>2, <3>1, FlushKeeps DEF FileTypeOK
  <2>3. CASE \E n \in 0..Len(buffered) :
          /\ logs' = Written(n) /\ buffered' = SubSeq(buffered, n + 1, Len(buffered))
          /\ pending' = pending
    <3> PICK n \in 0..Len(buffered) :
          /\ logs' = Written(n) /\ buffered' = SubSeq(buffered, n + 1, Len(buffered))
          /\ pending' = pending
      BY <2>3
    <3> QED BY <1>0, <2>1, FlushKeeps DEF FileTypeOK
  <2> QED BY <1>3, <2>2, <2>3 DEF BeginExport
<1> QED BY <1>1, <1>2, <1>3

-----------------------------------------------------------------------------
(* Memory and export.                                                      *)

LEMMA MemoryKeeps ==
  ASSUME Sizes, IInv, [Next]_vars
  PROVE  MemoryInv'
<1> USE DEF IInv, MemoryInv
<1>1. CASE UNCHANGED memory
  BY <1>1 DEF MemoryBounded
<1>2. CASE memory' = <<>>
  BY <1>2, EmptySeq DEF MemoryBounded, Sizes
<1>3. CASE \E t \in Threads : Remember(t)
  <2> PICK t \in Threads : Remember(t)
    BY <1>3
  <2>1. recording[t].event \in Events
    BY DEF RecordingInv
  <2> DEFINE kept == IF Len(memory) < Capacity THEN memory ELSE Tail(memory)
  <2>2. kept \in Seq(Events) /\ Len(kept) \in Nat /\ Len(kept) + 1 <= Capacity
    <3>1. Len(memory) \in Nat /\ Len(memory) <= Capacity
      BY LenProperties DEF MemoryBounded
    <3>2. CASE Len(memory) < Capacity
      BY <3>1, <3>2 DEF Sizes
    <3>3. CASE ~(Len(memory) < Capacity)
      <4>1. memory # <<>> /\ Len(memory) = Capacity
        BY <3>1, <3>3, EmptySeq DEF Sizes
      <4>2. Tail(memory) \in Seq(Events) /\ Len(Tail(memory)) = Len(memory) - 1
        BY <4>1, HeadTailProperties
      <4> QED BY <3>1, <3>3, <4>1, <4>2 DEF Sizes
    <3> QED BY <3>2, <3>3
  <2> HIDE DEF kept
  <2>3. Append(kept, recording[t].event) \in Seq(Events)
        /\ Len(Append(kept, recording[t].event)) = Len(kept) + 1
    BY <2>1, <2>2
  <2> QED BY <2>2, <2>3 DEF Remember, kept, MemoryBounded
<1>4. UNCHANGED memory \/ memory' = <<>> \/ \E t \in Threads : Remember(t)
  BY DEF Next, vars, Record, AppendLine, AppendFails, SetFileError, RegisterSecret, ToggleDetailed, ClockShows,
     ClearMemory, ClearLogs, BeginExport, ExportMemory, EndExport, ExportLog
<1> QED BY <1>1, <1>2, <1>3, <1>4

\* What an export collects is cut with what is registered as it does, and that only grows.
LEMMA BundleKeeps ==
  ASSUME IInv, [Next]_vars
  PROVE  BundleInv'
<1> USE DEF IInv
<1>1. CASE UNCHANGED <<registered, bundle>>
  BY <1>1 DEF BundleInv, BundleClean
<1>2. CASE \E s \in Secrets : RegisterSecret(s)
  BY <1>2 DEF RegisterSecret, BundleInv, BundleClean
<1>3. CASE BeginExport
  <2>1. registered' = registered \cup Identities /\ bundle.known \subseteq registered'
    BY <1>3 DEF BeginExport, BundleInv
  <2>2. \/ UNCHANGED bundle
        \/ bundle' = [stage |-> "Memory", known |-> registered', lines |-> {}, left |-> {}]
    BY <1>3 DEF BeginExport
  <2> QED BY <2>1, <2>2 DEF BundleInv, BundleClean
<1>4. CASE ExportMemory
  <2>1. bundle.stage = "Memory" /\ registered' = registered
        /\ bundle' = [bundle EXCEPT !.stage = "Logs", !.lines = {Redact(e) : e \in Lines(memory)}, !.left = Days]
    BY <1>4 DEF ExportMemory
  <2>2. Lines(memory) \subseteq Events
    BY ElementOfSeq DEF Lines, MemoryInv
  <2>3. \A e \in {Redact(x) : x \in Lines(memory)} : e \in Events /\ e.holds \cap registered = {}
    BY <2>2, RedactCuts
  <2>4. /\ bundle'.stage = "Logs" /\ bundle'.known = bundle.known
        /\ bundle'.lines = {Redact(e) : e \in Lines(memory)} /\ bundle'.left = Days
        /\ bundle' \in [stage : {"None", "Memory", "Logs", "Written"}, known : SUBSET (Secrets \cup Identities),
                        lines : SUBSET Events, left : SUBSET Days]
    BY <2>1, <2>3 DEF BundleInv
  <2> QED BY <2>1, <2>3, <2>4 DEF BundleInv, BundleClean
<1>5. CASE \E d \in Days : ExportLog(d)
  <2> PICK d \in Days : ExportLog(d)
    BY <1>5
  <2>1. bundle.stage = "Logs" /\ registered' = registered
        /\ bundle' = [bundle EXCEPT !.lines = @ \cup {Redact(e) : e \in logs[d]}, !.left = @ \ {d}]
    BY DEF ExportLog
  <2>2. \A e \in {Redact(x) : x \in logs[d]} : e \in Events /\ e.holds \cap registered = {}
    BY RedactCuts DEF FileInv, FileTypeOK
  <2>3. /\ bundle'.stage = "Logs" /\ bundle'.known = bundle.known
        /\ bundle'.lines = bundle.lines \cup {Redact(e) : e \in logs[d]}
        /\ bundle' \in [stage : {"None", "Memory", "Logs", "Written"}, known : SUBSET (Secrets \cup Identities),
                        lines : SUBSET Events, left : SUBSET Days]
    BY <2>1, <2>2 DEF BundleInv
  <2> QED BY <2>1, <2>2, <2>3 DEF BundleInv, BundleClean
<1>6. CASE EndExport
  <2>1. registered' = registered
        /\ (bundle' = NoBundle \/ (bundle.stage = "Logs" /\ bundle' = [bundle EXCEPT !.stage = "Written"]))
    BY <1>6 DEF EndExport
  <2> QED BY <2>1 DEF BundleInv, BundleClean, NoBundle
<1>7. \/ UNCHANGED <<registered, bundle>> \/ \E s \in Secrets : RegisterSecret(s)
      \/ BeginExport \/ ExportMemory \/ EndExport \/ \E d \in Days : ExportLog(d)
  BY DEF Next, vars, Record, Remember, AppendLine, AppendFails, SetFileError, ToggleDetailed, ClockShows,
     ClearMemory, ClearLogs
<1> QED BY <1>1, <1>2, <1>3, <1>4, <1>5, <1>6, <1>7

LEMMA RecordingKeeps ==
  ASSUME IInv, [Next]_vars
  PROVE  RecordingInv'
<1> USE DEF IInv, RecordingInv
<1>1. Idle \in [stage : Stages, event : Events]
  BY DEF Idle, Stages, Events
<1>2. ASSUME NEW t \in Threads, NEW fine \in BOOLEAN, NEW holds \in SUBSET Secrets, Record(t, fine, holds)
      PROVE  RecordingInv'
  <2>1. [id |-> nextId, holds |-> holds] \in Events
    BY DEF Events
  <2>2. Redact([id |-> nextId, holds |-> holds]) \in Events
    BY <2>1, RedactCuts
  <2> QED BY <1>2, <2>2 DEF Record, Stages
<1>3. ASSUME NEW t \in Threads, Remember(t) \/ AppendLine(t) \/ AppendFails(t) \/ SetFileError(t)
      PROVE  RecordingInv'
  <2>1. \/ recording' = [recording EXCEPT ![t] = Idle]
        \/ recording' = [recording EXCEPT ![t].stage = "Remembered"]
        \/ recording' = [recording EXCEPT ![t].stage = "Failed"]
    BY <1>3 DEF Remember, AppendLine, AppendFails, SetFileError
  <2>2. UNCHANGED <<today, nextId, detailed, clearing>>
    BY <1>3 DEF Remember, AppendLine, AppendFails, SetFileError
  <2> QED BY <1>1, <2>1, <2>2 DEF Stages
<1>4. CASE ToggleDetailed \/ (\E d \in Days : ClockShows(d))
  BY <1>4 DEF ToggleDetailed, ClockShows
<1>5. CASE /\ UNCHANGED <<today, nextId, detailed, recording>> /\ clearing' \in BOOLEAN
  BY <1>5
<1>6. CASE UNCHANGED vars \/ (\E s \in Secrets : RegisterSecret(s)) \/ ClearMemory \/ ClearLogs
           \/ BeginExport \/ ExportMemory \/ EndExport \/ (\E d \in Days : ExportLog(d))
  BY <1>5, <1>6 DEF vars, RegisterSecret, ClearMemory, ClearLogs, BeginExport, ExportMemory, EndExport, ExportLog
<1> QED BY <1>2, <1>3, <1>4, <1>6 DEF Next

LEMMA StepOK ==
  ASSUME Sizes, IInv, [Next]_vars
  PROVE  IInv'
<1>1. FileInv'
  <2>1. CASE UNCHANGED file /\ \A t \in Threads : recording[t].stage = "Failed" => recording'[t].stage = "Failed"
    BY <2>1 DEF IInv, FileInv, FileTypeOK, FewLinesWait, RetentionKept, file
  <2>2. CASE \E t \in Threads : AppendLine(t)
    BY <2>2, AppendKeeps
  <2>3. CASE \E t \in Threads : AppendFails(t)
    BY <2>3, AppendFailsKeeps
  <2>4. CASE (\E t \in Threads : SetFileError(t)) \/ ClearLogs \/ BeginExport
    BY <2>4, FileKeeps
  <2>5. ASSUME NEW t \in Threads, NEW fine \in BOOLEAN, NEW holds \in SUBSET Secrets,
               Record(t, fine, holds) \/ Remember(t)
        PROVE  UNCHANGED file /\ \A u \in Threads : recording[u].stage = "Failed" => recording'[u].stage = "Failed"
    BY <2>5 DEF Record, Remember, IInv, RecordingInv, Idle
  <2>6. CASE UNCHANGED vars \/ (\E s \in Secrets : RegisterSecret(s)) \/ ToggleDetailed
             \/ (\E d \in Days : ClockShows(d)) \/ ClearMemory \/ ExportMemory \/ EndExport
             \/ (\E d \in Days : ExportLog(d))
    <3>1. UNCHANGED <<file, recording>>
      BY <2>6 DEF vars, RegisterSecret, ToggleDetailed, ClockShows, ClearMemory, ExportMemory, EndExport, ExportLog
    <3> QED BY <2>1, <3>1
  <2>7. \/ \E t \in Threads, fine \in BOOLEAN, holds \in SUBSET Secrets : Record(t, fine, holds) \/ Remember(t)
        \/ \E t \in Threads : AppendLine(t)
        \/ \E t \in Threads : AppendFails(t)
        \/ (\E t \in Threads : SetFileError(t)) \/ ClearLogs \/ BeginExport
        \/ UNCHANGED vars \/ (\E s \in Secrets : RegisterSecret(s)) \/ ToggleDetailed
        \/ (\E d \in Days : ClockShows(d)) \/ ClearMemory \/ ExportMemory \/ EndExport
        \/ (\E d \in Days : ExportLog(d))
    BY DEF Next
  <2> QED BY <2>1, <2>2, <2>3, <2>4, <2>5, <2>6, <2>7
<1> QED BY <1>1, RecordingKeeps, MemoryKeeps, BundleKeeps DEF IInv

LEMMA Invariant == Sizes => (Spec => []IInv)
<1> SUFFICES ASSUME Sizes PROVE Spec => []IInv  OBVIOUS
<1>1. Init => IInv
  BY InitOK
<1>2. IInv /\ [Next]_vars => IInv'
  BY StepOK
<1> QED BY <1>1, <1>2, PTL DEF Spec

-----------------------------------------------------------------------------
(* What follows.                                                           *)

\* The store, its log and its exports keep their types.
THEOREM DiagnosticsTypeCorrect == Sizes => (Spec => []DiagnosticsTypeOK)
<1>1. IInv => DiagnosticsTypeOK
  BY DEF IInv, FileInv, FileTypeOK, RecordingInv, MemoryInv, BundleInv, DiagnosticsTypeOK
<1> QED BY <1>1, Invariant, PTL

\* However many threads record, the memory stays within its capacity (lib.rs:524).
THEOREM MemoryAlwaysBounded == Sizes => (Spec => []MemoryBounded)
<1>1. IInv => MemoryBounded
  BY DEF IInv, MemoryInv
<1> QED BY <1>1, Invariant, PTL

\* A crash loses fewer lines than one flush writes (lib.rs:571).
THEOREM FewLinesAlwaysWait == Sizes => (Spec => []FewLinesWait)
<1>1. IInv => FewLinesWait
  BY DEF IInv, FileInv
<1> QED BY <1>1, Invariant, PTL

\* An open log stands beside no log older than the retention (lib.rs:554).
THEOREM RetentionAlwaysKept == Sizes => (Spec => []RetentionKept)
<1>1. IInv => RetentionKept
  BY DEF IInv, FileInv
<1> QED BY <1>1, Invariant, PTL

\* No bundle holds what was registered when its export began (lib.rs:444, :474).
THEOREM BundleAlwaysClean == Sizes => (Spec => []BundleClean)
<1>1. IInv => BundleClean
  BY DEF IInv, BundleInv
<1> QED BY <1>1, Invariant, PTL

-----------------------------------------------------------------------------
(* Updates: what holds in every state.                                     *)

\* What a check has found, before the window takes it; and the package of a download.
FoundOK ==
  /\ task.found # NoRelease =>
       /\ task.job = "Checking" /\ task.found.version > Current
       /\ task.found.package # NoPackage => task.found.package.version = task.found.version
  /\ task.job = "Checking" => task.package = NoPackage
  /\ task.job = "Downloading" => task.package # NoPackage

Linked == OneTask /\ DownloadMatchesOffer /\ TemporaryBounded /\ OffersNewer /\ FoundOK

UpdatesInv == UpdatesTypeOK /\ Linked

USE DEF NoTask, NoRelease, NoPackage, NoFile

LEMMA UpdatesInitOK == UpdatesInit => UpdatesInv
<1> SUFFICES ASSUME UpdatesInit PROVE UpdatesInv  OBVIOUS
<1>1. UpdatesTypeOK
  <2>1. NoFile \in Files
    BY DEF Files
  <2>2. disk \in [Versions -> Files]
    BY <2>1 DEF UpdatesInit
  <2> QED BY <2>2 DEF UpdatesInit, UpdatesTypeOK, Status
<1>2. Linked
  BY DEF UpdatesInit, Linked, OneTask, DownloadMatchesOffer, TemporaryBounded, OffersNewer, FoundOK, Jobs
<1> QED BY <1>1, <1>2 DEF UpdatesInv

-----------------------------------------------------------------------------
(* The worker.                                                             *)

\* An answer leaves the rest of a task as it was.
LEMMA AnswerKeeps ==
  ASSUME UpdatesTypeOK, task.job \in Jobs, NEW kind \in Answers, Answer(kind)
  PROVE  /\ task' \in Tasks /\ task'.answer = kind
         /\ task'.job = task.job /\ task'.package = task.package /\ task'.found = task.found
<1>1. task \in Tasks
  BY DEF UpdatesTypeOK, Jobs
<1> QED BY <1>1 DEF Answer, Tasks

\* What a check finds is no release, or one that is newer, with its own package or none.
LEMMA CheckFinds ==
  ASSUME UpdatesTypeOK, Check
  PROVE  /\ task' \in Tasks /\ task'.job = "Checking" /\ task'.package = task.package
         /\ task'.answer \in {"Ok", "Failed"}
         /\ \/ task'.found = task.found
            \/ /\ task'.found \in Releases /\ task'.found.version > Current
               /\ task'.found.package # NoPackage => task'.found.package.version = task'.found.version
<1>1. task \in Tasks /\ task.job = "Checking"
  BY DEF UpdatesTypeOK, Check
<1>2. CASE task' = [task EXCEPT !.answer = "Ok"]
  BY <1>1, <1>2 DEF Tasks, Answers
<1>3. CASE Answer("Failed")
  BY <1>1, <1>3 DEF Answer, Tasks, Answers
<1>4. ASSUME NEW p \in Published, Newer(p),
             task' = [task EXCEPT !.answer = "Ok", !.found = With(p, NoPackage)]
      PROVE  task' \in Tasks /\ task'.job = "Checking" /\ task'.package = task.package
             /\ task'.answer = "Ok" /\ task'.found = With(p, NoPackage)
             /\ With(p, NoPackage) \in Releases
             /\ With(p, NoPackage).version > Current /\ With(p, NoPackage).package = NoPackage
  <2>1. With(p, NoPackage) \in Releases
    BY DEF With, Releases, Published
  <2> QED BY <1>1, <1>4, <2>1 DEF Tasks, Answers, With, Newer
<1>5. ASSUME NEW p \in Published, Newer(p), Bounded(p), p.sha # 0,
             task' = [task EXCEPT !.answer = "Ok", !.found = With(p, Offer(p))]
      PROVE  task' \in Tasks /\ task'.job = "Checking" /\ task'.package = task.package
             /\ task'.answer = "Ok" /\ task'.found = With(p, Offer(p))
             /\ With(p, Offer(p)) \in Releases
             /\ With(p, Offer(p)).version > Current
             /\ With(p, Offer(p)).package.version = With(p, Offer(p)).version
  <2>1. Offer(p) \in Packages
    BY <1>5 DEF Offer, Packages, Published, Bounded
  <2>2. With(p, Offer(p)) \in Releases
    BY <2>1 DEF With, Releases, Published
  <2> QED BY <1>1, <1>5, <2>2 DEF Tasks, Answers, With, Offer, Newer
<1>6. CASE \E p \in Published : ParseRelease(p) \/ CheckPublicRelease(p)
  <2> PICK p \in Published : ParseRelease(p) \/ CheckPublicRelease(p)
    BY <1>6
  <2>1. \/ task' = [task EXCEPT !.answer = "Ok"]
        \/ Answer("Failed")
        \/ Newer(p) /\ task' = [task EXCEPT !.answer = "Ok", !.found = With(p, NoPackage)]
        \/ /\ Newer(p) /\ Bounded(p) /\ p.sha # 0
           /\ task' = [task EXCEPT !.answer = "Ok", !.found = With(p, Offer(p))]
    BY DEF ParseRelease, CheckPublicRelease
  <2> QED BY <2>1, <1>2, <1>3, <1>4, <1>5
<1> QED BY <1>2, <1>6 DEF Check

LEMMA WorkerKeeps ==
  ASSUME UpdatesInv, WorkerStep
  PROVE  UpdatesInv'
<1> USE DEF UpdatesInv, Linked
<1>1. CASE Check
  <2>1. UpdatesTypeOK'
    BY <1>1, CheckFinds DEF Check, UpdatesTypeOK, window, worker
  <2>2. Linked'
    BY <1>1, CheckFinds DEF Check, window, worker, OneTask, DownloadMatchesOffer, TemporaryBounded,
       OffersNewer, FoundOK, Jobs, UpdatesTypeOK
  <2> QED BY <2>1, <2>2
<1>2. CASE OpenTemporary
  <2>1. UpdatesTypeOK'
    BY <1>2 DEF OpenTemporary, UpdatesTypeOK, window
  <2>2. task.package.size \in Nat
    BY <1>2 DEF OpenTemporary, Downloading, UpdatesTypeOK, Tasks, Packages
  <2>3. Linked'
    BY <1>2, <2>2 DEF OpenTemporary, Downloading, window, OneTask, DownloadMatchesOffer, TemporaryBounded,
       OffersNewer, FoundOK
  <2> QED BY <2>1, <2>3
<1>3. CASE ReceiveChunk /\ received' = received + 1 /\ received < task.package.size
                        /\ UNCHANGED <<task, temporary>>
  <2>1. UpdatesTypeOK'
    BY <1>3 DEF ReceiveChunk, UpdatesTypeOK, window
  <2>2. task.package.size \in Nat
    BY <1>3 DEF ReceiveChunk, Downloading, UpdatesTypeOK, Tasks, Packages
  <2>3. Linked'
    BY <1>3, <2>2 DEF ReceiveChunk, Downloading, window, OneTask, DownloadMatchesOffer, TemporaryBounded,
       OffersNewer, FoundOK, UpdatesTypeOK
  <2> QED BY <2>1, <2>3
<1>4. ASSUME NEW kind \in {"Ok", "Failed", "Cancelled", "Panicked"},
             task.job \in Jobs, Answer(kind), temporary' = FALSE, received' = 0, UNCHANGED window,
             disk' \in [Versions -> Files]
      PROVE  UpdatesInv'
  <2>1. /\ task' \in Tasks /\ task'.answer = kind
        /\ task'.job = task.job /\ task'.package = task.package /\ task'.found = task.found
    BY <1>4, AnswerKeeps DEF Answers
  <2>2. UpdatesTypeOK'
    BY <1>4, <2>1 DEF UpdatesTypeOK, window
  <2>3. OneTask' /\ OffersNewer'
    BY <1>4, <2>1 DEF window, OneTask, OffersNewer, Jobs
  <2>4. DownloadMatchesOffer' /\ TemporaryBounded' /\ FoundOK'
    BY <1>4, <2>1 DEF window, DownloadMatchesOffer, TemporaryBounded, FoundOK
  <2> QED BY <2>2, <2>3, <2>4
<1>5. ASSUME NEW sha \in Digests, Persist(sha)
      PROVE  UpdatesInv'
  <2>1. task.job \in Jobs /\ UNCHANGED window /\ temporary' = FALSE /\ received' = 0
    BY <1>5 DEF Persist, Downloading, Jobs
  <2>2. disk' \in [Versions -> Files]
    <3>1. [size |-> received, sha |-> sha] \in Files
      BY DEF Files, UpdatesTypeOK
    <3> QED BY <1>5, <3>1 DEF Persist, UpdatesTypeOK
  <2>3. Answer("Ok") \/ Answer("Failed")
    BY <1>5 DEF Persist
  <2> QED BY <1>4, <2>1, <2>2, <2>3
<1>6. CASE Verify
  <2>1. task.job \in Jobs /\ UNCHANGED <<window, worker>> /\ ~temporary /\ received = 0
    BY <1>6 DEF Verify, Jobs, TemporaryBounded
  <2>2. Answer("Ok") \/ Answer("Failed")
    BY <1>6 DEF Verify
  <2>3. temporary' = FALSE /\ received' = 0 /\ UNCHANGED window /\ disk' \in [Versions -> Files]
    BY <2>1 DEF worker, UpdatesTypeOK
  <2> QED BY <1>4, <2>1, <2>2, <2>3
<1>7. CASE SeeCancel \/ (\E kind \in {"Failed", "Panicked"} : WorkerFails(kind)) \/ (ReceiveChunk /\ Answer("Failed") /\ temporary' = FALSE /\ received' = 0)
  <2>1. task.job \in Jobs /\ UNCHANGED window /\ temporary' = FALSE /\ received' = 0
        /\ disk' \in [Versions -> Files]
    BY <1>7 DEF SeeCancel, WorkerFails, ReceiveChunk, Downloading, Jobs, UpdatesTypeOK
  <2>2. Answer("Cancelled") \/ Answer("Failed") \/ Answer("Panicked")
    BY <1>7 DEF SeeCancel, WorkerFails
  <2> QED BY <1>4, <2>1, <2>2
<1> QED BY <1>1, <1>2, <1>3, <1>5, <1>6, <1>7 DEF WorkerStep, ReceiveChunk

-----------------------------------------------------------------------------
(* The window.                                                             *)

LEMMA SettingsKeep ==
  ASSUME UpdatesInv,
         ScheduleUpdateCheck \/ (\E enabled \in BOOLEAN : SetAutomaticUpdates(enabled)) \/ Outside
  PROVE  UpdatesInv'
<1> USE DEF UpdatesInv, Linked
<1>1. UNCHANGED <<status, release, downloaded, stop, opened, task, temporary, received>>
  BY DEF ScheduleUpdateCheck, SetAutomaticUpdates, Outside, DayPasses, ChangeFile, window, worker
<1>2. automatic' \in BOOLEAN /\ due' \in BOOLEAN /\ scheduled' \in BOOLEAN /\ (scheduled' => automatic')
  <2> USE DEF UpdatesTypeOK, OneTask
  <2>1. CASE ScheduleUpdateCheck
    BY <2>1, Zenon DEF ScheduleUpdateCheck
  <2>2. CASE \E enabled \in BOOLEAN : SetAutomaticUpdates(enabled)
    <3> PICK enabled \in BOOLEAN : SetAutomaticUpdates(enabled)
      BY <2>2
    <3>1. automatic' = enabled /\ scheduled' = enabled /\ due' = due
      BY DEF SetAutomaticUpdates
    <3> QED BY <3>1, Zenon
  <2>3. CASE Outside
    <3>1. automatic' = automatic /\ scheduled' = scheduled /\ (due' = due \/ due' = TRUE)
      BY <2>3 DEF Outside, DayPasses, ChangeFile, window
    <3> QED BY <3>1, Zenon
  <2> QED BY <2>1, <2>2, <2>3
<1>3. disk' \in [Versions -> Files]
  <2>1. CASE \E v \in Versions, content \in [size : 1..MaxPackage, sha : Digests] \cup {NoFile} :
               ChangeFile(v, content)
    <3> PICK v \in Versions, content \in [size : 1..MaxPackage, sha : Digests] \cup {NoFile} :
               ChangeFile(v, content)
      BY <2>1
    <3>1. content \in Files
      BY DEF Files
    <3> QED BY <3>1 DEF ChangeFile, UpdatesTypeOK
  <2> QED BY <2>1 DEF ScheduleUpdateCheck, SetAutomaticUpdates, Outside, DayPasses, worker, UpdatesTypeOK
<1>4. UpdatesTypeOK'
  BY <1>1, <1>2, <1>3 DEF UpdatesTypeOK
<1>5. Linked'
  BY <1>1, <1>2 DEF OneTask, DownloadMatchesOffer, TemporaryBounded, OffersNewer, FoundOK
<1> QED BY <1>4, <1>5

\* A task begins only when none runs, for what is offered.
LEMMA StartKeeps ==
  ASSUME UpdatesInv,
         (\E manual \in BOOLEAN : CheckForUpdates(manual)) \/ DownloadUpdate \/ CancelDownload \/ OpenUpdate
  PROVE  UpdatesInv'
<1> USE DEF UpdatesInv, Linked
<1>1. CASE CancelDownload
  <2>1. UpdatesTypeOK'
    BY <1>1 DEF CancelDownload, UpdatesTypeOK, worker
  <2>2. Linked'
    BY <1>1 DEF CancelDownload, worker, OneTask, DownloadMatchesOffer, TemporaryBounded, OffersNewer, FoundOK
  <2> QED BY <2>1, <2>2
<1>2. ASSUME NEW job \in Jobs, NEW package \in Packages \cup {NoPackage}, Start(job, package)
      PROVE  /\ task' \in Tasks /\ task'.job = job /\ task'.package = package /\ status' = job
             /\ task'.answer = "Working" /\ task'.found = NoRelease
  BY <1>2 DEF Start, Tasks, Answers
<1>3. release.package \in Packages \cup {NoPackage}
  BY DEF UpdatesTypeOK, Releases
<1>4. CASE \E manual \in BOOLEAN : CheckForUpdates(manual)
  <2>1. /\ ~Busy /\ Start("Checking", NoPackage) /\ due' = FALSE
        /\ UNCHANGED <<automatic, scheduled, release, downloaded, stop, opened, worker>>
    BY <1>4 DEF CheckForUpdates
  <2>2. /\ task' \in Tasks /\ task'.job = "Checking" /\ task'.package = NoPackage /\ status' = "Checking"
        /\ task'.found = NoRelease
    BY <1>2, <2>1 DEF Jobs
  <2>3. task = NoTask /\ ~temporary /\ received = 0 /\ stop = "none"
    BY <2>1 DEF Busy, OneTask, TemporaryBounded, Jobs
  <2>4. UpdatesTypeOK'
    BY <2>1, <2>2 DEF UpdatesTypeOK, worker, Status, Jobs
  <2>5. Linked'
    BY <2>1, <2>2, <2>3 DEF worker, OneTask, DownloadMatchesOffer, TemporaryBounded, OffersNewer, FoundOK, Jobs
  <2> QED BY <2>4, <2>5
<1>5. CASE DownloadUpdate
  <2>1. /\ task' \in Tasks /\ task'.job = "Downloading" /\ task'.package = release.package
        /\ status' = "Downloading" /\ task'.found = NoRelease
    BY <1>2, <1>3, <1>5 DEF DownloadUpdate, Jobs
  <2>2. ~temporary /\ received = 0
    BY <1>5 DEF DownloadUpdate, Busy, OneTask, TemporaryBounded, Jobs
  <2>3. UpdatesTypeOK'
    BY <1>5, <2>1 DEF DownloadUpdate, UpdatesTypeOK, worker, Status, Jobs
  <2>4. Linked'
    BY <1>5, <2>1, <2>2 DEF DownloadUpdate, worker, OneTask, DownloadMatchesOffer, TemporaryBounded,
       OffersNewer, FoundOK, Jobs
  <2> QED BY <2>3, <2>4
<1>6. CASE OpenUpdate
  <2>1. /\ task' \in Tasks /\ task'.job = "Verifying" /\ task'.package = release.package
        /\ status' = "Verifying" /\ task'.found = NoRelease
    BY <1>2, <1>3, <1>6 DEF OpenUpdate, Jobs
  <2>2. ~temporary /\ received = 0 /\ stop = "none"
    BY <1>6 DEF OpenUpdate, Busy, OneTask, TemporaryBounded, Jobs
  <2>3. UpdatesTypeOK'
    BY <1>6, <2>1 DEF OpenUpdate, UpdatesTypeOK, worker, Status, Jobs
  <2>4. Linked'
    BY <1>6, <2>1, <2>2 DEF OpenUpdate, worker, OneTask, DownloadMatchesOffer, TemporaryBounded,
       OffersNewer, FoundOK, Jobs
  <2> QED BY <2>3, <2>4
<1> QED BY <1>1, <1>4, <1>5, <1>6

\* A result is taken by the handler of its own job, while nothing else runs.
LEMMA TakeKeeps ==
  ASSUME UpdatesInv, TakeRelease \/ TakeDownload \/ TakeVerification
  PROVE  UpdatesInv'
<1> USE DEF UpdatesInv, Linked
<1>1. task' = NoTask /\ task \in Tasks /\ task.job \in Jobs /\ task.answer # "Working"
  BY DEF TakeRelease, TakeDownload, TakeVerification, UpdatesTypeOK, Jobs
<1>2. status' \in Status \ Jobs
  BY DEF TakeRelease, TakeDownload, TakeVerification, UpdateError, Status, Jobs
<1>3. ~temporary /\ received = 0 /\ UNCHANGED <<automatic, due, scheduled, worker>>
  BY <1>1 DEF TakeRelease, TakeDownload, TakeVerification, TemporaryBounded
<1>4. /\ release' \in Releases \cup {NoRelease} /\ downloaded' \in Versions \cup {0}
      /\ opened' \in Packages \cup {NoPackage} /\ stop' = "none"
      /\ downloaded' # 0 => release'.package # NoPackage /\ downloaded' = release'.package.version
      /\ OffersNewer'
  <2>1. CASE TakeRelease
    <3>1. task.found \in Releases \cup {NoRelease} /\ stop = "none"
      BY <1>1, <2>1 DEF TakeRelease, Tasks, OneTask, Jobs
    <3> QED BY <2>1, <3>1 DEF TakeRelease, UpdatesTypeOK, OffersNewer, FoundOK, DownloadMatchesOffer
  <2>2. CASE TakeDownload
    <3>1. task.package \in Packages /\ task.package = release.package /\ task.package # NoPackage
      BY <1>1, <2>2 DEF TakeDownload, Tasks, DownloadMatchesOffer, FoundOK
    <3>2. task.package.version \in Versions
      BY <3>1 DEF Packages
    <3> QED BY <2>2, <3>1, <3>2 DEF TakeDownload, UpdatesTypeOK, OffersNewer, DownloadMatchesOffer
  <2>3. CASE TakeVerification
    <3>1. task.package \in Packages \cup {NoPackage} /\ stop = "none"
      BY <1>1, <2>3 DEF TakeVerification, Tasks, OneTask, Jobs
    <3> QED BY <2>3, <3>1 DEF TakeVerification, UpdatesTypeOK, OffersNewer, DownloadMatchesOffer
  <2> QED BY <2>1, <2>2, <2>3
<1>5. UpdatesTypeOK'
  BY <1>1, <1>2, <1>3, <1>4 DEF UpdatesTypeOK, worker
<1>6. Linked'
  BY <1>1, <1>2, <1>3, <1>4 DEF worker, OneTask, DownloadMatchesOffer, TemporaryBounded, FoundOK, Jobs
<1> QED BY <1>5, <1>6

LEMMA UpdatesStepOK == UpdatesInv /\ [UpdatesNext]_updateVars => UpdatesInv'
<1> SUFFICES ASSUME UpdatesInv, [UpdatesNext]_updateVars PROVE UpdatesInv'  OBVIOUS
<1>1. CASE UNCHANGED updateVars
  BY <1>1 DEF updateVars, UpdatesInv, Linked, UpdatesTypeOK, OneTask, DownloadMatchesOffer, TemporaryBounded, OffersNewer, FoundOK
<1>2. CASE WorkerStep
  BY <1>2, WorkerKeeps
<1>3. CASE WindowStep
  BY <1>3, SettingsKeep, StartKeeps, TakeKeeps DEF WindowStep
<1>4. CASE Outside
  BY <1>4, SettingsKeep
<1> QED BY <1>1, <1>2, <1>3, <1>4 DEF UpdatesNext

LEMMA UpdatesInvariant == UpdatesSpec => []UpdatesInv
BY UpdatesInitOK, UpdatesStepOK, PTL DEF UpdatesSpec

-----------------------------------------------------------------------------
(* What follows.                                                           *)

\* The state of the updater keeps its types.
THEOREM UpdatesTypeCorrect == UpdatesSpec => []UpdatesTypeOK
BY UpdatesInvariant, PTL DEF UpdatesInv

\* One task at a time, and the status says which (updates.rs:28).
THEOREM OneTaskAtATime == UpdatesSpec => []OneTask
BY UpdatesInvariant, PTL DEF UpdatesInv, Linked

\* The file that can be opened is the one of the release that is offered, whatever checks,
\* downloads and verifications came before (updates.rs:150, :207).
THEOREM DownloadAlwaysMatchesOffer == UpdatesSpec => []DownloadMatchesOffer
BY UpdatesInvariant, PTL DEF UpdatesInv, Linked

\* A temporary file goes with its download (remcmd-update lib.rs:442).
THEOREM TemporaryAlwaysBounded == UpdatesSpec => []TemporaryBounded
BY UpdatesInvariant, PTL DEF UpdatesInv, Linked

\* Nothing that is not newer is offered (remcmd-update lib.rs:151, :281).
THEOREM AlwaysOffersNewer == UpdatesSpec => []OffersNewer
BY UpdatesInvariant, PTL DEF UpdatesInv, Linked

\* What is handed to the system is what is offered, verified for this opening
\* (remcmd-update lib.rs:474).
THEOREM AlwaysOpensVerified == UpdatesSpec => OpensVerified
<1>1. UpdatesInv /\ [UpdatesNext]_updateVars =>
        [opened' # opened =>
           /\ opened' = release.package /\ downloaded = opened'.version
           /\ task.job = "Verifying" /\ task.answer = "Ok"]_updateVars
  <2> SUFFICES ASSUME UpdatesInv, UpdatesNext, opened' # opened
               PROVE  /\ opened' = release.package /\ downloaded = opened'.version
                      /\ task.job = "Verifying" /\ task.answer = "Ok"
    BY DEF updateVars
  <2>1. TakeVerification
    BY DEF UpdatesNext, WorkerStep, WindowStep, Outside, Check, OpenTemporary, ReceiveChunk, SeeCancel, Verify,
       Persist, WorkerFails, ScheduleUpdateCheck, SetAutomaticUpdates, CheckForUpdates, DownloadUpdate,
       CancelDownload, OpenUpdate, TakeRelease, TakeDownload, DayPasses, ChangeFile, window
  <2>2. task.answer = "Ok" /\ opened' = task.package /\ task.job = "Verifying"
    BY <2>1 DEF TakeVerification
  <2> QED BY <2>2 DEF UpdatesInv, Linked, DownloadMatchesOffer
<1> QED BY <1>1, UpdatesInvariant, PTL DEF UpdatesSpec, OpensVerified
=============================================================================

-------------------------- MODULE TransferPromise --------------------------
(***************************************************************************)
(* What RemCmd promises about file transfers, without saying how.          *)
(*                                                                         *)
(* A transfer is submitted once.  It waits, runs in one of `slots` slots,  *)
(* may stop to ask about an existing destination, and settles.  A settled  *)
(* transfer never runs again, a forgotten one never comes back, and the    *)
(* only step that fills a slot finds one free.                             *)
(***************************************************************************)
EXTENDS Integers, FiniteSets

CONSTANTS
  Tasks,    \* every transfer that may ever be submitted
  Limits    \* the slot counts a user can choose

VARIABLES
  phase,    \* Tasks -> Phases
  slots     \* the slot count in force

pvars == <<phase, slots>>

Pending == {"Waiting", "Active", "Asking"}
Phases  == Pending \union {"Unborn", "Settled", "Gone"}

Occupied == {t \in Tasks : phase[t] = "Active"}

PromiseInit ==
  /\ phase = [t \in Tasks |-> "Unborn"]
  /\ slots \in Limits

\* Moves the tasks of S, all in a phase of `from`, to the phase `to`.
Advance(S, from, to) ==
  /\ \A t \in S : phase[t] \in from
  /\ phase' = [t \in Tasks |-> IF t \in S THEN to ELSE phase[t]]
  /\ UNCHANGED slots

Submit(t) == Advance({t}, {"Unborn"}, "Waiting")

\* The one step that fills a slot.
Start(t) ==
  /\ Cardinality(Occupied) < slots
  /\ Advance({t}, {"Waiting"}, "Active")

Ask(t)   == Advance({t}, {"Active"}, "Asking")
Retry(t) == Advance({t}, {"Asking"}, "Waiting")

\* One transfer ends, or a lost connection ends many at once.
Settle(S) == Advance(S, Pending, "Settled")

\* The user clears finished transfers, or a whole session leaves the window.
Forget(S) == Advance(S, Pending \union {"Settled"}, "Gone")

ChangeSlots(n) ==
  /\ slots' = n
  /\ UNCHANGED phase

PromiseNext ==
  \/ \E t \in Tasks : Submit(t) \/ Start(t) \/ Ask(t) \/ Retry(t)
  \/ \E S \in SUBSET Tasks : Settle(S) \/ Forget(S)
  \/ \E n \in Limits : ChangeSlots(n)

PromiseSpec == PromiseInit /\ [][PromiseNext]_pvars
=============================================================================

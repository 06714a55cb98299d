-------------------------- MODULE MCTransferQueue --------------------------
(***************************************************************************)
(* TransferQueue for TLC.  What waits in a command channel, and with which *)
(* overwrite flag, neither enables nor changes anything but the channels   *)
(* themselves while the workers are left open, so two states that differ   *)
(* only there count as one; no bound on the channels is needed.  The last  *)
(* component is always TRUE: it has TLC evaluate in full the two functions *)
(* it would otherwise keep unevaluated and could not write to its queue.   *)
(***************************************************************************)
EXTENDS TransferQueue

QueueView == <<nextSession, open, link, closing, generation, handle, state,
               nextId, limit, cursor, scheduling, listening,
               overwrite \in [Tasks -> BOOLEAN] /\ commands \in [Connections -> Seq(Commands)]>>
=============================================================================

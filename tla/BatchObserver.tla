--------------------------- MODULE BatchObserver ---------------------------
(***************************************************************************)
(* What `VmObserver::batch_iter` promises to its caller (an oracle).       *)
(*                                                                         *)
(* The caller opens an iterator over a batch of observation requests,      *)
(* calls `next` on it any number of times and drops it whenever it likes.  *)
(* Call number k of the batch returns the result of request number k of    *)
(* this batch; `None` is returned only after the whole batch has been      *)
(* observed.  A call fails (panics) only when the virtual machine is dead. *)
(* Nothing of queues, frames or of earlier, dropped batches is visible.    *)
(***************************************************************************)
EXTENDS Naturals

CONSTANTS MaxBatches,  \* number of batches opened in a behaviour
          MaxBatch     \* number of requests in a batch

VARIABLES phase,    \* where the caller is in the protocol
          batch,    \* number of the current batch, 0 before the first
          total,    \* number of requests of the current batch
          returned, \* number of results returned for the current batch
          out,      \* what the last call returned
          vmAlive   \* FALSE once the virtual machine has died

avars == <<phase, batch, total, returned, out, vmAlive>>

Nothing == [kind |-> "nothing"]
None    == [kind |-> "none"]
Result(b, i) == [kind |-> "result", batch |-> b, index |-> i]

AInit == /\ phase = "idle"
         /\ batch = 0
         /\ total = 0
         /\ returned = 0
         /\ out = Nothing
         /\ vmAlive = TRUE

(* `batch_iter` is called; it may block before the iterator is handed out. *)
AOpen == /\ phase = "idle"
         /\ batch < MaxBatches
         /\ phase' = "opening"
         /\ batch' = batch + 1
         /\ total' \in 0 .. MaxBatch
         /\ returned' = 0
         /\ out' = Nothing
         /\ UNCHANGED vmAlive

AOpened == /\ phase = "opening"
           /\ phase' = "open"
           /\ UNCHANGED <<batch, total, returned, out, vmAlive>>

ACall == /\ phase = "open"
         /\ phase' = "calling"
         /\ out' = Nothing
         /\ UNCHANGED <<batch, total, returned, vmAlive>>

AReturn == /\ phase = "calling"
           /\ returned < total
           /\ phase' = "open"
           /\ returned' = returned + 1
           /\ out' = Result(batch, returned + 1)
           /\ UNCHANGED <<batch, total, vmAlive>>

AReturnNone == /\ phase = "calling"
               /\ returned = total
               /\ phase' = "open"
               /\ out' = None
               /\ UNCHANGED <<batch, total, returned, vmAlive>>

ADrop == /\ phase = "open"
         /\ phase' = "idle"
         /\ total' = 0 /\ returned' = 0
         /\ out' = Nothing
         /\ UNCHANGED <<batch, vmAlive>>

AFail == /\ phase \in {"opening", "calling"}
         /\ ~vmAlive
         /\ phase' = "failed"
         /\ UNCHANGED <<batch, total, returned, out, vmAlive>>

AVmDies == /\ vmAlive
           /\ vmAlive' = FALSE
           /\ UNCHANGED <<phase, batch, total, returned, out>>

ANext == \/ AOpen \/ AOpened \/ ACall \/ AReturn \/ AReturnNone
         \/ ADrop \/ AFail \/ AVmDies

ASpec == AInit /\ [][ANext]_avars
=============================================================================

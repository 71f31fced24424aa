----------------------------- MODULE TimerQueue -----------------------------
(***************************************************************************)
(* What a timer scheduler promises to its users: timers are pending until  *)
(* they are cancelled or fire; a timer never fires before its deadline; of *)
(* the pending timers the one that fires has the earliest deadline; timers *)
(* fire one after the other; nothing else adds, removes or re-times a      *)
(* timer.  How the timers are stored does not appear here.  TimerSched     *)
(* implements this specification.                                          *)
(***************************************************************************)
EXTENDS Integers

CONSTANTS Ids,      \* timer ids that can be handed out
          Delays,   \* millisecond arguments of AddTimer
          NULL      \* no timer

VARIABLES time,     \* the millisecond clock
          fresh,    \* ids that were never handed out
          pending,  \* ids of the timers that wait for their deadline
          deadline, \* deadline of every id handed out
          firing,   \* the timer that is being fired, or NULL
          closed    \* the scheduler was destroyed

qvars == <<time, fresh, pending, deadline, firing, closed>>

QInit == /\ time \in Nat
         /\ fresh = Ids
         /\ pending = {}
         /\ deadline \in [Ids -> Int]
         /\ firing = NULL
         /\ closed = FALSE

QTick == /\ time' = time + 1
         /\ UNCHANGED <<fresh, pending, deadline, firing, closed>>

\* A new timer takes an id nobody has used before.
QAdd(id, ms) == /\ ~closed
                /\ id \in fresh
                /\ fresh' = fresh \ {id}
                /\ pending' = pending \cup {id}
                /\ deadline' = [deadline EXCEPT ![id] = time + ms]
                /\ UNCHANGED <<time, firing, closed>>

QCancel(id) == /\ ~closed
               /\ id \in pending
               /\ pending' = pending \ {id}
               /\ UNCHANGED <<time, fresh, deadline, firing, closed>>

\* The earliest of the pending timers fires, once its deadline has passed.
QFire(id) == /\ ~closed
             /\ firing = NULL
             /\ id \in pending
             /\ deadline[id] <= time
             /\ \A other \in pending : deadline[id] <= deadline[other]
             /\ pending' = pending \ {id}
             /\ firing' = id
             /\ UNCHANGED <<time, fresh, deadline, closed>>

\* Its callback, if it has one, has returned.
QDone == /\ firing # NULL
         /\ firing' = NULL
         /\ UNCHANGED <<time, fresh, pending, deadline, closed>>

QClose == /\ ~closed
          /\ firing = NULL
          /\ closed' = TRUE
          /\ pending' = {}
          /\ UNCHANGED <<time, fresh, deadline, firing>>

QNext == \/ QTick
         \/ \E id \in Ids, ms \in Delays : QAdd(id, ms)
         \/ \E id \in Ids : QCancel(id) \/ QFire(id)
         \/ QDone
         \/ QClose

QSpec == QInit /\ [][QNext]_qvars
=============================================================================

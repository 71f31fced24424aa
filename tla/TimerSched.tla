----------------------------- MODULE TimerSched -----------------------------
(***************************************************************************)
(* The timer scheduler every poller and I/O service inherits               *)
(* (src/src/TimerSched.cpp): a binary min-heap of TimerEntry pointers      *)
(* ordered by expiry, and the map ref_ from timer ids to entries.          *)
(*                                                                         *)
(* The code is single-threaded, but UpdateTimer calls back into user code  *)
(* between two iterations of its loop, and the callback may call AddTimer  *)
(* and CancelTimer.  One step is one iteration of a loop (siftup,          *)
(* siftdown, UpdateTimer) or the straight-line code between two loops; pc  *)
(* says where control is, so a call once begun runs to its end before      *)
(* anything but the clock moves.  A pointer to an entry is the entry's id: *)
(* ids are never reused.  heap_ is indexed from 0, as in the code.         *)
(***************************************************************************)
EXTENDS Integers

CONSTANTS FirstId,    \* initial next_id_ (100 in the code)
          MaxTimers,  \* bound: number of AddTimer calls
          Delays,     \* bound: the millsec arguments callers use
          MaxTick,    \* bound: last value of the millisecond clock
          Sinks,      \* ITimerEvent pointers callers pass, NULL allowed
          NULL        \* nullptr

Ids == FirstId .. (FirstId + MaxTimers - 1)

ASSUME BoundsAssumption == /\ FirstId \in Nat
                           /\ MaxTimers \in Nat
                           /\ MaxTick \in Nat
                           /\ Delays \subseteq Int
ASSUME NullAssumption == NULL \notin Ids

VARIABLES
  clock,      \* GetTickCount64()
  next_id_,   \* id of the next timer
  heap_,      \* the vector of entry pointers, a function on 0 .. heap_size - 1
  heap_size,  \* heap_.size()
  index,      \* TimerEntry::index
  expire,     \* TimerEntry::expire
  sink,       \* TimerEntry::sink
  live,       \* entries allocated and not yet deleted
  ref_,       \* ids that are keys of the map ref_
  pc,         \* where control is
  op,         \* the operation whose sift is running
  x,          \* siftdown's parameter x
  pos,        \* siftdown's i, siftup's j
  now,        \* UpdateTimer's now
  last_id,    \* UpdateTimer's last_id
  entry,      \* UpdateTimer's entry, from its removal to its delete
  victim      \* CancelTimer's entry

sched == <<next_id_, last_id, now>>
store == <<index, expire, sink, live, ref_>>
local == <<op, x, pos, entry, victim>>
vars  == <<clock, sched, heap_, heap_size, store, pc, local>>

Slots(n)  == 0 .. (n - 1)
HeapIds   == {heap_[k] : k \in Slots(heap_size)}
Parent(j) == IF j = 0 THEN 0 ELSE (j - 1) \div 2   \* C's (0 - 1) / 2 is 0
Swap(h, i, j) == [h EXCEPT ![i] = h[j], ![j] = h[i]]

\* HEAP_ITEM_LESS
Less(i, j) == expire[heap_[i]] < expire[heap_[j]]

\* Control is in user code: the event loop, or a callback of UpdateTimer.
InUserCode == pc = "ready"
InCallback == InUserCode /\ entry # NULL

Init == /\ clock = 0
        /\ next_id_ = FirstId
        /\ heap_ = [k \in Slots(0) |-> FirstId]
        /\ heap_size = 0
        /\ index = [id \in Ids |-> 0]
        /\ expire = [id \in Ids |-> 0]
        /\ sink = [id \in Ids |-> NULL]
        /\ live = {}
        /\ ref_ = {}
        /\ pc = "ready"
        /\ op = "add"
        /\ x = 0
        /\ pos = 0
        /\ now = 0
        /\ last_id = FirstId
        /\ entry = NULL
        /\ victim = NULL

Tick == /\ clock < MaxTick
        /\ clock' = clock + 1
        /\ UNCHANGED <<sched, heap_, heap_size, store, pc, local>>
-----------------------------------------------------------------------------
(* The sifts.  Both callers of siftdown pass n = heap_.size() - 1.  A local*)
(* variable of the code goes back to its initial value when its scope ends.*)

Bottom == heap_size - 1

\* The child siftdown compares slot i with.
SmallerChild(i) ==
  LET j1 == 2 * i + 1
      j2 == j1 + 1
  IN  IF j2 < Bottom /\ ~Less(j1, j2) THEN j2 ELSE j1

\* Mutant: a swap forgets the index of one of the two entries.
SwapForgetsIndex(i, j) == /\ heap_' = Swap(heap_, i, j)
                          /\ index' = [index EXCEPT ![heap_[j]] = i]

SwapSlots(i, j) == /\ heap_' = Swap(heap_, i, j)
                   /\ index' = [index EXCEPT ![heap_[j]] = i, ![heap_[i]] = j]

SiftDownMoves == /\ 2 * pos + 1 < Bottom
                 /\ Less(SmallerChild(pos), pos)

SiftDownStep == /\ pc = "siftdown"
                /\ SiftDownMoves
                /\ SwapSlots(pos, SmallerChild(pos))
                /\ pos' = SmallerChild(pos)
                /\ UNCHANGED <<clock, sched, heap_size, expire, sink, live, ref_,
                               pc, op, x, entry, victim>>

\* Mutant: CancelTimer only sifts down.
SiftDownOnly == /\ pc = "siftdown"
                /\ ~SiftDownMoves
                /\ pc' = "finish"
                /\ pos' = 0
                /\ x' = 0
                /\ UNCHANGED <<clock, sched, heap_, heap_size, store, op, entry, victim>>

\* siftdown returns i > x; CancelTimer sifts up when nothing moved down.
SiftDownEnd == /\ pc = "siftdown"
               /\ ~SiftDownMoves
               /\ IF op = "cancel" /\ pos = x
                    THEN pc' = "siftup" /\ UNCHANGED pos
                    ELSE pc' = "finish" /\ pos' = 0
               /\ x' = 0
               /\ UNCHANGED <<clock, sched, heap_, heap_size, store, op, entry, victim>>

SiftUpMoves == pos # 0 /\ Less(pos, Parent(pos))

SiftUpStep == /\ pc = "siftup"
              /\ SiftUpMoves
              /\ SwapSlots(Parent(pos), pos)
              /\ pos' = Parent(pos)
              /\ UNCHANGED <<clock, sched, heap_size, expire, sink, live, ref_,
                             pc, op, x, entry, victim>>

SiftUpEnd == /\ pc = "siftup"
             /\ ~SiftUpMoves
             /\ pc' = "finish"
             /\ pos' = 0
             /\ UNCHANGED <<clock, sched, heap_, heap_size, store, op, x, entry, victim>>

\* Mutant: the size shrinks and the vector keeps its slot.
PopBackKeepsSlot == heap_size' = heap_size - 1 /\ UNCHANGED heap_

PopBack == /\ heap_size' = heap_size - 1
           /\ heap_' = [k \in Slots(heap_size - 1) |-> heap_[k]]
-----------------------------------------------------------------------------
(* AddTimer *)

AddTimer(millsec, event) ==
  LET id == next_id_ IN
  /\ InUserCode
  /\ id \in Ids
  /\ next_id_' = next_id_ + 1
  /\ live' = live \cup {id}
  /\ expire' = [expire EXCEPT ![id] = clock + millsec]
  /\ sink' = [sink EXCEPT ![id] = event]
  /\ index' = [index EXCEPT ![id] = heap_size]
  /\ ref_' = ref_ \cup {id}
  /\ heap_size' = heap_size + 1
  /\ heap_' = [k \in Slots(heap_size + 1) |-> IF k = heap_size THEN id ELSE heap_[k]]
  /\ pc' = "siftup"
  /\ op' = "add"
  /\ pos' = heap_size
  /\ UNCHANGED <<clock, now, last_id, x, entry, victim>>

AddTimerEnd == /\ pc = "finish"
               /\ op = "add"
               /\ pc' = "ready"
               /\ UNCHANGED <<clock, sched, heap_, heap_size, store, local>>
-----------------------------------------------------------------------------
(* CancelTimer *)

\* The id is not in ref_: early return.
CancelUnknown(id) == /\ InUserCode
                     /\ id \notin ref_
                     /\ UNCHANGED vars

\* ref_ still holds the pointer of an entry that was deleted: what the code
\* does from here on is undefined.
CancelDangling(id) == /\ InUserCode
                      /\ id \in ref_ \ live
                      /\ pc' = "undefined"
                      /\ UNCHANGED <<clock, sched, heap_, heap_size, store, local>>

CancelPending(id) ==
  /\ InUserCode
  /\ id \in ref_ \cap live
  /\ op' = "cancel"
  /\ victim' = id
  /\ IF index[id] # Bottom
       THEN /\ heap_' = Swap(heap_, index[id], Bottom)
            /\ index' = [index EXCEPT ![heap_[Bottom]] = index[id]]
            /\ pc' = "siftdown"
            /\ x' = index[id]
            /\ pos' = index[id]
       ELSE /\ pc' = "finish"
            /\ UNCHANGED <<heap_, index, x, pos>>
  /\ UNCHANGED <<clock, sched, heap_size, expire, sink, live, ref_, entry>>

\* pop_back and delete; the key stays in ref_.
CancelTimerEnd == /\ pc = "finish"
                  /\ op = "cancel"
                  /\ PopBack
                  /\ live' = live \ {victim}
                  /\ victim' = NULL
                  /\ pc' = "ready"
                  /\ UNCHANGED <<clock, sched, index, expire, sink, ref_, op, x, pos, entry>>

CancelTimer(id) == \/ CancelUnknown(id)
                   \/ CancelDangling(id)
                   \/ CancelPending(id)
-----------------------------------------------------------------------------
(* UpdateTimer *)

\* Mutant: last_id is not set when UpdateTimer begins.
UpdateForgetsLastId == /\ InUserCode
                       /\ entry = NULL
                       /\ now' = clock
                       /\ pc' = "loop"
                       /\ UNCHANGED <<clock, next_id_, last_id, heap_, heap_size, store, local>>

UpdateTimer == /\ InUserCode
               /\ entry = NULL
               /\ now' = clock
               /\ last_id' = next_id_
               /\ pc' = "loop"
               /\ UNCHANGED <<clock, next_id_, heap_, heap_size, store, local>>

\* Mutants: a timer is not due in the millisecond it expires; the clock is
\* read again in every iteration; the deadline is not looked at.
TopIsAlwaysDue == heap_size # 0
TopIsOverdue == heap_size # 0 /\ expire[heap_[0]] < now
TopIsDueByClock == heap_size # 0 /\ expire[heap_[0]] <= clock

TopIsDue == heap_size # 0 /\ expire[heap_[0]] <= now

LoopExit == /\ pc = "loop"
            /\ ~TopIsDue
            /\ pc' = "ready"
            /\ now' = 0
            /\ last_id' = FirstId
            /\ UNCHANGED <<clock, next_id_, heap_, heap_size, store, local>>

\* A timer created by a callback of this call: the loop starts over.
CreatedThisCall(id) == id > last_id

LoopContinue == /\ pc = "loop"
                /\ TopIsDue
                /\ CreatedThisCall(heap_[0])
                /\ UNCHANGED vars

PopTop == /\ pc = "loop"
          /\ TopIsDue
          /\ ~CreatedThisCall(heap_[0])
          /\ entry' = heap_[0]
          /\ heap_' = Swap(heap_, 0, Bottom)
          /\ index' = [index EXCEPT ![heap_[Bottom]] = 0]
          /\ op' = "update"
          /\ x' = 0
          /\ pos' = 0
          /\ pc' = "siftdown"
          /\ UNCHANGED <<clock, sched, heap_size, expire, sink, live, ref_, victim>>

\* Mutant: ref_ keeps the id of a timer that fired.
UnlinkKeepsRef == /\ pc = "finish"
                  /\ op = "update"
                  /\ PopBack
                  /\ IF sink[entry] # NULL
                       THEN /\ pc' = "ready"
                            /\ UNCHANGED <<live, entry>>
                       ELSE /\ pc' = "loop"
                            /\ live' = live \ {entry}
                            /\ entry' = NULL
                  /\ UNCHANGED <<clock, sched, index, expire, sink, ref_, op, x, pos, victim>>

\* pop_back, ref_.erase, then OnTimeout, or delete at once without a sink.
Unlink == /\ pc = "finish"
          /\ op = "update"
          /\ PopBack
          /\ ref_' = ref_ \ {entry}
          /\ IF sink[entry] # NULL
               THEN /\ pc' = "ready"
                    /\ UNCHANGED <<live, entry>>
               ELSE /\ pc' = "loop"
                    /\ live' = live \ {entry}
                    /\ entry' = NULL
          /\ UNCHANGED <<clock, sched, index, expire, sink, op, x, pos, victim>>

CallbackReturn == /\ InCallback
                  /\ live' = live \ {entry}
                  /\ entry' = NULL
                  /\ pc' = "loop"
                  /\ UNCHANGED <<clock, sched, heap_, heap_size, index, expire, sink,
                                 ref_, op, x, pos, victim>>
-----------------------------------------------------------------------------
\* ~TimerSched, which runs clear(); ref_ dies with the object.
Destroy == /\ InUserCode
           /\ entry = NULL
           /\ live' = live \ HeapIds
           /\ heap_size' = 0
           /\ heap_' = [k \in Slots(0) |-> FirstId]
           /\ ref_' = {}
           /\ pc' = "destroyed"
           /\ UNCHANGED <<clock, sched, index, expire, sink, local>>

Halted == pc \in {"destroyed", "undefined"} /\ UNCHANGED vars

\* The code of the scheduler itself, which nothing can delay for ever.
SchedStep == \/ SiftDownStep \/ SiftDownEnd
             \/ SiftUpStep \/ SiftUpEnd
             \/ AddTimerEnd \/ CancelTimerEnd
             \/ LoopExit \/ LoopContinue \/ PopTop \/ Unlink

Next == \/ Tick
        \/ \E millsec \in Delays, event \in Sinks : AddTimer(millsec, event)
        \/ \E id \in Ids : CancelTimer(id)
        \/ UpdateTimer
        \/ CallbackReturn
        \/ SchedStep
        \/ Destroy
        \/ Halted

Spec == Init /\ [][Next]_vars

\* The machine runs the scheduler's code; the event loop calls UpdateTimer
\* once per Poll; callbacks return; the clock advances.
Fairness == /\ WF_vars(SchedStep)
            /\ SF_vars(UpdateTimer)
            /\ SF_vars(CallbackReturn)
            /\ WF_vars(Tick)

FairSpec == Spec /\ Fairness
-----------------------------------------------------------------------------
(* Properties *)

Sifting  == pc \in {"siftup", "siftdown", "finish"}
Removing == Sifting /\ op # "add"

\* Slots in use: while an entry is being removed it sits in the last slot
\* and no longer takes part in the heap.
Active == IF Removing THEN heap_size - 1 ELSE heap_size

Child(a, c)   == c = 2 * a + 1 \/ c = 2 * a + 2
Ordered(a, c) == expire[heap_[a]] <= expire[heap_[c]]

\* Type invariant: ids stay in the range handed out, and the heap's vector is
\* never longer than the number of AddTimer calls.
TypeOK ==
  /\ clock \in 0 .. MaxTick
  /\ next_id_ \in FirstId .. (FirstId + MaxTimers)
  /\ heap_size \in Nat
  /\ heap_ \in [Slots(heap_size) -> Ids]
  /\ index \in [Ids -> Nat]
  /\ expire \in [Ids -> Int]
  /\ sink \in [Ids -> Sinks \cup {NULL}]
  /\ live \subseteq Ids
  /\ ref_ \subseteq Ids
  /\ pc \in {"ready", "siftup", "siftdown", "finish", "loop", "undefined", "destroyed"}
  /\ op \in {"add", "cancel", "update"}
  /\ x \in Nat
  /\ pos \in Nat
  /\ now \in 0 .. clock
  /\ last_id \in FirstId .. next_id_
  /\ entry \in Ids \cup {NULL}
  /\ victim \in Ids \cup {NULL}

\* Where control is decides which entry is on its way out of the heap: the
\* removed entry is the one in the last slot until pop_back (the code's
\* swap-with-last), and none is outside a removal.
ControlInv ==
  /\ Removing => heap_size # 0
  /\ Sifting /\ op = "update" => /\ entry = heap_[Bottom]
                                 /\ victim = NULL
                                 /\ x = 0
                                 /\ pc # "siftup"
  /\ Sifting /\ op = "cancel" => victim = heap_[Bottom] /\ victim # entry
  /\ ~(Sifting /\ op = "cancel") => victim = NULL
  /\ pc = "loop" => entry = NULL
  /\ pc = "siftup" => pos < Active
  /\ pc = "siftdown" => /\ x <= pos
                        /\ pos < Active \/ (op = "update" /\ pos = 0)
                        /\ op # "add"

\* No timer is in the heap twice, and TimerEntry::index ("heap index of this
\* item") names the slot of every timer still in the heap, through every swap
\* of siftup and siftdown and through removals made by callbacks: CancelTimer
\* relies on it to remove the right entry.
IndexInv ==
  /\ \A a, b \in Slots(heap_size) : heap_[a] = heap_[b] => a = b
  /\ \A k \in Slots(Active) : index[heap_[k]] = k

\* heap_ is a "min-heap timer" whenever no sift is running.  During a sift
\* the only disorder is at the moving slot, and its children are in order
\* with its parent, which is what lets the sift end in a heap.
HeapInv ==
  \A a, c \in Slots(Active) :
    /\ Child(a, c) =>
         /\ pc \in {"ready", "loop", "finish"} => Ordered(a, c)
         /\ pc = "siftup" /\ c # pos => Ordered(a, c)
         /\ pc = "siftdown" /\ a # pos /\ (c # pos \/ pos # x) => Ordered(a, c)
    /\ pc \in {"siftup", "siftdown"} /\ Child(a, pos) /\ Child(pos, c) => Ordered(a, c)

\* Every allocated entry is in the heap or in the hands of the one call that
\* removed it (none is leaked, none is freed while the heap still points to
\* it).  Every timer still in the heap can be found by CancelTimer, and one
\* whose callback is running cannot.
OwnershipInv ==
  /\ live = HeapIds \cup ({entry} \ {NULL})
  /\ \A k \in Slots(Active) : heap_[k] # entry /\ heap_[k] # victim
  /\ \A id \in live : id < next_id_
  /\ \A k \in Slots(Active) : heap_[k] \in ref_
  /\ ~(Sifting /\ op = "update") => entry \notin ref_

\* The scheduler implements the abstract timer queue.  A timer stops being
\* pending when it is chosen for removal (PopTop, CancelPending), and fires
\* from then until it is deleted.
Queue == INSTANCE TimerQueue WITH
  time     <- clock,
  fresh    <- {id \in Ids : id >= next_id_},
  pending  <- HeapIds \ {entry, victim},
  deadline <- expire,
  firing   <- entry,
  closed   <- pc = "destroyed"

\* No timer is lost, invented, re-timed, fired early, fired before one with an
\* earlier deadline or fired during another's callback: every step of the scheduler is a step of the timer
\* queue or changes nothing a user can see.
ImplementsQueue == Queue!QSpec

\* "we don't process timers created by time events in this iteration"
\* (TimerSched.cpp:117): UpdateTimer never removes an entry whose id was given
\* out after the call began.
OnlyOldTimersFire == [][PopTop => heap_[0] < last_id]_vars

\* UpdateTimer has been called and has not returned.
InUpdate == pc = "loop" \/ entry # NULL

\* Every call of UpdateTimer returns, through all its removals and callbacks, so
\* that Poll returns to its caller and the event loop goes on.
UpdateReturns == InUpdate ~> ((InUserCode /\ ~InUpdate) \/ pc = "undefined")

\* A pending timer whose time comes leaves the heap (it fires, or is
\* cancelled): timers added or cancelled by callbacks never make the scheduler
\* miss one.
Pending(id) == id \in HeapIds
TimersFire == \A id \in Ids :
  Pending(id) /\ expire[id] <= MaxTick ~> (~Pending(id) \/ pc = "undefined")

\* ref_ ("reference", TimerSched.h:30) only refers to existing entries, so
\* that CancelTimer never touches a deleted one.
NoDanglingRef == ref_ \subseteq live
=============================================================================

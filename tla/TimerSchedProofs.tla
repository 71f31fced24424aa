-------------------------- MODULE TimerSchedProofs --------------------------
(***************************************************************************)
(* Proofs about TimerSched, for every number of timers, set of delays and  *)
(* clock range.                                                            *)
(***************************************************************************)
EXTENDS TimerSched, WellFoundedInduction, TLAPS

\* The conjunction of the invariants is inductive; none of its parts is.
IInv == TypeOK /\ ControlInv /\ IndexInv /\ HeapInv /\ OwnershipInv

\* Slots are the integers from 0 below n.
LEMMA SlotsDef == ASSUME NEW n \in Int, NEW k
                  PROVE  k \in Slots(n) <=> k \in Int /\ 0 <= k /\ k < n
  BY DEF Slots

\* The parent siftup computes is the slot whose child j is, and is smaller.
LEMMA ParentFacts == ASSUME NEW j \in Nat, j # 0
                     PROVE  /\ Parent(j) \in Nat
                            /\ Parent(j) < j
                            /\ Child(Parent(j), j)
                            /\ \A a \in Nat : Child(a, j) => a = Parent(j)
  BY DEF Parent, Child

\* A slot has one parent.
LEMMA OneParent == ASSUME NEW a \in Nat, NEW b \in Nat, NEW c \in Nat, Child(a, c), Child(b, c)
                   PROVE  a = b
  BY DEF Child

\* A child's slot comes after its parent's.
LEMMA ChildAfter == ASSUME NEW a \in Nat, NEW c \in Nat, Child(a, c)
                    PROVE  a < c
  BY DEF Child

\* The number of slots in use.
LEMMA ActiveType == ASSUME TypeOK, ControlInv
                    PROVE  Active \in Nat /\ Active <= heap_size
  BY DEF TypeOK, ControlInv, Active

\* Slots in use hold entries, whose expiry is an integer.
LEMMA SlotTypes == ASSUME TypeOK, ControlInv, NEW k \in Slots(Active)
                   PROVE  /\ k \in Slots(heap_size)
                          /\ k \in Nat
                          /\ heap_[k] \in Ids
                          /\ expire[heap_[k]] \in Int
  BY DEF TypeOK, ControlInv, Active, Slots

\* While siftdown runs, the slots in use are those below n.
LEMMA DownActive == ASSUME TypeOK, ControlInv, pc = "siftdown"
                    PROVE  Active = Bottom /\ Bottom \in Nat
  BY DEF TypeOK, ControlInv, Active, Removing, Sifting, Bottom

\* The child siftdown picks is a child in use, and the smaller of the two.
LEMMA SmallerChildFacts ==
  ASSUME TypeOK, ControlInv, pc = "siftdown", 2 * pos + 1 < Bottom
  PROVE  /\ SmallerChild(pos) \in Slots(Active)
         /\ Child(pos, SmallerChild(pos))
         /\ \A c \in Slots(Active) : Child(pos, c) => Ordered(SmallerChild(pos), c)
  <1> DEFINE j1 == 2 * pos + 1
             j2 == 2 * pos + 2
  <1>1. pos \in Nat /\ j1 \in Nat /\ j2 \in Nat /\ j2 = j1 + 1
    BY DEF TypeOK
  <1>2. j1 \in Slots(Active) /\ (j2 < Bottom => j2 \in Slots(Active))
    BY <1>1, DownActive DEF Slots
  <1>3. SmallerChild(pos) = IF j2 < Bottom /\ ~Less(j1, j2) THEN j2 ELSE j1
    BY <1>1 DEF SmallerChild
  <1>4. \A c \in Slots(Active) : Child(pos, c) => c = j1 \/ (c = j2 /\ j2 < Bottom)
    BY <1>1, DownActive DEF Slots, Child
  <1>5. expire[heap_[j1]] \in Int /\ (j2 < Bottom => expire[heap_[j2]] \in Int)
    BY <1>2, SlotTypes
  <1> HIDE DEF j1, j2
  <1>6. \A c \in Slots(Active) : Child(pos, c) => Ordered(SmallerChild(pos), c)
    BY <1>3, <1>4, <1>5 DEF Less, Ordered
  <1> QED
    BY <1>1, <1>2, <1>3, <1>6 DEF Child, j1, j2

\* An empty scheduler satisfies the invariant.
LEMMA InitIInv == Init => IInv
  <1> SUFFICES ASSUME Init PROVE IInv
    OBVIOUS
  <1> USE DEF Init
  <1>1. TypeOK
    BY BoundsAssumption DEF TypeOK, Slots, Ids
  <1>2. ControlInv
    BY DEF ControlInv, Removing, Sifting
  <1>3. IndexInv /\ HeapInv
    BY DEF IndexInv, HeapInv, Slots, Active, Removing, Sifting
  <1>4. OwnershipInv
    BY DEF OwnershipInv, Slots, Active, Removing, Sifting, HeapIds
  <1> QED
    BY <1>1, <1>2, <1>3, <1>4 DEF IInv

\* The clock moves and nothing else does.
LEMMA TickIInv == ASSUME IInv, Tick PROVE IInv'
  <1> USE BoundsAssumption, NullAssumption DEF IInv, Tick, sched, store, local
  <1>1. TypeOK'
    BY DEF TypeOK
  <1>2. ControlInv'
    BY DEF TypeOK, ControlInv, Active, Removing, Sifting, Bottom, Slots
  <1>3. IndexInv'
    BY DEF TypeOK, ControlInv, IndexInv, Active, Removing, Sifting, Bottom, Slots
  <1>4. HeapInv'
    BY DEF TypeOK, ControlInv, HeapInv, Active, Removing, Sifting, Bottom, Slots, Child, Ordered
  <1>5. OwnershipInv'
    BY DEF TypeOK, ControlInv, OwnershipInv, Active, Removing, Sifting, Bottom, Slots, HeapIds
  <1> QED
    BY <1>1, <1>2, <1>3, <1>4, <1>5

\* The moving slot of siftup is in order with its parent, hence the heap is.
LEMMA SiftUpEndIInv == ASSUME IInv, SiftUpEnd PROVE IInv'
  <1> USE BoundsAssumption, NullAssumption DEF IInv, SiftUpEnd, sched, store, local
  <1>1. TypeOK'
    BY DEF TypeOK, Slots, Ids
  <1>2. ControlInv'
    BY DEF TypeOK, ControlInv, Active, Removing, Sifting, Bottom, Slots
  <1>3. IndexInv'
    BY DEF TypeOK, ControlInv, IndexInv, Active, Removing, Sifting, Bottom, Slots
  <1>4. HeapInv'
    <2> SUFFICES ASSUME NEW a \in Slots(Active), NEW c \in Slots(Active), Child(a, c)
                 PROVE  Ordered(a, c)
      BY DEF HeapInv, Active, Removing, Sifting, Ordered, Slots, TypeOK
    <2>1. CASE c # pos
      BY <2>1 DEF HeapInv
    <2>2. CASE c = pos
      <3>1. pos # 0 /\ a = Parent(pos)
        BY <2>2, ParentFacts DEF Child, Slots, TypeOK
      <3> QED
        BY <2>2, <3>1 DEF SiftUpMoves, Less, Ordered, TypeOK, ControlInv, Active, Slots
    <2> QED
      BY <2>1, <2>2
  <1>5. OwnershipInv'
    BY DEF TypeOK, ControlInv, OwnershipInv, Active, Removing, Sifting, Bottom, Slots, HeapIds
  <1> QED
    BY <1>1, <1>2, <1>3, <1>4, <1>5

\* The moving slot of siftdown is in order with its children.
LEMMA SiftDownEndIInv == ASSUME IInv, SiftDownEnd PROVE IInv'
  <1> USE BoundsAssumption, NullAssumption DEF IInv, SiftDownEnd, sched, store, local
  <1>1. TypeOK'
    BY DEF TypeOK, Slots, Ids
  <1>2. ControlInv'
    BY DEF TypeOK, ControlInv, Active, Removing, Sifting, Bottom, Slots
  <1>3. IndexInv'
    BY DEF TypeOK, ControlInv, IndexInv, Active, Removing, Sifting, Bottom, Slots
  <1>4. HeapInv'
    <2> SUFFICES ASSUME NEW a \in Slots(Active), NEW c \in Slots(Active)
                 PROVE  /\ Child(a, c) /\ (pc' = "siftup" => c # pos) => Ordered(a, c)
                        /\ Child(a, pos) /\ Child(pos, c) => Ordered(a, c)
      BY DEF HeapInv, Active, Removing, Sifting, Ordered, Slots, TypeOK, Child
    <2>1. ASSUME Child(pos, c) PROVE Ordered(pos, c)
      <3>1. 2 * pos + 1 < Bottom
        BY <2>1, DownActive DEF Child, Slots, TypeOK
      <3>2. Ordered(SmallerChild(pos), c) /\ SmallerChild(pos) \in Slots(Active)
        BY <2>1, <3>1, SmallerChildFacts
      <3>3. ~Less(SmallerChild(pos), pos)
        BY <3>1 DEF SiftDownMoves
      <3>4. pos \in Slots(Active)
        BY <3>1, DownActive DEF Slots, TypeOK
      <3> QED
        BY <3>2, <3>3, <3>4, SlotTypes DEF Less, Ordered
    <2>2. pc' = "finish" /\ c = pos => pos # x \/ pos = 0
      BY DEF ControlInv, Sifting, Removing, TypeOK
    <2>3. Child(a, c) => c # 0
      BY DEF Child, Slots, TypeOK
    <2> QED
      BY <2>1, <2>2, <2>3 DEF HeapInv
  <1>5. OwnershipInv'
    BY DEF TypeOK, ControlInv, OwnershipInv, Active, Removing, Sifting, Bottom, Slots, HeapIds
  <1> QED
    BY <1>1, <1>2, <1>3, <1>4, <1>5

\* AddTimer returns.
LEMMA AddTimerEndIInv == ASSUME IInv, AddTimerEnd PROVE IInv'
  <1> USE BoundsAssumption, NullAssumption DEF IInv, AddTimerEnd, sched, store, local
  <1>1. TypeOK'
    BY DEF TypeOK, Slots, Ids
  <1>2. ControlInv'
    BY DEF TypeOK, ControlInv, Active, Removing, Sifting, Bottom, Slots
  <1>3. IndexInv'
    BY DEF TypeOK, ControlInv, IndexInv, Active, Removing, Sifting, Bottom, Slots
  <1>4. HeapInv'
    BY DEF TypeOK, ControlInv, HeapInv, Active, Removing, Sifting, Bottom, Slots, Child, Ordered
  <1>5. OwnershipInv'
    BY DEF TypeOK, ControlInv, OwnershipInv, Active, Removing, Sifting, Bottom, Slots, HeapIds
  <1> QED
    BY <1>1, <1>2, <1>3, <1>4, <1>5

\* UpdateTimer begins.
LEMMA UpdateTimerIInv == ASSUME IInv, UpdateTimer PROVE IInv'
  <1> USE BoundsAssumption, NullAssumption DEF IInv, UpdateTimer, InUserCode, sched, store, local
  <1>1. TypeOK'
    BY DEF TypeOK, Slots, Ids
  <1>2. ControlInv'
    BY DEF TypeOK, ControlInv, Active, Removing, Sifting, Bottom, Slots
  <1>3. IndexInv'
    BY DEF TypeOK, ControlInv, IndexInv, Active, Removing, Sifting, Bottom, Slots
  <1>4. HeapInv'
    BY DEF TypeOK, ControlInv, HeapInv, Active, Removing, Sifting, Bottom, Slots, Child, Ordered
  <1>5. OwnershipInv'
    BY DEF TypeOK, ControlInv, OwnershipInv, Active, Removing, Sifting, Bottom, Slots, HeapIds
  <1> QED
    BY <1>1, <1>2, <1>3, <1>4, <1>5

\* UpdateTimer returns.
LEMMA LoopExitIInv == ASSUME IInv, LoopExit PROVE IInv'
  <1> USE BoundsAssumption, NullAssumption DEF IInv, LoopExit, sched, store, local
  <1>1. TypeOK'
    BY DEF TypeOK
  <1>2. ControlInv'
    BY DEF TypeOK, ControlInv, Active, Removing, Sifting, Bottom, Slots
  <1>3. IndexInv'
    BY DEF TypeOK, ControlInv, IndexInv, Active, Removing, Sifting, Bottom, Slots
  <1>4. HeapInv'
    BY DEF TypeOK, ControlInv, HeapInv, Active, Removing, Sifting, Bottom, Slots, Child, Ordered
  <1>5. OwnershipInv'
    BY DEF TypeOK, ControlInv, OwnershipInv, Active, Removing, Sifting, Bottom, Slots, HeapIds
  <1> QED
    BY <1>1, <1>2, <1>3, <1>4, <1>5

\* What a swap of two slots does to the vector and to the entries' index.
LEMMA SwapFacts ==
  ASSUME TypeOK, IndexInv, NEW i \in Slots(heap_size), NEW j \in Slots(heap_size),
         i # j, SwapSlots(i, j), heap_size' = heap_size
  PROVE  /\ heap_' \in [Slots(heap_size) -> Ids]
         /\ index' \in [Ids -> Nat]
         /\ heap_'[i] = heap_[j]
         /\ heap_'[j] = heap_[i]
         /\ \A k \in Slots(heap_size) : k # i /\ k # j => heap_'[k] = heap_[k]
         /\ index'[heap_[j]] = i
         /\ index'[heap_[i]] = j
         /\ \A k \in Slots(heap_size) : k # i /\ k # j => index'[heap_[k]] = index[heap_[k]]
         /\ HeapIds' = HeapIds
  <1> USE DEF SwapSlots, Swap, TypeOK
  <1>1. heap_[i] # heap_[j] /\ heap_[i] \in Ids /\ heap_[j] \in Ids
    BY DEF IndexInv
  <1>2. i \in Nat /\ j \in Nat
    BY DEF Slots
  <1>3. heap_' \in [Slots(heap_size) -> Ids] /\ index' \in [Ids -> Nat]
    BY <1>1, <1>2
  <1>4. heap_'[i] = heap_[j] /\ heap_'[j] = heap_[i]
    OBVIOUS
  <1>5. \A k \in Slots(heap_size) : k # i /\ k # j => heap_'[k] = heap_[k]
    OBVIOUS
  <1>6. index'[heap_[j]] = i /\ index'[heap_[i]] = j
    BY <1>1
  <1>7. \A k \in Slots(heap_size) : k # i /\ k # j => index'[heap_[k]] = index[heap_[k]]
    <2> TAKE k \in Slots(heap_size)
    <2> HAVE k # i /\ k # j
    <2>1. heap_[k] # heap_[i] /\ heap_[k] # heap_[j]
      BY DEF IndexInv
    <2> QED
      BY <2>1
  <1>8. HeapIds' = HeapIds
    <2>1. ASSUME NEW k \in Slots(heap_size)
          PROVE  heap_[k] \in HeapIds' /\ heap_'[k] \in HeapIds
      BY <1>4, <1>5 DEF HeapIds
    <2> QED
      BY <2>1 DEF HeapIds
  <1> QED
    BY <1>3, <1>4, <1>5, <1>6, <1>7, <1>8

\* One iteration of siftup: the disorder moves to the parent slot.
LEMMA SiftUpStepIInv == ASSUME IInv, SiftUpStep PROVE IInv'
  <1> USE BoundsAssumption, NullAssumption DEF IInv, SiftUpStep, sched, store, local
  <1> DEFINE p == Parent(pos)
  <1>1. /\ pos \in Nat /\ p \in Nat /\ p < pos /\ Child(p, pos)
        /\ \A a \in Nat : Child(a, pos) => a = p
    BY ParentFacts DEF SiftUpMoves, TypeOK
  <1>2. /\ pos \in Slots(Active) /\ p \in Slots(Active)
        /\ pos \in Slots(heap_size) /\ p \in Slots(heap_size)
    BY <1>1 DEF ControlInv, Active, Slots, TypeOK
  <1>3. Active' = Active
    BY DEF Active, Removing, Sifting
  <1> HIDE DEF p
  <1>4. /\ heap_' \in [Slots(heap_size) -> Ids]
        /\ index' \in [Ids -> Nat]
        /\ heap_'[p] = heap_[pos]
        /\ heap_'[pos] = heap_[p]
        /\ \A k \in Slots(heap_size) : k # p /\ k # pos => heap_'[k] = heap_[k]
        /\ index'[heap_[pos]] = p
        /\ index'[heap_[p]] = pos
        /\ \A k \in Slots(heap_size) : k # p /\ k # pos => index'[heap_[k]] = index[heap_[k]]
        /\ HeapIds' = HeapIds
    <2>1. SwapSlots(p, pos)
      BY DEF p
    <2> QED
      BY <1>1, <1>2, <2>1, SwapFacts
  <1>5. TypeOK'
    BY <1>1, <1>4 DEF TypeOK, p
  <1>6. ControlInv'
    <2>1. pos' = p /\ Removing' = Removing /\ Bottom' = Bottom
      BY DEF p, Removing, Sifting, Bottom
    <2>2. Removing => heap_'[Bottom] = heap_[Bottom]
      <3> SUFFICES ASSUME Removing PROVE heap_'[Bottom] = heap_[Bottom]
        OBVIOUS
      <3>1. Bottom \in Slots(heap_size) /\ Bottom # pos /\ Bottom # p
        BY <1>2 DEF ControlInv, Active, Bottom, Slots, TypeOK
      <3> QED
        BY <3>1, <1>4
    <2>3. pos' < Active'
      BY <2>1, <1>2, <1>3, ActiveType DEF Slots
    <2> QED
      BY <2>1, <2>2, <2>3 DEF ControlInv, Removing, Sifting
  <1>7. IndexInv'
    <2>1. ASSUME NEW a \in Slots(heap_size), NEW b \in Slots(heap_size), heap_'[a] = heap_'[b]
          PROVE  a = b
      BY <2>1, <1>2, <1>4 DEF IndexInv
    <2>2. ASSUME NEW k \in Slots(Active) PROVE index'[heap_'[k]] = k
      BY <1>2, <1>4, SlotTypes DEF IndexInv
    <2> QED
      BY <2>1, <2>2, <1>3 DEF IndexInv
  <1>8. HeapInv'
    <2> DEFINE e(k) == expire[heap_[k]]
    <2>1. \A k \in Slots(Active) : e(k) \in Int /\ k \in Nat /\ k \in Slots(heap_size)
      BY SlotTypes
    <2>2. e(pos) < e(p)
      BY DEF SiftUpMoves, Less, p
    <2>3. ASSUME NEW a \in Slots(Active), NEW c \in Slots(Active), Child(a, c), c # p
          PROVE  Ordered(a, c)'
      <3>1. a # c /\ c # 0
        BY <2>3, <2>1 DEF Child
      <3>2. CASE c = pos
        <4>1. a = p
          BY <3>2, <2>3, <1>1, <2>1
        <4> QED
          BY <4>1, <3>2, <2>1, <2>2, <1>2, <1>4 DEF Ordered
      <3>3. CASE a = p /\ c # pos
        <4>1. e(p) <= e(c)
          BY <3>3, <2>3, <1>2 DEF HeapInv, Ordered
        <4> QED
          BY <4>1, <3>3, <2>3, <2>1, <2>2, <1>2, <1>4 DEF Ordered
      <3>4. CASE a = pos
        <4>1. e(p) <= e(c)
          BY <3>4, <2>3, <1>1, <1>2 DEF HeapInv, Ordered
        <4> QED
          BY <4>1, <3>1, <3>4, <2>3, <2>1, <1>2, <1>4 DEF Ordered
      <3>5. CASE a # p /\ a # pos /\ c # pos
        BY <3>5, <2>3, <2>1, <1>4 DEF HeapInv, Ordered
      <3> QED
        BY <3>2, <3>3, <3>4, <3>5
    <2>4. ASSUME NEW a \in Slots(Active), NEW c \in Slots(Active), Child(a, p), Child(p, c)
          PROVE  Ordered(a, c)'
      <3>1. a # p /\ a # pos /\ c # p
        BY <2>4, <2>1, <1>1 DEF Child
      <3>2. e(a) <= e(p)
        BY <2>4, <1>1, <1>2 DEF HeapInv, Ordered
      <3>3. CASE c = pos
        BY <3>1, <3>2, <3>3, <2>1, <1>2, <1>4 DEF Ordered
      <3>4. CASE c # pos
        <4>1. e(p) <= e(c)
          BY <3>4, <2>4, <1>2 DEF HeapInv, Ordered
        <4> QED
          BY <4>1, <3>1, <3>2, <3>4, <2>1, <1>2, <1>4 DEF Ordered
      <3> QED
        BY <3>3, <3>4
    <2>5. pos' = p /\ pc' = "siftup"
      BY DEF p
    <2> QED
      BY <2>3, <2>4, <2>5, <1>3 DEF HeapInv, Child
  <1>9. OwnershipInv'
    BY <1>1, <1>2, <1>3, <1>4, SlotTypes DEF OwnershipInv, Sifting
  <1> QED
    BY <1>5, <1>6, <1>7, <1>8, <1>9
\* One iteration of siftdown: the disorder moves to the smaller child's slot.
LEMMA SiftDownStepIInv == ASSUME IInv, SiftDownStep PROVE IInv'
  <1> USE BoundsAssumption, NullAssumption DEF IInv, SiftDownStep, sched, store, local
  <1> DEFINE j == SmallerChild(pos)
  <1>1. /\ j \in Slots(Active)
        /\ Child(pos, j)
        /\ \A c \in Slots(Active) : Child(pos, c) => Ordered(j, c)
    BY SmallerChildFacts DEF SiftDownMoves
  <1> HIDE DEF j
  <1>2. /\ pos \in Nat /\ j \in Nat /\ pos < j /\ x <= pos
        /\ pos \in Slots(Active)
        /\ pos \in Slots(heap_size) /\ j \in Slots(heap_size)
    <2>1. pos \in Nat /\ x \in Nat /\ heap_size \in Nat /\ x <= pos
      BY DEF TypeOK, ControlInv
    <2>2. Active \in Nat /\ Active <= heap_size
      BY ActiveType
    <2>3. j \in Nat /\ j < Active
      BY <1>1, <2>2 DEF Slots
    <2>4. pos < j
      BY <1>1, <2>1, <2>3, ChildAfter
    <2> HIDE DEF IInv, SiftDownStep
    <2> QED
      BY <2>1, <2>2, <2>3, <2>4 DEF Slots
  <1>3. Active' = Active
    BY DEF Active, Removing, Sifting
  <1>4. /\ heap_' \in [Slots(heap_size) -> Ids]
        /\ index' \in [Ids -> Nat]
        /\ heap_'[j] = heap_[pos]
        /\ heap_'[pos] = heap_[j]
        /\ \A k \in Slots(heap_size) : k # pos /\ k # j => heap_'[k] = heap_[k]
        /\ index'[heap_[pos]] = j
        /\ index'[heap_[j]] = pos
        /\ \A k \in Slots(heap_size) : k # pos /\ k # j => index'[heap_[k]] = index[heap_[k]]
        /\ HeapIds' = HeapIds
    <2>1. SwapSlots(pos, j)
      BY DEF j
    <2> QED
      BY <1>1, <1>2, <2>1, SwapFacts
  <1>5. TypeOK'
    BY <1>2, <1>4 DEF TypeOK, j
  <1>6. ControlInv'
    <2>1. pos' = j /\ Removing' = Removing /\ Bottom' = Bottom
      BY DEF j, Removing, Sifting, Bottom
    <2>2. Removing => heap_'[Bottom] = heap_[Bottom]
      <3> SUFFICES ASSUME Removing PROVE heap_'[Bottom] = heap_[Bottom]
        OBVIOUS
      <3>1. heap_size \in Nat /\ heap_size # 0 /\ Active = heap_size - 1
        BY DEF TypeOK, ControlInv, Active
      <3>2. Bottom \in Slots(heap_size) /\ Bottom # pos /\ Bottom # j
        BY <3>1, <1>1, <1>2 DEF Bottom, Slots
      <3> QED
        BY <3>2, <1>4
    <2>3. pos' < Active' /\ x' <= pos'
      BY <2>1, <1>1, <1>2, <1>3, ActiveType, SMTT(30) DEF Slots, TypeOK
    <2> QED
      BY <2>1, <2>2, <2>3 DEF ControlInv, Removing, Sifting
  <1>7. IndexInv'
    <2>1. ASSUME NEW a \in Slots(heap_size), NEW b \in Slots(heap_size), heap_'[a] = heap_'[b]
          PROVE  a = b
      BY <2>1, <1>2, <1>4 DEF IndexInv
    <2>2. ASSUME NEW k \in Slots(Active) PROVE index'[heap_'[k]] = k
      BY <1>2, <1>4, SlotTypes DEF IndexInv
    <2> QED
      BY <2>1, <2>2, <1>3 DEF IndexInv
  <1>8. HeapInv'
    <2> DEFINE e(k) == expire[heap_[k]]
    <2>1. \A k \in Slots(Active) : e(k) \in Int /\ k \in Nat /\ k \in Slots(heap_size)
      BY SlotTypes
    <2>2. e(j) < e(pos)
      BY DEF SiftDownMoves, Less, j
    <2>3. ASSUME NEW a \in Slots(Active), NEW c \in Slots(Active), Child(a, c), a # j
          PROVE  Ordered(a, c)'
      <3>1. a # c /\ a < c
        BY <2>3, <2>1 DEF Child
      <3>2. CASE a = pos
        <4>1. e(j) <= e(c)
          BY <3>2, <2>3, <1>1 DEF Ordered
        <4>2. CASE c = j
          BY <4>2, <3>2, <2>1, <2>2, <1>1, <1>2, <1>4 DEF Ordered
        <4>3. CASE c # j
          BY <4>1, <4>3, <3>1, <3>2, <2>1, <1>2, <1>4 DEF Ordered
        <4> QED
          BY <4>2, <4>3
      <3>3. CASE c = pos
        <4>1. e(a) <= e(j)
          BY <3>3, <2>3, <1>1, <1>2 DEF HeapInv, Ordered
        <4> QED
          BY <4>1, <3>1, <3>3, <2>3, <2>1, <1>2, <1>4 DEF Ordered
      <3>4. CASE a # pos /\ c # pos
        <4>1. c # j
          BY <3>4, <2>3, <2>1, <1>1, <1>2, OneParent
        <4> QED
          BY <4>1, <3>4, <2>3, <2>1, <1>4 DEF HeapInv, Ordered
      <3> QED
        BY <3>2, <3>3, <3>4
    <2>4. ASSUME NEW a \in Slots(Active), NEW c \in Slots(Active), Child(a, j), Child(j, c)
          PROVE  Ordered(a, c)'
      <3>0. a \in Nat /\ c \in Nat
        BY <2>1
      <3>1. a = pos /\ c # pos /\ c # j
        <4>1. a = pos
          BY <3>0, <2>4, <1>1, <1>2, OneParent
        <4>2. j < c
          BY <3>0, <2>4, <1>2, ChildAfter
        <4> HIDE DEF IInv, SiftDownStep
        <4> QED
          BY <4>1, <4>2, <3>0, <1>2
      <3>2. e(j) <= e(c)
        BY <2>4, <3>1, <1>1, <1>2 DEF HeapInv, Ordered
      <3> QED
        BY <3>1, <3>2, <2>1, <1>2, <1>4 DEF Ordered
    <2>5. pos' = j /\ pc' = "siftdown"
      BY DEF j
    <2> QED
      BY <2>3, <2>4, <2>5, <1>3 DEF HeapInv, Child
  <1>9. OwnershipInv'
    BY <1>1, <1>2, <1>3, <1>4, SlotTypes DEF OwnershipInv, Sifting
  <1> QED
    BY <1>5, <1>6, <1>7, <1>8, <1>9
\* AddTimer appends the new entry as the moving slot of siftup.
LEMMA AddTimerIInv == ASSUME IInv, NEW millsec \in Delays, NEW event \in Sinks,
                             AddTimer(millsec, event)
                      PROVE  IInv'
  <1> USE BoundsAssumption, NullAssumption DEF IInv, AddTimer, InUserCode, sched, store, local
  <1> DEFINE id == next_id_
  <1>1. /\ heap_size \in Nat /\ id \in Ids
        /\ Active = heap_size /\ Active' = heap_size + 1
        /\ entry \in Ids \cup {NULL} /\ victim = NULL
    BY DEF TypeOK, ControlInv, Active, Removing, Sifting
  <1>2. /\ heap_' \in [Slots(heap_size + 1) -> Ids]
        /\ heap_'[heap_size] = id
        /\ \A k \in Slots(heap_size) : heap_'[k] = heap_[k] /\ heap_[k] \in Ids
        /\ \A k \in Slots(heap_size + 1) : k \in Nat /\ (k \in Slots(heap_size) \/ k = heap_size)
    BY <1>1 DEF TypeOK, Slots
  <1>3. id \notin live /\ id \notin HeapIds /\ (entry # NULL => entry \in live) /\ entry # id
    BY <1>1 DEF OwnershipInv, TypeOK
  <1>4. \A k \in Slots(heap_size) : heap_[k] # id
    BY <1>3 DEF HeapIds
  <1>5. TypeOK'
    BY <1>1, <1>2 DEF TypeOK, Ids
  <1>6. ControlInv'
    BY <1>1 DEF ControlInv, Removing, Sifting
  <1>7. IndexInv'
    <2>1. ASSUME NEW a \in Slots(heap_size + 1), NEW c \in Slots(heap_size + 1),
                 heap_'[a] = heap_'[c]
          PROVE  a = c
      BY <2>1, <1>2, <1>4 DEF IndexInv
    <2>2. ASSUME NEW k \in Slots(heap_size + 1) PROVE index'[heap_'[k]] = k
      <3>1. CASE k = heap_size
        BY <3>1, <1>1, <1>2 DEF TypeOK
      <3>2. CASE k \in Slots(heap_size)
        BY <3>2, <1>1, <1>2, <1>4 DEF TypeOK, IndexInv
      <3> QED
        BY <3>1, <3>2, <1>2
    <2> QED
      BY <2>1, <2>2, <1>1 DEF IndexInv
  <1>8. HeapInv'
    <2>1. \A k \in Slots(heap_size) : expire'[heap_'[k]] = expire[heap_[k]]
      BY <1>1, <1>2, <1>4 DEF TypeOK
    <2>2. ASSUME NEW a \in Slots(heap_size + 1), NEW c \in Slots(heap_size + 1),
                 Child(a, c), c # heap_size
          PROVE  Ordered(a, c)'
      <3>1. a \in Slots(heap_size) /\ c \in Slots(heap_size)
        BY <2>2, <1>1, <1>2 DEF Child, Slots
      <3> QED
        BY <3>1, <2>1, <2>2, <1>1 DEF HeapInv, Ordered
    <2>3. ASSUME NEW c \in Slots(heap_size + 1) PROVE ~Child(heap_size, c)
      BY <1>1, <1>2 DEF Child, Slots
    <2>4. pos' = heap_size /\ pc' = "siftup"
      OBVIOUS
    <2> QED
      BY <2>2, <2>3, <2>4, <1>1 DEF HeapInv, Child
  <1>9. OwnershipInv'
    <2>1. HeapIds' = HeapIds \cup {id}
      <3>1. ASSUME NEW k \in Slots(heap_size + 1) PROVE heap_'[k] \in HeapIds \cup {id}
        BY <1>2 DEF HeapIds
      <3>2. ASSUME NEW k \in Slots(heap_size) PROVE heap_[k] \in HeapIds'
        BY <1>1, <1>2 DEF HeapIds, Slots
      <3>3. id \in HeapIds'
        BY <1>1, <1>2 DEF HeapIds, Slots
      <3> QED
        BY <3>1, <3>2, <3>3 DEF HeapIds
    <2>2. live' = HeapIds' \cup ({entry'} \ {NULL})
      BY <2>1 DEF OwnershipInv
    <2>3. \A k \in Slots(heap_size + 1) : heap_'[k] # entry /\ heap_'[k] # NULL /\ heap_'[k] \in ref_'
      BY <1>1, <1>2, <1>3 DEF OwnershipInv
    <2>4. \A i \in live' : i < next_id_'
      BY DEF OwnershipInv, TypeOK, Ids
    <2>5. entry' \notin ref_' /\ ~(Sifting /\ op = "update")'
      BY <1>3 DEF OwnershipInv, Sifting
    <2> QED
      BY <2>2, <2>3, <2>4, <2>5, <1>1 DEF OwnershipInv
  <1> QED
    BY <1>5, <1>6, <1>7, <1>8, <1>9

\* A call of CancelTimer that follows a dangling pointer: the model stops.
LEMMA CancelDanglingIInv == ASSUME IInv, NEW id \in Ids, CancelDangling(id) PROVE IInv'
  <1> USE BoundsAssumption, NullAssumption
      DEF IInv, CancelDangling, InUserCode, sched, store, local
  <1>1. TypeOK'
    BY DEF TypeOK, Slots, Ids
  <1>2. ControlInv'
    BY DEF TypeOK, ControlInv, Removing, Sifting
  <1>3. IndexInv' /\ HeapInv'
    BY DEF IndexInv, HeapInv, Active, Removing, Sifting, Ordered
  <1>4. OwnershipInv'
    BY DEF OwnershipInv, Active, Removing, Sifting, HeapIds
  <1> QED
    BY <1>1, <1>2, <1>3, <1>4

\* In user code an id that CancelTimer finds and that is not dangling is in
\* the heap, at the slot its index names.
LEMMA FoundInHeap == ASSUME IInv, InUserCode, NEW id \in ref_ \cap live
                     PROVE  /\ index[id] \in Slots(heap_size)
                            /\ heap_[index[id]] = id
                            /\ Active = heap_size
                            /\ heap_size \in Nat
  <1>1. Active = heap_size /\ heap_size \in Nat /\ id # entry
    BY DEF IInv, InUserCode, Active, Removing, Sifting, TypeOK, OwnershipInv
  <1>2. PICK k \in Slots(heap_size) : heap_[k] = id
    BY <1>1 DEF IInv, OwnershipInv, HeapIds
  <1> QED
    BY <1>1, <1>2 DEF IInv, IndexInv
\* The step UpdateTimer and CancelTimer share: the entry of slot i changes
\* places with the last one, whose index is corrected, and what is left is a
\* heap but for slot i.
LEMMA DetachFacts ==
  ASSUME IInv, pc \in {"ready", "loop"}, NEW i \in Slots(heap_size),
         heap_' = Swap(heap_, i, Bottom), heap_size' = heap_size, expire' = expire,
         index' = [index EXCEPT ![heap_[Bottom]] = i]
  PROVE  /\ Bottom \in Nat /\ Bottom' = Bottom /\ i <= Bottom /\ heap_size \in Nat
         /\ heap_' \in [Slots(heap_size) -> Ids]
         /\ index' \in [Ids -> Nat]
         /\ heap_'[Bottom] = heap_[i]
         /\ \A k \in Slots(Bottom) : heap_'[k] # heap_[i] /\ heap_'[k] \in HeapIds
         /\ \A a, c \in Slots(heap_size) : heap_'[a] = heap_'[c] => a = c
         /\ \A k \in Slots(Bottom) : index'[heap_'[k]] = k
         /\ HeapIds' = HeapIds
         /\ \A a, c \in Slots(Bottom) :
               /\ Child(a, c) /\ a # i /\ c # i => Ordered(a, c)'
               /\ Child(a, i) /\ Child(i, c) => Ordered(a, c)'
  <1> USE DEF IInv
  <1>1. /\ heap_size \in Nat /\ Bottom \in Nat /\ i \in Nat /\ i <= Bottom
        /\ Bottom \in Slots(heap_size) /\ Bottom' = Bottom
        /\ Active = heap_size
        /\ heap_ \in [Slots(heap_size) -> Ids]
        /\ index \in [Ids -> Nat]
    BY DEF TypeOK, Bottom, Slots, Active, Removing, Sifting
  <1>2. \A k \in Slots(Bottom) : k \in Slots(heap_size) /\ k # Bottom /\ k \in Nat
    BY <1>1 DEF Slots, Bottom
  <1>3. /\ heap_' \in [Slots(heap_size) -> Ids]
        /\ heap_'[Bottom] = heap_[i]
        /\ heap_'[i] = heap_[Bottom]
        /\ \A k \in Slots(heap_size) : k # i /\ k # Bottom => heap_'[k] = heap_[k]
    BY <1>1 DEF Swap
  <1>4. index' \in [Ids -> Nat]
    BY <1>1
  <1>5. \A a, c \in Slots(heap_size) : heap_'[a] = heap_'[c] => a = c
    BY <1>1, <1>3 DEF IndexInv
  <1>6. \A k \in Slots(Bottom) : heap_'[k] # heap_[i]
    BY <1>1, <1>2, <1>3, <1>5
  <1>7. HeapIds' = HeapIds
    <2>1. ASSUME NEW k \in Slots(heap_size)
          PROVE  heap_[k] \in HeapIds' /\ heap_'[k] \in HeapIds
      BY <1>1, <1>3 DEF HeapIds
    <2> QED
      BY <2>1 DEF HeapIds
  <1>8. ASSUME NEW k \in Slots(Bottom) PROVE index'[heap_'[k]] = k
    <2>1. CASE k = i
      BY <2>1, <1>1, <1>2, <1>3
    <2>2. CASE k # i
      <3>1. heap_'[k] = heap_[k] /\ heap_[k] # heap_[Bottom] /\ heap_[k] \in Ids
        BY <2>2, <1>1, <1>2, <1>3 DEF IndexInv
      <3> QED
        BY <3>1, <1>1, <1>2 DEF IndexInv
    <2> QED
      BY <2>1, <2>2
  <1>9. ASSUME NEW a \in Slots(Bottom), NEW c \in Slots(Bottom)
        PROVE  /\ Child(a, c) /\ a # i /\ c # i => Ordered(a, c)'
               /\ Child(a, i) /\ Child(i, c) => Ordered(a, c)'
    <2>1. a \in Slots(Active) /\ c \in Slots(Active) /\ i \in Slots(Active) /\ a \in Nat /\ c \in Nat
      BY <1>1, <1>2
    <2>2. expire[heap_[a]] \in Int /\ expire[heap_[c]] \in Int /\ expire[heap_[i]] \in Int
      BY <2>1, SlotTypes
    <2>3. ASSUME Child(a, c), a # i, c # i PROVE Ordered(a, c)'
      BY <2>1, <2>3, <1>2, <1>3 DEF HeapInv, Ordered
    <2>4. ASSUME Child(a, i), Child(i, c) PROVE Ordered(a, c)'
      <3>1. a # i /\ c # i
        BY <2>1, <2>4, <1>1 DEF Child
      <3>2. Ordered(a, i) /\ Ordered(i, c)
        BY <2>1, <2>4 DEF HeapInv
      <3> QED
        BY <3>1, <3>2, <2>2, <1>2, <1>3 DEF Ordered
    <2> QED
      BY <2>3, <2>4
  <1>10. \A k \in Slots(Bottom) : heap_'[k] \in HeapIds
    <2> TAKE k \in Slots(Bottom)
    <2>1. k \in Slots(heap_size) /\ heap_size' = heap_size
      BY <1>2
    <2>2. heap_'[k] \in HeapIds'
      BY <2>1 DEF HeapIds
    <2> QED
      BY <2>2, <1>7
  <1> QED
    BY <1>1, <1>3, <1>4, <1>5, <1>6, <1>7, <1>8, <1>9, <1>10

\* UpdateTimer takes the top of the heap out.
LEMMA PopTopIInv == ASSUME IInv, PopTop PROVE IInv'
  <1> USE BoundsAssumption, NullAssumption DEF IInv, PopTop, sched, store, local
  <1>1. 0 \in Slots(heap_size) /\ heap_size \in Nat /\ heap_[0] \in Ids
    BY DEF TopIsDue, TypeOK, Slots
  <1>2. /\ Bottom \in Nat /\ Bottom' = Bottom
        /\ heap_' \in [Slots(heap_size) -> Ids]
        /\ index' \in [Ids -> Nat]
        /\ heap_'[Bottom] = heap_[0]
        /\ \A k \in Slots(Bottom) : heap_'[k] # heap_[0] /\ heap_'[k] \in HeapIds
        /\ \A a, c \in Slots(heap_size) : heap_'[a] = heap_'[c] => a = c
        /\ \A k \in Slots(Bottom) : index'[heap_'[k]] = k
        /\ HeapIds' = HeapIds
        /\ \A a, c \in Slots(Bottom) :
              /\ Child(a, c) /\ a # 0 /\ c # 0 => Ordered(a, c)'
              /\ Child(a, 0) /\ Child(0, c) => Ordered(a, c)'
    BY <1>1, DetachFacts
  <1>3. Active = heap_size /\ Active' = Bottom /\ entry = NULL /\ victim = NULL
    BY DEF Active, Removing, Sifting, Bottom, ControlInv
  <1>4. TypeOK'
    BY <1>1, <1>2 DEF TypeOK
  <1>5. ControlInv'
    BY <1>1, <1>2, <1>3 DEF ControlInv, Removing, Sifting, Bottom
  <1>6. IndexInv'
    BY <1>2, <1>3 DEF IndexInv
  <1>7. HeapInv'
    BY <1>2, <1>3 DEF HeapInv, Child
  <1>8. OwnershipInv'
    <2>1. heap_[0] \in HeapIds
      BY <1>1 DEF HeapIds
    <2>2. live' = HeapIds' \cup ({entry'} \ {NULL})
      BY <2>1, <1>2, <1>3 DEF OwnershipInv
    <2>3. \A k \in Slots(Bottom) : heap_'[k] \in Ids /\ heap_'[k] \in ref_
      BY <1>1, <1>2, <1>3 DEF OwnershipInv, HeapIds, TypeOK
    <2> QED
      BY <2>2, <2>3, <1>2, <1>3 DEF OwnershipInv, Sifting
  <1> QED
    BY <1>4, <1>5, <1>6, <1>7, <1>8

\* CancelTimer takes the entry it found out of the heap.
LEMMA CancelPendingIInv == ASSUME IInv, NEW id \in Ids, CancelPending(id) PROVE IInv'
  <1> USE BoundsAssumption, NullAssumption DEF IInv, CancelPending, sched, store, local
  <1> DEFINE i == index[id]
  <1>1. i \in Slots(heap_size) /\ heap_[i] = id /\ Active = heap_size /\ heap_size \in Nat
    BY FoundInHeap
  <1>2. i \in Nat /\ heap_size # 0 /\ Bottom \in Nat /\ Bottom' = Bottom
        /\ Bottom \in Slots(heap_size)
    BY <1>1 DEF Slots, Bottom
  <1>3. Active' = Bottom /\ entry \in Ids \cup {NULL} /\ pc' # "loop" /\ Sifting'
    BY DEF Active, Removing, Sifting, Bottom, TypeOK
  <1>4. id # entry
    BY DEF OwnershipInv, InUserCode, Sifting
  <1>5. \A k \in Slots(Bottom) : k \in Slots(heap_size) /\ k # Bottom /\ k \in Nat
    BY <1>1, <1>2 DEF Slots, Bottom
  <1>6. CASE i # Bottom
    <2>1. /\ heap_' \in [Slots(heap_size) -> Ids]
          /\ index' \in [Ids -> Nat]
          /\ heap_'[Bottom] = id
          /\ i <= Bottom
          /\ \A k \in Slots(Bottom) : heap_'[k] # id /\ heap_'[k] \in HeapIds
          /\ \A a, c \in Slots(heap_size) : heap_'[a] = heap_'[c] => a = c
          /\ \A k \in Slots(Bottom) : index'[heap_'[k]] = k
          /\ HeapIds' = HeapIds
          /\ \A a, c \in Slots(Bottom) :
                /\ Child(a, c) /\ a # i /\ c # i => Ordered(a, c)'
                /\ Child(a, i) /\ Child(i, c) => Ordered(a, c)'
      <3> HIDE DEF i
      <3>1. /\ heap_' = Swap(heap_, i, Bottom) /\ heap_size' = heap_size /\ expire' = expire
            /\ index' = [index EXCEPT ![heap_[Bottom]] = i] /\ pc = "ready"
        BY <1>6 DEF InUserCode, i
      <3> QED
        BY <3>1, <1>1, DetachFacts
    <2>2. pc' = "siftdown" /\ pos' = i /\ x' = i
      BY <1>6
    <2> HIDE DEF i
    <2>3. TypeOK'
      BY <2>1, <2>2, <1>1, <1>2 DEF TypeOK
    <2>4. ControlInv'
      BY <2>1, <2>2, <1>2, <1>3, <1>4, <1>6 DEF ControlInv, Removing, Sifting
    <2>5. IndexInv'
      BY <2>1, <1>3 DEF IndexInv
    <2>6. HeapInv'
      BY <2>1, <2>2, <1>3 DEF HeapInv, Child
    <2>7. OwnershipInv'
      <3>1. \A k \in Slots(Bottom) : heap_'[k] # entry /\ heap_'[k] \in ref_
        BY <2>1, <1>1, <1>5 DEF OwnershipInv, HeapIds, TypeOK
      <3> QED
        BY <3>1, <2>1, <1>3 DEF OwnershipInv, Sifting, InUserCode
    <2> QED
      BY <2>3, <2>4, <2>5, <2>6, <2>7
  <1>7. CASE i = Bottom
    <2>1. pc' = "finish" /\ heap_' = heap_ /\ index' = index /\ x' = x /\ pos' = pos
      BY <1>7
    <2> HIDE DEF i
    <2>2. TypeOK'
      BY <2>1 DEF TypeOK
    <2>3. ControlInv'
      BY <2>1, <1>1, <1>2, <1>4, <1>7 DEF ControlInv, Removing, Sifting
    <2>4. IndexInv'
      BY <2>1, <1>1, <1>3, <1>5 DEF IndexInv
    <2>5. HeapInv'
      BY <2>1, <1>1, <1>3, <1>5 DEF HeapInv, InUserCode, Ordered
    <2>6. OwnershipInv'
      <3>1. HeapIds' = HeapIds
        BY <2>1 DEF HeapIds
      <3>2. \A k \in Slots(Bottom) : heap_[k] # id
        BY <1>1, <1>2, <1>5, <1>7 DEF IndexInv
      <3> QED
        BY <3>1, <3>2, <2>1, <1>1, <1>3, <1>5 DEF OwnershipInv, Sifting, InUserCode
    <2> QED
      BY <2>2, <2>3, <2>4, <2>5, <2>6
  <1> QED
    BY <1>6, <1>7
\* pop_back drops the last slot, which holds the entry being removed, and
\* leaves the slots in use as they were.
LEMMA PopBackFacts ==
  ASSUME IInv, Removing, pc = "finish", PopBack, ~Removing'
  PROVE  /\ Active = Bottom /\ Active' = Bottom /\ heap_size' = Bottom
         /\ Bottom \in Nat
         /\ heap_' \in [Slots(Bottom) -> Ids]
         /\ \A k \in Slots(Bottom) : k \in Slots(heap_size) /\ heap_'[k] = heap_[k]
         /\ HeapIds' = HeapIds \ {heap_[Bottom]}
         /\ heap_[Bottom] \in HeapIds
  <1> USE DEF IInv, PopBack
  <1>1. /\ heap_size \in Nat /\ Bottom \in Nat /\ heap_size' = Bottom
        /\ Active = Bottom /\ Active' = Bottom
        /\ Bottom \in Slots(heap_size)
        /\ heap_ \in [Slots(heap_size) -> Ids]
    BY DEF TypeOK, ControlInv, Bottom, Active, Slots
  <1>2. heap_' = [k \in Slots(Bottom) |-> heap_[k]]
    BY DEF Bottom
  <1>3. \A k \in Slots(heap_size) : k \in Slots(Bottom) \/ k = Bottom
    BY <1>1 DEF Slots, Bottom
  <1>4. \A k \in Slots(Bottom) : k \in Slots(heap_size) /\ heap_'[k] = heap_[k] /\ k # Bottom
    BY <1>1, <1>2 DEF Slots, Bottom
  <1>5. heap_' \in [Slots(Bottom) -> Ids]
    BY <1>1, <1>2, <1>4
  <1>6. HeapIds' = HeapIds \ {heap_[Bottom]}
    <2>1. ASSUME NEW k \in Slots(Bottom) PROVE heap_'[k] \in HeapIds \ {heap_[Bottom]}
      BY <1>1, <1>4 DEF HeapIds, IndexInv
    <2>2. HeapIds' = {heap_'[k] : k \in Slots(Bottom)}
      BY <1>1 DEF HeapIds
    <2>3. HeapIds' \subseteq HeapIds \ {heap_[Bottom]}
      BY <2>1, <2>2
    <2>4. ASSUME NEW k \in Slots(heap_size), heap_[k] # heap_[Bottom] PROVE heap_[k] \in HeapIds'
      <3>1. k \in Slots(Bottom)
        BY <2>4, <1>3
      <3> QED
        BY <3>1, <1>1, <1>4 DEF HeapIds
    <2>5. HeapIds \ {heap_[Bottom]} \subseteq HeapIds'
      BY <2>4 DEF HeapIds
    <2> QED
      BY <2>3, <2>5
  <1> QED
    BY <1>1, <1>4, <1>5, <1>6 DEF HeapIds

\* CancelTimer drops and deletes its entry.
LEMMA CancelTimerEndIInv == ASSUME IInv, CancelTimerEnd PROVE IInv'
  <1> USE BoundsAssumption, NullAssumption DEF IInv, CancelTimerEnd, sched, store, local
  <1>1. /\ Active = Bottom /\ Active' = Bottom /\ heap_size' = Bottom
        /\ Bottom \in Nat
        /\ heap_' \in [Slots(Bottom) -> Ids]
        /\ \A k \in Slots(Bottom) : k \in Slots(heap_size) /\ heap_'[k] = heap_[k]
        /\ HeapIds' = HeapIds \ {heap_[Bottom]}
        /\ heap_[Bottom] \in HeapIds
    BY PopBackFacts DEF Removing, Sifting
  <1>2. victim = heap_[Bottom] /\ victim' = NULL
    BY DEF ControlInv, Sifting
  <1>3. TypeOK'
    BY <1>1 DEF TypeOK
  <1>4. ControlInv'
    BY DEF ControlInv, Removing, Sifting
  <1>5. IndexInv'
    BY <1>1 DEF IndexInv
  <1>6. HeapInv'
    BY <1>1 DEF HeapInv, Ordered
  <1>7. OwnershipInv'
    <2>1. victim # entry
      BY DEF ControlInv, Sifting
    <2>2. live' = HeapIds' \cup ({entry'} \ {NULL})
      BY <2>1, <1>1, <1>2 DEF OwnershipInv
    <2>3. \A k \in Slots(Bottom) : heap_'[k] # NULL /\ heap_'[k] # entry /\ heap_'[k] \in ref_
      BY <1>1 DEF OwnershipInv, TypeOK
    <2> QED
      BY <2>2, <2>3, <1>1, <1>2 DEF OwnershipInv, Sifting
  <1> QED
    BY <1>3, <1>4, <1>5, <1>6, <1>7

\* UpdateTimer drops its entry and forgets the id.
LEMMA UnlinkIInv == ASSUME IInv, Unlink PROVE IInv'
  <1> USE BoundsAssumption, NullAssumption DEF IInv, Unlink, sched, store, local
  <1>1. /\ Active = Bottom /\ Active' = Bottom /\ heap_size' = Bottom
        /\ Bottom \in Nat
        /\ heap_' \in [Slots(Bottom) -> Ids]
        /\ \A k \in Slots(Bottom) : k \in Slots(heap_size) /\ heap_'[k] = heap_[k]
        /\ HeapIds' = HeapIds \ {heap_[Bottom]}
        /\ heap_[Bottom] \in HeapIds
    BY PopBackFacts DEF Removing, Sifting
  <1>2. entry = heap_[Bottom] /\ victim = NULL /\ entry # NULL
    BY <1>1 DEF ControlInv, Sifting, HeapIds, TypeOK
  <1>3. TypeOK'
    BY <1>1 DEF TypeOK
  <1>4. ControlInv'
    BY <1>2 DEF ControlInv, Removing, Sifting
  <1>5. IndexInv'
    BY <1>1 DEF IndexInv
  <1>6. HeapInv'
    BY <1>1 DEF HeapInv, Ordered
  <1>7. OwnershipInv'
    <2>1. live' = HeapIds' \cup ({entry'} \ {NULL})
      BY <1>1, <1>2 DEF OwnershipInv
    <2>2. \A k \in Slots(Bottom) : heap_'[k] # NULL /\ heap_'[k] # entry /\ heap_'[k] \in ref_
      BY <1>1 DEF OwnershipInv, TypeOK
    <2>3. entry' \notin ref_'
      BY DEF TypeOK
    <2> QED
      BY <2>1, <2>2, <2>3, <1>1, <1>2 DEF OwnershipInv, Sifting
  <1> QED
    BY <1>3, <1>4, <1>5, <1>6, <1>7

\* OnTimeout returns and UpdateTimer deletes the entry.
LEMMA CallbackReturnIInv == ASSUME IInv, CallbackReturn PROVE IInv'
  <1> USE BoundsAssumption, NullAssumption
      DEF IInv, CallbackReturn, InCallback, InUserCode, sched, store, local
  <1>1. Active = heap_size /\ Active' = heap_size /\ HeapIds' = HeapIds
    BY DEF Active, Removing, Sifting, HeapIds
  <1>2. TypeOK' /\ ControlInv'
    BY DEF TypeOK, ControlInv, Removing, Sifting
  <1>3. IndexInv' /\ HeapInv'
    BY <1>1 DEF IndexInv, HeapInv, Ordered
  <1>4. OwnershipInv'
    <2>1. entry \notin HeapIds
      BY <1>1 DEF OwnershipInv, HeapIds
    <2>2. live' = HeapIds' \cup ({entry'} \ {NULL})
      BY <2>1, <1>1 DEF OwnershipInv
    <2>3. \A k \in Slots(heap_size) : heap_[k] # NULL
      BY DEF TypeOK
    <2> QED
      BY <2>2, <2>3, <1>1 DEF OwnershipInv, TypeOK
  <1> QED
    BY <1>2, <1>3, <1>4

\* The destructor deletes every entry of the heap.
LEMMA DestroyIInv == ASSUME IInv, Destroy PROVE IInv'
  <1> USE BoundsAssumption, NullAssumption DEF IInv, Destroy, InUserCode, sched, store, local
  <1>1. TypeOK'
    <2>1. heap_' \in [Slots(heap_size') -> Ids] /\ heap_size' \in Nat
      BY DEF Slots
    <2>2. live' \subseteq Ids /\ ref_' \subseteq Ids
      BY DEF TypeOK
    <2> QED
      BY <2>1, <2>2 DEF TypeOK
  <1>2. ControlInv'
    BY DEF ControlInv, Removing, Sifting
  <1>3. IndexInv' /\ HeapInv'
    BY DEF IndexInv, HeapInv, Active, Removing, Sifting, Slots
  <1>4. OwnershipInv'
    BY DEF OwnershipInv, Active, Removing, Sifting, Slots, HeapIds
  <1> QED
    BY <1>1, <1>2, <1>3, <1>4

\* Nothing the invariant speaks of changes when no variable does.
LEMMA StutterIInv == ASSUME IInv, UNCHANGED vars PROVE IInv'
  BY DEF IInv, vars, sched, store, local, TypeOK, ControlInv, IndexInv, HeapInv, OwnershipInv,
         Active, Removing, Sifting, Bottom, HeapIds, Ordered

\* Every step of the scheduler and of its users preserves the invariant.
LEMMA NextIInv == IInv /\ [Next]_vars => IInv'
  <1> SUFFICES ASSUME IInv, [Next]_vars PROVE IInv'
    OBVIOUS
  <1>1. CASE Tick
    BY <1>1, TickIInv
  <1>2. ASSUME NEW millsec \in Delays, NEW event \in Sinks, AddTimer(millsec, event)
        PROVE  IInv'
    BY <1>2, AddTimerIInv
  <1>3. ASSUME NEW id \in Ids, CancelTimer(id) PROVE IInv'
    BY <1>3, CancelDanglingIInv, CancelPendingIInv, StutterIInv DEF CancelTimer, CancelUnknown
  <1>4. CASE UpdateTimer
    BY <1>4, UpdateTimerIInv
  <1>5. CASE CallbackReturn
    BY <1>5, CallbackReturnIInv
  <1>6. CASE SchedStep
    BY <1>6, SiftDownStepIInv, SiftDownEndIInv, SiftUpStepIInv, SiftUpEndIInv, AddTimerEndIInv,
       CancelTimerEndIInv, LoopExitIInv, PopTopIInv, UnlinkIInv, StutterIInv
       DEF SchedStep, LoopContinue
  <1>7. CASE Destroy
    BY <1>7, DestroyIInv
  <1>8. CASE Halted \/ UNCHANGED vars
    BY <1>8, StutterIInv DEF Halted
  <1> QED
    BY <1>1, <1>2, <1>3, <1>4, <1>5, <1>6, <1>7, <1>8 DEF Next

\* The scheduler's state satisfies the inductive invariant at all times,
\* whatever its callers and callbacks add and cancel, until a dangling cancel.
THEOREM Invariance == Spec => []IInv
  BY InitIInv, NextIInv, PTL DEF Spec

\* Type correctness of the scheduler's state (TimerSched.h:28-30).
THEOREM TypeCorrect == Spec => []TypeOK
  BY Invariance, PTL DEF IInv

\* heap_ is a min-heap whenever no sift is running, and a heap but for the
\* moving slot while one is (siftup, siftdown, and their three callers).
THEOREM HeapCorrect == Spec => []HeapInv
  BY Invariance, PTL DEF IInv

\* TimerEntry::index names the slot of every timer in the heap, so that
\* CancelTimer removes the timer it was asked to remove.
THEOREM IndexCorrect == Spec => []IndexInv
  BY Invariance, PTL DEF IInv

\* No entry is leaked or freed while the heap points to it.
THEOREM OwnershipCorrect == Spec => []OwnershipInv
  BY Invariance, PTL DEF IInv
-----------------------------------------------------------------------------
(* The scheduler implements the timer queue. *)

\* Every non-empty set of naturals has a least element.
LEMMA LeastNat == ASSUME NEW T, T \subseteq Nat, T # {}
                  PROVE  \E n \in T : \A m \in T : n <= m
  <1> DEFINE R == OpToRel(<, Nat)
  <1>1. PICK n \in T : \A m \in T : ~(<<m, n>> \in R)
    <2>1. IsWellFoundedOn(R, Nat)
      BY NatLessThanWellFounded
    <2> HIDE DEF R
    <2> QED
      BY <2>1, WFMin
  <1>2. \A m \in T : ~(m < n)
    BY <1>1 DEF OpToRel
  <1> QED
    BY <1>2

\* In a heap the top is the earliest of all entries: local order between
\* parents and children reaches every slot.
LEMMA TopIsEarliest ==
  ASSUME IInv, pc = "loop", heap_size # 0, NEW k \in Slots(heap_size)
  PROVE  expire[heap_[0]] <= expire[heap_[k]]
  <1> USE DEF IInv
  <1>1. /\ Active = heap_size /\ heap_size \in Nat /\ 0 \in Slots(heap_size)
        /\ \A c \in Slots(heap_size) : c \in Nat /\ expire[heap_[c]] \in Int
    BY SlotTypes DEF Active, Removing, Sifting, TypeOK, Slots
  <1> DEFINE Earlier == {c \in Slots(heap_size) : expire[heap_[c]] < expire[heap_[0]]}
  <1> SUFFICES ASSUME Earlier # {} PROVE FALSE
    BY <1>1
  <1>2. PICK c \in Earlier : \A m \in Earlier : c <= m
    <2>1. Earlier \subseteq Nat
      BY <1>1
    <2> HIDE DEF Earlier
    <2> QED
      BY <2>1, LeastNat
  <1>3. /\ c # 0 /\ c \in Slots(heap_size) /\ c \in Nat
        /\ expire[heap_[c]] < expire[heap_[0]]
    BY <1>1
  <1>4. Parent(c) \in Slots(heap_size) /\ Parent(c) < c /\ Child(Parent(c), c)
    BY <1>1, <1>3, ParentFacts DEF Slots
  <1>5. expire[heap_[Parent(c)]] <= expire[heap_[c]]
    BY <1>1, <1>3, <1>4 DEF HeapInv, Ordered
  <1>6. expire[heap_[Parent(c)]] < expire[heap_[0]]
    <2>1. /\ expire[heap_[Parent(c)]] \in Int /\ expire[heap_[c]] \in Int
          /\ expire[heap_[0]] \in Int
      BY <1>1, <1>3, <1>4
    <2> QED
      BY <2>1, <1>3, <1>5
  <1>7. Parent(c) \in Earlier
    BY <1>4, <1>6
  <1>8. c <= Parent(c) /\ Parent(c) \in Nat
    BY <1>1, <1>2, <1>4, <1>7
  <1> QED
    BY <1>3, <1>4, <1>8

\* The heap holds entries, never nullptr.
LEMMA HeapIdsType == ASSUME TypeOK PROVE HeapIds \subseteq Ids /\ NULL \notin HeapIds
  BY NullAssumption DEF TypeOK, HeapIds

\* A sift moves entries between slots and removes none.
LEMMA SiftKeepsIds == ASSUME IInv, SiftUpStep \/ SiftDownStep PROVE HeapIds' = HeapIds
  <1> USE DEF IInv
  <1>1. CASE SiftUpStep
    <2>1. /\ pos \in Nat /\ Parent(pos) \in Nat /\ Parent(pos) < pos /\ pos < Active
          /\ Active \in Nat /\ Active <= heap_size /\ heap_size \in Nat
      BY <1>1, ParentFacts, ActiveType DEF SiftUpStep, SiftUpMoves, TypeOK, ControlInv
    <2>2. pos \in Slots(heap_size) /\ Parent(pos) \in Slots(heap_size) /\ Parent(pos) # pos
      BY <2>1 DEF Slots
    <2> QED
      BY <1>1, <2>2, SwapFacts DEF SiftUpStep
  <1>2. CASE SiftDownStep
    <2>1. SmallerChild(pos) \in Slots(Active) /\ Child(pos, SmallerChild(pos))
      BY <1>2, SmallerChildFacts DEF SiftDownStep, SiftDownMoves
    <2> DEFINE j == SmallerChild(pos)
    <2> HIDE DEF j
    <2>2. j \in Slots(heap_size) /\ pos \in Slots(heap_size) /\ j # pos
      <3>1. j \in Slots(Active) /\ Child(pos, j)
        BY <2>1 DEF j
      <3> QED
        BY <3>1, ActiveType, SMTT(30) DEF Slots, Child, TypeOK
    <2>3. SwapSlots(pos, j) /\ heap_size' = heap_size
      BY <1>2 DEF SiftDownStep, j
    <2> QED
      BY <2>2, <2>3, SwapFacts
  <1> QED
    BY <1>1, <1>2
\* The empty scheduler is the empty queue.
LEMMA InitRefines == Init => Queue!QInit
  BY BoundsAssumption DEF Init, Queue!QInit, HeapIds, Slots, Ids

\* UpdateTimer fires the earliest due timer.
LEMMA PopTopRefines == ASSUME IInv, PopTop PROVE Queue!QFire(heap_[0])
  <1> USE DEF IInv, PopTop
  <1>1. /\ heap_size # 0 /\ heap_size \in Nat /\ 0 \in Slots(heap_size)
        /\ entry = NULL /\ victim = NULL /\ pc' = "siftdown" /\ entry' = heap_[0]
    BY DEF TopIsDue, TypeOK, Slots, ControlInv, Removing, Sifting
  <1>2. HeapIds' = HeapIds
    BY <1>1, DetachFacts
  <1>3. heap_[0] \in HeapIds /\ NULL \notin HeapIds
    BY <1>1, HeapIdsType DEF HeapIds
  <1>4. expire[heap_[0]] <= clock
    <2>1. heap_[0] \in Ids /\ expire[heap_[0]] \in Int /\ now \in Int /\ clock \in Int /\ now <= clock
      BY <1>1, BoundsAssumption DEF TypeOK
    <2> QED
      BY <2>1 DEF TopIsDue
  <1>5. \A other \in HeapIds : expire[heap_[0]] <= expire[other]
    BY <1>1, TopIsEarliest DEF HeapIds
  <1>6. HeapIds' \ {entry', victim'} = (HeapIds \ {entry, victim}) \ {heap_[0]}
    BY <1>1, <1>2, <1>3
  <1>7. {id \in Ids : id >= next_id_'} = {id \in Ids : id >= next_id_}
    BY DEF sched
  <1> QED
    BY <1>1, <1>3, <1>4, <1>5, <1>6, <1>7 DEF Queue!QFire

\* CancelTimer cancels the timer it was asked to cancel.
LEMMA CancelRefines == ASSUME IInv, NEW id \in Ids, CancelPending(id) PROVE Queue!QCancel(id)
  <1> USE DEF IInv, CancelPending
  <1>1. /\ index[id] \in Slots(heap_size) /\ heap_[index[id]] = id
        /\ victim = NULL /\ victim' = id /\ entry' = entry /\ entry # id
        /\ pc = "ready" /\ pc' \in {"siftdown", "finish"}
    BY FoundInHeap DEF InUserCode, ControlInv, OwnershipInv, Sifting
  <1>2. id \in HeapIds /\ NULL \notin HeapIds
    BY <1>1, HeapIdsType DEF HeapIds
  <1>3. HeapIds' = HeapIds
    <2>1. CASE index[id] # Bottom
      BY <1>1, <2>1, DetachFacts
    <2>2. CASE index[id] = Bottom
      BY <2>2 DEF HeapIds
    <2> QED
      BY <2>1, <2>2
  <1>4. HeapIds' \ {entry', victim'} = (HeapIds \ {entry, victim}) \ {id}
    BY <1>1, <1>2, <1>3
  <1>5. {i \in Ids : i >= next_id_'} = {i \in Ids : i >= next_id_}
    BY DEF sched
  <1> QED
    BY <1>1, <1>2, <1>4, <1>5, NullAssumption DEF Queue!QCancel

\* AddTimer adds a timer under a fresh id.
LEMMA AddRefines == ASSUME IInv, NEW millsec \in Delays, NEW event \in Sinks,
                           AddTimer(millsec, event)
                    PROVE  Queue!QAdd(next_id_, millsec)
  <1> USE DEF IInv, AddTimer
  <1>1. /\ next_id_ \in Ids /\ next_id_ \in Int /\ heap_size \in Nat
        /\ pc = "ready" /\ pc' = "siftup" /\ entry' = entry /\ victim' = victim
        /\ victim = NULL
    BY BoundsAssumption DEF InUserCode, ControlInv, Sifting, Ids, TypeOK
  <1>2. entry # next_id_
    <2>1. entry # NULL => entry < next_id_ /\ entry \in Int
      BY DEF OwnershipInv, TypeOK, Ids
    <2> QED
      BY <2>1, <1>1, NullAssumption
  <1>3. HeapIds' = HeapIds \cup {next_id_}
    <2>1. \A k \in Slots(heap_size + 1) : k \in Slots(heap_size) \/ k = heap_size
      BY <1>1 DEF Slots
    <2>2. heap_size \in Slots(heap_size + 1) /\ Slots(heap_size) \subseteq Slots(heap_size + 1)
      BY <1>1 DEF Slots
    <2>3. heap_size \notin Slots(heap_size)
      BY <1>1 DEF Slots
    <2>4. \A k \in Slots(heap_size) : heap_'[k] = heap_[k]
      BY <2>2, <2>3
    <2>5. heap_'[heap_size] = next_id_ /\ heap_size' = heap_size + 1
      BY <2>2
    <2> QED
      BY <2>1, <2>2, <2>4, <2>5 DEF HeapIds
  <1>4. HeapIds' \ {entry', victim'} = (HeapIds \ {entry, victim}) \cup {next_id_}
    BY <1>1, <1>2, <1>3, NullAssumption
  <1>5. {i \in Ids : i >= next_id_'} = {i \in Ids : i >= next_id_} \ {next_id_}
    BY <1>1, BoundsAssumption DEF Ids
  <1>6. next_id_ \in {i \in Ids : i >= next_id_}
    BY <1>1
  <1> QED
    BY <1>1, <1>4, <1>5, <1>6 DEF Queue!QAdd

\* Every step of the scheduler is a step of the queue or invisible.
LEMMA StepRefines == IInv /\ [Next]_vars => [Queue!QNext]_(Queue!qvars)
  <1> SUFFICES ASSUME IInv, [Next]_vars PROVE Queue!QNext \/ UNCHANGED Queue!qvars
    OBVIOUS
  <1> USE NullAssumption DEF IInv, sched, store, local
  <1> DEFINE Same == /\ clock' = clock /\ next_id_' = next_id_ /\ expire' = expire
                     /\ HeapIds' \ {entry', victim'} = HeapIds \ {entry, victim}
                     /\ (pc = "destroyed") = (pc' = "destroyed")
             Hidden == Same /\ entry' = entry
  <1>1. Hidden => UNCHANGED Queue!qvars
    BY DEF Queue!qvars
  <1>0. Same /\ entry # NULL /\ entry' = NULL => Queue!QNext
    BY DEF Queue!QNext, Queue!QDone
  <1>2. CASE Tick
    <2>1. HeapIds' = HeapIds
      BY <1>2 DEF Tick, HeapIds
    <2> QED
      BY <1>2, <2>1 DEF Tick, Queue!QNext, Queue!QTick
  <1>3. ASSUME NEW millsec \in Delays, NEW event \in Sinks, AddTimer(millsec, event)
        PROVE  Queue!QNext
    <2>1. next_id_ \in Ids
      BY <1>3 DEF AddTimer
    <2> QED
      BY <1>3, <2>1, AddRefines DEF Queue!QNext
  <1>4. ASSUME NEW id \in Ids, CancelTimer(id) PROVE Queue!QNext \/ Hidden
    <2>1. CASE CancelUnknown(id)
      BY <2>1 DEF CancelUnknown, vars, HeapIds
    <2>2. CASE CancelDangling(id)
      BY <2>2 DEF CancelDangling, InUserCode, HeapIds
    <2>3. CASE CancelPending(id)
      BY <2>3, CancelRefines DEF Queue!QNext
    <2> QED
      BY <1>4, <2>1, <2>2, <2>3 DEF CancelTimer
  <1>5. CASE UpdateTimer
    BY <1>1, <1>5 DEF UpdateTimer, InUserCode, HeapIds
  <1>6. CASE CallbackReturn
    <2>1. HeapIds' = HeapIds /\ entry' = NULL /\ victim' = victim
      BY <1>6 DEF CallbackReturn, HeapIds
    <2>2. entry \notin HeapIds
      BY <1>6 DEF CallbackReturn, InCallback, InUserCode, OwnershipInv, HeapIds,
                  Active, Removing, Sifting
    <2>3. Same /\ entry # NULL
      BY <1>6, <2>1, <2>2, HeapIdsType DEF CallbackReturn, InCallback, InUserCode
    <2> QED
      BY <1>0, <2>1, <2>3
  <1>7. CASE SchedStep
    <2>1. CASE SiftUpStep \/ SiftDownStep
      BY <1>1, <2>1, SiftKeepsIds DEF SiftUpStep, SiftDownStep
    <2>2. CASE SiftUpEnd \/ SiftDownEnd \/ AddTimerEnd \/ LoopExit \/ LoopContinue
      <3>1. HeapIds' = HeapIds
        BY <2>2 DEF SiftUpEnd, SiftDownEnd, AddTimerEnd, LoopExit, LoopContinue, vars, HeapIds
      <3> QED
        BY <1>1, <2>2, <3>1
        DEF SiftUpEnd, SiftDownEnd, AddTimerEnd, LoopExit, LoopContinue, vars
    <2>3. CASE CancelTimerEnd
      <3>1. HeapIds' = HeapIds \ {heap_[Bottom]}
        BY <2>3, PopBackFacts DEF CancelTimerEnd, Removing, Sifting
      <3>2. victim = heap_[Bottom] /\ victim' = NULL /\ entry' = entry
        BY <2>3 DEF CancelTimerEnd, ControlInv, Sifting
      <3>3. Hidden
        BY <2>3, <3>1, <3>2, HeapIdsType DEF CancelTimerEnd
      <3> QED
        BY <1>1, <3>3
    <2>4. CASE Unlink
      <3>1. HeapIds' = HeapIds \ {heap_[Bottom]}
        BY <2>4, PopBackFacts DEF Unlink, Removing, Sifting
      <3>2. entry = heap_[Bottom] /\ victim' = victim /\ entry' \in {entry, NULL}
        BY <2>4 DEF Unlink, ControlInv, Sifting
      <3>3. entry \in HeapIds /\ entry # NULL
        BY <2>4, <3>2, HeapIdsType DEF Unlink, ControlInv, Removing, Sifting, HeapIds, Bottom,
                                       Slots, TypeOK
      <3>4. Same
        BY <2>4, <3>1, <3>2, HeapIdsType DEF Unlink
      <3> QED
        BY <1>0, <1>1, <3>2, <3>3, <3>4
    <2>5. CASE PopTop
      <3>1. heap_[0] \in Ids
        BY <2>5 DEF PopTop, TopIsDue, TypeOK, Slots
      <3> QED
        BY <2>5, <3>1, PopTopRefines DEF Queue!QNext
    <2> QED
      BY <1>7, <2>1, <2>2, <2>3, <2>4, <2>5 DEF SchedStep
  <1>8. CASE Destroy
    <2>1. HeapIds' = {}
      BY <1>8 DEF Destroy, HeapIds, Slots
    <2> QED
      BY <1>8, <2>1 DEF Destroy, InUserCode, Queue!QNext, Queue!QClose
  <1>9. CASE Halted \/ UNCHANGED vars
    BY <1>1, <1>9 DEF Halted, vars, HeapIds
  <1> QED
    BY <1>1, <1>2, <1>3, <1>4, <1>5, <1>6, <1>7, <1>8, <1>9 DEF Next

\* The scheduler implements the timer queue: for every sequence of AddTimer,
\* CancelTimer and UpdateTimer calls, from the loop or from callbacks, timers
\* fire in deadline order and never early, and none is lost or invented.
THEOREM Refinement == Spec => ImplementsQueue
  <1>1. Init => Queue!QInit
    BY InitRefines
  <1>2. IInv /\ [Next]_vars => [Queue!QNext]_(Queue!qvars)
    BY StepRefines
  <1> QED
    BY <1>1, <1>2, Invariance, PTL DEF Spec, ImplementsQueue, Queue!QSpec
-----------------------------------------------------------------------------
(* Timers created by callbacks wait for the next call of UpdateTimer, if   *)
(* every delay is positive.                                                *)

PositiveDelays == \A d \in Delays : d > 0

\* While UpdateTimer runs, the timers created since it began are not due at
\* the time it read.
YoungNotDue == InUpdate => \A id \in HeapIds : id >= last_id => now < expire[id]

\* Callbacks can only add timers that are later than the time UpdateTimer read.
LEMMA YoungNotDueStep == PositiveDelays /\ IInv /\ YoungNotDue /\ [Next]_vars => YoungNotDue'
  <1> SUFFICES ASSUME PositiveDelays, IInv, YoungNotDue, [Next]_vars PROVE YoungNotDue'
    OBVIOUS
  <1> USE NullAssumption, BoundsAssumption DEF IInv, sched, store, local, InUpdate
  <1> DEFINE Quiet == /\ HeapIds' \subseteq HeapIds /\ expire' = expire
                      /\ last_id' = last_id /\ now' = now
                      /\ InUpdate' => InUpdate
  <1>1. Quiet => YoungNotDue'
    BY DEF YoungNotDue
  <1>2. CASE Tick
    BY <1>1, <1>2 DEF Tick, HeapIds
  <1>3. ASSUME NEW millsec \in Delays, NEW event \in Sinks, AddTimer(millsec, event)
        PROVE  YoungNotDue'
    <2>1. HeapIds' \subseteq HeapIds \cup {next_id_}
      <3>1. \A k \in Slots(heap_size + 1) : k \in Slots(heap_size) \/ k = heap_size
        BY DEF Slots, TypeOK
      <3>2. heap_size' = heap_size + 1 /\ \A k \in Slots(heap_size + 1) :
              heap_'[k] = IF k = heap_size THEN next_id_ ELSE heap_[k]
        BY <1>3 DEF AddTimer
      <3> QED
        BY <3>1, <3>2 DEF HeapIds
    <2>2. now < expire'[next_id_]
      BY <1>3 DEF AddTimer, TypeOK, PositiveDelays
    <2>3. \A id \in HeapIds : id # next_id_ => expire'[id] = expire[id]
      BY <1>3, HeapIdsType DEF AddTimer, TypeOK
    <2> QED
      BY <1>3, <2>1, <2>2, <2>3 DEF YoungNotDue, AddTimer, InUserCode
  <1>4. ASSUME NEW id \in Ids, CancelTimer(id) PROVE YoungNotDue'
    <2>1. CASE CancelUnknown(id)
      BY <1>1, <2>1 DEF CancelUnknown, vars, HeapIds
    <2>2. CASE CancelDangling(id)
      BY <1>1, <2>2 DEF CancelDangling, HeapIds
    <2>3. CASE CancelPending(id)
      <3>1. HeapIds' = HeapIds
        <4>1. /\ index[id] \in Slots(heap_size) /\ pc = "ready"
          BY <2>3, FoundInHeap DEF CancelPending, InUserCode
        <4>2. CASE index[id] # Bottom
          BY <2>3, <4>1, <4>2, DetachFacts DEF CancelPending
        <4>3. CASE index[id] = Bottom
          BY <2>3, <4>3 DEF CancelPending, HeapIds
        <4> QED
          BY <4>2, <4>3
      <3> QED
        BY <1>1, <2>3, <3>1 DEF CancelPending
    <2> QED
      BY <1>4, <2>1, <2>2, <2>3 DEF CancelTimer
  <1>5. CASE UpdateTimer
    <2>1. HeapIds' = HeapIds /\ last_id' = next_id_
      BY <1>5 DEF UpdateTimer, HeapIds
    <2>2. \A id \in HeapIds : ~(id >= next_id_)
      BY DEF OwnershipInv, TypeOK, Ids
    <2> QED
      BY <2>1, <2>2 DEF YoungNotDue
  <1>6. CASE CallbackReturn
    BY <1>1, <1>6 DEF CallbackReturn, InCallback, HeapIds
  <1>7. CASE SchedStep
    <2>1. CASE SiftUpStep \/ SiftDownStep
      BY <1>1, <2>1, SiftKeepsIds DEF SiftUpStep, SiftDownStep
    <2>2. CASE SiftUpEnd \/ SiftDownEnd \/ AddTimerEnd \/ LoopContinue
      <3>1. HeapIds' = HeapIds
        BY <2>2 DEF SiftUpEnd, SiftDownEnd, AddTimerEnd, LoopContinue, vars, HeapIds
      <3> QED
        BY <1>1, <2>2, <3>1 DEF SiftUpEnd, SiftDownEnd, AddTimerEnd, LoopContinue, vars
    <2>3. CASE LoopExit
      BY <2>3 DEF LoopExit, ControlInv, YoungNotDue
    <2>4. CASE CancelTimerEnd
      <3>1. HeapIds' = HeapIds \ {heap_[Bottom]}
        BY <2>4, PopBackFacts DEF CancelTimerEnd, Removing, Sifting
      <3> QED
        BY <1>1, <2>4, <3>1 DEF CancelTimerEnd
    <2>5. CASE Unlink
      <3>1. HeapIds' = HeapIds \ {heap_[Bottom]} /\ heap_[Bottom] \in HeapIds
        BY <2>5, PopBackFacts DEF Unlink, Removing, Sifting
      <3>2. entry # NULL
        BY <2>5, <3>1, HeapIdsType DEF Unlink, ControlInv, Sifting
      <3> QED
        BY <1>1, <2>5, <3>1, <3>2 DEF Unlink
    <2>6. CASE PopTop
      <3>1. 0 \in Slots(heap_size)
        BY <2>6 DEF PopTop, TopIsDue, TypeOK, Slots
      <3>2. HeapIds' = HeapIds
        BY <2>6, <3>1, DetachFacts DEF PopTop
      <3> QED
        BY <1>1, <2>6, <3>2 DEF PopTop
    <2> QED
      BY <1>7, <2>1, <2>2, <2>3, <2>4, <2>5, <2>6 DEF SchedStep
  <1>8. CASE Destroy
    BY <1>8 DEF Destroy, YoungNotDue
  <1>9. CASE Halted \/ UNCHANGED vars
    BY <1>1, <1>9 DEF Halted, vars, HeapIds
  <1> QED
    BY <1>2, <1>3, <1>4, <1>5, <1>6, <1>7, <1>8, <1>9 DEF Next

\* With positive delays UpdateTimer keeps the promise of its comment
\* (TimerSched.cpp:117) although its test is off by one: it only processes
\* timers that existed when it was called, and its loop never starts over
\* without progress.
THEOREM PositiveDelaysAreSafe ==
  ASSUME PositiveDelays
  PROVE  Spec => OnlyOldTimersFire /\ [](pc = "loop" /\ TopIsDue => ~CreatedThisCall(heap_[0]))
  <1>1. Init => YoungNotDue
    BY DEF Init, YoungNotDue, InUpdate
  <1>2. IInv /\ YoungNotDue /\ [Next]_vars => YoungNotDue'
    BY YoungNotDueStep
  <1>3. IInv /\ YoungNotDue => (pc = "loop" /\ TopIsDue => heap_[0] < last_id)
    <2> SUFFICES ASSUME IInv, YoungNotDue, pc = "loop", TopIsDue PROVE heap_[0] < last_id
      OBVIOUS
    <2>1. 0 \in Slots(heap_size) /\ heap_[0] \in Ids
      BY DEF IInv, TopIsDue, TypeOK, Slots
    <2>2. heap_[0] \in HeapIds
      BY <2>1 DEF HeapIds
    <2>3. ~(now < expire[heap_[0]])
      BY <2>1, BoundsAssumption DEF IInv, TopIsDue, TypeOK
    <2> QED
      BY <2>1, <2>2, <2>3, BoundsAssumption DEF YoungNotDue, InUpdate, IInv, TypeOK, Ids
  <1>4. IInv /\ YoungNotDue => [PopTop => heap_[0] < last_id]_vars
    BY <1>3 DEF PopTop
  <1>5. IInv /\ YoungNotDue => (pc = "loop" /\ TopIsDue => ~CreatedThisCall(heap_[0]))
    <2> SUFFICES ASSUME IInv, YoungNotDue, pc = "loop", TopIsDue PROVE ~CreatedThisCall(heap_[0])
      OBVIOUS
    <2>1. heap_[0] \in Int /\ last_id \in Int
      BY BoundsAssumption DEF IInv, TopIsDue, TypeOK, Slots, Ids
    <2> QED
      BY <2>1, <1>3 DEF CreatedThisCall
  <1> QED
    BY <1>1, <1>2, <1>4, <1>5, Invariance, PTL DEF Spec, OnlyOldTimersFire
=============================================================================

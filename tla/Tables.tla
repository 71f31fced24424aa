------------------------------- MODULE Tables -------------------------------
(* Tables of things the system or the allocator hands out under small      *)
(* numbers, the vectors of the pollers, and calls that may fail.  A call   *)
(* is an operator from a state, a record, to the set of states it may      *)
(* leave.                                                                  *)
EXTENDS Integers, Sequences, FiniteSets

With(f, a, v) == [b \in DOMAIN f \cup {a} |-> IF b = a THEN v ELSE f[b]]
Without(f, a) == [b \in DOMAIN f \ {a} |-> f[b]]

\* A number is given out again as soon as it is free.
LeastFree(used) == CHOOSE n \in 1 .. Cardinality(used) + 1 :
                     n \notin used /\ \A j \in 1 .. n - 1 : j \in used

\* std::remove_if and erase: what is not retired, in its order.
Swept(s, retired) ==
  LET Kept[n \in 0 .. Len(s)] ==
        IF n = 0 THEN <<>>
        ELSE IF s[n].fd = retired THEN Kept[n - 1]
        ELSE Append(Kept[n - 1], s[n])
  IN  Kept[Len(s)]

When(cond, set) == IF cond THEN set ELSE {}

\* The state a failing call leaves; failures are bounded by the field faults.
Faulty(failed)  == When(failed.faults > 0, {[failed EXCEPT !.faults = @ - 1]})
=============================================================================

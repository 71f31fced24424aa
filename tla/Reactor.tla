------------------------------ MODULE Reactor ------------------------------
(***************************************************************************)
(* What the pollers promise to the code that uses PollerBase                *)
(* (src/src/PollerBase.h): descriptors are registered with a sink and      *)
(* removed at any time, also from callbacks; Poll calls one sink at a time, *)
(* and only one that is registered at that moment.  There is one exception, *)
(* shared by the pollers that serve several conditions of a descriptor in a*)
(* row: after a callback has removed the very descriptor it was called for,*)
(* Poll may go on to call through its dead entry.                          *)
(***************************************************************************)
EXTENDS Tables

CONSTANTS Descriptors, Sinks, NULL

VARIABLES reg,    \* the registered descriptors with their sinks
          sink,   \* the sink whose callback is running, or NULL
          gone,   \* was the descriptor under service removed?
          broken  \* has Poll called through a dead entry?

rvars == <<reg, sink, gone, broken>>

RInit == /\ reg = [h \in {} |-> NULL]
         /\ sink = NULL
         /\ gone = FALSE
         /\ broken = FALSE

Register(h, s) == /\ h \notin DOMAIN reg
                  /\ reg' = With(reg, h, s)
                  /\ UNCHANGED <<sink, gone, broken>>

Unregister(h) == /\ h \in DOMAIN reg
                 /\ reg' = Without(reg, h)
                 /\ gone' \in {gone, sink = reg[h]}
                 /\ UNCHANGED <<sink, broken>>

Call(s) == /\ sink = NULL
           /\ \E h \in DOMAIN reg : reg[h] = s
           /\ sink' = s
           /\ gone' \in {gone, FALSE}
           /\ UNCHANGED <<reg, broken>>

Return == /\ sink # NULL
          /\ sink' = NULL
          /\ gone' \in {gone, FALSE}
          /\ UNCHANGED <<reg, broken>>

\* Poll is done with the descriptor it was serving.
Leave == /\ gone
         /\ gone' = FALSE
         /\ UNCHANGED <<reg, sink, broken>>

Misfire == /\ sink = NULL
           /\ gone
           /\ broken' = TRUE
           /\ gone' \in BOOLEAN
           /\ UNCHANGED <<reg, sink>>

RNext == /\ ~broken
         /\ \/ \E h \in Descriptors, s \in Sinks : Register(h, s)
            \/ \E h \in Descriptors : Unregister(h)
            \/ \E s \in Sinks : Call(s)
            \/ Return
            \/ Leave
            \/ Misfire

RSpec == RInit /\ [][RNext]_rvars
=============================================================================

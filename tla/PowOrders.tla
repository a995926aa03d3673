----------------------------- MODULE PowOrders -----------------------------
(***************************************************************************)
(* What the proof-of-work manager promises its callers, without its list   *)
(* and its goroutines.  An order is the number of the Run call that        *)
(* created it.  Orders leave the queue in the order of those calls; one    *)
(* that leaves it is either worked on, and then its callback is called     *)
(* once, or thrown away by an order that completes.  Module Pow, the       *)
(* pointer-level model of powmgr/pow.go, implements this specification,    *)
(* and module Outgoing is composed with it.                                *)
(***************************************************************************)
EXTENDS Naturals

CONSTANT MaxOrders      \* bound on the number of Run calls of a behaviour

ASSUME MaxOrdersAssumption == MaxOrders \in Nat

VARIABLES
    submitted,  \* number of orders handed to Run so far
    taken,      \* orders 1..taken have left the queue
    active,     \* orders whose proof of work is being computed
    owed,       \* orders whose callback goroutine exists but has not run
    called      \* orders whose callback has run

ordersVars == <<submitted, taken, active, owed, called>>

Order == 1..MaxOrders

(* Orders that left the queue and will never be worked on.                 *)
Discarded == (1..taken) \ (active \cup owed \cup called)

OrdersInit ==
    /\ submitted = 0
    /\ taken = 0
    /\ active = {}
    /\ owed = {}
    /\ called = {}

Submit ==
    /\ submitted < MaxOrders
    /\ submitted' = submitted + 1
    /\ UNCHANGED <<taken, active, owed, called>>

Begin ==
    /\ taken < submitted
    /\ taken' = taken + 1
    /\ active' = active \cup {taken + 1}
    /\ UNCHANGED <<submitted, owed, called>>

(* Completing an order removes the next one from the queue, if there is    *)
(* one, without working on it.                                             *)
Complete(o) ==
    /\ o \in active
    /\ active' = active \ {o}
    /\ owed' = owed \cup {o}
    /\ taken' = IF taken < submitted THEN taken + 1 ELSE taken
    /\ UNCHANGED <<submitted, called>>

Call(o) ==
    /\ o \in owed
    /\ owed' = owed \ {o}
    /\ called' = called \cup {o}
    /\ UNCHANGED <<submitted, taken, active>>

OrdersNext ==
    \/ Submit
    \/ Begin
    \/ \E o \in Order : Complete(o) \/ Call(o)

OrdersSpec == OrdersInit /\ [][OrdersNext]_ordersVars
=============================================================================

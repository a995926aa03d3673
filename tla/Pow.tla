-------------------------------- MODULE Pow --------------------------------
(***************************************************************************)
(* The proof-of-work manager, powmgr/pow.go: a singly linked list of       *)
(* orders with a head pointer and a pointer to the last node's next field, *)
(* both guarded by a mutex, and the goroutines that empty it.              *)
(*                                                                         *)
(* A node is named by the number of the Run call that allocated it, and 0  *)
(* is the nil pointer.  A worker goroutine is started by at most one call  *)
(* of enqueue and has the number of that order.  A call of enqueue or of   *)
(* dequeue holds the mutex from its first line to its last, so each is one *)
(* action; powFunc touches no shared state and is part of the step that    *)
(* follows it.                                                             *)
(***************************************************************************)
EXTENDS Naturals, FiniteSets

CONSTANT MaxOrders      \* bound on the number of Run calls of a behaviour

ASSUME MaxOrdersAssumption == MaxOrders \in Nat

VARIABLES
    count,      \* number of nodes allocated by enqueue
    head,       \* Pow.head: the first node, or Nil
    tail,       \* Pow.tail points to next[tail]; Nil before the first enqueue
    next,       \* powNode.next of every node
    live,       \* worker goroutines that have not returned
    job,        \* the order a live worker works on, Nil while it polls
    pending,    \* number of callback goroutines started and not yet run
    called      \* number of times the callback of an order has run

vars == <<count, head, tail, next, live, job, pending, called>>

Nil == 0

Order == 1..MaxOrders

Init ==
    /\ count = 0
    /\ head = Nil
    /\ tail = Nil
    /\ next = [n \in Order |-> Nil]
    /\ live = {}
    /\ job = [w \in Order |-> Nil]
    /\ pending = [o \in Order |-> 0]
    /\ called = [o \in Order |-> 0]

(* Mistake: a node is pushed in front of the list instead of at its end.   *)
enqueue_atFront ==
    /\ count < MaxOrders
    /\ count' = count + 1
    /\ next' = [next EXCEPT ![count + 1] = head]
    /\ head' = count + 1
    /\ live' = IF head = Nil THEN live \cup {count + 1} ELSE live
    /\ UNCHANGED <<tail, job, pending, called>>

(* Run and enqueue: a new node goes to the end of the list.  When the list *)
(* is empty a worker is started, whether or not another one is running.    *)
enqueue ==
    /\ count < MaxOrders
    /\ count' = count + 1
    /\ tail' = count + 1
    /\ \/ /\ head = Nil
          /\ head' = count + 1
          /\ live' = live \cup {count + 1}
          /\ UNCHANGED next
       \/ /\ head # Nil
          /\ next' = [next EXCEPT ![tail] = count + 1]
          /\ UNCHANGED <<head, live>>
    /\ UNCHANGED <<job, pending, called>>

(* Mistake: dequeue returns the head without unlinking it.                 *)
dequeue_peek == head' = head

(* dequeue: the new head; tail is left alone even when the list becomes    *)
(* empty, and an empty list stays as it is.                                *)
dequeue == head' = IF head = Nil THEN Nil ELSE next[head]

(* The first dequeue of the loop of work.  A worker that finds nothing     *)
(* returns.                                                                *)
poll(w) ==
    /\ w \in live
    /\ job[w] = Nil
    /\ dequeue
    /\ \/ /\ head = Nil
          /\ live' = live \ {w}
          /\ UNCHANGED job
       \/ /\ head # Nil
          /\ job' = [job EXCEPT ![w] = head]
          /\ UNCHANGED live
    /\ UNCHANGED <<count, tail, next, pending, called>>

(* Mistake: work handles one order and returns instead of looping.         *)
finish_noLoop(w) ==
    /\ w \in live
    /\ job[w] # Nil
    /\ dequeue
    /\ pending' = [pending EXCEPT ![job[w]] = @ + 1]
    /\ job' = [job EXCEPT ![w] = Nil]
    /\ live' = live \ {w}
    /\ UNCHANGED <<count, tail, next, called>>

(* Mistake: the callback is started only when the list is empty.           *)
finish_lastOnly(w) ==
    /\ w \in live
    /\ job[w] # Nil
    /\ dequeue
    /\ pending' = [pending EXCEPT ![job[w]] = IF head = Nil THEN @ + 1 ELSE @]
    /\ job' = [job EXCEPT ![w] = Nil]
    /\ UNCHANGED <<count, tail, next, live, called>>

(* powFunc has returned: the second dequeue, whose result is thrown away,  *)
(* and the callback goroutine of the order that was worked on.             *)
finish(w) ==
    /\ w \in live
    /\ job[w] # Nil
    /\ dequeue
    /\ pending' = [pending EXCEPT ![job[w]] = @ + 1]
    /\ job' = [job EXCEPT ![w] = Nil]
    /\ UNCHANGED <<count, tail, next, live, called>>

(* The goroutine started for donePowFunc runs.                             *)
donePowFunc(o) ==
    /\ pending[o] > 0
    /\ pending' = [pending EXCEPT ![o] = @ - 1]
    /\ called' = [called EXCEPT ![o] = @ + 1]
    /\ UNCHANGED <<count, head, tail, next, live, job>>

Next ==
    \/ enqueue
    \/ \E w \in Order : poll(w) \/ finish(w)
    \/ \E o \in Order : donePowFunc(o)

Spec == Init /\ [][Next]_vars

(* Started goroutines keep being scheduled; callers of Run are free.       *)
Fairness ==
    /\ \A w \in Order : WF_vars(poll(w) \/ finish(w))
    /\ \A o \in Order : WF_vars(donePowFunc(o))

FairSpec == Spec /\ Fairness
-----------------------------------------------------------------------------
(* Orders that have left the list: all those before the head.              *)
Taken == IF head = Nil THEN count ELSE head - 1

Queued == (Taken + 1)..count

(* Orders some worker is computing the proof of work of.                   *)
Active == {o \in Order : \E w \in live : job[w] = o}

Owed == {o \in Order : pending[o] > 0}

Finished == {o \in Order : called[o] > 0}

Discarded == (1..Taken) \ (Active \cup Owed \cup Finished)

(* The types of the fields of Pow and of the goroutines' local state.      *)
TypeOK ==
    /\ count \in 0..MaxOrders
    /\ head \in 0..MaxOrders
    /\ tail \in 0..MaxOrders
    /\ next \in [Order -> 0..MaxOrders]
    /\ live \subseteq Order
    /\ job \in [Order -> 0..MaxOrders]
    /\ pending \in [Order -> Nat]
    /\ called \in [Order -> Nat]

(* The list starting at head links the most recently allocated nodes in    *)
(* the order of the Run calls, ends with nil, and tail points to its last  *)
(* link, even though dequeue never touches tail (pow.go 65-90): no node is *)
(* attached to a link that the list has already let go of.                 *)
ListShape ==
    head # Nil =>
        /\ head <= count
        /\ tail = count
        /\ \A n \in head..count : next[n] = IF n = count THEN Nil ELSE n + 1

(* An order is in one place only: a worker's hands, a callback that has    *)
(* not run, or a callback that has; and no two workers hold the same one.  *)
(* So donePowFunc is called at most once for an order.                     *)
AtMostOnce ==
    /\ \A o \in Order : pending[o] + called[o] <= 1
    /\ Active \cap (Owed \cup Finished) = {}
    /\ \A v, w \in live : job[v] = job[w] /\ job[v] # Nil => v = w

(* A list that is not empty has a worker that will look at it again: the   *)
(* worker that returns saw the list empty under the mutex, and the next    *)
(* enqueue starts another one (pow.go 65-73, 101-103).                     *)
ListIsServed == head # Nil => live # {}

(* The inductive strengthening of the three invariants above: only orders   *)
(* that have left the list are in the hands of workers and callbacks, a    *)
(* node that is not allocated yet has no successor, and a goroutine that   *)
(* is not running holds no order.                                          *)
IndInv ==
    /\ TypeOK
    /\ ListShape
    /\ AtMostOnce
    /\ ListIsServed
    /\ \A o \in Active \cup Owed \cup Finished : o <= Taken
    /\ \A n \in Order : n > count => next[n] = Nil
    /\ \A w \in Order \ live : job[w] = Nil
    /\ \A w \in live : w <= count

(* The discarding dequeue of pow.go 111 throws away at most one order for  *)
(* every order that gets a callback.                                       *)
DiscardsAreBounded ==
    Cardinality(Discarded) <= Cardinality(Owed \cup Finished)

(* Every order is eventually settled: its callback has run or it has been  *)
(* thrown away; nothing stays in the list or in a worker forever.          *)
EverySettled ==
    \A o \in Order : o <= count ~> o \in Finished \cup Discarded

(* pow.go 95-96: "work repeatedly checks the head of the queue and does    *)
(* work on anything there until the queue is empty".  Every order given to *)
(* Run is worked on and its callback runs.                                 *)
EveryOrderIsWorkedOn ==
    \A o \in Order : o <= count ~> o \in Finished

(* The pointer-level manager implements the abstract order service.        *)
Orders == INSTANCE PowOrders WITH
    submitted <- count, taken <- Taken, active <- Active,
    owed <- Owed, called <- Finished

ImplementsOrders == Orders!OrdersSpec
=============================================================================

----------------------------- MODULE PowProofs -----------------------------
(***************************************************************************)
(* Proofs about the proof-of-work manager, for every number of Run calls.  *)
(***************************************************************************)
EXTENDS Pow, FiniteSetTheorems, TLAPS

(* Taken is the number of nodes the list has let go of.                    *)
LEMMA TakenType == IndInv => Taken \in 0..count
BY MaxOrdersAssumption DEF IndInv, TypeOK, ListShape, Taken, Nil, Order

(* dequeue moves Taken by one when there is a node to take and by nothing  *)
(* otherwise, and keeps what is left of the list well formed.              *)
LEMMA DequeueEffect ==
    ASSUME IndInv, dequeue, UNCHANGED <<count, tail, next>>
    PROVE  /\ head = Nil => head' = Nil /\ Taken' = Taken
           /\ head # Nil => head = Taken + 1 /\ Taken' = Taken + 1
           /\ head' \in 0..MaxOrders
           /\ ListShape'
<1>1. CASE head = Nil
  BY <1>1, MaxOrdersAssumption DEF IndInv, TypeOK, ListShape, Taken, Nil, Order, dequeue
<1>2. CASE head # Nil
  <2>1. head \in 1..count /\ head \in Order /\ count \in 0..MaxOrders
    BY <1>2, MaxOrdersAssumption DEF IndInv, TypeOK, ListShape, Nil, Order
  <2>2. head' = IF head = count THEN Nil ELSE head + 1
    BY <1>2, <2>1 DEF IndInv, ListShape, dequeue
  <2>3. head = Taken + 1 /\ Taken' = Taken + 1
    BY <1>2, <2>1, <2>2, MaxOrdersAssumption DEF Taken, Nil
  <2>4. ListShape'
    BY <1>2, <2>1, <2>2, MaxOrdersAssumption DEF IndInv, ListShape, Nil
  <2>5. head' \in 0..MaxOrders
    BY <2>1, <2>2, MaxOrdersAssumption DEF Nil
  <2>6. QED
    BY <1>2, <2>3, <2>4, <2>5
<1>3. QED
  BY <1>1, <1>2

(* The initial state satisfies the inductive invariant.                    *)
LEMMA InitIndInv == Init => IndInv
BY MaxOrdersAssumption
   DEF Init, IndInv, TypeOK, ListShape, AtMostOnce, ListIsServed, Active, Owed,
       Finished, Taken, Nil, Order

(* enqueue: the new node ends the list; if the list was empty it is the    *)
(* list, and the worker started for it makes the list served.              *)
LEMMA EnqueueStep == IndInv /\ enqueue => IndInv'
<1> SUFFICES ASSUME IndInv, enqueue PROVE IndInv'
  OBVIOUS
<1> USE MaxOrdersAssumption
<1>1. count \in Nat /\ count + 1 \in Order /\ count + 1 \notin live
  BY DEF IndInv, TypeOK, enqueue, Order
<1>2. TypeOK'
  <2>0. count + 1 \in 0..MaxOrders
    BY <1>1 DEF Order
  <2>1. next' \in [Order -> 0..MaxOrders]
    <3>1. next' = next \/ next' = [next EXCEPT ![tail] = count + 1]
      BY DEF enqueue
    <3>2. next \in [Order -> 0..MaxOrders]
      BY DEF IndInv, TypeOK
    <3>3. QED
      BY <2>0, <3>1, <3>2
  <2>2. count' \in 0..MaxOrders /\ tail' \in 0..MaxOrders
    BY <1>1 DEF enqueue, Order
  <2>3. head' \in 0..MaxOrders /\ live' \subseteq Order
    <3>1. head' \in {head, count + 1} /\ live' \subseteq live \cup {count + 1}
      BY DEF enqueue
    <3>2. QED
      BY <1>1, <2>0, <3>1 DEF IndInv, TypeOK
  <2>4. QED
    BY <2>1, <2>2, <2>3 DEF IndInv, TypeOK, enqueue
<1>3. ListShape'
  <2>1. CASE head = Nil
    <3>1. head' = count + 1 /\ count' = count + 1 /\ tail' = count + 1 /\ next' = next
      BY <2>1 DEF enqueue
    <3>2. next[count + 1] = Nil
      BY <1>1 DEF IndInv
    <3>3. \A n \in head'..count' : n = count + 1
      BY <1>1, <3>1
    <3>4. QED
      BY <1>1, <3>1, <3>2, <3>3 DEF ListShape
  <2>2. CASE head # Nil
    <3>1. /\ head' = head /\ count' = count + 1 /\ tail' = count + 1
          /\ next' = [next EXCEPT ![count] = count + 1]
          /\ head \in 1..count /\ count \in Order
      BY <1>1, <2>2 DEF IndInv, TypeOK, ListShape, enqueue, Nil, Order
    <3>2. next[count + 1] = Nil /\ \A n \in head..count : n # count => next[n] = n + 1
      BY <1>1, <2>2 DEF IndInv, ListShape
    <3>3. ASSUME NEW n \in head'..count'
          PROVE  next'[n] = IF n = count' THEN Nil ELSE n + 1
      <4>1. n \in Order
        BY <1>1, <3>1 DEF Order
      <4>2. CASE n = count + 1
        BY <1>1, <3>1, <3>2, <4>1, <4>2 DEF IndInv, TypeOK
      <4>3. CASE n # count + 1
        BY <1>1, <3>1, <3>2, <4>1, <4>3 DEF IndInv, TypeOK
      <4>4. QED
        BY <4>2, <4>3
    <3>4. QED
      BY <1>1, <3>1, <3>3 DEF ListShape
  <2>3. QED
    BY <2>1, <2>2
<1>4. Taken' = Taken
  BY <1>1 DEF IndInv, TypeOK, ListShape, enqueue, Taken, Nil, Order
<1>5. job[count + 1] = Nil
  BY <1>1 DEF IndInv
<1>6. Active' = Active /\ Owed' = Owed /\ Finished' = Finished
  BY <1>1, <1>5 DEF enqueue, Active, Owed, Finished, Nil, Order
<1>7. AtMostOnce'
  <2>1. \A v, w \in live' : job'[v] = job'[w] /\ job'[v] # Nil => v = w
    BY <1>1, <1>5 DEF IndInv, AtMostOnce, enqueue
  <2>2. QED
    BY <2>1, <1>6 DEF IndInv, AtMostOnce, enqueue
<1>8. ListIsServed'
  BY DEF IndInv, ListIsServed, enqueue
<1>9. \A o \in (Active \cup Owed \cup Finished)' : o <= Taken'
  BY <1>4, <1>6 DEF IndInv
<1>10. \A n \in Order : n > count' => next'[n] = Nil
  BY <1>1 DEF IndInv, TypeOK, ListShape, enqueue, Nil, Order
<1>11. /\ \A w \in Order \ live' : job'[w] = Nil
       /\ \A w \in live' : w <= count'
  <2>1. live \subseteq live' /\ job' = job /\ live' \subseteq live \cup {count + 1}
    BY DEF enqueue
  <2>2. \A w \in live : w \in Nat /\ w <= count
    BY DEF IndInv, TypeOK, Order
  <2>3. QED
    BY <1>1, <2>1, <2>2 DEF IndInv, enqueue
<1>12. QED
  BY <1>2, <1>3, <1>7, <1>8, <1>9, <1>10, <1>11 DEF IndInv

(* poll: the order taken is one no worker and no callback has, because it  *)
(* was still in the list; a worker returns only when the list is empty.    *)
LEMMA PollStep == ASSUME IndInv, NEW w \in Order, poll(w) PROVE IndInv'
<1> USE MaxOrdersAssumption
<1>1. UNCHANGED <<count, tail, next, pending, called>> /\ dequeue /\ w \in live /\ job[w] = Nil
  BY DEF poll
<1>2. ListShape' /\ head' \in 0..MaxOrders
  BY <1>1, DequeueEffect
<1>3. Owed' = Owed /\ Finished' = Finished
  BY <1>1 DEF Owed, Finished
<1>4. CASE head = Nil
  <2>1. live' = live \ {w} /\ job' = job /\ head' = Nil /\ Taken' = Taken
    BY <1>1, <1>4, DequeueEffect DEF poll
  <2>2. Active' = Active
    BY <1>1, <2>1 DEF Active, Order, Nil
  <2>3. TypeOK'
    BY <1>1, <1>2, <2>1 DEF IndInv, TypeOK
  <2>4. AtMostOnce'
    BY <1>1, <1>3, <2>1, <2>2 DEF IndInv, AtMostOnce
  <2>5. QED
    BY <1>1, <1>2, <1>3, <2>1, <2>2, <2>3, <2>4 DEF IndInv, ListIsServed
<1>5. CASE head # Nil
  <2>1. live' = live /\ job' = [job EXCEPT ![w] = head]
    BY <1>5 DEF poll
  <2>2. head = Taken + 1 /\ Taken' = Taken + 1 /\ Taken \in Nat
    BY <1>1, <1>5, DequeueEffect, TakenType DEF IndInv, TypeOK
  <2>3. head \in Order /\ head \notin Active \cup Owed \cup Finished
    BY <1>5, <2>2 DEF IndInv, TypeOK, Order, Nil
  <2>4. Active' = Active \cup {head}
    <3>1. job'[w] = head /\ \A v \in live : v # w => job'[v] = job[v]
      BY <1>1, <2>1 DEF IndInv, TypeOK
    <3>2. QED
      BY <1>1, <2>1, <2>3, <3>1 DEF Active, Order, Nil
  <2>5. TypeOK'
    BY <1>1, <1>2, <2>1, <2>3 DEF IndInv, TypeOK, Order
  <2>6. AtMostOnce'
    <3>1. \A u, v \in live' : job'[u] = job'[v] /\ job'[u] # Nil => u = v
      <4>1. \A u \in live : job[u] # head
        BY <2>3 DEF Active
      <4>2. QED
        BY <2>1, <4>1 DEF IndInv, TypeOK, AtMostOnce
    <3>2. (Active \cap (Owed \cup Finished))' = {}
      BY <1>3, <2>3, <2>4 DEF IndInv, AtMostOnce
    <3>3. QED
      BY <1>1, <3>1, <3>2 DEF IndInv, AtMostOnce
  <2>7. \A o \in (Active \cup Owed \cup Finished)' : o <= Taken'
    <3>1. \A o \in Active \cup Owed \cup Finished : o \in Nat /\ o <= Taken
      BY DEF IndInv, Active, Owed, Finished, Order
    <3>2. QED
      BY <1>3, <2>2, <2>4, <3>1
  <2>8. QED
    BY <1>1, <1>2, <2>1, <2>5, <2>6, <2>7 DEF IndInv, TypeOK, ListIsServed
<1>6. QED
  BY <1>4, <1>5

(* finish: the worker's order goes to a callback; the node the second      *)
(* dequeue removes goes to nobody.                                         *)
LEMMA FinishStep == ASSUME IndInv, NEW w \in Order, finish(w) PROVE IndInv'
<1> USE MaxOrdersAssumption
<1>1. /\ UNCHANGED <<count, tail, next, live, called>> /\ dequeue
      /\ w \in live /\ job[w] # Nil /\ job' = [job EXCEPT ![w] = Nil]
      /\ pending' = [pending EXCEPT ![job[w]] = @ + 1]
  BY DEF finish
<1>2. ListShape' /\ head' \in 0..MaxOrders
  BY <1>1, DequeueEffect
<1>3. job[w] \in Order /\ job[w] \in Active
  BY <1>1 DEF IndInv, TypeOK, Active, Order, Nil
<1>4. Taken \in Nat /\ Taken' \in Nat /\ Taken <= Taken'
  BY <1>1, DequeueEffect, TakenType DEF IndInv, TypeOK
<1>5. Finished' = Finished /\ Owed' = Owed \cup {job[w]}
  <2>1. pending'[job[w]] > 0 /\ \A o \in Order : o # job[w] => pending'[o] = pending[o]
    BY <1>1, <1>3 DEF IndInv, TypeOK
  <2>2. QED
    BY <1>1, <1>3, <2>1 DEF Owed, Finished
<1>6. Active' = Active \ {job[w]}
  <2>1. \A v \in live : v # w => job[v] # job[w]
    BY <1>1 DEF IndInv, AtMostOnce
  <2>2. \A v \in live : v # w => job'[v] = job[v]
    BY <1>1 DEF IndInv, TypeOK
  <2>3. job'[w] = Nil
    BY <1>1 DEF IndInv, TypeOK
  <2>4. QED
    BY <1>1, <2>1, <2>2, <2>3 DEF Active, Order, Nil
<1>7. TypeOK'
  <2>1. job' \in [Order -> 0..MaxOrders]
    BY <1>1 DEF IndInv, TypeOK, Nil
  <2>2. pending' \in [Order -> Nat]
    BY <1>1, <1>3 DEF IndInv, TypeOK
  <2>3. QED
    BY <1>1, <1>2, <2>1, <2>2 DEF IndInv, TypeOK
<1>8. AtMostOnce'
  <2>1. pending[job[w]] = 0 /\ called[job[w]] = 0
    BY <1>3 DEF IndInv, TypeOK, AtMostOnce, Owed, Finished
  <2>2. \A o \in Order : pending'[o] + called'[o] <= 1
    BY <1>1, <1>3, <2>1 DEF IndInv, TypeOK, AtMostOnce
  <2>3. (Active \cap (Owed \cup Finished))' = {}
    BY <1>5, <1>6 DEF IndInv, AtMostOnce
  <2>4. \A u, v \in live' : job'[u] = job'[v] /\ job'[u] # Nil => u = v
    BY <1>1 DEF IndInv, TypeOK, AtMostOnce
  <2>5. QED
    BY <2>2, <2>3, <2>4 DEF AtMostOnce
<1>9. \A o \in (Active \cup Owed \cup Finished)' : o <= Taken'
  <2>1. \A o \in Active \cup Owed \cup Finished : o \in Nat /\ o <= Taken
    BY DEF IndInv, Active, Owed, Finished, Order
  <2>2. \A o \in (Active \cup Owed \cup Finished)' : o \in Active \cup Owed \cup Finished
    BY <1>3, <1>5, <1>6
  <2>3. QED
    BY <1>4, <2>1, <2>2
<1>10. QED
  BY <1>1, <1>2, <1>7, <1>8, <1>9 DEF IndInv, TypeOK, ListIsServed

(* donePowFunc: one outstanding callback becomes one that has run.         *)
LEMMA CallbackStep == ASSUME IndInv, NEW o \in Order, donePowFunc(o) PROVE IndInv'
<1> USE MaxOrdersAssumption
<1>1. /\ UNCHANGED <<count, head, tail, next, live, job>> /\ pending[o] > 0
      /\ pending' = [pending EXCEPT ![o] = @ - 1]
      /\ called' = [called EXCEPT ![o] = @ + 1]
  BY DEF donePowFunc
<1>2. Owed' \cup Finished' = Owed \cup Finished /\ Active' = Active /\ Taken' = Taken
  BY <1>1 DEF IndInv, TypeOK, AtMostOnce, Owed, Finished, Active, Taken
<1>3. TypeOK'
  BY <1>1 DEF IndInv, TypeOK
<1>4. AtMostOnce'
  <2>1. \A p \in Order : pending'[p] + called'[p] <= 1
    BY <1>1 DEF IndInv, TypeOK, AtMostOnce
  <2>2. QED
    BY <1>1, <1>2, <2>1 DEF IndInv, AtMostOnce
<1>5. QED
  BY <1>1, <1>2, <1>3, <1>4 DEF IndInv, ListShape, ListIsServed
-----------------------------------------------------------------------------
(* The inductive invariant holds in every reachable state.                 *)
THEOREM Invariance == Spec => []IndInv
<1>1. IndInv /\ [Next]_vars => IndInv'
  <2> SUFFICES ASSUME IndInv, [Next]_vars PROVE IndInv'
    OBVIOUS
  <2>1. CASE Next
    BY <2>1, EnqueueStep, PollStep, FinishStep, CallbackStep DEF Next
  <2>2. CASE UNCHANGED vars
    BY <2>2 DEF vars, IndInv, TypeOK, ListShape, AtMostOnce, ListIsServed,
                Active, Owed, Finished, Taken
  <2>3. QED
    BY <2>1, <2>2
<1>2. QED
  BY InitIndInv, <1>1, PTL DEF Spec

(* For any number of Run calls, the fields of the manager have their       *)
(* types.                                                                  *)
THEOREM TypeCorrect == Spec => []TypeOK
<1>1. IndInv => TypeOK
  BY DEF IndInv
<1>2. QED
  BY Invariance, <1>1, PTL

(* For any number of Run calls, tail always points to the last link of the *)
(* list and the list holds its nodes in the order of the calls.            *)
THEOREM ListAlwaysWellFormed == Spec => []ListShape
<1>1. IndInv => ListShape
  BY DEF IndInv
<1>2. QED
  BY Invariance, <1>1, PTL

(* For any number of Run calls, no callback runs twice.                    *)
THEOREM CallbackAtMostOnce == Spec => []AtMostOnce
<1>1. IndInv => AtMostOnce
  BY DEF IndInv
<1>2. QED
  BY Invariance, <1>1, PTL

(* For any number of Run calls, a list that is not empty has a worker.     *)
THEOREM ListAlwaysServed == Spec => []ListIsServed
<1>1. IndInv => ListIsServed
  BY DEF IndInv
<1>2. QED
  BY Invariance, <1>1, PTL
-----------------------------------------------------------------------------
(* Every step of the manager is a step of the order service or a stutter   *)
(* of it (a worker that polls an empty list and returns).                  *)
LEMMA StepRefinement == IndInv /\ [Next]_vars => [Orders!OrdersNext]_(Orders!ordersVars)
<1> SUFFICES ASSUME IndInv, [Next]_vars
             PROVE  [Orders!OrdersNext]_(Orders!ordersVars)
  OBVIOUS
<1> USE MaxOrdersAssumption
<1>1. CASE enqueue
  <2>1. count + 1 \in Order /\ count \in Nat /\ count' = count + 1 /\ count < MaxOrders
    BY <1>1 DEF IndInv, TypeOK, enqueue, Order
  <2>2. Taken' = Taken
    <3>1. CASE head = Nil
      <4>1. head' = count + 1
        BY <1>1, <3>1 DEF enqueue
      <4>2. QED
        BY <2>1, <3>1, <4>1 DEF Taken, Nil
    <3>2. CASE head # Nil
      BY <1>1, <3>2 DEF enqueue, Taken
    <3>3. QED
      BY <3>1, <3>2
  <2>3. count + 1 \notin live
    BY <2>1 DEF IndInv, TypeOK, Order
  <2>4. job[count + 1] = Nil
    BY <2>1, <2>3 DEF IndInv
  <2>5. Active' = Active
    BY <1>1, <2>4 DEF enqueue, Active, Order, Nil
  <2>6. Owed' = Owed /\ Finished' = Finished
    BY <1>1 DEF enqueue, Owed, Finished
  <2>7. Orders!Submit
    BY <2>1, <2>2, <2>5, <2>6 DEF Orders!Submit
  <2>8. QED
    BY <2>7 DEF Orders!OrdersNext
<1>2. ASSUME NEW w \in Order, poll(w)
      PROVE  [Orders!OrdersNext]_(Orders!ordersVars)
  <2>1. UNCHANGED <<count, tail, next, pending, called>> /\ dequeue /\ w \in live /\ job[w] = Nil
    BY <1>2 DEF poll
  <2>2. Owed' = Owed /\ Finished' = Finished
    BY <2>1 DEF Owed, Finished
  <2>3. CASE head = Nil
    <3>1. live' = live \ {w} /\ job' = job /\ Taken' = Taken
      BY <1>2, <2>1, <2>3, DequeueEffect DEF poll
    <3>2. Active' = Active
      BY <2>1, <3>1 DEF Active, Order, Nil
    <3>3. QED
      BY <2>1, <2>2, <3>1, <3>2 DEF Orders!ordersVars
  <2>4. CASE head # Nil
    <3>1. live' = live /\ job' = [job EXCEPT ![w] = head]
      BY <1>2, <2>4 DEF poll
    <3>2. head = Taken + 1 /\ Taken' = Taken + 1 /\ Taken \in Nat
      BY <2>1, <2>4, DequeueEffect, TakenType DEF IndInv, TypeOK
    <3>3. head \in Order /\ head <= count /\ count \in Nat
      BY <2>4 DEF IndInv, TypeOK, ListShape, Order, Nil
    <3>4. job'[w] = head /\ \A v \in live : v # w => job'[v] = job[v]
      BY <2>1, <3>1 DEF IndInv, TypeOK
    <3>5. Active' = Active \cup {Taken + 1}
      BY <2>1, <3>1, <3>2, <3>3, <3>4 DEF Active, Order, Nil
    <3>6. Taken < count
      BY <3>2, <3>3
    <3>7. Orders!Begin
      BY <2>1, <2>2, <3>2, <3>5, <3>6 DEF Orders!Begin
    <3>8. QED
      BY <3>7 DEF Orders!OrdersNext
  <2>5. QED
    BY <2>3, <2>4
<1>3. ASSUME NEW w \in Order, finish(w)
      PROVE  [Orders!OrdersNext]_(Orders!ordersVars)
  <2>1. /\ UNCHANGED <<count, tail, next, live, called>> /\ dequeue
        /\ w \in live /\ job[w] # Nil /\ job' = [job EXCEPT ![w] = Nil]
        /\ pending' = [pending EXCEPT ![job[w]] = @ + 1]
    BY <1>3 DEF finish
  <2>2. job[w] \in Order /\ job[w] \in Active
    BY <2>1 DEF IndInv, TypeOK, Active, Order, Nil
  <2>3. pending'[job[w]] > 0 /\ \A o \in Order : o # job[w] => pending'[o] = pending[o]
    BY <2>1, <2>2 DEF IndInv, TypeOK
  <2>4. Owed' = Owed \cup {job[w]} /\ Finished' = Finished
    BY <2>1, <2>2, <2>3 DEF Owed, Finished
  <2>5. \A v \in live : v # w => job[v] # job[w]
    BY <2>1 DEF IndInv, AtMostOnce
  <2>6. job'[w] = Nil /\ \A v \in live : v # w => job'[v] = job[v]
    BY <2>1 DEF IndInv, TypeOK
  <2>7. Active' = Active \ {job[w]}
    BY <2>1, <2>5, <2>6 DEF Active, Order, Nil
  <2>8. Taken' = IF Taken < count THEN Taken + 1 ELSE Taken
    <3>1. head = Nil => Taken = count
      BY DEF Taken
    <3>2. head # Nil => head <= count
      BY DEF IndInv, ListShape
    <3>3. QED
      BY <2>1, <3>1, <3>2, DequeueEffect, TakenType DEF IndInv, TypeOK
  <2>9. Orders!Complete(job[w])
    BY <2>1, <2>2, <2>4, <2>7, <2>8 DEF Orders!Complete
  <2>10. QED
    BY <2>2, <2>9 DEF Orders!OrdersNext, Orders!Order, Order
<1>4. ASSUME NEW o \in Order, donePowFunc(o)
      PROVE  [Orders!OrdersNext]_(Orders!ordersVars)
  <2>1. /\ UNCHANGED <<count, head, tail, next, live, job>> /\ pending[o] > 0
        /\ pending' = [pending EXCEPT ![o] = @ - 1]
        /\ called' = [called EXCEPT ![o] = @ + 1]
    BY <1>4 DEF donePowFunc
  <2>2. pending[o] = 1 /\ called[o] = 0
    <3>1. pending[o] \in Nat /\ called[o] \in Nat /\ pending[o] + called[o] <= 1
      BY DEF IndInv, TypeOK, AtMostOnce
    <3>2. QED
      BY <2>1, <3>1
  <2>3. /\ pending'[o] = 0 /\ called'[o] = 1
        /\ \A p \in Order : p # o => pending'[p] = pending[p] /\ called'[p] = called[p]
    BY <2>1, <2>2 DEF IndInv, TypeOK
  <2>4. Owed' = Owed \ {o} /\ Finished' = Finished \cup {o} /\ o \in Owed
    BY <2>1, <2>3 DEF Owed, Finished
  <2>5. Active' = Active /\ Taken' = Taken
    BY <2>1 DEF Active, Taken
  <2>6. Orders!Call(o)
    BY <2>1, <2>4, <2>5 DEF Orders!Call
  <2>7. QED
    BY <2>6 DEF Orders!OrdersNext, Orders!Order, Order
<1>5. CASE UNCHANGED vars
  BY <1>5 DEF vars, Orders!ordersVars, Taken, Active, Owed, Finished
<1>6. QED
  BY <1>1, <1>2, <1>3, <1>4, <1>5 DEF Next

(* The linked list, its mutex and its workers implement the abstract order *)
(* service for any number of Run calls.                                    *)
THEOREM Refinement == Spec => ImplementsOrders
<1>1. Init => Orders!OrdersInit
  BY MaxOrdersAssumption
     DEF Init, Orders!OrdersInit, Taken, Active, Owed, Finished, Order, Nil
<1>2. QED
  BY <1>1, StepRefinement, Invariance, PTL
     DEF Spec, ImplementsOrders, Orders!OrdersSpec
-----------------------------------------------------------------------------
(* A step of the order service throws away at most one order, and does so  *)
(* only when it starts a callback.                                         *)
LEMMA StepDiscards ==
    ASSUME IndInv, [Next]_vars
    PROVE  \/ Discarded' = Discarded /\ (Owed \cup Finished)' = Owed \cup Finished
           \/ \E o \in Order :
                /\ o \notin Owed \cup Finished
                /\ (Owed \cup Finished)' = (Owed \cup Finished) \cup {o}
                /\ Discarded' \subseteq Discarded \cup {Taken + 1}
<1>1. [Orders!OrdersNext]_(Orders!ordersVars)
  BY StepRefinement
<1>2. /\ Taken \in Nat /\ Taken <= count /\ count \in Nat
      /\ \A o \in Active \cup Owed \cup Finished : o \in Order /\ o <= Taken
  BY TakenType DEF IndInv, TypeOK, Active, Owed, Finished
<1>3. Active \cap (Owed \cup Finished) = {}
  BY DEF IndInv, AtMostOnce
<1>4. CASE Orders!Submit \/ UNCHANGED Orders!ordersVars
  BY <1>4 DEF Orders!Submit, Orders!ordersVars, Discarded
<1>5. CASE Orders!Begin
  <2>1. Taken' = Taken + 1 /\ Active' = Active \cup {Taken + 1}
        /\ Owed' = Owed /\ Finished' = Finished
    BY <1>5 DEF Orders!Begin
  <2>2. Taken + 1 \notin Owed \cup Finished \cup Active
    BY <1>2
  <2>3. 1..(Taken + 1) = (1..Taken) \cup {Taken + 1}
    BY <1>2
  <2>4. Discarded' = Discarded
    <3>1. Discarded' = (1..(Taken + 1)) \ (Active \cup {Taken + 1} \cup Owed \cup Finished)
      BY <2>1 DEF Discarded
    <3>2. Taken + 1 \notin 1..Taken
      BY <1>2
    <3>3. QED
      BY <2>3, <3>1, <3>2 DEF Discarded
  <2>5. QED
    BY <2>1, <2>4
<1>6. ASSUME NEW o \in Order, Orders!Complete(o)
      PROVE  /\ o \notin Owed \cup Finished
             /\ (Owed \cup Finished)' = (Owed \cup Finished) \cup {o}
             /\ Discarded' \subseteq Discarded \cup {Taken + 1}
  <2>1. /\ o \in Active /\ Active' = Active \ {o}
        /\ Owed' = Owed \cup {o} /\ Finished' = Finished
        /\ Taken' \in {Taken, Taken + 1}
    BY <1>6 DEF Orders!Complete
  <2>2. 1..Taken' \subseteq (1..Taken) \cup {Taken + 1}
    BY <1>2, <2>1
  <2>3. QED
    BY <1>3, <2>1, <2>2 DEF Discarded
<1>7. ASSUME NEW o \in Order, Orders!Call(o)
      PROVE  Discarded' = Discarded /\ (Owed \cup Finished)' = Owed \cup Finished
  BY <1>7 DEF Orders!Call, Discarded
<1>8. Orders!Order = Order
  BY DEF Orders!Order, Order
<1>9. QED
  BY <1>1, <1>4, <1>5, <1>6, <1>7, <1>8 DEF Orders!OrdersNext

(* The discarding dequeue of pow.go 111 costs at most one order for every  *)
(* order that gets a callback: at least half of the orders that leave the  *)
(* list, but for those being worked on, are called back.                   *)
THEOREM DiscardsAlwaysBounded == Spec => []DiscardsAreBounded
<1>1. Init => DiscardsAreBounded
  <2> SUFFICES ASSUME Init PROVE DiscardsAreBounded
    OBVIOUS
  <2>1. Discarded = {} /\ Owed \cup Finished = {}
    BY DEF Init, Discarded, Owed, Finished, Taken, Nil
  <2>2. QED
    BY <2>1, FS_EmptySet DEF DiscardsAreBounded
<1>2. IndInv /\ DiscardsAreBounded /\ [Next]_vars => DiscardsAreBounded'
  <2> SUFFICES ASSUME IndInv, DiscardsAreBounded, [Next]_vars PROVE DiscardsAreBounded'
    OBVIOUS
  <2>1. IsFiniteSet(Discarded) /\ IsFiniteSet(Owed \cup Finished)
    <3>1. IsFiniteSet(1..Taken) /\ IsFiniteSet(Order)
      <4>1. Taken \in Int /\ MaxOrders \in Int /\ 1 \in Int
        BY TakenType, MaxOrdersAssumption DEF IndInv, TypeOK
      <4>2. QED
        BY <4>1, FS_Interval DEF Order
    <3>2. Discarded \subseteq 1..Taken /\ Owed \cup Finished \subseteq Order
      BY DEF Discarded, Owed, Finished
    <3>3. QED
      BY <3>1, <3>2, FS_Subset
  <2>2. CASE Discarded' = Discarded /\ (Owed \cup Finished)' = Owed \cup Finished
    BY <2>2 DEF DiscardsAreBounded
  <2>3. ASSUME NEW o \in Order,
               o \notin Owed \cup Finished,
               (Owed \cup Finished)' = (Owed \cup Finished) \cup {o},
               Discarded' \subseteq Discarded \cup {Taken + 1}
        PROVE  DiscardsAreBounded'
    <3>1. Cardinality((Owed \cup Finished)') = Cardinality(Owed \cup Finished) + 1
      BY <2>1, <2>3, FS_AddElement
    <3>2. /\ IsFiniteSet(Discarded \cup {Taken + 1})
          /\ Cardinality(Discarded \cup {Taken + 1}) <= Cardinality(Discarded) + 1
          /\ Cardinality(Discarded) \in Nat /\ Cardinality(Owed \cup Finished) \in Nat
      <4>1. Cardinality(Discarded) \in Nat /\ Cardinality(Owed \cup Finished) \in Nat
        BY <2>1, FS_CardinalityType
      <4>2. /\ IsFiniteSet(Discarded \cup {Taken + 1})
            /\ Cardinality(Discarded \cup {Taken + 1}) =
                 IF Taken + 1 \in Discarded THEN Cardinality(Discarded)
                 ELSE Cardinality(Discarded) + 1
        BY <2>1, FS_AddElement
      <4>3. QED
        BY <4>1, <4>2
    <3>3. /\ Cardinality(Discarded') <= Cardinality(Discarded \cup {Taken + 1})
          /\ Cardinality(Discarded') \in Nat
          /\ Cardinality(Discarded \cup {Taken + 1}) \in Nat
      BY <2>3, <3>2, FS_Subset, FS_CardinalityType
    <3>4. QED
      BY <3>1, <3>2, <3>3 DEF DiscardsAreBounded
  <2>4. QED
    BY <2>2, <2>3, StepDiscards
<1>3. QED
  BY <1>1, <1>2, Invariance, PTL DEF Spec
=============================================================================

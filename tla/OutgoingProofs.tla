--------------------------- MODULE OutgoingProofs ---------------------------
(***************************************************************************)
(* Proofs about module Outgoing, for any e-mails, addresses and routes,    *)
(* any number of tasks, orders, crashes and IMAP operations, and any       *)
(* faults.                                                                 *)
(***************************************************************************)
EXTENDS Outgoing, SequenceTheorems, TLAPS

(* What each field of a task and of a stored message may be.               *)
LEMMA TaskFacts ==
    ASSUME TypeOK
    PROVE  /\ Len(task) \in Nat /\ DOMAIN task = 1..Len(task)
           /\ \A t \in DOMAIN task :
                /\ t \in Task /\ task[t] \in TaskRecord
                /\ task[t].uid \in Nat /\ task[t].mail \in Mails /\ task[t].pkOut \in BOOLEAN
                /\ task[t].ackExp \in BOOLEAN /\ task[t].ack \in BOOLEAN /\ task[t].pc \in PC
  <1>1. task \in Seq(TaskRecord) /\ Len(task) <= MaxTasks /\ MaxTasks \in Nat
      BY OutgoingAssumption DEF TypeOK, TaskType
  <1>2. Len(task) \in Nat /\ DOMAIN task = 1..Len(task)
      BY <1>1
  <1>3. ASSUME NEW t \in DOMAIN task
        PROVE  t \in Task /\ task[t] \in TaskRecord
      BY <1>1, <1>2 DEF Task
  <1>4. QED
      BY <1>2, <1>3 DEF TaskRecord

(* What an order may be for.                                               *)
LEMMA OrderFacts ==
    ASSUME TypeOK
    PROVE  /\ submitted \in Nat /\ taken \in Nat /\ taken <= submitted
           /\ Len(orders) = submitted /\ DOMAIN orders = 1..submitted
           /\ \A o \in DOMAIN orders : orders[o].kind \in {"getpubkey", "ack", "msg"}
                                        /\ orders[o].task \in DOMAIN task
           /\ \A o \in DOMAIN orders : orders[o] \in
                [kind : {"getpubkey", "ack", "msg"}, task : DOMAIN task]
  <1> DEFINE R == [kind : {"getpubkey", "ack", "msg"}, task : DOMAIN task]
  <1>1. orders \in Seq(R) /\ submitted = Len(orders) /\ taken \in 0..submitted
      BY DEF TypeOK, OrdersType
  <1>2. Len(orders) \in Nat /\ DOMAIN orders = 1..Len(orders)
      BY <1>1
  <1> HIDE DEF R
  <1>3. \A o \in DOMAIN orders : orders[o] \in R
      BY <1>1, <1>2
  <1>4. QED
      BY <1>1, <1>2, <1>3 DEF R

(* The step changes no task but t, and t as told.                          *)
Becomes(t, uid, pkOut, ackExp, ack, pc) ==
    /\ task' \in Seq(TaskRecord) /\ Len(task') = Len(task) /\ DOMAIN task' = DOMAIN task
    /\ \A u \in DOMAIN task : u # t => task'[u] = task[u]
    /\ task'[t].uid = uid /\ task'[t].mail = task[t].mail /\ task'[t].pkOut = pkOut
    /\ task'[t].ackExp = ackExp /\ task'[t].ack = ack /\ task'[t].pc = pc

(* The step adds a task.                                                   *)
Grows(uid, mail, pkOut, ackExp, ack) ==
    /\ task' \in Seq(TaskRecord) /\ Len(task') = Len(task) + 1
    /\ DOMAIN task' = DOMAIN task \cup {Len(task) + 1}
    /\ Len(task) + 1 \notin DOMAIN task
    /\ \A u \in DOMAIN task : task'[u] = task[u]
    /\ LET n == task'[Len(task) + 1]
       IN n.uid = uid /\ n.mail = mail /\ n.pkOut = pkOut /\ n.ackExp = ackExp
          /\ n.ack = ack /\ n.pc = "generate"

(* Replacing a task by another record.                                     *)
LEMMA ReplaceTask ==
    ASSUME TypeOK, NEW t \in DOMAIN task, NEW r \in TaskRecord, r.mail = task[t].mail,
           task' = [task EXCEPT ![t] = r]
    PROVE  Becomes(t, r.uid, r.pkOut, r.ackExp, r.ack, r.pc)
  <1>1. task \in Seq(TaskRecord) /\ Len(task) \in Nat /\ DOMAIN task = 1..Len(task)
      BY TaskFacts DEF TypeOK, TaskType
  <1>2. task' \in Seq(TaskRecord) /\ Len(task') = Len(task) /\ DOMAIN task' = DOMAIN task
      BY <1>1, ExceptSeq
  <1>3. task'[t] = r /\ \A u \in DOMAIN task : u # t => task'[u] = task[u]
      BY <1>1
  <1>4. QED
      BY <1>2, <1>3 DEF Becomes

(* Goto changes the place of a task only.                                  *)
LEMMA GotoEffect ==
    ASSUME TypeOK, NEW t \in DOMAIN task, NEW pc \in PC, Goto(t, pc)
    PROVE  Becomes(t, task[t].uid, task[t].pkOut, task[t].ackExp, task[t].ack, pc)
  <1> DEFINE r == [task[t] EXCEPT !.pc = pc]
  <1>1. task[t] \in TaskRecord
      BY TaskFacts
  <1>2. r \in TaskRecord /\ r.mail = task[t].mail /\ r.uid = task[t].uid
        /\ r.pkOut = task[t].pkOut /\ r.ackExp = task[t].ackExp /\ r.ack = task[t].ack
        /\ r.pc = pc
      BY <1>1 DEF TaskRecord
  <1>3. task' = [task EXCEPT ![t] = r]
      BY DEF Goto
  <1> HIDE DEF r
  <1>4. Becomes(t, r.uid, r.pkOut, r.ackExp, r.ack, r.pc)
      BY <1>2, <1>3, ReplaceTask
  <1>5. QED
      BY <1>2, <1>4

(* The effect of each step on the tasks.                                   *)
LEMMA RequestKeyEffect ==
    ASSUME TypeOK, NEW t \in DOMAIN task, requestKey(t)
    PROVE  Becomes(t, task[t].uid, TRUE, task[t].ackExp, task[t].ack, "saveReq")
  <1> DEFINE r == [task[t] EXCEPT !.pkOut = TRUE, !.pc = "saveReq"]
  <1>1. task[t] \in TaskRecord
      BY TaskFacts
  <1>2. /\ r \in TaskRecord /\ r.mail = task[t].mail /\ r.uid = task[t].uid
        /\ r.pkOut = TRUE /\ r.ackExp = task[t].ackExp /\ r.ack = task[t].ack
        /\ r.pc = "saveReq"
      BY <1>1 DEF TaskRecord, PC
  <1>3. task' = [task EXCEPT ![t] = r]
      BY DEF requestKey
  <1> HIDE DEF r
  <1>4. Becomes(t, r.uid, r.pkOut, r.ackExp, r.ack, r.pc)
      BY <1>2, <1>3, ReplaceTask
  <1>5. QED
      BY <1>2, <1>4

LEMMA GenerateAckEffect ==
    ASSUME TypeOK, NEW t \in DOMAIN task, generateAck(t)
    PROVE  Becomes(t, task[t].uid, task[t].pkOut, TRUE, task[t].ack, "wait")
  <1> DEFINE r == [task[t] EXCEPT !.ackExp = TRUE, !.pc = "wait"]
  <1>1. task[t] \in TaskRecord
      BY TaskFacts
  <1>2. /\ r \in TaskRecord /\ r.mail = task[t].mail /\ r.uid = task[t].uid
        /\ r.pkOut = task[t].pkOut /\ r.ackExp = TRUE /\ r.ack = task[t].ack
        /\ r.pc = "wait"
      BY <1>1 DEF TaskRecord, PC
  <1>3. task' = [task EXCEPT ![t] = r]
      BY DEF generateAck
  <1> HIDE DEF r
  <1>4. Becomes(t, r.uid, r.pkOut, r.ackExp, r.ack, r.pc)
      BY <1>2, <1>3, ReplaceTask
  <1>5. QED
      BY <1>2, <1>4

LEMMA GenerateObjectEffect ==
    ASSUME TypeOK, NEW t \in DOMAIN task, generateObject(t)
    PROVE  Becomes(t, task[t].uid, task[t].pkOut, AckExpected(t), task[t].ack, "saveMsg")
  <1> DEFINE r == [task[t] EXCEPT !.ackExp = AckExpected(t), !.pc = "saveMsg"]
  <1>1. task[t] \in TaskRecord /\ AckExpected(t) \in BOOLEAN
      BY TaskFacts DEF AckExpected
  <1>2. /\ r \in TaskRecord /\ r.mail = task[t].mail /\ r.uid = task[t].uid
        /\ r.pkOut = task[t].pkOut /\ r.ackExp = AckExpected(t) /\ r.ack = task[t].ack
        /\ r.pc = "saveMsg"
      BY <1>1 DEF TaskRecord, PC
  <1>3. task' = [task EXCEPT ![t] = r]
      BY DEF generateObject
  <1> HIDE DEF r
  <1>4. Becomes(t, r.uid, r.pkOut, r.ackExp, r.ack, r.pc)
      BY <1>2, <1>3, ReplaceTask
  <1>5. QED
      BY <1>2, <1>4

LEMMA SaveNewEffect ==
    ASSUME TypeOK, NEW t \in DOMAIN task, saveNew(t)
    PROVE  /\ Becomes(t, nextUID.outbox, task[t].pkOut, task[t].ackExp, task[t].ack,
                      AfterSave[task[t].pc])
           /\ task[t].pc \in {"saveReq", "saveMsg", "saveDone"}
           /\ AfterSave[task[t].pc] \in {"parked", "runMsg", "send"}
  <1> DEFINE r == [task[t] EXCEPT !.uid = nextUID.outbox, !.pc = AfterSave[@]]
  <1>1. task[t] \in TaskRecord /\ nextUID.outbox \in Nat
      BY TaskFacts DEF TypeOK, FoldersType
  <1>2. /\ task[t].pc \in {"saveReq", "saveMsg", "saveDone"}
        /\ AfterSave[task[t].pc] \in {"parked", "runMsg", "send"}
      BY DEF saveNew, Inserting, AfterSave
  <1>3. /\ r \in TaskRecord /\ r.mail = task[t].mail /\ r.uid = nextUID.outbox
        /\ r.pkOut = task[t].pkOut /\ r.ackExp = task[t].ackExp /\ r.ack = task[t].ack
        /\ r.pc = AfterSave[task[t].pc]
      BY <1>1, <1>2 DEF TaskRecord, PC
  <1>4. task' = [task EXCEPT ![t] = r]
      BY DEF saveNew
  <1> HIDE DEF r
  <1>5. Becomes(t, r.uid, r.pkOut, r.ackExp, r.ack, r.pc)
      BY <1>3, <1>4, ReplaceTask
  <1>6. QED
      BY <1>2, <1>3, <1>5

LEMMA SaveDeleteEffect ==
    ASSUME TypeOK, NEW t \in DOMAIN task, saveDelete(t)
    PROVE  /\ task[t].pc \in {"saveReq", "saveMsg", "saveDone"}
           /\ Inserting[task[t].pc] \in {"insReq", "insMsg", "insDone"}
           /\ Becomes(t, task[t].uid, task[t].pkOut, task[t].ackExp, task[t].ack,
                IF Stored(task[t].uid) = {} THEN "failed" ELSE Inserting[task[t].pc])
  <1>1. /\ task[t].pc \in {"saveReq", "saveMsg", "saveDone"}
        /\ Inserting[task[t].pc] \in {"insReq", "insMsg", "insDone"}
      BY DEF saveDelete, Inserting
  <1> DEFINE pc == IF Stored(task[t].uid) = {} THEN "failed" ELSE Inserting[task[t].pc]
  <1>2. pc \in PC
      BY <1>1 DEF PC
  <1>3. Goto(t, pc)
      BY DEF saveDelete
  <1> HIDE DEF pc
  <1>4. Becomes(t, task[t].uid, task[t].pkOut, task[t].ackExp, task[t].ack, pc)
      BY <1>2, <1>3, GotoEffect
  <1>5. QED
      BY <1>1, <1>4 DEF pc

LEMMA SaveInsertEffect ==
    ASSUME TypeOK, NEW t \in DOMAIN task, saveInsert(t)
    PROVE  /\ task[t].pc \in {"insReq", "insMsg", "insDone"}
           /\ AfterSave[task[t].pc] \in {"parked", "runMsg", "send"}
           /\ Becomes(t, task[t].uid, task[t].pkOut, task[t].ackExp, task[t].ack,
                      AfterSave[task[t].pc])
  <1>1. /\ task[t].pc \in {"insReq", "insMsg", "insDone"}
        /\ AfterSave[task[t].pc] \in {"parked", "runMsg", "send"}
      BY DEF saveInsert, AfterSave
  <1>2. Goto(t, AfterSave[task[t].pc]) /\ AfterSave[task[t].pc] \in PC
      BY <1>1 DEF saveInsert, PC
  <1>3. QED
      BY <1>1, <1>2, GotoEffect

LEMMA PowDoneEffect ==
    ASSUME TypeOK, NEW o \in DOMAIN orders, powDone(o)
    PROVE  LET t == orders[o].task
           IN /\ t \in DOMAIN task /\ orders[o].kind \in {"ack", "msg"}
              /\ orders[o].kind = "ack" =>
                   Becomes(t, task[t].uid, task[t].pkOut, task[t].ackExp, TRUE, "generate")
              /\ orders[o].kind = "msg" =>
                   Becomes(t, task[t].uid, task[t].pkOut, task[t].ackExp, task[t].ack, "saveDone")
  <1> DEFINE t == orders[o].task
  <1>1. t \in DOMAIN task /\ orders[o].kind \in {"ack", "msg"}
      BY OrderFacts DEF powDone
  <1>2. CASE orders[o].kind = "ack"
    <2> DEFINE r == [task[t] EXCEPT !.ack = TRUE, !.pc = "generate"]
    <2>1. task[t] \in TaskRecord
        BY <1>1, TaskFacts
    <2>2. /\ r \in TaskRecord /\ r.mail = task[t].mail /\ r.uid = task[t].uid
          /\ r.pkOut = task[t].pkOut /\ r.ackExp = task[t].ackExp /\ r.ack = TRUE
          /\ r.pc = "generate"
        BY <2>1 DEF TaskRecord, PC
    <2>3. task' = [task EXCEPT ![t] = r]
        BY <1>2 DEF powDone
    <2> HIDE DEF r, t
    <2>4. Becomes(t, r.uid, r.pkOut, r.ackExp, r.ack, r.pc)
        BY <1>1, <2>2, <2>3, ReplaceTask
    <2>5. QED
        BY <1>1, <1>2, <2>2, <2>4 DEF t
  <1>3. CASE orders[o].kind = "msg"
    <2>1. Goto(t, "saveDone") /\ "saveDone" \in PC
        BY <1>3 DEF powDone, Goto, PC
    <2> HIDE DEF t
    <2>2. Becomes(t, task[t].uid, task[t].pkOut, task[t].ackExp, task[t].ack, "saveDone")
        BY <1>1, <2>1, GotoEffect
    <2>3. QED
        BY <1>1, <1>3, <2>2 DEF t
  <1>4. QED
      BY <1>1, <1>2, <1>3

(* The steps that only go on to another place.                             *)
LEMMA GotoEffects ==
    ASSUME TypeOK, NEW t \in DOMAIN task
    PROVE  /\ generateFails(t) => Becomes(t, task[t].uid, task[t].pkOut, task[t].ackExp,
                                          task[t].ack, "failed")
           /\ runMsg(t) => Becomes(t, task[t].uid, task[t].pkOut, task[t].ackExp,
                                   task[t].ack, "wait")
           /\ send(t) => Becomes(t, task[t].uid, task[t].pkOut, task[t].ackExp,
                                 task[t].ack, "move")
           /\ moveRead(t) => Becomes(t, task[t].uid, task[t].pkOut, task[t].ackExp, task[t].ack,
                               IF Stored(task[t].uid) = {} THEN "done" ELSE "moveDelete")
           /\ moveDelete(t) => Becomes(t, task[t].uid, task[t].pkOut, task[t].ackExp,
                                       task[t].ack, "moveAdd")
           /\ moveAdd(t) => Becomes(t, task[t].uid, task[t].pkOut, task[t].ackExp,
                                    task[t].ack, "done")
  <1>1. /\ "failed" \in PC /\ "wait" \in PC /\ "move" \in PC /\ "moveAdd" \in PC
        /\ "done" \in PC
        /\ (IF Stored(task[t].uid) = {} THEN "done" ELSE "moveDelete") \in PC
      BY DEF PC
  <1>2. QED
      BY <1>1, GotoEffect DEF generateFails, runMsg, send, moveRead, moveDelete, moveAdd

(* The steps of a task in which a write fails or a uid is not found.       *)
Failing(t) == saveFails(t) \/ insertLost(t) \/ moveMisses(t) \/ moveFails(t)

(* They write nothing.                                                     *)
LEMMA FailingWrites ==
    ASSUME NEW t, Failing(t)
    PROVE  /\ UNCHANGED <<ordersVars, accepted, boxes, orders, To, net, record>>
           /\ UNCHANGED <<outbox, limbo, sent, nextUID, saving, pk, known, cache, found, target,
                          queue, current, sends, expunged, removed, exposed, overtaken>>
           /\ dropped \subseteq dropped'
  <1>1. /\ UNCHANGED <<ordersVars, accepted, boxes, orders, To, net, record, pk, known, cache,
                       handler>>
        /\ dropped \subseteq dropped'
      BY DEF Failing, saveFails, insertLost, moveMisses, moveFails, Drop, history, progress
  <1>2. QED
      BY <1>1 DEF boxes, record, handler

LEMMA FailingEffect ==
    ASSUME TypeOK, NEW t \in DOMAIN task, Failing(t)
    PROVE  \E pc \in PC :
             /\ Becomes(t, task[t].uid, task[t].pkOut, task[t].ackExp, task[t].ack, pc)
             /\ \/ pc = "failed" /\ task[t].pc \in {"saveReq", "saveMsg", "saveDone"}
                \/ pc = "parked" /\ task[t].pc = "insReq"
                \/ pc = "runMsg" /\ task[t].pc = "insMsg"
                \/ pc = "send" /\ task[t].pc = "insDone"
                \/ pc \in {"moveAdd", "done"} /\ task[t].pc \in {"move", "moveDelete"}
                \/ pc = "done" /\ task[t].pc = "moveAdd"
             /\ task[t].pc \in {"insReq", "insMsg", "insDone", "moveAdd"} =>
                  task[t].mail \in dropped'
  <1> DEFINE After(pc) ==
               /\ \/ pc = "failed" /\ task[t].pc \in {"saveReq", "saveMsg", "saveDone"}
                  \/ pc = "parked" /\ task[t].pc = "insReq"
                  \/ pc = "runMsg" /\ task[t].pc = "insMsg"
                  \/ pc = "send" /\ task[t].pc = "insDone"
                  \/ pc \in {"moveAdd", "done"} /\ task[t].pc \in {"move", "moveDelete"}
                  \/ pc = "done" /\ task[t].pc = "moveAdd"
               /\ task[t].pc \in {"insReq", "insMsg", "insDone", "moveAdd"} =>
                    task[t].mail \in dropped'
  <1>1. \E pc \in PC : Goto(t, pc) /\ After(pc)
    <2>1. CASE saveFails(t)
        BY <2>1 DEF saveFails, Inserting, PC
    <2>2. CASE insertLost(t)
        BY <2>2 DEF insertLost, Drop, AfterSave, PC
    <2>3. CASE moveMisses(t)
        BY <2>3 DEF moveMisses, PC
    <2>4. CASE moveFails(t)
        BY <2>4 DEF moveFails, Drop, PC
    <2>5. QED
        BY <2>1, <2>2, <2>3, <2>4 DEF Failing
  <1> HIDE DEF After
  <1>2. PICK pc \in PC : Goto(t, pc) /\ After(pc)
      BY <1>1
  <1>3. Becomes(t, task[t].uid, task[t].pkOut, task[t].ackExp, task[t].ack, pc)
      BY <1>2, GotoEffect
  <1>4. QED
      BY <1>2, <1>3 DEF After

(* Appending a task.                                                       *)
LEMMA AppendEffect ==
    ASSUME TypeOK, NEW r \in TaskRecord, r.pc = "generate", task' = Append(task, r)
    PROVE  Grows(r.uid, r.mail, r.pkOut, r.ackExp, r.ack)
  <1>1. task \in Seq(TaskRecord) /\ Len(task) \in Nat /\ DOMAIN task = 1..Len(task)
      BY TaskFacts DEF TypeOK, TaskType
  <1>2. /\ task' \in Seq(TaskRecord) /\ Len(task') = Len(task) + 1
        /\ \A u \in 1..Len(task) : task'[u] = task[u]
        /\ task'[Len(task) + 1] = r
      BY <1>1, AppendProperties
  <1>3. DOMAIN task' = 1..(Len(task) + 1)
      BY <1>1, <1>2
  <1>4. QED
      BY <1>1, <1>2, <1>3 DEF Grows
-----------------------------------------------------------------------------
(* What no step takes back: a task keeps its e-mail, its ack, its flag     *)
(* and, once it has one, its uid.                                          *)
Keeps ==
    /\ To' = To /\ DOMAIN task \subseteq DOMAIN task'
    /\ \A u \in DOMAIN task :
         /\ task'[u].mail = task[u].mail
         /\ task[u].ack => task'[u].ack
         /\ task[u].pkOut => task'[u].pkOut
         /\ task[u].uid # 0 => task'[u].uid = task[u].uid

LEMMA BecomesKeeps ==
    ASSUME TypeOK, NEW t \in DOMAIN task, NEW uid, NEW pkOut, NEW ackExp, NEW ack, NEW pc,
           Becomes(t, uid, pkOut, ackExp, ack, pc), To' = To,
           task[t].uid # 0 => uid = task[t].uid, task[t].pkOut => pkOut, task[t].ack => ack
    PROVE  TaskType' /\ Keeps
  <1>1. TaskType'
      BY DEF TypeOK, TaskType, Becomes
  <1>2. QED
      BY <1>1 DEF Keeps, Becomes

LEMMA GrowsKeeps ==
    ASSUME TypeOK, NEW uid, NEW mail, NEW pkOut, NEW ackExp, NEW ack,
           Grows(uid, mail, pkOut, ackExp, ack), To' = To, Len(task) < MaxTasks
    PROVE  TaskType' /\ Keeps
  <1>1. Len(task) \in Nat /\ MaxTasks \in Nat
      BY TaskFacts, OutgoingAssumption
  <1>2. TaskType'
      BY <1>1 DEF TypeOK, TaskType, Grows
  <1>3. QED
      BY <1>2 DEF Keeps, Grows

LEMMA SameKeeps ==
    ASSUME TypeOK, UNCHANGED <<task, To>>
    PROVE  TaskType' /\ Keeps
  BY DEF TypeOK, TaskType, Keeps

(* The messages that become a task.                                        *)
LEMMA DeliverFromSMTPEffect ==
    ASSUME TypeOK, NEW m \in Mails, DeliverFromSMTP(m)
    PROVE  Grows(nextUID.outbox, m, FALSE, FALSE, FALSE)
  <1> DEFINE r == [uid |-> nextUID.outbox, mail |-> m, pkOut |-> FALSE, ackExp |-> FALSE,
                   ack |-> FALSE]
             q == [decodeBitmessage(r) EXCEPT !.uid = r.uid]
  <1>1. task' = Append(task, q)
      BY DEF DeliverFromSMTP, newMessage
  <1>2. nextUID.outbox \in Nat
      BY DEF TypeOK, FoldersType
  <1>3. /\ q \in TaskRecord /\ q.uid = nextUID.outbox /\ q.mail = m /\ q.pc = "generate"
        /\ q.pkOut = FALSE /\ q.ackExp = FALSE /\ q.ack = FALSE
      BY <1>2 DEF decodeBitmessage, TaskRecord, PC
  <1> HIDE DEF q
  <1>4. Grows(q.uid, q.mail, q.pkOut, q.ackExp, q.ack)
      BY <1>1, <1>3, AppendEffect
  <1>5. QED
      BY <1>3, <1>4

LEMMA AddNewFailsEffect ==
    ASSUME TypeOK, NEW m \in Mails, addNewFails(m)
    PROVE  Grows(0, m, FALSE, FALSE, FALSE)
  <1> DEFINE q == decodeBitmessage(newMessage(m, 0))
  <1>1. task' = Append(task, q)
      BY DEF addNewFails
  <1>2. /\ q \in TaskRecord /\ q.uid = 0 /\ q.mail = m /\ q.pc = "generate"
        /\ q.pkOut = FALSE /\ q.ackExp = FALSE /\ q.ack = FALSE
      BY DEF decodeBitmessage, newMessage, TaskRecord, PC
  <1> HIDE DEF q
  <1>3. Grows(q.uid, q.mail, q.pkOut, q.ackExp, q.ack)
      BY <1>1, <1>2, AppendEffect
  <1>4. QED
      BY <1>2, <1>3

LEMMA ProcessNextEffect ==
    ASSUME TypeOK, NEW r \in queue, task' = Append(task, decodeBitmessage(r))
    PROVE  Grows(0, r.mail, r.pkOut, r.ackExp, r.ack)
  <1> DEFINE q == decodeBitmessage(r)
  <1>1. r \in StoredMessage
      BY DEF TypeOK, FoldersType
  <1>2. /\ q \in TaskRecord /\ q.uid = 0 /\ q.mail = r.mail /\ q.pkOut = r.pkOut
        /\ q.ackExp = r.ackExp /\ q.ack = r.ack /\ q.pc = "generate"
      BY <1>1 DEF decodeBitmessage, StoredMessage, TaskRecord, PC
  <1> HIDE DEF q
  <1>3. Grows(q.uid, q.mail, q.pkOut, q.ackExp, q.ack)
      BY <1>2, AppendEffect DEF q
  <1>4. QED
      BY <1>2, <1>3

(* Every task has its place only in memory.                                *)
LEMMA RestartEffect ==
    ASSUME TypeOK, restart
    PROVE  /\ TaskType' /\ Keeps
           /\ Len(task') = Len(task) /\ DOMAIN task' = DOMAIN task
           /\ \A t \in DOMAIN task :
                /\ task'[t].uid = task[t].uid /\ task'[t].mail = task[t].mail
                /\ task'[t].pkOut = task[t].pkOut /\ task'[t].ackExp = task[t].ackExp
                /\ task'[t].ack = task[t].ack /\ task'[t].pc = "done"
  <1> DEFINE r(t) == [task[t] EXCEPT !.pc = "done"]
  <1>1. /\ Len(task) \in Nat /\ DOMAIN task = 1..Len(task) /\ To' = To
        /\ task' = [t \in 1..Len(task) |-> r(t)]
      BY TaskFacts DEF restart
  <1>2. ASSUME NEW t \in DOMAIN task
        PROVE  /\ r(t) \in TaskRecord /\ r(t).uid = task[t].uid /\ r(t).mail = task[t].mail
               /\ r(t).pkOut = task[t].pkOut /\ r(t).ackExp = task[t].ackExp
               /\ r(t).ack = task[t].ack /\ r(t).pc = "done"
      BY TaskFacts DEF TaskRecord, PC
  <1> HIDE DEF r
  <1>3. task' \in Seq(TaskRecord) /\ Len(task') = Len(task) /\ DOMAIN task' = DOMAIN task
      BY <1>1, <1>2, IsASeq
  <1>4. \A t \in DOMAIN task : task'[t] = r(t)
      BY <1>1
  <1>5. TaskType'
      BY <1>1, <1>3 DEF TypeOK, TaskType
  <1>6. QED
      BY <1>1, <1>2, <1>3, <1>4, <1>5 DEF Keeps

(* The steps that leave the tasks as they are.                             *)
QuietStep ==
    \/ \E t \in DOMAIN task : panic(t) \/ DeliverAckReply(t)
    \/ powBegin
    \/ \E o \in DOMAIN orders : powComplete(o) \/ keyRequested(o)
    \/ pkTick \/ pkRemove
    \/ \E a \in Addresses : DeliverPublic(a) \/ keyArrives(a)
    \/ \E r \in outbox : expunge(r) \/ storeRead(r)
    \/ \E s \in saving : storeDelete(s) \/ storeInsert(s) \/ storeFails(s)

LEMMA QuietEffect ==
    ASSUME QuietStep
    PROVE  UNCHANGED <<task, To, orders>>
  BY DEF QuietStep, panic, DeliverAckReply, powBegin, powComplete, keyRequested, pkTick,
         pkRemove, DeliverPublic, keyArrives, expunge, storeRead, storeDelete, storeInsert,
         storeFails, progress

(* No step takes back what a task is.                                      *)
LEMMA StepKeeps ==
    ASSUME TypeOK, [Next]_vars
    PROVE  TaskType' /\ Keeps
  <1>1. ASSUME NEW m \in Mails, DeliverFromSMTP(m) PROVE TaskType' /\ Keeps
      BY <1>1, DeliverFromSMTPEffect, GrowsKeeps DEF DeliverFromSMTP, progress
  <1>0. ASSUME NEW m \in Mails, addNewFails(m) PROVE TaskType' /\ Keeps
      BY <1>0, AddNewFailsEffect, GrowsKeeps DEF addNewFails, progress
  <1>2. ASSUME NEW t \in DOMAIN task, requestKey(t) PROVE TaskType' /\ Keeps
      BY <1>2, RequestKeyEffect, BecomesKeeps DEF requestKey, progress
  <1>3. ASSUME NEW t \in DOMAIN task, generateAck(t) PROVE TaskType' /\ Keeps
      BY <1>3, GenerateAckEffect, BecomesKeeps DEF generateAck, progress
  <1>4. ASSUME NEW t \in DOMAIN task, generateObject(t) PROVE TaskType' /\ Keeps
      BY <1>4, GenerateObjectEffect, BecomesKeeps DEF generateObject, progress
  <1>5. ASSUME NEW t \in DOMAIN task, saveNew(t) PROVE TaskType' /\ Keeps
    <2>1. task[t].uid = 0 /\ To' = To
        BY <1>5 DEF saveNew, progress
    <2>2. Becomes(t, nextUID.outbox, task[t].pkOut, task[t].ackExp, task[t].ack,
                  AfterSave[task[t].pc])
        BY <1>5, SaveNewEffect
    <2>3. QED
        BY <2>1, <2>2, BecomesKeeps
  <1>6. ASSUME NEW t \in DOMAIN task, saveDelete(t) PROVE TaskType' /\ Keeps
      BY <1>6, SaveDeleteEffect, BecomesKeeps DEF saveDelete, progress
  <1>7. ASSUME NEW t \in DOMAIN task, saveInsert(t) PROVE TaskType' /\ Keeps
      BY <1>7, SaveInsertEffect, BecomesKeeps DEF saveInsert, progress
  <1>8. ASSUME NEW t \in DOMAIN task,
               \/ generateFails(t) \/ runMsg(t) \/ send(t)
               \/ moveRead(t) \/ moveDelete(t) \/ moveAdd(t)
        PROVE  TaskType' /\ Keeps
    <2>1. To' = To
        BY <1>8 DEF generateFails, runMsg, send, moveRead, moveDelete, moveAdd, progress
    <2>2. QED
        BY <1>8, <2>1, GotoEffects, BecomesKeeps
  <1>9. ASSUME NEW o \in DOMAIN orders, powDone(o) PROVE TaskType' /\ Keeps
      BY <1>9, PowDoneEffect, BecomesKeeps DEF powDone, progress
  <1>10. ASSUME processNext PROVE TaskType' /\ Keeps
      BY <1>10, ProcessNextEffect, GrowsKeeps DEF processNext, progress
  <1>11. ASSUME restart PROVE TaskType' /\ Keeps
      BY <1>11, RestartEffect
  <1>12. ASSUME QuietStep \/ UNCHANGED vars PROVE TaskType' /\ Keeps
      BY <1>12, QuietEffect, SameKeeps DEF vars, progress
  <1>13. ASSUME NEW t \in DOMAIN task, Failing(t) PROVE TaskType' /\ Keeps
      BY <1>13, FailingEffect, FailingWrites, BecomesKeeps
  <1>14. QED
      BY <1>0, <1>1, <1>2, <1>3, <1>4, <1>5, <1>6, <1>7, <1>8, <1>9, <1>10, <1>11, <1>12, <1>13
         DEF Next, TaskStep, HandlerStep, QuietStep, Failing
-----------------------------------------------------------------------------
(* Type correctness, part by part.                                         *)

(* Orders stay orders of tasks when tasks are added.                       *)
LEMMA OrdersKept ==
    ASSUME TypeOK, Keeps, orders' = orders
    PROVE  /\ orders' \in Seq([kind : {"getpubkey", "ack", "msg"}, task : DOMAIN task'])
           /\ \A o \in DOMAIN orders' :
                orders'[o].kind = "getpubkey" => Recipient(orders[o].task)' \in Addresses
  <1> DEFINE R == [kind : {"getpubkey", "ack", "msg"}, task : DOMAIN task]
             Q == [kind : {"getpubkey", "ack", "msg"}, task : DOMAIN task']
  <1>1. orders \in Seq(R)
      BY DEF TypeOK, OrdersType
  <1>2. \A r \in R : r \in Q
      BY DEF Keeps
  <1>3. orders \in Seq(Q)
    <2> HIDE DEF R, Q
    <2>1. Len(orders) \in Nat /\ \A o \in 1..Len(orders) : orders[o] \in Q
        BY <1>1, <1>2
    <2>2. orders \in [1..Len(orders) -> Q]
        BY <1>1, <2>1
    <2>3. QED
        BY <2>1, <2>2, SeqDef
  <1>4. ASSUME NEW o \in DOMAIN orders, orders[o].kind = "getpubkey"
        PROVE  Recipient(orders[o].task)' \in Addresses
    <2>1. orders[o].task \in DOMAIN task /\ Recipient(orders[o].task) \in Addresses
        BY <1>4, OrderFacts DEF TypeOK, OrdersType
    <2>2. QED
        BY <2>1 DEF Recipient, Keeps
  <1>5. QED
      BY <1>3, <1>4

(* Handing an order to the queue.                                          *)
LEMMA RunPowEffect ==
    ASSUME TypeOK, NEW t \in DOMAIN task, NEW kind, RunPow(kind, t)
    PROVE  /\ DOMAIN orders = 1..submitted /\ submitted \in Nat
           /\ DOMAIN orders' = 1..(submitted + 1) /\ submitted' = submitted + 1
           /\ DOMAIN orders' = DOMAIN orders \cup {submitted + 1}
           /\ submitted + 1 \notin DOMAIN orders
           /\ \A o \in DOMAIN orders : orders'[o] = orders[o]
           /\ orders'[submitted + 1] = [kind |-> kind, task |-> t]
           /\ UNCHANGED <<taken, active, owed, called>>
  <1> DEFINE R == [kind : {"getpubkey", "ack", "msg"}, task : DOMAIN task]
             r == [kind |-> kind, task |-> t]
  <1>1. orders \in Seq(R) /\ submitted = Len(orders) /\ submitted \in Nat
      BY OrderFacts DEF TypeOK, OrdersType
  <1>2. orders' = Append(orders, r)
      BY DEF RunPow
  <1> HIDE DEF r, R
  <1>3. orders \in Seq(R \cup {r}) /\ r \in R \cup {r}
      BY <1>1
  <1>4. /\ orders' \in Seq(R \cup {r}) /\ Len(orders') = Len(orders) + 1
        /\ \A o \in 1..Len(orders) : orders'[o] = orders[o]
        /\ orders'[Len(orders) + 1] = r
      BY <1>2, <1>3, AppendProperties
  <1>5. DOMAIN orders = 1..submitted /\ DOMAIN orders' = 1..(submitted + 1)
      BY <1>1, <1>4
  <1>6. QED
      BY <1>1, <1>4, <1>5 DEF RunPow, Submit, r

LEMMA RunPowType ==
    ASSUME TypeOK, Keeps, NEW t \in DOMAIN task, NEW kind \in {"getpubkey", "ack", "msg"},
           RunPow(kind, t), kind = "getpubkey" => Recipient(t) \in Addresses
    PROVE  OrdersType'
  <1> DEFINE Q == [kind : {"getpubkey", "ack", "msg"}, task : DOMAIN task']
  <1>1. /\ DOMAIN orders' = 1..(submitted + 1) /\ DOMAIN orders = 1..submitted
        /\ submitted \in Nat /\ taken \in Nat /\ taken <= submitted
        /\ submitted' = submitted + 1 /\ UNCHANGED <<taken, active, owed, called>>
        /\ \A o \in DOMAIN orders : orders'[o] = orders[o]
        /\ orders'[submitted + 1] = [kind |-> kind, task |-> t]
      BY RunPowEffect, OrderFacts
  <1>2. \A o \in DOMAIN orders : orders[o] \in [kind : {"getpubkey", "ack", "msg"}, task : DOMAIN task]
      BY OrderFacts
  <1>3. \A o \in 1..(submitted + 1) : orders'[o] \in Q
      BY <1>1, <1>2 DEF Keeps
  <1>4. orders' \in Seq(Q) /\ Len(orders') = submitted + 1
    <2> HIDE DEF Q
    <2>1. orders' = Append(orders, [kind |-> kind, task |-> t])
        BY DEF RunPow
    <2>2. orders \in Seq(Q) /\ [kind |-> kind, task |-> t] \in Q
      <3>1. Len(orders) = submitted /\ orders \in [1..submitted -> Q]
          BY <1>1, <1>3, OrderFacts DEF TypeOK, OrdersType
      <3>2. orders \in Seq(Q)
          BY <1>1, <3>1, SeqDef
      <3>3. submitted + 1 \in 1..(submitted + 1)
          BY <1>1
      <3>4. QED
          BY <1>1, <1>3, <3>2, <3>3
    <2>3. QED
        BY <2>1, <2>2, AppendProperties, OrderFacts
  <1>5. ASSUME NEW o \in DOMAIN orders', orders'[o].kind = "getpubkey"
        PROVE  Recipient(orders[o].task)' \in Addresses
    <2>1. CASE o = submitted + 1
        BY <1>1, <1>5, <2>1 DEF Recipient, Keeps
    <2>2. CASE o # submitted + 1
      <3>1. o \in DOMAIN orders /\ orders'[o] = orders[o]
          BY <1>1, <2>2
      <3>2. orders[o].task \in DOMAIN task /\ Recipient(orders[o].task) \in Addresses
          BY <1>5, <3>1, OrderFacts DEF TypeOK, OrdersType
      <3>3. QED
          BY <3>1, <3>2 DEF Recipient, Keeps
    <2>3. QED
        BY <2>1, <2>2
  <1>6. taken' \in 0..submitted' /\ (active \cup owed \cup called)' \subseteq 1..taken'
      BY <1>1 DEF TypeOK, OrdersType
  <1>7. QED
      BY <1>1, <1>4, <1>5, <1>6 DEF OrdersType

(* The proof-of-work manager keeps its numbers in order.                   *)
LEMMA StepOrdersType ==
    ASSUME TypeOK, [Next]_vars
    PROVE  OrdersType'
  <1> USE StepKeeps
  <1>1. ASSUME orders' = orders, UNCHANGED ordersVars PROVE OrdersType'
      BY <1>1, OrdersKept DEF TypeOK, OrdersType, ordersVars
  <1>2. ASSUME NEW t \in DOMAIN task, requestKey(t) PROVE OrdersType'
      BY <1>2, RunPowType DEF requestKey
  <1>3. ASSUME NEW t \in DOMAIN task, generateAck(t) PROVE OrdersType'
      BY <1>3, RunPowType DEF generateAck
  <1>4. ASSUME NEW t \in DOMAIN task, runMsg(t) PROVE OrdersType'
      BY <1>4, RunPowType DEF runMsg
  <1>5. ASSUME orders' = orders, Begin PROVE OrdersType'
      BY <1>5, OrdersKept, OrderFacts DEF TypeOK, OrdersType, Begin
  <1>6. ASSUME orders' = orders, NEW o \in DOMAIN orders, Complete(o) PROVE OrdersType'
      BY <1>6, OrdersKept, OrderFacts DEF TypeOK, OrdersType, Complete
  <1>7. ASSUME orders' = orders, NEW o \in DOMAIN orders, Call(o) PROVE OrdersType'
      BY <1>7, OrdersKept, OrderFacts DEF TypeOK, OrdersType, Call
  <1>8. ASSUME restart PROVE OrdersType'
      BY <1>8, OrdersKept, OrderFacts DEF TypeOK, OrdersType, restart
  <1>9. ASSUME NEW t \in DOMAIN task,
               \/ generateObject(t) \/ generateFails(t) \/ panic(t) \/ saveNew(t)
               \/ saveDelete(t) \/ saveInsert(t) \/ send(t) \/ moveRead(t)
               \/ moveDelete(t) \/ moveAdd(t) \/ DeliverAckReply(t)
        PROVE  orders' = orders /\ UNCHANGED ordersVars
      BY <1>9 DEF generateObject, generateFails, panic, saveNew, saveDelete, saveInsert, send,
                  moveRead, moveDelete, moveAdd, DeliverAckReply
  <1>10. ASSUME \/ \E m \in Mails : DeliverFromSMTP(m) \/ addNewFails(m)
                \/ pkTick \/ processNext \/ pkRemove
                \/ \E a \in Addresses : DeliverPublic(a) \/ keyArrives(a)
                \/ \E r \in outbox : expunge(r) \/ storeRead(r)
                \/ \E s \in saving : storeDelete(s) \/ storeInsert(s) \/ storeFails(s)
                \/ UNCHANGED vars
         PROVE  orders' = orders /\ UNCHANGED ordersVars
      BY <1>10 DEF DeliverFromSMTP, addNewFails, pkTick, processNext, pkRemove, DeliverPublic,
                   keyArrives, expunge, storeRead, storeDelete, storeInsert, storeFails, vars
  <1>11. ASSUME NEW t \in DOMAIN task, Failing(t) PROVE orders' = orders /\ UNCHANGED ordersVars
      BY <1>11, FailingWrites
  <1>12. QED
      BY <1>1, <1>2, <1>3, <1>4, <1>5, <1>6, <1>7, <1>8, <1>9, <1>10, <1>11
         DEF Next, TaskStep, HandlerStep, Failing, powBegin, powComplete, keyRequested, powDone

(* The records that are stored are messages.                               *)
LEMMA StoredFacts ==
    ASSUME TypeOK
    PROVE  /\ nextUID.outbox \in Nat /\ nextUID.limbo \in Nat
           /\ \A t \in DOMAIN task : \A u \in Nat : serializeBitmessage(t, u) \in StoredMessage
           /\ \A r \in outbox \cup queue :
                r \in StoredMessage /\ r.uid \in Nat /\ r.mail \in Mails /\ r.pkOut \in BOOLEAN
           /\ \A s \in saving :
                /\ s \in [rec : StoredMessage, was : BOOLEAN, held : BOOLEAN]
                /\ s.rec \in StoredMessage /\ s.rec.uid \in Nat /\ s.rec.mail \in Mails
                /\ s.was \in BOOLEAN /\ s.held \in BOOLEAN /\ s.rec.pkOut \in BOOLEAN
  <1>1. \A t \in DOMAIN task : \A u \in Nat : serializeBitmessage(t, u) \in StoredMessage
      BY TaskFacts DEF serializeBitmessage, StoredMessage
  <1>2. \A r \in outbox \cup queue :
          r \in StoredMessage /\ r.uid \in Nat /\ r.mail \in Mails /\ r.pkOut \in BOOLEAN
      BY DEF TypeOK, FoldersType, StoredMessage
  <1>3. \A s \in saving : s \in [rec : StoredMessage, was : BOOLEAN, held : BOOLEAN]
      BY DEF TypeOK, FoldersType
  <1>4. ASSUME NEW s \in saving
        PROVE  /\ s.rec \in StoredMessage /\ s.was \in BOOLEAN /\ s.held \in BOOLEAN
               /\ s.rec.uid \in Nat /\ s.rec.mail \in Mails /\ s.rec.pkOut \in BOOLEAN
      BY <1>3 DEF StoredMessage
  <1>5. QED
      BY <1>1, <1>2, <1>3, <1>4 DEF TypeOK, FoldersType

(* The effect of the IMAP client's Save.                                   *)
LEMMA StoreReadEffect ==
    ASSUME TypeOK, NEW r \in outbox, storeRead(r)
    PROVE  /\ \A s \in saving' :
                /\ s \in [rec : StoredMessage, was : BOOLEAN, held : BOOLEAN]
                /\ s.rec.uid = r.uid /\ s.rec.mail = r.mail /\ s.rec.pkOut = r.pkOut
                /\ s.was = r.pkOut /\ ~s.held
           /\ \A s1, s2 \in saving' : s1 = s2
  <1> DEFINE q == [r EXCEPT !.ack = FALSE]
             d == [rec |-> q, was |-> r.pkOut, held |-> FALSE]
  <1>1. r \in StoredMessage
      BY StoredFacts
  <1>2. q \in StoredMessage /\ q.uid = r.uid /\ q.mail = r.mail /\ q.pkOut = r.pkOut
        /\ r.pkOut \in BOOLEAN
      BY <1>1 DEF StoredMessage
  <1>3. saving' = {d}
      BY DEF storeRead
  <1> HIDE DEF q
  <1>4. /\ d \in [rec : StoredMessage, was : BOOLEAN, held : BOOLEAN]
        /\ d.rec = q /\ d.was = r.pkOut /\ ~d.held
      BY <1>2
  <1> HIDE DEF d
  <1>5. QED
      BY <1>2, <1>3, <1>4

LEMMA StoreDeleteEffect ==
    ASSUME TypeOK, NEW s \in saving, storeDelete(s)
    PROVE  /\ \A d \in saving' :
                /\ d \in [rec : StoredMessage, was : BOOLEAN, held : BOOLEAN]
                /\ d.rec = s.rec /\ d.was = s.was /\ d.held /\ Stored(s.rec.uid) # {}
           /\ \A s1, s2 \in saving' : s1 = s2
           /\ Stored(s.rec.uid) # {} => saving' # {}
  <1> DEFINE d == [s EXCEPT !.held = TRUE]
  <1>1. s \in [rec : StoredMessage, was : BOOLEAN, held : BOOLEAN]
      BY StoredFacts
  <1>2. /\ d \in [rec : StoredMessage, was : BOOLEAN, held : BOOLEAN]
        /\ d.rec = s.rec /\ d.was = s.was /\ d.held
      BY <1>1
  <1>3. saving' = {e \in {d} : Stored(s.rec.uid) # {}}
      BY DEF storeDelete
  <1> HIDE DEF d
  <1>4. QED
      BY <1>2, <1>3

(* The steps that write neither the Outbox nor the Save in progress.       *)
Elsewhere ==
    /\ UNCHANGED <<outbox, saving>> /\ nextUID'.outbox = nextUID.outbox
    /\ nextUID' \in [outbox : Nat, limbo : Nat]

LEMMA StepElsewhere ==
    ASSUME TypeOK
    PROVE  /\ \A t \in DOMAIN task :
                (\/ requestKey(t) \/ generateAck(t) \/ generateObject(t) \/ generateFails(t)
                 \/ panic(t) \/ runMsg(t) \/ send(t) \/ moveRead(t) \/ moveAdd(t)
                 \/ DeliverAckReply(t) \/ Failing(t)) => Elsewhere
           /\ \A m \in Mails : addNewFails(m) => Elsewhere
           /\ powBegin => Elsewhere
           /\ \A o \in DOMAIN orders :
                (powComplete(o) \/ keyRequested(o) \/ powDone(o)) => Elsewhere
           /\ (pkTick \/ processNext \/ pkRemove) => Elsewhere
           /\ \A a \in Addresses : (DeliverPublic(a) \/ keyArrives(a)) => Elsewhere
           /\ UNCHANGED vars => Elsewhere
  <1>1. nextUID \in [outbox : Nat, limbo : Nat]
      BY DEF TypeOK, FoldersType
  <1>2. ASSUME UNCHANGED boxes PROVE Elsewhere
      BY <1>1, <1>2 DEF Elsewhere, boxes
  <1>3. ASSUME NEW t \in DOMAIN task,
               \/ requestKey(t) \/ generateAck(t) \/ generateObject(t) \/ generateFails(t)
               \/ panic(t) \/ runMsg(t) \/ send(t) \/ moveRead(t)
        PROVE  Elsewhere
      BY <1>2, <1>3 DEF requestKey, generateAck, generateObject, generateFails, panic, runMsg,
                        send, moveRead
  <1>4. ASSUME NEW t \in DOMAIN task, moveAdd(t) PROVE Elsewhere
      BY <1>1, <1>4 DEF moveAdd, Elsewhere
  <1>5. ASSUME NEW t \in DOMAIN task, DeliverAckReply(t) PROVE Elsewhere
      BY <1>1, <1>5 DEF DeliverAckReply, Elsewhere
  <1>6. ASSUME NEW o \in DOMAIN orders, powComplete(o) \/ keyRequested(o) \/ powDone(o)
        PROVE  Elsewhere
      BY <1>2, <1>6 DEF powComplete, keyRequested, powDone
  <1>7. ASSUME powBegin \/ pkTick \/ processNext \/ pkRemove \/ UNCHANGED vars PROVE Elsewhere
      BY <1>2, <1>7 DEF powBegin, pkTick, processNext, pkRemove, vars
  <1>8. ASSUME NEW a \in Addresses, DeliverPublic(a) \/ keyArrives(a) PROVE Elsewhere
      BY <1>2, <1>8 DEF DeliverPublic, keyArrives
  <1>9. ASSUME NEW t \in DOMAIN task, Failing(t) PROVE Elsewhere
      BY <1>2, <1>9, FailingWrites
  <1>10. ASSUME NEW m \in Mails, addNewFails(m) PROVE Elsewhere
      BY <1>2, <1>10 DEF addNewFails
  <1>11. QED
      BY <1>3, <1>4, <1>5, <1>6, <1>7, <1>8, <1>9, <1>10

(* The folder that a message is moved to, and DeliverPublic's queue.       *)
FiledType ==
    /\ queue \subseteq StoredMessage
    /\ limbo \subseteq [uid : Nat, mail : Mails, task : DOMAIN task]
    /\ sent \subseteq [mail : Mails, task : DOMAIN task]

LEMMA StepFiledType ==
    ASSUME TypeOK, [Next]_vars
    PROVE  FiledType'
  <1>1. Keeps
      BY StepKeeps
  <1>2. ASSUME UNCHANGED <<limbo, sent>>, queue' \subseteq StoredMessage PROVE FiledType'
      BY <1>1, <1>2 DEF TypeOK, FoldersType, FiledType, Keeps
  <1>3. ASSUME NEW t \in DOMAIN task, moveAdd(t) PROVE FiledType'
    <2>1. task[t].mail \in Mails /\ t \in DOMAIN task' /\ nextUID.limbo \in Nat /\ queue' = queue
        BY <1>1, <1>3, TaskFacts, StoredFacts DEF Keeps, moveAdd, handler
    <2>2. QED
        BY <1>1, <1>3, <2>1 DEF TypeOK, FoldersType, FiledType, Keeps, moveAdd
  <1>4. ASSUME NEW t \in DOMAIN task, DeliverAckReply(t) PROVE FiledType'
    <2>1. /\ \A r \in limbo : r.mail \in Mails /\ r.task \in DOMAIN task'
          /\ queue' = queue /\ limbo' \subseteq limbo
        BY <1>1, <1>4 DEF TypeOK, FoldersType, Keeps, DeliverAckReply, handler
    <2>2. \A r \in sent' : r \in sent \/ \E q \in limbo : r = [mail |-> q.mail, task |-> q.task]
        BY <1>4 DEF DeliverAckReply
    <2>3. QED
        BY <1>1, <2>1, <2>2 DEF TypeOK, FoldersType, FiledType, Keeps
  <1>5. queue \subseteq StoredMessage /\ outbox \subseteq StoredMessage
      BY DEF TypeOK, FoldersType
  <1>6. ASSUME NEW t \in DOMAIN task,
               \/ requestKey(t) \/ generateAck(t) \/ generateObject(t) \/ generateFails(t)
               \/ panic(t) \/ saveNew(t) \/ saveDelete(t) \/ saveInsert(t) \/ runMsg(t)
               \/ send(t) \/ moveRead(t) \/ moveDelete(t)
        PROVE  UNCHANGED <<limbo, sent, queue>>
      BY <1>6 DEF requestKey, generateAck, generateObject, generateFails, panic, saveNew,
                  saveDelete, saveInsert, runMsg, send, moveRead, moveDelete, boxes, handler
  <1>7. ASSUME \/ \E m \in Mails : DeliverFromSMTP(m) \/ addNewFails(m)
               \/ powBegin
               \/ \E o \in DOMAIN orders : powComplete(o) \/ keyRequested(o) \/ powDone(o)
               \/ pkTick \/ \E a \in Addresses : keyArrives(a)
               \/ \E r \in outbox : expunge(r) \/ storeRead(r)
               \/ \E s \in saving : storeDelete(s) \/ storeInsert(s) \/ storeFails(s)
               \/ UNCHANGED vars
        PROVE  UNCHANGED <<limbo, sent, queue>>
      BY <1>7 DEF DeliverFromSMTP, addNewFails, powBegin, powComplete, keyRequested, powDone,
                  pkTick, keyArrives, expunge, storeRead, storeDelete, storeInsert, storeFails,
                  vars, boxes, handler
  <1>8. ASSUME processNext \/ pkRemove \/ restart \/ \E a \in Addresses : DeliverPublic(a)
        PROVE  UNCHANGED <<limbo, sent>> /\ queue' \subseteq queue \cup outbox
      BY <1>8 DEF processNext, pkRemove, restart, DeliverPublic, boxes
  <1>9. ASSUME NEW t \in DOMAIN task, Failing(t) PROVE UNCHANGED <<limbo, sent, queue>>
      BY <1>9, FailingWrites
  <1>10. QED
      BY <1>2, <1>3, <1>4, <1>5, <1>6, <1>7, <1>8, <1>9
         DEF Next, TaskStep, HandlerStep, Failing

(* The Outbox and the Save in progress.                                    *)
LEMMA StepFoldersType ==
    ASSUME TypeOK, [Next]_vars
    PROVE  FoldersType'
  <1> DEFINE Saving == [rec : StoredMessage, was : BOOLEAN, held : BOOLEAN]
             Goal == /\ nextUID' \in [outbox : Nat, limbo : Nat]
                     /\ outbox' \subseteq StoredMessage
                     /\ saving' \subseteq Saving /\ \A s1, s2 \in saving' : s1 = s2
  <1>1. /\ nextUID \in [outbox : Nat, limbo : Nat] /\ outbox \subseteq StoredMessage
        /\ saving \subseteq Saving /\ \A s1, s2 \in saving : s1 = s2
      BY DEF TypeOK, FoldersType
  <1>2. ASSUME Elsewhere PROVE Goal
      BY <1>1, <1>2 DEF Elsewhere
  <1>3. ASSUME NEW m \in Mails, DeliverFromSMTP(m) PROVE Goal
    <2> DEFINE r == [uid |-> nextUID.outbox, mail |-> m, pkOut |-> FALSE,
                     ackExp |-> FALSE, ack |-> FALSE]
    <2>1. nextUID.outbox \in Nat /\ r \in StoredMessage
        BY <1>1 DEF StoredMessage
    <2>2. /\ outbox' = outbox \cup {r} /\ saving' = saving
          /\ nextUID' = [nextUID EXCEPT !.outbox = @ + 1]
        BY <1>3 DEF DeliverFromSMTP, newMessage
    <2> HIDE DEF r
    <2>3. QED
        BY <1>1, <2>1, <2>2
  <1>4. ASSUME NEW t \in DOMAIN task, saveNew(t) PROVE Goal
    <2>1. nextUID.outbox \in Nat /\ serializeBitmessage(t, nextUID.outbox) \in StoredMessage
        BY StoredFacts
    <2>2. /\ outbox' = outbox \cup {serializeBitmessage(t, nextUID.outbox)}
          /\ nextUID' = [nextUID EXCEPT !.outbox = @ + 1] /\ saving' = saving
        BY <1>4 DEF saveNew
    <2>3. QED
        BY <1>1, <2>1, <2>2
  <1>5. ASSUME NEW t \in DOMAIN task, saveDelete(t) \/ moveDelete(t) PROVE Goal
      BY <1>1, <1>5 DEF saveDelete, moveDelete
  <1>6. ASSUME NEW t \in DOMAIN task, saveInsert(t) PROVE Goal
      BY <1>1, <1>6, StoredFacts, TaskFacts DEF saveInsert
  <1>7. ASSUME NEW r \in outbox, expunge(r) PROVE Goal
      BY <1>1, <1>7 DEF expunge
  <1>8. ASSUME NEW r \in outbox, storeRead(r) PROVE Goal
      BY <1>1, <1>8, StoreReadEffect DEF storeRead
  <1>9. ASSUME NEW s \in saving, storeDelete(s) PROVE Goal
      BY <1>1, <1>9, StoreDeleteEffect DEF storeDelete
  <1>10. ASSUME NEW s \in saving, storeInsert(s) PROVE Goal
      BY <1>1, <1>10, StoredFacts DEF storeInsert
  <1>11. ASSUME restart PROVE Goal
      BY <1>1, <1>11 DEF restart
  <1>12. ASSUME NEW s \in saving, storeFails(s) PROVE Goal
      BY <1>1, <1>12 DEF storeFails
  <1> HIDE DEF Goal
  <1>13. Goal
      BY <1>2, <1>3, <1>4, <1>5, <1>6, <1>7, <1>8, <1>9, <1>10, <1>11, <1>12, StepElsewhere
         DEF Next, TaskStep, HandlerStep, Failing
  <1>14. QED
      BY <1>13, StepFiledType DEF Goal, FiledType, FoldersType

(* The request store, the keys, the handler and the network.               *)
LEMMA StepStoresType ==
    ASSUME TypeOK, [Next]_vars
    PROVE  StoresType'
  <1> DEFINE Keyed == pk' \cup known' \cup cache' \cup found' \subseteq Addresses
             Placed == target' \in Addresses \cup {NoAddress} /\ current' \in 0..Len(task')
             Counted == net' \cup expunged' \subseteq DOMAIN task /\ sends' \in [Task -> Nat]
  <1>1. /\ accepted \subseteq Mails /\ pk \cup known \cup cache \cup found \subseteq Addresses
        /\ target \in Addresses \cup {NoAddress} /\ current \in 0..Len(task)
        /\ net \cup expunged \subseteq DOMAIN task /\ sends \in [Task -> Nat]
      BY DEF TypeOK, StoresType
  <1>2. Keeps /\ TaskType' /\ Len(task) \in Nat /\ DOMAIN task = 1..Len(task)
      BY StepKeeps, TaskFacts
  <1>3. Len(task') \in Nat /\ Len(task) <= Len(task')
    <2>1. Len(task') \in Nat /\ DOMAIN task' = 1..Len(task')
        BY <1>2 DEF TaskType
    <2>2. CASE Len(task) = 0
        BY <1>2, <2>1, <2>2
    <2>3. CASE Len(task) # 0
      <3>1. Len(task) \in DOMAIN task
          BY <1>2, <2>3
      <3>2. Len(task) \in DOMAIN task'
          BY <1>2, <3>1 DEF Keeps
      <3>3. QED
          BY <2>1, <3>2, <1>2
    <2>4. QED
        BY <2>2, <2>3
  <1>4. accepted' \subseteq Mails
    <2>1. accepted' = accepted \/ \E m \in Mails : accepted' = accepted \cup {m}
        BY FailingWrites DEF Next, TaskStep, HandlerStep, Failing, DeliverFromSMTP, addNewFails,
               storeFails, requestKey, generateAck, generateObject, generateFails, panic, saveNew, saveDelete, saveInsert, runMsg, send,
               moveRead, moveDelete, moveAdd, DeliverAckReply, powBegin, powComplete, keyRequested,
               powDone, pkTick, processNext, pkRemove, DeliverPublic, keyArrives, expunge, storeRead,
               storeDelete, storeInsert, restart, vars
    <2>2. QED
        BY <1>1, <2>1
  <1>5. Keyed
    <2>1. ASSUME NEW t \in DOMAIN task, requestKey(t) \/ generateAck(t) \/ generateObject(t)
          PROVE  Keyed
        BY <1>1, <2>1 DEF requestKey, generateAck, generateObject, KeyFound, handler
    <2>2. ASSUME NEW o \in DOMAIN orders, keyRequested(o) PROVE Keyed
        BY <1>1, <2>2 DEF keyRequested, handler, TypeOK, OrdersType
    <2>3. ASSUME pkTick \/ pkRemove \/ restart \/ \E a \in Addresses : keyArrives(a)
          PROVE  Keyed
        BY <1>1, <2>3 DEF pkTick, pkRemove, restart, keyArrives, handler
    <2>4. ASSUME NEW t \in DOMAIN task,
                 \/ generateFails(t) \/ panic(t) \/ saveNew(t) \/ saveDelete(t)
                 \/ saveInsert(t) \/ runMsg(t) \/ send(t) \/ moveRead(t) \/ moveDelete(t)
                 \/ moveAdd(t) \/ DeliverAckReply(t)
          PROVE  Keyed
        BY <1>1, <2>4 DEF generateFails, panic, saveNew, saveDelete, saveInsert, runMsg, send,
                          moveRead, moveDelete, moveAdd, DeliverAckReply, handler
    <2>5. ASSUME \/ \E m \in Mails : DeliverFromSMTP(m) \/ addNewFails(m)
                 \/ powBegin \/ \E o \in DOMAIN orders : powComplete(o) \/ powDone(o)
                 \/ processNext \/ \E a \in Addresses : DeliverPublic(a)
                 \/ \E r \in outbox : expunge(r) \/ storeRead(r)
                 \/ \E s \in saving : storeDelete(s) \/ storeInsert(s) \/ storeFails(s)
                 \/ UNCHANGED vars
          PROVE  Keyed
        BY <1>1, <2>5 DEF DeliverFromSMTP, addNewFails, powBegin, powComplete, powDone,
                          processNext, DeliverPublic, expunge, storeRead, storeDelete,
                          storeInsert, storeFails, vars, handler
    <2>6. ASSUME NEW t \in DOMAIN task, Failing(t) PROVE Keyed
        BY <1>1, <2>6, FailingWrites
    <2> HIDE DEF Keyed
    <2>7. QED
        BY <2>1, <2>2, <2>3, <2>4, <2>5, <2>6 DEF Next, TaskStep, HandlerStep, Failing
  <1>6. Placed
    <2>1. ASSUME UNCHANGED <<target, current>> PROVE Placed
        BY <1>1, <1>2, <1>3, <2>1
    <2>2. ASSUME pkRemove \/ restart \/ \E a \in Addresses : DeliverPublic(a) PROVE Placed
        BY <1>1, <1>2, <1>3, <2>2 DEF pkRemove, restart, DeliverPublic
    <2>3. ASSUME processNext PROVE Placed
      <3>1. PICK r \in queue : task' = Append(task, decodeBitmessage(r))
          BY <2>3 DEF processNext
      <3>2. Len(task') = Len(task) + 1
          BY <3>1, ProcessNextEffect DEF Grows
      <3>3. QED
          BY <1>1, <1>2, <2>3, <3>2 DEF processNext
    <2>4. ASSUME NEW t \in DOMAIN task, TaskStep(t) \/ DeliverAckReply(t) PROVE Placed
        BY <2>1, <2>4, FailingWrites DEF TaskStep, Failing, requestKey, generateAck, generateObject, generateFails, panic,
             saveNew, saveDelete, saveInsert, runMsg, send, moveRead, moveDelete, moveAdd,
             DeliverAckReply, handler
    <2>5. ASSUME \/ \E m \in Mails : DeliverFromSMTP(m) \/ addNewFails(m)
                 \/ powBegin
                 \/ \E o \in DOMAIN orders : powComplete(o) \/ keyRequested(o) \/ powDone(o)
                 \/ pkTick \/ \E a \in Addresses : keyArrives(a)
                 \/ \E r \in outbox : expunge(r) \/ storeRead(r)
                 \/ \E s \in saving : storeDelete(s) \/ storeInsert(s) \/ storeFails(s)
                 \/ UNCHANGED vars
          PROVE  Placed
        BY <2>1, <2>5 DEF DeliverFromSMTP, addNewFails, powBegin, powComplete, keyRequested,
             powDone, pkTick, keyArrives, expunge, storeRead, storeDelete, storeInsert,
             storeFails, vars, handler
    <2> HIDE DEF Placed
    <2>6. QED
        BY <2>2, <2>3, <2>4, <2>5 DEF Next, HandlerStep
  <1>7. Counted
    <2>1. ASSUME UNCHANGED <<net, expunged, sends>> PROVE Counted
        BY <1>1, <2>1
    <2>2. ASSUME NEW t \in DOMAIN task, send(t) PROVE Counted
        BY <1>1, <2>2, TaskFacts DEF send
    <2>3. ASSUME NEW r \in outbox, expunge(r) PROVE Counted
        BY <1>1, <2>3 DEF expunge
    <2>4. ASSUME NEW t \in DOMAIN task,
                 \/ requestKey(t) \/ generateAck(t) \/ generateObject(t) \/ generateFails(t)
                 \/ panic(t) \/ saveNew(t) \/ saveDelete(t) \/ saveInsert(t) \/ runMsg(t)
                 \/ moveRead(t) \/ moveDelete(t) \/ moveAdd(t) \/ DeliverAckReply(t)
          PROVE  Counted
        BY <2>1, <2>4 DEF requestKey, generateAck, generateObject, generateFails, panic,
             saveNew, saveDelete, saveInsert, runMsg, moveRead, moveDelete, moveAdd,
             DeliverAckReply, history, record
    <2>5. ASSUME \/ \E m \in Mails : DeliverFromSMTP(m) \/ addNewFails(m)
                 \/ powBegin
                 \/ \E o \in DOMAIN orders : powComplete(o) \/ keyRequested(o) \/ powDone(o)
                 \/ pkTick \/ processNext \/ pkRemove
                 \/ \E a \in Addresses : DeliverPublic(a) \/ keyArrives(a)
                 \/ \E r \in outbox : storeRead(r)
                 \/ \E s \in saving : storeDelete(s) \/ storeInsert(s) \/ storeFails(s)
                 \/ restart \/ UNCHANGED vars
          PROVE  Counted
        BY <2>1, <2>5 DEF DeliverFromSMTP, addNewFails, powBegin, powComplete, keyRequested,
             powDone, pkTick, processNext, pkRemove, DeliverPublic, keyArrives, storeRead,
             storeDelete, storeInsert, storeFails, restart, vars, history, record
    <2>6. ASSUME NEW t \in DOMAIN task, Failing(t) PROVE Counted
        BY <2>1, <2>6, FailingWrites
    <2> HIDE DEF Counted
    <2>7. QED
        BY <2>2, <2>3, <2>4, <2>5, <2>6 DEF Next, TaskStep, HandlerStep, Failing
  <1>8. QED
      BY <1>2, <1>4, <1>5, <1>6, <1>7 DEF StoresType, Keeps

(* Every step keeps the types.                                             *)
LEMMA StepType ==
    ASSUME TypeOK, [Next]_vars
    PROVE  TypeOK'
  BY StepKeeps, StepOrdersType, StepFoldersType, StepStoresType DEF TypeOK

LEMMA InitType ==
    ASSUME Init
    PROVE  TypeOK
  <1>1. task \in Seq(TaskRecord) /\ Len(task) = 0 /\ DOMAIN task = {}
      BY DEF Init
  <1>2. TaskType
      BY <1>1, OutgoingAssumption DEF Init, TaskType
  <1>3. OrdersType
      BY <1>1 DEF Init, OrdersInit, OrdersType
  <1>4. FoldersType
      BY <1>1 DEF Init, FoldersType
  <1>5. StoresType
      BY <1>1, OutgoingAssumption DEF Init, StoresType, Task
  <1>6. QED
      BY <1>2, <1>3, <1>4, <1>5 DEF TypeOK
-----------------------------------------------------------------------------
(* Orders and the tasks that wait for them.                                *)

(* The steps that hand an order to the queue.                              *)
Submitting(t, kind) ==
    \/ kind = "getpubkey" /\ requestKey(t)
    \/ kind = "ack" /\ generateAck(t)
    \/ kind = "msg" /\ runMsg(t)

(* The steps that leave the orders alone.                                  *)
OrdersQuiet == UNCHANGED <<submitted, taken, active, owed, called, orders>>

LEMMA StepQuiet ==
    ASSUME TypeOK
    PROVE  /\ \A m \in Mails : DeliverFromSMTP(m) => OrdersQuiet
           /\ \A t \in DOMAIN task :
                (\/ generateObject(t) \/ generateFails(t) \/ panic(t) \/ saveNew(t)
                 \/ saveDelete(t) \/ saveInsert(t) \/ send(t) \/ moveRead(t)
                 \/ moveDelete(t) \/ moveAdd(t) \/ DeliverAckReply(t)) => OrdersQuiet
           /\ (pkTick \/ processNext \/ pkRemove) => OrdersQuiet
           /\ \A a \in Addresses : (DeliverPublic(a) \/ keyArrives(a)) => OrdersQuiet
           /\ \A r \in outbox : (expunge(r) \/ storeRead(r)) => OrdersQuiet
           /\ \A s \in saving :
                (storeDelete(s) \/ storeInsert(s) \/ storeFails(s)) => OrdersQuiet
           /\ \A t \in DOMAIN task : Failing(t) => OrdersQuiet
           /\ \A m \in Mails : addNewFails(m) => OrdersQuiet
           /\ UNCHANGED vars => OrdersQuiet
  <1>1. ASSUME orders' = orders, UNCHANGED ordersVars PROVE OrdersQuiet
      BY <1>1 DEF ordersVars, OrdersQuiet
  <1>2. ASSUME NEW m \in Mails, DeliverFromSMTP(m) \/ addNewFails(m) PROVE OrdersQuiet
      BY <1>1, <1>2 DEF DeliverFromSMTP, addNewFails
  <1>3. ASSUME NEW t \in DOMAIN task,
               \/ generateObject(t) \/ generateFails(t) \/ panic(t) \/ saveNew(t)
               \/ saveDelete(t) \/ saveInsert(t) \/ send(t) \/ moveRead(t)
               \/ moveDelete(t) \/ moveAdd(t) \/ DeliverAckReply(t)
        PROVE  OrdersQuiet
      BY <1>1, <1>3 DEF generateObject, generateFails, panic, saveNew, saveDelete, saveInsert, send,
                  moveRead, moveDelete, moveAdd, DeliverAckReply
  <1>4. ASSUME pkTick \/ processNext \/ pkRemove \/ UNCHANGED vars PROVE OrdersQuiet
      BY <1>1, <1>4 DEF pkTick, processNext, pkRemove, vars
  <1>5. ASSUME NEW a \in Addresses, DeliverPublic(a) \/ keyArrives(a) PROVE OrdersQuiet
      BY <1>1, <1>5 DEF DeliverPublic, keyArrives
  <1>6. ASSUME NEW r \in outbox, expunge(r) \/ storeRead(r) PROVE OrdersQuiet
      BY <1>1, <1>6 DEF expunge, storeRead
  <1>7. ASSUME NEW s \in saving, storeDelete(s) \/ storeInsert(s) \/ storeFails(s)
        PROVE  OrdersQuiet
      BY <1>1, <1>7 DEF storeDelete, storeInsert, storeFails
  <1>8. ASSUME NEW t \in DOMAIN task, Failing(t) PROVE OrdersQuiet
      BY <1>1, <1>8, FailingWrites
  <1>9. QED
      BY <1>2, <1>3, <1>4, <1>5, <1>6, <1>7, <1>8

(* An order never comes back to life, and what it is for does not change.  *)
OrdersKeep ==
    /\ DOMAIN orders \subseteq DOMAIN orders'
    /\ \A o \in DOMAIN orders : orders'[o] = orders[o] /\ (Live(o)' => Live(o))

LEMMA SubmittingKeep ==
    ASSUME TypeOK, NEW t \in DOMAIN task, NEW kind, Submitting(t, kind)
    PROVE  /\ OrdersKeep /\ UNCHANGED <<taken, active, owed, called>> /\ submitted \in Nat
           /\ DOMAIN orders' = DOMAIN orders \cup {submitted + 1}
           /\ submitted + 1 \notin DOMAIN orders
           /\ orders'[submitted + 1].kind = kind /\ orders'[submitted + 1].task = t
           /\ kind \in {"getpubkey", "ack", "msg"}
  <1>1. RunPow(kind, t) /\ kind \in {"getpubkey", "ack", "msg"}
      BY DEF Submitting, requestKey, generateAck, runMsg
  <1>2. /\ DOMAIN orders' = DOMAIN orders \cup {submitted + 1} /\ submitted \in Nat
        /\ submitted + 1 \notin DOMAIN orders
        /\ \A o \in DOMAIN orders : orders'[o] = orders[o]
        /\ orders'[submitted + 1] = [kind |-> kind, task |-> t]
        /\ UNCHANGED <<taken, active, owed, called>>
      BY <1>1, RunPowEffect
  <1>3. OrdersKeep
      BY <1>2 DEF OrdersKeep, Live
  <1>4. QED
      BY <1>1, <1>2, <1>3

LEMMA StepOrdersKeep ==
    ASSUME TypeOK, [Next]_vars
    PROVE  OrdersKeep
  <1>1. ASSUME OrdersQuiet PROVE OrdersKeep
      BY <1>1 DEF OrdersQuiet, OrdersKeep, Live
  <1>2. ASSUME NEW t \in DOMAIN task, requestKey(t) \/ generateAck(t) \/ runMsg(t)
        PROVE  OrdersKeep
      BY <1>2, SubmittingKeep DEF Submitting
  <1>3. ASSUME powBegin PROVE OrdersKeep
      BY <1>3, OrderFacts DEF powBegin, Begin, OrdersKeep, Live
  <1>4. ASSUME NEW o \in DOMAIN orders, powComplete(o) PROVE OrdersKeep
      BY <1>4, OrderFacts DEF powComplete, Complete, OrdersKeep, Live
  <1>5. ASSUME NEW o \in DOMAIN orders, keyRequested(o) \/ powDone(o) PROVE OrdersKeep
      BY <1>5, OrderFacts DEF keyRequested, powDone, Call, OrdersKeep, Live
  <1>6. ASSUME restart PROVE OrdersKeep
      BY <1>6, OrderFacts DEF restart, OrdersKeep, Live
  <1>7. QED
      BY <1>1, <1>2, <1>3, <1>4, <1>5, <1>6, StepQuiet DEF Next, TaskStep, HandlerStep, Failing

(* The numbers of orders are in one state each.                            *)
Disjoint == active \cap owed = {} /\ (active \cup owed) \cap called = {}

LEMMA StepDisjoint ==
    ASSUME TypeOK, Disjoint, [Next]_vars
    PROVE  Disjoint'
  <1>1. /\ taken \in Nat /\ active \cup owed \cup called \subseteq 1..taken
        /\ \A o \in active \cup owed \cup called : o # taken + 1
      BY OrderFacts DEF TypeOK, OrdersType
  <1>2. ASSUME OrdersQuiet PROVE Disjoint'
      BY <1>2 DEF OrdersQuiet, Disjoint
  <1>3. ASSUME NEW t \in DOMAIN task, requestKey(t) \/ generateAck(t) \/ runMsg(t)
        PROVE  Disjoint'
      BY <1>3, SubmittingKeep DEF Submitting, Disjoint
  <1>4. ASSUME powBegin PROVE Disjoint'
      BY <1>1, <1>4 DEF powBegin, Begin, Disjoint
  <1>5. ASSUME NEW o \in DOMAIN orders, powComplete(o) PROVE Disjoint'
      BY <1>1, <1>5 DEF powComplete, Complete, Disjoint
  <1>6. ASSUME NEW o \in DOMAIN orders, keyRequested(o) \/ powDone(o) PROVE Disjoint'
      BY <1>1, <1>6 DEF keyRequested, powDone, Call, Disjoint
  <1>7. ASSUME restart PROVE Disjoint'
      BY <1>7 DEF restart, Disjoint
  <1>8. QED
      BY <1>2, <1>3, <1>4, <1>5, <1>6, <1>7, StepQuiet
         DEF Next, TaskStep, HandlerStep, Failing

(* A task is at the same place with respect to its orders after a step     *)
(* that lets it neither begin nor end to wait.                             *)
SameWaits ==
    /\ DOMAIN task \subseteq DOMAIN task'
    /\ \A t \in DOMAIN task : task'[t].pc = "wait" <=> task[t].pc = "wait"
    /\ \A t \in DOMAIN task' : t \notin DOMAIN task => task'[t].pc # "wait"

(* Steps that add no order of process and run no callback of one.          *)
LEMMA WaitsFrame ==
    ASSUME TypeOK, OrdersInv, OrdersKeep, Disjoint', SameWaits,
           \A o \in DOMAIN orders' : o \notin DOMAIN orders => orders'[o].kind = "getpubkey",
           \A o \in DOMAIN orders :
             o \in called' => o \in called \/ orders[o].kind = "getpubkey"
    PROVE  OrdersInv'
  <1>1. \A o \in DOMAIN orders : orders[o].task \in DOMAIN task
      BY OrderFacts
  <1>2. ASSUME NEW o \in DOMAIN orders', NEW t \in DOMAIN task', Live(o)', OrderOf(o, t)'
        PROVE  o \in DOMAIN orders /\ t \in DOMAIN task /\ Live(o) /\ OrderOf(o, t)
      BY <1>1, <1>2 DEF OrdersKeep, OrderOf
  <1>3. \A o \in DOMAIN orders' : \A t \in DOMAIN task' :
          (Live(o)' /\ OrderOf(o, t)') => task'[t].pc = "wait"
      BY <1>2 DEF OrdersInv, SameWaits
  <1>4. \A o, p \in DOMAIN orders' : \A t \in DOMAIN task' :
          (Live(o)' /\ Live(p)' /\ OrderOf(o, t)' /\ OrderOf(p, t)') => o = p
      BY <1>2 DEF OrdersInv
  <1>5. ASSUME NEW t \in DOMAIN task', task'[t].pc = "wait"
        PROVE  \E o \in DOMAIN orders' : OrderOf(o, t)' /\ o \notin called'
    <2>1. t \in DOMAIN task /\ task[t].pc = "wait"
        BY <1>5 DEF SameWaits
    <2>2. PICK o \in DOMAIN orders : OrderOf(o, t) /\ o \notin called
        BY <2>1 DEF OrdersInv
    <2>3. o \in DOMAIN orders' /\ OrderOf(o, t)' /\ o \notin called'
        BY <2>2 DEF OrdersKeep, OrderOf
    <2>4. QED
        BY <2>3
  <1>6. QED
      BY <1>3, <1>4, <1>5 DEF OrdersInv, Disjoint

(* Tasks that go on without waiting.                                       *)
LEMMA BecomesWaits ==
    ASSUME NEW t \in DOMAIN task, NEW uid, NEW pkOut, NEW ackExp, NEW ack, NEW pc,
           Becomes(t, uid, pkOut, ackExp, ack, pc), task[t].pc # "wait", pc # "wait"
    PROVE  SameWaits
  BY DEF Becomes, SameWaits

(* A task begins to wait.                                                  *)
LEMMA WaitBegins ==
    ASSUME TypeOK, OrdersInv, Disjoint', NEW t \in DOMAIN task, task[t].pc # "wait",
           NEW kind \in {"ack", "msg"}, Submitting(t, kind),
           DOMAIN task' = DOMAIN task, task'[t].pc = "wait",
           \A u \in DOMAIN task : u # t => task'[u] = task[u]
    PROVE  OrdersInv'
  <1>1. PICK n \in Nat :
          /\ OrdersKeep /\ UNCHANGED <<taken, active, owed, called>>
          /\ n = submitted + 1 /\ submitted \in Nat
          /\ DOMAIN orders' = DOMAIN orders \cup {n} /\ n \notin DOMAIN orders
          /\ orders'[n].kind = kind /\ orders'[n].task = t
    <2>1. /\ OrdersKeep /\ UNCHANGED <<taken, active, owed, called>> /\ submitted \in Nat
          /\ DOMAIN orders' = DOMAIN orders \cup {submitted + 1}
          /\ submitted + 1 \notin DOMAIN orders
          /\ orders'[submitted + 1].kind = kind /\ orders'[submitted + 1].task = t
        BY SubmittingKeep
    <2>2. submitted + 1 \in Nat
        BY <2>1
    <2>3. QED
        BY <2>1, <2>2
  <1>2. \A o \in DOMAIN orders : ~(Live(o) /\ OrderOf(o, t))
      BY DEF OrdersInv
  <1>3. ASSUME NEW o \in DOMAIN orders', NEW u \in DOMAIN task', Live(o)', OrderOf(o, u)'
        PROVE  \/ o = n /\ u = t
               \/ o \in DOMAIN orders /\ Live(o) /\ OrderOf(o, u) /\ u # t
      BY <1>1, <1>2, <1>3 DEF OrdersKeep, OrderOf
  <1>4. \A o \in DOMAIN orders' : \A u \in DOMAIN task' :
          (Live(o)' /\ OrderOf(o, u)') => task'[u].pc = "wait"
      BY <1>3 DEF OrdersInv
  <1>5. \A o, p \in DOMAIN orders' : \A u \in DOMAIN task' :
          (Live(o)' /\ Live(p)' /\ OrderOf(o, u)' /\ OrderOf(p, u)') => o = p
      BY <1>3 DEF OrdersInv
  <1>6. ASSUME NEW u \in DOMAIN task', task'[u].pc = "wait"
        PROVE  \E o \in DOMAIN orders' : OrderOf(o, u)' /\ o \notin called'
    <2>1. CASE u = t
      <3>1. n \in DOMAIN orders' /\ OrderOf(n, u)'
          BY <1>1, <2>1 DEF OrderOf
      <3>2. n \notin called'
          BY <1>1, OrderFacts DEF TypeOK, OrdersType
      <3>3. QED
          BY <3>1, <3>2
    <2>2. CASE u # t
      <3>1. PICK o \in DOMAIN orders : OrderOf(o, u) /\ o \notin called
          BY <1>6, <2>2 DEF OrdersInv
      <3>2. o \in DOMAIN orders' /\ OrderOf(o, u)' /\ o \notin called'
          BY <1>1, <3>1 DEF OrdersKeep, OrderOf
      <3>3. QED
          BY <3>2
    <2>3. QED
        BY <2>1, <2>2
  <1>7. QED
      BY <1>4, <1>5, <1>6 DEF OrdersInv, Disjoint

(* The callback of an order ends the wait of its task.                     *)
LEMMA WaitEnds ==
    ASSUME TypeOK, OrdersInv, OrdersKeep, Disjoint',
           NEW o \in DOMAIN orders, Call(o), orders' = orders,
           orders[o].kind # "getpubkey", DOMAIN task' = DOMAIN task,
           task'[orders[o].task].pc # "wait",
           \A u \in DOMAIN task : u # orders[o].task => task'[u] = task[u]
    PROVE  OrdersInv'
  <1> DEFINE t == orders[o].task
  <1>1. t \in DOMAIN task /\ Live(o) /\ OrderOf(o, t)
      BY OrderFacts DEF Call, Live, OrderOf
  <1>2. ASSUME NEW p \in DOMAIN orders', NEW u \in DOMAIN task', Live(p)', OrderOf(p, u)'
        PROVE  p \in DOMAIN orders /\ Live(p) /\ OrderOf(p, u) /\ u # t
    <2>1. p \in DOMAIN orders /\ Live(p) /\ OrderOf(p, u)
        BY <1>2 DEF OrdersKeep, OrderOf
    <2>2. ~Live(o)'
        BY OrderFacts DEF Call, Live, Disjoint, TypeOK, OrdersType
    <2>3. QED
        BY <1>1, <1>2, <2>1, <2>2 DEF OrdersInv
  <1>3. \A p \in DOMAIN orders' : \A u \in DOMAIN task' :
          (Live(p)' /\ OrderOf(p, u)') => task'[u].pc = "wait"
      BY <1>2 DEF OrdersInv
  <1>4. \A p, q \in DOMAIN orders' : \A u \in DOMAIN task' :
          (Live(p)' /\ Live(q)' /\ OrderOf(p, u)' /\ OrderOf(q, u)') => p = q
      BY <1>2 DEF OrdersInv
  <1>5. ASSUME NEW u \in DOMAIN task', task'[u].pc = "wait"
        PROVE  \E p \in DOMAIN orders' : OrderOf(p, u)' /\ p \notin called'
    <2>1. u # t /\ u \in DOMAIN task /\ task[u].pc = "wait"
        BY <1>5
    <2>2. PICK p \in DOMAIN orders : OrderOf(p, u) /\ p \notin called
        BY <2>1 DEF OrdersInv
    <2>3. p # o
        BY <2>1, <2>2, <1>1 DEF OrderOf
    <2>4. p \in DOMAIN orders' /\ OrderOf(p, u)' /\ p \notin called'
        BY <2>2, <2>3 DEF OrderOf, Call
    <2>5. QED
        BY <2>4
  <1>6. QED
      BY <1>3, <1>4, <1>5 DEF OrdersInv, Disjoint

(* A new task does not wait.                                               *)
LEMMA GrowsWaits ==
    ASSUME NEW uid, NEW mail, NEW pkOut, NEW ackExp, NEW ack, Grows(uid, mail, pkOut, ackExp, ack)
    PROVE  SameWaits
  BY DEF Grows, SameWaits

LEMMA StepOrders ==
    ASSUME TypeOK, OrdersInv, [Next]_vars
    PROVE  OrdersInv'
  <1>1. OrdersKeep /\ Disjoint'
      BY StepOrdersKeep, StepDisjoint DEF OrdersInv, Disjoint
  <1>2. ASSUME OrdersQuiet, SameWaits PROVE OrdersInv'
      BY <1>1, <1>2, WaitsFrame DEF OrdersQuiet
  <1>3. ASSUME UNCHANGED <<task, orders>>,
               \A o \in DOMAIN orders :
                 o \in called' => o \in called \/ orders[o].kind = "getpubkey"
        PROVE  OrdersInv'
      BY <1>1, <1>3, WaitsFrame DEF SameWaits
  <1>4. ASSUME NEW m \in Mails, DeliverFromSMTP(m) PROVE OrdersInv'
      BY <1>2, <1>4, StepQuiet, DeliverFromSMTPEffect, GrowsWaits
  <1>5. ASSUME NEW t \in DOMAIN task, requestKey(t) PROVE OrdersInv'
    <2>1. SameWaits
        BY <1>5, RequestKeyEffect, BecomesWaits DEF requestKey
    <2>2. Submitting(t, "getpubkey")
        BY <1>5 DEF Submitting
    <2>3. /\ UNCHANGED called
          /\ \A o \in DOMAIN orders' : o \notin DOMAIN orders => orders'[o].kind = "getpubkey"
        BY <2>2, SubmittingKeep
    <2>4. QED
        BY <1>1, <2>1, <2>3, WaitsFrame
  <1>6. ASSUME NEW t \in DOMAIN task, generateAck(t) PROVE OrdersInv'
    <2>1. task[t].pc # "wait" /\ Submitting(t, "ack")
        BY <1>6 DEF generateAck, KeyFound, Submitting
    <2>2. QED
        BY <1>1, <1>6, <2>1, GenerateAckEffect, WaitBegins DEF Becomes
  <1>7. ASSUME NEW t \in DOMAIN task, runMsg(t) PROVE OrdersInv'
    <2>1. task[t].pc # "wait" /\ Submitting(t, "msg")
        BY <1>7 DEF runMsg, Submitting
    <2>2. QED
        BY <1>1, <1>7, <2>1, GotoEffects, WaitBegins DEF Becomes
  <1>8. ASSUME NEW t \in DOMAIN task, generateObject(t) PROVE OrdersInv'
    <2>1. task[t].pc # "wait"
        BY <1>8 DEF generateObject, KeyFound
    <2>2. QED
        BY <1>2, <1>8, <2>1, GenerateObjectEffect, BecomesWaits, StepQuiet
  <1>9. ASSUME NEW t \in DOMAIN task, saveNew(t) PROVE OrdersInv'
      BY <1>2, <1>9, SaveNewEffect, BecomesWaits, StepQuiet
  <1>10. ASSUME NEW t \in DOMAIN task, saveDelete(t) PROVE OrdersInv'
      BY <1>2, <1>10, SaveDeleteEffect, BecomesWaits, StepQuiet
  <1>11. ASSUME NEW t \in DOMAIN task, saveInsert(t) PROVE OrdersInv'
      BY <1>2, <1>11, SaveInsertEffect, BecomesWaits, StepQuiet
  <1>12. ASSUME NEW t \in DOMAIN task,
                \/ generateFails(t) \/ send(t) \/ moveRead(t) \/ moveDelete(t) \/ moveAdd(t)
         PROVE  OrdersInv'
    <2>1. task[t].pc # "wait"
        BY <1>12 DEF generateFails, send, moveRead, moveDelete, moveAdd
    <2>2. SameWaits
        BY <1>12, <2>1, GotoEffects, BecomesWaits
    <2>3. QED
        BY <1>2, <1>12, <2>2, StepQuiet
  <1>13. ASSUME NEW o \in DOMAIN orders, powDone(o) PROVE OrdersInv'
    <2>1. Call(o) /\ orders' = orders /\ orders[o].kind # "getpubkey"
        BY <1>13 DEF powDone
    <2>2. /\ DOMAIN task' = DOMAIN task /\ task'[orders[o].task].pc # "wait"
          /\ \A u \in DOMAIN task : u # orders[o].task => task'[u] = task[u]
        BY <1>13, PowDoneEffect DEF Becomes
    <2>3. QED
        BY <1>1, <2>1, <2>2, WaitEnds
  <1>14. ASSUME processNext PROVE OrdersInv'
    <2>1. PICK r \in queue : task' = Append(task, decodeBitmessage(r))
        BY <1>14 DEF processNext
    <2>2. SameWaits
        BY <2>1, ProcessNextEffect, GrowsWaits
    <2>3. QED
        BY <1>2, <1>14, <2>2, StepQuiet
  <1>15. ASSUME powBegin \/ \E o \in DOMAIN orders : powComplete(o) PROVE OrdersInv'
      BY <1>3, <1>15 DEF powBegin, powComplete, Begin, Complete
  <1>16. ASSUME NEW o \in DOMAIN orders, keyRequested(o) PROVE OrdersInv'
      BY <1>3, <1>16 DEF keyRequested, Call
  <1>17. ASSUME restart PROVE OrdersInv'
    <2>1. \A o \in DOMAIN orders' : ~Live(o)'
        BY <1>17, OrderFacts DEF restart, Live
    <2>2. \A t \in DOMAIN task' : task'[t].pc # "wait"
        BY <1>17, RestartEffect
    <2>3. QED
        BY <1>1, <2>1, <2>2 DEF OrdersInv, Disjoint
  <1>18. ASSUME QuietStep, OrdersQuiet PROVE OrdersInv'
      BY <1>3, <1>18, QuietEffect DEF OrdersQuiet
  <1>19. ASSUME UNCHANGED vars PROVE OrdersInv'
      BY <1>3, <1>19 DEF vars, ordersVars
  <1>20. ASSUME NEW t \in DOMAIN task, Failing(t) PROVE OrdersInv'
      BY <1>2, <1>20, FailingEffect, BecomesWaits, StepQuiet
  <1>21. ASSUME NEW m \in Mails, addNewFails(m) PROVE OrdersInv'
      BY <1>2, <1>21, StepQuiet, AddNewFailsEffect, GrowsWaits
  <1>22. QED
      BY <1>20, <1>21, <1>4, <1>5, <1>6, <1>7, <1>8, <1>9, <1>10, <1>11, <1>12, <1>13, <1>14, <1>15, <1>16,
         <1>17, <1>18, <1>19, StepQuiet DEF Next, TaskStep, HandlerStep, QuietStep, Failing
-----------------------------------------------------------------------------
(* Acks, and what is sent.                                                 *)

LEMMA AckBecomes ==
    ASSUME TypeOK, AckInv, OrdersKeep, NEW t \in DOMAIN task,
           NEW uid, NEW pkOut, NEW ackExp, NEW ack, NEW pc,
           Becomes(t, uid, pkOut, ackExp, ack, pc),
           pc \in Generated => (ackExp => ack),
           \A o \in DOMAIN orders' :
             (Live(o)' /\ OrderOf(o, t)' /\ orders'[o].kind = "msg") => (ackExp => ack),
           \A o \in DOMAIN orders' : o \notin DOMAIN orders => orders'[o].task = t
    PROVE  AckInv'
  <1>1. \A u \in DOMAIN task' :
          task'[u].pc \in Generated => (task'[u].ackExp => task'[u].ack)
      BY DEF AckInv, Becomes
  <1>2. ASSUME NEW o \in DOMAIN orders', NEW u \in DOMAIN task', Live(o)', OrderOf(o, u)',
               orders'[o].kind = "msg"
        PROVE  task'[u].ackExp => task'[u].ack
    <2>1. CASE u = t
        BY <1>2, <2>1 DEF Becomes
    <2>2. CASE u # t
      <3>1. u \in DOMAIN task /\ task'[u] = task[u]
          BY <2>2 DEF Becomes
      <3>2. o \in DOMAIN orders
          BY <1>2, <2>2 DEF OrderOf
      <3>3. Live(o) /\ OrderOf(o, u) /\ orders[o].kind = "msg"
          BY <1>2, <3>2 DEF OrdersKeep, OrderOf
      <3>4. QED
          BY <3>1, <3>2, <3>3 DEF AckInv
    <2>3. QED
        BY <2>1, <2>2
  <1>3. QED
      BY <1>1, <1>2 DEF AckInv

(* A task that does not wait has no live order, and keeps what it has.     *)
LEMMA AckGoes ==
    ASSUME TypeOK, OrdersInv, AckInv, OrdersQuiet, NEW t \in DOMAIN task,
           NEW uid, NEW pkOut, NEW ackExp, NEW ack, NEW pc,
           Becomes(t, uid, pkOut, ackExp, ack, pc), task[t].pc # "wait",
           pc \in Generated => (ackExp => ack)
    PROVE  AckInv'
  <1>1. OrdersKeep
      BY DEF OrdersQuiet, OrdersKeep, Live
  <1>2. \A o \in DOMAIN orders' : ~(Live(o)' /\ OrderOf(o, t)')
      BY DEF OrdersInv, OrdersQuiet, OrderOf, Live
  <1>3. \A o \in DOMAIN orders' : o \notin DOMAIN orders => orders'[o].task = t
      BY DEF OrdersQuiet
  <1>4. QED
      BY <1>1, <1>2, <1>3, AckBecomes

LEMMA AckGrows ==
    ASSUME TypeOK, AckInv, OrdersQuiet,
           NEW uid, NEW mail, NEW pkOut, NEW ackExp, NEW ack, Grows(uid, mail, pkOut, ackExp, ack)
    PROVE  AckInv'
  <1>1. \A o \in DOMAIN orders : orders[o].task \in DOMAIN task
      BY OrderFacts
  <1>2. QED
      BY <1>1 DEF AckInv, OrdersQuiet, Grows, Live, OrderOf, Generated

LEMMA StepAck ==
    ASSUME TypeOK, OrdersInv, AckInv, [Next]_vars
    PROVE  AckInv'
  <1>1. OrdersKeep
      BY StepOrdersKeep
  <1>2. ASSUME UNCHANGED <<task, orders>> PROVE AckInv'
      BY <1>1, <1>2 DEF AckInv, OrdersKeep, OrderOf
  <1>3. ASSUME NEW m \in Mails, DeliverFromSMTP(m) PROVE AckInv'
      BY <1>3, StepQuiet, DeliverFromSMTPEffect, AckGrows
  <1>4. ASSUME NEW t \in DOMAIN task, NEW kind \in {"getpubkey", "ack"}, Submitting(t, kind)
        PROVE  AckInv'
    <2>1. /\ DOMAIN orders' = DOMAIN orders \cup {submitted + 1}
          /\ orders'[submitted + 1].kind = kind /\ orders'[submitted + 1].task = t
        BY <1>4, SubmittingKeep
    <2>2. task[t].pc = "generate"
        BY <1>4 DEF Submitting, requestKey, generateAck, KeyFound
    <2>3. \A o \in DOMAIN orders' : ~(Live(o)' /\ OrderOf(o, t)' /\ orders'[o].kind = "msg")
        BY <1>1, <2>1, <2>2 DEF OrdersInv, OrdersKeep, OrderOf
    <2>4. \A o \in DOMAIN orders' : o \notin DOMAIN orders => orders'[o].task = t
        BY <2>1
    <2>5. CASE requestKey(t)
        BY <1>1, <2>3, <2>4, <2>5, RequestKeyEffect, AckBecomes DEF Generated
    <2>6. CASE generateAck(t)
        BY <1>1, <2>3, <2>4, <2>6, GenerateAckEffect, AckBecomes DEF Generated
    <2>7. QED
        BY <1>4, <2>5, <2>6 DEF Submitting
  <1>5. ASSUME NEW t \in DOMAIN task, runMsg(t) PROVE AckInv'
    <2>1. /\ DOMAIN orders' = DOMAIN orders \cup {submitted + 1}
          /\ orders'[submitted + 1].task = t
        BY <1>5, SubmittingKeep DEF Submitting
    <2>2. task[t].ackExp => task[t].ack
        BY <1>5 DEF runMsg, AckInv, Generated
    <2>3. \A o \in DOMAIN orders' : o \notin DOMAIN orders => orders'[o].task = t
        BY <2>1
    <2>4. QED
        BY <1>1, <1>5, <2>2, <2>3, GotoEffects, AckBecomes DEF Generated
  <1>6. ASSUME NEW t \in DOMAIN task, generateObject(t) PROVE AckInv'
    <2>1. task[t].pc # "wait" /\ (AckExpected(t) => task[t].ack)
        BY <1>6 DEF generateObject, KeyFound
    <2>2. QED
        BY <1>6, <2>1, StepQuiet, GenerateObjectEffect, AckGoes
  <1>7. ASSUME NEW t \in DOMAIN task, saveNew(t) PROVE AckInv'
    <2>1. /\ task[t].pc \in {"saveReq", "saveMsg", "saveDone"}
          /\ AfterSave[task[t].pc] \in Generated => (task[t].ackExp => task[t].ack)
        BY <1>7, SaveNewEffect DEF AfterSave, AckInv, Generated
    <2>2. QED
        BY <1>7, <2>1, StepQuiet, SaveNewEffect, AckGoes
  <1>8. ASSUME NEW t \in DOMAIN task, saveDelete(t) PROVE AckInv'
    <2> DEFINE pc == IF Stored(task[t].uid) = {} THEN "failed" ELSE Inserting[task[t].pc]
    <2>1. /\ task[t].pc \in {"saveReq", "saveMsg", "saveDone"}
          /\ pc \in Generated => (task[t].ackExp => task[t].ack)
        BY <1>8, SaveDeleteEffect DEF Inserting, AckInv, Generated
    <2>2. QED
        BY <1>8, <2>1, StepQuiet, SaveDeleteEffect, AckGoes
  <1>9. ASSUME NEW t \in DOMAIN task, saveInsert(t) PROVE AckInv'
    <2>1. /\ task[t].pc \in {"insReq", "insMsg", "insDone"}
          /\ AfterSave[task[t].pc] \in Generated => (task[t].ackExp => task[t].ack)
        BY <1>9, SaveInsertEffect DEF AfterSave, AckInv, Generated
    <2>2. QED
        BY <1>9, <2>1, StepQuiet, SaveInsertEffect, AckGoes
  <1>10. ASSUME NEW t \in DOMAIN task,
                \/ generateFails(t) \/ send(t) \/ moveRead(t) \/ moveDelete(t) \/ moveAdd(t)
         PROVE  AckInv'
    <2>1. OrdersQuiet
        BY <1>10, StepQuiet
    <2>2. CASE generateFails(t)
        BY <2>1, <2>2, GotoEffects, AckGoes DEF generateFails, Generated
    <2>3. CASE send(t) \/ moveRead(t) \/ moveDelete(t) \/ moveAdd(t)
      <3>1. task[t].pc # "wait" /\ (task[t].ackExp => task[t].ack)
          BY <2>3 DEF send, moveRead, moveDelete, moveAdd, AckInv, Generated
      <3>2. QED
          BY <2>1, <2>3, <3>1, GotoEffects, AckGoes
    <2>4. QED
        BY <1>10, <2>2, <2>3
  <1>11. ASSUME NEW o \in DOMAIN orders, powDone(o) PROVE AckInv'
    <2> DEFINE t == orders[o].task
    <2>1. t \in DOMAIN task /\ orders' = orders /\ Live(o) /\ OrderOf(o, t)
          /\ orders[o].kind \in {"ack", "msg"}
        BY <1>11, PowDoneEffect DEF powDone, Call, Live, OrderOf
    <2>2. \A p \in DOMAIN orders' : (Live(p)' /\ OrderOf(p, t)) => p = o
        BY <1>1, <2>1 DEF OrdersInv, OrdersKeep
    <2>3. CASE orders[o].kind = "ack"
      <3>1. Becomes(t, task[t].uid, task[t].pkOut, task[t].ackExp, TRUE, "generate")
          BY <1>11, <2>3, PowDoneEffect
      <3> HIDE DEF t
      <3>2. QED
          BY <1>1, <2>1, <3>1, AckBecomes
    <2>4. CASE orders[o].kind = "msg"
      <3>1. Becomes(t, task[t].uid, task[t].pkOut, task[t].ackExp, task[t].ack, "saveDone")
          BY <1>11, <2>4, PowDoneEffect
      <3>2. task[t].ackExp => task[t].ack
          BY <2>1, <2>4 DEF AckInv
      <3> HIDE DEF t
      <3>3. QED
          BY <1>1, <2>1, <3>1, <3>2, AckBecomes
    <2>5. QED
        BY <2>1, <2>3, <2>4
  <1>12. ASSUME processNext PROVE AckInv'
    <2>1. PICK r \in queue : task' = Append(task, decodeBitmessage(r))
        BY <1>12 DEF processNext
    <2>2. QED
        BY <1>12, <2>1, StepQuiet, ProcessNextEffect, AckGrows
  <1>13. ASSUME restart PROVE AckInv'
    <2>1. \A o \in DOMAIN orders' : ~Live(o)'
        BY <1>13, OrderFacts DEF restart, Live
    <2>2. \A t \in DOMAIN task' : task'[t].pc \notin Generated
        BY <1>13, RestartEffect DEF Generated
    <2>3. QED
        BY <2>1, <2>2 DEF AckInv
  <1>14. ASSUME QuietStep \/ UNCHANGED vars PROVE AckInv'
      BY <1>2, <1>14, QuietEffect DEF vars
  <1>15. ASSUME NEW t \in DOMAIN task, Failing(t) PROVE AckInv'
    <2>1. PICK pc :
            /\ Becomes(t, task[t].uid, task[t].pkOut, task[t].ackExp, task[t].ack, pc)
            /\ task[t].pc # "wait" /\ (pc \in Generated => task[t].pc \in Generated)
        BY <1>15, FailingEffect DEF Generated
    <2>2. pc \in Generated => (task[t].ackExp => task[t].ack)
        BY <2>1 DEF AckInv
    <2>3. QED
        BY <1>15, <2>1, <2>2, StepQuiet, AckGoes
  <1>16. ASSUME NEW m \in Mails, addNewFails(m) PROVE AckInv'
      BY <1>16, StepQuiet, AddNewFailsEffect, AckGrows
  <1>17. QED
      BY <1>3, <1>4, <1>5, <1>6, <1>7, <1>8, <1>9, <1>10, <1>11, <1>12, <1>13, <1>14, <1>15,
         <1>16 DEF Next, TaskStep, HandlerStep, QuietStep, Submitting, Failing

(* The steps other than send neither bring a task behind Send nor back.    *)
Settles ==
    /\ DOMAIN task \subseteq DOMAIN task'
    /\ \A t \in DOMAIN task :
         /\ task[t].pc \in Moving \cup {"done"} => task'[t].pc \in Moving \cup {"done"}
         /\ task'[t].pc \in Moving => task[t].pc \in Moving
    /\ \A t \in DOMAIN task' : t \notin DOMAIN task => task'[t].pc = "generate"

LEMMA BecomesSettles ==
    ASSUME NEW t \in DOMAIN task, NEW uid, NEW pkOut, NEW ackExp, NEW ack, NEW pc,
           Becomes(t, uid, pkOut, ackExp, ack, pc),
           task[t].pc \in Moving \cup {"done"} => pc \in Moving \cup {"done"},
           pc \in Moving => task[t].pc \in Moving
    PROVE  Settles
  BY DEF Becomes, Settles

LEMMA GrowsSettles ==
    ASSUME NEW uid, NEW mail, NEW pkOut, NEW ackExp, NEW ack, Grows(uid, mail, pkOut, ackExp, ack)
    PROVE  Settles
  BY DEF Grows, Settles

LEMMA StepSettles ==
    ASSUME TypeOK, OrdersInv, [Next]_vars
    PROVE  \/ Settles /\ UNCHANGED <<net, sends>>
           \/ \E t \in DOMAIN task : send(t)
  <1>1. ASSUME NEW m \in Mails, DeliverFromSMTP(m) PROVE Settles /\ UNCHANGED <<net, sends>>
      BY <1>1, DeliverFromSMTPEffect, GrowsSettles DEF DeliverFromSMTP, history, record
  <1>2. ASSUME NEW t \in DOMAIN task, requestKey(t) PROVE Settles /\ UNCHANGED <<net, sends>>
      BY <1>2, RequestKeyEffect, BecomesSettles DEF requestKey, history, record, Moving
  <1>3. ASSUME NEW t \in DOMAIN task, generateAck(t) PROVE Settles /\ UNCHANGED <<net, sends>>
      BY <1>3, GenerateAckEffect, BecomesSettles DEF generateAck, KeyFound, history, record, Moving
  <1>4. ASSUME NEW t \in DOMAIN task, generateObject(t) PROVE Settles /\ UNCHANGED <<net, sends>>
      BY <1>4, GenerateObjectEffect, BecomesSettles DEF generateObject, KeyFound, history, record, Moving
  <1>5. ASSUME NEW t \in DOMAIN task, saveNew(t) PROVE Settles /\ UNCHANGED <<net, sends>>
    <2>1. UNCHANGED <<net, sends>>
        BY <1>5 DEF saveNew, history, record
    <2>2. Settles
        BY <1>5, SaveNewEffect, BecomesSettles DEF Moving
    <2>3. QED
        BY <2>1, <2>2
  <1>6. ASSUME NEW t \in DOMAIN task, saveDelete(t) PROVE Settles /\ UNCHANGED <<net, sends>>
    <2>1. UNCHANGED <<net, sends>>
        BY <1>6 DEF saveDelete, history, record
    <2>2. Settles
        BY <1>6, SaveDeleteEffect, BecomesSettles DEF Moving
    <2>3. QED
        BY <2>1, <2>2
  <1>7. ASSUME NEW t \in DOMAIN task, saveInsert(t) PROVE Settles /\ UNCHANGED <<net, sends>>
    <2>1. UNCHANGED <<net, sends>>
        BY <1>7 DEF saveInsert, history, record
    <2>2. Settles
        BY <1>7, SaveInsertEffect, BecomesSettles DEF Moving
    <2>3. QED
        BY <2>1, <2>2
  <1>8. ASSUME NEW t \in DOMAIN task,
               generateFails(t) \/ runMsg(t) \/ moveRead(t) \/ moveDelete(t) \/ moveAdd(t)
        PROVE  Settles /\ UNCHANGED <<net, sends>>
    <2>1. UNCHANGED <<net, sends>>
        BY <1>8 DEF generateFails, runMsg, moveRead, moveDelete, moveAdd, history, record
    <2>2. CASE generateFails(t) \/ runMsg(t)
      <3>1. task[t].pc \in {"generate", "runMsg"}
          BY <2>2 DEF generateFails, runMsg
      <3>2. QED
          BY <2>1, <2>2, <3>1, GotoEffects, BecomesSettles DEF Moving
    <2>3. CASE moveRead(t) \/ moveDelete(t) \/ moveAdd(t)
      <3>1. task[t].pc \in Moving
          BY <2>3 DEF moveRead, moveDelete, moveAdd, Moving
      <3>2. QED
          BY <2>1, <2>3, <3>1, GotoEffects, BecomesSettles DEF Moving
    <2>4. QED
        BY <1>8, <2>1, <2>2, <2>3
  <1>9. ASSUME NEW o \in DOMAIN orders, powDone(o) PROVE Settles /\ UNCHANGED <<net, sends>>
    <2>1. UNCHANGED <<net, sends>>
        BY <1>9 DEF powDone, history, record
    <2>2. orders[o].task \in DOMAIN task /\ task[orders[o].task].pc = "wait"
        BY <1>9, OrderFacts DEF powDone, Call, OrdersInv, Live, OrderOf
    <2>3. Settles
      <3> DEFINE t == orders[o].task
      <3>1. \/ Becomes(t, task[t].uid, task[t].pkOut, task[t].ackExp, TRUE, "generate")
            \/ Becomes(t, task[t].uid, task[t].pkOut, task[t].ackExp, task[t].ack, "saveDone")
          BY <1>9, PowDoneEffect
      <3> HIDE DEF t
      <3>2. t \in DOMAIN task /\ task[t].pc \notin Moving \cup {"done"}
          BY <2>2 DEF t, Moving
      <3>3. "generate" \notin Moving /\ "saveDone" \notin Moving
          BY DEF Moving
      <3>4. CASE Becomes(t, task[t].uid, task[t].pkOut, task[t].ackExp, TRUE, "generate")
          BY <3>2, <3>3, <3>4, BecomesSettles
      <3>5. CASE Becomes(t, task[t].uid, task[t].pkOut, task[t].ackExp, task[t].ack, "saveDone")
          BY <3>2, <3>3, <3>5, BecomesSettles
      <3>6. QED
          BY <3>1, <3>4, <3>5
    <2>4. QED
        BY <2>1, <2>3
  <1>10. ASSUME processNext PROVE Settles /\ UNCHANGED <<net, sends>>
      BY <1>10, ProcessNextEffect, GrowsSettles DEF processNext, history, record
  <1>11. ASSUME restart PROVE Settles /\ UNCHANGED <<net, sends>>
      BY <1>11, RestartEffect DEF restart, Settles, Moving
  <1>12. ASSUME QuietStep \/ UNCHANGED vars PROVE Settles /\ UNCHANGED <<net, sends>>
    <2>1. UNCHANGED <<net, sends>>
        BY <1>12 DEF QuietStep, panic, DeliverAckReply, powBegin, powComplete, keyRequested, pkTick,
             pkRemove, DeliverPublic, keyArrives, expunge, storeRead, storeDelete, storeInsert,
             storeFails, vars, history, record
    <2>2. task' = task
        BY <1>12, QuietEffect DEF vars
    <2>3. QED
        BY <2>1, <2>2 DEF Settles
  <1>13. ASSUME NEW t \in DOMAIN task, Failing(t) PROVE Settles /\ UNCHANGED <<net, sends>>
      BY <1>13, FailingEffect, FailingWrites, BecomesSettles DEF Moving
  <1>14. ASSUME NEW m \in Mails, addNewFails(m) PROVE Settles /\ UNCHANGED <<net, sends>>
      BY <1>14, AddNewFailsEffect, GrowsSettles DEF addNewFails, record
  <1>15. QED
      BY <1>1, <1>2, <1>3, <1>4, <1>5, <1>6, <1>7, <1>8, <1>9, <1>10, <1>11, <1>12, <1>13, <1>14
         DEF Next, TaskStep, HandlerStep, QuietStep, Failing

(* A step of send is the first of its task.                                *)
LEMMA StepSends ==
    ASSUME TypeOK, OrdersInv, SendsInv, [Next]_vars
    PROVE  SendsInv'
  <1>1. sends \in [Task -> Nat] /\ DOMAIN task \subseteq Task
      BY TaskFacts DEF TypeOK, StoresType
  <1>2. ASSUME Settles, UNCHANGED sends PROVE SendsInv'
      BY <1>2 DEF SendsInv, Settles
  <1>3. ASSUME NEW t \in DOMAIN task, send(t) PROVE SendsInv'
    <2>1. t \in Task /\ task[t].pc = "send" /\ sends' = [sends EXCEPT ![t] = @ + 1]
        BY <1>1, <1>3 DEF send
    <2>2. sends[t] = 0
        BY <2>1 DEF SendsInv, Moving
    <2>3. /\ DOMAIN task' = DOMAIN task /\ task'[t].pc = "move"
          /\ \A u \in DOMAIN task : u # t => task'[u] = task[u]
        BY <1>3, GotoEffects DEF Becomes
    <2>4. QED
        BY <1>1, <2>1, <2>2, <2>3 DEF SendsInv, Moving
  <1>4. QED
      BY <1>2, <1>3, StepSettles

(* The steps that file a message.                                          *)
LEMMA StepFiles ==
    ASSUME [Next]_vars
    PROVE  \/ UNCHANGED <<limbo, sent>>
           \/ \E t \in DOMAIN task : moveAdd(t) \/ DeliverAckReply(t)
  <1>1. ASSUME NEW t \in DOMAIN task,
               \/ requestKey(t) \/ generateAck(t) \/ generateObject(t) \/ generateFails(t)
               \/ panic(t) \/ saveNew(t) \/ saveDelete(t) \/ saveInsert(t) \/ runMsg(t)
               \/ send(t) \/ moveRead(t) \/ moveDelete(t)
        PROVE  UNCHANGED <<limbo, sent>>
      BY <1>1 DEF requestKey, generateAck, generateObject, generateFails, panic, saveNew,
                  saveDelete, saveInsert, runMsg, send, moveRead, moveDelete, boxes
  <1>2. ASSUME \/ \E m \in Mails : DeliverFromSMTP(m) \/ addNewFails(m)
               \/ powBegin
               \/ \E o \in DOMAIN orders : powComplete(o) \/ keyRequested(o) \/ powDone(o)
               \/ HandlerStep \/ \E a \in Addresses : keyArrives(a)
               \/ \E r \in outbox : expunge(r) \/ storeRead(r)
               \/ \E s \in saving : storeDelete(s) \/ storeInsert(s) \/ storeFails(s)
               \/ restart \/ UNCHANGED vars
        PROVE  UNCHANGED <<limbo, sent>>
      BY <1>2 DEF DeliverFromSMTP, addNewFails, storeFails, powBegin, powComplete, keyRequested, powDone, HandlerStep, pkTick,
                  processNext, pkRemove, DeliverPublic, keyArrives, expunge, storeRead, storeDelete,
                  storeInsert, restart, vars, boxes
  <1>3. ASSUME NEW t \in DOMAIN task, Failing(t) PROVE UNCHANGED <<limbo, sent>>
      BY <1>3, FailingWrites
  <1>4. QED
      BY <1>1, <1>2, <1>3 DEF Next, TaskStep, Failing

(* What moveAdd and DeliverAckReply file.                                  *)
LEMMA FiledBy ==
    ASSUME [Next]_vars
    PROVE  /\ \A r \in limbo' : r \in limbo \/
                \E t \in DOMAIN task : r.task = t /\ r.mail = task[t].mail /\ moveAdd(t) /\ task[t].ackExp
           /\ \A r \in sent' : r \in sent \/ (\E q \in limbo : r.task = q.task /\ r.mail = q.mail) \/
                \E t \in DOMAIN task : r.task = t /\ r.mail = task[t].mail /\ moveAdd(t)
  <1>1. ASSUME NEW t \in DOMAIN task, moveAdd(t)
        PROVE  /\ \A r \in limbo' : r \in limbo \/
                     (r.task = t /\ r.mail = task[t].mail /\ task[t].ackExp)
               /\ \A r \in sent' : r \in sent \/ (r.task = t /\ r.mail = task[t].mail)
      BY <1>1 DEF moveAdd
  <1>2. ASSUME NEW t \in DOMAIN task, DeliverAckReply(t)
        PROVE  /\ \A r \in limbo' : r \in limbo
               /\ \A r \in sent' : r \in sent \/ \E q \in limbo : r.task = q.task /\ r.mail = q.mail
      BY <1>2 DEF DeliverAckReply
  <1>3. QED
      BY <1>1, <1>2, StepFiles

(* A message is put into Limbo with its ack, which it keeps.               *)
LEMMA StepLimboAck ==
    ASSUME TypeOK, AckInv, LimboHasAck, [Next]_vars
    PROVE  LimboHasAck'
  <1>1. Keeps
      BY StepKeeps
  <1>2. ASSUME NEW r \in limbo' PROVE task'[r.task].ack
    <2>1. CASE r \in limbo
      <3>1. r.task \in DOMAIN task
          BY <2>1 DEF TypeOK, FoldersType
      <3>2. QED
          BY <1>1, <2>1, <3>1 DEF LimboHasAck, Keeps
    <2>2. CASE r \notin limbo
      <3>1. PICK t \in DOMAIN task : r.task = t /\ moveAdd(t) /\ task[t].ackExp
          BY <1>2, <2>2, FiledBy
      <3>2. task[t].ack
          BY <3>1 DEF AckInv, moveAdd, Generated
      <3>3. QED
          BY <1>1, <3>1, <3>2 DEF Keeps
    <2>3. QED
        BY <2>1, <2>2
  <1>3. QED
      BY <1>2 DEF LimboHasAck

(* What is filed has been handed to Send.                                  *)
LEMMA StepFiled ==
    ASSUME TypeOK, OrdersInv, SendsInv, FiledInv, [Next]_vars
    PROVE  FiledInv'
  <1>1. sends \in [Task -> Nat] /\ DOMAIN task \subseteq Task
      BY TaskFacts DEF TypeOK, StoresType
  <1>2. ASSUME NEW t \in DOMAIN task, send(t)
        PROVE  /\ sends'[t] = 1 /\ \A u \in Task : u # t => sends'[u] = sends[u]
               /\ sends[t] = 0 /\ DOMAIN task' = DOMAIN task
               /\ \A u \in DOMAIN task : u # t => task'[u] = task[u]
    <2>1. t \in Task /\ task[t].pc = "send" /\ sends' = [sends EXCEPT ![t] = @ + 1]
        BY <1>1, <1>2 DEF send
    <2>2. sends[t] = 0
        BY <2>1 DEF SendsInv, Moving
    <2>3. QED
        BY <1>1, <1>2, <2>1, <2>2, GotoEffects DEF Becomes
  <1>3. \A t \in Task : sends[t] = 1 => sends'[t] = 1
      BY <1>1, <1>2, StepSettles
  <1>4. ASSUME NEW t \in DOMAIN task', task'[t].pc \in Moving PROVE sends'[t] = 1
      BY <1>1, <1>2, <1>4, StepSettles DEF FiledInv, Settles, Moving
  <1>5. FiledWasSent'
    <2>1. \A t \in DOMAIN task : moveAdd(t) => sends[t] = 1
        BY DEF moveAdd, FiledInv, Moving
    <2>2. \A r \in limbo \cup sent : r.task \in Task
        BY <1>1 DEF TypeOK, FoldersType
    <2>3. QED
        BY <1>1, <1>3, <2>1, <2>2, FiledBy DEF FiledInv, FiledWasSent
  <1>6. QED
      BY <1>4, <1>5 DEF FiledInv
-----------------------------------------------------------------------------
(* Uids, and the e-mails known by them.                                    *)

(* The step gives no task a uid and brings none between a delete and an    *)
(* insert; a new task has no uid.                                          *)
SameUids ==
    /\ DOMAIN task \subseteq DOMAIN task'
    /\ \A t \in DOMAIN task :
         /\ task'[t].uid = task[t].uid /\ task'[t].mail = task[t].mail
         /\ task'[t].pc \in Between => task[t].pc \in Between
    /\ \A t \in DOMAIN task' : t \notin DOMAIN task => task'[t].uid = 0 /\ task'[t].pc \notin Between

LEMMA BecomesSameUids ==
    ASSUME NEW t \in DOMAIN task, NEW pkOut, NEW ackExp, NEW ack, NEW pc,
           Becomes(t, task[t].uid, pkOut, ackExp, ack, pc),
           pc \in Between => task[t].pc \in Between
    PROVE  SameUids
  BY DEF Becomes, SameUids

(* The bounds and the types of uids.                                       *)
LEMMA UidFacts ==
    ASSUME TypeOK, UidInv
    PROVE  /\ nextUID.outbox \in Nat
           /\ \A t \in DOMAIN task : task[t].uid \in Nat /\ task[t].uid < nextUID.outbox
           /\ \A r \in outbox : r.uid \in Nat /\ 0 < r.uid /\ r.uid < nextUID.outbox
           /\ \A s \in saving : s.rec.uid \in Nat /\ 0 < s.rec.uid /\ s.rec.uid < nextUID.outbox
  BY TaskFacts, StoredFacts DEF UidInv

(* Steps that only take messages away.                                     *)
LEMMA UidFrame ==
    ASSUME TypeOK, UidInv, MailInv, SameUids, outbox' \subseteq outbox, saving' \subseteq saving,
           nextUID'.outbox = nextUID.outbox
    PROVE  UidInv' /\ MailInv'
  <1>1. \A t \in DOMAIN task' :
          task'[t].uid < nextUID'.outbox /\ (task'[t].pc \in Between => task'[t].uid # 0)
    <2>1. ASSUME NEW t \in DOMAIN task'
          PROVE  task'[t].uid < nextUID'.outbox
      <3>1. CASE t \in DOMAIN task
          BY <3>1 DEF UidInv, SameUids
      <3>2. CASE t \notin DOMAIN task
        <4>1. task'[t].uid = 0
            BY <2>1, <3>2 DEF SameUids
        <4>2. 0 < nextUID.outbox
            BY DEF UidInv
        <4>3. QED
            BY <4>1, <4>2
      <3>3. QED
          BY <3>1, <3>2
    <2>2. QED
        BY <2>1 DEF UidInv, SameUids
  <1>2. \A t, u \in DOMAIN task' : task'[t].uid = task'[u].uid => t = u \/ task'[t].uid = 0
      BY DEF UidInv, SameUids
  <1>3. ASSUME NEW u, InHand(u)' PROVE InHand(u)
      BY <1>3 DEF InHand, SameUids
  <1>4. \A r \in outbox' : 0 < r.uid /\ r.uid < nextUID'.outbox /\ ~InHand(r.uid)'
      BY <1>3 DEF UidInv
  <1>5. \A s \in saving' : \A t \in DOMAIN task' :
          (s.held /\ s.rec.uid = task'[t].uid) => task'[t].pc \notin Between
      BY DEF UidInv, SameUids
  <1>6. UidInv'
      BY <1>1, <1>2, <1>4, <1>5 DEF UidInv
  <1>7. ASSUME NEW t \in DOMAIN task', NEW u, 0 < u, u = task'[t].uid
        PROVE  t \in DOMAIN task /\ u = task[t].uid /\ task'[t].mail = task[t].mail
      BY <1>7 DEF SameUids
  <1>8. MailInv'
      BY <1>7, UidFacts DEF MailInv
  <1>9. QED
      BY <1>6, <1>8

(* A new message, and its task.                                            *)
LEMMA UidFresh ==
    ASSUME TypeOK, UidInv, MailInv, NEW n, n = nextUID.outbox, nextUID'.outbox = n + 1,
           saving' = saving, NEW r, outbox' = outbox \cup {r}, r.uid = n,
           NEW k \in DOMAIN task', task'[k].uid = n, task'[k].mail = r.mail,
           task'[k].pc \notin Between,
           \A u \in DOMAIN task' : u # k => u \in DOMAIN task /\ task'[u] = task[u]
    PROVE  UidInv' /\ MailInv'
  <1>1. /\ n \in Nat /\ 0 < n
        /\ \A t \in DOMAIN task : task[t].uid \in Nat /\ task[t].uid < n
        /\ \A q \in outbox : q.uid \in Nat /\ 0 < q.uid /\ q.uid < n
        /\ \A s \in saving : s.rec.uid \in Nat /\ 0 < s.rec.uid /\ s.rec.uid < n
      BY UidFacts DEF UidInv
  <1>2. \A t \in DOMAIN task' :
          task'[t].uid < nextUID'.outbox /\ (task'[t].pc \in Between => task'[t].uid # 0)
      BY <1>1 DEF UidInv
  <1>3. \A t, u \in DOMAIN task' : task'[t].uid = task'[u].uid => t = u \/ task'[t].uid = 0
      BY <1>1 DEF UidInv
  <1>4. ASSUME NEW u, InHand(u)' PROVE InHand(u) /\ u # n
      BY <1>1, <1>4 DEF InHand
  <1>5. \A q \in outbox' : 0 < q.uid /\ q.uid < nextUID'.outbox /\ ~InHand(q.uid)'
      BY <1>1, <1>4 DEF UidInv
  <1>6. \A r1, r2 \in outbox' : r1.uid = r2.uid => r1 = r2
      BY <1>1 DEF UidInv
  <1>7. \A s \in saving' : 0 < s.rec.uid /\ s.rec.uid < nextUID'.outbox
      BY <1>1
  <1>8. \A s \in saving' : \A t \in DOMAIN task' :
          (s.held /\ s.rec.uid = task'[t].uid) => task'[t].pc \notin Between
      BY DEF UidInv
  <1>9. UidInv'
      BY <1>1, <1>2, <1>3, <1>5, <1>6, <1>7, <1>8 DEF UidInv
  <1>10. MailInv'
      BY <1>1 DEF MailInv
  <1>11. QED
      BY <1>9, <1>10

(* The delete of a save: the task has the message in its hands.            *)
LEMMA UidTaken ==
    ASSUME TypeOK, UidInv, MailInv, NEW t \in DOMAIN task, NEW w, w = task[t].uid, w # 0,
           Stored(w) # {}, outbox' = outbox \ Stored(w), saving' = saving,
           nextUID'.outbox = nextUID.outbox, DOMAIN task' = DOMAIN task,
           \A u \in DOMAIN task : task'[u].uid = task[u].uid /\ task'[u].mail = task[u].mail,
           \A u \in DOMAIN task : u # t => task'[u] = task[u]
    PROVE  UidInv' /\ MailInv'
  <1>1. ~InHand(w)
      BY DEF UidInv, Stored
  <1>2. \A r \in outbox' : r \in outbox /\ r.uid # w
      BY DEF Stored
  <1>3. ASSUME NEW u, InHand(u)' PROVE InHand(u) \/ u = w
      BY <1>3 DEF InHand
  <1>4. \A r \in outbox' : 0 < r.uid /\ r.uid < nextUID'.outbox /\ ~InHand(r.uid)'
      BY <1>2, <1>3 DEF UidInv
  <1>5. \A s \in saving' : \A u \in DOMAIN task' :
          (s.held /\ s.rec.uid = task'[u].uid) => task'[u].pc \notin Between
      BY <1>1 DEF UidInv, InHand
  <1>6. \A u \in DOMAIN task' :
          task'[u].uid < nextUID'.outbox /\ (task'[u].pc \in Between => task'[u].uid # 0)
      BY DEF UidInv
  <1>7. \A u, v \in DOMAIN task' : task'[u].uid = task'[v].uid => u = v \/ task'[u].uid = 0
      BY DEF UidInv
  <1>8. UidInv'
      BY <1>2, <1>4, <1>5, <1>6, <1>7 DEF UidInv
  <1>9. MailInv'
      BY <1>2 DEF MailInv
  <1>10. QED
      BY <1>8, <1>9

(* The insert of a save: the message is back in its place.                 *)
LEMMA UidBack ==
    ASSUME TypeOK, UidInv, MailInv, NEW t \in DOMAIN task, task[t].pc \in Between,
           NEW r, outbox' = outbox \cup {r}, r.uid = task[t].uid, r.mail = task[t].mail,
           saving' = saving, nextUID'.outbox = nextUID.outbox,
           DOMAIN task' = DOMAIN task, task'[t].pc \notin Between,
           \A u \in DOMAIN task : task'[u].uid = task[u].uid /\ task'[u].mail = task[u].mail,
           \A u \in DOMAIN task : u # t => task'[u] = task[u]
    PROVE  UidInv' /\ MailInv'
  <1>1. /\ r.uid \in Nat /\ 0 < r.uid /\ r.uid < nextUID.outbox
        /\ \A u \in DOMAIN task : task[u].uid = r.uid => u = t
      BY UidFacts DEF UidInv
  <1>2. InHand(r.uid)
      BY DEF InHand
  <1>3. \A q \in outbox : q.uid # r.uid
      BY <1>2 DEF UidInv
  <1>4. \A s \in saving : s.held => s.rec.uid # r.uid
      BY DEF UidInv
  <1>5. ASSUME NEW u, InHand(u)' PROVE InHand(u) /\ u # r.uid
      BY <1>1, <1>4, <1>5 DEF InHand
  <1>6. \A q \in outbox' : 0 < q.uid /\ q.uid < nextUID'.outbox /\ ~InHand(q.uid)'
      BY <1>1, <1>5 DEF UidInv
  <1>7. \A q1, q2 \in outbox' : q1.uid = q2.uid => q1 = q2
      BY <1>3 DEF UidInv
  <1>8. \A s \in saving' : \A u \in DOMAIN task' :
          (s.held /\ s.rec.uid = task'[u].uid) => task'[u].pc \notin Between
      BY DEF UidInv
  <1>9. \A u \in DOMAIN task' :
          task'[u].uid < nextUID'.outbox /\ (task'[u].pc \in Between => task'[u].uid # 0)
      BY DEF UidInv
  <1>10. \A u, v \in DOMAIN task' : task'[u].uid = task'[v].uid => u = v \/ task'[u].uid = 0
      BY DEF UidInv
  <1>11. UidInv'
      BY <1>6, <1>7, <1>8, <1>9, <1>10 DEF UidInv
  <1>12. MailInv'
      BY <1>1 DEF MailInv
  <1>13. QED
      BY <1>11, <1>12

(* The steps of the IMAP client's Save.                                    *)
LEMMA UidStore ==
    ASSUME TypeOK, UidInv, MailInv, UNCHANGED <<task, nextUID>>
    PROVE  /\ \A r \in outbox : storeRead(r) => UidInv' /\ MailInv'
           /\ \A s \in saving : (storeDelete(s) \/ storeInsert(s)) => UidInv' /\ MailInv'
  <1>1. ASSUME NEW r \in outbox, storeRead(r) PROVE UidInv' /\ MailInv'
    <2>1. \A s \in saving' : s.rec.uid = r.uid /\ s.rec.mail = r.mail /\ ~s.held
        BY <1>1, StoreReadEffect
    <2>2. outbox' = outbox
        BY <1>1 DEF storeRead
    <2>3. ASSUME NEW u, InHand(u)' PROVE InHand(u)
        BY <2>1, <2>3 DEF InHand
    <2>4. \A q \in outbox' : 0 < q.uid /\ q.uid < nextUID'.outbox /\ ~InHand(q.uid)'
        BY <2>2, <2>3 DEF UidInv
    <2>5. UidInv'
        BY <2>1, <2>2, <2>4 DEF UidInv
    <2>6. MailInv'
        BY <2>1, <2>2 DEF MailInv, UidInv
    <2>7. QED
        BY <2>5, <2>6
  <1>2. ASSUME NEW s \in saving, storeDelete(s) PROVE UidInv' /\ MailInv'
    <2>1. \A d \in saving' : d.rec = s.rec /\ Stored(s.rec.uid) # {}
        BY <1>2, StoreDeleteEffect
    <2>2. outbox' = outbox \ Stored(s.rec.uid)
        BY <1>2 DEF storeDelete
    <2>3. \A r \in outbox' : r \in outbox /\ r.uid # s.rec.uid
        BY <2>2 DEF Stored
    <2>4. ASSUME NEW u, InHand(u)' PROVE InHand(u) \/ u = s.rec.uid
        BY <2>1, <2>4 DEF InHand
    <2>5. \A r \in outbox' : 0 < r.uid /\ r.uid < nextUID'.outbox /\ ~InHand(r.uid)'
        BY <2>3, <2>4 DEF UidInv
    <2>6. \A d \in saving' : \A t \in DOMAIN task :
            d.rec.uid = task[t].uid => task[t].pc \notin Between
        BY <2>1 DEF UidInv, InHand, Stored
    <2>7. UidInv'
        BY <2>1, <2>3, <2>5, <2>6 DEF UidInv
    <2>8. MailInv'
        BY <2>1, <2>3 DEF MailInv
    <2>9. QED
        BY <2>7, <2>8
  <1>3. ASSUME NEW s \in saving, storeInsert(s) PROVE UidInv' /\ MailInv'
    <2>1. saving' = {} /\ outbox' = outbox \cup {s.rec} /\ s.held
        BY <1>3 DEF storeInsert
    <2>2. InHand(s.rec.uid)
        BY <2>1 DEF InHand
    <2>3. \A r \in outbox : r.uid # s.rec.uid
        BY <2>2 DEF UidInv
    <2>4. ASSUME NEW u, InHand(u)' PROVE InHand(u) /\ u # s.rec.uid
        BY <2>1, <2>4 DEF InHand, UidInv
    <2>5. \A r \in outbox' : 0 < r.uid /\ r.uid < nextUID'.outbox /\ ~InHand(r.uid)'
        BY <2>1, <2>4 DEF UidInv
    <2>6. UidInv'
        BY <2>1, <2>3, <2>5 DEF UidInv
    <2>7. MailInv'
        BY <2>1 DEF MailInv
    <2>8. QED
        BY <2>6, <2>7
  <1>4. QED
      BY <1>1, <1>2, <1>3

(* The effect of the steps on the Outbox.                                  *)
LEMMA BoxEffects ==
    ASSUME TypeOK, NEW t \in DOMAIN task
    PROVE  /\ saveNew(t) =>
                /\ outbox' = outbox \cup {serializeBitmessage(t, nextUID.outbox)}
                /\ nextUID'.outbox = nextUID.outbox + 1 /\ saving' = saving
           /\ saveDelete(t) =>
                /\ task[t].uid # 0 /\ outbox' = outbox \ Stored(task[t].uid)
                /\ nextUID'.outbox = nextUID.outbox /\ saving' = saving
           /\ saveInsert(t) =>
                /\ outbox' = outbox \cup {serializeBitmessage(t, task[t].uid)}
                /\ nextUID'.outbox = nextUID.outbox /\ saving' = saving
           /\ moveDelete(t) =>
                /\ outbox' = outbox \ Stored(task[t].uid)
                /\ nextUID'.outbox = nextUID.outbox /\ saving' = saving
           /\ \A u \in Nat : LET r == serializeBitmessage(t, u)
                              IN r.uid = u /\ r.mail = task[t].mail /\ r.pkOut = task[t].pkOut
  <1>1. nextUID \in [outbox : Nat, limbo : Nat]
      BY DEF TypeOK, FoldersType
  <1>2. ASSUME saveNew(t)
        PROVE  /\ outbox' = outbox \cup {serializeBitmessage(t, nextUID.outbox)}
               /\ nextUID'.outbox = nextUID.outbox + 1 /\ saving' = saving
      BY <1>1, <1>2 DEF saveNew
  <1>3. QED
      BY <1>2 DEF saveDelete, saveInsert, moveDelete, serializeBitmessage

LEMMA StepUid ==
    ASSUME TypeOK, UidInv, MailInv, [Next]_vars
    PROVE  UidInv' /\ MailInv'
  <1>1. ASSUME Elsewhere, SameUids PROVE UidInv' /\ MailInv'
      BY <1>1, UidFrame DEF Elsewhere
  <1>2. ASSUME NEW m \in Mails, DeliverFromSMTP(m) PROVE UidInv' /\ MailInv'
    <2>1. Grows(nextUID.outbox, m, FALSE, FALSE, FALSE)
        BY <1>2, DeliverFromSMTPEffect
    <2>2. PICK n, k : n = nextUID.outbox /\ k = Len(task) + 1
        OBVIOUS
    <2>3. /\ k \in DOMAIN task' /\ task'[k].uid = n /\ task'[k].mail = m
          /\ task'[k].pc \notin Between
          /\ \A u \in DOMAIN task' : u # k => u \in DOMAIN task /\ task'[u] = task[u]
        BY <2>1, <2>2 DEF Grows, Between
    <2>4. PICK r : r = [uid |-> n, mail |-> m, pkOut |-> FALSE, ackExp |-> FALSE, ack |-> FALSE]
        OBVIOUS
    <2>5. nextUID \in [outbox : Nat, limbo : Nat]
        BY DEF TypeOK, FoldersType
    <2>6. /\ outbox' = outbox \cup {r} /\ saving' = saving
          /\ nextUID' = [nextUID EXCEPT !.outbox = @ + 1]
        BY <1>2, <2>2, <2>4 DEF DeliverFromSMTP, newMessage
    <2>7. r.uid = n /\ r.mail = m /\ nextUID'.outbox = n + 1
        BY <2>2, <2>4, <2>5, <2>6
    <2>8. QED
        BY <2>2, <2>3, <2>6, <2>7, UidFresh
  <1>3. ASSUME NEW t \in DOMAIN task, requestKey(t) PROVE UidInv' /\ MailInv'
      BY <1>1, <1>3, StepElsewhere, RequestKeyEffect, BecomesSameUids DEF Between
  <1>4. ASSUME NEW t \in DOMAIN task, generateAck(t) PROVE UidInv' /\ MailInv'
      BY <1>1, <1>4, StepElsewhere, GenerateAckEffect, BecomesSameUids DEF Between
  <1>5. ASSUME NEW t \in DOMAIN task, generateObject(t) PROVE UidInv' /\ MailInv'
      BY <1>1, <1>5, StepElsewhere, GenerateObjectEffect, BecomesSameUids DEF Between
  <1>6. ASSUME NEW t \in DOMAIN task, saveNew(t) PROVE UidInv' /\ MailInv'
    <2>1. PICK n : n = nextUID.outbox /\ n \in Nat
        BY StoredFacts
    <2>2. /\ DOMAIN task' = DOMAIN task /\ task'[t].uid = n /\ task'[t].mail = task[t].mail
          /\ task'[t].pc \notin Between
          /\ \A u \in DOMAIN task : u # t => task'[u] = task[u]
        BY <1>6, <2>1, SaveNewEffect DEF Becomes, Between
    <2>3. PICK r : r = serializeBitmessage(t, n)
        OBVIOUS
    <2>4. /\ outbox' = outbox \cup {r} /\ saving' = saving /\ nextUID'.outbox = n + 1
          /\ r.uid = n /\ r.mail = task[t].mail
        BY <1>6, <2>1, <2>3, BoxEffects
    <2>5. QED
        BY <2>1, <2>2, <2>4, UidFresh
  <1>7. ASSUME NEW t \in DOMAIN task, saveDelete(t) PROVE UidInv' /\ MailInv'
    <2>1. /\ task[t].uid # 0 /\ outbox' = outbox \ Stored(task[t].uid)
          /\ nextUID'.outbox = nextUID.outbox /\ saving' = saving
        BY <1>7, BoxEffects
    <2>2. /\ DOMAIN task' = DOMAIN task
          /\ \A u \in DOMAIN task : task'[u].uid = task[u].uid /\ task'[u].mail = task[u].mail
          /\ \A u \in DOMAIN task : u # t => task'[u] = task[u]
          /\ Stored(task[t].uid) = {} => task'[t].pc \notin Between
        BY <1>7, SaveDeleteEffect DEF Becomes, Between
    <2>3. CASE Stored(task[t].uid) = {}
      <3>1. SameUids
          BY <2>2, <2>3 DEF SameUids
      <3>2. QED
          BY <2>1, <3>1, UidFrame
    <2>4. CASE Stored(task[t].uid) # {}
      <3>1. PICK w : w = task[t].uid
          OBVIOUS
      <3>2. QED
          BY <2>1, <2>2, <2>4, <3>1, UidTaken
    <2>5. QED
        BY <2>3, <2>4
  <1>8. ASSUME NEW t \in DOMAIN task, saveInsert(t) PROVE UidInv' /\ MailInv'
    <2>1. /\ DOMAIN task' = DOMAIN task /\ task'[t].pc \notin Between /\ task[t].pc \in Between
          /\ \A u \in DOMAIN task : task'[u].uid = task[u].uid /\ task'[u].mail = task[u].mail
          /\ \A u \in DOMAIN task : u # t => task'[u] = task[u]
        BY <1>8, SaveInsertEffect DEF Becomes, Between
    <2>2. PICK r : r = serializeBitmessage(t, task[t].uid)
        OBVIOUS
    <2>3. /\ outbox' = outbox \cup {r} /\ saving' = saving /\ nextUID'.outbox = nextUID.outbox
          /\ r.uid = task[t].uid /\ r.mail = task[t].mail
        BY <1>8, <2>2, BoxEffects, TaskFacts
    <2>4. QED
        BY <2>1, <2>3, UidBack
  <1>9. ASSUME NEW t \in DOMAIN task,
               generateFails(t) \/ runMsg(t) \/ send(t) \/ moveRead(t) \/ moveAdd(t)
        PROVE  UidInv' /\ MailInv'
    <2>1. SameUids
        BY <1>9, GotoEffects, BecomesSameUids DEF Between
    <2>2. QED
        BY <1>1, <1>9, <2>1, StepElsewhere
  <1>10. ASSUME NEW t \in DOMAIN task, moveDelete(t) PROVE UidInv' /\ MailInv'
    <2>1. SameUids
        BY <1>10, GotoEffects, BecomesSameUids DEF Between
    <2>2. QED
        BY <1>10, <2>1, BoxEffects, UidFrame
  <1>11. ASSUME NEW o \in DOMAIN orders, powDone(o) PROVE UidInv' /\ MailInv'
    <2>1. /\ DOMAIN task' = DOMAIN task
          /\ \A u \in DOMAIN task :
               /\ task'[u].uid = task[u].uid /\ task'[u].mail = task[u].mail
               /\ task'[u].pc \in Between => task[u].pc \in Between
        BY <1>11, PowDoneEffect DEF Becomes, Between
    <2>2. SameUids
        BY <2>1 DEF SameUids
    <2>3. QED
        BY <1>1, <1>11, <2>2, StepElsewhere
  <1>12. ASSUME processNext PROVE UidInv' /\ MailInv'
    <2>1. PICK r \in queue : task' = Append(task, decodeBitmessage(r))
        BY <1>12 DEF processNext
    <2>2. SameUids
        BY <2>1, ProcessNextEffect DEF Grows, SameUids, Between
    <2>3. QED
        BY <1>1, <1>12, <2>2, StepElsewhere
  <1>13. ASSUME NEW r \in outbox, expunge(r) PROVE UidInv' /\ MailInv'
    <2>1. SameUids
        BY <1>13 DEF expunge, SameUids
    <2>2. QED
        BY <1>13, <2>1, UidFrame DEF expunge
  <1>14. ASSUME \/ \E r \in outbox : storeRead(r)
                \/ \E s \in saving : storeDelete(s) \/ storeInsert(s)
         PROVE  UidInv' /\ MailInv'
    <2>1. UNCHANGED <<task, nextUID>>
        BY <1>14 DEF storeRead, storeDelete, storeInsert
    <2>2. QED
        BY <1>14, <2>1, UidStore
  <1>15. ASSUME restart PROVE UidInv' /\ MailInv'
    <2>1. SameUids
        BY <1>15, RestartEffect DEF SameUids, Between
    <2>2. QED
        BY <1>15, <2>1, UidFrame DEF restart
  <1>16. ASSUME task' = task, Elsewhere PROVE UidInv' /\ MailInv'
      BY <1>1, <1>16 DEF SameUids
  <1>17. ASSUME UNCHANGED vars PROVE UidInv' /\ MailInv'
      BY <1>16, <1>17, StepElsewhere DEF vars
  <1>18. ASSUME QuietStep, Elsewhere PROVE UidInv' /\ MailInv'
      BY <1>16, <1>18, QuietEffect
  <1>19. ASSUME NEW t \in DOMAIN task, Failing(t) PROVE UidInv' /\ MailInv'
    <2>1. SameUids
        BY <1>19, FailingEffect, BecomesSameUids DEF Between
    <2>2. QED
        BY <1>1, <1>19, <2>1, StepElsewhere
  <1>20. ASSUME NEW m \in Mails, addNewFails(m) PROVE UidInv' /\ MailInv'
    <2>1. SameUids
        BY <1>20, AddNewFailsEffect DEF Grows, SameUids, Between
    <2>2. QED
        BY <1>1, <1>20, <2>1, StepElsewhere
  <1>21. ASSUME NEW s \in saving, storeFails(s) PROVE UidInv' /\ MailInv'
    <2>1. SameUids
        BY <1>21 DEF storeFails, SameUids
    <2>2. QED
        BY <1>21, <2>1, UidFrame DEF storeFails
  <1>22. QED
      BY <1>2, <1>3, <1>4, <1>5, <1>6, <1>7, <1>8, <1>9, <1>10, <1>11, <1>12, <1>13, <1>14,
         <1>15, <1>17, <1>18, <1>19, <1>20, <1>21, StepElsewhere
         DEF Next, TaskStep, HandlerStep, QuietStep, Failing
-----------------------------------------------------------------------------
(* What is in the Outbox, and where it came from.                          *)

(* Every message of the Outbox was there, is new, or comes back from the   *)
(* hands of a goroutine.                                                   *)
Origin(r) ==
    \/ r \in outbox
    \/ r.uid = nextUID.outbox /\ ~r.pkOut /\ DeliverFromSMTP(r.mail)
    \/ \E t \in DOMAIN task : /\ saveNew(t) /\ r.uid = nextUID.outbox
                              /\ r.mail = task[t].mail /\ r.pkOut = task[t].pkOut
    \/ \E t \in DOMAIN task : /\ saveInsert(t) /\ r.uid = task[t].uid
                              /\ r.mail = task[t].mail /\ r.pkOut = task[t].pkOut
    \/ \E s \in saving : storeInsert(s) /\ r = s.rec

LEMMA StepOrigin ==
    ASSUME TypeOK, [Next]_vars
    PROVE  \A r \in outbox' : Origin(r)
  <1>1. ASSUME outbox' \subseteq outbox PROVE \A r \in outbox' : Origin(r)
      BY <1>1 DEF Origin
  <1>2. ASSUME NEW m \in Mails, DeliverFromSMTP(m) PROVE \A r \in outbox' : Origin(r)
    <2>1. PICK q : q = [uid |-> nextUID.outbox, mail |-> m, pkOut |-> FALSE, ackExp |-> FALSE,
                        ack |-> FALSE]
        OBVIOUS
    <2>2. outbox' = outbox \cup {q}
        BY <1>2, <2>1 DEF DeliverFromSMTP, newMessage
    <2>3. q.uid = nextUID.outbox /\ q.mail = m /\ ~q.pkOut
        BY <2>1
    <2>4. QED
        BY <1>2, <2>2, <2>3 DEF Origin
  <1>3. ASSUME NEW t \in DOMAIN task, saveNew(t) PROVE \A r \in outbox' : Origin(r)
    <2>1. PICK q : q = serializeBitmessage(t, nextUID.outbox)
        OBVIOUS
    <2>2. /\ outbox' = outbox \cup {q} /\ q.uid = nextUID.outbox
          /\ q.mail = task[t].mail /\ q.pkOut = task[t].pkOut
        BY <1>3, <2>1, BoxEffects, StoredFacts
    <2>3. QED
        BY <1>3, <2>2 DEF Origin
  <1>4. ASSUME NEW t \in DOMAIN task, saveInsert(t) PROVE \A r \in outbox' : Origin(r)
    <2>1. PICK q : q = serializeBitmessage(t, task[t].uid)
        OBVIOUS
    <2>2. /\ outbox' = outbox \cup {q} /\ q.uid = task[t].uid
          /\ q.mail = task[t].mail /\ q.pkOut = task[t].pkOut
        BY <1>4, <2>1, BoxEffects, TaskFacts
    <2>3. QED
        BY <1>4, <2>2 DEF Origin
  <1>5. ASSUME NEW s \in saving, storeInsert(s) PROVE \A r \in outbox' : Origin(r)
    <2>1. outbox' = outbox \cup {s.rec}
        BY <1>5 DEF storeInsert
    <2>2. QED
        BY <1>5, <2>1 DEF Origin
  <1>6. ASSUME NEW t \in DOMAIN task, saveDelete(t) \/ moveDelete(t)
        PROVE  outbox' \subseteq outbox
      BY <1>6 DEF saveDelete, moveDelete
  <1>7. ASSUME \/ \E r \in outbox : expunge(r) \/ storeRead(r)
               \/ \E s \in saving : storeDelete(s) \/ storeFails(s)
               \/ restart \/ Elsewhere
        PROVE  outbox' \subseteq outbox
      BY <1>7 DEF expunge, storeRead, storeDelete, storeFails, restart, Elsewhere
  <1>8. QED
      BY <1>1, <1>2, <1>3, <1>4, <1>5, <1>6, <1>7, StepElsewhere
         DEF Next, TaskStep, HandlerStep, Failing

(* A message comes into the hands of a goroutine from the Outbox only, and *)
(* a task to Send from a save.                                             *)
LEMMA StepHands ==
    ASSUME TypeOK, OrdersInv, [Next]_vars
    PROVE  /\ \A u : InHand(u)' => InHand(u) \/ Stored(u) # {}
           /\ \A t \in DOMAIN task : task'[t].pc = "send" =>
                \/ task[t].pc = "send" \/ task[t].pc \in Between
                \/ task[t].uid = 0 /\ task[t].pc = "saveDone"
  <1> DEFINE Goal == /\ \A u : InHand(u)' => InHand(u) \/ Stored(u) # {}
                     /\ \A t \in DOMAIN task : task'[t].pc = "send" =>
                          \/ task[t].pc = "send" \/ task[t].pc \in Between
                          \/ task[t].uid = 0 /\ task[t].pc = "saveDone"
  <1>1. ASSUME SameUids, saving' \subseteq saving,
               \A t \in DOMAIN task : task'[t].pc = "send" => task[t].pc = "send"
        PROVE  Goal
      BY <1>1 DEF InHand, SameUids
  <1>2. ASSUME NEW t \in DOMAIN task, NEW pkOut, NEW ackExp, NEW ack, NEW pc,
               Becomes(t, task[t].uid, pkOut, ackExp, ack, pc), pc \notin Between, pc # "send",
               saving' = saving
        PROVE  Goal
    <2>1. SameUids
        BY <1>2, BecomesSameUids
    <2>2. \A u \in DOMAIN task : task'[u].pc = "send" => task[u].pc = "send"
        BY <1>2 DEF Becomes
    <2>3. QED
        BY <1>1, <1>2, <2>1, <2>2
  <1>3. ASSUME NEW uid, NEW mail, NEW pkOut, NEW ackExp, NEW ack,
               Grows(uid, mail, pkOut, ackExp, ack), saving' = saving
        PROVE  Goal
      BY <1>3 DEF InHand, Grows, Between
  <1> HIDE DEF Goal
  <1>4. ASSUME NEW m \in Mails, DeliverFromSMTP(m) PROVE Goal
    <2>1. saving' = saving
        BY <1>4 DEF DeliverFromSMTP
    <2>2. QED
        BY <1>3, <1>4, <2>1, DeliverFromSMTPEffect
  <1>5. ASSUME NEW t \in DOMAIN task, requestKey(t) PROVE Goal
    <2>1. saving' = saving
        BY <1>5, StepElsewhere DEF Elsewhere
    <2>2. QED
        BY <1>2, <1>5, <2>1, RequestKeyEffect DEF Between
  <1>6. ASSUME NEW t \in DOMAIN task, generateAck(t) PROVE Goal
    <2>1. saving' = saving
        BY <1>6, StepElsewhere DEF Elsewhere
    <2>2. QED
        BY <1>2, <1>6, <2>1, GenerateAckEffect DEF Between
  <1>7. ASSUME NEW t \in DOMAIN task, generateObject(t) PROVE Goal
    <2>1. saving' = saving
        BY <1>7, StepElsewhere DEF Elsewhere
    <2>2. QED
        BY <1>2, <1>7, <2>1, GenerateObjectEffect DEF Between
  <1>8. ASSUME NEW t \in DOMAIN task, saveNew(t) PROVE Goal
    <2>1. saving' = saving /\ task[t].uid = 0
        BY <1>8, BoxEffects DEF saveNew
    <2>2. /\ DOMAIN task' = DOMAIN task /\ task'[t].pc \notin Between
          /\ \A u \in DOMAIN task : u # t => task'[u] = task[u]
          /\ task'[t].pc = "send" => task[t].pc = "saveDone"
        BY <1>8, SaveNewEffect DEF Becomes, Between, AfterSave
    <2>3. QED
        BY <2>1, <2>2 DEF Goal, InHand
  <1>9. ASSUME NEW t \in DOMAIN task, saveDelete(t) PROVE Goal
    <2>1. saving' = saving
        BY <1>9, BoxEffects
    <2>2. /\ DOMAIN task' = DOMAIN task /\ task'[t].pc # "send" /\ task'[t].uid = task[t].uid
          /\ \A u \in DOMAIN task : u # t => task'[u] = task[u]
          /\ Stored(task[t].uid) = {} => task'[t].pc \notin Between
        BY <1>9, SaveDeleteEffect DEF Becomes, Between
    <2>3. QED
        BY <2>1, <2>2 DEF Goal, InHand
  <1>10. ASSUME NEW t \in DOMAIN task, saveInsert(t) PROVE Goal
    <2>1. saving' = saving
        BY <1>10, BoxEffects
    <2>2. /\ DOMAIN task' = DOMAIN task /\ task[t].pc \in Between /\ task'[t].pc \notin Between
          /\ \A u \in DOMAIN task : u # t => task'[u] = task[u]
        BY <1>10, SaveInsertEffect DEF Becomes, Between
    <2>3. QED
        BY <2>1, <2>2 DEF Goal, InHand
  <1>11. ASSUME NEW t \in DOMAIN task,
                \/ generateFails(t) \/ runMsg(t) \/ send(t) \/ moveRead(t)
                \/ moveDelete(t) \/ moveAdd(t)
         PROVE  Goal
    <2>1. saving' = saving
        BY <1>11, StepElsewhere, BoxEffects DEF Elsewhere
    <2>2. PICK pc \in {"failed", "wait", "move", "done", "moveDelete", "moveAdd"} :
            Becomes(t, task[t].uid, task[t].pkOut, task[t].ackExp, task[t].ack, pc)
        BY <1>11, GotoEffects
    <2>3. QED
        BY <1>2, <2>1, <2>2 DEF Between
  <1>12. ASSUME NEW o \in DOMAIN orders, powDone(o) PROVE Goal
    <2>1. saving' = saving
        BY <1>12, StepElsewhere DEF Elsewhere
    <2> DEFINE t == orders[o].task
    <2>2. PICK ack \in BOOLEAN, pc \in {"generate", "saveDone"} :
            Becomes(t, task[t].uid, task[t].pkOut, task[t].ackExp, ack, pc)
        BY <1>12, PowDoneEffect, TaskFacts
    <2>3. t \in DOMAIN task
        BY OrderFacts
    <2> HIDE DEF t
    <2>4. QED
        BY <1>2, <2>1, <2>2, <2>3 DEF Between
  <1>13. ASSUME processNext PROVE Goal
    <2>1. PICK r \in queue : task' = Append(task, decodeBitmessage(r))
        BY <1>13 DEF processNext
    <2>2. saving' = saving
        BY <1>13, StepElsewhere DEF Elsewhere
    <2>3. QED
        BY <1>3, <2>1, <2>2, ProcessNextEffect
  <1>14. ASSUME task' = task, saving' \subseteq saving PROVE Goal
      BY <1>14 DEF Goal, InHand
  <1>15. ASSUME NEW r \in outbox, storeRead(r) PROVE Goal
    <2>1. task' = task /\ \A s \in saving' : ~s.held
        BY <1>15, StoreReadEffect DEF storeRead
    <2>2. QED
        BY <2>1 DEF Goal, InHand
  <1>16. ASSUME NEW s \in saving, storeDelete(s) PROVE Goal
    <2>1. task' = task /\ \A d \in saving' : d.rec = s.rec /\ Stored(s.rec.uid) # {}
        BY <1>16, StoreDeleteEffect DEF storeDelete
    <2>2. QED
        BY <2>1 DEF Goal, InHand
  <1>17. ASSUME restart PROVE Goal
    <2>1. saving' = {} /\ \A t \in DOMAIN task' : task'[t].pc = "done"
        BY <1>17, RestartEffect DEF restart
    <2>2. DOMAIN task' = DOMAIN task
        BY <1>17, RestartEffect
    <2>3. QED
        BY <2>1, <2>2 DEF Goal, InHand, Between
  <1>18. ASSUME \/ \E r \in outbox : expunge(r)
                \/ \E s \in saving : storeInsert(s) \/ storeFails(s)
         PROVE  Goal
      BY <1>14, <1>18 DEF expunge, storeInsert, storeFails
  <1>19. ASSUME QuietStep \/ UNCHANGED vars, Elsewhere PROVE Goal
      BY <1>14, <1>19, QuietEffect DEF Elsewhere, vars
  <1>20. ASSUME NEW t \in DOMAIN task, Failing(t) PROVE Goal
    <2>1. saving' = saving
        BY <1>20, FailingWrites
    <2>2. /\ DOMAIN task' = DOMAIN task /\ task'[t].pc \notin Between
          /\ task'[t].pc = "send" => task[t].pc \in Between
          /\ \A u \in DOMAIN task : u # t => task'[u] = task[u]
        BY <1>20, FailingEffect DEF Becomes, Between
    <2>3. QED
        BY <2>1, <2>2 DEF Goal, InHand
  <1>21. ASSUME NEW m \in Mails, addNewFails(m) PROVE Goal
    <2>1. saving' = saving
        BY <1>21, StepElsewhere DEF Elsewhere
    <2>2. QED
        BY <1>3, <1>21, <2>1, AddNewFailsEffect
  <1>22. Goal
      BY <1>4, <1>5, <1>6, <1>7, <1>8, <1>9, <1>10, <1>11, <1>12, <1>13, <1>15, <1>16, <1>17,
         <1>18, <1>19, <1>20, <1>21, StepElsewhere
         DEF Next, TaskStep, HandlerStep, QuietStep, Failing
  <1>23. QED
      BY <1>22 DEF Goal

(* Nothing is struck from the record.                                      *)
LEMMA StepRecords ==
    ASSUME [Next]_vars
    PROVE  /\ accepted \subseteq accepted' /\ overtaken \subseteq overtaken'
           /\ removed \cup exposed \cup dropped \subseteq removed' \cup exposed' \cup dropped'
           /\ expunged' = expunged \/ \E r \in outbox : expunge(r)
  <1> DEFINE Longer ==
               /\ accepted \subseteq accepted' /\ overtaken \subseteq overtaken'
               /\ removed \cup exposed \cup dropped \subseteq removed' \cup exposed' \cup dropped'
  <1>1. ASSUME NEW t \in DOMAIN task, TaskStep(t) \/ DeliverAckReply(t)
        PROVE  Longer /\ expunged' = expunged
    <2>1. CASE Failing(t)
        BY <2>1, FailingWrites
    <2>2. CASE ~Failing(t)
      <3>1. UNCHANGED <<accepted, expunged, removed, exposed, overtaken, dropped>>
          BY <1>1, <2>2 DEF TaskStep, Failing, requestKey, generateAck, generateObject,
             generateFails, panic, saveNew, saveDelete, saveInsert, runMsg, send, moveRead,
             moveDelete, moveAdd, DeliverAckReply, history, record
      <3>2. QED
          BY <3>1
    <2>3. QED
        BY <2>1, <2>2
  <1>2. ASSUME \/ powBegin
               \/ \E o \in DOMAIN orders : powComplete(o) \/ keyRequested(o) \/ powDone(o)
               \/ HandlerStep \/ \E a \in Addresses : keyArrives(a)
               \/ \E r \in outbox : storeRead(r)
               \/ \E s \in saving : storeInsert(s)
               \/ UNCHANGED vars
        PROVE  UNCHANGED <<accepted, expunged, removed, exposed, overtaken, dropped>>
      BY <1>2 DEF powBegin, powComplete, keyRequested, powDone, HandlerStep, pkTick, processNext,
                  pkRemove, DeliverPublic, keyArrives, storeRead, storeInsert, vars, history, record
  <1>3. ASSUME \/ \E m \in Mails : DeliverFromSMTP(m) \/ addNewFails(m)
               \/ \E s \in saving : storeDelete(s) \/ storeFails(s)
               \/ restart
        PROVE  Longer /\ expunged' = expunged
      BY <1>3 DEF DeliverFromSMTP, addNewFails, storeDelete, storeFails, Drop, restart, history,
                  record
  <1>4. ASSUME NEW r \in outbox, expunge(r) PROVE Longer
      BY <1>4 DEF expunge
  <1>5. QED
      BY <1>1, <1>2, <1>3, <1>4 DEF Next

(* A removed message does not come back.                                   *)
LEMMA StepRemoved ==
    ASSUME TypeOK, OrdersInv, UidInv, RemovedInv, [Next]_vars
    PROVE  RemovedInv'
  <1>1. Keeps
      BY StepKeeps
  <1>2. ASSUME NEW t \in expunged
        PROVE  /\ task'[t].uid # 0 /\ Stored(task[t].uid)' = {}
               /\ ~InHand(task[t].uid)' /\ task'[t].pc # "send"
    <2>1. PICK u : u = task[t].uid
        OBVIOUS
    <2>2. /\ t \in DOMAIN task /\ u # 0 /\ Stored(u) = {} /\ ~InHand(u) /\ task[t].pc # "send"
        BY <2>1 DEF RemovedInv, TypeOK, StoresType
    <2>3. task'[t].uid = u
        BY <1>1, <2>1, <2>2 DEF Keeps
    <2>4. ~InHand(u)'
        BY <2>2, StepHands
    <2>5. task'[t].pc # "send"
        BY <2>1, <2>2, StepHands DEF InHand
    <2>6. ASSUME NEW r \in outbox', r.uid = u PROVE FALSE
      <3>1. Origin(r)
          BY StepOrigin
      <3>2. r \notin outbox
          BY <2>2, <2>6 DEF Stored
      <3>3. u \in Nat /\ u < nextUID.outbox /\ nextUID.outbox \in Nat
          BY <2>1, <2>2, UidFacts
      <3>4. \A v \in DOMAIN task : saveInsert(v) => task[v].uid # u
          BY <2>2, SaveInsertEffect DEF InHand, Between
      <3>5. \A d \in saving : storeInsert(d) => d.rec.uid # u
          BY <2>2 DEF InHand, storeInsert
      <3>6. QED
          BY <2>6, <3>1, <3>2, <3>3, <3>4, <3>5 DEF Origin
    <2>7. QED
        BY <2>2, <2>3, <2>4, <2>5, <2>6 DEF Stored
  <1>3. CASE expunged' = expunged
      BY <1>2, <1>3 DEF RemovedInv
  <1>4. ASSUME NEW r \in outbox, expunge(r) PROVE RemovedInv'
    <2>1. /\ task' = task /\ outbox' = outbox \ {r} /\ saving' = saving
          /\ \A s \in saving : ~s.held
          /\ \A t \in expunged' : t \in expunged \/
               (t \in DOMAIN task /\ task[t].uid = r.uid /\ task[t].pc # "send")
        BY <1>4 DEF expunge, OutboxFree
    <2>2. ASSUME NEW t \in DOMAIN task, task[t].uid = r.uid, task[t].pc # "send"
          PROVE  /\ task'[t].uid # 0 /\ Stored(task[t].uid)' = {}
                 /\ ~InHand(task[t].uid)' /\ task'[t].pc # "send"
      <3>1. r.uid # 0 /\ ~InHand(r.uid) /\ \A q \in outbox : q.uid = r.uid => q = r
          BY UidFacts DEF UidInv
      <3>2. QED
          BY <2>1, <2>2, <3>1 DEF InHand, Stored
    <2>3. QED
        BY <1>2, <2>1, <2>2 DEF RemovedInv
  <1>5. QED
      BY <1>3, <1>4, StepRecords

(* A step of send is no step of a removed message.                         *)
LEMMA SendNotRemoved ==
    ASSUME TypeOK, OrdersInv, RemovedInv, [Next]_vars
    PROVE  \A t \in Task : sends'[t] # sends[t] => t \notin expunged
  <1>1. CASE UNCHANGED sends
      BY <1>1
  <1>2. ASSUME NEW t \in DOMAIN task, send(t)
        PROVE  \A u \in Task : sends'[u] # sends[u] => u \notin expunged
    <2>1. t \notin expunged
        BY <1>2 DEF send, RemovedInv
    <2>2. \A u \in Task : u # t => sends'[u] = sends[u]
        BY <1>2 DEF send, TypeOK, StoresType
    <2>3. QED
        BY <2>1, <2>2
  <1>3. QED
      BY <1>1, <1>2, StepSettles
-----------------------------------------------------------------------------
(* The flag of a message that waits for its recipient's key.               *)

(* A task at a save of a request is flagged.                               *)
RequestFlagged ==
    \A t \in DOMAIN task : task[t].pc \in {"saveReq", "insReq"} => task[t].pkOut

LEMMA FlaggedBecomes ==
    ASSUME RequestFlagged, NEW t \in DOMAIN task, NEW uid, NEW pkOut, NEW ackExp, NEW ack, NEW pc,
           Becomes(t, uid, pkOut, ackExp, ack, pc), pc \in {"saveReq", "insReq"} => pkOut
    PROVE  RequestFlagged'
  BY DEF RequestFlagged, Becomes

LEMMA StepRequestFlagged ==
    ASSUME TypeOK, RequestFlagged, [Next]_vars
    PROVE  RequestFlagged'
  <1>1. ASSUME NEW uid, NEW mail, NEW pkOut, NEW ackExp, NEW ack,
               Grows(uid, mail, pkOut, ackExp, ack)
        PROVE  RequestFlagged'
      BY <1>1 DEF Grows, RequestFlagged
  <1>2. ASSUME NEW m \in Mails, DeliverFromSMTP(m) PROVE RequestFlagged'
      BY <1>1, <1>2, DeliverFromSMTPEffect
  <1>3. ASSUME NEW t \in DOMAIN task, requestKey(t) PROVE RequestFlagged'
      BY <1>3, RequestKeyEffect, FlaggedBecomes
  <1>4. ASSUME NEW t \in DOMAIN task, generateAck(t) PROVE RequestFlagged'
    <2>1. Becomes(t, task[t].uid, task[t].pkOut, TRUE, task[t].ack, "wait")
        BY <1>4, GenerateAckEffect
    <2>2. QED
        BY <2>1 DEF Becomes, RequestFlagged
  <1>5. ASSUME NEW t \in DOMAIN task, generateObject(t) PROVE RequestFlagged'
      BY <1>5, GenerateObjectEffect, FlaggedBecomes
  <1>6. ASSUME NEW t \in DOMAIN task, saveNew(t) PROVE RequestFlagged'
      BY <1>6, SaveNewEffect, FlaggedBecomes
  <1>7. ASSUME NEW t \in DOMAIN task, saveDelete(t) PROVE RequestFlagged'
    <2> DEFINE pc == IF Stored(task[t].uid) = {} THEN "failed" ELSE Inserting[task[t].pc]
    <2>1. Becomes(t, task[t].uid, task[t].pkOut, task[t].ackExp, task[t].ack, pc)
        BY <1>7, SaveDeleteEffect
    <2>2. pc \in {"saveReq", "insReq"} => task[t].pkOut
        BY <1>7, SaveDeleteEffect DEF Inserting, RequestFlagged
    <2> HIDE DEF pc
    <2>3. QED
        BY <2>1, <2>2, FlaggedBecomes
  <1>8. ASSUME NEW t \in DOMAIN task, saveInsert(t) PROVE RequestFlagged'
      BY <1>8, SaveInsertEffect, FlaggedBecomes
  <1>9. ASSUME NEW t \in DOMAIN task,
               \/ generateFails(t) \/ runMsg(t) \/ send(t) \/ moveRead(t)
               \/ moveDelete(t) \/ moveAdd(t)
        PROVE  RequestFlagged'
    <2>1. PICK pc \in {"failed", "wait", "move", "done", "moveDelete", "moveAdd"} :
            Becomes(t, task[t].uid, task[t].pkOut, task[t].ackExp, task[t].ack, pc)
        BY <1>9, GotoEffects
    <2>2. QED
        BY <2>1, FlaggedBecomes
  <1>10. ASSUME NEW o \in DOMAIN orders, powDone(o) PROVE RequestFlagged'
    <2>1. /\ DOMAIN task' = DOMAIN task
          /\ \A u \in DOMAIN task : task'[u] = task[u] \/ task'[u].pc \in {"generate", "saveDone"}
        BY <1>10, PowDoneEffect DEF Becomes
    <2>2. QED
        BY <2>1 DEF RequestFlagged
  <1>11. ASSUME processNext PROVE RequestFlagged'
      BY <1>1, <1>11, ProcessNextEffect DEF processNext
  <1>12. ASSUME restart PROVE RequestFlagged'
      BY <1>12, RestartEffect DEF RequestFlagged
  <1>13. ASSUME QuietStep \/ UNCHANGED vars PROVE RequestFlagged'
    <2>1. task' = task
        BY <1>13, QuietEffect DEF vars
    <2>2. QED
        BY <2>1 DEF RequestFlagged
  <1>14. ASSUME NEW t \in DOMAIN task, Failing(t) PROVE RequestFlagged'
      BY <1>14, FailingEffect, FlaggedBecomes
  <1>15. ASSUME NEW m \in Mails, addNewFails(m) PROVE RequestFlagged'
      BY <1>1, <1>15, AddNewFailsEffect
  <1>16. QED
      BY <1>2, <1>3, <1>4, <1>5, <1>6, <1>7, <1>8, <1>9, <1>10, <1>11, <1>12, <1>13, <1>14, <1>15
         DEF Next, TaskStep, HandlerStep, QuietStep, Failing

(* A task is parked by the end of a save of a request.                     *)
LEMMA StepParked ==
    ASSUME TypeOK, OrdersInv, [Next]_vars
    PROVE  \A t \in DOMAIN task' : task'[t].pc = "parked" =>
             /\ t \in DOMAIN task
             /\ \/ task[t].pc = "parked" /\ task'[t].uid = task[t].uid
                \/ saveNew(t) /\ task[t].pc = "saveReq"
                \/ saveInsert(t) /\ task[t].pc = "insReq"
                \/ Failing(t) /\ task[t].pc = "insReq"
  <1> DEFINE Goal == \A t \in DOMAIN task' : task'[t].pc = "parked" =>
                       /\ t \in DOMAIN task
                       /\ \/ task[t].pc = "parked" /\ task'[t].uid = task[t].uid
                          \/ saveNew(t) /\ task[t].pc = "saveReq"
                          \/ saveInsert(t) /\ task[t].pc = "insReq"
                          \/ Failing(t) /\ task[t].pc = "insReq"
  <1>1. ASSUME NEW t \in DOMAIN task, NEW pkOut, NEW ackExp, NEW ack, NEW pc,
               Becomes(t, task[t].uid, pkOut, ackExp, ack, pc), pc # "parked"
        PROVE  Goal
      BY <1>1 DEF Becomes
  <1>2. ASSUME NEW uid, NEW mail, NEW pkOut, NEW ackExp, NEW ack,
               Grows(uid, mail, pkOut, ackExp, ack)
        PROVE  Goal
      BY <1>2 DEF Grows
  <1>3. ASSUME task' = task PROVE Goal
      BY <1>3
  <1>4. ASSUME NEW t \in DOMAIN task, saveNew(t) PROVE Goal
    <2>1. /\ DOMAIN task' = DOMAIN task
          /\ task'[t].pc = "parked" => task[t].pc = "saveReq"
          /\ \A u \in DOMAIN task : u # t => task'[u] = task[u]
        BY <1>4, SaveNewEffect DEF Becomes, AfterSave
    <2>2. QED
        BY <1>4, <2>1
  <1>5. ASSUME NEW t \in DOMAIN task, saveInsert(t) PROVE Goal
    <2>1. /\ DOMAIN task' = DOMAIN task
          /\ task'[t].pc = "parked" => task[t].pc = "insReq"
          /\ \A u \in DOMAIN task : u # t => task'[u] = task[u]
        BY <1>5, SaveInsertEffect DEF Becomes, AfterSave
    <2>2. QED
        BY <1>5, <2>1
  <1>6. ASSUME restart PROVE Goal
      BY <1>6, RestartEffect
  <1>16. ASSUME NEW t \in DOMAIN task, Failing(t) PROVE Goal
    <2>1. /\ DOMAIN task' = DOMAIN task
          /\ task'[t].pc = "parked" => task[t].pc = "insReq"
          /\ \A u \in DOMAIN task : u # t => task'[u] = task[u]
        BY <1>16, FailingEffect DEF Becomes
    <2>2. QED
        BY <1>16, <2>1
  <1> HIDE DEF Goal
  <1>7. ASSUME NEW m \in Mails, DeliverFromSMTP(m) PROVE Goal
      BY <1>2, <1>7, DeliverFromSMTPEffect
  <1>8. ASSUME NEW t \in DOMAIN task, requestKey(t) PROVE Goal
      BY <1>1, <1>8, RequestKeyEffect
  <1>9. ASSUME NEW t \in DOMAIN task, generateAck(t) PROVE Goal
      BY <1>1, <1>9, GenerateAckEffect
  <1>10. ASSUME NEW t \in DOMAIN task, generateObject(t) PROVE Goal
      BY <1>1, <1>10, GenerateObjectEffect
  <1>11. ASSUME NEW t \in DOMAIN task, saveDelete(t) PROVE Goal
    <2> DEFINE pc == IF Stored(task[t].uid) = {} THEN "failed" ELSE Inserting[task[t].pc]
    <2>1. Becomes(t, task[t].uid, task[t].pkOut, task[t].ackExp, task[t].ack, pc)
        BY <1>11, SaveDeleteEffect
    <2>2. pc # "parked"
        BY <1>11, SaveDeleteEffect
    <2> HIDE DEF pc
    <2>3. QED
        BY <1>1, <2>1, <2>2
  <1>12. ASSUME NEW t \in DOMAIN task,
                \/ generateFails(t) \/ runMsg(t) \/ send(t) \/ moveRead(t)
                \/ moveDelete(t) \/ moveAdd(t)
         PROVE  Goal
    <2>1. PICK pc \in {"failed", "wait", "move", "done", "moveDelete", "moveAdd"} :
            Becomes(t, task[t].uid, task[t].pkOut, task[t].ackExp, task[t].ack, pc)
        BY <1>12, GotoEffects
    <2>2. QED
        BY <1>1, <2>1
  <1>13. ASSUME NEW o \in DOMAIN orders, powDone(o) PROVE Goal
    <2> DEFINE t == orders[o].task
    <2>1. t \in DOMAIN task
        BY OrderFacts
    <2>2. PICK ack \in BOOLEAN, pc \in {"generate", "saveDone"} :
            Becomes(t, task[t].uid, task[t].pkOut, task[t].ackExp, ack, pc)
        BY <1>13, <2>1, PowDoneEffect, TaskFacts
    <2> HIDE DEF t
    <2>3. QED
        BY <1>1, <2>1, <2>2
  <1>14. ASSUME processNext PROVE Goal
      BY <1>2, <1>14, ProcessNextEffect DEF processNext
  <1>15. ASSUME QuietStep \/ UNCHANGED vars PROVE Goal
      BY <1>3, <1>15, QuietEffect DEF vars
  <1>17. ASSUME NEW m \in Mails, addNewFails(m) PROVE Goal
      BY <1>2, <1>17, AddNewFailsEffect
  <1>18. Goal
      BY <1>4, <1>5, <1>6, <1>7, <1>8, <1>9, <1>10, <1>11, <1>12, <1>13, <1>14, <1>15, <1>16,
         <1>17 DEF Next, TaskStep, HandlerStep, QuietStep, Failing
  <1>19. QED
      BY <1>18 DEF Goal

(* A Save begins with a read and goes on with a delete.                    *)
LEMMA StepSaving ==
    ASSUME TypeOK, [Next]_vars
    PROVE  \/ saving' \subseteq saving
           \/ \E r \in outbox : storeRead(r)
           \/ \E s \in saving : storeDelete(s)
  <1>1. ASSUME NEW t \in DOMAIN task, saveNew(t) \/ saveDelete(t) \/ saveInsert(t) \/ moveDelete(t)
        PROVE  saving' \subseteq saving
      BY <1>1, BoxEffects
  <1>2. ASSUME \/ \E m \in Mails : DeliverFromSMTP(m)
               \/ \E r \in outbox : expunge(r)
               \/ \E s \in saving : storeInsert(s) \/ storeFails(s)
               \/ restart \/ Elsewhere
        PROVE  saving' \subseteq saving
      BY <1>2 DEF DeliverFromSMTP, expunge, storeInsert, storeFails, restart, Elsewhere
  <1>3. QED
      BY <1>1, <1>2, StepElsewhere DEF Next, TaskStep, HandlerStep, Failing

(* A parked message stays flagged.                                         *)
LEMMA StepParkedFlagged ==
    ASSUME TypeOK, OrdersInv, UidInv, FlagInv, [Next]_vars
    PROVE  ParkedIsFlagged'
  <1>1. SUFFICES ASSUME NEW t \in DOMAIN task', task'[t].pc = "parked",
                        NEW r \in outbox', r.uid = task'[t].uid
                 PROVE  r.pkOut \/ r.uid \in overtaken'
      BY DEF ParkedIsFlagged, Stored
  <1>2. t \in DOMAIN task /\ overtaken \subseteq overtaken'
      BY <1>1, StepParked, StepRecords
  <1>3. CASE task[t].pc = "parked" /\ task'[t].uid = task[t].uid
    <2>1. r.uid \in Nat /\ r.uid < nextUID.outbox /\ nextUID.outbox \in Nat
        BY <1>1, <1>2, <1>3, UidFacts
    <2>2. CASE r \in outbox
        BY <1>1, <1>2, <1>3, <2>2 DEF FlagInv, ParkedIsFlagged, Stored
    <2>3. \A u \in DOMAIN task : saveInsert(u) => task[u].uid # r.uid
        BY <1>1, <1>2, <1>3, SaveInsertEffect DEF UidInv, Between
    <2>4. \A d \in saving : (storeInsert(d) /\ d.rec.uid = r.uid) =>
             d.rec.pkOut \/ d.rec.uid \in overtaken
        BY <1>1, <1>2, <1>3 DEF storeInsert, FlagInv
    <2>5. QED
        BY <1>2, <2>1, <2>2, <2>3, <2>4, StepOrigin DEF Origin
  <1>4. CASE saveNew(t) /\ task[t].pc = "saveReq"
    <2>1. PICK q : q = serializeBitmessage(t, nextUID.outbox)
        OBVIOUS
    <2>2. outbox' = outbox \cup {q} /\ q.pkOut = task[t].pkOut
        BY <1>2, <1>4, <2>1, BoxEffects, StoredFacts
    <2>3. task'[t].uid = nextUID.outbox
        BY <1>2, <1>4, SaveNewEffect DEF Becomes
    <2>4. r = q
        BY <1>1, <2>2, <2>3, UidFacts
    <2>5. QED
        BY <1>2, <1>4, <2>2, <2>4 DEF FlagInv
  <1>5. CASE saveInsert(t) /\ task[t].pc = "insReq"
    <2>1. PICK q : q = serializeBitmessage(t, task[t].uid)
        OBVIOUS
    <2>2. outbox' = outbox \cup {q} /\ q.pkOut = task[t].pkOut
        BY <1>2, <1>5, <2>1, BoxEffects, TaskFacts
    <2>3. task'[t].uid = task[t].uid
        BY <1>2, <1>5, SaveInsertEffect DEF Becomes
    <2>4. InHand(task[t].uid)
        BY <1>2, <1>5 DEF InHand, Between
    <2>5. r = q
        BY <1>1, <2>2, <2>3, <2>4 DEF UidInv
    <2>6. QED
        BY <1>2, <1>5, <2>2, <2>5 DEF FlagInv
  <1>6. CASE Failing(t) /\ task[t].pc = "insReq"
    <2>1. outbox' = outbox /\ task'[t].uid = task[t].uid
        BY <1>2, <1>6, FailingWrites, FailingEffect DEF Becomes
    <2>2. InHand(task[t].uid)
        BY <1>2, <1>6 DEF InHand, Between
    <2>3. QED
        BY <1>1, <2>1, <2>2 DEF UidInv
  <1>7. QED
      BY <1>1, <1>3, <1>4, <1>5, <1>6, StepParked

(* So does what a Save is about to write.                                  *)
LEMMA StepSavingFlagged ==
    ASSUME TypeOK, OrdersInv, UidInv, FlagInv, [Next]_vars
    PROVE  /\ \A s \in saving' : s.was = s.rec.pkOut
           /\ \A s \in saving' : \A t \in DOMAIN task' :
                (s.held /\ task'[t].pc = "parked" /\ s.rec.uid = task'[t].uid) =>
                   s.rec.pkOut \/ s.rec.uid \in overtaken'
  <1>1. overtaken \subseteq overtaken'
      BY StepRecords
  <1>2. CASE saving' \subseteq saving
    <2>1. ASSUME NEW s \in saving', NEW t \in DOMAIN task', s.held, task'[t].pc = "parked",
                 s.rec.uid = task'[t].uid
          PROVE  s.rec.pkOut \/ s.rec.uid \in overtaken'
      <3>1. s \in saving /\ t \in DOMAIN task
          BY <1>2, <2>1, StepParked
      <3>2. CASE task[t].pc = "parked" /\ task'[t].uid = task[t].uid
          BY <1>1, <2>1, <3>1, <3>2 DEF FlagInv
      <3>3. ~(saveNew(t) /\ task[t].pc = "saveReq")
          BY <2>1, <3>1, SaveNewEffect, UidFacts DEF Becomes
      <3>4. ~(saveInsert(t) /\ task[t].pc = "insReq")
          BY <2>1, <3>1, SaveInsertEffect DEF Becomes, UidInv, Between
      <3>5. ~(Failing(t) /\ task[t].pc = "insReq")
          BY <2>1, <3>1, FailingEffect DEF Becomes, UidInv, Between
      <3>6. QED
          BY <2>1, <3>2, <3>3, <3>4, <3>5, StepParked
    <2>2. QED
        BY <1>2, <2>1 DEF FlagInv
  <1>3. ASSUME NEW r \in outbox, storeRead(r)
        PROVE  \A s \in saving' : s.was = s.rec.pkOut /\ ~s.held
      BY <1>3, StoreReadEffect
  <1>4. ASSUME NEW d \in saving, storeDelete(d),
               NEW s \in saving', NEW t \in DOMAIN task', task'[t].pc = "parked",
               s.rec.uid = task'[t].uid
        PROVE  s.rec.pkOut \/ s.rec.uid \in overtaken'
    <2>1. task' = task /\ s.rec = d.rec /\ Stored(d.rec.uid) # {}
        BY <1>4, StoreDeleteEffect DEF storeDelete
    <2>2. PICK r \in outbox : r.uid = d.rec.uid
        BY <2>1 DEF Stored
    <2>3. r.pkOut \/ r.uid \in overtaken
        BY <1>4, <2>1, <2>2 DEF FlagInv, ParkedIsFlagged, Stored
    <2>4. (r.pkOut /\ ~d.was) => r.uid \in overtaken'
        BY <1>4, <2>2 DEF storeDelete, Stored
    <2>5. d.was = d.rec.pkOut
        BY DEF FlagInv
    <2>6. QED
        BY <1>1, <2>1, <2>2, <2>3, <2>4, <2>5, StoredFacts
  <1>5. ASSUME NEW d \in saving, storeDelete(d) PROVE \A s \in saving' : s.was = s.rec.pkOut
      BY <1>5, StoreDeleteEffect DEF FlagInv
  <1>6. QED
      BY <1>2, <1>3, <1>4, <1>5, StepSaving

LEMMA StepFlag ==
    ASSUME TypeOK, OrdersInv, UidInv, FlagInv, [Next]_vars
    PROVE  FlagInv'
  <1>1. RequestFlagged'
      BY StepRequestFlagged DEF FlagInv, RequestFlagged
  <1>2. QED
      BY <1>1, StepParkedFlagged, StepSavingFlagged DEF FlagInv, RequestFlagged
-----------------------------------------------------------------------------
(* Key requests, and the e-mails that are processed again.                 *)

(* A request that was made stays made.                                     *)
LEMMA AskedKept ==
    ASSUME TypeOK, Keeps, OrdersKeep, NEW m, Asked(m)
    PROVE  Asked(m)'
  <1>1. PICK o \in DOMAIN orders : orders[o].kind = "getpubkey" /\ task[orders[o].task].mail = m
      BY DEF Asked
  <1>2. o \in DOMAIN orders' /\ orders'[o] = orders[o]
      BY DEF OrdersKeep
  <1>3. orders[o].task \in DOMAIN task
      BY OrderFacts
  <1>4. task'[orders[o].task].mail = m
      BY <1>1, <1>3 DEF Keeps
  <1>5. QED
      BY <1>1, <1>2, <1>4 DEF Asked

(* A task is flagged with a request, and a new one has the flag of a       *)
(* message that DeliverPublic found or none.                               *)
LEMMA StepTaskAsked ==
    ASSUME TypeOK, AskedInv, [Next]_vars
    PROVE  /\ \A t \in DOMAIN task' : FlaggedIsAsked(task[t])'
           /\ ResentOnlyIfAsked'
  <1>1. Keeps /\ OrdersKeep /\ accepted \subseteq accepted'
      BY StepKeeps, StepOrdersKeep, StepRecords
  <1>2. \A m : Asked(m) => Asked(m)'
      BY <1>1, AskedKept
  <1> DEFINE Goal == /\ \A t \in DOMAIN task' : FlaggedIsAsked(task[t])'
                     /\ ResentOnlyIfAsked'
  <1>3. ASSUME DOMAIN task' = DOMAIN task,
               \A t \in DOMAIN task : task'[t].pkOut => task[t].pkOut
        PROVE  Goal
    <2>1. \A t \in DOMAIN task' : FlaggedIsAsked(task[t])'
        BY <1>1, <1>2, <1>3 DEF AskedInv, FlaggedIsAsked, Keeps
    <2>2. ResentOnlyIfAsked'
        BY <1>1, <1>2, <1>3 DEF AskedInv, ResentOnlyIfAsked, Keeps
    <2>3. QED
        BY <2>1, <2>2
  <1>4. ASSUME NEW uid, NEW mail, NEW pkOut, NEW ackExp, NEW ack,
               Grows(uid, mail, pkOut, ackExp, ack), mail \in accepted',
               pkOut => Asked(mail)', mail \in accepted => Asked(mail)'
        PROVE  Goal
    <2>1. PICK k : k = Len(task) + 1
        OBVIOUS
    <2>2. /\ DOMAIN task' = DOMAIN task \cup {k} /\ k \notin DOMAIN task
          /\ \A t \in DOMAIN task : task'[t] = task[t]
          /\ task'[k].mail = mail /\ task'[k].pkOut = pkOut
        BY <1>4, <2>1 DEF Grows
    <2>3. \A t \in DOMAIN task' : FlaggedIsAsked(task[t])'
        BY <1>1, <1>2, <1>4, <2>2 DEF AskedInv, FlaggedIsAsked
    <2>4. \A t \in DOMAIN task : task[t].mail = mail => Asked(mail)'
        BY <1>4 DEF AskedInv, FlaggedIsAsked
    <2>5. ResentOnlyIfAsked'
        BY <1>2, <2>2, <2>4 DEF AskedInv, ResentOnlyIfAsked
    <2>6. QED
        BY <2>3, <2>5
  <1>5. ASSUME NEW t \in DOMAIN task, requestKey(t) PROVE Goal
    <2>1. Becomes(t, task[t].uid, TRUE, task[t].ackExp, task[t].ack, "saveReq")
        BY <1>5, RequestKeyEffect
    <2>2. PICK n : n = submitted + 1
        OBVIOUS
    <2>3. n \in DOMAIN orders' /\ orders'[n].kind = "getpubkey" /\ orders'[n].task = t
        BY <1>5, <2>2, SubmittingKeep DEF Submitting
    <2>4. \A m : m = task[t].mail => Asked(m)'
        BY <2>1, <2>3 DEF Asked, Becomes
    <2>5. \A u \in DOMAIN task' : FlaggedIsAsked(task[u])'
        BY <1>1, <1>2, <2>1, <2>4 DEF AskedInv, FlaggedIsAsked, Becomes
    <2>6. ResentOnlyIfAsked'
        BY <1>2, <2>1 DEF AskedInv, ResentOnlyIfAsked, Becomes
    <2>7. QED
        BY <2>5, <2>6
  <1> HIDE DEF Goal
  <1>6. ASSUME NEW m \in Mails, DeliverFromSMTP(m) PROVE Goal
    <2>1. m \in accepted' /\ m \notin accepted
        BY <1>6 DEF DeliverFromSMTP
    <2>2. QED
        BY <1>4, <1>6, <2>1, DeliverFromSMTPEffect
  <1>7. ASSUME processNext PROVE Goal
    <2>1. PICK r \in queue : task' = Append(task, decodeBitmessage(r))
        BY <1>7 DEF processNext
    <2>2. r.mail \in accepted' /\ \A m : m = r.mail => Asked(m)'
        BY <1>1, <1>2 DEF AskedInv, FlaggedIsAsked
    <2>3. PICK mail : mail = r.mail
        OBVIOUS
    <2>4. Grows(0, mail, r.pkOut, r.ackExp, r.ack)
        BY <2>1, <2>3, ProcessNextEffect
    <2>5. QED
        BY <1>4, <2>2, <2>3, <2>4
  <1>8. ASSUME NEW t \in DOMAIN task, NEW uid, NEW ackExp, NEW ack, NEW pc,
               Becomes(t, uid, task[t].pkOut, ackExp, ack, pc)
        PROVE  Goal
      BY <1>3, <1>8 DEF Becomes
  <1>9. ASSUME NEW t \in DOMAIN task, generateAck(t) PROVE Goal
      BY <1>8, <1>9, GenerateAckEffect
  <1>10. ASSUME NEW t \in DOMAIN task, generateObject(t) PROVE Goal
      BY <1>8, <1>10, GenerateObjectEffect
  <1>11. ASSUME NEW t \in DOMAIN task, saveNew(t) PROVE Goal
      BY <1>8, <1>11, SaveNewEffect
  <1>12. ASSUME NEW t \in DOMAIN task, saveDelete(t) PROVE Goal
      BY <1>8, <1>12, SaveDeleteEffect
  <1>13. ASSUME NEW t \in DOMAIN task, saveInsert(t) PROVE Goal
      BY <1>8, <1>13, SaveInsertEffect
  <1>14. ASSUME NEW t \in DOMAIN task,
                \/ generateFails(t) \/ runMsg(t) \/ send(t) \/ moveRead(t)
                \/ moveDelete(t) \/ moveAdd(t)
         PROVE  Goal
      BY <1>8, <1>14, GotoEffects
  <1>15. ASSUME NEW o \in DOMAIN orders, powDone(o) PROVE Goal
    <2>1. /\ DOMAIN task' = DOMAIN task
          /\ \A u \in DOMAIN task : task'[u].pkOut = task[u].pkOut
        BY <1>15, PowDoneEffect DEF Becomes
    <2>2. QED
        BY <1>3, <2>1
  <1>16. ASSUME restart PROVE Goal
      BY <1>3, <1>16, RestartEffect
  <1>17. ASSUME QuietStep \/ UNCHANGED vars PROVE Goal
    <2>1. task' = task
        BY <1>17, QuietEffect DEF vars
    <2>2. QED
        BY <1>3, <2>1
  <1>18. ASSUME NEW t \in DOMAIN task, Failing(t) PROVE Goal
      BY <1>8, <1>18, FailingEffect
  <1>19. ASSUME NEW m \in Mails, addNewFails(m) PROVE Goal
    <2>1. m \in accepted' /\ m \notin accepted
        BY <1>19 DEF addNewFails
    <2>2. QED
        BY <1>4, <1>19, <2>1, AddNewFailsEffect
  <1>20. Goal
      BY <1>5, <1>6, <1>7, <1>9, <1>10, <1>11, <1>12, <1>13, <1>14, <1>15, <1>16, <1>17, <1>18,
         <1>19 DEF Next, TaskStep, HandlerStep, QuietStep, Failing
  <1>21. QED
      BY <1>20 DEF Goal

(* What DeliverPublic finds is flagged.                                    *)
LEMMA StepQueue ==
    ASSUME TypeOK, [Next]_vars
    PROVE  \A r \in queue' : r \in queue \/ (r \in outbox /\ r.pkOut)
  <1>1. ASSUME NEW t \in DOMAIN task, TaskStep(t) \/ DeliverAckReply(t) PROVE queue' = queue
      BY <1>1, FailingWrites DEF TaskStep, Failing, requestKey, generateAck, generateObject, generateFails, panic, saveNew,
                  saveDelete, saveInsert, runMsg, send, moveRead, moveDelete, moveAdd,
                  DeliverAckReply, handler
  <1>2. ASSUME \/ \E m \in Mails : DeliverFromSMTP(m) \/ addNewFails(m)
               \/ powBegin
               \/ \E o \in DOMAIN orders : powComplete(o) \/ keyRequested(o) \/ powDone(o)
               \/ pkTick \/ \E a \in Addresses : keyArrives(a)
               \/ \E r \in outbox : expunge(r) \/ storeRead(r)
               \/ \E s \in saving : storeDelete(s) \/ storeInsert(s) \/ storeFails(s)
               \/ UNCHANGED vars
        PROVE  queue' = queue
      BY <1>2 DEF DeliverFromSMTP, addNewFails, powBegin, powComplete, keyRequested, powDone,
                  pkTick, keyArrives, expunge, storeRead, storeDelete, storeInsert, storeFails,
                  vars, handler
  <1>3. ASSUME processNext \/ pkRemove \/ restart PROVE queue' \subseteq queue
      BY <1>3 DEF processNext, pkRemove, restart
  <1>4. ASSUME NEW a \in Addresses, DeliverPublic(a)
        PROVE  \A r \in queue' : r \in outbox /\ r.pkOut
      BY <1>4 DEF DeliverPublic
  <1>5. QED
      BY <1>1, <1>2, <1>3, <1>4 DEF Next, HandlerStep

LEMMA StepAsked ==
    ASSUME TypeOK, AskedInv, [Next]_vars
    PROVE  AskedInv'
  <1>1. Keeps /\ OrdersKeep /\ accepted \subseteq accepted'
      BY StepKeeps, StepOrdersKeep, StepRecords
  <1>2. \A m : Asked(m) => Asked(m)'
      BY <1>1, AskedKept
  <1>3. ASSUME NEW r, FlaggedIsAsked(r) PROVE FlaggedIsAsked(r)'
      BY <1>1, <1>2, <1>3 DEF FlaggedIsAsked
  <1>4. ASSUME NEW r \in outbox' PROVE FlaggedIsAsked(r)'
    <2>1. Origin(r)
        BY StepOrigin
    <2>2. CASE r \in outbox
        BY <1>3, <2>2 DEF AskedInv
    <2>3. CASE ~r.pkOut /\ DeliverFromSMTP(r.mail)
        BY <2>3 DEF DeliverFromSMTP, FlaggedIsAsked
    <2>4. ASSUME NEW t \in DOMAIN task, r.mail = task[t].mail, r.pkOut = task[t].pkOut
          PROVE  FlaggedIsAsked(r)
        BY <2>4 DEF AskedInv, FlaggedIsAsked
    <2>5. ASSUME NEW s \in saving, r = s.rec PROVE FlaggedIsAsked(r)
        BY <2>5 DEF AskedInv
    <2>6. QED
        BY <1>3, <2>1, <2>2, <2>3, <2>4, <2>5 DEF Origin
  <1>5. ASSUME NEW s \in saving' PROVE FlaggedIsAsked(s.rec)'
    <2>1. CASE saving' \subseteq saving
        BY <1>3, <1>5, <2>1 DEF AskedInv
    <2>2. ASSUME NEW r \in outbox, storeRead(r) PROVE FlaggedIsAsked(s.rec)'
      <3>1. s.rec.mail = r.mail /\ s.rec.pkOut = r.pkOut
          BY <1>5, <2>2, StoreReadEffect
      <3>2. FlaggedIsAsked(s.rec)
          BY <3>1 DEF AskedInv, FlaggedIsAsked
      <3>3. QED
          BY <1>3, <3>2
    <2>3. ASSUME NEW d \in saving, storeDelete(d) PROVE FlaggedIsAsked(s.rec)'
      <3>1. s.rec = d.rec
          BY <1>5, <2>3, StoreDeleteEffect
      <3>2. QED
          BY <1>3, <3>1 DEF AskedInv
    <2>4. QED
        BY <2>1, <2>2, <2>3, StepSaving
  <1>6. ASSUME NEW r \in queue' PROVE FlaggedIsAsked(r)' /\ r.pkOut
      BY <1>3, <1>6, StepQueue DEF AskedInv
  <1>7. QED
      BY <1>4, <1>5, <1>6, StepTaskAsked DEF AskedInv
-----------------------------------------------------------------------------
(* No e-mail is lost.                                                      *)

(* A message leaves the Outbox into the hands of a goroutine, or the IMAP  *)
(* client removes it.                                                      *)
LEMMA StepLeaves ==
    ASSUME TypeOK, [Next]_vars, NEW r \in outbox, r \notin outbox'
    PROVE  \/ \E t \in DOMAIN task : /\ saveDelete(t) \/ moveDelete(t)
                                     /\ r \in Stored(task[t].uid)
           \/ expunge(r)
           \/ \E s \in saving : storeDelete(s) /\ r \in Stored(s.rec.uid)
  <1>1. ASSUME NEW t \in DOMAIN task, saveNew(t) \/ saveInsert(t) PROVE FALSE
      BY <1>1, BoxEffects
  <1>2. ASSUME \/ \E m \in Mails : DeliverFromSMTP(m)
               \/ \E q \in outbox : storeRead(q)
               \/ \E s \in saving : storeInsert(s) \/ storeFails(s)
               \/ restart \/ Elsewhere
        PROVE  FALSE
      BY <1>2 DEF DeliverFromSMTP, storeRead, storeInsert, storeFails, restart, Elsewhere
  <1>3. ASSUME NEW t \in DOMAIN task, saveDelete(t) \/ moveDelete(t)
        PROVE  r \in Stored(task[t].uid)
      BY <1>3, BoxEffects
  <1>4. ASSUME NEW q \in outbox, expunge(q) PROVE q = r
      BY <1>4 DEF expunge
  <1>5. ASSUME NEW s \in saving, storeDelete(s) PROVE r \in Stored(s.rec.uid)
      BY <1>5 DEF storeDelete
  <1>6. QED
      BY <1>1, <1>2, <1>3, <1>4, <1>5, StepElsewhere DEF Next, TaskStep, HandlerStep, Failing

(* A goroutine that carries a message puts it down or loses it, or the     *)
(* program ends.                                                           *)
LEMMA StepCarried ==
    ASSUME TypeOK, OrdersInv, [Next]_vars, NEW t \in DOMAIN task, Carried(t)
    PROVE  \/ t \in DOMAIN task' /\ Carried(t)'
           \/ saveInsert(t) \/ moveAdd(t) \/ restart \/ task[t].mail \in dropped'
  <1> DEFINE Goal == \/ t \in DOMAIN task' /\ Carried(t)'
                     \/ saveInsert(t) \/ moveAdd(t) \/ restart \/ task[t].mail \in dropped'
  <1>1. task[t].pc \in {"insReq", "insMsg", "insDone", "moveAdd"}
      BY DEF Carried
  <1>2. ASSUME t \in DOMAIN task', task'[t] = task[t] PROVE Goal
      BY <1>1, <1>2 DEF Carried
  <1>3. ASSUME NEW u \in DOMAIN task, u # t, NEW uid, NEW pkOut, NEW ackExp, NEW ack, NEW pc,
               Becomes(u, uid, pkOut, ackExp, ack, pc)
        PROVE  Goal
      BY <1>2, <1>3 DEF Becomes
  <1> HIDE DEF Goal
  <1>4. ASSUME NEW uid, NEW mail, NEW pkOut, NEW ackExp, NEW ack,
               Grows(uid, mail, pkOut, ackExp, ack)
        PROVE  Goal
      BY <1>2, <1>4 DEF Grows
  <1>5. ASSUME NEW m \in Mails, DeliverFromSMTP(m) PROVE Goal
      BY <1>4, <1>5, DeliverFromSMTPEffect
  <1>6. ASSUME processNext PROVE Goal
      BY <1>4, <1>6, ProcessNextEffect DEF processNext
  <1>7. ASSUME NEW u \in DOMAIN task, requestKey(u) PROVE Goal
    <2>1. u # t
        BY <1>1, <1>7 DEF requestKey
    <2>2. QED
        BY <1>3, <1>7, <2>1, RequestKeyEffect
  <1>8. ASSUME NEW u \in DOMAIN task, generateAck(u) PROVE Goal
    <2>1. u # t
        BY <1>1, <1>8 DEF generateAck, KeyFound
    <2>2. QED
        BY <1>3, <1>8, <2>1, GenerateAckEffect
  <1>9. ASSUME NEW u \in DOMAIN task, generateObject(u) PROVE Goal
    <2>1. u # t
        BY <1>1, <1>9 DEF generateObject, KeyFound
    <2>2. QED
        BY <1>3, <1>9, <2>1, GenerateObjectEffect
  <1>10. ASSUME NEW u \in DOMAIN task, saveNew(u) PROVE Goal
    <2>1. u # t
        BY <1>1, <1>10, SaveNewEffect
    <2>2. QED
        BY <1>3, <1>10, <2>1, SaveNewEffect
  <1>11. ASSUME NEW u \in DOMAIN task, saveDelete(u) PROVE Goal
    <2>1. u # t
        BY <1>1, <1>11, SaveDeleteEffect
    <2>2. QED
        BY <1>3, <1>11, <2>1, SaveDeleteEffect
  <1>12. ASSUME NEW u \in DOMAIN task, saveInsert(u) PROVE Goal
    <2>1. CASE u = t
        BY <1>12, <2>1 DEF Goal
    <2>2. CASE u # t
        BY <1>3, <1>12, <2>2, SaveInsertEffect
    <2>3. QED
        BY <2>1, <2>2
  <1>13. ASSUME NEW u \in DOMAIN task,
                generateFails(u) \/ runMsg(u) \/ send(u) \/ moveRead(u) \/ moveDelete(u)
         PROVE  Goal
    <2>1. u # t
        BY <1>1, <1>13 DEF generateFails, runMsg, send, moveRead, moveDelete
    <2>2. QED
        BY <1>3, <1>13, <2>1, GotoEffects
  <1>14. ASSUME NEW u \in DOMAIN task, moveAdd(u) PROVE Goal
    <2>1. CASE u = t
        BY <1>14, <2>1 DEF Goal
    <2>2. CASE u # t
        BY <1>3, <1>14, <2>2, GotoEffects
    <2>3. QED
        BY <2>1, <2>2
  <1>15. ASSUME NEW o \in DOMAIN orders, powDone(o) PROVE Goal
    <2>1. orders[o].task \in DOMAIN task /\ task[orders[o].task].pc = "wait"
        BY <1>15, OrderFacts DEF powDone, Call, OrdersInv, Live, OrderOf
    <2>2. orders[o].task # t
        BY <1>1, <2>1
    <2>3. t \in DOMAIN task' /\ task'[t] = task[t]
        BY <1>15, <2>2, PowDoneEffect DEF Becomes
    <2>4. QED
        BY <1>2, <2>3
  <1>16. ASSUME QuietStep \/ UNCHANGED vars PROVE Goal
      BY <1>2, <1>16, QuietEffect DEF vars
  <1>17. ASSUME restart PROVE Goal
      BY <1>17 DEF Goal
  <1>18. ASSUME NEW u \in DOMAIN task, Failing(u) PROVE Goal
    <2>1. CASE u = t
        BY <1>1, <1>18, <2>1, FailingEffect DEF Goal
    <2>2. CASE u # t
        BY <1>3, <1>18, <2>2, FailingEffect
    <2>3. QED
        BY <2>1, <2>2
  <1>19. ASSUME NEW m \in Mails, addNewFails(m) PROVE Goal
      BY <1>4, <1>19, AddNewFailsEffect
  <1>20. Goal
      BY <1>5, <1>6, <1>7, <1>8, <1>9, <1>10, <1>11, <1>12, <1>13, <1>14, <1>15, <1>16, <1>17,
         <1>18, <1>19 DEF Next, TaskStep, HandlerStep, QuietStep, Failing
  <1>21. QED
      BY <1>20 DEF Goal

(* A Save that has the message puts it back or loses it, or the program    *)
(* ends.                                                                   *)
LEMMA StepHeld ==
    ASSUME TypeOK, [Next]_vars, NEW s \in saving, s.held
    PROVE  s \in saving' \/ storeInsert(s) \/ restart \/ s.rec.mail \in dropped'
  <1>1. \A d \in saving : d = s
      BY DEF TypeOK, FoldersType
  <1>2. ASSUME NEW t \in DOMAIN task, saveNew(t) \/ saveDelete(t) \/ saveInsert(t) \/ moveDelete(t)
        PROVE  saving' = saving
      BY <1>2, BoxEffects
  <1>3. ASSUME \/ \E m \in Mails : DeliverFromSMTP(m)
               \/ \E r \in outbox : expunge(r)
               \/ Elsewhere
        PROVE  saving' = saving
      BY <1>3 DEF DeliverFromSMTP, expunge, Elsewhere
  <1>4. ASSUME \E r \in outbox : storeRead(r) PROVE FALSE
      BY <1>4 DEF storeRead
  <1>5. ASSUME \E d \in saving : storeDelete(d) PROVE FALSE
      BY <1>1, <1>5 DEF storeDelete
  <1>6. ASSUME \E d \in saving : storeFails(d) PROVE s.rec.mail \in dropped'
      BY <1>1, <1>6 DEF storeFails, Drop
  <1>7. QED
      BY <1>1, <1>2, <1>3, <1>4, <1>5, <1>6, StepElsewhere
         DEF Next, TaskStep, HandlerStep, Failing

(* The e-mail of a stored message stays in sight when it leaves.           *)
LEMMA StoredKept ==
    ASSUME TypeOK, MailInv, [Next]_vars, NEW r \in outbox
    PROVE  Kept(r.mail)'
  <1>1. CASE r \in outbox'
      BY <1>1 DEF Kept
  <1>2. ASSUME NEW t \in DOMAIN task, saveDelete(t), r \in Stored(task[t].uid)
        PROVE  Kept(r.mail)'
    <2>1. t \in DOMAIN task' /\ task'[t].mail = task[t].mail
          /\ task'[t].pc \in {"insReq", "insMsg", "insDone"}
        BY <1>2, SaveDeleteEffect DEF Becomes
    <2>2. task[t].mail = r.mail
        BY <1>2 DEF MailInv, Stored
    <2>3. QED
        BY <2>1, <2>2 DEF Kept, Carried
  <1>3. ASSUME NEW t \in DOMAIN task, moveDelete(t), r \in Stored(task[t].uid)
        PROVE  Kept(r.mail)'
    <2>1. t \in DOMAIN task' /\ task'[t].mail = task[t].mail /\ task'[t].pc = "moveAdd"
        BY <1>3, GotoEffects DEF Becomes
    <2>2. task[t].mail = r.mail
        BY <1>3 DEF MailInv, Stored
    <2>3. QED
        BY <2>1, <2>2 DEF Kept, Carried
  <1>4. ASSUME expunge(r) PROVE Kept(r.mail)'
      BY <1>4 DEF expunge, Kept
  <1>5. ASSUME NEW s \in saving, storeDelete(s), r \in Stored(s.rec.uid)
        PROVE  Kept(r.mail)'
    <2>1. PICK d \in saving' : d.rec = s.rec /\ d.held
        BY <1>5, StoreDeleteEffect
    <2>2. s.rec.mail = r.mail
        BY <1>5 DEF MailInv, Stored
    <2>3. QED
        BY <2>1, <2>2 DEF Kept
  <1>6. QED
      BY <1>1, <1>2, <1>3, <1>4, <1>5, StepLeaves

(* What was filed stays filed.                                             *)
LEMMA FiledKept ==
    ASSUME TypeOK, [Next]_vars, NEW r \in limbo \cup sent
    PROVE  \E q \in limbo' \cup sent' : q.mail = r.mail
  <1>1. ASSUME NEW t \in DOMAIN task, moveAdd(t) PROVE r \in limbo' \cup sent'
      BY <1>1 DEF moveAdd
  <1>2. ASSUME NEW t \in DOMAIN task, DeliverAckReply(t)
        PROVE  \E q \in limbo' \cup sent' : q.mail = r.mail
    <2>1. PICK recs : /\ limbo' = limbo \ recs
                      /\ sent' = sent \cup {[mail |-> q.mail, task |-> q.task] : q \in recs}
        BY <1>2 DEF DeliverAckReply
    <2>2. CASE r \in recs
      <3>1. PICK q : q = [mail |-> r.mail, task |-> r.task]
          OBVIOUS
      <3>2. q \in sent' /\ q.mail = r.mail
          BY <2>1, <2>2, <3>1
      <3>3. QED
          BY <3>2
    <2>3. CASE r \notin recs
        BY <2>1, <2>3
    <2>4. QED
        BY <2>2, <2>3
  <1>3. QED
      BY <1>1, <1>2, StepFiles

LEMMA StepKept ==
    ASSUME TypeOK, OrdersInv, MailInv, MailKept, [Next]_vars
    PROVE  MailKept'
  <1>1. removed \cup exposed \cup dropped \subseteq removed' \cup exposed' \cup dropped' /\ Keeps
      BY StepRecords, StepKeeps
  <1>2. ASSUME NEW t \in DOMAIN task, Carried(t) PROVE Kept(task[t].mail)'
    <2>1. PICK m : m = task[t].mail
        OBVIOUS
    <2>2. t \in DOMAIN task' /\ task'[t].mail = m
        BY <1>1, <2>1 DEF Keeps
    <2>3. CASE Carried(t)'
        BY <2>1, <2>2, <2>3 DEF Kept
    <2>4. CASE saveInsert(t)
      <3>1. PICK q : q = serializeBitmessage(t, task[t].uid)
          OBVIOUS
      <3>2. q \in outbox' /\ q.mail = m
          BY <2>1, <2>4, <3>1, BoxEffects, TaskFacts
      <3>3. QED
          BY <2>2, <3>2 DEF Kept
    <2>5. CASE moveAdd(t)
      <3>1. \E q \in limbo' \cup sent' : q.mail = m
        <4>1. CASE task[t].ackExp
          <5>1. PICK q : q = [uid |-> nextUID.limbo, mail |-> task[t].mail, task |-> t]
              OBVIOUS
          <5>2. q \in limbo' /\ q.mail = m
              BY <2>1, <2>5, <4>1, <5>1 DEF moveAdd
          <5>3. QED
              BY <5>2
        <4>2. CASE ~task[t].ackExp
          <5>1. PICK q : q = [mail |-> task[t].mail, task |-> t]
              OBVIOUS
          <5>2. q \in sent' /\ q.mail = m
              BY <2>1, <2>5, <4>2, <5>1 DEF moveAdd
          <5>3. QED
              BY <5>2
        <4>3. QED
            BY <4>1, <4>2
      <3>2. QED
          BY <2>2, <3>1 DEF Kept
    <2>6. CASE restart
      <3>1. m \in exposed'
          BY <1>2, <2>1, <2>6 DEF restart
      <3>2. QED
          BY <2>2, <3>1 DEF Kept
    <2>7. CASE m \in dropped'
        BY <2>1, <2>2, <2>7 DEF Kept
    <2>8. QED
        BY <1>2, <2>1, <2>3, <2>4, <2>5, <2>6, <2>7, StepCarried
  <1>3. ASSUME NEW s \in saving, s.held PROVE Kept(s.rec.mail)'
    <2>1. CASE s \in saving'
        BY <1>3, <2>1 DEF Kept
    <2>2. CASE storeInsert(s)
        BY <2>2 DEF storeInsert, Kept
    <2>3. CASE restart
        BY <1>3, <2>3 DEF restart, Kept
    <2>4. CASE s.rec.mail \in dropped'
        BY <2>4 DEF Kept
    <2>5. QED
        BY <1>3, <2>1, <2>2, <2>3, <2>4, StepHeld
  <1>4. ASSUME NEW m \in accepted PROVE Kept(m)'
    <2>1. Kept(m)
        BY DEF MailKept
    <2>2. CASE \E r \in outbox : r.mail = m
        BY <2>2, StoredKept
    <2>3. CASE \E r \in limbo \cup sent : r.mail = m
        BY <2>3, FiledKept DEF Kept
    <2>4. CASE \E t \in DOMAIN task : task[t].mail = m /\ Carried(t)
      <3>1. PICK t \in DOMAIN task : task[t].mail = m /\ Carried(t)
          BY <2>4
      <3>2. task'[t].mail = m
          BY <1>1, <3>1 DEF Keeps
      <3>3. QED
          BY <1>2, <3>1, <3>2
    <2>5. CASE \E s \in saving : s.rec.mail = m /\ s.held
        BY <1>3, <2>5
    <2>6. CASE m \in removed \cup exposed \cup dropped
        BY <1>1, <2>6 DEF Kept
    <2>7. QED
        BY <2>1, <2>2, <2>3, <2>4, <2>5, <2>6 DEF Kept
  <1>5. ASSUME NEW m \in accepted', m \notin accepted PROVE Kept(m)'
    <2>1. DeliverFromSMTP(m) \/ addNewFails(m)
      <3>1. ASSUME NEW n \in Mails, DeliverFromSMTP(n) \/ addNewFails(n) PROVE n = m
          BY <1>5, <3>1 DEF DeliverFromSMTP, addNewFails
      <3>2. ASSUME NEW t \in DOMAIN task, TaskStep(t) \/ DeliverAckReply(t) PROVE accepted' = accepted
          BY <3>2, FailingWrites DEF TaskStep, Failing, requestKey, generateAck, generateObject,
             generateFails, panic, saveNew, saveDelete, saveInsert, runMsg, send, moveRead,
             moveDelete, moveAdd, DeliverAckReply
      <3>3. ASSUME \/ powBegin
                   \/ \E o \in DOMAIN orders : powComplete(o) \/ keyRequested(o) \/ powDone(o)
                   \/ HandlerStep \/ \E a \in Addresses : keyArrives(a)
                   \/ \E r \in outbox : expunge(r) \/ storeRead(r)
                   \/ \E s \in saving : storeDelete(s) \/ storeInsert(s) \/ storeFails(s)
                   \/ restart \/ UNCHANGED vars
            PROVE  accepted' = accepted
          BY <3>3 DEF powBegin, powComplete, keyRequested, powDone, HandlerStep, pkTick, processNext,
                  pkRemove, DeliverPublic, keyArrives, expunge, storeRead, storeDelete, storeInsert,
                  storeFails, restart, vars
      <3>4. QED
          BY <1>5, <3>1, <3>2, <3>3 DEF Next
    <2>2. CASE DeliverFromSMTP(m)
      <3>1. PICK r : r = newMessage(m, nextUID.outbox)
          OBVIOUS
      <3>2. r \in outbox' /\ r.mail = m
          BY <2>2, <3>1 DEF DeliverFromSMTP, newMessage
      <3>3. QED
          BY <3>2 DEF Kept
    <2>3. CASE addNewFails(m)
        BY <2>3 DEF addNewFails, Drop, Kept
    <2>4. QED
        BY <2>1, <2>2, <2>3
  <1>6. QED
      BY <1>4, <1>5 DEF MailKept
-----------------------------------------------------------------------------
(* The inductive invariant.                                                *)
IndInv ==
    /\ TypeOK
    /\ OrdersInv
    /\ AckInv
    /\ SendsInv
    /\ FiledInv
    /\ LimboHasAck
    /\ UidInv
    /\ MailInv
    /\ RemovedInv
    /\ FlagInv
    /\ AskedInv
    /\ MailKept

LEMMA InitInv ==
    ASSUME Init
    PROVE  IndInv
  <1>1. TypeOK
      BY InitType
  <1>2. /\ DOMAIN task = {} /\ DOMAIN orders = {}
        /\ outbox = {} /\ limbo = {} /\ sent = {} /\ saving = {} /\ queue = {}
        /\ accepted = {} /\ expunged = {} /\ active = {} /\ owed = {} /\ called = {}
      BY DEF Init, OrdersInit
  <1>3. OrdersInv /\ AckInv /\ LimboHasAck
      BY <1>2 DEF OrdersInv, AckInv, LimboHasAck
  <1>4. SendsInv /\ FiledInv
      BY <1>2 DEF Init, SendsInv, FiledInv, FiledWasSent
  <1>5. UidInv /\ MailInv
      BY <1>2 DEF Init, UidInv, MailInv
  <1>6. RemovedInv /\ FlagInv /\ MailKept
      BY <1>2 DEF RemovedInv, FlagInv, ParkedIsFlagged, MailKept
  <1>7. AskedInv
      BY <1>2 DEF AskedInv, ResentOnlyIfAsked
  <1>8. QED
      BY <1>1, <1>3, <1>4, <1>5, <1>6, <1>7 DEF IndInv

LEMMA StepInv ==
    ASSUME IndInv, [Next]_vars
    PROVE  IndInv'
  <1>1. /\ TypeOK /\ OrdersInv /\ AckInv /\ SendsInv /\ FiledInv /\ LimboHasAck
        /\ UidInv /\ MailInv
        /\ RemovedInv /\ FlagInv /\ AskedInv /\ MailKept
      BY DEF IndInv
  <1>2. TypeOK' /\ OrdersInv' /\ AckInv'
      BY <1>1, StepType, StepOrders, StepAck
  <1>3. SendsInv' /\ FiledInv' /\ LimboHasAck'
      BY <1>1, StepSends, StepFiled, StepLimboAck
  <1>4. UidInv' /\ MailInv' /\ RemovedInv'
      BY <1>1, StepUid, StepRemoved
  <1>5. FlagInv' /\ AskedInv' /\ MailKept'
      BY <1>1, StepFlag, StepAsked, StepKept
  <1>6. QED
      BY <1>2, <1>3, <1>4, <1>5 DEF IndInv

(* The invariant holds of every reachable state.                           *)
THEOREM Invariance == Spec => []IndInv
  BY InitInv, StepInv, PTL DEF Spec

(* The folders, the stores and the goroutines' variables always have their *)
(* types.                                                                  *)
THEOREM TypeCorrect == Spec => []TypeOK
  <1>1. IndInv => TypeOK
      BY DEF IndInv
  <1>2. QED
      BY Invariance, <1>1, PTL

(* The callback chain of a message calls Send at most once (process.go     *)
(* 63-86), for any number of messages, orders and crashes.                 *)
THEOREM SentAtMostOnce == Spec => []SentOnce
  <1>1. IndInv => SentOnce
      BY DEF IndInv, SendsInv, SentOnce
  <1>2. QED
      BY Invariance, <1>1, PTL

(* A message that the IMAP client removed from the Outbox is not sent.     *)
THEOREM RemovedNeverSent == Spec => RemovedIsNotSent
  <1>1. ASSUME IndInv, [Next]_vars
        PROVE  [\A t \in Task : sends'[t] # sends[t] => t \notin expunged]_vars
      BY <1>1, SendNotRemoved DEF IndInv
  <1>2. QED
      BY Invariance, <1>1, PTL DEF Spec, RemovedIsNotSent

(* A goroutine that waits for its proof of work is called back, or its     *)
(* order was thrown away.                                                  *)
THEOREM WaitsAreBacked == Spec => []WaitIsBacked
  <1>1. ASSUME IndInv PROVE WaitIsBacked
    <2> SUFFICES ASSUME NEW t \in DOMAIN task, task[t].pc = "wait"
                 PROVE  \E o \in DOMAIN orders :
                            /\ orders[o].task = t
                            /\ o > taken \/ o \in active \cup owed \cup Discarded
        BY DEF WaitIsBacked
    <2>1. PICK o \in DOMAIN orders : OrderOf(o, t) /\ o \notin called
        BY <1>1 DEF IndInv, OrdersInv
    <2>2. o \in Nat /\ o > 0 /\ taken \in Nat
        BY <1>1, OrderFacts DEF IndInv
    <2>3. o > taken \/ o \in active \cup owed \cup Discarded
        BY <2>1, <2>2 DEF Discarded
    <2>4. QED
        BY <2>1, <2>3 DEF OrderOf
  <1>2. QED
      BY Invariance, <1>1, PTL

(* An e-mail taken from SMTP is never lost, except by the IMAP client, by  *)
(* a crash between a delete and the insert that follows it, or by an       *)
(* insert that fails unnoticed.                                            *)
THEOREM MailAlwaysKept == Spec => []MailKept
  <1>1. IndInv => MailKept
      BY DEF IndInv
  <1>2. QED
      BY Invariance, <1>1, PTL

(* A parked message is flagged on disk, unless a Save of the IMAP client   *)
(* overtook the flag.                                                      *)
THEOREM ParkedAlwaysFlagged == Spec => []ParkedIsFlagged
  <1>1. IndInv => ParkedIsFlagged
      BY DEF IndInv, FlagInv
  <1>2. QED
      BY Invariance, <1>1, PTL

(* Only an e-mail for which a key was requested is ever processed twice.   *)
THEOREM OnlyAskedIsResent == Spec => []ResentOnlyIfAsked
  <1>1. IndInv => ResentOnlyIfAsked
      BY DEF IndInv, AskedInv
  <1>2. QED
      BY Invariance, <1>1, PTL

(* A message of Limbo went out with the ack it waits for.                  *)
THEOREM LimboAlwaysHasAck == Spec => []LimboHasAck
  <1>1. IndInv => LimboHasAck
      BY DEF IndInv
  <1>2. QED
      BY Invariance, <1>1, PTL

(* A message of Limbo or Sent has been handed to Send exactly once, also   *)
(* when writes fail, refreshes interfere and crashes come between.         *)
THEOREM FiledAlwaysSent == Spec => []FiledWasSent
  <1>1. IndInv => FiledWasSent
      BY DEF IndInv, FiledInv
  <1>2. QED
      BY Invariance, <1>1, PTL
=============================================================================

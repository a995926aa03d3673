------------------------------ MODULE Outgoing ------------------------------
(***************************************************************************)
(* An outgoing message, from the SMTP client to the network: the user's    *)
(* process function (user/process.go, user/user.go, user/serverops.go),    *)
(* the public key requests of the server (server.go, serverops.go,         *)
(* store/pkrequests.go) and the proof-of-work manager, here the abstract   *)
(* order service that module Pow implements.                               *)
(*                                                                         *)
(* A task is one *email.Bmail in memory together with the goroutine that   *)
(* runs process, or a callback of it, on that pointer.  It is created by   *)
(* an SMTP submission or by DeliverPublic, which decodes a stored message  *)
(* into a fresh Bmail.  A stored message is a record of the Outbox, Limbo  *)
(* or Sent folder.  saveBitmessage replaces a stored message with a        *)
(* delete and an insert, two transactions, and Move with a delete in one   *)
(* folder and an insert in another, so other goroutines and a crash can    *)
(* come between.  The IMAP client of the user works on the Outbox at the   *)
(* same time: it stores flags, which replaces a message, and expunges.     *)
(* IMAP, SMTP and the delete of Move take the lock of the Outbox; process  *)
(* and the read of Move do not.                                            *)
(*                                                                         *)
(* Every write to a folder can fail.  Insertions and deletions are single  *)
(* steps here; module Folder has the steps inside them, with the overlaps  *)
(* that give ErrDuplicateID, one of the ways in which an insert fails.     *)
(***************************************************************************)
EXTENDS PowOrders, Sequences, FiniteSets

CONSTANTS
    Mails,          \* e-mails submitted over SMTP
    Routes,         \* what the e-mails of a behaviour may be addressed to
    Addresses,      \* Bitmessage addresses of recipients
    AckBehavior,    \* addresses whose public key has the ack behaviour bit
    KnownKeys,      \* addresses whose public key bmd has from the start
    Broadcast,      \* email.Broadcast, the e-mail address for broadcasts
    NoAddress,      \* the empty string
    Wirings,        \* does NewUser keep its arguments pm and expiration?  It
                    \* does not, so the program has {FALSE}; TRUE is what its
                    \* callers mean by handing them over
    Faults,         \* the failures of a run, a subset of FaultKinds
    MaxFailures,    \* bound on the writes, sends and lookups of keys that fail
    MaxTasks,       \* bound on the Bmail values in memory over a behaviour
    MaxRestarts,    \* bound on the crashes of a behaviour
    MaxIMAP         \* bound on the operations of the IMAP client

FaultKinds == {"rpc", "send", "expunge", "store", "disk"}

ASSUME OutgoingAssumption ==
    /\ Routes \subseteq [Mails -> Addresses \cup {Broadcast}]
    /\ AckBehavior \subseteq Addresses
    /\ KnownKeys \subseteq Addresses
    /\ Broadcast \notin Addresses
    /\ NoAddress \notin Addresses \cup {Broadcast}
    /\ Wirings \subseteq BOOLEAN
    /\ Faults \subseteq FaultKinds
    /\ MaxFailures \in Nat
    /\ MaxTasks \in Nat
    /\ MaxRestarts \in Nat
    /\ MaxIMAP \in Nat

VARIABLES
    wired,      \* does the User have its pm and expiration?
    To,         \* the Bitmessage address each e-mail is for, or Broadcast
    accepted,   \* e-mails taken from SMTP
    task,       \* sequence of tasks
    outbox,     \* disk: stored messages of the Outbox
    limbo,      \* disk: stored messages of Limbo
    sent,       \* disk: stored messages of Sent
    nextUID,    \* disk: next id of the Outbox and of Limbo
    saving,     \* IMAP: the Save of the Outbox in progress, if any
    pk,         \* disk: addresses in the public key request store
    known,      \* bmd: addresses whose public key it has
    cache,      \* serverOps.pubIDs
    orders,     \* what each proof-of-work order is for
    found,      \* pkRequestHandler: addresses of this tick still to deliver
    target,     \* pkRequestHandler: the address DeliverPublic runs for
    queue,      \* DeliverPublic: matching messages not processed yet
    current,    \* DeliverPublic: the task process runs on, 0 if none
    acks,       \* User.acks: hash of an ack and the uid of its message
    net,        \* tasks whose object bmd took
    sends,      \* history: number of calls of Send per task
    expunged,   \* history: tasks whose stored message IMAP removed unsent
    removed,    \* history: e-mails of which IMAP removed a stored message
    exposed,    \* history: e-mails whose only copy a crash found in memory
    dropped,    \* history: e-mails of which an insert failed unnoticed
    overtaken,  \* history: uids flagged between the read and the write of a Save
    answered,   \* history: tasks whose ack came back
    failures,   \* number of writes, sends and lookups that failed so far
    up,         \* has no goroutine panicked?
    restarts,   \* number of crashes so far
    imap        \* number of operations of the IMAP client so far

boxes == <<outbox, limbo, sent, nextUID, saving>>
handler == <<found, target, queue, current>>
record == <<sends, expunged, removed, exposed, overtaken, answered>>
history == <<record, dropped, failures>>
progress == <<wired, To, up, restarts, imap>>
vars == <<ordersVars, accepted, task, boxes, pk, known, cache, orders, handler,
          acks, net, history, progress>>

Task == 1..MaxTasks

(* email.ToBm: a broadcast has no Bitmessage address.                      *)
ToBm(a) == IF a = Broadcast THEN NoAddress ELSE a

Recipient(t) == ToBm(To[task[t].mail])

(* The protobuf form of a message, which has no uid in it.                 *)
serializeBitmessage(t, uid) ==
    [uid |-> uid, mail |-> task[t].mail, pkOut |-> task[t].pkOut,
     ackExp |-> task[t].ackExp, ack |-> task[t].ack]

decodeBitmessage(r) ==
    [mail |-> r.mail, uid |-> 0, pkOut |-> r.pkOut, ackExp |-> r.ackExp,
     ack |-> r.ack, pc |-> "generate"]

Stored(uid) == {r \in outbox : r.uid = uid}

Goto(t, pc) == task' = [task EXCEPT ![t].pc = pc]

(* The lock of the Outbox is free: the Save of the IMAP client, which      *)
(* keeps it over two transactions, is not between them.                    *)
OutboxFree == \A s \in saving : ~s.held

Init ==
    /\ OrdersInit
    /\ wired \in Wirings
    /\ To \in Routes
    /\ accepted = {}
    /\ task = <<>>
    /\ outbox = {} /\ limbo = {} /\ sent = {}
    /\ nextUID = [outbox |-> 1, limbo |-> 1]
    /\ saving = {}
    /\ pk = {}
    /\ known = KnownKeys
    /\ cache = {}
    /\ orders = <<>>
    /\ found = {} /\ target = NoAddress /\ queue = {} /\ current = 0
    /\ acks = {}
    /\ net = {}
    /\ sends = [t \in Task |-> 0]
    /\ expunged = {} /\ removed = {} /\ exposed = {} /\ dropped = {}
    /\ overtaken = {}
    /\ answered = {}
    /\ failures = 0
    /\ up = TRUE
    /\ restarts = 0
    /\ imap = 0
-----------------------------------------------------------------------------
(* A call to bmd or a write to a folder fails.                             *)
Fails(kind) ==
    /\ kind \in Faults
    /\ failures < MaxFailures
    /\ failures' = failures + 1

(* An insert fails and nobody is told: a copy of the e-mail is gone.       *)
Drop(m) == Fails("disk") /\ dropped' = dropped \cup {m}

(* email.NewBitmessageFromSMTP, with the uid that the message will get.    *)
newMessage(m, uid) ==
    [uid |-> uid, mail |-> m, pkOut |-> FALSE, ackExp |-> FALSE, ack |-> FALSE]

(* DeliverFromSMTP: the message is added to the Outbox, under its lock,    *)
(* and processed by the SMTP goroutine.                                    *)
DeliverFromSMTP(m) ==
    /\ m \notin accepted
    /\ OutboxFree
    /\ Len(task) < MaxTasks
    /\ accepted' = accepted \cup {m}
    /\ LET r == newMessage(m, nextUID.outbox)
       IN /\ outbox' = outbox \cup {r}
          /\ task' = Append(task, [decodeBitmessage(r) EXCEPT !.uid = r.uid])
    /\ nextUID' = [nextUID EXCEPT !.outbox = @ + 1]
    /\ UNCHANGED <<ordersVars, limbo, sent, saving, pk, known, cache, orders, handler,
                   acks, net, history, progress>>

(* The insert fails.  AddNew drops the error, so DeliverFromSMTP goes on,  *)
(* with a message that has no uid and is in no folder.                     *)
addNewFails(m) ==
    /\ m \notin accepted
    /\ OutboxFree
    /\ Len(task) < MaxTasks
    /\ accepted' = accepted \cup {m}
    /\ Drop(m)
    /\ task' = Append(task, decodeBitmessage(newMessage(m, 0)))
    /\ UNCHANGED <<ordersVars, boxes, pk, known, cache, orders, handler, acks, net,
                   record, progress>>

(* powmgr.Run with a callback for task t.                                  *)
RunPow(kind, t) ==
    /\ Submit
    /\ orders' = Append(orders, [kind |-> kind, task |-> t])

(* generateObject when neither the cache nor bmd has the recipient's key:  *)
(* a getpubkey request goes to the proof-of-work queue and process saves   *)
(* the message with PubkeyRequestOutstanding set.                          *)
requestKey(t) ==
    /\ task[t].pc = "generate"
    /\ Recipient(t) \in Addresses \ (cache \cup known)
    /\ RunPow("getpubkey", t)
    /\ task' = [task EXCEPT ![t].pkOut = TRUE, ![t].pc = "saveReq"]
    /\ UNCHANGED <<accepted, boxes, pk, known, cache, handler, acks, net,
                   history, progress>>

KeyFound(t) ==
    /\ task[t].pc = "generate"
    /\ Recipient(t) \in cache \cup known
    /\ wired
    /\ cache' = cache \cup {Recipient(t)}

AckExpected(t) == task[t].ackExp \/ Recipient(t) \in AckBehavior

(* generateObject gives ErrAckMissing: process generates the ack, records  *)
(* the hash of the ack without its nonce and has it worked on.             *)
generateAck(t) ==
    /\ KeyFound(t)
    /\ AckExpected(t) /\ ~task[t].ack
    /\ acks' = acks \cup {[hash |-> [task |-> t, nonce |-> FALSE], uid |-> task[t].uid]}
    /\ RunPow("ack", t)
    /\ task' = [task EXCEPT ![t].ackExp = TRUE, ![t].pc = "wait"]
    /\ UNCHANGED <<accepted, boxes, pk, known, handler, net, history, progress>>

(* Mistake: the message is generated without looking for its ack.          *)
generateObject_noAck(t) ==
    /\ KeyFound(t)
    /\ task' = [task EXCEPT ![t].ackExp = AckExpected(t), ![t].pc = "saveMsg"]
    /\ UNCHANGED <<ordersVars, accepted, boxes, pk, known, orders, handler, acks,
                   net, history, progress>>

(* generateObject gives the object and sendPreparedMessage begins.         *)
generateObject(t) ==
    /\ KeyFound(t)
    /\ AckExpected(t) => task[t].ack
    /\ task' = [task EXCEPT ![t].ackExp = AckExpected(t), ![t].pc = "saveMsg"]
    /\ UNCHANGED <<ordersVars, accepted, boxes, pk, known, orders, handler, acks,
                   net, history, progress>>

(* generateObject fails: bmd does not answer, or the recipient is the      *)
(* broadcast address, whose conversion is an address nobody has.           *)
generateFails(t) ==
    /\ task[t].pc = "generate"
    /\ \/ Recipient(t) = NoAddress /\ UNCHANGED failures
       \/ Recipient(t) \notin cache /\ Fails("rpc")
    /\ Goto(t, "failed")
    /\ UNCHANGED <<ordersVars, accepted, boxes, pk, known, cache, orders, handler,
                   acks, net, record, dropped, progress>>

(* u.expiration and u.pm are nil: the goroutine panics and the program     *)
(* ends.                                                                   *)
panic(t) ==
    /\ task[t].pc = "generate"
    /\ Recipient(t) \in cache \cup known
    /\ ~wired
    /\ up' = FALSE
    /\ UNCHANGED <<ordersVars, accepted, task, boxes, pk, known, cache, orders,
                   handler, acks, net, history, wired, To, restarts, imap>>
-----------------------------------------------------------------------------
(* Mistake: the message is filed after its proof of work without Send.     *)
AfterSave_noSend == [saveReq |-> "parked", saveMsg |-> "runMsg", saveDone |-> "move",
                     insReq |-> "parked", insMsg |-> "runMsg", insDone |-> "move"]

(* What follows each of the three calls of saveBitmessage.                 *)
AfterSave == [saveReq |-> "parked", saveMsg |-> "runMsg", saveDone |-> "send",
              insReq |-> "parked", insMsg |-> "runMsg", insDone |-> "send"]

Inserting == [saveReq |-> "insReq", saveMsg |-> "insMsg", saveDone |-> "insDone"]

(* saveBitmessage of a Bmail without a uid: InsertNewMessage.              *)
saveNew(t) ==
    /\ task[t].pc \in DOMAIN Inserting
    /\ task[t].uid = 0
    /\ outbox' = outbox \cup {serializeBitmessage(t, nextUID.outbox)}
    /\ nextUID' = [nextUID EXCEPT !.outbox = @ + 1]
    /\ task' = [task EXCEPT ![t].uid = nextUID.outbox, ![t].pc = AfterSave[@]]
    /\ UNCHANGED <<ordersVars, accepted, limbo, sent, saving, pk, known, cache, orders,
                   handler, acks, net, history, progress>>

(* Mistake: the error of DeleteMessage is ignored.                         *)
saveDelete_ignoreError(t) ==
    /\ task[t].pc \in DOMAIN Inserting
    /\ task[t].uid # 0
    /\ outbox' = outbox \ Stored(task[t].uid)
    /\ Goto(t, Inserting[task[t].pc])
    /\ UNCHANGED <<ordersVars, accepted, limbo, sent, nextUID, saving, pk, known, cache,
                   orders, handler, acks, net, history, progress>>

(* Mistake: the message must still be there after the delete.              *)
saveDelete_inverted(t) ==
    /\ task[t].pc \in DOMAIN Inserting
    /\ task[t].uid # 0
    /\ outbox' = outbox \ Stored(task[t].uid)
    /\ Goto(t, "failed")
    /\ UNCHANGED <<ordersVars, accepted, limbo, sent, nextUID, saving, pk, known, cache,
                   orders, handler, acks, net, history, progress>>

(* saveBitmessage of a Bmail with a uid: DeleteMessage, which fails when   *)
(* the message is gone.                                                    *)
saveDelete(t) ==
    /\ task[t].pc \in DOMAIN Inserting
    /\ task[t].uid # 0
    /\ outbox' = outbox \ Stored(task[t].uid)
    /\ Goto(t, IF Stored(task[t].uid) = {} THEN "failed" ELSE Inserting[task[t].pc])
    /\ UNCHANGED <<ordersVars, accepted, limbo, sent, nextUID, saving, pk, known, cache,
                   orders, handler, acks, net, history, progress>>

(* InsertNewMessage or DeleteMessage fails, and saveBitmessage returns the *)
(* error.                                                                  *)
saveFails(t) ==
    /\ task[t].pc \in DOMAIN Inserting
    /\ Fails("disk")
    /\ Goto(t, "failed")
    /\ UNCHANGED <<ordersVars, accepted, boxes, pk, known, cache, orders, handler, acks,
                   net, record, dropped, progress>>

(* The second half of saveBitmessage: InsertMessage.                       *)
saveInsert(t) ==
    /\ task[t].pc \in {"insReq", "insMsg", "insDone"}
    /\ outbox' = outbox \cup {serializeBitmessage(t, task[t].uid)}
    /\ Goto(t, AfterSave[task[t].pc])
    /\ UNCHANGED <<ordersVars, accepted, limbo, sent, nextUID, saving, pk, known, cache,
                   orders, handler, acks, net, history, progress>>

(* InsertMessage fails.  Its error is assigned to the err that the branch  *)
(* declares, and the one that is tested after the branch is nil: process   *)
(* goes on with a message that is in no folder.                            *)
insertLost(t) ==
    /\ task[t].pc \in {"insReq", "insMsg", "insDone"}
    /\ Drop(task[t].mail)
    /\ Goto(t, AfterSave[task[t].pc])
    /\ UNCHANGED <<ordersVars, accepted, boxes, pk, known, cache, orders, handler, acks,
                   net, record, progress>>

(* Mistake: the object never reaches the queue.                            *)
runMsg_dropped(t) ==
    /\ task[t].pc = "runMsg"
    /\ Goto(t, "wait")
    /\ UNCHANGED <<ordersVars, accepted, boxes, pk, known, cache, orders, handler,
                   acks, net, history, progress>>

(* sendPreparedMessage hands the object to the proof-of-work queue.        *)
runMsg(t) ==
    /\ task[t].pc = "runMsg"
    /\ RunPow("msg", t)
    /\ Goto(t, "wait")
    /\ UNCHANGED <<accepted, boxes, pk, known, cache, handler, acks, net,
                   history, progress>>

(* u.server.Send: bmd takes the object, or does not and nobody is told.    *)
send(t) ==
    /\ task[t].pc = "send"
    /\ sends' = [sends EXCEPT ![t] = @ + 1]
    /\ \/ net' = net \cup {t} /\ UNCHANGED failures
       \/ Fails("send") /\ UNCHANGED net
    /\ Goto(t, "move")
    /\ UNCHANGED <<ordersVars, accepted, boxes, pk, known, cache, orders, handler,
                   acks, expunged, removed, exposed, dropped, overtaken, answered,
                   progress>>

(* Move: read the stored message, delete it, add it to the other folder.   *)
(* A message that is gone when it is read stays gone.  The read takes no   *)
(* lock, the delete does.                                                  *)
moveRead(t) ==
    /\ task[t].pc = "move"
    /\ Goto(t, IF Stored(task[t].uid) = {} THEN "done" ELSE "moveDelete")
    /\ UNCHANGED <<ordersVars, accepted, boxes, pk, known, cache, orders, handler,
                   acks, net, history, progress>>

moveDelete(t) ==
    /\ task[t].pc = "moveDelete"
    /\ OutboxFree
    /\ outbox' = outbox \ Stored(task[t].uid)
    /\ Goto(t, "moveAdd")
    /\ UNCHANGED <<ordersVars, accepted, limbo, sent, nextUID, saving, pk, known, cache,
                   orders, handler, acks, net, history, progress>>

moveAdd(t) ==
    /\ task[t].pc = "moveAdd"
    /\ \/ /\ task[t].ackExp
          /\ limbo' = limbo \cup {[uid |-> nextUID.limbo, mail |-> task[t].mail, task |-> t]}
          /\ nextUID' = [nextUID EXCEPT !.limbo = @ + 1]
          /\ UNCHANGED sent
       \/ /\ ~task[t].ackExp
          /\ sent' = sent \cup {[mail |-> task[t].mail, task |-> t]}
          /\ UNCHANGED <<limbo, nextUID>>
    /\ Goto(t, "done")
    /\ UNCHANGED <<ordersVars, accepted, outbox, saving, pk, known, cache, orders, handler,
                   acks, net, history, progress>>
(* saveBitmessage ends with refresh, which empties box.uids and fills it   *)
(* anew.  process runs it without the lock, so a goroutine that looks for  *)
(* a uid meanwhile can miss it.  Task u may be in its refresh until it     *)
(* takes its next step.                                                    *)
Refreshing(t) ==
    \E u \in DOMAIN task \ {t} : task[u].pc \in {"parked", "runMsg", "send"}

(* The SMTP goroutine or the IMAP client refreshes under the lock.         *)
RefreshingLocked ==
    \/ \E u \in DOMAIN task : task[u].pc = "generate" /\ task[u].uid # 0 /\ ~task[u].ack
    \/ \E s \in saving : s.held

(* Move does not find the uid: the read leaves the message where it is,    *)
(* the delete leaves it there and says that all went well.                 *)
moveMisses(t) ==
    /\ \/ /\ task[t].pc = "move"
          /\ Refreshing(t) \/ RefreshingLocked
          /\ Goto(t, "done")
       \/ /\ task[t].pc = "moveDelete"
          /\ OutboxFree
          /\ Refreshing(t)
          /\ Goto(t, "moveAdd")
    /\ UNCHANGED <<ordersVars, accepted, boxes, pk, known, cache, orders, handler, acks,
                   net, history, progress>>

(* The delete of Move fails, and the message stays; or its insert fails,   *)
(* which addNew does not tell.                                             *)
moveFails(t) ==
    /\ \/ task[t].pc = "moveDelete" /\ OutboxFree /\ Fails("disk") /\ UNCHANGED dropped
       \/ task[t].pc = "moveAdd" /\ Drop(task[t].mail)
    /\ Goto(t, "done")
    /\ UNCHANGED <<ordersVars, accepted, boxes, pk, known, cache, orders, handler, acks,
                   net, record, progress>>
-----------------------------------------------------------------------------
(* The proof-of-work manager begins and completes orders.                  *)
powBegin ==
    /\ Begin
    /\ UNCHANGED <<accepted, task, boxes, pk, known, cache, orders, handler, acks,
                   net, history, progress>>

powComplete(o) ==
    /\ Complete(o)
    /\ UNCHANGED <<accepted, task, boxes, pk, known, cache, orders, handler, acks,
                   net, history, progress>>

(* The callback of getOrRequestPublicIdentity sends the request, and       *)
(* whether or not bmd took it records the address in the request store.    *)
keyRequested(o) ==
    /\ orders[o].kind = "getpubkey"
    /\ Call(o)
    /\ pk' = pk \cup {Recipient(orders[o].task)}
    /\ UNCHANGED <<accepted, task, boxes, known, cache, orders, handler, acks, net,
                   history, progress>>

(* Mistake: the callback goroutine can run again.                          *)
powDone_again(o) ==
    /\ orders[o].kind # "getpubkey"
    /\ o \in owed
    /\ LET t == orders[o].task
       IN task' = IF orders[o].kind = "ack"
                  THEN [task EXCEPT ![t].ack = TRUE, ![t].pc = "generate"]
                  ELSE [task EXCEPT ![t].pc = "saveDone"]
    /\ UNCHANGED <<ordersVars, accepted, boxes, pk, known, cache, orders, handler,
                   acks, net, history, progress>>

(* The callbacks of process: the ack is added to the message and the       *)
(* object is generated again; or the object is ready, and the message is   *)
(* saved before it is sent.                                                *)
powDone(o) ==
    /\ orders[o].kind # "getpubkey"
    /\ Call(o)
    /\ LET t == orders[o].task
       IN task' = IF orders[o].kind = "ack"
                  THEN [task EXCEPT ![t].ack = TRUE, ![t].pc = "generate"]
                  ELSE [task EXCEPT ![t].pc = "saveDone"]
    /\ UNCHANGED <<accepted, boxes, pk, known, cache, orders, handler, acks, net,
                   history, progress>>
-----------------------------------------------------------------------------
(* process has handed the ack or the message to the proof-of-work queue,   *)
(* its last statement; what the callbacks do later is not its result.      *)
Queued(t) ==
    \E o \in DOMAIN orders : orders[o].task = t /\ orders[o].kind # "getpubkey"

(* process has returned to its caller, and has returned an error.          *)
Returned(t) == Queued(t) \/ task[t].pc \in {"parked", "failed"}

Failed(t) == ~Queued(t) /\ task[t].pc = "failed"

(* pkRequestHandler: at a tick, the addresses of the request store whose   *)
(* public key bmd has by now, those whose call failed excepted.            *)
pkTick ==
    /\ found = {} /\ target = NoAddress
    /\ found' \in SUBSET (pk \cap known) \ {{}}
    /\ "rpc" \notin Faults => found' = pk \cap known
    /\ UNCHANGED <<ordersVars, accepted, task, boxes, pk, known, cache, orders,
                   target, queue, current, acks, net, history, progress>>

(* Mistake: every message of the Outbox for a is collected.                *)
DeliverPublic_all(a) ==
    /\ target = NoAddress
    /\ a \in found
    /\ target' = a
    /\ queue' = {r \in outbox : ToBm(To[r.mail]) = a}
    /\ UNCHANGED <<ordersVars, accepted, task, boxes, pk, known, cache, orders,
                   found, current, acks, net, history, progress>>

(* DeliverPublic collects the messages of the Outbox that wait for a.      *)
DeliverPublic(a) ==
    /\ target = NoAddress
    /\ a \in found
    /\ target' = a
    /\ queue' = {r \in outbox : r.pkOut /\ ToBm(To[r.mail]) = a}
    /\ UNCHANGED <<ordersVars, accepted, task, boxes, pk, known, cache, orders,
                   found, current, acks, net, history, progress>>

(* DeliverPublic processes them one after the other, in the order of their *)
(* ids, as messages without a uid, and gives up when one fails.            *)
processNext ==
    /\ target # NoAddress
    /\ current # 0 => Returned(current) /\ ~Failed(current)
    /\ Len(task) < MaxTasks
    /\ \E r \in queue :
        /\ \A other \in queue : r.uid <= other.uid
        /\ queue' = queue \ {r}
        /\ task' = Append(task, decodeBitmessage(r))
    /\ current' = Len(task) + 1
    /\ UNCHANGED <<ordersVars, accepted, boxes, pk, known, cache, orders, found,
                   target, acks, net, history, progress>>

(* DeliverPublic has returned, with or without an error: the address is    *)
(* removed from the request store.                                         *)
pkRemove ==
    /\ target # NoAddress
    /\ current # 0 => Returned(current)
    /\ queue = {} \/ (current # 0 /\ Failed(current))
    /\ pk' = pk \ {target}
    /\ found' = found \ {target}
    /\ target' = NoAddress
    /\ queue' = {}
    /\ current' = 0
    /\ UNCHANGED <<ordersVars, accepted, task, boxes, known, cache, orders, acks,
                   net, history, progress>>
-----------------------------------------------------------------------------
(* bmd receives the public key of an address.                              *)
keyArrives(a) ==
    /\ a \notin known
    /\ known' = known \cup {a}
    /\ UNCHANGED <<ordersVars, accepted, task, boxes, pk, cache, orders, handler,
                   acks, net, history, progress>>

(* The IMAP client removes a message from the Outbox.                      *)
expunge(r) ==
    /\ "expunge" \in Faults /\ imap < MaxIMAP
    /\ imap' = imap + 1
    /\ OutboxFree
    /\ outbox' = outbox \ {r}
    /\ expunged' = expunged \cup
         {t \in DOMAIN task : task[t].uid = r.uid /\ task[t].pc \notin
            {"send", "move", "moveDelete", "moveAdd"}}
    /\ removed' = removed \cup {r.mail}
    /\ UNCHANGED <<ordersVars, accepted, task, limbo, sent, nextUID, saving, pk, known,
                   cache, orders, handler, acks, net, sends, exposed, overtaken, answered,
                   dropped, failures, wired, To, up, restarts>>

(* Mistake: Save does not take over the state of the previous message.     *)
storeRead_newState(r) ==
    /\ "store" \in Faults /\ imap < MaxIMAP
    /\ imap' = imap + 1
    /\ saving = {}
    /\ saving' = {[rec |-> [r EXCEPT !.ack = FALSE, !.pkOut = FALSE, !.ackExp = FALSE],
                   was |-> r.pkOut, held |-> FALSE]}
    /\ UNCHANGED <<ordersVars, accepted, task, outbox, limbo, sent, nextUID, pk, known,
                   cache, orders, handler, acks, net, history, wired, To, up, restarts>>

(* The IMAP client stores flags: Save makes a message anew from the e-mail *)
(* the client has, without an ack, and takes the state from the message it *)
(* finds in the Outbox.                                                    *)
storeRead(r) ==
    /\ "store" \in Faults /\ imap < MaxIMAP
    /\ imap' = imap + 1
    /\ saving = {}
    /\ saving' = {[rec |-> [r EXCEPT !.ack = FALSE], was |-> r.pkOut, held |-> FALSE]}
    /\ UNCHANGED <<ordersVars, accepted, task, outbox, limbo, sent, nextUID, pk, known,
                   cache, orders, handler, acks, net, history, wired, To, up, restarts>>

(* Then, with the lock taken, saveBitmessage deletes the message, or gives *)
(* up if it is gone.                                                       *)
storeDelete(s) ==
    /\ ~s.held
    /\ outbox' = outbox \ Stored(s.rec.uid)
    /\ saving' = {d \in {[s EXCEPT !.held = TRUE]} : Stored(s.rec.uid) # {}}
    /\ overtaken' = overtaken \cup
         {r.uid : r \in {d \in Stored(s.rec.uid) : d.pkOut /\ ~s.was}}
    /\ UNCHANGED <<ordersVars, accepted, task, limbo, sent, nextUID, pk, known, cache,
                   orders, handler, acks, net, sends, expunged, removed, exposed,
                   answered, dropped, failures, progress>>

storeInsert(s) ==
    /\ s.held
    /\ outbox' = outbox \cup {s.rec}
    /\ saving' = {}
    /\ UNCHANGED <<ordersVars, accepted, task, limbo, sent, nextUID, pk, known, cache,
                   orders, handler, acks, net, history, progress>>

(* The delete fails, and Save returns the error; or the insert fails, and  *)
(* saveBitmessage loses the error.                                         *)
storeFails(s) ==
    /\ \/ ~s.held /\ Fails("disk") /\ UNCHANGED dropped
       \/ s.held /\ Drop(s.rec.mail)
    /\ saving' = {}
    /\ UNCHANGED <<ordersVars, accepted, task, outbox, limbo, sent, nextUID, pk, known,
                   cache, orders, handler, acks, net, record, progress>>

(* The recipient's client sends the ack back: newMessage hashes the ack it *)
(* receives, which has its nonce, and DeliverAckReply moves the message of *)
(* Limbo with the recorded uid to Sent.                                    *)
DeliverAckReply(t) ==
    /\ t \in net /\ task[t].ack /\ t \notin answered
    /\ answered' = answered \cup {t}
    /\ LET uids == {e.uid : e \in {d \in acks : d.hash = [task |-> t, nonce |-> TRUE]}}
           recs == {r \in limbo : r.uid \in uids}
       IN /\ limbo' = limbo \ recs
          /\ sent' = sent \cup {[mail |-> r.mail, task |-> r.task] : r \in recs}
    /\ UNCHANGED <<ordersVars, accepted, task, outbox, nextUID, saving, pk, known, cache,
                   orders, handler, acks, net, sends, expunged, removed, exposed, overtaken,
                   dropped, failures, progress>>

(* A copy of the message that only a goroutine has.                        *)
Carried(t) == task[t].pc \in {"insReq", "insMsg", "insDone", "moveAdd"}

(* A crash and a new start: the folders and the request store remain.      *)
(* newServer, NewUser and refresh queue nothing again.                     *)
restart ==
    /\ restarts < MaxRestarts
    /\ restarts' = restarts + 1
    /\ exposed' = exposed \cup {task[t].mail : t \in {u \in DOMAIN task : Carried(u)}}
                          \cup {s.rec.mail : s \in {d \in saving : d.held}}
    /\ task' = [t \in DOMAIN task |-> [task[t] EXCEPT !.pc = "done"]]
    /\ taken' = submitted /\ active' = {} /\ owed' = {}
    /\ cache' = {}
    /\ acks' = {}
    /\ found' = {} /\ target' = NoAddress /\ queue' = {} /\ current' = 0
    /\ saving' = {}
    /\ up' = TRUE
    /\ UNCHANGED <<submitted, called, wired, To, accepted, outbox, limbo, sent, nextUID, pk,
                   known, orders, net, sends, expunged, removed, dropped, failures, overtaken,
                   answered, imap>>

TaskStep(t) ==
    \/ requestKey(t) \/ generateAck(t) \/ generateObject(t) \/ generateFails(t)
    \/ panic(t)
    \/ saveNew(t) \/ saveDelete(t) \/ saveInsert(t)
    \/ runMsg(t) \/ send(t) \/ moveRead(t) \/ moveDelete(t) \/ moveAdd(t)
    \/ saveFails(t) \/ insertLost(t) \/ moveMisses(t) \/ moveFails(t)

HandlerStep ==
    \/ pkTick \/ processNext \/ pkRemove
    \/ \E a \in Addresses : DeliverPublic(a)

Next ==
    \/ /\ up
       /\ \/ \E m \in Mails : DeliverFromSMTP(m) \/ addNewFails(m)
          \/ \E t \in DOMAIN task : TaskStep(t) \/ DeliverAckReply(t)
          \/ powBegin
          \/ \E o \in DOMAIN orders : powComplete(o) \/ keyRequested(o) \/ powDone(o)
          \/ HandlerStep
          \/ \E a \in Addresses : keyArrives(a)
          \/ \E r \in outbox : expunge(r) \/ storeRead(r)
          \/ \E s \in saving : storeDelete(s) \/ storeInsert(s) \/ storeFails(s)
    \/ restart

Spec == Init /\ [][Next]_vars

(* Goroutines that can run are scheduled, and the ticker of                *)
(* pkRequestHandler keeps firing.  Clients, recipients and crashes are     *)
(* free.                                                                   *)
Fairness ==
    /\ \A t \in Task : WF_vars(up /\ t \in DOMAIN task /\ TaskStep(t))
    /\ WF_vars(up /\ powBegin)
    /\ \A o \in Order : WF_vars(up /\ o \in DOMAIN orders /\
                            (powComplete(o) \/ keyRequested(o) \/ powDone(o)))
    /\ WF_vars(up /\ HandlerStep)

FairSpec == Spec /\ Fairness
-----------------------------------------------------------------------------

StoredMessage ==
    [uid : Nat, mail : Mails, pkOut : BOOLEAN, ackExp : BOOLEAN, ack : BOOLEAN]

PC == {"generate", "saveReq", "insReq", "saveMsg", "insMsg", "runMsg", "wait",
       "saveDone", "insDone", "send", "move", "moveDelete", "moveAdd", "parked",
       "failed", "done"}

TaskRecord ==
    [uid : Nat, mail : Mails, pkOut : BOOLEAN, ackExp : BOOLEAN, ack : BOOLEAN, pc : PC]

TaskType ==
    /\ To \in Routes
    /\ task \in Seq(TaskRecord) /\ Len(task) <= MaxTasks

(* A key is requested for an address only, never for a broadcast.          *)
OrdersType ==
    /\ submitted = Len(orders) /\ taken \in 0..submitted
    /\ active \cup owed \cup called \subseteq 1..taken
    /\ orders \in Seq([kind : {"getpubkey", "ack", "msg"}, task : DOMAIN task])
    /\ \A o \in DOMAIN orders :
         orders[o].kind = "getpubkey" => Recipient(orders[o].task) \in Addresses

(* The IMAP client has one Save in progress at most.                       *)
FoldersType ==
    /\ nextUID \in [outbox : Nat, limbo : Nat]
    /\ outbox \cup queue \subseteq StoredMessage
    /\ limbo \subseteq [uid : Nat, mail : Mails, task : DOMAIN task]
    /\ sent \subseteq [mail : Mails, task : DOMAIN task]
    /\ saving \subseteq [rec : StoredMessage, was : BOOLEAN, held : BOOLEAN]
    /\ \A s1, s2 \in saving : s1 = s2

StoresType ==
    /\ accepted \subseteq Mails
    /\ pk \cup known \cup cache \cup found \subseteq Addresses
    /\ target \in Addresses \cup {NoAddress}
    /\ current \in 0..Len(task)
    /\ net \cup expunged \subseteq DOMAIN task
    /\ sends \in [Task -> Nat]

(* The types of the folders, the stores and the goroutines' variables.     *)
TypeOK == TaskType /\ OrdersType /\ FoldersType /\ StoresType

(* The e-mail is in a folder or in the hands of a goroutine that is about  *)
(* to put it into one, or its loss is on record.                           *)
Kept(m) ==
    \/ \E r \in outbox \cup limbo \cup sent : r.mail = m
    \/ \E t \in DOMAIN task : task[t].mail = m /\ Carried(t)
    \/ \E s \in saving : s.rec.mail = m /\ s.held
    \/ m \in removed \cup exposed \cup dropped

(* An e-mail taken from SMTP is always in a folder or in the hands of a    *)
(* goroutine that is about to put it into one.  It can be lost in three    *)
(* ways only: the IMAP client removed it; a crash came between the delete  *)
(* and the insert of a save or of a move; or such an insert, or the first  *)
(* one, failed, which nobody is told (mailbox.go 547, 654-672).            *)
MailKept == \A m \in accepted : Kept(m)

(* The callback chain of a message sends it at most once, whatever the     *)
(* proof-of-work manager, the request handler and crashes do.              *)
SentOnce == \A t \in Task : sends[t] <= 1

(* A message that the IMAP client removed from the Outbox before its proof *)
(* of work was done and saved is not sent: the save that precedes the send *)
(* fails (process.go 63-66).  That is so of each task; a copy of the       *)
(* message without a uid that DeliverPublic had already read is another    *)
(* task, which is inserted anew and sent.                                  *)
RemovedIsNotSent ==
    [][\A t \in Task : sends'[t] # sends[t] => t \notin expunged]_vars

(* A message that process has parked to wait for its recipient's key is    *)
(* flagged on disk, where DeliverPublic looks for it, unless a Save of the *)
(* IMAP client wrote back the state from before (mailbox.go 716-732).      *)
ParkedIsFlagged ==
    \A t \in DOMAIN task : task[t].pc = "parked" =>
        \A r \in Stored(task[t].uid) : r.pkOut \/ r.uid \in overtaken

(* A getpubkey request was made for the e-mail.                            *)
Asked(m) ==
    \E o \in DOMAIN orders :
        orders[o].kind = "getpubkey" /\ task[orders[o].task].mail = m

(* The flag is never cleared (serverops.go 120), so an e-mail may be sent  *)
(* once more with each delivery of its key.  An e-mail that found its key  *)
(* at once is not among them: only one task ever sends it.                 *)
ResentOnlyIfAsked ==
    \A t, u \in DOMAIN task :
        (task[t].mail = task[u].mail /\ t # u) => Asked(task[t].mail)

(* A message that waits in Limbo for an ack went out with an ack.          *)
LimboHasAck == \A r \in limbo : task[r.task].ack

(* A task that waits for its proof of work has an order that will call it  *)
(* back, or had one that the manager threw away.                           *)
WaitIsBacked ==
    \A t \in DOMAIN task : task[t].pc = "wait" =>
        \E o \in DOMAIN orders :
            /\ orders[o].task = t
            /\ o > taken \/ o \in active \cup owed \cup Discarded

(* A message of Limbo or Sent has been handed to Send, once: none is filed *)
(* as sent before its proof of work is done (process.go 59-85).  Whether   *)
(* bmd took it, nobody knows: the result of Send is not looked at, so a    *)
(* message of Limbo need not be "out in the network" as user/defaults.go   *)
(* 47-48 says.                                                             *)
FiledWasSent == \A r \in limbo \cup sent : sends[r.task] = 1
-----------------------------------------------------------------------------
(* The parts of the inductive invariant behind the safety properties.      *)

(* The order will still call back.                                         *)
Live(o) == o > taken \/ o \in active \cup owed

(* The order has a callback of process, for an ack or a message.           *)
OrderOf(o, t) == orders[o].kind # "getpubkey" /\ orders[o].task = t

(* A task waits exactly for one order that has not called back: what is    *)
(* live calls back a task that waits, and no two orders share a task.      *)
OrdersInv ==
    /\ active \cap owed = {}
    /\ (active \cup owed) \cap called = {}
    /\ \A o \in DOMAIN orders : \A t \in DOMAIN task :
         (Live(o) /\ OrderOf(o, t)) => task[t].pc = "wait"
    /\ \A o, p \in DOMAIN orders : \A t \in DOMAIN task :
         (Live(o) /\ Live(p) /\ OrderOf(o, t) /\ OrderOf(p, t)) => o = p
    /\ \A t \in DOMAIN task : task[t].pc = "wait" =>
         \E o \in DOMAIN orders : OrderOf(o, t) /\ o \notin called

(* The places after generateObject has given the object.                   *)
Generated == {"saveMsg", "insMsg", "runMsg", "saveDone", "insDone", "send", "move",
              "moveDelete", "moveAdd"}

(* A message is generated only with the ack that its recipient expects,    *)
(* also while its order is under way.                                      *)
AckInv ==
    /\ \A t \in DOMAIN task :
         task[t].pc \in Generated => (task[t].ackExp => task[t].ack)
    /\ \A o \in DOMAIN orders : \A t \in DOMAIN task :
         (Live(o) /\ OrderOf(o, t) /\ orders[o].kind = "msg") =>
            (task[t].ackExp => task[t].ack)

(* The places after Send.                                                  *)
Moving == {"move", "moveDelete", "moveAdd"}

(* Nothing has been sent before the call of Send, and once after it.       *)
SendsInv ==
    \A t \in Task :
        \/ sends[t] = 0
        \/ sends[t] = 1 /\ t \in DOMAIN task /\ task[t].pc \in Moving \cup {"done"}

(* A message is filed after Send.                                          *)
FiledInv ==
    /\ FiledWasSent
    /\ \A t \in DOMAIN task : task[t].pc \in Moving => sends[t] = 1

(* The places between the delete and the insert of a save.                 *)
Between == {"insReq", "insMsg", "insDone"}

(* The stored message with this uid is in the hands of a goroutine.        *)
InHand(u) ==
    \/ \E t \in DOMAIN task : task[t].uid = u /\ task[t].pc \in Between
    \/ \E s \in saving : s.rec.uid = u /\ s.held

(* A uid is that of one message: of one task, of one stored message, and   *)
(* of no stored message while a goroutine has it in its hands.             *)
UidInv ==
    /\ 0 < nextUID.outbox
    /\ \A t \in DOMAIN task :
         task[t].uid < nextUID.outbox /\ (task[t].pc \in Between => task[t].uid # 0)
    /\ \A t, u \in DOMAIN task : task[t].uid = task[u].uid => t = u \/ task[t].uid = 0
    /\ \A r \in outbox : 0 < r.uid /\ r.uid < nextUID.outbox /\ ~InHand(r.uid)
    /\ \A r1, r2 \in outbox : r1.uid = r2.uid => r1 = r2
    /\ \A s \in saving : 0 < s.rec.uid /\ s.rec.uid < nextUID.outbox
    /\ \A s \in saving : \A t \in DOMAIN task :
         (s.held /\ s.rec.uid = task[t].uid) => task[t].pc \notin Between

(* What is known by one uid, in a folder or in memory, is one e-mail.      *)
MailInv ==
    /\ \A r \in outbox : \A t \in DOMAIN task : r.uid = task[t].uid => r.mail = task[t].mail
    /\ \A s \in saving : \A t \in DOMAIN task :
         s.rec.uid = task[t].uid => s.rec.mail = task[t].mail
    /\ \A s \in saving : \A r \in outbox : s.rec.uid = r.uid => s.rec.mail = r.mail

(* The flag of a parked message survives the Saves of the IMAP client that *)
(* read it.                                                                *)
FlagInv ==
    /\ \A t \in DOMAIN task : task[t].pc \in {"saveReq", "insReq"} => task[t].pkOut
    /\ ParkedIsFlagged
    /\ \A s \in saving : s.was = s.rec.pkOut
    /\ \A s \in saving : \A t \in DOMAIN task :
         (s.held /\ task[t].pc = "parked" /\ s.rec.uid = task[t].uid) =>
            s.rec.pkOut \/ s.rec.uid \in overtaken

(* The e-mail was taken from SMTP, and flagged only after a request.       *)
FlaggedIsAsked(r) == r.mail \in accepted /\ (r.pkOut => Asked(r.mail))

AskedInv ==
    /\ \A t \in DOMAIN task : FlaggedIsAsked(task[t])
    /\ \A r \in outbox : FlaggedIsAsked(r)
    /\ \A s \in saving : FlaggedIsAsked(s.rec)
    /\ \A r \in queue : FlaggedIsAsked(r) /\ r.pkOut
    /\ ResentOnlyIfAsked

(* A message that the IMAP client removed does not come back, and its task *)
(* does not get to Send.                                                   *)
RemovedInv ==
    \A t \in expunged :
        /\ task[t].uid # 0
        /\ Stored(task[t].uid) = {}
        /\ ~InHand(task[t].uid)
        /\ task[t].pc # "send"

-----------------------------------------------------------------------------
(* What a comment of the repository says and the code does not do.         *)

(* server.go 457-460: the handler checks "whether the requested identities *)
(* have been received.  If they have, it removes them [...] and processes  *)
(* messages that need that identity".  With the key there, the message is  *)
(* sent, unless the program panics when it tries to.                       *)
KeyedMailIsSent ==
    \A m \in Mails :
        (m \in accepted /\ To[m] \in known) ~>
            (~up \/ \E t \in net : task[t].mail = m)
=============================================================================

------------------------------- MODULE Server -------------------------------
(***************************************************************************)
(* What the server receives from bmd and what it keeps of it: server.go,   *)
(* the object streams of bmrpc/client.go and the counters of store/db.go.  *)
(*                                                                         *)
(* bmd numbers the objects of each type from 1.  A stream hands them over  *)
(* in that order to one goroutine, which calls the handler of the type for *)
(* one object after the other.  The handler first stores the number in a   *)
(* counter in memory; a ticker and Stop save the counters to disk, and a   *)
(* new process asks bmd for the objects from the saved number on.  The     *)
(* number given to bmd is inclusive: GetCounter gives 1 when nothing has   *)
(* been saved.  Module PowOrders stands for the proof-of-work manager that *)
(* newGetpubkey uses.                                                      *)
(***************************************************************************)
EXTENDS PowOrders, Sequences, FiniteSets

CONSTANTS
    Streams,        \* object types received, a subset of AllStreams
    Objects,        \* what bmd may have: for each type, the kinds of its objects
    Subscribed,     \* does the user have broadcast addresses?
    Faults,         \* the failures of a run, a subset of FaultKinds
    MaxSessions     \* bound on the starts of the program

AllStreams == {"msg", "broadcast", "getpubkey"}

FaultKinds == {"insert", "rpc", "stream"}

(* What the handler finds out about an object.  mine: a message or a       *)
(* getpubkey for one of the user's keys, or a broadcast of the first       *)
(* address of the subscriptions.  quiet: a message from a channel or       *)
(* without an ack.  second: a broadcast of another subscribed address.     *)
(* foreign: anything else.                                                 *)
ObjectKinds == {"mine", "quiet", "second", "foreign"}

ASSUME ServerAssumption ==
    /\ Streams \subseteq AllStreams
    /\ Objects \subseteq [Streams -> Seq(ObjectKinds)]
    /\ Subscribed \in BOOLEAN
    /\ Faults \subseteq FaultKinds
    /\ MaxSessions \in Nat

VARIABLES
    object,     \* the kinds of the objects bmd will have in this behaviour
    avail,      \* bmd: number of objects of each type it has received
    open,       \* types whose processObjects goroutine has not returned
    cursor,     \* number of the next object of a stream
    pc,         \* next step of the goroutine of a stream
    counter,    \* memory: msgCounter, broadcastCounter, getpubkeyCounter
    saved,      \* disk: the saved counters
    saving,     \* counters a call of saveData has still to save
    held,       \* the value it has loaded for the first of them, or 0
    stored,     \* disk: copies of an object in the Inbox
    acked,      \* history: number of times the ack of a message was sent
    lost,       \* history: objects whose insert into the Inbox failed
    orders,     \* the getpubkey each proof-of-work order answers
    answered,   \* history: getpubkeys for which a pubkey was sent
    users,      \* is imapUser not nil?
    stop,       \* how far Stop has come
    up,         \* has no goroutine panicked?
    stuck,      \* is the lock of the Inbox held for ever?
    sessions    \* history: number of starts of the program

bmdVars == <<object, avail>>
streamVars == <<open, cursor, pc, counter>>
saveVars == <<saved, saving, held>>
mailVars == <<stored, acked, lost>>
keyVars == <<orders, answered>>
runVars == <<users, stop, up, stuck, sessions>>
vars == <<ordersVars, bmdVars, streamVars, saveVars, mailVars, keyVars, runVars>>

Numbers(s) == DOMAIN object[s]

Kind(s, n) == object[s][n]

Savers == {"ticker", "Stop"}

(* The order in which saveData saves the counters.                         *)
IfReceived(s) == IF s \in Streams THEN <<s>> ELSE <<>>

SaveOrder == IfReceived("msg") \o IfReceived("broadcast") \o IfReceived("getpubkey")

Init ==
    /\ OrdersInit
    /\ object \in Objects
    /\ avail = [s \in Streams |-> 0]
    /\ open = Streams
    /\ cursor = [s \in Streams |-> 1]
    /\ pc = [s \in Streams |-> "recv"]
    /\ counter = [s \in Streams |-> 1]
    /\ saved = [s \in Streams |-> 1]
    /\ saving = [v \in Savers |-> <<>>]
    /\ held = [v \in Savers |-> 0]
    /\ stored = [s \in Streams |-> [n \in Numbers(s) |-> 0]]
    /\ acked = [s \in Streams |-> [n \in Numbers(s) |-> 0]]
    /\ lost = {}
    /\ orders = <<>>
    /\ answered = {}
    /\ users = TRUE
    /\ stop = "no"
    /\ up = TRUE
    /\ stuck = FALSE
    /\ sessions = 1
-----------------------------------------------------------------------------
(* bmd receives another object from the network.                           *)
bmdReceives(s) ==
    /\ avail[s] < Len(object[s])
    /\ avail' = [avail EXCEPT ![s] = @ + 1]
    /\ UNCHANGED <<ordersVars, object, streamVars, saveVars, mailVars, keyVars, runVars>>

(* The handler of a type has something to do with an object: newBroadcast  *)
(* takes every one as soon as there is a subscription.                     *)
Concerns(s, n) == Kind(s, n) # "foreign" \/ (s = "broadcast" /\ Subscribed)

(* Mistake: the stream hands the same object over again.                   *)
recv_again(s) ==
    /\ s \in open
    /\ pc[s] = "recv"
    /\ stop \notin {"disconnected", "stopped"}
    /\ cursor[s] <= avail[s]
    /\ counter' = [counter EXCEPT ![s] = cursor[s]]
    /\ pc' = [pc EXCEPT ![s] = IF Concerns(s, cursor[s]) THEN "handle" ELSE "recv"]
    /\ UNCHANGED <<ordersVars, bmdVars, open, cursor, saveVars, mailVars, keyVars,
                   runVars>>

(* Mistake: an object is handed over only when the next one has come.      *)
recv_late(s) ==
    /\ s \in open
    /\ pc[s] = "recv"
    /\ stop \notin {"disconnected", "stopped"}
    /\ cursor[s] < avail[s]
    /\ counter' = [counter EXCEPT ![s] = cursor[s]]
    /\ cursor' = [cursor EXCEPT ![s] = @ + 1]
    /\ pc' = [pc EXCEPT ![s] = IF Concerns(s, cursor[s]) THEN "handle" ELSE "recv"]
    /\ UNCHANGED <<ordersVars, bmdVars, open, saveVars, mailVars, keyVars, runVars>>

(* processObjects receives an object and the handler stores its number,    *)
(* then returns at once or goes on.                                        *)
recv(s) ==
    /\ s \in open
    /\ pc[s] = "recv"
    /\ stop \notin {"disconnected", "stopped"}
    /\ cursor[s] <= avail[s]
    /\ counter' = [counter EXCEPT ![s] = cursor[s]]
    /\ cursor' = [cursor EXCEPT ![s] = @ + 1]
    /\ pc' = [pc EXCEPT ![s] = IF Concerns(s, cursor[s]) THEN "handle" ELSE "recv"]
    /\ UNCHANGED <<ordersVars, bmdVars, open, saveVars, mailVars, keyVars, runVars>>

(* The stream breaks, or Stop has closed the connection: the goroutine     *)
(* returns, and nobody starts it again.                                    *)
streamEnds(s) ==
    /\ s \in open
    /\ pc[s] = "recv"
    /\ "stream" \in Faults \/ stop \in {"disconnected", "stopped"}
    /\ open' = open \ {s}
    /\ UNCHANGED <<ordersVars, bmdVars, cursor, pc, counter, saveVars, mailVars, keyVars, runVars>>

(* A FETCH by sequence numbers waits for a second read lock of the Inbox   *)
(* behind a writer that waits for its first one (the run of module Mailbox *)
(* on CallsReturn): from then on nobody gets the lock.                     *)
inboxBlocks ==
    /\ ~stuck
    /\ stuck' = TRUE
    /\ UNCHANGED <<ordersVars, bmdVars, streamVars, saveVars, mailVars, keyVars,
                   users, stop, up, sessions>>

(* DeliverFromBMNet adds the message of an object to the Inbox, when it    *)
(* gets its lock.  addNew reports no error when the insert fails.          *)
insert(s) ==
    /\ ~stuck
    /\ \/ /\ stored' = [stored EXCEPT ![s][counter[s]] = @ + 1]
          /\ lost' = lost
       \/ /\ "insert" \in Faults
          /\ lost' = lost \cup {<<s, counter[s]>>}
          /\ stored' = stored

(* newMessage of an object that one of the user's keys decrypts: the       *)
(* message is added to the Inbox.                                          *)
newMessage ==
    /\ "msg" \in Streams /\ pc["msg"] = "handle"
    /\ users
    /\ insert("msg")
    /\ pc' = [pc EXCEPT !["msg"] =
                IF Kind("msg", counter["msg"]) = "mine" THEN "ack" ELSE "recv"]
    /\ UNCHANGED <<ordersVars, bmdVars, open, cursor, counter, saveVars, acked, keyVars, runVars>>

(* Mistake: the ack is sent before the message is added to the Inbox.      *)
sendAck_early ==
    /\ "msg" \in Streams /\ pc["msg"] = "handle"
    /\ Kind("msg", counter["msg"]) = "mine"
    /\ acked["msg"][counter["msg"]] < sessions
    /\ acked' = [acked EXCEPT !["msg"][counter["msg"]] = @ + 1]
    /\ UNCHANGED <<ordersVars, bmdVars, streamVars, saveVars, stored, lost, keyVars,
                   runVars>>

(* The end of newMessage: the ack goes back to bmd.                        *)
sendAck ==
    /\ "msg" \in Streams /\ pc["msg"] = "ack"
    /\ \/ acked' = [acked EXCEPT !["msg"][counter["msg"]] = @ + 1]
       \/ "rpc" \in Faults /\ acked' = acked
    /\ pc' = [pc EXCEPT !["msg"] = "recv"]
    /\ UNCHANGED <<ordersVars, bmdVars, open, cursor, counter, saveVars, stored, lost, keyVars, runVars>>

(* newBroadcast tries the subscribed addresses in turn.                    *)
newBroadcast ==
    /\ "broadcast" \in Streams /\ pc["broadcast"] = "handle"
    /\ users
    /\ Kind("broadcast", counter["broadcast"]) = "mine"
    /\ insert("broadcast")
    /\ pc' = [pc EXCEPT !["broadcast"] = "recv"]
    /\ UNCHANGED <<ordersVars, bmdVars, open, cursor, counter, saveVars, acked, keyVars, runVars>>

(* Mistake: the handler is run for the same request once more.             *)
newGetpubkey_again ==
    /\ "getpubkey" \in Streams /\ pc["getpubkey"] = "handle"
    /\ Submit
    /\ orders' = Append(orders, counter["getpubkey"])
    /\ UNCHANGED <<bmdVars, open, cursor, pc, counter, saveVars, mailVars, answered,
                   runVars>>

(* newGetpubkey of one of the user's keys: the pubkey goes to the          *)
(* proof-of-work queue.                                                    *)
newGetpubkey ==
    /\ "getpubkey" \in Streams /\ pc["getpubkey"] = "handle"
    /\ Submit
    /\ orders' = Append(orders, counter["getpubkey"])
    /\ pc' = [pc EXCEPT !["getpubkey"] = "recv"]
    /\ UNCHANGED <<bmdVars, open, cursor, counter, saveVars, mailVars, answered,
                   runVars>>

(* The goroutine of a stream panics, and the program with it: Stop has set *)
(* imapUser to nil, or the first address that newBroadcast tries does not  *)
(* decrypt the object and BroadcastRead is given a nil pointer.            *)
panic(s) ==
    /\ s \in {"msg", "broadcast"}
    /\ pc[s] = "handle"
    /\ ~users \/ (s = "broadcast" /\ Kind(s, counter[s]) # "mine")
    /\ up' = FALSE
    /\ UNCHANGED <<ordersVars, bmdVars, streamVars, saveVars, mailVars, keyVars,
                   users, stop, stuck, sessions>>
-----------------------------------------------------------------------------
(* The proof-of-work manager works, and sends the pubkeys.                 *)
powStep ==
    /\ Begin \/ \E o \in DOMAIN orders : Complete(o)
    /\ UNCHANGED <<bmdVars, streamVars, saveVars, mailVars, keyVars, runVars>>

sendPubkey(o) ==
    /\ Call(o)
    /\ answered' = answered \cup {orders[o]}
    /\ UNCHANGED <<bmdVars, streamVars, saveVars, mailVars, orders, runVars>>
-----------------------------------------------------------------------------
(* savePeriodically begins a call of saveData.                             *)
savePeriodically ==
    /\ stop # "stopped"
    /\ saving["ticker"] = <<>>
    /\ saving' = [saving EXCEPT !["ticker"] = SaveOrder]
    /\ UNCHANGED <<ordersVars, bmdVars, streamVars, saved, held, mailVars, keyVars,
                   runVars>>

(* saveData loads a counter and writes it to the store in a transaction of *)
(* its own.                                                                *)
saveLoad(v) ==
    /\ saving[v] # <<>>
    /\ held[v] = 0
    /\ held' = [held EXCEPT ![v] = counter[Head(saving[v])]]
    /\ UNCHANGED <<ordersVars, bmdVars, streamVars, saved, saving, mailVars, keyVars, runVars>>

SetCounter(v) ==
    /\ held[v] # 0
    /\ saved' = [saved EXCEPT ![Head(saving[v])] = held[v]]
    /\ held' = [held EXCEPT ![v] = 0]
    /\ saving' = [saving EXCEPT ![v] = Tail(@)]
    /\ UNCHANGED <<ordersVars, bmdVars, streamVars, mailVars, keyVars, runVars>>
-----------------------------------------------------------------------------
(* Stop: save, then drop the users, then close the connection to bmd, then *)
(* close quit.                                                             *)
Stop ==
    /\ stop = "no"
    /\ stop' = "saving"
    /\ saving' = [saving EXCEPT !["Stop"] = SaveOrder]
    /\ UNCHANGED <<ordersVars, bmdVars, streamVars, saved, held, mailVars, keyVars,
                   users, up, stuck, sessions>>

dropUsers ==
    /\ stop = "saving"
    /\ saving["Stop"] = <<>>
    /\ stop' = "usersNil"
    /\ users' = FALSE
    /\ UNCHANGED <<ordersVars, bmdVars, streamVars, saveVars, mailVars, keyVars,
                   up, stuck, sessions>>

stopClient ==
    /\ stop = "usersNil"
    /\ stop' = "disconnected"
    /\ UNCHANGED <<ordersVars, bmdVars, streamVars, saveVars, mailVars, keyVars,
                   users, up, stuck, sessions>>

closeQuit ==
    /\ stop = "disconnected"
    /\ stop' = "stopped"
    /\ UNCHANGED <<ordersVars, bmdVars, streamVars, saveVars, mailVars, keyVars,
                   users, up, stuck, sessions>>

(* Mistake: the streams are opened after the saved number.                 *)
restart_exclusive ==
    /\ sessions < MaxSessions
    /\ sessions' = sessions + 1
    /\ open' = Streams
    /\ counter' = saved
    /\ cursor' = [s \in Streams |-> saved[s] + 1]
    /\ pc' = [s \in Streams |-> "recv"]
    /\ saving' = [v \in Savers |-> <<>>]
    /\ held' = [v \in Savers |-> 0]
    /\ taken' = submitted /\ active' = {} /\ owed' = {}
    /\ users' = TRUE
    /\ stop' = "no"
    /\ up' = TRUE
    /\ stuck' = FALSE
    /\ UNCHANGED <<submitted, called, bmdVars, saved, mailVars, keyVars>>

(* The process has ended, by a crash, a panic or after Stop, whatever its  *)
(* goroutines were doing, and a new one starts: newServer loads the        *)
(* counters and Start opens the streams from there.                        *)
restart ==
    /\ sessions < MaxSessions
    /\ sessions' = sessions + 1
    /\ open' = Streams
    /\ counter' = saved
    /\ cursor' = saved
    /\ pc' = [s \in Streams |-> "recv"]
    /\ saving' = [v \in Savers |-> <<>>]
    /\ held' = [v \in Savers |-> 0]
    /\ taken' = submitted /\ active' = {} /\ owed' = {}
    /\ users' = TRUE
    /\ stop' = "no"
    /\ up' = TRUE
    /\ stuck' = FALSE
    /\ UNCHANGED <<submitted, called, bmdVars, saved, mailVars, keyVars>>

HandlerStep(s) ==
    \/ recv(s) \/ panic(s)
    \/ s = "msg" /\ (newMessage \/ sendAck)
    \/ s = "broadcast" /\ newBroadcast
    \/ s = "getpubkey" /\ newGetpubkey

Next ==
    \/ /\ up
       /\ \/ \E s \in Streams : bmdReceives(s) \/ HandlerStep(s) \/ streamEnds(s)
          \/ powStep
          \/ \E o \in DOMAIN orders : sendPubkey(o)
          \/ savePeriodically
          \/ \E v \in Savers : saveLoad(v) \/ SetCounter(v)
          \/ Stop \/ dropUsers \/ stopClient \/ closeQuit
          \/ inboxBlocks
    \/ restart

Spec == Init /\ [][Next]_vars

(* The goroutines of the streams are scheduled; tickers, clients, bmd, the *)
(* connection to it and the ends of the process are free.                  *)
Fairness == \A s \in Streams : WF_vars(up /\ HandlerStep(s))

FairSpec == Spec /\ Fairness
-----------------------------------------------------------------------------
(* A number for every object of every type.                                *)
IsPerObject(f) ==
    /\ f = [s \in Streams |-> f[s]]
    /\ \A s \in Streams : f[s] \in [Numbers(s) -> Nat]

(* The types of the counters, of the streams' goroutines and of the disk.  *)
TypeOK ==
    /\ object \in Objects
    /\ avail \in [Streams -> Nat]
    /\ open \subseteq Streams
    /\ cursor \in [Streams -> Nat \ {0}]
    /\ pc \in [Streams -> {"recv", "handle", "ack"}]
    /\ counter \in [Streams -> Nat \ {0}]
    /\ saved \in [Streams -> Nat \ {0}]
    /\ saving \in [Savers -> Seq(Streams)]
    /\ held \in [Savers -> Nat]
    /\ IsPerObject(stored)
    /\ IsPerObject(acked)
    /\ stop \in {"no", "saving", "usersNil", "disconnected", "stopped"}

(* An object that must end in the Inbox.                                   *)
IsMail(s, n) == s # "getpubkey" /\ Kind(s, n) # "foreign"

(* The handler has added the object to the Inbox, or tried to.             *)
Delivered(s, n) == stored[s][n] > 0 \/ <<s, n>> \in lost

(* The counter is stored before the message is, and may be saved, and the  *)
(* process may die, in between.  Even so no message is skipped: one below  *)
(* the saved counter is in the Inbox, unless inserting it failed (server.go *)
(* 223, 304).                                                              *)
NothingSkipped ==
    \A s \in Streams : \A n \in Numbers(s) :
        n < saved[s] /\ IsMail(s, n) => Delivered(s, n)

(* A sender gets an ack only for a message that is in the Inbox, unless    *)
(* inserting it failed, which addNew does not report.                      *)
AckMeansStored ==
    \A s \in Streams : \A n \in Numbers(s) : acked[s][n] > 0 => Delivered(s, n)

(* Messages come again after a restart, but one process delivers an object *)
(* only once, however its saves and those before it are ordered.           *)
CopiesBounded ==
    \A s \in Streams : \A n \in Numbers(s) :
        stored[s][n] <= sessions /\ acked[s][n] <= sessions

(* The orders that answer a getpubkey request.                             *)
Answers(n) == {o \in DOMAIN orders : orders[o] = n}

(* One process answers a getpubkey request with at most one pubkey.        *)
AnswersBounded ==
    "getpubkey" \in Streams => \A n \in Numbers("getpubkey") :
        Cardinality(Answers(n)) <= sessions

(* The handler of the object with the number in the counter has finished.  *)
Handled(s) == cursor[s] = counter[s] + 1 /\ pc[s] # "handle"

(* What makes NothingSkipped, AckMeansStored and CopiesBounded inductive:  *)
(* the goroutine of a stream has handled everything below the counter, and *)
(* the counter's own object once it is past the handler; what is loaded by *)
(* a save or saved lags behind the counter; and this process has not yet   *)
(* delivered the objects that are still to come.                           *)
IndInv ==
    /\ TypeOK
    /\ CopiesBounded
    /\ AckMeansStored
    /\ sessions \in Nat \ {0}
    /\ \A s \in Streams :
        /\ avail[s] <= Len(object[s])
        /\ cursor[s] \in {counter[s], counter[s] + 1}
        /\ saved[s] <= counter[s]
        /\ pc[s] # "recv" => cursor[s] = counter[s] + 1 /\ counter[s] \in Numbers(s)
        /\ pc[s] = "ack" => s = "msg" /\ IsMail(s, counter[s])
        /\ \A n \in Numbers(s) :
            /\ n < counter[s] /\ IsMail(s, n) => Delivered(s, n)
            /\ n = counter[s] /\ Handled(s) /\ IsMail(s, n) => Delivered(s, n)
            /\ n >= cursor[s] => stored[s][n] < sessions /\ acked[s][n] < sessions
            /\ n = counter[s] /\ pc[s] = "handle" =>
                  stored[s][n] < sessions /\ acked[s][n] < sessions
            /\ n = counter[s] /\ pc[s] = "ack" => acked[s][n] < sessions
    /\ \A v \in Savers : held[v] # 0 =>
        saving[v] # <<>> /\ held[v] <= counter[Head(saving[v])]
    /\ stop = "no" => saving["Stop"] = <<>>

(* What makes AnswersBounded inductive: this process has not yet answered  *)
(* the requests that are still to come, nor the one its handler has.       *)
AnswersInv ==
    "getpubkey" \in Streams =>
        /\ orders \in Seq(Nat)
        /\ \A n \in Numbers("getpubkey") :
             /\ Cardinality(Answers(n)) <= sessions
             /\ \/ n >= cursor["getpubkey"]
                \/ n = counter["getpubkey"] /\ pc["getpubkey"] = "handle"
                => Cardinality(Answers(n)) < sessions

(* bmrpc/client.go 183-184: "processObjects receives objects from bmd and  *)
(* runs the specified function for each object".  A message bmd has comes  *)
(* into the Inbox, unless the stream breaks, for nobody opens it again,    *)
(* the program stops or panics, or the lock of the Inbox is held for ever. *)
AvailableIsDelivered ==
    \A s \in Streams : \A n \in UNION {DOMAIN o[s] : o \in Objects} :
        n <= avail[s] /\ IsMail(s, n) ~>
            \/ n \in Numbers(s) /\ Delivered(s, n)
            \/ s \notin open \/ stop # "no" \/ ~up \/ stuck
=============================================================================

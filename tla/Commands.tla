----------------------------- MODULE Commands -----------------------------
(***************************************************************************)
(* The commands of bmagent, package cmd, and the two ways they come in: by *)
(* an e-mail to command@bm.agent, answered in the Commands folder, and by  *)
(* the RPC server, whose request the command line client makes from the    *)
(* same text or another client fills in itself.                            *)
(*                                                                         *)
(* Every e-mail is handled in the goroutine of its SMTP connection and     *)
(* every RPC request in one of its own under the lock of the RPC server;   *)
(* they meet in the identity manager, which takes its mutex in each call.  *)
(* The texts of answers are left out: an answer is what it tells.          *)
(***************************************************************************)
EXTENDS Naturals, Sequences

CONSTANTS
    Callers,        \* whoever gives a command, each of them once
    Asks,           \* for each caller, the requests it may make
    Initial,        \* the identities at the start: a function from addresses
                    \* to whether they return acks
    NewIDIndex,     \* the index of the next identity at the start
    Underivable,    \* indices for which identity.NewHD fails
    MaxIndex,       \* bound on the indices
    Nil,            \* a field that is not set
    NoCaller        \* nobody holds the lock of the RPC server

(* A command as text.  The name of an e-mail is its subject, which may be  *)
(* missing.                                                                *)
Text == [name : STRING \cup {Nil}, params : Seq(STRING)]

(* The fields of a BMRPCRequest, for the requests it can be.               *)
HelpRequest == [is : {"help"}, version : {Nil, 1, 2}, requests : SUBSET STRING]
NewAddressRequest ==
    [is : {"newaddress"}, addressversion : Nat \cup {Nil}, stream : Nat \cup {Nil},
     ack : BOOLEAN \cup {Nil}, nonceTrials : Nat \cup {Nil}, extraBytes : Nat \cup {Nil}]
BMRPCRequest ==
    [version : {Nil, 1, 2},
     request : HelpRequest \cup NewAddressRequest \cup [is : {"listaddresses", "none"}]]

Request ==
    [by : {"email"}, from : Nat, text : Text] \cup
    [by : {"client"}, text : Text] \cup
    [by : {"rpc"}, request : BMRPCRequest]

ASSUME CommandsAssumption ==
    /\ \A c \in Callers : Asks[c] \subseteq Request
    /\ Nil \notin BOOLEAN
    /\ DOMAIN Initial \subseteq Nat /\ NewIDIndex \in Nat /\ MaxIndex \in Nat
    /\ \A a \in DOMAIN Initial : Initial[a] \in BOOLEAN /\ a < NewIDIndex
    /\ NoCaller \notin Callers

VARIABLES
    up,         \* the program runs
    running,    \* RPCServer.Running
    lock,       \* who holds the lock of the RPC server
    stuck,      \* is the lock of the Commands folder held for ever?
    index,      \* mgr.db.NewIDIndex
    ids,        \* mgr.db.IDs
    pc,         \* what is done next for a caller
    asked,      \* the request of a caller
    todo,       \* the request or the command made of it
    rest,       \* ListAddresses: the addresses still to be got
    reply,      \* what the caller is answered
    before      \* history: the identities when the caller asked

manager == <<index, ids>>
vars == <<up, running, lock, stuck, manager, pc, asked, todo, rest, reply, before>>

NoReply == [is |-> "none"]
Error == [is |-> "error"]
Unavailable == [is |-> "unavailable"]
Panic == [is |-> "panic"]

Init ==
    /\ up = TRUE /\ running = TRUE
    /\ lock = NoCaller
    /\ stuck = FALSE
    /\ index = NewIDIndex
    /\ ids = Initial
    /\ pc = [c \in Callers |-> "idle"]
    /\ asked = [c \in Callers |-> Nil]
    /\ todo = [c \in Callers |-> Nil]
    /\ rest = [c \in Callers |-> {}]
    /\ reply = [c \in Callers |-> NoReply]
    /\ before = [c \in Callers |-> {}]
-----------------------------------------------------------------------------
(* command.go: the names in the map commands and in the list Commands.     *)
Listed == {"deletemessages", "getmessages", "help", "listaddresses", "newaddress", "sendmessage"}
commands == Listed \cup {"subscribe"}

Elements(s) == {s[i] : i \in DOMAIN s}

(* The functions that read parameters.                                     *)
readHelpCommand(param) ==
    IF Elements(param) \subseteq commands
    THEN [is |-> "help", commands |-> Elements(param)]
    ELSE Error

(* ReadPattern for one boolean: the parameters it accepts, and what they   *)
(* are read as.                                                            *)
ReadPattern == {<<<<"true">>, TRUE>>, <<<<"false">>, FALSE>>}

(* A new address returns acks unless it is said that it does not.          *)
readNewAddressCommand(param) ==
    LET read == ReadPattern \cup {<<<<>>, TRUE>>}
    IN IF \E e \in read : e[1] = param
       THEN [is |-> "newaddress", ack |-> (CHOOSE e \in read : e[1] = param)[2]]
       ELSE Error

readListAddressesCommand(param) ==
    IF param = <<>> THEN [is |-> "listaddresses"] ELSE Error

(* All patterns of a command have the same function, so the first decides. *)
(* The stubs have none.                                                    *)
ReadCommand(text) ==
    CASE text.name = "help" -> readHelpCommand(text.params)
      [] text.name = "newaddress" -> readNewAddressCommand(text.params)
      [] text.name = "listaddresses" -> readListAddressesCommand(text.params)
      [] OTHER -> Error

(* Command.RPC.  Of a new address only the label is sent, never its ack.   *)
RPC(command) ==
    [version |-> 1,
     request |->
        CASE command.is = "help" ->
               [is |-> "help", version |-> 1, requests |-> command.commands]
          [] command.is = "newaddress" ->
               [is |-> "newaddress", addressversion |-> Nil, stream |-> Nil, ack |-> Nil,
                nonceTrials |-> Nil, extraBytes |-> Nil]
          [] command.is = "listaddresses" -> [is |-> "listaddresses"]]

buildHelpCommand(r) ==
    IF r.version = 1 /\ r.requests \subseteq commands
    THEN [is |-> "help", commands |-> r.requests]
    ELSE Error

(* Nonce trials with extra bytes are refused and without them the pointer  *)
(* to the extra bytes is followed although it is nil.                      *)
buildNewAddressCommand(r) ==
    IF r.addressversion \notin {Nil, 4} \/ r.stream \notin {Nil, 1} THEN Error
    ELSE IF r.nonceTrials # Nil THEN IF r.extraBytes # Nil THEN Error ELSE Panic
    ELSE [is |-> "newaddress", ack |-> IF r.ack = Nil THEN TRUE ELSE r.ack]

BuildCommand(r) ==
    IF r.version # 1 THEN Error
    ELSE CASE r.request.is = "help" -> buildHelpCommand(r.request)
           [] r.request.is = "newaddress" -> buildNewAddressCommand(r.request)
           [] r.request.is = "listaddresses" -> [is |-> "listaddresses"]
           [] OTHER -> Error

(* rpc.Message: what the client prints.  The text of an ErrorReply is left *)
(* empty, and of help only the names of the commands are sent.             *)
Message(r) ==
    CASE r.is = "error" -> [is |-> "empty"]
      [] r.is = "help" -> [r EXCEPT !.long = FALSE]
      [] OTHER -> r
-----------------------------------------------------------------------------
Goto(c, step) == pc' = [pc EXCEPT ![c] = step]

(* A caller asks.                                                          *)
Ask(c, q) ==
    /\ pc[c] = "idle"
    /\ asked' = [asked EXCEPT ![c] = q]
    /\ before' = [before EXCEPT ![c] = DOMAIN ids]

(* The caller has its answer.                                              *)
Answer(c, r) ==
    /\ reply' = [reply EXCEPT ![c] = r]
    /\ Goto(c, "done")

(* The next step has this to do.                                           *)
Continue(c, what, step) ==
    /\ todo' = [todo EXCEPT ![c] = what]
    /\ Goto(c, step)
    /\ UNCHANGED reply

(* The sender of an e-mail must be an address of the user.                 *)
validateSender(from) == from \in DOMAIN ids

(* An e-mail to the agent: DeliverFromSMTP, executeCommand, EmailCommand.  *)
(* Without a subject the index panics.                                     *)
DeliverFromSMTP(c, q) ==
    /\ q.by = "email"
    /\ Ask(c, q)
    /\ \/ /\ ~validateSender(q.from)
          /\ Answer(c, Unavailable)
          /\ UNCHANGED <<up, todo>>
       \/ /\ validateSender(q.from) /\ q.text.name = Nil
          /\ up' = FALSE
          /\ UNCHANGED <<pc, todo, reply>>
       \/ /\ validateSender(q.from) /\ q.text.name # Nil
          /\ LET command == ReadCommand(q.text)
             IN \/ /\ command = Error
                   /\ reply' = [reply EXCEPT ![c] = Error]
                   /\ Goto(c, "respond")
                   /\ UNCHANGED todo
                \/ /\ command # Error
                   /\ Continue(c, command, "execute")
          /\ UNCHANGED up
    /\ UNCHANGED <<running, lock, stuck, manager, rest>>

(* The command line client reads the command and sends it.                 *)
try(c, q) ==
    /\ q.by = "client"
    /\ Ask(c, q)
    /\ LET command == ReadCommand(q.text)
       IN \/ command = Error /\ Answer(c, Error) /\ UNCHANGED todo
          \/ command # Error /\ Continue(c, RPC(command), "sent")
    /\ UNCHANGED <<up, running, lock, stuck, manager, rest>>

(* Another client sends what it likes.                                     *)
Send(c, q) ==
    /\ q.by = "rpc"
    /\ Ask(c, q)
    /\ Continue(c, q.request, "sent")
    /\ UNCHANGED <<up, running, lock, stuck, manager, rest>>

(* Mistake: the lock is kept when the command cannot be built.             *)
BMAgentRequest_keepsLock(c) ==
    /\ pc[c] = "sent" /\ lock = NoCaller /\ running
    /\ LET command == BuildCommand(todo[c])
       IN \/ /\ command = Panic
             /\ up' = FALSE
             /\ UNCHANGED <<pc, todo, reply, lock>>
          \/ /\ command = Error
             /\ Answer(c, Message(Error))
             /\ lock' = c
             /\ UNCHANGED <<up, todo>>
          \/ /\ command \notin {Error, Panic}
             /\ Continue(c, command, "execute")
             /\ lock' = c
             /\ UNCHANGED up
    /\ UNCHANGED <<running, stuck, manager, asked, rest, before>>

(* The RPC server takes a request and builds the command.                  *)
BMAgentRequest(c) ==
    /\ pc[c] = "sent" /\ lock = NoCaller /\ running
    /\ LET command == BuildCommand(todo[c])
       IN \/ /\ command = Panic
             /\ up' = FALSE
             /\ UNCHANGED <<pc, todo, reply, lock>>
          \/ /\ command = Error
             /\ Answer(c, Message(Error))
             /\ UNCHANGED <<up, todo, lock>>
          \/ /\ command \notin {Error, Panic}
             /\ Continue(c, command, "execute")
             /\ lock' = c
             /\ UNCHANGED up
    /\ UNCHANGED <<running, stuck, manager, asked, rest, before>>

(* A request that the stopped server does not take, once it has the lock.  *)
ErrServerStopped(c) ==
    /\ pc[c] = "sent" /\ lock = NoCaller /\ ~running
    /\ Answer(c, Unavailable)
    /\ UNCHANGED <<up, running, lock, stuck, manager, asked, todo, rest, before>>

(* Execute of a command that has this answer.                              *)
Executed(c, r) ==
    /\ reply' = [reply EXCEPT ![c] = r]
    /\ Goto(c, "respond")
    /\ UNCHANGED <<up, running, lock, stuck, asked, todo, before>>

Executing(c, name) == pc[c] = "execute" /\ todo[c].is = name

help(c) ==
    /\ Executing(c, "help")
    /\ LET named == todo[c].commands
       IN Executed(c, [is |-> "help", commands |-> IF named = {} THEN Listed ELSE named,
                       long |-> named # {}])
    /\ UNCHANGED <<manager, rest>>

(* The loop of New ends with the first index that can be derived.          *)
Derives(n) ==
    /\ n \notin Underivable
    /\ \A k \in index..(n - 1) : k \in Underivable

(* Mistake: the indices that were skipped are not counted.                 *)
New_skipped(c) ==
    /\ Executing(c, "newaddress")
    /\ \E n \in index..MaxIndex :
          /\ Derives(n)
          /\ index' = index + 1
          /\ ids' = [a \in DOMAIN ids \cup {n} |-> IF a = n THEN todo[c].ack ELSE ids[a]]
          /\ Executed(c, [is |-> "newaddress", address |-> n, ack |-> todo[c].ack])
    /\ UNCHANGED rest

(* Manager.New, in one critical section.                                   *)
New(c) ==
    /\ Executing(c, "newaddress")
    /\ \E n \in index..MaxIndex :
          /\ Derives(n)
          /\ index' = n + 1
          /\ ids' = [a \in DOMAIN ids \cup {n} |-> IF a = n THEN todo[c].ack ELSE ids[a]]
          /\ Executed(c, [is |-> "newaddress", address |-> n, ack |-> todo[c].ack])
    /\ UNCHANGED rest

(* Mistake: only the derived identities are named.                         *)
Names_derived(c) ==
    /\ Executing(c, "listaddresses")
    /\ rest' = [rest EXCEPT ![c] = DOMAIN ids \ DOMAIN Initial]
    /\ reply' = [reply EXCEPT ![c] = [is |-> "addresses", ids |-> {}]]
    /\ Goto(c, "list")
    /\ UNCHANGED <<up, running, lock, stuck, manager, asked, todo, before>>

(* ListAddresses: Names copies the addresses under the mutex.              *)
Names(c) ==
    /\ Executing(c, "listaddresses")
    /\ rest' = [rest EXCEPT ![c] = DOMAIN ids]
    /\ reply' = [reply EXCEPT ![c] = [is |-> "addresses", ids |-> {}]]
    /\ Goto(c, "list")
    /\ UNCHANGED <<up, running, lock, stuck, manager, asked, todo, before>>

(* Each address is then looked up on its own.                              *)
Get(c) ==
    /\ pc[c] = "list"
    /\ \E a \in rest[c] :
         /\ rest' = [rest EXCEPT ![c] = @ \ {a}]
         /\ reply' = [reply EXCEPT ![c].ids = @ \cup {[address |-> a, ack |-> ids[a]]}]
    /\ UNCHANGED <<up, running, lock, stuck, manager, pc, asked, todo, before>>

listEnds(c) ==
    /\ pc[c] = "list" /\ rest[c] = {}
    /\ Goto(c, "respond")
    /\ UNCHANGED <<up, running, lock, stuck, manager, asked, todo, rest, reply, before>>

(* A FETCH by sequence numbers waits for a second read lock of the         *)
(* Commands folder behind a writer that waits for its first one (the run   *)
(* of module Mailbox on CallsReturn): from then on nobody gets the lock.   *)
folderBlocks ==
    /\ ~stuck
    /\ stuck' = TRUE
    /\ UNCHANGED <<up, running, lock, manager, pc, asked, todo, rest, reply, before>>

(* executeCommand puts the answer in the Commands folder, when AddNew gets *)
(* its lock; when the insert fails, AddNew drops the error and the answer  *)
(* is gone.                                                                *)
AddNew(c) ==
    /\ pc[c] = "respond" /\ asked[c].by = "email"
    /\ ~stuck
    /\ \/ Answer(c, reply[c])
       \/ Answer(c, Unavailable)
    /\ UNCHANGED <<up, running, lock, stuck, manager, asked, todo, rest, before>>

(* The answer goes back to the client, if it is still connected, and the   *)
(* lock is given up.                                                       *)
Respond(c) ==
    /\ pc[c] = "respond" /\ lock = c
    /\ lock' = NoCaller
    /\ Answer(c, IF running THEN Message(reply[c]) ELSE Unavailable)
    /\ UNCHANGED <<up, running, stuck, manager, asked, todo, rest, before>>

(* server.Stop stops the RPC server.  It has closed the SMTP listeners     *)
(* before, which does not end the connections that are open.               *)
stopRPC ==
    /\ running
    /\ running' = FALSE
    /\ UNCHANGED <<up, lock, stuck, manager, pc, asked, todo, rest, reply, before>>

Handle(c) ==
    /\ up
    /\ \/ BMAgentRequest(c) \/ ErrServerStopped(c)
       \/ help(c) \/ New(c) \/ Names(c) \/ Get(c) \/ listEnds(c)
       \/ AddNew(c) \/ Respond(c)

Next ==
    \/ /\ up
       /\ \/ \E c \in Callers : \E q \in Asks[c] : DeliverFromSMTP(c, q) \/ try(c, q) \/ Send(c, q)
          \/ stopRPC \/ folderBlocks
    \/ \E c \in Callers : Handle(c)

Spec == Init /\ [][Next]_vars

(* Goroutines that can run are scheduled, and a mutex that is given up     *)
(* again and again is got in the end.                                      *)
FairSpec == Spec /\ \A c \in Callers : WF_vars(Handle(c))
-----------------------------------------------------------------------------
(* What a text asks for, if it is understood.                              *)
TextAsksFor(text, name) ==
    /\ text.name = name
    /\ \/ name = "help" /\ \A i \in DOMAIN text.params : text.params[i] \in commands
       \/ name = "newaddress" /\ text.params \in {<<>>, <<"true">>, <<"false">>}
       \/ name = "listaddresses" /\ text.params = <<>>

(* A request for an address of the version and in the stream there are.    *)
IsForAddress(r) ==
    /\ r.version = 1 /\ r.request.is = "newaddress"
    /\ r.request.addressversion \in {Nil, 4} /\ r.request.stream \in {Nil, 1}

(* The same for an RPC request.  cmd/newaddress.go 95: it "must provide    *)
(* both nonce trials per byte and extra bytes", or neither.                *)
RequestAsksFor(r, name) ==
    /\ r.version = 1 /\ r.request.is = name
    /\ \/ name = "help" /\ r.request.version = 1 /\ r.request.requests \subseteq commands
       \/ /\ name = "newaddress" /\ IsForAddress(r)
          /\ r.request.nonceTrials = Nil <=> r.request.extraBytes = Nil
       \/ name = "listaddresses"

AsksFor(q, name) ==
    IF q.by = "rpc" THEN RequestAsksFor(q.request, name) ELSE TextAsksFor(q.text, name)

(* Whether acks are asked for, by what was written or typed.               *)
AckAsked(q) ==
    IF q.by = "rpc" THEN q.request.request.ack # FALSE ELSE q.text.params # <<"false">>

(* Where the code does not do what is asked.  The client reads that no     *)
(* acks are wanted, and RPC leaves it out (cmd/newaddress.go 39-50).  The  *)
(* condition at cmd/newaddress.go 94 is the reverse of its message: nonce  *)
(* trials with extra bytes are refused, extra bytes alone are ignored.     *)
AckDropped(q) == q.by = "client" /\ ~AckAsked(q)

PowRefused(q) ==
    /\ q.by = "rpc" /\ IsForAddress(q.request)
    /\ q.request.request.nonceTrials # Nil /\ q.request.request.extraBytes # Nil

PowIgnored(q) ==
    /\ q.by = "rpc" /\ IsForAddress(q.request)
    /\ q.request.request.nonceTrials = Nil /\ q.request.request.extraBytes # Nil

GetsAddress(q) == AsksFor(q, "newaddress") \/ PowIgnored(q)

GetsError(q) == (\A name \in commands : ~AsksFor(q, name)) \/ PowRefused(q)

Done(c) == pc[c] = "done" /\ reply[c] # Unavailable

(* cmd/email.go 12 and cmd/rpc.go 39: whichever way a command comes in, it *)
(* is answered with what it asks for; a new address returns acks as asked, *)
(* was not there before and is nobody else's; anything that asks for       *)
(* nothing is answered with an error, and gives nobody an address.  There  *)
(* are three exceptions and no more: the ack that the client drops, and    *)
(* the two ways to ask for a proof of work that are mixed up.              *)
AnsweredAsAsked ==
    \A c \in Callers : Done(c) =>
        LET q == asked[c]
            r == reply[c]
        IN \/ r.is = "help" /\ AsksFor(q, "help")
           \/ /\ r.is = "newaddress" /\ GetsAddress(q)
              /\ r.address \in DOMAIN ids \ before[c]
              /\ (r.ack = AckAsked(q)) \/ AckDropped(q)
              /\ ids[r.address] = r.ack
              /\ \A d \in Callers \ {c} :
                   reply[d].is = "newaddress" => reply[d].address # r.address
           \/ r.is = "addresses" /\ AsksFor(q, "listaddresses")
           \/ r.is \in {"error", "empty"} /\ GetsError(q)

(* user/command.go 56: a list of addresses has every address that was      *)
(* there when it was asked for, whatever is created meanwhile, and only    *)
(* addresses that exist, with their own behaviour.                         *)
ListingComplete ==
    \A c \in Callers : pc[c] \in {"respond", "done"} /\ reply[c].is = "addresses" =>
        /\ before[c] \subseteq {id.address : id \in reply[c].ids}
        /\ \A id \in reply[c].ids : id.address \in DOMAIN ids /\ ids[id.address] = id.ack

(* The two requests that end the program: an e-mail without a subject, and *)
(* a new address with nonce trials and no extra bytes.                     *)
KnownPanic(q) ==
    \/ q.by = "email" /\ q.text.name = Nil
    \/ /\ q.by = "rpc" /\ q.request.request.is = "newaddress"
       /\ q.request.request.nonceTrials # Nil /\ q.request.request.extraBytes = Nil

(* Every command is answered in the end, by the server or by the one that  *)
(* has stopped, unless one of the two requests above ends the program.     *)
(* Only e-mails wait for ever when the lock of the Commands folder is held *)
(* for ever: nothing a command holds depends on that folder.               *)
EveryCommandEnds ==
    \A c \in Callers :
        pc[c] # "idle" ~>
            \/ pc[c] = "done"
            \/ stuck /\ asked[c] # Nil /\ asked[c].by = "email"
            \/ \E d \in Callers : asked[d] # Nil /\ KnownPanic(asked[d])
-----------------------------------------------------------------------------
(* The parts of the inductive invariant behind ListingComplete.            *)

(* Addresses are below the index, so a new one replaces no other.          *)
IndexAbove ==
    /\ index \in Nat /\ DOMAIN ids \subseteq Nat
    /\ \A a \in DOMAIN ids : a < index

PerCaller ==
    /\ DOMAIN pc = Callers /\ DOMAIN rest = Callers
    /\ DOMAIN reply = Callers /\ DOMAIN before = Callers

Got(c) == {id.address : id \in reply[c].ids}

(* What a list in progress has got is right, and with what it has still to *)
(* get it has everything that was there.                                   *)
ListsRight ==
    \A c \in Callers :
        /\ before[c] \subseteq DOMAIN ids
        /\ pc[c] = "list" =>
             /\ reply[c] = [is |-> "addresses", ids |-> reply[c].ids]
             /\ rest[c] \subseteq DOMAIN ids
             /\ before[c] \subseteq rest[c] \cup Got(c)
        /\ pc[c] \in {"list", "respond", "done"} /\ reply[c].is = "addresses" =>
             \A id \in reply[c].ids : id.address \in DOMAIN ids /\ ids[id.address] = id.ack

IndInv == IndexAbove /\ PerCaller /\ ListsRight /\ ListingComplete

(* The same for AnsweredAsAsked.                                           *)

(* The command is what the request asks for.                               *)
Understood(q, command) ==
    \/ command.is = "help" /\ AsksFor(q, "help")
    \/ /\ command.is = "newaddress" /\ GetsAddress(q)
       /\ (command.ack = AckAsked(q)) \/ AckDropped(q)
    \/ command.is = "listaddresses" /\ AsksFor(q, "listaddresses")

(* The answer is one to the request.                                       *)
Fits(q, r) ==
    \/ r.is = "help" /\ AsksFor(q, "help")
    \/ r.is = "newaddress" /\ GetsAddress(q) /\ ((r.ack = AckAsked(q)) \/ AckDropped(q))
    \/ r.is = "addresses" /\ AsksFor(q, "listaddresses")
    \/ r.is \in {"error", "empty"} /\ GetsError(q)

(* What goes to the RPC server is the request itself, or the text that the *)
(* client has read.                                                        *)
IsSentFor(q, r) ==
    \/ q \in Request /\ q.by = "rpc" /\ r = q.request
    \/ q.by = "client" /\ ReadCommand(q.text) # Error /\ r = RPC(ReadCommand(q.text))

(* From the request to the answer, what is done for a caller is what it    *)
(* asked for.                                                              *)
StepFits(c) ==
    /\ pc[c] \in {"idle", "sent", "execute"} => reply[c] = NoReply
    /\ pc[c] = "sent" => IsSentFor(asked[c], todo[c])
    /\ pc[c] = "execute" => Understood(asked[c], todo[c])
    /\ pc[c] = "list" => AsksFor(asked[c], "listaddresses")
    /\ pc[c] = "respond" => Fits(asked[c], reply[c])
    /\ pc[c] = "done" => reply[c] = Unavailable \/ Fits(asked[c], reply[c])

(* An address that was given is there, is new and is given once.           *)
AddressesGiven ==
    /\ \A c \in Callers : reply[c].is = "newaddress" =>
         reply[c].address \in DOMAIN ids \ before[c] /\ ids[reply[c].address] = reply[c].ack
    /\ \A c, d \in Callers :
         (reply[c].is = "newaddress" /\ reply[d].is = "newaddress" /\ c # d) =>
            reply[c].address # reply[d].address

AnswersInv ==
    /\ DOMAIN asked = Callers /\ DOMAIN todo = Callers
    /\ \A c \in Callers : StepFits(c)
    /\ AddressesGiven
=============================================================================

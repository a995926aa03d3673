-------------------------- MODULE CommandsProofs --------------------------
(***************************************************************************)
(* Proofs about module Commands, for any number of callers and any         *)
(* requests.                                                               *)
(***************************************************************************)
EXTENDS Commands, TLAPS

(* A step that gives no caller a list and leaves the manager alone.        *)
LEMMA OtherReply ==
    ASSUME IndInv, NEW c \in Callers, UNCHANGED <<index, ids, rest>>,
           DOMAIN pc' = Callers, DOMAIN reply' = Callers, DOMAIN before' = Callers,
           \A d \in Callers \ {c} : pc'[d] = pc[d] /\ reply'[d] = reply[d] /\ before'[d] = before[d],
           before'[c] \subseteq DOMAIN ids,
           pc'[c] # "list",
           pc'[c] \in {"respond", "done"} => reply'[c].is # "addresses"
    PROVE  IndInv'
  <1>1. IndexAbove' /\ PerCaller'
      BY DEF IndInv, IndexAbove, PerCaller
  <1>2. ASSUME NEW d \in Callers
        PROVE  /\ before'[d] \subseteq DOMAIN ids'
               /\ pc'[d] = "list" =>
                    /\ reply'[d] = [is |-> "addresses", ids |-> reply'[d].ids]
                    /\ rest'[d] \subseteq DOMAIN ids'
                    /\ before'[d] \subseteq rest'[d] \cup Got(d)'
               /\ pc'[d] \in {"list", "respond", "done"} /\ reply'[d].is = "addresses" =>
                    \A id \in reply'[d].ids :
                        id.address \in DOMAIN ids' /\ ids'[id.address] = id.ack
               /\ pc'[d] \in {"respond", "done"} /\ reply'[d].is = "addresses" =>
                    /\ before'[d] \subseteq Got(d)'
                    /\ \A id \in reply'[d].ids :
                        id.address \in DOMAIN ids' /\ ids'[id.address] = id.ack
    <2>1. CASE d = c
        BY <2>1
    <2>2. CASE d # c
        BY <2>2 DEF IndInv, ListsRight, ListingComplete, Got
    <2>3. QED
        BY <2>1, <2>2
  <1>3. ListsRight' /\ ListingComplete'
      BY <1>2 DEF ListsRight, ListingComplete, Got
  <1>4. QED
      BY <1>1, <1>3 DEF IndInv

(* A caller asks, by any way.                                              *)
LEMMA AskStep ==
    ASSUME IndInv, NEW c \in Callers, NEW q, DeliverFromSMTP(c, q) \/ try(c, q) \/ Send(c, q)
    PROVE  IndInv'
  <1>1. /\ Ask(c, q) /\ UNCHANGED <<index, ids, rest>>
        /\ \/ Goto(c, "done") /\ reply' \in {[reply EXCEPT ![c] = r] : r \in {Error, Unavailable}}
           \/ Goto(c, "respond") /\ reply' = [reply EXCEPT ![c] = Error]
           \/ Goto(c, "execute") /\ reply' = reply
           \/ Goto(c, "sent") /\ reply' = reply
           \/ pc' = pc /\ reply' = reply
      BY DEF DeliverFromSMTP, try, Send, Answer, Continue, manager
  <1>2. /\ DOMAIN pc = Callers /\ DOMAIN reply = Callers /\ DOMAIN before = Callers
        /\ pc[c] = "idle"
      BY <1>1 DEF Ask, IndInv, PerCaller
  <1>3. DOMAIN before' = Callers /\ before'[c] = DOMAIN ids
        /\ \A d \in Callers \ {c} : before'[d] = before[d]
      BY <1>1, <1>2 DEF Ask
  <1>4. /\ DOMAIN pc' = Callers /\ DOMAIN reply' = Callers
        /\ \A d \in Callers \ {c} : pc'[d] = pc[d] /\ reply'[d] = reply[d]
        /\ pc'[c] # "list"
        /\ pc'[c] \in {"respond", "done"} => reply'[c].is # "addresses"
      BY <1>1, <1>2 DEF Goto, Error, Unavailable
  <1>5. QED
      BY <1>1, <1>3, <1>4, OtherReply

(* The RPC server takes or refuses a request.                              *)
LEMMA RequestStep ==
    ASSUME IndInv, NEW c \in Callers, BMAgentRequest(c) \/ ErrServerStopped(c)
    PROVE  IndInv'
  <1>1. /\ UNCHANGED <<index, ids, rest, before>> /\ pc[c] = "sent"
        /\ \/ Goto(c, "done") /\ reply' \in {[reply EXCEPT ![c] = r] : r \in {Message(Error), Unavailable}}
           \/ Goto(c, "execute") /\ reply' = reply
           \/ pc' = pc /\ reply' = reply
      BY DEF BMAgentRequest, ErrServerStopped, Answer, Continue, manager
  <1>2. Message(Error).is = "empty"
      BY DEF Message, Error
  <1>3. /\ DOMAIN pc = Callers /\ DOMAIN reply = Callers /\ DOMAIN before = Callers
        /\ before[c] \subseteq DOMAIN ids
      BY DEF IndInv, PerCaller, ListsRight
  <1>4. /\ DOMAIN pc' = Callers /\ DOMAIN reply' = Callers
        /\ \A d \in Callers \ {c} : pc'[d] = pc[d] /\ reply'[d] = reply[d]
        /\ pc'[c] # "list"
        /\ pc'[c] \in {"respond", "done"} => reply'[c].is # "addresses"
      BY <1>1, <1>2, <1>3 DEF Goto, Unavailable
  <1>5. QED
      BY <1>1, <1>3, <1>4, OtherReply

LEMMA HelpStep ==
    ASSUME IndInv, NEW c \in Callers, help(c)
    PROVE  IndInv'
  <1>1. PICK r : r.is = "help" /\ Executed(c, r)
      BY DEF help
  <1>2. UNCHANGED <<index, ids, rest, before>> /\ Goto(c, "respond")
        /\ reply' = [reply EXCEPT ![c] = r]
      BY <1>1 DEF help, Executed, manager
  <1>3. /\ DOMAIN pc = Callers /\ DOMAIN reply = Callers /\ DOMAIN before = Callers
        /\ before[c] \subseteq DOMAIN ids
      BY DEF IndInv, PerCaller, ListsRight
  <1>4. QED
      BY <1>1, <1>2, <1>3, OtherReply DEF Goto

(* A new address changes none of those that are there.                     *)
LEMMA NewStep ==
    ASSUME IndInv, NEW c \in Callers, New(c)
    PROVE  IndInv'
  <1>1. PICK n \in index..MaxIndex :
           /\ index' = n + 1
           /\ ids' = [a \in DOMAIN ids \cup {n} |-> IF a = n THEN todo[c].ack ELSE ids[a]]
           /\ Executed(c, [is |-> "newaddress", address |-> n, ack |-> todo[c].ack])
      BY DEF New
  <1>2. /\ UNCHANGED <<rest, before>> /\ Goto(c, "respond")
        /\ reply' = [reply EXCEPT ![c] = [is |-> "newaddress", address |-> n, ack |-> todo[c].ack]]
      BY <1>1 DEF New, Executed
  <1>3. PerCaller'
      BY <1>2 DEF IndInv, PerCaller, Goto
  <1>4. /\ index \in Nat /\ n \in Nat /\ n >= index /\ n \notin DOMAIN ids
        /\ DOMAIN ids' = DOMAIN ids \cup {n}
        /\ \A a \in DOMAIN ids : ids'[a] = ids[a]
      BY <1>1, CommandsAssumption DEF IndInv, IndexAbove
  <1>5. IndexAbove'
      BY <1>1, <1>4 DEF IndInv, IndexAbove
  <1>6. /\ pc'[c] = "respond" /\ reply'[c].is # "addresses"
        /\ \A d \in Callers \ {c} : pc'[d] = pc[d] /\ reply'[d] = reply[d]
      BY <1>2 DEF IndInv, PerCaller, Goto
  <1>7. ListsRight'
    <2> SUFFICES ASSUME NEW d \in Callers
                 PROVE  /\ before[d] \subseteq DOMAIN ids'
                        /\ pc'[d] = "list" =>
                             /\ reply'[d] = [is |-> "addresses", ids |-> reply'[d].ids]
                             /\ rest[d] \subseteq DOMAIN ids'
                             /\ before[d] \subseteq rest[d] \cup Got(d)'
                        /\ pc'[d] \in {"list", "respond", "done"} /\ reply'[d].is = "addresses" =>
                             \A id \in reply'[d].ids :
                                 id.address \in DOMAIN ids' /\ ids'[id.address] = id.ack
        BY <1>2 DEF ListsRight
    <2>1. CASE d = c
        BY <1>4, <1>6, <2>1 DEF IndInv, ListsRight
    <2>2. CASE d # c
        BY <1>4, <1>6, <2>2 DEF IndInv, ListsRight, Got
    <2>3. QED
        BY <2>1, <2>2
  <1>8. ListingComplete'
    <2> SUFFICES ASSUME NEW d \in Callers, pc'[d] \in {"respond", "done"}, reply'[d].is = "addresses"
                 PROVE  /\ before[d] \subseteq {id.address : id \in reply'[d].ids}
                        /\ \A id \in reply'[d].ids :
                              id.address \in DOMAIN ids' /\ ids'[id.address] = id.ack
        BY <1>2 DEF ListingComplete
    <2>1. d # c
        BY <1>6
    <2>2. pc'[d] = pc[d] /\ reply'[d] = reply[d]
        BY <1>6, <2>1
    <2>3. QED
        BY <1>4, <2>2 DEF IndInv, ListingComplete
  <1>9. QED
      BY <1>3, <1>5, <1>7, <1>8 DEF IndInv

(* A step for one caller that changes neither the manager nor what was     *)
(* there when it asked.                                                    *)
LEMMA OwnStep ==
    ASSUME IndInv, NEW c \in Callers, UNCHANGED <<index, ids, before>>, PerCaller',
           \A d \in Callers \ {c} : pc'[d] = pc[d] /\ reply'[d] = reply[d] /\ rest'[d] = rest[d],
           pc'[c] = "list" =>
             /\ reply'[c] = [is |-> "addresses", ids |-> reply'[c].ids]
             /\ rest'[c] \subseteq DOMAIN ids
             /\ before[c] \subseteq rest'[c] \cup Got(c)',
           pc'[c] \in {"list", "respond", "done"} /\ reply'[c].is = "addresses" =>
             \A id \in reply'[c].ids : id.address \in DOMAIN ids /\ ids[id.address] = id.ack,
           pc'[c] \in {"respond", "done"} /\ reply'[c].is = "addresses" => before[c] \subseteq Got(c)'
    PROVE  IndInv'
  <1>1. IndexAbove'
      BY DEF IndInv, IndexAbove
  <1>2. ASSUME NEW d \in Callers
        PROVE  /\ before'[d] \subseteq DOMAIN ids'
               /\ pc'[d] = "list" =>
                    /\ reply'[d] = [is |-> "addresses", ids |-> reply'[d].ids]
                    /\ rest'[d] \subseteq DOMAIN ids'
                    /\ before'[d] \subseteq rest'[d] \cup Got(d)'
               /\ pc'[d] \in {"list", "respond", "done"} /\ reply'[d].is = "addresses" =>
                    \A id \in reply'[d].ids :
                        id.address \in DOMAIN ids' /\ ids'[id.address] = id.ack
               /\ pc'[d] \in {"respond", "done"} /\ reply'[d].is = "addresses" =>
                    before'[d] \subseteq Got(d)'
    <2>1. CASE d = c
        BY <2>1 DEF IndInv, ListsRight
    <2>2. CASE d # c
        BY <2>2 DEF IndInv, ListsRight, ListingComplete, Got
    <2>3. QED
        BY <2>1, <2>2
  <1>3. ListsRight' /\ ListingComplete'
      BY <1>2 DEF ListsRight, ListingComplete, Got
  <1>4. QED
      BY <1>1, <1>3 DEF IndInv

(* A list begins with everything still to get.                             *)
LEMMA NamesStep ==
    ASSUME IndInv, NEW c \in Callers, Names(c)
    PROVE  IndInv'
  <1>1. /\ UNCHANGED <<index, ids, before>>
        /\ rest' = [rest EXCEPT ![c] = DOMAIN ids]
        /\ reply' = [reply EXCEPT ![c] = [is |-> "addresses", ids |-> {}]]
        /\ pc' = [pc EXCEPT ![c] = "list"]
      BY DEF Names, manager, Goto
  <1>2. DOMAIN pc = Callers /\ DOMAIN rest = Callers /\ DOMAIN reply = Callers /\ DOMAIN before = Callers
      BY DEF IndInv, PerCaller
  <1>3. PerCaller'
      BY <1>1, <1>2 DEF PerCaller
  <1>4. rest'[c] = DOMAIN ids /\ reply'[c] = [is |-> "addresses", ids |-> {}] /\ pc'[c] = "list"
      BY <1>1, <1>2
  <1>5. before[c] \subseteq DOMAIN ids
      BY DEF IndInv, ListsRight
  <1>6. QED
      BY <1>1, <1>2, <1>3, <1>4, <1>5, OwnStep

(* An address that is got passes from the rest to the answer.              *)
LEMMA GetStep ==
    ASSUME IndInv, NEW c \in Callers, Get(c)
    PROVE  IndInv'
  <1>1. PICK a \in rest[c] :
           /\ rest' = [rest EXCEPT ![c] = @ \ {a}]
           /\ reply' = [reply EXCEPT ![c].ids = @ \cup {[address |-> a, ack |-> ids[a]]}]
      BY DEF Get
  <1>2. UNCHANGED <<index, ids, before, pc>> /\ pc[c] = "list"
      BY DEF Get, manager
  <1>3. /\ DOMAIN pc = Callers /\ DOMAIN rest = Callers /\ DOMAIN reply = Callers
        /\ DOMAIN before = Callers
      BY DEF IndInv, PerCaller
  <1>4. /\ reply[c] = [is |-> "addresses", ids |-> reply[c].ids]
        /\ rest[c] \subseteq DOMAIN ids
        /\ before[c] \subseteq rest[c] \cup Got(c)
        /\ \A id \in reply[c].ids : id.address \in DOMAIN ids /\ ids[id.address] = id.ack
    <2>1. reply[c] = [is |-> "addresses", ids |-> reply[c].ids]
        BY <1>2 DEF IndInv, ListsRight
    <2>2. reply[c].is = "addresses"
        BY <2>1
    <2>3. QED
        BY <1>2, <2>1, <2>2 DEF IndInv, ListsRight
  <1> DEFINE new == [address |-> a, ack |-> ids[a]]
  <1>5. rest'[c] = rest[c] \ {a}
        /\ reply'[c] = [is |-> "addresses", ids |-> reply[c].ids \cup {new}]
    <2>1. reply'[c] = [reply[c] EXCEPT !.ids = @ \cup {new}]
        BY <1>1, <1>3
    <2>2. rest'[c] = rest[c] \ {a}
        BY <1>1, <1>3
    <2> DEFINE old == reply[c].ids
    <2>3. reply[c] = [is |-> "addresses", ids |-> old]
        BY <1>4
    <2> HIDE DEF old, new
    <2>4. [reply[c] EXCEPT !.ids = @ \cup {new}] = [is |-> "addresses", ids |-> old \cup {new}]
        BY <2>3
    <2>5. QED
        BY <2>1, <2>2, <2>4 DEF old
  <1>6. new.address = a /\ new.ack = ids[a] /\ a \in DOMAIN ids
      BY <1>4
  <1>7. reply'[c].ids = reply[c].ids \cup {new}
      BY <1>5
  <1> HIDE DEF new
  <1>8. Got(c) \cup {a} \subseteq Got(c)'
      BY <1>6, <1>7 DEF Got
  <1>9. before[c] \subseteq rest'[c] \cup Got(c)'
      BY <1>4, <1>5, <1>8
  <1>10. \A id \in reply'[c].ids : id.address \in DOMAIN ids /\ ids[id.address] = id.ack
      BY <1>4, <1>6, <1>7
  <1>11. \A d \in Callers \ {c} : pc'[d] = pc[d] /\ reply'[d] = reply[d] /\ rest'[d] = rest[d]
      BY <1>1, <1>2, <1>3
  <1>12. PerCaller'
      BY <1>1, <1>2, <1>3 DEF PerCaller
  <1>13. rest'[c] \subseteq DOMAIN ids /\ pc'[c] = "list"
      BY <1>2, <1>4, <1>5
  <1>14. reply'[c] = [is |-> "addresses", ids |-> reply'[c].ids]
      BY <1>5, <1>7
  <1>15. QED
      BY <1>2, <1>9, <1>10, <1>11, <1>12, <1>13, <1>14, OwnStep

(* A list with nothing left to get is complete.                            *)
LEMMA ListEndsStep ==
    ASSUME IndInv, NEW c \in Callers, listEnds(c)
    PROVE  IndInv'
  <1>1. /\ UNCHANGED <<index, ids, before, rest, reply>> /\ pc[c] = "list" /\ rest[c] = {}
        /\ pc' = [pc EXCEPT ![c] = "respond"]
      BY DEF listEnds, manager, Goto
  <1>2. DOMAIN pc = Callers /\ PerCaller'
      BY <1>1 DEF IndInv, PerCaller
  <1>3. before[c] \subseteq Got(c)
        /\ (reply[c].is = "addresses" =>
              \A id \in reply[c].ids : id.address \in DOMAIN ids /\ ids[id.address] = id.ack)
      BY <1>1 DEF IndInv, ListsRight
  <1>4. Got(c)' = Got(c)
      BY <1>1 DEF Got
  <1>5. /\ pc'[c] = "respond"
        /\ \A d \in Callers \ {c} : pc'[d] = pc[d] /\ reply'[d] = reply[d] /\ rest'[d] = rest[d]
      BY <1>1, <1>2
  <1>6. before[c] \subseteq Got(c)' /\ reply'[c] = reply[c]
      BY <1>1, <1>3, <1>4
  <1>7. QED
      BY <1>1, <1>2, <1>3, <1>5, <1>6, OwnStep

(* An answer is passed on as it is, or not at all.                         *)
LEMMA RespondStep ==
    ASSUME IndInv, NEW c \in Callers, AddNew(c) \/ Respond(c)
    PROVE  IndInv'
  <1>1. PICK r : /\ reply' = [reply EXCEPT ![c] = r]
                 /\ r = reply[c] \/ r.is # "addresses"
    <2>1. Unavailable.is # "addresses"
        BY DEF Unavailable
    <2>2. CASE AddNew(c)
        BY <2>1, <2>2 DEF AddNew, Answer
    <2>3. CASE Respond(c)
      <3>1. Message(reply[c]) = reply[c] \/ Message(reply[c]).is # "addresses"
        <4>1. CASE reply[c].is = "error"
            BY <4>1 DEF Message
        <4>2. CASE reply[c].is = "help"
          <5>1. Message(reply[c]) = [reply[c] EXCEPT !.long = FALSE]
              BY <4>2 DEF Message
          <5>2. Message(reply[c]).is = "help"
              BY <4>2, <5>1
          <5>3. QED
              BY <5>2
        <4>3. CASE reply[c].is \notin {"error", "help"}
            BY <4>3 DEF Message
        <4>4. QED
            BY <4>1, <4>2, <4>3
      <3>2. QED
          BY <2>1, <2>3, <3>1 DEF Respond, Answer
    <2>4. QED
        BY <2>2, <2>3
  <1>2. /\ UNCHANGED <<index, ids, before, rest>> /\ pc[c] = "respond"
        /\ pc' = [pc EXCEPT ![c] = "done"]
      BY DEF AddNew, Respond, Answer, manager, Goto
  <1>3. DOMAIN pc = Callers /\ DOMAIN reply = Callers /\ PerCaller'
      BY <1>1, <1>2 DEF IndInv, PerCaller
  <1>4. /\ pc'[c] = "done" /\ reply'[c] = r
        /\ \A d \in Callers \ {c} : pc'[d] = pc[d] /\ reply'[d] = reply[d]
      BY <1>1, <1>2, <1>3
  <1>5. ASSUME reply'[c].is = "addresses"
        PROVE  /\ before[c] \subseteq Got(c)'
               /\ \A id \in reply'[c].ids : id.address \in DOMAIN ids /\ ids[id.address] = id.ack
    <2>1. reply'[c] = reply[c]
        BY <1>1, <1>4, <1>5
    <2>2. QED
        BY <1>2, <1>5, <2>1 DEF IndInv, ListingComplete, Got
  <1>6. QED
      BY <1>2, <1>3, <1>4, <1>5, OwnStep

(* Shutdown and stuttering change nothing of this.                         *)
LEMMA RestStep ==
    ASSUME IndInv, UNCHANGED <<index, ids, pc, rest, reply, before>>
    PROVE  IndInv'
  BY DEF IndInv, IndexAbove, PerCaller, ListsRight, ListingComplete, Got

LEMMA InitStep == Init => IndInv
  <1> SUFFICES ASSUME Init PROVE IndInv
      OBVIOUS
  <1>1. IndexAbove
      BY CommandsAssumption DEF Init, IndexAbove
  <1>2. PerCaller /\ ListsRight /\ ListingComplete
      BY DEF Init, PerCaller, ListsRight, ListingComplete, NoReply
  <1>3. QED
      BY <1>1, <1>2 DEF IndInv

(* The invariant holds of every reachable state.                           *)
THEOREM Invariance == Spec => []IndInv
  <1>1. IndInv /\ [Next]_vars => IndInv'
    <2> SUFFICES ASSUME IndInv, [Next]_vars PROVE IndInv'
        OBVIOUS
    <2>1. CASE \E c \in Callers : \E q \in Asks[c] :
                  DeliverFromSMTP(c, q) \/ try(c, q) \/ Send(c, q)
        BY <2>1, AskStep
    <2>2. CASE stopRPC \/ folderBlocks
        BY <2>2, RestStep DEF stopRPC, folderBlocks, manager
    <2>3. CASE \E c \in Callers : Handle(c)
        BY <2>3, RequestStep, HelpStep, NewStep, NamesStep, GetStep, ListEndsStep, RespondStep
        DEF Handle
    <2>4. CASE UNCHANGED vars
        BY <2>4, RestStep DEF vars, manager
    <2>5. QED
        BY <2>1, <2>2, <2>3, <2>4 DEF Next
  <1>2. QED
      BY InitStep, <1>1, PTL DEF Spec

(* A list of addresses is complete, whatever other callers do meanwhile,   *)
(* user/command.go 55-63.                                                  *)
THEOREM ListsAreComplete == Spec => []ListingComplete
  <1>1. IndInv => ListingComplete
      BY DEF IndInv
  <1>2. QED
      BY Invariance, <1>1, PTL
-----------------------------------------------------------------------------
(* The parameters of newaddress, as readNewAddressCommand reads them.      *)
LEMMA NewAddressRead ==
    ASSUME NEW param
    PROVE  IF param \in {<<>>, <<"true">>, <<"false">>}
           THEN /\ readNewAddressCommand(param).is = "newaddress"
                /\ readNewAddressCommand(param).ack = (param # <<"false">>)
           ELSE readNewAddressCommand(param) = Error
  <1> DEFINE T == <<<<"true">>, TRUE>>
             F == <<<<"false">>, FALSE>>
             D == <<<<>>, TRUE>>
             read == ReadPattern \cup {D}
             acks == param # <<"false">>
  <1>1. read = {T, F, D}
      BY DEF ReadPattern
  <1>2. <<"true">> # <<"false">> /\ <<"true">> # <<>> /\ <<"false">> # <<>>
      OBVIOUS
  <1>3. /\ T[1] = <<"true">> /\ F[1] = <<"false">> /\ D[1] = <<>>
        /\ T[2] = TRUE /\ F[2] = FALSE /\ D[2] = TRUE
      OBVIOUS
  <1>4. readNewAddressCommand(param) =
            IF \E e \in read : e[1] = param
            THEN [is |-> "newaddress", ack |-> (CHOOSE e \in read : e[1] = param)[2]]
            ELSE Error
      BY DEF readNewAddressCommand
  <1> HIDE DEF T, F, D, read
  <1>5. (\E e \in read : e[1] = param) <=> param \in {<<>>, <<"true">>, <<"false">>}
      BY <1>1, <1>3
  <1>6. ASSUME NEW e \in read, e[1] = param PROVE e[2] = acks
    <2>1. CASE e = T
      <3>1. acks = TRUE
          BY <1>2, <1>3, <1>6, <2>1
      <3>2. QED
          BY <1>3, <2>1, <3>1, Zenon
    <2>2. CASE e = F
      <3>1. acks = FALSE
          BY <1>2, <1>3, <1>6, <2>2
      <3>2. QED
          BY <1>3, <2>2, <3>1, Zenon
    <2>3. CASE e = D
      <3>1. acks = TRUE
          BY <1>2, <1>3, <1>6, <2>3
      <3>2. QED
          BY <1>3, <2>3, <3>1, Zenon
    <2>4. QED
        BY <1>1, <2>1, <2>2, <2>3
  <1>7. CASE \E e \in read : e[1] = param
    <2>1. PICK it : it = CHOOSE e \in read : e[1] = param
        OBVIOUS
    <2>2. it \in read /\ it[1] = param
        BY <1>7, <2>1
    <2>3. it[2] = acks
        BY <1>6, <2>2
    <2>4. readNewAddressCommand(param) = [is |-> "newaddress", ack |-> it[2]]
        BY <1>4, <1>7, <2>1
    <2>5. readNewAddressCommand(param).is = "newaddress"
          /\ readNewAddressCommand(param).ack = it[2]
        BY <2>4
    <2>6. readNewAddressCommand(param).ack = acks
        BY <2>3, <2>5, Zenon
    <2>7. QED
        BY <1>5, <1>7, <2>5, <2>6, Zenon
  <1>8. CASE ~ \E e \in read : e[1] = param
      BY <1>4, <1>5, <1>8
  <1>9. QED
      BY <1>7, <1>8

(* ReadCommand understands a text, or answers an error to one that asks    *)
(* for nothing.                                                            *)
LEMMA TextRead ==
    ASSUME NEW t
    PROVE  \/ /\ ReadCommand(t) = Error
              /\ \A name \in commands : ~TextAsksFor(t, name)
           \/ /\ ReadCommand(t).is = "help" /\ ReadCommand(t).commands \subseteq commands
              /\ TextAsksFor(t, "help")
           \/ /\ ReadCommand(t).is = "newaddress" /\ TextAsksFor(t, "newaddress")
              /\ ReadCommand(t).ack = (t.params # <<"false">>)
           \/ ReadCommand(t).is = "listaddresses" /\ TextAsksFor(t, "listaddresses")
  <1>1. CASE t.name = "help"
    <2>1. ReadCommand(t) = readHelpCommand(t.params)
        BY <1>1 DEF ReadCommand
    <2>2. Elements(t.params) \subseteq commands <=> \A i \in DOMAIN t.params : t.params[i] \in commands
        BY DEF Elements
    <2>3. QED
        BY <1>1, <2>1, <2>2 DEF readHelpCommand, TextAsksFor
  <1>2. CASE t.name = "newaddress"
    <2>1. ReadCommand(t) = readNewAddressCommand(t.params)
        BY <1>2 DEF ReadCommand
    <2>2. QED
        BY <1>2, <2>1, NewAddressRead DEF TextAsksFor
  <1>3. CASE t.name = "listaddresses"
    <2>1. ReadCommand(t) = readListAddressesCommand(t.params)
        BY <1>3 DEF ReadCommand
    <2>2. QED
        BY <1>3, <2>1 DEF readListAddressesCommand, TextAsksFor
  <1>4. CASE t.name \notin {"help", "newaddress", "listaddresses"}
      BY <1>4 DEF ReadCommand, TextAsksFor
  <1>5. QED
      BY <1>1, <1>2, <1>3, <1>4

(* BuildCommand does the same for a request, or panics, or mixes up what   *)
(* is said of the proof of work.                                           *)
LEMMA RequestBuilt ==
    ASSUME NEW r, r.request.is = "newaddress" => r.request.ack \in BOOLEAN \cup {Nil}
    PROVE  \/ BuildCommand(r) = Panic
           \/ /\ BuildCommand(r) = Error
              /\ \/ \A name \in commands : ~RequestAsksFor(r, name)
                 \/ IsForAddress(r) /\ r.request.nonceTrials # Nil /\ r.request.extraBytes # Nil
           \/ BuildCommand(r).is = "help" /\ RequestAsksFor(r, "help")
           \/ /\ BuildCommand(r).is = "newaddress"
              /\ \/ RequestAsksFor(r, "newaddress")
                 \/ IsForAddress(r) /\ r.request.nonceTrials = Nil /\ r.request.extraBytes # Nil
              /\ BuildCommand(r).ack = (r.request.ack # FALSE)
           \/ BuildCommand(r).is = "listaddresses" /\ RequestAsksFor(r, "listaddresses")
  <1>1. CASE r.version # 1
      BY <1>1 DEF BuildCommand, RequestAsksFor
  <1>2. CASE r.version = 1 /\ r.request.is = "help"
    <2>1. BuildCommand(r) = buildHelpCommand(r.request)
        BY <1>2 DEF BuildCommand
    <2>2. CASE RequestAsksFor(r, "help")
      <3>1. BuildCommand(r) = [is |-> "help", commands |-> r.request.requests]
          BY <2>1, <2>2 DEF buildHelpCommand, RequestAsksFor
      <3>2. BuildCommand(r).is = "help"
          BY <3>1
      <3>3. QED
          BY <2>2, <3>2
    <2>3. CASE ~RequestAsksFor(r, "help")
      <3>1. BuildCommand(r) = Error
          BY <1>2, <2>1, <2>3 DEF buildHelpCommand, RequestAsksFor
      <3>2. \A name \in commands : ~RequestAsksFor(r, name)
          BY <1>2, <2>3 DEF RequestAsksFor
      <3>3. QED
          BY <3>1, <3>2
    <2>4. QED
        BY <2>2, <2>3
  <1>3. CASE r.version = 1 /\ r.request.is = "newaddress"
    <2>1. BuildCommand(r) = buildNewAddressCommand(r.request)
        BY <1>3 DEF BuildCommand
    <2>2. CASE ~IsForAddress(r)
      <3>1. BuildCommand(r) = Error
          BY <1>3, <2>1, <2>2 DEF buildNewAddressCommand, IsForAddress
      <3>2. \A name \in commands : ~RequestAsksFor(r, name)
          BY <1>3, <2>2 DEF RequestAsksFor
      <3>3. QED
          BY <3>1, <3>2
    <2>3. CASE IsForAddress(r) /\ r.request.nonceTrials # Nil
        BY <2>1, <2>3 DEF buildNewAddressCommand, IsForAddress
    <2>4. CASE IsForAddress(r) /\ r.request.nonceTrials = Nil
      <3>1. BuildCommand(r) = [is |-> "newaddress",
                               ack |-> IF r.request.ack = Nil THEN TRUE ELSE r.request.ack]
          BY <2>1, <2>4 DEF buildNewAddressCommand, IsForAddress
      <3>2. (IF r.request.ack = Nil THEN TRUE ELSE r.request.ack) = (r.request.ack # FALSE)
          BY <1>3, CommandsAssumption
      <3>3. /\ BuildCommand(r).is = "newaddress"
            /\ BuildCommand(r).ack = IF r.request.ack = Nil THEN TRUE ELSE r.request.ack
          BY <3>1
      <3>4. \/ RequestAsksFor(r, "newaddress")
            \/ IsForAddress(r) /\ r.request.nonceTrials = Nil /\ r.request.extraBytes # Nil
          BY <1>3, <2>4 DEF RequestAsksFor
      <3>5. BuildCommand(r).ack = (r.request.ack # FALSE)
          BY <3>2, <3>3, Zenon
      <3>6. QED
          BY <3>3, <3>4, <3>5, Zenon
    <2>5. QED
        BY <2>2, <2>3, <2>4
  <1>4. CASE r.version = 1 /\ r.request.is = "listaddresses"
      BY <1>4 DEF BuildCommand, RequestAsksFor
  <1>5. CASE r.version = 1 /\ r.request.is \notin {"help", "newaddress", "listaddresses"}
      BY <1>5 DEF BuildCommand, RequestAsksFor
  <1>6. QED
      BY <1>1, <1>2, <1>3, <1>4, <1>5

(* The request the client makes of a command is built into the same one,   *)
(* except that a new address always returns acks.                          *)
LEMMA ClientBuilt ==
    ASSUME NEW k,
           \/ k.is = "help" /\ k.commands \subseteq commands
           \/ k.is = "newaddress"
           \/ k.is = "listaddresses"
    PROVE  /\ BuildCommand(RPC(k)).is = k.is
           /\ k.is = "newaddress" => BuildCommand(RPC(k)).ack = TRUE
  <1> DEFINE r == RPC(k)
  <1>1. r.version = 1
      BY DEF RPC
  <1>2. CASE k.is = "help"
    <2>1. r.request = [is |-> "help", version |-> 1, requests |-> k.commands]
        BY <1>2 DEF RPC
    <2>2. r.request.is = "help" /\ r.request.version = 1 /\ r.request.requests \subseteq commands
        BY <1>2, <2>1
    <2> HIDE DEF r
    <2>3. BuildCommand(r) = buildHelpCommand(r.request)
        BY <1>1, <2>2 DEF BuildCommand
    <2>4. QED
        BY <1>2, <2>2, <2>3 DEF buildHelpCommand, r
  <1>3. CASE k.is = "newaddress"
    <2>1. r.request = [is |-> "newaddress", addressversion |-> Nil, stream |-> Nil, ack |-> Nil,
                       nonceTrials |-> Nil, extraBytes |-> Nil]
        BY <1>3 DEF RPC
    <2>2. /\ r.request.is = "newaddress" /\ r.request.addressversion = Nil
          /\ r.request.stream = Nil /\ r.request.ack = Nil /\ r.request.nonceTrials = Nil
        BY <2>1
    <2> HIDE DEF r
    <2>3. BuildCommand(r) = buildNewAddressCommand(r.request)
        BY <1>1, <2>2 DEF BuildCommand
    <2>4. buildNewAddressCommand(r.request) = [is |-> "newaddress", ack |-> TRUE]
        BY <2>2 DEF buildNewAddressCommand
    <2>5. QED
        BY <1>3, <2>3, <2>4 DEF r
  <1>4. CASE k.is = "listaddresses"
    <2>1. r.request = [is |-> "listaddresses"]
        BY <1>4 DEF RPC
    <2>2. r.request.is = "listaddresses"
        BY <2>1
    <2> HIDE DEF r
    <2>3. BuildCommand(r) = [is |-> "listaddresses"]
        BY <1>1, <2>2 DEF BuildCommand
    <2>4. QED
        BY <1>4, <2>3 DEF r
  <1>5. QED
      BY <1>2, <1>3, <1>4

(* What a text asks for is what an e-mail of it asks for.                  *)
LEMMA EmailUnderstood ==
    ASSUME NEW q, q.by = "email"
    PROVE  \/ ReadCommand(q.text) = Error /\ \A name \in commands : ~AsksFor(q, name)
           \/ ReadCommand(q.text) # Error /\ Understood(q, ReadCommand(q.text))
  <1>1. \A name : AsksFor(q, name) = TextAsksFor(q.text, name)
      BY DEF AsksFor
  <1>2. AckAsked(q) = (q.text.params # <<"false">>)
      BY DEF AckAsked
  <1>3. PICK k : k = ReadCommand(q.text)
      OBVIOUS
  <1>4. \/ k = Error /\ \A name \in commands : ~AsksFor(q, name)
        \/ k.is = "help" /\ AsksFor(q, "help")
        \/ k.is = "newaddress" /\ AsksFor(q, "newaddress") /\ k.ack = AckAsked(q)
        \/ k.is = "listaddresses" /\ AsksFor(q, "listaddresses")
      BY <1>1, <1>2, <1>3, TextRead, Zenon
  <1>5. k.is \in {"help", "newaddress", "listaddresses"} => k # Error
      BY DEF Error
  <1>6. QED
      BY <1>3, <1>4, <1>5 DEF Understood, GetsAddress

(* The client refuses only what asks for nothing.                          *)
LEMMA ClientUnderstood ==
    ASSUME NEW q, q.by = "client"
    PROVE  ReadCommand(q.text) = Error => \A name \in commands : ~AsksFor(q, name)
  <1>1. \A name : AsksFor(q, name) = TextAsksFor(q.text, name)
      BY DEF AsksFor
  <1>2. ReadCommand(q.text) = Error => ReadCommand(q.text).is = "error"
      BY DEF Error
  <1>3. QED
      BY <1>1, <1>2, TextRead

(* What the RPC server builds is what was asked for, by the client or by   *)
(* another.                                                                *)
LEMMA SentUnderstood ==
    ASSUME NEW q, NEW r, IsSentFor(q, r)
    PROVE  \/ BuildCommand(r) = Panic
           \/ BuildCommand(r) = Error /\ GetsError(q)
           \/ Understood(q, BuildCommand(r))
  <1>1. CASE q \in Request /\ q.by = "rpc" /\ r = q.request
    <2>1. \A name : AsksFor(q, name) = RequestAsksFor(r, name)
        BY <1>1 DEF AsksFor
    <2>2. AckAsked(q) = (r.request.ack # FALSE)
        BY <1>1 DEF AckAsked
    <2>3. r.request.is = "newaddress" => r.request.ack \in BOOLEAN \cup {Nil}
      <3>1. q.request \in BMRPCRequest
          BY <1>1 DEF Request
      <3>2. r.request \in HelpRequest \cup NewAddressRequest \cup [is : {"listaddresses", "none"}]
          BY <1>1, <3>1 DEF BMRPCRequest
      <3>3. QED
          BY <3>2 DEF HelpRequest, NewAddressRequest
    <2>4. PICK k : k = BuildCommand(r)
        OBVIOUS
    <2>5. \/ k = Panic
          \/ k = Error /\ ((\A name \in commands : ~AsksFor(q, name)) \/ PowRefused(q))
          \/ k.is = "help" /\ AsksFor(q, "help")
          \/ /\ k.is = "newaddress" /\ (AsksFor(q, "newaddress") \/ PowIgnored(q))
             /\ k.ack = AckAsked(q)
          \/ k.is = "listaddresses" /\ AsksFor(q, "listaddresses")
        BY <1>1, <2>1, <2>2, <2>3, <2>4, RequestBuilt, Zenon DEF PowRefused, PowIgnored
    <2>6. QED
        BY <2>4, <2>5 DEF Understood, GetsAddress, GetsError
  <1>2. CASE q.by = "client" /\ ReadCommand(q.text) # Error /\ r = RPC(ReadCommand(q.text))
    <2>1. \A name : AsksFor(q, name) = TextAsksFor(q.text, name)
        BY <1>2 DEF AsksFor
    <2>2. AckAsked(q) = TRUE \/ AckDropped(q)
        BY <1>2 DEF AckAsked, AckDropped
    <2>3. PICK k : k = ReadCommand(q.text)
        OBVIOUS
    <2>4. \/ k.is = "help" /\ k.commands \subseteq commands /\ AsksFor(q, "help")
          \/ k.is = "newaddress" /\ AsksFor(q, "newaddress")
          \/ k.is = "listaddresses" /\ AsksFor(q, "listaddresses")
        BY <1>2, <2>1, <2>3, TextRead, Zenon
    <2>5. /\ BuildCommand(r).is = k.is
          /\ k.is = "newaddress" => BuildCommand(r).ack = TRUE
        BY <1>2, <2>3, <2>4, ClientBuilt
    <2>6. k.is = "newaddress" => (BuildCommand(r).ack = AckAsked(q)) \/ AckDropped(q)
        BY <2>2, <2>5, Zenon
    <2>7. QED
        BY <2>4, <2>5, <2>6 DEF Understood, GetsAddress
  <1>3. QED
      BY <1>1, <1>2 DEF IsSentFor

(* A step for one caller keeps what the others have been given, as long as *)
(* the identities that are there stay as they are.                         *)
LEMMA AnswerStep ==
    ASSUME AnswersInv, NEW c \in Callers,
           DOMAIN asked' = Callers, DOMAIN todo' = Callers,
           DOMAIN ids \subseteq DOMAIN ids', \A a \in DOMAIN ids : ids'[a] = ids[a],
           \A d \in Callers \ {c} :
             /\ pc'[d] = pc[d] /\ asked'[d] = asked[d] /\ todo'[d] = todo[d]
             /\ reply'[d] = reply[d] /\ before'[d] = before[d],
           StepFits(c)',
           reply'[c].is = "newaddress" =>
             /\ reply'[c].address \in DOMAIN ids' \ before'[c]
             /\ ids'[reply'[c].address] = reply'[c].ack
             /\ \A d \in Callers \ {c} :
                  reply[d].is = "newaddress" => reply'[c].address # reply[d].address
    PROVE  AnswersInv'
  <1>1. ASSUME NEW d \in Callers PROVE StepFits(d)'
    <2>1. CASE d = c
        BY <2>1
    <2>2. CASE d # c
        BY <2>2 DEF AnswersInv, StepFits
    <2>3. QED
        BY <2>1, <2>2
  <1>2. ASSUME NEW d \in Callers, reply'[d].is = "newaddress"
        PROVE  /\ reply'[d].address \in DOMAIN ids' \ before'[d]
               /\ ids'[reply'[d].address] = reply'[d].ack
    <2>1. CASE d = c
        BY <1>2, <2>1
    <2>2. CASE d # c
        BY <1>2, <2>2 DEF AnswersInv, AddressesGiven
    <2>3. QED
        BY <2>1, <2>2
  <1>3. ASSUME NEW d \in Callers, NEW e \in Callers, d # e,
               reply'[d].is = "newaddress", reply'[e].is = "newaddress"
        PROVE  reply'[d].address # reply'[e].address
    <2>1. CASE d = c
        BY <1>3, <2>1
    <2>2. CASE e = c
        BY <1>3, <2>2
    <2>3. CASE d # c /\ e # c
        BY <1>3, <2>3 DEF AnswersInv, AddressesGiven
    <2>4. QED
        BY <2>1, <2>2, <2>3
  <1>4. AddressesGiven'
      BY <1>2, <1>3 DEF AddressesGiven
  <1>5. QED
      BY <1>1, <1>4 DEF AnswersInv

(* Errors and the replies that tell nothing are not new addresses.         *)
LEMMA PlainReplies ==
    /\ NoReply.is = "none" /\ Error.is = "error" /\ Unavailable.is = "unavailable"
    /\ Message(Error).is = "empty"
  BY DEF NoReply, Error, Unavailable, Message

(* A step for a caller that gives it no address, and leaves the manager    *)
(* alone.                                                                  *)
LEMMA PlainStep ==
    ASSUME AnswersInv, NEW c \in Callers, ids' = ids,
           DOMAIN asked' = Callers, DOMAIN todo' = Callers,
           \A d \in Callers \ {c} :
             /\ pc'[d] = pc[d] /\ asked'[d] = asked[d] /\ todo'[d] = todo[d]
             /\ reply'[d] = reply[d] /\ before'[d] = before[d],
           StepFits(c)',
           \/ reply'[c].is # "newaddress"
           \/ reply'[c] = reply[c] /\ before'[c] = before[c]
    PROVE  AnswersInv'
  <1>1. ASSUME reply'[c].is = "newaddress"
        PROVE  /\ reply'[c].address \in DOMAIN ids' \ before'[c]
               /\ ids'[reply'[c].address] = reply'[c].ack
               /\ \A d \in Callers \ {c} :
                    reply[d].is = "newaddress" => reply'[c].address # reply[d].address
      BY <1>1 DEF AnswersInv, AddressesGiven
  <1>2. DOMAIN ids \subseteq DOMAIN ids' /\ \A a \in DOMAIN ids : ids'[a] = ids[a]
      OBVIOUS
  <1>3. QED
      BY <1>1, <1>2, AnswerStep

LEMMA AskAnswers ==
    ASSUME IndInv, AnswersInv, NEW c \in Callers, NEW q \in Asks[c],
           DeliverFromSMTP(c, q) \/ try(c, q) \/ Send(c, q)
    PROVE  AnswersInv'
  <1>1. /\ pc[c] = "idle" /\ reply[c] = NoReply /\ q \in Request
      BY CommandsAssumption DEF DeliverFromSMTP, try, Send, Ask, AnswersInv, StepFits
  <1>2. /\ DOMAIN pc = Callers /\ DOMAIN reply = Callers /\ DOMAIN before = Callers
        /\ DOMAIN asked = Callers /\ DOMAIN todo = Callers
      BY DEF IndInv, PerCaller, AnswersInv
  <1>3. /\ ids' = ids /\ Ask(c, q)
        /\ \/ /\ Goto(c, "done") /\ UNCHANGED todo
              /\ \/ reply' = [reply EXCEPT ![c] = Unavailable]
                 \/ reply' = [reply EXCEPT ![c] = Error] /\ q.by = "client" /\ ReadCommand(q.text) = Error
           \/ /\ Goto(c, "respond") /\ UNCHANGED todo /\ reply' = [reply EXCEPT ![c] = Error]
              /\ q.by = "email" /\ ReadCommand(q.text) = Error
           \/ /\ Goto(c, "execute") /\ reply' = reply /\ q.by = "email" /\ ReadCommand(q.text) # Error
              /\ todo' = [todo EXCEPT ![c] = ReadCommand(q.text)]
           \/ /\ Goto(c, "sent") /\ reply' = reply
              /\ \E r : todo' = [todo EXCEPT ![c] = r] /\ IsSentFor(q, r)
           \/ pc' = pc /\ reply' = reply /\ todo' = todo
    <2>1. CASE DeliverFromSMTP(c, q)
        BY <2>1 DEF DeliverFromSMTP, Answer, Continue, manager
    <2>2. CASE try(c, q)
        BY <2>2 DEF try, Answer, Continue, manager, IsSentFor
    <2>3. CASE Send(c, q)
        BY <1>1, <2>3 DEF Send, Continue, manager, IsSentFor
    <2>4. QED
        BY <2>1, <2>2, <2>3
  <1>4. /\ DOMAIN asked' = Callers /\ asked'[c] = q /\ DOMAIN todo' = Callers
        /\ \A d \in Callers \ {c} :
             /\ pc'[d] = pc[d] /\ asked'[d] = asked[d] /\ todo'[d] = todo[d]
             /\ reply'[d] = reply[d] /\ before'[d] = before[d]
      BY <1>2, <1>3 DEF Ask, Goto
  <1>5. \/ pc'[c] = "done" /\ reply'[c] = Unavailable
        \/ pc'[c] = "done" /\ reply'[c] = Error /\ q.by = "client" /\ ReadCommand(q.text) = Error
        \/ pc'[c] = "respond" /\ reply'[c] = Error /\ q.by = "email" /\ ReadCommand(q.text) = Error
        \/ /\ pc'[c] = "execute" /\ reply'[c] = NoReply /\ q.by = "email"
           /\ ReadCommand(q.text) # Error /\ todo'[c] = ReadCommand(q.text)
        \/ pc'[c] = "sent" /\ reply'[c] = NoReply /\ IsSentFor(q, todo'[c])
        \/ pc'[c] = "idle" /\ reply'[c] = NoReply
      BY <1>1, <1>2, <1>3 DEF Goto
  <1>6. (q.by \in {"client", "email"} /\ ReadCommand(q.text) = Error) => Fits(q, Error)
      BY EmailUnderstood, ClientUnderstood, PlainReplies DEF Fits, GetsError
  <1>7. (q.by = "email" /\ ReadCommand(q.text) # Error) => Understood(q, ReadCommand(q.text))
      BY EmailUnderstood
  <1>8. StepFits(c)'
      BY <1>4, <1>5, <1>6, <1>7 DEF StepFits
  <1>9. reply'[c].is # "newaddress"
      BY <1>5, PlainReplies
  <1>10. QED
      BY <1>3, <1>4, <1>8, <1>9, PlainStep

LEMMA RequestAnswers ==
    ASSUME IndInv, AnswersInv, NEW c \in Callers, BMAgentRequest(c) \/ ErrServerStopped(c)
    PROVE  AnswersInv'
  <1>1. /\ pc[c] = "sent" /\ reply[c] = NoReply /\ IsSentFor(asked[c], todo[c])
      BY DEF BMAgentRequest, ErrServerStopped, AnswersInv, StepFits
  <1>2. /\ DOMAIN pc = Callers /\ DOMAIN reply = Callers
        /\ DOMAIN asked = Callers /\ DOMAIN todo = Callers
      BY DEF IndInv, PerCaller, AnswersInv
  <1>3. /\ ids' = ids /\ UNCHANGED <<asked, before>>
        /\ \/ /\ Goto(c, "done") /\ UNCHANGED todo
              /\ \/ reply' = [reply EXCEPT ![c] = Unavailable]
                 \/ reply' = [reply EXCEPT ![c] = Message(Error)] /\ BuildCommand(todo[c]) = Error
           \/ /\ Goto(c, "execute") /\ reply' = reply
              /\ BuildCommand(todo[c]) \notin {Error, Panic}
              /\ todo' = [todo EXCEPT ![c] = BuildCommand(todo[c])]
           \/ pc' = pc /\ reply' = reply /\ todo' = todo
    <2>1. CASE BMAgentRequest(c)
        BY <2>1 DEF BMAgentRequest, Answer, Continue, manager
    <2>2. CASE ErrServerStopped(c)
        BY <2>2 DEF ErrServerStopped, Answer, manager
    <2>3. QED
        BY <2>1, <2>2
  <1>4. /\ DOMAIN asked' = Callers /\ asked'[c] = asked[c] /\ DOMAIN todo' = Callers
        /\ \A d \in Callers \ {c} :
             /\ pc'[d] = pc[d] /\ asked'[d] = asked[d] /\ todo'[d] = todo[d]
             /\ reply'[d] = reply[d] /\ before'[d] = before[d]
      BY <1>2, <1>3 DEF Goto
  <1>5. \/ pc'[c] = "done" /\ reply'[c] = Unavailable
        \/ pc'[c] = "done" /\ reply'[c] = Message(Error) /\ BuildCommand(todo[c]) = Error
        \/ /\ pc'[c] = "execute" /\ reply'[c] = NoReply
           /\ BuildCommand(todo[c]) \notin {Error, Panic} /\ todo'[c] = BuildCommand(todo[c])
        \/ pc'[c] = "sent" /\ reply'[c] = NoReply /\ todo'[c] = todo[c]
      BY <1>1, <1>2, <1>3 DEF Goto
  <1>6. BuildCommand(todo[c]) = Error => Fits(asked[c], Message(Error))
    <2>1. Error # Panic /\ ~Understood(asked[c], Error)
        BY DEF Error, Panic, Understood
    <2>2. QED
        BY <1>1, <2>1, SentUnderstood, PlainReplies DEF Fits
  <1>7. BuildCommand(todo[c]) \notin {Error, Panic} => Understood(asked[c], BuildCommand(todo[c]))
      BY <1>1, SentUnderstood
  <1>8. StepFits(c)'
      BY <1>1, <1>4, <1>5, <1>6, <1>7 DEF StepFits
  <1>9. reply'[c].is # "newaddress"
      BY <1>5, PlainReplies
  <1>10. QED
      BY <1>3, <1>4, <1>8, <1>9, PlainStep

LEMMA HelpAnswers ==
    ASSUME IndInv, AnswersInv, NEW c \in Callers, help(c)
    PROVE  AnswersInv'
  <1>1. PICK r : r.is = "help" /\ Executed(c, r)
      BY DEF help
  <1>2. /\ ids' = ids /\ UNCHANGED <<asked, todo, before>> /\ Goto(c, "respond")
        /\ reply' = [reply EXCEPT ![c] = r]
      BY <1>1 DEF help, Executed, manager
  <1>3. AsksFor(asked[c], "help")
      BY DEF help, Executing, AnswersInv, StepFits, Understood
  <1>4. /\ pc'[c] = "respond" /\ reply'[c] = r
        /\ \A d \in Callers \ {c} : pc'[d] = pc[d] /\ reply'[d] = reply[d]
      BY <1>2 DEF IndInv, PerCaller, Goto
  <1>5. StepFits(c)'
      BY <1>1, <1>2, <1>3, <1>4 DEF StepFits, Fits
  <1>6. DOMAIN asked' = Callers /\ DOMAIN todo' = Callers
      BY <1>2 DEF AnswersInv
  <1>7. QED
      BY <1>1, <1>2, <1>4, <1>5, <1>6, PlainStep

(* The address that New gives is nobody's yet.                             *)
LEMMA NewAnswers ==
    ASSUME IndInv, AnswersInv, NEW c \in Callers, New(c)
    PROVE  AnswersInv'
  <1>1. PICK n \in index..MaxIndex :
           /\ ids' = [a \in DOMAIN ids \cup {n} |-> IF a = n THEN todo[c].ack ELSE ids[a]]
           /\ Executed(c, [is |-> "newaddress", address |-> n, ack |-> todo[c].ack])
      BY DEF New
  <1>2. PICK r : r = [is |-> "newaddress", address |-> n, ack |-> todo[c].ack]
      OBVIOUS
  <1>3. r.is = "newaddress" /\ r.address = n /\ r.ack = todo[c].ack
      BY <1>2
  <1>4. /\ UNCHANGED <<asked, todo, before>> /\ Goto(c, "respond")
        /\ reply' = [reply EXCEPT ![c] = r]
      BY <1>1, <1>2 DEF Executed
  <1>5. /\ n \notin DOMAIN ids /\ n \in DOMAIN ids' /\ ids'[n] = todo[c].ack
        /\ DOMAIN ids \subseteq DOMAIN ids'
        /\ \A a \in DOMAIN ids : ids'[a] = ids[a]
    <2>1. index \in Nat /\ MaxIndex \in Nat /\ \A a \in DOMAIN ids : a \in Nat /\ a < index
        BY CommandsAssumption DEF IndInv, IndexAbove
    <2>2. n \notin DOMAIN ids
        BY <2>1
    <2>3. QED
        BY <1>1, <2>2
  <1>6. /\ GetsAddress(asked[c])
        /\ (todo[c].ack = AckAsked(asked[c])) \/ AckDropped(asked[c])
      BY DEF New, Executing, AnswersInv, StepFits, Understood
  <1>7. /\ pc'[c] = "respond" /\ reply'[c] = r
        /\ \A d \in Callers \ {c} : pc'[d] = pc[d] /\ reply'[d] = reply[d]
      BY <1>4 DEF IndInv, PerCaller, Goto
  <1>8. StepFits(c)'
      BY <1>3, <1>4, <1>6, <1>7 DEF StepFits, Fits
  <1>9. n \notin before[c]
      BY <1>5 DEF IndInv, ListsRight
  <1>10. \A d \in Callers \ {c} : reply[d].is = "newaddress" => n # reply[d].address
      BY <1>5 DEF AnswersInv, AddressesGiven
  <1>11. DOMAIN asked' = Callers /\ DOMAIN todo' = Callers
      BY <1>4 DEF AnswersInv
  <1>12. QED
      BY <1>3, <1>4, <1>5, <1>7, <1>8, <1>9, <1>10, <1>11, AnswerStep

LEMMA NamesAnswers ==
    ASSUME IndInv, AnswersInv, NEW c \in Callers, Names(c)
    PROVE  AnswersInv'
  <1>1. PICK r : r = [is |-> "addresses", ids |-> {}]
      OBVIOUS
  <1>2. /\ ids' = ids /\ UNCHANGED <<asked, todo, before>> /\ Goto(c, "list")
        /\ reply' = [reply EXCEPT ![c] = r] /\ r.is = "addresses"
      BY <1>1 DEF Names, manager
  <1>3. AsksFor(asked[c], "listaddresses")
      BY DEF Names, Executing, AnswersInv, StepFits, Understood
  <1>4. /\ pc'[c] = "list" /\ reply'[c] = r
        /\ \A d \in Callers \ {c} : pc'[d] = pc[d] /\ reply'[d] = reply[d]
      BY <1>2 DEF IndInv, PerCaller, Goto
  <1>5. StepFits(c)'
      BY <1>2, <1>3, <1>4 DEF StepFits
  <1>6. DOMAIN asked' = Callers /\ DOMAIN todo' = Callers
      BY <1>2 DEF AnswersInv
  <1>7. QED
      BY <1>2, <1>4, <1>5, <1>6, PlainStep

LEMMA GetAnswers ==
    ASSUME IndInv, AnswersInv, NEW c \in Callers, Get(c)
    PROVE  AnswersInv'
  <1>1. /\ ids' = ids /\ UNCHANGED <<asked, todo, before, pc>> /\ pc[c] = "list"
      BY DEF Get, manager
  <1>2. reply'[c] = [is |-> "addresses", ids |-> reply'[c].ids]
      BY <1>1, GetStep DEF IndInv, ListsRight
  <1>3. reply'[c].is = "addresses"
      BY <1>2
  <1>4. \A d \in Callers \ {c} : reply'[d] = reply[d]
      BY DEF Get, IndInv, PerCaller
  <1>5. StepFits(c)'
      BY <1>1 DEF AnswersInv, StepFits
  <1>6. DOMAIN asked' = Callers /\ DOMAIN todo' = Callers
      BY <1>1 DEF AnswersInv
  <1>7. QED
      BY <1>1, <1>3, <1>4, <1>5, <1>6, PlainStep

LEMMA ListEndsAnswers ==
    ASSUME IndInv, AnswersInv, NEW c \in Callers, listEnds(c)
    PROVE  AnswersInv'
  <1>1. /\ ids' = ids /\ UNCHANGED <<asked, todo, before, reply>> /\ pc[c] = "list"
        /\ Goto(c, "respond")
      BY DEF listEnds, manager
  <1>2. reply[c] = [is |-> "addresses", ids |-> reply[c].ids]
      BY <1>1 DEF IndInv, ListsRight
  <1>3. reply[c].is = "addresses"
      BY <1>2
  <1>4. pc'[c] = "respond" /\ \A d \in Callers \ {c} : pc'[d] = pc[d]
      BY <1>1 DEF IndInv, PerCaller, Goto
  <1>5. StepFits(c)'
      BY <1>1, <1>3, <1>4 DEF AnswersInv, StepFits, Fits
  <1>6. DOMAIN asked' = Callers /\ DOMAIN todo' = Callers
      BY <1>1 DEF AnswersInv
  <1>7. QED
      BY <1>1, <1>3, <1>4, <1>5, <1>6, PlainStep

(* The answer is passed on as it is, without a part of it, or not at all.  *)
LEMMA RespondAnswers ==
    ASSUME IndInv, AnswersInv, NEW c \in Callers, AddNew(c) \/ Respond(c)
    PROVE  AnswersInv'
  <1>1. /\ pc[c] = "respond" /\ Goto(c, "done") /\ ids' = ids
        /\ UNCHANGED <<asked, todo, before>>
        /\ reply' \in {[reply EXCEPT ![c] = r] : r \in {reply[c], Message(reply[c]), Unavailable}}
      BY DEF AddNew, Respond, Answer, manager
  <1>2. /\ pc'[c] = "done" /\ reply'[c] \in {reply[c], Message(reply[c]), Unavailable}
        /\ \A d \in Callers \ {c} : pc'[d] = pc[d] /\ reply'[d] = reply[d]
      BY <1>1 DEF IndInv, PerCaller, Goto
  <1>3. Fits(asked[c], reply[c])
      BY <1>1 DEF AnswersInv, StepFits
  <1>4. /\ Fits(asked[c], Message(reply[c]))
        /\ Message(reply[c]).is = "newaddress" => Message(reply[c]) = reply[c]
    <2>1. CASE reply[c].is = "error"
      <3>1. Message(reply[c]).is = "empty"
          BY <2>1 DEF Message
      <3>2. QED
          BY <1>3, <2>1, <3>1 DEF Fits
    <2>2. CASE reply[c].is = "help"
      <3>1. Message(reply[c]) = [reply[c] EXCEPT !.long = FALSE]
          BY <2>2 DEF Message
      <3>2. Message(reply[c]).is = "help"
          BY <2>2, <3>1
      <3>3. QED
          BY <1>3, <2>2, <3>2 DEF Fits
    <2>3. CASE reply[c].is \notin {"error", "help"}
      <3>1. Message(reply[c]) = reply[c]
          BY <2>3 DEF Message
      <3>2. QED
          BY <1>3, <3>1
    <2>4. QED
        BY <2>1, <2>2, <2>3
  <1>5. StepFits(c)'
      BY <1>1, <1>2, <1>3, <1>4 DEF StepFits
  <1>6. reply'[c].is # "newaddress" \/ (reply'[c] = reply[c] /\ before'[c] = before[c])
      BY <1>1, <1>2, <1>4, PlainReplies
  <1>7. DOMAIN asked' = Callers /\ DOMAIN todo' = Callers
      BY <1>1 DEF AnswersInv
  <1>8. QED
      BY <1>1, <1>2, <1>5, <1>6, <1>7, PlainStep

LEMMA RestAnswers ==
    ASSUME AnswersInv, UNCHANGED <<ids, pc, asked, todo, reply, before>>
    PROVE  AnswersInv'
  BY DEF AnswersInv, StepFits, AddressesGiven

(* Whichever way a command comes in, its answer is one to what it asked    *)
(* for, and a new address is new, returns acks as asked and is given to    *)
(* one caller (cmd/email.go 12, cmd/rpc.go 39), with the three exceptions  *)
(* that AnsweredAsAsked names: the ack the client drops, and the refused   *)
(* and the ignored proof of work.                                          *)
THEOREM AlwaysAnsweredAsAsked == Spec => []AnsweredAsAsked
  <1>1. Init => AnswersInv
    <2> SUFFICES ASSUME Init PROVE AnswersInv
        OBVIOUS
    <2>1. \A c \in Callers : pc[c] = "idle" /\ reply[c] = NoReply
        BY DEF Init
    <2>2. QED
        BY <2>1, PlainReplies DEF Init, AnswersInv, StepFits, AddressesGiven
  <1>2. IndInv /\ AnswersInv /\ [Next]_vars => AnswersInv'
    <2> SUFFICES ASSUME IndInv, AnswersInv, [Next]_vars PROVE AnswersInv'
        OBVIOUS
    <2>1. CASE \E c \in Callers : \E q \in Asks[c] :
                  DeliverFromSMTP(c, q) \/ try(c, q) \/ Send(c, q)
        BY <2>1, AskAnswers
    <2>2. CASE stopRPC \/ folderBlocks
        BY <2>2, RestAnswers DEF stopRPC, folderBlocks, manager
    <2>3. CASE \E c \in Callers : Handle(c)
        BY <2>3, RequestAnswers, HelpAnswers, NewAnswers, NamesAnswers, GetAnswers,
           ListEndsAnswers, RespondAnswers
        DEF Handle
    <2>4. CASE UNCHANGED vars
        BY <2>4, RestAnswers DEF vars, manager
    <2>5. QED
        BY <2>1, <2>2, <2>3, <2>4 DEF Next
  <1>3. AnswersInv => AnsweredAsAsked
    <2> SUFFICES ASSUME AnswersInv, NEW c \in Callers, Done(c)
                 PROVE  \/ reply[c].is = "help" /\ AsksFor(asked[c], "help")
                        \/ /\ reply[c].is = "newaddress" /\ GetsAddress(asked[c])
                           /\ reply[c].address \in DOMAIN ids \ before[c]
                           /\ (reply[c].ack = AckAsked(asked[c])) \/ AckDropped(asked[c])
                           /\ ids[reply[c].address] = reply[c].ack
                           /\ \A d \in Callers \ {c} :
                                reply[d].is = "newaddress" => reply[d].address # reply[c].address
                        \/ reply[c].is = "addresses" /\ AsksFor(asked[c], "listaddresses")
                        \/ reply[c].is \in {"error", "empty"} /\ GetsError(asked[c])
        BY DEF AnsweredAsAsked
    <2>1. Fits(asked[c], reply[c])
        BY DEF Done, AnswersInv, StepFits
    <2>2. reply[c].is = "newaddress" =>
            /\ reply[c].address \in DOMAIN ids \ before[c]
            /\ ids[reply[c].address] = reply[c].ack
            /\ \A d \in Callers \ {c} :
                 reply[d].is = "newaddress" => reply[d].address # reply[c].address
        BY DEF AnswersInv, AddressesGiven
    <2>3. QED
        BY <2>1, <2>2 DEF Fits
  <1>4. QED
      BY Invariance, <1>1, <1>2, <1>3, PTL DEF Spec
=============================================================================

---------------------------- MODULE ServerProofs ----------------------------
(***************************************************************************)
(* Proofs about module Server, for any objects, any number of restarts and *)
(* any interleaving of the streams, the saves, Stop and failures.          *)
(***************************************************************************)
EXTENDS Server, FiniteSetTheorems, TLAPS

USE DEF Numbers, Kind, IsMail, Delivered

(* The numbers of the objects of a stream.                                 *)
LEMMA NumbersAre ==
    ASSUME object \in Objects, NEW s \in Streams
    PROVE  /\ Len(object[s]) \in Nat
           /\ Numbers(s) = 1..Len(object[s])
           /\ Numbers(s) \subseteq Nat
  BY ServerAssumption DEF Numbers

(* saveData saves counters of streams.                                     *)
LEMMA SaveOrderType == SaveOrder \in Seq(Streams)
  <1>1. ASSUME NEW s PROVE IfReceived(s) \in Seq(Streams)
      BY DEF IfReceived
  <1>2. IfReceived("msg") \o IfReceived("broadcast") \in Seq(Streams)
      BY <1>1
  <1>3. QED
      BY <1>1, <1>2 DEF SaveOrder

(* The first process of a new installation satisfies the invariant.        *)
LEMMA InitIndInv == Init => IndInv
  <1> SUFFICES ASSUME Init PROVE IndInv
      OBVIOUS
  <1> USE DEF Init
  <1>1. IsPerObject(stored) /\ IsPerObject(acked)
      BY DEF IsPerObject
  <1>2. TypeOK
      BY <1>1 DEF TypeOK, Savers
  <1>3. CopiesBounded /\ AckMeansStored
      BY DEF CopiesBounded, AckMeansStored
  <1>4. ASSUME NEW s \in Streams, NEW n \in Numbers(s)
        PROVE  /\ ~(n < counter[s]) /\ ~Handled(s)
               /\ stored[s][n] < sessions /\ acked[s][n] < sessions
      BY NumbersAre DEF Handled
  <1>5. \A s \in Streams : avail[s] <= Len(object[s])
      BY NumbersAre
  <1>6. ASSUME NEW s \in Streams
        PROVE  /\ cursor[s] = counter[s] /\ saved[s] = counter[s] /\ counter[s] \in Nat
               /\ pc[s] = "recv"
      OBVIOUS
  <1>7. (\A v \in Savers : held[v] = 0) /\ saving["Stop"] = <<>> /\ sessions = 1
      BY DEF Savers
  <1>8. QED
    <2> HIDE DEF Init, IsMail, Delivered
    <2>1. QED
        BY <1>2, <1>3, <1>4, <1>5, <1>6, <1>7 DEF IndInv

(* Steps that touch neither a stream nor the Inbox keep the invariant as   *)
(* long as what a save has loaded or saved stays behind the counters.      *)
LEMMA OtherStep ==
    ASSUME IndInv, UNCHANGED <<object, streamVars, mailVars, sessions>>,
           avail' \in [Streams -> Nat],
           \A s \in Streams : avail'[s] <= Len(object[s]),
           saved' \in [Streams -> Nat \ {0}],
           \A s \in Streams : saved'[s] <= counter[s],
           saving' \in [Savers -> Seq(Streams)],
           held' \in [Savers -> Nat],
           \A v \in Savers : held'[v] # 0 =>
               saving'[v] # <<>> /\ held'[v] <= counter[Head(saving'[v])],
           stop' \in {"no", "saving", "usersNil", "disconnected", "stopped"},
           stop' = "no" => saving'["Stop"] = <<>>
    PROVE  IndInv'
  <1>1. TypeOK'
      BY DEF IndInv, TypeOK, IsPerObject, streamVars, mailVars
  <1>2. CopiesBounded' /\ AckMeansStored'
      BY DEF IndInv, CopiesBounded, AckMeansStored, mailVars
  <1>3. QED
      BY <1>1, <1>2 DEF IndInv, streamVars, mailVars, Handled

(* Receiving an object: what the counter leaves behind has been handled.   *)
LEMMA RecvStep ==
    ASSUME IndInv, NEW s \in Streams, recv(s)
    PROVE  IndInv'
  <1> USE DEF IndInv, recv, bmdVars, saveVars, mailVars, runVars
  <1>1. cursor[s] \in Numbers(s)
    <2>1. cursor[s] \in Nat \ {0} /\ avail[s] \in Nat /\ cursor[s] <= avail[s]
        BY DEF TypeOK
    <2>2. avail[s] <= Len(object[s])
        OBVIOUS
    <2>3. QED
        BY <2>1, <2>2, NumbersAre
  <1>2. TypeOK'
      BY DEF TypeOK, IsPerObject
  <1>3. CopiesBounded' /\ AckMeansStored'
      BY DEF CopiesBounded, AckMeansStored
  <1>4. ASSUME NEW r \in Streams
        PROVE  /\ avail'[r] <= Len(object'[r])
               /\ cursor'[r] \in {counter'[r], counter'[r] + 1}
               /\ saved'[r] <= counter'[r]
               /\ pc'[r] # "recv" => cursor'[r] = counter'[r] + 1 /\ counter'[r] \in Numbers(r)
               /\ pc'[r] = "ack" => r = "msg" /\ IsMail(r, counter'[r])
      BY <1>1 DEF TypeOK
  <1>5. ASSUME NEW r \in Streams, NEW n \in Numbers(r)
        PROVE  /\ n < counter'[r] /\ IsMail(r, n) => Delivered(r, n)'
               /\ n = counter'[r] /\ Handled(r)' /\ IsMail(r, n) => Delivered(r, n)'
               /\ n >= cursor'[r] => stored'[r][n] < sessions' /\ acked'[r][n] < sessions'
               /\ n = counter'[r] /\ pc'[r] = "handle" =>
                     stored'[r][n] < sessions' /\ acked'[r][n] < sessions'
               /\ n = counter'[r] /\ pc'[r] = "ack" => acked'[r][n] < sessions'
    <2>1. CASE r # s
        BY <2>1 DEF TypeOK, Handled
    <2>2. CASE r = s
      <3>1. n \in Nat
          BY NumbersAre
      <3>2. counter'[s] = cursor[s] /\ cursor'[s] = cursor[s] + 1
          BY DEF TypeOK
      <3>3. ASSUME n < cursor[s], IsMail(s, n) PROVE Delivered(s, n)
        <4>1. cursor[s] = counter[s] \/ cursor[s] = counter[s] + 1
            OBVIOUS
        <4>2. counter[s] \in Nat /\ cursor[s] \in Nat
            BY DEF TypeOK
        <4>3. n < counter[s] \/ (n = counter[s] /\ cursor[s] = counter[s] + 1)
            BY <3>1, <3>3, <4>1, <4>2
        <4>4. CASE n < counter[s]
            BY <2>2, <3>3, <4>4
        <4>5. CASE n = counter[s] /\ cursor[s] = counter[s] + 1
            BY <2>2, <3>3, <4>5 DEF Handled
        <4>6. QED
            BY <4>3, <4>4, <4>5
      <3>4. pc'[s] = "handle" \/ (pc'[s] = "recv" /\ ~Concerns(s, cursor[s]))
          BY DEF TypeOK
      <3>5. IsMail(s, cursor[s]) => Concerns(s, cursor[s])
          BY DEF IsMail, Concerns
      <3>6. QED
          BY <2>2, <3>1, <3>2, <3>3, <3>4, <3>5 DEF TypeOK, Handled
    <2>3. QED
        BY <2>1, <2>2
  <1>6. \A v \in Savers : held'[v] # 0 =>
            saving'[v] # <<>> /\ held'[v] <= counter'[Head(saving'[v])]
    <2> SUFFICES ASSUME NEW v \in Savers, held[v] # 0
                 PROVE  held[v] <= counter'[Head(saving[v])]
        BY DEF TypeOK
    <2>1. Head(saving[v]) \in Streams
        BY DEF TypeOK
    <2> DEFINE h == Head(saving[v])
    <2>2. counter[h] \in Nat /\ counter'[h] \in Nat /\ held[v] \in Nat
        BY <2>1, <1>2 DEF TypeOK
    <2>3. counter[h] <= counter'[h]
      <3>1. CASE h = s
        <4>1. counter'[h] = cursor[h] /\ cursor[h] \in {counter[h], counter[h] + 1}
            BY <3>1 DEF TypeOK
        <4>2. QED
            BY <2>2, <4>1
      <3>2. CASE h # s
        <4>1. counter'[h] = counter[h]
            BY <2>1, <3>2 DEF TypeOK
        <4>2. QED
            BY <2>2, <4>1
      <3>3. QED
          BY <3>1, <3>2
    <2>4. held[v] <= counter[h]
        OBVIOUS
    <2>5. QED
        BY <2>2, <2>3, <2>4
  <1>7. QED
      BY <1>2, <1>3, <1>4, <1>5, <1>6

(* Adding the object of the counter to the Inbox, by newMessage or by      *)
(* newBroadcast.                                                           *)
LEMMA DeliverStep ==
    ASSUME IndInv, NEW s \in Streams, NEW next, pc[s] = "handle",
           next = "recv" \/ (next = "ack" /\ s = "msg" /\ IsMail(s, counter[s])),
           insert(s),
           pc' = [pc EXCEPT ![s] = next],
           UNCHANGED <<bmdVars, open, cursor, counter, saveVars, acked, runVars>>
    PROVE  IndInv'
  <1> USE DEF IndInv, bmdVars, saveVars, runVars
  <1>0. /\ IsPerObject(stored')
        /\ \A r \in Streams : \A n \in Numbers(r) :
             /\ stored[r][n] \in Nat /\ stored'[r][n] \in Nat
             /\ stored'[r][n] >= stored[r][n]
             /\ r # s \/ n # counter[s] => stored'[r][n] = stored[r][n]
             /\ stored'[r][n] <= stored[r][n] + 1
    <2>1. CASE stored' = stored
        BY <2>1 DEF TypeOK, IsPerObject
    <2>2. CASE stored' = [stored EXCEPT ![s][counter[s]] = @ + 1]
      <3>1. s \in Streams /\ counter[s] \in Numbers(s)
          OBVIOUS
      <3>2. /\ stored = [r \in Streams |-> stored[r]]
            /\ \A r \in Streams : stored[r] \in [Numbers(r) -> Nat]
          BY DEF TypeOK, IsPerObject
      <3>3. stored' = [r \in Streams |->
                IF r = s THEN [stored[s] EXCEPT ![counter[s]] = @ + 1] ELSE stored[r]]
          BY <2>2, <3>2
      <3>4. stored'[s] = [n \in Numbers(s) |->
                IF n = counter[s] THEN stored[s][n] + 1 ELSE stored[s][n]]
        <4>1. stored'[s] = [stored[s] EXCEPT ![counter[s]] = @ + 1]
            BY <3>1, <3>3
        <4>2. stored[s] \in [Numbers(s) -> Nat]
            BY <3>1, <3>2
        <4>3. QED
            BY ONLY <4>1, <4>2
      <3>5. \A r \in Streams : r # s => stored'[r] = stored[r]
          BY <3>3
      <3>6. stored' = [r \in Streams |-> stored'[r]]
          BY <3>3
      <3>7. stored'[s] \in [Numbers(s) -> Nat]
          BY <3>1, <3>2, <3>4
      <3>8. IsPerObject(stored')
          BY <3>2, <3>5, <3>6, <3>7 DEF IsPerObject
      <3>9. ASSUME NEW r \in Streams, NEW n \in Numbers(r)
            PROVE  /\ stored[r][n] \in Nat /\ stored'[r][n] \in Nat
                   /\ stored'[r][n] = IF r = s /\ n = counter[s]
                                     THEN stored[r][n] + 1 ELSE stored[r][n]
        <4>1. stored[r] \in [Numbers(r) -> Nat] /\ stored'[r] \in [Numbers(r) -> Nat]
            BY <3>2, <3>8 DEF IsPerObject
        <4>2. CASE r = s
            BY <3>4, <4>1, <4>2
        <4>3. CASE r # s
            BY <3>5, <4>1, <4>3
        <4>4. QED
            BY <4>2, <4>3
      <3>10. QED
          BY <3>8, <3>9
    <2>3. QED
        BY <2>1, <2>2 DEF insert
  <1>1. TypeOK'
      BY <1>0 DEF TypeOK, IsPerObject
  <1>2. /\ counter[s] \in Numbers(s)
        /\ Delivered(s, counter[s])'
        /\ lost \subseteq lost'
    <2>1. counter[s] \in Numbers(s) /\ counter' = counter
        OBVIOUS
    <2>2. CASE stored' = [stored EXCEPT ![s][counter[s]] = @ + 1] /\ lost' = lost
      <3>1. stored[s] \in [Numbers(s) -> Nat] /\ stored = [r \in Streams |-> stored[r]]
          BY DEF TypeOK, IsPerObject
      <3>2. stored'[s][counter[s]] = stored[s][counter[s]] + 1
          BY <2>1, <2>2, <3>1
      <3>3. stored[s][counter[s]] \in Nat
          BY <2>1, <3>1
      <3>4. QED
          BY <2>1, <2>2, <3>2, <3>3
    <2>3. CASE lost' = lost \cup {<<s, counter[s]>>}
        BY <2>1, <2>3
    <2>4. QED
        BY <2>2, <2>3 DEF insert
  <1>3. ASSUME NEW r \in Streams, NEW n \in Numbers(r)
        PROVE  /\ acked[r][n] \in Nat
               /\ Delivered(r, n) => Delivered(r, n)'
    <2>1. acked[r][n] \in Nat
        BY DEF TypeOK, IsPerObject
    <2>2. QED
        BY <1>0, <1>2, <2>1
  <1>4. CopiesBounded'
    <2> SUFFICES ASSUME NEW r \in Streams, NEW n \in Numbers(r)
                 PROVE  stored'[r][n] <= sessions /\ acked[r][n] <= sessions
        BY DEF CopiesBounded
    <2>1. CASE r # s \/ n # counter[s]
        BY <1>0, <2>1 DEF CopiesBounded
    <2>2. CASE r = s /\ n = counter[s]
      <3>1. stored[s][n] < sessions /\ acked[s][n] < sessions
          BY <2>2
      <3>2. stored'[s][n] <= stored[s][n] + 1 /\ stored[s][n] \in Nat /\ stored'[s][n] \in Nat
          BY <1>0, <2>2
      <3>3. acked[s][n] \in Nat
          BY <1>3, <2>2
      <3>4. QED
          BY <2>2, <3>1, <3>2, <3>3
    <2>3. QED
        BY <2>1, <2>2
  <1>5. AckMeansStored'
      BY <1>3 DEF AckMeansStored
  <1>6. ASSUME NEW r \in Streams, NEW n \in Numbers(r)
        PROVE  /\ n < counter'[r] /\ IsMail(r, n) => Delivered(r, n)'
               /\ n = counter'[r] /\ Handled(r)' /\ IsMail(r, n) => Delivered(r, n)'
               /\ n >= cursor'[r] => stored'[r][n] < sessions' /\ acked'[r][n] < sessions'
               /\ n = counter'[r] /\ pc'[r] = "handle" =>
                     stored'[r][n] < sessions' /\ acked'[r][n] < sessions'
               /\ n = counter'[r] /\ pc'[r] = "ack" => acked'[r][n] < sessions'
    <2>1. CASE r # s
      <3>1. stored'[r][n] = stored[r][n] /\ pc'[r] = pc[r]
          BY <1>0, <2>1 DEF TypeOK
      <3>2. QED
          BY <1>3, <3>1 DEF Handled
    <2>2. CASE r = s
      <3>1. n \in Nat /\ counter[s] \in Nat /\ cursor[s] = counter[s] + 1
          BY <2>2, NumbersAre DEF TypeOK
      <3>2. pc'[s] # "handle"
          BY DEF TypeOK
      <3>3. n < counter[s] /\ IsMail(s, n) => Delivered(s, n)'
          BY <2>2, <3>1, <1>3
      <3>4. n >= cursor[s] => stored'[s][n] < sessions /\ acked[s][n] < sessions
        <4>1. n >= cursor[s] => n # counter[s]
            BY <3>1
        <4>2. n # counter[s] => stored'[s][n] = stored[s][n]
            BY <2>2, <1>0
        <4>3. QED
            BY <2>2, <4>1, <4>2
      <3>5. n = counter[s] => acked[s][n] < sessions
          BY <2>2
      <3>6. QED
          BY <2>2, <3>2, <3>3, <3>4, <3>5, <1>2
    <2>3. QED
        BY <2>1, <2>2
  <1>7. \A r \in Streams :
               /\ avail'[r] <= Len(object'[r])
               /\ cursor'[r] \in {counter'[r], counter'[r] + 1}
               /\ saved'[r] <= counter'[r]
               /\ pc'[r] # "recv" => cursor'[r] = counter'[r] + 1 /\ counter'[r] \in Numbers(r)
               /\ pc'[r] = "ack" => r = "msg" /\ IsMail(r, counter'[r])
      BY DEF TypeOK
  <1>8. QED
      BY <1>1, <1>4, <1>5, <1>6, <1>7

(* Sending the ack of the object of the counter, or failing to.            *)
LEMMA AckStep ==
    ASSUME IndInv, sendAck
    PROVE  IndInv'
  <1> USE DEF IndInv, sendAck, bmdVars, saveVars, runVars
  <1> DEFINE c == counter["msg"]
  <1>0. "msg" \in Streams /\ pc["msg"] = "ack" /\ c \in Numbers("msg")
      OBVIOUS
  <1>1. /\ IsPerObject(acked')
        /\ \A r \in Streams : \A n \in Numbers(r) :
             /\ acked[r][n] \in Nat /\ acked'[r][n] \in Nat
             /\ r # "msg" \/ n # c => acked'[r][n] = acked[r][n]
             /\ acked'[r][n] \in {acked[r][n], acked[r][n] + 1}
    <2>1. CASE acked' = acked
        BY <2>1 DEF TypeOK, IsPerObject
    <2>2. CASE acked' = [acked EXCEPT !["msg"][c] = @ + 1]
      <3>1. /\ IsPerObject(acked')
            /\ \A r \in Streams : \A n \in Numbers(r) :
                 /\ acked[r][n] \in Nat /\ acked'[r][n] \in Nat
                 /\ acked'[r][n] = IF r = "msg" /\ n = c
                                   THEN acked[r][n] + 1 ELSE acked[r][n]
        <4>1. "msg" \in Streams /\ c \in Numbers("msg")
            BY <1>0
        <4>2. /\ acked = [r \in Streams |-> acked[r]]
              /\ \A r \in Streams : acked[r] \in [Numbers(r) -> Nat]
            BY DEF TypeOK, IsPerObject
        <4>3. acked' = [r \in Streams |->
                  IF r = "msg" THEN [acked["msg"] EXCEPT ![c] = @ + 1] ELSE acked[r]]
            BY <2>2, <4>2
        <4>4. acked'["msg"] = [n \in Numbers("msg") |->
                  IF n = c THEN acked["msg"][n] + 1 ELSE acked["msg"][n]]
            BY <4>1, <4>2, <4>3
        <4>5. \A r \in Streams : r # "msg" => acked'[r] = acked[r]
            BY <4>3
        <4>6. acked' = [r \in Streams |-> acked'[r]]
            BY <4>3
        <4>7. acked'["msg"] \in [Numbers("msg") -> Nat]
            BY <4>1, <4>2, <4>4
        <4>8. IsPerObject(acked')
            BY <4>2, <4>5, <4>6, <4>7 DEF IsPerObject
        <4>9. ASSUME NEW r \in Streams, NEW n \in Numbers(r)
              PROVE  /\ acked[r][n] \in Nat /\ acked'[r][n] \in Nat
                     /\ acked'[r][n] = IF r = "msg" /\ n = c
                                       THEN acked[r][n] + 1 ELSE acked[r][n]
          <5>1. acked[r] \in [Numbers(r) -> Nat] /\ acked'[r] \in [Numbers(r) -> Nat]
              BY <4>2, <4>8 DEF IsPerObject
          <5>2. CASE r = "msg"
              BY <4>4, <5>1, <5>2
          <5>3. CASE r # "msg"
              BY <4>5, <5>1, <5>3
          <5>4. QED
              BY <5>2, <5>3
        <4>10. QED
            BY <4>8, <4>9
      <3>2. QED
          BY <3>1
    <2>3. QED
        BY <2>1, <2>2
  <1>2. TypeOK'
      BY <1>1 DEF TypeOK, IsPerObject
  <1>3. Delivered("msg", c) /\ acked["msg"][c] < sessions
      BY <1>0 DEF Handled
  <1>4. CopiesBounded'
      BY <1>0, <1>1, <1>3 DEF CopiesBounded
  <1>5. AckMeansStored'
    <2> SUFFICES ASSUME NEW r \in Streams, NEW n \in Numbers(r), acked'[r][n] > 0
                 PROVE  Delivered(r, n)'
        BY DEF AckMeansStored
    <2>1. Delivered(r, n)' <=> Delivered(r, n)
        OBVIOUS
    <2>2. CASE r = "msg" /\ n = c
        BY <1>3, <2>1, <2>2
    <2>3. CASE r # "msg" \/ n # c
      <3>1. acked[r][n] > 0
          BY <1>1, <2>3
      <3>2. QED
          BY <2>1, <3>1 DEF AckMeansStored
    <2>4. QED
        BY <2>2, <2>3
  <1>6. ASSUME NEW r \in Streams, NEW n \in Numbers(r)
        PROVE  /\ n < counter'[r] /\ IsMail(r, n) => Delivered(r, n)'
               /\ n = counter'[r] /\ Handled(r)' /\ IsMail(r, n) => Delivered(r, n)'
               /\ n >= cursor'[r] => stored'[r][n] < sessions' /\ acked'[r][n] < sessions'
               /\ n = counter'[r] /\ pc'[r] = "handle" =>
                     stored'[r][n] < sessions' /\ acked'[r][n] < sessions'
               /\ n = counter'[r] /\ pc'[r] = "ack" => acked'[r][n] < sessions'
    <2>1. CASE r # "msg"
      <3>1. acked'[r][n] = acked[r][n] /\ pc'[r] = pc[r]
          BY <1>1, <2>1 DEF TypeOK
      <3>2. QED
          BY <3>1 DEF Handled
    <2>2. CASE r = "msg"
        BY <2>2, <1>0, <1>1, <1>3, NumbersAre DEF TypeOK, Handled
    <2>3. QED
        BY <2>1, <2>2
  <1>7. QED
      BY <1>2, <1>4, <1>5, <1>6 DEF TypeOK

(* A new process begins at the saved counters, and has delivered nothing.  *)
LEMMA RestartStep ==
    ASSUME IndInv, restart
    PROVE  IndInv'
  <1> USE DEF IndInv, restart, bmdVars, mailVars
  <1>1. TypeOK'
      BY DEF TypeOK, IsPerObject, Savers
  <1>2. ASSUME NEW r \in Streams, NEW n \in Numbers(r)
        PROVE  /\ stored'[r][n] < sessions' /\ acked'[r][n] < sessions'
               /\ n < counter'[r] /\ IsMail(r, n) => Delivered(r, n)'
    <2>1. n \in Nat /\ stored[r][n] \in Nat /\ acked[r][n] \in Nat
        BY NumbersAre DEF TypeOK, IsPerObject
    <2>2. stored[r][n] <= sessions /\ acked[r][n] <= sessions /\ sessions \in Nat
        BY DEF CopiesBounded
    <2>3. saved[r] \in Nat /\ counter[r] \in Nat /\ saved[r] <= counter[r]
        BY DEF TypeOK
    <2>4. n < saved[r] => n < counter[r]
        BY <2>1, <2>3
    <2>5. QED
        BY <2>1, <2>2, <2>4
  <1>3. CopiesBounded'
    <2> SUFFICES ASSUME NEW r \in Streams, NEW n \in Numbers(r)
                 PROVE  stored'[r][n] <= sessions' /\ acked'[r][n] <= sessions'
        BY DEF CopiesBounded
    <2>1. stored'[r][n] \in Nat /\ acked'[r][n] \in Nat /\ sessions' \in Nat
      <3>1. stored[r] \in [Numbers(r) -> Nat] /\ acked[r] \in [Numbers(r) -> Nat]
          BY DEF TypeOK, IsPerObject
      <3>2. QED
          BY <3>1
    <2>2. stored'[r][n] < sessions' /\ acked'[r][n] < sessions'
        BY <1>2
    <2>3. QED
        BY ONLY <2>1, <2>2
  <1>4. AckMeansStored'
      BY DEF AckMeansStored
  <1>5. ASSUME NEW r \in Streams
        PROVE  /\ avail'[r] <= Len(object'[r])
               /\ cursor'[r] = counter'[r] /\ saved'[r] = counter'[r]
               /\ pc'[r] = "recv" /\ ~Handled(r)' /\ saved'[r] \in Nat
      BY DEF TypeOK, Handled
  <1>6. (\A v \in Savers : held'[v] = 0) /\ saving'["Stop"] = <<>>
      BY DEF Savers
  <1>7. QED
      BY <1>1, <1>2, <1>3, <1>4, <1>5, <1>6

(* The invariant is preserved by every step.                               *)
LEMMA StepIndInv ==
    ASSUME IndInv, [Next]_vars
    PROVE  IndInv'
  <1> USE DEF IndInv, TypeOK, bmdVars
  <1>1. ASSUME NEW s \in Streams, bmdReceives(s) PROVE IndInv'
    <2> USE <1>1 DEF bmdReceives, bmdVars, saveVars, runVars
    <2>1. avail' \in [Streams -> Nat] /\ \A r \in Streams : avail'[r] <= Len(object'[r])
        BY NumbersAre
    <2>2. QED
        BY <2>1, OtherStep
  <1>2. ASSUME NEW s \in Streams, HandlerStep(s) \/ streamEnds(s) PROVE IndInv'
    <2>1. CASE recv(s)
        BY <2>1, RecvStep
    <2>2. CASE streamEnds(s)
      <3> USE <2>2 DEF streamEnds, saveVars, mailVars, runVars
      <3>1. TypeOK'
          BY DEF IsPerObject
      <3>2. CopiesBounded' /\ AckMeansStored'
          BY DEF CopiesBounded, AckMeansStored
      <3>3. QED
          BY <3>1, <3>2 DEF Handled
    <2>3. CASE panic(s)
        BY <2>3, OtherStep DEF panic, saveVars
    <2>4. CASE s = "msg" /\ newMessage
      <3> USE <2>4 DEF newMessage
      <3>1. Kind("msg", counter["msg"]) = "mine" => IsMail("msg", counter["msg"])
          BY DEF IsMail
      <3>2. QED
          BY <3>1, DeliverStep
    <2>5. CASE s = "msg" /\ sendAck
        BY <2>5, AckStep
    <2>6. CASE s = "broadcast" /\ newBroadcast
        BY <2>6, DeliverStep DEF newBroadcast
    <2>7. CASE s = "getpubkey" /\ newGetpubkey
      <3> USE <2>7 DEF newGetpubkey, saveVars, mailVars, runVars
      <3>1. TypeOK'
          BY DEF IsPerObject
      <3>2. CopiesBounded' /\ AckMeansStored'
          BY DEF CopiesBounded, AckMeansStored
      <3>3. \A n \in Numbers(s) : ~IsMail(s, n)
          BY DEF IsMail
      <3>4. QED
          BY <3>1, <3>2, <3>3 DEF Handled
    <2>8. QED
        BY <1>2, <2>1, <2>2, <2>3, <2>4, <2>5, <2>6, <2>7 DEF HandlerStep
  <1>3. CASE powStep
      BY <1>3, OtherStep DEF powStep, saveVars, runVars
  <1>4. ASSUME NEW o \in DOMAIN orders, sendPubkey(o) PROVE IndInv'
      BY <1>4, OtherStep DEF sendPubkey, saveVars, runVars
  <1>5. CASE savePeriodically
    <2> USE <1>5 DEF savePeriodically, runVars
    <2>1. SaveOrder \in Seq(Streams)
        BY SaveOrderType
    <2>2. held["ticker"] = 0 /\ saving'["Stop"] = saving["Stop"]
        BY DEF Savers
    <2>3. QED
        BY <2>1, <2>2, OtherStep
  <1>6. ASSUME NEW v \in Savers, saveLoad(v) PROVE IndInv'
    <2> USE <1>6 DEF saveLoad, runVars
    <2>1. Head(saving[v]) \in Streams
        OBVIOUS
    <2>2. counter[Head(saving[v])] \in Nat
        BY <2>1
    <2>3. held' \in [Savers -> Nat]
        BY <2>2
    <2>4. ASSUME NEW w \in Savers, held'[w] # 0
          PROVE  saving'[w] # <<>> /\ held'[w] <= counter[Head(saving'[w])]
      <3>1. CASE w = v
          BY <2>2, <3>1
      <3>2. CASE w # v
          BY <2>4, <3>2
      <3>3. QED
          BY <3>1, <3>2
    <2>5. QED
        BY <2>3, <2>4, OtherStep
  <1>7. ASSUME NEW v \in Savers, SetCounter(v) PROVE IndInv'
    <2> USE <1>7 DEF SetCounter, runVars
    <2>1. saving[v] # <<>> /\ Head(saving[v]) \in Streams /\ Tail(saving[v]) \in Seq(Streams)
        OBVIOUS
    <2>2. stop = "no" => v # "Stop" /\ saving'["Stop"] = <<>>
        BY <2>1 DEF Savers
    <2>3. QED
        BY <2>1, <2>2, OtherStep
  <1>10. CASE Stop
    <2> USE <1>10 DEF Stop
    <2>1. saving' \in [Savers -> Seq(Streams)]
        BY SaveOrderType
    <2>2. held["Stop"] = 0
        BY DEF Savers
    <2>3. QED
        BY <2>1, <2>2, OtherStep
  <1>11. CASE dropUsers \/ stopClient \/ closeQuit \/ inboxBlocks
      BY <1>11, OtherStep DEF dropUsers, stopClient, closeQuit, inboxBlocks, saveVars
  <1>12. CASE restart
      BY <1>12, RestartStep
  <1>13. CASE UNCHANGED vars
      BY <1>13, OtherStep DEF vars, saveVars, runVars
  <1>14. QED
      BY <1>1, <1>2, <1>3, <1>4, <1>5, <1>6, <1>7, <1>10, <1>11, <1>12,
         <1>13 DEF Next

(* The inductive invariant holds of every reachable state.                 *)
THEOREM Invariance ==
    Spec => []IndInv
  <1>1. Init => IndInv
      BY InitIndInv
  <1>2. IndInv /\ [Next]_vars => IndInv'
      BY StepIndInv
  <1>3. QED
      BY <1>1, <1>2, PTL DEF Spec

(* A message below the saved counter is in the Inbox, though the counter   *)
(* is stored and may be saved before the message is.                       *)
THEOREM NothingIsSkipped ==
    Spec => []NothingSkipped
  <1>1. IndInv => NothingSkipped
    <2> SUFFICES ASSUME IndInv, NEW s \in Streams, NEW n \in Numbers(s),
                        n < saved[s], IsMail(s, n)
                 PROVE  Delivered(s, n)
        BY DEF NothingSkipped
    <2>1. n < counter[s]
        BY NumbersAre DEF IndInv, TypeOK
    <2>2. QED
        BY <2>1 DEF IndInv
  <1>2. QED
      BY Invariance, <1>1, PTL

(* An ack is only sent for a message that is in the Inbox.                 *)
THEOREM AckedIsStored ==
    Spec => []AckMeansStored
  <1>1. IndInv => AckMeansStored
      BY DEF IndInv
  <1>2. QED
      BY Invariance, <1>1, PTL

(* One process delivers an object and sends its ack at most once.          *)
THEOREM OncePerSession ==
    Spec => []CopiesBounded
  <1>1. IndInv => CopiesBounded
      BY DEF IndInv
  <1>2. QED
      BY Invariance, <1>1, PTL
-----------------------------------------------------------------------------
(* An order adds to the answers of its own request, and to no other's.     *)
LEMMA AnswersAppend ==
    ASSUME orders \in Seq(Nat), NEW c \in Nat, orders' = Append(orders, c), NEW n \in Nat
    PROVE  /\ IsFiniteSet(Answers(n)) /\ Cardinality(Answers(n)) \in Nat
           /\ Cardinality(Answers(n)') = IF n = c THEN Cardinality(Answers(n)) + 1
                                         ELSE Cardinality(Answers(n))
  <1>1. /\ Len(orders) \in Nat /\ DOMAIN orders = 1..Len(orders)
        /\ DOMAIN orders' = 1..(Len(orders) + 1)
        /\ orders'[Len(orders) + 1] = c
        /\ \A o \in DOMAIN orders : orders'[o] = orders[o]
      OBVIOUS
  <1>2. IsFiniteSet(Answers(n)) /\ Cardinality(Answers(n)) \in Nat
    <2>1. IsFiniteSet(DOMAIN orders)
        BY <1>1, FS_Interval
    <2>2. Answers(n) \subseteq DOMAIN orders
        BY DEF Answers
    <2>3. QED
        BY <2>1, <2>2, FS_Subset, FS_CardinalityType
  <1>3. Len(orders) + 1 \notin Answers(n)
      BY <1>1 DEF Answers
  <1>4. DOMAIN orders' = DOMAIN orders \cup {Len(orders) + 1}
      BY <1>1
  <1>5. CASE n = c
    <2>1. Answers(n)' = Answers(n) \cup {Len(orders) + 1}
        BY <1>1, <1>4, <1>5 DEF Answers
    <2>2. QED
        BY <1>2, <1>3, <1>5, <2>1, FS_AddElement
  <1>6. CASE n # c
    <2>1. Answers(n)' = Answers(n)
        BY <1>1, <1>4, <1>6 DEF Answers
    <2>2. QED
        BY <1>2, <1>6, <2>1
  <1>7. QED
      BY <1>5, <1>6

(* Every step but three leaves the answers and the stream of the requests  *)
(* alone.                                                                  *)
LEMMA StepAnswers ==
    ASSUME IndInv, [Next]_vars, "getpubkey" \in Streams
    PROVE  \/ UNCHANGED <<orders, cursor["getpubkey"], counter["getpubkey"],
                          pc["getpubkey"], object, sessions>>
           \/ recv("getpubkey") \/ newGetpubkey \/ restart
  <1> DEFINE Same == UNCHANGED <<orders, cursor["getpubkey"], counter["getpubkey"],
                                 pc["getpubkey"], object, sessions>>
  <1> USE DEF bmdVars, streamVars, keyVars, runVars
  <1>1. pc \in [Streams -> {"recv", "handle", "ack"}] /\ counter \in [Streams -> Nat \ {0}]
        /\ cursor \in [Streams -> Nat \ {0}]
      BY DEF IndInv, TypeOK
  <1>2. ASSUME NEW s \in Streams, bmdReceives(s) \/ streamEnds(s) \/ panic(s) PROVE Same
      BY <1>2 DEF bmdReceives, streamEnds, panic
  <1>3. ASSUME NEW s \in Streams, recv(s), s # "getpubkey" PROVE Same
      BY <1>1, <1>3 DEF recv
  <1>4. ASSUME newMessage \/ sendAck \/ newBroadcast PROVE Same
      BY <1>1, <1>4 DEF newMessage, sendAck, newBroadcast
  <1>5. ASSUME powStep \/ \E o \in DOMAIN orders : sendPubkey(o) PROVE Same
      BY <1>5 DEF powStep, sendPubkey
  <1>6. ASSUME savePeriodically \/ \E v \in Savers : saveLoad(v) \/ SetCounter(v) PROVE Same
      BY <1>6 DEF savePeriodically, saveLoad, SetCounter
  <1>7. ASSUME Stop \/ dropUsers \/ stopClient \/ closeQuit \/ inboxBlocks PROVE Same
      BY <1>7 DEF Stop, dropUsers, stopClient, closeQuit, inboxBlocks
  <1>8. ASSUME UNCHANGED vars PROVE Same
      BY <1>8 DEF vars
  <1> HIDE DEF Same
  <1>9. Same \/ recv("getpubkey") \/ newGetpubkey \/ restart
      BY <1>2, <1>3, <1>4, <1>5, <1>6, <1>7, <1>8 DEF Next, HandlerStep
  <1>10. QED
      BY <1>9 DEF Same

LEMMA StepAnswersInv ==
    ASSUME IndInv, AnswersInv, [Next]_vars
    PROVE  AnswersInv'
  <1> SUFFICES ASSUME "getpubkey" \in Streams
               PROVE  AnswersInv'
      BY DEF AnswersInv
  <1> DEFINE g == "getpubkey"
  <1>1. /\ object \in Objects /\ cursor \in [Streams -> Nat \ {0}]
        /\ counter \in [Streams -> Nat \ {0}] /\ pc \in [Streams -> {"recv", "handle", "ack"}]
        /\ sessions \in Nat
        /\ pc[g] = "handle" => cursor[g] = counter[g] + 1 /\ counter[g] \in Numbers(g)
        /\ orders \in Seq(Nat)
      BY DEF IndInv, TypeOK, AnswersInv
  <1>2. Numbers(g) \subseteq Nat
      BY <1>1, NumbersAre
  <1>3. ASSUME NEW n \in Nat PROVE Cardinality(Answers(n)) \in Nat
    <2>1. IsFiniteSet(DOMAIN orders)
        BY <1>1, FS_Interval
    <2>2. Answers(n) \subseteq DOMAIN orders
        BY DEF Answers
    <2>3. QED
        BY <2>1, <2>2, FS_Subset, FS_CardinalityType
  <1>4. CASE UNCHANGED <<orders, cursor["getpubkey"], counter["getpubkey"],
                         pc["getpubkey"], object, sessions>>
      BY <1>4 DEF AnswersInv, Answers
  <1>5. CASE recv(g)
    <2>1. /\ orders' = orders /\ sessions' = sessions /\ object' = object
          /\ counter'[g] = cursor[g] /\ cursor'[g] = cursor[g] + 1
        BY <1>1, <1>5 DEF recv, bmdVars, keyVars, runVars
    <2>2. \A n : Answers(n)' = Answers(n)
        BY <2>1 DEF Answers
    <2>3. ASSUME NEW n \in Numbers(g)
          PROVE  /\ Cardinality(Answers(n)) <= sessions
                 /\ n >= cursor[g] => Cardinality(Answers(n)) < sessions
        BY <2>3 DEF AnswersInv
    <2>4. cursor[g] \in Nat
        BY <1>1
    <2>5. QED
        BY <1>1, <1>2, <2>1, <2>2, <2>3, <2>4 DEF AnswersInv
  <1>6. CASE newGetpubkey
    <2>1. /\ pc[g] = "handle" /\ pc'[g] = "recv" /\ orders' = Append(orders, counter[g])
          /\ sessions' = sessions /\ object' = object
          /\ cursor' = cursor /\ counter' = counter
        BY <1>1, <1>6 DEF newGetpubkey, bmdVars, runVars
    <2>2. counter[g] \in Nat /\ cursor[g] = counter[g] + 1 /\ orders' \in Seq(Nat)
        BY <1>1, <2>1
    <2>3. ASSUME NEW n \in Numbers(g)
          PROVE  /\ Cardinality(Answers(n)') <= sessions
                 /\ n >= cursor[g] => Cardinality(Answers(n)') < sessions
      <3>1. n \in Nat /\ Cardinality(Answers(n)) \in Nat
          BY <1>2, <1>3
      <3>2. Cardinality(Answers(n)') = IF n = counter[g] THEN Cardinality(Answers(n)) + 1
                                       ELSE Cardinality(Answers(n))
          BY <1>1, <2>1, <2>2, <3>1, AnswersAppend
      <3>3. /\ Cardinality(Answers(n)) <= sessions
            /\ n >= cursor[g] => Cardinality(Answers(n)) < sessions
            /\ n = counter[g] => Cardinality(Answers(n)) < sessions
          BY <2>1 DEF AnswersInv
      <3>4. QED
          BY <1>1, <2>2, <3>1, <3>2, <3>3
    <2>4. QED
        BY <2>1, <2>2, <2>3 DEF AnswersInv
  <1>7. CASE restart
    <2>1. orders' = orders /\ object' = object /\ sessions' = sessions + 1
        BY <1>7 DEF restart, keyVars, bmdVars
    <2>2. \A n : Answers(n)' = Answers(n)
        BY <2>1 DEF Answers
    <2>3. ASSUME NEW n \in Numbers(g)
          PROVE  Cardinality(Answers(n)) < sessions + 1 /\ Cardinality(Answers(n)) <= sessions + 1
      <3>1. Cardinality(Answers(n)) <= sessions
          BY DEF AnswersInv
      <3>2. Cardinality(Answers(n)) \in Nat /\ sessions \in Nat
          BY <1>1, <1>2, <1>3
      <3>3. QED
          BY ONLY <3>1, <3>2
    <2>4. QED
        BY <1>1, <2>1, <2>2, <2>3 DEF AnswersInv
  <1>8. QED
      BY <1>4, <1>5, <1>6, <1>7, StepAnswers

(* One process gives at most one order for the answer to a getpubkey       *)
(* request, however the stream, the saves and the ends of the process are  *)
(* ordered.                                                                *)
THEOREM AnsweredOncePerSession ==
    Spec => []AnswersBounded
  <1>1. Init => AnswersInv
    <2> SUFFICES ASSUME Init PROVE AnswersInv
        OBVIOUS
    <2>1. orders \in Seq(Nat) /\ sessions = 1 /\ \A n : Answers(n) = {}
        BY DEF Init, Answers
    <2>2. \A n : Cardinality(Answers(n)) = 0
        BY <2>1, FS_EmptySet
    <2>3. QED
        BY <2>1, <2>2 DEF AnswersInv
  <1>2. IndInv /\ AnswersInv /\ [Next]_vars => AnswersInv'
      BY StepAnswersInv
  <1>3. AnswersInv => AnswersBounded
      BY DEF AnswersInv, AnswersBounded
  <1>4. QED
      BY Invariance, <1>1, <1>2, <1>3, PTL DEF Spec
=============================================================================

---------------------------- MODULE FolderProofs ----------------------------
(***************************************************************************)
(* Proofs about the ids of a folder, for any number of callers and of      *)
(* messages, whichever of the callers take the mailbox lock.               *)
(***************************************************************************)
EXTENDS Folder, TLAPS

(* An empty folder satisfies the inductive invariant.                      *)
LEMMA InitIndInv == Init => IndInv
<1> SUFFICES ASSUME Init PROVE IndInv
  OBVIOUS
<1>1. TypeOK
  <2>1. 1 \in 1..(MaxID + 1) /\ 0 \in 0..(MaxID + 1) /\ 0 \in 0..MaxID
    BY FolderAssumption
  <2>2. QED
    BY <2>1 DEF Init, TypeOK, ID, Step
<1>2. \A c \in Callers : pc[c] = "idle"
  BY DEF Init
<1>3. ReturnsItsKey /\ DiskNotFarBehind /\ LocksInv /\ CommittedInv /\ NextIDsInv
  BY <1>2, FolderAssumption
     DEF Init, ReturnsItsKey, DiskNotFarBehind, LocksInv, CommittedInv, NextIDsInv, Committed
<1>4. SerialInv
  BY <1>2 DEF Init, SerialInv, DiskAhead, NewPosition, Committed
<1>5. QED
  BY <1>1, <1>3, <1>4 DEF IndInv

(* Taking and releasing the mailbox lock.                                  *)
LEMMA LockStep ==
    ASSUME IndInv, NEW c \in Callers, lockMailbox(c) \/ unlockMailbox(c)
    PROVE  IndInv'
<1>1. UNCHANGED <<locked, stored, diskNext, nextID, writer, pc, newNext, key, ret,
                  loaded, failed, used, raced>>
  BY DEF lockMailbox, unlockMailbox, disk, locals
<1>2. TypeOK'
  BY <1>1 DEF IndInv, TypeOK, lockMailbox, unlockMailbox
<1>3. LocksInv'
  BY <1>1, FolderAssumption DEF IndInv, TypeOK, LocksInv, lockMailbox, unlockMailbox
<1>4. QED
  BY <1>1, <1>2, <1>3
     DEF IndInv, ReturnsItsKey, DiskNotFarBehind, CommittedInv, NextIDsInv,
         SerialInv, DiskAhead, NewPosition, Committed

(* InsertNewMessage begins.  Unless it overlaps another one, everybody     *)
(* else is idle; if everybody takes the lock it overlaps none.             *)
LEMMA BeginStep ==
    ASSUME IndInv, NEW c \in Callers, InsertNewMessage(c)
    PROVE  IndInv'
<1>1. /\ UNCHANGED <<locked, stored, diskNext, nextID, box, newNext, key, ret, loaded, used>>
      /\ pc[c] = "idle" /\ (c \in locked => box = c) /\ writer = NoCaller /\ writer' = c
      /\ pc' = [pc EXCEPT ![c] = "putNext"] /\ failed' = failed \ {c}
      /\ raced' = (raced \/ \E d \in Callers : Committed(d))
  BY DEF InsertNewMessage, MayCall, disk, locals
<1>2. pc'[c] = "putNext" /\ \A d \in Callers : d # c => pc'[d] = pc[d]
  BY <1>1 DEF IndInv, TypeOK
<1>3. \A d \in Callers : Committed(d)' <=> Committed(d)
  BY <1>1, <1>2 DEF Committed
<1>4. TypeOK'
  BY <1>1 DEF IndInv, TypeOK, Step
<1>5. \A d \in Callers : pc[d] \notin {"putNext", "putMessage"}
  BY <1>1, FolderAssumption DEF IndInv, LocksInv
<1>6. LocksInv'
  <2>1. \A d \in locked : pc'[d] # "idle" => box = d
    BY <1>1, <1>2, <1>4 DEF IndInv, TypeOK, LocksInv
  <2>2. \A d \in Callers : pc'[d] \in {"putNext", "putMessage"} <=> writer' = d
    BY <1>1, <1>2, <1>5
  <2>3. locked = Callers => \A d \in Callers : ~Committed(d)
    BY <1>1 DEF IndInv, LocksInv, Committed
  <2>4. raced' => locked # Callers
    BY <1>1, <2>3 DEF IndInv, LocksInv
  <2>5. QED
    BY <1>1, <2>1, <2>2, <2>4 DEF LocksInv
<1>7. ReturnsItsKey' /\ DiskNotFarBehind'
  BY <1>1, <1>2 DEF IndInv, ReturnsItsKey, DiskNotFarBehind
<1>8. CommittedInv'
  BY <1>1, <1>2, <1>3 DEF IndInv, CommittedInv
<1>9. NextIDsInv'
  BY <1>1, <1>2, <1>3 DEF IndInv, NextIDsInv
<1>10. ASSUME ~raced' PROVE SerialInv'
  <2>1. SerialInv /\ \A d \in Callers : ~Committed(d)
    BY <1>1, <1>10 DEF IndInv
  <2>2. \A d \in Callers : pc[d] = "idle"
    BY <1>5, <2>1 DEF IndInv, TypeOK, Step, Committed
  <2>3. QED
    BY <1>1, <1>2, <1>3, <2>1, <2>2 DEF SerialInv, DiskAhead, NewPosition
<1>11. QED
  BY <1>4, <1>6, <1>7, <1>8, <1>9, <1>10 DEF IndInv

(* The first read of nextID.                                               *)
LEMMA PutNextStep ==
    ASSUME IndInv, NEW c \in Callers, putNext(c)
    PROVE  IndInv'
<1>1. /\ UNCHANGED <<locked, stored, diskNext, nextID, writer, box, key, ret, loaded,
                     failed, used, raced>>
      /\ pc[c] = "putNext" /\ nextID <= MaxID
      /\ newNext' = [newNext EXCEPT ![c] = nextID + 1]
      /\ pc' = [pc EXCEPT ![c] = "putMessage"]
  BY DEF putNext, disk
<1>2. /\ pc'[c] = "putMessage" /\ newNext'[c] = nextID + 1
      /\ \A d \in Callers : d # c => pc'[d] = pc[d] /\ newNext'[d] = newNext[d]
  BY <1>1 DEF IndInv, TypeOK
<1>3. \A d \in Callers : Committed(d)' <=> Committed(d)
  BY <1>1, <1>2 DEF Committed
<1>4. TypeOK'
  BY <1>1, FolderAssumption DEF IndInv, TypeOK, Step
<1>5. LocksInv'
  BY <1>1, <1>2, <1>4 DEF IndInv, TypeOK, LocksInv
<1>6. ReturnsItsKey' /\ DiskNotFarBehind'
  BY <1>1, <1>2 DEF IndInv, ReturnsItsKey, DiskNotFarBehind
<1>7. CommittedInv'
  BY <1>1, <1>2, <1>3 DEF IndInv, CommittedInv
<1>8. NextIDsInv'
  BY <1>1, <1>2, <1>3 DEF IndInv, NextIDsInv
<1>9. SerialInv => SerialInv'
  BY <1>1, <1>2, <1>3 DEF SerialInv, DiskAhead, NewPosition
<1>10. QED
  BY <1>1, <1>4, <1>5, <1>6, <1>7, <1>8, <1>9 DEF IndInv

(* A transaction that is rolled back.  Whatever is said of failed, it is   *)
(* said only while no inserts have overlapped.                             *)
LEMMA RollBack ==
    ASSUME IndInv, NEW c \in Callers, pc[c] = "putMessage", writer' = NoCaller,
           pc' = [pc EXCEPT ![c] = "idle"], failed' \subseteq Callers,
           raced \/ failed' = failed,
           UNCHANGED <<locked, stored, diskNext, nextID, box, newNext, key, ret, loaded,
                       used, raced>>
    PROVE  IndInv'
<1>1. pc'[c] = "idle" /\ \A d \in Callers : d # c => pc'[d] = pc[d]
  BY DEF IndInv, TypeOK
<1>2. \A d \in Callers : Committed(d)' <=> Committed(d)
  BY <1>1 DEF Committed
<1>3. TypeOK'
  BY DEF IndInv, TypeOK, Step
<1>4. \A d \in Callers : pc[d] \in {"putNext", "putMessage"} <=> d = c
  BY DEF IndInv, LocksInv
<1>5. LocksInv'
  BY <1>1, <1>3, <1>4, FolderAssumption DEF IndInv, TypeOK, LocksInv
<1>6. ReturnsItsKey' /\ DiskNotFarBehind'
  BY <1>1 DEF IndInv, ReturnsItsKey, DiskNotFarBehind
<1>7. CommittedInv'
  BY <1>1, <1>2 DEF IndInv, CommittedInv
<1>8. NextIDsInv'
  BY <1>1, <1>2 DEF IndInv, NextIDsInv
<1>9. SerialInv /\ failed' = failed => SerialInv'
  BY <1>1, <1>2 DEF SerialInv, DiskAhead, NewPosition
<1>10. QED
  BY <1>3, <1>5, <1>6, <1>7, <1>8, <1>9 DEF IndInv

(* The second read of nextID and the commit.  A caller that has committed  *)
(* and not incremented would have left a message under nextID, so there is *)
(* none; without overlaps no message is there anyway.                      *)
LEMMA PutMessageStep ==
    ASSUME IndInv, NEW c \in Callers, putMessage(c)
    PROVE  IndInv' /\ (raced \/ NewIsAbove)
<1>1. /\ pc[c] = "putMessage" /\ nextID <= MaxID /\ writer' = NoCaller
      /\ UNCHANGED <<locked, nextID, box, newNext, ret, loaded, raced>>
  BY DEF putMessage
<1>2. \A d \in Callers : pc[d] \in {"putNext", "putMessage"} <=> d = c
  BY <1>1 DEF IndInv, LocksInv
<1>3. /\ nextID \in Nat /\ nextID \in ID /\ diskNext \in Nat
      /\ \A id \in stored \cup used : id \in Nat
  BY <1>1, FolderAssumption DEF IndInv, TypeOK, ID
<1>4. SerialInv => /\ \A d \in Callers : d # c => pc[d] = "idle"
                   /\ diskNext = nextID /\ newNext[c] = nextID + 1
                   /\ \A id \in stored \cup used : id < nextID
  BY <1>1 DEF SerialInv, DiskAhead, Committed
<1>5. CASE nextID \in stored
  <2>1. raced
    BY <1>3, <1>4, <1>5 DEF IndInv
  <2>2. /\ failed' = failed \cup {c} /\ pc' = [pc EXCEPT ![c] = "idle"]
        /\ UNCHANGED <<stored, diskNext, key, used>>
    BY <1>5 DEF putMessage, disk
  <2>3. failed' \subseteq Callers
    BY <2>2 DEF IndInv, TypeOK
  <2>4. QED
    BY <1>1, <2>1, <2>2, <2>3, RollBack
<1>6. CASE nextID \notin stored
  <2>1. /\ stored' = stored \cup {nextID} /\ diskNext' = newNext[c]
        /\ key' = [key EXCEPT ![c] = nextID] /\ used' = used \cup {nextID}
        /\ pc' = [pc EXCEPT ![c] = "return"] /\ failed' = failed
    BY <1>6 DEF putMessage
  <2>2. /\ pc'[c] = "return" /\ key'[c] = nextID
        /\ \A d \in Callers : d # c => pc'[d] = pc[d] /\ key'[d] = key[d]
    BY <2>1 DEF IndInv, TypeOK
  <2>3. \A d \in Callers : ~Committed(d)
    BY <1>6 DEF IndInv, CommittedInv
  <2>4. \A d \in Callers : Committed(d)' <=> d = c
    BY <2>2, <2>3 DEF Committed
  <2>5. diskNext' \in {nextID, nextID + 1}
    BY <1>1, <2>1 DEF IndInv, NextIDsInv
  <2>6. TypeOK'
    <3>1. key' \in [Callers -> 0..MaxID] /\ pc' \in [Callers -> Step]
      BY <1>3, <2>1 DEF IndInv, TypeOK, Step, ID
    <3>2. stored' \subseteq ID /\ used' \subseteq ID
      BY <1>3, <2>1 DEF IndInv, TypeOK
    <3>3. diskNext' \in 1..(MaxID + 1)
      BY <1>1, <1>3, <2>5, FolderAssumption DEF ID
    <3>4. QED
      BY <1>1, <2>1, <3>1, <3>2, <3>3 DEF IndInv, TypeOK
  <2>7. LocksInv'
    BY <1>1, <1>2, <2>2, <2>6, FolderAssumption DEF IndInv, TypeOK, LocksInv
  <2>8. ReturnsItsKey'
    BY <1>1, <2>2 DEF IndInv, ReturnsItsKey
  <2>9. \A id \in stored' : id <= nextID
    BY <1>3, <2>1 DEF IndInv, NextIDsInv
  <2>10. DiskNotFarBehind'
    <3> SUFFICES ASSUME NEW id \in stored' PROVE id <= diskNext'
      BY DEF DiskNotFarBehind
    <3>1. id \in Nat /\ id <= nextID
      BY <1>3, <2>1, <2>9
    <3>2. QED
      BY <3>1, <1>3, <2>5
  <2>11. CommittedInv'
    <3>1. key'[c] = nextID' /\ nextID' \in stored' /\ nextID' <= diskNext'
      BY <1>1, <1>3, <2>1, <2>2, <2>5
    <3>2. \A d \in Callers : pc'[d] # "store"
      BY <2>2, <2>3 DEF Committed
    <3>3. QED
      BY <2>4, <3>1, <3>2 DEF CommittedInv
  <2>12. NextIDsInv'
    <3>1. \A d \in Callers : pc'[d] # "putMessage"
      BY <1>2, <2>2
    <3>2. nextID' = nextID /\ (diskNext' = nextID \/ diskNext' = nextID + 1)
      BY <1>1, <2>5
    <3>3. nextID' <= diskNext' + 1
      BY <1>3, <3>2
    <3>4. QED
      BY <1>1, <2>9, <3>1, <3>3 DEF NextIDsInv
  <2>13. ASSUME SerialInv PROVE SerialInv' /\ NewIsAbove
    <3>1. diskNext' = nextID + 1 /\ \A id \in stored \cup used : id < nextID
      BY <1>4, <2>1, <2>13
    <3>2. \A id \in stored' \cup used' : id < diskNext'
      <4> SUFFICES ASSUME NEW id \in stored' \cup used' PROVE id < diskNext'
        OBVIOUS
      <4>1. id = nextID \/ id \in stored \cup used
        BY <2>1
      <4>2. QED
        BY <4>1, <3>1, <1>3
    <3>3. \A d \in Callers : d # c => pc'[d] = "idle"
      BY <1>4, <2>2, <2>13
    <3>4. SerialInv'
      BY <1>1, <2>1, <2>2, <2>4, <2>13, <3>1, <3>2, <3>3
         DEF SerialInv, DiskAhead, NewPosition
    <3>5. NewIsAbove
      BY <2>2, <3>1, <3>3 DEF NewIsAbove, puts
    <3>6. QED
      BY <3>4, <3>5
  <2>14. QED
    BY <1>1, <2>6, <2>7, <2>8, <2>10, <2>11, <2>12, <2>13 DEF IndInv
<1>7. ASSUME nextID \in stored PROVE raced
  BY <1>3, <1>4, <1>7 DEF IndInv
<1>8. QED
  BY <1>5, <1>6, <1>7

LEMMA CommitFailsStep ==
    ASSUME IndInv, NEW c \in Callers, commitFails(c)
    PROVE  IndInv'
<1>1. failed' \subseteq Callers
  BY DEF commitFails, IndInv, TypeOK
<1>2. QED
  BY <1>1, RollBack DEF commitFails, disk, locals

(* The steps after the commit: returning the id and loading it to          *)
(* increment it.  Nobody else can have committed in the meantime, so       *)
(* nextID is what it was.                                                  *)
LEMMA ReturnStep ==
    ASSUME IndInv, NEW c \in Callers, returnID(c) \/ loadNextID(c)
    PROVE  IndInv'
<1>1. /\ UNCHANGED <<locked, stored, diskNext, nextID, writer, box, newNext, key, failed,
                     used, raced>>
      /\ Committed(c) /\ pc[c] \in {"return", "load"}
  BY DEF returnID, loadNextID, disk, Committed
<1>2. key[c] = nextID
  BY <1>1 DEF IndInv, CommittedInv
<1>3. \A d \in Callers : d # c => pc'[d] = pc[d] /\ ret'[d] = ret[d] /\ loaded'[d] = loaded[d]
  BY DEF IndInv, TypeOK, returnID, loadNextID
<1>4. /\ pc'[c] \in {"load", "store"} /\ ret'[c] = key[c]
      /\ pc'[c] = "store" => loaded'[c] = nextID
  BY <1>2 DEF IndInv, TypeOK, ReturnsItsKey, returnID, loadNextID
<1>5. \A d \in Callers : Committed(d)' <=> Committed(d)
  BY <1>1, <1>3, <1>4 DEF Committed
<1>6. TypeOK'
  BY <1>1, FolderAssumption DEF IndInv, TypeOK, Step, returnID, loadNextID
<1>7. LocksInv'
  BY <1>1, <1>3, <1>4, <1>6 DEF IndInv, TypeOK, LocksInv
<1>8. ReturnsItsKey' /\ DiskNotFarBehind'
  BY <1>1, <1>3, <1>4 DEF IndInv, ReturnsItsKey, DiskNotFarBehind
<1>9. CommittedInv'
  BY <1>1, <1>3, <1>4, <1>5 DEF IndInv, CommittedInv
<1>10. NextIDsInv'
  BY <1>1, <1>3, <1>4, <1>5 DEF IndInv, NextIDsInv
<1>11. SerialInv => SerialInv'
  BY <1>1, <1>3, <1>4, <1>5 DEF SerialInv, DiskAhead, NewPosition
<1>12. QED
  BY <1>1, <1>6, <1>7, <1>8, <1>9, <1>10, <1>11 DEF IndInv

(* The increment ends.                                                     *)
LEMMA StoreStep ==
    ASSUME IndInv, NEW c \in Callers, storeNextID(c)
    PROVE  IndInv'
<1>1. /\ UNCHANGED <<locked, stored, diskNext, writer, box, newNext, key, ret, loaded,
                     failed, used, raced>>
      /\ pc[c] = "store" /\ nextID' = loaded[c] + 1 /\ pc' = [pc EXCEPT ![c] = "idle"]
  BY DEF storeNextID, disk, locals
<1>2. Committed(c)
  BY <1>1 DEF Committed
<1>3. /\ nextID' = nextID + 1 /\ nextID \in stored /\ nextID <= diskNext
      /\ nextID \in Nat /\ diskNext \in Nat /\ nextID <= MaxID
  BY <1>1, <1>2, FolderAssumption DEF IndInv, TypeOK, CommittedInv, ID
<1>4. pc'[c] = "idle" /\ \A d \in Callers : d # c => pc'[d] = pc[d]
  BY <1>1 DEF IndInv, TypeOK
<1>5. \A d \in Callers : ~Committed(d)'
  <2>1. \A d \in Callers : d # c => ~Committed(d)
    BY <1>2 DEF IndInv, CommittedInv
  <2>2. QED
    BY <1>4, <2>1 DEF Committed
<1>6. TypeOK'
  BY <1>1, <1>3, FolderAssumption DEF IndInv, TypeOK, Step
<1>7. LocksInv'
  BY <1>1, <1>4, <1>6 DEF IndInv, TypeOK, LocksInv
<1>8. ReturnsItsKey' /\ DiskNotFarBehind'
  BY <1>1, <1>4 DEF IndInv, ReturnsItsKey, DiskNotFarBehind
<1>9. CommittedInv'
  BY <1>5 DEF CommittedInv, Committed
<1>10. NextIDsInv'
  <2>1. \A id \in stored' : id <= nextID'
    <3> SUFFICES ASSUME NEW id \in stored PROVE id <= nextID + 1
      BY <1>1, <1>3
    <3>1. id \in Nat /\ id <= nextID
      BY DEF IndInv, TypeOK, NextIDsInv, ID
    <3>2. QED
      BY <3>1, <1>3
  <2>2. \A d \in Callers : pc'[d] = "putMessage" => newNext'[d] = nextID'
    BY <1>1, <1>2, <1>3, <1>4 DEF IndInv, NextIDsInv
  <2>3. nextID' <= diskNext' + 1
    BY <1>1, <1>3
  <2>4. QED
    BY <1>5, <2>1, <2>2, <2>3 DEF NextIDsInv
<1>11. ASSUME SerialInv PROVE SerialInv'
  <2>1. diskNext = nextID + 1 /\ \A d \in Callers : d # c => pc[d] = "idle"
    BY <1>1, <1>2, <1>11 DEF SerialInv
  <2>2. \A d \in Callers : pc'[d] = "idle"
    BY <1>4, <2>1
  <2>3. QED
    BY <1>1, <1>3, <1>5, <1>11, <2>1, <2>2 DEF SerialInv, DiskAhead, NewPosition
<1>12. QED
  BY <1>1, <1>6, <1>7, <1>8, <1>9, <1>10, <1>11 DEF IndInv

(* InsertMessage and DeleteMessage move ids below the next id only.        *)
LEMMA RewriteStep ==
    ASSUME IndInv, NEW c \in Callers, NEW id \in ID,
           InsertMessage(c, id) \/ DeleteMessage(c, id)
    PROVE  IndInv'
<1>1. /\ UNCHANGED <<locked, diskNext, nextID, writer, box, pc, newNext, key, ret, loaded,
                     failed, used, raced>>
      /\ stored' \subseteq stored \cup {id} /\ id < nextID
      /\ nextID \in stored => nextID \in stored'
  BY DEF InsertMessage, DeleteMessage, locals, IndInv, TypeOK, ID
<1>2. /\ nextID \in Nat /\ diskNext \in Nat /\ id \in Nat /\ nextID <= diskNext + 1
      /\ \A i \in stored : i \in Nat /\ i <= nextID /\ i <= diskNext
  BY DEF IndInv, TypeOK, ID, NextIDsInv, DiskNotFarBehind
<1>3. TypeOK'
  BY <1>1 DEF IndInv, TypeOK
<1>4. DiskNotFarBehind' /\ \A i \in stored' : i <= nextID
  <2>1. ASSUME NEW i \in stored' PROVE i <= diskNext /\ i <= nextID
    <3>1. i \in stored \/ i = id
      BY <1>1
    <3>2. QED
      BY <3>1, <1>1, <1>2
  <2>2. QED
    BY <1>1, <2>1 DEF DiskNotFarBehind
<1>5. LocksInv' /\ ReturnsItsKey' /\ CommittedInv' /\ NextIDsInv'
  BY <1>1, <1>4 DEF IndInv, LocksInv, ReturnsItsKey, CommittedInv, NextIDsInv, Committed
<1>6. ASSUME SerialInv PROVE SerialInv'
  <2>1. nextID <= diskNext
    BY <1>2, <1>6 DEF SerialInv
  <2>2. DiskAhead'
    <3> SUFFICES ASSUME NEW i \in stored' PROVE i < diskNext
      BY <1>1 DEF DiskAhead
    <3>1. i \in stored \/ i = id
      BY <1>1
    <3>2. QED
      BY <3>1, <2>1, <1>1, <1>2, <1>6 DEF SerialInv, DiskAhead
  <2>3. QED
    BY <1>1, <1>6, <2>2 DEF SerialInv, NewPosition, Committed
<1>7. QED
  BY <1>1, <1>3, <1>4, <1>5, <1>6 DEF IndInv

(* A crash at any point leaves a bucket a new process can open.            *)
LEMMA RestartStep == ASSUME IndInv, restart PROVE IndInv'
<1>1. /\ UNCHANGED <<locked, stored, diskNext, newNext, key, ret, loaded, used, raced>>
      /\ nextID' = diskNext /\ writer' = NoCaller /\ box' = NoCaller
      /\ pc' = [c \in Callers |-> "idle"] /\ failed' = {}
  BY DEF restart, disk, locals
<1>2. \A c \in Callers : pc'[c] = "idle" /\ ~Committed(c)'
  BY <1>1 DEF Committed
<1>3. TypeOK'
  BY <1>1 DEF IndInv, TypeOK, Step
<1>4. LocksInv' /\ ReturnsItsKey' /\ CommittedInv'
  BY <1>1, <1>2, <1>3, FolderAssumption
     DEF IndInv, TypeOK, LocksInv, ReturnsItsKey, CommittedInv
<1>5. DiskNotFarBehind' /\ NextIDsInv'
  BY <1>1, <1>2 DEF IndInv, TypeOK, DiskNotFarBehind, NextIDsInv
<1>6. SerialInv => SerialInv'
  BY <1>1, <1>2 DEF SerialInv, DiskAhead, NewPosition
<1>7. QED
  BY <1>1, <1>3, <1>4, <1>5, <1>6 DEF IndInv

(* Only putMessage puts a new message.                                     *)
LEMMA StepIndInv ==
    ASSUME IndInv, [Next]_vars
    PROVE  IndInv' /\ (raced \/ NewIsAbove)
<1>1. ASSUME NEW c \in Callers, putMessage(c)
      PROVE  IndInv' /\ (raced \/ NewIsAbove)
  BY <1>1, PutMessageStep
<1>2. ASSUME NEW c \in Callers,
             \/ lockMailbox(c) \/ unlockMailbox(c) \/ InsertNewMessage(c) \/ putNext(c)
             \/ commitFails(c) \/ returnID(c) \/ loadNextID(c) \/ storeNextID(c)
      PROVE  IndInv' /\ \A d \in Callers : ~puts(d)
  <2>1. IndInv'
    BY <1>2, LockStep, BeginStep, PutNextStep, CommitFailsStep, ReturnStep, StoreStep
  <2>2. \A d \in Callers : ~puts(d)
    BY <1>2 DEF IndInv, TypeOK, puts, lockMailbox, unlockMailbox, InsertNewMessage,
                putNext, commitFails, returnID, loadNextID, storeNextID
  <2>3. QED
    BY <2>1, <2>2
<1>3. ASSUME NEW c \in Callers, NEW id \in ID, InsertMessage(c, id) \/ DeleteMessage(c, id)
      PROVE  IndInv' /\ \A d \in Callers : ~puts(d)
  BY <1>3, RewriteStep DEF InsertMessage, DeleteMessage, puts
<1>4. CASE restart
  BY <1>4, RestartStep DEF restart, puts, NewIsAbove
<1>5. CASE UNCHANGED vars
  <2>1. \A d \in Callers : ~puts(d)
    BY <1>5 DEF vars, puts
  <2>2. IndInv'
    BY <1>5 DEF vars, disk, locals, IndInv, TypeOK, ReturnsItsKey, DiskNotFarBehind,
                LocksInv, CommittedInv, NextIDsInv, SerialInv, DiskAhead, NewPosition,
                Committed
  <2>3. QED
    BY <2>1, <2>2 DEF NewIsAbove
<1>6. QED
  BY <1>1, <1>2, <1>3, <1>4, <1>5 DEF Next, NewIsAbove
-----------------------------------------------------------------------------
(* For any number of callers, with or without the mailbox lock, any        *)
(* crashes and any failed commits, the inductive invariant holds.          *)
THEOREM Invariance == Spec => []IndInv
<1>1. IndInv /\ [Next]_vars => IndInv'
  BY StepIndInv
<1>2. QED
  BY InitIndInv, <1>1, PTL DEF Spec

(* The values of the folder's fields always have their types.              *)
THEOREM TypeCorrect == Spec => []TypeOK
<1>1. IndInv => TypeOK
  BY DEF IndInv
<1>2. QED
  BY Invariance, <1>1, PTL

(* The id InsertNewMessage returns is the one its message has, though it   *)
(* reads nextID again after its transaction and callers may not lock.      *)
THEOREM ReturnsAlwaysItsKey == Spec => []ReturnsItsKey
<1>1. IndInv => ReturnsItsKey
  BY DEF IndInv
<1>2. QED
  BY Invariance, <1>1, PTL

(* ErrDuplicateID from InsertNewMessage, and a next id in the bucket that  *)
(* a message has, come from inserts that overlap and from nothing else;    *)
(* none overlap when every caller takes the mailbox lock.                  *)
THEOREM HarmOnlyByRaces == Spec => []OnlyRacesHarm
<1>1. IndInv => OnlyRacesHarm
  BY DEF IndInv, OnlyRacesHarm, SerialInv, LocksInv
<1>2. QED
  BY Invariance, <1>1, PTL

(* Even then no stored message has an id above the next id in the bucket.  *)
THEOREM NeverFarBehind == Spec => []DiskNotFarBehind
<1>1. IndInv => DiskNotFarBehind
  BY DEF IndInv
<1>2. QED
  BY Invariance, <1>1, PTL

(* Ids only grow over the sessions of a folder whose inserts do not        *)
(* overlap; none is given twice.                                           *)
THEOREM IDsNeverReused == Spec => IDsIncrease
<1>1. IndInv /\ [Next]_vars => [raced \/ NewIsAbove]_vars
  BY StepIndInv
<1>2. QED
  BY Invariance, <1>1, PTL DEF Spec, IDsIncrease
=============================================================================

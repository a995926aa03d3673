--------------------------- MODULE MailboxProofs ---------------------------
(***************************************************************************)
(* Proofs about module Mailbox, for any number of threads, calls, flags    *)
(* and messages, and with writes to the folder that may fail.              *)
(***************************************************************************)
EXTENDS Mailbox, FiniteSetTheorems, TLAPS

(* A thread takes a step and the others stay where they are.               *)
Alone(t) ==
    /\ pc' = [pc EXCEPT ![t] = pc'[t]]
    /\ \A r \in Threads \ {t} : uid'[r] = uid[r] /\ list'[r] = list[r]

(* Updating a function keeps its type.                                     *)
LEMMA Update ==
    ASSUME NEW R, NEW f \in [Threads -> R], NEW t \in Threads, NEW v \in R
    PROVE  [f EXCEPT ![t] = v] \in [Threads -> R]
OBVIOUS

(* So the local variables keep their types.                                *)
LEMMA LocalType ==
    ASSUME TypeOK, NEW t \in Threads,
           call' = call \/ \E c \in AllCalls : call' = [call EXCEPT ![t] = c],
           uid' = uid \/ \E i \in ID \cup {0} : uid' = [uid EXCEPT ![t] = i],
           new' = new \/ \E f \in Flags \cup {{}} : new' = [new EXCEPT ![t] = f],
           list' = list \/ \E S \in SUBSET ID : list' = [list EXCEPT ![t] = S]
    PROVE  /\ call' \in [Threads -> AllCalls]
           /\ uid' \in [Threads -> 0..MaxID]
           /\ new' \in [Threads -> SUBSET {"Recent", "Seen", "Deleted"}]
           /\ list' \in [Threads -> SUBSET ID]
<1>1. call' \in [Threads -> AllCalls]
  BY Update DEF TypeOK
<1>2. uid' \in [Threads -> 0..MaxID]
  <2>1. ID \cup {0} \subseteq 0..MaxID
    BY MailboxAssumption DEF ID
  <2>2. QED
    BY <2>1, Update DEF TypeOK
<1>3. new' \in [Threads -> SUBSET {"Recent", "Seen", "Deleted"}]
  <2>1. Flags \cup {{}} \subseteq SUBSET {"Recent", "Seen", "Deleted"}
    BY MailboxAssumption
  <2>2. CASE new' = new
    BY <2>2 DEF TypeOK
  <2>3. ASSUME NEW f \in Flags \cup {{}}, new' = [new EXCEPT ![t] = f]
        PROVE  new' \in [Threads -> SUBSET {"Recent", "Seen", "Deleted"}]
    <3>1. f \in SUBSET {"Recent", "Seen", "Deleted"}
      BY <2>1, <2>3, Zenon
    <3>2. new \in [Threads -> SUBSET {"Recent", "Seen", "Deleted"}]
      BY DEF TypeOK
    <3>3. QED
      BY <2>3, <3>1, <3>2, Update, Zenon
  <2>4. QED
    BY <2>2, <2>3
<1>4. list' \in [Threads -> SUBSET ID]
  BY Update DEF TypeOK
<1>5. QED
  BY <1>1, <1>2, <1>3, <1>4

(* The folder has finitely many messages.                                  *)
LEMMA FiniteFolder ==
    ASSUME NEW S, S \subseteq ID
    PROVE  /\ IsFiniteSet(Recents(S)) /\ Cardinality(Recents(S)) \in Nat
           /\ IsFiniteSet(Unseens(S)) /\ Cardinality(Unseens(S)) \in Nat
<1>1. IsFiniteSet(ID)
  BY FS_Interval, MailboxAssumption DEF ID
<1>2. Recents(S) \subseteq ID /\ Unseens(S) \subseteq ID
  BY DEF Recents, Unseens
<1>3. IsFiniteSet(Recents(S)) /\ IsFiniteSet(Unseens(S))
  BY <1>1, <1>2, FS_Subset
<1>4. QED
  BY <1>3, FS_CardinalityType

(* Taking one message out of the folder takes it out of the counts that    *)
(* its flags put it into.                                                  *)
LEMMA CountsWithout ==
    ASSUME NEW S, S \subseteq ID, NEW i \in ID, i \notin S
    PROVE  /\ Cardinality(Recents(S \cup {i})) =
                IF "Recent" \in flag[i] THEN Cardinality(Recents(S)) + 1
                ELSE Cardinality(Recents(S))
           /\ Cardinality(Unseens(S \cup {i})) =
                IF "Seen" \notin flag[i] THEN Cardinality(Unseens(S)) + 1
                ELSE Cardinality(Unseens(S))
<1>1. /\ IsFiniteSet(Recents(S)) /\ IsFiniteSet(Unseens(S))
      /\ i \notin Recents(S) /\ i \notin Unseens(S)
  BY FiniteFolder DEF Recents, Unseens
<1>2. Recents(S \cup {i}) = IF "Recent" \in flag[i] THEN Recents(S) \cup {i} ELSE Recents(S)
  BY DEF Recents
<1>3. Unseens(S \cup {i}) = IF "Seen" \notin flag[i] THEN Unseens(S) \cup {i} ELSE Unseens(S)
  BY DEF Unseens
<1>4. /\ Cardinality(Recents(S) \cup {i}) = Cardinality(Recents(S)) + 1
      /\ Cardinality(Unseens(S) \cup {i}) = Cardinality(Unseens(S)) + 1
  BY <1>1, FS_AddElement
<1>5. QED
  BY <1>2, <1>3, <1>4

(* A step within the same class of steps, the lock untouched.              *)
LEMMA LockKept ==
    ASSUME TypeOK, LockInv, NEW t \in Threads, UNCHANGED lock, Alone(t),
           pc'[t] \in PCs,
           ReadLocks(pc'[t]) = ReadLocks(pc[t]),
           pc'[t] # "locking" /\ pc[t] # "locking",
           pc'[t] \in Writing <=> pc[t] \in Writing
    PROVE  LockInv'
<1>1. \A r \in Threads : r # t => pc'[r] = pc[r]
  BY DEF Alone, TypeOK
<1>2. \A r \in Threads : readers'[r] = ReadLocks(pc'[r])
  BY <1>1 DEF LockInv, lock
<1>3. \A r \in Threads : pc'[r] \in Writing \cup {"locking"} <=> pending' = r
  BY <1>1 DEF LockInv, lock
<1>4. \A u, r \in Threads : pc'[u] \in Writing => readers'[r] = 0
  BY <1>1 DEF LockInv, lock
<1>5. QED
  BY <1>2, <1>3, <1>4 DEF LockInv, ReadLocks

(* A read lock is taken when no writer waits, or given back.               *)
LEMMA ReadLockMoves ==
    ASSUME TypeOK, LockInv, NEW t \in Threads, UNCHANGED pending, Alone(t),
           pc'[t] \in PCs,
           NEW n \in Nat, readers' = [readers EXCEPT ![t] = n],
           n = ReadLocks(pc'[t]),
           pc[t] \notin Writing \cup {"locking"},
           pc'[t] \notin Writing \cup {"locking"},
           n <= readers[t] \/ pending = NoThread
    PROVE  LockInv'
<1>1. \A r \in Threads : r # t => pc'[r] = pc[r] /\ readers'[r] = readers[r]
  BY DEF Alone, TypeOK
<1>2. readers'[t] = n /\ readers[t] \in Nat
  BY DEF TypeOK
<1>3. \A r \in Threads : readers'[r] = ReadLocks(pc'[r])
  BY <1>1, <1>2 DEF LockInv
<1>4. \A r \in Threads : pc'[r] \in Writing \cup {"locking"} <=> pending' = r
  BY <1>1 DEF LockInv
<1>5. ASSUME NEW u \in Threads, NEW r \in Threads, pc'[u] \in Writing PROVE readers'[r] = 0
  <2>1. pc[u] \in Writing /\ pending = u
    BY <1>1, <1>5 DEF LockInv
  <2>2. pending # NoThread
    BY <2>1, MailboxAssumption
  <2>3. readers[t] = 0 /\ readers[r] = 0
    BY <2>1 DEF LockInv
  <2>4. QED
    BY <1>1, <1>2, <2>2, <2>3
<1>6. QED
  BY <1>3, <1>4, <1>5 DEF LockInv, ReadLocks

(* A step that changes neither the folder nor the fields, by a thread that *)
(* is not in the middle of a change.                                       *)
LEMMA QuietStep ==
    ASSUME TypeOK, DataInv, NEW t \in Threads, Alone(t),
           UNCHANGED <<disk, cache, deleted>>,
           pc'[t] \notin Modifying, pc[t] \notin Modifying
    PROVE  DataInv'
<1>1. UNCHANGED <<ids, flag, next, uids, numRecent, numUnseen, nextUID, deleted>>
  BY DEF disk, cache
<1>2. \A r \in Threads : r # t => pc'[r] = pc[r] /\ uid'[r] = uid[r] /\ list'[r] = list[r]
  BY DEF Alone, TypeOK
<1>3. Matches' = Matches
  BY <1>1 DEF Matches, Listed, Counted, Recents, Unseens
<1>4. (\A r \in Threads : pc'[r] \notin Modifying) => Matches'
  BY <1>2, <1>3 DEF DataInv
<1>5. ASSUME NEW r \in Threads, pc'[r] \in Modifying
      PROVE  /\ pc'[r] = "insert" => uid'[r] \in ID \ deleted' /\ uid'[r] < next'
             /\ pc'[r] = "scan" => numRecent' = 0 /\ numUnseen' = 0 /\ nextUID' = next'
             /\ pc'[r] = "append" =>
                   list'[r] \subseteq ids' /\ Listed(ids \ list[r])' /\ Counted(ids)'
             /\ pc'[r] = "forget" =>
                   /\ uid'[r] \in ID \ ids'
                   /\ Listed(ids \cup {uid[r]})' /\ Counted(ids \cup {uid[r]})'
  <2>1. r # t /\ pc'[r] = pc[r] /\ uid'[r] = uid[r] /\ list'[r] = list[r]
    BY <1>2, <1>5
  <2>2. /\ Listed(ids \ list[r]) => Listed(ids \ list[r])'
        /\ Listed(ids \cup {uid[r]}) => Listed(ids \cup {uid[r]})'
    BY <1>1, <2>1 DEF Listed
  <2>3. /\ Counted(ids) => Counted(ids)'
        /\ Counted(ids \cup {uid[r]}) => Counted(ids \cup {uid[r]})'
    BY <1>1, <2>1 DEF Counted, Recents, Unseens
  <2>4. QED
    BY <1>1, <2>1, <2>2, <2>3 DEF DataInv
<1>6. QED
  BY <1>1, <1>4, <1>5 DEF DataInv, NoResurrection, Modifying

(* Beginning a call.                                                       *)
LEMMA StartStep ==
    ASSUME IndInv, NEW t \in Threads, Start(t)
    PROVE  IndInv'
<1>1. /\ UNCHANGED <<disk, cache, lock, deleted>> /\ pc[t] = "idle"
      /\ pc' = [pc EXCEPT ![t] = pc'[t]] /\ pc'[t] \in {"Lock", "RLock"}
      /\ \E c \in AllCalls : call' = [call EXCEPT ![t] = c]
      /\ uid' = uid \/ \E i \in ID : uid' = [uid EXCEPT ![t] = i]
      /\ new' = new \/ \E f \in Flags : new' = [new EXCEPT ![t] = f]
      /\ list' = list \/ \E S \in SUBSET ID : list' = [list EXCEPT ![t] = S]
  BY DEF IndInv, TypeOK, Start, addNew, Save, Begin, MessageSetBySequenceNumber, AllCalls
<1>2. Alone(t)
  BY <1>1 DEF Alone, IndInv, TypeOK
<1>3. /\ call' \in [Threads -> AllCalls] /\ uid' \in [Threads -> 0..MaxID]
      /\ list' \in [Threads -> SUBSET ID]
      /\ new' \in [Threads -> SUBSET {"Recent", "Seen", "Deleted"}]
  BY <1>1, LocalType DEF IndInv
<1>4. TypeOK'
  <2>1. pc' \in [Threads -> PCs]
    BY <1>1 DEF IndInv, TypeOK, PCs
  <2>2. QED
    BY <1>1, <1>3, <2>1 DEF IndInv, TypeOK, disk, cache, lock
<1>5. LockInv'
  BY <1>1, <1>2, LockKept DEF IndInv, PCs, ReadLocks, Writing
<1>6. DataInv'
  BY <1>1, <1>2, QuietStep DEF IndInv, Modifying
<1>7. QED
  BY <1>4, <1>5, <1>6 DEF IndInv

(* Steps that leave everything but the thread's own variables alone.       *)
LEMMA LocalStep ==
    ASSUME IndInv, NEW t \in Threads,
           \/ Read(t) \/ nextRange(t) \/ noMoreRanges(t) \/ full(t) \/ notThere(t)
           \/ nextFlagged(t) \/ noneFlagged(t)
    PROVE  IndInv'
<1>1. /\ UNCHANGED <<disk, cache, lock, deleted>>
      /\ pc' = [pc EXCEPT ![t] = pc'[t]]
      /\ \/ pc[t] = "reading" /\ pc'[t] = "RUnlock"
         \/ pc[t] = "ranges" /\ pc'[t] \in {"Messages", "RUnlock"}
         \/ pc[t] \in {"save", "delete"} /\ pc'[t] = "Unlock"
         \/ pc[t] = "next" /\ pc'[t] \in {"Lock", "idle"}
  BY DEF IndInv, TypeOK, Read, nextRange, noMoreRanges, full, notThere, nextFlagged,
         noneFlagged, Goto, Return
<1>2. /\ call' = call \/ call' = [call EXCEPT ![t] = "Read"]
      /\ uid' = uid \/ \E i \in ID \cup {0} : uid' = [uid EXCEPT ![t] = i]
      /\ new' = new \/ new' = [new EXCEPT ![t] = {}]
      /\ list' = list \/ \E S \in SUBSET ID : list' = [list EXCEPT ![t] = S]
  BY DEF IndInv, TypeOK, Read, nextRange, noMoreRanges, full, notThere, nextFlagged,
         noneFlagged, Goto, Return, local
<1>3. Alone(t)
  BY <1>1, <1>2 DEF Alone, IndInv, TypeOK
<1>4. TypeOK'
  <2>1. /\ call' \in [Threads -> AllCalls] /\ uid' \in [Threads -> 0..MaxID]
        /\ list' \in [Threads -> SUBSET ID]
        /\ new' \in [Threads -> SUBSET {"Recent", "Seen", "Deleted"}]
    BY <1>2, LocalType DEF IndInv, AllCalls
  <2>2. pc' \in [Threads -> PCs]
    BY <1>1 DEF IndInv, TypeOK, PCs
  <2>3. QED
    BY <1>1, <2>1, <2>2 DEF IndInv, TypeOK, disk, cache, lock
<1>5. LockInv'
  BY <1>1, <1>3, LockKept DEF IndInv, PCs, ReadLocks, Writing
<1>6. DataInv'
  BY <1>1, <1>3, QuietStep DEF IndInv, Modifying
<1>7. QED
  BY <1>4, <1>5, <1>6 DEF IndInv

(* Taking and giving back the read lock.                                   *)
LEMMA ReadLockStep ==
    ASSUME IndInv, NEW t \in Threads,
           \/ RLock(t) \/ MessagesRLock(t) \/ MessagesRUnlock(t) \/ previous(t)
           \/ gather(t) \/ RUnlock(t)
    PROVE  IndInv'
<1>1. /\ UNCHANGED <<disk, cache, pending, deleted>>
      /\ pc' = [pc EXCEPT ![t] = pc'[t]]
      /\ \/ /\ pending = NoThread
            /\ readers' = [readers EXCEPT ![t] = readers[t] + 1]
            /\ \/ pc[t] = "RLock" /\ pc'[t] \in {"reading", "Messages"}
               \/ pc[t] = "Messages" /\ pc'[t] = "MessagesRUnlock"
         \/ /\ readers' = [readers EXCEPT ![t] = readers[t] - 1]
            /\ \/ pc[t] = "MessagesRUnlock" /\ pc'[t] = "ranges"
               \/ pc[t] \in {"reading", "RUnlock"} /\ pc'[t] \in {"Lock", "idle", "next"}
  BY DEF IndInv, TypeOK, RLock, MessagesRLock, MessagesRUnlock, previous, gather, RUnlock,
         Goto, Return
<1>2. /\ call' = call \/ call' = [call EXCEPT ![t] = "Read"]
      /\ uid' = uid \/ uid' = [uid EXCEPT ![t] = 0]
      /\ new' = new \/ new' = [new EXCEPT ![t] = {}]
      /\ list' = list \/ \E S \in SUBSET ID : list' = [list EXCEPT ![t] = S]
  <2>1. {i \in ids : uids[i] > 0 /\ "Deleted" \in flag[i]} \in SUBSET ID /\ {} \in SUBSET ID
    BY DEF IndInv, TypeOK
  <2>2. QED
    BY <2>1 DEF RLock, MessagesRLock, MessagesRUnlock, previous, gather, RUnlock, Goto, Return,
                local
<1>3. Alone(t)
  BY <1>1, <1>2 DEF Alone, IndInv, TypeOK
<1>4. readers[t] = ReadLocks(pc[t])
  BY DEF IndInv, LockInv
<1>5. PICK n \in Nat : readers' = [readers EXCEPT ![t] = n] /\ n = ReadLocks(pc'[t])
                       /\ (n <= readers[t] \/ pending = NoThread)
  BY <1>1, <1>4 DEF ReadLocks
<1>6. TypeOK'
  <2>1. /\ call' \in [Threads -> AllCalls] /\ uid' \in [Threads -> 0..MaxID]
        /\ list' \in [Threads -> SUBSET ID]
        /\ new' \in [Threads -> SUBSET {"Recent", "Seen", "Deleted"}]
    BY <1>2, LocalType DEF IndInv, AllCalls
  <2>2. pc' \in [Threads -> PCs] /\ readers' \in [Threads -> Nat]
    BY <1>1, <1>5 DEF IndInv, TypeOK, PCs
  <2>3. QED
    BY <1>1, <2>1, <2>2 DEF IndInv, TypeOK, disk, cache
<1>7. LockInv'
  BY <1>1, <1>3, <1>5, ReadLockMoves DEF IndInv, PCs, Writing
<1>8. DataInv'
  BY <1>1, <1>3, QuietStep DEF IndInv, Modifying
<1>9. QED
  BY <1>6, <1>7, <1>8 DEF IndInv

(* A thread asks for the write lock, gets it, and gives it back.           *)
LEMMA WriteLockStep ==
    ASSUME IndInv, NEW t \in Threads, Lock(t) \/ locked(t) \/ Unlock(t)
    PROVE  IndInv'
<1>1. /\ UNCHANGED <<disk, cache, readers, deleted>>
      /\ pc' = [pc EXCEPT ![t] = pc'[t]]
      /\ \/ /\ pc[t] = "Lock" /\ pc'[t] = "locking"
            /\ pending = NoThread /\ pending' = t
         \/ /\ pc[t] = "locking" /\ pc'[t] \in {"save", "delete"}
            /\ pending' = pending /\ \A r \in Threads : readers[r] = 0
         \/ /\ pc[t] = "Unlock" /\ pc'[t] \in {"next", "idle"}
            /\ pending' = NoThread
  BY DEF IndInv, TypeOK, Lock, locked, Unlock, Goto, Return, lock
<1>2. /\ call' = call \/ call' = [call EXCEPT ![t] = "Read"]
      /\ uid' = uid \/ uid' = [uid EXCEPT ![t] = 0]
      /\ new' = new \/ new' = [new EXCEPT ![t] = {}]
      /\ list' = list \/ list' = [list EXCEPT ![t] = {}]
  BY DEF Lock, locked, Unlock, Goto, Return, local
<1>3. Alone(t)
  BY <1>1, <1>2 DEF Alone, IndInv, TypeOK
<1>4. TypeOK'
  <2>1. /\ call' \in [Threads -> AllCalls] /\ uid' \in [Threads -> 0..MaxID]
        /\ list' \in [Threads -> SUBSET ID]
        /\ new' \in [Threads -> SUBSET {"Recent", "Seen", "Deleted"}]
    BY <1>2, LocalType DEF IndInv, AllCalls
  <2>2. pc' \in [Threads -> PCs] /\ pending' \in Threads \cup {NoThread}
    BY <1>1 DEF IndInv, TypeOK, PCs
  <2>3. QED
    BY <1>1, <2>1, <2>2 DEF IndInv, TypeOK, disk, cache
<1>5. LockInv'
  <2>1. \A r \in Threads : r # t => pc'[r] = pc[r]
    BY <1>1 DEF IndInv, TypeOK
  <2>2. \A r \in Threads : readers'[r] = ReadLocks(pc'[r])
    BY <1>1, <2>1 DEF IndInv, LockInv, ReadLocks
  <2>3. \A r \in Threads : pc'[r] \in Writing \cup {"locking"} <=> pending' = r
    BY <1>1, <2>1, MailboxAssumption DEF IndInv, LockInv, Writing
  <2>4. \A u, r \in Threads : pc'[u] \in Writing => readers'[r] = 0
    BY <1>1, <2>1 DEF IndInv, LockInv, Writing
  <2>5. QED
    BY <2>2, <2>3, <2>4 DEF LockInv, ReadLocks
<1>6. DataInv'
  BY <1>1, <1>3, QuietStep DEF IndInv, Modifying
<1>7. QED
  BY <1>4, <1>5, <1>6 DEF IndInv
-----------------------------------------------------------------------------
(* The writer is the only thread in the middle of a change.                *)
LEMMA OnlyWriter ==
    ASSUME LockInv, NEW t \in Threads, pc[t] \in Writing
    PROVE  \A r \in Threads : r # t => pc[r] \notin Modifying
BY DEF LockInv, Writing, Modifying

(* What a step of the writer has to establish.                             *)
LEMMA WriterStep ==
    ASSUME TypeOK, LockInv, NEW t \in Threads, pc[t] \in Writing, Alone(t),
           \A i \in ids' \cup deleted' : i < next',
           NoResurrection',
           pc'[t] \notin Modifying => Matches',
           pc'[t] = "insert" => uid'[t] \in ID \ deleted' /\ uid'[t] < next',
           pc'[t] = "scan" => numRecent' = 0 /\ numUnseen' = 0 /\ nextUID' = next',
           pc'[t] = "append" =>
               list'[t] \subseteq ids' /\ Listed(ids \ list[t])' /\ Counted(ids)',
           pc'[t] = "forget" =>
               /\ uid'[t] \in ID \ ids'
               /\ Listed(ids \cup {uid[t]})' /\ Counted(ids \cup {uid[t]})'
    PROVE  DataInv'
<1>1. \A r \in Threads : r # t => pc'[r] \notin Modifying
  BY OnlyWriter DEF Alone, TypeOK
<1>2. QED
  BY <1>1 DEF DataInv, Modifying

(* The lock while the writer goes on.                                      *)
LEMMA WriterLock ==
    ASSUME TypeOK, LockInv, NEW t \in Threads, Alone(t), UNCHANGED lock,
           pc[t] \in Writing, pc'[t] \in Writing
    PROVE  LockInv'
BY LockKept DEF Writing, PCs, ReadLocks

(* saveBitmessage of a new message.                                        *)
LEMMA InsertNewStep ==
    ASSUME IndInv, NEW t \in Threads, InsertNewMessage(t)
    PROVE  IndInv'
<1>1. /\ pc[t] = "save" /\ next <= MaxID /\ UNCHANGED <<cache, lock, deleted, local>>
      /\ pc' = [pc EXCEPT ![t] = pc'[t]]
  BY DEF IndInv, TypeOK, InsertNewMessage, Goto
<1>2. Alone(t)
  BY <1>1 DEF Alone, local, IndInv, TypeOK
<1>3. next \in ID /\ next \in Nat
  BY <1>1, MailboxAssumption DEF IndInv, TypeOK, ID
<1>4. CASE pc'[t] = "refresh"
  <2>1. /\ ids' = ids \cup {next} /\ flag' = [flag EXCEPT ![next] = new[t]]
        /\ next' = next + 1
    BY <1>1, <1>4 DEF InsertNewMessage, Goto, IndInv, TypeOK
  <2>2. flag' \in [ID -> SUBSET {"Recent", "Seen", "Deleted"}]
    <3>1. new[t] \in SUBSET {"Recent", "Seen", "Deleted"}
      BY DEF IndInv, TypeOK
    <3>2. flag \in [ID -> SUBSET {"Recent", "Seen", "Deleted"}]
      BY DEF IndInv, TypeOK
    <3>3. QED
      BY <2>1, <3>1, <3>2, Zenon
  <2>3. TypeOK'
    <3>1. ids' \subseteq ID
      BY <1>3, <2>1 DEF IndInv, TypeOK
    <3>2. next' \in 1..(MaxID + 1)
      BY <1>1, <1>3, <2>1, MailboxAssumption
    <3>3. pc' \in [Threads -> PCs]
      BY <1>1, <1>4 DEF IndInv, TypeOK, PCs
    <3>4. QED
      BY <1>1, <2>2, <3>1, <3>2, <3>3 DEF IndInv, TypeOK, cache, lock, local
  <2>4. LockInv'
    BY <1>1, <1>2, <1>4, WriterLock DEF IndInv, Writing
  <2>5. /\ \A i \in ids' \cup deleted' : i < next'
        /\ NoResurrection'
    <3>1. \A i \in ids \cup deleted : i \in Nat /\ i < next
      BY DEF IndInv, TypeOK, DataInv, ID
    <3>2. QED
      BY <1>1, <1>3, <2>1, <3>1 DEF IndInv, DataInv, NoResurrection
  <2>6. DataInv'
    BY <1>1, <1>2, <1>4, <2>5, WriterStep DEF IndInv, Writing, Modifying
  <2>7. QED
    BY <2>3, <2>4, <2>6 DEF IndInv
<1>5. CASE pc'[t] # "refresh"
  <2>1. UNCHANGED disk /\ pc'[t] = "Unlock"
    BY <1>1, <1>5 DEF InsertNewMessage, Goto, IndInv, TypeOK
  <2>2. TypeOK'
    BY <1>1, <2>1 DEF IndInv, TypeOK, disk, cache, lock, local, PCs
  <2>3. LockInv'
    BY <1>1, <1>2, <2>1, WriterLock DEF IndInv, Writing
  <2>4. DataInv'
    BY <1>1, <1>2, <2>1, QuietStep DEF IndInv, Modifying
  <2>5. QED
    BY <2>2, <2>3, <2>4 DEF IndInv
<1>6. QED
  BY <1>4, <1>5

(* saveBitmessage deletes the version it replaces.                         *)
LEMMA DeleteStep ==
    ASSUME IndInv, NEW t \in Threads, DeleteMessage(t)
    PROVE  IndInv'
<1>1. /\ pc[t] = "save" /\ UNCHANGED <<flag, next, cache, lock, deleted, local>>
      /\ pc' = [pc EXCEPT ![t] = pc'[t]] /\ pc'[t] \in {"insert", "Unlock"}
      /\ pc'[t] = "insert" => uid[t] \in ids /\ ids' = ids \ {uid[t]}
      /\ pc'[t] = "Unlock" => ids' = ids
  BY DEF IndInv, TypeOK, DeleteMessage, Goto
<1>2. Alone(t)
  BY <1>1 DEF Alone, local, IndInv, TypeOK
<1>3. TypeOK'
  <2>1. ids' \subseteq ID /\ pc' \in [Threads -> PCs]
    BY <1>1 DEF IndInv, TypeOK, PCs
  <2>2. QED
    BY <1>1, <2>1 DEF IndInv, TypeOK, cache, lock, local
<1>4. LockInv'
  BY <1>1, <1>2, WriterLock DEF IndInv, Writing
<1>5. DataInv'
  <2>1. CASE pc'[t] = "Unlock"
    BY <1>1, <1>2, <2>1, QuietStep DEF IndInv, Modifying, disk
  <2>2. CASE pc'[t] = "insert"
    <3>1. uid'[t] \in ID \ deleted' /\ uid'[t] < next'
      BY <1>1, <2>2 DEF IndInv, TypeOK, DataInv, NoResurrection, local
    <3>2. (\A i \in ids' \cup deleted' : i < next') /\ NoResurrection'
      BY <1>1, <2>2 DEF IndInv, DataInv, NoResurrection
    <3>3. QED
      BY <1>1, <1>2, <2>2, <3>1, <3>2, WriterStep DEF IndInv, Writing, Modifying
  <2>3. QED
    BY <1>1, <2>1, <2>2
<1>6. QED
  BY <1>3, <1>4, <1>5 DEF IndInv

(* saveBitmessage inserts the new version, or fails to.                    *)
LEMMA InsertStep ==
    ASSUME IndInv, NEW t \in Threads, InsertMessage(t)
    PROVE  IndInv'
<1>1. /\ pc[t] = "insert" /\ UNCHANGED <<next, cache, lock, deleted, local>>
      /\ pc' = [pc EXCEPT ![t] = pc'[t]] /\ pc'[t] = "refresh"
      /\ \/ ids' = ids \cup {uid[t]} /\ flag' = [flag EXCEPT ![uid[t]] = new[t]]
         \/ ids' = ids /\ flag' = flag
  BY DEF IndInv, TypeOK, InsertMessage, Goto
<1>2. Alone(t)
  BY <1>1 DEF Alone, local, IndInv, TypeOK
<1>3. uid[t] \in ID \ deleted /\ uid[t] < next
  BY <1>1 DEF IndInv, DataInv
<1>4. TypeOK'
  <2>1. flag' \in [ID -> SUBSET {"Recent", "Seen", "Deleted"}]
    <3>1. new[t] \in SUBSET {"Recent", "Seen", "Deleted"}
      BY DEF IndInv, TypeOK
    <3>2. flag \in [ID -> SUBSET {"Recent", "Seen", "Deleted"}]
      BY DEF IndInv, TypeOK
    <3>3. QED
      BY <1>1, <3>1, <3>2, Zenon
  <2>2. ids' \subseteq ID /\ pc' \in [Threads -> PCs]
    BY <1>1, <1>3 DEF IndInv, TypeOK, PCs
  <2>3. QED
    BY <1>1, <2>1, <2>2 DEF IndInv, TypeOK, cache, lock, local
<1>5. LockInv'
  BY <1>1, <1>2, WriterLock DEF IndInv, Writing
<1>6. (\A i \in ids' \cup deleted' : i < next') /\ NoResurrection'
  BY <1>1, <1>3 DEF IndInv, DataInv, NoResurrection
<1>7. DataInv'
  BY <1>1, <1>2, <1>6, WriterStep DEF IndInv, Writing, Modifying
<1>8. QED
  BY <1>4, <1>5, <1>7 DEF IndInv

(* refresh sets the counters back.                                         *)
LEMMA RefreshStep ==
    ASSUME IndInv, NEW t \in Threads, refresh(t)
    PROVE  IndInv'
<1>1. /\ pc[t] = "refresh" /\ UNCHANGED <<disk, uids, lock, deleted, local>>
      /\ pc' = [pc EXCEPT ![t] = pc'[t]] /\ pc'[t] = "scan"
      /\ nextUID' = next /\ numRecent' = 0 /\ numUnseen' = 0
  BY DEF IndInv, TypeOK, refresh, Goto
<1>2. Alone(t)
  BY <1>1 DEF Alone, local, IndInv, TypeOK
<1>3. TypeOK'
  <2>1. pc' \in [Threads -> PCs] /\ nextUID' \in Nat
    BY <1>1 DEF IndInv, TypeOK, PCs
  <2>2. QED
    BY <1>1, <2>1 DEF IndInv, TypeOK, disk, lock, local
<1>4. LockInv'
  BY <1>1, <1>2, WriterLock DEF IndInv, Writing
<1>5. (\A i \in ids' \cup deleted' : i < next') /\ NoResurrection'
  BY <1>1 DEF IndInv, DataInv, NoResurrection, disk
<1>6. DataInv'
  BY <1>1, <1>2, <1>5, WriterStep DEF IndInv, Writing, Modifying, disk
<1>7. QED
  BY <1>3, <1>4, <1>6 DEF IndInv

(* The scan counts what is in the folder.                                  *)
LEMMA ScanStep ==
    ASSUME IndInv, NEW t \in Threads, scan(t)
    PROVE  IndInv'
<1>1. /\ pc[t] = "scan" /\ UNCHANGED <<disk, nextUID, lock, deleted, call, uid, new>>
      /\ pc' = [pc EXCEPT ![t] = pc'[t]] /\ pc'[t] = "append"
      /\ numRecent' = numRecent + Cardinality(Recents(ids))
      /\ numUnseen' = numUnseen + Cardinality(Unseens(ids))
      /\ list' = [list EXCEPT ![t] = ids] /\ uids' = [i \in ID |-> 0]
  BY DEF IndInv, TypeOK, scan
<1>2. Alone(t)
  BY <1>1 DEF Alone, IndInv, TypeOK
<1>3. numRecent = 0 /\ numUnseen = 0 /\ nextUID = next
  BY <1>1 DEF IndInv, DataInv
<1>4. Cardinality(Recents(ids)) \in Nat /\ Cardinality(Unseens(ids)) \in Nat
  BY FiniteFolder DEF IndInv, TypeOK
<1>5. TypeOK'
  <2>1. list' \in [Threads -> SUBSET ID]
    BY <1>1, Update DEF IndInv, TypeOK
  <2>2. pc' \in [Threads -> PCs] /\ numRecent' \in Nat /\ numUnseen' \in Nat
    BY <1>1, <1>3, <1>4 DEF IndInv, TypeOK, PCs
  <2>3. uids' \in [ID -> Nat]
    BY <1>1
  <2>4. QED
    BY <1>1, <2>1, <2>2, <2>3 DEF IndInv, TypeOK, disk, lock
<1>6. LockInv'
  BY <1>1, <1>2, WriterLock DEF IndInv, Writing
<1>7. list'[t] = ids' /\ ids' = ids /\ flag' = flag /\ next' = next
  BY <1>1 DEF IndInv, TypeOK, disk
<1>8. Listed(ids \ list[t])' /\ Counted(ids)'
  <2>1. Listed(ids \ list[t])'
    BY <1>1, <1>7 DEF Listed
  <2>2. Counted(ids)'
    BY <1>1, <1>3, <1>4, <1>7 DEF Counted, Recents, Unseens
  <2>3. QED
    BY <2>1, <2>2
<1>9. (\A i \in ids' \cup deleted' : i < next') /\ NoResurrection'
  BY <1>1, <1>7 DEF IndInv, DataInv, NoResurrection
<1>10. DataInv'
  BY <1>1, <1>2, <1>7, <1>8, <1>9, WriterStep DEF IndInv, Writing, Modifying
<1>11. QED
  BY <1>5, <1>6, <1>10 DEF IndInv

(* The list of uids is filled one by one.                                  *)
LEMMA AppendStep ==
    ASSUME IndInv, NEW t \in Threads, append(t)
    PROVE  IndInv'
<1>1. PICK i \in list[t] : /\ uids' = [uids EXCEPT ![i] = @ + 1]
                           /\ list' = [list EXCEPT ![t] = @ \ {i}]
  BY DEF append
<1>2. /\ pc[t] = "append" /\ UNCHANGED <<disk, numRecent, numUnseen, nextUID, lock, pc>>
      /\ UNCHANGED <<call, uid, new, deleted>>
  BY DEF append
<1>3. Alone(t)
  BY <1>1, <1>2 DEF Alone, IndInv, TypeOK
<1>4. list[t] \subseteq ids /\ Listed(ids \ list[t]) /\ Counted(ids) /\ i \in ID
  BY <1>2 DEF IndInv, DataInv, TypeOK
<1>5. list'[t] = list[t] \ {i} /\ ids' = ids
  BY <1>1, <1>2 DEF IndInv, TypeOK, disk
<1>6. TypeOK'
  <2>1. list' \in [Threads -> SUBSET ID]
    <3>1. list[t] \ {i} \in SUBSET ID
      BY DEF IndInv, TypeOK
    <3>2. QED
      BY <1>1, <3>1, Update DEF IndInv, TypeOK
  <2>2. uids' \in [ID -> Nat]
    BY <1>1, <1>4 DEF IndInv, TypeOK
  <2>3. QED
    BY <1>2, <2>1, <2>2 DEF IndInv, TypeOK, disk, lock
<1>7. LockInv'
  BY <1>2, <1>3, WriterLock DEF IndInv, Writing
<1>8. Listed(ids \ list[t])'
  <2>1. \A j \in ID : uids'[j] = IF j \in ids \ (list[t] \ {i}) THEN 1 ELSE 0
    BY <1>1, <1>4 DEF Listed
  <2>2. uids' = [j \in ID |-> uids'[j]]
    BY <1>6 DEF TypeOK
  <2>3. QED
    BY <1>5, <2>1, <2>2 DEF Listed
<1>9. Counted(ids)'
  BY <1>2, <1>4 DEF Counted, Recents, Unseens, disk
<1>10. (\A j \in ids' \cup deleted' : j < next') /\ NoResurrection'
  BY <1>2 DEF IndInv, DataInv, NoResurrection, disk
<1>11. list'[t] \subseteq ids'
  BY <1>4, <1>5
<1>12. DataInv'
  BY <1>2, <1>3, <1>8, <1>9, <1>10, <1>11, WriterStep DEF IndInv, Writing, Modifying
<1>13. QED
  BY <1>6, <1>7, <1>12 DEF IndInv

(* With nothing left to append, the fields describe the folder again.      *)
LEMMA AppendedStep ==
    ASSUME IndInv, NEW t \in Threads, appended(t)
    PROVE  IndInv'
<1>1. /\ pc[t] = "append" /\ list[t] = {} /\ UNCHANGED <<disk, cache, lock, deleted, local>>
      /\ pc' = [pc EXCEPT ![t] = pc'[t]] /\ pc'[t] = "Unlock"
  BY DEF IndInv, TypeOK, appended, Goto
<1>2. Alone(t)
  BY <1>1 DEF Alone, local, IndInv, TypeOK
<1>3. TypeOK'
  <2>1. pc' \in [Threads -> PCs]
    BY <1>1 DEF IndInv, TypeOK, PCs
  <2>2. QED
    BY <1>1, <2>1 DEF IndInv, TypeOK, disk, cache, lock, local
<1>4. LockInv'
  BY <1>1, <1>2, WriterLock DEF IndInv, Writing
<1>5. Matches
  <2>1. Listed(ids \ list[t]) /\ Counted(ids) /\ ids \ list[t] = ids
    BY <1>1 DEF IndInv, DataInv
  <2>2. QED
    BY <2>1 DEF Matches
<1>6. Matches'
  BY <1>1, <1>5 DEF Matches, Listed, Counted, Recents, Unseens, disk, cache
<1>7. (\A i \in ids' \cup deleted' : i < next') /\ NoResurrection'
  BY <1>1 DEF IndInv, DataInv, NoResurrection, disk
<1>8. DataInv'
  BY <1>1, <1>2, <1>6, <1>7, WriterStep DEF IndInv, Writing, Modifying
<1>9. QED
  BY <1>3, <1>4, <1>8 DEF IndInv

(* A deletion takes the message from the folder, not yet from the fields.  *)
LEMMA DeleteByUIDStep ==
    ASSUME IndInv, NEW t \in Threads, DeleteBitmessageByUID(t)
    PROVE  IndInv'
<1>1. /\ pc[t] = "delete" /\ uid[t] \in ids
      /\ UNCHANGED <<flag, next, cache, lock, call, uid, new>>
      /\ pc' = [pc EXCEPT ![t] = pc'[t]]
      /\ \/ /\ pc'[t] = "forget" /\ ids' = ids \ {uid[t]}
            /\ deleted' = deleted \cup {uid[t]} /\ list' = list
         \/ /\ pc'[t] = "Unlock" /\ ids' = ids /\ deleted' = deleted
            /\ list' = [list EXCEPT ![t] = {}]
  BY DEF IndInv, TypeOK, DeleteBitmessageByUID, bmsgByUID, Goto, local
<1>2. Alone(t)
  BY <1>1 DEF Alone, IndInv, TypeOK
<1>3. TypeOK'
  <2>1. list' \in [Threads -> SUBSET ID]
    BY <1>1, Update DEF IndInv, TypeOK
  <2>2. ids' \subseteq ID /\ deleted' \subseteq ID
    BY <1>1 DEF IndInv, TypeOK
  <2>3. pc' \in [Threads -> PCs]
    BY <1>1 DEF IndInv, TypeOK, PCs
  <2>4. QED
    BY <1>1, <2>1, <2>2, <2>3 DEF IndInv, TypeOK, cache, lock
<1>4. LockInv'
  BY <1>1, <1>2, WriterLock DEF IndInv, Writing
<1>5. CASE pc'[t] = "Unlock"
  <2>1. UNCHANGED <<disk, cache, deleted>>
    BY <1>1, <1>5 DEF disk
  <2>2. DataInv'
    BY <1>1, <1>2, <1>5, <2>1, QuietStep DEF IndInv, Modifying
  <2>3. QED
    BY <1>3, <1>4, <2>2 DEF IndInv
<1>6. CASE pc'[t] = "forget"
  <2>1. \A r \in Threads : pc[r] \notin Modifying
    BY <1>1, OnlyWriter DEF IndInv, Writing, Modifying
  <2>2. Matches
    BY <2>1 DEF IndInv, DataInv
  <2>3. /\ ids' = ids \ {uid[t]} /\ ids' \cup {uid'[t]} = ids
        /\ deleted' = deleted \cup {uid[t]} /\ uid'[t] \in ID \ ids'
    BY <1>1, <1>6 DEF IndInv, TypeOK
  <2>4. Listed(ids \cup {uid[t]})'
    BY <1>1, <2>2, <2>3 DEF Matches, Listed, cache
  <2>5. Counted(ids \cup {uid[t]})'
    BY <1>1, <2>2, <2>3 DEF Matches, Counted, Recents, Unseens, cache
  <2>6. (\A i \in ids' \cup deleted' : i < next') /\ NoResurrection'
    BY <1>1, <2>3 DEF IndInv, DataInv, NoResurrection
  <2>7. DataInv'
    BY <1>1, <1>2, <1>6, <2>3, <2>4, <2>5, <2>6, WriterStep DEF IndInv, Writing, Modifying
  <2>8. QED
    BY <1>3, <1>4, <2>7 DEF IndInv
<1>7. QED
  BY <1>1, <1>5, <1>6

(* The fields follow, and no counter falls below zero.                     *)
LEMMA ForgetStep ==
    ASSUME IndInv, NEW t \in Threads, forget(t)
    PROVE  IndInv'
<1>1. /\ pc[t] = "forget" /\ UNCHANGED <<disk, nextUID, lock, deleted, local>>
      /\ pc' = [pc EXCEPT ![t] = pc'[t]] /\ pc'[t] = "Unlock"
      /\ numRecent' = IF "Recent" \in flag[uid[t]] THEN numRecent - 1 ELSE numRecent
      /\ numUnseen' = IF "Seen" \notin flag[uid[t]] THEN numUnseen - 1 ELSE numUnseen
      /\ uids' = [uids EXCEPT ![uid[t]] = @ - 1]
  BY DEF IndInv, TypeOK, forget, Goto
<1>2. Alone(t)
  BY <1>1 DEF Alone, local, IndInv, TypeOK
<1>3. uid[t] \in ID \ ids /\ Listed(ids \cup {uid[t]}) /\ Counted(ids \cup {uid[t]})
  BY <1>1 DEF IndInv, DataInv
<1>4. Cardinality(Recents(ids)) \in Nat /\ Cardinality(Unseens(ids)) \in Nat
  BY FiniteFolder DEF IndInv, TypeOK
<1>5. numRecent' = Cardinality(Recents(ids)) /\ numUnseen' = Cardinality(Unseens(ids))
  <2>1. ids \subseteq ID
    BY DEF IndInv, TypeOK
  <2>2. QED
    BY <1>1, <1>3, <1>4, <2>1, CountsWithout DEF Counted
<1>6. \A j \in ID : uids'[j] = IF j \in ids THEN 1 ELSE 0
  BY <1>1, <1>3 DEF Listed
<1>7. uids' = [j \in ID |-> IF j \in ids THEN 1 ELSE 0]
  <2>1. uids' = [j \in ID |-> uids'[j]]
    BY <1>1 DEF IndInv, TypeOK
  <2>2. QED
    BY <1>6, <2>1
<1>8. TypeOK'
  <2>1. numRecent' \in Nat /\ numUnseen' \in Nat
    BY <1>4, <1>5
  <2>2. uids' \in [ID -> Nat]
    BY <1>7
  <2>3. pc' \in [Threads -> PCs]
    BY <1>1 DEF IndInv, TypeOK, PCs
  <2>4. QED
    BY <1>1, <2>1, <2>2, <2>3 DEF IndInv, TypeOK, disk, lock, local
<1>9. LockInv'
  BY <1>1, <1>2, WriterLock DEF IndInv, Writing
<1>10. Matches'
  <2>1. Listed(ids)'
    BY <1>1, <1>7 DEF Listed, disk
  <2>2. Counted(ids)'
    BY <1>1, <1>3, <1>5 DEF Counted, Recents, Unseens, disk
  <2>3. QED
    BY <2>1, <2>2 DEF Matches
<1>11. (\A i \in ids' \cup deleted' : i < next') /\ NoResurrection'
  BY <1>1 DEF IndInv, DataInv, NoResurrection, disk
<1>12. DataInv'
  BY <1>1, <1>2, <1>10, <1>11, WriterStep DEF IndInv, Writing, Modifying
<1>13. QED
  BY <1>8, <1>9, <1>12 DEF IndInv
-----------------------------------------------------------------------------
(* A new mailbox of an empty folder.                                       *)
LEMMA InitIndInv == Init => IndInv
<1> SUFFICES ASSUME Init PROVE IndInv
  OBVIOUS
<1>1. TypeOK
  BY MailboxAssumption DEF Init, TypeOK, PCs, AllCalls, ID
<1>2. LockInv
  BY MailboxAssumption DEF Init, LockInv, ReadLocks, Writing
<1>3. Recents(ids) = {} /\ Unseens(ids) = {}
  BY DEF Init, Recents, Unseens
<1>4. Matches
  BY <1>3, FS_EmptySet DEF Init, Matches, Listed, Counted
<1>5. DataInv
  BY <1>4 DEF Init, DataInv, NoResurrection
<1>6. QED
  BY <1>1, <1>2, <1>5 DEF IndInv

(* Every step of every thread keeps the invariant.                         *)
LEMMA StepIndInv == IndInv /\ [Next]_vars => IndInv'
<1> SUFFICES ASSUME IndInv, [Next]_vars PROVE IndInv'
  OBVIOUS
<1>1. ASSUME NEW t \in Threads, Start(t) PROVE IndInv'
  BY <1>1, StartStep
<1>2. ASSUME NEW t \in Threads, Acquire(t) PROVE IndInv'
  BY <1>2, ReadLockStep, WriteLockStep DEF Acquire
<1>3. ASSUME NEW t \in Threads, Work(t) PROVE IndInv'
  BY <1>3, LocalStep, ReadLockStep, WriteLockStep, InsertNewStep, DeleteStep, InsertStep,
     RefreshStep, ScanStep, AppendStep, AppendedStep, DeleteByUIDStep, ForgetStep DEF Work
<1>4. CASE UNCHANGED vars
  <2>1. UNCHANGED <<ids, flag, next, uids, numRecent, numUnseen, nextUID, pending, readers,
                    pc, call, uid, new, list, deleted>>
    BY <1>4 DEF vars, disk, cache, lock, local
  <2>2. TypeOK' /\ LockInv'
    BY <2>1 DEF IndInv, TypeOK, LockInv
  <2>3. DataInv'
    <3>1. Listed(ids) => Listed(ids)'
      BY <2>1 DEF Listed
    <3>2. Counted(ids) => Counted(ids)'
      BY <2>1 DEF Counted, Recents, Unseens
    <3>3. \A t \in Threads : /\ Listed(ids \ list[t]) => Listed(ids \ list[t])'
                             /\ Listed(ids \cup {uid[t]}) => Listed(ids \cup {uid[t]})'
      BY <2>1 DEF Listed
    <3>4. \A t \in Threads : Counted(ids \cup {uid[t]}) => Counted(ids \cup {uid[t]})'
      BY <2>1 DEF Counted, Recents, Unseens
    <3>5. QED
      BY <2>1, <3>1, <3>2, <3>3, <3>4 DEF IndInv, DataInv, NoResurrection, Matches
  <2>4. QED
    BY <2>2, <2>3 DEF IndInv
<1>5. QED
  BY <1>1, <1>2, <1>3, <1>4 DEF Next

(* The inductive invariant holds for any threads and calls: the lock       *)
(* excludes, and the fields are as expected at each step of a change.      *)
THEOREM Invariance == Spec => []IndInv
BY InitIndInv, StepIndInv, PTL DEF Spec

(* The counters and the other fields always have their types; in           *)
(* particular no counter falls below zero.                                 *)
THEOREM TypeCorrect == Spec => []TypeOK
<1>1. IndInv => TypeOK
  BY DEF IndInv
<1>2. QED
  BY Invariance, <1>1, PTL

(* A reader, and a writer that begins, finds fields that agree with the    *)
(* folder.                                                                 *)
THEOREM ReadersSeeTheFolder == Spec => []CacheMatchesDisk
<1>1. IndInv => CacheMatchesDisk
  <2> SUFFICES ASSUME IndInv, NEW t \in Threads,
                      pc[t] \in {"reading", "Messages", "MessagesRUnlock", "ranges", "RUnlock",
                                 "save", "delete"}
               PROVE  Matches
    BY DEF CacheMatchesDisk
  <2>1. CASE pc[t] \in {"save", "delete"}
    BY <2>1, OnlyWriter DEF IndInv, DataInv, Writing, Modifying
  <2>2. CASE pc[t] \notin {"save", "delete"}
    <3>1. readers[t] # 0
      BY <2>2 DEF IndInv, LockInv, ReadLocks
    <3>2. \A r \in Threads : pc[r] \notin Modifying
      BY <3>1 DEF IndInv, LockInv, Writing, Modifying
    <3>3. QED
      BY <3>2 DEF IndInv, DataInv
  <2>3. QED
    BY <2>1, <2>2
<1>2. QED
  BY Invariance, <1>1, PTL

(* A message reported as deleted never comes back into the folder.         *)
THEOREM DeletedStaysDeleted == Spec => []NoResurrection
<1>1. IndInv => NoResurrection
  BY DEF IndInv, DataInv
<1>2. QED
  BY Invariance, <1>1, PTL
=============================================================================

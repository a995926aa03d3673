------------------------------ MODULE Mailbox ------------------------------
(***************************************************************************)
(* One mailbox of user/mailbox.go: what its callers do to the folder on    *)
(* disk and to the fields it caches (uids, numRecent, numUnseen, nextUID), *)
(* under its read-write lock.  The callers are IMAP connections, the SMTP  *)
(* server, and the stream of messages from bmd.  All of them take the      *)
(* lock; process, which does not, uses the Outbox only and is the subject  *)
(* of modules Outgoing and Folder.                                         *)
(*                                                                         *)
(* The lock is Go's sync.RWMutex: from the moment a writer has called Lock *)
(* no new reader gets in, and it waits for the readers that are in.        *)
(*                                                                         *)
(* uids is kept as the number of times it holds an id: refresh sorts it at *)
(* its end, so nothing else about it can be seen by a reader.              *)
(***************************************************************************)
EXTENDS Naturals, FiniteSets

CONSTANTS
    Threads,        \* goroutines that use the mailbox
    Calls,          \* the calls a thread makes, a subset of AllCalls for each
    Flags,          \* the flag sets a message may have
    MaxID,          \* bound on the ids of the folder
    DiskFails,      \* may a change of the folder fail?
    NoThread

AllCalls == {"addNew", "Save", "DeleteFlaggedMessages", "Read",
             "MessageSetBySequenceNumber"}

ASSUME MailboxAssumption ==
    /\ Calls \in [Threads -> SUBSET AllCalls]
    /\ Flags \subseteq SUBSET {"Recent", "Seen", "Deleted"}
    /\ MaxID \in Nat
    /\ DiskFails \in BOOLEAN
    /\ NoThread \notin Threads

VARIABLES
    ids,        \* disk: ids of the messages of the folder
    flag,       \* disk: the flags of each message
    next,       \* the folder's next id
    uids,       \* cache: how often each id is in box.uids
    numRecent,
    numUnseen,
    nextUID,
    pending,    \* lock: the thread that has called Lock, or NoThread
    readers,    \* lock: number of read locks each thread holds
    pc,         \* each thread: next step
    call,       \* each thread: the call it is in
    uid,        \* each thread: id of the message it works on, 0 for a new one
    new,        \* each thread: the flags it saves
    list,       \* each thread: ids, or ranges of them, still to be handled
    deleted     \* history: ids whose deletion has been reported

disk == <<ids, flag, next>>
cache == <<uids, numRecent, numUnseen, nextUID>>
lock == <<pending, readers>>
local == <<call, uid, new, list>>
vars == <<disk, cache, lock, pc, local, deleted>>

ID == 1..MaxID

Recents(S) == {i \in S : "Recent" \in flag[i]}
Unseens(S) == {i \in S : "Seen" \notin flag[i]}

Goto(t, where) == pc' = [pc EXCEPT ![t] = where] /\ UNCHANGED local

(* The call returns, and its local variables are gone.                     *)
Return(t) ==
    /\ pc' = [pc EXCEPT ![t] = "idle"]
    /\ call' = [call EXCEPT ![t] = "Read"]
    /\ uid' = [uid EXCEPT ![t] = 0]
    /\ new' = [new EXCEPT ![t] = {}]
    /\ list' = [list EXCEPT ![t] = {}]

(* newMailbox of an empty folder.                                          *)
Init ==
    /\ ids = {} /\ flag = [i \in ID |-> {}] /\ next = 1
    /\ uids = [i \in ID |-> 0]
    /\ numRecent = 0 /\ numUnseen = 0 /\ nextUID = 1
    /\ pending = NoThread
    /\ readers = [t \in Threads |-> 0]
    /\ pc = [t \in Threads |-> "idle"]
    /\ call = [t \in Threads |-> "Read"]
    /\ uid = [t \in Threads |-> 0]
    /\ new = [t \in Threads |-> {}]
    /\ list = [t \in Threads |-> {}]
    /\ deleted = {}
-----------------------------------------------------------------------------
(* A thread calls addNew, or saves a new message over IMAP.                *)
addNew(t, f) ==
    /\ pc[t] = "idle" /\ "addNew" \in Calls[t]
    /\ call' = [call EXCEPT ![t] = "addNew"]
    /\ new' = [new EXCEPT ![t] = f]
    /\ pc' = [pc EXCEPT ![t] = "Lock"]
    /\ UNCHANGED <<disk, cache, lock, uid, list, deleted>>

(* Save of a message that IMAP has given the id i and the flags f.         *)
Save(t, i, f) ==
    /\ pc[t] = "idle" /\ "Save" \in Calls[t]
    /\ call' = [call EXCEPT ![t] = "Save"]
    /\ uid' = [uid EXCEPT ![t] = i]
    /\ new' = [new EXCEPT ![t] = f]
    /\ pc' = [pc EXCEPT ![t] = "RLock"]
    /\ UNCHANGED <<disk, cache, lock, list, deleted>>

(* The other calls begin with a read lock.                                 *)
Begin(t, c) ==
    /\ pc[t] = "idle" /\ c \in Calls[t]
    /\ call' = [call EXCEPT ![t] = c]
    /\ pc' = [pc EXCEPT ![t] = "RLock"]
    /\ UNCHANGED <<disk, cache, lock, uid, new, list, deleted>>

(* A FETCH of as many ranges of sequence numbers as S has members.         *)
MessageSetBySequenceNumber(t, S) ==
    /\ pc[t] = "idle" /\ "MessageSetBySequenceNumber" \in Calls[t]
    /\ call' = [call EXCEPT ![t] = "MessageSetBySequenceNumber"]
    /\ list' = [list EXCEPT ![t] = S]
    /\ pc' = [pc EXCEPT ![t] = "RLock"]
    /\ UNCHANGED <<disk, cache, lock, uid, new, deleted>>
-----------------------------------------------------------------------------
(* sync.RWMutex.                                                           *)
RLock(t) ==
    /\ pc[t] = "RLock"
    /\ pending = NoThread
    /\ readers' = [readers EXCEPT ![t] = @ + 1]
    /\ Goto(t, IF call[t] = "MessageSetBySequenceNumber" THEN "Messages" ELSE "reading")
    /\ UNCHANGED <<disk, cache, pending, deleted>>

Lock(t) ==
    /\ pc[t] = "Lock"
    /\ pending = NoThread
    /\ pending' = t
    /\ Goto(t, "locking")
    /\ UNCHANGED <<disk, cache, readers, deleted>>

locked(t) ==
    /\ pc[t] = "locking"
    /\ \A r \in Threads : readers[r] = 0
    /\ Goto(t, IF call[t] = "DeleteFlaggedMessages" THEN "delete" ELSE "save")
    /\ UNCHANGED <<disk, cache, lock, deleted>>
-----------------------------------------------------------------------------
(* bmsgByUID finds a message in the cache and on disk.                     *)
bmsgByUID(i) == i \in ids /\ uids[i] > 0

(* The calls that only read.                                               *)
Read(t) ==
    /\ pc[t] = "reading" /\ call[t] = "Read"
    /\ Goto(t, "RUnlock")
    /\ UNCHANGED <<disk, cache, lock, deleted>>

(* bitmessageSetBySequenceNumber calls Messages, which takes the lock once *)
(* more: at its beginning, and for each range of the set.                  *)
MessagesRLock(t) ==
    /\ pc[t] = "Messages"
    /\ pending = NoThread
    /\ readers' = [readers EXCEPT ![t] = @ + 1]
    /\ Goto(t, "MessagesRUnlock")
    /\ UNCHANGED <<disk, cache, pending, deleted>>

MessagesRUnlock(t) ==
    /\ pc[t] = "MessagesRUnlock"
    /\ readers' = [readers EXCEPT ![t] = @ - 1]
    /\ Goto(t, "ranges")
    /\ UNCHANGED <<disk, cache, pending, deleted>>

nextRange(t) ==
    /\ pc[t] = "ranges"
    /\ \E i \in ID : uids[i] > 0
    /\ \E i \in list[t] : list' = [list EXCEPT ![t] = @ \ {i}]
    /\ pc' = [pc EXCEPT ![t] = "Messages"]
    /\ UNCHANGED <<disk, cache, lock, call, uid, new, deleted>>

noMoreRanges(t) ==
    /\ pc[t] = "ranges"
    /\ Goto(t, "RUnlock")
    /\ UNCHANGED <<disk, cache, lock, deleted>>

(* Save looks for the previous version and lets go of the lock.  It ends   *)
(* here when there is none or its date differs.                            *)
previous(t) ==
    /\ pc[t] = "reading" /\ call[t] = "Save"
    /\ readers' = [readers EXCEPT ![t] = @ - 1]
    /\ \/ bmsgByUID(uid[t]) /\ Goto(t, "Lock")
       \/ Return(t)
    /\ UNCHANGED <<disk, cache, pending, deleted>>

(* DeleteFlaggedMessages collects, and lets go of the lock.                *)
gather(t) ==
    /\ pc[t] = "reading" /\ call[t] = "DeleteFlaggedMessages"
    /\ list' = [list EXCEPT ![t] = {i \in ids : uids[i] > 0 /\ "Deleted" \in flag[i]}]
    /\ readers' = [readers EXCEPT ![t] = @ - 1]
    /\ pc' = [pc EXCEPT ![t] = "next"]
    /\ UNCHANGED <<disk, cache, pending, call, uid, new, deleted>>

RUnlock(t) ==
    /\ pc[t] = "RUnlock"
    /\ readers' = [readers EXCEPT ![t] = @ - 1]
    /\ Return(t)
    /\ UNCHANGED <<disk, cache, pending, deleted>>
-----------------------------------------------------------------------------
(* saveBitmessage of a new message.  After an error nothing is refreshed.  *)
InsertNewMessage(t) ==
    /\ pc[t] = "save" /\ uid[t] = 0
    /\ next <= MaxID
    /\ \/ /\ ids' = ids \cup {next}
          /\ flag' = [flag EXCEPT ![next] = new[t]]
          /\ next' = next + 1
          /\ Goto(t, "refresh")
       \/ /\ DiskFails
          /\ Goto(t, "Unlock")
          /\ UNCHANGED disk
    /\ UNCHANGED <<cache, lock, deleted>>

(* The folder is full: a bound of the model.                               *)
full(t) ==
    /\ pc[t] = "save" /\ uid[t] = 0
    /\ next > MaxID
    /\ Goto(t, "Unlock")
    /\ UNCHANGED <<disk, cache, lock, deleted>>

(* Mistake: the error of DeleteMessage is ignored.                         *)
DeleteMessage_ignored(t) ==
    /\ pc[t] = "save" /\ uid[t] # 0
    /\ ids' = ids \ {uid[t]}
    /\ Goto(t, "insert")
    /\ UNCHANGED <<flag, next, cache, lock, deleted>>

(* saveBitmessage of an existing message: the old version is deleted, an   *)
(* error if it is gone.                                                    *)
DeleteMessage(t) ==
    /\ pc[t] = "save" /\ uid[t] # 0
    /\ \/ /\ uid[t] \in ids
          /\ ids' = ids \ {uid[t]}
          /\ Goto(t, "insert")
       \/ /\ uid[t] \notin ids \/ DiskFails
          /\ Goto(t, "Unlock")
          /\ UNCHANGED ids
    /\ UNCHANGED <<flag, next, cache, lock, deleted>>

(* The new version is inserted.  A failure goes unnoticed, as its error is *)
(* assigned to a variable of the inner block.                              *)
InsertMessage(t) ==
    /\ pc[t] = "insert"
    /\ \/ /\ ids' = ids \cup {uid[t]}
          /\ flag' = [flag EXCEPT ![uid[t]] = new[t]]
       \/ DiskFails /\ UNCHANGED <<ids, flag>>
    /\ Goto(t, "refresh")
    /\ UNCHANGED <<next, cache, lock, deleted>>
-----------------------------------------------------------------------------
(* Mistake: the counters are not set back before the scan.                 *)
refresh_keepsCounts(t) ==
    /\ pc[t] = "refresh"
    /\ nextUID' = next
    /\ Goto(t, "scan")
    /\ UNCHANGED <<disk, uids, numRecent, numUnseen, lock, deleted>>

(* refresh, which only a change of the folder is followed by.              *)
refresh(t) ==
    /\ pc[t] = "refresh"
    /\ nextUID' = next
    /\ numRecent' = 0
    /\ numUnseen' = 0
    /\ Goto(t, "scan")
    /\ UNCHANGED <<disk, uids, lock, deleted>>

(* ForEachMessage counts and lists the messages, and the list of uids      *)
(* begins anew.                                                            *)
scan(t) ==
    /\ pc[t] = "scan"
    /\ numRecent' = numRecent + Cardinality(Recents(ids))
    /\ numUnseen' = numUnseen + Cardinality(Unseens(ids))
    /\ list' = [list EXCEPT ![t] = ids]
    /\ uids' = [i \in ID |-> 0]
    /\ pc' = [pc EXCEPT ![t] = "append"]
    /\ UNCHANGED <<disk, nextUID, lock, call, uid, new, deleted>>

append(t) ==
    /\ pc[t] = "append"
    /\ \E i \in list[t] :
        /\ uids' = [uids EXCEPT ![i] = @ + 1]
        /\ list' = [list EXCEPT ![t] = @ \ {i}]
    /\ UNCHANGED <<disk, numRecent, numUnseen, nextUID, lock, pc, call, uid, new,
                   deleted>>

appended(t) ==
    /\ pc[t] = "append"
    /\ list[t] = {}
    /\ Goto(t, "Unlock")
    /\ UNCHANGED <<disk, cache, lock, deleted>>
-----------------------------------------------------------------------------
(* DeleteFlaggedMessages deletes the messages it has collected, each with  *)
(* a call of DeleteBitmessageByUID, which takes the lock.                  *)
nextFlagged(t) ==
    /\ pc[t] = "next"
    /\ \E i \in list[t] :
        /\ uid' = [uid EXCEPT ![t] = i]
        /\ list' = [list EXCEPT ![t] = @ \ {i}]
    /\ pc' = [pc EXCEPT ![t] = "Lock"]
    /\ UNCHANGED <<disk, cache, lock, call, new, deleted>>

noneFlagged(t) ==
    /\ pc[t] = "next"
    /\ list[t] = {}
    /\ Return(t)
    /\ UNCHANGED <<disk, cache, lock, deleted>>

(* An error ends the whole call.                                           *)
DeleteBitmessageByUID(t) ==
    /\ pc[t] = "delete"
    /\ bmsgByUID(uid[t])
    /\ \/ /\ ids' = ids \ {uid[t]}
          /\ deleted' = deleted \cup {uid[t]}
          /\ Goto(t, "forget")
       \/ /\ DiskFails
          /\ list' = [list EXCEPT ![t] = {}]
          /\ pc' = [pc EXCEPT ![t] = "Unlock"]
          /\ UNCHANGED <<ids, deleted, call, uid, new>>
    /\ UNCHANGED <<flag, next, cache, lock>>

(* The message is not there any more: nil is returned.                     *)
notThere(t) ==
    /\ pc[t] = "delete"
    /\ ~bmsgByUID(uid[t])
    /\ Goto(t, "Unlock")
    /\ UNCHANGED <<disk, cache, lock, deleted>>

(* The cache is brought up to date with the flags of the deleted message.  *)
forget(t) ==
    /\ pc[t] = "forget"
    /\ numRecent' = IF "Recent" \in flag[uid[t]] THEN numRecent - 1 ELSE numRecent
    /\ numUnseen' = IF "Seen" \notin flag[uid[t]] THEN numUnseen - 1 ELSE numUnseen
    /\ uids' = [uids EXCEPT ![uid[t]] = @ - 1]
    /\ Goto(t, "Unlock")
    /\ UNCHANGED <<disk, nextUID, lock, deleted>>

(* Mistake: Unlock is forgotten after a deletion.                          *)
Unlock_forgotten(t) ==
    /\ pc[t] = "Unlock"
    /\ pending' = IF uid[t] \in deleted THEN pending ELSE NoThread
    /\ \/ call[t] = "DeleteFlaggedMessages" /\ Goto(t, "next")
       \/ call[t] # "DeleteFlaggedMessages" /\ Return(t)
    /\ UNCHANGED <<disk, cache, readers, deleted>>

Unlock(t) ==
    /\ pc[t] = "Unlock"
    /\ pending' = NoThread
    /\ \/ call[t] = "DeleteFlaggedMessages" /\ Goto(t, "next")
       \/ call[t] # "DeleteFlaggedMessages" /\ Return(t)
    /\ UNCHANGED <<disk, cache, readers, deleted>>
-----------------------------------------------------------------------------
Acquire(t) == RLock(t) \/ MessagesRLock(t) \/ Lock(t) \/ locked(t)

Work(t) ==
    \/ Read(t) \/ MessagesRUnlock(t) \/ nextRange(t) \/ noMoreRanges(t)
    \/ previous(t) \/ gather(t) \/ RUnlock(t)
    \/ InsertNewMessage(t) \/ full(t) \/ DeleteMessage(t) \/ InsertMessage(t)
    \/ refresh(t) \/ scan(t) \/ append(t) \/ appended(t)
    \/ nextFlagged(t) \/ noneFlagged(t)
    \/ DeleteBitmessageByUID(t) \/ notThere(t) \/ forget(t)
    \/ Unlock(t)

Start(t) ==
    \/ \E f \in Flags : addNew(t, f)
    \/ \E i \in ID, f \in Flags : Save(t, i, f)
    \/ \E S \in SUBSET ID : MessageSetBySequenceNumber(t, S)
    \/ \E c \in {"Read", "DeleteFlaggedMessages"} : Begin(t, c)

Next == \E t \in Threads : Start(t) \/ Acquire(t) \/ Work(t)

Spec == Init /\ [][Next]_vars

(* A thread inside a call goes on.  sync.RWMutex starves neither readers,  *)
(* who are let in when a writer leaves, nor writers, who keep new readers  *)
(* out; hence strong fairness.  Nobody has to begin a call.                *)
Fairness == \A t \in Threads : SF_vars(Acquire(t) \/ Work(t))

FairSpec == Spec /\ Fairness
-----------------------------------------------------------------------------
PCs == {"idle", "RLock", "Lock", "locking", "reading", "Messages",
        "MessagesRUnlock", "ranges", "RUnlock", "save", "insert", "refresh", "scan",
        "append", "next", "delete", "forget", "Unlock"}

(* The types of the folder, the cache and the threads.  The counters are   *)
(* unsigned in the code: they may never fall below zero.                   *)
TypeOK ==
    /\ ids \subseteq ID
    /\ flag \in [ID -> SUBSET {"Recent", "Seen", "Deleted"}]
    /\ next \in 1..(MaxID + 1)
    /\ uids \in [ID -> Nat]
    /\ numRecent \in Nat /\ numUnseen \in Nat /\ nextUID \in Nat
    /\ pending \in Threads \cup {NoThread}
    /\ readers \in [Threads -> Nat]
    /\ pc \in [Threads -> PCs]
    /\ call \in [Threads -> AllCalls]
    /\ uid \in [Threads -> 0..MaxID]
    /\ new \in [Threads -> SUBSET {"Recent", "Seen", "Deleted"}]
    /\ list \in [Threads -> SUBSET ID]
    /\ deleted \subseteq ID

Writing == {"save", "insert", "refresh", "scan", "append", "delete", "forget",
            "Unlock"}

Modifying == {"insert", "refresh", "scan", "append", "forget"}

(* The cached fields describe a folder whose messages are S.               *)
Listed(S) == uids = [i \in ID |-> IF i \in S THEN 1 ELSE 0]

Counted(S) ==
    /\ numRecent = Cardinality(Recents(S))
    /\ numUnseen = Cardinality(Unseens(S))
    /\ nextUID = next

Matches == Listed(ids) /\ Counted(ids)

(* mailbox.go 114: the lock is to "Protect the following fields."  A       *)
(* reader, and a writer that begins, finds fields that agree with the      *)
(* folder, whatever saves, deletions and failed inserts came before.       *)
CacheMatchesDisk ==
    (\E t \in Threads : pc[t] \in 
        {"reading", "Messages", "MessagesRUnlock", "ranges", "RUnlock", "save", "delete"})
        => Matches

(* A message whose deletion was reported stays deleted: a Save that had    *)
(* seen it before, or was in the middle of replacing it, does not bring it *)
(* back (mailbox.go 654-659, 717-732).                                     *)
NoResurrection == ids \cap deleted = {}

(* The number of read locks a thread holds at a step.                      *)
ReadLocks(where) ==
    IF where = "MessagesRUnlock" THEN 2
    ELSE IF where \in {"reading", "Messages", "ranges", "RUnlock"} THEN 1 ELSE 0

(* The lock excludes: whoever writes is alone.                             *)
LockInv ==
    /\ \A t \in Threads : readers[t] = ReadLocks(pc[t])
    /\ \A t \in Threads : pc[t] \in Writing \cup {"locking"} <=> pending = t
    /\ \A t, r \in Threads : pc[t] \in Writing => readers[r] = 0

(* What the cached fields are at each step of a change of the folder.      *)
DataInv ==
    /\ \A i \in ids \cup deleted : i < next
    /\ NoResurrection
    /\ (\A t \in Threads : pc[t] \notin Modifying) => Matches
    /\ \A t \in Threads :
        /\ pc[t] = "insert" => uid[t] \in ID \ deleted /\ uid[t] < next
        /\ pc[t] = "scan" => numRecent = 0 /\ numUnseen = 0 /\ nextUID = next
        /\ pc[t] = "append" =>
              list[t] \subseteq ids /\ Listed(ids \ list[t]) /\ Counted(ids)
        /\ pc[t] = "forget" =>
              /\ uid[t] \in ID \ ids
              /\ Listed(ids \cup {uid[t]}) /\ Counted(ids \cup {uid[t]})

(* What makes CacheMatchesDisk and NoResurrection inductive.               *)
IndInv == TypeOK /\ LockInv /\ DataInv

(* mailbox.go 96-98: "Only public functions take care of                   *)
(* locking/unlocking the embedded RWMutex", so a call takes the lock once, *)
(* and a call that has begun returns.                                      *)
CallsReturn == \A t \in Threads : pc[t] # "idle" ~> pc[t] = "idle"

(* A reader that asks for the read lock again and a writer waiting for it. *)
Nested ==
    /\ pending # NoThread
    /\ \E t \in Threads : pc[t] = "Messages"

(* No other order of the calls leads to threads that wait for each other:  *)
(* every call returns, or a read lock taken twice met a writer.            *)
OnlyNestedBlocks ==
    \A t \in Threads : pc[t] # "idle" ~> pc[t] = "idle" \/ Nested
=============================================================================

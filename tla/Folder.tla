------------------------------- MODULE Folder -------------------------------
(***************************************************************************)
(* One folder of the store, store/folder.go: the bolt bucket that holds    *)
(* its messages and the next id, the copy of the next id that the folder   *)
(* object keeps in memory, and the goroutines that call it.                *)
(*                                                                         *)
(* A bolt Update transaction is atomic and excludes the others, but        *)
(* InsertNewMessage reads the unprotected field nextID four times: twice   *)
(* inside the transaction, and twice after it, to return it and to         *)
(* increment it.  Each read and the write of the increment is a step of    *)
(* its own.  Callers in locked hold the lock of the mailbox that owns the  *)
(* folder (mailbox.addNew, Save, DeleteBitmessageByUID).  The others do    *)
(* not: process saves messages of the Outbox without the lock, and those   *)
(* that DeliverPublic hands it have no uid and are inserted as new.        *)
(***************************************************************************)
EXTENDS Naturals, FiniteSets

CONSTANTS
    Callers,        \* goroutines that use the folder
    MaxID,          \* bound on the ids handed out
    NoCaller        \* no goroutine

ASSUME FolderAssumption ==
    /\ MaxID \in Nat
    /\ NoCaller \notin Callers

VARIABLES
    locked,     \* the callers that hold the mailbox lock around a call
    stored,     \* disk: ids of the messages in the bucket
    diskNext,   \* disk: folderNextIDKey
    nextID,     \* memory: folder.nextID
    writer,     \* the caller inside a bolt Update transaction, or NoCaller
    box,        \* the caller that holds the mailbox lock, or NoCaller
    pc,         \* the next step of a caller
    newNext,    \* the value of nextID read for the key folderNextIDKey
    key,        \* the id under which the caller's message was put
    ret,        \* the id returned to the caller
    loaded,     \* the value of nextID loaded by the increment
    failed,     \* callers whose last InsertNewMessage gave ErrDuplicateID
    used,       \* history: every id under which a new message was ever put
    raced       \* history: has an InsertNewMessage begun its transaction before
                \* another one had incremented nextID?

disk == <<stored, diskNext>>
locals == <<newNext, key, ret, loaded>>
vars == <<locked, disk, nextID, writer, box, pc, locals, failed, used, raced>>

ID == 1..MaxID

Step == {"idle", "putNext", "putMessage", "return", "load", "store"}

(* newFolder on a bucket that does not exist yet.                          *)
Init ==
    /\ locked \in SUBSET Callers
    /\ stored = {}
    /\ diskNext = 1
    /\ nextID = 1
    /\ writer = NoCaller
    /\ box = NoCaller
    /\ pc = [c \in Callers |-> "idle"]
    /\ newNext = [c \in Callers |-> 0]
    /\ key = [c \in Callers |-> 0]
    /\ ret = [c \in Callers |-> 0]
    /\ loaded = [c \in Callers |-> 0]
    /\ failed = {}
    /\ used = {}
    /\ raced = FALSE

(* Mistake: the mailbox lock is not waited for.                            *)
lockMailbox_always(c) ==
    /\ c \in locked
    /\ box' = c
    /\ UNCHANGED <<disk, nextID, writer, pc, locals, failed, used, raced, locked>>

(* box.Lock and the deferred box.Unlock of a mailbox operation.            *)
lockMailbox(c) ==
    /\ c \in locked
    /\ box = NoCaller
    /\ box' = c
    /\ UNCHANGED <<disk, nextID, writer, pc, locals, failed, used, raced, locked>>

unlockMailbox(c) ==
    /\ box = c
    /\ pc[c] = "idle"
    /\ box' = NoCaller
    /\ UNCHANGED <<disk, nextID, writer, pc, locals, failed, used, raced, locked>>

(* A caller may use the folder: it is between two calls and has the lock   *)
(* if it takes it at all.                                                  *)
MayCall(c) == pc[c] = "idle" /\ (c \in locked => box = c)

(* A caller whose message is committed and whose increment of nextID is    *)
(* not.                                                                    *)
Committed(c) == pc[c] \in {"return", "load", "store"}

(* InsertNewMessage enters its Update transaction, waiting for another     *)
(* writer to leave.                                                        *)
InsertNewMessage(c) ==
    /\ MayCall(c)
    /\ writer = NoCaller
    /\ writer' = c
    /\ pc' = [pc EXCEPT ![c] = "putNext"]
    /\ failed' = failed \ {c}
    /\ raced' = (raced \/ \E d \in Callers : Committed(d))
    /\ UNCHANGED <<disk, nextID, box, locals, used, locked>>

(* Mistake: the id of the message itself is written as the next id.        *)
putNext_same(c) ==
    /\ pc[c] = "putNext"
    /\ nextID <= MaxID
    /\ newNext' = [newNext EXCEPT ![c] = nextID]
    /\ pc' = [pc EXCEPT ![c] = "putMessage"]
    /\ UNCHANGED <<disk, nextID, writer, box, key, ret, loaded, failed, used, raced, locked>>

(* The first read of nextID: the value to be put under folderNextIDKey.    *)
putNext(c) ==
    /\ pc[c] = "putNext"
    /\ nextID <= MaxID
    /\ newNext' = [newNext EXCEPT ![c] = nextID + 1]
    /\ pc' = [pc EXCEPT ![c] = "putMessage"]
    /\ UNCHANGED <<disk, nextID, writer, box, key, ret, loaded, failed, used, raced, locked>>

(* Mistake: the message is put without looking for another with its id.    *)
putMessage_noCheck(c) ==
    /\ pc[c] = "putMessage"
    /\ nextID <= MaxID
    /\ writer' = NoCaller
    /\ stored' = stored \cup {nextID}
    /\ diskNext' = newNext[c]
    /\ key' = [key EXCEPT ![c] = nextID]
    /\ used' = used \cup {nextID}
    /\ pc' = [pc EXCEPT ![c] = "return"]
    /\ UNCHANGED <<nextID, box, newNext, ret, loaded, failed, raced, locked>>

(* The second read of nextID is the key of the message.  A message with    *)
(* that id rolls the transaction back; otherwise it commits.               *)
putMessage(c) ==
    /\ pc[c] = "putMessage"
    /\ nextID <= MaxID
    /\ writer' = NoCaller
    /\ \/ /\ nextID \in stored
          /\ failed' = failed \cup {c}
          /\ pc' = [pc EXCEPT ![c] = "idle"]
          /\ UNCHANGED <<disk, key, used>>
       \/ /\ nextID \notin stored
          /\ stored' = stored \cup {nextID}
          /\ diskNext' = newNext[c]
          /\ key' = [key EXCEPT ![c] = nextID]
          /\ used' = used \cup {nextID}
          /\ pc' = [pc EXCEPT ![c] = "return"]
          /\ UNCHANGED failed
    /\ UNCHANGED <<nextID, box, newNext, ret, loaded, raced, locked>>

(* The transaction fails to commit: nothing of it remains.                 *)
commitFails(c) ==
    /\ pc[c] = "putMessage"
    /\ writer' = NoCaller
    /\ pc' = [pc EXCEPT ![c] = "idle"]
    /\ UNCHANGED <<disk, nextID, box, locals, failed, used, raced, locked>>

(* return f.nextID, the third read.                                        *)
returnID(c) ==
    /\ pc[c] = "return"
    /\ ret' = [ret EXCEPT ![c] = nextID]
    /\ pc' = [pc EXCEPT ![c] = "load"]
    /\ UNCHANGED <<disk, nextID, writer, box, newNext, key, loaded, failed, used, raced, locked>>

(* The deferred f.nextID++ is a load and a store.                          *)
loadNextID(c) ==
    /\ pc[c] = "load"
    /\ loaded' = [loaded EXCEPT ![c] = nextID]
    /\ pc' = [pc EXCEPT ![c] = "store"]
    /\ UNCHANGED <<disk, nextID, writer, box, newNext, key, ret, failed, used, raced, locked>>

storeNextID(c) ==
    /\ pc[c] = "store"
    /\ nextID' = loaded[c] + 1
    /\ pc' = [pc EXCEPT ![c] = "idle"]
    /\ UNCHANGED <<disk, writer, box, locals, failed, used, raced, locked>>

(* InsertMessage: an id that has been handed out and is free.              *)
InsertMessage(c, id) ==
    /\ MayCall(c)
    /\ writer = NoCaller
    /\ id < nextID
    /\ id \notin stored
    /\ stored' = stored \cup {id}
    /\ UNCHANGED <<diskNext, nextID, writer, box, pc, locals, failed, used, raced,
                   locked>>

DeleteMessage(c, id) ==
    /\ MayCall(c)
    /\ writer = NoCaller
    /\ id < nextID
    /\ id \in stored
    /\ stored' = stored \ {id}
    /\ UNCHANGED <<diskNext, nextID, writer, box, pc, locals, failed, used, raced,
                   locked>>

(* Mistake: the next id is not stored, but derived from the messages left. *)
restart_fromMessages ==
    /\ nextID' = CHOOSE n \in 1..(MaxID + 1) :
                    /\ \A id \in stored : id < n
                    /\ n = 1 \/ n - 1 \in stored
    /\ writer' = NoCaller
    /\ box' = NoCaller
    /\ pc' = [c \in Callers |-> "idle"]
    /\ failed' = {}
    /\ UNCHANGED <<disk, locals, used, raced, locked>>

(* The process dies and a new one opens the folder: initialize reads the   *)
(* next id from the bucket; all else in memory is gone.                    *)
restart ==
    /\ nextID' = diskNext
    /\ writer' = NoCaller
    /\ box' = NoCaller
    /\ pc' = [c \in Callers |-> "idle"]
    /\ failed' = {}
    /\ UNCHANGED <<disk, locals, used, raced, locked>>

Next ==
    \/ \E c \in Callers :
        \/ lockMailbox(c) \/ unlockMailbox(c)
        \/ InsertNewMessage(c) \/ putNext(c) \/ putMessage(c) \/ commitFails(c)
        \/ returnID(c) \/ loadNextID(c) \/ storeNextID(c)
        \/ \E id \in ID : InsertMessage(c, id) \/ DeleteMessage(c, id)
    \/ restart

Spec == Init /\ [][Next]_vars
-----------------------------------------------------------------------------
(* The types of the bucket's contents and of the goroutines' variables.    *)
TypeOK ==
    /\ locked \subseteq Callers
    /\ stored \subseteq ID
    /\ diskNext \in 1..(MaxID + 1)
    /\ nextID \in 1..(MaxID + 1)
    /\ writer \in Callers \cup {NoCaller}
    /\ box \in locked \cup {NoCaller}
    /\ pc \in [Callers -> Step]
    /\ newNext \in [Callers -> 0..(MaxID + 1)]
    /\ key \in [Callers -> 0..MaxID]
    /\ ret \in [Callers -> 0..(MaxID + 1)]
    /\ loaded \in [Callers -> 0..(MaxID + 1)]
    /\ failed \subseteq Callers
    /\ used \subseteq ID
    /\ raced \in BOOLEAN

(* Caller c puts a new message.                                            *)
puts(c) == pc[c] = "putMessage" /\ pc'[c] = "return"

(* A new message is put under an id above all those used before.           *)
NewIsAbove ==
    \A c \in Callers : puts(c) => \A old \in used : old < key'[c]

(* store/db.go 68-71: "IMAP requires existence of unique message IDs that  *)
(* do not change over sessions".  A new message gets an id larger than all *)
(* the ids given before it, also those of messages that have been deleted  *)
(* and those given before a crash, as long as no two InsertNewMessage      *)
(* overlap; callers that all take the mailbox lock never do.               *)
IDsIncrease == [][raced \/ NewIsAbove]_vars

(* store/folder.go 337-338: InsertNewMessage "returns the new id".  The id *)
(* it returns, which it reads again after its transaction, is the one it   *)
(* put the message under, whether or not its callers take the lock: a      *)
(* second insert meets the first one's message and fails until the first   *)
(* has incremented nextID.                                                 *)
ReturnsItsKey ==
    \A c \in Callers : pc[c] \in {"load", "store"} => ret[c] = key[c]

(* Every message in the bucket has an id below the next id in the bucket,  *)
(* so the folder a new process opens does not start on a taken id.         *)
DiskAhead == \A id \in stored : id < diskNext

(* InsertNewMessage meets no message at the position it chose.             *)
NewPosition == failed = {}

(* store/folder.go 337-338: InsertNewMessage inserts the message "into a   *)
(* new position in the database".  Inserts that overlap, and nothing else, *)
(* make it give ErrDuplicateID or leave a next id in the bucket that a     *)
(* message has; and inserts overlap only if some caller does not take the  *)
(* lock, as process does not.                                              *)
OnlyRacesHarm ==
    /\ (DiskAhead /\ NewPosition) \/ raced
    /\ raced => locked # Callers

(* Whatever overlaps, the next id in the bucket is at most one too low: a  *)
(* message under it makes the inserts of a new process fail, and no        *)
(* message is above it.                                                    *)
DiskNotFarBehind == \A id \in stored : id <= diskNext

(* The parts of the inductive invariant that hold for any callers.         *)

(* Who holds the lock of the mailbox, and who is in the transaction.       *)
LocksInv ==
    /\ \A c \in locked : pc[c] # "idle" => box = c
    /\ \A c \in Callers : pc[c] \in {"putNext", "putMessage"} <=> writer = c
    /\ raced => locked # Callers

(* One caller at most has committed and not incremented: its message has   *)
(* the id nextID, which the next caller finds taken.                       *)
CommittedInv ==
    /\ \A c, d \in Callers : Committed(c) /\ Committed(d) => c = d
    /\ \A c \in Callers : Committed(c) =>
         key[c] = nextID /\ nextID \in stored /\ nextID <= diskNext
    /\ \A c \in Callers : pc[c] = "store" => loaded[c] = nextID

(* How far the next ids may be apart.                                      *)
NextIDsInv ==
    /\ nextID <= diskNext + 1
    /\ \A id \in stored : id <= nextID
    /\ \A c \in Callers : pc[c] = "putMessage" =>
         \/ newNext[c] = nextID + 1
         \/ newNext[c] = nextID /\ \A d \in Callers : ~Committed(d)

(* What holds besides until inserts overlap: one caller at a time is       *)
(* inside InsertNewMessage, and the next id in memory lags behind the one  *)
(* in the bucket exactly while it has committed and not incremented.       *)
SerialInv ==
    /\ DiskAhead
    /\ NewPosition
    /\ \A id \in used : id < diskNext
    /\ \A c, d \in Callers : pc[c] # "idle" /\ pc[d] # "idle" => c = d
    /\ \A c \in Callers : pc[c] = "putMessage" => newNext[c] = nextID + 1
    /\ \A c \in Callers : Committed(c) => diskNext = nextID + 1
    /\ (\A c \in Callers : ~Committed(c)) => diskNext = nextID

IndInv ==
    /\ TypeOK
    /\ ReturnsItsKey
    /\ DiskNotFarBehind
    /\ LocksInv
    /\ CommittedInv
    /\ NextIDsInv
    /\ raced \/ SerialInv
=============================================================================

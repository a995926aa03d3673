# Verification of bmagent

bmagent is a Bitmessage client that speaks e-mail: people send through its SMTP
server and read through its IMAP server, and a separate daemon, bmd, connects it
to the Bitmessage network. This directory holds TLA+ models of its core, the TLC
configurations that check them, and TLAPS proofs about them. All paths below are
paths of the repository.

## 1. The system

### Components, their state and their operations

| Component | State | Operations |
|---|---|---|
| Proof-of-work manager, `powmgr/pow.go` | linked list of orders (head, tail pointer) under a mutex; worker goroutines | `Run`, `enqueue`, `dequeue`, `work`, callbacks in goroutines of their own |
| Folders on disk, `store/folder.go` | bolt buckets of encrypted messages, next id on disk and a copy in memory; map of open folders | `InsertNewMessage`, `InsertMessage`, `GetMessage`, `ForEachMessage`, `DeleteMessage`, `NextID`; `New`, `Get`, `Rename`, `Delete` of folders |
| Mailbox, `user/mailbox.go` | cached uids and counters of a folder under an RWMutex; map of objects | `addNew`, `Save`, `DeleteBitmessageByUID`, `DeleteFlaggedMessages`, `refresh`, lookups by uid and by sequence number |
| User and outgoing mail, `user/user.go`, `user/process.go`, `user/serverops.go`, `user/bmail.go` | Inbox, Outbox, Limbo, Sent; map of expected acks; message states on disk | `DeliverFromSMTP`, `DeliverFromBMNet`, `DeliverPublic`, `DeliverAckReply`, `Move`, `process`, `generateObject`, `generateAck` |
| Server, `server.go`, `serverops.go` | three counters in memory, cache of public identities, users | `newMessage`, `newBroadcast`, `newGetpubkey`, `pkRequestHandler`, `savePeriodically`, `saveData`, `Start`, `Stop` |
| RPC client, `bmrpc/client.go` | one stream and one goroutine per object type | `Start`, `processObjects`, `SendObject`, `GetIdentity`, `Stop` |
| Store, `store/db.go`, `store/pkrequests.go`, `store/broadcasts.go` | bolt database: counters, users, requested keys, broadcast addresses, master key | `GetCounter`, `SetCounter`, `New`/`Remove`/`ForEach` of requests, `Add`/`Remove` of addresses, `ChangePassphrase` |
| Identity manager, `idmgr/` | maps of private identities and names under a mutex, key file | `New`, `NewUnnamed`, `Get`, `Names`, `ForEach`, `ImportKeys`, `ExportEncrypted`, `ExportPlaintext` |
| Database setup, `dbsetup.go`, `user.go`, parts of `config.go` and `bmagent.go` | key file and store file, the lock of the store, the key manager and the master key in memory | `createDatabases`, `openDatabases`, `importKeyfile`, `saveKeyfile` |
| Commands, `cmd/`, `user/command.go`, with their RPC server and client | the RPC server's lock and whether it runs; they change the identity manager and the Commands folder | `help`, `newaddress`, `listaddresses`, by e-mail, by the client, by RPC |
| Front ends, `user/smtp.go`, `user/imap.go`; e-mail conversion, `user/email/` | none of their own | parse, format, call the user |

### How they interact

An e-mail comes in by SMTP. `DeliverFromSMTP` puts it into the Outbox and runs
`process` in the SMTP goroutine. `process` asks the server for the recipient's
key. If bmd does not have it, a getpubkey request goes to the proof-of-work
manager, the message is saved with a flag, and `pkRequestHandler` asks bmd again
on every tick; when the key is there, `DeliverPublic` decodes the flagged messages
of the Outbox and runs `process` on each. With a key, an ack object and then the
message object go through the proof-of-work manager, each with a callback that
takes `process` one step on: save the object, save the message, send it, and move
the message to Limbo (an ack is expected) or Sent.

From the network, bmd hands over objects of three types on three streams. The
handler of a type first stores the object's number in a counter in memory, then
decrypts, inserts into the Inbox and sends the ack, or answers a key request by
way of the proof-of-work manager. A ticker and `Stop` save the counters; the next
process asks bmd for the objects from the saved number on.

IMAP connections read and change the same mailboxes at the same time. A lookup of
a client searches the list of uids, walks over the folder and numbers what it
finds.

A command is read from an e-mail to the agent, or read by the command line
client, sent as a request and built again by the RPC server. It runs in the
goroutine of its connection and works on the identity manager, one critical
section per call of it.

`--create` makes the store, closes it, and then writes the key file. A normal
start reads the key file, decrypts it, and then opens the store, which bolt locks.
The ticker, `Stop` and an import write the whole key file again; nothing locks it.

### What is hard about it

Callbacks of the proof-of-work manager run on messages that IMAP may have
removed; answers to key requests come before the request is on disk; a save is a
delete and an insert; counters are saved by two goroutines and lag behind what is
stored; a crash keeps the disk and loses orders, callbacks and the map of acks;
`InsertNewMessage` relies on a lock its callers hold or do not hold; a mailbox
lookup takes a read lock twice; flags saved by IMAP carry back a state read before;
a list of addresses is made while others are created; two processes on one directory share a key file
that neither locks, and a kill can come between any two writes. `PROJECT.json` lists these hazards at their
lines, with the properties that watch each.

### What makes each component correct

* Proof-of-work manager: the list stays a list, no order is worked on or called
  back twice, a queued order has a worker, every order is settled.
* Folder: ids are handed out once and increase, also across crashes and failed
  transactions; the returned id is the one used; what callers without the
  mailbox lock can spoil is bounded.
* Mailbox: cached fields agree with the folder for every reader; an expunged
  message stays expunged; calls return; a lookup gives the messages asked for
  under their sequence numbers, and ends.
* Outgoing mail: an e-mail is lost in no way but the named ones, is sent at most
  once by a chain of callbacks and before it is filed in Limbo or Sent; removed mail
  is not sent; what waits for a key is flagged on disk and is sent when the key
  has come (it is not: finding 2).
* Server: no object is skipped, none is handled twice by one process, acks follow
  storage, available objects are delivered.
* Databases: stored mail stays decryptable, the key file opens with the passphrase
  it was given, saved addresses are in the file (not after a kill: finding 4) and
  never derived again.
* Commands: the answer is what was asked for on either route, an address is given
  once, lists are complete, every command ends.

## 2. Modules

| Module | Models | Extends / composes |
|---|---|---|
| `PowOrders` | abstract order service: orders are taken in order, worked on or discarded, called back | |
| `Pow` | `powmgr/pow.go` at the level of nodes, the tail pointer and goroutines | implements `PowOrders` |
| `Folder` | one folder: bucket, next id on disk and in memory, callers with and without the mailbox lock | |
| `Mailbox` | cached fields, RWMutex, calls of IMAP, SMTP and the stream | |
| `UidSearch` | `GetSequenceNumber` | |
| `MessageSets` | the lookups of a mailbox: one message, sets of ranges, by uid and by sequence number, over `ForEachMessage` | extends `UidSearch` |
| `Outgoing` | outgoing mail with key requests, acks, proof of work, flags and removals by IMAP, restarts | extends `PowOrders` |
| `Server` | streams, handlers, counters, saves, `Stop`, restarts | extends `PowOrders` |
| `Databases` | key file, data store, master key, key manager; creation, opening, import, saves, passphrases, several processes, kills | |
| `Commands` | the commands and their two routes, the RPC server, the identity manager under them | |
| `MC_*` | instances for TLC | the module named |
| `*Proofs` | theorems | the module named |

Definitions keep the names of the functions they translate. `PROJECT.json`, under
"map", gives the lines of each. A function that lets other goroutines in (between
two transactions, or when it gives up a lock) is split there, one action per
piece; everything between two such points is one action. Operators whose comment
begins with "Mistake" are variants of the definition that follows them, each a
plausible slip in the code; the configurations do not use them. They document
what each property rules out.

**Pow.** `head`, `tail` and `next` are the pointers; a node is the number of its
order. `tail` is the node whose `next` field the Go pointer `tail` points into.
`enqueue` and `dequeue` are critical sections; `finish` is the second `dequeue` in
`work`, which discards what it gets, with the start of the callback.

**Folder.** A bolt Update is atomic and exclusive, but the field `nextID` is read
four times around it without a lock: `putNext`, `putMessage`, `returnID` and
`loadNextID`/`storeNextID` are these reads and the write. `commitFails` is a failed
transaction, `restart` a crash and `initialize`. `locked` are the callers that take the
lock of the mailbox, any set of them: in the Outbox `process` does not, and the
copies that `DeliverPublic` hands it are inserted as new messages. `raced` is history: an
insert has begun before another one had incremented `nextID`.

**Mailbox.** `ids`, `flag`, `next` are the folder; `uids`, `numRecent`, `numUnseen`,
`nextUID` the cached fields. `uids` counts how often an id is listed, as the code
sorts it before anyone can look. `pending` and `readers` are Go's RWMutex: a writer
that has called `Lock` keeps new readers out. `Read` stands for every lookup under one
read lock. Messages have encoding 2; the filter `sub` is nil, as everywhere in
the program. `DiskFails` lets every write to the folder fail.

**UidSearch.** The code computes `floor(min + ratio * (max - min))` in 64-bit floating
point. `CheckIndices` holds the exact floor and, where the exact position is whole
and the ratio is neither 0 nor 1, the index below it, which rounding may give. It
is exact about floats as long as the number of messages times the range of uids
is below 2^52; beyond, the rounding error could reach positions that are not
whole.

**MessageSets.** A call holds the read lock, so the list of uids is fixed in a
behaviour and equals the messages of the folder, which is what `CacheMatchesDisk`
of `Mailbox` gives; all of them have encoding 2 and can be decoded. `rest` are the ranges
still to do, `msgs` what was found, and `batch`, `cursor`, `seqno` the walk of `getRange`
over the folder. `Find` calls the search of `UidSearch`, whose steps are steps of
`Next`. `TooBig` is a number for which `Value` returns an error. `finish` is the loop
that makes e-mails, which panics on a nil message.

**Outgoing.** A task is one `*email.Bmail` in memory with the goroutine that runs
`process` or a callback on it; `outbox`, `limbo` and `sent` are the folders. `saveDelete`
and `saveInsert` are the two transactions of `saveBitmessage`; `moveRead`, `moveDelete`
and `moveAdd` are `Move`. `pkTick`, `DeliverPublic`, `processNext` and `pkRemove` are
`pkRequestHandler`. `Wirings` says whether the User has its proof-of-work manager and
expiration function. `NewUser` drops both arguments, so the program has the wiring
FALSE: the first message to a known key panics (`panic`). The wiring TRUE is what the
rest of the code is written for, and lets the safety runs reach it; the theorems
hold for both, and the violated liveness run has the wiring FALSE.
An insert is one step here, and its internals, with the races of two of them, are
those of `Folder`. It may fail, as may every write to a folder: `addNewFails`, `saveFails`,
`insertLost`, `moveFails` and `storeFails` are the failures, with what the code makes of the
error in each place; `dropped` records the e-mails of which nobody is told. `refresh`
empties the list of uids and fills it again, in `process` without a lock: a `Move` that
looks for a message meanwhile may not find it (`moveMisses`).
`storeRead`, `storeDelete` and `storeInsert` are `Save` for an IMAP client that stores
flags: it reads the state under the read lock and writes it back later under the
write lock, which it keeps over both transactions; `process` takes no lock and
can come in anywhere. `overtaken` records the messages whose flag was set in between.
`Faults`: "rpc", bmd does not answer a lookup; "send", bmd refuses an object;
"expunge", IMAP removes a message; "store", IMAP stores flags; "disk", a write to
a folder fails.

**Server.** `object` is what bmd will have in a behaviour, `avail` how much of it has
arrived. bmd takes the number it is given inclusively, as `GetCounter` gives 1 for
a fresh store. `Faults`: "insert", adding to the Inbox fails; "rpc", sending fails;
"stream", `Recv` fails. `panic` is the handler running into the nil broadcast; it needs a second broadcast
address in the store, and nothing in the program adds any yet. `inboxBlocks` is the
deadlock of finding 3 in the Inbox: afterwards `stuck` holds and no insert gets the lock.

**Databases.** `keyfile`, `store` and `sealed` are the disk, `holder` is bolt's lock, and
`pc` walks a process through `createDatabases` or `openDatabases` and the server's life.
`Plain` is a nil passphrase (no encryption) and `Empty` the slice of length 0, which the
code tells apart. `ioutil.WriteFile` is `truncate` and `write`: between them, after a kill, or when
two writers overlap, the file is `Torn`. A create has a user name and a seed of its own;
`NewUser` refuses only a name that the store has, so a second create with another name
gets through and writes the key file over that of the first. `MaxSkip` bounds the indices for which the
derivation of a key fails and `New` goes on to the next. `known`, `opens`, `cut` and
`stale` are history: the addresses in the complete key files since the last stale save,
the passphrase they were given, whether the last save ended between `truncate` and
`write`, and whether somebody has replaced the file since a process read it. The
properties compare the file on disk with them.

**Commands.** A caller gives one command, as an e-mail, through the client or as a
request of its own making. `ReadCommand` and `BuildCommand` are the two readers, `RPC` what
the client sends, `Message` what it prints. `New`, `Names` and `Get` are the critical sections
of the identity manager, `lock` is that of the RPC server, held from `BMAgentRequest` to
`Respond`. An identity is its index and whether it returns acks; `Underivable` are the indices
that `NewHD` refuses. `up` is FALSE after a panic. `before` is history: the addresses when the
caller asked. `folderBlocks` is the deadlock of finding 3 in the Commands folder, to which
answers by e-mail are added.

## 3. Runs

| Run | Instance | States | Shows |
|---|---|---|---|
| `pow` | 4 orders | 6,481 | shape of the list, callbacks at most once, a worker for a list that is not empty, orders are settled, discards are bounded, `Pow` implements `PowOrders` |
| `folder` | 3 callers, any of them without the lock, 3 ids | 1,463,454 | the id returned is the one used; ids are new and increase, inserts succeed, the next id on disk is free unless inserts overlap, and overlapping needs a caller without the lock; no message is above the next id |
| `outgoing` | 2 e-mails to one unknown recipient, or one of them a broadcast; 1 failing lookup, send or write, 1 IMAP operation, 1 crash, with and without wiring | 3,403,825 | a chain sends once and with its ack; no chain waits for a callback nobody ordered; mail is lost only in the named ways; what is in Limbo or Sent was handed to bmd; removed mail is not sent; parked mail is flagged; only mail with a key request starts again |
| `server` | 2 objects of one of three types, all faults, 2 sessions, fair | 429,032 | nothing is skipped, bounded copies and answers, acks follow storage, delivery |
| `lookups` | all mailboxes with uids from 1 to 4, and up to 6 messages with quadratic gaps; one or two ranges with all kinds of bounds, single lookups; fair | 283,862 | the search stays inside, ends and is right; uid ranges give exactly their messages, ranges of sequence numbers miss as many as were deleted before them, all numbered right; lookups of messages panic only where named |
| `mailbox` | 2 IMAP connections, 1 stream, 2 ids, failing writes, fair | 136,360 | cache agrees with disk, no message comes back, calls return but for the nested lock |
| `databases` | 2 processes, 2 passphrases, 2 user names, 2 seeds, 2 indices, 1 imported address | 676,516 | stored mail stays readable, the key file opens with its passphrase, has the addresses saved before and yields new ones, but for saves that are cut off or stale |
| `commands` | 3 callers, one of them with any of 46 commands, 1 skipped index, stop, fair | 342,546 | answers are what was asked for but for three named mistakes, addresses are given once, lists are complete, commands end |
| `pow_lost_order` | 4 orders | | violation: an order is thrown away |
| `outgoing_lost_wakeup` | 1 e-mail | | violation: a message stays in the Outbox though its key has come |
| `mailbox_deadlock` | 1 FETCH, 1 incoming message | | violation: both wait for ever |
| `databases_kill` | as `databases` | | violation: a kill in the middle of a save loses all addresses |

### Why the bounds are enough

Four orders are the smallest number with a discarded order between two that are
worked on and a list that runs empty and fills again. Three callers and three
ids give two inserts that race while a third goroutine deletes or restores a
message, and inserts after a crash that came between. Two e-mails
to one recipient make two key requests overlap and let one answer find both
messages; `MaxTasks` = 3 are the two submissions and a restart by
`DeliverPublic`; `MaxFailures` = 1 puts one failure at any point; `MaxOrders` = 4 has two getpubkeys, an ack and a message, or an ack
and a message of each of two tasks. `MaxIMAP` = 1 is one `Save` or one removal at any
point of a chain; the exceptions that two would make larger are per message.
One crash is enough for everything that a crash in a later session could meet,
as the disk is all that crosses it. Two objects of a stream have one at the counter and one after it; two
sessions one restart. Every mailbox made of the uids 1 to 4 (`MaxUID`) has messages deleted at
the beginning, in the middle and at the end, and ranges from 0 to 5 have bounds
on, between and outside them; six uids (`MaxLen`) with quadratic gaps put the
interpolated index far from the right one on both sides. Two processes are a create against a
create, an open against a create, and two servers one after the other, the
second of which has read its key file early; two passphrases tell a wrong one from
a right one, and the one of the key file from that of the store; two names
and two seeds tell the users of two creates apart; two indices are a first address and a
second, or one that is skipped. Three callers are two that
create, one on each route, and one that lists; `MaxIndex` = 5 leaves room for three new
addresses and the skipped index.

`CHECK_DEADLOCK FALSE` is set where the program may stop: nobody calls `Run` again, all mail
is settled, the lookup or the commands are answered, no process is started again, or (in `mailbox`) the nested lock has blocked
everyone, which `OnlyNestedBlocks` names.

### Fairness

Goroutines that can run are scheduled by Go, hence weak fairness of the worker
and callback steps in `Pow`, of each task, the proof-of-work manager and the
request handler's loop in `Outgoing`, of each stream's goroutine in `Server`, of a lookup in
the goroutine of its connection (`MessageSets`), of each caller's steps in `Commands`,
where a mutex that is given up again and again is got in the end. A ticker keeps ticking, which is the fairness
of `HandlerStep`. `Mailbox` uses strong fairness for a thread inside a call: a
waiting reader or writer may be overtaken, but `sync.RWMutex` lets waiting readers
in when a writer leaves, and a waiting writer keeps new readers out. No step that
takes the lock of a mailbox is assumed to get it: as finding 3 shows that it may be
held for ever, `Server` and `Commands` have an action for that, and `AvailableIsDelivered` and
`EveryCommandEnds` name it. Fairness in `Outgoing` serves only the run that is violated. Nothing is
assumed of clients, bmd, the arrival of keys and objects, `Stop`, or crashes.

## 4. Findings

The four violation runs; quotations and lines are in `PROJECT.json`.

1. `work` dequeues a second time after each order and throws the result away.
2. A key request can be answered before the message is saved with its flag, or
   while it is between the delete and the insert of a save; nobody looks again. The
   run has the wiring the program has; its trace has no known key before the end.
3. `bitmessageSetBySequenceNumber` takes the read lock again through `Messages`.
4. `saveKeyfile` truncates the key file and writes it in place; a kill in between
   leaves it empty, although the periodic save is there against sudden shutdowns.

### Other observations

Seen while modelling; each is in the models' behaviour, outside what they model,
or the reason for an exception in a property.

* `NewUser` drops its arguments `expiration` and `pm` (`user/user.go:70`), so the first
  message to a known key panics, where the comment at `user/user.go:139` has it added to
  the proof-of-work queue. `outgoing` has both wirings.
* `process` saves to the Outbox without the mailbox lock (`user/process.go:53`), and the copies
  that `DeliverPublic` hands it have no uid and are inserted as new. An insert that
  begins before another one has incremented `nextID` fails with ErrDuplicateID, where
  `store/folder.go:337` promises a new position, or leaves the id of the other message as
  the next one on disk: after a restart inserts fail until it is deleted, and then
  give out its id again. `OnlyRacesHarm` names this; the id that an insert returns is
  right all the same.
* A `refresh` of `process`, without the lock, hides messages from a `Move`: the read then
  leaves a message that was sent in the Outbox, and the delete leaves it there beside
  its copy in Limbo or Sent (`moveMisses`).
* `Save` of an IMAP client writes back the state it read before it took the lock: a
  flag for an outstanding key that was set in between is lost, and the message is
  never started again (the exception in `ParkedIsFlagged`). It also makes the message
  anew from the e-mail and drops its `Ack` and `OfChannel`; a draft loses its recipient
  (`user/email/bmail.go:334`). The dates it compares with `!=` (`user/mailbox.go:723`) are
  structs with a location.
* `serverOps.Send` drops the error of `server.Send` (`serverops.go:90`), so a refused
  message goes to Limbo or Sent, where `user/defaults.go:47` says that Limbo is for messages
  "out in the network". `FiledWasSent` says what is true of these folders.
* `PubkeyRequestOutstanding` is never cleared, so a later answer for the address
  starts the message again, also after it was sent. The copies `DeliverPublic` decodes
  have uid 0: saving one adds a second message to the Outbox and leaves the first
  flagged; a copy of a message that IMAP removes meanwhile is inserted and sent.
* After a crash nothing looks at messages of the Outbox whose flag is not set: one
  that was waiting for its proof of work stays there.
* The map of acks is filled with the hash before the proof of work and with the
  uid in the Outbox, so `DeliverAckReply` finds nothing.
* `email.ToBm` turns the broadcast address into the empty string, which
  `GetOrRequestPublicID` compares with `email.Broadcast` (`serverops.go:35`).
* A stream that breaks is not opened again (`bmrpc/client.go:212`). `newBroadcast` goes on
  with a nil broadcast when the first address does not decrypt it (`server.go:359`); the
  program has no way to add addresses yet. Both are exceptions in
  `AvailableIsDelivered`.
* `addNew` drops the error of `saveBitmessage` (`user/mailbox.go:547`), so an ack is
  sent for a message that could not be stored; `Delivered` counts failed inserts.
* The last object of each type comes again after every restart, as the saved
  number is the one handled; `CopiesBounded` is per session.
* `Stop` sets `imapUser` to nil before the request handler stops
  (`server.go:651`): a tick in between removes a request without processing its
  messages.
* The insert of a save assigns its error to a shadowed variable
  (`user/mailbox.go:654`), and `addNew` drops its error (`user/mailbox.go:547`); a failed insert loses
  the message and the sender is not told. `MailKept` names these losses.
* `LastUID` of an empty mailbox panics, where its comment (`user/mailbox.go:221`) says that it
  "should return the next expected UID"; a set with one uid that is not there panics too.
  A lookup by sequence numbers replaces its first number by the uid at that
  position and uses the uid as a sequence number (`user/mailbox.go:502`): after a deletion it
  misses the first messages of a range, gives another single message, or panics,
  where `user/mailbox.go:476` says that it gets the messages of the ranges.
  `SequenceRangesShifted` says how many are missed, `PanicsExplained` when it panics. `N:*` with N past the last message gives nothing.
* A uid range that ends in 0 and begins at or before the first message has no end
  (`store/folder.go:496`).
* Nothing in the program calls `Rename`, `Delete` and `LastID` of folders: `Rename` opens a write
  transaction inside another and would not return, and `LastID` compares an id with
  a suffix (`store/folder.go:317`). `folders.Get` writes the map under a read lock; `pubIDs` and
  `acks` are maps without a lock. The in-memory folder of the tests ignores the
  suffix and the order in `ForEachMessage`.
* The client does not send the ack of `newaddress` (`cmd/newaddress.go:40`): addresses made
  through it return acks whatever was said (`AckDropped` in `AnsweredAsAsked`). It prints nothing for an error
  (`cmd/rpc/proto.go:50`) and of help only the names.
* A request for an address with both nonce trials and extra bytes is refused with
  "Must provide both nonce trials per byte and extra bytes." (`cmd/newaddress.go:95`); with nonce trials alone it follows
  a nil pointer, and extra bytes alone are ignored (`PowRefused`, `PowIgnored`). A command by e-mail without a subject panics (`user/user.go:152`). Both
  end the program, the exceptions in `EveryCommandEnds`.
* An answer that cannot be added to the Commands folder is lost without an error.
* `Stop` saves the keys before it stops the listeners and the RPC server
  (`server.go:640`): an address that is created after that is answered and lost at a clean
  shutdown.
* `NameAddress` and `UnnameAddress` write under a read lock; `Addresses` reads the sizes of its
  lists before it takes the lock. Nothing in the program calls them.
* `NewBitmessageFromSMTP` wants a valid sender or a valid recipient, not both
  (`user/email/bmail.go:268`); `ValidateEmail` does not take the broadcast address.

* `--create --nopass` encrypts both files with an empty passphrase (`dbsetup.go:273`,
  `dbsetup.go:328`: `[]byte{}`, not nil), where the option's help says they "are created
  unencrypted" (`config.go:82`). With `--nopass` the key file is then read as plain text,
  and without it the prompt does not take an empty passphrase.
* A create that ends before the key file is written leaves a store alone:
  `--create` refuses because a file exists, a normal start because one is missing.
* Finding 4 also happens at a clean end, when `main` returns while `savePeriodically` is in
  the middle of a write. Errors of a save are only logged, and "Keyfile
  saved." is printed all the same (`dbsetup.go:349`).
* `openDatabases` reads the key file before it has the store's lock. A process that
  waits there for another to end starts with an old key manager, drops the
  addresses the other saved, and derives their indices again. Saves of the ticker
  and of `Stop` may overlap with the same effect, and of two creates with different
  user names the later one writes its key file over the other's (`store/db.go:427` compares
  the names, and the check for files is long past). These are the stale saves of
  `KeysKept` and the exception in `FreshAddresses`.
* `Store.masterKey` is never nil, so `ChangePassphrase` does not refuse a store that is
  not encrypted, as its check means to.
* `PrivateID.Public` in `idmgr/keys` calls itself; the welcome message lists no keys,
  because their tags are read before they are generated (`user/imap.go:52`).

## 5. Theorems

Proved by TLAPS for every value of the constants that satisfies the named ASSUMEs.

* `PowProofs`: `Invariance` (`IndInv`), `ListAlwaysWellFormed`, `CallbackAtMostOnce`,
  `ListAlwaysServed`, `Refinement` (`Spec` implements `PowOrders!OrdersSpec`). The three
  safety properties are not inductive one by one: that `enqueue` may write through
  `tail` needs that the list links the newest nodes, and that no callback runs
  twice needs that only orders that left the list are in anyone's hands. `IndInv`
  adds that, and that unallocated nodes have no successor and idle workers no job.
  `DiscardsAlwaysBounded` is proved of the abstract service, where a step discards at
  most one order and only with one that gets its callback, and carried over by the
  refinement; the library's theorems about cardinality do the counting.
* `FolderProofs`: `Invariance`, `TypeCorrect`, `ReturnsAlwaysItsKey`, `HarmOnlyByRaces`, `NeverFarBehind`,
  `IDsNeverReused`, for any callers, any of which may do without the mailbox lock.
  `CommittedInv` is what saves the unlocked callers: one at most has committed and not
  incremented, its message has the id `nextID`, and whoever comes next finds it taken.
  `NextIDsInv` bounds how far the ids on disk, in memory and in a transaction are
  apart. `SerialInv` is what holds besides until inserts overlap: the id in memory
  lags behind the one on disk exactly between the commit and the increment.
* `ServerProofs`: `Invariance`, `NothingIsSkipped`, `AckedIsStored`, `OncePerSession`, for any
  objects, faults, number of saves, stops and restarts. `IndInv` says that a stream's
  goroutine has handled everything below its counter, and the counter's object
  unless it is in the handler; that loaded and saved values do not exceed the
  counter, in whatever order the ticker and `Stop` write them; and that the objects
  still to come have not been delivered in this session. `AnsweredOncePerSession` needs
  `AnswersInv`: what is still to come, or in the handler, has been answered in earlier
  sessions only.
* `MessageSetsProofs`: `LookupInvariance`, `SearchIsSafe`, `SearchIsRight`,
  `AnswersNumberedRight`, `LookupPanicsExplained`, `UidSetsExact`, `SequenceSetsShifted`, for every
  increasing list of positive uids, with and without gaps, and every set of ranges. `SearchInv` says that the bounds
  of the search are the elements at their indices and enclose the uid; the arithmetic
  lemmas bound the quotient. `FoundRight`, `RestRight` and `StepRight` say what was found,
  what is left, and that the number counted is that of the message under the cursor,
  because the search gave the number of the first message on which the cursor is put.
  The theorems about sets add `WalkRight`: the walk has taken the messages from its
  first one to the cursor, and the stretch it was asked for is what the range wants.
  That the bounds found by the search delimit that stretch is shown once, when the
  walk begins (`OpenRange`, `ClosedRange`, `NumberStretch`). What a range wants is stated as a
  set of sequence numbers and not with `SelectSeq`, about which only induction could
  show anything.
* `CommandsProofs`: `Invariance`, `ListsAreComplete`, `AlwaysAnsweredAsAsked`, for any callers,
  commands and indices. `IndInv` adds that addresses are below the next index, so that a
  new one never replaces one that a list has got, and that what a list has got together
  with what it has still to get covers what there was when it was asked for.
  `AnswersInv` follows a command from what was typed to the reply: at each step the
  request that was built, the response and the reply fit what was asked (`StepFits`), and
  addresses in anyone's hands are in the manager and different. The reading lemmas
  say that the two readers, the client's and the e-mail's, agree on what is
  understood. The assumption is that commands are of the shapes `Request` lists.
* `MailboxProofs`: `Invariance`, `TypeCorrect`, `ReadersSeeTheFolder`, `DeletedStaysDeleted`, for any threads,
  calls and flags, with failing writes. `LockInv` says how many read locks a thread
  holds at each step and that whoever writes is alone; `DataInv` what the cached
  fields are at each step between a change of the folder and the end of its
  refresh. That counters never fall below zero follows from the latter and from
  the library's facts about cardinality.
* `DatabasesProofs`: `Invariance`, `MailAlwaysReadable`, `AlwaysOpens`, `AddressesAlwaysFresh`, `KeysAlwaysKept`,
  for any number of processes, passphrases, keys and addresses, with kills
  anywhere. `LockInv` ties places in the code to bolt's lock; with it, `MasterInv` says
  that a process in the store has the store's master key, which makes what it
  encrypts readable to the next. `KnownInv` follows the addresses from the file to
  the bytes read, the manager and the save under way, for everything that is not
  stale; `IndexInv` says that no derived address reaches the next index. `PassInv` says
  that what is not stale has the passphrase of the file, except in a create, of which
  there may be several with different user names. `KeysKept` is about the file on disk:
  it holds because a save that is not stale finds the file truncated by itself and
  has every address it is to contain.

* `OutgoingProofs`: `Invariance`, `TypeCorrect`, `SentAtMostOnce`, `RemovedNeverSent`,
  `WaitsAreBacked`, `MailAlwaysKept`, `ParkedAlwaysFlagged`, `OnlyAskedIsResent`,
  `LimboAlwaysHasAck`, `FiledAlwaysSent`, for any e-mails, recipients, faults, restarts and
  bounds. None of the properties is inductive. `OrdersInv` ties a waiting task to exactly one
  live order, so that no callback can overtake the goroutine it belongs to; from it `SendsInv`
  (nothing is sent before `Send`, once after it), `AckInv` (an object is generated with the
  ack it needs, also while its order is under way) and `WaitIsBacked` follow. `UidInv` says
  that a uid belongs to one message, and to no stored one while a goroutine has it between
  a delete and an insert; `MailInv` that everything known by one uid is one e-mail; with
  these `MailKept`, `RemovedInv` (a removed message does not come back, so the save
  before `Send` fails) and `FlagInv` (the flag survives the Saves of IMAP that read it)
  are preserved although `process` takes no lock. `AskedInv` says that a flag on disk, in
  memory or in the queue of `DeliverPublic` comes from a key request.
  All of it holds with failing lookups, sends, inserts and deletes, and with either
  wiring: the theorems have no hypothesis about faults.

Every invariant and every action property of the passing runs is also a theorem.
Only model-checked is liveness (`EverySettled`, `AvailableIsDelivered`, `Answered`, `OnlyNestedBlocks`, `EveryCommandEnds`): it needs fairness
and `ENABLED`, which are out of the prover's reach.

## 6. Not modelled

Encryption, decryption, encoding and the proof of work itself are steps or kinds
of data. Log output, options, signals, the text of e-mails and of answers, and the
generated RPC code have no state the properties depend on. The in-memory folder,
`Rename`, `Delete` and `LastID` of folders, adding and removing broadcast addresses, and the names
and lists of the identity manager have no caller in the program. A running
server has one user; several can be created in one store. A message that cannot
be decoded, which a lookup skips or takes for missing, and maps that goroutines
use without a lock, whose misuse the Go runtime ends, are left out.
`PROJECT.json` lists every component with its status.

## 7. Plan

Order of work, the most important behaviour first:

1. Done: the proof-of-work manager and its abstract service; the folder; outgoing
   mail with the IMAP client on the Outbox; the server's streams; the mailbox and
   its lookups; the databases; the commands; proofs of all their safety properties.
2. An abstract specification of a mailbox (a set of messages with flags) that
   `Mailbox` implements, with the refinement proved.
3. The same for the server: a store that delivers each object, of which the counters
   and sessions are an implementation.
4. Runs of their own for the disagreements that are so far named exceptions of a
   property: `LastUID`, ranges of sequence numbers, refused sends, ErrDuplicateID.

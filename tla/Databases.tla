----------------------------- MODULE Databases -----------------------------
(***************************************************************************)
(* The two files that bmagent keeps, the key file and the data store, and  *)
(* the processes that create, open, use and close them: dbsetup.go,        *)
(* store/db.go, user.go, idmgr/manager.go and the parts of config.go,      *)
(* bmagent.go and server.go that call them.                                *)
(*                                                                         *)
(* Several processes may run on one data directory.  bolt.Open locks the   *)
(* data store until it is closed; nothing locks the key file.  A process   *)
(* can be killed between any two steps.  ioutil.WriteFile truncates the    *)
(* file and then writes it, so a key file can be found Torn: empty, cut    *)
(* short, or mixed from two writers.                                       *)
(*                                                                         *)
(* A passphrase is a value; Plain stands for a nil slice (no encryption)   *)
(* and Empty for the slice of length 0 that --nopass gives createDatabases.*)
(* Key 0 is the master key of an array of zeroes, which Construct leaves   *)
(* in memory for a store without encryption.  The address derived from     *)
(* seed s with index i is <<s, i>>; those of an imported file are Imports. *)
(***************************************************************************)
EXTENDS Naturals

CONSTANTS
    Procs,          \* processes
    NoProc,         \* no process
    Pass,           \* passphrases that a user types; none of them is empty
    Plain, Empty,   \* the nil and the empty passphrase
    Keys,           \* master keys that crypto/rand can give
    Names, NoName,  \* user names, and none
    Seeds, NoSeed,  \* seeds, typed or generated, and none
    Imports,        \* addresses in the file of --importkeyfile
    MaxIDs,         \* bound on the addresses derived from the seed
    MaxSkip         \* bound on the indices for which a derivation fails in a row

ASSUME DatabasesAssumption ==
    /\ NoProc \notin Procs
    /\ Plain \notin Pass /\ Empty \notin Pass /\ Plain # Empty
    /\ Keys \subseteq Nat \ {0}
    /\ NoName \notin Names /\ NoSeed \notin Seeds
    /\ MaxIDs \in Nat /\ MaxSkip \in Nat

VARIABLES
    keyfile,    \* disk: the key file
    store,      \* disk: the data store
    sealed,     \* disk: master keys under which messages are encrypted
    holder,     \* the process that has the data store open, or NoProc
    pc,         \* what a process does next
    nopass,     \* cfg.NoPass
    name,       \* cfg.Username of a process that creates
    file,       \* the bytes that openDatabases read
    mgr,        \* the key manager in memory
    kpass,      \* User.Pass, with which the key file is saved
    key,        \* Store.masterKey
    save,       \* the calls of saveKeyfile that a process has under way
    known,      \* history: the addresses in the complete key files since the
                \* last that was written over another process's or goroutine's
    opens,      \* history: the passphrase of the last such file, or of the
                \* last create
    cut,        \* history: the last save ended between truncate and write
    stale       \* history: another process has written the key file since
                \* this one read it

disk == <<keyfile, store, sealed>>
history == <<known, opens, cut>>
vars == <<keyfile, store, sealed, holder, pc, nopass, name, file, mgr, kpass, key,
          save, known, opens, cut, stale>>

AnyPass == Pass \cup {Plain, Empty}

(* The states of the files apart from their contents.                      *)
NoFile == [pass |-> Plain, seed |-> NoSeed, index |-> 0, ids |-> {}, is |-> "missing"]
Torn == [NoFile EXCEPT !.is = "torn"]
NoStore == [is |-> "missing", enc |-> Plain, key |-> 0, users |-> {}]

(* idmgr.New: no identities, NewIDIndex is 0.                              *)
NewManager(s) == [seed |-> s, index |-> 0, ids |-> {}]
NoKeys == NewManager(NoSeed)

(* The goroutines of one process that save: the one that runs main, Stop   *)
(* or the import, and the one of savePeriodically.                         *)
Writers == {"main", "ticker"}
NoSave == [at |-> "idle", mgr |-> NoKeys, stale |-> FALSE]

Init ==
    /\ keyfile = NoFile
    /\ store = NoStore
    /\ sealed = {}
    /\ holder = NoProc
    /\ pc = [p \in Procs |-> "down"]
    /\ nopass = [p \in Procs |-> FALSE]
    /\ name = [p \in Procs |-> NoName]
    /\ file = [p \in Procs |-> NoFile]
    /\ mgr = [p \in Procs |-> NoKeys]
    /\ kpass = [p \in Procs |-> Plain]
    /\ key = [p \in Procs |-> 0]
    /\ save = [p \in Procs |-> [w \in Writers |-> NoSave]]
    /\ known = {}
    /\ opens = Plain
    /\ cut = FALSE
    /\ stale = [p \in Procs |-> FALSE]

(* A save of p that has truncated the file ends here.                      *)
CutOff(p, W) == keyfile.is = "torn" /\ \E w \in W : save[p][w].at = "write"

(* The process ends: its memory is gone and bolt's lock with it.           *)
Exit(p) ==
    /\ pc' = [pc EXCEPT ![p] = "down"]
    /\ nopass' = [nopass EXCEPT ![p] = FALSE]
    /\ name' = [name EXCEPT ![p] = NoName]
    /\ file' = [file EXCEPT ![p] = NoFile]
    /\ mgr' = [mgr EXCEPT ![p] = NoKeys]
    /\ kpass' = [kpass EXCEPT ![p] = Plain]
    /\ key' = [key EXCEPT ![p] = 0]
    /\ save' = [save EXCEPT ![p] = [w \in Writers |-> NoSave]]
    /\ stale' = [stale EXCEPT ![p] = FALSE]
    /\ holder' = IF holder = p THEN NoProc ELSE holder
    /\ cut' = (cut \/ CutOff(p, Writers))
    /\ UNCHANGED <<disk, known, opens>>

Goto(p, from, to) ==
    /\ pc[p] = from
    /\ pc' = [pc EXCEPT ![p] = to]

----------------------------------------------------------------------------
(* store/db.go                                                             *)

(* bolt.Open creates the file if need be and locks it; after dbTimeout it  *)
(* gives up.                                                               *)
Open(p, from, to) ==
    /\ Goto(p, from, to)
    /\ holder = NoProc
    /\ holder' = p
    /\ store' = IF store.is = "missing" THEN [store EXCEPT !.is = "new"] ELSE store
    /\ UNCHANGED <<keyfile, sealed, nopass, name, file, mgr, kpass, key, save, stale,
                   history>>

OpenTimeout(p) ==
    /\ pc[p] \in {"create", "open"}
    /\ holder # NoProc
    /\ Exit(p)

(* Mistake: a master key is generated also for a store that has one.       *)
Constructed_regenerate(pass, k) ==
    [is |-> "made", enc |-> pass, key |-> IF pass = Plain THEN 0 ELSE k,
     users |-> store.users]

(* Construct in one transaction: a new store gets a random master key,     *)
(* encrypted with the passphrase, or stays plain without one; for an old   *)
(* one the passphrase must be the one it was encrypted with.               *)
Constructed(pass, k) ==
    IF store.is = "new"
    THEN [is |-> "made", enc |-> pass, key |-> IF pass = Plain THEN 0 ELSE k, users |-> {}]
    ELSE store

Refuses(pass) == store.is = "made" /\ store.enc # pass

Construct(p, pass, from, to) ==
    /\ Goto(p, from, to)
    /\ ~Refuses(pass)
    /\ \E k \in Keys :
         /\ store' = Constructed(pass, k)
         /\ key' = [key EXCEPT ![p] = Constructed(pass, k).key]
    /\ UNCHANGED <<keyfile, sealed, holder, nopass, name, file, mgr, kpass, save, stale,
                   history>>

ConstructFails(p, pass, from) ==
    /\ pc[p] = from
    /\ Refuses(pass)
    /\ Exit(p)

(* ChangePassphrase encrypts the master key anew.  No command of the       *)
(* program calls it yet.                                                   *)
ChangePassphrase(p, pass) ==
    /\ pc[p] = "up"
    /\ store' = [store EXCEPT !.enc = pass, !.key = key[p]]
    /\ UNCHANGED <<keyfile, sealed, holder, pc, nopass, name, file, mgr, kpass, key,
                   save, stale, history>>

----------------------------------------------------------------------------
(* idmgr/manager.go                                                        *)

(* New derives the next identity, after i indices that cannot be derived.  *)
New(m, i) ==
    [seed |-> m.seed, index |-> m.index + i + 1,
     ids |-> m.ids \cup {<<m.seed, m.index + i>>}]

ImportKeys(m) == [m EXCEPT !.ids = @ \cup Imports]

(* FromEncrypted and FromPlaintext of the bytes of a key file.             *)
Decrypts(f, pass) == f.is = "whole" /\ f.pass = pass

(* Mistake: the index of the next identity is not read back.               *)
FromPlaintext_fromZero(f) == [seed |-> f.seed, index |-> 0, ids |-> f.ids]

(* Mistake: only derived identities are read back, not imported ones.      *)
FromPlaintext_derived(f) == [seed |-> f.seed, index |-> f.index, ids |-> f.ids \ Imports]

FromPlaintext(f) == [seed |-> f.seed, index |-> f.index, ids |-> f.ids]

(* Serialize, and ExportEncrypted if there is a passphrase.                *)
Export(m, pass) ==
    [is |-> "whole", pass |-> pass, seed |-> m.seed, index |-> m.index, ids |-> m.ids]

----------------------------------------------------------------------------
(* user.go: saveKeyfile                                                    *)

(* The manager is exported under its read lock.                            *)
SaveKeyfile(p, w) ==
    [save EXCEPT ![p][w] = [at |-> "truncate", mgr |-> mgr[p], stale |-> stale[p]]]

(* os.OpenFile with O_TRUNC.                                               *)
truncate(p, w) ==
    /\ save[p][w].at = "truncate"
    /\ save' = [save EXCEPT ![p][w].at = "write"]
    /\ keyfile' = Torn
    /\ UNCHANGED <<store, sealed, holder, pc, nopass, name, file, mgr, kpass, key,
                   stale, history>>

(* The write at offset 0.  If another writer has filled the file since it  *)
(* was truncated, the end of longer contents remains behind.               *)
Written(p, w) ==
    LET new == Export(save[p][w].mgr, kpass[p])
    IN  {new} \cup (IF keyfile.is = "whole" /\ keyfile # new THEN {Torn} ELSE {})

write(p, w) ==
    /\ save[p][w].at = "write"
    /\ keyfile' \in Written(p, w)
    /\ known' = IF save[p][w].stale THEN keyfile'.ids ELSE known \cup keyfile'.ids
    /\ opens' = IF save[p][w].stale \/ pc[p] = "saving" THEN kpass[p] ELSE opens
    /\ cut' = FALSE
    /\ stale' = [q \in Procs |-> IF q = p \/ pc[q] = "down" THEN stale[q] ELSE TRUE]
    /\ save' = [q \in Procs |-> [v \in Writers |->
                   CASE q = p /\ v = w -> NoSave
                     [] save[q][v].at = "idle" -> save[q][v]
                     [] OTHER -> [save[q][v] EXCEPT !.stale = TRUE]]]
    /\ UNCHANGED <<store, sealed, holder, pc, nopass, name, file, mgr, kpass, key>>

(* WriteFile fails before or after it has truncated the file; saveKeyfile  *)
(* logs the error and returns.                                             *)
writeFails(p, w) ==
    /\ save[p][w].at # "idle"
    /\ save' = [save EXCEPT ![p][w] = NoSave]
    /\ cut' = (cut \/ CutOff(p, {w}))
    /\ UNCHANGED <<disk, holder, pc, nopass, name, file, mgr, kpass, key, stale, known,
                   opens>>

----------------------------------------------------------------------------
(* dbsetup.go and config.go: --create                                      *)

(* loadConfig refuses --create if either file exists.  createDatabases     *)
(* takes the user name and the seed from the configuration or the prompts. *)
create(p, n, s, np) ==
    /\ Goto(p, "down", "create")
    /\ keyfile.is = "missing"
    /\ store.is = "missing"
    /\ nopass' = [nopass EXCEPT ![p] = np]
    /\ name' = [name EXCEPT ![p] = n]
    /\ mgr' = [mgr EXCEPT ![p] = NewManager(s)]
    /\ UNCHANGED <<disk, holder, file, kpass, key, save, stale, history>>

(* What the prompts for a passphrase give: they are repeated while the     *)
(* input is empty, and skipped with --nopass.                              *)
NewPass(p) == IF nopass[p] THEN {Empty} ELSE Pass

createStore(p) == Open(p, "create", "construct")

constructNew(p) ==
    \E pass \in NewPass(p) :
        \/ Construct(p, pass, "construct", "newUser")
        \/ ConstructFails(p, pass, "construct")

(* Store.NewUser fails if Construct found a user of this name.             *)
NewUser(p) ==
    /\ Goto(p, "newUser", "folders")
    /\ name[p] \notin store.users
    /\ UNCHANGED <<disk, holder, nopass, name, file, mgr, kpass, key, save, stale,
                   history>>

DuplicateUser(p) ==
    /\ pc[p] = "newUser"
    /\ name[p] \in store.users
    /\ Exit(p)

(* User.Folders: initializeFolders enters the user in the users bucket.    *)
initializeFolders(p) ==
    /\ Goto(p, "folders", "initialize")
    /\ store' = [store EXCEPT !.users = @ \cup {name[p]}]
    /\ UNCHANGED <<keyfile, sealed, holder, nopass, name, file, mgr, kpass, key, save,
                   stale, history>>

(* user.Initialize creates the folders and GenKeys = 1 identities and puts *)
(* the welcome message, encrypted, in the Inbox.                           *)
Initialize(p) ==
    /\ Goto(p, "initialize", "close")
    /\ \E i \in 0..MaxSkip :
         /\ mgr[p].index + i < MaxIDs
         /\ mgr' = [mgr EXCEPT ![p] = New(@, i)]
    /\ sealed' = sealed \cup {key[p]}
    /\ UNCHANGED <<keyfile, store, holder, nopass, name, file, kpass, key, save, stale,
                   history>>

(* load.Close, before the key file is written.                             *)
closeCreated(p) ==
    /\ Goto(p, "close", "promptKey")
    /\ holder' = NoProc
    /\ UNCHANGED <<disk, nopass, name, file, mgr, kpass, key, save, stale, history>>

createKeyfile(p) ==
    /\ Goto(p, "promptKey", "saving")
    /\ kpass' \in {[kpass EXCEPT ![p] = pass] : pass \in NewPass(p)}
    /\ save' = SaveKeyfile(p, "main")
    /\ UNCHANGED <<disk, holder, nopass, name, file, mgr, key, stale, history>>

----------------------------------------------------------------------------
(* dbsetup.go and config.go: opening                                       *)

(* loadConfig wants both files; openDatabases reads the key file before it *)
(* opens, and thereby locks, the store.                                    *)
readKeyfile(p, np) ==
    /\ Goto(p, "down", "keys")
    /\ keyfile.is # "missing"
    /\ store.is # "missing"
    /\ nopass' = [nopass EXCEPT ![p] = np]
    /\ file' = [file EXCEPT ![p] = keyfile]
    /\ UNCHANGED <<disk, holder, name, mgr, kpass, key, save, stale, history>>

(* With --nopass the file must be plain; otherwise the user is asked.      *)
KeyPass(p) == IF nopass[p] THEN {Plain} ELSE Pass

(* Mistake: the passphrase of the key file is not kept for saving it.      *)
openKeys_forgetPass(p, pass) ==
    /\ Goto(p, "keys", "open")
    /\ Decrypts(file[p], pass)
    /\ mgr' = [mgr EXCEPT ![p] = FromPlaintext(file[p])]
    /\ file' = [file EXCEPT ![p] = NoFile]
    /\ UNCHANGED <<disk, holder, nopass, name, kpass, key, save, stale, history>>

openKeys(p, pass) ==
    /\ Goto(p, "keys", "open")
    /\ Decrypts(file[p], pass)
    /\ mgr' = [mgr EXCEPT ![p] = FromPlaintext(file[p])]
    /\ kpass' = [kpass EXCEPT ![p] = pass]
    /\ file' = [file EXCEPT ![p] = NoFile]
    /\ UNCHANGED <<disk, holder, nopass, name, key, save, stale, history>>

openKeysFails(p, pass) ==
    /\ pc[p] = "keys"
    /\ ~Decrypts(file[p], pass)
    /\ Exit(p)

loadKeys(p) == \E pass \in KeyPass(p) : openKeys(p, pass) \/ openKeysFails(p, pass)

openStore(p) == Open(p, "open", "constructOld")

(* The store is taken to be plain only with --nopass and if it is not      *)
(* encrypted.                                                              *)
StorePass(p) == IF nopass[p] /\ store.enc = Plain THEN {Plain} ELSE Pass

constructOld(p) ==
    \E pass \in StorePass(p) :
        \/ Construct(p, pass, "constructOld", "opened")
        \/ ConstructFails(p, pass, "constructOld")

(* --importkeyfile: the identities are added, the key file is saved and    *)
(* the process ends.                                                       *)
importKeyfile(p) ==
    /\ Goto(p, "opened", "import")
    /\ mgr' = [mgr EXCEPT ![p] = ImportKeys(@)]
    /\ UNCHANGED <<disk, holder, nopass, name, file, kpass, key, save, stale, history>>

saveImport(p) ==
    /\ Goto(p, "import", "closing")
    /\ save' = SaveKeyfile(p, "main")
    /\ UNCHANGED <<disk, holder, nopass, name, file, mgr, kpass, key, stale, history>>

----------------------------------------------------------------------------
(* bmagent.go and server.go                                                *)

(* newServer needs cfg.Username in the store; for a name that it does not  *)
(* know the process ends, as after a crash.                                *)
newServer(p, n) ==
    /\ Goto(p, "opened", "up")
    /\ n \in store.users
    /\ UNCHANGED <<disk, holder, nopass, name, file, mgr, kpass, key, save, stale,
                   history>>

(* User.NewAddress, also from a connection that Stop has not ended.        *)
NewAddress(p) ==
    /\ pc[p] \in {"up", "stopping"}
    /\ \E i \in 0..MaxSkip :
         /\ mgr[p].index + i < MaxIDs
         /\ mgr' = [mgr EXCEPT ![p] = New(@, i)]
    /\ UNCHANGED <<disk, holder, pc, nopass, name, file, kpass, key, save, stale,
                   history>>

(* A message is put in a folder, encrypted with the master key.            *)
addMail(p) ==
    /\ pc[p] = "up"
    /\ sealed' = sealed \cup {key[p]}
    /\ UNCHANGED <<keyfile, store, holder, pc, nopass, name, file, mgr, kpass, key,
                   save, stale, history>>

(* savePeriodically calls saveData at a tick, until quit is closed.        *)
savePeriodically(p) ==
    /\ pc[p] \in {"up", "stopping"}
    /\ save[p]["ticker"].at = "idle"
    /\ save' = SaveKeyfile(p, "ticker")
    /\ UNCHANGED <<disk, holder, pc, nopass, name, file, mgr, kpass, key, stale,
                   history>>

Stop(p) ==
    /\ Goto(p, "up", "stopping")
    /\ save' = SaveKeyfile(p, "main")
    /\ UNCHANGED <<disk, holder, nopass, name, file, mgr, kpass, key, stale, history>>

(* The end of Stop, of an import or of a create.  The interrupt handler    *)
(* lets main return when Stop has, whatever savePeriodically is doing; the *)
(* deferred store.Close is part of Exit.                                   *)
finish(p) ==
    /\ pc[p] \in {"stopping", "closing", "saving"}
    /\ save[p]["main"].at = "idle"
    /\ Exit(p)

(* The process is killed, or the power fails.                              *)
crash(p) ==
    /\ pc[p] # "down"
    /\ Exit(p)

Process(p) ==
    \/ \E n \in Names, s \in Seeds, np \in BOOLEAN : create(p, n, s, np)
    \/ \E np \in BOOLEAN : readKeyfile(p, np)
    \/ createStore(p)
    \/ openStore(p)
    \/ OpenTimeout(p)
    \/ constructNew(p)
    \/ NewUser(p)
    \/ DuplicateUser(p)
    \/ initializeFolders(p)
    \/ Initialize(p)
    \/ closeCreated(p)
    \/ createKeyfile(p)
    \/ loadKeys(p)
    \/ constructOld(p)
    \/ \E n \in Names : newServer(p, n)
    \/ savePeriodically(p)
    \/ \E pass \in Pass : ChangePassphrase(p, pass)
    \/ NewAddress(p)
    \/ addMail(p)
    \/ Stop(p)
    \/ importKeyfile(p)
    \/ saveImport(p)
    \/ \E w \in Writers : truncate(p, w) \/ write(p, w) \/ writeFails(p, w)
    \/ finish(p)
    \/ crash(p)

Next == \E p \in Procs : Process(p)

Spec == Init /\ [][Next]_vars

----------------------------------------------------------------------------
(* Properties.                                                             *)

(* The messages in the store are encrypted under the master key that       *)
(* Construct gives the next process, whoever created the store, whichever  *)
(* passphrase it has by now and wherever its creation was cut off.         *)
MailReadable == sealed \subseteq {store.key}

(* A process that opened the key file saves it with the passphrase that it *)
(* was opened with: a complete key file has the passphrase of the create   *)
(* that wrote it, or of the last save that replaced another process's.     *)
OpensWithItsPass == keyfile.is = "whole" => keyfile.pass = opens

(* The addresses that were in a complete key file are in the file on disk, *)
(* except while a save has it truncated and is about to write them again.  *)
(* What loses them is a save that ends between truncate and write, or a    *)
(* stale one: of a process that read or was to create the key file before  *)
(* another one saved it for the last time, or of savePeriodically and Stop *)
(* at the same time.                                                       *)
KeysKept ==
    \/ known \subseteq keyfile.ids
    \/ cut
    \/ \E p \in Procs, w \in Writers :
         /\ save[p][w].at = "write"
         /\ save[p][w].stale \/ known \subseteq save[p][w].mgr.ids

(* "This is to ensure that everything isn't lost in case of power          *)
(* failure/sudden shutdown" (server.go:547): when no process runs, however *)
(* the last one ended, the addresses that were saved are in the key file.  *)
KeysSurvive == (\A p \in Procs : pc[p] = "down") => known \subseteq keyfile.ids

(* The addresses that New can still derive are none that was ever saved,   *)
(* unless the process is stale.                                            *)
FreshAddresses ==
    \A p \in Procs :
        pc[p] \in {"up", "stopping"} /\ ~stale[p] =>
            \A a \in known \ Imports : a[1] = mgr[p].seed => a[2] < mgr[p].index

----------------------------------------------------------------------------
(* The inductive invariant.                                                *)

AnySeed == Seeds \cup {NoSeed}
Address == (AnySeed \X Nat) \cup Imports
Manager == [seed : AnySeed, index : Nat, ids : SUBSET Address]
KeyFile == [is : {"missing", "torn", "whole"}, pass : AnyPass, seed : AnySeed, index : Nat,
            ids : SUBSET Address]
DataStore == [is : {"missing", "new", "made"}, enc : AnyPass, key : Nat,
              users : SUBSET Names]
Saving == [at : {"idle", "truncate", "write"}, mgr : Manager, stale : BOOLEAN]

(* The places of createDatabases, and those of openDatabases and after.    *)
Early == {"create", "construct", "newUser", "folders"}
Late == {"initialize", "close", "promptKey", "saving"}
Loaded == {"open", "constructOld", "opened", "import", "closing", "up", "stopping"}

(* Between Open and Close, and between Construct and Close.                *)
Holding == {"construct", "newUser", "folders", "initialize", "close", "constructOld",
            "opened", "import", "closing", "up", "stopping"}
HasKey == Holding \ {"construct", "constructOld"}

TypeOK ==
    /\ keyfile \in KeyFile
    /\ store \in DataStore
    /\ sealed \subseteq Nat
    /\ holder \in Procs \cup {NoProc}
    /\ pc \in [Procs -> {"down", "keys"} \cup Early \cup Late \cup Loaded]
    /\ nopass \in [Procs -> BOOLEAN]
    /\ name \in [Procs -> Names \cup {NoName}]
    /\ \A p \in Procs : pc[p] \in Early => name[p] \in Names
    /\ file \in [Procs -> KeyFile]
    /\ mgr \in [Procs -> Manager]
    /\ kpass \in [Procs -> AnyPass]
    /\ key \in [Procs -> Nat]
    /\ save \in [Procs -> [Writers -> Saving]]
    /\ known \subseteq Address
    /\ opens \in AnyPass
    /\ cut \in BOOLEAN
    /\ stale \in [Procs -> BOOLEAN]

(* Whoever is between Open and Close has the lock of the store.            *)
LockInv == \A p \in Procs : pc[p] \in Holding <=> holder = p

(* The key in memory is the one in the store; a store that is not made has *)
(* no mail.                                                                *)
MasterInv ==
    /\ MailReadable
    /\ store.is # "made" => sealed = {} /\ store.users = {}
    /\ \A p \in Procs :
         /\ pc[p] \in HasKey => store.is = "made" /\ key[p] = store.key
         /\ pc[p] = "construct" => store.is # "missing"
         /\ pc[p] = "constructOld" => store.is # "missing"

(* Nothing that is not stale lacks an address of the last key file.        *)
KnownInv ==
    /\ keyfile.is = "missing" => known = {}
    /\ keyfile.is = "whole" => known \subseteq keyfile.ids
    /\ \A p \in Procs :
         /\ pc[p] = "down" => ~stale[p]
         /\ ~stale[p] =>
              /\ pc[p] \in Early \cup Late /\ save[p]["main"].at # "idle" => known = {}
              /\ pc[p] \in Early \cup (Late \ {"saving"}) => known = {}
              /\ pc[p] = "keys" /\ file[p].is = "whole" => known \subseteq file[p].ids
              /\ pc[p] \in Loaded => known \subseteq mgr[p].ids
         /\ \A w \in Writers : save[p][w].at # "idle" =>
              /\ pc[p] \in {"saving", "closing", "up", "stopping"}
              /\ w = "ticker" => pc[p] \in {"up", "stopping"}
              /\ w = "main" => pc[p] # "up"
              /\ save[p][w].mgr.ids \subseteq mgr[p].ids
              /\ ~save[p][w].stale => known \subseteq save[p][w].mgr.ids
              /\ ~save[p][w].stale /\ save[p][w].at = "write" => keyfile.is = "torn"

(* Every address derived from the seed is below the next index, on disk    *)
(* and in memory.                                                          *)
Below(m) == \A a \in m.ids \ Imports : a[1] = m.seed => a[2] < m.index

IndexInv ==
    /\ Below(keyfile)
    /\ \A p \in Procs :
         /\ Below(file[p])
         /\ Below(mgr[p])
         /\ \A w \in Writers : Below(save[p][w].mgr)

(* Nothing that is not stale has another passphrase than the last key      *)
(* file, except in a create.                                               *)
PassInv ==
    /\ OpensWithItsPass
    /\ \A p \in Procs :
         /\ ~stale[p] =>
              /\ pc[p] = "keys" /\ file[p].is = "whole" => file[p].pass = opens
              /\ pc[p] \in Loaded => kpass[p] = opens
         /\ \A w \in Writers : save[p][w].at # "idle" /\ ~save[p][w].stale => ~stale[p]

IndInv ==
    /\ TypeOK
    /\ LockInv
    /\ MasterInv
    /\ KnownInv
    /\ IndexInv
    /\ KeysKept
    /\ PassInv
=============================================================================

-------------------------- MODULE DatabasesProofs --------------------------
(***************************************************************************)
(* Proofs about Databases: for any number of processes, passphrases,       *)
(* master keys and addresses.                                              *)
(***************************************************************************)
EXTENDS Databases, TLAPS

(* saveKeyfile builds a record of a save.                                  *)
LEMMA SaveType ==
    ASSUME TypeOK, NEW p \in Procs, NEW w \in Writers
    PROVE  SaveKeyfile(p, w) \in [Procs -> [Writers -> Saving]]
<1>1. [at |-> "truncate", mgr |-> mgr[p], stale |-> stale[p]] \in Saving
  BY DEF TypeOK, Saving
<1> QED BY <1>1 DEF TypeOK, SaveKeyfile

(* saveKeyfile begins a save that is as stale as the process and leaves    *)
(* the others alone.                                                       *)
LEMMA SaveKeeps ==
    ASSUME TypeOK, NEW p \in Procs, NEW w \in Writers
    PROVE  /\ SaveKeyfile(p, w)[p][w].at = "truncate"
           /\ SaveKeyfile(p, w)[p][w].stale = stale[p]
           /\ \A q \in Procs, v \in Writers :
                ~(q = p /\ v = w) => SaveKeyfile(p, w)[q][v] = save[q][v]
BY DEF TypeOK, SaveKeyfile

(* New builds a manager.                                                   *)
LEMMA NewType ==
    ASSUME NEW m \in Manager, NEW i \in Nat
    PROVE  New(m, i) \in Manager
<1>1. <<m.seed, m.index + i>> \in Address
  BY DEF Manager, Address
<1>2. /\ m.index + i + 1 \in Nat
      /\ m.ids \cup {<<m.seed, m.index + i>>} \subseteq Address
  BY <1>1 DEF Manager
<1> QED BY <1>2 DEF Manager, New

(* New derives the first address that the next index leaves below it.      *)
LEMMA NewBelow ==
    ASSUME NEW m \in Manager, NEW i \in Nat, Below(m)
    PROVE  Below(New(m, i)) /\ m.ids \subseteq New(m, i).ids
<1>1. /\ New(m, i).seed = m.seed
      /\ New(m, i).index = m.index + i + 1
      /\ New(m, i).ids = m.ids \cup {<<m.seed, m.index + i>>}
  BY DEF New, Manager
<1>2. m.index \in Nat /\ m.ids \subseteq Address
  BY DEF Manager
<1>3. ASSUME NEW a \in m.ids \ Imports, a[1] = m.seed
      PROVE  a[2] < m.index + i + 1
  <2>1. a[2] < m.index /\ a[2] \in Nat
    BY <1>2, <1>3 DEF Below, Address
  <2> QED BY <1>2, <2>1
<1>4. <<m.seed, m.index + i>>[2] < m.index + i + 1
  BY <1>2
<1> QED BY <1>1, <1>3, <1>4 DEF Below

(* The end of a process, in whatever place, keeps the invariant.           *)
LEMMA ExitKeeps ==
    ASSUME IndInv, NEW p \in Procs, Exit(p)
    PROVE  IndInv'
<1> USE DEF Exit, disk, NoFile, NoKeys, NewManager, NoSave
<1>1. TypeOK'
  BY DatabasesAssumption DEF IndInv, TypeOK, Manager, KeyFile, Saving, AnyPass, AnySeed,
     Early, Late, Loaded
<1>2. LockInv'
  BY DatabasesAssumption DEF IndInv, TypeOK, LockInv, Holding
<1>3. MasterInv'
  BY DEF IndInv, TypeOK, MasterInv, MailReadable, HasKey, Holding
<1>4. KnownInv'
  BY DEF IndInv, TypeOK, KnownInv, Early, Late, Loaded, Writers
<1>5. IndexInv'
  BY DEF IndInv, TypeOK, IndexInv, Below, Writers
<1>6. KeysKept'
  <2> SUFFICES ASSUME ~(known \subseteq keyfile.ids), ~cut'
               PROVE  KeysKept'
    BY DEF KeysKept
  <2>1. PICK q \in Procs, v \in Writers :
            save[q][v].at = "write" /\ (save[q][v].stale \/ known \subseteq save[q][v].mgr.ids)
    BY DEF IndInv, KeysKept
  <2>2. keyfile.is = "torn"
    BY DEF IndInv, TypeOK, KeyFile, KnownInv
  <2>3. q # p
    BY <2>1, <2>2 DEF CutOff
  <2>4. save'[q][v] = save[q][v]
    BY <2>3 DEF IndInv, TypeOK
  <2> QED BY <2>1, <2>4 DEF KeysKept
<1>7. PassInv'
  BY DEF IndInv, TypeOK, PassInv, OpensWithItsPass, Early, Late, Loaded
<1> QED BY <1>1, <1>2, <1>3, <1>4, <1>5, <1>6, <1>7 DEF IndInv

(* WriteFile truncates the key file.                                       *)
LEMMA TruncateKeeps ==
    ASSUME IndInv, NEW p \in Procs, NEW w \in Writers, truncate(p, w)
    PROVE  IndInv'
<1> USE DEF truncate, disk, history, Torn, NoFile
<1>1. TypeOK'
  <2>1. save[p][w] \in Saving
    BY DEF IndInv, TypeOK
  <2>2. [save[p][w] EXCEPT !.at = "write"] \in Saving
    BY <2>1 DEF Saving
  <2>3. save' \in [Procs -> [Writers -> Saving]]
    BY <2>2 DEF IndInv, TypeOK
  <2>4. keyfile' \in KeyFile
    BY DEF KeyFile, AnyPass, AnySeed
  <2> QED BY <2>3, <2>4 DEF IndInv, TypeOK
<1>2. LockInv'
  BY DEF IndInv, TypeOK, LockInv
<1>3. MasterInv'
  BY DEF IndInv, TypeOK, MasterInv, MailReadable
<1>4. KnownInv'
  BY DEF IndInv, TypeOK, KnownInv, Writers, Saving
<1>5. IndexInv'
  BY DEF IndInv, TypeOK, IndexInv, Below, Saving
<1>6. KeysKept'
  <2>1. save[p][w] \in Saving /\ save'[p][w] = [save[p][w] EXCEPT !.at = "write"]
    BY DEF IndInv, TypeOK
  <2>2. save'[p][w].at = "write" /\ save'[p][w].stale = save[p][w].stale
        /\ save'[p][w].mgr = save[p][w].mgr
    BY <2>1 DEF Saving
  <2>3. save[p][w].stale \/ known \subseteq save[p][w].mgr.ids
    BY DEF IndInv, KnownInv
  <2> QED BY <2>2, <2>3 DEF KeysKept
<1>7. PassInv'
  BY DEF IndInv, TypeOK, PassInv, OpensWithItsPass, Writers, Saving
<1> QED BY <1>1, <1>2, <1>3, <1>4, <1>5, <1>6, <1>7 DEF IndInv

(* WriteFile writes the key file.                                          *)
LEMMA WriteKeeps ==
    ASSUME IndInv, NEW p \in Procs, NEW w \in Writers, write(p, w)
    PROVE  IndInv'
<1> USE DEF write
<1>1. /\ save' \in [Procs -> [Writers -> Saving]]
      /\ stale' \in [Procs -> BOOLEAN]
  <2>1. ASSUME NEW q \in Procs, NEW v \in Writers
        PROVE  save'[q][v] \in Saving
    <3>1. save[q][v] \in Saving
      BY DEF IndInv, TypeOK
    <3>2. NoSave \in Saving
      BY DEF Saving, Manager, AnySeed, NoSave, NoKeys, NewManager
    <3>3. [save[q][v] EXCEPT !.stale = TRUE] \in Saving
      BY <3>1 DEF Saving
    <3> QED BY <3>1, <3>2, <3>3
  <2> QED BY <2>1 DEF IndInv, TypeOK
<1>2. ASSUME NEW q \in Procs, NEW v \in Writers, save'[q][v].at # "idle"
      PROVE  /\ save'[q][v].stale
             /\ save'[q][v].mgr = save[q][v].mgr
             /\ save'[q][v].at = save[q][v].at
             /\ ~(q = p /\ v = w)
  <2>1. save[q][v] \in Saving
    BY DEF IndInv, TypeOK
  <2>2. NoSave.at = "idle"
    BY DEF NoSave
  <2>3. save'[q][v] = [save[q][v] EXCEPT !.stale = TRUE] /\ ~(q = p /\ v = w)
    BY <1>2, <2>2
  <2> QED BY <2>1, <2>3 DEF Saving
<1>3. ASSUME NEW q \in Procs, NEW v \in Writers
      PROVE  save'[q][v].mgr = save[q][v].mgr \/ save'[q][v].mgr = NoKeys
  <2>1. save[q][v] \in Saving
    BY DEF IndInv, TypeOK
  <2> QED BY <2>1 DEF Saving, NoSave
<1>4. /\ \A q \in Procs : q # p /\ pc[q] # "down" => stale'[q]
      /\ \A q \in Procs : q = p \/ pc[q] = "down" => stale'[q] = stale[q]
  OBVIOUS
<1>5. /\ keyfile' \in {Torn, Export(save[p][w].mgr, kpass[p])}
      /\ keyfile.is = "torn" => keyfile' = Export(save[p][w].mgr, kpass[p])
      /\ Torn.ids = {} /\ Torn.is = "torn"
      /\ Export(save[p][w].mgr, kpass[p]).ids = save[p][w].mgr.ids
  BY DEF Written, Torn, NoFile, Export
<1>6. ~save[p][w].stale =>
        /\ known \subseteq save[p][w].mgr.ids
        /\ keyfile' = Export(save[p][w].mgr, kpass[p])
  BY <1>5 DEF IndInv, KnownInv
<1>6a. known' = keyfile'.ids
  BY <1>5, <1>6
<1>6b. TypeOK'
  <2>1. /\ save[p][w].mgr \in Manager
        /\ kpass[p] \in AnyPass
    BY DEF IndInv, TypeOK, Saving
  <2>2. keyfile' \in KeyFile
    <3>1. Torn \in KeyFile
      BY DEF KeyFile, AnyPass, AnySeed, Torn, NoFile
    <3>2. Export(save[p][w].mgr, kpass[p]) \in KeyFile
      BY <2>1 DEF KeyFile, Manager, Export
    <3> QED BY <1>5, <3>1, <3>2
  <2>3. known' \subseteq Address
    BY <1>6a, <2>2 DEF KeyFile
  <2>4. opens' \in AnyPass
    BY <2>1 DEF IndInv, TypeOK
  <2> QED BY <1>1, <2>2, <2>3, <2>4 DEF IndInv, TypeOK
<1>7. LockInv'
  BY DEF IndInv, TypeOK, LockInv
<1>8. MasterInv'
  BY DEF IndInv, TypeOK, MasterInv, MailReadable
<1>9. KnownInv'
  <2>1. /\ save[p][w].mgr.ids \subseteq mgr[p].ids
        /\ pc[p] \in {"saving", "closing", "up", "stopping"}
        /\ w = "ticker" => pc[p] \in {"up", "stopping"}
    BY DEF IndInv, KnownInv
  <2>2. /\ keyfile'.is = "missing" => known' = {}
        /\ keyfile'.is = "whole" => known' \subseteq keyfile'.ids
    BY <1>5, <1>6a DEF Export
  <2>3. ASSUME NEW q \in Procs, NEW v \in Writers, save'[q][v].at # "idle"
        PROVE  /\ pc[q] \in {"saving", "closing", "up", "stopping"}
               /\ v = "ticker" => pc[q] \in {"up", "stopping"}
               /\ v = "main" => pc[q] # "up"
               /\ save'[q][v].mgr.ids \subseteq mgr[q].ids
               /\ save'[q][v].stale
    BY <1>2, <2>3 DEF IndInv, KnownInv
  <2>4. ASSUME NEW q \in Procs, pc[q] = "down"
        PROVE  ~stale'[q]
    BY <1>4, <2>4 DEF IndInv, KnownInv
  <2>5. ASSUME NEW q \in Procs, ~stale'[q]
        PROVE  /\ pc[q] \in Early \cup Late /\ save'[q]["main"].at # "idle" => known' = {}
               /\ pc[q] \in Early \cup (Late \ {"saving"}) => known' = {}
               /\ pc[q] = "keys" /\ file[q].is = "whole" => known' \subseteq file[q].ids
               /\ pc[q] \in Loaded => known' \subseteq mgr[q].ids
    <3>1. CASE q # p
      BY <1>4, <2>5, <3>1 DEF Early, Late, Loaded
    <3>2. CASE q = p
      <4>1. pc[q] \notin Early \cup (Late \ {"saving"}) /\ pc[q] # "keys"
        BY <2>1, <3>2 DEF Early, Late
      <4>2. pc[q] \in Loaded => known' \subseteq mgr[q].ids
        BY <1>5, <1>6a, <2>1, <3>2
      <4>3. pc[q] = "saving" => save'[q]["main"].at = "idle"
        BY <2>1, <3>2, <1>2 DEF Writers
      <4> QED BY <4>1, <4>2, <4>3 DEF Early, Late
    <3> QED BY <3>1, <3>2
  <2> QED BY <2>2, <2>3, <2>4, <2>5 DEF KnownInv
<1>10. IndexInv'
  <2>1. Below(NoKeys) /\ Below(Torn)
    BY DEF Below, NoKeys, NewManager, Torn, NoFile
  <2>2. Below(save[p][w].mgr)
    BY DEF IndInv, IndexInv
  <2>3. Below(keyfile')
    BY <1>5, <2>1, <2>2 DEF Below, Export
  <2>4. \A q \in Procs, v \in Writers : Below(save'[q][v].mgr)
    BY <1>3, <2>1 DEF IndInv, IndexInv
  <2> QED BY <2>3, <2>4 DEF IndInv, IndexInv, Below
<1>11. KeysKept'
  BY <1>6a DEF KeysKept
<1>12. PassInv'
  <2>1. /\ pc[p] \in {"saving", "closing", "up", "stopping"}
        /\ w = "ticker" => pc[p] \in {"up", "stopping"}
    BY DEF IndInv, KnownInv
  <2>2. opens' = kpass[p]
    BY <2>1 DEF IndInv, PassInv, Loaded
  <2>3. OpensWithItsPass'
    BY <1>5, <2>2 DEF OpensWithItsPass, Export
  <2>4. ASSUME NEW q \in Procs, ~stale'[q]
        PROVE  /\ pc[q] = "keys" /\ file[q].is = "whole" => file[q].pass = opens'
               /\ pc[q] \in Loaded => kpass[q] = opens'
    BY <1>4, <2>1, <2>2, <2>4 DEF Loaded
  <2>5. ASSUME NEW q \in Procs, NEW v \in Writers, save'[q][v].at # "idle"
        PROVE  save'[q][v].stale
    BY <1>2, <2>5
  <2> QED BY <2>3, <2>4, <2>5 DEF PassInv
<1> QED BY <1>6b, <1>7, <1>8, <1>9, <1>10, <1>11, <1>12 DEF IndInv

(* WriteFile fails.                                                        *)
LEMMA WriteFailsKeeps ==
    ASSUME IndInv, NEW p \in Procs, NEW w \in Writers, writeFails(p, w)
    PROVE  IndInv'
<1> USE DEF writeFails, disk, NoSave, NoKeys, NewManager
<1>1. TypeOK'
  BY DEF IndInv, TypeOK, Manager, KeyFile, Saving, AnyPass, AnySeed, Loaded
<1>2. LockInv'
  BY DEF IndInv, LockInv
<1>3. MasterInv'
  BY DEF IndInv, MasterInv, MailReadable
<1>4. KnownInv'
  BY DEF IndInv, KnownInv
<1>5. IndexInv'
  BY DEF IndInv, IndexInv, Below
<1>6. KeysKept'
  <2> SUFFICES ASSUME ~(known \subseteq keyfile.ids), ~cut'
               PROVE  KeysKept'
    BY DEF KeysKept
  <2>1. PICK q \in Procs, v \in Writers :
            save[q][v].at = "write" /\ (save[q][v].stale \/ known \subseteq save[q][v].mgr.ids)
    BY DEF IndInv, KeysKept
  <2>2. keyfile.is = "torn"
    BY DEF IndInv, TypeOK, KeyFile, KnownInv
  <2>3. ~(q = p /\ v = w)
    BY <2>1, <2>2 DEF CutOff
  <2>4. save'[q][v] = save[q][v]
    BY <2>3 DEF IndInv, TypeOK
  <2> QED BY <2>1, <2>4 DEF KeysKept
<1>7. PassInv'
  BY DEF IndInv, TypeOK, PassInv, OpensWithItsPass, Early, Late, Loaded
<1> QED BY <1>1, <1>2, <1>3, <1>4, <1>5, <1>6, <1>7 DEF IndInv

(* --create passes the test of loadConfig.                                 *)
LEMMA CreateKeeps ==
    ASSUME IndInv, NEW p \in Procs, NEW n \in Names, NEW s \in Seeds, NEW np \in BOOLEAN,
           create(p, n, s, np)
    PROVE  IndInv'
<1> USE DEF create, NewManager, Goto, disk, history
<1>1. TypeOK'
  <2>1. mgr' \in [Procs -> Manager]
    BY DEF IndInv, TypeOK, Manager, AnySeed
  <2> QED BY <2>1 DEF IndInv, TypeOK, Early, Late, Loaded
<1>2. LockInv'
  BY DEF IndInv, TypeOK, LockInv, Holding
<1>3. MasterInv'
  BY DEF IndInv, TypeOK, MasterInv, MailReadable, HasKey, Holding
<1>4. KnownInv'
  BY DEF IndInv, TypeOK, KnownInv, Early, Late, Loaded
<1>5. IndexInv'
  BY DEF IndInv, TypeOK, IndexInv, Below
<1>6. KeysKept'
  BY DEF IndInv, KeysKept
<1>7. PassInv'
  BY DEF IndInv, TypeOK, PassInv, OpensWithItsPass, Early, Late, Loaded
<1> QED BY <1>1, <1>2, <1>3, <1>4, <1>5, <1>6, <1>7 DEF IndInv

(* createDatabases opens the store.                                        *)
LEMMA CreateStoreKeeps ==
    ASSUME IndInv, NEW p \in Procs, createStore(p)
    PROVE  IndInv'
<1> USE DEF createStore, Open, Goto, disk, history
<1>1. TypeOK'
  BY DatabasesAssumption DEF IndInv, TypeOK, DataStore, AnyPass, Early, Late, Loaded
<1>2. LockInv'
  BY DatabasesAssumption DEF IndInv, TypeOK, LockInv, Holding
<1>3. MasterInv'
  BY DEF IndInv, TypeOK, MasterInv, MailReadable, HasKey, Holding
<1>4. KnownInv'
  BY DEF IndInv, TypeOK, KnownInv, Early, Late, Loaded
<1>5. IndexInv'
  BY DEF IndInv, IndexInv, Below
<1>6. KeysKept'
  BY DEF IndInv, KeysKept
<1>7. PassInv'
  BY DEF IndInv, TypeOK, PassInv, OpensWithItsPass, Early, Late, Loaded
<1> QED BY <1>1, <1>2, <1>3, <1>4, <1>5, <1>6, <1>7 DEF IndInv

(* createDatabases constructs the store.                                   *)
LEMMA ConstructNewKeeps ==
    ASSUME IndInv, NEW p \in Procs, NEW pass \in NewPass(p),
           Construct(p, pass, "construct", "newUser")
    PROVE  IndInv'
<1> USE DEF Construct, Constructed, Refuses, NewPass, Goto, history
<1>1. TypeOK'
  BY DatabasesAssumption DEF IndInv, TypeOK, DataStore, AnyPass, Early, Late, Loaded
<1>2. LockInv'
  BY DEF IndInv, TypeOK, LockInv, Holding
<1>3. MasterInv'
  BY DEF IndInv, TypeOK, MasterInv, MailReadable, HasKey, Holding, DataStore
<1>4. KnownInv'
  BY DEF IndInv, TypeOK, KnownInv, Early, Late, Loaded
<1>5. IndexInv'
  BY DEF IndInv, IndexInv, Below
<1>6. KeysKept'
  BY DEF IndInv, KeysKept
<1>7. PassInv'
  BY DEF IndInv, TypeOK, PassInv, OpensWithItsPass, Early, Late, Loaded
<1> QED BY <1>1, <1>2, <1>3, <1>4, <1>5, <1>6, <1>7 DEF IndInv

(* NewUser does not find the user.                                         *)
LEMMA NewUserKeeps ==
    ASSUME IndInv, NEW p \in Procs, NewUser(p)
    PROVE  IndInv'
<1> USE DEF NewUser, Goto, disk, history
<1>1. TypeOK'
  BY DEF IndInv, TypeOK, Early, Late, Loaded
<1>2. LockInv'
  BY DEF IndInv, TypeOK, LockInv, Holding
<1>3. MasterInv'
  BY DEF IndInv, TypeOK, MasterInv, MailReadable, HasKey, Holding
<1>4. KnownInv'
  BY DEF IndInv, TypeOK, KnownInv, Early, Late, Loaded
<1>5. IndexInv'
  BY DEF IndInv, IndexInv, Below
<1>6. KeysKept'
  BY DEF IndInv, KeysKept
<1>7. PassInv'
  BY DEF IndInv, TypeOK, PassInv, OpensWithItsPass, Early, Late, Loaded
<1> QED BY <1>1, <1>2, <1>3, <1>4, <1>5, <1>6, <1>7 DEF IndInv

(* initializeFolders enters the user.                                      *)
LEMMA InitializeFoldersKeeps ==
    ASSUME IndInv, NEW p \in Procs, initializeFolders(p)
    PROVE  IndInv'
<1> USE DEF initializeFolders, Goto, history
<1>1. TypeOK'
  BY DatabasesAssumption DEF IndInv, TypeOK, DataStore, AnyPass, Early, Late, Loaded
<1>2. LockInv'
  BY DEF IndInv, TypeOK, LockInv, Holding
<1>3. MasterInv'
  BY DEF IndInv, TypeOK, MasterInv, MailReadable, HasKey, Holding
<1>4. KnownInv'
  BY DEF IndInv, TypeOK, KnownInv, Early, Late, Loaded
<1>5. IndexInv'
  BY DEF IndInv, IndexInv, Below
<1>6. KeysKept'
  BY DEF IndInv, KeysKept
<1>7. PassInv'
  BY DEF IndInv, TypeOK, PassInv, OpensWithItsPass, Early, Late, Loaded
<1> QED BY <1>1, <1>2, <1>3, <1>4, <1>5, <1>6, <1>7 DEF IndInv

(* Initialize derives a key and stores the welcome message.                *)
LEMMA InitializeKeeps ==
    ASSUME IndInv, NEW p \in Procs, Initialize(p)
    PROVE  IndInv'
<1> USE DEF Initialize, Goto, history
<1>1. TypeOK'
  <2>1. mgr' \in [Procs -> Manager]
    BY NewType, DatabasesAssumption DEF IndInv, TypeOK
  <2>2. sealed' \subseteq Nat
    <3>1. key[p] \in Nat /\ sealed \subseteq Nat
      BY DEF IndInv, TypeOK
    <3> QED BY <3>1
  <2> QED BY <2>1, <2>2 DEF IndInv, TypeOK, Early, Late
<1>2. LockInv'
  BY DEF IndInv, TypeOK, LockInv, Holding
<1>3. MasterInv'
  BY DEF IndInv, TypeOK, MasterInv, MailReadable, HasKey, Holding
<1>4. KnownInv'
  BY DEF IndInv, TypeOK, KnownInv, Early, Late, Loaded
<1>5. IndexInv'
  <2>1. Below(mgr'[p])
    BY NewBelow, DatabasesAssumption DEF IndInv, TypeOK, IndexInv
  <2> QED BY <2>1 DEF IndInv, TypeOK, IndexInv, Below
<1>6. KeysKept'
  BY DEF IndInv, KeysKept
<1>7. PassInv'
  BY DEF IndInv, TypeOK, PassInv, OpensWithItsPass, Early, Late, Loaded
<1> QED BY <1>1, <1>2, <1>3, <1>4, <1>5, <1>6, <1>7 DEF IndInv

(* createDatabases closes the store.                                       *)
LEMMA CloseCreatedKeeps ==
    ASSUME IndInv, NEW p \in Procs, closeCreated(p)
    PROVE  IndInv'
<1> USE DEF closeCreated, Goto, disk, history
<1>1. TypeOK'
  BY DEF IndInv, TypeOK, Early, Late, Loaded
<1>2. LockInv'
  BY DatabasesAssumption DEF IndInv, TypeOK, LockInv, Holding
<1>3. MasterInv'
  BY DEF IndInv, TypeOK, MasterInv, MailReadable, HasKey, Holding
<1>4. KnownInv'
  BY DEF IndInv, TypeOK, KnownInv, Early, Late, Loaded
<1>5. IndexInv'
  BY DEF IndInv, IndexInv, Below
<1>6. KeysKept'
  BY DEF IndInv, KeysKept
<1>7. PassInv'
  BY DEF IndInv, TypeOK, PassInv, OpensWithItsPass, Early, Late, Loaded
<1> QED BY <1>1, <1>2, <1>3, <1>4, <1>5, <1>6, <1>7 DEF IndInv

(* createDatabases begins to save the key file.                            *)
LEMMA CreateKeyfileKeeps ==
    ASSUME IndInv, NEW p \in Procs, createKeyfile(p)
    PROVE  IndInv'
<1> USE DEF createKeyfile, NewPass, Goto, disk, history
<1>1. TypeOK'
  <2>1. save' \in [Procs -> [Writers -> Saving]]
    BY SaveType DEF IndInv, Writers
  <2>2. kpass' \in [Procs -> AnyPass]
    BY DEF IndInv, TypeOK, AnyPass
  <2> QED BY <2>1, <2>2 DEF IndInv, TypeOK, Early, Late
<1>2. LockInv'
  BY DEF IndInv, TypeOK, LockInv, Holding
<1>3. MasterInv'
  BY DEF IndInv, TypeOK, MasterInv, MailReadable, HasKey, Holding
<1>4. KnownInv'
  BY DEF SaveKeyfile, IndInv, TypeOK, KnownInv, Early, Late, Loaded
<1>5. IndexInv'
  BY DEF SaveKeyfile, IndInv, IndexInv, Below
<1>6. KeysKept'
  BY SaveKeeps DEF IndInv, KnownInv, KeysKept, Writers
<1>7. PassInv'
  BY SaveKeeps DEF IndInv, TypeOK, PassInv, OpensWithItsPass, Late, Loaded, Writers
<1> QED BY <1>1, <1>2, <1>3, <1>4, <1>5, <1>6, <1>7 DEF IndInv

(* openDatabases reads the key file.                                       *)
LEMMA ReadKeyfileKeeps ==
    ASSUME IndInv, NEW p \in Procs, NEW np \in BOOLEAN, readKeyfile(p, np)
    PROVE  IndInv'
<1> USE DEF readKeyfile, Goto, disk, history
<1>1. TypeOK'
  BY DEF IndInv, TypeOK, Early, Late, Loaded
<1>2. LockInv'
  BY DEF IndInv, TypeOK, LockInv, Holding
<1>3. MasterInv'
  BY DEF IndInv, TypeOK, MasterInv, MailReadable, HasKey, Holding
<1>4. KnownInv'
  BY DEF IndInv, TypeOK, KnownInv, Early, Late, Loaded
<1>5. IndexInv'
  BY DEF IndInv, IndexInv, Below
<1>6. KeysKept'
  BY DEF IndInv, KeysKept
<1>7. PassInv'
  BY DEF IndInv, TypeOK, PassInv, OpensWithItsPass, Early, Late, Loaded
<1> QED BY <1>1, <1>2, <1>3, <1>4, <1>5, <1>6, <1>7 DEF IndInv

(* openDatabases decrypts the key file.                                    *)
LEMMA OpenKeysKeeps ==
    ASSUME IndInv, NEW p \in Procs, NEW pass \in KeyPass(p), openKeys(p, pass)
    PROVE  IndInv'
<1> USE DEF openKeys, Decrypts, FromPlaintext, KeyPass, NoFile, Goto, disk, history
<1>1. TypeOK'
  <2>1. file[p] \in KeyFile /\ NoFile \in KeyFile
    BY DEF IndInv, TypeOK, KeyFile, AnyPass, AnySeed
  <2>2. FromPlaintext(file[p]) \in Manager
    BY <2>1 DEF KeyFile, Manager
  <2>3. kpass' \in [Procs -> AnyPass]
    BY DEF IndInv, TypeOK, AnyPass
  <2> QED BY <2>1, <2>2, <2>3 DEF IndInv, TypeOK, Early, Loaded
<1>2. LockInv'
  BY DEF IndInv, TypeOK, LockInv, Holding
<1>3. MasterInv'
  BY DEF IndInv, TypeOK, MasterInv, MailReadable, HasKey, Holding
<1>4. KnownInv'
  BY DEF IndInv, TypeOK, KnownInv, Early, Late, Loaded
<1>5. IndexInv'
  BY DEF IndInv, IndexInv, Below
<1>6. KeysKept'
  BY DEF IndInv, KeysKept
<1>7. PassInv'
  BY DEF IndInv, TypeOK, PassInv, OpensWithItsPass, Early, Late, Loaded
<1> QED BY <1>1, <1>2, <1>3, <1>4, <1>5, <1>6, <1>7 DEF IndInv

(* openDatabases opens the store.                                          *)
LEMMA OpenStoreKeeps ==
    ASSUME IndInv, NEW p \in Procs, openStore(p)
    PROVE  IndInv'
<1> USE DEF openStore, Open, Goto, disk, history
<1>1. TypeOK'
  BY DatabasesAssumption DEF IndInv, TypeOK, DataStore, AnyPass, Early, Late, Loaded
<1>2. LockInv'
  BY DatabasesAssumption DEF IndInv, TypeOK, LockInv, Holding
<1>3. MasterInv'
  BY DEF IndInv, TypeOK, MasterInv, MailReadable, HasKey, Holding
<1>4. KnownInv'
  BY DEF IndInv, TypeOK, KnownInv, Early, Late, Loaded
<1>5. IndexInv'
  BY DEF IndInv, IndexInv, Below
<1>6. KeysKept'
  BY DEF IndInv, KeysKept
<1>7. PassInv'
  BY DEF IndInv, TypeOK, PassInv, OpensWithItsPass, Early, Late, Loaded
<1> QED BY <1>1, <1>2, <1>3, <1>4, <1>5, <1>6, <1>7 DEF IndInv

(* openDatabases constructs the store.                                     *)
LEMMA ConstructOldKeeps ==
    ASSUME IndInv, NEW p \in Procs, NEW pass \in StorePass(p),
           Construct(p, pass, "constructOld", "opened")
    PROVE  IndInv'
<1> USE DEF Construct, Constructed, Refuses, StorePass, Goto, history
<1>1. TypeOK'
  BY DatabasesAssumption DEF IndInv, TypeOK, DataStore, AnyPass, Early, Late, Loaded
<1>2. LockInv'
  BY DEF IndInv, TypeOK, LockInv, Holding
<1>3. MasterInv'
  BY DEF IndInv, TypeOK, MasterInv, MailReadable, HasKey, Holding, DataStore
<1>4. KnownInv'
  BY DEF IndInv, TypeOK, KnownInv, Early, Late, Loaded
<1>5. IndexInv'
  BY DEF IndInv, IndexInv, Below
<1>6. KeysKept'
  BY DEF IndInv, KeysKept
<1>7. PassInv'
  BY DEF IndInv, TypeOK, PassInv, OpensWithItsPass, Early, Late, Loaded
<1> QED BY <1>1, <1>2, <1>3, <1>4, <1>5, <1>6, <1>7 DEF IndInv

(* importKeyfile adds its identities.                                      *)
LEMMA ImportKeyfileKeeps ==
    ASSUME IndInv, NEW p \in Procs, importKeyfile(p)
    PROVE  IndInv'
<1> USE DEF importKeyfile, ImportKeys, Goto, disk, history
<1>1. TypeOK'
  <2>1. ImportKeys(mgr[p]) \in Manager
    <3>1. mgr[p] \in Manager
      BY DEF IndInv, TypeOK
    <3>2. mgr[p].ids \cup Imports \subseteq Address
      BY <3>1 DEF Manager, Address
    <3> QED BY <3>1, <3>2 DEF Manager
  <2> QED BY <2>1 DEF IndInv, TypeOK, Early, Loaded
<1>2. LockInv'
  BY DEF IndInv, TypeOK, LockInv, Holding
<1>3. MasterInv'
  BY DEF IndInv, TypeOK, MasterInv, MailReadable, HasKey, Holding
<1>4. KnownInv'
  BY DEF IndInv, TypeOK, KnownInv, Early, Late, Loaded
<1>5. IndexInv'
  <2>1. Below(ImportKeys(mgr[p]))
    <3>1. mgr[p] \in Manager /\ Below(mgr[p])
      BY DEF IndInv, TypeOK, IndexInv
    <3>2. ImportKeys(mgr[p]).ids \ Imports = mgr[p].ids \ Imports
      BY <3>1 DEF Manager
    <3>3. /\ ImportKeys(mgr[p]).index = mgr[p].index
          /\ ImportKeys(mgr[p]).seed = mgr[p].seed
      BY <3>1 DEF Manager
    <3> QED BY <3>1, <3>2, <3>3 DEF Below
  <2> QED BY <2>1 DEF IndInv, TypeOK, IndexInv, Below
<1>6. KeysKept'
  BY DEF IndInv, KeysKept
<1>7. PassInv'
  BY DEF IndInv, TypeOK, PassInv, OpensWithItsPass, Early, Late, Loaded
<1> QED BY <1>1, <1>2, <1>3, <1>4, <1>5, <1>6, <1>7 DEF IndInv

(* The import begins to save.                                              *)
LEMMA SaveImportKeeps ==
    ASSUME IndInv, NEW p \in Procs, saveImport(p)
    PROVE  IndInv'
<1> USE DEF saveImport, Goto, disk, history
<1>1. TypeOK'
  <2>1. save' \in [Procs -> [Writers -> Saving]]
    BY SaveType DEF IndInv, Writers
  <2> QED BY <2>1 DEF IndInv, TypeOK, Early, Loaded
<1>2. LockInv'
  BY DEF IndInv, TypeOK, LockInv, Holding
<1>3. MasterInv'
  BY DEF IndInv, TypeOK, MasterInv, MailReadable, HasKey, Holding
<1>4. KnownInv'
  BY DEF SaveKeyfile, IndInv, TypeOK, KnownInv, Early, Late, Loaded
<1>5. IndexInv'
  BY DEF SaveKeyfile, IndInv, IndexInv, Below
<1>6. KeysKept'
  BY SaveKeeps DEF IndInv, KnownInv, KeysKept, Writers
<1>7. PassInv'
  BY SaveKeeps DEF IndInv, TypeOK, PassInv, OpensWithItsPass, Late, Loaded, Writers
<1> QED BY <1>1, <1>2, <1>3, <1>4, <1>5, <1>6, <1>7 DEF IndInv

(* newServer finds the user.                                               *)
LEMMA NewServerKeeps ==
    ASSUME IndInv, NEW p \in Procs, NEW n \in Names, newServer(p, n)
    PROVE  IndInv'
<1> USE DEF newServer, Goto, disk, history
<1>1. TypeOK'
  BY DEF IndInv, TypeOK, Early, Late, Loaded
<1>2. LockInv'
  BY DEF IndInv, TypeOK, LockInv, Holding
<1>3. MasterInv'
  BY DEF IndInv, TypeOK, MasterInv, MailReadable, HasKey, Holding
<1>4. KnownInv'
  BY DEF IndInv, TypeOK, KnownInv, Early, Late, Loaded
<1>5. IndexInv'
  BY DEF IndInv, IndexInv, Below
<1>6. KeysKept'
  BY DEF IndInv, KeysKept
<1>7. PassInv'
  BY DEF IndInv, TypeOK, PassInv, OpensWithItsPass, Early, Late, Loaded
<1> QED BY <1>1, <1>2, <1>3, <1>4, <1>5, <1>6, <1>7 DEF IndInv

(* NewAddress derives an identity.                                         *)
LEMMA NewAddressKeeps ==
    ASSUME IndInv, NEW p \in Procs, NewAddress(p)
    PROVE  IndInv'
<1> USE DEF NewAddress, disk, history
<1>1. TypeOK'
  BY NewType DEF IndInv, TypeOK
<1>2. LockInv'
  BY DEF IndInv, LockInv
<1>3. MasterInv'
  BY DEF IndInv, MasterInv, MailReadable
<1>4. KnownInv'
  <2>1. mgr[p].ids \subseteq mgr'[p].ids /\ \A q \in Procs : q # p => mgr'[q] = mgr[q]
    BY NewBelow, DatabasesAssumption DEF IndInv, TypeOK, IndexInv
  <2> QED BY <2>1 DEF IndInv, KnownInv
<1>5. IndexInv'
  <2>1. Below(mgr'[p])
    BY NewBelow, DatabasesAssumption DEF IndInv, TypeOK, IndexInv
  <2> QED BY <2>1 DEF IndInv, TypeOK, IndexInv, Below
<1>6. KeysKept'
  BY DEF IndInv, KeysKept
<1>7. PassInv'
  BY DEF IndInv, TypeOK, PassInv, OpensWithItsPass, Early, Late, Loaded
<1> QED BY <1>1, <1>2, <1>3, <1>4, <1>5, <1>6, <1>7 DEF IndInv

(* A message is encrypted and stored.                                      *)
LEMMA AddMailKeeps ==
    ASSUME IndInv, NEW p \in Procs, addMail(p)
    PROVE  IndInv'
<1> USE DEF addMail, history
<1>1. TypeOK'
  <2>1. sealed' \subseteq Nat
    BY DEF IndInv, TypeOK
  <2> QED BY <2>1 DEF IndInv, TypeOK
<1>2. LockInv'
  BY DEF IndInv, LockInv
<1>3. MasterInv'
  BY DEF IndInv, TypeOK, MasterInv, MailReadable, HasKey, Holding
<1>4. KnownInv'
  BY DEF IndInv, KnownInv
<1>5. IndexInv'
  BY DEF IndInv, IndexInv, Below
<1>6. KeysKept'
  BY DEF IndInv, KeysKept
<1>7. PassInv'
  BY DEF IndInv, TypeOK, PassInv, OpensWithItsPass, Early, Late, Loaded
<1> QED BY <1>1, <1>2, <1>3, <1>4, <1>5, <1>6, <1>7 DEF IndInv

(* ChangePassphrase encrypts the master key anew.                          *)
LEMMA ChangePassphraseKeeps ==
    ASSUME IndInv, NEW p \in Procs, NEW pass \in Pass, ChangePassphrase(p, pass)
    PROVE  IndInv'
<1> USE DEF ChangePassphrase, history
<1>1. TypeOK'
  BY DatabasesAssumption DEF IndInv, TypeOK, DataStore, AnyPass, Early, Late, Loaded
<1>2. LockInv'
  BY DEF IndInv, LockInv
<1>3. MasterInv'
  BY DEF IndInv, TypeOK, MasterInv, MailReadable, HasKey, Holding
<1>4. KnownInv'
  BY DEF IndInv, KnownInv
<1>5. IndexInv'
  BY DEF IndInv, IndexInv, Below
<1>6. KeysKept'
  BY DEF IndInv, KeysKept
<1>7. PassInv'
  BY DEF IndInv, TypeOK, PassInv, OpensWithItsPass, Early, Late, Loaded
<1> QED BY <1>1, <1>2, <1>3, <1>4, <1>5, <1>6, <1>7 DEF IndInv

(* savePeriodically begins to save.                                        *)
LEMMA SavePeriodicallyKeeps ==
    ASSUME IndInv, NEW p \in Procs, savePeriodically(p)
    PROVE  IndInv'
<1> USE DEF savePeriodically, disk, history
<1>1. TypeOK'
  <2>1. save' \in [Procs -> [Writers -> Saving]]
    BY SaveType DEF IndInv, Writers
  <2> QED BY <2>1 DEF IndInv, TypeOK
<1>2. LockInv'
  BY DEF IndInv, LockInv
<1>3. MasterInv'
  BY DEF IndInv, MasterInv, MailReadable
<1>4. KnownInv'
  BY DEF SaveKeyfile, IndInv, TypeOK, KnownInv, Early, Late, Loaded
<1>5. IndexInv'
  BY DEF SaveKeyfile, IndInv, IndexInv, Below
<1>6. KeysKept'
  BY SaveKeeps DEF IndInv, KnownInv, KeysKept, Writers
<1>7. PassInv'
  BY SaveKeeps DEF IndInv, TypeOK, PassInv, OpensWithItsPass, Late, Loaded, Writers
<1> QED BY <1>1, <1>2, <1>3, <1>4, <1>5, <1>6, <1>7 DEF IndInv

(* Stop begins to save.                                                    *)
LEMMA StopKeeps ==
    ASSUME IndInv, NEW p \in Procs, Stop(p)
    PROVE  IndInv'
<1> USE DEF Stop, Goto, disk, history
<1>1. TypeOK'
  <2>1. save' \in [Procs -> [Writers -> Saving]]
    BY SaveType DEF IndInv, Writers
  <2> QED BY <2>1 DEF IndInv, TypeOK, Early, Loaded
<1>2. LockInv'
  BY DEF IndInv, TypeOK, LockInv, Holding
<1>3. MasterInv'
  BY DEF IndInv, TypeOK, MasterInv, MailReadable, HasKey, Holding
<1>4. KnownInv'
  BY DEF SaveKeyfile, IndInv, TypeOK, KnownInv, Early, Late, Loaded
<1>5. IndexInv'
  BY DEF SaveKeyfile, IndInv, IndexInv, Below
<1>6. KeysKept'
  BY SaveKeeps DEF IndInv, KnownInv, KeysKept, Writers
<1>7. PassInv'
  BY SaveKeeps DEF IndInv, TypeOK, PassInv, OpensWithItsPass, Late, Loaded, Writers
<1> QED BY <1>1, <1>2, <1>3, <1>4, <1>5, <1>6, <1>7 DEF IndInv

----------------------------------------------------------------------------

(* An empty data directory satisfies the invariant.                        *)
LEMMA InitHolds == Init => IndInv
<1> SUFFICES ASSUME Init PROVE IndInv
  OBVIOUS
<1> USE DEF Init, NoFile, NoStore, NoKeys, NewManager, NoSave
<1>1. TypeOK
  BY DatabasesAssumption
     DEF TypeOK, Manager, KeyFile, DataStore, Saving, AnyPass, AnySeed, Early
<1>2. LockInv
  BY DatabasesAssumption DEF LockInv, Holding
<1>3. MasterInv
  BY DEF MasterInv, MailReadable, HasKey, Holding
<1>4. KnownInv
  BY DEF KnownInv, Early, Late, Loaded
<1>5. IndexInv
  BY DEF IndexInv, Below
<1>6. KeysKept
  BY DEF KeysKept
<1>7. PassInv
  BY DEF PassInv, OpensWithItsPass, Early, Late, Loaded
<1> QED BY <1>1, <1>2, <1>3, <1>4, <1>5, <1>6, <1>7 DEF IndInv

(* Every step of every process keeps the invariant.                        *)
LEMMA StepKeeps == IndInv /\ [Next]_vars => IndInv'
<1> SUFFICES ASSUME IndInv, [Next]_vars PROVE IndInv'
  OBVIOUS
<1>1. CASE UNCHANGED vars
  <2> USE <1>1 DEF vars
  <2>1. TypeOK'
    BY DEF IndInv, TypeOK
  <2>2. LockInv' /\ MasterInv'
    BY DEF IndInv, LockInv, MasterInv, MailReadable
  <2>3. KnownInv'
    BY DEF IndInv, KnownInv
  <2>4. IndexInv'
    BY DEF IndInv, IndexInv, Below
  <2>5. KeysKept' /\ PassInv'
    BY DEF IndInv, KeysKept, PassInv, OpensWithItsPass
  <2> QED BY <2>1, <2>2, <2>3, <2>4, <2>5 DEF IndInv
<1>2. ASSUME NEW p \in Procs, Process(p)
      PROVE  IndInv'
  <2>0. ASSUME NEW n \in Names, NEW s \in Seeds, NEW np \in BOOLEAN, create(p, n, s, np)
        PROVE  IndInv'
    BY <2>0, CreateKeeps
  <2>1. ASSUME NEW np \in BOOLEAN, readKeyfile(p, np)
        PROVE  IndInv'
    BY <2>1, ReadKeyfileKeeps
  <2>2. CASE createStore(p) \/ openStore(p)
    BY <2>2, CreateStoreKeeps, OpenStoreKeeps
  <2>3. CASE OpenTimeout(p) \/ DuplicateUser(p) \/ finish(p) \/ crash(p)
    BY <2>3, ExitKeeps DEF OpenTimeout, DuplicateUser, finish, crash
  <2>4. CASE constructNew(p)
    BY <2>4, ConstructNewKeeps, ExitKeeps DEF constructNew, ConstructFails
  <2>5. CASE constructOld(p)
    BY <2>5, ConstructOldKeeps, ExitKeeps DEF constructOld, ConstructFails
  <2>6. CASE loadKeys(p)
    BY <2>6, OpenKeysKeeps, ExitKeeps DEF loadKeys, openKeysFails
  <2>7. CASE NewUser(p) \/ initializeFolders(p) \/ Initialize(p)
    BY <2>7, NewUserKeeps, InitializeFoldersKeeps, InitializeKeeps
  <2>8. CASE closeCreated(p) \/ createKeyfile(p)
    BY <2>8, CloseCreatedKeeps, CreateKeyfileKeeps
  <2>9. CASE importKeyfile(p) \/ saveImport(p)
    BY <2>9, ImportKeyfileKeeps, SaveImportKeeps
  <2>9a. ASSUME NEW n \in Names, newServer(p, n)
         PROVE  IndInv'
    BY <2>9a, NewServerKeeps
  <2>10. CASE NewAddress(p) \/ addMail(p) \/ savePeriodically(p) \/ Stop(p)
    BY <2>10, NewAddressKeeps, AddMailKeeps, SavePeriodicallyKeeps, StopKeeps
  <2>11. ASSUME NEW pass \in Pass, ChangePassphrase(p, pass)
         PROVE  IndInv'
    BY <2>11, ChangePassphraseKeeps
  <2>12. ASSUME NEW w \in Writers, truncate(p, w) \/ write(p, w) \/ writeFails(p, w)
         PROVE  IndInv'
    BY <2>12, TruncateKeeps, WriteKeeps, WriteFailsKeeps
  <2> QED BY <1>2, <2>0, <2>1, <2>2, <2>3, <2>4, <2>5, <2>6, <2>7, <2>8, <2>9, <2>9a,
             <2>10, <2>11, <2>12 DEF Process
<1> QED BY <1>1, <1>2 DEF Next

(* The inductive invariant holds for any number of processes, whichever of *)
(* them create, open, import, save, stop and are killed, in any order.     *)
THEOREM Invariance == Spec => []IndInv
BY InitHolds, StepKeeps, PTL DEF Spec

(* Mail stays readable: the messages in the store are encrypted under the  *)
(* master key that Construct gives.                                        *)
THEOREM MailAlwaysReadable == Spec => []MailReadable
<1>1. IndInv => MailReadable
  BY DEF IndInv, MasterInv
<1> QED BY <1>1, Invariance, PTL

(* A complete key file opens with the passphrase of the create or of the   *)
(* stale save that wrote it: no other save changes it.                     *)
THEOREM AlwaysOpens == Spec => []OpensWithItsPass
<1>1. IndInv => OpensWithItsPass
  BY DEF IndInv, PassInv
<1> QED BY <1>1, Invariance, PTL

(* New derives no address that was ever saved, in a process that is not    *)
(* stale.                                                                  *)
THEOREM AddressesAlwaysFresh == Spec => []FreshAddresses
<1>1. IndInv => FreshAddresses
  <2> SUFFICES ASSUME IndInv, NEW p \in Procs, pc[p] \in {"up", "stopping"}, ~stale[p],
                      NEW a \in known \ Imports, a[1] = mgr[p].seed
               PROVE  a[2] < mgr[p].index
    BY DEF FreshAddresses
  <2>1. known \subseteq mgr[p].ids
    BY DEF IndInv, KnownInv, Loaded
  <2> QED BY <2>1 DEF IndInv, IndexInv, Below
<1> QED BY <1>1, Invariance, PTL

(* The addresses that were saved are in the key file on disk, or about to  *)
(* be written there again, unless a save was cut off after it truncated    *)
(* the file or a stale save replaced it.                                   *)
THEOREM KeysAlwaysKept == Spec => []KeysKept
<1>1. IndInv => KeysKept
  BY DEF IndInv
<1> QED BY <1>1, Invariance, PTL
=============================================================================

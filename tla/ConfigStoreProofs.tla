--------------------------- MODULE ConfigStoreProofs ---------------------------
(***************************************************************************)
(* Theorems about ConfigStore.                                              *)
(***************************************************************************)
EXTENDS ConfigStore, FiniteSetTheorems, TLAPS

-----------------------------------------------------------------------------
(* The edits of a configuration. *)

\* What is known of an edit and its key when the edit is made on a configuration c.
Applicable(c, e, key) ==
    /\ c \in Config /\ e \in Edit /\ WellFormed(e)
    /\ key \in Keys \cup {None} /\ (e.issues <=> key # None)
    /\ CanApply(c, e)

\* A rename moves the client, its key and the default to the new name, and changes
\* nothing else.
LEMMA Renamed ==
    ASSUME NEW c \in Config, NEW old \in Names, NEW new \in Names, old # new,
           NEW r, r = RenameClient(c, old, new)
    PROVE  /\ r \in Config
           /\ \A n \in Names :
                 /\ r.clients[n] = IF n = old THEN None ELSE IF n = new THEN c.clients[old]
                                   ELSE c.clients[n]
                 /\ r.keys[n] = IF n = old THEN None ELSE IF n = new THEN c.keys[old]
                                ELSE c.keys[n]
           /\ r.default = IF c.default = old THEN new ELSE c.default
<1>1. \A S, row :
         row \in [Names -> S \cup {None}] =>
            /\ Moved(row, old, new) \in [Names -> S \cup {None}]
            /\ \A n \in Names :
                  Moved(row, old, new)[n] = IF n = old THEN None ELSE IF n = new THEN row[old]
                                            ELSE row[n]
  BY DEF Moved
<1>2. c.clients \in [Names -> Identities \cup {None}] /\ c.keys \in [Names -> Keys \cup {None}]
  BY DEF Config
<1>3. /\ r.clients = Moved(c.clients, old, new) /\ r.keys = Moved(c.keys, old, new)
      /\ r.default = IF c.default = old THEN new ELSE c.default
  BY DEF RenameClient
<1>4. r \in Config
  BY <1>1, <1>2 DEF RenameClient, Config
<1> QED BY <1>1, <1>2, <1>3, <1>4

\* A rename that is applicable is one of two different names.
LEMMA RenameApplies ==
    ASSUME NEW c, NEW e, NEW key, Applicable(c, e, key), e.type = "rename"
    PROVE  /\ c \in Config /\ e.name \in Names /\ e.new \in Names /\ e.name # e.new
           /\ ~e.issues /\ key = None
           /\ c.clients[e.name] # None /\ c.clients[e.new] = None
           /\ Apply(c, e, key) = RenameClient(c, e.name, e.new)
<1> USE ConfigAssumption
<1> QED BY DEF Applicable, Edit, WellFormed, CanApply, Registered, Apply

\* An edit yields a configuration.
LEMMA ApplyTyped ==
    ASSUME NEW c, NEW e, NEW key, Applicable(c, e, key)
    PROVE  Apply(c, e, key) \in Config
<1> USE ConfigAssumption
<1>1. CASE e.type = "add"
  BY <1>1 DEF Applicable, Apply, AddClient, Config, Edit, WellFormed
<1>2. CASE e.type = "keygen"
  BY <1>2 DEF Applicable, Apply, Keygen, Config, Edit, WellFormed
<1>3. CASE e.type = "rename"
  BY <1>3, RenameApplies, Renamed
<1> QED BY <1>1, <1>2, <1>3 DEF Applicable, Edit

\* Where the key of a name came from: it was issued by the edit, or it was there before,
\* under the old name when the client was renamed.
Before(e, n) == IF e.type = "rename" /\ n = e.new THEN e.name ELSE n

\* A key in an edited configuration is the one just issued, or was there before under the
\* name its client had.
LEMMA ApplyKeys ==
    ASSUME NEW c, NEW e, NEW key, Applicable(c, e, key), NEW n \in Names,
           Apply(c, e, key).keys[n] # None
    PROVE  \/ /\ e.issues /\ n = e.name /\ Apply(c, e, key).keys[n] = key
              /\ e.type \in {"add", "keygen"}
           \/ /\ Apply(c, e, key).keys[n] = c.keys[Before(e, n)]
              /\ Apply(c, e, key).clients[n] = c.clients[Before(e, n)]
                    \/ (e.type = "add" /\ n = e.name)
              /\ e.type = "rename" => n # e.name
<1> USE ConfigAssumption DEF Before
<1>1. CASE e.type = "add"
  BY <1>1 DEF Applicable, Apply, AddClient, Config, Edit, WellFormed
<1>2. CASE e.type = "keygen"
  BY <1>2 DEF Applicable, Apply, Keygen, Config, Edit, WellFormed
<1>3. CASE e.type = "rename"
  BY <1>3, RenameApplies, Renamed
<1> QED BY <1>1, <1>2, <1>3 DEF Applicable, Edit

\* No edit unregisters a name, except that a rename frees the old one.
LEMMA ApplyRegisters ==
    ASSUME NEW c, NEW e, NEW key, Applicable(c, e, key), NEW n \in Names
    PROVE  /\ Registered(c, Before(e, n)) => \/ Registered(Apply(c, e, key), n)
                                             \/ e.type = "rename" /\ n = e.name
           /\ e.type \in {"add", "keygen"} => Registered(Apply(c, e, key), e.name)
           /\ Apply(c, e, key).default =
                 IF e.type = "rename" /\ c.default = e.name THEN e.new ELSE c.default
<1> USE ConfigAssumption DEF Before, Registered
<1>1. CASE e.type = "add"
  BY <1>1 DEF Applicable, Apply, AddClient, Config, Edit, WellFormed
<1>2. CASE e.type = "keygen"
  BY <1>2 DEF Applicable, Apply, Keygen, Config, Edit, WellFormed, CanApply
<1>3. CASE e.type = "rename"
  BY <1>3, RenameApplies, Renamed
<1> QED BY <1>1, <1>2, <1>3 DEF Applicable, Edit

\* An edit of a valid configuration with a new key yields a valid one.
LEMMA ApplyValid ==
    ASSUME NEW c, NEW e, NEW key, Applicable(c, e, key), Valid(c), key \notin KeysOf(c)
    PROVE  Valid(Apply(c, e, key))
<1> USE ConfigAssumption
<1> DEFINE d == Apply(c, e, key)
<1>1. /\ c # None /\ c \in Config /\ d \in Config
      /\ e.name \in Names /\ \A n \in Names : Before(e, n) \in Names
      /\ e.type \in {"add", "keygen", "rename"}
  BY ApplyTyped DEF Applicable, Before, Edit
<1>2. \A n \in Names : c.keys[n] # None => c.keys[n] # key
  BY <1>1 DEF KeysOf
<1>3. \A m, n \in Names : /\ Before(e, m) = Before(e, n)
                          /\ e.type = "rename" => m # e.name /\ n # e.name
                          => m = n
  BY DEF Before
<1> HIDE DEF d
<1>4. ASSUME d.default # None PROVE Registered(d, d.default)
  <2>1. CASE e.type = "rename"
    BY <1>1, <1>4, <2>1, ApplyRegisters, RenameApplies, Renamed DEF Valid, Registered, Config, d
  <2>2. CASE e.type # "rename"
    BY <1>1, <1>4, <2>2, ApplyRegisters DEF Valid, Config, Before, d
  <2> QED BY <2>1, <2>2
<1>5. ASSUME NEW n \in Names, d.keys[n] # None PROVE Registered(d, n)
  BY <1>1, <1>5, ApplyKeys, ApplyRegisters DEF Valid, d
<1>6. ASSUME NEW m \in Names, NEW n \in Names, d.keys[m] # None, d.keys[m] = d.keys[n]
      PROVE  m = n
  <2>1. \/ d.keys[m] = key /\ m = e.name /\ e.type \in {"add", "keygen"}
        \/ d.keys[m] = c.keys[Before(e, m)] /\ (e.type = "rename" => m # e.name)
    BY <1>6, ApplyKeys DEF d
  <2>2. \/ d.keys[n] = key /\ n = e.name /\ e.type \in {"add", "keygen"}
        \/ d.keys[n] = c.keys[Before(e, n)] /\ (e.type = "rename" => n # e.name)
    BY <1>6, ApplyKeys DEF d
  <2> QED BY <1>1, <1>2, <1>3, <1>6, <2>1, <2>2 DEF Valid
<1> QED BY <1>4, <1>5, <1>6 DEF Valid, d

\* A key that is there before and after an edit of a valid configuration belongs to a
\* client of the same identity.
LEMMA ApplyAuthority ==
    ASSUME NEW c, NEW e, NEW key, Applicable(c, e, key), Valid(c), key \notin KeysOf(c),
           NEW m \in Names, NEW n \in Names,
           c.keys[m] # None, Apply(c, e, key).keys[n] = c.keys[m]
    PROVE  Apply(c, e, key).clients[n] = c.clients[m]
<1> USE ConfigAssumption
<1> DEFINE d == Apply(c, e, key)
<1>1. c # None /\ e.name \in Names /\ Before(e, n) \in Names /\ Before(e, n) # None
  BY DEF Applicable, Before, Edit, WellFormed
<1>2. c.keys[m] # key
  BY <1>1 DEF KeysOf
<1>3. /\ d.keys[n] = c.keys[Before(e, n)]
      /\ d.clients[n] = c.clients[Before(e, n)] \/ (e.type = "add" /\ n = e.name)
  BY <1>2, ApplyKeys
<1>4. Before(e, n) = m
  BY <1>1, <1>3 DEF Valid
<1>5. ~(e.type = "add" /\ n = e.name)
  BY <1>4, <1>1 DEF Applicable, CanApply, Valid, Before
<1> QED BY <1>3, <1>4, <1>5

\* The configuration of a first run is valid.
LEMMA FirstConfigValid ==
    ASSUME NEW p \in Processes, NEW key \in Keys \cup {None}
    PROVE  /\ FirstConfig(p, key) \in Config /\ Valid(FirstConfig(p, key))
           /\ KeysOf(FirstConfig(p, key)) \subseteq {key}
<1> USE ConfigAssumption, StoreAssumption
<1> DEFINE human == [clients |-> [NoClients EXCEPT ![Human[p]] = HumanIdentity[p]],
                     keys    |-> NoClients,
                     default |-> Human[p]]
<1>1. human \in Config /\ Human[p] \in Names
  BY DEF NoClients, Config
<1>2. CASE p = Desktop
  <2> DEFINE both == AddClient(human, Agent, AgentIdentity, key)
             clients == [[NoClients EXCEPT ![Human[p]] = HumanIdentity[p]]
                            EXCEPT ![Agent] = AgentIdentity]
             keys == IF key = None THEN NoClients ELSE [NoClients EXCEPT ![Agent] = key]
  <2>1. FirstConfig(p, key) = both
    BY <1>2 DEF FirstConfig
  <2>2. both = [clients |-> clients, keys |-> keys, default |-> Human[p]]
    BY DEF AddClient
  <2>3. /\ clients \in [Names -> Identities \cup {None}]
        /\ clients[Agent] # None /\ clients[Human[p]] # None
    BY <1>1, <1>2 DEF NoClients
  <2>4. /\ keys \in [Names -> Keys \cup {None}]
        /\ \A n \in Names : keys[n] # None => n = Agent
    BY DEF NoClients
  <2> HIDE DEF clients, keys, both
  <2>7. \A n \in Names : keys[n] # None => keys[n] = key
    BY DEF NoClients, keys
  <2>5. both \in Config /\ both.clients = clients /\ both.keys = keys /\ both.default = Human[p]
    BY <1>1, <2>2, <2>3, <2>4 DEF Config
  <2>6. Valid(both)
    BY <1>1, <2>3, <2>4, <2>5 DEF Valid, Registered
  <2> QED BY <2>1, <2>5, <2>6, <2>7 DEF KeysOf
<1>3. CASE p # Desktop
  <2>1. FirstConfig(p, key) = human
    BY <1>3 DEF FirstConfig
  <2> QED BY <1>1, <2>1 DEF Valid, Registered, NoClients, KeysOf
<1> QED BY <1>2, <1>3

-----------------------------------------------------------------------------
(* The inductive invariant of the file. *)

Firsts == {FirstConfig(p, key) : p \in Processes, key \in Keys \cup {None}}

Storing == {"storing", "clearing keychain", "clearing file"}

\* What is known of one operation in progress: its path leads to the configuration, an
\* init waits to save a first configuration, and only the desktop stores keys.
OpSound(p, o) ==
    /\ o \in Op
    /\ Target[o.path] = ConfigPath
    /\ o.edit \in Edits \cup {None}
    /\ o.edit # None => file # None
    /\ p # Desktop => o.stage \notin Storing
    /\ o.edit = None /\ o.stage \notin Storing =>
          /\ o.copy \in Firsts /\ KeysOf(o.copy) \subseteq issued
          /\ p = Desktop => o.name \in Names /\ o.key \in Keys /\ o.old = None
    /\ o.stage = "saving" => o.copy # None
    /\ o.stage \in Storing =>
          /\ file # None
          /\ o.name \in Names /\ o.key \in Keys /\ o.name # o.old
          /\ o.stage # "storing" => o.old # None

OpsSound == \A p \in Processes : op[p] # None => OpSound(p, op[p])

\* Whoever is about to save holds the one lock.
SaverHoldsLock == \A p \in Processes : At(p, "saving") => lock[ConfigPath] = p

\* What is about to be saved is one edit away from what the file holds now.
SavesAreEdits ==
    \A p \in Processes :
        At(p, "saving") /\ op[p].edit # None =>
            /\ file # None
            /\ \E key \in (Keys \ used) \cup {None} :
                  /\ Applicable(file, op[p].edit, key)
                  /\ op[p].copy = Apply(file, op[p].edit, key)
                  /\ key = None \/ key \in issued

FileSound ==
    /\ file # None => Valid(file)
    /\ KeysOf(file) \subseteq used
    /\ file = None => used = {}
    /\ used \subseteq issued

FileInv == OpsSound /\ SaverHoldsLock /\ SavesAreEdits /\ LoserLeavesNoTrace /\ FileSound

-----------------------------------------------------------------------------
(* The steps of Next. *)

\* A step of Next is one of these.
LEMMA NextCases ==
    ASSUME Next
    PROVE  \/ \E p \in Processes :
                 \/ \E path \in Paths, e \in Edits : BeginEdit(p, path, e)
                 \/ \E path \in Paths, key \in NewKeys : BeginInit(p, path, key)
                 \/ \E key \in NewKeys : EditUnderLock(p, key)
                 \/ EditRefused(p) \/ InitRefused(p) \/ InitUnderLock(p) \/ InitFails(p)
                 \/ SaveEdit(p) \/ SaveFirst(p) \/ SaveFails(p) \/ Crash(p)
           \/ StoreInKeychain(Desktop) \/ StoreInFile(Desktop) \/ StoreFails(Desktop)
           \/ NothingToMove(Desktop) \/ ClearKeychain(Desktop) \/ ClearFile(Desktop)
BY DEF Next, Save

\* What no step takes back.
FileStays == (file # None => file' # None) /\ issued \subseteq issued'

\* Under it a sound operation stays sound.
LEMMA SoundStays ==
    ASSUME NEW p, NEW o, OpSound(p, o), FileStays
    PROVE  OpSound(p, o)'
BY DEF OpSound, FileStays, KeysOf

\* What an operation may become: nothing, or one that is sound.
Becomes(p, o) == op' = [op EXCEPT ![p] = o] /\ (o = None \/ OpSound(p, o)')

\* The steps of any process that write no file.
LEMMA QuietOps ==
    ASSUME TypeOK, FileInv, NEW p \in Processes,
           \/ \E path \in Paths, e \in Edits : BeginEdit(p, path, e)
           \/ \E path \in Paths, key \in NewKeys : BeginInit(p, path, key)
           \/ \E key \in NewKeys : EditUnderLock(p, key)
           \/ EditRefused(p) \/ InitRefused(p) \/ InitUnderLock(p) \/ InitFails(p)
           \/ SaveFails(p) \/ Crash(p)
    PROVE  FileStays /\ \E o : Becomes(p, o)
<1> USE ConfigAssumption, StoreAssumption
<1>0. /\ op \in [Processes -> Op \cup {None}] /\ file \in Config \cup {None}
      /\ op[p] # None => OpSound(p, op[p]) /\ op[p] \in Op
  BY DEF TypeOK, FileInv, OpsSound
<1>1. file' = file /\ issued \subseteq issued'
  BY DEF BeginEdit, BeginInit, EditUnderLock, EditRefused, InitRefused, InitUnderLock,
         InitFails, SaveFails, Crash, disk
<1>2. FileStays
  BY <1>1 DEF FileStays
<1>3. ASSUME NEW path \in Paths, NEW e \in Edits, BeginEdit(p, path, e)
      PROVE  \E o : Becomes(p, o)
  <2> DEFINE o == [stage |-> "waiting", path |-> path, edit |-> e, copy |-> None,
                   name |-> None, old |-> None, key |-> None, cleared |-> TRUE]
  <2>1. op' = [op EXCEPT ![p] = o]
    BY <1>3 DEF BeginEdit, Step
  <2>2. o \in Op
    BY DEF Op, Stages
  <2>3. OpSound(p, o)'
    BY <1>1, <1>3, <2>2 DEF OpSound, Storing, BeginEdit
  <2> QED BY <2>1, <2>3 DEF Becomes
<1>4. ASSUME NEW path \in Paths, NEW key \in NewKeys, BeginInit(p, path, key)
      PROVE  \E o : Becomes(p, o)
  <2> DEFINE o == [stage |-> "waiting", path |-> path, edit |-> None,
                   copy |-> FirstConfig(p, key),
                   name |-> IF p = Desktop THEN Agent ELSE None,
                   old |-> None, key |-> key, cleared |-> TRUE]
  <2>1. op' = [op EXCEPT ![p] = o]
    BY <1>4 DEF BeginInit, Step
  <2>2. key \in Keys \cup {None} /\ (p = Desktop <=> key # None) /\ path = ConfigPath
    BY <1>4 DEF BeginInit, NewKeys, Absent
  <2>3. /\ FirstConfig(p, key) \in Firsts /\ FirstConfig(p, key) \in Config
        /\ KeysOf(FirstConfig(p, key)) \subseteq issued'
    <3>1. KeysOf(FirstConfig(p, key)) \subseteq {key} \ {None}
      BY <2>2, FirstConfigValid DEF KeysOf
    <3>2. issued' = issued \cup ({key} \ {None})
      BY <1>4 DEF BeginInit
    <3> QED BY <2>2, <3>1, <3>2, FirstConfigValid DEF Firsts
  <2>4. o \in Op
    BY <2>2, <2>3 DEF Op, Stages
  <2>5. OpSound(p, o)'
    BY <2>2, <2>3, <2>4 DEF OpSound, Storing, KeysOf
  <2> QED BY <2>1, <2>5 DEF Becomes
<1>5. ASSUME NEW key \in NewKeys, EditUnderLock(p, key)
      PROVE  \E o : Becomes(p, o)
  <2> PICK c : c = Apply(file, op[p].edit, key)
    OBVIOUS
  <2> PICK o : o = [op[p] EXCEPT !.stage = "saving", !.copy = c]
    OBVIOUS
  <2>1. op' = [op EXCEPT ![p] = o] /\ op[p] # None /\ op[p].edit # None
        /\ op[p].stage = "waiting" /\ CanApply(file, op[p].edit)
        /\ (op[p].edit.issues <=> key # None)
    BY <1>5 DEF EditUnderLock, Step, At
  <2>2. op[p].edit \in Edit /\ WellFormed(op[p].edit) /\ key \in Keys \cup {None}
    BY <1>0, <2>1 DEF OpSound, NewKeys
  <2>3. file # None
    BY <1>0, <2>1 DEF OpSound
  <2>4. c \in Config
    BY <1>0, <2>1, <2>2, <2>3, ApplyTyped DEF Applicable
  <2>5. /\ o \in Op /\ o.stage = "saving" /\ o.copy = c /\ o.path = op[p].path
        /\ o.edit = op[p].edit
    BY <1>0, <2>1, <2>4 DEF Op, Stages
  <2>6. OpSound(p, o)'
    BY <1>0, <1>1, <2>1, <2>3, <2>4, <2>5 DEF OpSound, Storing
  <2> QED BY <2>1, <2>6 DEF Becomes
<1>6. ASSUME InitUnderLock(p)
      PROVE  \E o : Becomes(p, o)
  <2> PICK o : o = [op[p] EXCEPT !.stage = "saving"]
    OBVIOUS
  <2>1. op' = [op EXCEPT ![p] = o] /\ op[p] # None /\ op[p].edit = None
        /\ op[p].stage = "waiting"
    BY <1>6 DEF InitUnderLock, Step, At
  <2>2. /\ o \in Op /\ o.stage = "saving" /\ o.copy = op[p].copy /\ o.path = op[p].path
        /\ o.edit = None /\ o.name = op[p].name /\ o.key = op[p].key /\ o.old = op[p].old
    BY <1>0, <2>1 DEF Op, Stages
  <2>3. PICK c : c = op[p].copy /\ c \in Firsts /\ c # None /\ KeysOf(c) \subseteq issued'
    BY <1>0, <1>1, <2>1, FirstConfigValid DEF OpSound, Storing, Firsts
  <2>4. OpSound(p, o)'
    BY <1>0, <2>1, <2>2, <2>3 DEF OpSound, Storing, KeysOf
  <2> QED BY <2>1, <2>4 DEF Becomes
<1>7. ASSUME EditRefused(p) \/ InitRefused(p) \/ InitFails(p) \/ SaveFails(p) \/ Crash(p)
      PROVE  \E o : Becomes(p, o)
  BY <1>7 DEF EditRefused, InitRefused, InitFails, SaveFails, Crash, Done, Becomes
<1> QED BY <1>2, <1>3, <1>4, <1>5, <1>6, <1>7

\* The steps that save the file.
LEMMA SavingOps ==
    ASSUME TypeOK, FileInv, NEW p \in Processes, SaveEdit(p) \/ SaveFirst(p)
    PROVE  FileStays /\ \E o : Becomes(p, o)
<1> USE ConfigAssumption, StoreAssumption
<1>0. /\ op \in [Processes -> Op \cup {None}] /\ file \in Config \cup {None}
      /\ op[p] # None /\ OpSound(p, op[p]) /\ op[p] \in Op /\ op[p].stage = "saving"
  BY DEF TypeOK, FileInv, OpsSound, SaveEdit, SaveFirst, At
<1>1. /\ op[p].copy # None /\ op[p].copy \in Config /\ file' = op[p].copy
      /\ issued' = issued
  BY <1>0 DEF OpSound, Op, SaveEdit, SaveFirst, Replace
<1>2. FileStays /\ file' # None
  BY <1>1 DEF FileStays
<1>3. CASE SaveFirst(p)
  <2>1. op[p].edit = None
    BY <1>3 DEF SaveFirst
  <2>2. CASE p = Desktop
    <3> PICK o : o = [op[p] EXCEPT !.stage = "storing", !.copy = None]
      OBVIOUS
    <3>1. op' = [op EXCEPT ![p] = o]
      BY <1>3, <2>2 DEF SaveFirst, Step
    <3>2. /\ o \in Op /\ o.stage = "storing" /\ o.path = op[p].path
          /\ o.edit = None /\ o.name = op[p].name /\ o.key = op[p].key /\ o.old = op[p].old
      BY <1>0, <2>1 DEF Op, Stages
    <3>3. OpSound(p, o)'
      BY <1>0, <1>2, <2>1, <2>2, <3>2 DEF OpSound, Storing
    <3> QED BY <1>2, <3>1, <3>3 DEF Becomes
  <2>3. CASE p # Desktop
    BY <1>2, <1>3, <2>3 DEF SaveFirst, Done, Becomes
  <2> QED BY <2>2, <2>3
<1>4. CASE SaveEdit(p)
  <2> PICK e : e = op[p].edit
    OBVIOUS
  <2> PICK key : key = KeyAfter(op[p].copy, e)
    OBVIOUS
  <2>1. e \in Edit /\ WellFormed(e) /\ e # None /\ e \in Edits
    BY <1>0, <1>4 DEF OpSound, SaveEdit
  <2>2. CASE p = Desktop /\ key # None
    <3> PICK o : o = [op[p] EXCEPT !.stage = "storing", !.copy = None, !.key = key,
                                   !.name = NameAfter(e),
                                   !.old = IF e.type = "rename" THEN e.name ELSE None]
      OBVIOUS
    <3>1. op' = [op EXCEPT ![p] = o]
      BY <1>4, <2>2 DEF SaveEdit, Step
    <3>2. NameAfter(e) \in Names /\ key \in Keys /\ e.name \in Names
      BY <1>1, <2>1, <2>2 DEF NameAfter, KeyAfter, Edit, WellFormed, Config
    <3>3. e.type = "rename" => NameAfter(e) # e.name
      <4>1. PICK k : Applicable(file, e, k)
        BY <1>0, <2>1 DEF FileInv, SavesAreEdits, At
      <4> QED BY <4>1, RenameApplies DEF NameAfter
    <3>4. /\ o \in Op /\ o.stage = "storing" /\ o.path = op[p].path /\ o.edit = e
          /\ o.name = NameAfter(e) /\ o.key = key
          /\ o.old = IF e.type = "rename" THEN e.name ELSE None
      BY <1>0, <2>1, <3>2 DEF Op, Stages
    <3>5. OpSound(p, o)'
      BY <1>0, <1>2, <2>1, <2>2, <3>2, <3>3, <3>4 DEF OpSound, Storing
    <3> QED BY <1>2, <3>1, <3>5 DEF Becomes
  <2>3. CASE ~(p = Desktop /\ key # None)
    BY <1>2, <1>4, <2>3 DEF SaveEdit, Done, Becomes
  <2> QED BY <2>2, <2>3
<1> QED BY <1>3, <1>4

\* The steps that store and delete keys.
LEMMA StoringOps ==
    ASSUME TypeOK, FileInv,
           \/ StoreInKeychain(Desktop) \/ StoreInFile(Desktop) \/ StoreFails(Desktop)
           \/ NothingToMove(Desktop) \/ ClearKeychain(Desktop) \/ ClearFile(Desktop)
    PROVE  FileStays /\ \E o : Becomes(Desktop, o)
<1> USE ConfigAssumption, StoreAssumption
<1>0. /\ op \in [Processes -> Op \cup {None}]
      /\ op[Desktop] # None => OpSound(Desktop, op[Desktop]) /\ op[Desktop] \in Op
  BY DEF TypeOK, FileInv, OpsSound
<1>1. file' = file /\ issued' = issued
  BY DEF StoreInKeychain, StoreInFile, StoreFails, NothingToMove, ClearKeychain, ClearFile, disk
<1>2. FileStays
  BY <1>1 DEF FileStays
<1>3. CASE Done(Desktop)
  BY <1>2, <1>3 DEF Done, Becomes
<1>4. CASE ~Done(Desktop)
  <2> DEFINE Clears(o) ==
               /\ op' = [op EXCEPT ![Desktop] = o]
               /\ o \in Op /\ o.stage \in {"clearing keychain", "clearing file"}
               /\ o.path = op[Desktop].path /\ o.edit = op[Desktop].edit
               /\ o.name = op[Desktop].name /\ o.key = op[Desktop].key
               /\ o.old = op[Desktop].old /\ o.old # None
               /\ op[Desktop].stage \in Storing
  <2>1. /\ op[Desktop] # None
        /\ \E cleared \in BOOLEAN :
              \/ /\ Step(Desktop, [op[Desktop] EXCEPT !.stage = "clearing keychain"])
                 /\ op[Desktop].stage = "storing" /\ op[Desktop].old # None
              \/ /\ Step(Desktop, [op[Desktop] EXCEPT !.stage = "clearing file",
                                                      !.cleared = cleared])
                 /\ op[Desktop].stage = "clearing keychain"
    BY <1>4 DEF StoreInKeychain, StoreInFile, StoreFails, NothingToMove, ClearKeychain,
                ClearFile, StoredKey, At
  <2>2. \E o : Clears(o)
    <3>1. CASE Step(Desktop, [op[Desktop] EXCEPT !.stage = "clearing keychain"])
               /\ op[Desktop].stage = "storing" /\ op[Desktop].old # None
      <4> WITNESS [op[Desktop] EXCEPT !.stage = "clearing keychain"]
      <4> QED BY <1>0, <2>1, <3>1 DEF Op, Stages, Step, Storing
    <3>2. ASSUME NEW cleared \in BOOLEAN,
                 Step(Desktop, [op[Desktop] EXCEPT !.stage = "clearing file",
                                                   !.cleared = cleared]),
                 op[Desktop].stage = "clearing keychain"
          PROVE  \E o : Clears(o)
      <4>1. op[Desktop].old # None
        BY <1>0, <2>1, <3>2 DEF OpSound, Storing
      <4> WITNESS [op[Desktop] EXCEPT !.stage = "clearing file", !.cleared = cleared]
      <4> QED BY <1>0, <2>1, <3>2, <4>1 DEF Op, Stages, Step, Storing
    <3> QED BY <2>1, <3>1, <3>2
  <2> PICK o : Clears(o)
    BY <2>2
  <2>3. OpSound(Desktop, o)'
    BY <1>0, <1>1, <2>1, <2>2 DEF OpSound, Storing
  <2> QED BY <1>2, <2>2, <2>3 DEF Becomes
<1> QED BY <1>3, <1>4

\* Every step keeps the file once there is one, and keeps every operation sound.
LEMMA OpsStep ==
    ASSUME TypeOK, FileInv, [Next]_vars
    PROVE  op' \in [Processes -> Op \cup {None}] /\ OpsSound'
<1> USE StoreAssumption
<1>0. op \in [Processes -> Op \cup {None}] /\ OpsSound
  BY DEF TypeOK, FileInv
<1>1. ASSUME NEW p \in Processes, NEW o, FileStays, Becomes(p, o)
      PROVE  op' \in [Processes -> Op \cup {None}] /\ OpsSound'
  <2>1. op' = [op EXCEPT ![p] = o] /\ (o = None \/ OpSound(p, o)') /\ (o = None \/ o \in Op)
    BY <1>1 DEF Becomes, OpSound
  <2>2. op' \in [Processes -> Op \cup {None}]
    BY <1>0, <2>1
  <2>3. ASSUME NEW q \in Processes, op'[q] # None PROVE OpSound(q, op[q])'
    <3>1. CASE q = p
      <4>1. op'[q] = o
        BY <1>0, <2>1, <3>1
      <4> QED BY <2>1, <2>3, <3>1, <4>1 DEF OpSound
    <3>2. CASE q # p
      <4>1. op'[q] = op[q]
        BY <1>0, <2>1, <3>2
      <4>2. OpSound(q, op[q])
        BY <1>0, <2>3, <4>1 DEF OpsSound
      <4> QED BY <1>1, <4>1, <4>2, SoundStays DEF OpSound, KeysOf
    <3> QED BY <3>1, <3>2
  <2> QED BY <2>2, <2>3 DEF OpsSound
<1>2. CASE Next
  BY <1>1, <1>2, NextCases, QuietOps, SavingOps, StoringOps
<1>3. CASE UNCHANGED vars
  BY <1>0, <1>3 DEF vars, OpsSound, OpSound, KeysOf
<1> QED BY <1>2, <1>3

-----------------------------------------------------------------------------
(* The invariant of the file is kept. *)

FileParts == SaverHoldsLock /\ SavesAreEdits /\ LoserLeavesNoTrace /\ FileSound

\* A step that leaves the file alone and lets no one start to save.
Quiet ==
    /\ file' = file /\ used' = used /\ issued \subseteq issued'
    /\ \A q \in Processes :
          At(q, "saving")' => /\ At(q, "saving") /\ op'[q] = op[q]
                              /\ lock[ConfigPath] = q => lock'[ConfigPath] = q

\* Steps that touch neither the file nor a copy of it.
LEMMA QuietKeeps ==
    ASSUME FileParts, Quiet
    PROVE  FileParts'
<1>1. SaverHoldsLock'
  BY DEF FileParts, Quiet, SaverHoldsLock
<1>2. SavesAreEdits'
  <2> SUFFICES ASSUME NEW p \in Processes, At(p, "saving")', op'[p].edit # None
               PROVE  /\ file' # None
                      /\ \E key \in (Keys \ used') \cup {None} :
                            /\ Applicable(file', op'[p].edit, key)
                            /\ op'[p].copy = Apply(file', op'[p].edit, key)
                            /\ key = None \/ key \in issued'
    BY DEF SavesAreEdits, Applicable
  <2>1. op'[p] = op[p] /\ At(p, "saving")
    BY DEF Quiet
  <2> QED BY <2>1 DEF FileParts, SavesAreEdits, Quiet
<1>3. LoserLeavesNoTrace'
  BY DEF FileParts, Quiet, LoserLeavesNoTrace
<1>4. FileSound'
  BY DEF FileParts, Quiet, FileSound, KeysOf, Valid, Registered
<1> QED BY <1>1, <1>2, <1>3, <1>4 DEF FileParts

\* Most steps are quiet.
LEMMA QuietSteps ==
    ASSUME TypeOK, FileInv,
           \/ \E p \in Processes :
                 \/ \E path \in Paths, e \in Edits : BeginEdit(p, path, e)
                 \/ \E path \in Paths, key \in NewKeys : BeginInit(p, path, key)
                 \/ EditRefused(p) \/ InitRefused(p) \/ InitFails(p)
                 \/ SaveFails(p) \/ Crash(p)
           \/ StoreInKeychain(Desktop) \/ StoreInFile(Desktop) \/ StoreFails(Desktop)
           \/ NothingToMove(Desktop) \/ ClearKeychain(Desktop) \/ ClearFile(Desktop)
    PROVE  Quiet
<1> USE StoreAssumption
<1>0. op \in [Processes -> Op \cup {None}] /\ lock \in [Paths -> Processes \cup {None}]
  BY DEF TypeOK
<1>1. ASSUME NEW p \in Processes,
             \/ \E path \in Paths, e \in Edits : BeginEdit(p, path, e)
             \/ \E path \in Paths, key \in NewKeys : BeginInit(p, path, key)
             \/ EditRefused(p) \/ InitRefused(p) \/ InitFails(p)
      PROVE  Quiet
  BY <1>0, <1>1 DEF BeginEdit, BeginInit, EditRefused, InitRefused, InitFails, Step, Done,
                    disk, Quiet, At
<1>2. ASSUME NEW p \in Processes, SaveFails(p) \/ Crash(p)
      PROVE  Quiet
  <2>1. file' = file /\ used' = used /\ issued' = issued /\ Done(p) /\ Release(p)
    BY <1>2 DEF SaveFails, Crash
  <2>2. ASSUME NEW q \in Processes, At(q, "saving")'
        PROVE  /\ At(q, "saving") /\ op'[q] = op[q]
               /\ lock[ConfigPath] = q => lock'[ConfigPath] = q
    <3>1. q # p /\ op'[q] = op[q]
      BY <1>0, <2>1, <2>2 DEF At, Done
    <3> QED BY <1>0, <2>1, <2>2, <3>1 DEF At, Release
  <2> QED BY <2>1, <2>2 DEF Quiet
<1>3. ASSUME \/ StoreInKeychain(Desktop) \/ StoreInFile(Desktop) \/ StoreFails(Desktop)
             \/ NothingToMove(Desktop) \/ ClearKeychain(Desktop) \/ ClearFile(Desktop)
      PROVE  Quiet
  <2>1. file' = file /\ lock' = lock /\ used' = used /\ issued' = issued
    BY <1>3 DEF StoreInKeychain, StoreInFile, StoreFails, NothingToMove, ClearKeychain,
                ClearFile, disk
  <2>2. op[Desktop] # None /\ op[Desktop] \in Op
    BY <1>0, <1>3 DEF StoreInKeychain, StoreInFile, StoreFails, NothingToMove, ClearKeychain,
                      ClearFile, At
  <2>3. \/ Done(Desktop)
        \/ Step(Desktop, [op[Desktop] EXCEPT !.stage = "clearing keychain"])
        \/ \E cleared \in BOOLEAN :
              Step(Desktop, [op[Desktop] EXCEPT !.stage = "clearing file", !.cleared = cleared])
    BY <1>3 DEF StoreInKeychain, StoreInFile, StoreFails, NothingToMove, ClearKeychain,
                ClearFile, StoredKey
  <2>4. ASSUME NEW q \in Processes, At(q, "saving")'
        PROVE  At(q, "saving") /\ op'[q] = op[q]
    <3>1. q # Desktop
      <4>1. op'[Desktop] = None \/ op'[Desktop].stage # "saving"
        <5>1. ASSUME NEW cleared \in BOOLEAN,
                     Step(Desktop, [op[Desktop] EXCEPT !.stage = "clearing file",
                                                       !.cleared = cleared])
              PROVE  op'[Desktop].stage # "saving"
          BY <1>0, <2>2, <5>1 DEF Step, Op
        <5>2. ASSUME Step(Desktop, [op[Desktop] EXCEPT !.stage = "clearing keychain"])
              PROVE  op'[Desktop].stage # "saving"
          BY <1>0, <2>2, <5>2 DEF Step, Op
        <5>3. Done(Desktop) => op'[Desktop] = None
          BY <1>0 DEF Done
        <5> QED BY <2>3, <5>1, <5>2, <5>3
      <4> QED BY <2>4, <4>1 DEF At
    <3> QED BY <1>0, <2>3, <2>4, <3>1 DEF At, Done, Step
  <2> QED BY <2>1, <2>4 DEF Quiet
<1> QED BY <1>1, <1>2, <1>3

\* Taking the free lock: no one else is saving.
LEMMA LockingKeeps ==
    ASSUME TypeOK, FileInv, NEW p \in Processes,
           (\E key \in NewKeys : EditUnderLock(p, key)) \/ InitUnderLock(p)
    PROVE  FileParts'
<1> USE ConfigAssumption, StoreAssumption
<1>0. /\ op \in [Processes -> Op \cup {None}] /\ lock \in [Paths -> Processes \cup {None}]
      /\ op[p] # None /\ op[p] \in Op /\ OpSound(p, op[p]) /\ FileParts
      /\ file \in Config \cup {None} /\ used \subseteq Keys
  BY DEF TypeOK, FileInv, FileParts, OpsSound, EditUnderLock, InitUnderLock, At
<1>1. LockFile(op[p].path) = ConfigPath
  BY <1>0 DEF OpSound, LockFile
<1>2. lock[ConfigPath] = None /\ lock'[ConfigPath] = p
  BY <1>0, <1>1 DEF EditUnderLock, InitUnderLock, LockFree, Take
<1>3. file' = file /\ used' = used /\ issued \subseteq issued'
  BY DEF EditUnderLock, InitUnderLock
<1>4. \A q \in Processes : At(q, "saving")' => q = p
  <2> SUFFICES ASSUME NEW q \in Processes, At(q, "saving")', q # p PROVE FALSE
    OBVIOUS
  <2>1. op'[q] = op[q]
    BY <1>0 DEF EditUnderLock, InitUnderLock, Step
  <2> QED BY <1>0, <1>2, <2>1 DEF At, FileParts, SaverHoldsLock
<1>5. SaverHoldsLock'
  BY <1>2, <1>4 DEF SaverHoldsLock
<1>6. FileSound'
  BY <1>0, <1>3 DEF FileParts, FileSound, KeysOf, Valid, Registered
<1>7. CASE InitUnderLock(p)
  <2>1. op'[p].edit = None /\ file' = None
    BY <1>0, <1>3, <1>7 DEF InitUnderLock, Step, Absent, Op
  <2> QED BY <1>4, <1>5, <1>6, <2>1 DEF FileParts, SavesAreEdits, LoserLeavesNoTrace
<1>8. ASSUME NEW key \in NewKeys, EditUnderLock(p, key)
      PROVE  FileParts'
  <2> PICK e : e = op[p].edit
    OBVIOUS
  <2>1. /\ op'[p].edit = e /\ e # None /\ op'[p].copy = Apply(file, e, key)
        /\ CanApply(file, e) /\ (e.issues <=> key # None) /\ issued' = issued \cup ({key} \ {None})
    BY <1>0, <1>8 DEF EditUnderLock, Step, Op
  <2>2. file # None /\ e \in Edit /\ WellFormed(e)
    BY <1>0, <2>1 DEF OpSound
  <2>3. key \in (Keys \ used) \cup {None}
    BY <1>0 DEF NewKeys, FileParts, FileSound
  <2>4. Applicable(file, e, key)
    BY <1>0, <2>1, <2>2, <2>3 DEF Applicable
  <2>5. Applicable(file', e, key) /\ op'[p].copy = Apply(file', e, key)
    BY <1>3, <2>1, <2>4
  <2>6. SavesAreEdits'
    BY <1>3, <1>4, <2>1, <2>2, <2>3, <2>5 DEF SavesAreEdits
  <2> QED BY <1>4, <1>5, <1>6, <2>1, <2>6 DEF FileParts, LoserLeavesNoTrace
<1> QED BY <1>7, <1>8

\* Saving: the file becomes a valid configuration, and no one else was about to save.
LEMMA SavingKeeps ==
    ASSUME TypeOK, FileInv, NEW p \in Processes, SaveEdit(p) \/ SaveFirst(p)
    PROVE  FileParts'
<1> USE ConfigAssumption, StoreAssumption
<1>0. /\ op \in [Processes -> Op \cup {None}] /\ lock \in [Paths -> Processes \cup {None}]
      /\ op[p] # None /\ op[p] \in Op /\ OpSound(p, op[p]) /\ FileParts /\ At(p, "saving")
      /\ file \in Config \cup {None} /\ op[p].stage = "saving"
  BY DEF TypeOK, FileInv, FileParts, OpsSound, SaveEdit, SaveFirst, At
<1>1. /\ file' = op[p].copy /\ file' # None /\ used' = used \cup KeysOf(file')
      /\ issued' = issued
  BY <1>0 DEF SaveEdit, SaveFirst, Replace, OpSound, KeysOf
<1>2. \A q \in Processes : ~At(q, "saving")'
  <2> SUFFICES ASSUME NEW q \in Processes, At(q, "saving")' PROVE FALSE
    OBVIOUS
  <2>1. q # p
    <3>1. op'[p] = None \/ op'[p].stage = "storing"
      <4>1. ASSUME SaveFirst(p), ~Done(p)
            PROVE  op'[p].stage = "storing"
        <5>1. op' = [op EXCEPT ![p] = [op[p] EXCEPT !.stage = "storing", !.copy = None]]
          BY <4>1 DEF SaveFirst, Step
        <5> QED BY <1>0, <5>1 DEF Op
      <4>2. ASSUME SaveEdit(p), ~Done(p)
            PROVE  op'[p].stage = "storing"
        <5>1. PICK k, n, x : op' = [op EXCEPT ![p] =
                  [op[p] EXCEPT !.stage = "storing", !.copy = None, !.key = k, !.name = n,
                                !.old = x]]
          BY <4>2 DEF SaveEdit, Step
        <5> QED BY <1>0, <5>1 DEF Op
      <4>3. CASE Done(p)
        BY <1>0, <4>3 DEF Done
      <4> QED BY <4>1, <4>2, <4>3
    <3> QED BY <3>1 DEF At
  <2>2. op'[q] = op[q]
    BY <1>0, <2>1 DEF SaveEdit, SaveFirst, Step, Done
  <2> QED BY <1>0, <2>1, <2>2 DEF At, FileParts, SaverHoldsLock
<1>3. Valid(file') /\ KeysOf(file') \subseteq issued
  <2>1. CASE SaveFirst(p)
    <3>1. op[p].copy \in Firsts /\ KeysOf(op[p].copy) \subseteq issued
      BY <1>0, <2>1 DEF SaveFirst, OpSound, Storing
    <3>2. Valid(op[p].copy)
      BY <3>1, FirstConfigValid DEF Firsts
    <3> QED BY <1>1, <3>1, <3>2 DEF KeysOf, Valid, Registered
  <2>2. CASE SaveEdit(p)
    <3> PICK e : e = op[p].edit
      OBVIOUS
    <3>1. PICK key \in (Keys \ used) \cup {None} :
             /\ Applicable(file, e, key)
             /\ op[p].copy = Apply(file, e, key)
             /\ key = None \/ key \in issued
      BY <1>0, <2>2 DEF FileParts, SavesAreEdits, SaveEdit
    <3>2. /\ file \in Config /\ file # None /\ Valid(file) /\ KeysOf(file) \subseteq used
          /\ used \subseteq issued /\ key \notin KeysOf(file)
      BY <1>0, <3>1 DEF Applicable, FileParts, FileSound, KeysOf
    <3>3. Valid(op[p].copy)
      BY <3>1, <3>2, ApplyValid
    <3>4. \A n \in Names : op[p].copy.keys[n] \in issued \cup {None}
      <4>1. ASSUME NEW n \in Names, op[p].copy.keys[n] # None
            PROVE  op[p].copy.keys[n] \in issued
        <5>1. Before(e, n) \in Names
          BY <3>1 DEF Before, Applicable, Edit
        <5>2. op[p].copy.keys[n] = key \/ op[p].copy.keys[n] = file.keys[Before(e, n)]
          BY <3>1, <4>1, ApplyKeys
        <5> QED BY <3>1, <3>2, <4>1, <5>1, <5>2 DEF KeysOf
      <4> QED BY <4>1
    <3> QED BY <1>1, <3>3, <3>4 DEF KeysOf, Valid, Registered
  <2> QED BY <2>1, <2>2
<1>4. FileSound'
  BY <1>0, <1>1, <1>3 DEF FileParts, FileSound
<1> QED BY <1>2, <1>4 DEF FileParts, SaverHoldsLock, SavesAreEdits, LoserLeavesNoTrace

-----------------------------------------------------------------------------
(* Types. *)

LEMMA TypesKept ==
    ASSUME TypeOK, FileInv, [Next]_vars
    PROVE  TypeOK'
<1> USE ConfigAssumption, StoreAssumption
<1>0. op' \in [Processes -> Op \cup {None}]
  BY OpsStep
<1>1. ASSUME NEW p \in Processes,
             \/ \E path \in Paths, e \in Edits : BeginEdit(p, path, e)
             \/ \E path \in Paths, key \in NewKeys : BeginInit(p, path, key)
             \/ EditRefused(p) \/ InitRefused(p) \/ InitFails(p)
      PROVE  TypeOK'
  BY <1>0, <1>1 DEF BeginEdit, BeginInit, EditRefused, InitRefused, InitFails, disk, vault,
                    database, TypeOK, NewKeys
<1>2. ASSUME NEW p \in Processes, SaveFails(p) \/ Crash(p)
      PROVE  TypeOK'
  <2>1. lock' \in [Paths -> Processes \cup {None}]
    BY <1>2 DEF SaveFails, Crash, Release, TypeOK
  <2> QED BY <1>0, <1>2, <2>1 DEF SaveFails, Crash, vault, database, TypeOK
<1>3. ASSUME NEW p \in Processes, (\E key \in NewKeys : EditUnderLock(p, key)) \/ InitUnderLock(p)
      PROVE  TypeOK'
  <2>1. lock' \in [Paths -> Processes \cup {None}]
    BY <1>3 DEF EditUnderLock, InitUnderLock, Take, TypeOK
  <2>2. affiliations' \subseteq {Affiliation[q] : q \in Processes}
    BY <1>3 DEF EditUnderLock, InitUnderLock, InitializeDatabase, database, TypeOK
  <2> QED BY <1>0, <1>3, <2>1, <2>2 DEF EditUnderLock, InitUnderLock, vault, TypeOK, NewKeys
<1>4. ASSUME NEW p \in Processes, SaveEdit(p) \/ SaveFirst(p)
      PROVE  TypeOK'
  <2>1. op[p] # None /\ OpSound(p, op[p]) /\ op[p].stage = "saving"
    BY <1>4 DEF TypeOK, FileInv, OpsSound, SaveEdit, SaveFirst, At
  <2>2. op[p].copy \in Config /\ Replace(op[p].copy)
    BY <1>4, <2>1 DEF OpSound, Op, SaveEdit, SaveFirst
  <2>3. KeysOf(op[p].copy) \subseteq Keys
    BY <2>2 DEF KeysOf, Config
  <2>4. file' \in Config /\ used' \subseteq Keys /\ promised' \subseteq Names \X Keys
    BY <2>2, <2>3 DEF Replace, TypeOK
  <2>5. lock' \in [Paths -> Processes \cup {None}]
    BY <1>4 DEF SaveEdit, SaveFirst, Release, TypeOK
  <2> QED BY <1>0, <1>4, <2>4, <2>5 DEF SaveEdit, SaveFirst, vault, database, TypeOK
<1>5. ASSUME \/ StoreInKeychain(Desktop) \/ StoreInFile(Desktop) \/ StoreFails(Desktop)
             \/ NothingToMove(Desktop) \/ ClearKeychain(Desktop) \/ ClearFile(Desktop)
      PROVE  TypeOK'
  <2> PICK o : o = op[Desktop]
    OBVIOUS
  <2>1. o # None /\ OpSound(Desktop, o) /\ o.stage \in Storing
    BY <1>5 DEF StoreInKeychain, StoreInFile, StoreFails, NothingToMove, ClearKeychain,
                ClearFile, At, Storing, TypeOK, FileInv, OpsSound
  <2>2. o.name \in Names /\ o.key \in Keys /\ o.old \in Names \cup {None}
    BY <2>1 DEF OpSound, Op
  <2>3. file' = file /\ lock' = lock /\ used' = used /\ issued' = issued
        /\ affiliations' = affiliations
    BY <1>5 DEF StoreInKeychain, StoreInFile, StoreFails, NothingToMove, ClearKeychain,
                ClearFile, disk, database
  <2>4. keychain' \in [Names -> Keys \cup {None}] /\ keyfile' \in [Names -> Keys \cup {None}]
    BY <1>5, <2>2 DEF StoreInKeychain, StoreInFile, StoreFails, NothingToMove, ClearKeychain,
                      ClearFile, vault, TypeOK
  <2>5. reply' \in [old : Names, key : Keys, error : BOOLEAN] \cup {None}
    <3>1. reply' = reply \/ \E error \in BOOLEAN : Answer(Desktop, error)
      BY <1>5 DEF StoreInKeychain, StoreInFile, StoreFails, NothingToMove, ClearKeychain,
                  ClearFile, Op, TypeOK
    <3>2. ASSUME NEW error \in BOOLEAN, Answer(Desktop, error)
          PROVE  reply' = reply \/ reply' \in [old : Names, key : Keys, error : BOOLEAN]
      BY <2>2, <3>2 DEF Answer
    <3> QED BY <3>1, <3>2 DEF TypeOK
  <2>6. promised' \subseteq Names \X Keys
    <3>1. promised' = promised \/ Promise(o.name, o.key)
      BY <1>5 DEF StoreInKeychain, StoreInFile, StoreFails, NothingToMove, ClearKeychain,
                  ClearFile, StoredKey, disk
    <3> QED BY <2>2, <3>1 DEF Promise, TypeOK
  <2> QED BY <1>0, <2>3, <2>4, <2>5, <2>6 DEF TypeOK
<1>6. CASE UNCHANGED vars
  BY <1>6 DEF vars, TypeOK
<1> QED BY <1>1, <1>2, <1>3, <1>4, <1>5, <1>6, NextCases

LEMMA Initially ==
    ASSUME Init
    PROVE  TypeOK /\ FileInv
<1> USE ConfigAssumption, StoreAssumption
<1>1. KeysOf(Start) \subseteq Keys
  BY DEF KeysOf, Config
<1>2. TypeOK
  BY <1>1 DEF Init, TypeOK
<1>3. \A p \in Processes : op[p] = None
  BY DEF Init
<1>4. FileSound
  BY DEF Init, FileSound, KeysOf
<1> QED BY <1>2, <1>3, <1>4 DEF FileInv, OpsSound, SaverHoldsLock, SavesAreEdits,
                                LoserLeavesNoTrace, At

LEMMA FileInvKept ==
    ASSUME TypeOK, FileInv, [Next]_vars
    PROVE  FileInv'
<1>1. OpsSound'
  BY OpsStep
<1>2. FileParts'
  <2>1. FileParts
    BY DEF FileInv, FileParts
  <2>2. CASE UNCHANGED vars
    <3>1. Quiet
      BY <2>2 DEF vars, Quiet, At
    <3> QED BY <2>1, <3>1, QuietKeeps
  <2>3. CASE Next
    BY <2>1, <2>3, NextCases, QuietSteps, QuietKeeps, LockingKeeps, SavingKeeps
  <2> QED BY <2>2, <2>3
<1> QED BY <1>1, <1>2 DEF FileInv, FileParts

\* The invariant of the file holds in every behaviour.
THEOREM FileInvariant == Spec => [](TypeOK /\ FileInv)
<1>1. Init => TypeOK /\ FileInv
  BY Initially
<1>2. TypeOK /\ FileInv /\ [Next]_vars => (TypeOK /\ FileInv)'
  BY TypesKept, FileInvKept
<1> QED BY <1>1, <1>2, PTL DEF Spec

\* In every behaviour the variables have their types, whatever the number of processes,
\* clients, keys and paths.
THEOREM TypeCorrect == Spec => []TypeOK
BY FileInvariant, PTL

\* Two concurrent first runs never both write the database of one library: the one that
\* has written it finds no file when it publishes.
THEOREM NoTraceOfTheLoser == Spec => []LoserLeavesNoTrace
<1>1. FileInv => LoserLeavesNoTrace
  BY DEF FileInv
<1> QED BY <1>1, FileInvariant, PTL

\* What the holder of the lock is about to save is one applicable edit of the file, with
\* a key the file has not held, or a first configuration: nothing else becomes the file.
LEMMA WhatIsSaved ==
    ASSUME TypeOK, FileInv, NEW p \in Processes, At(p, "saving")
    PROVE  /\ op[p].copy \in Config /\ Valid(op[p].copy)
           /\ \/ /\ op[p].edit = None /\ file = None /\ used = {} /\ op[p].copy \in Firsts
              \/ /\ op[p].edit # None /\ file \in Config /\ file # None /\ Valid(file)
                 /\ \E key \in (Keys \ used) \cup {None} :
                       /\ Applicable(file, op[p].edit, key) /\ key \notin KeysOf(file)
                       /\ op[p].copy = Apply(file, op[p].edit, key)
<1> USE ConfigAssumption
<1>1. op[p] # None /\ OpSound(p, op[p]) /\ op[p].stage = "saving"
  BY DEF At, FileInv, OpsSound
<1>2. op[p].copy \in Config
  BY <1>1 DEF OpSound, Op
<1>3. CASE op[p].edit = None
  <2>1. op[p].copy \in Firsts /\ file = None /\ used = {}
    BY <1>1, <1>3 DEF OpSound, Storing, FileInv, LoserLeavesNoTrace, FileSound
  <2>2. Valid(op[p].copy)
    BY <2>1, FirstConfigValid DEF Firsts
  <2> QED BY <1>2, <1>3, <2>1, <2>2
<1>4. CASE op[p].edit # None
  <2> PICK e : e = op[p].edit
    OBVIOUS
  <2>1. PICK key \in (Keys \ used) \cup {None} :
           /\ Applicable(file, e, key) /\ op[p].copy = Apply(file, e, key)
    BY <1>4 DEF FileInv, SavesAreEdits
  <2>2. file \in Config /\ file # None /\ Valid(file) /\ key \notin KeysOf(file)
    BY <2>1 DEF Applicable, FileInv, FileSound, KeysOf
  <2>3. Valid(op[p].copy)
    BY <2>1, <2>2, ApplyValid
  <2> QED BY <1>2, <1>4, <2>1, <2>2, <2>3
<1> QED BY <1>3, <1>4

\* No edit of a valid configuration is ever about to save an invalid one.
THEOREM EditsAlwaysValid == Spec => []EditsStayValid
<1>1. TypeOK /\ FileInv => EditsStayValid
  BY WhatIsSaved DEF EditsStayValid
<1> QED BY <1>1, FileInvariant, PTL

\* A step changes the file only by saving.
LEMMA FileStep ==
    ASSUME TypeOK, FileInv, [Next]_vars
    PROVE  \/ file' = file /\ used' = used
           \/ \E p \in Processes : /\ At(p, "saving") /\ file' = op[p].copy
                                   /\ used' = used \cup KeysOf(op[p].copy)
<1>1. CASE UNCHANGED vars
  BY <1>1 DEF vars
<1>2. ASSUME NEW p \in Processes, SaveEdit(p) \/ SaveFirst(p)
      PROVE  /\ At(p, "saving") /\ file' = op[p].copy
             /\ used' = used \cup KeysOf(op[p].copy)
  BY <1>2 DEF SaveEdit, SaveFirst, Replace
<1>3. ASSUME NEW p \in Processes,
             (\E key \in NewKeys : EditUnderLock(p, key)) \/ InitUnderLock(p)
      PROVE  file' = file /\ used' = used
  BY <1>3 DEF EditUnderLock, InitUnderLock
<1>4. Quiet => file' = file /\ used' = used
  BY DEF Quiet
<1> QED BY <1>1, <1>2, <1>3, <1>4, NextCases, QuietSteps

\* A key that was replaced never comes back into the file, whichever commands race.
THEOREM ReplacedKeysNeverReturn == Spec => ReplacedKeysStayOut
<1> USE ConfigAssumption
<1>1. ASSUME TypeOK, FileInv, [Next]_vars
      PROVE  (KeysOf(file') \ KeysOf(file)) \cap used = {}
  <2>1. CASE file' = file
    BY <2>1
  <2>2. ASSUME NEW p \in Processes, At(p, "saving"), file' = op[p].copy
        PROVE  (KeysOf(file') \ KeysOf(file)) \cap used = {}
    <3>1. CASE used = {}
      BY <3>1
    <3>2. ASSUME file \in Config, file # None,
                 NEW key \in (Keys \ used) \cup {None},
                 Applicable(file, op[p].edit, key), file' = Apply(file, op[p].edit, key)
          PROVE  (KeysOf(file') \ KeysOf(file)) \cap used = {}
      <4> PICK e : e = op[p].edit
        OBVIOUS
      <4>1. ASSUME NEW n \in Names, file'.keys[n] # None
            PROVE  file'.keys[n] = key \/ file'.keys[n] \in KeysOf(file)
        <5>1. Before(e, n) \in Names
          BY <3>2 DEF Before, Applicable, Edit
        <5>2. file'.keys[n] = key \/ file'.keys[n] = file.keys[Before(e, n)]
          BY <3>2, <4>1, ApplyKeys
        <5> QED BY <3>2, <4>1, <5>1, <5>2 DEF KeysOf
      <4>2. \A k \in KeysOf(file') : k = key \/ k \in KeysOf(file)
        BY <4>1 DEF KeysOf
      <4>3. None \notin KeysOf(file')
        BY DEF KeysOf
      <4> QED BY <4>2, <4>3
    <3> QED BY <1>1, <2>2, <3>1, <3>2, WhatIsSaved
  <2> QED BY <1>1, <2>1, <2>2, FileStep
<1> QED BY <1>1, FileInvariant, PTL DEF Spec, ReplacedKeysStayOut

\* Through every edit, a key keeps the role and the scope it was issued for.
THEOREM AuthorityIsKept == Spec => AuthorityKept
<1> USE ConfigAssumption
<1> DEFINE Kept == \A m, n \in Names :
              file # None /\ file' # None /\ file.keys[m] # None /\ file'.keys[n] = file.keys[m]
                  => file'.clients[n] = file.clients[m]
<1>1. ASSUME TypeOK, FileInv, [Next]_vars
      PROVE  Kept
  <2> SUFFICES ASSUME NEW m \in Names, NEW n \in Names, file # None, file' # None,
                      file.keys[m] # None, file'.keys[n] = file.keys[m]
               PROVE  file'.clients[n] = file.clients[m]
    OBVIOUS
  <2>1. CASE file' = file
    BY <1>1, <2>1 DEF FileInv, FileSound, Valid
  <2>2. ASSUME NEW p \in Processes, At(p, "saving"), file' = op[p].copy
        PROVE  file'.clients[n] = file.clients[m]
    <3>1. /\ Valid(file)
          /\ \E key \in (Keys \ used) \cup {None} :
                /\ Applicable(file, op[p].edit, key) /\ key \notin KeysOf(file)
                /\ file' = Apply(file, op[p].edit, key)
      BY <1>1, <2>2, WhatIsSaved
    <3> QED BY <3>1, ApplyAuthority
  <2> QED BY <1>1, <2>1, <2>2, FileStep
<1> QED BY <1>1, FileInvariant, PTL DEF Spec, AuthorityKept

\* The store implements the registry: it is created once, and every later change is one
\* whole edit, with a key never used, of what the previous one left.
THEOREM RegistryImplemented == Spec => ImplementsClientRegistry
<1> USE ConfigAssumption
<1>1. Init => Registry!Init
  BY DEF Init, Registry!Init, KeysOf, Registry!KeysOf
<1>2. ASSUME TypeOK, FileInv, [Next]_vars
      PROVE  [Registry!Next]_(Registry!vars)
  <2>1. CASE file' = file /\ used' = used
    BY <2>1 DEF Registry!vars
  <2>2. ASSUME NEW p \in Processes, At(p, "saving"), file' = op[p].copy,
               used' = used \cup KeysOf(file'), file' # file
        PROVE  Registry!Next
    <3>1. CASE op[p].edit = None
      <4>1. file = None /\ used = {} /\ file' \in Firsts
        BY <1>2, <2>2, <3>1, WhatIsSaved
      <4>2. Registry!Create
        BY <2>2, <4>1 DEF Registry!Create, Firsts, KeysOf, Registry!KeysOf
      <4> QED BY <4>2 DEF Registry!Next
    <3>2. CASE op[p].edit # None
      <4> PICK e : e = op[p].edit
        OBVIOUS
      <4>1. PICK key \in (Keys \ used) \cup {None} :
               Applicable(file, e, key) /\ file' = Apply(file, e, key)
        BY <1>2, <2>2, <3>2, WhatIsSaved
      <4>2. file # None
        BY <1>2, <2>2, <3>2, WhatIsSaved
      <4>3. /\ key \in (Keys \ used) \cup {None} /\ e \in Registry!Edit
            /\ Registry!WellFormed(e) /\ (e.issues <=> key # None)
        BY <4>1 DEF Applicable, Edit, WellFormed, Registry!Edit, Registry!WellFormed
      <4>4. Registry!CanApply(file, e)
        BY <4>1 DEF Applicable, CanApply, Registered, Registry!CanApply, Registry!Registered
      <4>5. file' = Registry!Apply(file, e, key)
        BY <4>1 DEF Apply, AddClient, Keygen, RenameClient, Moved, Registry!Apply,
                    Registry!AddClient, Registry!Keygen, Registry!RenameClient, Registry!Moved
      <4>6. used' = used \cup Registry!KeysOf(file')
        BY <2>2 DEF KeysOf, Registry!KeysOf
      <4>7. Registry!Change
        BY <2>2, <4>2, <4>3, <4>4, <4>5, <4>6 DEF Registry!Change
      <4> QED BY <4>7 DEF Registry!Next
    <3> QED BY <3>1, <3>2
  <2>3. file' = file /\ used' = used \cup KeysOf(file') => used' = used
    BY <1>2 DEF FileInv, FileSound
  <2> QED BY <1>2, <2>1, <2>2, <2>3, FileStep
<1> QED BY <1>1, <1>2, FileInvariant, PTL DEF Spec, ImplementsClientRegistry, Registry!Spec

-----------------------------------------------------------------------------
(* The stored keys. *)

Copies(n) == {keychain[n], keyfile[n]}

PromisesKept ==
    \A x \in promised : file # None /\ file.keys[x[1]] = x[2] /\ x[2] \in Copies(x[1])

\* While the desktop stores a key, no other key is promised under the name, and none
\* under the old one.
DesktopSound(o) ==
    /\ o.stage \in Storing =>
          \A x \in promised : (x[1] = o.name => x[2] = o.key) /\ x[1] # o.old
    /\ o.stage \in {"clearing keychain", "clearing file"} => o.key \in Copies(o.name)
    /\ o.stage = "clearing file" /\ o.cleared => keychain[o.old] = None

ReplySound ==
    reply # None =>
        /\ file # None /\ op[Desktop] = None
        /\ ~reply.error => reply.key \notin Copies(reply.old)

VaultInv ==
    /\ PromisesKept
    /\ op[Desktop] # None => DesktopSound(op[Desktop])
    /\ ReplySound

\* The steps that touch neither file nor stored keys nor what the desktop reported.
LEMMA VaultAlone ==
    ASSUME TypeOK, FileInv, VaultInv, NEW p \in Processes,
           \/ \E path \in Paths, e \in Edits : BeginEdit(p, path, e)
           \/ \E path \in Paths, key \in NewKeys : BeginInit(p, path, key)
           \/ \E key \in NewKeys : EditUnderLock(p, key)
           \/ EditRefused(p) \/ InitRefused(p) \/ InitUnderLock(p) \/ InitFails(p)
           \/ SaveFails(p) \/ Crash(p)
    PROVE  VaultInv'
<1> USE ConfigAssumption, StoreAssumption
<1>0. op \in [Processes -> Op \cup {None}]
  BY DEF TypeOK
<1>1. file' = file /\ keychain' = keychain /\ keyfile' = keyfile /\ promised' = promised
  BY DEF BeginEdit, BeginInit, EditUnderLock, EditRefused, InitRefused, InitUnderLock,
         InitFails, SaveFails, Crash, disk, vault
<1>2. PromisesKept'
  BY <1>1 DEF VaultInv, PromisesKept, Copies
<1>3. op'[Desktop] # None => DesktopSound(op[Desktop])'
  <2>1. CASE op'[Desktop] = op[Desktop]
    BY <1>1, <2>1 DEF VaultInv, DesktopSound, Copies
  <2>2. CASE op'[Desktop] # op[Desktop]
    <3>1. op'[Desktop] = None \/ op'[Desktop].stage \in {"waiting", "saving"}
      <4>1. p = Desktop
        BY <1>0, <2>2 DEF BeginEdit, BeginInit, EditUnderLock, EditRefused, InitRefused,
                          InitUnderLock, InitFails, SaveFails, Crash, Step, Done
      <4>2. ASSUME EditRefused(p) \/ InitRefused(p) \/ InitFails(p) \/ SaveFails(p) \/ Crash(p)
            PROVE  op'[Desktop] = None
        BY <1>0, <4>1, <4>2 DEF EditRefused, InitRefused, InitFails, SaveFails, Crash, Done
      <4>3. ASSUME \/ \E path \in Paths, e \in Edits : BeginEdit(p, path, e)
                   \/ \E path \in Paths, key \in NewKeys : BeginInit(p, path, key)
            PROVE  op'[Desktop].stage = "waiting"
        BY <1>0, <4>1, <4>3 DEF BeginEdit, BeginInit, Step
      <4>4. ASSUME NEW key \in NewKeys, EditUnderLock(p, key)
            PROVE  op'[Desktop].stage = "saving"
        BY <1>0, <4>1, <4>4 DEF EditUnderLock, Step, At, Op
      <4>5. ASSUME InitUnderLock(p)
            PROVE  op'[Desktop].stage = "saving"
        BY <1>0, <4>1, <4>5 DEF InitUnderLock, Step, At, Op
      <4> QED BY <4>2, <4>3, <4>4, <4>5
    <3> QED BY <3>1 DEF DesktopSound, Storing
  <2> QED BY <2>1, <2>2
<1>4. ReplySound'
  <2>1. CASE reply' = None
    BY <2>1 DEF ReplySound
  <2>2. CASE reply' # None
    <3>1. reply' = reply
      BY <2>2 DEF BeginEdit, BeginInit, EditUnderLock, EditRefused, InitRefused,
                  InitUnderLock, InitFails, SaveFails, Crash
    <3>2. op[Desktop] = None /\ file # None
      BY <2>2, <3>1 DEF VaultInv, ReplySound
    <3>3. op'[Desktop] = None
      <4>1. CASE p = Desktop
        BY <2>2, <3>2, <4>1 DEF BeginEdit, BeginInit, EditUnderLock, EditRefused, InitRefused,
                                InitUnderLock, InitFails, SaveFails, Crash, At, Absent
      <4>2. CASE p # Desktop
        BY <1>0, <3>2, <4>2 DEF BeginEdit, BeginInit, EditUnderLock, EditRefused, InitRefused,
                                InitUnderLock, InitFails, SaveFails, Crash, Step, Done
      <4> QED BY <4>1, <4>2
    <3> QED BY <1>1, <3>1, <3>2, <3>3 DEF VaultInv, ReplySound, Copies
  <2> QED BY <2>1, <2>2
<1> QED BY <1>2, <1>3, <1>4 DEF VaultInv

\* Saving drops the promises it makes void, and those of the name and of the old name
\* that remain are of the key that the desktop goes on to store.
LEMMA VaultSaving ==
    ASSUME TypeOK, FileInv, VaultInv, NEW p \in Processes, SaveEdit(p) \/ SaveFirst(p)
    PROVE  VaultInv'
<1> USE ConfigAssumption
<1>0. /\ Desktop \in Processes /\ op \in [Processes -> Op \cup {None}] /\ op[p] # None /\ op[p].stage = "saving"
      /\ At(p, "saving") /\ op[p] \in Op
  BY StoreAssumption DEF TypeOK, SaveEdit, SaveFirst, At
<1>1. /\ file' = op[p].copy /\ file' \in Config /\ file' # None
      /\ promised' = {x \in promised : file'.keys[x[1]] = x[2]}
  BY <1>0, WhatIsSaved DEF SaveEdit, SaveFirst, Replace
<1>2. keychain' = keychain /\ keyfile' = keyfile /\ reply' = reply
  BY DEF SaveEdit, SaveFirst, vault
<1>3. PromisesKept'
  BY <1>1, <1>2 DEF VaultInv, PromisesKept, Copies
<1>4. ASSUME op'[Desktop] # None PROVE DesktopSound(op[Desktop])'
  <2>1. CASE p # Desktop
    <3>1. op'[Desktop] = op[Desktop]
      BY <1>0, <2>1 DEF SaveEdit, SaveFirst, Step, Done
    <3>2. DesktopSound(op[Desktop])
      BY <1>4, <3>1 DEF VaultInv
    <3>3. \A x \in promised' : x \in promised
      BY <1>1
    <3> QED BY <1>2, <3>1, <3>2, <3>3 DEF DesktopSound, Copies
  <2>2. CASE p = Desktop /\ SaveFirst(p)
    <3>1. op'[Desktop].stage = "storing"
      <4>1. op'[Desktop] = [op[Desktop] EXCEPT !.stage = "storing", !.copy = None]
        BY <1>0, <2>2 DEF SaveFirst, Step
      <4> QED BY <1>0, <2>2, <4>1 DEF Op
    <3>2. promised' = {}
      <4>1. file = None
        BY <2>2 DEF SaveFirst, Absent
      <4>2. \A x \in promised : FALSE
        BY <4>1 DEF VaultInv, PromisesKept
      <4> QED BY <1>1, <4>2
    <3> QED BY <3>1, <3>2 DEF DesktopSound
  <2>3. CASE p = Desktop /\ SaveEdit(p)
    <3> PICK e : e = op[p].edit
      OBVIOUS
    <3>1. ~Done(Desktop)
      BY <1>0, <1>4 DEF Done
    <3>2. op' = [op EXCEPT ![Desktop] =
                    [op[p] EXCEPT !.stage = "storing", !.copy = None,
                                  !.key = KeyAfter(file', e), !.name = NameAfter(e),
                                  !.old = IF e.type = "rename" THEN e.name ELSE None]]
          /\ KeyAfter(file', e) # None
      BY <1>0, <1>1, <2>3, <3>1 DEF SaveEdit, Step
    <3>3. /\ op'[Desktop].stage = "storing" /\ op'[Desktop].key = KeyAfter(file', e)
          /\ op'[Desktop].name = NameAfter(e)
          /\ op'[Desktop].old = IF e.type = "rename" THEN e.name ELSE None
      <4>1. PICK k, n, o :
               /\ op' = [op EXCEPT ![Desktop] = [op[p] EXCEPT !.stage = "storing", !.copy = None,
                                                             !.key = k, !.name = n, !.old = o]]
               /\ k = KeyAfter(file', e) /\ n = NameAfter(e)
               /\ o = IF e.type = "rename" THEN e.name ELSE None
        BY <3>2, Zenon
      <4>2. op'[Desktop] = [op[p] EXCEPT !.stage = "storing", !.copy = None,
                                         !.key = k, !.name = n, !.old = o]
        BY <1>0, <2>3, <4>1
      <4>3. /\ op'[Desktop].stage = "storing" /\ op'[Desktop].key = k
            /\ op'[Desktop].name = n /\ op'[Desktop].old = o
        BY <1>0, <4>2 DEF Op
      <4> QED BY <4>1, <4>3
    <3>4. PICK key : Applicable(file, e, key) /\ file' = Apply(file, e, key)
      BY <1>0, <1>1, <2>3, WhatIsSaved DEF SaveEdit
    <3>5. ASSUME NEW x \in promised'
          PROVE  (x[1] = op'[Desktop].name => x[2] = op'[Desktop].key) /\ x[1] # op'[Desktop].old
      <4>1. x[1] \in Names /\ x[2] \in Keys /\ file'.keys[x[1]] = x[2]
        BY <1>1 DEF TypeOK
      <4>2. KeyAfter(file', e) = file'.keys[NameAfter(e)]
        BY <3>2 DEF KeyAfter
      <4>3. ASSUME e.type = "rename" PROVE file'.keys[e.name] = None
        <5>1. /\ file \in Config /\ e.name \in Names /\ e.new \in Names /\ e.name # e.new
              /\ file' = RenameClient(file, e.name, e.new)
          BY <3>4, <4>3, RenameApplies
        <5> QED BY <5>1, Renamed
      <4> QED BY <3>3, <4>1, <4>2, <4>3
    <3> QED BY <3>3, <3>5 DEF DesktopSound
  <2> QED BY <2>1, <2>2, <2>3
<1>5. ReplySound'
  <2>1. CASE p = Desktop
    BY <1>0, <1>2, <2>1 DEF VaultInv, ReplySound
  <2>2. CASE p # Desktop
    <3>1. op'[Desktop] = op[Desktop]
      BY <1>0, <2>2 DEF SaveEdit, SaveFirst, Step, Done
    <3> QED BY <1>1, <1>2, <3>1 DEF VaultInv, ReplySound, Copies
  <2> QED BY <2>1, <2>2
<1> QED BY <1>3, <1>4, <1>5 DEF VaultInv

\* What is known of the key that the desktop stores.
LEMMA BeingStored ==
    ASSUME TypeOK, FileInv, VaultInv, NEW d, d = op[Desktop], d # None, d.stage \in Storing
    PROVE  /\ d \in Op /\ file # None /\ d.name \in Names /\ d.key \in Keys /\ d.key # None
           /\ d.name # d.old /\ (d.stage # "storing" => d.old # None)
           /\ d.old \in Names \cup {None}
           /\ DesktopSound(d) /\ reply = None
<1> USE ConfigAssumption
<1>1. OpSound(Desktop, d)
  BY StoreAssumption DEF FileInv, OpsSound
<1>2. d.old \in Names \cup {None}
  BY <1>1 DEF OpSound, Op
<1> QED BY <1>1, <1>2 DEF OpSound, VaultInv, ReplySound

\* A promise stays good when another key is stored, and so does a promise of the key.
LEMMA StoredUnderName ==
    ASSUME TypeOK, PromisesKept, file' = file, NEW n \in Names, NEW k \in Keys,
           \A x \in promised : x[1] = n => x[2] = k,
           \/ UNCHANGED vault
           \/ keychain' = [keychain EXCEPT ![n] = k] /\ keyfile' = keyfile
           \/ keyfile' = [keyfile EXCEPT ![n] = k] /\ keychain' = keychain,
           promised' = promised \/ (k \in Copies(n)' /\ Promise(n, k)),
           file # None
    PROVE  PromisesKept'
<1>1. \A m \in Names \ {n} : Copies(m)' = Copies(m)
  BY DEF TypeOK, Copies, vault
<1>2. UNCHANGED vault \/ k \in Copies(n)'
  BY DEF TypeOK, Copies
<1>3. ASSUME NEW x \in promised
      PROVE  file.keys[x[1]] = x[2] /\ x[2] \in Copies(x[1])'
  <2>1. x[1] \in Names /\ file.keys[x[1]] = x[2] /\ x[2] \in Copies(x[1])
    BY DEF TypeOK, PromisesKept
  <2>2. CASE UNCHANGED vault
    BY <2>1, <2>2 DEF Copies, vault
  <2>3. CASE k \in Copies(n)'
    BY <1>1, <2>1, <2>3
  <2> QED BY <1>2, <2>1, <2>2, <2>3
<1>4. ASSUME NEW x \in promised', x \notin promised
      PROVE  x = <<n, k>> /\ file.keys[n] = k /\ k \in Copies(n)'
  BY <1>4 DEF Promise
<1> QED BY <1>3, <1>4 DEF PromisesKept

\* A key stored in the Keychain or in the private file.
LEMMA VaultStored ==
    ASSUME TypeOK, FileInv, VaultInv, StoreInKeychain(Desktop) \/ StoreInFile(Desktop)
    PROVE  VaultInv'
<1> USE ConfigAssumption
<1> PICK d : d = op[Desktop]
  OBVIOUS
<1>0. op \in [Processes -> Op \cup {None}] /\ Desktop \in Processes
  BY StoreAssumption DEF TypeOK
<1>1. d # None /\ d.stage = "storing" /\ d.stage \in Storing
  BY DEF StoreInKeychain, StoreInFile, At, Storing
<1>2. /\ d \in Op /\ file # None /\ d.name \in Names /\ d.key \in Keys /\ d.name # d.old
      /\ DesktopSound(d) /\ reply = None
  BY <1>1, BeingStored
<1>3. \/ keychain' = [keychain EXCEPT ![d.name] = d.key] /\ keyfile' = keyfile
      \/ keyfile' = [keyfile EXCEPT ![d.name] = d.key] /\ keychain' = keychain
  BY DEF StoreInKeychain, StoreInFile
<1>4. d.key \in Copies(d.name)'
  BY <1>2, <1>3 DEF TypeOK, Copies
<1>5. file' = file /\ reply' = reply
  BY DEF StoreInKeychain, StoreInFile
<1>6. \/ d.old = None /\ op'[Desktop] = None /\ Promise(d.name, d.key)
      \/ op'[Desktop] = [d EXCEPT !.stage = "clearing keychain"] /\ promised' = promised
  BY <1>0 DEF StoreInKeychain, StoreInFile, StoredKey, Done, Step
<1>7. \A x \in promised : (x[1] = d.name => x[2] = d.key) /\ x[1] # d.old
  BY <1>1, <1>2 DEF DesktopSound
<1>8. PromisesKept'
  <2>1. \A x \in promised : x[1] = d.name => x[2] = d.key
    BY <1>7
  <2>2. promised' = promised \/ (d.key \in Copies(d.name)' /\ Promise(d.name, d.key))
    BY <1>4, <1>6
  <2>3. PromisesKept
    BY DEF VaultInv
  <2> QED BY <1>2, <1>3, <1>5, <2>1, <2>2, <2>3, StoredUnderName, Zenon
<1>9. ASSUME op'[Desktop] # None PROVE DesktopSound(op[Desktop])'
  <2>1. /\ op'[Desktop].stage = "clearing keychain" /\ op'[Desktop].name = d.name
        /\ op'[Desktop].key = d.key /\ op'[Desktop].old = d.old
    BY <1>2, <1>6, <1>9 DEF Op
  <2>2. promised' = promised
    BY <1>6, <1>9
  <2> QED BY <1>4, <1>7, <2>1, <2>2 DEF DesktopSound
<1>10. ReplySound'
  BY <1>2, <1>5 DEF ReplySound
<1> QED BY <1>8, <1>9, <1>10 DEF VaultInv

\* A key that is not stored, with a warning or because there was none to move.
LEMMA VaultNotStored ==
    ASSUME TypeOK, FileInv, VaultInv, StoreFails(Desktop) \/ NothingToMove(Desktop)
    PROVE  VaultInv'
<1> USE ConfigAssumption
<1> PICK d : d = op[Desktop]
  OBVIOUS
<1>0. op \in [Processes -> Op \cup {None}] /\ Desktop \in Processes
  BY StoreAssumption DEF TypeOK
<1>1. d # None /\ d.stage \in Storing
  BY DEF StoreFails, NothingToMove, At, Storing
<1>2. /\ d \in Op /\ file # None /\ d.name \in Names /\ d.key \in Keys /\ d.key # None
      /\ d.old \in Names \cup {None} /\ DesktopSound(d) /\ reply = None
  BY <1>1, BeingStored
<1>3. /\ \/ UNCHANGED vault
         \/ keyfile' = [keyfile EXCEPT ![d.name] = d.key] /\ keychain' = keychain
      /\ file' = file /\ promised' = promised
  BY DEF StoreFails, NothingToMove, vault, disk
<1>4. op'[Desktop] = None
  BY <1>0 DEF StoreFails, NothingToMove, Done
<1>5. PromisesKept'
  <2>1. \A x \in promised : x[1] = d.name => x[2] = d.key
    BY <1>1, <1>2 DEF DesktopSound
  <2>2. PromisesKept
    BY DEF VaultInv
  <2>3. \/ UNCHANGED vault
        \/ keychain' = [keychain EXCEPT ![d.name] = d.key] /\ keyfile' = keyfile
        \/ keyfile' = [keyfile EXCEPT ![d.name] = d.key] /\ keychain' = keychain
    BY <1>3
  <2>4. file' = file
    BY <1>3
  <2>5. promised' = promised \/ (d.key \in Copies(d.name)' /\ Promise(d.name, d.key))
    BY <1>3
  <2>6. d.name \in Names /\ d.key \in Keys /\ file # None
    BY <1>2
  <2> QED BY <2>1, <2>2, <2>3, <2>4, <2>5, <2>6, StoredUnderName, ZenonT(60)
<1>6. ReplySound'
  <2>1. CASE StoreFails(Desktop)
    <3>1. reply' = None \/ reply'.error
      BY <1>2, <2>1 DEF StoreFails, Answer
    <3> QED BY <1>2, <1>3, <1>4, <3>1 DEF ReplySound
  <2>2. CASE NothingToMove(Desktop)
    <3>1. d.old # None /\ d.key \notin Copies(d.old)
      BY <1>2, <2>2 DEF NothingToMove, CanStore, LoadMatching, Copies
    <3>2. reply' = [old |-> d.old, key |-> d.key, error |-> FALSE]
      BY <2>2, <3>1 DEF NothingToMove, Answer
    <3>3. Copies(d.old)' = Copies(d.old)
      BY <2>2 DEF NothingToMove, Copies, vault
    <3> QED BY <1>2, <1>3, <1>4, <3>1, <3>2, <3>3 DEF ReplySound, Copies
  <2> QED BY <2>1, <2>2
<1> QED BY <1>4, <1>5, <1>6 DEF VaultInv

\* The copies under the old name are deleted; nothing is promised under it.
LEMMA VaultCleared ==
    ASSUME TypeOK, FileInv, VaultInv, ClearKeychain(Desktop) \/ ClearFile(Desktop)
    PROVE  VaultInv'
<1> USE ConfigAssumption
<1> PICK d : d = op[Desktop]
  OBVIOUS
<1>0. op \in [Processes -> Op \cup {None}] /\ Desktop \in Processes
  BY StoreAssumption DEF TypeOK
<1>1. d # None /\ d.stage \in {"clearing keychain", "clearing file"} /\ d.stage \in Storing
  BY DEF ClearKeychain, ClearFile, At, Storing
<1>2. /\ d \in Op /\ file # None /\ d.name \in Names /\ d.key \in Keys /\ d.key # None
      /\ d.name # d.old /\ d.old \in Names /\ DesktopSound(d) /\ reply = None
  BY <1>1, BeingStored
<1>3. /\ \A x \in promised : (x[1] = d.name => x[2] = d.key) /\ x[1] # d.old
      /\ d.key \in Copies(d.name)
  BY <1>1, <1>2 DEF DesktopSound
<1>4. file' = file
  BY DEF ClearKeychain, ClearFile, disk
<1>5. \A n \in Names \ {d.old} : Copies(n)' = Copies(n)
  BY <1>2 DEF TypeOK, ClearKeychain, ClearFile, Copies
<1>6. PromisesKept'
  <2>1. ASSUME NEW x \in promised
        PROVE  x[1] \in Names \ {d.old} /\ file.keys[x[1]] = x[2] /\ x[2] \in Copies(x[1])
    BY <1>3 DEF TypeOK, VaultInv, PromisesKept
  <2>2. promised' = promised \/ Promise(d.name, d.key)
    BY DEF ClearKeychain, ClearFile, disk
  <2>3. ASSUME NEW x \in promised', x \notin promised
        PROVE  x = <<d.name, d.key>> /\ file.keys[d.name] = d.key
    BY <2>2, <2>3 DEF Promise
  <2>4. d.key \in Copies(d.name)'
    BY <1>2, <1>3, <1>5
  <2>5. ASSUME NEW x \in promised'
        PROVE  file.keys[x[1]] = x[2] /\ x[2] \in Copies(x[1])'
    BY <1>5, <2>1, <2>3, <2>4
  <2> QED BY <1>2, <1>4, <2>5 DEF PromisesKept
<1>7. CASE ClearKeychain(Desktop)
  <2> PICK cleared \in BOOLEAN :
         /\ keychain' = IF cleared THEN [keychain EXCEPT ![d.old] = None] ELSE keychain
         /\ op'[Desktop] = [d EXCEPT !.stage = "clearing file", !.cleared = cleared]
    BY <1>0, <1>7 DEF ClearKeychain, Step
  <2>1. /\ op'[Desktop].stage = "clearing file" /\ op'[Desktop].name = d.name
        /\ op'[Desktop].key = d.key /\ op'[Desktop].old = d.old
        /\ op'[Desktop].cleared = cleared
    BY <1>2 DEF Op
  <2>2. cleared => keychain'[d.old] = None
    BY <1>2 DEF TypeOK
  <2>3. promised' = promised /\ reply' = reply
    BY <1>7 DEF ClearKeychain, disk
  <2>4. d.key \in Copies(d.name)'
    BY <1>2, <1>3, <1>5
  <2>5. DesktopSound(op[Desktop])'
    BY <1>3, <2>1, <2>2, <2>3, <2>4 DEF DesktopSound
  <2> QED BY <1>2, <1>6, <2>3, <2>5 DEF VaultInv, ReplySound
<1>8. CASE ClearFile(Desktop)
  <2> PICK cleared \in BOOLEAN :
         /\ keyfile' = IF cleared THEN [keyfile EXCEPT ![d.old] = None] ELSE keyfile
         /\ Answer(Desktop, ~(d.cleared /\ cleared))
    BY <1>8 DEF ClearFile
  <2>1. op'[Desktop] = None /\ keychain' = keychain
    BY <1>0, <1>8 DEF ClearFile, Done
  <2>2. reply' = [old |-> d.old, key |-> d.key, error |-> ~(d.cleared /\ cleared)]
    BY <1>2 DEF Answer
  <2>3. ASSUME ~reply'.error PROVE d.key \notin Copies(d.old)'
    <3>1. d.cleared /\ cleared
      BY <2>2, <2>3
    <3>2. keychain[d.old] = None
      BY <1>2, <1>8, <3>1 DEF DesktopSound, ClearFile, At
    <3>3. keyfile'[d.old] = None
      BY <1>2, <3>1 DEF TypeOK
    <3> QED BY <1>2, <2>1, <3>2, <3>3 DEF Copies
  <2>4. ReplySound'
    BY <1>2, <1>4, <2>1, <2>2, <2>3 DEF ReplySound, Copies
  <2> QED BY <1>6, <2>1, <2>4 DEF VaultInv
<1> QED BY <1>7, <1>8

\* VaultInv is inductive together with TypeOK and FileInv.
LEMMA VaultInvKept ==
    ASSUME TypeOK, FileInv, VaultInv, [Next]_vars
    PROVE  VaultInv'
<1>1. ASSUME NEW p \in Processes,
             \/ \E path \in Paths, e \in Edits : BeginEdit(p, path, e)
             \/ \E path \in Paths, key \in NewKeys : BeginInit(p, path, key)
             \/ \E key \in NewKeys : EditUnderLock(p, key)
             \/ EditRefused(p) \/ InitRefused(p) \/ InitUnderLock(p) \/ InitFails(p)
             \/ SaveFails(p) \/ Crash(p)
      PROVE  VaultInv'
  BY <1>1, VaultAlone
<1>2. ASSUME NEW p \in Processes, SaveEdit(p) \/ SaveFirst(p) PROVE VaultInv'
  BY <1>2, VaultSaving
<1>3. CASE UNCHANGED vars
  BY <1>3 DEF vars, VaultInv, PromisesKept, DesktopSound, ReplySound, Copies
<1> QED BY <1>1, <1>2, <1>3, VaultStored, VaultNotStored, VaultCleared DEF Next, Save

LEMMA VaultInvariant == Spec => [](TypeOK /\ FileInv /\ VaultInv)
<1>1. Init => VaultInv
  BY StoreAssumption DEF Init, VaultInv, PromisesKept, ReplySound
<1>2. TypeOK /\ FileInv /\ VaultInv /\ [Next]_vars => VaultInv'
  BY VaultInvKept
<1> QED BY <1>1, <1>2, FileInvariant, PTL DEF Spec

\* A key that the desktop reported as stored can be shown again as long as its client
\* keeps it: no rename, warning or refusal of the Keychain in between loses the copy.
THEOREM StoredKeysStayRetrievable == Spec => []StoredKeysRetrievable
<1>1. TypeOK /\ VaultInv => StoredKeysRetrievable
  BY DEF VaultInv, PromisesKept, StoredKeysRetrievable, LoadMatching, Copies
<1> QED BY <1>1, VaultInvariant, PTL

\* A rename answered without a warning left no copy of the key under the old name.
THEOREM NothingLeftSilently == Spec => []NoCopyLeftSilently
<1>1. VaultInv => NoCopyLeftSilently
  BY DEF VaultInv, ReplySound, NoCopyLeftSilently, Copies
<1> QED BY <1>1, VaultInvariant, PTL
-----------------------------------------------------------------------------
(* What the first runs leave. *)

\* An edit leaves the default client its identity, under whatever name.
LEMMA ApplyDefault ==
    ASSUME NEW c, NEW e, NEW key, Applicable(c, e, key), Valid(c), c.default # None
    PROVE  LET d == Apply(c, e, key)
           IN  d.default \in Names /\ d.clients[d.default] = c.clients[c.default]
<1> USE ConfigAssumption
<1>0. c \in Config /\ c.default \in Names /\ c.clients[c.default] # None
  BY DEF Applicable, Valid, Registered, Config
<1>1. CASE e.type = "add"
  <2>1. c.default # e.name /\ e.name \in Names
    BY <1>0, <1>1 DEF Applicable, CanApply, Registered, Edit
  <2> QED BY <1>0, <1>1, <2>1 DEF Apply, AddClient, Config
<1>2. CASE e.type = "keygen"
  BY <1>0, <1>2 DEF Apply, Keygen, Config
<1>3. CASE e.type = "rename"
  BY <1>0, <1>3, RenameApplies, Renamed
<1> QED BY <1>1, <1>2, <1>3 DEF Applicable, Edit

\* An init that waits or saves has its own first configuration, and its affiliation is
\* in the database before it saves.
InitSound(p) ==
    op[p] # None /\ op[p].edit = None /\ op[p].stage \in {"waiting", "saving"} =>
        /\ \E key \in Keys \cup {None} : op[p].copy = FirstConfig(p, key)
        /\ op[p].stage = "saving" => Existing(Affiliation[p].name) # {}

\* The identity of the default client is that of a human whose affiliation is known.
DefaultKnown(c) ==
    /\ c.default \in Names
    /\ \E p \in Processes : /\ c.clients[c.default] = HumanIdentity[p]
                            /\ Existing(Affiliation[p].name) # {}

Entries == {[actor |-> Human[p], name |-> Affiliation[p].name] : p \in Processes}

FirstRunInv ==
    /\ audit \in Seq(Entries)
    /\ AffiliationsAuditedOnce
    /\ \A p \in Processes : InitSound(p)
    /\ Start = None /\ file # None => DefaultKnown(file)

\* Everything else is kept by a step that leaves the file and the database alone and
\* lets no init start, other than from its own first configuration.
LEMMA FirstRunKept ==
    ASSUME FirstRunInv, UNCHANGED database, file' = file,
           \A q \in Processes : op'[q] = op[q] \/ InitSound(q)'
    PROVE  FirstRunInv'
<1>1. \A n : Existing(n)' = Existing(n)
  BY DEF Existing, database
<1>2. audit' \in Seq(Entries) /\ AffiliationsAuditedOnce'
  BY <1>1 DEF FirstRunInv, AffiliationsAuditedOnce, database, Existing
<1>3. \A q \in Processes : InitSound(q)'
  BY <1>1 DEF FirstRunInv, InitSound
<1>4. Start = None /\ file' # None => DefaultKnown(file)'
  BY <1>1 DEF FirstRunInv, DefaultKnown
<1> QED BY <1>2, <1>3, <1>4 DEF FirstRunInv

\* The steps of a process that neither save nor write the database.
LEMMA FirstRunAlone ==
    ASSUME TypeOK, FileInv, FirstRunInv, NEW p \in Processes,
           \/ \E path \in Paths, e \in Edits : BeginEdit(p, path, e)
           \/ \E path \in Paths, key \in NewKeys : BeginInit(p, path, key)
           \/ \E key \in NewKeys : EditUnderLock(p, key)
           \/ EditRefused(p) \/ InitRefused(p) \/ InitFails(p)
           \/ SaveFails(p) \/ Crash(p)
    PROVE  FirstRunInv'
<1> USE ConfigAssumption, StoreAssumption
<1>0. op \in [Processes -> Op \cup {None}]
  BY DEF TypeOK
<1>1. UNCHANGED database /\ file' = file
  BY DEF BeginEdit, BeginInit, EditUnderLock, EditRefused, InitRefused, InitFails, SaveFails,
         Crash, disk
<1>2. \A q \in Processes \ {p} : op'[q] = op[q]
  BY <1>0 DEF BeginEdit, BeginInit, EditUnderLock, EditRefused, InitRefused, InitFails,
              SaveFails, Crash, Step, Done
<1>3. InitSound(p)'
  <2>1. CASE Done(p)
    BY <1>0, <2>1 DEF Done, InitSound
  <2>2. ASSUME NEW path \in Paths, NEW e \in Edits, BeginEdit(p, path, e)
        PROVE  InitSound(p)'
    BY <1>0, <2>2 DEF BeginEdit, Step, InitSound
  <2>3. ASSUME NEW path \in Paths, NEW key \in NewKeys, BeginInit(p, path, key)
        PROVE  InitSound(p)'
    BY <1>0, <2>3 DEF BeginInit, Step, InitSound, NewKeys
  <2>4. ASSUME NEW key \in NewKeys, EditUnderLock(p, key)
        PROVE  InitSound(p)'
    <3>1. op'[p].edit = op[p].edit /\ op[p].edit # None
      BY <1>0, <2>4 DEF EditUnderLock, At, Step, Op
    <3> QED BY <3>1 DEF InitSound
  <2> QED BY <2>1, <2>2, <2>3, <2>4 DEF EditRefused, InitRefused, InitFails, SaveFails, Crash
<1> QED BY <1>1, <1>2, <1>3, FirstRunKept

\* The entries of an affiliation's name; there are finitely many.
EntriesOf(name) == {i \in DOMAIN audit : audit[i].name = name}

\* The audit entries of one name can be counted.
LEMMA FiniteEntries ==
    ASSUME audit \in Seq(Entries), NEW name
    PROVE  /\ IsFiniteSet(EntriesOf(name)) /\ Cardinality(EntriesOf(name)) \in Nat
           /\ EntriesOf(name) \subseteq 1..Len(audit)
<1>1. DOMAIN audit = 1..Len(audit) /\ Len(audit) \in Nat
  OBVIOUS
<1>2. IsFiniteSet(1..Len(audit))
  BY <1>1, FS_Interval
<1>3. EntriesOf(name) \subseteq 1..Len(audit)
  BY <1>1 DEF EntriesOf
<1> QED BY <1>2, <1>3, FS_Subset, FS_CardinalityType

\* The database is written: a new affiliation and its entry, or nothing.
LEMMA FirstRunWrites ==
    ASSUME TypeOK, FileInv, FirstRunInv, NEW p \in Processes, InitUnderLock(p)
    PROVE  FirstRunInv'
<1> USE ConfigAssumption, StoreAssumption
<1> PICK name : name = Affiliation[p].name
  OBVIOUS
<1> PICK o : o = [op[p] EXCEPT !.stage = "saving"]
  OBVIOUS
<1>0. /\ op \in [Processes -> Op \cup {None}] /\ op[p] # None /\ op[p] \in Op
      /\ op[p].edit = None /\ op[p].stage = "waiting" /\ file' = file /\ file = None
      /\ op' = [op EXCEPT ![p] = o]
  BY DEF TypeOK, InitUnderLock, At, Step, Absent
<1>1. \A n : Existing(n) \subseteq Existing(n)'
  BY DEF InitUnderLock, InitializeDatabase, database, Existing
<1>2. Existing(name)' # {}
  BY DEF InitUnderLock, InitializeDatabase, database, Existing
<1>3. audit' \in Seq(Entries) /\ AffiliationsAuditedOnce'
  <2>0. audit \in Seq(Entries)
    BY DEF FirstRunInv
  <2>1. CASE UNCHANGED database
    BY <2>0, <2>1 DEF FirstRunInv, AffiliationsAuditedOnce, Existing, database
  <2>2. CASE ~UNCHANGED database
    <3> PICK x : x = [actor |-> Human[p], name |-> name]
      OBVIOUS
    <3> PICK k : k = Len(audit) + 1
      OBVIOUS
    <3>1. /\ Existing(name) = {} /\ affiliations' = affiliations \cup {Affiliation[p]}
          /\ audit' = Append(audit, x) /\ x \in Entries /\ x.name = name
      BY <2>2 DEF InitUnderLock, InitializeDatabase, Entries
    <3>2. /\ audit' \in Seq(Entries) /\ DOMAIN audit' = DOMAIN audit \cup {k}
          /\ k \notin DOMAIN audit /\ audit'[k] = x /\ \A i \in DOMAIN audit : audit'[i] = audit[i]
      BY <2>0, <3>1
    <3>3. \A n : EntriesOf(n)' = IF n = name THEN EntriesOf(n) \cup {k} ELSE EntriesOf(n)
      BY <3>1, <3>2 DEF EntriesOf
    <3>4. \A n : Existing(n)' = IF n = name THEN {Affiliation[p]} ELSE Existing(n)
      BY <3>1 DEF Existing
    <3>5. \A q \in Processes :
             Cardinality(EntriesOf(Affiliation[q].name)) = Cardinality(Existing(Affiliation[q].name))
      BY DEF FirstRunInv, AffiliationsAuditedOnce, EntriesOf
    <3>6. Cardinality(EntriesOf(name) \cup {k}) = 1
      <4>1. Cardinality(EntriesOf(name)) = 0
        BY <3>1, <3>5, FS_EmptySet
      <4> PICK E : E = EntriesOf(name)
        OBVIOUS
      <4>2. IsFiniteSet(E)
        BY <2>0, FiniteEntries
      <4>3. k \notin E
        BY <3>2 DEF EntriesOf
      <4>4. Cardinality(E \cup {k}) = Cardinality(E) + 1
        BY <4>2, <4>3, FS_AddElement
      <4> QED BY <4>1, <4>4
    <3>7. Cardinality({Affiliation[p]}) = 1
      BY FS_Singleton
    <3>8. \A q \in Processes :
             Cardinality(EntriesOf(Affiliation[q].name)') = Cardinality(Existing(Affiliation[q].name)')
      BY <3>3, <3>4, <3>5, <3>6, <3>7
    <3> QED BY <3>2, <3>8 DEF AffiliationsAuditedOnce, EntriesOf
  <2> QED BY <2>1, <2>2
<1>4. ASSUME NEW q \in Processes PROVE InitSound(q)'
  <2>1. CASE q = p
    <3>1. op'[p].copy = op[p].copy
      BY <1>0 DEF Op
    <3>2. \E key \in Keys \cup {None} : op[p].copy = FirstConfig(p, key)
      BY <1>0 DEF FirstRunInv, InitSound
    <3> QED BY <1>2, <2>1, <3>1, <3>2 DEF InitSound
  <2>2. CASE q # p
    <3>1. op'[q] = op[q]
      BY <1>0, <2>2
    <3> QED BY <1>1, <3>1 DEF FirstRunInv, InitSound
  <2> QED BY <2>1, <2>2
<1> QED BY <1>0, <1>3, <1>4 DEF FirstRunInv

\* The default client of a first configuration is its human.
LEMMA FirstDefault ==
    ASSUME NEW p \in Processes, NEW key \in Keys \cup {None}, NEW c, c = FirstConfig(p, key)
    PROVE  c.default = Human[p] /\ c.default \in Names /\ c.clients[c.default] = HumanIdentity[p]
<1> USE StoreAssumption
<1>1. CASE p = Desktop
  BY <1>1 DEF FirstConfig, AddClient, NoClients
<1>2. CASE p # Desktop
  BY <1>2 DEF FirstConfig, NoClients
<1> QED BY <1>1, <1>2

\* A file is saved, from an init or an edit.
LEMMA FirstRunSaved ==
    ASSUME TypeOK, FileInv, FirstRunInv, NEW p \in Processes, SaveEdit(p) \/ SaveFirst(p)
    PROVE  FirstRunInv'
<1> USE ConfigAssumption, StoreAssumption
<1>0. /\ op \in [Processes -> Op \cup {None}] /\ op[p] # None /\ op[p] \in Op
      /\ op[p].stage = "saving" /\ At(p, "saving") /\ OpSound(p, op[p])
      /\ file' = op[p].copy /\ UNCHANGED database
  BY DEF TypeOK, FileInv, OpsSound, SaveEdit, SaveFirst, At, Replace
<1>1. \A n : Existing(n)' = Existing(n)
  BY <1>0 DEF Existing, database
<1>2. audit' \in Seq(Entries) /\ AffiliationsAuditedOnce'
  BY <1>0, <1>1 DEF FirstRunInv, AffiliationsAuditedOnce, database, Existing
<1>3. ASSUME NEW q \in Processes PROVE InitSound(q)'
  <2>1. CASE q = p
    <3>1. op'[p] = None \/ op'[p].stage = "storing"
      <4>1. CASE Done(p)
        BY <1>0, <4>1 DEF Done
      <4>2. CASE SaveFirst(p) /\ ~Done(p)
        <5>1. op' = [op EXCEPT ![p] = [op[p] EXCEPT !.stage = "storing", !.copy = None]]
          BY <4>2 DEF SaveFirst, Step
        <5> QED BY <1>0, <5>1 DEF Op
      <4>3. CASE SaveEdit(p) /\ ~Done(p)
        <5>1. PICK k, n, x : op' = [op EXCEPT ![p] =
                  [op[p] EXCEPT !.stage = "storing", !.copy = None, !.key = k, !.name = n,
                                !.old = x]]
          BY <4>3 DEF SaveEdit, Step
        <5> QED BY <1>0, <5>1 DEF Op
      <4> QED BY <4>1, <4>2, <4>3
    <3> QED BY <2>1, <3>1 DEF InitSound
  <2>2. CASE q # p
    <3>1. op'[q] = op[q]
      BY <1>0, <2>2 DEF SaveEdit, SaveFirst, Step, Done
    <3> QED BY <1>1, <3>1 DEF FirstRunInv, InitSound
  <2> QED BY <2>1, <2>2
<1>4. ASSUME Start = None PROVE DefaultKnown(file)'
  <2>1. CASE SaveFirst(p)
    <3>1. PICK key \in Keys \cup {None} : file' = FirstConfig(p, key)
      BY <1>0, <2>1 DEF SaveFirst, FirstRunInv, InitSound
    <3>2. Existing(Affiliation[p].name) # {}
      BY <1>0, <2>1 DEF SaveFirst, FirstRunInv, InitSound
    <3>3. file'.default \in Names /\ file'.clients[file'.default] = HumanIdentity[p]
      BY <3>1, FirstDefault
    <3> QED BY <1>1, <3>2, <3>3 DEF DefaultKnown
  <2>2. CASE SaveEdit(p)
    <3>1. PICK key : Applicable(file, op[p].edit, key) /\ file' = Apply(file, op[p].edit, key)
      BY <1>0, <2>2, WhatIsSaved DEF SaveEdit
    <3>2. file # None /\ Valid(file) /\ DefaultKnown(file)
      BY <1>0, <1>4, <2>2 DEF FileInv, FileSound, SavesAreEdits, SaveEdit, FirstRunInv
    <3>3. file.default # None
      BY <3>2 DEF DefaultKnown
    <3>4. file'.default \in Names /\ file'.clients[file'.default] = file.clients[file.default]
      BY <3>1, <3>2, <3>3, ApplyDefault
    <3> QED BY <1>1, <3>2, <3>4 DEF DefaultKnown
  <2> QED BY <2>1, <2>2
<1> QED BY <1>2, <1>3, <1>4 DEF FirstRunInv

\* The desktop's key storage touches neither the file nor the database.
LEMMA FirstRunStoring ==
    ASSUME TypeOK, FileInv, FirstRunInv,
           \/ StoreInKeychain(Desktop) \/ StoreInFile(Desktop) \/ StoreFails(Desktop)
           \/ NothingToMove(Desktop) \/ ClearKeychain(Desktop) \/ ClearFile(Desktop)
    PROVE  FirstRunInv'
<1> USE ConfigAssumption, StoreAssumption
<1>0. /\ op \in [Processes -> Op \cup {None}]
      /\ op[Desktop] # None /\ op[Desktop] \in Op
  BY DEF TypeOK, StoreInKeychain, StoreInFile, StoreFails, NothingToMove, ClearKeychain,
         ClearFile, At
<1>1. UNCHANGED database /\ file' = file
  BY DEF StoreInKeychain, StoreInFile, StoreFails, NothingToMove, ClearKeychain, ClearFile,
         disk
<1>2. \/ Done(Desktop)
      \/ Step(Desktop, [op[Desktop] EXCEPT !.stage = "clearing keychain"])
      \/ \E cleared \in BOOLEAN :
            Step(Desktop, [op[Desktop] EXCEPT !.stage = "clearing file", !.cleared = cleared])
  BY DEF StoreInKeychain, StoreInFile, StoreFails, NothingToMove, ClearKeychain, ClearFile,
         StoredKey
<1>3. \A q \in Processes \ {Desktop} : op'[q] = op[q]
  BY <1>0, <1>2 DEF Step, Done
<1>4. op'[Desktop] = None \/ op'[Desktop].stage \in {"clearing keychain", "clearing file"}
  <2>1. CASE Done(Desktop)
    BY <1>0, <2>1 DEF Done
  <2>2. CASE Step(Desktop, [op[Desktop] EXCEPT !.stage = "clearing keychain"])
    BY <1>0, <2>2 DEF Step, Op
  <2>3. ASSUME NEW cleared \in BOOLEAN,
               Step(Desktop, [op[Desktop] EXCEPT !.stage = "clearing file", !.cleared = cleared])
        PROVE  op'[Desktop].stage = "clearing file"
    BY <1>0, <2>3 DEF Step, Op
  <2> QED BY <1>2, <2>1, <2>2, <2>3
<1>5. InitSound(Desktop)'
  BY <1>4 DEF InitSound
<1> QED BY <1>1, <1>3, <1>5, FirstRunKept

LEMMA FirstRunInvariant == Spec => [](TypeOK /\ FileInv /\ FirstRunInv)
<1>1. Init => FirstRunInv
  <2> SUFFICES ASSUME Init PROVE FirstRunInv
    OBVIOUS
  <2>1. audit = <<>> /\ affiliations = {} /\ file = Start /\ \A p \in Processes : op[p] = None
    BY DEF Init
  <2>2. \A n : EntriesOf(n) = {} /\ Existing(n) = {}
    BY <2>1 DEF EntriesOf, Existing
  <2>3. AffiliationsAuditedOnce
    BY <2>2 DEF AffiliationsAuditedOnce, EntriesOf
  <2> QED BY <2>1, <2>3 DEF FirstRunInv, InitSound
<1>2. TypeOK /\ FileInv /\ FirstRunInv /\ [Next]_vars => FirstRunInv'
  <2> SUFFICES ASSUME TypeOK, FileInv, FirstRunInv, [Next]_vars PROVE FirstRunInv'
    OBVIOUS
  <2>1. CASE UNCHANGED vars
    <3>1. UNCHANGED database /\ file' = file /\ op' = op
      BY <2>1 DEF vars, database
    <3> QED BY <3>1, FirstRunKept
  <2>2. CASE Next
    BY <2>2, NextCases, FirstRunAlone, FirstRunWrites, FirstRunSaved, FirstRunStoring
  <2> QED BY <2>1, <2>2
<1> QED BY <1>1, <1>2, FileInvariant, PTL DEF Spec

\* However many first runs race, fail and are run again: the loser has not written the
\* database, the default client's scope is known there, and each affiliation is audited
\* once.
THEOREM FirstRunsLeaveOne == Spec => []FirstRunHolds
<1>1. FileInv /\ FirstRunInv => FirstRunHolds
  BY DEF FileInv, FirstRunInv, FirstRunHolds, DefaultScopeExists, DefaultKnown
<1> QED BY <1>1, FirstRunInvariant, PTL
=============================================================================

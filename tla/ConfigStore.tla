------------------------------ MODULE ConfigStore ------------------------------
(***************************************************************************)
(* config.toml and the stored API keys, shared by the desktop application   *)
(* and by any number of gaia commands.                                      *)
(*                                                                         *)
(* Config::update and Config::create_with hold an advisory lock on a file   *)
(* beside the configuration for the whole read-modify-write; the process    *)
(* that dies holds no lock.  The desktop, of which one instance runs and    *)
(* whose settings commands wait for each other (setup_lock), also keeps the *)
(* plaintext of the keys it issues in the Keychain, or in a private file    *)
(* when the Keychain refuses; it does so after it has given up the lock.    *)
(* The file is always replaced whole, by a rename or by a hard link, so its *)
(* content is one variable.  Editing it by hand, and a loss of power that   *)
(* undoes a rename, are outside the model.                                  *)
(***************************************************************************)
EXTENDS ClientConfig, Naturals, Sequences, FiniteSets

CONSTANTS
    Processes,      \* the desktop and the running commands
    Desktop,        \* the desktop's process
    Paths,          \* the paths by which a process may name the configuration
    ConfigPath,     \* the one that is no symbolic link
    Target,         \* path -> where its chain of links ends, None when it is not followed
    Edits,          \* the edits the users ask for
    Start,          \* the configuration found at the start, None before the first run
    Human,          \* process -> the human an init of it registers
    Agent,          \* the agent the desktop's setup registers, a name
    HumanIdentity,  \* process -> role human, scope the affiliation of its init
    AgentIdentity,  \* the identity of the desktop's agent
    Affiliation     \* process -> [name, identity] of the affiliation its init creates

ASSUME StoreAssumption ==
    /\ None \notin Processes \cup Paths
    /\ Target \in [Paths -> {ConfigPath, None}] /\ ConfigPath \in Paths
    /\ Target[ConfigPath] = ConfigPath
    /\ Edits \subseteq {e \in Edit : WellFormed(e)} /\ None \notin Edits
    /\ Desktop \in Processes
    /\ Start = None \/ (Start \in Config /\ Valid(Start))
    /\ Human \in [Processes -> Names] /\ Agent \in Names \ {Human[Desktop]}
    /\ HumanIdentity \in [Processes -> Identities] /\ AgentIdentity \in Identities

VARIABLES
    file,           \* the configuration, None when there is no file
    lock,           \* target -> the process that holds the lock beside it, or None
    op,             \* process -> the command it is running, or None
    keychain,       \* name -> the key the Keychain holds for it
    keyfile,        \* name -> the key in the private file for it
    affiliations,   \* the affiliations in the database
    audit,          \* actor and affiliation of each admin_write entry
    reply,          \* how the desktop's last rename was answered
    issued,         \* history: the keys generated so far
    used,           \* history: the keys the file has held so far
    promised        \* history: the <<name, key>> the desktop reported as stored

vars == <<file, lock, op, keychain, keyfile, affiliations, audit, reply, issued, used,
          promised>>

disk == <<file, lock, used, promised>>
vault == <<keychain, keyfile>>
database == <<affiliations, audit>>

Init ==
    /\ file = Start
    /\ lock = [x \in Paths |-> None]
    /\ op = [p \in Processes |-> None]
    /\ keychain = [n \in Names |-> None] /\ keyfile = [n \in Names |-> None]
    /\ affiliations = {} /\ audit = <<>>
    /\ reply = None
    /\ issued = KeysOf(Start) /\ used = KeysOf(Start)
    /\ promised = {}

\* waiting: for the lock.  saving: the new content is ready.  storing: a key is to be
\* stored under name; of a rename it is found under old.  The last two delete the
\* copies under old.
Stages == {"waiting", "saving", "storing", "clearing keychain", "clearing file"}

Op ==
    [stage : Stages, path : Paths, edit : Edit \cup {None}, copy : Config \cup {None},
     name : Names \cup {None}, old : Names \cup {None}, key : Keys \cup {None},
     cleared : BOOLEAN]

At(p, stage) == op[p] # None /\ op[p].stage = stage

Step(p, fields) == op' = [op EXCEPT ![p] = fields]
Done(p) == op' = [op EXCEPT ![p] = None]

-----------------------------------------------------------------------------
(* The lock file. *)

LockFile_BesidePath(path) == path

\* The lock lies beside the end of the chain of links, so that aliases share it.
LockFile(path) == Target[path]

LockFree(p) == lock[LockFile(op[p].path)] = None

Take(p) == lock' = [lock EXCEPT ![LockFile(op[p].path)] = p]

\* What the operating system does when the file is closed or its owner dies.
Release(p) == lock' = [x \in Paths |-> IF lock[x] = p THEN None ELSE lock[x]]

\* create_with looks at the path itself, and a link is something that exists.
Absent(path) == path = ConfigPath /\ file = None

Replace(c) ==
    /\ file' = c
    /\ used' = used \cup KeysOf(c)
    /\ promised' = {x \in promised : c.keys[x[1]] = x[2]}

-----------------------------------------------------------------------------
(* Config::update *)

IsHuman(n) == n # None /\ file.clients[n] \in {HumanIdentity[p] : p \in Processes}

\* The desktop acts for the default client or for the only human.
HumanRuns ==
    \/ IsHuman(file.default)
    \/ \E n \in Names : \A m \in Names : IsHuman(m) <=> m = n

\* The path is checked before the lock is asked for; the desktop also looks up its human.
BeginEdit(p, path, e) ==
    /\ op[p] = None
    /\ Target[path] # None /\ file # None
    /\ p = Desktop => HumanRuns
    /\ Step(p, [stage |-> "waiting", path |-> path, edit |-> e, copy |-> None,
                name |-> None, old |-> None, key |-> None, cleared |-> TRUE])
    /\ reply' = IF p = Desktop THEN None ELSE reply
    /\ UNCHANGED <<disk, vault, database, issued>>

\* The lock is taken, the file loaded and the edit made on the copy.
EditUnderLock(p, key) ==
    /\ At(p, "waiting") /\ op[p].edit # None /\ LockFree(p)
    /\ CanApply(file, op[p].edit)
    /\ op[p].edit.issues <=> key # None
    /\ Step(p, [op[p] EXCEPT !.stage = "saving", !.copy = Apply(file, op[p].edit, key)])
    /\ Take(p)
    /\ issued' = issued \cup ({key} \ {None})
    /\ UNCHANGED <<file, used, promised, vault, database, reply>>

EditRefused_LockKept(p) ==
    /\ At(p, "waiting") /\ op[p].edit # None /\ LockFree(p)
    /\ ~CanApply(file, op[p].edit)
    /\ Take(p)
    /\ Done(p)
    /\ UNCHANGED <<file, used, promised, vault, database, reply, issued>>

\* An early return from the update gives up the lock it has just taken.
EditRefused(p) ==
    /\ At(p, "waiting") /\ op[p].edit # None /\ LockFree(p)
    /\ ~CanApply(file, op[p].edit)
    /\ Done(p)
    /\ UNCHANGED <<disk, vault, database, reply, issued>>

\* The key that the desktop has to store after it saved an edit, if any.
KeyAfter(c, e) == IF e.type = "rename" \/ e.issues THEN c.keys[NameAfter(e)] ELSE None

SaveEdit(p) ==
    /\ At(p, "saving") /\ op[p].edit # None
    /\ Valid(op[p].copy)
    /\ Replace(op[p].copy)
    /\ Release(p)
    /\ LET e   == op[p].edit
           key == KeyAfter(op[p].copy, e)
       IN  IF p = Desktop /\ key # None
           THEN Step(p, [op[p] EXCEPT !.stage = "storing", !.copy = None, !.key = key,
                             !.name = NameAfter(e),
                             !.old = IF e.type = "rename" THEN e.name ELSE None])
           ELSE Done(p)
    /\ UNCHANGED <<vault, database, reply, issued>>

\* No space, no permission, an invalid copy: the file stays as it was.
SaveFails(p) ==
    /\ At(p, "saving")
    /\ Done(p)
    /\ Release(p)
    /\ UNCHANGED <<file, used, promised, vault, database, reply, issued>>

-----------------------------------------------------------------------------
(* Config::create_with, from gaia init and from the desktop's first-run setup. *)

NoClients == [n \in Names |-> None]

FirstConfig(p, key) ==
    LET first == [clients |-> [NoClients EXCEPT ![Human[p]] = HumanIdentity[p]],
                  keys    |-> NoClients,
                  default |-> Human[p]]
    IN  IF p = Desktop THEN AddClient(first, Agent, AgentIdentity, key) ELSE first

\* The desktop's setup generates the agent's key before it asks for the lock.
BeginInit(p, path, key) ==
    /\ op[p] = None
    /\ Absent(path)
    /\ p = Desktop <=> key # None
    /\ Step(p, [stage |-> "waiting", path |-> path, edit |-> None,
                copy |-> FirstConfig(p, key), name |-> IF p = Desktop THEN Agent ELSE None,
                old |-> None, key |-> key, cleared |-> TRUE])
    /\ issued' = issued \cup ({key} \ {None})
    /\ UNCHANGED <<disk, vault, database, reply>>

InitRefused(p) ==
    /\ At(p, "waiting") /\ op[p].edit = None /\ LockFree(p)
    /\ ~Absent(op[p].path)
    /\ Done(p)
    /\ UNCHANGED <<disk, vault, database, reply, issued>>

Existing(name) == {a \in affiliations : a.name = name}

\* gaia init reuses an affiliation only when its identity is the one asked for; the
\* desktop reuses it by its name.
Reusable(p) == p = Desktop \/ Existing(Affiliation[p].name) \subseteq {Affiliation[p]}

InitializeDatabase_AuditsReuse(p) ==
    /\ affiliations' = IF Existing(Affiliation[p].name) = {}
                       THEN affiliations \cup {Affiliation[p]} ELSE affiliations
    /\ audit' = Append(audit, [actor |-> Human[p], name |-> Affiliation[p].name])

InitializeDatabase(p) ==
    IF Existing(Affiliation[p].name) = {}
    THEN /\ affiliations' = affiliations \cup {Affiliation[p]}
         /\ audit' = Append(audit, [actor |-> Human[p], name |-> Affiliation[p].name])
    ELSE UNCHANGED database

\* The absence is checked again under the lock, before the database is written.
InitUnderLock(p) ==
    /\ At(p, "waiting") /\ op[p].edit = None /\ LockFree(p)
    /\ Absent(op[p].path)
    /\ Reusable(p)
    /\ InitializeDatabase(p)
    /\ Step(p, [op[p] EXCEPT !.stage = "saving"])
    /\ Take(p)
    /\ UNCHANGED <<file, used, promised, vault, reply, issued>>

\* The database cannot be opened or written, or the identity differs.
InitFails(p) ==
    /\ At(p, "waiting") /\ op[p].edit = None /\ LockFree(p)
    /\ Absent(op[p].path)
    /\ Done(p)
    /\ UNCHANGED <<disk, vault, database, reply, issued>>

\* The hard link takes the name only when nothing has it.
SaveFirst(p) ==
    /\ At(p, "saving") /\ op[p].edit = None
    /\ Absent(op[p].path)
    /\ Replace(op[p].copy)
    /\ Release(p)
    /\ IF p = Desktop THEN Step(p, [op[p] EXCEPT !.stage = "storing", !.copy = None])
                      ELSE Done(p)
    /\ UNCHANGED <<vault, database, reply, issued>>

-----------------------------------------------------------------------------
(* The desktop's key storage. *)

LoadMatching_KeychainOnly(n, key) ==
    IF keychain[n] # None
    THEN IF keychain[n] = key THEN key ELSE None
    ELSE IF keyfile[n] = key THEN key ELSE None

\* Only the key that the configuration holds is returned; an old one in the Keychain
\* does not hide the file.
LoadMatching(n, key) == IF key \in {keychain[n], keyfile[n]} THEN key ELSE None

CanStore(d) == op[d].old # None => LoadMatching(op[d].old, op[d].key) # None

\* The history of what the desktop reported, as long as it is the name's key.
Promise(name, key) ==
    promised' = promised \cup {x \in {<<name, key>>} : file.keys[name] = key}

\* Only what a rename answers is kept here.
Answer(d, error) ==
    reply' = IF op[d].old = None THEN reply
             ELSE [old |-> op[d].old, key |-> op[d].key, error |-> error]

\* The key is stored under its name.  An issued key is reported at once; the copies of
\* a renamed client's key under the old name are deleted first.
StoredKey(d) ==
    IF op[d].old = None
    THEN Done(d) /\ Promise(op[d].name, op[d].key)
    ELSE Step(d, [op[d] EXCEPT !.stage = "clearing keychain"]) /\ UNCHANGED promised

StoreInKeychain(d) ==
    /\ At(d, "storing") /\ CanStore(d)
    /\ keychain' = [keychain EXCEPT ![op[d].name] = op[d].key]
    /\ StoredKey(d)
    /\ UNCHANGED <<file, lock, used, keyfile, database, reply, issued>>

\* The Keychain refuses, and keeps what it had.
StoreInFile(d) ==
    /\ At(d, "storing") /\ CanStore(d)
    /\ keyfile' = [keyfile EXCEPT ![op[d].name] = op[d].key]
    /\ StoredKey(d)
    /\ UNCHANGED <<file, lock, used, keychain, database, reply, issued>>

\* Neither takes the key, or the one to move cannot be read: the user is warned.  The
\* file may have been replaced already when its directory cannot be synced.
StoreFails(d) ==
    /\ At(d, "storing")
    /\ \/ UNCHANGED keyfile
       \/ CanStore(d) /\ keyfile' = [keyfile EXCEPT ![op[d].name] = op[d].key]
    /\ Done(d)
    /\ Answer(d, TRUE)
    /\ UNCHANGED <<disk, keychain, database, issued>>

\* No copy of the key under the old name: nothing to move, and no warning.
NothingToMove(d) ==
    /\ At(d, "storing") /\ ~CanStore(d)
    /\ Done(d)
    /\ Answer(d, FALSE)
    /\ UNCHANGED <<disk, vault, database, issued>>

ClearKeychain(d) ==
    /\ At(d, "clearing keychain")
    /\ \E cleared \in BOOLEAN :
          /\ keychain' = IF cleared THEN [keychain EXCEPT ![op[d].old] = None] ELSE keychain
          /\ Step(d, [op[d] EXCEPT !.stage = "clearing file", !.cleared = cleared])
    /\ UNCHANGED <<disk, keyfile, database, reply, issued>>

ClearFile_LastResult(d) ==
    /\ At(d, "clearing file")
    /\ \E cleared \in BOOLEAN :
          /\ keyfile' = IF cleared THEN [keyfile EXCEPT ![op[d].old] = None] ELSE keyfile
          /\ Answer(d, ~cleared)
    /\ Done(d)
    /\ Promise(op[d].name, op[d].key)
    /\ UNCHANGED <<file, lock, used, keychain, database, issued>>

\* The answer warns when either copy could not be deleted.
ClearFile(d) ==
    /\ At(d, "clearing file")
    /\ \E cleared \in BOOLEAN :
          /\ keyfile' = IF cleared THEN [keyfile EXCEPT ![op[d].old] = None] ELSE keyfile
          /\ Answer(d, ~(op[d].cleared /\ cleared))
    /\ Done(d)
    /\ Promise(op[d].name, op[d].key)
    /\ UNCHANGED <<file, lock, used, keychain, database, issued>>

-----------------------------------------------------------------------------

\* A process dies, or its user stops it, anywhere in a command.
Crash(p) ==
    /\ op[p] # None
    /\ Done(p)
    /\ Release(p)
    /\ UNCHANGED <<file, used, promised, vault, database, reply, issued>>

NewKeys == (Keys \ issued) \cup {None}

\* The steps of a process that holds the lock; they end by giving it up.
Save(p) == SaveEdit(p) \/ SaveFirst(p) \/ SaveFails(p)

Next ==
    \/ \E p \in Processes : \/ \E path \in Paths, e \in Edits : BeginEdit(p, path, e)
                            \/ \E path \in Paths, key \in NewKeys : BeginInit(p, path, key)
                            \/ \E key \in NewKeys : EditUnderLock(p, key)
                            \/ EditRefused(p)
                            \/ InitRefused(p)
                            \/ InitUnderLock(p)
                            \/ InitFails(p)
                            \/ Save(p)
                            \/ Crash(p)
    \/ StoreInKeychain(Desktop)
    \/ StoreInFile(Desktop)
    \/ StoreFails(Desktop)
    \/ NothingToMove(Desktop)
    \/ ClearKeychain(Desktop)
    \/ ClearFile(Desktop)

Spec == Init /\ [][Next]_vars

\* A process that holds the lock goes on, saves or fails: its steps are blocking calls
\* that return.  Nothing is assumed of who gets the lock next.
FairSpec == Spec /\ \A p \in Processes : WF_vars(Save(p))

-----------------------------------------------------------------------------

TypeOK ==
    /\ file \in Config \cup {None}
    /\ lock \in [Paths -> Processes \cup {None}]
    /\ op \in [Processes -> Op \cup {None}]
    /\ keychain \in [Names -> Keys \cup {None}] /\ keyfile \in [Names -> Keys \cup {None}]
    /\ affiliations \subseteq {Affiliation[p] : p \in Processes}
    /\ reply \in [old : Names, key : Keys, error : BOOLEAN] \cup {None}
    /\ issued \subseteq Keys /\ used \subseteq Keys
    /\ promised \subseteq Names \X Keys

\* A copy that is about to replace the file is one that loading accepts: no edit of a
\* valid configuration leaves a default client or a key without its client, or one key
\* with two clients, which would make every later command fail (Config::validate).
EditsStayValid == \A p \in Processes : At(p, "saving") => Valid(op[p].copy)

\* An init that has written the database does not find, when it publishes, that another
\* one was faster: the loser of two concurrent first runs leaves no trace in the
\* database (first_run.rs: setup; create_with).
LoserLeavesNoTrace ==
    \A p \in Processes : At(p, "saving") /\ op[p].edit = None => file = None

\* Once there is a configuration, its default client, under whatever name, has a scope
\* that the database knows (create_with publishes after it has initialized).
DefaultScopeExists ==
    file # None /\ Start = None =>
        \E p \in Processes : /\ file.clients[file.default] = HumanIdentity[p]
                             /\ Existing(Affiliation[p].name) # {}

\* First runs that fail between the database and the file, and are run again, register
\* and audit an affiliation once (initialize_affiliation, setup).
AffiliationsAuditedOnce ==
    \A p \in Processes :
        LET name == Affiliation[p].name
        IN  Cardinality({i \in DOMAIN audit : audit[i].name = name})
                = Cardinality(Existing(name))

\* However many first runs race, fail half way and are run again, what they leave is
\* what one undisturbed first run leaves (first_run.rs: setup; create_with).
FirstRunHolds == LoserLeavesNoTrace /\ DefaultScopeExists /\ AffiliationsAuditedOnce

\* While a client keeps the key that the desktop reported as stored, the desktop can
\* show it again, whatever failed or was renamed since (store_with, move_with,
\* load_matching_key).
StoredKeysRetrievable ==
    \A x \in promised : LoadMatching(x[1], x[2]) = x[2]

\* After a rename that was answered without a warning, no copy of the client's key is
\* left under the old name (MovedKey::old_removed).
NoCopyLeftSilently ==
    reply # None /\ ~reply.error => reply.key \notin {keychain[reply.old], keyfile[reply.old]}

\* A key that was replaced, and is in the file no more, never comes back: no command
\* saves a copy that it loaded before the replacement (Config::update).
ReplacedKeysStayOut == [][(KeysOf(file') \ KeysOf(file)) \cap used = {}]_vars

\* A key that outlives a step names the same role and default scope after it: no
\* rename, and no rename concurrent with another edit, changes what a key may do.
AuthorityKept ==
    [][\A m, n \in Names :
          file # None /\ file' # None /\ file.keys[m] # None /\ file'.keys[n] = file.keys[m]
              => file'.clients[n] = file.clients[m]]_vars

\* The lock is never kept for good: each command that takes it gives it up, on every
\* way out of the update.
LockGivenUp == \A x \in Paths : lock[x] # None ~> lock[x] = None

\* The promise this module keeps: nothing of an edit is lost, and each edit is made on
\* what the one before it left.
Registry == INSTANCE ClientRegistry WITH
    registry <- file,
    Firsts   <- {FirstConfig(p, key) : p \in Processes, key \in Keys \cup {None}}

ImplementsClientRegistry == Registry!Spec
=============================================================================

----------------------------- MODULE ClientConfig -----------------------------
(***************************************************************************)
(* What config.toml says about clients, and the edits of it.                *)
(*                                                                         *)
(* A configuration maps the name of each registered client to its identity *)
(* (role and default scope), some of the names to an API key, and may name  *)
(* a default client.  The file holds the hashes of the keys; a hash stands  *)
(* for its key here.  Paths, ports and source settings, which no edit below *)
(* changes, are left out.                                                   *)
(***************************************************************************)
CONSTANTS
    Names,          \* client names, trimmed and without control characters
    Identities,     \* pairs of a role and a default scope
    Keys,           \* random API keys
    None

Config ==
    [clients : [Names -> Identities \cup {None}],
     keys    : [Names -> Keys \cup {None}],
     default : Names \cup {None}]

ASSUME ConfigAssumption ==
    /\ None \notin Names \cup Identities \cup Keys
    /\ None \notin Config

Registered(c, n) == n # None /\ c.clients[n] # None

KeysOf(c) == IF c = None THEN {} ELSE {c.keys[n] : n \in Names} \ {None}

\* Loading and every save refuse a configuration that is not valid.
Valid(c) ==
    /\ c.default # None => Registered(c, c.default)
    /\ \A n \in Names : c.keys[n] # None => Registered(c, n)
    /\ \A m, n \in Names : c.keys[m] # None /\ c.keys[m] = c.keys[n] => m = n

-----------------------------------------------------------------------------
(* The three edits of the settings commands. *)

\* issues: the edit generates a key.  new: the new name of a rename.
Edit ==
    [type : {"add", "keygen", "rename"}, name : Names, new : Names \cup {None},
     identity : Identities \cup {None}, issues : BOOLEAN]

WellFormed(e) ==
    /\ e.type = "add" => e.identity # None
    /\ e.type = "keygen" => e.issues
    /\ e.type = "rename" => e.new # None /\ ~e.issues

AddClient(c, name, identity, key) ==
    [clients |-> [c.clients EXCEPT ![name] = identity],
     keys    |-> IF key = None THEN c.keys ELSE [c.keys EXCEPT ![name] = key],
     default |-> c.default]

Keygen(c, name, key) == [c EXCEPT !.keys = [c.keys EXCEPT ![name] = key]]

Moved(row, old, new) == [row EXCEPT ![new] = row[old], ![old] = None]

RenameClient_DefaultStays(c, old, new) ==
    [clients |-> Moved(c.clients, old, new),
     keys    |-> Moved(c.keys, old, new),
     default |-> c.default]

\* The hash is moved when there is one; a new name that is free has no hash that could
\* stay (Valid), so that the column moves in both cases.
RenameClient(c, old, new) ==
    [clients |-> Moved(c.clients, old, new),
     keys    |-> Moved(c.keys, old, new),
     default |-> IF c.default = old THEN new ELSE c.default]

CanApply_AddReplaces(c, e) ==
    CASE e.type = "add"    -> TRUE
      [] e.type = "keygen" -> Registered(c, e.name)
      [] e.type = "rename" -> ~Registered(c, e.new) /\ Registered(c, e.name)

\* The edit finds the clients it names; otherwise it is refused and nothing is saved.
CanApply(c, e) ==
    CASE e.type = "add"    -> ~Registered(c, e.name)
      [] e.type = "keygen" -> Registered(c, e.name)
      [] e.type = "rename" -> ~Registered(c, e.new) /\ Registered(c, e.name)

Apply(c, e, key) ==
    CASE e.type = "add"    -> AddClient(c, e.name, e.identity, key)
      [] e.type = "keygen" -> Keygen(c, e.name, key)
      [] e.type = "rename" -> RenameClient(c, e.name, e.new)

\* The name the edited client has afterwards.
NameAfter(e) == IF e.type = "rename" THEN e.new ELSE e.name
=============================================================================

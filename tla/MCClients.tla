------------------------------ MODULE MCClients ------------------------------
(***************************************************************************)
(* No configuration yet: the desktop's setup and gaia init race, fail, die  *)
(* and are run again, with the same affiliation and different identities.   *)
(* Then the desktop and the command line edit the clients at the same time, *)
(* one of them through a symbolic link: the default client is renamed, gets *)
(* new keys, and is renamed back or loses its old name to a new client.     *)
(***************************************************************************)
EXTENDS ConfigStore, TLC

CONSTANTS me, agent, bot, human, worker, k1, k2, direct, link, broken, work, desktop, cli

MCTarget == [x \in Paths |-> IF x = broken THEN None ELSE direct]

Rename(old, new) ==
    [type |-> "rename", name |-> old, new |-> new, identity |-> None, issues |-> FALSE]

MCEdits ==
    {[type |-> "add", name |-> bot, new |-> None, identity |-> worker, issues |-> FALSE],
     [type |-> "keygen", name |-> me, new |-> None, identity |-> None, issues |-> TRUE],
     Rename(me, bot), Rename(bot, me)}

MCHuman == [p \in Processes |-> me]
MCHumanIdentity == [p \in Processes |-> human]
MCAffiliation ==
    [p \in Processes |-> [name |-> work, identity |-> IF p = desktop THEN None ELSE me]]
=============================================================================

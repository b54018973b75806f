---------------------------- MODULE ClientRegistry ----------------------------
(***************************************************************************)
(* What the users of config.toml rely on: one registry of clients that is   *)
(* created once, and changed by one whole edit at a time, each applied to   *)
(* what the previous one left.  Keys are new when they are issued.          *)
(***************************************************************************)
EXTENDS ClientConfig

CONSTANTS Start, Firsts     \* the registry found at the start; the first registries

VARIABLES registry, used    \* used: every key the registry has held so far

vars == <<registry, used>>

Init == registry = Start /\ used = KeysOf(Start)

Create ==
    /\ registry = None
    /\ \E c \in Firsts : registry' = c /\ KeysOf(c) \cap used = {}
    /\ used' = used \cup KeysOf(registry')

Change ==
    /\ registry # None /\ registry' # registry
    /\ \E e \in Edit, key \in (Keys \ used) \cup {None} :
          /\ WellFormed(e)
          /\ e.issues <=> key # None
          /\ CanApply(registry, e)
          /\ registry' = Apply(registry, e, key)
    /\ used' = used \cup KeysOf(registry')

Next == Create \/ Change

Spec == Init /\ [][Next]_vars
=============================================================================

---------------------------- MODULE MCScopedRetries ----------------------------
(***************************************************************************)
(* Retries and scopes.  An agent whose default scope is "home" and a human  *)
(* without one send the same few contents, with every form of provenance,   *)
(* to two scopes under the same request ids, while the human decides them   *)
(* in one scope or across both.  The queue takes one undecided proposal of  *)
(* a client in a scope.                                                     *)
(***************************************************************************)
EXTENDS ProposalQueue, TLC

CONSTANTS bot, me, home, away, short, huge, v, role, gossip

Person1 == [type |-> "person", id |-> 1]

SeedRow(sc, parent) ==
    [scope |-> sc, parent |-> parent, people |-> {}, predicate |-> None,
     value |-> None, text |-> short, superseded_by |-> 0]

Engagement1 == [type |-> "engagement", id |-> 1]

\* Ref 1 and engagement 1 belong to "home".
MCSeed == [t \in TargetTypes |->
    CASE t = "person" -> <<SeedRow(Shared, NoLink)>>
      [] t = "ref"    -> <<SeedRow(home, Person1)>>
      [] t = "engagement" -> <<SeedRow(home, NoLink)>>
      [] OTHER        -> <<>>]

MCDefaultScope == [c \in Clients |-> IF c = bot THEN {home} ELSE {}]

NewFact(about, predicate, text, given, ref_id, inline) ==
    [target_type |-> "fact", action |-> "insert", target_id |-> 0,
     patch |-> [EmptyPatch EXCEPT !.parent = about, !.predicate = predicate, !.text = text,
                                  !.value = IF predicate = None THEN None ELSE v],
     provenance |-> [given |-> given, ref_id |-> ref_id, inline |-> inline]]

\* One content with no source, an empty one, an inline one and a ref_id, the third about
\* the engagement that only "home" may link to; then contents that propose_update refuses:
\* both forms of source, a source without its note, an unregistered predicate and an
\* oversized text.
MCSubmissions == {
    NewFact(Person1, None, short, FALSE, 0, None),
    NewFact(Person1, None, short, TRUE, 0, None),
    NewFact(Engagement1, None, short, TRUE, 0, short),
    NewFact(Person1, None, short, TRUE, 1, None),
    NewFact(Person1, None, short, TRUE, 1, short),
    NewFact(Person1, None, short, TRUE, 0, Blank),
    NewFact(Person1, gossip, short, FALSE, 0, None),
    NewFact(Person1, None, huge, FALSE, 0, None)}

Interchangeable == Permutations(RequestIds)
=============================================================================

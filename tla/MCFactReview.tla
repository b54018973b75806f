------------------------------ MODULE MCFactReview ------------------------------
(***************************************************************************)
(* Facts under review.  The library holds two people and a fact without a   *)
(* predicate about the first.  A human client sends partial updates and     *)
(* supersedes that all name this fact or its first successor, and two       *)
(* workers decide them in every order.                                      *)
(***************************************************************************)
EXTENDS ProposalQueue, TLC

CONSTANTS me, work, t1, t2, v1, v2, status, role

Person(n) == [type |-> "person", id |-> n]

SeedRow(sc, parent) ==
    [scope |-> sc, parent |-> parent, people |-> {}, predicate |-> None,
     value |-> None, text |-> t1, superseded_by |-> 0]

MCSeed == [t \in TargetTypes |->
    CASE t = "person" -> <<SeedRow(Shared, NoLink), SeedRow(Shared, NoLink)>>
      [] t = "fact"   -> <<SeedRow(work, Person(1))>>
      [] OTHER        -> <<>>]

MCDefaultScope == [c \in Clients |-> {}]

FactContent(action, id, parent, predicate, value, text, provenance) ==
    [target_type |-> "fact", action |-> action, target_id |-> id,
     patch |-> [EmptyPatch EXCEPT !.parent = parent, !.predicate = predicate,
                                  !.value = value, !.text = text],
     provenance |-> provenance]

Inline == [given |-> TRUE, ref_id |-> 0, inline |-> t2]

\* In order: a value for whatever predicate the fact has; a pair; a predicate alone; a
\* sourced supersede; a supersede of the first successor; one about another person.
MCSubmissions == {
    FactContent("update", 1, NoLink, None, v2, None, NoProvenance),
    FactContent("update", 1, NoLink, status, v1, None, NoProvenance),
    FactContent("update", 2, NoLink, status, None, None, NoProvenance),
    FactContent("supersede", 1, Person(1), role, v2, t2, Inline),
    FactContent("supersede", 2, Person(1), None, None, t2, NoProvenance),
    FactContent("supersede", 1, Person(2), None, None, t1, NoProvenance)}

Interchangeable == Permutations(RequestIds) \cup Permutations(Workers)
=============================================================================

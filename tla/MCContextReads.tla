---------------------------- MODULE MCContextReads ----------------------------
(***************************************************************************)
(* A memory with one row of most tables in "home" and one in "away", read   *)
(* through every tool, by id and by name, in one scope, in both, in none    *)
(* and in one that is not registered, while two of seven approvals commit.  *)
(* "ann" and "anna" are one name to normalize_name; "guest" is nobody's.    *)
(***************************************************************************)
EXTENDS ContextReads

CONSTANTS home, away, lost, ann, anna, bob, guest, note

At(t, id) == [type |-> t, id |-> id]

SeedRow(sc, parent, people, text) ==
    [scope |-> sc, parent |-> parent, people |-> people, predicate |-> None,
     value |-> None, text |-> text, superseded_by |-> 0]

MCSeed == [t \in TargetTypes |->
    CASE t = "organization" -> <<SeedRow(Shared, NoLink, {}, note)>>
      [] t = "person"       -> <<SeedRow(Shared, At("organization", 1), {}, anna),
                                 SeedRow(Shared, NoLink, {}, bob)>>
      [] t = "entity"       -> <<SeedRow(Shared, NoLink, {}, note)>>
      [] t = "engagement"   -> <<SeedRow(home, At("organization", 1), {1}, note),
                                 SeedRow(away, At("organization", 1), {1, 2}, note)>>
      [] t = "interaction"  -> <<SeedRow(home, At("engagement", 1), {1}, note),
                                 SeedRow(away, At("engagement", 2), {1}, bob)>>
      [] t = "glossary"     -> <<SeedRow(home, At("engagement", 1), {}, note),
                                 SeedRow(away, At("engagement", 2), {}, note)>>
      [] t = "fact"         -> <<SeedRow(home, At("person", 1), {}, note),
                                 SeedRow(away, At("person", 1), {}, note)>>
      [] t = "ref"          -> <<SeedRow(home, At("fact", 1), {}, note),
                                 SeedRow(away, At("person", 1), {}, note)>>]

MCNormal == [t \in Texts |-> CASE t = anna -> ann [] t = guest -> Blank [] OTHER -> t]

Change(sc, t, action, id, parent, people, text, names, source) ==
    [scope |-> sc, target_type |-> t, action |-> action, target_id |-> id,
     patch |-> [EmptyPatch EXCEPT !.parent = parent, !.people = people, !.text = text],
     aliases |-> names, source |-> source]

MCApprovals == {
    Change(home, "fact", "supersede", 1, At("person", 1), {}, bob, {}, note),
    Change(home, "fact", "insert", 0, At("engagement", 1), {}, note, {}, note),
    Change(home, "fact", "update", 1, NoLink, {}, bob, {}, note),
    Change(away, "interaction", "insert", 0, At("engagement", 2), {1}, note, {}, None),
    Change(home, "person", "update", 1, NoLink, {}, bob, {}, None),
    Change(home, "person", "insert", 0, NoLink, {}, guest, {ann}, None),
    Change(home, "engagement", "update", 1, NoLink, {2}, None, {}, None)}

Subjects == {"get_person", "get_organization", "get_engagement"}

MCAsks ==
    [tool : Subjects, id : {1, 2}, name : {None}, requested : {{}, {home}, {home, away}, {lost}}]
    \cup [tool : Subjects, id : {0}, name : {ann, bob, note}, requested : {{home}, {home, away}}]
    \cup [tool : {"get_glossary"}, id : {0, 1, 2}, name : {None}, requested : {{home}, {home, away}}]
    \cup [tool : {"resolve_speakers"}, id : {0, 1, 2}, name : {anna, bob, guest}, requested : {{home}}]
    \cup [tool : {"search_context"}, id : {0}, name : {bob, note}, requested : {{home}, {home, away}}]
=============================================================================

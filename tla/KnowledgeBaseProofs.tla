-------------------------- MODULE KnowledgeBaseProofs --------------------------
(***************************************************************************)
(* What the storage operators preserve, for every value of the constants.   *)
(***************************************************************************)
EXTENDS KnowledgeBase, SequenceTheorems, TLAPS

\* A link's table is a table, for every table that has a parent column.
LEMMA ParentTypesType == ParentTypes \in [TargetTypes -> SUBSET TargetTypes]
  BY DEF ParentTypes, TargetTypes, IdentityTypes, ContentTypes

\* NewRow and Merged build rows (the INSERT and UPDATE statements of storage/).
LEMMA NewRowType ==
  ASSUME NEW t \in TargetTypes, NEW patch \in Patch, NEW scope \in Scopes
  PROVE  NewRow(t, patch, scope) \in Row
  BY DEF NewRow, Row, Patch

\* An update leaves a row of the row type.
LEMMA MergedType ==
  ASSUME NEW row \in Row, NEW patch \in Patch
  PROVE  Merged(row, patch) \in Row
  BY DEF Merged, Coalesce, Row, Patch

\* Linking a row to its successor leaves a row of the row type.
LEMMA SupersededRowType ==
  ASSUME NEW row \in Row, NEW n \in Nat
  PROVE  [row EXCEPT !.superseded_by = n] \in Row
  BY DEF Row

\* Inserting appends one row to one table and leaves every other row alone.
LEMMA InsertEffect ==
  ASSUME NEW d \in Database, NEW t \in TargetTypes,
         NEW patch \in Patch, NEW scope \in Scopes
  PROVE  LET e == Insert(d, t, patch, scope)
         IN  /\ e \in Database
             /\ \A u \in TargetTypes : u # t => e[u] = d[u]
             /\ Len(e[t]) = Len(d[t]) + 1
             /\ \A i \in DOMAIN d[t] : e[t][i] = d[t][i]
             /\ e[t][Len(d[t]) + 1] = NewRow(t, patch, scope)
<1> DEFINE row == NewRow(t, patch, scope)
           e   == Insert(d, t, patch, scope)
<1>1. row \in Row
  BY NewRowType
<1>2. d[t] \in Seq(Row)
  BY DEF Database
<1>3. /\ Append(d[t], row) \in Seq(Row)
      /\ Len(Append(d[t], row)) = Len(d[t]) + 1
      /\ \A i \in DOMAIN d[t] : Append(d[t], row)[i] = d[t][i]
      /\ Append(d[t], row)[Len(d[t]) + 1] = row
  BY <1>1, <1>2, LenProperties
<1>4. e = [d EXCEPT ![t] = Append(d[t], row)]
  BY DEF Insert
<1> QED
  BY <1>3, <1>4 DEF Database

\* An update rewrites one row of one table.
LEMMA UpdateEffect ==
  ASSUME NEW d \in Database, NEW t \in TargetTypes,
         NEW id \in DOMAIN d[t], NEW patch \in Patch
  PROVE  LET e == Update(d, t, id, patch)
         IN  /\ e \in Database
             /\ \A u \in TargetTypes : u # t => e[u] = d[u]
             /\ Len(e[t]) = Len(d[t])
             /\ DOMAIN e[t] = DOMAIN d[t]
             /\ \A i \in DOMAIN d[t] : i # id => e[t][i] = d[t][i]
             /\ e[t][id] = Merged(d[t][id], patch)
<1> DEFINE row == Merged(d[t][id], patch)
           e   == Update(d, t, id, patch)
           tab == [d[t] EXCEPT ![id] = row]
<1>1. d[t] \in Seq(Row) /\ id \in 1..Len(d[t])
  BY LenProperties DEF Database
<1>2. row \in Row
  BY <1>1, ElementOfSeq, MergedType
<1>3. /\ tab \in Seq(Row)
      /\ Len(tab) = Len(d[t])
      /\ \A j \in 1..Len(d[t]) : tab[j] = IF j = id THEN row ELSE d[t][j]
  BY <1>1, <1>2, ExceptSeq
<1>4. DOMAIN tab = DOMAIN d[t] /\ DOMAIN d[t] = 1..Len(d[t])
  BY <1>1, LenProperties
<1>5. e = [d EXCEPT ![t] = tab]
  BY DEF Update
<1> HIDE DEF row, tab
<1>6. e[t] = tab /\ e \in Database /\ \A u \in TargetTypes : u # t => e[u] = d[u]
  BY <1>3, <1>5 DEF Database
<1> QED
  BY <1>1, <1>3, <1>4, <1>6 DEF row

\* A supersede appends one fact and marks one older fact with its id.
LEMMA SupersedeEffect ==
  ASSUME NEW d \in Database, NEW id \in DOMAIN d["fact"],
         NEW patch \in Patch, NEW scope \in Scopes
  PROVE  LET e == Supersede(d, id, patch, scope)
             n == Len(d["fact"]) + 1
         IN  /\ e \in Database
             /\ \A u \in TargetTypes : u # "fact" => e[u] = d[u]
             /\ Len(e["fact"]) = n
             /\ \A i \in DOMAIN d["fact"] : i # id => e["fact"][i] = d["fact"][i]
             /\ e["fact"][id] = [d["fact"][id] EXCEPT !.superseded_by = n]
             /\ e["fact"][n] = NewRow("fact", patch, scope)
<1> DEFINE m   == Insert(d, "fact", patch, scope)
           n   == Len(d["fact"]) + 1
           row == [d["fact"][id] EXCEPT !.superseded_by = n]
           tab == [m["fact"] EXCEPT ![id] = row]
           e   == Supersede(d, id, patch, scope)
<1>1. "fact" \in TargetTypes
  BY DEF TargetTypes, ContentTypes
<1>2. d["fact"] \in Seq(Row) /\ id \in 1..Len(d["fact"]) /\ Len(d["fact"]) \in Nat
  BY <1>1, LenProperties DEF Database
<1>3. /\ m \in Database
      /\ \A u \in TargetTypes : u # "fact" => m[u] = d[u]
      /\ Len(m["fact"]) = n
      /\ \A i \in DOMAIN d["fact"] : m["fact"][i] = d["fact"][i]
      /\ m["fact"][n] = NewRow("fact", patch, scope)
  BY <1>1, InsertEffect
<1>4. m["fact"] \in Seq(Row) /\ id \in 1..Len(m["fact"]) /\ n \in 1..Len(m["fact"]) /\ n # id
  BY <1>1, <1>2, <1>3 DEF Database
<1>5. d["fact"][id] \in Row
  BY <1>2, ElementOfSeq
<1>6. row \in Row
  <2>1. n \in Nat
    BY <1>2
  <2> QED
    BY <1>5, <2>1, SupersededRowType
<1>7. /\ tab \in Seq(Row)
      /\ Len(tab) = Len(m["fact"])
      /\ \A j \in 1..Len(m["fact"]) : tab[j] = IF j = id THEN row ELSE m["fact"][j]
  BY <1>4, <1>6, ExceptSeq
<1>8. e = [m EXCEPT !["fact"] = tab]
  <2>1. m["fact"][id] = d["fact"][id]
    BY <1>3
  <2>2. e = [m EXCEPT !["fact"] =
                [m["fact"] EXCEPT ![id] = [m["fact"][id] EXCEPT !.superseded_by = n]]]
    BY <1>3 DEF Supersede
  <2> QED
    BY <2>1, <2>2
<1> HIDE DEF m, row, tab, e
<1>9. e["fact"] = tab /\ e \in Database /\ \A u \in TargetTypes : u # "fact" => e[u] = m[u]
  BY <1>1, <1>3, <1>7, <1>8 DEF Database
<1> DEFINE f == d["fact"]
<1>10. \A i \in 1..Len(f) : i \in 1..Len(m["fact"])
  BY <1>2, <1>3
<1>11. DOMAIN f = 1..Len(f)
  BY <1>2, LenProperties
<1> QED
  BY <1>2, <1>3, <1>4, <1>7, <1>9, <1>10, <1>11 DEF row, e

-----------------------------------------------------------------------------
(* Preservation of the table predicates. *)

\* The fact table is a sequence of rows with the ids 1 .. length.
LEMMA FactTable ==
  ASSUME NEW d \in Database
  PROVE  /\ "fact" \in TargetTypes
         /\ d["fact"] \in Seq(Row)
         /\ Len(d["fact"]) \in Nat
         /\ DOMAIN d["fact"] = 1..Len(d["fact"])
         /\ \A i \in DOMAIN d["fact"] : d["fact"][i] \in Row
<1>1. "fact" \in TargetTypes
  BY DEF TargetTypes, ContentTypes
<1>2. d["fact"] \in Seq(Row)
  BY <1>1 DEF Database
<1> QED
  BY <1>1, <1>2, LenProperties, ElementOfSeq

\* A new row supersedes nothing and is superseded by nothing.
LEMMA InsertKeepsLinear ==
  ASSUME NEW d \in Database, Linear(d), NEW t \in TargetTypes,
         NEW patch \in Patch, NEW scope \in Scopes
  PROVE  Linear(Insert(d, t, patch, scope))
<1> DEFINE e == Insert(d, t, patch, scope)
           f == d["fact"]
           g == e["fact"]
<1>1. /\ e \in Database
      /\ \A u \in TargetTypes : u # t => e[u] = d[u]
      /\ Len(e[t]) = Len(d[t]) + 1
      /\ \A i \in DOMAIN d[t] : e[t][i] = d[t][i]
      /\ e[t][Len(d[t]) + 1] = NewRow(t, patch, scope)
  BY InsertEffect
<1> HIDE DEF e
<1>2. "fact" \in TargetTypes /\ Len(f) \in Nat /\ DOMAIN f = 1..Len(f) /\ DOMAIN g = 1..Len(g)
  BY <1>1, FactTable
<1>3. CASE t # "fact"
  BY <1>1, <1>2, <1>3 DEF Linear, e
<1>4. CASE t = "fact"
  <2>1. /\ Len(g) = Len(f) + 1
        /\ \A i \in 1..Len(f) : g[i] = f[i]
        /\ g[Len(f) + 1].superseded_by = 0
    BY <1>1, <1>2, <1>4 DEF NewRow
  <2>2. SUFFICES ASSUME NEW i \in 1..Len(g), g[i].superseded_by # 0
                 PROVE  LET next == g[i].superseded_by
                        IN  /\ next \in 1..Len(g) /\ i < next
                            /\ g[next].scope = g[i].scope
                            /\ g[next].parent = g[i].parent
                            /\ \A j \in 1..Len(g) : g[j].superseded_by = next => j = i
    BY <1>2 DEF Linear, e
  <2>3. i \in 1..Len(f) /\ g[i] = f[i]
    BY <1>2, <2>1, <2>2
  <2> DEFINE next == f[i].superseded_by
  <2>4. /\ next # 0 /\ next \in 1..Len(f) /\ i < next
        /\ f[next].scope = f[i].scope
        /\ f[next].parent = f[i].parent
        /\ \A j \in 1..Len(f) : f[j].superseded_by = next => j = i
    BY <1>2, <2>2, <2>3 DEF Linear
  <2> HIDE DEF f, g, next
  <2>5. \A j \in 1..Len(g) : g[j].superseded_by = next => j = i
    BY <1>2, <2>1, <2>4
  <2> QED
    BY <1>2, <2>1, <2>3, <2>4, <2>5 DEF next
<1> QED
  BY <1>3, <1>4

\* An update changes neither the scope nor the successor of a row, and in a current
\* fact it leaves the parent alone.
LEMMA UpdateKeepsLinear ==
  ASSUME NEW d \in Database, Linear(d), NEW t \in TargetTypes,
         NEW patch \in Patch, NEW scope, NEW id,
         CanUpdate(d, t, id, patch, scope)
  PROVE  Linear(Update(d, t, id, patch))
<1> DEFINE e == Update(d, t, id, patch)
           f == d["fact"]
           g == e["fact"]
<1>1. id \in DOMAIN d[t]
  BY DEF CanUpdate, RowVisible
<1>2. /\ e \in Database
      /\ \A u \in TargetTypes : u # t => e[u] = d[u]
      /\ Len(e[t]) = Len(d[t])
      /\ DOMAIN e[t] = DOMAIN d[t]
      /\ \A i \in DOMAIN d[t] : i # id => e[t][i] = d[t][i]
      /\ e[t][id] = Merged(d[t][id], patch)
  BY <1>1, UpdateEffect
<1> HIDE DEF e
<1>3. "fact" \in TargetTypes
  BY FactTable
<1>4. CASE t # "fact"
  BY <1>2, <1>3, <1>4 DEF Linear, e
<1>5. CASE t = "fact"
  <2>1. patch.parent = NoLink
    BY <1>5 DEF CanUpdate
  <2>2. /\ g[id].scope = f[id].scope
        /\ g[id].parent = f[id].parent
        /\ g[id].superseded_by = f[id].superseded_by
    BY <1>2, <1>5, <2>1 DEF Merged, Coalesce
  <2>3. /\ DOMAIN g = DOMAIN f
        /\ \A i \in DOMAIN f : /\ g[i].scope = f[i].scope
                               /\ g[i].parent = f[i].parent
                               /\ g[i].superseded_by = f[i].superseded_by
    BY <1>2, <1>5, <2>2
  <2> QED
    BY <2>3 DEF Linear, e
<1> QED
  BY <1>4, <1>5

\* The superseded fact was current and the new one is the only row with the new id as
\* successor, about the same entity and in the same scope.
LEMMA SupersedeKeepsLinear ==
  ASSUME NEW d \in Database, Linear(d), NEW patch \in Patch, NEW scope \in Scopes,
         NEW id, CanSupersede(d, id, patch, scope)
  PROVE  Linear(Supersede(d, id, patch, scope))
<1> DEFINE e == Supersede(d, id, patch, scope)
           f == d["fact"]
           g == e["fact"]
           n == Len(f) + 1
<1>1. /\ id \in DOMAIN f /\ f[id].scope = scope
      /\ f[id].superseded_by = 0
      /\ f[id].parent = patch.parent
  BY DEF CanSupersede, RowVisible, ContentTypes
<1>2. /\ e \in Database
      /\ Len(g) = n
      /\ \A i \in DOMAIN f : i # id => g[i] = f[i]
      /\ g[id] = [f[id] EXCEPT !.superseded_by = n]
      /\ g[n] = NewRow("fact", patch, scope)
  BY <1>1, SupersedeEffect
<1> HIDE DEF e
<1>3. /\ Len(f) \in Nat /\ DOMAIN f = 1..Len(f) /\ DOMAIN g = 1..Len(g)
      /\ \A i \in DOMAIN f : f[i] \in Row
  BY <1>2, FactTable
<1>4. /\ g[id].scope = scope /\ g[id].parent = patch.parent /\ g[id].superseded_by = n
  <2>1. f[id] \in Row
    BY <1>1, <1>3
  <2> QED
    BY <1>1, <1>2, <2>1 DEF Row
<1>5. g[n].scope = scope /\ g[n].parent = patch.parent /\ g[n].superseded_by = 0
  BY <1>2 DEF NewRow, ContentTypes
<1>6. SUFFICES ASSUME NEW i \in 1..Len(g), g[i].superseded_by # 0
               PROVE  LET next == g[i].superseded_by
                      IN  /\ next \in 1..Len(g) /\ i < next
                          /\ g[next].scope = g[i].scope
                          /\ g[next].parent = g[i].parent
                          /\ \A j \in 1..Len(g) : g[j].superseded_by = next => j = i
  BY <1>3 DEF Linear, e
<1>7. \A j \in 1..Len(f) : f[j].superseded_by # 0 =>
          /\ f[j].superseded_by \in 1..Len(f) /\ j < f[j].superseded_by
          /\ f[f[j].superseded_by].scope = f[j].scope
          /\ f[f[j].superseded_by].parent = f[j].parent
          /\ \A k \in 1..Len(f) : f[k].superseded_by = f[j].superseded_by => k = j
  BY <1>3 DEF Linear
<1> HIDE DEF f, g, n
<1>8. i # n
  BY <1>5, <1>6
<1>9. i \in 1..Len(f)
  BY <1>2, <1>3, <1>6, <1>8 DEF n
<1>10. CASE i = id
  <2>1. \A j \in 1..Len(g) : g[j].superseded_by = n => j = id
    <3>1. SUFFICES ASSUME NEW j \in 1..Len(g), g[j].superseded_by = n, j # id
                   PROVE  FALSE
      OBVIOUS
    <3>2. j # n /\ n # 0
      BY <1>3, <1>5, <3>1 DEF n
    <3>3. j \in 1..Len(f) /\ f[j].superseded_by = n
      BY <1>2, <1>3, <3>1, <3>2 DEF n
    <3> QED
      BY <1>3, <1>7, <3>2, <3>3 DEF n
  <2>2. n \in 1..Len(g) /\ i < n
    BY <1>2, <1>3, <1>9 DEF n
  <2>3. g[i].superseded_by = n /\ g[n].scope = g[i].scope /\ g[n].parent = g[i].parent
    BY <1>4, <1>5, <1>10
  <2> QED
    BY <1>10, <2>1, <2>2, <2>3
<1>11. CASE i # id
  <2> DEFINE next == f[i].superseded_by
  <2>1. g[i] = f[i]
    BY <1>2, <1>3, <1>9, <1>11
  <2>2. /\ next # 0 /\ next \in 1..Len(f) /\ i < next
        /\ f[next].scope = f[i].scope /\ f[next].parent = f[i].parent
        /\ \A k \in 1..Len(f) : f[k].superseded_by = next => k = i
    BY <1>6, <1>7, <1>9, <2>1
  <2> HIDE DEF next
  <2>3. g[next].scope = f[next].scope /\ g[next].parent = f[next].parent
    BY <1>1, <1>2, <1>3, <1>4, <2>2
  <2>4. ASSUME NEW j \in 1..Len(g), g[j].superseded_by = next
        PROVE  j = i
    <3>1. next # n /\ next # 0
      BY <1>3, <2>2 DEF n
    <3>2. j # id /\ j # n
      BY <1>4, <1>5, <2>4, <3>1
    <3>3. j \in 1..Len(f) /\ g[j] = f[j]
      BY <1>2, <1>3, <3>2 DEF n
    <3> QED
      BY <2>2, <2>4, <3>3
  <2>5. next \in 1..Len(g)
    BY <1>2, <1>3, <2>2 DEF n
  <2> QED
    BY <2>1, <2>2, <2>3, <2>4, <2>5 DEF next
<1> QED
  BY <1>10, <1>11

-----------------------------------------------------------------------------
(* Predicate pairs. *)

\* An insertion into any table keeps the predicate pairs, given that a new fact
\* brings an allowed one.
LEMMA InsertKeepsPairs ==
  ASSUME NEW d \in Database, PairsAllowed(d), NEW t \in TargetTypes,
         NEW patch \in Patch, NEW scope \in Scopes,
         t = "fact" => PairAllowed(patch.predicate, patch.value)
  PROVE  PairsAllowed(Insert(d, t, patch, scope))
<1> DEFINE e == Insert(d, t, patch, scope)
<1>1. /\ e \in Database
      /\ \A u \in TargetTypes : u # t => e[u] = d[u]
      /\ Len(e[t]) = Len(d[t]) + 1
      /\ \A i \in DOMAIN d[t] : e[t][i] = d[t][i]
      /\ e[t][Len(d[t]) + 1] = NewRow(t, patch, scope)
  BY InsertEffect
<1> HIDE DEF e
<1>2. /\ "fact" \in TargetTypes /\ Len(d["fact"]) \in Nat
      /\ DOMAIN d["fact"] = 1..Len(d["fact"]) /\ DOMAIN e["fact"] = 1..Len(e["fact"])
  BY <1>1, FactTable
<1>3. CASE t # "fact"
  BY <1>1, <1>2, <1>3 DEF PairsAllowed, e
<1>4. CASE t = "fact"
  <2>1. LET r == e["fact"][Len(d["fact"]) + 1] IN PairAllowed(r.predicate, r.value)
    BY <1>1, <1>4 DEF NewRow
  <2> QED
    BY <1>1, <1>2, <1>4, <2>1 DEF PairsAllowed, e
<1> QED
  BY <1>3, <1>4

\* A partial update keeps the pairs: facts::update checks the merged pair.
LEMMA UpdateKeepsPairs ==
  ASSUME NEW d \in Database, PairsAllowed(d), NEW t \in TargetTypes,
         NEW patch \in Patch, NEW scope, NEW id,
         CanUpdate(d, t, id, patch, scope)
  PROVE  PairsAllowed(Update(d, t, id, patch))
<1> DEFINE e == Update(d, t, id, patch)
<1>1. id \in DOMAIN d[t]
  BY DEF CanUpdate, RowVisible
<1>2. /\ e \in Database
      /\ \A u \in TargetTypes : u # t => e[u] = d[u]
      /\ DOMAIN e[t] = DOMAIN d[t]
      /\ \A i \in DOMAIN d[t] : i # id => e[t][i] = d[t][i]
      /\ e[t][id] = Merged(d[t][id], patch)
  BY <1>1, UpdateEffect
<1>3. "fact" \in TargetTypes
  BY FactTable
<1> HIDE DEF e
<1>4. CASE t # "fact"
  BY <1>2, <1>3, <1>4 DEF PairsAllowed, e
<1>5. CASE t = "fact"
  <2>1. PairAllowed(e["fact"][id].predicate, e["fact"][id].value)
    BY <1>2, <1>5 DEF CanUpdate
  <2> QED
    BY <1>2, <1>5, <2>1 DEF PairsAllowed, e
<1> QED
  BY <1>4, <1>5

\* Superseding keeps the pairs: the new fact is inserted as any other.
LEMMA SupersedeKeepsPairs ==
  ASSUME NEW d \in Database, PairsAllowed(d), NEW patch \in Patch, NEW scope \in Scopes,
         NEW id, CanSupersede(d, id, patch, scope),
         PairAllowed(patch.predicate, patch.value)
  PROVE  PairsAllowed(Supersede(d, id, patch, scope))
<1> DEFINE e == Supersede(d, id, patch, scope)
           f == d["fact"]
           n == Len(f) + 1
<1>1. id \in DOMAIN f
  BY DEF CanSupersede, RowVisible
<1>2. /\ e \in Database
      /\ Len(e["fact"]) = n
      /\ \A i \in DOMAIN f : i # id => e["fact"][i] = f[i]
      /\ e["fact"][id] = [f[id] EXCEPT !.superseded_by = n]
      /\ e["fact"][n] = NewRow("fact", patch, scope)
  BY <1>1, SupersedeEffect
<1> HIDE DEF e
<1>3. /\ Len(f) \in Nat /\ DOMAIN f = 1..Len(f) /\ DOMAIN e["fact"] = 1..Len(e["fact"])
      /\ f[id] \in Row
  BY <1>1, <1>2, FactTable
<1>4. e["fact"][id].predicate = f[id].predicate /\ e["fact"][id].value = f[id].value
  BY <1>2, <1>3 DEF Row
<1>5. e["fact"][n].predicate = patch.predicate /\ e["fact"][n].value = patch.value
  BY <1>2 DEF NewRow
<1>6. \A i \in 1..Len(f) : PairAllowed(f[i].predicate, f[i].value)
  BY <1>3 DEF PairsAllowed
<1> HIDE DEF f
<1>7. ASSUME NEW i \in 1..Len(e["fact"])
      PROVE  PairAllowed(e["fact"][i].predicate, e["fact"][i].value)
  <2>1. CASE i = n
    BY <1>5, <2>1
  <2>2. CASE i = id
    BY <1>1, <1>3, <1>4, <1>6, <2>2
  <2>3. CASE i # n /\ i # id
    <3>1. i \in 1..Len(f) /\ e["fact"][i] = f[i]
      BY <1>2, <1>3, <2>3
    <3> QED
      BY <1>6, <3>1
  <2> QED
    BY <2>1, <2>2, <2>3
<1> QED
  BY <1>3, <1>7 DEF PairsAllowed, e

-----------------------------------------------------------------------------
(* History. *)

\* An insertion writes no existing row.
LEMMA InsertKeepsHistory ==
  ASSUME NEW d \in Database, NEW t \in TargetTypes,
         NEW patch \in Patch, NEW scope \in Scopes
  PROVE  KeepsHistory(d, Insert(d, t, patch, scope))
<1> DEFINE e == Insert(d, t, patch, scope)
<1>1. /\ e \in Database
      /\ \A u \in TargetTypes : u # t => e[u] = d[u]
      /\ Len(e[t]) = Len(d[t]) + 1
      /\ \A i \in DOMAIN d[t] : e[t][i] = d[t][i]
  BY InsertEffect
<1> HIDE DEF e
<1>2. /\ "fact" \in TargetTypes /\ Len(d["fact"]) \in Nat
      /\ DOMAIN d["fact"] = 1..Len(d["fact"]) /\ DOMAIN e["fact"] = 1..Len(e["fact"])
  BY <1>1, FactTable
<1>3. \A i \in DOMAIN d["fact"] : i \in DOMAIN e["fact"] /\ e["fact"][i] = d["fact"][i]
  BY <1>1, <1>2
<1> QED
  BY <1>3 DEF KeepsHistory, e

\* An update of a fact requires that it is current.
LEMMA UpdateKeepsHistory ==
  ASSUME NEW d \in Database, NEW t \in TargetTypes,
         NEW patch \in Patch, NEW scope, NEW id,
         CanUpdate(d, t, id, patch, scope)
  PROVE  KeepsHistory(d, Update(d, t, id, patch))
<1>1. id \in DOMAIN d[t] /\ (t = "fact" => d[t][id].superseded_by = 0)
  BY DEF CanUpdate, RowVisible
<1>2. "fact" \in TargetTypes
  BY FactTable
<1> QED
  BY <1>1, <1>2, UpdateEffect DEF KeepsHistory

\* Superseding writes one old row, a current one.
LEMMA SupersedeKeepsHistory ==
  ASSUME NEW d \in Database, NEW patch \in Patch, NEW scope \in Scopes,
         NEW id, CanSupersede(d, id, patch, scope)
  PROVE  KeepsHistory(d, Supersede(d, id, patch, scope))
<1> DEFINE e == Supersede(d, id, patch, scope)
           f == d["fact"]
           n == Len(f) + 1
<1>1. id \in DOMAIN f /\ f[id].superseded_by = 0
  BY DEF CanSupersede, RowVisible
<1>2. /\ e \in Database
      /\ Len(e["fact"]) = n
      /\ \A i \in DOMAIN f : i # id => e["fact"][i] = f[i]
      /\ e["fact"][id] = [f[id] EXCEPT !.superseded_by = n]
      /\ e["fact"][n] = NewRow("fact", patch, scope)
  BY <1>1, SupersedeEffect
<1> HIDE DEF e
<1>3. /\ Len(f) \in Nat /\ DOMAIN f = 1..Len(f) /\ DOMAIN e["fact"] = 1..Len(e["fact"])
  BY <1>2, FactTable
<1>4. \A i \in DOMAIN f : i # id => i \in DOMAIN e["fact"] /\ e["fact"][i] = f[i]
  BY <1>2, <1>3
<1> QED
  BY <1>1, <1>4 DEF KeepsHistory, e

-----------------------------------------------------------------------------
(* Links. *)

Extends(d, e) ==
    \A t \in TargetTypes :
        /\ DOMAIN d[t] \subseteq DOMAIN e[t]
        /\ \A i \in DOMAIN d[t] : e[t][i].scope = d[t][i].scope

\* No row disappears and none changes its scope, so a link that was good stays good.
LEMMA LinksMonotone ==
  ASSUME NEW d, NEW e, Extends(d, e), NEW row \in Row, LinksOf(d, row)
  PROVE  LinksOf(e, row)
<1>1. "person" \in TargetTypes
  BY DEF TargetTypes, IdentityTypes
<1>2. row.parent # NoLink => row.parent.type \in TargetTypes
  BY DEF Row, Link
<1> QED
  BY <1>1, <1>2 DEF LinksOf, RowVisible, Extends

\* The parents of shared rows are shared rows.
LEMMA IdentityParents ==
  ASSUME NEW t \in IdentityTypes
  PROVE  ParentTypes[t] \subseteq IdentityTypes
  BY DEF ParentTypes, IdentityTypes

\* The links a new row takes from its patch were checked for the row's scope.
LEMMA PatchLinks ==
  ASSUME NEW d, NEW t \in TargetTypes, NEW patch \in Patch, NEW scope,
         WellShaped(t, patch), LinksExist(d, patch, scope),
         NEW own, t \in ContentTypes => own = scope
  PROVE  /\ patch.parent # NoLink =>
                RowVisible(d, patch.parent.type, patch.parent.id, {own})
         /\ \A p \in patch.people : p \in DOMAIN d["person"]
<1>1. \A p \in patch.people : p \in DOMAIN d["person"]
  BY DEF LinksExist, RowVisible
<1>2. CASE t \in ContentTypes
  BY <1>1, <1>2 DEF LinksExist
<1>3. CASE t \in IdentityTypes
  <2>1. patch.parent # NoLink => patch.parent.type \notin ContentTypes
    BY <1>3, IdentityParents DEF WellShaped, IdentityTypes, ContentTypes
  <2> QED
    BY <1>1, <2>1 DEF LinksExist, RowVisible
<1> QED
  BY <1>2, <1>3 DEF TargetTypes

\* A new row links to what targets::ensure found in its scope.
LEMMA InsertKeepsLinks ==
  ASSUME NEW d \in Database, LinksContained(d), NEW t \in TargetTypes,
         NEW patch \in Patch, NEW scope \in Scopes,
         WellShaped(t, patch), LinksExist(d, patch, scope)
  PROVE  LinksContained(Insert(d, t, patch, scope))
<1> DEFINE e == Insert(d, t, patch, scope)
           row == NewRow(t, patch, scope)
<1>1. /\ e \in Database
      /\ \A u \in TargetTypes : u # t => e[u] = d[u]
      /\ Len(e[t]) = Len(d[t]) + 1
      /\ \A i \in DOMAIN d[t] : e[t][i] = d[t][i]
      /\ e[t][Len(d[t]) + 1] = row
  BY InsertEffect
<1> HIDE DEF e
<1>2. \A u \in TargetTypes : /\ d[u] \in Seq(Row) /\ e[u] \in Seq(Row)
  BY <1>1 DEF Database
<1>3. \A u \in TargetTypes : /\ Len(d[u]) \in Nat
                             /\ DOMAIN d[u] = 1..Len(d[u])
                             /\ DOMAIN e[u] = 1..Len(e[u])
                             /\ \A i \in DOMAIN d[u] : d[u][i] \in Row
  BY <1>2, LenProperties, ElementOfSeq
<1>4. \A u \in TargetTypes : \A i \in DOMAIN d[u] : i \in DOMAIN e[u] /\ e[u][i] = d[u][i]
  BY <1>1, <1>3
<1>5. Extends(d, e)
  BY <1>4 DEF Extends
<1>6. row \in Row /\ LinksOf(d, row)
  <2>1. t \in ContentTypes => row.scope = scope
    BY DEF NewRow
  <2>2. row.parent = patch.parent /\ row.people = patch.people
    BY DEF NewRow
  <2> QED
    BY <2>1, <2>2, PatchLinks, NewRowType DEF LinksOf
<1> HIDE DEF row
<1>7. \A u \in TargetTypes : \A i \in DOMAIN d[u] : LinksOf(e, e[u][i])
  BY <1>3, <1>4, <1>5, LinksMonotone DEF LinksContained
<1>8. LinksOf(e, e[t][Len(d[t]) + 1])
  BY <1>1, <1>5, <1>6, LinksMonotone
<1>9. ASSUME NEW u \in TargetTypes, NEW i \in DOMAIN e[u]
      PROVE  LinksOf(e, e[u][i])
  <2>1. CASE u # t
    BY <1>1, <1>7, <1>9, <2>1
  <2>2. CASE u = t
    <3>1. i \in DOMAIN d[t] \/ i = Len(d[t]) + 1
      BY <1>1, <1>3, <1>9, <2>2
    <3> QED
      BY <1>7, <1>8, <2>2, <3>1
  <2> QED
    BY <2>1, <2>2
<1> QED
  BY <1>9 DEF LinksContained, e

\* A row keeps its old links or takes new ones that were checked in its scope.
LEMMA UpdateKeepsLinks ==
  ASSUME NEW d \in Database, LinksContained(d), NEW t \in TargetTypes,
         NEW patch \in Patch, NEW scope, NEW id,
         WellShaped(t, patch), CanUpdate(d, t, id, patch, scope)
  PROVE  LinksContained(Update(d, t, id, patch))
<1> DEFINE e == Update(d, t, id, patch)
           old == d[t][id]
           row == Merged(old, patch)
<1>1. /\ id \in DOMAIN d[t]
      /\ t \in ContentTypes => old.scope = scope
      /\ LinksExist(d, patch, scope)
  BY DEF CanUpdate, RowVisible
<1>2. /\ e \in Database
      /\ \A u \in TargetTypes : u # t => e[u] = d[u]
      /\ DOMAIN e[t] = DOMAIN d[t]
      /\ \A i \in DOMAIN d[t] : i # id => e[t][i] = d[t][i]
      /\ e[t][id] = row
  BY <1>1, UpdateEffect
<1> HIDE DEF e
<1>3. \A u \in TargetTypes : \A i \in DOMAIN d[u] : d[u][i] \in Row
  BY ElementOfSeq, LenProperties DEF Database
<1>4. row \in Row
  BY <1>1, <1>3, MergedType
<1>5. row.scope = old.scope
  BY DEF Merged
<1>6. Extends(d, e)
  BY <1>1, <1>2, <1>5 DEF Extends
<1>7. LinksOf(d, old)
  BY <1>1 DEF LinksContained
<1>8. LinksOf(d, row)
  <2>1. /\ patch.parent # NoLink =>
              RowVisible(d, patch.parent.type, patch.parent.id, {old.scope})
        /\ \A p \in patch.people : p \in DOMAIN d["person"]
    BY <1>1, PatchLinks
  <2>2. row.parent = patch.parent \/ row.parent = old.parent
    BY DEF Merged, Coalesce
  <2>3. row.people = old.people \cup patch.people
    BY DEF Merged
  <2> HIDE DEF row
  <2> QED
    BY <1>5, <1>7, <2>1, <2>2, <2>3 DEF LinksOf
<1> HIDE DEF row
<1>9. ASSUME NEW u \in TargetTypes, NEW i \in DOMAIN e[u]
      PROVE  LinksOf(e, e[u][i])
  <2>1. CASE u = t /\ i = id
    BY <1>2, <1>4, <1>6, <1>8, <2>1, LinksMonotone
  <2>2. CASE ~(u = t /\ i = id)
    <3>1. i \in DOMAIN d[u] /\ e[u][i] = d[u][i]
      BY <1>2, <1>9, <2>2
    <3>2. LinksOf(d, d[u][i]) /\ d[u][i] \in Row
      BY <1>3, <3>1 DEF LinksContained
    <3> QED
      BY <1>6, <3>1, <3>2, LinksMonotone
  <2> QED
    BY <2>1, <2>2
<1> QED
  BY <1>9 DEF LinksContained, e

\* Marking the old fact as superseded touches none of its links.
LEMMA SupersedeKeepsLinks ==
  ASSUME NEW d \in Database, LinksContained(d), NEW patch \in Patch, NEW scope \in Scopes,
         NEW id, CanSupersede(d, id, patch, scope), WellShaped("fact", patch)
  PROVE  LinksContained(Supersede(d, id, patch, scope))
<1> DEFINE m == Insert(d, "fact", patch, scope)
           e == Supersede(d, id, patch, scope)
           n == Len(d["fact"]) + 1
<1>1. /\ "fact" \in TargetTypes /\ id \in DOMAIN d["fact"] /\ LinksExist(d, patch, scope)
      /\ DOMAIN d["fact"] = 1..Len(d["fact"]) /\ Len(d["fact"]) \in Nat
      /\ d["fact"][id] \in Row
  BY FactTable DEF CanSupersede, RowVisible, CanInsert
<1>2. m \in Database /\ LinksContained(m)
  BY <1>1, InsertKeepsLinks, InsertEffect
<1>3. /\ \A u \in TargetTypes : u # "fact" => m[u] = d[u]
      /\ Len(m["fact"]) = n
      /\ \A i \in DOMAIN d["fact"] : m["fact"][i] = d["fact"][i]
      /\ m["fact"][n] = NewRow("fact", patch, scope)
  BY <1>1, InsertEffect
<1>4. /\ e \in Database
      /\ \A u \in TargetTypes : u # "fact" => e[u] = d[u]
      /\ Len(e["fact"]) = n
      /\ \A i \in DOMAIN d["fact"] : i # id => e["fact"][i] = d["fact"][i]
      /\ e["fact"][id] = [d["fact"][id] EXCEPT !.superseded_by = n]
      /\ e["fact"][n] = NewRow("fact", patch, scope)
  BY <1>1, SupersedeEffect
<1> HIDE DEF m, e
<1>5. \A u \in TargetTypes : \A i \in DOMAIN m[u] : m[u][i] \in Row
  BY <1>2, ElementOfSeq, LenProperties DEF Database
<1>6. DOMAIN m["fact"] = 1..n /\ DOMAIN e["fact"] = 1..n
  BY <1>2, <1>3, <1>4, FactTable
<1>7. /\ e["fact"][id].scope = m["fact"][id].scope
      /\ e["fact"][id].parent = m["fact"][id].parent
      /\ e["fact"][id].people = m["fact"][id].people
  BY <1>1, <1>3, <1>4 DEF Row
<1>8. \A i \in 1..n : i # id => e["fact"][i] = m["fact"][i]
  BY <1>1, <1>3, <1>4
<1>9. Extends(m, e)
  BY <1>3, <1>4, <1>6, <1>7, <1>8 DEF Extends
<1>10. ASSUME NEW u \in TargetTypes, NEW i \in DOMAIN e[u]
       PROVE  LinksOf(e, e[u][i])
  <2>1. i \in DOMAIN m[u]
    BY <1>3, <1>4, <1>6, <1>10
  <2>2. LinksOf(e, m[u][i])
    BY <1>2, <1>5, <1>9, <2>1, LinksMonotone DEF LinksContained
  <2>3. CASE u = "fact" /\ i = id
    BY <1>7, <2>2, <2>3 DEF LinksOf
  <2>4. CASE ~(u = "fact" /\ i = id)
    BY <1>3, <1>4, <1>6, <1>8, <1>10, <2>2, <2>4
  <2> QED
    BY <2>3, <2>4
<1> QED
  BY <1>10 DEF LinksContained, e
=============================================================================

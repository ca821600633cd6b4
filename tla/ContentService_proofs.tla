------------------------ MODULE ContentService_proofs ------------------------
(***************************************************************************)
(* Proofs about the parts of the content-management-service that           *)
(* MCContentService runs, for any outline, any number of handlers and any  *)
(* events.                                                                 *)
(*                                                                         *)
(* The outline and its reader: a row never moves to another parent and is  *)
(* deleted only when nothing is in it.  So what a reader could see all the *)
(* while is, at every step, in what it has shown, or in a lesson or a      *)
(* module that it still has to list.                                       *)
(*                                                                         *)
(* Publishing: a handler that is alone with its resource knows what the    *)
(* row and the index hold.  Viewing: who goes by a decision was allowed    *)
(* when it was taken.  Analytics: an event is in one place at most.  The   *)
(* breaker: whoever trips it stays on its way.                             *)
(***************************************************************************)
EXTENDS Structure, Viewing, Analytics, ContentBreaker, FiniteSetTheorems, SequenceTheorems,
        TLAPS

\* What a writer still has to do is a list of moves.
LEMMA RowFields ==
    ASSUME NEW r \in ItemRows
    PROVE  r.in \in Parents /\ r.at \in Nat /\ r # Absent /\ r # Deleted
BY OutlineAssumption DEF ItemRows

LEMMA IsRowFields ==
    ASSUME OutlineTypeOK, NEW i \in Items, IsItem(i)
    PROVE  row[i] \in ItemRows /\ row[i].in \in Parents /\ row[i].at \in Nat
BY RowFields DEF OutlineTypeOK, IsItem

-----------------------------------------------------------------------------
(* The outline *)

LEMMA InitTypes == OutlineInit => OutlineTypeOK
BY EmptySeq DEF OutlineInit, OutlineTypeOK, IsItem

\* What a step keeps of the rows: their parents, and their places apart.
LEMMA InsertStep ==
    ASSUME OutlineTypeOK, NEW i \in Items, NEW p \in Home(i), NEW at \in Nat, Insert(i, p, at)
    PROVE  OutlineTypeOK'
<1> DEFINE new == [in |-> p, at |-> at]
<1>1. p \in Parents
    BY DEF Home, Parents
<1>2. new \in ItemRows
    BY <1>1 DEF ItemRows
<1>3. row'[i] = new /\ \A j \in Items \ {i} : row'[j] = row[j]
    BY DEF Insert, OutlineTypeOK
<1>4. row' \in [Items -> ItemRows \cup {Absent, Deleted}] /\ moves' = moves
    BY <1>2 DEF Insert, OutlineTypeOK
<1>5. ~IsItem(i) /\ IsItem(i)' /\ \A j \in Items \ {i} : IsItem(j)' <=> IsItem(j)
    BY <1>2, <1>3, RowFields DEF IsItem, Insert
<1>6. ASSUME NEW q, Exists(q) PROVE Exists(q)'
    BY <1>5, <1>6 DEF Exists
<1>7. ASSUME NEW j \in Items, IsItem(j)'
      PROVE  /\ (row[j].in \in Home(j))'
             /\ Exists(row[j].in)'
             /\ \A k \in Siblings(j)' : row'[k].at # row'[j].at
  <2>1. CASE j = i
    <3>1. row'[j].in = p /\ row'[j].at = at
        BY <1>3, <2>1
    <3>2. Exists(p)'
        BY <1>6 DEF Insert
    <3>3. ASSUME NEW k \in Siblings(j)' PROVE row'[k].at # at
        BY <1>3, <1>5, <2>1, <3>1, <3>3 DEF Siblings, Children, Insert
    <3> QED BY <2>1, <3>1, <3>2, <3>3
  <2>2. CASE j # i
    <3>1. row'[j] = row[j] /\ IsItem(j)
        BY <1>3, <1>5, <1>7, <2>2
    <3>2. row[j].in \in Home(j) /\ Exists(row[j].in)
        BY <3>1 DEF OutlineTypeOK
    <3>3. ASSUME NEW k \in Siblings(j)' PROVE row'[k].at # row'[j].at
      <4>1. k \in Items /\ IsItem(k)' /\ row'[k].in = row[j].in /\ k # j
        BY <3>1, <3>3 DEF Siblings, Children
      <4>2. CASE k = i
        <5>1. row[j].in = p /\ row'[k].at = at
            BY <1>3, <4>1, <4>2
        <5>2. j \in Children(p)
            BY <3>1, <5>1 DEF Children
        <5> QED BY <3>1, <5>1, <5>2 DEF Insert
      <4>3. CASE k # i
        <5>1. row'[k] = row[k] /\ IsItem(k)
            BY <1>3, <1>5, <4>1, <4>3
        <5>2. k \in Siblings(j)
            BY <4>1, <5>1 DEF Siblings, Children
        <5> QED BY <3>1, <5>1, <5>2 DEF OutlineTypeOK
      <4> QED BY <4>2, <4>3
    <3> QED BY <1>6, <3>1, <3>2, <3>3
  <2> QED BY <2>1, <2>2
<1>8. \A j \in Items : Home(j)' = Home(j)
    BY DEF Home
<1> QED BY <1>4, <1>7, <1>8 DEF OutlineTypeOK

LEMMA DeleteStep ==
    ASSUME OutlineTypeOK, NEW i \in Items, Delete(i)
    PROVE  OutlineTypeOK'
<1>1. row'[i] = Deleted /\ \A j \in Items \ {i} : row'[j] = row[j]
    BY DEF Delete, OutlineTypeOK
<1>2. row' \in [Items -> ItemRows \cup {Absent, Deleted}] /\ moves' = moves
    BY DEF Delete, OutlineTypeOK
<1>3. ASSUME NEW j \in Items, IsItem(j)'
      PROVE  /\ (row[j].in \in Home(j))'
             /\ Exists(row[j].in)'
             /\ \A k \in Siblings(j)' : row'[k].at # row'[j].at
  <2>1. j # i /\ row'[j] = row[j] /\ IsItem(j)
    BY <1>1, <1>3 DEF IsItem
  <2>2. row[j].in # i
    BY <2>1 DEF Delete, Children
  <2>3. Exists(row[j].in)'
    BY <1>1, <2>1, <2>2 DEF OutlineTypeOK, Exists, IsItem
  <2>4. ASSUME NEW k \in Siblings(j)' PROVE row'[k].at # row'[j].at
    <3>1. k \in Items /\ k # j /\ IsItem(k)' /\ row'[k].in = row[j].in
        BY <2>1, <2>4 DEF Siblings, Children
    <3>2. row'[k] = row[k] /\ IsItem(k)
        BY <1>1, <3>1 DEF IsItem
    <3>3. k \in Siblings(j)
        BY <3>1, <3>2 DEF Siblings, Children
    <3> QED BY <2>1, <3>2, <3>3 DEF OutlineTypeOK
  <2> QED BY <2>1, <2>3, <2>4 DEF OutlineTypeOK
<1>4. \A j \in Items : Home(j)' = Home(j)
    BY DEF Home
<1> QED BY <1>2, <1>3, <1>4 DEF OutlineTypeOK

LEMMA StartStep ==
    ASSUME OutlineTypeOK, NEW w \in Writers, NEW level \in {Modules, Lessons, Resources},
           NEW items \in Requests(level), StartReorder(w, items)
    PROVE  OutlineTypeOK'
<1>1. PICK n \in 1..MaxItems : items \in [1..n -> [item : level, to : 0 .. (MaxItems - 1)]]
    BY DEF Requests
<1>2. level \subseteq Items
    BY DEF Items
<1>3. \A k \in 1..n : items[k] \in Moves
    BY <1>1, <1>2 DEF Moves
<1>4. items \in Seq(Moves)
    BY <1>1, <1>3, IsASeq
<1>5. moves' \in [Writers -> Seq(Moves)] /\ row' = row
    BY <1>4 DEF StartReorder, OutlineTypeOK
<1> QED BY <1>5 DEF OutlineTypeOK, IsItem, Home, Exists, Siblings, Children

LEMMA UpdateStep ==
    ASSUME OutlineTypeOK, NEW w \in Writers, UpdateDisplayOrder(w)
    PROVE  OutlineTypeOK'
<1> DEFINE move == Head(moves[w])
<1>1. moves[w] \in Seq(Moves) /\ moves[w] # << >>
    BY DEF UpdateDisplayOrder, OutlineTypeOK
<1>2. move \in Moves /\ Tail(moves[w]) \in Seq(Moves)
    BY <1>1, HeadTailProperties
<1> DEFINE i == move.item
           to == move.to
<1>3. i \in Items /\ to \in Nat
    BY <1>2 DEF Moves
<1>4. IsItem(i) /\ ~Taken(i, to) /\ row' = [row EXCEPT ![i].at = to]
    BY DEF UpdateDisplayOrder
<1>5. moves' \in [Writers -> Seq(Moves)]
    BY <1>2 DEF UpdateDisplayOrder, OutlineTypeOK
<1> HIDE DEF i, to
<1>6. row[i] \in ItemRows
    BY <1>3, <1>4, IsRowFields
<1>7. /\ row'[i] \in ItemRows
      /\ row'[i].in = row[i].in
      /\ row'[i].at = to
    BY <1>3, <1>4, <1>6 DEF OutlineTypeOK, ItemRows
<1>8. \A j \in Items \ {i} : row'[j] = row[j]
    BY <1>4 DEF OutlineTypeOK
<1>9. row' \in [Items -> ItemRows \cup {Absent, Deleted}]
    BY <1>3, <1>4, <1>7, <1>8 DEF OutlineTypeOK
<1>10. \A j \in Items : IsItem(j)' <=> IsItem(j)
    BY <1>4, <1>7, <1>8, RowFields DEF IsItem
<1>11. \A j \in Items : IsItem(j) => row'[j].in = row[j].in
    BY <1>7, <1>8
<1>12. \A p : Children(p)' = Children(p)
    BY <1>10, <1>11 DEF Children
<1>13. ASSUME NEW j \in Items, IsItem(j)'
       PROVE  /\ (row[j].in \in Home(j))'
              /\ Exists(row[j].in)'
              /\ \A k \in Siblings(j)' : row'[k].at # row'[j].at
  <2>1. IsItem(j) /\ row'[j].in = row[j].in
    BY <1>10, <1>11, <1>13
  <2>2. Exists(row[j].in)'
    BY <1>10, <2>1 DEF OutlineTypeOK, Exists
  <2>3. Siblings(j)' = Siblings(j)
    BY <1>12, <2>1 DEF Siblings
  <2>4. ASSUME NEW k \in Siblings(j) PROVE row'[k].at # row'[j].at
    <3>1. k \in Items /\ IsItem(k) /\ k # j /\ row[k].in = row[j].in
        BY <2>4 DEF Siblings, Children
    <3>2. row[k].at # row[j].at
        BY <2>1, <2>4 DEF OutlineTypeOK
    <3>3. CASE j = i
        BY <1>4, <1>7, <1>8, <2>4, <3>1, <3>3 DEF Taken
    <3>4. CASE k = i
      <4>1. j \in Siblings(i)
        BY <2>1, <3>1, <3>4 DEF Siblings, Children
      <4> QED BY <1>4, <1>7, <1>8, <3>1, <3>4, <4>1 DEF Taken
    <3>5. CASE j # i /\ k # i
        BY <1>8, <3>1, <3>2, <3>5
    <3> QED BY <3>3, <3>4, <3>5
  <2> QED BY <2>1, <2>2, <2>3, <2>4 DEF OutlineTypeOK
<1>14. \A j \in Items : Home(j)' = Home(j)
    BY DEF Home
<1> QED BY <1>5, <1>9, <1>13, <1>14 DEF OutlineTypeOK

LEMMA FailStep ==
    ASSUME OutlineTypeOK, NEW w \in Writers, ReorderFails(w)
    PROVE  OutlineTypeOK'
<1>1. moves' \in [Writers -> Seq(Moves)] /\ row' = row
    BY EmptySeq DEF ReorderFails, OutlineTypeOK
<1> QED BY <1>1 DEF OutlineTypeOK, IsItem, Home, Exists, Siblings, Children


\* What an action of OutlineNext is, for a proof by cases.
LEMMA NextCases ==
    ASSUME OutlineNext
    PROVE  \/ \E i \in Items : \E p \in Home(i), at \in Nat : Insert(i, p, at)
           \/ \E i \in Items : Delete(i)
           \/ \E w \in Writers, level \in {Modules, Lessons, Resources} :
                 \E items \in Requests(level) : StartReorder(w, items)
           \/ \E w \in Writers : UpdateDisplayOrder(w) \/ ReorderFails(w)
<1>1. ASSUME NEW at \in 0..MaxPosition, NEW m \in Modules, NEW c \in Courses,
             CreateModule(m, c, at)
      PROVE  \E i \in Items : \E p \in Home(i), n \in Nat : Insert(i, p, n)
    BY <1>1 DEF CreateModule, Items, Home
<1>2. ASSUME NEW at \in 0..MaxPosition, NEW l \in Lessons, NEW m \in Modules,
             CreateLesson(l, m, at)
      PROVE  \E i \in Items : \E p \in Home(i), n \in Nat : Insert(i, p, n)
    BY <1>2, OutlineAssumption DEF CreateLesson, Items, Home
<1>3. ASSUME NEW at \in 0..MaxPosition, NEW r \in Resources, NEW l \in Lessons,
             AddResource(r, l, at)
      PROVE  \E i \in Items : \E p \in Home(i), n \in Nat : Insert(i, p, n)
    BY <1>3, OutlineAssumption DEF AddResource, Items, Home
<1>4. (\E m \in Modules : DeleteModule(m)) \/ (\E l \in Lessons : DeleteLesson(l))
        \/ (\E r \in Resources : RemoveResource(r))
      => \E i \in Items : Delete(i)
    BY DEF DeleteModule, DeleteLesson, RemoveResource, Items
<1>5. ASSUME NEW w \in Writers, NEW level \in {Modules, Lessons, Resources},
             NEW items \in Requests(level), ReorderContent(w, items)
      PROVE  StartReorder(w, items)
    BY <1>5 DEF ReorderContent, ReorderModules, ReorderLessons, ReorderResources
<1> QED BY <1>1, <1>2, <1>3, <1>4, <1>5 DEF OutlineNext

LEMMA NextKeepsTypes == ASSUME OutlineTypeOK, [OutlineNext]_outline PROVE OutlineTypeOK'
<1>1. CASE UNCHANGED outline
    BY <1>1 DEF outline, OutlineTypeOK, IsItem, Home, Exists, Siblings, Children
<1>2. CASE OutlineNext
    BY <1>2, NextCases, InsertStep, DeleteStep, StartStep, UpdateStep, FailStep
<1> QED BY <1>1, <1>2

\* Every row is in a row of the level above, at a place of its own (the foreign
\* keys and UNIQUE constraints of the migrations).
THEOREM TypeCorrect == OutlineSpec => []OutlineTypeOK
<1>1. OutlineTypeOK /\ [OutlineNext]_outline => OutlineTypeOK'
    BY NextKeepsTypes
<1> QED BY <1>1, InitTypes, PTL DEF OutlineSpec

-----------------------------------------------------------------------------
(* Reordering *)

\* The place a list without a gap does not have is past its end.
LEMMA GaplessUpdate ==
    ASSUME OutlineTypeOK, NEW w \in Writers, UpdateDisplayOrder(w), NEW p \in Parents,
           Gapless(p), NEW i \in Children(p)
    PROVE  row'[i].at \in {row[i].at} \cup {n \in Nat : n >= Cardinality(Children(p))}
<1> DEFINE move == Head(moves[w])
           to == move.to
<1>1. moves[w] \in Seq(Moves) /\ moves[w] # << >>
    BY DEF UpdateDisplayOrder, OutlineTypeOK
<1>2. move \in Moves
    BY <1>1, HeadTailProperties
<1>3. move.item \in Items /\ to \in Nat
    BY <1>2 DEF Moves
<1>4. IsItem(move.item) /\ ~Taken(move.item, to) /\ row' = [row EXCEPT ![move.item].at = to]
    BY DEF UpdateDisplayOrder
<1> HIDE DEF move
<1>5. i \in Items /\ IsItem(i) /\ row[i].in = p
    BY DEF Children
<1>6. CASE i # move.item
    BY <1>4, <1>5, <1>6 DEF OutlineTypeOK
<1>7. CASE i = move.item
  <2>1. row'[i].at = to
    BY <1>4, <1>5, <1>7, IsRowFields DEF OutlineTypeOK, ItemRows
  <2>2. Cardinality(Children(p)) \in Nat
    <3>1. Children(p) \subseteq Items
        BY DEF Children
    <3> QED BY <3>1, OutlineAssumption, FS_Subset, FS_CardinalityType
  <2>3. CASE to >= Cardinality(Children(p))
    BY <1>3, <2>1, <2>3
  <2>4. CASE ~(to >= Cardinality(Children(p)))
    <3>1. to \in 0 .. (Cardinality(Children(p)) - 1)
        BY <1>3, <2>2, <2>4
    <3>2. PICK j \in Children(p) : row[j].at = to
        BY <3>1 DEF Gapless
    <3>3. j = i
        BY <1>4, <1>5, <1>7, <3>2 DEF Taken, Siblings
    <3> QED BY <2>1, <3>2, <3>3
  <2> QED BY <2>3, <2>4
<1> QED BY <1>6, <1>7

\* While the list of a parent has no gap, no reorder request moves an item to
\* the place of another (reorder_modules, reorder_lessons, reorder_resources).
THEOREM ReorderingStaysPut == OutlineSpec => GaplessStaysPut
<1> DEFINE Put ==
        \A p \in Parents :
            Gapless(p) /\ Children(p)' = Children(p) =>
                \A i \in Children(p) :
                    row'[i].at \in {row[i].at} \cup {n \in Nat : n >= Cardinality(Children(p))}
<1>1. OutlineTypeOK /\ [OutlineNext]_outline => Put
  <2> SUFFICES ASSUME OutlineTypeOK, [OutlineNext]_outline, NEW p \in Parents, Gapless(p),
                      Children(p)' = Children(p), NEW i \in Children(p)
               PROVE  row'[i].at \in {row[i].at}
                                      \cup {n \in Nat : n >= Cardinality(Children(p))}
    OBVIOUS
  <2>1. i \in Items /\ IsItem(i) /\ IsItem(i)'
    BY DEF Children
  <2>2. ASSUME NEW j \in Items, NEW q, NEW at, Insert(j, q, at) PROVE row'[i] = row[i]
    BY <2>1, <2>2 DEF Insert, IsItem, OutlineTypeOK
  <2>3. ASSUME NEW j \in Items, Delete(j) PROVE row'[i] = row[i]
    BY <2>1, <2>3 DEF Delete, IsItem, OutlineTypeOK
  <2>4. ASSUME NEW w, NEW items, StartReorder(w, items) PROVE row' = row
    BY <2>4 DEF StartReorder
  <2>5. ASSUME NEW w, ReorderFails(w) PROVE row' = row
    BY <2>5 DEF ReorderFails
  <2>6. CASE UNCHANGED outline
    BY <2>6 DEF outline
  <2>7. CASE OutlineNext
    BY <2>2, <2>3, <2>4, <2>5, <2>7, NextCases, GaplessUpdate
  <2> QED BY <2>6, <2>7
<1>2. OutlineTypeOK /\ [OutlineNext]_outline => OutlineTypeOK'
    BY NextKeepsTypes
<1>3. []OutlineTypeOK /\ [][OutlineNext]_outline => [][Put]_outline
    BY <1>1, PTL
<1> QED BY <1>2, <1>3, InitTypes, PTL DEF OutlineSpec, GaplessStaysPut

-----------------------------------------------------------------------------
(* Reading the outline *)

Reading == [at : {"walking", "answered"}, role : Roles, course : Courses,
            modules : SUBSET Modules, lessons : SUBSET Lessons, shown : SUBSET Resources]

\* A resource on its way: shown, or in what is still to be listed.
OnTheWay(r) ==
    r \in walk.shown \/ row[r].in \in walk.lessons \/ row[row[r].in].in \in walk.modules

WalkIsWhole ==
    walk.at = "walking" =>
        /\ steady \subseteq Listed(walk.course, walk.role)
        /\ Listed(walk.course, walk.role) \subseteq glimpsed
        /\ walk.shown \subseteq glimpsed
        /\ \A r \in steady : OnTheWay(r)

StructureInv == StructureTypeOK /\ WalkIsWhole /\ StructureIsWhole

\* A row that a step leaves a row stays where it is.
LEMMA RowsStay ==
    ASSUME OutlineTypeOK, [OutlineNext]_outline, NEW i \in Items, IsItem(i), IsItem(i)'
    PROVE  row'[i].in = row[i].in
<1>1. ASSUME NEW j \in Items, NEW q, NEW at, Insert(j, q, at) PROVE row'[i].in = row[i].in
    BY <1>1 DEF Insert, IsItem, OutlineTypeOK
<1>2. ASSUME NEW j \in Items, Delete(j) PROVE row'[i].in = row[i].in
    BY <1>2 DEF Delete, IsItem, OutlineTypeOK
<1>3. ASSUME NEW w, NEW items, StartReorder(w, items) PROVE row'[i].in = row[i].in
    BY <1>3 DEF StartReorder
<1>4. ASSUME NEW w, ReorderFails(w) PROVE row'[i].in = row[i].in
    BY <1>4 DEF ReorderFails
<1>5. ASSUME NEW w, UpdateDisplayOrder(w) PROVE row'[i].in = row[i].in
    BY <1>5, IsRowFields DEF UpdateDisplayOrder, OutlineTypeOK, ItemRows
<1>6. CASE UNCHANGED outline
    BY <1>6 DEF outline
<1>7. CASE OutlineNext
    BY <1>1, <1>2, <1>3, <1>4, <1>5, <1>7, NextCases
<1> QED BY <1>6, <1>7

\* Where a resource is, and that its lesson and its module are there.
LEMMA ResourceIsPlaced ==
    ASSUME OutlineTypeOK, NEW r \in Resources, IsItem(r)
    PROVE  /\ row[r].in \in Lessons /\ IsItem(row[r].in)
           /\ row[row[r].in].in \in Modules /\ IsItem(row[row[r].in].in)
<1>1. r \in Items /\ Home(r) = Lessons
    BY OutlineAssumption DEF Items, Home
<1>2. row[r].in \in Lessons /\ Exists(row[r].in)
    BY <1>1 DEF OutlineTypeOK
<1> DEFINE l == row[r].in
<1>3. l \in Items /\ l \notin Courses /\ Home(l) = Modules
    BY <1>2, OutlineAssumption DEF Items, Home
<1>4. IsItem(l)
    BY <1>2, <1>3 DEF Exists
<1>5. row[l].in \in Modules /\ Exists(row[l].in)
    BY <1>3, <1>4 DEF OutlineTypeOK
<1>6. row[l].in \notin Courses
    BY <1>5, OutlineAssumption DEF Items
<1>7. IsItem(row[l].in)
    BY <1>5, <1>6 DEF Exists
<1> QED BY <1>2, <1>4, <1>5, <1>7

\* What is in a course is a module, and what is in a module a lesson.
LEMMA ChildrenAreBelow ==
    ASSUME OutlineTypeOK
    PROVE  /\ \A c \in Courses : Children(c) \subseteq Modules
           /\ \A m \in Modules : Children(m) \subseteq Lessons
<1>1. ASSUME NEW p, NEW i \in Children(p) PROVE i \in Items /\ p \in Home(i)
    BY <1>1 DEF Children, OutlineTypeOK
<1>2. ASSUME NEW c \in Courses, NEW i \in Children(c) PROVE i \in Modules
    BY <1>1, <1>2, OutlineAssumption DEF Home, Items
<1>3. ASSUME NEW m \in Modules, NEW i \in Children(m) PROVE i \in Lessons
    BY <1>1, <1>3, OutlineAssumption DEF Home, Items
<1> QED BY <1>2, <1>3

\* A resource that a step leaves listed stays on its way.
LEMMA WayStays ==
    ASSUME OutlineTypeOK, OutlineTypeOK', [OutlineNext]_outline, UNCHANGED walk,
           NEW r \in Resources, IsItem(r), IsItem(r)', OnTheWay(r)
    PROVE  OnTheWay(r)'
<1>1. r \in Items /\ row'[r].in = row[r].in
    BY RowsStay DEF Items
<1>2. row[r].in \in Lessons /\ IsItem(row[r].in)
    BY ResourceIsPlaced
<1>3. IsItem(row[r].in)'
  <2>1. Exists(row[r].in)'
    BY <1>1 DEF OutlineTypeOK
  <2>2. row'[r].in \in Items \ Courses
    BY <1>1, <1>2, OutlineAssumption DEF Items
  <2> QED BY <1>1, <2>1, <2>2 DEF Exists, IsItem
<1>4. row'[row[r].in].in = row[row[r].in].in
    BY <1>2, <1>3, RowsStay DEF Items
<1> QED BY <1>1, <1>4 DEF OnTheWay

LEMMA ListedAreRows ==
    ASSUME NEW c, NEW role, NEW r \in Listed(c, role) PROVE r \in Resources /\ IsItem(r)
BY DEF Listed

\* The rows, or what is published, change while the reader stands still.
LEMMA Watched ==
    ASSUME StructureInv, OutlineTypeOK', [OutlineNext]_outline, UNCHANGED walk,
           published' \in SUBSET Resources, Watch
    PROVE  StructureInv'
<1>1. CASE walk.at = "walking"
  <2> DEFINE now == Listed(walk.course, walk.role)
  <2>1. steady' = steady \cap now' /\ glimpsed' = glimpsed \cup now'
    BY <1>1 DEF Watch
  <2>2. now' = Listed(walk.course, walk.role)'
    OBVIOUS
  <2>3. steady \subseteq now /\ walk.shown \subseteq glimpsed /\ \A r \in steady : OnTheWay(r)
    BY <1>1 DEF StructureInv, WalkIsWhole
  <2>4. ASSUME NEW r \in steady' PROVE OnTheWay(r)'
    <3>1. r \in Resources /\ IsItem(r) /\ OnTheWay(r)
        BY <2>1, <2>3, <2>4, ListedAreRows
    <3>2. IsItem(r)'
        BY <2>1, <2>4 DEF Listed
    <3> QED BY <3>1, <3>2, WayStays DEF StructureInv, StructureTypeOK
  <2>5. steady' \subseteq glimpsed' /\ glimpsed' \in SUBSET Resources
    BY <2>1 DEF StructureInv, StructureTypeOK, Listed
  <2>6. StructureTypeOK'
    BY <2>5 DEF StructureInv, StructureTypeOK
  <2>7. WalkIsWhole'
    BY <2>1, <2>3, <2>4 DEF WalkIsWhole
  <2>8. StructureIsWhole'
    BY <1>1 DEF StructureIsWhole
  <2> QED BY <2>6, <2>7, <2>8 DEF StructureInv
<1>2. CASE walk.at # "walking"
    BY <1>2 DEF StructureInv, StructureTypeOK, WalkIsWhole, StructureIsWhole, Watch
<1> QED BY <1>1, <1>2

LEMMA SameRows == UNCHANGED <<row, moves>> => [OutlineNext]_outline
BY DEF outline

LEMMA TypesStay == ASSUME OutlineTypeOK, UNCHANGED <<row, moves>> PROVE OutlineTypeOK'
BY NextKeepsTypes, SameRows

LEMMA PublishKeeps ==
    ASSUME StructureInv, NEW r \in Resources, Publish(r) \/ Unpublish(r)
    PROVE  StructureInv'
<1>1. UNCHANGED <<row, moves>> /\ UNCHANGED walk /\ Watch
    BY DEF Publish, Unpublish
<1>2. published' \in SUBSET Resources
    BY DEF Publish, Unpublish, StructureInv, StructureTypeOK
<1>3. OutlineTypeOK'
    BY <1>1, TypesStay DEF StructureInv, StructureTypeOK
<1> QED BY <1>1, <1>2, <1>3, SameRows, Watched

LEMMA OutlineKeeps ==
    ASSUME StructureInv, OutlineChanges PROVE StructureInv'
<1>1. OutlineNext /\ UNCHANGED walk /\ Watch
    BY DEF OutlineChanges
<1>2. published' \in SUBSET Resources
    BY DEF OutlineChanges, StructureInv, StructureTypeOK
<1>3. OutlineTypeOK'
    BY <1>1, NextKeepsTypes DEF StructureInv, StructureTypeOK
<1> QED BY <1>1, <1>2, <1>3, Watched

LEMMA BeginKeeps ==
    ASSUME StructureInv, NEW c \in Courses, NEW role \in Roles, GetContentStructure(c, role)
    PROVE  StructureInv'
<1>1. UNCHANGED <<row, moves, published>>
    BY DEF GetContentStructure
<1>2. OutlineTypeOK /\ OutlineTypeOK'
    BY <1>1, TypesStay DEF StructureInv, StructureTypeOK
<1>3. walk' \in Reading /\ walk'.at = "walking" /\ walk'.course = c /\ walk'.role = role
        /\ walk'.modules = Children(c) /\ walk'.shown = {}
    BY <1>2, ChildrenAreBelow DEF GetContentStructure, Reading
<1>4. Listed(c, role)' = Listed(c, role)
    BY <1>1 DEF Listed, IsItem
<1>5. steady' = Listed(c, role) /\ glimpsed' = Listed(c, role)
    BY DEF GetContentStructure
<1>6. StructureTypeOK'
    BY <1>1, <1>2, <1>3, <1>5 DEF StructureInv, StructureTypeOK, Reading, Listed
<1>7. ASSUME NEW r \in Listed(c, role) PROVE OnTheWay(r)'
  <2> DEFINE m == row[row[r].in].in
  <2>1. m \in Modules /\ IsItem(m) /\ row[m].in = c
    BY <1>2, <1>7, ListedAreRows, ResourceIsPlaced DEF Listed
  <2>2. m \in Children(c)
    BY <2>1 DEF Children, Items
  <2> QED BY <1>1, <1>3, <2>2 DEF OnTheWay
<1>8. WalkIsWhole'
    BY <1>3, <1>4, <1>5, <1>7 DEF WalkIsWhole
<1>9. StructureIsWhole'
    BY <1>3 DEF StructureIsWhole
<1> QED BY <1>6, <1>8, <1>9 DEF StructureInv


\* The reader moves on, and nothing else.
LEMMA StillReading ==
    ASSUME StructureInv, UNCHANGED <<row, moves, published, steady, glimpsed>>,
           walk' \in Reading
    PROVE  StructureTypeOK'
BY TypesStay DEF StructureInv, StructureTypeOK, Reading

LEMMA WalkingIsReading ==
    ASSUME StructureInv, walk.at \in {"walking", "answered"} PROVE walk \in Reading
BY DEF StructureInv, StructureTypeOK, Reading, Away

LEMMA SameListed ==
    ASSUME UNCHANGED <<row, moves, published>>, NEW c, NEW role
    PROVE  Listed(c, role)' = Listed(c, role)
BY DEF Listed, IsItem

LEMMA ListLessonsKeeps ==
    ASSUME StructureInv, NEW m \in Modules, ListLessons(m) PROVE StructureInv'
<1>1. walk.at = "walking" /\ walk.lessons = {} /\ walk \in Reading
    BY WalkingIsReading DEF ListLessons
<1>2. UNCHANGED <<row, moves, published, steady, glimpsed>>
    BY DEF ListLessons
<1>3. /\ walk'.at = "walking" /\ walk'.course = walk.course /\ walk'.role = walk.role
      /\ walk'.shown = walk.shown
      /\ walk'.modules = walk.modules \ {m} /\ walk'.lessons = Children(m)
      /\ walk' \in Reading
    BY <1>1, ChildrenAreBelow DEF ListLessons, Reading, StructureInv, StructureTypeOK
<1>4. ASSUME NEW r \in steady PROVE OnTheWay(r)'
  <2>1. r \in Resources /\ IsItem(r) /\ OnTheWay(r)
    BY <1>1, <1>4, ListedAreRows DEF StructureInv, WalkIsWhole
  <2>2. CASE r \in walk.shown
    BY <1>3, <2>2 DEF OnTheWay
  <2>3. CASE row[row[r].in].in \in walk.modules \ {m}
    BY <1>2, <1>3, <2>3 DEF OnTheWay
  <2>4. CASE row[row[r].in].in = m
    <3>1. row[r].in \in Children(m)
        BY <2>1, <2>4, ResourceIsPlaced DEF StructureInv, StructureTypeOK, Children, Items
    <3> QED BY <1>2, <1>3, <3>1 DEF OnTheWay
  <2> QED BY <1>1, <2>1, <2>2, <2>3, <2>4 DEF OnTheWay
<1>5. Listed(walk.course, walk.role)' = Listed(walk.course, walk.role)
  <2>1. \A c, role : Listed(c, role)' = Listed(c, role)
    BY <1>2, SameListed
  <2> QED BY <1>2, <1>3, <2>1 DEF Listed, IsItem
<1>6. WalkIsWhole'
    BY <1>1, <1>2, <1>3, <1>4, <1>5 DEF StructureInv, WalkIsWhole
<1>7. StructureIsWhole'
    BY <1>3 DEF StructureIsWhole
<1> QED BY <1>2, <1>3, <1>6, <1>7, StillReading DEF StructureInv

LEMMA ListResourcesKeeps ==
    ASSUME StructureInv, NEW l \in Lessons, ListResources(l) PROVE StructureInv'
<1> DEFINE seen == Children(l) \cap Listed(walk.course, walk.role)
<1>1. walk.at = "walking" /\ walk \in Reading
    BY WalkingIsReading DEF ListResources
<1>2. UNCHANGED <<row, moves, published, steady, glimpsed>>
    BY DEF ListResources
<1>3. seen \subseteq Resources
    BY DEF Listed
<1>4. /\ walk'.at = "walking" /\ walk'.course = walk.course /\ walk'.role = walk.role
      /\ walk'.shown = walk.shown \cup seen
      /\ walk'.modules = walk.modules /\ walk'.lessons = walk.lessons \ {l}
      /\ walk' \in Reading
    BY <1>1, <1>3 DEF ListResources, Reading
<1>5. ASSUME NEW r \in steady PROVE OnTheWay(r)'
  <2>1. r \in Listed(walk.course, walk.role) /\ IsItem(r) /\ r \in Resources /\ OnTheWay(r)
    BY <1>1, <1>5, ListedAreRows DEF StructureInv, WalkIsWhole
  <2>2. CASE r \in walk.shown
    BY <1>4, <2>2 DEF OnTheWay
  <2>3. CASE row[row[r].in].in \in walk.modules
    BY <1>2, <1>4, <2>3 DEF OnTheWay
  <2>4. CASE row[r].in \in walk.lessons \ {l}
    BY <1>2, <1>4, <2>4 DEF OnTheWay
  <2>5. CASE row[r].in = l
    <3>1. r \in seen
        BY <2>1, <2>5 DEF Children, Items
    <3> QED BY <1>4, <3>1 DEF OnTheWay
  <2> QED BY <2>1, <2>2, <2>3, <2>4, <2>5 DEF OnTheWay
<1>6. Listed(walk.course, walk.role)' = Listed(walk.course, walk.role)
    BY <1>2, <1>4 DEF Listed, IsItem
<1>7. walk'.shown \subseteq glimpsed'
    BY <1>1, <1>2, <1>4 DEF StructureInv, WalkIsWhole
<1>8. WalkIsWhole'
    BY <1>1, <1>2, <1>4, <1>5, <1>6, <1>7 DEF StructureInv, WalkIsWhole
<1>9. StructureIsWhole'
    BY <1>4 DEF StructureIsWhole
<1> QED BY <1>2, <1>4, <1>8, <1>9, StillReading DEF StructureInv

\* When nothing is left to list, what is on its way is shown.
LEMMA AnswerKeeps ==
    ASSUME StructureInv, AnswerStructure PROVE StructureInv'
<1>1. walk.at = "walking" /\ walk \in Reading /\ walk.modules = {} /\ walk.lessons = {}
    BY WalkingIsReading DEF AnswerStructure
<1>2. UNCHANGED <<row, moves, published, steady, glimpsed>>
    BY DEF AnswerStructure
<1>3. walk' \in Reading /\ walk'.at = "answered" /\ walk'.shown = walk.shown
    BY <1>1 DEF AnswerStructure, Reading
<1>4. steady \subseteq walk.shown /\ walk.shown \subseteq glimpsed
    BY <1>1 DEF StructureInv, WalkIsWhole, OnTheWay
<1>5. StructureIsWhole'
    BY <1>2, <1>3, <1>4 DEF StructureIsWhole
<1>6. WalkIsWhole'
    BY <1>3 DEF WalkIsWhole
<1> QED BY <1>2, <1>3, <1>5, <1>6, StillReading DEF StructureInv

LEMMA ForgetKeeps ==
    ASSUME StructureInv, Forget PROVE StructureInv'
<1>1. OutlineTypeOK'
    BY TypesStay DEF Forget, StructureInv, StructureTypeOK
<1> QED BY <1>1
        DEF Forget, Away, StructureInv, StructureTypeOK, WalkIsWhole, StructureIsWhole

LEMMA StructureInitHolds == StructureInit => StructureInv
BY InitTypes DEF StructureInit, StructureInv, StructureTypeOK, WalkIsWhole,
                 StructureIsWhole, Away

LEMMA StructureStep == StructureInv /\ [StructureNext]_structure => StructureInv'
<1>1. ASSUME StructureInv, UNCHANGED structure PROVE StructureInv'
  <2>1. OutlineTypeOK'
    BY <1>1, TypesStay DEF structure, StructureInv, StructureTypeOK
  <2>2. StructureTypeOK'
    BY <1>1, <2>1 DEF structure, StructureInv, StructureTypeOK
  <2>3. WalkIsWhole' /\ StructureIsWhole'
    BY <1>1 DEF structure, StructureInv, WalkIsWhole, StructureIsWhole, OnTheWay, Listed,
                IsItem
  <2> QED BY <2>2, <2>3 DEF StructureInv
<1>2. ASSUME StructureInv, StructureNext PROVE StructureInv'
    BY <1>2, PublishKeeps, OutlineKeeps, BeginKeeps, ListLessonsKeeps,
       ListResourcesKeeps, AnswerKeeps, ForgetKeeps
    DEF StructureNext
<1> QED BY <1>1, <1>2

\* An outline that is put together from reads at different times shows all that
\* its reader could see all the while, and nothing it could at no time see
\* (get_content_structure against delete_module, delete_lesson and publish).
THEOREM OutlineIsWhole == StructureSpec => []StructureIsWhole
<1>1. StructureInv => StructureIsWhole
    BY DEF StructureInv
<1> QED BY <1>1, StructureInitHolds, StructureStep, PTL DEF StructureSpec

-----------------------------------------------------------------------------
(* Publishing and the search index *)

\* Index and row say the same of r.
Agrees(r) == index[r] = IF Stored(r) THEN Document(resource[r]) ELSE None

\* What a handler that has its resource for itself may rely on at its last step.
MayRely(s) ==
    s.at # "idle" /\ s.alone =>
        /\ s.at = "index" => Stored(s.r) /\ s.document = Document(resource[s.r])
        /\ s.at = "delete" /\ WithSearch => index[s.r] = None

\* Alone is alone, and nobody is at a settled resource.
PublishingInv ==
    /\ PublishingTypeOK
    /\ \A m, k \in Managers :
          /\ manager[m].at # "idle" /\ manager[m].alone
          /\ manager[k].at # "idle" /\ manager[k].r = manager[m].r
          => k = m
    /\ \A m \in Managers : MayRely(manager[m])
    /\ \A r \in settled :
          /\ WithSearch
          /\ Agrees(r)
          /\ \A m \in Managers : manager[m].at # "idle" => manager[m].r # r

LEMMA ManagerFields ==
    ASSUME NEW s \in ManagerStates, s.at # "idle"
    PROVE  /\ s.r \in ResourceIds
           /\ s.alone \in BOOLEAN
           /\ s.at \in {"publish", "downloadable"} => s.to \in BOOLEAN
           /\ s.at = "downloadable" => s.copyright \in Copyrights \cup {None}
           /\ s.at = "copyright" => s.to \in Copyrights
           /\ s.at = "index" => s.document \in Documents
BY DEF ManagerStates

LEMMA AloneOrNot ==
    ASSUME NEW s \in ManagerStates, s.at # "idle", NEW b \in BOOLEAN, NEW q,
           q = [s EXCEPT !.alone = b]
    PROVE  /\ q \in ManagerStates
           /\ q.at = s.at /\ q.r = s.r /\ q.alone = b
           /\ s.at = "index" => q.document = s.document
BY DEF ManagerStates

LEMMA IdleState == [at |-> "idle"] \in ManagerStates /\ [at |-> "idle"].at = "idle"
BY DEF ManagerStates

LEMMA ResourceRowFields ==
    ASSUME NEW fresh \in ResourceRows
    PROVE  /\ fresh \notin {None, Gone}
           /\ Document(fresh) \in Documents
           /\ Document(fresh).published = fresh.published
           /\ \A n \in Names : [fresh EXCEPT !.name = n] \in ResourceRows
           /\ \A b \in BOOLEAN : /\ [fresh EXCEPT !.published = b] \in ResourceRows
                                 /\ [fresh EXCEPT !.downloadable = b] \in ResourceRows
           /\ \A c \in Copyrights : [fresh EXCEPT !.copyright = c] \in ResourceRows
<1>1. fresh \notin {None, Gone}
    BY PublishingAssumption
<1>2. Document(fresh) \in Documents /\ Document(fresh).published = fresh.published
    BY DEF ResourceRows, Documents, Document
<1>3. \A n \in Names : [fresh EXCEPT !.name = n] \in ResourceRows
    BY DEF ResourceRows
<1>4. \A b \in BOOLEAN : [fresh EXCEPT !.published = b] \in ResourceRows
    BY DEF ResourceRows
<1>5. \A b \in BOOLEAN : [fresh EXCEPT !.downloadable = b] \in ResourceRows
    BY DEF ResourceRows
<1>6. \A c \in Copyrights : [fresh EXCEPT !.copyright = c] \in ResourceRows
    BY DEF ResourceRows
<1> QED BY <1>1, <1>2, <1>3, <1>4, <1>5, <1>6

\* A handler at r goes on, or is done with r.
LEMMA GoesOn ==
    ASSUME PublishingInv, NEW m \in Managers, manager[m].at # "idle",
           NEW r \in ResourceIds, manager[m].r = r,
           NEW s \in ManagerStates, manager' = [manager EXCEPT ![m] = s],
           s.at # "idle" => s.r = r /\ (s.alone => manager[m].alone),
           MayRely(s)',
           resource' \in [ResourceIds -> ResourceRows \cup {None, Gone}],
           index' \in [ResourceIds -> Documents \cup {None}],
           \A o \in ResourceIds \ {r} : resource'[o] = resource[o] /\ index'[o] = index[o],
           \/ settled' = settled
           \/ /\ settled' = settled \cup {r} /\ manager[m].alone /\ s.at = "idle"
              /\ WithSearch /\ Agrees(r)'
    PROVE  PublishingInv'
<1>1. /\ manager' \in [Managers -> ManagerStates] /\ manager \in [Managers -> ManagerStates]
      /\ manager'[m] = s /\ \A k \in Managers \ {m} : manager'[k] = manager[k]
    BY DEF PublishingInv, PublishingTypeOK
<1>2. PublishingTypeOK'
    BY <1>1 DEF PublishingInv, PublishingTypeOK
<1>3. ASSUME NEW k \in Managers, NEW l \in Managers, manager'[k].at # "idle",
             manager'[k].alone, manager'[l].at # "idle", manager'[l].r = manager'[k].r
      PROVE  l = k
    BY <1>1, <1>3 DEF PublishingInv
<1>4. ASSUME NEW k \in Managers \ {m}, manager[k].at # "idle", manager[k].alone
      PROVE  manager[k].r \in ResourceIds \ {r}
    BY <1>1, <1>4, ManagerFields DEF PublishingInv
<1>5. ASSUME NEW k \in Managers PROVE MayRely(manager[k])'
  <2>1. CASE k = m
    BY <1>1, <2>1 DEF MayRely
  <2>2. CASE k # m
    BY <1>1, <1>4, <2>2 DEF PublishingInv, MayRely, Stored
  <2> QED BY <2>1, <2>2
<1>6. r \notin settled
    BY DEF PublishingInv
<1>7. ASSUME NEW o \in settled'
      PROVE  /\ WithSearch /\ Agrees(o)'
             /\ \A k \in Managers : manager'[k].at # "idle" => manager'[k].r # o
  <2>1. CASE o \in settled
    <3>1. o \in ResourceIds \ {r}
        BY <1>6, <2>1 DEF PublishingInv, PublishingTypeOK
    <3>2. Agrees(o)'
        BY <2>1, <3>1 DEF PublishingInv, Agrees, Stored
    <3> QED BY <1>1, <2>1, <3>1, <3>2 DEF PublishingInv
  <2>2. CASE o = r /\ manager[m].alone /\ s.at = "idle" /\ WithSearch /\ Agrees(r)'
    BY <1>1, <2>2 DEF PublishingInv
  <2> QED BY <1>7, <2>1, <2>2
<1> QED BY <1>2, <1>3, <1>5, <1>7 DEF PublishingInv

\* A handler begins with r.
LEMMA Begins ==
    ASSUME PublishingInv, NEW m \in Managers, NEW r \in ResourceIds, NEW s \in ManagerStates,
           s.at # "idle", s.r = r, Begin(m, r, s),
           s.at = "index" => Stored(r)' /\ s.document = Document(resource[r])',
           s.at = "delete" => ~WithSearch,
           resource' \in [ResourceIds -> ResourceRows \cup {None, Gone}],
           \A o \in ResourceIds \ {r} : resource'[o] = resource[o],
           index' = index
    PROVE  PublishingInv'
<1> DEFINE q(k) == IF k = m THEN [s EXCEPT !.alone = Busy(r) = {}]
                   ELSE IF k \in Busy(r) THEN [manager[k] EXCEPT !.alone = FALSE]
                   ELSE manager[k]
<1>1. manager \in [Managers -> ManagerStates] /\ manager[m].at = "idle"
    BY DEF PublishingInv, PublishingTypeOK, Begin
<1>2. manager' = [k \in Managers |-> q(k)] /\ settled' = settled \ {r}
    BY DEF Begin
<1>3. /\ q(m) \in ManagerStates /\ q(m).at = s.at /\ q(m).r = r
      /\ q(m).alone <=> Busy(r) = {}
      /\ s.at = "index" => q(m).document = s.document
  <2>1. PICK b \in BOOLEAN : b = (Busy(r) = {})
    OBVIOUS
  <2>2. q(m) = [s EXCEPT !.alone = b]
    BY <2>1
  <2> HIDE DEF q
  <2> QED BY <2>1, <2>2, AloneOrNot
<1>4. ASSUME NEW k \in Managers, k # m
      PROVE  /\ q(k) \in ManagerStates /\ q(k).at = manager[k].at
             /\ manager[k].at # "idle" => q(k).r = manager[k].r
             /\ manager[k].at # "idle" /\ q(k).alone => q(k).r # r /\ q(k) = manager[k]
  <2>1. CASE k \in Busy(r)
    <3>1. manager[k].at # "idle" /\ manager[k].r = r
        BY <2>1 DEF Busy
    <3>2. q(k) = [manager[k] EXCEPT !.alone = FALSE]
        BY <1>4, <2>1
    <3> HIDE DEF q
    <3> QED BY <1>1, <1>4, <3>1, <3>2, AloneOrNot
  <2>2. CASE k \notin Busy(r)
    BY <1>1, <1>4, <2>2 DEF Busy
  <2> QED BY <2>1, <2>2
<1>5. \A k \in Managers : manager'[k] = q(k)
    BY <1>2
<1> HIDE DEF q
<1>6. PublishingTypeOK'
    BY <1>2, <1>3, <1>4 DEF PublishingInv, PublishingTypeOK
<1>7. ASSUME NEW k \in Managers, NEW l \in Managers, manager'[k].at # "idle",
             manager'[k].alone, manager'[l].at # "idle", manager'[l].r = manager'[k].r
      PROVE  l = k
  <2>1. CASE k = m
    BY <1>3, <1>4, <1>5, <1>7, <2>1 DEF Busy
  <2>2. CASE k # m /\ l = m
    BY <1>3, <1>4, <1>5, <1>7, <2>2
  <2>3. CASE k # m /\ l # m
    BY <1>4, <1>5, <1>7, <2>3 DEF PublishingInv
  <2> QED BY <2>1, <2>2, <2>3
<1>8. ASSUME NEW k \in Managers PROVE MayRely(manager[k])'
  <2>1. CASE k = m
    BY <1>3, <1>5, <2>1 DEF MayRely
  <2>2. CASE k # m /\ manager[k].at # "idle" /\ q(k).alone
    <3>1. manager[k].r \in ResourceIds \ {r}
        BY <1>1, <1>4, <2>2, ManagerFields
    <3> QED BY <1>4, <1>5, <2>2, <3>1 DEF PublishingInv, MayRely, Stored
  <2>3. CASE k # m /\ ~(manager[k].at # "idle" /\ q(k).alone)
    BY <1>4, <1>5, <2>3 DEF MayRely
  <2> QED BY <2>1, <2>2, <2>3
<1>9. ASSUME NEW o \in settled'
      PROVE  /\ WithSearch /\ Agrees(o)'
             /\ \A k \in Managers : manager'[k].at # "idle" => manager'[k].r # o
  <2>1. o \in settled /\ o \in ResourceIds \ {r}
    BY <1>2, <1>9 DEF PublishingInv, PublishingTypeOK
  <2>2. Agrees(o)'
    BY <2>1 DEF PublishingInv, Agrees, Stored
  <2> QED BY <1>3, <1>4, <1>5, <2>1, <2>2 DEF PublishingInv
<1> QED BY <1>6, <1>7, <1>8, <1>9 DEF PublishingInv

\* The last statement of a handler returned this row.
LEMMA ThenIndexKeeps ==
    ASSUME PublishingInv, NEW m \in Managers, manager[m].at # "idle",
           NEW r \in ResourceIds, manager[m].r = r, NEW fresh \in ResourceRows,
           resource' = [resource EXCEPT ![r] = fresh], index' = index, ThenIndex(m, fresh)
    PROVE  PublishingInv'
<1>1. /\ resource \in [ResourceIds -> ResourceRows \cup {None, Gone}]
      /\ index \in [ResourceIds -> Documents \cup {None}]
      /\ manager[m] \in ManagerStates
    BY DEF PublishingInv, PublishingTypeOK
<1>2. /\ resource' \in [ResourceIds -> ResourceRows \cup {None, Gone}]
      /\ resource'[r] = fresh /\ \A o \in ResourceIds \ {r} : resource'[o] = resource[o]
    BY <1>1
<1>3. CASE WithSearch
  <2>1. PICK s : s = [at |-> "index", r |-> r, alone |-> manager[m].alone,
                      document |-> Document(fresh)]
    OBVIOUS
  <2>2. manager' = [manager EXCEPT ![m] = s] /\ settled' = settled
    BY <1>3, <2>1 DEF ThenIndex, Step
  <2>3. s.at = "index" /\ s.r = r /\ s.alone = manager[m].alone /\ s.document = Document(fresh)
    BY <2>1
  <2>4. s \in ManagerStates
    BY <1>1, <2>1, ResourceRowFields, ManagerFields DEF ManagerStates
  <2>5. MayRely(s)'
    BY <1>2, <2>3, ResourceRowFields DEF MayRely, Stored
  <2> QED BY <1>1, <1>2, <2>2, <2>3, <2>4, <2>5, GoesOn
<1>4. CASE ~WithSearch
  <2>1. manager' = [manager EXCEPT ![m] = [at |-> "idle"]] /\ settled' = settled
    BY <1>4 DEF ThenIndex, Done, Leave, Step
  <2>2. MayRely([at |-> "idle"])'
    BY DEF MayRely
  <2> QED BY <1>1, <1>2, <2>1, <2>2, IdleState, GoesOn
<1> QED BY <1>3, <1>4

LEMMA StatementKeeps ==
    ASSUME PublishingInv, NEW m \in Managers,
           \/ UpdatePublicationStatus(m) \/ UpdateDownloadable(m) \/ UpdateCopyrightSetting(m)
    PROVE  PublishingInv'
<1>1. /\ manager[m].at # "idle" /\ manager[m] \in ManagerStates /\ index' = index
      /\ manager \in [Managers -> ManagerStates]
      /\ resource \in [ResourceIds -> ResourceRows \cup {None, Gone}]
      /\ index \in [ResourceIds -> Documents \cup {None}]
    BY DEF PublishingInv, PublishingTypeOK, UpdatePublicationStatus, UpdateDownloadable,
           UpdateCopyrightSetting
<1>2. PICK r \in ResourceIds : r = manager[m].r
    BY <1>1, ManagerFields
<1>3. Stored(r) /\ resource[r] \in ResourceRows
    BY <1>1, <1>2 DEF UpdatePublicationStatus, UpdateDownloadable, UpdateCopyrightSetting, Stored
<1>4. CASE UpdatePublicationStatus(m)
  <2>1. PICK fresh : fresh = [resource[r] EXCEPT !.published = manager[m].to]
    OBVIOUS
  <2>2. fresh \in ResourceRows
    BY <1>1, <1>3, <1>4, <2>1, ManagerFields, ResourceRowFields DEF UpdatePublicationStatus
  <2>3. resource' = [resource EXCEPT ![r] = fresh] /\ ThenIndex(m, fresh)
    BY <1>2, <1>4, <2>1 DEF UpdatePublicationStatus
  <2> QED BY <1>1, <1>2, <2>2, <2>3, ThenIndexKeeps
<1>5. CASE UpdateDownloadable(m)
  <2>1. PICK fresh : fresh = [resource[r] EXCEPT !.downloadable = manager[m].to]
    OBVIOUS
  <2>2. fresh \in ResourceRows
    BY <1>1, <1>3, <1>5, <2>1, ManagerFields, ResourceRowFields DEF UpdateDownloadable
  <2>3. resource' = [resource EXCEPT ![r] = fresh]
    BY <1>2, <1>5, <2>1 DEF UpdateDownloadable
  <2>4. CASE manager[m].copyright = None
    <3>1. ThenIndex(m, fresh)
        BY <1>2, <1>5, <2>1, <2>4 DEF UpdateDownloadable
    <3> QED BY <1>1, <1>2, <2>2, <2>3, <3>1, ThenIndexKeeps
  <2>5. CASE manager[m].copyright # None
    <3>1. PICK s : s = [at |-> "copyright", r |-> r, alone |-> manager[m].alone,
                        to |-> manager[m].copyright]
        OBVIOUS
    <3>2. manager' = [manager EXCEPT ![m] = s] /\ settled' = settled
        BY <1>2, <1>5, <2>5, <3>1 DEF UpdateDownloadable, Step
    <3>3. s \in ManagerStates
        BY <1>1, <1>2, <1>5, <2>5, <3>1, ManagerFields DEF ManagerStates, UpdateDownloadable
    <3>4. s.at = "copyright" /\ s.r = r /\ s.alone = manager[m].alone
        BY <3>1
    <3>5. MayRely(s)'
        BY <3>4 DEF MayRely
    <3>6. /\ resource' \in [ResourceIds -> ResourceRows \cup {None, Gone}]
          /\ \A o \in ResourceIds \ {r} : resource'[o] = resource[o]
        BY <1>1, <2>2, <2>3
    <3> QED BY <1>1, <1>2, <3>2, <3>3, <3>4, <3>5, <3>6, GoesOn
  <2> QED BY <2>4, <2>5
<1>6. CASE UpdateCopyrightSetting(m)
  <2>1. PICK fresh : fresh = [resource[r] EXCEPT !.copyright = manager[m].to]
    OBVIOUS
  <2>2. fresh \in ResourceRows
    BY <1>1, <1>3, <1>6, <2>1, ManagerFields, ResourceRowFields DEF UpdateCopyrightSetting
  <2>3. resource' = [resource EXCEPT ![r] = fresh] /\ ThenIndex(m, fresh)
    BY <1>2, <1>6, <2>1 DEF UpdateCopyrightSetting
  <2> QED BY <1>1, <1>2, <2>2, <2>3, ThenIndexKeeps
<1> QED BY <1>4, <1>5, <1>6

\* The handlers that read the resource, or insert it, and go on.
LEMMA CreateKeeps ==
    ASSUME PublishingInv, NEW m \in Managers, NEW r \in ResourceIds, NEW name \in Names,
           CreateResource(m, r, name)
    PROVE  PublishingInv'
<1>1. PICK fresh : fresh = [name |-> name, published |-> FALSE, downloadable |-> FALSE,
                        copyright |-> "unrestricted"]
    OBVIOUS
<1>2. fresh \in ResourceRows
    BY <1>1 DEF ResourceRows
<1>3. resource' = [resource EXCEPT ![r] = fresh] /\ index' = index /\ resource[r] = None
    BY <1>1 DEF CreateResource
<1>4. /\ resource' \in [ResourceIds -> ResourceRows \cup {None, Gone}]
      /\ resource'[r] = fresh /\ \A o \in ResourceIds \ {r} : resource'[o] = resource[o]
    BY <1>2, <1>3 DEF PublishingInv, PublishingTypeOK
<1>5. CASE WithSearch
  <2>1. PICK s : s = [at |-> "index", r |-> r, alone |-> TRUE, document |-> Document(fresh)]
    OBVIOUS
  <2>2. Begin(m, r, s)
    BY <1>1, <1>5, <2>1 DEF CreateResource
  <2>3. s \in ManagerStates
    BY <1>2, <2>1, ResourceRowFields DEF ManagerStates
  <2>4. s.at = "index" /\ s.r = r /\ s.document = Document(fresh)
    BY <2>1
  <2>5. Stored(r)' /\ s.document = Document(resource[r])'
    BY <1>2, <1>4, <2>4, ResourceRowFields DEF Stored
  <2> QED BY <1>3, <1>4, <2>2, <2>3, <2>4, <2>5, Begins
<1>6. CASE ~WithSearch
  <2>1. UNCHANGED <<manager, settled, index>> /\ settled = {}
    BY <1>6 DEF CreateResource, PublishingInv
  <2>2. PublishingTypeOK'
    BY <1>4, <2>1 DEF PublishingInv, PublishingTypeOK
  <2>3. ASSUME NEW k \in Managers PROVE MayRely(manager[k])'
    <3>1. manager[k] \in ManagerStates /\ MayRely(manager[k])
        BY DEF PublishingInv, PublishingTypeOK
    <3>2. CASE manager[k].at # "idle"
        BY <1>3, <1>4, <1>6, <2>1, <3>1, <3>2, ManagerFields DEF MayRely, Stored
    <3> QED BY <2>1, <3>2 DEF MayRely
  <2> QED BY <2>1, <2>2, <2>3 DEF PublishingInv
<1> QED BY <1>5, <1>6

LEMMA ReadsKeep ==
    ASSUME PublishingInv, NEW m \in Managers, NEW r \in ResourceIds,
           PublishResource(m, r) \/ UnpublishResource(m, r) \/ DeleteResource(m, r)
    PROVE  PublishingInv'
<1>1. resource' = resource /\ index' = index
    BY DEF PublishResource, UnpublishResource, BeginPublish, DeleteResource
<1>2. resource' \in [ResourceIds -> ResourceRows \cup {None, Gone}]
    BY <1>1 DEF PublishingInv, PublishingTypeOK
<1>3. ASSUME NEW to \in BOOLEAN, BeginPublish(m, r, to) PROVE PublishingInv'
  <2>1. PICK s : s = [at |-> "publish", r |-> r, alone |-> TRUE, to |-> to]
    OBVIOUS
  <2>2. s \in ManagerStates /\ s.at = "publish" /\ s.r = r
    BY <2>1 DEF ManagerStates
  <2>3. Begin(m, r, s)
    BY <1>3, <2>1 DEF BeginPublish
  <2> QED BY <1>1, <1>2, <2>2, <2>3, Begins
<1>4. CASE DeleteResource(m, r)
  <2>1. PICK s : s = [at |-> IF WithSearch THEN "remove" ELSE "delete", r |-> r, alone |-> TRUE]
    OBVIOUS
  <2>2. /\ s \in ManagerStates /\ s.at \in {"remove", "delete"} /\ s.r = r
        /\ s.at = "delete" => ~WithSearch
    BY <2>1 DEF ManagerStates
  <2>3. Begin(m, r, s)
    BY <1>4, <2>1 DEF DeleteResource
  <2> QED BY <1>1, <1>2, <2>2, <2>3, Begins
<1> QED BY <1>3, <1>4 DEF PublishResource, UnpublishResource

LEMMA UpdateKeeps ==
    ASSUME PublishingInv, NEW m \in Managers, NEW r \in ResourceIds, NEW name \in Names,
           NEW downloadable \in BOOLEAN, NEW copyright \in Copyrights \cup {None},
           UpdateResource(m, r, name, downloadable, copyright)
    PROVE  PublishingInv'
<1>1. resource \in [ResourceIds -> ResourceRows \cup {None, Gone}] /\ resource[r] \in ResourceRows
    BY DEF PublishingInv, PublishingTypeOK, UpdateResource, Stored
<1>2. PICK fresh : fresh = [resource[r] EXCEPT !.name = name]
    OBVIOUS
<1>3. fresh \in ResourceRows
    BY <1>1, <1>2, ResourceRowFields
<1>4. resource' = [resource EXCEPT ![r] = fresh] /\ index' = index
    BY <1>2 DEF UpdateResource
<1>5. PICK s : s = [at |-> "downloadable", r |-> r, alone |-> TRUE,
                    to |-> downloadable, copyright |-> copyright]
    OBVIOUS
<1>6. s \in ManagerStates /\ s.at = "downloadable" /\ s.r = r
    BY <1>5 DEF ManagerStates
<1>7. Begin(m, r, s)
    BY <1>5 DEF UpdateResource
<1>8. /\ resource' \in [ResourceIds -> ResourceRows \cup {None, Gone}]
      /\ \A o \in ResourceIds \ {r} : resource'[o] = resource[o]
    BY <1>1, <1>3, <1>4
<1> QED BY <1>4, <1>6, <1>7, <1>8, Begins

\* The last step of a handler: it is done, and what it did holds if it was alone.
LEMMA DoneKeeps ==
    ASSUME PublishingInv, NEW m \in Managers, manager[m].at # "idle", Done(m),
           NEW r \in ResourceIds, manager[m].r = r,
           resource' \in [ResourceIds -> ResourceRows \cup {None, Gone}],
           index' \in [ResourceIds -> Documents \cup {None}],
           \A o \in ResourceIds \ {r} : resource'[o] = resource[o] /\ index'[o] = index[o],
           WithSearch /\ manager[m].alone => Agrees(r)'
    PROVE  PublishingInv'
<1>1. manager' = [manager EXCEPT ![m] = [at |-> "idle"]]
    BY DEF Done, Leave, Step
<1>2. \/ settled' = settled
      \/ settled' = settled \cup {r} /\ manager[m].alone /\ WithSearch
    BY DEF Done
<1>3. MayRely([at |-> "idle"])'
    BY DEF MayRely
<1> QED BY <1>1, <1>2, <1>3, IdleState, GoesOn

LEMMA IndexContentKeeps ==
    ASSUME PublishingInv, NEW m \in Managers, IndexContent(m)
    PROVE  PublishingInv'
<1>1. /\ manager[m].at = "index" /\ manager[m] \in ManagerStates /\ resource' = resource
      /\ resource \in [ResourceIds -> ResourceRows \cup {None, Gone}]
      /\ index \in [ResourceIds -> Documents \cup {None}] /\ MayRely(manager[m])
    BY DEF PublishingInv, PublishingTypeOK, IndexContent
<1>2. PICK r \in ResourceIds : r = manager[m].r
    BY <1>1, ManagerFields
<1>3. index' = [index EXCEPT ![r] = manager[m].document] /\ manager[m].document \in Documents
    BY <1>1, <1>2, ManagerFields DEF IndexContent
<1>4. manager[m].alone => Agrees(r)'
    BY <1>1, <1>2, <1>3 DEF Agrees, MayRely, Stored
<1>5. Done(m)
    BY DEF IndexContent
<1> QED BY <1>1, <1>2, <1>3, <1>4, <1>5, DoneKeeps

LEMMA DeleteRowKeeps ==
    ASSUME PublishingInv, NEW m \in Managers, DeleteRow(m)
    PROVE  PublishingInv'
<1>1. /\ manager[m].at = "delete" /\ manager[m] \in ManagerStates /\ index' = index
      /\ resource \in [ResourceIds -> ResourceRows \cup {None, Gone}]
      /\ index \in [ResourceIds -> Documents \cup {None}] /\ MayRely(manager[m])
    BY DEF PublishingInv, PublishingTypeOK, DeleteRow
<1>2. PICK r \in ResourceIds : r = manager[m].r
    BY <1>1, ManagerFields
<1>3. resource' = [resource EXCEPT ![r] = Gone] /\ Done(m)
    BY <1>2 DEF DeleteRow
<1>4. WithSearch /\ manager[m].alone => Agrees(r)'
    BY <1>1, <1>2, <1>3 DEF Agrees, MayRely, Stored
<1> QED BY <1>1, <1>2, <1>3, <1>4, DoneKeeps

LEMMA LeavesKeep ==
    ASSUME PublishingInv, NEW m \in Managers, manager[m].at # "idle", Leave(m),
           UNCHANGED <<resource, index, settled>>
    PROVE  PublishingInv'
<1>1. manager[m] \in ManagerStates
    BY DEF PublishingInv, PublishingTypeOK
<1>2. PICK r \in ResourceIds : r = manager[m].r
    BY <1>1, ManagerFields
<1>3. manager' = [manager EXCEPT ![m] = [at |-> "idle"]]
    BY DEF Leave, Step
<1>4. MayRely([at |-> "idle"])'
    BY DEF MayRely
<1>5. /\ resource' \in [ResourceIds -> ResourceRows \cup {None, Gone}]
      /\ index' \in [ResourceIds -> Documents \cup {None}]
    BY DEF PublishingInv, PublishingTypeOK
<1> QED BY <1>2, <1>3, <1>4, <1>5, IdleState, GoesOn

\* The document is removed, or it could not be and the handler settles nothing.
LEMMA RemoveKeeps ==
    ASSUME PublishingInv, NEW m \in Managers, manager[m].at = "remove",
           \/ RemoveFromIndex(m)
           \/ IndexFails(m)
    PROVE  PublishingInv'
<1>1. /\ manager[m] \in ManagerStates /\ resource' = resource /\ settled' = settled
      /\ resource \in [ResourceIds -> ResourceRows \cup {None, Gone}]
      /\ index \in [ResourceIds -> Documents \cup {None}]
    BY DEF PublishingInv, PublishingTypeOK, RemoveFromIndex, IndexFails
<1>2. PICK r \in ResourceIds : r = manager[m].r
    BY <1>1, ManagerFields
<1>3. PICK q : q = [manager[m] EXCEPT !.at = "delete"]
    OBVIOUS
<1>4. /\ q \in ManagerStates /\ q.at = "delete" /\ q.r = r
      /\ q.alone = manager[m].alone
    BY <1>1, <1>2, <1>3 DEF ManagerStates
<1>5. CASE RemoveFromIndex(m)
  <2>1. manager' = [manager EXCEPT ![m] = q] /\ index' = [index EXCEPT ![r] = None]
    BY <1>2, <1>3, <1>5 DEF RemoveFromIndex, Step
  <2>2. index'[r] = None
    BY <1>1, <2>1
  <2>3. MayRely(q)'
    BY <1>4, <2>2 DEF MayRely
  <2>4. /\ index' \in [ResourceIds -> Documents \cup {None}]
        /\ \A o \in ResourceIds \ {r} : resource'[o] = resource[o] /\ index'[o] = index[o]
    BY <1>1, <2>1
  <2> QED BY <1>1, <1>2, <1>4, <2>1, <2>3, <2>4, GoesOn
<1>6. CASE IndexFails(m)
  <2>1. PICK p : p = [q EXCEPT !.alone = FALSE]
    OBVIOUS
  <2>2. p \in ManagerStates /\ p.at = "delete" /\ p.r = r /\ p.alone = FALSE
    BY <1>4, <2>1, AloneOrNot
  <2>3. p = [manager[m] EXCEPT !.at = "delete", !.alone = FALSE]
    BY <1>3, <2>1
  <2>4. manager' = [manager EXCEPT ![m] = p] /\ index' = index
    BY <1>6, <2>3 DEF IndexFails, Step
  <2>5. MayRely(p)'
    BY <2>2 DEF MayRely
  <2> QED BY <1>1, <1>2, <2>2, <2>4, <2>5, GoesOn
<1> QED BY <1>5, <1>6

LEMMA PublishingInitHolds == PublishingInit => PublishingInv
<1> SUFFICES ASSUME PublishingInit PROVE PublishingInv
    OBVIOUS
<1>1. \A m \in Managers : manager[m] = [at |-> "idle"]
    BY DEF PublishingInit
<1>2. PublishingTypeOK
    BY IdleState DEF PublishingInit, PublishingTypeOK
<1> QED BY <1>1, <1>2, IdleState DEF PublishingInit, PublishingInv, MayRely

LEMMA ManageKeeps ==
    ASSUME PublishingInv, NEW m \in Managers, Manage(m)
    PROVE  PublishingInv'
<1>1. CASE StatementFails(m)
    BY <1>1, LeavesKeep DEF StatementFails
<1>2. CASE IndexFails(m)
    BY <1>2, LeavesKeep, RemoveKeeps DEF IndexFails
<1>3. CASE RemoveFromIndex(m)
    BY <1>3, RemoveKeeps DEF RemoveFromIndex
<1> QED BY <1>1, <1>2, <1>3, StatementKeeps, CreateKeeps, ReadsKeep, UpdateKeeps,
           IndexContentKeeps, DeleteRowKeeps DEF Manage

LEMMA PublishingStep == PublishingInv /\ [PublishingNext]_publishing => PublishingInv'
<1>1. ASSUME PublishingInv, UNCHANGED publishing PROVE PublishingInv'
    BY <1>1 DEF publishing, PublishingInv, PublishingTypeOK, MayRely, Agrees, Stored
<1> QED BY <1>1, ManageKeeps DEF PublishingNext

THEOREM PublishingTypes == PublishingSpec => []PublishingTypeOK
<1>1. PublishingInv => PublishingTypeOK
    BY DEF PublishingInv
<1> QED BY <1>1, PublishingInitHolds, PublishingStep, PTL DEF PublishingSpec

\* A handler that has a resource for itself and meets no error leaves index and row
\* saying the same, whatever others did to the resource before, so a search finds
\* it exactly if it is published (index_resource and remove_from_index of
\* manager.rs).
THEOREM IndexFollowsRow == PublishingSpec => []IndexSettles
<1>1. ASSUME PublishingInv, NEW r \in settled
      PROVE  /\ Agrees(r)
             /\ r \in Search <=> Stored(r) /\ resource[r].published
  <2>1. r \in ResourceIds /\ Agrees(r)
    BY <1>1 DEF PublishingInv, PublishingTypeOK
  <2>2. CASE Stored(r)
    <3>1. resource[r] \in ResourceRows
        BY <1>1, <2>1, <2>2 DEF PublishingInv, PublishingTypeOK, Stored
    <3>2. index[r] \in Documents /\ index[r].published = resource[r].published
        BY <2>1, <2>2, <3>1, ResourceRowFields DEF Agrees
    <3> QED BY <2>1, <2>2, <3>2, PublishingAssumption DEF Search
  <2>3. CASE ~Stored(r)
    BY <2>1, <2>3 DEF Agrees, Search
  <2> QED BY <2>1, <2>2, <2>3
<1>2. PublishingInv => IndexSettles
    BY <1>1 DEF IndexSettles, Agrees
<1> QED BY <1>2, PublishingInitHolds, PublishingStep, PTL DEF PublishingSpec

-----------------------------------------------------------------------------
(* Viewing *)

\* Where a handler goes by what it decided when the request came.
Decided(s) ==
    \/ s.at \in {"state", "sign", "track", "granted"} /\ s.student
    \/ s.at = "mark" /\ s.completed

ViewingInv ==
    /\ PublishingInv
    /\ ViewingTypeOK
    /\ \A v \in Viewers : Decided(viewer[v]) => v \in could
    /\ \A s \in Students, r \in ResourceIds : Completed(s, r) => <<s, r>> \in earned

LEMMA ViewerFields ==
    ASSUME NEW s \in ViewerStates
    PROVE  /\ s.at \in {"mark", "playback", "state", "sign", "track", "granted"} =>
                 s.s \in Students /\ s.r \in ResourceIds
           /\ s.at = "mark" => s.completed \in BOOLEAN
           /\ s.at = "playback" => s.position \in 0..Duration
           /\ s.at \in {"state", "sign", "track", "granted"} =>
                 s.student \in BOOLEAN /\ s.wish \in Wishes
           /\ s.at = "summary" => s.completed \in SUBSET ResourceIds
           /\ s.at = "report" => s.listed \in SUBSET ResourceIds /\ s.left \in SUBSET Students
BY DEF ViewerStates

LEMMA ViewerIdle == [at |-> "idle"] \in ViewerStates /\ ~Decided([at |-> "idle"])
BY DEF ViewerStates, Decided

LEMMA PercentBounded ==
    ASSUME NEW completed \in SUBSET ResourceIds, NEW listed \in SUBSET ResourceIds
    PROVE  Percent(completed, listed) \in 0..100
<1>1. IsFiniteSet(listed) /\ Cardinality(listed) \in Nat
    BY ViewingAssumption, FS_Subset, FS_CardinalityType
<1>2. /\ Cardinality(completed \cap listed) \in Nat
      /\ Cardinality(completed \cap listed) <= Cardinality(listed)
    BY <1>1, FS_Subset, FS_CardinalityType
<1>3. ASSUME NEW c \in Nat, NEW t \in Nat, c <= t
      PROVE  CalculatePercentage(c, t) \in 0..100
  <2>1. CASE t = 0
    BY <2>1 DEF CalculatePercentage
  <2>2. CASE t > 0
    <3>1. (200 * c + t) \div (2 * t) \in Int
        BY <2>2
    <3>2. (200 * c + t) \div (2 * t) >= 0
        BY <2>2
    <3>3. (200 * c + t) \div (2 * t) < 101
        BY <1>3, <2>2
    <3> QED BY <2>2, <3>1, <3>2, <3>3 DEF CalculatePercentage
  <2> QED BY <2>1, <2>2
<1> QED BY <1>1, <1>2, <1>3 DEF Percent

\* A step of handler v: what it decided is noted, and stays noted while it is under way.
LEMMA ViewKeeps ==
    ASSUME ViewingInv, NEW v \in Viewers, NEW s \in ViewerStates, View(v, s),
           Decided(s) => (v \in could /\ viewer[v].at # "idle") \/ MayHave(s)'
    PROVE  /\ viewer' \in [Viewers -> ViewerStates] /\ could' \in SUBSET Viewers
           /\ \A w \in Viewers : Decided(viewer'[w]) => w \in could'
<1>1. viewer \in [Viewers -> ViewerStates] /\ viewer' = [viewer EXCEPT ![v] = s]
    BY DEF ViewingInv, ViewingTypeOK, View
<1>2. viewer' \in [Viewers -> ViewerStates] /\ viewer'[v] = s
    BY <1>1
<1>3. could' = {w \in Viewers : /\ viewer'[w].at # "idle"
                                /\ (w \in could /\ viewer[w].at # "idle") \/ MayHave(viewer[w])'}
    BY DEF View, Remember
<1>4. ASSUME NEW w \in Viewers, Decided(viewer'[w]) PROVE w \in could'
  <2>1. viewer'[w].at # "idle"
    BY <1>4 DEF Decided
  <2>2. CASE w = v
    BY <1>2, <1>3, <1>4, <2>1, <2>2 DEF MayHave
  <2>3. CASE w # v
    <3>1. viewer'[w] = viewer[w] /\ w \in could
        BY <1>1, <1>4, <2>3 DEF ViewingInv
    <3> QED BY <1>3, <2>1, <3>1
  <2> QED BY <2>2, <2>3
<1> QED BY <1>2, <1>3, <1>4

\* What such a step leaves alone.
LEMMA ViewResources ==
    ASSUME ViewingInv, NEW v \in Viewers, NEW s, View(v, s)
    PROVE  /\ PublishingInv' /\ PublishingTypeOK' /\ transcoded' = transcoded
           /\ \A r \in ResourceIds : Stored(r)' <=> Stored(r)
<1>1. UNCHANGED publishing /\ PublishingInv /\ transcoded' = transcoded
    BY DEF ViewingInv, View
<1>2. PublishingInv'
    BY <1>1, PublishingStep
<1> QED BY <1>1, <1>2 DEF publishing, PublishingInv, Stored

\* A handler that writes nothing.
LEMMA LooksOn ==
    ASSUME ViewingInv, NEW v \in Viewers, NEW s \in ViewerStates, View(v, s),
           Decided(s) => (v \in could /\ viewer[v].at # "idle") \/ MayHave(s)',
           UNCHANGED <<progress, earned>>,
           \/ UNCHANGED tracked
           \/ \E t \in Students, r \in ResourceIds : Stored(r) /\ tracked' = tracked \cup {<<t, r>>}
    PROVE  ViewingInv'
<1>1. /\ viewer' \in [Viewers -> ViewerStates] /\ could' \in SUBSET Viewers
      /\ \A w \in Viewers : Decided(viewer'[w]) => w \in could'
    BY ViewKeeps
<1>2. /\ PublishingInv' /\ PublishingTypeOK' /\ transcoded' = transcoded
      /\ \A r \in ResourceIds : Stored(r)' <=> Stored(r)
    BY ViewResources
<1>3. tracked' \in SUBSET (Students \X ResourceIds)
    BY DEF ViewingInv, ViewingTypeOK
<1>4. ASSUME NEW t \in Students, NEW r \in ResourceIds,
             progress'[t][r] # None \/ <<t, r>> \in tracked'
      PROVE  Stored(r)'
    BY <1>2, <1>4 DEF ViewingInv, ViewingTypeOK
<1>5. ViewingTypeOK'
    BY <1>1, <1>2, <1>3, <1>4 DEF ViewingInv, ViewingTypeOK
<1>6. \A t \in Students, r \in ResourceIds : Completed(t, r)' => <<t, r>> \in earned'
    BY DEF ViewingInv, Completed
<1> QED BY <1>1, <1>2, <1>5, <1>6 DEF ViewingInv

\* A handler that writes the progress of a student, and is done.
LEMMA WritesProgress ==
    ASSUME ViewingInv, NEW v \in Viewers, Answer(v), UNCHANGED tracked,
           NEW s \in Students, NEW r \in ResourceIds, Stored(r),
           NEW completed \in BOOLEAN, NEW position \in (0..Duration) \cup {None},
           progress' = [progress EXCEPT ![s][r] =
               [completed |-> completed, position |-> position]],
           earned' = earned \/ earned' = earned \cup {<<s, r>>},
           completed => <<s, r>> \in earned'
    PROVE  ViewingInv'
<1>1. PICK fresh : fresh = [completed |-> completed, position |-> position]
    OBVIOUS
<1>2. fresh \in ProgressRows /\ fresh # None /\ fresh.completed = completed
    BY <1>1, ViewingAssumption DEF ProgressRows
<1>3. progress \in [Students -> [ResourceIds -> ProgressRows \cup {None}]]
    BY DEF ViewingInv, ViewingTypeOK
<1>4. /\ progress' \in [Students -> [ResourceIds -> ProgressRows \cup {None}]]
      /\ progress'[s][r] = fresh
      /\ \A t \in Students, o \in ResourceIds :
            t # s \/ o # r => progress'[t][o] = progress[t][o]
    BY <1>1, <1>2, <1>3
<1>5. /\ viewer' \in [Viewers -> ViewerStates] /\ could' \in SUBSET Viewers
      /\ \A w \in Viewers : Decided(viewer'[w]) => w \in could'
    BY ViewKeeps, ViewerIdle DEF Answer
<1>6. /\ PublishingInv' /\ PublishingTypeOK' /\ transcoded' = transcoded
      /\ \A o \in ResourceIds : Stored(o)' <=> Stored(o)
    BY ViewResources DEF Answer
<1>7. ASSUME NEW t \in Students, NEW o \in ResourceIds,
             progress'[t][o] # None \/ <<t, o>> \in tracked'
      PROVE  Stored(o)'
    BY <1>4, <1>6, <1>7 DEF ViewingInv, ViewingTypeOK
<1>8. ViewingTypeOK'
    BY <1>4, <1>5, <1>6, <1>7 DEF ViewingInv, ViewingTypeOK
<1>9. ASSUME NEW t \in Students, NEW o \in ResourceIds, Completed(t, o)'
      PROVE  <<t, o>> \in earned'
  <2>1. CASE t = s /\ o = r
    BY <1>2, <1>4, <1>9, <2>1 DEF Completed
  <2>2. CASE t # s \/ o # r
    <3>1. Completed(t, o)
        BY <1>4, <1>9, <2>2 DEF Completed
    <3> QED BY <3>1 DEF ViewingInv
  <2> QED BY <2>1, <2>2
<1> QED BY <1>5, <1>6, <1>8, <1>9 DEF ViewingInv

LEMMA MarkKeeps ==
    ASSUME ViewingInv, NEW v \in Viewers, NEW s \in Students, NEW r \in ResourceIds,
           NEW completed \in BOOLEAN, MarkComplete(v, s, r, completed)
    PROVE  ViewingInv'
<1>1. PICK q : q = [at |-> "mark", s |-> s, r |-> r, completed |-> completed]
    OBVIOUS
<1>2. q \in ViewerStates /\ q.at = "mark" /\ q.r = r /\ q.completed = completed
    BY <1>1 DEF ViewerStates
<1>3. View(v, q) /\ UNCHANGED <<progress, earned, tracked>> /\ Stored(r)
      /\ (completed => resource[r].published)
    BY <1>1 DEF MarkComplete
<1>4. resource' = resource
    BY <1>3 DEF View, publishing
<1>5. completed => MayHave(q)'
    BY <1>2, <1>3, <1>4 DEF MayHave, Published, Stored
<1> QED BY <1>2, <1>3, <1>5, LooksOn DEF Decided

LEMMA PlaybackKeeps ==
    ASSUME ViewingInv, NEW v \in Viewers, NEW s \in Students, NEW r \in ResourceIds,
           NEW position \in Positions, UpdatePlaybackPosition(v, s, r, position)
    PROVE  ViewingInv'
<1>1. PICK q : q = [at |-> "playback", s |-> s, r |-> r, position |-> position]
    OBVIOUS
<1>2. q \in ViewerStates /\ q.at = "playback"
    BY <1>1 DEF ViewerStates, UpdatePlaybackPosition
<1> QED BY <1>1, <1>2, LooksOn DEF UpdatePlaybackPosition, Decided

LEMMA AskKeeps ==
    ASSUME ViewingInv, NEW v \in Viewers, NEW s \in Students, NEW r \in ResourceIds,
           NEW student \in BOOLEAN,
           NEW place \in {"state", "sign", "granted"}, NEW wish \in Wishes,
           Ask(v, place, s, r, student, wish),
           student => Published(r) /\ (wish = "download" => DownloadPermitted(r))
    PROVE  ViewingInv'
<1>1. PICK q : q = [at |-> place, s |-> s, r |-> r, student |-> student, wish |-> wish]
    OBVIOUS
<1>2. /\ q \in ViewerStates /\ q.at = place /\ q.r = r /\ q.student = student
      /\ q.wish = wish /\ "wish" \in DOMAIN q
    BY <1>1 DEF ViewerStates
<1>3. View(v, q) /\ UNCHANGED <<progress, earned, tracked>>
    BY <1>1 DEF Ask
<1>4. resource' = resource
    BY <1>3 DEF View, publishing
<1>5. student => MayHave(q)'
    BY <1>2, <1>4 DEF MayHave, Published, Stored, DownloadPermitted
<1> QED BY <1>2, <1>3, <1>5, LooksOn DEF Decided

LEMMA RequestsKeep ==
    ASSUME ViewingInv, NEW v \in Viewers, NEW s \in Students, NEW r \in ResourceIds,
           NEW student \in BOOLEAN,
           \/ GetVideoManifest(v, s, r, student)
           \/ GetPlaybackState(v, s, r, student)
           \/ GenerateDownloadUrl(v, s, r, student)
    PROVE  ViewingInv'
<1>1. CASE GetVideoManifest(v, s, r, student)
    BY <1>1, AskKeeps DEF GetVideoManifest, Published, Wishes
<1>2. CASE GetPlaybackState(v, s, r, student)
    BY <1>2, AskKeeps DEF GetPlaybackState, Published, Wishes
<1>3. CASE GenerateDownloadUrl(v, s, r, student)
    BY <1>3, AskKeeps DEF GenerateDownloadUrl, DownloadPermitted, Wishes
<1> QED BY <1>1, <1>2, <1>3

LEMMA GoFields ==
    ASSUME NEW s \in ViewerStates, s.at \in {"state", "sign", "track"},
           NEW place \in {"track", "granted"}, NEW q, q = [s EXCEPT !.at = place]
    PROVE  q \in ViewerStates /\ q.at = place /\ q.student = s.student
BY DEF ViewerStates

LEMMA GoKeeps ==
    ASSUME ViewingInv, NEW v \in Viewers,
           ReadPosition(v) \/ GeneratePresignedUrl(v) \/ TrackDownload(v)
    PROVE  ViewingInv'
<1>1. viewer[v] \in ViewerStates /\ viewer[v].at \in {"state", "sign", "track"}
      /\ (viewer[v].student => v \in could)
    BY DEF ViewingInv, ViewingTypeOK, Decided, ReadPosition, GeneratePresignedUrl, TrackDownload
<1>2. ASSUME NEW place \in {"track", "granted"}, Go(v, place),
             \/ UNCHANGED tracked
             \/ \E t \in Students, r \in ResourceIds :
                   Stored(r) /\ tracked' = tracked \cup {<<t, r>>}
      PROVE  ViewingInv'
  <2>1. PICK q : q = [viewer[v] EXCEPT !.at = place]
    OBVIOUS
  <2>2. q \in ViewerStates /\ q.at = place /\ q.student = viewer[v].student
    BY <1>1, <2>1, GoFields
  <2>3. View(v, q) /\ UNCHANGED <<progress, earned>>
    BY <1>2, <2>1 DEF Go
  <2>4. Decided(q) => v \in could /\ viewer[v].at # "idle"
    BY <1>1, <2>2 DEF Decided
  <2> QED BY <1>2, <2>2, <2>3, <2>4, LooksOn
<1>3. CASE ReadPosition(v) \/ GeneratePresignedUrl(v)
    BY <1>2, <1>3 DEF ReadPosition, GeneratePresignedUrl
<1>4. CASE TrackDownload(v)
  <2>1. viewer[v].s \in Students /\ viewer[v].r \in ResourceIds
    BY <1>1, ViewerFields
  <2> QED BY <1>2, <1>4, <2>1 DEF TrackDownload
<1> QED BY <1>3, <1>4

LEMMA ReportsKeep ==
    ASSUME ViewingInv, NEW v \in Viewers,
           \/ \E s \in Students : GetProgress(v, s) \/ ReportStudent(v, s)
           \/ AnswerProgress(v) \/ GenerateReport(v) \/ Answered(v) \/ ViewFails(v)
    PROVE  ViewingInv'
<1>1. viewer[v] \in ViewerStates /\ UNCHANGED <<progress, tracked, earned>>
    BY DEF ViewingInv, ViewingTypeOK, GetProgress, ReportStudent, AnswerProgress,
           GenerateReport, Answered, ViewFails
<1>2. ASSUME NEW q \in ViewerStates, q.at \in {"idle", "summary", "report", "reported"}, View(v, q)
      PROVE  ViewingInv'
    BY <1>1, <1>2, LooksOn DEF Decided
<1>3. ASSUME NEW completed \in SUBSET ResourceIds, NEW listed \in SUBSET ResourceIds,
             View(v, [at |-> "reported", percent |-> Percent(completed, listed)])
      PROVE  ViewingInv'
  <2>1. PICK q : q = [at |-> "reported", percent |-> Percent(completed, listed)]
    OBVIOUS
  <2>2. q \in ViewerStates /\ q.at = "reported"
    BY <2>1, PercentBounded DEF ViewerStates
  <2> QED BY <1>2, <1>3, <2>1, <2>2
<1>4. ASSUME NEW s \in Students, GetProgress(v, s) PROVE ViewingInv'
  <2>1. PICK q : q = [at |-> "summary", completed |-> {r \in ResourceIds : Completed(s, r)}]
    OBVIOUS
  <2>2. q \in ViewerStates /\ q.at = "summary"
    BY <2>1 DEF ViewerStates
  <2> QED BY <1>2, <1>4, <2>1, <2>2 DEF GetProgress
<1>5. ASSUME NEW s \in Students, ReportStudent(v, s) PROVE ViewingInv'
  <2>1. viewer[v].at = "report" /\ viewer[v].listed \in SUBSET ResourceIds
    BY <1>1, <1>5, ViewerFields DEF ReportStudent
  <2>2. PICK completed \in SUBSET ResourceIds : completed = {r \in ResourceIds : Completed(s, r)}
    OBVIOUS
  <2>3. CASE viewer[v].left = {s}
    <3>1. View(v, [at |-> "reported", percent |-> Percent(completed, viewer[v].listed)])
        BY <1>5, <2>2, <2>3 DEF ReportStudent
    <3>2. PICK listed \in SUBSET ResourceIds : listed = viewer[v].listed
        BY <2>1
    <3> QED BY <1>3, <3>1, <3>2
  <2>4. CASE viewer[v].left # {s}
    <3>1. PICK q : q = [viewer[v] EXCEPT !.left = @ \ {s}]
        OBVIOUS
    <3>2. q \in ViewerStates /\ q.at = "report"
        BY <1>1, <2>1, <3>1 DEF ViewerStates
    <3> QED BY <1>2, <1>5, <2>4, <3>1, <3>2 DEF ReportStudent
  <2> QED BY <2>3, <2>4
<1>6. Offered \in SUBSET ResourceIds
    BY DEF Offered
<1>7. CASE AnswerProgress(v)
  <2>1. PICK completed \in SUBSET ResourceIds : completed = viewer[v].completed
    BY <1>1, <1>7, ViewerFields DEF AnswerProgress
  <2>2. PICK listed \in SUBSET ResourceIds : listed = Offered
    BY <1>6
  <2> QED BY <1>3, <1>7, <2>1, <2>2 DEF AnswerProgress
<1>8. CASE GenerateReport(v)
  <2>1. PICK q : q = [at |-> "report", listed |-> Offered,
                      left |-> {s \in Students : \E r \in Offered : progress[s][r] # None}]
    OBVIOUS
  <2>2. q \in ViewerStates /\ q.at = "report"
    BY <1>6, <2>1 DEF ViewerStates
  <2> QED BY <1>2, <1>8, <2>1, <2>2 DEF GenerateReport
<1>9. CASE Answered(v) \/ ViewFails(v)
    BY <1>2, <1>9, ViewerIdle DEF Answered, ViewFails, Answer
<1> QED BY <1>4, <1>5, <1>7, <1>8, <1>9

LEMMA WriteMarkKeeps ==
    ASSUME ViewingInv, NEW v \in Viewers, WriteMark(v)
    PROVE  ViewingInv'
<1>1. viewer[v].at = "mark" /\ viewer[v] \in ViewerStates /\ (viewer[v].completed => v \in could)
    BY DEF ViewingInv, ViewingTypeOK, Decided, WriteMark
<1>2. PICK s \in Students, r \in ResourceIds, completed \in BOOLEAN :
          s = viewer[v].s /\ r = viewer[v].r /\ completed = viewer[v].completed
    BY <1>1, ViewerFields
<1>3. /\ Stored(r) /\ Answer(v) /\ UNCHANGED tracked
      /\ progress' = [progress EXCEPT ![s][r] =
            [completed |-> completed, position |-> None]]
      /\ earned' = IF completed /\ v \in could THEN earned \cup {<<s, r>>} ELSE earned
    BY <1>2 DEF WriteMark, Upsert
<1>4. /\ completed => <<s, r>> \in earned'
      /\ earned' = earned \/ earned' = earned \cup {<<s, r>>}
    BY <1>1, <1>2, <1>3
<1> QED BY <1>3, <1>4, WritesProgress

LEMMA WritePositionKeeps ==
    ASSUME ViewingInv, NEW v \in Viewers, WritePosition(v)
    PROVE  ViewingInv'
<1>1. viewer[v].at = "playback" /\ viewer[v] \in ViewerStates
    BY DEF ViewingInv, ViewingTypeOK, WritePosition
<1>2. PICK s \in Students, r \in ResourceIds, position \in 0..Duration :
          s = viewer[v].s /\ r = viewer[v].r /\ position = viewer[v].position
    BY <1>1, ViewerFields
<1>3. Stored(r) /\ Answer(v) /\ UNCHANGED tracked
    BY <1>2 DEF WritePosition
<1>4. CASE ShouldAutoComplete(position)
  <2>1. /\ progress' = [progress EXCEPT ![s][r] = [completed |-> TRUE, position |-> None]]
        /\ earned' = earned \cup {<<s, r>>}
    BY <1>2, <1>4 DEF WritePosition, Upsert
  <2> QED BY <1>3, <2>1, WritesProgress
<1>5. CASE ~ShouldAutoComplete(position)
  <2>1. /\ progress' = [progress EXCEPT ![s][r] =
              [completed |-> Completed(s, r), position |-> position]]
        /\ earned' = earned
    BY <1>2, <1>5 DEF WritePosition, UpsertPosition
  <2>2. /\ Completed(s, r) => <<s, r>> \in earned'
        /\ progress[s][r] \in ProgressRows \cup {None}
    BY <2>1 DEF ViewingInv, ViewingTypeOK
  <2>3. Completed(s, r) \in BOOLEAN
    BY <2>2 DEF Completed, ProgressRows
  <2>4. PICK completed \in BOOLEAN : completed = Completed(s, r)
    BY <2>3
  <2> QED BY <1>3, <2>1, <2>2, <2>4, WritesProgress
<1> QED BY <1>4, <1>5

\* Managers and the transcoding worker: the rows of a deleted resource go with it.
LEMMA OthersWatch ==
    ASSUME ViewingInv, viewer' = viewer, Remember
    PROVE  /\ could' \in SUBSET Viewers
           /\ \A v \in Viewers : Decided(viewer'[v]) => v \in could'
<1>1. ASSUME NEW v \in Viewers, Decided(viewer[v]) PROVE v \in could' 
    BY <1>1 DEF ViewingInv, Remember, Decided
<1> QED BY <1>1 DEF Remember

LEMMA ManagerKeeps ==
    ASSUME ViewingInv, NEW m \in Managers, ManagerActs(m)
    PROVE  ViewingInv'
<1>1. PublishingInv' /\ PublishingTypeOK'
    BY ManageKeeps DEF ViewingInv, ManagerActs, PublishingInv
<1>2. /\ could' \in SUBSET Viewers
      /\ \A v \in Viewers : Decided(viewer'[v]) => v \in could'
    BY OthersWatch DEF ManagerActs
<1>3. /\ progress' \in [Students -> [ResourceIds -> ProgressRows \cup {None}]]
      /\ \A s \in Students, r \in ResourceIds :
            \/ progress'[s][r] = None
            \/ Stored(r)' /\ progress'[s][r] = progress[s][r]
    BY DEF ViewingInv, ViewingTypeOK, ManagerActs
<1>4. tracked' \in SUBSET (Students \X ResourceIds) /\ \A d \in tracked' : Stored(d[2])'
    BY DEF ViewingInv, ViewingTypeOK, ManagerActs
<1>5. \A s \in Students, r \in ResourceIds :
          progress'[s][r] # None \/ <<s, r>> \in tracked' => Stored(r)'
    BY <1>3, <1>4
<1>6. ViewingTypeOK'
    BY <1>1, <1>2, <1>3, <1>4, <1>5 DEF ViewingInv, ViewingTypeOK, ManagerActs
<1>7. \A s \in Students, r \in ResourceIds : Completed(s, r)' => <<s, r>> \in earned'
    BY <1>3 DEF ViewingInv, Completed, ManagerActs
<1> QED BY <1>1, <1>2, <1>6, <1>7 DEF ViewingInv

LEMMA WorkerKeeps ==
    ASSUME ViewingInv, NEW r \in ResourceIds, UpdateVideoMetadata(r)
    PROVE  ViewingInv'
<1>1. UNCHANGED <<publishing, progress, tracked, viewer, earned>> /\ Remember
      /\ transcoded' \in SUBSET Videos
    BY DEF UpdateVideoMetadata, ViewingInv, ViewingTypeOK
<1>2. PublishingInv' /\ PublishingTypeOK'
    BY <1>1, PublishingStep DEF ViewingInv, PublishingInv
<1>3. /\ could' \in SUBSET Viewers
      /\ \A v \in Viewers : Decided(viewer'[v]) => v \in could'
    BY <1>1, OthersWatch
<1>4. ViewingTypeOK'
    BY <1>1, <1>2, <1>3 DEF ViewingInv, ViewingTypeOK, publishing, Stored
<1> QED BY <1>1, <1>2, <1>3, <1>4 DEF ViewingInv, Completed

LEMMA ViewingInitHolds == ViewingInit => ViewingInv
<1> SUFFICES ASSUME ViewingInit PROVE ViewingInv
    OBVIOUS
<1>1. PublishingInv /\ PublishingTypeOK
    BY PublishingInitHolds DEF ViewingInit, PublishingInv
<1>2. /\ \A v \in Viewers : viewer[v] = [at |-> "idle"]
      /\ \A s \in Students, r \in ResourceIds : progress[s][r] = None
    BY DEF ViewingInit, StudentsInit
<1>3. ViewingTypeOK
    BY <1>1, <1>2, ViewerIdle DEF ViewingInit, StudentsInit, ViewingTypeOK
<1> QED BY <1>1, <1>2, <1>3, ViewerIdle DEF ViewingInv, Completed

LEMMA ViewingStep == ViewingInv /\ [ViewingNext]_viewing => ViewingInv'
<1>1. ASSUME ViewingInv, UNCHANGED viewing PROVE ViewingInv'
  <2>1. UNCHANGED publishing /\ UNCHANGED students
    BY <1>1 DEF viewing
  <2>2. PublishingInv' /\ PublishingTypeOK'
    BY <1>1, <2>1, PublishingStep DEF ViewingInv, PublishingInv
  <2> QED BY <1>1, <2>1, <2>2 DEF publishing, students, ViewingInv, ViewingTypeOK, Stored, Completed
<1>2. ASSUME ViewingInv, ViewingNext PROVE ViewingInv'
    BY <1>2, ManagerKeeps, WorkerKeeps, MarkKeeps, RequestsKeep, GoKeeps, ReportsKeep,
       WriteMarkKeeps, WritePositionKeeps, PlaybackKeeps DEF ViewingNext
<1> QED BY <1>1, <1>2

THEOREM ViewingTypes == ViewingSpec => []ViewingTypeOK
<1>1. ViewingInv => ViewingTypeOK
    BY DEF ViewingInv
<1> QED BY <1>1, ViewingInitHolds, ViewingStep, PTL DEF ViewingSpec

\* What a student is given was allowed since the request came, though managers may
\* unpublish the resource or forbid its download at every step of it, and what is
\* completed was allowed or played through (download/manager.rs,
\* streaming/service.rs and progress/tracker.rs).
THEOREM ViewsWereAllowed == ViewingSpec => []ViewedWasAllowed
<1>1. ViewingInv => ViewedWasAllowed
    BY DEF ViewingInv, ViewedWasAllowed, Decided
<1> QED BY <1>1, ViewingInitHolds, ViewingStep, PTL DEF ViewingSpec

-----------------------------------------------------------------------------
(* Analytics *)

Queued(s, e) == \E k \in DOMAIN s : s[k] = e
OnceOnly(s) == \A i, j \in DOMAIN s : s[i] = s[j] => i = j

Somewhere(e) ==
    \/ e \in buffer
    \/ e \in retry.events
    \/ \E f \in Flushers : e \in flush[f].events
    \/ Queued(list, e)

\* No event is in two of the places.
Apart(e) ==
    /\ e \in buffer => e \notin retry.events /\ ~Queued(list, e)
    /\ e \in retry.events => ~Queued(list, e)
    /\ \A f \in Flushers : e \in flush[f].events =>
          /\ e \notin buffer /\ e \notin retry.events /\ ~Queued(list, e)
          /\ \A g \in Flushers : e \in flush[g].events => g = f

Accounted(e) ==
    /\ Apart(e)
    /\ Somewhere(e) => e \in accepted
    /\ e \in accepted => Somewhere(e) \/ e \in received \cup expired \cup lost
    /\ Somewhere(e) /\ e \in received => e \in unsure

\* Only the retrier takes from the list, and it sends no more often than it may.
RetrierOK ==
    /\ retry.at = "pop" => retry.left <= Len(list)
    /\ retry.at = "send" => retry.attempt < MaxRetryAttempts

AnalyticsInv ==
    /\ AnalyticsTypeOK
    /\ OnceOnly(list)
    /\ RetrierOK
    /\ \A e \in Events : Accounted(e)

LEMMA FlushFields ==
    ASSUME NEW s \in FlushStates
    PROVE  /\ s.events \in SUBSET Events
           /\ s.at \in {"idle", "send", "queue"}
           /\ s.at = "idle" => s.events = {}
BY DEF FlushStates

LEMMA RetryFields ==
    ASSUME NEW s \in RetryStates
    PROVE  /\ s.events \in SUBSET Events
           /\ s.at \in {"idle", "pop", "send", "queue"}
           /\ s.left \in Nat /\ s.attempt \in Nat
           /\ s.at = "idle" => s.events = {}
           /\ s.at # "idle" => s.left \in 0..MaxBatchSize /\ s.attempt \in 0..MaxRetryAttempts
BY AnalyticsAssumption DEF RetryStates

LEMMA RetryState ==
    ASSUME NEW at \in {"pop", "send", "queue"}, NEW events \in SUBSET Events,
           NEW left \in 0..MaxBatchSize, NEW attempt \in 0..MaxRetryAttempts, NEW s,
           s = [at |-> at, events |-> events, left |-> left, attempt |-> attempt]
    PROVE  /\ s \in RetryStates /\ s.at = at /\ s.events = events
           /\ s.left = left /\ s.attempt = attempt
BY DEF RetryStates

LEMMA FlushState ==
    ASSUME NEW at \in {"send", "queue"}, NEW events \in SUBSET Events, NEW s,
           s = [at |-> at, events |-> events]
    PROVE  s \in FlushStates /\ s.at = at /\ s.events = events
BY DEF FlushStates

LEMMA IdleStates ==
    /\ IdleFlush \in FlushStates /\ IdleFlush.at = "idle" /\ IdleFlush.events = {}
    /\ IdleRetry \in RetryStates /\ IdleRetry.at = "idle" /\ IdleRetry.events = {}
BY DEF FlushStates, RetryStates, IdleFlush, IdleRetry

\* RPUSH and LPOP.
LEMMA Appended ==
    ASSUME NEW s \in Seq(Events), NEW e \in Events, OnceOnly(s), ~Queued(s, e), NEW t,
           t = Append(s, e)
    PROVE  /\ t \in Seq(Events) /\ OnceOnly(t) /\ Len(t) = Len(s) + 1
           /\ \A x \in Events : Queued(t, x) <=> Queued(s, x) \/ x = e
<1>1. /\ t \in Seq(Events) /\ Len(t) = Len(s) + 1 /\ DOMAIN t = 1..(Len(s) + 1)
      /\ \A i \in 1..Len(s) : t[i] = s[i]
      /\ t[Len(s) + 1] = e
    BY AppendProperties
<1>2. DOMAIN s = 1..Len(s) /\ Len(s) \in Nat
    BY LenProperties
<1>3. OnceOnly(t)
    BY <1>1, <1>2 DEF OnceOnly, Queued
<1>4. ASSUME NEW x \in Events PROVE Queued(t, x) <=> Queued(s, x) \/ x = e
  <2>1. ASSUME Queued(t, x) PROVE Queued(s, x) \/ x = e
    BY <1>1, <1>2, <2>1 DEF Queued
  <2>2. ASSUME Queued(s, x) PROVE Queued(t, x)
    BY <1>1, <1>2, <2>2 DEF Queued
  <2>3. Queued(t, e)
    BY <1>1, <1>2 DEF Queued
  <2> QED BY <2>1, <2>2, <2>3
<1> QED BY <1>1, <1>3, <1>4

LEMMA Popped ==
    ASSUME NEW s \in Seq(Events), Len(s) > 0, OnceOnly(s), NEW t, t = Tail(s)
    PROVE  /\ t \in Seq(Events) /\ OnceOnly(t) /\ Len(t) = Len(s) - 1
           /\ Head(s) \in Events /\ Queued(s, Head(s))
           /\ \A x \in Events : Queued(t, x) <=> Queued(s, x) /\ x # Head(s)
<1>1. DOMAIN s = 1..Len(s) /\ Len(s) \in Nat /\ s # << >>
    BY LenProperties
<1>2. /\ t \in Seq(Events) /\ Len(t) = Len(s) - 1 /\ Head(s) \in Events /\ Head(s) = s[1]
      /\ \A i \in 1..Len(t) : t[i] = s[i + 1]
    BY <1>1, HeadTailProperties
<1>3. DOMAIN t = 1..Len(t)
    BY <1>2, LenProperties
<1>4. OnceOnly(t)
    BY <1>1, <1>2, <1>3 DEF OnceOnly
<1>5. Queued(s, Head(s))
    BY <1>1, <1>2 DEF Queued
<1>6. ASSUME NEW x \in Events PROVE Queued(t, x) <=> Queued(s, x) /\ x # Head(s)
  <2>1. ASSUME Queued(t, x) PROVE Queued(s, x) /\ x # Head(s)
    <3>1. PICK i \in 1..Len(t) : t[i] = x
        BY <1>3, <2>1 DEF Queued
    <3>2. i + 1 \in 1..Len(s) /\ i + 1 # 1 /\ s[i + 1] = x
        BY <1>1, <1>2, <3>1
    <3> QED BY <1>1, <1>2, <3>2 DEF Queued, OnceOnly
  <2>2. ASSUME Queued(s, x), x # Head(s) PROVE Queued(t, x)
    <3>1. PICK i \in 1..Len(s) : s[i] = x
        BY <1>1, <2>2 DEF Queued
    <3>2. i # 1
        BY <1>2, <2>2, <3>1
    <3>3. i - 1 \in 1..Len(t) /\ t[i - 1] = s[i]
        BY <1>1, <1>2, <3>1, <3>2
    <3> QED BY <1>3, <3>1, <3>3 DEF Queued
  <2> QED BY <2>1, <2>2
<1> QED BY <1>2, <1>4, <1>5, <1>6

\* A flusher takes another state.
LEMMA FlushStep ==
    ASSUME AnalyticsInv, NEW f \in Flushers, NEW s \in FlushStates, flush' = [flush EXCEPT ![f] = s]
    PROVE  /\ flush' \in [Flushers -> FlushStates] /\ flush'[f].events = s.events
           /\ \A g \in Flushers \ {f} : flush'[g].events = flush[g].events
BY DEF AnalyticsInv, AnalyticsTypeOK

\* The events stay where they are; some may have been received, or lost their place
\* to age.
LEMMA StaysPut ==
    ASSUME AnalyticsInv, UNCHANGED <<buffer, list, accepted>>, retry'.events = retry.events,
           \A f \in Flushers : flush'[f].events = flush[f].events,
           NEW events \in SUBSET Events,
           \/ UNCHANGED <<received, unsure>>
           \/ received' = received \cup events /\ unsure' = unsure \cup events,
           UNCHANGED <<expired, lost>>,
           NEW e \in Events
    PROVE  Accounted(e)'
BY DEF AnalyticsInv, Accounted, Apart, Somewhere

LEMMA InFlight ==
    ASSUME AnalyticsInv
    PROVE  /\ retry \in RetryStates /\ retry.events \in SUBSET Events
           /\ retry.events \subseteq accepted
           /\ \A f \in Flushers : /\ flush[f] \in FlushStates /\ flush[f].events \in SUBSET Events
                                  /\ flush[f].events \subseteq accepted
           /\ buffer \subseteq accepted /\ accepted \subseteq Events
<1>1. /\ retry \in RetryStates /\ retry.events \in SUBSET Events
      /\ \A f \in Flushers : flush[f] \in FlushStates /\ flush[f].events \in SUBSET Events
    BY RetryFields, FlushFields DEF AnalyticsInv, AnalyticsTypeOK
<1> QED BY <1>1 DEF AnalyticsInv, AnalyticsTypeOK, Accounted, Somewhere

LEMMA PublishEventKeeps ==
    ASSUME AnalyticsInv, NEW e \in Events, PublishEvent(e) PROVE AnalyticsInv'
<1>1. AnalyticsTypeOK'
    BY DEF AnalyticsInv, AnalyticsTypeOK, PublishEvent
<1>2. ASSUME NEW x \in Events PROVE Accounted(x)'
    BY <1>2 DEF AnalyticsInv, AnalyticsTypeOK, PublishEvent, Accounted, Apart, Somewhere
<1> QED BY <1>1, <1>2 DEF AnalyticsInv, RetrierOK, PublishEvent

\* Steps of the clock and of main that move no event.
LEMMA QuietKeeps ==
    ASSUME AnalyticsInv, \/ \E e \in Events : Ages(e)
                         \/ Shutdown \/ NothingToFlush
                         \/ UNCHANGED analytics
    PROVE  AnalyticsInv'
<1>1. UNCHANGED <<buffer, list, flush, retry, accepted, received, unsure, expired, lost>>
    BY DEF Ages, Shutdown, NothingToFlush, analytics
<1>2. AnalyticsTypeOK'
    BY DEF AnalyticsInv, AnalyticsTypeOK, Ages, Shutdown, NothingToFlush, analytics
<1> QED BY <1>1, <1>2 DEF AnalyticsInv, RetrierOK, Accounted, Apart, Somewhere

LEMMA TakeBufferKeeps ==
    ASSUME AnalyticsInv, NEW f \in Flushers, TakeBuffer(f) PROVE AnalyticsInv'
<1>1. PICK s : s = [at |-> "send", events |-> buffer]
    OBVIOUS
<1>2. s \in FlushStates /\ s.events = buffer
    BY <1>1, FlushState DEF AnalyticsInv, AnalyticsTypeOK
<1>3. flush' = [flush EXCEPT ![f] = s] /\ buffer' = {} /\ flush[f].events = {}
    BY <1>1, InFlight, FlushFields DEF TakeBuffer
<1>4. /\ flush' \in [Flushers -> FlushStates] /\ flush'[f].events = buffer
      /\ \A g \in Flushers \ {f} : flush'[g].events = flush[g].events
    BY <1>2, <1>3, FlushStep
<1>5. AnalyticsTypeOK'
    BY <1>4 DEF AnalyticsInv, AnalyticsTypeOK, TakeBuffer
<1>6. ASSUME NEW x \in Events PROVE Accounted(x)'
    BY <1>3, <1>4 DEF AnalyticsInv, TakeBuffer, Accounted, Apart, Somewhere
<1> QED BY <1>5, <1>6 DEF AnalyticsInv, RetrierOK, TakeBuffer

\* A flusher is done with its events, which are received or lost.
LEMMA FlushedKeeps ==
    ASSUME AnalyticsInv, NEW f \in Flushers, BatchSent(f) \/ QueueFails(f) PROVE AnalyticsInv'
<1>1. flush' = [flush EXCEPT ![f] = IdleFlush] /\ process' \in {"up", "closing", "flushed"}
    BY DEF BatchSent, QueueFails, Flushed, AnalyticsInv, AnalyticsTypeOK
<1>2. /\ flush' \in [Flushers -> FlushStates] /\ flush'[f].events = {}
      /\ \A g \in Flushers \ {f} : flush'[g].events = flush[g].events
    BY <1>1, FlushStep, IdleStates
<1>3. /\ UNCHANGED <<buffer, list, retry, crashes, old, accepted, unsure, expired>>
      /\ \/ received' = received \cup flush[f].events /\ lost' = lost
         \/ lost' = lost \cup flush[f].events /\ received' = received
    BY DEF BatchSent, QueueFails, Receive
<1>4. AnalyticsTypeOK'
    BY <1>1, <1>2, <1>3, InFlight DEF AnalyticsInv, AnalyticsTypeOK
<1>5. ASSUME NEW x \in Events PROVE Accounted(x)'
    BY <1>2, <1>3 DEF AnalyticsInv, Accounted, Apart, Somewhere
<1> QED BY <1>3, <1>4, <1>5 DEF AnalyticsInv, RetrierOK

LEMMA BatchFailsKeeps ==
    ASSUME AnalyticsInv, NEW f \in Flushers, BatchFails(f) PROVE AnalyticsInv'
<1>1. PICK s : s = [flush[f] EXCEPT !.at = "queue"]
    OBVIOUS
<1>2. s \in FlushStates /\ s.events = flush[f].events
    BY <1>1, InFlight DEF BatchFails, FlushStates
<1>3. flush' = [flush EXCEPT ![f] = s]
    BY <1>1 DEF BatchFails, AnalyticsInv, AnalyticsTypeOK
<1>4. /\ flush' \in [Flushers -> FlushStates]
      /\ \A g \in Flushers : flush'[g].events = flush[g].events
    BY <1>2, <1>3, FlushStep
<1>5. PICK events \in SUBSET Events : events = flush[f].events /\ events \subseteq accepted
    BY InFlight
<1>6. /\ UNCHANGED <<buffer, list, retry, process, crashes, old, accepted, expired, lost>>
      /\ \/ UNCHANGED <<received, unsure>>
         \/ received' = received \cup events /\ unsure' = unsure \cup events
    BY <1>5 DEF BatchFails, SendFails, Receive
<1>7. AnalyticsTypeOK'
    BY <1>4, <1>5, <1>6 DEF AnalyticsInv, AnalyticsTypeOK
<1>8. ASSUME NEW x \in Events PROVE Accounted(x)'
    BY <1>4, <1>6, StaysPut
<1> QED BY <1>6, <1>7, <1>8 DEF AnalyticsInv, RetrierOK

LEMMA QueueEventKeeps ==
    ASSUME AnalyticsInv, NEW f \in Flushers, NEW e \in Events, QueueEvent(f, e)
    PROVE  AnalyticsInv'
<1>1. e \in flush[f].events /\ ~Queued(list, e) /\ list' = Append(list, e)
      /\ UNCHANGED <<buffer, retry, crashes, old, accepted, received, unsure, expired, lost>>
    BY DEF QueueEvent, AnalyticsInv, Accounted, Apart
<1>2. /\ list' \in Seq(Events) /\ OnceOnly(list') /\ Len(list') = Len(list) + 1
      /\ \A x \in Events : Queued(list', x) <=> Queued(list, x) \/ x = e
    BY <1>1, Appended DEF AnalyticsInv, AnalyticsTypeOK
<1>3. PICK s : s = IF flush[f].events = {e} THEN IdleFlush ELSE [flush[f] EXCEPT !.events = @ \ {e}]
    OBVIOUS
<1>4. s \in FlushStates /\ s.events = flush[f].events \ {e}
  <2>1. CASE flush[f].events = {e}
    BY <1>3, <2>1, IdleStates
  <2>2. CASE flush[f].events # {e}
    BY <1>3, <2>2, InFlight DEF FlushStates, QueueEvent
  <2> QED BY <2>1, <2>2
<1>5. flush' = [flush EXCEPT ![f] = s] /\ process' \in {"up", "closing", "flushed"}
  <2>1. CASE flush[f].events = {e}
    BY <1>3, <2>1 DEF QueueEvent, Flushed, AnalyticsInv, AnalyticsTypeOK
  <2>2. CASE flush[f].events # {e}
    BY <1>3, <2>2 DEF QueueEvent, AnalyticsInv, AnalyticsTypeOK
  <2> QED BY <2>1, <2>2
<1>6. /\ flush' \in [Flushers -> FlushStates] /\ flush'[f].events = flush[f].events \ {e}
      /\ \A g \in Flushers \ {f} : flush'[g].events = flush[g].events
    BY <1>4, <1>5, FlushStep
<1>7. AnalyticsTypeOK'
    BY <1>1, <1>2, <1>5, <1>6 DEF AnalyticsInv, AnalyticsTypeOK
<1>8. RetrierOK'
    BY <1>1, <1>2, InFlight, RetryFields, LenProperties
    DEF RetrierOK, AnalyticsInv, AnalyticsTypeOK
<1>9. ASSUME NEW x \in Events PROVE Accounted(x)'
  <2>1. CASE x = e
    BY <1>1, <1>2, <1>6, <2>1 DEF AnalyticsInv, Accounted, Apart, Somewhere
  <2>2. CASE x # e
    <3>1. Queued(list, x)' <=> Queued(list, x)
        BY <1>2, <2>2
    <3>2. \A g \in Flushers : x \in flush'[g].events <=> x \in flush[g].events
        BY <1>6, <2>2
    <3> QED BY <1>1, <3>1, <3>2 DEF AnalyticsInv, Accounted, Apart, Somewhere
  <2> QED BY <2>1, <2>2
<1> QED BY <1>2, <1>7, <1>8, <1>9 DEF AnalyticsInv

-----------------------------------------------------------------------------
LEMMA ReadLengthKeeps ==
    ASSUME AnalyticsInv, ReadLength PROVE AnalyticsInv'
<1>1. Len(list) \in Nat /\ list \in Seq(Events)
    BY LenProperties DEF AnalyticsInv, AnalyticsTypeOK
<1>2. PICK left : left = IF Len(list) < MaxBatchSize THEN Len(list) ELSE MaxBatchSize
    OBVIOUS
<1>3. left \in 0..MaxBatchSize /\ left <= Len(list)
    BY <1>1, <1>2, AnalyticsAssumption
<1>4. retry' = [at |-> "pop", events |-> {}, left |-> left, attempt |-> 0]
    BY <1>2 DEF ReadLength
<1>5. /\ retry' \in RetryStates /\ retry'.at = "pop" /\ retry'.events = {} /\ retry'.left = left
  <2>1. 0 \in 0..MaxRetryAttempts
    BY AnalyticsAssumption
  <2>2. PICK s : s = [at |-> "pop", events |-> {}, left |-> left, attempt |-> 0]
    OBVIOUS
  <2>3. s \in RetryStates /\ s.at = "pop" /\ s.events = {} /\ s.left = left
    BY <1>3, <2>1, <2>2 DEF RetryStates
  <2> QED BY <1>4, <2>2, <2>3
<1>6. retry.events = {}
    BY InFlight, RetryFields DEF ReadLength
<1>7. UNCHANGED <<buffer, list, flush, process, crashes, old, accepted, received, unsure,
                  expired, lost>>
    BY DEF ReadLength
<1>8. AnalyticsTypeOK'
    BY <1>5, <1>7 DEF AnalyticsInv, AnalyticsTypeOK
<1>9. ASSUME NEW x \in Events PROVE Accounted(x)'
    BY <1>5, <1>6, <1>7, StaysPut
<1> QED BY <1>3, <1>5, <1>7, <1>8, <1>9 DEF AnalyticsInv, RetrierOK

\* The retrier is done with its events, which are received or lost.
LEMMA RetryEndsKeeps ==
    ASSUME AnalyticsInv, PopFails \/ RetrySent \/ RequeueFails PROVE AnalyticsInv'
<1>1. /\ UNCHANGED <<buffer, list, flush, process, crashes, old, accepted, unsure, expired>>
      /\ retry' = IdleRetry
      /\ \/ received' = received \cup retry.events /\ lost' = lost
         \/ lost' = lost \cup retry.events /\ received' = received
    BY DEF PopFails, RetrySent, RequeueFails, Receive
<1>2. AnalyticsTypeOK'
    BY <1>1, IdleStates, InFlight DEF AnalyticsInv, AnalyticsTypeOK
<1>3. ASSUME NEW x \in Events PROVE Accounted(x)'
    BY <1>1, IdleStates DEF AnalyticsInv, Accounted, Apart, Somewhere
<1> QED BY <1>1, <1>2, <1>3, IdleStates DEF AnalyticsInv, RetrierOK

LEMMA RetryFailsKeeps ==
    ASSUME AnalyticsInv, RetryFails PROVE AnalyticsInv'
<1>1. retry.at = "send" /\ retry.attempt < MaxRetryAttempts /\ retry \in RetryStates
      /\ retry.attempt \in Nat /\ retry.left \in 0..MaxBatchSize /\ retry.events \in SUBSET Events
    BY InFlight, RetryFields DEF RetryFails, AnalyticsInv, RetrierOK
<1>2. PICK at \in {"queue", "send"} :
          at = IF retry.attempt + 1 >= MaxRetryAttempts THEN "queue" ELSE "send"
    OBVIOUS
<1>3. retry' = [[retry EXCEPT !.attempt = retry.attempt + 1] EXCEPT !.at = at]
    BY <1>2 DEF RetryFails
<1>4. /\ retry' \in RetryStates /\ retry'.at = at /\ retry'.events = retry.events
      /\ retry'.attempt = retry.attempt + 1
  <2>1. PICK q : q = [retry EXCEPT !.attempt = retry.attempt + 1]
    OBVIOUS
  <2>2. retry.attempt + 1 \in 0..MaxRetryAttempts
    BY <1>1, AnalyticsAssumption
  <2>3. /\ q \in RetryStates /\ q.at = "send" /\ q.events = retry.events
        /\ q.attempt = retry.attempt + 1
    BY <1>1, <2>1, <2>2 DEF RetryStates
  <2> QED BY <1>3, <2>1, <2>3 DEF RetryStates
<1>5. PICK events \in SUBSET Events : events = retry.events /\ events \subseteq accepted
    BY InFlight
<1>6. /\ UNCHANGED <<buffer, list, flush, process, crashes, old, accepted, expired, lost>>
      /\ \/ UNCHANGED <<received, unsure>>
         \/ received' = received \cup events /\ unsure' = unsure \cup events
    BY <1>5 DEF RetryFails, SendFails, Receive
<1>7. AnalyticsTypeOK'
    BY <1>4, <1>5, <1>6 DEF AnalyticsInv, AnalyticsTypeOK
<1>8. ASSUME NEW x \in Events PROVE Accounted(x)'
    BY <1>4, <1>6, StaysPut
<1>9. RetrierOK'
    BY <1>1, <1>2, <1>4, AnalyticsAssumption DEF RetrierOK
<1> QED BY <1>6, <1>7, <1>8, <1>9 DEF AnalyticsInv

LEMMA RequeueEventKeeps ==
    ASSUME AnalyticsInv, NEW e \in Events, RequeueEvent(e) PROVE AnalyticsInv'
<1>1. /\ retry.at = "queue" /\ e \in retry.events /\ ~Queued(list, e) /\ list' = Append(list, e)
      /\ UNCHANGED <<buffer, flush, process, crashes, old, accepted, received, unsure, expired, lost>>
    BY DEF RequeueEvent, AnalyticsInv, Accounted, Apart
<1>2. /\ list' \in Seq(Events) /\ OnceOnly(list') /\ Len(list') = Len(list) + 1
      /\ \A x \in Events : Queued(list', x) <=> Queued(list, x) \/ x = e
    BY <1>1, Appended DEF AnalyticsInv, AnalyticsTypeOK
<1>3. retry' \in RetryStates /\ retry'.events = retry.events \ {e}
      /\ retry'.at \in {"idle", "queue"}
  <2>1. CASE retry.events = {e}
    BY <2>1, IdleStates DEF RequeueEvent
  <2>2. CASE retry.events # {e}
    BY <1>1, <2>2, InFlight DEF RetryStates, RequeueEvent
  <2> QED BY <2>1, <2>2
<1>4. AnalyticsTypeOK'
    BY <1>1, <1>2, <1>3 DEF AnalyticsInv, AnalyticsTypeOK
<1>5. ASSUME NEW x \in Events PROVE Accounted(x)'
  <2>1. CASE x = e
    BY <1>1, <1>2, <1>3, <2>1 DEF AnalyticsInv, Accounted, Apart, Somewhere
  <2>2. CASE x # e
    <3>1. Queued(list, x)' <=> Queued(list, x)
        BY <1>2, <2>2
    <3>2. x \in retry'.events <=> x \in retry.events
        BY <1>3, <2>2
    <3> QED BY <1>1, <3>1, <3>2 DEF AnalyticsInv, Accounted, Apart, Somewhere
  <2> QED BY <2>1, <2>2
<1> QED BY <1>2, <1>3, <1>4, <1>5 DEF AnalyticsInv, RetrierOK

\* The event at the head goes to the retrier, or is discarded.
LEMMA PopEventKeeps ==
    ASSUME AnalyticsInv, PopEvent PROVE AnalyticsInv'
<1>1. /\ retry.at = "pop" /\ retry.left > 0 /\ retry.left <= Len(list) /\ retry \in RetryStates
      /\ retry.left \in 0..MaxBatchSize /\ retry.events \in SUBSET Events
      /\ list \in Seq(Events) /\ Len(list) \in Nat
      /\ UNCHANGED <<buffer, flush, process, crashes, old, accepted, received, unsure, lost>>
      /\ list' = Tail(list)
    BY InFlight, RetryFields, LenProperties
    DEF PopEvent, AnalyticsInv, RetrierOK, AnalyticsTypeOK
<1>2. PICK e \in Events : e = Head(list)
  <2>1. Len(list) > 0 /\ OnceOnly(list)
    BY <1>1, AnalyticsAssumption DEF AnalyticsInv
  <2>2. Head(list) \in Events
    BY <1>1, <2>1, Popped
  <2> QED BY <2>2
<1>3. /\ list' \in Seq(Events) /\ OnceOnly(list') /\ Len(list') = Len(list) - 1 /\ Queued(list, e)
      /\ \A x \in Events : Queued(list', x) <=> Queued(list, x) /\ x # e
  <2>1. Len(list) > 0 /\ OnceOnly(list)
    BY <1>1, AnalyticsAssumption DEF AnalyticsInv
  <2> QED BY <1>1, <1>2, <2>1, Popped
<1>4. e \notin retry.events /\ e \notin buffer /\ e \in accepted
      /\ \A f \in Flushers : e \notin flush[f].events
    BY <1>3 DEF AnalyticsInv, Accounted, Apart, Somewhere
<1>5. PICK events \in SUBSET Events :
          events = IF e \in old THEN retry.events ELSE retry.events \cup {e}
    BY <1>1
<1>6. expired' = (IF e \in old THEN expired \cup {e} ELSE expired)
      /\ retry' = IF retry.left > 1 THEN [[retry EXCEPT !.events = events] EXCEPT !.left = @ - 1]
                  ELSE IF events = {} THEN IdleRetry
                  ELSE [at |-> "send", events |-> events, left |-> 0, attempt |-> 0]
    BY <1>2, <1>5 DEF PopEvent
<1>7. /\ retry' \in RetryStates /\ retry'.events = events
      /\ retry'.at = "pop" => retry'.left <= Len(list')
      /\ retry'.at = "send" => retry'.attempt < MaxRetryAttempts
  <2>1. CASE retry.left > 1
    <3>1. PICK q : q = [retry EXCEPT !.events = events]
        OBVIOUS
    <3>2. q \in RetryStates /\ q.at = "pop" /\ q.events = events /\ q.left = retry.left
        BY <1>1, <3>1 DEF RetryStates
    <3>3. PICK left \in 0..MaxBatchSize : left = retry.left - 1
        BY <1>1, AnalyticsAssumption
    <3>4. retry' = [q EXCEPT !.left = left]
        BY <1>6, <2>1, <3>1, <3>2, <3>3
    <3>5. retry' \in RetryStates /\ retry'.at = "pop" /\ retry'.events = events /\ retry'.left = left
        BY <3>2, <3>4 DEF RetryStates
    <3>6. left <= Len(list')
        BY <1>1, <1>3, <3>3, AnalyticsAssumption
    <3> QED BY <3>5, <3>6
  <2>2. CASE ~(retry.left > 1) /\ events = {}
    BY <1>6, <2>2, IdleStates
  <2>3. CASE ~(retry.left > 1) /\ events # {}
    <3>1. retry' = [at |-> "send", events |-> events, left |-> 0, attempt |-> 0]
        BY <1>6, <2>3
    <3> QED BY <3>1, RetryState, AnalyticsAssumption
  <2> QED BY <2>1, <2>2, <2>3
<1>8. AnalyticsTypeOK'
    BY <1>1, <1>3, <1>6, <1>7 DEF AnalyticsInv, AnalyticsTypeOK
<1>9. ASSUME NEW x \in Events PROVE Accounted(x)'
  <2>1. CASE x = e
    BY <1>1, <1>3, <1>4, <1>5, <1>6, <1>7, <2>1 DEF AnalyticsInv, Accounted, Apart, Somewhere
  <2>2. CASE x # e
    <3>1. Queued(list, x)' <=> Queued(list, x)
        BY <1>3, <2>2
    <3>2. (x \in retry'.events <=> x \in retry.events) /\ (x \in expired' <=> x \in expired)
        BY <1>5, <1>6, <1>7, <2>2
    <3> QED BY <1>1, <3>1, <3>2 DEF AnalyticsInv, Accounted, Apart, Somewhere
  <2> QED BY <2>1, <2>2
<1> QED BY <1>3, <1>7, <1>8, <1>9 DEF AnalyticsInv, RetrierOK

-----------------------------------------------------------------------------
\* The process ends: what is in memory is lost.
LEMMA RestartKeeps ==
    ASSUME AnalyticsInv, Exit \/ Crash PROVE AnalyticsInv'
<1>1. Restart /\ crashes' \in 0..MaxCrashes
    BY AnalyticsAssumption DEF Exit, Crash, AnalyticsInv, AnalyticsTypeOK
<1>2. /\ flush' \in [Flushers -> FlushStates] /\ \A f \in Flushers : flush'[f].events = {}
      /\ retry' \in RetryStates /\ retry'.events = {} /\ retry'.at = "idle" /\ buffer' = {}
    BY <1>1, IdleStates DEF Restart
<1>3. InMemory \subseteq accepted
    BY InFlight DEF InMemory
<1>4. AnalyticsTypeOK'
    BY <1>1, <1>2, <1>3 DEF AnalyticsInv, AnalyticsTypeOK, Restart
<1>5. ASSUME NEW x \in Events PROVE Accounted(x)'
  <2>1. Somewhere(x) => Queued(list, x) \/ x \in InMemory
    BY DEF Somewhere, InMemory
  <2> QED BY <1>1, <1>2, <2>1 DEF AnalyticsInv, Accounted, Apart, Somewhere, Restart
<1> QED BY <1>1, <1>2, <1>4, <1>5 DEF AnalyticsInv, RetrierOK, Restart

LEMMA AnalyticsInitHolds == AnalyticsInit => AnalyticsInv
<1> SUFFICES ASSUME AnalyticsInit PROVE AnalyticsInv
    OBVIOUS
<1>1. list = << >> /\ list \in Seq(Events) /\ \A x \in Events : ~Queued(list, x)
    BY DEF AnalyticsInit, Queued
<1>2. /\ flush \in [Flushers -> FlushStates] /\ \A f \in Flushers : flush[f].events = {}
      /\ retry \in RetryStates /\ retry.events = {} /\ retry.at = "idle" /\ buffer = {}
    BY IdleStates DEF AnalyticsInit
<1>3. AnalyticsTypeOK
    BY <1>1, <1>2, AnalyticsAssumption DEF AnalyticsInit, AnalyticsTypeOK
<1>4. \A x \in Events : Accounted(x)
    BY <1>1, <1>2 DEF AnalyticsInit, Accounted, Apart, Somewhere
<1> QED BY <1>1, <1>2, <1>3, <1>4 DEF AnalyticsInv, OnceOnly, RetrierOK

LEMMA AnalyticsStep == AnalyticsInv /\ [AnalyticsNext]_analytics => AnalyticsInv'
BY PublishEventKeeps, QuietKeeps, TakeBufferKeeps, FlushedKeeps, BatchFailsKeeps,
   QueueEventKeeps, ReadLengthKeeps, RetryEndsKeeps, RetryFailsKeeps, RequeueEventKeeps,
   PopEventKeeps, RestartKeeps
DEF AnalyticsNext

\* An event in one place is counted once, one in none not at all.
LEMMA PlacesCount ==
    ASSUME AnalyticsInv, NEW e \in Events
    PROVE  Places(e) = IF Somewhere(e) THEN 1 ELSE 0
<1>1. Apart(e) /\ OnceOnly(list)
    BY DEF AnalyticsInv, Accounted
<1>2. Cardinality(InList(e)) = IF Queued(list, e) THEN 1 ELSE 0
  <2>1. CASE Queued(list, e)
    <3>1. PICK k \in DOMAIN list : list[k] = e
        BY <2>1 DEF Queued
    <3>2. InList(e) = {k}
        BY <1>1, <3>1 DEF InList, OnceOnly
    <3> QED BY <2>1, <3>2, FS_Singleton
  <2>2. CASE ~Queued(list, e)
    <3>1. InList(e) = {}
        BY <2>2 DEF InList, Queued
    <3> QED BY <2>2, <3>1, FS_EmptySet
  <2> QED BY <2>1, <2>2
<1>3. Cardinality({f \in Flushers : e \in flush[f].events})
          = IF \E f \in Flushers : e \in flush[f].events THEN 1 ELSE 0
  <2>1. ASSUME NEW f \in Flushers, e \in flush[f].events
        PROVE  Cardinality({g \in Flushers : e \in flush[g].events}) = 1
    <3>1. {g \in Flushers : e \in flush[g].events} = {f}
        BY <1>1, <2>1 DEF Apart
    <3> QED BY <3>1, FS_Singleton
  <2>2. CASE ~\E f \in Flushers : e \in flush[f].events
    <3>1. {g \in Flushers : e \in flush[g].events} = {}
        BY <2>2
    <3> QED BY <2>2, <3>1, FS_EmptySet
  <2> QED BY <2>1, <2>2
<1> QED BY <1>1, <1>2, <1>3 DEF Places, Apart, Somewhere

THEOREM AnalyticsTypes == AnalyticsSpec => []AnalyticsTypeOK
<1>1. AnalyticsInv => AnalyticsTypeOK
    BY DEF AnalyticsInv
<1> QED BY <1>1, AnalyticsInitHolds, AnalyticsStep, PTL DEF AnalyticsSpec

\* However batches fail, are retried, put back or end with the process, no event is in
\* two places or nowhere without a reason, and only a lost answer makes the analytics
\* service see one twice (flush_batch and retry_queued_events of publisher.rs).
THEOREM EventsStayAccounted == AnalyticsSpec => []EventsAccounted
<1>1. ASSUME AnalyticsInv PROVE EventsAccounted
  <2>1. accepted \subseteq Events
    BY <1>1 DEF AnalyticsInv, AnalyticsTypeOK
  <2> QED BY <1>1, <2>1, PlacesCount DEF EventsAccounted, AnalyticsInv, Accounted
<1> QED BY <1>1, AnalyticsInitHolds, AnalyticsStep, PTL DEF AnalyticsSpec

-----------------------------------------------------------------------------
(* The circuit breaker *)

BreakerInv == BreakerTypeOK /\ TripsAreCarriedOut

LEMMA BumpBounded ==
    ASSUME NEW threshold \in Nat, NEW count \in 0..threshold
    PROVE  Bump(count, threshold) \in 0..threshold
BY DEF Bump

LEMMA BreakerInitTypes == BreakerInit => BreakerTypeOK
<1>1. 0 \in 0..FailureThreshold /\ 0 \in 0..SuccessThreshold
    BY ContentBreakerAssumption
<1> QED BY <1>1 DEF BreakerInit, BreakerTypeOK

LEMMA BreakerTypesStep == BreakerTypeOK /\ [BreakerNext]_breakerVars => BreakerTypeOK'
<1> SUFFICES ASSUME BreakerTypeOK, [BreakerNext]_breakerVars PROVE BreakerTypeOK'
    OBVIOUS
<1> USE DEF BreakerTypeOK, Counters, Locks, Goto
<1>0. 0 \in 0..FailureThreshold /\ 0 \in 0..SuccessThreshold
    BY ContentBreakerAssumption
<1>1. ASSUME NEW t \in Tasks, StartCall(t) \/ StartReset(t) \/ OperationReturns(t)
      PROVE  BreakerTypeOK'
    BY <1>1 DEF StartCall, StartReset, OperationReturns
<1>2. ASSUME NEW t \in Tasks, GetState(t) \/ CheckTimeout(t) PROVE BreakerTypeOK'
    BY <1>2 DEF GetState, CheckTimeout
<1>3. ASSUME NEW t \in Tasks, Record(t) PROVE BreakerTypeOK'
  <2>1. failures' \in 0..FailureThreshold /\ successes' \in 0..SuccessThreshold
    BY <1>0, <1>3, BumpBounded, ContentBreakerAssumption DEF Record
  <2> QED BY <1>3, <2>1 DEF Record
<1>4. ASSUME NEW t \in Tasks, Decide(t) PROVE BreakerTypeOK'
    BY <1>4 DEF Decide
<1>5. ASSUME NEW t \in Tasks, ChangeState(t) PROVE BreakerTypeOK'
    BY <1>5 DEF ChangeState
<1>6. ASSUME NEW t \in Tasks, StampChange(t) PROVE BreakerTypeOK'
    BY <1>0, <1>6 DEF StampChange
<1>7. CASE TimeoutElapses
    BY <1>7 DEF TimeoutElapses
<1>8. CASE UNCHANGED breakerVars
    BY <1>8 DEF breakerVars
<1>9. ASSUME NEW t \in Tasks, DropCall(t) PROVE BreakerTypeOK'
  <2>1. abandoned' \in BOOLEAN
    BY <1>9, Zenon DEF DropCall
  <2> QED BY <1>9, <2>1 DEF DropCall, Released
<1> QED BY <1>1, <1>2, <1>3, <1>4, <1>5, <1>6, <1>7, <1>8, <1>9
        DEF BreakerNext, CallsNext, CallStep

\* Whoever is on its way to a transition stays on it, whatever the others do, until
\* the circuit is open, the count of failures is 0, or the call is dropped.
OnItsWay == {"failure_state", "to_open", "half_open_stats", "closed_stats"}

LEMMA TripsStep ==
    BreakerTypeOK /\ TripsAreCarriedOut /\ [BreakerNext]_breakerVars => TripsAreCarriedOut'
<1> SUFFICES ASSUME BreakerTypeOK, TripsAreCarriedOut, [BreakerNext]_breakerVars, Tripped'
             PROVE  abandoned' \/ \E t \in Tasks : pc'[t] \in OnItsWay
    BY DEF TripsAreCarriedOut, OnItsWay, Carrying
<1> USE DEF BreakerTypeOK, Counters, Locks, Goto, Tripped, OnItsWay
\* A step of a task that is not on its way, with circuit and failures as they were.
<1>1. ASSUME UNCHANGED <<circuit, failures, abandoned>>, NEW t \in Tasks, pc[t] \notin OnItsWay,
             NEW place, pc' = [pc EXCEPT ![t] = place]
      PROVE  abandoned' \/ \E k \in Tasks : pc'[k] \in OnItsWay
    BY <1>1 DEF TripsAreCarriedOut, Carrying
<1>2. ASSUME NEW t \in Tasks, StartCall(t) \/ StartReset(t) PROVE abandoned' \/ \E k \in Tasks : pc'[k] \in OnItsWay
    BY <1>1, <1>2 DEF StartCall, StartReset
<1>3. ASSUME NEW t \in Tasks, GetState(t) \/ CheckTimeout(t) \/ OperationReturns(t)
      PROVE  abandoned' \/ \E k \in Tasks : pc'[k] \in OnItsWay
    BY <1>1, <1>3 DEF GetState, CheckTimeout, OperationReturns
<1>4. ASSUME NEW t \in Tasks, Record(t) PROVE abandoned' \/ \E k \in Tasks : pc'[k] \in OnItsWay
    BY <1>4 DEF Record
<1>5. ASSUME NEW t \in Tasks, Decide(t) PROVE abandoned' \/ \E k \in Tasks : pc'[k] \in OnItsWay
  <2>1. CASE pc[t] = "success_state"
    BY <1>1, <1>5, <2>1 DEF Decide
  <2>2. CASE pc[t] = "failure_state"
    BY <1>5, <2>2 DEF Decide
  <2> QED BY <1>5, <2>1, <2>2 DEF Decide
<1>6. ASSUME NEW t \in Tasks, ChangeState(t) PROVE abandoned' \/ \E k \in Tasks : pc'[k] \in OnItsWay
    BY <1>6 DEF ChangeState
<1>7. ASSUME NEW t \in Tasks, StampChange(t) PROVE abandoned' \/ \E k \in Tasks : pc'[k] \in OnItsWay
  <2>1. CASE pc[t] = "open_stats"
    BY <1>1, <1>7, <2>1 DEF StampChange
  <2>2. CASE pc[t] # "open_stats"
    BY <1>7, <2>2 DEF StampChange
  <2> QED BY <2>1, <2>2
<1>8. CASE TimeoutElapses \/ UNCHANGED breakerVars
    BY <1>8 DEF TimeoutElapses, breakerVars, TripsAreCarriedOut, Carrying
<1>9. ASSUME NEW t \in Tasks, DropCall(t)
      PROVE  abandoned' \/ \E k \in Tasks : pc'[k] \in OnItsWay
  <2>1. CASE pc[t] \in OnItsWay
    BY <1>9, <2>1 DEF DropCall, Carrying
  <2>2. CASE pc[t] \notin OnItsWay
    <3>1. circuit' = circuit /\ failures' = failures /\ pc' = [pc EXCEPT ![t] = "idle"]
      BY <1>9 DEF DropCall
    <3>2. abandoned' = abandoned
      BY <1>9, <2>2 DEF DropCall, Carrying
    <3> QED BY <1>1, <2>2, <3>1, <3>2
  <2> QED BY <2>1, <2>2
<1> QED BY <1>2, <1>3, <1>4, <1>5, <1>6, <1>7, <1>8, <1>9 DEF BreakerNext, CallsNext, CallStep

THEOREM BreakerTypes == BreakerSpec => []BreakerTypeOK
BY BreakerInitTypes, BreakerTypesStep, PTL DEF BreakerSpec

\* No trip is forgotten but with its carrier: a closed circuit whose count reached
\* the threshold, or a half-open one whose trial failed, has a call on its way to
\* open it or a transition on its way to clear the count, or a call was dropped on
\* that way and no result was recorded and no transition made since (on_failure
\* against on_success, reset and the transitions of circuit_breaker.rs).
THEOREM NoTripIsForgotten == BreakerSpec => []TripsAreCarriedOut
<1>1. BreakerInit => TripsAreCarriedOut
    BY DEF BreakerInit, TripsAreCarriedOut, Tripped
<1> QED BY <1>1, BreakerInitTypes, BreakerTypesStep, TripsStep, PTL DEF BreakerSpec
=============================================================================

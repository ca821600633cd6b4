------------------------------ MODULE Content ------------------------------
(***************************************************************************)
(* The course outline of the content-management-service: modules, the      *)
(* lessons in them and the resources in those (src/content/manager.rs over *)
(* ModuleRepository, LessonRepository and ResourceRepository).             *)
(*                                                                         *)
(* Each statement commits by itself.  Creating and deleting are a check    *)
(* and a statement that the foreign key, ON DELETE RESTRICT, guards again: *)
(* whatever happens between the two, the statement does what the check     *)
(* asked for or fails, so each is one action.  Reordering is a check and   *)
(* then an UPDATE per item; an action is one UPDATE.                       *)
(***************************************************************************)
EXTENDS Naturals, Sequences, FiniteSets

CONSTANTS
    Courses,      \* course ids, kept by another service
    Modules,      \* module ids; an id is never used again
    Lessons,      \* lesson ids
    Resources,    \* resource ids
    Writers,      \* the reorder requests in flight
    MaxPosition,  \* bound: highest display_order a client creates with
    MaxItems,     \* bound: items of one reorder request
    Absent,       \* an item not yet created
    Deleted       \* an item whose row was deleted

Items == Modules \cup Lessons \cup Resources
Parents == Courses \cup Modules \cup Lessons

VARIABLES
    row,     \* the row of each item: what it is in, and its display_order
    moves    \* the updates each reorder request still has to make

outline == <<row, moves>>

ItemRows == [in : Parents, at : Nat]
Moves == [item : Items, to : Nat]

\* An id tells what it is the id of, and no row is a mark.
ASSUME OutlineAssumption ==
    /\ IsFiniteSet(Items)
    /\ Courses \cap Items = {}
    /\ Modules \cap Lessons = {}
    /\ (Modules \cup Lessons) \cap Resources = {}
    /\ Absent # Deleted /\ Absent \notin ItemRows /\ Deleted \notin ItemRows

IsItem(i) == row[i] \notin {Absent, Deleted}
Exists(p) == p \in Courses \/ (p \in Items /\ IsItem(p))
Children(p) == {i \in Items : IsItem(i) /\ row[i].in = p}
Siblings(i) == Children(row[i].in) \ {i}
Home(i) == IF i \in Modules THEN Courses ELSE IF i \in Lessons THEN Modules ELSE Lessons

\* Every row is in a row (or a course) of the level above, at a place of its own.
OutlineTypeOK ==
    /\ row \in [Items -> ItemRows \cup {Absent, Deleted}]
    /\ moves \in [Writers -> Seq(Moves)]
    /\ \A i \in Items : IsItem(i) =>
          /\ row[i].in \in Home(i)
          /\ Exists(row[i].in)
          /\ \A j \in Siblings(i) : row[j].at # row[i].at

OutlineInit ==
    /\ row = [i \in Items |-> Absent]
    /\ moves = [w \in Writers |-> << >>]

-----------------------------------------------------------------------------
(* Creating: UNIQUE(parent, display_order), and the parent must exist. *)

Insert(i, p, at) ==
    /\ row[i] = Absent
    /\ Exists(p)
    /\ \A j \in Children(p) : row[j].at # at
    /\ row' = [row EXCEPT ![i] = [in |-> p, at |-> at]]
    /\ UNCHANGED moves

CreateModule(m, c, at) == Insert(m, c, at)
CreateLesson(l, m, at) == Insert(l, m, at)
AddResource(r, l, at) == Insert(r, l, at)

(* Deleting: refused while there is a child. *)

Delete(i) ==
    /\ IsItem(i)
    /\ Children(i) = {}
    /\ row' = [row EXCEPT ![i] = Deleted]
    /\ UNCHANGED moves

DeleteModule(m) == Delete(m)
DeleteLesson(l) == Delete(l)
RemoveResource(r) == Delete(r)

-----------------------------------------------------------------------------
(* Reordering *)

\* The positions are 0, 1, ... in some order.  That an item is named twice is
\* not looked for.
ValidPositions(items) == {items[k].to : k \in DOMAIN items} = 0 .. (Len(items) - 1)

\* The request names its parent by its first item; every item must be in it.
SameParent(items) ==
    \A k \in DOMAIN items :
        IsItem(items[k].item) /\ row[items[k].item].in = row[items[1].item].in

StartReorder(w, items) ==
    /\ moves[w] = << >>
    /\ items # << >>
    /\ ValidPositions(items)
    /\ SameParent(items)
    /\ moves' = [moves EXCEPT ![w] = items]
    /\ UNCHANGED row

ReorderModules(w, items) ==
    (\A k \in DOMAIN items : items[k].item \in Modules) /\ StartReorder(w, items)
ReorderLessons(w, items) ==
    (\A k \in DOMAIN items : items[k].item \in Lessons) /\ StartReorder(w, items)
ReorderResources(w, items) ==
    (\A k \in DOMAIN items : items[k].item \in Resources) /\ StartReorder(w, items)

\* ReorderContent of the service: the kind of item decides.
ReorderContent(w, items) ==
    \/ ReorderModules(w, items)
    \/ ReorderLessons(w, items)
    \/ ReorderResources(w, items)

\* Slip: no UNIQUE constraint.
Taken_slip(i, to) == FALSE

\* The UNIQUE constraint is checked as the UPDATE runs, not at the end.
Taken(i, to) == \E j \in Siblings(i) : row[j].at = to

UpdateDisplayOrder(w) ==
    /\ moves[w] # << >>
    /\ LET move == Head(moves[w]) IN
       /\ IsItem(move.item)
       /\ ~Taken(move.item, move.to)
       /\ row' = [row EXCEPT ![move.item].at = move.to]
    /\ moves' = [moves EXCEPT ![w] = Tail(@)]

\* The update finds no row, or the place taken, or fails by itself: the request
\* ends there, and its updates before that stay.
ReorderFails(w) ==
    /\ moves[w] # << >>
    /\ moves' = [moves EXCEPT ![w] = << >>]
    /\ UNCHANGED row

-----------------------------------------------------------------------------
Requests(level) ==
    UNION {[1..n -> [item : level, to : 0 .. (MaxItems - 1)]] : n \in 1..MaxItems}

OutlineNext ==
    \/ \E at \in 0..MaxPosition :
          \/ \E m \in Modules, c \in Courses : CreateModule(m, c, at)
          \/ \E l \in Lessons, m \in Modules : CreateLesson(l, m, at)
          \/ \E r \in Resources, l \in Lessons : AddResource(r, l, at)
    \/ \E m \in Modules : DeleteModule(m)
    \/ \E l \in Lessons : DeleteLesson(l)
    \/ \E r \in Resources : RemoveResource(r)
    \/ \E w \in Writers :
          \/ \E level \in {Modules, Lessons, Resources} :
                 \E items \in Requests(level) : ReorderContent(w, items)
          \/ UpdateDisplayOrder(w)
          \/ ReorderFails(w)

OutlineSpec == OutlineInit /\ [][OutlineNext]_outline

-----------------------------------------------------------------------------
(* Properties *)

Gapless(p) == {row[i].at : i \in Children(p)} = 0 .. (Cardinality(Children(p)) - 1)

\* What reordering is for never happens: while the list of a parent has no gap,
\* whatever reorder requests are under way, none of its items goes to the place
\* of another; an item at most leaves for a place past the end (a request that
\* names it twice).  manager.rs updates row by row under a UNIQUE constraint.
GaplessStaysPut ==
    [][\A p \in Parents :
          Gapless(p) /\ Children(p)' = Children(p) =>
              \A i \in Children(p) :
                  row'[i].at \in {row[i].at} \cup {n \in Nat : n >= Cardinality(Children(p))}
      ]_outline

\* What content_manager_test.rs:304-307 asserts of a swap: no request that was
\* checked meets a place that is taken.  It fails.
ReorderSucceeds ==
    \A w \in Writers :
        moves[w] # << >> =>
            LET move == Head(moves[w]) IN IsItem(move.item) => ~Taken(move.item, move.to)

=============================================================================

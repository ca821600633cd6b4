-------------------------- MODULE MCContentService --------------------------
(* The content-management-service for TLC, uploads and transcoding apart: the *)
(* outline of a course, reading it, publishing, viewing, analytics and the    *)
(* circuit breaker around its clients.  These parts share no state here, so a *)
(* behaviour runs one of them, chosen in its first state, and the states of   *)
(* the parts add up.  The properties are those of the parts.                  *)
EXTENDS Structure, Viewing, Analytics, ContentBreaker

VARIABLE part

\* The outline of one lesson is changed by two reorder requests; a structure of
\* two lessons is read while rows come and go at two places.
Bounds ==
    IF part = "outline"
    THEN row'["l2"] = Absent
    ELSE UNCHANGED moves /\ \A i \in Items : IsItem(i)' => row'[i].at < 2

\* Viewing needs no second manager, name or search index.
V == INSTANCE Viewing WITH Managers <- {"g1"}, Names <- {"a"}, WithSearch <- FALSE

Parts == {"outline", "structure", "publishing", "viewing", "analytics", "breaker"}

PartsInit ==
    /\ part \in Parts
    /\ StructureInit
    /\ IF part = "publishing" THEN PublishingInit ELSE V!PublishingInit
    /\ StudentsInit
    /\ AnalyticsInit
    /\ BreakerInit

PartsNext ==
    /\ UNCHANGED part
    /\ \/ /\ part = "outline" /\ OutlineNext /\ Bounds
          /\ UNCHANGED <<published, walk, steady, glimpsed, viewing, analytics, breakerVars>>
       \/ /\ part = "structure" /\ StructureNext /\ Bounds
          /\ UNCHANGED <<viewing, analytics, breakerVars>>
       \/ /\ part = "publishing" /\ PublishingNext
          /\ UNCHANGED <<structure, students, analytics, breakerVars>>
       \/ /\ part = "viewing" /\ V!ViewingNext
          /\ UNCHANGED <<structure, analytics, breakerVars>>
       \/ /\ part = "analytics" /\ AnalyticsNext
          /\ UNCHANGED <<structure, viewing, breakerVars>>
       \/ /\ part = "breaker" /\ BreakerNext
          /\ UNCHANGED <<structure, viewing, analytics>>

ContentServiceSpec ==
    PartsInit /\ [][PartsNext]_<<part, structure, viewing, analytics, breakerVars>>
=============================================================================

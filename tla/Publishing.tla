----------------------------- MODULE Publishing -----------------------------
(***************************************************************************)
(* The resources of a lesson and their documents in the search index       *)
(* (create, update, publish, unpublish and delete_resource of              *)
(* src/content/manager.rs over ResourceRepository and SearchService).      *)
(*                                                                         *)
(* A handler reads the resource once, only to see that it exists, then     *)
(* runs single statements, and at last puts the row its last statement     *)
(* returned into the index.  Statements and index are not one transaction, *)
(* and two handlers of one resource are not ordered.  An index request     *)
(* that fails after its retries, or is skipped because the circuit is      *)
(* open, is only logged.  A document carries the name and published; the   *)
(* names of the lesson and the module in it are not modelled.              *)
(***************************************************************************)
CONSTANTS
    ResourceIds,    \* resource ids; an id is never used again
    Managers,     \* the handlers in flight
    Names,        \* names of resources
    Copyrights,   \* copyright settings clients ask for
    WithSearch,   \* built by with_search; main.rs builds without (new)
    None,         \* no row yet, no document, a setting not given
    Gone          \* a row that was deleted

VARIABLES
    resource,   \* the row of each resource
    index,      \* the document of each resource in Elasticsearch
    manager,    \* where each handler is
    settled     \* history: resources last changed by a handler that had the
                \* resource for itself, with search, and whose every step succeeded

publishing == <<resource, index, manager, settled>>

ResourceRows ==
    [name : Names, published : BOOLEAN, downloadable : BOOLEAN,
     copyright : Copyrights \cup {"unrestricted"}]
Documents == [name : Names, published : BOOLEAN]
ManagerStates ==
    [at : {"idle"}]
    \cup [at : {"publish"}, r : ResourceIds, alone : BOOLEAN, to : BOOLEAN]
    \cup [at : {"downloadable"}, r : ResourceIds, alone : BOOLEAN, to : BOOLEAN,
          copyright : Copyrights \cup {None}]
    \cup [at : {"copyright"}, r : ResourceIds, alone : BOOLEAN, to : Copyrights]
    \cup [at : {"index"}, r : ResourceIds, alone : BOOLEAN, document : Documents]
    \cup [at : {"remove", "delete"}, r : ResourceIds, alone : BOOLEAN]

\* The marks are no rows and no documents.
ASSUME PublishingAssumption ==
    None # Gone /\ {None, Gone} \cap (ResourceRows \cup Documents) = {}

PublishingTypeOK ==
    /\ resource \in [ResourceIds -> ResourceRows \cup {None, Gone}]
    /\ index \in [ResourceIds -> Documents \cup {None}]
    /\ manager \in [Managers -> ManagerStates]
    /\ settled \in SUBSET ResourceIds

PublishingInit ==
    /\ resource = [r \in ResourceIds |-> None]
    /\ index = [r \in ResourceIds |-> None]
    /\ manager = [m \in Managers |-> [at |-> "idle"]]
    /\ settled = {}

Stored(r) == resource[r] \notin {None, Gone}
Document(row) == [name |-> row.name, published |-> row.published]
Busy(r) == {m \in Managers : manager[m].at # "idle" /\ manager[m].r = r}

\* A handler begins with resource r: it, and those already at it, are not alone.
Begin(m, r, state) ==
    /\ manager[m].at = "idle"
    /\ manager' = [k \in Managers |->
           IF k = m THEN [state EXCEPT !.alone = Busy(r) = {}]
           ELSE IF k \in Busy(r) THEN [manager[k] EXCEPT !.alone = FALSE]
           ELSE manager[k]]
    /\ settled' = settled \ {r}

Step(m, state) == manager' = [manager EXCEPT ![m] = state]
Leave(m) == Step(m, [at |-> "idle"])
Done(m) ==
    /\ Leave(m)
    /\ settled' = IF WithSearch /\ manager[m].alone
                  THEN settled \cup {manager[m].r} ELSE settled

\* What the handler does after its last statement, which returned this row.
ThenIndex(m, row) ==
    IF WithSearch
    THEN /\ Step(m, [at |-> "index", r |-> manager[m].r, alone |-> manager[m].alone,
                     document |-> Document(row)])
         /\ UNCHANGED settled
    ELSE Done(m)

-----------------------------------------------------------------------------
(* Handlers *)

CreateResource(m, r, name) ==
    /\ resource[r] = None
    /\ LET row == [name |-> name, published |-> FALSE, downloadable |-> FALSE,
                   copyright |-> "unrestricted"]
       IN  /\ resource' = [resource EXCEPT ![r] = row]
           /\ IF WithSearch
              THEN Begin(m, r, [at |-> "index", r |-> r, alone |-> TRUE,
                                document |-> Document(row)])
              ELSE manager[m].at = "idle" /\ UNCHANGED <<manager, settled>>
    /\ UNCHANGED index

\* get_resource: the resource must exist.
BeginPublish(m, r, to) ==
    /\ Stored(r)
    /\ Begin(m, r, [at |-> "publish", r |-> r, alone |-> TRUE, to |-> to])
    /\ UNCHANGED <<resource, index>>
PublishResource(m, r) == BeginPublish(m, r, TRUE)
UnpublishResource(m, r) == BeginPublish(m, r, FALSE)

\* Slip: the row that was read before is put into the index.
UpdatePublicationStatus_slip(m) ==
    /\ manager[m].at = "publish"
    /\ LET r == manager[m].r IN
       /\ Stored(r)
       /\ resource' = [resource EXCEPT ![r].published = manager[m].to]
       /\ ThenIndex(m, resource[r])
    /\ UNCHANGED index

UpdatePublicationStatus(m) ==
    /\ manager[m].at = "publish"
    /\ LET r == manager[m].r IN
       /\ Stored(r)
       /\ resource' = [resource EXCEPT ![r].published = manager[m].to]
       /\ ThenIndex(m, [resource[r] EXCEPT !.published = manager[m].to])
    /\ UNCHANGED index

\* The name, downloadable and copyright are three statements.  The service
\* always passes a downloadable: false, when the client leaves it out.
UpdateResource(m, r, name, downloadable, copyright) ==
    /\ Stored(r)
    /\ Begin(m, r, [at |-> "downloadable", r |-> r, alone |-> TRUE,
                    to |-> downloadable, copyright |-> copyright])
    /\ resource' = [resource EXCEPT ![r].name = name]
    /\ UNCHANGED index

UpdateDownloadable(m) ==
    /\ manager[m].at = "downloadable"
    /\ LET r == manager[m].r
           row == [resource[r] EXCEPT !.downloadable = manager[m].to]
       IN  /\ Stored(r)
           /\ resource' = [resource EXCEPT ![r] = row]
           /\ IF manager[m].copyright = None
              THEN ThenIndex(m, row)
              ELSE /\ Step(m, [at |-> "copyright", r |-> r, alone |-> manager[m].alone,
                               to |-> manager[m].copyright])
                   /\ UNCHANGED settled
    /\ UNCHANGED index

UpdateCopyrightSetting(m) ==
    /\ manager[m].at = "copyright"
    /\ LET r == manager[m].r
           row == [resource[r] EXCEPT !.copyright = manager[m].to]
       IN  /\ Stored(r)
           /\ resource' = [resource EXCEPT ![r] = row]
           /\ ThenIndex(m, row)
    /\ UNCHANGED index

DeleteResource(m, r) ==
    /\ Stored(r)
    /\ Begin(m, r, [at |-> IF WithSearch THEN "remove" ELSE "delete", r |-> r, alone |-> TRUE])
    /\ UNCHANGED <<resource, index>>

DeleteRow(m) ==
    /\ manager[m].at = "delete"
    /\ Stored(manager[m].r)
    /\ resource' = [resource EXCEPT ![manager[m].r] = Gone]
    /\ Done(m)
    /\ UNCHANGED index

\* A statement that fails, or finds no row, ends the handler with an error.
StatementFails(m) ==
    /\ manager[m].at \in {"publish", "downloadable", "copyright", "delete"}
    /\ Leave(m)
    /\ UNCHANGED <<resource, index, settled>>

-----------------------------------------------------------------------------
(* The search index *)

\* The lesson and the module are read first, for the path in the document.
IndexContent(m) ==
    /\ manager[m].at = "index"
    /\ index' = [index EXCEPT ![manager[m].r] = manager[m].document]
    /\ Done(m)
    /\ UNCHANGED resource

RemoveFromIndex(m) ==
    /\ manager[m].at = "remove"
    /\ index' = [index EXCEPT ![manager[m].r] = None]
    /\ Step(m, [manager[m] EXCEPT !.at = "delete"])
    /\ UNCHANGED <<resource, settled>>

\* The error is logged; the handler goes on.
IndexFails(m) ==
    /\ \/ manager[m].at = "index" /\ Leave(m)
       \/ /\ manager[m].at = "remove"
          /\ Step(m, [manager[m] EXCEPT !.at = "delete", !.alone = FALSE])
    /\ UNCHANGED <<resource, index, settled>>

\* What search_content can return: it asks as a student whoever asks.
Search == {r \in ResourceIds : index[r] # None /\ index[r].published}

Manage(m) ==
    \/ \E r \in ResourceIds :
          \/ \E name \in Names : CreateResource(m, r, name)
          \/ PublishResource(m, r)
          \/ UnpublishResource(m, r)
          \/ \E name \in Names, downloadable \in BOOLEAN, copyright \in Copyrights \cup {None} :
                UpdateResource(m, r, name, downloadable, copyright)
          \/ DeleteResource(m, r)
    \/ UpdatePublicationStatus(m)
    \/ UpdateDownloadable(m)
    \/ UpdateCopyrightSetting(m)
    \/ DeleteRow(m)
    \/ StatementFails(m)
    \/ IndexContent(m)
    \/ RemoveFromIndex(m)
    \/ IndexFails(m)

PublishingNext == \E m \in Managers : Manage(m)

PublishingSpec == PublishingInit /\ [][PublishingNext]_publishing

-----------------------------------------------------------------------------
(* Property *)

\* Two handlers can index in the other order, a failed request leaves an old
\* document and a late one brings back a removed resource; but one handler that
\* has the resource for itself and meets no error puts all of that right: the
\* document is the row again, and students find a resource only if it is
\* published (index_resource and remove_from_index of manager.rs).
IndexSettles ==
    \A r \in settled :
        /\ index[r] = IF Stored(r) THEN Document(resource[r]) ELSE None
        /\ r \in Search <=> Stored(r) /\ resource[r].published

=============================================================================

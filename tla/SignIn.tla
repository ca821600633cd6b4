------------------------------- MODULE SignIn -------------------------------
(***************************************************************************)
(* Sign-ins of one person through OAuth and SAML, which are both always    *)
(* registered (internal/auth/strategies/oauth.go, saml.go of the           *)
(* user-auth-service): the one-time states, just-in-time provisioning, the *)
(* link to the provider and the synchronisation of roles with groups.      *)
(*                                                                         *)
(* A callback calls the provider and then reads and writes one row at a    *)
(* time; only the map of states has a lock.  Every call can fail; the code *)
(* goes on after some failures and gives up after others.                  *)
(***************************************************************************)
EXTENDS Naturals, FiniteSets

CONSTANTS
    SignIns,       \* callbacks in flight
    States,        \* states of generateState; none is made twice
    RoleNames,     \* the roles table, "user" among them; groups are roles by name
    JITProvisioning,
    Nobody         \* no user row

VARIABLES
    stateStore,    \* each state: not made yet, fresh, older than ten minutes, gone
    row,           \* the user row of the person with its user_roles
    link,          \* whether oauth_providers has the person
    callback,      \* where each callback is
    sessions       \* history: how many sessions each state led to; 2 is two or more

signins == <<stateStore, row, link, callback, sessions>>

People == [active : BOOLEAN, roles : SUBSET RoleNames]

ASSUME SignInAssumption ==
    "user" \in RoleNames /\ Nobody \notin People /\ JITProvisioning \in BOOLEAN

Callbacks ==
    [at : {"idle"}]
    \cup [at : {"exchange", "link", "linked", "email", "create"}, state : States]
    \cup [at : {"write", "tokens", "reload"}, state : States, active : BOOLEAN]
    \cup [at : {"assertion", "provision", "assign", "provisioned"}, groups : SUBSET RoleNames]
    \cup [at : {"found", "sync"}, groups : SUBSET RoleNames, active : BOOLEAN]
    \cup [at : {"change", "session"}, groups : SUBSET RoleNames, active : BOOLEAN,
          add : SUBSET RoleNames, remove : SUBSET RoleNames, clean : BOOLEAN]

SignInTypeOK ==
    /\ stateStore \in [States -> {"new", "fresh", "old", "gone"}]
    /\ row \in People \cup {Nobody}
    /\ link \in BOOLEAN
    /\ callback \in [SignIns -> Callbacks]
    /\ sessions \in [States -> 0..2]

Turn(c, state) == callback' = [callback EXCEPT ![c] = state]
Leave(c) == Turn(c, [at |-> "idle"])
GoOn(c, place) == Turn(c, [callback[c] EXCEPT !.at = place])
At(c, place) == callback[c].at = place

\* On with the row as it was read, of which only is_active matters later.
WithRow(c, place, read) ==
    Turn(c, [at |-> place, state |-> callback[c].state, active |-> read.active])

KeepStates == UNCHANGED <<stateStore, sessions>>

\* UserRepository.Update writes is_active back, and no roles.
WriteBack(c) == row' = [row EXCEPT !.active = callback[c].active]
NewRow == [active |-> TRUE, roles |-> {}]

-----------------------------------------------------------------------------
(* The states of OAuth *)

\* Authenticate; the ticks of the clock; a restart loses the map and all that
\* is in flight.
GenerateState(st) ==
    /\ stateStore[st] = "new"
    /\ stateStore' = [stateStore EXCEPT ![st] = "fresh"]
    /\ UNCHANGED <<row, link, callback, sessions>>
Age(st) ==
    /\ stateStore[st] = "fresh"
    /\ stateStore' = [stateStore EXCEPT ![st] = "old"]
    /\ UNCHANGED <<row, link, callback, sessions>>
Restart ==
    /\ stateStore' = [st \in States |-> IF stateStore[st] = "new" THEN "new" ELSE "gone"]
    /\ callback' = [c \in SignIns |-> [at |-> "idle"]]
    /\ UNCHANGED <<row, link, sessions>>

\* Slip: the state stays in the map.
ValidateState_slip(c, st) ==
    /\ At(c, "idle")
    /\ stateStore[st] = "fresh"
    /\ Turn(c, [at |-> "exchange", state |-> st])
    /\ UNCHANGED <<stateStore, row, link, sessions>>

\* validateState: known, not too old, and gone from then on.
ValidateState(c, st) ==
    /\ At(c, "idle")
    /\ stateStore[st] \in {"fresh", "old"}
    /\ stateStore' = [stateStore EXCEPT ![st] = "gone"]
    /\ IF stateStore[st] = "fresh"
       THEN Turn(c, [at |-> "exchange", state |-> st]) ELSE UNCHANGED callback
    /\ UNCHANGED <<row, link, sessions>>

-----------------------------------------------------------------------------
(* OAuthAuthStrategy.HandleCallback *)

\* ExchangeToken and GetUserInfo.
Exchange(c) ==
    /\ At(c, "exchange")
    /\ GoOn(c, "link") \/ Leave(c)
    /\ UNCHANGED <<row, link>> /\ KeepStates

\* Is the person linked?  A failing query means no.
LookupLink(c) ==
    /\ At(c, "link")
    /\ (link /\ GoOn(c, "linked")) \/ GoOn(c, "email")
    /\ UNCHANGED <<row, link>> /\ KeepStates

\* The row of the link; a name that changed is written with the whole row.
ReadLinked(c) ==
    /\ At(c, "linked")
    /\ WithRow(c, "write", row) \/ WithRow(c, "tokens", row) \/ Leave(c)
    /\ UNCHANGED <<row, link>> /\ KeepStates

WriteLinked(c) ==
    /\ At(c, "write")
    /\ WriteBack(c) \/ UNCHANGED row
    /\ GoOn(c, "tokens")
    /\ UNCHANGED link /\ KeepStates

\* The row by address; a failing query means there is none.
LookupEmail(c) ==
    /\ At(c, "email")
    /\ (row # Nobody /\ WithRow(c, "tokens", row)) \/ GoOn(c, "create")
    /\ UNCHANGED <<row, link>> /\ KeepStates

\* The address is unique.
CreateUser(c) ==
    /\ At(c, "create")
    /\ \/ row = Nobody /\ row' = NewRow /\ WithRow(c, "tokens", NewRow)
       \/ Leave(c) /\ UNCHANGED row
    /\ UNCHANGED link /\ KeepStates

\* StoreOAuthTokens; a failure is only logged.
StoreOAuthTokens(c) ==
    /\ At(c, "tokens")
    /\ link' \in {link, TRUE}
    /\ IF callback[c].active THEN GoOn(c, "reload") ELSE Leave(c)
    /\ UNCHANGED row /\ KeepStates

\* The roles are read again, the activity is not; then the session.
ReloadAndFinish(c) ==
    /\ At(c, "reload")
    /\ \/ sessions' = [sessions EXCEPT ![callback[c].state] = IF @ = 0 THEN 1 ELSE 2]
       \/ UNCHANGED sessions
    /\ Leave(c)
    /\ UNCHANGED <<stateStore, row, link>>

-----------------------------------------------------------------------------
(* SAMLAuthStrategy.HandleCallback *)

\* The assertion is valid now and names these groups.
BeginAssertion(c, groups) ==
    /\ At(c, "idle")
    /\ Turn(c, [at |-> "assertion", groups |-> groups])
    /\ UNCHANGED <<row, link>> /\ KeepStates

\* A failing query means the person is new.
LookupAssertion(c) ==
    LET groups == callback[c].groups
        Found(place) == Turn(c, [at |-> place, groups |-> groups, active |-> row.active])
    IN  /\ At(c, "assertion")
        /\ \/ row # Nobody /\ (Found("found") \/ Found("sync"))
           \/ IF JITProvisioning THEN GoOn(c, "provision") ELSE Leave(c)
        /\ UNCHANGED <<row, link>> /\ KeepStates

Provision(c) ==
    /\ At(c, "provision")
    /\ \/ row = Nobody /\ row' = NewRow /\ GoOn(c, "assign")
       \/ Leave(c) /\ UNCHANGED row
    /\ UNCHANGED link /\ KeepStates

\* A write of the roles disturbs the synchronisations under way.
Disturb(next) ==
    [d \in SignIns |-> IF next[d].at \in {"change", "session"}
                       THEN [next[d] EXCEPT !.clean = FALSE] ELSE next[d]]

\* AssignRoleByName "user"; a failure is only logged.
AssignDefault(c) ==
    /\ At(c, "assign")
    /\ row' \in {row, [row EXCEPT !.roles = @ \cup {"user"}]}
    /\ callback' = Disturb([callback EXCEPT ![c].at = "provisioned"])
    /\ UNCHANGED link /\ KeepStates

ReadProvisioned(c) ==
    /\ At(c, "provisioned")
    /\ \/ Turn(c, [at |-> "sync", groups |-> callback[c].groups, active |-> row.active])
       \/ Leave(c)
    /\ UNCHANGED <<row, link>> /\ KeepStates

UpdateFound(c) ==
    /\ At(c, "found")
    /\ WriteBack(c) \/ UNCHANGED row
    /\ GoOn(c, "sync")
    /\ UNCHANGED link /\ KeepStates

\* Slip: roles that are no group stay.
Plan_slip(c, place, current, clean) ==
    LET groups == callback[c].groups IN
    Turn(c, [at |-> place, groups |-> groups, active |-> callback[c].active,
               add |-> groups \ current, remove |-> {}, clean |-> clean])

Plan(c, place, current, clean) ==
    LET groups == callback[c].groups IN
    Turn(c, [at |-> place, groups |-> groups, active |-> callback[c].active,
               add |-> groups \ current, remove |-> current \ groups, clean |-> clean])

\* GetUserRoles, which a failure or an assertion without groups skips.
ReadRoles(c) ==
    /\ At(c, "sync")
    /\ \/ callback[c].groups # {} /\ Plan(c, "change", row.roles, TRUE)
       \/ Plan(c, "session", callback[c].groups, FALSE)
    /\ UNCHANGED <<row, link>> /\ KeepStates

\* One role at a time, the additions first; a failure is only logged.
ChangeRole(c) ==
    LET me == callback[c]
        Try(roles, f, role) ==
            \/ /\ row' = [row EXCEPT !.roles = roles]
               /\ callback' = [Disturb(callback) EXCEPT ![c] = [me EXCEPT ![f] = @ \ {role}]]
            \/ /\ UNCHANGED row
               /\ Turn(c, [me EXCEPT ![f] = @ \ {role}, !.clean = FALSE])
    IN  /\ At(c, "change")
        /\ \/ \E role \in me.add : Try(row.roles \cup {role}, "add", role)
           \/ me.add = {} /\ \E role \in me.remove : Try(row.roles \ {role}, "remove", role)
           \/ me.add = {} /\ me.remove = {} /\ GoOn(c, "session") /\ UNCHANGED row
        /\ UNCHANGED link /\ KeepStates

\* The activity, and the roles of the session, are those read at the start.
FinishAssertion(c) ==
    /\ At(c, "session")
    /\ Leave(c)
    /\ UNCHANGED <<row, link>> /\ KeepStates

-----------------------------------------------------------------------------
\* An administrator: AssignRole, RemoveRole, DeleteUser.
ChangeRoles(role) ==
    /\ row # Nobody
    /\ row' \in {[row EXCEPT !.roles = @ \cup {role}], [row EXCEPT !.roles = @ \ {role}]}
    /\ callback' = Disturb(callback)
    /\ UNCHANGED link /\ KeepStates
Deactivate ==
    /\ row # Nobody
    /\ row' = [row EXCEPT !.active = FALSE]
    /\ UNCHANGED <<link, callback>> /\ KeepStates

SignInInit ==
    /\ stateStore = [st \in States |-> "new"]
    /\ row = Nobody
    /\ link = FALSE
    /\ callback = [c \in SignIns |-> [at |-> "idle"]]
    /\ sessions = [st \in States |-> 0]

OAuthStep(c) ==
    \/ \E st \in States : ValidateState(c, st)
    \/ Exchange(c) \/ LookupLink(c) \/ ReadLinked(c) \/ WriteLinked(c)
    \/ LookupEmail(c) \/ CreateUser(c) \/ StoreOAuthTokens(c) \/ ReloadAndFinish(c)
SAMLStep(c) ==
    \/ \E groups \in SUBSET RoleNames : BeginAssertion(c, groups)
    \/ LookupAssertion(c) \/ Provision(c) \/ AssignDefault(c) \/ ReadProvisioned(c)
    \/ UpdateFound(c) \/ ReadRoles(c) \/ ChangeRole(c) \/ FinishAssertion(c)

SignInNext ==
    \/ \E st \in States : GenerateState(st) \/ Age(st)
    \/ \E c \in SignIns : OAuthStep(c) \/ SAMLStep(c)
    \/ \E role \in RoleNames : ChangeRoles(role)
    \/ Deactivate
    \/ Restart

SignInSpec == SignInInit /\ [][SignInNext]_signins

-----------------------------------------------------------------------------
(* Properties *)

\* However many callbacks bring one state, at most one gets a session, also
\* across the failures and restarts between validateState and the tokens.
StateUsedOnce == \A st \in States : sessions[st] < 2

\* A synchronisation without failures of its own, and without other changes of
\* the roles after it read them, leaves the roles equal to the groups
\* (syncGroupsAndCreateSession).
SyncGivesGroups ==
    \A c \in SignIns :
        At(c, "session") /\ callback[c].clean => row.roles = callback[c].groups
=============================================================================

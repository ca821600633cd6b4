------------------------------- MODULE Tokens -------------------------------
(***************************************************************************)
(* One account of the user-auth-service and its tokens                     *)
(* (internal/service/user_service.go over UserRepository, RoleRepository,  *)
(* pkg/jwt and the blacklist in Redis).                                    *)
(*                                                                         *)
(* A handler works one statement at a time and locks nothing; hashing a    *)
(* password takes long enough for others to pass.  Any statement can fail, *)
(* and then the handler answers with the error, save where the code only   *)
(* logs it.  A token is what it says: two with the same claims, issued in  *)
(* the same second, are one string.  Names and addresses are left out.     *)
(***************************************************************************)
EXTENDS Naturals, FiniteSets

CONSTANTS
    Callers,      \* handlers in flight
    Passwords,    \* passwords (a row holds their hashes)
    Roles,        \* roles in the roles table; "user" is one
    AccessTTL,    \* accessTokenDuration, in seconds
    RefreshTTL,   \* refreshTokenDuration
    MarkTTL,      \* how long BlacklistUserTokens lasts (7 days)
    MaxTime,      \* bound: how far the clock runs
    None          \* no row, no mark

\* The mark of a user outlives every access token issued before it.
ASSUME TokensAssumption ==
    /\ {AccessTTL, RefreshTTL, MarkTTL, MaxTime} \subseteq Nat
    /\ AccessTTL <= MarkTTL
    /\ None \notin [password : Passwords, active : BOOLEAN, roles : SUBSET Roles]
    /\ None \notin [at : Nat, until : Nat]

VARIABLES
    now,          \* the clock, in whole seconds
    user,         \* the row of the account, with its rows of user_roles
    issued,       \* tokens that were handed out and have not expired
    blacklist,    \* "blacklist:token:" keys
    mark,         \* the "blacklist:user:" key: the second it holds, and its end
    caller,       \* where each handler is
    revoked,      \* history: tokens whose revocation succeeded
    lapsed,       \* history: tokens that Redis no longer refuses: it lost a key, or an
                  \* older second was written over a newer one
    deleted,      \* history: the account was deleted, and not activated since
    crossed       \* history: a write of the row was under way when it was deleted

accounts == <<now, user, issued, blacklist, mark, caller, revoked, lapsed, deleted, crossed>>

Times == 0..MaxTime
TokenSet == [type : {"access", "refresh"}, issued : Times, roles : SUBSET Roles]
Rows == [password : Passwords, active : BOOLEAN, roles : SUBSET Roles]
CallerStates ==
    [at : {"idle", "mark", "reload"}]
    \cup [at : {"create"}, password : Passwords, roles : SUBSET Roles]
    \cup [at : {"assign", "generate"}, roles : SUBSET Roles]
    \cup [at : {"password"}, password : Passwords]
    \cup [at : {"set"}, second : Times]
    \cup [at : {"update"}, active : BOOLEAN, asked : BOOLEAN]

TokensTypeOK ==
    /\ now \in Times
    /\ user \in Rows \cup {None}
    /\ issued \in SUBSET TokenSet
    /\ blacklist \in SUBSET TokenSet
    /\ mark \in [at : Times, until : Nat] \cup {None}
    /\ caller \in [Callers -> CallerStates]
    /\ revoked \in SUBSET TokenSet
    /\ lapsed \in SUBSET TokenSet
    /\ deleted \in BOOLEAN
    /\ crossed \in BOOLEAN

Idle(c) == caller[c].at = "idle"
Become(c, state) == caller' = [caller EXCEPT ![c] = state]
Return(c) == Become(c, [at |-> "idle"])

KeepRow == UNCHANGED <<user, deleted, crossed>>
KeepTokens == UNCHANGED <<now, issued, blacklist, mark, revoked, lapsed>>

-----------------------------------------------------------------------------
(* pkg/jwt *)

Lifetime(t) == IF t.type = "access" THEN AccessTTL ELSE RefreshTTL
Unexpired(t) == now < t.issued + Lifetime(t)
Usable(t, type) == t \in issued /\ t.type = type /\ Unexpired(t)

\* IsTokenBlacklisted: its own key, or one of the user with a later second.
IsTokenBlacklisted(t) ==
    \/ t \in blacklist
    \/ mark # None /\ t.issued < mark.at

\* UserService.ValidateToken; a failing blacklist refuses the token.
ValidateToken(t) == Usable(t, "access") /\ ~IsTokenBlacklisted(t)

GenerateTokens(roles) ==
    issued' = issued \cup [type : {"access", "refresh"}, issued : {now}, roles : {roles}]

-----------------------------------------------------------------------------
(* Register and CreateUser *)

\* No row with this address; the password is hashed.  Register gives the role
\* "user", CreateUser the ones the administrator names.
BeginCreate(c, password, roles) ==
    /\ Idle(c)
    /\ user = None
    /\ Become(c, [at |-> "create", password |-> password, roles |-> roles])
    /\ KeepRow /\ KeepTokens

\* The address is unique: the second of two inserts fails.
CreateRow(c) ==
    /\ caller[c].at = "create"
    /\ \/ /\ user = None
          /\ user' = [password |-> caller[c].password, active |-> TRUE, roles |-> {}]
          /\ Become(c, [at |-> "assign", roles |-> caller[c].roles])
          /\ UNCHANGED <<deleted, crossed>>
       \/ Return(c) /\ KeepRow
    /\ KeepTokens

\* One role; a failure is only logged.
AssignNext(c) ==
    /\ caller[c].at = "assign"
    /\ \E role \in caller[c].roles :
        /\ Become(c, IF caller[c].roles = {role} THEN [at |-> "reload"]
                     ELSE [caller[c] EXCEPT !.roles = @ \ {role}])
        /\ user' \in {user, [user EXCEPT !.roles = @ \cup {role}]}
    /\ UNCHANGED <<deleted, crossed>> /\ KeepTokens

\* The row is read again; the tokens Register makes are not sent.
Reload(c) ==
    /\ caller[c].at = "reload"
    /\ Return(c)
    /\ KeepRow /\ KeepTokens

-----------------------------------------------------------------------------
(* Tokens *)

\* Login reads the row, compares the password and then makes the tokens.
BeginLogin(c, password) ==
    /\ Idle(c)
    /\ user # None
    /\ user.active /\ user.password = password
    /\ Become(c, [at |-> "generate", roles |-> user.roles])
    /\ KeepRow /\ KeepTokens

FinishLogin(c) ==
    /\ caller[c].at = "generate"
    /\ GenerateTokens(caller[c].roles)
    /\ Return(c)
    /\ KeepRow /\ UNCHANGED <<now, blacklist, mark, revoked, lapsed>>

\* RefreshToken looks neither at the row nor at the blacklist.
RefreshToken(t) ==
    /\ Usable(t, "refresh")
    /\ GenerateTokens(t.roles)
    /\ KeepRow /\ UNCHANGED <<now, blacklist, mark, caller, revoked, lapsed>>

\* Logout; a failing blacklist is only logged.
Logout(t) ==
    /\ Usable(t, "access")
    /\ blacklist' = blacklist \cup {t}
    /\ revoked' = revoked \cup {t}
    /\ lapsed' = lapsed \ {t}
    /\ KeepRow /\ UNCHANGED <<now, issued, mark, caller>>

-----------------------------------------------------------------------------
(* Changes of the row *)

BeginChangePassword(c, old, new) ==
    /\ Idle(c)
    /\ user # None
    /\ user.password = old
    /\ Become(c, [at |-> "password", password |-> new])
    /\ KeepRow /\ KeepTokens

UpdatePassword(c) ==
    /\ caller[c].at = "password"
    /\ \/ /\ user' = [user EXCEPT !.password = caller[c].password]
          /\ Become(c, [at |-> "mark"])
       \/ UNCHANGED user /\ Return(c)
    /\ UNCHANGED <<deleted, crossed>> /\ KeepTokens

\* BlacklistUserTokens reads the clock,
TakeTime(c) ==
    /\ caller[c].at = "mark"
    /\ Become(c, [at |-> "set", second |-> now])
    /\ KeepRow /\ KeepTokens

\* Slip: SETNX, so an earlier second stays.
SetMark_slip(second) ==
    /\ mark' = IF mark = None THEN [at |-> second, until |-> now + MarkTTL] ELSE mark
    /\ UNCHANGED lapsed

\* and SETs the mark in a command of its own, over whatever is there.
SetMark(second) ==
    /\ mark' = [at |-> second, until |-> now + MarkTTL]
    /\ lapsed' = {t \in lapsed : second <= t.issued}
          \cup {t \in issued \ blacklist : mark # None /\ second <= t.issued /\ t.issued < mark.at}

\* The client repeats a command whose answer was lost; a failure is only logged.
BlacklistUserTokens(c) ==
    /\ caller[c].at = "set"
    /\ \/ /\ SetMark(caller[c].second)
          /\ revoked' = revoked \cup {t \in issued : t.issued < caller[c].second}
          /\ Return(c)
       \/ SetMark(caller[c].second) /\ UNCHANGED <<revoked, caller>>
       \/ UNCHANGED <<mark, lapsed, revoked>> /\ Return(c)
    /\ KeepRow /\ UNCHANGED <<now, issued, blacklist>>

\* UpdateUser and UpdateProfile read the row and write all of it but the
\* password and the roles; `active` is None when it is not to change.
BeginUpdate(c, active) ==
    /\ Idle(c)
    /\ user # None
    /\ Become(c, [at |-> "update", active |-> IF active = None THEN user.active ELSE active,
                  asked |-> active # None])
    /\ KeepRow /\ KeepTokens

\* Slip: the row is activated whatever was asked.
UpdateRow_slip(c) ==
    /\ caller[c].at = "update"
    /\ Return(c)
    /\ user' = [user EXCEPT !.active = TRUE]
    /\ deleted' = (deleted /\ ~(caller[c].asked /\ caller[c].active))
    /\ UNCHANGED crossed /\ KeepTokens

UpdateRow(c) ==
    /\ caller[c].at = "update"
    /\ Return(c)
    /\ \/ /\ user' = [user EXCEPT !.active = caller[c].active]
          /\ deleted' = (deleted /\ ~(caller[c].asked /\ caller[c].active))
          /\ UNCHANGED crossed
       \/ KeepRow
    /\ KeepTokens

\* DeleteUser only makes the row inactive.
DeleteUser ==
    /\ user # None
    /\ user' = [user EXCEPT !.active = FALSE]
    /\ deleted' = TRUE
    /\ crossed' = \E c \in Callers : caller[c].at = "update" /\ caller[c].active
    /\ UNCHANGED caller /\ KeepTokens

AssignRole(role) ==
    /\ user # None
    /\ user' = [user EXCEPT !.roles = @ \cup {role}]
    /\ UNCHANGED <<deleted, crossed, caller>> /\ KeepTokens
RemoveRole(role) ==
    /\ user # None
    /\ user' = [user EXCEPT !.roles = @ \ {role}]
    /\ UNCHANGED <<deleted, crossed, caller>> /\ KeepTokens

\* Redis loses a key: it is full (allkeys-lru), or comes back without its last writes.
LoseKey ==
    /\ \/ \E t \in blacklist :
            /\ blacklist' = blacklist \ {t}
            /\ lapsed' = lapsed \cup ({t} \ {u \in issued : mark # None /\ u.issued < mark.at})
            /\ UNCHANGED mark
       \/ /\ mark # None /\ mark' = None
          /\ lapsed' = lapsed \cup {t \in issued \ blacklist : t.issued < mark.at}
          /\ UNCHANGED blacklist
    /\ KeepRow /\ UNCHANGED <<now, issued, caller, revoked>>

\* A second passes; what has expired is forgotten.
Tick ==
    /\ now < MaxTime
    /\ now' = now + 1
    /\ LET Live(ts) == {t \in ts : now' < t.issued + Lifetime(t)}
       IN  /\ issued' = Live(issued)
           /\ blacklist' = Live(blacklist)
           /\ revoked' = Live(revoked)
           /\ lapsed' = Live(lapsed)
    /\ mark' = IF mark # None /\ mark.until <= now' THEN None ELSE mark
    /\ KeepRow /\ UNCHANGED caller

-----------------------------------------------------------------------------
TokensInit ==
    /\ now = 0
    /\ user = None
    /\ issued = {} /\ blacklist = {} /\ mark = None
    /\ caller = [c \in Callers |-> [at |-> "idle"]]
    /\ revoked = {} /\ lapsed = {}
    /\ deleted = FALSE /\ crossed = FALSE

TokensNext ==
    \/ \E c \in Callers :
        \/ \E p \in Passwords, roles \in SUBSET Roles \ {{}} : BeginCreate(c, p, roles)
        \/ CreateRow(c) \/ AssignNext(c) \/ Reload(c)
        \/ (\E p \in Passwords : BeginLogin(c, p)) \/ FinishLogin(c)
        \/ \E old, new \in Passwords : BeginChangePassword(c, old, new)
        \/ UpdatePassword(c) \/ TakeTime(c) \/ BlacklistUserTokens(c)
        \/ (\E active \in BOOLEAN \cup {None} : BeginUpdate(c, active)) \/ UpdateRow(c)
    \/ \E t \in issued : RefreshToken(t) \/ Logout(t)
    \/ \E role \in Roles : AssignRole(role) \/ RemoveRole(role)
    \/ DeleteUser
    \/ LoseKey \/ Tick

TokensSpec == TokensInit /\ [][TokensNext]_accounts

-----------------------------------------------------------------------------
(* Properties *)

\* An access token that was logged out, or issued in an earlier second than a
\* password change whose blacklisting succeeded, is refused for as long as it
\* lives, whatever is blacklisted after it and whatever expires before it.  It is let
\* in only when Redis lost the key that refused it, or when of two password changes
\* at once the one that read the clock first wrote last and it was issued between the
\* two (Logout, ChangePassword, ValidateToken).
RevokedStaysRefused == \A t \in revoked \ lapsed : ~ValidateToken(t)

\* A deleted account stays inactive until an administrator activates it, unless
\* an update that had read the row before wrote it back (DeleteUser,
\* UpdateProfile).
DeletedStaysInactive == deleted /\ ~crossed => ~user.active
=============================================================================

---------------------------- MODULE UserAuth_proofs ----------------------------
(***************************************************************************)
(* Proofs about the user-auth-service: the accounts and tokens of Tokens,  *)
(* for any handlers, passwords, roles and lifetimes, and the sign-ins of   *)
(* SignIn, for any callbacks, states and roles.                            *)
(*                                                                         *)
(* Once a row exists it stays, so a handler past its first read has one.   *)
(* A revoked access token is kept refused by its own key, which lives as   *)
(* long as the token, or by the mark of the user, which outlives the token *)
(* and only goes or moves back where `lapsed` says so.  A deletion that no *)
(* update crossed leaves only updates that were asked to activate the      *)
(* account.                                                                *)
(*                                                                         *)
(* A state that is still in the map is brought by nobody and has bought no *)
(* session; once out of it one callback at most brings it.  What a         *)
(* synchronisation has left to do is the difference between the roles and  *)
(* the groups, as long as nobody disturbs it.                              *)
(***************************************************************************)
EXTENDS Tokens, SignIn, TLAPS

-----------------------------------------------------------------------------
(* Accounts and tokens *)


AtRow(c) == caller[c].at \in {"assign", "generate", "reload", "password", "mark", "set",
                               "update"}

\* A handler past its first read has a row, and so has a deleted account.
RowExists == (deleted \/ \E c \in Callers : AtRow(c)) => user # None

\* What refuses a revoked access token, and how long a mark lives.
Refused(t) == t \in blacklist \/ (mark # None /\ t.issued < mark.at)
RevokedAreRefused == \A t \in revoked \ lapsed : t.type = "access" => Refused(t)
MarkLives ==
    /\ mark # None => mark.at + MarkTTL <= mark.until
    /\ \A c \in Callers : caller[c].at = "set" => caller[c].second <= now

\* After a deletion that no update crossed, only an update that was asked to
\* activate the account can.
UpdatesAreAsked ==
    deleted /\ ~crossed =>
        \A c \in Callers : caller[c].at = "update" /\ caller[c].active => caller[c].asked

Revocation == RevokedAreRefused /\ MarkLives /\ revoked \subseteq issued
Deletion == UpdatesAreAsked /\ DeletedStaysInactive

IInv == TokensTypeOK /\ RowExists /\ Revocation /\ Deletion

-----------------------------------------------------------------------------
(* Rows and callers *)

LEMMA Numbers ==
    AccessTTL \in Nat /\ RefreshTTL \in Nat /\ MarkTTL \in Nat /\ MaxTime \in Nat
    /\ AccessTTL <= MarkTTL
BY TokensAssumption

\* A row stays a row when one of its fields is written.
LEMMA RowUpdates ==
    ASSUME NEW r \in Rows, NEW p \in Passwords, NEW a \in BOOLEAN, NEW rs \in SUBSET Roles
    PROVE  /\ [r EXCEPT !.password = p] \in Rows
           /\ [r EXCEPT !.password = p].active = r.active
           /\ [r EXCEPT !.active = a] \in Rows
           /\ [r EXCEPT !.active = a].active = a
           /\ [r EXCEPT !.roles = rs] \in Rows
           /\ [r EXCEPT !.roles = rs].active = r.active
BY DEF Rows

LEMMA RowIsThere == \A r \in Rows : r # None
BY TokensAssumption DEF Rows

LEMMA RowFields ==
    ASSUME NEW r \in Rows
    PROVE  r.password \in Passwords /\ r.active \in BOOLEAN /\ r.roles \in SUBSET Roles
BY DEF Rows

\* What a caller carries, by where it is.
LEMMA CallerFields ==
    ASSUME NEW s \in CallerStates
    PROVE  /\ s.at = "create" => s.password \in Passwords /\ s.roles \in SUBSET Roles
           /\ s.at \in {"assign", "generate"} => s.roles \in SUBSET Roles
           /\ s.at = "assign" =>
                \A rs \in SUBSET Roles : [s EXCEPT !.roles = rs] \in CallerStates
           /\ s.at = "assign" =>
                \A rs \in SUBSET Roles : [s EXCEPT !.roles = rs].at = "assign"
           /\ s.at = "password" => s.password \in Passwords
           /\ s.at = "set" => s.second \in Times
           /\ s.at = "update" => s.active \in BOOLEAN /\ s.asked \in BOOLEAN
BY DEF CallerStates

LEMMA CallerRecords ==
    /\ [at |-> "idle"] \in CallerStates
    /\ [at |-> "mark"] \in CallerStates
    /\ [at |-> "reload"] \in CallerStates
    /\ \A p \in Passwords, rs \in SUBSET Roles :
         [at |-> "create", password |-> p, roles |-> rs] \in CallerStates
    /\ \A rs \in SUBSET Roles :
         /\ [at |-> "assign", roles |-> rs] \in CallerStates
         /\ [at |-> "generate", roles |-> rs] \in CallerStates
    /\ \A p \in Passwords : [at |-> "password", password |-> p] \in CallerStates
    /\ \A s \in Times : [at |-> "set", second |-> s] \in CallerStates
    /\ \A a, b \in BOOLEAN : [at |-> "update", active |-> a, asked |-> b] \in CallerStates
BY DEF CallerStates

\* One caller moves, the others stay.
LEMMA Moves ==
    ASSUME TokensTypeOK, NEW c \in Callers, NEW s \in CallerStates, Become(c, s)
    PROVE  /\ caller' \in [Callers -> CallerStates]
           /\ caller'[c] = s
           /\ \A d \in Callers \ {c} : caller'[d] = caller[d]
BY DEF TokensTypeOK, Become

-----------------------------------------------------------------------------
(* Types, and rows that stay *)

LEMMA InitHolds == TokensInit => IInv
<1> SUFFICES ASSUME TokensInit PROVE IInv
    OBVIOUS
<1>1. TokensTypeOK
  <2>1. 0 \in Times
    BY Numbers DEF Times
  <2>2. caller \in [Callers -> CallerStates]
    BY CallerRecords DEF TokensInit
  <2> QED BY <2>1, <2>2 DEF TokensInit, TokensTypeOK
<1>2. RowExists /\ Revocation /\ Deletion
    BY DEF TokensInit, RowExists, AtRow, Revocation, RevokedAreRefused, MarkLives,
           Deletion, UpdatesAreAsked, DeletedStaysInactive
<1> QED BY <1>1, <1>2 DEF IInv


\* What a step leaves to the types, and to the rows: a caller may reach a place
\* behind its first read only when there is a row.
RowStep ==
    /\ user' \in Rows \cup {None}
    /\ deleted' \in BOOLEAN
    /\ crossed' \in BOOLEAN
    /\ user # None => user' # None
    /\ deleted' => user' # None
CallerStep ==
    /\ caller' \in [Callers -> CallerStates]
    /\ \A c \in Callers : AtRow(c)' => AtRow(c) \/ user' # None
TokenStep ==
    /\ now' \in Times
    /\ issued' \in SUBSET TokenSet
    /\ blacklist' \in SUBSET TokenSet
    /\ mark' \in [at : Times, until : Nat] \cup {None}
    /\ revoked' \in SUBSET TokenSet
    /\ lapsed' \in SUBSET TokenSet

LEMMA Steps ==
    ASSUME TokensTypeOK, RowExists, RowStep, CallerStep, TokenStep
    PROVE  TokensTypeOK' /\ RowExists'
<1>1. TokensTypeOK'
    BY DEF TokensTypeOK, RowStep, CallerStep, TokenStep
<1>2. RowExists'
    BY DEF RowExists, RowStep, CallerStep
<1> QED BY <1>1, <1>2

LEMMA KeptTokens == ASSUME TokensTypeOK, KeepTokens PROVE TokenStep
BY DEF TokensTypeOK, KeepTokens, TokenStep

LEMMA KeptRow == ASSUME TokensTypeOK, RowExists, KeepRow PROVE RowStep
BY DEF TokensTypeOK, RowExists, KeepRow, RowStep

LEMMA KeptCallers == ASSUME TokensTypeOK, UNCHANGED caller PROVE CallerStep
BY DEF TokensTypeOK, CallerStep, AtRow

LEMMA MovedCaller ==
    ASSUME TokensTypeOK, NEW c \in Callers, NEW s \in CallerStates, Become(c, s),
           s.at \in {"idle", "create"} \/ user' # None
    PROVE  CallerStep
<1>1. caller' \in [Callers -> CallerStates]
    BY Moves
<1>2. ASSUME NEW d \in Callers, AtRow(d)' PROVE AtRow(d) \/ user' # None
  <2>1. CASE d = c
    BY <1>2, <2>1, Moves DEF AtRow
  <2>2. CASE d # c
    BY <1>2, <2>2, Moves DEF AtRow
  <2> QED BY <2>1, <2>2
<1> QED BY <1>1, <1>2 DEF CallerStep

LEMMA ReturnedCaller ==
    ASSUME TokensTypeOK, NEW c \in Callers, Return(c) PROVE CallerStep
BY MovedCaller, CallerRecords DEF Return

\* A row that is written, with `deleted` kept or set.
LEMMA WrittenRow ==
    ASSUME TokensTypeOK, user # None, user' \in Rows, deleted' \in BOOLEAN,
           crossed' \in BOOLEAN
    PROVE  RowStep
BY RowIsThere DEF RowStep

\* A token of now is a token, and so is what is left of a set of tokens.
LEMMA GeneratedTokens ==
    ASSUME TokensTypeOK, NEW rs \in SUBSET Roles, GenerateTokens(rs),
           UNCHANGED <<now, blacklist, mark, revoked, lapsed>>
    PROVE  TokenStep
<1>1. issued' \in SUBSET TokenSet
    BY DEF TokensTypeOK, GenerateTokens, TokenSet
<1> QED BY <1>1 DEF TokensTypeOK, TokenStep

-----------------------------------------------------------------------------
(* Handlers that create the account *)

LEMMA BeginCreateStep ==
    ASSUME TokensTypeOK, RowExists, NEW c \in Callers, NEW p \in Passwords,
           NEW rs \in SUBSET Roles, BeginCreate(c, p, rs)
    PROVE  TokensTypeOK' /\ RowExists'
<1>1. CallerStep
    BY MovedCaller, CallerRecords DEF BeginCreate
<1> QED BY <1>1, KeptTokens, KeptRow, Steps DEF BeginCreate

LEMMA CreateRowStep ==
    ASSUME TokensTypeOK, RowExists, NEW c \in Callers, CreateRow(c)
    PROVE  TokensTypeOK' /\ RowExists'
<1> DEFINE s == caller[c]
<1>1. s.password \in Passwords /\ s.roles \in SUBSET Roles
    BY CallerFields DEF CreateRow, TokensTypeOK
<1>2. TokenStep
    BY KeptTokens DEF CreateRow
<1>3. CASE /\ user = None
           /\ user' = [password |-> s.password, active |-> TRUE, roles |-> {}]
           /\ Become(c, [at |-> "assign", roles |-> s.roles])
           /\ UNCHANGED <<deleted, crossed>>
  <2>1. user' \in Rows
    BY <1>1, <1>3 DEF Rows
  <2>2. user' # None
    BY <2>1, RowIsThere
  <2>3. RowStep
    BY <1>3, <2>1, <2>2 DEF RowStep, TokensTypeOK
  <2>4. [at |-> "assign", roles |-> s.roles] \in CallerStates
    BY <1>1, CallerRecords
  <2>5. CallerStep
    BY <1>3, <2>2, <2>4, MovedCaller
  <2> QED BY <1>2, <2>3, <2>5, Steps
<1>4. CASE Return(c) /\ KeepRow
    BY <1>2, <1>4, ReturnedCaller, KeptRow, Steps
<1> QED BY <1>3, <1>4 DEF CreateRow

LEMMA AssignNextStep ==
    ASSUME TokensTypeOK, RowExists, NEW c \in Callers, AssignNext(c)
    PROVE  TokensTypeOK' /\ RowExists'
<1>1. TokenStep
    BY KeptTokens DEF AssignNext
<1>2. caller[c] \in CallerStates /\ caller[c].roles \in SUBSET Roles
    BY CallerFields DEF AssignNext, TokensTypeOK
<1>3. user # None
    BY DEF AssignNext, RowExists, AtRow
<1>4. user \in Rows
    BY <1>3 DEF TokensTypeOK
<1>5. PICK role \in caller[c].roles :
        /\ Become(c, IF caller[c].roles = {role} THEN [at |-> "reload"]
                     ELSE [caller[c] EXCEPT !.roles = @ \ {role}])
        /\ user' \in {user, [user EXCEPT !.roles = @ \cup {role}]}
    BY DEF AssignNext
<1>6. user' \in Rows
  <2>1. user.roles \cup {role} \in SUBSET Roles
    BY <1>2, <1>4, RowFields
  <2>2. [user EXCEPT !.roles = user.roles \cup {role}] \in Rows
    BY <1>4, <2>1 DEF Rows
  <2> QED BY <1>4, <1>5, <2>2
<1>7. RowStep
    BY <1>3, <1>6, WrittenRow DEF AssignNext, TokensTypeOK
<1>8. user' # None
    BY <1>6, RowIsThere
<1>9. CallerStep
  <2>1. CASE caller[c].roles = {role}
    BY <1>5, <1>8, <2>1, CallerRecords, MovedCaller
  <2>2. CASE caller[c].roles # {role}
    <3> DEFINE next == [caller[c] EXCEPT !.roles = @ \ {role}]
    <3>1. caller[c].roles \ {role} \in SUBSET Roles
        BY <1>2
    <3>2. next \in CallerStates
        BY <1>2, <3>1, CallerFields DEF AssignNext
    <3>3. Become(c, next)
        BY <1>5, <2>2
    <3> QED BY <1>8, <3>2, <3>3, MovedCaller
  <2> QED BY <2>1, <2>2
<1> QED BY <1>1, <1>7, <1>9, Steps

LEMMA ReloadStep ==
    ASSUME TokensTypeOK, RowExists, NEW c \in Callers, Reload(c)
    PROVE  TokensTypeOK' /\ RowExists'
BY ReturnedCaller, KeptRow, KeptTokens, Steps DEF Reload


-----------------------------------------------------------------------------
(* Tokens, and changes of the row *)

LEMMA BeginLoginStep ==
    ASSUME TokensTypeOK, RowExists, NEW c \in Callers, NEW p \in Passwords,
           BeginLogin(c, p)
    PROVE  TokensTypeOK' /\ RowExists'
<1>1. user \in Rows /\ user' = user
    BY DEF BeginLogin, TokensTypeOK, KeepRow
<1>2. [at |-> "generate", roles |-> user.roles] \in CallerStates
    BY <1>1, RowFields, CallerRecords
<1>3. user' # None
    BY <1>1, RowIsThere
<1>4. CallerStep
    BY <1>2, <1>3, MovedCaller DEF BeginLogin
<1> QED BY <1>4, KeptTokens, KeptRow, Steps DEF BeginLogin

LEMMA FinishLoginStep ==
    ASSUME TokensTypeOK, RowExists, NEW c \in Callers, FinishLogin(c)
    PROVE  TokensTypeOK' /\ RowExists'
<1>1. caller[c].roles \in SUBSET Roles
    BY CallerFields DEF FinishLogin, TokensTypeOK
<1>2. TokenStep
    BY <1>1, GeneratedTokens DEF FinishLogin
<1> QED BY <1>2, ReturnedCaller, KeptRow, Steps DEF FinishLogin

LEMMA RefreshTokenStep ==
    ASSUME TokensTypeOK, RowExists, NEW t \in issued, RefreshToken(t)
    PROVE  TokensTypeOK' /\ RowExists'
<1>1. t.roles \in SUBSET Roles
    BY DEF TokensTypeOK, TokenSet
<1>2. TokenStep
    BY <1>1, GeneratedTokens DEF RefreshToken
<1> QED BY <1>2, KeptCallers, KeptRow, Steps DEF RefreshToken

LEMMA LogoutStep ==
    ASSUME TokensTypeOK, RowExists, NEW t \in issued, Logout(t)
    PROVE  TokensTypeOK' /\ RowExists'
<1>1. TokenStep
    BY DEF Logout, TokensTypeOK, TokenStep
<1> QED BY <1>1, KeptCallers, KeptRow, Steps DEF Logout

LEMMA BeginChangePasswordStep ==
    ASSUME TokensTypeOK, RowExists, NEW c \in Callers, NEW old \in Passwords,
           NEW new \in Passwords, BeginChangePassword(c, old, new)
    PROVE  TokensTypeOK' /\ RowExists'
<1>1. CallerStep
    BY CallerRecords, MovedCaller DEF BeginChangePassword, KeepRow
<1> QED BY <1>1, KeptTokens, KeptRow, Steps DEF BeginChangePassword

LEMMA UpdatePasswordStep ==
    ASSUME TokensTypeOK, RowExists, NEW c \in Callers, UpdatePassword(c)
    PROVE  TokensTypeOK' /\ RowExists'
<1>1. caller[c].password \in Passwords
    BY CallerFields DEF UpdatePassword, TokensTypeOK
<1>2. user # None /\ user \in Rows
    BY DEF UpdatePassword, RowExists, AtRow, TokensTypeOK
<1>3. UNCHANGED <<deleted, crossed>> /\ TokenStep
    BY KeptTokens DEF UpdatePassword
<1>4. CASE /\ user' = [user EXCEPT !.password = caller[c].password]
           /\ Become(c, [at |-> "mark"])
  <2>1. user' \in Rows
    BY <1>1, <1>2, <1>4 DEF Rows
  <2>2. RowStep
    BY <1>2, <1>3, <2>1, WrittenRow DEF TokensTypeOK
  <2>3. CallerStep
    BY <1>4, <2>1, RowIsThere, CallerRecords, MovedCaller
  <2> QED BY <1>3, <2>2, <2>3, Steps
<1>5. CASE UNCHANGED user /\ Return(c)
    BY <1>3, <1>5, ReturnedCaller, KeptRow, Steps DEF KeepRow
<1> QED BY <1>4, <1>5 DEF UpdatePassword

LEMMA TakeTimeStep ==
    ASSUME TokensTypeOK, RowExists, NEW c \in Callers, TakeTime(c)
    PROVE  TokensTypeOK' /\ RowExists'
<1>1. [at |-> "set", second |-> now] \in CallerStates
    BY CallerRecords DEF TokensTypeOK
<1>2. user # None /\ user' = user
    BY DEF TakeTime, RowExists, AtRow, KeepRow
<1>3. CallerStep
    BY <1>1, <1>2, MovedCaller DEF TakeTime
<1> QED BY <1>3, KeptTokens, KeptRow, Steps DEF TakeTime

LEMMA SetMarkTypes ==
    ASSUME TokensTypeOK, NEW second \in Times, SetMark(second)
    PROVE  /\ mark' \in [at : Times, until : Nat]
           /\ lapsed' \in SUBSET TokenSet
BY Numbers DEF SetMark, TokensTypeOK, Times

LEMMA BlacklistStep ==
    ASSUME TokensTypeOK, RowExists, NEW c \in Callers, BlacklistUserTokens(c)
    PROVE  TokensTypeOK' /\ RowExists'
<1>1. caller[c].second \in Times
    BY CallerFields DEF BlacklistUserTokens, TokensTypeOK
<1>2. TokenStep
  <2>1. CASE SetMark(caller[c].second)
    <3>1. /\ mark' \in [at : Times, until : Nat]
          /\ lapsed' \in SUBSET TokenSet
        BY <1>1, <2>1, SetMarkTypes
    <3>2. revoked' \in SUBSET TokenSet
        BY DEF BlacklistUserTokens, TokensTypeOK
    <3> QED BY <3>1, <3>2 DEF BlacklistUserTokens, TokensTypeOK, TokenStep
  <2>2. CASE UNCHANGED <<mark, lapsed, revoked>>
    BY <2>2 DEF BlacklistUserTokens, TokensTypeOK, TokenStep
  <2> QED BY <2>1, <2>2 DEF BlacklistUserTokens
<1>3. CallerStep
    BY ReturnedCaller, KeptCallers DEF BlacklistUserTokens
<1> QED BY <1>2, <1>3, KeptRow, Steps DEF BlacklistUserTokens

LEMMA BeginUpdateStep ==
    ASSUME TokensTypeOK, RowExists, NEW c \in Callers, NEW a \in BOOLEAN \cup {None},
           BeginUpdate(c, a)
    PROVE  TokensTypeOK' /\ RowExists'
<1> DEFINE next == [at |-> "update", active |-> IF a = None THEN user.active ELSE a,
                    asked |-> a # None]
<1>1. user \in Rows /\ user' = user
    BY DEF BeginUpdate, TokensTypeOK, KeepRow
<1>2. (IF a = None THEN user.active ELSE a) \in BOOLEAN
    BY <1>1, RowFields
<1>3. (a # None) \in BOOLEAN
    OBVIOUS
<1>4. next \in CallerStates
    BY <1>2, <1>3, CallerRecords
<1>5. CallerStep
    BY <1>1, <1>4, RowIsThere, MovedCaller DEF BeginUpdate
<1> QED BY <1>5, KeptTokens, KeptRow, Steps DEF BeginUpdate

LEMMA UpdateRowStep ==
    ASSUME TokensTypeOK, RowExists, NEW c \in Callers, UpdateRow(c)
    PROVE  TokensTypeOK' /\ RowExists'
<1>1. caller[c].active \in BOOLEAN /\ caller[c].asked \in BOOLEAN
    BY CallerFields DEF UpdateRow, TokensTypeOK
<1>2. user # None /\ user \in Rows
    BY DEF UpdateRow, RowExists, AtRow, TokensTypeOK
<1>3. TokenStep /\ CallerStep
    BY KeptTokens, ReturnedCaller DEF UpdateRow
<1>4. CASE /\ user' = [user EXCEPT !.active = caller[c].active]
           /\ deleted' = (deleted /\ ~(caller[c].asked /\ caller[c].active))
           /\ UNCHANGED crossed
  <2>1. user' \in Rows
    BY <1>1, <1>2, <1>4 DEF Rows
  <2>2. deleted' \in BOOLEAN /\ crossed' \in BOOLEAN
    BY <1>4 DEF TokensTypeOK
  <2> QED BY <1>2, <1>3, <2>1, <2>2, WrittenRow, Steps
<1>5. CASE KeepRow
    BY <1>3, <1>5, KeptRow, Steps
<1> QED BY <1>4, <1>5 DEF UpdateRow

LEMMA DeleteUserStep ==
    ASSUME TokensTypeOK, RowExists, DeleteUser PROVE TokensTypeOK' /\ RowExists'
<1>1. user # None /\ user \in Rows
    BY DEF DeleteUser, TokensTypeOK
<1>2. user' \in Rows
    BY <1>1 DEF DeleteUser, Rows
<1>3. deleted' \in BOOLEAN /\ crossed' \in BOOLEAN
    BY DEF DeleteUser
<1> QED BY <1>1, <1>2, <1>3, WrittenRow, KeptTokens, KeptCallers, Steps DEF DeleteUser

LEMMA RoleStep ==
    ASSUME TokensTypeOK, RowExists, NEW role \in Roles, AssignRole(role) \/ RemoveRole(role)
    PROVE  TokensTypeOK' /\ RowExists'
<1>1. user # None /\ user \in Rows
    BY DEF AssignRole, RemoveRole, TokensTypeOK
<1>2. user' \in Rows
    BY <1>1 DEF AssignRole, RemoveRole, Rows
<1>3. UNCHANGED <<deleted, crossed, caller>> /\ KeepTokens
    BY DEF AssignRole, RemoveRole
<1>4. RowStep
    BY <1>1, <1>2, <1>3, WrittenRow DEF TokensTypeOK
<1> QED BY <1>3, <1>4, KeptTokens, KeptCallers, Steps

LEMMA TickStep ==
    ASSUME TokensTypeOK, RowExists, Tick PROVE TokensTypeOK' /\ RowExists'
<1>1. now' \in Times
    BY Numbers DEF Tick, TokensTypeOK, Times
<1>2. /\ issued' \in SUBSET TokenSet
      /\ blacklist' \in SUBSET TokenSet
      /\ revoked' \in SUBSET TokenSet
      /\ lapsed' \in SUBSET TokenSet
    BY DEF Tick, TokensTypeOK
<1>3. mark' \in [at : Times, until : Nat] \cup {None}
    BY DEF Tick, TokensTypeOK
<1>4. TokenStep
    BY <1>1, <1>2, <1>3 DEF TokenStep
<1> QED BY <1>4, KeptRow, KeptCallers, Steps DEF Tick

LEMMA LoseKeyStep ==
    ASSUME TokensTypeOK, RowExists, LoseKey PROVE TokensTypeOK' /\ RowExists'
<1>1. TokenStep
    BY DEF LoseKey, TokensTypeOK, TokenStep
<1> QED BY <1>1, KeptRow, KeptCallers, Steps DEF LoseKey

LEMMA NextKeepsTypes ==
    ASSUME TokensTypeOK, RowExists, [TokensNext]_accounts
    PROVE  TokensTypeOK' /\ RowExists'
<1>1. CASE UNCHANGED accounts
    BY <1>1 DEF accounts, TokensTypeOK, RowExists, AtRow
<1>2. CASE TokensNext
    BY <1>2, BeginCreateStep, CreateRowStep, AssignNextStep, ReloadStep, BeginLoginStep,
       FinishLoginStep, RefreshTokenStep, LogoutStep, BeginChangePasswordStep,
       UpdatePasswordStep, TakeTimeStep, BlacklistStep, BeginUpdateStep, UpdateRowStep, DeleteUserStep,
       RoleStep, LoseKeyStep, TickStep
    DEF TokensNext
<1> QED BY <1>1, <1>2


\* Every state is of the type the model states (UserService, AuthService).
THEOREM TypeCorrect == TokensSpec => []TokensTypeOK
<1>1. TokensInit => TokensTypeOK /\ RowExists
    BY InitHolds DEF IInv
<1>2. TokensTypeOK /\ RowExists /\ [TokensNext]_accounts => TokensTypeOK' /\ RowExists'
    BY NextKeepsTypes
<1> QED BY <1>1, <1>2, PTL DEF TokensSpec

-----------------------------------------------------------------------------
(* Revoked tokens *)

LEMMA TokenFields ==
    ASSUME NEW t \in TokenSet
    PROVE  t.type \in {"access", "refresh"} /\ t.issued \in Nat
BY Numbers DEF TokenSet, Times

LEMMA MarkFields ==
    ASSUME TokensTypeOK, mark # None
    PROVE  mark.at \in Nat /\ mark.until \in Nat
BY Numbers DEF TokensTypeOK, Times

LEMMA ClockIsNumber == TokensTypeOK => now \in Nat
BY Numbers DEF TokensTypeOK, Times

\* No handler reads the clock.
NoNewSecond == \A c \in Callers : caller'[c].at = "set" => caller'[c] = caller[c]

\* What leaves the clock and what was revoked alone, revokes nothing less.
LEMMA KeptRevocation ==
    ASSUME Revocation, UNCHANGED <<now, blacklist, mark, revoked, lapsed>>,
           NoNewSecond, issued \subseteq issued'
    PROVE  Revocation'
BY DEF Revocation, RevokedAreRefused, Refused, MarkLives, NoNewSecond

LEMMA NoSecond ==
    ASSUME TokensTypeOK, NEW c \in Callers, NEW s, Become(c, s), s.at # "set"
    PROVE  NoNewSecond
BY DEF NoNewSecond, Become, TokensTypeOK

LEMMA SameSecond == UNCHANGED caller => NoNewSecond
BY DEF NoNewSecond

LEMMA LogoutRevokes ==
    ASSUME Revocation, NEW t \in issued, Logout(t) PROVE Revocation'
BY DEF Logout, Revocation, RevokedAreRefused, Refused, MarkLives

LEMMA TakeTimeRevokes ==
    ASSUME TokensTypeOK, Revocation, NEW c \in Callers, TakeTime(c) PROVE Revocation'
<1>1. RevokedAreRefused' /\ revoked' \subseteq issued'
    BY DEF TakeTime, KeepTokens, Revocation, RevokedAreRefused, Refused
<1>2. MarkLives'
    BY ClockIsNumber DEF TakeTime, KeepTokens, Revocation, MarkLives, Become, TokensTypeOK
<1> QED BY <1>1, <1>2 DEF Revocation

\* The new mark refuses all that the mark before it refused, or says what it lets in.
LEMMA BlacklistRevokes ==
    ASSUME TokensTypeOK, Revocation, NEW c \in Callers, BlacklistUserTokens(c)
    PROVE  Revocation'
<1> DEFINE second == caller[c].second
           fresh == {t \in issued : t.issued < second}
<1>1. NoNewSecond
  <2>1. CASE Return(c)
    BY <2>1, NoSecond DEF Return
  <2>2. CASE UNCHANGED caller
    BY <2>2, SameSecond
  <2> QED BY <2>1, <2>2 DEF BlacklistUserTokens
<1>2. CASE UNCHANGED <<mark, lapsed, revoked>>
    BY <1>1, <1>2, KeptRevocation DEF BlacklistUserTokens
<1>3. CASE SetMark(second) /\ revoked' \in {revoked, revoked \cup fresh}
  <2>1. second \in Nat /\ second <= now /\ now \in Nat
    BY ClockIsNumber, CallerFields, Numbers
    DEF BlacklistUserTokens, Revocation, MarkLives, TokensTypeOK, Times
  <2>2. now' = now /\ blacklist' = blacklist /\ issued' = issued
    BY DEF BlacklistUserTokens
  <2> HIDE DEF second
  <2>3. mark' = [at |-> second, until |-> now + MarkTTL]
    BY <1>3 DEF SetMark
  <2>4. mark' # None
    BY <2>1, <2>3, Numbers, TokensAssumption
  <2>5. mark'.at = second /\ mark'.until = now + MarkTTL
    BY <2>3
  <2>6. MarkLives'
    <3>1. mark'.at + MarkTTL <= mark'.until
        BY <2>1, <2>5, Numbers
    <3> QED BY <1>1, <2>2, <3>1 DEF MarkLives, Revocation, NoNewSecond
  <2>7. revoked' \subseteq issued'
    BY <1>3, <2>2 DEF Revocation
  <2>8. ASSUME NEW t \in revoked' \ lapsed', t.type = "access" PROVE Refused(t)'
    <3>1. CASE t.issued < second
        BY <2>4, <2>5, <3>1 DEF Refused
    <3>2. CASE t \in blacklist
        BY <2>2, <3>2 DEF Refused
    <3>3. CASE ~(t.issued < second) /\ t \notin blacklist
      <4>1. t \in revoked /\ t \in issued
        BY <1>3, <2>8, <3>3 DEF Revocation
      <4>2. second <= t.issued
        BY <2>1, <3>3, <4>1, TokenFields DEF TokensTypeOK
      <4>3. t \notin lapsed /\ ~(mark # None /\ t.issued < mark.at)
        BY <1>3, <2>8, <3>3, <4>1, <4>2 DEF SetMark
      <4> QED
        BY <2>8, <3>3, <4>1, <4>3 DEF Revocation, RevokedAreRefused, Refused
    <3> QED BY <3>1, <3>2, <3>3
  <2> QED BY <2>6, <2>7, <2>8 DEF Revocation, RevokedAreRefused
<1> QED BY <1>2, <1>3 DEF BlacklistUserTokens

\* What expires with the mark had to be issued before it.
LEMMA TickRevokes ==
    ASSUME TokensTypeOK, Revocation, Tick PROVE Revocation'
<1>1. now \in Nat /\ now' = now + 1
    BY ClockIsNumber DEF Tick
<1>2. MarkLives'
  <2>1. mark' = mark \/ mark' = None
    BY DEF Tick
  <2>2. ASSUME NEW c \in Callers, caller'[c].at = "set" PROVE caller'[c].second <= now'
    <3>1. caller' = caller
        BY DEF Tick
    <3>2. caller[c].second \in Nat /\ caller[c].second <= now
        BY <2>2, <3>1, CallerFields, Numbers DEF Revocation, MarkLives, TokensTypeOK, Times
    <3> QED BY <1>1, <3>1, <3>2
  <2> QED BY <2>1, <2>2 DEF Revocation, MarkLives
<1>3. ASSUME NEW t \in revoked' \ lapsed', t.type = "access" PROVE Refused(t)'
  <2>1. t \in revoked /\ now' < t.issued + Lifetime(t)
    BY <1>3 DEF Tick
  <2>2. t.issued \in Nat /\ now' < t.issued + AccessTTL
    BY <1>3, <2>1, TokenFields DEF TokensTypeOK, Lifetime
  <2>3. CASE t \in blacklist
    BY <2>1, <2>3 DEF Tick, Refused
  <2>4. CASE mark # None /\ t.issued < mark.at
    <3>1. mark.at + MarkTTL <= mark.until /\ mark.at \in Nat /\ mark.until \in Nat
        BY <2>4, MarkFields DEF Revocation, MarkLives
    <3>2. ~(mark.until <= now')
        BY <1>1, <2>2, <2>4, <3>1, Numbers
    <3>3. mark' = mark
        BY <3>2 DEF Tick
    <3> QED BY <2>4, <3>3 DEF Refused
  <2>5. t \notin lapsed
    BY <1>3, <2>1 DEF Tick
  <2> QED BY <1>3, <2>1, <2>3, <2>4, <2>5 DEF Revocation, RevokedAreRefused, Refused
<1>4. revoked' \subseteq issued'
    BY DEF Tick, Revocation
<1> QED BY <1>2, <1>3, <1>4 DEF Revocation, RevokedAreRefused

\* What a lost key refused has lapsed, unless the other key refuses it too.
LEMMA LoseKeyRevokes ==
    ASSUME TokensTypeOK, Revocation, LoseKey PROVE Revocation'
<1>1. MarkLives'
  <2>1. (mark' = mark \/ mark' = None) /\ UNCHANGED <<now, caller>>
    BY DEF LoseKey
  <2> QED BY <2>1 DEF Revocation, MarkLives
<1>2. revoked' \subseteq issued' /\ revoked' = revoked /\ issued' = issued
    BY DEF LoseKey, Revocation
<1>3. ASSUME NEW t \in revoked' \ lapsed', t.type = "access" PROVE Refused(t)'
  <2>1. t \in revoked /\ t \in issued /\ t \notin lapsed
    BY <1>2, <1>3 DEF LoseKey
  <2>2. Refused(t)
    BY <1>3, <2>1 DEF Revocation, RevokedAreRefused
  <2>3. CASE \E u \in blacklist :
               /\ blacklist' = blacklist \ {u}
               /\ lapsed' = lapsed \cup
                    ({u} \ {v \in issued : mark # None /\ v.issued < mark.at})
               /\ UNCHANGED mark
    BY <1>3, <2>1, <2>2, <2>3 DEF Refused
  <2>4. CASE /\ mark # None /\ mark' = None
             /\ lapsed' = lapsed \cup {u \in issued \ blacklist : u.issued < mark.at}
             /\ UNCHANGED blacklist
    BY <1>3, <2>1, <2>2, <2>4 DEF Refused
  <2> QED BY <2>3, <2>4 DEF LoseKey
<1> QED BY <1>1, <1>2, <1>3 DEF Revocation, RevokedAreRefused

LEMMA NextKeepsRevocation ==
    ASSUME TokensTypeOK, Revocation, [TokensNext]_accounts PROVE Revocation'
<1>1. CASE UNCHANGED accounts
    BY <1>1, SameSecond, KeptRevocation DEF accounts
<1>2. ASSUME NEW c \in Callers, TakeTime(c) \/ BlacklistUserTokens(c) PROVE Revocation'
    BY <1>2, TakeTimeRevokes, BlacklistRevokes
<1>3. ASSUME NEW t \in issued, RefreshToken(t) \/ Logout(t) PROVE Revocation'
    BY <1>3, LogoutRevokes, SameSecond, KeptRevocation DEF RefreshToken, GenerateTokens
<1>4. CASE Tick
    BY <1>4, TickRevokes
<1>5. ASSUME NEW c \in Callers, FinishLogin(c) PROVE Revocation'
  <2>1. NoNewSecond
    BY <1>5, NoSecond DEF FinishLogin, Return
  <2> QED BY <1>5, <2>1, KeptRevocation DEF FinishLogin, GenerateTokens
<1>6. ASSUME KeepTokens, NoNewSecond PROVE Revocation'
    BY <1>6, KeptRevocation DEF KeepTokens
<1>7. ASSUME NEW c \in Callers, Return(c), KeepTokens PROVE Revocation'
    BY <1>6, <1>7, NoSecond DEF Return
<1>8. ASSUME UNCHANGED caller, KeepTokens PROVE Revocation'
    BY <1>6, <1>8, SameSecond
<1>9. ASSUME NEW c \in Callers, KeepTokens,
             NEW s, s.at # "set", Become(c, s)
      PROVE  Revocation'
    BY <1>6, <1>9, NoSecond
<1>10. ASSUME NEW c \in Callers, AssignNext(c) PROVE Revocation'
  <2>1. PICK role \in caller[c].roles :
            Become(c, IF caller[c].roles = {role} THEN [at |-> "reload"]
                      ELSE [caller[c] EXCEPT !.roles = @ \ {role}])
    BY <1>10 DEF AssignNext
  <2>2. [caller[c] EXCEPT !.roles = @ \ {role}].at = "assign"
    BY <1>10, CallerFields DEF AssignNext, TokensTypeOK
  <2>3. NoNewSecond
    BY <2>1, <2>2, NoSecond
  <2> QED BY <1>6, <1>10, <2>3 DEF AssignNext
<1>11. ASSUME NEW c \in Callers, NEW p \in Passwords, NEW rs \in SUBSET Roles,
              BeginCreate(c, p, rs)
       PROVE  Revocation'
    BY <1>9, <1>11 DEF BeginCreate
<1>12. ASSUME NEW c \in Callers, CreateRow(c) \/ Reload(c) \/ UpdatePassword(c)
              \/ UpdateRow(c)
       PROVE  Revocation'
    BY <1>7, <1>9, <1>12 DEF CreateRow, Reload, UpdatePassword, UpdateRow
<1>13. ASSUME NEW c \in Callers, NEW p \in Passwords, NEW q \in Passwords,
              BeginLogin(c, p) \/ BeginChangePassword(c, p, q)
       PROVE  Revocation'
    BY <1>9, <1>13 DEF BeginLogin, BeginChangePassword
<1>14. ASSUME NEW c \in Callers, NEW a \in BOOLEAN \cup {None}, BeginUpdate(c, a)
       PROVE  Revocation'
    BY <1>9, <1>14 DEF BeginUpdate
<1>15. ASSUME NEW role \in Roles, AssignRole(role) \/ RemoveRole(role) PROVE Revocation'
    BY <1>8, <1>15 DEF AssignRole, RemoveRole
<1>16. CASE DeleteUser
    BY <1>8, <1>16 DEF DeleteUser
<1>17. CASE LoseKey
    BY <1>17, LoseKeyRevokes
<1>18. CASE TokensNext
    BY <1>2, <1>3, <1>4, <1>5, <1>10, <1>11, <1>12, <1>13, <1>14, <1>15, <1>16, <1>17, <1>18
    DEF TokensNext
<1> QED BY <1>1, <1>18

\* An access token that was logged out, or issued in an earlier second than a
\* password change whose blacklisting succeeded, is refused from then on: its
\* own key lives as long as it does unless Redis loses it, and so does the mark of the
\* user, which moves back only when a password change writes the second it had read
\* before another wrote a newer one (Logout, ChangePassword, ValidateToken).
THEOREM RevokedIsRefused == TokensSpec => []RevokedStaysRefused
<1>1. TokensInit => TokensTypeOK /\ RowExists /\ Revocation
    BY InitHolds DEF IInv
<1>2. TokensTypeOK /\ RowExists /\ Revocation /\ [TokensNext]_accounts
        => TokensTypeOK' /\ RowExists' /\ Revocation'
    BY NextKeepsTypes, NextKeepsRevocation
<1>3. Revocation => RevokedStaysRefused
    BY DEF Revocation, RevokedAreRefused, Refused, RevokedStaysRefused, ValidateToken,
           Usable, IsTokenBlacklisted
<1> QED BY <1>1, <1>2, <1>3, PTL DEF TokensSpec

-----------------------------------------------------------------------------
(* Deleted accounts *)

\* A step that brings no handler to the write of a row keeps what is asked of
\* those that are there.
NoNewUpdate ==
    \A c \in Callers : caller'[c].at = "update" => caller'[c] = caller[c]

LEMMA KeptDeletion ==
    ASSUME Deletion, NoNewUpdate, UNCHANGED <<deleted, crossed>>,
           deleted => user'.active = user.active
    PROVE  Deletion'
BY DEF Deletion, NoNewUpdate, UpdatesAreAsked, DeletedStaysInactive

LEMMA MovedElsewhere ==
    ASSUME TokensTypeOK, NEW c \in Callers, NEW s, Become(c, s), s.at # "update"
    PROVE  NoNewUpdate
BY DEF TokensTypeOK, Become, NoNewUpdate

LEMMA KeptUpdates == ASSUME UNCHANGED caller PROVE NoNewUpdate
BY DEF NoNewUpdate

LEMMA ReturnedElsewhere ==
    ASSUME TokensTypeOK, NEW c \in Callers, Return(c) PROVE NoNewUpdate
BY MovedElsewhere DEF Return

LEMMA AssignNextDeletion ==
    ASSUME TokensTypeOK, RowExists, Deletion, NEW c \in Callers, AssignNext(c)
    PROVE  Deletion'
<1>1. user \in Rows
    BY DEF AssignNext, RowExists, AtRow, TokensTypeOK
<1>2. PICK role \in caller[c].roles :
        /\ Become(c, IF caller[c].roles = {role} THEN [at |-> "reload"]
                     ELSE [caller[c] EXCEPT !.roles = @ \ {role}])
        /\ user' \in {user, [user EXCEPT !.roles = @ \cup {role}]}
    BY DEF AssignNext
<1>3. user'.active = user.active
    BY <1>1, <1>2 DEF Rows
<1>4. NoNewUpdate
  <2>1. CASE caller[c].roles = {role}
    BY <1>2, <2>1, MovedElsewhere
  <2>2. CASE caller[c].roles # {role}
    <3> DEFINE next == [caller[c] EXCEPT !.roles = @ \ {role}]
    <3>1. caller[c] \in CallerStates /\ caller[c].roles \ {role} \in SUBSET Roles
        BY CallerFields DEF AssignNext, TokensTypeOK
    <3>2. next.at = "assign"
        BY <3>1, CallerFields DEF AssignNext
    <3>3. Become(c, next)
        BY <1>2, <2>2
    <3> HIDE DEF next
    <3> QED BY <3>2, <3>3, MovedElsewhere
  <2> QED BY <2>1, <2>2
<1> QED BY <1>3, <1>4, KeptDeletion DEF AssignNext

LEMMA UpdatePasswordDeletion ==
    ASSUME TokensTypeOK, RowExists, Deletion, NEW c \in Callers, UpdatePassword(c)
    PROVE  Deletion'
<1>1. user \in Rows
    BY DEF UpdatePassword, RowExists, AtRow, TokensTypeOK
<1>2. user'.active = user.active
    BY <1>1 DEF UpdatePassword, Rows
<1>3. NoNewUpdate
    BY MovedElsewhere, ReturnedElsewhere DEF UpdatePassword
<1> QED BY <1>2, <1>3, KeptDeletion DEF UpdatePassword

\* A handler that is not asked writes back what it read: an inactive row.
LEMMA BeginUpdateDeletion ==
    ASSUME TokensTypeOK, Deletion, NEW c \in Callers, NEW a \in BOOLEAN \cup {None},
           BeginUpdate(c, a)
    PROVE  Deletion'
<1> DEFINE next == [at |-> "update", active |-> IF a = None THEN user.active ELSE a,
                    asked |-> a # None]
<1>1. UNCHANGED <<user, deleted, crossed>>
    BY DEF BeginUpdate, KeepRow
<1>2. caller'[c] = next /\ \A d \in Callers \ {c} : caller'[d] = caller[d]
    BY DEF BeginUpdate, Become, TokensTypeOK
<1>3. DeletedStaysInactive'
    BY <1>1 DEF Deletion, DeletedStaysInactive
<1>4. ASSUME deleted, ~crossed, NEW d \in Callers, caller'[d].at = "update",
             caller'[d].active
      PROVE  caller'[d].asked
  <2>1. CASE d # c
    BY <1>2, <1>4, <2>1 DEF Deletion, UpdatesAreAsked
  <2>2. CASE d = c
    <3>1. ~user.active
        BY <1>4 DEF Deletion, DeletedStaysInactive
    <3>2. next.active = (IF a = None THEN user.active ELSE a) /\ next.asked = (a # None)
        OBVIOUS
    <3>3. a # None
        BY <1>2, <1>4, <2>2, <3>1, <3>2
    <3> QED BY <1>2, <2>2, <3>2, <3>3
  <2> QED BY <2>1, <2>2
<1>5. UpdatesAreAsked'
    BY <1>1, <1>4 DEF UpdatesAreAsked
<1> QED BY <1>3, <1>5 DEF Deletion

\* To write an active row after the deletion is to activate the account.
LEMMA UpdateRowDeletion ==
    ASSUME TokensTypeOK, RowExists, Deletion, NEW c \in Callers, UpdateRow(c)
    PROVE  Deletion'
<1>1. user \in Rows
    BY DEF UpdateRow, RowExists, AtRow, TokensTypeOK
<1>2. NoNewUpdate
    BY ReturnedElsewhere DEF UpdateRow
<1>3. CASE KeepRow
    BY <1>2, <1>3, KeptDeletion DEF KeepRow
<1>4. CASE /\ user' = [user EXCEPT !.active = caller[c].active]
           /\ deleted' = (deleted /\ ~(caller[c].asked /\ caller[c].active))
           /\ UNCHANGED crossed
  <2>1. UpdatesAreAsked'
    BY <1>2, <1>4 DEF Deletion, UpdatesAreAsked, NoNewUpdate
  <2>2. user'.active = caller[c].active
    BY <1>1, <1>4 DEF Rows
  <2>3. ASSUME deleted', ~crossed' PROVE ~caller[c].active
    BY <1>4, <2>3 DEF UpdateRow, Deletion, UpdatesAreAsked
  <2>4. DeletedStaysInactive'
    BY <2>2, <2>3 DEF DeletedStaysInactive
  <2> QED BY <2>1, <2>4 DEF Deletion
<1> QED BY <1>3, <1>4 DEF UpdateRow

LEMMA DeleteUserDeletion ==
    ASSUME TokensTypeOK, DeleteUser PROVE Deletion'
<1>1. user \in Rows
    BY DEF DeleteUser, TokensTypeOK
<1>2. user'.active = FALSE
    BY <1>1 DEF DeleteUser, Rows
<1>3. UpdatesAreAsked'
    BY DEF DeleteUser, UpdatesAreAsked
<1> QED BY <1>2, <1>3 DEF Deletion, DeletedStaysInactive

LEMMA RoleDeletion ==
    ASSUME TokensTypeOK, Deletion, NEW role \in Roles, AssignRole(role) \/ RemoveRole(role)
    PROVE  Deletion'
<1>1. user \in Rows
    BY DEF AssignRole, RemoveRole, TokensTypeOK
<1>2. user'.active = user.active
    BY <1>1 DEF AssignRole, RemoveRole, Rows
<1> QED BY <1>2, KeptUpdates, KeptDeletion DEF AssignRole, RemoveRole

\* There is no row to create when the account was deleted.
LEMMA CreateRowDeletion ==
    ASSUME TokensTypeOK, RowExists, Deletion, NEW c \in Callers, CreateRow(c)
    PROVE  Deletion'
<1>1. NoNewUpdate
    BY MovedElsewhere, ReturnedElsewhere DEF CreateRow
<1>2. UNCHANGED <<deleted, crossed>> /\ (deleted => user' = user)
    BY DEF CreateRow, KeepRow, RowExists
<1> QED BY <1>1, <1>2, KeptDeletion

\* Every other step keeps the row and brings nobody to an update.
LEMMA KeptRowDeletion ==
    ASSUME Deletion, KeepRow, NoNewUpdate PROVE Deletion'
BY KeptDeletion DEF KeepRow

LEMMA NextKeepsDeletion ==
    ASSUME TokensTypeOK, RowExists, Deletion, [TokensNext]_accounts PROVE Deletion'
<1>1. CASE UNCHANGED accounts
    BY <1>1, KeptRowDeletion, KeptUpdates DEF accounts, KeepRow
<1>2. ASSUME NEW c \in Callers, NEW p \in Passwords, NEW rs \in SUBSET Roles,
             BeginCreate(c, p, rs)
      PROVE  Deletion'
    BY <1>2, KeptRowDeletion, MovedElsewhere DEF BeginCreate
<1>3. ASSUME NEW c \in Callers,
             Reload(c) \/ FinishLogin(c) \/ BlacklistUserTokens(c)
      PROVE  Deletion'
    BY <1>3, KeptRowDeletion, ReturnedElsewhere, KeptUpdates
    DEF Reload, FinishLogin, BlacklistUserTokens
<1>4. ASSUME NEW c \in Callers, NEW p \in Passwords, BeginLogin(c, p) PROVE Deletion'
    BY <1>4, KeptRowDeletion, MovedElsewhere DEF BeginLogin
<1>5. ASSUME NEW c \in Callers, NEW old \in Passwords, NEW new \in Passwords,
             BeginChangePassword(c, old, new)
      PROVE  Deletion'
    BY <1>5, KeptRowDeletion, MovedElsewhere DEF BeginChangePassword
<1>6. ASSUME NEW t \in issued, RefreshToken(t) \/ Logout(t) PROVE Deletion'
    BY <1>6, KeptRowDeletion, KeptUpdates DEF RefreshToken, Logout
<1>7. CASE LoseKey \/ Tick
    BY <1>7, KeptRowDeletion, KeptUpdates DEF LoseKey, Tick
<1>8. ASSUME NEW c \in Callers, TakeTime(c) PROVE Deletion'
    BY <1>8, KeptRowDeletion, MovedElsewhere DEF TakeTime
<1>9. CASE TokensNext
    BY <1>2, <1>3, <1>4, <1>5, <1>6, <1>7, <1>8, <1>9, CreateRowDeletion, AssignNextDeletion,
       UpdatePasswordDeletion, BeginUpdateDeletion, UpdateRowDeletion, RoleDeletion,
       DeleteUserDeletion
    DEF TokensNext
<1> QED BY <1>1, <1>9

\* A deleted account stays inactive until an administrator activates it, unless
\* an update that had read the row before wrote it back (DeleteUser, UpdateUser,
\* UpdateProfile).
THEOREM DeletedIsInactive == TokensSpec => []DeletedStaysInactive
<1>1. TokensInit => IInv
    BY InitHolds
<1>2. IInv /\ [TokensNext]_accounts => IInv'
    BY NextKeepsTypes, NextKeepsRevocation, NextKeepsDeletion DEF IInv
<1>3. IInv => DeletedStaysInactive
    BY DEF IInv, Deletion
<1> QED BY <1>1, <1>2, <1>3, PTL DEF TokensSpec

-----------------------------------------------------------------------------
(* Sign-ins *)


\* A callback that is on the way to a session brings the state it came with.
Bears(s, st) ==
    /\ s.at \in {"exchange", "link", "linked", "email", "create", "write", "tokens", "reload"}
    /\ s.state = st

\* A callback that has read the row, or the link to it.
HasRead(s) ==
    s.at \in {"linked", "write", "tokens", "reload", "assign", "provisioned", "found",
              "sync", "change", "session"}

RowIsRead == (link \/ \E c \in SignIns : HasRead(callback[c])) => row # Nobody

StatesOnce ==
    \A st \in States :
        /\ sessions[st] < 2
        /\ stateStore[st] # "gone" =>
             sessions[st] = 0 /\ \A c \in SignIns : ~Bears(callback[c], st)
        /\ \A c \in SignIns : Bears(callback[c], st) =>
             sessions[st] = 0 /\ \A d \in SignIns : Bears(callback[d], st) => d = c

Undisturbed(s) == s.at \in {"change", "session"} /\ s.clean
Leads(s, roles) ==
    /\ s.at = "change" => s.add = s.groups \ roles /\ s.remove = roles \ s.groups
    /\ s.at = "session" => roles = s.groups
PlansLead ==
    \A c \in SignIns : Undisturbed(callback[c]) => Leads(callback[c], row.roles)

SignInIInv == SignInTypeOK /\ RowIsRead /\ StatesOnce /\ PlansLead

-----------------------------------------------------------------------------
(* Callbacks and rows *)

\* What a callback carries, by where it is, and where it may go with it.
LEMMA BearerFields ==
    ASSUME NEW s \in Callbacks, s.at \in {"exchange", "link", "linked", "email", "create"}
    PROVE  /\ s.state \in States
           /\ \A at \in {"exchange", "link", "linked", "email", "create"} :
                /\ [s EXCEPT !.at = at] \in Callbacks
                /\ [s EXCEPT !.at = at].at = at
                /\ [s EXCEPT !.at = at].state = s.state
BY DEF Callbacks

LEMMA ReaderFields ==
    ASSUME NEW s \in Callbacks, s.at \in {"write", "tokens", "reload"}
    PROVE  /\ s.state \in States
           /\ s.active \in BOOLEAN
           /\ \A at \in {"write", "tokens", "reload"} :
                /\ [s EXCEPT !.at = at] \in Callbacks
                /\ [s EXCEPT !.at = at].at = at
                /\ [s EXCEPT !.at = at].state = s.state
BY DEF Callbacks

LEMMA NewcomerFields ==
    ASSUME NEW s \in Callbacks, s.at \in {"assertion", "provision", "assign", "provisioned"}
    PROVE  /\ s.groups \in SUBSET RoleNames
           /\ \A at \in {"assertion", "provision", "assign", "provisioned"} :
                /\ [s EXCEPT !.at = at] \in Callbacks
                /\ [s EXCEPT !.at = at].at = at
BY DEF Callbacks

LEMMA FoundFields ==
    ASSUME NEW s \in Callbacks, s.at \in {"found", "sync"}
    PROVE  /\ s.groups \in SUBSET RoleNames
           /\ s.active \in BOOLEAN
           /\ \A at \in {"found", "sync"} :
                /\ [s EXCEPT !.at = at] \in Callbacks
                /\ [s EXCEPT !.at = at].at = at
BY DEF Callbacks

LEMMA PlanFields ==
    ASSUME NEW s \in Callbacks, s.at \in {"change", "session"}
    PROVE  /\ s.groups \in SUBSET RoleNames
           /\ s.add \in SUBSET RoleNames
           /\ s.remove \in SUBSET RoleNames
           /\ s.clean \in BOOLEAN
           /\ \A at \in {"change", "session"} :
                LET t == [s EXCEPT !.at = at] IN
                /\ t \in Callbacks /\ t.at = at
                /\ t.groups = s.groups /\ t.add = s.add /\ t.remove = s.remove
                /\ t.clean = s.clean
BY DEF Callbacks

\* A plan loses a role that was tried, and is unclean when it was disturbed.
LEMMA PlanMoves ==
    ASSUME NEW s \in Callbacks, s.at \in {"change", "session"}
    PROVE  /\ [s EXCEPT !.clean = FALSE] \in Callbacks
           /\ [s EXCEPT !.clean = FALSE].at = s.at
           /\ [s EXCEPT !.clean = FALSE].clean = FALSE
           /\ \A X \in SUBSET RoleNames :
                LET t == [s EXCEPT !.add = X]
                    u == [s EXCEPT !.remove = X] IN
                /\ t \in Callbacks /\ t.at = s.at /\ t.clean = s.clean /\ t.groups = s.groups
                /\ t.add = X /\ t.remove = s.remove
                /\ u \in Callbacks /\ u.at = s.at /\ u.clean = s.clean /\ u.groups = s.groups
                /\ u.add = s.add /\ u.remove = X
BY DEF Callbacks

LEMMA CallbackRecords ==
    /\ [at |-> "idle"] \in Callbacks
    /\ \A st \in States : [at |-> "exchange", state |-> st] \in Callbacks
    /\ \A at \in {"write", "tokens", "reload"}, st \in States, a \in BOOLEAN :
         [at |-> at, state |-> st, active |-> a] \in Callbacks
    /\ \A G \in SUBSET RoleNames : [at |-> "assertion", groups |-> G] \in Callbacks
    /\ \A at \in {"found", "sync"}, G \in SUBSET RoleNames, a \in BOOLEAN :
         [at |-> at, groups |-> G, active |-> a] \in Callbacks
    /\ \A at \in {"change", "session"}, G, A, R \in SUBSET RoleNames, a, b \in BOOLEAN :
         [at |-> at, groups |-> G, active |-> a, add |-> A, remove |-> R, clean |-> b]
            \in Callbacks
BY DEF Callbacks

LEMMA PersonFields ==
    ASSUME NEW r \in People
    PROVE  /\ r # Nobody
           /\ r.active \in BOOLEAN /\ r.roles \in SUBSET RoleNames
           /\ \A a \in BOOLEAN : /\ [r EXCEPT !.active = a] \in People
                                 /\ [r EXCEPT !.active = a].roles = r.roles
           /\ \A R \in SUBSET RoleNames : /\ [r EXCEPT !.roles = R] \in People
                                          /\ [r EXCEPT !.roles = R].roles = R
BY SignInAssumption DEF People

LEMMA NewPerson == NewRow \in People
BY DEF NewRow, People

\* One callback moves, the others stay.
LEMMA Turns ==
    ASSUME SignInTypeOK, NEW c \in SignIns, NEW s, Turn(c, s)
    PROVE  /\ callback'[c] = s
           /\ \A d \in SignIns \ {c} : callback'[d] = callback[d]
           /\ s \in Callbacks => callback' \in [SignIns -> Callbacks]
BY DEF SignInTypeOK, Turn

-----------------------------------------------------------------------------
(* What a step leaves *)

\* Only a new callback brings a state that was not brought before.
NoNewBearer ==
    \A d \in SignIns, st \in States : Bears(callback'[d], st) => Bears(callback[d], st)

\* A plan that leads to the groups afterwards did so before.
NoNewPlan ==
    \A d \in SignIns : Undisturbed(callback'[d]) =>
        /\ callback'[d] = callback[d]
        /\ row'.roles = row.roles

\* A person, once there, stays, and whoever has read the row had a row to read.
RowStays ==
    /\ row' \in People \cup {Nobody}
    /\ row # Nobody => row' # Nobody
    /\ link' \in BOOLEAN
    /\ link' => link \/ row' # Nobody
    /\ \A d \in SignIns : HasRead(callback'[d]) => HasRead(callback[d]) \/ row' # Nobody

LEMMA QuietStep ==
    ASSUME SignInIInv, KeepStates, callback' \in [SignIns -> Callbacks],
           NoNewBearer, RowStays
    PROVE  SignInTypeOK' /\ RowIsRead' /\ StatesOnce'
<1>1. SignInTypeOK'
    BY DEF SignInIInv, SignInTypeOK, KeepStates, RowStays
<1>2. RowIsRead'
    BY DEF SignInIInv, RowIsRead, RowStays
<1>3. StatesOnce'
    BY DEF SignInIInv, StatesOnce, KeepStates, NoNewBearer
<1> QED BY <1>1, <1>2, <1>3

LEMMA KeptPlans == ASSUME SignInIInv, NoNewPlan PROVE PlansLead'
BY DEF SignInIInv, PlansLead, NoNewPlan

\* The move of one callback that neither brings a state of its own nor plans.
LEMMA QuietTurn ==
    ASSUME SignInIInv, KeepStates, NEW c \in SignIns, NEW s \in Callbacks, Turn(c, s),
           \A st \in States : Bears(s, st) => Bears(callback[c], st),
           HasRead(s) => HasRead(callback[c]) \/ row' # Nobody,
           row' \in People \cup {Nobody}, row # Nobody => row' # Nobody,
           link' \in BOOLEAN, link' => link \/ row' # Nobody
    PROVE  SignInTypeOK' /\ RowIsRead' /\ StatesOnce'
<1>1. callback' \in [SignIns -> Callbacks] /\ callback'[c] = s
      /\ \A d \in SignIns \ {c} : callback'[d] = callback[d]
    BY Turns DEF SignInIInv
<1>2. NoNewBearer
    BY <1>1 DEF NoNewBearer
<1>3. RowStays
  <2>1. \A d \in SignIns : HasRead(callback'[d]) => HasRead(callback[d]) \/ row' # Nobody
    BY <1>1
  <2> QED BY <2>1 DEF RowStays
<1> QED BY <1>1, <1>2, <1>3, QuietStep

LEMMA SimpleTurn ==
    ASSUME SignInIInv, KeepStates, NEW c \in SignIns, NEW s \in Callbacks, Turn(c, s),
           \A st \in States : Bears(s, st) => Bears(callback[c], st),
           HasRead(s) => HasRead(callback[c]) \/ row' # Nobody,
           row' \in People \cup {Nobody}, row # Nobody => row' # Nobody,
           link' \in BOOLEAN, link' => link \/ row' # Nobody,
           ~Undisturbed(s),
           row # Nobody => row'.roles = row.roles
    PROVE  SignInIInv'
<1>1. SignInTypeOK' /\ RowIsRead' /\ StatesOnce'
    BY QuietTurn
<1>2. NoNewPlan
  <2> SUFFICES ASSUME NEW d \in SignIns, Undisturbed(callback'[d])
               PROVE  callback'[d] = callback[d] /\ row'.roles = row.roles
    BY DEF NoNewPlan
  <2>1. d # c /\ callback'[d] = callback[d]
    BY Turns DEF SignInIInv
  <2>2. HasRead(callback[d])
    BY <2>1 DEF Undisturbed, HasRead
  <2>3. row # Nobody
    BY <2>2 DEF SignInIInv, RowIsRead
  <2> QED BY <2>1, <2>3
<1> QED BY <1>1, <1>2, KeptPlans DEF SignInIInv

\* A callback that gives up, or moves on without touching the row.
LEMMA Leaving ==
    ASSUME SignInIInv, KeepStates, NEW c \in SignIns, Leave(c), UNCHANGED <<row, link>>
    PROVE  SignInIInv'
<1> DEFINE s == [at |-> "idle"]
<1>1. s \in Callbacks /\ Turn(c, s)
    BY CallbackRecords DEF Leave
<1>2. ~HasRead(s) /\ ~Undisturbed(s) /\ \A st \in States : ~Bears(s, st)
    BY DEF HasRead, Undisturbed, Bears
<1>3. row \in People \cup {Nobody} /\ link \in BOOLEAN
    BY DEF SignInIInv, SignInTypeOK
<1> HIDE DEF s
<1> QED BY <1>1, <1>2, <1>3, SimpleTurn

LEMMA Going ==
    ASSUME SignInIInv, KeepStates, NEW c \in SignIns, NEW s \in Callbacks, Turn(c, s),
           UNCHANGED <<row, link>>,
           \A st \in States : Bears(s, st) => Bears(callback[c], st),
           HasRead(s) => HasRead(callback[c]) \/ link \/ row # Nobody,
           ~Undisturbed(s)
    PROVE  SignInIInv'
<1>1. row \in People \cup {Nobody} /\ link \in BOOLEAN
    BY DEF SignInIInv, SignInTypeOK
<1>2. HasRead(s) => HasRead(callback[c]) \/ row' # Nobody
    BY DEF SignInIInv, RowIsRead
<1> QED BY <1>1, <1>2, SimpleTurn

-----------------------------------------------------------------------------
(* OAuth *)

LEMMA ExchangeStep ==
    ASSUME SignInIInv, NEW c \in SignIns, Exchange(c) PROVE SignInIInv'
<1> DEFINE me == callback[c]
           s == [me EXCEPT !.at = "link"]
<1>1. me \in Callbacks /\ me.at = "exchange"
    BY DEF Exchange, At, SignInIInv, SignInTypeOK
<1>2. s \in Callbacks /\ s.at = "link" /\ s.state = me.state
    BY <1>1, BearerFields
<1>3. CASE GoOn(c, "link")
  <2>1. Turn(c, s)
    BY <1>3 DEF GoOn
  <2>2. ~HasRead(s) /\ ~Undisturbed(s) /\ \A st \in States : Bears(s, st) => Bears(me, st)
    BY <1>1, <1>2 DEF HasRead, Undisturbed, Bears
  <2> HIDE DEF s
  <2> QED BY <1>2, <2>1, <2>2, Going DEF Exchange
<1>4. CASE Leave(c)
    BY <1>4, Leaving DEF Exchange
<1> QED BY <1>3, <1>4 DEF Exchange

LEMMA LookupLinkStep ==
    ASSUME SignInIInv, NEW c \in SignIns, LookupLink(c) PROVE SignInIInv'
<1> DEFINE me == callback[c]
<1>1. me \in Callbacks /\ me.at = "link"
    BY DEF LookupLink, At, SignInIInv, SignInTypeOK
<1>2. CASE link /\ GoOn(c, "linked")
  <2> DEFINE s == [me EXCEPT !.at = "linked"]
  <2>1. s \in Callbacks /\ s.at = "linked" /\ s.state = me.state
    BY <1>1, BearerFields
  <2>2. Turn(c, s)
    BY <1>2 DEF GoOn
  <2>3. ~Undisturbed(s) /\ \A st \in States : Bears(s, st) => Bears(me, st)
    BY <1>1, <2>1 DEF Undisturbed, Bears
  <2> HIDE DEF s
  <2> QED BY <1>2, <2>1, <2>2, <2>3, Going DEF LookupLink
<1>3. CASE GoOn(c, "email")
  <2> DEFINE s == [me EXCEPT !.at = "email"]
  <2>1. s \in Callbacks /\ s.at = "email" /\ s.state = me.state
    BY <1>1, BearerFields
  <2>2. Turn(c, s)
    BY <1>3 DEF GoOn
  <2>3. ~HasRead(s) /\ ~Undisturbed(s) /\ \A st \in States : Bears(s, st) => Bears(me, st)
    BY <1>1, <2>1 DEF HasRead, Undisturbed, Bears
  <2> HIDE DEF s
  <2> QED BY <2>1, <2>2, <2>3, Going DEF LookupLink
<1> QED BY <1>2, <1>3 DEF LookupLink

\* On with a row that was read.
LEMMA WithRowStep ==
    ASSUME SignInIInv, KeepStates, NEW c \in SignIns, UNCHANGED link,
           NEW at \in {"write", "tokens"}, NEW r \in People, WithRow(c, at, r),
           callback[c].at \in {"exchange", "link", "linked", "email", "create"},
           row' = r,
           row # Nobody => row' = row
    PROVE  SignInIInv'
<1> DEFINE me == callback[c]
           s == [at |-> at, state |-> me.state, active |-> r.active]
<1>1. me \in Callbacks /\ me.state \in States
    BY BearerFields DEF SignInIInv, SignInTypeOK
<1>2. r # Nobody /\ r.active \in BOOLEAN
    BY PersonFields
<1>3. s \in Callbacks /\ s.at = at /\ s.state = me.state
    BY <1>1, <1>2, CallbackRecords
<1>4. Turn(c, s)
    BY DEF WithRow
<1>5. ~Undisturbed(s) /\ \A st \in States : Bears(s, st) => Bears(me, st)
    BY <1>3 DEF Undisturbed, Bears
<1>6. link' \in BOOLEAN /\ (link' => link)
    BY DEF SignInIInv, SignInTypeOK
<1> HIDE DEF s
<1> QED BY <1>2, <1>3, <1>4, <1>5, <1>6, SimpleTurn

LEMMA ReadLinkedStep ==
    ASSUME SignInIInv, NEW c \in SignIns, ReadLinked(c) PROVE SignInIInv'
<1>1. row # Nobody /\ row \in People
    BY DEF ReadLinked, At, SignInIInv, RowIsRead, HasRead, SignInTypeOK
<1>2. CASE WithRow(c, "write", row) \/ WithRow(c, "tokens", row)
    BY <1>1, <1>2, WithRowStep DEF ReadLinked, At
<1>3. CASE Leave(c)
    BY <1>3, Leaving DEF ReadLinked
<1> QED BY <1>2, <1>3 DEF ReadLinked

LEMMA LookupEmailStep ==
    ASSUME SignInIInv, NEW c \in SignIns, LookupEmail(c) PROVE SignInIInv'
<1> DEFINE me == callback[c]
           s == [me EXCEPT !.at = "create"]
<1>1. CASE row # Nobody /\ WithRow(c, "tokens", row)
  <2>1. row \in People
    BY <1>1 DEF SignInIInv, SignInTypeOK
  <2> QED BY <1>1, <2>1, WithRowStep DEF LookupEmail, At
<1>2. CASE GoOn(c, "create")
  <2>1. me \in Callbacks /\ me.at = "email"
    BY DEF LookupEmail, At, SignInIInv, SignInTypeOK
  <2>2. s \in Callbacks /\ s.at = "create" /\ s.state = me.state
    BY <2>1, BearerFields
  <2>3. Turn(c, s)
    BY <1>2 DEF GoOn
  <2>4. ~HasRead(s) /\ ~Undisturbed(s) /\ \A st \in States : Bears(s, st) => Bears(me, st)
    BY <2>1, <2>2 DEF HasRead, Undisturbed, Bears
  <2> HIDE DEF s
  <2> QED BY <2>2, <2>3, <2>4, Going DEF LookupEmail
<1> QED BY <1>1, <1>2 DEF LookupEmail

LEMMA CreateUserStep ==
    ASSUME SignInIInv, NEW c \in SignIns, CreateUser(c) PROVE SignInIInv'
<1>1. CASE row = Nobody /\ row' = NewRow /\ WithRow(c, "tokens", NewRow)
    BY <1>1, NewPerson, WithRowStep DEF CreateUser, At
<1>2. CASE Leave(c) /\ UNCHANGED row
    BY <1>2, Leaving DEF CreateUser
<1> QED BY <1>1, <1>2 DEF CreateUser

\* What a callback writes back changes no role.
LEMMA WrittenBack ==
    ASSUME SignInIInv, NEW c \in SignIns, HasRead(callback[c]),
           callback[c].active \in BOOLEAN, WriteBack(c) \/ UNCHANGED row
    PROVE  row' \in People /\ row' # Nobody /\ row'.roles = row.roles
<1>1. row \in People
    BY DEF SignInIInv, RowIsRead, SignInTypeOK
<1>2. CASE WriteBack(c)
  <2> DEFINE a == callback[c].active
  <2>1. row' = [row EXCEPT !.active = a]
    BY <1>2 DEF WriteBack
  <2> HIDE DEF a
  <2>2. a \in BOOLEAN
    BY DEF a
  <2>3. [row EXCEPT !.active = a] \in People /\ [row EXCEPT !.active = a].roles = row.roles
    BY <1>1, <2>2, PersonFields
  <2> QED BY <2>1, <2>3, PersonFields
<1>3. CASE UNCHANGED row
    BY <1>1, <1>3, PersonFields
<1> QED BY <1>2, <1>3

LEMMA WriteLinkedStep ==
    ASSUME SignInIInv, NEW c \in SignIns, WriteLinked(c) PROVE SignInIInv'
<1> DEFINE me == callback[c]
           s == [me EXCEPT !.at = "tokens"]
<1>1. me \in Callbacks /\ me.at = "write"
    BY DEF WriteLinked, At, SignInIInv, SignInTypeOK
<1>2. me.active \in BOOLEAN /\ s \in Callbacks /\ s.at = "tokens" /\ s.state = me.state
    BY <1>1, ReaderFields
<1>3. HasRead(me) /\ ~Undisturbed(s) /\ \A st \in States : Bears(s, st) => Bears(me, st)
    BY <1>1, <1>2 DEF HasRead, Undisturbed, Bears
<1>4. Turn(c, s)
    BY DEF WriteLinked, GoOn
<1>5. row' \in People /\ row' # Nobody /\ row'.roles = row.roles
    BY <1>2, <1>3, WrittenBack DEF WriteLinked
<1>6. link' \in BOOLEAN /\ (link' => link)
    BY DEF WriteLinked, SignInIInv, SignInTypeOK
<1> HIDE DEF s
<1> QED BY <1>2, <1>3, <1>4, <1>5, <1>6, SimpleTurn DEF WriteLinked

LEMMA StoreOAuthTokensStep ==
    ASSUME SignInIInv, NEW c \in SignIns, StoreOAuthTokens(c) PROVE SignInIInv'
<1> DEFINE me == callback[c]
<1>1. me \in Callbacks /\ me.at = "tokens"
    BY DEF StoreOAuthTokens, At, SignInIInv, SignInTypeOK
<1>2. HasRead(me)
    BY <1>1 DEF HasRead
<1>3. row' = row /\ row # Nobody /\ row \in People /\ link' \in BOOLEAN
    BY <1>2 DEF StoreOAuthTokens, SignInIInv, RowIsRead, SignInTypeOK
<1>4. PICK s \in Callbacks :
        /\ Turn(c, s)
        /\ s.at = "idle" \/ (s.at = "reload" /\ s.state = me.state)
  <2>1. CASE me.active
    <3> DEFINE t == [me EXCEPT !.at = "reload"]
    <3>1. t \in Callbacks /\ t.at = "reload" /\ t.state = me.state
        BY <1>1, ReaderFields
    <3>2. Turn(c, t)
        BY <2>1 DEF StoreOAuthTokens, GoOn
    <3> HIDE DEF t
    <3> QED BY <3>1, <3>2
  <2>2. CASE ~me.active
    BY <2>2, CallbackRecords DEF StoreOAuthTokens, Leave
  <2> QED BY <2>1, <2>2
<1>5. ~Undisturbed(s) /\ \A st \in States : Bears(s, st) => Bears(me, st)
    BY <1>1, <1>4 DEF Undisturbed, Bears
<1> QED BY <1>3, <1>4, <1>5, SimpleTurn DEF StoreOAuthTokens

\* validateState takes the state out of the map, fresh or old.
LEMMA ValidateStateStep ==
    ASSUME SignInIInv, NEW c \in SignIns, NEW st \in States, ValidateState(c, st)
    PROVE  SignInIInv'
<1> DEFINE s == [at |-> "exchange", state |-> st]
<1>1. stateStore \in [States -> {"new", "fresh", "old", "gone"}] /\ callback[c].at = "idle"
      /\ callback \in [SignIns -> Callbacks]
    BY DEF ValidateState, At, SignInIInv, SignInTypeOK
<1>2. /\ stateStore[st] # "gone"
      /\ stateStore'[st] = "gone"
      /\ \A x \in States \ {st} : stateStore'[x] = stateStore[x]
      /\ stateStore' \in [States -> {"new", "fresh", "old", "gone"}]
    BY <1>1 DEF ValidateState
<1>3. sessions[st] = 0 /\ \A d \in SignIns : ~Bears(callback[d], st)
    BY <1>2 DEF SignInIInv, StatesOnce
<1>4. UNCHANGED <<row, link, sessions>>
    BY DEF ValidateState
<1>5. /\ callback' \in [SignIns -> Callbacks]
      /\ \A d \in SignIns \ {c} : callback'[d] = callback[d]
      /\ callback'[c] \in {s, callback[c]}
    BY <1>1, CallbackRecords, Turns DEF ValidateState, SignInIInv
<1>6. ~HasRead(callback'[c]) /\ ~Undisturbed(callback'[c])
      /\ \A x \in States : Bears(callback'[c], x) => x = st
    BY <1>1, <1>5 DEF HasRead, Undisturbed, Bears
<1>7. SignInTypeOK'
    BY <1>2, <1>4, <1>5 DEF SignInIInv, SignInTypeOK
<1>8. RowIsRead'
    BY <1>4, <1>5, <1>6 DEF SignInIInv, RowIsRead
<1>9. PlansLead'
    BY <1>4, <1>5, <1>6 DEF SignInIInv, PlansLead
<1>10. StatesOnce'
  <2> SUFFICES ASSUME NEW x \in States
               PROVE  /\ sessions'[x] < 2
                      /\ stateStore'[x] # "gone" =>
                           sessions'[x] = 0 /\ \A d \in SignIns : ~Bears(callback'[d], x)
                      /\ \A d \in SignIns : Bears(callback'[d], x) =>
                           /\ sessions'[x] = 0
                           /\ \A e \in SignIns : Bears(callback'[e], x) => e = d
    BY DEF StatesOnce
  <2>1. CASE x = st
    BY <1>2, <1>3, <1>4, <1>5, <2>1
  <2>2. CASE x # st
    BY <1>2, <1>4, <1>5, <1>6, <2>2 DEF SignInIInv, StatesOnce
  <2> QED BY <2>1, <2>2
<1> QED BY <1>7, <1>8, <1>9, <1>10 DEF SignInIInv

\* The one who brings a state leaves with its session.
LEMMA ReloadAndFinishStep ==
    ASSUME SignInIInv, NEW c \in SignIns, ReloadAndFinish(c) PROVE SignInIInv'
<1> DEFINE me == callback[c]
           s == [at |-> "idle"]
<1>1. me \in Callbacks /\ me.at = "reload"
    BY DEF ReloadAndFinish, At, SignInIInv, SignInTypeOK
<1>2. me.state \in States
    BY <1>1, ReaderFields
<1>3. s \in Callbacks /\ ~HasRead(s) /\ ~Undisturbed(s)
      /\ \A st \in States : ~Bears(s, st)
    BY CallbackRecords DEF HasRead, Undisturbed, Bears
<1>4. callback' \in [SignIns -> Callbacks] /\ callback'[c] = s
      /\ \A d \in SignIns \ {c} : callback'[d] = callback[d]
    BY <1>3, Turns DEF ReloadAndFinish, Leave, SignInIInv
<1> HIDE DEF s
<1>5. UNCHANGED <<stateStore, row, link>>
    BY DEF ReloadAndFinish
<1>6. /\ sessions[me.state] = 0
      /\ stateStore[me.state] = "gone"
      /\ \A d \in SignIns \ {c} : ~Bears(callback[d], me.state)
    BY <1>1, <1>2 DEF Bears, SignInIInv, StatesOnce
<1>7. /\ sessions' \in [States -> 0..2]
      /\ sessions'[me.state] < 2
      /\ \A x \in States \ {me.state} : sessions'[x] = sessions[x]
  <2>1. sessions \in [States -> 0..2]
    BY DEF SignInIInv, SignInTypeOK
  <2> QED BY <1>2, <1>6, <2>1 DEF ReloadAndFinish
<1>8. SignInTypeOK'
    BY <1>4, <1>5, <1>7 DEF SignInIInv, SignInTypeOK
<1>9. RowIsRead'
    BY <1>3, <1>4, <1>5 DEF SignInIInv, RowIsRead
<1>10. PlansLead'
    BY <1>3, <1>4, <1>5 DEF SignInIInv, PlansLead
<1>11. StatesOnce'
  <2> SUFFICES ASSUME NEW x \in States
               PROVE  /\ sessions'[x] < 2
                      /\ stateStore'[x] # "gone" =>
                           sessions'[x] = 0 /\ \A d \in SignIns : ~Bears(callback'[d], x)
                      /\ \A d \in SignIns : Bears(callback'[d], x) =>
                           /\ sessions'[x] = 0
                           /\ \A e \in SignIns : Bears(callback'[e], x) => e = d
    BY DEF StatesOnce
  <2>1. CASE x = me.state
    BY <1>3, <1>4, <1>5, <1>6, <1>7, <2>1
  <2>2. CASE x # me.state
    BY <1>3, <1>4, <1>5, <1>7, <2>2 DEF SignInIInv, StatesOnce
  <2> QED BY <2>1, <2>2
<1> QED BY <1>8, <1>9, <1>10, <1>11 DEF SignInIInv

LEMMA GenerateStateStep ==
    ASSUME SignInIInv, NEW st \in States, GenerateState(st) \/ Age(st)
    PROVE  SignInIInv'
<1>1. UNCHANGED <<row, link, callback, sessions>>
    BY DEF GenerateState, Age
<1>2. /\ stateStore' \in [States -> {"new", "fresh", "old", "gone"}]
      /\ \A x \in States : stateStore'[x] # "gone" => stateStore[x] # "gone"
    BY DEF GenerateState, Age, SignInIInv, SignInTypeOK
<1> QED BY <1>1, <1>2 DEF SignInIInv, SignInTypeOK, RowIsRead, StatesOnce, PlansLead

\* Everything in flight is lost, and so is every state that was made.
LEMMA RestartStep ==
    ASSUME SignInIInv, Restart PROVE SignInIInv'
<1> DEFINE s == [at |-> "idle"]
<1>1. s \in Callbacks /\ ~HasRead(s) /\ ~Undisturbed(s)
      /\ \A st \in States : ~Bears(s, st)
    BY CallbackRecords DEF HasRead, Undisturbed, Bears
<1>2. callback' \in [SignIns -> Callbacks] /\ \A d \in SignIns : callback'[d] = s
    BY <1>1 DEF Restart
<1> HIDE DEF s
<1>3. UNCHANGED <<row, link, sessions>>
    BY DEF Restart
<1>4. /\ stateStore' \in [States -> {"new", "fresh", "old", "gone"}]
      /\ \A x \in States : stateStore'[x] # "gone" => stateStore[x] # "gone"
    BY DEF Restart
<1>5. SignInTypeOK'
    BY <1>2, <1>3, <1>4 DEF SignInIInv, SignInTypeOK
<1>6. RowIsRead' /\ StatesOnce' /\ PlansLead'
    BY <1>1, <1>2, <1>3, <1>4 DEF SignInIInv, RowIsRead, StatesOnce, PlansLead
<1> QED BY <1>5, <1>6 DEF SignInIInv

-----------------------------------------------------------------------------
(* SAML *)

\* A move to a place where no state is brought.
LEMMA NoState ==
    ASSUME NEW s, s.at \in {"idle", "assertion", "provision", "assign", "provisioned",
                            "found", "sync", "change", "session"}
    PROVE  \A st \in States : ~Bears(s, st)
BY DEF Bears

LEMMA BeginAssertionStep ==
    ASSUME SignInIInv, NEW c \in SignIns, NEW G \in SUBSET RoleNames, BeginAssertion(c, G)
    PROVE  SignInIInv'
<1> DEFINE s == [at |-> "assertion", groups |-> G]
<1>1. s \in Callbacks /\ s.at = "assertion" /\ Turn(c, s)
    BY CallbackRecords DEF BeginAssertion
<1>2. ~HasRead(s) /\ ~Undisturbed(s) /\ \A st \in States : ~Bears(s, st)
    BY <1>1, NoState DEF HasRead, Undisturbed
<1> HIDE DEF s
<1> QED BY <1>1, <1>2, Going DEF BeginAssertion

LEMMA LookupAssertionStep ==
    ASSUME SignInIInv, NEW c \in SignIns, LookupAssertion(c) PROVE SignInIInv'
<1> DEFINE me == callback[c]
           found(at) == [at |-> at, groups |-> me.groups, active |-> row.active]
<1>1. me \in Callbacks /\ me.at = "assertion"
    BY DEF LookupAssertion, At, SignInIInv, SignInTypeOK
<1>2. me.groups \in SUBSET RoleNames
    BY <1>1, NewcomerFields
<1>3. CASE row # Nobody /\ (Turn(c, found("found")) \/ Turn(c, found("sync")))
  <2>1. PICK at \in {"found", "sync"} : Turn(c, found(at))
    BY <1>3
  <2>2. row.active \in BOOLEAN
    BY <1>3, PersonFields DEF SignInIInv, SignInTypeOK
  <2>3. found(at) \in Callbacks /\ found(at).at = at
    BY <1>2, <2>2, CallbackRecords
  <2>4. PICK s \in Callbacks : Turn(c, s) /\ s.at \in {"found", "sync"}
    BY <2>1, <2>3
  <2>5. ~Undisturbed(s) /\ \A st \in States : ~Bears(s, st)
    BY <2>4, NoState DEF Undisturbed
  <2> QED BY <1>3, <2>4, <2>5, Going DEF LookupAssertion
<1>4. CASE GoOn(c, "provision")
  <2> DEFINE s == [me EXCEPT !.at = "provision"]
  <2>1. s \in Callbacks /\ s.at = "provision"
    BY <1>1, NewcomerFields
  <2>2. Turn(c, s)
    BY <1>4 DEF GoOn
  <2> HIDE DEF s
  <2>3. ~HasRead(s) /\ ~Undisturbed(s) /\ \A st \in States : ~Bears(s, st)
    BY <2>1, NoState DEF HasRead, Undisturbed
  <2> QED BY <2>1, <2>2, <2>3, Going DEF LookupAssertion
<1>5. CASE Leave(c)
    BY <1>5, Leaving DEF LookupAssertion
<1> QED BY <1>3, <1>4, <1>5 DEF LookupAssertion

LEMMA ProvisionStep ==
    ASSUME SignInIInv, NEW c \in SignIns, Provision(c) PROVE SignInIInv'
<1> DEFINE me == callback[c]
           s == [me EXCEPT !.at = "assign"]
<1>1. me \in Callbacks /\ me.at = "provision"
    BY DEF Provision, At, SignInIInv, SignInTypeOK
<1>2. CASE row = Nobody /\ row' = NewRow /\ GoOn(c, "assign")
  <2>1. s \in Callbacks /\ s.at = "assign"
    BY <1>1, NewcomerFields
  <2>2. Turn(c, s)
    BY <1>2 DEF GoOn
  <2> HIDE DEF s
  <2>3. ~Undisturbed(s) /\ \A st \in States : ~Bears(s, st)
    BY <2>1, NoState DEF Undisturbed
  <2>4. row' \in People /\ row' # Nobody
    BY <1>2, NewPerson, PersonFields
  <2>5. link' \in BOOLEAN /\ (link' => link)
    BY DEF Provision, SignInIInv, SignInTypeOK
  <2> QED BY <1>2, <2>1, <2>2, <2>3, <2>4, <2>5, SimpleTurn DEF Provision
<1>3. CASE Leave(c) /\ UNCHANGED row
    BY <1>3, Leaving DEF Provision
<1> QED BY <1>2, <1>3 DEF Provision

\* A disturbance leaves every callback where it is and no plan undisturbed.
LEMMA Disturbs ==
    ASSUME NEW next \in [SignIns -> Callbacks]
    PROVE  /\ Disturb(next) \in [SignIns -> Callbacks]
           /\ \A d \in SignIns :
                /\ Disturb(next)[d].at = next[d].at
                /\ ~Undisturbed(Disturb(next)[d])
                /\ next[d].at \notin {"change", "session"} => Disturb(next)[d] = next[d]
<1>1. ASSUME NEW d \in SignIns
      PROVE  /\ Disturb(next)[d] \in Callbacks
             /\ Disturb(next)[d].at = next[d].at
             /\ ~Undisturbed(Disturb(next)[d])
             /\ next[d].at \notin {"change", "session"} => Disturb(next)[d] = next[d]
  <2> DEFINE s == next[d]
             t == [s EXCEPT !.clean = FALSE]
  <2>1. CASE s.at \in {"change", "session"}
    <3>1. t \in Callbacks /\ t.at = s.at /\ t.clean = FALSE
        BY <2>1, PlanMoves
    <3>2. Disturb(next)[d] = t
        BY <2>1 DEF Disturb
    <3> HIDE DEF t
    <3> QED BY <2>1, <3>1, <3>2 DEF Undisturbed
  <2>2. CASE s.at \notin {"change", "session"}
    BY <2>2 DEF Disturb, Undisturbed
  <2> QED BY <2>1, <2>2
<1>2. Disturb(next) = [d \in SignIns |-> Disturb(next)[d]]
    BY DEF Disturb
<1> QED BY <1>1, <1>2

\* A write of the roles by someone who brings no state.
LEMMA RolesWritten ==
    ASSUME SignInIInv, KeepStates, UNCHANGED link,
           row # Nobody, row' \in People,
           callback' \in [SignIns -> Callbacks],
           NoNewBearer
    PROVE  SignInTypeOK' /\ RowIsRead' /\ StatesOnce'
<1>1. row' # Nobody
    BY PersonFields
<1>2. RowStays
    BY <1>1 DEF RowStays, SignInIInv, SignInTypeOK
<1> QED BY <1>2, QuietStep

LEMMA DisturbedBearers ==
    ASSUME NEW next \in [SignIns -> Callbacks], callback' = Disturb(next),
           \A d \in SignIns, st \in States : Bears(next[d], st) => Bears(callback[d], st)
    PROVE  NoNewBearer
<1> SUFFICES ASSUME NEW d \in SignIns, NEW st \in States, Bears(callback'[d], st)
             PROVE  Bears(callback[d], st)
    BY DEF NoNewBearer
<1>1. callback'[d].at = next[d].at
    BY Disturbs
<1>2. next[d].at \notin {"change", "session"}
    BY <1>1 DEF Bears
<1>3. callback'[d] = next[d]
    BY <1>2, Disturbs
<1> QED BY <1>3

LEMMA AssignDefaultStep ==
    ASSUME SignInIInv, NEW c \in SignIns, AssignDefault(c) PROVE SignInIInv'
<1> DEFINE me == callback[c]
           s == [me EXCEPT !.at = "provisioned"]
           next == [callback EXCEPT ![c] = s]
<1>1. callback \in [SignIns -> Callbacks] /\ me \in Callbacks /\ me.at = "assign"
    BY DEF AssignDefault, At, SignInIInv, SignInTypeOK
<1>2. s \in Callbacks /\ s.at = "provisioned"
    BY <1>1, NewcomerFields
<1>3. callback' = Disturb(next)
    BY DEF AssignDefault
<1> HIDE DEF s
<1>4. next \in [SignIns -> Callbacks] /\ next[c] = s
      /\ \A d \in SignIns \ {c} : next[d] = callback[d]
    BY <1>1, <1>2
<1> HIDE DEF next
<1>5. row # Nobody /\ row \in People
    BY <1>1 DEF HasRead, SignInIInv, RowIsRead, SignInTypeOK
<1>6. row' \in People
  <2>1. row.roles \cup {"user"} \in SUBSET RoleNames
    BY <1>5, PersonFields, SignInAssumption
  <2>2. [row EXCEPT !.roles = row.roles \cup {"user"}] \in People
    BY <1>5, <2>1, PersonFields
  <2> QED BY <1>5, <2>2 DEF AssignDefault
<1>7. NoNewBearer
  <2>1. \A d \in SignIns, st \in States : Bears(next[d], st) => Bears(callback[d], st)
    BY <1>2, <1>4, NoState
  <2> QED BY <1>3, <1>4, <2>1, DisturbedBearers
<1>8. SignInTypeOK' /\ RowIsRead' /\ StatesOnce'
  <2>1. callback' \in [SignIns -> Callbacks]
    BY <1>3, <1>4, Disturbs
  <2> QED BY <1>5, <1>6, <1>7, <2>1, RolesWritten DEF AssignDefault
<1>9. PlansLead'
    BY <1>3, <1>4, Disturbs DEF PlansLead
<1> QED BY <1>8, <1>9 DEF SignInIInv

LEMMA ReadProvisionedStep ==
    ASSUME SignInIInv, NEW c \in SignIns, ReadProvisioned(c) PROVE SignInIInv'
<1> DEFINE me == callback[c]
           s == [at |-> "sync", groups |-> me.groups, active |-> row.active]
<1>1. me \in Callbacks /\ me.at = "provisioned"
    BY DEF ReadProvisioned, At, SignInIInv, SignInTypeOK
<1>2. me.groups \in SUBSET RoleNames
    BY <1>1, NewcomerFields
<1>3. row # Nobody /\ row.active \in BOOLEAN
    BY <1>1, PersonFields DEF HasRead, SignInIInv, RowIsRead, SignInTypeOK
<1>4. CASE Turn(c, s)
  <2>1. s \in Callbacks /\ s.at = "sync"
    BY <1>2, <1>3, CallbackRecords
  <2> HIDE DEF s
  <2>2. ~Undisturbed(s) /\ \A st \in States : ~Bears(s, st)
    BY <2>1, NoState DEF Undisturbed
  <2> QED BY <1>3, <1>4, <2>1, <2>2, Going DEF ReadProvisioned
<1>5. CASE Leave(c)
    BY <1>5, Leaving DEF ReadProvisioned
<1> QED BY <1>4, <1>5 DEF ReadProvisioned

LEMMA UpdateFoundStep ==
    ASSUME SignInIInv, NEW c \in SignIns, UpdateFound(c) PROVE SignInIInv'
<1> DEFINE me == callback[c]
           s == [me EXCEPT !.at = "sync"]
<1>1. me \in Callbacks /\ me.at = "found"
    BY DEF UpdateFound, At, SignInIInv, SignInTypeOK
<1>2. me.active \in BOOLEAN /\ s \in Callbacks /\ s.at = "sync"
    BY <1>1, FoundFields
<1>3. Turn(c, s)
    BY DEF UpdateFound, GoOn
<1> HIDE DEF s
<1>4. HasRead(me) /\ ~Undisturbed(s) /\ \A st \in States : ~Bears(s, st)
    BY <1>1, <1>2, NoState DEF HasRead, Undisturbed
<1>5. row' \in People /\ row' # Nobody /\ row'.roles = row.roles
    BY <1>2, <1>4, WrittenBack DEF UpdateFound
<1>6. link' \in BOOLEAN /\ (link' => link)
    BY DEF UpdateFound, SignInIInv, SignInTypeOK
<1> QED BY <1>2, <1>3, <1>4, <1>5, <1>6, SimpleTurn DEF UpdateFound

LEMMA FinishAssertionStep ==
    ASSUME SignInIInv, NEW c \in SignIns, FinishAssertion(c) PROVE SignInIInv'
BY Leaving DEF FinishAssertion

\* One callback plans, or works on its plan, while the roles stay: the other
\* plans lead where they led.
LEMMA PlanTurn ==
    ASSUME SignInIInv, KeepStates, NEW c \in SignIns, NEW s \in Callbacks, Turn(c, s),
           HasRead(callback[c]), UNCHANGED <<row, link>>,
           s.at \in {"change", "session"},
           Undisturbed(s) => Leads(s, row.roles)
    PROVE  SignInIInv'
<1>1. \A st \in States : ~Bears(s, st)
    BY NoState
<1>2. row \in People \cup {Nobody} /\ link \in BOOLEAN
    BY DEF SignInIInv, SignInTypeOK
<1>3. link => row # Nobody
    BY DEF SignInIInv, RowIsRead
<1>4. SignInTypeOK' /\ RowIsRead' /\ StatesOnce'
    BY <1>1, <1>2, <1>3, QuietTurn
<1>5. PlansLead'
    BY Turns DEF SignInIInv, PlansLead
<1> QED BY <1>4, <1>5 DEF SignInIInv

\* What is read is what the plan is made from.
LEMMA ReadRolesStep ==
    ASSUME SignInIInv, NEW c \in SignIns, ReadRoles(c) PROVE SignInIInv'
<1> DEFINE me == callback[c]
           plan(at, roles, b) ==
               [at |-> at, groups |-> me.groups, active |-> me.active,
                add |-> me.groups \ roles, remove |-> roles \ me.groups, clean |-> b]
<1>1. me \in Callbacks /\ me.at = "sync"
    BY DEF ReadRoles, At, SignInIInv, SignInTypeOK
<1>2. me.groups \in SUBSET RoleNames /\ me.active \in BOOLEAN
    BY <1>1, FoundFields
<1>3. HasRead(me)
    BY <1>1 DEF HasRead
<1>4. row.roles \in SUBSET RoleNames
    BY <1>3, PersonFields DEF SignInIInv, RowIsRead, SignInTypeOK
<1>5. CASE Plan(c, "change", row.roles, TRUE)
  <2> DEFINE s == plan("change", row.roles, TRUE)
  <2>1. s \in Callbacks
    BY <1>2, <1>4, CallbackRecords
  <2>2. s.at = "change" /\ Leads(s, row.roles)
    BY DEF Leads
  <2>3. Turn(c, s)
    BY <1>5 DEF Plan
  <2> HIDE DEF s
  <2> QED BY <1>3, <2>1, <2>2, <2>3, PlanTurn DEF ReadRoles
<1>6. CASE Plan(c, "session", me.groups, FALSE)
  <2> DEFINE s == plan("session", me.groups, FALSE)
  <2>1. s \in Callbacks
    BY <1>2, CallbackRecords
  <2>2. s.at = "session" /\ ~Undisturbed(s)
    BY DEF Undisturbed
  <2>3. Turn(c, s)
    BY <1>6 DEF Plan
  <2> HIDE DEF s
  <2> QED BY <1>3, <2>1, <2>2, <2>3, PlanTurn DEF ReadRoles
<1> QED BY <1>5, <1>6 DEF ReadRoles

\* A callback that changed the roles goes on with s; the other plans are
\* disturbed.
LEMMA PlanWrites ==
    ASSUME SignInIInv, KeepStates, UNCHANGED link,
           NEW c \in SignIns, NEW s \in Callbacks,
           callback[c].at = "change", s.at = "change",
           callback' = [Disturb(callback) EXCEPT ![c] = s],
           NEW R \in SUBSET RoleNames, row' = [row EXCEPT !.roles = R],
           Undisturbed(s) => Leads(s, R)
    PROVE  SignInIInv'
<1>1. callback \in [SignIns -> Callbacks]
    BY DEF SignInIInv, SignInTypeOK
<1>2. /\ callback' \in [SignIns -> Callbacks]
      /\ callback'[c] = s
      /\ \A d \in SignIns \ {c} : callback'[d] = Disturb(callback)[d]
    BY <1>1, Disturbs
<1>3. row # Nobody /\ row \in People
    BY DEF HasRead, SignInIInv, RowIsRead, SignInTypeOK
<1>4. row' \in People /\ row'.roles = R
    BY <1>3, PersonFields
<1>5. NoNewBearer
  <2> SUFFICES ASSUME NEW d \in SignIns, NEW st \in States, Bears(callback'[d], st)
               PROVE  Bears(callback[d], st)
    BY DEF NoNewBearer
  <2>1. d # c /\ callback'[d] = Disturb(callback)[d]
    BY <1>2, NoState
  <2>2. callback[d].at \notin {"change", "session"}
    BY <1>1, <2>1, Disturbs DEF Bears
  <2> QED BY <1>1, <2>1, <2>2, Disturbs
<1>6. SignInTypeOK' /\ RowIsRead' /\ StatesOnce'
    BY <1>2, <1>3, <1>4, <1>5, RolesWritten
<1>7. PlansLead'
  <2> SUFFICES ASSUME NEW d \in SignIns, Undisturbed(callback'[d])
               PROVE  Leads(callback'[d], row'.roles)
    BY DEF PlansLead
  <2>1. d = c
    BY <1>1, <1>2, Disturbs
  <2> QED BY <1>2, <1>4, <2>1
<1> QED BY <1>6, <1>7 DEF SignInIInv

\* An addition brings the roles one nearer to the groups, and so does a removal
\* once nothing is left to add.
LEMMA ChangeRoleStep ==
    ASSUME SignInIInv, NEW c \in SignIns, ChangeRole(c) PROVE SignInIInv'
<1> DEFINE me == callback[c]
           current == row.roles
<1>1. me \in Callbacks /\ me.at = "change"
    BY DEF ChangeRole, At, SignInIInv, SignInTypeOK
<1>2. /\ me.groups \in SUBSET RoleNames /\ me.add \in SUBSET RoleNames
      /\ me.remove \in SUBSET RoleNames
    BY <1>1, PlanFields
<1>3. HasRead(me) /\ current \in SUBSET RoleNames
    BY <1>1, PersonFields DEF HasRead, SignInIInv, RowIsRead, SignInTypeOK
<1>4. Undisturbed(me) => me.add = me.groups \ current /\ me.remove = current \ me.groups
    BY <1>1 DEF SignInIInv, PlansLead, Leads
<1>5. ASSUME NEW role \in me.add,
             \/ /\ row' = [row EXCEPT !.roles = current \cup {role}]
                /\ callback' = [Disturb(callback) EXCEPT ![c] = [me EXCEPT !["add"] = @ \ {role}]]
             \/ /\ UNCHANGED row
                /\ Turn(c, [me EXCEPT !["add"] = @ \ {role}, !.clean = FALSE])
      PROVE  SignInIInv'
  <2> DEFINE X == me.add \ {role}
             s == [me EXCEPT !.add = X]
             t == [s EXCEPT !.clean = FALSE]
  <2>1. X \in SUBSET RoleNames
    BY <1>2
  <2>2. /\ s \in Callbacks /\ s.at = "change" /\ s.clean = me.clean /\ s.groups = me.groups
        /\ s.add = X /\ s.remove = me.remove
    BY <1>1, <2>1, PlanMoves
  <2>3. t \in Callbacks /\ t.at = "change" /\ t.clean = FALSE
    BY <2>2, PlanMoves
  <2>4. [me EXCEPT !["add"] = @ \ {role}] = s
    OBVIOUS
  <2>5. [me EXCEPT !["add"] = @ \ {role}, !.clean = FALSE] = t
    OBVIOUS
  <2> HIDE DEF t
  <2>6. Undisturbed(s) => Leads(s, current \cup {role})
    BY <1>1, <1>4, <1>5, <2>2 DEF Undisturbed, Leads
  <2>7. ~Undisturbed(t)
    BY <2>3 DEF Undisturbed
  <2>8. current \cup {role} \in SUBSET RoleNames
    BY <1>2, <1>3
  <2> HIDE DEF s
  <2>9. CASE /\ row' = [row EXCEPT !.roles = current \cup {role}]
             /\ callback' = [Disturb(callback) EXCEPT ![c] = s]
    BY <1>1, <2>2, <2>6, <2>8, <2>9, PlanWrites DEF ChangeRole
  <2>10. CASE UNCHANGED row /\ Turn(c, t)
    BY <1>3, <2>3, <2>7, <2>10, PlanTurn DEF ChangeRole
  <2> QED BY <1>5, <2>4, <2>5, <2>9, <2>10
<1>6. ASSUME me.add = {}, NEW role \in me.remove,
             \/ /\ row' = [row EXCEPT !.roles = current \ {role}]
                /\ callback' = [Disturb(callback)
                                  EXCEPT ![c] = [me EXCEPT !["remove"] = @ \ {role}]]
             \/ /\ UNCHANGED row
                /\ Turn(c, [me EXCEPT !["remove"] = @ \ {role}, !.clean = FALSE])
      PROVE  SignInIInv'
  <2> DEFINE X == me.remove \ {role}
             s == [me EXCEPT !.remove = X]
             t == [s EXCEPT !.clean = FALSE]
  <2>1. X \in SUBSET RoleNames
    BY <1>2
  <2>2. /\ s \in Callbacks /\ s.at = "change" /\ s.clean = me.clean /\ s.groups = me.groups
        /\ s.add = me.add /\ s.remove = X
    BY <1>1, <2>1, PlanMoves
  <2>3. t \in Callbacks /\ t.at = "change" /\ t.clean = FALSE
    BY <2>2, PlanMoves
  <2>4. [me EXCEPT !["remove"] = @ \ {role}] = s
    OBVIOUS
  <2>5. [me EXCEPT !["remove"] = @ \ {role}, !.clean = FALSE] = t
    OBVIOUS
  <2> HIDE DEF t
  <2>6. Undisturbed(s) => Leads(s, current \ {role})
    BY <1>1, <1>4, <1>6, <2>2 DEF Undisturbed, Leads
  <2>7. ~Undisturbed(t)
    BY <2>3 DEF Undisturbed
  <2>8. current \ {role} \in SUBSET RoleNames
    BY <1>2, <1>3
  <2> HIDE DEF s
  <2>9. CASE /\ row' = [row EXCEPT !.roles = current \ {role}]
             /\ callback' = [Disturb(callback) EXCEPT ![c] = s]
    BY <1>1, <2>2, <2>6, <2>8, <2>9, PlanWrites DEF ChangeRole
  <2>10. CASE UNCHANGED row /\ Turn(c, t)
    BY <1>3, <2>3, <2>7, <2>10, PlanTurn DEF ChangeRole
  <2> QED BY <1>6, <2>4, <2>5, <2>9, <2>10
<1>7. CASE me.add = {} /\ me.remove = {} /\ GoOn(c, "session") /\ UNCHANGED row
  <2> DEFINE s == [me EXCEPT !.at = "session"]
  <2>1. s \in Callbacks /\ s.at = "session" /\ s.groups = me.groups /\ s.clean = me.clean
    BY <1>1, PlanFields
  <2>2. Turn(c, s)
    BY <1>7 DEF GoOn
  <2> HIDE DEF s
  <2>3. Undisturbed(s) => Leads(s, current)
    BY <1>1, <1>4, <1>7, <2>1 DEF Undisturbed, Leads
  <2> QED BY <1>3, <1>7, <2>1, <2>2, <2>3, PlanTurn DEF ChangeRole
<1> QED BY <1>5, <1>6, <1>7 DEF ChangeRole

-----------------------------------------------------------------------------
(* The administrator, and every step *)

LEMMA ChangeRolesStep ==
    ASSUME SignInIInv, NEW role \in RoleNames, ChangeRoles(role) PROVE SignInIInv'
<1>1. row # Nobody /\ row \in People /\ callback \in [SignIns -> Callbacks]
    BY DEF ChangeRoles, SignInIInv, SignInTypeOK
<1>2. row.roles \cup {role} \in SUBSET RoleNames /\ row.roles \ {role} \in SUBSET RoleNames
    BY <1>1, PersonFields
<1>3. row' \in People
  <2>1. /\ [row EXCEPT !.roles = row.roles \cup {role}] \in People
        /\ [row EXCEPT !.roles = row.roles \ {role}] \in People
    BY <1>1, <1>2, PersonFields
  <2> QED BY <2>1 DEF ChangeRoles
<1>4. callback' = Disturb(callback)
    BY DEF ChangeRoles
<1>5. NoNewBearer
    BY <1>1, <1>4, DisturbedBearers
<1>6. SignInTypeOK' /\ RowIsRead' /\ StatesOnce'
  <2>1. callback' \in [SignIns -> Callbacks]
    BY <1>1, <1>4, Disturbs
  <2> QED BY <1>1, <1>3, <1>5, <2>1, RolesWritten DEF ChangeRoles
<1>7. PlansLead'
    BY <1>1, <1>4, Disturbs DEF PlansLead
<1> QED BY <1>6, <1>7 DEF SignInIInv

LEMMA DeactivateStep ==
    ASSUME SignInIInv, Deactivate PROVE SignInIInv'
<1>1. row # Nobody /\ row \in People /\ callback \in [SignIns -> Callbacks]
    BY DEF Deactivate, SignInIInv, SignInTypeOK
<1>2. row' \in People /\ row'.roles = row.roles
    BY <1>1, PersonFields DEF Deactivate
<1>3. UNCHANGED callback
    BY DEF Deactivate
<1>4. NoNewBearer /\ NoNewPlan
    BY <1>2, <1>3 DEF NoNewBearer, NoNewPlan
<1>5. SignInTypeOK' /\ RowIsRead' /\ StatesOnce'
    BY <1>1, <1>2, <1>3, <1>4, RolesWritten DEF Deactivate
<1> QED BY <1>4, <1>5, KeptPlans DEF SignInIInv

LEMMA SignInInitHolds == SignInInit => SignInIInv
<1> SUFFICES ASSUME SignInInit PROVE SignInIInv
    OBVIOUS
<1> DEFINE s == [at |-> "idle"]
<1>1. s \in Callbacks /\ ~HasRead(s) /\ ~Undisturbed(s)
      /\ \A st \in States : ~Bears(s, st)
    BY CallbackRecords DEF HasRead, Undisturbed, Bears
<1>2. callback \in [SignIns -> Callbacks] /\ \A d \in SignIns : callback[d] = s
    BY <1>1 DEF SignInInit
<1> HIDE DEF s
<1>3. SignInTypeOK
  <2>1. /\ stateStore \in [States -> {"new", "fresh", "old", "gone"}]
        /\ sessions \in [States -> 0..2]
    BY DEF SignInInit
  <2>2. row \in People \cup {Nobody} /\ link \in BOOLEAN
    BY DEF SignInInit
  <2> QED BY <1>2, <2>1, <2>2 DEF SignInTypeOK
<1>4. RowIsRead /\ StatesOnce /\ PlansLead
    BY <1>1, <1>2 DEF SignInInit, RowIsRead, StatesOnce, PlansLead
<1> QED BY <1>3, <1>4 DEF SignInIInv

LEMMA SignInInvariance == SignInIInv /\ [SignInNext]_signins => SignInIInv'
<1> SUFFICES ASSUME SignInIInv, [SignInNext]_signins PROVE SignInIInv'
    OBVIOUS
<1>1. CASE UNCHANGED signins
    BY <1>1 DEF signins, SignInIInv, SignInTypeOK, RowIsRead, StatesOnce, PlansLead
<1>2. ASSUME NEW c \in SignIns, OAuthStep(c) PROVE SignInIInv'
    BY <1>2, ValidateStateStep, ExchangeStep, LookupLinkStep, ReadLinkedStep, WriteLinkedStep,
       LookupEmailStep, CreateUserStep, StoreOAuthTokensStep, ReloadAndFinishStep
    DEF OAuthStep
<1>3. ASSUME NEW c \in SignIns, SAMLStep(c) PROVE SignInIInv'
    BY <1>3, BeginAssertionStep, LookupAssertionStep, ProvisionStep, AssignDefaultStep,
       ReadProvisionedStep, UpdateFoundStep, ReadRolesStep, ChangeRoleStep,
       FinishAssertionStep
    DEF SAMLStep
<1>4. CASE SignInNext
    BY <1>2, <1>3, <1>4, GenerateStateStep, ChangeRolesStep, DeactivateStep, RestartStep
    DEF SignInNext
<1> QED BY <1>1, <1>4

\* Rows, states and callbacks keep their types.
THEOREM SignInTypes == SignInSpec => []SignInTypeOK
<1>1. SignInIInv => SignInTypeOK
    BY DEF SignInIInv
<1> QED BY <1>1, SignInInitHolds, SignInInvariance, PTL DEF SignInSpec

\* A state buys one session at most, through any failures and restarts: it is
\* out of the map before anyone brings it, and one callback brings it
\* (generateState, validateState, HandleCallback).
THEOREM OneSessionPerState == SignInSpec => []StateUsedOnce
<1>1. SignInIInv => StateUsedOnce
    BY DEF SignInIInv, StatesOnce, StateUsedOnce
<1> QED BY <1>1, SignInInitHolds, SignInInvariance, PTL DEF SignInSpec

\* A synchronisation that nobody disturbed and that met no failure ends with
\* the groups for roles (syncGroupsAndCreateSession).
THEOREM SyncReachesGroups == SignInSpec => []SyncGivesGroups
<1>1. SignInIInv => SyncGivesGroups
    BY DEF SignInIInv, PlansLead, Undisturbed, Leads, SyncGivesGroups, At
<1> QED BY <1>1, SignInInitHolds, SignInInvariance, PTL DEF SignInSpec
=============================================================================

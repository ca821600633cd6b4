# Formal models of the learning-platform services

TLA+ modules, TLC runs and TLAPS proofs for the back end of this repository: an HTTP-to-gRPC
gateway (Rust) in front of four services written in Rust, Go and TypeScript. The models are
translated from the source at this commit; every comment that names `file:line` refers to it.
`PROJECT.json` maps each definition to the lines it stands for.

Check a run with `tlc -config <cfg> <module>`, a proof module with `tlapm <module>.tla`.

## 1. The system

```
client -> api-gateway --gRPC--> user-auth-service             (PostgreSQL, Redis)
                     |--gRPC--> course-service                (MongoDB)
                     |--gRPC--> content-management-service    (PostgreSQL, S3, Redis, Elasticsearch)
                     `--gRPC--> assignment-grading-service    (PostgreSQL, files, Kafka)
```

The services share nothing but calls: the gateway asks user-auth-service for the policy of a route
and for the validity of a token, and forwards the request. Inside a service any number of handlers
run at once and meet in memory (gateway, rate limiters) or in a database. With few exceptions a
handler is a sequence of single statements, commands or requests; there are no transactions, no
locks on rows and no compensation for a step that failed. That is where the hard behaviours are.

| component | state it keeps | operations | what is hard | what makes it correct |
|---|---|---|---|---|
| gateway: circuit breaker | state and counters behind two tokio locks | call, record, reset | lock order, late results, calls dropped at an await | implements the documented three-state machine; calls return |
| gateway: request handler | none of its own | one handler around the breaker, under a timeout | the timeout drops the handler anywhere | every request answered, nothing left behind |
| gateway: routing, discovery | routing table | route, periodic refresh, admin refresh | refreshes rebuilt from stale reads | the table becomes what the services offer |
| gateway: authentication | policy cache | middleware, policy lookup | a policy or routing decision used after it changed | a request is admitted by a policy of the method it calls |
| gateway: rate limiter | request times per client, LRU-bounded | check, cleanup | eviction at the limit, times out of order | no client exceeds its budget in a window |
| gateway: gRPC client | the messages on their way | convert, describe, invoke, answer | a service deployed anew between two of them, lost messages, a dropped handler | the status is true of what the service did |
| grading: assignments, submissions, grades | three tables, files, events | submit, grade, update, publish, edit, delete | stale rows written back, restarts, failing statements | rows, files, marks and events agree |
| grading: late policy | none | lateness, penalty | rounding and limits | scores in range |
| grading: gradebook | none | reports | reads that are not one snapshot | |
| course: enrollment, sections | documents of enrollments and of sections with a count | enroll, add, remove, create, resize and delete sections | two documents per operation, double removal | the count follows the enrollments |
| course: prerequisites | prerequisite lists | add (with a search for cycles), remove, delete course | the search reads one course at a time | no cycle |
| course: catalogue, cross-listing | course documents | publish, delete, cross-list | one of several writes fails | groups are symmetric |
| content: uploads | session rows, chunks, files, resources | initiate, chunk, complete, cancel, expire | nothing locks a session; steps fail | no chunk lost, no file with a hole, one resource |
| content: transcoding | Redis queue and job rows | enqueue, take, finish | a crash between queue and row | every job ends |
| content: modules, lessons, resources | ordered rows, search index | create, reorder, publish, delete, read the outline | row-by-row reordering, reads in pieces, row and index apart | an answer is whole, the index follows the rows |
| content: streaming, progress, downloads | progress and download rows | manifest, position, complete, download | a decision used after the resource changed | what is given was allowed |
| content: circuit breaker, retry | state and counters, decision and transition apart | call, reset | transitions decided on a stale state | as for the gateway's |
| content: analytics | buffer, batches, a list in Redis | publish, flush, retry, shut down | batches that half fail, answers lost, crashes | no event lost silently or in two places |
| user-auth: accounts, tokens, roles | users, roles, blacklist | register, login, refresh, logout, change password, update | refresh against revocation; whole-row updates | a revoked token is refused |
| user-auth: OAuth, SAML | one-time states, links, roles | begin, callback, synchronise groups | states brought twice, failures that are only logged | a state is used once; roles become the groups |
| user-auth, grading: rate limiters | counters in Redis, in memory, and a switch between | allow, cleanup, health check | locks released in between; two budgets | attempts within the limit |

The frontend (on mock data), protocol definitions, deployment and scripts keep no shared state.

## 2. The modules

| module | models | extends |
|---|---|---|
| `Breaker` | the documented circuit breaker, each operation atomic: the abstract specification | |
| `GatewayBreaker` | api-gateway `circuit_breaker/breaker.rs`, from await to await | |
| `GatewayRequest` | `handlers/gateway.rs`: requests, their answers and the timeout around the breaker | `GatewayBreaker` |
| `BackendCall` | what happens to a request between its route and its answer (`handlers/gateway.rs`, `handlers/user_service.rs`, `grpc/dynamic_client.rs`) | |
| `Routes` | the routing table, the periodic refresh and the admin refresh (`router`, `discovery`, `handlers/admin.rs`) | |
| `Gate` | the authentication middleware, its policy cache and the call of the backend, over a table that changes | `Routes` |
| `GatewayLimiter` | `rate_limit/limiter.rs` and its clean-up task | |
| `Tokens` | one account of the user-auth-service: tokens, blacklist, password, row, roles | |
| `SignIn` | OAuth and SAML sign-ins: one-time states, provisioning, links, groups | |
| `RateLimits` | `pkg/ratelimit`: the counter in Redis, the list in memory, the switch between them | |
| `Limits` | both limits a request meets, side by side | `RateLimits`, `GatewayLimiter` |
| `LatePolicy` | `late_policy_calculator.go`, pure operators | |
| `Grading` | the assignment-grading-service, one SQL statement per action | `LatePolicy` |
| `Enrollment` | enrollment and sections of a course, one MongoDB command per action | |
| `Prerequisites` | prerequisites and the search for cycles, one document read per action | |
| `Upload` | chunked uploads into one lesson, one S3 request or SQL statement per action | |
| `Content` | modules, lessons and resources: creating, deleting, reordering row by row | |
| `Structure` | reading the outline of a course in pieces while it changes | `Content` |
| `Publishing` | changing, publishing and deleting a resource, and its document in the search index | |
| `Viewing` | streaming, downloads and progress against managers that change the resource | `Publishing` |
| `TranscodingJob` | the lifecycle of a job's row, with no queue, worker or failing step: an abstract specification | |
| `Transcoding` | job rows, the queue in Redis and the workers; implements `TranscodingJob` | |
| `Analytics` | buffer, batches, the list in Redis, the retrier, shutdown and crashes | |
| `ContentBreaker` | content service `circuit_breaker.rs`, from await to await | |
| `MC*` | parts of one run, constant values, symmetry | the modules named in them |
| `*_proofs` | theorems and proofs; `CourseService_proofs` is about `Enrollment` and `Prerequisites`, `GatewayRequest_proofs` also about `GatewayBreaker` and `Gate`, `UserAuth_proofs` about `Tokens` and `SignIn`, `Access_proofs` about `BackendCall`, `RateLimits`, `GatewayLimiter` and `Limits`, `ContentService_proofs` about `Content`, `Structure`, `Publishing`, `Viewing`, `Analytics` and `ContentBreaker` | the module of that name |

State and actions correspond to the code as follows.

- **GatewayBreaker.** `circuit`, `failures` and `successes` are the contents of the `state` and
  `stats` locks, `stateLock` and `statsLock` their write guards, `pc[t]` the await a task is
  suspended at. `can_execute` is `Admit`, `Reject` or `BeginTrial` then `ClearCounters`;
  `record_success` and `record_failure` are `LockStats` then `RecordSuccess` or `RecordFailure`;
  `reset` is `LockStateForReset` then `ResetCircuit`. Time is `elapsed`, whether the timeout of the
  open circuit has passed. Counters stop at their threshold: the code only compares and clears them.
- **GatewayRequest.** `reply[t]` is the answer of a request. `RequestTimesOut` drops the future at
  any await: its guards are released, nothing after the await happens. `inRow` is history.
- **BackendCall.** `call[q]` is a handler between two awaits: it has the body (`body`), the breaker lets it
  pass (`admit`), it asks the service for its descriptors (`reflect`), builds and sends the message
  (`invoke`), or has the bytes of an answer (`answered`). `wire` holds what is sent and not yet served or
  lost, `served` what the service carried out. A version of the service is the methods it has and the
  messages they take; which versions are deployed, and when, is open.
- **Routes.** `offered` and `answering` say what the services would answer, `table` is the list that
  `update_routes` was given. A refresh is one action per service asked, and one that replaces the
  table. The periodic refresh keeps the routes of a service that fails, which it reads from the table
  in a step of their own, and the first of the routes of one path; the admin refresh does neither.
  Startup is the admin refresh. A list is thinned out by its places (`Kept`), not by a fold, so that it
  can be reasoned about.
- **Gate.** `request[q]` goes from the lookup of the route through the check of the token, the cache
  read, the question to the service, the cache write and the decision to `Forward`. `policies` change
  under it, a cached entry may expire at any time. A token stands for the claims it validates to.
- **GatewayLimiter.** `tracked` are the keys of the LRU cache, `used` says which of them was used when,
  `requests` is the `VecDeque` of each client. Reading the clock and taking the write lock are two
  actions, in the check and the clean-up. `allowed` is history, of the clients the cache still knows.
- **Tokens.** Time is in whole seconds, as in the claims and in the blacklist. `Begin...` actions
  read the row; the statements after it have an action each, and every one can fail. A token is
  its claims. The mark of a password change is made in two steps, the clock (`TakeTime`) and a SET
  (`BlacklistUserTokens`) that may land after a newer one, or land twice when its answer was lost.
  Redis may lose a key (`LoseKey`): `docker-compose.yml` bounds its memory with `allkeys-lru`, and after a
  crash it comes back without its last writes. `lapsed` is the history of tokens that are let in again by a
  lost key or an older mark. `crossed` notes that a handler had the row in its hands when the account was deleted.
- **SignIn.** `callback[c]` is a callback between two calls. The map of states is read and deleted
  under its lock in one action; ageing of a state is an action; a restart empties the map.
- **RateLimits.** `redis` is the counter with its expiry, renewed at every attempt. INCR and EXPIRE are a
  pipeline and no transaction, so they are two actions (`Increment`, `RenewExpiry`): the key can expire
  between them, other attempts can count, Redis can fail before, between and after. `RedisForgets` and
  `ServiceRestarts` lose the counter and the list; `losses` counts them, and each admission in `admitted`
  says which life of the counter or list it belongs to. `usingRedis` is the mode; the health check brings
  it back.
- **Grading.** One row per student and assignment (the upsert keeps the id). `call[c]` is a service
  method between two statements, with what it read. `files` is storage, `events` the published
  events, `made` the history of what each student submitted. A statement can fail without effect
  (`StatementFails`: the method returns the error, after the clean-up the code has) or be committed and
  have its answer lost (`AnswerLost`: the method does the same, and a submit deletes the file of a row
  that is there); deleting a file is a step that can fail and is then only logged; the process can restart.
  `unsure` and `orphans` are the history of the last three.
- **Enrollment.** `sections[x].count` is `enrolledCount`, kept beside the `enrollments`. `removeEnrollment`
  is a read, a decrement and a delete whose result nobody looks at. Enrollment ids are never reused.
  `exempt` is history: sections whose limit an instructor passed by or that had it lowered.
- **Prerequisites.** `prereqs` is the field of each course, `call[c]` a search with its `stack` and
  `visited`, all of them ids as the requests spelled them: MongoDB reads hexadecimal digits in either
  case, and the search compares strings. `CourseOf` is the course a spelling names, `respelled` the
  history of two spellings of one course. The order in which the search visits is left open, which only
  adds behaviours.
- **Upload.** `sessions` are the rows, `chunks` the temporary objects, `files` the permanent ones with
  how many chunks they hold, `slot` the unique `display_order` 0 at which every upload creates its
  resource. `process_chunk` is `BeginChunk`, `PutChunk`, `CountChunk`; `complete_upload` is
  `BeginComplete`, one `GetChunk` per chunk, `StoreFile`, `CleanChunks`, `CreateResource`,
  `MarkCompleted`; `cancel_upload` is `BeginCancel`, `CancelClean`, `MarkCancelled`.
  `DeleteChunks` leaves any of the chunks it was to delete: the store says so key by key and nobody looks
  (`stuck` is history). `uploaded_chunks` has no bound in the code and none here; `MCUpload` stops at `MaxCount`.
- **Content.** `row[i]` is the row of a module, lesson or resource: what it is in and its
  `display_order`; `moves[w]` the UPDATEs a reorder request still has to make. Creating and deleting
  are one action each: the foreign keys and unique keys repeat the check the code makes before.
- **Structure.** `walk` is the reader: one SELECT per course, module and lesson. `steady` and
  `glimpsed` are history: what its role could see all the time, and at some time.
- **Publishing.** `manager[m]` is a handler between two statements, `index` Elasticsearch. An index
  request that fails, or that the open circuit refuses, is logged and the handler goes on.
- **Viewing.** `viewer[v]` is a handler that has read the resource and will sign, track or mark later.
  `could` and `earned` are history. A video of ten seconds is watched at two positions, before and past ninety per cent.
- **Transcoding.** `BLPOP` is one action that takes the message off `queue` into a `worker`'s hand.
  `transcode_video` has an action for each of its steps: an error of one of them is counted and
  retried (`TranscodeFails`, `MarkFailed`). Every other statement can fail or meet the death of the
  process; then the worker drops the job (`StepFails`). The statements on a row ask for no status; that
  rows move only as `can_retry` and `is_terminal` take for granted is `JobRefinement`.
- **Analytics.** Two flushers (the periodic one and the one at shutdown) and the retrier, each with
  the batch it holds. A batch can be received and its answer lost.
- **ContentBreaker.** As `GatewayBreaker`, with other awaits: `Record` takes the stats, `Decide`
  reads the state and lets the stats go, `ChangeState` writes the state and `StampChange` the stats.
  The gateway's breaker decides and changes under both locks; this one changes after it let go.
  `DropCall` is the handler of a search that the server drops at one of its awaits, because the client cancelled or
  its deadline passed: the guards are released and a transition decided on is not made. `abandoned` is history.

`..._slip` definitions are deliberately wrong versions of the definition of that name, one per
property: each property fails when the slip replaces it, so each depends on what the code does there.

## 3. The runs

| run | bounds | distinct states | shows |
|---|---|---|---|
| `gateway_breaker_hang` | 2 tasks, thresholds 1 | (violation) | two calls wait for each other for ever |
| `gateway_request_trial` | 3 requests, thresholds 2 | (violation) | a dropped trial closes the circuit too early |
| `gateway_and_transcoding` | requests: 3, thresholds 2. Routes: 2 services, 2 methods, 1 change. Transcoding: 2 jobs, 2 workers, 2 retries | 66,465 | no lock is leaked, the circuit does not open early, every request is answered; the table converges on what the services offer; a job is in one hand, keeps the lifecycle of its row and comes to its end |
| `access` | breaker: 4 tasks, thresholds 3 and 2. Tokens: 2 handlers, 3 seconds, lifetimes of 2. Accounts: the same. Sign-in: 1 state, 2 roles. Attempts: 3, at most 2 in a window of 2, 1 loss. Gateway limiter: 4 calls of 2 clients, capacity 1. Gate: 2 services, 2 methods, 1 request, 1 change. Backend call: 2 requests, 4 methods, 2 versions, 2 changes | 818,650 | the breaker sits on no count that should have moved it and steps as `Breaker` does; what was revoked stays refused, what was deleted inactive; a state gives one session, groups become roles; budgets hold; a backend is called only with what a policy of that method admits, and the status of the answer is true of what it did |
| `grading` | 2 calls, 1 student, 3 terms, 2 files, 3 hours, 1 file left behind or unsure | 2,008,393 | rows, files, marks and events agree |
| `grading_resubmit` | 2 calls, 1 hour | (violation) | grading replaces a resubmission by the older submission |
| `grading_unpublish` | 2 calls, 1 file | (violation) | an update unpublishes a grade |
| `course_service` | enrollment: 2 handlers, 2 students, 1 section, capacities none and 1, 3 enrollments, 1 failure. Seats: 3 students, capacity 1, no failure. Prerequisites: 3 courses, 2 calls; or 2 courses that have two spellings each, 1 call | 1,402,062 | a section never counts too many, and counts right when nothing failed or was removed twice at once; two handlers oversell it by one student and no more; no cycle unless a prerequisite was written during another search or a course was named in two ways |
| `upload` | 1 session of 2 chunks, 2 handlers, 3 chunks counted | 1,986,414 | no acknowledged chunk lost, no hole in a file, completed sessions have resources, cleanup, one resource |
| `content` | outline: 2 modules, 1 lesson, 1 resource, 2 reorder requests of 2 items. Reading: 2 lessons, 2 places. Publishing: 1 resource, 2 managers. Viewing: 1 student, 1 manager. Analytics: 2 events, batches of 2, 2 attempts, 1 crash. Breaker: 3 tasks, thresholds 2 | 287,922 | reordering never swaps; the outline read in pieces is whole; index and row agree after a handler that ran alone; what is viewed was allowed; no event is lost silently; a trip of the service's breaker is carried out |
| `content_reorder` | 2 modules, 1 request | (violation) | a checked swap of two modules is refused |
| `content_breaker` | 2 tasks, thresholds 2 | (violation) | an old success closes a circuit that a failed trial has opened |

**Several parts in one run.** Components that share no state have no interleaving worth exploring, so
a run may hold several of them: `part` is chosen in the first state and a behaviour runs that one
alone. Their states add up instead of multiplying, and each property is about one part. Where
components do share state they are composed in one module: `GatewayRequest` over the breaker, `Gate`
over `Routes`, `Structure` over `Content`, `Viewing` over `Publishing`.

Why the bounds are enough to be interesting. *Breakers*: a deadlock, a late result and a trial need
two tasks; four fill every await of both lock orders with tasks waiting behind. A threshold of 3 has
a count that is neither the first nor the last. *Routes, Gate*: two services can offer one path by
name, and an override and the public path meet; one change of a service or a policy falls between any
two of the reads of a refresh or a request, and a second would only repeat it. *Tokens*: three seconds
with lifetimes of two let a token be issued before, in and after the second of a mark, and everything
expire; two handlers are a login or refresh against a logout or password change, two password changes at
once, or an update against a deletion. The part about tokens has no changes of the rest of the row and only
tokens with a role, the part about accounts no password changes and no logouts: the property of each is
about those it has, and the theorems keep all of them together.
*Limits*: a window of two ticks in three, a third attempt above the limit of two, and one loss between any
two steps; the second client evicts the first. *Sign-in*: one state
brought by two callbacks, one role given by default and one that is a group. *Grading*: every finding
so far needs two calls; the three terms reach each branch of the late policy, and a second file makes
a resubmission differ from the first. Several students share only the assignment row. With
`MaxAstray` one of the files meets a lost answer, a failing delete or a restart, at any of its places. *Enrollment*:
two handlers race for one seat, and a third enrollment re-enrolls a removed student; in the part
of its own about seats a third student would be the one too many. Failed commands may oversell further, so
that part has none of them; the theorem counts them. *Prerequisites*:
three courses make the shortest cycle with an inner node; one handler, with a second spelling, makes
the shortest cycle there is. *Upload*: sessions share only the position
in the lesson, which `MoveSlot` takes and frees in place of other uploads; two chunks let one be
missing while the other was counted twice, and a third count is past the total; two handlers are two
completions that overlap, or one and a late chunk. *Content*: two items are the shortest list that can be swapped, two requests can each undo the
other's step, and `MaxPosition` leaves one place past the end. *Transcoding*: of two retries one is
followed by another and one is the last (the code has three, the theorems any number); two workers are
needed to hold one job twice. *Backend call*: each of four methods is called in another way, with a
client of its own, by none, by reflection with a message that changes, or with one that goes; two
changes are a service that stops and comes back, or is deployed between descriptor and answer. *Analytics*: two events
are a batch that fails in its middle, and one crash can meet every place a batch can be.

The runs `course_service` and `content` state no type invariant, and `access` only that of `Gate`, which
says the most: the types of all their parts are theorems (`EnrollmentTypes`, `TypeCorrect`,
`PublishingTypes` and the like).

Symmetry is used for tasks, calls, handlers, students and courses, which the modules only compare,
and only in runs without liveness; in `access` only for callers. `CHECK_DEADLOCK FALSE` is set where
the real system may stop, the deadlocks of the two breakers, and where ids, jobs, attempts or the
clock of an instance are used up.

**Fairness.** `FairCalls` (hang): tokio's RwLock queues its waiters first come first served, so a
lock that is free again and again is obtained, hence strong fairness of each acquisition; an
operation returns because the channel has a timeout; time passes. Even so `EveryCallReturns` fails.
For `EveryRequestAnswered` only the request timeout fires. `RefreshGoesOn`: the interval ticks and
the periodic refresh goes on, as a question to a service has a timeout. `AdminEnds`: an admin refresh
that began ends (one need not come). `TranscodingFairness`: an upload that created a job enqueues it,
and a worker in its loop goes on. Failures, crashes and changes are never fair. All other properties
are safety and assume none.

## 4. Disagreements with the documentation

Each is a run whose property states what a comment or a test says; TLC finds it violated.

1. `EveryCallReturns`: `call` is documented to return one of three results. `can_execute` takes
   `state` then `stats`, recording takes `stats` then `state`. In the gateway the request timeout
   breaks the circle, after every request in it has timed out.
2. `ClosesAfterFullTrial`: "Close circuit after 2 consecutive successes in half-open state". A request
   dropped between making the circuit half-open and clearing the counters leaves old successes in.
3. `NewestSubmissionKept`: "will replace existing submission if any". Grading and publishing write
   back the submission row they read earlier.
4. `OnlyDraftsChange`: "only draft grades can be updated". An update that read a draft overwrites the
   published grade.
5. `ReorderSucceeds`: the test of the content manager swaps two modules and expects it to succeed.
   Rows are updated one by one under a unique key that is not deferrable, so the first row of any swap
   meets the other. `GaplessStaysPut` is the other side of it: no reorder request ever moves an item
   to the place of another.
6. `TriedBeforeClosing`: "Any failure in half-open state reopens the circuit". In the breaker of the
   content service a success that has already decided to close does so after a failure has opened the
   circuit. It has the lock order of disagreement 1 as well, and its callers no timeout of their own.
   What does hold is `TripsAreCarriedOut`: whoever trips the circuit is on its way to open it, or was
   dropped on that way and nothing was recorded since.

What the models contain, without a run, because no document says otherwise:

- *Course*: the last seat of a section can be taken twice, or once per handler; `SeatsHold` bounds it.
- *Course*: a course named in another case than it was stored is another course to the search, so one
  request can make a course its own prerequisite, and a longer cycle goes unseen.
- *Grading*: an INSERT that was committed and whose answer was lost is taken for refused, and the file of
  the stored submission is deleted.
- *Upload*: chunks of expired sessions stay; the file of an upload whose position was taken has no
  resource. `main.rs` builds the handler without transcoding; an upload does not index its resource.
- *Publishing*: `main.rs` builds the manager without search, so only the parts built with it index.
  `update_resource` is three statements whose states in between can be read. A search always asks as
  a student.
- *Viewing*: a playback position may be set on an unpublished resource, and completing clears it. The
  download service reads the metadata `user_id` and `role`, the others `user-id` and `user-role`.
- *Content*: the text of a conflict is looked for in the outermost error only, so a conflict is
  answered as an internal error.
- *Analytics*: shutdown waits five seconds while a batch may take ten; what is in hand is lost.
- *Transcoding*: nothing looks for pending rows, so a message lost between queue and row is a job
  that never ends. The directory of a job whose transcoding failed stays on disk. `manifest_url` ends in `master.m3u8` and streaming appends it again.
- *Routes*: of two services with one path the periodic refresh keeps the first, the admin refresh the
  last. The admin route is reached only if the table routes its path. Nothing calls `clear_policy_cache`.
- *Tokens*: of two password changes at once the one that read the clock first can write its mark last, and
  tokens issued between the two are accepted again; so are revoked ones when Redis drops a key to make room.
  A token issued in the second of a password change, or by a login that had read the row before it, survives it; refresh tokens are not looked up in the blacklist; a whole-row update writes
  a stale `is_active` back.
- *SignIn*: a SAML token carries the roles from before the synchronisation; the synchronisation
  removes the default role unless it is a group; states that never come back are never removed.
- *RateLimits*: the expiry is renewed by rejected attempts too, and missing after a pipeline that
  failed between the two commands, until the next attempt; a counter that Redis drops and a list that goes
  with the service give every client a new allowance. A pipeline that the Redis client repeats after a lost
  answer counts one attempt twice, which is only stricter and left out. Without Redis at startup the fallback never looks for it again.
- *BackendCall*: every error of the call, the service's own `NotFound` included, is a 502 and a failure
  for the breaker; `map_grpc_error_with_context`, `grpc_status_to_http` and `GrpcClientPool::call` have
  no caller. Eleven methods that are sent to `call_user_service` (`Logout`, `RefreshToken`, the MFA ones)
  have no arm there and always fail. An answer of no bytes (`google.protobuf.Empty`, an empty list) is
  taken for no answer, so a deletion that succeeded is answered 502, where
  `tests/user_service_methods_test.rs:5` says that `DeleteUser` goes through the dynamic client. The
  descriptors are fetched for every call, as the client that keeps them is dropped with it. The fields
  the middleware adds for the service (`_auth_user_id`) are removed before the message is built.
- *GatewayLimiter*: eviction forgets a client's budget; an old time at the front of a queue keeps
  newer ones from being dropped, which is only stricter.

## 5. What is proved

For all values of the constants, under the named assumptions: `ConfigAssumption` (thresholds are
naturals, the mark for "nobody" is not a task), `UploadAssumption` (a session has a chunk),
`SpellingsAssumption` (a spelling names one course),
`RowAssumption` (the marks for a missing row are not rows), `TokensAssumption` (lifetimes are naturals,
access tokens do not outlive the mark of a password change, marks for missing rows are not rows),
`OutlineAssumption` (finitely many items, of four disjoint kinds, and marks that are not rows),
`PublishingAssumption` and `ViewingAssumption` (the same for the marks of resources, documents and
progress; resources are finitely many), `AnalyticsAssumption` and `ContentBreakerAssumption` (sizes and
thresholds are naturals, an event is sent at least once),
`RateLimitsAssumption` and `GatewayLimiterAssumption` (limits, windows and the bound of the clock are
naturals, the capacity is not zero, checks are finitely many, marks for no key and no clean-up),
`BoundAssumption`, `RetriesAssumption` and `NoRowAssumption` (a number of changes, at least one retry,
marks that are not job rows), `RoutesAssumption` (gRPC methods are finitely many, an override is of one
of them and has a path), `SignInAssumption` ("user" is a role, the mark for a missing person is none),
and those of `Grading` and `Enrollment` (marks that are not documents,
finitely many handlers, bounds that are naturals).

- `GatewayRequest_proofs`, first part, for the breaker alone: `TypeCorrect`, `LockDiscipline` (a lock is
  held exactly by a task suspended between its two locks), `CountersBelowThresholds`, and `Refinement`:
  the breaker implements `Breaker` under the mapping `Streak`. Types and lock discipline give mutual
  exclusion; the counter bound needs in addition that a trial that has not cleared its counters is
  exclusive. The refinement maps each action to a step or a stutter: results recorded while the circuit
  is open, or in the wrong counter, are stutters. Since `Breaker` does not see results, a success that
  forgot to clear the failures would be a stutter too; that one is `OpensOnThreshold`.
- `GatewayRequest_proofs`, second part, with requests dropped: `RequestTypeCorrect`, `NoGuardLeaks`,
  `OpensOnlyOnThreshold`. Dropped requests break the half of the breaker's invariant about half-open
  circuits (disagreement 2); the invariant here is the rest, with `CountsInRow`: while closed, the
  breaker's count is the true number of failures in a row.
- `GatewayRequest_proofs`, third part: `AdmissionFollowsPolicy`. The route a request was given travels
  with it, and `GateIInv` says what its policy is worth at each place: every cached entry was answered
  by a service for that method (`CacheWasAnswered`), the policy a request goes by is one of those, and
  past the check it is satisfied or the path is public (`RequestsDecided`). Nothing is needed of the
  table, so it may change in every way while requests are under way.
- `GatewayRequest_proofs`, the table: `RoutesTypes`, `GateTypes`, `FirstRouteOfPathStays`. All rest on one
  lemma about lists, `Ranks`: the places of a list that are kept are numbered by how many of them are up to
  each, without a gap, because ranks differ and none is larger than their number; so no induction over
  the list is needed. The invariant of the table adds that a refresh at a service has one left
  (`Asking`). The cache stays a function of service and method because a store removes what it replaces,
  and holds only what a service can state because `GateIInv` says that what is stored was answered.
- `Access_proofs`, the call: `BackendTypes`, `StatusIsTrue`. The invariant accounts for each request by
  where its handler is: before it sends, nothing is on the way and nothing was carried out; while it
  waits there is its one message, or it was carried out already or lost; with the bytes of an answer
  it was carried out. So a 400 or 503, given before anything was sent, stays true for ever.
- `Access_proofs`, attempts at an operation: `LimitsTypes`, `LoginsWithinBudget`. Counting the attempts
  that Redis let in is no use once INCR and the admission are two steps; each has a place instead, the number
  INCR gave it. `CounterInv` says that within one life of the counter the places of live admissions differ
  and are at most the limit, so there are not more of them; that the counter is past them and lasts as long
  as they do, since each attempt renews it; and that an attempt that is counted and not yet let in has a
  place of its own too, as long as the clock has not moved. `ListInv` says that every live attempt that memory
  let in on time is in the list, which has room only if those are fewer than the limit. Admissions are stamped
  with the moment, so they fall in the windows of that moment and later ones; windows of the past are fixed.
- `Access_proofs`, the gateway's limiter: `LimiterTypes`, `ClientsWithinBudget`. `QueuesRemember` says that
  a client's queue has, for every time whose window is not over, at least as many places since then as
  the client was admitted on time since then. A queue out of order is the difficulty: cutting it at the first time that
  is still in the window may keep old ones behind it, but never loses one that counts (`PurgedKeeps`).
  Eviction and expiry forget only clients of which nothing counts any more, or whose history goes with
  them. `BudgetsAreKept` joins both limiters for `LimitersSpec`.
- `Grading_proofs`: `GradingTypes`, `SubmissionsHaveFiles`, `NoFileLeftBehind`, `SubmissionsAreWhole`,
  `StatusNeverAhead`, `EventsAreTrue`: all six invariants of the run. `PenaltyBounded` and
  `LaterIsNoBetter` are lemmas about the late policy. What a call carries between two statements is
  bounded by history, not by the rows, which others write meanwhile: the row of a call is one that was
  made (`Rows`), with a status whose grade exists; the file of a call that has not stored its row is
  named by no row and no other call (`FilesOK`), which is why deleting it on an error is safe. The
  exception is a row that was stored without an answer: the call deletes its file all the same, and
  `RowsHaveFiles` says that no other row can lose one.
- `CourseService_proofs`, first part: `EnrollmentTypes`, `SectionsNeverOvercount`, `QuietCountsAreExact`,
  `SeatsAreHeld`.
  The invariant `Balances` adds to the count of a section the handlers that owe it one, because they
  have made an enrollment and not yet counted it, or counted one down and not yet deleted it: the sum is
  at most the number of its students, and, unless a removal was doubled, short of it by no more than the
  commands that failed. The first two theorems are its two halves. For the third, `Seated` adds to the
  students of a section those it has let in: when one is let in, the count was below the limit, whoever
  is beyond the count has a handler that owes it or a failure that left it, and those let in have handlers
  that owe nothing, so all of them are at most one for each handler and failure. `Links` says which enrollment a removal means and that no other
  removal means it, and needs that ids are never reused.
- `CourseService_proofs`, second part: `TypeCorrect`, `SearchesAreClosed`, `NoCycleUnlessCrossed`. A
  cycle is a nonempty set of courses each with a prerequisite in the set, so no induction over paths is
  needed: the new prerequisite can only close a cycle through its course, and then the courses visited,
  closed under prerequisites and without the course, would hold part of the cycle, a contradiction. That
  the course is not among those visited is known of its spelling; `NamesKept`, one spelling for each
  course that is named anywhere, carries it over, and is what `respelled` gives up.
- `Transcoding_proofs`: `TranscodingTypes`, `NoJobGoesAstray`, `RowsKeepTheLifecycle`. `JobsAccounted` counts the hands a job is
  in; the invariant says the same without counting (`OneHand`), and adds what makes it last: a job in
  hand has a retry left and whoever has it knows the count of its row (`RowsOK`), so that a failure that
  is not retried is the last one, and a worker that completes a job has passed both uploads and the
  metadata (`StagesOK`). The refinement of `TranscodingJob` needs in addition the status of the row in
  each hand (`StatusKnown`): pending with the upload and in the queue, processing with a worker, failed
  until it is reset. Each action then maps to one step of the row or to a stutter; that a failure always
  has a retry to count is `RowsOK`.
- `Upload_proofs`: the types and all six invariants of the run. They are not inductive, because a handler acts on
  a session that others have changed since it read it. The invariant `IInv` adds, per place in a
  handler, what it may still rely on: a handler about to store has read all chunks
  (`StoreIsWhole`), one past storing has its whole file (`CleanHasFile`), one about to mark has made
  a resource (`MarkHasResource`), a chunk about to be counted is in storage or accounted for
  (`CountedAreKept`), a cleanup that is over lasts until its handler is done unless a chunk is late
  (`FinishingClean`) or its deletion was refused. `Counted` compares the number of acknowledged chunks with the count.
  `OneCompletion` and `Spent` say that after a resource was made, the only chunks left are those whose
  deletion was refused, and the only handlers still completing the session have marks left to set or have
  read nothing but such chunks.
- `UserAuth_proofs`, first part: `TypeCorrect`, `RevokedIsRefused`, `DeletedIsInactive`. The invariant
  behind the second relates each revoked token to the key or the mark that refuses it, and says that the
  key lasts until the token's end, or `lapsed` has it: a mark holds a second that had passed when it was
  written, and so outlives every access token from before it, which is where those must not live longer than
  a mark. Where an older second replaces a newer one, what only the newer refused has lapsed. The third says that
  once the account is deleted, an update under way that would make it active was asked to, or
  `crossed` is noted.
- `UserAuth_proofs`, second part: `SignInTypes`, `OneSessionPerState`, `SyncReachesGroups`. A state that
  is not yet gone from the map has bought no session and nobody brings it, and of a state that is gone
  one callback at most is on its way (`StatesOnce`), so a failure, a restart or a second callback buys
  nothing. What a synchronisation has left to add and to remove is the difference between the groups and
  the roles as they are, unless it was disturbed (`PlansLead`). Both need that whoever has read the row
  still has one (`RowIsRead`): accounts are deactivated, never removed.
- `ContentService_proofs`, the outline: `TypeCorrect`, `ReorderingStaysPut`, `OutlineIsWhole`, for
  outlines of any size. The second is about one step: an UPDATE in a list without gaps goes to a place
  nobody has, and the only such places are past the end, since the places are as many as the items. The
  third follows the reader: a resource that was visible all the time is shown or is still to be listed,
  because its lesson and its module cannot be deleted before it and no row moves to another parent.
- `ContentService_proofs`, publishing: `PublishingTypes`, `IndexFollowsRow`. `alone` is a promise about
  the past that must hold until the handler ends: `PublishingInv` says that a handler alone with its
  resource has no company, that the document it is about to index is the row as it stands or that the
  index is already empty of what it deletes (`MayRely`), and that nobody is at a settled resource.
- `ContentService_proofs`, viewing: `ViewingTypes`, `ViewsWereAllowed`, over any managers at work. Who
  signs, tracks or completes goes by a decision taken earlier; `Decided` names these places, and the
  invariant keeps the student in `could` at each of them, so a resource may be unpublished meanwhile.
- `ContentService_proofs`, analytics: `AnalyticsTypes`, `EventsStayAccounted`. `EventsAccounted` counts
  places; the invariant says for each pair of places that an event is not in both (`Apart`), that the
  list holds an event once, and that the retrier, the only one to take from the list, never means to
  take more than there is (`RetrierOK`). An event that has left every place was received, has expired or is lost
  in a crash; one that was received and is still kept had its answer lost.
- `ContentService_proofs`, the circuit breaker: `BreakerTypes`, `NoTripIsForgotten`. Here the property is
  inductive with the types alone: a call on its way stays on it, and only `StampChange`, which clears
  the count, `ChangeState`, which opens the circuit, or `DropCall`, which sets `abandoned`, ends that way.
  `abandoned` may be forgotten at the next `Record` or `ChangeState`, since that one is then on its way.

Only model-checked: the liveness properties, `RoutesConverge` among them; the six disagreements are
counterexamples. Every invariant and every action property that a run checks is a theorem too. Liveness under fairness and ENABLED, and induction over data, are out of the prover's
reach. No module declares a RECURSIVE operator.

## 6. What is not modelled

- *Gateway*: the gRPC pool (a round robin over channels), what the converters make of a body beyond
  whether they succeed, configuration, generated documentation, metrics. Discovery through reflection is what a service
  answers in `Routes`, not the protocol of it.
- *Course*: cross-listing (nothing says what should hold of a group after one of its writes failed),
  and titles, co-instructors and templates, which are single-document writes.
- *Grading*: the gradebook only reads. The grading services are built in `main.go` but not yet
  registered with its gRPC server; the model lets their methods be called in any order and
  concurrently, as a server would.
- *Content*: the text of queries, signing of URLs, `resume_upload`, the three
  attempts that `s3_client.rs` makes through `retry.rs` (a step that fails here has failed at the last
  one; a put or delete made twice is the same as once), reports by course. The models read the SQL as it states, also where the code
  binds the text `NOW()` as a parameter.
- *Gateway and backends*: `convert_grpc_to_http` fails only on JSON that the gateway made itself
  (`gateway.rs:308-321`), so `AnswerClient` has no such branch. A request to Elasticsearch that
  timed out and is applied later is not followed: `IndexSettles` is about handlers that met no error.
  `ViewedWasAllowed` takes access as it was at some time since the request came; that a decision may be stale
  when it is acted on is a hazard it does not catch.
- Redis keeps its lists here, the queue of `Transcoding` and the batches of `Analytics`: a message of the
  queue is lost in other ways, and an eviction of the list would lose batches as a crash does.
- *User-auth*: checks of signatures and metadata are a step that succeeds or fails; `Cleanup` of the
  limiters and `cleanupExpiredStates` have no caller.
- Durations are not compared: that a backend's own timeout is as long as the request timeout is a
  hazard without a property. Fields that are only copied (titles, feedback, addresses) are left out.
- The frontend (on mock data), protocol definitions, deployment and scripts keep no shared state.

## 7. Plan

The most important behaviour came first: breaker and requests, grading, enrollment, prerequisites and
uploads; then routing and authentication, tokens and sign-ins, the limiters, and the rest of the
content service. What is left:

1. `CrossListing`, should the repository say what holds of a group after a failure.
2. A refinement of `Breaker` by `ContentBreaker`, once that breaker decides and changes under one lock.

A disagreement run is kept only as long as it says something no other run says.

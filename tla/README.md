# ComplianceGuard, modelled, checked and proved

ComplianceGuard collects evidence (on desktops, in AWS, by upload) and scores it against four compliance
frameworks. It is a FastAPI server, a React web client and an Electron desktop application that works
without the server. This directory models the parts of it in which several things happen at once or
something may fail half-way, and the scoring both sides must agree on. Paths below are relative to `src/`.

* [Inventory](#inventory): every part, its state, its operations, what is hard about it
* [The modules](#the-modules): what is modelled and how it corresponds to the code
* [What the runs show](#what-the-runs-show): bounds and fairness included
* [What is proved](#what-is-proved)
* [Where the code and what is said of it differ](#where-the-code-and-what-is-said-of-it-differ)
* [Not modelled](#not-modelled), and the [plan](#plan)

To repeat a check, in this directory: `tlc -config MCSessions.cfg MCSessions`, `tlapm SessionsProofs.tla`.
`PROJECT.json` lists the runs, the source lines behind every definition, the hazards with the properties
that cover them, and for each property a changed definition that the run must, and does, object to.

## Inventory

### Server (`backend/app`)

| part | state | operations | hard because | correct when |
|---|---|---|---|---|
| **Sessions** `api/auth/session.py`, `password.py`, `models/refresh_token.py` | users, refresh tokens with family and revocation, reset links | login, register, refresh, logout, forgot and reset password, delete account | handlers give up the event loop at every password hash; several workers interleave at every statement; answers get lost | a family has one live token; an ended session stays ended; a reset ends what was there; a token is its user's, also after the address was registered again |
| **Audit chain** `services/audit_service.py`, `models/enterprise.py` | rows linked by hash | `log_event`, verification, deletion of an account | threads append behind the same head; retries; `ON DELETE SET NULL` changes signed rows | one chain, appended to at its end; nothing logged twice |
| **Roles** `api/enterprise/rbac.py` | the role of each user | assign role | the guard counts, then writes; both in threads | an admin is left |
| **Machines** `api/machines.py` | a user's machines | sync | the limit is counted before the insert; `IntegrityError` fallback | limit, nothing lost, no endless retry |
| **Evidence** `api/evidence.py` | collections and items, files on disk | upload, AWS collection, read-only views | disk and database have no common transaction; the user may be deleted meanwhile | every item has its file, no file without a reason, nothing for a deleted account |
| **Scoring** `core/canonical_evidence.py`, `api/canonical_router.py` | none: a function of the stored types | evaluate, automation summary | two implementations; fractions, rounding; manual controls | both engines answer alike; manual controls need uploads; more evidence never lowers a score |
| **Sign-in** `core/login_throttle.py`, `api/auth/session.py`, `verification.py` | failed log-ins in a window; verification links | log in, register, resend, verify, delete account | asked before and told after a password check in a thread; links of deleted and re-registered addresses, old links stored as they are | guesses are bounded and the lock lifts; a verified address was mailed |
| **Evaluations** `api/compliance.py`, `iso27001.py`, `hipaa.py`, `gdpr.py` | stored results, old ones on another scale | evaluate (manually, from evidence), history, assessments, report | evidence and accounts change meanwhile; flush, commit and audit event may fail each by itself; two scales in one table | stored as a whole; read as it was written; claims no more than the evidence |
| **AWS** `api/aws_credentials.py`, `core/credential_crypto.py`, `services/evidence_collector.py`, `integrations/aws.py` | encrypted credentials, the configured keys, collections | save, delete, collect | keys are introduced, changed and dropped over old rows; ids are a second long and unique over all users; partial failures | rows stay readable and whole; a collection is stored or refused; a status claims no more than was found |
| **Licences** `core/license.py`, `api/auth/license.py`, `api/deps.py` | tier and key of each account | activate, license-info, paid gates | the tier is stored and read ever after, while keys lapse and accounts go and come | a paid gate was earned |
| **Frame** `main.py`, `core/` | settings, limits, metrics | migrations, hourly cleanup, CORS, CSRF | several workers start at once | |
| **Branding, exports** `api/enterprise/` | one row | update, upload of a logo; exports read | row read, then inserted | |

### Web client (`frontend/src`)

| part | state | operations | hard because | correct when |
|---|---|---|---|---|
| **Session** `contexts/AuthContext.tsx`, `services/api.http.ts`, `tokenStore.ts` | token and user in each tab's memory, `isRefreshing` and a queue, a cookie shared by all tabs | load, log in, log out, requests, refresh on 401 | queue around one refresh; two tabs with one cookie; lost answers; reloads at any point | no request is left waiting; a refresh is not mistaken for reuse; a tab acts for the user it shows |
| **Views** `components/` | what they show | | | |

### Desktop application (`electron`)

| part | state | operations | hard because | correct when |
|---|---|---|---|---|
| **Scheduler** `scheduler.js`, `ipc/` | one row: schedule, next run; a flag | start, check every minute and on resume, collect, change the schedule | long collections, kills at any statement, a second copy of the app | no slot lost, none collected twice, collections keep starting |
| **Cloud session** `cloud-sync.js`, `secure-storage.js` | four settings | connect, sync, disconnect | each setting is committed alone; fetches interleave; keychain failures | settings are of one session; the stored token is the current one |
| **Evidence and results** `processing/evidence-processor.js`, `canonical-engine.js` | rows per framework, files, three records per collection | process, score, upload | nothing is transactional: kills and failures anywhere | files are not written over; what is on record is in store |
| **Update manager** `update-manager.js` | `_checking` | check, download, install | a promise that never settles | a later check is possible |
| **Licences** `licensing/` | licence file | activate, gate | port of the server's code | both sides agree |
| **Database** `database/sqlite.js` | SQLite | statements, migrations | synchronous, each committed alone | |
| **Collectors** `system/` | none | commands of the operating system | time-outs | |
| **Reports, remediation, audit trail** | a hash chain of entries | text; append | only a second copy could come between | |
| **Frame** `main.js`, `preload.js` | windows | launch, quit | no single-instance lock | |

### Shared

`shared/frameworks/*.yaml` and `evidence-vocabulary.json`: 221 controls in four frameworks and the names
of the evidence. Both engines load them. Two more definitions are kept there that no engine loads.

### How the parts interact

The web client and the desktop's cloud session each hold a refresh token of a server session: both are
composed here with what the server promises (`RotatingSessions`), and `Sessions` is shown to keep that
promise. Deleting an account reaches into the audit chain, the roles, the machines and the evidence, which
is why each of those modules has the deletion as an action of its own. The AWS collector, the endpoint
collectors and uploads all end up as rows whose types the engines translate through the vocabulary
(`EvidenceVocabulary`) and score (`ScoringEngine`) against the frameworks (`Frameworks`); evaluations store what the engine
answers for the rows of that moment. Evidence and audit go through
SQLAlchemy sessions that roll back on error; the desktop's SQLite answers at once and commits each statement
by itself. That difference decides where steps begin and end in every module.

## The modules

```
LinearLog        <== AuditLog           (refinement)                    AuditLogProofs
RotatingSessions <== Sessions           (refinement)                    SessionsProofs
RotatingSessions --> WebSession         (composed: INSTANCE as Server)  WebSessionProofs
RotatingSessions --> CloudSync          (composed: INSTANCE as Server)
EvidenceStore                                                           EvidenceStoreProofs
Accounts   = SignIn, RoleAssignment, Licences                           AccountsProofs
Fleet      = MachineRegistry, Scheduler                                 FleetProofs
Desktop    = CloudSync, LocalEvidence                                   DesktopProofs
Compliance = AwsCollection, Scoring, Evaluations                        ScoringProofs
EvidenceVocabulary --> ScoringEngine --> Scoring, Evaluations   (over Frameworks)
MC<module>         the instance TLC checks
```

Four modules hold several components that share no state a property relates: **Accounts**, **Fleet**, **Desktop** and
**Compliance** (whose instance for TLC is `MCScoring`). A behaviour exercises one of the components, chosen at the start
(`part`), and the others stand still, so that the states explored are the sum of the components' and not their product.
The properties of the instantiated components have their names there, for the runs and for the theorems.

**AuditLog** (`audit_service.py`). `rows` is the table: a row's hash is its own id, what it was signed over
is `prev` and `signed`; `nextId` the sequence; `call` the progress of each `log_event`: head read
(`ReadHead`), flushed (`Insert`), committed or rejected by the unique constraint (`Commit`), tried again up
to `MaxAttempts`, told of its commit (`Return`), or cut short by a kill or a lost connection. Cut short between `Commit` and
`Return` it is `unsure`: its row is there, and nobody knows. The history `by` says which call inserted a row. `DeleteAccount` sets `user_id` to NULL in every row of the user, as the foreign
key does. `LinkHolds` and `SignatureHolds` are what `verify_audit_chain` compares. `Seeded` says whether the
table has its first row yet. **LinearLog** is the promise: one last entry, each new one behind it.

**Sessions** (`session.py`, `password.py`). `token` is the table `refresh_tokens`, `account` the user of each
address with its reset link, `call` the requests. A handler is cut where it awaits (password hash, mail) and,
with `Scaled`, at each statement; without, what lies between two awaits is one step, as the event loop
guarantees. `carried` is a history flag: the token was there at a reset, or descends from one that was.
**RotatingSessions** is the promise: a session begins with a fresh token, exchanges it, ends for good.

**SignIn** (`login_throttle.py`, `session.py`, `verification.py`). `failures` has the ages of the failed log-ins of each
address in lower case; `LoginAdmit` asks the throttle, `LoginAnswer` tells it what the thread found, and any number of
attempts may be between the two. `account` is the row of an address as typed, with its verification token in the form
it is stored in: the link itself (rows from before hashing), its hash, or nothing. `VerifyEmail` looks for the hash of
what is presented, then for the plain value, as the handler does; what is presented was mailed, or is what the database
holds. A restart forgets the throttle's memory.

**Licences** (`core/license.py`, `api/auth/license.py`, `deps.py`). A key is genuine or not and names an address, a tier
and a last day; `ValidOn` is what `verify_license_key` asks, the grace period included. A genuine key may name nobody (its email
empty or null) and then serves any account. `shown` is what the last
license-info said.

**RoleAssignment** (`rbac.py`). `require_admin`, the count of admins, the write, and the audit event that
commits after it, each a step, because a plain `def` route runs in a thread.

**MachineRegistry** (`machines.py`). Lookup, count, commit, and after an `IntegrityError` the second lookup
and commit. `snapshot` names the request whose values each machine shows.

**WebSession** (`AuthContext.tsx`, `api.http.ts`). `tab` is a tab's memory (page, user, token, `isRefreshing`);
`op` the requests under way; `cookie` is one for all tabs. A request is sent, served and answered in separate
steps wherever something could come between that would tell. A 401 may come at any time, as access tokens
expire. Histories: `hurt`, sessions whose token two tabs sent at once or whose new token got lost; `strayed`,
tabs beside which somebody else signed in.

**CloudSync** (`cloud-sync.js`). `setting` is the four rows of `user_settings` and `op` how far each
IPC handler has come, in which copy of the app. Each setting is read and committed in a step of its own, and a write may fail.
Within a copy nothing else runs between two of them except a kill; the handlers of a second copy come in anywhere.
`torn`, `crossed` and `hurt` record kills and failed writes half-way, copies that write at a time, and overtaken syncs.

**Scheduler** (`scheduler.js`). Time goes round a week; `due` is the time left to `next_run_at`, 0 when due. `run`
is how far each copy's collection is, `running` its flag. A failure may happen at every step that can throw.

**LocalEvidence** (`evidence-processor.js`, `ipc/evidence.js`, `audit-service.js`). `files` is the evidence directory,
`rows` are `evidence_items`, and `snapshots`, `ledger` and `trail` the three records of a collection (how the trail is chained
is left out: nothing on the desktop reads it). `call` is what each
copy of the app is doing, statement by statement; bytes are named by the call that wrote them. Scheduled runs go on from
framework to framework, which is where Scheduler's `Process` is taken apart. Nothing is transactional, every statement may
fail, and a kill may leave half a file.

**EvidenceStore** (`evidence.py`, `delete_account`). `collection` are committed rows, `file` the disk. A request
authenticates once and then works for that user; it stores the file, flushes, commits, and on a failed commit
removes the file. A commit may also fail after it took effect (`unsure`), and any worker may be killed.

**AwsCollection** (`aws_credentials.py`, `credential_crypto.py`, `evidence_collector.py`, `integrations/aws.py`). A
cipher is its value, the derivation it was keyed with and the key; `Readable` is the order in which `decrypt_credential`
falls back. A save is two steps, the query and the commit, which only several workers interleave; the UPDATE sets the
columns that differ from what was read. A collection takes its id when it starts and is inserted when it ends. What
the two collectors find is every combination of the kinds of buckets and policies the analysis tells apart.

**ScoringEngine** over **EvidenceVocabulary** and **Frameworks**. Both engines, function by function, over all 221
controls: translation through aliases, control result, manual gate, averages as exact fractions, rounding
(half to even on the server, half up on the desktop), status thresholds. In **Scoring** the state is the store that
collectors and uploads fill. In **Evaluations** it is the table of evaluations: a manual evaluation scores the types its
request names and stores an assessment per control; an automatic one scores the rows of its user and stores none.
The record is flushed, committed, refreshed and logged in separate steps, each of which may fail, the commit also after it took
effect, while evidence arrives and accounts go. `RecordView`, `AssessmentView` and `History` are what is read back; rows from before the 0-100 scale are in the table
from the start, and the histories `legacy` and `truth` say what a row means. `stored` is a set of rows; ids are in the order
of `created_at`, which is when the transaction began, and history goes by them.

## What the runs show

| run | instance | distinct states | checks |
|---|---|---|---|
| `audit_chain` | 3 calls of 2 attempts, 2 users, 7 ids, seeded | 84 154 | no interleaving, retry, kill, lost connection or deletion breaks a link; no event is logged twice, and only a commit in doubt leaves the row of a call that did not return; every call ends; `LinearLog` is implemented |
| `audit_genesis_race` | the same, empty table | | **violated**: `NeverForks` |
| `sessions` | 2 addresses, 2 requests, 1 worker, 2 users, 4 tokens, 1 link | 1 156 939 | tokens have the owner of their address; one live token per family; a reset ends what was there; `RotatingSessions` is implemented |
| `reset_link_reuse` | the same, smaller | | **violated**: `ResetLinkIsSingleUse` |
| `accounts` | sign-in: 2 requests, 2 spellings of an address, 2 failures in a window of 2 ticks, 2 users, 3 links; roles: 2 requests, 2 users; licences: 2 addresses, 18 keys of either and of nobody, 4 days | 716 756 | guesses are bounded and the lock lifts; a verified account was mailed; a paid gate was earned by a key not made out to another; only an outdated count takes the last admin |
| `lapsed_key` | the same | | **violated**: `LapsedKeyShowsFree` |
| `fleet` | machines: 2 requests, 3 hosts, limit 1, several workers; scheduler: 2 copies, 2 frameworks, a week of 2 days of 2 ticks | 339 625 | limit overshot by less than the requests at once; success means stored; every sync is answered; next run is the next slot; one collection per slot; a slot is given up only for a result; collections keep starting |
| `web_session` | 2 tabs, 2 requests, 2 accounts, 3 token pairs | 327 218 | queues are served; refreshes carry the current token; tabs act for their user |
| `web_reload` | the same | | **violated**: `ReloadRestoresTheUser` |
| `desktop` | session: 2 operations in 2 copies of the app, 2 accounts, 3 token pairs; evidence: 2 copies, 2 calls, 2 frameworks, 1 file name | 1 714 672 | settings of one session; stored token current; a sync ends its session only by overlapping another; files are not written over; what is on record is in store |
| `evidence` | 3 requests, 2 users, 3 ids | 2 449 013 | items have their files; deleted accounts stay empty; files are accounted for |
| `scoring` | AWS: 2 requests, 1 user, 2 sets of credentials, 2 values of `SECRET_KEY` and 2 of the dedicated key, of which one is also a `SECRET_KEY`, 2 seconds; stores: the shipped frameworks, up to 2 uploads or 1 gap, up to 2 failing collectors; evaluations: 2 at a time of 2 users, controls of all four frameworks, 3 kinds of old rows | 1 178 309 | credentials readable and whole; a status claims no more than was found; engines agree; manual controls need uploads; evidence never hurts; history claims no more than the evidence; old and new rows are read as they were meant; evaluations are stored as a whole and answered only when stored |

**Why these bounds are enough to be worth something.** A race needs two actors and one of them in the middle
of something: every instance has two requests, operations, tabs or copies at once, and three where a loser must
lose twice (the audit log) or where a deletion meets two writers (the evidence). Ids and tokens are counted up
and never reused, so their bound limits the length of a history: on the server four tokens are a log-in, a rotation,
a reuse and a session after it; on the desktop three are two connects and a rotation, or a connect and a rotation by each of two syncs; seven ids are all that three calls of two attempts can draw. Two users with one
address are the deleted one and the next. Three verification links are one that was stored as it is, and one each for two
registrations or resends; a limit of two failures is met by two requests in flight together. Two keys and two dedicated ones with one
in common are enough to introduce, change, drop and reuse one over rows of every age. On the desktop one file name makes every file a
collision, and two calls are a failed one and the next, or one of each copy. Two evaluations meet in every order, and with the old
row there is one more than history shows (its limit, 50 in the code, is 2 here). A week of two days of two ticks has the wrap on "Monday", a slot that
is today and one that is past. Larger instances of `WebSession` (three requests; four tokens) were tried and
agreed. Symmetry is used only where the actors are interchangeable and no liveness is checked. No run
looks for deadlocks: a behaviour ends when the ids are used up or the calls are done, and a deadlock there says
nothing; that every call does end is asked as liveness where the code justifies the fairness.

**Fairness.** Three runs assume any. `AuditLog`: a thread inside `log_event` goes on (weak fairness of its
steps); its loop is bounded by `range(3)`, so this is enough for `EveryCallEnds`, and a kill ends a call too.
`SignIn`: time passes (weak fairness of `Tick`), and
nothing is assumed of whoever tries the address meanwhile. `MachineRegistry`: the handler goes on, as it awaits nothing.
`Scheduler`: the clock ticks, the
60-second timer's check runs when it can, and a collection goes on because each command of a collector
has a time-out (`system/windows.js:16` and its siblings). The scheduler's liveness property is for a copy that
stays open with the schedule left alone; nothing is assumed of users, networks or successful steps. The
client modules check safety only: nothing obliges a user to come back, or a server to answer.

## What is proved

TLAPS checks the following for every number of calls, users, tabs, tokens, hosts, copies of the app and ids, and for every
framework, schedule and key. Every safety invariant and every action property of the passing runs is stated by a theorem.
Most of them are not inductive as they stand: the property itself does not say why the next step keeps it, and an
inductive invariant that does is named below for each.

| module | theorem | says |
|---|---|---|
| `AuditLogProofs` | `TypeCorrect`, `ErasureOnly`, `ReturnsAreLoggedOnce`, `ChainRefinement` | types; only erasure breaks a seeded chain; one row per call that returned and none for another, a commit in doubt excepted; `LinearLog` is implemented |
| `SessionsProofs` | `TypeCorrect`, `TokensOwned` | types and owners, with any number of workers |
| | `OneLiveToken`, `ResetEnds`, `SessionRefinement` | with one worker (`~Scaled`) |
| `WebSessionProofs` | `TypeCorrect`, `QueuesServed`, `CurrentTokens`, `TabsOwnTheirRequests` | the three properties of the run |
| `EvidenceStoreProofs` | `TypeCorrect`, `ItemsHaveFiles`, `DeletedStayEmpty`, `FilesAccounted` | the three properties of the run |
| `AccountsProofs` | `TypeCorrect`, `GuessingBounded`, `OnlyMailVerifies` | sign-in: failures in a window are fewer than the maximum plus the requests at once; verified accounts were mailed |
| | `RoleTypes`, `AccurateCounts` | roles: only an outdated count takes the last admin |
| | `LastAdminStays` | where nothing overlaps, there always is an admin |
| | `LicenceTypes`, `TiersEarned` | licences: a paid gate was earned, by a key not made out to another address |
| `FleetProofs` | `TypeCorrect`, `Overshoots`, `Stored` | machines: overshoot, with any number of workers; success means stored |
| | `LimitHolds` | with one worker the limit is exact |
| | `ScheduleTypes`, `NextRuns`, `RunsOnce`, `ServedRuns` | scheduler: the next run is the next slot; one collection per slot; a slot is given up only for a result |
| `DesktopProofs` | `TypeCorrect`, `SettingsStayWhole`, `StoredIsCurrent`, `SyncsKeep` | the session: the three properties of the run, for any number of copies |
| | `EvidenceTypes`, `RowsKeepFiles`, `RecordsAreMatched` | evidence: files are not written over; what is on record is in store |
| `ScoringProofs` | `TypeCorrect`, `NothingLost`, `NothingFabricated` | AWS: keys lose nothing that is still configured, a former `SECRET_KEY` over rows from before HKDF excepted; a status claims no more than was found |
| | `OneSave` | with one worker a row is of one save |
| | `Agree`, `NeedsUpload`, `NeverHurts` | both engines agree; manual controls need uploads; more evidence never lowers a score |
| | `HistoryClaims`, `Faithful`, `Whole` | evaluations: history claims no more than the evidence; old and new rows are read as they were meant; stored as a whole, and answered only when stored |

Along these lines:

* **AuditLog.** Ids are drawn once (`IdsFresh`). A call inside an attempt holds a committed predecessor older than
  its own id (`Behind`), and every row but the last has a successor (`OneEnd`). So a call whose predecessor is
  still unclaimed, as the unique constraint demands, holds the last row. That the order of ids is the order of the
  chain is the subtle part: ids are drawn before the commit, so a call with a smaller id that commits later must
  have lost its predecessor to the one that committed first. `OneRowPerReturn`
  is inductive with the types: the history `by` ties a row to its call, a commit moves the call on, and a deletion rewrites
  rows without taking one out.
* **Sessions.** `AInv`: user ids are handed out once, and an id that a request carries can only be that of the address
  it carries. That gives the owners. `LInv` adds that one request holds the event loop (`Loop`), hence the token
  it is about to rotate is still live (`Rotating`): this is where a second worker breaks the argument, and the
  assumption `~Scaled` is stated in the theorems that need it.
* **RoleAssignment.** `CountedEnough`: a request that may still write a demotion has counted more than one admin, or its target
  was none when it looked. Taking the last admin then needs a set of admins that is no longer the one counted. `LastAdminStays`
  adds that the count is still the set of admins (`StillCounted`), which one request at a time keeps.
* **Licences.** `Earned` is the property for every account, not only for those that ask at a gate: tier, key and day of the
  activation are written together, and a deletion clears all three.
* **Scheduler.** `ScheduleInv` relates a run to the row. The configuration that a run is about to compute the next time from is
  the one in the row (`ReadConfig`), although it was read a statement earlier; a slot that was started has a run that is not
  finished (`StartedOnce`); a run that reports success worked through every framework (`WorkedThrough`). That `calcNextRunAt`
  gives the first matching tick is arithmetic on quotients and remainders (`CalcIsNextSlot`, `RemaindersApart`).
* **LocalEvidence.** `FilesInv` says where the file of a call is while the call names, writes, hashes and files it; a name is
  free when chosen (`FreePathIsFree`). `RecordsInv` says what a call has stored so far: rows of
  the framework it has come to, from the buckets behind it and as many as it counts (`RowsSoFar`), and an entry for every
  framework before (`EntriesSoFar`).
* **ScoringEngine.** An engine's score is a fold over a set, and the prover cannot use the library's induction theorems, which
  take an operator as parameter. So the function that the fold applies is shown to exist by well-founded induction over the
  size of subsets, a set of numbers in place of a predicate (`NumbersBelow`); two sums are then compared term by term (`SumsCompare`,
  `SumsEven`), and divisions by quotient and remainder (`RoundsMonotone`, `RoundsAlike`). The engines round alike unless a
  share or an average is a half (`NoHalf`): that takes eight types or controls, or sixteen where scores are even.
* **Scoring and Evaluations.** `StoreInv`: what the collectors filed is of the types they file. `EvalInv`: ids are handed out
  once (`DistinctOf`), what has not been committed or was refused before that is not in the table (`UnstoredOf`), what was
  answered is, while its user has an account (`AnsweredOf`), a row is one of this version or
  an old one (`TableOf`), and what an automatic evaluation claims, stored or under way, its user's evidence covers
  (`ClaimsOf`): evidence only grows while the account is there, and more evidence never hurts.
* **MachineRegistry.** A request that answers as stored has just written to the row of its host, whichever of its two commits
  it was (`Stored`). Machines plus the requests that have counted and not yet inserted are at most the limit plus
  the requests less one; with one worker nobody else is between its count and its insert.
* **EvidenceStore.** An id belongs to one request (`IdsAreOwn`); what a request has stored and not committed is on
  disk (`PendingFiles`); after the flush the row lock holds off the deletion of the user (`FlushHoldsTheUser`).
* **CloudSync.** A handler that no other has crossed is the only one that writes (`Crossing`), and what it has saved so far is
  told by its phase (`Stage`): that gives whole settings. A token pair that was received and not stored is current and known to nobody
  but the operation that has it (`Unshared`); a stored token is current, or an operation has exchanged it and is about to
  store its successor, or something has interfered (`StoredIsCarried`). The two say what a refused refresh can have been.
* **SignIn.** The failures of an address plus the checks in flight for it are fewer than the maximum plus the number of
  requests (`GuessInv`): admitting one needs a free request and a window that is not full. Every link was made for one
  user, an account holds a link of its own or none, and what a request is about to mail is its user's (`LinkInv`, `RowInv`).
* **AwsCollection.** Rows keyed without HKDF have not been saved since (`ShaIsUnsaved`), and saves use HKDF: so the three
  derivations tried cover every row of a configured key but the excepted ones. That a save in flight has seen the row as it is
  (`SeesTheRow`) is where a second worker breaks `OneSave`. `NothingFabricated` goes over the kinds of findings.
* **WebSession.** A calm session, one that nothing has interfered with, has at most one refresh in flight. It carries
  the current token or has received it, and the cookie is that token or the one just given for it (`Flow`,
  `FlowCookie`). Cookie, token and requests of a tab that has not strayed are its user's (`Own`). `PagesLoadOnce` and
  `QueuesAreServed` bound what a tab can have under way.

The assumptions are the named `ASSUME`s on the constants of each module and the hypotheses the theorems state, and no
others: positive bounds, `None` is no account and no key, finite sets where something is counted, `~Scaled` where one worker is meant. A module that is instantiated has its conditions in a definition, which the theorems
have as hypothesis and an `ASSUME` of the MC module evaluates: `ScheduleConstants` (there are times, within the day),
`EvidenceConstants`, `LicenceConstants`, and of scoring:

* `StoreConstants`, `EvalConstants`: frameworks are finite, and the four that are evaluated have controls.
* `NoHalves` (`Agree`) and `NotFromS3` (`NeedsUpload`): two facts of the frameworks as shipped that the code relies on without
  saying so. `MCScoring` evaluates them over all 221 controls (`SharesAssumption`); the theorems say that they are all it takes, so
  an edit of a framework that keeps them keeps the two properties.
* `OldConstants` (`Faithful`): rows from before the 0-100 scale have statuses of either vocabulary, and scores of controls in
  whole percents, as a reader rounds them to an integer.

Two assumptions about the outside are in the models and so in
the theorems: HMAC-SHA256 is injective (`AuditLog`; likewise the hashes and ciphers of the others), and the database
keeps its constraints (READ COMMITTED, unique, foreign keys, row locks).

**Only model-checked.** Liveness (`EveryCallEnds`, `SyncsAreAnswered`, `KeepsCollecting`, `ThrottleLifts`): the prover has
no rules for `ENABLED`. That the shipped frameworks satisfy the hypotheses of `ScoringProofs` is evaluated by TLC, as they are data. The
folds are compared by theorems about all their inputs (order, parity, equality), but what a fold computes is not proved equal to
another definition of a sum. A theorem is about its component's own specification, of which a behaviour of the four joint modules
exercises one; those about `Scoring` are about `ComplianceSpec`.

## Where the code and what is said of it differ

Four runs end in a counterexample:

* `audit_genesis_race`. Two first appends both read an empty table and both insert `prev_hash` NULL, which the
  unique constraint exempts (`models/enterprise.py:12`): the chain forks at its root, although
  `audit_service.py:81-83` says the loser appends again.
* `reset_link_reuse`. Two resets with one link both look it up before either has hashed its password
  (`password.py:113`), and both go through, against "single-use semantics" (`password.py:116`).
* `web_reload`. After a reload the client asks for a new token and signs the user in only if the answer has a user
  (`AuthContext.tsx:66`). `RefreshResponse` (`schemas.py:81-92`) has none, so every reload ends at the log-in form,
  against `README.md:581`. The test mocks an answer with a user.

* `lapsed_key`. license-info answers with the stored tier whatever has become of the key (`api/auth/license.py:81`), and the
  paid gates go by it too (`deps.py:80`), against "No license or expired/invalid stored key — return free tier defaults"
  (`license.py:79`).

The models have the following in them as well; the properties name them as the exceptions:

* Two demotions that both count two admins leave none (`rbac.py:51,55`); the deployment then stays without. A
  role's change and its audit event are two commits: a kill between them leaves a change without its event, where
  `CHANGELOG.md:870` has an audit trail of every such action.
* With several workers two refreshes of one token both succeed, as `test_refresh_rotation.py:154-156` concedes, and
  a refresh that has read its token survives a reset (`password.py:117-119`).
* With several workers the machine limit is overshot: the comment at `machines.py:119-124` has the
  unique host name catch that race, which it cannot when the host names differ.
* Overlapping syncs present one refresh token twice, and the server ends the session (`cloud-sync.js:121-122`).
* Two tabs that refresh at once end the session of both; after another user signs in beside it, a tab shows one user
  and refreshes as the other; a log-out while a refresh is in flight leaves a live session and a token in memory;
  the answer to a log-out clears whatever cookie is there by then.
* A file whose flush failed stays on disk (`evidence.py:535` is outside the `try` at 560), and so do the files of a
  deleted account (`session.py:367,427`).
* Deleting an account changes signed audit rows, which verification then reports (`README.md:586` calls the log
  append-only).
* Two copies of the desktop app can collect one slot twice, write over each other's evidence file of one name ("Ensure
  unique filename", `evidence-processor.js:52`, holds for one copy at a time), and fork the local trail.
* Attempts in flight together all pass a window that is nearly full, and a success clears failures that came in after it
  began (`session.py:79,90`).
* Two collections that start in one second have one id, unique over all users: the later one fails with a 500 after it has
  collected (`evidence_collector.py:131`).
* With several workers a row of AWS credentials can have the key of one save and the region of another.
* A policy whose document has a single statement instead of a list, and a wildcard for a service (`s3:*`), pass the analysis
  of IAM policies and count as compliant (`integrations/aws.py:220,237`).
* A row from before the 0-100 scale that has no status of its own time is read as new: 0.97 is shown as 0.97 of 100
  (`compliance.py:56`).
* A failing audit event is swallowed after a manual evaluation, and if it leaves the session without a rollback the answer is
  a 500 for an evaluation that is stored (`compliance.py:367-384`). So it is when the refresh fails, which comes after the
  commit and in the same `try` (`compliance.py:365,622`, `iso27001.py:162`, `hipaa.py:163`, `gdpr.py:168`), or when the commit fails after
  it took effect.
* A call of `log_event` that is killed, or loses its connection, after its commit took effect leaves a row of which its caller knows
  nothing (`audit_service.py:104`; only `IntegrityError` is caught).
* A genuine key whose email is empty or null activates any account (`api/auth/license.py:38`), although the field is required "so
  web-mode activation can bind the license to the activating account" (`core/license.py:72-74`).
* A value that was `SECRET_KEY` and becomes `CREDENTIAL_ENCRYPTION_KEY` leaves rows from before HKDF unreadable until it is
  `SECRET_KEY` again: the last fallback tries `SECRET_KEY` only (`credential_crypto.py:126-127`).
* A setting of the cloud session that cannot be written, or a second copy of the app that writes as well, leaves settings of two
  sessions (`cloud-sync.js:78-81,184-185`; `main.js:144` takes no single-instance lock).

Read in the code and not modelled:

* `s3_encryption` is an alias of `encryption_policies`, so AWS evidence would pass for a manual upload; no shipped
  `manual_upload` control requires that type (NIST PR.DS-01, which is not loaded, would).
* ISO A.8.17 and ten HIPAA controls are "hybrid" although collectors alone complete them
  (compare `canonical_evidence.py:82`); the vocabulary's own lists of frameworks disagree with the YAML;
  `docs/evidence-pipeline.md` counts 54/47/47/38 controls, the files have 43/93/47/38.
* The engines' roundings differ from eight required types on, or at an average of half a hundredth: none is shipped.
* Licence validity is rounded down on one side and up on the other (`core/license.py`, `license-crypto.js:79`).
* `evaluate-from-evidence` writes no assessments and no audit event (`compliance.py:620-621`), so the evaluations the
  dashboard makes have no point in the trend of any control, which is "across the current user's evaluations"
  (`compliance.py:467`).
* `get_evidence_summary` reads `compliance_metrics` from a summary that `collect_all_evidence` never gives one
  (`api/evidence.py:348`): the metrics are always 0.
* The route `/framework/controls/search` comes after `/framework/controls/{control_id}` and is never reached.
* An update check that never settles blocks every later one (`update-manager.js:93-94,146`).
* Requests queued behind a refresh have no time-out of their own, and neither has the refresh: the ten seconds are those of the
  client it is not sent with (`api.http.ts:37,105`).

## Not modelled

What a module leaves out, with the reason, is in the notes of `PROJECT.json`. In general: formatting, titles, wording and
logging; cryptography (hashes are injective, ciphers decrypt what they encrypted, signatures are checked by the
libraries); delivery of mail; AWS itself; operating-system commands, whose answers are inputs; rendering. Passwords
appear as a request that is refused or not. `users.is_active` and `machines.is_active` are never cleared by the program
and are left out. Read-only endpoints are left out unless they compute something a property is about. The deletion of expired
refresh tokens is left out because an expired row is refused with or without it. Deployment files are configuration.

Whole parts that are not modelled:

* **Update manager**: one flag. That a check whose promise never settles blocks every later one is seen from the code.
* **Licences of the desktop**: the same checks on a file in place of a row; the difference in rounding is named above.
* **Reports and remediation of the desktop**: text from rows that are only read, and one row per control. Its evaluations are one
  insert from one read, and `deleteEvidence` is called by nothing.
* **Branding and exports**: one row that is read and then inserted or updated; the others only read.
* **Server frame, views, frameworks no engine loads, deployment**: no state of their own that changes what a user is told.

## Plan

What the first plan had is done, except for the following, in the order of what each would add:

1. **Scheduler over LocalEvidence**: its `Process` is LocalEvidence's `Collect` for one framework after the other; the two are
   checked and proved apart.
2. **Categories**: `NeverHurts` is about controls and totals; the scores of categories follow by the same argument.
3. **From collection to score**: what `AwsCollection` stores and what `Scoring` is given are proved about apart.

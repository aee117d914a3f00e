# Nova Context: a TLA+ verification project

Nova Context captures what a user looks at ("moments"), enriches it, proposes
actions about it and executes the ones the user approves. This directory models
the parts of it in which several processes change the same state, checks the
models with TLC on small instances, and proves the most important facts for all
instances with TLAPS. Paths below are relative to the repository root
(`services/...`, `apps/...`, `packages/...`, `tools/...`).

1. Inventory of the system
2. Modules, and how they correspond to the code
3. Runs, bounds and fairness
4. Where the code and its documentation disagree
5. What is proved
6. What is not modelled, and why
7. Plan

## 1. Inventory

The system is an API server (`services/api`, Fastify), a worker
(`services/worker`, BullMQ), PostgreSQL, Redis, an object store for images, a
browser extension (`apps/extension`), a web app and a browser shell. API
instances and workers are processes of their own and share the database, Redis
and the object store; none of them takes a lock over more than one statement or
one transaction.

| Component | State it keeps | Operations | What makes it correct |
|---|---|---|---|
| **Action approval and execution** (`routes-m2.ts`, `worker/src/actions.ts`, `notion-client.ts`, `queue.ts`) | `actions` rows (status, payload, result), `approved_at`, BullMQ jobs, Notion pages | approve, reject, enqueue, revert, execute, retry, redeliver, mark failed | an external effect at most once; done means it exists; what runs is what was approved; nothing stays queued or executing |
| **Media lifecycle** (`media/*`, delete routes, `backfill-media.ts`, `cleanup-media.ts`) | `moment_media`, `media_delete_queue`, blobs | store, thumbnail, delete by moment, project or account, tombstone, drain, sweep, backfill | no referenced blob is lost, no deleted blob is forgotten |
| **Capture tail and enrichment** (`app.ts`, `worker/src/enrich.ts`) | moment status, version, embedding, proposals | capture, enqueue, enrich, retry, fail, select a version, delete | one vector, one proposal, a settled status, nothing left after a deletion |
| **Live sessions** (`apps/extension/utils/live.ts`, `LivePanel.tsx`, `App.tsx`) | three timers per session, the panel | start, sample, ask, stop, expire, close | it observes only while timed, and always ends |
| **Live buffer** (`live-buffer.ts`) | frames, texts, exchanges | add, evict, read for a question, clear | caps hold whatever lands when; a question carries what is current |
| **Redaction and capture gating** (`image-redaction.ts`, `ocr.ts`, `visual-redaction.ts`, `redaction.ts`, the panel) | one shared OCR worker, the draft of the panel, the report of a moment | capture, submit, scan, mask, certify, store, sanitize | no secret the engine has read is stored or sent; the report is honest; no failure loses a draft |
| **Accounts, sessions, pairing** (`routes-auth.ts`, `auth/*`, `reset-*.ts`) | users, sessions, pairing codes, reset tokens | signup, login, pair, change and reset a password, revoke, sweep | a change ends the sessions it says it ends; codes and tokens are used once |
| **Keys and connections** (`rotate-media-key.ts`, `verify-media.ts`, `routes-integrations.ts`, `secret-box.ts`) | encrypted blobs and tokens, the ring of each server, OAuth states, connections | rotate, verify, connect, disconnect, choose a destination | everything stays readable; nothing deleted comes back; a token stays where it belongs |
| **Backup and restore** (`backup/*`, `scripts/*.sh`) | artifact sets with a marker, an inventory of images, both on a remote store | dump, seal, publish, verify, fetch, restore | what a marker lists is there; a restore is of one run and whole; a drill spares the primary |
| **Validation gate** (`tools/validation-gate`, `ops/smoke.ts`) | check results, the cause of the cascade, synthetic accounts, evidence | run, skip, decide, clean up, retain | no failure is reported as a pass; nothing is changed unsafely; nothing is left behind |
| **Rate limiting** (`auth/rate-limit.ts`) | Redis counters with a TTL, a fallback in memory | allow, fall back | bounded attempts; nobody is refused for ever |
| Search, tasks, feedback, audit, status | rows nothing else depends on | single statements | - |
| Model adapters, memory facts, helpers, web UI, CI | - | - | - |

**How they interact.** The API writes a row, then adds a job to Redis: two stores,
no common transaction (capture and approval). The worker reads the row back,
calls models or Notion, and writes the row again; BullMQ redelivers a job whose
worker died (stalled) or whose lock expired, beside a call that may still be
running. All requests of one API process share one OCR worker. Deletions remove blobs one at a time from the object store and then
rows in one transaction, while captures, enrichments and executions of the same
moment are in flight. The live session belongs to the extension alone: it
meets the API only in `/v1/live/answers` and in the capture of a saved moment.
Operators run the tools: rotation, cleanup, backup and restore work on the two
stores beside the running servers, and the gate drives a deployment, a smoke walk
and a recovery drill over HTTP and child processes.

**Hard behaviours.** Interleavings at every `await`; a process dying between two
of them; a reply lost after its effect (Redis, Notion, the object store);
redelivery without death; rows deleted under a running call; one failure of
several; timers set late; samples that land late; a set published over while it is read;
a key deployed to one server and not yet to the other. `PROJECT.json` lists them one by one under `hazards`,
each at its line, with the properties that would catch it going wrong.

## 2. Modules, and how they correspond to the code

In every module a step is what the code does between two points at which
another process (or callback) can see or change shared state: one SQL
statement or transaction, one call of the object store, of Redis or of Notion.
Handler locals that survive an `await` are fields of the call's record (`req`,
`exec`, `wr`, `del`, ...), so a value read before an `await` is used after it as
the code does. `pc` names where in the handler a call is. `PROJECT.json` maps
each definition to its lines.

**ActionExecution** (`ActionLifecycle`, `MCActionExecution`,
`ActionExecutionProofs`). `row` is the `actions` table restricted to status,
approval, the approved media and what `result` records (upload ids, page id);
`job` is the BullMQ job with the action's id. Approve requests are `req`
(reads, claim, enqueue, revert; inline execution for internal actions), calls of
`executeAction` are `exec` (`Select`, `Recover`, `Claim`, `Connect`, `Resolve`,
`UploadMedia`/`PersistUpload` per medium, `CreatePage`, `Complete`, and the
terminal and last-attempt marks). The reads an approval does before its claim
are one step, `ApproveChecks`: nothing they read is written by the handler, and
every one of them is checked again by the worker. BullMQ is external: ids
absorb duplicates, a job is retried `Attempts` times, a dead or unlocked one is
redelivered `MaxStalls` times and then failed without calling the processor,
and an outcome without the lock is refused. Notion is external: a call takes
effect, fails without one, or takes effect and loses its reply. Pages, uploads
and tasks are counted up to `Cap` = 2, which separates none, one and too many.
The audit log and the analytics are left out, except that their inserts may
throw where the code would notice (`Recover`, `Complete`, `MarkTerminal`).

**ActionLifecycle** is the lifecycle as `docs/ACTION_ENGINE.md` and
`docs/AUTH.md` draw it, of one status and one effect per action.
`ImplementsLifecycle` says that `ActionExecution` implements it, with
`effect` = a page or a task exists. It holds as long as a failed `queue.add`
really left no job and no running call loses its lock; with either fault it
does not: an action shown as proposed may execute, and one shown as failed may be
written.

**MediaLifecycle** (`MCMediaLifecycle`, `MediaLifecycleProofs`). One user, at most one project. `blob` is
the object store (each key absent, recent or old: the age rule of the sweep
compares with `--min-age`), `rows` is `moment_media`, `tombs` is
`media_delete_queue`. Writers are captures and the backfill, deletes are the
three delete routes with their shared `deleteForMoments`, cleaners are runs of
`media:cleanup --delete` (drain, read the valid keys, list, sweep). A thumbnail is
a second key that only some images get. Moments are deleted in any order; a
moment's project is a constant, and unlinking it is deleting the project without
its moments. Unless the fault `slow_writer` is on, a blob does not grow older
than the minimal age before its writer has finished: that is the assumption
the age rule rests on (`cleanup.ts`, `minAgeMinutes`).

**Enrichment** (`MCEnrichment`, `EnrichmentProofs`). The tail of the capture (moment, tier-0 action
and task, enqueue, skip), `enrichMoment` with its statements in their order,
the `failed` handler, version selection and the deletion of a moment. What the
model writes is abstracted to the version number; entities, facts and project
candidates are upserts under unique indexes and left out. The deletions inside
one transaction are one step, except that rows a concurrent call commits after
the statement that would have seen them survive (`RowsNow`, then `DeleteCommit`).
`raced` and `doubled` are history variables: something overlapped the deletion; two
calls of one enrichment overlapped. `MaxRuns` bounds the rows one moment can get,
because a job runs at most `Attempts + MaxStalls` times.

**LiveSession** (`LiveSessionProofs`). The App's screen, the
panel, and any number of `LiveSession` objects, the old ones included: a session
whose panel is gone keeps running its `start()`. A step is the code between two
awaits, or one timer. Each session has its own clock (`age`, `left`); timers fire
on time (`Tick` waits for a timer that is due). Other screens of the App are one
value, "no panel".

**LiveBuffer** (`MCLiveBuffer`, `LiveSessionProofs`) extends every step of `LiveSession` by what it does to
the buffer of one session, `Kept`; the questions of the other sessions are left out.
`entries` holds frames and texts with the age of the session (`at`) at which they were
added, `qa` the exchanges. The samples of the two interval timers are steps of
their own: `flight` counts the frames that were asked for and have not come, and a
sample lands in whatever buffer is there by then, or in none. `evict` is the code's
order: window, cap on frames, cap on texts, byte budget. `post` is what the question in
flight carried; `answered` counts kept answers, which numbers the exchanges.

**Capture** (`MCCapture`, `CaptureProofs`). The side panel's draft, `POST /v1/moments` with images
inline, `POST /v1/live/answers` with frames, and the sanitizer of old rows. An image is the
set of words a person can read on it, some of them what the detectors classify (`Sensitive`).
The engine returns any part of them, from all to none (`ReadWords`), and the image is certified
whatever it returned; `read` keeps the answer, and what was not read stays legible in what is stored.
A payload is a sequence of slots: the slots of one array are scanned concurrently, keys one
after another, as `Promise.all` and the loop of `image-redaction.ts` do. The worker is
shared, started by the first call that needs it, and forgotten when it fails; each
call has its own timeout. A step is the code between two awaits of one request.
A lost reply also stands for an error after the insert: to the panel they are the same.
The panel sets its state and draft after each `await`, whatever they are by then: `calls` holds
the captures and posts it waits for, `of` the shot a post submits, and `stray` the calls that
outlived their token, since a lost token makes the panel idle while they go on. Closing the
panel discards its draft with the page and is left out.

**AuthSessions** (`MCAuthSessions`, `AuthSessionsProofs`). One account. `user` is its
row (active, locked by `deleted_at`, gone), `sess`, `code` and `reset` are the tables
`sessions`, `pairing_codes` and `password_resets`, `req` the requests and operator scripts
in flight. A step is one SQL statement: a login reads and verifies, then inserts; a
change resolves its session, verifies, writes the hash and revokes the others in four
steps; a reset claims its token, writes and revokes; an erasure locks, revokes and deletes.
Of a password the model keeps whether what something was granted on is still the
password of the account (`fresh`), so any number of changes is one finite model; a
refused request changes nothing and is left out. `late` (a session inserted on
evidence that was outdated by then) and `cut` (a change that died between its two
UPDATEs) are history variables. The sections of a maintenance run are one DELETE
each; how long a row has been dead is any set of dead rows.

**KeyRotation** (`MCKeyRotation`, `OperatorProofs`). `ring` is the key configuration of the API and of the
worker, `stage` where the operator is in the runbook, `blob` the key each object is
encrypted with, `conn` and `oauth` the tables `integration_connections` and
`oauth_states`, `tool` the process of `media:rotate-key` or `media:verify`. A deploy takes
one server at a time and kills the API's requests. The rotation lists what there is, then
for each object reads, re-encrypts and writes back in two steps, and likewise for each
token. Captures store full image, thumbnail and row in three steps, deletions erase in the
same grain. A store that fails a deletion is `MediaLifecycle`'s; the erasure of an
account is left out here. `mixed` and `revived` are history variables: who
has met a write of one who had read another connection, and what the rotation put back.

**RestoreTarget** are the guards of `restore.sh`, `run-scratch-guard.ts` and
`media-s3-env.ts` as operators over the ways to spell a database URL (capitals or a
final dot, default port, TLS mode) and over the authorizations in the environment. An object
store has spellings that `canonicalizeIdentity` merges (`odd`: an AWS endpoint, the case of a
host, a default port, a final slash) and ones it keeps apart (`alias`: `http` for `https`,
another name of the host).
**Backup** (`MCBackup`, `BackupProofs`) extends it: `backup.sh` from the dump to the marker (`job`, one
per run, all in one second so that they share a stamp), the publication by hand of
what an interrupted run left, the fetch that verifies and reads again, `restore.sh` with
its guards, `media:restore-s3`, and images captured, deleted and lost meanwhile
(`life`). Ciphertexts are known by the job that sealed them and images by their key, so
a MAC or hash check compares that. A tar, an upload and a dump are atomic; a
crash may fall between any two. The database is chosen as the guard allows when it is restored,
the store when its images are copied, after their verification. Where a restore writes is
recorded (`dest`, `overPrimary`); what it does to the application there is not modelled. The fetch
reads the marker twice and authenticates it the first time only (`FetchMarker`,
`FetchMarkerAgain`): the second time one that decayed since may still parse. Dry runs and
`sanitize.ts` (wording of errors) are left out. Of
the repository's own limits the model keeps: `restore.sh` unpacks the tar of an fs store into whatever
`NOVA_MEDIA_FS_ROOT` names, in a drill too (`Untar`); its trap does not run on a kill; two runs in one second may
replace each other's set; a restore brings back rows of images deleted after the dump.

**SyntheticAccount** and **ValidationGate** (`MCValidationGate`, `OperatorProofs`). `ValidationGate` is one
run: the list of checks of its mode, each check a step (or the walk of a lifecycle), the
cascade, `computeOutcome`, the reports, the evidence store, the exit code, and for the
recovery mode the remote orchestration around it. The commands the checks run are their
outcomes under `env`, what the operator supplied, and `effects` records what they may have
changed. `SyntheticAccount` is the lifecycle of an account made on the deployment;
it is instantiated twice, for the gate (`checks/postdeploy.ts`) and for the smoke
walk (`ops/smoke.ts`). Each HTTP call may be served and answered, refused, lost in either
direction, or given up on and served later; a deletion that answers 200 may leave a
`Residue`. `Untimed` names the states in which the gate waits for something that has no timer.

## 3. Runs, bounds and fairness

| Run | Shows | Instance |
|---|---|---|
| `actions_all_faults` | under every fault: done has its page, a second page needs a loss, done never turns to failed | 1 external action, 2 slots, 2 requests, 2 attempts |
| `actions_lifecycle` | the documented lifecycle, approved = executed, one task per internal action, no recorded upload repeated, nothing written after a failure | 1 external + 1 internal action, 2 media (one redacted), crashes, lost Notion replies, database errors |
| `actions_settle` | queued and executing actions move on | 2 actions on one slot, lost Notion replies |
| `media` | a referenced image loses its blob only to a deletion; what a deletion took is gone or tombstoned; a sweep misses no old orphan | 2 moments, a capture or the backfill, 2 deletions, a cleaner; store errors, crashes, missing key |
| `enrich_faults` | one vector and one proposal unless calls overlap, the shown version is on record, failed means exhausted, only a race leaves leftovers | 1 moment, 2 slots, 2 attempts, crashes, expiring locks, database errors, selections, a deletion |
| `enrich_settles` | every captured moment is settled | 1 moment, 2 slots, 3 attempts, lost enqueue replies, no crash |
| `live_sessions` | whoever observes has a timer; every session ends by itself; the buffer keeps its limits; a question carries what is current | 2 sessions, limit and window of 1 tick, 2 frames and 2 texts within 3 bytes, 2 questions |
| `capture` | no secret the engine has read is stored or sent, reports are honest, a draft stays on the screen until it is cancelled or known to be saved, every walk ends | 2 posts and 1 question, 8 configurations, engine answers of every subset of the words, at most 2 images scanned |
| `auth_changes` | a finished password change leaves no old session; a code pairs once; an account under erasure is shut | 3 sessions, 1 code, 1 reset token, 2 requests at once, each of which may die |
| `keys` | no server with the new key is locked out, tokens stay in place, deleted images stay deleted, the rotation ends | 2 users, 2 images, 2 requests, 1 fault |
| `backup` | a committed set is whole, a durable one stays so, a restore is of one run and whole, a drill spares the primary but for an aliased store and the root of an fs store, backups end while the stores answer | 2 jobs, 2 images, 1 fault, every spelling of a target |
| `gate` | exit code 0 means what it says, nothing is changed unsafely, no account is left unreported, every run ends but for a wait that has no timer | every mode with every combination supplied, and every list of 3 checks of 7 kinds |

**Why these bounds.** Everything that goes wrong in these protocols needs two
actors on one object, or one actor and a crash: hence two slots and two requests
on one action, two deletions and one capture, two calls of one enrichment, two jobs of one
stamp. Two attempts have a first and a last one, three also one in between; `MaxStalls` = 1
is BullMQ's default (`maxStalledCount`), and nothing in `services/` sets another.
`Media.cfg` has a constraint, `Bounded`: cleanup runs and thumbnails are explored with
one moment beside one writer and one deletion, and two moments or two deletions without them.
With a `Limit` of 1 tick a session expires during the first samples of another or after
them; with a `Window` of 1 a sample can outlive it only at a tick, which is
where the code compares. A frame of 3 bytes exceeds the cap of a frame, a text of 2 the
length the server takes, and a frame and a text of each length the budget in some
order. `capture` has a configuration for each switch that changes the path (redaction off,
no engine, no store, no media table, strict, production), one in which a payload
exceeds the image budget, and one with the panel. The kinds of checks of `gate` are
those `computeOutcome` and the cascade tell apart, and three of them have a cause, a
skipped one and a later failure. One fault in `keys` and `backup` is one death or one
decayed object at any point; two would be two restarts of what a tool does from scratch.
Symmetry is used by safety runs only. `CHECK_DEADLOCK FALSE` appears where the system
really comes to rest: an account is gone, the jobs are done, a tool or the gate has exited.

**Fairness.** A request that was started goes on and a call on a worker goes on
(weak fairness of `Serve`, of `Execute \/ Finish`, of `Enrich \/ Finish`): Node
resolves what was awaited. BullMQ hands out waiting jobs (strong fairness of
`Take`: a slot may be busy now and then) and checks for stalled ones (weak
fairness of `StallCheck`). Once begun, a capture and a deletion end. In the
extension the browser answers each call, time passes and timers fire (`LiveBuffer` adds
no fairness). In `capture` a handler goes on and its timers fire, but nothing makes a worker
start, an engine read or a user press. A running command of `backup` is one sequential
program; in `keys` a deletion that runs goes on, a tool that was started runs, and an
operator who has begun to rotate follows the runbook. In `gate` a step is fair
unless the gate then waits without a timer (`Untimed`): an HTTP call is aborted after 15 seconds,
but a command is awaited until its pipes close, and neither the fetch of the orchestration nor
a call of the evidence store has a timer. `Ends` says that a run ends or stays in one of these
waits for good. `JobEnds` assumes that the calls of a backup return, with an answer or an error. Users,
crashes, expiring locks and lost replies are never fair, and no liveness run
assumes that a crash happens or stops happening except by leaving it out, which
its line in `PROJECT.json` says.

**What the runs of one component leave out.** A fault is off in a run where the code does not
keep what the run checks. `actions_lifecycle` has neither the lost enqueue reply nor the
expired lock, `actions_settle` only the lost Notion reply, `enrich_settles` only the lost enqueue
reply, and `enrich_faults` all but that one (the theorems of `Enrichment` cover it). So no liveness
run speaks of an action or a moment whose job the stalled check gave up (`worker/src/actions.ts:422`,
`worker/src/worker.ts:64`) or of one that a database error while marking left executing: there the
code leaves it as it is, and `PROJECT.json` lists these hazards without a property. Nor does one
notice the worker's second look at the media missing (`routes-m2.ts:348`), since
`PreviewIsExecution` compares with the list fixed at approval.

## 4. Where the code and its documentation disagree

No run expects a violation. What was met while modelling is either a condition of a
property that holds (its comment names it, and without the condition TLC finds the
behaviour) or a step of the model that behaves as the code and not as the sentence.

*Media and enrichment.*
- A deletion tombstones a blob and rolls back; the drain, which calls its keys
  "known-dead" (`media/cleanup.ts:80`), may then delete the blob
  of a live medium. The condition of `ReferencedIsSafe` on deletions broken off.
- An enrichment in flight inserts its vector after its moment was deleted, although the
  route "removes the moment AND everything derived from it" (`routes-m3.ts:207`). The
  condition of `LeftoversNeedRace`.

*Actions.*
- A lost reply of `createPage` or an expired lock may cost a second page
  (`DuplicateNeedsLoss`); an expired lock lets a call write after its action was marked failed
  (`RetriesAddNothing` is checked without `lock_lost`) and lets two enrichments leave two
  vectors (`OneOfEach`).
- An enqueue whose reply was lost, a worker that crashes more often than BullMQ
  redelivers, or an API that dies between the claim and `queue.add`, leaves an action
  queued or executing. `ActionsSettle.cfg` leaves these faults out; `infra/DEPLOY.md:158`
  says of stuck actions "restore, jobs execute".
- `infra/DEPLOY.md:159` says "then re-approve" of failed actions; no route leads from
  `failed` back to `proposed`, and none is modelled.

*Sessions.* A password change that dies between its two UPDATEs leaves the old sessions
working (`cut`), and a login that verified or a code that was minted before a change still
yields a session (`late`).

*Live context.*
- A panel unmounted while `tabs.query` is unanswered leaves a session that observes with
  no panel until its limit (`live.ts:76`, `LivePanel.tsx:47`): what `LiveIsTimed` and
  `EndsByItself` allow, and all they allow.
- "Entries older than bufferWindowMs are evicted" (`live-buffer.ts:9`): only when an entry
  is added. `BufferBounded` therefore speaks of the newest entry. A page whose text does not
  change has no text in the buffer from its eviction to the next sample.
- The limits are "shared between the client buffer and server validation"
  (`packages/schema/src/live.ts:11`), but the buffer takes a text of any length (a page is
  read up to 50,000 characters, `apps/extension/utils/capture.ts:31`) and the server
  refuses a snippet above 20,000 (`live.ts:50`): questions asked while a long page is within
  the window are answered with 400. Modelled in `BufferAnswer`.
- The legs of the context of a question are redacted, the question itself is not
  (`routes-m3.ts:62`).

*Capture.*
- A capture or a post that outlives its token sets the draft and the state when it ends
  (`App.tsx:81` to `96`, `144` to `164`; `captureActiveTab` has no timeout). After a disconnect and
  a new pairing it replaces, clears or brings back over whatever is on the screen by then, a draft
  under submission included. The exception of `FailureKeepsDraft` (`stray`). A post whose
  answer was lost and that is submitted again saves a second moment.
- "WHAT THIS IS NOT: not a recall guarantee" (`visual-redaction.ts:226`; `docs/SECURITY_PRIVACY_GOVERNANCE.md:201`
  says the same): an image is certified whatever the engine returned, no word at all included.
  `SecretsMasked` therefore speaks of the words it returned.
- A data URL inside an array is scanned as text too, and may be taken for a number: the
  image is then dropped, which is safe.
- `applyCaptureMode` (`capture-mode.ts:29`), "applied client-side before upload", is never called.

*Keys.*
- The rotation writes a token back by id only (`rotate-media-key.ts:122`). A connection
  disconnected in between holds a ciphertext again, although "a disconnected row keeps no
  secret" (`routes-integrations.ts:318`), and one that was made anew gets its old token.
  The condition `mixed` of `TokensStayPut`; likewise `revived` of `DeletedStaysDeleted`.
- While a deploy has reached one server only, the other cannot read what the first writes,
  although the deploy promises "no read outage" (`docs/AUTH.md:694`): `NothingLocksOut`
  speaks of servers that have the new key.
- `media:verify` looks at no token, and a deletion that died between an object and its row
  makes it exit 2 for good (`RotationEnds`).

*Backup.*
- "A recovery DRILL must ALWAYS restore into scratch" (`checks/recovery.ts:152`): of the images of
  an fs store nobody checks where they go. `restore.sh:114` to `123` unpacks them into
  `NOVA_MEDIA_FS_ROOT` in either mode. `DrillSparesPrimary` claims nothing about that root.
- The guards compare canonical names (`object-store.ts:252` to `306`): a store under `http` and
  `https`, or under two names of its host, is two stores to them. The exception `alias` of
  `DrillSparesPrimary`. That a drill runs without `NOVA_MEDIA_RESTORE_ALLOW_PRIMARY` is the gate's
  doing (`checks/recovery.ts:154`), not `media:restore-s3`'s.

*Validation gate.*
- A timeout of a command kills its direct child, and the gate goes on only when the pipes are
  closed (`command.ts:58`), which a grandchild may keep open; the orchestration starts its fetch
  and the gate without a timer (`recovery-remote.ts:42`), and the evidence is put through a
  client without one (`evidence.ts:120`, `138`, `object-store.ts:126` to `155`). `Untimed`.
- "A supplied live session can never be left active" (`postdeploy.ts:83`): when a required
  check before the bootstrap fails, the bootstrap is skipped, the cleanup finds nothing to
  do and passes, and the session lives on. The run fails anyway, so `NothingLeft`, which
  speaks of exit code 0, holds.
- "The causing check already drove the outcome to FAIL or BLOCKED" (`outcome.ts:70`) is false
  of a required P3 check that is not protected: its failure yields CONDITIONAL_PASS. No mode
  has such a check; `NoFalsePass` names the exception for lists a caller injects.
- The gate's cleanup of its own account proves by a refused login that the account is gone;
  it does not probe the token it held. `NOVA_VALIDATE_EVIDENCE_REQUIRED=yes` has no effect without a
  bucket. The timeout of a command kills its direct child only, so what that child started
  may still act.

## 5. What is proved

TLAPS proves these for every number of actions, media, moments, workers, requests,
attempts, sessions, images, jobs, users and lists of checks, from the named assumptions on the constants
(one `ASSUME` in each module) and the three conditions on the environment below. Of
the properties that the runs check, every one that is not a liveness property is the
subject of a theorem.

| Module | Theorem | Property | Condition |
|---|---|---|---|
| `ActionExecutionProofs` | `TypeCorrect` | `TypeOK` | |
| | `DoneStaysUnfailed` | `DoneNeverFails` | |
| | `DoneAlwaysHasPage` | `DoneHasPage` | |
| | `OnePageUnlessLost` | `DuplicateNeedsLoss` | |
| | `TaskInsertedOnce` | `InternalOnce` | |
| | `PreviewExecuted` | `PreviewIsExecution` | `Reliable` |
| | `NothingAddedByRetries` | `RetriesAddNothing` | `Reliable` |
| | `CodeImplementsLifecycle` | `ImplementsLifecycle` | `Reliable` |
| `MediaLifecycleProofs` | `BooksKept` | (`BookInv`) | |
| | `NothingLeaks` | `DeletedIsTracked` | |
| | `ReferencedStays` | `ReferencedIsSafe` | `Prompt` |
| | `SweepEndsClean` | `SweepIsThorough` | `Prompt` |
| `EnrichmentProofs` | `ShownStaysTrue` | `ShownIsTrue` | |
| | `OneRowEach` | `OneOfEach` | |
| | `DeletionIsWhole` | `LeftoversNeedRace` | |
| `CaptureProofs` | `CaptureInvariant` | (`CaptureInv`) | |
| | `SecretsStayMasked` | `SecretsMasked` | |
| | `ReportStaysHonest` | `ReportIsHonest` | |
| | `DraftSurvivesFailure` | `FailureKeepsDraft` | |
| `AuthSessionsProofs` | `TypesHold` | `TypeOK` | |
| | `ChangeEndsOldSessions` | `OldSessionsEnd` | |
| | `ErasureIsFinal` | `ErasureShutsOut` | |
| | `CodesPairOnce` | `CodePairsOnce` | |
| `OperatorProofs` | `KeyInvariant` | (`KeyInv`) | |
| | `NeverLockedOut` | `NothingLocksOut` | |
| | `TokensStay` | `TokensStayPut` | |
| | `DeletedStays` | `DeletedStaysDeleted` | |
| | `GateCorrect` | (`GateInv`) | |
| | `PassIsTrue` | `NoFalsePass` | |
| | `ChangesStaySafe` | `ChangesAreSafe` | |
| | `NothingStaysLeft` | `NothingLeft` | |
| `BackupProofs` | `BackupInvariant` | (`BackupInv`) | |
| | `NothingPartialCommitted` | `NoPartialCommit` | |
| | `DurableStays` | `DurableHolds` | |
| | `RestoresWhole` | `RestoredWhole` | |
| | `DrillSparesThePrimary` | `DrillSparesPrimary` | `RemotePrimary` |
| `LiveSessionProofs` | `SessionTypes` | `TypeOK` | |
| | `AlwaysTimed` | `LiveIsTimed` | |
| | `BufferKeepsSession` | (`LiveSession!Spec`) | |
| | `BufferStaysBounded` | `BufferBounded` | |
| | `SentStaysGrounded` | `SentIsGrounded` | |

**The conditions.**
- `Reliable`: an enqueue that failed left no job, and no live call loses its lock. Without
  it the three properties are false of the code (section 4), and `actions_lifecycle` is
  checked without these two faults for the same reason. Crashes, lost Notion replies,
  failing statements and redelivery remain.
- `Prompt`: no capture is slower than the minimal age of the sweep. This is what the age rule
  says it relies on (`media/cleanup.ts`, `minAgeMinutes`); with `slow_writer` the sweep may
  take the blob of a row that is about to be inserted. `NothingLeaks` needs no such
  condition.
- `RemotePrimary`: the primary database is not on the loopback host, and its name does not end
  in the run id of a drill. Outside production the scratch guard (`run-scratch-guard.ts`)
  takes every database of the loopback host for scratch, and of any other one it demands a
  name that ends in the run id: about a primary of either kind it promises nothing.

**ActionExecution.** `TypeCorrect` needs two facts besides the types, together `TypeInv`: a call
knows an action of its kind (`CallsKnowAction`), and a job that may still run has an
attempt left (`AttemptLeft`), without which `made` could pass `Attempts`.
`DoneStaysUnfailed` is the case analysis of the steps that write a status, under `TypeInv`.
`DoneAlwaysHasPage` strengthens the property to `PageRecorded`: a row that names a page has
one, and so has a call that is about to store one or has found one on the row.
`OnePageUnlessLost` is deeper: `LockHeld` says that unless `lost` is set a call works only
while it holds its job's lock, so alone; `PageTracked` that a page which exists is on the
row, or in the hands of the call about to store it, and that no call that is still working
towards one has it behind it. Neither is inductive without the other.
`TaskInsertedOnce` rests on `InlineInOrder`: an internal action is in the hands of the one
request that claimed it, and its task exists from the insert on. The three under `Reliable` share
`OrderInv`: an external action is untouched until the one approval that claimed it has
handed it over (`HandedOver`), and a call works under its lock on the row as it read it, with
every upload on record in hand (`CallsInOrder`). `CodeImplementsLifecycle` then maps each step,
under `OrderInv` and the invariants above, to one of `ActionLifecycle` or to a stutter.

**MediaLifecycle.** `BookInv` settles what a medium is once no writer has it
(`Settled`): no blob of it is put again and no row of it comes back, so that what a delete
has dealt with, or the drain has removed, stays dealt with. `DeletedIsTracked` is not inductive by
itself: it speaks of `seen`, and the delete that is about to add to it must have worked
through its keys (`DeleteOK`), while the drain may take tombstones away (`DrainOK`).
`SafeInv` adds under `Prompt` that what is old is settled, that a run of the cleanup has
spared what had a row when it read the valid keys (`SweepOK`), that a writer finds its blobs
in place (`InPlace`), and that for every blob lost under a row some deletion answers (`Answers`).

**Enrichment.** Three invariants over one typing. `ShownInv`: a job whose attempts are spent
is final, a call marks a failure only after that, and the version it is going to show is on
record as long as its moment is. `OneInv`: unless two calls of the moment overlapped, one call
at a time runs, and what it read as absent still is. `RaceInv`: a deletion that nothing
overlaps holds every row there is, and afterwards a late call finds no moment.

**Capture.** `CaptureInv` ties what is stored to the walk that certified it: a stored image
belongs to a request past its insert whose report is "applied" (`Kept`), a certified slot
has an answer of the engine (`Answered`), a slot that is still
unscanned can only be where there is no engine or no store (`Unscanned`), and what a report
says is fixed once the moment is inserted (`Honest`). `SecretsMasked` alone says nothing
of a walk under way; of what the engine did not return neither says anything.
`DraftSurvivesFailure` needs `PanelOK`: unless every call the panel waits for is stray, it waits for
exactly one, in the state that call has set, and a post of it submits the draft on the screen.
Without it a capture could end over a draft under submission with no lost token in between.

**KeyRotation.** `KeyInv` follows the runbook: which rings there may be at each stage
(`Runbook`); that objects and connections of the old key are in the hands of the running
rotation or gone (`ImagesMoveOn`, `ConnsMoveOn`); that whoever holds a token holds one of a
state its user minted and used (`TokensOwned`); and that what a deletion erased stays
erased unless the rotation put it back (`ErasedStays`). Each property follows from some of
these, and none of these is inductive without the runbook.

**ValidationGate.** The argument has three layers. Of the two accounts, `AccountInv` says that
a lifecycle which counts as cleaned has left no account (`Made`) or, for a session that was supplied,
no token (`Borrowed`), even if a call that was given up on is served later; `SmokeInv`
adds for the smoke walk that as long as nothing broke, a token it has seen rejected
stays rejected. Of the results, `Truthful` says that a check that passed
vouches for what it looks at (`Sound`), `Unbroken` that no required check so far has failed or
been blocked while nothing is skipped, and `Walked` that only a mode with a smoke check begins
a walk. `ListShape` supplies what the lists of the modes owe these: migrations and
restores come after the checks they need (`Guarded`), and the cleanup is the last of
`postdeploy`. `ChangesAreSafe` is then a conjunct of the invariant: a command that changes
something runs only while nothing is skipped, so the checks it needs have passed and are
sound. Of the exit, `ExitInv` says that a code 0 needs every required check passed, for
any list of checks whatsoever (`OutcomeMeans`). The results rest on the accounts and the exit on
the results. The assumption `GateOK` asks little: the modes are those of the code, the lists a
caller injects are any sequences of checks under ids of the caller's own (`Names`; the
checks that handle the gate's accounts are its own), and a deletion is tried at least once.

**Backup.** `BackupInv` says what a run owes at each place: an image of the dump is pending
or covered by the list (`Pending`, `Covers`), what its loops have put is there (`Copied`,
`Uploaded`), a set that is published is of a run that published (`RemoteOK`), the files of a
restore are one run's and what it restored is what they list (`FilesOK`, `ImagesOK`). Two
runs of one second share a set, so `Uploaded` says that something is sealed there, not that it
is this run's; only verification (`reread`, `check`) makes it one run's, which is why
`DurableHolds` speaks of a run that is `Alone`: no other of that second has uploaded
anything or listed other images.
`DrillSparesThePrimary` adds `DrillInv`: no drill has had the primary database as its target
(`NoPrimaryDrill` expands the guard), a restore names its destination only when it
starts on the images, and that of `media:restore-s3` is one its guard let pass. `Distinct` then
says what that guard is worth: it spares what is a store's canonical name, and leaves aliases.

**AuthSessions.** `ChangeEndsOldSessions` rests on `Doomed`: a session that is outdone waits for
a revocation that will not spare it. The property alone is not inductive, since the
revocation it speaks of could be the one of the change made from that very session.
`ErasureIsFinal` rests on `ErasePath`: an erasure has locked the account before it revokes, and
nothing unlocks one. `CodesPairOnce` rests on `Placed`: a code is nobody's until claimed, and
then in one place, a request or a session.

**LiveSession.** The invariant `Timed` places every session that holds a buffer: it is between
`tabs.query` and its timers, or its start is over and the timer runs. It is needed because a
session can be stopped, closed or expired while it is between.

**LiveBuffer.** `BufferKeepsSession` shows that every step with the buffer is a step of
`LiveSession` or none, so that `TypeOK` and `Timed` hold here too. `BufferInv` adds `Bounded`, that
the entries are in the order of time, none of the future, within the limits, and no text
after an equal one, and `QuestionsOK`, that the exchanges kept are the last of those numbered 1 to
`answered`, and the question in flight is grounded. What `evict` does to any buffer is
`EvictKeeps`: since entries are in the order of time, the window leaves a suffix of them; a cap
takes the oldest of its kind; the budget leaves a suffix again. So of each kind a suffix is
left (`Left`), and texts that are neighbours afterwards were so before: no two equal ones meet.
The entry just added is the last of all, and stays if it fits the budget by itself, which for a
frame `MaxFrameBytes <= MaxBufferBytes` says: this is why a frame taken for a question is the
newest it carries. `Filtered`, `totalBytes` and the places in a sequence are reasoned about by a
least counterexample (`LeastNat`, from the library's well-founded minimum), which needs no
induction theorem.

**Only model-checked.**
- Liveness under fairness (`ApprovedSettles`, `EnrichmentSettles`, `EndsByItself`,
  `WalksEnd`, `RotationEnds`, `JobEnds`, `Ends`): this prover does not reason about `ENABLED`.
  What `Ends` leaves open, `Untimed`, is a state predicate of the model and not a matter of proof.

## 6. What is not modelled, and why

- **Rate limiting** is planned. It would be a counter with a TTL set by a second command, and
  the fallback in memory; nothing modelled depends on its verdicts.
- **Search, tasks, feedback, audit and status** routes are reads and single statements on
  rows nothing else depends on.
- **Model adapters and memory facts**: calls whose outcome (works, fails) is a choice in
  `Enrichment` and `LiveSession`, a pure extractor, and upserts under unique indexes.
- **Schema and helpers** are types and pure formatting.
- **Web app, browser shell and the extension's other screens** call routes that are modelled.
- **CI and infrastructure** are configuration; the scripts that change data are in `Backup`.
- *Inside modelled components*: audit and analytics (except where their failure is
  noticed), what models write, OCR and text detectors (a set of words), the consent
  screen and the blur filter, password hashing and sealing (library functions), the
  default project of a sign-up, `last_used_at`, dry runs, listing and preview routes.

## 7. Plan

Done:

1. `ActionExecution`, `ActionLifecycle` with their proofs: the heart of the product.
2. `MediaLifecycle` with its proofs: what is kept and what is deleted.
3. `Enrichment` with its proofs: the capture's other half.
4. `LiveSession` and, over it, `LiveBuffer`, with their proofs.
5. `AuthSessions` with its proofs: logins, changes, resets, pairing and the sweep over
   one set of sessions.
6. `KeyRotation` with its proofs: rotation beside captures, deletions, connections and disconnections.
7. `Backup` over `RestoreTarget`, with its proofs: publication, fetch and restore with a marker written last.
8. `ValidationGate` with two instances of `SyntheticAccount`, with its proofs.
9. `Capture` with its proofs: the panel, redaction and what may be stored.

Left:

1. `RateLimiter`: the counter whose TTL is set by a second command, and its fallback.
2. A composition of `Capture` and `MediaLifecycle`: a certified image from the walk to
   its blob, beside deletions and the sweep.

# Verification of the VegaStack Labs control plane

This directory holds a TLA+ development for the control plane under `src/`: a Go
service that turns declarations into plans, has plans acknowledged, and executes
them as durable *runs* against hosts and providers. The modules here model the
part where an error is most expensive and hardest to test: the **run engine**,
the **durable run rows** it works on, the **claim protocol** through which an
external executor carries out a run, the **acknowledgement** by which a human
admits one, and the **local backup repository**, in which one kind of run writes,
one verifies and one deletes. TLC checks them on small instances, and TLAPS proves
the safety properties for every size; 4.6 lists what only TLC shows.

Line numbers below refer to files under `src/`.

## 1. The system

### 1.1 Inventory

| Part | Where | In this development |
|---|---|---|
| Run rows: runs, steps, target leases, mutation keys | `internal/store/run_repository.go`, migration `0009_runs.sql` | `RunStore` |
| Run engine: submit, resume, cancel, step loop, startup | `internal/run/engine.go` | `RunEngine` |
| Contract of a run | `docs/control-plane-service.md`, `generated/contracts_gen.go` (transitions) | `RunLifecycle` |
| External executors: claim, renew, receipt, sweep | `internal/run/external_executor.go`, `internal/store/executor_lease_repository.go`, migration `0010` | `ExternalExecutor` |
| Server lifecycle | `internal/api/application.go`, `internal/server/operations.go` | `Shutdown`, `Crash`, `Restart` … in `RunEngine` |
| Adapters | `internal/adapter`, `internal/adapters` | external actions in `RunEngine` |
| Acknowledgement, Slack adapter, admission | `internal/acknowledgement`, `store/acknowledgement_*.go`, `internal/adapters/slack`, `internal/run/admission.go` | `Acknowledgement` |
| Audit chain, intents, outbox | `internal/audit`, `store/intent.go`, `store/audit_*.go`, `store/outbox.go` | replay rule only; rest planned |
| Plans, declarations | `internal/plan`, `store/plan_repository.go`, `store/declaration_repository.go` | planned |
| Schedules, gates | `internal/schedule`, `internal/gate`, their repositories | planned |
| Local backup and verification | `internal/adapter/localbackup`, `internal/backup/rest_server_linux.go`, `store/backup_*.go` | `LocalRepository` |
| Local retirement, lock catalogs | `internal/adapter/localretention`, `internal/backup/retention_rest_linux.go`, `store/retirement_*.go`, migration `0022` | `LocalRetirement` |
| Off-site copies and retirement, restore, recovery, credential lifecycle | `store/offsite_*.go`, `internal/recovery`, `store/credential_*` | later |
| Hosts, inventory, services, networking, CI | `internal/host*`, `internal/inventory`, `store/ci_*` … | not modelled |
| Authorization, API, transports, CLI, console, schemas, tooling | `internal/authorization`, `internal/api`, `cmd`, `web`, `schemas`, `tooling` | not modelled (pure or presentation) |

`PROJECT.json` has the complete list with the reason for each part left out.

### 1.2 How the modelled parts interact

A plan that needs a human is first acknowledged: a request is posted to Slack,
the human presses a button, and the approved request becomes a proof that exactly
one run may use, once, before the plan expires. An operator then submits the
plan. The engine creates a `queued` run with
one step per operation and drives it in the goroutine of the request: for each
step it re-reads the run, takes a lease on the step's target, records the
intent (`BeginStep`), calls the adapter, records its receipt, has the adapter
verify the target independently, finishes the step and releases the lease. Any
error takes one of three closing paths, `interruptBeforeEffect`,
`failBeforeEffect` and `partial`. Cancellation and resumption arrive as separate
requests, concurrently. When the process dies, the next start reconciles the
rows it finds before it serves requests.

A run whose plan names an external executor is only opened by the engine. The
executor claims one step at a time, checks in with a rotating nonce, and sends
receipts; the server verifies the target itself before it believes a receipt. A
periodic sweep expires leases whose holder is silent and marks their steps
ambiguous.

Some runs work on a local backup repository, a directory of restic objects. A
backup takes a writer lease, starts a custody child that holds the directory's
flock and serves restic's uploads, and appends a recovery point. A verification
takes a read lease, restores the point, records a proof and moves the last-good
row by compare-and-swap. A retirement selects points from the rows, is planned and
acknowledged, claims the repository when nobody else holds a lease, lets restic
forget and prune through a server that journals every change, restores every
survivor, and publishes a successor generation. What it deletes goes to a
quarantine. Leases of backups and verifications lapse with time; that of a
retirement does not.

Every store call is one SQLite transaction taken under the store's mutex, so
concurrency is interleaving of store calls, and this is the grain of the model.

## 2. Modules

    RunStore          rows and transactions (XAllowed / X pairs)
      RunEngine       workers, shutdown, crash, startup; safety and liveness
        RunEngineProofs    inductive invariant, theorems for every environment
          RunEngineRequests    stronger invariant; store calls and requests keep it
            RunEngineOrderly     theorems when requests for a run follow one another
        ExternalExecutor   handlers, sweep, executor; composed with the engine
          ExternalHandlerProofs    inductive invariant; engine and handlers keep it
                                   (also over RunEngineProofs)
            ExternalExecutorProofs   theorems for every environment
              ExternalHonestProofs     what a stopped external run records
          MCExternalExecutor
        MCRunEngine
    RunLifecycle      what a run promises; implemented by the two above
    Acknowledgement   the request, its proof, the admission of a run, the message
      AcknowledgementProofs  inductive invariant and theorems
      MCAcknowledgement
    LocalRepository   the directory, its rows, backups and verifications
      LocalRetirement      retirements, and the three together
        LocalRetirementInv     inductive invariant (definitions only)
          LocalRetirementProofs  that it is inductive, and the theorems
        MCLocalRetirement

### 2.1 RunStore

One variable per column that decides anything: `status`, `cancelRequested`,
`changed`, `stepStatus`, `effectState`, the set `lease` of active target leases,
`leased` (steps that ever had a lease row), and `keys`.

A call of the repository is a pair: `XAllowed` says when the transaction commits,
`X` what it writes. A caller for whom `XAllowed` is false gets the error, and the
model follows the caller's error path. The two partial unique indexes over
active leases (migration 0009, lines 73-74) are `TargetFree`.

`keys` models idempotency. `mutateRun` (578-622) files a change under a digest of
the run, the event and a time truncated to the second; a second call with the
same key reports success and writes nothing. A key can only be met again within
its second, so `keys` is emptied by `Tick`.

### 2.2 RunEngine

A *worker* is one goroutine. `pc[w]` names the next store or adapter call, `job[w]`
its local variables, in particular what it read before and relies on now.

| Code | Actions |
|---|---|
| `submit` (188-291) | `Submit`, `ActivateRefused`, `Start`, `StartExternal` |
| `ResumeAs` (317-347), `start` (538-547) | `Resume`, `ResumeStart` |
| `MutateAs` (384-439), `CancelAs` (353-378) | `Cancel`, `CancelAs` |
| `start`, loop head (548-601) | `Loop`, `LoopStopped`, `ReleaseLast`, `AdapterUnavailable`, `Complete` |
| `start`, step body (602-733) | `Acquire`, `Begin`, `Dispatch`, `EffectLands`, `Execute`, `Returned`, `Verify`, `Release` |
| closing paths (876-942) | `Close`, `ReleaseAll`, `Settle` |
| `Reconcile` (470-518), `ActiveRuns` | `Restart`, `ReconcileRelease`, `ReconcileMark`, `ReconcileSettle`, `ReconcileDone` |
| the world | `Tick`, `Shutdown`, `Crash` |

`landed[r][i]` counts how often the step changed its target and `late[r]` the
steps begun after a cancellation was recorded; no action reads them.

The adapter is external. It may change the target once per call and at any time
during it, may return any outcome, and may be cancelled; it is assumed not to
hide a change (`EffectObserved`, `Changed`), which is the contract adapters are
written to. An unverifiable receipt, a failed verification and an expired lease
are all possible at every step.

Three constants switch the environment, so that each property is checked in the
harshest environment it survives: `Overlap` (two requests may drive one run at
once), `SameSecond` (a resume or restart may follow within the second of the
interruption), `Refusals` (reservations and schedule windows may refuse a step).

### 2.3 ExternalExecutor

A *handler* is a goroutine serving a claim, renewal or receipt, or the sweep.
`hj[h]` holds what it read: `exact`, `live`, `active`, `inFlight`, `doubt`. A renewal
reconciles first and then goes back to the lease its request names, `bound`, whatever
steps the reconciliation went through. The lease row of a step is `xlease[r][i]`; whether it is active is membership in the store's `lease`,
so that `ReleaseRunLeases` of the engine releases it too.

| Code | Actions |
|---|---|
| `Run` (75-93), `Reconcile` (319-344), store `Expire` (206-281) | `StartSweep`, `Expire`, `Each` |
| `recoveryRequired` (373-396) | `Mark`, `ToPartial`, `CloseLease` |
| `Claim` (95-197), store `Claim` (55-136) | `StartClaim`, `ClaimRead`, `ClaimTx` |
| `Renew` (199-231), store `Renew` (138-204) | `StartRenew`, `RenewRead`, `RenewTx` |
| `SubmitReceipt` (233-317), `boundLease`, store `RecordReceipt` (345-445) | `StartReceipt`, `RecordObservation`, `Judge`, `Finish`, `ReleaseReceipt`, `SettleReceipt` |
| the executor | `ExternalEffect`, any receipt with a current or outdated nonce, any number of times |

### 2.4 RunLifecycle, the abstract specification

No goroutines, leases or clocks: the status of a run, what is known of each
step's effect, and whether it took place. It allows a run to be interrupted,
failed or withdrawn only when every effect is known, to be `partial` only when
one is not (or a step ended partial), to succeed only with every step verified,
and a step to return to *not begun* only if it never touched its target.
`RunEngine` maps `known` from the two step columns (`Known`), and both detailed
specifications are checked to implement it (`ImplementsLifecycle`).

### 2.5 Acknowledgement

The acknowledgement of one plan, with the runs submitted for it reduced to their
status. `ack` is the row of `acknowledgement_requests` with its proof, `run[k]` the
run submitted under idempotency key `k`, `card[c]` a posted message with its row
in `acknowledgement_deliveries`. The processes are API handlers, the goroutine
that consumes Slack envelopes (`decider`) and the one that updates posted messages
(`refresher`); each holds what it read in its record, and between any two of its
calls the clock may tick, the state revision may move and the grant may be
revoked. Every write names the revision of the plan, hence `~moved` in its guard.

| Code | Actions |
|---|---|
| `Service.Request` (74-119), store `Create`, `HTTPTransport.Publish` | `Request`, `CreateRequest`, `Publish`, `Status` |
| `Adapter.consume` (190-254), `Service.Decide` (121-168) | `Receive`, `DecideAgain`, `DecideLate`, `DecideRead`, `DecideCheck`, `DecideWrite` |
| `Service.Status` (172-188), `expire` (222-233) | `StatusRow`, `StatusFails`, in every action that calls it |
| `submitExactPlan`, `Engine.submit` (224-291), `AdmissionGate.Activate` | `Submit`, `CreateRun`, `StartRun` |
| `verifyExecution` (250-309) | `VerifyRunClaim`, `VerifyHuman`, `VerifyFresh`, `VerifyCurrent`, `Consume` |
| `HTTPTransport.Refresh` (23-111), `MessageStatus` (489-518), `Projection` | `Refresh`, `ReadRun`, `Project`, `UpdateDone`, `UpdateFails` |
| the run, from `RunEngine` | `CancelRun`, `InterruptRun`, `EndRun`, `ResumeRun` |
| the world | `Press`, `Abandon`, `Tick`, `StateMoves`, `RevokeGrant`, `Crash` |

A candidate decision that does not match its request is denied and audited
without touching the row, so only matching ones appear.

### 2.6 LocalRepository and LocalRetirement

A *session* is a run of one kind: `Writers` back up, `Readers` verify, `Retirers`
retire. `pc[s]` says how far it is, `lease[s]` is its lease row and `left[s]` the
seconds until its context and its lease end, so that a session can be alive after its
lease has lapsed. `custodian` is the session whose child holds the flock; a child
may outlive the process that started it.

The directory is `repo`; `torn` are the objects in it that are not complete, `inflight` those
an upload is still writing, `hold` the quarantine. A point is restorable
(`Restorable`) when its snapshot and a pack for each chunk it needs are complete. The
rows are `point`, `proof`, `lastGood`, `catalog` (the lock catalog), `intent` (draft and
plan), `journal` with `denied`, `observed` (the inventory after the prune), `custody`,
and `gen` (the successor generations).

| Code | Actions |
|---|---|
| `localbackup` execute, `AcquireBackupWriterLease`, `AppendPendingRecoveryPoint` | `StartBackup`, `AcquireBackupWriterLease`, `WriterRefused`, `OpenCustody`, `AppendPendingRecoveryPoint`, `CloseBackup`, `FinishBackup`, `BackupFails` |
| `rest_server_linux.go`, PUT | `PutObject`, `CompletePut`, `AbortPut` |
| `localbackup` verify, `backup_verification_repository.go` | `StartVerify`, `AcquireBackupReadLease`, `ReaderRefused`, `InspectPoint`, `AppendLocalVerification`, `CurrentLocalLastGood`, `AdvanceLocalLastGood`, `CloseVerify`, `ReleaseBackupReadLease`, `VerifyFails` |
| `retirement_draft.go`, `retirement_selection.go`, `StageLocalRetirement` | `Draft`, `PlanRetirement`, `StageLocalRetirement` |
| `ClaimLocalRetirement`, `localretention` adapter | `ClaimLocalRetirement`, `ClaimRefused`, `OpenRetirement`, `PreCheck`, `PostCheck`, `CloseRetirement`, `RetireFails` |
| `retention_rest_linux.go`, `retirement_journal.go` | `AdmitRequest`, `BeginLocalMutation`, `DenyMutation`, `RefuseMutation`, `LandMutation`, `FinishLocalMutation`, `FinishRetainedUncertain`, `FinishLost` |
| `retirement_settlement.go`, `retention_lock_activation.go` | `CommitLocalRetirementSuccess`, `ActivateLocalRetentionLockCatalog` |
| the world | `Declare`, `Tick`, `Crash`, `CustodianDies` |

restic is external and hardly trusted: it may ask for any change at any time. Two
things are assumed of it: it has no request open when it exits with success, and it
never gives two packs one name.

Abstractions. Index, lock, config and key objects are left out, and so are bytes,
capacity and cadence, which can only refuse. The age window of the selection is a
cut anywhere in the order of the points. Of two proofs in one second the last
appended is the latest. How much of its time a session uses before it has its lease
is open. That a draft waits for the run that activated its catalog to succeed is
left out, which allows more behaviours; catalogs change only while a draft is
pending, since nothing else reads them. The recovery epoch is constant, and a failing
transaction is a crash.

## 3. Runs

Times are on two cores.

| Run | Instance | Shows |
|---|---|---|
| `engine_orderly` | 2 runs, 1 step each on one shared target, 2 workers, requests for one run follow one another | a stopped run's `changed = false` is true; only `partial` runs end with an unverified effect; no lease outlives its run; no two adapters on one target; startup settles everything |
| `engine_adverse` | 1 run, 2 steps, 2 workers, `Overlap`, `SameSecond`, `Refusals` | types; a step acts at most once; success means verified |
| `engine_live` | 1 run, 2 steps (the second not idempotent), fairness | refinement of `RunLifecycle`; at most one step begins after cancellation; a cancelled run stops running |
| `external_orderly` | 1 external run of 2 steps, sweep and one handler | honest records, ambiguity reported, steps in order, startup settles |
| `external_races` | 1 step, lease of 2 s with check-in after 1 s, `Overlap`, `SameSecond` | types; success means verified; an ambiguous step stays ambiguous |
| `external_live` | 1 step, fairness | refinement; every claim is settled; every external lease ends |
| `executor_two_claims` | 2 external runs, 2 handlers | violation, section 5.1 |
| `executor_cancel_race` | 1 external run, `Overlap` | violation, section 5.2 |
| `ack_races` | 2 handlers, 2 keys, 1 message, a plan of 2 s | types and row constraints; one run per plan, whose proof was approved and used in time, by a human with the grant; decisions are final and reported truly; settled messages are true |
| `ack_live` | 1 handler, 1 key, one crash, fairness | no proof used without a durable run; every recorded message reaches its final label |
| `ack_expiry_moved` | as `ack_live`, no crash | violation, section 5.3 |
| `local_retire` | 2 points that share a pack, 1 backup, 1 verification, 1 retirement, with or without an earlier generation; 902 686 states, about two and a half minutes | types; the last-good point is never retired; a promise survives backups and retirements; a retirement can be undone wherever it stops; proofs and publications are true when recorded; after a failure nothing moves |

**Bounds.** Two runs on one target are the least that contend for a lease; two
steps the least with an order between steps and a boundary at which cancellation
acts; two workers the least that race on one run. A lease of one second makes
every position relative to expiry reachable, because a tick may fall between any
two calls; two seconds with check-in at one are needed for a renewal that is
neither too early nor too late. In these runs nothing else is bounded: crashes, resumes,
cancels and receipts may repeat without limit (`landed` and `late` are bounded by
the properties themselves).

For an acknowledgement, two submit keys are the least that compete for one proof,
and two handlers the least that race. The clock stops at `Expiry`, since no
comparison tells later instants apart; with a plan of two seconds a request can be
created, decided and used in different seconds, and each call can fall before or
after the expiry. `Skew = 0` makes a candidate too old after one tick. One message
is enough because messages do not interact. Crashes are bounded by `MaxCrashes`.

For the repository, two points in one pack are the least for which a prune has to
repack, so that deleting the old pack before the new one is complete would lose the
survivor. In the first generation a retirement runs beside a verification, or beside
a backup; after a published generation all three run at once, because there p2 can
only be retired once a newer point is last-good. `LeaseTime = 2` lets a lease lapse
between any two calls, or not; `MaxProofs = 3` is the two earlier proofs and one more;
`MaxRevision = 3` lets the declaration move before and after the draft; `MaxWork = 3` is the
work of this prune (add a pack, remove a pack, remove a snapshot); `MaxRequests = 1`
is one request waiting beside the one served; one catalog, activated
at most twice (`MaxCatalogs`), locks p1 before or after the draft.

**Symmetry.** `engine_orderly` (workers) and `ack_races` (handlers, keys) use it,
and only safety is checked there.

**Fairness.** Goroutines run (weak fairness of `Work(w)`, `Handle(h)`): an adapter
returns because its context ends with the lease. The sweep is started by a
ticker. A process told to stop exits, and the service manager starts it again.
Time passes, and crashes do not go on for ever. Operators and executors owe
nothing. For posted messages (`AckFairness`): the adapter's ticker calls `Refresh`
for every uncompleted message every two seconds, and Slack does not refuse an
update for ever. Nothing is assumed of the human, the clients or the decider, and
not even that time passes: `MessageSettles` starts at the expiry.

**Deadlock** is checked in the runs of the engine and the executor, where `Tick` is
always possible, so this says little and no property relies on it. It is not
checked for `Acknowledgement`, where the exchange about one plan really ends, nor
in `local_retire`, where each session is one run and runs end. No liveness is stated
for the repository: a retirement that fails keeps its lease on purpose (5.4).

## 4. Proofs

### 4.1 The run engine in every environment

`RunEngineProofs` proves, for every set of runs, workers, holders and targets,
every number of steps, and every choice of `Overlap`, `SameSecond` and `Refusals`:

| Theorem | Statement |
|---|---|
| `TypeCorrect` | `Spec => []TypeOK` |
| `AtMostOnce` | `Spec => []EffectAtMostOnce` |
| `SuccessIsVerified` | `Spec => []SucceededIsVerified` |

from the named assumptions in `RunStore` and `RunEngine` only (`NSteps` and
`LeaseSeconds` positive, `Run` non-empty, workers are holders, `Idempotent` a
Boolean table).

**The inductive invariant** `IInv`. `EffectAtMostOnce` says nothing about why a
second effect cannot happen, so it is strengthened:

- `UntouchedInv`: a step whose row says *not-started* has not touched its target.
  This is what makes `BeginStep`, which requires that state, safe after any
  number of resumes.
- `OwnerInv`: at most one worker is between the intent and the end of a given
  step. The leases do *not* give this (they can be released by a restart or by
  another worker of the run); the compare in `BeginStep` does.
- `ActingInv`: while a worker owns a step the row says *running* with its intent
  recorded, and what the worker knows covers what happened: it has not acted
  yet (`begun`), or its `changed`/`observed` is true, or it is closing as partial.
  Hence closing as interrupted or failed, which resets the row to *not-started*,
  only happens to an untouched target, and `UntouchedInv` is preserved.
- `VerifiedInv`, `PassedInv`: a step recorded as succeeded is verified, and a
  worker in the loop is past a step only if it has succeeded. `Complete` then
  finds all of them succeeded, although another worker may have moved the run in
  between.
- `LocalInv`: types, what `pc` implies of the local variables, and that no worker
  outlives its process.

**The argument.** Every action falls into one of three groups. *Quiet* steps
(`QuietStep`) change no effect state and no step in flight or done; *owner* steps
(`OwnStep`) change only the row of the step the worker owns; the rest (time, crash,
reconciliation) have a lemma each. Each action has a lemma that places it in its
group, and `NextIInv` collects them.

### 4.2 The run engine when requests follow one another

`RunEngineOrderly` proves, again for every set of runs, workers and targets and every
number of steps, under `Orderly`:

| Theorem | Statement |
|---|---|
| `StoppedIsHonest` | `Spec => []UnchangedIsHonest` |
| `NoSilentAmbiguity` | `Spec => []AmbiguityIsReported` |
| `NoLeaseLeftBehind` | `Spec => []FinishedHoldsNoLease` |
| `TargetsExclusive` | `Spec => []TargetExclusion` |
| `CancelStops` | `Spec => []CancelStopsSteps` |
| `StartupIsComplete` | `Spec => StartupSettles` |
| `EngineImplementsLifecycle` | `Spec => ImplementsLifecycle` |

`Orderly` says `Overlap = FALSE` and `SameSecond = FALSE`, because the properties fail
otherwise (5.4), and `External = {}`: steps of external runs belong to
`ExternalExecutor`. Cancels are not restricted, they overlap anything; nor are
refusals, lease expiry, shutdowns, crashes, restarts, and runs that meet on a target.

**The inductive invariant** is `IInv` with `OInv` (in `RunEngineRequests`), which adds what
the step rows, the run row, the leases, the mutation keys and the one driving worker say of each other:

- `OneDriver`: at most one worker drives a run. A restart or a resume may start another
  only when there is none.
- `RowInv`, `StatusInv`: the two columns of a step agree, and the status of the run says
  which of them can be open or in doubt. A stopped run that is not `partial` has only
  untouched and verified steps.
- `HonestInv`: a change that is no longer in flight is in `changed`. While it is in flight
  `DriveKnows` has it in the worker's locals, and `ActingInv` in the path that closes.
- `KeyInv`, `DriveKeys`: a mutation key of the current second is only met by a call whose
  effect is already in the rows, so no transition that matters is lost as a replay. This
  is the conjunct that `SameSecond` breaks.
- `LeaseInv`, `LeaseUnique`, `DriveLease`: only running runs have leases, a target has one,
  and a worker between `AcquireTargetLease` and its release holds it, even if it has
  expired: what expires is the adapter's context, not the row.
- `LateInv`, `DriveLate`: no step has begun late while a worker may still begin one.
- `DriveRows`: what the worker found in the rows when it decided where to go is still so,
  although a cancel may have written in between. `CancelOK` limits what the cancel writes.
- `StartupInv`: during reconciliation every running run is still pending.

**The argument.** A step is about one run. `RunSame` says what it leaves of every other
run, and `OtherRun` and `OtherDriver` that those stay in order; every repository call
has a lemma that it is about one run only (`TransitionOnly`, `CloseOnly`, …). Each action
then has one lemma, `Orderly...`, that proves the conjuncts for its own run, and in the
same place that the action is a step of `RunLifecycle` or a stutter (`LifeStep`), where the
guards of the abstract step follow from `DriveRows` and `HonestInv`.

### 4.3 The engine with the external executor

`ExternalExecutorProofs` proves, for every set of runs (external or not), workers,
handlers and targets, every number of steps, every period of the leases and of the
check-ins, and every choice of `Overlap`, `SameSecond` and `Refusals`:

| Theorem | Statement |
|---|---|
| `XTypeCorrect` | `XSpec => []XTypeOK` |
| `ClaimsInOrder` | `XSpec => []StepsInOrder` |
| `AmbiguityStays` | `XSpec => AmbiguityIsFinal` |
| `ExternalSuccessIsVerified` | `XSpec => []SucceededIsVerified` |
| `ExternalAtMostOnce` | `XSpec => []EffectAtMostOnce` |

from the assumptions of 4.1 and `ExecutorAssumption` (the executor is a lease holder that is
no worker, and the check-in period is not longer than the lease). Of the executor it is
assumed only that it acts at most once on a step it is given, and not after its final
receipt (`ExternalEffect`).

**The inductive invariant** `XInv` (in `ExternalHandlerProofs`) is the engine's `IInv` with

- `ClaimInv`: only a claimed step has an active or an expired lease; a claimed step is no
  longer *not-started*, its target is untouched until the executor has worked on it,
  and every step before it has succeeded.
- `ApartInv`: no worker is between the intent and the end of a claimed step. The engine may
  drive an external run (after a resume), so this is not a matter of which runs are
  external: it holds because `BeginStep` and the claim both require *not-started*.
- `HandlerInv`: what a handler still holds to be true when it acts. The leases a sweep has
  listed and the step it is about to mark, record or finish are claimed; before `ClaimTx`
  all earlier steps have succeeded; before the run is settled as succeeded all steps have.
  Whether the step is still in flight is not part of it: every transaction compares that
  again.
- `XTyped`: the types of the lease rows and of the handlers.

The invariant was model-checked on the instances of `external_races` and
`external_orderly` before it was proved.

**The argument.** `HandlerInv` speaks only of what nobody takes back. `RowSafe` says so of the
rows (success and ambiguity are final), `ClaimsGrow` of the claims, and `HandlerStable` draws the
conclusion. A step of the engine keeps its own invariant by `NextIInv`; what has to be
shown of it is that it leaves claimed rows and targets alone (`ClaimsSafe`), takes only free
steps (`TakesFree`) and leases nothing to the executor (`NoNewLease`), which is one lemma per
action, `...Safe`. A step of a handler moves no worker, so `IInv` is kept when the rows of the
steps that workers act on are (`OutsideStep`): because no row in flight or done changes
(`CalmRows`) or because the one that changes is claimed (`ClaimedRow`). `ClaimTx` and
`ExternalEffect` are treated on their own. `AmbiguityStays` is `RowSafe`.

**What a stopped run records.** `ExternalHonestProofs` proves

| Theorem | Statement |
|---|---|
| `ExternalIsHonest` | `External = Run /\ Overlap = FALSE` implies `XSpec => []UnchangedIsHonest` |

for every number of workers and handlers, with crashes, refusals and any `SameSecond`. All
runs are external here. `Overlap = FALSE` means what it does in `external_orderly`: resumes
of a run follow one another, a claim commits while no request is at work on its run, and
none begins between the two transactions of a recovery. Without it the property fails, by
the race of 5.2. Everything else races: claims, check-ins, receipts and sweeps with one
another, and cancels with a resumed run. The inductive invariant `HInv` (at the end of
`ExternalExecutorProofs`, with what the engine does to the record) is `XInv` with

- `HonestInv`: a step nobody claimed has an untouched target. A claimed step is on record as
  a change; or it is in flight in a run that is *running* and that no request will stop
  (`Guarded`); or it is verified, the executor has sent its last receipt, and its target is
  untouched. So a step can leave its flight only by way of the record.
- `ReceiptInv`: a receipt that will finish a step is the executor's last word on it. A
  handler that will fail the run has a failed step in hand; one that will interrupt it has
  found a cancellation on record, and no later step has been claimed or is about to be
  (`Beyond`). So settling the run leaves no step in flight behind it.

`HInv` was model-checked too before it was proved, with two workers and two steps, and with
two handlers beside the sweep and `SameSecond`. The first conjunct is what separates a claim
from the cancel of 5.4, which stops a resumed run over a step the engine has begun: that
step is nobody's claim, its adapter refuses, and its target is untouched.

### 4.4 Acknowledgement

`AcknowledgementProofs` proves, for every set of handlers, submit keys and messages, every
expiry and skew, and any bound on crashes:

| Theorem | Statement |
|---|---|
| `AckTypeCorrect` | `AckSpec => []AckTypeOK` |
| `OneAcknowledgedRun` | `AckSpec => []StartedIsAcknowledged` |
| `ProofsAreOwned` | `AckSpec => []ProofHasOwner` |
| `AnswersHold` | `AckSpec => []AnswerIsFinal` |
| `SettledMessagesAreTrue` | `AckSpec => []SettledIsTrue` |
| `DecisionsAreFinal` | `AckSpec => DecisionIsFinal` |
| `AuthorityHolds` | `AckSpec => AuthorityAtUse` |

from `AckConstants` only (the sets are not empty, the expiry is positive). These are all
the safety properties of `ack_races` and `ack_live`.

**The inductive invariant** `AckIInv`. Nothing that a goroutine read need be so when it
writes, since no lock is held in between. `StableStep` collects what no step takes
back: time, a decision and its date, a time of use, that a run exists and when it was
created, that it has ended. The local invariants speak of nothing else:

- `HandlerInv`: a handler about to create a run has seen the approval, and its date is not
  before the decision; past that its run exists; about to consume, it is before the
  expiry; about to start, the proof is used. That the proof is still *unused* is never
  assumed: `ConsumeAllowed` compares again.
- `RunInv`: at most one run exists, created under an approval; it leaves the queue only
  after the proof was used, and the proof is used only after it exists. The uniqueness
  comes from the index over proofs at creation, not from consumption.
- `RefresherInv`, `CardInv`: a final label, in a local variable or in a message, says
  something stable.
- `RowInv`: decisions are not dated ahead of the clock (so neither are the runs created
  under them), and answers are decisions.
- `WorldInv`: a grant is revoked only with a move of the state revision. With the revision
  in the guard of every write this is all `AuthorityAtUse` needs.

**The argument.** `Stable` proves `StableStep` for every action, by the few ways in which the
request (`RowMove`) and the runs (`RunCreated`, `RunsGoOn`) change. Each conjunct then has a
lemma: framed actions keep it by stability, and the ones that write it are treated one by
one.

### 4.5 The local repository

`LocalRetirementProofs` proves, for every set of backups, verifications and
retirements, every set of points, chunks and packs, every initial history, and every value
of the bounds:

| Theorem | Statement |
|---|---|
| `TypeCorrect` | `Spec => []LRTypeOK` |
| `LastGoodNeverRetired` | `Spec => []LastGoodSurvives` |
| `PromisesKept` | `Spec => []PromisesRestorable` |
| `RetirementUndoable` | `Spec => []PredecessorRecoverable` |
| `ProofsAreTrue` | `Spec => ProofIsTrue` |
| `PublicationsAreCurrent` | `Spec => PublicationIsCurrent` |
| `StoppedStaysFrozen` | `Spec => StoppedIsFrozen` |

These are all the properties `local_retire` checks. The assumptions are
`RepositoryConstants` (the three kinds of session and the points are apart, earlier
points are distinct and were restorable when made) and `RetirementConstants` (the
earlier retirement did not retire the newest point; there are finitely many
retirements).

**The inductive invariant** `IInv` (in `LocalRetirementInv`). No single check in the
code makes a retirement safe: every row it reads may be old by the time it acts. What
makes it safe is who may act:

- `LeaseInv`: a retirement's lease excludes every other lease, and whoever is at
  work within its time holds one. A reader or writer beyond its time may still be
  running, which is why `Live` appears in what follows.
- `CustodyInv`: therefore, once a retirement has had custody, no other child serves
  the directory while the lease is held; and whatever its own child has begun is in
  the journal. The lease alone does not give this: the child of a backup whose lease
  lapsed may live on, and only the flock keeps it apart.
- `PlanInv`: what was selected stays right. The last-good point and the locked points
  are survivors from the claim on.
- `PointInv`: a retired point has no snapshot and never returns; no verification past
  its inspection is about a retired point. With it, the compare-and-swap of
  the last-good row, which looks at no lease, cannot name one.
- `FileInv`: what a run has seen of the directory is still so when it records it.
- `ShapeInv`: domains and types that the provers need.

`PromiseInv` is proved on top of `IInv`: the promise holds at the claim, because no
retirement was held then; complete objects only accumulate until `PreCheck`; `PreCheck`
compares the snapshots in the directory with those of targets and survivors, so
everything promised is one or the other although the rows selected from may be
older; and from there on no point or proof changes until the commit, which
retires the targets and finds the survivors restorable.

**The argument.** For each conjunct there is a *frame*, a predicate of a step that says
what the step leaves alone (`LeaseFrame`, `CustodyFrame`, …), one lemma that a framed step
keeps the conjunct, and one lemma for each group of actions (`...Backup`,
`...Handler`, `...Verify`, `...Request`, `...Retire`, `...Environment`) that shows an
action to be framed or, for the few that are not, proves the conjunct directly. The
action properties follow from `IInv` in the same way: an action either leaves the
guarded rows alone or is one of the two or three that write them.

### 4.6 Only model-checked

- Liveness is beyond the prover: `CancelTakesEffect`, `ClaimIsSettled`, `ExternalLeaseEnds` and
  `MessageSettles` stay with TLC.
- For runs of an external executor `AmbiguityIsReported`, `StartupSettles` and
  `ImplementsLifecycle` are model-checked with one worker (`external_orderly`, `external_live`).
  The first two are no theorems: with a second worker, even when the requests that drive a
  run follow one another, TLC finds them violated, by the cancel of 5.2. `ImplementsLifecycle`
  has not been proved for them. For runs the engine carries out itself all three are
  proved (4.2).

Every other property of a passing run is proved.

## 5. Findings

### 5.1 One executor can hold two work items

`Claim` searches for active work in runs it read before the store transaction,
and the transaction checks only the step and its target. Two overlapping claims
of one executor commit two items on two runs. (Run `executor_two_claims`; comment
at `external_executor.go:115`.)

### 5.2 A claim can be stranded by a cancel

`CancelAs` reads an external run between two steps and interrupts it later,
without looking at the steps again. If the executor claims in between, the step
stays in flight in an interrupted run. The sweep and `Reconcile` recover only
running runs, so the lease expires and the step is never marked ambiguous, and the record of
the stopped run can say that nothing changed although the executor acted. (Run
`executor_cancel_race`; `docs/automation-and-agents.md:183`.)

### 5.3 A pending request cannot expire once the state has moved

`expire` (`acknowledgement/service.go:222`) goes through the same transaction as a
decision, which names the state revision of the plan. When anything else has
advanced the revision, it fails with `STATE_CONFLICT`: `Status` returns an error
every time, the request stays pending, and the refresher never settles its
message. (Run `ack_expiry_moved`; comment at `acknowledgement/service.go:170`,
"terminalizes a pending request whose exact plan expiry has elapsed".) No
authority follows from it: every use of the request is refused for the same
reason. `MessageSettles` names this case as an exception.

### 5.4 Observations without a run of their own

- A run that is interrupted, resumed and cancelled within one second is taken from
  `running` to `interrupted` twice under the same mutation key. The second call is a
  replay: it succeeds and writes nothing. The worker returns, and the run stays
  `running`, with its cancellation recorded, until the process restarts
  (`docs/control-plane-service.md:274`: "Cancellation is observed before the next step
  or at the current safe boundary"). TLC shows it with `SameSecond = TRUE` in
  `EngineLive.cfg`; with the resume at least a second later the property holds. The
  safety theorems hold in both cases.
- `docs/automation-and-agents.md:278` says `cancelled` means that no step began and
  `changed = false`; a run interrupted after verified steps can be cancelled too,
  and keeps its `changed`.
- A recorded cancellation is never cleared: a resumed run stops at its first
  boundary.
- When `BeginStep` is refused, `start` (624-627) returns with the lease held and the
  run `running`; only a restart settles it.
- The sweep may expire a lease between `FinishStep` and `ReleaseTargetLease`
  (`external_executor.go:289-299`); the handler then returns an error and a fully
  verified run stays `running` until the next restart.
- Resuming an interrupted external run makes the engine drive it in process; its
  adapter refuses and the run fails.
- The cancel of 5.2 meets such a resumed run too: it reads the run between two steps, the
  engine begins a step, and the cancel takes the run to `interrupted` over it. The step
  stays in flight in a stopped run: it is not reported as ambiguous, and a restart, which
  lists active runs only, does not settle it. It takes a second worker and no overlap of
  driving requests. Runs the engine carries out itself are safe: their cancel
  only leaves a mark while they run (4.2).
- With overlapping requests a lease can be left on a terminal run; `Reconcile` lists
  only active runs and would not release it.
- With overlapping requests a step can begin twice after a cancellation: two resumes pass
  the boundary before the cancel, the first begins the step and is interrupted before its
  effect, the run is resumed again, and the second, still waiting for the lease, begins
  the step too. TLC shows it with three workers and `Overlap = TRUE`; `CancelStops`
  proves one to be the limit when requests follow one another.
- `StartupSettles` needs the restart to come at least a second after the last
  transition, for the same reason as the first observation.
- `verifyExecution` (285-290) lets a run created before the expiry use its proof
  after it, and `service_test.go:220` tests this with a stubbed plan service. In the
  assembled server `ValidateCurrent` refuses the plan from the same instant on, so
  the exception never applies; `StartedIsAcknowledged` states the stricter rule.
- `MessageStatus` looks for a run before it judges the plan. A run created and
  started in between, followed by a move of the state, lets the message be
  completed as stale although its plan ran. `SettledIsTrue` leaves that label out.
- A message posted whose receipt could not be saved is never updated; its buttons
  remain, and pressing them is answered from the row.
- The lease of a retirement is released by a successful settlement
  (`retirement_settlement.go:152`) and by nothing else. A retirement that fails or dies
  after its claim blocks every backup, verification and retirement of its class until
  somebody intervenes; `docs/platform-lifecycle.md:56` and
  `docs/security-and-operations.md:238` leave the reconciliation to an operator. This is
  what `StoppedIsFrozen` rests on.
- Nothing after the inventory that follows the prune is compared with the directory
  again at the commit; `FileInv` shows that it cannot have changed.
- Retention deletes interrupted runs; `docs/control-plane-service.md:274` speaks of
  terminal ones.

## 6. What is left out, and the plan

Not modelled inside the covered parts: the credential variant of the step body
(`executeSecretStep`, the same calls in the same order), operation receipts
(`ClaimRunOperation`, `CompleteRunOperation`), retention, and errors of the database
itself (a failed transaction is a crash of the step: the caller's error path).
Time is counted in whole seconds, as the code truncates it.

Planned, in this order:

1. `Acknowledgement`: an abstract specification "each proof admits one run"; the local
   approval during setup.
2. `OperationReceipts`: `ClaimRunOperation`/`CompleteRunOperation` with the lanes of
   `lockOperation`, over crashes between claim and completion.
3. `AuditIntent`: the intent table, hash chain and outbox cursor; that a replay
   returns what the first call returned, and that the chain has no gap.
4. `Declarations`: revisions and plans, stale plans refused.
5. `Schedule` and `Gate`: windows and approvals, in place of the constant `Refusals`.
6. `OffsiteRetirement`: the journal of off-site deletion, over crashes between provider
   calls; the refinement of one journal by both retirements.
7. Once a cancel looks at the steps again (5.2): the properties of 4.2 for external runs,
   with `XInv` and `OInv` together.

## 7. Running it

    tlc -workers 2 -config EngineAdverse.cfg MCRunEngine
    tlapm RunEngineProofs.tla
    tlapm RunEngineRequests.tla
    tlapm RunEngineOrderly.tla
    tlapm ExternalHandlerProofs.tla
    tlapm ExternalExecutorProofs.tla
    tlapm ExternalHonestProofs.tla
    tlapm AcknowledgementProofs.tla
    tlapm LocalRetirementProofs.tla

`tlapm` checks one module at a time: the lemmas of the modules it extends are checked
by calling it on each of them. Leaves marked `Zenon` are out of the SMT encoding's reach or
slow there; the pragma only chooses the prover, and `ZenonT(30)` and `SMTT(30)` its time.

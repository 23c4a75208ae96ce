------------------------------ MODULE RunStore ------------------------------
(***************************************************************************)
(* The durable rows of a plan run: internal/store/run_repository.go.       *)
(*                                                                         *)
(* Every repository call is one SQLite transaction taken under store.mu,   *)
(* so every operator below is one atomic step.  A call comes in two parts: *)
(* XAllowed is true when the transaction commits (or replays), X is the    *)
(* change it makes.  A caller whose XAllowed is false gets an error and    *)
(* nothing is written.                                                     *)
(*                                                                         *)
(* mutateRun records each change under an idempotency key built from the   *)
(* run, the event and a time truncated to the second.  A second call with  *)
(* the same key succeeds and writes nothing, whatever the run looks like   *)
(* by then.  `keys' holds the keys written during the current second;      *)
(* older keys can never be met again, because the clock is read in the     *)
(* same step as the transaction it stamps.                                 *)
(***************************************************************************)
EXTENDS Integers, FiniteSets

CONSTANTS
    Run,            \* run identities
    NSteps,         \* operations in each run's plan
    Holder,         \* who may hold a target lease
    TargetOf,       \* TargetOf[r][i]: the target step i of run r works on
    Idempotent      \* Idempotent[r][i]: the plan declares the step idempotent

ASSUME NStepsAssumption == NSteps \in Nat \ {0}

Steps == 1 .. NSteps

ASSUME IdempotentAssumption == Idempotent \in [Run -> [Steps -> BOOLEAN]]

VARIABLES
    status,           \* status[r]: plan_runs.status, "none" before Create
    cancelRequested,  \* cancelRequested[r]: plan_runs.cancellation_requested
    changed,          \* changed[r]: plan_runs.changed
    stepStatus,       \* stepStatus[r][i]: plan_run_steps.status
    effectState,      \* effectState[r][i]: plan_run_steps.effect_state
    lease,            \* active rows of target_execution_leases
    leased,           \* steps with any row there, active or closed
    keys              \* mutation keys recorded in the current second

runVars == <<status, cancelRequested, changed, stepStatus, effectState>>

leaseVars == <<lease, leased>>

storeVars == <<runVars, leaseVars, keys>>

RunStatus == {"none", "queued", "running", "succeeded", "failed", "partial",
              "interrupted", "cancelled"}

StepStatus == {"queued", "running", "succeeded", "failed", "partial",
               "interrupted", "cancelled"}

EffectState == {"not-started", "intent-recorded", "receipt-recorded",
                "effect-unknown", "verified"}

Lease == [run : Run, step : Steps, holder : Holder]

(* What mutateRun files a change under: the run, the step (0 for the run   *)
(* itself) and the event.                                                  *)
StepKey == Run \X (0 .. NSteps) \X (RunStatus \cup {"close", "cancellation"})
               \X (RunStatus \cup {"requested"})

StoreTypeOK ==
    /\ status \in [Run -> RunStatus]
    /\ cancelRequested \in [Run -> BOOLEAN]
    /\ changed \in [Run -> BOOLEAN]
    /\ stepStatus \in [Run -> [Steps -> StepStatus]]
    /\ effectState \in [Run -> [Steps -> EffectState]]
    /\ lease \subseteq Lease
    /\ leased \subseteq Run \X Steps
    /\ keys \subseteq StepKey

StoreInit ==
    /\ status = [r \in Run |-> "none"]
    /\ cancelRequested = [r \in Run |-> FALSE]
    /\ changed = [r \in Run |-> FALSE]
    /\ stepStatus = [r \in Run |-> [i \in Steps |-> "queued"]]
    /\ effectState = [r \in Run |-> [i \in Steps |-> "not-started"]]
    /\ lease = {}
    /\ leased = {}
    /\ keys = {}

-----------------------------------------------------------------------------
(* Run lifecycle.                                                          *)

Terminal == {"succeeded", "failed", "partial", "cancelled"}

RunTransitions ==
    {<<"queued", "running">>, <<"queued", "cancelled">>,
     <<"running", "succeeded">>, <<"running", "failed">>,
     <<"running", "partial">>, <<"running", "interrupted">>,
     <<"interrupted", "running">>, <<"interrupted", "cancelled">>}

InFlight(r, i) ==
    /\ stepStatus[r][i] = "running"
    /\ effectState[r][i] \in {"intent-recorded", "receipt-recorded"}

Create(r) ==
    /\ status[r] = "none"
    /\ status' = [status EXCEPT ![r] = "queued"]
    /\ UNCHANGED <<cancelRequested, changed, stepStatus, effectState, leaseVars, keys>>

TransitionKey(r, from, to) == <<r, 0, from, to>>

TransitionAllowed(r, from, to) ==
    \/ TransitionKey(r, from, to) \in keys
    \/ /\ <<from, to>> \in RunTransitions
       /\ status[r] = from
       /\ from = "interrupted" /\ to = "running" =>
             \A i \in Steps : stepStatus[r][i] = "interrupted" =>
                Idempotent[r][i] /\ effectState[r][i] = "not-started"

(* What a transition does to the steps it finds: a resume requeues the     *)
(* interrupted ones, an end of the run closes the queued ones.             *)
StepAfter(from, to, s) ==
    CASE s = "interrupted" /\ from = "interrupted" /\ to = "running" -> "queued"
      [] s = "queued" /\ to = "cancelled" -> "cancelled"
      [] s = "queued" /\ to \in {"interrupted", "failed", "partial"} -> "interrupted"
      [] OTHER -> s

TransitionRun(r, from, to, chg) ==
    IF TransitionKey(r, from, to) \in keys
    THEN UNCHANGED <<runVars, keys>>
    ELSE /\ status' = [status EXCEPT ![r] = to]
         /\ changed' = [changed EXCEPT ![r] = chg]
         /\ stepStatus' = [stepStatus EXCEPT
                             ![r] = [i \in Steps |-> StepAfter(from, to, stepStatus[r][i])]]
         /\ keys' = keys \cup {TransitionKey(r, from, to)}
         /\ UNCHANGED <<cancelRequested, effectState>>

CancellationKey(r) == <<r, 0, "cancellation", "requested">>

CancellationAllowed(r) ==
    CancellationKey(r) \in keys \/ status[r] \notin Terminal

RequestCancellation(r) ==
    /\ cancelRequested' =
          IF CancellationKey(r) \in keys THEN cancelRequested
          ELSE [cancelRequested EXCEPT ![r] = TRUE]
    /\ keys' = keys \cup {CancellationKey(r)}
    /\ UNCHANGED <<status, changed, stepStatus, effectState>>

-----------------------------------------------------------------------------
(* Target leases and the step protocol.                                    *)

LeaseOf(r, i, h) == [run |-> r, step |-> i, holder |-> h]

(* Faulty: the index over targets is missing.                              *)
TargetFreePerStep(r, i) == \A l \in lease : <<l.run, l.step>> # <<r, i>>

(* The two unique indexes over active leases: one per target, one per step. *)
TargetFree(r, i) ==
    \A l \in lease : /\ TargetOf[l.run][l.step] # TargetOf[r][i]
                     /\ <<l.run, l.step>> # <<r, i>>

AcquireAllowed(r, i) == status[r] = "running" /\ TargetFree(r, i)

AcquireTargetLease(r, i, h) ==
    /\ lease' = lease \cup {LeaseOf(r, i, h)}
    /\ leased' = leased \cup {<<r, i>>}

ReleaseTargetLease(r, i, h) ==
    lease' = lease \ {LeaseOf(r, i, h)} /\ UNCHANGED leased

ReleaseRunLeases(r) ==
    lease' = {l \in lease : l.run # r} /\ UNCHANGED leased

(* Faulty: the step is not compared with what start read.                  *)
BeginUnchecked(r, i, h) == status[r] = "running" /\ LeaseOf(r, i, h) \in lease

BeginAllowed(r, i, h) ==
    /\ status[r] = "running"
    /\ stepStatus[r][i] = "queued"
    /\ effectState[r][i] = "not-started"
    /\ LeaseOf(r, i, h) \in lease

BeginStep(r, i) ==
    /\ stepStatus' = [stepStatus EXCEPT ![r][i] = "running"]
    /\ effectState' = [effectState EXCEPT ![r][i] = "intent-recorded"]
    /\ UNCHANGED <<status, cancelRequested, changed, keys>>

ReceiptAllowed(r, i, h) ==
    /\ stepStatus[r][i] = "running"
    /\ effectState[r][i] = "intent-recorded"
    /\ LeaseOf(r, i, h) \in lease

RecordReceipt(r, i) ==
    /\ effectState' = [effectState EXCEPT ![r][i] = "receipt-recorded"]
    /\ UNCHANGED <<status, cancelRequested, changed, stepStatus, keys>>

(* Faulty: FinishStep does not look at the step it finishes.               *)
FinishUnchecked(r, i) == status[r] = "running"

FinishAllowed(r, i) ==
    stepStatus[r][i] = "running" /\ effectState[r][i] = "receipt-recorded"

(* Faulty: what the verification saw is not added to the run.              *)
FinishForgetsChange(r, i, result, chg) ==
    /\ stepStatus' = [stepStatus EXCEPT ![r][i] = result]
    /\ effectState' = [effectState EXCEPT ![r][i] = "verified"]
    /\ UNCHANGED <<status, cancelRequested, changed, keys>>

FinishStep(r, i, result, chg) ==
    /\ stepStatus' = [stepStatus EXCEPT ![r][i] = result]
    /\ effectState' = [effectState EXCEPT ![r][i] = "verified"]
    /\ changed' = [changed EXCEPT ![r] = changed[r] \/ chg]
    /\ UNCHANGED <<status, cancelRequested, keys>>

(* The three ways a step is closed without a verified receipt, named by    *)
(* the status they give the step: MarkStepUnknown, InterruptStepBeforeEffect *)
(* and FailStepBeforeEffect.                                               *)
CloseKey(r, i, result) == <<r, i, "close", result>>

(* Faulty: a step with a receipt on record cannot be marked unknown.       *)
CloseIntentOnly(r, i, result) ==
    \/ CloseKey(r, i, result) \in keys
    \/ stepStatus[r][i] = "running" /\ effectState[r][i] = "intent-recorded"

CloseAllowed(r, i, result) ==
    \/ CloseKey(r, i, result) \in keys
    \/ /\ stepStatus[r][i] = "running"
       /\ effectState[r][i] \in IF result = "partial"
                                THEN {"intent-recorded", "receipt-recorded"}
                                ELSE {"intent-recorded"}

CloseStep(r, i, result) ==
    IF CloseKey(r, i, result) \in keys
    THEN UNCHANGED <<runVars, keys>>
    ELSE /\ stepStatus' = [stepStatus EXCEPT ![r][i] = result]
         /\ effectState' = [effectState EXCEPT
                              ![r][i] = IF result = "partial" THEN "effect-unknown"
                                        ELSE "not-started"]
         /\ changed' = [changed EXCEPT ![r] = changed[r] \/ result = "partial"]
         /\ keys' = keys \cup {CloseKey(r, i, result)}
         /\ UNCHANGED <<status, cancelRequested>>
=============================================================================

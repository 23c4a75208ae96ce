------------------------------ MODULE RunEngine ------------------------------
(***************************************************************************)
(* The central run engine: internal/run/engine.go over the rows of         *)
(* RunStore.  A worker is one goroutine serving one submit, resume or      *)
(* cancel request; pc[w] is the next store or adapter call it makes and    *)
(* job[w] its local variables.  Between two calls anything else may        *)
(* happen: another worker, an operator request, a second passing, a        *)
(* shutdown or a crash of the process.                                     *)
(*                                                                         *)
(* The target itself is modelled by `landed', the number of times the      *)
(* effect of a step changed it.  No code reads that variable.              *)
(***************************************************************************)
EXTENDS RunStore

CONSTANTS
    Worker,         \* the server's request goroutines
    External,       \* the runs whose plan names an external executor
    LeaseSeconds,   \* generated.ExecutorLeaseSeconds
    Overlap,        \* may two requests drive the same run at once?
    SameSecond,     \* may a resume or a restart follow within one second?
    Refusals        \* may a reservation or a schedule window refuse a step?

ASSUME ActorAssumption == Worker \subseteq Holder /\ External \subseteq Run

ASSUME LeaseAssumption == LeaseSeconds \in Nat \ {0}

ASSUME RunAssumption == Run # {}

ASSUME EnvironmentAssumption ==
    Overlap \in BOOLEAN /\ SameSecond \in BOOLEAN /\ Refusals \in BOOLEAN

VARIABLES
    pc,        \* pc[w]: where the worker is
    job,       \* job[w]: the worker's local variables
    server,    \* the process
    pending,   \* runs Reconcile has not settled yet
    landed,    \* landed[r][i]: times the step changed its target
    late       \* late[r]: steps begun after cancellation was requested

workerVars == <<pc, job>>

worldVars == <<landed, late>>

vars == <<storeVars, workerVars, server, pending, worldVars>>

PC == {"idle", "start", "resume", "cancel", "loop", "acquire", "begin", "begun",
       "executing", "returned", "verify", "release", "close", "releaseAll",
       "settle", "releaseLast"}

Outcome == {"succeeded", "failed", "partial", "error", "canceled"}

(* run, step: what the worker drives; left: seconds of lease authority     *)
(* left; out, observed, changed: what the adapter returned; to: the status *)
(* the run is being taken to; seen: the status CancelAs read.              *)
Job == [run : Run, step : 1 .. (NSteps + 1), left : 0 .. LeaseSeconds,
        out : Outcome, observed : BOOLEAN, changed : BOOLEAN,
        to : RunStatus, seen : RunStatus]

TypeOK ==
    /\ StoreTypeOK
    /\ pc \in [Worker -> PC]
    /\ job \in [Worker -> Job]
    /\ server \in {"up", "stopping", "down", "reconciling"}
    /\ pending \subseteq Run
    /\ landed \in [Run -> [Steps -> Nat]]
    /\ late \in [Run -> Nat]

JobAt(r, i) ==
    [run |-> r, step |-> i, left |-> LeaseSeconds, out |-> "error",
     observed |-> FALSE, changed |-> FALSE, to |-> "none", seen |-> "none"]

IdleJob == JobAt(CHOOSE r \in Run : TRUE, 1)

Init ==
    /\ StoreInit
    /\ pc = [w \in Worker |-> "idle"]
    /\ job = [w \in Worker |-> IdleJob]
    /\ server = "up"
    /\ pending = {}
    /\ landed = [r \in Run |-> [i \in Steps |-> 0]]
    /\ late = [r \in Run |-> 0]

-----------------------------------------------------------------------------
Driving(w, r) == pc[w] \notin {"idle", "cancel"} /\ job[w].run = r

GotoWith(w, p, j) == pc' = [pc EXCEPT ![w] = p] /\ job' = [job EXCEPT ![w] = j]

Goto(w, p) == GotoWith(w, p, job[w])

(* The request returns to its caller and the goroutine is gone.            *)
Return(w) == GotoWith(w, "idle", IdleJob)

(* A call that takes the execution context fails once it is cancelled.     *)
ContextAlive == server = "up"

Alive == server \in {"up", "stopping"}

(* The request finishes by taking its run from one status to another; the  *)
(* call returns whether or not the store accepts the transition.           *)
EndWith(w, from, to, chg) ==
    LET r == job[w].run IN
    /\ IF TransitionAllowed(r, from, to)
       THEN TransitionRun(r, from, to, chg)
       ELSE UNCHANGED <<runVars, keys>>
    /\ Return(w)

-----------------------------------------------------------------------------
(* Requests.                                                               *)

(* submitExactPlan holds its lane until Submit returns, so one submit of a *)
(* plan runs at a time; the run may exist already, queued by a submit that *)
(* failed its activation or died.                                          *)
Submit(w, r) ==
    /\ server = "up" /\ pc[w] = "idle"
    /\ \A v \in Worker : ~Driving(v, r)
    /\ \/ Create(r)
       \/ status[r] = "queued" /\ UNCHANGED storeVars
    /\ GotoWith(w, "start", JobAt(r, 1))
    /\ UNCHANGED <<server, pending, worldVars>>

(* admission.Activate refuses: the run stays queued.                       *)
ActivateRefused(w) ==
    /\ Alive /\ pc[w] = "start"
    /\ Return(w)
    /\ UNCHANGED <<storeVars, server, pending, worldVars>>

(* start opens the run, or withdraws one cancelled while it was queued.    *)
StartCentral(w) ==
    LET r == job[w].run
        to == IF cancelRequested[r] THEN "cancelled" ELSE "running"
    IN
    /\ Alive /\ pc[w] = "start"
    /\ IF ContextAlive /\ status[r] \notin Terminal /\ TransitionAllowed(r, "queued", to)
       THEN /\ TransitionRun(r, "queued", to, changed[r])
            /\ IF to = "running" THEN Goto(w, "loop") ELSE Return(w)
       ELSE UNCHANGED <<runVars, keys>> /\ Return(w)
    /\ UNCHANGED <<leaseVars, server, pending, worldVars>>

(* Submit of an external plan opens the run and leaves it to its executor. *)
StartExternal(w) ==
    /\ Alive /\ pc[w] = "start"
    /\ EndWith(w, "queued", "running", changed[job[w].run])
    /\ UNCHANGED <<leaseVars, server, pending, worldVars>>

Start(w) == IF job[w].run \in External THEN StartExternal(w) ELSE StartCentral(w)

(* ResumeAs: the checks on the run it reads, then start.                   *)
Resume(w, r) ==
    /\ server = "up" /\ pc[w] = "idle"
    /\ status[r] = "interrupted"
    /\ \A i \in Steps :
          stepStatus[r][i] # "succeeded" =>
             /\ stepStatus[r][i] = "interrupted"
             /\ Idempotent[r][i] /\ effectState[r][i] = "not-started"
    /\ Overlap \/ \A v \in Worker : ~Driving(v, r)
    /\ SameSecond \/ TransitionKey(r, "running", "interrupted") \notin keys
    /\ GotoWith(w, "resume", JobAt(r, 1))
    /\ UNCHANGED <<storeVars, server, pending, worldVars>>

ResumeStart(w) ==
    LET r == job[w].run IN
    /\ Alive /\ pc[w] = "resume"
    /\ IF ContextAlive /\ TransitionAllowed(r, "interrupted", "running")
       THEN TransitionRun(r, "interrupted", "running", changed[r]) /\ Goto(w, "loop")
       ELSE UNCHANGED <<runVars, keys>> /\ Return(w)
    /\ UNCHANGED <<leaseVars, server, pending, worldVars>>

(* MutateAs cancel: a run already cancelled, or with the request already   *)
(* recorded, is returned as it is; otherwise CancelAs reads the run ...    *)
Cancel(w, r) ==
    /\ server = "up" /\ pc[w] = "idle"
    /\ status[r] \in {"queued", "running", "interrupted"}
    /\ ~cancelRequested[r]
    /\ GotoWith(w, "cancel",
                [JobAt(r, 1) EXCEPT
                   !.seen = status[r],
                   !.to = CASE status[r] # "running" -> "cancelled"
                            [] /\ status[r] = "running" /\ r \in External
                               /\ \A i \in Steps :
                                     /\ stepStatus[r][i] # "running"
                                     /\ effectState[r][i] \notin
                                           {"intent-recorded", "receipt-recorded"}
                               -> "interrupted"
                            [] OTHER -> "running"])
    /\ UNCHANGED <<storeVars, server, pending, worldVars>>

(* ... and then acts on what it read: a running run is asked to stop at    *)
(* its next safe boundary, except an external one seen between two steps.  *)
CancelAs(w) ==
    LET r == job[w].run IN
    /\ Alive /\ pc[w] = "cancel"
    /\ IF job[w].to = "running"
       THEN /\ IF CancellationAllowed(r)
               THEN RequestCancellation(r)
               ELSE UNCHANGED <<runVars, keys>>
            /\ Return(w)
       ELSE EndWith(w, job[w].seen, job[w].to, changed[r])
    /\ UNCHANGED <<leaseVars, server, pending, worldVars>>

(* interruptBeforeEffect, failBeforeEffect and partial: close the step,    *)
(* release the run's leases, then take the run to the matching status.     *)
CloseAs(w, to) ==
    GotoWith(w, "close", [JobAt(job[w].run, job[w].step) EXCEPT !.to = to])

SettleAs(w, to) ==
    GotoWith(w, "settle", [JobAt(job[w].run, job[w].step) EXCEPT !.to = to])

-----------------------------------------------------------------------------
(* The step loop of start.                                                 *)

(* Faulty: every step that is not queued is passed over.                   *)
LoopSkips(w) ==
    LET r == job[w].run
        i == job[w].step
    IN
    /\ server = "up" /\ pc[w] = "loop" /\ i <= NSteps
    /\ IF stepStatus[r][i] = "queued" THEN Goto(w, "acquire")
       ELSE GotoWith(w, "loop", JobAt(r, i + 1))
    /\ UNCHANGED <<storeVars, server, pending, worldVars>>

(* Faulty: the cancellation flag is not read between steps.                *)
LoopIgnoresCancel(w) ==
    LET r == job[w].run
        i == job[w].step
    IN
    /\ server = "up" /\ pc[w] = "loop" /\ i <= NSteps
    /\ CASE stepStatus[r][i] = "succeeded" -> GotoWith(w, "loop", JobAt(r, i + 1))
         [] stepStatus[r][i] = "queued" -> Goto(w, "acquire")
         [] OTHER -> Return(w)
    /\ UNCHANGED <<storeVars, server, pending, worldVars>>

(* The top of the loop with a live context: the run as it is now decides.  *)
Loop(w) ==
    LET r == job[w].run
        i == job[w].step
    IN
    /\ server = "up" /\ pc[w] = "loop" /\ i <= NSteps
    /\ CASE cancelRequested[r] -> EndWith(w, "running", "interrupted", changed[r])
         [] ~cancelRequested[r] /\ stepStatus[r][i] = "succeeded" ->
               GotoWith(w, "loop", JobAt(r, i + 1)) /\ UNCHANGED <<runVars, keys>>
         [] ~cancelRequested[r] /\ stepStatus[r][i] = "queued" ->
               Goto(w, "acquire") /\ UNCHANGED <<runVars, keys>>
         [] OTHER -> Return(w) /\ UNCHANGED <<runVars, keys>>
    /\ UNCHANGED <<leaseVars, server, pending, worldVars>>

(* No adapter or core service can serve the operation.                     *)
AdapterUnavailable(w) ==
    /\ Alive /\ pc[w] = "acquire"
    /\ IF ContextAlive
       THEN EndWith(w, "running", "failed", changed[job[w].run])
       ELSE Return(w) /\ UNCHANGED <<runVars, keys>>
    /\ UNCHANGED <<leaseVars, server, pending, worldVars>>

(* The context is cancelled: GetRun itself fails, or it succeeded just in  *)
(* time and the run is interrupted first and its leases released after.    *)
LoopStopped(w) ==
    LET r == job[w].run IN
    /\ server = "stopping" /\ pc[w] = "loop" /\ job[w].step <= NSteps
    /\ \/ Return(w) /\ UNCHANGED <<runVars, keys>>
       \/ IF TransitionAllowed(r, "running", "interrupted")
          THEN /\ TransitionRun(r, "running", "interrupted", changed[r])
               /\ Goto(w, "releaseLast")
          ELSE Return(w) /\ UNCHANGED <<runVars, keys>>
    /\ UNCHANGED <<leaseVars, server, pending, worldVars>>

ReleaseLast(w) ==
    /\ Alive /\ pc[w] = "releaseLast"
    /\ ReleaseRunLeases(job[w].run)
    /\ Return(w)
    /\ UNCHANGED <<runVars, keys, server, pending, worldVars>>

Acquire(w) ==
    LET r == job[w].run
        i == job[w].step
    IN
    /\ Alive /\ pc[w] = "acquire"
    /\ \/ /\ ContextAlive /\ AcquireAllowed(r, i)
          /\ AcquireTargetLease(r, i, w)
          /\ Goto(w, "begin")
       \/ /\ ~ContextAlive \/ ~AcquireAllowed(r, i) \/ Refusals
          /\ SettleAs(w, "interrupted")
          /\ UNCHANGED leaseVars
    /\ UNCHANGED <<runVars, keys, server, pending, worldVars>>

(* BeginStep records the intent.  When it fails, start returns at once: the *)
(* lease stays active and the run stays as it is.                          *)
Begin(w) ==
    LET r == job[w].run
        i == job[w].step
    IN
    /\ Alive /\ pc[w] = "begin"
    /\ \/ /\ ContextAlive /\ BeginAllowed(r, i, w)
          /\ BeginStep(r, i)
          /\ Goto(w, "begun")
          /\ late' = [late EXCEPT ![r] = @ + (IF cancelRequested[r] THEN 1 ELSE 0)]
       \/ /\ ~ContextAlive \/ ~BeginAllowed(r, i, w) \/ Refusals
          /\ Return(w)
          /\ UNCHANGED <<runVars, keys, late>>
    /\ UNCHANGED <<leaseVars, server, pending, landed>>

(* The lease deadline, then validateScheduled, then the adapter.           *)
Dispatch(w) ==
    /\ Alive /\ pc[w] = "begun"
    /\ \/ /\ job[w].left = 0
          /\ CloseAs(w, "interrupted")
       \/ /\ job[w].left > 0 /\ Refusals
          /\ CloseAs(w, "failed")
       \/ /\ job[w].left > 0
          /\ Goto(w, "executing")
    /\ UNCHANGED <<storeVars, server, pending, worldVars>>

-----------------------------------------------------------------------------
(* The adapter.  It may change the target once, at any time while it runs; *)
(* it never hides a change: EffectObserved and Changed cover it.  The      *)
(* adapter of an external plan refuses to be executed by the server.       *)

EffectLands(w) ==
    LET r == job[w].run
        i == job[w].step
    IN
    /\ Alive /\ pc[w] = "executing" /\ ~job[w].changed /\ r \notin External
    /\ landed' = [landed EXCEPT ![r][i] = @ + 1]
    /\ GotoWith(w, "executing", [job[w] EXCEPT !.changed = TRUE])
    /\ UNCHANGED <<storeVars, server, pending, late>>

Execute(w) ==
    /\ Alive /\ pc[w] = "executing"
    /\ \E out \in Outcome, observed \in BOOLEAN :
          /\ job[w].changed \/ out = "succeeded" => observed
          /\ job[w].run \in External => out = "error" /\ ~observed
          /\ GotoWith(w, "returned", [job[w] EXCEPT !.out = out, !.observed = observed])
    /\ UNCHANGED <<storeVars, server, pending, worldVars>>

(* What start makes of the adapter's answer.                               *)
Returned(w) ==
    LET r == job[w].run
        i == job[w].step
        j == job[w]
        valid == j.out \in {"succeeded", "failed", "partial"}
    IN
    /\ Alive /\ pc[w] = "returned"
    /\ \/ /\ j.left = 0 \/ ~valid
          /\ CloseAs(w, CASE j.observed -> "partial"
                         [] ~j.observed /\ (j.left = 0 \/ j.out = "canceled") -> "interrupted"
                         [] OTHER -> "failed")
          /\ UNCHANGED runVars
       \/ /\ j.left > 0 /\ valid /\ ReceiptAllowed(r, i, w)
          /\ RecordReceipt(r, i)
          /\ Goto(w, "verify")
       \/ /\ j.left > 0 /\ valid /\ ~ReceiptAllowed(r, i, w)
          /\ Return(w) /\ UNCHANGED runVars
    /\ UNCHANGED <<leaseVars, keys, server, pending, worldVars>>

(* The adapter's independent verification, then FinishStep.                *)
Verify(w) ==
    LET r == job[w].run
        i == job[w].step
    IN
    /\ Alive /\ pc[w] = "verify"
    /\ \/ CloseAs(w, "partial") /\ UNCHANGED runVars
       \/ /\ job[w].left > 0 /\ FinishAllowed(r, i)
          /\ FinishStep(r, i, job[w].out, job[w].changed)
          /\ Goto(w, "release")
       \/ /\ job[w].left > 0 /\ ~FinishAllowed(r, i)
          /\ Return(w) /\ UNCHANGED runVars
    /\ UNCHANGED <<leaseVars, keys, server, pending, worldVars>>

Release(w) ==
    LET r == job[w].run
        i == job[w].step
    IN
    /\ Alive /\ pc[w] = "release"
    /\ IF LeaseOf(r, i, w) \in lease
       THEN /\ ReleaseTargetLease(r, i, w)
            /\ IF job[w].out = "succeeded"
               THEN GotoWith(w, "loop", JobAt(r, i + 1))
               ELSE SettleAs(w, job[w].out)
       ELSE Return(w) /\ UNCHANGED leaseVars
    /\ UNCHANGED <<runVars, keys, server, pending, worldVars>>

(* Every step is through: the run has succeeded.                           *)
Complete(w) ==
    /\ Alive /\ pc[w] = "loop" /\ job[w].step > NSteps
    /\ EndWith(w, "running", "succeeded", changed[job[w].run])
    /\ UNCHANGED <<leaseVars, server, pending, worldVars>>

Close(w) ==
    LET r == job[w].run
        i == job[w].step
    IN
    /\ Alive /\ pc[w] = "close"
    /\ IF CloseAllowed(r, i, job[w].to)
       THEN CloseStep(r, i, job[w].to) /\ Goto(w, "releaseAll")
       ELSE UNCHANGED <<runVars, keys>> /\ Return(w)
    /\ UNCHANGED <<leaseVars, server, pending, worldVars>>

(* Faulty: the run ends without its leases being released.                 *)
ReleaseNothing(w) ==
    /\ Alive /\ pc[w] = "releaseAll"
    /\ Goto(w, "settle")
    /\ UNCHANGED <<storeVars, server, pending, worldVars>>

ReleaseAll(w) ==
    /\ Alive /\ pc[w] = "releaseAll"
    /\ ReleaseRunLeases(job[w].run)
    /\ Goto(w, "settle")
    /\ UNCHANGED <<runVars, keys, server, pending, worldVars>>

(* The Changed a partial run is settled with is already in the row unless  *)
(* the step is unknown, in which case partial() writes true.               *)
Settle(w) ==
    LET r == job[w].run IN
    /\ Alive /\ pc[w] = "settle"
    /\ EndWith(w, "running", job[w].to,
               changed[r] \/ effectState[r][job[w].step] = "effect-unknown")
    /\ UNCHANGED <<leaseVars, server, pending, worldVars>>

-----------------------------------------------------------------------------
(* Time, shutdown, crash and the restart that follows.                     *)

Leased == {"begin", "begun", "executing", "returned", "verify"}

(* Faulty: the time left runs below zero.                                  *)
TickPastZero ==
    /\ job' = [w \in Worker |->
                 [job[w] EXCEPT !.left = IF pc[w] \in Leased THEN @ - 1 ELSE @]]
    /\ keys' = {}
    /\ UNCHANGED <<runVars, leaseVars, pc, server, pending, worldVars>>

Tick ==
    /\ job' = [w \in Worker |->
                 [job[w] EXCEPT !.left = IF pc[w] \in Leased /\ @ > 0 THEN @ - 1 ELSE @]]
    /\ keys' = {}
    /\ UNCHANGED <<runVars, leaseVars, pc, server, pending, worldVars>>

(* The server's execution context is cancelled; running requests go on.    *)
Shutdown ==
    /\ server = "up"
    /\ server' = "stopping"
    /\ UNCHANGED <<storeVars, workerVars, pending, worldVars>>

(* The process ends, by itself or not: its goroutines and lanes are gone.  *)
Crash ==
    /\ server # "down"
    /\ server' = "down"
    /\ pc' = [w \in Worker |-> "idle"]
    /\ job' = [w \in Worker |-> IdleJob]
    /\ pending' = {}
    /\ UNCHANGED <<storeVars, worldVars>>

(* Faulty: the query behind ActiveRuns misses the running ones.            *)
RestartMissesRunning ==
    /\ server = "down"
    /\ SameSecond \/ keys = {}
    /\ server' = "reconciling"
    /\ pending' = {r \in Run : status[r] \in {"queued", "interrupted"}}
    /\ UNCHANGED <<storeVars, workerVars, worldVars>>

(* Startup, before any request is served: ActiveRuns lists the runs.       *)
Restart ==
    /\ server = "down"
    /\ SameSecond \/ keys = {}
    /\ server' = "reconciling"
    /\ pending' = {r \in Run : status[r] \in {"queued", "running", "interrupted"}}
    /\ UNCHANGED <<storeVars, workerVars, worldVars>>

HoldsLease(r) == \E l \in lease : l.run = r

ReconcileRelease(r) ==
    /\ server = "reconciling" /\ r \in pending /\ HoldsLease(r)
    /\ ReleaseRunLeases(r)
    /\ UNCHANGED <<runVars, keys, workerVars, server, pending, worldVars>>

ReconcileMark(r, i) ==
    /\ server = "reconciling" /\ r \in pending /\ ~HoldsLease(r)
    /\ status[r] = "running" /\ InFlight(r, i)
    /\ CloseAllowed(r, i, "partial") /\ CloseStep(r, i, "partial")
    /\ UNCHANGED <<leaseVars, workerVars, server, pending, worldVars>>

Verdict(r) ==
    CASE \E i \in Steps : \/ stepStatus[r][i] = "partial"
                         \/ effectState[r][i] = "effect-unknown" -> "partial"
      [] /\ \A i \in Steps : /\ stepStatus[r][i] # "partial"
                            /\ effectState[r][i] # "effect-unknown"
         /\ \E i \in Steps : stepStatus[r][i] = "failed" -> "failed"
      [] \A i \in Steps : /\ stepStatus[r][i] = "succeeded"
                         /\ effectState[r][i] = "verified" -> "succeeded"
      [] OTHER -> "interrupted"

(* Faulty: steps in flight are not marked before the run is settled.       *)
ReconcileUnmarked(r) ==
    /\ server = "reconciling" /\ r \in pending /\ ~HoldsLease(r)
    /\ IF status[r] = "running"
       THEN TransitionRun(r, "running", Verdict(r), changed[r] \/ Verdict(r) = "partial")
       ELSE UNCHANGED <<runVars, keys>>
    /\ pending' = pending \ {r}
    /\ UNCHANGED <<leaseVars, workerVars, server, worldVars>>

ReconcileSettle(r) ==
    /\ server = "reconciling" /\ r \in pending /\ ~HoldsLease(r)
    /\ IF status[r] = "running"
       THEN /\ \A i \in Steps : ~InFlight(r, i)
            /\ TransitionRun(r, "running", Verdict(r), changed[r] \/ Verdict(r) = "partial")
       ELSE UNCHANGED <<runVars, keys>>
    /\ pending' = pending \ {r}
    /\ UNCHANGED <<leaseVars, workerVars, server, worldVars>>

ReconcileDone ==
    /\ server = "reconciling" /\ pending = {}
    /\ server' = "up"
    /\ UNCHANGED <<storeVars, workerVars, pending, worldVars>>

-----------------------------------------------------------------------------
Request(w, r) == Submit(w, r) \/ Resume(w, r) \/ Cancel(w, r)

Work(w) ==
    \/ ActivateRefused(w) \/ Start(w) \/ ResumeStart(w)
    \/ CancelAs(w) \/ Loop(w) \/ AdapterUnavailable(w) \/ LoopStopped(w) \/ ReleaseLast(w)
    \/ Acquire(w) \/ Begin(w) \/ Dispatch(w) \/ EffectLands(w) \/ Execute(w)
    \/ Returned(w) \/ Verify(w) \/ Release(w) \/ Complete(w)
    \/ Close(w) \/ ReleaseAll(w) \/ Settle(w)

Reconcile ==
    \/ \E r \in Run : \/ ReconcileRelease(r) \/ ReconcileSettle(r)
                      \/ \E i \in Steps : ReconcileMark(r, i)
    \/ ReconcileDone

Next ==
    \/ \E w \in Worker : Work(w) \/ \E r \in Run : Request(w, r)
    \/ Tick \/ Shutdown \/ Crash \/ Restart
    \/ Reconcile

Spec == Init /\ [][Next]_vars

(* Goroutines run; an adapter returns once its lease context is done; a    *)
(* process told to stop exits; a dead one is started again; time passes;   *)
(* and crashes do not go on for ever.                                      *)
Exit == server = "stopping" /\ Crash

LiveSpec ==
    /\ Spec
    /\ \A w \in Worker : WF_vars(Work(w))
    /\ WF_vars(Tick) /\ WF_vars(Exit) /\ WF_vars(Restart) /\ WF_vars(Reconcile)
    /\ <>[][~Crash]_vars

-----------------------------------------------------------------------------
(* Safety.                                                                 *)

(* A step changes its target at most once, over every crash, resume,       *)
(* replay and overlapping request: start dispatches an adapter only after  *)
(* BeginStep has taken the step out of queued, and nothing requeues a step *)
(* whose adapter may have acted.                                           *)
EffectAtMostOnce == \A r \in Run, i \in Steps : landed[r][i] <= 1

(* A run recorded as succeeded had every one of its steps verified.        *)
SucceededIsVerified ==
    \A r \in Run : status[r] = "succeeded" =>
       \A i \in Steps : /\ stepStatus[r][i] = "succeeded"
                        /\ effectState[r][i] = "verified"

(* A run that has stopped and whose record says nothing changed changed    *)
(* nothing: with a truthful adapter the operator may trust `changed'.      *)
UnchangedIsHonest ==
    \A r \in Run : status[r] \in Terminal \cup {"interrupted"} /\ ~changed[r] =>
       \A i \in Steps : landed[r][i] = 0

(* Only a run recorded as partial, and so marked for recovery, may end     *)
(* with a step whose effect nobody verified.                               *)
AmbiguityIsReported ==
    \A r \in Run : status[r] \in Terminal \ {"partial"} =>
       \A i \in Steps : ~InFlight(r, i) /\ effectState[r][i] # "effect-unknown"

(* A finished run leaves no lease behind: Reconcile only looks at active   *)
(* runs, so such a lease would keep its target locked for good.            *)
FinishedHoldsNoLease ==
    \A r \in Run : status[r] \in Terminal => ~HoldsLease(r)

(* No two adapters work on one target at the same time.                    *)
TargetExclusion ==
    \A v, w \in Worker :
       /\ v # w
       /\ pc[v] \in {"executing", "returned", "verify"}
       /\ pc[w] \in {"executing", "returned", "verify"}
       => TargetOf[job[v].run][job[v].step] # TargetOf[job[w].run][job[w].step]

(* Once cancellation is on record at most one more step begins, the one    *)
(* whose safe boundary had already been passed; a resume adds none, if it  *)
(* does not overlap another request for the run.                           *)
CancelStopsSteps == \A r \in Run : late[r] <= 1

(* When startup is done no run is left running and no step in flight.      *)
StartupSettles ==
    [][server = "reconciling" /\ server' = "up" =>
          \A r \in Run : /\ status[r] # "running"
                         /\ \A i \in Steps : ~InFlight(r, i)]_vars

(* What the record says of a step's effect.                                *)
Known(r, i) ==
    CASE effectState[r][i] = "not-started" -> "none"
      [] effectState[r][i] \in {"intent-recorded", "receipt-recorded"} -> "open"
      [] effectState[r][i] = "effect-unknown" -> "unknown"
      [] OTHER -> stepStatus[r][i]

Lifecycle ==
    INSTANCE RunLifecycle WITH known <- [r \in Run |-> [i \in Steps |-> Known(r, i)]]

(* Requests, goroutines, leases, crashes and restarts together do only     *)
(* what the life cycle of a run allows: the code implements the contract.  *)
ImplementsLifecycle == Lifecycle!LifecycleSpec

(* Liveness: a run whose cancellation is on record stops running.          *)
CancelTakesEffect ==
    \A r \in Run : cancelRequested[r] ~> status[r] # "running"
=============================================================================

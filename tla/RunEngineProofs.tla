-------------------------- MODULE RunEngineProofs ---------------------------
(***************************************************************************)
(* Theorems about RunEngine, for every set of runs, workers and targets,   *)
(* every number of steps and every environment (overlapping requests,      *)
(* replays within a second, refusals, shutdowns, crashes and restarts).    *)
(*                                                                         *)
(* First the inductive invariant IInv and facts about the rows and the     *)
(* workers; then that a quiet step (one that changes no effect state and   *)
(* no step in flight or done) keeps IInv, and that everything before and   *)
(* after the step body of start is quiet; then the step body itself, the   *)
(* clock and the process.                                                  *)
(***************************************************************************)
EXTENDS RunEngine, TLAPS

(* The inductive invariants.                                               *)

(* Where a worker is decides what its local variables hold.                *)
JobOK(p, j) ==
    /\ p # "loop" => j.step \in Steps
    /\ p \in {"start", "resume"} => j.step = 1
    /\ p \in {"close", "releaseAll", "settle"} =>
          j.to \in {"interrupted", "failed", "partial"}
    /\ p = "cancel" => /\ j.seen \in {"queued", "running", "interrupted"}
                       /\ j.to \in {"running", "interrupted", "cancelled"}
    /\ p \in {"verify", "release"} => j.out \in {"succeeded", "failed", "partial"}

JobInv == \A w \in Worker : JobOK(pc[w], job[w])

(* No request outlives its process.                                        *)
DownInv == server \in {"down", "reconciling"} => \A w \in Worker : pc[w] = "idle"

LocalInv == TypeOK /\ JobInv /\ DownInv

(* A worker that has begun a step and not yet closed or finished it.       *)
Acting == {"begun", "executing", "returned", "verify", "close"}

(* A step that counts as not started has not touched its target.           *)
UntouchedInv ==
    \A r \in Run, i \in Steps : effectState[r][i] = "not-started" => landed[r][i] = 0

(* One worker acts on a step at a time ...                                 *)
OwnerInv ==
    \A v, w \in Worker :
       /\ pc[v] \in Acting /\ pc[w] \in Acting
       /\ job[v].run = job[w].run /\ job[v].step = job[w].step
       => v = w

(* ... the step is in flight for as long as it does, and what the worker   *)
(* knows of the effect covers what happened to the target.                 *)
OwnedStep(p, j, stat, effect, n) ==
    /\ p \in Acting => stat = "running"
    /\ p \in {"begun", "executing", "returned"} => effect = "intent-recorded"
    /\ p \in {"verify", "close"} => effect \in {"intent-recorded", "receipt-recorded"}
    /\ p = "begun" => n = 0
    /\ p = "executing" /\ n # 0 => j.changed = TRUE
    /\ p = "returned" /\ n # 0 => j.observed = TRUE
    /\ p = "close" /\ n # 0 => j.to = "partial"

ActingOK(p, j) ==
    OwnedStep(p, j, stepStatus[j.run][j.step], effectState[j.run][j.step],
              landed[j.run][j.step])

ActingInv == \A w \in Worker : ActingOK(pc[w], job[w])

EffectInv == UntouchedInv /\ OwnerInv /\ ActingInv /\ EffectAtMostOnce

(* A step recorded as succeeded is verified.                               *)
VerifiedInv ==
    \A r \in Run, i \in Steps : stepStatus[r][i] = "succeeded" => effectState[r][i] = "verified"

(* A worker inside the step loop ...                                       *)
Looping == {"loop", "acquire", "begin", "begun", "executing", "returned",
            "verify", "release"}

(* ... is past a step only if that step has succeeded.                     *)
PassedOK(p, j) ==
    /\ p \in Looping =>
          \A k \in Steps : k < j.step => stepStatus[j.run][k] = "succeeded"
    /\ p = "release" /\ j.out = "succeeded" => stepStatus[j.run][j.step] = "succeeded"

PassedInv == \A w \in Worker : PassedOK(pc[w], job[w])

SuccessInv == VerifiedInv /\ PassedInv /\ SucceededIsVerified

IInv == LocalInv /\ EffectInv /\ SuccessInv

-----------------------------------------------------------------------------
(* Types of the rows and of a worker's variables.                          *)

RowTypeOK ==
    /\ status \in [Run -> RunStatus]
    /\ cancelRequested \in [Run -> BOOLEAN]
    /\ changed \in [Run -> BOOLEAN]
    /\ stepStatus \in [Run -> [Steps -> StepStatus]]
    /\ effectState \in [Run -> [Steps -> EffectState]]
    /\ keys \subseteq StepKey

LeaseTypeOK == lease \subseteq Lease /\ leased \subseteq Run \X Steps

WorkerTypeOK == pc \in [Worker -> PC] /\ job \in [Worker -> Job]

LEMMA TypeParts ==
    TypeOK <=> /\ RowTypeOK /\ LeaseTypeOK /\ WorkerTypeOK
               /\ server \in {"up", "stopping", "down", "reconciling"}
               /\ pending \subseteq Run
               /\ landed \in [Run -> [Steps -> Nat]]
               /\ late \in [Run -> Nat]
BY Zenon DEF TypeOK, StoreTypeOK, RowTypeOK, LeaseTypeOK, WorkerTypeOK

(* Steps in flight or closed stay what they are, and none is added.        *)
RowsKept ==
    /\ effectState' = effectState
    /\ \A r \in Run, i \in Steps :
          /\ stepStatus[r][i] \in {"running", "succeeded", "failed", "partial"} =>
                stepStatus'[r][i] = stepStatus[r][i]
          /\ stepStatus'[r][i] = "succeeded" => stepStatus[r][i] = "succeeded"

(* What a transition makes of one step.                                    *)
LEMMA StepAfterFacts ==
    ASSUME NEW from, NEW to, NEW s \in StepStatus
    PROVE  /\ StepAfter(from, to, s) \in StepStatus
           /\ s \in {"running", "succeeded", "failed", "partial"} => StepAfter(from, to, s) = s
           /\ StepAfter(from, to, s) = "succeeded" => s = "succeeded"
<1>1. CASE s = "interrupted" /\ from = "interrupted" /\ to = "running"
  BY Zenon, <1>1 DEF StepAfter, StepStatus
<1>2. CASE s = "queued" /\ to = "cancelled"
  BY Zenon, <1>2 DEF StepAfter, StepStatus
<1>3. CASE s = "queued" /\ to \in {"interrupted", "failed", "partial"}
  BY Zenon, <1>3 DEF StepAfter, StepStatus
<1>4. CASE /\ ~(s = "interrupted" /\ from = "interrupted" /\ to = "running")
           /\ ~(s = "queued" /\ to = "cancelled")
           /\ ~(s = "queued" /\ to \in {"interrupted", "failed", "partial"})
  <2>1. StepAfter(from, to, s) = s
    BY Zenon, <1>4 DEF StepAfter
  <2> QED BY <2>1
<1> QED BY <1>1, <1>2, <1>3, <1>4

(* A transition keeps the types and the steps in flight or done.           *)
LEMMA TransitionFacts ==
    ASSUME RowTypeOK, NEW r \in Run, NEW from \in RunStatus, NEW to \in RunStatus,
           NEW chg \in BOOLEAN, TransitionRun(r, from, to, chg)
    PROVE  /\ RowTypeOK' /\ RowsKept
           /\ \A q \in Run : status'[q] = status[q] \/ (q = r /\ status'[q] = to)
<1>1. CASE TransitionKey(r, from, to) \in keys
  BY Zenon, <1>1 DEF TransitionRun, RowTypeOK, RowsKept, runVars
<1>2. CASE TransitionKey(r, from, to) \notin keys
  <2> DEFINE after == [i \in Steps |-> StepAfter(from, to, stepStatus[r][i])]
  <2>1. /\ status' = [status EXCEPT ![r] = to]
        /\ changed' = [changed EXCEPT ![r] = chg]
        /\ stepStatus' = [stepStatus EXCEPT ![r] = after]
        /\ keys' = keys \cup {TransitionKey(r, from, to)}
        /\ UNCHANGED <<cancelRequested, effectState>>
    BY Zenon, <1>2 DEF TransitionRun
  <2>2. TransitionKey(r, from, to) \in StepKey
    <3>1. 0 \in 0 .. NSteps
      BY NStepsAssumption
    <3> QED BY <3>1 DEF TransitionKey, StepKey
  <2>3. after \in [Steps -> StepStatus]
    BY ZenonT(30), StepAfterFacts DEF RowTypeOK
  <2>4. RowTypeOK'
    BY Zenon, <2>1, <2>2, <2>3 DEF RowTypeOK
  <2>5. \A i \in Steps :
           /\ stepStatus[r][i] \in {"running", "succeeded", "failed", "partial"} =>
                 after[i] = stepStatus[r][i]
           /\ after[i] = "succeeded" => stepStatus[r][i] = "succeeded"
    BY StepAfterFacts DEF RowTypeOK
  <2>6. RowsKept
    BY Zenon, <2>1, <2>5 DEF RowsKept, RowTypeOK
  <2> QED BY <2>1, <2>4, <2>6 DEF RowTypeOK
<1> QED BY <1>1, <1>2

(* A request for cancellation touches no step and no run status.           *)
LEMMA CancellationFacts ==
    ASSUME RowTypeOK, NEW r \in Run, RequestCancellation(r)
    PROVE  RowTypeOK' /\ RowsKept /\ status' = status
<1>1. CancellationKey(r) \in StepKey
  <2>1. 0 \in 0 .. NSteps
    BY NStepsAssumption
  <2> QED BY <2>1 DEF CancellationKey, StepKey
<1>2. cancelRequested' \in [Run -> BOOLEAN]
  BY Zenon DEF RequestCancellation, RowTypeOK
<1> QED BY <1>1, <1>2 DEF RequestCancellation, RowTypeOK, RowsKept

(* Where a worker goes next.                                               *)
LEMMA GotoType ==
    ASSUME WorkerTypeOK, NEW w \in Worker, NEW p \in PC, NEW j \in Job, GotoWith(w, p, j)
    PROVE  /\ WorkerTypeOK'
           /\ pc'[w] = p /\ job'[w] = j
           /\ \A v \in Worker : v # w => pc'[v] = pc[v] /\ job'[v] = job[v]
BY Zenon DEF WorkerTypeOK, GotoWith

LEMMA JobAtType ==
    ASSUME NEW r \in Run, NEW i \in 1 .. (NSteps + 1)
    PROVE  JobAt(r, i) \in Job
<1>1. LeaseSeconds \in 0 .. LeaseSeconds
  BY LeaseAssumption
<1> QED BY <1>1 DEF JobAt, Job, Outcome, RunStatus

LEMMA IdleJobType == IdleJob \in Job /\ IdleJob.step = 1 /\ 1 \in Steps
<1>1. (CHOOSE r \in Run : TRUE) \in Run
  BY Zenon, RunAssumption
<1>2. 1 \in 1 .. (NSteps + 1) /\ 1 \in Steps
  BY NStepsAssumption DEF Steps
<1> QED BY <1>1, <1>2, JobAtType DEF IdleJob, JobAt

-----------------------------------------------------------------------------
(* Steps of a worker that begin, execute, verify or close no step.         *)

StatusKept ==
    \A q \in Run : status'[q] = "succeeded" =>
       status[q] = "succeeded" \/ \A i \in Steps : stepStatus[q][i] = "succeeded"

GoesTo(w, p, j) == p \in PC /\ j \in Job /\ GotoWith(w, p, j) /\ JobOK(p, j)

MovesTo(w, p, j) ==
    /\ p \in PC /\ j \in Job
    /\ GotoWith(w, p, j)
    /\ JobOK(p, j) /\ PassedOK(p, j)

(* The rows keep their types, their steps in flight and their successes.   *)
RowsOK == RowTypeOK' /\ RowsKept /\ StatusKept

(* The process is up and nothing but rows, leases and the worker changes.  *)
Calm == Alive /\ UNCHANGED <<server, pending, worldVars>>

Quiet(w) ==
    /\ Calm /\ RowsOK /\ LeaseTypeOK'
    /\ \E p, j : p \notin Acting /\ MovesTo(w, p, j)

(* What a worker's move leaves alone: the types and the local invariant.   *)
LEMMA MoveLocal ==
    ASSUME LocalInv, NEW w \in Worker, NEW p, NEW j, GoesTo(w, p, j),
           Alive, UNCHANGED <<server, pending>>,
           landed' \in [Run -> [Steps -> Nat]], late' \in [Run -> Nat],
           RowTypeOK', LeaseTypeOK'
    PROVE  /\ LocalInv'
           /\ pc'[w] = p /\ job'[w] = j
           /\ \A v \in Worker : v # w => pc'[v] = pc[v] /\ job'[v] = job[v]
<1>1. WorkerTypeOK
  BY Zenon, TypeParts DEF LocalInv
<1>2. /\ WorkerTypeOK'
      /\ pc'[w] = p /\ job'[w] = j
      /\ \A v \in Worker : v # w => pc'[v] = pc[v] /\ job'[v] = job[v]
  BY Zenon, <1>1, GotoType DEF GoesTo
<1>3. TypeOK'
  <2>1. /\ server' \in {"up", "stopping", "down", "reconciling"}
        /\ pending' \subseteq Run
    BY Zenon DEF LocalInv, TypeOK
  <2> QED BY <1>2, <2>1 DEF TypeOK, StoreTypeOK, RowTypeOK, LeaseTypeOK, WorkerTypeOK
<1>4. JobInv'
  <2> SUFFICES ASSUME NEW v \in Worker PROVE JobOK(pc'[v], job'[v])
    BY Zenon DEF JobInv, JobOK
  <2>1. CASE v = w
    BY Zenon, <2>1, <1>2 DEF GoesTo
  <2>2. CASE v # w
    BY Zenon, <2>2, <1>2 DEF LocalInv, JobInv
  <2> QED BY <2>1, <2>2
<1>5. DownInv'
  BY Zenon DEF Alive, DownInv
<1> QED BY <1>2, <1>3, <1>4, <1>5 DEF LocalInv

LEMMA QuietStep ==
    ASSUME IInv, NEW w \in Worker, Quiet(w)
    PROVE  IInv'
<1>1. PICK p, j : p \notin Acting /\ MovesTo(w, p, j)
  BY Zenon DEF Quiet
<1>r. /\ RowTypeOK' /\ RowsKept /\ StatusKept /\ LeaseTypeOK' /\ Alive
      /\ server' = server /\ pending' = pending /\ landed' = landed /\ late' = late
  BY Zenon DEF Quiet, Calm, RowsOK, worldVars
<1>2. /\ LocalInv'
      /\ pc'[w] = p /\ job'[w] = j
      /\ \A v \in Worker : v # w => pc'[v] = pc[v] /\ job'[v] = job[v]
  <2>1. landed' \in [Run -> [Steps -> Nat]] /\ late' \in [Run -> Nat]
    BY Zenon, <1>r DEF IInv, LocalInv, TypeOK
  <2>2. GoesTo(w, p, j)
    BY Zenon, <1>1 DEF GoesTo, MovesTo
  <2> QED BY <1>r, <2>1, <2>2, MoveLocal DEF IInv
<1>3. UntouchedInv' /\ EffectAtMostOnce'
  BY Zenon, <1>r DEF IInv, EffectInv, RowsKept, UntouchedInv, EffectAtMostOnce
<1>4. OwnerInv'
  BY Zenon, <1>1, <1>2 DEF IInv, EffectInv, OwnerInv
<1>5. \A v \in Worker : job[v].run \in Run /\ (pc[v] # "loop" => job[v].step \in Steps)
  BY Zenon DEF IInv, LocalInv, TypeOK, JobInv, JobOK, Job
<1>6. ActingInv'
  <2> SUFFICES ASSUME NEW v \in Worker PROVE ActingOK(pc[v], job[v])'
    BY Zenon DEF ActingInv
  <2>1. CASE v = w
    BY Zenon, <2>1, <1>1, <1>2 DEF ActingOK, OwnedStep, Acting
  <2>2. CASE v # w
    <3>1. ActingOK(pc[v], job[v])
      BY SMTT(30) DEF IInv, EffectInv, ActingInv
    <3>2. CASE pc[v] \in Acting
      <4>1. job[v].run \in Run /\ job[v].step \in Steps
        BY Zenon, <1>5, <3>2 DEF Acting
      <4>2. stepStatus[job[v].run][job[v].step] = "running"
        BY Zenon, <3>1, <3>2 DEF ActingOK, OwnedStep
      <4>3. stepStatus'[job[v].run][job[v].step] = stepStatus[job[v].run][job[v].step]
        BY Zenon, <1>r, <4>1, <4>2 DEF RowsKept
      <4>4. effectState' = effectState
        BY Zenon, <1>r DEF RowsKept
      <4> QED BY <1>2, <1>r, <2>2, <3>1, <4>3, <4>4 DEF ActingOK
    <3>3. CASE pc[v] \notin Acting
      BY Zenon, <2>2, <3>3, <1>2 DEF ActingOK, OwnedStep, Acting
    <3> QED BY <3>2, <3>3
  <2> QED BY <2>1, <2>2
<1>7. VerifiedInv'
  BY Zenon, <1>r DEF IInv, SuccessInv, VerifiedInv, RowsKept
<1>8. PassedInv'
  <2> SUFFICES ASSUME NEW v \in Worker PROVE PassedOK(pc[v], job[v])'
    BY Zenon DEF PassedInv
  <2>1. PassedOK(pc'[v], job'[v]) /\ job'[v].run \in Run
        /\ (pc'[v] # "loop" => job'[v].step \in Steps)
    <3>1. CASE v = w
      BY Zenon, <3>1, <1>1, <1>2 DEF MovesTo, JobOK, Job
    <3>2. CASE v # w
      BY Zenon, <3>2, <1>2, <1>5 DEF IInv, SuccessInv, PassedInv
    <3> QED BY <3>1, <3>2
  <2> QED BY <1>r, <2>1 DEF PassedOK, RowsKept
<1>9. SucceededIsVerified'
  BY <1>r, <1>7 DEF IInv, SuccessInv, SucceededIsVerified, StatusKept, RowsKept, VerifiedInv
<1> QED BY <1>2, <1>3, <1>4, <1>6, <1>7, <1>8, <1>9 DEF IInv, EffectInv, SuccessInv

(* What every step starts from.                                            *)
LEMMA RowFacts == ASSUME IInv PROVE RowTypeOK /\ LeaseTypeOK
BY Zenon, TypeParts DEF IInv, LocalInv

LEMMA WorldFacts ==
    ASSUME IInv PROVE landed \in [Run -> [Steps -> Nat]] /\ late \in [Run -> Nat]
BY Zenon DEF IInv, LocalInv, TypeOK

LEMMA JobFacts ==
    ASSUME IInv, NEW w \in Worker
    PROVE  /\ job[w] \in Job /\ job[w].run \in Run
           /\ JobOK(pc[w], job[w]) /\ PassedOK(pc[w], job[w]) /\ ActingOK(pc[w], job[w])
<1>1. job[w] \in Job
  BY Zenon DEF IInv, LocalInv, TypeOK
<1>2. job[w].run \in Run
  BY Zenon, <1>1 DEF Job
<1> QED
  BY Zenon, <1>1, <1>2 DEF IInv, LocalInv, EffectInv, SuccessInv, JobInv, PassedInv, ActingInv

LEMMA ChangedFacts == ASSUME RowTypeOK, NEW r \in Run PROVE changed[r] \in BOOLEAN
BY Zenon DEF RowTypeOK

(* The request returns.                                                    *)
LEMMA ReturnMoves ==
    ASSUME NEW w \in Worker, Return(w)
    PROVE  "idle" \notin Acting /\ MovesTo(w, "idle", IdleJob)
BY Zenon, IdleJobType DEF Return, MovesTo, JobOK, PassedOK, PC, Looping, Acting

(* The rows are left alone.                                                *)
LEMMA SameRows == ASSUME RowTypeOK, UNCHANGED <<runVars, keys>> PROVE RowsOK
BY Zenon DEF RowTypeOK, RowsKept, StatusKept, RowsOK, runVars

LEMMA SameLeases == ASSUME LeaseTypeOK, UNCHANGED leaseVars PROVE LeaseTypeOK'
BY Zenon DEF LeaseTypeOK, leaseVars

(* A transition to any other status makes no run succeed.                  *)
LEMMA TransitionKeeps ==
    ASSUME RowTypeOK, NEW r \in Run, NEW from \in RunStatus, NEW to \in RunStatus,
           NEW chg \in BOOLEAN, TransitionRun(r, from, to, chg),
           to = "succeeded" => \A i \in Steps : stepStatus[r][i] = "succeeded"
    PROVE  RowsOK
BY TransitionFacts DEF StatusKept, RowsOK

LEMMA EndWithKeeps ==
    ASSUME RowTypeOK, NEW w \in Worker, job[w].run \in Run,
           NEW from \in RunStatus, NEW to \in RunStatus,
           NEW chg \in BOOLEAN, EndWith(w, from, to, chg),
           to = "succeeded" => \A i \in Steps : stepStatus[job[w].run][i] = "succeeded"
    PROVE  RowsOK /\ Return(w)
<1>1. CASE TransitionAllowed(job[w].run, from, to)
  <2>1. TransitionRun(job[w].run, from, to, chg) /\ Return(w)
    BY Zenon, <1>1 DEF EndWith
  <2> QED BY <2>1, TransitionKeeps
<1>2. CASE ~TransitionAllowed(job[w].run, from, to)
  <2>1. UNCHANGED <<runVars, keys>> /\ Return(w)
    BY Zenon, <1>2 DEF EndWith
  <2> QED BY <2>1, SameRows
<1> QED BY <1>1, <1>2

(* A worker that moves on to a place outside Acting, or returns.           *)
LEMMA QuietIntro ==
    ASSUME NEW w \in Worker, NEW p, NEW j, p \notin Acting, MovesTo(w, p, j),
           Calm, RowsOK, LeaseTypeOK'
    PROVE  Quiet(w)
BY Zenon DEF Quiet

LEMMA QuietReturn ==
    ASSUME NEW w \in Worker, Return(w), Calm, RowsOK, LeaseTypeOK'
    PROVE  Quiet(w)
BY Zenon, ReturnMoves, QuietIntro

(* A job at the first step of a run has passed nothing.                    *)
LEMMA FreshJob ==
    ASSUME NEW r \in Run
    PROVE  /\ JobAt(r, 1) \in Job
           /\ \A p \in {"start", "resume", "loop"} :
                 JobOK(p, JobAt(r, 1)) /\ PassedOK(p, JobAt(r, 1))
<1>1. 1 \in 1 .. (NSteps + 1) /\ 1 \in Steps
  BY NStepsAssumption DEF Steps
<1>2. JobAt(r, 1) \in Job /\ JobAt(r, 1).step = 1
  BY Zenon, <1>1, JobAtType DEF JobAt
<1>3. \A k \in Steps : ~(k < 1)
  BY DEF Steps
<1> QED BY <1>1, <1>2, <1>3 DEF JobOK, PassedOK, Looping


(* interruptBeforeEffect and its siblings take over the step.              *)
LEMMA EndingJob ==
    ASSUME NEW r \in Run, NEW i \in Steps,
           NEW to \in {"interrupted", "failed", "partial"},
           NEW p \in {"close", "settle"},
           NEW j, j = [JobAt(r, i) EXCEPT !.to = to]
    PROVE  /\ j \in Job /\ j.run = r /\ j.step = i /\ j.to = to
           /\ JobOK(p, j) /\ PassedOK(p, j) /\ p \in PC
<1>1. i \in 1 .. (NSteps + 1)
  BY NStepsAssumption DEF Steps
<1>2. JobAt(r, i) \in Job
  BY Zenon, <1>1, JobAtType
<1>3. j \in Job /\ j.run = r /\ j.step = i /\ j.to = to
  BY <1>2, Zenon DEF JobAt, Job, RunStatus
<1> QED BY <1>3 DEF JobOK, PassedOK, PC, Looping
-----------------------------------------------------------------------------
(* The quiet actions.                                                      *)

LEMMA QuietSubmit == ASSUME IInv, NEW w \in Worker, NEW r \in Run, Submit(w, r) PROVE Quiet(w)
<1>1. RowTypeOK /\ LeaseTypeOK
  BY Zenon, RowFacts
<1>2. RowsOK /\ LeaseTypeOK'
  <2>1. CASE Create(r)
    BY Zenon, <1>1, <2>1 DEF Create, RowTypeOK, RowsOK, RowsKept, StatusKept, LeaseTypeOK,
       leaseVars, RunStatus
  <2>2. CASE UNCHANGED storeVars
    BY Zenon, <1>1, <2>2, SameRows, SameLeases DEF storeVars
  <2> QED BY <2>1, <2>2 DEF Submit
<1>3. MovesTo(w, "start", JobAt(r, 1)) /\ "start" \notin Acting
  BY Zenon, FreshJob DEF Submit, MovesTo, PC, Acting
<1>4. Calm
  BY Zenon DEF Submit, Calm, Alive
<1> QED BY <1>2, <1>3, <1>4, QuietIntro

LEMMA QuietResume == ASSUME IInv, NEW w \in Worker, NEW r \in Run, Resume(w, r) PROVE Quiet(w)
<1>1. RowTypeOK /\ LeaseTypeOK
  BY Zenon, RowFacts
<1>2. RowsOK /\ LeaseTypeOK'
  BY Zenon, <1>1, SameRows, SameLeases DEF Resume, storeVars
<1>3. MovesTo(w, "resume", JobAt(r, 1)) /\ "resume" \notin Acting
  BY Zenon, FreshJob DEF Resume, MovesTo, PC, Acting
<1>4. Calm
  BY Zenon DEF Resume, Calm, Alive
<1> QED BY <1>2, <1>3, <1>4, QuietIntro

LEMMA QuietCancel == ASSUME IInv, NEW w \in Worker, NEW r \in Run, Cancel(w, r) PROVE Quiet(w)
<1>1. RowTypeOK /\ LeaseTypeOK
  BY Zenon, RowFacts
<1>2. RowsOK /\ LeaseTypeOK'
  BY Zenon, <1>1, SameRows, SameLeases DEF Cancel, storeVars
<1>3. PICK to \in {"running", "interrupted", "cancelled"} :
         GotoWith(w, "cancel", [JobAt(r, 1) EXCEPT !.seen = status[r], !.to = to])
  <2> DEFINE between == /\ r \in External
                        /\ \A i \in Steps :
                              /\ stepStatus[r][i] # "running"
                              /\ effectState[r][i] \notin {"intent-recorded", "receipt-recorded"}
  <2>1. CASE status[r] # "running"
    BY <2>1, Zenon DEF Cancel
  <2>2. CASE status[r] = "running" /\ between
    BY <2>2, Zenon DEF Cancel
  <2>3. CASE status[r] = "running" /\ ~between
    BY <2>3, Zenon DEF Cancel
  <2> QED BY <2>1, <2>2, <2>3
<1> DEFINE j == [JobAt(r, 1) EXCEPT !.seen = status[r], !.to = to]
<1>4. status[r] \in {"queued", "running", "interrupted"}
  BY Zenon DEF Cancel
<1>5. /\ j \in Job /\ j.step = 1 /\ 1 \in Steps /\ j.seen = status[r] /\ j.to = to
  BY <1>4, FreshJob, IdleJobType, Zenon DEF JobAt, Job, RunStatus
<1> HIDE DEF j
<1>6. MovesTo(w, "cancel", j) /\ "cancel" \notin Acting
  <2>1. GotoWith(w, "cancel", j)
    BY Zenon, <1>3 DEF j
  <2> QED BY <1>4, <1>5, <2>1 DEF MovesTo, JobOK, PassedOK, Looping, PC, Acting
<1>7. Calm
  BY Zenon DEF Cancel, Calm, Alive
<1> QED BY <1>2, <1>6, <1>7, QuietIntro

LEMMA QuietRequest == ASSUME IInv, NEW w \in Worker, NEW r \in Run, Request(w, r) PROVE Quiet(w)
BY Zenon, QuietSubmit, QuietResume, QuietCancel DEF Request

(* A worker that enters the loop at the first step.                        *)
LEMMA EntersLoop ==
    ASSUME IInv, NEW w \in Worker, pc[w] \in {"start", "resume"}, Goto(w, "loop")
    PROVE  MovesTo(w, "loop", job[w]) /\ "loop" \notin Acting
<1>1. job[w] \in Job /\ job[w].step = 1
  BY Zenon, JobFacts DEF JobOK
<1>2. \A k \in Steps : ~(k < 1)
  BY DEF Steps
<1> QED BY <1>1, <1>2 DEF Goto, MovesTo, JobOK, PassedOK, PC, Acting

LEMMA QuietStart == ASSUME IInv, NEW w \in Worker, StartCentral(w) PROVE Quiet(w)
<1>1. RowTypeOK /\ LeaseTypeOK /\ job[w].run \in Run
  BY Zenon, RowFacts, JobFacts
<1>2. changed[job[w].run] \in BOOLEAN
  BY Zenon, <1>1, ChangedFacts
<1>3. LeaseTypeOK' /\ Calm
  BY Zenon, <1>1, SameLeases DEF StartCentral, Calm
<1>4. ASSUME Return(w), UNCHANGED <<runVars, keys>> PROVE Quiet(w)
  BY Zenon, <1>1, <1>3, <1>4, SameRows, QuietReturn
<1>5. ASSUME NEW to \in {"running", "cancelled"},
             TransitionRun(job[w].run, "queued", to, changed[job[w].run])
      PROVE  RowsOK
  <2>1. "queued" \in RunStatus /\ to \in RunStatus /\ to # "succeeded"
    BY Zenon DEF RunStatus
  <2> QED BY <1>1, <1>2, <1>5, <2>1, TransitionKeeps
<1>6. \/ Return(w) /\ UNCHANGED <<runVars, keys>>
      \/ /\ TransitionRun(job[w].run, "queued", "running", changed[job[w].run])
         /\ Goto(w, "loop")
      \/ /\ TransitionRun(job[w].run, "queued", "cancelled", changed[job[w].run])
         /\ Return(w)
  BY Zenon DEF StartCentral
<1>7. CASE /\ TransitionRun(job[w].run, "queued", "running", changed[job[w].run])
           /\ Goto(w, "loop")
  <2>1. MovesTo(w, "loop", job[w]) /\ "loop" \notin Acting
    BY Zenon, <1>7, EntersLoop DEF StartCentral
  <2> QED BY <1>3, <1>5, <1>7, <2>1, QuietIntro
<1>8. CASE /\ TransitionRun(job[w].run, "queued", "cancelled", changed[job[w].run])
           /\ Return(w)
  BY Zenon, <1>3, <1>5, <1>8, QuietReturn
<1> QED BY <1>4, <1>6, <1>7, <1>8

LEMMA QuietResumeStart == ASSUME IInv, NEW w \in Worker, ResumeStart(w) PROVE Quiet(w)
<1>1. RowTypeOK /\ LeaseTypeOK /\ job[w].run \in Run
  BY Zenon, RowFacts, JobFacts
<1>2. changed[job[w].run] \in BOOLEAN
  BY Zenon, <1>1, ChangedFacts
<1>3. LeaseTypeOK' /\ Calm
  BY Zenon, <1>1, SameLeases DEF ResumeStart, Calm
<1>4. \/ Return(w) /\ UNCHANGED <<runVars, keys>>
      \/ /\ TransitionRun(job[w].run, "interrupted", "running", changed[job[w].run])
         /\ Goto(w, "loop")
  BY Zenon DEF ResumeStart
<1>5. CASE Return(w) /\ UNCHANGED <<runVars, keys>>
  BY Zenon, <1>1, <1>3, <1>5, SameRows, QuietReturn
<1>6. CASE /\ TransitionRun(job[w].run, "interrupted", "running", changed[job[w].run])
           /\ Goto(w, "loop")
  <2>1. "interrupted" \in RunStatus /\ "running" \in RunStatus
    BY Zenon DEF RunStatus
  <2>2. RowsOK
    BY Zenon, <1>1, <1>2, <1>6, <2>1, TransitionKeeps
  <2>3. MovesTo(w, "loop", job[w]) /\ "loop" \notin Acting
    BY Zenon, <1>6, EntersLoop DEF ResumeStart
  <2> QED BY <1>3, <2>2, <2>3, QuietIntro
<1> QED BY <1>4, <1>5, <1>6

(* A request that ends with a transition to a status other than succeeded. *)
LEMMA QuietEnd ==
    ASSUME IInv, NEW w \in Worker, NEW from \in RunStatus,
           NEW to \in RunStatus \ {"succeeded"}, NEW chg \in BOOLEAN,
           EndWith(w, from, to, chg), Calm, UNCHANGED leaseVars
    PROVE  Quiet(w)
<1>1. RowTypeOK /\ LeaseTypeOK /\ job[w].run \in Run
  BY Zenon, RowFacts, JobFacts
<1>2. RowsOK /\ Return(w)
  BY Zenon, <1>1, EndWithKeeps
<1>3. LeaseTypeOK'
  BY Zenon, <1>1, SameLeases
<1> QED BY <1>2, <1>3, QuietReturn

LEMMA QuietCancelAs == ASSUME IInv, NEW w \in Worker, CancelAs(w) PROVE Quiet(w)
<1>1. RowTypeOK /\ LeaseTypeOK /\ job[w].run \in Run /\ JobOK(pc[w], job[w])
  BY Zenon, RowFacts, JobFacts
<1>2. Calm /\ UNCHANGED leaseVars /\ LeaseTypeOK'
  BY Zenon, <1>1, SameLeases DEF CancelAs, Calm
<1>3. CASE job[w].to = "running"
  <2>1. /\ RequestCancellation(job[w].run) \/ UNCHANGED <<runVars, keys>>
        /\ Return(w)
    BY Zenon, <1>3 DEF CancelAs
  <2>2. RowsOK
    BY Zenon, <1>1, <2>1, CancellationFacts, SameRows DEF StatusKept, RowsOK
  <2> QED BY <1>2, <2>1, <2>2, QuietReturn
<1>4. CASE job[w].to # "running"
  <2>1. EndWith(w, job[w].seen, job[w].to, changed[job[w].run])
    BY Zenon, <1>4 DEF CancelAs
  <2>2. job[w].seen \in RunStatus /\ job[w].to \in RunStatus \ {"succeeded"}
    BY Zenon, <1>1 DEF CancelAs, JobOK, RunStatus
  <2>3. changed[job[w].run] \in BOOLEAN
    BY Zenon, <1>1, ChangedFacts
  <2> QED BY <1>2, <2>1, <2>2, <2>3, QuietEnd
<1> QED BY <1>3, <1>4

LEMMA QuietOpening ==
    ASSUME IInv, NEW w \in Worker, ActivateRefused(w) \/ StartExternal(w)
    PROVE  Quiet(w)
<1>1. RowTypeOK /\ LeaseTypeOK /\ job[w].run \in Run
  BY Zenon, RowFacts, JobFacts
<1>2. CASE ActivateRefused(w)
  BY Zenon, <1>1, <1>2, SameRows, SameLeases, QuietReturn DEF ActivateRefused, storeVars, Calm
<1>3. CASE StartExternal(w)
  <2>1. EndWith(w, "queued", "running", changed[job[w].run]) /\ Calm /\ UNCHANGED leaseVars
    BY Zenon, <1>3 DEF StartExternal, Calm
  <2>2. "queued" \in RunStatus /\ "running" \in RunStatus \ {"succeeded"}
    BY Zenon DEF RunStatus
  <2>3. changed[job[w].run] \in BOOLEAN
    BY Zenon, <1>1, ChangedFacts
  <2> QED BY <2>1, <2>2, <2>3, QuietEnd
<1> QED BY <1>2, <1>3

(* Leases come and go without touching a row of the run.                   *)
LEMMA LeaseSteps ==
    ASSUME LeaseTypeOK, NEW r \in Run, NEW i \in Steps, NEW w \in Worker,
           \/ AcquireTargetLease(r, i, w) \/ ReleaseTargetLease(r, i, w)
           \/ ReleaseRunLeases(r)
    PROVE  LeaseTypeOK'
<1>1. LeaseOf(r, i, w) \in Lease
  BY ActorAssumption, SMTT(30) DEF LeaseOf, Lease
<1> QED
  BY <1>1 DEF LeaseTypeOK, AcquireTargetLease, ReleaseTargetLease, ReleaseRunLeases

(* A worker at the top of the loop that succeeded at step i goes on to the *)
(* next one having passed i as well.                                       *)
LEMMA NextStep ==
    ASSUME NEW r \in Run, NEW i \in Steps,
           \A k \in Steps : k <= i => stepStatus[r][k] = "succeeded"
    PROVE  /\ JobAt(r, i + 1) \in Job /\ "loop" \in PC /\ "loop" \notin Acting
           /\ JobOK("loop", JobAt(r, i + 1)) /\ PassedOK("loop", JobAt(r, i + 1))
<1>1. i + 1 \in 1 .. (NSteps + 1) /\ \A k \in Steps : k < i + 1 => k <= i
  BY NStepsAssumption DEF Steps
<1>2. JobAt(r, i + 1) \in Job
  BY Zenon, <1>1, JobAtType
<1> QED BY <1>1, <1>2 DEF JobAt, JobOK, PassedOK, PC, Acting

LEMMA SettleAsMoves ==
    ASSUME NEW w \in Worker, job[w].run \in Run, job[w].step \in Steps,
           NEW to \in {"interrupted", "failed", "partial"}, SettleAs(w, to)
    PROVE  \E j : "settle" \notin Acting /\ MovesTo(w, "settle", j)
<1>1. PICK j : j = [JobAt(job[w].run, job[w].step) EXCEPT !.to = to]
  BY Zenon
<1>2. GotoWith(w, "settle", j)
  BY Zenon, <1>1 DEF SettleAs
<1>3. j \in Job /\ JobOK("settle", j) /\ PassedOK("settle", j) /\ "settle" \in PC
  BY <1>1, EndingJob
<1> QED BY <1>2, <1>3 DEF MovesTo, Acting

LEMMA QuietLoop == ASSUME IInv, NEW w \in Worker, Loop(w) PROVE Quiet(w)
<1>1. RowTypeOK /\ LeaseTypeOK /\ job[w].run \in Run
  BY Zenon, RowFacts, JobFacts
<1>2. Calm /\ UNCHANGED leaseVars /\ LeaseTypeOK'
  BY Zenon, <1>1, SameLeases DEF Loop, Calm, Alive
<1>3. /\ job[w].step \in Steps
      /\ \A k \in Steps : k < job[w].step => stepStatus[job[w].run][k] = "succeeded"
  <2>1. job[w].step \in 1 .. (NSteps + 1) /\ PassedOK(pc[w], job[w])
    BY Zenon, JobFacts DEF Job
  <2>2. pc[w] = "loop" /\ job[w].step <= NSteps
    BY Zenon DEF Loop
  <2>3. job[w].step \in Steps
    BY <2>1, <2>2, NStepsAssumption DEF Steps
  <2> QED BY <2>1, <2>2, <2>3 DEF PassedOK, Looping
<1>4. \/ EndWith(w, "running", "interrupted", changed[job[w].run])
      \/ /\ stepStatus[job[w].run][job[w].step] = "succeeded"
         /\ GotoWith(w, "loop", JobAt(job[w].run, job[w].step + 1))
         /\ UNCHANGED <<runVars, keys>>
      \/ Goto(w, "acquire") /\ UNCHANGED <<runVars, keys>>
      \/ Return(w) /\ UNCHANGED <<runVars, keys>>
  BY Zenon DEF Loop
<1>5. CASE EndWith(w, "running", "interrupted", changed[job[w].run])
  <2>1. "running" \in RunStatus /\ "interrupted" \in RunStatus \ {"succeeded"}
    BY Zenon DEF RunStatus
  <2>2. changed[job[w].run] \in BOOLEAN
    BY Zenon, <1>1, ChangedFacts
  <2> QED BY <1>2, <1>5, <2>1, <2>2, QuietEnd
<1>6. CASE /\ stepStatus[job[w].run][job[w].step] = "succeeded"
           /\ GotoWith(w, "loop", JobAt(job[w].run, job[w].step + 1))
           /\ UNCHANGED <<runVars, keys>>
  <2>1. \A k \in Steps : k <= job[w].step => stepStatus[job[w].run][k] = "succeeded"
    BY <1>3, <1>6 DEF Steps
  <2>2. MovesTo(w, "loop", JobAt(job[w].run, job[w].step + 1)) /\ "loop" \notin Acting
    BY Zenon, <1>1, <1>3, <1>6, <2>1, NextStep DEF MovesTo
  <2>3. RowsOK
    BY Zenon, <1>1, <1>6, SameRows
  <2> QED BY <1>2, <2>2, <2>3, QuietIntro
<1>7. CASE Goto(w, "acquire") /\ UNCHANGED <<runVars, keys>>
  <2>1. job[w] \in Job
    BY Zenon, JobFacts
  <2>2. MovesTo(w, "acquire", job[w]) /\ "acquire" \notin Acting
    BY Zenon, <1>3, <1>7, <2>1 DEF MovesTo, Goto, JobOK, PassedOK, PC, Acting
  <2>3. RowsOK
    BY Zenon, <1>1, <1>7, SameRows
  <2> QED BY <1>2, <2>2, <2>3, QuietIntro
<1>8. CASE Return(w) /\ UNCHANGED <<runVars, keys>>
  BY Zenon, <1>1, <1>2, <1>8, SameRows, QuietReturn
<1> QED BY <1>4, <1>5, <1>6, <1>7, <1>8

LEMMA QuietUnavailable == ASSUME IInv, NEW w \in Worker, AdapterUnavailable(w) PROVE Quiet(w)
<1>1. RowTypeOK /\ LeaseTypeOK /\ job[w].run \in Run
  BY Zenon, RowFacts, JobFacts
<1>2. Calm /\ UNCHANGED leaseVars /\ LeaseTypeOK'
  BY Zenon, <1>1, SameLeases DEF AdapterUnavailable, Calm
<1>3. CASE EndWith(w, "running", "failed", changed[job[w].run])
  <2>1. "running" \in RunStatus /\ "failed" \in RunStatus \ {"succeeded"}
    BY Zenon DEF RunStatus
  <2>2. changed[job[w].run] \in BOOLEAN
    BY Zenon, <1>1, ChangedFacts
  <2> QED BY <1>2, <1>3, <2>1, <2>2, QuietEnd
<1>4. CASE Return(w) /\ UNCHANGED <<runVars, keys>>
  BY Zenon, <1>1, <1>2, <1>4, SameRows, QuietReturn
<1> QED BY <1>3, <1>4 DEF AdapterUnavailable

LEMMA QuietStopped == ASSUME IInv, NEW w \in Worker, LoopStopped(w) PROVE Quiet(w)
<1>1. RowTypeOK /\ LeaseTypeOK /\ job[w].run \in Run
  BY Zenon, RowFacts, JobFacts
<1>2. Calm /\ LeaseTypeOK'
  BY Zenon, <1>1, SameLeases DEF LoopStopped, Calm, Alive
<1>3. CASE Return(w) /\ UNCHANGED <<runVars, keys>>
  BY Zenon, <1>1, <1>2, <1>3, SameRows, QuietReturn
<1>4. CASE /\ TransitionRun(job[w].run, "running", "interrupted", changed[job[w].run])
           /\ Goto(w, "releaseLast")
  <2>1. "running" \in RunStatus /\ "interrupted" \in RunStatus
    BY Zenon DEF RunStatus
  <2>2. changed[job[w].run] \in BOOLEAN
    BY Zenon, <1>1, ChangedFacts
  <2>3. RowsOK
    BY Zenon, <1>1, <1>4, <2>1, <2>2, TransitionKeeps
  <2>4. job[w] \in Job /\ job[w].step \in 1 .. (NSteps + 1)
    BY Zenon, JobFacts DEF Job
  <2>5. job[w].step \in Steps
    BY <2>4, NStepsAssumption DEF LoopStopped, Steps
  <2>6. MovesTo(w, "releaseLast", job[w]) /\ "releaseLast" \notin Acting
    BY Zenon, <1>4, <2>4, <2>5 DEF MovesTo, Goto, JobOK, PassedOK, PC, Acting, Looping
  <2> QED BY <1>2, <2>3, <2>6, QuietIntro
<1> QED BY <1>3, <1>4 DEF LoopStopped

LEMMA QuietComplete == ASSUME IInv, NEW w \in Worker, Complete(w) PROVE Quiet(w)
<1>1. RowTypeOK /\ LeaseTypeOK /\ job[w].run \in Run
  BY Zenon, RowFacts, JobFacts
<1>2. Calm /\ LeaseTypeOK'
  BY Zenon, <1>1, SameLeases DEF Complete, Calm
<1>3. \A k \in Steps : stepStatus[job[w].run][k] = "succeeded"
  <2>1. job[w].step \in 1 .. (NSteps + 1) /\ PassedOK(pc[w], job[w])
    BY Zenon, JobFacts DEF Job
  <2>2. pc[w] = "loop" /\ job[w].step > NSteps
    BY Zenon DEF Complete
  <2>3. \A k \in Steps : k < job[w].step
    BY <2>1, <2>2, NStepsAssumption DEF Steps
  <2> QED BY <2>1, <2>2, <2>3 DEF PassedOK, Looping
<1>4. EndWith(w, "running", "succeeded", changed[job[w].run])
  BY Zenon DEF Complete
<1>5. /\ "running" \in RunStatus /\ "succeeded" \in RunStatus
      /\ changed[job[w].run] \in BOOLEAN
  BY Zenon, <1>1, ChangedFacts DEF RunStatus
<1>6. RowsOK /\ Return(w)
  BY Zenon, <1>1, <1>3, <1>4, <1>5, EndWithKeeps
<1> QED BY <1>2, <1>6, QuietReturn

LEMMA QuietSettle == ASSUME IInv, NEW w \in Worker, Settle(w) PROVE Quiet(w)
<1>1. PICK chg \in BOOLEAN : EndWith(w, "running", job[w].to, chg)
  BY Zenon DEF Settle
<1>2. JobOK(pc[w], job[w])
  BY Zenon, JobFacts
<1>3. "running" \in RunStatus /\ job[w].to \in RunStatus \ {"succeeded"}
  BY Zenon, <1>2 DEF Settle, JobOK, RunStatus
<1>4. Calm /\ UNCHANGED leaseVars
  BY Zenon DEF Settle, Calm
<1> QED BY <1>1, <1>3, <1>4, QuietEnd

(* The calls on leases start from a step in range and leave the rows.      *)
LEMMA LeaseStart ==
    ASSUME IInv, NEW w \in Worker, pc[w] # "loop", UNCHANGED <<runVars, keys>>
    PROVE  /\ job[w] \in Job /\ job[w].run \in Run /\ job[w].step \in Steps
           /\ LeaseTypeOK /\ RowsOK
<1>1. RowTypeOK /\ LeaseTypeOK
  BY Zenon, RowFacts
<1>2. RowsOK
  BY Zenon, <1>1, SameRows
<1>3. JobOK(pc[w], job[w]) /\ job[w] \in Job /\ job[w].run \in Run
  BY Zenon, JobFacts
<1>4. job[w].step \in Steps
  BY Zenon, <1>3 DEF JobOK
<1> QED BY <1>1, <1>2, <1>3, <1>4

LEMMA QuietAcquire == ASSUME IInv, NEW w \in Worker, Acquire(w) PROVE Quiet(w)
<1>1. pc[w] = "acquire" /\ Calm /\ UNCHANGED <<runVars, keys>>
  BY Zenon DEF Acquire, Calm
<1>2. /\ job[w] \in Job /\ job[w].run \in Run /\ job[w].step \in Steps
      /\ LeaseTypeOK /\ RowsOK
  BY Zenon, <1>1, LeaseStart
<1>3. CASE AcquireTargetLease(job[w].run, job[w].step, w) /\ Goto(w, "begin")
  <2>1. PassedOK(pc[w], job[w])
    BY Zenon, JobFacts
  <2>2. MovesTo(w, "begin", job[w]) /\ "begin" \notin Acting
    BY Zenon, <1>1, <1>2, <1>3, <2>1 DEF MovesTo, Goto, JobOK, PassedOK, PC, Acting, Looping
  <2>3. LeaseTypeOK'
    BY Zenon, <1>2, <1>3, LeaseSteps
  <2> QED BY <1>1, <1>2, <2>2, <2>3, QuietIntro
<1>4. CASE SettleAs(w, "interrupted") /\ UNCHANGED leaseVars
  <2>1. LeaseTypeOK'
    BY Zenon, <1>2, <1>4, SameLeases
  <2>2. PICK j : "settle" \notin Acting /\ MovesTo(w, "settle", j)
    BY Zenon, <1>2, <1>4, SettleAsMoves
  <2> QED BY <1>1, <1>2, <2>1, <2>2, QuietIntro
<1> QED BY <1>3, <1>4 DEF Acquire

LEMMA QuietRelease == ASSUME IInv, NEW w \in Worker, Release(w) PROVE Quiet(w)
<1>1. pc[w] = "release" /\ Calm /\ UNCHANGED <<runVars, keys>>
  BY Zenon DEF Release, Calm
<1>2. /\ job[w] \in Job /\ job[w].run \in Run /\ job[w].step \in Steps
      /\ LeaseTypeOK /\ RowsOK
  BY Zenon, <1>1, LeaseStart
<1>3. JobOK(pc[w], job[w]) /\ PassedOK(pc[w], job[w])
  BY Zenon, JobFacts
<1>4. \/ /\ ReleaseTargetLease(job[w].run, job[w].step, w) /\ job[w].out = "succeeded"
         /\ GotoWith(w, "loop", JobAt(job[w].run, job[w].step + 1))
      \/ /\ ReleaseTargetLease(job[w].run, job[w].step, w) /\ job[w].out # "succeeded"
         /\ SettleAs(w, job[w].out)
      \/ Return(w) /\ UNCHANGED leaseVars
  BY Zenon DEF Release
<1>5. CASE /\ ReleaseTargetLease(job[w].run, job[w].step, w) /\ job[w].out = "succeeded"
           /\ GotoWith(w, "loop", JobAt(job[w].run, job[w].step + 1))
  <2>1. /\ stepStatus[job[w].run][job[w].step] = "succeeded"
        /\ \A k \in Steps : k < job[w].step => stepStatus[job[w].run][k] = "succeeded"
    BY Zenon, <1>1, <1>3, <1>5 DEF PassedOK, Looping
  <2>2. \A k \in Steps : k <= job[w].step => stepStatus[job[w].run][k] = "succeeded"
    BY <1>2, <2>1, SMTT(30) DEF Steps
  <2>3. MovesTo(w, "loop", JobAt(job[w].run, job[w].step + 1)) /\ "loop" \notin Acting
    BY <1>2, <1>5, <2>2, NextStep, SMTT(30) DEF MovesTo
  <2>4. LeaseTypeOK'
    BY Zenon, <1>2, <1>5, LeaseSteps
  <2> QED BY <1>1, <1>2, <2>3, <2>4, QuietIntro, SMTT(30)
<1>6. CASE /\ ReleaseTargetLease(job[w].run, job[w].step, w) /\ job[w].out # "succeeded"
           /\ SettleAs(w, job[w].out)
  <2>1. job[w].out \in {"interrupted", "failed", "partial"}
    BY Zenon, <1>1, <1>3, <1>6 DEF JobOK
  <2>2. PICK j : "settle" \notin Acting /\ MovesTo(w, "settle", j)
    BY Zenon, <1>2, <1>6, <2>1, SettleAsMoves
  <2>3. LeaseTypeOK'
    BY Zenon, <1>2, <1>6, LeaseSteps
  <2> QED BY <1>1, <1>2, <2>2, <2>3, QuietIntro
<1>7. CASE Return(w) /\ UNCHANGED leaseVars
  BY Zenon, <1>1, <1>2, <1>7, SameLeases, QuietReturn
<1> QED BY <1>4, <1>5, <1>6, <1>7, SMTT(30)

LEMMA QuietReleases ==
    ASSUME IInv, NEW w \in Worker, ReleaseLast(w) \/ ReleaseAll(w)
    PROVE  Quiet(w)
<1>1. /\ pc[w] # "loop" /\ Calm /\ UNCHANGED <<runVars, keys>>
      /\ ReleaseRunLeases(job[w].run)
  BY Zenon DEF ReleaseLast, ReleaseAll, Calm
<1>2. /\ job[w] \in Job /\ job[w].run \in Run /\ job[w].step \in Steps
      /\ LeaseTypeOK /\ RowsOK
  BY Zenon, <1>1, LeaseStart
<1>3. LeaseTypeOK'
  BY Zenon, <1>1, <1>2, LeaseSteps
<1>4. CASE ReleaseLast(w)
  BY Zenon, <1>1, <1>2, <1>3, <1>4, QuietReturn DEF ReleaseLast
<1>5. CASE ReleaseAll(w)
  <2>1. JobOK(pc[w], job[w]) /\ pc[w] = "releaseAll" /\ Goto(w, "settle")
    BY Zenon, <1>5, JobFacts DEF ReleaseAll
  <2>2. MovesTo(w, "settle", job[w]) /\ "settle" \notin Acting
    BY Zenon, <1>2, <2>1 DEF MovesTo, Goto, JobOK, PassedOK, PC, Acting, Looping
  <2> QED BY <1>1, <1>2, <1>3, <2>2, QuietIntro, SMTT(30)
<1> QED BY <1>4, <1>5

-----------------------------------------------------------------------------
(* Steps of the worker that owns a step: it changes that step and no other. *)

OthersKept(r, i) ==
    \A q \in Run, k \in Steps : q # r \/ k # i =>
       /\ stepStatus'[q][k] = stepStatus[q][k]
       /\ effectState'[q][k] = effectState[q][k]
       /\ landed'[q][k] = landed[q][k]

(* The worker owns the step it is at, or is about to take a free one.      *)
Owns(w) ==
    \/ pc[w] \in Acting
    \/ pc[w] = "begin" /\ stepStatus[job[w].run][job[w].step] = "queued"

(* What such a step leaves of everything but the rows.                     *)
AroundKept ==
    /\ Alive /\ UNCHANGED <<server, pending>>
    /\ landed' \in [Run -> [Steps -> Nat]] /\ late' \in [Run -> Nat]
    /\ RowTypeOK' /\ LeaseTypeOK'

OwnRow(p, j, stat, effect, n) ==
    /\ OwnedStep(p, j, stat, effect, n)
    /\ n <= 1
    /\ effect = "not-started" => n = 0
    /\ stat = "succeeded" => effect = "verified"
    /\ p = "release" /\ j.out = "succeeded" => stat = "succeeded"

OwnRows(r, i, p, j) ==
    /\ status' = status /\ OthersKept(r, i)
    /\ OwnRow(p, j, stepStatus'[r][i], effectState'[r][i], landed'[r][i])

SameStep(w, p, j) ==
    /\ GoesTo(w, p, j)
    /\ j.run = job[w].run /\ j.step = job[w].step
    /\ p \in Looping => pc[w] \in Looping

LEMMA OwnStep ==
    ASSUME IInv, NEW w \in Worker, Owns(w), AroundKept,
           NEW r \in Run, NEW i \in Steps, r = job[w].run, i = job[w].step,
           NEW p, NEW j, SameStep(w, p, j), OwnRows(r, i, p, j)
    PROVE  IInv'
<1>1. /\ LocalInv'
      /\ pc'[w] = p /\ job'[w] = j
      /\ \A v \in Worker : v # w => pc'[v] = pc[v] /\ job'[v] = job[v]
  BY MoveLocal, Zenon DEF IInv, AroundKept, SameStep
<1>2. stepStatus[r][i] # "succeeded"
  BY JobFacts, Zenon DEF Owns, ActingOK, OwnedStep
<1>a. OthersKept(r, i) /\ status' = status
  BY Zenon DEF OwnRows
<1>b. j.run = r /\ j.step = i
  BY Zenon DEF SameStep
<1>3. UntouchedInv' /\ EffectAtMostOnce' /\ VerifiedInv'
  <2> SUFFICES ASSUME NEW q \in Run, NEW k \in Steps
               PROVE  /\ effectState'[q][k] = "not-started" => landed'[q][k] = 0
                      /\ landed'[q][k] <= 1
                      /\ stepStatus'[q][k] = "succeeded" => effectState'[q][k] = "verified"
    BY Zenon DEF UntouchedInv, EffectAtMostOnce, VerifiedInv
  <2>1. CASE q = r /\ k = i
    BY <2>1, Zenon DEF OwnRows, OwnRow
  <2>2. CASE q # r \/ k # i
    <3>1. /\ stepStatus'[q][k] = stepStatus[q][k] /\ effectState'[q][k] = effectState[q][k]
          /\ landed'[q][k] = landed[q][k]
      BY Zenon, <1>a, <2>2 DEF OthersKept
    <3>2. UntouchedInv /\ EffectAtMostOnce /\ VerifiedInv
      BY Zenon DEF IInv, EffectInv, SuccessInv
    <3> QED BY <3>1, <3>2, Zenon DEF UntouchedInv, EffectAtMostOnce, VerifiedInv
  <2> QED BY <2>1, <2>2
<1>4. \A v \in Worker : job[v].run \in Run /\ (pc[v] # "loop" => job[v].step \in Steps)
  BY Zenon DEF IInv, LocalInv, TypeOK, JobInv, JobOK, Job
<1>5. ASSUME NEW v \in Worker, v # w, pc[v] \in Acting
      PROVE  job[v].run # r \/ job[v].step # i
  <2>1. ActingOK(pc[v], job[v])
    BY SMTT(30) DEF IInv, EffectInv, ActingInv
  <2> QED BY <1>5, <2>1, Zenon DEF Owns, IInv, EffectInv, OwnerInv, ActingOK, OwnedStep
<1>6. OwnerInv'
  BY <1>1, <1>5, <1>b DEF IInv, EffectInv, OwnerInv
<1>7. ActingInv'
  <2> SUFFICES ASSUME NEW v \in Worker PROVE ActingOK(pc[v], job[v])'
    BY Zenon DEF ActingInv
  <2>1. CASE v = w
    <3>1. pc'[v] = p /\ job'[v] = j
      BY Zenon, <2>1, <1>1
    <3> QED BY <3>1, <1>b, ZenonT(30) DEF ActingOK, OwnRows, OwnRow
  <2>2. CASE v # w /\ pc[v] \in Acting
    <3>1. ActingOK(pc[v], job[v])
      BY Zenon DEF IInv, EffectInv, ActingInv
    <3>2. job[v].run \in Run /\ job[v].step \in Steps
      BY Zenon, <1>4, <2>2 DEF Acting
    <3>3. /\ stepStatus'[job[v].run][job[v].step] = stepStatus[job[v].run][job[v].step]
          /\ effectState'[job[v].run][job[v].step] = effectState[job[v].run][job[v].step]
          /\ landed'[job[v].run][job[v].step] = landed[job[v].run][job[v].step]
      BY <1>5, <1>a, <2>2, <3>2, Zenon DEF OthersKept
    <3> QED BY <1>1, <2>2, <3>1, <3>3, ZenonT(30) DEF ActingOK
  <2>3. CASE v # w /\ pc[v] \notin Acting
    BY <2>3, <1>1, Zenon DEF ActingOK, OwnedStep, Acting
  <2> QED BY <2>1, <2>2, <2>3, Zenon
<1>8. PassedInv'
  <2> SUFFICES ASSUME NEW v \in Worker PROVE PassedOK(pc[v], job[v])'
    BY Zenon DEF PassedInv
  <2>0. \A u \in Worker : PassedOK(pc[u], job[u])
    BY ZenonT(30) DEF IInv, SuccessInv, PassedInv
  <2>1. CASE v = w
    <3>1. p \in Looping => \A k \in Steps : k < i => stepStatus[r][k] = "succeeded"
      BY Zenon, <2>0 DEF PassedOK, SameStep
    <3>2. \A k \in Steps : k < i => stepStatus'[r][k] = stepStatus[r][k]
      BY <1>a DEF OthersKept, Steps
    <3>3. p = "release" /\ j.out = "succeeded" => stepStatus'[r][i] = "succeeded"
      BY Zenon DEF OwnRows, OwnRow
    <3> QED BY <2>1, <1>1, <1>b, <3>1, <3>2, <3>3, SMTT(30) DEF PassedOK
  <2>2. CASE v # w
    <3>1. pc'[v] = pc[v] /\ job'[v] = job[v] /\ job[v].run \in Run
      BY Zenon, <2>2, <1>1, <1>4
    <3>2. \A k \in Steps : stepStatus[job[v].run][k] = "succeeded" =>
                            stepStatus'[job[v].run][k] = "succeeded"
      BY <1>2, <1>a, <3>1, ZenonT(30) DEF OthersKept
    <3>3. pc[v] = "release" => job[v].step \in Steps
      BY Zenon, <1>4
    <3> QED BY <2>0, <3>1, <3>2, <3>3, SMTT(30) DEF PassedOK
  <2> QED BY <2>1, <2>2, Zenon
<1>9. SucceededIsVerified'
  BY <1>2, <1>a, SMTT(30) DEF IInv, SuccessInv, SucceededIsVerified, OthersKept
<1> QED BY <1>1, <1>3, <1>6, <1>7, <1>8, <1>9, Zenon DEF IInv, EffectInv, SuccessInv

(* What the owner of a step starts from.                                   *)
LEMMA OwnerFacts ==
    ASSUME IInv, NEW w \in Worker, pc[w] \in Acting
    PROVE  /\ Owns(w) /\ job[w].run \in Run /\ job[w].step \in Steps
           /\ stepStatus[job[w].run][job[w].step] = "running"
           /\ landed[job[w].run][job[w].step] <= 1
           /\ effectState[job[w].run][job[w].step] # "not-started"
<1>1. job[w].run \in Run /\ JobOK(pc[w], job[w]) /\ ActingOK(pc[w], job[w])
  BY Zenon, JobFacts
<1>2. job[w].step \in Steps
  BY Zenon, <1>1 DEF JobOK, Acting
<1>3. /\ stepStatus[job[w].run][job[w].step] = "running"
      /\ effectState[job[w].run][job[w].step] # "not-started"
  BY <1>1, ZenonT(30) DEF ActingOK, OwnedStep, Acting
<1>4. landed[job[w].run][job[w].step] <= 1
  BY <1>1, <1>2, SMTT(30) DEF IInv, EffectInv, EffectAtMostOnce
<1> QED BY <1>1, <1>2, <1>3, <1>4 DEF Owns

(* The owner moves on without changing a row or the target.                *)
LEMMA OwnMove ==
    ASSUME IInv, NEW w \in Worker, pc[w] \in Acting,
           NEW p, NEW j, SameStep(w, p, j), ActingOK(p, j), p \in Acting,
           Calm, UNCHANGED storeVars
    PROVE  IInv'
<1>1. PICK r, i : r = job[w].run /\ i = job[w].step
  BY Zenon
<1>2. /\ Owns(w) /\ r \in Run /\ i \in Steps /\ stepStatus[r][i] = "running"
      /\ landed[r][i] <= 1 /\ effectState[r][i] # "not-started"
  BY Zenon, <1>1, OwnerFacts
<1>3. /\ status' = status /\ stepStatus' = stepStatus /\ effectState' = effectState
      /\ landed' = landed
  BY Zenon DEF storeVars, runVars, Calm, worldVars
<1>4. AroundKept
  <2>1. RowTypeOK /\ LeaseTypeOK
    BY Zenon, RowFacts
  <2>2. RowTypeOK' /\ LeaseTypeOK'
    BY Zenon, <2>1, SameRows, SameLeases DEF storeVars, RowsOK
  <2>3. landed' \in [Run -> [Steps -> Nat]] /\ late' \in [Run -> Nat]
    BY WorldFacts, SMTT(30) DEF Calm, worldVars
  <2> QED BY <2>2, <2>3 DEF AroundKept, Calm
<1>5. OwnedStep(p, j, stepStatus[r][i], effectState[r][i], landed[r][i])
  BY Zenon, <1>1 DEF ActingOK, SameStep
<1>6. OwnRows(r, i, p, j)
  <2>1. OthersKept(r, i)
    BY Zenon, <1>3 DEF OthersKept
  <2>2. p # "release"
    BY SMTT(30) DEF Acting
  <2>3. OwnRow(p, j, stepStatus[r][i], effectState[r][i], landed[r][i])
    BY Zenon, <1>2, <1>5, <2>2 DEF OwnRow
  <2> QED BY <1>3, <2>1, <2>3 DEF OwnRows
<1> QED BY <1>1, <1>2, <1>4, <1>6, OwnStep

LEMMA CloseAsJob ==
    ASSUME NEW w \in Worker, job[w].run \in Run, job[w].step \in Steps,
           NEW to \in {"interrupted", "failed", "partial"}, CloseAs(w, to)
    PROVE  \E j : /\ GotoWith(w, "close", j) /\ j \in Job
                  /\ j.run = job[w].run /\ j.step = job[w].step /\ j.to = to
                  /\ JobOK("close", j) /\ "close" \in PC
<1>1. PICK j : j = [JobAt(job[w].run, job[w].step) EXCEPT !.to = to]
  BY Zenon
<1>2. GotoWith(w, "close", j)
  BY Zenon, <1>1 DEF CloseAs
<1>3. j \in Job /\ JobOK("close", j) /\ "close" \in PC
  BY <1>1, EndingJob
<1>4. j.run = job[w].run /\ j.step = job[w].step /\ j.to = to
  BY Zenon, <1>1 DEF JobAt
<1> QED BY <1>2, <1>3, <1>4

(* CloseAs hands the step to the closing calls: if the target may have     *)
(* been touched, the step is to be marked unknown.                         *)
LEMMA CloseAsStep ==
    ASSUME IInv, NEW w \in Worker, pc[w] \in Acting \ {"close"},
           NEW to \in {"interrupted", "failed", "partial"}, CloseAs(w, to),
           landed[job[w].run][job[w].step] # 0 => to = "partial",
           Calm, UNCHANGED storeVars
    PROVE  IInv'
<1>1. job[w].run \in Run /\ job[w].step \in Steps
  BY Zenon, OwnerFacts
<1>2. PICK j : /\ GotoWith(w, "close", j) /\ j \in Job
               /\ j.run = job[w].run /\ j.step = job[w].step /\ j.to = to
               /\ JobOK("close", j) /\ "close" \in PC
  BY Zenon, <1>1, CloseAsJob
<1>3. /\ j \in Job /\ j.run = job[w].run /\ j.step = job[w].step /\ j.to = to
      /\ JobOK("close", j) /\ "close" \in PC
  BY Zenon, <1>2
<1>4. GotoWith(w, "close", j)
  BY Zenon, <1>2
<1>5. SameStep(w, "close", j)
  BY Zenon, <1>3, <1>4 DEF GoesTo, SameStep, Looping
<1>6. ActingOK("close", j)
  <2>1. ActingOK(pc[w], job[w])
    BY Zenon, JobFacts
  <2>2. /\ stepStatus[job[w].run][job[w].step] = "running"
        /\ effectState[job[w].run][job[w].step] \in {"intent-recorded", "receipt-recorded"}
    BY <2>1, Zenon DEF ActingOK, OwnedStep, Acting
  <2>3. OwnedStep("close", j, stepStatus[job[w].run][job[w].step],
                  effectState[job[w].run][job[w].step], landed[job[w].run][job[w].step])
    BY <1>3, <2>2, ZenonT(30) DEF OwnedStep, Acting
  <2> QED BY <1>3, <2>3, Zenon DEF ActingOK
<1>7. "close" \in Acting
  BY Zenon DEF Acting
<1> QED BY <1>5, <1>6, <1>7, OwnMove

LEMMA BeginKeeps == ASSUME IInv, NEW w \in Worker, Begin(w) PROVE IInv'
<1>1. PICK r, i : r = job[w].run /\ i = job[w].step
  BY Zenon
<1>2. pc[w] = "begin" /\ UNCHANGED leaseVars
  BY Zenon DEF Begin
<1>3. /\ RowTypeOK /\ LeaseTypeOK /\ r \in Run /\ i \in Steps /\ job[w] \in Job
  BY Zenon, <1>1, <1>2, RowFacts, JobFacts DEF JobOK
<1>4. LeaseTypeOK'
  BY Zenon, <1>2, <1>3, SameLeases
<1>5. CASE Return(w) /\ UNCHANGED <<runVars, keys, late>>
  <2>1. Calm
    BY Zenon, <1>5 DEF Begin, Calm, worldVars
  <2>2. RowsOK
    BY Zenon, <1>3, <1>5, SameRows
  <2>3. Quiet(w)
    BY Zenon, <1>4, <1>5, <2>1, <2>2, QuietReturn
  <2> QED BY <2>3, QuietStep
<1>6. CASE /\ BeginAllowed(r, i, w) /\ BeginStep(r, i) /\ Goto(w, "begun")
           /\ late' = [late EXCEPT ![r] = @ + (IF cancelRequested[r] THEN 1 ELSE 0)]
  <2>1. SameStep(w, "begun", job[w])
    BY Zenon, <1>1, <1>2, <1>3, <1>6 DEF Goto, GoesTo, SameStep, JobOK, PC, Looping
  <2>2. /\ status' = status
        /\ stepStatus' = [stepStatus EXCEPT ![r][i] = "running"]
        /\ effectState' = [effectState EXCEPT ![r][i] = "intent-recorded"]
        /\ landed' = landed
    BY Zenon, <1>6 DEF BeginStep, Begin
  <2>3. stepStatus'[r][i] = "running" /\ effectState'[r][i] = "intent-recorded"
    BY Zenon, <1>3, <2>2 DEF RowTypeOK
  <2>4. OthersKept(r, i)
    BY Zenon, <1>3, <2>2 DEF RowTypeOK, OthersKept
  <2>5. AroundKept
    <3>1. RowTypeOK'
      BY Zenon, <1>3, <1>6 DEF BeginStep, RowTypeOK, StepStatus, EffectState
    <3>2. landed' \in [Run -> [Steps -> Nat]]
      BY Zenon, <2>2, WorldFacts
    <3>3. late' \in [Run -> Nat]
      BY <1>3, <1>6, WorldFacts
    <3>4. Alive /\ UNCHANGED <<server, pending>>
      BY Zenon DEF Begin
    <3> QED BY <1>4, <3>1, <3>2, <3>3, <3>4 DEF AroundKept
  <2>6. landed[r][i] = 0
    BY Zenon, <1>3, <1>6 DEF BeginAllowed, IInv, EffectInv, UntouchedInv
  <2>7. Owns(w)
    BY Zenon, <1>1, <1>2, <1>6 DEF BeginAllowed, Owns
  <2>8. OwnRow("begun", job[w], stepStatus'[r][i], effectState'[r][i], landed'[r][i])
    BY <2>2, <2>3, <2>6 DEF OwnedStep, OwnRow
  <2>9. OwnRows(r, i, "begun", job[w])
    BY Zenon, <2>2, <2>4, <2>8 DEF OwnRows
  <2> QED BY SMTT(30), <1>1, <1>3, <2>1, <2>5, <2>7, <2>9, OwnStep
<1> QED BY <1>1, <1>5, <1>6 DEF Begin

LEMMA DispatchKeeps == ASSUME IInv, NEW w \in Worker, Dispatch(w) PROVE IInv'
<1>1. pc[w] = "begun" /\ pc[w] \in Acting \ {"close"} /\ Calm /\ UNCHANGED storeVars
  BY Zenon DEF Dispatch, Acting, Calm
<1>2. job[w] \in Job /\ JobOK(pc[w], job[w]) /\ ActingOK(pc[w], job[w])
  BY Zenon, JobFacts
<1>3. landed[job[w].run][job[w].step] = 0
  BY Zenon, <1>1, <1>2 DEF ActingOK, OwnedStep
<1>4. CASE CloseAs(w, "interrupted") \/ CloseAs(w, "failed")
  BY Zenon, <1>1, <1>3, <1>4, CloseAsStep
<1>5. CASE Goto(w, "executing")
  <2>1. SameStep(w, "executing", job[w])
    BY Zenon, <1>1, <1>2, <1>5 DEF Goto, GoesTo, SameStep, JobOK, PC, Looping
  <2>2. ActingOK("executing", job[w])
    BY <1>1, <1>2, <1>3, Zenon DEF ActingOK, OwnedStep, Acting
  <2>3. "executing" \in Acting
    BY Zenon DEF Acting
  <2> QED BY <1>1, <2>1, <2>2, <2>3, OwnMove, SMTT(30)
<1> QED BY <1>4, <1>5 DEF Dispatch

LEMMA EffectLandsKeeps == ASSUME IInv, NEW w \in Worker, EffectLands(w) PROVE IInv'
<1>1. PICK r, i, j : /\ r = job[w].run /\ i = job[w].step
                     /\ j = [job[w] EXCEPT !.changed = TRUE]
  BY Zenon
<1>2. pc[w] = "executing" /\ pc[w] \in Acting /\ UNCHANGED storeVars
  BY Zenon DEF EffectLands, Acting
<1>3. job[w] \in Job /\ JobOK(pc[w], job[w]) /\ ActingOK(pc[w], job[w])
  BY Zenon, JobFacts
<1>4. /\ Owns(w) /\ r \in Run /\ i \in Steps
      /\ stepStatus[r][i] = "running" /\ effectState[r][i] # "not-started"
  BY Zenon, <1>1, <1>2, OwnerFacts
<1>5. landed[r][i] = 0 /\ effectState[r][i] = "intent-recorded"
  BY Zenon, <1>1, <1>2, <1>3 DEF EffectLands, ActingOK, OwnedStep
<1>6. landed' = [landed EXCEPT ![r][i] = 1]
  BY <1>1, <1>4, <1>5, WorldFacts DEF EffectLands
<1>7. /\ j \in Job /\ j.run = r /\ j.step = i /\ j.changed = TRUE
  BY <1>1, <1>3, Zenon DEF Job
<1>8. SameStep(w, "executing", j)
  <2>1. GotoWith(w, "executing", j)
    BY Zenon, <1>1 DEF EffectLands
  <2> QED BY <1>1, <1>2, <1>4, <1>7, <2>1 DEF GoesTo, SameStep, JobOK, PC
<1>9. status' = status /\ stepStatus' = stepStatus /\ effectState' = effectState
  BY Zenon, <1>2 DEF storeVars, runVars
<1>10. AroundKept
  <2>1. RowTypeOK' /\ LeaseTypeOK'
    BY Zenon, <1>2, RowFacts, SameRows, SameLeases DEF storeVars, RowsOK
  <2>2. late' \in [Run -> Nat]
    BY Zenon, WorldFacts DEF EffectLands
  <2>a. landed' \in [Run -> [Steps -> Nat]]
    <3>1. landed \in [Run -> [Steps -> Nat]]
      BY Zenon, WorldFacts
    <3> QED BY <1>4, <1>6, <3>1
  <2>3. Alive /\ UNCHANGED <<server, pending>>
    BY Zenon DEF EffectLands
  <2> QED BY <2>1, <2>2, <2>a, <2>3 DEF AroundKept
<1>11. OwnRows(r, i, "executing", j)
  <2>1. OthersKept(r, i) /\ landed'[r][i] = 1
    BY <1>4, <1>6, <1>9, WorldFacts, SMTT(30) DEF OthersKept
  <2>2. OwnRow("executing", j, stepStatus[r][i], effectState[r][i], landed'[r][i])
    <3>1. OwnedStep("executing", j, "running", "intent-recorded", 1)
      BY Zenon, <1>7 DEF OwnedStep
    <3>2. OwnRow("executing", j, "running", "intent-recorded", 1)
      BY <3>1 DEF OwnRow
    <3> QED BY <1>4, <1>5, <2>1, <3>2
  <2> QED BY <1>9, <2>1, <2>2 DEF OwnRows
<1> QED BY <1>1, <1>4, <1>8, <1>10, <1>11, OwnStep

LEMMA ExecuteKeeps == ASSUME IInv, NEW w \in Worker, Execute(w) PROVE IInv'
<1>1. pc[w] = "executing" /\ pc[w] \in Acting /\ Calm /\ UNCHANGED storeVars
  BY Zenon DEF Execute, Acting, Calm
<1>2. job[w] \in Job /\ JobOK(pc[w], job[w]) /\ ActingOK(pc[w], job[w])
  BY Zenon, JobFacts
<1>3. PICK out \in Outcome, observed \in BOOLEAN :
         /\ job[w].changed => observed
         /\ GotoWith(w, "returned", [job[w] EXCEPT !.out = out, !.observed = observed])
  BY Zenon DEF Execute
<1>4. PICK j : j = [job[w] EXCEPT !.out = out, !.observed = observed]
  OBVIOUS
<1>5. j \in Job /\ j.run = job[w].run /\ j.step = job[w].step /\ j.observed = observed
  BY <1>2, <1>4, Zenon DEF Job
<1>6. SameStep(w, "returned", j)
  <2>1. GotoWith(w, "returned", j)
    BY Zenon, <1>3, <1>4
  <2> QED BY <1>1, <1>2, <1>5, <2>1, Zenon DEF GoesTo, SameStep, JobOK, PC, Looping
<1>7. ActingOK("returned", j)
  <2>1. landed[job[w].run][job[w].step] # 0 => observed = TRUE
    BY Zenon, <1>1, <1>2, <1>3 DEF ActingOK, OwnedStep
  <2>2. /\ stepStatus[job[w].run][job[w].step] = "running"
        /\ effectState[job[w].run][job[w].step] = "intent-recorded"
    BY <1>1, <1>2, ZenonT(30) DEF ActingOK, OwnedStep
  <2>3. OwnedStep("returned", j, stepStatus[job[w].run][job[w].step],
                  effectState[job[w].run][job[w].step], landed[job[w].run][job[w].step])
    BY Zenon, <1>5, <2>1, <2>2 DEF OwnedStep
  <2> QED BY <1>5, <2>3, Zenon DEF ActingOK
<1>8. "returned" \in Acting
  BY Zenon DEF Acting
<1> QED BY <1>1, <1>6, <1>7, <1>8, OwnMove

LEMMA ReturnedKeeps == ASSUME IInv, NEW w \in Worker, Returned(w) PROVE IInv'
<1>1. PICK r, i : r = job[w].run /\ i = job[w].step
  OBVIOUS
<1>2. /\ pc[w] = "returned" /\ pc[w] \in Acting \ {"close"}
      /\ Calm /\ UNCHANGED leaseVars /\ keys' = keys
  BY SMTT(30) DEF Returned, Acting, Calm
<1>3. job[w] \in Job /\ JobOK(pc[w], job[w]) /\ ActingOK(pc[w], job[w])
  BY Zenon, JobFacts
<1>4. /\ Owns(w) /\ r \in Run /\ i \in Steps
      /\ stepStatus[r][i] = "running" /\ landed[r][i] <= 1
  BY Zenon, <1>1, <1>2, OwnerFacts
<1>5. \/ UNCHANGED runVars /\ job[w].observed /\ CloseAs(w, "partial")
      \/ UNCHANGED runVars /\ ~job[w].observed /\ CloseAs(w, "interrupted")
      \/ UNCHANGED runVars /\ ~job[w].observed /\ CloseAs(w, "failed")
      \/ /\ job[w].out \in {"succeeded", "failed", "partial"}
         /\ RecordReceipt(r, i) /\ Goto(w, "verify")
      \/ Return(w) /\ UNCHANGED runVars
  BY Zenon, <1>1 DEF Returned
<1>6. ASSUME UNCHANGED runVars PROVE UNCHANGED storeVars
  BY <1>2, <1>6, SMTT(30) DEF storeVars
<1>7. CASE UNCHANGED runVars /\ job[w].observed /\ CloseAs(w, "partial")
  BY Zenon, <1>2, <1>6, <1>7, CloseAsStep
<1>8. CASE /\ UNCHANGED runVars /\ ~job[w].observed
           /\ CloseAs(w, "interrupted") \/ CloseAs(w, "failed")
  <2>1. landed[job[w].run][job[w].step] = 0
    BY <1>2, <1>3, <1>8, SMTT(30) DEF ActingOK, OwnedStep
  <2> QED BY <1>2, <1>6, <1>8, <2>1, CloseAsStep, SMTT(30)
<1>9. CASE /\ job[w].out \in {"succeeded", "failed", "partial"}
           /\ RecordReceipt(r, i) /\ Goto(w, "verify")
  <2>1. SameStep(w, "verify", job[w])
    BY Zenon, <1>1, <1>2, <1>3, <1>4, <1>9 DEF Goto, GoesTo, SameStep, JobOK, PC, Looping
  <2>2. /\ status' = status /\ stepStatus' = stepStatus /\ landed' = landed
        /\ effectState' = [effectState EXCEPT ![r][i] = "receipt-recorded"]
    BY Zenon, <1>2, <1>9 DEF RecordReceipt, Calm, worldVars
  <2>3. RowTypeOK /\ LeaseTypeOK
    BY Zenon, RowFacts
  <2>4. effectState'[r][i] = "receipt-recorded" /\ OthersKept(r, i)
    BY Zenon, <1>4, <2>2, <2>3 DEF OthersKept, RowTypeOK
  <2>5. AroundKept
    <3>1. RowTypeOK'
      BY Zenon, <1>4, <1>9, <2>3 DEF RecordReceipt, RowTypeOK, EffectState
    <3>2. LeaseTypeOK'
      BY Zenon, <1>2, <2>3, SameLeases
    <3>3. landed' \in [Run -> [Steps -> Nat]] /\ late' \in [Run -> Nat]
      BY Zenon, <1>2, WorldFacts DEF Calm, worldVars
    <3> QED BY <1>2, <3>1, <3>2, <3>3 DEF AroundKept, Calm
  <2>6. OwnRow("verify", job[w], stepStatus'[r][i], effectState'[r][i], landed'[r][i])
    BY Zenon, <1>4, <2>2, <2>4 DEF OwnRow, OwnedStep
  <2>7. OwnRows(r, i, "verify", job[w])
    BY Zenon, <2>2, <2>4, <2>6 DEF OwnRows
  <2> QED BY <1>1, <1>4, <2>1, <2>5, <2>7, OwnStep, SMTT(30)
<1>10. CASE Return(w) /\ UNCHANGED runVars
  <2>1. RowsOK /\ LeaseTypeOK'
    BY Zenon, <1>2, <1>10, RowFacts, SameRows, SameLeases
  <2>2. Quiet(w)
    BY <1>2, <1>10, <2>1, QuietReturn, SMTT(30)
  <2> QED BY <2>2, QuietStep
<1> QED BY <1>5, <1>7, <1>8, <1>9, <1>10

LEMMA VerifyKeeps == ASSUME IInv, NEW w \in Worker, Verify(w) PROVE IInv'
<1>1. PICK r, i : r = job[w].run /\ i = job[w].step
  OBVIOUS
<1>2. /\ pc[w] = "verify" /\ pc[w] \in Acting \ {"close"}
      /\ Calm /\ UNCHANGED leaseVars /\ keys' = keys
  BY ZenonT(30) DEF Verify, Acting, Calm
<1>3. job[w] \in Job /\ JobOK(pc[w], job[w])
  BY JobFacts, SMTT(30)
<1>4. Owns(w) /\ r \in Run /\ i \in Steps /\ landed[r][i] <= 1
  BY <1>1, <1>2, OwnerFacts, SMTT(30)
<1>5. CASE CloseAs(w, "partial") /\ UNCHANGED runVars
  BY Zenon, <1>2, <1>5, CloseAsStep DEF storeVars
<1>6. CASE FinishStep(r, i, job[w].out, job[w].changed) /\ Goto(w, "release")
  <2>1. job[w].out \in {"succeeded", "failed", "partial"} /\ job[w].changed \in BOOLEAN
    BY <1>2, <1>3, SMTT(30) DEF JobOK, Job
  <2>2. SameStep(w, "release", job[w])
    BY Zenon, <1>1, <1>2, <1>3, <1>4, <1>6, <2>1 DEF Goto, GoesTo, SameStep, JobOK, PC, Looping
  <2>3. /\ status' = status /\ landed' = landed
        /\ stepStatus' = [stepStatus EXCEPT ![r][i] = job[w].out]
        /\ effectState' = [effectState EXCEPT ![r][i] = "verified"]
    BY <1>2, <1>6, SMTT(30) DEF FinishStep, Calm, worldVars
  <2>4. RowTypeOK /\ LeaseTypeOK
    BY Zenon, RowFacts
  <2>5. /\ stepStatus'[r][i] = job[w].out /\ effectState'[r][i] = "verified"
        /\ OthersKept(r, i)
    BY Zenon, <1>4, <2>3, <2>4 DEF OthersKept, RowTypeOK
  <2>6. AroundKept
    <3>1. changed' \in [Run -> BOOLEAN]
      BY <1>6, <2>4, Zenon DEF FinishStep, RowTypeOK
    <3>2. stepStatus' \in [Run -> [Steps -> StepStatus]]
      BY Zenon, <1>4, <2>1, <2>3, <2>4 DEF RowTypeOK, StepStatus
    <3>3. effectState' \in [Run -> [Steps -> EffectState]]
      BY Zenon, <1>4, <2>3, <2>4 DEF RowTypeOK, EffectState
    <3>4. RowTypeOK'
      BY <1>2, <1>6, <2>4, <3>1, <3>2, <3>3, Zenon DEF FinishStep, RowTypeOK
    <3>5. LeaseTypeOK'
      BY Zenon, <1>2, <2>4, SameLeases
    <3>6. landed' \in [Run -> [Steps -> Nat]] /\ late' \in [Run -> Nat]
      BY Zenon, <1>2, WorldFacts DEF Calm, worldVars
    <3> QED BY <1>2, <3>4, <3>5, <3>6 DEF AroundKept, Calm
  <2>7. OwnRow("release", job[w], stepStatus'[r][i], effectState'[r][i], landed'[r][i])
    BY Zenon, <1>4, <2>3, <2>5 DEF OwnRow, OwnedStep, Acting
  <2>8. OwnRows(r, i, "release", job[w])
    BY Zenon, <2>3, <2>5, <2>7 DEF OwnRows
  <2> QED BY <1>1, <1>4, <2>2, <2>6, <2>8, OwnStep, SMTT(30)
<1>7. CASE Return(w) /\ UNCHANGED runVars
  <2>1. RowsOK /\ LeaseTypeOK'
    BY Zenon, <1>2, <1>7, RowFacts, SameRows, SameLeases
  <2>2. Quiet(w)
    BY Zenon, <1>2, <1>7, <2>1, QuietReturn
  <2> QED BY <2>2, QuietStep
<1> QED BY <1>1, <1>5, <1>6, <1>7 DEF Verify

(* MarkStepUnknown and its siblings, when they are not replays.            *)
LEMMA CloseFacts ==
    ASSUME RowTypeOK, NEW r \in Run, NEW i \in Steps,
           NEW result \in {"interrupted", "failed", "partial"},
           CloseKey(r, i, result) \notin keys, CloseStep(r, i, result)
    PROVE  /\ RowTypeOK' /\ status' = status
           /\ stepStatus' = [stepStatus EXCEPT ![r][i] = result]
           /\ effectState' = [effectState EXCEPT
                                ![r][i] = IF result = "partial" THEN "effect-unknown"
                                          ELSE "not-started"]
<1>1. /\ status' = status /\ cancelRequested' = cancelRequested
      /\ stepStatus' = [stepStatus EXCEPT ![r][i] = result]
      /\ effectState' = [effectState EXCEPT
                           ![r][i] = IF result = "partial" THEN "effect-unknown"
                                     ELSE "not-started"]
      /\ changed' = [changed EXCEPT ![r] = changed[r] \/ result = "partial"]
      /\ keys' = keys \cup {CloseKey(r, i, result)}
  BY Zenon DEF CloseStep
<1>2. CloseKey(r, i, result) \in StepKey
  <2>1. i \in 0 .. NSteps
    BY NStepsAssumption DEF Steps
  <2>2. result \in RunStatus
    BY Zenon DEF RunStatus
  <2> QED BY <2>1, <2>2 DEF CloseKey, StepKey
<1>3. stepStatus' \in [Run -> [Steps -> StepStatus]]
  BY Zenon, <1>1 DEF RowTypeOK, StepStatus
<1>4. effectState' \in [Run -> [Steps -> EffectState]]
  BY Zenon, <1>1 DEF RowTypeOK, EffectState
<1>5. changed' \in [Run -> BOOLEAN]
  BY Zenon, <1>1 DEF RowTypeOK
<1> QED BY <1>1, <1>2, <1>3, <1>4, <1>5, Zenon DEF RowTypeOK

LEMMA CloseKeeps == ASSUME IInv, NEW w \in Worker, Close(w) PROVE IInv'
<1>1. PICK r, i, to : r = job[w].run /\ i = job[w].step /\ to = job[w].to
  BY Zenon
<1>2. pc[w] = "close" /\ pc[w] \in Acting /\ Calm /\ UNCHANGED leaseVars
  BY Zenon DEF Close, Acting, Calm
<1>3. job[w] \in Job /\ JobOK(pc[w], job[w]) /\ ActingOK(pc[w], job[w])
  BY Zenon, JobFacts
<1>4. Owns(w) /\ r \in Run /\ i \in Steps /\ landed[r][i] <= 1
  BY <1>1, <1>2, OwnerFacts, SMTT(30)
<1>5. /\ to \in {"interrupted", "failed", "partial"}
      /\ landed[r][i] # 0 => to = "partial"
  BY Zenon, <1>1, <1>2, <1>3 DEF JobOK, ActingOK, OwnedStep
<1>6. RowTypeOK /\ LeaseTypeOK /\ LeaseTypeOK'
  BY Zenon, <1>2, RowFacts, SameLeases
<1>7. CASE Goto(w, "releaseAll") /\ CloseStep(r, i, to) /\ CloseKey(r, i, to) \in keys
  <2>1. RowsOK
    BY Zenon, <1>6, <1>7, SameRows DEF CloseStep
  <2>2. MovesTo(w, "releaseAll", job[w]) /\ "releaseAll" \notin Acting
    BY <1>1, <1>3, <1>4, <1>5, <1>7, Zenon DEF Goto, MovesTo, JobOK, PassedOK, PC, Acting,
       Looping
  <2>3. Quiet(w)
    BY <1>2, <1>6, <2>1, <2>2, QuietIntro, SMTT(30)
  <2> QED BY <2>3, QuietStep
<1>8. CASE Goto(w, "releaseAll") /\ CloseStep(r, i, to) /\ CloseKey(r, i, to) \notin keys
  <2>1. SameStep(w, "releaseAll", job[w])
    BY <1>1, <1>3, <1>4, <1>5, <1>8, Zenon DEF Goto, GoesTo, SameStep, JobOK, PC, Looping
  <2>2. /\ RowTypeOK' /\ status' = status
        /\ stepStatus' = [stepStatus EXCEPT ![r][i] = to]
        /\ effectState' = [effectState EXCEPT
                             ![r][i] = IF to = "partial" THEN "effect-unknown"
                                       ELSE "not-started"]
    BY <1>4, <1>5, <1>6, <1>8, CloseFacts
  <2>3. landed' = landed
    BY Zenon, <1>2 DEF Calm, worldVars
  <2>4. /\ stepStatus'[r][i] = to
        /\ effectState'[r][i] = "not-started" => to # "partial"
        /\ OthersKept(r, i)
    BY <1>4, <1>6, <2>2, <2>3, SMTT(30) DEF OthersKept, RowTypeOK
  <2>5. OwnRow("releaseAll", job[w], stepStatus'[r][i], effectState'[r][i], landed'[r][i])
    BY Zenon, <1>4, <1>5, <2>3, <2>4 DEF OwnRow, OwnedStep, Acting
  <2>6. OwnRows(r, i, "releaseAll", job[w])
    BY Zenon, <2>2, <2>4, <2>5 DEF OwnRows
  <2>7. AroundKept
    <3>1. landed' \in [Run -> [Steps -> Nat]] /\ late' \in [Run -> Nat]
      BY Zenon, <1>2, WorldFacts DEF Calm, worldVars
    <3> QED BY <1>2, <1>6, <2>2, <3>1 DEF AroundKept, Calm
  <2> QED BY <1>1, <1>4, <2>1, <2>6, <2>7, OwnStep
<1>9. CASE Return(w) /\ UNCHANGED <<runVars, keys>>
  <2>1. Quiet(w)
    BY ZenonT(30), <1>2, <1>6, <1>9, SameRows, QuietReturn
  <2> QED BY <2>1, QuietStep
<1> QED BY <1>1, <1>7, <1>8, <1>9, Zenon DEF Close
-----------------------------------------------------------------------------
(* Time, shutdown, crash and restart.                                      *)

(* A step after which no worker is at work.                                *)
LEMMA IdleStep ==
    ASSUME TypeOK', \A w \in Worker : pc'[w] = "idle" /\ job'[w].step \in Steps,
           UntouchedInv', EffectAtMostOnce', VerifiedInv', SucceededIsVerified'
    PROVE  IInv'
<1>1. JobInv' /\ DownInv'
  BY SMTT(30) DEF JobInv, JobOK, DownInv
<1>2. OwnerInv' /\ ActingInv' /\ PassedInv'
  BY Zenon DEF OwnerInv, ActingInv, ActingOK, OwnedStep, PassedInv, PassedOK, Acting, Looping
<1> QED BY <1>1, <1>2 DEF IInv, LocalInv, EffectInv, SuccessInv

(* A second takes nothing from a worker but authority.                     *)
LEMMA TickJob ==
    ASSUME IInv, Tick, NEW w \in Worker
    PROVE  /\ job'[w] \in Job
           /\ job'[w].run = job[w].run /\ job'[w].step = job[w].step
           /\ job'[w].to = job[w].to /\ job'[w].seen = job[w].seen
           /\ job'[w].out = job[w].out
           /\ job'[w].changed = job[w].changed /\ job'[w].observed = job[w].observed
<1>1. job[w] \in Job
  BY Zenon, JobFacts
<1>2. PICK left \in 0 .. LeaseSeconds : job'[w] = [job[w] EXCEPT !.left = left]
  <2> DEFINE left == IF pc[w] \in Leased /\ job[w].left > 0 THEN job[w].left - 1
                     ELSE job[w].left
  <2>1. left \in 0 .. LeaseSeconds
    BY <1>1, LeaseAssumption DEF Job
  <2>2. job'[w] = [job[w] EXCEPT !.left = left]
    BY Zenon DEF Tick
  <2> QED BY <2>1, <2>2
<1> QED BY <1>1, <1>2 DEF Job

LEMMA TickKeeps == ASSUME IInv, Tick PROVE IInv'
<1>1. /\ UNCHANGED <<runVars, leaseVars, pc, server, pending, landed, late>>
      /\ keys' = {}
      /\ job' = [w \in Worker |->
                    [job[w] EXCEPT !.left = IF pc[w] \in Leased /\ @ > 0 THEN @ - 1 ELSE @]]
  BY Zenon DEF Tick, worldVars
<1>2. RowTypeOK /\ LeaseTypeOK /\ WorkerTypeOK
  BY Zenon, TypeParts DEF IInv, LocalInv
<1>3. ASSUME NEW w \in Worker
      PROVE  /\ job'[w] \in Job
             /\ job'[w].run = job[w].run /\ job'[w].step = job[w].step
             /\ job'[w].to = job[w].to /\ job'[w].seen = job[w].seen
             /\ job'[w].out = job[w].out
             /\ job'[w].changed = job[w].changed /\ job'[w].observed = job[w].observed
  BY Zenon, TickJob
<1>4. RowTypeOK' /\ LeaseTypeOK'
  BY Zenon, <1>1, <1>2 DEF RowTypeOK, LeaseTypeOK, runVars, leaseVars
<1>5. TypeOK'
  <2>1. WorkerTypeOK'
    BY Zenon, <1>1, <1>2, <1>3 DEF WorkerTypeOK
  <2> QED BY <1>1, <1>4, <2>1
          DEF IInv, LocalInv, TypeOK, StoreTypeOK, RowTypeOK, LeaseTypeOK, WorkerTypeOK
<1>6. JobInv' /\ DownInv'
  BY <1>1, <1>3 DEF IInv, LocalInv, JobInv, JobOK, DownInv
<1>7. OwnerInv'
  BY <1>1, <1>3 DEF IInv, EffectInv, OwnerInv
<1>8. ActingInv' /\ PassedInv'
  <2> SUFFICES ASSUME NEW w \in Worker
               PROVE  ActingOK(pc[w], job[w])' /\ PassedOK(pc[w], job[w])'
    BY Zenon DEF ActingInv, PassedInv
  <2>1. /\ pc' = pc /\ stepStatus' = stepStatus /\ effectState' = effectState
        /\ landed' = landed
    BY Zenon, <1>1 DEF runVars
  <2>2. ActingOK(pc[w], job[w]) /\ PassedOK(pc[w], job[w])
    BY JobFacts, SMTT(30)
  <2>3. ActingOK(pc[w], job[w])'
    <3>1. /\ job'[w].run = job[w].run /\ job'[w].step = job[w].step
          /\ job'[w].to = job[w].to
          /\ job'[w].changed = job[w].changed /\ job'[w].observed = job[w].observed
      BY Zenon, <1>3
    <3>2. OwnedStep(pc[w], job'[w], stepStatus[job[w].run][job[w].step],
                    effectState[job[w].run][job[w].step], landed[job[w].run][job[w].step])
      <4>1. OwnedStep(pc[w], job[w], stepStatus[job[w].run][job[w].step],
                      effectState[job[w].run][job[w].step], landed[job[w].run][job[w].step])
        BY Zenon, <2>2 DEF ActingOK
      <4> QED BY <3>1, <4>1, Zenon DEF OwnedStep
    <3> QED BY <2>1, <3>1, <3>2 DEF ActingOK
  <2>4. PassedOK(pc[w], job[w])'
    BY Zenon, <1>3, <2>1, <2>2 DEF PassedOK
  <2> QED BY <2>3, <2>4
<1>9. UntouchedInv' /\ EffectAtMostOnce' /\ VerifiedInv' /\ SucceededIsVerified'
  BY Zenon, <1>1 DEF IInv, EffectInv, SuccessInv, UntouchedInv, EffectAtMostOnce, VerifiedInv,
              SucceededIsVerified, runVars
<1> QED BY <1>5, <1>6, <1>7, <1>8, <1>9 DEF IInv, LocalInv, EffectInv, SuccessInv

LEMMA ServerKeeps ==
    ASSUME IInv, Shutdown \/ Restart \/ ReconcileDone
    PROVE  IInv'
<1>1. /\ UNCHANGED <<storeVars, workerVars, worldVars>>
      /\ server' \in {"up", "stopping"} \/ (server = "down" /\ server' = "reconciling")
      /\ pending' \subseteq Run
  BY Zenon DEF Shutdown, Restart, ReconcileDone, IInv, LocalInv, TypeOK
<1>2. /\ status' = status /\ cancelRequested' = cancelRequested /\ changed' = changed
      /\ stepStatus' = stepStatus /\ effectState' = effectState
      /\ lease' = lease /\ leased' = leased /\ keys' = keys
      /\ pc' = pc /\ job' = job /\ landed' = landed /\ late' = late
  BY Zenon, <1>1 DEF storeVars, runVars, leaseVars, workerVars, worldVars
<1>3. TypeOK'
  BY <1>1, <1>2, SMTT(30) DEF IInv, LocalInv, TypeOK, StoreTypeOK
<1>4. JobInv'
  BY Zenon, <1>2 DEF IInv, LocalInv, JobInv
<1>a. DownInv'
  <2>1. server' \in {"down", "reconciling"} => server = "down"
    BY Zenon, <1>1
  <2>2. server = "down" => \A w \in Worker : pc[w] = "idle"
    BY Zenon DEF IInv, LocalInv, DownInv
  <2> QED BY <1>2, <2>1, <2>2 DEF DownInv
<1>5. EffectInv'
  BY Zenon, <1>2 DEF IInv, EffectInv, UntouchedInv, OwnerInv, ActingInv, ActingOK,
     EffectAtMostOnce
<1>6. SuccessInv'
  BY Zenon, <1>2 DEF IInv, SuccessInv, VerifiedInv, PassedInv, PassedOK, SucceededIsVerified
<1> QED BY <1>3, <1>4, <1>a, <1>5, <1>6 DEF IInv, LocalInv

LEMMA CrashKeeps == ASSUME IInv, Crash PROVE IInv'
<1>1. /\ status' = status /\ cancelRequested' = cancelRequested /\ changed' = changed
      /\ stepStatus' = stepStatus /\ effectState' = effectState
      /\ lease' = lease /\ leased' = leased /\ keys' = keys
      /\ landed' = landed /\ late' = late /\ server' = "down" /\ pending' = {}
      /\ pc' = [w \in Worker |-> "idle"] /\ job' = [w \in Worker |-> IdleJob]
  BY Zenon DEF Crash, storeVars, runVars, leaseVars, worldVars
<1>2. TypeOK'
  BY Zenon, <1>1, IdleJobType DEF IInv, LocalInv, TypeOK, StoreTypeOK, PC
<1>3. \A w \in Worker : pc'[w] = "idle" /\ job'[w].step \in Steps
  BY <1>1, IdleJobType, SMTT(30)
<1>4. UntouchedInv' /\ EffectAtMostOnce' /\ VerifiedInv' /\ SucceededIsVerified'
  BY Zenon, <1>1 DEF IInv, EffectInv, SuccessInv, UntouchedInv, EffectAtMostOnce, VerifiedInv,
              SucceededIsVerified
<1> QED BY <1>2, <1>3, <1>4, IdleStep

(* Reconcile concludes that a run has succeeded only from its steps.       *)
LEMMA VerdictFacts ==
    ASSUME NEW r \in Run
    PROVE  /\ Verdict(r) \in RunStatus
           /\ Verdict(r) = "succeeded" => \A i \in Steps : stepStatus[r][i] = "succeeded"
<1> DEFINE unknown == \E i \in Steps : \/ stepStatus[r][i] = "partial"
                                       \/ effectState[r][i] = "effect-unknown"
           failed == \E i \in Steps : stepStatus[r][i] = "failed"
           done == \A i \in Steps : /\ stepStatus[r][i] = "succeeded"
                                    /\ effectState[r][i] = "verified"
<1>1. CASE unknown
  <2>1. Verdict(r) = "partial"
    BY Zenon, <1>1 DEF Verdict
  <2> QED BY <2>1 DEF RunStatus
<1>2. CASE ~unknown /\ failed
  <2>1. Verdict(r) = "failed"
    BY Zenon, <1>2 DEF Verdict
  <2> QED BY <2>1 DEF RunStatus
<1>3. CASE ~unknown /\ ~failed /\ done
  <2>1. Verdict(r) = "succeeded"
    BY Zenon, <1>3 DEF Verdict
  <2> QED BY <1>3, <2>1 DEF RunStatus
<1>4. CASE ~unknown /\ ~failed /\ ~done
  <2>1. Verdict(r) = "interrupted"
    BY Zenon, <1>4 DEF Verdict
  <2> QED BY <2>1 DEF RunStatus
<1> QED BY <1>1, <1>2, <1>3, <1>4

LEMMA ReconcileKeeps ==
    ASSUME IInv, NEW r \in Run,
           \/ ReconcileRelease(r) \/ ReconcileSettle(r)
           \/ \E i \in Steps : ReconcileMark(r, i)
    PROVE  IInv'
<1>1. /\ RowTypeOK /\ LeaseTypeOK /\ WorkerTypeOK /\ pending \subseteq Run
      /\ server = "reconciling" /\ server' = server
      /\ pc' = pc /\ job' = job /\ landed' = landed /\ late' = late
      /\ landed \in [Run -> [Steps -> Nat]] /\ late \in [Run -> Nat]
      /\ pending' \subseteq pending
  BY Zenon, TypeParts DEF IInv, LocalInv, ReconcileRelease, ReconcileSettle, ReconcileMark,
                   workerVars, worldVars
<1>2. \A w \in Worker : pc'[w] = "idle" /\ job'[w].step \in Steps
  BY Zenon, <1>1 DEF IInv, LocalInv, DownInv, JobInv, JobOK
<1>3. ASSUME RowTypeOK', LeaseTypeOK' PROVE TypeOK'
  BY Zenon, <1>1, <1>3 DEF TypeOK, StoreTypeOK, RowTypeOK, LeaseTypeOK, WorkerTypeOK
<1>4. ASSUME RowsOK, LeaseTypeOK' PROVE IInv'
  <2>1. RowTypeOK' /\ RowsKept /\ StatusKept
    BY <1>4, SMTT(30) DEF RowsOK
  <2>2. UntouchedInv' /\ EffectAtMostOnce'
    BY Zenon, <1>1, <2>1 DEF IInv, EffectInv, UntouchedInv, EffectAtMostOnce, RowsKept
  <2>3. VerifiedInv'
    BY <2>1, SMTT(30) DEF IInv, SuccessInv, VerifiedInv, RowsKept
  <2>4. SucceededIsVerified'
    BY <2>1, <2>3 DEF IInv, SuccessInv, SucceededIsVerified, RowsKept, StatusKept, VerifiedInv
  <2> QED BY <1>2, <1>3, <1>4, <2>1, <2>2, <2>3, <2>4, IdleStep
<1>5. CASE ReconcileRelease(r)
  <2>1. lease' \subseteq lease /\ leased' = leased /\ UNCHANGED <<runVars, keys>>
    BY Zenon, <1>5 DEF ReconcileRelease, ReleaseRunLeases
  <2>2. LeaseTypeOK'
    BY Zenon, <1>1, <2>1 DEF LeaseTypeOK
  <2> QED BY <1>1, <1>4, <2>1, <2>2, SameRows
<1>6. CASE ReconcileSettle(r)
  <2>1. LeaseTypeOK'
    BY <1>1, <1>6, SameLeases, Zenon DEF ReconcileSettle
  <2>2. CASE status[r] = "running"
    <3> DEFINE chg == changed[r] \/ Verdict(r) = "partial"
    <3>1. TransitionRun(r, "running", Verdict(r), chg) /\ chg \in BOOLEAN
          /\ "running" \in RunStatus
      BY <1>6, <2>2, Zenon DEF ReconcileSettle, RunStatus
    <3> HIDE DEF chg
    <3>2. RowsOK
      BY <1>1, <3>1, VerdictFacts, TransitionKeeps, SMTT(30)
    <3> QED BY <1>4, <2>1, <3>2
  <2>3. CASE status[r] # "running"
    BY Zenon, <1>1, <1>4, <1>6, <2>1, <2>3, SameRows DEF ReconcileSettle
  <2> QED BY <2>2, <2>3
<1>7. ASSUME NEW i \in Steps, ReconcileMark(r, i) PROVE IInv'
  <2>1. LeaseTypeOK'
    BY Zenon, <1>1, <1>7, SameLeases DEF ReconcileMark
  <2>2. CASE CloseKey(r, i, "partial") \in keys
    <3>1. UNCHANGED <<runVars, keys>>
      BY Zenon, <1>7, <2>2 DEF ReconcileMark, CloseStep
    <3> QED BY <1>1, <1>4, <2>1, <3>1, SameRows
  <2>3. CASE CloseKey(r, i, "partial") \notin keys
    <3>1. CloseStep(r, i, "partial") /\ stepStatus[r][i] = "running"
      BY Zenon, <1>7 DEF ReconcileMark, InFlight
    <3>2. /\ RowTypeOK' /\ status' = status
          /\ stepStatus' = [stepStatus EXCEPT ![r][i] = "partial"]
          /\ effectState' = [effectState EXCEPT ![r][i] = "effect-unknown"]
      BY Zenon, <1>1, <1>7, <2>3, <3>1, CloseFacts
    <3>a. RowTypeOK /\ landed' = landed
      BY Zenon, <1>1
    <3>b. UntouchedInv /\ EffectAtMostOnce /\ VerifiedInv
      BY SMTT(30) DEF IInv, EffectInv, SuccessInv
    <3>c. ASSUME NEW q \in Run, NEW k \in Steps
          PROVE  /\ effectState'[q][k] = "not-started" => effectState[q][k] = "not-started"
                 /\ stepStatus'[q][k] = "succeeded" =>
                       /\ stepStatus[q][k] = "succeeded"
                       /\ effectState'[q][k] = effectState[q][k]
      BY Zenon, <1>7, <3>2, <3>a DEF RowTypeOK
    <3>d. UntouchedInv'
      <4> SUFFICES ASSUME NEW q \in Run, NEW k \in Steps, effectState'[q][k] = "not-started"
                   PROVE  landed'[q][k] = 0
        BY SMTT(30) DEF UntouchedInv
      <4>1. effectState[q][k] = "not-started"
        BY Zenon, <3>c
      <4> QED BY <3>a, <3>b, <4>1 DEF UntouchedInv
    <3>e. EffectAtMostOnce'
      BY <3>a, <3>b, Zenon DEF EffectAtMostOnce
    <3>f. VerifiedInv'
      <4> SUFFICES ASSUME NEW q \in Run, NEW k \in Steps, stepStatus'[q][k] = "succeeded"
                   PROVE  effectState'[q][k] = "verified"
        BY Zenon DEF VerifiedInv
      <4>1. stepStatus[q][k] = "succeeded" /\ effectState'[q][k] = effectState[q][k]
        BY Zenon, <3>c
      <4> QED BY <3>b, <4>1 DEF VerifiedInv
    <3>3. UntouchedInv' /\ EffectAtMostOnce' /\ VerifiedInv'
      BY Zenon, <3>d, <3>e, <3>f
    <3>4. SucceededIsVerified'
      BY <1>1, <1>7, <3>1, <3>2, Zenon DEF IInv, SuccessInv, SucceededIsVerified, RowTypeOK
    <3> QED BY <1>2, <1>3, <2>1, <3>2, <3>3, <3>4, IdleStep, SMTT(30)
  <2> QED BY <2>2, <2>3
<1> QED BY <1>5, <1>6, <1>7, SMTT(30)

-----------------------------------------------------------------------------
(* The theorems.                                                           *)

(* The empty database of a fresh service satisfies the invariant.          *)
LEMMA InitIInv == Init => IInv
<1> SUFFICES ASSUME Init PROVE IInv
  OBVIOUS
<1>1. TypeOK
  <2>1. StoreTypeOK
    BY Zenon DEF Init, StoreInit, StoreTypeOK, RunStatus, StepStatus, EffectState
  <2>2. pc \in [Worker -> PC] /\ job \in [Worker -> Job]
    BY Zenon, IdleJobType DEF Init, PC
  <2> QED BY <2>1, <2>2 DEF Init, TypeOK
<1>2. JobInv /\ DownInv
  BY Zenon, IdleJobType DEF Init, JobInv, JobOK, DownInv
<1>3. UntouchedInv /\ EffectAtMostOnce /\ VerifiedInv /\ SucceededIsVerified
  BY SMTT(30) DEF Init, StoreInit, UntouchedInv, EffectAtMostOnce, VerifiedInv,
     SucceededIsVerified
<1>4. OwnerInv /\ ActingInv /\ PassedInv
  BY Zenon DEF Init, OwnerInv, ActingInv, ActingOK, OwnedStep, PassedInv, PassedOK, Acting,
     Looping
<1> QED BY <1>1, <1>2, <1>3, <1>4 DEF IInv, LocalInv, EffectInv, SuccessInv

LEMMA StutterKeeps == ASSUME IInv, UNCHANGED vars PROVE IInv'
<1>1. /\ status' = status /\ cancelRequested' = cancelRequested /\ changed' = changed
      /\ stepStatus' = stepStatus /\ effectState' = effectState
      /\ lease' = lease /\ leased' = leased /\ keys' = keys
      /\ pc' = pc /\ job' = job /\ server' = server /\ pending' = pending
      /\ landed' = landed /\ late' = late
  BY Zenon DEF vars, storeVars, runVars, leaseVars, workerVars, worldVars
<1>2. LocalInv'
  BY Zenon, <1>1 DEF IInv, LocalInv, TypeOK, StoreTypeOK, JobInv, DownInv
<1>3. EffectInv'
  BY <1>1, ZenonT(30) DEF IInv, EffectInv, UntouchedInv, OwnerInv, ActingInv, ActingOK,
     EffectAtMostOnce
<1>4. SuccessInv'
  BY Zenon, <1>1 DEF IInv, SuccessInv, VerifiedInv, PassedInv, PassedOK, SucceededIsVerified
<1> QED BY <1>2, <1>3, <1>4 DEF IInv

(* Every step of the engine, its requests and its environment keeps IInv.  *)
LEMMA NextIInv == IInv /\ [Next]_vars => IInv'
<1> SUFFICES ASSUME IInv, [Next]_vars PROVE IInv'
  OBVIOUS
<1>1. ASSUME NEW w \in Worker, Work(w) PROVE IInv'
  <2>1. CASE \/ ActivateRefused(w) \/ Start(w) \/ ResumeStart(w)
             \/ CancelAs(w)
    BY Zenon, <2>1, QuietOpening, QuietStart, QuietResumeStart, QuietCancelAs, QuietStep DEF
       Start
  <2>2. CASE Loop(w) \/ AdapterUnavailable(w) \/ LoopStopped(w) \/ Complete(w) \/ Settle(w)
    BY Zenon, <2>2, QuietLoop, QuietUnavailable, QuietStopped, QuietComplete, QuietSettle,
       QuietStep
  <2>3. CASE ReleaseLast(w) \/ Acquire(w) \/ Release(w) \/ ReleaseAll(w)
    BY Zenon, <2>3, QuietReleases, QuietAcquire, QuietRelease, QuietStep
  <2>4. CASE Begin(w)
    BY Zenon, <2>4, BeginKeeps
  <2>5. CASE Dispatch(w)
    BY Zenon, <2>5, DispatchKeeps
  <2>6. CASE EffectLands(w)
    BY Zenon, <2>6, EffectLandsKeeps
  <2>7. CASE Execute(w)
    BY Zenon, <2>7, ExecuteKeeps
  <2>8. CASE Returned(w)
    BY Zenon, <2>8, ReturnedKeeps
  <2>9. CASE Verify(w)
    BY Zenon, <2>9, VerifyKeeps
  <2>10. CASE Close(w)
    BY Zenon, <2>10, CloseKeeps
  <2> QED
    BY <1>1, <2>1, <2>2, <2>3, <2>4, <2>5, <2>6, <2>7, <2>8, <2>9, <2>10, SMTT(30) DEF Work
<1>2. ASSUME NEW w \in Worker, NEW r \in Run, Request(w, r) PROVE IInv'
  BY Zenon, <1>2, QuietRequest, QuietStep
<1>3. CASE Tick
  BY Zenon, <1>3, TickKeeps
<1>4. CASE Shutdown \/ Restart \/ ReconcileDone
  BY Zenon, <1>4, ServerKeeps
<1>5. CASE Crash
  BY Zenon, <1>5, CrashKeeps
<1>6. CASE Reconcile
  BY Zenon, <1>4, <1>6, ReconcileKeeps DEF Reconcile
<1>7. CASE UNCHANGED vars
  BY Zenon, <1>7, StutterKeeps
<1> QED BY <1>1, <1>2, <1>3, <1>4, <1>5, <1>6, <1>7 DEF Next

LEMMA AlwaysIInv == Spec => []IInv
BY InitIInv, NextIInv, PTL DEF Spec

(* Every row, lease, key and local variable keeps its type, whatever the   *)
(* requests, failures and restarts.                                        *)
THEOREM TypeCorrect == Spec => []TypeOK
<1>1. IInv => TypeOK
  BY Zenon DEF IInv, LocalInv
<1> QED BY <1>1, AlwaysIInv, PTL

(* No step is ever applied to its target twice: not by overlapping         *)
(* requests that drive the same run, not by replays within one second, not *)
(* by a resume or a restart after a crash.  No assumption is made on how   *)
(* many runs, steps, workers or targets there are.                         *)
THEOREM AtMostOnce == Spec => []EffectAtMostOnce
<1>1. IInv => EffectAtMostOnce
  BY Zenon DEF IInv, EffectInv
<1> QED BY <1>1, AlwaysIInv, PTL

(* A run is recorded as succeeded only when every one of its steps has     *)
(* succeeded and been verified, whether start or the startup               *)
(* reconciliation records it.                                              *)
THEOREM SuccessIsVerified == Spec => []SucceededIsVerified
<1>1. IInv => SucceededIsVerified
  BY Zenon DEF IInv, SuccessInv
<1> QED BY <1>1, AlwaysIInv, PTL
=============================================================================

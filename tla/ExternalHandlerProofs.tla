----------------------- MODULE ExternalHandlerProofs ------------------------
(***************************************************************************)
(* What the engine, the clock and the handlers of the external executor do *)
(* to the rows, when any number of claims, renewals, receipts and sweeps   *)
(* interleave with each other and with the requests of the engine.         *)
(*                                                                         *)
(* The engine's invariant IInv stays an invariant of the composition,      *)
(* because the steps the executor was given and the steps a worker acts on *)
(* are never the same.  Claims, the executor's effects and the theorems are*)
(* in ExternalExecutorProofs.                                              *)
(***************************************************************************)
EXTENDS ExternalExecutor, RunEngineProofs

Claimed(r, i) == xlease[r][i].claimed

(* A step in the executor's hands has been begun, its target is untouched  *)
(* until the executor works on it, and the steps before it are verified.   *)
ClaimOK(r, i) ==
    /\ Active(r, i) \/ xlease[r][i].expired => Claimed(r, i)
    /\ Claimed(r, i) =>
          /\ effectState[r][i] # "not-started"
          /\ ~xlease[r][i].worked => landed[r][i] = 0
          /\ \A k \in 1 .. (i - 1) : stepStatus[r][k] = "succeeded"

ClaimInv == \A r \in Run, i \in Steps : ClaimOK(r, i)

(* The engine acts on no step the executor was given.                      *)
ApartInv == \A w \in Worker : pc[w] \in Acting => ~Claimed(job[w].run, job[w].step)

(* A handler changes a step only between these calls.                      *)
AtStep == {"mark", "record", "judge", "finish"}

(* What a handler has read and still holds when it acts on it.             *)
HandlerOK(p, j) ==
    /\ \A q \in j.list : Claimed(q[1], q[2])
    /\ p \in AtStep => Claimed(j.run, j.step)
    /\ p = "claimTx" => \A k \in 1 .. (j.step - 1) : stepStatus[j.run][k] = "succeeded"
    /\ p \in {"release", "settle"} /\ j.to = "succeeded" =>
          \A k \in Steps : stepStatus[j.run][k] = "succeeded"

HandlerInv == \A h \in Handler : HandlerOK(hpc[h], hj[h])

XTyped ==
    /\ xlease \in [Run -> [Steps -> LeaseRow]]
    /\ hpc \in [Handler -> HPC]
    /\ hj \in [Handler -> HandlerJob]

XInv == IInv /\ XTyped /\ ClaimInv /\ ApartInv /\ HandlerInv

-----------------------------------------------------------------------------
(* What no step of the system does to the rows.                            *)

(* Success, failure and ambiguity are final.                               *)
RowSafe ==
    \A r \in Run, i \in Steps :
       /\ stepStatus[r][i] \in {"succeeded", "failed"} =>
             stepStatus'[r][i] = stepStatus[r][i]
       /\ effectState[r][i] = "effect-unknown" => effectState'[r][i] = "effect-unknown"

(* The engine leaves the executor's steps begun and its targets alone,     *)
(* begins only steps that are not started, and leases only to workers.     *)
ClaimsSafe ==
    \A r \in Run, i \in Steps : Claimed(r, i) =>
       effectState'[r][i] # "not-started" /\ landed'[r][i] = landed[r][i]

(* The engine's requests leave the executor's steps as they are.           *)
ClaimsAlone ==
    \A r \in Run, i \in Steps :
       Claimed(r, i) /\ stepStatus[r][i] \in {"running", "succeeded", "failed", "partial"} =>
          stepStatus'[r][i] = stepStatus[r][i] /\ effectState'[r][i] = effectState[r][i]

TakesFree ==
    \A w \in Worker : pc'[w] \in Acting =>
       \/ /\ pc[w] \in Acting
          /\ job'[w].run = job[w].run /\ job'[w].step = job[w].step
       \/ effectState[job'[w].run][job'[w].step] = "not-started"

NoNewLease == \A l \in lease' : l \in lease \/ l.holder \in Worker

LEMMA XFacts ==
    ASSUME XInv
    PROVE  /\ IInv /\ RowTypeOK /\ LeaseTypeOK /\ WorkerTypeOK
           /\ landed \in [Run -> [Steps -> Nat]] /\ late \in [Run -> Nat]
           /\ pending \subseteq Run
BY Zenon, TypeParts DEF XInv, IInv, LocalInv

(* A step no worker acts on, or the free step a worker takes.              *)
LEMMA UnclaimedStep ==
    ASSUME XInv, NEW w \in Worker, NEW r \in Run, NEW i \in Steps,
           r = job[w].run, i = job[w].step,
           pc[w] \in Acting \/ effectState[r][i] = "not-started"
    PROVE  ~Claimed(r, i)
BY Zenon DEF XInv, ApartInv, ClaimInv, ClaimOK

(* The worker returns or stays with its step.                              *)
StaysAt(w, r, i) ==
    \E p, j : GotoWith(w, p, j) /\ (p \in Acting => j.run = r /\ j.step = i)

Untouched(r, i) ==
    /\ stepStatus'[r][i] = stepStatus[r][i] /\ effectState'[r][i] = effectState[r][i]
    /\ landed'[r][i] = landed[r][i]

(* A worker that changes no row but that of the step it owns or takes.     *)
LEMMA OwnSafe ==
    ASSUME XInv, NEW w \in Worker, NEW r \in Run, NEW i \in Steps,
           r = job[w].run, i = job[w].step,
           pc[w] \in Acting \/ effectState[r][i] = "not-started",
           StaysAt(w, r, i), OthersKept(r, i),
           \/ Untouched(r, i)
           \/ /\ stepStatus[r][i] \notin {"succeeded", "failed"}
              /\ effectState[r][i] # "effect-unknown"
    PROVE  RowSafe /\ ClaimsSafe /\ ClaimsAlone /\ TakesFree
<1>1. ~Claimed(r, i)
  BY Zenon, UnclaimedStep
<1>2. RowSafe
  BY Zenon DEF RowSafe, OthersKept, Untouched
<1>3. ClaimsSafe
  <2> SUFFICES ASSUME NEW q \in Run, NEW k \in Steps, Claimed(q, k)
               PROVE  effectState'[q][k] # "not-started" /\ landed'[q][k] = landed[q][k]
    BY Zenon DEF ClaimsSafe
  <2>1. q # r \/ k # i
    BY Zenon, <1>1
  <2>2. effectState[q][k] # "not-started"
    BY Zenon DEF XInv, ClaimInv, ClaimOK
  <2> QED BY Zenon, <2>1, <2>2 DEF OthersKept
<1>4. TakesFree
  <2> SUFFICES ASSUME NEW v \in Worker, pc'[v] \in Acting
               PROVE  \/ /\ pc[v] \in Acting
                         /\ job'[v].run = job[v].run /\ job'[v].step = job[v].step
                      \/ effectState[job'[v].run][job'[v].step] = "not-started"
    BY Zenon DEF TakesFree
  <2>1. PICK p, j : GotoWith(w, p, j) /\ (p \in Acting => j.run = r /\ j.step = i)
    BY Zenon DEF StaysAt
  <2>2. pc \in [Worker -> PC] /\ job \in [Worker -> Job]
    BY Zenon, XFacts DEF WorkerTypeOK
  <2>3. /\ pc'[w] = p /\ job'[w] = j
        /\ v # w => pc'[v] = pc[v] /\ job'[v] = job[v]
    BY Zenon, <2>1, <2>2 DEF GotoWith
  <2>4. CASE v = w
    BY Zenon, <2>1, <2>3, <2>4
  <2>5. CASE v # w
    BY Zenon, <2>3, <2>5
  <2> QED BY <2>4, <2>5
<1>5. ClaimsAlone
  BY Zenon, <1>1 DEF ClaimsAlone, OthersKept
<1> QED BY <1>2, <1>3, <1>4, <1>5

LEMMA KeptSafe ==
    ASSUME XInv, RowsKept, landed' = landed
    PROVE  RowSafe /\ ClaimsSafe /\ ClaimsAlone
<1>1. RowSafe
  BY Zenon DEF RowSafe, RowsKept
<1>2. ClaimsSafe
  BY Zenon DEF RowsKept, ClaimsSafe, XInv, ClaimInv, ClaimOK
<1>3. ClaimsAlone
  BY Zenon DEF RowsKept, ClaimsAlone
<1> QED BY <1>1, <1>2, <1>3

LEMMA QuietSafe ==
    ASSUME XInv, NEW w \in Worker, Quiet(w)
    PROVE  RowSafe /\ ClaimsSafe /\ ClaimsAlone /\ TakesFree
<1>1. RowsKept /\ landed' = landed
  BY Zenon DEF Quiet, RowsOK, Calm, worldVars
<1>2. RowSafe /\ ClaimsSafe /\ ClaimsAlone
  BY Zenon, <1>1, KeptSafe
<1>3. TakesFree
  <2>1. PICK p, j : p \notin Acting /\ GotoWith(w, p, j)
    BY Zenon DEF Quiet, MovesTo
  <2>2. pc \in [Worker -> PC] /\ job \in [Worker -> Job]
    BY Zenon, XFacts DEF WorkerTypeOK
  <2>3. /\ pc'[w] \notin Acting
        /\ \A v \in Worker : v # w => pc'[v] = pc[v] /\ job'[v] = job[v]
    BY Zenon, <2>1, <2>2 DEF GotoWith
  <2> QED BY Zenon, <2>3 DEF TakesFree
<1> QED BY <1>2, <1>3

-----------------------------------------------------------------------------
(* The step body of start: the worker changes the step it owns.            *)

(* What the owner of a step starts from.                                   *)
LEMMA OwnedFacts ==
    ASSUME XInv, NEW w \in Worker, pc[w] \in Acting
    PROVE  /\ job[w].run \in Run /\ job[w].step \in Steps
           /\ stepStatus[job[w].run][job[w].step] \notin {"succeeded", "failed"}
           /\ effectState[job[w].run][job[w].step] # "effect-unknown"
<1>1. /\ job[w].run \in Run /\ job[w].step \in Steps
      /\ stepStatus[job[w].run][job[w].step] = "running"
  BY Zenon, XFacts, OwnerFacts
<1>2. ActingOK(pc[w], job[w])
  BY Zenon, XFacts, JobFacts
<1>3. effectState[job[w].run][job[w].step] \in {"intent-recorded", "receipt-recorded"}
  BY Zenon, <1>2 DEF ActingOK, OwnedStep, Acting
<1> QED BY <1>1, <1>3

(* The owner changes no row.                                               *)
LEMMA MoveSafe ==
    ASSUME XInv, NEW w \in Worker, pc[w] \in Acting, StaysAt(w, job[w].run, job[w].step),
           UNCHANGED <<stepStatus, effectState, landed>>
    PROVE  RowSafe /\ ClaimsSafe /\ ClaimsAlone /\ TakesFree
<1>1. job[w].run \in Run /\ job[w].step \in Steps
  BY Zenon, OwnedFacts
<1>2. OthersKept(job[w].run, job[w].step) /\ Untouched(job[w].run, job[w].step)
  BY Zenon DEF OthersKept, Untouched
<1> QED BY Zenon, <1>1, <1>2, OwnSafe

LEMMA ReturnStays == ASSUME NEW w, NEW r, NEW i, Return(w) PROVE StaysAt(w, r, i)
<1>1. "idle" \notin Acting
  BY SMTT(30) DEF Acting
<1> QED BY Zenon, <1>1 DEF Return, StaysAt

LEMMA GotoStays ==
    ASSUME NEW w, NEW p, Goto(w, p) PROVE StaysAt(w, job[w].run, job[w].step)
BY Zenon DEF Goto, StaysAt

LEMMA CloseStays ==
    ASSUME NEW w, NEW to, CloseAs(w, to) PROVE StaysAt(w, job[w].run, job[w].step)
<1>1. PICK j : j = [JobAt(job[w].run, job[w].step) EXCEPT !.to = to]
  BY Zenon
<1>2. j.run = job[w].run /\ j.step = job[w].step
  BY <1>1 DEF JobAt
<1>3. GotoWith(w, "close", j)
  BY Zenon, <1>1 DEF CloseAs
<1> QED BY Zenon, <1>2, <1>3 DEF StaysAt

LEMMA BeginSafe ==
    ASSUME XInv, NEW w \in Worker, Begin(w)
    PROVE  RowSafe /\ ClaimsSafe /\ ClaimsAlone /\ TakesFree
<1>1. PICK r, i : r = job[w].run /\ i = job[w].step
  BY Zenon
<1>2. pc[w] = "begin" /\ landed' = landed
  BY Zenon DEF Begin
<1>3. RowTypeOK /\ r \in Run /\ i \in Steps
  BY Zenon, <1>1, <1>2, XFacts, JobFacts DEF JobOK
<1>4. CASE BeginAllowed(r, i, w) /\ BeginStep(r, i) /\ Goto(w, "begun")
  <2>1. OthersKept(r, i)
    BY Zenon, <1>2, <1>3, <1>4 DEF BeginStep, RowTypeOK, OthersKept
  <2>2. stepStatus[r][i] \notin {"succeeded", "failed"} /\ effectState[r][i] = "not-started"
    BY Zenon, <1>4 DEF BeginAllowed
  <2>3. StaysAt(w, r, i)
    BY Zenon, <1>1, <1>4, GotoStays
  <2> QED BY Zenon, <1>1, <1>3, <2>1, <2>2, <2>3, OwnSafe
<1>5. CASE Return(w) /\ UNCHANGED <<runVars, keys, late>>
  <2>1. Quiet(w)
    <3>1. Calm
      BY Zenon, <1>5 DEF Begin, Calm, worldVars
    <3>2. RowsOK /\ LeaseTypeOK'
      BY Zenon, <1>5, XFacts, SameRows, SameLeases DEF Begin
    <3> QED BY Zenon, <3>1, <3>2, <1>5, QuietReturn, XFacts
  <2> QED BY Zenon, <2>1, QuietSafe
<1> QED BY <1>1, <1>4, <1>5 DEF Begin

(* Dispatch, Execute and the replies of start that touch no row.           *)
LEMMA ExecuteSafe ==
    ASSUME XInv, NEW w \in Worker, Dispatch(w) \/ Execute(w)
    PROVE  RowSafe /\ ClaimsSafe /\ ClaimsAlone /\ TakesFree
<1>1. pc[w] \in Acting /\ UNCHANGED <<stepStatus, effectState, landed>>
  BY Zenon DEF Dispatch, Execute, Acting, storeVars, runVars, worldVars
<1>2. StaysAt(w, job[w].run, job[w].step)
  <2>1. CASE Dispatch(w)
    BY Zenon, <2>1, CloseStays, GotoStays DEF Dispatch
  <2>2. CASE Execute(w)
    <3>1. PICK out, observed : GotoWith(w, "returned",
                                  [job[w] EXCEPT !.out = out, !.observed = observed])
      BY Zenon, <2>2 DEF Execute
    <3>2. PICK j : j = [job[w] EXCEPT !.out = out, !.observed = observed]
      OBVIOUS
    <3>3. job[w] \in Job
      BY Zenon, XFacts, JobFacts
    <3>4. j.run = job[w].run /\ j.step = job[w].step
      BY <3>2, <3>3 DEF Job
    <3> QED BY Zenon, <3>1, <3>2, <3>4 DEF StaysAt
  <2> QED BY <2>1, <2>2
<1> QED BY Zenon, <1>1, <1>2, MoveSafe

LEMMA EffectLandsSafe ==
    ASSUME XInv, NEW w \in Worker, EffectLands(w)
    PROVE  RowSafe /\ ClaimsSafe /\ ClaimsAlone /\ TakesFree
<1>1. PICK r, i, j : /\ r = job[w].run /\ i = job[w].step
                     /\ j = [job[w] EXCEPT !.changed = TRUE]
  BY Zenon
<1>2. pc[w] \in Acting /\ stepStatus' = stepStatus /\ effectState' = effectState
  BY Zenon DEF EffectLands, Acting, storeVars, runVars
<1>3. /\ r \in Run /\ i \in Steps
      /\ stepStatus[r][i] \notin {"succeeded", "failed"} /\ effectState[r][i] # "effect-unknown"
  BY Zenon, <1>1, <1>2, OwnedFacts
<1>4. j.run = r /\ j.step = i
  <2>1. job[w] \in Job
    BY Zenon, XFacts, JobFacts
  <2> QED BY <1>1, <2>1 DEF Job
<1>5. StaysAt(w, r, i)
  BY Zenon, <1>1, <1>4 DEF StaysAt, EffectLands
<1>6. OthersKept(r, i)
  <2>1. landed' = [landed EXCEPT ![r][i] = @ + 1]
    BY Zenon, <1>1 DEF EffectLands
  <2>2. landed \in [Run -> [Steps -> Nat]]
    BY Zenon, XFacts
  <2> QED BY Zenon, <1>2, <1>3, <2>1, <2>2 DEF OthersKept
<1> QED BY Zenon, <1>1, <1>2, <1>3, <1>5, <1>6, OwnSafe

LEMMA ReturnedSafe ==
    ASSUME XInv, NEW w \in Worker, Returned(w)
    PROVE  RowSafe /\ ClaimsSafe /\ ClaimsAlone /\ TakesFree
<1>1. PICK r, i : r = job[w].run /\ i = job[w].step
  BY Zenon
<1>2. pc[w] \in Acting /\ landed' = landed
  BY Zenon DEF Returned, Acting, worldVars
<1>3. /\ r \in Run /\ i \in Steps
      /\ stepStatus[r][i] \notin {"succeeded", "failed"} /\ effectState[r][i] # "effect-unknown"
  BY Zenon, <1>1, <1>2, OwnedFacts
<1>4. CASE UNCHANGED runVars
  <2>1. StaysAt(w, job[w].run, job[w].step)
    BY Zenon, CloseStays, GotoStays, ReturnStays DEF Returned
  <2> QED BY Zenon, <1>2, <1>4, <2>1, MoveSafe DEF runVars
<1>5. CASE RecordReceipt(r, i) /\ Goto(w, "verify")
  <2>1. OthersKept(r, i)
    BY Zenon, <1>2, <1>3, <1>5, XFacts DEF RecordReceipt, RowTypeOK, OthersKept
  <2>2. StaysAt(w, r, i)
    BY Zenon, <1>1, <1>5, GotoStays
  <2> QED BY Zenon, <1>1, <1>2, <1>3, <2>1, <2>2, OwnSafe
<1> QED BY Zenon, <1>1, <1>4, <1>5 DEF Returned

LEMMA VerifySafe ==
    ASSUME XInv, NEW w \in Worker, Verify(w)
    PROVE  RowSafe /\ ClaimsSafe /\ ClaimsAlone /\ TakesFree
<1>1. PICK r, i : r = job[w].run /\ i = job[w].step
  BY Zenon
<1>2. pc[w] \in Acting /\ landed' = landed
  BY Zenon DEF Verify, Acting, worldVars
<1>3. /\ r \in Run /\ i \in Steps
      /\ stepStatus[r][i] \notin {"succeeded", "failed"} /\ effectState[r][i] # "effect-unknown"
  BY Zenon, <1>1, <1>2, OwnedFacts
<1>4. CASE UNCHANGED runVars
  <2>1. StaysAt(w, job[w].run, job[w].step)
    BY Zenon, CloseStays, GotoStays, ReturnStays DEF Verify
  <2> QED BY Zenon, <1>2, <1>4, <2>1, MoveSafe DEF runVars
<1>5. CASE FinishStep(r, i, job[w].out, job[w].changed) /\ Goto(w, "release")
  <2>1. OthersKept(r, i)
    BY Zenon, <1>2, <1>3, <1>5, XFacts DEF FinishStep, RowTypeOK, OthersKept
  <2>2. StaysAt(w, r, i)
    BY Zenon, <1>1, <1>5, GotoStays
  <2> QED BY Zenon, <1>1, <1>2, <1>3, <2>1, <2>2, OwnSafe
<1> QED BY Zenon, <1>1, <1>4, <1>5 DEF Verify

LEMMA CloseSafe ==
    ASSUME XInv, NEW w \in Worker, Close(w)
    PROVE  RowSafe /\ ClaimsSafe /\ ClaimsAlone /\ TakesFree
<1>1. PICK r, i, to : r = job[w].run /\ i = job[w].step /\ to = job[w].to
  BY Zenon
<1>2. pc[w] \in Acting /\ landed' = landed
  BY Zenon DEF Close, Acting, worldVars
<1>3. /\ r \in Run /\ i \in Steps
      /\ stepStatus[r][i] \notin {"succeeded", "failed"} /\ effectState[r][i] # "effect-unknown"
  BY Zenon, <1>1, <1>2, OwnedFacts
<1>4. StaysAt(w, r, i)
  BY Zenon, <1>1, GotoStays, ReturnStays DEF Close
<1>5. CASE UNCHANGED runVars
  BY Zenon, <1>1, <1>2, <1>4, <1>5, MoveSafe DEF runVars
<1>6. CASE CloseStep(r, i, to) /\ CloseKey(r, i, to) \notin keys
  <2>1. OthersKept(r, i)
    <3>1. PICK e : /\ stepStatus' = [stepStatus EXCEPT ![r][i] = to]
                   /\ effectState' = [effectState EXCEPT ![r][i] = e]
      BY Zenon, <1>6 DEF CloseStep
    <3> QED BY Zenon, <1>2, <1>3, <3>1, XFacts DEF RowTypeOK, OthersKept
  <2> QED BY Zenon, <1>1, <1>2, <1>3, <1>4, <2>1, OwnSafe
<1> QED BY Zenon, <1>1, <1>5, <1>6 DEF Close, CloseStep

-----------------------------------------------------------------------------
(* Every step of the engine, the clock and the process.                    *)

LEMMA WorkSafe ==
    ASSUME XInv, NEW w \in Worker, Work(w)
    PROVE  RowSafe /\ ClaimsSafe /\ ClaimsAlone /\ TakesFree
<1> USE XFacts
<1>1. CASE ActivateRefused(w) \/ Start(w) \/ ResumeStart(w) \/ CancelAs(w)
  BY Zenon, <1>1, QuietOpening, QuietStart, QuietResumeStart, QuietCancelAs, QuietSafe DEF
     Start
<1>2. CASE Loop(w) \/ AdapterUnavailable(w) \/ LoopStopped(w) \/ Complete(w) \/ Settle(w)
  BY Zenon, <1>2, QuietLoop, QuietUnavailable, QuietStopped, QuietComplete, QuietSettle,
     QuietSafe
<1>3. CASE ReleaseLast(w) \/ Acquire(w) \/ Release(w) \/ ReleaseAll(w)
  BY Zenon, <1>3, QuietReleases, QuietAcquire, QuietRelease, QuietSafe
<1>4. CASE Begin(w) \/ Dispatch(w) \/ EffectLands(w) \/ Execute(w)
  BY Zenon, <1>4, BeginSafe, ExecuteSafe, EffectLandsSafe
<1>5. CASE Returned(w) \/ Verify(w) \/ Close(w)
  BY Zenon, <1>5, ReturnedSafe, VerifySafe, CloseSafe
<1> QED BY Zenon, <1>1, <1>2, <1>3, <1>4, <1>5 DEF Work

LEMMA RequestSafe ==
    ASSUME XInv, NEW w \in Worker, NEW r \in Run, Request(w, r)
    PROVE  RowSafe /\ ClaimsSafe /\ ClaimsAlone /\ TakesFree
BY Zenon, XFacts, QuietRequest, QuietSafe

(* Steps that leave every worker where it is, or stop it.                  *)
LEMMA ServerSafe ==
    ASSUME XInv, Tick \/ Shutdown \/ Crash \/ Restart \/ Reconcile
    PROVE  RowSafe /\ ClaimsSafe /\ TakesFree
<1>a. \A r \in Run, i \in Steps : Claimed(r, i) => effectState[r][i] # "not-started"
  BY Zenon DEF XInv, ClaimInv, ClaimOK
<1>b. /\ landed' = landed
      /\ pc' = pc \/ pc' = [w \in Worker |-> "idle"]
      /\ job' = job \/ Tick \/ Crash
  BY Zenon DEF Tick, Shutdown, Crash, Restart, Reconcile, ReconcileRelease, ReconcileMark,
     ReconcileSettle, ReconcileDone, workerVars, worldVars
<1>1. TakesFree
  <2>1. CASE Tick
    BY Zenon, <2>1, XFacts, TickJob DEF TakesFree, Tick
  <2>2. CASE Crash
    <3>1. "idle" \notin Acting
      BY SMTT(30) DEF Acting
    <3> QED BY Zenon, <2>2, <3>1 DEF TakesFree, Crash
  <2>3. CASE job' = job
    <3>1. "idle" \notin Acting
      BY SMTT(30) DEF Acting
    <3> QED BY Zenon, <1>b, <2>3, <3>1 DEF TakesFree
  <2> QED BY <1>b, <2>1, <2>2, <2>3
<1>2. CASE UNCHANGED <<stepStatus, effectState>>
  BY Zenon, <1>a, <1>b, <1>1, <1>2 DEF RowSafe, ClaimsSafe
<1>3. ASSUME NEW r \in Run, ReconcileSettle(r) PROVE RowSafe /\ ClaimsSafe
  <2>1. CASE status[r] = "running"
    <3> DEFINE chg == changed[r] \/ Verdict(r) = "partial"
    <3>1. TransitionRun(r, "running", Verdict(r), chg) /\ chg \in BOOLEAN
          /\ "running" \in RunStatus
      BY <1>3, <2>1, Zenon DEF ReconcileSettle, RunStatus
    <3> HIDE DEF chg
    <3>2. RowsKept
      BY <3>1, XFacts, VerdictFacts, TransitionFacts, Zenon
    <3> QED BY Zenon, <1>b, <3>2, KeptSafe
  <2>2. CASE status[r] # "running"
    BY Zenon, <1>a, <1>b, <1>3, <2>2 DEF ReconcileSettle, runVars, RowSafe, ClaimsSafe
  <2> QED BY <2>1, <2>2
<1>4. ASSUME NEW r \in Run, NEW i \in Steps, ReconcileMark(r, i) PROVE RowSafe /\ ClaimsSafe
  <2>1. CASE CloseKey(r, i, "partial") \in keys
    BY Zenon, <1>a, <1>b, <1>4, <2>1 DEF ReconcileMark, CloseStep, runVars, RowSafe, ClaimsSafe
  <2>2. CASE CloseKey(r, i, "partial") \notin keys
    <3>1. CloseStep(r, i, "partial") /\ stepStatus[r][i] = "running"
      BY Zenon, <1>4 DEF ReconcileMark, InFlight
    <3>2. /\ stepStatus' = [stepStatus EXCEPT ![r][i] = "partial"]
          /\ effectState' = [effectState EXCEPT ![r][i] = "effect-unknown"]
      BY Zenon, <2>2, <3>1 DEF CloseStep
    <3>3. RowTypeOK
      BY Zenon, XFacts
    <3>4. ASSUME NEW q \in Run, NEW k \in Steps
          PROVE  /\ stepStatus[q][k] \in {"succeeded", "failed"} =>
                    stepStatus'[q][k] = stepStatus[q][k]
                 /\ effectState'[q][k] \in {effectState[q][k], "effect-unknown"}
      BY <1>4, <3>1, <3>2, <3>3, SMTT(30) DEF RowTypeOK
    <3> QED BY <1>a, <1>b, <3>4, SMTT(30) DEF RowSafe, ClaimsSafe
  <2> QED BY <2>1, <2>2
<1> QED
  BY Zenon, <1>1, <1>2, <1>3, <1>4
     DEF Tick, Shutdown, Crash, Restart, Reconcile, ReconcileRelease, ReconcileDone,
         storeVars, runVars

LEMMA LeaseSafe ==
    ASSUME XInv,
           \/ \E w \in Worker : Work(w) \/ \E r \in Run : Request(w, r)
           \/ Tick \/ Shutdown \/ Crash \/ Restart \/ Reconcile
    PROVE  NoNewLease
<1>1. ASSUME NEW w \in Worker, Acquire(w) PROVE NoNewLease
  <2>1. PICK l : l = LeaseOf(job[w].run, job[w].step, w)
    BY Zenon
  <2>2. lease' \subseteq lease \cup {l}
    BY Zenon, <1>1, <2>1 DEF Acquire, AcquireTargetLease, leaseVars
  <2>3. l.holder = w
    BY <2>1, SMTT(30) DEF LeaseOf
  <2> QED BY Zenon, <2>2, <2>3 DEF NoNewLease
<1>2. ASSUME NEW w \in Worker, ReleaseLast(w) \/ ReleaseAll(w) \/ Release(w)
      PROVE  NoNewLease
  BY Zenon, <1>2 DEF ReleaseLast, ReleaseAll, Release, ReleaseRunLeases, ReleaseTargetLease,
     leaseVars, NoNewLease
<1>3. ASSUME NEW r \in Run, ReconcileRelease(r) PROVE NoNewLease
  BY Zenon, <1>3 DEF ReconcileRelease, ReleaseRunLeases, NoNewLease
<1>4. CASE lease' = lease
  BY Zenon, <1>4 DEF NoNewLease
<1>5. ASSUME NEW w \in Worker, NEW r \in Run, Request(w, r) PROVE lease' = lease
  BY Zenon, <1>5 DEF Request, Submit, Create, Resume, Cancel, storeVars, leaseVars
<1>6. ASSUME NEW w \in Worker,
             \/ ActivateRefused(w) \/ Start(w) \/ ResumeStart(w)
             \/ CancelAs(w) \/ Loop(w) \/ AdapterUnavailable(w) \/ LoopStopped(w)
      PROVE  lease' = lease
  BY Zenon, <1>6 DEF ActivateRefused, Start, StartCentral, StartExternal, ResumeStart,
     CancelAs, Loop, AdapterUnavailable, LoopStopped, storeVars, leaseVars
<1>7. ASSUME NEW w \in Worker,
             \/ Begin(w) \/ Dispatch(w) \/ EffectLands(w) \/ Execute(w)
             \/ Returned(w) \/ Verify(w) \/ Complete(w) \/ Close(w) \/ Settle(w)
      PROVE  lease' = lease
  BY Zenon, <1>7 DEF Begin, Dispatch, EffectLands, Execute, Returned, Verify, Complete,
     Close, Settle, storeVars, leaseVars
<1>8. CASE Tick \/ Shutdown \/ Crash \/ Restart
  BY Zenon, <1>4, <1>8 DEF Tick, Shutdown, Crash, Restart, storeVars, leaseVars
<1>9. CASE Reconcile
  BY Zenon, <1>3, <1>4, <1>9 DEF Reconcile, ReconcileSettle, ReconcileMark, ReconcileDone,
     storeVars, leaseVars
<1> QED BY Zenon, <1>1, <1>2, <1>4, <1>5, <1>6, <1>7, <1>8, <1>9 DEF Work

-----------------------------------------------------------------------------
(* What the executor's part of the invariant needs of a step.              *)

(* No claim is taken back.                                                 *)
ClaimsGrow == \A r \in Run, i \in Steps : Claimed(r, i) => Claimed(r, i)'

(* What a handler holds stays true while others take their steps.          *)
LEMMA HandlerStable ==
    ASSUME RowSafe, ClaimsGrow, NEW p, NEW j \in HandlerJob, HandlerOK(p, j)
    PROVE  HandlerOK(p, j)'
<1>1. /\ j.run \in Run /\ j.step \in Steps /\ j.list \subseteq Run \X Steps
  BY SMTT(30) DEF HandlerJob
<1>2. \A q \in j.list : q[1] \in Run /\ q[2] \in Steps
  BY <1>1, SMTT(30)
<1>3. \A k \in 1 .. (j.step - 1) : k \in Steps
  BY <1>1, NStepsAssumption DEF Steps
<1>4. \A q \in j.list : Claimed(q[1], q[2])'
  BY Zenon, <1>2 DEF HandlerOK, ClaimsGrow
<1>5. p \in AtStep => Claimed(j.run, j.step)'
  BY Zenon, <1>1 DEF HandlerOK, ClaimsGrow
<1>6. p = "claimTx" => \A k \in 1 .. (j.step - 1) : stepStatus'[j.run][k] = "succeeded"
  BY Zenon, <1>1, <1>3 DEF HandlerOK, RowSafe
<1>7. p \in {"release", "settle"} /\ j.to = "succeeded" =>
         \A k \in Steps : stepStatus'[j.run][k] = "succeeded"
  BY Zenon, <1>1 DEF HandlerOK, RowSafe
<1> QED BY Zenon, <1>4, <1>5, <1>6, <1>7 DEF HandlerOK

(* A handler that moves must hold what its next call relies on.            *)
LEMMA HandlerMoves ==
    ASSUME XInv, RowSafe, ClaimsGrow, NEW h \in Handler, NEW p \in HPC, NEW j \in HandlerJob,
           HGotoWith(h, p, j), HandlerOK(p, j)'
    PROVE  hpc' \in [Handler -> HPC] /\ hj' \in [Handler -> HandlerJob] /\ HandlerInv'
<1>1. hpc \in [Handler -> HPC] /\ hj \in [Handler -> HandlerJob]
  BY Zenon DEF XInv, XTyped
<1>2. /\ hpc' = [hpc EXCEPT ![h] = p] /\ hj' = [hj EXCEPT ![h] = j]
  BY Zenon DEF HGotoWith
<1>3. hpc' \in [Handler -> HPC] /\ hj' \in [Handler -> HandlerJob]
  BY Zenon, <1>1, <1>2
<1>4. HandlerInv'
  <2> SUFFICES ASSUME NEW g \in Handler PROVE HandlerOK(hpc[g], hj[g])'
    BY Zenon DEF HandlerInv
  <2>1. CASE g = h
    <3>1. hpc'[g] = p /\ hj'[g] = j
      BY Zenon, <1>1, <1>2, <2>1
    <3> QED BY Zenon, <3>1 DEF HandlerOK
  <2>2. CASE g # h
    <3>1. PICK q, m : q = hpc[g] /\ m = hj[g]
      BY Zenon
    <3>2. hpc'[g] = q /\ hj'[g] = m /\ m \in HandlerJob
      BY Zenon, <1>1, <1>2, <2>2, <3>1
    <3>3. HandlerOK(q, m)
      BY Zenon, <3>1 DEF XInv, HandlerInv
    <3>4. HandlerOK(q, m)'
      BY Zenon, <3>2, <3>3, HandlerStable
    <3> QED BY Zenon, <3>2, <3>4 DEF HandlerOK
  <2> QED BY <2>1, <2>2
<1> QED BY <1>3, <1>4

LEMMA IdleHandlerType == IdleHandlerJob \in HandlerJob
<1>1. (CHOOSE r \in Run : TRUE) \in Run
  BY Zenon, RunAssumption
<1>2. 1 \in Steps
  BY NStepsAssumption DEF Steps
<1> QED BY <1>1, <1>2, SMTT(30)
        DEF IdleHandlerJob, NewHandlerJob, HandlerJob, ReceiptStatus, RunStatus

LEMMA HandlerReturns ==
    ASSUME XInv, RowSafe, ClaimsGrow, NEW h \in Handler, HReturn(h)
    PROVE  hpc' \in [Handler -> HPC] /\ hj' \in [Handler -> HandlerJob] /\ HandlerInv'
<1>1. "idle" \in HPC
  BY Zenon DEF HPC
<1>2. HandlerOK("idle", IdleHandlerJob)'
  <2>1. IdleHandlerJob.list = {}
    BY DEF IdleHandlerJob, NewHandlerJob
  <2> QED BY <2>1, SMTT(30) DEF HandlerOK, AtStep
<1> QED BY Zenon, <1>1, <1>2, IdleHandlerType, HandlerMoves DEF HReturn

(* The lease rows keep what the invariant says of them.                    *)
LeasesRemain ==
    \A r \in Run, i \in Steps :
       /\ xlease'[r][i].claimed = xlease[r][i].claimed
       /\ xlease'[r][i].expired => xlease[r][i].expired \/ Active(r, i)
       /\ xlease'[r][i].worked = xlease[r][i].worked

LEMMA RemainGrow == ASSUME LeasesRemain PROVE ClaimsGrow
BY Zenon DEF LeasesRemain, ClaimsGrow, Claimed

(* Before a step there are only steps.                                     *)
LEMMA EarlierSteps == ASSUME NEW i \in Steps PROVE \A k \in 1 .. (i - 1) : k \in Steps
BY NStepsAssumption DEF Steps

LEMMA WorkerNotX == X \notin Worker
BY Zenon, ExecutorAssumption

(* A step of the engine keeps the executor's claims apart from its own.    *)
LEMMA EngineKeepsClaims ==
    ASSUME XInv, RowSafe, ClaimsSafe, TakesFree, NoNewLease, LeasesRemain, IInv'
    PROVE  ClaimInv' /\ ApartInv'
<1>1. ClaimInv'
  <2> SUFFICES ASSUME NEW r \in Run, NEW i \in Steps PROVE ClaimOK(r, i)'
    BY Zenon DEF ClaimInv
  <2>1. ClaimOK(r, i)
    BY Zenon DEF XInv, ClaimInv
  <2>2. /\ Claimed(r, i)' = Claimed(r, i)
        /\ xlease'[r][i].expired => xlease[r][i].expired \/ Active(r, i)
        /\ xlease'[r][i].worked = xlease[r][i].worked
    BY Zenon DEF LeasesRemain, Claimed
  <2>3. Active(r, i)' => Active(r, i)
    <3>1. LeaseOf(r, i, X).holder = X
      BY DEF LeaseOf
    <3>2. LeaseOf(r, i, X) \in lease' => LeaseOf(r, i, X) \in lease
      BY Zenon, <3>1, WorkerNotX DEF NoNewLease
    <3> QED BY <3>2, Zenon DEF Active
  <2>4. Claimed(r, i) => /\ effectState'[r][i] # "not-started"
                         /\ landed'[r][i] = landed[r][i]
                         /\ \A k \in 1 .. (i - 1) : stepStatus'[r][k] = "succeeded"
    BY Zenon, <2>1, EarlierSteps DEF ClaimsSafe, RowSafe, ClaimOK
  <2>5. Active(r, i)' \/ xlease'[r][i].expired => Claimed(r, i)'
    BY Zenon, <2>1, <2>2, <2>3 DEF ClaimOK
  <2>6. Claimed(r, i)' =>
          /\ effectState'[r][i] # "not-started"
          /\ ~xlease'[r][i].worked => landed'[r][i] = 0
          /\ \A k \in 1 .. (i - 1) : stepStatus'[r][k] = "succeeded"
    BY Zenon, <2>1, <2>2, <2>4 DEF ClaimOK
  <2> QED BY Zenon, <2>5, <2>6 DEF ClaimOK
<1>2. ApartInv'
  <2> SUFFICES ASSUME NEW w \in Worker, pc'[w] \in Acting
               PROVE  ~Claimed(job[w].run, job[w].step)'
    BY Zenon DEF ApartInv
  <2>1. job'[w].run \in Run /\ job'[w].step \in Steps
    <3>1. job'[w] \in Job /\ JobOK(pc'[w], job'[w])
      BY Zenon DEF IInv, LocalInv, TypeOK, JobInv, JobOK
    <3>2. pc'[w] # "loop"
      BY SMTT(30) DEF Acting
    <3> QED BY <3>1, <3>2, Zenon DEF JobOK, Job
  <2>2. PICK r \in Run, i \in Steps : r = job'[w].run /\ i = job'[w].step
    BY Zenon, <2>1
  <2>3. \/ pc[w] \in Acting /\ r = job[w].run /\ i = job[w].step
        \/ effectState[r][i] = "not-started"
    BY Zenon, <2>2 DEF TakesFree
  <2>4. ~Claimed(r, i)
    BY Zenon, <2>3 DEF XInv, ApartInv, ClaimInv, ClaimOK
  <2> QED BY Zenon, <2>2, <2>4 DEF LeasesRemain, Claimed
<1> QED BY <1>1, <1>2

LEMMA EngineStepKeeps ==
    ASSUME XInv, EngineStep PROVE XInv' /\ RowSafe
<1>1. /\ \/ \E w \in Worker : Work(w) \/ \E r \in Run : Request(w, r)
         \/ Shutdown \/ Restart \/ Reconcile
      /\ xlease' = xlease /\ hpc' = hpc /\ hj' = hj
  BY Zenon DEF EngineStep, handlerVars
<1>2. RowSafe /\ ClaimsSafe /\ TakesFree
  BY Zenon, <1>1, WorkSafe, RequestSafe, ServerSafe
<1>3. NoNewLease
  BY Zenon, <1>1, LeaseSafe
<1>4. IInv'
  BY Zenon, <1>1, XFacts, NextIInv DEF Next
<1>5. LeasesRemain
  BY Zenon, <1>1 DEF LeasesRemain
<1>6. ClaimInv' /\ ApartInv'
  BY Zenon, <1>2, <1>3, <1>4, <1>5, EngineKeepsClaims
<1>7. HandlerInv'
  <2> SUFFICES ASSUME NEW h \in Handler PROVE HandlerOK(hpc[h], hj[h])'
    BY Zenon DEF HandlerInv
  <2>1. PICK p, j : p = hpc[h] /\ j = hj[h]
    BY Zenon
  <2>2. HandlerOK(p, j) /\ j \in HandlerJob
    BY Zenon, <2>1 DEF XInv, HandlerInv, XTyped
  <2>3. HandlerOK(p, j)'
    BY Zenon, <1>2, <1>5, <2>2, HandlerStable, RemainGrow
  <2> QED BY Zenon, <1>1, <2>1, <2>3 DEF HandlerOK
<1>8. XTyped'
  BY Zenon, <1>1 DEF XInv, XTyped
<1> QED BY Zenon, <1>2, <1>4, <1>6, <1>7, <1>8 DEF XInv

LEMMA CountDownType ==
    ASSUME NEW m \in Nat, NEW n \in 0 .. m PROVE CountDown(n) \in 0 .. m
BY DEF CountDown

LEMMA TickKeepsX == ASSUME XInv, XTick PROVE XInv' /\ RowSafe
<1>1. /\ Tick /\ hpc' = hpc /\ hj' = hj
      /\ xlease' = [r \in Run |-> [i \in Steps |->
                      [xlease[r][i] EXCEPT !.left = CountDown(@), !.next = CountDown(@)]]]
  BY Zenon DEF XTick, handlerVars
<1>2. RowSafe /\ ClaimsSafe /\ TakesFree /\ NoNewLease
  BY Zenon, <1>1, ServerSafe, LeaseSafe
<1>3. IInv'
  BY Zenon, <1>1, XFacts, NextIInv DEF Next
<1>4. ASSUME NEW r \in Run, NEW i \in Steps
      PROVE  /\ xlease'[r][i] \in LeaseRow
             /\ xlease'[r][i].claimed = xlease[r][i].claimed
             /\ xlease'[r][i].expired = xlease[r][i].expired
             /\ xlease'[r][i].worked = xlease[r][i].worked
  <2>1. PICK row \in LeaseRow : row = xlease[r][i]
    BY Zenon DEF XInv, XTyped
  <2>2. CheckInSeconds \in Nat /\ LeaseSeconds \in Nat
    BY ExecutorAssumption, LeaseAssumption
  <2>3. row.left \in 0 .. LeaseSeconds /\ row.next \in 0 .. CheckInSeconds
    BY SMTT(30) DEF LeaseRow
  <2>4. PICK a, b : a = CountDown(row.left) /\ b = CountDown(row.next)
    BY Zenon
  <2>5. a \in 0 .. LeaseSeconds /\ b \in 0 .. CheckInSeconds
    BY <2>2, <2>3, <2>4, CountDownType
  <2>6. xlease'[r][i] = [row EXCEPT !.left = a, !.next = b]
    BY Zenon, <1>1, <2>1, <2>4
  <2>7. [row EXCEPT !.left = a, !.next = b] \in LeaseRow
    BY Zenon, <2>5 DEF LeaseRow
  <2>8. /\ [row EXCEPT !.left = a, !.next = b].claimed = row.claimed
        /\ [row EXCEPT !.left = a, !.next = b].expired = row.expired
        /\ [row EXCEPT !.left = a, !.next = b].worked = row.worked
    BY Zenon DEF LeaseRow
  <2> QED BY Zenon, <2>1, <2>6, <2>7, <2>8
<1>5. LeasesRemain
  BY Zenon, <1>4 DEF LeasesRemain
<1>6. ClaimInv' /\ ApartInv'
  BY Zenon, <1>2, <1>3, <1>5, EngineKeepsClaims
<1>7. HandlerInv'
  <2> SUFFICES ASSUME NEW h \in Handler PROVE HandlerOK(hpc[h], hj[h])'
    BY Zenon DEF HandlerInv
  <2>1. PICK p, j : p = hpc[h] /\ j = hj[h]
    BY Zenon
  <2>2. HandlerOK(p, j) /\ j \in HandlerJob
    BY Zenon, <2>1 DEF XInv, HandlerInv, XTyped
  <2>3. HandlerOK(p, j)'
    BY Zenon, <1>2, <1>5, <2>2, HandlerStable, RemainGrow
  <2> QED BY Zenon, <1>1, <2>1, <2>3 DEF HandlerOK
<1>8. XTyped'
  <2>1. xlease' \in [Run -> [Steps -> LeaseRow]]
    <3>1. ASSUME NEW r \in Run, NEW i \in Steps
          PROVE [xlease[r][i] EXCEPT !.left = CountDown(@), !.next = CountDown(@)] \in LeaseRow
      BY Zenon, <1>1, <1>4
    <3> QED BY Zenon, <1>1, <3>1
  <2> QED BY Zenon, <1>1, <2>1 DEF XInv, XTyped
<1> QED BY Zenon, <1>2, <1>3, <1>6, <1>7, <1>8 DEF XInv

LEMMA CrashKeepsX == ASSUME XInv, XCrash PROVE XInv' /\ RowSafe
<1>1. /\ Crash /\ xlease' = xlease
      /\ hpc' = [h \in Handler |-> "idle"] /\ hj' = [h \in Handler |-> IdleHandlerJob]
  BY Zenon DEF XCrash
<1>2. RowSafe /\ ClaimsSafe /\ TakesFree /\ NoNewLease
  BY Zenon, <1>1, ServerSafe, LeaseSafe
<1>3. IInv'
  BY Zenon, <1>1, XFacts, NextIInv DEF Next
<1>4. LeasesRemain
  BY Zenon, <1>1 DEF LeasesRemain
<1>5. ClaimInv' /\ ApartInv'
  BY Zenon, <1>2, <1>3, <1>4, EngineKeepsClaims
<1>6. HandlerInv'
  <2> SUFFICES ASSUME NEW h \in Handler PROVE HandlerOK(hpc[h], hj[h])'
    BY Zenon DEF HandlerInv
  <2>1. hpc'[h] = "idle" /\ hj'[h] = IdleHandlerJob
    BY Zenon, <1>1
  <2>2. IdleHandlerJob.list = {}
    BY DEF IdleHandlerJob, NewHandlerJob
  <2> QED BY <2>1, <2>2, SMTT(30) DEF HandlerOK, AtStep
<1>7. XTyped'
  BY Zenon, <1>1, IdleHandlerType DEF XInv, XTyped, HPC
<1> QED BY Zenon, <1>2, <1>3, <1>5, <1>6, <1>7 DEF XInv

-----------------------------------------------------------------------------
(* Steps of the handlers.  They move no worker.                            *)

(* The engine keeps its invariant when the rows its workers act on stay.   *)
LEMMA OutsideStep ==
    ASSUME XInv, UNCHANGED engineVars, RowTypeOK', LeaseTypeOK',
           landed' \in [Run -> [Steps -> Nat]], late' \in [Run -> Nat], RowSafe,
           \A w \in Worker : pc[w] \in Acting => Untouched(job[w].run, job[w].step),
           UntouchedInv', EffectAtMostOnce', VerifiedInv', SucceededIsVerified'
    PROVE  IInv' /\ TakesFree
<1>1. pc' = pc /\ job' = job /\ server' = server /\ pending' = pending
  BY Zenon DEF engineVars, workerVars
<1>2. IInv
  BY Zenon, XFacts
<1>3. TypeOK'
  BY Zenon, <1>1, <1>2 DEF IInv, LocalInv, TypeOK, StoreTypeOK, RowTypeOK, LeaseTypeOK
<1>4. JobInv' /\ DownInv' /\ OwnerInv'
  BY Zenon, <1>1, <1>2 DEF IInv, LocalInv, EffectInv, JobInv, JobOK, DownInv, OwnerInv
<1>5. ActingInv'
  <2> SUFFICES ASSUME NEW w \in Worker PROVE ActingOK(pc[w], job[w])'
    BY Zenon DEF ActingInv
  <2>1. ActingOK(pc[w], job[w])
    BY Zenon, <1>2, JobFacts
  <2>2. CASE pc[w] \in Acting
    BY Zenon, <1>1, <2>1, <2>2 DEF Untouched, ActingOK
  <2>3. CASE pc[w] \notin Acting
    BY Zenon, <1>1, <2>3 DEF ActingOK, OwnedStep, Acting
  <2> QED BY <2>2, <2>3
<1>6. PassedInv'
  <2> SUFFICES ASSUME NEW w \in Worker PROVE PassedOK(pc[w], job[w])'
    BY Zenon DEF PassedInv
  <2>1. job[w].run \in Run /\ PassedOK(pc[w], job[w]) /\ JobOK(pc[w], job[w])
    BY Zenon, <1>2, JobFacts
  <2>2. pc[w] = "release" => job[w].step \in Steps
    BY Zenon, <2>1 DEF JobOK
  <2> QED BY Zenon, <1>1, <2>1, <2>2 DEF PassedOK, RowSafe
<1>7. TakesFree
  BY Zenon, <1>1 DEF TakesFree
<1> QED BY Zenon, <1>3, <1>4, <1>5, <1>6, <1>7 DEF IInv, LocalInv, EffectInv, SuccessInv

(* A handler that leaves the steps in flight and done as they are.         *)
LEMMA CalmRows ==
    ASSUME XInv, UNCHANGED <<engineVars, worldVars>>, RowsOK, LeaseTypeOK'
    PROVE  IInv' /\ RowSafe /\ ClaimsSafe /\ TakesFree
<1>1. RowTypeOK' /\ RowsKept /\ StatusKept /\ landed' = landed /\ late' = late
  BY Zenon DEF RowsOK, worldVars
<1>2. RowSafe /\ ClaimsSafe
  BY Zenon, <1>1, KeptSafe
<1>3. landed' \in [Run -> [Steps -> Nat]] /\ late' \in [Run -> Nat]
  BY Zenon, <1>1, XFacts
<1>4. IInv
  BY Zenon, XFacts
<1>5. ASSUME NEW w \in Worker, pc[w] \in Acting PROVE Untouched(job[w].run, job[w].step)
  <2>1. /\ job[w].run \in Run /\ job[w].step \in Steps
        /\ stepStatus[job[w].run][job[w].step] = "running"
    BY Zenon, <1>4, <1>5, OwnerFacts
  <2> QED BY Zenon, <1>1, <2>1 DEF Untouched, RowsKept
<1>6. UntouchedInv' /\ EffectAtMostOnce' /\ VerifiedInv'
  <2>1. UntouchedInv /\ EffectAtMostOnce /\ VerifiedInv
    BY Zenon, <1>4 DEF IInv, EffectInv, SuccessInv
  <2>2. UntouchedInv'
    BY Zenon, <1>1, <2>1 DEF RowsKept, UntouchedInv
  <2>3. EffectAtMostOnce'
    BY Zenon, <1>1, <2>1 DEF EffectAtMostOnce
  <2>4. VerifiedInv'
    BY Zenon, <1>1, <2>1 DEF RowsKept, VerifiedInv
  <2> QED BY <2>2, <2>3, <2>4
<1>7. SucceededIsVerified'
  BY <1>1, <1>4, <1>6 DEF IInv, SuccessInv, SucceededIsVerified, StatusKept, RowsKept,
     VerifiedInv
<1> QED BY Zenon, <1>1, <1>2, <1>3, <1>5, <1>6, <1>7, OutsideStep

(* A handler that changes one step of the executor's.                      *)
LEMMA ClaimedRow ==
    ASSUME XInv, UNCHANGED <<engineVars, worldVars>>, RowTypeOK', LeaseTypeOK',
           NEW r \in Run, NEW i \in Steps, Claimed(r, i), OthersKept(r, i),
           status' = status, stepStatus[r][i] = "running",
           effectState'[r][i] # "not-started",
           stepStatus'[r][i] = "succeeded" => effectState'[r][i] = "verified",
           effectState[r][i] = "effect-unknown" => effectState'[r][i] = "effect-unknown"
    PROVE  IInv' /\ RowSafe /\ ClaimsSafe /\ TakesFree
<1>1. landed' = landed /\ late' = late
  BY Zenon DEF worldVars
<1>2. RowSafe
  BY Zenon DEF RowSafe, OthersKept
<1>3. ClaimsSafe
  <2> SUFFICES ASSUME NEW q \in Run, NEW k \in Steps, Claimed(q, k)
               PROVE  effectState'[q][k] # "not-started"
    BY Zenon, <1>1 DEF ClaimsSafe
  <2>1. effectState[q][k] # "not-started"
    BY Zenon DEF XInv, ClaimInv, ClaimOK
  <2> QED BY Zenon, <2>1 DEF OthersKept
<1>4. landed' \in [Run -> [Steps -> Nat]] /\ late' \in [Run -> Nat]
  BY Zenon, <1>1, XFacts
<1>5. IInv
  BY Zenon, XFacts
<1>6. ASSUME NEW w \in Worker, pc[w] \in Acting PROVE Untouched(job[w].run, job[w].step)
  <2>1. job[w].run \in Run /\ job[w].step \in Steps
    BY Zenon, <1>5, <1>6, OwnerFacts
  <2>2. ~(job[w].run = r /\ job[w].step = i)
    BY Zenon, <1>6 DEF XInv, ApartInv
  <2> QED BY Zenon, <2>1, <2>2 DEF Untouched, OthersKept
<1>7. UntouchedInv' /\ EffectAtMostOnce' /\ VerifiedInv'
  <2>1. UntouchedInv /\ EffectAtMostOnce /\ VerifiedInv
    BY Zenon, <1>5 DEF IInv, EffectInv, SuccessInv
  <2>2. UntouchedInv'
    <3> SUFFICES ASSUME NEW q \in Run, NEW k \in Steps, effectState'[q][k] = "not-started"
                 PROVE  landed'[q][k] = 0
      BY Zenon DEF UntouchedInv
    <3>1. q # r \/ k # i
      BY Zenon
    <3> QED BY ZenonT(30), <1>1, <2>1, <3>1 DEF OthersKept, UntouchedInv
  <2>3. EffectAtMostOnce'
    BY Zenon, <1>1, <2>1 DEF EffectAtMostOnce
  <2>4. VerifiedInv'
    BY ZenonT(30), <2>1 DEF OthersKept, VerifiedInv
  <2> QED BY <2>2, <2>3, <2>4
<1>8. SucceededIsVerified'
  BY <1>5, SMTT(30) DEF IInv, SuccessInv, SucceededIsVerified, OthersKept
<1> QED BY Zenon, <1>2, <1>3, <1>4, <1>6, <1>7, <1>8, OutsideStep

(* The handler goes on, holding what its next call relies on.              *)
HandlerGoes(h) ==
    \E p \in HPC, j \in HandlerJob : HGotoWith(h, p, j) /\ HandlerOK(p, j)'

LEMMA HandlerKeeps ==
    ASSUME XInv, IInv', RowSafe, ClaimsSafe, TakesFree, NoNewLease, LeasesRemain,
           xlease' \in [Run -> [Steps -> LeaseRow]], NEW h \in Handler, HandlerGoes(h)
    PROVE  XInv' /\ RowSafe
<1>1. ClaimInv' /\ ApartInv'
  BY Zenon, EngineKeepsClaims
<1>2. PICK p \in HPC, j \in HandlerJob : HGotoWith(h, p, j) /\ HandlerOK(p, j)'
  BY Zenon DEF HandlerGoes
<1>3. hpc' \in [Handler -> HPC] /\ hj' \in [Handler -> HandlerJob] /\ HandlerInv'
  BY Zenon, <1>2, RemainGrow, HandlerMoves
<1> QED BY Zenon, <1>1, <1>3 DEF XInv, XTyped

(* Ways on that need nothing new.                                          *)
LEMMA ReturnGoes == ASSUME NEW h, HReturn(h) PROVE HandlerGoes(h)
<1>1. "idle" \in HPC
  BY Zenon DEF HPC
<1>2. IdleHandlerJob.list = {}
  BY DEF IdleHandlerJob, NewHandlerJob
<1>3. HandlerOK("idle", IdleHandlerJob)'
  BY <1>2, SMTT(30) DEF HandlerOK, AtStep
<1> QED BY Zenon, <1>1, <1>3, IdleHandlerType DEF HReturn, HandlerGoes

(* A handler's own variables.                                              *)
LEMMA HandlerFacts ==
    ASSUME XInv, NEW h \in Handler
    PROVE  /\ hj[h] \in HandlerJob /\ hj[h].run \in Run /\ hj[h].step \in Steps
           /\ hj[h].list \subseteq Run \X Steps
           /\ hj[h].bound[1] \in Run /\ hj[h].bound[2] \in Steps
           /\ HandlerOK(hpc[h], hj[h])
<1>1. PICK j : j = hj[h]
  BY Zenon
<1>2. j \in HandlerJob /\ HandlerOK(hpc[h], j)
  BY Zenon, <1>1 DEF XInv, XTyped, HandlerInv
<1>3. /\ j.run \in Run /\ j.step \in Steps /\ j.list \subseteq Run \X Steps
      /\ j.bound \in Run \X Steps
  BY <1>2, SMTT(30) DEF HandlerJob
<1>4. j.bound[1] \in Run /\ j.bound[2] \in Steps
  BY <1>3, SMTT(30)
<1> QED BY Zenon, <1>1, <1>2, <1>3, <1>4

LEMMA GotoGoes ==
    ASSUME XInv, RowSafe, ClaimsGrow, NEW h \in Handler, NEW p \in HPC, HGoto(h, p),
           p \in AtStep => hpc[h] \in AtStep, p # "claimTx",
           p \in {"release", "settle"} => hpc[h] \in {"release", "settle"}
    PROVE  HandlerGoes(h)
<1>1. PICK j : j = hj[h]
  BY Zenon
<1>2. j \in HandlerJob /\ HandlerOK(hpc[h], j)
  BY Zenon, <1>1, HandlerFacts
<1>3. HandlerOK(p, j)
  BY Zenon, <1>2 DEF HandlerOK
<1>4. HandlerOK(p, j)'
  BY Zenon, <1>2, <1>3, HandlerStable
<1> QED BY Zenon, <1>1, <1>2, <1>4 DEF HGoto, HandlerGoes

LEMMA RecoveryGoes ==
    ASSUME XInv, RowSafe, ClaimsGrow, NEW h \in Handler, AfterRecovery(h)
    PROVE  HandlerGoes(h)
<1>1. /\ "closeLease" \in HPC /\ "each" \in HPC
      /\ "closeLease" \notin AtStep /\ "each" \notin AtStep
  BY SMTT(30) DEF HPC, AtStep
<1>2. CASE HGoto(h, "closeLease")
  BY <1>1, <1>2, GotoGoes, SMTT(30)
<1>3. CASE HGoto(h, "each")
  BY <1>1, <1>3, GotoGoes, SMTT(30)
<1>4. CASE HReturn(h)
  BY Zenon, <1>4, ReturnGoes
<1> QED BY Zenon, <1>2, <1>3, <1>4 DEF AfterRecovery

LEMMA NewJobType ==
    ASSUME NEW op \in {"sweep", "claim", "renew", "receipt"}, NEW r \in Run, NEW i \in Steps,
           NEW n \in Nat, NEW st \in ReceiptStatus, NEW j, j = NewHandlerJob(op, r, i, n, st)
    PROVE  /\ j \in HandlerJob /\ j.list = {} /\ j.run = r /\ j.step = i /\ j.to = "none"
BY SMTT(30) DEF NewHandlerJob, HandlerJob, RunStatus

(* A handler that only reads, or changes of the lease rows no more than    *)
(* their nonces, deadlines and receipts.                                   *)
LEMMA ReadKeeps ==
    ASSUME XInv, UNCHANGED vars, LeasesRemain, xlease' \in [Run -> [Steps -> LeaseRow]],
           NEW h \in Handler, HandlerGoes(h)
    PROVE  XInv' /\ RowSafe
<1>1. IInv'
  BY Zenon, XFacts, StutterKeeps
<1>2. /\ stepStatus' = stepStatus /\ effectState' = effectState /\ landed' = landed
      /\ lease' = lease /\ pc' = pc /\ job' = job
  BY Zenon DEF vars, storeVars, runVars, leaseVars, workerVars, worldVars
<1>3. RowSafe /\ ClaimsSafe
  <2>1. RowsKept
    BY Zenon, <1>2 DEF RowsKept
  <2> QED BY Zenon, <1>2, <2>1, KeptSafe
<1>4. TakesFree /\ NoNewLease
  BY Zenon, <1>2 DEF TakesFree, NoNewLease
<1> QED BY Zenon, <1>1, <1>3, <1>4, HandlerKeeps

LEMMA SameXLease ==
    ASSUME XInv, xlease' = xlease
    PROVE  LeasesRemain /\ ClaimsGrow /\ xlease' \in [Run -> [Steps -> LeaseRow]]
<1>1. LeasesRemain
  BY Zenon DEF LeasesRemain
<1> QED BY Zenon, <1>1, RemainGrow DEF XInv, XTyped

-----------------------------------------------------------------------------
(* Requests arrive, and handlers read.                                     *)

LEMMA StartKeeps ==
    ASSUME XInv, NEW h \in Handler, StartSweep(h) \/ StartClaim(h)
    PROVE  XInv' /\ RowSafe
<1>1. UNCHANGED vars /\ xlease' = xlease
  BY Zenon DEF StartSweep, StartClaim
<1>2. PICK j : /\ j = IdleHandlerJob \/ j = [IdleHandlerJob EXCEPT !.op = "claim"]
               /\ HGotoWith(h, "expire", j)
  BY Zenon DEF StartSweep, StartClaim
<1>3. j \in HandlerJob /\ j.list = {}
  <2>1. PICK m : m = IdleHandlerJob
    BY Zenon
  <2>2. m \in HandlerJob /\ m.list = {}
    <3>1. m.list = {}
      BY <2>1 DEF IdleHandlerJob, NewHandlerJob
    <3> QED BY Zenon, <2>1, <3>1, IdleHandlerType
  <2>3. j = m \/ j = [m EXCEPT !.op = "claim"]
    BY Zenon, <1>2, <2>1
  <2> QED BY <2>2, <2>3, SMTT(30) DEF HandlerJob
<1>4. "expire" \in HPC /\ HandlerOK("expire", j)'
  BY <1>3, SMTT(30) DEF HPC, HandlerOK, AtStep
<1>5. HandlerGoes(h)
  BY Zenon, <1>2, <1>3, <1>4 DEF HandlerGoes
<1> QED BY Zenon, <1>1, <1>5, SameXLease, ReadKeeps

LEMMA StartRenewKeeps ==
    ASSUME XInv, NEW h \in Handler, NEW r \in Run, NEW i \in Steps, NEW n \in Nat,
           StartRenew(h, r, i, n)
    PROVE  XInv' /\ RowSafe
<1>1. UNCHANGED vars /\ xlease' = xlease
  BY Zenon DEF StartRenew
<1>2. PICK j : j = NewHandlerJob("renew", r, i, n, "running") /\ HGotoWith(h, "expire", j)
  BY Zenon DEF StartRenew
<1>3. j \in HandlerJob /\ j.list = {}
  <2>1. "running" \in ReceiptStatus
    BY SMTT(30) DEF ReceiptStatus
  <2> QED BY ZenonT(30), <1>2, <2>1, NewJobType
<1>4. "expire" \in HPC /\ HandlerOK("expire", j)'
  BY <1>3, SMTT(30) DEF HPC, HandlerOK, AtStep
<1>5. HandlerGoes(h)
  BY Zenon, <1>2, <1>3, <1>4 DEF HandlerGoes
<1> QED BY Zenon, <1>1, <1>5, SameXLease, ReadKeeps

(* One lease row is updated and keeps what the invariant says of it.       *)
LEMMA RowUpdate ==
    ASSUME XInv, NEW r \in Run, NEW i \in Steps, NEW row \in LeaseRow,
           xlease' = [xlease EXCEPT ![r][i] = row],
           row.claimed = xlease[r][i].claimed, row.worked = xlease[r][i].worked,
           row.expired => xlease[r][i].expired \/ Active(r, i)
    PROVE  LeasesRemain /\ ClaimsGrow /\ xlease' \in [Run -> [Steps -> LeaseRow]]
<1>1. xlease \in [Run -> [Steps -> LeaseRow]]
  BY Zenon DEF XInv, XTyped
<1>2. xlease' \in [Run -> [Steps -> LeaseRow]]
  BY Zenon, <1>1
<1>3. ASSUME NEW q \in Run, NEW k \in Steps
      PROVE  \/ q = r /\ k = i /\ xlease'[q][k] = row
             \/ xlease'[q][k] = xlease[q][k]
  BY Zenon, <1>1
<1>4. LeasesRemain
  BY Zenon, <1>3 DEF LeasesRemain
<1> QED BY Zenon, <1>2, <1>4, RemainGrow

LEMMA StartReceiptKeeps ==
    ASSUME XInv, NEW h \in Handler, NEW r \in Run, NEW i \in Steps, NEW n \in Nat,
           NEW st \in ReceiptStatus, StartReceipt(h, r, i, n, st)
    PROVE  XInv' /\ RowSafe
<1>1. PICK row \in LeaseRow : row = xlease[r][i]
  BY Zenon DEF XInv, XTyped
<1>2. PICK new : new = [row EXCEPT !.sent = @ \/ st # "running"]
  BY Zenon
<1>3. /\ new \in LeaseRow /\ new.claimed = row.claimed /\ new.worked = row.worked
      /\ new.expired = row.expired
  <2>1. (row.sent \/ st # "running") \in BOOLEAN
    BY Zenon
  <2> QED BY Zenon, <1>1, <1>2, <2>1 DEF LeaseRow
<1>4. UNCHANGED vars /\ xlease' = [xlease EXCEPT ![r][i] = new]
  BY Zenon, <1>1, <1>2 DEF StartReceipt, XInv, XTyped
<1>5. /\ LeasesRemain /\ ClaimsGrow /\ xlease' \in [Run -> [Steps -> LeaseRow]]
  BY Zenon, <1>1, <1>3, <1>4, RowUpdate
<1>6. Claimed(r, i)'
  BY Zenon, <1>5 DEF StartReceipt, Claimed, ClaimsGrow
<1>7. PICK p, j : /\ HGotoWith(h, p, j) /\ p \in {"record", "judge"}
                  /\ j \in HandlerJob /\ j.list = {} /\ j.run = r /\ j.step = i
  <2>1. PICK j0 : j0 = NewHandlerJob("receipt", r, i, n, st)
    BY Zenon
  <2>2. /\ j0 \in HandlerJob /\ j0.list = {} /\ j0.run = r /\ j0.step = i
    BY <2>1, NewJobType, SMTT(30)
  <2>3. PICK a, b, c, d, e :
          /\ a = (n = row.nonce) /\ b = Active(r, i) /\ c = (row.left > 0) /\ d = InFlight(r, i)
          /\ e = (status[r] = "running" /\ effectState[r][i] = "effect-unknown")
    BY Zenon
  <2>4. PICK j : j = [j0 EXCEPT !.exact = a, !.active = b, !.live = c, !.inFlight = d,
                                !.doubt = e]
    BY Zenon
  <2>5. HGotoWith(h, IF n = row.nonce THEN "record" ELSE "judge", j)
    BY Zenon, <1>1, <2>1, <2>3, <2>4 DEF StartReceipt
  <2>6. /\ a \in BOOLEAN /\ b \in BOOLEAN /\ c \in BOOLEAN /\ d \in BOOLEAN /\ e \in BOOLEAN
    <3>1. (n = row.nonce) \in BOOLEAN /\ (row.left > 0) \in BOOLEAN
      OBVIOUS
    <3>2. Active(r, i) \in BOOLEAN /\ InFlight(r, i) \in BOOLEAN
      BY DEF Active, InFlight
    <3>3. (status[r] = "running" /\ effectState[r][i] = "effect-unknown") \in BOOLEAN
      BY Zenon
    <3> QED BY Zenon, <2>3, <3>1, <3>2, <3>3
  <2>a. PICK j1 : j1 = [j0 EXCEPT !.exact = a, !.active = b]
    BY Zenon
  <2>b. j1 \in HandlerJob /\ j1.list = {} /\ j1.run = r /\ j1.step = i
    BY Zenon, <2>2, <2>6, <2>a DEF HandlerJob
  <2>c. PICK j2 : j2 = [j1 EXCEPT !.live = c, !.inFlight = d]
    BY Zenon
  <2>d. j2 \in HandlerJob /\ j2.list = {} /\ j2.run = r /\ j2.step = i
    BY Zenon, <2>6, <2>b, <2>c DEF HandlerJob
  <2>e. j = [j2 EXCEPT !.doubt = e]
    BY <2>4, <2>a, <2>c
  <2>7. j \in HandlerJob /\ j.list = {} /\ j.run = r /\ j.step = i
    BY Zenon, <2>6, <2>d, <2>e DEF HandlerJob
  <2> QED BY Zenon, <2>5, <2>7
<1>8. p \in HPC /\ HandlerOK(p, j)'
  <2>1. p \in HPC /\ p # "claimTx" /\ p \notin {"release", "settle"}
    BY <1>7, SMTT(30) DEF HPC
  <2> QED BY Zenon, <1>6, <1>7, <2>1 DEF HandlerOK
<1>9. HandlerGoes(h)
  BY Zenon, <1>7, <1>8 DEF HandlerGoes
<1> QED BY Zenon, <1>4, <1>5, <1>9, ReadKeeps

LEMMA JudgeKeeps ==
    ASSUME XInv, NEW h \in Handler, RenewRead(h) \/ Judge(h)
    PROVE  XInv' /\ RowSafe
<1>1. UNCHANGED vars /\ xlease' = xlease
  BY Zenon DEF RenewRead, Judge
<1>2. RowSafe /\ ClaimsGrow
  BY Zenon, <1>1, SameXLease DEF RowSafe, vars, storeVars, runVars
<1>3. /\ hpc[h] = "judge" => hpc[h] \in AtStep
      /\ "mark" \in HPC /\ "finish" \in HPC /\ "renewTx" \in HPC /\ "renewTx" \notin AtStep
  BY SMTT(30) DEF HPC, AtStep
<1>4. CASE HReturn(h)
  BY Zenon, <1>1, <1>4, ReturnGoes, SameXLease, ReadKeeps
<1>5. CASE hpc[h] = "judge" /\ (HGoto(h, "mark") \/ HGoto(h, "finish"))
  <2>1. HandlerGoes(h)
    BY <1>2, <1>3, <1>5, GotoGoes, SMTT(30)
  <2> QED BY Zenon, <1>1, <2>1, SameXLease, ReadKeeps
<1>6. CASE HGoto(h, "renewTx")
  <2>1. HandlerGoes(h)
    BY <1>2, <1>3, <1>6, GotoGoes, SMTT(30)
  <2> QED BY Zenon, <1>1, <2>1, SameXLease, ReadKeeps
<1> QED BY Zenon, <1>4, <1>5, <1>6 DEF RenewRead, Judge

LEMMA RenewTxKeeps ==
    ASSUME XInv, NEW h \in Handler, RenewTx(h)
    PROVE  XInv' /\ RowSafe
<1>1. PICK r \in Run, i \in Steps : r = hj[h].bound[1] /\ i = hj[h].bound[2]
  BY Zenon, HandlerFacts
<1>2. UNCHANGED vars /\ HandlerGoes(h)
  BY Zenon, ReturnGoes DEF RenewTx
<1>3. CASE xlease' = xlease
  BY Zenon, <1>2, <1>3, SameXLease, ReadKeeps
<1>4. CASE xlease' # xlease
  <2>1. PICK row \in LeaseRow : row = xlease[r][i]
    BY Zenon DEF XInv, XTyped
  <2>2. PICK m, n : m = row.nonce + 1
                    /\ n = IF row.left < CheckInSeconds THEN row.left ELSE CheckInSeconds
    BY Zenon
  <2>3. PICK new : new = [row EXCEPT !.nonce = m, !.next = n]
    BY Zenon
  <2>4. m \in Nat /\ n \in 0 .. CheckInSeconds
    <3>1. row.nonce \in Nat /\ row.left \in 0 .. LeaseSeconds
      BY SMTT(30) DEF LeaseRow
    <3> QED BY SMTT(30), <2>2, <3>1, ExecutorAssumption, LeaseAssumption
  <2>5. /\ new \in LeaseRow /\ new.claimed = row.claimed /\ new.worked = row.worked
        /\ new.expired = row.expired
    BY Zenon, <2>1, <2>3, <2>4 DEF LeaseRow
  <2>6. xlease' = [xlease EXCEPT ![r][i] = new]
    <3>1. xlease' = [xlease EXCEPT ![r][i].nonce = @ + 1,
                                   ![r][i].next = IF row.left < CheckInSeconds THEN row.left
                                                  ELSE CheckInSeconds]
      BY Zenon, <1>1, <1>4, <2>1 DEF RenewTx
    <3>2. xlease \in [Run -> [Steps -> LeaseRow]]
      BY Zenon DEF XInv, XTyped
    <3> QED BY Zenon, <2>1, <2>2, <2>3, <3>1, <3>2
  <2> QED BY Zenon, <1>2, <2>1, <2>5, <2>6, RowUpdate, ReadKeeps
<1> QED BY <1>3, <1>4

(* A handler that leaves the steps in flight and done as they are and      *)
(* leases nothing to anybody.                                              *)
LEMMA CalmKeeps ==
    ASSUME XInv, UNCHANGED <<engineVars, worldVars>>, RowsOK, LeaseTypeOK',
           lease' \subseteq lease, LeasesRemain, xlease' \in [Run -> [Steps -> LeaseRow]],
           NEW h \in Handler, HandlerGoes(h)
    PROVE  XInv' /\ RowSafe
<1>1. IInv' /\ RowSafe /\ ClaimsSafe /\ TakesFree
  BY Zenon, CalmRows
<1>2. NoNewLease
  BY Zenon DEF NoNewLease
<1> QED BY Zenon, <1>1, <1>2, HandlerKeeps

LEMMA CalmSafe == ASSUME RowsOK PROVE RowSafe
BY Zenon DEF RowsOK, RowsKept, RowSafe

(* The sweep: what it finds due was claimed, and so was what it finds owed. *)
LEMMA ExpireKeeps == ASSUME XInv, NEW h \in Handler, Expire(h) PROVE XInv' /\ RowSafe
<1>1. PICK due, owed :
        /\ due = {p \in Run \X Steps : Active(p[1], p[2]) /\ xlease[p[1]][p[2]].left = 0}
        /\ owed = {p \in Run \X Steps :
                     /\ xlease[p[1]][p[2]].expired /\ status[p[1]] = "running"
                     /\ \/ InFlight(p[1], p[2])
                        \/ /\ stepStatus[p[1]][p[2]] = "partial"
                           /\ effectState[p[1]][p[2]] = "effect-unknown"}
  BY Zenon
<1>a. PICK list : list = due \cup owed
  BY Zenon
<1>b. /\ lease' = {l \in lease : ~(l.holder = X /\ <<l.run, l.step>> \in due)}
      /\ xlease' = [r \in Run |-> [i \in Steps |->
                      [xlease[r][i] EXCEPT !.expired = @ \/ <<r, i>> \in due]]]
      /\ HGotoWith(h, "each", [hj[h] EXCEPT !.list = list])
  BY Zenon, <1>1, <1>a DEF Expire
<1>c. /\ \A q \in due : Active(q[1], q[2])
      /\ list \subseteq Run \X Steps
      /\ \A q \in list : Active(q[1], q[2]) \/ xlease[q[1]][q[2]].expired
  BY Zenon, <1>1, <1>a
<1>2. UNCHANGED <<engineVars, worldVars, runVars, leased, keys>>
  BY Zenon DEF Expire
<1>3. ASSUME NEW r \in Run, NEW i \in Steps
      PROVE  /\ xlease'[r][i] \in LeaseRow
             /\ xlease'[r][i].claimed = xlease[r][i].claimed
             /\ xlease'[r][i].expired => xlease[r][i].expired \/ Active(r, i)
             /\ xlease'[r][i].worked = xlease[r][i].worked
  <2>1. PICK row \in LeaseRow : row = xlease[r][i]
    BY Zenon DEF XInv, XTyped
  <2>2. PICK e : e = (row.expired \/ <<r, i>> \in due)
    BY Zenon
  <2>3. e \in BOOLEAN /\ (e => row.expired \/ Active(r, i))
    BY ZenonT(30), <1>c, <2>2
  <2>4. xlease'[r][i] = [row EXCEPT !.expired = e]
    BY Zenon, <1>b, <2>1, <2>2
  <2>5. /\ [row EXCEPT !.expired = e] \in LeaseRow
        /\ [row EXCEPT !.expired = e].claimed = row.claimed
        /\ [row EXCEPT !.expired = e].worked = row.worked
        /\ [row EXCEPT !.expired = e].expired = e
    BY Zenon, <2>3 DEF LeaseRow
  <2> QED BY Zenon, <2>1, <2>3, <2>4, <2>5
<1>4. LeasesRemain /\ xlease' \in [Run -> [Steps -> LeaseRow]]
  <2>1. LeasesRemain
    BY Zenon, <1>3 DEF LeasesRemain
  <2>2. ASSUME NEW r \in Run, NEW i \in Steps
        PROVE  [xlease[r][i] EXCEPT !.expired = @ \/ <<r, i>> \in due] \in LeaseRow
    BY Zenon, <1>b, <1>3
  <2> QED BY Zenon, <1>b, <2>1, <2>2
<1>5. RowsOK /\ LeaseTypeOK' /\ lease' \subseteq lease
  <2>1. lease' \subseteq lease
    BY Zenon, <1>b
  <2>2. LeaseTypeOK'
    BY Zenon, <1>2, <2>1, XFacts DEF LeaseTypeOK
  <2> QED BY Zenon, <1>2, <2>1, <2>2, XFacts, SameRows
<1>6. HandlerGoes(h)
  <2>1. PICK j : j = [hj[h] EXCEPT !.list = list]
    BY Zenon
  <2>2. j \in HandlerJob /\ j.list = list
    BY ZenonT(30), <1>c, <2>1, HandlerFacts DEF HandlerJob
  <2>3. \A q \in list : Claimed(q[1], q[2])'
    <3>1. \A q \in list : q[1] \in Run /\ q[2] \in Steps
      BY <1>c, SMTT(30)
    <3>2. ASSUME NEW q \in list PROVE Claimed(q[1], q[2])
      <4>1. ClaimOK(q[1], q[2])
        BY Zenon, <3>1 DEF XInv, ClaimInv
      <4> QED BY Zenon, <1>c, <4>1 DEF ClaimOK
    <3> QED BY Zenon, <1>4, <3>1, <3>2, RemainGrow DEF ClaimsGrow
  <2>4. /\ "each" \in HPC /\ "each" \notin AtStep
    BY SMTT(30) DEF HPC, AtStep
  <2>5. HandlerOK("each", j)'
    BY <2>2, <2>3, <2>4, SMTT(30) DEF HandlerOK
  <2> QED BY Zenon, <1>b, <2>1, <2>2, <2>4, <2>5 DEF HandlerGoes
<1> QED BY Zenon, <1>2, <1>4, <1>5, <1>6, CalmKeeps

LEMMA EachKeeps == ASSUME XInv, NEW h \in Handler, Each(h) PROVE XInv' /\ RowSafe
<1>1. UNCHANGED vars /\ xlease' = xlease
  BY Zenon DEF Each
<1>2. RowSafe /\ ClaimsGrow
  BY Zenon, <1>1, SameXLease DEF RowSafe, vars, storeVars, runVars
<1>3. ASSUME HandlerGoes(h) PROVE XInv' /\ RowSafe
  BY Zenon, <1>1, <1>3, SameXLease, ReadKeeps
<1>4. CASE HGoto(h, "claim") \/ HGoto(h, "renew")
  <2>1. /\ "claim" \in HPC /\ "renew" \in HPC
        /\ "claim" \notin AtStep /\ "renew" \notin AtStep
    BY SMTT(30) DEF HPC, AtStep
  <2> QED BY <1>2, <1>3, <1>4, <2>1, GotoGoes, SMTT(30)
<1>5. CASE HReturn(h)
  BY Zenon, <1>3, <1>5, ReturnGoes
<1>6. ASSUME NEW q \in hj[h].list, NEW owed, NEW inFlight \in BOOLEAN, NEW doubt \in BOOLEAN,
             HGotoWith(h, IF owed THEN "mark" ELSE "each",
                [hj[h] EXCEPT !.list = @ \ {q}, !.run = IF owed THEN q[1] ELSE @,
                   !.step = IF owed THEN q[2] ELSE @, !.inFlight = inFlight,
                   !.doubt = doubt])
      PROVE  XInv' /\ RowSafe
  <2>1. PICK j0 : j0 = hj[h]
    BY Zenon
  <2>2. /\ j0 \in HandlerJob /\ j0.run \in Run /\ j0.step \in Steps
        /\ j0.list \subseteq Run \X Steps /\ q \in j0.list
    BY Zenon, <1>6, <2>1, HandlerFacts
  <2>3. q[1] \in Run /\ q[2] \in Steps
    BY <2>2, SMTT(30)
  <2>4. \A m \in j0.list : Claimed(m[1], m[2])'
    <3>1. \A m \in j0.list : Claimed(m[1], m[2])
      BY Zenon, <2>1, HandlerFacts DEF HandlerOK
    <3> QED BY Zenon, <1>1, <3>1 DEF Claimed
  <2>5. PICK p, r, i, list : /\ p = IF owed THEN "mark" ELSE "each"
                             /\ r = IF owed THEN q[1] ELSE j0.run
                             /\ i = IF owed THEN q[2] ELSE j0.step
                             /\ list = j0.list \ {q}
    BY Zenon
  <2>6. PICK j : j = [j0 EXCEPT !.list = list, !.run = r, !.step = i, !.inFlight = inFlight,
                                !.doubt = doubt]
    BY Zenon
  <2>7. HGotoWith(h, p, j)
    BY Zenon, <1>6, <2>1, <2>5, <2>6
  <2>8. r \in Run /\ i \in Steps /\ list \subseteq j0.list /\ p \in {"mark", "each"}
        /\ (p = "mark" => r = q[1] /\ i = q[2])
    BY <2>2, <2>3, <2>5, SMTT(30)
  <2>9. j \in HandlerJob /\ j.list = list /\ j.run = r /\ j.step = i
    <3>1. PICK j1 : j1 = [j0 EXCEPT !.list = list, !.run = r, !.step = i]
      BY Zenon
    <3>2. list \in SUBSET (Run \X Steps)
      BY Zenon, <2>2, <2>8
    <3>3. j1 \in HandlerJob /\ j1.list = list /\ j1.run = r /\ j1.step = i
      BY Zenon, <2>2, <2>8, <3>1, <3>2 DEF HandlerJob
    <3>4. j = [j1 EXCEPT !.inFlight = inFlight, !.doubt = doubt]
      BY <2>6, <3>1
    <3> QED BY Zenon, <3>3, <3>4 DEF HandlerJob
  <2>10. p \in HPC /\ p # "claimTx" /\ p \notin {"release", "settle"}
         /\ (p \in AtStep => p = "mark")
    BY <2>8, SMTT(30) DEF HPC, AtStep
  <2>11. HandlerOK(p, j)'
    BY Zenon, <2>2, <2>4, <2>8, <2>9, <2>10 DEF HandlerOK
  <2> QED BY Zenon, <1>3, <2>7, <2>9, <2>10, <2>11 DEF HandlerGoes
<1>7. CASE \E q \in hj[h].list :
             LET r == q[1]
                 i == q[2]
                 owed == /\ status[r] = "running"
                         /\ \/ stepStatus[r][i] = "running"
                            \/ /\ stepStatus[r][i] = "partial"
                               /\ effectState[r][i] = "effect-unknown"
             IN HGotoWith(h, IF owed THEN "mark" ELSE "each",
                    [hj[h] EXCEPT !.list = @ \ {q}, !.run = IF owed THEN r ELSE @,
                       !.step = IF owed THEN i ELSE @, !.inFlight = owed /\ InFlight(r, i),
                       !.doubt = owed /\ effectState[r][i] = "effect-unknown"])
  <2>1. PICK q \in hj[h].list :
             LET r == q[1]
                 i == q[2]
                 owed == /\ status[r] = "running"
                         /\ \/ stepStatus[r][i] = "running"
                            \/ /\ stepStatus[r][i] = "partial"
                               /\ effectState[r][i] = "effect-unknown"
             IN HGotoWith(h, IF owed THEN "mark" ELSE "each",
                    [hj[h] EXCEPT !.list = @ \ {q}, !.run = IF owed THEN r ELSE @,
                       !.step = IF owed THEN i ELSE @, !.inFlight = owed /\ InFlight(r, i),
                       !.doubt = owed /\ effectState[r][i] = "effect-unknown"])
    BY Zenon, <1>7
  <2> DEFINE owed == /\ status[q[1]] = "running"
                     /\ \/ stepStatus[q[1]][q[2]] = "running"
                        \/ /\ stepStatus[q[1]][q[2]] = "partial"
                           /\ effectState[q[1]][q[2]] = "effect-unknown"
             inFlight == owed /\ InFlight(q[1], q[2])
             doubt == owed /\ effectState[q[1]][q[2]] = "effect-unknown"
  <2>2. HGotoWith(h, IF owed THEN "mark" ELSE "each",
                [hj[h] EXCEPT !.list = @ \ {q}, !.run = IF owed THEN q[1] ELSE @,
                   !.step = IF owed THEN q[2] ELSE @, !.inFlight = inFlight,
                   !.doubt = doubt])
    BY Zenon, <2>1
  <2>3. inFlight \in BOOLEAN /\ doubt \in BOOLEAN
    BY DEF InFlight
  <2> HIDE DEF owed, inFlight, doubt
  <2> QED BY Zenon, <1>6, <2>2, <2>3
<1> QED BY Zenon, <1>4, <1>5, <1>7 DEF Each

(* The claim reads the first step of a run that is not verified yet.       *)
LEMMA ClaimReadKeeps == ASSUME XInv, NEW h \in Handler, ClaimRead(h) PROVE XInv' /\ RowSafe
<1>1. UNCHANGED vars /\ xlease' = xlease /\ stepStatus' = stepStatus
  BY Zenon DEF ClaimRead, vars, storeVars, runVars
<1>2. HandlerGoes(h)
  <2>1. CASE HReturn(h)
    BY Zenon, <2>1, ReturnGoes
  <2>2. ASSUME NEW q \in Run \X Steps, Claimable(q[1], q[2]),
               HGotoWith(h, "claimTx", NewHandlerJob("claim", q[1], q[2], 0, "running"))
        PROVE  HandlerGoes(h)
    <3>1. PICK r \in Run, i \in Steps : r = q[1] /\ i = q[2]
      BY SMTT(30)
    <3>2. PICK j : j = NewHandlerJob("claim", r, i, 0, "running")
      BY Zenon
    <3>3. j \in HandlerJob /\ j.list = {} /\ j.run = r /\ j.step = i
      <4>1. "running" \in ReceiptStatus /\ 0 \in Nat
        BY SMTT(30) DEF ReceiptStatus
      <4> QED BY <3>2, <4>1, NewJobType, SMTT(30)
    <3>4. \A k \in 1 .. (i - 1) : stepStatus'[r][k] = "succeeded"
      BY Zenon, <1>1, <2>2, <3>1 DEF Claimable, Verified
    <3>5. HGotoWith(h, "claimTx", j)
      BY Zenon, <2>2, <3>1, <3>2
    <3>6. "claimTx" \in HPC /\ "claimTx" \notin AtStep /\ "claimTx" \notin {"release", "settle"}
      BY SMTT(30) DEF HPC, AtStep
    <3>7. HandlerOK("claimTx", j)'
      BY Zenon, <3>3, <3>4, <3>6 DEF HandlerOK
    <3> QED BY Zenon, <3>3, <3>5, <3>6, <3>7 DEF HandlerGoes
  <2> QED BY Zenon, <2>1, <2>2 DEF ClaimRead
<1> QED BY Zenon, <1>1, <1>2, SameXLease, ReadKeeps

-----------------------------------------------------------------------------
(* Handlers that release leases and end runs.                              *)

LEMMA ReleaseKeeps ==
    ASSUME LeaseTypeOK, NEW r, NEW i,
           ReleaseTargetLease(r, i, X) \/ UNCHANGED leaseVars
    PROVE  LeaseTypeOK' /\ lease' \subseteq lease
<1>1. lease' \subseteq lease /\ leased' = leased
  BY Zenon DEF ReleaseTargetLease, leaseVars
<1> QED BY Zenon, <1>1 DEF LeaseTypeOK

LEMMA CloseLeaseKeeps ==
    ASSUME XInv, NEW h \in Handler, CloseLease(h) \/ ReleaseReceipt(h)
    PROVE  XInv' /\ RowSafe
<1>1. UNCHANGED <<engineVars, worldVars, runVars, keys>> /\ xlease' = xlease
  BY Zenon DEF CloseLease, ReleaseReceipt
<1>2. LeaseTypeOK' /\ lease' \subseteq lease
  BY Zenon, XFacts, ReleaseKeeps DEF CloseLease, ReleaseReceipt
<1>3. RowsOK
  BY Zenon, <1>1, XFacts, SameRows
<1>4. RowSafe
  BY Zenon, <1>3, CalmSafe
<1>5. CASE HReturn(h)
  BY Zenon, <1>1, <1>2, <1>3, <1>5, ReturnGoes, SameXLease, CalmKeeps
<1>6. CASE hpc[h] = "release" /\ HGoto(h, "settle")
  <2>1. /\ "settle" \in HPC /\ "settle" \notin AtStep /\ "settle" # "claimTx"
        /\ hpc[h] \in {"release", "settle"}
    BY <1>6, SMTT(30) DEF HPC, AtStep
  <2>2. HandlerGoes(h)
    BY Zenon, <1>1, <1>4, <1>6, <2>1, SameXLease, GotoGoes
  <2> QED BY Zenon, <1>1, <1>2, <1>3, <2>2, SameXLease, CalmKeeps
<1> QED BY Zenon, <1>5, <1>6 DEF CloseLease, ReleaseReceipt

(* A handler that changes no lease and keeps the rows in flight and done.  *)
LEMMA RowsKeep ==
    ASSUME XInv, UNCHANGED <<leaseVars, engineVars, worldVars, xlease>>, RowsOK,
           NEW h \in Handler, HandlerGoes(h)
    PROVE  XInv' /\ RowSafe
<1>1. LeaseTypeOK' /\ lease' \subseteq lease /\ xlease' = xlease
  BY Zenon, XFacts, SameLeases DEF leaseVars
<1> QED BY Zenon, <1>1, SameXLease, CalmKeeps

LEMMA SettleReceiptKeeps ==
    ASSUME XInv, NEW h \in Handler, SettleReceipt(h) PROVE XInv' /\ RowSafe
<1>1. PICK r, to : r = hj[h].run /\ to = hj[h].to
  BY Zenon
<1>2. RowsOK
  <2>1. r \in Run /\ to \in RunStatus
    BY Zenon, <1>1, HandlerFacts DEF HandlerJob
  <2>2. to = "succeeded" => \A i \in Steps : stepStatus[r][i] = "succeeded"
    <3>1. hpc[h] \in {"release", "settle"}
      BY Zenon DEF SettleReceipt
    <3> QED BY Zenon, <1>1, <3>1, HandlerFacts DEF HandlerOK
  <2>3. CASE UNCHANGED <<runVars, keys>>
    BY Zenon, <2>3, XFacts, SameRows
  <2>4. CASE TransitionRun(r, "running", to, changed[r])
    <3>1. changed[r] \in BOOLEAN
      BY Zenon, <2>1, XFacts, ChangedFacts
    <3>2. "running" \in RunStatus
      BY Zenon DEF RunStatus
    <3> QED BY Zenon, <2>1, <2>2, <2>4, <3>1, <3>2, XFacts, TransitionKeeps
  <2> QED BY Zenon, <1>1, <2>3, <2>4 DEF SettleReceipt
<1>3. HandlerGoes(h)
  BY Zenon, ReturnGoes DEF SettleReceipt
<1> QED BY Zenon, <1>2, <1>3, RowsKeep DEF SettleReceipt

LEMMA ToPartialKeeps ==
    ASSUME XInv, NEW h \in Handler, ToPartial(h) PROVE XInv' /\ RowSafe
<1>1. PICK r : r = hj[h].run
  BY Zenon
<1>2. r \in Run
  BY Zenon, <1>1, HandlerFacts
<1>3. xlease' = xlease
  BY Zenon DEF ToPartial
<1>4. CASE UNCHANGED <<runVars, keys>> /\ HReturn(h)
  <2>1. RowsOK
    BY Zenon, <1>4, XFacts, SameRows
  <2> QED BY Zenon, <1>4, <2>1, ReturnGoes, RowsKeep DEF ToPartial
<1>5. CASE TransitionRun(r, "running", "partial", TRUE) /\ AfterRecovery(h)
  <2>1. RowsOK
    <3>1. "running" \in RunStatus /\ "partial" \in RunStatus /\ "partial" # "succeeded"
      BY SMTT(30) DEF RunStatus
    <3> QED BY Zenon, <1>2, <1>5, <3>1, XFacts, TransitionKeeps
  <2>2. HandlerGoes(h)
    BY Zenon, <1>3, <1>5, <2>1, CalmSafe, SameXLease, RecoveryGoes
  <2> QED BY Zenon, <2>1, <2>2, RowsKeep DEF ToPartial
<1> QED BY Zenon, <1>1, <1>4, <1>5 DEF ToPartial

-----------------------------------------------------------------------------
(* Handlers that change a step of the executor's.                          *)

(* A claimed step changed by a handler that takes no lease.                *)
LEMMA StepKeeps ==
    ASSUME XInv, UNCHANGED <<engineVars, worldVars>>, RowTypeOK', LeaseTypeOK',
           lease' \subseteq lease, LeasesRemain, xlease' \in [Run -> [Steps -> LeaseRow]],
           NEW r \in Run, NEW i \in Steps, Claimed(r, i), OthersKept(r, i),
           status' = status, stepStatus[r][i] = "running",
           effectState'[r][i] # "not-started",
           stepStatus'[r][i] = "succeeded" => effectState'[r][i] = "verified",
           effectState[r][i] = "effect-unknown" => effectState'[r][i] = "effect-unknown",
           NEW h \in Handler, RowSafe => HandlerGoes(h)
    PROVE  XInv' /\ RowSafe
<1>1. IInv' /\ RowSafe /\ ClaimsSafe /\ TakesFree
  BY Zenon, ClaimedRow
<1>2. NoNewLease
  BY Zenon DEF NoNewLease
<1> QED BY Zenon, <1>1, <1>2, HandlerKeeps

LEMMA MarkKeeps == ASSUME XInv, NEW h \in Handler, Mark(h) PROVE XInv' /\ RowSafe
<1>1. PICK r, i : r = hj[h].run /\ i = hj[h].step
  BY Zenon
<1>2. r \in Run /\ i \in Steps /\ RowTypeOK
  BY Zenon, <1>1, HandlerFacts, XFacts
<1>3. Claimed(r, i)
  <2>1. hpc[h] \in AtStep
    BY Zenon DEF Mark, AtStep
  <2> QED BY Zenon, <1>1, <2>1, HandlerFacts DEF HandlerOK
<1>4. /\ UNCHANGED <<leaseVars, engineVars, worldVars, xlease>>
      /\ xlease' = xlease
  BY Zenon DEF Mark
<1>5. ASSUME RowSafe PROVE HandlerGoes(h)
  <2>1. HGoto(h, "toPartial") \/ AfterRecovery(h) \/ HReturn(h)
    BY Zenon DEF Mark
  <2>2. CASE HGoto(h, "toPartial")
    <3>1. /\ "toPartial" \in HPC /\ "toPartial" \notin AtStep /\ "toPartial" # "claimTx"
          /\ "toPartial" \notin {"release", "settle"}
      BY SMTT(30) DEF HPC, AtStep
    <3> QED BY Zenon, <1>4, <1>5, <2>2, <3>1, SameXLease, GotoGoes
  <2> QED BY Zenon, <1>4, <1>5, <2>1, <2>2, ReturnGoes, RecoveryGoes, SameXLease
<1>6. CASE UNCHANGED <<runVars, keys>>
  <2>1. RowsOK
    BY Zenon, <1>6, XFacts, SameRows
  <2> QED BY Zenon, <1>4, <1>5, <2>1, CalmSafe, RowsKeep
<1>7. CASE /\ CloseAllowed(r, i, "partial") /\ CloseStep(r, i, "partial")
           /\ CloseKey(r, i, "partial") \notin keys
  <2>1. /\ RowTypeOK' /\ status' = status
        /\ stepStatus' = [stepStatus EXCEPT ![r][i] = "partial"]
        /\ effectState' = [effectState EXCEPT ![r][i] = "effect-unknown"]
    BY Zenon, <1>2, <1>7, CloseFacts
  <2>2. stepStatus[r][i] = "running"
    BY Zenon, <1>7 DEF CloseAllowed
  <2>3. /\ stepStatus'[r][i] = "partial" /\ effectState'[r][i] = "effect-unknown"
    BY Zenon, <1>2, <2>1 DEF RowTypeOK
  <2>4. OthersKept(r, i)
    BY ZenonT(30), <1>2, <1>4, <2>1 DEF RowTypeOK, OthersKept, worldVars
  <2>5. LeaseTypeOK' /\ lease' \subseteq lease
    BY Zenon, <1>4, XFacts, SameLeases DEF leaseVars
  <2>6. LeasesRemain /\ xlease' \in [Run -> [Steps -> LeaseRow]]
    BY Zenon, <1>4, SameXLease
  <2>7. UNCHANGED <<engineVars, worldVars>>
    BY Zenon, <1>4
  <2> QED BY Zenon, <1>2, <1>3, <1>5, <2>1, <2>2, <2>3, <2>4, <2>5, <2>6, <2>7, StepKeeps
<1>8. \/ UNCHANGED <<runVars, keys>>
      \/ CloseAllowed(r, i, "partial") /\ CloseStep(r, i, "partial")
  BY Zenon, <1>1 DEF Mark
<1> QED BY Zenon, <1>6, <1>7, <1>8 DEF CloseStep

LEMMA RecordKeeps ==
    ASSUME XInv, NEW h \in Handler, RecordObservation(h) PROVE XInv' /\ RowSafe
<1>1. PICK r, i : r = hj[h].run /\ i = hj[h].step
  BY Zenon
<1>2. r \in Run /\ i \in Steps /\ RowTypeOK /\ LeaseTypeOK
  BY Zenon, <1>1, HandlerFacts, XFacts
<1>3. hpc[h] \in AtStep
  BY Zenon DEF RecordObservation, AtStep
<1>4. Claimed(r, i)
  BY Zenon, <1>1, <1>3, HandlerFacts DEF HandlerOK
<1>5. UNCHANGED <<engineVars, worldVars>>
  BY Zenon DEF RecordObservation
<1>6. CASE UNCHANGED <<storeVars, xlease>> /\ HReturn(h)
  <2>1. UNCHANGED <<leaseVars, runVars, keys>> /\ xlease' = xlease
    BY Zenon, <1>6 DEF storeVars
  <2>2. RowsOK
    BY Zenon, <2>1, XFacts, SameRows
  <2> QED BY Zenon, <1>5, <1>6, <2>1, <2>2, ReturnGoes, RowsKeep
<1>7. PICK row \in LeaseRow : row = xlease[r][i]
  BY Zenon, <1>2 DEF XInv, XTyped
<1>8. PICK e, f : e = (Active(r, i) /\ ~hj[h].live) /\ f = (hj[h].receipt # "running")
  BY Zenon
<1>9. CASE /\ f => stepStatus[r][i] = "running" /\ effectState[r][i] = "intent-recorded"
           /\ ReleaseTargetLease(r, i, X) \/ UNCHANGED leaseVars
           /\ xlease' = [xlease EXCEPT ![r][i].expired = @ \/ e, ![r][i].final = @ \/ f]
           /\ (f /\ RecordReceipt(r, i)) \/ UNCHANGED <<runVars, keys>>
           /\ HGoto(h, "judge")
  <2>1. LeaseTypeOK' /\ lease' \subseteq lease
    BY Zenon, <1>2, <1>9, ReleaseKeeps
  <2>2. PICK a, b : a = (row.expired \/ e) /\ b = (row.final \/ f)
    BY Zenon
  <2>3. PICK new : new = [row EXCEPT !.expired = a, !.final = b]
    BY Zenon
  <2>4. a \in BOOLEAN /\ b \in BOOLEAN /\ (a => row.expired \/ Active(r, i))
    BY ZenonT(30), <1>8, <2>2
  <2>5. /\ new \in LeaseRow /\ new.claimed = row.claimed /\ new.worked = row.worked
        /\ new.expired = a
    BY Zenon, <1>7, <2>3, <2>4 DEF LeaseRow
  <2>6. xlease' = [xlease EXCEPT ![r][i] = new]
    <3>1. xlease \in [Run -> [Steps -> LeaseRow]]
      BY Zenon DEF XInv, XTyped
    <3> QED BY Zenon, <1>2, <1>7, <1>9, <2>2, <2>3, <3>1
  <2>7. LeasesRemain /\ ClaimsGrow /\ xlease' \in [Run -> [Steps -> LeaseRow]]
    BY Zenon, <1>2, <1>7, <2>4, <2>5, <2>6, RowUpdate
  <2>8. ASSUME RowSafe PROVE HandlerGoes(h)
    <3>1. "judge" \in HPC /\ "judge" # "claimTx" /\ "judge" \notin {"release", "settle"}
      BY SMTT(30) DEF HPC
    <3> QED BY Zenon, <1>3, <1>9, <2>7, <2>8, <3>1, GotoGoes
  <2>9. CASE UNCHANGED <<runVars, keys>>
    <3>1. RowsOK
      BY Zenon, <2>9, XFacts, SameRows
    <3> QED BY Zenon, <1>5, <2>1, <2>7, <2>8, <3>1, CalmSafe, CalmKeeps
  <2>10. CASE f /\ RecordReceipt(r, i)
    <3>1. stepStatus[r][i] = "running" /\ effectState[r][i] = "intent-recorded"
      BY Zenon, <1>9, <2>10
    <3>2. /\ RowTypeOK' /\ status' = status /\ stepStatus' = stepStatus
          /\ effectState'[r][i] = "receipt-recorded"
      BY Zenon, <1>2, <2>10 DEF RecordReceipt, RowTypeOK, EffectState
    <3>3. OthersKept(r, i)
      BY ZenonT(30), <1>2, <1>5, <2>10 DEF RecordReceipt, RowTypeOK, OthersKept, worldVars
    <3>4. /\ stepStatus'[r][i] # "succeeded"
          /\ effectState'[r][i] # "not-started" /\ effectState[r][i] # "effect-unknown"
      BY <3>1, <3>2, SMTT(30)
    <3> QED BY Zenon, <1>2, <1>4, <1>5, <2>1, <2>7, <2>8, <3>1, <3>2, <3>3, <3>4, StepKeeps
  <2> QED BY Zenon, <1>9, <2>9, <2>10
<1> QED BY Zenon, <1>1, <1>6, <1>8, <1>9 DEF RecordObservation

LEMMA FinishKeeps == ASSUME XInv, NEW h \in Handler, Finish(h) PROVE XInv' /\ RowSafe
<1>1. PICK r, i, st : r = hj[h].run /\ i = hj[h].step /\ st = hj[h].receipt
  BY Zenon
<1>2. r \in Run /\ i \in Steps /\ st \in ReceiptStatus /\ RowTypeOK
  BY Zenon, <1>1, HandlerFacts, XFacts DEF HandlerJob
<1>3. Claimed(r, i)
  <2>1. hpc[h] \in AtStep
    BY Zenon DEF Finish, AtStep
  <2> QED BY Zenon, <1>1, <2>1, HandlerFacts DEF HandlerOK
<1>4. UNCHANGED <<leaseVars, engineVars, worldVars, xlease>> /\ xlease' = xlease
  BY Zenon DEF Finish
<1>5. CASE UNCHANGED <<runVars, keys>> /\ HReturn(h)
  <2>1. RowsOK
    BY Zenon, <1>5, XFacts, SameRows
  <2> QED BY Zenon, <1>4, <1>5, <2>1, ReturnGoes, RowsKeep
<1>6. PICK all : all = \A k \in Steps : stepStatus'[r][k] = "succeeded"
                                       /\ effectState'[r][k] = "verified"
  BY Zenon
<1>7. PICK to : to = CASE st = "failed" -> "failed"
                       [] st # "failed" /\ all -> "succeeded"
                       [] st # "failed" /\ ~all /\ cancelRequested[r] -> "interrupted"
                       [] OTHER -> "none"
  BY Zenon
<1>8. PICK chg : chg = (landed[r][i] > 0)
  BY Zenon
<1>9. CASE /\ FinishAllowed(r, i) /\ FinishStep(r, i, st, chg)
           /\ HGotoWith(h, "release", [hj[h] EXCEPT !.to = to])
  <2>1. /\ stepStatus[r][i] = "running" /\ effectState[r][i] = "receipt-recorded"
    BY Zenon, <1>9 DEF FinishAllowed
  <2>2. /\ st \in StepStatus /\ "verified" \in EffectState /\ chg \in BOOLEAN
    BY <1>2, <1>8, SMTT(30) DEF ReceiptStatus, StepStatus, EffectState
  <2>3. /\ RowTypeOK' /\ status' = status /\ effectState'[r][i] = "verified"
    <3>1. (changed[r] \/ chg) \in BOOLEAN
      BY Zenon
    <3> QED BY Zenon, <1>2, <1>9, <2>2, <3>1 DEF FinishStep, RowTypeOK
  <2>4. OthersKept(r, i)
    BY ZenonT(30), <1>2, <1>4, <1>9 DEF FinishStep, RowTypeOK, OthersKept, worldVars
  <2>5. LeaseTypeOK' /\ lease' \subseteq lease
    BY Zenon, <1>4, XFacts, SameLeases DEF leaseVars
  <2>6. LeasesRemain /\ ClaimsGrow /\ xlease' \in [Run -> [Steps -> LeaseRow]]
    BY Zenon, <1>4, SameXLease
  <2>7. ASSUME RowSafe PROVE HandlerGoes(h)
    <3>1. PICK j0, j : j0 = hj[h] /\ j = [j0 EXCEPT !.to = to]
      BY Zenon
    <3>2. to \in RunStatus /\ (to = "succeeded" => all)
      BY <1>7, SMTT(30) DEF RunStatus
    <3>3. j \in HandlerJob /\ j.to = to /\ j.run = r /\ j.list = j0.list
      BY ZenonT(30), <1>1, <3>1, <3>2, HandlerFacts DEF HandlerJob
    <3>4. \A q \in j0.list : Claimed(q[1], q[2])'
      <4>1. \A q \in j0.list : Claimed(q[1], q[2])
        BY Zenon, <3>1, HandlerFacts DEF HandlerOK
      <4> QED BY Zenon, <1>4, <4>1 DEF Claimed
    <3>5. j.to = "succeeded" => \A k \in Steps : stepStatus'[j.run][k] = "succeeded"
      BY ZenonT(30), <1>6, <3>2, <3>3
    <3>6. "release" \in HPC /\ "release" \notin AtStep /\ "release" # "claimTx"
      BY SMTT(30) DEF HPC, AtStep
    <3>7. HandlerOK("release", j)'
      BY Zenon, <3>3, <3>4, <3>5, <3>6 DEF HandlerOK
    <3> QED BY Zenon, <1>9, <3>1, <3>3, <3>6, <3>7 DEF HandlerGoes
  <2>8. /\ effectState'[r][i] # "not-started"
        /\ effectState[r][i] # "effect-unknown"
    BY <2>1, <2>3, SMTT(30)
  <2>9. UNCHANGED <<engineVars, worldVars>>
    BY ZenonT(30), <1>4
  <2> QED BY Zenon, <1>2, <1>3, <2>1, <2>3, <2>4, <2>5, <2>6, <2>7, <2>8, <2>9,
       StepKeeps
<1> QED BY Zenon, <1>1, <1>5, <1>6, <1>7, <1>8, <1>9 DEF Finish
=============================================================================

----------------------- MODULE ExternalExecutorProofs -----------------------
(***************************************************************************)
(* Theorems about the engine and the external executor together, for every *)
(* set of runs, workers and handlers and every environment: any number of  *)
(* claims, renewals, receipts and sweeps interleave with each other and    *)
(* with the requests of the engine, with time, crashes and restarts.       *)
(*                                                                         *)
(* The theorems follow from the invariant XInv.  After them come the       *)
(* stronger invariant HInv and what the engine does to the record of a run,*)
(* on which ExternalHonestProofs is built.                                 *)
(***************************************************************************)
EXTENDS ExternalHandlerProofs

-----------------------------------------------------------------------------
(* The claim: a step nobody has begun passes into the executor's hands.    *)

LEMMA ClaimRow ==
    ASSUME XInv, NEW r \in Run, NEW i \in Steps, ClaimAllowed(r, i),
           AcquireTargetLease(r, i, X), BeginStep(r, i), landed' = landed,
           late' = [late EXCEPT ![r] = @ + (IF cancelRequested[r] THEN 1 ELSE 0)]
    PROVE  /\ RowTypeOK' /\ LeaseTypeOK' /\ late' \in [Run -> Nat] /\ status' = status
           /\ OthersKept(r, i) /\ ~Claimed(r, i)
           /\ stepStatus[r][i] = "queued" /\ effectState[r][i] = "not-started"
           /\ stepStatus'[r][i] = "running" /\ effectState'[r][i] = "intent-recorded"
<1>2. RowTypeOK /\ LeaseTypeOK /\ late \in [Run -> Nat]
  BY Zenon, XFacts
<1>3. /\ stepStatus[r][i] = "queued" /\ effectState[r][i] = "not-started"
  BY Zenon DEF ClaimAllowed
<1>4. ~Claimed(r, i)
  BY Zenon, <1>3 DEF XInv, ClaimInv, ClaimOK
<1>5. LeaseTypeOK'
  <2>1. LeaseOf(r, i, X) \in Lease
    BY Zenon, ExecutorAssumption DEF LeaseOf, Lease
  <2>2. <<r, i>> \in Run \X Steps
    BY SMTT(30)
  <2>3. lease' \subseteq Lease
    BY Zenon, <1>2, <2>1 DEF AcquireTargetLease, LeaseTypeOK
  <2>4. leased' \subseteq Run \X Steps
    BY Zenon, <1>2, <2>2 DEF AcquireTargetLease, LeaseTypeOK
  <2> QED BY <2>3, <2>4 DEF LeaseTypeOK
<1>6. late' \in [Run -> Nat]
  BY <1>2
<1>7. RowTypeOK' /\ status' = status
  BY Zenon, <1>2 DEF BeginStep, RowTypeOK, StepStatus, EffectState
<1>8. OthersKept(r, i)
  BY Zenon, <1>2 DEF BeginStep, RowTypeOK, OthersKept
<1>9. stepStatus'[r][i] = "running" /\ effectState'[r][i] = "intent-recorded"
  BY Zenon, <1>2 DEF BeginStep, RowTypeOK
<1> QED BY SMTT(30), <1>2, <1>3, <1>4, <1>5, <1>6, <1>7, <1>8, <1>9

(* No worker acts on a queued step, so the engine keeps its invariant.     *)
LEMMA ClaimApart ==
    ASSUME XInv, UNCHANGED engineVars, NEW r \in Run, NEW i \in Steps,
           RowTypeOK', LeaseTypeOK', late' \in [Run -> Nat], status' = status,
           landed' = landed, OthersKept(r, i),
           stepStatus[r][i] = "queued", effectState[r][i] = "not-started",
           stepStatus'[r][i] = "running", effectState'[r][i] = "intent-recorded"
    PROVE  /\ IInv' /\ RowSafe
           /\ \A w \in Worker : pc[w] \in Acting => ~(job[w].run = r /\ job[w].step = i)
<1>1. IInv
  BY Zenon, XFacts
<1>3. ASSUME NEW w \in Worker, pc[w] \in Acting
      PROVE  ~(job[w].run = r /\ job[w].step = i) /\ Untouched(job[w].run, job[w].step)
  <2>1. /\ job[w].run \in Run /\ job[w].step \in Steps
        /\ stepStatus[job[w].run][job[w].step] = "running"
    BY Zenon, <1>1, <1>3, OwnerFacts
  <2>2. ~(job[w].run = r /\ job[w].step = i)
    BY Zenon, <2>1
  <2> QED BY Zenon, <2>1, <2>2 DEF OthersKept, Untouched
<1>4. RowSafe
  BY Zenon DEF RowSafe, OthersKept
<1>5. UntouchedInv /\ EffectAtMostOnce /\ VerifiedInv /\ SucceededIsVerified
  BY Zenon, <1>1 DEF IInv, EffectInv, SuccessInv
<1>6. UntouchedInv'
  <2> SUFFICES ASSUME NEW q \in Run, NEW k \in Steps, effectState'[q][k] = "not-started"
               PROVE  landed'[q][k] = 0
    BY Zenon DEF UntouchedInv
  <2>1. q # r \/ k # i
    BY SMTT(30)
  <2> QED BY Zenon, <1>5, <2>1 DEF OthersKept, UntouchedInv
<1>7. EffectAtMostOnce'
  BY Zenon, <1>5 DEF EffectAtMostOnce
<1>8. VerifiedInv'
  <2> SUFFICES ASSUME NEW q \in Run, NEW k \in Steps, stepStatus'[q][k] = "succeeded"
               PROVE  effectState'[q][k] = "verified"
    BY Zenon DEF VerifiedInv
  <2>1. q # r \/ k # i
    BY SMTT(30)
  <2>2. stepStatus[q][k] = "succeeded" /\ effectState'[q][k] = effectState[q][k]
    BY Zenon, <2>1 DEF OthersKept
  <2> QED BY Zenon, <1>5, <2>2 DEF VerifiedInv
<1>9. SucceededIsVerified'
  BY <1>5, SMTT(30) DEF SucceededIsVerified, OthersKept
<1>10. landed' \in [Run -> [Steps -> Nat]]
  BY Zenon, XFacts
<1>11. IInv'
  BY Zenon, <1>3, <1>4, <1>6, <1>7, <1>8, <1>9, <1>10, OutsideStep
<1> QED BY Zenon, <1>3, <1>4, <1>11

LEMMA ClaimTxKeeps == ASSUME XInv, NEW h \in Handler, ClaimTx(h) PROVE XInv' /\ RowSafe
<1>1. PICK r, i : r = hj[h].run /\ i = hj[h].step
  BY Zenon
<1>2. r \in Run /\ i \in Steps
  BY Zenon, <1>1, HandlerFacts
<1>3. CASE ~ClaimAllowed(r, i)
  <2>1. /\ UNCHANGED <<leaseVars, engineVars, worldVars, xlease>>
        /\ UNCHANGED <<runVars, keys>> /\ HReturn(h)
    BY Zenon, <1>1, <1>3 DEF ClaimTx, storeVars, worldVars
  <2>2. RowsOK
    BY Zenon, <2>1, XFacts, SameRows
  <2> QED BY Zenon, <2>1, <2>2, ReturnGoes, RowsKeep
<1>4. CASE ClaimAllowed(r, i)
  <2>a. /\ AcquireTargetLease(r, i, X) /\ BeginStep(r, i) /\ landed' = landed
        /\ late' = [late EXCEPT ![r] = @ + (IF cancelRequested[r] THEN 1 ELSE 0)]
        /\ UNCHANGED engineVars
    BY ZenonT(30), <1>1, <1>4 DEF ClaimTx
  <2>b. /\ RowTypeOK' /\ LeaseTypeOK' /\ late' \in [Run -> Nat] /\ status' = status
        /\ OthersKept(r, i) /\ ~Claimed(r, i)
        /\ stepStatus[r][i] = "queued" /\ effectState[r][i] = "not-started"
        /\ stepStatus'[r][i] = "running" /\ effectState'[r][i] = "intent-recorded"
    BY ZenonT(30), <1>2, <1>4, <2>a, ClaimRow
  <2>1. /\ IInv' /\ RowSafe
        /\ \A w \in Worker : pc[w] \in Acting => ~(job[w].run = r /\ job[w].step = i)
    BY <1>2, <2>a, <2>b, ClaimApart
  <2>2. /\ landed' = landed /\ OthersKept(r, i) /\ ~Claimed(r, i)
        /\ effectState[r][i] = "not-started" /\ effectState'[r][i] = "intent-recorded"
    BY SMTT(30), <2>a, <2>b
  <2>3. /\ AcquireTargetLease(r, i, X) /\ HReturn(h) /\ pc' = pc /\ job' = job
        /\ xlease' = [xlease EXCEPT ![r][i] =
                        [NoLease EXCEPT !.claimed = TRUE, !.left = LeaseSeconds,
                                        !.next = CheckInSeconds]]
    BY Zenon, <1>1, <1>4 DEF ClaimTx, engineVars, workerVars
  <2>4. PICK new : new = [NoLease EXCEPT !.claimed = TRUE, !.left = LeaseSeconds,
                                         !.next = CheckInSeconds]
    BY Zenon
  <2>5. new \in LeaseRow /\ new.claimed = TRUE /\ new.expired = FALSE /\ new.worked = FALSE
    <3>1. new = [claimed |-> TRUE, expired |-> FALSE, nonce |-> 0, left |-> LeaseSeconds,
                 next |-> CheckInSeconds, final |-> FALSE, sent |-> FALSE, worked |-> FALSE]
      BY ZenonT(30), <2>4 DEF NoLease
    <3>2. /\ LeaseSeconds \in 0 .. LeaseSeconds /\ CheckInSeconds \in 0 .. CheckInSeconds
          /\ 0 \in Nat
      BY ExecutorAssumption, LeaseAssumption
    <3> QED BY Zenon, <3>1, <3>2 DEF LeaseRow
  <2>6. xlease \in [Run -> [Steps -> LeaseRow]]
    BY Zenon DEF XInv, XTyped
  <2>7. /\ xlease' \in [Run -> [Steps -> LeaseRow]] /\ xlease'[r][i] = new
        /\ \A q \in Run, k \in Steps : q # r \/ k # i => xlease'[q][k] = xlease[q][k]
    BY Zenon, <1>2, <2>3, <2>4, <2>5, <2>6
  <2>8. ClaimsGrow
    BY Zenon, <2>2, <2>7 DEF ClaimsGrow, Claimed
  <2>9. ClaimInv'
    <3> SUFFICES ASSUME NEW q \in Run, NEW k \in Steps PROVE ClaimOK(q, k)'
      BY Zenon DEF ClaimInv
    <3>1. CASE q = r /\ k = i
      <4>1. Claimed(r, i)'
        BY Zenon, <2>5, <2>7 DEF Claimed
      <4>2. effectState'[r][i] # "not-started"
        BY ZenonT(30), <2>2
      <4>3. landed'[r][i] = 0
        BY Zenon, <1>2, <2>2, XFacts DEF IInv, EffectInv, UntouchedInv
      <4>4. \A m \in 1 .. (i - 1) : stepStatus'[r][m] = "succeeded"
        <5>1. hpc[h] = "claimTx"
          BY Zenon DEF ClaimTx
        <5>2. \A m \in 1 .. (i - 1) : stepStatus[r][m] = "succeeded"
          BY Zenon, <1>1, <5>1, HandlerFacts DEF HandlerOK
        <5> QED BY Zenon, <1>2, <2>1, <5>2, EarlierSteps DEF RowSafe
      <4> QED BY Zenon, <3>1, <4>1, <4>2, <4>3, <4>4 DEF ClaimOK
    <3>2. CASE q # r \/ k # i
      <4>1. ClaimOK(q, k)
        BY Zenon DEF XInv, ClaimInv
      <4>2. xlease'[q][k] = xlease[q][k]
        BY Zenon, <2>7, <3>2
      <4>3. Active(q, k)' => Active(q, k)
        <5>1. LeaseOf(q, k, X) # LeaseOf(r, i, X)
          BY SMTT(30), <3>2 DEF LeaseOf
        <5> QED BY Zenon, <2>3, <5>1 DEF Active, AcquireTargetLease
      <4>4. effectState'[q][k] = effectState[q][k] /\ landed'[q][k] = landed[q][k]
        BY ZenonT(30), <2>2, <3>2 DEF OthersKept
      <4>5. Claimed(q, k) => \A m \in 1 .. (k - 1) : stepStatus'[q][m] = "succeeded"
        BY Zenon, <2>1, <4>1, EarlierSteps DEF ClaimOK, RowSafe
      <4>6. Claimed(q, k)' <=> Claimed(q, k)
        BY Zenon, <4>2 DEF Claimed
      <4>7. Active(q, k)' \/ xlease'[q][k].expired => Claimed(q, k)'
        BY Zenon, <4>1, <4>2, <4>3, <4>6 DEF ClaimOK
      <4>8. Claimed(q, k)' =>
              /\ effectState'[q][k] # "not-started"
              /\ ~xlease'[q][k].worked => landed'[q][k] = 0
              /\ \A m \in 1 .. (k - 1) : stepStatus'[q][m] = "succeeded"
        BY Zenon, <4>1, <4>2, <4>4, <4>5, <4>6 DEF ClaimOK
      <4> QED BY ZenonT(30), <4>7, <4>8 DEF ClaimOK
    <3> QED BY SMTT(30), <3>1, <3>2
  <2>10. ApartInv'
    <3> SUFFICES ASSUME NEW w \in Worker, pc'[w] \in Acting
                 PROVE  ~Claimed(job[w].run, job[w].step)'
      BY Zenon DEF ApartInv
    <3>1. PICK q, k : q = job[w].run /\ k = job[w].step
      BY Zenon
    <3>2. pc[w] \in Acting /\ job'[w].run = q /\ job'[w].step = k
      BY Zenon, <2>3, <3>1
    <3>3. q \in Run /\ k \in Steps /\ ~Claimed(q, k) /\ (q # r \/ k # i)
      BY Zenon, <2>1, <3>1, <3>2, OwnedFacts DEF XInv, ApartInv
    <3> QED BY Zenon, <2>7, <3>2, <3>3 DEF Claimed
  <2>11. hpc' \in [Handler -> HPC] /\ hj' \in [Handler -> HandlerJob] /\ HandlerInv'
    BY Zenon, <2>1, <2>3, <2>8, HandlerReturns
  <2> QED BY Zenon, <2>1, <2>7, <2>9, <2>10, <2>11 DEF XInv, XTyped
<1> QED BY SMTT(30), <1>3, <1>4

-----------------------------------------------------------------------------
(* The executor acts on a target it was given and has not touched yet.     *)

LEMMA ExternalEffectKeeps ==
    ASSUME XInv, NEW r \in Run, NEW i \in Steps, ExternalEffect(r, i)
    PROVE  XInv' /\ RowSafe
<1>1. /\ Claimed(r, i) /\ ~xlease[r][i].worked
      /\ landed' = [landed EXCEPT ![r][i] = @ + 1]
      /\ xlease' = [xlease EXCEPT ![r][i].worked = TRUE]
      /\ UNCHANGED <<storeVars, engineVars, late>> /\ hpc' = hpc /\ hj' = hj
  BY Zenon DEF ExternalEffect, Claimed, handlerVars
<1>2. /\ UNCHANGED <<runVars, keys, leaseVars>> /\ status' = status /\ lease' = lease
      /\ stepStatus' = stepStatus /\ effectState' = effectState
  BY Zenon, <1>1 DEF storeVars, runVars, leaseVars
<1>3. /\ IInv /\ landed \in [Run -> [Steps -> Nat]] /\ late' \in [Run -> Nat]
      /\ xlease \in [Run -> [Steps -> LeaseRow]]
  BY Zenon, <1>1, XFacts DEF XInv, XTyped
<1>4. landed[r][i] = 0 /\ effectState[r][i] # "not-started"
  BY Zenon, <1>1 DEF XInv, ClaimInv, ClaimOK
<1>5. /\ landed' \in [Run -> [Steps -> Nat]] /\ landed'[r][i] = 1
      /\ \A q \in Run, k \in Steps : q # r \/ k # i => landed'[q][k] = landed[q][k]
  BY SMTT(30), <1>1, <1>3, <1>4
<1>a. PICK row \in LeaseRow : row = xlease[r][i]
  BY ZenonT(30), <1>3
<1>6. PICK new : new = [row EXCEPT !.worked = TRUE]
  BY Zenon
<1>b. /\ new \in LeaseRow /\ new.claimed = row.claimed /\ new.worked = TRUE
      /\ new.expired = row.expired
  BY Zenon, <1>a, <1>6 DEF LeaseRow
<1>7. /\ new \in LeaseRow /\ new.claimed = xlease[r][i].claimed /\ new.worked = TRUE
      /\ new.expired = xlease[r][i].expired
  BY Zenon, <1>a, <1>b
<1>8. /\ xlease' \in [Run -> [Steps -> LeaseRow]] /\ xlease'[r][i] = new
      /\ \A q \in Run, k \in Steps : q # r \/ k # i => xlease'[q][k] = xlease[q][k]
  <2>1. xlease' = [xlease EXCEPT ![r][i] = new]
    BY Zenon, <1>1, <1>3, <1>a, <1>6
  <2> QED BY Zenon, <1>3, <1>7, <2>1
<1>9. RowTypeOK' /\ LeaseTypeOK' /\ RowSafe
  <2>1. RowsOK
    BY Zenon, <1>2, XFacts, SameRows
  <2> QED BY Zenon, <1>2, <2>1, XFacts, SameLeases, CalmSafe DEF RowsOK
<1>10. IInv'
  <2>1. ASSUME NEW w \in Worker, pc[w] \in Acting PROVE Untouched(job[w].run, job[w].step)
    <3>1. job[w].run \in Run /\ job[w].step \in Steps
      BY Zenon, <1>3, <2>1, OwnerFacts
    <3>2. ~(job[w].run = r /\ job[w].step = i)
      BY Zenon, <1>1, <2>1 DEF XInv, ApartInv
    <3> QED BY Zenon, <1>2, <1>5, <3>1, <3>2 DEF Untouched
  <2>2. UntouchedInv /\ EffectAtMostOnce /\ VerifiedInv /\ SucceededIsVerified
    BY Zenon, <1>3 DEF IInv, EffectInv, SuccessInv
  <2>3. UntouchedInv'
    <3> SUFFICES ASSUME NEW q \in Run, NEW k \in Steps, effectState[q][k] = "not-started"
                 PROVE  landed'[q][k] = 0
      BY Zenon, <1>2 DEF UntouchedInv
    <3>1. q # r \/ k # i
      BY Zenon, <1>4
    <3>2. landed[q][k] = 0
      BY Zenon, <2>2 DEF UntouchedInv
    <3> QED BY Zenon, <1>5, <3>1, <3>2
  <2>4. EffectAtMostOnce'
    BY SMTT(30), <1>5, <2>2 DEF EffectAtMostOnce
  <2>5. VerifiedInv' /\ SucceededIsVerified'
    BY ZenonT(30), <1>2, <2>2 DEF VerifiedInv, SucceededIsVerified
  <2>6. UNCHANGED engineVars
    BY ZenonT(30), <1>1
  <2> QED BY Zenon, <1>3, <1>5, <1>9, <2>1, <2>3, <2>4, <2>5, <2>6, OutsideStep
<1>11. \A q \in Run, k \in Steps : /\ Claimed(q, k)' <=> Claimed(q, k)
                                   /\ xlease'[q][k].expired <=> xlease[q][k].expired
  BY ZenonT(30), <1>7, <1>8 DEF Claimed
<1>12. ClaimInv'
  <2> SUFFICES ASSUME NEW q \in Run, NEW k \in Steps PROVE ClaimOK(q, k)'
    BY Zenon DEF ClaimInv
  <2>1. ClaimOK(q, k)
    BY Zenon DEF XInv, ClaimInv
  <2>2. ~xlease'[q][k].worked => ~xlease[q][k].worked /\ landed'[q][k] = landed[q][k]
    BY Zenon, <1>5, <1>7, <1>8
  <2>3. Active(q, k)' <=> Active(q, k)
    BY ZenonT(30), <1>2 DEF Active
  <2>4. Active(q, k)' \/ xlease'[q][k].expired => Claimed(q, k)'
    BY Zenon, <1>11, <2>1, <2>3 DEF ClaimOK
  <2>5. Claimed(q, k)' =>
          /\ effectState'[q][k] # "not-started"
          /\ ~xlease'[q][k].worked => landed'[q][k] = 0
          /\ \A m \in 1 .. (k - 1) : stepStatus'[q][m] = "succeeded"
    BY Zenon, <1>2, <1>11, <2>1, <2>2 DEF ClaimOK
  <2> QED BY Zenon, <2>4, <2>5 DEF ClaimOK
<1>13. ApartInv'
  <2> SUFFICES ASSUME NEW w \in Worker, pc'[w] \in Acting
               PROVE  ~Claimed(job[w].run, job[w].step)'
    BY Zenon DEF ApartInv
  <2>1. PICK q, k : q = job[w].run /\ k = job[w].step
    BY Zenon
  <2>2. pc[w] \in Acting /\ job'[w].run = q /\ job'[w].step = k
    BY Zenon, <1>1, <2>1 DEF engineVars, workerVars
  <2>3. q \in Run /\ k \in Steps /\ ~Claimed(q, k)
    BY Zenon, <2>1, <2>2, OwnedFacts DEF XInv, ApartInv
  <2> QED BY ZenonT(30), <1>11, <2>2, <2>3 DEF Claimed
<1>14. HandlerInv'
  <2> SUFFICES ASSUME NEW h \in Handler PROVE HandlerOK(hpc[h], hj[h])'
    BY Zenon DEF HandlerInv
  <2>1. PICK p, j : p = hpc[h] /\ j = hj[h]
    BY Zenon
  <2>2. HandlerOK(p, j) /\ j \in HandlerJob
    BY ZenonT(30), <2>1 DEF XInv, HandlerInv, XTyped
  <2>3. ClaimsGrow
    BY ZenonT(30), <1>11 DEF ClaimsGrow
  <2>4. HandlerOK(p, j)'
    BY Zenon, <1>9, <2>2, <2>3, HandlerStable
  <2> QED BY Zenon, <1>1, <2>1, <2>4 DEF HandlerOK
<1>15. XTyped'
  BY Zenon, <1>1, <1>8 DEF XInv, XTyped
<1> QED BY Zenon, <1>9, <1>10, <1>12, <1>13, <1>14, <1>15 DEF XInv

-----------------------------------------------------------------------------
(* The invariant of the composition.                                       *)

LEMMA HandleKeeps == ASSUME XInv, NEW h \in Handler, Handle(h) PROVE XInv' /\ RowSafe
BY ZenonT(30), ExpireKeeps, EachKeeps, MarkKeeps, ToPartialKeeps, CloseLeaseKeeps, ClaimReadKeeps,
   ClaimTxKeeps, JudgeKeeps, RenewTxKeeps, RecordKeeps, FinishKeeps, SettleReceiptKeeps
   DEF Handle

LEMMA ExecutorRequestKeeps ==
    ASSUME XInv, NEW h \in Handler, ExecutorRequest(h) PROVE XInv' /\ RowSafe
<1>1. CASE StartSweep(h) \/ StartClaim(h)
  BY Zenon, <1>1, StartKeeps
<1>2. ASSUME NEW r \in Run, NEW i \in Steps, NEW n \in 0 .. xlease[r][i].nonce,
             StartRenew(h, r, i, n) \/ \E st \in ReceiptStatus : StartReceipt(h, r, i, n, st)
      PROVE  XInv' /\ RowSafe
  <2>1. PICK row \in LeaseRow : row = xlease[r][i]
    BY ZenonT(30) DEF XInv, XTyped
  <2>2. n \in Nat
    <3>1. row.nonce \in Nat
      BY SMTT(30) DEF LeaseRow
    <3> QED BY SMTT(30), <1>2, <2>1, <3>1
  <2> QED BY Zenon, <1>2, <2>2, StartRenewKeeps, StartReceiptKeeps
<1> QED BY Zenon, <1>1, <1>2 DEF ExecutorRequest

LEMMA StutterKeepsX == ASSUME XInv, UNCHANGED xvars PROVE XInv' /\ RowSafe
<1>1. UNCHANGED vars /\ xlease' = xlease /\ hpc' = hpc /\ hj' = hj
  BY Zenon DEF xvars, handlerVars
<1>2. /\ stepStatus' = stepStatus /\ effectState' = effectState /\ landed' = landed
      /\ lease' = lease /\ pc' = pc /\ job' = job
  BY Zenon, <1>1 DEF vars, storeVars, runVars, leaseVars, workerVars, worldVars
<1>3. IInv'
  BY Zenon, <1>1, XFacts, StutterKeeps
<1>4. XTyped'
  BY Zenon, <1>1 DEF XInv, XTyped
<1>5. ClaimInv'
  <2> SUFFICES ASSUME NEW r \in Run, NEW i \in Steps PROVE ClaimOK(r, i)'
    BY Zenon DEF ClaimInv
  <2>1. ClaimOK(r, i)
    BY Zenon DEF XInv, ClaimInv
  <2> QED BY ZenonT(30), <1>1, <1>2, <2>1 DEF ClaimOK, Claimed, Active
<1>6. ApartInv'
  BY ZenonT(30), <1>1, <1>2 DEF XInv, ApartInv, Claimed
<1>7. HandlerInv'
  BY Zenon, <1>1, <1>2 DEF XInv, HandlerInv, HandlerOK, Claimed
<1>8. RowSafe
  BY Zenon, <1>2 DEF RowSafe
<1> QED BY Zenon, <1>3, <1>4, <1>5, <1>6, <1>7, <1>8 DEF XInv

LEMMA NextXInv == XInv /\ [XNext]_xvars => XInv' /\ RowSafe
<1> SUFFICES ASSUME XInv, [XNext]_xvars PROVE XInv' /\ RowSafe
  OBVIOUS
<1>1. CASE UNCHANGED xvars
  BY ZenonT(30), <1>1, StutterKeepsX
<1>2. CASE XNext
  BY Zenon, <1>2, EngineStepKeeps, HandleKeeps, ExecutorRequestKeeps, ExternalEffectKeeps,
     TickKeepsX, CrashKeepsX DEF XNext
<1> QED BY Zenon, <1>1, <1>2

LEMMA InitXInv == XInit => XInv
<1> SUFFICES ASSUME XInit PROVE XInv
  OBVIOUS
<1>1. /\ Init /\ xlease = [r \in Run |-> [i \in Steps |-> NoLease]]
      /\ hpc = [h \in Handler |-> "idle"] /\ hj = [h \in Handler |-> IdleHandlerJob]
  BY Zenon DEF XInit
<1>2. IInv
  BY ZenonT(30), <1>1, InitIInv
<1>3. NoLease \in LeaseRow /\ NoLease.claimed = FALSE /\ NoLease.expired = FALSE
  BY LeaseAssumption, ExecutorAssumption, SMTT(30) DEF NoLease, LeaseRow
<1>4. XTyped
  BY Zenon, <1>1, <1>3, IdleHandlerType DEF XTyped, HPC
<1>5. ClaimInv
  <2>1. lease = {}
    BY Zenon, <1>1 DEF Init, StoreInit
  <2> QED BY Zenon, <1>1, <1>3, <2>1 DEF ClaimInv, ClaimOK, Claimed, Active
<1>6. ApartInv
  <2>1. \A w \in Worker : pc[w] = "idle"
    BY Zenon, <1>1 DEF Init
  <2>2. "idle" \notin Acting
    BY SMTT(30) DEF Acting
  <2> QED BY Zenon, <2>1, <2>2 DEF ApartInv
<1>7. HandlerInv
  <2> SUFFICES ASSUME NEW h \in Handler PROVE HandlerOK(hpc[h], hj[h])
    BY Zenon DEF HandlerInv
  <2>1. hpc[h] = "idle" /\ hj[h] = IdleHandlerJob
    BY ZenonT(30), <1>1
  <2>2. IdleHandlerJob.list = {}
    BY DEF IdleHandlerJob, NewHandlerJob
  <2> QED BY <2>1, <2>2, SMTT(30) DEF HandlerOK, AtStep
<1> QED BY ZenonT(30), <1>2, <1>4, <1>5, <1>6, <1>7 DEF XInv

LEMMA AlwaysXInv == XSpec => []XInv
<1>1. XInv /\ [XNext]_xvars => XInv'
  BY SMTT(30), NextXInv
<1> QED BY InitXInv, <1>1, PTL DEF XSpec

-----------------------------------------------------------------------------
(* Theorems.                                                               *)

(* Every variable of the engine and of the claim protocol keeps its type:  *)
(* a renewal never sets a check-in beyond its period, whatever the order.  *)
THEOREM XTypeCorrect == XSpec => []XTypeOK
<1>1. XInv => XTypeOK
  BY Zenon DEF XInv, IInv, LocalInv, XTyped, XTypeOK
<1> QED BY AlwaysXInv, <1>1, PTL

(* ClaimTx gives out a step the claim picked from rows it read before the  *)
(* transaction; whatever handlers, workers, crashes and reconciliation did *)
(* in between, every step before it is still verified.                     *)
THEOREM ClaimsInOrder == XSpec => []StepsInOrder
<1>1. XInv => StepsInOrder
  <2> SUFFICES ASSUME XInv, NEW r \in External, NEW i \in Steps, xlease[r][i].claimed,
                      NEW k \in 1 .. (i - 1)
               PROVE  Verified(r, k)
    BY Zenon DEF StepsInOrder
  <2>1. r \in Run /\ k \in Steps
    BY Zenon, ActorAssumption, EarlierSteps
  <2>2. stepStatus[r][k] = "succeeded"
    <3>1. ClaimOK(r, i)
      BY ZenonT(30), <2>1 DEF XInv, ClaimInv
    <3> QED BY Zenon, <3>1 DEF ClaimOK, Claimed
  <2>3. effectState[r][k] = "verified"
    BY ZenonT(30), <2>1, <2>2 DEF XInv, IInv, SuccessInv, VerifiedInv
  <2> QED BY ZenonT(30), <2>2, <2>3 DEF Verified
<1> QED BY AlwaysXInv, <1>1, PTL

(* Neither the engine nor a receipt that comes late, under a superseded    *)
(* nonce or while the sweep is at work takes a reported ambiguity back.    *)
THEOREM AmbiguityStays == XSpec => AmbiguityIsFinal
<1>1. XInv /\ [XNext]_xvars =>
        [\A r \in Run, i \in Steps : effectState[r][i] = "effect-unknown" =>
            effectState'[r][i] = "effect-unknown"]_xvars
  BY Zenon, NextXInv DEF RowSafe
<1> QED BY AlwaysXInv, <1>1, PTL DEF XSpec, AmbiguityIsFinal

(* Settling a run after a receipt, like completing it in the engine, never *)
(* reports success while a step of it is not verified.                     *)
THEOREM ExternalSuccessIsVerified == XSpec => []SucceededIsVerified
<1>1. XInv => SucceededIsVerified
  BY Zenon DEF XInv, IInv, SuccessInv
<1> QED BY AlwaysXInv, <1>1, PTL

(* The store gives a step to one of the engine's workers or to the         *)
(* executor, never to both and never again: its target is changed at most  *)
(* once, provided the executor acts once on what it is given.              *)
THEOREM ExternalAtMostOnce == XSpec => []EffectAtMostOnce
<1>1. XInv => EffectAtMostOnce
  BY Zenon DEF XInv, IInv, EffectInv
<1> QED BY AlwaysXInv, <1>1, PTL

-----------------------------------------------------------------------------
(* What the record of a stopped run says of its targets, when an external  *)
(* executor carries out the plans and the requests that drive a run follow *)
(* one another.  A claim then finds no request of its run under way, so    *)
(* that until the step is closed nothing takes the run out of running      *)
(* without adding to its record.                                           *)

(* No request will stop the run but a cancel that leaves it running.       *)
Guarded(r) ==
    /\ status[r] = "running"
    /\ \A w \in Worker : pc[w] # "idle" /\ job[w].run = r =>
          pc[w] = "cancel" /\ job[w].to # "interrupted"

RowHonest(r, i) ==
    IF Claimed(r, i)
    THEN /\ stepStatus[r][i] \in {"running", "succeeded", "failed", "partial"}
         /\ \/ changed[r]
            \/ InFlight(r, i) /\ Guarded(r)
            \/ /\ effectState[r][i] = "verified"
               /\ xlease[r][i].sent /\ landed[r][i] = 0
    ELSE landed[r][i] = 0

HonestInv == \A r \in Run, i \in Steps : RowHonest(r, i)

(* A later step than i has been given out, or is about to be.              *)
Beyond(r, i) ==
    \/ \E k \in Steps : k > i /\ Claimed(r, k)
    \/ \E g \in Handler : hpc[g] = "claimTx" /\ hj[g].run = r /\ hj[g].step > i

(* A receipt that can finish a step is the executor's last word on it, and *)
(* a receipt that will end the run leaves no step of it in flight.         *)
ReceiptOK(p, j) ==
    /\ p \in {"record", "judge", "finish"} /\ j.receipt # "running" =>
          Claimed(j.run, j.step) /\ xlease[j.run][j.step].sent
    /\ p = "finish" => j.receipt \in {"succeeded", "failed"}
    /\ p \in {"release", "settle"} =>
          /\ Claimed(j.run, j.step)
          /\ j.to \in {"none", "succeeded", "failed", "interrupted"}
          /\ j.to = "failed" => stepStatus[j.run][j.step] = "failed"
          /\ j.to = "interrupted" =>
                /\ stepStatus[j.run][j.step] = "succeeded"
                /\ cancelRequested[j.run] /\ ~Beyond(j.run, j.step)

ReceiptInv == \A h \in Handler : ReceiptOK(hpc[h], hj[h])

HInv == XInv /\ HonestInv /\ ReceiptInv

-----------------------------------------------------------------------------
(* What steps do to the record of a run.                                   *)

(* Only run r moves, and no record loses what it says.                     *)
RunMoves(r) ==
    /\ \A q \in Run : q # r => status'[q] = status[q]
    /\ \A q \in Run : /\ changed[q] => changed'[q]
                      /\ cancelRequested[q] => cancelRequested'[q]

LEMMA TransitionMoves ==
    ASSUME RowTypeOK, NEW r \in Run, NEW from, NEW to, NEW chg, changed[r] => chg,
           TransitionRun(r, from, to, chg)
    PROVE  RunMoves(r)
<1>1. CASE TransitionKey(r, from, to) \in keys
  BY Zenon, <1>1 DEF TransitionRun, RunMoves, runVars
<1>2. CASE TransitionKey(r, from, to) \notin keys
  <2>1. /\ status' = [status EXCEPT ![r] = to] /\ changed' = [changed EXCEPT ![r] = chg]
        /\ cancelRequested' = cancelRequested
    BY Zenon, <1>2 DEF TransitionRun
  <2>2. status \in [Run -> RunStatus] /\ changed \in [Run -> BOOLEAN]
    BY Zenon DEF RowTypeOK
  <2>3. \A q \in Run : q # r => status'[q] = status[q] /\ changed'[q] = changed[q]
    BY Zenon, <2>1, <2>2
  <2>4. changed'[r] = chg
    BY Zenon, <2>1, <2>2
  <2> QED BY Zenon, <2>1, <2>3, <2>4 DEF RunMoves
<1> QED BY <1>1, <1>2

LEMMA CancellationMoves ==
    ASSUME RowTypeOK, NEW r \in Run, RequestCancellation(r) PROVE RunMoves(r)
<1>1. status' = status /\ changed' = changed
  BY Zenon DEF RequestCancellation
<1>2. \/ cancelRequested' = cancelRequested
      \/ cancelRequested' = [cancelRequested EXCEPT ![r] = TRUE]
  BY Zenon DEF RequestCancellation
<1>3. \A q \in Run : cancelRequested[q] => cancelRequested'[q]
  BY Zenon, <1>2 DEF RowTypeOK
<1> QED BY Zenon, <1>1, <1>3 DEF RunMoves

LEMMA StepMoves ==
    ASSUME RowTypeOK, NEW r \in Run, NEW i, NEW to, NEW chg,
           \/ BeginStep(r, i) \/ RecordReceipt(r, i)
           \/ FinishStep(r, i, to, chg) \/ CloseStep(r, i, to)
           \/ UNCHANGED runVars
    PROVE  RunMoves(r)
<1>1. CASE BeginStep(r, i) \/ RecordReceipt(r, i) \/ UNCHANGED runVars
  BY Zenon, <1>1 DEF BeginStep, RecordReceipt, runVars, RunMoves
<1>2. ASSUME NEW c, changed' = [changed EXCEPT ![r] = changed[r] \/ c],
             status' = status, cancelRequested' = cancelRequested
      PROVE  RunMoves(r)
  <2>1. changed \in [Run -> BOOLEAN]
    BY Zenon DEF RowTypeOK
  <2>2. \A q \in Run : changed[q] => changed'[q]
    BY Zenon, <1>2, <2>1
  <2> QED BY Zenon, <1>2, <2>2 DEF RunMoves
<1>3. CASE FinishStep(r, i, to, chg)
  BY Zenon, <1>2, <1>3 DEF FinishStep
<1>4. CASE CloseStep(r, i, to)
  BY Zenon, <1>1, <1>2, <1>4 DEF CloseStep, runVars
<1> QED BY <1>1, <1>3, <1>4

LEMMA EndMoves ==
    ASSUME RowTypeOK, NEW w, job[w].run \in Run, NEW from, NEW to, NEW chg,
           changed[job[w].run] => chg, EndWith(w, from, to, chg)
    PROVE  RunMoves(job[w].run) /\ Return(w)
<1>1. PICK r \in Run : r = job[w].run
  BY Zenon
<1>2. CASE TransitionRun(r, from, to, chg)
  BY Zenon, <1>1, <1>2, TransitionMoves DEF EndWith
<1>3. CASE UNCHANGED runVars
  BY Zenon, <1>1, <1>3, StepMoves DEF EndWith
<1> QED BY Zenon, <1>1, <1>2, <1>3 DEF EndWith

(* The worker returns or stays with its run.                               *)
KeepsRun(w) == \E p, j : GotoWith(w, p, j) /\ (p = "idle" \/ j.run = job[w].run)

LEMMA KeepsFacts ==
    ASSUME NEW w, NEW p, NEW i, NEW to,
           \/ Return(w) \/ Goto(w, p) \/ GotoWith(w, p, JobAt(job[w].run, i))
           \/ CloseAs(w, to) \/ SettleAs(w, to)
    PROVE  KeepsRun(w)
<1>1. CASE Return(w) \/ Goto(w, p)
  BY Zenon, <1>1 DEF Return, Goto, KeepsRun
<1>2. CASE GotoWith(w, p, JobAt(job[w].run, i))
  <2>1. PICK j : j = JobAt(job[w].run, i)
    BY Zenon
  <2>2. j.run = job[w].run
    BY <2>1 DEF JobAt
  <2> QED BY Zenon, <1>2, <2>1, <2>2 DEF KeepsRun
<1>3. CASE CloseAs(w, to) \/ SettleAs(w, to)
  <2>1. PICK j : j = [JobAt(job[w].run, job[w].step) EXCEPT !.to = to]
    BY Zenon
  <2>2. j.run = job[w].run
    BY <2>1 DEF JobAt
  <2>3. GotoWith(w, "close", j) \/ GotoWith(w, "settle", j)
    BY Zenon, <1>3, <2>1 DEF CloseAs, SettleAs
  <2> QED BY Zenon, <2>2, <2>3 DEF KeepsRun
<1> QED BY <1>1, <1>2, <1>3

(* A request in progress changes the record of its own run only.           *)
LEMMA CalmWorkMoves ==
    ASSUME XInv, NEW w \in Worker,
           \/ ActivateRefused(w) \/ ReleaseLast(w) \/ Acquire(w) \/ Dispatch(w)
           \/ EffectLands(w) \/ Execute(w) \/ Release(w) \/ ReleaseAll(w)
    PROVE  RunMoves(job[w].run) /\ KeepsRun(w) /\ pc[w] # "idle"
<1>1. RowTypeOK /\ job[w].run \in Run /\ job[w] \in Job
  BY Zenon, XFacts, JobFacts
<1>2. RunMoves(job[w].run)
  <2>1. UNCHANGED runVars
    BY ZenonT(30) DEF ActivateRefused, ReleaseLast, Acquire, Dispatch, EffectLands, Execute,
       Release, ReleaseAll, storeVars
  <2> QED BY Zenon, <1>1, <2>1, StepMoves
<1>3. pc[w] # "idle"
  BY ZenonT(30) DEF ActivateRefused, ReleaseLast, Acquire, Dispatch, EffectLands, Execute, Release,
     ReleaseAll
<1>4. CASE Execute(w) \/ EffectLands(w)
  <2>1. PICK j : /\ GotoWith(w, "returned", j) \/ GotoWith(w, "executing", j)
                 /\ \/ \E out, observed : j = [job[w] EXCEPT !.out = out, !.observed = observed]
                    \/ j = [job[w] EXCEPT !.changed = TRUE]
    BY ZenonT(30), <1>4 DEF Execute, EffectLands
  <2>2. j.run = job[w].run
    BY ZenonT(30), <1>1, <2>1 DEF Job
  <2> QED BY Zenon, <1>2, <1>3, <2>1, <2>2 DEF KeepsRun
<1>5. CASE ActivateRefused(w) \/ ReleaseLast(w) \/ Acquire(w) \/ Dispatch(w)
  BY Zenon, <1>2, <1>3, <1>5, KeepsFacts DEF ActivateRefused, ReleaseLast, Acquire, Dispatch
<1>6. CASE Release(w) \/ ReleaseAll(w)
  BY Zenon, <1>2, <1>3, <1>6, KeepsFacts DEF Release, ReleaseAll
<1> QED BY <1>4, <1>5, <1>6

LEMMA EndingMoves ==
    ASSUME XInv, NEW w \in Worker,
           \/ Start(w) \/ ResumeStart(w) \/ CancelAs(w) \/ Loop(w) \/ AdapterUnavailable(w)
           \/ LoopStopped(w) \/ Complete(w) \/ Settle(w)
    PROVE  RunMoves(job[w].run) /\ KeepsRun(w) /\ pc[w] # "idle"
<1>1. PICK r : r = job[w].run
  BY Zenon
<1>2. RowTypeOK /\ r \in Run
  BY ZenonT(30), <1>1, XFacts, JobFacts
<1>3. pc[w] # "idle"
  BY ZenonT(30) DEF Start, StartCentral, StartExternal, ResumeStart, CancelAs, Loop,
     AdapterUnavailable, LoopStopped, Complete, Settle
<1>4. CASE UNCHANGED runVars /\ KeepsRun(w)
  BY Zenon, <1>1, <1>2, <1>3, <1>4, StepMoves
<1>5. ASSUME NEW from, NEW to, NEW chg, changed[r] => chg, EndWith(w, from, to, chg)
      PROVE  RunMoves(r) /\ KeepsRun(w)
  BY Zenon, <1>1, <1>2, <1>5, EndMoves, KeepsFacts
<1>6. ASSUME NEW from, NEW to, TransitionRun(r, from, to, changed[r]), KeepsRun(w)
      PROVE  RunMoves(r) /\ KeepsRun(w)
  BY Zenon, <1>2, <1>6, TransitionMoves
<1>7. CASE Start(w)
  BY Zenon, <1>1, <1>3, <1>4, <1>5, <1>6, <1>7, KeepsFacts
     DEF Start, StartCentral, StartExternal
<1>8. CASE ResumeStart(w)
  BY Zenon, <1>1, <1>3, <1>4, <1>6, <1>8, KeepsFacts DEF ResumeStart
<1>9. CASE CancelAs(w)
  BY Zenon, <1>1, <1>2, <1>3, <1>4, <1>5, <1>9, KeepsFacts, CancellationMoves DEF CancelAs
<1>10. CASE Loop(w)
  BY Zenon, <1>1, <1>3, <1>4, <1>5, <1>10, KeepsFacts DEF Loop
<1>11. CASE AdapterUnavailable(w) \/ Complete(w) \/ Settle(w)
  BY Zenon, <1>1, <1>3, <1>4, <1>5, <1>11, KeepsFacts DEF AdapterUnavailable, Complete, Settle
<1>12. CASE LoopStopped(w)
  BY Zenon, <1>1, <1>3, <1>4, <1>6, <1>12, KeepsFacts DEF LoopStopped
<1> QED BY SMTT(30), <1>7, <1>8, <1>9, <1>10, <1>11, <1>12

LEMMA WorkMoves ==
    ASSUME XInv, NEW w \in Worker, Work(w)
    PROVE  RunMoves(job[w].run) /\ KeepsRun(w) /\ pc[w] # "idle"
<1>1. PICK r, i : r = job[w].run /\ i = job[w].step
  BY Zenon
<1>2. RowTypeOK /\ r \in Run
  BY Zenon, <1>1, XFacts, JobFacts
<1>3. CASE Begin(w)
  BY Zenon, <1>1, <1>2, <1>3, StepMoves, KeepsFacts DEF Begin
<1>4. CASE Returned(w)
  BY Zenon, <1>1, <1>2, <1>4, StepMoves, KeepsFacts DEF Returned
<1>5. CASE Verify(w)
  BY Zenon, <1>1, <1>2, <1>5, StepMoves, KeepsFacts DEF Verify
<1>6. CASE Close(w)
  BY Zenon, <1>1, <1>2, <1>6, StepMoves, KeepsFacts DEF Close
<1> QED BY Zenon, <1>3, <1>4, <1>5, <1>6, CalmWorkMoves, EndingMoves DEF Work

-----------------------------------------------------------------------------
(* The engine takes no run out of running while the executor works on it.  *)

LEMMA OnlyCancels ==
    ASSUME NEW w, Work(w), pc[w] = "cancel" PROVE CancelAs(w)
<1>1. /\ ~ActivateRefused(w) /\ ~Start(w) /\ ~ResumeStart(w) /\ ~Loop(w)
      /\ ~AdapterUnavailable(w) /\ ~LoopStopped(w) /\ ~ReleaseLast(w)
  BY DEF ActivateRefused, Start, StartCentral, StartExternal, ResumeStart, Loop,
     AdapterUnavailable, LoopStopped, ReleaseLast
<1>2. /\ ~Acquire(w) /\ ~Begin(w) /\ ~Dispatch(w) /\ ~EffectLands(w) /\ ~Execute(w)
  BY DEF Acquire, Begin, Dispatch, EffectLands, Execute
<1>3. /\ ~Returned(w) /\ ~Verify(w) /\ ~Release(w) /\ ~Complete(w) /\ ~Close(w)
      /\ ~ReleaseAll(w) /\ ~Settle(w)
  BY DEF Returned, Verify, Release, Complete, Close, ReleaseAll, Settle
<1> QED BY Zenon, <1>1, <1>2, <1>3 DEF Work

(* A cancel that saw no pause between two steps leaves the run running.    *)
LEMMA CancelGuards ==
    ASSUME XInv, NEW w \in Worker, CancelAs(w), job[w].to # "interrupted",
           status[job[w].run] = "running"
    PROVE  status' = status /\ Return(w)
<1>1. PICK r, seen, to : r = job[w].run /\ seen = job[w].seen /\ to = job[w].to
  BY Zenon
<1>2. /\ seen \in {"queued", "running", "interrupted"}
      /\ to \in {"running", "cancelled"}
  <2>1. pc[w] = "cancel"
    BY Zenon DEF CancelAs
  <2>2. JobOK(pc[w], job[w])
    BY Zenon, XFacts, JobFacts
  <2> QED BY <1>1, <2>1, <2>2 DEF JobOK
<1>3. CASE to = "running"
  BY Zenon, <1>1, <1>3 DEF CancelAs, RequestCancellation, runVars
<1>4. CASE to = "cancelled"
  <2>1. EndWith(w, seen, to, changed[r])
    <3>1. to # "running"
      BY <1>4
    <3> QED BY Zenon, <1>1, <3>1 DEF CancelAs
  <2>2. <<seen, to>> \in RunTransitions => seen # "running"
    BY <1>2, <1>4, SMTT(30) DEF RunTransitions
  <2>3. TransitionAllowed(r, seen, to) => TransitionKey(r, seen, to) \in keys
    BY Zenon, <1>1, <2>2 DEF TransitionAllowed
  <2> QED BY Zenon, <1>1, <2>1, <2>3 DEF EndWith, TransitionRun, runVars
<1> QED BY <1>2, <1>3, <1>4

LEMMA WorkGuards ==
    ASSUME XInv, NEW w \in Worker, Work(w), NEW r \in Run, Guarded(r)
    PROVE  Guarded(r)'
<1>1. RunMoves(job[w].run) /\ KeepsRun(w) /\ pc[w] # "idle"
  BY Zenon, WorkMoves
<1>2. pc \in [Worker -> PC] /\ job \in [Worker -> Job]
  BY Zenon, XFacts DEF WorkerTypeOK
<1>3. PICK p, j : GotoWith(w, p, j) /\ (p = "idle" \/ j.run = job[w].run)
  BY Zenon, <1>1 DEF KeepsRun
<1>4. /\ pc'[w] = p /\ job'[w] = j
      /\ \A v \in Worker : v # w => pc'[v] = pc[v] /\ job'[v] = job[v]
  BY Zenon, <1>2, <1>3 DEF GotoWith
<1>5. CASE job[w].run = r
  <2>1. pc[w] = "cancel" /\ job[w].to # "interrupted" /\ status[r] = "running"
    BY Zenon, <1>1, <1>5 DEF Guarded
  <2>2. status' = status /\ Return(w)
    BY Zenon, <1>5, <2>1, OnlyCancels, CancelGuards
  <2>3. pc'[w] = "idle"
    BY Zenon, <1>2, <2>2 DEF Return, GotoWith
  <2> QED BY Zenon, <1>4, <2>2, <2>3 DEF Guarded
<1>6. CASE job[w].run # r
  <2>1. status'[r] = status[r]
    BY Zenon, <1>1, <1>6 DEF RunMoves
  <2>2. pc'[w] = "idle" \/ job'[w].run # r
    BY Zenon, <1>3, <1>4, <1>6
  <2> QED BY Zenon, <1>4, <2>1, <2>2 DEF Guarded
<1> QED BY <1>5, <1>6

LEMMA RequestMoves ==
    ASSUME XInv, NEW w \in Worker, NEW q \in Run, Request(w, q)
    PROVE  /\ RunMoves(q)
           /\ status'[q] = status[q] \/ status[q] = "none"
<1>1. RowTypeOK
  BY Zenon, XFacts
<1>2. CASE Submit(w, q) /\ Create(q)
  <2>1. /\ status[q] = "none" /\ status' = [status EXCEPT ![q] = "queued"]
        /\ changed' = changed /\ cancelRequested' = cancelRequested
    BY Zenon, <1>2 DEF Create
  <2>2. \A s \in Run : s # q => status'[s] = status[s]
    BY Zenon, <1>1, <2>1 DEF RowTypeOK
  <2> QED BY Zenon, <2>1, <2>2 DEF RunMoves
<1>3. CASE UNCHANGED storeVars
  BY Zenon, <1>3 DEF storeVars, runVars, RunMoves
<1> QED BY Zenon, <1>2, <1>3 DEF Request, Submit, Resume, Cancel

LEMMA RequestGuards ==
    ASSUME XInv, NEW w \in Worker, NEW q \in Run, Request(w, q),
           NEW r \in Run, NEW i \in Steps, Guarded(r), InFlight(r, i)
    PROVE  Guarded(r)'
<1>1. status[r] = "running"
  BY Zenon DEF Guarded
<1>2. pc \in [Worker -> PC] /\ job \in [Worker -> Job] /\ RowTypeOK
  BY Zenon, XFacts DEF WorkerTypeOK
<1>3. status'[r] = status[r]
  <2>1. status[r] # "none"
    BY <1>1
  <2> QED BY Zenon, <2>1, RequestMoves DEF RunMoves
<1>4. PICK p, j : GotoWith(w, p, j) /\ (j.run # r \/ (p = "cancel" /\ j.to = "running"))
  <2>1. CASE Submit(w, q) \/ Resume(w, q)
    <3>1. PICK j, p : GotoWith(w, p, j) /\ j = JobAt(q, 1)
      BY Zenon, <2>1 DEF Submit, Resume
    <3>2. j.run = q
      BY SMTT(30), <3>1 DEF JobAt
    <3>3. status[q] # "running"
      BY <2>1 DEF Submit, Resume, Create
    <3>4. j.run # r
      BY <1>1, <3>2, <3>3
    <3> QED BY Zenon, <3>1, <3>4
  <2>2. CASE Cancel(w, q) /\ q # r
    <3>1. PICK j, seen, to : /\ GotoWith(w, "cancel", j)
                             /\ j = [JobAt(q, 1) EXCEPT !.seen = seen, !.to = to]
      BY ZenonT(30), <2>2 DEF Cancel
    <3>2. j.run = q
      BY <3>1 DEF JobAt
    <3> QED BY Zenon, <2>2, <3>1, <3>2
  <2>3. CASE Cancel(w, q) /\ q = r
    <3>1. PICK j, to : /\ GotoWith(w, "cancel", j)
                       /\ j = [JobAt(q, 1) EXCEPT !.seen = status[q], !.to = to]
                       /\ to = CASE status[q] # "running" -> "cancelled"
                                 [] /\ status[q] = "running" /\ q \in External
                                    /\ \A k \in Steps :
                                          /\ stepStatus[q][k] # "running"
                                          /\ effectState[q][k] \notin
                                                {"intent-recorded", "receipt-recorded"}
                                    -> "interrupted"
                                 [] OTHER -> "running"
      BY ZenonT(30), <2>3 DEF Cancel
    <3>2. to = "running"
      <4>1. stepStatus[q][i] = "running"
        BY Zenon, <2>3 DEF InFlight
      <4> QED BY Zenon, <1>1, <2>3, <3>1, <4>1
    <3>3. j.to = to
      BY <3>1 DEF JobAt
    <3> QED BY Zenon, <3>1, <3>2, <3>3
  <2> QED BY Zenon, <2>1, <2>2, <2>3 DEF Request
<1>5. /\ pc'[w] = p /\ job'[w] = j
      /\ \A v \in Worker : v # w => pc'[v] = pc[v] /\ job'[v] = job[v]
  BY Zenon, <1>2, <1>4 DEF GotoWith
<1>6. Guarded(r)'
  <2> SUFFICES ASSUME NEW v \in Worker, pc'[v] # "idle", job'[v].run = r
               PROVE  pc'[v] = "cancel" /\ job'[v].to # "interrupted"
    BY Zenon, <1>1, <1>3 DEF Guarded
  <2>1. CASE v = w
    BY SMTT(30), <1>4, <1>5, <2>1
  <2>2. CASE v # w
    BY Zenon, <1>5, <2>2 DEF Guarded
  <2> QED BY <2>1, <2>2
<1> QED BY <1>6

LEMMA SameGuards ==
    ASSUME NEW r, status'[r] = status[r], Guarded(r),
           \A w \in Worker : \/ pc'[w] = "idle"
                             \/ /\ pc'[w] = pc[w]
                                /\ job'[w].run = job[w].run /\ job'[w].to = job[w].to
    PROVE  Guarded(r)'
BY Zenon DEF Guarded

(* A row nobody touches stays honest.                                      *)
LEMMA HonestStays ==
    ASSUME NEW r \in Run, NEW i \in Steps, RowHonest(r, i),
           Claimed(r, i)' <=> Claimed(r, i), landed'[r][i] = landed[r][i],
           xlease[r][i].sent => xlease'[r][i].sent, changed[r] => changed'[r],
           /\ Claimed(r, i)
           /\ stepStatus[r][i] \in {"running", "succeeded", "failed", "partial"}
           => stepStatus'[r][i] = stepStatus[r][i] /\ effectState'[r][i] = effectState[r][i],
           Claimed(r, i) /\ InFlight(r, i) /\ Guarded(r) => changed'[r] \/ Guarded(r)'
    PROVE  RowHonest(r, i)'
<1>1. CASE Claimed(r, i)
  <2>1. stepStatus[r][i] \in {"running", "succeeded", "failed", "partial"}
    BY Zenon, <1>1 DEF RowHonest
  <2>2. stepStatus'[r][i] = stepStatus[r][i] /\ effectState'[r][i] = effectState[r][i]
    BY Zenon, <1>1, <2>1
  <2>3. CASE changed[r]
    BY Zenon, <1>1, <2>1, <2>2, <2>3 DEF RowHonest
  <2>4. CASE InFlight(r, i) /\ Guarded(r)
    <3>1. InFlight(r, i)'
      BY Zenon, <2>2, <2>4 DEF InFlight
    <3> QED BY Zenon, <1>1, <2>1, <2>2, <2>4, <3>1 DEF RowHonest
  <2>5. CASE effectState[r][i] = "verified" /\ xlease[r][i].sent /\ landed[r][i] = 0
    BY Zenon, <1>1, <2>1, <2>2, <2>5 DEF RowHonest
  <2> QED BY Zenon, <1>1, <2>3, <2>4, <2>5 DEF RowHonest
<1>2. CASE ~Claimed(r, i)
  BY Zenon, <1>2 DEF RowHonest
<1> QED BY <1>1, <1>2

(* No lease row is claimed, and none loses the executor's last word.       *)
SentRemain ==
    \A r \in Run, i \in Steps :
       /\ Claimed(r, i)' <=> Claimed(r, i)
       /\ xlease[r][i].sent => xlease'[r][i].sent

CancelsRemain == \A r \in Run : cancelRequested[r] => cancelRequested'[r]

LEMMA WorkHonest ==
    ASSUME HInv, External = Run, SentRemain, NEW w \in Worker,
           Work(w) \/ \E q \in Run : Request(w, q)
    PROVE  HonestInv' /\ CancelsRemain
<1> USE DEF HInv
<1>1. ClaimsAlone
  BY Zenon, WorkSafe, RequestSafe
<1>2. job[w].run \in Run
  BY Zenon, XFacts, JobFacts
<1>3. (\A r \in Run : changed[r] => changed'[r]) /\ CancelsRemain
  <2>1. PICK q : RunMoves(q)
    BY Zenon, WorkMoves, RequestMoves
  <2> QED BY Zenon, <2>1 DEF RunMoves, CancelsRemain
<1>4. landed' = landed
  <2>1. CASE Work(w)
    <3>1. ~EffectLands(w)
      BY Zenon, <1>2 DEF EffectLands
    <3>2. CASE Begin(w) \/ Dispatch(w) \/ Execute(w) \/ Returned(w) \/ Verify(w) \/ Close(w)
      BY Zenon, <3>2 DEF Begin, Dispatch, Execute, Returned, Verify, Close, worldVars
    <3>3. CASE Quiet(w)
      BY Zenon, <3>3 DEF Quiet, Calm, worldVars
    <3> USE XFacts
    <3>4. CASE ActivateRefused(w) \/ Start(w) \/ ResumeStart(w) \/ CancelAs(w)
      BY Zenon, <3>3, <3>4, QuietOpening, QuietStart, QuietResumeStart, QuietCancelAs DEF Start
    <3>5. CASE Loop(w) \/ AdapterUnavailable(w) \/ LoopStopped(w) \/ Complete(w) \/ Settle(w)
      BY Zenon, <3>3, <3>5, QuietLoop, QuietUnavailable, QuietStopped, QuietComplete, QuietSettle
    <3>6. CASE ReleaseLast(w) \/ Acquire(w) \/ Release(w) \/ ReleaseAll(w)
      BY Zenon, <3>3, <3>6, QuietReleases, QuietAcquire, QuietRelease
    <3> QED BY Zenon, <2>1, <3>1, <3>2, <3>4, <3>5, <3>6 DEF Work
  <2>2. CASE \E q \in Run : Request(w, q)
    BY Zenon, <2>2 DEF Request, Submit, Resume, Cancel, worldVars
  <2> QED BY <2>1, <2>2
<1>5. ASSUME NEW r \in Run, NEW i \in Steps PROVE RowHonest(r, i)'
  <2>1. RowHonest(r, i)
    BY Zenon DEF HonestInv
  <2>2. InFlight(r, i) /\ Guarded(r) => Guarded(r)'
    BY Zenon, WorkGuards, RequestGuards
  <2> QED BY Zenon, <1>1, <1>3, <1>4, <2>1, <2>2, HonestStays DEF ClaimsAlone, SentRemain
<1> QED BY Zenon, <1>3, <1>5 DEF HonestInv

(* Steps that move no worker and change no run or just one.                *)
NoWorkerMoves == pc' = pc /\ job' = job /\ landed' = landed

LEMMA CalmHonest ==
    ASSUME HInv, SentRemain, UNCHANGED runVars, landed' = landed,
           \A r \in Run : Guarded(r) => Guarded(r)'
    PROVE  HonestInv' /\ CancelsRemain
<1>1. /\ changed' = changed /\ cancelRequested' = cancelRequested
      /\ stepStatus' = stepStatus /\ effectState' = effectState
  BY Zenon DEF runVars
<1>2. ASSUME NEW r \in Run, NEW i \in Steps PROVE RowHonest(r, i)'
  <2>1. RowHonest(r, i)
    BY Zenon DEF HInv, HonestInv
  <2> QED BY Zenon, <1>1, <2>1, HonestStays DEF SentRemain
<1> QED BY Zenon, <1>1, <1>2 DEF HonestInv, CancelsRemain

LEMMA StillHonest ==
    ASSUME HInv, SentRemain, UNCHANGED runVars, NoWorkerMoves
    PROVE  HonestInv' /\ CancelsRemain
<1>1. \A r \in Run : Guarded(r) => Guarded(r)'
  BY Zenon, SameGuards DEF NoWorkerMoves, runVars
<1> QED BY Zenon, <1>1, CalmHonest DEF NoWorkerMoves

LEMMA SentSame == ASSUME xlease' = xlease PROVE SentRemain
BY Zenon DEF SentRemain, Claimed

LEMMA MarkedHonest ==
    ASSUME HInv, NEW q \in Run, NEW k \in Steps, CloseAllowed(q, k, "partial"),
           CloseStep(q, k, "partial"), NoWorkerMoves, xlease' = xlease
    PROVE  HonestInv' /\ CancelsRemain
<1>1. CASE CloseKey(q, k, "partial") \in keys
  <2>1. UNCHANGED runVars
    BY Zenon, <1>1 DEF CloseStep
  <2> QED BY Zenon, <2>1, SentSame, StillHonest
<1>2. CASE CloseKey(q, k, "partial") \notin keys
  <2>1. RowTypeOK
    BY Zenon, XFacts DEF HInv
  <2>2. /\ status' = status /\ cancelRequested' = cancelRequested
        /\ stepStatus' = [stepStatus EXCEPT ![q][k] = "partial"]
        /\ effectState' = [effectState EXCEPT ![q][k] = "effect-unknown"]
        /\ changed' = [changed EXCEPT ![q] = TRUE]
    BY Zenon, <1>2 DEF CloseStep
  <2>3. /\ stepStatus'[q][k] = "partial" /\ changed'[q]
        /\ \A r \in Run : changed[r] => changed'[r]
        /\ \A r \in Run, i \in Steps : r # q \/ i # k =>
              stepStatus'[r][i] = stepStatus[r][i] /\ effectState'[r][i] = effectState[r][i]
    BY Zenon, <2>1, <2>2 DEF RowTypeOK
  <2>4. ASSUME NEW r \in Run, NEW i \in Steps PROVE RowHonest(r, i)'
    <3>1. RowHonest(r, i) /\ (Claimed(r, i)' <=> Claimed(r, i))
      BY Zenon, SentSame DEF HInv, HonestInv, SentRemain
    <3>2. Guarded(r) => Guarded(r)'
      BY Zenon, <2>2, SameGuards DEF NoWorkerMoves
    <3>3. CASE r = q /\ i = k
      BY Zenon, <2>3, <3>1, <3>3 DEF RowHonest, NoWorkerMoves
    <3>4. CASE r # q \/ i # k
      BY Zenon, <2>3, <3>1, <3>2, <3>4, HonestStays DEF NoWorkerMoves
    <3> QED BY SMTT(30), <3>3, <3>4
  <2> QED BY Zenon, <2>2, <2>4 DEF HonestInv, CancelsRemain
<1> QED BY <1>1, <1>2

LEMMA TransitionHonest ==
    ASSUME HInv, NEW q \in Run, NEW to \in RunStatus, NEW chg \in BOOLEAN,
           changed[q] => chg, TransitionRun(q, "running", to, chg),
           \/ chg \/ TransitionKey(q, "running", to) \in keys
           \/ \A i \in Steps : Claimed(q, i) => ~InFlight(q, i),
           NoWorkerMoves, xlease' = xlease
    PROVE  HonestInv' /\ CancelsRemain
<1>1. CASE TransitionKey(q, "running", to) \in keys
  <2>1. UNCHANGED runVars
    BY Zenon, <1>1 DEF TransitionRun
  <2> QED BY Zenon, <2>1, SentSame, StillHonest
<1>2. CASE TransitionKey(q, "running", to) \notin keys
  <2>1. RowTypeOK /\ XInv
    BY Zenon, XFacts DEF HInv
  <2>2. RowsKept /\ RunMoves(q)
    <3>1. "running" \in RunStatus
      BY Zenon DEF RunStatus
    <3> QED BY Zenon, <2>1, <3>1, TransitionFacts, TransitionMoves
  <2>3. ClaimsAlone
    BY Zenon, <2>1, <2>2, KeptSafe DEF NoWorkerMoves
  <2>4. changed'[q] = chg
    BY ZenonT(30), <1>2, <2>1 DEF TransitionRun, RowTypeOK
  <2>5. ASSUME NEW r \in Run, NEW i \in Steps PROVE RowHonest(r, i)'
    <3>1. RowHonest(r, i) /\ (Claimed(r, i)' <=> Claimed(r, i))
      BY Zenon, SentSame DEF HInv, HonestInv, SentRemain
    <3>2. Claimed(r, i) /\ InFlight(r, i) /\ Guarded(r) => changed'[r] \/ Guarded(r)'
      <4>1. CASE r = q
        BY Zenon, <1>2, <2>4, <4>1
      <4>2. CASE r # q
        BY Zenon, <2>2, <4>2, SameGuards DEF RunMoves, NoWorkerMoves
      <4> QED BY SMTT(30), <4>1, <4>2
    <3>3. changed[r] => changed'[r]
      BY Zenon, <2>2 DEF RunMoves
    <3> QED BY Zenon, <2>3, <3>1, <3>2, <3>3, HonestStays DEF NoWorkerMoves, ClaimsAlone
  <2> QED BY ZenonT(30), <2>2, <2>5 DEF HonestInv, CancelsRemain, RunMoves
<1> QED BY SMTT(30), <1>1, <1>2

LEMMA ServerHonest ==
    ASSUME HInv, SentRemain, Tick \/ Shutdown \/ Crash \/ Restart
    PROVE  HonestInv' /\ CancelsRemain
<1>1. UNCHANGED runVars /\ landed' = landed
  BY Zenon DEF Tick, Shutdown, Crash, Restart, storeVars, worldVars
<1>2. ASSUME NEW r \in Run, Guarded(r) PROVE Guarded(r)'
  <2>1. \A w \in Worker : \/ pc'[w] = "idle"
                          \/ /\ pc'[w] = pc[w]
                             /\ job'[w].run = job[w].run /\ job'[w].to = job[w].to
    <3>1. CASE Tick
      BY Zenon, <3>1, XFacts, TickJob DEF Tick, HInv
    <3>2. CASE Crash
      BY Zenon, <3>2 DEF Crash
    <3>3. CASE Shutdown \/ Restart
      BY Zenon, <3>3 DEF Shutdown, Restart, workerVars
    <3> QED BY SMTT(30), <3>1, <3>2, <3>3
  <2> QED BY Zenon, <1>1, <1>2, <2>1, SameGuards DEF runVars
<1> QED BY Zenon, <1>1, <1>2, CalmHonest

LEMMA ReconcileHonest ==
    ASSUME HInv, Reconcile, xlease' = xlease
    PROVE  HonestInv' /\ CancelsRemain
<1>1. NoWorkerMoves
  BY Zenon DEF Reconcile, ReconcileRelease, ReconcileMark, ReconcileSettle, ReconcileDone,
     workerVars, worldVars, NoWorkerMoves
<1>2. CASE UNCHANGED runVars
  BY Zenon, <1>1, <1>2, SentSame, StillHonest
<1>3. ASSUME NEW q \in Run, NEW k \in Steps, ReconcileMark(q, k)
      PROVE  HonestInv' /\ CancelsRemain
  BY Zenon, <1>1, <1>3, MarkedHonest DEF ReconcileMark
<1>4. ASSUME NEW q \in Run, ReconcileSettle(q), status[q] = "running"
      PROVE  HonestInv' /\ CancelsRemain
  <2> DEFINE chg == changed[q] \/ Verdict(q) = "partial"
  <2>1. /\ TransitionRun(q, "running", Verdict(q), chg) /\ chg \in BOOLEAN
        /\ \A i \in Steps : ~InFlight(q, i)
    BY Zenon, <1>4 DEF ReconcileSettle
  <2>2. changed[q] => chg
    BY Zenon
  <2>3. Verdict(q) \in RunStatus
    BY Zenon, VerdictFacts
  <2> HIDE DEF chg
  <2> QED BY Zenon, <1>1, <2>1, <2>2, <2>3, TransitionHonest
<1> QED
  BY Zenon, <1>2, <1>3, <1>4
     DEF Reconcile, ReconcileRelease, ReconcileSettle, ReconcileDone, storeVars
=============================================================================

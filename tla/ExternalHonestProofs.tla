------------------------ MODULE ExternalHonestProofs ------------------------
(***************************************************************************)
(* The record of a stopped external run can be trusted when the requests   *)
(* that drive a run follow one another.                                    *)
(*                                                                         *)
(* What each handler does to the record comes first.  A receipt is applied *)
(* in several transactions: what its handler relies on stays true between  *)
(* them.                                                                   *)
(***************************************************************************)
EXTENDS ExternalExecutorProofs

-----------------------------------------------------------------------------
(* The handlers.                                                           *)

LEMMA NobodyMoves == ASSUME UNCHANGED <<engineVars, worldVars>> PROVE NoWorkerMoves
BY Zenon DEF engineVars, workerVars, worldVars, NoWorkerMoves

LEMMA RowSent ==
    ASSUME XInv, NEW r \in Run, NEW i \in Steps, NEW row,
           xlease' = [xlease EXCEPT ![r][i] = row], row.claimed = xlease[r][i].claimed,
           xlease[r][i].sent => row.sent
    PROVE  SentRemain /\ xlease'[r][i] = row
<1>1. xlease \in [Run -> [Steps -> LeaseRow]]
  BY Zenon DEF XInv, XTyped
<1>2. ASSUME NEW q \in Run, NEW k \in Steps
      PROVE  \/ q = r /\ k = i /\ xlease'[q][k] = row
             \/ xlease'[q][k] = xlease[q][k]
  BY Zenon, <1>1
<1>3. xlease'[r][i] = row
  BY Zenon, <1>1
<1> QED BY Zenon, <1>2, <1>3 DEF SentRemain, Claimed

LEMMA ExpireSent == ASSUME XInv, NEW h \in Handler, Expire(h) PROVE SentRemain
<1>1. PICK due : xlease' = [r \in Run |-> [i \in Steps |->
                              [xlease[r][i] EXCEPT !.expired = @ \/ <<r, i>> \in due]]]
  BY Zenon DEF Expire
<1>2. ASSUME NEW r \in Run, NEW i \in Steps
      PROVE  /\ xlease'[r][i].claimed = xlease[r][i].claimed
             /\ xlease'[r][i].sent = xlease[r][i].sent
  <2>1. PICK row \in LeaseRow : row = xlease[r][i]
    BY Zenon DEF XInv, XTyped
  <2>2. PICK e : xlease'[r][i] = [row EXCEPT !.expired = e]
    BY Zenon, <1>1, <2>1
  <2>3. /\ [row EXCEPT !.expired = e].claimed = row.claimed
        /\ [row EXCEPT !.expired = e].sent = row.sent
    BY Zenon DEF LeaseRow
  <2> QED BY Zenon, <2>1, <2>2, <2>3
<1> QED BY Zenon, <1>2 DEF SentRemain, Claimed

LEMMA TickSent == ASSUME XInv, XTick PROVE SentRemain
<1>1. xlease' = [r \in Run |-> [i \in Steps |->
                   [xlease[r][i] EXCEPT !.left = CountDown(@), !.next = CountDown(@)]]]
  BY Zenon DEF XTick
<1>2. ASSUME NEW r \in Run, NEW i \in Steps
      PROVE  /\ xlease'[r][i].claimed = xlease[r][i].claimed
             /\ xlease'[r][i].sent = xlease[r][i].sent
  <2>1. PICK row \in LeaseRow : row = xlease[r][i]
    BY Zenon DEF XInv, XTyped
  <2>2. PICK a, b : xlease'[r][i] = [row EXCEPT !.left = a, !.next = b]
    BY ZenonT(30), <1>1, <2>1
  <2>3. /\ [row EXCEPT !.left = a, !.next = b].claimed = row.claimed
        /\ [row EXCEPT !.left = a, !.next = b].sent = row.sent
    BY Zenon DEF LeaseRow
  <2> QED BY Zenon, <2>1, <2>2, <2>3
<1> QED BY Zenon, <1>2 DEF SentRemain, Claimed

LEMMA RenewSent == ASSUME XInv, NEW h \in Handler, RenewTx(h) PROVE SentRemain
<1>1. PICK r \in Run, i \in Steps : r = hj[h].bound[1] /\ i = hj[h].bound[2]
  BY Zenon, HandlerFacts
<1>2. CASE xlease' = xlease
  BY Zenon, <1>2, SentSame
<1>3. CASE xlease' # xlease
  <2>1. PICK row \in LeaseRow : row = xlease[r][i]
    BY Zenon DEF XInv, XTyped
  <2>2. PICK m, n : m = row.nonce + 1
                    /\ n = IF row.left < CheckInSeconds THEN row.left ELSE CheckInSeconds
    BY Zenon
  <2>3. PICK new : new = [row EXCEPT !.nonce = m, !.next = n]
    BY Zenon
  <2>4. new.claimed = row.claimed /\ new.sent = row.sent
    BY Zenon, <2>1, <2>3 DEF LeaseRow
  <2>5. xlease' = [xlease EXCEPT ![r][i] = new]
    <3>1. xlease' = [xlease EXCEPT ![r][i].nonce = @ + 1,
                                   ![r][i].next = IF row.left < CheckInSeconds THEN row.left
                                                  ELSE CheckInSeconds]
      BY Zenon, <1>1, <1>3, <2>1 DEF RenewTx
    <3>2. xlease \in [Run -> [Steps -> LeaseRow]]
      BY Zenon DEF XInv, XTyped
    <3> QED BY Zenon, <2>1, <2>2, <2>3, <3>1, <3>2
  <2> QED BY Zenon, <2>1, <2>4, <2>5, RowSent
<1> QED BY <1>2, <1>3

LEMMA ReceiptSent ==
    ASSUME XInv, NEW h \in Handler, NEW r \in Run, NEW i \in Steps, NEW n,
           NEW st, StartReceipt(h, r, i, n, st)
    PROVE  SentRemain /\ (st # "running" => xlease'[r][i].sent)
<1>1. PICK row \in LeaseRow : row = xlease[r][i]
  BY Zenon DEF XInv, XTyped
<1>2. PICK s : s = (row.sent \/ st # "running")
  BY Zenon
<1>3. PICK new : new = [row EXCEPT !.sent = s]
  BY Zenon
<1>4. new.claimed = row.claimed /\ new.sent = s
  BY Zenon, <1>1, <1>3 DEF LeaseRow
<1>5. xlease' = [xlease EXCEPT ![r][i] = new]
  BY Zenon, <1>1, <1>2, <1>3 DEF StartReceipt, XInv, XTyped
<1>6. new.claimed = xlease[r][i].claimed /\ (xlease[r][i].sent => new.sent)
  BY Zenon, <1>1, <1>2, <1>4
<1>7. SentRemain /\ xlease'[r][i] = new
  BY Zenon, <1>5, <1>6, RowSent
<1>8. st # "running" => s
  BY Zenon, <1>2
<1>9. st # "running" => new.sent
  BY Zenon, <1>4, <1>8
<1> QED BY Zenon, <1>7, <1>9

LEMMA RecordSent ==
    ASSUME XInv, NEW h \in Handler, RecordObservation(h) PROVE SentRemain
<1>1. PICK r \in Run, i \in Steps : r = hj[h].run /\ i = hj[h].step
  BY Zenon, HandlerFacts
<1>2. PICK row \in LeaseRow : row = xlease[r][i]
  BY Zenon DEF XInv, XTyped
<1>3. CASE xlease' = xlease
  BY Zenon, <1>3, SentSame
<1>4. CASE xlease' # xlease
  <2>1. PICK e, f : xlease' = [xlease EXCEPT ![r][i].expired = @ \/ e, ![r][i].final = @ \/ f]
    <3>1. PICK e, f : /\ e = (Active(hj[h].run, hj[h].step) /\ ~hj[h].live)
                      /\ f = (hj[h].receipt # "running")
      BY Zenon
    <3>2. xlease' = [xlease EXCEPT
             ![hj[h].run][hj[h].step].expired =
                @ \/ (Active(hj[h].run, hj[h].step) /\ ~hj[h].live),
             ![hj[h].run][hj[h].step].final = @ \/ (hj[h].receipt # "running")]
      BY Zenon, <1>4 DEF RecordObservation
    <3>3. xlease' = [xlease EXCEPT ![hj[h].run][hj[h].step].expired = @ \/ e,
                                   ![hj[h].run][hj[h].step].final = @ \/ f]
      BY Zenon, <3>1, <3>2
    <3>4. xlease' = [xlease EXCEPT ![r][i].expired = @ \/ e, ![r][i].final = @ \/ f]
      BY Zenon, <1>1, <3>3
    <3> QED BY Zenon, <3>4
  <2>2. PICK new : new = [row EXCEPT !.expired = row.expired \/ e, !.final = row.final \/ f]
    BY Zenon
  <2>3. new.claimed = row.claimed /\ new.sent = row.sent
    BY Zenon, <1>2, <2>2 DEF LeaseRow
  <2>4. xlease' = [xlease EXCEPT ![r][i] = new]
    <3>1. xlease \in [Run -> [Steps -> LeaseRow]]
      BY Zenon DEF XInv, XTyped
    <3> QED BY Zenon, <1>2, <2>1, <2>2, <3>1
  <2> QED BY Zenon, <1>2, <2>3, <2>4, RowSent
<1> QED BY <1>3, <1>4

LEMMA StartsHonest ==
    ASSUME HInv, NEW h \in Handler, ExecutorRequest(h)
    PROVE  HonestInv' /\ CancelsRemain /\ SentRemain
<1>1. UNCHANGED vars
  <2>1. ASSUME NEW r \in Run, NEW i \in Steps, NEW n, NEW st, StartReceipt(h, r, i, n, st)
        PROVE  UNCHANGED vars
    BY Zenon, <2>1 DEF StartReceipt
  <2>2. ASSUME NEW r \in Run, NEW i \in Steps, NEW n, StartRenew(h, r, i, n)
        PROVE  UNCHANGED vars
    BY Zenon, <2>2 DEF StartRenew
  <2>3. CASE StartSweep(h) \/ StartClaim(h)
    BY Zenon, <2>3 DEF StartSweep, StartClaim
  <2> QED BY Zenon, <2>1, <2>2, <2>3 DEF ExecutorRequest
<1>2. SentRemain
  <2>1. ASSUME NEW r \in Run, NEW i \in Steps, NEW n, NEW st, StartReceipt(h, r, i, n, st)
        PROVE  SentRemain
    BY Zenon, <2>1, ReceiptSent DEF HInv
  <2>2. CASE xlease' = xlease
    BY Zenon, <2>2, SentSame
  <2> QED BY Zenon, <2>1, <2>2 DEF ExecutorRequest, StartSweep, StartClaim, StartRenew
<1>3. UNCHANGED runVars /\ NoWorkerMoves
  BY Zenon, <1>1 DEF vars, storeVars, workerVars, worldVars, NoWorkerMoves
<1> QED BY Zenon, <1>2, <1>3, StillHonest

LEMMA ReadsHonest ==
    ASSUME HInv, NEW h \in Handler,
           \/ Expire(h) \/ Each(h) \/ CloseLease(h) \/ ClaimRead(h) \/ RenewRead(h)
           \/ RenewTx(h) \/ Judge(h) \/ ReleaseReceipt(h)
    PROVE  HonestInv' /\ CancelsRemain /\ SentRemain
<1>1. SentRemain
  BY Zenon, SentSame, ExpireSent, RenewSent
     DEF Each, CloseLease, ClaimRead, RenewRead, Judge, ReleaseReceipt, HInv
<1>2. UNCHANGED runVars /\ NoWorkerMoves
  <2>1. CASE UNCHANGED vars
    BY Zenon, <2>1 DEF vars, storeVars, workerVars, worldVars, NoWorkerMoves
  <2>2. CASE UNCHANGED <<runVars, engineVars, worldVars>>
    BY Zenon, <2>2, NobodyMoves
  <2> QED BY Zenon, <2>1, <2>2
             DEF Expire, Each, CloseLease, ClaimRead, RenewRead, RenewTx, Judge, ReleaseReceipt
<1> QED BY Zenon, <1>1, <1>2, StillHonest

LEMMA MarkHonest ==
    ASSUME HInv, NEW h \in Handler, Mark(h)
    PROVE  HonestInv' /\ CancelsRemain /\ SentRemain
<1>1. PICK r \in Run, i \in Steps : r = hj[h].run /\ i = hj[h].step
  BY Zenon, HandlerFacts DEF HInv
<1>2. NoWorkerMoves /\ xlease' = xlease
  BY Zenon, NobodyMoves DEF Mark
<1>3. \/ UNCHANGED runVars
      \/ CloseAllowed(r, i, "partial") /\ CloseStep(r, i, "partial")
  BY Zenon, <1>1 DEF Mark
<1> QED BY Zenon, <1>2, <1>3, SentSame, StillHonest, MarkedHonest

LEMMA ToPartialHonest ==
    ASSUME HInv, NEW h \in Handler, ToPartial(h)
    PROVE  HonestInv' /\ CancelsRemain /\ SentRemain
<1>1. PICK r \in Run : r = hj[h].run
  BY Zenon, HandlerFacts DEF HInv
<1>2. NoWorkerMoves /\ xlease' = xlease
  BY Zenon, NobodyMoves DEF ToPartial
<1>3. UNCHANGED runVars \/ TransitionRun(r, "running", "partial", TRUE)
  BY Zenon, <1>1 DEF ToPartial
<1>4. "partial" \in RunStatus /\ TRUE \in BOOLEAN
  BY Zenon DEF RunStatus
<1> QED BY Zenon, <1>2, <1>3, <1>4, SentSame, StillHonest, TransitionHonest

(* When a receipt ends its run, no step of the executor's is in flight.    *)
LEMMA SettledSteps ==
    ASSUME XInv, NEW r \in Run, NEW i \in Steps, Claimed(r, i),
           NEW k \in Steps, Claimed(r, k),
           stepStatus[r][i] = "failed" \/ (stepStatus[r][i] = "succeeded" /\ ~Beyond(r, i))
    PROVE  stepStatus[r][k] # "running"
<1>1. CASE k = i
  BY SMTT(30), <1>1
<1>2. CASE k > i
  <2>1. stepStatus[r][i] # "succeeded"
    BY Zenon, <1>2 DEF Beyond
  <2>2. i \in 1 .. (k - 1)
    BY SMTT(30), <1>2, NStepsAssumption DEF Steps
  <2> QED BY Zenon, <2>1, <2>2 DEF XInv, ClaimInv, ClaimOK
<1>3. CASE k < i
  <2>1. k \in 1 .. (i - 1)
    BY <1>3, NStepsAssumption DEF Steps
  <2>2. stepStatus[r][k] = "succeeded"
    BY Zenon, <2>1 DEF XInv, ClaimInv, ClaimOK
  <2> QED BY SMTT(30), <2>2
<1> QED BY SMTT(30), <1>1, <1>2, <1>3, NStepsAssumption DEF Steps

LEMMA SettleHonest ==
    ASSUME HInv, NEW h \in Handler, SettleReceipt(h)
    PROVE  HonestInv' /\ CancelsRemain /\ SentRemain
<1>1. PICK j : j = hj[h]
  BY Zenon
<1>2. PICK r \in Run, i \in Steps, to \in RunStatus : r = j.run /\ i = j.step /\ to = j.to
  <2>1. j.to \in RunStatus
    BY Zenon, <1>1, HandlerFacts DEF HInv, HandlerJob
  <2> QED BY Zenon, <1>1, <2>1, HandlerFacts DEF HInv
<1>3. NoWorkerMoves /\ xlease' = xlease
  BY Zenon, NobodyMoves DEF SettleReceipt
<1>4. hpc[h] = "settle" /\ "settle" \in {"release", "settle"}
  BY Zenon DEF SettleReceipt
<1>5. /\ Claimed(r, i) /\ to \in {"none", "succeeded", "failed", "interrupted"}
      /\ to = "failed" => stepStatus[r][i] = "failed"
      /\ to = "interrupted" => stepStatus[r][i] = "succeeded" /\ ~Beyond(r, i)
      /\ to = "succeeded" => \A k \in Steps : stepStatus[r][k] = "succeeded"
  <2>1. ReceiptOK("settle", j) /\ HandlerOK("settle", j)
    BY Zenon, <1>1, <1>4 DEF HInv, ReceiptInv, XInv, HandlerInv
  <2> QED BY Zenon, <1>2, <1>4, <2>1 DEF ReceiptOK, HandlerOK
<1>6. \/ UNCHANGED runVars
      \/ TransitionAllowed(r, "running", to) /\ TransitionRun(r, "running", to, changed[r])
  BY Zenon, <1>1, <1>2 DEF SettleReceipt
<1>7. CASE TransitionAllowed(r, "running", to) /\ TransitionRun(r, "running", to, changed[r])
  <2>1. changed[r] \in BOOLEAN
    BY Zenon, XFacts, ChangedFacts DEF HInv
  <2>2. \/ TransitionKey(r, "running", to) \in keys
        \/ \A k \in Steps : Claimed(r, k) => ~InFlight(r, k)
    <3>1. CASE to = "none"
      <4>1. <<"running", "none">> \notin RunTransitions
        BY SMTT(30) DEF RunTransitions
      <4> QED BY Zenon, <1>7, <3>1, <4>1 DEF TransitionAllowed
    <3>2. CASE to = "succeeded"
      BY <1>5, <3>2, SMTT(30) DEF InFlight
    <3>3. CASE to = "failed" \/ to = "interrupted"
      BY Zenon, <1>5, <3>3, SettledSteps DEF InFlight, HInv
    <3> QED BY Zenon, <1>5, <3>1, <3>2, <3>3
  <2> QED BY Zenon, <1>3, <1>7, <2>1, <2>2, TransitionHonest, SentSame
<1> QED BY Zenon, <1>3, <1>6, <1>7, SentSame, StillHonest

(* A step changes the row of one step of the executor's and no run's       *)
(* status.                                                                 *)
LEMMA OneRowHonest ==
    ASSUME HInv, NEW r \in Run, NEW i \in Steps, RowHonest(r, i)',
           OthersKept(r, i), pc' = pc, job' = job, status' = status,
           \A q \in Run : changed[q] => changed'[q],
           \A q \in Run, k \in Steps : q # r \/ k # i =>
              /\ Claimed(q, k)' <=> Claimed(q, k)
              /\ xlease[q][k].sent => xlease'[q][k].sent
    PROVE  HonestInv'
<1> SUFFICES ASSUME NEW q \in Run, NEW k \in Steps PROVE RowHonest(q, k)'
  BY Zenon DEF HonestInv
<1>1. CASE q = r /\ k = i
  BY Zenon, <1>1
<1>2. CASE q # r \/ k # i
  <2>1. RowHonest(q, k)
    BY Zenon DEF HInv, HonestInv
  <2>2. Guarded(q) => Guarded(q)'
    BY Zenon, SameGuards
  <2> QED BY Zenon, <1>2, <2>1, <2>2, HonestStays DEF OthersKept
<1> QED BY <1>1, <1>2

LEMMA FinishHonest ==
    ASSUME HInv, NEW h \in Handler, Finish(h)
    PROVE  HonestInv' /\ CancelsRemain /\ SentRemain
<1>1. PICK j : j = hj[h]
  BY Zenon
<1>2. PICK r \in Run, i \in Steps : r = j.run /\ i = j.step
  BY ZenonT(30), <1>1, HandlerFacts DEF HInv
<1>a. PICK st : st = j.receipt
  BY Zenon
<1>3. NoWorkerMoves /\ xlease' = xlease
  BY Zenon, NobodyMoves DEF Finish
<1>4. /\ Claimed(r, i) /\ xlease[r][i].sent /\ st \in {"succeeded", "failed"}
  <2>1. hpc[h] = "finish" /\ "finish" \in AtStep /\ "finish" \in {"record", "judge", "finish"}
    BY Zenon DEF Finish, AtStep
  <2>2. ReceiptOK("finish", j) /\ HandlerOK("finish", j)
    BY Zenon, <1>1, <2>1 DEF HInv, ReceiptInv, XInv, HandlerInv
  <2>3. Claimed(r, i) /\ st \in {"succeeded", "failed"}
    BY Zenon, <1>2, <1>a, <2>1, <2>2 DEF ReceiptOK, HandlerOK
  <2>4. st # "running"
    BY <2>3, SMTT(30)
  <2>5. xlease[r][i].sent
    BY Zenon, <1>2, <1>a, <2>1, <2>2, <2>4 DEF ReceiptOK
  <2> QED BY SMTT(30), <2>3, <2>5
<1>5. CASE UNCHANGED runVars
  BY Zenon, <1>3, <1>5, SentSame, StillHonest
<1>6. PICK chg : chg = (landed[r][i] > 0)
  BY Zenon
<1>7. CASE FinishStep(r, i, st, chg)
  <2>1. RowTypeOK /\ landed \in [Run -> [Steps -> Nat]]
    BY Zenon, XFacts DEF HInv
  <2>2. /\ stepStatus'[r][i] = st /\ effectState'[r][i] = "verified"
        /\ changed'[r] = (changed[r] \/ chg) /\ status' = status
        /\ cancelRequested' = cancelRequested
    BY Zenon, <1>7, <2>1 DEF FinishStep, RowTypeOK
  <2>3. OthersKept(r, i) /\ \A q \in Run : changed[q] => changed'[q]
    BY Zenon, <1>3, <1>7, <2>1 DEF FinishStep, RowTypeOK, OthersKept, NoWorkerMoves
  <2>4. chg \/ landed[r][i] = 0
    <3>1. landed[r][i] > 0 \/ landed[r][i] = 0
      BY <2>1
    <3> QED BY Zenon, <1>6, <3>1
  <2>5. st \in {"running", "succeeded", "failed", "partial"}
    BY <1>4, SMTT(30)
  <2>6. RowHonest(r, i)'
    <3>1. Claimed(r, i)' /\ xlease'[r][i].sent /\ landed'[r][i] = landed[r][i]
      BY Zenon, <1>3, <1>4, SentSame DEF SentRemain, NoWorkerMoves
    <3>2. changed'[r] \/ landed'[r][i] = 0
      BY Zenon, <2>2, <2>4, <3>1
    <3> QED BY Zenon, <2>2, <2>5, <3>1, <3>2 DEF RowHonest
  <2>7. SentRemain
    BY Zenon, <1>3, SentSame
  <2> QED BY Zenon, <1>3, <2>2, <2>3, <2>6, <2>7, OneRowHonest
             DEF NoWorkerMoves, SentRemain, CancelsRemain
<1> QED BY Zenon, <1>1, <1>2, <1>a, <1>5, <1>6, <1>7 DEF Finish

LEMMA RecordHonest ==
    ASSUME HInv, NEW h \in Handler, RecordObservation(h)
    PROVE  HonestInv' /\ CancelsRemain /\ SentRemain
<1>1. PICK r \in Run, i \in Steps : r = hj[h].run /\ i = hj[h].step
  BY Zenon, HandlerFacts DEF HInv
<1>2. NoWorkerMoves
  BY Zenon, NobodyMoves DEF RecordObservation
<1>3. SentRemain
  BY Zenon, RecordSent DEF HInv
<1>4. CASE UNCHANGED runVars
  BY Zenon, <1>2, <1>3, <1>4, StillHonest
<1>5. CASE /\ RecordReceipt(r, i) /\ stepStatus[r][i] = "running"
           /\ effectState[r][i] = "intent-recorded"
  <2>1. RowTypeOK
    BY ZenonT(30), XFacts DEF HInv
  <2>2. /\ stepStatus' = stepStatus /\ effectState'[r][i] = "receipt-recorded"
        /\ changed' = changed /\ status' = status /\ cancelRequested' = cancelRequested
    BY Zenon, <1>5, <2>1 DEF RecordReceipt, RowTypeOK
  <2>3. OthersKept(r, i)
    BY Zenon, <1>2, <1>5, <2>1 DEF RecordReceipt, RowTypeOK, OthersKept, NoWorkerMoves
  <2>4. Guarded(r) => Guarded(r)'
    BY Zenon, <1>2, <2>2, SameGuards DEF NoWorkerMoves
  <2>5. InFlight(r, i)' /\ effectState[r][i] # "verified"
    BY <1>5, <2>2, SMTT(30) DEF InFlight
  <2>6. RowHonest(r, i) /\ (Claimed(r, i)' <=> Claimed(r, i)) /\ landed' = landed
    BY Zenon, <1>2, <1>3 DEF HInv, HonestInv, SentRemain, NoWorkerMoves
  <2>7. RowHonest(r, i)'
    BY Zenon, <2>2, <2>4, <2>5, <2>6 DEF RowHonest
  <2> QED BY Zenon, <1>2, <1>3, <2>2, <2>3, <2>7, OneRowHonest
             DEF NoWorkerMoves, SentRemain, CancelsRemain
<1> QED BY Zenon, <1>1, <1>4, <1>5 DEF RecordObservation, storeVars

(* The claim finds no request of the run under way.                        *)
LEMMA ClaimHonest ==
    ASSUME HInv, Overlap = FALSE, NEW h \in Handler, ClaimTx(h)
    PROVE  HonestInv' /\ CancelsRemain
<1>1. PICK r \in Run, i \in Steps : r = hj[h].run /\ i = hj[h].step
  BY Zenon, HandlerFacts DEF HInv
<1>2. CASE ~ClaimAllowed(r, i)
  <2>1. xlease' = xlease /\ UNCHANGED runVars /\ UNCHANGED <<engineVars, worldVars>>
    BY Zenon, <1>1, <1>2 DEF ClaimTx, storeVars, worldVars
  <2> QED BY Zenon, <2>1, NobodyMoves, SentSame, StillHonest
<1>3. CASE ClaimAllowed(r, i)
  <2>1. /\ AcquireTargetLease(r, i, X) /\ BeginStep(r, i) /\ landed' = landed
        /\ late' = [late EXCEPT ![r] = @ + (IF cancelRequested[r] THEN 1 ELSE 0)]
        /\ xlease' = [xlease EXCEPT ![r][i] =
                        [NoLease EXCEPT !.claimed = TRUE, !.left = LeaseSeconds,
                                        !.next = CheckInSeconds]]
        /\ pc' = pc /\ job' = job
        /\ \A w \in Worker : pc[w] = "idle" \/ job[w].run # r
    BY Zenon, <1>1, <1>3 DEF ClaimTx, engineVars, workerVars
  <2>2. /\ status' = status /\ OthersKept(r, i)
        /\ stepStatus'[r][i] = "running" /\ effectState'[r][i] = "intent-recorded"
    BY ZenonT(30), <1>3, <2>1, ClaimRow DEF HInv
  <2>3. changed' = changed /\ cancelRequested' = cancelRequested /\ status[r] = "running"
    BY Zenon, <1>3, <2>1 DEF BeginStep, ClaimAllowed
  <2>4. xlease \in [Run -> [Steps -> LeaseRow]]
    BY Zenon DEF HInv, XInv, XTyped
  <2>5. PICK new : new = [NoLease EXCEPT !.claimed = TRUE, !.left = LeaseSeconds,
                                         !.next = CheckInSeconds]
    BY Zenon
  <2>6. new.claimed = TRUE
    BY <2>5 DEF NoLease
  <2>7. /\ xlease'[r][i] = new
        /\ \A q \in Run, k \in Steps : q # r \/ k # i => xlease'[q][k] = xlease[q][k]
    BY Zenon, <2>1, <2>4, <2>5
  <2>8. Guarded(r)'
    BY Zenon, <2>1, <2>2, <2>3 DEF Guarded
  <2>9. InFlight(r, i)' /\ Claimed(r, i)'
    BY Zenon, <2>2, <2>6, <2>7 DEF InFlight, Claimed
  <2>10. RowHonest(r, i)'
    BY Zenon, <2>2, <2>8, <2>9 DEF RowHonest
  <2>11. \A q \in Run, k \in Steps : q # r \/ k # i =>
            /\ Claimed(q, k)' <=> Claimed(q, k)
            /\ xlease[q][k].sent => xlease'[q][k].sent
    BY Zenon, <2>7 DEF Claimed
  <2>12. \A q \in Run : changed[q] => changed'[q]
    BY Zenon, <2>3
  <2>13. HonestInv'
    <3>1. pc' = pc /\ job' = job
      BY Zenon, <2>1
    <3>2. status' = status /\ OthersKept(r, i)
      BY Zenon, <2>2
    <3> QED BY ZenonT(30), <2>10, <2>11, <2>12, <3>1, <3>2, OneRowHonest
  <2> QED BY Zenon, <2>3, <2>13 DEF CancelsRemain
<1> QED BY <1>2, <1>3

(* The executor acts before its last word on the step.                     *)
LEMMA EffectHonest ==
    ASSUME HInv, NEW r \in Run, NEW i \in Steps, ExternalEffect(r, i)
    PROVE  HonestInv' /\ CancelsRemain /\ SentRemain
<1>1. /\ Claimed(r, i) /\ ~xlease[r][i].sent
      /\ landed' = [landed EXCEPT ![r][i] = @ + 1]
      /\ xlease' = [xlease EXCEPT ![r][i].worked = TRUE]
      /\ UNCHANGED <<storeVars, engineVars>>
  BY Zenon DEF ExternalEffect, Claimed
<1>2. /\ status' = status /\ stepStatus' = stepStatus /\ effectState' = effectState
      /\ changed' = changed /\ cancelRequested' = cancelRequested /\ pc' = pc /\ job' = job
  BY Zenon, <1>1 DEF storeVars, runVars, engineVars, workerVars
<1>3. xlease \in [Run -> [Steps -> LeaseRow]] /\ landed \in [Run -> [Steps -> Nat]]
  BY Zenon, XFacts DEF HInv, XInv, XTyped
<1>4. PICK row \in LeaseRow : row = xlease[r][i]
  BY Zenon, <1>3
<1>5. PICK new : new = [row EXCEPT !.worked = TRUE]
  BY Zenon
<1>6. new.claimed = row.claimed /\ new.sent = row.sent
  BY Zenon, <1>4, <1>5 DEF LeaseRow
<1>7. xlease' = [xlease EXCEPT ![r][i] = new]
  BY Zenon, <1>1, <1>3, <1>4, <1>5
<1>8. SentRemain
  BY Zenon, <1>4, <1>6, <1>7, RowSent DEF HInv
<1>9. OthersKept(r, i)
  BY Zenon, <1>1, <1>2, <1>3 DEF OthersKept
<1>10. RowHonest(r, i)'
  <2>1. RowHonest(r, i) /\ Claimed(r, i)'
    BY Zenon, <1>1, <1>8 DEF HInv, HonestInv, SentRemain
  <2>2. InFlight(r, i)' <=> InFlight(r, i)
    BY Zenon, <1>2 DEF InFlight
  <2>3. Guarded(r) => Guarded(r)'
    BY Zenon, <1>2, SameGuards
  <2> QED BY Zenon, <1>1, <1>2, <2>1, <2>2, <2>3 DEF RowHonest
<1> QED BY Zenon, <1>2, <1>8, <1>9, <1>10, OneRowHonest DEF SentRemain, CancelsRemain

-----------------------------------------------------------------------------
(* What a receipt relies on stays true.                                    *)

(* The only handlers that come to a claim found no cancellation.           *)
ClaimsUncancelled ==
    \A g \in Handler : hpc'[g] = "claimTx" =>
       \/ hpc[g] = "claimTx" /\ hj'[g].run = hj[g].run /\ hj'[g].step = hj[g].step
       \/ ~cancelRequested[hj'[g].run]

(* Nothing goes beyond the last step of a run that is to be cancelled.     *)
LastStays ==
    \A r \in Run, i \in Steps : cancelRequested[r] /\ ~Beyond(r, i) => ~Beyond(r, i)'

Onward ==
    /\ RowSafe /\ ClaimsGrow /\ CancelsRemain /\ LastStays
    /\ \A r \in Run, i \in Steps : Claimed(r, i) /\ xlease[r][i].sent => xlease'[r][i].sent

LEMMA SentOnward ==
    ASSUME RowSafe, SentRemain, CancelsRemain, ClaimsUncancelled PROVE Onward
<1>1. LastStays
  BY Zenon DEF LastStays, Beyond, SentRemain, ClaimsUncancelled
<1> QED BY Zenon, <1>1 DEF Onward, SentRemain, ClaimsGrow

LEMMA ReceiptStable ==
    ASSUME Onward, NEW p, NEW j \in HandlerJob, ReceiptOK(p, j)
    PROVE  ReceiptOK(p, j)'
<1>1. PICK r \in Run, i \in Steps : r = j.run /\ i = j.step
  BY Zenon DEF HandlerJob
<1>2. p \in {"record", "judge", "finish"} /\ j.receipt # "running" =>
         Claimed(r, i)' /\ xlease'[r][i].sent
  BY Zenon, <1>1 DEF ReceiptOK, Onward, ClaimsGrow
<1>3. p = "finish" => j.receipt \in {"succeeded", "failed"}
  BY Zenon DEF ReceiptOK
<1>4. ASSUME p \in {"release", "settle"}
      PROVE  /\ Claimed(r, i)'
             /\ j.to \in {"none", "succeeded", "failed", "interrupted"}
             /\ j.to = "failed" => stepStatus'[r][i] = "failed"
             /\ j.to = "interrupted" =>
                   /\ stepStatus'[r][i] = "succeeded"
                   /\ cancelRequested'[r] /\ ~Beyond(r, i)'
  <2>1. /\ Claimed(r, i)
        /\ j.to \in {"none", "succeeded", "failed", "interrupted"}
        /\ j.to = "failed" => stepStatus[r][i] = "failed"
        /\ j.to = "interrupted" =>
              /\ stepStatus[r][i] = "succeeded"
              /\ cancelRequested[r] /\ ~Beyond(r, i)
    BY Zenon, <1>1, <1>4 DEF ReceiptOK
  <2> QED BY Zenon, <2>1 DEF Onward, ClaimsGrow, RowSafe, CancelsRemain, LastStays
<1> QED BY Zenon, <1>1, <1>2, <1>3, <1>4 DEF ReceiptOK

LEMMA ReceiptsStay ==
    ASSUME HInv, Onward, hpc' = hpc, hj' = hj PROVE ReceiptInv'
<1> SUFFICES ASSUME NEW g \in Handler PROVE ReceiptOK(hpc[g], hj[g])'
  BY Zenon DEF ReceiptInv
<1>1. PICK p, j : p = hpc[g] /\ j = hj[g]
  BY Zenon
<1>2. ReceiptOK(p, j) /\ j \in HandlerJob
  BY Zenon, <1>1 DEF HInv, ReceiptInv, XInv, XTyped
<1>3. ReceiptOK(p, j)'
  BY Zenon, <1>2, ReceiptStable
<1> QED BY Zenon, <1>1, <1>3 DEF ReceiptOK

LEMMA ReceiptMoves ==
    ASSUME HInv, Onward, NEW h \in Handler, NEW p, NEW j, HGotoWith(h, p, j), ReceiptOK(p, j)'
    PROVE  ReceiptInv'
<1>1. hpc \in [Handler -> HPC] /\ hj \in [Handler -> HandlerJob]
  BY Zenon DEF HInv, XInv, XTyped
<1> SUFFICES ASSUME NEW g \in Handler PROVE ReceiptOK(hpc[g], hj[g])'
  BY Zenon DEF ReceiptInv
<1>2. CASE g = h
  <2>1. hpc'[g] = p /\ hj'[g] = j
    BY Zenon, <1>1, <1>2 DEF HGotoWith
  <2> QED BY Zenon, <2>1 DEF ReceiptOK
<1>3. CASE g # h
  <2>1. PICK q, m : q = hpc[g] /\ m = hj[g]
    BY Zenon
  <2>2. hpc'[g] = q /\ hj'[g] = m /\ m \in HandlerJob
    BY Zenon, <1>1, <1>3, <2>1 DEF HGotoWith
  <2>3. ReceiptOK(q, m)
    BY Zenon, <2>1 DEF HInv, ReceiptInv
  <2>4. ReceiptOK(q, m)'
    BY Zenon, <2>2, <2>3, ReceiptStable
  <2> QED BY Zenon, <2>2, <2>4 DEF ReceiptOK
<1> QED BY SMTT(30), <1>2, <1>3

(* A handler moves to a claim only when its run is not to be cancelled.    *)
LEMMA UncancelledMove ==
    ASSUME XInv, NEW h \in Handler, NEW p, NEW j, HGotoWith(h, p, j),
           p # "claimTx" \/ ~cancelRequested[j.run]
    PROVE  ClaimsUncancelled
<1>1. hpc \in [Handler -> HPC] /\ hj \in [Handler -> HandlerJob]
  BY Zenon DEF XInv, XTyped
<1>2. hpc'[h] = p /\ hj'[h] = j
  BY Zenon, <1>1 DEF HGotoWith
<1>3. \A g \in Handler : g # h => hpc'[g] = hpc[g] /\ hj'[g] = hj[g]
  BY Zenon, <1>1 DEF HGotoWith
<1> QED BY Zenon, <1>2, <1>3 DEF ClaimsUncancelled

(* Calls that carry no receipt any further.                                *)
Elsewhere == {"idle", "expire", "each", "mark", "toPartial", "closeLease", "claim",
              "renew", "renewTx"}

LEMMA ElsewhereOK ==
    ASSUME NEW p \in Elsewhere \cup {"claimTx"}, NEW j PROVE ReceiptOK(p, j)'
<1>1. p \notin {"record", "judge", "finish"} /\ p # "finish" /\ p \notin {"release", "settle"}
  BY SMTT(30) DEF Elsewhere
<1> QED BY Zenon, <1>1 DEF ReceiptOK

LEMMA ElsewhereReceipts ==
    ASSUME HInv, RowSafe, SentRemain, CancelsRemain, NEW h \in Handler,
           NEW p \in Elsewhere, NEW j, HGotoWith(h, p, j)
    PROVE  ReceiptInv'
<1>1. p # "claimTx"
  BY SMTT(30) DEF Elsewhere
<1>2. Onward
  BY Zenon, <1>1, UncancelledMove, SentOnward DEF HInv
<1> QED BY Zenon, <1>2, ElsewhereOK, ReceiptMoves

LEMMA ElsewhereGoes ==
    ASSUME NEW h,
           \/ Expire(h) \/ Each(h) \/ Mark(h) \/ ToPartial(h) \/ CloseLease(h) \/ ClaimTx(h)
           \/ RenewRead(h) \/ RenewTx(h) \/ SettleReceipt(h) \/ HReturn(h)
    PROVE  \E p \in Elsewhere : \E j : HGotoWith(h, p, j)
<1>1. ASSUME NEW p \in Elsewhere, NEW j, HGotoWith(h, p, j)
      PROVE  \E q \in Elsewhere : \E m : HGotoWith(h, q, m)
  BY Zenon, <1>1
<1>2. /\ "idle" \in Elsewhere /\ "each" \in Elsewhere /\ "mark" \in Elsewhere
      /\ "toPartial" \in Elsewhere /\ "closeLease" \in Elsewhere /\ "claim" \in Elsewhere
      /\ "renew" \in Elsewhere /\ "renewTx" \in Elsewhere
  BY Zenon DEF Elsewhere
<1>3. CASE HReturn(h)
  BY Zenon, <1>1, <1>2, <1>3 DEF HReturn
<1>4. ASSUME NEW p \in Elsewhere, HGoto(h, p)
      PROVE  \E q \in Elsewhere : \E m : HGotoWith(h, q, m)
  BY Zenon, <1>1, <1>4 DEF HGoto
<1>5. CASE AfterRecovery(h)
  BY Zenon, <1>2, <1>3, <1>4, <1>5 DEF AfterRecovery
<1>6. CASE Mark(h) \/ ToPartial(h)
  BY Zenon, <1>2, <1>3, <1>4, <1>5, <1>6 DEF Mark, ToPartial
<1>7. CASE CloseLease(h) \/ ClaimTx(h) \/ RenewTx(h) \/ SettleReceipt(h)
  BY Zenon, <1>3, <1>7 DEF CloseLease, ClaimTx, RenewTx, SettleReceipt
<1>8. CASE RenewRead(h)
  BY Zenon, <1>2, <1>3, <1>4, <1>8 DEF RenewRead
<1>9. CASE Expire(h)
  <2>1. PICK j : HGotoWith(h, "each", j)
    BY Zenon, <1>9 DEF Expire
  <2> QED BY Zenon, <1>1, <1>2, <2>1
<1>10. CASE Each(h)
  <2>1. CASE HGoto(h, "claim") \/ HGoto(h, "renew") \/ HReturn(h)
    BY Zenon, <1>2, <1>3, <1>4, <2>1
  <2>2. ASSUME NEW c, NEW j, HGotoWith(h, IF c THEN "mark" ELSE "each", j)
        PROVE  \E q \in Elsewhere : \E m : HGotoWith(h, q, m)
    BY Zenon, <1>1, <1>2, <2>2
  <2>3. \/ HGoto(h, "claim") \/ HGoto(h, "renew") \/ HReturn(h)
        \/ \E c, j : HGotoWith(h, IF c THEN "mark" ELSE "each", j)
    BY Zenon, <1>10 DEF Each
  <2> QED BY Zenon, <2>1, <2>2, <2>3
<1> QED BY Zenon, <1>3, <1>6, <1>7, <1>8, <1>9, <1>10

LEMMA RequestReceipts ==
    ASSUME HInv, RowSafe, SentRemain, CancelsRemain, NEW h \in Handler, ExecutorRequest(h)
    PROVE  ReceiptInv'
<1>1. ASSUME NEW j, HGotoWith(h, "expire", j) PROVE ReceiptInv'
  <2>1. "expire" \in Elsewhere
    BY Zenon DEF Elsewhere
  <2> QED BY Zenon, <1>1, <2>1, ElsewhereReceipts
<1>2. ASSUME NEW r \in Run, NEW i \in Steps, NEW n, NEW st, StartReceipt(h, r, i, n, st)
      PROVE  ReceiptInv'
  <2>1. st # "running" => Claimed(r, i)' /\ xlease'[r][i].sent
    <3>1. XInv
      BY Zenon DEF HInv
    <3>2. st # "running" => xlease'[r][i].sent
      BY SMTT(30), <1>2, <3>1, ReceiptSent
    <3>3. Claimed(r, i)
      BY Zenon, <1>2 DEF StartReceipt, Claimed
    <3> QED BY Zenon, <3>2, <3>3 DEF SentRemain
  <2>2. PICK p, j : /\ HGotoWith(h, p, j) /\ p \in {"record", "judge"}
                    /\ j.run = r /\ j.step = i /\ j.receipt = st
    <3>1. PICK a, b, c, d, e :
            HGotoWith(h, IF n = xlease[r][i].nonce THEN "record" ELSE "judge",
                      [NewHandlerJob("receipt", r, i, n, st) EXCEPT
                         !.exact = a, !.active = b, !.live = c, !.inFlight = d, !.doubt = e])
      BY ZenonT(30), <1>2 DEF StartReceipt
    <3>2. PICK j : j = [NewHandlerJob("receipt", r, i, n, st) EXCEPT
                          !.exact = a, !.active = b, !.live = c, !.inFlight = d, !.doubt = e]
      BY Zenon
    <3>3. j.run = r /\ j.step = i /\ j.receipt = st
      BY <3>2, SMTT(30) DEF NewHandlerJob
    <3> QED BY Zenon, <3>1, <3>2, <3>3
  <2>3. p # "claimTx" /\ p # "finish" /\ p \notin {"release", "settle"}
    BY <2>2, SMTT(30)
  <2>4. ReceiptOK(p, j)'
    BY Zenon, <2>1, <2>2, <2>3 DEF ReceiptOK
  <2>5. Onward
    BY Zenon, <2>2, <2>3, UncancelledMove, SentOnward DEF HInv
  <2> QED BY Zenon, <2>2, <2>4, <2>5, ReceiptMoves
<1>3. ASSUME NEW r \in Run, NEW i \in Steps, NEW n, StartRenew(h, r, i, n)
      PROVE  ReceiptInv'
  BY Zenon, <1>1, <1>3 DEF StartRenew
<1>4. CASE StartSweep(h) \/ StartClaim(h)
  BY Zenon, <1>1, <1>4 DEF StartSweep, StartClaim
<1> QED BY Zenon, <1>2, <1>3, <1>4 DEF ExecutorRequest

LEMMA ClaimReadReceipts ==
    ASSUME HInv, RowSafe, SentRemain, CancelsRemain, NEW h \in Handler, ClaimRead(h)
    PROVE  ReceiptInv'
<1>1. CASE HReturn(h)
  BY Zenon, <1>1, ElsewhereGoes, ElsewhereReceipts
<1>2. ASSUME NEW q \in Run \X Steps, Claimable(q[1], q[2]),
             HGotoWith(h, "claimTx", NewHandlerJob("claim", q[1], q[2], 0, "running"))
      PROVE  ReceiptInv'
  <2>1. PICK r, i : r = q[1] /\ i = q[2]
    BY Zenon
  <2>2. PICK j : j = NewHandlerJob("claim", r, i, 0, "running")
    BY Zenon
  <2>3. HGotoWith(h, "claimTx", j) /\ ~cancelRequested[r]
    BY Zenon, <1>2, <2>1, <2>2 DEF Claimable
  <2>4. j.run = r
    BY <2>2, SMTT(30) DEF NewHandlerJob
  <2>5. Onward
    BY Zenon, <2>3, <2>4, UncancelledMove, SentOnward DEF HInv
  <2>6. "claimTx" \in Elsewhere \cup {"claimTx"}
    BY Zenon
  <2>7. ReceiptOK("claimTx", j)'
    BY Zenon, <2>6, ElsewhereOK
  <2> QED BY Zenon, <2>3, <2>5, <2>7, ReceiptMoves
<1> QED BY Zenon, <1>1, <1>2 DEF ClaimRead

LEMMA GotoReceipts ==
    ASSUME HInv, RowSafe, SentRemain, CancelsRemain, NEW h \in Handler,
           NEW p, HGoto(h, p), p # "claimTx", ReceiptOK(p, hj[h])
    PROVE  ReceiptInv'
<1>1. PICK j : j = hj[h]
  BY Zenon
<1>2. HGotoWith(h, p, j) /\ ReceiptOK(p, j) /\ j \in HandlerJob
  BY Zenon, <1>1, HandlerFacts DEF HGoto, HInv
<1>3. Onward
  BY Zenon, <1>2, UncancelledMove, SentOnward DEF HInv
<1>4. ReceiptOK(p, j)'
  BY Zenon, <1>2, <1>3, ReceiptStable
<1> QED BY Zenon, <1>2, <1>3, <1>4, ReceiptMoves

LEMMA ReceiptGoes ==
    ASSUME HInv, RowSafe, SentRemain, CancelsRemain, NEW h \in Handler,
           RecordObservation(h) \/ Judge(h) \/ ReleaseReceipt(h)
    PROVE  ReceiptInv'
<1>1. CASE HReturn(h)
  BY Zenon, <1>1, ElsewhereGoes, ElsewhereReceipts
<1>2. CASE HGoto(h, "mark")
  <2>1. "mark" \in Elsewhere
    BY Zenon DEF Elsewhere
  <2> QED BY Zenon, <1>2, <2>1, ElsewhereReceipts DEF HGoto
<1>3. PICK p, j : p = hpc[h] /\ j = hj[h]
  BY Zenon
<1>4. ReceiptOK(p, j)
  BY Zenon, <1>3 DEF HInv, ReceiptInv
<1>5. CASE p = "record" /\ HGoto(h, "judge")
  <2>1. ReceiptOK("judge", j)
    BY <1>4, <1>5, SMTT(30) DEF ReceiptOK
  <2>2. "judge" # "claimTx"
    OBVIOUS
  <2> QED BY Zenon, <1>3, <1>5, <2>1, <2>2, GotoReceipts
<1>6. CASE p = "judge" /\ j.receipt \in {"succeeded", "failed"} /\ HGoto(h, "finish")
  <2>1. ReceiptOK("finish", j)
    BY <1>4, <1>6, SMTT(30) DEF ReceiptOK
  <2>2. "finish" # "claimTx"
    OBVIOUS
  <2> QED BY Zenon, <1>3, <1>6, <2>1, <2>2, GotoReceipts
<1>7. CASE p = "release" /\ HGoto(h, "settle")
  <2>1. ReceiptOK("settle", j)
    BY <1>4, <1>7, SMTT(30) DEF ReceiptOK
  <2>2. "settle" # "claimTx"
    OBVIOUS
  <2> QED BY Zenon, <1>3, <1>7, <2>1, <2>2, GotoReceipts
<1>8. CASE RecordObservation(h)
  BY Zenon, <1>1, <1>3, <1>5, <1>8 DEF RecordObservation
<1>9. CASE Judge(h)
  BY Zenon, <1>1, <1>2, <1>3, <1>6, <1>9 DEF Judge
<1>10. CASE ReleaseReceipt(h)
  BY Zenon, <1>1, <1>3, <1>7, <1>10 DEF ReleaseReceipt
<1> QED BY SMTT(30), <1>8, <1>9, <1>10

(* Nothing is beyond a step in progress: later ones wait for its success.  *)
LEMMA RunningIsLast ==
    ASSUME XInv, NEW r \in Run, NEW i \in Steps, stepStatus[r][i] = "running"
    PROVE  ~Beyond(r, i)
<1>1. stepStatus[r][i] # "succeeded"
  BY SMTT(30)
<1>2. \A k \in Steps : k > i => i \in 1 .. (k - 1)
  BY NStepsAssumption DEF Steps
<1>3. ASSUME NEW k \in Steps, k > i, Claimed(r, k) PROVE FALSE
  BY Zenon, <1>1, <1>2, <1>3 DEF XInv, ClaimInv, ClaimOK
<1>4. ASSUME NEW g \in Handler, hpc[g] = "claimTx", hj[g].run = r, hj[g].step > i PROVE FALSE
  <2>1. PICK k \in Steps : k = hj[g].step
    BY Zenon, HandlerFacts
  <2>2. \A m \in 1 .. (k - 1) : stepStatus[r][m] = "succeeded"
    BY Zenon, <1>4, <2>1, HandlerFacts DEF HandlerOK
  <2>3. k > i
    BY Zenon, <1>4, <2>1
  <2> QED BY Zenon, <1>1, <1>2, <2>2, <2>3
<1> QED BY Zenon, <1>3, <1>4 DEF Beyond

LEMMA FinishReceipts ==
    ASSUME HInv, RowSafe, SentRemain, CancelsRemain, NEW h \in Handler, Finish(h)
    PROVE  ReceiptInv'
<1>1. CASE HReturn(h)
  BY Zenon, <1>1, ElsewhereGoes, ElsewhereReceipts
<1>2. PICK m : m = hj[h]
  BY Zenon
<1>3. PICK r \in Run, i \in Steps : r = m.run /\ i = m.step
  BY Zenon, <1>2, HandlerFacts DEF HInv
<1>a. PICK st : st = m.receipt
  BY Zenon
<1>4. Claimed(r, i)' /\ st \in {"succeeded", "failed"}
  <2>1. hpc[h] = "finish" /\ "finish" \in AtStep
    BY Zenon DEF Finish, AtStep
  <2>2. ReceiptOK("finish", m) /\ HandlerOK("finish", m)
    BY Zenon, <1>2, <2>1 DEF HInv, ReceiptInv, XInv, HandlerInv
  <2> QED BY Zenon, <1>3, <1>a, <2>1, <2>2 DEF ReceiptOK, HandlerOK, SentRemain
<1>5. PICK all : all = \A k \in Steps : stepStatus'[r][k] = "succeeded"
                                       /\ effectState'[r][k] = "verified"
  BY Zenon
<1>6. PICK to : to = CASE st = "failed" -> "failed"
                       [] st # "failed" /\ all -> "succeeded"
                       [] st # "failed" /\ ~all /\ cancelRequested[r] -> "interrupted"
                       [] OTHER -> "none"
  BY Zenon
<1>7. PICK j, chg : j = [m EXCEPT !.to = to] /\ chg = (landed[r][i] > 0)
  BY Zenon
<1>8. CASE /\ FinishAllowed(r, i) /\ FinishStep(r, i, st, chg)
           /\ HGotoWith(h, "release", j)
  <2>1. /\ to \in {"none", "succeeded", "failed", "interrupted"}
        /\ to = "failed" => st = "failed"
        /\ to = "interrupted" => st = "succeeded" /\ cancelRequested[r]
    BY <1>4, <1>6, SMTT(30)
  <2>2. j.run = r /\ j.step = i /\ j.to = to
    BY Zenon, <1>2, <1>3, <1>7, HandlerFacts DEF HandlerJob, HInv
  <2>3. stepStatus'[r][i] = st /\ cancelRequested' = cancelRequested
    BY Zenon, <1>8, XFacts DEF FinishStep, RowTypeOK, HInv
  <2>4. ~Beyond(r, i)
    BY Zenon, <1>8, RunningIsLast DEF FinishAllowed, HInv
  <2>5. "release" # "claimTx"
    OBVIOUS
  <2>6. Onward
    BY Zenon, <1>8, <2>5, UncancelledMove, SentOnward DEF HInv
  <2>7. cancelRequested[r] => ~Beyond(r, i)'
    BY Zenon, <2>4, <2>6 DEF Onward, LastStays
  <2>8. /\ to = "failed" => stepStatus'[r][i] = "failed"
        /\ to = "interrupted" => /\ stepStatus'[r][i] = "succeeded"
                                 /\ cancelRequested'[r] /\ ~Beyond(r, i)'
    BY Zenon, <2>1, <2>3, <2>7
  <2>9. "release" \notin {"record", "judge", "finish"} /\ "release" # "finish"
    BY SMTT(30)
  <2>10. ReceiptOK("release", j)'
    BY Zenon, <1>4, <2>1, <2>2, <2>8, <2>9 DEF ReceiptOK
  <2> QED BY Zenon, <1>8, <2>6, <2>10, ReceiptMoves
<1> QED BY Zenon, <1>1, <1>2, <1>3, <1>a, <1>5, <1>6, <1>7, <1>8 DEF Finish

(* The claimer was beyond the steps before its own already.                *)
LEMMA ClaimReceipts ==
    ASSUME HInv, RowSafe, CancelsRemain, NEW h \in Handler, ClaimTx(h)
    PROVE  ReceiptInv'
<1>1. PICK r \in Run, i \in Steps : r = hj[h].run /\ i = hj[h].step
  BY Zenon, HandlerFacts DEF HInv
<1>2. CASE ~ClaimAllowed(r, i)
  <2>1. xlease' = xlease
    BY Zenon, <1>1, <1>2 DEF ClaimTx
  <2> QED BY Zenon, <2>1, SentSame, ElsewhereGoes, ElsewhereReceipts
<1>3. CASE ClaimAllowed(r, i)
  <2>1. /\ xlease' = [xlease EXCEPT ![r][i] =
                        [NoLease EXCEPT !.claimed = TRUE, !.left = LeaseSeconds,
                                        !.next = CheckInSeconds]]
        /\ hpc[h] = "claimTx" /\ HGotoWith(h, "idle", IdleHandlerJob)
    BY Zenon, <1>1, <1>3 DEF ClaimTx, HReturn
  <2>2. ~Claimed(r, i)
    BY Zenon, <1>3 DEF HInv, XInv, ClaimInv, ClaimOK, ClaimAllowed
  <2>3. \A q \in Run, k \in Steps : q # r \/ k # i => xlease'[q][k] = xlease[q][k]
    BY Zenon, <2>1 DEF HInv, XInv, XTyped
  <2>4. \A q \in Run, k \in Steps : Claimed(q, k) => xlease'[q][k] = xlease[q][k]
    BY Zenon, <2>2, <2>3
  <2>5. ClaimsGrow
    BY Zenon, <2>4 DEF ClaimsGrow, Claimed
  <2>6. \A q \in Run, k \in Steps : Claimed(q, k) /\ xlease[q][k].sent => xlease'[q][k].sent
    BY Zenon, <2>4
  <2>7. LastStays
    <3> SUFFICES ASSUME NEW q \in Run, NEW k \in Steps, cancelRequested[q], Beyond(q, k)'
                 PROVE  Beyond(q, k)
      BY Zenon DEF LastStays
    <3>1. ASSUME NEW m \in Steps, m > k, Claimed(q, m)' PROVE Beyond(q, k)
      <4>1. CASE q = r /\ m = i
        BY Zenon, <1>1, <2>1, <3>1, <4>1 DEF Beyond
      <4>2. CASE q # r \/ m # i
        BY Zenon, <2>3, <3>1, <4>2 DEF Beyond, Claimed
      <4> QED BY SMTT(30), <4>1, <4>2
    <3>2. ASSUME NEW g \in Handler, hpc'[g] = "claimTx", hj'[g].run = q, hj'[g].step > k
          PROVE  Beyond(q, k)
      <4>1. hpc'[h] = "idle" /\ (g # h => hpc'[g] = hpc[g] /\ hj'[g] = hj[g])
        BY Zenon, <2>1 DEF HInv, XInv, XTyped, HGotoWith
      <4>2. g # h
        BY <3>2, <4>1, SMTT(30)
      <4> QED BY Zenon, <3>2, <4>1, <4>2 DEF Beyond
    <3> QED BY Zenon, <3>1, <3>2 DEF Beyond
  <2>8. Onward
    BY Zenon, <2>5, <2>6, <2>7 DEF Onward
  <2>9. "idle" \in Elsewhere \cup {"claimTx"}
    BY Zenon DEF Elsewhere
  <2> QED BY Zenon, <2>1, <2>8, <2>9, ElsewhereOK, ReceiptMoves
<1> QED BY SMTT(30), <1>2, <1>3

-----------------------------------------------------------------------------
(* The invariant of the composition, for external runs.                    *)

LEMMA HandleHonest ==
    ASSUME HInv, RowSafe, Overlap = FALSE, NEW h \in Handler, Handle(h)
    PROVE  HonestInv' /\ ReceiptInv'
<1>1. CASE \/ Expire(h) \/ Each(h) \/ CloseLease(h) \/ RenewRead(h) \/ RenewTx(h)
           \/ Mark(h) \/ ToPartial(h) \/ SettleReceipt(h)
  <2>1. HonestInv' /\ CancelsRemain /\ SentRemain
    BY Zenon, <1>1, ReadsHonest, MarkHonest, ToPartialHonest, SettleHonest
  <2> QED BY Zenon, <1>1, <2>1, ElsewhereGoes, ElsewhereReceipts
<1>2. CASE ClaimRead(h)
  BY Zenon, <1>2, ReadsHonest, ClaimReadReceipts
<1>3. CASE ClaimTx(h)
  BY Zenon, <1>3, ClaimHonest, ClaimReceipts
<1>4. CASE RecordObservation(h) \/ Judge(h) \/ ReleaseReceipt(h)
  BY Zenon, <1>4, RecordHonest, ReadsHonest, ReceiptGoes
<1>5. CASE Finish(h)
  BY Zenon, <1>5, FinishHonest, FinishReceipts
<1> QED BY Zenon, <1>1, <1>2, <1>3, <1>4, <1>5 DEF Handle

LEMMA SameHandlers ==
    ASSUME HInv, RowSafe, SentRemain, CancelsRemain, hpc' = hpc, hj' = hj
    PROVE  ReceiptInv'
<1>1. ClaimsUncancelled
  BY Zenon DEF ClaimsUncancelled
<1> QED BY Zenon, <1>1, SentOnward, ReceiptsStay

LEMMA OutsideHonest ==
    ASSUME HInv, RowSafe, External = Run,
           \/ EngineStep \/ XTick
           \/ \E r \in Run, i \in Steps : ExternalEffect(r, i)
    PROVE  HonestInv' /\ ReceiptInv'
<1>1. hpc' = hpc /\ hj' = hj
  BY Zenon DEF EngineStep, XTick, ExternalEffect, handlerVars
<1>2. CASE EngineStep
  <2>1. xlease' = xlease
    BY Zenon, <1>2 DEF EngineStep
  <2>2. SentRemain
    BY Zenon, <2>1, SentSame
  <2>3. HonestInv' /\ CancelsRemain
    BY Zenon, <1>2, <2>1, <2>2, WorkHonest, ServerHonest, ReconcileHonest DEF EngineStep
  <2> QED BY Zenon, <1>1, <2>2, <2>3, SameHandlers
<1>3. CASE XTick
  <2>1. SentRemain
    BY Zenon, <1>3, TickSent DEF HInv
  <2>2. HonestInv' /\ CancelsRemain
    BY Zenon, <1>3, <2>1, ServerHonest DEF XTick
  <2> QED BY Zenon, <1>1, <2>1, <2>2, SameHandlers
<1>4. CASE \E r \in Run, i \in Steps : ExternalEffect(r, i)
  BY Zenon, <1>1, <1>4, EffectHonest, SameHandlers
<1> QED BY SMTT(30), <1>2, <1>3, <1>4

LEMMA CrashHonest == ASSUME HInv, XCrash PROVE HonestInv' /\ ReceiptInv'
<1>1. Crash /\ xlease' = xlease /\ hpc' = [h \in Handler |-> "idle"]
  BY Zenon DEF XCrash
<1>2. HonestInv'
  BY Zenon, <1>1, SentSame, ServerHonest
<1>3. ReceiptInv'
  <2> SUFFICES ASSUME NEW h \in Handler PROVE ReceiptOK(hpc[h], hj[h])'
    BY Zenon DEF ReceiptInv
  <2>1. PICK j : j = hj'[h]
    BY Zenon
  <2>2. hpc'[h] = "idle" /\ "idle" \in Elsewhere \cup {"claimTx"}
    BY Zenon, <1>1 DEF Elsewhere
  <2>3. ReceiptOK("idle", j)'
    BY Zenon, <2>2, ElsewhereOK
  <2> QED BY ZenonT(30), <2>1, <2>2, <2>3 DEF ReceiptOK
<1> QED BY SMTT(30), <1>2, <1>3

LEMMA NextHInv ==
    ASSUME External = Run, Overlap = FALSE, HInv, [XNext]_xvars PROVE HInv'
<1>1. XInv' /\ RowSafe
  BY Zenon, NextXInv DEF HInv
<1>2. CASE UNCHANGED xvars
  <2>1. /\ xlease' = xlease /\ hpc' = hpc /\ hj' = hj /\ UNCHANGED runVars /\ NoWorkerMoves
    BY Zenon, <1>2
       DEF xvars, vars, handlerVars, storeVars, workerVars, worldVars, NoWorkerMoves
  <2> QED BY Zenon, <1>1, <2>1, SentSame, StillHonest, SameHandlers DEF HInv
<1>3. ASSUME NEW h \in Handler, ExecutorRequest(h) PROVE HonestInv' /\ ReceiptInv'
  BY Zenon, <1>1, <1>3, StartsHonest, RequestReceipts
<1>4. CASE XNext
  BY Zenon, <1>1, <1>3, <1>4, HandleHonest, OutsideHonest, CrashHonest DEF XNext, HInv
<1> QED BY SMTT(30), <1>2, <1>4

LEMMA InitHInv == ASSUME XInit PROVE HInv
<1>1. XInv
  BY Zenon, InitXInv
<1>2. /\ Init /\ xlease = [r \in Run |-> [i \in Steps |-> NoLease]]
      /\ hpc = [h \in Handler |-> "idle"]
  BY Zenon DEF XInit
<1>3. HonestInv
  <2>1. NoLease.claimed = FALSE
    BY DEF NoLease
  <2>2. landed = [r \in Run |-> [i \in Steps |-> 0]]
    BY Zenon, <1>2 DEF Init
  <2> QED BY Zenon, <1>2, <2>1, <2>2 DEF HonestInv, RowHonest, Claimed
<1>4. ReceiptInv
  <2> SUFFICES ASSUME NEW h \in Handler PROVE ReceiptOK(hpc[h], hj[h])
    BY Zenon DEF ReceiptInv
  <2>1. hpc[h] = "idle"
    BY Zenon, <1>2
  <2> QED BY <2>1, SMTT(30) DEF ReceiptOK
<1> QED BY Zenon, <1>1, <1>3, <1>4 DEF HInv

(* A run of the executor's that stopped without a recorded change has      *)
(* changed no target, whichever of the workers, the handlers, the sweep    *)
(* and startup came first, provided the requests that drive a run follow   *)
(* one another: the executor's last word precedes the verification that    *)
(* finishes a step, and a step in flight ends its run only through         *)
(* recovery, which records a change.                                       *)
THEOREM ExternalIsHonest ==
    ASSUME External = Run, Overlap = FALSE PROVE XSpec => []UnchangedIsHonest
<1>1. HInv => UnchangedIsHonest
  <2> SUFFICES ASSUME HInv, NEW r \in Run, status[r] \in Terminal \cup {"interrupted"},
                      ~changed[r], NEW i \in Steps
               PROVE  landed[r][i] = 0
    BY Zenon DEF UnchangedIsHonest
  <2>1. RowHonest(r, i)
    BY Zenon DEF HInv, HonestInv
  <2>2. ~Guarded(r)
    <3>1. status[r] # "running"
      BY SMTT(30) DEF Terminal
    <3> QED BY Zenon, <3>1 DEF Guarded
  <2> QED BY Zenon, <2>1, <2>2 DEF RowHonest
<1>2. XInit => HInv
  BY SMTT(30), InitHInv
<1>3. HInv /\ [XNext]_xvars => HInv'
  BY ZenonT(30), NextHInv
<1> QED BY <1>1, <1>2, <1>3, PTL DEF XSpec
=============================================================================

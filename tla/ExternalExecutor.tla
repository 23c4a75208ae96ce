-------------------------- MODULE ExternalExecutor --------------------------
(***************************************************************************)
(* The claim protocol for plans that an external executor carries out:     *)
(* internal/run/external_executor.go over                                  *)
(* internal/store/executor_lease_repository.go, composed with the engine.  *)
(*                                                                         *)
(* A handler is one goroutine serving a claim, a renewal or a receipt, or  *)
(* the periodic sweep; hpc[h] is its next store call and hj[h] what it has *)
(* read so far.  One executor identity, X, owns every run of External.     *)
(* The executor itself is outside the program: once it holds a lease it    *)
(* may act on the target at any time until it reports a final receipt, it  *)
(* may send any receipt, with a current or an outdated nonce, repeatedly,  *)
(* or nothing at all.                                                      *)
(***************************************************************************)
EXTENDS RunEngine

CONSTANTS
    Handler,         \* protocol request goroutines and the sweeper
    Sweeper,         \* the handler that runs ExternalExecutor.Run
    X,               \* the executor, as a lease holder
    CheckInSeconds   \* generated.ExecutorCheckInSeconds

ASSUME ExecutorAssumption ==
    /\ X \in Holder \ Worker /\ Sweeper \in Handler
    /\ CheckInSeconds \in 1 .. LeaseSeconds

VARIABLES
    xlease,   \* xlease[r][i]: the external lease row of the step
    hpc,      \* hpc[h]: where the handler is
    hj        \* hj[h]: the handler's local variables

handlerVars == <<hpc, hj>>

engineVars == <<workerVars, server, pending>>

xvars == <<vars, xlease, handlerVars>>

(* active is membership of the store's lease set, so that the engine's     *)
(* ReleaseRunLeases releases these rows too.                               *)
LeaseRow == [claimed : BOOLEAN, expired : BOOLEAN, nonce : Nat,
             left : 0 .. LeaseSeconds, next : 0 .. CheckInSeconds,
             final : BOOLEAN, sent : BOOLEAN, worked : BOOLEAN]

NoLease == [claimed |-> FALSE, expired |-> FALSE, nonce |-> 0, left |-> 0,
            next |-> 0, final |-> FALSE, sent |-> FALSE, worked |-> FALSE]

Active(r, i) == LeaseOf(r, i, X) \in lease

HPC == {"idle", "expire", "each", "mark", "toPartial", "closeLease", "claim",
        "claimTx", "renew", "renewTx", "record", "judge", "finish", "release",
        "settle"}

ReceiptStatus == {"running", "succeeded", "failed", "partial"}

(* op: the request; bound: the lease it names; list: leases the sweep      *)
(* still has to look at; run, step: the step it is working on; nonce,      *)
(* receipt: what the executor sent; exact, live: the binding and the lease *)
(* as read; inFlight, doubt: the step as read; to: where the run goes once *)
(* the step is finished.                                                   *)
HandlerJob ==
    [op : {"sweep", "claim", "renew", "receipt"}, bound : Run \X Steps,
     run : Run, step : Steps, list : SUBSET (Run \X Steps), nonce : Nat,
     receipt : ReceiptStatus, exact : BOOLEAN, live : BOOLEAN, active : BOOLEAN,
     inFlight : BOOLEAN, doubt : BOOLEAN, to : RunStatus]

NewHandlerJob(op, r, i, n, st) ==
    [op |-> op, bound |-> <<r, i>>, run |-> r, step |-> i, list |-> {},
     nonce |-> n, receipt |-> st, exact |-> FALSE, live |-> FALSE,
     active |-> FALSE, inFlight |-> FALSE, doubt |-> FALSE, to |-> "none"]

IdleHandlerJob == NewHandlerJob("sweep", CHOOSE r \in Run : TRUE, 1, 0, "running")

XTypeOK ==
    /\ TypeOK
    /\ xlease \in [Run -> [Steps -> LeaseRow]]
    /\ hpc \in [Handler -> HPC]
    /\ hj \in [Handler -> HandlerJob]

XInit ==
    /\ Init
    /\ xlease = [r \in Run |-> [i \in Steps |-> NoLease]]
    /\ hpc = [h \in Handler |-> "idle"]
    /\ hj = [h \in Handler |-> IdleHandlerJob]

HGotoWith(h, p, j) == hpc' = [hpc EXCEPT ![h] = p] /\ hj' = [hj EXCEPT ![h] = j]

HGoto(h, p) == HGotoWith(h, p, hj[h])

HReturn(h) == HGotoWith(h, "idle", IdleHandlerJob)

-----------------------------------------------------------------------------
(* Reconcile: run on a timer, and first thing in every claim and renewal.  *)

StartSweep(h) ==
    /\ server = "up" /\ hpc[h] = "idle" /\ h = Sweeper
    /\ HGotoWith(h, "expire", IdleHandlerJob)
    /\ UNCHANGED <<vars, xlease>>

StartClaim(h) ==
    /\ server = "up" /\ hpc[h] = "idle" /\ h # Sweeper
    /\ HGotoWith(h, "expire", [IdleHandlerJob EXCEPT !.op = "claim"])
    /\ UNCHANGED <<vars, xlease>>

StartRenew(h, r, i, n) ==
    /\ server = "up" /\ hpc[h] = "idle" /\ h # Sweeper
    /\ xlease[r][i].claimed /\ n <= xlease[r][i].nonce
    /\ HGotoWith(h, "expire", NewHandlerJob("renew", r, i, n, "running"))
    /\ UNCHANGED <<vars, xlease>>

(* Faulty: only leases of running runs are expired.                        *)
ExpireRunning(h) ==
    LET due == {p \in Run \X Steps : /\ Active(p[1], p[2]) /\ xlease[p[1]][p[2]].left = 0
                                     /\ status[p[1]] = "running"}
        owed == {p \in Run \X Steps : /\ xlease[p[1]][p[2]].expired
                                      /\ status[p[1]] = "running" /\ InFlight(p[1], p[2])}
    IN
    /\ Alive /\ hpc[h] = "expire"
    /\ lease' = {l \in lease : ~(l.holder = X /\ <<l.run, l.step>> \in due)}
    /\ xlease' = [r \in Run |-> [i \in Steps |->
                    [xlease[r][i] EXCEPT !.expired = @ \/ <<r, i>> \in due]]]
    /\ HGotoWith(h, "each", [hj[h] EXCEPT !.list = due \cup owed])
    /\ UNCHANGED <<runVars, leased, keys, engineVars, worldVars>>

Expire(h) ==
    LET due == {p \in Run \X Steps : Active(p[1], p[2]) /\ xlease[p[1]][p[2]].left = 0}
        owed == {p \in Run \X Steps :
                   /\ xlease[p[1]][p[2]].expired /\ status[p[1]] = "running"
                   /\ \/ InFlight(p[1], p[2])
                      \/ /\ stepStatus[p[1]][p[2]] = "partial"
                         /\ effectState[p[1]][p[2]] = "effect-unknown"}
    IN
    /\ Alive /\ hpc[h] = "expire"
    /\ lease' = {l \in lease : ~(l.holder = X /\ <<l.run, l.step>> \in due)}
    /\ xlease' = [r \in Run |-> [i \in Steps |->
                    [xlease[r][i] EXCEPT !.expired = @ \/ <<r, i>> \in due]]]
    /\ HGotoWith(h, "each", [hj[h] EXCEPT !.list = due \cup owed])
    /\ UNCHANGED <<runVars, leased, keys, engineVars, worldVars>>

(* The next expired lease: a run that is no longer running is skipped.     *)
Each(h) ==
    /\ Alive /\ hpc[h] = "each"
    /\ \/ /\ hj[h].list = {}
          /\ CASE hj[h].op = "claim" -> HGoto(h, "claim")
               [] hj[h].op = "renew" -> HGoto(h, "renew")
               [] OTHER -> HReturn(h)
       \/ \E p \in hj[h].list :
             LET r == p[1]
                 i == p[2]
                 owed == /\ status[r] = "running"
                         /\ \/ stepStatus[r][i] = "running"
                            \/ /\ stepStatus[r][i] = "partial"
                               /\ effectState[r][i] = "effect-unknown"
             IN HGotoWith(h, IF owed THEN "mark" ELSE "each",
                    [hj[h] EXCEPT !.list = @ \ {p}, !.run = IF owed THEN r ELSE @,
                       !.step = IF owed THEN i ELSE @, !.inFlight = owed /\ InFlight(r, i),
                       !.doubt = owed /\ effectState[r][i] = "effect-unknown"])
    /\ UNCHANGED <<vars, xlease>>

-----------------------------------------------------------------------------
(* recoveryRequired: MarkStepUnknown when the step was read in flight, the *)
(* run to partial, and the lease released when it was read active.         *)

AfterRecovery(h) ==
    IF hj[h].active THEN HGoto(h, "closeLease")
    ELSE IF hj[h].op = "receipt" THEN HReturn(h) ELSE HGoto(h, "each")

(* Faulty: the step is marked and the run left as it is.                   *)
MarkOnly(h) ==
    LET r == hj[h].run
        i == hj[h].step
    IN
    /\ Alive /\ hpc[h] = "mark"
    /\ IF hj[h].inFlight /\ CloseAllowed(r, i, "partial")
       THEN CloseStep(r, i, "partial") ELSE UNCHANGED <<runVars, keys>>
    /\ AfterRecovery(h)
    /\ UNCHANGED <<leaseVars, engineVars, worldVars, xlease>>

Mark(h) ==
    LET r == hj[h].run
        i == hj[h].step
    IN
    /\ Alive /\ hpc[h] = "mark"
    /\ IF hj[h].inFlight
       THEN IF CloseAllowed(r, i, "partial")
            THEN /\ CloseStep(r, i, "partial")
                 /\ IF status[r] = "running" /\ effectState'[r][i] = "effect-unknown"
                    THEN HGoto(h, "toPartial") ELSE AfterRecovery(h)
            ELSE UNCHANGED <<runVars, keys>> /\ HReturn(h)
       ELSE /\ IF hj[h].doubt THEN HGoto(h, "toPartial") ELSE AfterRecovery(h)
            /\ UNCHANGED <<runVars, keys>>
    /\ UNCHANGED <<leaseVars, engineVars, worldVars, xlease>>

ToPartial(h) ==
    LET r == hj[h].run IN
    /\ Alive /\ hpc[h] = "toPartial"
    /\ IF TransitionAllowed(r, "running", "partial")
       THEN TransitionRun(r, "running", "partial", TRUE) /\ AfterRecovery(h)
       ELSE UNCHANGED <<runVars, keys>> /\ HReturn(h)
    /\ UNCHANGED <<leaseVars, engineVars, worldVars, xlease>>

(* Only receipts get here: the sweep has expired its leases already.       *)
CloseLease(h) ==
    LET r == hj[h].run
        i == hj[h].step
    IN
    /\ Alive /\ hpc[h] = "closeLease"
    /\ IF Active(r, i) THEN ReleaseTargetLease(r, i, X) ELSE UNCHANGED leaseVars
    /\ HReturn(h)
    /\ UNCHANGED <<runVars, keys, engineVars, worldVars, xlease>>

-----------------------------------------------------------------------------
(* Claim.                                                                  *)

Verified(r, i) == stepStatus[r][i] = "succeeded" /\ effectState[r][i] = "verified"

(* Work the executor still answers for: no second item is given out.       *)
Unresolved(r) ==
    \E i \in Steps : \/ stepStatus[r][i] = "running"
                     \/ effectState[r][i] \in {"intent-recorded", "receipt-recorded",
                                               "effect-unknown"}

(* Faulty: any queued step will do.                                        *)
ClaimableAny(r, i) ==
    /\ r \in External /\ status[r] = "running" /\ ~cancelRequested[r]
    /\ stepStatus[r][i] = "queued" /\ effectState[r][i] = "not-started"

(* The first step not verified yet of a running run, if it is queued.      *)
Claimable(r, i) ==
    /\ r \in External /\ status[r] = "running" /\ ~cancelRequested[r]
    /\ \A k \in 1 .. (i - 1) : Verified(r, k)
    /\ stepStatus[r][i] = "queued" /\ effectState[r][i] = "not-started"

ClaimRead(h) ==
    /\ Alive /\ hpc[h] = "claim"
    /\ LET busy == \E r \in External : status[r] = "running" /\ Unresolved(r)
           work == {p \in Run \X Steps : Claimable(p[1], p[2])}
       IN IF busy \/ work = {} THEN HReturn(h)
          ELSE \E p \in work :
                  HGotoWith(h, "claimTx", NewHandlerJob("claim", p[1], p[2], 0, "running"))
    /\ UNCHANGED <<vars, xlease>>

(* The store claims and intent-records the step in one transaction.        *)
ClaimAllowed(r, i) ==
    /\ status[r] = "running"
    /\ stepStatus[r][i] = "queued" /\ effectState[r][i] = "not-started"
    /\ <<r, i>> \notin leased
    /\ TargetFree(r, i)

ClaimTx(h) ==
    LET r == hj[h].run
        i == hj[h].step
    IN
    /\ Alive /\ hpc[h] = "claimTx"
    /\ Overlap \/ \A w \in Worker : pc[w] = "idle" \/ job[w].run # r
    /\ IF ClaimAllowed(r, i)
       THEN /\ AcquireTargetLease(r, i, X)
            /\ BeginStep(r, i)
            /\ xlease' = [xlease EXCEPT ![r][i] =
                             [NoLease EXCEPT !.claimed = TRUE, !.left = LeaseSeconds,
                                             !.next = CheckInSeconds]]
            /\ late' = [late EXCEPT ![r] = @ + (IF cancelRequested[r] THEN 1 ELSE 0)]
       ELSE UNCHANGED <<storeVars, xlease, late>>
    /\ HReturn(h)
    /\ UNCHANGED <<engineVars, landed>>

-----------------------------------------------------------------------------
(* Renew: a check-in rotates the nonce and never extends the lease.        *)

RenewRead(h) ==
    LET r == hj[h].bound[1]
        i == hj[h].bound[2]
    IN
    /\ Alive /\ hpc[h] = "renew"
    /\ IF hj[h].nonce = xlease[r][i].nonce /\ status[r] = "running"
       THEN HGoto(h, "renewTx") ELSE HReturn(h)
    /\ UNCHANGED <<vars, xlease>>

RenewTx(h) ==
    LET r == hj[h].bound[1]
        i == hj[h].bound[2]
        row == xlease[r][i]
    IN
    /\ Alive /\ hpc[h] = "renewTx"
    /\ IF /\ hj[h].nonce = row.nonce
          /\ Active(r, i) /\ row.next = 0 /\ row.left > 0
       THEN xlease' = [xlease EXCEPT
                         ![r][i].nonce = @ + 1,
                         ![r][i].next = IF row.left < CheckInSeconds THEN row.left
                                        ELSE CheckInSeconds]
       ELSE UNCHANGED xlease
    /\ HReturn(h)
    /\ UNCHANGED vars

-----------------------------------------------------------------------------
(* SubmitReceipt.                                                          *)

(* boundLease: the lease, the run and the step as they are now.            *)
StartReceipt(h, r, i, n, st) ==
    LET row == xlease[r][i] IN
    /\ server = "up" /\ hpc[h] = "idle" /\ h # Sweeper
    /\ row.claimed /\ n <= row.nonce
    /\ HGotoWith(h, IF n = row.nonce THEN "record" ELSE "judge",
                 [NewHandlerJob("receipt", r, i, n, st) EXCEPT
                    !.exact = n = row.nonce, !.active = Active(r, i),
                    !.live = row.left > 0, !.inFlight = InFlight(r, i),
                    !.doubt = status[r] = "running" /\ effectState[r][i] = "effect-unknown"])
    /\ xlease' = [xlease EXCEPT ![r][i].sent = @ \/ st # "running"]
    /\ UNCHANGED vars

(* leases.RecordReceipt: an observation, accepted from an active or an     *)
(* expired lease; one final one per lease.  The run document is updated    *)
(* only while the run is running.                                          *)
RecordObservation(h) ==
    LET r == hj[h].run
        i == hj[h].step
        row == xlease[r][i]
        expires == Active(r, i) /\ ~hj[h].live
        final == hj[h].receipt # "running"
    IN
    /\ Alive /\ hpc[h] = "record"
    /\ IF /\ hj[h].nonce = row.nonce
          /\ Active(r, i) \/ row.expired
          /\ final => ~row.final /\ stepStatus[r][i] = "running"
                      /\ effectState[r][i] = "intent-recorded"
       THEN /\ IF expires THEN ReleaseTargetLease(r, i, X) ELSE UNCHANGED leaseVars
            /\ xlease' = [xlease EXCEPT ![r][i].expired = @ \/ expires,
                                        ![r][i].final = @ \/ final]
            /\ IF final /\ status[r] = "running"
               THEN RecordReceipt(r, i) ELSE UNCHANGED <<runVars, keys>>
            /\ HGoto(h, "judge")
       ELSE UNCHANGED <<storeVars, xlease>> /\ HReturn(h)
    /\ UNCHANGED <<engineVars, worldVars>>

(* The adapter's independent verification of the target.                   *)
Judge(h) ==
    LET j == hj[h] IN
    /\ Alive /\ hpc[h] = "judge"
    /\ \/ /\ j.receipt = "running" /\ j.exact /\ j.active /\ j.live
          /\ HReturn(h)
       \/ /\ j.receipt \in {"succeeded", "failed"} /\ j.exact /\ j.active /\ j.live
          /\ HGoto(h, "finish")
       \/ /\ j.receipt = "running" => ~(j.exact /\ j.active /\ j.live)
          /\ HGoto(h, "mark")
    /\ UNCHANGED <<vars, xlease>>

(* FinishStep with what the verification saw of the target.                *)
Finish(h) ==
    LET r == hj[h].run
        i == hj[h].step
        all == \A k \in Steps : stepStatus'[r][k] = "succeeded"
                               /\ effectState'[r][k] = "verified"
        to == CASE hj[h].receipt = "failed" -> "failed"
                [] hj[h].receipt # "failed" /\ all -> "succeeded"
                [] hj[h].receipt # "failed" /\ ~all /\ cancelRequested[r] -> "interrupted"
                [] OTHER -> "none"
    IN
    /\ Alive /\ hpc[h] = "finish"
    /\ IF FinishAllowed(r, i)
       THEN /\ FinishStep(r, i, hj[h].receipt, landed[r][i] > 0)
            /\ HGotoWith(h, "release", [hj[h] EXCEPT !.to = to])
       ELSE UNCHANGED <<runVars, keys>> /\ HReturn(h)
    /\ UNCHANGED <<leaseVars, engineVars, worldVars, xlease>>

(* A lease that has expired meanwhile ends the request with an error.      *)
ReleaseReceipt(h) ==
    LET r == hj[h].run
        i == hj[h].step
    IN
    /\ Alive /\ hpc[h] = "release"
    /\ IF Active(r, i)
       THEN /\ ReleaseTargetLease(r, i, X)
            /\ IF hj[h].to = "none" THEN HReturn(h) ELSE HGoto(h, "settle")
       ELSE UNCHANGED leaseVars /\ HReturn(h)
    /\ UNCHANGED <<runVars, keys, engineVars, worldVars, xlease>>

SettleReceipt(h) ==
    LET r == hj[h].run IN
    /\ Alive /\ hpc[h] = "settle"
    /\ IF TransitionAllowed(r, "running", hj[h].to)
       THEN TransitionRun(r, "running", hj[h].to, changed[r])
       ELSE UNCHANGED <<runVars, keys>>
    /\ HReturn(h)
    /\ UNCHANGED <<leaseVars, engineVars, worldVars, xlease>>

-----------------------------------------------------------------------------
(* The executor outside, the clock and the process.                        *)

ExternalEffect(r, i) ==
    /\ xlease[r][i].claimed /\ ~xlease[r][i].worked /\ ~xlease[r][i].sent
    /\ landed' = [landed EXCEPT ![r][i] = @ + 1]
    /\ xlease' = [xlease EXCEPT ![r][i].worked = TRUE]
    /\ UNCHANGED <<storeVars, engineVars, late, handlerVars>>

(* Faulty: the count goes on below zero.                                   *)
CountBelowZero(n) == n - 1

CountDown(n) == IF n > 0 THEN n - 1 ELSE 0

XTick ==
    /\ Tick
    /\ xlease' = [r \in Run |-> [i \in Steps |->
                    [xlease[r][i] EXCEPT !.left = CountDown(@), !.next = CountDown(@)]]]
    /\ UNCHANGED handlerVars

XCrash ==
    /\ Crash
    /\ hpc' = [h \in Handler |-> "idle"]
    /\ hj' = [h \in Handler |-> IdleHandlerJob]
    /\ UNCHANGED xlease

Handle(h) ==
    \/ Expire(h) \/ Each(h) \/ Mark(h) \/ ToPartial(h) \/ CloseLease(h)
    \/ ClaimRead(h) \/ ClaimTx(h) \/ RenewRead(h) \/ RenewTx(h)
    \/ RecordObservation(h) \/ Judge(h) \/ Finish(h) \/ ReleaseReceipt(h)
    \/ SettleReceipt(h)

ExecutorRequest(h) ==
    \/ StartSweep(h) \/ StartClaim(h)
    \/ \E r \in Run, i \in Steps : \E n \in 0 .. xlease[r][i].nonce :
          \/ StartRenew(h, r, i, n)
          \/ \E st \in ReceiptStatus : StartReceipt(h, r, i, n, st)

(* Between MarkStepUnknown and the run's transition to partial.            *)
Recovering(r) == \E h \in Handler : hpc[h] = "toPartial" /\ hj[h].run = r

EngineStep ==
    /\ \/ \E w \in Worker :
             \/ Work(w)
             \/ \E r \in Run : Request(w, r) /\ (Overlap \/ ~Recovering(r))
       \/ Shutdown \/ Restart \/ Reconcile
    /\ UNCHANGED <<xlease, handlerVars>>

XNext ==
    \/ EngineStep
    \/ \E h \in Handler : Handle(h) \/ ExecutorRequest(h)
    \/ \E r \in Run, i \in Steps : ExternalEffect(r, i)
    \/ XTick \/ XCrash

XSpec == XInit /\ [][XNext]_xvars

(* The sweep and the requests of the server run; time passes; the process  *)
(* is started again and does not crash for ever.  Nothing is assumed of    *)
(* the executor.                                                           *)
XExit == server = "stopping" /\ XCrash

XRestart == Restart /\ UNCHANGED <<xlease, handlerVars>>

XReconcile == Reconcile /\ UNCHANGED <<xlease, handlerVars>>

XWork(w) == Work(w) /\ UNCHANGED <<xlease, handlerVars>>

XLiveSpec ==
    /\ XSpec
    /\ \A w \in Worker : WF_xvars(XWork(w))
    /\ \A h \in Handler : WF_xvars(Handle(h))
    /\ WF_xvars(StartSweep(Sweeper))
    /\ WF_xvars(XTick) /\ WF_xvars(XExit) /\ WF_xvars(XRestart) /\ WF_xvars(XReconcile)
    /\ <>[][~XCrash]_xvars

-----------------------------------------------------------------------------
(* Safety.                                                                 *)

(* The executor is given a step only when every earlier step of the run is *)
(* verified, although the claim acts on runs it read before the store call. *)
StepsInOrder ==
    \A r \in External, i \in Steps : xlease[r][i].claimed =>
       \A k \in 1 .. (i - 1) : Verified(r, k)

(* A step reported ambiguous stays ambiguous: no receipt that arrives late, *)
(* under a superseded nonce or while the sweep is at work turns it into a  *)
(* verified one, and it is never queued again.                             *)
AmbiguityIsFinal ==
    [][\A r \in Run, i \in Steps :
          effectState[r][i] = "effect-unknown" => effectState'[r][i] = "effect-unknown"]_xvars

(* One executor gets one exact work item at a time across all its runs.    *)
OneItemPerExecutor ==
    \A r, s \in External, i, k \in Steps :
       /\ xlease[r][i].claimed /\ InFlight(r, i)
       /\ xlease[s][k].claimed /\ InFlight(s, k)
       => r = s /\ i = k

-----------------------------------------------------------------------------
(* Liveness.                                                               *)

(* Every claimed step is settled, as verified or as ambiguous, even if the *)
(* executor is never heard of again and the server restarts meanwhile.     *)
ClaimIsSettled ==
    \A r \in Run, i \in Steps :
       xlease[r][i].claimed /\ InFlight(r, i) ~> ~InFlight(r, i)

(* Every external lease ends, so its target becomes free again: also when  *)
(* the process dies between ending the run and releasing the lease.        *)
ExternalLeaseEnds ==
    \A r \in Run, i \in Steps : Active(r, i) ~> ~Active(r, i)
=============================================================================

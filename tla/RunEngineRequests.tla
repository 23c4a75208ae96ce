------------------------- MODULE RunEngineRequests --------------------------
(***************************************************************************)
(* What holds when the requests that drive one run follow one another: no  *)
(* resume overlaps another request for its run or falls in the second of   *)
(* the interruption, and the server executes every plan itself.  Then      *)
(* every step of the engine is a step of the run's life cycle, and the     *)
(* record a stopped run leaves can be trusted.  Everything else is as hard *)
(* as before: cancels at any time, leases that end, refusals, shutdowns,   *)
(* crashes and restarts, and any number of runs that meet on a target.     *)
(*                                                                         *)
(* Here are the inductive invariant, what the calls of the store do to the *)
(* rows of one run and to what its driver knows of them, and the requests. *)
(* The steps of a driver, startup and the theorems are in                  *)
(* RunEngineOrderly.                                                       *)
(***************************************************************************)
EXTENDS RunEngineProofs

Orderly == Overlap = FALSE /\ SameSecond = FALSE /\ External = {}

-----------------------------------------------------------------------------
(* The rows of one run.                                                    *)

Open == {"intent-recorded", "receipt-recorded"}

Clear == {"not-started", "verified"}

Fresh(r, k) == stepStatus[r][k] = "queued" /\ effectState[r][k] = "not-started"

(* Not begun, or done: what a worker in the loop finds in the other steps. *)
Ahead(r, k) == stepStatus[r][k] = "succeeded" \/ Fresh(r, k)

(* What ResumeAs checks of every step.                                     *)
Resumable(r, k) ==
    \/ stepStatus[r][k] = "succeeded"
    \/ stepStatus[r][k] = "interrupted" /\ effectState[r][k] = "not-started"

(* The two columns of a step agree.                                        *)
StepRow(s, e) ==
    /\ s = "queued" => e = "not-started"
    /\ s = "running" <=> e \in Open
    /\ s = "succeeded" => e = "verified"
    /\ s = "partial" => e \in {"effect-unknown", "verified"}
    /\ e = "verified" => s \in {"succeeded", "failed", "partial"}
    /\ e = "effect-unknown" => s = "partial"

RowInv(r) == \A k \in Steps : StepRow(stepStatus[r][k], effectState[r][k])

(* What the status of a run says of its steps.                             *)
StatusInv(r) ==
    /\ status[r] \in {"none", "queued"} => \A k \in Steps : Fresh(r, k)
    /\ status[r] \notin {"running", "partial"} =>
          \A k \in Steps : effectState[r][k] \in Clear
    /\ status[r] = "partial" => \A k \in Steps : effectState[r][k] \notin Open

(* A change that is no longer in flight is in the record of the run.       *)
HonestInv(r) ==
    \A k \in Steps : landed[r][k] # 0 /\ effectState[r][k] \in {"effect-unknown", "verified"}
                        => changed[r] = TRUE

Closing == {"interrupted", "failed", "partial"}

Interruption(r) == TransitionKey(r, "running", "interrupted")

(* A key of the current second is never met by a call that should write:   *)
(* what it stands for is still in the rows.                                *)
KeyInv(r) ==
    /\ \A x \in RunStatus : TransitionKey(r, "running", x) \in keys =>
          status[r] \in Terminal \/ (x = "interrupted" /\ status[r] = "interrupted")
    /\ TransitionKey(r, "interrupted", "running") \in keys /\ status[r] = "interrupted" =>
          Interruption(r) \in keys
    /\ TransitionKey(r, "queued", "running") \in keys => status[r] \notin {"none", "queued"}
    /\ \A k \in Steps, x \in Closing : CloseKey(r, k, x) \in keys =>
          /\ stepStatus[r][k] = x
          /\ status[r] \in Terminal \cup {"running"} \/ Interruption(r) \in keys

LeaseInv(r) == \A l \in lease : l.run = r => status[r] = "running"

LateInv(r) == late[r] <= 1 /\ (late[r] # 0 => cancelRequested[r] = TRUE)

RunOK(r) ==
    RowInv(r) /\ StatusInv(r) /\ HonestInv(r) /\ KeyInv(r) /\ LeaseInv(r) /\ LateInv(r)

-----------------------------------------------------------------------------
(* The worker that drives a run, and what it may rely on.                  *)

Busy(p) == p \notin {"idle", "cancel"}

(* Between opening its run and taking it to another status.                *)
Inside == Looping \cup {"close", "releaseAll", "settle"}

DriveRows(p, j) ==
    /\ p = "start" => status[j.run] \in {"queued", "cancelled"}
    /\ p \in {"resume", "releaseLast"} => status[j.run] \in {"interrupted", "cancelled"}
    /\ p = "resume" /\ status[j.run] = "interrupted" =>
          \A k \in Steps : Resumable(j.run, k)
    /\ p \in Inside => /\ status[j.run] = "running"
                       /\ \A k \in Steps : k # j.step => Ahead(j.run, k)
    /\ p = "loop" => \A k \in Steps : Ahead(j.run, k)
    /\ p \in {"acquire", "begin"} => Fresh(j.run, j.step)
    /\ p = "release" => /\ stepStatus[j.run][j.step] = j.out
                        /\ effectState[j.run][j.step] = "verified"
    /\ p \in {"releaseAll", "settle"} =>
          IF j.to = "partial" THEN stepStatus[j.run][j.step] = "partial"
          ELSE effectState[j.run][j.step] \in Clear

DriveKnows(p, j) ==
    p \in {"returned", "verify"} /\ landed[j.run][j.step] # 0 => j.changed = TRUE

DriveKeys(p, j) ==
    p = "resume" => /\ Interruption(j.run) \notin keys
                    /\ TransitionKey(j.run, "interrupted", "running") \notin keys

DriveLate(p, j) == p \in {"acquire", "begin"} => late[j.run] = 0

Holding == {"begin", "begun", "executing", "returned", "verify", "release"}

DriveLease(w, p, j) ==
    /\ p \in {"loop", "acquire", "settle"} => \A l \in lease : l.run # j.run
    /\ p \in Holding =>
          /\ LeaseOf(j.run, j.step, w) \in lease
          /\ \A l \in lease : l.run = j.run => l = LeaseOf(j.run, j.step, w)

(* A cancel that does more than record the request withdraws the run.      *)
CancelOK(p, j) ==
    p = "cancel" /\ j.to # "running" => j.to = "cancelled" /\ j.seen \in {"queued", "interrupted"}

DriveOK(w, p, j) ==
    /\ DriveRows(p, j) /\ DriveKnows(p, j) /\ DriveKeys(p, j) /\ DriveLate(p, j)
    /\ DriveLease(w, p, j) /\ CancelOK(p, j)

OneDriver ==
    \A v, w \in Worker : Busy(pc[v]) /\ Busy(pc[w]) /\ job[v].run = job[w].run => v = w

LeaseUnique ==
    \A l, m \in lease : TargetOf[l.run][l.step] = TargetOf[m.run][m.step] => l = m

StartupInv == server = "reconciling" => \A r \in Run : status[r] = "running" => r \in pending

OInv ==
    /\ OneDriver /\ LeaseUnique /\ StartupInv
    /\ \A r \in Run : RunOK(r)
    /\ \A w \in Worker : DriveOK(w, pc[w], job[w])

-----------------------------------------------------------------------------
(* What a step leaves of a run it is not about.                            *)

RowSame(q) ==
    /\ status'[q] = status[q] /\ cancelRequested'[q] = cancelRequested[q]
    /\ changed'[q] = changed[q]
    /\ stepStatus'[q] = stepStatus[q] /\ effectState'[q] = effectState[q]

KeySame(q) ==
    /\ \A from, to \in RunStatus :
          TransitionKey(q, from, to) \in keys' <=> TransitionKey(q, from, to) \in keys
    /\ \A k \in Steps, x \in Closing : CloseKey(q, k, x) \in keys' <=> CloseKey(q, k, x) \in keys

LeaseSame(q) == \A l : l.run = q => (l \in lease' <=> l \in lease)

WorldSame(q) == landed'[q] = landed[q] /\ late'[q] = late[q]

RunSame(q) == RowSame(q) /\ KeySame(q) /\ LeaseSame(q) /\ WorldSame(q)

(* What the worker that drives the run can see of it.                      *)
SameToDriver(q) ==
    /\ status'[q] = status[q]
    /\ stepStatus'[q] = stepStatus[q] /\ effectState'[q] = effectState[q]
    /\ KeySame(q) /\ LeaseSame(q) /\ WorldSame(q)

(* Such a run stays in order ...                                           *)
LEMMA OtherRun == ASSUME NEW q \in Run, RunOK(q), RunSame(q) PROVE RunOK(q)'
<1>1. RowSame(q) /\ KeySame(q) /\ LeaseSame(q) /\ WorldSame(q)
  BY Zenon DEF RunSame
<1>2. RowInv(q)' /\ StatusInv(q)'
  BY Zenon, <1>1 DEF RunOK, RowSame, RowInv, StatusInv, Fresh
<1>3. HonestInv(q)'
  BY Zenon, <1>1 DEF RunOK, RowSame, WorldSame, HonestInv
<1>4. KeyInv(q)'
  BY Zenon, <1>1 DEF RunOK, RowSame, KeySame, KeyInv, Interruption, Closing,
     RunStatus
<1>5. LeaseInv(q)'
  BY Zenon, <1>1 DEF RunOK, RowSame, LeaseSame, LeaseInv
<1>6. LateInv(q)'
  BY Zenon, <1>1 DEF RunOK, RowSame, WorldSame, LateInv
<1> QED BY <1>2, <1>3, <1>4, <1>5, <1>6 DEF RunOK

(* ... and so does the worker that drives it.                              *)
LEMMA OtherDriver ==
    ASSUME NEW v \in Worker, NEW p, NEW j, DriveOK(v, p, j), SameToDriver(j.run)
    PROVE  DriveOK(v, p, j)'
<1>1. /\ status'[j.run] = status[j.run]
      /\ stepStatus'[j.run] = stepStatus[j.run] /\ effectState'[j.run] = effectState[j.run]
      /\ KeySame(j.run) /\ LeaseSame(j.run) /\ WorldSame(j.run)
  BY Zenon DEF SameToDriver
<1>2. DriveRows(p, j)'
  BY ZenonT(30), <1>1 DEF DriveOK, DriveRows, Resumable, Ahead, Fresh
<1>3. DriveKnows(p, j)' /\ DriveLate(p, j)' /\ CancelOK(p, j)'
  BY Zenon, <1>1 DEF DriveOK, WorldSame, DriveKnows, DriveLate, CancelOK
<1>4. DriveKeys(p, j)'
  BY Zenon, <1>1 DEF DriveOK, KeySame, DriveKeys, Interruption, RunStatus
<1>5. DriveLease(v, p, j)'
  BY Zenon, <1>1 DEF DriveOK, LeaseSame, DriveLease, LeaseOf
<1> QED BY <1>2, <1>3, <1>4, <1>5 DEF DriveOK

(* Every repository call is about one run.                                 *)
OtherRows(r) == \A q \in Run : q # r => RowSame(q) /\ KeySame(q)

LEMMA SameRowsOnly ==
    ASSUME UNCHANGED <<runVars, keys>> PROVE \A q \in Run : RowSame(q) /\ KeySame(q)
BY Zenon DEF runVars, RowSame, KeySame

LEMMA NewKeys ==
    ASSUME NEW r \in Run, NEW i, NEW e, NEW x, keys' = keys \cup {<<r, i, e, x>>}
    PROVE  \A q \in Run : q # r => KeySame(q)
BY DEF KeySame, TransitionKey, CloseKey

LEMMA TransitionOnly ==
    ASSUME RowTypeOK, NEW r \in Run, NEW from, NEW to, NEW chg, TransitionRun(r, from, to, chg)
    PROVE  OtherRows(r)
<1>1. CASE UNCHANGED <<runVars, keys>>
  BY Zenon, <1>1, SameRowsOnly DEF OtherRows
<1>2. CASE /\ status' = [status EXCEPT ![r] = to]
           /\ changed' = [changed EXCEPT ![r] = chg]
           /\ stepStatus' = [stepStatus EXCEPT
                               ![r] = [i \in Steps |-> StepAfter(from, to, stepStatus[r][i])]]
           /\ keys' = keys \cup {TransitionKey(r, from, to)}
           /\ UNCHANGED <<cancelRequested, effectState>>
  <2>1. \A q \in Run : q # r => KeySame(q)
    BY Zenon, <1>2, NewKeys DEF TransitionKey
  <2>2. \A q \in Run : q # r => RowSame(q)
    BY Zenon, <1>2 DEF RowTypeOK, RowSame
  <2> QED BY <2>1, <2>2 DEF OtherRows
<1> QED BY <1>1, <1>2 DEF TransitionRun

LEMMA EndWithOnly ==
    ASSUME RowTypeOK, NEW w \in Worker, job[w].run \in Run, NEW from, NEW to, NEW chg,
           EndWith(w, from, to, chg)
    PROVE  OtherRows(job[w].run)
BY Zenon, TransitionOnly, SameRowsOnly DEF EndWith, OtherRows

LEMMA CancellationOnly ==
    ASSUME RowTypeOK, NEW r \in Run, RequestCancellation(r)
    PROVE  OtherRows(r)
<1>1. \A q \in Run : q # r => KeySame(q)
  BY Zenon, NewKeys DEF RequestCancellation, CancellationKey
<1>2. \A q \in Run : q # r => RowSame(q)
  BY Zenon DEF RequestCancellation, RowTypeOK, RowSame
<1> QED BY <1>1, <1>2 DEF OtherRows

LEMMA StepCallsOnly ==
    ASSUME RowTypeOK, NEW r \in Run, NEW i \in Steps,
           \/ BeginStep(r, i)
           \/ RecordReceipt(r, i) /\ UNCHANGED keys
           \/ \E x, chg : FinishStep(r, i, x, chg) /\ UNCHANGED keys
    PROVE  OtherRows(r)
<1>1. UNCHANGED keys
  BY Zenon DEF BeginStep, RecordReceipt, FinishStep
<1>2. \A q \in Run : KeySame(q)
  BY Zenon, <1>1 DEF KeySame
<1>3. \A q \in Run : q # r => RowSame(q)
  BY Zenon DEF BeginStep, RecordReceipt, FinishStep, RowTypeOK, RowSame
<1> QED BY <1>2, <1>3 DEF OtherRows

LEMMA CloseOnly ==
    ASSUME RowTypeOK, NEW r \in Run, NEW i \in Steps, NEW x, CloseStep(r, i, x)
    PROVE  OtherRows(r)
<1>1. CASE UNCHANGED <<runVars, keys>>
  BY Zenon, <1>1, SameRowsOnly DEF OtherRows
<1>2. CASE CloseKey(r, i, x) \notin keys
  <2>1. \A q \in Run : q # r => KeySame(q)
    BY Zenon, <1>2, NewKeys DEF CloseStep, CloseKey
  <2>2. \A q \in Run : q # r => RowSame(q)
    BY Zenon, <1>2 DEF CloseStep, RowTypeOK, RowSame
  <2> QED BY <2>1, <2>2 DEF OtherRows
<1> QED BY <1>1, <1>2 DEF CloseStep

LEMMA LeaseOnly ==
    ASSUME NEW r \in Run, NEW i, NEW h,
           \/ AcquireTargetLease(r, i, h) \/ ReleaseTargetLease(r, i, h)
           \/ ReleaseRunLeases(r) \/ UNCHANGED leaseVars
    PROVE  \A q \in Run : q # r => LeaseSame(q)
BY DEF AcquireTargetLease, ReleaseTargetLease, ReleaseRunLeases, leaseVars, LeaseSame, LeaseOf

(* A step about run r, of the one worker that drives it or goes on to.     *)
OnlyRun(r) == \A q \in Run : q # r => RunSame(q)

Drives(w, r) == \A v \in Worker : Busy(pc[v]) /\ job[v].run = r => v = w

LEMMA DriverStep ==
    ASSUME IInv, OInv, NEW w \in Worker, NEW r \in Run, Drives(w, r),
           NEW p, NEW j, GotoWith(w, p, j), Busy(p) => j.run = r,
           OnlyRun(r), RunOK(r)', DriveOK(w, p, j)', LeaseUnique',
           Alive, UNCHANGED server
    PROVE  OInv'
<1>1. /\ pc'[w] = p /\ job'[w] = j
      /\ \A v \in Worker : v # w => pc'[v] = pc[v] /\ job'[v] = job[v]
  BY Zenon DEF IInv, LocalInv, TypeOK, GotoWith
<1>2. OneDriver'
  BY Zenon, <1>1 DEF OInv, OneDriver, Drives
<1>3. \A q \in Run : RunOK(q)'
  BY Zenon, OtherRun DEF OInv, OnlyRun
<1>4. StartupInv'
  BY Zenon DEF StartupInv, Alive
<1>5. ASSUME NEW v \in Worker PROVE DriveOK(v, pc[v], job[v])'
  <2>1. CASE v = w
    BY Zenon, <1>1, <2>1
  <2>2. CASE v # w /\ Busy(pc[v])
    <3>1. job[v].run # r /\ job[v].run \in Run
      BY Zenon, <2>2, JobFacts DEF Drives
    <3>2. SameToDriver(job[v].run) /\ DriveOK(v, pc[v], job[v])
      BY ZenonT(30), <3>1 DEF OnlyRun, OInv, RunSame, RowSame, SameToDriver
    <3> QED BY <1>1, <2>2, <3>2, OtherDriver
  <2>3. CASE v # w /\ ~Busy(pc[v])
    <3>1. CancelOK(pc[v], job[v])
      BY Zenon DEF OInv, DriveOK
    <3> QED BY ZenonT(30), <1>1, <2>3, <3>1 DEF DriveOK, DriveRows, DriveKnows, DriveKeys,
               DriveLate, DriveLease, CancelOK, Busy, Inside, Looping, Holding
  <2> QED BY <2>1, <2>2, <2>3
<1> QED BY <1>2, <1>3, <1>4, <1>5 DEF OInv

-----------------------------------------------------------------------------
(* Steps of the engine seen as steps of the life cycle.                    *)

KnownSame == \A q \in Run, k \in Steps : Known(q, k)' = Known(q, k)

(* Nothing but what is known of step i of run r is new.                    *)
Learned(r, i, x) ==
    /\ status' = status /\ landed' = landed
    /\ \A q \in Run, k \in Steps :
          Known(q, k)' = IF q = r /\ k = i THEN x ELSE Known(q, k)

Knows(s, e) ==
    IF e = "not-started" THEN "none"
    ELSE IF e \in Open THEN "open"
    ELSE IF e = "effect-unknown" THEN "unknown" ELSE s

LEMMA KnownValue ==
    ASSUME NEW r \in Run, NEW i \in Steps
    PROVE  /\ Known(r, i) = Knows(stepStatus[r][i], effectState[r][i])
           /\ Known(r, i)' = Knows(stepStatus'[r][i], effectState'[r][i])
<1>1. ASSUME NEW e, NEW s
      PROVE  (CASE e = "not-started" -> "none"
                [] e \in {"intent-recorded", "receipt-recorded"} -> "open"
                [] e = "effect-unknown" -> "unknown"
                [] OTHER -> s) = Knows(s, e)
  BY Zenon DEF Knows, Open
<1> QED BY Zenon, <1>1 DEF Known

LEMMA LifeStutter ==
    ASSUME status' = status, landed' = landed, KnownSame
    PROVE  UNCHANGED Lifecycle!lifecycleVars
BY DEF Lifecycle!lifecycleVars, KnownSame

(* The moves of a run its life cycle allows.                               *)
MoveOK(r, to) ==
    \/ status[r] = "none" /\ to = "queued"
    \/ /\ status[r] \in {"queued", "interrupted"} /\ to = "running"
       /\ \A k \in Steps : Known(r, k) \in {"none", "succeeded"}
    \/ /\ status[r] = "running" /\ to \in {"interrupted", "failed"}
       /\ \A k \in Steps : Known(r, k) \in {"none", "succeeded", "failed", "partial"}
    \/ /\ status[r] \in {"queued", "interrupted"} /\ to = "cancelled"
       /\ \A k \in Steps : Known(r, k) \in {"none", "succeeded", "failed", "partial"}
    \/ /\ status[r] = "running" /\ to = "succeeded"
       /\ \A k \in Steps : Known(r, k) = "succeeded"
    \/ /\ status[r] = "running" /\ to = "partial"
       /\ \E k \in Steps : Known(r, k) \in {"unknown", "partial"}

LEMMA LifeMove ==
    ASSUME NEW r \in Run, NEW to, status' = [status EXCEPT ![r] = to],
           landed' = landed, KnownSame, MoveOK(r, to)
    PROVE  Lifecycle!LifecycleNext
<1> DEFINE known == [q \in Run |-> [k \in Steps |-> Known(q, k)]]
<1>1. UNCHANGED known
  BY DEF KnownSame
<1>2. \A k \in Steps : known[r][k] = Known(r, k)
  BY Zenon
<1>3. \/ Lifecycle!Submit(r) \/ Lifecycle!Open(r) \/ Lifecycle!Interrupt(r)
      \/ Lifecycle!Withdraw(r) \/ Lifecycle!Fail(r) \/ Lifecycle!Succeed(r)
      \/ Lifecycle!Partial(r)
  <2>1. CASE status[r] = "none" /\ to = "queued"
    BY Zenon, <1>1, <2>1 DEF Lifecycle!Submit, Lifecycle!Move
  <2>2. CASE /\ status[r] \in {"queued", "interrupted"} /\ to = "running"
             /\ \A k \in Steps : Known(r, k) \in {"none", "succeeded"}
    BY Zenon, <1>1, <1>2, <2>2 DEF Lifecycle!Open, Lifecycle!Move, Lifecycle!Every, Steps
  <2>3. CASE /\ status[r] = "running" /\ to \in {"interrupted", "failed"}
             /\ \A k \in Steps : Known(r, k) \in {"none", "succeeded", "failed", "partial"}
    BY Zenon, <1>1, <1>2, <2>3 DEF Lifecycle!Interrupt, Lifecycle!Fail, Lifecycle!Move,
       Lifecycle!Settled, Lifecycle!Every, Lifecycle!Knowledge, Steps
  <2>4. CASE /\ status[r] \in {"queued", "interrupted"} /\ to = "cancelled"
             /\ \A k \in Steps : Known(r, k) \in {"none", "succeeded", "failed", "partial"}
    BY Zenon, <1>1, <1>2, <2>4 DEF Lifecycle!Withdraw, Lifecycle!Move,
       Lifecycle!Settled, Lifecycle!Every, Lifecycle!Knowledge, Steps
  <2>5. CASE /\ status[r] = "running" /\ to = "succeeded"
             /\ \A k \in Steps : Known(r, k) = "succeeded"
    BY Zenon, <1>1, <1>2, <2>5 DEF Lifecycle!Succeed, Lifecycle!Move, Lifecycle!Every, Steps
  <2>6. CASE /\ status[r] = "running" /\ to = "partial"
             /\ \E k \in Steps : Known(r, k) \in {"unknown", "partial"}
    BY Zenon, <1>1, <1>2, <2>6 DEF Lifecycle!Partial, Lifecycle!Move, Lifecycle!Every, Steps
  <2> QED BY SMTT(30), <2>1, <2>2, <2>3, <2>4, <2>5, <2>6 DEF MoveOK
<1> QED BY <1>3 DEF Lifecycle!LifecycleNext

LEMMA LifeLearn ==
    ASSUME NEW r \in Run, NEW i \in Steps, NEW x, Learned(r, i, x),
           \/ /\ x = "open" /\ status[r] = "running" /\ Known(r, i) = "none"
              /\ \A k \in Steps : k < i => Known(r, k) = "succeeded"
           \/ x = "none" /\ Known(r, i) = "open" /\ landed[r][i] = 0
           \/ x \in {"unknown", "succeeded", "failed", "partial"} /\ Known(r, i) = "open"
    PROVE  Lifecycle!LifecycleNext
<1> DEFINE known == [q \in Run |-> [k \in Steps |-> Known(q, k)]]
<1>1. known' = [known EXCEPT ![r][i] = x] /\ UNCHANGED <<status, landed>>
  BY Zenon DEF Learned
<1>2. \A k \in Steps : known[r][k] = Known(r, k)
  BY Zenon
<1>3. i \in 1 .. NSteps /\ \A k \in 1 .. (i - 1) : k \in Steps /\ k < i
  BY NStepsAssumption DEF Steps
<1>4. Lifecycle!Learn(r, i, x)
  BY Zenon, <1>1 DEF Lifecycle!Learn
<1>5. \/ Lifecycle!BeginEffect(r, i) \/ Lifecycle!Undo(r, i)
      \/ \E k \in {"unknown", "succeeded", "failed", "partial"} : Lifecycle!Conclude(r, i, k)
  <2>1. CASE /\ x = "open" /\ status[r] = "running" /\ Known(r, i) = "none"
             /\ \A k \in Steps : k < i => Known(r, k) = "succeeded"
    BY Zenon, <1>2, <1>3, <1>4, <2>1 DEF Lifecycle!BeginEffect
  <2>2. CASE x = "none" /\ Known(r, i) = "open" /\ landed[r][i] = 0
    BY Zenon, <1>2, <1>4, <2>2 DEF Lifecycle!Undo
  <2>3. CASE x \in {"unknown", "succeeded", "failed", "partial"} /\ Known(r, i) = "open"
    BY Zenon, <1>2, <1>4, <2>3 DEF Lifecycle!Conclude
  <2> QED BY <2>1, <2>2, <2>3
<1> QED BY <1>3, <1>5 DEF Lifecycle!LifecycleNext

LEMMA LifeLand ==
    ASSUME NEW r \in Run, NEW i \in Steps, Known(r, i) = "open", landed[r][i] = 0,
           landed' = [landed EXCEPT ![r][i] = 1], status' = status, KnownSame
    PROVE  Lifecycle!LifecycleNext
<1> DEFINE known == [q \in Run |-> [k \in Steps |-> Known(q, k)]]
<1>1. UNCHANGED <<status, known>>
  BY DEF KnownSame
<1>2. known[r][i] = Known(r, i) /\ i \in 1 .. NSteps
  BY Zenon DEF Steps
<1>3. Lifecycle!Land(r, i)
  BY Zenon, <1>1, <1>2 DEF Lifecycle!Land
<1> QED BY <1>2, <1>3 DEF Lifecycle!LifecycleNext

(* A step of the engine that is one of the life cycle, or none.            *)
LifeStep == Lifecycle!LifecycleNext \/ UNCHANGED Lifecycle!lifecycleVars

-----------------------------------------------------------------------------
(* What the calls do to the run they are about: first, transitions.        *)

Moved(r, from, to, chg) ==
    /\ status[r] = from /\ status' = [status EXCEPT ![r] = to]
    /\ changed' = [changed EXCEPT ![r] = chg]
    /\ \A q \in Run, k \in Steps : stepStatus'[q][k] =
          IF q = r THEN StepAfter(from, to, stepStatus[q][k]) ELSE stepStatus[q][k]
    /\ keys' = keys \cup {TransitionKey(r, from, to)}
    /\ UNCHANGED <<cancelRequested, effectState>>

LEMMA TransitionMoves ==
    ASSUME RowTypeOK, NEW r \in Run, NEW from, NEW to, NEW chg, status[r] = from,
           TransitionRun(r, from, to, chg), TransitionKey(r, from, to) \notin keys
    PROVE  Moved(r, from, to, chg)
<1>1. /\ status' = [status EXCEPT ![r] = to]
      /\ changed' = [changed EXCEPT ![r] = chg]
      /\ stepStatus' = [stepStatus EXCEPT
                          ![r] = [i \in Steps |-> StepAfter(from, to, stepStatus[r][i])]]
      /\ keys' = keys \cup {TransitionKey(r, from, to)}
      /\ UNCHANGED <<cancelRequested, effectState>>
  BY Zenon DEF TransitionRun
<1>2. \A q \in Run, k \in Steps : stepStatus'[q][k] =
         IF q = r THEN StepAfter(from, to, stepStatus[q][k]) ELSE stepStatus[q][k]
  BY Zenon, <1>1 DEF RowTypeOK
<1> QED BY Zenon, <1>1, <1>2 DEF Moved

(* A transition keeps the two columns of a step in agreement, and what     *)
(* they say of its effect.                                                 *)
LEMMA StepAfterRow ==
    ASSUME NEW from, NEW to, NEW s \in StepStatus, NEW e \in EffectState, StepRow(s, e),
           s = "interrupted" /\ from = "interrupted" /\ to = "running" => e = "not-started"
    PROVE  /\ StepRow(StepAfter(from, to, s), e)
           /\ Knows(StepAfter(from, to, s), e) = Knows(s, e)
<1>1. CASE s = "interrupted" /\ from = "interrupted" /\ to = "running"
  <2>1. StepAfter(from, to, s) = "queued" /\ e = "not-started"
    BY Zenon, <1>1 DEF StepAfter
  <2> QED BY <2>1 DEF StepRow, Knows, Open
<1>2. CASE s = "queued"
  <2>1. e = "not-started"
    BY Zenon, <1>2 DEF StepRow
  <2>2. StepAfter(from, to, s) \in {"queued", "cancelled", "interrupted"}
    BY Zenon, <1>2 DEF StepAfter
  <2> QED BY <2>1, <2>2 DEF StepRow, Knows, Open
<1>3. CASE s # "queued" /\ ~(s = "interrupted" /\ from = "interrupted" /\ to = "running")
  <2>1. StepAfter(from, to, s) = s
    BY Zenon, <1>3 DEF StepAfter
  <2> QED BY <2>1
<1> QED BY <1>1, <1>2, <1>3

LEMMA MovedRows ==
    ASSUME RowTypeOK, NEW r \in Run, NEW from, NEW to, NEW chg, Moved(r, from, to, chg),
           \A q \in Run : RunOK(q), changed[r] = TRUE => chg = TRUE, UNCHANGED worldVars,
           from = "interrupted" /\ to = "running" => \A k \in Steps : Resumable(r, k)
    PROVE  /\ RowInv(r)' /\ HonestInv(r)' /\ LateInv(r)' /\ KnownSame
           /\ status' = [status EXCEPT ![r] = to] /\ status'[r] = to /\ landed' = landed
<1>1. \A q \in Run, k \in Steps : /\ stepStatus[q][k] \in StepStatus
                                  /\ effectState[q][k] \in EffectState
                                  /\ StepRow(stepStatus[q][k], effectState[q][k])
  BY Zenon DEF RowTypeOK, RunOK, RowInv
<1>2. \A k \in Steps :
         stepStatus[r][k] = "interrupted" /\ from = "interrupted" /\ to = "running"
            => effectState[r][k] = "not-started"
  BY Zenon DEF Resumable
<1>3. \A k \in Steps : LET s == StepAfter(from, to, stepStatus[r][k]) IN
         /\ StepRow(s, effectState[r][k])
         /\ Knows(s, effectState[r][k]) = Knows(stepStatus[r][k], effectState[r][k])
  BY Zenon, <1>1, <1>2, StepAfterRow
<1>4. RowInv(r)'
  BY Zenon, <1>3 DEF Moved, RowInv
<1>5. \A q \in Run, k \in Steps :
         Knows(stepStatus'[q][k], effectState'[q][k]) = Knows(stepStatus[q][k], effectState[q][k])
  BY Zenon, <1>3 DEF Moved
<1>6. KnownSame
  <2> SUFFICES ASSUME NEW q \in Run, NEW k \in Steps PROVE Known(q, k)' = Known(q, k)
    BY Zenon DEF KnownSame
  <2>1. /\ Known(q, k) = Knows(stepStatus[q][k], effectState[q][k])
        /\ Known(q, k)' = Knows(stepStatus'[q][k], effectState'[q][k])
    BY Zenon, KnownValue
  <2> QED BY Zenon, <1>5, <2>1
<1>7. HonestInv(r)' /\ LateInv(r)'
  BY Zenon DEF RunOK, HonestInv, LateInv, Moved, RowTypeOK, worldVars
<1> QED BY <1>4, <1>6, <1>7 DEF Moved, RowTypeOK, worldVars

LEMMA MovedKeys ==
    ASSUME NEW r \in Run, NEW from \in RunStatus, NEW to \in RunStatus, NEW chg,
           Moved(r, from, to, chg)
    PROVE  /\ \A f, t \in RunStatus : TransitionKey(r, f, t) \in keys' <=>
                 TransitionKey(r, f, t) \in keys \/ (f = from /\ t = to)
           /\ \A k \in Steps, x \in Closing :
                 CloseKey(r, k, x) \in keys' <=> CloseKey(r, k, x) \in keys
BY NStepsAssumption DEF Moved, TransitionKey, CloseKey, RunStatus

(* A run that ends or is interrupted.                                      *)
LEMMA MovedEnd ==
    ASSUME RowTypeOK, NEW r \in Run, NEW to \in {"interrupted", "failed", "succeeded", "partial"},
           NEW chg, Moved(r, "running", to, chg),
           \A q \in Run : RunOK(q), changed[r] = TRUE => chg = TRUE,
           UNCHANGED <<leaseVars, worldVars>>,
           \A l \in lease : l.run # r,
           to # "partial" => \A k \in Steps : effectState[r][k] \in Clear,
           to = "partial" => /\ \A k \in Steps : effectState[r][k] \notin Open
                             /\ \E k \in Steps : stepStatus[r][k] = "partial",
           to = "succeeded" => \A k \in Steps : stepStatus[r][k] = "succeeded"
    PROVE  RunOK(r)' /\ LifeStep
<1>1. /\ RowInv(r)' /\ HonestInv(r)' /\ LateInv(r)' /\ KnownSame
      /\ status' = [status EXCEPT ![r] = to] /\ status'[r] = to /\ landed' = landed
  BY Zenon, MovedRows
<1>2. effectState' = effectState /\ lease' = lease /\ status[r] = "running"
  BY Zenon DEF Moved, leaseVars
<1>3. StatusInv(r)' /\ LeaseInv(r)'
  BY ZenonT(30), <1>1, <1>2 DEF StatusInv, LeaseInv, Open, Clear
<1>4. KeyInv(r)'
  <2>1. "running" \in RunStatus /\ "interrupted" \in RunStatus /\ "queued" \in RunStatus
        /\ to \in RunStatus
    BY Zenon DEF RunStatus
  <2>2. /\ \A f, t \in RunStatus : TransitionKey(r, f, t) \in keys' <=>
              TransitionKey(r, f, t) \in keys \/ (f = "running" /\ t = to)
        /\ \A k \in Steps, x \in Closing :
              CloseKey(r, k, x) \in keys' <=> CloseKey(r, k, x) \in keys
    BY Zenon, <2>1, MovedKeys
  <2>3. KeyInv(r) /\ status[r] \notin Terminal \cup {"interrupted"}
    BY Zenon, <1>2 DEF RunOK, Terminal
  <2>4. \A x \in RunStatus : TransitionKey(r, "running", x) \in keys' => x = to
    BY Zenon, <2>1, <2>2, <2>3 DEF KeyInv
  <2>5. to \in Terminal \/ (to = "interrupted" /\ Interruption(r) \in keys')
    BY ZenonT(30), <2>1, <2>2 DEF Terminal, Interruption
  <2>6. ASSUME NEW k \in Steps, NEW x \in Closing, CloseKey(r, k, x) \in keys'
        PROVE  stepStatus'[r][k] = x
    <3>1. stepStatus[r][k] = x
      BY Zenon, <2>2, <2>3, <2>6 DEF KeyInv
    <3>2. x # "queued" /\ StepAfter("running", to, x) = x
      BY Zenon DEF Closing, StepAfter
    <3> QED BY <3>1, <3>2 DEF Moved
  <2> QED BY SMTT(30), <1>1, <2>1, <2>4, <2>5, <2>6 DEF KeyInv, Interruption, Terminal
<1>5. MoveOK(r, to)
  <2>1. ASSUME NEW k \in Steps
        PROVE  /\ Known(r, k) = Knows(stepStatus[r][k], effectState[r][k])
               /\ StepRow(stepStatus[r][k], effectState[r][k])
    BY ZenonT(30), KnownValue DEF RunOK, RowInv
  <2>2. CASE to \in {"interrupted", "failed"}
    <3>1. \A k \in Steps : Known(r, k) \in {"none", "succeeded", "failed", "partial"}
      BY Zenon, <2>1, <2>2 DEF Knows, StepRow, Clear, Open
    <3> QED BY <1>2, <2>2, <3>1 DEF MoveOK
  <2>3. CASE to = "succeeded"
    <3>1. \A k \in Steps : Known(r, k) = "succeeded"
      BY Zenon, <2>1, <2>3 DEF Knows, StepRow, Open
    <3> QED BY SMTT(30), <1>2, <2>3, <3>1 DEF MoveOK
  <2>4. CASE to = "partial"
    <3>1. PICK k \in Steps : stepStatus[r][k] = "partial"
      BY Zenon, <2>4
    <3>2. Known(r, k) \in {"unknown", "partial"}
      BY Zenon, <2>1, <3>1 DEF Knows, StepRow, Open
    <3> QED BY SMTT(30), <1>2, <2>4, <3>2 DEF MoveOK
  <2> QED BY <2>2, <2>3, <2>4
<1> QED BY Zenon, <1>1, <1>3, <1>4, <1>5, LifeMove DEF RunOK, LifeStep

(* A run that is opened, at first or again.                                *)
LEMMA MovedOpen ==
    ASSUME RowTypeOK, NEW r \in Run, NEW from \in {"queued", "interrupted"},
           Moved(r, from, "running", changed[r]), \A q \in Run : RunOK(q),
           UNCHANGED <<leaseVars, worldVars>>,
           from = "interrupted" => /\ \A k \in Steps : Resumable(r, k)
                                   /\ Interruption(r) \notin keys
    PROVE  RunOK(r)' /\ LifeStep /\ \A k \in Steps : Ahead(r, k)'
<1>1. /\ RowInv(r)' /\ HonestInv(r)' /\ LateInv(r)' /\ KnownSame
      /\ status' = [status EXCEPT ![r] = "running"] /\ status'[r] = "running" /\ landed' = landed
  BY Zenon, MovedRows
<1>2. effectState' = effectState /\ status[r] = from
  BY Zenon DEF Moved
<1>3. StatusInv(r)' /\ LeaseInv(r)'
  BY Zenon, <1>1 DEF StatusInv, LeaseInv
<1>4. \A k \in Steps : (from = "queued" /\ Fresh(r, k))
      \/ (from = "interrupted" /\ Resumable(r, k))
  BY Zenon, <1>2 DEF RunOK, StatusInv
<1>5. ASSUME NEW k \in Steps PROVE Ahead(r, k)'
  <2>1. stepStatus'[r][k] = StepAfter(from, "running", stepStatus[r][k])
    BY Zenon DEF Moved
  <2>2. CASE from = "queued" /\ Fresh(r, k)
    <3>1. StepAfter(from, "running", stepStatus[r][k]) = "queued"
      BY Zenon, <2>2 DEF StepAfter, Fresh
    <3> QED BY SMTT(30), <1>2, <2>1, <2>2, <3>1 DEF Ahead, Fresh
  <2>3. CASE stepStatus[r][k] = "succeeded"
    <3>1. StepAfter(from, "running", stepStatus[r][k]) = "succeeded"
      BY Zenon, <2>3 DEF StepAfter
    <3> QED BY <2>1, <3>1 DEF Ahead
  <2>4. CASE /\ from = "interrupted" /\ stepStatus[r][k] = "interrupted"
             /\ effectState[r][k] = "not-started"
    <3>1. StepAfter(from, "running", stepStatus[r][k]) = "queued"
      BY Zenon, <2>4 DEF StepAfter
    <3> QED BY SMTT(30), <1>2, <2>1, <2>4, <3>1 DEF Ahead, Fresh
  <2> QED BY SMTT(30), <1>4, <2>2, <2>3, <2>4 DEF Resumable
<1>6. KeyInv(r)'
  <2>1. "running" \in RunStatus /\ "interrupted" \in RunStatus /\ "queued" \in RunStatus
        /\ from \in RunStatus
    BY Zenon DEF RunStatus
  <2>2. /\ \A f, t \in RunStatus : TransitionKey(r, f, t) \in keys' <=>
              TransitionKey(r, f, t) \in keys \/ (f = from /\ t = "running")
        /\ \A k \in Steps, x \in Closing :
              CloseKey(r, k, x) \in keys' <=> CloseKey(r, k, x) \in keys
    BY Zenon, <2>1, MovedKeys
  <2>3. KeyInv(r) /\ status[r] \notin Terminal \cup {"running"}
    BY Zenon, <1>2 DEF RunOK, Terminal
  <2>4. ASSUME NEW x \in RunStatus PROVE TransitionKey(r, "running", x) \notin keys'
    <3>1. TransitionKey(r, "running", x) \notin keys
      BY Zenon, <1>2, <2>3 DEF KeyInv, Interruption
    <3> QED BY SMTT(30), <2>1, <2>2, <3>1
  <2>5. ASSUME NEW k \in Steps, NEW x \in Closing PROVE CloseKey(r, k, x) \notin keys'
    <3>1. ASSUME CloseKey(r, k, x) \in keys PROVE FALSE
      <4>1. stepStatus[r][k] = x /\ Interruption(r) \in keys
        BY Zenon, <2>3, <3>1 DEF KeyInv
      <4> QED BY <1>4, <4>1 DEF Fresh, Closing
    <3> QED BY SMTT(30), <2>2, <3>1
  <2> QED BY SMTT(30), <1>1, <2>4, <2>5 DEF KeyInv
<1>7. MoveOK(r, "running")
  <2>1. \A k \in Steps : Known(r, k) \in {"none", "succeeded"}
    <3> SUFFICES ASSUME NEW k \in Steps PROVE Known(r, k) \in {"none", "succeeded"}
      OBVIOUS
    <3>1. /\ Known(r, k) = Knows(stepStatus[r][k], effectState[r][k])
          /\ StepRow(stepStatus[r][k], effectState[r][k])
      BY Zenon, KnownValue DEF RunOK, RowInv
    <3> QED BY <1>4, <3>1 DEF Knows, StepRow, Fresh, Resumable, Open
  <2> QED BY ZenonT(30), <1>2, <2>1 DEF MoveOK
<1> QED BY Zenon, <1>1, <1>3, <1>5, <1>6, <1>7, LifeMove DEF RunOK, LifeStep

(* A run that is withdrawn before it starts or after an interruption.      *)
LEMMA MovedCancel ==
    ASSUME RowTypeOK, NEW r \in Run, NEW from \in {"queued", "interrupted"},
           Moved(r, from, "cancelled", changed[r]), \A q \in Run : RunOK(q),
           UNCHANGED <<leaseVars, worldVars>>
    PROVE  RunOK(r)' /\ LifeStep
<1>1. /\ RowInv(r)' /\ HonestInv(r)' /\ LateInv(r)' /\ KnownSame
      /\ status' = [status EXCEPT ![r] = "cancelled"] /\ status'[r] = "cancelled"
      /\ landed' = landed
  BY Zenon, MovedRows
<1>2. effectState' = effectState /\ lease' = lease /\ status[r] = from
  BY Zenon DEF Moved, leaseVars
<1>3. \A k \in Steps : effectState[r][k] \in Clear
  BY Zenon, <1>2 DEF RunOK, StatusInv
<1>4. StatusInv(r)' /\ LeaseInv(r)'
  BY Zenon, <1>1, <1>2, <1>3 DEF RunOK, StatusInv, LeaseInv
<1>5. KeyInv(r)'
  <2>1. from \in RunStatus /\ "cancelled" \in RunStatus
    BY Zenon DEF RunStatus
  <2>2. \A k \in Steps, x \in Closing :
           CloseKey(r, k, x) \in keys' <=> CloseKey(r, k, x) \in keys
    BY ZenonT(30), <2>1, MovedKeys
  <2>3. ASSUME NEW k \in Steps, NEW x \in Closing, CloseKey(r, k, x) \in keys'
        PROVE  stepStatus'[r][k] = x
    <3>1. stepStatus[r][k] = x
      BY Zenon, <2>2, <2>3 DEF RunOK, KeyInv
    <3>2. StepAfter(from, "cancelled", x) = x
      BY Zenon DEF Closing, StepAfter
    <3> QED BY <3>1, <3>2 DEF Moved
  <2> QED BY SMTT(30), <1>1, <2>3 DEF KeyInv, Terminal
<1>6. MoveOK(r, "cancelled")
  <2>1. \A k \in Steps : Known(r, k) \in {"none", "succeeded", "failed", "partial"}
    <3> SUFFICES ASSUME NEW k \in Steps
                 PROVE  Known(r, k) \in {"none", "succeeded", "failed", "partial"}
      OBVIOUS
    <3>1. /\ Known(r, k) = Knows(stepStatus[r][k], effectState[r][k])
          /\ StepRow(stepStatus[r][k], effectState[r][k])
      BY Zenon, KnownValue DEF RunOK, RowInv
    <3> QED BY SMTT(30), <1>3, <3>1 DEF Knows, StepRow, Clear, Open
  <2> QED BY SMTT(30), <1>2, <2>1 DEF MoveOK
<1> QED BY Zenon, <1>1, <1>4, <1>5, <1>6, LifeMove DEF RunOK, LifeStep

-----------------------------------------------------------------------------
(* The calls about one step of a running run.                              *)

RowChanged(r, i, s, e) ==
    /\ status' = status /\ cancelRequested' = cancelRequested
    /\ \A q \in Run, k \in Steps :
          /\ stepStatus'[q][k] = IF q = r /\ k = i THEN s ELSE stepStatus[q][k]
          /\ effectState'[q][k] = IF q = r /\ k = i THEN e ELSE effectState[q][k]

(* The keys stay as they are, or the one of this close is new.             *)
KeyAdded(r, i, s) == keys' = keys \/ (s \in Closing /\ keys' = keys \cup {CloseKey(r, i, s)})

LEMMA RowStep ==
    ASSUME NEW r \in Run, NEW i \in Steps, NEW s, NEW e, RowChanged(r, i, s, e),
           \A q \in Run : RunOK(q), status[r] = "running", StepRow(s, e),
           KeyAdded(r, i, s), stepStatus[r][i] \notin Closing,
           landed' = landed, changed[r] = TRUE => changed'[r] = TRUE,
           landed[r][i] # 0 /\ e \in {"effect-unknown", "verified"} => changed'[r] = TRUE,
           LateInv(r)'
    PROVE  RunOK(r)' /\ Learned(r, i, Knows(s, e))
<1>1. /\ status'[r] = "running" /\ status' = status
      /\ \A k \in Steps :
            /\ stepStatus'[r][k] = IF k = i THEN s ELSE stepStatus[r][k]
            /\ effectState'[r][k] = IF k = i THEN e ELSE effectState[r][k]
  BY Zenon DEF RowChanged
<1>2. RowInv(r)'
  <2> SUFFICES ASSUME NEW k \in Steps PROVE StepRow(stepStatus'[r][k], effectState'[r][k])
    BY Zenon DEF RowInv, StepRow
  <2>1. StepRow(stepStatus[r][k], effectState[r][k])
    BY Zenon DEF RunOK, RowInv
  <2>2. CASE k = i
    BY Zenon, <1>1, <2>2
  <2>3. CASE k # i
    BY Zenon, <1>1, <2>1, <2>3
  <2> QED BY <2>2, <2>3
<1>3. StatusInv(r)' /\ LeaseInv(r)'
  BY Zenon, <1>1 DEF StatusInv, LeaseInv
<1>4. HonestInv(r)'
  <2> SUFFICES ASSUME NEW k \in Steps, landed[r][k] # 0,
                      effectState'[r][k] \in {"effect-unknown", "verified"}
               PROVE  changed'[r] = TRUE
    BY Zenon DEF HonestInv
  <2>1. CASE k = i
    BY Zenon, <1>1, <2>1
  <2>2. CASE k # i
    BY Zenon, <1>1, <2>2 DEF RunOK, HonestInv
  <2> QED BY Zenon, <2>1, <2>2
<1>5. KeyInv(r)'
  <2>1. \A f, t \in RunStatus :
           TransitionKey(r, f, t) \in keys' <=> TransitionKey(r, f, t) \in keys
    BY DEF KeyAdded, TransitionKey, CloseKey, RunStatus
  <2>2. \A k \in Steps, x \in Closing : CloseKey(r, k, x) \in keys' =>
           CloseKey(r, k, x) \in keys \/ (k = i /\ x = s)
    BY DEF KeyAdded, CloseKey
  <2>3. "running" \in RunStatus /\ "interrupted" \in RunStatus /\ "queued" \in RunStatus
    BY Zenon DEF RunStatus
  <2>4. KeyInv(r)
    BY Zenon DEF RunOK
  <2>5. ASSUME NEW k \in Steps, NEW x \in Closing, CloseKey(r, k, x) \in keys'
        PROVE  stepStatus'[r][k] = x
    <3>1. CASE CloseKey(r, k, x) \in keys
      <4>1. stepStatus[r][k] = x
        BY Zenon, <2>4, <3>1 DEF KeyInv
      <4> QED BY Zenon, <1>1, <4>1
    <3>2. CASE k = i /\ x = s
      BY Zenon, <1>1, <3>2
    <3> QED BY Zenon, <2>2, <2>5, <3>1, <3>2
  <2> QED BY Zenon, <1>1, <2>1, <2>3, <2>4, <2>5 DEF KeyInv
<1>6. ASSUME NEW q \in Run, NEW k \in Steps
      PROVE  Known(q, k)' = IF q = r /\ k = i THEN Knows(s, e) ELSE Known(q, k)
  <2>1. /\ Known(q, k) = Knows(stepStatus[q][k], effectState[q][k])
        /\ Known(q, k)' = Knows(stepStatus'[q][k], effectState'[q][k])
    BY Zenon, KnownValue
  <2>2. CASE q = r /\ k = i
    BY Zenon, <2>1, <2>2 DEF RowChanged
  <2>3. CASE ~(q = r /\ k = i)
    <3>1. stepStatus'[q][k] = stepStatus[q][k] /\ effectState'[q][k] = effectState[q][k]
      BY Zenon, <2>3 DEF RowChanged
    <3> QED BY Zenon, <2>1, <2>3, <3>1
  <2> QED BY Zenon, <2>2, <2>3
<1> QED BY Zenon, <1>1, <1>2, <1>3, <1>4, <1>5, <1>6 DEF RunOK, Learned

LEMMA RunBegins ==
    ASSUME RowTypeOK, NEW r \in Run, NEW i \in Steps, BeginStep(r, i), landed' = landed,
           \A q \in Run : RunOK(q), status[r] = "running", Fresh(r, i), LateInv(r)',
           \A k \in Steps : k < i => stepStatus[r][k] = "succeeded"
    PROVE  RunOK(r)' /\ LifeStep
<1>1. RowChanged(r, i, "running", "intent-recorded")
  BY Zenon DEF BeginStep, RowTypeOK, RowChanged
<1>2. /\ RunOK(r)'
      /\ Learned(r, i, Knows("running", "intent-recorded"))
  <2>1. /\ stepStatus[r][i] \notin Closing /\ KeyAdded(r, i, "running")
        /\ StepRow("running", "intent-recorded") /\ changed' = changed
    BY Zenon DEF Fresh, Closing, BeginStep, KeyAdded, StepRow, Open
  <2> QED BY Zenon, <1>1, <2>1, RowStep
<1>3. Knows("running", "intent-recorded") = "open" /\ Known(r, i) = "none"
  BY Zenon, KnownValue DEF Knows, Open, Fresh
<1>4. ASSUME NEW k \in Steps, k < i PROVE Known(r, k) = "succeeded"
  <2>1. Known(r, k) = Knows(stepStatus[r][k], effectState[r][k])
    BY Zenon, KnownValue
  <2>2. StepRow(stepStatus[r][k], effectState[r][k]) /\ stepStatus[r][k] = "succeeded"
    BY Zenon, <1>4 DEF RunOK, RowInv
  <2> QED BY Zenon, <2>1, <2>2 DEF Knows, StepRow, Open
<1> QED BY Zenon, <1>2, <1>3, <1>4, LifeLearn DEF LifeStep

LEMMA RunReceipt ==
    ASSUME RowTypeOK, NEW r \in Run, NEW i \in Steps, RecordReceipt(r, i),
           UNCHANGED worldVars, \A q \in Run : RunOK(q), status[r] = "running",
           stepStatus[r][i] = "running", effectState[r][i] = "intent-recorded"
    PROVE  RunOK(r)' /\ LifeStep
<1>1. RowChanged(r, i, "running", "receipt-recorded")
  BY Zenon DEF RecordReceipt, RowTypeOK, RowChanged
<1>2. /\ RunOK(r)'
      /\ Learned(r, i, Knows("running", "receipt-recorded"))
  <2>1. /\ stepStatus[r][i] \notin Closing /\ KeyAdded(r, i, "running")
        /\ StepRow("running", "receipt-recorded") /\ changed' = changed /\ landed' = landed
    BY Zenon DEF Closing, RecordReceipt, KeyAdded, StepRow, Open, worldVars
  <2>2. LateInv(r)'
    BY Zenon DEF RunOK, LateInv, RecordReceipt, worldVars
  <2> QED BY Zenon, <1>1, <2>1, <2>2, RowStep
<1>3. Knows("running", "receipt-recorded") = "open" /\ Known(r, i) = "open"
  BY Zenon, KnownValue DEF Knows, Open
<1>4. KnownSame /\ status' = status /\ landed' = landed
  BY Zenon, <1>2, <1>3 DEF Learned, KnownSame
<1> QED BY Zenon, <1>2, <1>4, LifeStutter DEF LifeStep

LEMMA RunFinishes ==
    ASSUME RowTypeOK, NEW r \in Run, NEW i \in Steps,
           NEW x \in {"succeeded", "failed", "partial"}, NEW chg \in BOOLEAN,
           FinishStep(r, i, x, chg), UNCHANGED worldVars, \A q \in Run : RunOK(q),
           status[r] = "running", stepStatus[r][i] = "running",
           effectState[r][i] = "receipt-recorded", landed[r][i] # 0 => chg = TRUE
    PROVE  RunOK(r)' /\ LifeStep
<1>1. RowChanged(r, i, x, "verified")
  BY Zenon DEF FinishStep, RowTypeOK, RowChanged
<1>2. RunOK(r)' /\ Learned(r, i, Knows(x, "verified"))
  <2>1. /\ stepStatus[r][i] \notin Closing /\ KeyAdded(r, i, x)
        /\ StepRow(x, "verified") /\ landed' = landed
    BY Zenon DEF Closing, FinishStep, KeyAdded, StepRow, Open, worldVars
  <2>2. changed'[r] = (changed[r] \/ chg) /\ changed[r] \in BOOLEAN
    BY Zenon DEF FinishStep, RowTypeOK
  <2>3. LateInv(r)'
    BY Zenon DEF RunOK, LateInv, FinishStep, worldVars
  <2> QED BY Zenon, <1>1, <2>1, <2>2, <2>3, RowStep
<1>3. Knows(x, "verified") = x /\ Known(r, i) = "open"
  BY Zenon, KnownValue DEF Knows, Open
<1> QED BY Zenon, <1>2, <1>3, LifeLearn DEF LifeStep

LEMMA RunCloses ==
    ASSUME RowTypeOK, NEW r \in Run, NEW i \in Steps, NEW x \in Closing,
           CloseStep(r, i, x), UNCHANGED worldVars, \A q \in Run : RunOK(q),
           status[r] = "running", stepStatus[r][i] = "running", effectState[r][i] \in Open,
           landed[r][i] # 0 => x = "partial"
    PROVE  /\ RunOK(r)' /\ LifeStep
           /\ RowChanged(r, i, x, IF x = "partial" THEN "effect-unknown" ELSE "not-started")
<1> DEFINE e == IF x = "partial" THEN "effect-unknown" ELSE "not-started"
<1>1. CloseKey(r, i, x) \notin keys
  BY Zenon DEF RunOK, KeyInv, Closing
<1>2. RowChanged(r, i, x, e)
  <2>1. /\ stepStatus' = [stepStatus EXCEPT ![r][i] = x]
        /\ effectState' = [effectState EXCEPT ![r][i] = e]
        /\ UNCHANGED <<status, cancelRequested>>
    BY Zenon, <1>1 DEF CloseStep
  <2> HIDE DEF e
  <2> QED BY Zenon, <2>1 DEF RowTypeOK, RowChanged
<1>3. RunOK(r)' /\ Learned(r, i, Knows(x, e))
  <2>1. /\ stepStatus[r][i] \notin Closing /\ KeyAdded(r, i, x) /\ landed' = landed
    BY Zenon, <1>1 DEF Closing, CloseStep, KeyAdded, worldVars
  <2>2. StepRow(x, e)
    BY Zenon DEF Closing, StepRow, Open
  <2>3. changed'[r] = (changed[r] \/ x = "partial") /\ changed[r] \in BOOLEAN
    BY Zenon, <1>1 DEF CloseStep, RowTypeOK
  <2>4. LateInv(r)'
    BY Zenon, <1>1 DEF RunOK, LateInv, CloseStep, worldVars
  <2>5. landed[r][i] # 0 /\ e \in {"effect-unknown", "verified"} => changed'[r] = TRUE
    BY Zenon, <2>3
  <2>6. changed[r] = TRUE => changed'[r] = TRUE
    BY Zenon, <2>3
  <2> HIDE DEF e
  <2> QED BY Zenon, <1>2, <2>1, <2>2, <2>4, <2>5, <2>6, RowStep
<1>4. /\ Knows(x, e) = IF x = "partial" THEN "unknown" ELSE "none"
      /\ Known(r, i) = "open"
  BY Zenon, KnownValue DEF Knows, Open
<1>5. Lifecycle!LifecycleNext
  <2>1. CASE x = "partial"
    <3>1. Learned(r, i, "unknown")
      BY Zenon, <1>3, <1>4, <2>1
    <3> QED BY Zenon, <1>4, <3>1, LifeLearn
  <2>2. CASE x # "partial"
    <3>1. Learned(r, i, "none")
      BY Zenon, <1>3, <1>4, <2>2
    <3> QED BY Zenon, <1>4, <2>2, <3>1, LifeLearn
  <2> QED BY Zenon, <2>1, <2>2
<1> QED BY Zenon, <1>2, <1>3, <1>5 DEF LifeStep

(* Steps that leave the rows, and add no lease but to a running run.       *)
LEMMA CalmRows ==
    ASSUME UNCHANGED <<runVars, keys, worldVars>>, \A q \in Run : RunOK(q),
           \A l \in lease' : l \in lease \/ status[l.run] = "running"
    PROVE  (\A q \in Run : RunOK(q)') /\ LifeStep
<1>1. /\ status' = status /\ cancelRequested' = cancelRequested /\ changed' = changed
      /\ stepStatus' = stepStatus /\ effectState' = effectState
      /\ keys' = keys /\ landed' = landed /\ late' = late
  BY Zenon DEF runVars, worldVars
<1>2. ASSUME NEW q \in Run PROVE RunOK(q)'
  <2>1. RowInv(q)' /\ StatusInv(q)' /\ HonestInv(q)' /\ LateInv(q)'
    BY Zenon, <1>1 DEF RunOK, RowInv, StatusInv, Fresh, HonestInv, LateInv
  <2>2. KeyInv(q)'
    BY Zenon, <1>1 DEF RunOK, KeyInv
  <2>3. LeaseInv(q)'
    BY Zenon, <1>1 DEF RunOK, LeaseInv
  <2> QED BY Zenon, <2>1, <2>2, <2>3 DEF RunOK
<1>3. KnownSame
  <2> SUFFICES ASSUME NEW q \in Run, NEW k \in Steps PROVE Known(q, k)' = Known(q, k)
    BY Zenon DEF KnownSame
  <2> QED BY Zenon, <1>1, KnownValue
<1> QED BY Zenon, <1>1, <1>2, <1>3, LifeStutter DEF LifeStep

-----------------------------------------------------------------------------
(* What the steps of a worker have in common.                              *)

LEMMA DriverFacts ==
    ASSUME IInv, OInv, NEW w \in Worker, Busy(pc[w])
    PROVE  /\ job[w] \in Job /\ job[w].run \in Run /\ Drives(w, job[w].run)
           /\ DriveOK(w, pc[w], job[w]) /\ JobOK(pc[w], job[w])
           /\ RowTypeOK /\ LeaseUnique /\ \A q \in Run : RunOK(q)
<1>1. Drives(w, job[w].run)
  BY Zenon DEF OInv, OneDriver, Drives
<1> QED BY Zenon, <1>1, JobFacts, RowFacts DEF OInv

LEMMA OnlyRunIntro ==
    ASSUME NEW r \in Run, OtherRows(r), \A q \in Run : q # r => LeaseSame(q),
           \A q \in Run : q # r => WorldSame(q)
    PROVE  OnlyRun(r)
BY Zenon DEF OnlyRun, OtherRows, RunSame

LEMMA SameWorld == ASSUME UNCHANGED worldVars PROVE \A q \in Run : WorldSame(q)
BY Zenon DEF worldVars, WorldSame

LEMMA SameLease == ASSUME UNCHANGED leaseVars PROVE \A q \in Run : LeaseSame(q)
BY Zenon DEF leaseVars, LeaseSame

LEMMA FewerLeases == ASSUME LeaseUnique, lease' \subseteq lease PROVE LeaseUnique'
BY Zenon DEF LeaseUnique

LEMMA DriveIdle == ASSUME NEW w, NEW j PROVE DriveOK(w, "idle", j)' /\ ~Busy("idle")
BY Zenon DEF DriveOK, DriveRows, DriveKnows, DriveKeys, DriveLate, DriveLease, CancelOK, Busy,
   Inside, Looping, Holding

(* The worker changes rows of its run, and no lease.                       *)
LEMMA RowsMove ==
    ASSUME IInv, OInv, NEW w \in Worker, NEW r \in Run, Drives(w, r),
           NEW p, NEW j, GotoWith(w, p, j), Busy(p) => j.run = r, DriveOK(w, p, j)',
           OtherRows(r), \A q \in Run : q # r => WorldSame(q), RunOK(r)',
           UNCHANGED <<leaseVars, server>>, Alive
    PROVE  OInv'
<1>1. OnlyRun(r)
  BY Zenon, SameLease, OnlyRunIntro
<1>2. LeaseUnique'
  BY Zenon, FewerLeases DEF OInv, leaseVars
<1> QED BY Zenon, <1>1, <1>2, DriverStep

(* The worker changes leases of its run, and no row.                       *)
LEMMA LeasesMove ==
    ASSUME IInv, OInv, NEW w \in Worker, NEW r \in Run, Drives(w, r),
           NEW p, NEW j, GotoWith(w, p, j), Busy(p) => j.run = r, DriveOK(w, p, j)',
           \A q \in Run : q # r => LeaseSame(q), LeaseUnique',
           \A l \in lease' : l \in lease \/ status[l.run] = "running",
           UNCHANGED <<runVars, keys, worldVars, server>>, Alive
    PROVE  OInv' /\ LifeStep
<1>1. (\A q \in Run : RunOK(q)') /\ LifeStep
  BY Zenon, CalmRows DEF OInv
<1>2. OnlyRun(r)
  BY Zenon, SameRowsOnly, SameWorld, OnlyRunIntro DEF OtherRows
<1> QED BY Zenon, <1>1, <1>2, DriverStep

(* The worker changes its own variables only.                              *)
LEMMA StillMove ==
    ASSUME IInv, OInv, NEW w \in Worker, NEW r \in Run, Drives(w, r),
           NEW p, NEW j, GotoWith(w, p, j), Busy(p) => j.run = r, j.run \in Run, DriveOK(w, p, j),
           UNCHANGED <<runVars, keys, leaseVars, worldVars, server>>, Alive
    PROVE  OInv' /\ LifeStep
<1>1. /\ \A q \in Run : RowSame(q) /\ KeySame(q) /\ LeaseSame(q) /\ WorldSame(q)
      /\ lease' = lease
  BY Zenon, SameRowsOnly, SameLease, SameWorld DEF leaseVars
<1>2. DriveOK(w, p, j)'
  BY Zenon, <1>1, OtherDriver DEF RowSame, SameToDriver
<1>3. LeaseUnique'
  BY Zenon, <1>1, FewerLeases DEF OInv
<1> QED BY Zenon, <1>1, <1>2, <1>3, LeasesMove

LEMMA StillReturn ==
    ASSUME IInv, OInv, NEW w \in Worker, Busy(pc[w]), Return(w),
           UNCHANGED <<runVars, keys, leaseVars, worldVars, server>>, Alive
    PROVE  OInv' /\ LifeStep
<1>1. job[w].run \in Run /\ Drives(w, job[w].run)
  BY Zenon, DriverFacts
<1>2. DriveOK(w, "idle", IdleJob)' /\ ~Busy("idle") /\ GotoWith(w, "idle", IdleJob)
  BY Zenon, DriveIdle DEF Return
<1>3. /\ \A q \in Run : LeaseSame(q)
      /\ lease' = lease
  BY Zenon, SameLease DEF leaseVars
<1>4. LeaseUnique'
  BY Zenon, <1>3, FewerLeases DEF OInv
<1> QED BY Zenon, <1>1, <1>2, <1>3, <1>4, LeasesMove

(* The run is taken from running to another status by its driver.          *)
LEMMA DriverEnds ==
    ASSUME IInv, OInv, NEW w \in Worker, NEW r \in Run, r = job[w].run, pc[w] \in Inside,
           NEW to \in {"interrupted", "failed", "succeeded", "partial"}, NEW chg,
           changed[r] = TRUE => chg = TRUE,
           TransitionRun(r, "running", to, chg),
           NEW p \in {"idle", "releaseLast"}, NEW j, GotoWith(w, p, j),
           p = "releaseLast" => j.run = r /\ to = "interrupted",
           \A l \in lease : l.run # r,
           to # "partial" => \A k \in Steps : effectState[r][k] \in Clear,
           to = "partial" => /\ \A k \in Steps : effectState[r][k] \notin Open
                             /\ \E k \in Steps : stepStatus[r][k] = "partial",
           to = "succeeded" => \A k \in Steps : stepStatus[r][k] = "succeeded",
           UNCHANGED <<leaseVars, worldVars, server>>, Alive
    PROVE  OInv' /\ LifeStep
<1>1. Busy(pc[w])
  BY Zenon DEF Inside, Looping, Busy
<1>2. /\ Drives(w, r) /\ DriveOK(w, pc[w], job[w])
      /\ RowTypeOK /\ \A q \in Run : RunOK(q)
  BY Zenon, <1>1, DriverFacts
<1>3. status[r] = "running"
  BY Zenon, <1>2 DEF DriveOK, DriveRows
<1>4. TransitionKey(r, "running", to) \notin keys
  <2>1. to \in RunStatus
    BY Zenon DEF RunStatus
  <2> QED BY Zenon, <1>2, <1>3, <2>1 DEF RunOK, KeyInv, Terminal
<1>5. Moved(r, "running", to, chg)
  BY Zenon, <1>2, <1>3, <1>4, TransitionMoves
<1>6. RunOK(r)' /\ LifeStep
  <2>1. UNCHANGED <<leaseVars, worldVars>>
    BY Zenon
  <2> QED BY Zenon, <1>2, <1>5, <2>1, MovedEnd
<1>7. DriveOK(w, p, j)' /\ (Busy(p) => j.run = r)
  <2>1. CASE p = "idle"
    BY Zenon, <2>1, DriveIdle
  <2>2. CASE p = "releaseLast"
    <3>1. status'[j.run] = "interrupted"
      BY Zenon, <1>2, <1>5, <2>2 DEF Moved, RowTypeOK
    <3> QED BY Zenon, <2>2, <3>1 DEF DriveOK, DriveRows, DriveKnows, DriveKeys, DriveLate,
               DriveLease, CancelOK, Inside, Looping, Holding
  <2> QED BY Zenon, <2>1, <2>2
<1>8. OtherRows(r) /\ \A q \in Run : WorldSame(q)
  BY Zenon, <1>2, TransitionOnly, SameWorld
<1>9. UNCHANGED <<leaseVars, server>>
  BY Zenon
<1> QED BY Zenon, <1>2, <1>6, <1>7, <1>8, <1>9, RowsMove

LEMMA DriverEndsWith ==
    ASSUME IInv, OInv, NEW w \in Worker, NEW r \in Run, r = job[w].run, pc[w] \in Inside,
           NEW to \in {"interrupted", "failed", "succeeded", "partial"}, NEW chg,
           changed[r] = TRUE => chg = TRUE,
           EndWith(w, "running", to, chg),
           \A l \in lease : l.run # r,
           to # "partial" => \A k \in Steps : effectState[r][k] \in Clear,
           to = "partial" => /\ \A k \in Steps : effectState[r][k] \notin Open
                             /\ \E k \in Steps : stepStatus[r][k] = "partial",
           to = "succeeded" => \A k \in Steps : stepStatus[r][k] = "succeeded",
           UNCHANGED <<leaseVars, worldVars, server>>, Alive
    PROVE  OInv' /\ LifeStep
<1>1. CASE UNCHANGED <<runVars, keys>> /\ Return(w)
  <2>1. Busy(pc[w])
    BY Zenon DEF Inside, Looping, Busy
  <2> QED BY Zenon, <1>1, <2>1, StillReturn
<1>2. CASE TransitionRun(r, "running", to, chg) /\ Return(w)
  <2>1. GotoWith(w, "idle", IdleJob)
    BY Zenon, <1>2 DEF Return
  <2> QED BY ZenonT(30), <1>2, <2>1, DriverEnds
<1> QED BY Zenon, <1>1, <1>2 DEF EndWith

-----------------------------------------------------------------------------
(* Requests.                                                               *)

LEMMA OrderlySubmit ==
    ASSUME IInv, OInv, NEW w \in Worker, NEW r \in Run, Submit(w, r)
    PROVE  OInv' /\ LifeStep
<1>1. /\ Drives(w, r) /\ RowTypeOK /\ \A q \in Run : RunOK(q)
  BY Zenon, RowFacts DEF Submit, Driving, Drives, Busy, OInv
<1>2. /\ GotoWith(w, "start", JobAt(r, 1)) /\ Alive
      /\ UNCHANGED <<worldVars, server>> /\ JobAt(r, 1).run = r
  BY Zenon DEF Submit, Alive, JobAt
<1>3. ASSUME status'[r] = "queued" PROVE DriveOK(w, "start", JobAt(r, 1))'
  BY Zenon, <1>2, <1>3 DEF DriveOK, DriveRows, DriveKnows, DriveKeys, DriveLate, DriveLease,
     CancelOK, Inside, Looping, Holding
<1>4. CASE Create(r)
  <2>1. /\ status[r] = "none" /\ status' = [status EXCEPT ![r] = "queued"]
        /\ UNCHANGED <<cancelRequested, changed, stepStatus, effectState, leaseVars, keys>>
        /\ landed' = landed /\ late' = late /\ lease' = lease
    BY Zenon, <1>2, <1>4 DEF Create, worldVars, leaseVars
  <2>2. status'[r] = "queued" /\ \A q \in Run : q # r => status'[q] = status[q]
    BY Zenon, <1>1, <2>1 DEF RowTypeOK
  <2>3. OtherRows(r) /\ \A q \in Run : WorldSame(q)
    BY Zenon, <2>1, <2>2 DEF OtherRows, RowSame, KeySame, WorldSame
  <2>4. RunOK(r)'
    <3>1. RowInv(r)' /\ StatusInv(r)' /\ HonestInv(r)' /\ LateInv(r)'
      BY Zenon, <1>1, <2>1, <2>2 DEF RunOK, RowInv, StatusInv, HonestInv, LateInv, Fresh
    <3>2. KeyInv(r)'
      <4>1. KeyInv(r) /\ \A k \in Steps : stepStatus[r][k] = "queued"
        BY Zenon, <1>1, <2>1 DEF RunOK, StatusInv, Fresh
      <4>2. \A x \in RunStatus : TransitionKey(r, "running", x) \notin keys
        BY Zenon, <2>1, <4>1 DEF KeyInv, Terminal
      <4>3. TransitionKey(r, "queued", "running") \notin keys
        BY Zenon, <2>1, <4>1 DEF KeyInv
      <4>4. \A k \in Steps, x \in Closing : CloseKey(r, k, x) \notin keys
        BY Zenon, <4>1 DEF KeyInv, Closing
      <4> QED BY Zenon, <2>1, <2>2, <4>2, <4>3, <4>4 DEF KeyInv
    <3>3. LeaseInv(r)'
      BY Zenon, <1>1, <2>1, <2>2 DEF RunOK, LeaseInv
    <3> QED BY Zenon, <3>1, <3>2, <3>3 DEF RunOK
  <2>5. KnownSame
    <3> SUFFICES ASSUME NEW q \in Run, NEW k \in Steps PROVE Known(q, k)' = Known(q, k)
      BY Zenon DEF KnownSame
    <3> QED BY Zenon, <2>1, KnownValue
  <2>6. LifeStep
    BY Zenon, <2>1, <2>5, LifeMove DEF MoveOK, LifeStep
  <2>7. UNCHANGED <<leaseVars, server>>
    BY Zenon, <1>2, <2>1
  <2> QED BY Zenon, <1>1, <1>2, <1>3, <2>2, <2>3, <2>4, <2>6, <2>7, RowsMove
<1>5. CASE status[r] = "queued" /\ UNCHANGED storeVars
  <2>1. DriveOK(w, "start", JobAt(r, 1))
    BY Zenon, <1>2, <1>5 DEF DriveOK, DriveRows, DriveKnows, DriveKeys, DriveLate, DriveLease,
       CancelOK, Inside, Looping, Holding
  <2>2. UNCHANGED <<runVars, keys, leaseVars, worldVars, server>>
    BY Zenon, <1>2, <1>5 DEF storeVars
  <2> QED BY Zenon, <1>1, <1>2, <2>1, <2>2, StillMove
<1> QED BY Zenon, <1>4, <1>5 DEF Submit

LEMMA OrderlyResume ==
    ASSUME Orderly, IInv, OInv, NEW w \in Worker, NEW r \in Run, Resume(w, r)
    PROVE  OInv' /\ LifeStep
<1>1. /\ \A v \in Worker : ~Driving(v, r)
      /\ Interruption(r) \notin keys
  BY Zenon DEF Resume, Orderly, Interruption
<1>2. Drives(w, r) /\ RunOK(r)
  BY Zenon, <1>1 DEF Driving, Drives, Busy, OInv
<1>3. /\ GotoWith(w, "resume", JobAt(r, 1)) /\ Alive /\ JobAt(r, 1).run = r
      /\ UNCHANGED <<runVars, keys, leaseVars, worldVars, server>>
      /\ status[r] = "interrupted"
  BY Zenon DEF Resume, Alive, JobAt, storeVars
<1>4. TransitionKey(r, "interrupted", "running") \notin keys
  BY Zenon, <1>1, <1>2, <1>3 DEF RunOK, KeyInv
<1>5. \A k \in Steps : Resumable(r, k)
  BY Zenon DEF Resume, Resumable
<1>6. DriveOK(w, "resume", JobAt(r, 1))
  BY Zenon, <1>1, <1>3, <1>4, <1>5 DEF DriveOK, DriveRows, DriveKnows, DriveKeys, DriveLate,
     DriveLease, CancelOK, Inside, Looping, Holding
<1> QED BY Zenon, <1>2, <1>3, <1>6, StillMove

(* The worker of a cancel drives nothing.                                  *)
LEMMA IdleMove ==
    ASSUME IInv, OInv, NEW w \in Worker, ~Busy(pc[w]), NEW p, NEW j, GotoWith(w, p, j),
           ~Busy(p), CancelOK(p, j), Alive, UNCHANGED server, LeaseUnique',
           \A q \in Run : RunOK(q)',
           \A v \in Worker : v # w /\ Busy(pc[v]) => DriveOK(v, pc[v], job[v])'
    PROVE  OInv'
<1>1. /\ pc'[w] = p /\ job'[w] = j
      /\ \A v \in Worker : v # w => pc'[v] = pc[v] /\ job'[v] = job[v]
  BY Zenon DEF IInv, LocalInv, TypeOK, GotoWith
<1>2. OneDriver'
  BY Zenon, <1>1 DEF OInv, OneDriver
<1>3. StartupInv'
  BY Zenon DEF StartupInv, Alive
<1>4. ASSUME NEW v \in Worker PROVE DriveOK(v, pc[v], job[v])'
  <2>1. CASE Busy(pc'[v])
    BY Zenon, <1>1, <2>1
  <2>2. CASE ~Busy(pc'[v])
    <3>1. CancelOK(pc'[v], job'[v])
      BY Zenon, <1>1 DEF OInv, DriveOK
    <3> QED BY Zenon, <2>2, <3>1 DEF DriveOK, DriveRows, DriveKnows, DriveKeys,
               DriveLate, DriveLease, CancelOK, Busy, Inside, Looping, Holding
  <2> QED BY Zenon, <2>1, <2>2
<1> QED BY Zenon, <1>2, <1>3, <1>4 DEF OInv

LEMMA StillIdle ==
    ASSUME IInv, OInv, NEW w \in Worker, ~Busy(pc[w]), NEW p, NEW j, GotoWith(w, p, j),
           ~Busy(p), CancelOK(p, j), Alive,
           UNCHANGED <<runVars, keys, leaseVars, worldVars, server>>
    PROVE  OInv' /\ LifeStep
<1>1. /\ \A q \in Run : RowSame(q) /\ KeySame(q) /\ LeaseSame(q) /\ WorldSame(q)
      /\ lease' = lease
  BY Zenon, SameRowsOnly, SameLease, SameWorld DEF leaseVars
<1>2. LeaseUnique'
  BY Zenon, <1>1, FewerLeases DEF OInv
<1>3. (\A q \in Run : RunOK(q)') /\ LifeStep
  BY Zenon, <1>1, CalmRows DEF OInv
<1>4. ASSUME NEW v \in Worker, v # w, Busy(pc[v]) PROVE DriveOK(v, pc[v], job[v])'
  <2>1. pc'[v] = pc[v] /\ job'[v] = job[v]
    BY Zenon, <1>4 DEF IInv, LocalInv, TypeOK, GotoWith
  <2>2. SameToDriver(job[v].run) /\ DriveOK(v, pc[v], job[v])
    BY Zenon, <1>1, JobFacts DEF OInv, RowSame, SameToDriver
  <2> QED BY Zenon, <2>1, <2>2, OtherDriver
<1> QED BY Zenon, <1>2, <1>3, <1>4, IdleMove

LEMMA OrderlyCancel ==
    ASSUME Orderly, IInv, OInv, NEW w \in Worker, NEW r \in Run, Cancel(w, r)
    PROVE  OInv' /\ LifeStep
<1>1. PICK to : /\ GotoWith(w, "cancel", [JobAt(r, 1) EXCEPT !.seen = status[r], !.to = to])
                /\ to = IF status[r] = "running" THEN "running" ELSE "cancelled"
  <2>1. r \notin External
    BY Zenon DEF Orderly
  <2>2. CASE status[r] # "running"
    BY Zenon, <2>1, <2>2 DEF Cancel
  <2>3. CASE status[r] = "running"
    BY Zenon, <2>1, <2>3 DEF Cancel
  <2> QED BY Zenon, <2>2, <2>3
<1> DEFINE j == [JobAt(r, 1) EXCEPT !.seen = status[r], !.to = to]
<1>2. j.seen = status[r] /\ j.to = to
  BY DEF JobAt
<1>3. status[r] \in {"queued", "running", "interrupted"}
  BY Zenon DEF Cancel
<1> HIDE DEF j
<1>4. CancelOK("cancel", j) /\ ~Busy("cancel") /\ ~Busy(pc[w])
  BY Zenon, <1>1, <1>2, <1>3 DEF CancelOK, Busy, Cancel
<1>5. GotoWith(w, "cancel", j)
  BY Zenon, <1>1 DEF j
<1>6. UNCHANGED <<runVars, keys, leaseVars, worldVars, server>> /\ Alive
  BY Zenon DEF Cancel, storeVars, Alive
<1> QED BY Zenon, <1>4, <1>5, <1>6, StillIdle

(* A run withdrawn, by its driver or by a cancel.                          *)
LEMMA Withdrawn ==
    ASSUME RowTypeOK, \A q \in Run : RunOK(q), NEW r \in Run,
           NEW from \in {"queued", "interrupted"}, TransitionAllowed(r, from, "cancelled"),
           TransitionRun(r, from, "cancelled", changed[r]), UNCHANGED <<leaseVars, worldVars>>
    PROVE  /\ RunOK(r)' /\ LifeStep
           /\ UNCHANGED <<runVars, keys>> \/ Moved(r, from, "cancelled", changed[r])
<1>1. CASE TransitionKey(r, from, "cancelled") \in keys
  <2>1. UNCHANGED <<runVars, keys>>
    BY Zenon, <1>1 DEF TransitionRun
  <2>2. UNCHANGED <<runVars, keys, worldVars>> /\ lease' = lease
    BY Zenon, <2>1 DEF leaseVars
  <2> QED BY Zenon, <2>1, <2>2, CalmRows
<1>2. CASE TransitionKey(r, from, "cancelled") \notin keys
  <2>1. Moved(r, from, "cancelled", changed[r])
    BY Zenon, <1>2, TransitionMoves DEF TransitionAllowed
  <2> QED BY Zenon, <2>1, MovedCancel
<1> QED BY Zenon, <1>1, <1>2

LEMMA OrderlyRequestRecorded ==
    ASSUME IInv, OInv, NEW w \in Worker, NEW r \in Run, ~Busy(pc[w]), RequestCancellation(r),
           Return(w), Alive, UNCHANGED <<leaseVars, worldVars, server>>
    PROVE  OInv' /\ LifeStep
<1>1. RowTypeOK /\ (\A q \in Run : RunOK(q)) /\ LeaseUnique
  BY Zenon, RowFacts DEF OInv
<1>2. /\ UNCHANGED <<status, changed, stepStatus, effectState, landed, late, lease>>
      /\ cancelRequested'[r] = cancelRequested[r] \/ cancelRequested'[r] = TRUE
  BY Zenon, <1>1 DEF RequestCancellation, RowTypeOK, leaseVars, worldVars
<1>3. OtherRows(r)
  BY Zenon, <1>1, CancellationOnly
<1>4. KeySame(r)
  BY NStepsAssumption DEF RequestCancellation, CancellationKey, KeySame, TransitionKey,
     CloseKey, RunStatus
<1>5. \A q \in Run : KeySame(q) /\ LeaseSame(q) /\ WorldSame(q)
  BY Zenon, <1>2, <1>3, <1>4 DEF OtherRows, LeaseSame, WorldSame
<1>6. RunOK(r)'
  <2>1. RowInv(r)' /\ StatusInv(r)'
    BY Zenon, <1>1, <1>2 DEF RunOK, RowInv, StatusInv, Fresh
  <2>2. HonestInv(r)' /\ LateInv(r)' /\ LeaseInv(r)'
    BY Zenon, <1>1, <1>2 DEF RunOK, HonestInv, LateInv, LeaseInv
  <2>3. KeyInv(r)'
    BY Zenon, <1>1, <1>2, <1>4 DEF RunOK, KeyInv, KeySame, Interruption, RunStatus
  <2> QED BY Zenon, <2>1, <2>2, <2>3 DEF RunOK
<1>7. \A q \in Run : RunOK(q)'
  BY Zenon, <1>1, <1>3, <1>5, <1>6, OtherRun DEF OtherRows, RunSame
<1>8. LifeStep
  <2>1. KnownSame
    <3> SUFFICES ASSUME NEW q \in Run, NEW k \in Steps PROVE Known(q, k)' = Known(q, k)
      BY Zenon DEF KnownSame
    <3> QED BY Zenon, <1>2, KnownValue
  <2> QED BY Zenon, <1>2, <2>1, LifeStutter DEF LifeStep
<1>9. ASSUME NEW v \in Worker, v # w, Busy(pc[v]) PROVE DriveOK(v, pc[v], job[v])'
  <2>1. pc'[v] = pc[v] /\ job'[v] = job[v]
    BY Zenon, <1>9 DEF IInv, LocalInv, TypeOK, Return, GotoWith
  <2>2. SameToDriver(job[v].run) /\ DriveOK(v, pc[v], job[v])
    BY Zenon, <1>2, <1>5, JobFacts DEF OInv, SameToDriver
  <2> QED BY Zenon, <2>1, <2>2, OtherDriver
<1>10. LeaseUnique' /\ CancelOK("idle", IdleJob) /\ ~Busy("idle")
  BY Zenon, <1>1, <1>2 DEF LeaseUnique, CancelOK, Busy
<1> QED BY Zenon, <1>7, <1>8, <1>9, <1>10, IdleMove DEF Return

LEMMA OrderlyWithdraw ==
    ASSUME IInv, OInv, NEW w \in Worker, NEW r \in Run, ~Busy(pc[w]),
           NEW from \in {"queued", "interrupted"}, TransitionAllowed(r, from, "cancelled"),
           TransitionRun(r, from, "cancelled", changed[r]),
           Return(w), Alive, UNCHANGED <<leaseVars, worldVars, server>>
    PROVE  OInv' /\ LifeStep
<1>1. RowTypeOK /\ (\A q \in Run : RunOK(q)) /\ LeaseUnique
  BY Zenon, RowFacts DEF OInv
<1>2. UNCHANGED <<leaseVars, worldVars>> /\ lease' = lease /\ landed' = landed /\ late' = late
  BY Zenon DEF leaseVars, worldVars
<1>3. /\ RunOK(r)' /\ LifeStep
      /\ UNCHANGED <<runVars, keys>> \/ Moved(r, from, "cancelled", changed[r])
  BY Zenon, <1>1, <1>2, Withdrawn
<1>4. CancelOK("idle", IdleJob) /\ ~Busy("idle") /\ GotoWith(w, "idle", IdleJob)
  BY Zenon DEF CancelOK, Busy, Return
<1>5. CASE UNCHANGED <<runVars, keys>>
  BY Zenon, <1>4, <1>5, StillIdle
<1>6. CASE Moved(r, from, "cancelled", changed[r])
  <2>1. \A q \in Run : q # r => RowSame(q) /\ KeySame(q) /\ LeaseSame(q) /\ WorldSame(q)
    BY Zenon, <1>1, <1>2, TransitionOnly DEF OtherRows, LeaseSame, WorldSame
  <2>2. \A q \in Run : RunOK(q)'
    BY Zenon, <1>1, <1>3, <2>1, OtherRun DEF RunSame
  <2>3. LeaseUnique'
    BY Zenon, <1>1, <1>2 DEF LeaseUnique
  <2>4. status[r] = from /\ status'[r] = "cancelled"
    BY Zenon, <1>1, <1>6 DEF Moved, RowTypeOK
  <2>5. ASSUME NEW v \in Worker, v # w, Busy(pc[v]) PROVE DriveOK(v, pc[v], job[v])'
    <3>1. pc'[v] = pc[v] /\ job'[v] = job[v] /\ job[v].run \in Run /\ DriveOK(v, pc[v], job[v])
      BY Zenon, <2>5, JobFacts DEF IInv, LocalInv, TypeOK, Return, GotoWith, OInv
    <3>2. CASE job[v].run # r
      <4>1. SameToDriver(job[v].run)
        BY Zenon, <2>1, <3>1, <3>2 DEF RowSame, SameToDriver
      <4> QED BY Zenon, <3>1, <4>1, OtherDriver
    <3>3. CASE job[v].run = r
      <4>1. pc[v] \notin Inside
        BY Zenon, <2>4, <3>1, <3>3 DEF DriveOK, DriveRows
      <4>2. /\ Interruption(r) \in keys' => Interruption(r) \in keys
            /\ TransitionKey(r, "interrupted", "running") \in keys' =>
                  TransitionKey(r, "interrupted", "running") \in keys
        BY <1>6 DEF Moved, Interruption, TransitionKey
      <4> QED BY Zenon, <2>4, <3>1, <3>3, <4>1, <4>2 DEF DriveOK, DriveRows, DriveKnows,
                 DriveKeys, DriveLate, DriveLease, CancelOK, Inside, Looping, Holding,
                 Interruption
    <3> QED BY Zenon, <3>2, <3>3
  <2> QED BY Zenon, <1>3, <1>4, <2>2, <2>3, <2>5, IdleMove
<1> QED BY Zenon, <1>3, <1>5, <1>6

LEMMA OrderlyCancelAs ==
    ASSUME IInv, OInv, NEW w \in Worker, CancelAs(w)
    PROVE  OInv' /\ LifeStep
<1>1. PICK r \in Run : r = job[w].run
  BY Zenon, JobFacts
<1>2. ~Busy(pc[w]) /\ Alive /\ UNCHANGED <<leaseVars, worldVars, server>>
  BY Zenon DEF CancelAs, Busy
<1>3. CancelOK("idle", IdleJob) /\ ~Busy("idle") /\ CancelOK(pc[w], job[w])
  BY Zenon DEF CancelOK, Busy, OInv, DriveOK
<1>4. CASE UNCHANGED <<runVars, keys>> /\ Return(w)
  BY Zenon, <1>2, <1>3, <1>4, StillIdle DEF Return
<1>5. CASE RequestCancellation(r) /\ Return(w)
  BY Zenon, <1>2, <1>5, OrderlyRequestRecorded
<1>6. CASE EndWith(w, job[w].seen, job[w].to, changed[r]) /\ job[w].to # "running"
  <2>1. job[w].to = "cancelled" /\ job[w].seen \in {"queued", "interrupted"}
    BY Zenon, <1>3, <1>6 DEF CancelOK, CancelAs
  <2>2. \/ UNCHANGED <<runVars, keys>> /\ Return(w)
        \/ /\ TransitionAllowed(r, job[w].seen, "cancelled") /\ Return(w)
           /\ TransitionRun(r, job[w].seen, "cancelled", changed[r])
    BY Zenon, <1>1, <1>6, <2>1 DEF EndWith
  <2> QED BY Zenon, <1>2, <1>4, <2>1, <2>2, OrderlyWithdraw
<1> QED BY Zenon, <1>1, <1>4, <1>5, <1>6 DEF CancelAs
=============================================================================

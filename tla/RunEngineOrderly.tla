-------------------------- MODULE RunEngineOrderly --------------------------
(***************************************************************************)
(* When the requests that drive one run follow one another, the steps of   *)
(* its driver, of startup and of the environment keep the invariant of     *)
(* RunEngineRequests, and each is a step of the life cycle of a run or a   *)
(* stutter.  The theorems follow.                                          *)
(***************************************************************************)
EXTENDS RunEngineRequests

-----------------------------------------------------------------------------
(* Opening the run, and the head of the loop.                              *)

LEMMA OrderlyStart ==
    ASSUME Orderly, IInv, OInv, NEW w \in Worker, Start(w)
    PROVE  OInv' /\ LifeStep
<1>1. StartCentral(w)
  BY Zenon DEF Start, Orderly
<1>2. pc[w] = "start" /\ Busy(pc[w]) /\ Alive /\ UNCHANGED <<leaseVars, worldVars, server>>
  BY Zenon, <1>1 DEF StartCentral, Busy
<1>3. PICK r \in Run : r = job[w].run
  BY Zenon, JobFacts
<1>4. /\ Drives(w, r) /\ RowTypeOK /\ (\A q \in Run : RunOK(q)) /\ DriveOK(w, pc[w], job[w])
  BY Zenon, <1>2, <1>3, DriverFacts
<1>5. UNCHANGED <<leaseVars, worldVars>> /\ UNCHANGED <<leaseVars, server>> /\ lease' = lease
  BY Zenon, <1>2 DEF leaseVars
<1>6. \/ Return(w) /\ UNCHANGED <<runVars, keys>>
      \/ /\ status[r] \notin Terminal /\ TransitionAllowed(r, "queued", "running")
         /\ TransitionRun(r, "queued", "running", changed[r])
         /\ Goto(w, "loop")
      \/ /\ TransitionAllowed(r, "queued", "cancelled")
         /\ TransitionRun(r, "queued", "cancelled", changed[r])
         /\ Return(w)
  BY Zenon, <1>1, <1>3 DEF StartCentral
<1>7. CASE Return(w) /\ UNCHANGED <<runVars, keys>>
  BY Zenon, <1>2, <1>7, StillReturn
<1>8. CASE /\ status[r] \notin Terminal /\ TransitionAllowed(r, "queued", "running")
           /\ TransitionRun(r, "queued", "running", changed[r])
           /\ Goto(w, "loop")
  <2>1. status[r] = "queued"
    BY Zenon, <1>2, <1>3, <1>4, <1>8 DEF DriveOK, DriveRows, Terminal
  <2>2. TransitionKey(r, "queued", "running") \notin keys
    BY Zenon, <1>4, <2>1 DEF RunOK, KeyInv
  <2>3. Moved(r, "queued", "running", changed[r])
    BY Zenon, <1>4, <1>8, <2>1, <2>2, TransitionMoves
  <2>4. RunOK(r)' /\ LifeStep /\ \A k \in Steps : Ahead(r, k)'
    BY Zenon, <1>4, <1>5, <2>3, MovedOpen
  <2>5. status'[r] = "running" /\ \A l \in lease' : l.run # r
    BY Zenon, <1>4, <1>5, <2>1, <2>3 DEF Moved, RowTypeOK, RunOK, LeaseInv
  <2>6. PICK j : j = job[w]
    BY Zenon
  <2>7. DriveOK(w, "loop", j)'
    BY Zenon, <1>3, <2>4, <2>5, <2>6 DEF DriveOK, DriveRows, DriveKnows, DriveKeys, DriveLate,
       DriveLease, CancelOK, Inside, Looping, Holding
  <2>8. OtherRows(r) /\ \A q \in Run : WorldSame(q)
    BY Zenon, <1>2, <1>4, <1>8, TransitionOnly, SameWorld
  <2> QED BY Zenon, <1>2, <1>3, <1>4, <1>5, <1>8, <2>4, <2>6, <2>7, <2>8, RowsMove DEF Goto
<1>9. CASE /\ TransitionAllowed(r, "queued", "cancelled")
           /\ TransitionRun(r, "queued", "cancelled", changed[r])
           /\ Return(w)
  <2>1. RunOK(r)' /\ LifeStep
    BY Zenon, <1>4, <1>5, <1>9, Withdrawn
  <2>2. OtherRows(r) /\ \A q \in Run : WorldSame(q)
    BY Zenon, <1>2, <1>4, <1>9, TransitionOnly, SameWorld
  <2> QED BY Zenon, <1>2, <1>4, <1>5, <1>9, <2>1, <2>2, DriveIdle, RowsMove DEF Return
<1> QED BY Zenon, <1>6, <1>7, <1>8, <1>9

LEMMA OrderlyResumeStart ==
    ASSUME IInv, OInv, NEW w \in Worker, ResumeStart(w)
    PROVE  OInv' /\ LifeStep
<1>1. pc[w] = "resume" /\ Busy(pc[w]) /\ Alive /\ UNCHANGED <<leaseVars, worldVars, server>>
  BY Zenon DEF ResumeStart, Busy
<1>2. PICK r \in Run : r = job[w].run
  BY Zenon, JobFacts
<1>3. /\ Drives(w, r) /\ RowTypeOK /\ (\A q \in Run : RunOK(q)) /\ DriveOK(w, pc[w], job[w])
  BY Zenon, <1>1, <1>2, DriverFacts
<1>4. UNCHANGED <<leaseVars, worldVars>> /\ UNCHANGED <<leaseVars, server>> /\ lease' = lease
  BY Zenon, <1>1 DEF leaseVars
<1>5. \/ Return(w) /\ UNCHANGED <<runVars, keys>>
      \/ /\ TransitionAllowed(r, "interrupted", "running")
         /\ TransitionRun(r, "interrupted", "running", changed[r])
         /\ Goto(w, "loop")
  BY Zenon, <1>2 DEF ResumeStart
<1>6. CASE Return(w) /\ UNCHANGED <<runVars, keys>>
  BY Zenon, <1>1, <1>6, StillReturn
<1>7. CASE /\ TransitionAllowed(r, "interrupted", "running")
           /\ TransitionRun(r, "interrupted", "running", changed[r])
           /\ Goto(w, "loop")
  <2>1. /\ Interruption(r) \notin keys
        /\ TransitionKey(r, "interrupted", "running") \notin keys
    BY Zenon, <1>1, <1>2, <1>3 DEF DriveOK, DriveKeys
  <2>2. status[r] = "interrupted"
    BY Zenon, <1>7, <2>1 DEF TransitionAllowed
  <2>3. \A k \in Steps : Resumable(r, k)
    BY Zenon, <1>1, <1>2, <1>3, <2>2 DEF DriveOK, DriveRows
  <2>4. Moved(r, "interrupted", "running", changed[r])
    BY Zenon, <1>3, <1>7, <2>1, <2>2, TransitionMoves
  <2>5. RunOK(r)' /\ LifeStep /\ \A k \in Steps : Ahead(r, k)'
    BY Zenon, <1>3, <1>4, <2>1, <2>3, <2>4, MovedOpen
  <2>6. status'[r] = "running" /\ \A l \in lease' : l.run # r
    BY Zenon, <1>3, <1>4, <2>2, <2>4 DEF Moved, RowTypeOK, RunOK, LeaseInv
  <2>7. PICK j : j = job[w]
    BY Zenon
  <2>8. DriveOK(w, "loop", j)'
    BY Zenon, <1>2, <2>5, <2>6, <2>7 DEF DriveOK, DriveRows, DriveKnows, DriveKeys, DriveLate,
       DriveLease, CancelOK, Inside, Looping, Holding
  <2>9. OtherRows(r) /\ \A q \in Run : WorldSame(q)
    BY Zenon, <1>1, <1>3, <1>7, TransitionOnly, SameWorld
  <2> QED BY Zenon, <1>1, <1>2, <1>3, <1>4, <1>7, <2>5, <2>7, <2>8, <2>9, RowsMove DEF Goto
<1> QED BY Zenon, <1>5, <1>6, <1>7

(* What a worker at the head of the loop finds.                            *)
LEMMA AtLoop ==
    ASSUME IInv, OInv, NEW w \in Worker, pc[w] = "loop", NEW r \in Run, r = job[w].run
    PROVE  /\ Drives(w, r) /\ status[r] = "running" /\ pc[w] \in Inside /\ Busy(pc[w])
           /\ \A k \in Steps : Ahead(r, k) /\ effectState[r][k] \in Clear
           /\ \A l \in lease : l.run # r
<1>1. Busy(pc[w]) /\ pc[w] \in Inside
  BY Zenon DEF Busy, Inside, Looping
<1>2. Drives(w, r) /\ DriveOK(w, "loop", job[w]) /\ RunOK(r)
  BY Zenon, <1>1, DriverFacts
<1>3. /\ status[r] = "running" /\ (\A k \in Steps : Ahead(r, k)) /\ \A l \in lease : l.run # r
  BY Zenon, <1>1, <1>2 DEF DriveOK, DriveRows, DriveLease
<1>4. \A k \in Steps : effectState[r][k] \in Clear
  BY Zenon, <1>2, <1>3 DEF Ahead, Fresh, RunOK, RowInv, StepRow, Clear
<1> QED BY Zenon, <1>1, <1>2, <1>3, <1>4

LEMMA OrderlyLoop ==
    ASSUME IInv, OInv, NEW w \in Worker, Loop(w)
    PROVE  OInv' /\ LifeStep
<1>1. pc[w] = "loop" /\ Alive /\ UNCHANGED <<leaseVars, worldVars, server>>
  BY Zenon DEF Loop, Alive
<1>2. PICK r \in Run : r = job[w].run
  BY Zenon, JobFacts
<1>3. /\ Drives(w, r) /\ status[r] = "running" /\ pc[w] \in Inside /\ Busy(pc[w])
      /\ \A k \in Steps : Ahead(r, k) /\ effectState[r][k] \in Clear
      /\ \A l \in lease : l.run # r
  BY Zenon, <1>1, <1>2, AtLoop
<1>4. \/ EndWith(w, "running", "interrupted", changed[r])
      \/ /\ GotoWith(w, "loop", JobAt(r, job[w].step + 1))
         /\ UNCHANGED <<runVars, keys>>
      \/ /\ cancelRequested[r] # TRUE /\ stepStatus[r][job[w].step] = "queued"
         /\ Goto(w, "acquire") /\ UNCHANGED <<runVars, keys>>
      \/ Return(w) /\ UNCHANGED <<runVars, keys>>
  BY Zenon, <1>2 DEF Loop
<1>5. CASE EndWith(w, "running", "interrupted", changed[r])
  BY Zenon, <1>1, <1>2, <1>3, <1>5, DriverEndsWith
<1>6. CASE /\ GotoWith(w, "loop", JobAt(r, job[w].step + 1))
           /\ UNCHANGED <<runVars, keys>>
  <2>1. JobAt(r, job[w].step + 1).run = r
    BY Zenon DEF JobAt
  <2>2. DriveOK(w, "loop", JobAt(r, job[w].step + 1))
    BY Zenon, <1>3, <2>1 DEF DriveOK, DriveRows, DriveKnows, DriveKeys, DriveLate, DriveLease,
       CancelOK, Inside, Looping, Holding
  <2>3. UNCHANGED <<runVars, keys, leaseVars, worldVars, server>>
    BY Zenon, <1>1, <1>6
  <2> QED BY Zenon, <1>1, <1>3, <1>6, <2>1, <2>2, <2>3, StillMove
<1>7. CASE /\ cancelRequested[r] # TRUE /\ stepStatus[r][job[w].step] = "queued"
           /\ Goto(w, "acquire") /\ UNCHANGED <<runVars, keys>>
  <2>1. late[r] = 0
    BY Zenon, <1>7 DEF OInv, RunOK, LateInv
  <2>2. job[w].step \in Steps
    <3>1. job[w].step \in 1 .. (NSteps + 1) /\ job[w].step <= NSteps
      BY Zenon, JobFacts DEF Job, Loop
    <3> QED BY <3>1, NStepsAssumption DEF Steps
  <2>3. Fresh(r, job[w].step)
    BY Zenon, <1>3, <1>7, <2>2 DEF Ahead
  <2>4. DriveOK(w, "acquire", job[w])
    BY Zenon, <1>2, <1>3, <2>1, <2>3 DEF DriveOK, DriveRows, DriveKnows, DriveKeys, DriveLate,
       DriveLease, CancelOK, Inside, Looping, Holding
  <2>5. UNCHANGED <<runVars, keys, leaseVars, worldVars, server>>
    BY Zenon, <1>1, <1>7
  <2> QED BY Zenon, <1>1, <1>2, <1>3, <1>7, <2>4, <2>5, StillMove DEF Goto
<1>8. CASE Return(w) /\ UNCHANGED <<runVars, keys>>
  BY Zenon, <1>1, <1>3, <1>8, StillReturn
<1> QED BY Zenon, <1>4, <1>5, <1>6, <1>7, <1>8

LEMMA OrderlyStopped ==
    ASSUME IInv, OInv, NEW w \in Worker, LoopStopped(w)
    PROVE  OInv' /\ LifeStep
<1>1. pc[w] = "loop" /\ Alive /\ UNCHANGED <<leaseVars, worldVars, server>>
  BY Zenon DEF LoopStopped, Alive
<1>2. PICK r \in Run : r = job[w].run
  BY Zenon, JobFacts
<1>3. /\ pc[w] \in Inside /\ Busy(pc[w])
      /\ \A k \in Steps : effectState[r][k] \in Clear
      /\ \A l \in lease : l.run # r
  BY Zenon, <1>1, <1>2, AtLoop
<1>4. CASE Return(w) /\ UNCHANGED <<runVars, keys>>
  BY Zenon, <1>1, <1>3, <1>4, StillReturn
<1>5. CASE /\ TransitionRun(r, "running", "interrupted", changed[r])
           /\ Goto(w, "releaseLast")
  BY Zenon, <1>1, <1>2, <1>3, <1>5, DriverEnds DEF Goto
<1> QED BY Zenon, <1>2, <1>4, <1>5 DEF LoopStopped

LEMMA OrderlyComplete ==
    ASSUME IInv, OInv, NEW w \in Worker, Complete(w)
    PROVE  OInv' /\ LifeStep
<1>1. pc[w] = "loop" /\ Alive /\ UNCHANGED <<leaseVars, worldVars, server>>
  BY Zenon DEF Complete
<1>2. PICK r \in Run : r = job[w].run
  BY Zenon, JobFacts
<1>3. /\ pc[w] \in Inside
      /\ \A k \in Steps : effectState[r][k] \in Clear
      /\ \A l \in lease : l.run # r
  BY Zenon, <1>1, <1>2, AtLoop
<1>4. \A k \in Steps : stepStatus[r][k] = "succeeded"
  <2>1. job[w].step \in 1 .. (NSteps + 1) /\ PassedOK(pc[w], job[w]) /\ job[w].step > NSteps
    BY Zenon, JobFacts DEF Job, Complete
  <2>2. \A k \in Steps : k < job[w].step
    BY <2>1, NStepsAssumption DEF Steps
  <2> QED BY Zenon, <1>1, <1>2, <2>1, <2>2 DEF PassedOK, Looping
<1> QED BY Zenon, <1>1, <1>2, <1>3, <1>4, DriverEndsWith DEF Complete

LEMMA OrderlyRefused ==
    ASSUME IInv, OInv, NEW w \in Worker, ActivateRefused(w)
    PROVE  OInv' /\ LifeStep
BY Zenon, StillReturn DEF ActivateRefused, Busy, storeVars

-----------------------------------------------------------------------------
(* The body of the loop.                                                   *)

(* A worker between acquiring a lease and releasing it, or closing.        *)
Within(w, r, i) ==
    /\ Drives(w, r) /\ Busy(pc[w]) /\ status[r] = "running"
    /\ \A k \in Steps : k # i => Ahead(r, k) /\ effectState[r][k] \in Clear
    /\ RowTypeOK /\ \A q \in Run : RunOK(q)

LEMMA AtStep ==
    ASSUME IInv, OInv, NEW w \in Worker, pc[w] \in Inside \ {"loop"}
    PROVE  /\ job[w].run \in Run /\ job[w].step \in Steps
           /\ Within(w, job[w].run, job[w].step)
<1>1. Busy(pc[w]) /\ pc[w] # "loop"
  BY Zenon DEF Busy, Inside, Looping
<1>2. PICK r : r = job[w].run
  BY Zenon
<1>3. PICK i : i = job[w].step
  BY Zenon
<1>4. /\ r \in Run /\ Drives(w, r) /\ DriveOK(w, pc[w], job[w]) /\ JobOK(pc[w], job[w])
      /\ RowTypeOK /\ \A q \in Run : RunOK(q)
  BY Zenon, <1>1, <1>2, DriverFacts
<1>5. i \in Steps
  BY Zenon, <1>1, <1>3, <1>4 DEF JobOK
<1>6. status[r] = "running" /\ \A k \in Steps : k # i => Ahead(r, k)
  BY Zenon, <1>2, <1>3, <1>4 DEF DriveOK, DriveRows
<1>7. \A k \in Steps : k # i => effectState[r][k] \in Clear
  BY Zenon, <1>4, <1>6 DEF Ahead, Fresh, RunOK, RowInv, StepRow, Clear
<1>8. Within(w, r, i)
  BY Zenon, <1>1, <1>4, <1>6, <1>7 DEF Within
<1> QED BY Zenon, <1>2, <1>3, <1>4, <1>5, <1>8

LEMMA OrderlyUnavailable ==
    ASSUME IInv, OInv, NEW w \in Worker, AdapterUnavailable(w)
    PROVE  OInv' /\ LifeStep
<1>1. /\ pc[w] = "acquire" /\ pc[w] \in Inside \ {"loop"} /\ Alive
      /\ UNCHANGED <<leaseVars, worldVars, server>>
  BY Zenon DEF AdapterUnavailable, Inside, Looping
<1>2. PICK r \in Run, i \in Steps : r = job[w].run /\ i = job[w].step /\ Within(w, r, i)
  BY Zenon, <1>1, AtStep
<1>3. /\ Busy(pc[w])
      /\ \A k \in Steps : k # i => effectState[r][k] \in Clear
  BY Zenon, <1>2 DEF Within
<1>4. Fresh(r, i) /\ \A l \in lease : l.run # r
  BY Zenon, <1>1, <1>2, <1>3, DriverFacts DEF DriveOK, DriveRows, DriveLease
<1>5. \A k \in Steps : effectState[r][k] \in Clear
  BY Zenon, <1>3, <1>4 DEF Fresh, Clear
<1>6. CASE EndWith(w, "running", "failed", changed[r])
  BY Zenon, <1>1, <1>2, <1>4, <1>5, <1>6, DriverEndsWith
<1>7. CASE Return(w) /\ UNCHANGED <<runVars, keys>>
  BY Zenon, <1>1, <1>3, <1>7, StillReturn
<1> QED BY Zenon, <1>2, <1>6, <1>7 DEF AdapterUnavailable

LEMMA OrderlyAcquire ==
    ASSUME IInv, OInv, NEW w \in Worker, Acquire(w)
    PROVE  OInv' /\ LifeStep
<1>1. /\ pc[w] = "acquire" /\ pc[w] \in Inside \ {"loop"} /\ Alive
      /\ UNCHANGED <<runVars, keys, worldVars, server>>
  BY Zenon DEF Acquire, Inside, Looping
<1>2. PICK r \in Run, i \in Steps : r = job[w].run /\ i = job[w].step /\ Within(w, r, i)
  BY Zenon, <1>1, AtStep
<1>3. /\ Drives(w, r) /\ Busy(pc[w]) /\ status[r] = "running"
      /\ \A k \in Steps : k # i => Ahead(r, k)
  BY Zenon, <1>2 DEF Within
<1>4. Fresh(r, i) /\ late[r] = 0 /\ \A l \in lease : l.run # r
  BY Zenon, <1>1, <1>2, <1>3, DriverFacts DEF DriveOK, DriveRows, DriveLease, DriveLate
<1>5. CASE /\ AcquireAllowed(r, i) /\ AcquireTargetLease(r, i, w)
           /\ Goto(w, "begin")
  <2>1. /\ LeaseOf(r, i, w).run = r /\ LeaseOf(r, i, w).step = i
        /\ lease' = lease \cup {LeaseOf(r, i, w)}
    BY Zenon, <1>5 DEF LeaseOf, AcquireTargetLease
  <2>2. LeaseUnique'
    BY Zenon, <1>5, <2>1 DEF OInv, LeaseUnique, AcquireAllowed, TargetFree
  <2>3. \A l \in lease' : l \in lease \/ status[l.run] = "running"
    BY Zenon, <1>3, <2>1
  <2>4. \A q \in Run : q # r => LeaseSame(q)
    BY Zenon, <1>5, LeaseOnly
  <2>5. /\ status' = status /\ stepStatus' = stepStatus /\ effectState' = effectState
        /\ late' = late
    BY Zenon, <1>1 DEF runVars, worldVars
  <2>6. PICK j : j = job[w]
    BY Zenon
  <2>7. DriveOK(w, "begin", j)'
    BY Zenon, <1>2, <1>3, <1>4, <2>1, <2>5, <2>6 DEF Ahead, Fresh, DriveOK, DriveRows,
       DriveKnows, DriveKeys, DriveLate, DriveLease, CancelOK, Inside, Looping, Holding
  <2> QED BY Zenon, <1>1, <1>2, <1>3, <1>5, <2>2, <2>3, <2>4, <2>6, <2>7, LeasesMove DEF Goto
<1>6. CASE SettleAs(w, "interrupted") /\ UNCHANGED leaseVars
  <2> DEFINE m == [JobAt(r, i) EXCEPT !.to = "interrupted"]
  <2>1. m.run = r /\ m.step = i /\ m.to = "interrupted"
    BY DEF JobAt
  <2>2. GotoWith(w, "settle", m)
    BY Zenon, <1>2, <1>6 DEF SettleAs
  <2> HIDE DEF m
  <2>3. DriveOK(w, "settle", m)
    BY Zenon, <1>3, <1>4, <2>1 DEF Fresh, Clear, DriveOK, DriveRows, DriveKnows, DriveKeys,
       DriveLate, DriveLease, CancelOK, Inside, Looping, Holding
  <2>4. UNCHANGED <<runVars, keys, leaseVars, worldVars, server>>
    BY Zenon, <1>1, <1>6
  <2> QED BY Zenon, <1>1, <1>3, <2>1, <2>2, <2>3, <2>4, StillMove
<1> QED BY Zenon, <1>2, <1>5, <1>6 DEF Acquire

LEMMA OrderlyBegin ==
    ASSUME IInv, OInv, NEW w \in Worker, Begin(w)
    PROVE  OInv' /\ LifeStep
<1>1. /\ pc[w] = "begin" /\ pc[w] \in Inside \ {"loop"} /\ Alive
      /\ UNCHANGED <<leaseVars, server, landed>>
  BY Zenon DEF Begin, Inside, Looping
<1>2. PICK r \in Run, i \in Steps : r = job[w].run /\ i = job[w].step /\ Within(w, r, i)
  BY Zenon, <1>1, AtStep
<1>3. /\ Drives(w, r) /\ Busy(pc[w]) /\ status[r] = "running"
      /\ \A k \in Steps : k # i => Ahead(r, k)
      /\ RowTypeOK /\ \A q \in Run : RunOK(q)
  BY Zenon, <1>2 DEF Within
<1>4. /\ Fresh(r, i) /\ late[r] = 0 /\ LeaseOf(r, i, w) \in lease
      /\ \A l \in lease : l.run = r => l = LeaseOf(r, i, w)
  BY Zenon, <1>1, <1>2, <1>3, DriverFacts DEF DriveOK, DriveRows, DriveLease, DriveLate, Holding
<1>5. CASE /\ BeginStep(r, i) /\ Goto(w, "begun")
           /\ late' = [late EXCEPT ![r] = @ + (IF cancelRequested[r] THEN 1 ELSE 0)]
  <2>1. /\ \A q \in Run : q # r => late'[q] = late[q]
        /\ late'[r] = IF cancelRequested[r] THEN 1 ELSE 0
    <3>1. late \in [Run -> Nat]
      BY Zenon, WorldFacts
    <3>2. /\ \A q \in Run : q # r => late'[q] = late[q]
          /\ late'[r] = 0 + (IF cancelRequested[r] THEN 1 ELSE 0)
      BY Zenon, <1>4, <1>5, <3>1
    <3> QED BY <3>2
  <2>2. LateInv(r)'
    <3>1. cancelRequested' = cancelRequested /\ cancelRequested[r] \in BOOLEAN
      BY Zenon, <1>3, <1>5 DEF BeginStep, RowTypeOK
    <3>2. CASE cancelRequested[r] = TRUE
      <4>1. late'[r] = 1
        BY Zenon, <2>1, <3>2
      <4>2. late'[r] <= 1
        BY <4>1
      <4> QED BY Zenon, <3>1, <3>2, <4>2 DEF LateInv
    <3>3. CASE cancelRequested[r] = FALSE
      <4>1. late'[r] = 0
        BY Zenon, <2>1, <3>3
      <4>2. late'[r] <= 1
        BY <4>1
      <4> QED BY Zenon, <4>1, <4>2 DEF LateInv
    <3> QED BY Zenon, <3>1, <3>2, <3>3
  <2>3. \A k \in Steps : k < i => stepStatus[r][k] = "succeeded"
    BY Zenon, <1>1, <1>2, JobFacts DEF PassedOK, Looping
  <2>4. RunOK(r)' /\ LifeStep
    BY Zenon, <1>1, <1>3, <1>4, <1>5, <2>2, <2>3, RunBegins
  <2>5. OtherRows(r) /\ \A q \in Run : q # r => WorldSame(q)
    BY Zenon, <1>1, <1>3, <1>5, <2>1, StepCallsOnly DEF WorldSame
  <2>6. /\ status'[r] = "running" /\ lease' = lease
        /\ \A k \in Steps : k # i => /\ stepStatus'[r][k] = stepStatus[r][k]
                                     /\ effectState'[r][k] = effectState[r][k]
    BY Zenon, <1>1, <1>3, <1>5 DEF BeginStep, RowTypeOK, leaseVars
  <2>7. PICK j : j = job[w]
    BY Zenon
  <2>8. \A k \in Steps : k # i => Ahead(r, k)'
    BY Zenon, <1>3, <2>6 DEF Ahead, Fresh
  <2>9. DriveOK(w, "begun", j)'
    BY Zenon, <1>2, <1>4, <2>6, <2>7, <2>8 DEF DriveOK, DriveRows, DriveKnows, DriveKeys,
       DriveLate, DriveLease, CancelOK, Inside, Looping, Holding
  <2>10. UNCHANGED <<leaseVars, server>>
    BY Zenon, <1>1
  <2> QED BY Zenon, <1>1, <1>2, <1>3, <1>5, <2>4, <2>5, <2>7, <2>9, <2>10, RowsMove DEF Goto
<1>6. CASE Return(w) /\ UNCHANGED <<runVars, keys, late>>
  <2>1. UNCHANGED <<runVars, keys, leaseVars, worldVars, server>>
    BY Zenon, <1>1, <1>6 DEF worldVars
  <2> QED BY Zenon, <1>1, <1>3, <1>6, <2>1, StillReturn
<1> QED BY Zenon, <1>2, <1>5, <1>6 DEF Begin

(* The worker goes on with the step it is at, and no row changes.          *)
LEMMA SameStepMove ==
    ASSUME IInv, OInv, NEW w \in Worker,
           pc[w] \in {"begun", "executing", "returned", "verify"},
           NEW p \in {"executing", "returned", "verify", "close"}, NEW j, GotoWith(w, p, j),
           j.run = job[w].run, j.step = job[w].step, DriveKnows(p, j),
           UNCHANGED <<runVars, keys, leaseVars, worldVars, server>>, Alive
    PROVE  OInv' /\ LifeStep
<1>1. pc[w] \in Inside \ {"loop"} /\ pc[w] \in Holding
  BY Zenon DEF Inside, Looping, Holding
<1>2. PICK r \in Run, i \in Steps : r = job[w].run /\ i = job[w].step /\ Within(w, r, i)
  BY Zenon, <1>1, AtStep
<1>3. /\ Drives(w, r) /\ Busy(pc[w]) /\ status[r] = "running"
      /\ \A k \in Steps : k # i => Ahead(r, k)
  BY Zenon, <1>2 DEF Within
<1>4. /\ LeaseOf(r, i, w) \in lease
      /\ \A l \in lease : l.run = r => l = LeaseOf(r, i, w)
  BY Zenon, <1>1, <1>2, <1>3, DriverFacts DEF DriveOK, DriveLease
<1>5. DriveOK(w, p, j)
  BY Zenon, <1>2, <1>3, <1>4 DEF DriveOK, DriveRows, DriveKeys, DriveLate, DriveLease, CancelOK
<1> QED BY Zenon, <1>2, <1>3, <1>5, StillMove

LEMMA CloseAsMoves ==
    ASSUME IInv, OInv, NEW w \in Worker,
           pc[w] \in {"begun", "executing", "returned", "verify"}, NEW to, CloseAs(w, to),
           UNCHANGED <<runVars, keys, leaseVars, worldVars, server>>, Alive
    PROVE  OInv' /\ LifeStep
<1> DEFINE m == [JobAt(job[w].run, job[w].step) EXCEPT !.to = to]
<1>1. m.run = job[w].run /\ m.step = job[w].step
  BY DEF JobAt
<1>2. GotoWith(w, "close", m)
  BY Zenon DEF CloseAs
<1> HIDE DEF m
<1>3. DriveKnows("close", m)
  BY Zenon DEF DriveKnows
<1> QED BY Zenon, <1>1, <1>2, <1>3, SameStepMove

LEMMA OrderlyDispatch ==
    ASSUME IInv, OInv, NEW w \in Worker, Dispatch(w)
    PROVE  OInv' /\ LifeStep
<1>1. pc[w] = "begun" /\ Alive /\ UNCHANGED <<runVars, keys, leaseVars, worldVars, server>>
  BY Zenon DEF Dispatch, storeVars
<1>2. CASE CloseAs(w, "interrupted") \/ CloseAs(w, "failed")
  BY Zenon, <1>1, <1>2, CloseAsMoves
<1>3. CASE Goto(w, "executing")
  BY Zenon, <1>1, <1>3, SameStepMove DEF Goto, DriveKnows
<1> QED BY Zenon, <1>2, <1>3 DEF Dispatch

LEMMA OrderlyExecute ==
    ASSUME IInv, OInv, NEW w \in Worker, Execute(w)
    PROVE  OInv' /\ LifeStep
<1>1. pc[w] = "executing" /\ Alive /\ UNCHANGED <<runVars, keys, leaseVars, worldVars, server>>
  BY Zenon DEF Execute, storeVars
<1>2. PICK out, observed :
         GotoWith(w, "returned", [job[w] EXCEPT !.out = out, !.observed = observed])
  BY Zenon DEF Execute
<1> DEFINE m == [job[w] EXCEPT !.out = out, !.observed = observed]
<1>3. m.run = job[w].run /\ m.step = job[w].step /\ m.changed = job[w].changed
  BY JobFacts DEF Job
<1> HIDE DEF m
<1>4. landed[job[w].run][job[w].step] # 0 => job[w].changed = TRUE
  BY Zenon, <1>1, JobFacts DEF ActingOK, OwnedStep
<1>5. DriveKnows("returned", m) /\ GotoWith(w, "returned", m)
  BY Zenon, <1>2, <1>3, <1>4 DEF DriveKnows, m
<1> QED BY Zenon, <1>1, <1>3, <1>5, SameStepMove

LEMMA OrderlyEffect ==
    ASSUME IInv, OInv, NEW w \in Worker, EffectLands(w)
    PROVE  OInv' /\ LifeStep
<1>1. /\ pc[w] = "executing" /\ pc[w] \in Inside \ {"loop"} /\ Alive /\ job[w].changed # TRUE
      /\ UNCHANGED <<storeVars, server, late>>
  BY Zenon DEF EffectLands, Inside, Looping
<1>2. PICK r \in Run, i \in Steps : r = job[w].run /\ i = job[w].step /\ Within(w, r, i)
  BY Zenon, <1>1, AtStep
<1>3. /\ Drives(w, r) /\ Busy(pc[w]) /\ status[r] = "running"
      /\ \A k \in Steps : k # i => Ahead(r, k)
      /\ RowTypeOK /\ \A q \in Run : RunOK(q)
  BY Zenon, <1>2 DEF Within
<1>4. /\ LeaseOf(r, i, w) \in lease
      /\ \A l \in lease : l.run = r => l = LeaseOf(r, i, w)
  BY Zenon, <1>1, <1>2, <1>3, DriverFacts DEF DriveOK, DriveLease, Holding
<1>5. effectState[r][i] = "intent-recorded" /\ landed[r][i] = 0
  BY Zenon, <1>1, <1>2, JobFacts DEF ActingOK, OwnedStep
<1>6. /\ landed' = [landed EXCEPT ![r][i] = 1]
      /\ \A q \in Run : q # r => landed'[q] = landed[q]
      /\ \A k \in Steps : k # i => landed'[r][k] = landed[r][k]
  <2>1. landed \in [Run -> [Steps -> Nat]]
    BY Zenon, WorldFacts
  <2>2. landed' = [landed EXCEPT ![r][i] = landed[r][i] + 1]
    BY Zenon, <1>2 DEF EffectLands
  <2>3. landed[r][i] + 1 = 1
    BY <1>5
  <2>4. landed' = [landed EXCEPT ![r][i] = 1]
    BY Zenon, <2>2, <2>3
  <2> QED BY Zenon, <1>3, <2>1, <2>4
<1>7. /\ UNCHANGED <<runVars, keys, leaseVars>> /\ late' = late /\ lease' = lease
      /\ status' = status /\ cancelRequested' = cancelRequested /\ changed' = changed
      /\ stepStatus' = stepStatus /\ effectState' = effectState /\ keys' = keys
  BY Zenon, <1>1 DEF storeVars, runVars, leaseVars
<1>8. RunOK(r)'
  <2>1. RowInv(r)' /\ StatusInv(r)' /\ LateInv(r)' /\ LeaseInv(r)'
    BY Zenon, <1>3, <1>7 DEF RunOK, RowInv, StatusInv, Fresh, LateInv, LeaseInv
  <2>2. KeyInv(r)'
    BY Zenon, <1>3, <1>7 DEF RunOK, KeyInv
  <2>3. HonestInv(r)'
    BY Zenon, <1>3, <1>5, <1>6, <1>7 DEF RunOK, HonestInv
  <2> QED BY Zenon, <2>1, <2>2, <2>3 DEF RunOK
<1>9. LifeStep
  <2>1. Known(r, i) = "open"
    BY Zenon, <1>3, <1>5, KnownValue DEF Knows, Open
  <2>2. KnownSame
    <3> SUFFICES ASSUME NEW q \in Run, NEW k \in Steps PROVE Known(q, k)' = Known(q, k)
      BY Zenon DEF KnownSame
    <3> QED BY Zenon, <1>7, KnownValue
  <2> QED BY Zenon, <1>3, <1>5, <1>6, <1>7, <2>1, <2>2, LifeLand DEF LifeStep
<1> DEFINE m == [job[w] EXCEPT !.changed = TRUE]
<1>10. m.run = r /\ m.step = i
  BY <1>2, JobFacts DEF Job
<1>11. GotoWith(w, "executing", m)
  BY Zenon DEF EffectLands
<1>12. PICK j : j = m
  BY Zenon
<1> HIDE DEF m
<1>13. DriveOK(w, "executing", j)'
  BY Zenon, <1>3, <1>4, <1>7, <1>10, <1>12 DEF Ahead, Fresh, DriveOK, DriveRows, DriveKnows,
     DriveKeys, DriveLate, DriveLease, CancelOK, Inside, Looping, Holding
<1>14. /\ OtherRows(r) /\ (\A q \in Run : q # r => WorldSame(q))
       /\ UNCHANGED <<leaseVars, server>>
  BY Zenon, <1>1, <1>6, <1>7, SameRowsOnly DEF OtherRows, WorldSame
<1> QED BY Zenon, <1>1, <1>3, <1>8, <1>9, <1>10, <1>11, <1>12, <1>13, <1>14, RowsMove

(* What a worker with a step in flight finds in the rows of the step.      *)
LEMMA AtEffect ==
    ASSUME IInv, OInv, NEW w \in Worker, pc[w] \in {"begun", "executing", "returned", "verify"},
           NEW r \in Run, NEW i \in Steps, r = job[w].run, i = job[w].step
    PROVE  /\ stepStatus[r][i] = "running" /\ effectState[r][i] \in Open
           /\ LeaseOf(r, i, w) \in lease
           /\ \A l \in lease : l.run = r => l = LeaseOf(r, i, w)
           /\ pc[w] \in {"returned", "verify"} /\ landed[r][i] # 0 => job[w].changed = TRUE
<1>1. Busy(pc[w]) /\ pc[w] \in Holding
  BY Zenon DEF Busy, Holding
<1>2. DriveOK(w, pc[w], job[w]) /\ ActingOK(pc[w], job[w])
  BY Zenon, <1>1, DriverFacts, JobFacts
<1>3. stepStatus[r][i] = "running" /\ effectState[r][i] \in Open
  BY Zenon, <1>2 DEF ActingOK, OwnedStep, Acting, Open
<1> QED BY Zenon, <1>1, <1>2, <1>3 DEF DriveOK, DriveLease, DriveKnows

LEMMA OrderlyReturned ==
    ASSUME IInv, OInv, NEW w \in Worker, Returned(w)
    PROVE  OInv' /\ LifeStep
<1>1. /\ pc[w] \in Inside \ {"loop"} /\ pc[w] \in {"begun", "executing", "returned", "verify"}
      /\ Alive
  BY Zenon DEF Returned, Inside, Looping
<1>2. PICK r \in Run, i \in Steps : r = job[w].run /\ i = job[w].step /\ Within(w, r, i)
  BY Zenon, <1>1, AtStep
<1>3. /\ Drives(w, r) /\ Busy(pc[w]) /\ status[r] = "running"
      /\ \A k \in Steps : k # i => Ahead(r, k)
      /\ RowTypeOK /\ \A q \in Run : RunOK(q)
  BY Zenon, <1>2 DEF Within
<1>4. /\ LeaseOf(r, i, w) \in lease
      /\ \A l \in lease : l.run = r => l = LeaseOf(r, i, w)
      /\ landed[r][i] # 0 => job[w].changed = TRUE
      /\ stepStatus[r][i] = "running"
  BY Zenon, <1>1, <1>2, AtEffect DEF Returned
<1>5. UNCHANGED leaseVars /\ UNCHANGED keys /\ UNCHANGED server /\ UNCHANGED worldVars
  BY Zenon DEF Returned
<1>6. CASE UNCHANGED runVars /\ (Return(w) \/ \E to : CloseAs(w, to))
  <2>1. UNCHANGED <<runVars, keys, leaseVars, worldVars, server>>
    BY Zenon, <1>5, <1>6
  <2> QED BY Zenon, <1>1, <1>3, <1>6, <2>1, StillReturn, CloseAsMoves
<1>7. CASE ReceiptAllowed(r, i, w) /\ RecordReceipt(r, i) /\ Goto(w, "verify")
  <2>1. RunOK(r)' /\ LifeStep
    BY Zenon, <1>3, <1>5, <1>7, RunReceipt DEF ReceiptAllowed
  <2>2. OtherRows(r) /\ \A q \in Run : q # r => WorldSame(q)
    BY Zenon, <1>3, <1>5, <1>7, StepCallsOnly, SameWorld
  <2>3. PICK j : j = job[w]
    BY Zenon
  <2>4. /\ status' = status /\ stepStatus' = stepStatus /\ lease' = lease /\ landed' = landed
        /\ \A k \in Steps : k # i => effectState'[r][k] = effectState[r][k]
    BY Zenon, <1>3, <1>5, <1>7 DEF RecordReceipt, RowTypeOK, leaseVars, worldVars
  <2>5. \A k \in Steps : k # i => Ahead(r, k)'
    BY Zenon, <1>3, <2>4 DEF Ahead, Fresh
  <2>6. DriveOK(w, "verify", j)'
    BY Zenon, <1>2, <1>3, <1>4, <2>3, <2>4, <2>5 DEF DriveOK, DriveRows, DriveKnows, DriveKeys,
       DriveLate, DriveLease, CancelOK, Inside, Looping, Holding
  <2>7. UNCHANGED <<leaseVars, server>>
    BY Zenon, <1>5
  <2> QED BY Zenon, <1>1, <1>2, <1>3, <1>7, <2>1, <2>2, <2>3, <2>6, <2>7, RowsMove DEF Goto
<1> QED BY Zenon, <1>2, <1>6, <1>7 DEF Returned

LEMMA OrderlyVerify ==
    ASSUME IInv, OInv, NEW w \in Worker, Verify(w)
    PROVE  OInv' /\ LifeStep
<1>1. /\ pc[w] \in Inside \ {"loop"} /\ pc[w] \in {"begun", "executing", "returned", "verify"}
      /\ Alive
  BY Zenon DEF Verify, Inside, Looping
<1>2. PICK r \in Run, i \in Steps : r = job[w].run /\ i = job[w].step /\ Within(w, r, i)
  BY Zenon, <1>1, AtStep
<1>3. /\ Drives(w, r) /\ Busy(pc[w]) /\ status[r] = "running"
      /\ \A k \in Steps : k # i => Ahead(r, k)
      /\ RowTypeOK /\ \A q \in Run : RunOK(q)
  BY Zenon, <1>2 DEF Within
<1>4. /\ LeaseOf(r, i, w) \in lease
      /\ \A l \in lease : l.run = r => l = LeaseOf(r, i, w)
      /\ landed[r][i] # 0 => job[w].changed = TRUE
  BY Zenon, <1>1, <1>2, AtEffect DEF Verify
<1>5. UNCHANGED leaseVars /\ UNCHANGED keys /\ UNCHANGED server /\ UNCHANGED worldVars
  BY Zenon DEF Verify
<1>6. CASE UNCHANGED runVars /\ (Return(w) \/ \E to : CloseAs(w, to))
  <2>1. UNCHANGED <<runVars, keys, leaseVars, worldVars, server>>
    BY Zenon, <1>5, <1>6
  <2> QED BY Zenon, <1>1, <1>3, <1>6, <2>1, StillReturn, CloseAsMoves
<1>7. CASE /\ FinishAllowed(r, i) /\ FinishStep(r, i, job[w].out, job[w].changed)
           /\ Goto(w, "release")
  <2>1. job[w].out \in {"succeeded", "failed", "partial"} /\ job[w].changed \in BOOLEAN
    <3>1. JobOK("verify", job[w]) /\ job[w] \in Job
      BY Zenon, JobFacts DEF Verify
    <3> QED BY Zenon, <3>1 DEF JobOK, Job
  <2>2. RunOK(r)' /\ LifeStep
    BY Zenon, <1>3, <1>4, <1>5, <1>7, <2>1, RunFinishes DEF FinishAllowed
  <2>3. OtherRows(r) /\ \A q \in Run : q # r => WorldSame(q)
    BY Zenon, <1>3, <1>5, <1>7, StepCallsOnly, SameWorld
  <2>4. PICK j : j = job[w]
    BY Zenon
  <2>5. /\ status' = status /\ lease' = lease
        /\ stepStatus'[r][i] = j.out /\ effectState'[r][i] = "verified"
        /\ \A k \in Steps : k # i => /\ effectState'[r][k] = effectState[r][k]
                                     /\ stepStatus'[r][k] = stepStatus[r][k]
    BY Zenon, <1>3, <1>5, <1>7, <2>4 DEF FinishStep, RowTypeOK, leaseVars
  <2>6. \A k \in Steps : k # i => Ahead(r, k)'
    BY Zenon, <1>3, <2>5 DEF Ahead, Fresh
  <2>7. DriveOK(w, "release", j)'
    BY Zenon, <1>2, <1>3, <1>4, <2>4, <2>5, <2>6 DEF DriveOK, DriveRows, DriveKnows, DriveKeys,
       DriveLate, DriveLease, CancelOK, Inside, Looping, Holding
  <2>8. UNCHANGED <<leaseVars, server>>
    BY Zenon, <1>5
  <2> QED BY Zenon, <1>1, <1>2, <1>3, <1>7, <2>2, <2>3, <2>4, <2>7, <2>8, RowsMove DEF Goto
<1> QED BY Zenon, <1>2, <1>6, <1>7 DEF Verify

(* The worker gives up leases of its run.                                  *)
LEMMA ReleaseMove ==
    ASSUME IInv, OInv, NEW w \in Worker, NEW r \in Run, Drives(w, r), NEW i, NEW h,
           ReleaseTargetLease(r, i, h) \/ ReleaseRunLeases(r),
           NEW p, NEW j, GotoWith(w, p, j), Busy(p) => j.run = r, DriveOK(w, p, j)',
           UNCHANGED <<runVars, keys, worldVars, server>>, Alive
    PROVE  OInv' /\ LifeStep
<1>1. lease' \subseteq lease
  BY DEF ReleaseTargetLease, ReleaseRunLeases
<1>2. LeaseUnique' /\ \A l \in lease' : l \in lease \/ status[l.run] = "running"
  BY Zenon, <1>1, FewerLeases DEF OInv
<1>3. \A q \in Run : q # r => LeaseSame(q)
  BY Zenon, LeaseOnly
<1> QED BY Zenon, <1>2, <1>3, LeasesMove

LEMMA OrderlyRelease ==
    ASSUME IInv, OInv, NEW w \in Worker, Release(w)
    PROVE  OInv' /\ LifeStep
<1>1. pc[w] = "release" /\ pc[w] \in Inside \ {"loop"} /\ Alive
  BY Zenon DEF Release, Inside, Looping
<1>2. PICK r \in Run, i \in Steps : r = job[w].run /\ i = job[w].step /\ Within(w, r, i)
  BY Zenon, <1>1, AtStep
<1>3. /\ Drives(w, r) /\ Busy(pc[w]) /\ status[r] = "running"
      /\ \A k \in Steps : k # i => Ahead(r, k)
  BY Zenon, <1>2 DEF Within
<1>4. /\ LeaseOf(r, i, w) \in lease
      /\ \A l \in lease : l.run = r => l = LeaseOf(r, i, w)
      /\ stepStatus[r][i] = job[w].out /\ effectState[r][i] = "verified"
  BY Zenon, <1>1, <1>2, <1>3, DriverFacts DEF DriveOK, DriveRows, DriveLease, Holding
<1>5. UNCHANGED <<runVars, keys, worldVars, server>> /\ ReleaseTargetLease(r, i, w)
  BY Zenon, <1>2, <1>4 DEF Release
<1>6. /\ \A l \in lease' : l.run # r
      /\ status' = status /\ stepStatus' = stepStatus /\ effectState' = effectState
  BY Zenon, <1>4, <1>5 DEF ReleaseTargetLease, runVars
<1>7. \A k \in Steps : k # i => Ahead(r, k)'
  BY Zenon, <1>3, <1>6 DEF Ahead, Fresh
<1>8. CASE job[w].out = "succeeded" /\ GotoWith(w, "loop", JobAt(r, i + 1))
  <2>1. PICK j : j = JobAt(r, i + 1)
    BY Zenon
  <2>2. j.run = r
    BY <2>1 DEF JobAt
  <2>3. \A k \in Steps : Ahead(r, k)'
    BY Zenon, <1>4, <1>6, <1>7, <1>8 DEF Ahead
  <2>4. DriveOK(w, "loop", j)'
    BY Zenon, <1>3, <1>6, <2>2, <2>3 DEF DriveOK, DriveRows, DriveKnows, DriveKeys, DriveLate,
       DriveLease, CancelOK, Inside, Looping, Holding
  <2> QED BY Zenon, <1>1, <1>3, <1>5, <1>8, <2>1, <2>2, <2>4, ReleaseMove
<1>9. CASE job[w].out # "succeeded" /\ SettleAs(w, job[w].out)
  <2>1. PICK out : out = job[w].out
    BY Zenon
  <2>2. PICK j : j = [JobAt(r, i) EXCEPT !.to = out]
    BY Zenon
  <2>3. j.run = r /\ j.step = i /\ j.to = out
    BY <2>2 DEF JobAt
  <2>4. GotoWith(w, "settle", j)
    BY Zenon, <1>2, <1>9, <2>1, <2>2 DEF SettleAs
  <2>5. DriveOK(w, "settle", j)'
    BY Zenon, <1>3, <1>4, <1>6, <1>7, <2>1, <2>3 DEF Clear, DriveOK, DriveRows, DriveKnows,
       DriveKeys, DriveLate, DriveLease, CancelOK, Inside, Looping, Holding
  <2> QED BY Zenon, <1>1, <1>3, <1>5, <2>3, <2>4, <2>5, ReleaseMove
<1> QED BY Zenon, <1>2, <1>4, <1>8, <1>9 DEF Release

LEMMA OrderlyClose ==
    ASSUME IInv, OInv, NEW w \in Worker, Close(w)
    PROVE  OInv' /\ LifeStep
<1>1. pc[w] = "close" /\ pc[w] \in Inside \ {"loop"} /\ Alive
  BY Zenon DEF Close, Inside
<1>2. PICK r \in Run, i \in Steps : r = job[w].run /\ i = job[w].step /\ Within(w, r, i)
  BY Zenon, <1>1, AtStep
<1>3. /\ Drives(w, r) /\ Busy(pc[w]) /\ status[r] = "running"
      /\ \A k \in Steps : k # i => Ahead(r, k)
      /\ RowTypeOK /\ \A q \in Run : RunOK(q)
  BY Zenon, <1>2 DEF Within
<1>4. UNCHANGED leaseVars /\ UNCHANGED server /\ UNCHANGED worldVars
  BY Zenon DEF Close
<1>5. CASE CloseStep(r, i, job[w].to) /\ Goto(w, "releaseAll")
  <2>1. PICK j : j = job[w]
    BY Zenon
  <2>2. PICK x : x = j.to
    BY Zenon
  <2>3. JobOK("close", j) /\ ActingOK("close", j)
    BY Zenon, <1>1, <2>1, JobFacts
  <2>4. x \in Closing
    BY Zenon, <2>2, <2>3 DEF JobOK, Closing
  <2>5. /\ stepStatus[r][i] = "running" /\ effectState[r][i] \in Open
        /\ landed[r][i] # 0 => x = "partial"
    BY Zenon, <1>2, <2>1, <2>2, <2>3 DEF ActingOK, OwnedStep, Acting, Open
  <2>6. CloseStep(r, i, x)
    BY Zenon, <1>5, <2>1, <2>2
  <2>7. /\ RunOK(r)' /\ LifeStep
        /\ RowChanged(r, i, x, IF x = "partial" THEN "effect-unknown" ELSE "not-started")
    BY Zenon, <1>3, <1>4, <2>4, <2>5, <2>6, RunCloses
  <2>8. OtherRows(r) /\ \A q \in Run : q # r => WorldSame(q)
    BY Zenon, <1>3, <1>4, <2>6, CloseOnly, SameWorld
  <2>9. /\ status' = status
        /\ stepStatus'[r][i] = x
        /\ effectState'[r][i] = IF x = "partial" THEN "effect-unknown" ELSE "not-started"
        /\ \A k \in Steps : k # i => /\ effectState'[r][k] = effectState[r][k]
                                     /\ stepStatus'[r][k] = stepStatus[r][k]
    BY Zenon, <2>7 DEF RowChanged
  <2>10. \A k \in Steps : k # i => Ahead(r, k)'
    BY Zenon, <1>3, <2>9 DEF Ahead, Fresh
  <2>11. IF x = "partial" THEN stepStatus'[r][i] = "partial" ELSE effectState'[r][i] \in Clear
    BY Zenon, <2>9 DEF Clear
  <2>12. DriveOK(w, "releaseAll", j)'
    BY Zenon, <1>2, <1>3, <2>1, <2>2, <2>9, <2>10, <2>11 DEF DriveOK, DriveRows, DriveKnows,
       DriveKeys, DriveLate, DriveLease, CancelOK, Inside, Looping, Holding
  <2>13. UNCHANGED <<leaseVars, server>>
    BY Zenon, <1>4
  <2> QED BY Zenon, <1>1, <1>2, <1>3, <1>5, <2>1, <2>7, <2>8, <2>12, <2>13, RowsMove DEF Goto
<1>6. CASE UNCHANGED <<runVars, keys>> /\ Return(w)
  <2>1. UNCHANGED <<runVars, keys, leaseVars, worldVars, server>>
    BY Zenon, <1>4, <1>6
  <2> QED BY Zenon, <1>1, <1>3, <1>6, <2>1, StillReturn
<1> QED BY Zenon, <1>2, <1>5, <1>6 DEF Close

LEMMA OrderlyReleaseAll ==
    ASSUME IInv, OInv, NEW w \in Worker, ReleaseAll(w)
    PROVE  OInv' /\ LifeStep
<1>1. pc[w] = "releaseAll" /\ pc[w] \in Inside \ {"loop"} /\ Alive
  BY Zenon DEF ReleaseAll, Inside
<1>2. PICK r \in Run, i \in Steps : r = job[w].run /\ i = job[w].step /\ Within(w, r, i)
  BY Zenon, <1>1, AtStep
<1>3. /\ Drives(w, r) /\ Busy(pc[w]) /\ status[r] = "running"
      /\ \A k \in Steps : k # i => Ahead(r, k)
  BY Zenon, <1>2 DEF Within
<1>4. UNCHANGED <<runVars, keys, worldVars, server>> /\ ReleaseRunLeases(r)
  BY Zenon, <1>2 DEF ReleaseAll
<1>5. /\ \A l \in lease' : l.run # r
      /\ status' = status /\ stepStatus' = stepStatus /\ effectState' = effectState
  BY Zenon, <1>4 DEF ReleaseRunLeases, runVars
<1>6. \A k \in Steps : k # i => Ahead(r, k)'
  BY Zenon, <1>3, <1>5 DEF Ahead, Fresh
<1>7. PICK j : j = job[w]
  BY Zenon
<1>8. IF j.to = "partial" THEN stepStatus[r][i] = "partial" ELSE effectState[r][i] \in Clear
  BY Zenon, <1>1, <1>2, <1>3, <1>7, DriverFacts DEF DriveOK, DriveRows
<1>9. DriveOK(w, "settle", j)'
  BY Zenon, <1>2, <1>3, <1>5, <1>6, <1>7, <1>8 DEF DriveOK, DriveRows, DriveKnows, DriveKeys,
     DriveLate, DriveLease, CancelOK, Inside, Looping, Holding
<1> QED BY Zenon, <1>1, <1>2, <1>3, <1>4, <1>7, <1>9, ReleaseMove DEF Goto, ReleaseAll

LEMMA OrderlySettle ==
    ASSUME IInv, OInv, NEW w \in Worker, Settle(w)
    PROVE  OInv' /\ LifeStep
<1>1. pc[w] = "settle" /\ pc[w] \in Inside \ {"loop"} /\ Alive
  BY Zenon DEF Settle, Inside
<1>2. PICK r \in Run, i \in Steps : r = job[w].run /\ i = job[w].step /\ Within(w, r, i)
  BY Zenon, <1>1, AtStep
<1>3. /\ Busy(pc[w]) /\ RunOK(r)
      /\ \A k \in Steps : k # i => effectState[r][k] \in Clear
  BY Zenon, <1>2 DEF Within
<1>4. PICK to : to = job[w].to
  BY Zenon
<1>5. to \in {"interrupted", "failed", "partial"}
  BY Zenon, <1>1, <1>4, JobFacts DEF JobOK
<1>6. /\ \A l \in lease : l.run # r
      /\ IF to = "partial" THEN stepStatus[r][i] = "partial" ELSE effectState[r][i] \in Clear
  BY Zenon, <1>1, <1>2, <1>3, <1>4, DriverFacts DEF DriveOK, DriveRows, DriveLease
<1>7. PICK chg : chg = (changed[r] \/ effectState[r][i] = "effect-unknown")
  BY Zenon
<1>8. changed[r] = TRUE => chg = TRUE
  BY Zenon, <1>7
<1>9. EndWith(w, "running", to, chg) /\ UNCHANGED <<leaseVars, worldVars, server>>
  BY Zenon, <1>2, <1>4, <1>7 DEF Settle
<1>10. to # "partial" => \A k \in Steps : effectState[r][k] \in Clear
  BY Zenon, <1>3, <1>6
<1>11. to = "partial" => /\ \A k \in Steps : effectState[r][k] \notin Open
                         /\ \E k \in Steps : stepStatus[r][k] = "partial"
  <2>1. stepStatus[r][i] = "partial" => effectState[r][i] \notin Open
    BY Zenon, <1>3 DEF RunOK, RowInv, StepRow
  <2> QED BY Zenon, <1>3, <1>6, <2>1 DEF Clear, Open
<1> QED BY Zenon, <1>1, <1>2, <1>5, <1>6, <1>8, <1>9, <1>10, <1>11, DriverEndsWith

LEMMA OrderlyReleaseLast ==
    ASSUME IInv, OInv, NEW w \in Worker, ReleaseLast(w)
    PROVE  OInv' /\ LifeStep
<1>1. Busy(pc[w]) /\ Alive /\ UNCHANGED <<runVars, keys, worldVars, server>>
  BY Zenon DEF ReleaseLast, Busy
<1>2. PICK r \in Run : r = job[w].run /\ Drives(w, r)
  BY Zenon, <1>1, DriverFacts
<1>3. PICK j : j = IdleJob
  BY Zenon
<1>4. DriveOK(w, "idle", j)' /\ ~Busy("idle") /\ GotoWith(w, "idle", j) /\ ReleaseRunLeases(r)
  BY Zenon, <1>2, <1>3, DriveIdle DEF ReleaseLast, Return
<1> QED BY Zenon, <1>1, <1>2, <1>4, ReleaseMove

-----------------------------------------------------------------------------
(* Time, shutdown, crash and restart.                                      *)

LEMMA NobodyDrives ==
    ASSUME \A w \in Worker : pc'[w] = "idle"
    PROVE  OneDriver' /\ \A w \in Worker : DriveOK(w, pc[w], job[w])'
<1>1. OneDriver'
  BY Zenon DEF OneDriver, Busy
<1> SUFFICES ASSUME NEW w \in Worker PROVE DriveOK(w, pc[w], job[w])'
  BY Zenon, <1>1
<1>2. PICK j : j = job'[w]
  BY Zenon
<1>3. DriveOK(w, "idle", j)'
  BY Zenon, DriveIdle
<1> QED BY ZenonT(30), <1>2, <1>3 DEF DriveOK, DriveRows, DriveKnows, DriveKeys, DriveLate,
           DriveLease, CancelOK

(* Neither a row nor a worker changes.                                     *)
LEMMA StillAll ==
    ASSUME IInv, OInv, UNCHANGED <<storeVars, workerVars, worldVars>>, StartupInv'
    PROVE  OInv' /\ LifeStep
<1>1. /\ UNCHANGED <<runVars, keys>> /\ UNCHANGED leaseVars /\ UNCHANGED worldVars
      /\ lease' = lease /\ status' = status
      /\ stepStatus' = stepStatus /\ effectState' = effectState
      /\ pc' = pc /\ job' = job
  BY Zenon DEF storeVars, runVars, leaseVars, workerVars
<1>2. (\A q \in Run : RunOK(q)') /\ LifeStep
  <2>1. UNCHANGED <<runVars, keys, worldVars>>
    BY Zenon, <1>1
  <2> QED BY Zenon, <1>1, <2>1, CalmRows DEF OInv
<1>3. OneDriver' /\ LeaseUnique'
  BY Zenon, <1>1 DEF OInv, OneDriver, LeaseUnique
<1>4. ASSUME NEW w \in Worker PROVE DriveOK(w, pc[w], job[w])'
  <2>1. job[w].run \in Run /\ DriveOK(w, pc[w], job[w])
    BY Zenon, JobFacts DEF OInv
  <2>2. SameToDriver(job[w].run)
    BY Zenon, <1>1, <2>1, SameRowsOnly, SameLease, SameWorld DEF SameToDriver
  <2>3. PICK p, j : p = pc[w] /\ j = job[w]
    BY Zenon
  <2>4. DriveOK(w, p, j)'
    BY Zenon, <2>1, <2>2, <2>3, OtherDriver
  <2> QED BY Zenon, <1>1, <2>3, <2>4
<1> QED BY Zenon, <1>2, <1>3, <1>4 DEF OInv

LEMMA OrderlyServer ==
    ASSUME IInv, OInv, Shutdown \/ Restart \/ ReconcileDone \/ UNCHANGED vars
    PROVE  OInv' /\ LifeStep
<1>1. UNCHANGED <<storeVars, workerVars, worldVars>>
  BY Zenon DEF Shutdown, Restart, ReconcileDone, vars
<1>2. status' = status
  BY Zenon, <1>1 DEF storeVars, runVars
<1>3. CASE Shutdown \/ ReconcileDone
  BY Zenon, <1>1, <1>3, StillAll DEF Shutdown, ReconcileDone, StartupInv
<1>4. CASE Restart
  BY Zenon, <1>1, <1>2, <1>4, StillAll DEF Restart, StartupInv
<1>5. CASE UNCHANGED vars
  <2>1. server' = server /\ pending' = pending
    BY Zenon, <1>5 DEF vars
  <2> QED BY Zenon, <1>1, <1>2, <2>1, StillAll DEF OInv, StartupInv
<1> QED BY Zenon, <1>3, <1>4, <1>5

LEMMA OrderlyCrash ==
    ASSUME IInv, OInv, Crash
    PROVE  OInv' /\ LifeStep
<1>1. /\ UNCHANGED <<runVars, keys, worldVars>> /\ lease' = lease
      /\ server' = "down" /\ \A w \in Worker : pc'[w] = "idle"
  BY Zenon DEF Crash, storeVars, leaseVars
<1>2. (\A q \in Run : RunOK(q)') /\ LifeStep
  BY Zenon, <1>1, CalmRows DEF OInv
<1>3. LeaseUnique' /\ StartupInv'
  BY Zenon, <1>1 DEF OInv, LeaseUnique, StartupInv
<1> QED BY Zenon, <1>1, <1>2, <1>3, NobodyDrives DEF OInv

LEMMA OrderlyTick ==
    ASSUME IInv, OInv, Tick
    PROVE  OInv' /\ LifeStep
<1>1. /\ status' = status /\ cancelRequested' = cancelRequested /\ changed' = changed
      /\ stepStatus' = stepStatus /\ effectState' = effectState
      /\ lease' = lease /\ landed' = landed /\ late' = late /\ keys' = {}
      /\ pc' = pc /\ server' = server /\ pending' = pending
  BY Zenon DEF Tick, runVars, leaseVars, worldVars
<1>2. ASSUME NEW q \in Run PROVE RunOK(q)'
  <2>1. /\ RowInv(q) /\ StatusInv(q) /\ HonestInv(q) /\ LateInv(q) /\ LeaseInv(q)
    BY Zenon DEF OInv, RunOK
  <2>2. RowInv(q)' /\ StatusInv(q)' /\ HonestInv(q)' /\ LateInv(q)' /\ LeaseInv(q)'
    BY Zenon, <1>1, <2>1 DEF RowInv, StatusInv, Fresh, HonestInv, LateInv, LeaseInv
  <2>3. KeyInv(q)'
    BY Zenon, <1>1 DEF KeyInv
  <2> QED BY Zenon, <2>2, <2>3 DEF RunOK
<1>3. LifeStep
  <2>1. KnownSame
    <3> SUFFICES ASSUME NEW q \in Run, NEW k \in Steps PROVE Known(q, k)' = Known(q, k)
      BY Zenon DEF KnownSame
    <3> QED BY Zenon, <1>1, KnownValue
  <2> QED BY Zenon, <1>1, <2>1, LifeStutter DEF LifeStep
<1>4. LeaseUnique' /\ StartupInv'
  BY Zenon, <1>1 DEF OInv, LeaseUnique, StartupInv
<1>5. OneDriver'
  BY Zenon, <1>1, TickJob DEF OInv, OneDriver
<1>6. ASSUME NEW w \in Worker PROVE DriveOK(w, pc[w], job[w])'
  <2>1. PICK p, j : p = pc[w] /\ j = job[w]
    BY Zenon
  <2>2. PICK m : m = job'[w]
    BY Zenon
  <2>3. /\ m.run = j.run /\ m.step = j.step /\ m.to = j.to /\ m.seen = j.seen
        /\ m.out = j.out /\ m.changed = j.changed
    BY Zenon, <2>1, <2>2, TickJob
  <2>4. DriveOK(w, p, j)
    BY Zenon, <2>1 DEF OInv
  <2>5. DriveRows(p, m)' /\ DriveKnows(p, m)' /\ DriveKeys(p, m)'
    <3>1. \A r, k : /\ Resumable(r, k)' <=> Resumable(r, k)
                    /\ Ahead(r, k)' <=> Ahead(r, k)
                    /\ Fresh(r, k)' <=> Fresh(r, k)
      BY Zenon, <1>1 DEF Resumable, Ahead, Fresh
    <3>2. DriveRows(p, m)'
      BY Zenon, <1>1, <2>3, <2>4, <3>1 DEF DriveOK, DriveRows
    <3>3. DriveKnows(p, m)' /\ DriveKeys(p, m)'
      BY Zenon, <1>1, <2>3, <2>4 DEF DriveOK, DriveKnows, DriveKeys
    <3> QED BY Zenon, <3>2, <3>3
  <2>6. DriveLate(p, m)' /\ DriveLease(w, p, m)' /\ CancelOK(p, m)'
    BY Zenon, <1>1, <2>3, <2>4 DEF DriveOK, DriveLate, DriveLease, CancelOK
  <2>7. DriveOK(w, p, m)'
    BY Zenon, <2>5, <2>6 DEF DriveOK
  <2> QED BY Zenon, <1>1, <2>1, <2>2, <2>7
<1> QED BY Zenon, <1>2, <1>3, <1>4, <1>5, <1>6 DEF OInv

-----------------------------------------------------------------------------
(* The startup reconciliation.                                             *)

(* It changes one run, while nobody drives any.                            *)
LEMMA StartupStep ==
    ASSUME IInv, OInv, server = "reconciling", UNCHANGED <<workerVars, server>>,
           NEW r \in Run, OtherRows(r), UNCHANGED worldVars, RunOK(r)',
           UNCHANGED leaseVars,
           pending' = pending \/ (pending' = pending \ {r} /\ status'[r] # "running"),
           status'[r] = "running" => status[r] = "running"
    PROVE  OInv'
<1>1. \A w \in Worker : pc'[w] = "idle"
  BY Zenon DEF IInv, LocalInv, DownInv, workerVars
<1>2. OnlyRun(r)
  BY Zenon, SameWorld, SameLease, OnlyRunIntro
<1>3. \A q \in Run : RunOK(q)'
  BY Zenon, <1>2, OtherRun DEF OInv, OnlyRun
<1>4. LeaseUnique'
  BY Zenon DEF OInv, LeaseUnique, leaseVars
<1>5. StartupInv'
  <2> SUFFICES ASSUME NEW q \in Run, status'[q] = "running" PROVE q \in pending'
    BY Zenon DEF StartupInv
  <2>1. status[q] = "running"
    BY Zenon DEF OtherRows, RowSame
  <2>2. q \in pending
    BY Zenon, <2>1 DEF OInv, StartupInv
  <2> QED BY Zenon, <2>2
<1> QED BY Zenon, <1>1, <1>3, <1>4, <1>5, NobodyDrives DEF OInv

LEMMA OrderlyReconcileRelease ==
    ASSUME IInv, OInv, NEW r \in Run, ReconcileRelease(r)
    PROVE  OInv' /\ LifeStep
<1>1. /\ UNCHANGED <<runVars, keys, worldVars>> /\ lease' \subseteq lease
      /\ pc' = pc /\ server' = server /\ pending' = pending /\ server = "reconciling"
  BY Zenon DEF ReconcileRelease, ReleaseRunLeases, workerVars
<1>2. \A w \in Worker : pc'[w] = "idle"
  BY Zenon, <1>1 DEF IInv, LocalInv, DownInv
<1>3. (\A q \in Run : RunOK(q)') /\ LifeStep
  BY Zenon, <1>1, CalmRows DEF OInv
<1>4. LeaseUnique'
  BY Zenon, <1>1, FewerLeases DEF OInv
<1>5. StartupInv'
  BY Zenon, <1>1 DEF OInv, StartupInv, runVars
<1> QED BY Zenon, <1>2, <1>3, <1>4, <1>5, NobodyDrives DEF OInv

LEMMA OrderlyReconcileMark ==
    ASSUME IInv, OInv, NEW r \in Run, NEW i \in Steps, ReconcileMark(r, i)
    PROVE  OInv' /\ LifeStep
<1>1. RowTypeOK /\ \A q \in Run : RunOK(q)
  BY Zenon, RowFacts DEF OInv
<1>2. /\ status[r] = "running" /\ stepStatus[r][i] = "running" /\ effectState[r][i] \in Open
      /\ CloseStep(r, i, "partial") /\ server = "reconciling" /\ pending' = pending
      /\ UNCHANGED worldVars /\ UNCHANGED leaseVars /\ UNCHANGED <<workerVars, server>>
  BY Zenon DEF ReconcileMark, InFlight, Open
<1>3. "partial" \in Closing
  BY Zenon DEF Closing
<1>4. RunOK(r)' /\ LifeStep
  BY Zenon, <1>1, <1>2, <1>3, RunCloses
<1>5. OtherRows(r)
  BY Zenon, <1>1, <1>2, CloseOnly
<1> QED BY Zenon, <1>2, <1>4, <1>5, StartupStep

(* What the verdict says of the steps it is given on.                      *)
LEMMA VerdictTells ==
    ASSUME NEW r \in Run
    PROVE  /\ Verdict(r) \in {"interrupted", "failed", "succeeded", "partial"}
           /\ Verdict(r) = "partial" <=> \E i \in Steps : \/ stepStatus[r][i] = "partial"
                                                          \/ effectState[r][i] = "effect-unknown"
<1> DEFINE unknown == \E i \in Steps : \/ stepStatus[r][i] = "partial"
                                       \/ effectState[r][i] = "effect-unknown"
           failed == \E i \in Steps : stepStatus[r][i] = "failed"
           done == \A i \in Steps : /\ stepStatus[r][i] = "succeeded"
                                    /\ effectState[r][i] = "verified"
<1>1. CASE unknown
  <2>1. Verdict(r) = "partial"
    BY Zenon, <1>1 DEF Verdict
  <2> QED BY Zenon, <1>1, <2>1
<1>2. CASE ~unknown /\ failed
  <2>1. Verdict(r) = "failed"
    BY Zenon, <1>2 DEF Verdict
  <2> QED BY Zenon, <1>2, <2>1
<1>3. CASE ~unknown /\ ~failed /\ done
  <2>1. Verdict(r) = "succeeded"
    BY Zenon, <1>3 DEF Verdict
  <2> QED BY Zenon, <1>3, <2>1
<1>4. CASE ~unknown /\ ~failed /\ ~done
  <2>1. Verdict(r) = "interrupted"
    BY Zenon, <1>4 DEF Verdict
  <2> QED BY Zenon, <1>4, <2>1
<1> QED BY Zenon, <1>1, <1>2, <1>3, <1>4

LEMMA OrderlyReconcileSettle ==
    ASSUME IInv, OInv, NEW r \in Run, ReconcileSettle(r)
    PROVE  OInv' /\ LifeStep
<1>1. RowTypeOK /\ \A q \in Run : RunOK(q)
  BY Zenon, RowFacts DEF OInv
<1>2. /\ server = "reconciling" /\ pending' = pending \ {r} /\ \A l \in lease : l.run # r
      /\ UNCHANGED worldVars /\ UNCHANGED leaseVars /\ UNCHANGED <<workerVars, server>>
  BY Zenon DEF ReconcileSettle, HoldsLease
<1>3. CASE /\ status[r] = "running" /\ \A i \in Steps : ~InFlight(r, i)
           /\ TransitionRun(r, "running", Verdict(r), changed[r] \/ Verdict(r) = "partial")
  <2>1. PICK to : to = Verdict(r)
    BY Zenon
  <2>2. to \in {"interrupted", "failed", "succeeded", "partial"} /\ to \in RunStatus
    BY Zenon, <2>1, VerdictTells, VerdictFacts
  <2>3. PICK chg : chg = (changed[r] \/ to = "partial")
    BY Zenon
  <2>4. TransitionRun(r, "running", to, chg) /\ (changed[r] = TRUE => chg = TRUE)
    BY Zenon, <1>3, <2>1, <2>3
  <2>5. TransitionKey(r, "running", to) \notin keys
    BY Zenon, <1>1, <1>3, <2>2 DEF RunOK, KeyInv, Terminal
  <2>6. Moved(r, "running", to, chg)
    BY Zenon, <1>1, <1>3, <2>4, <2>5, TransitionMoves
  <2>7. \A k \in Steps : StepRow(stepStatus[r][k], effectState[r][k])
    BY Zenon, <1>1 DEF RunOK, RowInv
  <2>8. \A k \in Steps : effectState[r][k] \notin Open
    BY Zenon, <1>3, <2>7 DEF StepRow, InFlight, Open
  <2>9. to # "partial" => \A k \in Steps : effectState[r][k] \in Clear
    <3> SUFFICES ASSUME to # "partial", NEW k \in Steps PROVE effectState[r][k] \in Clear
      BY Zenon
    <3>1. effectState[r][k] \in EffectState
      BY Zenon, <1>1 DEF RowTypeOK
    <3>2. effectState[r][k] # "effect-unknown"
      BY Zenon, <2>1, VerdictTells
    <3> QED BY Zenon, <2>8, <3>1, <3>2 DEF EffectState, Open, Clear
  <2>10. to = "partial" => \E k \in Steps : stepStatus[r][k] = "partial"
    BY Zenon, <2>1, <2>7, VerdictTells DEF StepRow
  <2>11. to = "succeeded" => \A k \in Steps : stepStatus[r][k] = "succeeded"
    BY Zenon, <2>1, VerdictFacts
  <2>12. UNCHANGED <<leaseVars, worldVars>>
    BY Zenon, <1>2
  <2>13. RunOK(r)' /\ LifeStep
    BY Zenon, <1>1, <1>2, <2>2, <2>4, <2>6, <2>8, <2>9, <2>10, <2>11, <2>12, MovedEnd
  <2>14. OtherRows(r)
    BY Zenon, <1>1, <2>4, TransitionOnly
  <2>15. status'[r] # "running"
    BY Zenon, <1>1, <2>2, <2>6 DEF Moved, RowTypeOK
  <2> QED BY Zenon, <1>2, <2>13, <2>14, <2>15, StartupStep
<1>4. CASE status[r] # "running" /\ UNCHANGED <<runVars, keys>>
  <2>1. UNCHANGED <<runVars, keys, worldVars>> /\ lease' = lease
    BY Zenon, <1>2, <1>4 DEF leaseVars
  <2>2. (\A q \in Run : RunOK(q)') /\ LifeStep
    BY Zenon, <1>1, <2>1, CalmRows
  <2>3. OtherRows(r) /\ status' = status
    BY Zenon, <1>4, SameRowsOnly DEF OtherRows, runVars
  <2> QED BY Zenon, <1>2, <1>4, <2>2, <2>3, StartupStep
<1> QED BY Zenon, <1>3, <1>4 DEF ReconcileSettle

-----------------------------------------------------------------------------
(* The invariant holds, and every step is a step of the life cycle.        *)

LEMMA OrderlyInit == Init => OInv /\ Lifecycle!LifecycleInit
<1> SUFFICES ASSUME Init PROVE OInv /\ Lifecycle!LifecycleInit
  OBVIOUS
<1>1. /\ lease = {} /\ keys = {} /\ server = "up"
      /\ \A w \in Worker : pc[w] = "idle"
      /\ \A r \in Run : /\ status[r] = "none" /\ cancelRequested[r] = FALSE /\ late[r] = 0
                        /\ \A k \in Steps : Fresh(r, k) /\ landed[r][k] = 0
  BY Zenon DEF Init, StoreInit, Fresh
<1>2. OneDriver /\ LeaseUnique /\ StartupInv
  BY Zenon, <1>1 DEF OneDriver, Busy, LeaseUnique, StartupInv
<1>3. ASSUME NEW r \in Run PROVE RunOK(r)
  <2>1. RowInv(r)
    BY ZenonT(30), <1>1 DEF RowInv, StepRow, Fresh, Open
  <2>2. StatusInv(r) /\ HonestInv(r)
    BY ZenonT(30), <1>1 DEF StatusInv, HonestInv, Fresh, Clear
  <2>3. KeyInv(r) /\ LeaseInv(r)
    BY Zenon, <1>1 DEF KeyInv, LeaseInv
  <2>4. LateInv(r)
    BY SMTT(30), <1>1 DEF LateInv
  <2> QED BY Zenon, <2>1, <2>2, <2>3, <2>4 DEF RunOK
<1>4. ASSUME NEW w \in Worker PROVE DriveOK(w, pc[w], job[w])
  BY Zenon, <1>1 DEF DriveOK, DriveRows, DriveKnows, DriveKeys, DriveLate, DriveLease, CancelOK,
     Inside, Looping, Holding
<1>5. Lifecycle!LifecycleInit
  <2>1. ASSUME NEW r \in Run, NEW k \in Steps PROVE Known(r, k) = "none"
    <3>1. Known(r, k) = Knows(stepStatus[r][k], effectState[r][k])
      BY Zenon, KnownValue
    <3>2. effectState[r][k] = "not-started"
      BY ZenonT(30), <1>1 DEF Fresh
    <3> QED BY Zenon, <3>1, <3>2 DEF Knows
  <2>2. [r \in Run |-> [k \in Steps |-> Known(r, k)]] = [r \in Run |-> [k \in Steps |-> "none"]]
    BY <2>1
  <2> QED BY SMTT(30), <2>2 DEF Lifecycle!LifecycleInit, Init, StoreInit, Steps
<1> QED BY Zenon, <1>2, <1>3, <1>4, <1>5 DEF OInv

LEMMA OrderlyNext ==
    ASSUME Orderly, IInv, OInv, [Next]_vars
    PROVE  OInv' /\ LifeStep
<1>1. ASSUME NEW w \in Worker, Work(w) PROVE OInv' /\ LifeStep
  <2>1. CASE ActivateRefused(w) \/ Start(w) \/ ResumeStart(w) \/ CancelAs(w)
    BY Zenon, <2>1, OrderlyRefused, OrderlyStart, OrderlyResumeStart, OrderlyCancelAs
  <2>2. CASE Loop(w) \/ AdapterUnavailable(w) \/ LoopStopped(w) \/ Complete(w) \/ Settle(w)
    BY Zenon, <2>2, OrderlyLoop, OrderlyUnavailable, OrderlyStopped, OrderlyComplete,
       OrderlySettle
  <2>3. CASE ReleaseLast(w) \/ Acquire(w) \/ Release(w) \/ ReleaseAll(w)
    BY Zenon, <2>3, OrderlyReleaseLast, OrderlyAcquire, OrderlyRelease, OrderlyReleaseAll
  <2>4. CASE Begin(w) \/ Dispatch(w) \/ EffectLands(w) \/ Execute(w)
    BY Zenon, <2>4, OrderlyBegin, OrderlyDispatch, OrderlyEffect, OrderlyExecute
  <2>5. CASE Returned(w) \/ Verify(w) \/ Close(w)
    BY Zenon, <2>5, OrderlyReturned, OrderlyVerify, OrderlyClose
  <2> QED BY Zenon, <1>1, <2>1, <2>2, <2>3, <2>4, <2>5 DEF Work
<1>2. ASSUME NEW w \in Worker, NEW r \in Run, Request(w, r) PROVE OInv' /\ LifeStep
  BY Zenon, <1>2, OrderlySubmit, OrderlyResume, OrderlyCancel DEF Request
<1>3. CASE Tick
  BY Zenon, <1>3, OrderlyTick
<1>4. CASE Shutdown \/ Restart \/ ReconcileDone \/ UNCHANGED vars
  BY Zenon, <1>4, OrderlyServer
<1>5. CASE Crash
  BY Zenon, <1>5, OrderlyCrash
<1>6. CASE Reconcile
  BY Zenon, <1>4, <1>6, OrderlyReconcileRelease, OrderlyReconcileMark, OrderlyReconcileSettle
     DEF Reconcile
<1> QED BY Zenon, <1>1, <1>2, <1>3, <1>4, <1>5, <1>6 DEF Next

LEMMA AlwaysOInv == ASSUME Orderly PROVE Spec => [](IInv /\ OInv)
<1>1. Init => IInv /\ OInv
  BY Zenon, InitIInv, OrderlyInit
<1>2. IInv /\ OInv /\ [Next]_vars => (IInv /\ OInv)'
  BY Zenon, NextIInv, OrderlyNext
<1> QED BY <1>1, <1>2, PTL DEF Spec

(* What the operator reads of a stopped run can be trusted: with `changed' *)
(* false no step of it touched its target, whatever closed, crashed or     *)
(* settled the run.                                                        *)
THEOREM StoppedIsHonest == ASSUME Orderly PROVE Spec => []UnchangedIsHonest
<1>1. IInv /\ OInv => UnchangedIsHonest
  <2> SUFFICES ASSUME IInv, OInv, NEW r \in Run, NEW i \in Steps,
                      status[r] \in Terminal \cup {"interrupted"}, ~changed[r]
               PROVE  landed[r][i] = 0
    BY Zenon DEF UnchangedIsHonest
  <2>1. StatusInv(r) /\ HonestInv(r) /\ effectState[r][i] \in EffectState
    BY Zenon, RowFacts DEF OInv, RunOK, RowTypeOK
  <2>2. effectState[r][i] \in {"effect-unknown", "verified"} => landed[r][i] = 0
    BY Zenon, <2>1 DEF HonestInv
  <2>3. effectState[r][i] = "not-started" => landed[r][i] = 0
    BY Zenon DEF IInv, EffectInv, UntouchedInv
  <2>4. effectState[r][i] \notin Open
    BY Zenon, <2>1 DEF StatusInv, Terminal, Clear, Open
  <2> QED BY Zenon, <2>1, <2>2, <2>3, <2>4 DEF EffectState, Open
<1> QED BY <1>1, AlwaysOInv, PTL

(* A run that ends with a step in flight or unknown ends as partial, so    *)
(* that somebody looks at it.                                              *)
THEOREM NoSilentAmbiguity == ASSUME Orderly PROVE Spec => []AmbiguityIsReported
<1>1. IInv /\ OInv => AmbiguityIsReported
  <2> SUFFICES ASSUME OInv, NEW r \in Run, NEW i \in Steps,
                      status[r] \in Terminal \ {"partial"}
               PROVE  ~InFlight(r, i) /\ effectState[r][i] # "effect-unknown"
    BY Zenon DEF AmbiguityIsReported
  <2>1. effectState[r][i] \in Clear
    BY Zenon DEF OInv, RunOK, StatusInv, Terminal
  <2> QED BY Zenon, <2>1 DEF Clear, InFlight
<1> QED BY <1>1, AlwaysOInv, PTL

(* No finished run keeps a target locked.                                  *)
THEOREM NoLeaseLeftBehind == ASSUME Orderly PROVE Spec => []FinishedHoldsNoLease
<1>1. IInv /\ OInv => FinishedHoldsNoLease
  BY Zenon DEF OInv, RunOK, LeaseInv, FinishedHoldsNoLease, HoldsLease, Terminal
<1> QED BY <1>1, AlwaysOInv, PTL

(* Two adapters never work on one target at once, however the targets are  *)
(* spread over the runs and their steps.                                   *)
THEOREM TargetsExclusive == ASSUME Orderly PROVE Spec => []TargetExclusion
<1>1. IInv /\ OInv => TargetExclusion
  <2> SUFFICES ASSUME IInv, OInv, NEW v \in Worker, NEW w \in Worker,
                      pc[v] \in {"executing", "returned", "verify"},
                      pc[w] \in {"executing", "returned", "verify"},
                      TargetOf[job[v].run][job[v].step] = TargetOf[job[w].run][job[w].step]
               PROVE  v = w
    BY Zenon DEF TargetExclusion
  <2>1. PICK l : l = LeaseOf(job[v].run, job[v].step, v)
    BY Zenon
  <2>2. PICK m : m = LeaseOf(job[w].run, job[w].step, w)
    BY Zenon
  <2>3. l \in lease /\ m \in lease
    BY ZenonT(30), <2>1, <2>2 DEF OInv, DriveOK, DriveLease, Holding
  <2>4. /\ l.run = job[v].run /\ l.step = job[v].step /\ l.holder = v
        /\ m.run = job[w].run /\ m.step = job[w].step /\ m.holder = w
    BY SMTT(30), <2>1, <2>2 DEF LeaseOf
  <2>5. TargetOf[l.run][l.step] = TargetOf[m.run][m.step]
    BY Zenon, <2>4
  <2>6. l = m
    BY Zenon, <2>3, <2>5 DEF OInv, LeaseUnique
  <2> QED BY ZenonT(30), <2>4, <2>6
<1> QED BY <1>1, AlwaysOInv, PTL

(* A recorded cancellation lets at most the step begin whose boundary was  *)
(* already behind it, over every resume, crash and restart that follows.   *)
THEOREM CancelStops == ASSUME Orderly PROVE Spec => []CancelStopsSteps
<1>1. IInv /\ OInv => CancelStopsSteps
  BY Zenon DEF OInv, RunOK, LateInv, CancelStopsSteps
<1> QED BY <1>1, AlwaysOInv, PTL

(* When the startup reconciliation hands over to the requests, no run is   *)
(* running and no step is in flight.                                       *)
THEOREM StartupIsComplete == ASSUME Orderly PROVE Spec => StartupSettles
<1>1. ASSUME IInv, OInv, [Next]_vars, server = "reconciling", server' = "up", NEW r \in Run
      PROVE  status[r] # "running" /\ \A i \in Steps : ~InFlight(r, i)
  <2>1. pending = {}
    <3>1. \A w \in Worker : pc[w] = "idle"
      BY ZenonT(30), <1>1 DEF IInv, LocalInv, DownInv
    <3>2. ~\E w \in Worker : Work(w) \/ \E q \in Run : Request(w, q)
      <4> SUFFICES ASSUME NEW w \in Worker, Work(w) \/ \E q \in Run : Request(w, q)
                   PROVE  FALSE
        BY ZenonT(30)
      <4>1. server # "reconciling"
        BY Zenon, <3>1 DEF Work, Request, Submit, Resume, Cancel, ActivateRefused, Start,
           StartCentral, StartExternal, ResumeStart, CancelAs, Loop, AdapterUnavailable,
           LoopStopped, ReleaseLast, Acquire, Begin, Dispatch, EffectLands, Execute, Returned,
           Verify, Release, Complete, Close, ReleaseAll, Settle, Alive
      <4> QED BY ZenonT(30), <1>1, <4>1
    <3>3. ~(Tick \/ Shutdown \/ Crash \/ Restart \/ UNCHANGED vars)
      BY ZenonT(30), <1>1 DEF Tick, Shutdown, Crash, Restart, vars
    <3>4. ~\E q \in Run : \/ ReconcileRelease(q) \/ ReconcileSettle(q)
                          \/ \E i \in Steps : ReconcileMark(q, i)
      BY ZenonT(30), <1>1 DEF ReconcileRelease, ReconcileSettle, ReconcileMark
    <3> QED BY Zenon, <1>1, <3>2, <3>3, <3>4 DEF Next, Reconcile, ReconcileDone
  <2>2. status[r] # "running"
    BY Zenon, <1>1, <2>1 DEF OInv, StartupInv
  <2>3. StatusInv(r)
    BY Zenon, <1>1 DEF OInv, RunOK
  <2> QED BY Zenon, <2>2, <2>3 DEF StatusInv, InFlight, Clear, Open
<1>2. IInv /\ OInv /\ [Next]_vars =>
         [server = "reconciling" /\ server' = "up" =>
             \A r \in Run : /\ status[r] # "running"
                            /\ \A i \in Steps : ~InFlight(r, i)]_vars
  BY Zenon, <1>1
<1> QED BY <1>2, AlwaysOInv, PTL DEF Spec, StartupSettles

(* The engine, with its goroutines, leases, keys, crashes and restarts,    *)
(* implements the life cycle of a run: for any number of runs, steps and   *)
(* workers, every step is one the contract allows or changes nothing the   *)
(* contract speaks of.                                                     *)
THEOREM EngineImplementsLifecycle == ASSUME Orderly PROVE Spec => ImplementsLifecycle
<1>1. Init => Lifecycle!LifecycleInit
  BY Zenon, OrderlyInit
<1>2. IInv /\ OInv /\ [Next]_vars => [Lifecycle!LifecycleNext]_(Lifecycle!lifecycleVars)
  BY Zenon, OrderlyNext DEF LifeStep
<1> QED BY <1>1, <1>2, AlwaysOInv, PTL DEF Spec, ImplementsLifecycle, Lifecycle!LifecycleSpec
=============================================================================

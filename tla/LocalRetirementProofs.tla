----------------------- MODULE LocalRetirementProofs ------------------------
(***************************************************************************)
(* Theorems about LocalRetirement, for every number of backup,             *)
(* verification and retirement runs, every set of points, packs and        *)
(* chunks, every lease time and every history; the server and the custody  *)
(* child may stop at any moment, and restic may send any request.          *)
(*                                                                         *)
(* Each conjunct of the inductive invariant has a frame: what a step may   *)
(* leave as it is, or only reduce, without disturbing the conjunct.  Most  *)
(* actions are such steps; the others have a proof of their own.  First    *)
(* come the types, then who may act (leases, custody, selections), then    *)
(* what the runs rely on (points, files), and the theorems last.           *)
(***************************************************************************)
EXTENDS LocalRetirementInv, TLAPS

(* The three kinds of run have different names.                            *)
LEMMA SessionsApart ==
    /\ Writers \cap Readers = {} /\ Writers \cap Retirers = {} /\ Readers \cap Retirers = {}
    /\ None \notin Sessions /\ Sessions = Writers \cup Readers \cup Retirers
BY Zenon, RepositoryConstants DEF Points, Sessions

(* A lease lasts at least a second, and there is a first revision.         *)
LEMMA BoundsPositive == LeaseTime \in Nat \ {0} /\ MaxRevision \in Nat \ {0}
BY Zenon, RepositoryConstants

(* An object is a snapshot or a pack.                                      *)
LEMMA ObjectKinds == \A o \in Objects : o.type \in {"snapshots", "data"}
BY DEF Objects, Snap, Pack

(* The domains of the functions and of the records.                        *)
LEMMA Domains ==
    ASSUME IInv
    PROVE  /\ DOMAIN pc = Sessions /\ DOMAIN lease = Sessions /\ DOMAIN left = Sessions
           /\ DOMAIN point = Points /\ DOMAIN proof = Points
           /\ \A s \in Sessions : left[s] \in Int
           /\ DOMAIN view = Readers /\ \A r \in Readers : DOMAIN view[r] = DOMAIN NoView
           /\ DOMAIN intent = Retirers /\ \A t \in Retirers : DOMAIN intent[t] = DOMAIN NoIntent
           /\ DOMAIN journal = Retirers /\ DOMAIN observed = Retirers /\ DOMAIN gen = Retirers
BY BoundsPositive DEF IInv, LRTypeOK, ShapeInv

(* What the leases say of custody: a retirement past its claim holds its   *)
(* lease, has begun nothing before it has looked at the repository, and    *)
(* has no other child beside its own from then on.                         *)
LEMMA Alone ==
    ASSUME IInv
    PROVE  /\ \A u \in Retirers : pc[u] \in Retiring => Held(u)
           /\ \A u \in Retirers : pc[u] \in Unclaimed \cup {"leased", "custody"} => journal[u] = {}
           /\ \A u \in Retirers : pc[u] \in Unclaimed => gen[u].n = 0
           /\ \A u \in Retirers :
                 pc[u] \in {"mutating", "proved", "settling"} \/ (Held(u) /\ journal[u] # {}) =>
                    custodian \in {u, None}
           /\ inflight # {} => custodian \in Writers
BY Zenon DEF IInv, LeaseInv, CustodyInv, Retiring

(* The lease of a writer or a reader is taken: no file and no row of a     *)
(* point changes, and nothing a retirement has or holds.                   *)
LeaseTaken(s) ==
    /\ UNCHANGED <<custodian, repo, torn, inflight, hold, point, proof, lastGood, view>>
    /\ UNCHANGED <<gen, intent, journal, observed, admitted, serving, poisoned, catalog>>
    /\ \A t \in Retirers : pc'[t] = pc[t] /\ lease'[t] = lease[t]
    /\ \A r \in Readers : r # s => pc'[r] = pc[r] /\ left'[r] = left[r]
    /\ pc'[s] = "leased"

(* A backup takes its lease so.                                            *)
LEMMA WriterLeaseTaken ==
    ASSUME IInv, NEW w \in Writers, Beside(AcquireBackupWriterLease(w)) PROVE LeaseTaken(w)
<1>1. /\ pc' = [pc EXCEPT ![w] = "leased"] /\ StartClock(w)
      /\ lease' = [s \in Sessions |->
                      IF s = w THEN "held"
                      ELSE IF \/ s \in Writers /\ Expired(s)
                              \/ s \in Readers /\ Lapsed(s) THEN "released"
                      ELSE lease[s]]
  BY Zenon DEF Beside, AcquireBackupWriterLease
<1>2. /\ UNCHANGED <<custodian, repo, torn, inflight, hold, point, proof, lastGood, view>>
      /\ UNCHANGED <<gen, intent, journal, observed, admitted, serving, poisoned, catalog>>
  BY Zenon DEF Beside, AcquireBackupWriterLease, fileVars, retirementVars, planVars, restVars,
     journalVars, settleVars
<1>3. \A t \in Retirers : t \in Sessions /\ t # w /\ t \notin Writers /\ t \notin Readers
  BY Zenon, SessionsApart
<1>4. \A r \in Readers : r \in Sessions /\ r # w
  BY Zenon, SessionsApart
<1>5. \A t \in Retirers : pc'[t] = pc[t] /\ lease'[t] = lease[t]
  BY Zenon, <1>1, <1>3, Domains
<1>6. \A r \in Readers : pc'[r] = pc[r] /\ left'[r] = left[r]
  BY Zenon, <1>1, <1>4, Domains DEF StartClock
<1>7. pc'[w] = "leased"
  BY Zenon, <1>1, SessionsApart, Domains
<1> QED BY Zenon, <1>2, <1>5, <1>6, <1>7 DEF LeaseTaken

(* A verification takes its lease so.                                      *)
LEMMA ReadLeaseTaken ==
    ASSUME IInv, NEW r \in Readers, Beside(AcquireBackupReadLease(r)) PROVE LeaseTaken(r)
<1>1. /\ pc' = [pc EXCEPT ![r] = "leased"] /\ StartClock(r)
      /\ lease' = [s \in Sessions |->
                      IF s = r THEN "held"
                      ELSE IF s \in Readers /\ Lapsed(s) THEN "released"
                      ELSE lease[s]]
  BY Zenon DEF Beside, AcquireBackupReadLease
<1>2. /\ UNCHANGED <<custodian, repo, torn, inflight, hold, point, proof, lastGood, view>>
      /\ UNCHANGED <<gen, intent, journal, observed, admitted, serving, poisoned, catalog>>
  BY Zenon DEF Beside, AcquireBackupReadLease, fileVars, rowVars, retirementVars, planVars,
     restVars, journalVars, settleVars
<1>3. \A t \in Retirers : t \in Sessions /\ t # r /\ t \notin Readers
  BY Zenon, SessionsApart
<1>4. \A q \in Readers : q \in Sessions
  BY Zenon, SessionsApart
<1>5. \A t \in Retirers : pc'[t] = pc[t] /\ lease'[t] = lease[t]
  BY Zenon, <1>1, <1>3, Domains
<1>6. \A q \in Readers : q # r => pc'[q] = pc[q] /\ left'[q] = left[q]
  BY Zenon, <1>1, <1>4, Domains DEF StartClock
<1>7. pc'[r] = "leased"
  BY Zenon, <1>1, <1>4, Domains
<1> QED BY Zenon, <1>2, <1>5, <1>6, <1>7 DEF LeaseTaken

(* The rows, the journal and the REST server are left alone.               *)
ShapeFrame ==
    /\ DOMAIN pc' = Sessions
    /\ UNCHANGED <<point, proof, view, intent, journal, admitted, serving, poisoned, observed,
                   custody, gen>>

(* Such a step keeps the shapes.                                           *)
LEMMA ShapeFrameKeeps == ASSUME IInv, ShapeFrame PROVE ShapeInv'
BY Zenon DEF IInv, ShapeInv, ShapeFrame

(* The steps of a backup run keep the shapes.                              *)
LEMMA ShapeBackup ==
    ASSUME IInv, NEW w \in Writers, BackupStep(w)
    PROVE  ShapeInv'
<1> USE Domains DEF clockVars, fileVars, rowVars, repositoryVars, planVars,
   restVars, journalVars, settleVars, retirementVars
<1>1. ASSUME \/ Beside(StartBackup(w))
             \/ Beside(AcquireBackupWriterLease(w))
             \/ Beside(WriterRefused(w))
             \/ Beside(OpenSession(w))
             \/ Beside(OpenRejected(w))
             \/ Beside(BackupFails(w))
             \/ Beside(CloseBackup(w))
             \/ Beside(FinishBackup(w))
      PROVE  ShapeFrame
  BY Zenon, <1>1 DEF Beside, StartBackup, StartRun, AcquireBackupWriterLease,
     StartClock, WriterRefused, OpenSession, OpenCustody, OpenRejected,
     CustodyRejected, BackupFails, CloseBackup, ReleaseFlock, FinishBackup,
     ShapeFrame
<1>2. ASSUME NEW o \in Objects, Beside(PutObject(w, o))
      PROVE  ShapeFrame
  BY Zenon, <1>2 DEF Beside, PutObject, ShapeFrame
<1>3. CASE Beside(AppendPendingRecoveryPoint(w, Era))
  BY Zenon, <1>3 DEF Beside, AppendPendingRecoveryPoint, IInv, ShapeInv, NoView,
     NoIntent, NoRequest, Kinds
<1> HIDE Domains DEF clockVars, fileVars, rowVars, repositoryVars, planVars,
   restVars, journalVars, settleVars, retirementVars
<1> QED
  BY Zenon, <1>1, <1>2, <1>3, ShapeFrameKeeps DEF BackupStep

(* A handler that finishes a PUT keeps the shapes.                         *)
LEMMA ShapeHandler ==
    ASSUME IInv, NEW o \in inflight, HandlerStep(o)
    PROVE  ShapeInv'
<1> USE Domains DEF clockVars, fileVars, rowVars, repositoryVars, planVars,
   restVars, journalVars, settleVars, retirementVars
<1>1. ASSUME Beside(CompletePut(o)) \/ Beside(AbortPut(o))
      PROVE  ShapeFrame
  BY Zenon, <1>1 DEF Beside, CompletePut, AbortPut, ShapeFrame
<1> HIDE Domains DEF clockVars, fileVars, rowVars, repositoryVars, planVars,
   restVars, journalVars, settleVars, retirementVars
<1> QED
  BY Zenon, <1>1, ShapeFrameKeeps DEF HandlerStep

(* The steps of a verification run keep the shapes.                        *)
LEMMA ShapeVerify ==
    ASSUME IInv, NEW r \in Readers, VerifyStep(r)
    PROVE  ShapeInv'
<1> USE Domains DEF clockVars, fileVars, rowVars, repositoryVars, planVars,
   restVars, journalVars, settleVars, retirementVars
<1>1. ASSUME NEW p \in Made, Beside(StartVerify(r, p, SuccessorFor(p)))
      PROVE  ShapeInv'
  BY Zenon, <1>1 DEF Beside, StartVerify, StartRun, IInv, ShapeInv, NoView, NoIntent,
     NoRequest, Kinds
<1>2. ASSUME \/ Beside(AcquireBackupReadLease(r))
             \/ Beside(OpenSession(r))
             \/ Beside(OpenRejected(r))
             \/ Beside(InspectPoint(r, EffectiveObjects(view[r].point, view[r].gen)))
             \/ Beside(AdvanceLocalLastGood(r))
             \/ Beside(VerifyFails(r))
             \/ Beside(CloseVerify(r))
      PROVE  ShapeFrame
  BY Zenon, <1>2 DEF Beside, AcquireBackupReadLease, StartClock, OpenSession,
     OpenCustody, OpenRejected, CustodyRejected, InspectPoint,
     AdvanceLocalLastGood, VerifyFails, CloseVerify, ReleaseFlock, ShapeFrame
<1>3. CASE Beside(ReaderRefused(r))
  BY Zenon, <1>3 DEF Beside, ReaderRefused, IInv, ShapeInv, NoView, NoIntent,
     NoRequest, Kinds
<1>4. CASE Beside(AppendLocalVerification(r))
  BY Zenon, <1>4 DEF Beside, AppendLocalVerification, IInv, ShapeInv, NoView,
     NoIntent, NoRequest, Kinds
<1>5. CASE Beside(CurrentLocalLastGood(r))
  BY Zenon, <1>5 DEF Beside, CurrentLocalLastGood, IInv, ShapeInv, NoView, NoIntent,
     NoRequest, Kinds
<1>6. CASE Beside(ReleaseBackupReadLease(r))
  BY Zenon, <1>6 DEF Beside, ReleaseBackupReadLease, IInv, ShapeInv, NoView,
     NoIntent, NoRequest, Kinds
<1> HIDE Domains DEF clockVars, fileVars, rowVars, repositoryVars, planVars,
   restVars, journalVars, settleVars, retirementVars
<1> QED
  BY Zenon, <1>1, <1>2, <1>3, <1>4, <1>5, <1>6, ShapeFrameKeeps DEF VerifyStep

(* The requests restic sends to the REST server keep the shapes.           *)
LEMMA ShapeRequest ==
    ASSUME IInv, NEW t \in Retirers, RequestStep(t)
    PROVE  ShapeInv'
<1> USE Domains DEF clockVars, fileVars, rowVars, repositoryVars, planVars,
   restVars, journalVars, settleVars, retirementVars
<1>1. ASSUME NEW kind \in Kinds, NEW o \in Objects, AdmitRequest(t, kind, o)
      PROVE  ShapeInv'
  <2>1. admitted' = admitted \cup {[kind |-> kind, object |-> o]}
    BY Zenon, <1>1 DEF AdmitRequest
  <2>2. admitted \subseteq [kind : Kinds, object : Objects]
    BY Zenon DEF IInv, ShapeInv
  <2>3. [kind |-> kind, object |-> o] \in [kind : Kinds, object : Objects]
    BY Zenon
  <2>4. admitted' \subseteq [kind : Kinds, object : Objects]
    BY Zenon, <2>1, <2>2, <2>3
  <2> QED
    BY Zenon, <1>1, <2>4 DEF AdmitRequest, IInv, ShapeInv
<1>2. ASSUME NEW request \in admitted, BeginLocalMutation(t, request)
      PROVE  ShapeInv'
  BY <1>2 DEF BeginLocalMutation, MutationCurrent, MutationAllowed, IInv,
     ShapeInv, NoView, NoIntent, NoRequest, Kinds
<1>3. ASSUME NEW request \in admitted, DenyMutation(t, request)
      PROVE  ShapeInv'
  BY Zenon, <1>3 DEF DenyMutation, MutationCurrent, IInv, ShapeInv, NoView, NoIntent,
     NoRequest, Kinds
<1>4. ASSUME NEW request \in admitted, RefuseMutation(t, request)
      PROVE  ShapeInv'
  BY Zenon, <1>4 DEF RefuseMutation, MutationCurrent, IInv, ShapeInv, NoView,
     NoIntent, NoRequest, Kinds
<1>5. CASE LandMutation(t)
  BY SMTT(30), <1>5 DEF LandMutation, IInv, ShapeInv, NoView, NoIntent, NoRequest, Kinds
<1>6. CASE FinishLocalMutation(t)
  BY SMTT(30), <1>6 DEF FinishLocalMutation, Settle, IInv, ShapeInv, NoView, NoIntent,
     NoRequest, Kinds
<1>7. CASE FinishRetainedUncertain(t)
  BY <1>7 DEF FinishRetainedUncertain, Settle, IInv, ShapeInv, NoView,
     NoIntent, NoRequest, Kinds
<1>8. CASE FinishLost(t)
  BY Zenon, <1>8 DEF FinishLost, IInv, ShapeInv, NoView, NoIntent, NoRequest, Kinds
<1> HIDE Domains DEF clockVars, fileVars, rowVars, repositoryVars, planVars,
   restVars, journalVars, settleVars, retirementVars
<1> QED
  BY Zenon, <1>1, <1>2, <1>3, <1>4, <1>5, <1>6, <1>7, <1>8 DEF RequestStep

(* The steps of a retirement run keep the shapes.                          *)
LEMMA ShapeRetire ==
    ASSUME IInv, NEW t \in Retirers, RetireStep(t)
    PROVE  ShapeInv'
<1> USE Domains DEF clockVars, fileVars, rowVars, repositoryVars, planVars,
   restVars, journalVars, settleVars, retirementVars
<1>1. CASE Draft(t)
  BY Zenon, <1>1 DEF Draft, IInv, ShapeInv, NoView, NoIntent, NoRequest, Kinds
<1>2. CASE PlanRetirement(t)
  BY Zenon, <1>2 DEF PlanRetirement, IInv, ShapeInv, NoView, NoIntent, NoRequest,
     Kinds
<1>3. ASSUME \/ StageLocalRetirement(t)
             \/ ClaimLocalRetirement(t)
             \/ ClaimRefused(t)
             \/ OpenRetirement(t)
             \/ PreCheck(t)
      PROVE  ShapeFrame
  BY Zenon, <1>3 DEF StageLocalRetirement, ClaimLocalRetirement, StartClock,
     ClaimRefused, OpenRetirement, OpenCustody, PreCheck, ShapeFrame
<1>4. CASE PostCheck(t)
  BY Zenon, <1>4 DEF PostCheck, IInv, ShapeInv, NoView, NoIntent, NoRequest, Kinds
<1>5. CASE CloseRetirement(t)
  BY Zenon, <1>5 DEF CloseRetirement, ReleaseFlock, StopServer, IInv, ShapeInv,
     NoView, NoIntent, NoRequest, Kinds
<1>6. CASE CommitLocalRetirementSuccess(t)
  BY Zenon, <1>6 DEF CommitLocalRetirementSuccess, IInv, ShapeInv, NoView, NoIntent,
     NoRequest, Kinds
<1>7. CASE RetireFails(t)
  BY Zenon, <1>7 DEF RetireFails, ReleaseFlock, StopServer, IInv, ShapeInv, NoView,
     NoIntent, NoRequest, Kinds
<1> HIDE Domains DEF clockVars, fileVars, rowVars, repositoryVars, planVars,
   restVars, journalVars, settleVars, retirementVars
<1> QED
  BY Zenon, <1>1, <1>2, <1>3, <1>4, <1>5, <1>6, <1>7, ShapeRequest, ShapeFrameKeeps
     DEF RetireStep

(* Time, declarations, lock catalogs and crashes keep the shapes.          *)
LEMMA ShapeEnvironment ==
    ASSUME IInv, Environment
    PROVE  ShapeInv'
<1> USE Domains DEF clockVars, fileVars, rowVars, repositoryVars, planVars,
   restVars, journalVars, settleVars, retirementVars
<1>1. ASSUME Declare \/ Tick
      PROVE  ShapeFrame
  BY Zenon, <1>1 DEF Declare, Tick, Age, ShapeFrame
<1>2. ASSUME NEW locks \in {c \in Catalogs : c \subseteq Made},
             ActivateLocalRetentionLockCatalog(locks)
      PROVE  ShapeFrame
  BY Zenon, <1>2 DEF ActivateLocalRetentionLockCatalog, ShapeFrame
<1>3. CASE Crash
  BY Zenon, <1>3 DEF Crash, IInv, ShapeInv, NoView, NoIntent, NoRequest, Kinds
<1>4. CASE CustodianDies
  BY Zenon, <1>4 DEF CustodianDies, StopServer, IInv, ShapeInv, NoView, NoIntent,
     NoRequest, Kinds
<1> HIDE Domains DEF clockVars, fileVars, rowVars, repositoryVars, planVars,
   restVars, journalVars, settleVars, retirementVars
<1> QED
  BY Zenon, <1>1, <1>2, <1>3, <1>4, ShapeFrameKeeps DEF Environment

(* Every step keeps the shapes.                                            *)
LEMMA ShapeStep == ASSUME IInv, Next PROVE ShapeInv'
BY Zenon, ShapeBackup, ShapeHandler, ShapeVerify, ShapeRetire, ShapeEnvironment DEF
   Next

(* Nothing that LRTypeOK is about changes.  A rename of the REST server,   *)
(* which does, leaves no incomplete object behind because no backup writes *)
(* then; and the last-good point has a row because a verification is about *)
(* a point that has one.                                                   *)
TypeFrame ==
    UNCHANGED <<revision, left, lease, custodian, repo, torn, inflight, hold, job, point,
                lastGood, intent>>

(* Such a step keeps the types.                                            *)
LEMMA TypeFrameKeeps == ASSUME IInv, TypeFrame PROVE LRTypeOK'
BY Zenon DEF IInv, LRTypeOK, TypeFrame, Made

(* Nothing but deadlines, leases and custody changes; custody is at most   *)
(* given up.                                                               *)
ClockFrame ==
    /\ UNCHANGED <<revision, repo, torn, hold, job, point, lastGood, intent>>
    /\ left' \in [Sessions -> -1 .. LeaseTime]
    /\ lease' \in [Sessions -> {"none", "held", "released"}]
    /\ custodian' \in {custodian, None} /\ inflight' \subseteq inflight

(* Such a step keeps the types.                                            *)
LEMMA ClockFrameKeeps == ASSUME IInv, ClockFrame PROVE LRTypeOK'
BY Zenon DEF IInv, LRTypeOK, ClockFrame, Made

(* A deadline or a lease of one run is set.                                *)
LEMMA ClockSet ==
    ASSUME IInv
    PROVE  /\ \A s \in Sessions, n \in -1 .. LeaseTime :
                 [left EXCEPT ![s] = n] \in [Sessions -> -1 .. LeaseTime]
           /\ \A s \in Sessions, l \in {"none", "held", "released"} :
                 [lease EXCEPT ![s] = l] \in [Sessions -> {"none", "held", "released"}]
           /\ left \in [Sessions -> -1 .. LeaseTime]
           /\ \A s \in Sessions : left[s] \in -1 .. LeaseTime
           /\ lease \in [Sessions -> {"none", "held", "released"}]
           /\ 0 \in -1 .. LeaseTime
<1>1. left \in [Sessions -> -1 .. LeaseTime] /\ lease \in [Sessions -> {"none", "held", "released"}]
  BY Zenon DEF IInv, LRTypeOK
<1>2. 0 \in -1 .. LeaseTime
  BY BoundsPositive
<1> QED
  BY Zenon, <1>1, <1>2

(* The steps of a backup run keep the types.                               *)
LEMMA TypeBackup ==
    ASSUME IInv, NEW w \in Writers, BackupStep(w)
    PROVE  LRTypeOK'
<1> USE SessionsApart, BoundsPositive DEF clockVars, fileVars, rowVars,
   repositoryVars, planVars, restVars, journalVars, settleVars, retirementVars
<1>1. ASSUME \/ Beside(StartBackup(w))
             \/ Beside(WriterRefused(w))
             \/ Beside(OpenRejected(w))
             \/ Beside(BackupFails(w))
      PROVE  TypeFrame
  BY Zenon, <1>1 DEF Beside, StartBackup, StartRun, WriterRefused, OpenRejected,
     CustodyRejected, BackupFails, TypeFrame
<1>2. CASE Beside(AcquireBackupWriterLease(w))
  BY <1>2 DEF Beside, AcquireBackupWriterLease, StartClock, WriterConflict,
     IInv, LRTypeOK, ShapeInv, Made, Held
<1>3. CASE Beside(OpenSession(w))
  BY Zenon, <1>3 DEF Beside, OpenSession, OpenCustody, IInv, LRTypeOK, ShapeInv,
     Made, Held
<1>4. ASSUME NEW o \in Objects, Beside(PutObject(w, o))
      PROVE  LRTypeOK'
  BY Zenon, <1>4 DEF Beside, PutObject, IInv, LRTypeOK, ShapeInv, Made, Held
<1>5. CASE Beside(AppendPendingRecoveryPoint(w, Era))
  BY <1>5 DEF Beside, AppendPendingRecoveryPoint, IInv, LRTypeOK, ShapeInv,
     Made, Held, PointInv
<1>6. CASE Beside(CloseBackup(w))
  BY Zenon, <1>6 DEF Beside, CloseBackup, ReleaseFlock, IInv, LRTypeOK, ShapeInv,
     Made, Held
<1>7. CASE Beside(FinishBackup(w))
  BY <1>7 DEF Beside, FinishBackup, IInv, LRTypeOK, ShapeInv, Made, Held
<1> HIDE SessionsApart, BoundsPositive DEF clockVars, fileVars, rowVars,
   repositoryVars, planVars, restVars, journalVars, settleVars, retirementVars
<1> QED
  BY Zenon, <1>1, <1>2, <1>3, <1>4, <1>5, <1>6, <1>7, TypeFrameKeeps DEF BackupStep

(* A handler that finishes a PUT keeps the types.                          *)
LEMMA TypeHandler ==
    ASSUME IInv, NEW o \in inflight, HandlerStep(o)
    PROVE  LRTypeOK'
<1> USE SessionsApart, BoundsPositive DEF clockVars, fileVars, rowVars,
   repositoryVars, planVars, restVars, journalVars, settleVars, retirementVars
<1>1. CASE Beside(CompletePut(o))
  BY Zenon, <1>1 DEF Beside, CompletePut, IInv, LRTypeOK, ShapeInv, Made, Held
<1>2. CASE Beside(AbortPut(o))
  BY Zenon, <1>2 DEF Beside, AbortPut, IInv, LRTypeOK, ShapeInv, Made, Held
<1> HIDE SessionsApart, BoundsPositive DEF clockVars, fileVars, rowVars,
   repositoryVars, planVars, restVars, journalVars, settleVars, retirementVars
<1> QED
  BY Zenon, <1>1, <1>2 DEF HandlerStep

(* The steps of a verification run keep the types.                         *)
LEMMA TypeVerify ==
    ASSUME IInv, NEW r \in Readers, VerifyStep(r)
    PROVE  LRTypeOK'
<1> USE SessionsApart, BoundsPositive DEF clockVars, fileVars, rowVars,
   repositoryVars, planVars, restVars, journalVars, settleVars, retirementVars
<1>1. ASSUME NEW p \in Made, Beside(StartVerify(r, p, SuccessorFor(p)))
      PROVE  TypeFrame
  BY ZenonT(30), <1>1 DEF Beside, StartVerify, StartRun, TypeFrame
<1>2. CASE Beside(AcquireBackupReadLease(r))
  BY <1>2 DEF Beside, AcquireBackupReadLease, StartClock, ReaderConflict,
     IInv, LRTypeOK, ShapeInv, Made, Held
<1>3. ASSUME \/ Beside(ReaderRefused(r))
             \/ Beside(OpenRejected(r))
             \/ Beside(InspectPoint(r, EffectiveObjects(view[r].point, view[r].gen)))
             \/ Beside(AppendLocalVerification(r))
             \/ Beside(CurrentLocalLastGood(r))
             \/ Beside(VerifyFails(r))
      PROVE  TypeFrame
  BY Zenon, <1>3 DEF Beside, ReaderRefused, OpenRejected, CustodyRejected,
     InspectPoint, AppendLocalVerification, CurrentLocalLastGood, VerifyFails,
     TypeFrame
<1>4. CASE Beside(OpenSession(r))
  BY Zenon, <1>4 DEF Beside, OpenSession, OpenCustody, IInv, LRTypeOK, ShapeInv,
     Made, Held
<1>5. CASE Beside(AdvanceLocalLastGood(r))
  BY Zenon, <1>5 DEF Beside, AdvanceLocalLastGood, IInv, LRTypeOK, ShapeInv, Made,
     Held, PointInv, Reading
<1>6. CASE Beside(CloseVerify(r))
  BY Zenon, <1>6 DEF Beside, CloseVerify, ReleaseFlock, IInv, LRTypeOK, ShapeInv,
     Made, Held
<1>7. CASE Beside(ReleaseBackupReadLease(r))
  BY <1>7 DEF Beside, ReleaseBackupReadLease, IInv, LRTypeOK, ShapeInv, Made,
     Held
<1> HIDE SessionsApart, BoundsPositive DEF clockVars, fileVars, rowVars,
   repositoryVars, planVars, restVars, journalVars, settleVars, retirementVars
<1> QED
  BY Zenon, <1>1, <1>2, <1>3, <1>4, <1>5, <1>6, <1>7, TypeFrameKeeps DEF VerifyStep

(* The requests restic sends to the REST server keep the types.            *)
LEMMA TypeRequest ==
    ASSUME IInv, NEW t \in Retirers, RequestStep(t)
    PROVE  LRTypeOK'
<1> USE SessionsApart, BoundsPositive DEF clockVars, fileVars, rowVars,
   repositoryVars, planVars, restVars, journalVars, settleVars, retirementVars
<1>1. ASSUME NEW kind \in Kinds, NEW o \in Objects, AdmitRequest(t, kind, o)
      PROVE  TypeFrame
  BY Zenon, <1>1 DEF AdmitRequest, TypeFrame
<1>2. ASSUME NEW request \in admitted, \/ BeginLocalMutation(t, request)
                                       \/ DenyMutation(t, request)
                                       \/ RefuseMutation(t, request)
      PROVE  TypeFrame
  BY Zenon, <1>2 DEF BeginLocalMutation, MutationCurrent, DenyMutation,
     RefuseMutation, TypeFrame
<1>3. CASE LandMutation(t)
  BY <1>3 DEF LandMutation, IInv, LRTypeOK, ShapeInv, Made, Held, NoRequest,
     CustodyInv
<1>4. ASSUME FinishLocalMutation(t) \/ FinishRetainedUncertain(t) \/ FinishLost(t)
      PROVE  TypeFrame
  BY Zenon, <1>4 DEF FinishLocalMutation, Settle, FinishRetainedUncertain,
     FinishLost, TypeFrame
<1> HIDE SessionsApart, BoundsPositive DEF clockVars, fileVars, rowVars,
   repositoryVars, planVars, restVars, journalVars, settleVars, retirementVars
<1> QED
  BY Zenon, <1>1, <1>2, <1>3, <1>4, TypeFrameKeeps DEF RequestStep

(* The steps of a retirement run keep the types.                           *)
LEMMA TypeRetire ==
    ASSUME IInv, NEW t \in Retirers, RetireStep(t)
    PROVE  LRTypeOK'
<1> USE SessionsApart, BoundsPositive DEF clockVars, fileVars, rowVars,
   repositoryVars, planVars, restVars, journalVars, settleVars, retirementVars
<1>1. CASE Draft(t)
  <2>1. /\ UNCHANGED <<revision, left, lease, custodian, repo, torn, inflight, hold>>
        /\ UNCHANGED <<job, point, lastGood>>
    BY Zenon, <1>1 DEF Draft
  <2>2. PICK old, cut, new : /\ new.targets = Targets(cut)
                             /\ new.survivors = old \ Targets(cut)
                             /\ intent' = [intent EXCEPT ![t] = new]
    BY Zenon, <1>1 DEF Draft
  <2>3. intent'[t] = new /\ \A u \in Retirers : u # t => intent'[u] = intent[u]
    BY Zenon, <2>2 DEF IInv, ShapeInv
  <2>4. new.targets \cap new.survivors = {}
    BY Zenon, <2>2
  <2>5. \A u \in Retirers : intent'[u].targets \cap intent'[u].survivors = {}
    <3> TAKE u \in Retirers
    <3>1. intent[u].targets \cap intent[u].survivors = {}
      BY Zenon DEF IInv, LRTypeOK
    <3>2. CASE u = t
      BY Zenon, <2>3, <2>4, <3>2
    <3>3. CASE u # t
      BY Zenon, <2>3, <3>1, <3>3
    <3> QED
      BY Zenon, <3>2, <3>3
  <2> QED
    BY Zenon, <2>1, <2>5 DEF IInv, LRTypeOK, Made
<1>2. CASE PlanRetirement(t)
  BY <1>2 DEF PlanRetirement, IInv, LRTypeOK, ShapeInv, Made, Held
<1>3. ASSUME StageLocalRetirement(t) \/ ClaimRefused(t) \/ PreCheck(t) \/ PostCheck(t)
      PROVE  TypeFrame
  BY Zenon, <1>3 DEF StageLocalRetirement, ClaimRefused, PreCheck, PostCheck,
     TypeFrame
<1>4. CASE ClaimLocalRetirement(t)
  BY <1>4 DEF ClaimLocalRetirement, StartClock, IInv, LRTypeOK, ShapeInv, Made, Held
<1>5. CASE OpenRetirement(t)
  BY Zenon, <1>5 DEF OpenRetirement, OpenCustody, IInv, LRTypeOK, ShapeInv, Made,
     Held
<1>6. CASE CloseRetirement(t)
  <2>1. left' \in {left, [left EXCEPT ![t] = 0]}
    BY Zenon, <1>6, ClockSet DEF CloseRetirement
  <2> QED
    BY Zenon, <1>6, <2>1, ClockSet, ClockFrameKeeps DEF CloseRetirement, ReleaseFlock,
       ClockFrame
<1>7. CASE CommitLocalRetirementSuccess(t)
  BY Zenon, <1>7, ClockSet, ClockFrameKeeps DEF CommitLocalRetirementSuccess, ClockFrame
<1>8. CASE RetireFails(t)
  BY Zenon, <1>8, ClockSet, ClockFrameKeeps DEF RetireFails, ReleaseFlock, ClockFrame
<1> HIDE SessionsApart, BoundsPositive DEF clockVars, fileVars, rowVars,
   repositoryVars, planVars, restVars, journalVars, settleVars, retirementVars
<1> QED
  BY Zenon, <1>1, <1>2, <1>3, <1>4, <1>5, <1>6, <1>7, <1>8, TypeRequest,
     TypeFrameKeeps DEF RetireStep

(* Time, declarations, lock catalogs and crashes keep the types.           *)
LEMMA TypeEnvironment ==
    ASSUME IInv, Environment
    PROVE  LRTypeOK'
<1> USE SessionsApart, BoundsPositive DEF clockVars, fileVars, rowVars,
   repositoryVars, planVars, restVars, journalVars, settleVars, retirementVars
<1>1. CASE Declare
  BY <1>1 DEF Declare, IInv, LRTypeOK, ShapeInv, Made, Held
<1>2. ASSUME NEW locks \in {c \in Catalogs : c \subseteq Made},
             ActivateLocalRetentionLockCatalog(locks)
      PROVE  TypeFrame
  BY Zenon, <1>2 DEF ActivateLocalRetentionLockCatalog, TypeFrame
<1>3. CASE Tick
  <2>1. \A n \in -1 .. LeaseTime, m \in {-1, 0} : n > m => n - 1 \in -1 .. LeaseTime
    BY BoundsPositive
  <2>2. left' \in [Sessions -> -1 .. LeaseTime]
    <3> SUFFICES ASSUME NEW s \in Sessions
                 PROVE  (IF /\ pc[s] \notin Resting \cup {"started"} \/ (Held(s) /\ s \notin Retirers)
                            /\ left[s] > (IF s \in Writers THEN -1 ELSE 0)
                         THEN left[s] - 1 ELSE left[s]) \in -1 .. LeaseTime
      BY Zenon, <1>3 DEF Tick, Age
    <3> QED
      BY Zenon, <2>1, ClockSet
  <2> QED
    BY Zenon, <1>3, <2>2, ClockSet, ClockFrameKeeps DEF Tick, ClockFrame
<1>4. CASE Crash
  BY <1>4 DEF Crash, IInv, LRTypeOK, ShapeInv, Made, Held
<1>5. CASE CustodianDies
  BY Zenon, <1>5 DEF CustodianDies, StopServer, IInv, LRTypeOK, ShapeInv, Made, Held
<1> HIDE SessionsApart, BoundsPositive DEF clockVars, fileVars, rowVars,
   repositoryVars, planVars, restVars, journalVars, settleVars, retirementVars
<1> QED
  BY Zenon, <1>1, <1>2, <1>3, <1>4, <1>5, TypeFrameKeeps DEF Environment

(* Every step keeps the types.                                             *)
LEMMA TypeStep == ASSUME IInv, Next PROVE LRTypeOK'
BY Zenon, TypeBackup, TypeHandler, TypeVerify, TypeRetire, TypeEnvironment DEF Next

-----------------------------------------------------------------------------
(* Leases, custody and plans.                                              *)

(* No lease is taken, and no run gets further without the lease it had.  A *)
(* writer and a reader look for a retirement's lease before they take      *)
(* theirs, and a claim looks for any lease at all.                         *)
LeaseFrame ==
    /\ \A s \in Sessions : Held(s)' => Held(s)
    /\ \A r \in Readers :
          pc'[r] \in Reading /\ Live(r)' => pc[r] \in Reading /\ Live(r) /\ lease'[r] = lease[r]
    /\ \A t \in Retirers :
          /\ pc'[t] \in Retiring => pc[t] \in Retiring /\ lease'[t] = lease[t]
          /\ pc'[t] \in Unclaimed => pc[t] \in Unclaimed /\ gen'[t].n = gen[t].n
          /\ pc'[t] \in Unclaimed \cup {"leased", "custody"} =>
                pc[t] \in Unclaimed \cup {"leased", "custody"} /\ journal'[t] = journal[t]

(* Such a step keeps the exclusion of leases.                              *)
LEMMA LeaseFrameKeeps == ASSUME IInv, LeaseFrame PROVE LeaseInv'
BY SessionsApart DEF IInv, LeaseInv, LeaseFrame, Held

(* The steps of a backup run keep the exclusion of leases.                 *)
LEMMA LeaseBackup ==
    ASSUME IInv, NEW w \in Writers, BackupStep(w)
    PROVE  LeaseInv'
<1> USE SessionsApart, Domains DEF clockVars, fileVars, rowVars,
   repositoryVars, planVars, restVars, journalVars, settleVars, retirementVars
<1>1. ASSUME \/ Beside(StartBackup(w))
             \/ Beside(WriterRefused(w))
             \/ Beside(OpenSession(w))
      PROVE  LeaseFrame
  BY ZenonT(30), <1>1 DEF Beside, StartBackup, StartRun, WriterRefused, OpenSession,
     OpenCustody, LeaseFrame, Held, Live, Reading, Unclaimed, Retiring
<1>2. CASE Beside(AcquireBackupWriterLease(w))
  BY SMTT(30), <1>2 DEF Beside, AcquireBackupWriterLease, StartClock, WriterConflict,
     IInv, LeaseInv, Held, Live, Lapsed, Expired, Reading, Unclaimed, Retiring
<1>3. ASSUME \/ Beside(OpenRejected(w))
             \/ Beside(AppendPendingRecoveryPoint(w, Era))
             \/ Beside(BackupFails(w))
      PROVE  LeaseFrame
  BY <1>3 DEF Beside, OpenRejected, CustodyRejected,
     AppendPendingRecoveryPoint, BackupFails, LeaseFrame, Held, Live, Reading,
     Unclaimed, Retiring
<1>4. ASSUME NEW o \in Objects, Beside(PutObject(w, o))
      PROVE  LeaseFrame
  BY Zenon, <1>4 DEF Beside, PutObject, LeaseFrame, Held, Live, Reading, Unclaimed,
     Retiring
<1>5. ASSUME Beside(CloseBackup(w)) \/ Beside(FinishBackup(w))
      PROVE  LeaseFrame
  BY <1>5 DEF Beside, CloseBackup, ReleaseFlock, FinishBackup, LeaseFrame,
     Held, Live, Reading, Unclaimed, Retiring
<1> HIDE SessionsApart, Domains DEF clockVars, fileVars, rowVars,
   repositoryVars, planVars, restVars, journalVars, settleVars, retirementVars
<1> QED
  BY Zenon, <1>1, <1>2, <1>3, <1>4, <1>5, LeaseFrameKeeps DEF BackupStep

(* A handler that finishes a PUT keeps the exclusion of leases.            *)
LEMMA LeaseHandler ==
    ASSUME IInv, NEW o \in inflight, HandlerStep(o)
    PROVE  LeaseInv'
<1> USE SessionsApart, Domains DEF clockVars, fileVars, rowVars,
   repositoryVars, planVars, restVars, journalVars, settleVars, retirementVars
<1>1. ASSUME Beside(CompletePut(o)) \/ Beside(AbortPut(o))
      PROVE  LeaseFrame
  BY Zenon, <1>1 DEF Beside, CompletePut, AbortPut, LeaseFrame, Held, Live, Reading,
     Unclaimed, Retiring
<1> HIDE SessionsApart, Domains DEF clockVars, fileVars, rowVars,
   repositoryVars, planVars, restVars, journalVars, settleVars, retirementVars
<1> QED
  BY Zenon, <1>1, LeaseFrameKeeps DEF HandlerStep

(* The steps of a verification run keep the exclusion of leases.           *)
LEMMA LeaseVerify ==
    ASSUME IInv, NEW r \in Readers, VerifyStep(r)
    PROVE  LeaseInv'
<1> USE SessionsApart, Domains DEF clockVars, fileVars, rowVars,
   repositoryVars, planVars, restVars, journalVars, settleVars, retirementVars
<1>1. ASSUME NEW p \in Made, Beside(StartVerify(r, p, SuccessorFor(p)))
      PROVE  LeaseFrame
  BY ZenonT(30), <1>1 DEF Beside, StartVerify, StartRun, LeaseFrame, Held, Live, Reading,
     Unclaimed, Retiring, NoView
<1>2. CASE Beside(AcquireBackupReadLease(r))
  BY SMTT(30), <1>2 DEF Beside, AcquireBackupReadLease, StartClock, ReaderConflict,
     IInv, LeaseInv, Held, Live, Lapsed, Expired, Reading, Unclaimed, Retiring
<1>3. ASSUME \/ Beside(ReaderRefused(r))
             \/ Beside(OpenSession(r))
             \/ Beside(OpenRejected(r))
      PROVE  LeaseFrame
  BY ZenonT(30), <1>3 DEF Beside, ReaderRefused, OpenSession, OpenCustody, OpenRejected,
     CustodyRejected, LeaseFrame, Held, Live, Reading, Unclaimed, Retiring
<1>4. ASSUME \/ Beside(InspectPoint(r, EffectiveObjects(view[r].point, view[r].gen)))
             \/ Beside(AppendLocalVerification(r))
             \/ Beside(CurrentLocalLastGood(r))
      PROVE  LeaseFrame
  BY SMTT(30), <1>4 DEF Beside, InspectPoint, AppendLocalVerification,
     CurrentLocalLastGood, LeaseFrame, Held, Live, Reading, Unclaimed,
     Retiring
<1>5. ASSUME \/ Beside(AdvanceLocalLastGood(r))
             \/ Beside(VerifyFails(r))
             \/ Beside(CloseVerify(r))
      PROVE  LeaseFrame
  BY <1>5 DEF Beside, AdvanceLocalLastGood, VerifyFails, CloseVerify,
     ReleaseFlock, LeaseFrame, Held, Live, Reading, Unclaimed, Retiring
<1>6. ASSUME Beside(ReleaseBackupReadLease(r))
      PROVE  LeaseFrame
  BY Zenon, <1>6 DEF Beside, ReleaseBackupReadLease, LeaseFrame, Held, Live, Reading,
     Unclaimed, Retiring
<1> HIDE SessionsApart, Domains DEF clockVars, fileVars, rowVars,
   repositoryVars, planVars, restVars, journalVars, settleVars, retirementVars
<1> QED
  BY Zenon, <1>1, <1>2, <1>3, <1>4, <1>5, <1>6, LeaseFrameKeeps DEF VerifyStep

(* The requests restic sends to the REST server keep the exclusion of      *)
(* leases.                                                                 *)
LEMMA LeaseRequest ==
    ASSUME IInv, NEW t \in Retirers, RequestStep(t)
    PROVE  LeaseInv'
<1> USE SessionsApart, Domains DEF clockVars, fileVars, rowVars,
   repositoryVars, planVars, restVars, journalVars, settleVars, retirementVars
<1>1. ASSUME NEW kind \in Kinds, NEW o \in Objects, AdmitRequest(t, kind, o)
      PROVE  LeaseFrame
  BY Zenon, <1>1 DEF AdmitRequest, LeaseFrame, Held, Live, Reading, Unclaimed,
     Retiring
<1>2. ASSUME NEW request \in admitted, \/ BeginLocalMutation(t, request)
                                       \/ DenyMutation(t, request)
                                       \/ RefuseMutation(t, request)
      PROVE  LeaseFrame
  BY Zenon, <1>2 DEF BeginLocalMutation, MutationCurrent, DenyMutation,
     RefuseMutation, LeaseFrame, Held, Live, Reading, Unclaimed, Retiring
<1>3. ASSUME LandMutation(t) \/ FinishLocalMutation(t) \/ FinishRetainedUncertain(t)
      PROVE  LeaseFrame
  BY ZenonT(30), <1>3 DEF LandMutation, FinishLocalMutation, Settle,
     FinishRetainedUncertain, LeaseFrame, Held, Live, Reading, Unclaimed,
     Retiring
<1>4. ASSUME FinishLost(t)
      PROVE  LeaseFrame
  BY Zenon, <1>4 DEF FinishLost, LeaseFrame, Held, Live, Reading, Unclaimed, Retiring
<1> HIDE SessionsApart, Domains DEF clockVars, fileVars, rowVars,
   repositoryVars, planVars, restVars, journalVars, settleVars, retirementVars
<1> QED
  BY Zenon, <1>1, <1>2, <1>3, <1>4, LeaseFrameKeeps DEF RequestStep

(* The steps of a retirement run keep the exclusion of leases.             *)
LEMMA LeaseRetire ==
    ASSUME IInv, NEW t \in Retirers, RetireStep(t)
    PROVE  LeaseInv'
<1> USE SessionsApart, Domains DEF clockVars, fileVars, rowVars,
   repositoryVars, planVars, restVars, journalVars, settleVars, retirementVars
<1>1. ASSUME Draft(t) \/ PlanRetirement(t) \/ StageLocalRetirement(t)
      PROVE  LeaseFrame
  BY <1>1 DEF Draft, PlanRetirement, StageLocalRetirement, LeaseFrame, Held,
     Live, Reading, Unclaimed, Retiring
<1>2. CASE ClaimLocalRetirement(t)
  BY Zenon, <1>2 DEF ClaimLocalRetirement, StartClock, ClaimAdmits, Competing, IInv,
     LeaseInv, Held, Live, Lapsed, Expired, Reading, Unclaimed, Retiring
<1>3. ASSUME ClaimRefused(t) \/ OpenRetirement(t) \/ PreCheck(t)
      PROVE  LeaseFrame
  BY ZenonT(30), <1>3 DEF ClaimRefused, OpenRetirement, OpenCustody, PreCheck, LeaseFrame,
     Held, Live, Reading, Unclaimed, Retiring
<1>4. ASSUME PostCheck(t) \/ CloseRetirement(t) \/ CommitLocalRetirementSuccess(t)
      PROVE  LeaseFrame
  BY <1>4 DEF PostCheck, CloseRetirement, ReleaseFlock, StopServer,
     CommitLocalRetirementSuccess, LeaseFrame, Held, Live, Reading, Unclaimed,
     Retiring
<1>5. ASSUME RetireFails(t)
      PROVE  LeaseFrame
  BY Zenon, <1>5 DEF RetireFails, ReleaseFlock, StopServer, LeaseFrame, Held, Live,
     Reading, Unclaimed, Retiring
<1> HIDE SessionsApart, Domains DEF clockVars, fileVars, rowVars,
   repositoryVars, planVars, restVars, journalVars, settleVars, retirementVars
<1> QED
  BY Zenon, <1>1, <1>2, <1>3, <1>4, <1>5, LeaseRequest, LeaseFrameKeeps DEF
     RetireStep

(* Time, declarations, lock catalogs and crashes keep the exclusion of     *)
(* leases.                                                                 *)
LEMMA LeaseEnvironment ==
    ASSUME IInv, Environment
    PROVE  LeaseInv'
<1> USE SessionsApart, Domains DEF clockVars, fileVars, rowVars,
   repositoryVars, planVars, restVars, journalVars, settleVars, retirementVars
<1>1. ASSUME Declare \/ Tick \/ CustodianDies
      PROVE  LeaseFrame
  BY Zenon, <1>1 DEF Declare, Tick, Age, CustodianDies, StopServer, LeaseFrame, Held,
     Live, Reading, Unclaimed, Retiring
<1>2. ASSUME NEW locks \in {c \in Catalogs : c \subseteq Made},
             ActivateLocalRetentionLockCatalog(locks)
      PROVE  LeaseFrame
  BY Zenon, <1>2 DEF ActivateLocalRetentionLockCatalog, LeaseFrame, Held, Live,
     Reading, Unclaimed, Retiring
<1>3. ASSUME Crash
      PROVE  LeaseFrame
  BY Zenon, <1>3 DEF Crash, LeaseFrame, Held, Live, Reading, Unclaimed, Retiring,
     Running, Resting
<1> HIDE SessionsApart, Domains DEF clockVars, fileVars, rowVars,
   repositoryVars, planVars, restVars, journalVars, settleVars, retirementVars
<1> QED
  BY Zenon, <1>1, <1>2, <1>3, LeaseFrameKeeps DEF Environment

(* Every step keeps the exclusion of leases.                               *)
LEMMA LeaseStep == ASSUME IInv, Next PROVE LeaseInv'
BY Zenon, LeaseBackup, LeaseHandler, LeaseVerify, LeaseRetire, LeaseEnvironment DEF
   Next

(* The child and what it serves stay as they are, and so does the lease of *)
(* the retirement whose child it is.  A child that came up before the      *)
(* claim of a retirement can keep the retirement's own child out; it       *)
(* cannot come up after it.                                                *)
CustodyFrame ==
    /\ UNCHANGED <<custodian, inflight, admitted, serving, poisoned, journal>>
    /\ \A t \in Retirers :
          /\ Held(t)' /\ (pc'[t] \in Retiring \ {"leased"} \/ journal[t] # {}) =>
                Held(t) /\ (pc[t] \in Retiring \ {"leased"} \/ journal[t] # {})
          /\ custodian = t /\ Held(t) /\ pc[t] \in {"custody", "mutating", "proved", "dead"} =>
                Held(t)' /\ pc'[t] \in {"custody", "mutating", "proved", "dead"}

(* Such a step keeps the exclusion of custody children.                    *)
LEMMA CustodyFrameKeeps == ASSUME IInv, CustodyFrame PROVE CustodyInv'
BY Zenon DEF IInv, CustodyInv, CustodyFrame

(* Taking such a lease is such a step.                                     *)
LEMMA CustodyLeaseTaken == ASSUME NEW s, LeaseTaken(s) PROVE CustodyFrame
BY Zenon DEF LeaseTaken, CustodyFrame, Held

(* The child is gone, and with it what it served.                          *)
NoCustody == custodian' = None /\ inflight' = {} /\ StopServer

(* Without a child nothing about custody can be wrong.                     *)
LEMMA NoCustodyKeeps == ASSUME NoCustody PROVE CustodyInv'
BY Zenon, SessionsApart DEF NoCustody, StopServer, CustodyInv, NoRequest

(* The REST server is that of a retirement's child.                        *)
LEMMA ServerIdle ==
    ASSUME IInv, custodian \notin Retirers
    PROVE  serving = NoRequest /\ admitted = {} /\ poisoned = FALSE
BY Zenon DEF IInv, CustodyInv, ShapeInv

(* The steps of a backup run keep the exclusion of custody children.       *)
LEMMA CustodyBackup ==
    ASSUME IInv, NEW w \in Writers, BackupStep(w)
    PROVE  CustodyInv'
<1> USE SessionsApart, Domains DEF clockVars, fileVars, rowVars,
   repositoryVars, planVars, restVars, journalVars, settleVars, retirementVars
<1>1. ASSUME \/ Beside(StartBackup(w))
             \/ Beside(AcquireBackupWriterLease(w))
             \/ Beside(WriterRefused(w))
      PROVE  CustodyFrame
  <2>1. CASE Beside(AcquireBackupWriterLease(w))
    BY Zenon, <2>1, WriterLeaseTaken, CustodyLeaseTaken
  <2>2. CASE Beside(StartBackup(w)) \/ Beside(WriterRefused(w))
    BY ZenonT(30), <2>2 DEF Beside, StartBackup, StartRun, WriterRefused, CustodyFrame, Held,
       Retiring
  <2> QED BY Zenon, <1>1, <2>1, <2>2
<1>2. CASE Beside(OpenSession(w))
  <2>1. /\ custodian = None /\ custodian' = w /\ Held(w)
        /\ UNCHANGED <<lease, inflight, serving, admitted, poisoned, journal>>
        /\ pc'[w] = "custody"
    BY Zenon, <1>2 DEF Beside, OpenSession, OpenCustody
  <2>2. inflight = {} /\ serving = NoRequest /\ admitted = {} /\ poisoned = FALSE
    BY Zenon, <2>1, Alone, ServerIdle
  <2>3. \A u \in Retirers : Held(u) => u = w
    BY Zenon, <2>1 DEF IInv, LeaseInv
  <2> QED
    BY Zenon, <2>1, <2>2, <2>3 DEF CustodyInv, Held, NoRequest
<1>3. ASSUME \/ Beside(OpenRejected(w))
             \/ Beside(AppendPendingRecoveryPoint(w, Era))
             \/ Beside(BackupFails(w))
      PROVE  CustodyFrame
  BY ZenonT(30), <1>3 DEF Beside, OpenRejected, CustodyRejected,
     AppendPendingRecoveryPoint, BackupFails, CustodyFrame, Held, Retiring
<1>4. ASSUME NEW o \in Objects, Beside(PutObject(w, o))
      PROVE  CustodyInv'
  BY Zenon, <1>4 DEF Beside, PutObject, IInv, CustodyInv, Held, NoRequest
<1>5. CASE Beside(CloseBackup(w))
  <2>1. CASE custodian = w
    <3>1. NoCustody
      BY Zenon, <1>5, <2>1, ServerIdle DEF Beside, CloseBackup, ReleaseFlock, NoCustody, StopServer
    <3> QED
      BY Zenon, <3>1, NoCustodyKeeps
  <2>2. CASE custodian # w
    <3>1. CustodyFrame
      BY ZenonT(30), <1>5, <2>2 DEF Beside, CloseBackup, ReleaseFlock, CustodyFrame, Held
    <3> QED
      BY Zenon, <3>1, CustodyFrameKeeps
  <2> QED
    BY Zenon, <2>1, <2>2
<1>6. ASSUME Beside(FinishBackup(w))
      PROVE  CustodyFrame
  BY Zenon, <1>6 DEF Beside, FinishBackup, CustodyFrame, Held, Retiring
<1> HIDE SessionsApart, Domains DEF clockVars, fileVars, rowVars,
   repositoryVars, planVars, restVars, journalVars, settleVars, retirementVars
<1> QED
  BY Zenon, <1>1, <1>2, <1>3, <1>4, <1>5, <1>6, CustodyFrameKeeps DEF BackupStep

(* A handler that finishes a PUT keeps the exclusion of custody children.  *)
LEMMA CustodyHandler ==
    ASSUME IInv, NEW o \in inflight, HandlerStep(o)
    PROVE  CustodyInv'
<1> USE SessionsApart, Domains DEF clockVars, fileVars, rowVars,
   repositoryVars, planVars, restVars, journalVars, settleVars, retirementVars
<1>1. CASE Beside(CompletePut(o))
  BY Zenon, <1>1 DEF Beside, CompletePut, IInv, CustodyInv, Held, NoRequest
<1>2. CASE Beside(AbortPut(o))
  BY Zenon, <1>2 DEF Beside, AbortPut, IInv, CustodyInv, Held, NoRequest
<1> HIDE SessionsApart, Domains DEF clockVars, fileVars, rowVars,
   repositoryVars, planVars, restVars, journalVars, settleVars, retirementVars
<1> QED
  BY Zenon, <1>1, <1>2 DEF HandlerStep

(* The steps of a verification run keep the exclusion of custody children. *)
LEMMA CustodyVerify ==
    ASSUME IInv, NEW r \in Readers, VerifyStep(r)
    PROVE  CustodyInv'
<1> USE SessionsApart, Domains DEF clockVars, fileVars, rowVars,
   repositoryVars, planVars, restVars, journalVars, settleVars, retirementVars
<1>1. ASSUME NEW p \in Made, Beside(StartVerify(r, p, SuccessorFor(p)))
      PROVE  CustodyFrame
  BY Zenon, <1>1 DEF Beside, StartVerify, StartRun, CustodyFrame, Held, Retiring
<1>2. ASSUME \/ Beside(AcquireBackupReadLease(r))
             \/ Beside(ReaderRefused(r))
             \/ Beside(OpenRejected(r))
      PROVE  CustodyFrame
  <2>1. CASE Beside(AcquireBackupReadLease(r))
    BY Zenon, <2>1, ReadLeaseTaken, CustodyLeaseTaken
  <2>2. CASE Beside(ReaderRefused(r)) \/ Beside(OpenRejected(r))
    BY ZenonT(30), <2>2 DEF Beside, ReaderRefused, OpenRejected, CustodyRejected, CustodyFrame,
       Held, Retiring
  <2> QED BY Zenon, <1>2, <2>1, <2>2
<1>3. CASE Beside(OpenSession(r))
  <2>1. /\ custodian = None /\ custodian' = r /\ Held(r)
        /\ UNCHANGED <<lease, inflight, serving, admitted, poisoned, journal>>
        /\ pc'[r] = "custody"
    BY Zenon, <1>3 DEF Beside, OpenSession, OpenCustody
  <2>2. inflight = {} /\ serving = NoRequest /\ admitted = {} /\ poisoned = FALSE
    BY Zenon, <2>1, Alone, ServerIdle
  <2>3. \A u \in Retirers : Held(u) => u = r
    BY Zenon, <2>1 DEF IInv, LeaseInv
  <2> QED
    BY Zenon, <2>1, <2>2, <2>3 DEF CustodyInv, Held, NoRequest
<1>4. ASSUME \/ Beside(InspectPoint(r, EffectiveObjects(view[r].point, view[r].gen)))
             \/ Beside(AppendLocalVerification(r))
             \/ Beside(CurrentLocalLastGood(r))
      PROVE  CustodyFrame
  BY ZenonT(30), <1>4 DEF Beside, InspectPoint, AppendLocalVerification,
     CurrentLocalLastGood, CustodyFrame, Held, Retiring
<1>5. ASSUME \/ Beside(AdvanceLocalLastGood(r))
             \/ Beside(VerifyFails(r))
             \/ Beside(ReleaseBackupReadLease(r))
      PROVE  CustodyFrame
  BY <1>5 DEF Beside, AdvanceLocalLastGood, VerifyFails,
     ReleaseBackupReadLease, CustodyFrame, Held, Retiring
<1>6. CASE Beside(CloseVerify(r))
  <2>1. CASE custodian = r
    <3>1. NoCustody
      BY Zenon, <1>6, <2>1, ServerIdle DEF Beside, CloseVerify, ReleaseFlock, NoCustody, StopServer
    <3> QED
      BY Zenon, <3>1, NoCustodyKeeps
  <2>2. CASE custodian # r
    <3>1. CustodyFrame
      BY ZenonT(30), <1>6, <2>2 DEF Beside, CloseVerify, ReleaseFlock, CustodyFrame, Held
    <3> QED
      BY Zenon, <3>1, CustodyFrameKeeps
  <2> QED
    BY Zenon, <2>1, <2>2
<1> HIDE SessionsApart, Domains DEF clockVars, fileVars, rowVars,
   repositoryVars, planVars, restVars, journalVars, settleVars, retirementVars
<1> QED
  BY Zenon, <1>1, <1>2, <1>3, <1>4, <1>5, <1>6, CustodyFrameKeeps DEF VerifyStep

(* The requests restic sends to the REST server keep the exclusion of      *)
(* custody children.                                                       *)
LEMMA CustodyRequest ==
    ASSUME IInv, NEW t \in Retirers, RequestStep(t)
    PROVE  CustodyInv'
<1> USE SessionsApart, Domains DEF clockVars, fileVars, rowVars,
   repositoryVars, planVars, restVars, journalVars, settleVars, retirementVars
<1>1. ASSUME NEW kind \in Kinds, NEW o \in Objects, AdmitRequest(t, kind, o)
      PROVE  CustodyInv'
  BY Zenon, <1>1 DEF AdmitRequest, IInv, CustodyInv, Held, NoRequest
<1>2. ASSUME NEW request \in admitted, BeginLocalMutation(t, request)
      PROVE  CustodyInv'
  <2> DEFINE row == [kind |-> request.kind, object |-> request.object, out |-> "open"]
  <2>1. /\ row \in journal'[t] /\ custodian = t /\ Held(t) /\ pc[t] = "mutating"
        /\ \A u \in Retirers : u # t => journal'[u] = journal[u]
        /\ serving'.kind = request.kind /\ serving'.object = request.object
        /\ UNCHANGED <<custodian, inflight, lease, pc, poisoned>>
        /\ request.object.type = "snapshots" => request.kind = "delete"
    BY Zenon, <1>2 DEF BeginLocalMutation, MutationCurrent, MutationAllowed
  <2>2. request.kind = "put" => request.object.type = "data"
    <3>1. request.object \in Objects
      BY Zenon DEF IInv, ShapeInv
    <3> QED
      BY Zenon, <2>1, <3>1, ObjectKinds
  <2>3. inflight = {}
    BY Zenon, <2>1, Alone
  <2>4. \A u \in Retirers : custodian' = u => \E new \in journal'[u] : new.object = serving'.object
    BY <2>1
  <2> QED
    BY ZenonT(30), <2>1, <2>2, <2>3, <2>4 DEF IInv, CustodyInv, Held
<1>3. ASSUME NEW request \in admitted, DenyMutation(t, request)
      PROVE  CustodyInv'
  BY Zenon, <1>3 DEF DenyMutation, MutationCurrent, IInv, CustodyInv, Held, NoRequest
<1>4. ASSUME NEW request \in admitted, RefuseMutation(t, request)
      PROVE  CustodyInv'
  BY ZenonT(30), <1>4 DEF RefuseMutation, MutationCurrent, IInv, CustodyInv, Held,
     NoRequest
<1>5. CASE LandMutation(t)
  BY <1>5 DEF LandMutation, IInv, CustodyInv, Held, NoRequest
<1>6. CASE FinishLocalMutation(t)
  <2> DEFINE out == IF serving.kind = "put" THEN "created" ELSE "quarantined"
  <2>1. /\ UNCHANGED <<pc, lease, custodian, inflight, admitted, poisoned>>
        /\ custodian = t /\ pc[t] = "mutating" /\ serving' = NoRequest /\ Settle(t, out)
    BY Zenon, <1>6 DEF FinishLocalMutation
  <2>2. \A u \in Retirers : u # t => journal'[u] = journal[u]
    BY Zenon, <2>1 DEF Settle
  <2> HIDE DEF out
  <2> QED
    BY Zenon, <2>1, <2>2 DEF IInv, CustodyInv, Held, NoRequest, Retiring
<1>7. CASE FinishRetainedUncertain(t)
  <2> DEFINE out == "uncertain"
  <2>1. /\ UNCHANGED <<pc, lease, custodian, inflight, admitted, poisoned>>
        /\ custodian = t /\ pc[t] = "mutating" /\ serving' = NoRequest /\ Settle(t, out)
    BY Zenon, <1>7 DEF FinishRetainedUncertain
  <2>2. \A u \in Retirers : u # t => journal'[u] = journal[u]
    BY Zenon, <2>1 DEF Settle
  <2> HIDE DEF out
  <2> QED
    BY Zenon, <2>1, <2>2 DEF IInv, CustodyInv, Held, NoRequest, Retiring
<1>8. CASE FinishLost(t)
  BY Zenon, <1>8 DEF FinishLost, IInv, CustodyInv, Held, NoRequest
<1> HIDE SessionsApart, Domains DEF clockVars, fileVars, rowVars,
   repositoryVars, planVars, restVars, journalVars, settleVars, retirementVars
<1> QED
  BY Zenon, <1>1, <1>2, <1>3, <1>4, <1>5, <1>6, <1>7, <1>8 DEF RequestStep

(* The steps of a retirement run keep the exclusion of custody children.   *)
LEMMA CustodyRetire ==
    ASSUME IInv, NEW t \in Retirers, RetireStep(t)
    PROVE  CustodyInv'
<1> USE SessionsApart, Domains DEF clockVars, fileVars, rowVars,
   repositoryVars, planVars, restVars, journalVars, settleVars, retirementVars
<1>1. ASSUME Draft(t) \/ PlanRetirement(t) \/ StageLocalRetirement(t)
      PROVE  CustodyFrame
  BY <1>1 DEF Draft, PlanRetirement, StageLocalRetirement, CustodyFrame, Held,
     Retiring
<1>2. ASSUME ClaimLocalRetirement(t)
      PROVE  CustodyFrame
  BY Zenon, <1>2, Alone DEF ClaimLocalRetirement, StartClock, CustodyFrame, Held,
     Retiring, Unclaimed
<1>3. ASSUME ClaimRefused(t) \/ PreCheck(t) \/ PostCheck(t)
      PROVE  CustodyFrame
  BY ZenonT(30), <1>3 DEF ClaimRefused, PreCheck, PostCheck, CustodyFrame, Held, Retiring
<1>4. CASE OpenRetirement(t)
  <2>1. /\ custodian = None /\ custodian' = t /\ Held(t)
        /\ UNCHANGED <<lease, inflight, serving, admitted, poisoned, journal>>
        /\ pc'[t] = "custody"
    BY Zenon, <1>4 DEF OpenRetirement, OpenCustody
  <2>2. inflight = {} /\ serving = NoRequest /\ admitted = {} /\ poisoned = FALSE
    BY Zenon, <2>1, Alone, ServerIdle
  <2>3. \A u \in Retirers : Held(u) => u = t
    BY Zenon, <2>1 DEF IInv, LeaseInv
  <2> QED
    BY Zenon, <2>1, <2>2, <2>3 DEF CustodyInv, Held, NoRequest
<1>5. CASE CloseRetirement(t)
  <2>1. custodian \in {t, None} /\ (custodian = None => inflight = {})
    BY Zenon, <1>5, Alone DEF CloseRetirement
  <2>2. NoCustody
    BY Zenon, <1>5, <2>1 DEF CloseRetirement, ReleaseFlock, NoCustody
  <2> QED
    BY Zenon, <2>2, NoCustodyKeeps
<1>6. ASSUME CommitLocalRetirementSuccess(t)
      PROVE  CustodyFrame
  BY Zenon, <1>6 DEF CommitLocalRetirementSuccess, CustodyFrame, Held, Retiring
<1>7. CASE RetireFails(t)
  <2>1. CASE custodian = t
    <3>1. NoCustody
      BY Zenon, <1>7, <2>1 DEF RetireFails, ReleaseFlock, NoCustody
    <3> QED
      BY <3>1, NoCustodyKeeps
  <2>2. CASE custodian # t
    <3>1. CustodyFrame
      BY Zenon, <1>7, <2>2 DEF RetireFails, ReleaseFlock, CustodyFrame, Held, Retiring
    <3> QED
      BY Zenon, <3>1, CustodyFrameKeeps
  <2> QED
    BY Zenon, <2>1, <2>2
<1> HIDE SessionsApart, Domains DEF clockVars, fileVars, rowVars,
   repositoryVars, planVars, restVars, journalVars, settleVars, retirementVars
<1> QED
  BY ZenonT(30), <1>1, <1>2, <1>3, <1>4, <1>5, <1>6, <1>7, CustodyRequest,
     CustodyFrameKeeps DEF RetireStep

(* Time, declarations, lock catalogs and crashes keep the exclusion of     *)
(* custody children.                                                       *)
LEMMA CustodyEnvironment ==
    ASSUME IInv, Environment
    PROVE  CustodyInv'
<1> USE SessionsApart, Domains DEF clockVars, fileVars, rowVars,
   repositoryVars, planVars, restVars, journalVars, settleVars, retirementVars
<1>1. ASSUME Declare \/ Tick
      PROVE  CustodyFrame
  BY Zenon, <1>1 DEF Declare, Tick, Age, CustodyFrame, Held, Retiring
<1>2. ASSUME NEW locks \in {c \in Catalogs : c \subseteq Made},
             ActivateLocalRetentionLockCatalog(locks)
      PROVE  CustodyFrame
  BY Zenon, <1>2 DEF ActivateLocalRetentionLockCatalog, CustodyFrame, Held, Retiring
<1>3. ASSUME Crash
      PROVE  CustodyFrame
  BY Zenon, <1>3 DEF Crash, CustodyFrame, Held, Retiring, Running, Resting
<1>4. CASE CustodianDies
  <2>1. NoCustody
    BY Zenon, <1>4 DEF CustodianDies, NoCustody
  <2> QED
    BY Zenon, <2>1, NoCustodyKeeps
<1> HIDE SessionsApart, Domains DEF clockVars, fileVars, rowVars,
   repositoryVars, planVars, restVars, journalVars, settleVars, retirementVars
<1> QED
  BY Zenon, <1>1, <1>2, <1>3, <1>4, CustodyFrameKeeps DEF Environment

(* Every step keeps the exclusion of custody children.                     *)
LEMMA CustodyStep == ASSUME IInv, Next PROVE CustodyInv'
BY CustodyBackup, CustodyHandler, CustodyVerify, CustodyRetire,
   CustodyEnvironment DEF Next

(* No selection is made or claimed, and what selections are about stays.   *)
(* A retirement claims the repository only while the last-good point is a  *)
(* survivor, and then nobody is left to move it; lock catalogs are         *)
(* activated only while no retirement is under way.                        *)
PlanFrame ==
    /\ UNCHANGED <<point, lastGood, catalog>>
    /\ \A t \in Retirers :
          /\ intent'[t].targets = intent[t].targets /\ intent'[t].survivors = intent[t].survivors
          /\ Held(t)' => Held(t)
          /\ pc'[t] \in Retiring => pc[t] \in Retiring

(* Such a step keeps what a retirement has selected.                       *)
LEMMA PlanFrameKeeps == ASSUME IInv, PlanFrame PROVE PlanInv'
BY Zenon DEF IInv, PlanInv, PlanFrame, Made

(* Taking such a lease is such a step.                                     *)
LEMMA PlanLeaseTaken == ASSUME NEW s, LeaseTaken(s) PROVE PlanFrame
BY Zenon DEF LeaseTaken, PlanFrame, Held

(* The steps of a backup run keep what a retirement has selected.          *)
LEMMA PlanBackup ==
    ASSUME IInv, NEW w \in Writers, BackupStep(w)
    PROVE  PlanInv'
<1> USE SessionsApart, Domains DEF clockVars, fileVars, rowVars,
   repositoryVars, planVars, restVars, journalVars, settleVars, retirementVars
<1>1. ASSUME \/ Beside(StartBackup(w))
             \/ Beside(AcquireBackupWriterLease(w))
             \/ Beside(WriterRefused(w))
      PROVE  PlanFrame
  <2>1. CASE Beside(AcquireBackupWriterLease(w))
    BY Zenon, <2>1, WriterLeaseTaken, PlanLeaseTaken
  <2>2. CASE Beside(StartBackup(w)) \/ Beside(WriterRefused(w))
    BY ZenonT(30), <2>2 DEF Beside, StartBackup, StartRun, WriterRefused, PlanFrame, Held,
       Retiring
  <2> QED BY Zenon, <1>1, <2>1, <2>2
<1>2. ASSUME Beside(OpenSession(w)) \/ Beside(OpenRejected(w)) \/ Beside(BackupFails(w))
      PROVE  PlanFrame
  BY Zenon, <1>2 DEF Beside, OpenSession, OpenCustody, OpenRejected, CustodyRejected,
     BackupFails, PlanFrame, Held, Retiring
<1>3. ASSUME NEW o \in Objects, Beside(PutObject(w, o))
      PROVE  PlanFrame
  BY Zenon, <1>3 DEF Beside, PutObject, PlanFrame, Held, Retiring
<1>4. CASE Beside(AppendPendingRecoveryPoint(w, Era))
  <2>1. /\ UNCHANGED <<lastGood, catalog, intent>> /\ pc[w] = "custody"
        /\ \A t \in Retirers : pc'[t] = pc[t] /\ lease'[t] = lease[t]
        /\ \A p \in Points : p # w => point'[p] = point[p]
    BY Zenon, <1>4 DEF Beside, AppendPendingRecoveryPoint
  <2>2. w \notin Made
    BY Zenon, <2>1 DEF IInv, PointInv
  <2>3. Made \subseteq Made'
    BY Zenon, <2>1, <2>2 DEF Made
  <2>4. \A t \in Retirers : Held(t)' <=> Held(t)
    BY Zenon, <2>1 DEF Held
  <2> QED
    BY Zenon, <2>1, <2>3, <2>4 DEF IInv, PlanInv
<1>5. ASSUME Beside(CloseBackup(w)) \/ Beside(FinishBackup(w))
      PROVE  PlanFrame
  BY <1>5 DEF Beside, CloseBackup, ReleaseFlock, FinishBackup, PlanFrame,
     Held, Retiring
<1> HIDE SessionsApart, Domains DEF clockVars, fileVars, rowVars,
   repositoryVars, planVars, restVars, journalVars, settleVars, retirementVars
<1> QED
  BY Zenon, <1>1, <1>2, <1>3, <1>4, <1>5, PlanFrameKeeps DEF BackupStep

(* A handler that finishes a PUT keeps what a retirement has selected.     *)
LEMMA PlanHandler ==
    ASSUME IInv, NEW o \in inflight, HandlerStep(o)
    PROVE  PlanInv'
<1> USE SessionsApart, Domains DEF clockVars, fileVars, rowVars,
   repositoryVars, planVars, restVars, journalVars, settleVars, retirementVars
<1>1. ASSUME Beside(CompletePut(o)) \/ Beside(AbortPut(o))
      PROVE  PlanFrame
  BY Zenon, <1>1 DEF Beside, CompletePut, AbortPut, PlanFrame, Held, Retiring
<1> HIDE SessionsApart, Domains DEF clockVars, fileVars, rowVars,
   repositoryVars, planVars, restVars, journalVars, settleVars, retirementVars
<1> QED
  BY <1>1, PlanFrameKeeps DEF HandlerStep

(* The steps of a verification run keep what a retirement has selected.    *)
LEMMA PlanVerify ==
    ASSUME IInv, NEW r \in Readers, VerifyStep(r)
    PROVE  PlanInv'
<1> USE SessionsApart, Domains DEF clockVars, fileVars, rowVars,
   repositoryVars, planVars, restVars, journalVars, settleVars, retirementVars
<1>1. ASSUME NEW p \in Made, Beside(StartVerify(r, p, SuccessorFor(p)))
      PROVE  PlanFrame
  BY Zenon, <1>1 DEF Beside, StartVerify, StartRun, PlanFrame, Held, Retiring
<1>2. ASSUME \/ Beside(AcquireBackupReadLease(r))
             \/ Beside(ReaderRefused(r))
             \/ Beside(OpenSession(r))
      PROVE  PlanFrame
  <2>1. CASE Beside(AcquireBackupReadLease(r))
    BY Zenon, <2>1, ReadLeaseTaken, PlanLeaseTaken
  <2>2. CASE Beside(ReaderRefused(r)) \/ Beside(OpenSession(r))
    BY Zenon, <2>2 DEF Beside, ReaderRefused, OpenSession, OpenCustody, PlanFrame, Held,
       Retiring
  <2> QED BY Zenon, <1>2, <2>1, <2>2
<1>3. ASSUME \/ Beside(OpenRejected(r))
             \/ Beside(InspectPoint(r, EffectiveObjects(view[r].point, view[r].gen)))
             \/ Beside(AppendLocalVerification(r))
      PROVE  PlanFrame
  BY ZenonT(30), <1>3 DEF Beside, OpenRejected, CustodyRejected, InspectPoint,
     AppendLocalVerification, PlanFrame, Held, Retiring
<1>4. ASSUME \/ Beside(CurrentLocalLastGood(r))
             \/ Beside(VerifyFails(r))
             \/ Beside(CloseVerify(r))
      PROVE  PlanFrame
  BY ZenonT(30), <1>4 DEF Beside, CurrentLocalLastGood, VerifyFails, CloseVerify,
     ReleaseFlock, PlanFrame, Held, Retiring
<1>5. CASE Beside(AdvanceLocalLastGood(r))
  <2>1. /\ pc[r] = "advancing" /\ Live(r) /\ pc' = [pc EXCEPT ![r] = "closing"]
        /\ UNCHANGED <<lease, point, catalog, intent>>
    BY Zenon, <1>5 DEF Beside, AdvanceLocalLastGood
  <2>2. Held(r)
    BY Zenon, <2>1 DEF IInv, LeaseInv, Reading
  <2>3. \A t \in Retirers : t # r /\ t \in Sessions /\ r \in Sessions
    BY Zenon DEF Sessions
  <2>4. \A t \in Retirers : ~Held(t)
    BY Zenon, <2>2, <2>3 DEF IInv, LeaseInv
  <2>5. \A t \in Retirers : ~Held(t)' /\ pc[t] \notin Retiring
    BY Zenon, <2>1, <2>4 DEF IInv, LeaseInv, Held
  <2>6. \A t \in Retirers : pc'[t] = pc[t]
    BY Zenon, <2>1, <2>3 DEF IInv, ShapeInv
  <2> QED
    BY Zenon, <2>1, <2>5, <2>6 DEF IInv, PlanInv, Made
<1>6. ASSUME Beside(ReleaseBackupReadLease(r))
      PROVE  PlanFrame
  BY Zenon, <1>6 DEF Beside, ReleaseBackupReadLease, PlanFrame, Held, Retiring
<1> HIDE SessionsApart, Domains DEF clockVars, fileVars, rowVars,
   repositoryVars, planVars, restVars, journalVars, settleVars, retirementVars
<1> QED
  BY Zenon, <1>1, <1>2, <1>3, <1>4, <1>5, <1>6, PlanFrameKeeps DEF VerifyStep

(* The requests restic sends to the REST server keep what a retirement has *)
(* selected.                                                               *)
LEMMA PlanRequest ==
    ASSUME IInv, NEW t \in Retirers, RequestStep(t)
    PROVE  PlanInv'
<1> USE SessionsApart, Domains DEF clockVars, fileVars, rowVars,
   repositoryVars, planVars, restVars, journalVars, settleVars, retirementVars
<1>1. ASSUME NEW kind \in Kinds, NEW o \in Objects, AdmitRequest(t, kind, o)
      PROVE  PlanFrame
  BY Zenon, <1>1 DEF AdmitRequest, PlanFrame, Held, Retiring
<1>2. ASSUME NEW request \in admitted, \/ BeginLocalMutation(t, request)
                                       \/ DenyMutation(t, request)
                                       \/ RefuseMutation(t, request)
      PROVE  PlanFrame
  BY Zenon, <1>2 DEF BeginLocalMutation, MutationCurrent, DenyMutation,
     RefuseMutation, PlanFrame, Held, Retiring
<1>3. ASSUME LandMutation(t) \/ FinishLocalMutation(t) \/ FinishRetainedUncertain(t)
      PROVE  PlanFrame
  BY Zenon, <1>3 DEF LandMutation, FinishLocalMutation, Settle,
     FinishRetainedUncertain, PlanFrame, Held, Retiring
<1>4. ASSUME FinishLost(t)
      PROVE  PlanFrame
  BY Zenon, <1>4 DEF FinishLost, PlanFrame, Held, Retiring
<1> HIDE SessionsApart, Domains DEF clockVars, fileVars, rowVars,
   repositoryVars, planVars, restVars, journalVars, settleVars, retirementVars
<1> QED
  BY Zenon, <1>1, <1>2, <1>3, <1>4, PlanFrameKeeps DEF RequestStep

(* The steps of a retirement run keep what a retirement has selected.      *)
LEMMA PlanRetire ==
    ASSUME IInv, NEW t \in Retirers, RetireStep(t)
    PROVE  PlanInv'
<1> USE SessionsApart, Domains DEF clockVars, fileVars, rowVars,
   repositoryVars, planVars, restVars, journalVars, settleVars, retirementVars
<1>1. CASE Draft(t)
  <2>1. CurrentPoints \subseteq Made /\ \A cut : Targets(cut) \subseteq CurrentPoints
    BY ZenonT(30) DEF CurrentPoints, Targets, Verified, Made
  <2>2. /\ UNCHANGED <<lease, point, lastGood, catalog>>
        /\ ~Held(t) /\ pc'[t] \notin Retiring /\ intent'[t].targets \subseteq CurrentPoints
        /\ \A u \in Retirers : u # t => intent'[u] = intent[u] /\ pc'[u] = pc[u]
    <3>1. PICK it : /\ intent' = [intent EXCEPT ![t] = it]
                    /\ it.targets \subseteq CurrentPoints
      <4>1. PICK cut \in 1 .. Cardinality(Points), objects \in DraftObjects :
               intent' = [intent EXCEPT ![t] =
                  [targets |-> Targets(cut), survivors |-> CurrentPoints \ Targets(cut),
                   objects |-> objects, catalog |-> catalog.sequence, revision |-> 0]]
        BY Zenon, <1>1 DEF Draft
      <4>2. PICK it : it = [targets |-> Targets(cut), survivors |-> CurrentPoints \ Targets(cut),
                   objects |-> objects, catalog |-> catalog.sequence, revision |-> 0]
        BY Zenon
      <4>3. it.targets = Targets(cut)
        BY Zenon, <4>2
      <4>4. it.targets \subseteq CurrentPoints
        <5>1. Targets(cut) \subseteq CurrentPoints
          BY Zenon, <2>1
        <5> QED BY <4>3, <5>1
      <4>5. intent' = [intent EXCEPT ![t] = it]
        BY Zenon, <4>1, <4>2
      <4> QED BY Zenon, <4>4, <4>5
    <3>2. /\ pc[t] = "idle" /\ pc' = [pc EXCEPT ![t] = "drafted"]
          /\ UNCHANGED <<lease, point, lastGood, catalog>>
      BY Zenon, <1>1 DEF Draft
    <3>3. ~Held(t)
      BY Zenon, <3>2 DEF IInv, LeaseInv, Unclaimed
    <3>4. pc'[t] = "drafted" /\ intent'[t] = it
      BY Zenon, <3>1, <3>2 DEF IInv, ShapeInv
    <3>5. pc'[t] \notin Retiring
      BY Zenon, <3>4 DEF Retiring
    <3>6. \A u \in Retirers : u # t => intent'[u] = intent[u] /\ pc'[u] = pc[u]
      BY Zenon, <3>1, <3>2 DEF IInv, ShapeInv
    <3> QED BY Zenon, <3>1, <3>2, <3>3, <3>4, <3>5, <3>6
  <2> QED
    BY Zenon, <2>1, <2>2 DEF IInv, PlanInv, Made, Held
<1>2. ASSUME PlanRetirement(t)
      PROVE  PlanFrame
  BY ZenonT(30), <1>2 DEF PlanRetirement, PlanFrame, Held, Retiring, NoIntent
<1>3. ASSUME StageLocalRetirement(t) \/ ClaimRefused(t) \/ OpenRetirement(t)
      PROVE  PlanFrame
  BY <1>3 DEF StageLocalRetirement, ClaimRefused, OpenRetirement, OpenCustody,
     PlanFrame, Held, Retiring
<1>4. CASE ClaimLocalRetirement(t)
  BY Zenon, <1>4 DEF ClaimLocalRetirement, StartClock, ClaimAdmits, Competing, IInv,
     LRTypeOK, ShapeInv, LeaseInv, PlanInv, Made, Held, Live, Lapsed, Expired,
     Unclaimed, Retiring
<1>5. ASSUME PreCheck(t) \/ PostCheck(t) \/ CloseRetirement(t)
      PROVE  PlanFrame
  BY Zenon, <1>5 DEF PreCheck, PostCheck, CloseRetirement, ReleaseFlock, StopServer,
     PlanFrame, Held, Retiring
<1>6. ASSUME CommitLocalRetirementSuccess(t) \/ RetireFails(t)
      PROVE  PlanFrame
  BY Zenon, <1>6 DEF CommitLocalRetirementSuccess, RetireFails, ReleaseFlock,
     StopServer, PlanFrame, Held, Retiring
<1> HIDE SessionsApart, Domains DEF clockVars, fileVars, rowVars,
   repositoryVars, planVars, restVars, journalVars, settleVars, retirementVars
<1> QED
  BY Zenon, <1>1, <1>2, <1>3, <1>4, <1>5, <1>6, PlanRequest, PlanFrameKeeps DEF
     RetireStep

(* Time, declarations, lock catalogs and crashes keep what a retirement    *)
(* has selected.                                                           *)
LEMMA PlanEnvironment ==
    ASSUME IInv, Environment
    PROVE  PlanInv'
<1> USE SessionsApart, Domains DEF clockVars, fileVars, rowVars,
   repositoryVars, planVars, restVars, journalVars, settleVars, retirementVars
<1>1. ASSUME Declare \/ Tick \/ CustodianDies
      PROVE  PlanFrame
  BY Zenon, <1>1 DEF Declare, Tick, Age, CustodianDies, StopServer, PlanFrame, Held,
     Retiring
<1>2. ASSUME NEW locks \in {c \in Catalogs : c \subseteq Made},
             ActivateLocalRetentionLockCatalog(locks)
      PROVE  PlanInv'
  BY ZenonT(30), <1>2 DEF ActivateLocalRetentionLockCatalog, IInv, LRTypeOK, ShapeInv,
     LeaseInv, PlanInv, Made, Held, Live, Lapsed, Expired, Unclaimed,
     Retiring, TargetFree, Resting
<1>3. ASSUME Crash
      PROVE  PlanFrame
  BY Zenon, <1>3 DEF Crash, PlanFrame, Held, Retiring, Running, Resting
<1> HIDE SessionsApart, Domains DEF clockVars, fileVars, rowVars,
   repositoryVars, planVars, restVars, journalVars, settleVars, retirementVars
<1> QED
  BY Zenon, <1>1, <1>2, <1>3, PlanFrameKeeps DEF Environment

(* Every step keeps what a retirement has selected.                        *)
LEMMA PlanStep == ASSUME IInv, Next PROVE PlanInv'
BY PlanBackup, PlanHandler, PlanVerify, PlanRetire, PlanEnvironment DEF Next

-----------------------------------------------------------------------------
(* Points and files.                                                       *)

(* More complete objects never make a point less restorable.               *)
LEMMA RestorableGrows ==
    \A p, A, B : A \subseteq B /\ RestorableFrom(p, A) => RestorableFrom(p, B)
BY Zenon DEF RestorableFrom

(* A snapshot object names its point.                                      *)
LEMMA SnapNames ==
    \A p, q : Snap(p).type = "snapshots" /\ (Snap(p) = Snap(q) => p = q)
<1>1. \A p : Snap(p).type = "snapshots" /\ Snap(p).name = p
  BY Zenon DEF Snap
<1> QED
  BY <1>1

(* A step that leaves the rows of the points alone makes none.             *)
LEMMA SameMade == ASSUME point' = point PROVE Made' = Made
BY Zenon DEF Made

(* A step that leaves the generations and the plans alone retires nothing. *)
LEMMA SameRetired == ASSUME gen' = gen, intent' = intent PROVE Retired' = Retired
BY Zenon DEF Retired, Generations

(* A step that leaves the objects alone leaves what they restore alone.    *)
LEMMA SameRestorable ==
    ASSUME repo' = repo, torn' = torn PROVE \A p : Restorable(p)' <=> Restorable(p)
BY Zenon DEF Restorable, RestorableFrom

(* A PUT that is aborted takes away an incomplete object and nothing else. *)
LEMMA AbortTakesTorn ==
    ASSUME IInv, NEW o \in inflight, AbortPut(o)
    PROVE  /\ repo \ torn \subseteq repo' \ torn'
           /\ UNCHANGED <<pc, left, lease, point, proof, lastGood, view>>
<1>1. o \in torn
  BY Zenon DEF IInv, LRTypeOK
<1>2. repo' = repo \ {o} /\ torn' = torn \ {o}
  BY Zenon DEF AbortPut
<1>3. UNCHANGED <<pc, left, lease, point, proof, lastGood, view>>
  BY Zenon DEF AbortPut, clockVars, rowVars
<1> QED
  BY Zenon, <1>1, <1>2, <1>3

(* A retired point had been made.                                          *)
LEMMA RetiredMade == ASSUME IInv PROVE Retired \subseteq Made
<1>1. \A t \in Generations : intent[t].targets \subseteq Made
  BY Zenon DEF IInv, PlanInv, Generations
<1> QED
  BY Zenon, <1>1 DEF Retired

(* No snapshot is a pack.                                                  *)
LEMMA SnapsAreNoPacks == \A p, k : Snap(p) # Pack(k)
<1>1. \A k : Pack(k).type = "data"
  BY Zenon DEF Pack
<1>2. "data" # "snapshots"
  OBVIOUS
<1> QED
  BY Zenon, <1>1, <1>2, SnapNames

(* Settling a mutation keeps a journal row for every object that had one.  *)
LEMMA SettleKeepsObjects ==
    ASSUME ShapeInv, NEW t \in Retirers, NEW out, Settle(t, out)
    PROVE  \A row \in journal[t] : \E new \in journal'[t] : new.object = row.object
<1> SUFFICES ASSUME NEW row \in journal[t]
             PROVE  \E new \in journal'[t] : new.object = row.object
  OBVIOUS
<1> DEFINE new == [row EXCEPT !.out = IF @ = "open" THEN out ELSE @]
<1>1. new \in journal'[t]
  BY Zenon DEF Settle, ShapeInv
<1>2. new.object = row.object
  BY DEF ShapeInv
<1> QED
  BY Zenon, <1>1, <1>2

(* No point appears, none is retired, no snapshot is written and no        *)
(* verification starts or gets further.  Points are retired only by a      *)
(* commit, which no live verification survives and whose targets have no   *)
(* snapshot left; a snapshot is written only for a point that has no row   *)
(* yet.                                                                    *)
PointFrame ==
    /\ UNCHANGED <<point, lastGood, gen>> /\ repo' \subseteq repo
    /\ \A t \in Retirers : gen[t].n > 0 => intent'[t].targets = intent[t].targets
    /\ \A w \in Writers : LET before == {"idle", "started", "leased", "custody"}
                          IN  pc'[w] \in before => pc[w] \in before
    /\ \A r \in Readers :
          /\ pc'[r] \in {"started"} \cup Reading =>
                pc[r] \in {"started"} \cup Reading /\ view'[r].point = view[r].point
          /\ pc'[r] \in {"inspected", "proved", "advancing"} /\ Live(r)' =>
                pc[r] \in {"inspected", "proved", "advancing"} /\ Live(r)

(* Such a step keeps what is known of the points.                          *)
LEMMA PointFrameKeeps == ASSUME IInv, PointFrame PROVE PointInv'
<1>1. Made' = Made /\ Retired' = Retired
  BY ZenonT(30) DEF PointFrame, Made, Retired, Generations
<1>2. ASSUME NEW r \in Readers, pc'[r] \in {"inspected", "proved", "advancing"}
      PROVE  view'[r].point = view[r].point
  BY Zenon, <1>2 DEF PointFrame, Reading
<1> QED
  BY Zenon, <1>1, <1>2 DEF IInv, PointInv, PointFrame, LastGoodSurvives

(* The steps of a backup run keep what is known of the points.             *)
LEMMA PointBackup ==
    ASSUME IInv, NEW w \in Writers, BackupStep(w)
    PROVE  PointInv'
<1> USE SessionsApart, Domains DEF clockVars, fileVars, rowVars,
   repositoryVars, planVars, restVars, journalVars, settleVars, retirementVars
<1>1. ASSUME Beside(StartBackup(w))
      PROVE  PointFrame
  BY ZenonT(30), <1>1 DEF Beside, StartBackup, StartRun, PointFrame, Live, Reading
<1>2. ASSUME Beside(AcquireBackupWriterLease(w))
      PROVE  PointFrame
  BY Zenon, <1>2 DEF Beside, AcquireBackupWriterLease, StartClock, PointFrame, Live,
     Reading
<1>3. ASSUME Beside(WriterRefused(w))
      PROVE  PointFrame
  BY Zenon, <1>3 DEF Beside, WriterRefused, PointFrame, Live, Reading
<1>4. ASSUME Beside(OpenSession(w))
      PROVE  PointFrame
  BY Zenon, <1>4 DEF Beside, OpenSession, OpenCustody, PointFrame, Live, Reading
<1>5. ASSUME Beside(OpenRejected(w))
      PROVE  PointFrame
  BY Zenon, <1>5 DEF Beside, OpenRejected, CustodyRejected, PointFrame, Live, Reading
<1>6. ASSUME NEW o \in Objects, Beside(PutObject(w, o))
      PROVE  PointInv'
  <2>1. /\ UNCHANGED <<pc, left, view, point, lastGood, gen, intent>>
        /\ pc[w] = "custody" /\ repo' = repo \cup {o}
        /\ o \in {Pack(k) : k \in Packs} \cup {Snap(w)}
    BY Zenon, <1>6 DEF Beside, PutObject
  <2>2. Made' = Made /\ Retired' = Retired
    BY Zenon, <2>1, SameMade, SameRetired
  <2>3. w \notin Retired
    BY Zenon, <2>1, RetiredMade DEF IInv, PointInv
  <2>4. \A p \in Retired : Snap(p) # o
    <3>1. CASE o = Snap(w)
      BY Zenon, <2>3, <3>1, SnapNames
    <3>2. CASE \E k \in Packs : o = Pack(k)
      BY ZenonT(30), <3>2, SnapsAreNoPacks
    <3> QED
      BY Zenon, <2>1, <3>1, <3>2
  <2> QED
    BY Zenon, <2>1, <2>2, <2>4 DEF IInv, PointInv, LastGoodSurvives, Live, Reading
<1>7. CASE Beside(AppendPendingRecoveryPoint(w, Era))
  <2>1. /\ UNCHANGED <<left, view, lastGood, gen, intent, repo>>
        /\ pc[w] = "custody" /\ pc'[w] = "closing"
        /\ \A s \in Sessions : s # w => pc'[s] = pc[s]
        /\ \A p \in Points : p # w => point'[p] = point[p]
    BY Zenon, <1>7 DEF Beside, AppendPendingRecoveryPoint
  <2>2. Retired' = Retired
    BY Zenon, <2>1, SameRetired
  <2>3. w \notin Made
    BY Zenon, <2>1 DEF IInv, PointInv
  <2>4. Made \subseteq Made' /\ \A v \in Writers : v # w => (v \in Made' <=> v \in Made)
    BY Zenon, <2>1, <2>3 DEF Made, Points
  <2> QED
    BY <2>1, <2>2, <2>4 DEF IInv, PointInv, LastGoodSurvives, Live
<1>8. ASSUME Beside(BackupFails(w))
      PROVE  PointFrame
  BY Zenon, <1>8 DEF Beside, BackupFails, PointFrame, Live, Reading
<1>9. ASSUME Beside(CloseBackup(w))
      PROVE  PointFrame
  BY Zenon, <1>9 DEF Beside, CloseBackup, ReleaseFlock, PointFrame, Live, Reading
<1>10. ASSUME Beside(FinishBackup(w))
      PROVE  PointFrame
  BY Zenon, <1>10 DEF Beside, FinishBackup, PointFrame, Live, Reading
<1> HIDE SessionsApart, Domains DEF clockVars, fileVars, rowVars,
   repositoryVars, planVars, restVars, journalVars, settleVars, retirementVars
<1> QED
  BY Zenon, <1>1, <1>2, <1>3, <1>4, <1>5, <1>6, <1>7, <1>8, <1>9, <1>10,
     PointFrameKeeps DEF BackupStep

(* A handler that finishes a PUT keeps what is known of the points.        *)
LEMMA PointHandler ==
    ASSUME IInv, NEW o \in inflight, HandlerStep(o)
    PROVE  PointInv'
<1> USE SessionsApart, Domains DEF clockVars, fileVars, rowVars,
   repositoryVars, planVars, restVars, journalVars, settleVars, retirementVars
<1>1. ASSUME Beside(CompletePut(o))
      PROVE  PointFrame
  BY Zenon, <1>1 DEF Beside, CompletePut, PointFrame, Live, Reading
<1>2. ASSUME Beside(AbortPut(o))
      PROVE  PointFrame
  BY Zenon, <1>2 DEF Beside, AbortPut, PointFrame, Live, Reading
<1> HIDE SessionsApart, Domains DEF clockVars, fileVars, rowVars,
   repositoryVars, planVars, restVars, journalVars, settleVars, retirementVars
<1> QED
  BY Zenon, <1>1, <1>2, PointFrameKeeps DEF HandlerStep

(* The steps of a verification run keep what is known of the points.       *)
LEMMA PointVerify ==
    ASSUME IInv, NEW r \in Readers, VerifyStep(r)
    PROVE  PointInv'
<1> USE SessionsApart, Domains DEF clockVars, fileVars, rowVars,
   repositoryVars, planVars, restVars, journalVars, settleVars, retirementVars
<1>1. ASSUME NEW p \in Made, Beside(StartVerify(r, p, SuccessorFor(p)))
      PROVE  PointInv'
  <2>1. /\ UNCHANGED <<left, point, lastGood, gen, intent, repo>>
        /\ pc'[r] = "started" /\ view'[r].point = p
        /\ \A s \in Sessions : s # r => pc'[s] = pc[s]
        /\ \A q \in Readers : q # r => view'[q] = view[q]
    BY Zenon, <1>1 DEF Beside, StartVerify, StartRun, NoView
  <2>2. Made' = Made /\ Retired' = Retired
    BY Zenon, <2>1, SameMade, SameRetired
  <2> QED
    BY Zenon, <2>1, <2>2 DEF IInv, PointInv, LastGoodSurvives, Live, Reading
<1>2. ASSUME Beside(AcquireBackupReadLease(r))
      PROVE  PointFrame
  BY Zenon, <1>2 DEF Beside, AcquireBackupReadLease, StartClock, PointFrame, Live,
     Reading
<1>3. ASSUME Beside(ReaderRefused(r))
      PROVE  PointFrame
  BY Zenon, <1>3 DEF Beside, ReaderRefused, PointFrame, Live, Reading, NoView
<1>4. ASSUME Beside(OpenSession(r))
      PROVE  PointFrame
  BY Zenon, <1>4 DEF Beside, OpenSession, OpenCustody, PointFrame, Live, Reading
<1>5. ASSUME Beside(OpenRejected(r))
      PROVE  PointFrame
  BY Zenon, <1>5 DEF Beside, OpenRejected, CustodyRejected, PointFrame, Live, Reading
<1>6. CASE Beside(InspectPoint(r, EffectiveObjects(view[r].point, view[r].gen)))
  <2>1. /\ UNCHANGED <<left, view, point, lastGood, gen, intent, repo>>
        /\ pc[r] = "custody" /\ pc'[r] = "inspected" /\ Restorable(view[r].point)
        /\ \A s \in Sessions : s # r => pc'[s] = pc[s]
    BY Zenon, <1>6 DEF Beside, InspectPoint
  <2>2. Made' = Made /\ Retired' = Retired
    BY Zenon, <2>1, SameMade, SameRetired
  <2>3. view[r].point \notin Retired
    BY Zenon, <2>1 DEF IInv, PointInv, Restorable, RestorableFrom
  <2> QED
    BY Zenon, <2>1, <2>2, <2>3 DEF IInv, PointInv, LastGoodSurvives, Live, Reading
<1>7. ASSUME Beside(AppendLocalVerification(r))
      PROVE  PointFrame
  BY ZenonT(30), <1>7 DEF Beside, AppendLocalVerification, PointFrame, Live, Reading,
     NoView
<1>8. ASSUME Beside(CurrentLocalLastGood(r))
      PROVE  PointFrame
  BY ZenonT(30), <1>8 DEF Beside, CurrentLocalLastGood, PointFrame, Live, Reading, NoView
<1>9. CASE Beside(AdvanceLocalLastGood(r))
  <2>1. /\ UNCHANGED <<left, view, point, gen, intent, repo>>
        /\ pc[r] = "advancing" /\ pc'[r] = "closing" /\ Live(r)
        /\ lastGood'.point \in {lastGood.point, view[r].point}
        /\ \A s \in Sessions : s # r => pc'[s] = pc[s]
    BY Zenon, <1>9 DEF Beside, AdvanceLocalLastGood
  <2>2. Made' = Made /\ Retired' = Retired
    BY Zenon, <2>1, SameMade, SameRetired
  <2> QED
    BY Zenon, <2>1, <2>2 DEF IInv, PointInv, LastGoodSurvives, Live, Reading
<1>10. ASSUME Beside(VerifyFails(r))
      PROVE  PointFrame
  BY Zenon, <1>10 DEF Beside, VerifyFails, PointFrame, Live, Reading
<1>11. ASSUME Beside(CloseVerify(r))
      PROVE  PointFrame
  BY Zenon, <1>11 DEF Beside, CloseVerify, ReleaseFlock, PointFrame, Live, Reading
<1>12. ASSUME Beside(ReleaseBackupReadLease(r))
      PROVE  PointFrame
  BY Zenon, <1>12 DEF Beside, ReleaseBackupReadLease, PointFrame, Live, Reading
<1> HIDE SessionsApart, Domains DEF clockVars, fileVars, rowVars,
   repositoryVars, planVars, restVars, journalVars, settleVars, retirementVars
<1> QED
  BY Zenon, <1>1, <1>2, <1>3, <1>4, <1>5, <1>6, <1>7, <1>8, <1>9, <1>10, <1>11,
     <1>12, PointFrameKeeps DEF VerifyStep

(* The requests restic sends to the REST server keep what is known of the  *)
(* points.                                                                 *)
LEMMA PointRequest ==
    ASSUME IInv, NEW t \in Retirers, RequestStep(t)
    PROVE  PointInv'
<1> USE SessionsApart, Domains DEF clockVars, fileVars, rowVars,
   repositoryVars, planVars, restVars, journalVars, settleVars, retirementVars
<1>1. ASSUME NEW kind \in Kinds, NEW o \in Objects, AdmitRequest(t, kind, o)
      PROVE  PointFrame
  BY Zenon, <1>1 DEF AdmitRequest, PointFrame, Live, Reading
<1>2. ASSUME NEW request \in admitted, BeginLocalMutation(t, request)
      PROVE  PointFrame
  BY Zenon, <1>2 DEF BeginLocalMutation, MutationCurrent, PointFrame, Live, Reading
<1>3. ASSUME NEW request \in admitted, DenyMutation(t, request)
      PROVE  PointFrame
  BY Zenon, <1>3 DEF DenyMutation, MutationCurrent, PointFrame, Live, Reading
<1>4. ASSUME NEW request \in admitted, RefuseMutation(t, request)
      PROVE  PointFrame
  BY Zenon, <1>4 DEF RefuseMutation, MutationCurrent, PointFrame, Live, Reading
<1>5. CASE LandMutation(t)
  <2>1. /\ UNCHANGED <<pc, left, view, point, lastGood, gen, intent>>
        /\ serving # NoRequest
        /\ repo' \subseteq repo \/ (serving.kind = "put" /\ repo' = repo \cup {serving.object})
    BY SMTT(30), <1>5 DEF LandMutation, NoRequest
  <2>2. Made' = Made /\ Retired' = Retired
    BY Zenon, <2>1, SameMade, SameRetired
  <2>3. \A p : Snap(p) \in repo' => Snap(p) \in repo
    BY ZenonT(30), <2>1, SnapNames DEF IInv, CustodyInv
  <2> QED
    BY Zenon, <2>1, <2>2, <2>3 DEF IInv, PointInv, LastGoodSurvives, Live, Reading
<1>6. ASSUME FinishLocalMutation(t)
      PROVE  PointFrame
  BY Zenon, <1>6 DEF FinishLocalMutation, Settle, PointFrame, Live, Reading
<1>7. ASSUME FinishRetainedUncertain(t)
      PROVE  PointFrame
  BY Zenon, <1>7 DEF FinishRetainedUncertain, Settle, PointFrame, Live, Reading
<1>8. ASSUME FinishLost(t)
      PROVE  PointFrame
  BY Zenon, <1>8 DEF FinishLost, PointFrame, Live, Reading
<1> HIDE SessionsApart, Domains DEF clockVars, fileVars, rowVars,
   repositoryVars, planVars, restVars, journalVars, settleVars, retirementVars
<1> QED
  BY Zenon, <1>1, <1>2, <1>3, <1>4, <1>5, <1>6, <1>7, <1>8, PointFrameKeeps DEF
     RequestStep

(* The steps of a retirement run keep what is known of the points.         *)
LEMMA PointRetire ==
    ASSUME IInv, NEW t \in Retirers, RetireStep(t)
    PROVE  PointInv'
<1> USE SessionsApart, Domains DEF clockVars, fileVars, rowVars,
   repositoryVars, planVars, restVars, journalVars, settleVars, retirementVars
<1>1. ASSUME Draft(t)
      PROVE  PointFrame
  <2>1. /\ UNCHANGED <<left, view, point, lastGood, gen, repo>> /\ pc[t] = "idle"
        /\ \A u \in Retirers : u # t => intent'[u] = intent[u]
        /\ \A s \in Sessions : s # t => pc'[s] = pc[s]
    BY Zenon, <1>1 DEF Draft
  <2>2. gen[t].n = 0
    BY Zenon, <2>1, Alone DEF Unclaimed
  <2> QED
    BY <2>1, <2>2 DEF PointFrame, Live
<1>2. ASSUME PlanRetirement(t)
      PROVE  PointFrame
  BY ZenonT(30), <1>2 DEF PlanRetirement, PointFrame, Live, Reading, NoIntent
<1>3. ASSUME StageLocalRetirement(t)
      PROVE  PointFrame
  BY ZenonT(30), <1>3 DEF StageLocalRetirement, PointFrame, Live, Reading
<1>4. ASSUME ClaimLocalRetirement(t)
      PROVE  PointFrame
  BY Zenon, <1>4 DEF ClaimLocalRetirement, StartClock, PointFrame, Live, Reading
<1>5. ASSUME ClaimRefused(t)
      PROVE  PointFrame
  BY Zenon, <1>5 DEF ClaimRefused, PointFrame, Live, Reading
<1>6. ASSUME OpenRetirement(t)
      PROVE  PointFrame
  BY Zenon, <1>6 DEF OpenRetirement, OpenCustody, PointFrame, Live, Reading
<1>7. ASSUME PreCheck(t)
      PROVE  PointFrame
  BY Zenon, <1>7 DEF PreCheck, PointFrame, Live, Reading
<1>8. ASSUME PostCheck(t)
      PROVE  PointFrame
  BY Zenon, <1>8 DEF PostCheck, PointFrame, Live, Reading
<1>9. ASSUME CloseRetirement(t)
      PROVE  PointFrame
  BY Zenon, <1>9 DEF CloseRetirement, ReleaseFlock, StopServer, PointFrame, Live,
     Reading
<1>10. CASE CommitLocalRetirementSuccess(t)
  <2>1. /\ Held(t) /\ pc[t] = "settling" /\ pc'[t] = "done"
        /\ \A u \in Retirers : u # t => gen'[u] = gen[u]
        /\ UNCHANGED <<repo, lastGood, view, intent, point>>
        /\ \A s \in Sessions : s # t => pc'[s] = pc[s] /\ left'[s] = left[s]
    BY Zenon, <1>10 DEF CommitLocalRetirementSuccess
  <2>2. Made' = Made /\ Retired' \subseteq Retired \cup intent[t].targets
    BY ZenonT(30), <2>1 DEF Made, Retired, Generations
  <2>3. intent[t].targets \cap intent[t].survivors = {} /\ lastGood.point \in intent[t].survivors
    BY Zenon, <2>1 DEF IInv, LRTypeOK, PlanInv
  <2>4. \A p \in intent[t].targets : Snap(p) \notin repo
    <3> SUFFICES ASSUME NEW p \in intent[t].targets, Snap(p) \in repo PROVE FALSE
      OBVIOUS
    <3>1. Snapshots(repo) = {Snap(q) : q \in intent[t].survivors}
      BY Zenon, <2>1 DEF IInv, FileInv
    <3>2. Snap(p) \in {Snap(q) : q \in intent[t].survivors}
      BY ZenonT(30), <3>1, SnapNames DEF Snapshots
    <3> QED
      BY Zenon, <2>3, <3>2, SnapNames
  <2>5. \A r \in Readers : pc[r] \in Reading => ~Live(r)
    BY <2>1 DEF IInv, LeaseInv
  <2> QED
    BY Zenon, <2>1, <2>2, <2>3, <2>4, <2>5 DEF IInv, PointInv, LastGoodSurvives, Live, Reading
<1>11. ASSUME RetireFails(t)
      PROVE  PointFrame
  BY Zenon, <1>11 DEF RetireFails, ReleaseFlock, StopServer, PointFrame, Live,
     Reading
<1> HIDE SessionsApart, Domains DEF clockVars, fileVars, rowVars,
   repositoryVars, planVars, restVars, journalVars, settleVars, retirementVars
<1> QED
  BY Zenon, <1>1, <1>2, <1>3, <1>4, <1>5, <1>6, <1>7, <1>8, <1>9, <1>10, <1>11,
     PointRequest, PointFrameKeeps DEF RetireStep

(* Time, declarations, lock catalogs and crashes keep what is known of the *)
(* points.                                                                 *)
LEMMA PointEnvironment ==
    ASSUME IInv, Environment
    PROVE  PointInv'
<1> USE SessionsApart, Domains DEF clockVars, fileVars, rowVars,
   repositoryVars, planVars, restVars, journalVars, settleVars, retirementVars
<1>1. ASSUME Declare
      PROVE  PointFrame
  BY Zenon, <1>1 DEF Declare, PointFrame, Live, Reading
<1>2. ASSUME NEW locks \in {c \in Catalogs : c \subseteq Made},
             ActivateLocalRetentionLockCatalog(locks)
      PROVE  PointFrame
  BY Zenon, <1>2 DEF ActivateLocalRetentionLockCatalog, PointFrame, Live, Reading
<1>3. ASSUME Tick
      PROVE  PointFrame
  BY Zenon, <1>3 DEF Tick, Age, PointFrame, Live, Reading
<1>4. ASSUME Crash
      PROVE  PointFrame
  BY Zenon, <1>4 DEF Crash, PointFrame, Live, Reading, Running, Resting
<1>5. ASSUME CustodianDies
      PROVE  PointFrame
  BY Zenon, <1>5 DEF CustodianDies, StopServer, PointFrame, Live, Reading
<1> HIDE SessionsApart, Domains DEF clockVars, fileVars, rowVars,
   repositoryVars, planVars, restVars, journalVars, settleVars, retirementVars
<1> QED
  BY Zenon, <1>1, <1>2, <1>3, <1>4, <1>5, PointFrameKeeps DEF Environment

(* Every step keeps what is known of the points.                           *)
LEMMA PointStep == ASSUME IInv, Next PROVE PointInv'
BY Zenon, PointBackup, PointHandler, PointVerify, PointRetire, PointEnvironment DEF
   Next

(* No complete object disappears, and a retirement at work finds the files *)
(* as it left them.  Complete objects disappear only when the REST server  *)
(* of a retirement moves them, which excludes live verifications; the      *)
(* server moves nothing without a journal row, and nothing after the last  *)
(* look of the retirement.                                                 *)
FileFrame ==
    /\ repo \ torn \subseteq repo' \ torn'
    /\ \A r \in Readers : pc'[r] = "inspected" /\ Live(r)' =>
          pc[r] = "inspected" /\ Live(r) /\ view'[r].point = view[r].point
    /\ \A t \in Retirers : pc'[t] \in {"proved", "settling"} =>
          /\ pc[t] \in {"proved", "settling"} /\ repo' = repo
          /\ serving = NoRequest => serving' = NoRequest
          /\ admitted = {} => admitted' = {}
          /\ observed'[t] = observed[t] /\ intent'[t].survivors = intent[t].survivors
    /\ \A t \in Retirers : Held(t)' /\ (pc'[t] = "mutating" \/ journal'[t] # {}) =>
          /\ Held(t) /\ (pc[t] = "mutating" \/ journal[t] # {}) /\ repo' = repo /\ hold' = hold
          /\ intent'[t].objects = intent[t].objects
          /\ \A row \in journal[t] : \E new \in journal'[t] : new.object = row.object

(* Such a step keeps what is known of the files.                           *)
LEMMA FileFrameKeeps == ASSUME IInv, FileFrame PROVE FileInv'
<1>1. \A p : Restorable(p) => Restorable(p)'
  BY Zenon, RestorableGrows DEF FileFrame, Restorable
<1>2. ASSUME NEW t \in Retirers, pc'[t] \in {"proved", "settling"}
      PROVE  /\ serving' = NoRequest /\ admitted' = {}
             /\ repo' = observed'[t]
             /\ Snapshots(repo') = {Snap(p) : p \in intent'[t].survivors}
             /\ \A p \in intent'[t].survivors : Restorable(p)'
  BY Zenon, <1>1, <1>2 DEF IInv, FileInv, FileFrame
<1>3. ASSUME NEW t \in Retirers, Held(t)', pc'[t] = "mutating" \/ journal'[t] # {}
      PROVE  /\ intent'[t].objects \subseteq repo' \cup hold'
             /\ \A o \in (repo' \ intent'[t].objects) \cup (intent'[t].objects \ repo') :
                   \E row \in journal'[t] : row.object = o
  <2>1. /\ Held(t) /\ (pc[t] = "mutating" \/ journal[t] # {}) /\ repo' = repo /\ hold' = hold
        /\ intent'[t].objects = intent[t].objects
        /\ \A row \in journal[t] : \E new \in journal'[t] : new.object = row.object
    BY Zenon, <1>3 DEF FileFrame
  <2>2. /\ intent[t].objects \subseteq repo \cup hold
        /\ \A o \in (repo \ intent[t].objects) \cup (intent[t].objects \ repo) :
              \E row \in journal[t] : row.object = o
    BY Zenon, <2>1 DEF IInv, FileInv
  <2>3. intent'[t].objects \subseteq repo' \cup hold'
    BY Zenon, <2>1, <2>2
  <2>4. ASSUME NEW o \in (repo' \ intent'[t].objects) \cup (intent'[t].objects \ repo')
        PROVE  \E row \in journal'[t] : row.object = o
    <3>1. o \in (repo \ intent[t].objects) \cup (intent[t].objects \ repo)
      BY Zenon, <2>1
    <3>2. PICK row \in journal[t] : row.object = o
      BY Zenon, <2>2, <3>1
    <3> QED BY Zenon, <2>1, <3>2
  <2> QED BY Zenon, <2>3, <2>4
<1>4. ASSUME NEW r \in Readers, pc'[r] = "inspected", Live(r)'
      PROVE  Restorable(view[r].point)'
  BY Zenon, <1>1, <1>4 DEF IInv, FileInv, FileFrame
<1> QED
  BY Zenon, <1>2, <1>3, <1>4 DEF FileInv

(* Taking such a lease is such a step.                                     *)
LEMMA FileLeaseTaken == ASSUME NEW s, LeaseTaken(s) PROVE FileFrame
BY Zenon DEF LeaseTaken, FileFrame, Held, Live

(* The steps of a backup run keep what is known of the files.              *)
LEMMA FileBackup ==
    ASSUME IInv, NEW w \in Writers, BackupStep(w)
    PROVE  FileInv'
<1> USE SessionsApart, Domains DEF clockVars, fileVars, rowVars,
   repositoryVars, planVars, restVars, journalVars, settleVars, retirementVars
<1>1. ASSUME Beside(StartBackup(w))
      PROVE  FileFrame
  BY Zenon, <1>1 DEF Beside, StartBackup, StartRun, FileFrame, Held, Live
<1>2. ASSUME Beside(AcquireBackupWriterLease(w))
      PROVE  FileFrame
  BY Zenon, <1>2, WriterLeaseTaken, FileLeaseTaken
<1>3. ASSUME Beside(WriterRefused(w))
      PROVE  FileFrame
  BY Zenon, <1>3 DEF Beside, WriterRefused, FileFrame, Held, Live
<1>4. ASSUME Beside(OpenSession(w))
      PROVE  FileFrame
  BY Zenon, <1>4 DEF Beside, OpenSession, OpenCustody, FileFrame, Held, Live
<1>5. ASSUME Beside(OpenRejected(w))
      PROVE  FileFrame
  BY Zenon, <1>5 DEF Beside, OpenRejected, CustodyRejected, FileFrame, Held, Live
<1>6. ASSUME NEW o \in Objects, Beside(PutObject(w, o))
      PROVE  FileFrame
  BY ZenonT(30), <1>6, Alone DEF Beside, PutObject, FileFrame, Held, Live, IInv, LRTypeOK
<1>7. ASSUME Beside(AppendPendingRecoveryPoint(w, Era))
      PROVE  FileFrame
  BY Zenon, <1>7 DEF Beside, AppendPendingRecoveryPoint, FileFrame, Held, Live
<1>8. ASSUME Beside(BackupFails(w))
      PROVE  FileFrame
  BY Zenon, <1>8 DEF Beside, BackupFails, FileFrame, Held, Live
<1>9. ASSUME Beside(CloseBackup(w))
      PROVE  FileFrame
  BY Zenon, <1>9 DEF Beside, CloseBackup, ReleaseFlock, FileFrame, Held, Live
<1>10. ASSUME Beside(FinishBackup(w))
      PROVE  FileFrame
  BY Zenon, <1>10 DEF Beside, FinishBackup, FileFrame, Held, Live
<1> HIDE SessionsApart, Domains DEF clockVars, fileVars, rowVars,
   repositoryVars, planVars, restVars, journalVars, settleVars, retirementVars
<1> QED
  BY Zenon, <1>1, <1>2, <1>3, <1>4, <1>5, <1>6, <1>7, <1>8, <1>9, <1>10,
     FileFrameKeeps DEF BackupStep

(* A handler that finishes a PUT keeps what is known of the files.         *)
LEMMA FileHandler ==
    ASSUME IInv, NEW o \in inflight, HandlerStep(o)
    PROVE  FileInv'
<1> USE SessionsApart, Domains DEF clockVars, fileVars, rowVars,
   repositoryVars, planVars, restVars, journalVars, settleVars, retirementVars
<1>1. ASSUME Beside(CompletePut(o))
      PROVE  FileFrame
  BY Zenon, <1>1 DEF Beside, CompletePut, FileFrame, Held, Live
<1>2. ASSUME Beside(AbortPut(o))
      PROVE  FileFrame
  <2>1. \A t \in Retirers : /\ pc[t] \notin {"mutating", "proved", "settling"}
                            /\ ~(Held(t) /\ journal[t] # {})
    BY ZenonT(30), Alone, SessionsApart
  <2> QED
    BY Zenon, <1>2, <2>1, AbortTakesTorn DEF Beside, FileFrame, Held, Live
<1> HIDE SessionsApart, Domains DEF clockVars, fileVars, rowVars,
   repositoryVars, planVars, restVars, journalVars, settleVars, retirementVars
<1> QED
  BY Zenon, <1>1, <1>2, FileFrameKeeps DEF HandlerStep

(* The steps of a verification run keep what is known of the files.        *)
LEMMA FileVerify ==
    ASSUME IInv, NEW r \in Readers, VerifyStep(r)
    PROVE  FileInv'
<1> USE SessionsApart, Domains DEF clockVars, fileVars, rowVars,
   repositoryVars, planVars, restVars, journalVars, settleVars, retirementVars
<1>1. ASSUME NEW p \in Made, Beside(StartVerify(r, p, SuccessorFor(p)))
      PROVE  FileFrame
  BY Zenon, <1>1 DEF Beside, StartVerify, StartRun, FileFrame, Held, Live
<1>2. ASSUME Beside(AcquireBackupReadLease(r))
      PROVE  FileFrame
  BY Zenon, <1>2, ReadLeaseTaken, FileLeaseTaken
<1>3. ASSUME Beside(ReaderRefused(r))
      PROVE  FileFrame
  BY Zenon, <1>3 DEF Beside, ReaderRefused, FileFrame, Held, Live, NoView
<1>4. ASSUME Beside(OpenSession(r))
      PROVE  FileFrame
  BY Zenon, <1>4 DEF Beside, OpenSession, OpenCustody, FileFrame, Held, Live
<1>5. ASSUME Beside(OpenRejected(r))
      PROVE  FileFrame
  BY Zenon, <1>5 DEF Beside, OpenRejected, CustodyRejected, FileFrame, Held, Live
<1>6. CASE Beside(InspectPoint(r, EffectiveObjects(view[r].point, view[r].gen)))
  <2>1. /\ UNCHANGED <<left, lease, view, repo, torn, hold>>
        /\ UNCHANGED <<serving, admitted, observed, intent, journal>>
        /\ pc'[r] = "inspected" /\ Restorable(view[r].point)
        /\ \A s \in Sessions : s # r => pc'[s] = pc[s]
    BY Zenon, <1>6 DEF Beside, InspectPoint
  <2>2. \A p : Restorable(p)' <=> Restorable(p)
    BY Zenon, <2>1 DEF Restorable
  <2>3. ASSUME NEW q \in Readers, pc'[q] = "inspected", Live(q)'
        PROVE  Restorable(view[q].point)'
    BY Zenon, <2>1, <2>2, <2>3 DEF IInv, FileInv, Live
  <2>4. \A t \in Retirers : pc'[t] = pc[t] /\ (Held(t)' <=> Held(t))
    BY Zenon, <2>1 DEF Held
  <2>5. ASSUME NEW t \in Retirers, pc[t] \in {"proved", "settling"}
        PROVE  (/\ serving = NoRequest /\ admitted = {}
                /\ repo = observed[t]
                /\ Snapshots(repo) = {Snap(p) : p \in intent[t].survivors}
                /\ \A p \in intent[t].survivors : Restorable(p))'
    BY ZenonT(30), <2>1, <2>2, <2>5 DEF IInv, FileInv
  <2>6. ASSUME NEW t \in Retirers, Held(t), pc[t] = "mutating" \/ journal[t] # {}
        PROVE  (/\ intent[t].objects \subseteq repo \cup hold
                /\ \A o \in (repo \ intent[t].objects) \cup (intent[t].objects \ repo) :
                      \E row \in journal[t] : row.object = o)'
    BY Zenon, <2>1, <2>6 DEF IInv, FileInv
  <2>7. journal' = journal
    BY Zenon, <2>1
  <2> QED
    BY Zenon, <2>3, <2>4, <2>5, <2>6, <2>7 DEF FileInv
<1>7. ASSUME Beside(AppendLocalVerification(r))
      PROVE  FileFrame
  BY Zenon, <1>7 DEF Beside, AppendLocalVerification, FileFrame, Held, Live, NoView
<1>8. ASSUME Beside(CurrentLocalLastGood(r))
      PROVE  FileFrame
  BY Zenon, <1>8 DEF Beside, CurrentLocalLastGood, FileFrame, Held, Live, NoView
<1>9. ASSUME Beside(AdvanceLocalLastGood(r))
      PROVE  FileFrame
  BY Zenon, <1>9 DEF Beside, AdvanceLocalLastGood, FileFrame, Held, Live
<1>10. ASSUME Beside(VerifyFails(r))
      PROVE  FileFrame
  BY Zenon, <1>10 DEF Beside, VerifyFails, FileFrame, Held, Live
<1>11. ASSUME Beside(CloseVerify(r))
      PROVE  FileFrame
  BY Zenon, <1>11 DEF Beside, CloseVerify, ReleaseFlock, FileFrame, Held, Live
<1>12. ASSUME Beside(ReleaseBackupReadLease(r))
      PROVE  FileFrame
  BY ZenonT(30), <1>12 DEF Beside, ReleaseBackupReadLease, FileFrame, Held, Live
<1> HIDE SessionsApart, Domains DEF clockVars, fileVars, rowVars,
   repositoryVars, planVars, restVars, journalVars, settleVars, retirementVars
<1> QED
  BY Zenon, <1>1, <1>2, <1>3, <1>4, <1>5, <1>6, <1>7, <1>8, <1>9, <1>10, <1>11,
     <1>12, FileFrameKeeps DEF VerifyStep

(* The requests restic sends to the REST server keep what is known of the  *)
(* files.                                                                  *)
LEMMA FileRequest ==
    ASSUME IInv, NEW t \in Retirers, RequestStep(t)
    PROVE  FileInv'
<1> USE SessionsApart, Domains DEF clockVars, fileVars, rowVars,
   repositoryVars, planVars, restVars, journalVars, settleVars, retirementVars
<1>1. ASSUME NEW kind \in Kinds, NEW o \in Objects, AdmitRequest(t, kind, o)
      PROVE  FileFrame
  BY Zenon, <1>1, Alone DEF AdmitRequest, FileFrame, Held, Live
<1>2. ASSUME NEW request \in admitted, BeginLocalMutation(t, request)
      PROVE  FileFrame
  BY Zenon, <1>2, Alone DEF BeginLocalMutation, MutationCurrent, FileFrame, Held,
     Live
<1>3. ASSUME NEW request \in admitted, DenyMutation(t, request)
      PROVE  FileFrame
  BY Zenon, <1>3 DEF DenyMutation, MutationCurrent, FileFrame, Held, Live
<1>4. ASSUME NEW request \in admitted, RefuseMutation(t, request)
      PROVE  FileFrame
  BY Zenon, <1>4 DEF RefuseMutation, MutationCurrent, FileFrame, Held, Live
<1>5. CASE LandMutation(t)
  <2>1. /\ custodian = t /\ serving # NoRequest
        /\ UNCHANGED <<pc, lease, left, view, intent, journal, observed>>
    BY SMTT(30), <1>5 DEF LandMutation, NoRequest
  <2>2. Held(t) /\ pc[t] \notin {"proved", "settling"}
    BY ZenonT(30), <2>1 DEF IInv, CustodyInv, FileInv
  <2>3. /\ \A r \in Readers : pc[r] = "inspected" => ~Live(r)
        /\ \A u \in Retirers : u # t => ~Held(u) /\ pc[u] \notin Retiring
    BY SMTT(30), <2>2 DEF IInv, LeaseInv, Reading
  <2>4. \E row \in journal[t] : row.object = serving.object
    BY Zenon, <2>1 DEF IInv, CustodyInv
  <2>5. /\ intent[t].objects \subseteq repo \cup hold
        /\ \A o \in (repo \ intent[t].objects) \cup (intent[t].objects \ repo) :
              \E row \in journal[t] : row.object = o
    BY Zenon, <2>2, <2>4 DEF IInv, FileInv
  <2>6. /\ repo \cup hold \subseteq repo' \cup hold'
        /\ \A o : o # serving.object => (o \in repo' <=> o \in repo)
    BY ZenonT(30), <1>5 DEF LandMutation
  <2>7. /\ intent'[t].objects \subseteq repo' \cup hold'
        /\ \A o \in (repo' \ intent'[t].objects) \cup (intent'[t].objects \ repo') :
              \E row \in journal'[t] : row.object = o
    BY Zenon, <2>1, <2>4, <2>5, <2>6
  <2> QED
    BY Zenon, <2>1, <2>2, <2>3, <2>7 DEF FileInv, Live, Held, Retiring
<1>6. ASSUME FinishLocalMutation(t)
      PROVE  FileFrame
  <2> DEFINE out == IF serving.kind = "put" THEN "created" ELSE "quarantined"
  <2>1. /\ UNCHANGED <<repo, torn, hold, pc, lease, left, view, intent, observed, admitted>>
        /\ pc[t] = "mutating" /\ Settle(t, out) /\ serving' = NoRequest
    BY Zenon, <1>6 DEF FinishLocalMutation
  <2>2. \A row \in journal[t] : \E new \in journal'[t] : new.object = row.object
    BY Zenon, <2>1, SettleKeepsObjects DEF IInv
  <2>3. \A u \in Retirers : u # t => journal'[u] = journal[u]
    BY Zenon, <2>1 DEF Settle
  <2> HIDE DEF out
  <2> QED
    BY Zenon, <2>1, <2>2, <2>3 DEF FileFrame, Held, Live
<1>7. ASSUME FinishRetainedUncertain(t)
      PROVE  FileFrame
  <2> DEFINE out == "uncertain"
  <2>1. /\ UNCHANGED <<repo, torn, hold, pc, lease, left, view, intent, observed, admitted>>
        /\ pc[t] = "mutating" /\ Settle(t, out) /\ serving' = NoRequest
    BY Zenon, <1>7 DEF FinishRetainedUncertain
  <2>2. \A row \in journal[t] : \E new \in journal'[t] : new.object = row.object
    BY Zenon, <2>1, SettleKeepsObjects DEF IInv
  <2>3. \A u \in Retirers : u # t => journal'[u] = journal[u]
    BY Zenon, <2>1 DEF Settle
  <2> HIDE DEF out
  <2> QED
    BY Zenon, <2>1, <2>2, <2>3 DEF FileFrame, Held, Live
<1>8. ASSUME FinishLost(t)
      PROVE  FileFrame
  BY Zenon, <1>8 DEF FinishLost, FileFrame, Held, Live
<1> HIDE SessionsApart, Domains DEF clockVars, fileVars, rowVars,
   repositoryVars, planVars, restVars, journalVars, settleVars, retirementVars
<1> QED
  BY Zenon, <1>1, <1>2, <1>3, <1>4, <1>5, <1>6, <1>7, <1>8, FileFrameKeeps DEF
     RequestStep

(* The steps of a retirement run keep what is known of the files.          *)
LEMMA FileRetire ==
    ASSUME IInv, NEW t \in Retirers, RetireStep(t)
    PROVE  FileInv'
<1> USE SessionsApart, Domains DEF clockVars, fileVars, rowVars,
   repositoryVars, planVars, restVars, journalVars, settleVars, retirementVars
<1>1. ASSUME Draft(t)
      PROVE  FileFrame
  BY Zenon, <1>1, Alone DEF Draft, FileFrame, Held, Live, Unclaimed
<1>2. ASSUME PlanRetirement(t)
      PROVE  FileFrame
  BY Zenon, <1>2 DEF PlanRetirement, FileFrame, Held, Live, NoIntent
<1>3. ASSUME StageLocalRetirement(t)
      PROVE  FileFrame
  BY Zenon, <1>3 DEF StageLocalRetirement, FileFrame, Held, Live
<1>4. ASSUME ClaimLocalRetirement(t)
      PROVE  FileFrame
  BY Zenon, <1>4, Alone DEF ClaimLocalRetirement, StartClock, FileFrame, Held, Live,
     Unclaimed
<1>5. ASSUME ClaimRefused(t)
      PROVE  FileFrame
  BY Zenon, <1>5 DEF ClaimRefused, FileFrame, Held, Live
<1>6. ASSUME OpenRetirement(t)
      PROVE  FileFrame
  BY Zenon, <1>6 DEF OpenRetirement, OpenCustody, FileFrame, Held, Live
<1>7. CASE PreCheck(t)
  <2>1. /\ UNCHANGED <<left, lease, view, repo, torn, hold>>
        /\ UNCHANGED <<serving, admitted, observed, intent, journal>>
        /\ pc'[t] = "mutating" /\ repo = intent[t].objects
        /\ \A s \in Sessions : s # t => pc'[s] = pc[s]
    BY Zenon, <1>7 DEF PreCheck
  <2>2. \A p : Restorable(p)' <=> Restorable(p)
    BY Zenon, <2>1 DEF Restorable
  <2>3. \A r \in Readers : pc'[r] = "inspected" /\ Live(r)' => Restorable(view[r].point)'
    BY ZenonT(30), <2>1, <2>2 DEF IInv, FileInv, Live
  <2>4. ASSUME NEW u \in Retirers, pc'[u] \in {"proved", "settling"}
        PROVE  /\ serving' = NoRequest /\ admitted' = {} /\ repo' = observed'[u]
               /\ Snapshots(repo') = {Snap(p) : p \in intent'[u].survivors}
               /\ \A p \in intent'[u].survivors : Restorable(p)'
    <3>1. pc[u] \in {"proved", "settling"}
      BY Zenon, <2>1, <2>4
    <3> QED
      BY Zenon, <2>1, <2>2, <3>1 DEF IInv, FileInv
  <2>5. ASSUME NEW u \in Retirers, Held(u)', pc'[u] = "mutating" \/ journal'[u] # {}
        PROVE  /\ intent'[u].objects \subseteq repo' \cup hold'
               /\ \A o \in (repo' \ intent'[u].objects) \cup (intent'[u].objects \ repo') :
                     \E row \in journal'[u] : row.object = o
    <3>1. CASE u = t
      BY ZenonT(30), <2>1, <3>1
    <3>2. CASE u # t
      <4>1. Held(u) /\ (pc[u] = "mutating" \/ journal[u] # {})
        BY ZenonT(30), <2>1, <2>5, <3>2 DEF Held
      <4> QED
        BY ZenonT(30), <2>1, <4>1 DEF IInv, FileInv
    <3> QED
      BY Zenon, <3>1, <3>2
  <2> QED
    BY Zenon, <2>3, <2>4, <2>5 DEF FileInv
<1>8. CASE PostCheck(t)
  <2>1. /\ UNCHANGED <<left, lease, view, repo, torn, hold, serving, admitted, intent, journal>>
        /\ pc[t] = "mutating" /\ pc'[t] = "proved" /\ observed'[t] = repo
        /\ \A u \in Retirers : u # t => observed'[u] = observed[u]
        /\ \A s \in Sessions : s # t => pc'[s] = pc[s]
        /\ serving = NoRequest /\ admitted = {}
        /\ Snapshots(repo) = {Snap(p) : p \in intent[t].survivors}
        /\ \A p \in intent[t].survivors : Restorable(p)
    BY Zenon, <1>8 DEF PostCheck
  <2>2. \A p : Restorable(p)' <=> Restorable(p)
    BY Zenon, <2>1 DEF Restorable
  <2>3. \A r \in Readers : pc'[r] = "inspected" /\ Live(r)' => Restorable(view[r].point)'
    BY Zenon, <2>1, <2>2 DEF IInv, FileInv, Live
  <2>4. ASSUME NEW u \in Retirers, pc'[u] \in {"proved", "settling"}
        PROVE  /\ serving' = NoRequest /\ admitted' = {} /\ repo' = observed'[u]
               /\ Snapshots(repo') = {Snap(p) : p \in intent'[u].survivors}
               /\ \A p \in intent'[u].survivors : Restorable(p)'
    <3>1. CASE u = t
      BY Zenon, <2>1, <2>2, <3>1
    <3>2. CASE u # t
      <4>1. pc[u] \in {"proved", "settling"} /\ observed'[u] = observed[u]
        BY ZenonT(30), <2>1, <2>4, <3>2
      <4> QED
        BY Zenon, <2>1, <2>2, <4>1 DEF IInv, FileInv
    <3> QED
      BY Zenon, <3>1, <3>2
  <2>5. ASSUME NEW u \in Retirers, Held(u)', pc'[u] = "mutating" \/ journal'[u] # {}
        PROVE  /\ intent'[u].objects \subseteq repo' \cup hold'
               /\ \A o \in (repo' \ intent'[u].objects) \cup (intent'[u].objects \ repo') :
                     \E row \in journal'[u] : row.object = o
    <3>1. Held(u) /\ (pc[u] = "mutating" \/ journal[u] # {})
      BY Zenon, <2>1, <2>5 DEF Held
    <3> QED
      BY ZenonT(30), <2>1, <3>1 DEF IInv, FileInv
  <2> QED
    BY Zenon, <2>3, <2>4, <2>5 DEF FileInv
<1>9. ASSUME CloseRetirement(t)
      PROVE  FileFrame
  BY Zenon, <1>9 DEF CloseRetirement, ReleaseFlock, StopServer, FileFrame, Held, Live
<1>10. ASSUME CommitLocalRetirementSuccess(t)
      PROVE  FileFrame
  BY Zenon, <1>10 DEF CommitLocalRetirementSuccess, FileFrame, Held, Live
<1>11. ASSUME RetireFails(t)
      PROVE  FileFrame
  BY Zenon, <1>11 DEF RetireFails, ReleaseFlock, StopServer, FileFrame, Held, Live
<1> HIDE SessionsApart, Domains DEF clockVars, fileVars, rowVars,
   repositoryVars, planVars, restVars, journalVars, settleVars, retirementVars
<1> QED
  BY ZenonT(30), <1>1, <1>2, <1>3, <1>4, <1>5, <1>6, <1>7, <1>8, <1>9, <1>10, <1>11,
     FileRequest, FileFrameKeeps DEF RetireStep

(* Time, declarations, lock catalogs and crashes keep what is known of the *)
(* files.                                                                  *)
LEMMA FileEnvironment ==
    ASSUME IInv, Environment
    PROVE  FileInv'
<1> USE SessionsApart, Domains DEF clockVars, fileVars, rowVars,
   repositoryVars, planVars, restVars, journalVars, settleVars, retirementVars
<1>1. ASSUME Declare
      PROVE  FileFrame
  BY Zenon, <1>1 DEF Declare, FileFrame, Held, Live
<1>2. ASSUME NEW locks \in {c \in Catalogs : c \subseteq Made},
             ActivateLocalRetentionLockCatalog(locks)
      PROVE  FileFrame
  BY Zenon, <1>2 DEF ActivateLocalRetentionLockCatalog, FileFrame, Held, Live
<1>3. ASSUME Tick
      PROVE  FileFrame
  BY Zenon, <1>3 DEF Tick, Age, FileFrame, Held, Live
<1>4. ASSUME Crash
      PROVE  FileFrame
  BY Zenon, <1>4 DEF Crash, FileFrame, Held, Live, Running, Resting
<1>5. ASSUME CustodianDies
      PROVE  FileFrame
  BY Zenon, <1>5 DEF CustodianDies, StopServer, FileFrame, Held, Live
<1> HIDE SessionsApart, Domains DEF clockVars, fileVars, rowVars,
   repositoryVars, planVars, restVars, journalVars, settleVars, retirementVars
<1> QED
  BY <1>1, <1>2, <1>3, <1>4, <1>5, FileFrameKeeps DEF Environment

(* Every step keeps what is known of the files.                            *)
LEMMA FileStep == ASSUME IInv, Next PROVE FileInv'
BY FileBackup, FileHandler, FileVerify, FileRetire, FileEnvironment DEF Next

-----------------------------------------------------------------------------
(* The theorems.                                                           *)

(* The numbers and the names of the points that exist at the start: every  *)
(* earlier point has a row, nothing else has one, the last-good row names  *)
(* the newest of them, and that one is not among those gone.               *)
LEMMA InitPoints ==
    ASSUME NEW gone, NEW cast, InitRepository(gone, cast),
           gone \subseteq {Existing[i] : i \in 1 .. Len(Existing) - 1}
    PROVE  /\ Made = Earlier /\ gone \subseteq Earlier
           /\ lastGood.point \in Earlier \cup {None} /\ lastGood.point \notin gone
           /\ repo \subseteq Objects /\ \A p \in gone : Snap(p) \notin repo
<1>1. Len(Existing) \in Nat
  BY RepositoryConstants
<1>2. \A i \in 1 .. Len(Existing) : Existing[i] \in Earlier
  BY Zenon DEF Earlier
<1>3. gone \subseteq Earlier /\ None \notin Earlier /\ Earlier \subseteq Points
  BY SMTT(30), <1>1, <1>2, RepositoryConstants DEF Points
<1>4. ASSUME NEW p \in Earlier
      PROVE  point[p].n \in 1 .. Len(Existing)
  <2> DEFINE i == CHOOSE i \in 1 .. Len(Existing) : Existing[i] = p
  <2>1. \E k \in 1 .. Len(Existing) : Existing[k] = p
    BY Zenon DEF Earlier
  <2>2. i \in 1 .. Len(Existing)
    BY Zenon, <2>1
  <2>3. point[p] = [n |-> i, era |-> 0, objects |-> FirstObjects(i)]
    BY Zenon, <1>3 DEF InitRepository
  <2> HIDE DEF i
  <2> QED
    BY <2>2, <2>3
<1>5. ASSUME NEW p \in Points, p \notin Earlier
      PROVE  point[p].n = 0
  BY Zenon, <1>5 DEF InitRepository, NoPoint
<1>6. Made = Earlier
  BY SMTT(30), <1>1, <1>3, <1>4, <1>5 DEF Made
<1>7. lastGood.point = IF Len(Existing) = 0 THEN None ELSE Existing[Len(Existing)]
  BY Zenon DEF InitRepository
<1>8. lastGood.point \in Earlier \cup {None}
  BY <1>1, <1>2, <1>7
<1>9. lastGood.point \notin gone
  <2> SUFFICES ASSUME lastGood.point \in gone
               PROVE  FALSE
    OBVIOUS
  <2>1. PICK i \in 1 .. Len(Existing) - 1 : lastGood.point = Existing[i]
    OBVIOUS
  <2>2. Len(Existing) \in 1 .. Len(Existing) /\ i \in 1 .. Len(Existing) /\ i # Len(Existing)
    BY SMTT(30), <1>1
  <2>3. Existing[i] = Existing[Len(Existing)]
    BY SMTT(30), <1>1, <1>7, <2>1, <2>2
  <2> QED
    BY Zenon, <2>2, <2>3, RepositoryConstants
<1>10. repo \subseteq Objects
  <2>1. \A i \in 1 .. Len(Existing) : FirstPacks[i] \in Packs
    BY Zenon, RepositoryConstants
  <2>2. FirstObjects(Len(Existing)) \subseteq Objects
    BY Zenon, <1>2, <1>3, <2>1 DEF FirstObjects, Objects
  <2> QED
    BY Zenon, <2>2 DEF InitRepository
<1>11. \A p \in gone : Snap(p) \notin repo
  BY Zenon DEF InitRepository
<1> QED
  BY Zenon, <1>3, <1>6, <1>8, <1>9, <1>10, <1>11

(* The inductive invariant holds at the start.                             *)
LEMMA InitInv == Init => IInv
<1> SUFFICES ASSUME NEW h \in Histories, InitRepository(h.gone, h.cast), InitRetirement(h.gone)
             PROVE  IInv
  BY Zenon DEF Init
<1> DEFINE gone == h.gone
<1>1. gone \subseteq {Existing[i] : i \in 1 .. Len(Existing) - 1}
  BY Zenon, RetirementConstants
<1>2. /\ Made = Earlier /\ gone \subseteq Earlier
      /\ lastGood.point \in Earlier \cup {None} /\ lastGood.point \notin gone
      /\ repo \subseteq Objects /\ \A p \in gone : Snap(p) \notin repo
  BY Zenon, <1>1, InitPoints
<1>3. /\ \A s \in Sessions : pc[s] \in {"idle", "done"} /\ left[s] = 0 /\ lease[s] = "none"
      /\ revision = 1 /\ custodian = None /\ torn = {} /\ inflight = {}
      /\ job = [w \in Writers |-> "none"] /\ DOMAIN pc = Sessions
      /\ DOMAIN point = Points /\ DOMAIN proof = Points /\ view = [r \in Readers |-> NoView]
      /\ left = [s \in Sessions |-> 0] /\ lease = [s \in Sessions |-> "none"]
  BY Zenon DEF InitRepository
<1>4. /\ hold = {Snap(p) : p \in gone} /\ catalog.locks = {}
      /\ admitted = {} /\ serving = NoRequest /\ poisoned = FALSE
      /\ DOMAIN intent = Retirers /\ DOMAIN journal = Retirers
      /\ DOMAIN observed = Retirers /\ DOMAIN custody = Retirers /\ DOMAIN gen = Retirers
  BY Zenon DEF InitRetirement
<1>5. ASSUME NEW t \in Retirers, t # Past \/ gone = {}
      PROVE  intent[t] = NoIntent /\ journal[t] = {} /\ gen[t] = NoGeneration
  BY Zenon, <1>5 DEF InitRetirement
<1>6. ASSUME gone # {}
      PROVE  /\ intent[Past].targets = gone /\ intent[Past].survivors = Earlier \ gone
             /\ DOMAIN intent[Past] = DOMAIN NoIntent
             /\ journal[Past] =
                  {[kind |-> "delete", object |-> o, out |-> "quarantined"] : o \in hold}
  BY Zenon, <1>6, RetirementConstants DEF InitRetirement, NoIntent
<1>7. Past \in Retirers /\ Past \notin h.cast
  BY Zenon, RetirementConstants
<1>8. hold \subseteq Objects
  BY Zenon, <1>2, <1>4 DEF Objects, Points
<1>9. \A t \in Retirers : /\ intent[t].targets \subseteq gone
                          /\ intent[t].targets \cap intent[t].survivors = {}
                          /\ DOMAIN intent[t] = DOMAIN NoIntent
  <2> TAKE t \in Retirers
  <2>1. CASE t # Past \/ gone = {}
    <3>1. NoIntent.targets = {} /\ NoIntent.survivors = {}
      BY Zenon DEF NoIntent
    <3> QED
      BY Zenon, <1>5, <2>1, <3>1
  <2>2. CASE t = Past /\ gone # {}
    BY Zenon, <1>6, <2>2
  <2> QED
    BY Zenon, <2>1, <2>2
<1>10. LRTypeOK
  <2>1. 1 \in 1 .. MaxRevision /\ 0 \in -1 .. LeaseTime
    BY BoundsPositive
  <2> QED
    BY Zenon, <1>2, <1>3, <1>8, <1>9, <2>1 DEF LRTypeOK
<1>11. ShapeInv
  <2>1. ASSUME NEW t \in Retirers
        PROVE  journal[t] \subseteq [kind : Kinds, object : Objects,
                                     out : {"open", "created", "quarantined", "uncertain"}]
    BY SMTT(30), <1>5, <1>6, <1>8 DEF Kinds
  <2>2. journal = [t \in Retirers |-> journal[t]]
    BY Zenon DEF InitRetirement
  <2>3. journal \in [Retirers -> SUBSET [kind : Kinds, object : Objects,
                                         out : {"open", "created", "quarantined", "uncertain"}]]
    BY Zenon, <2>1, <2>2
  <2> QED
    BY ZenonT(30), <1>3, <1>4, <1>9, <2>3 DEF ShapeInv
<1>12. LeaseInv
  <2>1. \A t \in Retirers : pc[t] \in Unclaimed => t # Past
    BY Zenon, <1>7 DEF InitRepository, Sessions, Unclaimed
  <2>2. \A t \in Retirers : pc[t] \in Unclaimed \cup {"leased", "custody"} => pc[t] \in Unclaimed
    BY Zenon, <1>3, SessionsApart DEF Unclaimed
  <2>3. \A t \in Retirers : pc[t] \in Unclaimed => gen[t].n = 0 /\ journal[t] = {}
    BY <1>5, <2>1 DEF NoGeneration
  <2>4. \A s \in Sessions : ~Held(s) /\ pc[s] \notin Reading /\ pc[s] \notin Retiring
    BY Zenon, <1>3 DEF Held, Reading, Retiring
  <2> QED
    BY Zenon, <2>2, <2>3, <2>4, SessionsApart DEF LeaseInv
<1>13. CustodyInv
  BY Zenon, <1>3, <1>4, SessionsApart DEF CustodyInv, Held, NoRequest
<1>14. PlanInv
  <2>1. \A t \in Retirers : ~Held(t) /\ pc[t] \notin Retiring
    BY Zenon, <1>3, SessionsApart DEF Held, Retiring
  <2> QED
    BY Zenon, <1>2, <1>9, <2>1 DEF PlanInv
<1>15. PointInv
  <2>1. Retired \subseteq gone
    BY Zenon, <1>9 DEF Retired, Generations
  <2>2. \A w \in Writers : w \notin Made
    BY Zenon, <1>2, RepositoryConstants
  <2>3. \A r \in Readers : pc[r] \notin {"started"} \cup Reading
    BY Zenon, <1>3, SessionsApart DEF Reading
  <2> QED
    BY Zenon, <1>2, <2>1, <2>2, <2>3 DEF PointInv, Reading, LastGoodSurvives
<1>16. FileInv
  BY Zenon, <1>3, SessionsApart DEF FileInv, Held
<1> QED
  BY Zenon, <1>10, <1>11, <1>12, <1>13, <1>14, <1>15, <1>16 DEF IInv

(* At the start every point that has not been retired can be restored.     *)
LEMMA InitPromise == Init => PromiseInv
<1> SUFFICES ASSUME NEW h \in Histories, InitRepository(h.gone, h.cast), InitRetirement(h.gone)
             PROVE  PromiseInv
  BY Zenon DEF Init
<1> DEFINE gone == h.gone
<1>1. gone \subseteq {Existing[i] : i \in 1 .. Len(Existing) - 1}
  BY RetirementConstants
<1>2. Made = Earlier
  BY Zenon, <1>1, InitPoints
<1>3. \A t \in Retirers : pc[t] \notin {"leased", "custody", "mutating", "proved", "settling"}
  BY Zenon, SessionsApart DEF InitRepository
<1>4. gone \subseteq Retired
  <2>1. CASE gone = {}
    BY Zenon, <2>1
  <2>2. CASE gone # {}
    <3>1. Past \in Retirers /\ gen[Past].n = 1 /\ intent[Past].targets = gone
      BY Zenon, <2>2, RetirementConstants DEF InitRetirement
    <3>2. Past \in Generations
      BY <3>1 DEF Generations
    <3> QED
      BY Zenon, <3>1, <3>2 DEF Retired
  <2> QED
    BY Zenon, <2>1, <2>2
<1>5. ASSUME NEW p \in Earlier \ gone
      PROVE  Restorable(p)
  <2>1. PICK i \in 1 .. Len(Existing) : Existing[i] = p
    BY Zenon DEF Earlier
  <2>2. Len(Existing) \in Nat
    BY RepositoryConstants
  <2>3. repo \ torn = FirstObjects(Len(Existing)) \ {Snap(q) : q \in gone}
    BY Zenon DEF InitRepository
  <2>4. Snap(p) \in repo \ torn
    <3>1. Snap(p) \in FirstObjects(Len(Existing))
      BY Zenon, <2>1 DEF FirstObjects
    <3> QED
      BY <2>3, <3>1, SnapNames
  <2>5. ASSUME NEW c \in Needs[p]
        PROVE  \E o \in repo \ torn : o.type = "data" /\ c \in Holds[o.name]
    <3>1. PICK j \in 1 .. i : c \in Holds[FirstPacks[j]]
      BY Zenon, <2>1, RepositoryConstants
    <3>2. j \in 1 .. Len(Existing)
      BY <2>1, <2>2
    <3>3. Pack(FirstPacks[j]) \in FirstObjects(Len(Existing))
      BY Zenon, <3>2 DEF FirstObjects
    <3>4. Pack(FirstPacks[j]).type = "data" /\ Pack(FirstPacks[j]).name = FirstPacks[j]
      BY Zenon DEF Pack
    <3>5. Pack(FirstPacks[j]) \in repo \ torn
      BY Zenon, <2>3, <3>3, <3>4, SnapNames
    <3> QED
      BY Zenon, <3>1, <3>4, <3>5
  <2> QED
    BY Zenon, <2>4, <2>5 DEF Restorable, RestorableFrom
<1>6. Verified \ Retired \subseteq Earlier \ gone
  BY Zenon, <1>2, <1>4 DEF Verified
<1> QED
  BY Zenon, <1>3, <1>5, <1>6 DEF PromiseInv, PromisesRestorable

(* Every step keeps the inductive invariant.                               *)
LEMMA NextInv == ASSUME IInv, [Next]_vars PROVE IInv'
<1>1. CASE Next
  BY Zenon, <1>1, TypeStep, ShapeStep, LeaseStep, CustodyStep, PlanStep, PointStep, FileStep
     DEF IInv
<1>2. CASE UNCHANGED vars
  <2> USE <1>2 DEF vars, repositoryVars, retirementVars, clockVars, fileVars, rowVars, planVars,
          restVars, journalVars, settleVars
  <2>1. TypeFrame /\ ShapeFrame
    BY Zenon DEF TypeFrame, ShapeFrame, IInv, ShapeInv
  <2>2. LeaseFrame /\ CustodyFrame
    BY Zenon DEF LeaseFrame, CustodyFrame, Held, Live
  <2>3. PlanFrame /\ PointFrame
    BY Zenon DEF PlanFrame, PointFrame, Held, Live
  <2>4. FileFrame
    BY Zenon DEF FileFrame, Held, Live
  <2> QED
    BY ZenonT(30), <2>1, <2>2, <2>3, <2>4, TypeFrameKeeps, ShapeFrameKeeps, LeaseFrameKeeps,
       CustodyFrameKeeps, PlanFrameKeeps, PointFrameKeeps, FileFrameKeeps DEF IInv
<1> QED
  BY Zenon, <1>1, <1>2

(* The inductive invariant always holds.                                   *)
THEOREM IInvHolds == Spec => []IInv
<1>1. Init => IInv
  BY Zenon, InitInv
<1>2. IInv /\ [Next]_vars => IInv'
  BY Zenon, NextInv
<1> QED
  BY <1>1, <1>2, PTL DEF Spec

(* The retirements that have published are finitely many.                  *)
LEMMA LatestCounts == Latest \in Nat
  BY Zenon, RetirementConstants DEF Latest, Generations

(* No complete object disappears, no point or proof changes, no retirement *)
(* ends, and none goes further.  A retirement that looks at the directory  *)
(* finds the snapshot of every point that was promised, and nothing else:  *)
(* so each of them is a target or a survivor, although the rows it was     *)
(* drafted from may have been older.                                       *)
PromiseFrame ==
    /\ repo \ torn \subseteq repo' \ torn'
    /\ UNCHANGED <<point, proof, gen>>
    /\ \A t \in Retirers :
          /\ gen[t].n > 0 => intent'[t].targets = intent[t].targets
          /\ Held(t) => Held(t)'
          /\ pc'[t] \in {"leased", "custody"} => pc[t] \in {"leased", "custody"}
          /\ pc'[t] \in {"mutating", "proved", "settling"} =>
                /\ pc[t] \in {"mutating", "proved", "settling"}
                /\ intent'[t].targets = intent[t].targets
                /\ intent'[t].survivors = intent[t].survivors

(* Such a step keeps the promise.                                          *)
LEMMA PromiseFrameKeeps == ASSUME IInv, PromiseInv, PromiseFrame PROVE PromiseInv'
<1>1. Verified' = Verified /\ Retired' = Retired
  BY Zenon DEF PromiseFrame, Verified, Made, Retired, Generations
<1>2. \A p : Restorable(p) => Restorable(p)'
  BY Zenon, RestorableGrows DEF PromiseFrame, Restorable
<1>3. (\A t \in Retirers : ~Held(t)') => \A t \in Retirers : ~Held(t)
  BY Zenon DEF PromiseFrame
<1>4. PromisesRestorable'
  BY Zenon, <1>1, <1>2, <1>3 DEF PromiseInv, PromisesRestorable
<1>5. ASSUME NEW t \in Retirers, pc'[t] \in {"leased", "custody"}
      PROVE  \A p \in Verified' \ Retired' : Restorable(p)'
  BY Zenon, <1>1, <1>2, <1>5 DEF PromiseInv, PromiseFrame
<1>6. ASSUME NEW t \in Retirers, pc'[t] \in {"mutating", "proved", "settling"}
      PROVE  Verified' \ Retired' \subseteq intent'[t].targets \cup intent'[t].survivors
  BY Zenon, <1>1, <1>6 DEF PromiseInv, PromiseFrame
<1> QED
  BY Zenon, <1>4, <1>5, <1>6 DEF PromiseInv

(* Taking such a lease is such a step.                                     *)
LEMMA PromiseLeaseTaken == ASSUME NEW s, LeaseTaken(s) PROVE PromiseFrame
BY Zenon DEF LeaseTaken, PromiseFrame, Held

(* The steps of a backup run keep the promise.                             *)
LEMMA PromiseBackup ==
    ASSUME IInv, PromiseInv, NEW w \in Writers, BackupStep(w)
    PROVE  PromiseInv'
<1> USE SessionsApart, Domains DEF clockVars, fileVars, rowVars,
   repositoryVars, planVars, restVars, journalVars, settleVars, retirementVars
<1>1. ASSUME Beside(StartBackup(w)) \/ Beside(AcquireBackupWriterLease(w))
      PROVE  PromiseFrame
  <2>1. CASE Beside(AcquireBackupWriterLease(w))
    BY Zenon, <2>1, WriterLeaseTaken, PromiseLeaseTaken
  <2>2. CASE Beside(StartBackup(w))
    BY Zenon, <2>2 DEF Beside, StartBackup, StartRun, PromiseFrame, Held
  <2> QED BY Zenon, <1>1, <2>1, <2>2
<1>2. ASSUME Beside(WriterRefused(w)) \/ Beside(OpenSession(w))
      PROVE  PromiseFrame
  BY ZenonT(30), <1>2 DEF Beside, WriterRefused, OpenSession, OpenCustody, PromiseFrame,
     Held
<1>3. ASSUME Beside(OpenRejected(w)) \/ Beside(BackupFails(w))
      PROVE  PromiseFrame
  BY Zenon, <1>3 DEF Beside, OpenRejected, CustodyRejected, BackupFails,
     PromiseFrame, Held
<1>4. ASSUME NEW o \in Objects, Beside(PutObject(w, o))
      PROVE  PromiseFrame
  BY Zenon, <1>4 DEF Beside, PutObject, PromiseFrame, Held, IInv, LRTypeOK
<1>5. CASE Beside(AppendPendingRecoveryPoint(w, Era))
  <2>1. /\ UNCHANGED <<gen, intent, repo, torn, proof>> /\ Held(w) /\ Restorable(w)
        /\ \A p \in Points : p # w => point'[p] = point[p]
        /\ \A t \in Retirers : pc'[t] = pc[t]
    BY ZenonT(30), <1>5 DEF Beside, AppendPendingRecoveryPoint
  <2>2. \A t \in Retirers : ~Held(t) /\ pc[t] \notin Retiring
    BY Zenon, <2>1 DEF IInv, LeaseInv
  <2>3. Retired' = Retired /\ \A p : Restorable(p)' <=> Restorable(p)
    BY Zenon, <2>1, SameRetired, SameRestorable
  <2>4. Verified' \subseteq Verified \cup {w}
    BY Zenon, <2>1 DEF Verified, Made
  <2>5. \A p \in Verified' \ Retired' : Restorable(p)'
    BY Zenon, <2>1, <2>2, <2>3, <2>4 DEF PromiseInv, PromisesRestorable
  <2> QED
    BY Zenon, <2>1, <2>2, <2>5 DEF PromiseInv, PromisesRestorable, Retiring
<1>6. ASSUME Beside(CloseBackup(w)) \/ Beside(FinishBackup(w))
      PROVE  PromiseFrame
  <2>1. CASE Beside(CloseBackup(w))
    BY Zenon, <2>1 DEF Beside, CloseBackup, ReleaseFlock, PromiseFrame, Held
  <2>2. CASE Beside(FinishBackup(w))
    BY Zenon, <2>2 DEF Beside, FinishBackup, PromiseFrame, Held
  <2> QED
    BY Zenon, <1>6, <2>1, <2>2
<1> HIDE SessionsApart, Domains DEF clockVars, fileVars, rowVars,
   repositoryVars, planVars, restVars, journalVars, settleVars, retirementVars
<1> QED
  BY ZenonT(30), <1>1, <1>2, <1>3, <1>4, <1>5, <1>6, PromiseFrameKeeps DEF BackupStep

(* A handler that finishes a PUT keeps the promise.                        *)
LEMMA PromiseHandler ==
    ASSUME IInv, PromiseInv, NEW o \in inflight, HandlerStep(o)
    PROVE  PromiseInv'
<1> USE SessionsApart, Domains DEF clockVars, fileVars, rowVars,
   repositoryVars, planVars, restVars, journalVars, settleVars, retirementVars
<1>1. ASSUME Beside(CompletePut(o))
      PROVE  PromiseFrame
  BY Zenon, <1>1 DEF Beside, CompletePut, PromiseFrame, Held
<1>2. ASSUME Beside(AbortPut(o))
      PROVE  PromiseFrame
  BY Zenon, <1>2, AbortTakesTorn DEF Beside, PromiseFrame, Held
<1> HIDE SessionsApart, Domains DEF clockVars, fileVars, rowVars,
   repositoryVars, planVars, restVars, journalVars, settleVars, retirementVars
<1> QED
  BY Zenon, <1>1, <1>2, PromiseFrameKeeps DEF HandlerStep

(* The steps of a verification run keep the promise.                       *)
LEMMA PromiseVerify ==
    ASSUME IInv, PromiseInv, NEW r \in Readers, VerifyStep(r)
    PROVE  PromiseInv'
<1> USE SessionsApart, Domains DEF clockVars, fileVars, rowVars,
   repositoryVars, planVars, restVars, journalVars, settleVars, retirementVars
<1>1. ASSUME NEW p \in Made, Beside(StartVerify(r, p, SuccessorFor(p)))
      PROVE  PromiseFrame
  BY Zenon, <1>1 DEF Beside, StartVerify, StartRun, PromiseFrame, Held
<1>2. ASSUME Beside(AcquireBackupReadLease(r)) \/ Beside(ReaderRefused(r))
      PROVE  PromiseFrame
  <2>1. CASE Beside(AcquireBackupReadLease(r))
    BY Zenon, <2>1, ReadLeaseTaken, PromiseLeaseTaken
  <2>2. CASE Beside(ReaderRefused(r))
    BY Zenon, <2>2 DEF Beside, ReaderRefused, PromiseFrame, Held
  <2> QED BY Zenon, <1>2, <2>1, <2>2
<1>3. ASSUME Beside(OpenSession(r)) \/ Beside(OpenRejected(r))
      PROVE  PromiseFrame
  BY Zenon, <1>3 DEF Beside, OpenSession, OpenCustody, OpenRejected, CustodyRejected,
     PromiseFrame, Held
<1>4. ASSUME \/ Beside(InspectPoint(r, EffectiveObjects(view[r].point, view[r].gen)))
             \/ Beside(CurrentLocalLastGood(r))
      PROVE  PromiseFrame
  BY Zenon, <1>4 DEF Beside, InspectPoint, CurrentLocalLastGood, PromiseFrame, Held
<1>5. CASE Beside(AppendLocalVerification(r))
  <2>1. /\ UNCHANGED <<gen, intent, repo, torn, point>> /\ Held(r) /\ Restorable(view[r].point)
        /\ \A p \in Points : p # view[r].point => proof'[p] = proof[p]
        /\ \A t \in Retirers : pc'[t] = pc[t]
    BY ZenonT(30), <1>5 DEF Beside, AppendLocalVerification, IInv, FileInv
  <2>2. \A t \in Retirers : ~Held(t) /\ pc[t] \notin Retiring
    BY ZenonT(30), <2>1 DEF IInv, LeaseInv
  <2>3. Retired' = Retired /\ \A p : Restorable(p)' <=> Restorable(p)
    BY Zenon, <2>1, SameRetired, SameRestorable
  <2>4. Verified' \subseteq Verified \cup {view[r].point}
    BY Zenon, <2>1 DEF Verified, Made
  <2>5. \A p \in Verified' \ Retired' : Restorable(p)'
    BY Zenon, <2>1, <2>2, <2>3, <2>4 DEF PromiseInv, PromisesRestorable
  <2> QED
    BY Zenon, <2>1, <2>2, <2>5 DEF PromiseInv, PromisesRestorable, Retiring
<1>6. ASSUME Beside(AdvanceLocalLastGood(r)) \/ Beside(VerifyFails(r))
      PROVE  PromiseFrame
  BY Zenon, <1>6 DEF Beside, AdvanceLocalLastGood, VerifyFails, PromiseFrame, Held
<1>7. ASSUME Beside(CloseVerify(r)) \/ Beside(ReleaseBackupReadLease(r))
      PROVE  PromiseFrame
  <2>1. CASE Beside(CloseVerify(r))
    BY Zenon, <2>1 DEF Beside, CloseVerify, ReleaseFlock, PromiseFrame, Held
  <2>2. CASE Beside(ReleaseBackupReadLease(r))
    BY ZenonT(30), <2>2 DEF Beside, ReleaseBackupReadLease, PromiseFrame, Held
  <2> QED
    BY Zenon, <1>7, <2>1, <2>2
<1> HIDE SessionsApart, Domains DEF clockVars, fileVars, rowVars,
   repositoryVars, planVars, restVars, journalVars, settleVars, retirementVars
<1> QED
  BY Zenon, <1>1, <1>2, <1>3, <1>4, <1>5, <1>6, <1>7, PromiseFrameKeeps DEF
     VerifyStep

(* The requests restic sends to the REST server keep the promise.          *)
LEMMA PromiseRequest ==
    ASSUME IInv, PromiseInv, NEW t \in Retirers, RequestStep(t)
    PROVE  PromiseInv'
<1> USE SessionsApart, Domains DEF clockVars, fileVars, rowVars,
   repositoryVars, planVars, restVars, journalVars, settleVars, retirementVars
<1>1. ASSUME NEW kind \in Kinds, NEW o \in Objects, AdmitRequest(t, kind, o)
      PROVE  PromiseFrame
  BY Zenon, <1>1 DEF AdmitRequest, PromiseFrame, Held
<1>2. ASSUME NEW request \in admitted, \/ BeginLocalMutation(t, request)
                                       \/ DenyMutation(t, request)
      PROVE  PromiseFrame
  BY Zenon, <1>2 DEF BeginLocalMutation, MutationCurrent, DenyMutation, PromiseFrame,
     Held
<1>3. ASSUME NEW request \in admitted, RefuseMutation(t, request)
      PROVE  PromiseFrame
  BY Zenon, <1>3 DEF RefuseMutation, MutationCurrent, PromiseFrame, Held
<1>4. CASE LandMutation(t)
  <2>1. /\ UNCHANGED <<gen, intent, point, proof, pc, lease>>
        /\ custodian = t /\ serving # NoRequest
    BY <1>4 DEF LandMutation, NoRequest
  <2>2. Held(t) /\ pc[t] \notin {"leased", "custody"}
    BY ZenonT(30), <2>1, Alone DEF IInv, CustodyInv
  <2>3. \A u \in Retirers : u # t => pc[u] \notin Retiring
    BY ZenonT(30), <2>2, Alone DEF IInv, LeaseInv
  <2>4. Verified' = Verified /\ Retired' = Retired /\ Held(t)'
    BY SMTT(30), <2>1, <2>2 DEF Verified, Made, Retired, Generations, Held
  <2> QED
    BY Zenon, <2>1, <2>2, <2>3, <2>4 DEF PromiseInv, PromisesRestorable, Retiring
<1>5. ASSUME FinishLocalMutation(t) \/ FinishRetainedUncertain(t)
      PROVE  PromiseFrame
  BY Zenon, <1>5 DEF FinishLocalMutation, Settle, FinishRetainedUncertain,
     PromiseFrame, Held
<1>6. ASSUME FinishLost(t)
      PROVE  PromiseFrame
  BY Zenon, <1>6 DEF FinishLost, PromiseFrame, Held
<1> HIDE SessionsApart, Domains DEF clockVars, fileVars, rowVars,
   repositoryVars, planVars, restVars, journalVars, settleVars, retirementVars
<1> QED
  BY Zenon, <1>1, <1>2, <1>3, <1>4, <1>5, <1>6, PromiseFrameKeeps DEF RequestStep

(* The steps of a retirement run keep the promise.                         *)
LEMMA PromiseRetire ==
    ASSUME IInv, PromiseInv, NEW t \in Retirers, RetireStep(t)
    PROVE  PromiseInv'
<1> USE SessionsApart, Domains DEF clockVars, fileVars, rowVars,
   repositoryVars, planVars, restVars, journalVars, settleVars, retirementVars
<1>1. ASSUME Draft(t)
      PROVE  PromiseFrame
  <2>1. /\ UNCHANGED <<point, proof, gen, repo, torn, lease>> 
        /\ pc[t] = "idle" /\ pc'[t] = "drafted"
        /\ \A u \in Retirers : u # t => intent'[u] = intent[u]
        /\ \A s \in Sessions : s # t => pc'[s] = pc[s]
    BY Zenon, <1>1 DEF Draft
  <2>2. gen[t].n = 0
    BY Zenon, <2>1, Alone DEF Unclaimed
  <2> QED
    BY <2>1, <2>2 DEF PromiseFrame, Held
<1>2. ASSUME PlanRetirement(t)
      PROVE  PromiseFrame
  BY Zenon, <1>2 DEF PlanRetirement, PromiseFrame, Held, NoIntent
<1>3. ASSUME StageLocalRetirement(t) \/ ClaimRefused(t)
      PROVE  PromiseFrame
  BY ZenonT(30), <1>3 DEF StageLocalRetirement, ClaimRefused, PromiseFrame, Held
<1>4. CASE ClaimLocalRetirement(t)
  <2>1. /\ UNCHANGED <<gen, intent, point, proof, repo, torn>> /\ ~Competing
        /\ Held(t)' /\ pc'[t] = "leased" /\ \A u \in Retirers : u # t => pc'[u] = pc[u]
    BY Zenon, <1>4 DEF ClaimLocalRetirement, ClaimAdmits, Held
  <2>2. \A u \in Retirers : ~Held(u) /\ pc[u] \notin Retiring
    BY ZenonT(30), <2>1, Alone DEF Competing
  <2>3. /\ Verified' = Verified /\ Retired' = Retired
        /\ \A p : Restorable(p)' <=> Restorable(p)
    BY SMTT(30), <2>1 DEF Verified, Made, Retired, Generations, Restorable
  <2>4. \A p \in Verified' \ Retired' : Restorable(p)'
    BY Zenon, <2>2, <2>3 DEF PromiseInv, PromisesRestorable
  <2> QED
    BY Zenon, <2>1, <2>2, <2>4 DEF PromiseInv, PromisesRestorable, Retiring
<1>5. ASSUME OpenRetirement(t) \/ PostCheck(t)
      PROVE  PromiseFrame
  BY ZenonT(30), <1>5 DEF OpenRetirement, OpenCustody, PostCheck, PromiseFrame, Held
<1>6. CASE PreCheck(t)
  <2>1. /\ UNCHANGED <<gen, intent, point, proof, repo, torn, lease>>
        /\ pc[t] = "custody" /\ pc'[t] = "mutating"
        /\ \A u \in Retirers : u # t => pc'[u] = pc[u]
        /\ Snapshots(repo) = {Snap(p) : p \in intent[t].targets \cup intent[t].survivors}
    BY Zenon, <1>6 DEF PreCheck
  <2>2. /\ Verified' = Verified /\ Retired' = Retired
        /\ \A p : Restorable(p)' <=> Restorable(p)
    BY <2>1 DEF Verified, Made, Retired, Generations, Restorable
  <2>3. ASSUME NEW p \in Verified \ Retired
        PROVE  p \in intent[t].targets \cup intent[t].survivors
    <3>1. Snap(p) \in repo
      BY Zenon, <2>1 DEF PromiseInv, Restorable, RestorableFrom
    <3>2. Snap(p) \in {Snap(q) : q \in intent[t].targets \cup intent[t].survivors}
      BY Zenon, <2>1, <3>1, SnapNames DEF Snapshots
    <3> QED
      BY Zenon, <3>2, SnapNames
  <2>4. Held(t) /\ Held(t)' /\ \A u \in Retirers : u # t => pc[u] \notin Retiring
    BY Zenon, <2>1, Alone DEF IInv, LeaseInv, Retiring, Held
  <2> QED
    BY Zenon, <2>1, <2>2, <2>3, <2>4 DEF PromiseInv, PromisesRestorable, Retiring
<1>7. ASSUME CloseRetirement(t) \/ RetireFails(t)
      PROVE  PromiseFrame
  BY ZenonT(30), <1>7 DEF CloseRetirement, ReleaseFlock, StopServer, RetireFails,
     PromiseFrame, Held
<1>8. CASE CommitLocalRetirementSuccess(t)
  <2>1. /\ UNCHANGED <<intent, point, proof, repo, torn>> /\ Held(t)
        /\ pc[t] = "settling" /\ pc'[t] = "done" /\ gen'[t].n = Latest + 1
        /\ \A u \in Retirers : u # t => pc'[u] = pc[u] /\ gen'[u] = gen[u]
    BY Zenon, <1>8 DEF CommitLocalRetirementSuccess
  <2>2. \A u \in Retirers : u # t => pc[u] \notin Retiring
    BY Zenon, <2>1, Alone DEF IInv, LeaseInv
  <2>3. Verified' = Verified /\ \A p : Restorable(p)' <=> Restorable(p)
    BY Zenon, <2>1 DEF Verified, Made, Restorable
  <2>4. Retired \cup intent[t].targets \subseteq Retired'
    <3>1. Generations \cup {t} \subseteq Generations'
      BY <2>1, LatestCounts DEF Generations
    <3> QED
      BY ZenonT(30), <2>1, <3>1 DEF Retired
  <2>5. \A p \in Verified' \ Retired' : Restorable(p)'
    BY Zenon, <2>1, <2>3, <2>4 DEF PromiseInv, IInv, FileInv
  <2> QED
    BY ZenonT(30), <2>1, <2>2, <2>5 DEF PromiseInv, PromisesRestorable, Retiring
<1> HIDE SessionsApart, Domains DEF clockVars, fileVars, rowVars,
   repositoryVars, planVars, restVars, journalVars, settleVars, retirementVars
<1> QED
  BY ZenonT(30), <1>1, <1>2, <1>3, <1>4, <1>5, <1>6, <1>7, <1>8, PromiseRequest,
     PromiseFrameKeeps DEF RetireStep

(* Time, declarations, lock catalogs and crashes keep the promise.         *)
LEMMA PromiseEnvironment ==
    ASSUME IInv, PromiseInv, Environment
    PROVE  PromiseInv'
<1> USE SessionsApart, Domains DEF clockVars, fileVars, rowVars,
   repositoryVars, planVars, restVars, journalVars, settleVars, retirementVars
<1>1. ASSUME Declare \/ Tick
      PROVE  PromiseFrame
  BY Zenon, <1>1 DEF Declare, Tick, Age, PromiseFrame, Held
<1>2. ASSUME NEW locks \in {c \in Catalogs : c \subseteq Made},
             ActivateLocalRetentionLockCatalog(locks)
      PROVE  PromiseFrame
  BY Zenon, <1>2 DEF ActivateLocalRetentionLockCatalog, PromiseFrame, Held
<1>3. ASSUME Crash
      PROVE  PromiseFrame
  BY Zenon, <1>3 DEF Crash, PromiseFrame, Held, Running, Resting
<1>4. ASSUME CustodianDies
      PROVE  PromiseFrame
  BY Zenon, <1>4 DEF CustodianDies, StopServer, PromiseFrame, Held
<1> HIDE SessionsApart, Domains DEF clockVars, fileVars, rowVars,
   repositoryVars, planVars, restVars, journalVars, settleVars, retirementVars
<1> QED
  BY Zenon, <1>1, <1>2, <1>3, <1>4, PromiseFrameKeeps DEF Environment

(* Every step keeps the promise.                                           *)
LEMMA PromiseStep == ASSUME IInv, PromiseInv, Next PROVE PromiseInv'
BY Zenon, PromiseBackup, PromiseHandler, PromiseVerify, PromiseRetire,
   PromiseEnvironment DEF Next

(* No proof, no generation, no point and no file changes.  The other steps *)
(* record a proof only of a point that can be restored, publish a          *)
(* generation only over the repository it describes, and touch nothing     *)
(* that a stopped retirement has left.                                     *)
GuardFrame == UNCHANGED <<proof, gen, point, lastGood, repo, torn, hold>>

(* Such a step records only what is true and leaves stopped retirements alone.                 *)
LEMMA GuardFrameKeeps == ASSUME GuardFrame PROVE ProofStep /\ PublicationStep /\ StoppedStep
BY Zenon DEF GuardFrame, ProofStep, PublicationStep, StoppedStep

(* The steps of a backup run record only what is true and leave stopped retirements alone.    *)
LEMMA GuardedBackup ==
    ASSUME IInv, NEW w \in Writers, BackupStep(w)
    PROVE  ProofStep /\ PublicationStep /\ StoppedStep
<1> USE SessionsApart, Domains DEF clockVars, fileVars, rowVars,
   repositoryVars, planVars, restVars, journalVars, settleVars, retirementVars
<1>1. ASSUME \/ Beside(StartBackup(w))
             \/ Beside(AcquireBackupWriterLease(w))
             \/ Beside(WriterRefused(w))
             \/ Beside(OpenSession(w))
             \/ Beside(OpenRejected(w))
             \/ Beside(BackupFails(w))
             \/ Beside(CloseBackup(w))
             \/ Beside(FinishBackup(w))
      PROVE  GuardFrame
  BY Zenon, <1>1 DEF Beside, StartBackup, StartRun, AcquireBackupWriterLease,
     StartClock, WriterRefused, OpenSession, OpenCustody, OpenRejected,
     CustodyRejected, BackupFails, CloseBackup, ReleaseFlock, FinishBackup,
     GuardFrame
<1>2. ASSUME NEW o \in Objects, Beside(PutObject(w, o))
      PROVE  ProofStep /\ PublicationStep /\ StoppedStep
  <2>1. UNCHANGED <<proof, gen, point, lastGood>> /\ custodian \in Writers
    BY Zenon, <1>2, Alone DEF Beside, PutObject
  <2>2. \A t \in Retirers : Held(t) /\ journal[t] # {} => custodian = t
    BY Zenon, <2>1, Alone
  <2> QED
    BY Zenon, <2>1, <2>2 DEF ProofStep, PublicationStep, StoppedStep
<1>3. CASE Beside(AppendPendingRecoveryPoint(w, Era))
  <2>1. UNCHANGED <<proof, gen, repo, torn, hold>> /\ Held(w)
    BY Zenon, <1>3 DEF Beside, AppendPendingRecoveryPoint
  <2>2. \A t \in Retirers : ~Held(t)
    BY ZenonT(30), <2>1 DEF IInv, LeaseInv
  <2> QED
    BY Zenon, <2>1, <2>2 DEF ProofStep, PublicationStep, StoppedStep
<1> HIDE SessionsApart, Domains DEF clockVars, fileVars, rowVars,
   repositoryVars, planVars, restVars, journalVars, settleVars, retirementVars
<1> QED
  BY Zenon, <1>1, <1>2, <1>3, GuardFrameKeeps DEF BackupStep

(* A handler that finishes a PUT keeps what it finds from being            *)
(* misrecorded.                                                            *)
LEMMA GuardedHandler ==
    ASSUME IInv, NEW o \in inflight, HandlerStep(o)
    PROVE  ProofStep /\ PublicationStep /\ StoppedStep
<1> USE SessionsApart, Domains DEF clockVars, fileVars, rowVars,
   repositoryVars, planVars, restVars, journalVars, settleVars, retirementVars
<1>1. CASE Beside(CompletePut(o))
  <2>1. UNCHANGED <<proof, gen, point, lastGood>> /\ custodian \in Writers
    BY Zenon, <1>1, Alone DEF Beside, CompletePut
  <2>2. \A t \in Retirers : Held(t) /\ journal[t] # {} => custodian = t
    BY Zenon, <2>1, Alone
  <2> QED
    BY Zenon, <2>1, <2>2 DEF ProofStep, PublicationStep, StoppedStep
<1>2. CASE Beside(AbortPut(o))
  <2>1. UNCHANGED <<proof, gen, point, lastGood>> /\ custodian \in Writers
    BY Zenon, <1>2, Alone DEF Beside, AbortPut
  <2>2. \A t \in Retirers : Held(t) /\ journal[t] # {} => custodian = t
    BY <2>1, Alone
  <2> QED
    BY Zenon, <2>1, <2>2 DEF ProofStep, PublicationStep, StoppedStep
<1> HIDE SessionsApart, Domains DEF clockVars, fileVars, rowVars,
   repositoryVars, planVars, restVars, journalVars, settleVars, retirementVars
<1> QED
  BY Zenon, <1>1, <1>2 DEF HandlerStep

(* The steps of a verification run keep what it finds from being           *)
(* misrecorded.                                                            *)
LEMMA GuardedVerify ==
    ASSUME IInv, NEW r \in Readers, VerifyStep(r)
    PROVE  ProofStep /\ PublicationStep /\ StoppedStep
<1> USE SessionsApart, Domains DEF clockVars, fileVars, rowVars,
   repositoryVars, planVars, restVars, journalVars, settleVars, retirementVars
<1>1. ASSUME NEW p \in Made, Beside(StartVerify(r, p, SuccessorFor(p)))
      PROVE  GuardFrame
  BY Zenon, <1>1 DEF Beside, StartVerify, StartRun, GuardFrame
<1>2. ASSUME \/ Beside(AcquireBackupReadLease(r))
             \/ Beside(ReaderRefused(r))
             \/ Beside(OpenSession(r))
             \/ Beside(OpenRejected(r))
             \/ Beside(InspectPoint(r, EffectiveObjects(view[r].point, view[r].gen)))
             \/ Beside(CurrentLocalLastGood(r))
             \/ Beside(VerifyFails(r))
             \/ Beside(CloseVerify(r))
      PROVE  GuardFrame
  BY Zenon, <1>2 DEF Beside, AcquireBackupReadLease, StartClock, ReaderRefused,
     OpenSession, OpenCustody, OpenRejected, CustodyRejected, InspectPoint,
     CurrentLocalLastGood, VerifyFails, CloseVerify, ReleaseFlock, GuardFrame
<1>3. CASE Beside(AppendLocalVerification(r))
  <2>1. /\ UNCHANGED <<gen, repo, torn, hold>> /\ Held(r) /\ Restorable(view[r].point)
        /\ \A p \in Points : p # view[r].point => proof'[p] = proof[p]
    BY ZenonT(30), <1>3 DEF Beside, AppendLocalVerification, IInv, FileInv
  <2>2. \A t \in Retirers : ~Held(t)
    BY ZenonT(30), <2>1 DEF IInv, LeaseInv
  <2> QED
    BY Zenon, <2>1, <2>2 DEF ProofStep, PublicationStep, StoppedStep
<1>4. CASE Beside(AdvanceLocalLastGood(r))
  <2>1. UNCHANGED <<proof, gen, point, repo, torn, hold>> /\ pc[r] = "advancing" /\ Live(r)
    BY Zenon, <1>4 DEF Beside, AdvanceLocalLastGood
  <2>2. \A t \in Retirers : ~Held(t)
    BY ZenonT(30), <2>1 DEF IInv, LeaseInv, Reading
  <2> QED
    BY Zenon, <2>1, <2>2 DEF ProofStep, PublicationStep, StoppedStep
<1>5. ASSUME Beside(ReleaseBackupReadLease(r))
      PROVE  GuardFrame
  BY Zenon, <1>5 DEF Beside, ReleaseBackupReadLease, GuardFrame
<1> HIDE SessionsApart, Domains DEF clockVars, fileVars, rowVars,
   repositoryVars, planVars, restVars, journalVars, settleVars, retirementVars
<1> QED
  BY ZenonT(30), <1>1, <1>2, <1>3, <1>4, <1>5, GuardFrameKeeps DEF VerifyStep

(* The requests restic sends to the REST server keep what it finds from    *)
(* being misrecorded.                                                      *)
LEMMA GuardedRequest ==
    ASSUME IInv, NEW t \in Retirers, RequestStep(t)
    PROVE  ProofStep /\ PublicationStep /\ StoppedStep
<1> USE SessionsApart, Domains DEF clockVars, fileVars, rowVars,
   repositoryVars, planVars, restVars, journalVars, settleVars, retirementVars
<1>1. ASSUME NEW kind \in Kinds, NEW o \in Objects, AdmitRequest(t, kind, o)
      PROVE  GuardFrame
  BY Zenon, <1>1 DEF AdmitRequest, GuardFrame
<1>2. ASSUME NEW request \in admitted, \/ BeginLocalMutation(t, request)
                                       \/ DenyMutation(t, request)
                                       \/ RefuseMutation(t, request)
      PROVE  GuardFrame
  BY Zenon, <1>2 DEF BeginLocalMutation, MutationCurrent, DenyMutation,
     RefuseMutation, GuardFrame
<1>3. CASE LandMutation(t)
  <2>1. UNCHANGED <<proof, gen, point, lastGood>> /\ custodian = t
    BY Zenon, <1>3 DEF LandMutation
  <2>2. \A u \in Retirers : Held(u) /\ journal[u] # {} => custodian = u
    BY Zenon, <2>1, Alone
  <2> QED
    BY Zenon, <2>1, <2>2 DEF ProofStep, PublicationStep, StoppedStep
<1>4. ASSUME FinishLocalMutation(t) \/ FinishRetainedUncertain(t) \/ FinishLost(t)
      PROVE  GuardFrame
  BY Zenon, <1>4 DEF FinishLocalMutation, Settle, FinishRetainedUncertain,
     FinishLost, GuardFrame
<1> HIDE SessionsApart, Domains DEF clockVars, fileVars, rowVars,
   repositoryVars, planVars, restVars, journalVars, settleVars, retirementVars
<1> QED
  BY Zenon, <1>1, <1>2, <1>3, <1>4, GuardFrameKeeps DEF RequestStep

(* The steps of a retirement run keep what it finds from being             *)
(* misrecorded.                                                            *)
LEMMA GuardedRetire ==
    ASSUME IInv, NEW t \in Retirers, RetireStep(t)
    PROVE  ProofStep /\ PublicationStep /\ StoppedStep
<1> USE SessionsApart, Domains DEF clockVars, fileVars, rowVars,
   repositoryVars, planVars, restVars, journalVars, settleVars, retirementVars
<1>1. ASSUME \/ Draft(t)
             \/ PlanRetirement(t)
             \/ StageLocalRetirement(t)
             \/ ClaimLocalRetirement(t)
             \/ ClaimRefused(t)
             \/ OpenRetirement(t)
             \/ PreCheck(t)
             \/ PostCheck(t)
      PROVE  GuardFrame
  BY Zenon, <1>1 DEF Draft, PlanRetirement, StageLocalRetirement,
     ClaimLocalRetirement, StartClock, ClaimRefused, OpenRetirement,
     OpenCustody, PreCheck, PostCheck, GuardFrame
<1>2. ASSUME CloseRetirement(t) \/ RetireFails(t)
      PROVE  GuardFrame
  BY Zenon, <1>2 DEF CloseRetirement, ReleaseFlock, StopServer, RetireFails,
     GuardFrame
<1>3. CASE CommitLocalRetirementSuccess(t)
  <2>1. /\ UNCHANGED <<proof, point, lastGood, repo, torn, hold>>
        /\ pc[t] = "settling" /\ Held(t) /\ gen'[t].objects = observed[t]
        /\ \A u \in Retirers : u # t => gen'[u] = gen[u]
    BY Zenon, <1>3 DEF CommitLocalRetirementSuccess
  <2>2. /\ catalog.locks \subseteq intent[t].survivors /\ lastGood.point \in intent[t].survivors
        /\ repo = observed[t]
        /\ Snapshots(repo) = {Snap(p) : p \in intent[t].survivors}
        /\ \A p \in intent[t].survivors : Restorable(p)
    BY Zenon, <2>1 DEF IInv, PlanInv, FileInv, Retiring
  <2> QED
    BY Zenon, <2>1, <2>2 DEF ProofStep, PublicationStep, StoppedStep
<1> HIDE SessionsApart, Domains DEF clockVars, fileVars, rowVars,
   repositoryVars, planVars, restVars, journalVars, settleVars, retirementVars
<1> QED
  BY Zenon, <1>1, <1>2, <1>3, GuardedRequest, GuardFrameKeeps DEF RetireStep

(* Time, declarations, lock catalogs and crashes keep what it finds from   *)
(* being misrecorded.                                                      *)
LEMMA GuardedEnvironment ==
    ASSUME IInv, Environment
    PROVE  ProofStep /\ PublicationStep /\ StoppedStep
<1> USE SessionsApart, Domains DEF clockVars, fileVars, rowVars,
   repositoryVars, planVars, restVars, journalVars, settleVars, retirementVars
<1>1. ASSUME Declare \/ Tick \/ Crash \/ CustodianDies
      PROVE  GuardFrame
  BY Zenon, <1>1 DEF Declare, Tick, Age, Crash, CustodianDies, StopServer, GuardFrame
<1>2. ASSUME NEW locks \in {c \in Catalogs : c \subseteq Made},
             ActivateLocalRetentionLockCatalog(locks)
      PROVE  GuardFrame
  BY Zenon, <1>2 DEF ActivateLocalRetentionLockCatalog, GuardFrame
<1> HIDE SessionsApart, Domains DEF clockVars, fileVars, rowVars,
   repositoryVars, planVars, restVars, journalVars, settleVars, retirementVars
<1> QED
  BY Zenon, <1>1, <1>2, GuardFrameKeeps DEF Environment

(* Every step records only what is true and leaves stopped retirements alone.                  *)
LEMMA GuardedStep == ASSUME IInv, Next PROVE ProofStep /\ PublicationStep /\ StoppedStep
BY Zenon, GuardedBackup, GuardedHandler, GuardedVerify, GuardedRetire,
   GuardedEnvironment DEF Next

(* Rows, leases, files and journal keep their types, and no retirement     *)
(* selects a point both as target and as survivor.                         *)
THEOREM TypeCorrect == Spec => []LRTypeOK
<1>1. IInv => LRTypeOK
  BY Zenon DEF IInv
<1> QED
  BY <1>1, IInvHolds, PTL

(* The last-good point is never a retired one: the compare-and-swap of     *)
(* AdvanceLocalLastGood looks at no lease, and yet cannot overlap a commit *)
(* that retires the point it names.                                        *)
THEOREM LastGoodNeverRetired == Spec => []LastGoodSurvives
<1>1. IInv => LastGoodSurvives
  BY Zenon DEF IInv, PointInv
<1> QED
  BY <1>1, IInvHolds, PTL

(* A verified point stays restorable until it is retired, except while a   *)
(* retirement holds the repository.                                        *)
THEOREM PromisesKept == Spec => []PromisesRestorable
<1>1. IInv /\ PromiseInv /\ UNCHANGED vars => PromiseInv'
  <2> SUFFICES ASSUME IInv, PromiseInv, UNCHANGED vars
               PROVE  PromiseInv'
    OBVIOUS
  <2>1. PromiseFrame
    BY Zenon DEF PromiseFrame, Held, vars, repositoryVars, retirementVars, fileVars, rowVars,
       planVars, settleVars
  <2> QED
    BY Zenon, <2>1, PromiseFrameKeeps
<1>2. IInv /\ PromiseInv /\ [Next]_vars => PromiseInv'
  BY Zenon, <1>1, PromiseStep
<1>3. PromiseInv => PromisesRestorable
  BY Zenon DEF PromiseInv
<1> QED
  BY <1>2, <1>3, InitPromise, IInvHolds, PTL DEF Spec

(* Wherever a retirement stops, what it found is in the repository or in   *)
(* the quarantine, and what it changed is in its journal.                  *)
THEOREM RetirementUndoable == Spec => []PredecessorRecoverable
<1>1. IInv => PredecessorRecoverable
  BY Zenon DEF IInv, FileInv, PredecessorRecoverable
<1> QED
  BY <1>1, IInvHolds, PTL

(* A verification is recorded only for a point that can be restored then.  *)
THEOREM ProofsAreTrue == Spec => ProofIsTrue
<1>1. IInv /\ [Next]_vars => [ProofStep]_vars
  BY Zenon, GuardedStep
<1> QED
  BY <1>1, IInvHolds, PTL DEF Spec, ProofIsTrue

(* A generation is published only over the repository it describes.        *)
THEOREM PublicationsAreCurrent == Spec => PublicationIsCurrent
<1>1. IInv /\ [Next]_vars => [PublicationStep]_vars
  BY Zenon, GuardedStep
<1> QED
  BY <1>1, IInvHolds, PTL DEF Spec, PublicationIsCurrent

(* Nothing is left that could touch what a stopped retirement has begun.   *)
THEOREM StoppedStaysFrozen == Spec => StoppedIsFrozen
<1>1. IInv /\ [Next]_vars => [StoppedStep]_vars
  BY Zenon, GuardedStep
<1> QED
  BY <1>1, IInvHolds, PTL DEF Spec, StoppedIsFrozen
=============================================================================

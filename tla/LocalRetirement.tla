--------------------------- MODULE LocalRetirement ---------------------------
(***************************************************************************)
(* Retirement of recovery points from a local backup repository, together  *)
(* with the backup and verification runs of LocalRepository that share the *)
(* repository with it.                                                     *)
(*                                                                         *)
(* A retirement selects targets and survivors from the rows (Draft), is    *)
(* planned and acknowledged, claims the repository, lets restic forget and *)
(* prune through a REST server that journals every change before and after *)
(* it is made, proves each survivor by restoring it, and publishes a new   *)
(* generation.  What is deleted goes to a quarantine, never away.          *)
(*                                                                         *)
(* restic itself is not trusted: it may send any request.  The one thing   *)
(* assumed of it is that it has no request open when it exits.             *)
(***************************************************************************)
EXTENDS LocalRepository

CONSTANTS
    Past,         \* the retirement run that was over before Init
    Histories,    \* the initial states: the points that Past retired, and the runs to come
    MaxWork,      \* max_work_objects of the plan
    MaxRequests,  \* requests restic keeps open at a time
    Catalogs,     \* the sets of points a lock catalog may lock
    MaxCatalogs   \* a bound on the lock catalogs activated

ASSUME RetirementConstants ==
    /\ Past \in Retirers
    /\ \A S \in SUBSET Retirers : Cardinality(S) \in Nat  \* they are finitely many
    /\ \A h \in Histories : /\ h.gone \subseteq {Existing[i] : i \in 1 .. Len(Existing) - 1}
                          /\ h.cast \subseteq Sessions \ {Past}
    /\ MaxWork \in Nat \ {0} /\ MaxRequests \in Nat \ {0} /\ MaxCatalogs \in Nat \ {0}

VARIABLES
    catalog,    \* the latest lock catalog: its activation sequence and locked points
    hold,       \* the objects in the quarantine directory
    intent,     \* intent[t]: the selection, as drafted and then planned
    journal,    \* journal[t]: the mutations begun under t's lease
    denied,     \* denied[t]: a mutation was recorded as denied
    admitted,   \* requests past the entry checks of the REST server
    serving,    \* the request that holds the server's mutex
    poisoned,   \* the REST server admits no further request
    observed,   \* observed[t]: the inventory taken after the prune
    custody,    \* custody[t]: the outcome recorded for t's custody session
    gen,        \* gen[t]: the successor generation t published
    instant     \* what was recorded within the current second

planVars == <<catalog, intent>>

restVars == <<admitted, serving, poisoned>>

journalVars == <<journal, denied>>

settleVars == <<observed, custody, gen>>

retirementVars == <<planVars, hold, restVars, journalVars, settleVars, instant>>

vars == <<repositoryVars, retirementVars>>

Kinds == {"put", "delete"}

NoRequest == [kind |-> "none", object |-> None, phase |-> "none"]

NoIntent == [targets |-> {}, survivors |-> {}, objects |-> {}, catalog |-> 0, revision |-> 0]

NoGeneration == [n |-> 0, objects |-> {}]

(* What Past left: it published a generation, or it was refused. *)
InitRetirement(gone) ==
    LET published(t) == t = Past /\ gone # {}
    IN  /\ catalog = [sequence |-> 1, locks |-> {}]
        /\ hold = {Snap(p) : p \in gone}
        /\ intent = [t \in Retirers |->
               IF published(t)
               THEN [targets |-> gone, survivors |-> Earlier \ gone,
                     objects |-> FirstObjects(Len(Existing)), catalog |-> 1, revision |-> 1]
               ELSE NoIntent]
        /\ journal = [t \in Retirers |->
               IF published(t)
               THEN {[kind |-> "delete", object |-> o, out |-> "quarantined"] : o \in hold}
               ELSE {}]
        /\ denied = [t \in Retirers |-> FALSE]
        /\ admitted = {} /\ serving = NoRequest /\ poisoned = FALSE
        /\ observed = [t \in Retirers |-> IF published(t) THEN repo ELSE {}]
        /\ custody = [t \in Retirers |-> IF published(t) THEN "succeeded" ELSE "none"]
        /\ gen = [t \in Retirers |->
               IF published(t) THEN [n |-> 1, objects |-> repo] ELSE NoGeneration]
        /\ instant = {}

Init == \E h \in Histories : InitRepository(h.gone, h.cast) /\ InitRetirement(h.gone)

-----------------------------------------------------------------------------
(* Generations, and the points that are current under the newest one. *)

Generations == {t \in Retirers : gen[t].n > 0}

Latest == Cardinality(Generations)

Newest == CHOOSE t \in Generations : gen[t].n = Latest

Retired == UNION {intent[t].targets : t \in Generations}

(* The newest generation that names p a survivor; 0 when there is none. *)
SuccessorFor(p) ==
    LET binding == {gen[t].n : t \in {u \in Generations : p \in intent[u].survivors}}
    IN  IF binding = {} THEN 0 ELSE CHOOSE n \in binding : \A m \in binding : m <= n

(* What a verification under generation n expects to find for p. *)
EffectiveObjects(p, n) ==
    IF n = 0 THEN point[p].objects
    ELSE (gen[CHOOSE t \in Generations : gen[t].n = n]).objects

Verified == {p \in Made : proof[p].id > 0}

PostSuccessor(p) ==
    /\ p \notin Retired /\ proof[p].gen = 0
    /\ \/ proof[p].revision > intent[Newest].revision
       \/ proof[p].revision = intent[Newest].revision /\ point[p].era >= Latest

CurrentPoints ==
    IF Latest = 0 THEN Verified
    ELSE {p \in Verified : p \in intent[Newest].survivors \/ PostSuccessor(p)}

(* The latest proof of each survivor names the newest generation. *)
SurvivorsReproved ==
    Latest > 0 => \A p \in intent[Newest].survivors : p \in Verified /\ proof[p].gen = Latest

(* The inventory a draft expects to find: everything any point lists, or   *)
(* what the latest generation left, or what the newest point after it saw. *)
DraftObjects ==
    LET new == {p \in CurrentPoints : p \notin intent[Newest].survivors}
        top == {p \in new : \A q \in new : proof[q].revision <= proof[p].revision}
    IN  IF Latest = 0 THEN {UNION {point[p].objects : p \in Made}}
        ELSE IF new = {} THEN {gen[Newest].objects}
        ELSE {point[p].objects : p \in top}

(* SelectLocalRetirement for one window: cut is the newest point that      *)
(* falls before the last-good point's creation time less the window.       *)
Targets(cut) ==
    {p \in CurrentPoints : /\ p # lastGood.point /\ p \notin catalog.locks
                           /\ point[p].n <= cut /\ cut < point[lastGood.point].n}

-----------------------------------------------------------------------------
(* Drafting, planning, staging and claiming. *)

Draft(t) ==
    /\ pc[t] = "idle"
    /\ Made # {} /\ (Latest = 0 => Made = Verified) /\ SurvivorsReproved
    /\ lastGood.point \in CurrentPoints /\ catalog.locks \subseteq CurrentPoints
    /\ \E cut \in 1 .. Cardinality(Points), objects \in DraftObjects :
           /\ Targets(cut) # {}
           /\ intent' = [intent EXCEPT ![t] =
                  [targets |-> Targets(cut), survivors |-> CurrentPoints \ Targets(cut),
                   objects |-> objects, catalog |-> catalog.sequence, revision |-> 0]]
    /\ pc' = [pc EXCEPT ![t] = "drafted"]
    /\ UNCHANGED <<clockVars, lease, fileVars, rowVars, view, catalog, hold, restVars,
                   journalVars, settleVars, instant>>

(* The declaration is committed, which advances the state revision, and    *)
(* the plan binds the revision so reached.                                 *)
PlanRetirement(t) ==
    /\ pc[t] = "drafted" /\ revision < MaxRevision
    /\ revision' = revision + 1
    /\ intent' = [intent EXCEPT ![t].revision = revision + 1]
    /\ pc' = [pc EXCEPT ![t] = "planned"]
    /\ UNCHANGED <<left, lease, fileVars, rowVars, view, catalog, hold, restVars,
                   journalVars, settleVars, instant>>

(* Runs that retire from the repository, and the runs that activate a lock *)
(* catalog, have the repository as their target: they exclude each other.  *)
TargetFree == \A t \in Retirers : pc[t] \in Resting

StageLocalRetirement(t) ==
    /\ pc[t] = "planned" /\ TargetFree /\ revision = intent[t].revision
    /\ pc' = [pc EXCEPT ![t] = "started"]
    /\ UNCHANGED <<clockVars, lease, fileVars, rowVars, view, retirementVars>>

(* Faulty: a verification is not taken for a competitor. *)
CompetingMutators == \E s \in Writers \cup Retirers : Held(s)

(* Every lease not released counts, whatever its deadline. *)
Competing == \E s \in Sessions : Held(s)

(* Faulty: the last-good point is not looked up again. *)
ClaimTrustsDraft(t) ==
    /\ revision = intent[t].revision /\ catalog.sequence = intent[t].catalog
    /\ ~Competing
    /\ SurvivorsReproved
    /\ CurrentPoints = intent[t].targets \cup intent[t].survivors
    /\ catalog.locks \subseteq intent[t].survivors

ClaimAdmits(t) ==
    /\ revision = intent[t].revision /\ catalog.sequence = intent[t].catalog
    /\ ~Competing
    /\ SurvivorsReproved
    /\ CurrentPoints = intent[t].targets \cup intent[t].survivors
    /\ catalog.locks \subseteq intent[t].survivors
    /\ lastGood.point \in intent[t].survivors

ClaimLocalRetirement(t) ==
    /\ pc[t] = "started" /\ ClaimAdmits(t)
    /\ StartClock(t)
    /\ lease' = [lease EXCEPT ![t] = "held"]
    /\ instant' = instant \cup {t}
    /\ pc' = [pc EXCEPT ![t] = "leased"]
    /\ UNCHANGED <<revision, fileVars, rowVars, view, planVars, hold, restVars,
                   journalVars, settleVars>>

(* The claim is refused, or comes too late: nothing is recorded, the run   *)
(* fails.                                                                  *)
ClaimRefused(t) ==
    /\ pc[t] = "started"
    /\ pc' = [pc EXCEPT ![t] = "done"]
    /\ UNCHANGED <<clockVars, lease, fileVars, rowVars, view, retirementVars>>

OpenRetirement(t) ==
    /\ OpenCustody(t)
    /\ UNCHANGED <<clockVars, lease, repo, torn, inflight, rowVars, view, retirementVars>>

(* The state of the REST server goes with the custody child. *)
StopServer == admitted' = {} /\ serving' = NoRequest /\ poisoned' = FALSE

(* Before anything is changed, the snapshots and the inventory are those   *)
(* of the plan.                                                            *)
PreCheck(t) ==
    /\ pc[t] = "custody" /\ custodian = t /\ Live(t)
    /\ Snapshots(repo) = {Snap(p) : p \in intent[t].targets \cup intent[t].survivors}
    /\ repo = intent[t].objects
    /\ pc' = [pc EXCEPT ![t] = "mutating"]
    /\ UNCHANGED <<clockVars, lease, fileVars, rowVars, view, retirementVars>>

-----------------------------------------------------------------------------
(* restic forget and restic prune, through the REST server. *)

Available == UNION {Holds[o.name] : o \in {q \in repo \ torn : q.type = "data"}}

(* ServeHTTP: the poison flag and the lease are looked at once.  A pack is *)
(* named by the hash of freshly encrypted bytes, so no name comes twice.   *)
AdmitRequest(t, kind, o) ==
    /\ pc[t] = "mutating" /\ custodian = t
    /\ ~poisoned /\ Held(t) /\ Live(t)
    /\ Cardinality(admitted) < MaxRequests
    /\ kind = "put" => o.type = "data" /\ o \notin repo \cup hold /\ Holds[o.name] \subseteq Available
    /\ kind = "delete" => o \in repo
    /\ admitted' = admitted \cup {[kind |-> kind, object |-> o]}
    /\ UNCHANGED <<clockVars, pc, lease, fileVars, rowVars, view, planVars, hold, serving,
                   poisoned, journalVars, settleVars, instant>>

Clean(t) == ~denied[t] /\ \A row \in journal[t] : row.out \in {"created", "quarantined"}

(* The lease, the deadlines, the revision and the lock catalog of the plan *)
(* are all still in force.                                                 *)
MutationCurrent(t) ==
    /\ Held(t) /\ Live(t) /\ pc[t] = "mutating"
    /\ revision = intent[t].revision /\ catalog.sequence = intent[t].catalog

Listed(o) == \E p \in Made : o \in point[p].objects

CreatedEarlier(t, o) ==
    \E row \in journal[t] : row.kind = "put" /\ row.object = o /\ row.out = "created"

MutationAllowed(t, request) ==
    /\ Clean(t) /\ Cardinality(journal[t]) < MaxWork
    /\ request.object.type = "snapshots" =>
           request.kind = "delete" /\ request.object.name \in intent[t].targets
    /\ request.kind = "delete" => Listed(request.object) \/ CreatedEarlier(t, request.object)

(* The handler has the mutex and opens the journal row before it touches   *)
(* the directory.                                                          *)
BeginLocalMutation(t, request) ==
    /\ custodian = t /\ serving = NoRequest /\ request \in admitted
    /\ MutationCurrent(t) /\ MutationAllowed(t, request)
    /\ journal' = [journal EXCEPT ![t] = @ \cup
           {[kind |-> request.kind, object |-> request.object, out |-> "open"]}]
    /\ serving' = [kind |-> request.kind, object |-> request.object, phase |-> "begun"]
    /\ admitted' = admitted \ {request}
    /\ UNCHANGED <<clockVars, pc, lease, fileVars, rowVars, view, planVars, hold, poisoned,
                   denied, settleVars, instant>>

(* The row is recorded together with its denial.  A denial of the journal  *)
(* poisons the server; one of the handler itself, whose row the journal    *)
(* would have let pass (the body broke off, the name is taken), does not.  *)
DenyMutation(t, request) ==
    /\ custodian = t /\ serving = NoRequest /\ request \in admitted
    /\ MutationCurrent(t)
    /\ denied' = [denied EXCEPT ![t] = TRUE]
    /\ poisoned' = (poisoned \/ ~MutationAllowed(t, request))
    /\ admitted' = admitted \ {request}
    /\ UNCHANGED <<clockVars, pc, lease, fileVars, rowVars, view, planVars, hold, serving,
                   journal, settleVars, instant>>

(* Too late, stale, or the controller is gone: no row is recorded. *)
RefuseMutation(t, request) ==
    /\ custodian = t /\ serving = NoRequest /\ request \in admitted
    /\ ~MutationCurrent(t)
    /\ poisoned' = TRUE
    /\ admitted' = admitted \ {request}
    /\ UNCHANGED <<clockVars, pc, lease, fileVars, rowVars, view, planVars, hold, serving,
                   journalVars, settleVars, instant>>

(* Faulty: a deleted object is unlinked, not moved. *)
LandUnlinks(t) ==
    /\ custodian = t /\ serving.phase = "begun"
    /\ IF serving.kind = "put"
       THEN serving.object \notin repo /\ repo' = repo \cup {serving.object}
       ELSE serving.object \in repo /\ repo' = repo \ {serving.object}
    /\ serving' = [serving EXCEPT !.phase = "landed"]
    /\ torn' = torn \ {serving.object}
    /\ UNCHANGED <<clockVars, pc, lease, custodian, inflight, rowVars, view, planVars, hold,
                   admitted, poisoned, journalVars, settleVars, instant>>

(* The rename.  RENAME_NOREPLACE: an object is neither replaced in the     *)
(* repository nor in the quarantine.  The lease is not looked at again.    *)
LandMutation(t) ==
    /\ custodian = t /\ serving.phase = "begun"
    /\ IF serving.kind = "put"
       THEN serving.object \notin repo /\ repo' = repo \cup {serving.object} /\ hold' = hold
       ELSE /\ serving.object \in repo \ hold
            /\ repo' = repo \ {serving.object} /\ hold' = hold \cup {serving.object}
    /\ serving' = [serving EXCEPT !.phase = "landed"]
    /\ torn' = torn \ {serving.object}
    /\ UNCHANGED <<clockVars, pc, lease, custodian, inflight, rowVars, view, planVars,
                   admitted, poisoned, journalVars, settleVars, instant>>

Settle(t, out) ==
    journal' = [journal EXCEPT ![t] = {[row EXCEPT !.out = IF @ = "open" THEN out ELSE @] : row \in journal[t]}]

FinishLocalMutation(t) ==
    /\ custodian = t /\ serving.phase = "landed" /\ pc[t] = "mutating"
    /\ Settle(t, IF serving.kind = "put" THEN "created" ELSE "quarantined")
    /\ serving' = NoRequest
    /\ UNCHANGED <<clockVars, pc, lease, fileVars, rowVars, view, planVars, hold, admitted,
                   poisoned, denied, settleVars, instant>>

(* The rename or an fsync fails; the handler says so. *)
FinishRetainedUncertain(t) ==
    /\ custodian = t /\ serving # NoRequest /\ pc[t] = "mutating"
    /\ Settle(t, "uncertain")
    /\ serving' = NoRequest
    /\ UNCHANGED <<clockVars, pc, lease, fileVars, rowVars, view, planVars, hold, admitted,
                   poisoned, denied, settleVars, instant>>

(* The outcome cannot be recorded: the row stays open. *)
FinishLost(t) ==
    /\ custodian = t /\ serving # NoRequest
    /\ serving' = NoRequest /\ poisoned' = TRUE
    /\ UNCHANGED <<clockVars, pc, lease, fileVars, rowVars, view, planVars, hold, admitted,
                   journalVars, settleVars, instant>>

-----------------------------------------------------------------------------
(* Proof of the survivors, and settlement. *)

(* Faulty: the survivors are listed and not restored. *)
PostCheckNames(t) ==
    /\ pc[t] = "mutating" /\ custodian = t /\ Held(t) /\ Live(t)
    /\ admitted = {} /\ serving = NoRequest /\ ~poisoned
    /\ Snapshots(repo) = {Snap(p) : p \in intent[t].survivors}
    /\ observed' = [observed EXCEPT ![t] = repo]
    /\ pc' = [pc EXCEPT ![t] = "proved"]
    /\ UNCHANGED <<clockVars, lease, fileVars, rowVars, view, planVars, hold, restVars,
                   journalVars, custody, gen, instant>>

(* restic has exited; the snapshots are the survivors', the inventory is   *)
(* taken, and every survivor is restored.  A poisoned server refuses the   *)
(* requests this takes.                                                    *)
PostCheck(t) ==
    /\ pc[t] = "mutating" /\ custodian = t /\ Held(t) /\ Live(t)
    /\ admitted = {} /\ serving = NoRequest /\ ~poisoned
    /\ Snapshots(repo) = {Snap(p) : p \in intent[t].survivors}
    /\ \A p \in intent[t].survivors : Restorable(p)
    /\ observed' = [observed EXCEPT ![t] = repo]
    /\ pc' = [pc EXCEPT ![t] = "proved"]
    /\ UNCHANGED <<clockVars, lease, fileVars, rowVars, view, planVars, hold, restVars,
                   journalVars, custody, gen, instant>>

(* LocalRetirementJournalDigest accepts the journal, custody is closed,    *)
(* and its outcome recorded.                                               *)
CloseRetirement(t) ==
    /\ pc[t] = "proved" /\ Live(t)
    /\ ~denied[t] /\ \A row \in journal[t] : row.out # "uncertain"
    /\ \E row \in journal[t] : row.out # "open"
    /\ custody' = [custody EXCEPT ![t] =
                      IF custodian = t /\ ~poisoned THEN "succeeded" ELSE "uncertain"]
    /\ ReleaseFlock(t)
    /\ pc' = [pc EXCEPT ![t] = IF custodian = t /\ ~poisoned THEN "settling" ELSE "done"]
    /\ left' = [left EXCEPT ![t] = IF custodian = t /\ ~poisoned THEN @ ELSE 0]
    /\ StopServer
    /\ UNCHANGED <<revision, lease, repo, torn, rowVars, view, planVars, hold,
                   journalVars, observed, gen, instant>>

(* One transaction: generation, receipt, and the release of the lease,     *)
(* which a trigger refuses in the second the lease was acquired.           *)
CommitLocalRetirementSuccess(t) ==
    /\ pc[t] = "settling" /\ Live(t)
    /\ Held(t) /\ Clean(t) /\ custody[t] = "succeeded" /\ t \notin instant
    /\ gen' = [gen EXCEPT ![t] = [n |-> Latest + 1, objects |-> observed[t]]]
    /\ lease' = [lease EXCEPT ![t] = "released"]
    /\ instant' = instant \cup {"generation"}
    /\ pc' = [pc EXCEPT ![t] = "done"]
    /\ left' = [left EXCEPT ![t] = 0]
    /\ UNCHANGED <<revision, fileVars, rowVars, view, planVars, hold, restVars, journalVars,
                   observed, custody>>

(* Any step of the adapter fails once the claim is made.  Custody is       *)
(* closed; the lease stays as it is.                                       *)
RetireFails(t) ==
    /\ pc[t] \in {"leased", "custody", "mutating", "proved", "settling"}
    /\ ReleaseFlock(t)
    /\ pc' = [pc EXCEPT ![t] = "done"]
    /\ custody' = [custody EXCEPT ![t] = IF @ = "none" THEN "uncertain" ELSE @]
    /\ left' = [left EXCEPT ![t] = 0]
    /\ IF custodian = t THEN StopServer ELSE UNCHANGED restVars
    /\ UNCHANGED <<revision, lease, repo, torn, rowVars, view, planVars, hold,
                   journalVars, observed, gen, instant>>

-----------------------------------------------------------------------------
(* What the rest of the system does to the repository and its rows. *)

(* Some other declaration is committed. *)
Declare ==
    /\ revision < MaxRevision
    /\ revision' = revision + 1
    /\ UNCHANGED <<pc, left, lease, fileVars, rowVars, view, retirementVars>>

(* A bound: a catalog is activated only while a draft relies on the one    *)
(* before it.                                                              *)
DraftPending == \E t \in Retirers : pc[t] \in {"drafted", "planned"}

(* A run activates a complete lock catalog.  Any point with a row may be   *)
(* locked; the repository leases are not looked at.  Claims and mutations  *)
(* look at the newest catalog as here; a draft also waits until the run    *)
(* that activated it has succeeded.                                        *)
ActivateLocalRetentionLockCatalog(locks) ==
    /\ TargetFree /\ catalog.sequence < MaxCatalogs /\ DraftPending
    /\ catalog' = [sequence |-> catalog.sequence + 1, locks |-> locks]
    /\ UNCHANGED <<repositoryVars, hold, intent, restVars, journalVars, settleVars, instant>>

Tick ==
    /\ Age /\ instant' = {}
    /\ left' # left \/ instant # {}
    /\ UNCHANGED <<revision, pc, lease, fileVars, rowVars, view, planVars, hold, restVars,
                   journalVars, settleVars>>

(* The server stops.  Its custody child, if there is one, is told nothing. *)
Crash ==
    /\ Running # {}
    /\ pc' = [s \in Sessions |-> IF s \in Running THEN "dead" ELSE pc[s]]
    /\ left' = [s \in Sessions |-> IF Held(s) /\ s \notin Retirers THEN left[s] ELSE 0]
    /\ view' = [r \in Readers |-> NoView]
    /\ UNCHANGED <<revision, lease, fileVars, rowVars, retirementVars>>

(* The child dies, or notices that its controller or its deadline is gone. *)
CustodianDies ==
    /\ custodian # None
    /\ custodian' = None /\ inflight' = {}
    /\ StopServer
    /\ UNCHANGED <<clockVars, pc, lease, repo, torn, rowVars, view, planVars, hold,
                   journalVars, settleVars, instant>>

Environment ==
    \/ Declare
    \/ \E locks \in {c \in Catalogs : c \subseteq Made} : ActivateLocalRetentionLockCatalog(locks)
    \/ Tick \/ Crash \/ CustodianDies

(* The steps of LocalRepository leave the retirement alone. *)
Beside(A) == A /\ UNCHANGED retirementVars

Era == IF "generation" \in instant THEN Latest - 1 ELSE Latest

OpenSession(s) ==
    /\ OpenCustody(s)
    /\ UNCHANGED <<clockVars, lease, repo, torn, inflight, rowVars, view>>

OpenRejected(s) ==
    /\ CustodyRejected(s)
    /\ UNCHANGED <<clockVars, lease, repo, torn, inflight, rowVars, view>>

BackupStep(w) ==
    \/ Beside(StartBackup(w))
    \/ Beside(AcquireBackupWriterLease(w))
    \/ Beside(WriterRefused(w))
    \/ Beside(OpenSession(w)) \/ Beside(OpenRejected(w))
    \/ \E o \in Objects : Beside(PutObject(w, o))
    \/ Beside(AppendPendingRecoveryPoint(w, Era))
    \/ Beside(BackupFails(w))
    \/ Beside(CloseBackup(w))
    \/ Beside(FinishBackup(w))

HandlerStep(o) == Beside(CompletePut(o)) \/ Beside(AbortPut(o))

VerifyStep(r) ==
    \/ \E p \in Made : Beside(StartVerify(r, p, SuccessorFor(p)))
    \/ Beside(AcquireBackupReadLease(r))
    \/ Beside(ReaderRefused(r))
    \/ Beside(OpenSession(r)) \/ Beside(OpenRejected(r))
    \/ Beside(InspectPoint(r, EffectiveObjects(view[r].point, view[r].gen)))
    \/ Beside(AppendLocalVerification(r))
    \/ Beside(CurrentLocalLastGood(r))
    \/ Beside(AdvanceLocalLastGood(r))
    \/ Beside(VerifyFails(r))
    \/ Beside(CloseVerify(r))
    \/ Beside(ReleaseBackupReadLease(r))

RequestStep(t) ==
    \/ \E kind \in Kinds, o \in Objects : AdmitRequest(t, kind, o)
    \/ \E request \in admitted :
           \/ BeginLocalMutation(t, request)
           \/ DenyMutation(t, request)
           \/ RefuseMutation(t, request)
    \/ LandMutation(t)
    \/ FinishLocalMutation(t) \/ FinishRetainedUncertain(t) \/ FinishLost(t)

RetireStep(t) ==
    \/ Draft(t) \/ PlanRetirement(t) \/ StageLocalRetirement(t)
    \/ ClaimLocalRetirement(t) \/ ClaimRefused(t)
    \/ OpenRetirement(t) \/ PreCheck(t)
    \/ RequestStep(t)
    \/ PostCheck(t) \/ CloseRetirement(t)
    \/ CommitLocalRetirementSuccess(t) \/ RetireFails(t)

Next ==
    \/ \E w \in Writers : BackupStep(w)
    \/ \E o \in inflight : HandlerStep(o)
    \/ \E r \in Readers : VerifyStep(r)
    \/ \E t \in Retirers : RetireStep(t)
    \/ Environment

Spec == Init /\ [][Next]_vars

-----------------------------------------------------------------------------
(* Properties. *)

LRTypeOK ==
    /\ revision \in 1 .. MaxRevision
    /\ left \in [Sessions -> -1 .. LeaseTime]
    /\ lease \in [Sessions -> {"none", "held", "released"}]
    /\ custodian \in Sessions \cup {None}
    /\ repo \subseteq Objects /\ torn \subseteq repo /\ inflight \subseteq torn
    /\ hold \subseteq Objects
    /\ job \in [Writers -> {"none", "running", "pending", "ended"}]
    /\ lastGood.point \in Made \cup {None}
    /\ \A t \in Retirers : intent[t].targets \cap intent[t].survivors = {}

(* platform-lifecycle.md: the sole last-good always survives.  No point    *)
(* the last-good row names has been retired, although the compare-and-swap *)
(* that moves the row looks at no lease and the retirement does not look   *)
(* at the row again after its claim.                                       *)
LastGoodSurvives == lastGood.point \notin Retired

(* A verified point that was not retired can be restored, whatever backups *)
(* and retirements did since; while a retirement holds the repository, its *)
(* survivors may be in the quarantine.                                     *)
PromisesRestorable ==
    (\A t \in Retirers : ~Held(t)) =>
        \A p \in Verified \ Retired : Restorable(p)

(* A retirement that stops anywhere can be undone from what it recorded:   *)
(* everything it found is still in the repository or in the quarantine,    *)
(* and every object it added or moved has a row in the journal.            *)
PredecessorRecoverable ==
    \A t \in Retirers :
        Held(t) /\ journal[t] # {} =>
            /\ intent[t].objects \subseteq repo \cup hold
            /\ \A o \in (repo \ intent[t].objects) \cup (intent[t].objects \ repo) :
                   \E row \in journal[t] : row.object = o

(* A proof is recorded only for a point that can be restored at that very  *)
(* moment: the read lease keeps retirements out until it is appended.      *)
ProofStep == \A p \in Points : proof'[p] # proof[p] => Restorable(p)

ProofIsTrue == [][ProofStep]_vars

(* A generation is published only over the repository it describes: the    *)
(* locks are those of the plan, the last-good point is a survivor, the     *)
(* directory is the recorded inventory, and every survivor restores.       *)
PublicationStep ==
    \A t \in Retirers :
        gen'[t] # gen[t] =>
            /\ catalog.locks \subseteq intent[t].survivors
            /\ lastGood.point \in intent[t].survivors
            /\ repo = gen'[t].objects
            /\ Snapshots(repo) = {Snap(p) : p \in intent[t].survivors}
            /\ \A p \in intent[t].survivors : Restorable(p)

PublicationIsCurrent == [][PublicationStep]_vars

(* platform-lifecycle.md: a crash, response loss or partial publication    *)
(* preserves the predecessor.  Once a retirement has stopped without       *)
(* publishing, no point, proof or last-good row changes any more, and once *)
(* its custody child is gone too nothing touches the repository it had     *)
(* begun to change, nor the quarantine: its lease is never reclaimed, and  *)
(* no run that was under way before has a write left.                      *)
StoppedStep ==
    \A t \in Retirers :
        Held(t) /\ pc[t] \in {"done", "dead"} =>
            /\ UNCHANGED <<point, proof, lastGood>>
            /\ journal[t] # {} /\ custodian # t => UNCHANGED <<repo, torn, hold>>

StoppedIsFrozen == [][StoppedStep]_vars
=============================================================================

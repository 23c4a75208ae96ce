--------------------------- MODULE LocalRepository ---------------------------
(***************************************************************************)
(* One local backup repository (one repository class, one directory) and   *)
(* the runs that use it: backup runs that write a recovery point and       *)
(* verification runs that read one and may make it the last-good point.    *)
(* LocalRetirement adds the runs that remove points.                       *)
(*                                                                         *)
(* Two locks keep the runs apart, and neither covers the other.  A lease   *)
(* is a row of SQLite with a deadline; it can be reclaimed while its owner *)
(* still runs.  Custody is an flock on the directory, held by a child      *)
(* process that alone can reach the files; it is dropped when that process *)
(* dies, with its owner's lease still in force.                            *)
(*                                                                         *)
(* Time is what is left of each run's deadline: the executor lease, the    *)
(* repository lease and the Go context of a run share one deadline.  The   *)
(* recovery epoch does not change while the server runs.                   *)
(***************************************************************************)
EXTENDS Integers, FiniteSets, Sequences

CONSTANTS
    Existing,     \* the points made and verified before Init, oldest first
    Writers,      \* backup runs; each makes the point that bears its name
    Readers,      \* verification runs, one after the other under each name
    Retirers,     \* retirement runs
    Chunks,       \* the units of data
    Packs,        \* the names of the packs restic may write
    Holds,        \* Holds[k]: the chunks in pack k
    Needs,        \* Needs[p]: the chunks a restore of p reads
    FirstPacks,   \* FirstPacks[i]: the pack written with Existing[i]
    LeaseTime,    \* seconds a run has: ExecutorLeaseSeconds
    MaxRevision,  \* a bound on the state revisions reached
    MaxProofs,    \* a bound on the verifications recorded
    None

Earlier == {Existing[i] : i \in 1 .. Len(Existing)}

Points == Earlier \cup Writers

Sessions == Writers \cup Readers \cup Retirers

ASSUME RepositoryConstants ==
    /\ LeaseTime \in Nat \ {0} /\ MaxRevision \in Nat \ {0} /\ MaxProofs \in Nat
    /\ Existing \in Seq(Earlier) /\ Earlier \cap Writers = {}
    /\ \A i, j \in 1 .. Len(Existing) : Existing[i] = Existing[j] => i = j
    /\ FirstPacks \in [1 .. Len(Existing) -> Packs]
    /\ Holds \in [Packs -> SUBSET Chunks] /\ Needs \in [Points -> SUBSET Chunks]
    /\ \A i \in 1 .. Len(Existing) : \A c \in Needs[Existing[i]] :
          \E j \in 1 .. i : c \in Holds[FirstPacks[j]]  \* it was verified when it was made
    /\ Points \cap (Readers \cup Retirers) = {} /\ Readers \cap Retirers = {}
    /\ None \notin Points \cup Sessions

VARIABLES
    revision,   \* system_meta.state_revision
    pc,         \* pc[s]: how far the run's adapter has come
    left,       \* left[s]: seconds to the run's deadline, which a writer may be past
    lease,      \* lease[s]: the run's row among the three lease tables
    custodian,  \* the run whose custody child holds the flock, or None
    repo,       \* names of the objects in the repository directory
    torn,       \* those of them whose content is not complete
    inflight,   \* those of them a PUT handler of the custodian is still writing
    job,        \* job[w]: the row of backup_jobs; failed and uncertain are one here
    point,      \* point[p]: the row of recovery_points with its expected objects
    proof,      \* proof[p]: the latest live, local-verified attempt on p
    proofs,     \* the number of such attempts; each has its number as identity
    lastGood,   \* the row of backup_local_last_good
    view        \* view[r]: the local variables of executeBoundVerify

clockVars == <<revision, left>>

fileVars == <<custodian, repo, torn, inflight>>

rowVars == <<job, point, proof, proofs, lastGood>>

repositoryVars == <<clockVars, pc, lease, fileVars, rowVars, view>>

Snap(p) == [type |-> "snapshots", name |-> p]

Pack(k) == [type |-> "data", name |-> k]

Objects == {Snap(p) : p \in Points} \cup {Pack(k) : k \in Packs}

Snapshots(objects) == {o \in objects : o.type = "snapshots"}

(* restic can restore p from these objects: its snapshot is there, and     *)
(* every chunk is in some pack.                                            *)
RestorableFrom(p, objects) ==
    /\ Snap(p) \in objects
    /\ \A c \in Needs[p] : \E o \in objects : o.type = "data" /\ c \in Holds[o.name]

Restorable(p) == RestorableFrom(p, repo \ torn)

Made == {p \in Points : point[p].n > 0}

Held(s) == lease[s] = "held"

(* The context of the run has not expired, and neither has its lease.      *)
Live(s) == left[s] > 0

(* No step of the run is being executed. *)
Resting == {"idle", "drafted", "planned", "done", "dead"}

Running == {s \in Sessions : pc[s] \notin Resting}

(* What the directory held when Existing[i] had been made. *)
FirstObjects(i) ==
    {Snap(Existing[j]) : j \in 1 .. i} \cup {Pack(FirstPacks[j]) : j \in 1 .. i}

NoPoint == [n |-> 0, era |-> 0, objects |-> {}]

NoView == [point |-> None, revision |-> 0, gen |-> 0, id |-> 0, prev |-> 0]

NoProof == [id |-> 0, gen |-> 0, revision |-> 0]

(* No run is under way, and those of `cast' are still to come.  The points *)
(* of `gone' have been retired, by the first generation, and the others    *)
(* proved again since.                                                     *)
InitRepository(gone, cast) ==
    /\ revision = 1
    /\ pc = [s \in Sessions |-> IF s \in cast THEN "idle" ELSE "done"]
    /\ left = [s \in Sessions |-> 0]
    /\ lease = [s \in Sessions |-> "none"]
    /\ custodian = None
    /\ repo = FirstObjects(Len(Existing)) \ {Snap(p) : p \in gone}
    /\ torn = {} /\ inflight = {}
    /\ job = [w \in Writers |-> "none"]
    /\ point = [p \in Points |->
                   IF p \in Earlier
                   THEN LET i == CHOOSE i \in 1 .. Len(Existing) : Existing[i] = p
                        IN  [n |-> i, era |-> 0, objects |-> FirstObjects(i)]
                   ELSE NoPoint]
    /\ proof = [p \in Points |->
                   IF p \in Earlier
                   THEN [id |-> point[p].n, revision |-> 1,
                         gen |-> IF gone = {} \/ p \in gone THEN 0 ELSE 1]
                   ELSE NoProof]
    /\ proofs = Len(Existing)
    /\ lastGood = [id |-> proofs, point |-> IF proofs = 0 THEN None ELSE Existing[proofs]]
    /\ view = [r \in Readers |-> NoView]

-----------------------------------------------------------------------------
(* Steps every kind of run takes. *)

(* The engine starts the step: claims the executor lease and derives the   *)
(* context that dies with it.                                              *)
StartRun(s) ==
    /\ pc[s] = "idle"
    /\ pc' = [pc EXCEPT ![s] = "started"]

(* The run takes a lease.  Whatever of its time it has used by then, some  *)
(* is left.                                                                *)
StartClock(s) == \E seconds \in 1 .. LeaseTime : left' = [left EXCEPT ![s] = seconds]

(* BeginCustody, the child process, and its flock. *)
OpenCustody(s) ==
    /\ pc[s] = "leased" /\ Live(s) /\ Held(s)
    /\ custodian = None
    /\ custodian' = s
    /\ pc' = [pc EXCEPT ![s] = "custody"]

(* The child is refused the flock, or does not come up: the attempt is     *)
(* recorded uncertain and the adapter gives up.                            *)
CustodyRejected(s) ==
    /\ pc[s] = "leased"
    /\ pc' = [pc EXCEPT ![s] = "closed"]
    /\ UNCHANGED custodian

(* The child exits: its handlers stop wherever they are. *)
ReleaseFlock(s) ==
    /\ custodian' = IF custodian = s THEN None ELSE custodian
    /\ inflight' = IF custodian = s THEN {} ELSE inflight

(* A second passes.  Only the deadline of a run under way, or of a lease   *)
(* that others may reclaim, is of consequence; a writer's lease is told    *)
(* expired a second after a reader's (Expired, Lapsed).                    *)
Age ==
    left' = [s \in Sessions |->
                IF /\ pc[s] \notin Resting \cup {"started"} \/ (Held(s) /\ s \notin Retirers)
                   /\ left[s] > (IF s \in Writers THEN -1 ELSE 0)
                THEN left[s] - 1 ELSE left[s]]

-----------------------------------------------------------------------------
(* A backup run. *)

Expired(w) == Held(w) /\ left[w] < 0

(* The read leases AcquireBackupWriterLease and AcquireBackupReadLease     *)
(* release before they look for a conflict.                                *)
Lapsed(r) == Held(r) /\ left[r] <= 0

StartBackup(w) ==
    /\ StartRun(w)
    /\ UNCHANGED <<clockVars, lease, fileVars, rowVars, view>>

(* Faulty: the lease of a retirement is overlooked. *)
WriterMeetsRetirement ==
    \/ \E w \in Writers : Held(w) /\ ~Expired(w)
    \/ \E r \in Readers : Held(r) /\ ~Lapsed(r)

WriterConflict ==
    \/ \E w \in Writers : Held(w) /\ ~Expired(w)
    \/ \E r \in Readers : Held(r) /\ ~Lapsed(r)
    \/ \E t \in Retirers : Held(t)

(* One transaction: reclaim what has expired, and take the lease and a     *)
(* running job unless someone else still holds the class.                  *)
AcquireBackupWriterLease(w) ==
    /\ pc[w] = "started" /\ ~WriterConflict
    /\ StartClock(w)
    /\ lease' = [s \in Sessions |->
                    IF s = w THEN "held"
                    ELSE IF \/ s \in Writers /\ Expired(s)
                            \/ s \in Readers /\ Lapsed(s) THEN "released"
                    ELSE lease[s]]
    /\ job' = [v \in Writers |->
                  IF v = w THEN "running"
                  ELSE IF Expired(v) /\ job[v] = "running" THEN "ended"
                  ELSE job[v]]
    /\ pc' = [pc EXCEPT ![w] = "leased"]
    /\ UNCHANGED <<revision, fileVars, point, proof, proofs, lastGood, view>>

(* A conflict, or the deadline, rolls the transaction back; nothing was    *)
(* recorded under this run's ids, and the backup may be submitted again.   *)
WriterRefused(w) ==
    /\ pc[w] = "started"
    /\ pc' = [pc EXCEPT ![w] = "idle"]
    /\ UNCHANGED <<clockVars, lease, fileVars, rowVars, view>>

(* restic sends a PUT.  VerifyActiveWriterLease passes once, at the start  *)
(* of the request, and handleCreate opens the final name exclusively.      *)
PutObject(w, o) ==
    /\ pc[w] = "custody" /\ custodian = w
    /\ Held(w) /\ Live(w)
    /\ o \in {Pack(k) : k \in Packs} \cup {Snap(w)} /\ o \notin repo
    /\ repo' = repo \cup {o}
    /\ torn' = torn \cup {o}
    /\ inflight' = inflight \cup {o}
    /\ UNCHANGED <<clockVars, pc, lease, custodian, rowVars, view>>

(* The body has arrived and is synced.  No lease is looked at again. *)
CompletePut(o) ==
    /\ o \in inflight
    /\ torn' = torn \ {o}
    /\ inflight' = inflight \ {o}
    /\ UNCHANGED <<clockVars, pc, lease, custodian, repo, rowVars, view>>

(* Faulty: the name goes, the record of what is incomplete does not. *)
AbortForgets(o) ==
    /\ o \in inflight
    /\ repo' = repo \ {o}
    /\ inflight' = inflight \ {o}
    /\ UNCHANGED <<clockVars, pc, lease, custodian, torn, rowVars, view>>

(* The body breaks off: the handler unlinks what it wrote. *)
AbortPut(o) ==
    /\ o \in inflight
    /\ repo' = repo \ {o}
    /\ torn' = torn \ {o}
    /\ inflight' = inflight \ {o}
    /\ UNCHANGED <<clockVars, pc, lease, custodian, rowVars, view>>

(* restic has exited with a snapshot of the source; the whole inventory of *)
(* the repository becomes the point's manifest.  `era' stands for the      *)
(* creation time: the newest generation recorded in an earlier second.     *)
AppendPendingRecoveryPoint(w, era) ==
    /\ pc[w] = "custody" /\ custodian = w /\ inflight = {} /\ Restorable(w)
    /\ Live(w) /\ Held(w)
    /\ point' = [point EXCEPT ![w] = [n |-> Cardinality(Made) + 1, era |-> era, objects |-> repo]]
    /\ job' = [job EXCEPT ![w] = "pending"]
    /\ lease' = [lease EXCEPT ![w] = "released"]
    /\ pc' = [pc EXCEPT ![w] = "closing"]
    /\ UNCHANGED <<clockVars, fileVars, proof, proofs, lastGood, view>>

(* Any step of runBoundBackup fails, the deadline of the context included. *)
BackupFails(w) ==
    /\ pc[w] = "custody"
    /\ pc' = [pc EXCEPT ![w] = "closing"]
    /\ UNCHANGED <<clockVars, lease, fileVars, rowVars, view>>

CloseBackup(w) ==
    /\ pc[w] = "closing"
    /\ ReleaseFlock(w)
    /\ pc' = [pc EXCEPT ![w] = "closed"]
    /\ UNCHANGED <<clockVars, lease, repo, torn, rowVars, view>>

(* FailBackupJob, unless the point was appended.  Where the lease has been *)
(* reclaimed meanwhile it changes nothing.                                 *)
FinishBackup(w) ==
    /\ pc[w] = "closed"
    /\ pc' = [pc EXCEPT ![w] = "done"]
    /\ job' = [job EXCEPT ![w] = IF Held(w) THEN "ended" ELSE @]
    /\ lease' = [lease EXCEPT ![w] = IF Held(w) THEN "released" ELSE @]
    /\ left' = [left EXCEPT ![w] = 0]
    /\ UNCHANGED <<revision, fileVars, point, proof, proofs, lastGood, view>>

-----------------------------------------------------------------------------
(* A verification run. *)

(* The adapter reads the point, and the generation that binds it, before   *)
(* it takes any lease; the plan binds the revision.                        *)
StartVerify(r, p, gen) ==
    /\ StartRun(r)
    /\ p \in Made /\ proofs < MaxProofs
    /\ view' = [view EXCEPT ![r] = [NoView EXCEPT !.point = p, !.revision = revision, !.gen = gen]]
    /\ UNCHANGED <<clockVars, lease, fileVars, rowVars>>

ReaderConflict ==
    \/ \E w \in Writers : Held(w) /\ Live(w)
    \/ \E r \in Readers : Held(r) /\ ~Lapsed(r)
    \/ \E t \in Retirers : Held(t)

AcquireBackupReadLease(r) ==
    /\ pc[r] = "started" /\ revision = view[r].revision /\ ~ReaderConflict
    /\ StartClock(r)
    /\ lease' = [s \in Sessions |->
                    IF s = r THEN "held"
                    ELSE IF s \in Readers /\ Lapsed(s) THEN "released"
                    ELSE lease[s]]
    /\ pc' = [pc EXCEPT ![r] = "leased"]
    /\ UNCHANGED <<revision, fileVars, rowVars, view>>

ReaderRefused(r) ==
    /\ pc[r] = "started"
    /\ pc' = [pc EXCEPT ![r] = "idle"]
    /\ view' = [view EXCEPT ![r] = NoView]
    /\ UNCHANGED <<clockVars, lease, fileVars, rowVars>>

(* Faulty: the row of the point is believed, its objects are not looked for. *)
InspectTrustsRow(r, objects) ==
    /\ pc[r] = "custody" /\ custodian = r /\ Live(r) /\ Held(r)
    /\ pc' = [pc EXCEPT ![r] = "inspected"]
    /\ UNCHANGED <<clockVars, lease, fileVars, rowVars, view>>

(* InventoryExpected finds every object of the manifest, or of the         *)
(* generation, and the functional restore works.  All of it is read        *)
(* through the run's own custody child.                                    *)
InspectPoint(r, objects) ==
    /\ pc[r] = "custody" /\ custodian = r /\ Live(r) /\ Held(r)
    /\ objects \subseteq repo /\ Restorable(view[r].point)
    /\ pc' = [pc EXCEPT ![r] = "inspected"]
    /\ UNCHANGED <<clockVars, lease, fileVars, rowVars, view>>

(* VerifyActiveReadLease and AppendLocalVerification: the read lease must  *)
(* still be this run's, unexpired, at the same revision.                   *)
AppendLocalVerification(r) ==
    /\ pc[r] = "inspected" /\ Live(r) /\ Held(r) /\ revision = view[r].revision
    /\ proofs' = proofs + 1
    /\ proof' = [proof EXCEPT ![view[r].point] =
                    [id |-> proofs + 1, gen |-> view[r].gen, revision |-> revision]]
    /\ view' = [view EXCEPT ![r].id = proofs + 1]
    /\ pc' = [pc EXCEPT ![r] = "proved"]
    /\ UNCHANGED <<clockVars, lease, fileVars, job, point, lastGood>>

CurrentLocalLastGood(r) ==
    /\ pc[r] = "proved" /\ Live(r)
    /\ view' = [view EXCEPT ![r].prev = lastGood.id]
    /\ pc' = [pc EXCEPT ![r] = "advancing"]
    /\ UNCHANGED <<clockVars, lease, fileVars, rowVars>>

(* The compare-and-swap.  It looks at the revision and at the previous     *)
(* verification, not at the read lease; only the context stops it.         *)
AdvanceLocalLastGood(r) ==
    /\ pc[r] = "advancing" /\ Live(r)
    /\ lastGood' = IF revision = view[r].revision /\ lastGood.id = view[r].prev
                   THEN [id |-> view[r].id, point |-> view[r].point] ELSE lastGood
    /\ pc' = [pc EXCEPT ![r] = "closing"]
    /\ UNCHANGED <<clockVars, lease, fileVars, job, point, proof, proofs, view>>

VerifyFails(r) ==
    /\ pc[r] \in {"custody", "inspected", "proved", "advancing"}
    /\ pc' = [pc EXCEPT ![r] = "closing"]
    /\ UNCHANGED <<clockVars, lease, fileVars, rowVars, view>>

CloseVerify(r) ==
    /\ pc[r] = "closing"
    /\ ReleaseFlock(r)
    /\ pc' = [pc EXCEPT ![r] = "closed"]
    /\ UNCHANGED <<clockVars, lease, repo, torn, rowVars, view>>

(* A lease someone else has released meanwhile is reported, not repaired. *)
ReleaseBackupReadLease(r) ==
    /\ pc[r] = "closed"
    /\ lease' = [lease EXCEPT ![r] = "released"]
    /\ pc' = [pc EXCEPT ![r] = "idle"]
    /\ left' = [left EXCEPT ![r] = 0]
    /\ view' = [view EXCEPT ![r] = NoView]
    /\ UNCHANGED <<revision, fileVars, rowVars>>
=============================================================================

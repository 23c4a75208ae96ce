------------------------- MODULE LocalRetirementInv -------------------------
(***************************************************************************)
(* The inductive invariant of LocalRetirement.  The repository is safe     *)
(* because of an argument about who may act, not about any one check:      *)
(* leases exclude each other (LeaseInv), therefore custody children do     *)
(* where it matters (CustodyInv), therefore what a run has looked at stays *)
(* as it was until the run records it (FileInv, PointInv).                 *)
(***************************************************************************)
EXTENDS LocalRetirement

(* A verification that may still record something.                         *)
Reading == {"leased", "custody", "inspected", "proved", "advancing"}

(* A retirement before its claim, and between its claim and its end.       *)
Unclaimed == {"idle", "drafted", "planned", "started"}

Retiring == {"leased", "custody", "mutating", "proved", "settling"}

(* Types that LRTypeOK leaves out.                                         *)
ShapeInv ==
    /\ DOMAIN pc = Sessions
    /\ DOMAIN point = Points /\ DOMAIN proof = Points
    /\ DOMAIN view = Readers
    /\ \A r \in Readers : DOMAIN view[r] = DOMAIN NoView
    /\ DOMAIN intent = Retirers
    /\ \A t \in Retirers : DOMAIN intent[t] = DOMAIN NoIntent
    /\ journal \in [Retirers -> SUBSET [kind : Kinds, object : Objects,
                                        out : {"open", "created", "quarantined", "uncertain"}]]
    /\ admitted \subseteq [kind : Kinds, object : Objects]
    /\ serving \in [kind : Kinds, object : Objects, phase : {"begun", "landed"}] \cup {NoRequest}
    /\ poisoned \in BOOLEAN
    /\ DOMAIN observed = Retirers /\ DOMAIN custody = Retirers /\ DOMAIN gen = Retirers

(* The lease of a retirement excludes every other lease, and whoever is at *)
(* work within its time holds one.                                         *)
LeaseInv ==
    /\ \A t \in Retirers, s \in Sessions : Held(t) /\ Held(s) => s = t
    /\ \A r \in Readers : pc[r] \in Reading /\ Live(r) => Held(r)
    /\ \A t \in Retirers : pc[t] \in Retiring => Held(t)
    /\ \A t \in Retirers : pc[t] \in Unclaimed => ~Held(t) /\ gen[t].n = 0
    /\ \A t \in Retirers : pc[t] \in Unclaimed \cup {"leased", "custody"} => journal[t] = {}

(* The child of a retirement serves only under its lease; once a           *)
(* retirement had custody, nobody else has it while its lease is held; and *)
(* what the child has begun has a row in the journal.                      *)
CustodyInv ==
    /\ inflight # {} => custodian \in Writers
    /\ serving # NoRequest \/ admitted # {} \/ poisoned => custodian \in Retirers
    /\ \A t \in Retirers :
          custodian = t => Held(t) /\ pc[t] \in {"custody", "mutating", "proved", "dead"}
    /\ \A t \in Retirers :
          Held(t) /\ (pc[t] \in Retiring \ {"leased"} \/ journal[t] # {}) => custodian \in {t, None}
    /\ \A t \in Retirers :
          custodian = t /\ serving # NoRequest => \E row \in journal[t] : row.object = serving.object
    /\ serving.kind = "put" => serving.object.type = "data"

(* What a retirement selected stays selected for as long as it matters.    *)
PlanInv ==
    /\ \A t \in Retirers : intent[t].targets \subseteq Made
    /\ \A t \in Retirers : Held(t) => lastGood.point \in intent[t].survivors
    /\ \A t \in Retirers : pc[t] \in Retiring => catalog.locks \subseteq intent[t].survivors

(* A point appears when its backup appends it, and a retired one never     *)
(* comes back; no verification past its inspection is about a retired one. *)
PointInv ==
    /\ \A w \in Writers : pc[w] \in {"idle", "started", "leased", "custody"} => w \notin Made
    /\ \A r \in Readers : pc[r] \in {"started"} \cup Reading => view[r].point \in Made
    /\ \A p \in Retired : Snap(p) \notin repo
    /\ \A r \in Readers :
          pc[r] \in {"inspected", "proved", "advancing"} /\ Live(r) => view[r].point \notin Retired
    /\ LastGoodSurvives

(* What a run has looked at in the repository is still so.                 *)
FileInv ==
    /\ \A r \in Readers : pc[r] = "inspected" /\ Live(r) => Restorable(view[r].point)
    /\ \A t \in Retirers : pc[t] \in {"proved", "settling"} =>
          /\ serving = NoRequest /\ admitted = {}
          /\ repo = observed[t]
          /\ Snapshots(repo) = {Snap(p) : p \in intent[t].survivors}
          /\ \A p \in intent[t].survivors : Restorable(p)
    /\ \A t \in Retirers :
          Held(t) /\ (pc[t] = "mutating" \/ journal[t] # {}) =>
             /\ intent[t].objects \subseteq repo \cup hold
             /\ \A o \in (repo \ intent[t].objects) \cup (intent[t].objects \ repo) :
                   \E row \in journal[t] : row.object = o

(* The promise is kept while a retirement holds the repository and has     *)
(* changed nothing yet; from its first look at the directory on, whatever  *)
(* was promised is one of its targets or one of its survivors.             *)
PromiseInv ==
    /\ PromisesRestorable
    /\ \A t \in Retirers : pc[t] \in {"leased", "custody"} =>
          \A p \in Verified \ Retired : Restorable(p)
    /\ \A t \in Retirers : pc[t] \in {"mutating", "proved", "settling"} =>
          Verified \ Retired \subseteq intent[t].targets \cup intent[t].survivors

IInv == LRTypeOK /\ ShapeInv /\ LeaseInv /\ CustodyInv /\ PlanInv /\ PointInv /\ FileInv
=============================================================================

---------------------------- MODULE RunLifecycle ----------------------------
(***************************************************************************)
(* What a run promises to whoever reads it, with no goroutines, leases,    *)
(* clocks or requests: the status of the run, what is known of each step's *)
(* effect, and whether the effect took place.                              *)
(*                                                                         *)
(* It is the contract of docs/control-plane-service.md, "Implemented       *)
(* durable run engine"; RunEngine and ExternalExecutor are checked to      *)
(* implement it.                                                           *)
(***************************************************************************)
EXTENDS Naturals

CONSTANTS Run, NSteps

VARIABLES
    status,   \* status[r]
    known,    \* known[r][i]: what the record says of the step's effect
    landed    \* landed[r][i]: times the step changed its target

lifecycleVars == <<status, known, landed>>

(* none: not begun; open: begun; unknown: nobody can tell; the others are  *)
(* verified outcomes.                                                      *)
Knowledge == {"none", "open", "unknown", "succeeded", "failed", "partial"}

LifecycleInit ==
    /\ status = [r \in Run |-> "none"]
    /\ known = [r \in Run |-> [i \in 1 .. NSteps |-> "none"]]
    /\ landed = [r \in Run |-> [i \in 1 .. NSteps |-> 0]]

Every(r, S) == \A i \in 1 .. NSteps : known[r][i] \in S

Settled(r) == Every(r, Knowledge \ {"open", "unknown"})

Move(r, from, to) ==
    /\ status[r] \in from
    /\ status' = [status EXCEPT ![r] = to]
    /\ UNCHANGED <<known, landed>>

Submit(r) == Move(r, {"none"}, "queued")

Open(r) == Move(r, {"queued", "interrupted"}, "running") /\ Every(r, {"none", "succeeded"})

(* A run is interrupted, withdrawn or failed only with every effect known. *)
Interrupt(r) == Move(r, {"running"}, "interrupted") /\ Settled(r)

Withdraw(r) == Move(r, {"queued", "interrupted"}, "cancelled") /\ Settled(r)

Fail(r) == Move(r, {"running"}, "failed") /\ Settled(r)

Succeed(r) == Move(r, {"running"}, "succeeded") /\ Every(r, {"succeeded"})

(* Partial is for a run with an unknown or a partial effect, and only it.  *)
Partial(r) == Move(r, {"running"}, "partial") /\ ~Every(r, {"none", "open", "succeeded", "failed"})

Learn(r, i, k) ==
    /\ known' = [known EXCEPT ![r][i] = k]
    /\ UNCHANGED <<status, landed>>

(* Steps begin in order, in a running run.                                 *)
BeginEffect(r, i) ==
    /\ status[r] = "running" /\ known[r][i] = "none"
    /\ \A k \in 1 .. (i - 1) : known[r][k] = "succeeded"
    /\ Learn(r, i, "open")

Land(r, i) ==
    /\ known[r][i] \in {"open", "unknown"} /\ landed[r][i] = 0
    /\ landed' = [landed EXCEPT ![r][i] = 1]
    /\ UNCHANGED <<status, known>>

(* A step goes back to not begun only if it never touched its target.      *)
Undo(r, i) == known[r][i] = "open" /\ landed[r][i] = 0 /\ Learn(r, i, "none")

Conclude(r, i, k) == known[r][i] = "open" /\ Learn(r, i, k)

LifecycleNext ==
    \E r \in Run :
       \/ Submit(r) \/ Open(r) \/ Interrupt(r) \/ Withdraw(r)
       \/ Fail(r) \/ Succeed(r) \/ Partial(r)
       \/ \E i \in 1 .. NSteps :
             \/ BeginEffect(r, i) \/ Land(r, i) \/ Undo(r, i)
             \/ \E k \in {"unknown", "succeeded", "failed", "partial"} : Conclude(r, i, k)

LifecycleSpec == LifecycleInit /\ [][LifecycleNext]_lifecycleVars
=============================================================================

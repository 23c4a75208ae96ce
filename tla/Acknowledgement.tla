--------------------------- MODULE Acknowledgement ---------------------------
(***************************************************************************)
(* The human acknowledgement of one plan: internal/acknowledgement over    *)
(* its rows in the store, the Slack adapter that carries the decision and  *)
(* reports the outcome, and the admission of a run that uses the proof.    *)
(*                                                                         *)
(* Three kinds of goroutine interleave, one store call at a time: API      *)
(* handlers (request, status, submit), the decider that consumes Slack     *)
(* envelopes, and the refresher that keeps the posted messages up to date. *)
(* Every write names the state revision of the plan, so it fails once      *)
(* `moved' holds.  The clock counts seconds and stops at Expiry: no        *)
(* comparison in the code tells later instants apart.                      *)
(***************************************************************************)
EXTENDS Integers

CONSTANTS
    Handler,      \* API request goroutines
    Key,          \* idempotency keys a submitter may use for this plan
    Card,         \* the messages that may be posted: a bound
    Expiry,       \* plan.ExpiresAt, which is also the proof's
    Skew,         \* decisionClockSkew
    MaxCrashes    \* a bound on restarts of the server

ASSUME AckConstants ==
    /\ Handler # {} /\ Key # {} /\ Card # {}
    /\ Expiry \in Nat \ {0} /\ Skew \in Nat /\ MaxCrashes \in Nat

VARIABLES
    now,         \* the clock, in seconds
    moved,       \* has the state revision left the plan's?
    granted,     \* may the human acknowledge this plan?
    ack,         \* the row of acknowledgement_requests and its proof
    run,         \* run[k]: the row of plan_runs submitted under k
    card,        \* card[c]: the message and its row in acknowledgement_deliveries
    envelopes,   \* decisions Slack has not had acknowledged
    answered,    \* decisions Decide has reported as taken
    handler,     \* handler[h]: an API handler's place and local variables
    decider,     \* the goroutine of Adapter.consume
    refresher,   \* the goroutine started by Adapter.Run
    crashes

worldVars == <<now, moved, granted>>

slackVars == <<card, envelopes, answered>>

procVars == <<handler, decider, refresher>>

vars == <<worldVars, ack, run, slackVars, procVars, crashes>>

Never == -1

Instant == 0 .. Expiry

Action == {"approved", "rejected"}

Active == {"queued", "running", "interrupted"}

Ended == {"ended", "cancelled"}

(* The statuses CompleteMessageReceipt completes a row with; the several   *)
(* results of a finished run are one, "ended".                             *)
TerminalLabel == {"rejected", "expired", "stale"} \cup Ended

OpenLabel == {"pending", "approved"} \cup Active

(* Types, with the two CHECK constraints of acknowledgement_requests: a    *)
(* row has a decision time once it is decided, and only an approved row a  *)
(* time of use.                                                            *)
AckTypeOK ==
    /\ now \in Instant /\ moved \in BOOLEAN /\ granted \in BOOLEAN
    /\ ack \in [status : {"none", "pending", "expired"} \cup Action,
                decidedAt : Instant \cup {Never}, consumedAt : Instant \cup {Never}]
    /\ run \in [Key -> [status : {"none"} \cup Active \cup Ended,
                        createdAt : Instant \cup {Never}]]
    /\ card \in [Card -> {"none", "unrecorded"} \cup OpenLabel \cup TerminalLabel]
    /\ envelopes \subseteq Action /\ answered \subseteq Action
    /\ handler \in [Handler -> [pc : {"idle", "request", "publish", "status", "create",
                                      "claim", "human", "fresh", "current", "consume", "start"},
                                key : Key \cup {"none"}, at : Instant, used : BOOLEAN]]
    /\ decider \in [pc : {"idle", "read", "check", "write"}, action : Action, at : Instant]
    /\ refresher \in [pc : {"idle", "run", "project", "update"}, card : Card,
                      seen : {"pending", "expired"} \cup Action,
                      label : OpenLabel \cup TerminalLabel]
    /\ crashes \in 0 .. MaxCrashes
    /\ (ack.decidedAt = Never) <=> (ack.status \in {"none", "pending"})
    /\ ack.consumedAt # Never => ack.status = "approved"

IdleHandler == [pc |-> "idle", key |-> "none", at |-> 0, used |-> FALSE]

IdleDecider == [pc |-> "idle", action |-> "approved", at |-> 0]

IdleRefresher ==
    [pc |-> "idle", card |-> CHOOSE c \in Card : TRUE, seen |-> "pending", label |-> "pending"]

AckInit ==
    /\ now = 0 /\ moved = FALSE /\ granted = TRUE
    /\ ack = [status |-> "none", decidedAt |-> Never, consumedAt |-> Never]
    /\ run = [k \in Key |-> [status |-> "none", createdAt |-> Never]]
    /\ card = [c \in Card |-> "none"]
    /\ envelopes = {} /\ answered = {}
    /\ handler = [h \in Handler |-> IdleHandler]
    /\ decider = IdleDecider
    /\ refresher = IdleRefresher
    /\ crashes = 0

-----------------------------------------------------------------------------
(* plan.Service.ValidateCurrent.                                           *)
ValidateCurrent == now < Expiry /\ ~moved

(* validCurrentHumanPlan: the plan is current and the human may still      *)
(* acknowledge every target of it.                                         *)
ValidCurrentHumanPlan == ValidateCurrent /\ granted

(* A pending request whose time has come, which Status must first expire.  *)
Due == ack.status = "pending" /\ now >= Expiry

(* Faulty: the row is updated whatever its status. *)
DecideUnguarded == ~moved /\ ack.status # "none"

(* The transaction of AcknowledgementRepository.Decide.                    *)
DecideAllowed == ~moved /\ ack.status = "pending"

(* Faulty: the decision is stored without its time. *)
DecidedUndated(status, at) == [ack EXCEPT !.status = status]

Decided(status, at) == [ack EXCEPT !.status = status, !.decidedAt = at]

(* What Status leaves in the row.  The clock never goes back, so reading   *)
(* the row and expiring it have the effect of one step at the second.      *)
StatusRow == IF Due /\ DecideAllowed THEN Decided("expired", now) ELSE ack

(* Status fails when the row is due and Decide refuses to expire it.       *)
StatusFails == Due /\ ~DecideAllowed

-----------------------------------------------------------------------------
(* API handlers.                                                           *)

At(h, p) == handler[h].pc = p

Goto(h, p) == handler' = [handler EXCEPT ![h].pc = p]

Return(h) == handler' = [handler EXCEPT ![h] = IdleHandler]

(* One submit per key at a time: lockRunSubmit.                            *)
Submitting(h, k) ==
    handler[h].pc \notin {"idle", "request", "publish", "status"} /\ handler[h].key = k

(* Request, up to the transaction that creates the row.                    *)
Request(h) ==
    /\ At(h, "idle")
    /\ \E c \in Card : card[c] = "none"
    /\ ValidCurrentHumanPlan
    /\ Goto(h, "request")
    /\ UNCHANGED <<worldVars, ack, run, slackVars, decider, refresher, crashes>>

(* The nonce is a digest of the request, so asking again finds the        *)
(* first one's row and posts it again while it is undecided.               *)
CreateRequest(h) ==
    /\ At(h, "request")
    /\ IF ack.status = "none" /\ ~moved
       THEN ack' = [ack EXCEPT !.status = "pending"] /\ Goto(h, "publish")
       ELSE /\ UNCHANGED ack
            /\ IF ack.status = "pending" THEN Goto(h, "publish") ELSE Return(h)
    /\ UNCHANGED <<worldVars, run, slackVars, decider, refresher, crashes>>

(* The message is posted, then its receipt is saved; either may fail, and  *)
(* a message without a receipt keeps its buttons for good.                 *)
Publish(h) ==
    /\ At(h, "publish")
    /\ \/ /\ \E c \in Card : card[c] = "none" /\ card' = [card EXCEPT ![c] = "pending"]
          /\ Goto(h, "status")
       \/ /\ \E c \in Card : card[c] = "none" /\ card' = [card EXCEPT ![c] = "unrecorded"]
          /\ Return(h)
       \/ UNCHANGED card /\ Return(h)
    /\ UNCHANGED <<worldVars, ack, run, envelopes, answered, decider, refresher, crashes>>

(* Status, for a reader or at the end of a request or a resume.            *)
Status(h) ==
    /\ At(h, "idle") \/ At(h, "status")
    /\ ack.status # "none"
    /\ ack' = StatusRow
    /\ Return(h)
    /\ UNCHANGED <<worldVars, run, slackVars, decider, refresher, crashes>>

(* Faulty: the proof is consumed before the run is created. *)
SubmitConsumesFirst(h, k) ==
    /\ At(h, "idle")
    /\ \A g \in Handler : ~Submitting(g, k)
    /\ run[k].status \in {"none", "queued"}
    /\ ValidateCurrent
    /\ ack.status = "approved"
    /\ handler' = [handler EXCEPT ![h] = [pc |-> "consume", key |-> k, at |-> now, used |-> FALSE]]
    /\ UNCHANGED <<worldVars, ack, run, slackVars, decider, refresher, crashes>>

(* submitExactPlan and the checks of submit: a run already past "queued"   *)
(* is returned, otherwise the proof must be approved and everything        *)
(* current.  `at' becomes the run's creation time.                         *)
Submit(h, k) ==
    /\ At(h, "idle")
    /\ \A g \in Handler : ~Submitting(g, k)
    /\ run[k].status \in {"none", "queued"}
    /\ ValidateCurrent
    /\ ack.status = "approved"
    /\ handler' = [handler EXCEPT ![h] = [pc |-> "create", key |-> k, at |-> now, used |-> FALSE]]
    /\ UNCHANGED <<worldVars, ack, run, slackVars, decider, refresher, crashes>>

(* Faulty: no unique index. *)
ProofNeverClaimed == TRUE

(* Faulty: the index covers only active runs. *)
ProofInactive == \A k \in Key : run[k].status \notin Active

(* The unique index on plan_runs.acknowledgement_id.                       *)
ProofUnclaimed == \A k \in Key : run[k].status = "none"

(* RunRepository.Create, or the queued run an earlier submit left.         *)
CreateRun(h) ==
    LET k == handler[h].key IN
    /\ At(h, "create")
    /\ \/ /\ run[k].status = "none" /\ ~moved /\ ProofUnclaimed
          /\ run' = [run EXCEPT ![k] = [status |-> "queued", createdAt |-> handler[h].at]]
          /\ Goto(h, "claim")
       \/ /\ run[k].status = "none" /\ (moved \/ ~ProofUnclaimed)
          /\ UNCHANGED run
          /\ Return(h)
       \/ /\ run[k].status # "none"
          /\ UNCHANGED run
          /\ IF run[k].status = "queued" THEN Goto(h, "claim") ELSE Return(h)
    /\ UNCHANGED <<worldVars, ack, slackVars, decider, refresher, crashes>>

(* A check of verifyExecution: go on, or audit the denial and return.      *)
PassOr(h, ok, next) ==
    /\ IF ok THEN Goto(h, next) ELSE Return(h)
    /\ UNCHANGED <<worldVars, ack, run, slackVars, decider, refresher, crashes>>

(* verifyExecution reads the proof, and VerifyRunClaim the queued run that *)
(* owns it.                                                                *)
VerifyRunClaim(h) ==
    /\ At(h, "claim")
    /\ IF ack.status = "approved" /\ run[handler[h].key].status = "queued"
       THEN handler' = [handler EXCEPT ![h].pc = "human", ![h].used = ack.consumedAt # Never]
       ELSE Return(h)
    /\ UNCHANGED <<worldVars, ack, run, slackVars, decider, refresher, crashes>>

VerifyHuman(h) == At(h, "human") /\ PassOr(h, ValidCurrentHumanPlan, "fresh")

(* The proof may first be used before its expiry, or by a run created      *)
(* before it; `at' becomes the time of use.                                *)
VerifyFresh(h) ==
    LET claimedWhileFresh == run[handler[h].key].createdAt < Expiry IN
    /\ At(h, "fresh")
    /\ IF handler[h].used \/ now < Expiry \/ claimedWhileFresh
       THEN handler' = [handler EXCEPT ![h].pc = "current", ![h].at = now]
       ELSE Return(h)
    /\ UNCHANGED <<worldVars, ack, run, slackVars, decider, refresher, crashes>>

VerifyCurrent(h) ==
    /\ At(h, "current")
    /\ PassOr(h, ValidateCurrent, IF handler[h].used THEN "start" ELSE "consume")

(* Faulty: the transaction does not name the expected revision. *)
ConsumeAnyRevision == ack.status = "approved" /\ ack.consumedAt = Never

(* AcknowledgementRepository.Consume.                                      *)
ConsumeAllowed == ~moved /\ ack.status = "approved" /\ ack.consumedAt = Never

Consume(h) ==
    /\ At(h, "consume")
    /\ IF ConsumeAllowed
       THEN ack' = [ack EXCEPT !.consumedAt = handler[h].at] /\ Goto(h, "start")
       ELSE UNCHANGED ack /\ Return(h)
    /\ UNCHANGED <<worldVars, run, slackVars, decider, refresher, crashes>>

(* The engine opens the run, unless it was withdrawn in the meantime.      *)
StartRun(h) ==
    LET k == handler[h].key IN
    /\ At(h, "start")
    /\ run' = [run EXCEPT ![k].status = IF @ = "queued" THEN "running" ELSE @]
    /\ Return(h)
    /\ UNCHANGED <<worldVars, ack, slackVars, decider, refresher, crashes>>

(* The client disconnects and the request's context ends the handler.      *)
(* From "start" on the run belongs to the server.                          *)
Abandon(h) ==
    /\ handler[h].pc \notin {"idle", "start"}
    /\ Return(h)
    /\ UNCHANGED <<worldVars, ack, run, slackVars, decider, refresher, crashes>>

Handle(h) ==
    \/ Request(h) \/ CreateRequest(h) \/ Publish(h) \/ Status(h)
    \/ \E k \in Key : Submit(h, k)
    \/ CreateRun(h) \/ VerifyRunClaim(h) \/ VerifyHuman(h) \/ VerifyFresh(h)
    \/ VerifyCurrent(h) \/ Consume(h) \/ StartRun(h) \/ Abandon(h)

-----------------------------------------------------------------------------
(* Runs, as far as the proof is concerned: see RunEngine.                  *)

RunBecomes(k, status) ==
    /\ run' = [run EXCEPT ![k].status = status]
    /\ UNCHANGED <<worldVars, ack, slackVars, procVars, crashes>>

CancelRun(k) == run[k].status \in {"queued", "interrupted"} /\ RunBecomes(k, "cancelled")

InterruptRun(k) == run[k].status = "running" /\ RunBecomes(k, "interrupted")

EndRun(k) == run[k].status = "running" /\ RunBecomes(k, "ended")

(* ResumeAs: VerifyRun asks for a fresh approved proof of a current plan.  *)
ResumeRun(k) ==
    /\ run[k].status = "interrupted"
    /\ ValidateCurrent
    /\ ack.status = "approved"
    /\ RunBecomes(k, "running")

RunStep(k) == CancelRun(k) \/ InterruptRun(k) \/ EndRun(k) \/ ResumeRun(k)

-----------------------------------------------------------------------------
(* The decider.                                                            *)

(* The human presses a button of a message that still shows them.          *)
Press(a) ==
    /\ \E c \in Card : card[c] \in {"unrecorded", "pending"}
    /\ envelopes' = envelopes \cup {a}
    /\ UNCHANGED <<worldVars, ack, run, card, answered, procVars, crashes>>

(* consume receives an envelope and dates the candidate.                   *)
Receive(a) ==
    /\ decider.pc = "idle"
    /\ a \in envelopes
    /\ decider' = [pc |-> "read", action |-> a, at |-> now]
    /\ UNCHANGED <<worldVars, ack, run, slackVars, handler, refresher, crashes>>

(* Decide returned a result or an audited denial: the envelope is          *)
(* acknowledged, and delivered again when that message is lost.            *)
EnvelopeDone ==
    /\ \E lost \in BOOLEAN :
          envelopes' = IF lost THEN envelopes ELSE envelopes \ {decider.action}
    /\ decider' = IdleDecider

(* Decide failed: the connection is dropped and the envelope comes again.  *)
EnvelopeRetried == UNCHANGED envelopes /\ decider' = IdleDecider

(* Faulty: any decided request counts as decided this way. *)
DecideAgainConfirms ==
    /\ decider.pc = "read"
    /\ ack.status # "pending"
    /\ answered' = answered \cup {decider.action}
    /\ EnvelopeDone
    /\ UNCHANGED <<worldVars, ack, run, card, handler, refresher, crashes>>

(* The request was decided before: the same decision is confirmed, another *)
(* one is denied.                                                          *)
DecideAgain ==
    /\ decider.pc = "read"
    /\ ack.status # "pending"
    /\ answered' = answered \cup ({decider.action} \cap {ack.status})
    /\ EnvelopeDone
    /\ UNCHANGED <<worldVars, ack, run, card, handler, refresher, crashes>>

(* The decision comes too late: the request expires and it is denied.      *)
DecideLate ==
    /\ decider.pc = "read"
    /\ Due
    /\ ack' = StatusRow
    /\ IF StatusFails THEN EnvelopeRetried ELSE EnvelopeDone
    /\ UNCHANGED <<worldVars, run, card, answered, handler, refresher, crashes>>

(* The request is pending: the candidate's date is compared with the clock *)
(* and `at' becomes the time of the decision.                              *)
DecideRead ==
    /\ decider.pc = "read"
    /\ ack.status = "pending" /\ now < Expiry
    /\ IF now - decider.at > Skew
       THEN EnvelopeDone
       ELSE /\ decider' = [decider EXCEPT !.pc = "check", !.at = now]
            /\ UNCHANGED envelopes
    /\ UNCHANGED <<worldVars, ack, run, card, answered, handler, refresher, crashes>>

DecideCheck ==
    /\ decider.pc = "check"
    /\ IF ValidCurrentHumanPlan
       THEN decider' = [decider EXCEPT !.pc = "write"] /\ UNCHANGED envelopes
       ELSE EnvelopeDone
    /\ UNCHANGED <<worldVars, ack, run, card, answered, handler, refresher, crashes>>

DecideWrite ==
    /\ decider.pc = "write"
    /\ IF DecideAllowed
       THEN /\ ack' = Decided(decider.action, decider.at)
            /\ answered' = answered \cup {decider.action}
            /\ EnvelopeDone
       ELSE UNCHANGED <<ack, answered>> /\ EnvelopeRetried
    /\ UNCHANGED <<worldVars, run, card, handler, refresher, crashes>>

Decide == DecideAgain \/ DecideLate \/ DecideRead \/ DecideCheck \/ DecideWrite

-----------------------------------------------------------------------------
(* The refresher: MessageStatus for one message, then its update.          *)

Refreshed(p, l) == refresher' = [refresher EXCEPT !.pc = p, !.label = l]

(* An update is sent unless the message is undecided or says so already.   *)
Report(l) ==
    IF l \in {"pending", card[refresher.card]}
    THEN refresher' = IdleRefresher ELSE Refreshed("update", l)

(* Status, for the next uncompleted row.                                   *)
Refresh(c) ==
    /\ refresher.pc = "idle"
    /\ card[c] \in OpenLabel
    /\ ack' = StatusRow
    /\ refresher' = IF StatusFails THEN IdleRefresher
                    ELSE [refresher EXCEPT !.pc = "run", !.card = c, !.seen = StatusRow.status]
    /\ UNCHANGED <<worldVars, run, slackVars, handler, decider, crashes>>

(* ExecutionStatus: the run of this plan, if there is one.                 *)
ReadRun ==
    /\ refresher.pc = "run"
    /\ \/ \E k \in Key : run[k].status # "none" /\ Report(run[k].status)
       \/ /\ \A k \in Key : run[k].status = "none"
          /\ IF refresher.seen \in {"approved", "pending"}
             THEN Refreshed("project", "pending") ELSE Report(refresher.seen)
    /\ UNCHANGED <<worldVars, ack, run, slackVars, handler, decider, crashes>>

(* Faulty: the recorded status is reported without looking at the plan. *)
ProjectStatusOnly ==
    /\ refresher.pc = "project"
    /\ ack' = StatusRow
    /\ IF StatusFails THEN refresher' = IdleRefresher ELSE Report(refresher.seen)
    /\ UNCHANGED <<worldVars, run, slackVars, handler, decider, crashes>>

(* Projection: a request or proof that is no longer current is stale.      *)
Project ==
    /\ refresher.pc = "project"
    /\ ack' = StatusRow
    /\ IF StatusFails THEN refresher' = IdleRefresher
       ELSE Report(IF ValidCurrentHumanPlan THEN refresher.seen ELSE "stale")
    /\ UNCHANGED <<worldVars, run, slackVars, handler, decider, crashes>>

(* chat.update and CompleteMessageReceipt succeed; the buttons are gone.   *)
UpdateDone ==
    /\ refresher.pc = "update"
    /\ card' = [card EXCEPT ![refresher.card] = refresher.label]
    /\ refresher' = IdleRefresher
    /\ UNCHANGED <<worldVars, ack, run, envelopes, answered, handler, decider, crashes>>

(* Either call fails: the row stays as it is for the next round.           *)
UpdateFails ==
    /\ refresher.pc = "update"
    /\ refresher' = IdleRefresher
    /\ UNCHANGED <<worldVars, ack, run, slackVars, handler, decider, crashes>>

-----------------------------------------------------------------------------
(* The rest of the system.                                                 *)

Tick ==
    /\ now < Expiry
    /\ now' = now + 1
    /\ UNCHANGED <<moved, granted, ack, run, slackVars, procVars, crashes>>

(* Any transaction that advances the state revision.                       *)
StateMoves ==
    /\ ~moved
    /\ moved' = TRUE
    /\ UNCHANGED <<now, granted, ack, run, slackVars, procVars, crashes>>

(* Grants are changed by a transaction that advances the revision too.     *)
RevokeGrant ==
    /\ granted
    /\ granted' = FALSE /\ moved' = TRUE
    /\ UNCHANGED <<now, ack, run, slackVars, procVars, crashes>>

(* The process dies and restarts; startup settles the runs it was driving. *)
Crash ==
    /\ crashes < MaxCrashes
    /\ crashes' = crashes + 1
    /\ handler' = [h \in Handler |-> IdleHandler]
    /\ decider' = IdleDecider
    /\ refresher' = IdleRefresher
    /\ \E end \in {"interrupted", "ended"} :
          run' = [k \in Key |-> [run[k] EXCEPT !.status = IF @ = "running" THEN end ELSE @]]
    /\ UNCHANGED <<worldVars, ack, slackVars>>

AckNext ==
    \/ \E h \in Handler : Handle(h)
    \/ \E k \in Key : RunStep(k)
    \/ \E a \in Action : Press(a) \/ Receive(a)
    \/ Decide
    \/ \E c \in Card : Refresh(c)
    \/ ReadRun \/ Project \/ UpdateDone \/ UpdateFails
    \/ Tick \/ StateMoves \/ RevokeGrant \/ Crash

(* The refresher's ticker serves every uncompleted row again and again,    *)
(* and Slack does not refuse an update for ever.  Nothing is assumed of    *)
(* the people, of the API's clients or of the decider.                     *)
AckFairness ==
    /\ \A c \in Card : SF_vars(Refresh(c))
    /\ WF_vars(ReadRun) /\ WF_vars(Project) /\ WF_vars(UpdateDone \/ UpdateFails)
    /\ SF_vars(UpdateDone)

AckSpec == AckInit /\ [][AckNext]_vars

AckLiveSpec == AckSpec /\ AckFairness

-----------------------------------------------------------------------------
(* A run that ever left its queue is the only one created for the plan,    *)
(* and its proof was approved before the run was created, and first used   *)
(* by it before the expiry: submit, verifyExecution and the unique index   *)
(* over crashes, abandoned requests and concurrent submits.                *)
StartedIsAcknowledged ==
    \A k \in Key : run[k].status \in {"running", "interrupted", "ended"} =>
        /\ ack.status = "approved"
        /\ ack.decidedAt <= run[k].createdAt
        /\ run[k].createdAt <= ack.consumedAt
        /\ ack.consumedAt < Expiry
        /\ \A j \in Key \ {k} : run[j].status = "none"

(* executePlan's promise: the one-use proof is consumed only after the     *)
(* queued run that owns it is durable, so no crash can burn a proof.       *)
ProofHasOwner ==
    ack.consumedAt # Never =>
        \E k \in Key : run[k].status # "none" /\ run[k].createdAt <= ack.consumedAt

(* What Decide reports to the human as taken is what the request holds,    *)
(* however often either button's envelope is delivered.                    *)
AnswerIsFinal == answered \subseteq {ack.status}

(* Once decided, by a human or by expiry, a request keeps its decision and *)
(* its time, and once used its time of use: Decide racing Status.          *)
DecisionIsFinal ==
    [][/\ ack.status \notin {"none", "pending"} =>
             ack'.status = ack.status /\ ack'.decidedAt = ack.decidedAt
       /\ ack.consumedAt # Never => ack'.consumedAt = ack.consumedAt]_vars

(* A human's decision is recorded, and a proof used, only while the human  *)
(* still has the grant: no write looks at grants, a revocation between     *)
(* check and write is caught by the revision alone.                        *)
AuthorityAtUse ==
    [][(ack'.consumedAt # ack.consumedAt \/ (ack'.status # ack.status /\ ack'.status \in Action))
         => granted]_vars

(* A message that Refresh completed as rejected or expired belongs to a    *)
(* plan that never ran, and one completed with the end of a run to a plan  *)
(* for which no run is active any more.                                    *)
SettledIsTrue ==
    \A c \in Card :
        /\ card[c] \in {"rejected", "expired"} =>
              ack.status = card[c] /\ \A k \in Key : run[k].status = "none"
        /\ card[c] \in Ended =>
              /\ \E k \in Key : run[k].status = card[c]
              /\ \A k \in Key : run[k].status \notin Active

(* After the expiry every recorded message is brought to a final label     *)
(* unless a run is waiting or at work, or the request is still pending in  *)
(* a state that moved (then Status keeps failing).                         *)
MessageSettles ==
    \A c \in Card :
        (card[c] \in OpenLabel /\ now >= Expiry) ~>
            (\/ card[c] \in TerminalLabel
             \/ \E k \in Key : run[k].status \in Active
             \/ ack.status = "pending" /\ moved)

(* The comment of Status: it "terminalizes a pending request whose exact   *)
(* plan expiry has elapsed".  The refresher calls it again and again for a *)
(* request with a recorded message.                                        *)
ExpiryTerminalizes ==
    (Due /\ \E c \in Card : card[c] \in OpenLabel) ~> (ack.status # "pending")
=============================================================================

---------------------- MODULE AcknowledgementProofs ----------------------
(***************************************************************************)
(* Proofs that the safety properties of Acknowledgement hold for every set *)
(* of handlers, keys and messages, every expiry and skew, and any number   *)
(* of crashes.                                                             *)
(*                                                                         *)
(* The goroutines hold what they read while everybody else goes on.  What  *)
(* they rely on are facts that never become false again (StableStep): a    *)
(* decision stays, a time of use stays, a run stays created and an ended   *)
(* one ended.  Each goroutine's local invariant speaks only of those.      *)
(***************************************************************************)
EXTENDS Acknowledgement, TLAPS

(* The places of a handler between Submit and the start of the run.        *)
Claimed == {"claim", "human", "fresh", "current", "consume", "start"}

(* The types, one variable at a time.                                      *)
Rows == [status : {"none", "pending", "expired"} \cup Action,
         decidedAt : Instant \cup {Never}, consumedAt : Instant \cup {Never}]

Runs == [status : {"none"} \cup Active \cup Ended, createdAt : Instant \cup {Never}]

Labels == {"none", "unrecorded"} \cup OpenLabel \cup TerminalLabel

Places == {"idle", "request", "publish", "status", "create",
           "claim", "human", "fresh", "current", "consume", "start"}

Handlers == [pc : Places, key : Key \cup {"none"}, at : Instant, used : BOOLEAN]

Deciders == [pc : {"idle", "read", "check", "write"}, action : Action, at : Instant]

Refreshers == [pc : {"idle", "run", "project", "update"}, card : Card,
               seen : {"pending", "expired"} \cup Action, label : OpenLabel \cup TerminalLabel]

WorldType ==
    now \in Instant /\ moved \in BOOLEAN /\ granted \in BOOLEAN /\ crashes \in 0 .. MaxCrashes

RowTyped(row) ==
    /\ row \in Rows
    /\ (row.decidedAt = Never) <=> (row.status \in {"none", "pending"})
    /\ row.consumedAt # Never => row.status = "approved"

SlackType == card \in [Card -> Labels] /\ envelopes \subseteq Action /\ answered \subseteq Action

(* A grant is only revoked together with a move of the state.              *)
WorldInv == ~moved => granted

(* Nothing is posted, or about to be.                                      *)
Unposted ==
    /\ \A c \in Card : card[c] = "none"
    /\ \A h \in Handler : handler[h].pc # "publish"
    /\ refresher.pc = "idle"

(* A decision is not dated ahead, what was posted was requested, and what  *)
(* was answered was decided.                                               *)
RowInv ==
    /\ ack.decidedAt <= now
    /\ ack.status = "none" => Unposted
    /\ answered \subseteq {ack.status}

(* There is one run, created under an approved request; it leaves its      *)
(* queue after the proof was used, and the proof is used after it exists.  *)
RunInv ==
    /\ \A j, k \in Key : run[j].status # "none" /\ run[k].status # "none" => j = k
    /\ \A k \in Key : run[k].status # "none" =>
          /\ ack.status = "approved"
          /\ run[k].createdAt \in Instant
          /\ ack.decidedAt <= run[k].createdAt /\ run[k].createdAt <= now
    /\ \A k \in Key : run[k].status \in {"running", "interrupted", "ended"} =>
          ack.consumedAt # Never
    /\ ack.consumedAt # Never =>
          /\ ack.consumedAt < Expiry
          /\ \E k \in Key : run[k].status # "none" /\ run[k].createdAt <= ack.consumedAt

(* What a handler has found out is still so.                               *)
HandlerOK(h) ==
    /\ handler[h].at <= now
    /\ handler[h].used \/ handler[h].pc = "start" => ack.consumedAt # Never
    /\ handler[h].pc \in {"create"} \cup Claimed => handler[h].key \in Key
    /\ handler[h].pc = "create" => ack.status = "approved" /\ ack.decidedAt <= handler[h].at
    /\ handler[h].pc \in Claimed => run[handler[h].key].status # "none"
    /\ handler[h].pc \in {"current", "consume"} =>
          run[handler[h].key].createdAt <= handler[h].at
    /\ handler[h].pc = "consume" => handler[h].at < Expiry

HandlerInv == \A h \in Handler : HandlerOK(h)

(* A final label, on its way or in a message, says what is so for good.    *)
LabelTrue(l) ==
    /\ l \in {"rejected", "expired"} => ack.status = l
    /\ l \in Ended => \E k \in Key : run[k].status = l

RefresherInv ==
    /\ refresher.pc = "run" => LabelTrue(refresher.seen)
    /\ refresher.pc = "project" => refresher.seen \in {"approved", "pending"}
    /\ refresher.pc = "update" => LabelTrue(refresher.label)

CardInv == \A c \in Card : LabelTrue(card[c])

AckIInv ==
    /\ AckTypeOK /\ WorldInv /\ RowInv /\ RunInv /\ HandlerInv
    /\ decider.at <= now /\ RefresherInv /\ CardInv

(* What no step takes back.                                                *)
StableStep ==
    /\ now <= now'
    /\ ack.status # "none" => ack'.status # "none"
    /\ ack.status \notin {"none", "pending"} =>
          ack'.status = ack.status /\ ack'.decidedAt = ack.decidedAt
    /\ ack.consumedAt # Never => ack'.consumedAt = ack.consumedAt
    /\ \A k \in Key : run[k].status # "none" =>
          run'[k].status # "none" /\ run'[k].createdAt = run[k].createdAt
    /\ \A k \in Key : run[k].status \in Ended => run'[k].status = run[k].status

(* The ways in which the row of the request changes.                       *)
RowMove ==
    \/ UNCHANGED ack
    \/ ack.status = "none" /\ ack' = [ack EXCEPT !.status = "pending"]
    \/ ack.status = "pending" /\ ~moved /\ ack' = Decided("expired", now)
    \/ /\ ack.status = "pending" /\ ~moved /\ decider.pc = "write"
       /\ ack' = Decided(decider.action, decider.at)
    \/ /\ ConsumeAllowed
       /\ \E h \in Handler : /\ handler[h].pc = "consume"
                             /\ ack' = [ack EXCEPT !.consumedAt = handler[h].at]

(* The ways in which the rows of the runs change.                          *)
RunCreated ==
    /\ UNCHANGED <<ack, now>> /\ ProofUnclaimed
    /\ \E h \in Handler :
          /\ handler[h].pc = "create"
          /\ run' = [run EXCEPT ![handler[h].key] =
                        [status |-> "queued", createdAt |-> handler[h].at]]

RunsGoOn ==
    \A k \in Key :
        /\ run'[k].createdAt = run[k].createdAt
        /\ \/ run'[k].status = run[k].status
           \/ /\ run[k].status \notin {"none"} \cup Ended /\ run'[k].status # "none"
              /\ run'[k].status \in {"running", "interrupted", "ended"} => ack.consumedAt # Never

(* The type invariant, taken apart.                                        *)
LEMMA Types ==
  AckTypeOK <=> /\ WorldType /\ RowTyped(ack) /\ run \in [Key -> Runs] /\ SlackType
                /\ handler \in [Handler -> Handlers]
                /\ decider \in Deciders /\ refresher \in Refreshers
  BY Zenon DEF AckTypeOK, WorldType, RowTyped, SlackType, Rows, Runs, Labels, Places, Handlers,
     Deciders, Refreshers

(* The start of time is an instant, and never is not one.                  *)
LEMMA Instants ==
  /\ 0 \in Instant /\ Never \notin Instant /\ Never <= 0
  /\ \A i \in Instant : i \in Nat /\ i <= Expiry
  BY AckConstants DEF Instant, Never

(* A goroutine that is idle is well-typed.                                 *)
LEMMA Idle ==
  IdleHandler \in Handlers /\ IdleDecider \in Deciders /\ IdleRefresher \in Refreshers
<1>1. (CHOOSE c \in Card : TRUE) \in Card
  BY Zenon, AckConstants
<1> QED
  BY Zenon, <1>1, Instants DEF IdleHandler, IdleDecider, IdleRefresher, Handlers, Deciders,
     Refreshers, Places, Action, OpenLabel

(* What Status leaves in the row is a row.                                 *)
LEMMA StatusRowTyped ==
  ASSUME RowTyped(ack), now \in Instant
  PROVE  RowTyped(StatusRow)
  BY Zenon, Instants DEF StatusRow, Due, DecideAllowed, Decided, RowTyped, Rows

(* A handler leaves the world, the decisions and the other goroutines      *)
(* alone.                                                                  *)
LEMMA HandleTouches ==
  ASSUME NEW h \in Handler, Handle(h)
  PROVE  UNCHANGED <<worldVars, envelopes, answered, decider, refresher, crashes>>
<1>1. Request(h) \/ CreateRequest(h) \/ Publish(h) \/ Status(h)
      \/ (\E k \in Key : Submit(h, k)) \/ CreateRun(h) \/ VerifyRunClaim(h) =>
        UNCHANGED <<worldVars, envelopes, answered, decider, refresher, crashes>>
  BY Zenon DEF Request, At, Goto, CreateRequest, Return, Publish, Status, Submit, CreateRun,
     VerifyRunClaim, worldVars, slackVars, procVars
<1>2. VerifyHuman(h) \/ VerifyFresh(h) \/ VerifyCurrent(h) \/ Consume(h) \/ StartRun(h)
      \/ Abandon(h) =>
        UNCHANGED <<worldVars, envelopes, answered, decider, refresher, crashes>>
  BY Zenon DEF VerifyHuman, PassOr, At, Goto, Return, VerifyFresh, VerifyCurrent, Consume,
     StartRun, Abandon, worldVars, slackVars, procVars
<1> QED
  BY Zenon, <1>1, <1>2 DEF Handle

(* A run leaves everything but its row alone.                              *)
LEMMA RunTouches ==
  ASSUME NEW k \in Key, RunStep(k)
  PROVE  UNCHANGED <<worldVars, ack, card, envelopes, answered, handler, decider,
                   refresher, crashes>>
<1>1. CancelRun(k) \/ InterruptRun(k) \/ EndRun(k) \/ ResumeRun(k) =>
        UNCHANGED <<worldVars, ack, card, envelopes, answered, handler, decider,
                   refresher, crashes>>
  BY Zenon DEF CancelRun, RunBecomes, InterruptRun, EndRun, ResumeRun, worldVars, slackVars,
     procVars
<1> QED
  BY Zenon, <1>1 DEF RunStep

(* The human and the decider touch the request, the envelopes and the      *)
(* answers.                                                                *)
LEMMA DeciderTouches ==
  ASSUME Decide \/ \E a \in Action : Press(a) \/ Receive(a)
  PROVE  UNCHANGED <<worldVars, run, card, handler, refresher, crashes>>
<1>1. (\E a \in Action : Press(a)) \/ (\E a \in Action : Receive(a)) \/ DecideAgain
      \/ DecideLate \/ DecideRead \/ DecideCheck \/ DecideWrite =>
        UNCHANGED <<worldVars, run, card, handler, refresher, crashes>>
  BY Zenon DEF Press, Receive, DecideAgain, EnvelopeDone, DecideLate, EnvelopeRetried,
     DecideRead, DecideCheck, DecideWrite, worldVars, slackVars, procVars
<1> QED
  BY Zenon, <1>1 DEF Decide

(* The refresher touches the request and the messages.                     *)
LEMMA RefresherTouches ==
  ASSUME ReadRun \/ Project \/ UpdateDone \/ UpdateFails \/ \E c \in Card : Refresh(c)
  PROVE  UNCHANGED <<worldVars, run, envelopes, answered, handler, decider, crashes>>
<1>1. (\E c \in Card : Refresh(c)) \/ ReadRun \/ Project \/ UpdateDone \/ UpdateFails =>
        UNCHANGED <<worldVars, run, envelopes, answered, handler, decider, crashes>>
  BY Zenon DEF Refresh, ReadRun, Report, Refreshed, Project, UpdateDone, UpdateFails, worldVars,
     slackVars, procVars
<1> QED
  BY Zenon, <1>1

(* The row changes in one of these ways.                                   *)
LEMMA RowMoves ==
  ASSUME AckNext
  PROVE  RowMove
<1>1. ASSUME NEW h \in Handler, Handle(h)
      PROVE  RowMove
  <2>1. CASE Request(h) \/ Publish(h) \/ (\E k \in Key : Submit(h, k)) \/ CreateRun(h)
             \/ VerifyRunClaim(h) \/ VerifyHuman(h) \/ VerifyFresh(h)
    <3>1. UNCHANGED ack
      BY Zenon, <2>1 DEF Request, At, Goto, Publish, Return, Submit, CreateRun, VerifyRunClaim,
         VerifyHuman, PassOr, VerifyFresh, worldVars, slackVars, procVars
    <3> QED
      BY Zenon, <3>1 DEF RowMove
  <2>2. CASE VerifyCurrent(h) \/ StartRun(h) \/ Abandon(h)
    <3>1. UNCHANGED ack
      BY Zenon, <2>2 DEF VerifyCurrent, PassOr, At, Goto, Return, StartRun, Abandon, worldVars,
         slackVars, procVars
    <3> QED
      BY Zenon, <3>1 DEF RowMove
  <2>3. CASE CreateRequest(h)
    BY Zenon, <2>3 DEF CreateRequest, At, Goto, Return, RowMove
  <2>4. CASE Status(h)
    BY Zenon, <2>4 DEF Status, At, Return, StatusRow, Due, DecideAllowed, RowMove
  <2>5. CASE Consume(h)
    BY Zenon, <2>5 DEF Consume, At, Goto, Return, RowMove
  <2> QED
    BY Zenon, <1>1, <2>1, <2>2, <2>3, <2>4, <2>5 DEF Handle
<1>2. ASSUME NEW k \in Key, RunStep(k)
      PROVE  RowMove
  BY Zenon, <1>2, RunTouches DEF RowMove
<1>3. ASSUME Decide \/ \E a \in Action : Press(a) \/ Receive(a)
      PROVE  RowMove
  <2>1. CASE (\E a \in Action : Press(a)) \/ (\E a \in Action : Receive(a)) \/ DecideAgain
             \/ DecideRead \/ DecideCheck
    <3>1. UNCHANGED ack
      BY Zenon, <2>1 DEF Press, Receive, DecideAgain, EnvelopeDone, DecideRead, DecideCheck,
         worldVars, slackVars, procVars
    <3> QED
      BY Zenon, <3>1 DEF RowMove
  <2>2. CASE DecideLate
    BY Zenon, <2>2 DEF DecideLate, EnvelopeDone, EnvelopeRetried, StatusRow, Due, DecideAllowed,
       RowMove
  <2>3. CASE DecideWrite
    BY Zenon, <2>3 DEF DecideWrite, EnvelopeDone, EnvelopeRetried, DecideAllowed, RowMove
  <2> QED
    BY Zenon, <1>3, <2>1, <2>2, <2>3 DEF Decide
<1>4. ASSUME ReadRun \/ Project \/ UpdateDone \/ UpdateFails \/ \E c \in Card : Refresh(c)
      PROVE  RowMove
  <2>1. CASE ReadRun \/ UpdateDone \/ UpdateFails
    <3>1. UNCHANGED ack
      BY Zenon, <2>1 DEF ReadRun, Report, Refreshed, UpdateDone, UpdateFails, worldVars,
         slackVars, procVars
    <3> QED
      BY Zenon, <3>1 DEF RowMove
  <2>2. CASE \E c \in Card : Refresh(c)
    BY Zenon, <2>2 DEF Refresh, StatusRow, Due, DecideAllowed, RowMove
  <2>3. CASE Project
    BY Zenon, <2>3 DEF Project, Report, Refreshed, StatusRow, Due, DecideAllowed, RowMove
  <2> QED
    BY Zenon, <1>4, <2>1, <2>2, <2>3
<1>5. ASSUME Tick \/ StateMoves \/ RevokeGrant \/ Crash
      PROVE  RowMove
  <2>1. CASE Tick \/ StateMoves \/ RevokeGrant \/ Crash
    <3>1. UNCHANGED ack
      BY Zenon, <2>1 DEF Tick, StateMoves, RevokeGrant, Crash, worldVars, slackVars, procVars
    <3> QED
      BY Zenon, <3>1 DEF RowMove
  <2> QED
    BY Zenon, <1>5, <2>1
<1> QED
  BY Zenon, <1>1, <1>2, <1>3, <1>4, <1>5 DEF AckNext

(* The row keeps its type.                                                 *)
LEMMA RowTypeStep ==
  ASSUME AckTypeOK, RowMove
  PROVE  RowTyped(ack)'
<1>1. /\ RowTyped(ack) /\ now \in Instant
      /\ decider \in Deciders /\ handler \in [Handler -> Handlers]
  BY Zenon, Types DEF WorldType
<1>2. ASSUME NEW s \in {"expired"} \cup Action, NEW at \in Instant, ack.status = "pending",
             ack' = Decided(s, at)
      PROVE  RowTyped(ack)'
  BY Zenon, <1>1, <1>2, Instants DEF RowTyped, Rows, Decided, Action
<1>3. CASE ack.status = "none" /\ ack' = [ack EXCEPT !.status = "pending"]
  BY Zenon, <1>1, <1>3 DEF RowTyped, Rows
<1>4. ASSUME NEW at \in Instant, ConsumeAllowed, ack' = [ack EXCEPT !.consumedAt = at]
      PROVE  RowTyped(ack)'
  BY Zenon, <1>1, <1>4, Instants DEF RowTyped, Rows, ConsumeAllowed
<1>5. /\ decider.action \in Action /\ decider.at \in Instant
      /\ \A h \in Handler : handler[h].at \in Instant
  BY Zenon, <1>1 DEF Deciders, Handlers
<1>6. CASE UNCHANGED ack
  BY Zenon, <1>1, <1>6 DEF RowTyped
<1> QED
  BY Zenon, <1>1, <1>2, <1>3, <1>4, <1>5, <1>6 DEF RowMove

(* The runs keep their type.                                               *)
LEMMA RunTypeStep ==
  ASSUME AckTypeOK, AckNext
  PROVE  run' \in [Key -> Runs]
<1>1. ASSUME NEW h \in Handler, Handle(h)
      PROVE  run' \in [Key -> Runs]
  <2>1. CASE Request(h) \/ CreateRequest(h) \/ Publish(h) \/ Status(h)
             \/ (\E k \in Key : Submit(h, k)) \/ VerifyRunClaim(h)
    <3>1. UNCHANGED run
      BY Zenon, <2>1 DEF Request, At, Goto, CreateRequest, Return, Publish, Status, Submit,
         VerifyRunClaim, worldVars, slackVars, procVars
    <3> QED
      BY Zenon, <3>1, Types
  <2>2. CASE VerifyHuman(h) \/ VerifyFresh(h) \/ VerifyCurrent(h) \/ Consume(h) \/ Abandon(h)
    <3>1. UNCHANGED run
      BY Zenon, <2>2 DEF VerifyHuman, PassOr, At, Goto, Return, VerifyFresh, VerifyCurrent,
         Consume, Abandon, worldVars, slackVars, procVars
    <3> QED
      BY Zenon, <3>1, Types
  <2>3. CASE CreateRun(h)
    <3>1. handler[h] \in Handlers
      BY Zenon, Types
    <3> QED
      BY <2>3, <3>1, Types DEF CreateRun, At, Goto, Return, Handlers, Runs, Active
  <2>4. CASE StartRun(h)
    <3>1. \A k \in Key : [run[k] EXCEPT !.status = IF @ = "queued" THEN "running" ELSE @] \in Runs
      BY Zenon, Types DEF Runs, Active
    <3> QED
      BY Zenon, <2>4, <3>1, Types DEF StartRun
  <2> QED
    BY Zenon, <1>1, <2>1, <2>2, <2>3, <2>4 DEF Handle
<1>2. ASSUME NEW k \in Key, RunStep(k)
      PROVE  run' \in [Key -> Runs]
  <2>1. CASE CancelRun(k)
    BY Zenon, <2>1, Types DEF CancelRun, RunBecomes, Runs, Active, Ended
  <2>2. CASE InterruptRun(k)
    BY Zenon, <2>2, Types DEF InterruptRun, RunBecomes, Runs, Active, Ended
  <2>3. CASE EndRun(k)
    BY Zenon, <2>3, Types DEF EndRun, RunBecomes, Runs, Active, Ended
  <2>4. CASE ResumeRun(k)
    BY Zenon, <2>4, Types DEF ResumeRun, RunBecomes, Runs, Active, Ended
  <2> QED
    BY Zenon, <1>2, <2>1, <2>2, <2>3, <2>4 DEF RunStep
<1>3. ASSUME Decide \/ \E a \in Action : Press(a) \/ Receive(a)
      PROVE  run' \in [Key -> Runs]
  BY Zenon, <1>3, DeciderTouches, Types
<1>4. ASSUME ReadRun \/ Project \/ UpdateDone \/ UpdateFails \/ \E c \in Card : Refresh(c)
      PROVE  run' \in [Key -> Runs]
  BY Zenon, <1>4, RefresherTouches, Types
<1>5. ASSUME Tick \/ StateMoves \/ RevokeGrant \/ Crash
      PROVE  run' \in [Key -> Runs]
  <2>1. CASE Tick \/ StateMoves \/ RevokeGrant
    <3>1. UNCHANGED run
      BY Zenon, <2>1 DEF Tick, StateMoves, RevokeGrant, worldVars, slackVars, procVars
    <3> QED
      BY Zenon, <3>1, Types
  <2>2. CASE Crash
    <3>1. \A k \in Key, end \in {"interrupted", "ended"} :
             [run[k] EXCEPT !.status = IF @ = "running" THEN end ELSE @] \in Runs
      BY Zenon, Types DEF Runs, Active, Ended
    <3>2. PICK end \in {"interrupted", "ended"} :
             run' = [k \in Key |-> [run[k] EXCEPT !.status = IF @ = "running" THEN end ELSE @]]
      BY Zenon, <2>2 DEF Crash
    <3> QED
      BY Zenon, <3>1, <3>2
  <2> QED
    BY Zenon, <1>5, <2>1, <2>2
<1> QED
  BY Zenon, <1>1, <1>2, <1>3, <1>4, <1>5 DEF AckNext

(* The messages and decisions keep their types.                            *)
LEMMA SlackTypeStep ==
  ASSUME AckTypeOK, AckNext
  PROVE  SlackType'
<1>1. ASSUME NEW h \in Handler, Handle(h)
      PROVE  SlackType'
  <2>1. CASE Request(h) \/ CreateRequest(h) \/ Status(h) \/ (\E k \in Key : Submit(h, k))
             \/ CreateRun(h) \/ VerifyRunClaim(h)
    <3>1. UNCHANGED slackVars
      BY Zenon, <2>1 DEF Request, At, Goto, CreateRequest, Return, Status, Submit, CreateRun,
         VerifyRunClaim, worldVars, slackVars, procVars
    <3> QED
      BY Zenon, <3>1, Types DEF SlackType, slackVars
  <2>2. CASE VerifyHuman(h) \/ VerifyFresh(h) \/ VerifyCurrent(h) \/ Consume(h) \/ StartRun(h)
             \/ Abandon(h)
    <3>1. UNCHANGED slackVars
      BY Zenon, <2>2 DEF VerifyHuman, PassOr, At, Goto, Return, VerifyFresh, VerifyCurrent,
         Consume, StartRun, Abandon, worldVars, slackVars, procVars
    <3> QED
      BY Zenon, <3>1, Types DEF SlackType, slackVars
  <2>3. CASE Publish(h)
    BY Zenon, <2>3, Types DEF Publish, At, Goto, Return, SlackType, Labels, OpenLabel
  <2> QED
    BY Zenon, <1>1, <2>1, <2>2, <2>3 DEF Handle
<1>2. ASSUME NEW k \in Key, RunStep(k)
      PROVE  SlackType'
  BY Zenon, <1>2, RunTouches, Types DEF SlackType, slackVars
<1>3. ASSUME Decide \/ \E a \in Action : Press(a) \/ Receive(a)
      PROVE  SlackType'
  <2>1. CASE \E a \in Action : Receive(a)
    <3>1. UNCHANGED slackVars
      BY Zenon, <2>1 DEF Receive, worldVars, slackVars, procVars
    <3> QED
      BY Zenon, <3>1, Types DEF SlackType, slackVars
  <2>2. CASE \E a \in Action : Press(a)
    BY Zenon, <2>2, Types DEF Press, SlackType
  <2>3. CASE DecideAgain
    BY Zenon, <2>3, Types DEF DecideAgain, EnvelopeDone, SlackType, Deciders
  <2>4. CASE DecideLate
    BY Zenon, <2>4, Types DEF DecideLate, EnvelopeDone, EnvelopeRetried, SlackType
  <2>5. CASE DecideRead
    BY Zenon, <2>5, Types DEF DecideRead, EnvelopeDone, SlackType
  <2>6. CASE DecideCheck
    BY Zenon, <2>6, Types DEF DecideCheck, EnvelopeDone, SlackType
  <2>7. CASE DecideWrite
    BY Zenon, <2>7, Types DEF DecideWrite, EnvelopeDone, EnvelopeRetried, SlackType, Deciders
  <2> QED
    BY Zenon, <1>3, <2>1, <2>2, <2>3, <2>4, <2>5, <2>6, <2>7 DEF Decide
<1>4. ASSUME ReadRun \/ Project \/ UpdateDone \/ UpdateFails \/ \E c \in Card : Refresh(c)
      PROVE  SlackType'
  <2>1. CASE (\E c \in Card : Refresh(c)) \/ ReadRun \/ Project \/ UpdateFails
    <3>1. UNCHANGED slackVars
      BY Zenon, <2>1 DEF Refresh, ReadRun, Report, Refreshed, Project, UpdateFails, worldVars,
         slackVars, procVars
    <3> QED
      BY Zenon, <3>1, Types DEF SlackType, slackVars
  <2>2. CASE UpdateDone
    BY Zenon, <2>2, Types DEF UpdateDone, SlackType, Labels, Refreshers
  <2> QED
    BY Zenon, <1>4, <2>1, <2>2
<1>5. ASSUME Tick \/ StateMoves \/ RevokeGrant \/ Crash
      PROVE  SlackType'
  <2>1. CASE Tick \/ StateMoves \/ RevokeGrant \/ Crash
    <3>1. UNCHANGED slackVars
      BY Zenon, <2>1 DEF Tick, StateMoves, RevokeGrant, Crash, worldVars, slackVars, procVars
    <3> QED
      BY Zenon, <3>1, Types DEF SlackType, slackVars
  <2> QED
    BY Zenon, <1>5, <2>1
<1> QED
  BY Zenon, <1>1, <1>2, <1>3, <1>4, <1>5 DEF AckNext

(* A handler goes to a place or returns.                                   *)
LEMMA HandlerMoves ==
  ASSUME handler \in [Handler -> Handlers], NEW h \in Handler, NEW p \in Places,
         Goto(h, p) \/ Return(h)
  PROVE  handler' \in [Handler -> Handlers]
  BY Idle DEF Goto, Return, Handlers

(* The handlers keep their type.                                           *)
LEMMA HandlerTypeStep ==
  ASSUME AckTypeOK, AckNext
  PROVE  handler' \in [Handler -> Handlers]
<1>1. ASSUME NEW h \in Handler, Handle(h)
      PROVE  handler' \in [Handler -> Handlers]
  <2>1. CASE Request(h)
    BY Zenon, <2>1, Types, HandlerMoves DEF Request, Places
  <2>2. CASE CreateRequest(h)
    BY Zenon, <2>2, Types, HandlerMoves DEF CreateRequest, Places
  <2>3. CASE Publish(h)
    BY Zenon, <2>3, Types, HandlerMoves DEF Publish, Places
  <2>4. CASE Status(h)
    BY Zenon, <2>4, Types, HandlerMoves DEF Status, Places
  <2>5. CASE \E k \in Key : Submit(h, k)
    BY <2>5, Types DEF Submit, At, Handlers, Places, WorldType
  <2>6. CASE CreateRun(h)
    BY Zenon, <2>6, Types, HandlerMoves DEF CreateRun, Places
  <2>7. CASE VerifyRunClaim(h)
    BY <2>7, Types, Idle DEF VerifyRunClaim, At, Return, Handlers, Places
  <2>8. CASE VerifyHuman(h)
    BY Zenon, <2>8, Types, HandlerMoves DEF VerifyHuman, PassOr, Places
  <2>9. CASE VerifyFresh(h)
    BY <2>9, Types, Idle DEF VerifyFresh, At, Return, Handlers, Places, WorldType
  <2>10. CASE VerifyCurrent(h)
    BY Zenon, <2>10, Types, HandlerMoves DEF VerifyCurrent, PassOr, Places
  <2>11. CASE Consume(h)
    BY Zenon, <2>11, Types, HandlerMoves DEF Consume, Places
  <2>12. CASE StartRun(h)
    BY Zenon, <2>12, Types, HandlerMoves DEF StartRun, Places
  <2>13. CASE Abandon(h)
    BY Zenon, <2>13, Types, HandlerMoves DEF Abandon, Places
  <2> QED
    BY Zenon, <1>1, <2>1, <2>2, <2>3, <2>4, <2>5, <2>6, <2>7, <2>8, <2>9, <2>10, <2>11, <2>12,
       <2>13 DEF Handle
<1>2. ASSUME NEW k \in Key, RunStep(k)
      PROVE  handler' \in [Handler -> Handlers]
  BY Zenon, <1>2, RunTouches, Types
<1>3. ASSUME Decide \/ \E a \in Action : Press(a) \/ Receive(a)
      PROVE  handler' \in [Handler -> Handlers]
  BY Zenon, <1>3, DeciderTouches, Types
<1>4. ASSUME ReadRun \/ Project \/ UpdateDone \/ UpdateFails \/ \E c \in Card : Refresh(c)
      PROVE  handler' \in [Handler -> Handlers]
  BY Zenon, <1>4, RefresherTouches, Types
<1>5. ASSUME Tick \/ StateMoves \/ RevokeGrant \/ Crash
      PROVE  handler' \in [Handler -> Handlers]
  <2>1. CASE Tick \/ StateMoves \/ RevokeGrant
    <3>1. UNCHANGED handler
      BY Zenon, <2>1 DEF Tick, StateMoves, RevokeGrant, worldVars, slackVars, procVars
    <3> QED
      BY Zenon, <3>1, Types
  <2>2. CASE Crash
    BY Zenon, <2>2, Idle DEF Crash
  <2> QED
    BY Zenon, <1>5, <2>1, <2>2
<1> QED
  BY Zenon, <1>1, <1>2, <1>3, <1>4, <1>5 DEF AckNext

(* The decider keeps its type.                                             *)
LEMMA DeciderTypeStep ==
  ASSUME AckTypeOK, AckNext
  PROVE  decider' \in Deciders
<1>1. ASSUME NEW h \in Handler, Handle(h)
      PROVE  decider' \in Deciders
  BY Zenon, <1>1, HandleTouches, Types
<1>2. ASSUME NEW k \in Key, RunStep(k)
      PROVE  decider' \in Deciders
  BY Zenon, <1>2, RunTouches, Types
<1>3. ASSUME Decide \/ \E a \in Action : Press(a) \/ Receive(a)
      PROVE  decider' \in Deciders
  <2>1. CASE \E a \in Action : Press(a)
    <3>1. UNCHANGED decider
      BY Zenon, <2>1 DEF Press, worldVars, slackVars, procVars
    <3> QED
      BY Zenon, <3>1, Types
  <2>2. CASE \E a \in Action : Receive(a)
    BY <2>2, Types, Idle DEF Receive, Deciders, WorldType
  <2>3. CASE DecideAgain
    BY Zenon, <2>3, Types, Idle DEF DecideAgain, EnvelopeDone, Deciders
  <2>4. CASE DecideLate
    BY Zenon, <2>4, Types, Idle DEF DecideLate, EnvelopeDone, EnvelopeRetried, Deciders
  <2>5. CASE DecideRead
    BY Zenon, <2>5, Types, Idle DEF DecideRead, EnvelopeDone, Deciders, WorldType
  <2>6. CASE DecideCheck
    BY Zenon, <2>6, Types, Idle DEF DecideCheck, EnvelopeDone, Deciders
  <2>7. CASE DecideWrite
    BY Zenon, <2>7, Types, Idle DEF DecideWrite, EnvelopeDone, EnvelopeRetried, Deciders
  <2> QED
    BY Zenon, <1>3, <2>1, <2>2, <2>3, <2>4, <2>5, <2>6, <2>7 DEF Decide
<1>4. ASSUME ReadRun \/ Project \/ UpdateDone \/ UpdateFails \/ \E c \in Card : Refresh(c)
      PROVE  decider' \in Deciders
  BY Zenon, <1>4, RefresherTouches, Types
<1>5. ASSUME Tick \/ StateMoves \/ RevokeGrant \/ Crash
      PROVE  decider' \in Deciders
  <2>1. CASE Tick \/ StateMoves \/ RevokeGrant
    <3>1. UNCHANGED decider
      BY Zenon, <2>1 DEF Tick, StateMoves, RevokeGrant, worldVars, slackVars, procVars
    <3> QED
      BY Zenon, <3>1, Types
  <2>2. CASE Crash
    BY Zenon, <2>2, Types, Idle DEF Crash, Deciders
  <2> QED
    BY Zenon, <1>5, <2>1, <2>2
<1> QED
  BY Zenon, <1>1, <1>2, <1>3, <1>4, <1>5 DEF AckNext

(* The refresher keeps its type.                                           *)
LEMMA RefresherTypeStep ==
  ASSUME AckTypeOK, RowInv, AckNext
  PROVE  refresher' \in Refreshers
<1>1. ASSUME NEW h \in Handler, Handle(h)
      PROVE  refresher' \in Refreshers
  BY Zenon, <1>1, HandleTouches, Types
<1>2. ASSUME NEW k \in Key, RunStep(k)
      PROVE  refresher' \in Refreshers
  BY Zenon, <1>2, RunTouches, Types
<1>3. ASSUME Decide \/ \E a \in Action : Press(a) \/ Receive(a)
      PROVE  refresher' \in Refreshers
  BY Zenon, <1>3, DeciderTouches, Types
<1>4. ASSUME ReadRun \/ Project \/ UpdateDone \/ UpdateFails \/ \E c \in Card : Refresh(c)
      PROVE  refresher' \in Refreshers
  <2>1. CASE \E c \in Card : Refresh(c)
    <3>1. PICK c \in Card : Refresh(c)
      BY Zenon, <2>1
    <3>2. StatusRow.status \in {"pending", "expired"} \cup Action
      BY Zenon, <3>1, Types, StatusRowTyped DEF Refresh, RowInv, Unposted, RowTyped, Rows,
         WorldType, StatusRow, Due, Decided, OpenLabel, Active
    <3> QED
      BY Zenon, <3>1, <3>2, Types, Idle DEF Refresh, Refreshers
  <2>2. CASE ReadRun
    <3>1. \A k \in Key : run[k].status # "none" => run[k].status \in OpenLabel \cup TerminalLabel
      BY Zenon, Types DEF Runs, OpenLabel, TerminalLabel
    <3>2. refresher.seen \in {"approved", "pending"}
          \/ refresher.seen \in OpenLabel \cup TerminalLabel
      BY Zenon, Types DEF Refreshers, Action, OpenLabel, TerminalLabel
    <3>3. "pending" \in OpenLabel
      BY Zenon DEF OpenLabel
    <3> QED
      BY Zenon, <2>2, <3>1, <3>2, <3>3, Types, Idle DEF ReadRun, Report, Refreshed, Refreshers
  <2>3. CASE Project
    <3>1. refresher.seen \in OpenLabel \cup TerminalLabel /\ "stale" \in TerminalLabel
      BY Zenon, Types DEF Refreshers, Action, OpenLabel, TerminalLabel
    <3> QED
      BY Zenon, <2>3, <3>1, Types, Idle DEF Project, Report, Refreshed, Refreshers
  <2>4. CASE UpdateDone
    BY Zenon, <2>4, Idle DEF UpdateDone
  <2>5. CASE UpdateFails
    BY Zenon, <2>5, Idle DEF UpdateFails
  <2> QED
    BY Zenon, <1>4, <2>1, <2>2, <2>3, <2>4, <2>5
<1>5. ASSUME Tick \/ StateMoves \/ RevokeGrant \/ Crash
      PROVE  refresher' \in Refreshers
  <2>1. CASE Tick \/ StateMoves \/ RevokeGrant
    <3>1. UNCHANGED refresher
      BY Zenon, <2>1 DEF Tick, StateMoves, RevokeGrant, worldVars, slackVars, procVars
    <3> QED
      BY Zenon, <3>1, Types
  <2>2. CASE Crash
    BY Zenon, <2>2, Idle DEF Crash
  <2> QED
    BY Zenon, <1>5, <2>1, <2>2
<1> QED
  BY Zenon, <1>1, <1>2, <1>3, <1>4, <1>5 DEF AckNext

(* The clock, the revision, the grant and the count of crashes keep their  *)
(* types.                                                                  *)
LEMMA WorldTypeStep ==
  ASSUME AckTypeOK, AckNext
  PROVE  WorldType'
<1>1. ASSUME NEW h \in Handler, Handle(h)
      PROVE  WorldType'
  BY Zenon, <1>1, HandleTouches, Types DEF WorldType, worldVars
<1>2. ASSUME NEW k \in Key, RunStep(k)
      PROVE  WorldType'
  BY Zenon, <1>2, RunTouches, Types DEF WorldType, worldVars
<1>3. ASSUME Decide \/ \E a \in Action : Press(a) \/ Receive(a)
      PROVE  WorldType'
  BY Zenon, <1>3, DeciderTouches, Types DEF WorldType, worldVars
<1>4. ASSUME ReadRun \/ Project \/ UpdateDone \/ UpdateFails \/ \E c \in Card : Refresh(c)
      PROVE  WorldType'
  BY Zenon, <1>4, RefresherTouches, Types DEF WorldType, worldVars
<1>5. ASSUME Tick \/ StateMoves \/ RevokeGrant \/ Crash
      PROVE  WorldType'
  <2>1. CASE Tick
    BY <2>1, Types, AckConstants DEF Tick, WorldType, Instant
  <2>2. CASE StateMoves
    BY Zenon, <2>2, Types DEF StateMoves, WorldType
  <2>3. CASE RevokeGrant
    BY Zenon, <2>3, Types DEF RevokeGrant, WorldType
  <2>4. CASE Crash
    BY <2>4, Types, AckConstants DEF Crash, WorldType, worldVars
  <2> QED
    BY Zenon, <1>5, <2>1, <2>2, <2>3, <2>4
<1> QED
  BY Zenon, <1>1, <1>2, <1>3, <1>4, <1>5 DEF AckNext

(* Every step keeps the types.                                             *)
LEMMA TypeStep ==
  ASSUME AckTypeOK, RowInv, AckNext
  PROVE  AckTypeOK'
<1>1. /\ WorldType' /\ RowTyped(ack)' /\ run' \in [Key -> Runs] /\ SlackType'
      /\ handler' \in [Handler -> Handlers]
      /\ decider' \in Deciders /\ refresher' \in Refreshers
  BY Zenon, WorldTypeStep, RowMoves, RowTypeStep, RunTypeStep, SlackTypeStep, HandlerTypeStep,
     DeciderTypeStep, RefresherTypeStep
<1> QED
  BY Zenon, <1>1 DEF AckTypeOK, WorldType, RowTyped, SlackType, Rows, Runs, Labels, Places,
     Handlers, Deciders, Refreshers

(* The runs change in one of these ways.                                   *)
LEMMA RunMoves ==
  ASSUME AckIInv, AckNext
  PROVE  RunCreated \/ RunsGoOn
<1>1. ASSUME NEW h \in Handler, Handle(h)
      PROVE  RunCreated \/ RunsGoOn
  <2>1. CASE Request(h) \/ CreateRequest(h) \/ Publish(h) \/ Status(h)
             \/ (\E k \in Key : Submit(h, k)) \/ VerifyRunClaim(h) \/ VerifyHuman(h)
    <3>1. UNCHANGED run
      BY Zenon, <2>1 DEF Request, At, Goto, CreateRequest, Return, Publish, Status, Submit,
         VerifyRunClaim, VerifyHuman, PassOr, worldVars, slackVars, procVars
    <3> QED
      BY Zenon, <3>1 DEF RunsGoOn
  <2>2. CASE VerifyFresh(h) \/ VerifyCurrent(h) \/ Consume(h) \/ Abandon(h)
    <3>1. UNCHANGED run
      BY Zenon, <2>2 DEF VerifyFresh, At, Return, VerifyCurrent, PassOr, Goto, Consume, Abandon,
         worldVars, slackVars, procVars
    <3> QED
      BY Zenon, <3>1 DEF RunsGoOn
  <2>3. CASE CreateRun(h)
    <3>1. CASE UNCHANGED run
      BY Zenon, <3>1 DEF RunsGoOn
    <3>2. CASE ~UNCHANGED run
      BY Zenon, <2>3, <3>2 DEF CreateRun, At, Goto, Return, RunCreated, worldVars
    <3> QED
      BY Zenon, <3>1, <3>2
  <2>4. CASE StartRun(h)
    <3>1. handler[h].key \in Key /\ ack.consumedAt # Never
      BY Zenon, <2>4 DEF StartRun, At, Return, AckIInv, HandlerInv, HandlerOK, Claimed
    <3>2. /\ \A j \in Key \ {handler[h].key} : run'[j] = run[j]
          /\ run'[handler[h].key].createdAt = run[handler[h].key].createdAt
          /\ run'[handler[h].key].status = IF run[handler[h].key].status = "queued" THEN "running"
                                           ELSE run[handler[h].key].status
      BY Zenon, <2>4, <3>1, Types DEF StartRun, AckIInv, Runs
    <3> QED
      BY Zenon, <3>1, <3>2 DEF RunsGoOn, Ended
  <2> QED
    BY Zenon, <1>1, <2>1, <2>2, <2>3, <2>4 DEF Handle
<1>2. ASSUME NEW k \in Key, RunStep(k)
      PROVE  RunCreated \/ RunsGoOn
  <2>1. CASE CancelRun(k)
    <3>1. /\ \A j \in Key \ {k} : run'[j] = run[j]
          /\ run'[k].createdAt = run[k].createdAt /\ run'[k].status = "cancelled"
      BY Zenon, <2>1, Types DEF CancelRun, RunBecomes, AckIInv, Runs
    <3> QED
      BY Zenon, <2>1, <3>1 DEF CancelRun, RunBecomes, AckIInv, RunInv, RunsGoOn, Ended
  <2>2. CASE InterruptRun(k)
    <3>1. /\ \A j \in Key \ {k} : run'[j] = run[j]
          /\ run'[k].createdAt = run[k].createdAt /\ run'[k].status = "interrupted"
      BY Zenon, <2>2, Types DEF InterruptRun, RunBecomes, AckIInv, Runs
    <3> QED
      BY Zenon, <2>2, <3>1 DEF InterruptRun, RunBecomes, AckIInv, RunInv, RunsGoOn, Ended
  <2>3. CASE EndRun(k)
    <3>1. /\ \A j \in Key \ {k} : run'[j] = run[j]
          /\ run'[k].createdAt = run[k].createdAt /\ run'[k].status = "ended"
      BY Zenon, <2>3, Types DEF EndRun, RunBecomes, AckIInv, Runs
    <3> QED
      BY Zenon, <2>3, <3>1 DEF EndRun, RunBecomes, AckIInv, RunInv, RunsGoOn, Ended
  <2>4. CASE ResumeRun(k)
    <3>1. /\ \A j \in Key \ {k} : run'[j] = run[j]
          /\ run'[k].createdAt = run[k].createdAt /\ run'[k].status = "running"
      BY Zenon, <2>4, Types DEF ResumeRun, RunBecomes, AckIInv, Runs
    <3> QED
      BY Zenon, <2>4, <3>1 DEF ResumeRun, RunBecomes, AckIInv, RunInv, RunsGoOn, Ended
  <2> QED
    BY Zenon, <1>2, <2>1, <2>2, <2>3, <2>4 DEF RunStep
<1>3. ASSUME Decide \/ \E a \in Action : Press(a) \/ Receive(a)
      PROVE  RunCreated \/ RunsGoOn
  BY Zenon, <1>3, DeciderTouches DEF RunsGoOn
<1>4. ASSUME ReadRun \/ Project \/ UpdateDone \/ UpdateFails \/ \E c \in Card : Refresh(c)
      PROVE  RunCreated \/ RunsGoOn
  BY Zenon, <1>4, RefresherTouches DEF RunsGoOn
<1>5. ASSUME Tick \/ StateMoves \/ RevokeGrant \/ Crash
      PROVE  RunCreated \/ RunsGoOn
  <2>1. CASE Tick \/ StateMoves \/ RevokeGrant
    <3>1. UNCHANGED run
      BY Zenon, <2>1 DEF Tick, StateMoves, RevokeGrant, worldVars, slackVars, procVars
    <3> QED
      BY Zenon, <3>1 DEF RunsGoOn
  <2>2. CASE Crash
    <3>1. PICK end \in {"interrupted", "ended"} :
             run' = [k \in Key |-> [run[k] EXCEPT !.status = IF @ = "running" THEN end ELSE @]]
      BY Zenon, <2>2 DEF Crash
    <3>2. ASSUME NEW k \in Key
          PROVE  /\ run'[k].createdAt = run[k].createdAt
                 /\ run'[k].status = IF run[k].status = "running" THEN end ELSE run[k].status
      BY Zenon, <3>1, Types DEF AckIInv, Runs
    <3> QED
      BY Zenon, <3>2 DEF AckIInv, RunInv, RunsGoOn, Ended
  <2> QED
    BY Zenon, <1>5, <2>1, <2>2
<1> QED
  BY Zenon, <1>1, <1>2, <1>3, <1>4, <1>5 DEF AckNext

(* Time does not go back.                                                  *)
LEMMA ClockStep ==
  ASSUME AckTypeOK, AckNext
  PROVE  now <= now' /\ now \in Nat /\ now' \in Nat
<1>1. now \in Nat
  BY Zenon, Types, Instants DEF WorldType
<1>2. UNCHANGED now \/ now' = now + 1
  <2>1. CASE Tick \/ StateMoves \/ RevokeGrant \/ Crash
    BY Zenon, <2>1 DEF Tick, StateMoves, RevokeGrant, Crash, worldVars
  <2> QED
    BY Zenon, <2>1, HandleTouches, RunTouches, DeciderTouches, RefresherTouches DEF AckNext,
       worldVars
<1> QED
  BY <1>1, <1>2

(* A change of the row takes nothing back.                                 *)
LEMMA RowStable ==
  ASSUME AckTypeOK, RowMove
  PROVE  /\ ack.status # "none" => ack'.status # "none"
         /\ ack.status \notin {"none", "pending"} =>
               ack'.status = ack.status /\ ack'.decidedAt = ack.decidedAt
         /\ ack.consumedAt # Never => ack'.consumedAt = ack.consumedAt
<1>1. RowTyped(ack) /\ decider \in Deciders
  BY Zenon, Types
<1>2. CASE ack.status = "pending" /\ ack' = Decided(decider.action, decider.at)
  BY Zenon, <1>1, <1>2 DEF RowTyped, Rows, Decided, Deciders, Action
<1>3. CASE ack.status = "pending" /\ ack' = Decided("expired", now)
  BY Zenon, <1>1, <1>3 DEF RowTyped, Rows, Decided
<1>4. CASE ack.status = "none" /\ ack' = [ack EXCEPT !.status = "pending"]
  BY Zenon, <1>1, <1>4 DEF RowTyped, Rows
<1>5. CASE ConsumeAllowed /\ \E h \in Handler : ack' = [ack EXCEPT !.consumedAt = handler[h].at]
  BY Zenon, <1>1, <1>5 DEF RowTyped, Rows, ConsumeAllowed
<1> QED
  BY Zenon, <1>2, <1>3, <1>4, <1>5 DEF RowMove

(* No step takes back what a goroutine may rely on.                        *)
LEMMA Stable ==
  ASSUME AckIInv, AckNext
  PROVE  StableStep
<1>1. RunCreated \/ RunsGoOn
  BY Zenon, RunMoves
<1>2. \A k \in Key : run[k].status # "none" =>
          run'[k].status # "none" /\ run'[k].createdAt = run[k].createdAt
  BY Zenon, <1>1, Types DEF RunCreated, RunsGoOn, ProofUnclaimed, AckIInv
<1>3. \A k \in Key : run[k].status \in Ended => run'[k].status = run[k].status
  BY Zenon, <1>1, Types DEF RunCreated, RunsGoOn, ProofUnclaimed, AckIInv, Ended
<1> QED
  BY Zenon, <1>2, <1>3, RowMoves, RowStable, ClockStep DEF StableStep, AckIInv

(* A grant is revoked only together with a move of the state.              *)
LEMMA WorldStep ==
  ASSUME AckIInv, AckNext
  PROVE  WorldInv'
<1>1. ASSUME NEW h \in Handler, Handle(h)
      PROVE  WorldInv'
  BY Zenon, <1>1, HandleTouches DEF AckIInv, WorldInv, worldVars
<1>2. ASSUME NEW k \in Key, RunStep(k)
      PROVE  WorldInv'
  BY Zenon, <1>2, RunTouches DEF AckIInv, WorldInv, worldVars
<1>3. ASSUME Decide \/ \E a \in Action : Press(a) \/ Receive(a)
      PROVE  WorldInv'
  BY Zenon, <1>3, DeciderTouches DEF AckIInv, WorldInv, worldVars
<1>4. ASSUME ReadRun \/ Project \/ UpdateDone \/ UpdateFails \/ \E c \in Card : Refresh(c)
      PROVE  WorldInv'
  BY Zenon, <1>4, RefresherTouches DEF AckIInv, WorldInv, worldVars
<1>5. ASSUME Tick \/ StateMoves \/ RevokeGrant \/ Crash
      PROVE  WorldInv'
  <2>1. CASE Tick
    BY Zenon, <2>1 DEF Tick, AckIInv, WorldInv
  <2>2. CASE StateMoves
    BY Zenon, <2>2 DEF StateMoves, AckIInv, WorldInv
  <2>3. CASE RevokeGrant
    BY Zenon, <2>3 DEF RevokeGrant, AckIInv, WorldInv
  <2>4. CASE Crash
    BY Zenon, <2>4 DEF Crash, AckIInv, WorldInv, worldVars
  <2> QED
    BY Zenon, <1>5, <2>1, <2>2, <2>3, <2>4
<1> QED
  BY Zenon, <1>1, <1>2, <1>3, <1>4, <1>5 DEF AckNext

(* A decision is dated by then, whoever takes it.                          *)
LEMMA DatedStep ==
  ASSUME AckIInv, AckNext
  PROVE  ack'.decidedAt <= now'
<1>1. RowTyped(ack) /\ decider \in Deciders /\ decider.at <= now /\ ack.decidedAt <= now
  BY Zenon, Types DEF AckIInv, RowInv
<1>2. now <= now' /\ now \in Nat /\ now' \in Nat
  BY Zenon, ClockStep DEF AckIInv
<1>3. ack.decidedAt \in Int /\ decider.at \in Int
  BY <1>1, Instants DEF RowTyped, Rows, Deciders, Never
<1>4. ack'.decidedAt \in {ack.decidedAt, now, decider.at}
  BY Zenon, <1>1, RowMoves DEF RowMove, RowTyped, Rows, Decided
<1> QED
  BY <1>1, <1>2, <1>3, <1>4

(* Before the request nothing is posted.                                   *)
LEMMA UnpostedStep ==
  ASSUME AckIInv, AckNext, Unposted, ack'.status = "none"
  PROVE  Unposted'
<1>1. ASSUME NEW h \in Handler, Handle(h)
      PROVE  Unposted'
  <2>1. CASE Request(h)
    BY Zenon, <2>1, Types DEF Request, At, Goto, AckIInv, Unposted, IdleHandler, Handlers,
       slackVars
  <2>2. CASE CreateRequest(h)
    <3>1. Return(h)
      BY Zenon, <2>2, Types DEF CreateRequest, AckIInv, RowTyped, Rows
    <3> QED
      BY Zenon, <2>2, <3>1, Types DEF CreateRequest, Return, AckIInv, Unposted, IdleHandler,
         slackVars
  <2>3. CASE Publish(h)
    BY Zenon, <2>3, Types DEF Publish, At, Goto, Return, AckIInv, Unposted, IdleHandler,
       Handlers, slackVars
  <2>4. CASE Status(h)
    BY Zenon, <2>4, Types DEF Status, At, Return, AckIInv, Unposted, IdleHandler, Handlers,
       slackVars
  <2>5. CASE \E k \in Key : Submit(h, k)
    BY Zenon, <2>5, Types DEF Submit, At, AckIInv, Unposted, IdleHandler, Handlers, slackVars
  <2>6. CASE CreateRun(h)
    BY <2>6, Types DEF CreateRun, At, Goto, Return, AckIInv, Unposted, IdleHandler, Handlers,
       slackVars
  <2>7. CASE VerifyRunClaim(h)
    BY <2>7, Types DEF VerifyRunClaim, At, Return, AckIInv, Unposted, IdleHandler, Handlers,
       slackVars
  <2>8. CASE VerifyHuman(h)
    BY <2>8, Types DEF VerifyHuman, PassOr, At, Goto, Return, AckIInv, Unposted, IdleHandler,
       Handlers, slackVars
  <2>9. CASE VerifyFresh(h)
    BY <2>9, Types DEF VerifyFresh, At, Return, AckIInv, Unposted, IdleHandler, Handlers,
       slackVars
  <2>10. CASE VerifyCurrent(h)
    BY <2>10, Types DEF VerifyCurrent, PassOr, At, Goto, Return, AckIInv, Unposted, IdleHandler,
       Handlers, slackVars
  <2>11. CASE Consume(h)
    BY <2>11, Types DEF Consume, At, Goto, Return, AckIInv, Unposted, IdleHandler, Handlers,
       slackVars
  <2>12. CASE StartRun(h)
    BY Zenon, <2>12, Types DEF StartRun, At, Return, AckIInv, Unposted, IdleHandler, Handlers,
       slackVars
  <2>13. CASE Abandon(h)
    BY Zenon, <2>13, Types DEF Abandon, Return, AckIInv, Unposted, IdleHandler, Handlers,
       slackVars
  <2> QED
    BY Zenon, <1>1, <2>1, <2>2, <2>3, <2>4, <2>5, <2>6, <2>7, <2>8, <2>9, <2>10, <2>11, <2>12,
       <2>13 DEF Handle
<1>2. ASSUME NEW k \in Key, RunStep(k)
      PROVE  Unposted'
  BY Zenon, <1>2, RunTouches DEF Unposted
<1>3. ASSUME Decide \/ \E a \in Action : Press(a) \/ Receive(a)
      PROVE  Unposted'
  BY Zenon, <1>3, DeciderTouches DEF Unposted
<1>4. ASSUME ReadRun \/ Project \/ UpdateDone \/ UpdateFails \/ \E c \in Card : Refresh(c)
      PROVE  Unposted'
  <2>1. CASE \E c \in Card : Refresh(c)
    BY Zenon, <2>1 DEF Refresh, Unposted, OpenLabel, Active
  <2>2. CASE ReadRun
    BY Zenon, <2>2 DEF ReadRun, Report, Refreshed, Unposted, OpenLabel, Active
  <2>3. CASE Project
    BY Zenon, <2>3 DEF Project, Report, Refreshed, Unposted, OpenLabel, Active
  <2>4. CASE UpdateDone
    BY Zenon, <2>4 DEF UpdateDone, Unposted, OpenLabel, Active
  <2>5. CASE UpdateFails
    BY Zenon, <2>5 DEF UpdateFails, Unposted, OpenLabel, Active
  <2> QED
    BY Zenon, <1>4, <2>1, <2>2, <2>3, <2>4, <2>5
<1>5. ASSUME Tick \/ StateMoves \/ RevokeGrant \/ Crash
      PROVE  Unposted'
  <2>1. CASE Tick \/ StateMoves \/ RevokeGrant
    <3>1. UNCHANGED <<card, handler, refresher>>
      BY Zenon, <2>1 DEF Tick, StateMoves, RevokeGrant, worldVars, slackVars, procVars
    <3> QED
      BY Zenon, <3>1 DEF Unposted
  <2>2. CASE Crash
    BY Zenon, <2>2 DEF Crash, Unposted, IdleHandler, IdleRefresher, slackVars
  <2> QED
    BY Zenon, <1>5, <2>1, <2>2
<1> QED
  BY Zenon, <1>1, <1>2, <1>3, <1>4, <1>5 DEF AckNext

(* An answer that was given stays true.                                    *)
LEMMA AnsweredKept ==
  ASSUME AckIInv, AckNext, UNCHANGED answered
  PROVE  answered' \subseteq {ack'.status}
  BY Zenon, Types, Stable DEF AckIInv, RowInv, SlackType, Action, StableStep

(* What was answered stays decided.                                        *)
LEMMA AnsweredStep ==
  ASSUME AckIInv, AckNext
  PROVE  answered' \subseteq {ack'.status}
<1>1. ASSUME NEW h \in Handler, Handle(h)
      PROVE  answered' \subseteq {ack'.status}
  BY Zenon, <1>1, HandleTouches, AnsweredKept
<1>2. ASSUME NEW k \in Key, RunStep(k)
      PROVE  answered' \subseteq {ack'.status}
  BY Zenon, <1>2, RunTouches, AnsweredKept
<1>3. ASSUME Decide \/ \E a \in Action : Press(a) \/ Receive(a)
      PROVE  answered' \subseteq {ack'.status}
  <2>1. CASE (\E a \in Action : Press(a)) \/ (\E a \in Action : Receive(a)) \/ DecideLate
             \/ DecideRead \/ DecideCheck
    <3>1. UNCHANGED answered
      BY Zenon, <2>1 DEF Press, Receive, DecideLate, EnvelopeDone, EnvelopeRetried, DecideRead,
         DecideCheck, worldVars, slackVars, procVars
    <3> QED
      BY Zenon, <3>1, AnsweredKept
  <2>2. CASE DecideAgain
    BY Zenon, <2>2 DEF DecideAgain, EnvelopeDone, AckIInv, RowInv
  <2>3. CASE DecideWrite
    BY Zenon, <2>3, Types, Instants DEF DecideWrite, EnvelopeDone, EnvelopeRetried, AckIInv,
       RowInv, DecideAllowed, Decided, RowTyped, Rows, SlackType, Deciders, Action
  <2> QED
    BY Zenon, <1>3, <2>1, <2>2, <2>3 DEF Decide
<1>4. ASSUME ReadRun \/ Project \/ UpdateDone \/ UpdateFails \/ \E c \in Card : Refresh(c)
      PROVE  answered' \subseteq {ack'.status}
  BY Zenon, <1>4, RefresherTouches, AnsweredKept
<1>5. ASSUME Tick \/ StateMoves \/ RevokeGrant \/ Crash
      PROVE  answered' \subseteq {ack'.status}
  <2>1. CASE Tick \/ StateMoves \/ RevokeGrant \/ Crash
    <3>1. UNCHANGED answered
      BY Zenon, <2>1 DEF Tick, StateMoves, RevokeGrant, Crash, worldVars, slackVars, procVars
    <3> QED
      BY Zenon, <3>1, AnsweredKept
  <2> QED
    BY Zenon, <1>5, <2>1
<1> QED
  BY Zenon, <1>1, <1>2, <1>3, <1>4, <1>5 DEF AckNext

(* The invariant of the row.                                               *)
LEMMA RowStep ==
  ASSUME AckIInv, AckNext
  PROVE  RowInv'
<1>1. ack'.status = "none" => Unposted'
  BY Zenon, Stable, UnpostedStep DEF StableStep, AckIInv, RowInv
<1> QED
  BY Zenon, <1>1, DatedStep, AnsweredStep DEF RowInv

(* The invariant of the runs.                                              *)
LEMMA RunsStep ==
  ASSUME AckIInv, AckNext
  PROVE  RunInv'
<1>1. /\ RunInv /\ StableStep /\ RowTyped(ack) /\ run \in [Key -> Runs]
      /\ now <= now' /\ now \in Nat /\ now' \in Nat
  BY Zenon, Types, Stable, ClockStep DEF AckIInv
<1>2. CASE RunCreated
  <2>1. PICK h \in Handler :
          /\ handler[h].pc = "create"
          /\ run' = [run EXCEPT ![handler[h].key] =
                        [status |-> "queued", createdAt |-> handler[h].at]]
    BY Zenon, <1>2 DEF RunCreated
  <2>2. /\ handler[h].key \in Key /\ ack.status = "approved"
        /\ ack.decidedAt <= handler[h].at /\ handler[h].at <= now
    BY Zenon, <2>1 DEF AckIInv, HandlerInv, HandlerOK
  <2>3. handler[h].at \in Instant
    BY Zenon, Types DEF AckIInv, Handlers
  <2>4. /\ ack.consumedAt = Never /\ ack' = ack /\ now' = now
        /\ \A k \in Key : run[k].status = "none"
    BY Zenon, <1>1, <1>2 DEF RunCreated, ProofUnclaimed, RunInv
  <2>5. /\ run'[handler[h].key] = [status |-> "queued", createdAt |-> handler[h].at]
        /\ \A k \in Key \ {handler[h].key} : run'[k].status = "none"
    BY Zenon, <1>1, <2>1, <2>2, <2>4
  <2> QED
    BY <2>2, <2>3, <2>4, <2>5 DEF RunInv
<1>3. CASE RunsGoOn
  <2>1. \A k \in Key : run'[k].status # "none" => run[k].status # "none"
    BY Zenon, <1>3 DEF RunsGoOn
  <2>2. \A k \in Key : run'[k].status # "none" =>
          /\ ack'.status = "approved"
          /\ run'[k].createdAt \in Instant
          /\ ack'.decidedAt <= run'[k].createdAt /\ run'[k].createdAt <= now'
    <3> SUFFICES ASSUME NEW k \in Key, run'[k].status # "none"
                 PROVE  /\ ack'.status = "approved"
                        /\ run'[k].createdAt \in Instant
                        /\ ack'.decidedAt <= run'[k].createdAt /\ run'[k].createdAt <= now'
      OBVIOUS
    <3>1. /\ ack.status = "approved" /\ run[k].createdAt \in Instant
          /\ ack.decidedAt <= run[k].createdAt /\ run[k].createdAt <= now
      BY Zenon, <1>1, <2>1 DEF RunInv
    <3>2. /\ ack'.status = ack.status /\ ack'.decidedAt = ack.decidedAt
          /\ run'[k].createdAt = run[k].createdAt
      BY Zenon, <1>1, <1>3, <3>1 DEF StableStep, RunsGoOn
    <3> QED
      BY <1>1, <3>1, <3>2, Instants
  <2>3. \A k \in Key : run'[k].status \in {"running", "interrupted", "ended"} =>
          ack'.consumedAt # Never
    BY Zenon, <1>1, <1>3 DEF RunInv, RunsGoOn, StableStep
  <2>4. ASSUME ack'.consumedAt # Never
        PROVE  /\ ack'.consumedAt < Expiry
               /\ \E k \in Key : run'[k].status # "none" /\ run'[k].createdAt <= ack'.consumedAt
    <3>1. CASE ack.consumedAt # Never
      BY Zenon, <1>1, <1>3, <3>1 DEF RunInv, RunsGoOn, StableStep
    <3>2. CASE ack.consumedAt = Never
      <4>1. PICK h \in Handler : handler[h].pc = "consume" /\ ack'.consumedAt = handler[h].at
        BY Zenon, <1>1, <2>4, <3>2, RowMoves DEF RowMove, RowTyped, Rows, Decided
      <4>2. /\ handler[h].key \in Key /\ run[handler[h].key].status # "none"
            /\ run[handler[h].key].createdAt <= handler[h].at /\ handler[h].at < Expiry
        BY Zenon, <4>1 DEF AckIInv, HandlerInv, HandlerOK, Claimed
      <4> QED
        BY Zenon, <1>1, <4>1, <4>2 DEF StableStep
    <3> QED
      BY Zenon, <3>1, <3>2
  <2>5. \A j, k \in Key : run'[j].status # "none" /\ run'[k].status # "none" => j = k
    BY Zenon, <1>1, <2>1 DEF RunInv
  <2> QED
    BY Zenon, <2>2, <2>3, <2>4, <2>5 DEF RunInv
<1> QED
  BY Zenon, <1>2, <1>3, RunMoves

(* A handler's findings survive the steps of others, and an idle one has   *)
(* none.                                                                   *)
LEMMA HandlerKept ==
  ASSUME AckIInv, AckNext, NEW h \in Handler, handler'[h] \in {handler[h], IdleHandler}
  PROVE  HandlerOK(h)'
<1>1. /\ StableStep /\ HandlerOK(h) /\ handler[h] \in Handlers
      /\ now <= now' /\ now \in Nat /\ now' \in Nat
  BY Zenon, Types, Stable, ClockStep DEF AckIInv, HandlerInv
<1>2. handler[h].at \in Nat
  BY Zenon, <1>1, Instants DEF Handlers
<1>3. CASE handler'[h] = IdleHandler
  BY <1>1, <1>3 DEF HandlerOK, IdleHandler, Claimed
<1>4. CASE handler'[h] = handler[h]
  BY <1>1, <1>2, <1>4 DEF HandlerOK, StableStep, Claimed
<1> QED
  BY Zenon, <1>3, <1>4

(* A handler changes nothing of another's.                                 *)
LEMMA HandleApart ==
  ASSUME AckIInv, NEW h \in Handler, Handle(h)
  PROVE  \A g \in Handler \ {h} : handler'[g] = handler[g]
<1>1. handler \in [Handler -> Handlers]
  BY Zenon, Types DEF AckIInv
<1>2. (\E r : handler' = [handler EXCEPT ![h] = r]) =>
        \A g \in Handler \ {h} : handler'[g] = handler[g]
  BY Zenon, <1>1
<1>3. Request(h) \/ CreateRequest(h) \/ Publish(h) \/ Status(h) \/ (\E k \in Key : Submit(h, k))
        \/ CreateRun(h)
        \/ VerifyRunClaim(h) => \A g \in Handler \ {h} : handler'[g] = handler[g]
  BY Zenon, <1>1 DEF Request, CreateRequest, Publish, Status, Submit, CreateRun, VerifyRunClaim,
     Goto, Return
<1>4. VerifyHuman(h) \/ VerifyFresh(h) \/ VerifyCurrent(h) \/ Consume(h) \/ StartRun(h)
      \/ Abandon(h)
        => \A g \in Handler \ {h} : handler'[g] = handler[g]
  BY Zenon, <1>1 DEF VerifyHuman, VerifyFresh, VerifyCurrent, PassOr, Consume, StartRun,
     Abandon, Goto, Return
<1> QED
  BY Zenon, <1>3, <1>4 DEF Handle

(* A handler that goes on knows what it knew, and what its next place      *)
(* needs.                                                                  *)
LEMMA HandlerGoes ==
  ASSUME AckIInv, AckNext, NEW h \in Handler, NEW p \in Places, Goto(h, p) \/ Return(h),
         p = "start" => ack'.consumedAt # Never,
         p \in Claimed => handler[h].key \in Key /\ run'[handler[h].key].status # "none",
         p = "consume" => handler[h].pc = "current" /\ now < Expiry,
         p \notin {"create", "current"}
  PROVE  HandlerOK(h)'
<1>1. /\ StableStep /\ HandlerOK(h) /\ handler \in [Handler -> Handlers]
      /\ now <= now' /\ now \in Nat /\ now' \in Nat
  BY Zenon, Types, Stable, ClockStep DEF AckIInv, HandlerInv
<1>2. handler[h].at \in Nat
  BY Zenon, <1>1, Instants DEF Handlers
<1>3. CASE Return(h)
  BY Zenon, <1>1, <1>3, HandlerKept DEF Return
<1>4. CASE Goto(h, p)
  <2>1. /\ handler'[h].pc = p /\ handler'[h].at = handler[h].at
        /\ handler'[h].key = handler[h].key /\ handler'[h].used = handler[h].used
    BY Zenon, <1>1, <1>4 DEF Goto, Handlers
  <2>2. p = "consume" => /\ run'[handler[h].key].createdAt <= handler[h].at
                         /\ handler[h].at < Expiry
    BY <1>1, <1>2, AckConstants DEF HandlerOK, StableStep, Claimed
  <2> QED
    BY <1>1, <1>2, <2>1, <2>2 DEF HandlerOK, StableStep
<1> QED
  BY Zenon, <1>3, <1>4

(* Each step of a handler leaves it with what its next place needs.        *)
LEMMA HandlerOwn ==
  ASSUME AckIInv, AckNext, NEW h \in Handler, Handle(h)
  PROVE  HandlerOK(h)'
<1>1. /\ StableStep /\ HandlerOK(h) /\ handler \in [Handler -> Handlers]
      /\ now <= now' /\ now \in Nat /\ now' \in Nat /\ now' = now
  BY Zenon, Types, Stable, ClockStep, HandleTouches DEF AckIInv, HandlerInv, worldVars
<1>2. CASE Request(h) \/ CreateRequest(h) \/ Publish(h) \/ Status(h) \/ Abandon(h)
  <2>1. \E p \in {"request", "publish", "status"} : Goto(h, p) \/ Return(h)
    BY Zenon, <1>2 DEF Request, CreateRequest, Publish, Status, Abandon
  <2> QED
    BY Zenon, <2>1, HandlerGoes DEF Places, Claimed
<1>3. CASE \E k \in Key : Submit(h, k)
  <2>1. PICK k \in Key : Submit(h, k)
    BY Zenon, <1>3
  <2>2. /\ handler'[h] = [pc |-> "create", key |-> k, at |-> now, used |-> FALSE]
        /\ ack' = ack /\ ack.status = "approved"
    BY Zenon, <1>1, <2>1 DEF Submit
  <2> QED
    BY <1>1, <2>2 DEF HandlerOK, Claimed, AckIInv, RowInv
<1>4. CASE CreateRun(h)
  <2>1. handler[h].key \in Key /\ handler[h].pc = "create"
    BY Zenon, <1>1, <1>4 DEF HandlerOK, CreateRun, At
  <2>2. Return(h) \/ (Goto(h, "claim") /\ run'[handler[h].key].status # "none")
    BY <1>4, <2>1, Types DEF CreateRun, AckIInv
  <2>3. CASE Return(h)
    BY Zenon, <1>1, <2>3, HandlerKept DEF Return
  <2>4. CASE Goto(h, "claim") /\ run'[handler[h].key].status # "none"
    BY Zenon, <2>1, <2>4, HandlerGoes DEF Places
  <2> QED
    BY Zenon, <2>2, <2>3, <2>4
<1>5. CASE VerifyRunClaim(h)
  <2>1. CASE Return(h)
    BY Zenon, <1>1, <2>1, HandlerKept DEF Return
  <2>2. CASE ~Return(h)
    <3>1. /\ handler'[h].pc = "human" /\ handler'[h].used = (ack.consumedAt # Never)
          /\ handler'[h].at = handler[h].at /\ handler'[h].key = handler[h].key
      BY <1>1, <1>5, <2>2 DEF VerifyRunClaim, Handlers
    <3>2. handler[h].pc = "claim" /\ ack' = ack /\ run' = run
      BY Zenon, <1>5 DEF VerifyRunClaim, At
    <3> QED
      BY Zenon, <1>1, <3>1, <3>2 DEF HandlerOK, Claimed
  <2> QED
    BY Zenon, <2>1, <2>2
<1>6. CASE VerifyHuman(h)
  <2>1. handler[h].pc = "human" /\ (Goto(h, "fresh") \/ Return(h)) /\ run' = run
    BY Zenon, <1>6 DEF VerifyHuman, PassOr, At
  <2> QED
    BY Zenon, <1>1, <2>1, HandlerGoes DEF HandlerOK, Places, Claimed
<1>7. CASE VerifyFresh(h)
  <2>1. CASE Return(h)
    BY Zenon, <1>1, <2>1, HandlerKept DEF Return
  <2>2. CASE ~Return(h)
    <3>1. /\ handler'[h].pc = "current" /\ handler'[h].used = handler[h].used
          /\ handler'[h].at = now /\ handler'[h].key = handler[h].key
      BY ZenonT(30), <1>1, <1>7, <2>2 DEF VerifyFresh, Handlers
    <3>2. handler[h].pc = "fresh" /\ ack' = ack /\ run' = run
      BY Zenon, <1>7 DEF VerifyFresh, At
    <3>3. run[handler[h].key].createdAt <= now
      BY Zenon, <1>1, <3>2 DEF HandlerOK, Claimed, AckIInv, RunInv
    <3> QED
      BY Zenon, <1>1, <3>1, <3>2, <3>3 DEF HandlerOK, Claimed
  <2> QED
    BY Zenon, <2>1, <2>2
<1>8. CASE VerifyCurrent(h)
  <2>1. /\ handler[h].pc = "current" /\ run' = run /\ ack' = ack
        /\ \/ Return(h)
           \/ Goto(h, "start") /\ handler[h].used
           \/ Goto(h, "consume") /\ now < Expiry
    BY Zenon, <1>8 DEF VerifyCurrent, PassOr, At, ValidateCurrent
  <2>2. handler[h].key \in Key /\ run'[handler[h].key].status # "none"
    BY Zenon, <1>1, <2>1 DEF HandlerOK, Claimed
  <2>3. handler[h].used => ack'.consumedAt # Never
    BY Zenon, <1>1, <2>1 DEF HandlerOK
  <2> QED
    BY Zenon, <2>1, <2>2, <2>3, HandlerGoes DEF Places
<1>9. CASE Consume(h)
  <2>1. /\ handler[h].pc = "consume" /\ run' = run
        /\ \/ Return(h)
           \/ Goto(h, "start") /\ ack' = [ack EXCEPT !.consumedAt = handler[h].at]
    BY Zenon, <1>9 DEF Consume, At
  <2>2. handler[h].key \in Key /\ run'[handler[h].key].status # "none"
    BY Zenon, <1>1, <2>1 DEF HandlerOK, Claimed
  <2>3. ack' = [ack EXCEPT !.consumedAt = handler[h].at] => ack'.consumedAt # Never
    BY <1>1, Types, Instants DEF AckIInv, RowTyped, Rows, Handlers
  <2> QED
    BY Zenon, <2>1, <2>2, <2>3, HandlerGoes, HandlerKept DEF Places, Return
<1>10. CASE StartRun(h)
  BY Zenon, <1>1, <1>10, HandlerKept DEF StartRun, Return
<1> QED
  BY Zenon, <1>2, <1>3, <1>4, <1>5, <1>6, <1>7, <1>8, <1>9, <1>10 DEF Handle

(* The invariant of the handlers.                                          *)
LEMMA HandlerStep ==
  ASSUME AckIInv, AckNext
  PROVE  HandlerInv'
<1>1. ASSUME NEW h \in Handler, Handle(h)
      PROVE  HandlerInv'
  BY Zenon, <1>1, HandleApart, HandlerOwn, HandlerKept DEF HandlerInv
<1>2. CASE Crash
  BY Zenon, <1>2, HandlerKept DEF Crash, HandlerInv
<1>3. CASE UNCHANGED handler
  BY Zenon, <1>3, HandlerKept DEF HandlerInv
<1>4. Tick \/ StateMoves \/ RevokeGrant => UNCHANGED handler
  BY Zenon DEF Tick, StateMoves, RevokeGrant, procVars
<1> QED
  BY Zenon, <1>1, <1>2, <1>3, <1>4, RunTouches, DeciderTouches, RefresherTouches DEF AckNext

(* The decider dates its candidate by then.                                *)
LEMMA DeciderStep ==
  ASSUME AckIInv, AckNext
  PROVE  decider'.at <= now'
<1>1. /\ decider \in Deciders /\ decider.at <= now /\ decider.at \in Nat
      /\ now <= now' /\ now \in Nat /\ now' \in Nat
  BY Zenon, Types, ClockStep, Instants DEF AckIInv, Deciders
<1>2. decider'.at \in {decider.at, now, 0}
  <2>1. CASE Decide
    <3>1. CASE DecideRead \/ DecideCheck
      <4>1. \/ decider' = IdleDecider
            \/ decider' = [decider EXCEPT !.pc = "check", !.at = now]
            \/ decider' = [decider EXCEPT !.pc = "write"]
        BY Zenon, <3>1 DEF DecideRead, DecideCheck, EnvelopeDone
      <4>2. [decider EXCEPT !.pc = "check", !.at = now].at = now
        BY Zenon, <1>1 DEF Deciders
      <4>3. [decider EXCEPT !.pc = "write"].at = decider.at
        BY Zenon, <1>1 DEF Deciders
      <4>4. IdleDecider.at = 0
        BY Zenon DEF IdleDecider
      <4> QED
        BY Zenon, <4>1, <4>2, <4>3, <4>4
    <3>2. DecideAgain \/ DecideLate \/ DecideWrite => decider' = IdleDecider
      BY Zenon DEF DecideAgain, DecideLate, DecideWrite, EnvelopeDone, EnvelopeRetried
    <3> QED
      BY <2>1, <3>1, <3>2 DEF Decide, IdleDecider
  <2>2. CASE \E a \in Action : Press(a) \/ Receive(a)
    BY <1>1, <2>2 DEF Press, Receive, procVars
  <2>3. CASE Tick \/ StateMoves \/ RevokeGrant \/ Crash
    BY <2>3 DEF Tick, StateMoves, RevokeGrant, Crash, IdleDecider, procVars
  <2> QED
    BY Zenon, <2>1, <2>2, <2>3, HandleTouches, RunTouches, RefresherTouches DEF AckNext
<1> QED
  BY <1>1, <1>2

(* A final label that is true stays true.                                  *)
LEMMA LabelStays ==
  ASSUME AckIInv, AckNext
  PROVE  \A l : LabelTrue(l) => /\ l \in {"rejected", "expired"} => ack'.status = l
                                /\ l \in Ended => \E k \in Key : run'[k].status = l
  BY Zenon, Stable DEF StableStep, LabelTrue

(* While it waits, the labels it holds stay true.                          *)
LEMMA RefresherKept ==
  ASSUME AckIInv, AckNext, UNCHANGED refresher
  PROVE  RefresherInv'
  BY Zenon, LabelStays DEF AckIInv, RefresherInv, LabelTrue

(* The refresher reports what was so, and final labels are still so.       *)
LEMMA RefresherStep ==
  ASSUME AckIInv, AckNext
  PROVE  RefresherInv'
<1>1. ASSUME NEW h \in Handler, Handle(h)
      PROVE  RefresherInv'
  BY Zenon, <1>1, HandleTouches, RefresherKept
<1>2. ASSUME NEW k \in Key, RunStep(k)
      PROVE  RefresherInv'
  BY Zenon, <1>2, RunTouches, RefresherKept
<1>3. ASSUME Decide \/ \E a \in Action : Press(a) \/ Receive(a)
      PROVE  RefresherInv'
  BY Zenon, <1>3, DeciderTouches, RefresherKept
<1>4. ASSUME ReadRun \/ Project \/ UpdateDone \/ UpdateFails \/ \E c \in Card : Refresh(c)
      PROVE  RefresherInv'
  <2>1. CASE \E c \in Card : Refresh(c)
    <3>1. \/ refresher' = IdleRefresher
          \/ /\ refresher'.pc = "run" /\ refresher'.seen = ack'.status
             /\ refresher'.seen \in {"pending", "expired"} \cup Action
      BY Zenon, <2>1, Types, RefresherTypeStep DEF Refresh, AckIInv, Refreshers
    <3> QED
      BY <3>1 DEF RefresherInv, LabelTrue, IdleRefresher, Ended, Action
  <2>2. CASE ReadRun
    <3>1. refresher \in Refreshers /\ LabelTrue(refresher.seen)
      BY Zenon, <2>2, Types DEF ReadRun, AckIInv, RefresherInv
    <3>2. \A l : Report(l) =>
             \/ refresher' = IdleRefresher
             \/ refresher'.pc = "update" /\ refresher'.label = l
      <4>1. \A l : Refreshed("update", l) => refresher'.pc = "update" /\ refresher'.label = l
        BY Zenon, <3>1 DEF Refreshed, Refreshers
      <4> QED
        BY Zenon, <4>1 DEF Report
    <3>3. CASE \E k \in Key : run[k].status # "none" /\ Report(run[k].status)
      <4>1. PICK k \in Key : Report(run[k].status)
        BY Zenon, <3>3
      <4>2. run[k].status \notin {"rejected", "expired"} /\ run' = run
        BY Zenon, <2>2, Types DEF ReadRun, AckIInv, Runs, Active, Ended
      <4> QED
        BY <3>2, <4>1, <4>2 DEF RefresherInv, LabelTrue, IdleRefresher
    <3>4. CASE refresher.seen \in {"approved", "pending"} /\ Refreshed("project", "pending")
      <4>1. refresher'.pc = "project" /\ refresher'.seen = refresher.seen
        BY Zenon, <3>1, <3>4 DEF Refreshed, Refreshers
      <4> QED
        BY Zenon, <3>4, <4>1 DEF RefresherInv
    <3>5. CASE Report(refresher.seen)
      BY <3>1, <3>2, <3>5, LabelStays DEF RefresherInv, LabelTrue, IdleRefresher
    <3> QED
      BY Zenon, <2>2, <3>3, <3>4, <3>5 DEF ReadRun
  <2>3. CASE Project
    <3>1. refresher \in Refreshers /\ refresher.seen \in {"approved", "pending"}
      BY Zenon, <2>3, Types DEF Project, AckIInv, RefresherInv
    <3>2. \/ refresher' = IdleRefresher
          \/ refresher'.pc = "update" /\ refresher'.label \in {"approved", "pending", "stale"}
      BY Zenon, <2>3, <3>1 DEF Project, Report, Refreshed, Refreshers
    <3> QED
      BY <3>2 DEF RefresherInv, LabelTrue, IdleRefresher, Ended
  <2>4. CASE UpdateDone
    BY Zenon, <2>4 DEF UpdateDone, IdleRefresher, RefresherInv
  <2>5. CASE UpdateFails
    BY Zenon, <2>5 DEF UpdateFails, IdleRefresher, RefresherInv
  <2> QED
    BY Zenon, <1>4, <2>1, <2>2, <2>3, <2>4, <2>5
<1>5. ASSUME Tick \/ StateMoves \/ RevokeGrant \/ Crash
      PROVE  RefresherInv'
  <2>1. CASE Tick \/ StateMoves \/ RevokeGrant
    <3>1. UNCHANGED refresher
      BY Zenon, <2>1 DEF Tick, StateMoves, RevokeGrant, worldVars, slackVars, procVars
    <3> QED
      BY Zenon, <3>1, RefresherKept
  <2>2. CASE Crash
    BY Zenon, <2>2 DEF Crash, IdleRefresher, RefresherInv
  <2> QED
    BY Zenon, <1>5, <2>1, <2>2
<1> QED
  BY Zenon, <1>1, <1>2, <1>3, <1>4, <1>5 DEF AckNext

(* A message that nobody touches stays true.                               *)
LEMMA CardKept ==
  ASSUME AckIInv, AckNext, NEW c \in Card, card'[c] = card[c]
  PROVE  LabelTrue(card[c])'
  BY Zenon, LabelStays DEF AckIInv, CardInv, LabelTrue

(* The messages are true.                                                  *)
LEMMA CardStep ==
  ASSUME AckIInv, AckNext
  PROVE  CardInv'
<1>1. ASSUME NEW h \in Handler, Handle(h)
      PROVE  CardInv'
  <2>1. CASE Request(h) \/ CreateRequest(h) \/ Status(h) \/ (\E k \in Key : Submit(h, k))
             \/ CreateRun(h) \/ VerifyRunClaim(h) \/ VerifyHuman(h)
    <3>1. UNCHANGED card
      BY Zenon, <2>1 DEF Request, At, Goto, CreateRequest, Return, Status, Submit, CreateRun,
         VerifyRunClaim, VerifyHuman, PassOr, worldVars, slackVars, procVars
    <3> QED
      BY Zenon, <3>1, CardKept DEF CardInv
  <2>2. CASE VerifyFresh(h) \/ VerifyCurrent(h) \/ Consume(h) \/ StartRun(h) \/ Abandon(h)
    <3>1. UNCHANGED card
      BY Zenon, <2>2 DEF VerifyFresh, At, Return, VerifyCurrent, PassOr, Goto, Consume,
         StartRun, Abandon, worldVars, slackVars, procVars
    <3> QED
      BY Zenon, <3>1, CardKept DEF CardInv
  <2>3. CASE Publish(h)
    <3>1. \A c \in Card : card'[c] = card[c] \/ card'[c] \in {"pending", "unrecorded"}
      BY Zenon, <2>3, Types DEF Publish, AckIInv, SlackType
    <3> QED
      BY Zenon, <3>1, CardKept DEF CardInv, LabelTrue, Ended
  <2> QED
    BY Zenon, <1>1, <2>1, <2>2, <2>3 DEF Handle
<1>2. ASSUME NEW k \in Key, RunStep(k)
      PROVE  CardInv'
  BY Zenon, <1>2, RunTouches, CardKept DEF CardInv
<1>3. ASSUME Decide \/ \E a \in Action : Press(a) \/ Receive(a)
      PROVE  CardInv'
  BY Zenon, <1>3, DeciderTouches, CardKept DEF CardInv
<1>4. ASSUME ReadRun \/ Project \/ UpdateDone \/ UpdateFails \/ \E c \in Card : Refresh(c)
      PROVE  CardInv'
  <2>1. CASE (\E c \in Card : Refresh(c)) \/ ReadRun \/ Project \/ UpdateFails
    <3>1. UNCHANGED card
      BY Zenon, <2>1 DEF Refresh, ReadRun, Report, Refreshed, Project, UpdateFails, worldVars,
         slackVars, procVars
    <3> QED
      BY Zenon, <3>1, CardKept DEF CardInv
  <2>2. CASE UpdateDone
    <3>1. \A c \in Card : card'[c] = card[c] \/ card'[c] = refresher.label
      BY Zenon, <2>2, Types DEF UpdateDone, AckIInv, SlackType
    <3>2. LabelTrue(refresher.label)
      BY Zenon, <2>2 DEF UpdateDone, AckIInv, RefresherInv
    <3> QED
      BY <3>1, <3>2, CardKept, LabelStays DEF CardInv, LabelTrue
  <2> QED
    BY Zenon, <1>4, <2>1, <2>2
<1>5. ASSUME Tick \/ StateMoves \/ RevokeGrant \/ Crash
      PROVE  CardInv'
  <2>1. CASE Tick \/ StateMoves \/ RevokeGrant \/ Crash
    <3>1. UNCHANGED card
      BY Zenon, <2>1 DEF Tick, StateMoves, RevokeGrant, Crash, worldVars, slackVars, procVars
    <3> QED
      BY Zenon, <3>1, CardKept DEF CardInv
  <2> QED
    BY Zenon, <1>5, <2>1
<1> QED
  BY Zenon, <1>1, <1>2, <1>3, <1>4, <1>5 DEF AckNext

(* The initial state satisfies the invariant.                              *)
LEMMA InitAckIInv == AckInit => AckIInv
<1> SUFFICES ASSUME AckInit
             PROVE  AckIInv
  OBVIOUS
<1>1. WorldType
  <2>1. 0 \in 0 .. MaxCrashes
    BY AckConstants
  <2> QED
    BY Zenon, <2>1, Instants DEF AckInit, WorldType
<1>2. RowTyped(ack) /\ run \in [Key -> Runs] /\ SlackType
  BY Zenon, Instants DEF AckInit, RowTyped, Rows, Runs, SlackType, Labels
<1>3. handler \in [Handler -> Handlers] /\ decider \in Deciders /\ refresher \in Refreshers
  BY Zenon, Idle DEF AckInit
<1>4. AckTypeOK
  BY Zenon, <1>1, <1>2, <1>3, Types
<1>5. WorldInv /\ RunInv
  BY Zenon DEF AckInit, WorldInv, RunInv
<1>6. RowInv
  BY Zenon, Instants DEF AckInit, RowInv, Unposted, IdleHandler, IdleRefresher
<1>7. HandlerInv
  <2>1. \A h \in Handler : handler[h].at = 0
    BY Zenon DEF AckInit, IdleHandler
  <2>2. 0 <= now
    BY DEF AckInit
  <2>3. \A h \in Handler : handler[h].at <= now
    BY Zenon, <2>1, <2>2
  <2>4. \A h \in Handler : handler[h].pc = "idle" /\ ~handler[h].used
    BY Zenon DEF AckInit, IdleHandler
  <2> QED
    BY Zenon, <2>3, <2>4 DEF HandlerInv, HandlerOK, Claimed
<1>8. decider.at <= now /\ RefresherInv /\ CardInv
  BY DEF AckInit, IdleDecider, RefresherInv, IdleRefresher, CardInv, LabelTrue, Ended
<1> QED
  BY Zenon, <1>4, <1>5, <1>6, <1>7, <1>8 DEF AckIInv

(* Every step keeps the invariant.                                         *)
LEMMA NextAckIInv == AckIInv /\ [AckNext]_vars => AckIInv'
<1> SUFFICES ASSUME AckIInv, [AckNext]_vars
             PROVE  AckIInv'
  OBVIOUS
<1>1. CASE AckNext
  BY Zenon, <1>1, TypeStep, WorldStep, RowStep, RunsStep, HandlerStep, DeciderStep,
     RefresherStep, CardStep DEF AckIInv
<1>2. CASE UNCHANGED vars
  BY <1>2 DEF vars, worldVars, slackVars, procVars, AckIInv, AckTypeOK, WorldInv, RowInv,
     Unposted, RunInv, HandlerInv, HandlerOK, RefresherInv, CardInv, LabelTrue
<1> QED
  BY Zenon, <1>1, <1>2

(* The inductive invariant holds.                                          *)
THEOREM AckIInvHolds == AckSpec => []AckIInv
  BY InitAckIInv, NextAckIInv, PTL DEF AckSpec

(* The rows, the messages and the goroutines keep their types, and the     *)
(* request the CHECK constraints of its table.                             *)
THEOREM AckTypeCorrect == AckSpec => []AckTypeOK
<1>1. AckIInv => AckTypeOK
  BY Zenon DEF AckIInv
<1> QED
  BY <1>1, AckIInvHolds, PTL

(* A run that left its queue is the only one of the plan; its proof was    *)
(* approved before the run was created, and used by it before the expiry.  *)
THEOREM OneAcknowledgedRun == AckSpec => []StartedIsAcknowledged
<1>1. AckIInv => StartedIsAcknowledged
  <2> SUFFICES ASSUME AckIInv, NEW k \in Key,
                      run[k].status \in {"running", "interrupted", "ended"}
               PROVE  /\ ack.status = "approved"
                      /\ ack.decidedAt <= run[k].createdAt
                      /\ run[k].createdAt <= ack.consumedAt
                      /\ ack.consumedAt < Expiry
                      /\ \A j \in Key \ {k} : run[j].status = "none"
    BY Zenon DEF StartedIsAcknowledged
  <2>1. RunInv
    BY Zenon DEF AckIInv
  <2>2. PICK j \in Key : run[j].status # "none" /\ run[j].createdAt <= ack.consumedAt
    BY Zenon, <2>1 DEF RunInv
  <2>3. j = k
    BY Zenon, <2>1, <2>2 DEF RunInv
  <2> QED
    BY Zenon, <2>1, <2>2, <2>3 DEF RunInv
<1> QED
  BY <1>1, AckIInvHolds, PTL

(* A used proof belongs to a durable run that was created before the use:  *)
(* no crash or abandoned request can burn a proof.                         *)
THEOREM ProofsAreOwned == AckSpec => []ProofHasOwner
<1>1. AckIInv => ProofHasOwner
  BY Zenon DEF AckIInv, RunInv, ProofHasOwner
<1> QED
  BY <1>1, AckIInvHolds, PTL

(* What a human was told to have decided is what the request holds.        *)
THEOREM AnswersHold == AckSpec => []AnswerIsFinal
<1>1. AckIInv => AnswerIsFinal
  BY Zenon DEF AckIInv, RowInv, AnswerIsFinal
<1> QED
  BY <1>1, AckIInvHolds, PTL

(* A message completed as rejected or expired is about a plan that never   *)
(* ran, and one completed with the end of a run about a plan of which no   *)
(* run is active.                                                          *)
THEOREM SettledMessagesAreTrue == AckSpec => []SettledIsTrue
<1>1. AckIInv => SettledIsTrue
  <2> SUFFICES ASSUME AckIInv, NEW c \in Card
               PROVE  /\ card[c] \in {"rejected", "expired"} =>
                            ack.status = card[c] /\ \A k \in Key : run[k].status = "none"
                      /\ card[c] \in Ended =>
                            /\ \E k \in Key : run[k].status = card[c]
                            /\ \A k \in Key : run[k].status \notin Active
    BY Zenon DEF SettledIsTrue
  <2>1. LabelTrue(card[c]) /\ RunInv
    BY Zenon DEF AckIInv, CardInv
  <2>2. card[c] \in {"rejected", "expired"} =>
          ack.status = card[c] /\ \A k \in Key : run[k].status = "none"
    BY Zenon, <2>1 DEF LabelTrue, RunInv
  <2>3. ASSUME card[c] \in Ended
        PROVE  /\ \E k \in Key : run[k].status = card[c]
               /\ \A k \in Key : run[k].status \notin Active
    <3>1. PICK k \in Key : run[k].status = card[c]
      BY Zenon, <2>1, <2>3 DEF LabelTrue
    <3>2. \A j \in Key \ {k} : run[j].status = "none"
      BY Zenon, <2>1, <2>3, <3>1 DEF RunInv, Ended
    <3> QED
      BY Zenon, <2>3, <3>1, <3>2 DEF Active, Ended
  <2> QED
    BY Zenon, <2>2, <2>3
<1> QED
  BY <1>1, AckIInvHolds, PTL

(* A decision and a time of use are never changed, whatever Decide,        *)
(* Status, Consume and expiry race.                                        *)
THEOREM DecisionsAreFinal == AckSpec => DecisionIsFinal
<1>1. AckIInv /\ [AckNext]_vars =>
        [/\ ack.status \notin {"none", "pending"} =>
               ack'.status = ack.status /\ ack'.decidedAt = ack.decidedAt
         /\ ack.consumedAt # Never => ack'.consumedAt = ack.consumedAt]_vars
  BY Zenon, Stable DEF StableStep
<1> QED
  BY <1>1, AckIInvHolds, PTL DEF AckSpec, DecisionIsFinal

(* A decision is recorded, and a proof used, only while the human has the  *)
(* grant, although neither write looks at grants: the revision moves with  *)
(* every revocation.                                                       *)
THEOREM AuthorityHolds == AckSpec => AuthorityAtUse
<1>1. AckIInv /\ [AckNext]_vars =>
        [(ack'.consumedAt # ack.consumedAt
        \/ (ack'.status # ack.status /\ ack'.status \in Action))
            => granted]_vars
  <2> SUFFICES ASSUME AckIInv, AckNext, moved
               PROVE  /\ ack'.consumedAt = ack.consumedAt
                      /\ ack'.status = ack.status \/ ack'.status \notin Action
    BY Zenon DEF AckIInv, WorldInv
  <2>1. ack' = ack \/ ack' = [ack EXCEPT !.status = "pending"]
    BY Zenon, RowMoves DEF RowMove, ConsumeAllowed
  <2> QED
    BY Zenon, <2>1, Types DEF AckIInv, RowTyped, Rows, Action
<1> QED
  BY <1>1, AckIInvHolds, PTL DEF AckSpec, AuthorityAtUse

=============================================================================

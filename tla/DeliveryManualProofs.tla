------------------------ MODULE DeliveryManualProofs ------------------------
(***************************************************************************)
(* Theorems about DeliveryManual, for any numbers of orders, callers of    *)
(* handle and administrators.  Here the guard excludes nobody, since       *)
(* mark_received and terminate overwrite it; what is proved rests on the   *)
(* attempts alone, of which one per kind may be unfinished.                *)
(***************************************************************************)
EXTENDS DeliveryManual, DeliveryProofs

Doubtful == {"accepted", "unknown"}

\* From prepare_attempt to finish_attempt, as Executing is for a task.
Resending(r) == rpc[r] \in {"submit", "reached", "missed", "finish"}

TaskInv ==
    /\ Located
    /\ \A t \in Tasks : Executing(t) => "initial" \in open[ord[t]]
    /\ \A t, u \in Tasks : Executing(t) /\ Executing(u) /\ ord[t] = ord[u] => t = u

RequestInv ==
    /\ \A r \in Requests : rpc[r] # "idle" => rord[r] \in Orders
    /\ phase = "boot" => \A r \in Requests : rpc[r] = "idle"
    /\ \A r \in Requests : rpc[r] = "finish" => rres[r] \in {"accepted", "not_sent", "unknown"}
    /\ \A r \in Requests : Resending(r) => "manual_resend" \in open[rord[r]]
    /\ OneResend

\* An unfinished attempt stands for a message that is out, unless the one who
\* executes it has not sent it or knows that it was not sent.
NotOut(t) ==
    \/ pc[t] \in {"mark", "barrier", "submit", "missed"}
    \/ pc[t] = "finish" /\ res[t] \notin Doubtful
NotResent(r) ==
    \/ rpc[r] \in {"submit", "missed"}
    \/ rpc[r] = "finish" /\ rres[r] \notin Doubtful
PledgedByTask(o) ==
    "initial" \in open[o] /\ \A t \in Tasks : ord[t] = o => ~NotOut(t)
PledgedByRequest(o) ==
    "manual_resend" \in open[o] /\ \A r \in Requests : rord[r] = o => ~NotResent(r)

OnRecord(o) == done[o] \cap Doubtful # {} \/ PledgedByTask(o) \/ PledgedByRequest(o)
SentIsOnRecord == \A o \in Orders : copies[o] + resent[o] > 0 => OnRecord(o)

MInv == ManualTypeOK /\ TaskInv /\ RequestInv /\ SentIsOnRecord

-----------------------------------------------------------------------------
(* Types *)

LEMMA ManualTypeInit == ManualInit => ManualTypeOK
  BY TypeInit DEF ManualInit, ManualTypeOK, RequestStates

\* A step of a request.
LEMMA RequestTypes ==
    ASSUME ManualTypeOK, RequestInv, NEW r \in Requests, Operate(r)
    PROVE  ManualTypeOK'
  <1>1. /\ TypeOK
        /\ rpc \in [Requests -> RequestStates]
        /\ rord \in [Requests -> Orders \cup {NoOrder}]
        /\ rres \in [Requests -> {"none", "accepted", "not_sent", "unknown", "giveup"}]
        /\ resent \in [Orders -> 0..2]
    BY DEF ManualTypeOK
  <1>2. ASSUME NEW o \in Orders, BeginResend(r, o) \/ BeginReceived(r, o) \/ BeginTerminate(r, o)
        PROVE  ManualTypeOK'
    <2>1. UNCHANGED <<vars, rres, resent>>
      BY <1>2 DEF BeginResend, BeginReceived, BeginTerminate, Begin
    <2>2. TypeOK'
      BY <1>1, <2>1, TypeStep
    <2> QED BY <1>1, <1>2, <2>1, <2>2 DEF ManualTypeOK, BeginResend, BeginReceived, BeginTerminate,
                                          Begin, Move, RequestStates
  <1>3. CASE ResendGuard(r)
    <2>1. guard' \in [Orders -> GuardStates]
      BY <1>1, <1>3 DEF ResendGuard, TypeOK, GuardStates
    <2>2. /\ UNCHANGED <<rowVars, open, done, issue, cardVars, accountVars, processVars, copies,
                         taskVars, fresh, resent>>
          /\ rpc' \in [Requests -> RequestStates]
          /\ rord' \in [Requests -> Orders \cup {NoOrder}]
          /\ rres' \in [Requests -> {"none", "accepted", "not_sent", "unknown", "giveup"}]
      BY <1>1, <1>3 DEF ResendGuard, Reply, Move, RequestStates
    <2> QED BY <1>1, <2>1, <2>2 DEF ManualTypeOK, TypeOK, rowVars, cardVars, accountVars,
                                    processVars, taskVars, frame
  <1>4. CASE ResendPrepare(r)
    <2>1. open' \in [Orders -> SUBSET Kinds]
      BY <1>1, <1>4 DEF ResendPrepare, TypeOK, Kinds
    <2>2. /\ UNCHANGED <<rowVars, done, guard, issue, cardVars, accountVars, processVars, copies,
                         taskVars, fresh, rord, resent>>
          /\ rpc' \in [Requests -> RequestStates]
          /\ rres' \in [Requests -> {"none", "accepted", "not_sent", "unknown", "giveup"}]
      BY <1>1, <1>4 DEF ResendPrepare, Move, RequestStates
    <2> QED BY <1>1, <2>1, <2>2 DEF ManualTypeOK, TypeOK, rowVars, cardVars, accountVars,
                                    processVars, taskVars, frame
  <1>5. ASSUME NEW reaches \in BOOLEAN, ResendSubmit(r, reaches) PROVE ManualTypeOK'
    <2>1. TypeOK'
      BY <1>1, <1>5, TypeStep DEF ResendSubmit
    <2>2. resent' \in [Orders -> 0..2]
      BY <1>1, <1>5 DEF ResendSubmit
    <2> QED BY <1>1, <1>5, <2>1, <2>2 DEF ManualTypeOK, ResendSubmit, Move, RequestStates
  <1>6. ASSUME NEW a \in Outcomes, ResendAnswer(r, a) PROVE ManualTypeOK'
    <2>1. TypeOK'
      BY <1>1, <1>6, TypeStep DEF ResendAnswer
    <2> QED BY <1>1, <1>6, <2>1 DEF ManualTypeOK, ResendAnswer, ResendResult, Reply, Move,
                                    RequestStates
  <1>7. CASE ResendFinish(r)
    <2>1. rord[r] \in Orders /\ rres[r] \in {"accepted", "not_sent", "unknown"}
      BY <1>7 DEF ResendFinish, RequestInv
    <2>2. /\ content' \in [Orders -> ContentStates] /\ review' \in [Orders -> ReviewStates]
          /\ fresh' \in SUBSET Tasks /\ issue' \in [Orders -> BOOLEAN]
      BY <1>1, <1>7, ZenonT(30) DEF ResendFinish, Overwrite, Touched, TypeOK, ContentStates, ReviewStates
    <2>3. open' \in [Orders -> SUBSET Kinds] /\ done' \in [Orders -> SUBSET FinishedStates]
      BY <1>1, <1>7, <2>1 DEF ResendFinish, TypeOK, FinishedStates
    <2>4. rpc' \in [Requests -> RequestStates]
      BY <1>1, <1>7 DEF ResendFinish, Move, RequestStates
    <2> QED BY <1>1, <1>7, <2>2, <2>3, <2>4
               DEF ManualTypeOK, TypeOK, ResendFinish, cardVars, accountVars, processVars,
                   taskVars, frame
  <1>8. CASE ResendAccepted(r)
    BY <1>1, <1>8 DEF ManualTypeOK, TypeOK, ResendAccepted, Overwrite, Touched, Move, RequestStates,
                      ContentStates, ReviewStates, cardVars, accountVars, processVars, taskVars, frame
  <1>9. CASE ResendFree(r)
    BY <1>1, <1>9 DEF ManualTypeOK, TypeOK, ResendFree, Reply, Move, RequestStates, GuardOf,
                      GuardStates, rowVars, cardVars, accountVars, processVars, taskVars, frame
  <1>10. CASE MarkReceived(r)
    BY <1>1, <1>10 DEF ManualTypeOK, TypeOK, MarkReceived, Overwrite, Touched, CloseGuard, Reply,
                       Move, RequestStates, ContentStates, ReviewStates, GuardStates, cardVars,
                       accountVars, processVars, taskVars, frame
  <1>11. CASE CheckSubmitted(r)
    <2>1. TypeOK'
      BY <1>1, <1>11, TypeStep DEF CheckSubmitted
    <2> QED BY <1>1, <1>11, <2>1 DEF ManualTypeOK, CheckSubmitted, Reply, Move, RequestStates
  <1>12. CASE Terminate(r)
    <2>1. cardState' \in [Cards -> {"available", "reserved", "used"}]
          /\ cardOwner' \in [Cards -> Orders \cup {NoOrder}]
      BY <1>1, <1>12 DEF Terminate, ReleaseCards, TypeOK
    <2>2. /\ content' \in [Orders -> ContentStates] /\ review' \in [Orders -> ReviewStates]
          /\ fresh' \in SUBSET Tasks /\ guard' \in [Orders -> GuardStates]
      BY <1>1, <1>12 DEF Terminate, Overwrite, Touched, CloseGuard, TypeOK, ContentStates,
                         ReviewStates, GuardStates
    <2> QED BY <1>1, <1>12, <2>1, <2>2
               DEF ManualTypeOK, TypeOK, Terminate, Reply, Move, RequestStates, accountVars,
                   processVars, taskVars, frame
  <1> QED BY <1>2, <1>3, <1>4, <1>5, <1>6, <1>7, <1>8, <1>9, <1>10, <1>11, <1>12 DEF Operate

LEMMA ManualTypeStep ==
    ASSUME ManualTypeOK, RequestInv, [ManualNext]_manualVars
    PROVE  ManualTypeOK'
  <1>1. CASE Automatic /\ UNCHANGED requestVars
    <2>1. Next
      BY <1>1 DEF Automatic, Next, Restart
    <2> QED BY <1>1, <2>1, TypeStep DEF ManualTypeOK, requestVars
  <1>2. CASE ManualCrash
    <2>1. Next
      BY <1>2 DEF ManualCrash, Next, Restart
    <2> QED BY <1>2, <2>1, TypeStep DEF ManualTypeOK, ManualCrash, RequestStates
  <1>3. CASE UNCHANGED manualVars
    <2>1. UNCHANGED vars /\ UNCHANGED requestVars
      BY <1>3 DEF manualVars
    <2> QED BY <2>1, TypeStep DEF ManualTypeOK, requestVars
  <1> QED BY <1>1, <1>2, <1>3, RequestTypes DEF ManualNext

-----------------------------------------------------------------------------
(* The steps of a task *)

\* A call of handle touches no other call and no attempt of a request.
LEMMA TaskAlone ==
    ASSUME TypeOK, Located, NEW t \in Tasks,
           (\E o \in Orders, ok \in BOOLEAN : Load(t, o, ok)) \/ Step(t)
    PROVE  /\ \A u \in Tasks \ {t} : pc'[u] = pc[u] /\ ord'[u] = ord[u] /\ res'[u] = res[u]
           /\ \A o \in Orders : "manual_resend" \in open'[o] <=> "manual_resend" \in open[o]
           /\ phase' = phase
  <1>1. CASE \E o \in Orders, ok \in BOOLEAN : Load(t, o, ok)
    BY <1>1 DEF Load, Goto, durable, processVars, TypeOK
  <1>2. CASE \/ CreateInitial(t) \/ FindInitial(t) \/ Ineligible(t) \/ Probe(t) \/ Reserve(t)
             \/ OutOfStock(t) \/ SourceMissing(t) \/ BindSnapshot(t) \/ AcquireGuard(t)
             \/ ReadVersion(t) \/ MarkDispatching(t) \/ Barrier(t) \/ RecordContent(t)
             \/ FreeGuard(t) \/ OpenIssue(t)
             \/ \E reaches \in BOOLEAN : Submit(t, reaches)
             \/ \E r \in Outcomes : Answer(t, r)
    <2>1. open' = open /\ phase' = phase
      BY <1>2 DEF CreateInitial, FindInitial, Ineligible, Probe, Reserve, OutOfStock, SourceMissing,
             BindSnapshot, AcquireGuard, ReadVersion, MarkDispatching, Barrier, RecordContent,
             FreeGuard, OpenIssue, Submit, Answer, durable, processVars
    <2>2. \A u \in Tasks \ {t} : pc'[u] = pc[u] /\ ord'[u] = ord[u] /\ res'[u] = res[u]
      BY <1>2 DEF CreateInitial, FindInitial, Ineligible, Probe, Reserve, OutOfStock, SourceMissing,
             BindSnapshot, AcquireGuard, ReadVersion, MarkDispatching, Barrier, RecordContent,
             FreeGuard, OpenIssue, Submit, Answer, Leave, Goto, frame, TypeOK
    <2> QED BY <2>1, <2>2
  <1>3. CASE PrepareAttempt(t)
    BY <1>3 DEF PrepareAttempt, Inserted, Goto, frame, processVars, TypeOK, Located
  <1>4. CASE FinishAttempt(t)
    BY <1>4 DEF FinishAttempt, Goto, frame, processVars, TypeOK, Located
  <1> QED BY <1>1, <1>2, <1>3, <1>4 DEF Step

\* What a step of a task means for its attempt.
Quiet(t) ==
    /\ UNCHANGED <<open, done, copies>>
    /\ Executing(t)' => Executing(t) /\ ord'[t] = ord[t]
    /\ NotOut(t)' => NotOut(t) /\ ord'[t] = ord[t]

LEMMA TaskKinds ==
    ASSUME TypeOK, Located, NEW t \in Tasks,
           (\E o \in Orders, ok \in BOOLEAN : Load(t, o, ok)) \/ Step(t)
    PROVE  \/ Quiet(t)
           \/ PrepareAttempt(t) /\ CanPrepare(t)
           \/ Submit(t, TRUE)
           \/ FinishAttempt(t)
  <1>1. CASE \E o \in Orders, ok \in BOOLEAN : Load(t, o, ok)
    BY <1>1 DEF Quiet, Load, Goto, durable, TypeOK, Executing, NotOut
  <1>2. CASE \/ CreateInitial(t) \/ FindInitial(t) \/ Ineligible(t) \/ Probe(t) \/ Reserve(t)
             \/ OutOfStock(t) \/ SourceMissing(t) \/ BindSnapshot(t) \/ AcquireGuard(t)
             \/ ReadVersion(t) \/ RecordContent(t) \/ FreeGuard(t) \/ OpenIssue(t)
    <2>1. UNCHANGED <<open, done, copies>>
      BY <1>2 DEF CreateInitial, FindInitial, Ineligible, Probe, Reserve, OutOfStock, SourceMissing,
             BindSnapshot, AcquireGuard, ReadVersion, RecordContent, FreeGuard, OpenIssue, durable
    <2>2. pc'[t] \notin {"mark", "barrier", "submit", "reached", "missed", "finish"}
      BY <1>2 DEF CreateInitial, FindInitial, Ineligible, Probe, Reserve, OutOfStock, SourceMissing,
             BindSnapshot, AcquireGuard, ReadVersion, RecordContent, FreeGuard, OpenIssue, Leave,
             Goto, TypeOK
    <2> QED BY <2>1, <2>2 DEF Quiet, Executing, NotOut
  <1>3. CASE PrepareAttempt(t)
    BY <1>3 DEF PrepareAttempt, Quiet, Goto, Executing, NotOut, TypeOK
  <1>4. CASE MarkDispatching(t)
    BY <1>4, ZenonT(30) DEF MarkDispatching, Quiet, Leave, Goto, frame, Executing, NotOut, TypeOK
  <1>5. CASE Barrier(t)
    BY <1>5 DEF Barrier, Quiet, Goto, durable, frame, Executing, NotOut, TypeOK
  <1>6. ASSUME NEW reaches \in BOOLEAN, Submit(t, reaches), ~reaches PROVE Quiet(t)
    BY <1>6 DEF Submit, Quiet, Goto, durable, frame, Executing, NotOut, TypeOK
  <1>7. ASSUME NEW r \in Outcomes, Answer(t, r) PROVE Quiet(t)
    <2>1. /\ UNCHANGED <<open, done, copies>> /\ pc[t] \in {"reached", "missed"}
          /\ pc[t] = "reached" => r \in Doubtful
      BY <1>7 DEF Answer, Consistent, Doubtful, durable
    <2>2. \/ pc'[t] = "idle"
          \/ pc'[t] = "finish" /\ res'[t] = r /\ ord' = ord
      BY <1>7 DEF Answer, Leave, Goto, frame, TypeOK
    <2> QED BY <2>1, <2>2 DEF Quiet, Executing, NotOut
  <1> QED BY <1>1, <1>2, <1>3, <1>4, <1>5, <1>6, <1>7 DEF Step

LEMMA TaskStep ==
    ASSUME TypeOK, TaskInv, RequestInv, SentIsOnRecord, UNCHANGED requestVars, NEW t \in Tasks,
           (\E o \in Orders, ok \in BOOLEAN : Load(t, o, ok)) \/ Step(t), Located'
    PROVE  TaskInv' /\ RequestInv' /\ SentIsOnRecord'
  <1>1. /\ \A u \in Tasks \ {t} : pc'[u] = pc[u] /\ ord'[u] = ord[u] /\ res'[u] = res[u]
        /\ \A o \in Orders : "manual_resend" \in open'[o] <=> "manual_resend" \in open[o]
        /\ UNCHANGED <<rpc, rord, rres, resent, phase>>
    BY TaskAlone DEF TaskInv, requestVars
  <1>2. \A u \in Tasks \ {t} : (Executing(u)' <=> Executing(u)) /\ (NotOut(u)' <=> NotOut(u))
    BY <1>1 DEF Executing, NotOut
  <1>3. RequestInv'
    <2>1. \A r \in Requests : Resending(r) => rord[r] \in Orders
      BY DEF RequestInv, Resending
    <2> QED BY <1>1, <2>1 DEF RequestInv, Resending, OneResend
  <1>4. \A o \in Orders : PledgedByRequest(o)' <=> PledgedByRequest(o)
    BY <1>1 DEF PledgedByRequest, NotResent
  <1>5. \A u \in Tasks : Executing(u) => ord[u] \in Orders
    BY DEF TaskInv, Located, Executing
  <1>6. CASE Quiet(t)
    <2>1. TaskInv'
      BY <1>1, <1>2, <1>5, <1>6 DEF TaskInv, Quiet
    <2>2. \A o \in Orders : PledgedByTask(o) => PledgedByTask(o)'
      BY <1>1, <1>2, <1>6 DEF PledgedByTask, Quiet
    <2>3. SentIsOnRecord'
      BY <1>1, <1>4, <1>6, <2>2 DEF SentIsOnRecord, OnRecord, Quiet
    <2> QED BY <1>3, <2>1, <2>3
  <1>7. CASE PrepareAttempt(t) /\ CanPrepare(t)
    <2>1. /\ ord[t] \in Orders /\ "initial" \notin open[ord[t]] /\ UNCHANGED <<done, copies, ord>>
          /\ open' = [open EXCEPT ![ord[t]] = @ \cup {"initial"}]
          /\ pc' = [pc EXCEPT ![t] = "mark"]
      BY <1>7 DEF PrepareAttempt, CanPrepare, Inserted, Goto, frame, TaskInv, Located
    <2>2. \A u \in Tasks : Executing(u) => ord[u] # ord[t]
      BY <2>1 DEF TaskInv
    <2>3. TaskInv'
      BY <1>1, <1>2, <1>5, <2>1, <2>2 DEF TaskInv, TypeOK
    <2>4. \A o \in Orders : PledgedByTask(o) => PledgedByTask(o)'
      BY <1>1, <1>2, <2>1 DEF PledgedByTask, TypeOK
    <2>5. SentIsOnRecord'
      BY <1>1, <1>4, <2>1, <2>4 DEF SentIsOnRecord, OnRecord
    <2> QED BY <1>3, <2>3, <2>5
  <1>8. CASE Submit(t, TRUE)
    <2>1. /\ ord[t] \in Orders /\ pc[t] = "submit" /\ UNCHANGED <<open, done, ord>>
          /\ copies' = [copies EXCEPT ![ord[t]] = IF @ < 2 THEN @ + 1 ELSE @]
          /\ pc' = [pc EXCEPT ![t] = "reached"]
      BY <1>8 DEF Submit, Goto, durable, frame, TaskInv, Located
    <2>2. TaskInv'
      BY <1>1, <1>2, <2>1 DEF TaskInv, Executing, TypeOK
    <2>3. PledgedByTask(ord[t])'
      <3>1. "initial" \in open[ord[t]] /\ \A u \in Tasks : Executing(u) /\ ord[u] = ord[t] => u = t
        BY <2>1 DEF TaskInv, Executing
      <3>2. ~NotOut(t)'
        BY <2>1 DEF NotOut, TypeOK
      <3>3. \A u \in Tasks \ {t} : NotOut(u) => Executing(u)
        BY DEF NotOut, Executing
      <3> QED BY <1>2, <2>1, <3>1, <3>2, <3>3 DEF PledgedByTask
    <2>4. \A o \in Orders : PledgedByTask(o) => PledgedByTask(o)'
      BY <1>2, <2>1 DEF PledgedByTask, NotOut, TypeOK
    <2>5. \A o \in Orders : o # ord[t] => copies'[o] = copies[o]
      BY <2>1 DEF TypeOK
    <2>6. SentIsOnRecord'
      BY <1>1, <1>4, <2>1, <2>3, <2>4, <2>5 DEF SentIsOnRecord, OnRecord
    <2> QED BY <1>3, <2>2, <2>6
  <1>9. CASE FinishAttempt(t)
    <2>1. /\ ord[t] \in Orders /\ pc[t] = "finish" /\ UNCHANGED <<copies, ord, res>>
          /\ open' = [open EXCEPT ![ord[t]] = @ \ {"initial"}]
          /\ done' = [done EXCEPT ![ord[t]] = @ \cup {AttemptOf(res[t])}]
          /\ pc' = [pc EXCEPT ![t] = "state"]
      BY <1>9 DEF FinishAttempt, Goto, frame, TaskInv, Located
    <2>2. \A u \in Tasks : Executing(u)' => u # t /\ Executing(u) /\ ord[u] # ord[t]
      BY <1>2, <2>1 DEF TaskInv, Executing, TypeOK
    <2>3. TaskInv'
      BY <1>5, <2>1, <2>2 DEF TaskInv, TypeOK
    <2>4. PledgedByTask(ord[t]) => done'[ord[t]] \cap Doubtful # {}
      <3>1. SUFFICES ASSUME PledgedByTask(ord[t]) PROVE done'[ord[t]] \cap Doubtful # {}
        OBVIOUS
      <3>2. res[t] \in Doubtful /\ AttemptOf(res[t]) = res[t]
        BY <2>1, <3>1 DEF PledgedByTask, NotOut, Doubtful, AttemptOf
      <3>3. res[t] \in done'[ord[t]]
        BY <2>1, <3>2 DEF TypeOK
      <3> QED BY <3>2, <3>3
    <2>5. \A o \in Orders : o # ord[t] => (PledgedByTask(o) => PledgedByTask(o)')
      BY <1>2, <2>1 DEF PledgedByTask, TypeOK
    <2>6. \A o \in Orders : done[o] \subseteq done'[o]
      BY <2>1 DEF TypeOK
    <2>7. SentIsOnRecord'
      BY <1>1, <1>4, <2>1, <2>4, <2>5, <2>6 DEF SentIsOnRecord, OnRecord
    <2> QED BY <1>3, <2>3, <2>7
  <1> QED BY <1>6, <1>7, <1>8, <1>9, TaskKinds DEF TaskInv

\* A task that works has an order, and none works while the process starts.
LEMMA LocatedStep == TypeOK /\ Located /\ [Next]_vars => Located'
  <1> SUFFICES ASSUME TypeOK, Located, [Next]_vars PROVE Located'
    OBVIOUS
  <1>1. ASSUME NEW t \in Tasks, (\E o \in Orders, ok \in BOOLEAN : Load(t, o, ok)) \/ Step(t)
        PROVE  Located'
    <2>1. /\ \A u \in Tasks \ {t} : pc'[u] = pc[u] /\ ord'[u] = ord[u]
          /\ phase' = phase
      BY <1>1, TaskAlone
    <2>2. pc'[t] # "idle" => ord'[t] \in Orders
      BY <1>1 DEF Load, Step, CreateInitial, FindInitial, Ineligible, Probe, Reserve, OutOfStock,
             SourceMissing, BindSnapshot, AcquireGuard, ReadVersion, PrepareAttempt,
             MarkDispatching, Barrier, Submit, Answer, FinishAttempt, RecordContent, FreeGuard,
             OpenIssue, Leave, Goto, frame, TypeOK, Located
    <2>3. phase # "boot"
      BY <1>1 DEF Load, Step, CreateInitial, FindInitial, Ineligible, Probe, Reserve, OutOfStock,
             SourceMissing, BindSnapshot, AcquireGuard, ReadVersion, PrepareAttempt,
             MarkDispatching, Barrier, Submit, Answer, FinishAttempt, RecordContent, FreeGuard,
             OpenIssue, Located
    <2> QED BY <2>1, <2>2, <2>3 DEF Located
  <1>2. CASE Control \/ UNCHANGED vars
    BY <1>2 DEF Control, SetSwitches, ObserveOffline, ObserveOnline, vars, processVars, frame, Located
  <1>3. CASE Restart
    BY <1>3 DEF Restart, Crash, Forget, BootRecover, BootDone, processVars, frame, Located
  <1> QED BY <1>1, <1>2, <1>3 DEF Next

-----------------------------------------------------------------------------
(* The steps of a request *)

\* A request touches no other request and no attempt of a task.
LEMMA RequestAlone ==
    ASSUME ManualTypeOK, RequestInv, NEW r \in Requests, Operate(r)
    PROVE  /\ \A q \in Requests \ {r} : rpc'[q] = rpc[q] /\ rord'[q] = rord[q] /\ rres'[q] = rres[q]
           /\ \A o \in Orders : "initial" \in open'[o] <=> "initial" \in open[o]
           /\ UNCHANGED <<pc, ord, res, phase, copies>> /\ phase # "boot"
           /\ rpc'[r] # "idle" => rord'[r] \in Orders
  <1>1. \A q \in Requests \ {r} : rpc'[q] = rpc[q] /\ rord'[q] = rord[q] /\ rres'[q] = rres[q]
    BY DEF Operate, BeginResend, BeginReceived, BeginTerminate, Begin, ResendGuard, ResendPrepare,
           ResendSubmit, ResendAnswer, ResendFinish, ResendAccepted, ResendFree, MarkReceived,
           CheckSubmitted, Terminate, Reply, Move, ManualTypeOK
  <1>2. \A o \in Orders : "initial" \in open'[o] <=> "initial" \in open[o]
    <2>1. CASE ResendPrepare(r) \/ ResendFinish(r)
      BY <2>1 DEF ResendPrepare, ResendFinish, ManualTypeOK, TypeOK, RequestInv
    <2>2. CASE ~(ResendPrepare(r) \/ ResendFinish(r))
      BY <2>2 DEF Operate, BeginResend, BeginReceived, BeginTerminate, Begin, ResendGuard,
             ResendSubmit, ResendAnswer, ResendAccepted, ResendFree, MarkReceived,
             CheckSubmitted, Terminate, vars, durable
    <2> QED BY <2>1, <2>2
  <1>3. UNCHANGED <<pc, ord, res, phase, copies>>
    BY DEF Operate, BeginResend, BeginReceived, BeginTerminate, Begin, ResendGuard, ResendPrepare,
           ResendSubmit, ResendAnswer, ResendFinish, ResendAccepted, ResendFree, MarkReceived,
           CheckSubmitted, Terminate, vars, processVars, taskVars, frame
  <1>4. phase # "boot"
    BY DEF Operate, BeginResend, BeginReceived, BeginTerminate, Begin, ResendGuard, ResendPrepare,
           ResendSubmit, ResendAnswer, ResendFinish, ResendAccepted, ResendFree, MarkReceived,
           CheckSubmitted, Terminate, RequestInv
  <1>5. rpc'[r] # "idle" => rord'[r] \in Orders
    BY DEF Operate, BeginResend, BeginReceived, BeginTerminate, Begin, ResendGuard, ResendPrepare,
           ResendSubmit, ResendAnswer, ResendFinish, ResendAccepted, ResendFree, MarkReceived,
           CheckSubmitted, Terminate, Reply, Move, ManualTypeOK, RequestInv
  <1> QED BY <1>1, <1>2, <1>3, <1>4, <1>5

\* What a step of a request means for its attempt.
QuietRequest(r) ==
    /\ UNCHANGED <<open, done, resent>>
    /\ Resending(r)' => Resending(r) /\ rord'[r] = rord[r]
    /\ NotResent(r)' => NotResent(r) /\ rord'[r] = rord[r]
    /\ rpc'[r] = "finish" => rres'[r] \in {"accepted", "not_sent", "unknown"}

LEMMA RequestKinds ==
    ASSUME ManualTypeOK, RequestInv, NEW r \in Requests, Operate(r)
    PROVE  \/ QuietRequest(r)
           \/ ResendPrepare(r) /\ CanPrepareResend(rord[r])
           \/ ResendSubmit(r, TRUE)
           \/ ResendFinish(r)
  <1>1. CASE \/ \E o \in Orders : BeginResend(r, o) \/ BeginReceived(r, o) \/ BeginTerminate(r, o)
             \/ ResendGuard(r) \/ ResendAccepted(r) \/ ResendFree(r)
             \/ MarkReceived(r) \/ CheckSubmitted(r) \/ Terminate(r)
    <2>1. UNCHANGED <<open, done, resent>>
      BY <1>1 DEF BeginResend, BeginReceived, BeginTerminate, Begin, ResendGuard, ResendAccepted,
             ResendFree, MarkReceived, CheckSubmitted, Terminate, vars, durable
    <2>2. rpc'[r] \notin {"submit", "reached", "missed", "finish"}
      BY <1>1 DEF BeginResend, BeginReceived, BeginTerminate, Begin, ResendGuard, ResendAccepted,
             ResendFree, MarkReceived, CheckSubmitted, Terminate, Reply, Move, ManualTypeOK
    <2> QED BY <2>1, <2>2 DEF QuietRequest, Resending, NotResent
  <1>2. CASE ResendPrepare(r)
    BY <1>2 DEF ResendPrepare, QuietRequest, Move, Resending, NotResent, ManualTypeOK
  <1>3. ASSUME NEW reaches \in BOOLEAN, ResendSubmit(r, reaches), ~reaches PROVE QuietRequest(r)
    BY <1>3 DEF ResendSubmit, QuietRequest, Move, Resending, NotResent, vars, durable, ManualTypeOK
  <1>4. ASSUME NEW a \in Outcomes, ResendAnswer(r, a) PROVE QuietRequest(r)
    <2>1. /\ UNCHANGED <<open, done, resent>> /\ rpc[r] \in {"reached", "missed"}
          /\ rpc[r] = "reached" => a \in Doubtful
      BY <1>4 DEF ResendAnswer, Consistent, Doubtful, vars, durable
    <2>2. \/ rpc'[r] = "idle"
          \/ rpc'[r] = "finish" /\ rres'[r] = ResendResult(a) /\ rord' = rord
      BY <1>4 DEF ResendAnswer, Reply, Move, ManualTypeOK
    <2>3. /\ ResendResult(a) \in {"accepted", "not_sent", "unknown"}
          /\ a \in Doubtful => ResendResult(a) \in Doubtful
      BY DEF ResendResult, Doubtful
    <2> QED BY <2>1, <2>2, <2>3 DEF QuietRequest, Resending, NotResent
  <1> QED BY <1>1, <1>2, <1>3, <1>4 DEF Operate

LEMMA RequestStep ==
    ASSUME ManualTypeOK, TaskInv, RequestInv, SentIsOnRecord, NEW r \in Requests, Operate(r)
    PROVE  TaskInv' /\ RequestInv' /\ SentIsOnRecord'
  <1> DEFINE others == Requests \ {r}
  <1>1. /\ \A q \in others : rpc'[q] = rpc[q] /\ rord'[q] = rord[q] /\ rres'[q] = rres[q]
        /\ \A o \in Orders : "initial" \in open'[o] <=> "initial" \in open[o]
        /\ UNCHANGED <<pc, ord, res, phase, copies>> /\ phase # "boot"
        /\ rpc'[r] # "idle" => rord'[r] \in Orders
    BY RequestAlone
  <1>2. /\ TypeOK /\ rpc \in [Requests -> RequestStates]
        /\ \A q \in others : (Resending(q)' <=> Resending(q)) /\ (NotResent(q)' <=> NotResent(q))
    BY <1>1 DEF Resending, NotResent, ManualTypeOK
  <1>3. TaskInv'
    <2>1. \A t \in Tasks : Executing(t) => ord[t] \in Orders
      BY DEF TaskInv, Located, Executing
    <2> QED BY <1>1, <2>1 DEF TaskInv, Located, Executing
  <1>4. \A o \in Orders : PledgedByTask(o)' <=> PledgedByTask(o)
    BY <1>1 DEF PledgedByTask, NotOut
  <1>5. \A q \in Requests : Resending(q) => rord[q] \in Orders
    BY DEF RequestInv, Resending
  <1>6. ASSUME \A q \in Requests : Resending(q)' => "manual_resend" \in open'[rord'[q]],
               rpc'[r] = "finish" => rres'[r] \in {"accepted", "not_sent", "unknown"},
               Resending(r)' => \A q \in others : Resending(q) => rord[q] # rord'[r]
        PROVE  RequestInv'
    <2>1. \A q \in Requests : rpc'[q] # "idle" => rord'[q] \in Orders
      BY <1>1 DEF RequestInv
    <2>2. \A q \in Requests : rpc'[q] = "finish" =>
              rres'[q] \in {"accepted", "not_sent", "unknown"}
      BY <1>1, <1>6 DEF RequestInv
    <2>3. \A q, s \in Requests : Resending(q)' /\ Resending(s)' /\ rord'[q] = rord'[s] => q = s
      BY <1>1, <1>2, <1>6 DEF RequestInv, OneResend, Resending
    <2>4. OneResend'
      BY <2>3 DEF OneResend, Resending
    <2> QED BY <1>1, <1>6, <2>1, <2>2, <2>4 DEF RequestInv
  <1>7. CASE QuietRequest(r)
    <2>1. RequestInv'
      BY <1>1, <1>2, <1>6, <1>7 DEF RequestInv, QuietRequest, OneResend, Resending
    <2>2. \A o \in Orders : PledgedByRequest(o) => PledgedByRequest(o)'
      BY <1>1, <1>2, <1>7 DEF PledgedByRequest, QuietRequest
    <2>3. SentIsOnRecord'
      BY <1>1, <1>4, <1>7, <2>2 DEF SentIsOnRecord, OnRecord, QuietRequest
    <2> QED BY <1>3, <2>1, <2>3
  <1>8. CASE ResendPrepare(r) /\ CanPrepareResend(rord[r])
    <2>1. /\ rord[r] \in Orders /\ "manual_resend" \notin open[rord[r]]
          /\ UNCHANGED <<done, rord, resent>>
          /\ open' = [open EXCEPT ![rord[r]] = @ \cup {"manual_resend"}]
          /\ rpc' = [rpc EXCEPT ![r] = "submit"]
      BY <1>8 DEF ResendPrepare, CanPrepareResend, Move, RequestInv
    <2>2. \A q \in Requests : Resending(q) => rord[q] # rord[r]
      BY <2>1 DEF RequestInv
    <2>3. RequestInv'
      BY <1>1, <1>2, <1>5, <1>6, <2>1, <2>2 DEF RequestInv, TypeOK
    <2>4. \A o \in Orders : PledgedByRequest(o) => PledgedByRequest(o)'
      BY <1>1, <1>2, <2>1 DEF PledgedByRequest, TypeOK
    <2>5. SentIsOnRecord'
      BY <1>1, <1>4, <2>1, <2>4 DEF SentIsOnRecord, OnRecord
    <2> QED BY <1>3, <2>3, <2>5
  <1>9. CASE ResendSubmit(r, TRUE)
    <2>1. /\ rord[r] \in Orders /\ rpc[r] = "submit" /\ UNCHANGED <<open, done, rord>>
          /\ resent' = [resent EXCEPT ![rord[r]] = IF @ < 2 THEN @ + 1 ELSE @]
          /\ rpc' = [rpc EXCEPT ![r] = "reached"]
      BY <1>9 DEF ResendSubmit, Move, vars, durable, RequestInv
    <2>2. /\ "manual_resend" \in open[rord[r]] /\ Resending(r)
          /\ \A q \in Requests : Resending(q) /\ rord[q] = rord[r] => q = r
      BY <2>1 DEF RequestInv, Resending, OneResend
    <2>3. RequestInv'
      BY <1>1, <1>2, <1>6, <2>1, <2>2 DEF RequestInv
    <2>4. PledgedByRequest(rord[r])'
      <3>1. ~NotResent(r)'
        BY <1>2, <2>1 DEF NotResent
      <3>2. \A q \in others : NotResent(q) => Resending(q)
        BY DEF NotResent, Resending
      <3> QED BY <1>2, <2>1, <2>2, <3>1, <3>2 DEF PledgedByRequest
    <2>5. \A o \in Orders : PledgedByRequest(o) => PledgedByRequest(o)'
      BY <1>2, <2>1 DEF PledgedByRequest, NotResent
    <2>6. \A o \in Orders : o # rord[r] => resent'[o] = resent[o]
      BY <2>1 DEF ManualTypeOK
    <2>7. SentIsOnRecord'
      BY <1>1, <1>4, <2>1, <2>4, <2>5, <2>6 DEF SentIsOnRecord, OnRecord
    <2> QED BY <1>3, <2>3, <2>7
  <1>10. CASE ResendFinish(r)
    <2>1. /\ rord[r] \in Orders /\ rpc[r] = "finish" /\ UNCHANGED <<rord, resent>>
          /\ open' = [open EXCEPT ![rord[r]] = @ \ {"manual_resend"}]
          /\ done' = [done EXCEPT ![rord[r]] = @ \cup {rres[r]}]
          /\ rpc'[r] \in {"state", "free"}
      BY <1>2, <1>10 DEF ResendFinish, Move, RequestInv
    <2>2. \A q \in Requests : Resending(q)' => q # r /\ Resending(q) /\ rord[q] # rord[r]
      BY <1>2, <2>1 DEF RequestInv, Resending, OneResend
    <2>3. RequestInv'
      BY <1>2, <1>5, <1>6, <2>1, <2>2 DEF RequestInv, TypeOK
    <2>4. PledgedByRequest(rord[r]) => done'[rord[r]] \cap Doubtful # {}
      BY <1>2, <2>1 DEF PledgedByRequest, NotResent, TypeOK
    <2>5. \A o \in Orders : o # rord[r] => (PledgedByRequest(o) => PledgedByRequest(o)')
      BY <1>2, <2>1 DEF PledgedByRequest, TypeOK
    <2>6. \A o \in Orders : done[o] \subseteq done'[o]
      BY <1>2, <2>1 DEF TypeOK
    <2>7. SentIsOnRecord'
      BY <1>1, <1>4, <2>1, <2>4, <2>5, <2>6 DEF SentIsOnRecord, OnRecord
    <2> QED BY <1>3, <2>3, <2>7
  <1> QED BY <1>7, <1>8, <1>9, <1>10, RequestKinds

-----------------------------------------------------------------------------
(* Crash and recovery *)

\* What the end of the process interrupts is left pledged, as nobody is there
\* to know better; the recovery notes "unknown" of it.
LEMMA RestartStep ==
    ASSUME ManualTypeOK, TaskInv, RequestInv, SentIsOnRecord, Located',
           \/ ManualCrash
           \/ (\E o \in Orders, kind \in Kinds : BootRecover(o, kind)) /\ UNCHANGED requestVars
           \/ BootDone /\ UNCHANGED requestVars
    PROVE  TaskInv' /\ RequestInv' /\ SentIsOnRecord'
  <1>1. TypeOK
    BY DEF ManualTypeOK
  <1>2. CASE ManualCrash
    <2>1. /\ UNCHANGED <<open, done, copies, resent>>
          /\ \A t \in Tasks : pc'[t] = "idle"
          /\ \A r \in Requests : rpc'[r] = "idle"
      BY <1>2 DEF ManualCrash, Crash, Forget, durable
    <2>2. \A o \in Orders : OnRecord(o) => OnRecord(o)'
      BY <2>1 DEF OnRecord, PledgedByTask, PledgedByRequest, NotOut, NotResent
    <2>3. SentIsOnRecord'
      BY <2>1, <2>2 DEF SentIsOnRecord
    <2> QED BY <2>1, <2>3 DEF TaskInv, RequestInv, Executing, Resending, OneResend
  <1>3. ASSUME NEW o \in Orders, NEW kind \in Kinds, BootRecover(o, kind), UNCHANGED requestVars
        PROVE  TaskInv' /\ RequestInv' /\ SentIsOnRecord'
    <2>1. /\ UNCHANGED <<copies, resent, pc, ord, res, rpc, rord, rres, phase>>
          /\ open' = [open EXCEPT ![o] = @ \ {kind}]
          /\ done' = [done EXCEPT ![o] = @ \cup {"unknown"}]
          /\ \A t \in Tasks : pc[t] = "idle"
          /\ \A r \in Requests : rpc[r] = "idle"
      BY <1>3 DEF BootRecover, TaskInv, RequestInv, Located, processVars, frame, requestVars
    <2>2. OnRecord(o)'
      BY <1>1, <2>1 DEF OnRecord, Doubtful, TypeOK
    <2>3. \A p \in Orders : p # o => (OnRecord(p) => OnRecord(p)')
      BY <1>1, <2>1 DEF OnRecord, PledgedByTask, PledgedByRequest, NotOut, NotResent, TypeOK
    <2>4. SentIsOnRecord'
      BY <2>1, <2>2, <2>3 DEF SentIsOnRecord
    <2> QED BY <2>1, <2>4 DEF TaskInv, RequestInv, Executing, Resending, OneResend
  <1>4. CASE BootDone /\ UNCHANGED requestVars
    <2>1. /\ UNCHANGED <<open, done, copies, resent, pc, ord, res, rpc, rord, rres>>
          /\ phase' = "up"
      BY <1>4 DEF BootDone, durable, frame, requestVars
    <2>2. \A o \in Orders : OnRecord(o) => OnRecord(o)'
      BY <2>1 DEF OnRecord, PledgedByTask, PledgedByRequest, NotOut, NotResent
    <2>3. SentIsOnRecord'
      BY <2>1, <2>2 DEF SentIsOnRecord
    <2> QED BY <2>1, <2>3 DEF TaskInv, RequestInv, Executing, Resending, OneResend
  <1> QED BY <1>2, <1>3, <1>4

-----------------------------------------------------------------------------
(* The invariant *)

LEMMA ManualInitially == ManualInit => MInv
  <1>1. SUFFICES ASSUME ManualInit PROVE MInv
    OBVIOUS
  <1>2. TaskInv /\ RequestInv
    BY <1>1 DEF ManualInit, Init, TaskInv, Located, Executing, RequestInv, Resending, OneResend
  <1>3. SentIsOnRecord
    BY <1>1 DEF ManualInit, Init, SentIsOnRecord
  <1> QED BY <1>1, <1>2, <1>3, ManualTypeInit DEF MInv

LEMMA ManualInductive == MInv /\ [ManualNext]_manualVars => MInv'
  <1>1. SUFFICES ASSUME ManualTypeOK, TaskInv, RequestInv, SentIsOnRecord,
                        [ManualNext]_manualVars
                 PROVE  MInv'
    BY DEF MInv
  <1>2. ManualTypeOK' /\ TypeOK
    BY <1>1, ManualTypeStep DEF ManualTypeOK
  <1>3. ASSUME NEW r \in Requests, Operate(r) PROVE MInv'
    BY <1>1, <1>2, <1>3, RequestStep DEF MInv
  <1>4. ASSUME [Next]_vars PROVE Located'
    BY <1>1, <1>2, <1>4, LocatedStep DEF TaskInv
  <1>5. ASSUME NEW t \in Tasks, UNCHANGED requestVars,
               (\E o \in Orders, ok \in BOOLEAN : Load(t, o, ok)) \/ Step(t)
        PROVE  MInv'
    <2>1. Located'
      BY <1>4, <1>5 DEF Next
    <2> QED BY <1>1, <1>2, <1>5, <2>1, TaskStep DEF MInv
  <1>6. CASE (Control /\ UNCHANGED requestVars) \/ UNCHANGED manualVars
    <2>1. UNCHANGED <<open, done, copies, pc, ord, res, phase, rpc, rord, rres, resent>>
      BY <1>6 DEF Control, SetSwitches, ObserveOffline, ObserveOnline, manualVars, vars, durable,
                  frame, processVars, requestVars
    <2>2. TaskInv' /\ RequestInv'
      BY <1>1, <2>1 DEF TaskInv, Located, Executing, RequestInv, Resending, OneResend
    <2>3. SentIsOnRecord'
      <3>1. \A o \in Orders : OnRecord(o) => OnRecord(o)'
        BY <2>1 DEF OnRecord, PledgedByTask, PledgedByRequest, NotOut, NotResent
      <3> QED BY <1>1, <2>1, <3>1 DEF SentIsOnRecord
    <2> QED BY <1>2, <2>2, <2>3 DEF MInv
  <1>7. CASE \/ ManualCrash
             \/ (\E o \in Orders, kind \in Kinds : BootRecover(o, kind)) /\ UNCHANGED requestVars
             \/ BootDone /\ UNCHANGED requestVars
    <2>1. Located'
      BY <1>4, <1>7 DEF Next, Restart, ManualCrash
    <2> QED BY <1>1, <1>2, <1>7, <2>1, RestartStep DEF MInv
  <1> QED BY <1>1, <1>3, <1>5, <1>6, <1>7 DEF ManualNext, Automatic

LEMMA ManualInvariance == ManualSpec => []MInv
  BY ManualInitially, ManualInductive, PTL DEF ManualSpec

-----------------------------------------------------------------------------
(* The automatic path sends once *)

\* Nothing moves such a row back to one that a task may dispatch.
Settled(o) == content[o] \in {"dispatching", "accepted", "unknown", "terminated"}

\* The attempt is written, its row is not, or not yet.
AtRow(t) == Executing(t) \/ pc[t] = "state"
NotSentByNow(t) == NotOut(t) \/ (pc[t] = "state" /\ res[t] \notin Doubtful)

OnceInv ==
    /\ \A t \in Tasks : AtRow(t) /\ pc[t] # "mark" => Settled(ord[t])
    /\ \A t, u \in Tasks : AtRow(t) /\ AtRow(u) /\ ord[t] = ord[u] => t = u
    /\ AtMostOneCopy
    /\ \A o \in Orders : copies[o] > 0 =>
           Settled(o) /\ \A t \in Tasks : ord[t] = o => ~NotSentByNow(t)

\* The steps that send nothing and make no row dispatchable.
Calm(t) ==
    /\ copies' = copies
    /\ \A o \in Orders : Settled(o) => Settled(o)'
    /\ AtRow(t)' => AtRow(t) /\ ord'[t] = ord[t]
    /\ NotSentByNow(t)' => NotSentByNow(t) /\ ord'[t] = ord[t]
    /\ AtRow(t)' /\ pc'[t] # "mark" => pc[t] # "mark" \/ Settled(ord[t])'

LEMMA OnceKinds ==
    ASSUME TypeOK, Located, NEW t \in Tasks,
           (\E o \in Orders, ok \in BOOLEAN : Load(t, o, ok)) \/ Step(t)
    PROVE  \/ Calm(t)
           \/ PrepareAttempt(t) /\ CanPrepare(t)
           \/ Submit(t, TRUE)
           \/ RecordContent(t)
  <1>1. CASE \E o \in Orders, ok \in BOOLEAN : Load(t, o, ok)
    BY <1>1 DEF Load, Goto, durable, rowVars, TypeOK, Calm, Settled, AtRow, NotSentByNow, Executing,
           NotOut
  <1>2. CASE \/ FindInitial(t) \/ Ineligible(t) \/ Probe(t) \/ Reserve(t) \/ OutOfStock(t)
             \/ SourceMissing(t) \/ AcquireGuard(t) \/ ReadVersion(t) \/ FreeGuard(t)
             \/ OpenIssue(t)
    <2>1. UNCHANGED <<content, copies>>
      BY <1>2 DEF FindInitial, Ineligible, Probe, Reserve, OutOfStock, SourceMissing, AcquireGuard,
             ReadVersion, FreeGuard, OpenIssue, durable, rowVars
    <2>2. pc'[t] \notin {"mark", "barrier", "submit", "reached", "missed", "finish", "state"}
      BY <1>2 DEF FindInitial, Ineligible, Probe, Reserve, OutOfStock, SourceMissing, AcquireGuard,
             ReadVersion, FreeGuard, OpenIssue, Leave, Goto, TypeOK
    <2> QED BY <2>1, <2>2 DEF Calm, Settled, AtRow, NotSentByNow, Executing, NotOut
  <1>3. CASE CreateInitial(t) \/ BindSnapshot(t)
    <2>1. /\ copies' = copies /\ pc'[t] \in {"verdict", "find", "acquire"}
          /\ \A o \in Orders : content'[o] # content[o] =>
                 content[o] \in {"absent", "pending_verification"}
      BY <1>3 DEF CreateInitial, BindSnapshot, Goto, TypeOK, Located
    <2> QED BY <2>1 DEF Calm, Settled, AtRow, NotSentByNow, Executing, NotOut
  <1>4. CASE PrepareAttempt(t)
    BY <1>4 DEF PrepareAttempt, Goto, rowVars, TypeOK, Calm, Settled, AtRow, NotSentByNow,
           Executing, NotOut
  <1>5. CASE MarkDispatching(t)
    <2>1. ord[t] \in Orders /\ pc[t] = "mark" /\ copies' = copies
      BY <1>5 DEF MarkDispatching, Located
    <2>2. \/ pc'[t] = "idle" /\ content' = content
          \/ /\ pc'[t] = "barrier" /\ ord' = ord
             /\ content' = [content EXCEPT ![ord[t]] = "dispatching"]
      BY <1>5 DEF MarkDispatching, Leave, Goto, frame, TypeOK
    <2> QED BY <2>1, <2>2 DEF Calm, Settled, AtRow, NotSentByNow, Executing, NotOut, TypeOK
  <1>6. CASE Barrier(t) \/ FinishAttempt(t) \/ Submit(t, FALSE)
    <2>1. UNCHANGED <<content, copies, ord>>
      BY <1>6 DEF Barrier, FinishAttempt, Submit, durable, rowVars, frame
    <2>2. \/ pc[t] = "barrier" /\ pc'[t] \in {"submit", "finish"}
          \/ pc[t] = "finish" /\ pc'[t] = "state" /\ res' = res
          \/ pc[t] = "submit" /\ pc'[t] = "missed"
      BY <1>6 DEF Barrier, FinishAttempt, Submit, Goto, TypeOK
    <2> QED BY <2>1, <2>2 DEF Calm, Settled, AtRow, NotSentByNow, Executing, NotOut
  <1>7. ASSUME NEW r \in Outcomes, Answer(t, r) PROVE Calm(t)
    <2>1. /\ UNCHANGED <<content, copies>> /\ pc[t] \in {"reached", "missed"}
          /\ pc[t] = "reached" => r \in Doubtful
      BY <1>7 DEF Answer, Consistent, Doubtful, durable, rowVars
    <2>2. \/ pc'[t] = "idle"
          \/ pc'[t] = "finish" /\ res'[t] = r /\ ord' = ord
      BY <1>7 DEF Answer, Leave, Goto, frame, TypeOK
    <2> QED BY <2>1, <2>2 DEF Calm, Settled, AtRow, NotSentByNow, Executing, NotOut
  <1> QED BY <1>1, <1>2, <1>3, <1>4, <1>5, <1>6, <1>7 DEF Step

LEMMA OnceByTask ==
    ASSUME TypeOK, TaskInv, OnceInv, NEW t \in Tasks,
           (\E o \in Orders, ok \in BOOLEAN : Load(t, o, ok)) \/ Step(t)
    PROVE  OnceInv'
  <1>1. \A u \in Tasks \ {t} : pc'[u] = pc[u] /\ ord'[u] = ord[u] /\ res'[u] = res[u]
    BY TaskAlone DEF TaskInv
  <1>2. \A u \in Tasks \ {t} : (AtRow(u)' <=> AtRow(u)) /\ (NotSentByNow(u)' <=> NotSentByNow(u))
    BY <1>1 DEF AtRow, NotSentByNow, Executing, NotOut
  <1>3. \A u \in Tasks : AtRow(u) => ord[u] \in Orders
    BY DEF TaskInv, Located, AtRow, Executing
  <1>4. CASE Calm(t)
    BY <1>1, <1>2, <1>3, <1>4 DEF OnceInv, AtMostOneCopy, Calm
  <1>5. CASE PrepareAttempt(t) /\ CanPrepare(t)
    <2>1. /\ ord[t] \in Orders /\ "initial" \notin open[ord[t]] /\ ~Settled(ord[t])
          /\ UNCHANGED <<content, copies, ord>> /\ pc'[t] = "mark"
      BY <1>5 DEF PrepareAttempt, CanPrepare, AllowedStates, Settled, Goto, rowVars, frame,
             TaskInv, Located, TypeOK
    <2>2. \A u \in Tasks : AtRow(u) => ord[u] # ord[t]
      BY <2>1 DEF TaskInv, OnceInv, AtRow
    <2>3. ~(copies[ord[t]] > 0)
      BY <2>1 DEF OnceInv
    <2> QED BY <1>1, <1>2, <2>1, <2>2, <2>3 DEF OnceInv, AtMostOneCopy, Settled
  <1>6. CASE Submit(t, TRUE)
    <2>1. /\ ord[t] \in Orders /\ pc[t] = "submit" /\ UNCHANGED <<content, ord>>
          /\ copies' = [copies EXCEPT ![ord[t]] = IF @ < 2 THEN @ + 1 ELSE @]
          /\ pc'[t] = "reached"
      BY <1>6 DEF Submit, Goto, durable, rowVars, frame, TaskInv, Located, TypeOK
    <2>2. AtRow(t) /\ NotSentByNow(t) /\ AtRow(t)' /\ ~NotSentByNow(t)' /\ Settled(ord[t])
      BY <2>1 DEF AtRow, NotSentByNow, Executing, NotOut, OnceInv
    <2>3. copies[ord[t]] = 0 /\ copies'[ord[t]] = 1
      BY <2>1, <2>2 DEF OnceInv, TypeOK
    <2>4. \A u \in Tasks : NotSentByNow(u) => AtRow(u)
      BY DEF NotSentByNow, NotOut, AtRow, Executing
    <2>5. \A u \in Tasks \ {t} : ord[u] = ord[t] => ~NotSentByNow(u)
      BY <2>2, <2>4 DEF OnceInv
    <2>6. \A o \in Orders : o # ord[t] => copies'[o] = copies[o]
      BY <2>1 DEF TypeOK
    <2>7. AtMostOneCopy'
      BY <2>3, <2>6 DEF OnceInv, AtMostOneCopy
    <2>8. \A o \in Orders : copies'[o] > 0 =>
              Settled(o)' /\ \A u \in Tasks : ord'[u] = o => ~NotSentByNow(u)'
      BY <1>2, <2>1, <2>2, <2>5, <2>6 DEF OnceInv, Settled
    <2>9. \A u \in Tasks : AtRow(u)' /\ pc'[u] # "mark" => Settled(ord[u])'
      BY <1>1, <1>2, <2>1, <2>2 DEF OnceInv, Settled
    <2>10. \A u, v \in Tasks : AtRow(u)' /\ AtRow(v)' /\ ord'[u] = ord'[v] => u = v
      BY <1>2, <2>1, <2>2 DEF OnceInv
    <2> QED BY <2>7, <2>8, <2>9, <2>10 DEF OnceInv
  <1>7. CASE RecordContent(t)
    <2>1. ord[t] \in Orders /\ pc[t] = "state" /\ copies' = copies /\ pc'[t] \in {"free", "idle"}
      BY <1>7 DEF RecordContent, Leave, Goto, TaskInv, Located, TypeOK
    <2>2. AtRow(t) /\ ~AtRow(t)' /\ ~NotSentByNow(t)'
      BY <2>1 DEF AtRow, NotSentByNow, Executing, NotOut
    <2>3. \A o \in Orders : o # ord[t] => content'[o] = content[o]
      BY <1>7 DEF RecordContent, TypeOK
    <2>4. \A u \in Tasks \ {t} : AtRow(u) => ord[u] # ord[t]
      BY <2>2 DEF OnceInv
    <2>5. copies[ord[t]] > 0 =>
              content'[ord[t]] \in {"dispatching", "accepted", "unknown", "terminated"}
      <3>1. SUFFICES ASSUME copies[ord[t]] > 0
                     PROVE  content'[ord[t]] \in {"dispatching", "accepted", "unknown", "terminated"}
        OBVIOUS
      <3>2. res[t] \in Doubtful /\ Settled(ord[t])
        BY <2>1, <3>1 DEF OnceInv, NotSentByNow
      <3>3. ContentOf(Budgeted(res[t], retries[ord[t]])) \in Doubtful
        BY <3>2 DEF ContentOf, Budgeted, Doubtful
      <3>4. content'[ord[t]] \in Doubtful \cup {content[ord[t]]}
        BY <1>7, <2>1, <3>3 DEF RecordContent, TypeOK
      <3> QED BY <3>2, <3>4 DEF Settled, Doubtful
    <2>6. \A o \in Orders : copies[o] > 0 => content'[o] \in {"dispatching", "accepted", "unknown",
                                                              "terminated"}
      BY <2>3, <2>5 DEF OnceInv, Settled
    <2> QED BY <1>1, <1>2, <1>3, <2>1, <2>2, <2>3, <2>4, <2>6 DEF OnceInv, AtMostOneCopy, Settled
  <1> QED BY <1>4, <1>5, <1>6, <1>7, OnceKinds DEF TaskInv

\* Requests, the account, crashes and the recovery: a row is overwritten only
\* with what ends it.
LEMMA OnceByOthers ==
    ASSUME ManualTypeOK, TaskInv, RequestInv, OnceInv,
           \/ \E r \in Requests : Operate(r)
           \/ Control \/ BootDone \/ ManualCrash
           \/ \E o \in Orders, kind \in Kinds : BootRecover(o, kind)
           \/ UNCHANGED manualVars
    PROVE  OnceInv'
  <1>1. TypeOK
    BY DEF ManualTypeOK
  <1>2. ASSUME copies' = copies, \A o \in Orders : Settled(o) => Settled(o)',
               UNCHANGED <<pc, ord, res>>
        PROVE  OnceInv'
    <2>1. \A t \in Tasks : (AtRow(t)' <=> AtRow(t)) /\ (NotSentByNow(t)' <=> NotSentByNow(t))
      BY <1>2 DEF AtRow, NotSentByNow, Executing, NotOut
    <2>2. \A t \in Tasks : AtRow(t) => ord[t] \in Orders
      BY DEF TaskInv, Located, AtRow, Executing
    <2> QED BY <1>2, <2>1, <2>2 DEF OnceInv, AtMostOneCopy
  <1>3. ASSUME NEW r \in Requests, Operate(r) PROVE OnceInv'
    <2>1. UNCHANGED <<pc, ord, res, copies>>
      BY <1>3, RequestAlone
    <2>2. CASE ResendFinish(r) \/ ResendAccepted(r) \/ MarkReceived(r) \/ Terminate(r)
      <3>1. \/ content' = content
            \/ \E v \in {"unknown", "accepted", "terminated"} :
                   content' = [content EXCEPT ![rord[r]] = v]
        BY <2>2 DEF ResendFinish, ResendAccepted, MarkReceived, Terminate, Overwrite
      <3>2. \A o \in Orders : Settled(o) => Settled(o)'
        BY <1>1, <3>1 DEF Settled, TypeOK
      <3> QED BY <1>2, <2>1, <3>2
    <2>3. CASE ~(ResendFinish(r) \/ ResendAccepted(r) \/ MarkReceived(r) \/ Terminate(r))
      <3>1. content' = content
        BY <1>3, <2>3 DEF Operate, BeginResend, BeginReceived, BeginTerminate, Begin, ResendGuard,
               ResendPrepare, ResendSubmit, ResendAnswer, ResendFree, CheckSubmitted, vars,
               durable, rowVars
      <3> QED BY <1>2, <2>1, <3>1 DEF Settled
    <2> QED BY <2>2, <2>3
  <1>4. CASE Control \/ BootDone \/ UNCHANGED manualVars
    <2>1. UNCHANGED <<content, copies, pc, ord, res>>
      BY <1>4 DEF Control, SetSwitches, ObserveOffline, ObserveOnline, BootDone, manualVars, vars,
             durable, rowVars, frame
    <2> QED BY <1>2, <2>1 DEF Settled
  <1>5. CASE ManualCrash
    <2>1. /\ UNCHANGED <<content, copies>>
          /\ \A t \in Tasks : pc'[t] = "idle"
      BY <1>5 DEF ManualCrash, Crash, Forget, durable, rowVars
    <2> QED BY <2>1 DEF OnceInv, AtMostOneCopy, Settled, AtRow, NotSentByNow, Executing, NotOut
  <1>6. ASSUME NEW o \in Orders, NEW kind \in Kinds, BootRecover(o, kind) PROVE OnceInv'
    <2>1. /\ UNCHANGED <<copies, pc, ord, res>>
          /\ content' = [content EXCEPT ![o] = Recovered(@)]
      BY <1>6 DEF BootRecover, frame
    <2>2. \A p \in Orders : Settled(p) => Settled(p)'
      BY <1>1, <2>1 DEF Settled, Recovered, TypeOK
    <2> QED BY <1>2, <2>1, <2>2
  <1> QED BY <1>3, <1>4, <1>5, <1>6

-----------------------------------------------------------------------------
(* The theorems *)

\* Rows and frames keep their values, also under the plain updates of the
\* manual operations.
THEOREM ManualTypeCorrect == ManualSpec => []ManualTypeOK
  <1>1. MInv => ManualTypeOK
    BY DEF MInv
  <1> QED BY <1>1, ManualInvariance, PTL

\* However many administrators resend an order, and whoever frees its guard,
\* one of them at a time is between prepare_attempt and finish_attempt.
THEOREM OneResendAtATime == ManualSpec => []OneResend
  <1>1. MInv => OneResend
    BY DEF MInv, RequestInv
  <1> QED BY <1>1, ManualInvariance, PTL

\* Any message the buyer has, sent by a task or on request, through crashes and
\* recoveries, is in an attempt: one that is unfinished, or ended as accepted
\* or unknown.
THEOREM EveryMessageIsRecorded == ManualSpec => []ResentIsRecorded
  <1>1. MInv => ResentIsRecorded
    BY DEF MInv, SentIsOnRecord, OnRecord, PledgedByTask, PledgedByRequest, Doubtful,
           ResentIsRecorded
  <1> QED BY <1>1, ManualInvariance, PTL
\* Whatever administrators do beside it, and though they free its guard: the
\* automatic path delivers the content of an order at most once, for a row that
\* was dispatched is never one again that prepare_attempt accepts.
THEOREM AtMostOnceBesideManual == ManualSpec => []AtMostOneCopy
  <1>1. ManualInit => OnceInv
    BY DEF ManualInit, Init, OnceInv, AtMostOneCopy, AtRow, Executing
  <1>2. MInv /\ OnceInv /\ [ManualNext]_manualVars => OnceInv'
    <2>1. SUFFICES ASSUME ManualTypeOK, TypeOK, TaskInv, RequestInv, OnceInv,
                          [ManualNext]_manualVars
                   PROVE  OnceInv'
      BY DEF MInv, ManualTypeOK
    <2>2. CASE \E t \in Tasks : (\E o \in Orders, ok \in BOOLEAN : Load(t, o, ok)) \/ Step(t)
      BY <2>1, <2>2, OnceByTask
    <2>3. CASE \/ \E r \in Requests : Operate(r)
               \/ Control \/ BootDone \/ ManualCrash
               \/ \E o \in Orders, kind \in Kinds : BootRecover(o, kind)
               \/ UNCHANGED manualVars
      BY <2>1, <2>3, OnceByOthers
    <2> QED BY <2>1, <2>2, <2>3 DEF ManualNext, Automatic
  <1>3. OnceInv => AtMostOneCopy
    BY DEF OnceInv
  <1> QED BY <1>1, <1>2, <1>3, ManualInvariance, PTL DEF ManualSpec
=============================================================================

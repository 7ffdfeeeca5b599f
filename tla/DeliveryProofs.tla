---------------------------- MODULE DeliveryProofs ----------------------------
(***************************************************************************)
(* Proofs about Delivery, for every set of orders, tasks and cards, every  *)
(* number of crashes and both ways of restarting.                          *)
(***************************************************************************)
EXTENDS Delivery, TLAPS

\* The initial state has the types.
LEMMA TypeInit == Init => TypeOK
  BY CrashesAssumption, ControlsAssumption, RetriesAssumption
     DEF Init, TypeOK, ContentStates, ReviewStates, GuardStates, TaskStates,
         Results, RetryCap

\* No step leaves the types.
LEMMA TypeStep == TypeOK /\ [Next]_vars => TypeOK'
<1> SUFFICES ASSUME TypeOK, [Next]_vars PROVE TypeOK'
  OBVIOUS
<1>1. ASSUME NEW t \in Tasks, NEW o \in Orders, NEW ok \in BOOLEAN, Load(t, o, ok)
      PROVE  TypeOK'
  BY <1>1 DEF TypeOK, Load, Goto, durable, rowVars, cardVars, accountVars,
              processVars, TaskStates
<1>2. ASSUME NEW t \in Tasks, CreateInitial(t) PROVE TypeOK'
  BY <1>2 DEF TypeOK, CreateInitial, Goto, cardVars, accountVars, processVars,
              frame, TaskStates, ContentStates
<1>3. ASSUME NEW t \in Tasks, FindInitial(t) PROVE TypeOK'
  <2>1. CASE content[ord[t]] \in {"accepted", "unknown", "terminated"}
    <3>1. Leave(t) /\ UNCHANGED <<durable, accountVars, processVars, copies>>
      BY <1>3, <2>1 DEF FindInitial
    <3> QED
      BY <3>1 DEF TypeOK, Leave, Goto, durable, rowVars, cardVars,
                  accountVars, processVars, TaskStates, Results
  <2>2. CASE content[ord[t]] \notin {"accepted", "unknown", "terminated"}
    BY <1>3, <2>2 DEF TypeOK, FindInitial, Goto, durable, rowVars, cardVars,
                      accountVars, processVars, frame, TaskStates
  <2> QED BY <2>1, <2>2
<1>4. ASSUME NEW t \in Tasks, Ineligible(t) PROVE TypeOK'
  BY <1>4 DEF TypeOK, Ineligible, Leave, Goto, rowVars, cardVars,
              accountVars, processVars, TaskStates, Results
<1>5. ASSUME NEW t \in Tasks, Probe(t) PROVE TypeOK'
  BY <1>5 DEF TypeOK, Probe, Goto, durable, rowVars, cardVars,
              accountVars, processVars, frame, TaskStates
<1>6. ASSUME NEW t \in Tasks, Reserve(t) PROVE TypeOK'
  BY <1>6 DEF TypeOK, Reserve, Free, Goto, rowVars,
              accountVars, processVars, TaskStates
<1>7. ASSUME NEW t \in Tasks, OutOfStock(t) PROVE TypeOK'
  BY <1>7 DEF TypeOK, OutOfStock, Leave, Goto, rowVars, cardVars,
              accountVars, processVars, TaskStates, Results
<1>8. ASSUME NEW t \in Tasks, SourceMissing(t) PROVE TypeOK'
  BY <1>8 DEF TypeOK, SourceMissing, Leave, Goto, durable, rowVars, cardVars,
              accountVars, processVars, TaskStates, Results
<1>9. ASSUME NEW t \in Tasks, BindSnapshot(t) PROVE TypeOK'
  <2>1. CASE content[ord[t]] = "pending_verification"
    <3>1. /\ content' = [content EXCEPT ![ord[t]] = "queued"]
          /\ snap' = [snap EXCEPT ![ord[t]] = held[t]]
          /\ fresh' \in SUBSET Tasks
          /\ pc' = [pc EXCEPT ![t] = "acquire"]
          /\ held' = [held EXCEPT ![t] = {}]
          /\ UNCHANGED <<review, retries, open, done, guard, issue, cardVars,
                         accountVars, processVars, copies, ord, elig, current, res>>
      BY <1>9, <2>1 DEF TypeOK, BindSnapshot, Touched, Goto
    <3>2. content' \in [Orders -> ContentStates] /\ snap' \in [Orders -> SUBSET Cards]
      BY <3>1 DEF TypeOK, ContentStates
    <3> QED
      BY <3>1, <3>2 DEF TypeOK, cardVars, accountVars, processVars, TaskStates
  <2>2. CASE content[ord[t]] # "pending_verification"
    <3>1. /\ UNCHANGED <<content, snap, fresh>>
          /\ pc' = [pc EXCEPT ![t] = "acquire"]
          /\ held' = [held EXCEPT ![t] = {}]
          /\ UNCHANGED <<review, retries, open, done, guard, issue, cardVars,
                         accountVars, processVars, copies, ord, elig, current, res>>
      BY <1>9, <2>2 DEF BindSnapshot, Goto
    <3> QED
      BY <3>1 DEF TypeOK, cardVars, accountVars, processVars, TaskStates
  <2> QED BY <2>1, <2>2
<1>10. ASSUME NEW t \in Tasks, AcquireGuard(t) PROVE TypeOK'
  <2>1. CASE Takeable(ord[t])
    BY <1>10, <2>1 DEF TypeOK, AcquireGuard, Goto, rowVars, cardVars,
                       accountVars, processVars, frame, TaskStates, GuardStates
  <2>2. CASE ~Takeable(ord[t])
    BY <1>10, <2>2, ZenonT(30) DEF TypeOK, AcquireGuard, Leave, Goto, rowVars, cardVars,
                       accountVars, processVars, TaskStates, Results
  <2> QED BY <2>1, <2>2
<1>11. ASSUME NEW t \in Tasks, ReadVersion(t) PROVE TypeOK'
  BY <1>11 DEF TypeOK, ReadVersion, Goto, durable, rowVars, cardVars,
               accountVars, processVars, frame, TaskStates
<1>12. ASSUME NEW t \in Tasks, PrepareAttempt(t) PROVE TypeOK'
  <2>1. CASE CanPrepare(t)
    BY <1>12, <2>1 DEF TypeOK, PrepareAttempt, Inserted, Kinds, Goto, rowVars,
                       cardVars, accountVars, processVars, frame, TaskStates
  <2>2. CASE ~CanPrepare(t)
    BY <1>12, <2>2 DEF TypeOK, PrepareAttempt, Goto, rowVars, cardVars,
                       accountVars, processVars, frame, TaskStates, Results
  <2> QED BY <2>1, <2>2
<1>13. ASSUME NEW t \in Tasks, MarkDispatching(t) PROVE TypeOK'
  <2>1. CASE <<content[ord[t]], "dispatching">> \in ContentTransition
    BY <1>13, <2>1 DEF TypeOK, MarkDispatching, Touched, Goto, cardVars,
                       accountVars, processVars, frame, TaskStates,
                       ContentStates, ReviewStates
  <2>2. CASE <<content[ord[t]], "dispatching">> \notin ContentTransition
    <3>1. /\ Leave(t)
          /\ UNCHANGED <<rowVars, open, done, guard, issue, cardVars,
                         accountVars, processVars, copies>>
      BY <1>13, <2>2 DEF MarkDispatching, rowVars
    <3> QED
      BY <3>1 DEF TypeOK, Leave, Goto, rowVars, cardVars, accountVars,
                  processVars, TaskStates, Results
  <2> QED BY <2>1, <2>2
<1>14. ASSUME NEW t \in Tasks, Barrier(t) PROVE TypeOK'
  BY <1>14 DEF TypeOK, Barrier, Goto, durable, rowVars, cardVars,
               accountVars, processVars, frame, TaskStates, Results
<1>15. ASSUME NEW t \in Tasks, NEW reaches \in BOOLEAN, Submit(t, reaches)
       PROVE  TypeOK'
  BY <1>15 DEF TypeOK, Submit, Goto, durable, rowVars, cardVars,
               accountVars, processVars, frame, TaskStates
<1>16. ASSUME NEW t \in Tasks, NEW r \in Outcomes, Answer(t, r) PROVE TypeOK'
  <2>1. CASE r = "error"
    BY <1>16, <2>1, ZenonT(30) DEF TypeOK, Answer, Leave, Goto, durable, rowVars, cardVars,
                       accountVars, processVars, TaskStates, Results
  <2>2. CASE r # "error"
    BY <1>16, <2>2, OutcomesAssumption, SMTT(30)
       DEF TypeOK, Answer, Goto, durable, rowVars, cardVars, accountVars,
           processVars, frame, TaskStates, Results
  <2> QED BY <2>1, <2>2
<1>17. ASSUME NEW t \in Tasks, FinishAttempt(t) PROVE TypeOK'
  <2>1. AttemptOf(res[t]) \in FinishedStates
    BY DEF AttemptOf, FinishedStates
  <2>2. cardState' \in [Cards -> {"available", "reserved", "used"}]
        /\ cardOwner' \in [Cards -> Orders \cup {NoOrder}]
    BY <1>17 DEF TypeOK, FinishAttempt, ConsumeCards, cardVars
  <2> QED
    BY <1>17, <2>1, <2>2
       DEF TypeOK, FinishAttempt, Goto, rowVars, accountVars, processVars,
           frame, TaskStates
<1>18. ASSUME NEW t \in Tasks, RecordContent(t) PROVE TypeOK'
  <2> DEFINE r == Budgeted(res[t], retries[ord[t]])
  <2>1. CASE <<content[ord[t]], ContentOf(r)>> \in ContentTransition
    <3>1. r \in Results
      BY DEF TypeOK, Budgeted, Results
    <3>2. ContentOf(r) \in ContentStates /\ ReviewOf(r) \in ReviewStates
      BY <3>1 DEF ContentOf, ReviewOf, Results, ContentStates, ReviewStates
    <3>3. retries' \in [Orders -> 0..RetryCap]
      BY <1>18, <2>1, RetriesAssumption DEF TypeOK, RecordContent, RetryCap
    <3> HIDE DEF r
    <3>4. res' = [res EXCEPT ![t] = r]
          /\ content' = [content EXCEPT ![ord[t]] = ContentOf(r)]
          /\ review' = [review EXCEPT ![ord[t]] = ReviewOf(r)]
      BY <1>18, <2>1 DEF RecordContent, r
    <3> QED
      BY <1>18, <2>1, <3>1, <3>2, <3>3, <3>4
         DEF TypeOK, RecordContent, Touched, Goto, cardVars, accountVars,
             processVars, frame, TaskStates, r
  <2>2. CASE <<content[ord[t]], ContentOf(r)>> \notin ContentTransition
    <3>1. /\ Leave(t)
          /\ UNCHANGED <<rowVars, open, done, guard, issue, cardVars,
                         accountVars, processVars, copies>>
      BY <1>18, <2>2 DEF RecordContent, rowVars, r
    <3> QED
      BY <3>1 DEF TypeOK, Leave, Goto, rowVars, cardVars, accountVars,
                  processVars, TaskStates, Results
  <2> QED BY <2>1, <2>2
<1>19. ASSUME NEW t \in Tasks, FreeGuard(t) PROVE TypeOK'
  <2>1. GuardOf(res[t]) \in GuardStates
    BY DEF GuardOf, GuardStates
  <2>2. CASE OpensIssue(res[t])
    BY <1>19, <2>1, <2>2
       DEF TypeOK, FreeGuard, Goto, rowVars, cardVars, accountVars,
           processVars, frame, TaskStates
  <2>3. CASE ~OpensIssue(res[t])
    BY <1>19, <2>1, <2>3, ZenonT(30)
       DEF TypeOK, FreeGuard, Leave, Goto, rowVars, cardVars, accountVars,
           processVars, TaskStates, Results
  <2> QED BY <2>2, <2>3
<1>20. ASSUME NEW t \in Tasks, OpenIssue(t) PROVE TypeOK'
  <2>1. cardState' \in [Cards -> {"available", "reserved", "used"}]
        /\ cardOwner' \in [Cards -> Orders \cup {NoOrder}]
    BY <1>20 DEF TypeOK, OpenIssue, ReleaseCards, cardVars
  <2> QED
    BY <1>20, <2>1 DEF TypeOK, OpenIssue, Leave, Goto, rowVars, accountVars,
                       processVars, TaskStates, Results
<1>21. CASE Control
  <2>1. ASSUME NEW e \in BOOLEAN, NEW keepOnline \in BOOLEAN,
               SetSwitches(e, keepOnline)
        PROVE  TypeOK'
    <3>1. online' \in BOOLEAN
      BY <2>1 DEF SetSwitches
    <3>2. controls' \in 0..MaxControls
      BY <2>1, ControlsAssumption DEF SetSwitches, TypeOK
    <3>3. /\ enabled' \in BOOLEAN /\ current' = {}
          /\ UNCHANGED <<durable, phase, crashes, copies, frame, pc, fresh, res>>
      BY <2>1 DEF SetSwitches
    <3> QED
      BY <3>1, <3>2, <3>3 DEF TypeOK, durable, rowVars, cardVars, frame
  <2>2. CASE ObserveOffline
    <3>1. /\ online' \in BOOLEAN
          /\ UNCHANGED <<durable, enabled, phase, crashes, copies, frame, pc,
                         fresh, current, res>>
      BY <2>2 DEF ObserveOffline
    <3>2. controls' \in 0..MaxControls
      BY <2>2, ControlsAssumption DEF ObserveOffline, TypeOK
    <3> QED
      BY <3>1, <3>2 DEF TypeOK, durable, rowVars, cardVars, frame
  <2>3. CASE ObserveOnline
    BY <2>3 DEF TypeOK, ObserveOnline, durable, rowVars, cardVars,
                processVars, frame
  <2> QED BY <1>21, <2>1, <2>2, <2>3 DEF Control
<1>22. CASE Crash
  <2>1. /\ online' \in BOOLEAN /\ phase' \in {"boot", "up"}
        /\ UNCHANGED <<durable, enabled, controls, copies>>
    BY <1>22 DEF Crash
  <2>2. crashes' \in 0..MaxCrashes
    BY <1>22, CrashesAssumption DEF Crash, TypeOK
  <2>3. Forget
    BY <1>22 DEF Crash
  <2> QED
    BY <2>1, <2>2, <2>3
       DEF TypeOK, Forget, durable, rowVars, cardVars, TaskStates, Results
<1>23. ASSUME NEW o \in Orders, NEW kind \in Kinds, BootRecover(o, kind)
       PROVE  TypeOK'
  BY <1>23 DEF TypeOK, BootRecover, Recovered, cardVars, accountVars,
               processVars, frame, FinishedStates, ContentStates,
               ReviewStates, GuardStates
<1>24. CASE BootDone
  BY <1>24 DEF TypeOK, BootDone, durable, rowVars, cardVars, accountVars, frame
<1>25. CASE UNCHANGED vars
  BY <1>25 DEF TypeOK, vars, durable, rowVars, cardVars, accountVars,
               processVars, frame
<1> QED
  BY <1>1, <1>2, <1>3, <1>4, <1>5, <1>6, <1>7, <1>8, <1>9, <1>10, <1>11,
     <1>12, <1>13, <1>14, <1>15, <1>16, <1>17, <1>18, <1>19, <1>20, <1>21,
     <1>22, <1>23, <1>24, <1>25
     DEF Next, Step, Restart

\* Every reachable state has the types the module declares: a row or a frame
\* of `handle` never takes a value outside the source's enumerations.
THEOREM TypeCorrect == Spec => []TypeOK
BY TypeInit, TypeStep, PTL DEF Spec

-----------------------------------------------------------------------------
(* The inductive invariant.  The step that carries the argument is that two *)
(* tasks between acquire_guard and release_guard work for different orders, *)
(* so that nobody writes the row, the attempt or the guard of an order      *)
(* behind the back of the task that executes it.                            *)

\* A step that leaves the guards alone, and after which a task is inside only
\* if it was so before, for the same order, keeps the exclusion.
LEMMA StillAlone ==
    ASSUME MutualExclusion, guard' = guard,
           \A u \in Tasks : HoldsGuard(u)' => HoldsGuard(u) /\ ord'[u] = ord[u]
    PROVE  MutualExclusion'
BY DEF MutualExclusion

\* No step breaks what a task relies on.
LEMMA DispatchStep ==
    TypeOK /\ DispatchInv /\ [Next]_vars => DispatchInv'
<1> SUFFICES ASSUME TypeOK, DispatchInv, [Next]_vars PROVE DispatchInv'
  OBVIOUS
<1>1. ASSUME NEW t \in Tasks, NEW o \in Orders, NEW ok \in BOOLEAN,
             Load(t, o, ok) PROVE DispatchInv'
  BY <1>1 DEF TypeOK, DispatchInv, Located, MutualExclusion, HoldsGuard,
         AttemptIsOpen, StageIsTrue, NothingOutYet, AtMostOneCopy,
         ContentIsTrue, RecordedBeforeSent, Load, Goto, durable, rowVars,
         processVars
<1>2. ASSUME NEW t \in Tasks, CreateInitial(t) PROVE DispatchInv'
  <2>1. Located'
    BY <1>2 DEF DispatchInv, TypeOK, Located, CreateInitial, Goto,
           processVars, frame
  <2>2. MutualExclusion'
    BY <1>2 DEF DispatchInv, TypeOK, Located, MutualExclusion, HoldsGuard,
           CreateInitial, Goto, processVars, frame
  <2>3. AttemptIsOpen'
    BY <1>2 DEF DispatchInv, TypeOK, Located, AttemptIsOpen, MutualExclusion,
           HoldsGuard, CreateInitial, Goto, processVars, frame
  <2>4. StageIsTrue'
    BY <1>2 DEF DispatchInv, TypeOK, Located, StageIsTrue, MutualExclusion,
           HoldsGuard, NothingOutYet, ContentIsTrue, CreateInitial, Goto,
           processVars, frame
  <2>5. (NothingOutYet /\ AtMostOneCopy /\ ContentIsTrue)'
    BY <1>2 DEF DispatchInv, TypeOK, Located, NothingOutYet, AtMostOneCopy,
           ContentIsTrue, StageIsTrue, AllowedStates, CreateInitial, Goto,
           processVars, frame
  <2>6. RecordedBeforeSent'
    BY <1>2 DEF DispatchInv, TypeOK, Located, RecordedBeforeSent,
           AttemptIsOpen, StageIsTrue, CreateInitial, Goto, processVars, frame
  <2> QED BY <2>1, <2>2, <2>3, <2>4, <2>5, <2>6 DEF DispatchInv
<1>3. ASSUME NEW t \in Tasks, FindInitial(t) PROVE DispatchInv'
  <2>1. Located'
    BY <1>3 DEF DispatchInv, TypeOK, Located, FindInitial, Goto, Leave,
           durable, rowVars, processVars, frame
  <2>2. MutualExclusion'
    <3>1. /\ guard' = guard
          /\ \A u \in Tasks : HoldsGuard(u)' => HoldsGuard(u) /\ ord'[u] = ord[u]
      BY <1>3 DEF FindInitial, TypeOK, HoldsGuard, Goto, Leave, durable, frame
    <3> QED BY <3>1, StillAlone DEF DispatchInv
  <2>3. AttemptIsOpen'
    BY <1>3 DEF DispatchInv, TypeOK, Located, AttemptIsOpen, MutualExclusion,
           HoldsGuard, FindInitial, Goto, Leave, durable, rowVars,
           processVars, frame
  <2>4. StageIsTrue'
    BY <1>3 DEF DispatchInv, TypeOK, Located, StageIsTrue, MutualExclusion,
           HoldsGuard, NothingOutYet, ContentIsTrue, FindInitial, Goto, Leave,
           durable, rowVars, processVars, frame
  <2>5. (NothingOutYet /\ AtMostOneCopy /\ ContentIsTrue)'
    BY <1>3 DEF DispatchInv, TypeOK, Located, NothingOutYet, AtMostOneCopy,
           ContentIsTrue, StageIsTrue, AllowedStates, FindInitial, Goto,
           Leave, durable, rowVars, processVars, frame
  <2>6. RecordedBeforeSent'
    BY <1>3 DEF DispatchInv, TypeOK, Located, RecordedBeforeSent,
           AttemptIsOpen, StageIsTrue, FindInitial, Goto, Leave, durable,
           rowVars, processVars, frame
  <2> QED BY <2>1, <2>2, <2>3, <2>4, <2>5, <2>6 DEF DispatchInv
<1>4. ASSUME NEW t \in Tasks, Ineligible(t) PROVE DispatchInv'
  BY <1>4 DEF TypeOK, DispatchInv, Located, MutualExclusion, HoldsGuard,
         AttemptIsOpen, StageIsTrue, NothingOutYet, AtMostOneCopy,
         ContentIsTrue, RecordedBeforeSent, Ineligible, Goto, Leave, rowVars,
         processVars
<1>5. ASSUME NEW t \in Tasks, Probe(t) PROVE DispatchInv'
  BY <1>5 DEF TypeOK, DispatchInv, Located, MutualExclusion, HoldsGuard,
         AttemptIsOpen, StageIsTrue, NothingOutYet, AtMostOneCopy,
         ContentIsTrue, RecordedBeforeSent, Probe, Goto, durable, rowVars,
         processVars, frame
<1>6. ASSUME NEW t \in Tasks, Reserve(t) PROVE DispatchInv'
  BY <1>6 DEF TypeOK, DispatchInv, Located, MutualExclusion, HoldsGuard,
         AttemptIsOpen, StageIsTrue, NothingOutYet, AtMostOneCopy,
         ContentIsTrue, RecordedBeforeSent, Reserve, Goto, rowVars,
         processVars
<1>7. ASSUME NEW t \in Tasks, OutOfStock(t) PROVE DispatchInv'
  BY <1>7 DEF TypeOK, DispatchInv, Located, MutualExclusion, HoldsGuard,
         AttemptIsOpen, StageIsTrue, NothingOutYet, AtMostOneCopy,
         ContentIsTrue, RecordedBeforeSent, OutOfStock, Goto, Leave, rowVars,
         processVars
<1>8. ASSUME NEW t \in Tasks, SourceMissing(t) PROVE DispatchInv'
  BY <1>8 DEF TypeOK, DispatchInv, Located, MutualExclusion, HoldsGuard,
         AttemptIsOpen, StageIsTrue, NothingOutYet, AtMostOneCopy,
         ContentIsTrue, RecordedBeforeSent, SourceMissing, Goto, Leave,
         durable, rowVars, processVars
<1>9. ASSUME NEW t \in Tasks, BindSnapshot(t) PROVE DispatchInv'
  BY <1>9 DEF TypeOK, DispatchInv, Located, MutualExclusion, HoldsGuard,
         AttemptIsOpen, StageIsTrue, NothingOutYet, AtMostOneCopy,
         ContentIsTrue, RecordedBeforeSent, BindSnapshot, Goto, processVars,
         AllowedStates
<1>10. ASSUME NEW t \in Tasks, AcquireGuard(t) PROVE DispatchInv'
  <2>1. Located'
    BY <1>10 DEF DispatchInv, TypeOK, Located, AcquireGuard, Goto, Leave,
           rowVars, processVars, frame, Takeable
  <2>2. MutualExclusion'
    <3>1. CASE Takeable(ord[t])
      <4>1. /\ guard' = [guard EXCEPT ![ord[t]] = "active"]
            /\ pc' = [pc EXCEPT ![t] = "read"]
            /\ ord' = ord
            /\ guard[ord[t]] # "active"
        BY <1>10, <3>1 DEF AcquireGuard, Goto, frame, Takeable
      <4>2. pc[t] # "idle" /\ ord[t] \in Orders
        BY <1>10 DEF DispatchInv, Located, AcquireGuard
      <4> QED
        BY <4>1, <4>2 DEF DispatchInv, TypeOK, MutualExclusion, HoldsGuard
    <3>2. CASE ~Takeable(ord[t])
      BY <1>10, <3>2, SMTT(30) DEF DispatchInv, TypeOK, MutualExclusion, HoldsGuard,
             AcquireGuard, Goto, Leave
    <3> QED BY <3>1, <3>2
  <2>3. AttemptIsOpen'
    BY <1>10 DEF DispatchInv, TypeOK, Located, AttemptIsOpen, MutualExclusion,
           HoldsGuard, AcquireGuard, Goto, Leave, rowVars, processVars, frame,
           Takeable
  <2>4. StageIsTrue'
    BY <1>10 DEF DispatchInv, TypeOK, Located, StageIsTrue, MutualExclusion,
           HoldsGuard, NothingOutYet, ContentIsTrue, AcquireGuard, Goto,
           Leave, rowVars, processVars, frame, Takeable
  <2>5. (NothingOutYet /\ AtMostOneCopy /\ ContentIsTrue)'
    BY <1>10 DEF DispatchInv, TypeOK, Located, NothingOutYet, AtMostOneCopy,
           ContentIsTrue, StageIsTrue, AllowedStates, AcquireGuard, Goto,
           Leave, rowVars, processVars, frame, Takeable
  <2>6. RecordedBeforeSent'
    BY <1>10 DEF DispatchInv, TypeOK, Located, RecordedBeforeSent,
           AttemptIsOpen, StageIsTrue, AcquireGuard, Goto, Leave, rowVars,
           processVars, frame, Takeable
  <2> QED BY <2>1, <2>2, <2>3, <2>4, <2>5, <2>6 DEF DispatchInv
<1>11. ASSUME NEW t \in Tasks, ReadVersion(t) PROVE DispatchInv'
  BY <1>11 DEF TypeOK, DispatchInv, Located, MutualExclusion, HoldsGuard,
         AttemptIsOpen, StageIsTrue, NothingOutYet, AtMostOneCopy,
         ContentIsTrue, RecordedBeforeSent, ReadVersion, Goto, durable,
         rowVars, processVars, frame
<1>12. ASSUME NEW t \in Tasks, PrepareAttempt(t) PROVE DispatchInv'
  <2>1. Located'
    BY <1>12 DEF DispatchInv, TypeOK, Located, PrepareAttempt, Goto, rowVars,
           processVars, frame, CanPrepare, Inserted, AllowedStates
  <2>2. MutualExclusion'
    BY <1>12 DEF DispatchInv, TypeOK, Located, MutualExclusion, HoldsGuard,
           PrepareAttempt, Goto, rowVars, processVars, frame, CanPrepare,
           Inserted, AllowedStates
  <2>3. AttemptIsOpen'
    BY <1>12 DEF DispatchInv, TypeOK, Located, AttemptIsOpen, MutualExclusion,
           HoldsGuard, PrepareAttempt, Goto, rowVars, processVars, frame,
           CanPrepare, Inserted, AllowedStates
  <2>4. StageIsTrue'
    BY <1>12 DEF DispatchInv, TypeOK, Located, StageIsTrue, MutualExclusion,
           HoldsGuard, NothingOutYet, ContentIsTrue, PrepareAttempt, Goto,
           rowVars, processVars, frame, CanPrepare, Inserted, AllowedStates
  <2>5. (NothingOutYet /\ AtMostOneCopy /\ ContentIsTrue)'
    BY <1>12 DEF DispatchInv, TypeOK, Located, NothingOutYet, AtMostOneCopy,
           ContentIsTrue, StageIsTrue, AllowedStates, PrepareAttempt, Goto,
           rowVars, processVars, frame, CanPrepare, Inserted
  <2>6. RecordedBeforeSent'
    BY <1>12 DEF DispatchInv, TypeOK, Located, RecordedBeforeSent,
           AttemptIsOpen, StageIsTrue, PrepareAttempt, Goto, rowVars,
           processVars, frame, CanPrepare, Inserted, AllowedStates
  <2> QED BY <2>1, <2>2, <2>3, <2>4, <2>5, <2>6 DEF DispatchInv
<1>13. ASSUME NEW t \in Tasks, MarkDispatching(t) PROVE DispatchInv'
  <2>1. Located'
    BY <1>13 DEF DispatchInv, TypeOK, Located, MarkDispatching, Goto, Leave,
           processVars, frame, ContentTransition
  <2>2. MutualExclusion'
    <3>1. /\ guard' = guard
          /\ \A u \in Tasks : HoldsGuard(u)' => HoldsGuard(u) /\ ord'[u] = ord[u]
      BY <1>13 DEF MarkDispatching, TypeOK, HoldsGuard, Goto, Leave, frame
    <3> QED BY <3>1, StillAlone DEF DispatchInv
  <2>3. AttemptIsOpen'
    BY <1>13 DEF DispatchInv, TypeOK, Located, AttemptIsOpen, MutualExclusion,
           HoldsGuard, MarkDispatching, Goto, Leave, processVars, frame,
           ContentTransition
  <2>4. StageIsTrue'
    BY <1>13 DEF DispatchInv, TypeOK, Located, StageIsTrue, MutualExclusion,
           HoldsGuard, NothingOutYet, ContentIsTrue, MarkDispatching, Goto,
           Leave, processVars, frame, ContentTransition, AllowedStates
  <2>5. (NothingOutYet /\ AtMostOneCopy /\ ContentIsTrue)'
    BY <1>13 DEF DispatchInv, TypeOK, Located, NothingOutYet, AtMostOneCopy,
           ContentIsTrue, StageIsTrue, AllowedStates, MarkDispatching, Goto,
           Leave, processVars, frame, ContentTransition
  <2>6. RecordedBeforeSent'
    BY <1>13 DEF DispatchInv, TypeOK, Located, RecordedBeforeSent,
           AttemptIsOpen, StageIsTrue, MarkDispatching, Goto, Leave,
           processVars, frame, ContentTransition
  <2> QED BY <2>1, <2>2, <2>3, <2>4, <2>5, <2>6 DEF DispatchInv
<1>14. ASSUME NEW t \in Tasks, Barrier(t) PROVE DispatchInv'
  BY <1>14, SMTT(30) DEF TypeOK, DispatchInv, Located, MutualExclusion, HoldsGuard,
         AttemptIsOpen, StageIsTrue, NothingOutYet, AtMostOneCopy,
         ContentIsTrue, RecordedBeforeSent, Barrier, Goto, durable, rowVars,
         processVars, frame
<1>15. ASSUME NEW t \in Tasks, NEW reaches \in BOOLEAN, Submit(t, reaches) PROVE DispatchInv'
  <2>1. Located'
    BY <1>15 DEF DispatchInv, TypeOK, Located, Submit, Goto, durable, rowVars,
           processVars, frame
  <2>2. MutualExclusion'
    BY <1>15, SMTT(30) DEF DispatchInv, TypeOK, Located, MutualExclusion, HoldsGuard,
           Submit, Goto, durable, rowVars, processVars, frame
  <2>3. AttemptIsOpen'
    BY <1>15 DEF DispatchInv, TypeOK, Located, AttemptIsOpen, MutualExclusion,
           HoldsGuard, Submit, Goto, durable, rowVars, processVars, frame
  <2>4. StageIsTrue'
    BY <1>15 DEF DispatchInv, TypeOK, Located, StageIsTrue, MutualExclusion,
           HoldsGuard, NothingOutYet, ContentIsTrue, Submit, Goto, durable,
           rowVars, processVars, frame
  <2>5. (NothingOutYet /\ AtMostOneCopy /\ ContentIsTrue)'
    BY <1>15 DEF DispatchInv, TypeOK, Located, NothingOutYet, AtMostOneCopy,
           ContentIsTrue, StageIsTrue, AllowedStates, Submit, Goto, durable,
           rowVars, processVars, frame
  <2>6. RecordedBeforeSent'
    BY <1>15 DEF DispatchInv, TypeOK, Located, RecordedBeforeSent,
           AttemptIsOpen, StageIsTrue, Submit, Goto, durable, rowVars,
           processVars, frame
  <2> QED BY <2>1, <2>2, <2>3, <2>4, <2>5, <2>6 DEF DispatchInv
<1>16. ASSUME NEW t \in Tasks, NEW r \in Outcomes, Answer(t, r) PROVE DispatchInv'
  <2>1. Located'
    BY <1>16 DEF DispatchInv, TypeOK, Located, Answer, Goto, Leave, durable,
           rowVars, processVars, frame
  <2>2. MutualExclusion'
    <3>1. /\ guard' = guard
          /\ \A u \in Tasks : HoldsGuard(u)' => HoldsGuard(u) /\ ord'[u] = ord[u]
      BY <1>16 DEF Answer, TypeOK, HoldsGuard, Goto, Leave, durable, frame
    <3> QED BY <3>1, StillAlone DEF DispatchInv
  <2>3. AttemptIsOpen'
    BY <1>16 DEF DispatchInv, TypeOK, Located, AttemptIsOpen, MutualExclusion,
           HoldsGuard, Answer, Goto, Leave, durable, rowVars, processVars,
           frame
  <2>4. StageIsTrue'
    BY <1>16 DEF DispatchInv, TypeOK, Located, StageIsTrue, MutualExclusion,
           HoldsGuard, NothingOutYet, ContentIsTrue, Answer, Consistent,
           Goto, Leave, durable, rowVars, processVars, frame
  <2>5. (NothingOutYet /\ AtMostOneCopy /\ ContentIsTrue)'
    BY <1>16 DEF DispatchInv, TypeOK, Located, NothingOutYet, AtMostOneCopy,
           ContentIsTrue, StageIsTrue, AllowedStates, Answer, Goto, Leave,
           durable, rowVars, processVars, frame
  <2>6. RecordedBeforeSent'
    BY <1>16 DEF DispatchInv, TypeOK, Located, RecordedBeforeSent,
           AttemptIsOpen, StageIsTrue, Answer, Goto, Leave, durable, rowVars,
           processVars, frame
  <2> QED BY <2>1, <2>2, <2>3, <2>4, <2>5, <2>6 DEF DispatchInv
<1>17. ASSUME NEW t \in Tasks, FinishAttempt(t) PROVE DispatchInv'
  <2>1. Located'
    BY <1>17 DEF DispatchInv, TypeOK, Located, FinishAttempt, Goto, rowVars,
           processVars, frame, AttemptOf
  <2>2. MutualExclusion'
    BY <1>17 DEF DispatchInv, TypeOK, Located, MutualExclusion, HoldsGuard,
           FinishAttempt, Goto, rowVars, processVars, frame, AttemptOf
  <2>3. AttemptIsOpen'
    BY <1>17 DEF DispatchInv, TypeOK, Located, AttemptIsOpen, MutualExclusion,
           HoldsGuard, FinishAttempt, Goto, rowVars, processVars, frame,
           AttemptOf
  <2>4. StageIsTrue'
    BY <1>17 DEF DispatchInv, TypeOK, Located, StageIsTrue, MutualExclusion,
           HoldsGuard, NothingOutYet, ContentIsTrue, FinishAttempt, Goto,
           rowVars, processVars, frame, AttemptOf
  <2>5. (NothingOutYet /\ AtMostOneCopy /\ ContentIsTrue)'
    BY <1>17 DEF DispatchInv, TypeOK, Located, NothingOutYet, AtMostOneCopy,
           ContentIsTrue, StageIsTrue, AllowedStates, FinishAttempt, Goto,
           rowVars, processVars, frame, AttemptOf
  <2>6. RecordedBeforeSent'
    <3>1. /\ ord[t] \in Orders /\ UNCHANGED copies
          /\ res[t] \notin {"accepted", "unknown"} => copies[ord[t]] = 0
      BY <1>17 DEF FinishAttempt, DispatchInv, Located, StageIsTrue
    <3>2. /\ open' = [open EXCEPT ![ord[t]] = @ \ {"initial"}]
          /\ done' = [done EXCEPT ![ord[t]] = @ \cup {AttemptOf(res[t])}]
      BY <1>17 DEF FinishAttempt
    <3>3. res[t] \in {"accepted", "unknown"} => AttemptOf(res[t]) = res[t]
      BY DEF AttemptOf
    <3> QED BY <3>1, <3>2, <3>3 DEF RecordedBeforeSent, DispatchInv, TypeOK
  <2> QED BY <2>1, <2>2, <2>3, <2>4, <2>5, <2>6 DEF DispatchInv
<1>18. ASSUME NEW t \in Tasks, RecordContent(t) PROVE DispatchInv'
  <2>1. Located'
    BY <1>18 DEF DispatchInv, TypeOK, Located, RecordContent, Goto, Leave,
           processVars, frame, ContentTransition, ContentOf, Budgeted
  <2>2. MutualExclusion'
    <3>1. /\ guard' = guard
          /\ \A u \in Tasks : HoldsGuard(u)' => HoldsGuard(u) /\ ord'[u] = ord[u]
      BY <1>18 DEF RecordContent, TypeOK, HoldsGuard, Goto, Leave, frame
    <3> QED BY <3>1, StillAlone DEF DispatchInv
  <2>3. AttemptIsOpen'
    BY <1>18 DEF DispatchInv, TypeOK, Located, AttemptIsOpen, MutualExclusion,
           HoldsGuard, RecordContent, Goto, Leave, processVars, frame,
           ContentTransition, ContentOf, Budgeted
  <2>4. StageIsTrue'
    BY <1>18 DEF DispatchInv, TypeOK, Located, StageIsTrue, MutualExclusion,
           HoldsGuard, NothingOutYet, ContentIsTrue, RecordContent, Goto,
           Leave, processVars, frame, ContentTransition, ContentOf, Budgeted
  <2>5. (NothingOutYet /\ AtMostOneCopy /\ ContentIsTrue)'
    BY <1>18 DEF DispatchInv, TypeOK, Located, NothingOutYet, AtMostOneCopy,
           ContentIsTrue, StageIsTrue, AllowedStates, RecordContent, Goto,
           Leave, processVars, frame, ContentTransition, ContentOf, Budgeted
  <2>6. RecordedBeforeSent'
    BY <1>18 DEF DispatchInv, TypeOK, Located, RecordedBeforeSent,
           AttemptIsOpen, StageIsTrue, RecordContent, Goto, Leave,
           processVars, frame, ContentTransition, ContentOf, Budgeted
  <2> QED BY <2>1, <2>2, <2>3, <2>4, <2>5, <2>6 DEF DispatchInv
<1>19. ASSUME NEW t \in Tasks, FreeGuard(t) PROVE DispatchInv'
  <2>1. Located'
    BY <1>19 DEF DispatchInv, TypeOK, Located, FreeGuard, Goto, Leave,
           rowVars, processVars, frame, GuardOf
  <2>2. MutualExclusion'
    <3>1. /\ HoldsGuard(t) /\ ord[t] \in Orders
          /\ guard' = [guard EXCEPT ![ord[t]] = GuardOf(res[t])]
      BY <1>19 DEF FreeGuard, HoldsGuard, DispatchInv, Located
    <3>2. \A u \in Tasks : HoldsGuard(u)' =>
              u # t /\ HoldsGuard(u) /\ ord'[u] = ord[u]
      BY <1>19 DEF FreeGuard, TypeOK, HoldsGuard, Goto, Leave, frame
    <3>3. \A u \in Tasks : u # t /\ HoldsGuard(u) => ord[u] # ord[t]
      BY <3>1 DEF DispatchInv, MutualExclusion
    <3>4. \A p \in Orders : p # ord[t] => guard'[p] = guard[p]
      BY <3>1 DEF TypeOK
    <3>5. \A u \in Tasks : HoldsGuard(u)' => guard'[ord'[u]] = "active"
      <4> SUFFICES ASSUME NEW u \in Tasks, HoldsGuard(u)'
                   PROVE  guard'[ord'[u]] = "active"
        OBVIOUS
      <4>1. HoldsGuard(u) /\ ord'[u] = ord[u] /\ ord[u] # ord[t]
        BY <3>2, <3>3
      <4>2. ord[u] \in Orders /\ guard[ord[u]] = "active"
        BY <4>1 DEF DispatchInv, Located, MutualExclusion, HoldsGuard
      <4> QED BY <3>4, <4>1, <4>2
    <3>6. \A u, w \in Tasks :
              HoldsGuard(u)' /\ HoldsGuard(w)' /\ ord'[u] = ord'[w] => u = w
      BY <3>2 DEF DispatchInv, MutualExclusion
    <3> QED BY <3>5, <3>6 DEF MutualExclusion
  <2>3. AttemptIsOpen'
    BY <1>19 DEF DispatchInv, TypeOK, Located, AttemptIsOpen, MutualExclusion,
           HoldsGuard, FreeGuard, Goto, Leave, rowVars, processVars, frame,
           GuardOf
  <2>4. StageIsTrue'
    BY <1>19 DEF DispatchInv, TypeOK, Located, StageIsTrue, MutualExclusion,
           HoldsGuard, NothingOutYet, ContentIsTrue, FreeGuard, Goto, Leave,
           rowVars, processVars, frame, GuardOf
  <2>5. (NothingOutYet /\ AtMostOneCopy /\ ContentIsTrue)'
    BY <1>19 DEF DispatchInv, TypeOK, Located, NothingOutYet, AtMostOneCopy,
           ContentIsTrue, StageIsTrue, AllowedStates, FreeGuard, Goto, Leave,
           rowVars, processVars, frame, GuardOf
  <2>6. RecordedBeforeSent'
    BY <1>19 DEF DispatchInv, TypeOK, Located, RecordedBeforeSent,
           AttemptIsOpen, StageIsTrue, FreeGuard, Goto, Leave, rowVars,
           processVars, frame, GuardOf
  <2> QED BY <2>1, <2>2, <2>3, <2>4, <2>5, <2>6 DEF DispatchInv
<1>20. ASSUME NEW t \in Tasks, OpenIssue(t) PROVE DispatchInv'
  BY <1>20 DEF TypeOK, DispatchInv, Located, MutualExclusion, HoldsGuard,
         AttemptIsOpen, StageIsTrue, NothingOutYet, AtMostOneCopy,
         ContentIsTrue, RecordedBeforeSent, OpenIssue, Goto, Leave, rowVars,
         processVars
<1>21. CASE Control
  BY <1>21 DEF Control, SetSwitches, ObserveOffline, ObserveOnline, DispatchInv,
         Located, MutualExclusion, HoldsGuard, AttemptIsOpen, StageIsTrue,
         NothingOutYet, AtMostOneCopy, ContentIsTrue, RecordedBeforeSent,
         durable, rowVars, processVars, frame
<1>22. CASE Crash
  <2>1. /\ UNCHANGED <<content, open, done, copies>>
        /\ \A t \in Tasks : pc'[t] = "idle"
    BY <1>22 DEF Crash, Forget, durable, rowVars
  <2> QED
    BY <2>1 DEF DispatchInv, Located, MutualExclusion, HoldsGuard, AttemptIsOpen,
           StageIsTrue, NothingOutYet, AtMostOneCopy, ContentIsTrue,
           RecordedBeforeSent
<1>23. ASSUME NEW o \in Orders, NEW kind \in Kinds, BootRecover(o, kind)
       PROVE  DispatchInv'
  <2>1. \A t \in Tasks : pc[t] = "idle" /\ pc'[t] = "idle"
    BY <1>23 DEF BootRecover, DispatchInv, Located
  <2>2. Located' /\ MutualExclusion' /\ AttemptIsOpen' /\ StageIsTrue'
    BY <2>1 DEF Located, MutualExclusion, HoldsGuard, AttemptIsOpen, StageIsTrue
  <2>3. (NothingOutYet /\ AtMostOneCopy /\ ContentIsTrue)'
    BY <1>23 DEF BootRecover, Recovered, TypeOK, DispatchInv, NothingOutYet,
           AtMostOneCopy, ContentIsTrue, AllowedStates
  <2>4. RecordedBeforeSent'
    BY <1>23 DEF BootRecover, TypeOK, DispatchInv, RecordedBeforeSent
  <2> QED BY <2>2, <2>3, <2>4 DEF DispatchInv
<1>24. CASE BootDone
  BY <1>24 DEF BootDone, DispatchInv, Located, MutualExclusion, HoldsGuard,
         AttemptIsOpen, StageIsTrue, NothingOutYet, AtMostOneCopy, ContentIsTrue,
         RecordedBeforeSent, durable, rowVars, frame
<1>25. CASE UNCHANGED vars
  BY <1>25 DEF vars, DispatchInv, Located, MutualExclusion, HoldsGuard,
         AttemptIsOpen, StageIsTrue, NothingOutYet, AtMostOneCopy, ContentIsTrue,
         RecordedBeforeSent, durable, rowVars, processVars, frame
<1> QED
  BY <1>1, <1>2, <1>3, <1>4, <1>5, <1>6, <1>7, <1>8, <1>9, <1>10, <1>11,
     <1>12, <1>13, <1>14, <1>15, <1>16, <1>17, <1>18, <1>19, <1>20, <1>21,
     <1>22, <1>23, <1>24, <1>25
     DEF Next, Step, Restart

\* What a task may rely on at each line of `dispatch` holds in every reachable
\* state, crashes and recoveries included.
THEOREM Inductive == Spec => []IInv
<1>1. Init => IInv
  <2>1. Init => TypeOK
    BY TypeInit
  <2>2. Init => DispatchInv
    BY DEF Init, DispatchInv, Located, MutualExclusion, HoldsGuard,
           AttemptIsOpen, StageIsTrue, NothingOutYet, AtMostOneCopy,
           ContentIsTrue, RecordedBeforeSent, AllowedStates
  <2> QED BY <2>1, <2>2 DEF IInv
<1>2. IInv /\ [Next]_vars => IInv'
  BY TypeStep, DispatchStep DEF IInv
<1> QED BY <1>1, <1>2, PTL DEF Spec

\* From acquire_guard to release_guard a caller of `handle` is alone on its
\* order, whatever the number of callers.
THEOREM GuardExcludes == Spec => []MutualExclusion
BY Inductive, PTL DEF IInv, DispatchInv

\* The automatic path sends the content of an order at most once.
THEOREM AtMostOnce == Spec => []AtMostOneCopy
BY Inductive, PTL DEF IInv, DispatchInv

\* The content state of a row never contradicts what the buyer received.
THEOREM RowsTellTheTruth == Spec => []ContentIsTrue
BY Inductive, PTL DEF IInv, DispatchInv

\* A message that is out is always on record.
THEOREM WrittenAhead == Spec => []RecordedBeforeSent
BY Inductive, PTL DEF IInv, DispatchInv

-----------------------------------------------------------------------------
(* Delivery implements DeliveryPromise.                                     *)

\* A step that changes neither what is out nor any content state stutters.
LEMMA Stutter == UNCHANGED <<content, copies>> => UNCHANGED Promise!vars
BY DEF Promise!vars, VerdictOf

\* Neither does one that moves a content state without settling it.
LEMMA SameVerdicts ==
    ASSUME copies' = copies,
           \A o \in Orders : VerdictOf(content'[o]) = VerdictOf(content[o])
    PROVE  UNCHANGED Promise!vars
BY DEF Promise!vars

\* Every step of the automatic delivery delivers an open order for the first
\* time, or states the truth about one, or changes nothing the promise sees.
LEMMA PromiseStep == IInv /\ [Next]_vars => [Promise!Next]_Promise!vars
<1> SUFFICES ASSUME IInv, [Next]_vars PROVE [Promise!Next]_Promise!vars
  OBVIOUS
<1> USE DEF IInv
<1>1. ASSUME NEW t \in Tasks, CreateInitial(t)
      PROVE  UNCHANGED Promise!vars
  <2>1. copies' = copies
        /\ \A o \in Orders :
             \/ content'[o] = content[o]
             \/ /\ content[o] = "absent"
                /\ content'[o] = "pending_verification"
    BY <1>1 DEF CreateInitial, TypeOK
  <2> QED BY <2>1, SameVerdicts DEF VerdictOf
<1>2. ASSUME NEW t \in Tasks, BindSnapshot(t)
      PROVE  UNCHANGED Promise!vars
  <2>1. copies' = copies
        /\ \A o \in Orders :
             \/ content'[o] = content[o]
             \/ /\ content[o] = "pending_verification"
                /\ content'[o] = "queued"
    BY <1>2 DEF BindSnapshot, TypeOK
  <2> QED BY <2>1, SameVerdicts DEF VerdictOf
<1>3. ASSUME NEW t \in Tasks, MarkDispatching(t)
      PROVE  UNCHANGED Promise!vars
  <2>1. copies' = copies
        /\ \A o \in Orders :
             \/ content'[o] = content[o]
             \/ /\ content[o] \in {"queued", "not_sent"}
                /\ content'[o] = "dispatching"
    BY <1>3 DEF MarkDispatching, TypeOK, ContentTransition
  <2> QED BY <2>1, SameVerdicts DEF VerdictOf
<1>4. ASSUME NEW t \in Tasks, NEW reaches \in BOOLEAN, Submit(t, reaches)
      PROVE  [Promise!Next]_Promise!vars
  <2> DEFINE o == ord[t]
  <2>1. o \in Orders /\ content[o] = "dispatching" /\ copies[o] = 0
    BY <1>4 DEF Submit, DispatchInv, Located, StageIsTrue
  <2>2. content' = content
    BY <1>4 DEF Submit, durable, rowVars
  <2>3. CASE reaches
    <3>1. copies' = [copies EXCEPT ![o] = 1]
      BY <1>4, <2>1, <2>3 DEF Submit, TypeOK
    <3>2. Promise!Deliver(o)
      BY <2>1, <2>2, <3>1 DEF Promise!Deliver, VerdictOf
    <3> QED BY <2>1, <3>2 DEF Promise!Next
  <2>4. CASE ~reaches
    BY <1>4, <2>2, <2>4, Stutter DEF Submit
  <2> QED BY <2>3, <2>4
<1>5. ASSUME NEW t \in Tasks, RecordContent(t)
      PROVE  [Promise!Next]_Promise!vars
  <2> DEFINE o == ord[t]
             r == Budgeted(res[t], retries[o])
  <2>1. /\ o \in Orders /\ content[o] = "dispatching"
        /\ res[t] = "accepted" => copies[o] = 1
    BY <1>5 DEF RecordContent, DispatchInv, Located, StageIsTrue
  <2>2. copies' = copies
    BY <1>5 DEF RecordContent
  <2>3. CASE content' = content
    BY <2>2, <2>3, Stutter
  <2>4. CASE content' = [content EXCEPT ![o] = ContentOf(r)]
    <3>1. CASE ContentOf(r) = "accepted"
      <4>1. copies[o] = 1
        BY <2>1, <3>1 DEF ContentOf, Budgeted
      <4>2. Promise!Assert(o)
        BY <2>1, <2>2, <2>4, <3>1, <4>1 DEF Promise!Assert, VerdictOf, TypeOK
      <4> QED BY <2>1, <4>2 DEF Promise!Next
    <3>2. CASE ContentOf(r) = "unknown"
      <4>1. Promise!Doubt(o)
        BY <2>1, <2>2, <2>4, <3>2 DEF Promise!Doubt, VerdictOf, TypeOK
      <4> QED BY <2>1, <4>1 DEF Promise!Next
    <3>3. CASE ContentOf(r) = "not_sent"
      <4>1. \A p \in Orders : VerdictOf(content'[p]) = VerdictOf(content[p])
        BY <2>1, <2>4, <3>3 DEF VerdictOf, TypeOK
      <4> QED BY <2>2, <4>1, SameVerdicts
    <3> QED BY <3>1, <3>2, <3>3 DEF ContentOf
  <2> QED BY <1>5, <2>3, <2>4 DEF RecordContent
<1>6. ASSUME NEW o \in Orders, NEW kind \in Kinds, BootRecover(o, kind)
      PROVE  [Promise!Next]_Promise!vars
  <2>1. copies' = copies /\ content' = [content EXCEPT ![o] = Recovered(@)]
    BY <1>6 DEF BootRecover
  <2>2. CASE content[o] = "dispatching"
    <3>1. Promise!Doubt(o)
      BY <2>1, <2>2 DEF Promise!Doubt, Recovered, VerdictOf, TypeOK
    <3> QED BY <3>1 DEF Promise!Next
  <2>3. CASE content[o] # "dispatching"
    BY <2>1, <2>3, SameVerdicts DEF Recovered, TypeOK
  <2> QED BY <2>2, <2>3
\* All the other steps leave the content states and the copies alone.
<1>7. ASSUME NEW t \in Tasks,
             \/ \E o \in Orders, ok \in BOOLEAN : Load(t, o, ok)
             \/ FindInitial(t) \/ Ineligible(t) \/ Probe(t) \/ Reserve(t)
             \/ OutOfStock(t) \/ SourceMissing(t)
             \/ AcquireGuard(t) \/ ReadVersion(t) \/ PrepareAttempt(t)
             \/ Barrier(t)
             \/ \E r \in Outcomes : Answer(t, r)
             \/ FinishAttempt(t) \/ FreeGuard(t) \/ OpenIssue(t)
      PROVE  UNCHANGED Promise!vars
  BY <1>7, Stutter
     DEF Load, FindInitial, Ineligible, Probe, Reserve, OutOfStock, SourceMissing,
         AcquireGuard, ReadVersion, PrepareAttempt, Barrier, Answer,
         FinishAttempt, FreeGuard, OpenIssue, durable, rowVars
<1>8. CASE Control \/ Crash \/ BootDone \/ UNCHANGED vars
  BY <1>8, Stutter
     DEF Control, SetSwitches, ObserveOffline, ObserveOnline, Crash, BootDone,
         vars, durable, rowVars
<1> QED
  BY <1>1, <1>2, <1>3, <1>4, <1>5, <1>6, <1>7, <1>8 DEF Next, Step, Restart

\* The automatic delivery, crashes and recoveries included, keeps the promise:
\* at most one copy, sent while nothing had been said of the order, and a
\* verdict that is true when given and never revised.
THEOREM Implements == Spec => KeepsPromise
<1>1. Init => Promise!Init
  BY DEF Init, Promise!Init, VerdictOf
<1> QED BY <1>1, Inductive, PromiseStep, PTL DEF Spec, KeepsPromise, Promise!Spec

-----------------------------------------------------------------------------
(* Unfinished attempts have somebody who finishes them, if the restart runs *)
(* the recovery and every error of send_text is classified.                 *)

Recovers == BootRuns /\ "error" \notin Outcomes

\* From prepare_attempt to finish_attempt.
Executing(t) == pc[t] \in {"mark", "barrier", "submit", "reached", "missed", "finish"}

\* The one who executes the attempt is still at it, and nothing stops it at
\* set_full_state.
AttendedInv ==
    /\ \A o \in Orders : phase = "up" /\ "initial" \in open[o] =>
           \E t \in Tasks : Executing(t) /\ ord[t] = o
    /\ \A t \in Tasks : pc[t] = "mark" => content[ord[t]] \in {"queued", "not_sent"}

\* The row stays as prepare_attempt found it until the task itself writes it.
LEMMA RowWaits ==
    ASSUME IInv, AttendedInv, [Next]_vars, NEW t \in Tasks, pc'[t] = "mark"
    PROVE  content'[ord'[t]] \in {"queued", "not_sent"}
  <1>1. TypeOK /\ Located /\ MutualExclusion /\ StageIsTrue
    BY DEF IInv, DispatchInv
  <1>2. ASSUME NEW u \in Tasks, (\E o \in Orders, ok \in BOOLEAN : Load(u, o, ok)) \/ Step(u)
        PROVE  content'[ord'[t]] \in {"queued", "not_sent"}
    <2>1. CASE u = t
      <3>1. PrepareAttempt(t)
        BY <1>1, <1>2, <2>1 DEF Load, Step, CreateInitial, FindInitial, Ineligible, Probe, Reserve,
               OutOfStock, SourceMissing, BindSnapshot, AcquireGuard, ReadVersion, MarkDispatching,
               Barrier, Submit, Answer, FinishAttempt, RecordContent, FreeGuard, OpenIssue, Leave,
               Goto, TypeOK
      <3> QED BY <1>1, <3>1 DEF PrepareAttempt, CanPrepare, AllowedStates, Goto, rowVars, frame, TypeOK
    <2>2. CASE u # t
      <3>1. pc[t] = "mark" /\ ord'[t] = ord[t]
        BY <1>1, <1>2, <2>2 DEF Load, Step, CreateInitial, FindInitial, Ineligible, Probe, Reserve,
               OutOfStock, SourceMissing, BindSnapshot, AcquireGuard, ReadVersion, PrepareAttempt,
               MarkDispatching, Barrier, Submit, Answer, FinishAttempt, RecordContent, FreeGuard,
               OpenIssue, Leave, Goto, frame, TypeOK
      <3>2. content[ord[t]] \in {"queued", "not_sent"} /\ HoldsGuard(t)
        BY <3>1 DEF AttendedInv, HoldsGuard
      <3>3. HoldsGuard(u) => ord[u] # ord[t]
        BY <1>1, <2>2, <3>2 DEF MutualExclusion
      <3>4. CASE CreateInitial(u) \/ BindSnapshot(u)
        BY <1>1, <3>1, <3>2, <3>4 DEF CreateInitial, BindSnapshot, TypeOK, Located
      <3>5. CASE MarkDispatching(u) \/ RecordContent(u)
        <4>1. HoldsGuard(u)
          BY <3>5 DEF MarkDispatching, RecordContent, HoldsGuard
        <4>2. \A o \in Orders : o # ord[u] => content'[o] = content[o]
          BY <1>1, <3>5 DEF MarkDispatching, RecordContent, TypeOK
        <4>3. ord[t] \in Orders
          BY <1>1, <3>1 DEF Located
        <4> QED BY <3>1, <3>2, <3>3, <4>1, <4>2, <4>3
      <3>6. CASE ~(CreateInitial(u) \/ BindSnapshot(u) \/ MarkDispatching(u) \/ RecordContent(u))
        <4>1. content' = content
          BY <1>2, <3>6 DEF Load, Step, FindInitial, Ineligible, Probe, Reserve, OutOfStock,
               SourceMissing, AcquireGuard, ReadVersion, PrepareAttempt, Barrier, Submit, Answer,
               FinishAttempt, FreeGuard, OpenIssue, durable, rowVars
        <4> QED BY <3>1, <3>2, <4>1
      <3> QED BY <3>4, <3>5, <3>6
    <2> QED BY <2>1, <2>2
  <1>3. CASE Control \/ BootDone \/ UNCHANGED vars
    <2>1. UNCHANGED <<content, pc, ord>>
      BY <1>3 DEF Control, SetSwitches, ObserveOffline, ObserveOnline, BootDone, vars, durable,
                  rowVars, frame
    <2> QED BY <2>1 DEF AttendedInv
  <1>4. CASE Crash \/ \E o \in Orders, kind \in Kinds : BootRecover(o, kind)
    <2>1. pc'[t] = "idle"
      BY <1>1, <1>4 DEF Crash, Forget, BootRecover, Located
    <2> QED BY <2>1
  <1> QED BY <1>2, <1>3, <1>4 DEF Next, Restart

LEMMA AttendedStep ==
    ASSUME IInv, AttendedInv, Recovers, [Next]_vars
    PROVE  AttendedInv'
  <1>1. TypeOK /\ Located /\ StageIsTrue
    BY DEF IInv, DispatchInv
  <1>2. SUFFICES ASSUME NEW o \in Orders, phase' = "up", "initial" \in open'[o]
                 PROVE  \E t \in Tasks : Executing(t)' /\ ord'[t] = o
    BY RowWaits DEF AttendedInv
  <1>3. ASSUME NEW u \in Tasks, PrepareAttempt(u), CanPrepare(u), ord[u] = o
        PROVE  \E t \in Tasks : Executing(t)' /\ ord'[t] = o
    <2>1. Executing(u)' /\ ord'[u] = o
      BY <1>1, <1>3 DEF PrepareAttempt, Executing, Goto, frame, TypeOK
    <2> QED BY <2>1
  <1>4. ASSUME NEW u \in Tasks, (\E p \in Orders, ok \in BOOLEAN : Load(u, p, ok)) \/ Step(u),
               ~(PrepareAttempt(u) /\ CanPrepare(u) /\ ord[u] = o)
        PROVE  \E t \in Tasks : Executing(t)' /\ ord'[t] = o
    <2>1. phase = "up" /\ "initial" \in open[o]
      <3>1. CASE PrepareAttempt(u) \/ FinishAttempt(u)
        BY <1>1, <1>2, <1>4, <3>1 DEF PrepareAttempt, FinishAttempt, Inserted, processVars, TypeOK,
               Located
      <3>2. CASE ~(PrepareAttempt(u) \/ FinishAttempt(u))
        BY <1>2, <1>4, <3>2 DEF Load, Step, CreateInitial, FindInitial, Ineligible, Probe, Reserve,
               OutOfStock, SourceMissing, BindSnapshot, AcquireGuard, ReadVersion, MarkDispatching,
               Barrier, Submit, Answer, RecordContent, FreeGuard, OpenIssue, durable, processVars
      <3> QED BY <3>1, <3>2
    <2>2. PICK t \in Tasks : Executing(t) /\ ord[t] = o
      BY <2>1 DEF AttendedInv
    <2>3. CASE u = t
      <3>1. ~FinishAttempt(t)
        <4>1. ASSUME FinishAttempt(t) PROVE FALSE
          BY <1>1, <1>2, <2>2, <4>1 DEF FinishAttempt, TypeOK
        <4> QED BY <4>1
      <3>2. CASE MarkDispatching(t)
        BY <1>1, <2>2, <3>2 DEF MarkDispatching, AttendedInv, ContentTransition, Executing, Goto,
               frame, TypeOK
      <3>3. CASE Barrier(t)
        BY <1>1, <2>2, <3>3 DEF Barrier, Executing, Goto, frame, TypeOK
      <3>4. ASSUME NEW reaches \in BOOLEAN, Submit(t, reaches)
            PROVE  Executing(t)' /\ ord'[t] = o
        BY <1>1, <2>2, <3>4 DEF Submit, Executing, Goto, frame, TypeOK
      <3>5. ASSUME NEW r \in Outcomes, Answer(t, r) PROVE Executing(t)' /\ ord'[t] = o
        <4>1. r # "error"
          BY DEF Recovers
        <4> QED BY <1>1, <2>2, <3>5, <4>1 DEF Answer, Executing, Goto, frame, TypeOK
      <3>6. ~ \E p \in Orders, ok \in BOOLEAN : Load(t, p, ok)
        BY <2>2 DEF Load, Executing
      <3>7. \/ MarkDispatching(t) \/ Barrier(t) \/ FinishAttempt(t)
            \/ \E reaches \in BOOLEAN : Submit(t, reaches)
            \/ \E r \in Outcomes : Answer(t, r)
        BY <1>4, <2>2, <2>3, <3>6 DEF Step, Executing, CreateInitial, FindInitial, Ineligible, Probe,
               Reserve, OutOfStock, SourceMissing, BindSnapshot, AcquireGuard, ReadVersion,
               PrepareAttempt, RecordContent, FreeGuard, OpenIssue
      <3> QED BY <3>1, <3>2, <3>3, <3>4, <3>5, <3>7
    <2>4. CASE u # t
      <3>1. pc'[t] = pc[t] /\ ord'[t] = ord[t]
        BY <1>1, <1>4, <2>4 DEF Load, Step, CreateInitial, FindInitial, Ineligible, Probe, Reserve,
               OutOfStock, SourceMissing, BindSnapshot, AcquireGuard, ReadVersion, PrepareAttempt,
               MarkDispatching, Barrier, Submit, Answer, FinishAttempt, RecordContent, FreeGuard,
               OpenIssue, Leave, Goto, frame, TypeOK
      <3> QED BY <2>2, <3>1 DEF Executing
    <2> QED BY <2>3, <2>4
  <1>5. CASE Control \/ UNCHANGED vars
    <2>1. UNCHANGED <<open, phase, pc, ord>>
      BY <1>5 DEF Control, SetSwitches, ObserveOffline, ObserveOnline, vars, durable, processVars,
                  frame
    <2>2. PICK t \in Tasks : Executing(t) /\ ord[t] = o
      BY <1>2, <2>1 DEF AttendedInv
    <2> QED BY <2>1, <2>2 DEF Executing
  <1>6. CASE Crash
    BY <1>2, <1>6 DEF Crash, Recovers
  <1>7. CASE \E p \in Orders, kind \in Kinds : BootRecover(p, kind)
    BY <1>2, <1>7 DEF BootRecover, processVars
  <1>8. CASE BootDone
    BY <1>2, <1>8 DEF BootDone, Unresolved, durable
  <1> QED BY <1>3, <1>4, <1>5, <1>6, <1>7, <1>8 DEF Next, Restart

\* With the recovery at every start, and no error of send_text that leaves
\* handle as it is: an attempt recorded as unfinished is being executed, so no
\* order is blocked by one that nobody will end.
THEOREM AttemptsAreAttended == ASSUME Recovers PROVE Spec => []NoOrphanAttempt
  <1>1. Init => AttendedInv
    BY DEF Init, AttendedInv
  <1>2. IInv /\ AttendedInv /\ [Next]_vars => AttendedInv'
    BY AttendedStep
  <1>3. AttendedInv => NoOrphanAttempt
    BY DEF AttendedInv, NoOrphanAttempt, Executing, HoldsGuard
  <1> QED BY <1>1, <1>2, <1>3, Inductive, PTL DEF Spec
=============================================================================

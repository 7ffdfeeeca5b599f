---------------------------- MODULE UpkeepProofs ----------------------------
(***************************************************************************)
(* Theorems about Verification and Intake, for any sessions, callers and   *)
(* budget of attempts, any orders and any signals of the platform, each    *)
(* alone and as MCUpkeep puts them together.                               *)
(***************************************************************************)
EXTENDS MCUpkeep, FiniteSetTheorems, SequenceTheorems, TLAPS

(* Intake *)

\* A signal of an order nobody knows is not remembered.
HeardWhenKnown == \A o \in Orders : status[o] = "absent" => heard[o] = {}

IntInv == IntTypeOK /\ HeardWhenKnown /\ IntakeSafe

\* What follows of the tables, whichever step wrote them.
TablesOK ==
    /\ status \in [Orders -> DOMAIN Rank \cup {"absent"}]
    /\ heard \in [Orders -> SUBSET Signals]
    /\ paid \subseteq Orders /\ initial \subseteq Orders
    /\ HeardWhenKnown /\ StatusIsHighest /\ paid \subseteq initial

-----------------------------------------------------------------------------
\* The order of the states, as a natural number.
LEMMA Ranks ==
    /\ DOMAIN Rank = {"unknown", "unpaid", "pending_ship", "shipped",
                      "completed", "canceled", "refunding", "refunded"}
    /\ \A s \in DOMAIN Rank : Rank[s] \in Nat
    /\ Rank["unknown"] = 0
    /\ "absent" \notin DOMAIN Rank
  BY DEF Rank

\* find_or_create leaves the tables in order.
LEMMA RowIsFine ==
    ASSUME TablesOK, NEW o \in Orders, status' = WithRow(o), UNCHANGED heard
    PROVE  /\ status' \in [Orders -> DOMAIN Rank \cup {"absent"}]
           /\ HeardWhenKnown' /\ StatusIsHighest'
  <1>1. status' \in [Orders -> DOMAIN Rank \cup {"absent"}]
    BY Ranks DEF TablesOK, WithRow
  <1>2. ASSUME NEW q \in Orders
        PROVE  status'[q] = status[q]
               \/ (status[q] = "absent" /\ status'[q] = "unknown")
    BY <1>2 DEF TablesOK, WithRow
  <1>3. HeardWhenKnown'
    BY <1>2, Ranks DEF TablesOK, HeardWhenKnown
  <1>4. ASSUME NEW q \in Orders, status'[q] # "absent"
        PROVE  /\ status'[q] \in heard'[q] \cup {"unknown"}
               /\ \A state \in heard'[q] : Rank[state] <= Rank[status'[q]]
    BY <1>2, <1>4, Ranks DEF TablesOK, HeardWhenKnown, StatusIsHighest
  <1> QED BY <1>1, <1>3, <1>4 DEF StatusIsHighest

\* The writes of handle, however many of them happen.
LEMMA HandledIsFine ==
    ASSUME TablesOK, NEW o \in Orders, NEW n \in 0..3, Handled(o, n)
    PROVE  TablesOK' /\ initial \subseteq initial' /\ (n >= 2 => o \in initial')
  <1>1. /\ paid' \subseteq Orders /\ initial' \subseteq Orders /\ paid' \subseteq initial'
        /\ initial \subseteq initial' /\ (n >= 2 => o \in initial')
        /\ heard' = heard /\ (status' = status \/ status' = WithRow(o))
    BY DEF TablesOK, Handled
  <1>2. /\ status' \in [Orders -> DOMAIN Rank \cup {"absent"}]
        /\ HeardWhenKnown' /\ StatusIsHighest'
    <2>1. CASE status' = status
      BY <1>1, <2>1 DEF TablesOK, HeardWhenKnown, StatusIsHighest
    <2>2. CASE status' = WithRow(o)
      BY <1>1, <2>2, RowIsFine
    <2> QED BY <1>1, <2>1, <2>2
  <1> QED BY <1>1, <1>2 DEF TablesOK

\* An error of handle, and its end.
LEMMA HandleIsFine ==
    ASSUME TablesOK, NEW o \in Orders, Done(o) \/ Failed(o)
    PROVE  TablesOK' /\ initial \subseteq initial' /\ (Done(o) => o \in initial')
  <1>1. CASE Done(o)
    <2>1. PICK n \in 2..3 : Handled(o, n)
      BY <1>1 DEF Done
    <2> QED BY <2>1, HandledIsFine
  <1>2. CASE Failed(o) /\ ~Done(o)
    <2>1. PICK n \in 0..3 : Handled(o, n)
      BY <1>2 DEF Failed
    <2> QED BY <1>2, <2>1, HandledIsFine
  <1> QED BY <1>1, <1>2

\* A state signal, whether it is passed over, remembered or followed.
LEMMA SignalIsFine ==
    ASSUME TablesOK, NEW o \in Orders, NEW state \in Signals, StateSignal(o, state)
    PROVE  TablesOK'
  <1>1. state \in DOMAIN Rank /\ Rank[state] \in Nat
    BY Ranks, SignalsAssumption
  <1>2. CASE status[o] = "absent"
    BY <1>2 DEF TablesOK, StateSignal, Advances, HeardWhenKnown, StatusIsHighest
  <1>3. CASE status[o] # "absent"
    <2>1. /\ heard' = [heard EXCEPT ![o] = @ \cup {state}]
          /\ heard' \in [Orders -> SUBSET Signals]
      BY <1>3 DEF StateSignal, TablesOK
    <2>2. status' \in [Orders -> DOMAIN Rank \cup {"absent"}]
      BY <1>1 DEF StateSignal, TablesOK
    <2>3. ASSUME NEW q \in Orders, q # o
          PROVE  status'[q] = status[q] /\ heard'[q] = heard[q]
      BY <2>1, <2>3 DEF StateSignal, TablesOK
    <2>4. status[o] \in DOMAIN Rank /\ Rank[status[o]] \in Nat
      BY <1>3, Ranks DEF TablesOK
    <2>5. heard'[o] = heard[o] \cup {state}
      BY <2>1 DEF TablesOK
    <2>6. \A s \in heard[o] : Rank[s] \in Nat
      BY Ranks, SignalsAssumption DEF TablesOK
    <2>7. \/ status'[o] = state /\ Rank[state] > Rank[status[o]]
          \/ status'[o] = status[o] /\ Rank[state] <= Rank[status[o]]
      <3>1. CASE Advances(o, state)
        BY <3>1 DEF StateSignal, TablesOK, Advances
      <3>2. CASE ~Advances(o, state)
        BY <1>1, <1>3, <2>4, <3>2 DEF StateSignal, Advances
      <3> QED BY <3>1, <3>2
    <2>8. /\ status'[o] \in heard'[o] \cup {"unknown"}
          /\ \A s \in heard'[o] : Rank[s] <= Rank[status'[o]]
      <3>1. /\ status[o] \in heard[o] \cup {"unknown"}
            /\ \A s \in heard[o] : Rank[s] <= Rank[status[o]]
        BY <1>3 DEF TablesOK, StatusIsHighest
      <3> QED BY <1>1, <2>4, <2>5, <2>6, <2>7, <3>1
    <2>9. HeardWhenKnown'
      <3>1. status'[o] # "absent"
        BY <1>1, <1>3, <2>7, Ranks
      <3> QED BY <2>3, <3>1 DEF TablesOK, HeardWhenKnown
    <2>10. StatusIsHighest'
      BY <2>3, <2>8 DEF TablesOK, StatusIsHighest
    <2> QED BY <2>1, <2>2, <2>9, <2>10 DEF TablesOK, StateSignal
  <1> QED BY <1>2, <1>3

-----------------------------------------------------------------------------
\* Nobody is known before anything has happened.
LEMMA IntakeInitially == IntInit => IntInv
  <1> SUFFICES ASSUME IntInit PROVE IntInv
    OBVIOUS
  <1>1. Cardinality({}) = 0
    BY FS_EmptySet
  <1>2. IntTypeOK
    <2>1. dispatch = {} /\ Cardinality(dispatch) <= 1
      BY <1>1 DEF IntInit
    <2>2. scan \in [pc : {"idle", "trace", "handle"}, given : SUBSET Orders,
                   left : SUBSET Orders]
      BY DEF IntInit, Resting
    <2> QED BY <2>1, <2>2 DEF IntInit, IntTypeOK
  <1>3. HeardWhenKnown /\ IntakeSafe
    BY DEF IntInit, HeardWhenKnown, IntakeSafe, StatusIsHighest, PaidHasTask,
           Candidates, CoverageIsTrue, Resting
  <1> QED BY <1>2, <1>3 DEF IntInv

\* Every step keeps the invariant.
LEMMA IntakeStep == IntInv /\ [IntNext]_intVars => IntInv'
  <1> SUFFICES ASSUME IntInv, [IntNext]_intVars PROVE IntInv'
    OBVIOUS
  <1> DEFINE WorkOK ==
        /\ sold \subseteq Orders /\ refused \subseteq Orders
        /\ dispatch \subseteq Orders /\ Cardinality(dispatch) <= 1
        /\ shut \in BOOLEAN
        /\ scan \in [pc : {"idle", "trace", "handle"}, given : SUBSET Orders,
                     left : SUBSET Orders]
  <1>1. TablesOK /\ WorkOK /\ CoverageIsTrue
    BY DEF IntInv, IntTypeOK, TablesOK, IntakeSafe, PaidHasTask
  <1>2. SUFFICES TablesOK' /\ WorkOK' /\ CoverageIsTrue'
    BY DEF IntInv, IntTypeOK, TablesOK, IntakeSafe, PaidHasTask, Candidates
  <1>3. \A o : Cardinality({o}) = 1
    BY FS_Singleton
  <1>4. Cardinality({}) = 0
    BY FS_EmptySet
  <1>5. UNCHANGED tableVars => TablesOK'
    BY <1>1 DEF tableVars, TablesOK, HeardWhenKnown, StatusIsHighest
  <1>6. initial \subseteq initial' /\ UNCHANGED scan => CoverageIsTrue'
    BY <1>1 DEF CoverageIsTrue
  <1>7. Resting \in [pc : {"idle", "trace", "handle"}, given : SUBSET Orders,
                     left : SUBSET Orders] /\ Resting.pc = "idle"
    BY DEF Resting
  <1> HIDE DEF WorkOK
  <1>8. ASSUME NEW o \in Orders, PaymentSignal(o) PROVE TablesOK' /\ WorkOK' /\ CoverageIsTrue'
    <2>1. TablesOK'
      <3>1. status' = WithRow(o) /\ UNCHANGED <<heard, paid, initial>>
        BY <1>8 DEF PaymentSignal
      <3> QED BY <1>1, <3>1, RowIsFine DEF TablesOK
    <2>2. WorkOK'
      BY <1>1, <1>3, <1>8 DEF PaymentSignal, WorkOK
    <2> QED BY <1>6, <1>8, <2>1, <2>2 DEF PaymentSignal
  <1>9. ASSUME NEW o \in Orders, NEW state \in Signals, StateSignal(o, state)
        PROVE  TablesOK' /\ WorkOK' /\ CoverageIsTrue'
    <2>1. WorkOK' /\ initial' = initial /\ scan' = scan
      BY <1>1, <1>9 DEF StateSignal, WorkOK
    <2> QED BY <1>1, <1>6, <1>9, <2>1, SignalIsFine
  <1>10. ASSUME NEW o \in Orders, Dispatch(o) PROVE TablesOK' /\ WorkOK' /\ CoverageIsTrue'
    <2>1. TablesOK' /\ initial \subseteq initial'
      BY <1>1, <1>10, HandleIsFine DEF Dispatch
    <2>2. WorkOK' /\ scan' = scan
      BY <1>1, <1>4, <1>10 DEF Dispatch, WorkOK
    <2> QED BY <1>6, <2>1, <2>2
  <1>11. ASSUME NEW o \in Orders, Buy(o) \/ Forget(o)
         PROVE  TablesOK' /\ WorkOK' /\ CoverageIsTrue'
    BY <1>1, <1>5, <1>6, <1>11 DEF Buy, Forget, WorkOK, tableVars
  <1>12. ASSUME Defer PROVE TablesOK' /\ WorkOK' /\ CoverageIsTrue'
    BY <1>1, <1>4, <1>5, <1>6, <1>12 DEF Defer, WorkOK, tableVars
  <1>13. ASSUME TurnGate PROVE TablesOK' /\ WorkOK' /\ CoverageIsTrue'
    BY <1>1, <1>5, <1>6, <1>13 DEF TurnGate, WorkOK, tableVars
  <1>20. ASSUME Crash PROVE TablesOK' /\ WorkOK' /\ CoverageIsTrue'
    <2>1. TablesOK' /\ CoverageIsTrue'
      BY <1>1, <1>5, <1>7, <1>20 DEF Crash, CoverageIsTrue
    <2>2. dispatch' = {} /\ Cardinality(dispatch') <= 1
      BY <1>4, <1>20 DEF Crash
    <2> QED BY <1>1, <1>7, <1>20, <2>1, <2>2 DEF Crash, WorkOK
  <1>14. ASSUME Compensate PROVE TablesOK' /\ WorkOK' /\ CoverageIsTrue'
    <2>1. PICK some \in SUBSET Candidates : initial' = initial \cup some
      BY <1>14 DEF Compensate
    <2>2. initial' \subseteq Orders /\ initial \subseteq initial'
      BY <1>1, <2>1 DEF TablesOK, Candidates
    <2>3. TablesOK'
      BY <1>1, <1>14, <2>2 DEF Compensate, TablesOK, HeardWhenKnown, StatusIsHighest
    <2>4. WorkOK' /\ CoverageIsTrue'
      BY <1>1, <1>14 DEF Compensate, WorkOK, CoverageIsTrue
    <2> QED BY <2>3, <2>4
  <1>15. ASSUME NEW list \in SUBSET sold, TraceSold(list)
         PROVE  TablesOK' /\ WorkOK' /\ CoverageIsTrue'
    BY <1>1, <1>5, <1>15 DEF TraceSold, WorkOK, CoverageIsTrue
  <1>16. ASSUME TraceFails \/ RecordCoverage PROVE TablesOK' /\ WorkOK' /\ CoverageIsTrue'
    BY <1>1, <1>5, <1>7, <1>16 DEF TraceFails, RecordCoverage, WorkOK, CoverageIsTrue
  <1>17. ASSUME NEW o \in Orders, TraceHandle(o) PROVE TablesOK' /\ WorkOK' /\ CoverageIsTrue'
    <2>1. TablesOK' /\ initial \subseteq initial' /\ o \in initial'
      BY <1>1, <1>17, HandleIsFine DEF TraceHandle
    <2>2. WorkOK' /\ CoverageIsTrue'
      BY <1>1, <1>17, <2>1 DEF TraceHandle, WorkOK, CoverageIsTrue
    <2> QED BY <2>1, <2>2
  <1>18. ASSUME NEW o \in Orders, TraceHandleFails(o)
         PROVE  TablesOK' /\ WorkOK' /\ CoverageIsTrue'
    <2>1. TablesOK'
      BY <1>1, <1>18, HandleIsFine DEF TraceHandleFails
    <2>2. WorkOK' /\ CoverageIsTrue'
      BY <1>1, <1>7, <1>18 DEF TraceHandleFails, AfterFailure, WorkOK, CoverageIsTrue
    <2> QED BY <2>1, <2>2
  <1>19. ASSUME UNCHANGED intVars PROVE TablesOK' /\ WorkOK' /\ CoverageIsTrue'
    BY <1>1, <1>5, <1>6, <1>19 DEF intVars, tableVars, WorkOK
  <1> QED
    BY <1>8, <1>9, <1>10, <1>11, <1>12, <1>13, <1>14, <1>15, <1>16, <1>17, <1>18, <1>19,
       <1>20
       DEF IntNext, ScanStep

\* The intake of orders is safe: the status of an order is the highest that was
\* signalled (apply_state_signal), facts of a payment are written of orders
\* with a delivery, and a scan that writes its row has left out no order it was
\* given (trace_all).
THEOREM IntakeIsSafe == IntSpec => []IntakeSafe
  <1>1. IntInv => IntakeSafe
    BY DEF IntInv
  <1> QED BY <1>1, IntakeInitially, IntakeStep, PTL DEF IntSpec

-----------------------------------------------------------------------------
(* Verification *)

InAttempt == {"solving", "saving", "keep", "lost", "again"}
AtWork == InAttempt \cup {"spawned", "attempt", "failed", "issue"}
Stations == AtWork \cup {"idle", "release", "remove", "ended"}

\* The gate and the entry, in terms of the sessions that run.
GateInv ==
    /\ held => \E s \in Sessions : Running(s) /\ task[s] # "remove"
    /\ entry # "none" => \E s \in Sessions : Running(s)
    /\ ~doubled =>
          /\ \A s, r \in Sessions : Running(s) /\ Running(r) => s = r
          /\ \A s \in Sessions : Running(s) => entry # "none"
          /\ \A s \in Sessions : Working(s) => held

\* Rows of verification_attempts: only the last may be open.
RowsFine(rows, open, excused, stored) ==
    \A n \in 1..Len(rows) :
        /\ rows[n] = "in_progress" => excused \/ (n = Len(rows) /\ open)
        /\ rows[n] = "succeeded" => stored

\* What a session has on record, by where it is.
Recorded(s) ==
    /\ task[s] = "spawned" => tries[s] = <<>>
    /\ task[s] = "attempt" => Len(tries[s]) <= MaxRetries
    /\ task[s] \in InAttempt =>
           Len(tries[s]) > 0 /\ tries[s][Len(tries[s])] = "in_progress"
    /\ task[s] = "keep" => s \in saved
    /\ task[s] \in {"release", "remove", "ended"} =>
           s \in saved \cup panicked \cup opened \cup closed
    /\ RowsFine(tries[s], task[s] \in InAttempt, s \in panicked, s \in saved)

VInv == VerTypeOK /\ GateInv /\ \A s \in Sessions : Recorded(s)

-----------------------------------------------------------------------------
(* Rows *)

\* A new attempt (verification::begin_attempt).
LEMMA RowAppended ==
    ASSUME NEW s, NEW q \in Seq(Outcome),
           RowsFine(q, FALSE, s \in panicked, s \in saved),
           NEW r, r = Append(q, "in_progress")
    PROVE  /\ r \in Seq(Outcome) /\ Len(r) = Len(q) + 1
           /\ Len(r) > 0 /\ r[Len(r)] = "in_progress"
           /\ RowsFine(r, TRUE, s \in panicked, s \in saved)
  <1>1. Len(q) \in Nat
    BY LenProperties
  <1>2. "in_progress" \in Outcome
    BY DEF Outcome
  <1>3. /\ r \in Seq(Outcome) /\ Len(r) = Len(q) + 1
        /\ \A i \in 1..Len(q) : r[i] = q[i]
        /\ r[Len(q) + 1] = "in_progress"
    BY <1>2, AppendProperties
  <1>4. RowsFine(r, TRUE, s \in panicked, s \in saved)
    <2>1. ASSUME NEW n \in 1..Len(r)
          PROVE  /\ r[n] = "in_progress" => s \in panicked \/ n = Len(r)
                 /\ r[n] = "succeeded" => s \in saved
      <3>1. CASE n = Len(q) + 1
        BY <1>3, <3>1
      <3>2. CASE n \in 1..Len(q)
        <4>1. n # Len(q) + 1 /\ n \in 1..Len(r) /\ r[n] = q[n]
          BY <1>1, <1>3, <3>2
        <4>2. (q[n] = "in_progress" => s \in panicked) /\ (q[n] = "succeeded" => s \in saved)
          BY <3>2 DEF RowsFine
        <4> QED BY <4>1, <4>2
      <3> QED BY <1>1, <1>3, <3>1, <3>2
    <2> QED BY <2>1 DEF RowsFine
  <1>5. Len(r) > 0
    BY <1>1, <1>3
  <1>6. r[Len(r)] = "in_progress"
    BY <1>3
  <1> QED BY <1>3, <1>4, <1>5, <1>6

\* The end of an attempt (verification::finish).
LEMMA RowFinished ==
    ASSUME NEW s, NEW q \in Seq(Outcome),
           RowsFine(q, TRUE, s \in panicked, s \in saved), Len(q) > 0,
           NEW o \in {"succeeded", "failed_manual"}, o = "succeeded" => s \in saved,
           NEW r, r = [q EXCEPT ![Len(q)] = o]
    PROVE  /\ r \in Seq(Outcome) /\ Len(r) = Len(q)
           /\ RowsFine(r, FALSE, s \in panicked, s \in saved)
  <1>1. Len(q) \in Nat /\ Len(q) \in 1..Len(q)
    BY LenProperties
  <1>2. o \in Outcome
    BY DEF Outcome
  <1>3. /\ r \in Seq(Outcome) /\ Len(r) = Len(q)
        /\ \A j \in 1..Len(q) : r[j] = IF j = Len(q) THEN o ELSE q[j]
    BY <1>1, <1>2, ExceptSeq
  <1>4. RowsFine(r, FALSE, s \in panicked, s \in saved)
    BY <1>1, <1>3 DEF RowsFine
  <1> QED BY <1>3, <1>4

-----------------------------------------------------------------------------
(* The gate *)

\* A session that goes on within its work, or to its end.
LEMMA GateGoesOn ==
    ASSUME VerTypeOK, GateInv, NEW s \in Sessions,
           NEW from \in AtWork, NEW to \in AtWork \cup {"release"}, Step(s, from, to),
           held' = held, doubled' = doubled, entry # "none" => entry' # "none"
    PROVE  GateInv'
  <1>1. task[s] = from /\ task' = [task EXCEPT ![s] = to]
    BY DEF Step
  <1>2. task'[s] = to /\ \A r \in Sessions \ {s} : task'[r] = task[r]
    BY <1>1 DEF VerTypeOK
  <1>3. Running(s) /\ Working(s) /\ task[s] # "remove"
    BY <1>1 DEF Running, Working, AtWork, InAttempt
  <1>4. Running(s)' /\ task'[s] # "remove"
    BY <1>2 DEF Running, AtWork, InAttempt
  <1>5. \A r \in Sessions : Running(r)' <=> Running(r)
    BY <1>2, <1>3, <1>4 DEF Running
  <1>6. \A r \in Sessions : Working(r)' => Working(r)
    BY <1>2, <1>3 DEF Working, Running
  <1> QED BY <1>2, <1>3, <1>4, <1>5, <1>6 DEF GateInv

\* What others do: no session moves.
LEMMA GateStays ==
    ASSUME GateInv, task' = task, held' = held, doubled' = doubled, entry' = entry
    PROVE  GateInv'
  BY DEF GateInv, Running, Working

\* A session that is registered closes the gate.
LEMMA GateCloses ==
    ASSUME VerTypeOK, GateInv, NEW c \in Callers, NEW s \in Sessions, Register(c, s)
    PROVE  GateInv'
  <1>1. task[s] \in {"idle", "ended"} /\ task' = [task EXCEPT ![s] = "spawned"]
    BY DEF Register, Step
  <1>2. task'[s] = "spawned" /\ \A r \in Sessions \ {s} : task'[r] = task[r]
    BY <1>1 DEF VerTypeOK
  <1>3. held' = TRUE /\ entry' = "detected"
        /\ doubled' = (doubled \/ (entry # "none" /\ \E r \in Sessions : Running(r)))
    BY DEF Register
  <1>4. Running(s)' /\ task'[s] # "remove"
    BY <1>2 DEF Running
  <1>5. ASSUME ~doubled' PROVE \A r \in Sessions : ~Running(r)
    BY <1>3, <1>5 DEF GateInv
  <1>6. \A r \in Sessions \ {s} : Running(r)' <=> Running(r)
    BY <1>2 DEF Running
  <1> QED BY <1>3, <1>4, <1>5, <1>6 DEF GateInv

\* A session that ends opens the gate, and makes way.
LEMMA GateOpens ==
    ASSUME VerTypeOK, GateInv, NEW s \in Sessions, ClearActive(s)
    PROVE  GateInv'
  <1>0. doubled' = doubled
    BY DEF ClearActive
  <1>1. CASE Step(s, "release", "remove") /\ held' = FALSE /\ UNCHANGED <<entry, stale>>
    <2>1. task'[s] = "remove" /\ task[s] = "release"
          /\ \A r \in Sessions \ {s} : task'[r] = task[r]
      BY <1>1 DEF VerTypeOK, Step
    <2>2. \A r \in Sessions : Running(r)' <=> Running(r)
      BY <2>1 DEF Running
    <2>3. ~Working(s) /\ ~Working(s)' /\ Running(s)
      BY <2>1 DEF Working, Running
    <2>4. \A r \in Sessions \ {s} : Working(r)' => Working(r) /\ Running(r)
      BY <2>1 DEF Working, Running
    <2>5. ~doubled => \A r \in Sessions : ~Working(r)'
      BY <2>3, <2>4 DEF GateInv
    <2> QED BY <1>0, <1>1, <2>2, <2>5 DEF GateInv
  <1>2. CASE Step(s, "remove", "ended") /\ entry' = "none" /\ UNCHANGED held
    <2>1. task'[s] = "ended" /\ task[s] = "remove"
          /\ \A r \in Sessions \ {s} : task'[r] = task[r]
      BY <1>2 DEF VerTypeOK, Step
    <2>2. ~Running(s)' /\ Running(s) /\ ~Working(s)'
      BY <2>1 DEF Running, Working
    <2>3. \A r \in Sessions \ {s} : (Running(r)' <=> Running(r)) /\ (Working(r)' => Working(r))
      BY <2>1 DEF Running, Working
    <2>4. held' => \E r \in Sessions : Running(r)' /\ task'[r] # "remove"
      BY <1>2, <2>1, <2>3 DEF GateInv
    <2>5. ~doubled => \A r \in Sessions : ~Running(r)'
      BY <2>2, <2>3 DEF GateInv
    <2>6. \A r \in Sessions : Working(r)' => Running(r)'
      BY DEF Working
    <2> QED BY <1>0, <1>2, <2>4, <2>5, <2>6 DEF GateInv
  <1> QED BY <1>1, <1>2 DEF ClearActive
-----------------------------------------------------------------------------
(* The records *)

\* A session is left alone by the steps of others.
LEMMA RecordKept ==
    ASSUME NEW r \in Sessions, Recorded(r), task'[r] = task[r], tries'[r] = tries[r],
           r \in saved <=> r \in saved', r \in panicked <=> r \in panicked',
           r \in opened \cup closed <=> r \in opened' \cup closed'
    PROVE  Recorded(r)'
  <1>1. RowsFine(tries[r], task[r] \in InAttempt, r \in panicked, r \in saved)'
    BY DEF Recorded, RowsFine
  <1> QED BY <1>1 DEF Recorded

\* Nothing is there before the first signal.
LEMMA VerificationInitially == VerInit => VInv
  <1> SUFFICES ASSUME VerInit PROVE VInv
    OBVIOUS
  <1>1. <<>> \in Seq(Outcome) /\ Len(<<>>) = 0
    BY EmptySeq
  <1>2. VerTypeOK
    <2>1. /\ tries \in [Sessions -> Seq(Outcome)]
          /\ \A s \in Sessions : tries[s] = <<>>
      BY <1>1 DEF VerInit
    <2>2. 0 <= MaxRetries + 1
      BY MaxRetriesAssumption
    <2>3. \A s \in Sessions : Len(tries[s]) <= MaxRetries + 1
      BY <1>1, <2>1, <2>2
    <2> QED BY <2>1, <2>3 DEF VerInit, VerTypeOK
  <1>3. GateInv
    BY DEF VerInit, GateInv, Running, Working
  <1>4. ASSUME NEW s \in Sessions PROVE Recorded(s)
    BY <1>1 DEF VerInit, Recorded, RowsFine, InAttempt
  <1> QED BY <1>2, <1>3, <1>4 DEF VInv

\* The rows of a session that goes on without writing one.
LEMMA RecordGoesOn ==
    ASSUME VerTypeOK, NEW s \in Sessions, Recorded(s),
           NEW from \in AtWork, NEW to \in AtWork \cup {"release"}, Step(s, from, to),
           tries' = tries, to \in InAttempt <=> from \in InAttempt,
           to \notin {"spawned", "attempt"},
           saved \subseteq saved', panicked' = panicked, closed' = closed,
           opened \subseteq opened',
           to = "keep" => s \in saved',
           to = "release" => s \in saved' \cup opened'
    PROVE  Recorded(s)'
  <1>1. task[s] = from /\ task'[s] = to
    BY DEF Step, VerTypeOK
  <1>2. RowsFine(tries[s], task[s] \in InAttempt, s \in panicked, s \in saved)'
    BY <1>1 DEF Recorded, RowsFine
  <1> QED BY <1>1, <1>2 DEF Recorded, AtWork, InAttempt

\* The steps of a session keep the records of all, and the types.
LEMMA SessionKeepsRecords ==
    ASSUME VInv, NEW s \in Sessions, SessionStep(s)
    PROVE  VerTypeOK' /\ GateInv' /\ \A r \in Sessions : Recorded(r)'
  <1>1. VerTypeOK /\ GateInv /\ Recorded(s) /\ \A r \in Sessions : Recorded(r)
    BY DEF VInv
  <1>2. tries[s] \in Seq(Outcome) /\ Len(tries[s]) <= MaxRetries + 1
        /\ task[s] \in Stations /\ Len(tries[s]) \in Nat
    BY <1>1, LenProperties DEF VerTypeOK, Stations, AtWork, InAttempt
  <1>3. ASSUME NEW from, NEW to, Step(s, from, to)
        PROVE  task[s] = from /\ task'[s] = to /\ \A r \in Sessions \ {s} : task'[r] = task[r]
    BY <1>1, <1>3 DEF Step, VerTypeOK
  <1>4. ASSUME NEW from, NEW to, Step(s, from, to), to \in Stations
        PROVE  task' \in [Sessions -> Stations]
    BY <1>1, <1>4 DEF Step, VerTypeOK, Stations, AtWork, InAttempt
  <1>5. ASSUME tries' = tries, saved' \ {s} = saved \ {s},
               panicked' \ {s} = panicked \ {s}, opened' \ {s} = opened \ {s},
               closed' = closed, \A r \in Sessions \ {s} : task'[r] = task[r]
        PROVE  \A r \in Sessions \ {s} : Recorded(r)'
    BY <1>1, <1>5, RecordKept
  <1>6. CASE RunSession(s)
    <2>1. PICK to \in {"attempt", "issue"} : Step(s, "spawned", to)
      BY <1>6 DEF RunSession
    <2>2. GateInv'
      BY <1>1, <1>6, <2>1, GateGoesOn DEF RunSession, AtWork
    <2>3. \A r \in Sessions \ {s} : Recorded(r)'
      BY <1>3, <1>5, <1>6, <2>1 DEF RunSession
    <2>4. Recorded(s)'
      <3>1. tries[s] = <<>> /\ tries' = tries /\ task'[s] \in {"attempt", "issue"}
        BY <1>1, <1>3, <1>6, <2>1 DEF RunSession, Recorded
      <3>2. Len(tries'[s]) = 0
        BY <3>1, EmptySeq
      <3>3. RowsFine(tries[s], task[s] \in InAttempt, s \in panicked, s \in saved)'
        BY <3>2 DEF RowsFine
      <3> QED BY <3>1, <3>2, <3>3, MaxRetriesAssumption DEF Recorded, InAttempt
    <2>5. VerTypeOK'
      BY <1>1, <1>4, <1>6, <2>1 DEF RunSession, VerTypeOK, SessionState, Stations, AtWork, InAttempt
    <2> QED BY <2>2, <2>3, <2>4, <2>5
  <1>7. CASE BeginAttempt(s)
    <2>1. Step(s, "attempt", "solving") /\ tries' = [tries EXCEPT ![s] = Append(@, "in_progress")]
      BY <1>7 DEF BeginAttempt
    <2>2. GateInv'
      BY <1>1, <1>7, GateGoesOn DEF BeginAttempt, AtWork, InAttempt, Enter
    <2>3. ASSUME NEW r \in Sessions \ {s} PROVE Recorded(r)'
      BY <1>1, <1>3, <1>7, <2>1, <2>3, RecordKept DEF BeginAttempt, VerTypeOK
    <2>4. tries'[s] = Append(tries[s], "in_progress") /\ Len(tries[s]) <= MaxRetries
          /\ RowsFine(tries[s], FALSE, s \in panicked, s \in saved)
      <3>1. task[s] = "attempt" /\ task[s] \notin InAttempt
        BY <1>3, <2>1 DEF InAttempt
      <3> QED BY <1>1, <2>1, <3>1 DEF Recorded, VerTypeOK, RowsFine
    <2>5. /\ tries'[s] \in Seq(Outcome) /\ Len(tries'[s]) = Len(tries[s]) + 1
          /\ Len(tries'[s]) > 0 /\ tries'[s][Len(tries'[s])] = "in_progress"
          /\ RowsFine(tries'[s], TRUE, s \in panicked, s \in saved)
      BY <1>2, <2>4, RowAppended
    <2>6. Recorded(s)'
      <3>1. task'[s] = "solving" /\ saved' = saved /\ panicked' = panicked
        BY <1>3, <1>7, <2>1 DEF BeginAttempt
      <3>2. RowsFine(tries[s], task[s] \in InAttempt, s \in panicked, s \in saved)'
        BY <2>5, <3>1 DEF RowsFine, InAttempt
      <3> QED BY <2>5, <3>1, <3>2 DEF Recorded, InAttempt
    <2>7. VerTypeOK'
      <3>1. task' \in [Sessions -> Stations]
        BY <1>4, <2>1 DEF Stations, AtWork, InAttempt
      <3>2. Len(tries'[s]) <= MaxRetries + 1
        BY <1>2, <2>4, <2>5, MaxRetriesAssumption
      <3>3. \A r \in Sessions : tries'[r] \in Seq(Outcome) /\ Len(tries'[r]) <= MaxRetries + 1
        BY <1>1, <2>1, <2>5, <3>2 DEF VerTypeOK
      <3>4. tries' \in [Sessions -> Seq(Outcome)]
        BY <1>1, <2>1, <3>3 DEF VerTypeOK
      <3> QED BY <1>1, <1>7, <3>1, <3>3, <3>4
              DEF BeginAttempt, VerTypeOK, Enter, SessionState, Stations, AtWork, InAttempt
    <2> QED BY <2>2, <2>3, <2>6, <2>7
  <1>8. CASE DeadlinePassed(s) \/ Solved(s) \/ SolveFailed(s) \/ SaveAndRotate(s)
             \/ GiveUp(s) \/ OpenVerificationIssue(s)
    <2>1. PICK from \in AtWork, to \in AtWork \cup {"release"} :
              /\ Step(s, from, to) /\ to \notin {"spawned", "attempt"}
              /\ to \in InAttempt <=> from \in InAttempt
              /\ to = "keep" => s \in saved'
              /\ to = "release" => s \in saved' \cup opened'
      BY <1>8 DEF DeadlinePassed, Solved, SolveFailed, SaveAndRotate, GiveUp,
                  OpenVerificationIssue, AtWork, InAttempt
    <2>2. /\ tries' = tries /\ held' = held /\ doubled' = doubled
          /\ panicked' = panicked /\ closed' = closed /\ stale' = stale
          /\ signal' = signal /\ url' = url
          /\ cooling' \in {cooling, TRUE}
          /\ saved' \in {saved, saved \cup {s}} /\ opened' \in {opened, opened \cup {s}}
          /\ \/ entry' = entry
             \/ \E state \in {"updating_credential", "failed_manual"} : Enter(state)
      BY <1>8 DEF DeadlinePassed, Solved, SolveFailed, SaveAndRotate, GiveUp,
                  OpenVerificationIssue
    <2>3. GateInv'
      BY <1>1, <2>1, <2>2, GateGoesOn DEF Enter
    <2>4. \A r \in Sessions \ {s} : Recorded(r)'
      BY <1>3, <1>5, <2>1, <2>2
    <2>5. Recorded(s)'
      BY <1>1, <2>1, <2>2, RecordGoesOn
    <2>6. VerTypeOK'
      <3>1. task' \in [Sessions -> Stations]
        BY <1>4, <2>1 DEF Stations
      <3>2. entry' \in SessionState \cup {"none"}
        BY <1>1, <2>2 DEF VerTypeOK, Enter, SessionState
      <3> QED BY <1>1, <2>2, <3>1, <3>2 DEF VerTypeOK, Stations, AtWork, InAttempt
    <2> QED BY <2>3, <2>4, <2>5, <2>6
  <1>9. CASE FinishSucceeded(s) \/ FinishLost(s) \/ FinishFailed(s)
    <2>1. PICK from \in InAttempt, to \in {"release", "failed", "attempt"},
               outcome \in {"succeeded", "failed_manual"} :
              /\ Step(s, from, to) /\ Finish(s, outcome)
              /\ outcome = "succeeded" => from = "keep"
              /\ to = "release" => from = "keep"
              /\ to = "attempt" => RetryAllowed(s)
      BY <1>9 DEF FinishSucceeded, FinishLost, FinishFailed, InAttempt
    <2>2. /\ held' = held /\ doubled' = doubled /\ saved' = saved /\ opened' = opened
          /\ panicked' = panicked /\ closed' = closed /\ stale' = stale
          /\ signal' = signal /\ url' = url /\ cooling' = cooling
          /\ (entry' = entry \/ Enter("succeeded"))
      BY <1>9 DEF FinishSucceeded, FinishLost, FinishFailed
    <2>3. GateInv'
      <3>1. from \in AtWork /\ to \in AtWork \cup {"release"}
        BY <2>1 DEF AtWork
      <3> QED BY <1>1, <2>1, <2>2, <3>1, GateGoesOn DEF Enter
    <2>4. task[s] = from /\ task'[s] = to /\ \A r \in Sessions \ {s} : task'[r] = task[r]
      BY <1>3, <2>1
    <2>5. /\ Len(tries[s]) > 0 /\ tries[s][Len(tries[s])] = "in_progress"
          /\ RowsFine(tries[s], TRUE, s \in panicked, s \in saved)
          /\ (from = "keep" => s \in saved)
      BY <1>1, <2>1, <2>4 DEF Recorded, RowsFine
    <2>6. tries' = [tries EXCEPT ![s] = [tries[s] EXCEPT ![Len(tries[s])] = outcome]]
      BY <2>1, <2>5 DEF Finish
    <2>7. /\ tries'[s] = [tries[s] EXCEPT ![Len(tries[s])] = outcome]
          /\ \A r \in Sessions \ {s} : tries'[r] = tries[r]
      BY <1>1, <2>6 DEF VerTypeOK
    <2>8. /\ tries'[s] \in Seq(Outcome) /\ Len(tries'[s]) = Len(tries[s])
          /\ RowsFine(tries'[s], FALSE, s \in panicked, s \in saved)
      BY <1>2, <2>1, <2>5, <2>7, RowFinished
    <2>9. Recorded(s)'
      <3>1. RowsFine(tries[s], task[s] \in InAttempt, s \in panicked, s \in saved)'
        BY <2>2, <2>8 DEF RowsFine
      <3>2. task'[s] \notin InAttempt /\ task'[s] # "spawned" /\ task'[s] # "keep"
            /\ task'[s] \notin {"remove", "ended"}
        BY <2>1, <2>4 DEF InAttempt
      <3>3. task'[s] = "attempt" => Len(tries'[s]) <= MaxRetries
        BY <2>1, <2>4, <2>8 DEF RetryAllowed
      <3>4. task'[s] = "release" => s \in saved'
        BY <2>1, <2>2, <2>4, <2>5
      <3> QED BY <3>1, <3>2, <3>3, <3>4 DEF Recorded
    <2>10. ASSUME NEW r \in Sessions \ {s} PROVE Recorded(r)'
      BY <1>1, <2>2, <2>4, <2>7, <2>10, RecordKept
    <2>11. VerTypeOK'
      <3>1. task' \in [Sessions -> Stations]
        BY <1>4, <2>1 DEF Stations, AtWork
      <3>2. tries' \in [Sessions -> Seq(Outcome)]
        BY <1>1, <2>6, <2>7, <2>8 DEF VerTypeOK
      <3>3. \A r \in Sessions : Len(tries'[r]) <= MaxRetries + 1
        BY <1>1, <1>2, <2>7, <2>8 DEF VerTypeOK
      <3> QED BY <1>1, <2>2, <3>1, <3>2, <3>3
              DEF VerTypeOK, Enter, SessionState, Stations, AtWork, InAttempt
    <2> QED BY <2>3, <2>9, <2>10, <2>11
  <1>10. CASE Panic(s)
    <2>1. PICK from \in {"solving", "saving"} : Step(s, from, "release")
      BY <1>10 DEF Panic
    <2>2. /\ panicked' = panicked \cup {s}
          /\ UNCHANGED <<entry, stale, held, cooling, signal, url, tries, saved,
                         opened, closed, doubled>>
      BY <1>10 DEF Panic
    <2>3. GateInv'
      BY <1>1, <2>1, <2>2, GateGoesOn DEF AtWork, InAttempt
    <2>4. \A r \in Sessions \ {s} : Recorded(r)'
      BY <1>3, <1>5, <2>1, <2>2
    <2>5. Recorded(s)'
      <3>1. task'[s] = "release" /\ s \in panicked'
        BY <1>3, <2>1, <2>2
      <3>2. RowsFine(tries[s], task[s] \in InAttempt, s \in panicked, s \in saved)'
        BY <1>1, <2>2, <3>1 DEF RowsFine, Recorded
      <3> QED BY <3>1, <3>2 DEF Recorded, InAttempt
    <2>6. VerTypeOK'
      BY <1>1, <1>4, <2>1, <2>2 DEF VerTypeOK, Stations, AtWork, InAttempt
    <2> QED BY <2>3, <2>4, <2>5, <2>6
  <1>11. CASE ClearActive(s)
    <2>1. PICK from \in {"release", "remove"}, to \in {"remove", "ended"} : Step(s, from, to)
      BY <1>11 DEF ClearActive
    <2>2. /\ UNCHANGED <<cooling, signal, url, tries, saved, panicked, opened, closed,
                         doubled>>
          /\ held' \in {held, FALSE} /\ entry' \in {entry, "none"} /\ stale' \in {stale, FALSE}
      BY <1>11 DEF ClearActive
    <2>3. GateInv'
      BY <1>1, <1>11, GateOpens
    <2>4. \A r \in Sessions \ {s} : Recorded(r)'
      BY <1>3, <1>5, <2>1, <2>2
    <2>5. Recorded(s)'
      <3>1. task[s] = from /\ task'[s] = to
        BY <1>3, <2>1
      <3>2. RowsFine(tries[s], task[s] \in InAttempt, s \in panicked, s \in saved)'
        BY <1>1, <2>2, <3>1 DEF RowsFine, Recorded, InAttempt
      <3> QED BY <1>1, <2>2, <3>1, <3>2 DEF Recorded, InAttempt
    <2>6. VerTypeOK'
      BY <1>1, <1>4, <2>1, <2>2 DEF VerTypeOK, Stations, AtWork, InAttempt
    <2> QED BY <2>3, <2>4, <2>5, <2>6
  <1> QED BY <1>6, <1>7, <1>8, <1>9, <1>10, <1>11 DEF SessionStep

\* Every step keeps the invariant.
LEMMA VerificationStep == VInv /\ [VerNext]_verVars => VInv'
  <1> SUFFICES ASSUME VInv, [VerNext]_verVars PROVE VInv'
    OBVIOUS
  <1>1. VerTypeOK /\ GateInv /\ \A s \in Sessions : Recorded(s)
    BY DEF VInv
  <1>2. ASSUME NEW s \in Sessions, SessionStep(s) PROVE VInv'
    BY <1>2, SessionKeepsRecords DEF VInv
  <1>3. ASSUME NEW c \in Callers, NEW s \in Sessions, Register(c, s) PROVE VInv'
    <2>1. GateInv'
      BY <1>1, <1>3, GateCloses
    <2>2. task' = [task EXCEPT ![s] = "spawned"] /\ tries' = [tries EXCEPT ![s] = <<>>]
      BY <1>3 DEF Register, Step
    <2>3. task'[s] = "spawned" /\ tries'[s] = <<>>
          /\ \A r \in Sessions \ {s} : task'[r] = task[r] /\ tries'[r] = tries[r]
      BY <1>1, <2>2 DEF VerTypeOK
    <2>4. <<>> \in Seq(Outcome) /\ Len(<<>>) = 0
      BY EmptySeq
    <2>5. Recorded(s)'
      <3>1. RowsFine(tries[s], task[s] \in InAttempt, s \in panicked, s \in saved)'
        BY <2>3, <2>4 DEF RowsFine
      <3> QED BY <2>3, <3>1 DEF Recorded, InAttempt
    <2>6. ASSUME NEW r \in Sessions \ {s} PROVE Recorded(r)'
      BY <1>1, <1>3, <2>3, <2>6, RecordKept DEF Register
    <2>7. tries' \in [Sessions -> Seq(Outcome)] /\ \A r \in Sessions : Len(tries'[r]) <= MaxRetries + 1
      BY <1>1, <2>2, <2>3, <2>4, MaxRetriesAssumption DEF VerTypeOK
    <2>8. VerTypeOK'
      BY <1>1, <1>3, <2>2, <2>7 DEF Register, VerTypeOK, SessionState
    <2> QED BY <2>1, <2>5, <2>6, <2>8 DEF VInv
  <1>4. ASSUME UNCHANGED <<held, task, tries, saved, panicked, entry, doubled, url>>,
               opened \cup closed = opened' \cup closed', VerTypeOK'
        PROVE  VInv'
    <2>1. GateInv'
      BY <1>1, <1>4, GateStays
    <2>2. ASSUME NEW r \in Sessions PROVE Recorded(r)'
      BY <1>1, <1>4, <2>2, RecordKept
    <2> QED BY <1>4, <2>1, <2>2 DEF VInv
  <1>5. ASSUME NEW c \in Callers, NEW source \in {"auto", "manual"},
               NEW with \in {"plain", "url"}, SignalAllowed(c, source, with)
        PROVE  VInv'
    BY <1>1, <1>4, <1>5 DEF SignalAllowed, VerTypeOK
  <1>6. ASSUME NEW c \in Callers, SignalMerged(c) PROVE VInv'
    BY <1>1, <1>4, <1>6 DEF SignalMerged, VerTypeOK
  <1>7. ASSUME Age \/ CoolDown PROVE VInv'
    BY <1>1, <1>4, <1>7 DEF Age, CoolDown, VerTypeOK
  <1>8. ASSUME NEW s \in Sessions, ProbeAndClose(s) PROVE VInv'
    BY <1>1, <1>4, <1>8 DEF ProbeAndClose, VerTypeOK
  <1>9. ASSUME UNCHANGED verVars PROVE VInv'
    BY <1>1, <1>4, <1>9 DEF verVars, VerTypeOK
  <1> QED BY <1>2, <1>3, <1>5, <1>6, <1>7, <1>8, <1>9 DEF VerNext, SignalStep

\* What the model checker looks at follows.
LEMMA VerificationShown == VInv => VerificationSafe
  <1> SUFFICES ASSUME VInv PROVE VerificationSafe
    OBVIOUS
  <1>1. VerTypeOK /\ GateInv /\ \A s \in Sessions : Recorded(s)
    BY DEF VInv
  <1>2. QuietIsOpen
    BY <1>1 DEF QuietIsOpen, GateInv, VerTypeOK
  <1>3. GateFollowsSession
    BY <1>1 DEF GateFollowsSession, GateInv, Working
  <1>4. SessionsAreRecorded
    <2> SUFFICES ASSUME NEW s \in Sessions
                 PROVE  /\ task[s] = "ended" => s \in saved \cup panicked \cup opened \cup closed
                        /\ \A n \in DOMAIN tries[s] :
                             /\ tries[s][n] = "in_progress" =>
                                    \/ s \in panicked
                                    \/ n = Len(tries[s]) /\ task[s] \in InAttempt
                             /\ tries[s][n] = "succeeded" => s \in saved
      BY DEF SessionsAreRecorded, InAttempt
    <2>1. DOMAIN tries[s] = 1..Len(tries[s])
      BY <1>1, LenProperties DEF VerTypeOK
    <2> QED BY <1>1, <2>1 DEF Recorded, RowsFine
  <1> QED BY <1>2, <1>3, <1>4 DEF VerificationSafe

\* Whatever signals come, and however sessions end, or outlive being taken for
\* dead (handle_signal, run_session, clear_active): no gate stays closed behind
\* them, none opens under a session that is alone, and each leaves a credential
\* or something for a person to see.
THEOREM VerificationIsSafe == VerSpec => []VerificationSafe
  BY VerificationInitially, VerificationStep, VerificationShown, PTL DEF VerSpec

-----------------------------------------------------------------------------
(* Both together *)

UpkeepInv == VInv /\ IntInv

\* A step of one leaves the other where it is.
LEMMA UpkeepStep == UpkeepInv /\ [Next]_vars => UpkeepInv'
  <1>1. [Next]_vars => [VerNext]_verVars /\ [IntNext]_intVars
    BY DEF Next, vars, VerificationAlone, IntakeAlone
  <1> QED BY <1>1, VerificationStep, IntakeStep DEF UpkeepInv

\* The state of both is well typed, as the model checker runs them: the tables
\* of verification_attempts and of the orders, the entries of the sessions and
\* the work of the scans.
THEOREM UpkeepTypeCorrect == Spec => []UpkeepTypeOK
  <1>1. Init => UpkeepInv
    BY VerificationInitially, IntakeInitially DEF Init, UpkeepInv
  <1>2. UpkeepInv => UpkeepTypeOK
    BY DEF UpkeepInv, VInv, IntInv, UpkeepTypeOK
  <1> QED BY <1>1, <1>2, UpkeepStep, PTL DEF Spec
=============================================================================

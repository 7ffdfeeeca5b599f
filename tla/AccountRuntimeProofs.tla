------------------------ MODULE AccountRuntimeProofs ------------------------
(***************************************************************************)
(* Theorems about AccountRuntime, for any tasks, any capacity of the       *)
(* channel and any number of restarts.                                     *)
(***************************************************************************)
EXTENDS AccountRuntime, SequenceTheorems, TLAPS

\* What the row will say when every report on its way has been written.
LastWord == IF inbox = <<>> THEN status ELSE inbox[Len(inbox)]

\* The map of the supervisor has every task that runs.
OnlyActive == \A t \in Tasks : Alive(t) => active = t

\* A session has a task that waits for it, or is about to.
SessionOwned == \A t \in Tasks : ws[t] # "none" => pc[t] \in {"greet", "await"}

\* A task says that it is offline before it detaches.
SaidSo == LastWord = "online" => \E t \in Tasks : pc[t] \notin {"finished", "detach"}

RInv == RuntimeTypeOK /\ OnlyActive /\ SessionOwned /\ EntryStays /\ SaidSo

Stations ==
    {"finished", "attach", "unreadable", "hello", "top", "token", "greet", "await",
     "limited", "expired", "retry", "backoff", "final", "detach"}

-----------------------------------------------------------------------------
(* The channel *)

\* Appending to the channel (emit_state).
LEMMA LastReported ==
    ASSUME NEW s, NEW q \in Seq(Reports), s \in Reports
    PROVE  /\ Append(q, s) \in Seq(Reports)
           /\ Len(Append(q, s)) = Len(q) + 1
           /\ Append(q, s) # <<>>
           /\ Append(q, s)[Len(Append(q, s))] = s
  OBVIOUS

\* Taking from it (dispatch_loop): the last word stays.
LEMMA LastTaken ==
    ASSUME NEW q \in Seq(Reports), q # <<>>
    PROVE  /\ Head(q) \in Reports
           /\ Tail(q) \in Seq(Reports)
           /\ Len(Tail(q)) = Len(q) - 1
           /\ Tail(q) = <<>> => Head(q) = q[Len(q)]
           /\ Tail(q) # <<>> => Tail(q)[Len(Tail(q))] = q[Len(q)]
  <1>1. Len(q) \in Nat \ {0}
    BY EmptySeq, LenProperties
  <1>2. Head(q) \in Reports /\ Head(q) = q[1] /\ Tail(q) \in Seq(Reports)
        /\ Len(Tail(q)) = Len(q) - 1
    BY HeadTailProperties
  <1>3. ASSUME Tail(q) # <<>> PROVE Tail(q)[Len(Tail(q))] = q[Len(q)]
    <2>1. Len(Tail(q)) \in 1..Len(Tail(q))
      BY <1>2, <1>3, EmptySeq, LenProperties
    <2>2. Tail(q)[Len(Tail(q))] = q[Len(Tail(q)) + 1]
      BY <2>1, HeadTailProperties
    <2>3. Len(Tail(q)) + 1 = Len(q)
      BY <1>1, <1>2
    <2> QED BY <2>2, <2>3, Zenon
  <1>4. Tail(q) = <<>> => Len(q) = 1
    <2>1. Len(<<>>) = 0
      BY EmptySeq
    <2>2. Len(Tail(q)) + 1 = Len(q)
      BY <1>1, <1>2
    <2>3. Tail(q) = <<>> => Len(q) = 0 + 1
      BY <2>1, <2>2, Zenon
    <2> QED BY <2>3
  <1> QED BY <1>2, <1>3, <1>4

-----------------------------------------------------------------------------
(* One task, and the account's word *)

\* run_account: a step of the only task that runs leaves the others finished.
LEMMA OthersRest ==
    ASSUME RInv, NEW t \in Tasks, Alive(t)
    PROVE  \A u \in Tasks \ {t} : pc[u] = "finished" /\ ws[u] = "none"
  BY DEF RInv, OnlyActive, SessionOwned, Alive

\* emit_state: what a report does to the channel and to the last word.
LEMMA Reported ==
    ASSUME RuntimeTypeOK, NEW s \in Reports, Report(s), UNCHANGED status
    PROVE  /\ inbox' \in Seq(Reports) /\ Len(inbox') <= InboxCap
           /\ LastWord' = s
  <1>1. inbox \in Seq(Reports) /\ inbox' = Append(inbox, s) /\ Len(inbox) < InboxCap
    BY DEF RuntimeTypeOK, Report
  <1>2. Len(inbox) \in Nat /\ InboxCap \in Nat
    BY <1>1, LenProperties, RuntimeBoundsAssumption
  <1>3. inbox' \in Seq(Reports) /\ Len(inbox') = Len(inbox) + 1 /\ inbox' # <<>>
        /\ inbox'[Len(inbox')] = s
    BY <1>1, LastReported
  <1> QED BY <1>1, <1>2, <1>3 DEF LastWord

-----------------------------------------------------------------------------
(* The invariant *)

\* What holds at every step of the supervisor, the task and the session of an
\* account (account_supervisor_loop, run_account, run_registered_session).
THEOREM RuntimeInductive == Spec => []RInv
  <1>0. <<>> \in Seq(Reports) /\ Len(<<>>) <= InboxCap
    <2>1. Len(<<>>) = 0 /\ InboxCap \in Nat
      BY EmptySeq, RuntimeBoundsAssumption
    <2> QED BY <2>1, EmptySeq
  <1>1. Init => RInv
    <2> SUFFICES ASSUME Init PROVE RInv
      OBVIOUS
    <2>1. RuntimeTypeOK
      <3>1. inbox \in Seq(Reports) /\ Len(inbox) <= InboxCap
        BY <1>0, Zenon DEF Init
      <3>2. crashes \in 0..MaxCrashes
        BY RuntimeBoundsAssumption DEF Init
      <3> QED BY <3>1, <3>2 DEF Init, RuntimeTypeOK, Watch
    <2>2. OnlyActive /\ SessionOwned /\ EntryStays /\ SaidSo
      BY DEF Init, OnlyActive, SessionOwned, EntryStays, SaidSo, LastWord, Alive
    <2> QED BY <2>1, <2>2 DEF RInv
  <1>2. RInv /\ [Next]_vars => RInv'
    <2> SUFFICES ASSUME RInv, [Next]_vars PROVE RInv'
      OBVIOUS
    <2> USE DEF RInv, RuntimeTypeOK, OnlyActive, SessionOwned, EntryStays, SaidSo,
                Alive, Watch
    <2>1. ASSUME NEW on \in BOOLEAN, SetRun(on) PROVE RInv'
      BY <2>1 DEF SetRun, Reports, LastWord, supVars, taskVars
    <2>2. CASE AttachLogin
      BY <2>2 DEF AttachLogin, LastWord, row, supVars, taskVars
    <2>3. CASE Observe
      <3>1. LastWord' = LastWord
        BY <2>3, LastTaken DEF Observe, LastWord
      <3>2. status' \in Reports /\ inbox' \in Seq(Reports) /\ Len(inbox') <= InboxCap
        BY <2>3, LastTaken, LenProperties, RuntimeBoundsAssumption DEF Observe
      <3> QED BY <2>3, <3>1, <3>2 DEF Observe, supVars, taskVars
    <2>4. CASE ReadSwitch \/ ReadFails
      BY <2>4 DEF ReadSwitch, ReadFails, LastWord, row, taskVars
    <2>5. CASE Tick
      <3>1. CASE wanted /\ Kept = NoTask
        <4>1. \A u \in Tasks : pc[u] = "finished" /\ ws[u] = "none"
          BY <3>1, NoTaskAssumption DEF Kept
        <4>2. PICK t \in Tasks : Spawn(t)
          BY <2>5, <3>1 DEF Tick
        <4>3. UNCHANGED <<row, wanted, ws, attached, inbox, crashes>> /\ sup' = "wait"
          BY <2>5 DEF Tick
        <4>4. RuntimeTypeOK'
          BY <4>2, <4>3 DEF Spawn, Goto, row
        <4> QED BY <4>1, <4>2, <4>3, <4>4 DEF Spawn, Goto, LastWord, row
      <3>2. CASE ~(wanted /\ Kept = NoTask)
        BY <2>5, <3>2 DEF Tick, Sent, Kept, LastWord, row
      <3> QED BY <3>1, <3>2
    <2>6. CASE Quit
      BY <2>6 DEF Quit, LastWord, row
    <2>7. CASE Restart
      <3>1. RuntimeTypeOK'
        <4>1. inbox' \in Seq(Reports) /\ Len(inbox') <= InboxCap
          BY <2>7, <1>0, Zenon DEF Restart
        <4>2. crashes' \in 0..MaxCrashes
          BY <2>7, RuntimeBoundsAssumption DEF Restart
        <4> QED BY <2>7, <4>1, <4>2 DEF Restart, Reports
      <3>2. (OnlyActive /\ SessionOwned /\ EntryStays /\ SaidSo)'
        BY <2>7 DEF Restart, LastWord
      <3> QED BY <3>1, <3>2
    <2>8. ASSUME NEW t \in Tasks, Run(t) PROVE RInv'
      <3> USE DEF Goto, row, supVars
      <3>1. CASE Attach(t)
        BY <3>1, ZenonT(30) DEF Attach, LastWord
      <3>2. ASSUME NEW at \in Stations, NEW s \in Reports, NEW l \in Stations,
                   ReportAt(t, at, s, l), at # "finished", at # "await",
                   l = "await" <=> at = "greet", l # "greet",
                   l \in {"finished", "detach"} => s # "online",
                   l # "attach",
                   at \in {"attach", "unreadable"} => l \in {"finished", "unreadable"}
            PROVE  RInv'
        <4>1. inbox' \in Seq(Reports) /\ Len(inbox') <= InboxCap /\ LastWord' = s
          BY <3>2, Reported DEF ReportAt
        <4> QED BY <3>2, <4>1, OthersRest DEF ReportAt, Stations
      <3>3. CASE Unreadable(t) \/ Hello(t) \/ Greet(t) \/ Limited(t) \/ Expired(t) \/ Final(t)
        BY <3>2, <3>3
           DEF Unreadable, Hello, Greet, Limited, Expired, Final, Stations, Reports
      <3>4. CASE Top(t)
        BY <3>4 DEF Top, LastWord
      <3>5. CASE Token(t)
        BY <3>5 DEF Token, LastWord
      <3>6. CASE Await(t)
        BY <3>6 DEF Await, AfterEnd, Ended, LastWord
      <3>7. CASE Retry(t)
        BY <3>7 DEF Retry, LastWord
      <3>8. CASE Detach(t)
        BY <3>8, OthersRest, ZenonT(30) DEF Detach, LastWord
      <3> QED BY <2>8, <3>1, <3>3, <3>4, <3>5, <3>6, <3>7, <3>8 DEF Run
    <2>9. ASSUME NEW t \in Tasks, Dial(t) \/ Registered(t) \/ Lost(t) PROVE RInv'
      BY <2>9 DEF Dial, Registered, Lost, Becomes, Ended, LastWord, row, supVars
    <2>10. ASSUME NEW t \in Tasks, NoticeStop(t) PROVE RInv'
      BY <2>10 DEF NoticeStop, Ended, LastWord, row, supVars
    <2>11. CASE UNCHANGED vars
      BY <2>11 DEF vars, LastWord, row, supVars, taskVars
    <2> QED BY <2>1, <2>2, <2>3, <2>4, <2>5, <2>6, <2>7, <2>8, <2>9, <2>10, <2>11 DEF Next
  <1> QED BY <1>1, <1>2, PTL DEF Spec

-----------------------------------------------------------------------------
(* What follows *)

\* account_supervisor_loop, run_account: every column, channel and counter keeps
\* to its values; the channel of events never holds more than its capacity.
THEOREM RuntimeTypeCorrect == Spec => []RuntimeTypeOK
  <1>1. RInv => RuntimeTypeOK
    BY DEF RInv
  <1> QED BY <1>1, RuntimeInductive, PTL

\* account_supervisor_loop: however often the switch is moved, the service
\* stopped or started, and whatever ends a session, an account has one task and
\* one connection at most.
THEOREM ConnectsOnce == Spec => []OneConnection
  <1>1. RInv => OneConnection
    BY DEF RInv, OnlyActive, SessionOwned, OneConnection, Connected, Alive
  <1> QED BY <1>1, RuntimeInductive, PTL

\* attach, detach: no task loses the entry it connects by to another's end.
THEOREM KeepsItsEntry == Spec => []EntryStays
  <1>1. RInv => EntryStays
    BY DEF RInv
  <1> QED BY <1>1, RuntimeInductive, PTL

\* run_account, dispatch_loop: no account is left "online" without a task.
THEOREM OnlineIsKept == Spec => []OnlineHasTask
  <1>1. RInv => OnlineHasTask
    BY DEF RInv, SaidSo, LastWord, OnlineHasTask, Alive
  <1> QED BY <1>1, RuntimeInductive, PTL
=============================================================================

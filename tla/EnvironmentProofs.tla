------------------------- MODULE EnvironmentProofs -------------------------
(***************************************************************************)
(* Theorems about what the services stand on: the login of an account      *)
(* (Authorization), the restored database (Restore), the connection with   *)
(* the platform (WireSession), the calls signed beside it (SignedCalls)    *)
(* and the administrator's sessions (Access).  Of each: the invariant that *)
(* holds initially and is kept by every step, and what it implies.         *)
(***************************************************************************)
EXTENDS Authorization, Restore, WireSession, SignedCalls, Access,
        FiniteSetTheorems, SequenceTheorems, TLAPS

-----------------------------------------------------------------------------
(* The login of an account *)

\* The flow the loop works on, and the flows that gave a login.
FlowInv ==
    /\ drv.pc # "idle" => drv.flow \in Flows
    /\ drv.pc = "save" => flow[drv.flow] = "completed"
    /\ \A f \in stored : flow[f] = "completed"

\* A credential lies between its login and the next.
InSpan(c) == Span * c.from <= c.gen /\ c.gen < Span * (c.from + 1)

CredInv ==
    /\ newest \in {0, logins}
    /\ newest # 0 => cred.from = newest
    /\ InSpan(cred) /\ cred.from <= logins
    /\ \A r \in Refreshers :
           InSpan(refresh[r].blob) /\ refresh[r].blob.from <= logins

\* What left nothing in flight finds nothing to bring back.
GoneInv == gone => ~InFlight /\ cred = NoCred /\ ~running /\ row # "shown"

AuthInv == AuthTypeOK /\ FlowInv /\ CredInv /\ GoneInv

-----------------------------------------------------------------------------
(* Flows *)

\* apply_platform_transition does not leave completed.
LEMMA AppliedKeeps ==
    ASSUME AuthTypeOK, NEW f \in Flows,
           NEW to \in FlowStatus
    PROVE  /\ Applied(f, to) \in [Flows -> FlowStatus \cup {"none"}]
           /\ \A g \in Flows : flow[g] = "completed" => Applied(f, to)[g] = "completed"
  BY DEF AuthTypeOK, Applied, FlowTransition

\* Nor does expire_if_due.
LEMMA LookedKeeps ==
    ASSUME AuthTypeOK, NEW f \in Flows, NEW seen \in Looked(f)
    PROVE  /\ seen \in [Flows -> FlowStatus \cup {"none"}]
           /\ \A g \in Flows : flow[g] = "completed" => seen[g] = "completed"
  BY DEF AuthTypeOK, Looked, FlowStatus

\* What is said of flows holds when completed ones stay so.
LEMMA FlowStays ==
    ASSUME AuthInv, flow' \in [Flows -> FlowStatus \cup {"none"}],
           \A g \in Flows : flow[g] = "completed" => flow'[g] = "completed",
           drv' = drv \/ drv' = Idle, stored' = stored
    PROVE  FlowInv'
  BY DEF AuthInv, AuthTypeOK, FlowInv, Idle

\* A step that leaves the account alone.
LEMMA AccountStays ==
    ASSUME AuthInv, UNCHANGED <<logins, accVars, refresh, alive, reported, seenVars>>,
           drv'.pc = "save" /\ drv'.mine => drv.pc = "save" /\ drv.mine
    PROVE  CredInv' /\ GoneInv'
  <1>1. CredInv'
    BY DEF AuthInv, CredInv, accVars, seenVars, InSpan
  <1>2. GoneInv'
    BY DEF AuthInv, GoneInv, InFlight, accVars, seenVars
  <1> QED BY <1>1, <1>2

-----------------------------------------------------------------------------
(* Generations *)

\* Spans do not meet.
LEMMA SpansApart ==
    ASSUME NEW a \in Nat, NEW b \in Nat, a < b
    PROVE  Span * (a + 1) <= Span * b
  <1>1. Span \in Nat /\ a + 1 <= b
    BY SpanAssumption
  <1>2. PICK d \in Nat : b = (a + 1) + d
    <2>1. b - (a + 1) \in Nat /\ b = (a + 1) + (b - (a + 1))
      BY <1>1
    <2> QED BY <2>1
  <1>3. Span * b = Span * (a + 1) + Span * d /\ Span * d \in Nat /\ Span * (a + 1) \in Nat
    BY <1>1, <1>2
  <1> QED BY <1>3

\* credentials::save with what a refresh came back with: that of an older login
\* is refused.
LEMMA OlderRefused ==
    ASSUME AuthInv, NEW r \in Refreshers, newest # 0,
           refresh[r].blob.gen + 1 < Span * (refresh[r].blob.from + 1),
           Newer(refresh[r].blob.gen + 1)
    PROVE  refresh[r].blob.from = newest
  <1> DEFINE blob == refresh[r].blob
  <1>1. /\ blob.from \in Nat /\ blob.gen \in Nat /\ cred.gen \in Nat /\ logins \in Nat
        /\ blob.from <= logins /\ newest = logins /\ cred.from = logins
        /\ Span * cred.from <= cred.gen
    BY DEF AuthInv, AuthTypeOK, Creds, CredInv, InSpan
  <1>2. ASSUME blob.from < logins PROVE FALSE
    <2>1. Span * (blob.from + 1) <= Span * logins
      BY <1>1, <1>2, SpansApart
    <2>2. /\ Span * (blob.from + 1) \in Nat /\ Span * logins \in Nat
          /\ Span * logins <= cred.gen
      BY <1>1, SpanAssumption
    <2>3. blob.gen + 1 > cred.gen /\ blob.gen + 1 < Span * (blob.from + 1)
      BY DEF Newer
    <2> HIDE DEF blob
    <2> QED BY <1>1, <2>1, <2>2, <2>3
  <1> QED BY <1>1, <1>2

\* Of a login, or of a refresh of one, stored within its span.
LEMMA SpanBegins ==
    ASSUME NEW n \in Nat
    PROVE  InSpan([gen |-> Span * n, from |-> n]) /\ Span * n \in Nat
  <1>1. Span * (n + 1) = Span * n + Span /\ Span * n \in Nat /\ Span \in Nat /\ Span > 0
    BY SpanAssumption
  <1> QED BY <1>1 DEF InSpan

-----------------------------------------------------------------------------
(* The steps *)

\* Before the first flow the invariant holds.
LEMMA AuthorizationInitially == AuthInit => AuthInv
  <1> SUFFICES ASSUME AuthInit PROVE AuthInv
    OBVIOUS
  <1>1. AuthTypeOK
    BY DEF AuthInit, AuthTypeOK, NoCred, Creds
  <1>2. FlowInv
    BY DEF AuthInit, FlowInv
  <1>3. InSpan(NoCred)
    <2>1. Span * 0 = 0 /\ Span * (0 + 1) = Span /\ Span > 0
      BY SpanAssumption
    <2> QED BY <2>1 DEF InSpan, NoCred
  <1>4. CredInv
    BY <1>3 DEF AuthInit, CredInv, NoCred
  <1>5. GoneInv
    BY DEF AuthInit, GoneInv
  <1> QED BY <1>1, <1>2, <1>4, <1>5 DEF AuthInv

\* The administrator's steps on a flow.
LEMMA AskingKeeps ==
    ASSUME AuthInv, NEW f \in Flows,
           \/ \E replace \in BOOLEAN : CreateFlow(f, replace)
           \/ CreateDriven(f) \/ CreateRefused(f) \/ Observe(f) \/ Cancel(f)
    PROVE  AuthInv'
  <1>1. AuthTypeOK
    BY DEF AuthInv
  <1>2. /\ UNCHANGED <<drv, logins, accVars, refresh, alive, reported, seenVars>>
        /\ stored' = stored
    BY DEF CreateFlow, CreateDriven, CreateRefused, Observe, Cancel, seenVars
  <1>3. /\ flow' \in [Flows -> FlowStatus \cup {"none"}]
        /\ \A g \in Flows : flow[g] = "completed" => flow'[g] = "completed"
    <2>1. CASE \/ \E replace \in BOOLEAN : CreateFlow(f, replace)
               \/ CreateDriven(f) \/ Cancel(f)
      BY <1>1, <2>1 DEF CreateFlow, CreateDriven, Cancel, AuthTypeOK, FlowStatus
    <2>2. CASE CreateRefused(f)
      BY <1>1, <2>2, AppliedKeeps DEF CreateRefused, FlowStatus
    <2>3. CASE Observe(f)
      BY <1>1, <2>3, LookedKeeps DEF Observe
    <2> QED BY <2>1, <2>2, <2>3
  <1>4. /\ replaces' \in [Flows -> BOOLEAN] /\ driving' \subseteq Flows
        /\ code' \in [Flows -> {"none", "shown", "taken"}]
    BY <1>1 DEF AuthTypeOK, CreateFlow, CreateDriven, CreateRefused, Observe, Cancel
  <1>5. AuthTypeOK'
    BY <1>1, <1>2, <1>3, <1>4 DEF AuthTypeOK, accVars, seenVars
  <1>6. FlowInv'
    BY <1>2, <1>3, FlowStays
  <1>7. CredInv' /\ GoneInv'
    BY <1>2, AccountStays
  <1> QED BY <1>5, <1>6, <1>7 DEF AuthInv

\* The loop, up to the point where it completes a flow.
LEMMA DrivingKeeps ==
    ASSUME AuthInv,
           \/ \E f \in Flows : DriveObserve(f)
           \/ PollAgain \/ PollScanned \/ DriveConfirm
           \/ \E to \in {"expired", "canceled", "needs_verification", "failed"} : PollEnded(to)
           \/ \E mine \in BOOLEAN : PollConfirmed(mine)
    PROVE  AuthInv'
  <1>1. AuthTypeOK /\ FlowInv
    BY DEF AuthInv
  <1>2. /\ UNCHANGED <<replaces, logins, accVars, refresh, alive, reported, seenVars>>
        /\ stored' = stored
    BY DEF DriveObserve, PollAgain, PollScanned, DriveConfirm, PollEnded, PollConfirmed,
           seenVars
  <1>3. /\ flow' \in [Flows -> FlowStatus \cup {"none"}]
        /\ \A g \in Flows : flow[g] = "completed" => flow'[g] = "completed"
    <2>1. ASSUME NEW f \in Flows, DriveObserve(f)
          PROVE  /\ flow' \in [Flows -> FlowStatus \cup {"none"}]
                 /\ \A g \in Flows : flow[g] = "completed" => flow'[g] = "completed"
      BY <1>1, <2>1, LookedKeeps DEF DriveObserve
    <2>2. CASE PollAgain \/ \E mine \in BOOLEAN : PollConfirmed(mine)
      BY <1>1, <2>2 DEF PollAgain, PollConfirmed, AuthTypeOK
    <2>3. ASSUME NEW to \in FlowStatus, drv.pc # "idle", flow' = Applied(drv.flow, to)
          PROVE  /\ flow' \in [Flows -> FlowStatus \cup {"none"}]
                 /\ \A g \in Flows : flow[g] = "completed" => flow'[g] = "completed"
      BY <1>1, <2>3, AppliedKeeps DEF FlowInv
    <2>4. CASE PollScanned \/ DriveConfirm
      BY <2>3, <2>4 DEF PollScanned, DriveConfirm, FlowStatus
    <2>5. ASSUME NEW to \in {"expired", "canceled", "needs_verification", "failed"},
                 PollEnded(to)
          PROVE  /\ flow' \in [Flows -> FlowStatus \cup {"none"}]
                 /\ \A g \in Flows : flow[g] = "completed" => flow'[g] = "completed"
      BY <2>3, <2>5 DEF PollEnded, FlowStatus
    <2> QED BY <2>1, <2>2, <2>4, <2>5
  <1>4. /\ drv' \in [pc : {"idle", "poll", "confirm", "complete", "save"},
                     flow : Flows \cup {NoFlow}, mine : BOOLEAN]
        /\ drv'.pc # "idle" => drv'.flow \in Flows
        /\ drv'.pc # "save"
    <2>1. \/ drv' = drv /\ drv.pc = "idle"
          \/ drv' = Idle
          \/ \E f \in driving : drv' = [Idle EXCEPT !.pc = "poll", !.flow = f]
          \/ drv.pc = "poll" /\ \E mine \in BOOLEAN : drv' = [drv EXCEPT !.pc = "confirm", !.mine = mine]
          \/ drv.pc = "confirm" /\ drv' = [drv EXCEPT !.pc = "complete"]
      <3>1. CASE \E f \in Flows : DriveObserve(f)
        BY <3>1 DEF DriveObserve
      <3>2. CASE \/ PollAgain \/ PollScanned \/ DriveConfirm
                 \/ \E to \in {"expired", "canceled", "needs_verification", "failed"} : PollEnded(to)
        BY <3>2 DEF PollAgain, PollScanned, PollEnded, DriveConfirm
      <3>3. CASE \E mine \in BOOLEAN : PollConfirmed(mine)
        BY <3>3 DEF PollConfirmed
      <3> QED BY <3>1, <3>2, <3>3
    <2>2. CASE (drv' = drv /\ drv.pc = "idle") \/ drv' = Idle
      <3>1. Idle \in [pc : {"idle", "poll", "confirm", "complete", "save"},
                      flow : Flows \cup {NoFlow}, mine : BOOLEAN]
            /\ Idle.pc = "idle"
        BY DEF Idle
      <3> QED BY <1>1, <2>2, <3>1 DEF AuthTypeOK
    <2>3. CASE \E f \in driving : drv' = [Idle EXCEPT !.pc = "poll", !.flow = f]
      BY <1>1, <2>3 DEF AuthTypeOK, Idle
    <2>4. CASE drv.pc = "poll" /\ \E mine \in BOOLEAN :
                  drv' = [drv EXCEPT !.pc = "confirm", !.mine = mine]
      BY <1>1, <2>4 DEF AuthTypeOK, FlowInv
    <2>5. CASE drv.pc = "confirm" /\ drv' = [drv EXCEPT !.pc = "complete"]
      BY <1>1, <2>5 DEF AuthTypeOK, FlowInv
    <2> QED BY <2>1, <2>2, <2>3, <2>4, <2>5
  <1>5. /\ driving' \subseteq Flows
        /\ code' \in [Flows -> {"none", "shown", "taken"}]
    <2>1. driving' \subseteq driving
      BY DEF DriveObserve, PollAgain, PollScanned, DriveConfirm, PollEnded, PollConfirmed
    <2>2. code' = code \/ code' = [code EXCEPT ![drv.flow] = "taken"]
      BY DEF DriveObserve, PollAgain, PollScanned, DriveConfirm, PollEnded, PollConfirmed
    <2> QED BY <1>1, <2>1, <2>2 DEF AuthTypeOK
  <1>6. AuthTypeOK'
    BY <1>1, <1>2, <1>3, <1>4, <1>5 DEF AuthTypeOK, accVars, seenVars
  <1>7. FlowInv'
    BY <1>1, <1>2, <1>3, <1>4 DEF FlowInv, AuthTypeOK
  <1>8. CredInv' /\ GoneInv'
    BY <1>2, <1>4, AccountStays
  <1> QED BY <1>6, <1>7, <1>8 DEF AuthInv

\* AuthFlowService::complete, as the loop calls it.
LEMMA CompletingKeeps ==
    ASSUME AuthInv, DriveComplete
    PROVE  AuthInv'
  <1>1. AuthTypeOK /\ FlowInv /\ CredInv /\ GoneInv
    BY DEF AuthInv
  <1>2. /\ drv.pc = "complete" /\ drv.flow \in Flows
        /\ UNCHANGED <<replaces, driving, code, logins, running, cred,
                       referred, refresh, alive, reported, stored, newest>>
    BY <1>1 DEF DriveComplete, FlowInv
  <1>3. CASE drv' = Idle /\ UNCHANGED <<flow, row, gone>>
    <2>1. FlowInv'
      BY <1>1, <1>2, <1>3 DEF FlowInv, Idle
    <2>2. AuthTypeOK'
      BY <1>1, <1>2, <1>3 DEF AuthTypeOK, Idle
    <2>3. CredInv' /\ GoneInv'
      BY <1>2, <1>3, AccountStays DEF accVars, seenVars, Idle
    <2> QED BY <2>1, <2>2, <2>3 DEF AuthInv
  <1>4. CASE /\ drv' = [drv EXCEPT !.pc = "save"]
             /\ flow' = [flow EXCEPT ![drv.flow] = "completed"]
             /\ row' = IF drv.mine /\ row = "absent" THEN "shown" ELSE row
             /\ gone' = (gone /\ ~drv.mine)
    <2>1. /\ drv'.pc = "save" /\ drv'.flow = drv.flow /\ drv'.mine = drv.mine
          /\ drv' \in [pc : {"idle", "poll", "confirm", "complete", "save"},
                       flow : Flows \cup {NoFlow}, mine : BOOLEAN]
      BY <1>1, <1>4 DEF AuthTypeOK
    <2>2. /\ flow' \in [Flows -> FlowStatus \cup {"none"}]
          /\ flow'[drv.flow] = "completed"
          /\ \A g \in Flows : flow[g] = "completed" => flow'[g] = "completed"
      BY <1>1, <1>2, <1>4 DEF AuthTypeOK, FlowStatus
    <2>3. FlowInv'
      BY <1>1, <1>2, <2>1, <2>2 DEF FlowInv, AuthTypeOK
    <2>4. AuthTypeOK'
      BY <1>1, <1>2, <1>4, <2>1, <2>2 DEF AuthTypeOK
    <2>5. CredInv'
      BY <1>1, <1>2 DEF CredInv, InSpan
    <2>6. GoneInv'
      BY <1>1, <1>2, <1>4, <2>1 DEF GoneInv, InFlight
    <2> QED BY <2>3, <2>4, <2>5, <2>6 DEF AuthInv
  <1> QED BY <1>3, <1>4 DEF DriveComplete

\* The login is stored, and its profile asked for.
LEMMA StoringKeeps ==
    ASSUME AuthInv, DriveSave
    PROVE  AuthInv'
  <1> DEFINE gen == Span * (logins + 1)
             ok == drv.mine /\ row # "absent" /\ Newer(gen)
  <1>1. AuthTypeOK /\ FlowInv /\ CredInv /\ GoneInv
    BY DEF AuthInv
  <1>2. /\ drv.pc = "save" /\ drv.flow \in Flows /\ flow[drv.flow] = "completed"
        /\ drv' = Idle /\ driving' = driving \ {drv.flow}
        /\ UNCHANGED <<flow, replaces, code, row, running, referred, alive,
                       reported, gone>>
    BY <1>1 DEF DriveSave, FlowInv
  <1>3. /\ refresh' \in [Refreshers -> [pc : {"idle", "load", "fetch", "save"}, blob : Creds]]
        /\ \A r \in Refreshers : /\ refresh'[r].blob = refresh[r].blob
                                 /\ \/ refresh'[r].pc = refresh[r].pc
                                    \/ refresh[r].pc = "idle" /\ refresh'[r].pc = "load"
    <2>1. refresh' = refresh \/ \E r \in Refreshers : /\ refresh[r].pc = "idle"
                                                      /\ refresh' = [refresh EXCEPT ![r].pc = "load"]
      BY DEF DriveSave
    <2>2. refresh \in [Refreshers -> [pc : {"idle", "load", "fetch", "save"}, blob : Creds]]
      BY <1>1 DEF AuthTypeOK
    <2>3. CASE refresh' = refresh
      BY <2>2, <2>3
    <2>4. CASE refresh' # refresh
      <3>1. PICK r \in Refreshers : /\ refresh[r].pc = "idle"
                                    /\ refresh' = [refresh EXCEPT ![r].pc = "load"]
        BY <2>1, <2>4
      <3>2. /\ refresh'[r] = [pc |-> "load", blob |-> refresh[r].blob]
            /\ \A x \in Refreshers \ {r} : refresh'[x] = refresh[x]
        BY <2>2, <3>1
      <3>3. \A x \in Refreshers : refresh'[x] \in [pc : {"idle", "load", "fetch", "save"}, blob : Creds]
        BY <2>2, <3>2
      <3>4. refresh' \in [Refreshers -> [pc : {"idle", "load", "fetch", "save"}, blob : Creds]]
        BY <2>2, <3>1, <3>3
      <3>5. \A x \in Refreshers : /\ refresh'[x].blob = refresh[x].blob
                                  /\ \/ refresh'[x].pc = refresh[x].pc
                                     \/ refresh[x].pc = "idle" /\ refresh'[x].pc = "load"
        BY <3>1, <3>2
      <3> QED BY <3>4, <3>5
    <2> QED BY <2>3, <2>4
  <1>4. logins \in Nat /\ logins + 1 \in Nat /\ logins + 1 # 0
        /\ gen \in Nat /\ InSpan([gen |-> gen, from |-> logins + 1])
    BY <1>1, SpanBegins DEF AuthTypeOK
  <1>5. CASE ok
    <2>1. /\ cred' = [gen |-> gen, from |-> logins + 1] /\ logins' = logins + 1
          /\ stored' = stored \cup {drv.flow} /\ newest' = logins + 1
      BY <1>5 DEF DriveSave
    <2>2. drv.mine
      BY <1>5
    <2> HIDE DEF gen, ok
    <2>3. AuthTypeOK'
      BY <1>1, <1>2, <1>3, <1>4, <2>1 DEF AuthTypeOK, Creds, Idle
    <2>4. FlowInv'
      BY <1>1, <1>2, <2>1 DEF FlowInv, Idle
    <2>5. CredInv'
      <3>1. InSpan(cred)'
        BY <1>4, <2>1 DEF InSpan
      <3>2. ASSUME NEW r \in Refreshers
            PROVE  (InSpan(refresh[r].blob) /\ refresh[r].blob.from <= logins)'
        <4>1. refresh[r].blob.from \in Nat /\ refresh[r].blob.from <= logins
              /\ InSpan(refresh[r].blob)
          BY <1>1 DEF AuthTypeOK, Creds, CredInv
        <4>2. refresh[r].blob.from <= logins + 1
          BY <1>4, <4>1
        <4> QED BY <1>3, <2>1, <4>1, <4>2 DEF InSpan
      <3>3. cred'.from = newest' /\ newest' = logins' /\ cred'.from <= logins'
        BY <1>4, <2>1
      <3> QED BY <3>1, <3>2, <3>3 DEF CredInv
    <2>6. GoneInv'
      BY <1>1, <1>2, <2>2 DEF GoneInv, InFlight
    <2> QED BY <2>3, <2>4, <2>5, <2>6 DEF AuthInv
  <1>6. CASE ~ok
    <2>1. UNCHANGED <<cred, logins, stored, newest, refresh>>
      BY <1>6 DEF DriveSave
    <2> HIDE DEF gen, ok
    <2>2. AuthTypeOK'
      BY <1>1, <1>2, <2>1 DEF AuthTypeOK, Idle
    <2>3. FlowInv'
      BY <1>1, <1>2, <2>1 DEF FlowInv, Idle
    <2>4. CredInv'
      BY <1>1, <2>1 DEF CredInv, InSpan
    <2>5. GoneInv'
      BY <1>1, <1>2, <2>1 DEF GoneInv, InFlight, Idle
    <2> QED BY <2>2, <2>3, <2>4, <2>5 DEF AuthInv
  <1> QED BY <1>5, <1>6

\* ProfileService::refresh, at whatever point.
LEMMA RefreshingKeeps ==
    ASSUME AuthInv, NEW r \in Refreshers,
           AskRefresh(r) \/ RefreshLoad(r) \/ RefreshFetched(r) \/ RefreshSave(r)
    PROVE  AuthInv'
  <1>1. AuthTypeOK /\ FlowInv /\ CredInv /\ GoneInv
    BY DEF AuthInv
  <1>2. /\ UNCHANGED <<flow, replaces, driving, code, drv, logins, row, running, referred,
                       alive, reported, stored, newest, gone>>
    BY DEF AskRefresh, RefreshLoad, RefreshFetched, RefreshSave, flowVars, accVars, seenVars
  <1>3. NoCred \in Creds /\ cred \in Creds /\ InSpan(NoCred) /\ NoCred.from <= logins
    <2>1. Span * 0 = 0 /\ Span * (0 + 1) = Span /\ Span > 0
      BY SpanAssumption
    <2>2. logins \in Nat /\ cred \in Creds
      BY <1>1 DEF AuthTypeOK
    <2> QED BY <2>1, <2>2 DEF InSpan, NoCred, Creds
  <1>4. PICK pc \in {"idle", "load", "fetch", "save"},
             blob \in {refresh[r].blob, NoCred, cred} :
             refresh' = [refresh EXCEPT ![r] = [pc |-> pc, blob |-> blob]]
    BY <1>1 DEF AskRefresh, RefreshLoad, RefreshFetched, RefreshSave, AuthTypeOK
  <1>5. /\ refresh' \in [Refreshers -> [pc : {"idle", "load", "fetch", "save"}, blob : Creds]]
        /\ refresh'[r].blob = blob
        /\ \A x \in Refreshers \ {r} : refresh'[x] = refresh[x]
    BY <1>1, <1>3, <1>4 DEF AuthTypeOK
  <1>6. ASSUME NEW x \in Refreshers
        PROVE  (InSpan(refresh[x].blob) /\ refresh[x].blob.from <= logins)'
    <2>1. InSpan(refresh[x].blob) /\ refresh[x].blob.from <= logins
          /\ InSpan(cred) /\ cred.from <= logins
      BY <1>1 DEF CredInv
    <2>2. refresh'[x].blob \in {refresh[x].blob, NoCred, cred}
      BY <1>4, <1>5
    <2> QED BY <1>2, <1>3, <2>1, <2>2 DEF InSpan
  <1>7. FlowInv'
    BY <1>1, <1>2 DEF FlowInv
  <1>8. CASE cred' = cred /\ (refresh'[r].pc \in {"fetch", "save"} =>
                                  refresh[r].pc = "fetch" \/ cred # NoCred)
    <2>1. AuthTypeOK'
      BY <1>1, <1>2, <1>5, <1>8 DEF AuthTypeOK
    <2>2. CredInv'
      BY <1>1, <1>2, <1>6, <1>8 DEF CredInv, InSpan
    <2>3. GoneInv'
      BY <1>1, <1>2, <1>5, <1>8 DEF GoneInv, InFlight
    <2> QED BY <1>7, <2>1, <2>2, <2>3 DEF AuthInv
  <1>9. CASE RefreshSave(r) /\ cred' # cred
    <2>1. /\ refresh[r].pc = "save" /\ Newer(refresh[r].blob.gen + 1)
          /\ refresh[r].blob.gen + 1 < Span * (refresh[r].blob.from + 1)
          /\ cred' = [gen |-> refresh[r].blob.gen + 1, from |-> refresh[r].blob.from]
      BY <1>9 DEF RefreshSave
    <2>2. /\ refresh[r].blob.gen \in Nat /\ refresh[r].blob.from \in Nat
          /\ Span * refresh[r].blob.from \in Nat
          /\ Span * refresh[r].blob.from <= refresh[r].blob.gen
          /\ refresh[r].blob.from <= logins
      BY <1>1, SpanAssumption DEF AuthTypeOK, Creds, CredInv, InSpan
    <2>3. cred' \in Creds /\ InSpan(cred)' /\ cred'.from <= logins'
      BY <1>2, <2>1, <2>2 DEF Creds, InSpan
    <2>4. newest # 0 => cred'.from = newest
      BY <2>1, OlderRefused
    <2>5. AuthTypeOK'
      BY <1>1, <1>2, <1>5, <2>3 DEF AuthTypeOK
    <2>6. CredInv'
      BY <1>1, <1>2, <1>6, <2>3, <2>4 DEF CredInv
    <2>7. GoneInv'
      BY <1>1, <1>2, <2>1 DEF GoneInv, InFlight
    <2> QED BY <1>7, <2>5, <2>6, <2>7 DEF AuthInv
  <1>10. CASE RefreshSave(r) /\ cred' = cred
    BY <1>1, <1>5, <1>8, <1>10 DEF RefreshSave, AuthTypeOK
  <1>11. CASE AskRefresh(r) \/ RefreshLoad(r) \/ RefreshFetched(r)
    BY <1>1, <1>5, <1>8, <1>11 DEF AskRefresh, RefreshLoad, RefreshFetched, AuthTypeOK, accVars
  <1> QED BY <1>9, <1>10, <1>11

\* The switch, the task, its reports, orders, and the removal.
LEMMA AccountKeeps ==
    ASSUME AuthInv,
           \/ \E on \in BOOLEAN : SetRunning(on)
           \/ SupervisorTick \/ WriteStatus \/ OrderArrives \/ RemoveAccount
    PROVE  AuthInv'
  <1>1. AuthTypeOK /\ FlowInv /\ CredInv /\ GoneInv
    BY DEF AuthInv
  <1>2. UNCHANGED <<flow, replaces, driving, code, drv, logins, refresh, stored>>
    BY DEF SetRunning, SupervisorTick, WriteStatus, OrderArrives, RemoveAccount, flowVars, seenVars
  <1>3. FlowInv'
    BY <1>1, <1>2 DEF FlowInv
  <1>4. AuthTypeOK'
    <2>1. /\ row' \in {"absent", "shown", "hidden"} /\ cred' \in Creds /\ newest' \in Nat
      BY <1>1 DEF AuthTypeOK, SetRunning, SupervisorTick, WriteStatus, OrderArrives,
                  RemoveAccount, Creds, NoCred, accVars, seenVars
    <2>2. running' \in BOOLEAN /\ referred' \in BOOLEAN
      BY <1>1 DEF AuthTypeOK, SetRunning, SupervisorTick, WriteStatus, OrderArrives,
                  RemoveAccount, accVars
    <2>3. alive' \in BOOLEAN
      BY <1>1 DEF AuthTypeOK, SetRunning, SupervisorTick, WriteStatus, OrderArrives, RemoveAccount
    <2>4. reported' \in BOOLEAN
      BY <1>1 DEF AuthTypeOK, SetRunning, SupervisorTick, WriteStatus, OrderArrives, RemoveAccount
    <2>5. gone' \in BOOLEAN
      BY <1>1 DEF AuthTypeOK, SetRunning, SupervisorTick, WriteStatus, OrderArrives,
                  RemoveAccount, seenVars, InFlight
    <2> QED BY <1>1, <1>2, <2>1, <2>2, <2>3, <2>4, <2>5 DEF AuthTypeOK
  <1>5. CredInv'
    <2>1. CASE RemoveAccount
      <3>1. InSpan(NoCred) /\ NoCred.from <= logins
        <4>1. Span * 0 = 0 /\ Span * (0 + 1) = Span /\ Span > 0 /\ logins \in Nat
          BY <1>1, SpanAssumption DEF AuthTypeOK
        <4> QED BY <4>1 DEF InSpan, NoCred
      <3>2. cred' = NoCred /\ newest' = 0
        BY <2>1 DEF RemoveAccount
      <3> QED BY <1>1, <1>2, <3>1, <3>2 DEF CredInv, InSpan
    <2>2. CASE ~RemoveAccount
      BY <1>1, <1>2, <2>2 DEF CredInv, InSpan, SetRunning, SupervisorTick, WriteStatus,
                              OrderArrives, accVars, seenVars
    <2> QED BY <2>1, <2>2
  <1>6. GoneInv'
    BY <1>1, <1>2 DEF GoneInv, InFlight, AuthTypeOK, SetRunning, SupervisorTick,
                      WriteStatus, OrderArrives, RemoveAccount, accVars, seenVars
  <1> QED BY <1>3, <1>4, <1>5, <1>6 DEF AuthInv

\* The invariant of flows, credentials and removals is inductive.
LEMMA AuthorizationStep == AuthInv /\ [AuthNext]_authVars => AuthInv'
  <1> SUFFICES ASSUME AuthInv, [AuthNext]_authVars PROVE AuthInv'
    OBVIOUS
  <1>1. CASE UNCHANGED authVars
    <2>1. AuthTypeOK' /\ FlowInv'
      BY <1>1 DEF AuthInv, AuthTypeOK, FlowInv, authVars, flowVars, accVars, seenVars
    <2>2. CredInv' /\ GoneInv'
      BY <1>1, AccountStays DEF authVars, flowVars, accVars, seenVars
    <2> QED BY <2>1, <2>2 DEF AuthInv
  <1>2. CASE AuthNext
    BY <1>2, AskingKeeps, DrivingKeeps, CompletingKeeps, StoringKeeps, RefreshingKeeps,
       AccountKeeps DEF AuthNext
  <1> QED BY <1>1, <1>2

\* However late a scan is confirmed, however logins and refreshes interleave, and
\* whenever the account is removed (qr.rs, profile.rs, removal.rs): only a flow
\* that completed gives a login, the newest login is the one kept, and an account
\* removed with nothing in flight stays removed.
THEOREM AuthorizationIsSafe == AuthSpec => []AuthorizationSafe
  <1>1. AuthInv => AuthorizationSafe
    BY DEF AuthInv, FlowInv, CredInv, GoneInv, AuthorizationSafe, OnlyCompletedStored,
           NewestLoginKept, RemovedStaysRemoved
  <1> QED BY <1>1, AuthorizationInitially, AuthorizationStep, PTL DEF AuthSpec

-----------------------------------------------------------------------------
(* The restored database *)

Reviewing == restoring \in {"reviewed", "keyed"}

\* The stages in their order: the program runs on what was written at least, the
\* epoch is still 0 up to there, and reviews are written at the end.
StageInv ==
    /\ serving => over
    /\ over => restoring # "backed_up"
    /\ epoch = 0 <=> restoring \in {"backed_up", "written"}
    /\ again # {} => over /\ restoring = "written"
    /\ \A o \in Sales : verdict[o] # "none" => Reviewing

\* A review is of a delivery the backup knew.
ReviewInv ==
    /\ Reviewing => \A o \in Sales :
           o \in reached /\ content[o] \in Unfinished => verdict[o] # "none"
    /\ \A o \in Sales : verdict[o] = "unresolved" => content[o] # "none"
    /\ DecidedIsKept

RestoreInv == RestoreTypeOK /\ StageInv /\ ReviewInv

\* The stages, as a set.
LEMMA RestoreStagesAre ==
    {RestoreStages[i] : i \in DOMAIN RestoreStages} =
        {"backed_up", "written", "marked", "paused", "reviewed", "keyed"}
  <1>1. DOMAIN RestoreStages = {1, 2, 3, 4, 5, 6}
    BY DEF RestoreStages
  <1> QED BY <1>1 DEF RestoreStages

\* A program that starts on a restored database satisfies the invariant.
LEMMA RestoreInitially == RestoreInit => RestoreInv
  <1> SUFFICES ASSUME RestoreInit PROVE RestoreInv
    OBVIOUS
  <1>1. restoring \in {RestoreStages[i] : i \in DOMAIN RestoreStages}
    BY RestoreStagesAre DEF RestoreInit
  <1>2. RestoreTypeOK
    <2>1. content \in [Sales -> Contents] /\ reached \subseteq Sales
      BY DEF RestoreInit
    <2>2. verdict \in [Sales -> {"none", "unresolved"} \cup Decisions]
      BY DEF RestoreInit
    <2>3. epoch \in 0..1 /\ again \subseteq Sales
      BY DEF RestoreInit
    <2> QED BY <1>1, <2>1, <2>2, <2>3 DEF RestoreInit, RestoreTypeOK
  <1>3. StageInv /\ ReviewInv
    BY DEF RestoreInit, StageInv, ReviewInv, Reviewing, DecidedIsKept
  <1> QED BY <1>2, <1>3 DEF RestoreInv

\* A step of the restored program leaves its state well typed.
LEMMA RestoreTypeStep ==
    ASSUME RestoreTypeOK, StageInv, RestoreNext
    PROVE  RestoreTypeOK'
  <1> USE DEF decisionVars
  <1>1. CASE WriteDatabase \/ MarkEpoch \/ PauseAccounts \/ OpenReviews \/ WriteKey \/ CutOff
    <2>1. restoring' \in {RestoreStages[i] : i \in DOMAIN RestoreStages}
      BY <1>1, RestoreStagesAre
      DEF RestoreTypeOK, WriteDatabase, MarkEpoch, PauseAccounts, OpenReviews, WriteKey,
          CutOff, Reach
    <2>2. epoch' \in 0..1
      BY <1>1 DEF RestoreTypeOK, StageInv, WriteDatabase, MarkEpoch, PauseAccounts,
                  OpenReviews, WriteKey, CutOff, Reach
    <2>3. verdict' \in [Sales -> {"none", "unresolved"} \cup Decisions]
      BY <1>1 DEF RestoreTypeOK, WriteDatabase, MarkEpoch, PauseAccounts, OpenReviews,
                  WriteKey, CutOff
    <2> QED
      BY <1>1, <2>1, <2>2, <2>3
      DEF RestoreTypeOK, WriteDatabase, MarkEpoch, PauseAccounts, OpenReviews, WriteKey, CutOff
  <1>2. CASE Serve \/ SignIn \/ EnableAccount
    BY <1>2 DEF RestoreTypeOK, Serve, SignIn, EnableAccount, Contents, Unfinished
  <1>3. ASSUME NEW o \in Sales, DeliverMeanwhile(o) \/ DeliverRestored(o) \/ DecideAgain(o)
        PROVE  RestoreTypeOK'
    BY <1>3 DEF RestoreTypeOK, DeliverMeanwhile, DeliverRestored, DecideAgain, Contents
  <1>4. ASSUME NEW o \in Sales, NEW d \in Decisions, NEW n \in 1..4, Decide(o, d, n)
        PROVE  RestoreTypeOK'
    BY <1>4 DEF RestoreTypeOK, Decide, Contents
  <1> QED BY <1>1, <1>2, <1>3, <1>4 DEF RestoreNext

\* The invariant of the restore is inductive.
LEMMA RestoreStep == RestoreInv /\ [RestoreNext]_restoreVars => RestoreInv'
  <1> SUFFICES ASSUME RestoreInv, [RestoreNext]_restoreVars PROVE RestoreInv'
    OBVIOUS
  <1> USE RestoreStagesAre DEF RestoreInv, decisionVars
  <1>1. CASE UNCHANGED restoreVars
    BY <1>1 DEF restoreVars, RestoreTypeOK, StageInv, ReviewInv, Reviewing, DecidedIsKept
  <1>2. CASE WriteDatabase \/ MarkEpoch \/ PauseAccounts \/ OpenReviews \/ WriteKey \/ CutOff
    <2>1. RestoreNext
      BY <1>2 DEF RestoreNext
    <2>2. StageInv'
      BY <1>2 DEF StageInv, Reviewing, RestoreTypeOK, WriteDatabase, MarkEpoch, PauseAccounts,
                  OpenReviews, WriteKey, CutOff, Reach
    <2>3. ReviewInv'
      BY <1>2 DEF StageInv, ReviewInv, Reviewing, DecidedIsKept, Quarantined, Unfinished,
                  RestoreTypeOK, WriteDatabase, MarkEpoch, PauseAccounts, OpenReviews,
                  WriteKey, CutOff, Reach
    <2> QED BY <2>1, <2>2, <2>3, RestoreTypeStep
  <1>3. CASE Serve \/ SignIn \/ EnableAccount
    <2>1. RestoreNext
      BY <1>3 DEF RestoreNext
    <2>2. StageInv'
      BY <1>3 DEF StageInv, Reviewing, Serve, SignIn, EnableAccount
    <2>3. ReviewInv'
      BY <1>3 DEF ReviewInv, Reviewing, DecidedIsKept, Unfinished, RestoreTypeOK, Serve,
                  SignIn, EnableAccount
    <2> QED BY <2>1, <2>2, <2>3, RestoreTypeStep
  <1>4. ASSUME NEW o \in Sales, DeliverMeanwhile(o) \/ DeliverRestored(o) \/ DecideAgain(o)
        PROVE  RestoreInv'
    <2>1. RestoreNext
      BY <1>4 DEF RestoreNext
    <2>2. StageInv'
      BY <1>4 DEF StageInv, Reviewing, RestoreTypeOK, DeliverMeanwhile, DeliverRestored,
                  DecideAgain
    <2>3. ReviewInv'
      BY <1>4 DEF StageInv, ReviewInv, Reviewing, DecidedIsKept, RestoreTypeOK,
                  DeliverMeanwhile, DeliverRestored, DecideAgain
    <2> QED BY <2>1, <2>2, <2>3, RestoreTypeStep
  <1>5. ASSUME NEW o \in Sales, NEW d \in Decisions, NEW n \in 1..4, Decide(o, d, n)
        PROVE  RestoreInv'
    <2>1. RestoreNext
      BY <1>5 DEF RestoreNext
    <2>2. StageInv'
      BY <1>5 DEF StageInv, Reviewing, RestoreTypeOK, Decide
    <2>3. ReviewInv'
      BY <1>5 DEF ReviewInv, Reviewing, DecidedIsKept, Unfinished, Contents, Decisions,
                  RestoreTypeOK, Decide
    <2> QED BY <2>1, <2>2, <2>3, RestoreTypeStep
  <1> QED BY <1>1, <1>2, <1>3, <1>4, <1>5 DEF RestoreNext

\* What a restore promises (backup/restore.rs, restore_api.rs) follows from its invariant.
LEMMA RestoreHolds == RestoreInv => RestoreTypeOK /\ RestoreSafe
  BY DEF RestoreInv, StageInv, ReviewInv, Reviewing, RestoreSafe, NothingSentAgain,
         WhatMayBeSentIsReviewed

-----------------------------------------------------------------------------
(* The connection with the platform *)

\* The places a session's entries are at: those handled come first, then those in
\* the queue of events, with the pump, before it, and just read.
Cut == [handled : Nat, events : Nat, pump : Nat, msgs : Nat, read : Nat]

Way(s, k) ==
    /\ k.handled <= k.events /\ k.events <= k.pump /\ k.pump <= k.msgs
    /\ k.msgs <= k.read /\ k.read <= pushed[s]
    /\ Carries(handled, s, 0, k.handled)
    /\ Carries(events, s, k.handled, k.events)
    /\ Carries(pumping[s], s, k.events, k.pump)
    /\ Carries(msgs[s], s, k.pump, k.msgs)
    /\ Carries(holding, s, k.msgs, k.read)

\* The frames on the wire carry the entries after the last that was read, up to
\* the last that was pushed, frame by frame.
Piece(frame, a, b) ==
    \/ "answer" \in DOMAIN frame /\ a = b
    \/ /\ "push" \in DOMAIN frame /\ a <= b
       /\ frame.push = [i \in 1..(b - a) |-> <<session, a + i>>]

Lined(start, read) ==
    /\ start[1] = read /\ start[Len(wire) + 1] = pushed[session]
    /\ \A i \in 1..Len(wire) : Piece(wire[i], start[i], start[i + 1])

LinedUp(read) == \E start \in [1..(Len(wire) + 1) -> 0..pushed[session]] : Lined(start, read)

WayInv ==
    \A s \in Sessions_ : \E k \in Cut :
        Way(s, k) /\ (s = session /\ link # "down" => LinedUp(k.read))

\* Each queue of a session has its own entries, and nothing is left of one that has
\* ended, or begun of one that has not; only what arrived is answered.
OwnInv ==
    /\ \A s \in Sessions_ :
           /\ \A i \in DOMAIN msgs[s] : msgs[s][i][1] = s
           /\ \A i \in DOMAIN pumping[s] : pumping[s][i][1] = s
           /\ s > session => pushed[s] = 0
    /\ \A i \in DOMAIN holding : holding[i][1] = session
    /\ link = "down" => wire = <<>> /\ holding = <<>>
    /\ link # "down" => session \in Sessions_
    /\ \A i \in DOMAIN wire : "answer" \in DOMAIN wire[i] => wire[i].answer \in arrived

WireInv == WireTypeOK /\ WayInv /\ OwnInv /\ WaitersAreKnown /\ AnsweredHasArrived

-----------------------------------------------------------------------------
\* While the wire stays as it is, so does its order.
LEMMA LineStays ==
    ASSUME NEW read, LinedUp(read), UNCHANGED <<session, wire, pushed>>
    PROVE  LinedUp(read)'
  <1>1. session' = session /\ wire' = wire /\ pushed' = pushed
    OBVIOUS
  <1>2. PICK start \in [1..(Len(wire) + 1) -> 0..pushed[session]] : Lined(start, read)
    BY DEF LinedUp
  <1>3. Lined(start, read)'
    BY <1>1, <1>2 DEF Lined, Piece
  <1> QED BY <1>1, <1>2, <1>3 DEF LinedUp

\* What a queue carries, when something is added to it or taken from it.
LEMMA CarriesNone == ASSUME NEW s, NEW a \in Nat PROVE Carries(<<>>, s, a, a)
  BY DEF Carries

\* An entry at the end is the next of its session, or of another.
LEMMA CarriesAppend ==
    ASSUME NEW queue \in Seq(Entries), NEW e \in Entries, NEW s, NEW a \in Nat, NEW b \in Nat,
           Carries(queue, s, a, b), a <= b
    PROVE  /\ e = <<s, b + 1>> => Carries(Append(queue, e), s, a, b + 1)
           /\ e[1] # s => Carries(Append(queue, e), s, a, b)
  <1>1. PICK n \in Nat : n = Len(queue)
    BY LenProperties
  <1>2. PICK more \in Seq(Entries) : more = Append(queue, e)
    BY AppendProperties
  <1>3. /\ DOMAIN queue = 1..n /\ DOMAIN more = 1..(n + 1) /\ more[n + 1] = e
        /\ \A k \in 1..n : more[k] = queue[k]
    BY <1>1, <1>2, AppendProperties, LenProperties
  <1>4. ASSUME e = <<s, b + 1>>
        PROVE  Carries(more, s, a, b + 1)
    <2>1. \A k \in DOMAIN more : more[k][1] = s => more[k][2] \in (a + 1)..(b + 1)
      <3> SUFFICES ASSUME NEW k \in 1..(n + 1), more[k][1] = s PROVE more[k][2] \in (a + 1)..(b + 1)
        BY <1>3
      <3>1. CASE k = n + 1
        BY <1>3, <1>4, <3>1
      <3>2. CASE k \in 1..n
        <4>1. more[k] = queue[k] /\ queue[k][2] \in (a + 1)..b
          BY <1>3, <3>2 DEF Carries
        <4>2. (a + 1)..b \subseteq (a + 1)..(b + 1)
          BY <1>1
        <4> QED BY <4>1, <4>2
      <3> QED BY <3>1, <3>2
    <2>2. \A m \in (a + 1)..(b + 1) : \E k \in DOMAIN more : more[k] = <<s, m>>
      <3> SUFFICES ASSUME NEW m \in (a + 1)..(b + 1) PROVE \E k \in 1..(n + 1) : more[k] = <<s, m>>
        BY <1>3
      <3>1. CASE m = b + 1
        BY <1>3, <1>4, <3>1
      <3>2. CASE m \in (a + 1)..b
        <4>1. PICK k \in 1..n : queue[k] = <<s, m>>
          BY <1>3, <3>2 DEF Carries
        <4>2. k \in 1..(n + 1) /\ more[k] = queue[k]
          BY <1>3
        <4> QED BY <4>1, <4>2
      <3>3. m = b + 1 \/ m \in (a + 1)..b
        OBVIOUS
      <3> QED BY <3>1, <3>2, <3>3
    <2>3. \A j, k \in DOMAIN more :
              j < k /\ more[j][1] = s /\ more[k][1] = s => more[j][2] < more[k][2]
      <3> SUFFICES ASSUME NEW j \in 1..(n + 1), NEW k \in 1..(n + 1), j < k,
                          more[j][1] = s, more[k][1] = s
                   PROVE  more[j][2] < more[k][2]
        BY <1>3
      <3>1. j \in 1..n /\ more[j] = queue[j] /\ queue[j][2] \in (a + 1)..b
        BY <1>3 DEF Carries
      <3>2. CASE k = n + 1
        BY <1>3, <1>4, <3>1, <3>2
      <3>3. CASE k \in 1..n
        BY <1>3, <3>1, <3>3 DEF Carries
      <3> QED BY <3>2, <3>3
    <2> QED BY <2>1, <2>2, <2>3 DEF Carries
  <1>5. ASSUME e[1] # s
        PROVE  Carries(more, s, a, b)
    <2>1. \A k \in 1..(n + 1) : more[k][1] = s => k \in 1..n
      BY <1>3, <1>5
    <2>2. \A m \in (a + 1)..b : \E k \in 1..n : queue[k] = <<s, m>>
      BY <1>3 DEF Carries
    <2>3. \A k \in 1..n : k \in DOMAIN more
      BY <1>3
    <2> QED BY <1>3, <2>1, <2>2, <2>3 DEF Carries
  <1> QED BY <1>2, <1>4, <1>5

\* The first entry is the next of its session, or of another.
LEMMA CarriesTail ==
    ASSUME NEW queue \in Seq(Entries), queue # <<>>, NEW s, NEW a \in Nat, NEW b \in Nat,
           Carries(queue, s, a, b), a <= b
    PROVE  /\ Head(queue)[1] = s =>
                  /\ Head(queue) = <<s, a + 1>> /\ a + 1 <= b
                  /\ Carries(Tail(queue), s, a + 1, b)
           /\ Head(queue)[1] # s => Carries(Tail(queue), s, a, b)
  <1>1. PICK n \in Nat : n + 1 = Len(queue)
    <2>1. Len(queue) \in Nat \ {0}
      BY EmptySeq, LenProperties
    <2>2. Len(queue) - 1 \in Nat /\ (Len(queue) - 1) + 1 = Len(queue)
      BY <2>1
    <2> QED BY <2>2
  <1>2. PICK rest \in Seq(Entries) : rest = Tail(queue)
    BY HeadTailProperties
  <1>3. /\ DOMAIN queue = 1..(n + 1) /\ DOMAIN rest = 1..n /\ Head(queue) = queue[1]
        /\ \A k \in 1..n : rest[k] = queue[k + 1]
    <2>1. Len(rest) = n /\ \A k \in 1..n : rest[k] = queue[k + 1]
      BY <1>1, <1>2, HeadTailProperties
    <2> QED BY <1>1, <1>2, <2>1, LenProperties
  <1>4. PICK e \in Entries : e = queue[1]
    BY <1>1, <1>3, ElementOfSeq
  <1>5. ASSUME e[1] = s
        PROVE  /\ e = <<s, a + 1>> /\ a + 1 <= b
               /\ Carries(rest, s, a + 1, b)
    <2>1. PICK x \in (a + 1)..b : e = <<s, x>>
      <3>1. e[2] \in (a + 1)..b
        BY <1>3, <1>4, <1>5 DEF Carries
      <3>2. e = <<e[1], e[2]>>
        BY DEF Entries
      <3> QED BY <1>5, <3>1, <3>2
    <2>2. \A k \in 2..(n + 1) : queue[k][1] = s => queue[k][2] > x
      <3> SUFFICES ASSUME NEW k \in 2..(n + 1), queue[k][1] = s PROVE queue[k][2] > x
        OBVIOUS
      <3>1. 1 \in 1..(n + 1) /\ k \in 1..(n + 1) /\ 1 < k
        OBVIOUS
      <3>2. queue[1][2] < queue[k][2] /\ queue[k][2] \in (a + 1)..b
        BY <1>3, <1>4, <1>5, <3>1 DEF Carries
      <3> QED BY <1>4, <2>1, <3>2
    <2>3. PICK k \in 1..(n + 1) : queue[k] = <<s, a + 1>>
      <3>1. a + 1 \in (a + 1)..b
        BY <2>1
      <3> QED BY <1>3, <3>1 DEF Carries
    <2>4. x = a + 1
      <3>1. CASE k = 1
        <4>1. e = <<s, x>> /\ e = <<s, a + 1>>
          BY <1>4, <2>1, <2>3, <3>1
        <4>2. e[2] = x /\ e[2] = a + 1
          BY <4>1
        <4> QED BY <4>2
      <3>2. CASE k # 1
        <4>1. k \in 2..(n + 1) /\ queue[k][1] = s /\ queue[k][2] = a + 1
          BY <2>3, <3>2
        <4> QED BY <2>1, <2>2, <4>1
      <3> QED BY <3>1, <3>2
    <2>5. \A j \in DOMAIN rest : rest[j][1] = s => rest[j][2] \in (a + 2)..b
      <3> SUFFICES ASSUME NEW j \in 1..n, rest[j][1] = s PROVE rest[j][2] \in (a + 2)..b
        BY <1>3
      <3>1. j + 1 \in 2..(n + 1) /\ j + 1 \in 1..(n + 1) /\ rest[j] = queue[j + 1]
        BY <1>3
      <3>2. queue[j + 1][2] \in (a + 1)..b /\ queue[j + 1][2] > x
        BY <1>3, <2>2, <3>1 DEF Carries
      <3> QED BY <2>4, <3>1, <3>2
    <2>6. \A m \in (a + 2)..b : \E j \in DOMAIN rest : rest[j] = <<s, m>>
      <3> SUFFICES ASSUME NEW m \in (a + 2)..b PROVE \E j \in 1..n : rest[j] = <<s, m>>
        BY <1>3
      <3>1. PICK i \in 1..(n + 1) : queue[i] = <<s, m>>
        <4>1. m \in (a + 1)..b
          OBVIOUS
        <4> QED BY <1>3, <4>1 DEF Carries
      <3>2. i # 1
        <4>1. queue[i][2] = m /\ e[2] = a + 1 /\ m # a + 1
          BY <2>1, <2>4, <3>1
        <4> QED BY <1>4, <4>1
      <3>3. i - 1 \in 1..n /\ rest[i - 1] = queue[i]
        BY <1>3, <3>2
      <3> QED BY <3>1, <3>3
    <2>7. \A i, j \in DOMAIN rest :
              i < j /\ rest[i][1] = s /\ rest[j][1] = s => rest[i][2] < rest[j][2]
      <3> SUFFICES ASSUME NEW i \in 1..n, NEW j \in 1..n, i < j, rest[i][1] = s, rest[j][1] = s
                   PROVE  rest[i][2] < rest[j][2]
        BY <1>3
      <3>1. i + 1 \in 1..(n + 1) /\ j + 1 \in 1..(n + 1) /\ i + 1 < j + 1
            /\ rest[i] = queue[i + 1] /\ rest[j] = queue[j + 1]
        BY <1>3
      <3>2. queue[i + 1][1] = s /\ queue[j + 1][1] = s
        BY <3>1
      <3>3. queue[i + 1][2] < queue[j + 1][2]
        BY <1>3, <3>1, <3>2 DEF Carries
      <3> QED BY <3>1, <3>3
    <2>8. (a + 1) + 1 = a + 2 /\ a + 1 <= b
      BY <2>1, <2>4
    <2> QED BY <2>1, <2>4, <2>5, <2>6, <2>7, <2>8 DEF Carries
  <1>6. ASSUME e[1] # s
        PROVE  Carries(rest, s, a, b)
    <2>1. \A j \in DOMAIN rest : rest[j][1] = s => rest[j][2] \in (a + 1)..b
      <3> SUFFICES ASSUME NEW j \in 1..n, rest[j][1] = s PROVE rest[j][2] \in (a + 1)..b
        BY <1>3
      <3>0. j + 1 \in 1..(n + 1)
        OBVIOUS
      <3>1. rest[j] = queue[j + 1]
        BY <1>3
      <3>2. queue[j + 1][1] = s
        BY <3>1
      <3>3. \A k \in 1..(n + 1) : queue[k][1] = s => queue[k][2] \in (a + 1)..b
        BY <1>3 DEF Carries
      <3> QED BY <3>0, <3>1, <3>2, <3>3
    <2>2. \A m \in (a + 1)..b : \E j \in DOMAIN rest : rest[j] = <<s, m>>
      <3> SUFFICES ASSUME NEW m \in (a + 1)..b PROVE \E j \in 1..n : rest[j] = <<s, m>>
        BY <1>3
      <3>1. PICK i \in 1..(n + 1) : queue[i] = <<s, m>>
        BY <1>3 DEF Carries
      <3>2. i # 1
        BY <1>4, <1>6, <3>1
      <3>3. i - 1 \in 1..n /\ rest[i - 1] = queue[i]
        BY <1>3, <3>2
      <3> QED BY <3>1, <3>3
    <2>3. \A i, j \in DOMAIN rest :
              i < j /\ rest[i][1] = s /\ rest[j][1] = s => rest[i][2] < rest[j][2]
      <3> SUFFICES ASSUME NEW i \in 1..n, NEW j \in 1..n, i < j, rest[i][1] = s, rest[j][1] = s
                   PROVE  rest[i][2] < rest[j][2]
        BY <1>3
      <3>1. i + 1 \in 1..(n + 1) /\ j + 1 \in 1..(n + 1) /\ i + 1 < j + 1
            /\ rest[i] = queue[i + 1] /\ rest[j] = queue[j + 1]
        BY <1>3
      <3> QED BY <1>3, <3>1 DEF Carries
    <2> QED BY <2>1, <2>2, <2>3 DEF Carries
  <1> QED BY <1>2, <1>3, <1>4, <1>5, <1>6

\* A frame carries entries of one session, without a gap.
LEMMA CarriesFrame ==
    ASSUME NEW r, NEW a \in Nat, NEW b \in Nat, a <= b,
           NEW frame, DOMAIN frame = 1..(b - a),
           \A i \in 1..(b - a) : frame[i] = <<r, a + i>>
    PROVE  /\ Carries(frame, r, a, b) /\ \A i \in DOMAIN frame : frame[i][1] = r
           /\ \A s, n \in Nat : s # r => Carries(frame, s, n, n)
  <1>1. DOMAIN frame = 1..(b - a) /\ b - a \in Nat /\ \A i \in 1..(b - a) : frame[i] = <<r, a + i>>
    OBVIOUS
  <1>2. \A n \in (a + 1)..b : n - a \in 1..(b - a) /\ a + (n - a) = n
    OBVIOUS
  <1>3. Carries(frame, r, a, b)
    <2>1. \A n \in (a + 1)..b : \E i \in DOMAIN frame : frame[i] = <<r, n>>
      BY <1>1, <1>2
    <2>2. \A i \in DOMAIN frame : frame[i][2] = a + i /\ a + i \in (a + 1)..b
      BY <1>1
    <2>3. \A i \in DOMAIN frame : frame[i][1] = r => frame[i][2] \in (a + 1)..b
      BY <2>2
    <2>4. \A i, j \in DOMAIN frame :
              i < j /\ frame[i][1] = r /\ frame[j][1] = r => frame[i][2] < frame[j][2]
      BY <1>1, <2>2
    <2> QED BY <2>1, <2>3, <2>4 DEF Carries
  <1>4. ASSUME NEW s, NEW n \in Nat, s # r
        PROVE  Carries(frame, s, n, n)
    BY <1>1, <1>4 DEF Carries
  <1> QED BY <1>1, <1>3, <1>4

-----------------------------------------------------------------------------
\* The places after an entry went on.
LEMMA CutMoves ==
    ASSUME NEW k \in Cut
    PROVE  /\ \E l \in Cut : /\ l.handled = k.handled + 1 /\ l.events = k.events /\ l.pump = k.pump
                              /\ l.msgs = k.msgs /\ l.read = k.read
           /\ \E l \in Cut : /\ l.handled = k.handled /\ l.events = k.pump /\ l.pump = k.pump
                              /\ l.msgs = k.msgs /\ l.read = k.read
           /\ \E l \in Cut : /\ l.handled = k.handled /\ l.events = k.events /\ l.pump = k.pump + 1
                              /\ l.msgs = k.msgs /\ l.read = k.read
           /\ \E l \in Cut : /\ l.handled = k.handled /\ l.events = k.events /\ l.pump = k.pump
                              /\ l.msgs = k.msgs + 1 /\ l.read = k.read
  <1>1. k.handled \in Nat /\ k.events \in Nat /\ k.pump \in Nat /\ k.msgs \in Nat /\ k.read \in Nat
    BY DEF Cut
  <1>2. \E l \in Cut : /\ l.handled = k.handled + 1 /\ l.events = k.events /\ l.pump = k.pump
                   /\ l.msgs = k.msgs /\ l.read = k.read
    <2> DEFINE l == [handled |-> k.handled + 1, events |-> k.events, pump |-> k.pump, msgs |-> k.msgs, read |-> k.read]
    <2>1. /\ l \in Cut /\ l.handled = k.handled + 1 /\ l.events = k.events /\ l.pump = k.pump
          /\ l.msgs = k.msgs /\ l.read = k.read
      BY <1>1 DEF Cut
    <2> QED BY <2>1
  <1>3. \E l \in Cut : /\ l.handled = k.handled /\ l.events = k.pump /\ l.pump = k.pump
                   /\ l.msgs = k.msgs /\ l.read = k.read
    <2> DEFINE l == [handled |-> k.handled, events |-> k.pump, pump |-> k.pump, msgs |-> k.msgs, read |-> k.read]
    <2>1. /\ l \in Cut /\ l.handled = k.handled /\ l.events = k.pump /\ l.pump = k.pump
          /\ l.msgs = k.msgs /\ l.read = k.read
      BY <1>1 DEF Cut
    <2> QED BY <2>1
  <1>4. \E l \in Cut : /\ l.handled = k.handled /\ l.events = k.events /\ l.pump = k.pump + 1
                   /\ l.msgs = k.msgs /\ l.read = k.read
    <2> DEFINE l == [handled |-> k.handled, events |-> k.events, pump |-> k.pump + 1, msgs |-> k.msgs, read |-> k.read]
    <2>1. /\ l \in Cut /\ l.handled = k.handled /\ l.events = k.events /\ l.pump = k.pump + 1
          /\ l.msgs = k.msgs /\ l.read = k.read
      BY <1>1 DEF Cut
    <2> QED BY <2>1
  <1>5. \E l \in Cut : /\ l.handled = k.handled /\ l.events = k.events /\ l.pump = k.pump
                   /\ l.msgs = k.msgs + 1 /\ l.read = k.read
    <2> DEFINE l == [handled |-> k.handled, events |-> k.events, pump |-> k.pump, msgs |-> k.msgs + 1, read |-> k.read]
    <2>1. /\ l \in Cut /\ l.handled = k.handled /\ l.events = k.events /\ l.pump = k.pump
          /\ l.msgs = k.msgs + 1 /\ l.read = k.read
      BY <1>1 DEF Cut
    <2> QED BY <2>1
  <1> QED BY <1>2, <1>3, <1>4, <1>5

\* Before the first session every queue is empty.
LEMMA WireInitially == WireInit => WireInv
  <1> SUFFICES ASSUME WireInit PROVE WireInv
    OBVIOUS
  <1> USE WireAssumption DEF WireInit, Sessions_
  <1>1. WireTypeOK
    <2>1. \A S : <<>> \in Seq(S) /\ Len(<<>>) = 0
      OBVIOUS
    <2>2. {MsgBound, EventBound, CmdBound, MaxPushed, MaxSessions} \subseteq Nat
      OBVIOUS
    <2> QED BY <2>1, <2>2 DEF WireTypeOK
  <1>2. WayInv
    <2> DEFINE none == [handled |-> 0, events |-> 0, pump |-> 0, msgs |-> 0, read |-> 0]
    <2>1. none \in Cut
      BY DEF Cut
    <2>2. \A s \in Sessions_ : Way(s, none)
      BY CarriesNone DEF Way
    <2> QED BY <2>1, <2>2 DEF WayInv
  <1>3. OwnInv /\ WaitersAreKnown /\ AnsweredHasArrived
    BY DEF OwnInv, WaitersAreKnown, AnsweredHasArrived, Woken
  <1> QED BY <1>1, <1>2, <1>3 DEF WireInv

\* Where no queue moves, no entry does.
LEMMA WayStays ==
    ASSUME WireInv, UNCHANGED <<pushed, handled, events, pumping, msgs, holding>>,
           link' # "down" => UNCHANGED <<session, wire>> /\ link # "down"
    PROVE  WayInv'
  <1>1. \A s \in Sessions_, k \in Cut : Way(s, k) => Way(s, k)'
    BY DEF Way
  <1>2. ASSUME NEW read, link' # "down", LinedUp(read)
        PROVE  LinedUp(read)'
    <2>1. UNCHANGED <<session, wire, pushed>>
      BY <1>2
    <2> QED BY <1>2, <2>1, LineStays
  <1> QED BY <1>1, <1>2 DEF WireInv, WayInv, Cut

\* What a queue holds, when something is added to it or taken from it.
LEMMA QueueAppend ==
    ASSUME NEW S, NEW queue \in Seq(S), NEW e \in S
    PROVE  ToSet(Append(queue, e)) = ToSet(queue) \cup {e}
  <1>1. PICK n \in Nat : n = Len(queue)
    BY LenProperties
  <1>2. PICK more \in Seq(S) : more = Append(queue, e)
    BY AppendProperties
  <1>3. /\ DOMAIN queue = 1..n /\ DOMAIN more = 1..(n + 1) /\ more[n + 1] = e
        /\ \A k \in 1..n : more[k] = queue[k]
    BY <1>1, <1>2, AppendProperties, LenProperties
  <1>4. 1..(n + 1) = 1..n \cup {n + 1}
    OBVIOUS
  <1> QED BY <1>2, <1>3, <1>4 DEF ToSet

\* What is left of a queue, and what is taken from it.
LEMMA QueueTail ==
    ASSUME NEW S, NEW queue \in Seq(S), queue # <<>>
    PROVE  /\ Head(queue) \in S /\ Tail(queue) \in Seq(S) /\ Len(Tail(queue)) <= Len(queue)
           /\ ToSet(queue) = {Head(queue)} \cup ToSet(Tail(queue))
           /\ \A i \in DOMAIN Tail(queue) : i + 1 \in DOMAIN queue /\ Tail(queue)[i] = queue[i + 1]
           /\ Head(queue) = queue[1] /\ 1 \in DOMAIN queue
  <1>1. Len(queue) \in Nat \ {0} /\ DOMAIN queue = 1..Len(queue)
    BY EmptySeq, LenProperties
  <1>2. PICK n \in Nat : n + 1 = Len(queue)
    <2>1. Len(queue) - 1 \in Nat /\ (Len(queue) - 1) + 1 = Len(queue)
      BY <1>1
    <2> QED BY <2>1
  <1>3. PICK rest \in Seq(S) : rest = Tail(queue)
    BY HeadTailProperties
  <1>4. /\ DOMAIN queue = 1..(n + 1) /\ DOMAIN rest = 1..n /\ Head(queue) = queue[1] /\ Len(rest) = n
        /\ \A k \in 1..n : rest[k] = queue[k + 1]
    <2>1. Len(rest) = n /\ \A k \in 1..n : rest[k] = queue[k + 1]
      BY <1>2, <1>3, HeadTailProperties
    <2> QED BY <1>2, <1>3, <2>1, LenProperties
  <1>5. \A k \in 2..(n + 1) : k - 1 \in 1..n /\ rest[k - 1] = queue[k]
    BY <1>4
  <1>6. 1..(n + 1) = {1} \cup 2..(n + 1) /\ \A k \in 1..n : k + 1 \in 2..(n + 1)
    OBVIOUS
  <1>7. {queue[k] : k \in 1..(n + 1)} = {queue[1]} \cup {rest[k] : k \in 1..n}
    BY <1>4, <1>5, <1>6
  <1>8. Head(queue) \in S
    BY HeadTailProperties
  <1>9. ToSet(queue) = {queue[k] : k \in 1..(n + 1)} /\ ToSet(rest) = {rest[k] : k \in 1..n}
    BY <1>4 DEF ToSet
  <1>10. \A i \in DOMAIN rest : i + 1 \in DOMAIN queue /\ rest[i] = queue[i + 1]
    BY <1>4
  <1> QED BY <1>2, <1>3, <1>4, <1>7, <1>8, <1>9, <1>10

\* Where no call is touched, and no session ends, no caller is lost.
LEMMA CallersStay ==
    ASSUME WireInv, UNCHANGED callVars, link # "down" => link' # "down"
    PROVE  WaitersAreKnown' /\ AnsweredHasArrived'
  BY DEF WireInv, callVars, WaitersAreKnown, AnsweredHasArrived, Woken

\* The calls: asked, written, given up, and what the event loop waits for.
LEMMA CallsKeep ==
    ASSUME WireInv,
           WriteRequest \/ EventDone \/ \E c \in Calls : Request(c) \/ TimeOut(c)
    PROVE  WireInv'
  <1> USE DEF WireInv
  <1>1. UNCHANGED <<session, link, pushed, wire, holding, msgs, pumping, events, handled>>
    BY DEF WriteRequest, EventDone, Request, TimeOut, upVars
  <1>2. WayInv'
    BY <1>1, WayStays
  <1>3. CASE WriteRequest
    <2>1. cmds # <<>> /\ cmds \in Seq(Calls)
      BY <1>3 DEF WriteRequest, WireTypeOK
    <2>2. PICK c \in Calls : c = Head(cmds)
      BY <2>1, QueueTail
    <2>3. Tail(cmds) \in Seq(Calls) /\ Len(Tail(cmds)) <= Len(cmds)
          /\ ToSet(cmds) = {c} \cup ToSet(Tail(cmds))
      BY <2>1, <2>2, QueueTail
    <2>4. cmds' = Tail(cmds) /\ pending' = pending \cup {c} /\ UNCHANGED <<call, busy>>
          /\ arrived' \in {arrived, arrived \cup {c}}
      BY <1>3, <2>2 DEF WriteRequest, upVars
    <2>5. Len(cmds') <= CmdBound
      <3>1. Len(cmds') \in Nat /\ Len(cmds) \in Nat
        BY <2>1, <2>3, <2>4, LenProperties
      <3> QED BY <2>3, <2>4, <3>1, WireAssumption DEF WireTypeOK
    <2>6. WireTypeOK'
      BY <1>1, <2>3, <2>4, <2>5 DEF WireTypeOK
    <2>7. OwnInv'
      BY <1>1, <2>4 DEF OwnInv
    <2>8. WaitersAreKnown' /\ AnsweredHasArrived'
      BY <1>1, <2>3, <2>4 DEF WaitersAreKnown, AnsweredHasArrived, Woken
    <2> QED BY <1>2, <2>6, <2>7, <2>8
  <1>4. CASE EventDone
    <2>1. busy' = {} /\ UNCHANGED callVars
      BY <1>4 DEF EventDone
    <2>2. WireTypeOK' /\ OwnInv'
      BY <1>1, <2>1 DEF WireTypeOK, OwnInv, callVars
    <2> QED BY <1>1, <1>2, <2>1, <2>2, CallersStay
  <1>5. ASSUME NEW c \in Calls, Request(c)
        PROVE  WireInv'
    <2>1. UNCHANGED <<busy, pending, arrived>> /\ cmds \in Seq(Calls) /\ Len(cmds) \in Nat
      BY <1>5, LenProperties DEF Request, upVars, WireTypeOK
    <2>2. \/ /\ link # "down" /\ cmds' = Append(cmds, c) /\ Len(cmds) < CmdBound
             /\ call' = [call EXCEPT ![c] = "waiting"]
          \/ call' = [call EXCEPT ![c] = "not_connected"] /\ cmds' = cmds
      BY <1>5 DEF Request
    <2>3. cmds' \in Seq(Calls) /\ Len(cmds') <= CmdBound
      <3>1. CASE cmds' = Append(cmds, c) /\ Len(cmds) < CmdBound
        <4>1. cmds' \in Seq(Calls) /\ Len(cmds') = Len(cmds) + 1
          BY <2>1, <3>1, AppendProperties
        <4> QED BY <2>1, <3>1, <4>1, WireAssumption
      <3>2. CASE cmds' = cmds
        BY <2>1, <3>2 DEF WireTypeOK
      <3> QED BY <2>2, <3>1, <3>2
    <2>4. WireTypeOK' /\ OwnInv'
      <3>1. call' \in [Calls -> {"new", "waiting", "answered", "timeout", "not_connected"}]
        BY <2>2 DEF WireTypeOK
      <3> QED BY <1>1, <2>1, <2>3, <3>1 DEF WireTypeOK, OwnInv
    <2>5. WaitersAreKnown' /\ AnsweredHasArrived'
      <3>1. CASE link # "down" /\ cmds' = Append(cmds, c) /\ call' = [call EXCEPT ![c] = "waiting"]
        <4>1. ToSet(cmds') = ToSet(cmds) \cup {c}
          BY <2>1, <3>1, QueueAppend
        <4> QED BY <1>1, <2>1, <3>1, <4>1
                DEF WaitersAreKnown, AnsweredHasArrived, Woken, WireTypeOK
      <3>2. CASE call' = [call EXCEPT ![c] = "not_connected"] /\ cmds' = cmds
        BY <1>1, <2>1, <3>2 DEF WaitersAreKnown, AnsweredHasArrived, Woken, WireTypeOK
      <3> QED BY <2>2, <3>1, <3>2
    <2> QED BY <1>2, <2>4, <2>5
  <1>6. ASSUME NEW c \in Calls, TimeOut(c)
        PROVE  WireInv'
    <2>1. UNCHANGED <<busy, pending, arrived, cmds>> /\ call' = [call EXCEPT ![c] = "timeout"]
      BY <1>6 DEF TimeOut, upVars
    <2>2. WireTypeOK' /\ OwnInv'
      BY <1>1, <2>1 DEF WireTypeOK, OwnInv
    <2>3. WaitersAreKnown' /\ AnsweredHasArrived'
      BY <1>1, <2>1 DEF WaitersAreKnown, AnsweredHasArrived, Woken, WireTypeOK
    <2> QED BY <1>2, <2>2, <2>3
  <1> QED BY <1>3, <1>4, <1>5, <1>6

\* A session begins, is registered, and ends.
LEMMA LinkKeeps ==
    ASSUME WireInv, Connect \/ Registered \/ EndSession
    PROVE  WireInv'
  <1> USE DEF WireInv
  <1>1. UNCHANGED <<pushed, handled, events, pumping, msgs, holding, busy, arrived>>
    BY DEF Connect, Registered, EndSession, upVars, callVars
  <1>2. CASE Connect
    <2>1. /\ link = "down" /\ link' = "registering" /\ session' = session + 1
          /\ session' \in Sessions_ /\ wire' = <<>> /\ holding = <<>> /\ UNCHANGED callVars
          /\ session' > session
      BY <1>2, WireAssumption DEF Connect, OwnInv, upVars, WireTypeOK, Sessions_
    <2>2. WireTypeOK'
      BY <1>1, <2>1 DEF WireTypeOK, callVars, Sessions_
    <2>3. OwnInv'
      <3>1. \A s \in Sessions_ : s > session' => s > session
        BY <2>1 DEF Sessions_, WireTypeOK
      <3> QED BY <1>1, <2>1, <3>1 DEF OwnInv
    <2>4. ASSUME NEW s \in Sessions_
          PROVE  (\E k \in Cut : Way(s, k) /\ (s = session /\ link # "down" => LinedUp(k.read)))'
      <3>1. PICK k \in Cut : Way(s, k)
        BY DEF WayInv
      <3>2. Way(s, k)'
        BY <1>1, <3>1 DEF Way
      <3>3. ASSUME s = session'
            PROVE  LinedUp(k.read)'
        <4>1. pushed[s] = 0 /\ k.read = 0
          BY <2>1, <3>1, <3>3, WireAssumption DEF OwnInv, Way, Cut
        <4> DEFINE start == [i \in 1..1 |-> 0]
        <4>2. Len(wire') = 0 /\ wire' = <<>>
          BY <2>1
        <4>3. start \in [1..(Len(wire') + 1) -> 0..pushed'[session']]
          BY <1>1, <3>3, <4>1, <4>2
        <4>4. Lined(start, k.read)'
          BY <1>1, <3>3, <4>1, <4>2 DEF Lined
        <4> QED BY <4>3, <4>4 DEF LinedUp
      <3> QED BY <3>2, <3>3
    <2>5. WayInv'
      BY <2>4 DEF WayInv
    <2>6. WaitersAreKnown' /\ AnsweredHasArrived'
      BY <2>1, CallersStay
    <2> QED BY <2>2, <2>3, <2>5, <2>6
  <1>3. CASE Registered
    <2>1. link # "down" /\ link' = "open" /\ UNCHANGED <<session, wire>> /\ UNCHANGED callVars
      BY <1>3 DEF Registered, upVars
    <2>2. WireTypeOK' /\ OwnInv'
      BY <1>1, <2>1 DEF WireTypeOK, OwnInv, callVars
    <2> QED BY <1>1, <2>1, <2>2, WayStays, CallersStay
  <1>4. CASE EndSession
    <2>1. /\ link' = "down" /\ wire' = <<>> /\ cmds' = <<>> /\ pending' = {} /\ holding = <<>>
          /\ UNCHANGED session
          /\ call' = [c \in Calls |-> IF call[c] = "waiting" THEN "not_connected" ELSE call[c]]
      BY <1>4 DEF EndSession, Released, Woken
    <2>2. WireTypeOK'
      <3>1. \A S : <<>> \in Seq(S) /\ Len(<<>>) = 0
        OBVIOUS
      <3>2. 0 <= CmdBound
        BY WireAssumption
      <3>3. call' \in [Calls -> {"new", "waiting", "answered", "timeout", "not_connected"}]
        BY <2>1 DEF WireTypeOK
      <3> QED BY <1>1, <2>1, <3>1, <3>2, <3>3 DEF WireTypeOK
    <2>3. OwnInv'
      BY <1>1, <2>1 DEF OwnInv
    <2>4. WaitersAreKnown' /\ AnsweredHasArrived'
      BY <1>1, <2>1 DEF WaitersAreKnown, AnsweredHasArrived, Woken
    <2> QED BY <1>1, <2>1, <2>2, <2>3, <2>4, WayStays
  <1> QED BY <1>2, <1>3, <1>4

\* The platform pushes and answers.
LEMMA FrameKeeps ==
    ASSUME WireInv,
           (\E n \in 1..MaxPushed : PlatformPush(n)) \/ (\E c \in Calls : PlatformAnswer(c))
    PROVE  WireInv'
  <1> USE DEF WireInv
  <1>1. PICK frame \in Frames, more \in 0..MaxPushed :
            /\ link = "open" /\ wire' = Append(wire, frame)
            /\ pushed' = [pushed EXCEPT ![session] = @ + more] /\ pushed[session] + more <= MaxPushed
            /\ UNCHANGED <<session, link, holding, msgs, pumping, events, handled, busy, callVars>>
            /\ \/ "answer" \in DOMAIN frame /\ more = 0 /\ frame.answer \in arrived
               \/ /\ "push" \in DOMAIN frame /\ "answer" \notin DOMAIN frame
                  /\ frame.push = [i \in 1..more |-> <<session, pushed[session] + i>>]
    <2>1. session \in Sessions_ /\ pushed \in [Sessions_ -> 0..MaxPushed] /\ MaxPushed \in Nat
          /\ pushed[session] \in 0..MaxPushed
      BY WireAssumption DEF PlatformPush, PlatformAnswer, OwnInv, WireTypeOK
    <2>2. ASSUME NEW n \in 1..MaxPushed, PlatformPush(n)
          PROVE  \E frame \in Frames, more \in 0..MaxPushed :
                    /\ link = "open" /\ wire' = Append(wire, frame)
                    /\ pushed' = [pushed EXCEPT ![session] = @ + more] /\ pushed[session] + more <= MaxPushed
                    /\ UNCHANGED <<session, link, holding, msgs, pumping, events, handled, busy, callVars>>
                    /\ \/ "answer" \in DOMAIN frame /\ more = 0 /\ frame.answer \in arrived
                       \/ /\ "push" \in DOMAIN frame /\ "answer" \notin DOMAIN frame
                          /\ frame.push = [i \in 1..more |-> <<session, pushed[session] + i>>]
      <3> DEFINE entries == [i \in 1..n |-> <<session, pushed[session] + i>>]
      <3>1. pushed[session] + n <= MaxPushed
        BY <2>2 DEF PlatformPush
      <3>2. entries \in [1..n -> Entries]
        BY <2>1, <3>1 DEF Entries
      <3> HIDE DEF entries
      <3>3. entries \in UNION {[1..m -> Entries] : m \in 1..MaxPushed}
        BY <3>2
      <3>4. PICK frame \in Frames : frame = [push |-> entries]
        BY <3>3 DEF Frames
      <3>5. "push" \in DOMAIN frame /\ "answer" \notin DOMAIN frame /\ frame.push = entries
        BY <3>4
      <3>6. n \in 0..MaxPushed
        BY <2>1
      <3> QED BY <2>2, <3>1, <3>4, <3>5, <3>6 DEF PlatformPush, entries
    <2>3. ASSUME NEW c \in Calls, PlatformAnswer(c)
          PROVE  \E frame \in Frames, more \in 0..MaxPushed :
                    /\ link = "open" /\ wire' = Append(wire, frame)
                    /\ pushed' = [pushed EXCEPT ![session] = @ + more] /\ pushed[session] + more <= MaxPushed
                    /\ UNCHANGED <<session, link, holding, msgs, pumping, events, handled, busy, callVars>>
                    /\ \/ "answer" \in DOMAIN frame /\ more = 0 /\ frame.answer \in arrived
                       \/ /\ "push" \in DOMAIN frame /\ "answer" \notin DOMAIN frame
                          /\ frame.push = [i \in 1..more |-> <<session, pushed[session] + i>>]
      <3>1. PICK frame \in Frames : frame = [answer |-> c]
        BY DEF Frames
      <3>2. "answer" \in DOMAIN frame /\ frame.answer = c
        BY <3>1
      <3>3. 0 \in 0..MaxPushed /\ pushed[session] + 0 <= MaxPushed
        BY <2>1
      <3>4. pushed = [pushed EXCEPT ![session] = @ + 0]
        BY <2>1
      <3> QED BY <2>3, <3>1, <3>2, <3>3, <3>4 DEF PlatformAnswer
    <2> QED BY <2>2, <2>3
  <1>2. session \in Sessions_ /\ pushed[session] \in Nat /\ MaxPushed \in Nat /\ wire \in Seq(Frames)
    BY <1>1, WireAssumption DEF OwnInv, WireTypeOK
  <1>3. pushed'[session] = pushed[session] + more
        /\ \A s \in Sessions_ \ {session} : pushed'[s] = pushed[s]
    BY <1>1, <1>2 DEF WireTypeOK
  <1>4. PICK n \in Nat : n = Len(wire)
    BY <1>2, LenProperties
  <1>5. /\ wire' \in Seq(Frames) /\ Len(wire') = n + 1 /\ wire'[n + 1] = frame
        /\ DOMAIN wire = 1..n /\ DOMAIN wire' = 1..(n + 1)
        /\ \A i \in 1..n : wire'[i] = wire[i]
    <2>1. PICK longer : longer = Append(wire, frame)
      OBVIOUS
    <2>2. wire' = longer
      BY <1>1, <2>1
    <2>3. longer \in Seq(Frames) /\ Len(longer) = Len(wire) + 1 /\ longer[Len(wire) + 1] = frame
      BY <1>2, <2>1, AppendProperties
    <2>4. \A i \in 1..Len(wire) : longer[i] = wire[i]
      BY <1>2, <2>1, AppendProperties
    <2>5. DOMAIN wire = 1..n /\ DOMAIN longer = 1..(n + 1)
      BY <1>2, <1>4, <2>3, LenProperties
    <2> QED BY <1>4, <2>2, <2>3, <2>4, <2>5
  <1>6. WireTypeOK'
    <2>1. pushed' \in [Sessions_ -> 0..MaxPushed]
      <3>1. pushed[session] + more \in 0..MaxPushed
        BY <1>1, <1>2
      <3>2. pushed \in [Sessions_ -> 0..MaxPushed]
        BY DEF WireTypeOK
      <3>3. pushed' = [pushed EXCEPT ![session] = pushed[session] + more]
        BY <1>1
      <3> QED BY <3>1, <3>2, <3>3
    <2> QED BY <1>1, <1>5, <2>1 DEF WireTypeOK, callVars
  <1>7. OwnInv'
    <2>1. \A s \in Sessions_ : s > session => pushed'[s] = pushed[s]
      BY <1>2, <1>3 DEF WireTypeOK
    <2>2. \A i \in DOMAIN wire' : "answer" \in DOMAIN wire'[i] => wire'[i].answer \in arrived
      <3> SUFFICES ASSUME NEW i \in 1..(n + 1), "answer" \in DOMAIN wire'[i]
                   PROVE  wire'[i].answer \in arrived
        BY <1>5
      <3>1. CASE i = n + 1
        BY <1>1, <1>5, <3>1
      <3>2. CASE i \in 1..n
        BY <1>5, <3>2 DEF OwnInv
      <3> QED BY <3>1, <3>2
    <2>3. UNCHANGED arrived
      BY <1>1 DEF callVars
    <2> QED BY <1>1, <1>2, <2>1, <2>2, <2>3 DEF OwnInv
  <1>8. ASSUME NEW s \in Sessions_
        PROVE  (\E k \in Cut : Way(s, k) /\ (s = session /\ link # "down" => LinedUp(k.read)))'
    <2>1. PICK k \in Cut : Way(s, k) /\ (s = session /\ link # "down" => LinedUp(k.read))
      BY DEF WayInv
    <2>2. k.read \in Nat /\ pushed[s] \in Nat /\ pushed'[s] \in Nat /\ pushed[s] <= pushed'[s]
      <3>1. pushed[s] \in Nat /\ more \in Nat
        BY <1>2 DEF WireTypeOK
      <3>2. pushed'[s] = pushed[s] \/ pushed'[s] = pushed[s] + more
        BY <1>3
      <3> QED BY <3>1, <3>2 DEF Cut
    <2>3. k.read <= pushed'[s]
      BY <2>1, <2>2 DEF Way
    <2>4. Way(s, k)'
      BY <1>1, <2>1, <2>3 DEF Way
    <2>5. ASSUME s = session
          PROVE  LinedUp(k.read)'
      <3>1. PICK start \in [1..(n + 1) -> 0..pushed[session]] : Lined(start, k.read)
        BY <1>1, <1>4, <2>1, <2>5 DEF LinedUp
      <3>2. PICK longer \in [1..(n + 2) -> 0..pushed'[session]] :
                  longer = [i \in 1..(n + 2) |->
                               IF i = n + 2 THEN pushed[session] + more ELSE start[i]]
        <4>1. \A i \in 1..(n + 2) : (IF i = n + 2 THEN pushed[session] + more ELSE start[i])
                                     \in 0..pushed'[session]
          <5> SUFFICES ASSUME NEW i \in 1..(n + 2)
                       PROVE  (IF i = n + 2 THEN pushed[session] + more ELSE start[i])
                              \in 0..(pushed[session] + more)
            BY <1>3
          <5>1. CASE i = n + 2
            BY <1>2, <5>1
          <5>2. CASE i \in 1..(n + 1)
            <6>1. start[i] \in 0..pushed[session]
              BY <3>1, <5>2
            <6> QED BY <1>2, <5>2, <6>1
          <5> QED BY <5>1, <5>2
        <4> QED BY <4>1
      <3>3. \A i \in 1..(n + 1) : longer[i] = start[i]
        BY <3>2
      <3>4. longer[n + 2] = pushed[session] + more
        BY <3>2
      <3>5. start[1] = k.read /\ start[n + 1] = pushed[session]
            /\ \A i \in 1..n : Piece(wire[i], start[i], start[i + 1])
        BY <1>4, <3>1 DEF Lined
      <3>6. Piece(frame, longer[n + 1], longer[n + 2])'
        <4>1. longer[n + 1] = pushed[session]
          BY <3>3, <3>5
        <4>2. (pushed[session] + more) - pushed[session] = more /\ pushed[session] <= pushed[session] + more
              /\ (more = 0 => pushed[session] + more = pushed[session])
          <5>1. PICK p \in Nat, m \in Nat : p = pushed[session] /\ m = more
            BY <1>1, <1>2
          <5>2. (p + m) - p = m /\ p <= p + m /\ (m = 0 => p + m = p)
            OBVIOUS
          <5> QED BY <5>1, <5>2
        <4> QED BY <1>1, <3>4, <4>1, <4>2 DEF Piece
      <3>7. \A i \in 1..n : Piece(wire[i], start[i], start[i + 1])'
        <4> SUFFICES ASSUME NEW i \in 1..n
                     PROVE  Piece(wire[i], start[i], start[i + 1])'
          OBVIOUS
        <4>1. wire'[i] = wire[i] /\ session' = session /\ Piece(wire[i], start[i], start[i + 1])
          BY <1>1, <1>5, <3>5
        <4> QED BY <4>1 DEF Piece
      <3>8. \A i \in 1..(n + 1) : Piece(wire[i], longer[i], longer[i + 1])'
        <4> SUFFICES ASSUME NEW i \in 1..(n + 1)
                     PROVE  Piece(wire[i], longer[i], longer[i + 1])'
          OBVIOUS
        <4>1. CASE i = n + 1
          BY <1>5, <3>6, <4>1
        <4>2. CASE i \in 1..n
          <5>1. i + 1 \in 1..(n + 1)
            BY <4>2
          <5> QED BY <1>5, <3>3, <3>7, <4>2, <5>1 DEF Piece
        <4> QED BY <4>1, <4>2
      <3>9. Lined(longer, k.read)'
        <4>1. longer[1] = k.read /\ Len(wire') + 1 = n + 2
          BY <1>5, <3>3, <3>5
        <4>2. longer[Len(wire') + 1] = pushed'[session] /\ session' = session
          BY <1>1, <1>3, <3>4, <4>1
        <4> QED BY <1>5, <3>8, <4>1, <4>2 DEF Lined
      <3>10. Len(wire') + 1 = n + 2 /\ session' = session
        BY <1>1, <1>5
      <3> QED BY <3>2, <3>9, <3>10 DEF LinedUp
    <2> QED BY <1>1, <2>4, <2>5
  <1>9. WayInv'
    BY <1>8 DEF WayInv
  <1> QED BY <1>1, <1>6, <1>7, <1>9, CallersStay

\* The session reads the frame before it.
LEMMA ReadKeeps ==
    ASSUME WireInv, ReadPush \/ ReadAnswer
    PROVE  WireInv'
  <1> USE DEF WireInv
  <1>1. /\ wire # <<>> /\ link = "open" /\ holding = <<>> /\ wire' = Tail(wire)
        /\ UNCHANGED <<session, link, pushed, msgs, pumping, events, handled, busy, cmds, arrived>>
    BY DEF ReadPush, ReadAnswer, callVars
  <1>2. session \in Sessions_ /\ pushed[session] \in Nat /\ wire \in Seq(Frames)
    BY <1>1, WireAssumption DEF OwnInv, WireTypeOK
  <1>3. PICK frame \in Frames : frame = Head(wire) /\ frame = wire[1]
    BY <1>1, <1>2, QueueTail
  <1>4. PICK n \in Nat : n + 1 = Len(wire)
    <2>1. Len(wire) \in Nat \ {0}
      BY <1>1, <1>2, EmptySeq, LenProperties
    <2>2. Len(wire) - 1 \in Nat /\ (Len(wire) - 1) + 1 = Len(wire)
      BY <2>1
    <2> QED BY <2>2
  <1>5. /\ wire' \in Seq(Frames) /\ Len(wire') = n /\ DOMAIN wire' = 1..n /\ DOMAIN wire = 1..(n + 1)
        /\ \A i \in 1..n : wire'[i] = wire[i + 1]
    <2>1. Tail(wire) \in Seq(Frames) /\ Len(Tail(wire)) = n /\ \A i \in 1..n : Tail(wire)[i] = wire[i + 1]
      BY <1>1, <1>2, <1>4, HeadTailProperties
    <2> QED BY <1>1, <1>2, <1>4, <2>1, LenProperties
  \* What is held now is the entries of the frame, if it has any.
  <1>6. /\ "push" \in DOMAIN frame => holding' = frame.push /\ UNCHANGED callVars
        /\ "push" \notin DOMAIN frame => holding' = <<>> /\ "answer" \in DOMAIN frame
        /\ "answer" \in DOMAIN frame => holding' = <<>> /\ "push" \notin DOMAIN frame
        /\ holding' \in Seq(Entries)
    <2>1. \/ "push" \in DOMAIN frame /\ "answer" \notin DOMAIN frame /\ frame.push \in Seq(Entries)
          \/ "answer" \in DOMAIN frame /\ "push" \notin DOMAIN frame
      <3>1. CASE frame \in [push : UNION {[1..m -> Entries] : m \in 1..MaxPushed}]
        <4>1. PICK m \in 1..MaxPushed : frame.push \in [1..m -> Entries]
          BY <3>1
        <4>2. m \in Nat
          BY WireAssumption
        <4> QED BY <3>1, <4>1, <4>2
      <3>2. CASE frame \in [answer : Calls]
        BY <3>2
      <3> QED BY <3>1, <3>2 DEF Frames
    <2>2. <<>> \in Seq(Entries)
      OBVIOUS
    <2> QED BY <1>1, <1>3, <2>1, <2>2 DEF ReadPush, ReadAnswer
  \* The calls.
  <1>7. WaitersAreKnown' /\ AnsweredHasArrived' /\ pending' \subseteq Calls
        /\ call' \in [Calls -> {"new", "waiting", "answered", "timeout", "not_connected"}]
    <2>1. CASE ReadPush
      BY <1>1, <2>1, CallersStay DEF ReadPush, callVars, WireTypeOK
    <2>2. CASE ReadAnswer
      <3>1. PICK c : c = frame.answer
        OBVIOUS
      <3>2. /\ "answer" \in DOMAIN frame /\ pending' = pending \ {c}
            /\ call' = IF c \in pending /\ call[c] = "waiting" THEN [call EXCEPT ![c] = "answered"] ELSE call
        BY <1>3, <2>2, <3>1 DEF ReadAnswer, Woken
      <3>3. c \in arrived
        <4>1. 1 \in DOMAIN wire
          BY <1>4, <1>5
        <4> QED BY <1>3, <3>1, <3>2, <4>1 DEF OwnInv
      <3> QED BY <1>1, <3>2, <3>3 DEF WaitersAreKnown, AnsweredHasArrived, Woken, WireTypeOK
    <2> QED BY <2>1, <2>2
  <1>8. WireTypeOK'
    BY <1>1, <1>5, <1>6, <1>7 DEF WireTypeOK
  \* The entries.
  <1>9. PICK j \in Cut, start \in [1..(n + 2) -> 0..pushed[session]] :
            Way(session, j) /\ Lined(start, j.read)
    <2>1. PICK j \in Cut : Way(session, j) /\ LinedUp(j.read)
      BY <1>1, <1>2 DEF WayInv
    <2>2. Len(wire) + 1 = n + 2
      BY <1>4
    <2> QED BY <2>1, <2>2 DEF LinedUp
  <1>10. PICK a \in Nat, b \in 0..pushed[session] :
            a = start[1] /\ b = start[2] /\ a = j.read /\ Piece(frame, a, b)
    <2>1. 1 \in 1..(n + 1) /\ 1 \in 1..(n + 2) /\ 2 \in 1..(n + 2) /\ 1 + 1 = 2 /\ Len(wire) = n + 1
      BY <1>4
    <2>2. start[1] = j.read /\ Piece(wire[1], start[1], start[1 + 1])
      BY <1>9, <2>1 DEF Lined
    <2> QED BY <1>3, <1>9, <2>1, <2>2 DEF Cut
  <1>11. /\ a <= b /\ b \in Nat /\ b <= pushed[session]
         /\ Carries(holding', session, a, b)
         /\ \A t, m \in Nat : t # session => Carries(holding', t, m, m)
         /\ \A i \in DOMAIN holding' : holding'[i][1] = session
    <2>1. CASE "answer" \in DOMAIN frame
      BY <1>2, <1>6, <1>10, <2>1, CarriesNone DEF Piece
    <2>2. CASE "push" \in DOMAIN frame
      <3>1. a <= b /\ holding' = [i \in 1..(b - a) |-> <<session, a + i>>]
        BY <1>6, <1>10, <2>2 DEF Piece
      <3>2. b \in Nat /\ session \in Nat
        BY <1>2, <1>10 DEF Sessions_
      <3>3. PICK f : f = holding' /\ DOMAIN f = 1..(b - a)
                     /\ \A i \in 1..(b - a) : f[i] = <<session, a + i>>
        <4>1. DOMAIN holding' = 1..(b - a)
          BY <3>1
        <4>2. \A i \in 1..(b - a) : holding'[i] = <<session, a + i>>
          BY <3>1
        <4> QED BY <4>1, <4>2
      <3>4. /\ Carries(f, session, a, b) /\ \A i \in DOMAIN f : f[i][1] = session
            /\ \A t, m \in Nat : t # session => Carries(f, t, m, m)
        BY <3>1, <3>2, <3>3, CarriesFrame
      <3> QED BY <1>2, <1>10, <3>1, <3>2, <3>3, <3>4
    <2> QED BY <1>6, <2>1, <2>2
  <1>12. ASSUME NEW s \in Sessions_
        PROVE  \E k \in Cut : Way(s, k)' /\ (s = session' /\ link' # "down" => LinedUp(k.read)')
    <2>1. PICK k \in Cut : Way(s, k) /\ (s = session /\ link # "down" => LinedUp(k.read))
      BY DEF WayInv
    <2>2. CASE s # session
      <3>1. k.msgs = k.read
        <4>1. PICK x \in Nat, y \in Nat : x = k.msgs /\ y = k.read /\ x <= y /\ Carries(<<>>, s, x, y)
          BY <1>1, <2>1 DEF Cut, Way
        <4>2. x + 1 \notin (x + 1)..y
          BY <4>1 DEF Carries
        <4> QED BY <4>1, <4>2
      <3>2. s \in Nat /\ k.read \in Nat
        BY DEF Sessions_, Cut
      <3>3. Carries(holding', s, k.msgs, k.read)
        BY <1>11, <2>2, <3>1, <3>2
      <3>4. Way(s, k)'
        BY <1>1, <2>1, <3>3 DEF Way
      <3> QED BY <1>1, <2>2, <3>4
    <2>3. CASE s = session
      <3>1. j.msgs = a
        <4>1. PICK x \in Nat : x = j.msgs /\ x <= a /\ Carries(<<>>, s, x, a)
          BY <1>1, <1>9, <1>10, <2>3 DEF Cut, Way
        <4>2. x + 1 \notin (x + 1)..a
          BY <4>1 DEF Carries
        <4> QED BY <4>1, <4>2
      <3>2. PICK l \in Cut : l = [j EXCEPT !.read = b]
        BY <1>11 DEF Cut
      <3>3. l.handled = j.handled /\ l.events = j.events /\ l.pump = j.pump /\ l.msgs = j.msgs /\ l.read = b
        BY <3>2 DEF Cut
      <3>4. Way(s, l)'
        BY <1>1, <1>9, <1>11, <2>3, <3>1, <3>3 DEF Way
      <3>5. PICK shorter \in [1..(n + 1) -> 0..pushed[session]] :
                \A i \in 1..(n + 1) : shorter[i] = start[i + 1]
        <4> DEFINE f == [i \in 1..(n + 1) |-> start[i + 1]]
        <4>1. \A i \in 1..(n + 1) : i + 1 \in 1..(n + 2)
          OBVIOUS
        <4>2. f \in [1..(n + 1) -> 0..pushed[session]] /\ \A i \in 1..(n + 1) : f[i] = start[i + 1]
          BY <1>9, <4>1
        <4> QED BY <4>2
      <3>6. shorter[1] = b /\ shorter[n + 1] = pushed[session]
        <4>1. 1 \in 1..(n + 1) /\ 1 + 1 = 2 /\ n + 1 \in 1..(n + 1) /\ (n + 1) + 1 = n + 2
              /\ Len(wire) + 1 = n + 2
          BY <1>4
        <4>2. start[Len(wire) + 1] = pushed[session]
          BY <1>9 DEF Lined
        <4> QED BY <1>10, <3>5, <4>1, <4>2
      <3>7. \A i \in 1..n : Piece(wire[i], shorter[i], shorter[i + 1])'
        <4> SUFFICES ASSUME NEW i \in 1..n
                     PROVE  Piece(wire[i], shorter[i], shorter[i + 1])'
          OBVIOUS
        <4>1. i \in 1..(n + 1) /\ i + 1 \in 1..(n + 1) /\ i + 1 \in 1..Len(wire)
          BY <1>4
        <4>2. wire'[i] = wire[i + 1] /\ session' = session
              /\ shorter[i] = start[i + 1] /\ shorter[i + 1] = start[(i + 1) + 1]
          BY <1>1, <1>5, <3>5, <4>1
        <4>3. Piece(wire[i + 1], start[i + 1], start[(i + 1) + 1])
          BY <1>9, <4>1 DEF Lined
        <4> QED BY <4>2, <4>3 DEF Piece
      <3>8. Lined(shorter, b)'
        BY <1>1, <1>5, <3>6, <3>7 DEF Lined
      <3>9. LinedUp(b)'
        <4>1. Len(wire') + 1 = n + 1 /\ session' = session /\ pushed' = pushed
          BY <1>1, <1>5
        <4> QED BY <3>5, <3>8, <4>1 DEF LinedUp
      <3>10. LinedUp(l.read)'
        BY <3>3, <3>9
      <3> QED BY <3>4, <3>10
    <2> QED BY <2>2, <2>3
  <1>13. WayInv'
    BY <1>12 DEF WayInv
  <1>14. OwnInv'
    <2>1. ASSUME NEW i \in DOMAIN wire'
          PROVE  i + 1 \in DOMAIN wire /\ wire'[i] = wire[i + 1]
      <3>1. i \in 1..n
        BY <1>5
      <3>2. i + 1 \in 1..(n + 1) /\ wire'[i] = wire[i + 1]
        BY <1>5, <3>1
      <3> QED BY <1>4, <1>5, <3>2
    <2>2. \A i \in DOMAIN holding' : holding'[i][1] = session
      BY <1>11
    <2> QED BY <1>1, <2>1, <2>2 DEF OwnInv
  <1> QED BY <1>7, <1>8, <1>13, <1>14

\* One entry goes on from one queue to the next.
LEMMA EntryKeeps ==
    ASSUME WireInv,
           PassOnEntry \/ HandleEvent \/ \E s \in Sessions_ : Pump(s) \/ Emit(s)
    PROVE  WireInv'
  <1> USE DEF WireInv
  <1>1. UNCHANGED <<session, link, pushed, wire, callVars>>
    BY DEF PassOnEntry, HandleEvent, Pump, Emit
  <1>2. WaitersAreKnown' /\ AnsweredHasArrived'
    BY <1>1, CallersStay
  <1>3. /\ \A read : link # "down" /\ LinedUp(read) => LinedUp(read)'
        /\ \A k \in Cut : k.handled \in Nat /\ k.events \in Nat /\ k.pump \in Nat
                                              /\ k.msgs \in Nat /\ k.read \in Nat
    <2>1. ASSUME NEW read, LinedUp(read) PROVE LinedUp(read)'
      BY <1>1, <2>1, LineStays
    <2> QED BY <2>1 DEF Cut
  <1>4. CASE PassOnEntry
    <2>1. /\ holding # <<>> /\ holding \in Seq(Entries) /\ Len(msgs[session]) < MsgBound
          /\ msgs' = [msgs EXCEPT ![session] = Append(@, Head(holding))] /\ holding' = Tail(holding)
          /\ UNCHANGED <<pumping, events, handled, busy>>
      BY <1>4 DEF PassOnEntry, WireTypeOK
    <2>2. session \in Sessions_ /\ msgs[session] \in Seq(Entries) /\ Len(msgs[session]) \in Nat
      <3>1. session \in Sessions_
        BY <2>1 DEF OwnInv
      <3> QED BY <3>1, LenProperties DEF WireTypeOK
    <2>3. PICK e \in Entries : e = Head(holding) /\ e[1] = session
      BY <2>1, QueueTail DEF OwnInv
    <2>4. PICK longer \in Seq(Entries) :
              /\ longer = Append(msgs[session], e) /\ Len(longer) <= MsgBound
              /\ \A i \in DOMAIN longer : longer[i][1] = session
      <3>1. PICK n \in Nat : n = Len(msgs[session])
        BY <2>2
      <3>2. PICK longer \in Seq(Entries) : longer = Append(msgs[session], e)
        BY <2>2, AppendProperties
      <3>3. DOMAIN longer = 1..(n + 1) /\ longer[n + 1] = e /\ DOMAIN msgs[session] = 1..n
            /\ \A i \in 1..n : longer[i] = msgs[session][i] /\ Len(longer) = n + 1
        BY <2>2, <3>1, <3>2, AppendProperties, LenProperties
      <3>4. ASSUME NEW i \in 1..(n + 1) PROVE longer[i][1] = session
        <4>1. CASE i = n + 1
          BY <2>3, <3>3, <4>1
        <4>2. CASE i \in 1..n
          BY <2>2, <3>3, <4>2 DEF OwnInv
        <4> QED BY <4>1, <4>2
      <3>5. n + 1 <= MsgBound /\ Len(longer) = n + 1
        <4>1. Len(longer) = n + 1
          BY <2>2, <3>1, <3>2, AppendProperties
        <4> QED BY <2>1, <3>1, <4>1, WireAssumption
      <3> QED BY <3>2, <3>3, <3>4, <3>5
    <2>5. msgs'[session] = longer /\ \A s \in Sessions_ \ {session} : msgs'[s] = msgs[s]
      BY <2>1, <2>2, <2>3, <2>4 DEF WireTypeOK
    <2>6. /\ holding' \in Seq(Entries)
          /\ \A i \in DOMAIN holding' : i + 1 \in DOMAIN holding /\ holding'[i] = holding[i + 1]
      BY <2>1, QueueTail
    <2>7. WireTypeOK'
      <3>1. msgs' \in [Sessions_ -> Seq(Entries)]
        BY <2>1, <2>2, <2>3, <2>4 DEF WireTypeOK
      <3>2. \A s \in Sessions_ : Len(msgs'[s]) <= MsgBound
        BY <2>4, <2>5 DEF WireTypeOK
      <3> QED BY <1>1, <2>1, <2>6, <3>1, <3>2 DEF WireTypeOK, callVars
    <2>8. OwnInv'
      <3>1. link # "down"
        BY <2>1 DEF OwnInv
      <3>2. \A i \in DOMAIN holding' : holding'[i][1] = session
        BY <2>6 DEF OwnInv
      <3>3. \A s \in Sessions_ : \A i \in DOMAIN msgs'[s] : msgs'[s][i][1] = s
        BY <2>4, <2>5, SMTT(30) DEF OwnInv
      <3> QED BY <1>1, <2>1, <3>1, <3>2, <3>3 DEF OwnInv, callVars
    <2>9. ASSUME NEW s \in Sessions_
          PROVE  \E k \in Cut : Way(s, k)' /\ (s = session' /\ link' # "down" => LinedUp(k.read)')
      <3>1. PICK k \in Cut : Way(s, k) /\ (s = session /\ link # "down" => LinedUp(k.read))
        BY DEF WayInv
      <3>2. k.msgs \in Nat /\ k.read \in Nat /\ k.pump \in Nat /\ k.msgs <= k.read /\ k.pump <= k.msgs
            /\ Carries(holding, s, k.msgs, k.read) /\ Carries(msgs[s], s, k.pump, k.msgs)
        BY <1>3, <3>1 DEF Way
      <3>3. CASE s = session
        <4>1. e = <<s, k.msgs + 1>> /\ k.msgs + 1 <= k.read /\ Carries(holding', s, k.msgs + 1, k.read)
          BY <2>1, <2>3, <3>2, <3>3, CarriesTail
        <4>2. Carries(longer, s, k.pump, k.msgs + 1)
          BY <2>2, <2>4, <3>2, <3>3, <4>1, CarriesAppend
        <4>3. PICK l \in Cut : /\ l.handled = k.handled /\ l.events = k.events /\ l.pump = k.pump
                               /\ l.msgs = k.msgs + 1 /\ l.read = k.read
          BY CutMoves
        <4>4. /\ l.handled <= l.events /\ l.events <= l.pump /\ l.pump <= l.msgs
              /\ l.msgs <= l.read /\ l.read <= pushed'[s]
          BY <1>1, <3>1, <3>2, <4>1, <4>3 DEF Way
        <4>5. /\ Carries(handled', s, 0, l.handled) /\ Carries(events', s, l.handled, l.events)
              /\ Carries(pumping'[s], s, l.events, l.pump)
          BY <2>1, <3>1, <4>3 DEF Way
        <4>6. Carries(msgs'[s], s, l.pump, l.msgs) /\ Carries(holding', s, l.msgs, l.read)
          BY <2>5, <3>3, <4>1, <4>2, <4>3
        <4>7. Way(s, l)'
          BY <4>4, <4>5, <4>6 DEF Way
        <4> QED BY <1>1, <1>3, <3>1, <4>3, <4>7
      <3>4. CASE s # session
        <4>1. Carries(holding', s, k.msgs, k.read)
          BY <2>1, <2>3, <3>2, <3>4, CarriesTail
        <4>2. Way(s, k)'
          BY <1>1, <2>1, <2>5, <3>1, <3>4, <4>1 DEF Way
        <4> QED BY <1>1, <3>4, <4>2
      <3> QED BY <3>3, <3>4
    <2>10. WayInv'
      BY <2>9 DEF WayInv
    <2> QED BY <1>2, <2>7, <2>8, <2>10
  <1>5. ASSUME NEW r \in Sessions_, Pump(r)
        PROVE  WireInv'
    <2>1. /\ msgs[r] # <<>> /\ msgs[r] \in Seq(Entries) /\ pumping[r] = <<>>
          /\ pumping' = [pumping EXCEPT ![r] = <<Head(msgs[r])>>]
          /\ msgs' = [msgs EXCEPT ![r] = Tail(msgs[r])]
          /\ UNCHANGED <<holding, events, handled, busy>>
      BY <1>5 DEF Pump, WireTypeOK
    <2>2. PICK e \in Entries : e = Head(msgs[r]) /\ e[1] = r
      BY <2>1, QueueTail DEF OwnInv
    <2>3. PICK rest \in Seq(Entries) :
              /\ rest = Tail(msgs[r]) /\ Len(rest) <= MsgBound
              /\ \A i \in DOMAIN rest : rest[i][1] = r
      <3>1. Tail(msgs[r]) \in Seq(Entries) /\ Len(Tail(msgs[r])) <= Len(msgs[r])
            /\ \A i \in DOMAIN Tail(msgs[r]) : i + 1 \in DOMAIN msgs[r] /\ Tail(msgs[r])[i] = msgs[r][i + 1]
        BY <2>1, QueueTail
      <3>2. Len(Tail(msgs[r])) \in Nat /\ Len(msgs[r]) \in Nat /\ MsgBound \in Nat /\ Len(msgs[r]) <= MsgBound
        BY <2>1, <3>1, LenProperties, WireAssumption DEF WireTypeOK
      <3>3. \A i \in DOMAIN Tail(msgs[r]) : Tail(msgs[r])[i][1] = r
        BY <3>1 DEF OwnInv
      <3>4. Len(Tail(msgs[r])) <= MsgBound
        BY <3>1, <3>2
      <3> QED BY <3>1, <3>3, <3>4
    <2>4. PICK one \in Seq(Entries) :
              one = <<e>> /\ Len(one) = 1 /\ DOMAIN one = 1..1 /\ one[1] = e /\ one = Append(<<>>, e)
      <3>1. <<e>> \in Seq(Entries) /\ Len(<<e>>) = 1 /\ DOMAIN <<e>> = 1..1 /\ <<e>>[1] = e
        OBVIOUS
      <3>2. <<e>> = Append(<<>>, e)
        OBVIOUS
      <3> QED BY <3>1, <3>2
    <2>5. /\ msgs'[r] = rest /\ pumping'[r] = one
          /\ \A s \in Sessions_ \ {r} : msgs'[s] = msgs[s] /\ pumping'[s] = pumping[s]
      BY <2>1, <2>2, <2>3, <2>4 DEF WireTypeOK
    <2>6. WireTypeOK'
      <3>1. msgs' \in [Sessions_ -> Seq(Entries)] /\ pumping' \in [Sessions_ -> Seq(Entries)]
        BY <2>1, <2>2, <2>3, <2>4 DEF WireTypeOK
      <3>2. ASSUME NEW s \in Sessions_ PROVE Len(msgs'[s]) <= MsgBound /\ Len(pumping'[s]) <= 1
        <4>1. CASE s = r
          <5>1. Len(pumping'[s]) = 1 /\ msgs'[s] = rest
            BY <2>4, <2>5, <4>1
          <5> QED BY <2>3, <5>1
        <4>2. CASE s # r
          BY <2>5, <4>2 DEF WireTypeOK
        <4> QED BY <4>1, <4>2
      <3> QED BY <1>1, <2>1, <3>1, <3>2 DEF WireTypeOK, callVars
    <2>7. OwnInv'
      <3>1. ASSUME NEW s \in Sessions_
            PROVE  /\ \A i \in DOMAIN msgs'[s] : msgs'[s][i][1] = s
                   /\ \A i \in DOMAIN pumping'[s] : pumping'[s][i][1] = s
        <4>1. CASE s = r
          <5>1. pumping'[s] = one /\ msgs'[s] = rest
            BY <2>5, <4>1
          <5>2. \A i \in DOMAIN one : one[i][1] = r
            BY <2>2, <2>4
          <5> QED BY <2>3, <4>1, <5>1, <5>2
        <4>2. CASE s # r
          BY <2>5, <4>2 DEF OwnInv
        <4> QED BY <4>1, <4>2
      <3> QED BY <1>1, <2>1, <3>1 DEF OwnInv, callVars
    <2>8. ASSUME NEW s \in Sessions_
          PROVE  \E k \in Cut : Way(s, k)' /\ (s = session' /\ link' # "down" => LinedUp(k.read)')
      <3>1. PICK k \in Cut : Way(s, k) /\ (s = session /\ link # "down" => LinedUp(k.read))
        BY DEF WayInv
      <3>2. k.msgs \in Nat /\ k.events \in Nat /\ k.pump \in Nat /\ k.events <= k.pump /\ k.pump <= k.msgs
            /\ Carries(pumping[s], s, k.events, k.pump) /\ Carries(msgs[s], s, k.pump, k.msgs)
        BY <1>3, <3>1 DEF Way
      <3>3. CASE s = r
        <4>1. e = <<s, k.pump + 1>> /\ k.pump + 1 <= k.msgs /\ Carries(rest, s, k.pump + 1, k.msgs)
          BY <2>1, <2>2, <2>3, <3>2, <3>3, CarriesTail
        <4>2. <<>> \in Seq(Entries) /\ Carries(<<>>, s, k.events, k.pump)
          BY <2>1, <3>2, <3>3
        <4>3. Carries(one, s, k.events, k.pump + 1)
          BY <2>4, <3>2, <4>1, <4>2, CarriesAppend
        <4>4. PICK l \in Cut : /\ l.handled = k.handled /\ l.events = k.events /\ l.pump = k.pump + 1
                               /\ l.msgs = k.msgs /\ l.read = k.read
          BY CutMoves
        <4>5. /\ l.handled <= l.events /\ l.events <= l.pump /\ l.pump <= l.msgs
              /\ l.msgs <= l.read /\ l.read <= pushed'[s]
          BY <1>1, <3>1, <3>2, <4>1, <4>4 DEF Way
        <4>6. /\ Carries(handled', s, 0, l.handled) /\ Carries(events', s, l.handled, l.events)
              /\ Carries(holding', s, l.msgs, l.read)
          BY <2>1, <3>1, <4>4 DEF Way
        <4>7. Carries(pumping'[s], s, l.events, l.pump) /\ Carries(msgs'[s], s, l.pump, l.msgs)
          BY <2>5, <3>3, <4>1, <4>3, <4>4
        <4>8. Way(s, l)'
          BY <4>5, <4>6, <4>7 DEF Way
        <4> QED BY <1>1, <1>3, <3>1, <4>4, <4>8
      <3>4. CASE s # r
        <4>1. Way(s, k)'
          BY <1>1, <2>1, <2>5, <3>1, <3>4 DEF Way
        <4> QED BY <1>1, <1>3, <3>1, <4>1
      <3> QED BY <3>3, <3>4
    <2>9. WayInv'
      BY <2>8 DEF WayInv
    <2> QED BY <1>2, <2>6, <2>7, <2>9
  <1>6. ASSUME NEW r \in Sessions_, Emit(r)
        PROVE  WireInv'
    <2>1. /\ pumping[r] # <<>> /\ pumping[r] \in Seq(Entries) /\ Len(pumping[r]) <= 1
          /\ events \in Seq(Entries) /\ Len(events) < EventBound /\ events' = events \o pumping[r]
          /\ pumping' = [pumping EXCEPT ![r] = <<>>] /\ UNCHANGED <<holding, msgs, handled, busy>>
      BY <1>6 DEF Emit, WireTypeOK
    <2>2. PICK e \in Entries : pumping[r] = <<e>> /\ e[1] = r
      <3>1. Len(pumping[r]) = 1
        <4>1. PICK n \in Nat : n = Len(pumping[r])
          BY <2>1, LenProperties
        <4>2. n # 0 /\ n <= 1
          BY <2>1, <4>1, EmptySeq
        <4>3. n = 1
          BY <4>2
        <4> QED BY <4>1, <4>3
      <3>2. pumping[r][1] \in Entries /\ pumping[r] = <<pumping[r][1]>>
        BY <2>1, <3>1
      <3>3. 1 \in DOMAIN pumping[r]
        BY <2>1, <3>1, LenProperties
      <3> QED BY <3>2, <3>3 DEF OwnInv
    <2>3. events' = Append(events, e) /\ events' \in Seq(Entries) /\ Len(events') <= EventBound
      <3>1. events' = Append(events, e)
        BY <2>1, <2>2, AppendIsConcat
      <3>2. events' \in Seq(Entries) /\ Len(events') = Len(events) + 1 /\ Len(events) \in Nat
        BY <2>1, <3>1, AppendProperties, LenProperties
      <3> QED BY <2>1, <3>1, <3>2, WireAssumption
    <2>4. pumping'[r] = <<>> /\ \A s \in Sessions_ \ {r} : pumping'[s] = pumping[s]
      BY <2>1 DEF WireTypeOK
    <2>5. WireTypeOK'
      <3>1. <<>> \in Seq(Entries) /\ Len(<<>>) = 0
        OBVIOUS
      <3>2. pumping' \in [Sessions_ -> Seq(Entries)]
        BY <2>1, <3>1 DEF WireTypeOK
      <3>3. ASSUME NEW s \in Sessions_ PROVE Len(pumping'[s]) <= 1
        <4>1. CASE s = r
          BY <2>4, <3>1, <4>1
        <4>2. CASE s # r
          BY <2>4, <4>2 DEF WireTypeOK
        <4> QED BY <4>1, <4>2
      <3> QED BY <1>1, <2>1, <2>3, <3>2, <3>3 DEF WireTypeOK, callVars
    <2>6. OwnInv'
      <3>1. \A s \in Sessions_ : \A i \in DOMAIN pumping'[s] : pumping'[s][i][1] = s
        BY <2>4 DEF OwnInv
      <3> QED BY <1>1, <2>1, <3>1 DEF OwnInv, callVars
    <2>7. ASSUME NEW s \in Sessions_
          PROVE  \E k \in Cut : Way(s, k)' /\ (s = session' /\ link' # "down" => LinedUp(k.read)')
      <3>1. PICK k \in Cut : Way(s, k) /\ (s = session /\ link # "down" => LinedUp(k.read))
        BY DEF WayInv
      <3>2. k.handled \in Nat /\ k.events \in Nat /\ k.pump \in Nat
            /\ k.handled <= k.events /\ k.events <= k.pump
            /\ Carries(pumping[s], s, k.events, k.pump) /\ Carries(events, s, k.handled, k.events)
        BY <1>3, <3>1 DEF Way
      <3>3. CASE s = r
        <4>1. pumping[s] # <<>> /\ pumping[s] \in Seq(Entries) /\ e[1] = s
          BY <2>1, <2>2, <3>3
        <4>2. Head(pumping[s]) = e /\ Tail(pumping[s]) = <<>>
          <5>1. Head(<<e>>) = e /\ Tail(<<e>>) = <<>>
            OBVIOUS
          <5> QED BY <2>2, <3>3, <5>1
        <4>10. e = <<s, k.events + 1>> /\ k.events + 1 <= k.pump
               /\ Carries(<<>>, s, k.events + 1, k.pump)
          <5>1. PICK queue \in Seq(Entries) :
                    queue = pumping[s] /\ queue # <<>> /\ Carries(queue, s, k.events, k.pump)
            BY <3>2, <4>1
          <5>2. Head(queue) = e /\ Tail(queue) = <<>>
            BY <4>2, <5>1
          <5>3. Head(queue)[1] = s
            BY <4>1, <5>2
          <5>4. Head(queue) = <<s, k.events + 1>> /\ k.events + 1 <= k.pump
                /\ Carries(Tail(queue), s, k.events + 1, k.pump)
            BY <3>2, <5>1, <5>3, CarriesTail
          <5> QED BY <5>2, <5>4
        <4>3. k.pump = k.events + 1
          <5>1. (k.events + 1) + 1 \notin ((k.events + 1) + 1)..k.pump
            BY <4>10 DEF Carries
          <5> QED BY <3>2, <4>10, <5>1
        <4>4. Carries(events', s, k.handled, k.pump)
          BY <2>1, <2>3, <3>2, <4>10, <4>3, CarriesAppend
        <4>5. PICK l \in Cut : /\ l.handled = k.handled /\ l.events = k.pump /\ l.pump = k.pump
                               /\ l.msgs = k.msgs /\ l.read = k.read
          BY CutMoves
        <4>6. /\ l.handled <= l.events /\ l.events <= l.pump /\ l.pump <= l.msgs
              /\ l.msgs <= l.read /\ l.read <= pushed'[s]
          BY <1>1, <3>1, <3>2, <4>3, <4>5 DEF Way
        <4>7. /\ Carries(handled', s, 0, l.handled) /\ Carries(msgs'[s], s, l.pump, l.msgs)
              /\ Carries(holding', s, l.msgs, l.read)
          BY <2>1, <3>1, <4>5 DEF Way
        <4>8. Carries(events', s, l.handled, l.events) /\ Carries(pumping'[s], s, l.events, l.pump)
          BY <2>4, <3>2, <3>3, <4>4, <4>5, CarriesNone
        <4>9. Way(s, l)'
          BY <4>6, <4>7, <4>8 DEF Way
        <4> QED BY <1>1, <1>3, <3>1, <4>5, <4>9
      <3>4. CASE s # r
        <4>1. Carries(events', s, k.handled, k.events)
          BY <2>1, <2>2, <2>3, <3>2, <3>4, CarriesAppend
        <4>2. Way(s, k)'
          BY <1>1, <2>1, <2>4, <3>1, <3>4, <4>1 DEF Way
        <4> QED BY <1>1, <1>3, <3>1, <4>2
      <3> QED BY <3>3, <3>4
    <2>8. WayInv'
      BY <2>7 DEF WayInv
    <2> QED BY <1>2, <2>5, <2>6, <2>8
  <1>7. CASE HandleEvent
    <2>1. /\ events # <<>> /\ events \in Seq(Entries) /\ handled \in Seq(Entries)
          /\ handled' = Append(handled, Head(events)) /\ events' = Tail(events)
          /\ UNCHANGED <<holding, msgs, pumping>> /\ busy' \subseteq OwnCalls
      BY <1>7 DEF HandleEvent, WireTypeOK
    <2>2. PICK e \in Entries : e = Head(events)
      BY <2>1, QueueTail
    <2>3. handled' = Append(handled, e) /\ handled' \in Seq(Entries)
      BY <2>1, <2>2, AppendProperties
    <2>4. events' \in Seq(Entries) /\ Len(events') <= EventBound
      <3>1. Tail(events) \in Seq(Entries) /\ Len(Tail(events)) <= Len(events)
        BY <2>1, QueueTail
      <3>2. Len(Tail(events)) \in Nat /\ Len(events) \in Nat /\ EventBound \in Nat
        BY <2>1, <3>1, LenProperties, WireAssumption
      <3> QED BY <2>1, <3>1, <3>2 DEF WireTypeOK
    <2>5. WireTypeOK'
      BY <1>1, <2>1, <2>3, <2>4 DEF WireTypeOK, callVars
    <2>6. OwnInv'
      BY <1>1, <2>1 DEF OwnInv, callVars
    <2>7. ASSUME NEW s \in Sessions_
          PROVE  \E k \in Cut : Way(s, k)' /\ (s = session' /\ link' # "down" => LinedUp(k.read)')
      <3>1. PICK k \in Cut : Way(s, k) /\ (s = session /\ link # "down" => LinedUp(k.read))
        BY DEF WayInv
      <3>2. 0 \in Nat /\ k.handled \in Nat /\ k.events \in Nat /\ 0 <= k.handled /\ k.handled <= k.events
            /\ Carries(handled, s, 0, k.handled) /\ Carries(events, s, k.handled, k.events)
        BY <1>3, <3>1 DEF Way
      <3>3. CASE e[1] = s
        <4>1. e = <<s, k.handled + 1>> /\ k.handled + 1 <= k.events
              /\ Carries(events', s, k.handled + 1, k.events)
          BY <2>1, <2>2, <3>2, <3>3, CarriesTail
        <4>2. Carries(handled', s, 0, k.handled + 1)
          BY <2>1, <2>3, <3>2, <4>1, CarriesAppend
        <4>3. PICK l \in Cut : /\ l.handled = k.handled + 1 /\ l.events = k.events /\ l.pump = k.pump
                               /\ l.msgs = k.msgs /\ l.read = k.read
          BY CutMoves
        <4>4. /\ l.handled <= l.events /\ l.events <= l.pump /\ l.pump <= l.msgs
              /\ l.msgs <= l.read /\ l.read <= pushed'[s]
          BY <1>1, <3>1, <3>2, <4>1, <4>3 DEF Way
        <4>5. /\ Carries(pumping'[s], s, l.events, l.pump) /\ Carries(msgs'[s], s, l.pump, l.msgs)
              /\ Carries(holding', s, l.msgs, l.read)
          BY <2>1, <3>1, <4>3 DEF Way
        <4>6. Carries(handled', s, 0, l.handled) /\ Carries(events', s, l.handled, l.events)
          BY <4>1, <4>2, <4>3
        <4>7. Way(s, l)'
          BY <4>4, <4>5, <4>6 DEF Way
        <4> QED BY <1>1, <1>3, <3>1, <4>3, <4>7
      <3>4. CASE e[1] # s
        <4>1. Carries(events', s, k.handled, k.events)
          BY <2>1, <2>2, <3>2, <3>4, CarriesTail
        <4>2. Carries(handled', s, 0, k.handled)
          BY <2>1, <2>3, <3>2, <3>4, CarriesAppend
        <4>3. Way(s, k)'
          BY <1>1, <2>1, <3>1, <4>1, <4>2 DEF Way
        <4> QED BY <1>1, <1>3, <3>1, <4>3
      <3> QED BY <3>3, <3>4
    <2>8. WayInv'
      BY <2>7 DEF WayInv
    <2> QED BY <1>2, <2>5, <2>6, <2>8
  <1> QED BY <1>4, <1>5, <1>6, <1>7

\* The connection keeps its invariant, step by step.
LEMMA WireStep == WireInv /\ [WireNext]_wireVars => WireInv'
  <1> SUFFICES ASSUME WireInv, [WireNext]_wireVars PROVE WireInv'
    OBVIOUS
  <1>1. CASE WireNext
    BY <1>1, LinkKeeps, CallsKeep, ReadKeeps, EntryKeeps, FrameKeeps DEF WireNext
  <1>2. CASE UNCHANGED wireVars
    <2>1. UNCHANGED <<session, link, pushed, wire, holding, msgs, pumping, events, handled, busy>>
          /\ UNCHANGED callVars
      BY <1>2 DEF wireVars, callVars
    <2>2. WireTypeOK'
      BY <2>1 DEF WireInv, WireTypeOK, callVars
    <2>3. OwnInv'
      BY <2>1 DEF WireInv, OwnInv, callVars
    <2>4. WayInv'
      <3>1. ASSUME NEW read, LinedUp(read) PROVE LinedUp(read)'
        BY <2>1, <3>1, LineStays
      <3>2. ASSUME NEW s \in Sessions_, NEW k \in Cut, Way(s, k) PROVE Way(s, k)'
        BY <2>1, <3>2 DEF Way
      <3> QED BY <2>1, <3>1, <3>2 DEF WireInv, WayInv
    <2>5. WaitersAreKnown' /\ AnsweredHasArrived'
      BY <2>1 DEF WireInv, callVars, WaitersAreKnown, AnsweredHasArrived, Woken
    <2> QED BY <2>2, <2>3, <2>4, <2>5 DEF WireInv
  <1> QED BY <1>1, <1>2

\* What the connection promises follows from its invariant.
LEMMA WireHolds == WireInv => WireTypeOK /\ WireSafe
  <1> SUFFICES ASSUME WireInv PROVE NothingIsSkipped
    BY DEF WireInv, WireSafe
  <1> SUFFICES ASSUME NEW s \in Sessions_
               PROVE  \E a \in 0..MaxPushed :
                          /\ Carries(handled, s, 0, a)
                          /\ \E b \in a..MaxPushed :
                                /\ Carries(events, s, a, b)
                                /\ \E c \in b..MaxPushed :
                                      /\ Carries(pumping[s], s, b, c)
                                      /\ \E d \in c..MaxPushed :
                                            /\ Carries(msgs[s], s, c, d)
                                            /\ \E e \in d..MaxPushed : Carries(holding, s, d, e)
    BY DEF NothingIsSkipped
  <1>1. PICK k \in Cut : Way(s, k)
    BY DEF WireInv, WayInv
  <1>2. pushed[s] \in 0..MaxPushed /\ MaxPushed \in Nat
    BY WireAssumption DEF WireInv, WireTypeOK
  <1>3. /\ k.handled \in 0..MaxPushed /\ k.events \in k.handled..MaxPushed
        /\ k.pump \in k.events..MaxPushed /\ k.msgs \in k.pump..MaxPushed
        /\ k.read \in k.msgs..MaxPushed
    BY <1>1, <1>2 DEF Way, Cut
  <1>4. /\ Carries(handled, s, 0, k.handled) /\ Carries(events, s, k.handled, k.events)
        /\ Carries(pumping[s], s, k.events, k.pump) /\ Carries(msgs[s], s, k.pump, k.msgs)
        /\ Carries(holding, s, k.msgs, k.read)
    BY <1>1 DEF Way
  <1>5. \E e \in k.msgs..MaxPushed : Carries(holding, s, k.msgs, e)
    BY <1>3, <1>4
  <1>6. \E d \in k.pump..MaxPushed :
            Carries(msgs[s], s, k.pump, d) /\ \E e \in d..MaxPushed : Carries(holding, s, d, e)
    BY <1>3, <1>4, <1>5
  <1>7. \E c \in k.events..MaxPushed :
            /\ Carries(pumping[s], s, k.events, c)
            /\ \E d \in c..MaxPushed :
                  Carries(msgs[s], s, c, d) /\ \E e \in d..MaxPushed : Carries(holding, s, d, e)
    BY <1>3, <1>4, <1>6
  <1>8. \E b \in k.handled..MaxPushed :
            /\ Carries(events, s, k.handled, b)
            /\ \E c \in b..MaxPushed :
                  /\ Carries(pumping[s], s, b, c)
                  /\ \E d \in c..MaxPushed :
                        Carries(msgs[s], s, c, d) /\ \E e \in d..MaxPushed : Carries(holding, s, d, e)
    BY <1>3, <1>4, <1>7
  <1> QED BY <1>3, <1>4, <1>8

-----------------------------------------------------------------------------
(* The signed calls *)

\* What the platform did with a call, by where the call is; and what it refuses
\* it refuses with its token.
CallInv(r) ==
    /\ r.pc \in {"sign", "prime", "primed", "out"} => r.executed = 0
    /\ r.pc \in {"answered", "read"} => r.reply \in Replied
    /\ r.executed \in 0..1
    /\ r.reply = "ok" => r.executed = 1
    /\ r.reply \in Refused => r.executed = 0
    /\ r.pc = "answered" /\ r.reply = "token_expired" => r.token # 0
ExecutedInv == \A c \in Signers : CallInv(signing[c])

AllHome == \A i \in DOMAIN jar : jar[i].domain = home

\* Whoever has given up has cleared what lay elsewhere.
ClearedInv ==
    \A c \in Signers : Ended(c, {"token_expired"}) => c \notin calm /\ AllHome

\* The jar holds what the platform goes by, and nothing beside it.
TheCookie == [domain |-> home, token |-> issued, live |-> TRUE]
Fresh == jar = <<TheCookie>>

\* That the platform refuses an attempt is certain: the present one (Refusal), and
\* the next (Again).
Refusal(c) ==
    \/ signing[c].pc \in {"sign", "prime", "primed"} /\ ~Fresh
    \/ signing[c].pc = "out" /\ ~Good(c)
    \/ signing[c].pc \in {"answered", "read"} /\ signing[c].reply = "token_expired"
Again(c) == signing[c].pc = "read" /\ signing[c].reply = "token_expired" /\ ~Fresh

Certain(c) == signing[c].attempt + (IF Refusal(c) THEN 1 ELSE 0) + (IF Again(c) THEN 1 ELSE 0)

\* The calls that may clear the jar in front of a calm one: each does it once.
Clearing == {d \in Signers \ calm : signing[d].pc # "ended"}

CalmInv ==
    /\ calm # {} => NoneStale
    /\ \A c \in calm : signing[c].pc # "ended"
           => Certain(c) + Cardinality(Clearing) <= Cardinality(Signers)

SignedInv == SignedTypeOK /\ ExecutedInv /\ (FewCalls => ClearedInv /\ CalmInv)

CallRecords ==
    [pc : {"sign", "out", "answered", "read", "prime", "primed", "ended"},
     attempt : 0..TokenRetryMax, key : Nat, sent : Nat,
     reply : {"none"} \cup Replied, token : Nat, executed : Nat]

-----------------------------------------------------------------------------
\* The jar stays what it is: of each domain one cookie.
JarOK == jar \in Seq(Cookies) /\ \A i, j \in DOMAIN jar : jar[i].domain = jar[j].domain => i = j

\* A token that is absorbed (store_set_cookie) leaves one cookie of each domain.
LEMMA AbsorbedIsFine ==
    ASSUME SignedTypeOK, NEW token \in Nat, jar' = Absorbed(token), home' = home
    PROVE  JarOK' /\ (AllHome => AllHome' /\ jar' = <<[domain |-> home, token |-> token, live |-> TRUE]>>)
  <1> DEFINE e == [domain |-> home, token |-> token, live |-> TRUE]
  <1>1. e \in Cookies
    BY DEF SignedTypeOK, Cookies
  <1>2. CASE Elsewhere = {}
    <2>1. jar' = <<e>>
      BY <1>1, <1>2 DEF Absorbed
    <2>2. jar' \in Seq(Cookies) /\ DOMAIN jar' = {1} /\ jar'[1] = e
      BY <1>1, <2>1
    <2> QED BY <2>1, <2>2 DEF JarOK, AllHome
  <1>3. CASE Elsewhere # {}
    <2> DEFINE k == CHOOSE i \in Elsewhere : TRUE
    <2>1. k \in DOMAIN jar /\ jar[k].domain # home
      BY <1>3 DEF Elsewhere
    <2>2. jar[k] \in Cookies
      BY <2>1 DEF SignedTypeOK
    <2>3. jar' = <<jar[k]>> \o <<e>>
      BY <1>3, Zenon DEF Absorbed
    <2>4. ~AllHome
      BY <2>1 DEF AllHome
    <2>5. e.domain = home
      OBVIOUS
    <2> HIDE DEF k, e
    <2>6. jar' \in Seq(Cookies) /\ DOMAIN jar' = {1, 2} /\ jar'[1] = jar[k] /\ jar'[2] = e
      BY <1>1, <2>2, <2>3
    <2> QED BY <2>1, <2>4, <2>5, <2>6 DEF JarOK
  <1> QED BY <1>2, <1>3

\* With a fresh jar a call signs as the platform wants it.
LEMMA FreshSigns ==
    ASSUME Fresh
    PROVE  SignToken = issued /\ CookieSent = issued
  <1>1. jar # <<>> /\ DOMAIN jar = {1} /\ jar[1].token = issued /\ jar[1].live
    BY DEF Fresh, TheCookie
  <1>2. SignToken = issued
    BY <1>1 DEF SignToken
  <1>3. ~(\A i \in DOMAIN jar : ~jar[i].live)
    BY <1>1
  <1>4. (CHOOSE i \in DOMAIN jar : {w \in DOMAIN jar : jar[w].domain = "wide"} # {} =>
                                     i \in {w \in DOMAIN jar : jar[w].domain = "wide"}) = 1
    BY <1>1
  <1> QED BY <1>1, <1>2, <1>3, <1>4 DEF CookieSent

\* Nothing becomes more certain for a call by the step of another that leaves a fresh
\* jar fresh; a clearing makes one refusal more certain.
LEMMA CertainStays ==
    ASSUME SignedTypeOK, NEW c \in Signers, signing'[c] = signing[c],
           UNCHANGED <<home, issued>>
    PROVE  /\ Certain(c) \in Nat /\ Certain(c)' \in Nat
           /\ Certain(c)' <= Certain(c) + 1
           /\ (Fresh => Fresh') => Certain(c)' <= Certain(c)
  <1>1. signing[c].attempt \in Nat
    BY DEF SignedTypeOK
  <1>2. Good(c)' = Good(c)
    BY DEF Good
  <1> QED BY <1>1, <1>2 DEF Certain, Refusal, Again

\* The calls that may clear the jar are fewer than the signers, if one of them may not.
LEMMA ClearingFinite ==
    ASSUME IsFiniteSet(Signers)
    PROVE  /\ IsFiniteSet(Clearing) /\ Cardinality(Clearing) \in Nat
           /\ Cardinality(Signers) \in Nat
           /\ \A d \in Signers : Clearing \subseteq Signers \ {d}
                  => Cardinality(Clearing) + 1 <= Cardinality(Signers)
  <1>1. Clearing \in SUBSET Signers
    BY DEF Clearing
  <1>2. IsFiniteSet(Clearing)
    BY <1>1, FS_Subset
  <1>3. ASSUME NEW d \in Signers, Clearing \subseteq Signers \ {d}
        PROVE  Cardinality(Clearing) + 1 <= Cardinality(Signers)
    <2>1. /\ IsFiniteSet(Signers \ {d})
          /\ Cardinality(Signers \ {d}) = Cardinality(Signers) - 1
      BY FS_RemoveElement
    <2>2. Cardinality(Clearing) <= Cardinality(Signers \ {d})
      BY <1>3, <2>1, FS_Subset
    <2> QED BY <1>2, <2>1, <2>2, FS_CardinalityType
  <1> QED BY <1>2, <1>3, FS_CardinalityType

\* A step that clears nothing: what is certain stays so for everybody.
LEMMA CalmStays ==
    ASSUME SignedTypeOK, CalmInv, IsFiniteSet(Signers), UNCHANGED <<home, issued, calm>>,
           NEW d \in Signers,
           \A c \in Signers \ {d} : signing'[c] = signing[c],
           signing[d].pc # "ended",
           calm # {} => NoneStale' /\ (Fresh => Fresh'),
           d \in calm /\ signing'[d].pc # "ended"
               => Certain(d) \in Nat /\ Certain(d)' \in Nat /\ Certain(d)' <= Certain(d)
    PROVE  CalmInv'
  <1>1. Clearing' \subseteq Clearing
    BY DEF Clearing
  <1>2. Cardinality(Clearing') <= Cardinality(Clearing) /\ Cardinality(Clearing') \in Nat
    <2>1. Clearing' \in SUBSET Clearing /\ IsFiniteSet(Clearing)
      BY <1>1, ClearingFinite
    <2>2. IsFiniteSet(Clearing') /\ Cardinality(Clearing') <= Cardinality(Clearing)
      BY <2>1, FS_Subset
    <2> QED BY <2>2, FS_CardinalityType
  <1>3. ASSUME NEW c \in calm, signing'[c].pc # "ended"
        PROVE  Certain(c)' + Cardinality(Clearing') <= Cardinality(Signers)
    <2>1. c \in Signers /\ signing[c].pc # "ended"
      BY <1>3 DEF SignedTypeOK
    <2>2. Certain(c) \in Nat /\ Certain(c)' \in Nat /\ Certain(c)' <= Certain(c)
      <3>1. CASE c = d
        BY <3>1, <1>3, <2>1 DEF CalmInv
      <3>2. CASE c # d
        BY <3>2, <1>3, <2>1, CertainStays
      <3> QED BY <3>1, <3>2
    <2>3. Certain(c) + Cardinality(Clearing) <= Cardinality(Signers)
      BY <1>3, <2>1 DEF CalmInv
    <2> QED BY <1>2, <2>2, <2>3, ClearingFinite
  <1> QED BY <1>3 DEF CalmInv

-----------------------------------------------------------------------------
\* What one call does, does to its own record alone.
LEMMA CallChanges ==
    ASSUME SignedTypeOK, ExecutedInv, NEW d \in Signers, NEW r \in CallRecords, CallInv(r),
           signing' = [signing EXCEPT ![d] = r], JarOK', UNCHANGED <<home, issued>>,
           calm' \subseteq Signers
    PROVE  /\ SignedTypeOK' /\ ExecutedInv'
           /\ signing'[d] = r /\ \A c \in Signers \ {d} : signing'[c] = signing[c]
  <1>1. signing \in [Signers -> CallRecords]
    BY DEF SignedTypeOK, CallRecords
  <1>2. signing' \in [Signers -> CallRecords]
    BY <1>1
  <1>3. signing'[d] = r /\ \A c \in Signers \ {d} : signing'[c] = signing[c]
    BY <1>1
  <1>4. SignedTypeOK'
    BY <1>2 DEF SignedTypeOK, CallRecords, JarOK
  <1>5. ExecutedInv'
    BY <1>3 DEF ExecutedInv
  <1> QED BY <1>3, <1>4, <1>5

\* What a call signs with and sends along are tokens.
LEMMA TokensRead == SignedTypeOK => SignToken \in Nat /\ CookieSent \in Nat
  <1> SUFFICES ASSUME SignedTypeOK PROVE SignToken \in Nat /\ CookieSent \in Nat
    OBVIOUS
  <1>1. \A i \in DOMAIN jar : jar[i].token \in Nat
    <2>1. \A i \in DOMAIN jar : jar[i] \in Cookies
      BY DEF SignedTypeOK
    <2> QED BY <2>1 DEF Cookies
  <1>2. SignToken \in Nat
    BY <1>1 DEF SignToken, SignedTypeOK
  <1>3. CASE \A i \in DOMAIN jar : ~jar[i].live
    BY <1>2, <1>3 DEF CookieSent
  <1>4. CASE ~ \A i \in DOMAIN jar : ~jar[i].live
    <2> DEFINE wide == {i \in DOMAIN jar : jar[i].domain = "wide"}
               k == CHOOSE i \in DOMAIN jar : wide # {} => i \in wide
    <2>1. \E i \in DOMAIN jar : wide # {} => i \in wide
      BY <1>4
    <2>2. k \in DOMAIN jar
      BY <2>1
    <2>3. CookieSent = jar[k].token
      BY <1>4 DEF CookieSent
    <2> QED BY <1>1, <1>2, <2>2, <2>3
  <1> QED BY <1>2, <1>3, <1>4

\* A new call and one that has ended, in full.
LEMMA EndedIs ==
    /\ NewCall \in CallRecords /\ CallInv(NewCall)
    /\ \A reply \in {"none"} \cup Replied, n \in Nat :
           /\ EndedCall(reply, n) \in CallRecords
           /\ EndedCall(reply, n).pc = "ended" /\ EndedCall(reply, n).reply = reply
           /\ EndedCall(reply, n).executed = IF reply \in {"lost", "unread"} THEN 0 ELSE n
  <1>1. NewCall \in CallRecords /\ CallInv(NewCall)
    BY SignedCallsAssumption DEF NewCall, CallRecords, CallInv, Refused
  <1>2. ASSUME NEW reply \in {"none"} \cup Replied, NEW n \in Nat
        PROVE  /\ EndedCall(reply, n) \in CallRecords
               /\ EndedCall(reply, n).pc = "ended" /\ EndedCall(reply, n).reply = reply
               /\ EndedCall(reply, n).executed = IF reply \in {"lost", "unread"} THEN 0 ELSE n
    <2> DEFINE m == IF reply \in {"lost", "unread"} THEN 0 ELSE n
    <2>1. m \in Nat
      OBVIOUS
    <2> HIDE DEF m
    <2>2. EndedCall(reply, n) = [NewCall EXCEPT !.pc = "ended", !.reply = reply, !.executed = m]
      BY DEF EndedCall, m
    <2>3. ASSUME NEW w \in CallRecords,
                 NEW v, v = [w EXCEPT !.pc = "ended", !.reply = reply, !.executed = m]
          PROVE  v \in CallRecords /\ v.pc = "ended" /\ v.reply = reply /\ v.executed = m
      BY <2>1, <2>3 DEF CallRecords
    <2> QED BY <1>1, <2>2, <2>3 DEF m
  <1> QED BY <1>1, <1>2

\* Before the first call the jar and the calls satisfy the invariant.
LEMMA SignedInitially == SignedInit => SignedInv
  <1> SUFFICES ASSUME SignedInit PROVE SignedInv
    OBVIOUS
  <1>1. PICK t \in [Domains -> 0..1], order \in [1..2 -> Domains], n \in 0..2 :
            /\ order[1] # order[2]
            /\ jar = [i \in 1..n |-> [domain |-> order[i], token |-> t[order[i]], live |-> TRUE]]
    BY DEF SignedInit
  <1>2. JarOK
    <2>1. \A i \in 1..n : [domain |-> order[i], token |-> t[order[i]], live |-> TRUE] \in Cookies
      BY DEF Cookies
    <2>2. jar \in [1..n -> Cookies] /\ n \in Nat
      BY <1>1, <2>1
    <2>3. jar \in Seq(Cookies)
      BY <2>2
    <2>4. \A i \in DOMAIN jar : i \in 1..2 /\ jar[i].domain = order[i]
      BY <1>1
    <2>5. \A i, j \in 1..2 : order[i] = order[j] => i = j
      BY <1>1
    <2> QED BY <2>3, <2>4, <2>5 DEF JarOK
  <1>3. EndedCall("lost", 0) \in CallRecords /\ CallInv(EndedCall("lost", 0))
        /\ EndedCall("lost", 0).pc = "ended" /\ EndedCall("lost", 0).reply = "lost"
    BY EndedIs DEF CallInv, Replied, Refused
  <1>4. \A c \in Signers : signing[c] = EndedCall("lost", 0)
    BY DEF SignedInit
  <1>5. signing \in [Signers -> CallRecords]
    BY <1>3 DEF SignedInit
  <1>6. SignedTypeOK
    BY <1>2, <1>5, SignedCallsAssumption DEF SignedTypeOK, CallRecords, JarOK, SignedInit
  <1> QED BY <1>3, <1>4, <1>6 DEF SignedInv, ExecutedInv, ClearedInv, Ended, CalmInv, SignedInit

-----------------------------------------------------------------------------
\* What a call does short of an end that clears the jar keeps the invariant, if it
\* neither empties the jar nor brings the call nearer to giving up.
LEMMA CallKeeps ==
    ASSUME SignedInv, NEW d \in Signers,
           NEW r \in CallRecords, CallInv(r), signing' = [signing EXCEPT ![d] = r],
           signing[d].pc # "ended",
           r.pc # "ended" \/ r.reply # "token_expired",
           \/ jar' = jar
           \/ /\ signing[d].pc \in {"answered", "primed"}
              /\ signing[d].token # 0 /\ jar' = Absorbed(signing[d].token),
           UNCHANGED <<home, issued, calm>>,
           r.pc \in {"answered", "primed"} /\ NoneStale => r.token \in {0, issued},
           NoneStale /\ r.pc # "ended" => Certain(d)' <= Certain(d)
    PROVE  SignedInv'
  <1>1. signing[d] \in CallRecords
    BY DEF SignedInv, SignedTypeOK, CallRecords
  <1>2. JarOK' /\ (AllHome => AllHome') /\ (NoneStale /\ Fresh => Fresh')
    <2>1. CASE jar' = jar
      BY <2>1 DEF SignedInv, SignedTypeOK, JarOK, AllHome, Fresh, TheCookie
    <2>2. CASE jar' # jar
      <3>1. signing[d].token \in Nat /\ jar' = Absorbed(signing[d].token)
            /\ (NoneStale => signing[d].token = issued)
        BY <1>1, <2>2 DEF CallRecords, NoneStale
      <3>2. JarOK' /\ (AllHome => AllHome' /\ jar' = <<[domain |-> home, token |-> signing[d].token,
                                                       live |-> TRUE]>>)
        BY <3>1, AbsorbedIsFine DEF SignedInv
      <3> QED BY <3>1, <3>2 DEF NoneStale, AllHome, Fresh, TheCookie
    <2> QED BY <2>1, <2>2
  <1>3. /\ SignedTypeOK' /\ ExecutedInv'
        /\ signing'[d] = r /\ \A c \in Signers \ {d} : signing'[c] = signing[c]
    <2>1. calm' \subseteq Signers
      BY DEF SignedInv, SignedTypeOK
    <2> QED BY <1>2, <2>1, CallChanges DEF SignedInv
  <1>4. ASSUME FewCalls PROVE ClearedInv'
    <2> SUFFICES ASSUME NEW c \in Signers, Ended(c, {"token_expired"})'
                 PROVE  c \notin calm' /\ AllHome'
      BY DEF ClearedInv
    <2>1. c # d
      BY <1>3 DEF Ended
    <2>2. Ended(c, {"token_expired"})
      BY <1>3, <2>1 DEF Ended
    <2> QED BY <1>2, <1>4, <2>2 DEF SignedInv, ClearedInv
  <1>5. NoneStale => NoneStale'
    BY <1>2, <1>3 DEF NoneStale, AllHome
  <1>6. ASSUME FewCalls PROVE CalmInv'
    <2>1. r.pc # "ended" => Certain(d) \in Nat /\ Certain(d)' \in Nat
      <3>1. signing[d].attempt \in Nat /\ signing'[d].attempt \in Nat
        BY <1>1, <1>3, SignedCallsAssumption DEF CallRecords
      <3> QED BY <3>1 DEF Certain
    <2>2. SignedTypeOK /\ CalmInv /\ IsFiniteSet(Signers)
      BY <1>6 DEF SignedInv, FewCalls
    <2> QED BY <1>2, <1>3, <1>5, <2>1, <2>2, CalmStays DEF CalmInv
  <1> QED BY <1>3, <1>4, <1>6 DEF SignedInv

\* A call is signed and sent, or fails to be.
LEMMA SendingKeeps ==
    ASSUME SignedInv, NEW c \in Signers,
           Sign(c) \/ PlatformAnswers(c) \/ SendFails(c)
    PROVE  SignedInv'
  <1> USE DEF CallRecords
  <1>1. signing[c] \in CallRecords /\ CallInv(signing[c]) /\ signing \in [Signers -> CallRecords]
    BY DEF SignedInv, SignedTypeOK, ExecutedInv
  <1>2. CASE Sign(c)
    <2> DEFINE r == [signing[c] EXCEPT !.pc = "out", !.key = SignToken, !.sent = CookieSent]
    <2>1. r \in CallRecords /\ CallInv(r) /\ r.pc = "out" /\ r.attempt = signing[c].attempt
          /\ r.key = SignToken /\ r.sent = CookieSent
      BY <1>1, <1>2, TokensRead DEF Sign, CallInv, SignedInv
    <2>2. signing' = [signing EXCEPT ![c] = r]
      BY <1>2 DEF Sign
    <2> HIDE DEF r
    <2>3. signing'[c] = r
      BY <1>1, <2>2
    <2>4. Fresh => Good(c)'
      BY <1>2, <2>1, <2>3, FreshSigns DEF Good, Sign
    <2>5. Certain(c)' <= Certain(c)
      BY <1>1, <1>2, <2>1, <2>3, <2>4, SignedCallsAssumption DEF Certain, Refusal, Again, Sign
    <2> QED BY <1>2, <2>1, <2>2, <2>5, CallKeeps DEF Sign
  <1>3. CASE PlatformAnswers(c)
    <2>1. PICK a \in IF Good(c) THEN {"ok", "refused", "unread"} ELSE {"token_expired"}, n \in 0..1 :
              /\ a = "ok" => n = 1
              /\ a \in Refused => n = 0
              /\ signing' = [signing EXCEPT ![c].pc = "answered", ![c].key = 0, ![c].sent = 0,
                          ![c].reply = a, ![c].token = IF Good(c) THEN 0 ELSE issued,
                          ![c].executed = @ + n]
      BY <1>3 DEF PlatformAnswers
    <2> DEFINE t == IF Good(c) THEN 0 ELSE issued
               m == signing[c].executed + n
               r == [signing[c] EXCEPT !.pc = "answered", !.key = 0, !.sent = 0,
                          !.reply = a, !.token = t, !.executed = m]
    <2>2. signing[c].pc = "out" /\ signing[c].executed = 0 /\ UNCHANGED <<home, issued, jar, calm>>
      BY <1>1, <1>3 DEF PlatformAnswers, CallInv
    <2>3. t \in Nat /\ t \in {0, issued} /\ (a = "token_expired" => t # 0 /\ ~Good(c)) /\ a \in Replied
      BY <2>1, SignedCallsAssumption DEF SignedInv, SignedTypeOK, Refused, Replied
    <2>4. m = n /\ m \in Nat
      BY <2>2
    <2>5. signing' = [signing EXCEPT ![c] = r]
      BY <2>1, Zenon
    <2> HIDE DEF t, m
    <2>6. ASSUME NEW w \in CallRecords,
                 NEW v, v = [w EXCEPT !.pc = "answered", !.key = 0, !.sent = 0,
                                      !.reply = a, !.token = t, !.executed = m]
          PROVE  v \in CallRecords /\ v.pc = "answered" /\ v.attempt = w.attempt
                 /\ v.token = t /\ v.reply = a /\ v.executed = m
      BY <2>3, <2>4, <2>6
    <2>7. r \in CallRecords /\ r.pc = "answered" /\ r.attempt = signing[c].attempt
          /\ r.token = t /\ r.reply = a /\ r.executed = n
      BY <1>1, <2>4, <2>6, Zenon
    <2> HIDE DEF r
    <2>8. CallInv(r) /\ signing'[c] = r
      BY <1>1, <2>1, <2>3, <2>7, <2>5 DEF CallInv
    <2>9. Certain(c)' <= Certain(c)
      BY <1>1, <2>2, <2>3, <2>7, <2>8, SignedCallsAssumption DEF Certain, Refusal, Again
    <2> QED BY <2>2, <2>3, <2>7, <2>5, <2>8, <2>9, CallKeeps
  <1>4. CASE SendFails(c)
    <2>1. PICK r : r = EndedCall("lost", signing[c].executed)
      OBVIOUS
    <2>2. r \in CallRecords /\ r.pc = "ended" /\ r.reply = "lost" /\ r.executed = 0
      BY <1>1, <2>1, EndedIs DEF Replied
    <2>3. CallInv(r)
      BY <2>2 DEF CallInv, Refused
    <2>4. signing[c].pc # "ended" /\ signing' = [signing EXCEPT ![c] = r]
          /\ UNCHANGED <<home, issued, jar, calm>>
      BY <1>4, <2>1 DEF SendFails
    <2> QED BY <2>2, <2>3, <2>4, CallKeeps
  <1> QED BY <1>2, <1>3, <1>4

\* An answer is received, lost or classified.
LEMMA ReadingKeeps ==
    ASSUME SignedInv, NEW c \in Signers,
           Receive(c) \/ ReadFails(c) \/ Classify(c)
    PROVE  SignedInv'
  <1> USE DEF CallRecords
  <1>1. signing[c] \in CallRecords /\ CallInv(signing[c]) /\ signing \in [Signers -> CallRecords]
    BY DEF SignedInv, SignedTypeOK, ExecutedInv
  <1>2. CASE Receive(c)
    <2> DEFINE r == [signing[c] EXCEPT !.pc = "read", !.token = 0]
    <2>1. r \in CallRecords /\ CallInv(r) /\ r.pc = "read" /\ r.attempt = signing[c].attempt
          /\ r.reply = signing[c].reply
      BY <1>1, <1>2 DEF Receive, CallInv
    <2>2. signing' = [signing EXCEPT ![c] = r]
      BY <1>2 DEF Receive
    <2> HIDE DEF r
    <2>3. signing'[c] = r
      BY <1>1, <2>2
    <2>4. ASSUME NoneStale PROVE Certain(c)' <= Certain(c)
      <3>1. signing[c].reply = "token_expired" => Fresh'
        <4> SUFFICES ASSUME signing[c].reply = "token_expired" PROVE Fresh'
          OBVIOUS
        <4>1. signing[c].token = issued /\ AllHome /\ signing[c].token \in Nat
          BY <1>1, <1>2, <2>4 DEF CallInv, NoneStale, AllHome, Receive
        <4>2. jar' = Absorbed(signing[c].token) /\ home' = home /\ issued' = issued
          BY <1>1, <1>2 DEF Receive, CallInv
        <4> QED BY <4>1, <4>2, AbsorbedIsFine DEF SignedInv, Fresh, TheCookie
      <3> QED BY <1>1, <1>2, <2>1, <2>3, <3>1, SignedCallsAssumption
              DEF Certain, Refusal, Again, Receive
    <2>5. /\ signing[c].pc = "answered" /\ UNCHANGED <<home, issued, calm>>
          /\ jar' = jar \/ (signing[c].token # 0 /\ jar' = Absorbed(signing[c].token))
      BY <1>2 DEF Receive
    <2> QED BY <2>1, <2>2, <2>4, <2>5, CallKeeps
  <1>3. CASE ReadFails(c)
    <2>1. PICK r : r = EndedCall("lost", signing[c].executed)
      OBVIOUS
    <2>2. r \in CallRecords /\ r.pc = "ended" /\ r.reply = "lost" /\ r.executed = 0
      BY <1>1, <2>1, EndedIs DEF Replied
    <2>3. CallInv(r)
      BY <2>2 DEF CallInv, Refused
    <2>4. signing[c].pc # "ended" /\ signing' = [signing EXCEPT ![c] = r]
          /\ UNCHANGED <<home, issued, jar, calm>>
      BY <1>3, <2>1 DEF ReadFails
    <2> QED BY <2>2, <2>3, <2>4, CallKeeps
  <1>4. CASE Classify(c)
    <2>1. PICK r : r = EndedCall(signing[c].reply, signing[c].executed)
      OBVIOUS
    <2>2. r \in CallRecords /\ r.pc = "ended" /\ r.reply = signing[c].reply
          /\ r.executed = IF r.reply \in {"lost", "unread"} THEN 0 ELSE signing[c].executed
      <3>1. signing[c].reply \in {"none"} \cup Replied /\ signing[c].executed \in Nat
        BY <1>1
      <3> HIDE DEF CallRecords
      <3>2. PICK reply \in {"none"} \cup Replied, n \in Nat :
                reply = signing[c].reply /\ n = signing[c].executed
        BY <3>1, Zenon
      <3>3. /\ EndedCall(reply, n) \in CallRecords
            /\ EndedCall(reply, n).pc = "ended" /\ EndedCall(reply, n).reply = reply
            /\ EndedCall(reply, n).executed = IF reply \in {"lost", "unread"} THEN 0 ELSE n
        BY EndedIs, Zenon
      <3>4. r = EndedCall(reply, n)
        BY <2>1, <3>2, Zenon
      <3> QED BY <3>2, <3>3, <3>4
    <2>3. CallInv(r)
      BY <1>1, <2>2 DEF CallInv, Refused
    <2>4. signing[c].pc # "ended" /\ signing' = [signing EXCEPT ![c] = r]
          /\ UNCHANGED <<home, issued, jar, calm>> /\ r.reply # "token_expired"
      BY <1>4, <2>1, <2>2 DEF Classify, TriedAgain
    <2> QED BY <2>2, <2>3, <2>4, CallKeeps
  <1> QED BY <1>2, <1>3, <1>4

\* A refused call is signed again, over an empty jar after it has fetched a token.
LEMMA AgainKeeps ==
    ASSUME SignedInv, NEW c \in Signers,
           TryAgain(c) \/ Prime(c) \/ Primed(c)
    PROVE  SignedInv'
  <1> USE DEF CallRecords
  <1>1. signing[c] \in CallRecords /\ CallInv(signing[c]) /\ signing \in [Signers -> CallRecords]
    BY DEF SignedInv, SignedTypeOK, ExecutedInv
  <1>2. CASE TryAgain(c)
    <2> DEFINE pc == IF c \notin ByGet /\ jar = <<>> THEN "prime" ELSE "sign"
               n == signing[c].attempt + 1
               r == [signing[c] EXCEPT !.pc = pc, !.attempt = n, !.reply = "none"]
    <2>1. pc \in {"prime", "sign"}
      OBVIOUS
    <2>2. signing[c].pc = "read" /\ signing[c].reply = "token_expired" /\ signing[c].executed = 0
          /\ signing[c].attempt + 1 < TokenRetryMax /\ UNCHANGED <<home, issued, jar, calm>>
      BY <1>1, <1>2 DEF TryAgain, TriedAgain, CallInv, Refused
    <2>3. r \in CallRecords /\ r.pc = pc /\ r.attempt = signing[c].attempt + 1
          /\ r.reply = "none" /\ r.executed = 0
      <3>1. n \in 0..TokenRetryMax
        BY <1>1, <2>2, SignedCallsAssumption
      <3> HIDE DEF pc, n
      <3>2. ASSUME NEW w \in CallRecords,
                   NEW v, v = [w EXCEPT !.pc = pc, !.attempt = n, !.reply = "none"]
            PROVE  v \in CallRecords /\ v.pc = pc /\ v.attempt = n
                   /\ v.reply = "none" /\ v.executed = w.executed
        BY <2>1, <3>1, <3>2
      <3>3. r \in CallRecords /\ r.pc = pc /\ r.attempt = n
            /\ r.reply = "none" /\ r.executed = 0
        BY <1>1, <2>2, <3>2, Zenon
      <3> QED BY <3>3 DEF n
    <2>4. signing' = [signing EXCEPT ![c] = r]
      BY <1>2, Zenon DEF TryAgain
    <2> HIDE DEF pc
    <2> HIDE DEF r
    <2>5. CallInv(r) /\ signing'[c] = r
      BY <1>1, <2>1, <2>3, <2>4 DEF CallInv, Refused
    <2>6. Certain(c)' <= Certain(c)
      BY <1>1, <2>1, <2>2, <2>3, <2>5, SignedCallsAssumption
         DEF Certain, Refusal, Again, Fresh, TheCookie
    <2> QED BY <2>1, <2>2, <2>3, <2>4, <2>5, <2>6, CallKeeps
  <1>3. CASE Prime(c)
    <2>1. PICK t \in {0, issued} : signing' = [signing EXCEPT ![c].pc = "primed", ![c].token = t]
      BY <1>3 DEF Prime
    <2> DEFINE r == [signing[c] EXCEPT !.pc = "primed", !.token = t]
    <2>2. t \in Nat
      BY SignedCallsAssumption DEF SignedInv, SignedTypeOK
    <2>3. signing[c].pc = "prime" /\ UNCHANGED <<home, issued, jar, calm>>
      BY <1>3 DEF Prime
    <2>4. r \in CallRecords /\ CallInv(r) /\ r.pc = "primed" /\ r.attempt = signing[c].attempt
          /\ r.token = t
      BY <1>1, <2>2, <2>3 DEF CallInv
    <2>5. signing' = [signing EXCEPT ![c] = r]
      BY <1>1, <2>1
    <2> HIDE DEF r
    <2>6. signing'[c] = r
      BY <1>1, <2>5
    <2>7. Certain(c)' <= Certain(c)
      BY <1>1, <2>3, <2>4, <2>6, SignedCallsAssumption
         DEF Certain, Refusal, Again, Fresh, TheCookie
    <2> QED BY <2>1, <2>3, <2>4, <2>5, <2>7, CallKeeps
  <1>4. CASE Primed(c)
    <2> DEFINE r == [signing[c] EXCEPT !.pc = "sign", !.token = 0]
    <2>1. r \in CallRecords /\ CallInv(r) /\ r.pc = "sign" /\ r.attempt = signing[c].attempt
      BY <1>1, <1>4 DEF Primed, CallInv
    <2>2. signing' = [signing EXCEPT ![c] = r]
      BY <1>1, <1>4 DEF Primed
    <2> HIDE DEF r
    <2>3. signing'[c] = r
      BY <1>1, <2>2
    <2>4. /\ signing[c].pc = "primed" /\ UNCHANGED <<home, issued, calm>>
          /\ jar' = jar \/ (signing[c].token # 0 /\ jar' = Absorbed(signing[c].token))
      BY <1>4 DEF Primed
    <2>5. ASSUME NoneStale PROVE Certain(c)' <= Certain(c)
      <3>1. Fresh => Fresh'
        <4>1. CASE jar' = jar
          BY <2>4, <4>1 DEF Fresh, TheCookie
        <4>2. CASE jar' # jar
          <5>1. signing[c].token = issued /\ AllHome /\ signing[c].token \in Nat
            BY <1>1, <2>4, <2>5, <4>2 DEF NoneStale, AllHome
          <5> QED BY <2>4, <4>2, <5>1, AbsorbedIsFine DEF SignedInv, Fresh, TheCookie
        <4> QED BY <4>1, <4>2
      <3> QED BY <1>1, <2>1, <2>3, <2>4, <3>1, SignedCallsAssumption DEF Certain, Refusal, Again
    <2> QED BY <2>1, <2>2, <2>4, <2>5, CallKeeps
  <1> QED BY <1>2, <1>3, <1>4

\* A call that begins while nothing is stale has at most one refusal before it.
LEMMA BeginningKeeps ==
    ASSUME SignedInv, NEW c \in Signers, BeginCall(c)
    PROVE  SignedInv'
  <1>1. signing[c].pc = "ended" /\ signing' = [signing EXCEPT ![c] = NewCall]
        /\ UNCHANGED <<home, issued, jar>>
        /\ calm' = IF NoneStale THEN calm \cup {c} ELSE calm \ {c}
    BY DEF BeginCall
  <1>2. JarOK' /\ calm \subseteq Signers /\ calm' \subseteq Signers
    BY <1>1 DEF SignedInv, SignedTypeOK, JarOK
  <1>3. /\ SignedTypeOK' /\ ExecutedInv'
        /\ signing'[c] = NewCall /\ \A d \in Signers \ {c} : signing'[d] = signing[d]
    <2> NewCall \in CallRecords /\ CallInv(NewCall)
      BY EndedIs
    <2> QED BY <1>1, <1>2, CallChanges DEF SignedInv
  <1>4. NewCall.pc = "sign" /\ NewCall.attempt = 0 /\ NewCall.reply = "none"
    BY DEF NewCall
  <1> SUFFICES ASSUME FewCalls PROVE ClearedInv' /\ CalmInv'
    BY <1>3 DEF SignedInv
  <1> USE DEF FewCalls
  <1>5. ClearedInv'
    <2> SUFFICES ASSUME NEW d \in Signers, Ended(d, {"token_expired"})'
                 PROVE  d \notin calm' /\ AllHome'
      BY DEF ClearedInv
    <2>1. d # c
      BY <1>3, <1>4 DEF Ended
    <2>2. Ended(d, {"token_expired"})
      BY <1>3, <2>1 DEF Ended
    <2> QED BY <1>1, <2>1, <2>2 DEF SignedInv, ClearedInv, AllHome
  <1>6. CASE NoneStale
    <2>1. NoneStale'
      BY <1>1, <1>3, <1>4, <1>6 DEF NoneStale
    <2>2. c \in calm' /\ calm' = calm \cup {c}
      BY <1>1, <1>6
    <2>3. Clearing' = Clearing
      BY <1>1, <1>3, <1>4, <2>2 DEF Clearing
    <2>4. Clearing \subseteq Signers \ {c}
      BY <1>1 DEF Clearing
    <2>5. Cardinality(Clearing) + 1 <= Cardinality(Signers) /\ Cardinality(Clearing) \in Nat
          /\ Cardinality(Signers) \in Nat
      BY <2>4, ClearingFinite
    <2>6. ASSUME NEW d \in calm', signing'[d].pc # "ended"
          PROVE  Certain(d)' + Cardinality(Clearing') <= Cardinality(Signers)
      <3>1. CASE d = c
        <4>1. Certain(c)' \in 0..1
          BY <1>3, <1>4 DEF Certain, Refusal, Again
        <4> QED BY <2>3, <2>5, <3>1, <4>1
      <3>2. CASE d # c
        <4>1. d \in calm /\ d \in Signers /\ signing'[d] = signing[d] /\ signing[d].pc # "ended"
          BY <1>2, <1>3, <2>2, <2>6, <3>2
        <4>2. Certain(d)' <= Certain(d) /\ Certain(d) \in Nat /\ Certain(d)' \in Nat
          BY <1>1, <4>1, CertainStays DEF SignedInv, Fresh, TheCookie
        <4>3. Certain(d) + Cardinality(Clearing) <= Cardinality(Signers)
          BY <4>1 DEF SignedInv, CalmInv
        <4> QED BY <2>3, <2>5, <4>2, <4>3
      <3> QED BY <3>1, <3>2
    <2> QED BY <1>3, <1>5, <2>1, <2>6 DEF SignedInv, CalmInv
  <1>7. CASE ~NoneStale
    <2>1. calm' = {}
      BY <1>1, <1>7 DEF SignedInv, CalmInv
    <2> QED BY <1>3, <1>5, <2>1 DEF SignedInv, CalmInv
  <1> QED BY <1>6, <1>7

\* A calm call has no reason to give up; another clears the jar once, and with that
\* is no longer among those that may.
LEMMA GivingUpKeeps ==
    ASSUME SignedInv, NEW c \in Signers, GiveUp(c)
    PROVE  SignedInv'
  <1>1. signing[c] \in CallRecords /\ CallInv(signing[c])
    BY DEF SignedInv, SignedTypeOK, ExecutedInv, CallRecords
  <1>2. /\ signing[c].pc = "read" /\ signing[c].reply = "token_expired"
        /\ signing[c].attempt + 1 = TokenRetryMax /\ jar' = <<>>
        /\ signing' = [signing EXCEPT ![c] = EndedCall("token_expired", signing[c].executed)]
        /\ UNCHANGED <<home, issued, calm>>
    BY DEF GiveUp, TriedAgain, Cleared
  <1>3. PICK r : r = EndedCall("token_expired", signing[c].executed)
    OBVIOUS
  <1>4. r \in CallRecords /\ r.pc = "ended" /\ r.reply = "token_expired" /\ r.executed = 0
    <2>1. signing[c].executed = 0
      BY <1>1, <1>2 DEF CallInv, Refused
    <2> QED BY <1>3, <2>1, EndedIs DEF Replied, Refused
  <1>5. CallInv(r)
    BY <1>4 DEF CallInv
  <1>6. JarOK' /\ AllHome' /\ calm \subseteq Signers
    BY <1>2 DEF JarOK, AllHome, SignedInv, SignedTypeOK
  <1>7. /\ SignedTypeOK' /\ ExecutedInv'
        /\ signing'[c] = r /\ \A d \in Signers \ {c} : signing'[d] = signing[d]
    BY <1>2, <1>3, <1>4, <1>5, <1>6, CallChanges DEF SignedInv
  <1> SUFFICES ASSUME FewCalls PROVE ClearedInv' /\ CalmInv'
    BY <1>7 DEF SignedInv
  <1>8. Cardinality(Signers) \in Nat /\ Cardinality(Clearing) \in Nat
        /\ IsFiniteSet(Clearing) /\ Cardinality(Signers) < TokenRetryMax
    BY ClearingFinite DEF FewCalls
  <1>9. c \notin calm
    <2> SUFFICES ASSUME c \in calm PROVE FALSE
      OBVIOUS
    <2>1. Certain(c) + Cardinality(Clearing) <= Cardinality(Signers)
      BY <1>2 DEF SignedInv, CalmInv
    <2>2. Certain(c) >= signing[c].attempt + 1 /\ Certain(c) \in Nat
      BY <1>1, <1>2 DEF Certain, Refusal, CallRecords
    <2> QED BY <1>2, <1>8, <2>1, <2>2, SignedCallsAssumption
  <1>10. ClearedInv'
    BY <1>2, <1>6, <1>7, <1>9 DEF SignedInv, ClearedInv, Ended
  <1>11. Clearing' = Clearing \ {c} /\ c \in Clearing
    BY <1>2, <1>4, <1>7, <1>9 DEF Clearing
  <1>12. Cardinality(Clearing') = Cardinality(Clearing) - 1
    BY <1>8, <1>11, FS_RemoveElement
  <1>13. CalmInv'
    <2>1. calm' # {} => NoneStale'
      BY <1>2, <1>4, <1>6, <1>7 DEF SignedInv, CalmInv, NoneStale, AllHome
    <2>2. ASSUME NEW d \in calm', signing'[d].pc # "ended"
          PROVE  Certain(d)' + Cardinality(Clearing') <= Cardinality(Signers)
      <3>1. d \in calm /\ d \in Signers /\ signing'[d] = signing[d] /\ signing[d].pc # "ended"
        BY <1>2, <1>6, <1>7, <1>9, <2>2
      <3>2. Certain(d)' <= Certain(d) + 1 /\ Certain(d) \in Nat /\ Certain(d)' \in Nat
        BY <1>2, <3>1, CertainStays DEF SignedInv
      <3>3. Certain(d) + Cardinality(Clearing) <= Cardinality(Signers)
        BY <3>1 DEF SignedInv, CalmInv
      <3> QED BY <1>8, <1>12, <3>2, <3>3
    <2> QED BY <2>1, <2>2 DEF CalmInv
  <1> QED BY <1>7, <1>10, <1>13 DEF SignedInv

\* The platform rotates its token, and cookies expire.
LEMMA PlatformKeeps ==
    ASSUME SignedInv, Rotate \/ \E i \in DOMAIN jar : CookieExpires(i)
    PROVE  SignedInv'
  <1>1. calm' = {} /\ UNCHANGED <<home, signing>>
    BY DEF Rotate, CookieExpires
  <1>2. JarOK' /\ (AllHome => AllHome') /\ issued' \in 1..MaxIssued
    <2>1. CASE Rotate
      BY <2>1, SignedCallsAssumption DEF Rotate, JarOK, AllHome, SignedInv, SignedTypeOK
    <2>2. CASE \E i \in DOMAIN jar : CookieExpires(i)
      <3>1. PICK i \in DOMAIN jar : jar' = [jar EXCEPT ![i].live = FALSE] /\ issued' = issued
        BY <2>2 DEF CookieExpires
      <3>2. jar \in Seq(Cookies) /\ \A j \in DOMAIN jar : jar[j] \in Cookies
        BY DEF SignedInv, SignedTypeOK
      <3>3. [jar[i] EXCEPT !.live = FALSE] \in Cookies
            /\ [jar[i] EXCEPT !.live = FALSE].domain = jar[i].domain
        BY <3>1, <3>2 DEF Cookies
      <3>4. jar' \in Seq(Cookies) /\ DOMAIN jar' = DOMAIN jar
            /\ \A j \in DOMAIN jar : jar'[j].domain = jar[j].domain
        BY <3>1, <3>2, <3>3
      <3> QED BY <1>1, <3>1, <3>4 DEF JarOK, AllHome, SignedInv, SignedTypeOK
    <2> QED BY <2>1, <2>2
  <1>3. SignedTypeOK'
    BY <1>1, <1>2 DEF SignedInv, SignedTypeOK, JarOK
  <1> QED BY <1>1, <1>2, <1>3 DEF SignedInv, ExecutedInv, ClearedInv, CalmInv, Ended

\* The invariant of the signed calls is inductive.
LEMMA SignedStep == SignedInv /\ [SignedNext]_signedVars => SignedInv'
  <1> SUFFICES ASSUME SignedInv, [SignedNext]_signedVars PROVE SignedInv'
    OBVIOUS
  <1>1. ASSUME NEW c \in Signers,
               \/ BeginCall(c) \/ Sign(c) \/ PlatformAnswers(c) \/ SendFails(c) \/ Receive(c)
               \/ ReadFails(c) \/ Classify(c) \/ GiveUp(c) \/ TryAgain(c) \/ Prime(c) \/ Primed(c)
        PROVE  SignedInv'
    BY <1>1, BeginningKeeps, SendingKeeps, ReadingKeeps, GivingUpKeeps, AgainKeeps
  <1>2. CASE UNCHANGED signedVars
    BY <1>2 DEF signedVars, SignedInv, SignedTypeOK, ExecutedInv, ClearedInv, CalmInv, Ended,
                AllHome, NoneStale, Clearing, Certain, Refusal, Again, Good, Fresh, TheCookie
  <1> QED BY <1>1, <1>2, PlatformKeeps DEF SignedNext

\* What is said of the signed calls follows from the invariant.
LEMMA SignedHolds ==
    SignedInv => SignedTypeOK /\ SignedSafe
  BY DEF SignedInv, SignedSafe, ExecutedAsSaid, GivesUpForCause, ExecutedInv, CallInv,
         ClearedInv, Ended, AllHome, Refused

-----------------------------------------------------------------------------
(* The sessions of the administrator *)

\* A session, or a request for one, is of a password there is; whoever stopped the
\* program has ended the requests.
VisitInv ==
    /\ \A b \in Browsers :
          /\ ticket[b] = "valid" => password # 0
          /\ visit[b].pc \in {"issue", "change", "proved"} => password # 0
          /\ ~up => visit[b] = Away

\* init-admin has ended the sessions, or excused them, before it sets a password.
ResetInv ==
    resetting = "revoked" =>
        ~up /\ \A b \in Browsers : ticket[b] = "valid" => b \in kept \cup late

\* Those whose password is being looked at may still fail.
Trying == {b \in Browsers : visit[b].pc = "trying"}

LimitInv == failures + Cardinality(Trying) <= MaxFailures + Cardinality(Browsers) - 1

AccessInv == AccessTypeOK /\ VisitInv /\ ResetInv /\ SessionsFollowPassword /\ LimitInv

\* The browsers that try a password can be counted.
LEMMA TryingFinite ==
    /\ IsFiniteSet(Trying) /\ Cardinality(Trying) \in Nat
    /\ Cardinality(Trying) <= Cardinality(Browsers) /\ Cardinality(Browsers) \in Nat
  <1>1. Trying \in SUBSET Browsers
    BY DEF Trying
  <1>2. IsFiniteSet(Trying) /\ Cardinality(Trying) <= Cardinality(Browsers)
    BY <1>1, AccessAssumption, FS_Subset
  <1> QED BY <1>2, AccessAssumption, FS_CardinalityType

\* As long as nobody else tries, and no failure is added.
LEMMA LimitStays ==
    ASSUME AccessTypeOK, LimitInv, failures' \in Nat, failures' <= failures,
           Trying' \subseteq Trying
    PROVE  LimitInv'
  <1>1. Cardinality(Trying') <= Cardinality(Trying) /\ Cardinality(Trying') \in Nat
    <2>1. Trying' \in SUBSET Trying
      OBVIOUS
    <2>2. IsFiniteSet(Trying)
      BY TryingFinite
    <2>3. IsFiniteSet(Trying') /\ Cardinality(Trying') <= Cardinality(Trying)
      BY <2>1, <2>2, FS_Subset
    <2> QED BY <2>3, FS_CardinalityType
  <1>2. /\ Cardinality(Trying) \in Nat /\ Cardinality(Browsers) \in Nat
        /\ MaxFailures \in Nat /\ failures \in Nat
    BY TryingFinite, AccessAssumption DEF AccessTypeOK
  <1> QED BY <1>1, <1>2 DEF LimitInv

\* Before an administrator is there the invariant holds.
LEMMA AccessInitially == AccessInit => AccessInv
  <1> SUFFICES ASSUME AccessInit PROVE AccessInv
    OBVIOUS
  <1>1. AccessTypeOK
    BY AccessAssumption DEF AccessInit, AccessTypeOK, Away, Visits
  <1>2. VisitInv /\ ResetInv /\ SessionsFollowPassword
    BY DEF AccessInit, VisitInv, ResetInv, SessionsFollowPassword, Away
  <1>3. LimitInv
    <2>1. Trying = {}
      BY DEF AccessInit, Trying, Away
    <2>2. Cardinality(Trying) = 0
      BY <2>1, FS_EmptySet
    <2> QED BY <2>2, TryingFinite, AccessAssumption DEF AccessInit, LimitInv
  <1> QED BY <1>1, <1>2, <1>3 DEF AccessInv

\* What a request does with its own visit.
LEMMA LoginKeeps ==
    ASSUME AccessInv, NEW b \in Browsers,
           \/ TryLogin(b) \/ LoginFails(b) \/ InitializeRefused(b) \/ Initialize(b)
           \/ LoginVerified(b) \/ StartChange(b) \/ ProveChange(b)
    PROVE  AccessInv'
  <1> USE DEF AccessInv
  <1>1. visit' \in [Browsers -> Visits] /\ password' \in 0..MaxPassword
    BY AccessAssumption
    DEF AccessTypeOK, Visits, Away, TryLogin, LoginFails, InitializeRefused, Initialize,
        LoginVerified, StartChange, ProveChange
  <1>2. failures' \in Nat
    BY DEF AccessTypeOK, TryLogin, LoginFails, InitializeRefused, Initialize, LoginVerified,
           StartChange, ProveChange
  <1>3. UNCHANGED <<up, ticket, under, resetting, kept, late>>
    BY DEF TryLogin, LoginFails, InitializeRefused, Initialize, LoginVerified, StartChange,
           ProveChange, sessionVars, excuseVars
  <1>4. AccessTypeOK'
    BY <1>1, <1>2, <1>3 DEF AccessTypeOK
  <1>5. /\ password' = password \/ (password = 0 /\ password' = 1)
        /\ \A x \in Browsers \ {b} : visit'[x] = visit[x]
    BY DEF AccessTypeOK, TryLogin, LoginFails, InitializeRefused, Initialize, LoginVerified,
           StartChange, ProveChange
  <1>6. VisitInv'
    <2>1. up
      BY DEF VisitInv, Away, TryLogin, LoginFails, InitializeRefused, Initialize,
             LoginVerified, StartChange, ProveChange, Admitted
    <2>2. visit'[b].pc \in {"issue", "change", "proved"} => password' # 0
      BY DEF AccessTypeOK, Visits, VisitInv, Away, TryLogin, LoginFails, InitializeRefused,
             Initialize, LoginVerified, StartChange, ProveChange, Admitted
    <2> QED BY <1>3, <1>5, <2>1, <2>2 DEF VisitInv
  <1>7. ResetInv' /\ SessionsFollowPassword'
    BY <1>3, <1>5 DEF ResetInv, SessionsFollowPassword, VisitInv
  <1>8. LimitInv'
    <2>1. CASE TryLogin(b)
      <3>1. failures' = failures /\ failures < MaxFailures
        BY <2>1, AccessAssumption DEF TryLogin, MayTry, Limited, AccessTypeOK
      <3>2. /\ Cardinality(Trying') <= Cardinality(Browsers) /\ Cardinality(Trying') \in Nat
            /\ Cardinality(Browsers) \in Nat
        <4>1. Trying' \in SUBSET Browsers /\ IsFiniteSet(Browsers)
          BY AccessAssumption DEF Trying
        <4>2. IsFiniteSet(Trying') /\ Cardinality(Trying') <= Cardinality(Browsers)
          BY <4>1, FS_Subset
        <4> QED BY <4>1, <4>2, FS_CardinalityType
      <3> QED BY <1>2, <3>1, <3>2, AccessAssumption DEF LimitInv
    <2>2. CASE LoginFails(b)
      <3>1. failures' = failures + 1 /\ b \in Trying /\ Trying' = Trying \ {b}
        BY <2>2 DEF LoginFails, Trying, AccessTypeOK, Away
      <3>2. Cardinality(Trying') = Cardinality(Trying) - 1
        BY <3>1, TryingFinite, FS_RemoveElement
      <3>3. failures \in Nat /\ MaxFailures \in Nat
        BY AccessAssumption DEF AccessTypeOK
      <3> QED BY <3>1, <3>2, <3>3, TryingFinite DEF LimitInv
    <2>3. CASE ~TryLogin(b) /\ ~LoginFails(b)
      <3>1. failures' = failures
        BY <2>3 DEF InitializeRefused, Initialize, LoginVerified, StartChange, ProveChange
      <3>2. visit'[b].pc # "trying"
        BY <2>3 DEF AccessTypeOK, Visits, Away, InitializeRefused, Initialize, LoginVerified,
                    StartChange, ProveChange
      <3>3. Trying' \subseteq Trying
        BY <1>5, <3>2 DEF Trying
      <3> QED BY <1>2, <3>1, <3>3, LimitStays
    <2> QED BY <2>1, <2>2, <2>3
  <1> QED BY <1>4, <1>6, <1>7, <1>8

\* A session is written, ended, or outlived by its password.
LEMMA TokenKeeps ==
    ASSUME AccessInv, NEW b \in Browsers,
           \/ IssueSession(b) \/ Logout(b) \/ Expire(b)
           \/ \E new, revokes \in BOOLEAN : ApplyChange(b, new, revokes)
    PROVE  AccessInv'
  <1> USE DEF AccessInv
  <1>1. /\ password' \in 0..MaxPassword /\ visit' \in [Browsers -> Visits]
        /\ under' \in [Browsers -> 0..MaxPassword]
    BY AccessAssumption DEF AccessTypeOK, Visits, Away, IssueSession, Logout, Expire, ApplyChange
  <1>2. ticket' \in [Browsers -> {"none", "valid", "revoked", "expired"}]
    BY DEF AccessTypeOK, IssueSession, Logout, Expire, ApplyChange, RevokedExcept
  <1>3. kept' \subseteq Browsers /\ late' \subseteq Browsers
    BY DEF AccessTypeOK, IssueSession, Logout, Expire, ApplyChange, excuseVars
  <1>4. UNCHANGED <<up, failures, resetting>>
    BY DEF IssueSession, Logout, Expire, ApplyChange
  <1>5. AccessTypeOK'
    BY <1>1, <1>2, <1>3, <1>4 DEF AccessTypeOK
  <1>6. \A x \in Browsers : visit'[x] = visit[x] \/ visit'[x] = Away
    BY DEF AccessTypeOK, IssueSession, Logout, Expire, ApplyChange
  <1>7. password # 0 => password' # 0
    BY DEF AccessTypeOK, IssueSession, Logout, Expire, ApplyChange
  <1>8. VisitInv'
    <2>1. \A x \in Browsers : ticket'[x] = "valid" => password # 0
      BY DEF AccessTypeOK, VisitInv, IssueSession, Logout, Expire, ApplyChange, RevokedExcept
    <2> QED BY <1>4, <1>6, <1>7, <2>1 DEF VisitInv, Away
  <1>9. ResetInv'
    BY <1>4 DEF AccessTypeOK, VisitInv, Away, ResetInv, IssueSession, Logout, Expire,
                ApplyChange, RevokedExcept, excuseVars
  <1>10. SessionsFollowPassword'
    BY DEF AccessTypeOK, SessionsFollowPassword, IssueSession, Logout, Expire, ApplyChange,
           RevokedExcept, excuseVars
  <1>11. LimitInv'
    <2>1. Trying' \subseteq Trying
      BY <1>6 DEF Trying, Away
    <2> QED BY <1>4, <1>5, <2>1, LimitStays DEF AccessTypeOK
  <1> QED BY <1>5, <1>8, <1>9, <1>10, <1>11

\* The program and init-admin.
LEMMA ProgramKeeps ==
    ASSUME AccessInv,
           \/ WindowPasses \/ StopProgram \/ StartProgram
           \/ \E done \in BOOLEAN : ResetRevokes(done) \/ ResetPassword(done)
    PROVE  AccessInv'
  <1> USE DEF AccessInv
  <1>1. failures' \in Nat /\ failures' <= failures
    BY DEF AccessTypeOK, WindowPasses, StopProgram, StartProgram, ResetRevokes, ResetPassword
  <1>2. password' \in 0..MaxPassword /\ visit' \in [Browsers -> Visits]
    BY AccessAssumption DEF AccessTypeOK, Visits, Away, WindowPasses, StopProgram,
           StartProgram, ResetRevokes, ResetPassword
  <1>3. ticket' \in [Browsers -> {"none", "valid", "revoked", "expired"}] /\ under' = under
    BY DEF AccessTypeOK, WindowPasses, StopProgram, StartProgram, ResetRevokes, ResetPassword,
           RevokedExcept, sessionVars
  <1>4. /\ kept' = kept /\ late' \subseteq Browsers
        /\ resetting' \in {"off", "revoked"} /\ up' \in BOOLEAN
    BY DEF AccessTypeOK, WindowPasses, StopProgram, StartProgram, ResetRevokes, ResetPassword,
           excuseVars
  <1>5. AccessTypeOK'
    BY <1>1, <1>2, <1>3, <1>4 DEF AccessTypeOK
  <1>6. \A x \in Browsers : visit'[x] = visit[x] \/ visit'[x] = Away
    BY DEF AccessTypeOK, WindowPasses, StopProgram, StartProgram, ResetRevokes, ResetPassword
  <1>7. VisitInv'
    <2>1. password # 0 => password' # 0
      BY DEF AccessTypeOK, WindowPasses, StopProgram, StartProgram, ResetRevokes, ResetPassword
    <2>2. \A x \in Browsers : ticket'[x] = "valid" => ticket[x] = "valid"
      BY DEF AccessTypeOK, WindowPasses, StopProgram, StartProgram, ResetRevokes, ResetPassword,
             RevokedExcept, sessionVars
    <2>3. ASSUME NEW x \in Browsers, ~up' PROVE visit'[x] = Away
      BY <2>3 DEF VisitInv, WindowPasses, StopProgram, StartProgram, ResetRevokes, ResetPassword
    <2> QED BY <1>6, <2>1, <2>2, <2>3 DEF VisitInv, Away
  <1>8. ResetInv'
    BY DEF AccessTypeOK, ResetInv, WindowPasses, StopProgram, StartProgram, ResetRevokes,
           ResetPassword, RevokedExcept, sessionVars, excuseVars
  <1>9. SessionsFollowPassword'
    BY DEF AccessTypeOK, SessionsFollowPassword, VisitInv, ResetInv, WindowPasses, StopProgram,
           StartProgram, ResetRevokes, ResetPassword, RevokedExcept, sessionVars, excuseVars
  <1>10. LimitInv'
    <2>1. Trying' \subseteq Trying
      BY <1>6 DEF Trying, Away
    <2> QED BY <1>1, <2>1, LimitStays
  <1> QED BY <1>5, <1>7, <1>8, <1>9, <1>10

\* The invariant of the administrator is inductive.
LEMMA AccessStep == AccessInv /\ [AccessNext]_accessVars => AccessInv'
  <1> SUFFICES ASSUME AccessInv, [AccessNext]_accessVars PROVE AccessInv'
    OBVIOUS
  <1>1. CASE UNCHANGED accessVars
    BY <1>1 DEF accessVars, sessionVars, excuseVars, AccessInv, AccessTypeOK, VisitInv,
                ResetInv, SessionsFollowPassword, LimitInv, Trying
  <1>2. CASE AccessNext
    BY <1>2, LoginKeeps, TokenKeeps, ProgramKeeps DEF AccessNext
  <1> QED BY <1>1, <1>2

\* What is said of logins and sessions follows from the invariant.
LEMMA AccessHolds == AccessInv => AccessTypeOK /\ AccessSafe
  <1> SUFFICES ASSUME AccessInv PROVE AccessTypeOK /\ AccessSafe
    OBVIOUS
  <1>1. failures \in Nat /\ MaxFailures \in Nat
    BY AccessAssumption DEF AccessInv, AccessTypeOK
  <1>2. AttemptsAreLimited
    BY <1>1, TryingFinite DEF AccessInv, LimitInv, AttemptsAreLimited
  <1> QED BY <1>2 DEF AccessInv, AccessSafe
=============================================================================

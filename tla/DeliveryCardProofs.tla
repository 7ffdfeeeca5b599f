------------------------- MODULE DeliveryCardProofs -------------------------
(***************************************************************************)
(* Proofs about the cards of a delivery: a card that is used up was        *)
(* accepted, in every case; a card frozen in a snapshot stays with its     *)
(* order, as long as no result of send_text exhausts the retries.  With    *)
(* one that does, the cards are given back while the snapshot keeps them.  *)
(***************************************************************************)
EXTENDS DeliveryProofs

-----------------------------------------------------------------------------
(* Cards that are used up *)

UsedInv ==
    /\ UsedOnlyIfAccepted
    /\ \A c \in Cards : cardState[c] = "used" => cardOwner[c] \in Orders

\* The steps that leave the cards alone keep what is known of those used up:
\* an attempt that has ended stays on record.
LEMMA UsedStay ==
    ASSUME UsedInv, UNCHANGED cardVars, \A o \in Orders : done[o] \subseteq done'[o]
    PROVE  UsedInv'
  BY DEF UsedInv, UsedOnlyIfAccepted, cardVars

\* Only Reserve, FinishAttempt and OpenIssue write cards, and nothing takes the
\* end of an attempt from the record.
LEMMA EndsAreKept ==
    ASSUME TypeOK, Located, [Next]_vars
    PROVE  /\ \A o \in Orders : done[o] \subseteq done'[o]
           /\ \/ UNCHANGED cardVars
              \/ \E t \in Tasks : Reserve(t) \/ FinishAttempt(t) \/ OpenIssue(t)
  <1>1. ASSUME NEW t \in Tasks, FinishAttempt(t)
        PROVE  \A o \in Orders : done[o] \subseteq done'[o]
    BY <1>1 DEF FinishAttempt, TypeOK, Located
  <1>2. ASSUME NEW t \in Tasks, Reserve(t) \/ OpenIssue(t)
        PROVE  done' = done
    BY <1>2 DEF Reserve, OpenIssue
  <1>3. ASSUME NEW t \in Tasks,
               \/ \E o \in Orders, ok \in BOOLEAN : Load(t, o, ok)
               \/ CreateInitial(t) \/ FindInitial(t) \/ Ineligible(t) \/ Probe(t)
               \/ OutOfStock(t) \/ SourceMissing(t) \/ BindSnapshot(t)
               \/ AcquireGuard(t) \/ ReadVersion(t) \/ PrepareAttempt(t)
               \/ MarkDispatching(t) \/ Barrier(t)
               \/ \E reaches \in BOOLEAN : Submit(t, reaches)
               \/ \E r \in Outcomes : Answer(t, r)
               \/ RecordContent(t) \/ FreeGuard(t)
        PROVE  UNCHANGED <<done, cardVars>>
    BY <1>3 DEF Load, CreateInitial, FindInitial, Ineligible, Probe, OutOfStock,
           SourceMissing, BindSnapshot, AcquireGuard, ReadVersion, PrepareAttempt,
           MarkDispatching, Barrier, Submit, Answer, RecordContent, FreeGuard, durable
  <1>4. ASSUME NEW o \in Orders, NEW kind \in Kinds, BootRecover(o, kind)
        PROVE  UNCHANGED cardVars /\ \A p \in Orders : done[p] \subseteq done'[p]
    BY <1>4 DEF BootRecover, TypeOK
  <1>5. CASE Control \/ Crash \/ BootDone \/ UNCHANGED vars
    BY <1>5 DEF Control, SetSwitches, ObserveOffline, ObserveOnline, Crash, BootDone,
           vars, durable
  <1> QED BY <1>1, <1>2, <1>3, <1>4, <1>5 DEF Next, Step, Restart, FinishAttempt

LEMMA UsedStep ==
    ASSUME TypeOK, Located, UsedInv, [Next]_vars
    PROVE  UsedInv'
  <1>1. ASSUME NEW t \in Tasks, Reserve(t) PROVE UsedInv'
    <2>1. done' = done
      BY <1>1 DEF Reserve
    <2>2. \A c \in Cards : cardState'[c] = "used" =>
              cardState[c] = "used" /\ cardOwner'[c] = cardOwner[c]
      BY <1>1 DEF Reserve, Free
    <2> QED BY <2>1, <2>2 DEF UsedInv, UsedOnlyIfAccepted
  <1>2. ASSUME NEW t \in Tasks, FinishAttempt(t) PROVE UsedInv'
    <2>1. CASE Consumes(res[t])
      <3>1. /\ ord[t] \in Orders /\ cardOwner' = cardOwner
            /\ \A c \in Cards : cardState'[c] = "used" =>
                   cardState[c] = "used" \/ cardOwner[c] = ord[t]
        BY <1>2, <2>1 DEF FinishAttempt, ConsumeCards, CardsOf, Located
      <3>2. "accepted" \in done'[ord[t]]
        BY <1>2, <2>1, <3>1 DEF FinishAttempt, Consumes, AttemptOf, TypeOK
      <3>3. \A o \in Orders : done[o] \subseteq done'[o]
        BY EndsAreKept
      <3> QED BY <3>1, <3>2, <3>3 DEF UsedInv, UsedOnlyIfAccepted
    <2>2. CASE ~Consumes(res[t])
      BY <1>2, <2>2, EndsAreKept, UsedStay DEF FinishAttempt
    <2> QED BY <2>1, <2>2
  <1>3. ASSUME NEW t \in Tasks, OpenIssue(t) PROVE UsedInv'
    <2>1. CASE Releases(res[t])
      <3>1. done' = done
        BY <1>3 DEF OpenIssue
      <3>2. \A c \in Cards : cardState'[c] = "used" =>
                cardState[c] = "used" /\ cardOwner'[c] = cardOwner[c]
        BY <1>3, <2>1 DEF OpenIssue, ReleaseCards, CardsOf
      <3> QED BY <3>1, <3>2 DEF UsedInv, UsedOnlyIfAccepted
    <2>2. CASE ~Releases(res[t])
      BY <1>3, <2>2, EndsAreKept, UsedStay DEF OpenIssue
    <2> QED BY <2>1, <2>2
  <1> QED BY <1>1, <1>2, <1>3, EndsAreKept, UsedStay

\* Whatever the results, retries, crashes and callers: an entry of a pool is
\* used up only by a delivery of which an attempt was accepted.
THEOREM UsedWereAccepted == Spec => []UsedOnlyIfAccepted
  <1>1. Init => UsedInv
    BY DEF Init, UsedInv, UsedOnlyIfAccepted
  <1>2. IInv /\ UsedInv /\ [Next]_vars => UsedInv'
    BY UsedStep DEF IInv, DispatchInv
  <1>3. UsedInv => UsedOnlyIfAccepted
    BY DEF UsedInv
  <1> QED BY <1>1, <1>2, <1>3, Inductive, PTL DEF Spec

-----------------------------------------------------------------------------
(* Cards that are frozen *)

\* No result of send_text leads to the end of the retries.
NeverExhausted == Outcomes \cap {"not_submitted", "refused"} = {}

\* A task that may still bind its cards has them, and a row that still waits
\* for its content was never accepted.
CardInv ==
    /\ FrozenCardsHeld
    /\ \A t \in Tasks : res[t] \notin {"not_submitted", "refused", "exhausted"}
    /\ \A t \in Tasks : pc[t] = "bind" /\ ~Bound(ord[t]) =>
           \A c \in held[t] : cardOwner[c] = ord[t] /\ cardState[c] = "reserved"
    /\ \A o \in Orders : ~Bound(o) => "accepted" \notin done[o]

\* No task has a result that gives cards back.
LEMMA ResultsStay ==
    ASSUME TypeOK, CardInv, NeverExhausted, [Next]_vars
    PROVE  \A t \in Tasks : res'[t] \notin {"not_submitted", "refused", "exhausted"}
  <1>1. ASSUME NEW t \in Tasks, NEW r \in Outcomes, Answer(t, r)
        PROVE  \A u \in Tasks : res'[u] \notin {"not_submitted", "refused", "exhausted"}
    BY <1>1, OutcomesAssumption DEF Answer, Leave, CardInv, TypeOK, NeverExhausted
  <1>2. ASSUME NEW t \in Tasks, RecordContent(t)
        PROVE  \A u \in Tasks : res'[u] \notin {"not_submitted", "refused", "exhausted"}
    BY <1>2 DEF RecordContent, Budgeted, Leave, CardInv, TypeOK
  <1>3. ASSUME NEW t \in Tasks,
               \/ \E o \in Orders, ok \in BOOLEAN : Load(t, o, ok)
               \/ CreateInitial(t) \/ FindInitial(t) \/ Ineligible(t) \/ Probe(t)
               \/ Reserve(t) \/ OutOfStock(t) \/ SourceMissing(t) \/ BindSnapshot(t)
               \/ AcquireGuard(t) \/ ReadVersion(t) \/ PrepareAttempt(t)
               \/ MarkDispatching(t) \/ Barrier(t)
               \/ \E reaches \in BOOLEAN : Submit(t, reaches)
               \/ FinishAttempt(t) \/ FreeGuard(t) \/ OpenIssue(t)
        PROVE  \A u \in Tasks : res'[u] \in {res[u], "none", "cancelled", "giveup"}
    BY <1>3 DEF Load, CreateInitial, FindInitial, Ineligible, Probe, Reserve, OutOfStock,
           SourceMissing, BindSnapshot, AcquireGuard, ReadVersion, PrepareAttempt,
           MarkDispatching, Barrier, Submit, FinishAttempt, FreeGuard, OpenIssue, Leave, TypeOK
  <1>4. CASE Control \/ Restart \/ UNCHANGED vars
    BY <1>4 DEF Control, SetSwitches, ObserveOffline, ObserveOnline, Restart, Crash, Forget,
           BootRecover, BootDone, vars, CardInv
  <1> QED BY <1>1, <1>2, <1>3, <1>4 DEF Next, Step, CardInv

\* The steps that write neither cards nor snapshots nor the ends of attempts.
LEMMA CardsStay ==
    ASSUME TypeOK, Located, CardInv,
           \A t \in Tasks : res'[t] \notin {"not_submitted", "refused", "exhausted"},
           UNCHANGED <<cardVars, snap>>,
           \A o \in Orders : "accepted" \in done'[o] <=> "accepted" \in done[o],
           \A o \in Orders : Bound(o) => Bound(o)',
           \A t \in Tasks : pc'[t] = "bind" =>
               pc[t] = "bind" /\ ord'[t] = ord[t] /\ held'[t] = held[t]
    PROVE  CardInv'
  <1>1. FrozenCardsHeld'
    BY DEF CardInv, FrozenCardsHeld, cardVars
  <1>2. ASSUME NEW t \in Tasks, pc'[t] = "bind", ~Bound(ord[t])', NEW c \in held'[t]
        PROVE  cardOwner'[c] = ord'[t] /\ cardState'[c] = "reserved"
    <2>1. pc[t] = "bind" /\ ord'[t] = ord[t] /\ held'[t] = held[t] /\ ord[t] \in Orders
      BY <1>2 DEF Located
    <2>2. ~Bound(ord[t])
      BY <1>2, <2>1 DEF Bound
    <2> QED BY <1>2, <2>1, <2>2 DEF CardInv, cardVars
  <1> QED BY <1>1, <1>2 DEF CardInv

LEMMA CardStep ==
    ASSUME IInv, CardInv, NeverExhausted, [Next]_vars
    PROVE  CardInv'
  <1>1. TypeOK /\ Located /\ StageIsTrue
    BY DEF IInv, DispatchInv
  <1>2. \A t \in Tasks : res'[t] \notin {"not_submitted", "refused", "exhausted"}
    BY <1>1, ResultsStay
  <1>3. ASSUME NEW t \in Tasks, Reserve(t) PROVE CardInv'
    <2>1. PICK cs \in SUBSET {c \in Cards : Free(c)} :
              /\ cardState' = [c \in Cards |-> IF c \in cs THEN "reserved" ELSE cardState[c]]
              /\ cardOwner' = [c \in Cards |-> IF c \in cs THEN ord[t] ELSE cardOwner[c]]
              /\ held' = [held EXCEPT ![t] = cs]
      BY <1>3 DEF Reserve
    <2>2. UNCHANGED <<content, snap, done, ord>> /\ pc' = [pc EXCEPT ![t] = "bind"]
      BY <1>3 DEF Reserve, Goto, rowVars
    <2>3. \A c \in Cards : cardState[c] # "available" =>
              cardState'[c] = cardState[c] /\ cardOwner'[c] = cardOwner[c]
      BY <2>1 DEF Free
    <2>4. FrozenCardsHeld'
      BY <2>2, <2>3 DEF CardInv, FrozenCardsHeld
    <2>5. ASSUME NEW u \in Tasks, pc'[u] = "bind", ~Bound(ord[u])', NEW c \in held'[u]
          PROVE  cardOwner'[c] = ord'[u] /\ cardState'[c] = "reserved"
      <3>1. CASE u = t
        BY <1>1, <2>1, <2>2, <2>5, <3>1 DEF TypeOK
      <3>2. CASE u # t
        <4>1. /\ pc[u] = "bind" /\ ~Bound(ord[u]) /\ c \in held[u] /\ c \in Cards
              /\ ord'[u] = ord[u]
          BY <1>1, <2>1, <2>2, <2>5, <3>2 DEF TypeOK, Bound
        <4>2. cardOwner[c] = ord[u] /\ cardState[c] = "reserved"
          BY <4>1 DEF CardInv
        <4> QED BY <2>3, <4>1, <4>2
      <3> QED BY <3>1, <3>2
    <2> QED BY <1>2, <2>2, <2>4, <2>5 DEF CardInv, Bound
  <1>4. ASSUME NEW t \in Tasks, BindSnapshot(t) PROVE CardInv'
    <2>1. CASE content[ord[t]] = "pending_verification"
      <3>1. /\ content' = [content EXCEPT ![ord[t]] = "queued"]
            /\ snap' = [snap EXCEPT ![ord[t]] = held[t]]
            /\ UNCHANGED <<done, cardState, cardOwner, ord>> /\ pc[t] = "bind"
            /\ pc' = [pc EXCEPT ![t] = "acquire"] /\ held' = [held EXCEPT ![t] = {}]
        BY <1>4, <2>1 DEF BindSnapshot, Goto, cardVars
      <3>2. ord[t] \in Orders /\ ~Bound(ord[t])
        BY <1>1, <2>1, <3>1 DEF Located, Bound
      <3>3. FrozenCardsHeld'
        BY <1>1, <3>1, <3>2 DEF CardInv, FrozenCardsHeld, TypeOK
      <3>4. \A o \in Orders : Bound(o) => Bound(o)'
        BY <1>1, <3>1 DEF Bound, TypeOK
      <3>5. \A u \in Tasks : pc'[u] = "bind" =>
                pc[u] = "bind" /\ held'[u] = held[u] /\ ord[u] \in Orders
        BY <1>1, <3>1 DEF TypeOK, Located
      <3>6. \A u \in Tasks : pc'[u] = "bind" /\ ~Bound(ord[u])' =>
                \A c \in held'[u] : cardOwner'[c] = ord'[u] /\ cardState'[c] = "reserved"
        BY <3>1, <3>4, <3>5 DEF CardInv, Bound
      <3> QED BY <1>2, <3>1, <3>3, <3>4, <3>6 DEF CardInv
    <2>2. CASE content[ord[t]] # "pending_verification"
      BY <1>1, <1>2, <1>4, <2>2, CardsStay DEF BindSnapshot, Goto, Bound, TypeOK
    <2> QED BY <2>1, <2>2
  <1>5. ASSUME NEW t \in Tasks, FinishAttempt(t) PROVE CardInv'
    <2>1. /\ ord[t] \in Orders /\ content[ord[t]] = "dispatching"
          /\ UNCHANGED <<content, snap, held, ord>> /\ pc' = [pc EXCEPT ![t] = "state"]
          /\ done' = [done EXCEPT ![ord[t]] = @ \cup {AttemptOf(res[t])}]
      BY <1>1, <1>5 DEF FinishAttempt, Located, StageIsTrue, Goto, rowVars, frame
    <2>2. CASE res[t] = "accepted"
      <3>1. /\ cardOwner' = cardOwner
            /\ cardState' = [c \in Cards |-> IF c \in CardsOf(ord[t]) THEN "used" ELSE cardState[c]]
            /\ "accepted" \in done'[ord[t]]
        BY <1>1, <1>5, <2>1, <2>2 DEF FinishAttempt, Consumes, ConsumeCards, AttemptOf, TypeOK
      <3>2. FrozenCardsHeld'
        <4>1. SUFFICES ASSUME NEW o \in Orders, NEW c \in Cards, c \in snap[o]
                       PROVE  /\ cardOwner'[c] = o
                              /\ cardState'[c] = IF "accepted" \in done'[o] THEN "used"
                                                                          ELSE "reserved"
          BY <2>1 DEF FrozenCardsHeld
        <4>2. /\ cardOwner[c] = o
              /\ cardState[c] = IF "accepted" \in done[o] THEN "used" ELSE "reserved"
          BY <4>1 DEF CardInv, FrozenCardsHeld
        <4>3. CASE o = ord[t]
          BY <3>1, <4>2, <4>3 DEF CardsOf
        <4>4. CASE o # ord[t]
          BY <1>1, <2>1, <3>1, <4>2, <4>4 DEF CardsOf, TypeOK
        <4> QED BY <4>3, <4>4
      <3>3. ASSUME NEW u \in Tasks, pc'[u] = "bind", ~Bound(ord[u])', NEW c \in held'[u]
            PROVE  cardOwner'[c] = ord'[u] /\ cardState'[c] = "reserved"
        <4>1. /\ pc[u] = "bind" /\ ~Bound(ord[u]) /\ c \in held[u] /\ c \in Cards
              /\ ord[u] # ord[t]
          BY <1>1, <2>1, <3>3 DEF TypeOK, Bound
        <4>2. cardOwner[c] = ord[u] /\ cardState[c] = "reserved"
          BY <4>1 DEF CardInv
        <4> QED BY <2>1, <3>1, <4>1, <4>2 DEF CardsOf
      <3>4. \A o \in Orders : ~Bound(o)' => "accepted" \notin done'[o]
        BY <1>1, <2>1 DEF CardInv, Bound, TypeOK
      <3> QED BY <1>2, <3>2, <3>3, <3>4 DEF CardInv
    <2>3. CASE res[t] # "accepted"
      <3>1. AttemptOf(res[t]) # "accepted" /\ UNCHANGED cardVars
        BY <1>5, <2>3 DEF FinishAttempt, Consumes, AttemptOf
      <3>2. \A o \in Orders : "accepted" \in done'[o] <=> "accepted" \in done[o]
        BY <1>1, <2>1, <3>1 DEF TypeOK
      <3> QED BY <1>1, <1>2, <2>1, <3>1, <3>2, CardsStay DEF Bound, TypeOK
    <2> QED BY <2>2, <2>3
  <1>6. ASSUME NEW t \in Tasks, OpenIssue(t) PROVE CardInv'
    <2>1. ~Releases(res[t])
      BY DEF CardInv, Releases
    <2> QED BY <1>1, <1>2, <1>6, <2>1, CardsStay DEF OpenIssue, Leave, Goto, Bound, rowVars, TypeOK
  <1>7. ASSUME NEW t \in Tasks,
               CreateInitial(t) \/ MarkDispatching(t) \/ RecordContent(t)
        PROVE  CardInv'
    <2>1. ord[t] \in Orders
      BY <1>1, <1>7 DEF CreateInitial, MarkDispatching, RecordContent, Located
    <2>2. \A o \in Orders : Bound(o) => Bound(o)'
      BY <1>1, <1>7, <2>1 DEF CreateInitial, MarkDispatching, RecordContent, ContentOf,
                              ContentTransition, Bound, TypeOK
    <2>3. UNCHANGED <<cardVars, snap, done>>
      BY <1>7 DEF CreateInitial, MarkDispatching, RecordContent
    <2>4. \A u \in Tasks : pc'[u] = "bind" =>
              pc[u] = "bind" /\ ord'[u] = ord[u] /\ held'[u] = held[u]
      BY <1>1, <1>7 DEF CreateInitial, MarkDispatching, RecordContent, Leave, Goto, frame, TypeOK
    <2> QED BY <1>1, <1>2, <2>2, <2>3, <2>4, CardsStay
  <1>8. ASSUME NEW t \in Tasks,
               \/ \E o \in Orders, ok \in BOOLEAN : Load(t, o, ok)
               \/ FindInitial(t) \/ Ineligible(t) \/ Probe(t) \/ OutOfStock(t)
               \/ SourceMissing(t) \/ AcquireGuard(t) \/ ReadVersion(t)
               \/ PrepareAttempt(t) \/ Barrier(t)
               \/ \E reaches \in BOOLEAN : Submit(t, reaches)
               \/ \E r \in Outcomes : Answer(t, r)
               \/ FreeGuard(t)
        PROVE  CardInv'
    <2>1. UNCHANGED <<cardVars, content, snap, done>>
      BY <1>8 DEF Load, FindInitial, Ineligible, Probe, OutOfStock, SourceMissing, AcquireGuard,
             ReadVersion, PrepareAttempt, Barrier, Submit, Answer, FreeGuard, durable, rowVars
    <2>2. \A u \in Tasks : pc'[u] = "bind" =>
              pc[u] = "bind" /\ ord'[u] = ord[u] /\ held'[u] = held[u]
      BY <1>1, <1>8 DEF Load, FindInitial, Ineligible, Probe, OutOfStock, SourceMissing,
             AcquireGuard, ReadVersion, PrepareAttempt, Barrier, Submit, Answer, FreeGuard,
             Leave, Goto, frame, TypeOK
    <2> QED BY <1>1, <1>2, <2>1, <2>2, CardsStay DEF Bound
  <1>9. CASE Control \/ Crash \/ BootDone \/ UNCHANGED vars
    <2>1. UNCHANGED <<cardVars, content, snap, done>>
      BY <1>9 DEF Control, SetSwitches, ObserveOffline, ObserveOnline, Crash, BootDone, vars,
             durable, rowVars
    <2>2. \A u \in Tasks : pc'[u] = "bind" =>
              pc[u] = "bind" /\ ord'[u] = ord[u] /\ held'[u] = held[u]
      BY <1>9 DEF Control, SetSwitches, ObserveOffline, ObserveOnline, Crash, Forget, BootDone,
             vars, frame
    <2> QED BY <1>1, <1>2, <2>1, <2>2, CardsStay DEF Bound
  <1>10. ASSUME NEW o \in Orders, NEW kind \in Kinds, BootRecover(o, kind) PROVE CardInv'
    <2>1. /\ UNCHANGED <<cardVars, snap, pc, frame>>
          /\ done' = [done EXCEPT ![o] = @ \cup {"unknown"}]
          /\ content' = [content EXCEPT ![o] = Recovered(@)]
      BY <1>10 DEF BootRecover
    <2>2. \A p \in Orders : ("accepted" \in done'[p] <=> "accepted" \in done[p])
                            /\ (Bound(p) => Bound(p)')
      BY <1>1, <2>1 DEF TypeOK, Bound, Recovered
    <2> QED BY <1>1, <1>2, <2>1, <2>2, CardsStay DEF frame
  <1> QED BY <1>3, <1>4, <1>5, <1>6, <1>7, <1>8, <1>9, <1>10 DEF Next, Step, Restart

LEMMA CardsAreKept == ASSUME NeverExhausted PROVE Spec => [](IInv /\ CardInv)
  <1>1. Init => CardInv
    BY DEF Init, CardInv, FrozenCardsHeld
  <1>2. IInv /\ CardInv /\ [Next]_vars => CardInv'
    BY CardStep
  <1> QED BY <1>1, <1>2, Inductive, PTL DEF Spec

\* If no result exhausts the retries: from the binding of a snapshot its cards
\* are reserved for its order, and used once an attempt was accepted, whatever
\* is unknown, cancelled or interrupted in between.
THEOREM FrozenCardsStay == ASSUME NeverExhausted PROVE Spec => []FrozenCardsHeld
  <1>1. CardInv => FrozenCardsHeld
    BY DEF CardInv
  <1> QED BY <1>1, CardsAreKept, PTL

\* Under the same condition no two buyers are sent one card, for any number of
\* orders that draw on the pool.
THEOREM CardsAreNotShared == ASSUME NeverExhausted PROVE Spec => []CardOneOrder
  <1>1. IInv /\ CardInv => CardOneOrder
    <2>1. SUFFICES ASSUME TypeOK, FrozenCardsHeld, NEW o \in Orders, NEW p \in Orders, o # p,
                          NEW c \in snap[o] \cap snap[p]
                   PROVE  FALSE
      BY DEF IInv, CardInv, CardOneOrder
    <2>2. c \in Cards
      BY <2>1 DEF TypeOK
    <2> QED BY <2>1, <2>2 DEF FrozenCardsHeld
  <1> QED BY <1>1, CardsAreKept, PTL
=============================================================================

------------------------------ MODULE Delivery ------------------------------
(***************************************************************************)
(* The automatic delivery of paid orders: DeliveryService::handle and all   *)
(* it calls (src/application/delivery/service.rs), run by several tasks at  *)
(* once, on the rows of `deliveries`, `attempts`, `order_execution_guards`, *)
(* `issues` and `card_entries`, with crashes of the process and its restart.*)
(*                                                                         *)
(* Tasks are the callers of `handle` that may run at the same time: the    *)
(* supervisor's dispatch_loop (one payment event after the other), its     *)
(* recovery_loop (compensation, then the trace scan, which hands EVERY     *)
(* traced order to handle_payment again) and the requests for a manual     *)
(* trigger or takeover.  Each may pick any order at any time.              *)
(*                                                                         *)
(* One action is one closure sent to the database thread, which runs them  *)
(* one at a time (src/adapters/sqlite/db.rs), or one call of the platform; *)
(* everything between two of them interleaves.                             *)
(***************************************************************************)
EXTENDS DeliveryStates, Naturals, FiniteSets

CONSTANTS
    Orders,      \* the paid orders of one account
    Tasks,       \* concurrent callers of handle
    Cards,       \* the entries of the one card pool the rule is bound to
    Units,       \* cards a delivery takes; 0: a fixed text, of the rule or of a text pool
    MaxRetries,  \* MAX_AUTO_RETRIES
    Outcomes,    \* the results of send_text that may occur
    MaxCrashes,  \* bound on the crashes of a behaviour
    MaxControls, \* bound on changes of the switches and losses of the connection
    BootRuns,    \* whether a restart runs BootRecovery
    NoOrder      \* the value of an empty reference to an order

ASSUME UnitsAssumption == Units \in Nat
ASSUME RetriesAssumption == MaxRetries \in Nat
ASSUME CrashesAssumption == MaxCrashes \in Nat
ASSUME ControlsAssumption == MaxControls \in Nat
ASSUME BootAssumption == BootRuns \in BOOLEAN
ASSUME NoOrderAssumption == NoOrder \notin Orders
ASSUME OutcomesAssumption ==
    Outcomes \subseteq {"accepted", "not_submitted", "refused", "rejected",
                        "unknown", "error"}

VARIABLES
    \* durable: one function per column, indexed by the order or the card
    content, review, retries, snap,   \* the initial row of `deliveries`
    open,        \* the orders' attempts still 'dispatching', by action kind
    done,        \* the finished states of its attempts
    guard, issue,
    cardState, cardOwner,
    enabled,     \* runtime_enabled and auto_delivery_enabled
    online,      \* status = 'online'
    phase,       \* "boot" while BootRecovery runs, then "up"
    crashes, controls,
    \* what reached the platform, outside the process
    copies,      \* messages the buyer received, counted up to two
    \* the tasks' stack frames
    pc, ord,
    elig,        \* the verdict of eligibility::verify
    held,        \* the cards reserved by plan_card_pool, not yet bound
    fresh,       \* tasks whose deliveries.version read is still current
    current,     \* tasks whose control_epoch read is still current
    res          \* how the attempt ended

rowVars == <<content, review, retries, snap>>
cardVars == <<cardState, cardOwner>>
accountVars == <<enabled, online>>
processVars == <<phase, crashes, controls>>
durable == <<rowVars, open, done, guard, issue, cardVars>>
frame == <<ord, elig, held>>
vars == <<durable, accountVars, processVars, copies, frame, pc, fresh,
          current, res>>

-----------------------------------------------------------------------------
(* Types *)

TaskStates == {"idle", "create", "find", "verdict", "plan", "bind",
               "acquire", "read", "prepare", "mark", "barrier", "submit",
               "reached", "missed", "finish", "state", "free", "issue"}

Results == {"none", "accepted", "not_submitted", "refused", "rejected",
            "unknown", "cancelled", "exhausted", "giveup"}

\* attempts.action_kind of the attempts to send the content.
Kinds == {"initial", "manual_resend"}

RetryCap == MaxRetries + 2   \* retry_count is followed up to here

TypeOK ==
    /\ content \in [Orders -> ContentStates]
    /\ review \in [Orders -> ReviewStates]
    /\ retries \in [Orders -> 0..RetryCap]
    /\ snap \in [Orders -> SUBSET Cards]
    /\ open \in [Orders -> SUBSET Kinds]
    /\ done \in [Orders -> SUBSET FinishedStates]
    /\ guard \in [Orders -> GuardStates]
    /\ issue \in [Orders -> BOOLEAN]
    /\ cardState \in [Cards -> {"available", "reserved", "used"}]
    /\ cardOwner \in [Cards -> Orders \cup {NoOrder}]
    /\ enabled \in BOOLEAN /\ online \in BOOLEAN
    /\ phase \in {"boot", "up"} /\ crashes \in 0..MaxCrashes
    /\ controls \in 0..MaxControls
    /\ copies \in [Orders -> 0..2]
    /\ pc \in [Tasks -> TaskStates]
    /\ ord \in [Tasks -> Orders \cup {NoOrder}]
    /\ elig \in [Tasks -> BOOLEAN]
    /\ held \in [Tasks -> SUBSET Cards]
    /\ fresh \in SUBSET Tasks /\ current \in SUBSET Tasks
    /\ res \in [Tasks -> Results]

-----------------------------------------------------------------------------
(* Helpers *)

Goto(t, l) == pc' = [pc EXCEPT ![t] = l]

\* handle returns: its locals are gone.
Leave(t) ==
    /\ Goto(t, "idle")
    /\ ord' = [ord EXCEPT ![t] = NoOrder]
    /\ elig' = [elig EXCEPT ![t] = FALSE]
    /\ held' = [held EXCEPT ![t] = {}]
    /\ res' = [res EXCEPT ![t] = "none"]
    /\ fresh' = fresh \ {t}
    /\ current' = current \ {t}

\* A write to the row of o makes every version read of it stale.
Touched(o) == {t \in fresh : ord[t] # o}

Bound(o) == content[o] \notin {"absent", "pending_verification"}

CardsOf(o) == {c \in Cards : cardOwner[c] = o /\ cardState[c] = "reserved"}

\* release_by_delivery: the reserved entries go back to stock, used ones stay.
ReleaseCards(o) ==
    /\ cardState' = [c \in Cards |->
                        IF c \in CardsOf(o) THEN "available" ELSE cardState[c]]
    /\ cardOwner' = [c \in Cards |->
                        IF c \in CardsOf(o) THEN NoOrder ELSE cardOwner[c]]

\* consume_by_delivery: every entry reserved for the delivery becomes used.
ConsumeCards(o) ==
    /\ cardState' = [c \in Cards |->
                        IF c \in CardsOf(o) THEN "used" ELSE cardState[c]]
    /\ UNCHANGED cardOwner

\* classify_and_persist, read as a table of the result.
ReviewOf(r) == CASE r = "accepted" -> "resolved"
                 [] r \in {"not_submitted", "cancelled"} -> "none"
                 [] OTHER -> "required"
\* (Mutant: a handle that loses the race for the attempt keeps the guard.)
GuardOfKept(r) == CASE r = "accepted" -> "terminal"
                    [] r = "unknown" -> "unknown_manual"
                    [] r = "giveup" -> "active"
                    [] OTHER -> "released"
GuardOf(r) == CASE r = "accepted" -> "terminal"
                [] r = "unknown" -> "unknown_manual"
                [] OTHER -> "released"
\* (Mutant: a refusal by the platform is only logged.)
OpensIssueSilently(r) == r \in {"exhausted", "unknown"}
OpensIssue(r) == r \in {"exhausted", "rejected", "unknown"}

\* The cards are consumed with an accepted attempt, given back with an
\* exhausted one, and stay reserved with any other.
\* (Mutants: an unknown send consumes them; a refused one gives them back.)
ConsumesUnknown(r) == r \in {"accepted", "unknown"}
Consumes(r) == r = "accepted"
ReleasesRejected(r) == r \in {"exhausted", "rejected"}
Releases(r) == r = "exhausted"

\* The retry budget: a retryable NotSubmitted is rescheduled while
\* retry_count < MAX_AUTO_RETRIES; else, like a final one, it needs a person.
Budgeted(r, used) ==
    IF r = "refused" \/ (r = "not_submitted" /\ used >= MaxRetries)
    THEN "exhausted" ELSE r

-----------------------------------------------------------------------------
(* handle: facts, verdict, the unique initial row *)

\* The platform's snapshot and the facts are read: the order row exists from
\* here on, control_epoch and the switches are remembered in `facts`.  The
\* verdict may also fail for the order's own facts (no rule, off sale, ...).
Load(t, o, ok) ==
    /\ pc[t] = "idle" /\ phase = "up"
    /\ ok => enabled /\ online
    /\ Goto(t, "create")
    /\ ord' = [ord EXCEPT ![t] = o]
    /\ elig' = [elig EXCEPT ![t] = ok]
    /\ current' = current \cup {t}
    /\ UNCHANGED <<durable, accountVars, processVars, copies, held, fresh, res>>

CreateInitial(t) ==
    /\ pc[t] = "create"
    /\ IF content[ord[t]] = "absent"
       THEN /\ content' = [content EXCEPT ![ord[t]] = "pending_verification"]
            /\ Goto(t, "verdict")
       ELSE /\ Goto(t, "find")
            /\ UNCHANGED content
    /\ UNCHANGED <<review, retries, snap, open, done, guard, issue, cardVars,
                   accountVars, processVars, copies, frame, fresh, current, res>>

FindInitial(t) ==
    /\ pc[t] = "find"
    /\ IF content[ord[t]] \in {"accepted", "unknown", "terminated"}
       THEN Leave(t)
       ELSE Goto(t, "verdict") /\ UNCHANGED <<frame, res, fresh, current>>
    /\ UNCHANGED <<durable, accountVars, processVars, copies>>

\* open_ineligible_issue: the row itself does not change.
Ineligible(t) ==
    /\ pc[t] = "verdict" /\ ~elig[t]
    /\ issue' = [issue EXCEPT ![ord[t]] = TRUE]
    /\ Leave(t)
    /\ UNCHANGED <<rowVars, open, done, guard, cardVars, accountVars,
                   processVars, copies>>

-----------------------------------------------------------------------------
(* freeze_snapshot *)

Probe(t) ==
    /\ pc[t] = "verdict" /\ elig[t]
    /\ Goto(t, IF Bound(ord[t]) THEN "acquire" ELSE "plan")
    /\ UNCHANGED <<durable, accountVars, processVars, copies, frame, fresh,
                   current, res>>

\* reserve_one's predicate.  (Mutant: any entry that is not used up.)
NotUsed(c) == cardState[c] # "used"
Free(c) == cardState[c] = "available"

\* plan_card_pool: one transaction reserves all the units or none of them.
Reserve(t) ==
    /\ pc[t] = "plan"
    /\ \E cs \in SUBSET {c \in Cards : Free(c)} :
         /\ Cardinality(cs) = Units
         /\ cardState' = [c \in Cards |->
                             IF c \in cs THEN "reserved" ELSE cardState[c]]
         /\ cardOwner' = [c \in Cards |->
                             IF c \in cs THEN ord[t] ELSE cardOwner[c]]
         /\ held' = [held EXCEPT ![t] = cs]
    /\ Goto(t, "bind")
    /\ UNCHANGED <<rowVars, open, done, guard, issue, accountVars, processVars,
                   copies, ord, elig, fresh, current, res>>

\* Too few cards, or the pool is disabled: open_stock_issue, no delivery.
OutOfStock(t) ==
    /\ pc[t] = "plan"
    /\ issue' = [issue EXCEPT ![ord[t]] = TRUE]
    /\ Leave(t)
    /\ UNCHANGED <<rowVars, open, done, guard, cardVars, accountVars,
                   processVars, copies>>

\* The rule, its content version or its template is gone: `false`, silently.
SourceMissing(t) ==
    /\ pc[t] = "plan"
    /\ Leave(t)
    /\ UNCHANGED <<durable, accountVars, processVars, copies>>

\* freeze_plaintext: the snapshot is stored, then bound only while the row is
\* still pending; whether it was bound is not looked at.
BindSnapshot(t) ==
    /\ pc[t] = "bind"
    /\ IF content[ord[t]] = "pending_verification"
       THEN /\ content' = [content EXCEPT ![ord[t]] = "queued"]
            /\ snap' = [snap EXCEPT ![ord[t]] = held[t]]
            /\ fresh' = Touched(ord[t])
       ELSE UNCHANGED <<content, snap, fresh>>
    /\ held' = [held EXCEPT ![t] = {}]
    /\ Goto(t, "acquire")
    /\ UNCHANGED <<review, retries, open, done, guard, issue, cardVars,
                   accountVars, processVars, copies, ord, elig, current, res>>

-----------------------------------------------------------------------------
(* dispatch: guard, attempt, barrier, hand-off *)

\* acquire_guard refuses an 'active' guard only; any other is taken over.
\* (Mutant: the row is overwritten without a look at its state.)
AlwaysTakeable(o) == TRUE
Takeable(o) == guard[o] # "active"

AcquireGuard(t) ==
    /\ pc[t] = "acquire"
    /\ IF Takeable(ord[t])
       THEN /\ guard' = [guard EXCEPT ![ord[t]] = "active"]
            /\ Goto(t, "read")
            /\ UNCHANGED <<frame, fresh, current, res>>
       ELSE /\ Leave(t)
            /\ UNCHANGED guard
    /\ UNCHANGED <<rowVars, open, done, issue, cardVars, accountVars,
                   processVars, copies>>

ReadVersion(t) ==
    /\ pc[t] = "read"
    /\ fresh' = fresh \cup {t}
    /\ Goto(t, "prepare")
    /\ UNCHANGED <<durable, accountVars, processVars, copies, frame, current,
                   res>>

\* prepare_attempt: the attempt is inserted 'dispatching' if none of its kind
\* is unfinished, the content allows it and the version is the one read.
CanPrepare(t) ==
    /\ "initial" \notin open[ord[t]]
    /\ content[ord[t]] \in AllowedStates("initial")
    /\ t \in fresh

\* (Mutant: the attempt is written with the result, not before the send.)
NothingInserted(o) == open[o]
Inserted(o) == open[o] \cup {"initial"}

PrepareAttempt(t) ==
    /\ pc[t] = "prepare"
    /\ IF CanPrepare(t)
       THEN /\ open' = [open EXCEPT ![ord[t]] = Inserted(ord[t])]
            /\ Goto(t, "mark")
            /\ UNCHANGED res
       ELSE /\ Goto(t, "free")
            /\ res' = [res EXCEPT ![t] = "giveup"]
            /\ UNCHANGED open
    /\ UNCHANGED <<rowVars, done, guard, issue, cardVars, accountVars,
                   processVars, copies, frame, fresh, current>>

\* set_full_state(Dispatching); an illegal move is an error that ends handle.
MarkDispatching(t) ==
    /\ pc[t] = "mark"
    /\ IF <<content[ord[t]], "dispatching">> \in ContentTransition
       THEN /\ content' = [content EXCEPT ![ord[t]] = "dispatching"]
            /\ review' = [review EXCEPT ![ord[t]] = "none"]
            /\ fresh' = Touched(ord[t])
            /\ Goto(t, "barrier")
            /\ UNCHANGED <<frame, current, res>>
       ELSE /\ Leave(t)
            /\ UNCHANGED <<content, review>>
    /\ UNCHANGED <<retries, snap, open, done, guard, issue, cardVars,
                   accountVars, processVars, copies>>

\* The pause barrier: the account is read again just before the hand-off.
BarrierOpen(t) == t \in current /\ enabled /\ online

Barrier(t) ==
    /\ pc[t] = "barrier"
    /\ IF BarrierOpen(t)
       THEN Goto(t, "submit") /\ UNCHANGED res
       ELSE Goto(t, "finish") /\ res' = [res EXCEPT ![t] = "cancelled"]
    /\ UNCHANGED <<durable, accountVars, processVars, copies, frame, fresh,
                   current>>

\* send_text puts the message on the wire, or fails to.
Submit(t, reaches) ==
    /\ pc[t] = "submit"
    /\ IF reaches
       THEN /\ copies' = [copies EXCEPT ![ord[t]] = IF @ < 2 THEN @ + 1 ELSE @]
            /\ Goto(t, "reached")
       ELSE /\ Goto(t, "missed")
            /\ UNCHANGED copies
    /\ UNCHANGED <<durable, accountVars, processVars, frame, fresh, current, res>>

\* send_text answers.  An error that is none of the classified ones (the
\* session has expired, ...) is returned as it is.
Answer(t, r) ==
    /\ pc[t] \in {"reached", "missed"}
    /\ r \in Outcomes
    /\ Consistent(r, pc[t] = "reached")
    /\ IF r = "error"
       THEN Leave(t)
       ELSE /\ Goto(t, "finish")
            /\ res' = [res EXCEPT ![t] = r]
            /\ UNCHANGED <<frame, fresh, current>>
    /\ UNCHANGED <<durable, accountVars, processVars, copies>>

-----------------------------------------------------------------------------
(* classify_and_persist: attempt, row, guard, issue -- four closures *)

\* finish_attempt; an accepted one also consumes the cards.
FinishAttempt(t) ==
    /\ pc[t] = "finish"
    /\ open' = [open EXCEPT ![ord[t]] = @ \ {"initial"}]
    /\ done' = [done EXCEPT ![ord[t]] = @ \cup {AttemptOf(res[t])}]
    /\ IF Consumes(res[t]) THEN ConsumeCards(ord[t]) ELSE UNCHANGED cardVars
    /\ Goto(t, "state")
    /\ UNCHANGED <<rowVars, guard, issue, accountVars, processVars, copies,
                   frame, fresh, current, res>>

RecordContent(t) ==
    LET o == ord[t]
        r == Budgeted(res[t], retries[o])
    IN  /\ pc[t] = "state"
        /\ IF <<content[o], ContentOf(r)>> \in ContentTransition
           THEN /\ content' = [content EXCEPT ![o] = ContentOf(r)]
                /\ review' = [review EXCEPT ![o] = ReviewOf(r)]
                /\ retries' = [retries EXCEPT ![o] =
                        IF res[t] \in {"not_submitted", "refused"} /\ @ < RetryCap
                        THEN @ + 1 ELSE @]
                /\ res' = [res EXCEPT ![t] = r]
                /\ fresh' = Touched(o)
                /\ Goto(t, "free")
                /\ UNCHANGED <<frame, current>>
           ELSE /\ Leave(t)
                /\ UNCHANGED <<content, review, retries>>
        /\ UNCHANGED <<snap, open, done, guard, issue, cardVars, accountVars,
                       processVars, copies>>

\* release_guard writes the guard whatever it holds.
FreeGuard(t) ==
    /\ pc[t] = "free"
    /\ guard' = [guard EXCEPT ![ord[t]] = GuardOf(res[t])]
    /\ IF OpensIssue(res[t])
       THEN Goto(t, "issue") /\ UNCHANGED <<frame, res, fresh, current>>
       ELSE Leave(t)
    /\ UNCHANGED <<rowVars, open, done, issue, cardVars, accountVars,
                   processVars, copies>>

\* An exhausted delivery gives its cards back in the same closure.
OpenIssue(t) ==
    /\ pc[t] = "issue"
    /\ issue' = [issue EXCEPT ![ord[t]] = TRUE]
    /\ IF Releases(res[t]) THEN ReleaseCards(ord[t]) ELSE UNCHANGED cardVars
    /\ Leave(t)
    /\ UNCHANGED <<rowVars, open, done, guard, accountVars, processVars, copies>>

-----------------------------------------------------------------------------
(* The account, crashes and restarts *)

\* AccountControlService::set_switches: every change is a new control_epoch;
\* stopping the account also takes it off line, stopping the delivery does not.
SetSwitches(e, keepOnline) ==
    /\ controls < MaxControls
    /\ e => keepOnline
    /\ controls' = controls + 1
    /\ enabled' = e
    /\ online' = (online /\ keepOnline)
    /\ current' = {}
    /\ UNCHANGED <<durable, phase, crashes, copies, frame, pc, fresh, res>>

\* The status the runtime observes is written without a new control_epoch.
ObserveOffline ==
    /\ controls < MaxControls
    /\ controls' = controls + 1
    /\ online /\ online' = FALSE
    /\ UNCHANGED <<durable, enabled, phase, crashes, copies, frame, pc, fresh,
                   current, res>>

ObserveOnline ==
    /\ ~online /\ online' = TRUE
    /\ UNCHANGED <<durable, enabled, processVars, copies, frame, pc, fresh,
                   current, res>>

Forget ==
    /\ pc' = [t \in Tasks |-> "idle"]
    /\ ord' = [t \in Tasks |-> NoOrder]
    /\ elig' = [t \in Tasks |-> FALSE]
    /\ held' = [t \in Tasks |-> {}]
    /\ res' = [t \in Tasks |-> "none"]
    /\ fresh' = {} /\ current' = {}

\* The process dies and `serve` starts again: frames are lost, rows are kept,
\* an online account is set offline.  `serve` goes on without BootRecovery;
\* with BootRuns the restart runs it first, as cli.md orders.
Crash ==
    /\ crashes < MaxCrashes
    /\ crashes' = crashes + 1
    /\ phase' = IF BootRuns THEN "boot" ELSE "up"
    /\ online' = FALSE
    /\ Forget
    /\ UNCHANGED <<durable, enabled, controls, copies>>

\* The attempts BootRecovery selects.  (Mutant: by the state of the content.)
UnresolvedContent(o) == IF content[o] = "dispatching" THEN open[o] ELSE {}
Unresolved(o) == open[o]

\* (Mutant: what the crash interrupted counts as not sent.)
RecoveredNotSent(c) == IF c = "dispatching" THEN "not_sent" ELSE c
Recovered(c) == IF c = "dispatching" THEN "unknown" ELSE c

\* BootRecovery::run, one unfinished attempt: it becomes unknown, the content
\* only if it was still 'dispatching', the guard waits for a person.
BootRecover(o, kind) ==
    /\ phase = "boot" /\ kind \in Unresolved(o)
    /\ open' = [open EXCEPT ![o] = @ \ {kind}]
    /\ done' = [done EXCEPT ![o] = @ \cup {"unknown"}]
    /\ content' = [content EXCEPT ![o] = Recovered(@)]
    /\ review' = [review EXCEPT ![o] =
                      IF content[o] = "dispatching" THEN "required" ELSE @]
    /\ issue' = [issue EXCEPT ![o] = TRUE]
    /\ guard' = [guard EXCEPT ![o] = "unknown_manual"]
    /\ UNCHANGED <<retries, snap, cardVars, accountVars, processVars, copies,
                   frame, pc, fresh, current, res>>

BootDone ==
    /\ phase = "boot"
    /\ \A o \in Orders : Unresolved(o) = {}
    /\ phase' = "up"
    /\ UNCHANGED <<durable, accountVars, crashes, controls, copies, frame, pc, fresh,
                   current, res>>

-----------------------------------------------------------------------------
(* Specification *)

Init ==
    /\ content = [o \in Orders |-> "absent"]
    /\ review = [o \in Orders |-> "none"]
    /\ retries = [o \in Orders |-> 0]
    /\ snap = [o \in Orders |-> {}]
    /\ open = [o \in Orders |-> {}]
    /\ done = [o \in Orders |-> {}]
    /\ guard = [o \in Orders |-> "none"]
    /\ issue = [o \in Orders |-> FALSE]
    /\ cardState = [c \in Cards |-> "available"]
    /\ cardOwner = [c \in Cards |-> NoOrder]
    /\ enabled = TRUE /\ online = TRUE
    /\ phase = "up" /\ crashes = 0 /\ controls = 0
    /\ copies = [o \in Orders |-> 0]
    /\ pc = [t \in Tasks |-> "idle"]
    /\ ord = [t \in Tasks |-> NoOrder]
    /\ elig = [t \in Tasks |-> FALSE]
    /\ held = [t \in Tasks |-> {}]
    /\ fresh = {} /\ current = {}
    /\ res = [t \in Tasks |-> "none"]

\* The steps of handle once its facts are loaded.
Step(t) ==
    \/ CreateInitial(t) \/ FindInitial(t) \/ Ineligible(t)
    \/ Probe(t) \/ Reserve(t) \/ OutOfStock(t) \/ SourceMissing(t)
    \/ BindSnapshot(t)
    \/ AcquireGuard(t) \/ ReadVersion(t) \/ PrepareAttempt(t)
    \/ MarkDispatching(t) \/ Barrier(t)
    \/ \E reaches \in BOOLEAN : Submit(t, reaches)
    \/ \E r \in Outcomes : Answer(t, r)
    \/ FinishAttempt(t) \/ RecordContent(t) \/ FreeGuard(t) \/ OpenIssue(t)

Control ==
    \/ \E e, keepOnline \in BOOLEAN : SetSwitches(e, keepOnline)
    \/ ObserveOffline
    \/ ObserveOnline

Restart ==
    \/ Crash
    \/ \E o \in Orders, kind \in Kinds : BootRecover(o, kind)
    \/ BootDone

Next ==
    \/ \E t \in Tasks, o \in Orders, ok \in BOOLEAN : Load(t, o, ok)
    \/ \E t \in Tasks : Step(t)
    \/ Control
    \/ Restart

Spec == Init /\ [][Next]_vars

\* tokio keeps polling a task that can go on, and every call it waits for
\* returns (the database thread answers, send_text has a deadline): a handle
\* that was begun goes on.  Nothing is assumed of payments, of the owner of
\* the account or of crashes.
FairSpec == Spec /\ \A t \in Tasks : WF_vars(Step(t))

-----------------------------------------------------------------------------
(* Properties *)

\* From acquire_guard to release_guard, whatever the way out.
HoldsGuard(t) == pc[t] \in {"read", "prepare", "mark", "barrier", "submit",
                            "reached", "missed", "finish", "state", "free"}

\* Two callers of handle never execute the same order together: the guard row
\* is 'active' as long as one is between acquire_guard and release_guard.
MutualExclusion ==
    /\ \A t \in Tasks : HoldsGuard(t) => guard[ord[t]] = "active"
    /\ \A t, u \in Tasks : HoldsGuard(t) /\ HoldsGuard(u) /\ ord[t] = ord[u] => t = u

\* However often handle is called for an order, by whomever and across which
\* crashes, the automatic path delivers its content at most once.
AtMostOneCopy == \A o \in Orders : copies[o] <= 1

\* What a row says is what happened: 'accepted' was received, and a row that
\* may be dispatched again was not.
ContentIsTrue ==
    \A o \in Orders :
        /\ content[o] = "accepted" => copies[o] = 1
        /\ content[o] \in AllowedStates("initial") => copies[o] = 0

\* The buyer never has a message the database knows nothing of: an attempt is
\* unfinished, or one has ended as accepted or unknown (write-ahead of T3).
RecordedBeforeSent ==
    \A o \in Orders : copies[o] > 0 =>
        "initial" \in open[o] \/ done[o] \cap {"accepted", "unknown"} # {}

\* The cards frozen in a snapshot stay with its order, and no other snapshot
\* has them: an unknown result neither returns nor exchanges them.
FrozenCardsHeld ==
    \A o \in Orders, c \in Cards : c \in snap[o] =>
        /\ cardOwner[c] = o
        /\ cardState[c] = (IF "accepted" \in done[o] THEN "used" ELSE "reserved")

\* A card is used up only by a delivery the platform accepted.
UsedOnlyIfAccepted ==
    \A c \in Cards : cardState[c] = "used" => "accepted" \in done[cardOwner[c]]

\* Once recovery is over, an attempt recorded as unfinished is one that some
\* task is still executing; those a crash interrupted have become unknown.
NoOrphanAttempt ==
    \A o \in Orders : phase = "up" /\ "initial" \in open[o] =>
        \E t \in Tasks : HoldsGuard(t) /\ ord[t] = o

\* The code keeps the promise of at-most-once delivery: a step either leaves
\* every order's copies and verdict alone or is a step the promise allows, so
\* an unknown or accepted delivery is never sent, nor its verdict revised, by
\* handle, by a crash or by the recovery.
VerdictOf(c) == CASE c = "accepted" -> "delivered"
                  [] c = "unknown" -> "unsure"
                  [] OTHER -> "open"

Promise == INSTANCE DeliveryPromise WITH
    received <- copies, verdict <- [o \in Orders |-> VerdictOf(content[o])]

KeepsPromise == Promise!Spec

\* A guard that is taken is given back.
GuardComesBack == \A o \in Orders : guard[o] = "active" ~> guard[o] # "active"

\* Whatever needs a person ends up in the list of issues.
FailureSurfaces == \A o \in Orders : review[o] = "required" ~> issue[o]

\* One card is never sent to the buyers of two orders.
CardOneOrder ==
    \A o, p \in Orders : o # p /\ copies[o] > 0 /\ copies[p] > 0 =>
        snap[o] \cap snap[p] = {}

\* An order handed to a person (retries exhausted, refused for good) is not
\* dispatched again by the automatic path.
RequiredIsManual ==
    [][\A o \in Orders : content[o] = "not_sent" /\ review[o] = "required" =>
          content'[o] # "dispatching"]_vars

-----------------------------------------------------------------------------
(* The inductive invariant behind MutualExclusion, AtMostOneCopy,           *)
(* ContentIsTrue, RecordedBeforeSent and KeepsPromise: what a task may rely *)
(* on, of the order it works for, at each line of `dispatch`.               *)

\* A task that is not idle works for an order, and none works during recovery.
Located ==
    /\ \A t \in Tasks : pc[t] # "idle" => ord[t] \in Orders
    /\ phase = "boot" => \A t \in Tasks : pc[t] = "idle"

\* Between prepare_attempt and finish_attempt the attempt is on record.
AttemptIsOpen ==
    \A t \in Tasks :
        pc[t] \in {"mark", "barrier", "submit", "reached", "missed", "finish"}
        => "initial" \in open[ord[t]]

\* From set_full_state(Dispatching) until the result is stored the row says
\* 'dispatching', and the task knows whether the message is out.
StageIsTrue ==
    \A t \in Tasks :
        /\ pc[t] \in {"barrier", "submit", "reached", "missed", "finish", "state"}
           => content[ord[t]] = "dispatching"
        /\ pc[t] \in {"barrier", "submit", "missed"} => copies[ord[t]] = 0
        /\ pc[t] = "reached" => copies[ord[t]] = 1
        /\ pc[t] \in {"finish", "state"} =>
             /\ res[t] = "accepted" => copies[ord[t]] = 1
             /\ res[t] \notin {"accepted", "unknown"} => copies[ord[t]] = 0

\* Before 'dispatching' nothing is out.
NothingOutYet ==
    \A o \in Orders :
        content[o] \in {"absent", "pending_verification"} => copies[o] = 0

DispatchInv ==
    /\ Located /\ MutualExclusion /\ AttemptIsOpen /\ StageIsTrue
    /\ NothingOutYet /\ AtMostOneCopy /\ ContentIsTrue /\ RecordedBeforeSent

IInv == TypeOK /\ DispatchInv
=============================================================================

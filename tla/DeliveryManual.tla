--------------------------- MODULE DeliveryManual ---------------------------
(***************************************************************************)
(* What an administrator may do to an order while the automatic delivery   *)
(* runs: send the frozen content again, declare it received, or terminate  *)
(* the delivery (src/application/manual/actions.rs).  A manual trigger and *)
(* a takeover call `handle` and are tasks of Delivery.                     *)
(*                                                                         *)
(* Each operation reads the rows first and writes them later, in other     *)
(* closures, and its writes do not look at the version it read: the module *)
(* keeps the two apart.  The receipts of src/application/idempotency.rs    *)
(* are left out: they tell apart two requests with one key, here every     *)
(* request has its own.                                                    *)
(***************************************************************************)
EXTENDS Delivery

CONSTANTS
    Requests,   \* manual requests that may be in progress at once
    Operations  \* the operations an administrator uses

ASSUME OperationsAssumption ==
    Operations \subseteq {"resend", "mark_received", "terminate"}

VARIABLES
    rpc, rord,  \* where a request is, and the order it is about
    rres,       \* how the send of a resend ended
    resent      \* copies the buyer received through resends, up to two

requestVars == <<rpc, rord, rres, resent>>
taskVars == <<frame, pc, current, res>>
manualVars == <<vars, requestVars>>

RequestStates == {"idle", "guard", "prepare", "submit", "reached", "missed",
                  "finish", "state", "free", "received", "check", "terminate"}

ManualTypeOK ==
    /\ TypeOK
    /\ rpc \in [Requests -> RequestStates]
    /\ rord \in [Requests -> Orders \cup {NoOrder}]
    /\ rres \in [Requests -> {"none", "accepted", "not_sent", "unknown", "giveup"}]
    /\ resent \in [Orders -> 0..2]

-----------------------------------------------------------------------------
(* Helpers *)

Move(r, l) == rpc' = [rpc EXCEPT ![r] = l]

\* The request is answered.
Reply(r) ==
    /\ Move(r, "idle")
    /\ rord' = [rord EXCEPT ![r] = NoOrder]
    /\ rres' = [rres EXCEPT ![r] = "none"]

\* A request is begun on an order load_ctx finds: one whose delivery has a
\* snapshot and, for the operation, a content state that allows it.
Begin(r, o, op, states, l) ==
    /\ rpc[r] = "idle" /\ phase = "up"
    /\ op \in Operations
    /\ Bound(o) /\ content[o] \in states
    /\ Move(r, l)
    /\ rord' = [rord EXCEPT ![r] = o]
    /\ UNCHANGED <<vars, rres, resent>>

\* The row is written by a plain UPDATE: no transition table, no version.
Overwrite(o, c, v) ==
    /\ content' = [content EXCEPT ![o] = c]
    /\ review' = [review EXCEPT ![o] = v]
    /\ fresh' = Touched(o)

-----------------------------------------------------------------------------
(* resend *)

\* load_ctx, the switches of the account, the content state.
BeginResend(r, o) ==
    /\ enabled
    /\ Begin(r, o, "resend", AllowedStates("manual_resend"), "guard")

ResendGuard(r) ==
    /\ rpc[r] = "guard"
    /\ IF Takeable(rord[r])
       THEN /\ guard' = [guard EXCEPT ![rord[r]] = "active"]
            /\ Move(r, "prepare")
            /\ UNCHANGED <<rord, rres>>
       ELSE /\ Reply(r)
            /\ UNCHANGED guard
    /\ UNCHANGED <<rowVars, open, done, issue, cardVars, accountVars,
                   processVars, copies, taskVars, fresh, resent>>

\* prepare_attempt("manual_resend"), without a version.
\* (Mutant: the guard is thought to be enough.)
CanPrepareGuarded(o) == content[o] \in AllowedStates("manual_resend")
CanPrepareResend(o) ==
    /\ "manual_resend" \notin open[o]
    /\ content[o] \in AllowedStates("manual_resend")

ResendPrepare(r) ==
    LET o == rord[r]
    IN  /\ rpc[r] = "prepare"
        /\ IF CanPrepareResend(o)
           THEN /\ open' = [open EXCEPT ![o] = @ \cup {"manual_resend"}]
                /\ Move(r, "submit")
                /\ UNCHANGED rres
           ELSE /\ Move(r, "free")
                /\ rres' = [rres EXCEPT ![r] = "giveup"]
                /\ UNCHANGED open
        /\ UNCHANGED <<rowVars, done, guard, issue, cardVars, accountVars,
                       processVars, copies, taskVars, fresh, rord, resent>>

ResendSubmit(r, reaches) ==
    /\ rpc[r] = "submit"
    /\ IF reaches
       THEN /\ resent' = [resent EXCEPT ![rord[r]] = IF @ < 2 THEN @ + 1 ELSE @]
            /\ Move(r, "reached")
       ELSE /\ Move(r, "missed")
            /\ UNCHANGED resent
    /\ UNCHANGED <<vars, rord, rres>>

\* How the attempt is finished.  (Mutant: a timeout counts as not sent.)
ResendResultTimeout(a) == IF a = "accepted" THEN a ELSE "not_sent"
ResendResult(a) == IF a \in {"accepted", "unknown"} THEN a ELSE "not_sent"

\* send_manual answers; any error of the adapter, a lost connection too, is
\* returned as it is and leaves the attempt and the guard.
ResendAnswer(r, a) ==
    /\ rpc[r] \in {"reached", "missed"}
    /\ a \in Outcomes
    /\ Consistent(a, rpc[r] = "reached")
    /\ IF a = "error"
       THEN Reply(r)
       ELSE /\ Move(r, "finish")
            /\ rres' = [rres EXCEPT ![r] = ResendResult(a)]
            /\ UNCHANGED rord
    /\ UNCHANGED <<vars, resent>>

\* The attempt is finished; an unknown one takes the row and the issue along,
\* an accepted one writes the row next, any other leaves it.
ResendFinish(r) ==
    LET o == rord[r]
    IN  /\ rpc[r] = "finish"
        /\ open' = [open EXCEPT ![o] = @ \ {"manual_resend"}]
        /\ done' = [done EXCEPT ![o] = @ \cup {rres[r]}]
        /\ IF rres[r] = "unknown"
           THEN /\ Overwrite(o, "unknown", "required")
                /\ issue' = [issue EXCEPT ![o] = TRUE]
           ELSE UNCHANGED <<content, review, fresh, issue>>
        /\ Move(r, IF rres[r] = "accepted" THEN "state" ELSE "free")
        /\ UNCHANGED <<retries, snap, guard, cardVars, accountVars, processVars,
                       copies, taskVars, rord, rres, resent>>

ResendAccepted(r) ==
    /\ rpc[r] = "state"
    /\ Overwrite(rord[r], "accepted", "resolved")
    /\ Move(r, "free")
    /\ UNCHANGED <<retries, snap, open, done, guard, issue, cardVars,
                   accountVars, processVars, copies, taskVars, rord, rres, resent>>

ResendFree(r) ==
    /\ rpc[r] = "free"
    /\ guard' = [guard EXCEPT ![rord[r]] = GuardOf(rres[r])]
    /\ Reply(r)
    /\ UNCHANGED <<rowVars, open, done, issue, cardVars, accountVars,
                   processVars, copies, taskVars, fresh, resent>>

-----------------------------------------------------------------------------
(* mark_received, terminate *)

\* The guard becomes 'terminal' whoever holds it; an order may have none yet.
CloseGuard(o) ==
    guard' = [guard EXCEPT ![o] = IF @ = "none" THEN @ ELSE "terminal"]

BeginReceived(r, o) ==
    Begin(r, o, "mark_received", {"unknown", "not_sent"}, "received")

MarkReceived(r) ==
    /\ rpc[r] = "received"
    /\ Overwrite(rord[r], "accepted", "resolved")
    /\ CloseGuard(rord[r])
    /\ Reply(r)
    /\ UNCHANGED <<retries, snap, open, done, issue, cardVars, accountVars,
                   processVars, copies, taskVars, resent>>

BeginTerminate(r, o) == Begin(r, o, "terminate", ContentStates, "check")

\* An attempt that is unfinished, accepted or unknown forbids it.
CheckSubmitted(r) ==
    /\ rpc[r] = "check"
    /\ IF open[rord[r]] # {} \/ done[rord[r]] \cap {"accepted", "unknown"} # {}
       THEN Reply(r)
       ELSE Move(r, "terminate") /\ UNCHANGED <<rord, rres>>
    /\ UNCHANGED <<vars, resent>>

Terminate(r) ==
    /\ rpc[r] = "terminate"
    /\ Overwrite(rord[r], "terminated", "resolved")
    /\ ReleaseCards(rord[r])
    /\ CloseGuard(rord[r])
    /\ Reply(r)
    /\ UNCHANGED <<retries, snap, open, done, issue, accountVars, processVars,
                   copies, taskVars, resent>>

-----------------------------------------------------------------------------
(* Specification *)

ManualInit ==
    /\ Init
    /\ rpc = [r \in Requests |-> "idle"]
    /\ rord = [r \in Requests |-> NoOrder]
    /\ rres = [r \in Requests |-> "none"]
    /\ resent = [o \in Orders |-> 0]

Operate(r) ==
    \/ \E o \in Orders :
         BeginResend(r, o) \/ BeginReceived(r, o) \/ BeginTerminate(r, o)
    \/ ResendGuard(r) \/ ResendPrepare(r)
    \/ \E reaches \in BOOLEAN : ResendSubmit(r, reaches)
    \/ \E a \in Outcomes : ResendAnswer(r, a)
    \/ ResendFinish(r) \/ ResendAccepted(r) \/ ResendFree(r)
    \/ MarkReceived(r) \/ CheckSubmitted(r) \/ Terminate(r)

\* A crash ends the requests too.
ManualCrash ==
    /\ Crash
    /\ rpc' = [r \in Requests |-> "idle"]
    /\ rord' = [r \in Requests |-> NoOrder]
    /\ rres' = [r \in Requests |-> "none"]
    /\ UNCHANGED resent

Automatic ==
    \/ \E t \in Tasks, o \in Orders, ok \in BOOLEAN : Load(t, o, ok)
    \/ \E t \in Tasks : Step(t)
    \/ Control
    \/ \E o \in Orders, kind \in Kinds : BootRecover(o, kind)
    \/ BootDone

ManualNext ==
    \/ Automatic /\ UNCHANGED requestVars
    \/ ManualCrash
    \/ \E r \in Requests : Operate(r)

ManualSpec == ManualInit /\ [][ManualNext]_manualVars

-----------------------------------------------------------------------------
(* Properties *)

\* Whatever administrators do at the same time, the buyer has no message the
\* database does not know of.
ResentIsRecorded ==
    \A o \in Orders : copies[o] + resent[o] > 0 =>
        open[o] # {} \/ done[o] \cap {"accepted", "unknown"} # {}

\* Two resends of one order never have its content in their hands together,
\* even when a third request has freed the guard under the first.
OneResend ==
    \A r, q \in Requests :
        /\ {rpc[r], rpc[q]} \subseteq {"submit", "reached", "missed", "finish"}
        /\ rord[r] = rord[q]
        => r = q

\* Once any attempt for the order ended accepted or unknown, whoever made it,
\* only a person sends its content again.
DecidedStopsAutomatic ==
    [][\A o \in Orders : copies'[o] # copies[o] =>
          done[o] \cap {"accepted", "unknown"} = {}]_manualVars
=============================================================================

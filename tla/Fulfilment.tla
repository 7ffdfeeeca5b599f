----------------------------- MODULE Fulfilment -----------------------------
(***************************************************************************)
(* One delivery from its frozen content to the platform's "shipped": the   *)
(* messages of a template, sent one after the other with a proof of each   *)
(* (dispatch_messages), and then the confirmation of the shipment, by      *)
(* finish_accepted and by administrators (confirm_shipment in              *)
(* src/application/delivery/service.rs and manual/actions.rs).             *)
(*                                                                         *)
(* Delivery shows that the executions of one order exclude one another and *)
(* treats its content as one message; here the executions come one after   *)
(* the other, and the content has its parts.  Administrators run beside.   *)
(***************************************************************************)
EXTENDS DeliveryStates, Naturals, Sequences

CONSTANTS
    Template,       \* the frozen messages, by their digests
    Requests,       \* requests of administrators to confirm the shipment
    Replies,        \* the results of send_text that may occur
    Confirmations,  \* the results of the platform's confirm_shipment
    MaxCrashes      \* bound on the crashes of a behaviour

Digests == {Template[i] : i \in DOMAIN Template}

ASSUME TemplateAssumption == Template \in Seq(Digests) /\ Template # <<>>
ASSUME CrashesAssumption == MaxCrashes \in Nat
ASSUME RepliesAssumption ==
    Replies \subseteq {"accepted", "not_submitted", "rejected", "unknown", "error"}
ASSUME ConfirmationsAssumption ==
    Confirmations \subseteq {"accepted", "not_submitted", "rejected", "unknown", "error"}

VARIABLES
    \* durable
    content, conf,       \* content_state and confirmation_state
    open,                \* the kinds of which an attempt is unfinished
    done,                \* how those for the confirmation ended
    proofs,              \* the digests in delivery_proofs
    phase, crashes,
    \* outside the process
    got,                 \* the messages the buyer received, in order
    shipped,             \* confirmations the platform took, up to two
    \* the execution of handle
    pc, next,            \* where it is; the message it is at
    known,               \* confirmed_digests, read when it began
    sent,                \* whether it has a proof of its own (last_proof)
    res,
    \* the requests
    rpc, rres,
    same                 \* requests whose deliveries.version read still holds

rows == <<content, conf, open, done, proofs>>
execution == <<next, known, sent, res>>
requestVars == <<rpc, rres>>
world == <<phase, crashes, got, shipped>>
vars == <<rows, world, pc, execution, requestVars, same>>

ConfirmKinds == {"confirmation", "manual_confirm"}
Kinds == {"initial"} \cup ConfirmKinds
ConfirmationStates ==
    {"disabled", "pending", "dispatching", "accepted", "rejected", "unknown"}

FulfilmentTypeOK ==
    /\ content \in {"queued", "dispatching", "not_sent", "accepted", "unknown"}
    /\ conf \in ConfirmationStates
    /\ open \in SUBSET Kinds
    /\ done \in [ConfirmKinds -> SUBSET FinishedStates]
    /\ proofs \in SUBSET Digests
    /\ phase \in {"boot", "up"} /\ crashes \in 0..MaxCrashes
    /\ got \in Seq(Digests) /\ shipped \in 0..2
    /\ pc \in {"idle", "mark", "read", "loop", "reached", "missed", "proof",
               "finish", "state", "confirm", "pending", "dispatching", "call",
               "shipped", "unshipped", "settle", "record"}
    /\ next \in 1..(Len(Template) + 1)
    /\ known \in SUBSET Digests /\ sent \in BOOLEAN
    /\ rpc \in [Requests -> {"idle", "prepare", "call", "shipped", "unshipped",
                             "settle", "record"}]
    /\ same \in SUBSET Requests

\* confirmation_transition, in so far as a caller here asks for it.
ConfirmationTransition ==
    {<<"disabled", "pending">>, <<"pending", "dispatching">>,
     <<"rejected", "dispatching">>, <<"unknown", "dispatching">>,
     <<"unknown", "accepted">>}
    \cup ({"dispatching"} \X {"accepted", "rejected", "unknown"})

-----------------------------------------------------------------------------
(* One execution of dispatch: attempt, row, the messages in turn *)

Goto(l) == pc' = l

\* The function returns, with or without an error.
Return ==
    /\ Goto("idle")
    /\ next' = 1 /\ known' = {} /\ sent' = FALSE /\ res' = "none"

Prepare ==
    /\ pc = "idle" /\ phase = "up"
    /\ content \in AllowedStates("initial") /\ "initial" \notin open
    /\ open' = open \cup {"initial"}
    /\ Goto("mark")
    /\ UNCHANGED <<content, conf, done, proofs, world, execution, requestVars, same>>

Mark ==
    /\ pc = "mark"
    /\ content' = "dispatching"
    /\ same' = {}
    /\ Goto("read")
    /\ UNCHANGED <<conf, open, done, proofs, world, execution, requestVars>>

\* (Mutant: every execution sends the template from its start.)
NothingKnown == {}
Known == proofs

\* The barrier may cancel; else the digests that have a proof are read.
ReadProofs(cancelled) ==
    /\ pc = "read"
    /\ IF cancelled
       THEN /\ Goto("finish") /\ res' = "cancelled"
            /\ UNCHANGED known
       ELSE /\ Goto("loop") /\ known' = Known
            /\ UNCHANGED res
    /\ UNCHANGED <<rows, world, next, sent, requestVars, same>>

\* (Mutant: the loop ends one message early.)
AtLast == next >= Len(Template)
AtEnd == next > Len(Template)

Skip ==
    /\ pc = "loop" /\ ~AtEnd /\ Template[next] \in known
    /\ next' = next + 1
    /\ UNCHANGED <<rows, world, pc, known, sent, res, requestVars, same>>

Send(reaches) ==
    /\ pc = "loop" /\ ~AtEnd /\ Template[next] \notin known
    /\ got' = IF reaches THEN Append(got, Template[next]) ELSE got
    /\ Goto(IF reaches THEN "reached" ELSE "missed")
    /\ UNCHANGED <<rows, phase, crashes, shipped, execution, requestVars, same>>

Answer(r) ==
    /\ pc \in {"reached", "missed"}
    /\ r \in Replies /\ Consistent(r, pc = "reached")
    /\ CASE r = "accepted" -> Goto("proof") /\ UNCHANGED execution
         [] r = "error" -> Return
         [] OTHER -> /\ Goto("finish") /\ res' = r
                     /\ UNCHANGED <<next, known, sent>>
    /\ UNCHANGED <<rows, world, requestVars, same>>

\* (Mutant: the proof is to be stored with the end of the attempt.)
ProvenLater(d) == proofs
Proven(d) == proofs \cup {d}

InsertProof ==
    /\ pc = "proof"
    /\ proofs' = Proven(Template[next])
    /\ sent' = TRUE
    /\ next' = next + 1
    /\ Goto("loop")
    /\ UNCHANGED <<content, conf, open, done, world, known, res, requestVars, same>>

\* Every message is out: with an earlier proof if this execution sent none.
AllSent ==
    /\ pc = "loop" /\ AtEnd
    /\ res' = IF sent \/ proofs # {} THEN "accepted" ELSE "refused"
    /\ Goto("finish")
    /\ UNCHANGED <<rows, world, next, known, sent, requestVars, same>>

FinishAttempt ==
    /\ pc = "finish"
    /\ open' = open \ {"initial"}
    /\ Goto("state")
    /\ UNCHANGED <<content, conf, done, proofs, world, execution, requestVars, same>>

\* The row; then, with the account's auto_confirm_enabled, the confirmation.
RecordContent(autoConfirm) ==
    /\ pc = "state"
    /\ <<content, ContentOf(res)>> \in ContentTransition
    /\ content' = ContentOf(res)
    /\ same' = {}
    /\ IF res = "accepted" /\ autoConfirm
       THEN Goto("confirm") /\ UNCHANGED execution
       ELSE Return
    /\ UNCHANGED <<conf, open, done, proofs, world, requestVars>>

-----------------------------------------------------------------------------
(* confirm_shipment of the service *)

ConfirmPrepare ==
    /\ pc = "confirm"
    /\ IF "confirmation" \notin open /\ content \in AllowedStates("confirmation")
       THEN /\ open' = open \cup {"confirmation"}
            /\ Goto("pending")
            /\ UNCHANGED execution
       ELSE Return /\ UNCHANGED open
    /\ UNCHANGED <<content, conf, done, proofs, world, requestVars, same>>

\* set_confirmation_state; an illegal move is an error that ends the function
\* and leaves the attempt.
SetConfirmation(from, to, l) ==
    /\ pc = from
    /\ IF <<conf, to>> \in ConfirmationTransition
       THEN /\ conf' = to
            /\ same' = {}
            /\ IF l = "idle" THEN Return ELSE Goto(l) /\ UNCHANGED execution
       ELSE Return /\ UNCHANGED <<conf, same>>
    /\ UNCHANGED <<content, open, done, proofs, world, requestVars>>

ConfirmPending == SetConfirmation("pending", "pending", "dispatching")
ConfirmDispatching == SetConfirmation("dispatching", "dispatching", "call")

Take == shipped' = IF shipped < 2 THEN shipped + 1 ELSE shipped

ConfirmCall(taken) ==
    /\ pc = "call"
    /\ IF taken THEN Take /\ Goto("shipped") ELSE Goto("unshipped") /\ UNCHANGED shipped
    /\ UNCHANGED <<rows, phase, crashes, got, execution, requestVars, same>>

ConfirmAnswer(r) ==
    /\ pc \in {"shipped", "unshipped"}
    /\ r \in Confirmations /\ Consistent(r, pc = "shipped")
    /\ IF r = "error" THEN Return
       ELSE Goto("settle") /\ res' = r /\ UNCHANGED <<next, known, sent>>
    /\ UNCHANGED <<rows, world, requestVars, same>>

\* How a result ends the attempt, and the state it sets.
\* (Mutants: a timeout of the platform is not sent; it is as good as a yes.)
ConfirmAttemptSure(r) == CASE r = "accepted" -> r
                           [] r = "not_submitted" -> "cancelled"
                           [] OTHER -> "not_sent"
ConfirmAttemptOf(r) == CASE r \in {"accepted", "unknown"} -> r
                         [] r = "not_submitted" -> "cancelled"
                         [] OTHER -> "not_sent"
ConfirmationOptimistic(r) ==
    CASE r = "unknown" -> "accepted" [] r = "not_submitted" -> "pending" [] OTHER -> r
ConfirmationOf(r) == IF r = "not_submitted" THEN "pending" ELSE r

ConfirmFinish ==
    /\ pc = "settle"
    /\ open' = open \ {"confirmation"}
    /\ done' = [done EXCEPT !["confirmation"] = @ \cup {ConfirmAttemptOf(res)}]
    /\ Goto("record")
    /\ UNCHANGED <<content, conf, proofs, world, execution, requestVars, same>>

ConfirmRecord == SetConfirmation("record", ConfirmationOf(res), "idle")

-----------------------------------------------------------------------------
(* confirm_shipment of an administrator: no transition table, but a version *)

Move(r, l) == rpc' = [rpc EXCEPT ![r] = l]

Reply(r) ==
    /\ Move(r, "idle")
    /\ rres' = [rres EXCEPT ![r] = "none"]
    /\ same' = same \ {r}

BeginConfirm(r) ==
    /\ rpc[r] = "idle" /\ phase = "up"
    /\ content = "accepted"
    /\ Move(r, "prepare")
    /\ same' = same \cup {r}
    /\ UNCHANGED <<rows, world, pc, execution, rres>>

ManualPrepare(r) ==
    /\ rpc[r] = "prepare"
    /\ IF "manual_confirm" \notin open /\ content \in AllowedStates("manual_confirm")
       THEN /\ open' = open \cup {"manual_confirm"}
            /\ Move(r, "call")
            /\ UNCHANGED <<rres, same>>
       ELSE Reply(r) /\ UNCHANGED open
    /\ UNCHANGED <<content, conf, done, proofs, world, pc, execution>>

ManualCall(r, taken) ==
    /\ rpc[r] = "call"
    /\ IF taken THEN Take /\ Move(r, "shipped") ELSE Move(r, "unshipped") /\ UNCHANGED shipped
    /\ UNCHANGED <<rows, phase, crashes, got, pc, execution, rres, same>>

\* Any error of the adapter leaves the request, and the attempt behind.
ManualAnswer(r, a) ==
    /\ rpc[r] \in {"shipped", "unshipped"}
    /\ a \in Confirmations /\ Consistent(a, rpc[r] = "shipped")
    /\ IF a = "error" THEN Reply(r)
       ELSE /\ Move(r, "settle")
            /\ rres' = [rres EXCEPT ![r] = a]
            /\ UNCHANGED same
    /\ UNCHANGED <<rows, world, pc, execution>>

ManualFinish(r) ==
    /\ rpc[r] = "settle"
    /\ open' = open \ {"manual_confirm"}
    /\ done' = [done EXCEPT !["manual_confirm"] = @ \cup {AttemptOf(rres[r])}]
    /\ Move(r, "record")
    /\ UNCHANGED <<content, conf, proofs, world, pc, execution, rres, same>>

\* set_state with the version read at the start: if the row has changed since,
\* the request is answered "in flight" and the result is lost.
ManualRecord(r) ==
    /\ rpc[r] = "record"
    /\ IF r \in same
       THEN conf' = ConfirmationOf(rres[r]) /\ same' = {}
       ELSE UNCHANGED conf /\ same' = same \ {r}
    /\ Move(r, "idle")
    /\ rres' = [rres EXCEPT ![r] = "none"]
    /\ UNCHANGED <<content, open, done, proofs, world, pc, execution>>

-----------------------------------------------------------------------------
(* Crash and recovery *)

Crash ==
    /\ crashes < MaxCrashes
    /\ crashes' = crashes + 1
    /\ phase' = "boot"
    /\ Return
    /\ rpc' = [r \in Requests |-> "idle"]
    /\ rres' = [r \in Requests |-> "none"]
    /\ same' = {}
    /\ UNCHANGED <<rows, got, shipped>>

\* BootRecovery: an unfinished manual_confirm is taken for a message, and
\* leaves the confirmation alone.
BootRecover(kind) ==
    /\ phase = "boot" /\ kind \in open
    /\ open' = open \ {kind}
    /\ done' = [k \in ConfirmKinds |->
                   IF k = kind THEN done[k] \cup {"unknown"} ELSE done[k]]
    /\ conf' = IF kind = "confirmation" THEN "unknown" ELSE conf
    /\ content' = IF kind # "confirmation" /\ content = "dispatching"
                  THEN "unknown" ELSE content
    /\ UNCHANGED <<proofs, world, pc, execution, requestVars, same>>

BootDone ==
    /\ phase = "boot" /\ open = {}
    /\ phase' = "up"
    /\ UNCHANGED <<rows, crashes, got, shipped, pc, execution, requestVars, same>>

-----------------------------------------------------------------------------
(* Specification *)

Init ==
    /\ content = "queued" /\ conf = "disabled"
    /\ open = {} /\ done = [k \in ConfirmKinds |-> {}]
    /\ proofs = {}
    /\ phase = "up" /\ crashes = 0
    /\ got = <<>> /\ shipped = 0
    /\ pc = "idle" /\ next = 1 /\ known = {} /\ sent = FALSE /\ res = "none"
    /\ rpc = [r \in Requests |-> "idle"] /\ rres = [r \in Requests |-> "none"]
    /\ same = {}

Execute ==
    \/ Prepare \/ Mark \/ Skip \/ InsertProof \/ AllSent \/ FinishAttempt
    \/ \E b \in BOOLEAN : ReadProofs(b) \/ Send(b) \/ RecordContent(b) \/ ConfirmCall(b)
    \/ \E r \in Replies : Answer(r)
    \/ ConfirmPrepare \/ ConfirmPending \/ ConfirmDispatching
    \/ \E r \in Confirmations : ConfirmAnswer(r)
    \/ ConfirmFinish \/ ConfirmRecord

Confirm(r) ==
    \/ BeginConfirm(r) \/ ManualPrepare(r)
    \/ \E taken \in BOOLEAN : ManualCall(r, taken)
    \/ \E a \in Confirmations : ManualAnswer(r, a)
    \/ ManualFinish(r) \/ ManualRecord(r)

Next ==
    \/ Execute
    \/ \E r \in Requests : Confirm(r)
    \/ Crash
    \/ \E kind \in Kinds : BootRecover(kind)
    \/ BootDone

Spec == Init /\ [][Next]_vars

-----------------------------------------------------------------------------
(* Properties *)

\* What the buyer got is the template with messages left out: none twice, none
\* before an earlier one, across retries, cancellations, crashes and restarts.
SentInOrder ==
    \E f \in [DOMAIN got -> DOMAIN Template] :
        /\ \A i, j \in DOMAIN got : i < j => f[i] < f[j]
        /\ \A i \in DOMAIN got : got[i] = Template[f[i]]

Received == {got[i] : i \in DOMAIN got}

\* Unless an execution is under way or its result is not known, the proofs are
\* exactly the messages the buyer has: a retry neither repeats nor loses one.
ProofsAreComplete == content \notin {"dispatching", "unknown"} => Received = proofs

\* An accepted delivery is whole.
AcceptedIsComplete == content = "accepted" => Received = Digests

\* The row says the shipment is confirmed only if the platform took one.
ConfirmedIsTrue == conf = "accepted" => shipped > 0

\* The platform never has a confirmation the attempts do not know of.
ShippedIsRecorded ==
    shipped > 0 => \E k \in ConfirmKinds :
        k \in open \/ done[k] \cap {"accepted", "unknown"} # {}
=============================================================================

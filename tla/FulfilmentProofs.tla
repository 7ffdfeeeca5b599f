------------------------- MODULE FulfilmentProofs --------------------------
(***************************************************************************)
(* Theorems about Fulfilment, for any template, any number of requests to  *)
(* confirm, all results of the platform and any number of crashes.         *)
(***************************************************************************)
EXTENDS Fulfilment, SequenceTheorems, TLAPS

Stations == {"idle", "mark", "read", "loop", "reached", "missed", "proof",
             "finish", "state", "confirm", "pending", "dispatching", "call",
             "shipped", "unshipped", "settle", "record"}
Results == {"none", "accepted", "not_submitted", "rejected", "unknown",
            "refused", "cancelled"}

\* What a request may be told of its call.
Told == {"accepted", "not_submitted", "rejected", "unknown"}

\* The results have types too; only an execution with work left has a place,
\* and while the process starts there is none.
PlaceInv ==
    /\ FulfilmentTypeOK
    /\ res \in Results /\ rres \in [Requests -> Results]
    /\ pc \in {"reached", "missed", "proof"} => next <= Len(Template)
    /\ pc \in {"idle", "mark", "read"} => next = 1
    /\ phase = "boot" => pc = "idle" /\ \A r \in Requests : rpc[r] = "idle"
    /\ \A r \in Requests : rpc[r] \in {"settle", "record"} => rres[r] \in Told

-----------------------------------------------------------------------------
(* The messages *)

Sending == {"read", "loop", "reached", "missed", "proof", "finish", "state"}

\* What an execution may rely on at each point of dispatch_messages.
MessagesInv ==
    /\ pc = "mark" => content \in AllowedStates("initial")
    /\ pc \in Sending => content = "dispatching"
    /\ pc \notin Sending /\ content \notin {"dispatching", "unknown"} => Received = proofs
    /\ pc \in {"read", "loop", "missed"} => Received = proofs
    /\ pc \in {"reached", "proof"} => Received = proofs \cup {Template[next]}
    /\ pc \in {"finish", "state"} => (res # "unknown" => Received = proofs)
    /\ pc \in {"loop", "reached", "missed", "proof"} =>
           /\ known \subseteq proofs
           /\ \A i \in 1..Len(Template) : i < next => Template[i] \in proofs
    /\ pc \in {"finish", "state"} /\ res = "accepted" => Received = Digests
    /\ content = "accepted" => Received = Digests

-----------------------------------------------------------------------------
(* The confirmation *)

\* The attempt of the kind is open, and by one who has it from the platform or
\* may have it: not by one who has not asked yet or knows it was not taken.
Doubtful == {"accepted", "unknown"}
PledgedByService ==
    /\ "confirmation" \in open
    /\ pc \notin {"pending", "dispatching", "call", "unshipped"}
    /\ pc = "settle" => res \in Doubtful
PledgedByRequest ==
    /\ "manual_confirm" \in open
    /\ \A r \in Requests : /\ rpc[r] \notin {"call", "unshipped"}
                           /\ rpc[r] = "settle" => rres[r] \in Doubtful
InFlight(r) == rpc[r] \in {"call", "shipped", "unshipped", "settle"}

ConfirmationInv ==
    /\ pc \in {"pending", "dispatching", "call", "shipped", "unshipped", "settle"} =>
           "confirmation" \in open
    /\ \A r \in Requests : InFlight(r) => "manual_confirm" \in open
    /\ \A r, q \in Requests : InFlight(r) /\ InFlight(q) => r = q
    /\ pc = "shipped" => shipped > 0
    /\ pc \in {"settle", "record"} /\ res = "accepted" => shipped > 0
    /\ \A r \in Requests :
           /\ rpc[r] = "shipped" => shipped > 0
           /\ rpc[r] \in {"settle", "record"} /\ rres[r] = "accepted" => shipped > 0
    /\ conf = "accepted" => shipped > 0
    /\ shipped > 0 => \/ \E k \in ConfirmKinds : done[k] \cap Doubtful # {}
                      \/ PledgedByService \/ PledgedByRequest

FInv == PlaceInv /\ MessagesInv /\ ConfirmationInv

-----------------------------------------------------------------------------
(* What the steps have in common *)

\* A step of the messages leaves the confirmation as it is.
LEMMA ConfirmationStays ==
    ASSUME ConfirmationInv, UNCHANGED <<conf, done, shipped, requestVars>>,
           open' \cap ConfirmKinds = open \cap ConfirmKinds,
           \A l \in {pc, pc'} : l \notin {"pending", "dispatching", "call", "shipped",
                                          "unshipped", "settle", "record"}
    PROVE  ConfirmationInv'
  <1>1. ("confirmation" \in open' <=> "confirmation" \in open)
        /\ ("manual_confirm" \in open' <=> "manual_confirm" \in open)
    BY DEF ConfirmKinds
  <1>2. /\ UNCHANGED <<conf, done, shipped, rpc, rres>>
        /\ \A r \in Requests : InFlight(r)' <=> InFlight(r)
    BY DEF requestVars, InFlight
  <1>3. PledgedByService => PledgedByService'
    BY <1>1 DEF PledgedByService
  <1>4. PledgedByRequest => PledgedByRequest'
    BY <1>1, <1>2 DEF PledgedByRequest
  <1> QED BY <1>1, <1>2, <1>3, <1>4 DEF ConfirmationInv

\* A step of the confirmation leaves the messages as they are.
LEMMA MessagesStay ==
    ASSUME MessagesInv, UNCHANGED <<content, proofs, got>>,
           \/ UNCHANGED <<pc, execution>>
           \/ \A l \in {pc, pc'} : l \notin Sending \cup {"mark"}
    PROVE  MessagesInv'
  <1>1. Received' = Received
    BY DEF Received
  <1>2. CASE UNCHANGED <<pc, execution>>
    BY <1>1, <1>2 DEF MessagesInv, execution
  <1>3. CASE \A l \in {pc, pc'} : l \notin Sending \cup {"mark"}
    BY <1>1, <1>3 DEF MessagesInv, Sending
  <1> QED BY <1>2, <1>3

\* A message more.
LEMMA OneMore ==
    ASSUME got \in Seq(Digests), NEW m \in Digests, got' = Append(got, m)
    PROVE  got' \in Seq(Digests) /\ Received' = Received \cup {m}
  <1>1. Len(got) \in Nat /\ DOMAIN got = 1..Len(got)
    BY LenProperties
  <1>2. /\ got' \in Seq(Digests) /\ DOMAIN got' = 1..(Len(got) + 1)
        /\ \A i \in 1..Len(got) : got'[i] = got[i]
        /\ got'[Len(got) + 1] = m
    BY <1>1, AppendProperties, LenProperties
  <1>3. DOMAIN got' = DOMAIN got \cup {Len(got) + 1}
    BY <1>1, <1>2
  <1> QED BY <1>1, <1>2, <1>3 DEF Received

\* The digests are those of the places.
LEMMA Places ==
    /\ Len(Template) \in Nat \ {0} /\ DOMAIN Template = 1..Len(Template)
    /\ \A i \in 1..Len(Template) : Template[i] \in Digests
  <1>1. Len(Template) \in Nat /\ DOMAIN Template = 1..Len(Template)
    BY TemplateAssumption, LenProperties
  <1>2. Len(Template) # 0
    BY TemplateAssumption, EmptySeq
  <1> QED BY <1>1, <1>2 DEF Digests

-----------------------------------------------------------------------------
(* Types and places *)

LEMMA PlaceInitially == Init => PlaceInv
  <1>1. <<>> \in Seq(Digests)
    BY EmptySeq
  <1>2. 1 \in 1..(Len(Template) + 1) /\ 0 \in 0..MaxCrashes /\ 0 \in 0..2
    BY Places, CrashesAssumption
  <1>3. Init => FulfilmentTypeOK
    BY <1>1, <1>2 DEF Init, FulfilmentTypeOK, ConfirmationStates
  <1>4. Init => /\ res \in Results /\ rres \in [Requests -> Results] /\ next = 1
                /\ pc = "idle" /\ \A r \in Requests : rpc[r] = "idle"
    BY DEF Init, Results
  <1> QED BY <1>3, <1>4 DEF PlaceInv

\* An execution that returns.
LEMMA Returned ==
    ASSUME PlaceInv, Return, UNCHANGED <<world, requestVars>>, same' \subseteq same,
           content' \in {"queued", "dispatching", "not_sent", "accepted", "unknown"},
           conf' \in ConfirmationStates, open' \in SUBSET Kinds, UNCHANGED <<done, proofs>>
    PROVE  PlaceInv'
  <1>1. /\ pc' = "idle" /\ next' = 1 /\ known' = {} /\ sent' = FALSE /\ res' = "none"
        /\ UNCHANGED <<phase, crashes, got, shipped, rpc, rres>>
    BY DEF Return, Goto, world, requestVars
  <1>2. 1 \in 1..(Len(Template) + 1) /\ "none" \in Results
    BY Places DEF Results
  <1> QED BY <1>1, <1>2 DEF PlaceInv, FulfilmentTypeOK

\* The steps of dispatch.
LEMMA PlaceInMessages ==
    ASSUME PlaceInv,
           \/ Prepare \/ Mark \/ Skip \/ InsertProof \/ AllSent \/ FinishAttempt
           \/ \E b \in BOOLEAN : ReadProofs(b) \/ Send(b) \/ RecordContent(b)
           \/ \E r \in Replies : Answer(r)
    PROVE  PlaceInv'
  <1>1. FulfilmentTypeOK
    BY DEF PlaceInv
  <1>2. CASE Prepare
    BY <1>2 DEF PlaceInv, FulfilmentTypeOK, Prepare, Goto, Kinds, world, execution, requestVars
  <1>3. CASE Mark
    BY <1>3 DEF PlaceInv, FulfilmentTypeOK, Mark, Goto, world, execution, requestVars
  <1>4. CASE Skip
    BY <1>4, Places DEF PlaceInv, FulfilmentTypeOK, Skip, AtEnd, rows, world, requestVars
  <1>5. CASE InsertProof
    BY <1>5, Places DEF PlaceInv, FulfilmentTypeOK, InsertProof, Proven, Goto, world, requestVars
  <1>6. CASE AllSent
    BY <1>6 DEF PlaceInv, FulfilmentTypeOK, AllSent, Goto, Results, rows, world, requestVars
  <1>7. CASE FinishAttempt
    BY <1>7 DEF PlaceInv, FulfilmentTypeOK, FinishAttempt, Goto, Kinds, world, execution, requestVars
  <1>8. ASSUME NEW b \in BOOLEAN, ReadProofs(b) PROVE PlaceInv'
    BY <1>8 DEF PlaceInv, FulfilmentTypeOK, ReadProofs, Known, Goto, Results, rows, world, requestVars
  <1>9. ASSUME NEW b \in BOOLEAN, Send(b) PROVE PlaceInv'
    <2>1. next <= Len(Template) /\ Template[next] \in Digests
      BY <1>1, <1>9, Places DEF Send, AtEnd, FulfilmentTypeOK
    <2>2. got' \in Seq(Digests)
      BY <1>1, <1>9, <2>1, OneMore DEF Send, FulfilmentTypeOK
    <2> QED BY <1>9, <2>1, <2>2 DEF PlaceInv, FulfilmentTypeOK, Send, Goto, rows, execution, requestVars
  <1>10. ASSUME NEW b \in BOOLEAN, RecordContent(b) PROVE PlaceInv'
    <2>1. content' \in {"queued", "dispatching", "not_sent", "accepted", "unknown"}
      BY <1>10 DEF RecordContent, ContentOf
    <2>2. UNCHANGED <<conf, open, done, proofs, world, requestVars>> /\ same' = {} /\ phase # "boot"
      BY <1>10 DEF RecordContent, PlaceInv
    <2>3. CASE Goto("confirm") /\ UNCHANGED execution
      BY <2>1, <2>2, <2>3 DEF PlaceInv, FulfilmentTypeOK, Goto, world, execution, requestVars
    <2>4. CASE Return
      BY <2>1, <2>2, <2>4, Returned DEF PlaceInv, FulfilmentTypeOK
    <2> QED BY <1>10, <2>3, <2>4 DEF RecordContent
  <1>11. ASSUME NEW r \in Replies, Answer(r) PROVE PlaceInv'
    <2>1. r \in {"accepted", "not_submitted", "rejected", "unknown", "error"}
      BY RepliesAssumption
    <2>2. UNCHANGED <<rows, world, requestVars, same>> /\ phase # "boot"
          /\ (pc \in {"reached", "missed"} /\ next <= Len(Template))
      BY <1>11 DEF Answer, PlaceInv
    <2>3. CASE Goto("proof") /\ UNCHANGED execution
      BY <2>2, <2>3 DEF PlaceInv, FulfilmentTypeOK, Goto, rows, world, execution, requestVars
    <2>4. CASE Return
      BY <2>2, <2>4, Returned DEF rows, PlaceInv, FulfilmentTypeOK
    <2>5. CASE Goto("finish") /\ res' = r /\ UNCHANGED <<next, known, sent>> /\ r # "error"
      BY <2>1, <2>2, <2>5 DEF PlaceInv, FulfilmentTypeOK, Goto, Results, rows, world, requestVars
    <2> QED BY <1>11, <2>3, <2>4, <2>5 DEF Answer
  <1> QED BY <1>2, <1>3, <1>4, <1>5, <1>6, <1>7, <1>8, <1>9, <1>10, <1>11

\* The steps of confirm_shipment of the service.
LEMMA PlaceInConfirmation ==
    ASSUME PlaceInv,
           \/ ConfirmPrepare \/ ConfirmPending \/ ConfirmDispatching
           \/ \E b \in BOOLEAN : ConfirmCall(b)
           \/ \E r \in Confirmations : ConfirmAnswer(r)
           \/ ConfirmFinish \/ ConfirmRecord
    PROVE  PlaceInv'
  <1>1. FulfilmentTypeOK /\ res \in Results
    BY DEF PlaceInv
  <1>2. CASE ConfirmPrepare
    <2>1. UNCHANGED <<content, conf, done, proofs, world, requestVars, same>> /\ phase # "boot"
      BY <1>2 DEF ConfirmPrepare, PlaceInv
    <2>2. CASE Return /\ UNCHANGED open
      BY <1>1, <2>1, <2>2, Returned DEF FulfilmentTypeOK
    <2>3. CASE /\ open' = open \cup {"confirmation"}
               /\ Goto("pending") /\ UNCHANGED execution
      BY <2>1, <2>3 DEF PlaceInv, FulfilmentTypeOK, Goto, Kinds, ConfirmKinds, world,
                        execution, requestVars
    <2> QED BY <1>2, <2>2, <2>3 DEF ConfirmPrepare
  <1>3. ASSUME NEW from, NEW to \in ConfirmationStates, NEW l \in {"idle", "dispatching", "call"},
               SetConfirmation(from, to, l), from # "idle"
        PROVE  PlaceInv'
    <2>1. /\ UNCHANGED <<content, open, done, proofs, world, requestVars>> /\ phase # "boot"
          /\ conf' \in ConfirmationStates /\ same' \subseteq same
      BY <1>1, <1>3 DEF SetConfirmation, PlaceInv, FulfilmentTypeOK
    <2>2. CASE Return
      BY <1>1, <2>1, <2>2, Returned DEF FulfilmentTypeOK
    <2>3. CASE l # "idle" /\ Goto(l) /\ UNCHANGED execution
      BY <2>1, <2>3 DEF PlaceInv, FulfilmentTypeOK, Goto, world, execution, requestVars
    <2> QED BY <1>3, <2>2, <2>3 DEF SetConfirmation
  <1>4. CASE ConfirmPending \/ ConfirmDispatching
    BY <1>3, <1>4 DEF ConfirmPending, ConfirmDispatching, ConfirmationStates
  <1>5. ASSUME NEW b \in BOOLEAN, ConfirmCall(b) PROVE PlaceInv'
    <2>1. shipped' \in 0..2
      BY <1>1, <1>5 DEF ConfirmCall, Take, FulfilmentTypeOK
    <2> QED BY <1>5, <2>1 DEF PlaceInv, FulfilmentTypeOK, ConfirmCall, Goto, rows, execution, requestVars
  <1>6. ASSUME NEW r \in Confirmations, ConfirmAnswer(r) PROVE PlaceInv'
    <2>1. r \in {"accepted", "not_submitted", "rejected", "unknown", "error"}
      BY ConfirmationsAssumption
    <2>2. UNCHANGED <<rows, world, requestVars, same>> /\ phase # "boot"
      BY <1>6 DEF ConfirmAnswer, PlaceInv
    <2>3. CASE Return
      BY <1>1, <2>2, <2>3, Returned DEF rows, FulfilmentTypeOK
    <2>4. CASE Goto("settle") /\ res' = r /\ UNCHANGED <<next, known, sent>> /\ r # "error"
      BY <2>1, <2>2, <2>4 DEF PlaceInv, FulfilmentTypeOK, Goto, Results, rows, world, requestVars
    <2> QED BY <1>6, <2>3, <2>4 DEF ConfirmAnswer
  <1>7. CASE ConfirmFinish
    <2>1. ConfirmAttemptOf(res) \in FinishedStates
      BY DEF ConfirmAttemptOf, FinishedStates
    <2>2. done' \in [ConfirmKinds -> SUBSET FinishedStates]
      BY <1>1, <1>7, <2>1 DEF ConfirmFinish, FulfilmentTypeOK, ConfirmKinds
    <2> QED BY <1>7, <2>2 DEF PlaceInv, FulfilmentTypeOK, ConfirmFinish, Goto, world, execution, requestVars
  <1>8. CASE ConfirmRecord
    <2>1. \/ ConfirmationOf(res) \in ConfirmationStates
          \/ <<conf, ConfirmationOf(res)>> \notin ConfirmationTransition
      BY DEF ConfirmationTransition, ConfirmationStates
    <2>2. CASE ConfirmationOf(res) \in ConfirmationStates
      BY <1>3, <1>8, <2>2 DEF ConfirmRecord
    <2>3. CASE <<conf, ConfirmationOf(res)>> \notin ConfirmationTransition
      <3>1. /\ Return /\ UNCHANGED <<content, open, done, proofs, world, requestVars, conf, same>>
        BY <1>8, <2>3 DEF ConfirmRecord, SetConfirmation
      <3> QED BY <1>1, <3>1, Returned DEF FulfilmentTypeOK
    <2> QED BY <2>1, <2>2, <2>3
  <1> QED BY <1>2, <1>4, <1>5, <1>6, <1>7, <1>8

\* The steps of a request.
LEMMA PlaceInRequest ==
    ASSUME PlaceInv, NEW r \in Requests, Confirm(r)
    PROVE  PlaceInv'
  <1>1. FulfilmentTypeOK /\ rres \in [Requests -> Results]
    BY DEF PlaceInv
  <1>2. /\ UNCHANGED <<content, proofs, phase, crashes, got, pc, next, known, sent, res>>
        /\ phase # "boot"
    BY DEF PlaceInv, Confirm, BeginConfirm, ManualPrepare, ManualCall, ManualAnswer, ManualFinish,
           ManualRecord, rows, world, execution
  <1>3. PICK l \in {"idle", "prepare", "call", "shipped", "unshipped", "settle", "record"} :
            Move(r, l)
    BY DEF Confirm, BeginConfirm, ManualPrepare, ManualCall, ManualAnswer, ManualFinish,
           ManualRecord, Reply
  <1>4. rpc' \in [Requests -> {"idle", "prepare", "call", "shipped", "unshipped", "settle", "record"}]
    BY <1>1, <1>3 DEF Move, FulfilmentTypeOK
  <1>5. rres' \in [Requests -> Results]
    <2>1. ASSUME NEW a \in Confirmations, ManualAnswer(r, a) PROVE rres' \in [Requests -> Results]
      BY <1>1, <2>1, ConfirmationsAssumption DEF ManualAnswer, Reply, Results
    <2>2. CASE ~ \E a \in Confirmations : ManualAnswer(r, a)
      BY <1>1, <2>2 DEF Confirm, BeginConfirm, ManualPrepare, ManualCall, ManualFinish,
                        ManualRecord, Reply, Results
    <2> QED BY <2>1, <2>2
  <1>6. open' \in SUBSET Kinds /\ same' \in SUBSET Requests
    BY <1>1 DEF FulfilmentTypeOK, Confirm, BeginConfirm, ManualPrepare, ManualCall, ManualAnswer,
                ManualFinish, ManualRecord, Reply, rows, Kinds, ConfirmKinds
  <1>7. conf' \in ConfirmationStates
    <2>1. CASE ManualRecord(r)
      BY <1>1, <2>1 DEF FulfilmentTypeOK, ManualRecord, ConfirmationOf, ConfirmationStates, PlaceInv, Told
    <2>2. CASE ~ManualRecord(r)
      BY <1>1, <2>2 DEF FulfilmentTypeOK, Confirm, BeginConfirm, ManualPrepare, ManualCall,
                        ManualAnswer, ManualFinish, rows
    <2> QED BY <2>1, <2>2
  <1>8. done' \in [ConfirmKinds -> SUBSET FinishedStates]
    <2>1. CASE ManualFinish(r)
      <3>1. AttemptOf(rres[r]) \in FinishedStates
        BY DEF AttemptOf, FinishedStates
      <3> QED BY <1>1, <2>1, <3>1 DEF ManualFinish, FulfilmentTypeOK, ConfirmKinds
    <2>2. CASE ~ManualFinish(r)
      BY <1>1, <2>2 DEF FulfilmentTypeOK, Confirm, BeginConfirm, ManualPrepare, ManualCall,
                        ManualAnswer, ManualRecord, rows
    <2> QED BY <2>1, <2>2
  <1>9. shipped' \in 0..2
    BY <1>1 DEF FulfilmentTypeOK, Confirm, BeginConfirm, ManualPrepare, ManualCall, ManualAnswer,
                ManualFinish, ManualRecord, Take, world
  <1>10. ASSUME NEW q \in Requests, rpc'[q] \in {"settle", "record"} PROVE rres'[q] \in Told
    <2>1. CASE \E a \in Confirmations : ManualAnswer(r, a)
      BY <1>1, <1>10, <2>1, ConfirmationsAssumption
         DEF ManualAnswer, Reply, Move, PlaceInv, Told, FulfilmentTypeOK
    <2>2. CASE ~ \E a \in Confirmations : ManualAnswer(r, a)
      BY <1>1, <1>10, <2>2 DEF Confirm, BeginConfirm, ManualPrepare, ManualCall, ManualFinish,
                        ManualRecord, Reply, Move, PlaceInv, FulfilmentTypeOK
    <2> QED BY <2>1, <2>2
  <1> QED BY <1>1, <1>2, <1>4, <1>5, <1>6, <1>7, <1>8, <1>9, <1>10 DEF PlaceInv, FulfilmentTypeOK

\* Crash and recovery.
LEMMA PlaceInRestart ==
    ASSUME PlaceInv, Crash \/ (\E kind \in Kinds : BootRecover(kind)) \/ BootDone
    PROVE  PlaceInv'
  <1>1. FulfilmentTypeOK
    BY DEF PlaceInv
  <1>2. CASE Crash
    <2>1. crashes' \in 0..MaxCrashes
      BY <1>1, <1>2, CrashesAssumption DEF Crash, FulfilmentTypeOK
    <2>2. /\ pc' = "idle" /\ next' = 1 /\ known' = {} /\ sent' = FALSE /\ res' = "none"
          /\ rpc' = [r \in Requests |-> "idle"] /\ rres' = [r \in Requests |-> "none"]
          /\ same' = {} /\ phase' = "boot" /\ UNCHANGED <<rows, got, shipped>>
      BY <1>2 DEF Crash, Return, Goto
    <2>3. 1 \in 1..(Len(Template) + 1) /\ "none" \in Results
      BY Places DEF Results
    <2> QED BY <1>1, <2>1, <2>2, <2>3 DEF PlaceInv, FulfilmentTypeOK, rows
  <1>3. ASSUME NEW kind \in Kinds, BootRecover(kind) PROVE PlaceInv'
    <2>1. done' \in [ConfirmKinds -> SUBSET FinishedStates]
      BY <1>1, <1>3 DEF BootRecover, FulfilmentTypeOK, FinishedStates
    <2>2. /\ conf' \in ConfirmationStates
          /\ content' \in {"queued", "dispatching", "not_sent", "accepted", "unknown"}
      BY <1>1, <1>3 DEF BootRecover, FulfilmentTypeOK, ConfirmationStates
    <2> QED BY <1>3, <2>1, <2>2 DEF BootRecover, PlaceInv, FulfilmentTypeOK, world, execution, requestVars
  <1>4. CASE BootDone
    BY <1>4 DEF BootDone, PlaceInv, FulfilmentTypeOK, rows, execution, requestVars
  <1> QED BY <1>2, <1>3, <1>4

-----------------------------------------------------------------------------
(* The messages, step by step *)

\* Up to the first message.
LEMMA MessagesBegin ==
    ASSUME PlaceInv, MessagesInv,
           Prepare \/ Mark \/ \E cancelled \in BOOLEAN : ReadProofs(cancelled)
    PROVE  MessagesInv'
  <1>1. Received' = Received
    BY DEF Prepare, Mark, ReadProofs, world, rows, Received
  <1>2. CASE Prepare
    BY <1>1, <1>2 DEF MessagesInv, Prepare, Goto, Sending, world, execution, AllowedStates
  <1>3. CASE Mark
    BY <1>1, <1>3 DEF MessagesInv, Mark, Goto, Sending, world, execution, AllowedStates
  <1>4. ASSUME NEW cancelled \in BOOLEAN, ReadProofs(cancelled) PROVE MessagesInv'
    <2>1. content = "dispatching" /\ Received = proofs
      BY <1>4 DEF MessagesInv, ReadProofs, Sending
    <2>2. UNCHANGED <<content, proofs>>
      BY <1>4 DEF ReadProofs, rows
    <2>3. CASE cancelled
      BY <1>1, <1>4, <2>1, <2>2, <2>3 DEF MessagesInv, ReadProofs, Goto, Sending
    <2>4. CASE ~cancelled
      <3>1. pc' = "loop" /\ known' = proofs /\ next' = next
        BY <1>4, <2>4 DEF ReadProofs, Goto, Known
      <3>2. next = 1
        BY <1>4 DEF PlaceInv, ReadProofs
      <3> QED BY <1>1, <2>1, <2>2, <3>1, <3>2, Places DEF MessagesInv, Sending
    <2> QED BY <2>3, <2>4
  <1> QED BY <1>2, <1>3, <1>4

\* One message, its answer and its proof.
LEMMA MessagesGoOn ==
    ASSUME PlaceInv, MessagesInv,
           Skip \/ InsertProof \/ (\E reaches \in BOOLEAN : Send(reaches))
           \/ \E r \in Replies : Answer(r)
    PROVE  MessagesInv'
  <1> DEFINE upTo(n, ps) == \A i \in 1..Len(Template) : i < n => Template[i] \in ps
  <1>1. FulfilmentTypeOK /\ next \in Nat /\ Len(Template) \in Nat
    BY Places DEF PlaceInv, FulfilmentTypeOK
  <1>2. /\ pc \in {"loop", "reached", "missed", "proof"} /\ content = "dispatching"
        /\ known \subseteq proofs /\ upTo(next, proofs)
    BY DEF MessagesInv, Sending, Skip, InsertProof, Send, Answer
  <1>3. CASE Skip
    <2>1. /\ UNCHANGED <<content, proofs, pc, known>> /\ pc = "loop" /\ Received' = Received
          /\ next' = next + 1 /\ Template[next] \in proofs
      BY <1>2, <1>3 DEF Skip, rows, world, Received
    <2>2. upTo(next', proofs)
      BY <1>1, <1>2, <2>1
    <2> QED BY <1>2, <2>1, <2>2 DEF MessagesInv, Sending
  <1>4. CASE InsertProof
    <2>1. /\ UNCHANGED <<content, known>> /\ Received' = Received /\ pc' = "loop"
          /\ proofs' = proofs \cup {Template[next]} /\ next' = next + 1
          /\ Received = proofs \cup {Template[next]}
      BY <1>2, <1>4 DEF InsertProof, Proven, Goto, world, Received, MessagesInv
    <2>2. upTo(next', proofs')
      BY <1>1, <1>2, <2>1
    <2> QED BY <1>2, <2>1, <2>2 DEF MessagesInv, Sending
  <1>5. ASSUME NEW reaches \in BOOLEAN, Send(reaches) PROVE MessagesInv'
    <2>1. /\ UNCHANGED <<content, proofs, known, next, res>> /\ pc = "loop" /\ Received = proofs
          /\ next <= Len(Template) /\ Template[next] \in Digests
      BY <1>1, <1>5, Places DEF Send, AtEnd, rows, execution, MessagesInv, FulfilmentTypeOK
    <2>2. CASE reaches
      <3>1. pc' = "reached" /\ Received' = proofs \cup {Template[next]}
        BY <1>1, <1>5, <2>1, <2>2, OneMore DEF Send, Goto, FulfilmentTypeOK
      <3> QED BY <1>2, <2>1, <3>1 DEF MessagesInv, Sending
    <2>3. CASE ~reaches
      <3>1. pc' = "missed" /\ Received' = Received
        BY <1>5, <2>3 DEF Send, Goto, Received
      <3> QED BY <1>2, <2>1, <3>1 DEF MessagesInv, Sending
    <2> QED BY <2>2, <2>3
  <1>6. ASSUME NEW r \in Replies, Answer(r) PROVE MessagesInv'
    <2>1. /\ UNCHANGED <<content, proofs>> /\ Received' = Received
          /\ pc \in {"reached", "missed"}
      BY <1>6 DEF Answer, rows, world, Received
    <2>2. CASE r = "accepted"
      BY <1>2, <1>6, <2>1, <2>2
         DEF Answer, Consistent, Goto, execution, MessagesInv, Sending
    <2>3. CASE r = "error"
      BY <1>2, <1>6, <2>1, <2>3 DEF Answer, Return, Goto, MessagesInv, Sending
    <2>4. CASE r \notin {"accepted", "error"}
      <3>1. pc' = "finish" /\ res' = r /\ (r # "unknown" => pc = "missed")
        BY <1>6, <2>1, <2>4, RepliesAssumption DEF Answer, Consistent, Goto
      <3> QED BY <1>2, <2>1, <2>4, <3>1 DEF MessagesInv, Sending
    <2> QED BY <2>2, <2>3, <2>4
  <1> QED BY <1>3, <1>4, <1>5, <1>6

\* The end: the attempt, and the row.
LEMMA MessagesEnd ==
    ASSUME PlaceInv, MessagesInv,
           AllSent \/ FinishAttempt \/ \E autoConfirm \in BOOLEAN : RecordContent(autoConfirm)
    PROVE  MessagesInv'
  <1>1. FulfilmentTypeOK
    BY DEF PlaceInv
  <1>2. content = "dispatching" /\ UNCHANGED proofs /\ Received' = Received
    BY DEF MessagesInv, Sending, AllSent, FinishAttempt, RecordContent, rows, world, Received
  <1>3. CASE AllSent
    <2>1. /\ pc' = "finish" /\ Received = proofs /\ content' = content
          /\ \A i \in 1..Len(Template) : i < next => Template[i] \in proofs
          /\ next > Len(Template)
      BY <1>3 DEF AllSent, AtEnd, Goto, rows, MessagesInv
    <2>2. Digests \subseteq proofs
      BY <1>1, <2>1, Places DEF Digests, FulfilmentTypeOK
    <2>3. proofs = Digests
      BY <1>1, <2>2 DEF FulfilmentTypeOK
    <2> QED BY <1>2, <2>1, <2>3 DEF MessagesInv, Sending
  <1>4. CASE FinishAttempt
    BY <1>2, <1>4 DEF FinishAttempt, Goto, execution, MessagesInv, Sending
  <1>5. ASSUME NEW b \in BOOLEAN, RecordContent(b) PROVE MessagesInv'
    <2>1. /\ pc = "state" /\ pc' \in {"confirm", "idle"} /\ content' = ContentOf(res)
          /\ res # "unknown" => Received = proofs
          /\ res = "accepted" => Received = Digests
      BY <1>5 DEF RecordContent, Return, Goto, MessagesInv
    <2> QED BY <1>2, <2>1 DEF MessagesInv, Sending, ContentOf
  <1> QED BY <1>3, <1>4, <1>5

\* The confirmations, crashes and recovery.
LEMMA MessagesRest ==
    ASSUME PlaceInv, MessagesInv,
           \/ ConfirmPrepare \/ ConfirmPending \/ ConfirmDispatching
           \/ \E b \in BOOLEAN : ConfirmCall(b)
           \/ \E r \in Confirmations : ConfirmAnswer(r)
           \/ ConfirmFinish \/ ConfirmRecord
           \/ \E r \in Requests : Confirm(r)
           \/ Crash \/ (\E kind \in Kinds : BootRecover(kind)) \/ BootDone
    PROVE  MessagesInv'
  <1>1. ASSUME NEW from \in {"pending", "dispatching", "record"}, NEW to,
               NEW l \in {"idle", "dispatching", "call"}, SetConfirmation(from, to, l)
        PROVE  MessagesInv'
    <2>1. UNCHANGED <<content, proofs, got>> /\ pc = from /\ pc' \in {"idle", l}
      BY <1>1 DEF SetConfirmation, Return, Goto, world
    <2> QED BY <2>1, MessagesStay DEF Sending
  <1>2. CASE ConfirmPending \/ ConfirmDispatching \/ ConfirmRecord
    BY <1>1, <1>2 DEF ConfirmPending, ConfirmDispatching, ConfirmRecord
  <1>3. CASE \/ ConfirmPrepare \/ ConfirmFinish \/ (\E b \in BOOLEAN : ConfirmCall(b))
             \/ \E r \in Confirmations : ConfirmAnswer(r)
    <2>1. /\ UNCHANGED <<content, proofs, got>>
          /\ \A l \in {pc, pc'} : l \in {"confirm", "pending", "call", "shipped", "unshipped",
                                         "settle", "record", "idle"}
      BY <1>3 DEF ConfirmPrepare, ConfirmFinish, ConfirmCall, ConfirmAnswer, Return, Goto,
                  rows, world
    <2> QED BY <2>1, MessagesStay DEF Sending
  <1>4. CASE (\E r \in Requests : Confirm(r)) \/ BootDone
    <2>1. UNCHANGED <<content, proofs, got, pc, execution>>
      BY <1>4 DEF Confirm, BeginConfirm, ManualPrepare, ManualCall, ManualAnswer, ManualFinish,
                  ManualRecord, BootDone, rows, world
    <2> QED BY <2>1, MessagesStay
  <1>5. CASE Crash
    <2>1. UNCHANGED <<content, proofs>> /\ Received' = Received /\ pc' = "idle"
      BY <1>5 DEF Crash, Return, Goto, rows, Received
    <2>2. content \notin {"dispatching", "unknown"} => Received = proofs
      BY DEF MessagesInv, Sending
    <2> QED BY <2>1, <2>2 DEF MessagesInv, Sending
  <1>6. CASE \E kind \in Kinds : BootRecover(kind)
    <2>1. /\ pc = "idle" /\ pc' = "idle" /\ UNCHANGED proofs /\ Received' = Received
          /\ content' \in {content, "unknown"}
      BY <1>6 DEF BootRecover, PlaceInv, world, Received
    <2> QED BY <2>1 DEF MessagesInv, Sending
  <1> QED BY <1>2, <1>3, <1>4, <1>5, <1>6

-----------------------------------------------------------------------------
(* The confirmation, step by step *)

\* What stands behind a confirmation that the platform took.
OnRecord == \/ \E k \in ConfirmKinds : done[k] \cap Doubtful # {}
            \/ PledgedByService \/ PledgedByRequest

\* confirm_shipment of the service.
LEMMA ServiceConfirms ==
    ASSUME PlaceInv, ConfirmationInv,
           \/ ConfirmPrepare \/ ConfirmPending \/ ConfirmDispatching
           \/ \E b \in BOOLEAN : ConfirmCall(b)
           \/ \E r \in Confirmations : ConfirmAnswer(r)
           \/ ConfirmFinish \/ ConfirmRecord
    PROVE  ConfirmationInv'
  <1>1. FulfilmentTypeOK /\ shipped \in Nat
    BY DEF PlaceInv, FulfilmentTypeOK
  <1>2. /\ UNCHANGED <<rpc, rres>> /\ shipped' \in Nat /\ (shipped > 0 => shipped' > 0)
        /\ "manual_confirm" \in open' <=> "manual_confirm" \in open
    <2>1. CASE \E b \in BOOLEAN : ConfirmCall(b)
      BY <1>1, <2>1 DEF ConfirmCall, Take, rows, requestVars
    <2>2. CASE ~ \E b \in BOOLEAN : ConfirmCall(b)
      BY <1>1, <2>2 DEF ConfirmPrepare, ConfirmPending, ConfirmDispatching, ConfirmAnswer,
                        ConfirmFinish, ConfirmRecord, SetConfirmation, rows, world, requestVars
    <2> QED BY <2>1, <2>2
  <1>3. /\ \A r \in Requests : InFlight(r)' <=> InFlight(r)
        /\ PledgedByRequest => PledgedByRequest'
    BY <1>2 DEF InFlight, PledgedByRequest
  <1>4. ASSUME pc' \in {"pending", "dispatching", "call", "shipped", "unshipped", "settle"} =>
                   "confirmation" \in open',
               pc' = "shipped" => shipped' > 0,
               pc' \in {"settle", "record"} /\ res' = "accepted" => shipped' > 0,
               conf' = "accepted" => shipped' > 0,
               shipped' > 0 => OnRecord'
        PROVE  ConfirmationInv'
    BY <1>2, <1>3, <1>4 DEF ConfirmationInv, OnRecord
  <1>5. CASE ConfirmPrepare
    <2>1. /\ UNCHANGED <<conf, shipped, done>> /\ pc' \in {"idle", "pending"} /\ pc = "confirm"
          /\ pc' = "pending" => "confirmation" \in open' /\ "confirmation" \notin open
          /\ pc' = "idle" => open' = open
      BY <1>5 DEF ConfirmPrepare, Return, Goto, world
    <2>2. PledgedByService => PledgedByService'
      BY <2>1 DEF PledgedByService
    <2>3. shipped' > 0 => OnRecord'
      BY <1>3, <2>1, <2>2 DEF ConfirmationInv, OnRecord
    <2> QED BY <1>4, <2>1, <2>3 DEF ConfirmationInv
  <1>6. CASE ConfirmPending \/ ConfirmDispatching
    <2>1. /\ UNCHANGED <<shipped, done, open>> /\ pc \in {"pending", "dispatching"}
          /\ pc' \in {"idle", "dispatching", "call"}
          /\ conf' = "accepted" => conf = "accepted"
      BY <1>6 DEF ConfirmPending, ConfirmDispatching, SetConfirmation, Return, Goto, world
    <2>2. ~PledgedByService
      BY <2>1 DEF PledgedByService
    <2>3. shipped' > 0 => OnRecord'
      BY <1>3, <2>1, <2>2 DEF ConfirmationInv, OnRecord
    <2> QED BY <1>4, <2>1, <2>3 DEF ConfirmationInv
  <1>7. ASSUME NEW b \in BOOLEAN, ConfirmCall(b) PROVE ConfirmationInv'
    <2>1. UNCHANGED <<conf, done, open>> /\ pc = "call" /\ "confirmation" \in open
      BY <1>7 DEF ConfirmCall, rows, ConfirmationInv
    <2>2. CASE b
      <3>1. pc' = "shipped" /\ shipped' > 0
        BY <1>1, <1>7, <2>2 DEF ConfirmCall, Take, Goto
      <3>2. PledgedByService'
        BY <2>1, <3>1 DEF PledgedByService
      <3> QED BY <1>4, <2>1, <3>1, <3>2 DEF OnRecord
    <2>3. CASE ~b
      <3>1. pc' = "unshipped" /\ UNCHANGED shipped
        BY <1>7, <2>3 DEF ConfirmCall, Goto
      <3>2. ~PledgedByService
        BY <2>1 DEF PledgedByService
      <3>3. shipped' > 0 => OnRecord'
        BY <1>3, <2>1, <3>1, <3>2 DEF ConfirmationInv, OnRecord
      <3> QED BY <1>4, <2>1, <3>1, <3>3 DEF ConfirmationInv
    <2> QED BY <2>2, <2>3
  <1>8. ASSUME NEW r \in Confirmations, ConfirmAnswer(r) PROVE ConfirmationInv'
    <2>1. /\ UNCHANGED <<conf, done, open, shipped>> /\ pc \in {"shipped", "unshipped"}
          /\ "confirmation" \in open /\ Consistent(r, pc = "shipped")
          /\ pc = "shipped" => shipped > 0
      BY <1>8 DEF ConfirmAnswer, rows, world, ConfirmationInv
    <2>2. CASE r = "error"
      <3>1. pc' = "idle"
        BY <1>8, <2>2 DEF ConfirmAnswer, Return, Goto
      <3>2. PledgedByService'
        BY <2>1, <3>1 DEF PledgedByService
      <3> QED BY <1>4, <2>1, <3>1, <3>2 DEF OnRecord, ConfirmationInv
    <2>3. CASE r # "error"
      <3>1. pc' = "settle" /\ res' = r
        BY <1>8, <2>3 DEF ConfirmAnswer, Goto
      <3>2. r \in {"accepted", "not_submitted", "rejected", "unknown"}
        BY <2>3, ConfirmationsAssumption
      <3>3. PledgedByService => PledgedByService'
        BY <2>1, <3>1, <3>2 DEF PledgedByService, Doubtful, Consistent
      <3>4. shipped' > 0 => OnRecord'
        BY <1>3, <2>1, <3>3 DEF ConfirmationInv, OnRecord
      <3>5. r = "accepted" => shipped > 0
        BY <2>1 DEF Consistent
      <3> QED BY <1>4, <2>1, <3>1, <3>4, <3>5 DEF ConfirmationInv
    <2> QED BY <2>2, <2>3
  <1>9. CASE ConfirmFinish
    <2>1. /\ UNCHANGED <<conf, shipped, res>> /\ pc = "settle" /\ pc' = "record"
          /\ done' = [done EXCEPT !["confirmation"] = @ \cup {ConfirmAttemptOf(res)}]
          /\ res = "accepted" => shipped > 0
      BY <1>9 DEF ConfirmFinish, Goto, world, execution, ConfirmationInv
    <2>2. \A k \in ConfirmKinds : done[k] \subseteq done'[k]
      BY <1>1, <2>1 DEF FulfilmentTypeOK
    <2>3. PledgedByService => done'["confirmation"] \cap Doubtful # {}
      <3>1. SUFFICES ASSUME PledgedByService PROVE done'["confirmation"] \cap Doubtful # {}
        OBVIOUS
      <3>2. res \in Doubtful /\ ConfirmAttemptOf(res) = res
        BY <2>1, <3>1 DEF PledgedByService, Doubtful, ConfirmAttemptOf
      <3>3. res \in done'["confirmation"]
        BY <1>1, <2>1, <3>2 DEF FulfilmentTypeOK, ConfirmKinds
      <3> QED BY <3>2, <3>3
    <2>4. shipped' > 0 => OnRecord'
      <3>1. SUFFICES ASSUME shipped > 0 PROVE OnRecord'
        BY <2>1
      <3>2. OnRecord
        BY <3>1 DEF ConfirmationInv, OnRecord
      <3>3. CASE \E k \in ConfirmKinds : done[k] \cap Doubtful # {}
        BY <2>2, <3>3 DEF OnRecord
      <3>4. CASE PledgedByService
        BY <2>3, <3>4 DEF OnRecord, ConfirmKinds
      <3>5. CASE PledgedByRequest
        BY <1>3, <3>5 DEF OnRecord
      <3> QED BY <3>2, <3>3, <3>4, <3>5 DEF OnRecord
    <2> QED BY <1>4, <2>1, <2>4 DEF ConfirmationInv
  <1>10. CASE ConfirmRecord
    <2>1. /\ UNCHANGED <<shipped, done, open>> /\ pc = "record" /\ pc' = "idle"
          /\ conf' \in {conf, ConfirmationOf(res)}
      BY <1>10 DEF ConfirmRecord, SetConfirmation, Return, Goto, world
    <2>2. conf' = "accepted" => shipped' > 0
      BY <2>1 DEF ConfirmationOf, ConfirmationInv
    <2>3. PledgedByService => PledgedByService'
      BY <2>1 DEF PledgedByService
    <2>4. shipped' > 0 => OnRecord'
      BY <1>3, <2>1, <2>3 DEF ConfirmationInv, OnRecord
    <2> QED BY <1>4, <2>1, <2>2, <2>4 DEF ConfirmationInv
  <1> QED BY <1>5, <1>6, <1>7, <1>8, <1>9, <1>10

\* confirm_shipment of an administrator.
LEMMA RequestConfirms ==
    ASSUME PlaceInv, ConfirmationInv, NEW r \in Requests, Confirm(r)
    PROVE  ConfirmationInv'
  <1>1. FulfilmentTypeOK /\ shipped \in Nat /\ rpc[r] \in {"idle", "prepare", "call", "shipped",
                                                            "unshipped", "settle", "record"}
    BY DEF PlaceInv, FulfilmentTypeOK
  <1>2. /\ UNCHANGED <<pc, res>> /\ shipped' \in Nat /\ (shipped > 0 => shipped' > 0)
        /\ "confirmation" \in open' <=> "confirmation" \in open
        /\ \A q \in Requests \ {r} : rpc'[q] = rpc[q] /\ rres'[q] = rres[q]
    <2>1. UNCHANGED <<pc, res>>
      BY DEF Confirm, BeginConfirm, ManualPrepare, ManualCall, ManualAnswer, ManualFinish,
             ManualRecord, execution
    <2>2. shipped' \in Nat /\ (shipped > 0 => shipped' > 0)
      BY <1>1 DEF Confirm, BeginConfirm, ManualPrepare, ManualCall, ManualAnswer, ManualFinish,
                  ManualRecord, Take, world
    <2>3. "confirmation" \in open' <=> "confirmation" \in open
      BY DEF Confirm, BeginConfirm, ManualPrepare, ManualCall, ManualAnswer, ManualFinish,
             ManualRecord, rows
    <2>4. \A q \in Requests \ {r} : rpc'[q] = rpc[q]
      BY <1>1 DEF Confirm, BeginConfirm, ManualPrepare, ManualCall, ManualAnswer, ManualFinish,
             ManualRecord, Reply, Move, FulfilmentTypeOK
    <2>5. \A q \in Requests \ {r} : rres'[q] = rres[q]
      BY DEF Confirm, BeginConfirm, ManualPrepare, ManualCall, ManualAnswer, ManualFinish,
             ManualRecord, Reply, PlaceInv
    <2> QED BY <2>1, <2>2, <2>3, <2>4, <2>5
  <1>3. PledgedByService => PledgedByService'
    BY <1>2 DEF PledgedByService
  <1>4. \A q \in Requests \ {r} : InFlight(q)' <=> InFlight(q)
    BY <1>2 DEF InFlight
  <1>5. ASSUME InFlight(r)' => "manual_confirm" \in open',
               InFlight(r)' => InFlight(r) \/ \A q \in Requests : ~InFlight(q),
               \A q \in Requests \ {r} : InFlight(q) => "manual_confirm" \in open',
               rpc'[r] = "shipped" => shipped' > 0,
               rpc'[r] \in {"settle", "record"} /\ rres'[r] = "accepted" => shipped' > 0,
               conf' = "accepted" => shipped' > 0,
               shipped' > 0 => OnRecord'
        PROVE  ConfirmationInv'
    <2>1. ("confirmation" \in open' <=> "confirmation" \in open) /\ UNCHANGED <<pc, res>>
      BY <1>2
    <2>2. \A q \in Requests : InFlight(q)' => "manual_confirm" \in open'
      BY <1>4, <1>5
    <2>3. \A q, s \in Requests : InFlight(q)' /\ InFlight(s)' => q = s
      BY <1>4, <1>5 DEF ConfirmationInv
    <2>4. \A q \in Requests :
              /\ rpc'[q] = "shipped" => shipped' > 0
              /\ rpc'[q] \in {"settle", "record"} /\ rres'[q] = "accepted" => shipped' > 0
      BY <1>2, <1>5 DEF ConfirmationInv
    <2> QED BY <1>2, <1>5, <2>1, <2>2, <2>3, <2>4 DEF ConfirmationInv, OnRecord
  <1>6. ASSUME PledgedByRequest => PledgedByRequest', UNCHANGED <<done, shipped>>
        PROVE  shipped' > 0 => OnRecord'
    BY <1>3, <1>6 DEF ConfirmationInv, OnRecord
  <1>7. CASE BeginConfirm(r)
    <2>1. /\ UNCHANGED <<open, done, conf, shipped, rres>> /\ rpc[r] = "idle" /\ rpc'[r] = "prepare"
      BY <1>1, <1>7 DEF BeginConfirm, Move, rows, world, FulfilmentTypeOK
    <2>2. PledgedByRequest => PledgedByRequest'
      BY <1>2, <2>1 DEF PledgedByRequest
    <2> QED BY <1>5, <1>6, <2>1, <2>2 DEF ConfirmationInv, InFlight
  <1>8. CASE ManualPrepare(r)
    <2>1. /\ UNCHANGED <<done, conf, shipped>> /\ rpc[r] = "prepare"
          /\ \/ /\ "manual_confirm" \notin open /\ "manual_confirm" \in open' /\ rpc'[r] = "call"
             \/ rpc'[r] = "idle" /\ open' = open
      BY <1>1, <1>8 DEF ManualPrepare, Reply, Move, world, FulfilmentTypeOK
    <2>2. PledgedByRequest => PledgedByRequest'
      BY <1>2, <2>1 DEF PledgedByRequest
    <2>3. InFlight(r)' => "manual_confirm" \in open' /\ \A q \in Requests : ~InFlight(q)
      BY <2>1 DEF InFlight, ConfirmationInv
    <2>4. \A q \in Requests \ {r} : InFlight(q) => "manual_confirm" \in open'
      BY <2>1 DEF ConfirmationInv
    <2>5. rpc'[r] \notin {"shipped", "settle", "record"}
      BY <2>1
    <2>6. conf' = "accepted" => shipped' > 0
      BY <2>1 DEF ConfirmationInv
    <2> QED BY <1>5, <1>6, <2>1, <2>2, <2>3, <2>4, <2>5, <2>6
  <1>9. ASSUME NEW taken \in BOOLEAN, ManualCall(r, taken) PROVE ConfirmationInv'
    <2>1. /\ UNCHANGED <<open, done, conf, rres>> /\ rpc[r] = "call" /\ InFlight(r)
          /\ "manual_confirm" \in open
          /\ rpc' = [rpc EXCEPT ![r] = IF taken THEN "shipped" ELSE "unshipped"]
          /\ taken => shipped' > 0
          /\ ~taken => shipped' = shipped
      BY <1>1, <1>9 DEF ManualCall, Move, Take, rows, ConfirmationInv, InFlight
    <2>2. rpc'[r] = IF taken THEN "shipped" ELSE "unshipped"
      BY <1>1, <2>1 DEF FulfilmentTypeOK
    <2>3. \A q \in Requests \ {r} : ~InFlight(q)
      BY <2>1 DEF ConfirmationInv
    <2>4. shipped' > 0 => OnRecord'
      <3>1. CASE taken
        <4>1. PledgedByRequest'
          BY <1>2, <2>1, <2>2, <2>3, <3>1 DEF PledgedByRequest, InFlight
        <4> QED BY <4>1 DEF OnRecord
      <3>2. CASE ~taken
        <4>1. ~PledgedByRequest
          BY <2>1 DEF PledgedByRequest
        <4> QED BY <1>6, <2>1, <3>2, <4>1
      <3> QED BY <3>1, <3>2
    <2>5. conf' = "accepted" => shipped' > 0
      BY <1>2, <2>1 DEF ConfirmationInv
    <2> QED BY <1>5, <2>1, <2>2, <2>4, <2>5 DEF ConfirmationInv
  <1>10. ASSUME NEW a \in Confirmations, ManualAnswer(r, a) PROVE ConfirmationInv'
    <2>1. /\ UNCHANGED <<open, done, conf, shipped>> /\ rpc[r] \in {"shipped", "unshipped"}
          /\ InFlight(r) /\ "manual_confirm" \in open /\ Consistent(a, rpc[r] = "shipped")
          /\ rpc[r] = "shipped" => shipped > 0
      BY <1>10 DEF ManualAnswer, rows, world, ConfirmationInv, InFlight
    <2>2. \/ a = "error" /\ rpc'[r] = "idle"
          \/ a \in Told /\ rpc'[r] = "settle" /\ rres'[r] = a
      BY <1>1, <1>10, ConfirmationsAssumption
         DEF ManualAnswer, Reply, Move, FulfilmentTypeOK, PlaceInv, Told
    <2>3. PledgedByRequest => PledgedByRequest'
      BY <1>2, <2>1, <2>2 DEF PledgedByRequest, Consistent, Told, Doubtful
    <2>4. rpc'[r] \in {"settle", "record"} /\ rres'[r] = "accepted" => shipped' > 0
      BY <2>1, <2>2 DEF Consistent
    <2>5. conf' = "accepted" => shipped' > 0
      BY <2>1 DEF ConfirmationInv
    <2> QED BY <1>5, <1>6, <2>1, <2>2, <2>3, <2>4, <2>5
  <1>11. CASE ManualFinish(r)
    <2>1. /\ UNCHANGED <<conf, shipped, rres>> /\ rpc[r] = "settle" /\ rpc'[r] = "record"
          /\ done' = [done EXCEPT !["manual_confirm"] = @ \cup {AttemptOf(rres[r])}]
          /\ rres[r] = "accepted" => shipped > 0
      BY <1>1, <1>11 DEF ManualFinish, Move, world, FulfilmentTypeOK, ConfirmationInv
    <2>2. \A q \in Requests \ {r} : ~InFlight(q)
      BY <2>1 DEF ConfirmationInv, InFlight
    <2>3. \A k \in ConfirmKinds : done[k] \subseteq done'[k]
      BY <1>1, <2>1 DEF FulfilmentTypeOK
    <2>4. PledgedByRequest => done'["manual_confirm"] \cap Doubtful # {}
      <3>1. SUFFICES ASSUME PledgedByRequest PROVE done'["manual_confirm"] \cap Doubtful # {}
        OBVIOUS
      <3>2. rres[r] \in Doubtful /\ AttemptOf(rres[r]) = rres[r]
        BY <2>1, <3>1 DEF PledgedByRequest, Doubtful, AttemptOf
      <3>3. rres[r] \in done'["manual_confirm"]
        BY <1>1, <2>1, <3>2 DEF FulfilmentTypeOK, ConfirmKinds
      <3> QED BY <3>2, <3>3
    <2>5. shipped' > 0 => OnRecord'
      <3>1. SUFFICES ASSUME shipped > 0 PROVE OnRecord'
        BY <2>1
      <3>2. OnRecord
        BY <3>1 DEF ConfirmationInv, OnRecord
      <3>3. CASE \E k \in ConfirmKinds : done[k] \cap Doubtful # {}
        BY <2>3, <3>3 DEF OnRecord
      <3>4. CASE PledgedByService
        BY <1>3, <3>4 DEF OnRecord
      <3>5. CASE PledgedByRequest
        BY <2>4, <3>5 DEF OnRecord, ConfirmKinds
      <3> QED BY <3>2, <3>3, <3>4, <3>5 DEF OnRecord
    <2> QED BY <1>5, <2>1, <2>2, <2>5 DEF InFlight, ConfirmationInv
  <1>12. CASE ManualRecord(r)
    <2>1. /\ UNCHANGED <<open, done, shipped>> /\ rpc[r] = "record" /\ rpc'[r] = "idle"
          /\ conf' \in {conf, ConfirmationOf(rres[r])}
          /\ rres[r] = "accepted" => shipped > 0
      BY <1>1, <1>12 DEF ManualRecord, Move, world, FulfilmentTypeOK, ConfirmationInv
    <2>2. PledgedByRequest => PledgedByRequest'
      BY <1>2, <2>1 DEF PledgedByRequest
    <2>3. conf' = "accepted" => shipped' > 0
      BY <2>1 DEF ConfirmationInv, ConfirmationOf
    <2> QED BY <1>5, <1>6, <2>1, <2>2, <2>3 DEF InFlight, ConfirmationInv
  <1> QED BY <1>7, <1>8, <1>9, <1>10, <1>11, <1>12 DEF Confirm

\* The steps of dispatch.
LEMMA DispatchConfirmsNothing ==
    ASSUME ConfirmationInv,
           \/ Prepare \/ Mark \/ Skip \/ InsertProof \/ AllSent \/ FinishAttempt
           \/ \E b \in BOOLEAN : ReadProofs(b) \/ Send(b) \/ RecordContent(b)
           \/ \E r \in Replies : Answer(r)
    PROVE  ConfirmationInv'
  <1>1. UNCHANGED <<conf, done, shipped, requestVars>>
    BY DEF Prepare, Mark, Skip, InsertProof, AllSent, FinishAttempt, ReadProofs, Send,
           RecordContent, Answer, rows, world
  <1>2. open' \cap ConfirmKinds = open \cap ConfirmKinds
    BY DEF Prepare, Mark, Skip, InsertProof, AllSent, FinishAttempt, ReadProofs, Send,
           RecordContent, Answer, rows, ConfirmKinds
  <1>3. /\ pc \in {"idle", "mark"} \cup Sending
        /\ pc' \in {"idle", "mark", "confirm"} \cup Sending
    BY DEF Prepare, Mark, Skip, InsertProof, AllSent, FinishAttempt, ReadProofs, Send,
           RecordContent, Answer, Goto, Return, Sending
  <1> QED BY <1>1, <1>2, <1>3, ConfirmationStays DEF Sending

\* A crash leaves to the recovery what nobody else can end any more; the
\* recovery notes "unknown".
LEMMA RestartConfirmsNothing ==
    ASSUME PlaceInv, ConfirmationInv,
           Crash \/ (\E kind \in Kinds : BootRecover(kind)) \/ BootDone
    PROVE  ConfirmationInv'
  <1>1. CASE Crash
    <2>1. /\ UNCHANGED <<conf, open, done, shipped>> /\ pc' = "idle"
          /\ \A r \in Requests : rpc'[r] = "idle"
      BY <1>1 DEF Crash, Return, Goto, rows
    <2>2. /\ PledgedByService => PledgedByService'
          /\ PledgedByRequest => PledgedByRequest'
          /\ \A r \in Requests : ~InFlight(r)'
      BY <2>1 DEF PledgedByService, PledgedByRequest, InFlight
    <2> QED BY <2>1, <2>2 DEF ConfirmationInv
  <1>2. CASE BootDone
    <2>1. UNCHANGED <<conf, open, done, shipped, pc, res, rpc, rres>>
      BY <1>2 DEF BootDone, rows, execution, requestVars
    <2>2. /\ PledgedByService => PledgedByService'
          /\ PledgedByRequest => PledgedByRequest'
          /\ \A r \in Requests : InFlight(r)' <=> InFlight(r)
      BY <2>1 DEF PledgedByService, PledgedByRequest, InFlight
    <2> QED BY <2>1, <2>2 DEF ConfirmationInv
  <1>3. ASSUME NEW kind \in Kinds, BootRecover(kind) PROVE ConfirmationInv'
    <2>1. /\ UNCHANGED <<shipped, pc, res, rpc, rres>> /\ pc = "idle"
          /\ \A r \in Requests : rpc[r] = "idle"
          /\ conf' \in {conf, "unknown"} /\ open' = open \ {kind}
          /\ done' = [k \in ConfirmKinds |->
                         IF k = kind THEN done[k] \cup {"unknown"} ELSE done[k]]
      BY <1>3 DEF BootRecover, PlaceInv, world, execution, requestVars
    <2>2. \A r \in Requests : ~InFlight(r) /\ ~InFlight(r)'
      BY <2>1 DEF InFlight
    <2>3. ASSUME shipped > 0, ~OnRecord' PROVE FALSE
      <3>1. \A k \in ConfirmKinds : done[k] \cap Doubtful = {} /\ k # kind
        BY <2>1, <2>3 DEF OnRecord, Doubtful
      <3>2. PledgedByService => PledgedByService'
        BY <2>1, <3>1 DEF PledgedByService, ConfirmKinds
      <3>3. PledgedByRequest => PledgedByRequest'
        BY <2>1, <3>1 DEF PledgedByRequest, ConfirmKinds
      <3> QED BY <2>3, <3>1, <3>2, <3>3 DEF ConfirmationInv, OnRecord
    <2> QED BY <2>1, <2>2, <2>3 DEF ConfirmationInv, OnRecord
  <1> QED BY <1>1, <1>2, <1>3

-----------------------------------------------------------------------------
(* The invariant *)

LEMMA Initially == Init => FInv
  <1>1. SUFFICES ASSUME Init PROVE FInv
    OBVIOUS
  <1>2. Received = {}
    <2>1. DOMAIN got = {}
      BY <1>1, EmptySeq DEF Init
    <2> QED BY <2>1 DEF Received
  <1>3. MessagesInv
    BY <1>1, <1>2 DEF Init, MessagesInv, Sending
  <1>4. ConfirmationInv
    BY <1>1 DEF Init, ConfirmationInv, InFlight
  <1> QED BY <1>1, <1>3, <1>4, PlaceInitially DEF FInv

LEMMA Inductive == FInv /\ [Next]_vars => FInv'
  <1>1. SUFFICES ASSUME PlaceInv, MessagesInv, ConfirmationInv, [Next]_vars PROVE FInv'
    BY DEF FInv
  <1>2. CASE \/ Prepare \/ Mark \/ Skip \/ InsertProof \/ AllSent \/ FinishAttempt
             \/ \E b \in BOOLEAN : ReadProofs(b) \/ Send(b) \/ RecordContent(b)
             \/ \E r \in Replies : Answer(r)
    <2>1. PlaceInv' /\ ConfirmationInv'
      BY <1>1, <1>2, PlaceInMessages, DispatchConfirmsNothing
    <2>2. MessagesInv'
      BY <1>1, <1>2, MessagesBegin, MessagesGoOn, MessagesEnd
    <2> QED BY <2>1, <2>2 DEF FInv
  <1>3. CASE \/ ConfirmPrepare \/ ConfirmPending \/ ConfirmDispatching
             \/ \E b \in BOOLEAN : ConfirmCall(b)
             \/ \E r \in Confirmations : ConfirmAnswer(r)
             \/ ConfirmFinish \/ ConfirmRecord
    BY <1>1, <1>3, PlaceInConfirmation, MessagesRest, ServiceConfirms DEF FInv
  <1>4. ASSUME NEW r \in Requests, Confirm(r) PROVE FInv'
    BY <1>1, <1>4, PlaceInRequest, MessagesRest, RequestConfirms DEF FInv
  <1>5. CASE Crash \/ (\E kind \in Kinds : BootRecover(kind)) \/ BootDone
    BY <1>1, <1>5, PlaceInRestart, MessagesRest, RestartConfirmsNothing DEF FInv
  <1>6. CASE UNCHANGED vars
    <2>1. /\ UNCHANGED <<content, conf, open, done, proofs, phase, crashes, got, shipped>>
          /\ UNCHANGED <<pc, next, known, sent, res, rpc, rres, same>>
      BY <1>6 DEF vars, rows, world, execution, requestVars
    <2>2. PlaceInv'
      BY <1>1, <2>1 DEF PlaceInv, FulfilmentTypeOK
    <2>3. MessagesInv'
      BY <1>1, <2>1, MessagesStay DEF execution
    <2>4. ConfirmationInv'
      <3>1. /\ PledgedByService => PledgedByService'
            /\ PledgedByRequest => PledgedByRequest'
            /\ \A r \in Requests : InFlight(r)' <=> InFlight(r)
        BY <2>1 DEF PledgedByService, PledgedByRequest, InFlight
      <3> QED BY <1>1, <2>1, <3>1 DEF ConfirmationInv
    <2> QED BY <2>2, <2>3, <2>4 DEF FInv
  <1> QED BY <1>1, <1>2, <1>3, <1>4, <1>5, <1>6 DEF Next, Execute

LEMMA Invariance == Spec => []FInv
  BY Initially, Inductive, PTL DEF Spec

-----------------------------------------------------------------------------
(* The theorems *)

\* The values of every variable stay in their domains, and an execution never
\* leaves the template.
THEOREM FulfilmentTypeCorrect == Spec => []FulfilmentTypeOK
  <1>1. FInv => FulfilmentTypeOK
    BY DEF FInv, PlaceInv
  <1> QED BY <1>1, Invariance, PTL

\* Between executions delivery_proofs holds exactly the messages the buyer has,
\* unless the row says "unknown": what dispatch_messages skips on a retry is
\* what has arrived.
THEOREM ProofsAreTheMessages == Spec => []ProofsAreComplete
  <1>1. FInv => ProofsAreComplete
    BY DEF FInv, MessagesInv, Sending, ProofsAreComplete
  <1> QED BY <1>1, Invariance, PTL

\* However many executions it took, with however many crashes between them: a
\* row goes to "accepted" only with the whole template at the buyer.
THEOREM AcceptedIsWhole == Spec => []AcceptedIsComplete
  <1>1. FInv => AcceptedIsComplete
    BY DEF FInv, MessagesInv, AcceptedIsComplete
  <1> QED BY <1>1, Invariance, PTL

\* Neither the service nor an administrator, with results that cross, records a
\* confirmation of a shipment that the platform never took.
THEOREM ConfirmationIsTrue == Spec => []ConfirmedIsTrue
  <1>1. FInv => ConfirmedIsTrue
    BY DEF FInv, ConfirmationInv, ConfirmedIsTrue
  <1> QED BY <1>1, Invariance, PTL

\* A confirmation the platform took is on record in an attempt, as accepted or
\* as unknown, or its attempt is still open for the recovery to find.
THEOREM ShipmentIsRecorded == Spec => []ShippedIsRecorded
  <1>1. FInv => ShippedIsRecorded
    BY DEF FInv, ConfirmationInv, PledgedByService, PledgedByRequest, Doubtful, ConfirmKinds,
           ShippedIsRecorded
  <1> QED BY <1>1, Invariance, PTL
-----------------------------------------------------------------------------
(* The order of the messages *)

\* What the buyer has are places of the template, in order, none after the h-th;
\* and of the places up to the h-th he has every message.
Laid(h) ==
    /\ \E f \in [DOMAIN got -> 1..Len(Template)] :
           /\ \A i, j \in DOMAIN got : i < j => f[i] < f[j]
           /\ \A i \in DOMAIN got : got[i] = Template[f[i]] /\ f[i] <= h
    /\ \A i \in 1..Len(Template) : i <= h => Template[i] \in Received

\* An execution sends nothing before it is past that place.
Behind(h) ==
    /\ pc \in {"loop", "missed"} =>
           h < next \/ \A i \in 1..Len(Template) : i <= h => Template[i] \in known
    /\ pc \in {"reached", "proof"} => h <= next

OrderInv == \E h \in 0..Len(Template) : Laid(h) /\ Behind(h)

\* The steps that send nothing.
LEMMA NothingMore ==
    ASSUME FInv, OrderInv, got' = got,
           \/ Skip \/ InsertProof
           \/ \E cancelled \in BOOLEAN : ReadProofs(cancelled)
           \/ \E r \in Replies : Answer(r)
           \/ pc' \notin {"loop", "missed", "reached", "proof"}
           \/ UNCHANGED <<pc, next, known>>
    PROVE  OrderInv'
  <1>1. PICK h \in 0..Len(Template) : Laid(h) /\ Behind(h)
    BY DEF OrderInv
  <1>2. Laid(h)'
    BY <1>1 DEF Laid, Received
  <1>3. /\ Len(Template) \in Nat /\ next \in Nat
        /\ \A i \in 1..Len(Template) : i <= h => Template[i] \in Received
    BY <1>1, Places DEF FInv, PlaceInv, FulfilmentTypeOK, Laid
  <1>4. ASSUME Skip PROVE Behind(h)'
    BY <1>1, <1>3, <1>4 DEF Skip, Behind
  <1>5. ASSUME InsertProof PROVE Behind(h)'
    BY <1>1, <1>3, <1>5 DEF InsertProof, Goto, Behind
  <1>6. ASSUME \E cancelled \in BOOLEAN : ReadProofs(cancelled) PROVE Behind(h)'
    BY <1>1, <1>3, <1>6 DEF ReadProofs, Goto, Known, Behind, FInv, MessagesInv
  <1>7. ASSUME NEW r \in Replies, Answer(r) PROVE Behind(h)'
    BY <1>1, <1>7 DEF Answer, Consistent, Goto, Return, execution, Behind
  <1>8. ASSUME pc' \notin {"loop", "missed", "reached", "proof"} \/ UNCHANGED <<pc, next, known>>
        PROVE  Behind(h)'
    BY <1>1, <1>8 DEF Behind
  <1>9. Behind(h)'
    BY <1>4, <1>5, <1>6, <1>7, <1>8
  <1> QED BY <1>2, <1>9 DEF OrderInv

\* A message that is sent is past all that the buyer has, and those left out
\* before it have a proof.
LEMMA OneMoreInOrder ==
    ASSUME FInv, OrderInv, NEW reaches \in BOOLEAN, Send(reaches)
    PROVE  OrderInv'
  <1>1. PICK h \in 0..Len(Template) : Laid(h) /\ Behind(h)
    BY DEF OrderInv
  <1>2. /\ FulfilmentTypeOK /\ Len(Template) \in Nat /\ next \in 1..Len(Template)
        /\ Template[next] \in Digests /\ Template[next] \notin known /\ pc = "loop"
    BY Places DEF FInv, PlaceInv, FulfilmentTypeOK, Send, AtEnd
  <1>3. h < next
    BY <1>1, <1>2 DEF Behind
  <1>4. CASE ~reaches
    <2>1. UNCHANGED <<got, next, known>> /\ pc' = "missed"
      BY <1>4 DEF Send, Goto, execution
    <2>2. Laid(h)' /\ Behind(h)'
      BY <1>1, <1>3, <2>1 DEF Laid, Received, Behind
    <2> QED BY <2>2 DEF OrderInv
  <1>5. CASE reaches
    <2>1. /\ got' = Append(got, Template[next]) /\ pc' = "reached" /\ next' = next
          /\ got \in Seq(Digests)
      BY <1>2, <1>5 DEF Send, Goto, execution, FulfilmentTypeOK
    <2>2. Received' = Received \cup {Template[next]}
      BY <1>2, <2>1, OneMore
    <2>3. /\ Len(got) \in Nat /\ DOMAIN got = 1..Len(got) /\ DOMAIN got' = 1..(Len(got) + 1)
          /\ \A i \in 1..Len(got) : got'[i] = got[i]
          /\ got'[Len(got) + 1] = Template[next]
      BY <1>2, <2>1, AppendProperties, LenProperties
    <2>4. PICK f \in [DOMAIN got -> 1..Len(Template)] :
              /\ \A i, j \in DOMAIN got : i < j => f[i] < f[j]
              /\ \A i \in DOMAIN got : got[i] = Template[f[i]] /\ f[i] <= h
      BY <1>1 DEF Laid
    <2> DEFINE g == [i \in DOMAIN got' |-> IF i = Len(got) + 1 THEN next ELSE f[i]]
    <2>5. g \in [DOMAIN got' -> 1..Len(Template)]
      BY <1>2, <2>3, <2>4
    <2>6. \A i, j \in DOMAIN got' : i < j => g[i] < g[j]
      <3>1. TAKE i, j \in DOMAIN got'
      <3>2. HAVE i < j
      <3>3. i \in DOMAIN got /\ g[i] = f[i] /\ f[i] <= h
        BY <2>3, <2>4, <3>2
      <3>4. CASE j = Len(got) + 1
        BY <1>2, <1>3, <2>4, <3>3, <3>4
      <3>5. CASE j \in DOMAIN got
        <4>1. g[j] = f[j]
          BY <2>3, <3>5
        <4> QED BY <2>4, <3>2, <3>3, <3>5, <4>1
      <3> QED BY <2>3, <3>4, <3>5
    <2>7. \A i \in DOMAIN got' : got'[i] = Template[g[i]] /\ g[i] <= next
      <3>1. TAKE i \in DOMAIN got'
      <3>2. CASE i = Len(got) + 1
        BY <1>2, <2>3, <3>2
      <3>3. CASE i \in DOMAIN got
        <4>1. g[i] = f[i] /\ got'[i] = got[i] /\ f[i] \in 1..Len(Template)
          BY <2>3, <2>4, <3>3
        <4> QED BY <1>2, <1>3, <2>4, <3>3, <4>1
      <3> QED BY <2>3, <3>2, <3>3
    <2>8. \A i \in 1..Len(Template) : i <= next => Template[i] \in Received'
      BY <1>2, <2>2 DEF FInv, MessagesInv
    <2>9. Laid(next)'
      BY <2>1, <2>5, <2>6, <2>7, <2>8 DEF Laid
    <2>10. Behind(next)'
      BY <1>2, <2>1 DEF Behind
    <2> QED BY <1>2, <2>1, <2>9, <2>10 DEF OrderInv
  <1> QED BY <1>4, <1>5

LEMMA OrderStep == FInv /\ OrderInv /\ [Next]_vars => OrderInv'
  <1>1. SUFFICES ASSUME FInv, OrderInv, [Next]_vars PROVE OrderInv'
    OBVIOUS
  <1>2. CASE \E reaches \in BOOLEAN : Send(reaches)
    BY <1>1, <1>2, OneMoreInOrder
  <1>3. CASE Skip \/ InsertProof \/ (\E b \in BOOLEAN : ReadProofs(b)) \/ \E r \in Replies : Answer(r)
    <2>1. got' = got
      BY <1>3 DEF Skip, InsertProof, ReadProofs, Answer, world
    <2> QED BY <1>1, <1>3, <2>1, NothingMore
  <1>4. CASE \/ Prepare \/ Mark \/ AllSent \/ FinishAttempt
             \/ \E b \in BOOLEAN : RecordContent(b) \/ ConfirmCall(b)
             \/ ConfirmPrepare \/ ConfirmPending \/ ConfirmDispatching
             \/ \E r \in Confirmations : ConfirmAnswer(r)
             \/ ConfirmFinish \/ ConfirmRecord \/ Crash
    <2>1. got' = got /\ pc' \notin {"loop", "missed", "reached", "proof"}
      BY <1>4 DEF Prepare, Mark, AllSent, FinishAttempt, RecordContent, ConfirmCall,
                  ConfirmPrepare, ConfirmPending, ConfirmDispatching, ConfirmAnswer,
                  ConfirmFinish, ConfirmRecord, SetConfirmation, Crash, Goto, Return, world
    <2> QED BY <1>1, <2>1, NothingMore
  <1>5. CASE \/ \E r \in Requests : Confirm(r)
             \/ \E kind \in Kinds : BootRecover(kind)
             \/ BootDone \/ UNCHANGED vars
    <2>1. UNCHANGED <<got, pc, next, known>>
      BY <1>5 DEF Confirm, BeginConfirm, ManualPrepare, ManualCall, ManualAnswer, ManualFinish,
                  ManualRecord, BootRecover, BootDone, vars, world, execution
    <2> QED BY <1>1, <2>1, NothingMore
  <1> QED BY <1>1, <1>2, <1>3, <1>4, <1>5 DEF Next, Execute

\* Whatever the template, with equal messages in it or none: retries that skip
\* by digest neither repeat a message nor send one after a later one.
THEOREM MessagesComeInOrder == Spec => []SentInOrder
  <1>1. Init => OrderInv
    <2>1. SUFFICES ASSUME Init PROVE OrderInv
      OBVIOUS
    <2>2. DOMAIN got = {} /\ pc = "idle" /\ Len(Template) \in Nat
      BY <2>1, EmptySeq, Places DEF Init
    <2>3. Laid(0)
      <3> DEFINE f == [i \in DOMAIN got |-> 1]
      <3>1. f \in [DOMAIN got -> 1..Len(Template)]
        BY <2>2
      <3>2. /\ \A i, j \in DOMAIN got : i < j => f[i] < f[j]
            /\ \A i \in DOMAIN got : got[i] = Template[f[i]] /\ f[i] <= 0
        BY <2>2
      <3>3. \A i \in 1..Len(Template) : ~(i <= 0)
        BY <2>2
      <3> HIDE DEF f
      <3> QED BY <3>1, <3>2, <3>3 DEF Laid
    <2> QED BY <2>2, <2>3 DEF OrderInv, Behind
  <1>2. OrderInv => SentInOrder
    BY Places DEF OrderInv, Laid, SentInOrder
  <1> QED BY <1>1, <1>2, OrderStep, Invariance, PTL DEF Spec
=============================================================================

-------------------------------- MODULE Chat --------------------------------
(***************************************************************************)
(* One buyer's conversation, src/src/application/chat/mod.rs over          *)
(* repos/chat.rs: the messages dispatch_loop takes in and has answered     *)
(* (module Replies has the stages of an answer), the messages an           *)
(* administrator sends and sends again, the unread count, the deletion of  *)
(* the conversation, and beside it the list of quick replies.              *)
(*                                                                         *)
(* An outgoing row carries what it says: the message it answers, or the    *)
(* row that said it first.                                                 *)
(***************************************************************************)
EXTENDS Naturals, FiniteSets

CONSTANTS
    Spoken,       \* messages of the buyer that count as unread
    Notices,      \* system messages and item cards, which do not
    Outgoing,     \* rows with direction 'out'
    NoMessage,
    Adders,       \* requests that may add a quick reply at once
    MaxQuick      \* MAX_QUICK_REPLIES

Messages == Spoken \cup Notices

ASSUME ChatAssumption ==
    /\ NoMessage \notin Messages \cup Outgoing
    /\ Messages \cap Outgoing = {} /\ Spoken \cap Notices = {}
    /\ IsFiniteSet(Spoken) /\ IsFiniteSet(Adders)
    /\ MaxQuick \in Nat \ {0}

VARIABLES
    conv,         \* the row of conversations: "none", "shown", "hidden"
    unread,       \* its unread_count
    inbox,        \* per message of the buyer: its row, and whether it is read
    due,          \* the message dispatch_loop is getting answered
    out,          \* per outgoing row: its status, or "none", "deleted"
    says,         \* per outgoing row: what it says
    send,         \* per outgoing row: where the send that made it is
    buyerHas,     \* rows whose frame the platform took
    cut,          \* rows whose session ended with the frame on its way
    forgotten,    \* messages whose row went with its conversation
    quick,        \* how many quick replies there are
    adding        \* requests that have passed the check of the cap

talkVars == <<conv, unread, inbox, due, out, says, send, buyerHas, cut, forgotten>>
quickVars == <<quick, adding>>
chatVars == <<talkVars, quickVars>>

Status == {"sending", "sent", "failed", "uncertain"}

ChatTypeOK ==
    /\ conv \in {"none", "shown", "hidden"}
    /\ unread \in 0..Cardinality(Spoken)
    /\ inbox \in [Messages -> {"none", "unread", "read"}]
    /\ due \in Messages \cup {NoMessage}
    /\ out \in [Outgoing -> Status \cup {"none", "deleted"}]
    /\ says \in [Outgoing -> Messages \cup Outgoing \cup {NoMessage}]
    /\ send \in [Outgoing -> {"idle", "insert", "wire", "accepted", "refused", "error",
                              "unknown", "ended", "lost"}]
    /\ buyerHas \subseteq Outgoing /\ cut \subseteq Outgoing
    /\ forgotten \subseteq Messages
    /\ quick \in Nat /\ adding \subseteq Adders

ChatInit ==
    /\ conv = "none" /\ unread = 0 /\ due = NoMessage
    /\ inbox = [m \in Messages |-> "none"]
    /\ out = [x \in Outgoing |-> "none"]
    /\ says = [x \in Outgoing |-> NoMessage]
    /\ send = [x \in Outgoing |-> "idle"]
    /\ buyerHas = {} /\ cut = {} /\ forgotten = {}
    /\ quick = 0 /\ adding = {}

Unused(x) == send[x] = "idle" /\ out[x] = "none"

-----------------------------------------------------------------------------
(* ingest *)

\* unread_after.
Counted(m) == IF m \in Spoken THEN unread + 1 ELSE unread

\* One closure.  A message with a row is not taken again, wherever the row
\* stands; a hidden conversation stays hidden.  A text that is not blank is to
\* be answered.
Ingest(m) ==
    /\ due = NoMessage
    /\ conv' = IF conv = "none" THEN "shown" ELSE conv
    /\ IF inbox[m] # "none" THEN UNCHANGED <<inbox, unread, due>>
       ELSE /\ inbox' = [inbox EXCEPT ![m] = "unread"]
            /\ unread' = Counted(m)
            /\ due' \in IF m \in Spoken THEN {m, NoMessage} ELSE {NoMessage}
    /\ UNCHANGED <<out, says, send, buyerHas, cut, forgotten, quickVars>>

\* resolve_and_send sent nothing, or failed.
Unanswered ==
    /\ due # NoMessage /\ due' = NoMessage
    /\ UNCHANGED <<conv, unread, inbox, out, says, send, buyerHas, cut, forgotten,
                   quickVars>>

\* record_reply_outgoing: its row, of an answer accepted or not known of.
Answered(x, as) ==
    /\ due # NoMessage /\ due' = NoMessage /\ Unused(x)
    /\ out' = [out EXCEPT ![x] = as]
    /\ says' = [says EXCEPT ![x] = due]
    /\ send' = [send EXCEPT ![x] = "ended"]
    /\ buyerHas' \in IF as = "sent" THEN {buyerHas \cup {x}} ELSE {buyerHas, buyerHas \cup {x}}
    /\ UNCHANGED <<conv, unread, inbox, cut, forgotten, quickVars>>

-----------------------------------------------------------------------------
(* send_outgoing *)

WriteSending(x, what) ==
    /\ Unused(x) /\ conv = "shown"
    /\ says' = [says EXCEPT ![x] = what]
    /\ send' = [send EXCEPT ![x] = "insert"]
    /\ UNCHANGED <<conv, unread, inbox, due, out, buyerHas, cut, forgotten, quickVars>>

SendText(x) == WriteSending(x, x)

\* retry_guard.  (Mutant: what is not known may be sent again too.)
RetryAny(x) == out[x] \in {"failed", "uncertain"}
MayRetry(x) == out[x] = "failed"

\* The old row stays as it is.
SendAgain(x, y) == MayRetry(x) /\ WriteSending(y, says[x])

\* The row is there before the frame is.
Insert(x) ==
    /\ send[x] = "insert"
    /\ send' = [send EXCEPT ![x] = "wire"]
    /\ out' = [out EXCEPT ![x] = "sending"]
    /\ UNCHANGED <<conv, unread, inbox, due, says, buyerHas, cut, forgotten, quickVars>>

\* What comes of the frame, and what is heard of it within 15 seconds.  A
\* session that ends with it on its way is an Err(NetworkUnavailable).
OnTheWire(x, heard) ==
    /\ send[x] = "wire"
    /\ send' = [send EXCEPT ![x] = heard]
    /\ CASE heard = "accepted" -> buyerHas' = buyerHas \cup {x} /\ UNCHANGED cut
         [] heard = "refused" -> UNCHANGED <<buyerHas, cut>>
         [] heard = "unknown" -> buyerHas' \in {buyerHas, buyerHas \cup {x}} /\ UNCHANGED cut
         [] heard = "error" -> \/ UNCHANGED <<buyerHas, cut>>
                               \/ buyerHas' = buyerHas \cup {x} /\ cut' = cut \cup {x}
    /\ UNCHANGED <<conv, unread, inbox, due, out, says, forgotten, quickVars>>

StatusOf == [accepted |-> "sent", refused |-> "failed", error |-> "failed",
             unknown |-> "uncertain"]

\* update_outgoing_result, by the id: a row that is gone stays gone.
Written(x) == [out EXCEPT ![x] = IF @ = "deleted" THEN @ ELSE StatusOf[send[x]]]

RecordSent(x) ==
    /\ send[x] \in DOMAIN StatusOf
    /\ out' = Written(x)
    /\ send' = [send EXCEPT ![x] = "ended"]
    /\ UNCHANGED <<conv, unread, inbox, due, says, buyerHas, cut, forgotten, quickVars>>

-----------------------------------------------------------------------------
(* mark_conversation_read, hide_conversation *)

MarkRead ==
    /\ conv # "none"
    /\ inbox' = [m \in Messages |-> IF inbox[m] = "unread" THEN "read" ELSE inbox[m]]
    /\ unread' = 0
    /\ UNCHANGED <<conv, due, out, says, send, buyerHas, cut, forgotten, quickVars>>

\* The messages go, and with them what tells a repeated one.
DeleteConversation ==
    /\ conv # "none" /\ conv' = "hidden" /\ unread' = 0
    /\ forgotten' = forgotten \cup {m \in Messages : inbox[m] # "none"}
    /\ inbox' = [m \in Messages |-> "none"]
    /\ out' = [x \in Outgoing |-> IF out[x] = "none" THEN "none" ELSE "deleted"]
    /\ UNCHANGED <<due, says, send, buyerHas, cut, quickVars>>

\* The process ends: nothing is taken up again.
ChatCrash ==
    /\ due' = NoMessage
    /\ send' = [x \in Outgoing |-> IF send[x] \in {"idle", "ended"} THEN send[x] ELSE "lost"]
    /\ buyerHas' \in {buyerHas, buyerHas \cup {x \in Outgoing : send[x] = "wire"}}
    /\ UNCHANGED <<conv, unread, inbox, out, says, cut, forgotten, quickVars>>

TalkNext ==
    \/ \E m \in Messages : Ingest(m)
    \/ Unanswered
    \/ \E x \in Outgoing :
           \/ \E as \in {"sent", "uncertain"} : Answered(x, as)
           \/ SendText(x) \/ Insert(x) \/ RecordSent(x)
           \/ \E heard \in DOMAIN StatusOf : OnTheWire(x, heard)
           \/ \E y \in Outgoing : SendAgain(x, y)
    \/ MarkRead \/ DeleteConversation \/ ChatCrash

-----------------------------------------------------------------------------
(* add_quick_reply: the count, then the row, in two calls *)

CheckCap(a) ==
    /\ a \notin adding /\ quick < MaxQuick
    /\ adding' = adding \cup {a}
    /\ UNCHANGED <<talkVars, quick>>

InsertQuick(a) ==
    /\ a \in adding
    /\ quick' = quick + 1 /\ adding' = adding \ {a}
    /\ UNCHANGED talkVars

DeleteQuick ==
    /\ quick > 0 /\ quick' = quick - 1
    /\ UNCHANGED <<talkVars, adding>>

QuickNext ==
    \/ \E a \in Adders : CheckCap(a) \/ InsertQuick(a)
    \/ DeleteQuick

ChatNext == TalkNext \/ QuickNext

ChatSpec == ChatInit /\ [][ChatNext]_chatVars

-----------------------------------------------------------------------------
(* Properties *)

\* Whatever came, was read or was deleted between: the unread count is the
\* number of the buyer's messages that are there and have not been read.
UnreadIsTrue == unread = Cardinality({m \in Spoken : inbox[m] = "unread"})

\* A message pushed twice is answered once, unless its row went in between.
AnsweredOnce ==
    \A m \in Messages \ forgotten, x, y \in Outgoing : says[x] = m /\ says[y] = m => x = y

\* "sent" is said of what the platform took, "failed" of what it did not, unless
\* the session ended with the frame on its way; "sending" stays only of a send
\* that runs or that a crash ended.
OutgoingIsTrue ==
    \A x \in Outgoing :
        /\ out[x] = "sent" => x \in buyerHas
        /\ out[x] = "failed" => x \notin buyerHas \/ x \in cut
        /\ out[x] = "sending" => send[x] \notin {"idle", "insert", "ended"}

\* What was sent again had not reached the buyer, unless the session ended
\* with it on its way.
SentAgainIsUnsent ==
    \A x, y \in Outgoing :
        x # y /\ says[x] = x /\ says[y] = x /\ x \in buyerHas => x \in cut

\* Concurrent requests pass the cap of the quick replies by one less than their
\* number, and no further.
QuickIsCapped == quick <= MaxQuick + Cardinality(Adders) - 1

ChatSafe ==
    /\ UnreadIsTrue /\ AnsweredOnce /\ OutgoingIsTrue /\ SentAgainIsUnsent
    /\ QuickIsCapped
=============================================================================

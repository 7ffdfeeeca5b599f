------------------------------- MODULE Notify -------------------------------
(***************************************************************************)
(* Notifications, src/src/application/notify/mod.rs over repos/notify.rs   *)
(* and adapters/notify/mod.rs: the channels an administrator keeps, those  *)
(* bound to one account, and one event at a time on its way to them, while *)
(* channels and bindings change.  The issue of an outcome nobody knows is  *)
(* followed for this account.                                              *)
(***************************************************************************)
EXTENDS Naturals, FiniteSets

CONSTANTS
    Channels,
    Emails      \* channels of the kind email, the others speak HTTP

ASSUME EmailsAssumption == Emails \subseteq Channels

VARIABLES
    shelf,      \* per channel its row: "none", "deaf", or it "hears" the event
                \* (is enabled and subscribed)
    bound,      \* channels bound to the account
    fanout,     \* the event: where it is, and whether it has an account
    at,         \* the channel being sent to, and what is heard of it
    rows,       \* per channel: its row in notification_deliveries for the event;
                \* due while it is still to be sent to, lost if it was not taken
    noticed,    \* channels that have the event
    unknowns,   \* channels with an open issue notify_unknown
    settled     \* channels whose issue was resolved, or not taken, since

eventVars == <<fanout, at, rows, noticed>>
issueVars == <<unknowns, settled>>
notifyVars == <<shelf, bound, eventVars, issueVars>>

Rows == {"deaf", "hears"}
States == {"accepted", "not_sent", "unknown"}
NoChannel == [to |-> {}, heard |-> "none"]

NotifyTypeOK ==
    /\ shelf \in [Channels -> Rows \cup {"none"}]
    /\ bound \subseteq Channels
    /\ fanout \in [pc : {"idle", "load", "send", "record", "issue"}, account : BOOLEAN]
    /\ at \in [to : {{}} \cup {{c} : c \in Channels}, heard : States \cup {"none"}]
    /\ rows \in [Channels -> States \cup {"none", "due", "lost"}]
    /\ noticed \subseteq Channels
    /\ unknowns \subseteq Channels /\ settled \subseteq Channels

NotifyInit ==
    /\ shelf = [c \in Channels |-> "none"] /\ bound = {}
    /\ fanout = [pc |-> "idle", account |-> FALSE] /\ at = NoChannel
    /\ rows = [c \in Channels |-> "none"] /\ noticed = {}
    /\ unknowns = {} /\ settled = {}

-----------------------------------------------------------------------------
(* The administrator *)

Exists(c) == shelf[c] # "none"

CreateChannel(c, row) ==
    /\ ~Exists(c)
    /\ shelf' = [shelf EXCEPT ![c] = row]
    /\ UNCHANGED <<bound, eventVars, issueVars>>

\* The draft is validated for the kind it names, and the row keeps its own: it
\* may not be fit to be sent to any more.  A draft of an old version changes
\* nothing.
UpdateChannel(c, row) ==
    /\ Exists(c)
    /\ shelf' = [shelf EXCEPT ![c] = row]
    /\ UNCHANGED <<bound, eventVars, issueVars>>

\* The bindings go with the channel (ON DELETE CASCADE).
DeleteChannel(c) ==
    /\ Exists(c)
    /\ shelf' = [shelf EXCEPT ![c] = "none"]
    /\ bound' = bound \ {c}
    /\ UNCHANGED <<eventVars, issueVars>>

\* (Mutant: nobody asks whether the channels exist.)
BindsAny(some) == TRUE
Binds(some) == \A c \in some : Exists(c)

\* The old bindings go, then the new ones come one by one.  A channel named
\* twice ends it where it is: what was written stays.
PutBindings(some) ==
    /\ Binds(some) /\ bound' = some
    /\ UNCHANGED <<shelf, eventVars, issueVars>>

ResolveUnknown(c) ==
    /\ c \in unknowns
    /\ unknowns' = unknowns \ {c} /\ settled' = settled \cup {c}
    /\ UNCHANGED <<shelf, bound, eventVars>>

-----------------------------------------------------------------------------
(* fanout *)

Dispatch(account) ==
    /\ fanout.pc = "idle"
    /\ fanout' = [pc |-> "load", account |-> account]
    /\ rows' = [c \in Channels |-> "none"] /\ noticed' = {} /\ settled' = {}
    /\ UNCHANGED <<shelf, bound, at, unknowns>>

Hearing == {c \in Channels : shelf[c] = "hears"}

\* One closure: the enabled channels, of these the bound ones if any is bound.
Candidates ==
    IF fanout.account /\ bound # {} THEN Hearing \cap bound ELSE Hearing

\* After a channel: the next, or the end.
Goes(pc) == fanout' = [fanout EXCEPT !.pc = pc]
GoesOn == Goes(IF \E c \in Channels : rows'[c] = "due" THEN "send" ELSE "idle")

Load ==
    /\ fanout.pc = "load"
    /\ rows' = [c \in Channels |-> IF c \in Candidates THEN "due" ELSE "none"]
    /\ GoesOn
    /\ UNCHANGED <<shelf, bound, at, noticed, issueVars>>

\* What is heard of a request that arrives, or does not.  2xx and 250 are
\* accepted, whatever the body of a 2xx says; another answer is not_sent.  Of
\* HTTP no answer is unknown; of SMTP it depends on the words of the error.
\* (Mutant: no answer is not_sent.)
HeardAtOnce(c, arrives) == {"accepted", "not_sent"}
Heard(c, arrives) ==
    {"unknown"} \cup (IF arrives \/ c \notin Emails THEN {"accepted"} ELSE {})
                \cup (IF arrives /\ c \notin Emails THEN {} ELSE {"not_sent"})

\* The row is the one that was loaded; the SMTP settings are read only now.
SendNotice(c, arrives) ==
    /\ fanout.pc = "send" /\ at = NoChannel /\ rows[c] = "due"
    /\ \E heard \in Heard(c, arrives) : at' = [to |-> {c}, heard |-> heard]
    /\ noticed' = IF arrives THEN noticed \cup {c} ELSE noticed
    /\ Goes("record")
    /\ UNCHANGED <<shelf, bound, rows, issueVars>>

\* Local construction fails for a channel that did not fit when it was loaded,
\* or whose SMTP settings are gone.
CannotBuild(c) ==
    /\ fanout.pc = "send" /\ at = NoChannel /\ rows[c] = "due"
    /\ at' = [to |-> {c}, heard |-> "not_sent"]
    /\ Goes("record")
    /\ UNCHANGED <<shelf, bound, rows, noticed, issueVars>>

\* persist_delivery: an error is not looked at.  Only of an unknown outcome of
\* an event with an account there is an issue.
RecordDelivery(c) ==
    /\ fanout.pc = "record" /\ at.to = {c}
    /\ \E row \in {at.heard, "lost"} : rows' = [rows EXCEPT ![c] = row]
    /\ IF at.heard = "unknown" /\ fanout.account
       THEN Goes("issue") /\ UNCHANGED at
       ELSE GoesOn /\ at' = NoChannel
    /\ UNCHANGED <<shelf, bound, noticed, issueVars>>

\* issues::open finds an open one again.
OpenIssue(c) ==
    /\ fanout.pc = "issue" /\ at.to = {c}
    /\ \/ unknowns' = unknowns \cup {c} /\ UNCHANGED settled
       \/ settled' = settled \cup {c} /\ UNCHANGED unknowns
    /\ UNCHANGED rows /\ GoesOn /\ at' = NoChannel
    /\ UNCHANGED <<shelf, bound, noticed>>

\* Every event is a task of its own, and ends with the process.
NotifyCrash ==
    /\ fanout.pc # "idle"
    /\ Goes("idle") /\ at' = NoChannel
    /\ rows' = [c \in Channels |->
                    IF rows[c] = "due" THEN "lost" ELSE rows[c]]
    /\ settled' = IF fanout.pc = "issue" THEN settled \cup at.to ELSE settled
    /\ UNCHANGED <<shelf, bound, noticed, unknowns>>

NotifyNext ==
    \/ \E c \in Channels :
           \/ \E row \in Rows : CreateChannel(c, row) \/ UpdateChannel(c, row)
           \/ DeleteChannel(c) \/ ResolveUnknown(c)
           \/ CannotBuild(c) \/ RecordDelivery(c) \/ OpenIssue(c)
           \/ \E arrives \in BOOLEAN : SendNotice(c, arrives)
    \/ \E some \in SUBSET Channels : PutBindings(some)
    \/ \E account \in BOOLEAN : Dispatch(account)
    \/ Load \/ NotifyCrash

NotifySpec == NotifyInit /\ [][NotifyNext]_notifyVars

-----------------------------------------------------------------------------
(* Properties *)

\* No binding outlives its channel, and an account bound to nothing is bound to
\* all: so no event is lost to a channel that is gone.
BindingsHold == \A c \in bound : Exists(c)

\* What is recorded of a channel is true whatever is changed or deleted while
\* the event is on its way: "not_sent" did not arrive, but for e-mail, and what
\* nobody knows of an account's event has left an open issue, until somebody
\* resolved it.
OutcomeIsTrue ==
    \A c \in Channels :
        /\ rows[c] = "not_sent" /\ c \notin Emails => c \notin noticed
        /\ rows[c] = "unknown" /\ fanout.account /\ c \notin at.to
               => c \in unknowns \cup settled

NotifySafe == BindingsHold /\ OutcomeIsTrue
=============================================================================

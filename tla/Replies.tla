------------------------------- MODULE Replies -------------------------------
(***************************************************************************)
(* What the program says to a buyer of itself: the answer to one message,  *)
(* stage by stage (src/src/application/replies/mod.rs: a keyword rule, the *)
(* AI, the default reply), and the reminders to review one order           *)
(* (review_reminder.rs) under the rule that applies to it.  dispatch_loop  *)
(* gets one message answered after another, and the hourly task finishes a *)
(* scan before the next, so there is one round of each at a time.          *)
(*                                                                         *)
(* A send is heard of as `accepted`, `refused` (NotSubmitted or Rejected), *)
(* `unknown`, or `error`, an Err(PlatformError), which is taken for a      *)
(* refusal: also where the session ended, or 30 seconds passed, with the   *)
(* frame on its way.                                                       *)
(***************************************************************************)
EXTENDS Naturals, FiniteSets

CONSTANTS
    MaxReminders,  \* max_count of the rule
    MaxDefaults    \* bound: default replies followed until the log is cleared

ASSUME RepliesAssumption == MaxReminders \in Nat \ {0} /\ MaxDefaults \in Nat \ {0}

VARIABLES
    stage,     \* where the round of an answer is
    config,    \* the row of default_replies: enabled, reply_once
    once,      \* reply_once as the round has read it
    taken,     \* stages of the round whose frame the platform took
    unheard,   \* stages whose error came with the frame on its way
    logged,    \* whether default_reply_log has an 'accepted' of the buyer
    greeted,   \* accepted default replies since the log was cleared
    strict,    \* whether every one of these was sent under reply_once
    unlogged,  \* whether one of these could not be logged
    reminder,  \* the row of review_reminder_state; next is NULL, or has come
    waited,    \* whether wait_hours have passed since the content was accepted
    scanning,  \* where run_once is, and the row as it has read it
    resting,   \* a result was recorded, and its interval has not passed
    doubted,   \* a reminder may have been sent without being counted
    said       \* reminders heard to be accepted (bound: one more than the rule's)

replyVars == <<stage, config, once, taken, unheard, logged, greeted, strict, unlogged>>
remindVars == <<reminder, waited, scanning, resting, doubted, said>>
repliesVars == <<replyVars, remindVars>>

Outcomes == {"accepted", "refused", "unknown", "error"}
Stages == {"keyword", "ai", "default"}
Row == [count : 0..MaxReminders, next : {"null", "later", "past"}]

RepliesTypeOK ==
    /\ stage \in Stages \cup {"idle", "config", "once", "accepted", "unknown", "not_sent", "end"}
    /\ config \in [enabled : BOOLEAN, once : BOOLEAN] /\ once \in BOOLEAN
    /\ taken \subseteq Stages /\ unheard \subseteq Stages
    /\ logged \in BOOLEAN /\ strict \in BOOLEAN /\ unlogged \in BOOLEAN
    /\ greeted \in 0..MaxDefaults
    /\ reminder \in Row /\ waited \in BOOLEAN
    /\ scanning \in [pc : {"idle", "due"} \cup Outcomes, row : Row]
    /\ resting \in BOOLEAN /\ doubted \in BOOLEAN
    /\ said \in 0..(MaxReminders + 1)

NewRow == [count |-> 0, next |-> "null"]

RepliesInit ==
    /\ stage = "idle" /\ config = [enabled |-> FALSE, once |-> TRUE] /\ once = TRUE
    /\ taken = {} /\ unheard = {}
    /\ logged = FALSE /\ greeted = 0 /\ strict = TRUE /\ unlogged = FALSE
    /\ reminder = NewRow /\ waited = FALSE
    /\ scanning = [pc |-> "idle", row |-> NewRow]
    /\ resting = FALSE /\ doubted = FALSE /\ said = 0

-----------------------------------------------------------------------------
(* resolve_and_send *)

Resolve ==
    /\ stage = "idle" /\ stage' = "keyword" /\ taken' = {} /\ unheard' = {}
    /\ UNCHANGED <<config, once, logged, greeted, strict, unlogged, remindVars>>

Following(s) == IF s = "keyword" THEN "ai" ELSE "config"

\* No rule matches, its body is empty; the AI is off, fails or says nothing.
PassOn ==
    /\ stage \in {"keyword", "ai"} /\ stage' = Following(stage)
    /\ UNCHANGED <<config, once, taken, unheard, logged, greeted, strict, unlogged,
                   remindVars>>

\* What the platform does with the frame of a stage.
Sends(s, heard) ==
    \/ heard = "accepted" /\ taken' = taken \cup {s} /\ UNCHANGED unheard
    \/ heard = "refused" /\ UNCHANGED <<taken, unheard>>
    \/ heard = "unknown" /\ taken' \in {taken, taken \cup {s}} /\ UNCHANGED unheard
    \/ heard = "error" /\ UNCHANGED <<taken, unheard>>
    \/ heard = "error" /\ taken' = taken \cup {s} /\ unheard' = unheard \cup {s}

\* An answer that may have arrived ends the round.  (Mutant: only one that did.)
EndsAccepted(heard) == heard = "accepted"
Ends(heard) == heard \in {"accepted", "unknown"}

SendStage(heard) ==
    /\ stage \in {"keyword", "ai"}
    /\ Sends(stage, heard)
    /\ stage' = IF Ends(heard) THEN "end" ELSE Following(stage)
    /\ UNCHANGED <<config, once, logged, greeted, strict, unlogged, remindVars>>

ReadConfig ==
    /\ stage = "config"
    /\ stage' = IF ~config.enabled THEN "end" ELSE IF config.once THEN "once" ELSE "default"
    /\ once' = config.once
    /\ UNCHANGED <<config, taken, unheard, logged, greeted, strict, unlogged, remindVars>>

\* has_accepted_default_reply.
CheckOnce ==
    /\ stage = "once" /\ stage' = IF logged THEN "end" ELSE "default"
    /\ UNCHANGED <<config, once, taken, unheard, logged, greeted, strict, unlogged,
                   remindVars>>

SendDefault(heard) ==
    /\ stage = "default" /\ Sends("default", heard)
    /\ IF heard = "accepted"
       THEN greeted < MaxDefaults /\ greeted' = greeted + 1 /\ strict' = (strict /\ once)
       ELSE UNCHANGED <<greeted, strict>>
    /\ stage' = IF heard \in {"refused", "error"} THEN "not_sent" ELSE heard
    /\ UNCHANGED <<config, once, logged, unlogged, remindVars>>

\* append_default_log.  The table takes no 'not_sent', so that the round ends in
\* an error there, and the database may fail elsewhere.
LogDefault ==
    /\ stage \in {"accepted", "unknown", "not_sent"} /\ stage' = "end"
    /\ \/ stage = "accepted" /\ logged' = TRUE /\ UNCHANGED unlogged
       \/ stage = "accepted" /\ unlogged' = TRUE /\ UNCHANGED logged
       \/ stage # "accepted" /\ UNCHANGED <<logged, unlogged>>
    /\ UNCHANGED <<config, once, taken, unheard, greeted, strict, remindVars>>

EndRound ==
    /\ stage = "end" /\ stage' = "idle"
    /\ UNCHANGED <<config, once, taken, unheard, logged, greeted, strict, unlogged,
                   remindVars>>

PutDefault(row) ==
    /\ config' = row
    /\ UNCHANGED <<stage, once, taken, unheard, logged, greeted, strict, unlogged,
                   remindVars>>

\* clear_records; what is on its way is logged afterwards.
ClearRecords ==
    /\ logged' = FALSE /\ greeted' = 0 /\ strict' = TRUE
    /\ unlogged' = (stage = "accepted")
    /\ UNCHANGED <<stage, config, once, taken, unheard, remindVars>>

ReplyCrash ==
    /\ stage # "idle" /\ stage' = "idle"
    /\ unlogged' = (unlogged \/ stage = "accepted")
    /\ UNCHANGED <<config, once, taken, unheard, logged, greeted, strict, remindVars>>

ReplyNext ==
    \/ Resolve \/ PassOn \/ ReadConfig \/ CheckOnce \/ LogDefault \/ EndRound
    \/ \E heard \in Outcomes : SendStage(heard) \/ SendDefault(heard)
    \/ \E row \in [enabled : BOOLEAN, once : BOOLEAN] : PutDefault(row)
    \/ ClearRecords \/ ReplyCrash

-----------------------------------------------------------------------------
(* run_once *)

\* NULL is read as: no row yet.
IsDue(row) ==
    /\ row.next = "past" \/ (row.next = "null" /\ waited)
    /\ row.count < MaxReminders

\* The account's task runs and is online, the buyer is known.
LoadCandidate ==
    /\ scanning.pc = "idle" /\ IsDue(reminder)
    /\ scanning' = [pc |-> "due", row |-> reminder]
    /\ UNCHANGED <<reminder, waited, resting, doubted, said, replyVars>>

SendReminder(heard) ==
    /\ scanning.pc = "due" /\ scanning' = [scanning EXCEPT !.pc = heard]
    /\ \/ heard = "accepted" /\ said' = said + 1 /\ UNCHANGED doubted
       \/ heard = "refused" /\ UNCHANGED <<said, doubted>>
       \/ heard \in {"unknown", "error"} /\ UNCHANGED said
          /\ doubted' \in {doubted, TRUE}
    /\ said' <= MaxReminders + 1
    /\ UNCHANGED <<reminder, waited, resting, replyVars>>

Advanced(row, heard) ==
    IF heard = "accepted"
    THEN [count |-> row.count + 1,
          next |-> IF row.count + 1 >= MaxReminders THEN "null" ELSE "later"]
    ELSE [row EXCEPT !.next = IF heard = "unknown" THEN "null" ELSE "later"]

Advance ==
    /\ scanning.pc \in Outcomes
    /\ reminder' = Advanced(scanning.row, scanning.pc)
    /\ resting' = (scanning.pc # "unknown")
    /\ scanning' = [pc |-> "idle", row |-> NewRow]
    /\ UNCHANGED <<waited, doubted, said, replyVars>>

\* A row that cannot be written ends the whole scan; so does a crash.
ScanLost ==
    /\ scanning.pc # "idle"
    /\ doubted' = (doubted \/ scanning.pc = "accepted")
    /\ scanning' = [pc |-> "idle", row |-> NewRow]
    /\ UNCHANGED <<reminder, waited, resting, said, replyVars>>

WaitPasses ==
    /\ ~waited /\ waited' = TRUE
    /\ UNCHANGED <<reminder, scanning, resting, doubted, said, replyVars>>

\* A later write to the delivery moves the time of its acceptance on.
DeliveryTouched ==
    /\ waited /\ waited' = FALSE
    /\ UNCHANGED <<reminder, scanning, resting, doubted, said, replyVars>>

IntervalPasses ==
    /\ scanning.pc = "idle" /\ resting
    /\ resting' = FALSE
    /\ reminder' = [reminder EXCEPT !.next = IF @ = "later" THEN "past" ELSE @]
    /\ UNCHANGED <<waited, scanning, doubted, said, replyVars>>

RemindNext ==
    \/ LoadCandidate \/ Advance \/ ScanLost
    \/ \E heard \in Outcomes : SendReminder(heard)
    \/ WaitPasses \/ DeliveryTouched \/ IntervalPasses

RepliesNext == ReplyNext \/ RemindNext

RepliesSpec == RepliesInit /\ [][RepliesNext]_repliesVars

-----------------------------------------------------------------------------
(* Properties *)

\* One message is answered by one stage, also when nothing is known of what was
\* sent, unless a stage's error came with its frame on its way.
OneAnswer == \A s, r \in taken : s # r => {s, r} \cap unheard # {}

\* Under reply_once a buyer is given the default reply once until the records
\* are cleared, unless that it was could not be recorded.
DefaultOnce == strict /\ ~unlogged => greeted <= 1

\* No reminder is sent before the interval since the last known result has
\* passed; and as many were accepted as are counted, whatever was refused, unless
\* one was not heard of or not recorded.
RemindedAsPlanned ==
    /\ scanning.pc = "due" => ~resting
    /\ ~doubted => said = reminder.count + (IF scanning.pc = "accepted" THEN 1 ELSE 0)

RepliesSafe == OneAnswer /\ DefaultOnce /\ RemindedAsPlanned
=============================================================================

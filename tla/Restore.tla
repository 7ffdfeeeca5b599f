------------------------------ MODULE Restore ------------------------------
(***************************************************************************)
(* What becomes of the orders when a backup is restored                    *)
(* (application/backup/restore.rs), started on (main.rs), and reviewed     *)
(* order by order (transport/restore_api.rs).  The program the backup was  *)
(* taken from goes on after it, and may deliver what the backup still      *)
(* holds as undelivered.  restore_archive is a row of statements without a *)
(* transaction: it may be cut off after each, and the directory it leaves  *)
(* be started like a whole one.  Abstracted: the archive's encryption, the *)
(* administrator's sessions, the account (there is one).                   *)
(***************************************************************************)
EXTENDS Naturals

CONSTANT Sales

VARIABLES
    restoring,   \* how far the restore is
    over,        \* the restore has returned, or was cut off
    epoch,       \* installation.restore_epoch
    enabled,     \* accounts.runtime_enabled
    key,         \* data-key.bin of the directory
    signed,      \* the account has credentials this key opens
    serving,     \* the program runs on the directory
    content,     \* deliveries.content_state of the order, in the directory
    verdict,     \* restore_reviews.status of the order, or none
    reviewOnly,  \* the orders whose decision got no further than the review
    saidTaken,   \* those whose decision was answered as taken
    reached,     \* the orders whose buyer has the content
    again        \* those whose buyer the restored program sent it to again

decisionVars == <<verdict, reviewOnly, saidTaken>>
restoreVars == <<restoring, over, epoch, enabled, key, signed, serving, content,
                 decisionVars, reached, again>>

RestoreStages == <<"backed_up", "written", "marked", "paused", "reviewed", "keyed">>
Unfinished == {"pending_verification", "queued", "dispatching", "unknown"}
Contents == Unfinished \cup {"none", "not_sent", "accepted", "terminated"}
Decisions == {"received", "approved_not_sent", "terminated"}

RestoreTypeOK ==
    /\ restoring \in {RestoreStages[i] : i \in DOMAIN RestoreStages}
    /\ over \in BOOLEAN /\ epoch \in 0..1 /\ enabled \in BOOLEAN
    /\ key \in {"none", "new", "old"} /\ signed \in BOOLEAN /\ serving \in BOOLEAN
    /\ content \in [Sales -> Contents]
    /\ verdict \in [Sales -> {"none", "unresolved"} \cup Decisions]
    /\ reviewOnly \subseteq Sales /\ saidTaken \subseteq Sales
    /\ reached \subseteq Sales /\ again \subseteq Sales

\* The snapshot: what is accepted was sent, what was never tried was not.
RestoreInit ==
    /\ restoring = "backed_up" /\ over = FALSE
    /\ epoch = 0 /\ enabled = TRUE /\ key = "none" /\ signed = FALSE /\ serving = FALSE
    /\ content \in [Sales -> Contents \ {"terminated"}]
    /\ reached \in SUBSET {o \in Sales : content[o] \in {"accepted", "unknown", "dispatching"}}
    /\ \A o \in Sales : content[o] = "accepted" => o \in reached
    /\ verdict = [o \in Sales |-> "none"]
    /\ reviewOnly = {} /\ saidTaken = {} /\ again = {}

\* The original program goes on after the snapshot.
DeliverMeanwhile(o) ==
    /\ restoring = "backed_up" /\ o \notin reached
    /\ reached' = reached \cup {o}
    /\ UNCHANGED <<restoring, over, epoch, enabled, key, signed, serving, content, decisionVars, again>>

Reach(a, b) == ~over /\ restoring = a /\ restoring' = b

WriteDatabase ==
    /\ Reach("backed_up", "written")
    /\ UNCHANGED <<over, epoch, enabled, key, signed, serving, content, decisionVars, reached, again>>

MarkEpoch ==
    /\ Reach("written", "marked") /\ epoch' = epoch + 1
    /\ UNCHANGED <<over, enabled, key, signed, serving, content, decisionVars, reached, again>>

PauseAccounts ==
    /\ Reach("marked", "paused") /\ enabled' = FALSE
    /\ UNCHANGED <<over, epoch, key, signed, serving, content, decisionVars, reached, again>>

\* Mutant of Quarantined: what was queued was not sent.
QuarantinedIfTried(o) == content[o] \in {"dispatching", "unknown"}

\* The deliveries that get a review.  A not_sent one may be without, when it
\* needs none before (review_state).  (The second query, on the orders paid
\* since the snapshot, asks for a platform state no live order has.)
Quarantined(o) == content[o] \in Unfinished

OpenReviews ==
    /\ Reach("paused", "reviewed")
    /\ \E required \in SUBSET {o \in Sales : content[o] = "not_sent"} :
          verdict' = [o \in Sales |-> IF Quarantined(o) \/ o \in required
                                      THEN "unresolved" ELSE "none"]
    /\ UNCHANGED <<over, epoch, enabled, key, signed, serving, content, reviewOnly, saidTaken,
                   reached, again>>

WriteKey ==
    /\ Reach("reviewed", "keyed")
    /\ key' = "old" /\ signed' = TRUE /\ over' = TRUE
    /\ UNCHANGED <<epoch, enabled, serving, content, decisionVars, reached, again>>

\* An error or a crash of the restore; a second one finds main.db and refuses.
CutOff ==
    /\ ~over /\ restoring # "backed_up"
    /\ over' = TRUE
    /\ UNCHANGED <<restoring, epoch, enabled, key, signed, serving, content, decisionVars, reached, again>>

-----------------------------------------------------------------------------
\* The program is started: a directory without a key is given a new one; what
\* a crash interrupted is not known.
Serve ==
    /\ over /\ ~serving
    /\ serving' = TRUE
    /\ key' = IF key = "none" THEN "new" ELSE key
    /\ content' = [o \in Sales |-> IF content[o] = "dispatching" THEN "unknown" ELSE content[o]]
    /\ UNCHANGED <<restoring, over, epoch, enabled, signed, decisionVars, reached, again>>

\* A login by QR code stores credentials under the key there is.
SignIn ==
    /\ serving /\ ~signed /\ signed' = TRUE
    /\ UNCHANGED <<restoring, over, epoch, enabled, key, serving, content, decisionVars, reached, again>>

EnableAccount ==
    /\ serving /\ ~enabled /\ enabled' = TRUE
    /\ UNCHANGED <<restoring, over, epoch, key, signed, serving, content, decisionVars, reached, again>>

\* The automatic delivery: the epoch stops it, for every order.
DeliverRestored(o) ==
    /\ serving /\ signed /\ enabled /\ epoch = 0
    /\ content[o] \in {"none", "pending_verification", "queued", "not_sent"}
    /\ content' = [content EXCEPT ![o] = "accepted"]
    /\ reached' = reached \cup {o}
    /\ again' = again \cup ({o} \cap reached)
    /\ UNCHANGED <<restoring, over, epoch, enabled, key, signed, serving, decisionVars>>

\* decide: one closure of four statements without a transaction - the review,
\* the delivery, the guard, the record in manual_actions.  It ends with its
\* last, or an error or a crash ends it after any of them.
Decide(o, d, statements) ==
    /\ serving /\ verdict[o] = "unresolved"
    /\ verdict' = [verdict EXCEPT ![o] = d]
    /\ content' = IF statements = 1 THEN content
                  ELSE [content EXCEPT ![o] =
          CASE d = "received" /\ @ \in Unfinished \cup {"not_sent"} -> "accepted"
            [] d = "terminated" /\ @ # "accepted" -> "terminated"
            [] OTHER -> @]
    /\ reviewOnly' = IF statements = 1 THEN reviewOnly \cup {o} ELSE reviewOnly
    /\ saidTaken' = IF statements = 4 THEN saidTaken \cup {o} ELSE saidTaken
    /\ UNCHANGED <<restoring, over, epoch, enabled, key, signed, serving, reached, again>>

\* What is decided is answered as taken, and looked at no further.
DecideAgain(o) ==
    /\ serving /\ verdict[o] \in Decisions
    /\ saidTaken' = saidTaken \cup {o}
    /\ UNCHANGED <<restoring, over, epoch, enabled, key, signed, serving, content,
                   verdict, reviewOnly, reached, again>>

RestoreNext ==
    \/ WriteDatabase \/ MarkEpoch \/ PauseAccounts \/ OpenReviews \/ WriteKey \/ CutOff
    \/ Serve \/ SignIn \/ EnableAccount
    \/ \E o \in Sales : DeliverMeanwhile(o) \/ DeliverRestored(o) \/ DecideAgain(o)
    \/ \E o \in Sales, d \in Decisions, n \in 1..4 : Decide(o, d, n)

RestoreSpec == RestoreInit /\ [][RestoreNext]_restoreVars

-----------------------------------------------------------------------------
\* The restored program sends nobody on its own what he already has - unless
\* the restore was cut off between the copy of the database and its first
\* statement: the copy then is a database like any other.
NothingSentAgain == again # {} => restoring = "written"

\* A restore that has come to its end has left a review for every delivery that
\* may have been made without the database saying so, and the account paused:
\* also those that were only queued when the backup was taken.
WhatMayBeSentIsReviewed ==
    restoring = "keyed" =>
        \A o \in Sales :
            o \in reached /\ content[o] \in Unfinished => verdict[o] # "none"

\* What the administrator has ended stays ended, if the decision got as far as
\* the delivery: no later statement, delivery or decision takes it back.
DecidedIsKept ==
    \A o \in Sales : verdict[o] \in {"received", "terminated"} /\ o \notin reviewOnly
                        => content[o] \in {"accepted", "terminated"}

\* What the comment in decide says of it, that the review and the delivery are
\* updated in one transaction: an order whose decision was answered as taken
\* has its delivery where the decision puts it.  (A decision that is cut off
\* after the review is answered so when it is asked for again.)
DecisionIsWhole ==
    \A o \in saidTaken : verdict[o] \in {"received", "terminated"}
                        => content[o] \in {"accepted", "terminated"}

RestoreSafe == NothingSentAgain /\ WhatMayBeSentIsReviewed /\ DecidedIsKept
=============================================================================

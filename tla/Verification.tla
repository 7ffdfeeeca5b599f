---------------------------- MODULE Verification ----------------------------
(***************************************************************************)
(* The sessions of src/src/application/verification/service.rs for one     *)
(* account: what a signal starts, what a session does with the browser and *)
(* the credential, the delivery gate it keeps closed, the cooldown, the    *)
(* issue it leaves and the probe that closes it.                           *)
(*                                                                         *)
(* The entry of the map `active` is not tied to the task that made it:     *)
(* every task writes to, and at its end removes, whatever entry is there.  *)
(* `entry` is its state.  A session whose entry is older than the total    *)
(* timeout and a minute is taken for dead; `Age` lets that happen to any   *)
(* entry, for started_at is read from the wall clock, and a task may wait  *)
(* for the database thread meanwhile.                                      *)
(***************************************************************************)
EXTENDS Naturals, Sequences

CONSTANTS
    Sessions,     \* identities for the tasks handle_signal spawns; one is
                  \* used again when its task has ended
    Callers,      \* tasks that may be inside handle_signal at once
    MaxRetries    \* VerificationPolicy.max_retries

ASSUME MaxRetriesAssumption == MaxRetries \in Nat

VARIABLES
    entry,        \* the state in the active entry, or "none"
    stale,        \* whether the entry is older than stale_after
    held,         \* whether the gate is closed for the account
    cooling,      \* whether cooldown_until lies in the future
    signal,       \* per caller: a signal that has passed the cooldown check
    task,         \* per session: where run_session is
    url,          \* per session: whether its signal had a URL
    tries,        \* per session: its rows in verification_attempts, in order
    saved,        \* sessions whose cookies the sink has stored
    panicked,     \* sessions ended by catch_unwind
    opened,       \* sessions whose issue is open
    closed,       \* sessions whose issue a probe has resolved
    doubled       \* whether a session was replaced while it was running

verVars == <<entry, stale, held, cooling, signal, task, url, tries, saved,
             panicked, opened, closed, doubled>>

SessionState == {"detected", "browser_open", "solving", "updating_credential",
                 "succeeded", "failed_manual"}
Outcome == {"in_progress", "succeeded", "failed_manual"}

\* browser_open is set and left without a step in between.
VerTypeOK ==
    /\ entry \in SessionState \cup {"none"} /\ stale \in BOOLEAN
    /\ held \in BOOLEAN /\ cooling \in BOOLEAN
    /\ signal \in [Callers -> {"none", "plain", "url"}]
    /\ task \in [Sessions -> {"idle", "spawned", "attempt", "solving", "saving",
                              "keep", "lost", "again", "failed", "issue",
                              "release", "remove", "ended"}]
    /\ url \in [Sessions -> BOOLEAN]
    /\ tries \in [Sessions -> Seq(Outcome)]
    /\ \A s \in Sessions : Len(tries[s]) <= MaxRetries + 1
    /\ saved \subseteq Sessions /\ panicked \subseteq Sessions
    /\ opened \subseteq Sessions /\ closed \subseteq Sessions
    /\ doubled \in BOOLEAN

\* A session is done with the account once it has removed the entry.
Running(s) == task[s] \notin {"idle", "ended"}
\* It has not begun to say that it is over.
Working(s) == Running(s) /\ task[s] \notin {"release", "remove"}

VerInit ==
    /\ entry = "none" /\ stale = FALSE /\ held = FALSE /\ cooling = FALSE
    /\ doubled = FALSE
    /\ signal = [c \in Callers |-> "none"]
    /\ task = [s \in Sessions |-> "idle"]
    /\ url = [s \in Sessions |-> FALSE]
    /\ tries = [s \in Sessions |-> <<>>]
    /\ saved = {} /\ panicked = {} /\ opened = {} /\ closed = {}

Step(s, from, to) == task[s] = from /\ task' = [task EXCEPT ![s] = to]

\* transition: only if some entry is there.
Enter(state) == entry' = IF entry = "none" THEN "none" ELSE state

-----------------------------------------------------------------------------
(* handle_signal *)

\* An automatic signal is ignored while the account cools down.
SignalAllowed(c, source, with) ==
    /\ signal[c] = "none"
    /\ source = "manual" \/ ~cooling
    /\ signal' = [signal EXCEPT ![c] = with]
    /\ UNCHANGED <<entry, stale, held, cooling, task, url, tries, saved,
                   panicked, opened, closed, doubled>>

\* Under the lock: one entry at a time, unless it is taken for dead.
Occupied == entry # "none" /\ ~stale

SignalMerged(c) ==
    /\ signal[c] # "none" /\ Occupied
    /\ signal' = [signal EXCEPT ![c] = "none"]
    /\ UNCHANGED <<entry, stale, held, cooling, task, url, tries, saved,
                   panicked, opened, closed, doubled>>

Register(c, s) ==
    /\ signal[c] # "none" /\ ~Occupied
    /\ Step(s, "idle", "spawned") \/ Step(s, "ended", "spawned")
    /\ url' = [url EXCEPT ![s] = signal[c] = "url"]
    /\ signal' = [signal EXCEPT ![c] = "none"]
    /\ entry' = "detected" /\ stale' = FALSE /\ held' = TRUE
    /\ doubled' = (doubled \/ (entry # "none" /\ \E r \in Sessions : Running(r)))
    /\ tries' = [tries EXCEPT ![s] = <<>>]
    /\ saved' = saved \ {s} /\ panicked' = panicked \ {s}
    /\ opened' = opened \ {s} /\ closed' = closed \ {s}
    /\ UNCHANGED cooling

-----------------------------------------------------------------------------
(* run_session *)

\* set_active puts the entry back, whoever has removed it.
RunSession(s) ==
    /\ IF url[s] THEN Step(s, "spawned", "attempt") /\ entry' = "detected"
                      /\ UNCHANGED cooling
       ELSE Step(s, "spawned", "issue") /\ entry' = "failed_manual"
            /\ cooling' = TRUE
    /\ stale' = FALSE
    /\ UNCHANGED <<held, signal, url, tries, saved, panicked, opened, closed,
                   doubled>>

\* The head of the loop; a deadline that has passed ends it.
BeginAttempt(s) ==
    /\ Step(s, "attempt", "solving")
    /\ tries' = [tries EXCEPT ![s] = Append(@, "in_progress")]
    /\ Enter("solving")
    /\ UNCHANGED <<stale, held, cooling, signal, url, saved, panicked, opened,
                   closed, doubled>>

DeadlinePassed(s) ==
    /\ Step(s, "attempt", "failed")
    /\ UNCHANGED <<entry, stale, held, cooling, signal, url, tries, saved,
                   panicked, opened, closed, doubled>>

Solved(s) ==
    /\ Step(s, "solving", "saving")
    /\ Enter("updating_credential")
    /\ UNCHANGED <<stale, held, cooling, signal, url, tries, saved, panicked,
                   opened, closed, doubled>>

\* The browser says so, or the rest of the timeout has run out.
SolveFailed(s) ==
    /\ Step(s, "solving", "again")
    /\ UNCHANGED <<entry, stale, held, cooling, signal, url, tries, saved,
                   panicked, opened, closed, doubled>>

SaveAndRotate(s) ==
    /\ \/ Step(s, "saving", "keep") /\ saved' = saved \cup {s}
       \/ Step(s, "saving", "lost") /\ UNCHANGED saved
    /\ UNCHANGED <<entry, stale, held, cooling, signal, url, tries, panicked,
                   opened, closed, doubled>>

\* finish writes the row that is in progress, and no other.
Finish(s, outcome) ==
    LET n == Len(tries[s])
    IN  tries' = IF tries[s][n] = "in_progress"
                 THEN [tries EXCEPT ![s][n] = outcome] ELSE tries

FinishSucceeded(s) ==
    /\ Step(s, "keep", "release")
    /\ Finish(s, "succeeded")
    /\ Enter("succeeded")
    /\ UNCHANGED <<stale, held, cooling, signal, url, saved, panicked, opened,
                   closed, doubled>>

\* A credential that could not be stored is not tried again.
FinishLost(s) ==
    /\ Step(s, "lost", "failed")
    /\ Finish(s, "failed_manual")
    /\ UNCHANGED <<entry, stale, held, cooling, signal, url, saved, panicked,
                   opened, closed, doubled>>

\* A further attempt needs the budget.  (Mutant: one more.)
RetryAllowedOnceMore(s) == Len(tries[s]) <= MaxRetries + 1
RetryAllowed(s) == Len(tries[s]) <= MaxRetries

FinishFailed(s) ==
    /\ \/ Step(s, "again", "failed")
       \/ RetryAllowed(s) /\ Step(s, "again", "attempt")
    /\ Finish(s, "failed_manual")
    /\ UNCHANGED <<entry, stale, held, cooling, signal, url, saved, panicked,
                   opened, closed, doubled>>

GiveUp(s) ==
    /\ Step(s, "failed", "issue")
    /\ cooling' = TRUE
    /\ Enter("failed_manual")
    /\ UNCHANGED <<stale, held, signal, url, tries, saved, panicked, opened,
                   closed, doubled>>

OpenVerificationIssue(s) ==
    /\ Step(s, "issue", "release")
    /\ opened' = opened \cup {s}
    /\ UNCHANGED <<entry, stale, held, cooling, signal, url, tries, saved,
                   panicked, closed, doubled>>

\* The browser or the sink panics.  (Mutant: and takes the task with it.)
PanicKills(s) ==
    /\ Step(s, "solving", "ended") \/ Step(s, "saving", "ended")
    /\ panicked' = panicked \cup {s}
    /\ UNCHANGED <<entry, stale, held, cooling, signal, url, tries, saved,
                   opened, closed, doubled>>

Panic(s) ==
    /\ Step(s, "solving", "release") \/ Step(s, "saving", "release")
    /\ panicked' = panicked \cup {s}
    /\ UNCHANGED <<entry, stale, held, cooling, signal, url, tries, saved,
                   opened, closed, doubled>>

\* Mutant: the entry first.
ClearSwapped(s) ==
    /\ \/ Step(s, "release", "remove") /\ entry' = "none" /\ stale' = FALSE
          /\ UNCHANGED held
       \/ Step(s, "remove", "ended") /\ held' = FALSE /\ UNCHANGED <<entry, stale>>
    /\ UNCHANGED <<cooling, signal, url, tries, saved, panicked, opened, closed,
                   doubled>>

\* clear_active: the gate first, then, under the lock, the entry.
ClearActive(s) ==
    /\ \/ Step(s, "release", "remove") /\ held' = FALSE /\ UNCHANGED <<entry, stale>>
       \/ Step(s, "remove", "ended") /\ entry' = "none" /\ stale' = FALSE
          /\ UNCHANGED held
    /\ UNCHANGED <<cooling, signal, url, tries, saved, panicked, opened, closed,
                   doubled>>

-----------------------------------------------------------------------------
(* Time, the status of the account, and the probe *)

Age ==
    /\ entry # "none" /\ ~stale /\ stale' = TRUE
    /\ UNCHANGED <<entry, held, cooling, signal, task, url, tries, saved,
                   panicked, opened, closed, doubled>>

CoolDown ==
    /\ cooling /\ cooling' = FALSE
    /\ UNCHANGED <<entry, stale, held, signal, task, url, tries, saved,
                   panicked, opened, closed, doubled>>

\* probe_and_close_issues: an open issue whose account the sink finds online
\* again, which may be any.
ProbeAndClose(s) ==
    /\ s \in opened
    /\ opened' = opened \ {s} /\ closed' = closed \cup {s}
    /\ UNCHANGED <<entry, stale, held, cooling, signal, task, url, tries, saved,
                   panicked, doubled>>

SessionStep(s) ==
    \/ RunSession(s) \/ BeginAttempt(s) \/ DeadlinePassed(s)
    \/ Solved(s) \/ SolveFailed(s) \/ SaveAndRotate(s)
    \/ FinishSucceeded(s) \/ FinishLost(s) \/ FinishFailed(s)
    \/ GiveUp(s) \/ OpenVerificationIssue(s)
    \/ Panic(s) \/ ClearActive(s)

SignalStep(c) ==
    \/ \E source \in {"auto", "manual"}, with \in {"plain", "url"} :
           SignalAllowed(c, source, with)
    \/ SignalMerged(c)
    \/ \E s \in Sessions : Register(c, s)

VerNext ==
    \/ \E s \in Sessions : SessionStep(s)
    \/ \E c \in Callers : SignalStep(c)
    \/ Age \/ CoolDown
    \/ \E s \in Sessions : ProbeAndClose(s)

VerSpec == VerInit /\ [][VerNext]_verVars

-----------------------------------------------------------------------------
(* Properties *)

\* Whatever became of the sessions, and however many ran at once: when none
\* runs, the gate is open and no entry stands in the way of the next.
QuietIsOpen == (\A s \in Sessions : ~Running(s)) => ~held /\ entry = "none"

\* Unless a running session was taken for dead, there is one at a time, and the
\* gate stays closed and the entry in place until it says that it is over.
GateFollowsSession ==
    ~doubled => /\ \A s, r \in Sessions : Running(s) /\ Running(r) => s = r
                /\ \A s \in Sessions : Working(s) => held /\ entry # "none"

\* A session that ended without a credential has left an issue, unless it
\* panicked, and no row of verification_attempts but a panicked one's stays
\* open; 'succeeded' is said of a stored credential only.
SessionsAreRecorded ==
    \A s \in Sessions :
        /\ task[s] = "ended" => s \in saved \cup panicked \cup opened \cup closed
        /\ \A n \in DOMAIN tries[s] :
               /\ tries[s][n] = "in_progress" =>
                      \/ s \in panicked
                      \/ n = Len(tries[s]) /\ task[s] \in {"solving", "saving", "keep",
                                                      "lost", "again"}
               /\ tries[s][n] = "succeeded" => s \in saved

VerificationSafe == QuietIsOpen /\ GateFollowsSession /\ SessionsAreRecorded
=============================================================================

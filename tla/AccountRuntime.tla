--------------------------- MODULE AccountRuntime ---------------------------
(***************************************************************************)
(* The life of one account's connection: the supervisor that starts and    *)
(* stops its task (src/runtime/supervisor.rs), the task that connects, and *)
(* connects again (run_account in src/adapters/xianyu/adapter.rs), the     *)
(* WebSocket session under it (src/adapters/xianyu/ws/real.rs), and the    *)
(* dispatch loop that writes what the task reports to accounts.status.     *)
(*                                                                         *)
(* Accounts share nothing here: one stands for all.  What the platform     *)
(* answers is a choice: a token, a registration or a session may fail in   *)
(* every way the code tells apart.                                         *)
(***************************************************************************)
EXTENDS Naturals, Sequences

CONSTANTS
    Tasks,          \* identities for the tasks the supervisor spawns
    NoTask,         \* none of them
    MaxCrashes,     \* bound on the ends of the process
    InboxCap        \* capacity of the channel of events

ASSUME NoTaskAssumption == NoTask \notin Tasks
ASSUME RuntimeBoundsAssumption == MaxCrashes \in Nat /\ InboxCap \in Nat \ {0}

VARIABLES
    enabled, status,  \* runtime_enabled and status of the row
    sup, wanted,      \* the supervisor; whether it read the switch as on
    active,           \* its map: the task of the account
    pc,               \* where a task is in run_account
    ws,               \* the WebSocket session of a task, or how it ended
    stop,             \* a task's watch channel
    attached,         \* whether the adapter has an entry for the account
    inbox,            \* reports on their way to the dispatch loop
    crashes

row == <<enabled, status>>
supVars == <<sup, wanted, active>>
taskVars == <<pc, ws, stop>>
vars == <<row, supVars, taskVars, attached, inbox, crashes>>

Reports == {"connecting", "online", "offline", "auth_expired"}
Ended == {"disconnected", "auth_expired", "connect_limit", "shutdown"}

\* A watch channel: nothing to stop for; a stop the session has not seen
\* yet; a stop it has seen.  (run_account itself only looks at the value.)
Watch == {"go", "told", "seen"}

RuntimeTypeOK ==
    /\ enabled \in BOOLEAN /\ status \in Reports \cup {"paused", "disabled"}
    /\ sup \in {"wait", "loaded", "quit"} /\ wanted \in BOOLEAN
    /\ active \in Tasks \cup {NoTask}
    /\ pc \in [Tasks -> {"finished", "attach", "unreadable", "hello", "top",
                         "token", "greet", "await", "limited", "expired",
                         "retry", "backoff", "final", "detach"}]
    /\ ws \in [Tasks -> {"none", "dial", "register", "live"} \cup Ended]
    /\ stop \in [Tasks -> Watch]
    /\ attached \in BOOLEAN
    /\ inbox \in Seq(Reports) /\ Len(inbox) <= InboxCap
    /\ crashes \in 0..MaxCrashes

Alive(t) == pc[t] # "finished"
Connected(t) == ws[t] \in {"dial", "register", "live"}

Goto(t, l) == pc' = [pc EXCEPT ![t] = l]

\* emit_state waits while the channel is full.  (Mutant: it does not.)
ReportUnbounded(s) == inbox' = Append(inbox, s)
Report(s) == Len(inbox) < InboxCap /\ inbox' = Append(inbox, s)

-----------------------------------------------------------------------------
(* The administrator, the login, the dispatch loop *)

\* set_switches, in so far as it concerns runtime_enabled.
SetRun(on) ==
    /\ enabled' = on
    /\ status' = CASE ~on -> "paused"
                   [] on /\ status \in {"paused", "disabled"} -> "connecting"
                   [] OTHER -> status
    /\ UNCHANGED <<supVars, taskVars, attached, inbox, crashes>>

\* A confirmed QR login attaches what it has saved, task or no task.
AttachLogin ==
    /\ attached' = TRUE
    /\ UNCHANGED <<row, supVars, taskVars, inbox, crashes>>

Observe ==
    /\ inbox # <<>>
    /\ status' = Head(inbox) /\ inbox' = Tail(inbox)
    /\ UNCHANGED <<enabled, supVars, taskVars, attached, crashes>>

-----------------------------------------------------------------------------
(* account_supervisor_loop: a tick reads the switch, and then acts at once *)

ReadSwitch ==
    /\ sup = "wait"
    /\ sup' = "loaded" /\ wanted' = enabled
    /\ UNCHANGED <<row, active, taskVars, attached, inbox, crashes>>

\* An error of the database, or a credential of any account that cannot be
\* opened, is read as "no account is enabled".
ReadFails ==
    /\ sup = "wait"
    /\ sup' = "loaded" /\ wanted' = FALSE
    /\ UNCHANGED <<row, active, taskVars, attached, inbox, crashes>>

\* The task in the map is sent the wish at every tick, changed or not.
\* (Mutant: only when it has changed.)
SentOnce(now) == IF now THEN "go" ELSE IF stop[active] = "go" THEN "told" ELSE stop[active]
Sent(now) == IF now THEN "go" ELSE "told"

\* The map keeps the tasks that have not finished.
\* (Mutants: it drops those it has stopped, or those that have reported
\* their end; it never drops one.)
KeptUnstopped == IF wanted THEN active ELSE NoTask
KeptUnreported ==
    IF active # NoTask /\ pc[active] \in {"detach", "finished"} THEN NoTask ELSE active
KeptForever == active
Kept == IF active # NoTask /\ pc[active] = "finished" THEN NoTask ELSE active

Spawn(t) ==
    /\ pc[t] = "finished"
    /\ active' = t
    /\ Goto(t, "attach")
    /\ stop' = [stop EXCEPT ![t] = "go"]

Tick ==
    /\ sup = "loaded"
    /\ sup' = "wait"
    /\ IF wanted /\ Kept = NoTask
         THEN \E t \in Tasks : Spawn(t)
         ELSE /\ active' = Kept
              /\ stop' = [t \in Tasks |-> IF t = active THEN Sent(wanted) ELSE stop[t]]
              /\ UNCHANGED pc
    /\ UNCHANGED <<row, wanted, ws, attached, inbox, crashes>>

\* The service stops: the task is told once, and given 15 s.
Quit ==
    /\ sup = "wait"
    /\ sup' = "quit"
    /\ stop' = [t \in Tasks |-> IF t = active THEN "told" ELSE stop[t]]
    /\ UNCHANGED <<row, wanted, active, pc, ws, attached, inbox, crashes>>

\* The process ends, after Quit or by a crash, and starts again:
\* startup_cleanup turns what was online or connecting to offline.
Restart ==
    /\ crashes < MaxCrashes /\ crashes' = crashes + 1
    /\ status' = IF status \in {"online", "connecting"} THEN "offline" ELSE status
    /\ sup' = "wait" /\ wanted' = FALSE /\ active' = NoTask
    /\ pc' = [t \in Tasks |-> "finished"] /\ ws' = [t \in Tasks |-> "none"]
    /\ stop' = [t \in Tasks |-> "go"]
    /\ attached' = FALSE /\ inbox' = <<>>
    /\ UNCHANGED enabled

-----------------------------------------------------------------------------
(* run_account *)

\* attach makes the entry, or replaces it; a jar that cannot be read ends
\* the task.
Attach(t) ==
    /\ pc[t] = "attach"
    /\ \/ Goto(t, "hello") /\ attached' = TRUE
       \/ Goto(t, "unreadable") /\ UNCHANGED attached
    /\ UNCHANGED <<row, supVars, ws, stop, inbox, crashes>>

\* Where a task reports, what, and where it goes on.
ReportAt(t, at, s, l) ==
    /\ pc[t] = at
    /\ Report(s)
    /\ Goto(t, l)
    /\ UNCHANGED <<row, supVars, ws, stop, attached, crashes>>

Unreadable(t) == ReportAt(t, "unreadable", "auth_expired", "finished")
Hello(t) == ReportAt(t, "hello", "connecting", "top")
Greet(t) == ReportAt(t, "greet", "online", "await")
Limited(t) == ReportAt(t, "limited", "offline", "retry")
Expired(t) == ReportAt(t, "expired", "auth_expired", "final")

\* (Mutant: a task that leaves the loop ends without a word.)
QuietEnd(t) ==
    /\ pc[t] = "final" /\ Goto(t, "detach")
    /\ UNCHANGED <<row, supVars, ws, stop, attached, inbox, crashes>>
Final(t) == ReportAt(t, "final", "offline", "detach")

\* The head of the loop, and the entry connect_ws asks for.
Top(t) ==
    /\ pc[t] = "top"
    /\ Goto(t, CASE stop[t] # "go" -> "final"
                 [] stop[t] = "go" /\ attached -> "token"
                 [] stop[t] = "go" /\ ~attached -> "expired")
    /\ UNCHANGED <<row, supVars, ws, stop, attached, inbox, crashes>>

\* ws_access_token; a token starts a session, which sees the watch as new.
Token(t) ==
    /\ pc[t] = "token"
    /\ \/ Goto(t, "greet") /\ ws' = [ws EXCEPT ![t] = "dial"]
       \/ \E l \in {"expired", "retry"} : Goto(t, l) /\ UNCHANGED ws
    /\ UNCHANGED <<row, supVars, stop, attached, inbox, crashes>>

AfterEnd ==
    [shutdown |-> "final", disconnected |-> "retry", auth_expired |-> "expired",
     connect_limit |-> "limited"]

Await(t) ==
    /\ pc[t] = "await" /\ ws[t] \in Ended
    /\ Goto(t, AfterEnd[ws[t]])
    /\ ws' = [ws EXCEPT ![t] = "none"]
    /\ UNCHANGED <<row, supVars, stop, attached, inbox, crashes>>

\* The watch is looked at before the delay, and again after it or at the
\* head of the loop: whatever is sent to a task ends its delay.
Retry(t) ==
    /\ pc[t] \in {"retry", "backoff"}
    /\ Goto(t, CASE stop[t] # "go" -> "final"
                 [] stop[t] = "go" /\ pc[t] = "retry" -> "backoff"
                 [] stop[t] = "go" /\ pc[t] = "backoff" -> "top")
    /\ UNCHANGED <<row, supVars, ws, stop, attached, inbox, crashes>>

\* The entry goes, whoever has attached it.
Detach(t) ==
    /\ pc[t] = "detach"
    /\ attached' = FALSE
    /\ Goto(t, "finished")
    /\ UNCHANGED <<row, supVars, ws, stop, inbox, crashes>>

-----------------------------------------------------------------------------
(* run_registered_session *)

Becomes(t, from, to) ==
    /\ ws[t] = from
    /\ ws' = [ws EXCEPT ![t] = to]
    /\ UNCHANGED <<row, supVars, pc, stop, attached, inbox, crashes>>

Dial(t) == Becomes(t, "dial", "register") \/ Becomes(t, "dial", "disconnected")
Registered(t) == Becomes(t, "register", "live")
Lost(t) ==
    \E from \in {"register", "live"}, to \in Ended \ {"shutdown"} : Becomes(t, from, to)

\* A stop that arrives during the registration is taken for its success:
\* both leave the wait with SessionEnd::Shutdown.
NoticeStop(t) ==
    /\ stop[t] = "told" /\ stop' = [stop EXCEPT ![t] = "seen"]
    /\ \/ ws[t] = "register" /\ ws' = [ws EXCEPT ![t] = "live"]
       \/ ws[t] = "live" /\ ws' = [ws EXCEPT ![t] = "shutdown"]
    /\ UNCHANGED <<row, supVars, pc, attached, inbox, crashes>>

-----------------------------------------------------------------------------
(* Specification *)

Init ==
    /\ enabled = FALSE /\ status = "disabled"
    /\ sup = "wait" /\ wanted = FALSE /\ active = NoTask
    /\ pc = [t \in Tasks |-> "finished"] /\ ws = [t \in Tasks |-> "none"]
    /\ stop = [t \in Tasks |-> "go"]
    /\ attached = FALSE /\ inbox = <<>> /\ crashes = 0

Run(t) ==
    \/ Attach(t) \/ Unreadable(t) \/ Hello(t) \/ Top(t) \/ Token(t) \/ Greet(t)
    \/ Await(t) \/ Limited(t) \/ Expired(t) \/ Retry(t) \/ Final(t) \/ Detach(t)

Next ==
    \/ \E on \in BOOLEAN : SetRun(on)
    \/ AttachLogin \/ Observe \/ ReadSwitch \/ ReadFails \/ Tick \/ Quit \/ Restart
    \/ \E t \in Tasks : Run(t) \/ Dial(t) \/ Registered(t) \/ Lost(t) \/ NoticeStop(t)

Spec == Init /\ [][Next]_vars

\* The timer fires and does not fail for ever; every task and session that can
\* go on is polled; a dial and a request for a token end.  Nothing is asked of
\* the platform's answer to a registration, of the administrator, or of the
\* network.
FairSpec ==
    /\ Spec
    /\ WF_vars(Observe) /\ SF_vars(ReadSwitch) /\ WF_vars(Tick)
    /\ \A t \in Tasks : WF_vars(Run(t)) /\ WF_vars(Dial(t)) /\ WF_vars(NoticeStop(t))

-----------------------------------------------------------------------------
(* Properties *)

\* account_supervisor_loop: an account never has two tasks, nor a connection
\* without a task: the next task is spawned only when the last has ended,
\* however often the switch is moved and whatever ends the session.
OneConnection ==
    /\ \A t, u \in Tasks : Alive(t) /\ Alive(u) => t = u
    /\ \A t \in Tasks : Connected(t) => Alive(t)

\* run_account, dispatch_loop: once the reports on their way are written, the
\* row says "online" only if a task is there to keep the account so.
OnlineHasTask ==
    LET last == IF inbox = <<>> THEN status ELSE inbox[Len(inbox)]
    IN  last = "online" => \E t \in Tasks : Alive(t)

\* attach, detach: from its attach to its own detach a task finds the entry it
\* connects and sends by: no other task's end takes it away.
EntryStays ==
    \A t \in Tasks : pc[t] \notin {"finished", "attach", "unreadable"} => attached

\* account_supervisor_loop, run_registered_session: a switch turned off for
\* good ends the connection, even if the stop falls into a registration that
\* takes it for its own success.
StopIsHonoured ==
    <>[](~enabled /\ sup # "quit") => <>[](\A t \in Tasks : ~Connected(t))

\* A switch turned on for good brings a task back whatever stopped the last - a
\* switch turned off meanwhile, an error of the database, a crash - unless it
\* ends because its authorisation has expired.
StartIsHonoured ==
    <>[](/\ enabled /\ sup # "quit"
         /\ \A t \in Tasks : pc[t] \notin {"unreadable", "expired"})
        => []<>(\E t \in Tasks : Alive(t))

\* What the comment at run_account and the data model say of an expired
\* authorisation: no task is started for it again before another login has been
\* attached.  (The supervisor asks the switch only, and its next tick starts
\* one with the credentials there are.  "offline", the last report of the task
\* that has ended, is on its way here, and overwrites "auth_expired".)
ExpiredWaits ==
    [][status = "auth_expired" /\ inbox = <<"offline">> /\ ~attached =>
           \A t \in Tasks : ~Alive(t) => ~Alive(t)']_vars
=============================================================================

--------------------------- MODULE Authorization ----------------------------
(***************************************************************************)
(* How an account comes to its credential and loses it: the QR flows of    *)
(* src/src/application/accounts/qr.rs with the loop that drives them       *)
(* (authorize.rs), the refresh of the profile, which stores the cookies it *)
(* came back with (profile.rs), the removal (removal.rs), and the status   *)
(* reports of a task that still runs (runtime/supervisor.rs).              *)
(*                                                                         *)
(* One shop is followed; a scan may also be that of another shop.  A       *)
(* credential is the number of the login it stems from with its            *)
(* generation.  The generation of a login is the clock in milliseconds, a  *)
(* refresh adds one: Span is the distance of two logins.                   *)
(***************************************************************************)
EXTENDS Naturals

CONSTANTS
    Flows,       \* rows of auth_flows
    NoFlow,
    Refreshers,  \* executions of ProfileService.refresh
    Span         \* bound: fewer refreshes than this come after one login

ASSUME NoFlowAssumption == NoFlow \notin Flows
ASSUME SpanAssumption == Span \in Nat \ {0}

VARIABLES
    flow,        \* auth_flows.status, or "none"
    replaces,    \* whether account_id of the flow is the account
    driving,     \* the map `flows` of the AuthorizationService
    code,        \* the adapter's QrLogin of a flow: "none", "shown", "taken"
    drv,         \* where the driving loop is, with which flow and whose scan
    logins,      \* how many logins were stored
    row,         \* the account's row: "absent", "shown", or "hidden" (deleted)
    running,    \* runtime_enabled
    cred,        \* the row of account_credentials
    referred,    \* whether an order or the like refers to the account
    refresh,     \* per refresher: where it is, and the blob it has loaded
    alive,       \* whether a task of the account runs
    reported,    \* whether a report of it waits in the channel
    stored,      \* flows whose login was stored for this account
    newest,      \* the login stored last, unless the account was removed since
    gone         \* removed with nothing in flight, and no login since

flowVars == <<flow, replaces, driving, code, drv>>
accVars == <<row, running, cred, referred>>
seenVars == <<stored, newest, gone>>
authVars == <<flowVars, logins, accVars, refresh, alive, reported, seenVars>>

NoCred == [gen |-> 0, from |-> 0]
Creds == [gen : Nat, from : Nat]
FlowStatus == {"pending", "scanned", "confirmed", "completed", "canceled",
               "expired", "failed", "needs_verification"}
Terminal == {"canceled", "completed", "expired", "failed"}

AuthTypeOK ==
    /\ flow \in [Flows -> FlowStatus \cup {"none"}]
    /\ replaces \in [Flows -> BOOLEAN]
    /\ driving \subseteq Flows
    /\ code \in [Flows -> {"none", "shown", "taken"}]
    /\ drv \in [pc : {"idle", "poll", "confirm", "complete", "save"},
                flow : Flows \cup {NoFlow}, mine : BOOLEAN]
    /\ logins \in Nat
    /\ row \in {"absent", "shown", "hidden"}
    /\ running \in BOOLEAN /\ referred \in BOOLEAN
    /\ cred \in Creds
    /\ refresh \in [Refreshers -> [pc : {"idle", "load", "fetch", "save"}, blob : Creds]]
    /\ alive \in BOOLEAN /\ reported \in BOOLEAN
    /\ stored \subseteq Flows /\ newest \in Nat /\ gone \in BOOLEAN

AuthInit ==
    /\ flow = [f \in Flows |-> "none"]
    /\ replaces = [f \in Flows |-> FALSE]
    /\ driving = {} /\ code = [f \in Flows |-> "none"]
    /\ drv = [pc |-> "idle", flow |-> NoFlow, mine |-> FALSE]
    /\ logins = 0
    /\ row = "absent" /\ running = FALSE /\ cred = NoCred /\ referred = FALSE
    /\ refresh = [r \in Refreshers |-> [pc |-> "idle", blob |-> NoCred]]
    /\ alive = FALSE /\ reported = FALSE
    /\ stored = {} /\ newest = 0 /\ gone = FALSE

-----------------------------------------------------------------------------
(* The flow's state machine *)

\* auth_flow_transition.  There is no way from pending to confirmed.
FlowTransition(from, to) ==
    \/ from = to
    \/ from = "pending" /\ to \in {"scanned", "expired", "canceled", "failed"}
    \/ from = "scanned" /\ to \in {"confirmed", "needs_verification", "expired", "canceled"}
    \/ from = "confirmed" /\ to \in {"completed", "needs_verification"}
    \/ from = "needs_verification" /\ to \in {"confirmed", "completed"}

\* apply_platform_transition.  The generation it compares is the one the
\* driving loop has read from the same row.
Applied(f, to) ==
    IF FlowTransition(flow[f], to) THEN [flow EXCEPT ![f] = to] ELSE flow

\* expire_if_due, before every look at a flow: its time may have come.
Looked(f) ==
    IF flow[f] \in {"pending", "scanned"}
    THEN {flow, [flow EXCEPT ![f] = "expired"]} ELSE {flow}

Idle == [pc |-> "idle", flow |-> NoFlow, mine |-> FALSE]

-----------------------------------------------------------------------------
(* The administrator: create_qr_session, get_qr_session, cancel_qr_session *)

CreateFlow(f, replace) ==
    /\ flow[f] = "none"
    /\ replace => row # "absent"
    /\ flow' = [flow EXCEPT ![f] = "pending"]
    /\ replaces' = [replaces EXCEPT ![f] = replace]
    /\ UNCHANGED <<driving, code, drv, logins, accVars, refresh, alive,
                   reported, seenVars>>

\* The platform gives a code, or the flow is canceled again.
CreateDriven(f) ==
    /\ flow[f] # "none" /\ code[f] = "none"
    /\ code' = [code EXCEPT ![f] = "shown"]
    /\ driving' = driving \cup {f}
    /\ UNCHANGED <<flow, replaces, drv, logins, accVars, refresh, alive,
                   reported, seenVars>>

CreateRefused(f) ==
    /\ flow[f] # "none" /\ code[f] = "none"
    /\ flow' = Applied(f, "canceled")
    /\ code' = [code EXCEPT ![f] = "taken"]
    /\ UNCHANGED <<replaces, driving, drv, logins, accVars, refresh, alive,
                   reported, seenVars>>

Observe(f) ==
    /\ flow[f] # "none" /\ flow' \in Looked(f)
    /\ UNCHANGED <<replaces, driving, code, drv, logins, accVars, refresh,
                   alive, reported, seenVars>>

\* An authorised flow is not canceled; one that has ended stays as it is.
\* (needs_verification has no way to canceled, but cancel does not ask.)
Cancel(f) ==
    /\ flow[f] \notin {"none", "confirmed", "completed"}
    /\ flow' = IF flow[f] \in Terminal THEN flow ELSE [flow EXCEPT ![f] = "canceled"]
    /\ UNCHANGED <<replaces, driving, code, drv, logins, accVars, refresh,
                   alive, reported, seenVars>>

-----------------------------------------------------------------------------
(* drive: one flow after another *)

DriveObserve(f) ==
    /\ drv.pc = "idle" /\ f \in driving
    /\ flow' \in Looked(f)
    /\ IF flow'[f] \in {"pending", "scanned"}
       THEN drv' = [Idle EXCEPT !.pc = "poll", !.flow = f] /\ UNCHANGED driving
       ELSE driving' = driving \ {f} /\ UNCHANGED drv
    /\ UNCHANGED <<replaces, code, logins, accVars, refresh, alive,
                   reported, seenVars>>

\* Nothing new, no answer, or a login that is taken already.
PollAgain ==
    /\ drv.pc = "poll" /\ drv' = Idle
    /\ UNCHANGED <<flow, replaces, driving, code, logins, accVars, refresh,
                   alive, reported, seenVars>>

PollScanned ==
    /\ drv.pc = "poll" /\ code[drv.flow] = "shown"
    /\ flow' = Applied(drv.flow, "scanned")
    /\ drv' = Idle
    /\ UNCHANGED <<replaces, driving, code, logins, accVars, refresh, alive,
                   reported, seenVars>>

PollEnded(to) ==
    /\ drv.pc = "poll" /\ code[drv.flow] = "shown"
    /\ flow' = Applied(drv.flow, to)
    /\ driving' = driving \ {drv.flow}
    /\ drv' = Idle
    /\ UNCHANGED <<replaces, code, logins, accVars, refresh, alive,
                   reported, seenVars>>

\* qr_poll takes the login out of its map before it fetches the cookies, which
\* may fail.
PollConfirmed(mine) ==
    /\ drv.pc = "poll" /\ code[drv.flow] = "shown"
    /\ code' = [code EXCEPT ![drv.flow] = "taken"]
    /\ drv' \in {Idle, [drv EXCEPT !.pc = "confirm", !.mine = mine]}
    /\ UNCHANGED <<flow, replaces, driving, logins, accVars, refresh, alive,
                   reported, seenVars>>

\* The result of the transition is not looked at.
DriveConfirm ==
    /\ drv.pc = "confirm"
    /\ flow' = Applied(drv.flow, "confirmed")
    /\ drv' = [drv EXCEPT !.pc = "complete"]
    /\ UNCHANGED <<replaces, driving, code, logins, accVars, refresh, alive,
                   reported, seenVars>>

\* complete goes by the status only.
Completable(f) == flow[f] \in {"confirmed", "completed"}

\* Another shop's scan of a code that was to replace this account's login: a
\* shop that has an account here is bound to that one, and the flow completes;
\* otherwise its row would be inserted under this account's key, which fails.
DriveComplete ==
    LET f == drv.flow
        clashes == ~drv.mine /\ replaces[f] /\ row # "absent"
        Fails == drv' = Idle /\ UNCHANGED <<flow, row, gone>>
        Completes == /\ drv' = [drv EXCEPT !.pc = "save"]
                     /\ flow' = [flow EXCEPT ![f] = "completed"]
                     /\ row' = IF drv.mine /\ row = "absent" THEN "shown" ELSE row
                     /\ gone' = (gone /\ ~drv.mine)
    IN  /\ drv.pc = "complete"
        /\ \/ (~Completable(f) \/ clashes) /\ Fails
           \/ Completable(f) /\ Completes
        /\ UNCHANGED <<replaces, driving, code, logins, running, cred,
                       referred, refresh, alive, reported, stored, newest>>

\* credentials::save: only a higher generation is taken.  (Mutant: any is.)
TakesAny(gen) == TRUE
Newer(gen) == gen > cred.gen

DriveSave ==
    LET gen == Span * (logins + 1)
        ok == drv.mine /\ row # "absent" /\ Newer(gen)
    IN  /\ drv.pc = "save"
        /\ cred' = IF ok THEN [gen |-> gen, from |-> logins + 1] ELSE cred
        /\ logins' = IF ok THEN logins + 1 ELSE logins
        /\ stored' = IF ok THEN stored \cup {drv.flow} ELSE stored
        /\ newest' = IF ok THEN logins + 1 ELSE newest
        /\ refresh' \in IF ok /\ \E r \in Refreshers : refresh[r].pc = "idle"
                        THEN {[refresh EXCEPT ![r].pc = "load"] :
                                  r \in {x \in Refreshers : refresh[x].pc = "idle"}}
                        ELSE {refresh}
        /\ driving' = driving \ {drv.flow}
        /\ drv' = Idle
        /\ UNCHANGED <<flow, replaces, code, row, running, referred, alive,
                       reported, gone>>

-----------------------------------------------------------------------------
(* ProfileService::refresh *)

AskRefresh(r) ==
    /\ refresh[r].pc = "idle" /\ row # "absent"
    /\ refresh' = [refresh EXCEPT ![r].pc = "load"]
    /\ UNCHANGED <<flowVars, logins, accVars, alive, reported, seenVars>>

RefreshLoad(r) ==
    /\ refresh[r].pc = "load"
    /\ refresh' = [refresh EXCEPT ![r] = IF cred = NoCred
                                         THEN [pc |-> "idle", blob |-> NoCred]
                                         ELSE [pc |-> "fetch", blob |-> cred]]
    /\ UNCHANGED <<flowVars, logins, accVars, alive, reported, seenVars>>

\* The profile came back, or not; set_profile finds the row, or not.
RefreshFetched(r) ==
    /\ refresh[r].pc = "fetch"
    /\ \/ row # "absent" /\ refresh' = [refresh EXCEPT ![r].pc = "save"]
       \/ refresh' = [refresh EXCEPT ![r] = [pc |-> "idle", blob |-> NoCred]]
    /\ UNCHANGED <<flowVars, logins, accVars, alive, reported, seenVars>>

RefreshSave(r) ==
    LET gen == refresh[r].blob.gen + 1
        ok == row # "absent" /\ Newer(gen)
    IN  /\ refresh[r].pc = "save"
        /\ gen < Span * (refresh[r].blob.from + 1)
        /\ cred' = IF ok THEN [gen |-> gen, from |-> refresh[r].blob.from] ELSE cred
        /\ refresh' = [refresh EXCEPT ![r] = [pc |-> "idle", blob |-> NoCred]]
        /\ UNCHANGED <<flowVars, logins, row, running, referred, alive, reported,
                       seenVars>>

-----------------------------------------------------------------------------
(* The account's task, its switch, its removal *)

\* The list, where the administrator has the version from, leaves out what is
\* deleted.
SetRunning(on) ==
    /\ row = "shown" /\ running' = on
    /\ UNCHANGED <<flowVars, logins, row, cred, referred, refresh, alive,
                   reported, seenVars>>

SupervisorTick ==
    /\ alive' = (row # "absent" /\ running /\ cred # NoCred)
    /\ reported' = (reported \/ alive' # alive)
    /\ UNCHANGED <<flowVars, logins, accVars, refresh, seenVars>>

\* The dispatch loop writes the status over whatever is there.
WriteStatus ==
    /\ reported /\ reported' = FALSE
    /\ row' = IF row = "absent" THEN "absent" ELSE "shown"
    /\ UNCHANGED <<flowVars, logins, running, cred, referred, refresh, alive,
                   seenVars>>

OrderArrives ==
    /\ row # "absent" /\ ~referred /\ referred' = TRUE
    /\ UNCHANGED <<flowVars, logins, row, running, cred, refresh, alive,
                   reported, seenVars>>

InFlight ==
    \/ alive \/ reported
    \/ drv.pc = "save" /\ drv.mine
    \/ \E r \in Refreshers : refresh[r].pc \in {"fetch", "save"}

\* One closure: the switch, the credential, the row, or its mark where the
\* row is referred to.  (Mutant: the credential is left.)
RemoveLeavesCredential ==
    /\ row # "absent"
    /\ running' = FALSE /\ row' = "hidden"
    /\ gone' = ~InFlight /\ newest' = 0
    /\ UNCHANGED <<flowVars, logins, cred, referred, refresh, alive, reported, stored>>

RemoveAccount ==
    /\ row # "absent"
    /\ running' = FALSE /\ cred' = NoCred
    /\ row' = IF referred \/ \E f \in Flows : replaces[f] THEN "hidden" ELSE "absent"
    /\ gone' = ~InFlight /\ newest' = 0
    /\ UNCHANGED <<flowVars, logins, referred, refresh, alive, reported, stored>>

AuthNext ==
    \/ \E f \in Flows :
           \/ \E replace \in BOOLEAN : CreateFlow(f, replace)
           \/ CreateDriven(f) \/ CreateRefused(f)
           \/ Observe(f) \/ Cancel(f) \/ DriveObserve(f)
    \/ PollAgain \/ PollScanned
    \/ \E to \in {"expired", "canceled", "needs_verification", "failed"} : PollEnded(to)
    \/ \E mine \in BOOLEAN : PollConfirmed(mine)
    \/ DriveConfirm \/ DriveComplete \/ DriveSave
    \/ \E r \in Refreshers :
           AskRefresh(r) \/ RefreshLoad(r) \/ RefreshFetched(r) \/ RefreshSave(r)
    \/ \E on \in BOOLEAN : SetRunning(on)
    \/ SupervisorTick \/ WriteStatus \/ OrderArrives \/ RemoveAccount

AuthSpec == AuthInit /\ [][AuthNext]_authVars

-----------------------------------------------------------------------------
(* Properties *)

\* Only a flow that completed has given the account a login: none that was
\* canceled, had expired or failed did, however late the scan came.
OnlyCompletedStored == \A f \in stored : flow[f] = "completed"

\* What is stored stems from the newest login, until the account is removed:
\* a refresh that started from an older one does not bring that back.
NewestLoginKept == newest # 0 => cred.from = newest

\* An account removed while nothing was in flight stays removed: no
\* credential, the switch off, out of the list, until a new login.
RemovedStaysRemoved == gone => cred = NoCred /\ ~running /\ row # "shown"

AuthorizationSafe == OnlyCompletedStored /\ NewestLoginKept /\ RemovedStaysRemoved
=============================================================================

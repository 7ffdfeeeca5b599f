------------------------------- MODULE Access -------------------------------
(***************************************************************************)
(* The administrator and his sessions: application/auth.rs over the tables *)
(* admin and sessions, the handlers that call it (transport/routes.rs,     *)
(* transport/settings_api.rs), the limit on failed logins                  *)
(* (transport/state.rs), and init-admin, which is run while the program is *)
(* stopped (main.rs).  Passwords are numbered in the order they are set.   *)
(* Hashing takes its time between two closures of the database thread.     *)
(*                                                                         *)
(* Abstracted: the CSRF token of a page, which a session query replaces.   *)
(***************************************************************************)
EXTENDS Naturals, FiniteSets

CONSTANTS
    Browsers,     \* each has the cookie of its latest session
    MaxFailures,  \* LoginLimiter::MAX
    MaxPassword   \* bound: passwords ever set

ASSUME AccessAssumption ==
    /\ IsFiniteSet(Browsers)
    /\ MaxFailures \in Nat \ {0} /\ MaxPassword \in Nat \ {0}

VARIABLES
    up,          \* whether the program runs
    password,    \* the administrator's, 0 before there is one
    ticket,      \* per browser: its row in sessions
    under,       \* per browser: the password its session was given for
    visit,       \* per browser: where its request is, and for which password
    failures,    \* those the limiter counts
    resetting,   \* where init-admin is
    kept,        \* sessions that changed the password themselves
    late         \* sessions excused otherwise: see SessionsFollowPassword

sessionVars == <<ticket, under>>
excuseVars == <<kept, late>>
accessVars == <<up, password, sessionVars, visit, failures, resetting, excuseVars>>

Away == [pc |-> "away", pw |-> 0]
Visits == [pc : {"away", "trying", "issue", "change", "proved"}, pw : 0..MaxPassword]

AccessTypeOK ==
    /\ up \in BOOLEAN
    /\ password \in 0..MaxPassword
    /\ ticket \in [Browsers -> {"none", "valid", "revoked", "expired"}]
    /\ under \in [Browsers -> 0..MaxPassword]
    /\ visit \in [Browsers -> Visits]
    /\ failures \in Nat
    /\ resetting \in {"off", "revoked"}
    /\ kept \subseteq Browsers /\ late \subseteq Browsers

AccessInit ==
    /\ up = TRUE /\ password = 0
    /\ ticket = [b \in Browsers |-> "none"] /\ under = [b \in Browsers |-> 0]
    /\ visit = [b \in Browsers |-> Away]
    /\ failures = 0 /\ resetting = "off"
    /\ kept = {} /\ late = {}

-----------------------------------------------------------------------------
\* The limiter is asked before, and told after, the password was looked at.
Limited == failures >= MaxFailures

\* Mutant of MayTry: nobody asks.
TriesAlways(b) == visit[b] = Away
MayTry(b) == visit[b] = Away /\ ~Limited

\* login_handler and initialize_handler come in.
TryLogin(b) ==
    /\ up /\ MayTry(b)
    /\ visit' = [visit EXCEPT ![b].pc = "trying"]
    /\ UNCHANGED <<up, password, sessionVars, failures, resetting, excuseVars>>

\* Too short, not twice the same, wrong, or there is no administrator yet.
LoginFails(b) ==
    /\ visit[b].pc = "trying"
    /\ visit' = [visit EXCEPT ![b] = Away]
    /\ failures' = failures + 1
    /\ UNCHANGED <<up, password, sessionVars, resetting, excuseVars>>

\* initialize where there is one already: that is not counted.
InitializeRefused(b) ==
    /\ visit[b].pc = "trying" /\ password # 0
    /\ visit' = [visit EXCEPT ![b] = Away]
    /\ UNCHANGED <<up, password, sessionVars, failures, resetting, excuseVars>>

Initialize(b) ==
    /\ visit[b].pc = "trying" /\ password = 0
    /\ password' = 1
    /\ visit' = [visit EXCEPT ![b] = [pc |-> "issue", pw |-> 1]]
    /\ UNCHANGED <<up, sessionVars, failures, resetting, excuseVars>>

LoginVerified(b) ==
    /\ visit[b].pc = "trying" /\ password # 0
    /\ visit' = [visit EXCEPT ![b] = [pc |-> "issue", pw |-> password]]
    /\ UNCHANGED <<up, password, sessionVars, failures, resetting, excuseVars>>

\* issue_session, whatever became of the password meanwhile.
IssueSession(b) ==
    /\ visit[b].pc = "issue"
    /\ ticket' = [ticket EXCEPT ![b] = "valid"]
    /\ under' = [under EXCEPT ![b] = visit[b].pw]
    /\ visit' = [visit EXCEPT ![b] = Away]
    /\ kept' = kept \ {b}
    /\ late' = IF visit[b].pw = password THEN late \ {b} ELSE late \cup {b}
    /\ UNCHANGED <<up, password, failures, resetting>>

WindowPasses ==
    /\ failures > 0 /\ failures' \in 0..(failures - 1)
    /\ UNCHANGED <<up, password, sessionVars, visit, resetting, excuseVars>>

-----------------------------------------------------------------------------
\* require_admin: find_valid_session.
Admitted(b) == up /\ visit[b] = Away /\ ticket[b] = "valid"

\* logout asks for no more than the token.
Logout(b) ==
    /\ up /\ ticket[b] = "valid"
    /\ ticket' = [ticket EXCEPT ![b] = "revoked"]
    /\ UNCHANGED <<up, password, under, visit, failures, resetting, excuseVars>>

Expire(b) ==
    /\ ticket[b] = "valid"
    /\ ticket' = [ticket EXCEPT ![b] = "expired"]
    /\ UNCHANGED <<up, password, under, visit, failures, resetting, excuseVars>>

\* put_credentials
StartChange(b) ==
    /\ Admitted(b)
    /\ visit' = [visit EXCEPT ![b].pc = "change"]
    /\ UNCHANGED <<up, password, sessionVars, failures, resetting, excuseVars>>

\* The present password is given, or the request is refused.
ProveChange(b) ==
    /\ visit[b].pc = "change"
    /\ visit' \in {[visit EXCEPT ![b] = Away], [visit EXCEPT ![b].pc = "proved"]}
    /\ UNCHANGED <<up, password, sessionVars, failures, resetting, excuseVars>>

\* Mutant of RevokedExcept: they are left.
LeavesSessions(some) == ticket
RevokedExcept(some) ==
    [x \in Browsers |-> IF ticket[x] = "valid" /\ x \notin some THEN "revoked" ELSE ticket[x]]

\* One closure of two statements without a transaction: a new password, or
\* only a new name, and the end of the other sessions - unless the second
\* fails, or the program ends before it.  By then this session may have been
\* ended itself.
ApplyChange(b, new, revokes) ==
    /\ visit[b].pc = "proved"
    /\ password' = IF new THEN password + 1 ELSE password
    /\ password' <= MaxPassword
    /\ ticket' = IF revokes THEN RevokedExcept({b}) ELSE ticket
    /\ visit' = [visit EXCEPT ![b] = Away]
    /\ kept' = {b}
    /\ late' = IF revokes THEN late
               ELSE late \cup {x \in Browsers \ {b} : ticket[x] = "valid"}
    /\ UNCHANGED <<up, under, failures, resetting>>

-----------------------------------------------------------------------------
\* The program stops: requests end, and the limiter forgets.
StopProgram ==
    /\ up /\ up' = FALSE
    /\ visit' = [b \in Browsers |-> Away] /\ failures' = 0
    /\ UNCHANGED <<password, sessionVars, resetting, excuseVars>>

StartProgram ==
    /\ ~up /\ up' = TRUE /\ resetting' = "off"
    /\ UNCHANGED <<password, sessionVars, visit, failures, excuseVars>>

\* init-admin --reset ends the sessions (and pauses the accounts); that the
\* statement fails is not looked at.
ResetRevokes(done) ==
    /\ ~up /\ password # 0 /\ resetting = "off"
    /\ resetting' = "revoked"
    /\ ticket' = IF done THEN RevokedExcept({}) ELSE ticket
    /\ late' = IF done THEN late ELSE late \cup {b \in Browsers : ticket[b] = "valid"}
    /\ UNCHANGED <<up, password, under, visit, failures, kept>>

\* Then the new password is asked for, and may not be given, or not stored.
ResetPassword(done) ==
    /\ ~up /\ (resetting = "revoked" \/ password = 0)
    /\ password' = IF done THEN password + 1 ELSE password
    /\ password' <= MaxPassword
    /\ resetting' = "off"
    /\ UNCHANGED <<up, sessionVars, visit, failures, excuseVars>>

AccessNext ==
    \/ \E b \in Browsers :
           \/ TryLogin(b) \/ LoginFails(b) \/ InitializeRefused(b) \/ Initialize(b)
           \/ LoginVerified(b) \/ IssueSession(b)
           \/ Logout(b) \/ Expire(b)
           \/ StartChange(b) \/ ProveChange(b)
           \/ \E new, revokes \in BOOLEAN : ApplyChange(b, new, revokes)
    \/ WindowPasses \/ StopProgram \/ StartProgram
    \/ \E done \in BOOLEAN : ResetRevokes(done) \/ ResetPassword(done)

AccessSpec == AccessInit /\ [][AccessNext]_accessVars

-----------------------------------------------------------------------------
\* Whoever changes the password meanwhile, by request or by init-admin: a
\* session given for an earlier one is over - but for the one that made the
\* change, one whose login had its password looked at before the change and its
\* row written after it, and those that were left because the statement that
\* ends the others failed, after the new password was stored or in init-admin.
SessionsFollowPassword ==
    \A b \in Browsers :
        ticket[b] = "valid" /\ under[b] # password => b \in kept \cup late

\* Logins that are under way pass the limit together, by one less than their
\* number.
AttemptsAreLimited == failures <= MaxFailures + Cardinality(Browsers) - 1

AccessSafe == SessionsFollowPassword /\ AttemptsAreLimited
=============================================================================

------------------------------ MODULE MCUpkeep ------------------------------
(***************************************************************************)
(* What keeps orders coming in, followed to its end: the verification that *)
(* opens the gate again, and the intake with its scans.  Each runs alone;  *)
(* `part` says which one a behaviour is of.                                *)
(***************************************************************************)
EXTENDS Verification, Intake

VARIABLE part

vars == <<part, verVars, intVars>>

Init ==
    /\ part \in {"verification", "intake"}
    /\ VerInit /\ IntInit
    /\ part # "intake" => refused = {}

VerificationAlone == part = "verification" /\ UNCHANGED <<part, intVars>>
IntakeAlone == part = "intake" /\ UNCHANGED <<part, verVars>>

Next ==
    \/ VerNext /\ VerificationAlone
    \/ IntNext /\ IntakeAlone

\* A spawned session goes on, and so does recovery_loop.  The platform gives
\* its whole list, and the snapshot of every order, again and again.
Fairness ==
    /\ \A s \in Sessions : WF_vars(SessionStep(s) /\ VerificationAlone)
    /\ WF_vars(ScanStep /\ IntakeAlone)
    /\ SF_vars(TraceSold(sold) /\ IntakeAlone)
    /\ \A o \in Orders : SF_vars(TraceHandle(o) /\ IntakeAlone)

Spec == Init /\ [][Next]_vars /\ Fairness

\* The state of both is well typed.
UpkeepTypeOK == VerTypeOK /\ IntTypeOK

\* A closed gate opens again, whatever the browser, the clock and the database
\* do, and whoever signals meanwhile.
GateReopens == held ~> ~held

\* An order that stays in the platform's list is given its delivery in the end,
\* though its events were lost, or came while the gate was closed, and though
\* the process crashed with its row written and no delivery: by the trace scan,
\* once the gate stays open, if no order is refused its snapshot.
SoldIsHandled ==
    \A o \in Orders :
        <>[](part = "intake" /\ refused = {} /\ o \in sold /\ ~shut)
            => <>(o \in initial)
=============================================================================

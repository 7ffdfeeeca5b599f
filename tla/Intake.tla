------------------------------- MODULE Intake -------------------------------
(***************************************************************************)
(* How orders come into the system: the events of a session, taken one at  *)
(* a time by dispatch_loop (src/src/runtime/supervisor.rs) through the     *)
(* pipeline of application/events.rs, and the scans of recovery_loop,      *)
(* application/recovery/compensate.rs and trace.rs.  One account, whose    *)
(* tables orders, deliveries and sync_jobs are followed; what handle does  *)
(* between the three writes that matter here is module Delivery.           *)
(*                                                                         *)
(* Events come in any order, any number of times, or never: no order event *)
(* of the adapter carries an id, so record_event never finds one again.    *)
(***************************************************************************)
EXTENDS Naturals, FiniteSets

CONSTANTS
    Orders,
    Signals     \* states an OrderStateSignal may name

\* state_rank; what it does not know ranks lowest.
Rank == [unknown |-> 0, unpaid |-> 1, pending_ship |-> 2, shipped |-> 3,
         completed |-> 4, canceled |-> 5, refunding |-> 6, refunded |-> 7]

ASSUME SignalsAssumption == Signals \subseteq DOMAIN Rank

VARIABLES
    status,     \* orders.platform_status, "absent" while there is no row
    heard,      \* per order: the states signalled since there is a row
    paid,       \* orders with a paid_at
    initial,    \* orders with an initial delivery
    sold,       \* orders the platform's list of the last 24 hours has
    refused,    \* orders whose snapshot the platform will not give
    dispatch,   \* the order dispatch_loop is about to handle, or {}
    shut,       \* whether the delivery gate is closed for the account
    scan        \* where recovery_loop is, what it was given, what is left

tableVars == <<status, heard, paid, initial>>
intVars == <<tableVars, sold, refused, dispatch, shut, scan>>

IntTypeOK ==
    /\ status \in [Orders -> DOMAIN Rank \cup {"absent"}]
    /\ heard \in [Orders -> SUBSET Signals]
    /\ paid \subseteq Orders /\ initial \subseteq Orders
    /\ sold \subseteq Orders /\ refused \subseteq Orders
    /\ dispatch \subseteq Orders /\ Cardinality(dispatch) <= 1
    /\ shut \in BOOLEAN
    /\ scan \in [pc : {"idle", "trace", "handle"}, given : SUBSET Orders,
                 left : SUBSET Orders]

Resting == [pc |-> "idle", given |-> {}, left |-> {}]

IntInit ==
    /\ status = [o \in Orders |-> "absent"]
    /\ heard = [o \in Orders |-> {}]
    /\ paid = {} /\ initial = {} /\ sold = {}
    /\ refused \in {{}} \cup {{o} : o \in Orders}
    /\ dispatch = {} /\ shut = FALSE /\ scan = Resting

-----------------------------------------------------------------------------
(* The tables *)

\* find_or_create.
WithRow(o) == [status EXCEPT ![o] = IF @ = "absent" THEN "unknown" ELSE @]

\* The writes of handle: the row, with the facts; the initial delivery; the
\* facts of the snapshot, once it is eligible.  n of them happen.
\* (Mutant: the facts before the delivery.)
HandledFactsFirst(o, n) ==
    /\ status' = IF n >= 1 THEN WithRow(o) ELSE status
    /\ paid' = IF n >= 2 THEN paid \cup {o} ELSE paid
    /\ initial' = IF n >= 3 THEN initial \cup {o} ELSE initial
    /\ UNCHANGED heard

Handled(o, n) ==
    /\ status' = IF n >= 1 THEN WithRow(o) ELSE status
    /\ initial' = IF n >= 2 THEN initial \cup {o} ELSE initial
    /\ paid' = IF n >= 3 THEN paid \cup {o} ELSE paid
    /\ UNCHANGED heard

\* handle returns an error: at once if there is no snapshot.
Failed(o) == \E n \in 0..3 : (o \in refused => n = 0) /\ Handled(o, n)
Done(o) == o \notin refused /\ \E n \in 2..3 : Handled(o, n)

\* apply_state_signal.  (Mutant: the last signal wins.)
AdvancesAlways(o, state) == status[o] # "absent"
Advances(o, state) == status[o] # "absent" /\ Rank[state] > Rank[status[o]]

-----------------------------------------------------------------------------
(* dispatch_loop *)

PaymentSignal(o) ==
    /\ dispatch = {}
    /\ status' = WithRow(o) /\ dispatch' = {o}
    /\ UNCHANGED <<heard, paid, initial, sold, refused, shut, scan>>

\* An order nobody knows is passed over.
StateSignal(o, state) ==
    /\ dispatch = {}
    /\ heard' = IF status[o] = "absent" THEN heard
                ELSE [heard EXCEPT ![o] = @ \cup {state}]
    /\ IF Advances(o, state)
       THEN status' = [status EXCEPT ![o] = state] ELSE UNCHANGED status
    /\ UNCHANGED <<paid, initial, sold, refused, dispatch, shut, scan>>

Defer ==
    /\ dispatch # {} /\ shut /\ dispatch' = {}
    /\ UNCHANGED <<tableVars, sold, refused, shut, scan>>

Dispatch(o) ==
    /\ o \in dispatch /\ ~shut /\ dispatch' = {}
    /\ Done(o) \/ Failed(o)
    /\ UNCHANGED <<sold, refused, shut, scan>>

-----------------------------------------------------------------------------
(* recovery_loop: every 60 seconds the compensation, then the trace *)

Candidates == {o \in Orders : status[o] = "pending_ship" /\ o \in paid /\ o \notin initial}

\* Those observed 120 seconds ago are handled, until one fails.
Compensate ==
    /\ scan.pc = "idle" /\ scan' = [scan EXCEPT !.pc = "trace"]
    /\ \E some \in SUBSET Candidates : initial' = initial \cup some
    /\ UNCHANGED <<status, heard, paid, sold, refused, dispatch, shut>>

\* The list, to its end or to a limit, or an error.
TraceSold(list) ==
    /\ scan.pc = "trace"
    /\ scan' = [pc |-> "handle", given |-> list, left |-> list]
    /\ UNCHANGED <<tableVars, sold, refused, dispatch, shut>>

TraceFails ==
    /\ scan.pc = "trace" /\ scan' = Resting
    /\ UNCHANGED <<tableVars, sold, refused, dispatch, shut>>

\* Mutant of TraceHandle: an order that has a row already is passed over.
TraceHandleNewOnly(o) ==
    /\ scan.pc = "handle" /\ o \in scan.left
    /\ IF status[o] = "absent" THEN Done(o) ELSE UNCHANGED tableVars
    /\ scan' = [scan EXCEPT !.left = @ \ {o}]
    /\ UNCHANGED <<sold, refused, dispatch, shut>>

\* The scan does not ask the gate.
TraceHandle(o) ==
    /\ scan.pc = "handle" /\ o \in scan.left
    /\ Done(o) /\ scan' = [scan EXCEPT !.left = @ \ {o}]
    /\ UNCHANGED <<sold, refused, dispatch, shut>>

\* An order that fails ends the scan of the account, and no row is written.
AfterFailure(o) == Resting

TraceHandleFails(o) ==
    /\ scan.pc = "handle" /\ o \in scan.left
    /\ Failed(o) /\ scan' = AfterFailure(o)
    /\ UNCHANGED <<sold, refused, dispatch, shut>>

RecordCoverage ==
    /\ scan.pc = "handle" /\ scan.left = {}
    /\ scan' = Resting
    /\ UNCHANGED <<tableVars, sold, refused, dispatch, shut>>

-----------------------------------------------------------------------------
(* The platform, the gate, time, and a crash *)

Buy(o) ==
    /\ o \notin sold /\ sold' = sold \cup {o}
    /\ UNCHANGED <<tableVars, refused, dispatch, shut, scan>>

\* The list looks back 24 hours.
Forget(o) ==
    /\ o \in sold /\ sold' = sold \ {o}
    /\ UNCHANGED <<tableVars, refused, dispatch, shut, scan>>

TurnGate ==
    /\ shut' = ~shut
    /\ UNCHANGED <<tableVars, sold, refused, dispatch, scan>>

Crash ==
    /\ dispatch' = {} /\ scan' = Resting /\ shut' = FALSE
    /\ UNCHANGED <<tableVars, sold, refused>>

ScanStep ==
    \/ Compensate \/ TraceFails \/ RecordCoverage
    \/ \E list \in SUBSET sold : TraceSold(list)
    \/ \E o \in Orders : TraceHandle(o) \/ TraceHandleFails(o)

IntNext ==
    \/ \E o \in Orders :
           \/ PaymentSignal(o) \/ Dispatch(o)
           \/ \E state \in Signals : StateSignal(o, state)
           \/ Buy(o) \/ Forget(o)
    \/ Defer \/ ScanStep \/ TurnGate \/ Crash

IntSpec == IntInit /\ [][IntNext]_intVars

-----------------------------------------------------------------------------
(* Properties *)

\* In whatever order its signals came, and between whatever other writes, the
\* status of an order is the highest of those since it was known: a late
\* "pending_ship" does not bring back what was refunded.
StatusIsHighest ==
    \A o \in Orders : status[o] # "absent" =>
        /\ status[o] \in heard[o] \cup {"unknown"}
        /\ \A state \in heard[o] : Rank[state] <= Rank[status[o]]

\* Payment facts are written of orders with an initial delivery only, wherever handle was
\* cut off.  So the compensation, which looks for paid orders without
\* one, never has any to look after.
PaidHasTask == paid \subseteq initial /\ Candidates = {}

\* When a scan comes to write its row into sync_jobs, every order it was given
\* has its delivery, and keeps it: an order that failed leaves no row.
CoverageIsTrue == scan.pc = "handle" => scan.given \ scan.left \subseteq initial

\* What FR-003 of the verification asks for: while the gate is closed no new
\* delivery is started.  (The trace scan handles what it finds all the same.)
ShutStopsDelivery == [][shut => initial' = initial]_intVars

IntakeSafe == StatusIsHighest /\ PaidHasTask /\ CoverageIsTrue
=============================================================================

-------------------------------- MODULE Jobs --------------------------------
(***************************************************************************)
(* What an administrator starts and may send twice: the order sync job of  *)
(* src/src/application/orders_sync.rs with its row in operation_jobs       *)
(* (jobs.rs, repos/jobs.rs), and the receipts of idempotency.rs, under     *)
(* which the manual actions run.                                           *)
(*                                                                         *)
(* The order sync visits the accounts it has listed one by one; between    *)
(* two of them it looks for a request to cancel.  The item sync of         *)
(* transport/catalog_api.rs (module ItemSync has its pages) looks for      *)
(* none.  Every write to a row is a compare-and-set on the version, which  *)
(* cancel bumps too.  A version is followed only as: did anyone write      *)
(* since I read?                                                           *)
(***************************************************************************)
EXTENDS Naturals, FiniteSets, Sequences

CONSTANTS
    Accounts,
    Requests,     \* requests for a manual action that share one key
    Bodies,       \* parameters they may come with
    NoBody

ASSUME NoBodyAssumption == NoBody \notin Bodies

VARIABLES
    job,          \* the row: state, cancel_requested, and whether it has been
                  \* written since it was made, or since the job read it
    runner,       \* the spawned task: where it is, and the accounts left
    report,       \* per account: what the result says of it, or "none"
    canceled,     \* whether the job has seen the request
    told,         \* the state the job has come to say first, or "none"
    excused,      \* the row could not be read, or was written after that
    receipt,      \* the row of command_receipts: body and status
    request,      \* per request: body, and where it is
    executed      \* requests that carried out the action

jobVars == <<job, runner, report, canceled, told, excused>>
receiptVars == <<receipt, request, executed>>
jobsVars == <<jobVars, receiptVars>>

Final == {"succeeded", "cancelled", "failed"}
NoReceipt == [body |-> NoBody, status |-> "none"]

JobsTypeOK ==
    /\ job \in [state : {"none", "queued"} \cup Final, cancel : BOOLEAN,
                written : BOOLEAN]
    /\ runner \in [pc : {"none", "items", "list", "work", "read", "finish", "ended", "lost"},
                   left : SUBSET Accounts]
    /\ report \in [Accounts -> {"none", "offline", "traced", "refused", "partly"}]
    /\ canceled \in BOOLEAN /\ told \in {"none"} \cup Final /\ excused \in BOOLEAN
    /\ receipt \in [body : Bodies \cup {NoBody}, status : {"none", "pending", "kept"}]
    /\ request \in [Requests -> [body : Bodies \cup {NoBody},
                      pc : {"none", "sent", "begun", "did", "answered", "replayed",
                            "conflict", "failed"}]]
    /\ executed \subseteq Requests

JobsInit ==
    /\ job = [state |-> "none", cancel |-> FALSE, written |-> FALSE]
    /\ runner = [pc |-> "none", left |-> {}]
    /\ report = [a \in Accounts |-> "none"]
    /\ canceled = FALSE /\ told = "none" /\ excused = FALSE
    /\ receipt = NoReceipt
    /\ request = [r \in Requests |-> [body |-> NoBody, pc |-> "none"]]
    /\ executed = {}

-----------------------------------------------------------------------------
(* The job *)

Start(at) ==
    /\ job.state = "none"
    /\ job' = [job EXCEPT !.state = "queued"]
    /\ runner' = [runner EXCEPT !.pc = at]
    /\ UNCHANGED <<report, canceled, told, excused, receiptVars>>

\* The accounts that are enabled, or those asked for that exist.
ListAccounts(some) ==
    /\ runner.pc = "list"
    /\ runner' = [pc |-> "work", left |-> some]
    /\ UNCHANGED <<job, report, canceled, told, excused, receiptVars>>

\* finish: only if the version is still the one expected.
Told(state) ==
    IF job.written THEN UNCHANGED <<job, told>>
    ELSE /\ job' = [job EXCEPT !.state = state]
         /\ told' = IF told = "none" THEN state ELSE told

\* The version the job was made with is expected.
ListFails ==
    /\ runner.pc = "list"
    /\ Told("failed")
    /\ runner' = [runner EXCEPT !.pc = "ended"]
    /\ UNCHANGED <<report, canceled, excused, receiptVars>>

\* A row that cannot be read is taken for no request.
SeesCancel ==
    /\ runner.pc = "work" /\ runner.left # {} /\ job.cancel
    /\ canceled' = TRUE
    /\ runner' = [runner EXCEPT !.pc = "read"]
    /\ UNCHANGED <<job, report, told, excused, receiptVars>>

\* Offline; listed by the platform, with some orders failing or none; or not
\* listed.  Orders that fail do not stop the others.
Visit(a, as) ==
    /\ runner.pc = "work" /\ a \in runner.left
    /\ report' = [report EXCEPT ![a] = as]
    /\ runner' = [runner EXCEPT !.left = @ \ {a}]
    /\ UNCHANGED <<job, canceled, told, excused, receiptVars>>

AllVisited ==
    /\ runner.pc = "work" /\ runner.left = {}
    /\ runner' = [runner EXCEPT !.pc = "read"]
    /\ UNCHANGED <<job, report, canceled, told, excused, receiptVars>>

\* (Mutant: the version the job was made with is kept.)
ReadNothing == job
ReadVersion == [job EXCEPT !.written = FALSE]

\* The row is read for its version; if it cannot be, or says that it is over,
\* nothing is written.
ReadRow ==
    /\ runner.pc = "read"
    /\ \/ /\ runner' = [runner EXCEPT !.pc = "ended"] /\ excused' = TRUE
          /\ UNCHANGED job
       \/ /\ job.state \notin Final
          /\ runner' = [runner EXCEPT !.pc = "finish"]
          /\ job' = ReadVersion /\ excused' = FALSE
    /\ UNCHANGED <<report, canceled, told, receiptVars>>

FinishJob ==
    /\ runner.pc = "finish"
    /\ Told(IF canceled THEN "cancelled" ELSE "succeeded")
    /\ runner' = [runner EXCEPT !.pc = "ended"]
    /\ UNCHANGED <<report, canceled, excused, receiptVars>>

\* start_item_sync, at the end of its pages or at an error, expects the version
\* the job was made with.
FinishItems ==
    /\ runner.pc = "items"
    /\ \E state \in {"succeeded", "failed"} : Told(state)
    /\ runner' = [runner EXCEPT !.pc = "ended"]
    /\ UNCHANGED <<report, canceled, excused, receiptVars>>

\* request_cancel, with the version that is there; it does not ask for the
\* state.
RequestCancel ==
    /\ job.state # "none"
    /\ job' = [job EXCEPT !.cancel = TRUE, !.written = TRUE]
    /\ excused' = (excused \/ runner.pc \in {"items", "list", "finish"})
    /\ UNCHANGED <<runner, report, canceled, told, receiptVars>>

-----------------------------------------------------------------------------
(* The receipts *)

SendRequest(r, body) ==
    /\ request[r].pc = "none"
    /\ request' = [request EXCEPT ![r] = [body |-> body, pc |-> "sent"]]
    /\ UNCHANGED <<jobVars, receipt, executed>>

\* begin, in one call of the database thread.  (Mutant: every request finds
\* no row.)
NeverSeen == TRUE
Unseen == receipt.status = "none"

Begin(r) ==
    /\ request[r].pc = "sent"
    /\ IF Unseen
       THEN /\ receipt' = [body |-> request[r].body, status |-> "pending"]
            /\ request' = [request EXCEPT ![r].pc = "begun"]
       ELSE /\ request' = [request EXCEPT ![r].pc =
                    IF receipt.body = request[r].body THEN "replayed" ELSE "conflict"]
            /\ UNCHANGED receipt
    /\ UNCHANGED <<jobVars, executed>>

\* The action, or an error on its way, which leaves the receipt as it is.
Execute(r) ==
    /\ request[r].pc = "begun"
    /\ \/ request' = [request EXCEPT ![r].pc = "did"] /\ executed' = executed \cup {r}
       \/ request' = [request EXCEPT ![r].pc = "failed"] /\ UNCHANGED executed
    /\ UNCHANGED <<jobVars, receipt>>

Complete(r) ==
    /\ request[r].pc = "did"
    /\ receipt' = [receipt EXCEPT !.status = "kept"]
    /\ request' = [request EXCEPT ![r].pc = "answered"]
    /\ UNCHANGED <<jobVars, executed>>

\* The process ends: the job is not taken up again.
Stop ==
    /\ runner' = IF runner.pc \in {"none", "ended"} THEN runner
                 ELSE [pc |-> "lost", left |-> {}]
    /\ request' = [r \in Requests |->
                     IF request[r].pc \in {"sent", "begun", "did"}
                     THEN [request[r] EXCEPT !.pc = "failed"] ELSE request[r]]
    /\ UNCHANGED <<job, report, canceled, told, excused, receipt, executed>>

JobsNext ==
    \/ \E at \in {"items", "list"} : Start(at)
    \/ \E some \in SUBSET Accounts : ListAccounts(some)
    \/ ListFails \/ SeesCancel
    \/ \E a \in Accounts, as \in {"offline", "traced", "refused", "partly"} : Visit(a, as)
    \/ AllVisited \/ ReadRow \/ FinishJob \/ FinishItems \/ RequestCancel
    \/ \E r \in Requests :
           \/ \E body \in Bodies : SendRequest(r, body)
           \/ Begin(r) \/ Execute(r) \/ Complete(r)
    \/ Stop

JobsSpec == JobsInit /\ [][JobsNext]_jobsVars

-----------------------------------------------------------------------------
(* Properties *)

\* What a job has come to say of itself it does not take back, whoever cancels
\* it afterwards: "succeeded" when no account was left out, "cancelled" when it
\* was asked to be.
JobTellsTheTruth ==
    /\ job.state \in Final => job.state = told
    /\ job.state = "succeeded" => ~canceled /\ runner.left = {}
    /\ job.state = "cancelled" => job.cancel /\ canceled

\* A job that has run to its end says how it ended, however often it was asked
\* to cancel before it read its row for the last time (the item sync reads none).
EndedSaysHow == runner.pc = "ended" => job.state \in Final \/ excused

\* However often a request is sent, with the same or other parameters, before,
\* while or after it runs: the action is carried out once, for the parameters
\* the receipt was made for, and a replay is answered for these only.
CarriedOutOnce ==
    /\ Cardinality(executed) <= 1
    /\ \A r \in Requests :
           r \in executed \/ request[r].pc = "replayed" => request[r].body = receipt.body

JobsSafe == JobTellsTheTruth /\ EndedSaysHow /\ CarriedOutOnce
=============================================================================

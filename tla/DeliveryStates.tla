--------------------------- MODULE DeliveryStates ---------------------------
(***************************************************************************)
(* The state values and the legality tables that every writer of a         *)
(* `deliveries`, `attempts` or `order_execution_guards` row consults       *)
(* (src/domain/delivery/state.rs, the CHECK lists of the migrations and    *)
(* deliveries::prepare_attempt).  There are no variables here.             *)
(***************************************************************************)

\* deliveries.content_state; "absent" is an order without an initial row.
ContentStates == {"absent", "pending_verification", "queued", "dispatching",
                  "not_sent", "accepted", "unknown", "terminated"}

ReviewStates == {"none", "required", "resolved"}

\* order_execution_guards.state; "none" is an order without a guard row.
GuardStates == {"none", "active", "released", "terminal", "unknown_manual"}

\* attempts.state once finished (an unfinished attempt is 'dispatching').
FinishedStates == {"accepted", "not_sent", "unknown", "cancelled"}

\* content_transition: the only moves a state-machine-checked write may make.
ContentTransition ==
    ({"pending_verification"} \X {"queued", "not_sent", "terminated"})
    \cup ({"queued", "not_sent"} \X {"dispatching", "terminated"})
    \cup ({"dispatching"} \X {"not_sent", "accepted", "unknown"})
    \cup ({"unknown"} \X {"accepted", "terminated"})

\* prepare_attempt's allowed_states, per action_kind.
AllowedStates(kind) ==
    CASE kind = "initial" -> {"queued", "not_sent"}
      [] kind = "manual_resend" -> {"accepted", "unknown", "not_sent"}
      [] kind \in {"confirmation", "manual_confirm"} -> {"accepted"}

\* classify_and_persist: how a result of the adapter is stored, in the attempt
\* and in the row.
\* (Mutant: the platform's word is stored as it is.)
AttemptOfRaw(r) == r
AttemptOf(r) == IF r \in {"accepted", "unknown", "cancelled"} THEN r ELSE "not_sent"
\* (Mutant: a timeout counts as not sent.)
ContentOfTimeout(r) == IF r = "accepted" THEN r ELSE "not_sent"
ContentOf(r) == IF r \in {"accepted", "unknown"} THEN r ELSE "not_sent"

\* What a result of the adapter says of the message it answers for.
Consistent(r, reached) ==
    CASE r = "accepted" -> reached
      [] r = "unknown" -> TRUE
      [] OTHER -> ~reached
=============================================================================

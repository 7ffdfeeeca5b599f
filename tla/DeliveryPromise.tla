-------------------------- MODULE DeliveryPromise --------------------------
(***************************************************************************)
(* What the automatic delivery of orders promises, without saying how: the *)
(* buyer of an order receives its content at most once, and only while     *)
(* nothing has been said of it; what is then said, "delivered" or          *)
(* "unsure", is never taken back, and "delivered" is never said in vain.   *)
(***************************************************************************)
EXTENDS Naturals

CONSTANT Orders

VARIABLES received,  \* copies of its content the buyer of an order has
          verdict    \* what the system says of the delivery

vars == <<received, verdict>>

Init ==
    /\ received = [o \in Orders |-> 0]
    /\ verdict = [o \in Orders |-> "open"]

Deliver(o) ==
    /\ verdict[o] = "open" /\ received[o] = 0
    /\ received' = [received EXCEPT ![o] = 1]
    /\ UNCHANGED verdict

Assert(o) ==
    /\ verdict[o] = "open" /\ received[o] = 1
    /\ verdict' = [verdict EXCEPT ![o] = "delivered"]
    /\ UNCHANGED received

Doubt(o) ==
    /\ verdict[o] = "open"
    /\ verdict' = [verdict EXCEPT ![o] = "unsure"]
    /\ UNCHANGED received

Next == \E o \in Orders : Deliver(o) \/ Assert(o) \/ Doubt(o)

Spec == Init /\ [][Next]_vars
=============================================================================

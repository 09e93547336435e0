---------------------------- MODULE ClientsArray ----------------------------
(* What a render promises about one inbound's clients array, without text:    *)
(* the array is a list of clients and every step applies a plan to it, so     *)
(* "existing entries keep their positions, appends land at the end".          *)
EXTENDS RenderPlan

VARIABLES clients,
          plan        \* the plan being rendered, or NoPlan

Init == clients \in Seq(Client) /\ OneEach(clients) /\ plan = NoPlan

Begin == plan = NoPlan /\ plan' \in Plan /\ UNCHANGED clients
Apply == plan # NoPlan /\ plan' = NoPlan /\ clients' = ApplyPlan(clients, plan)

Next == Begin \/ Apply
Spec == Init /\ [][Next]_<<clients, plan>>
=============================================================================

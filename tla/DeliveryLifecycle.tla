-------------------------- MODULE DeliveryLifecycle --------------------------
(***************************************************************************)
(* What notification/push promises of each push delivery: the state        *)
(* machine at the head of push/state.py, and nothing of workers, leases,   *)
(* batches or the provider.                                                *)
(*                                                                         *)
(* A delivery that a worker took over from another, which was slow and not *)
(* dead, is "overtaken": of that one nothing is promised here.             *)
(***************************************************************************)
CONSTANT Deliveries

VARIABLE phase

Terminal == {"delivered", "failed"}
Held     == {"in_flight", "sent"}

\* The steps of the machine.  A claim that was lost is claimed again, which
\* is no step; a receipt that reports a passing error queues a sent delivery.
Steps ==
    { <<"none", "queued">>,
      <<"queued", "in_flight">>,
      <<"in_flight", "sent">>, <<"in_flight", "queued">>, <<"in_flight", "failed">>,
      <<"sent", "delivered">>, <<"sent", "queued">>, <<"sent", "failed">> }

LifecycleInit == phase = [d \in Deliveries |-> "none"]

\* Rows move together when a batch is queued or claimed.
Advance ==
    /\ phase' \in [Deliveries -> {"none", "queued", "overtaken"} \cup Held \cup Terminal]
    /\ \A d \in Deliveries :
          \/ phase'[d] = phase[d]
          \/ <<phase[d], phase'[d]>> \in Steps
          \/ phase[d] \in Held /\ phase'[d] = "overtaken"

LifecycleSpec == LifecycleInit /\ [][Advance]_phase

=============================================================================

--------------------------- MODULE MCPushDelivery ---------------------------
(***************************************************************************)
(* Small instances of the push queue.                                      *)
(***************************************************************************)
EXTENDS PushDelivery

CONSTANTS t1

OneDevice == [d \in Deliveries |-> t1]

=============================================================================

--------------------------- MODULE MCAMQPDelivery ---------------------------
(* Small instances of AMQPDelivery for TLC. *)
EXTENDS AMQPDelivery, TLC

\* Application goroutines are interchangeable.
Symmetry == Permutations(Callers)

=============================================================================

------------------------------ MODULE MCOutbox ------------------------------
(* Instances of Outbox for TLC. *)
EXTENDS Outbox, TLC

CONSTANTS w1, w2, e1, e2, c1, c2, c3, r1

\* e1 has three handlers that emitAsync runs concurrently, e2 has none.
MixedListeners == (e1 :> {c1, c2, c3}) @@ (e2 :> {})

\* The two events belong to one aggregate, e1 first.
SameAggregate == (e1 :> 1) @@ (e2 :> 1)
InOrder == (e1 :> 1) @@ (e2 :> 2)

\* One event, for the runs about what two dispatchers do to the same row.
AloneOneListener == e1 :> {c1}
AloneOne == e1 :> 1

=============================================================================

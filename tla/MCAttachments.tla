--------------------------- MODULE MCAttachments ---------------------------
(* Instances of Attachments for TLC. *)
EXTENDS Attachments, TLC

CONSTANTS r1, r2, p1

OneHome == [r \in Request |-> p1]

=============================================================================

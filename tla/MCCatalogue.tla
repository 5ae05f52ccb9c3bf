---------------------------- MODULE MCCatalogue ----------------------------
(* An instance of Catalogue for TLC.                                       *)
EXTENDS Catalogue, TLC

CONSTANTS laptop, desktop, tags, clinic, terminal1

\* clinic needs tags and ships a migration of its own SQL.
Needs == (tags :> {}) @@ (clinic :> {tags})

\* What died in the middle is followed further for one module at a time, and before
\* anything is published.
Gone(x) == x.sql = "gone"
Broken ==
  halfway \cup (files \ Installed(lock)) \cup {x.of : x \in {y \in ToSet(tree[Home]) : Gone(y)}}
Followed == InOrder /\ (Broken # {} => Len(published) = 1 /\ Cardinality(Broken) <= 1)
=============================================================================

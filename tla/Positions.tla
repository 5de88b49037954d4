------------------------------ MODULE Positions ------------------------------
(***************************************************************************)
(* The elements of a sequence at some of its positions, in their order:    *)
(* what a filter keeps of a list, whatever it looks at.                    *)
(***************************************************************************)
EXTENDS Naturals, Sequences, FiniteSets

\* How many positions of kept there are up to i.
Rank(kept, i) == Cardinality({j \in kept : j <= i})

Filtered(seq, kept) ==
  [k \in 1 .. Cardinality(kept) |-> seq[CHOOSE i \in kept : Rank(kept, i) = k]]

=============================================================================

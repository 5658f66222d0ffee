------------------------------ MODULE Accounts ------------------------------
(***************************************************************************)
(* The sum over a finite set and the removal of an element of a sequence,  *)
(* defined without a fold, so that proofs can reason about them.           *)
(***************************************************************************)
EXTENDS Integers, FiniteSets, SequencesExt

\* f[x] units for each x of S with f[x] > 0.
Units(S, f) == UNION {{x} \X (1..f[x]) : x \in S}

\* The sum of f[x] over S, for whole numbers f[x].
Total(S, f) == Cardinality(Units(S, f)) - Cardinality(Units(S, [x \in S |-> -f[x]]))

\* s without the element e, which it holds at most once.
Without(s, e) ==
  IF e \in ToSet(s) THEN RemoveAt(s, CHOOSE i \in DOMAIN s : s[i] = e) ELSE s
=============================================================================

----------------------------- MODULE MCAdaptive -----------------------------
(* Adaptive on small instances. *)
EXTENDS Adaptive

\* Handlers are interchangeable (keys are not: AnyKey names one of them).
Symmetry == Permutations(Callers)
=============================================================================

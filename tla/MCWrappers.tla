----------------------------- MODULE MCWrappers -----------------------------
(***************************************************************************)
(* Module Wrappers on small heaps, for TLC.                                *)
(***************************************************************************)
EXTENDS Wrappers, TLC

\* Slots of the heap are interchangeable, and so are handles.
Symmetry == Permutations(Obj) \cup Permutations(Native)
=============================================================================

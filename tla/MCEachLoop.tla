----------------------------- MODULE MCEachLoop -----------------------------
(***************************************************************************)
(* Module EachLoop with two threads and short lists, for TLC.  One thread  *)
(* nests loops, the other one has a loop at a time.                        *)
(***************************************************************************)
EXTENDS EachLoop, TLC

CONSTANTS t1, t2

Threads == {t1, t2}
Depths == (t1 :> 2) @@ (t2 :> 1)

Symmetry == Permutations(Subject) \cup Permutations(Entry)

\* The lists of at most one name.
ShortLists == {<<>>} \cup {<<e>> : e \in Entry}

\* A loop with names, that can also be sent to another list, and one without.
SomeWalkers == {"each_property_qualifier", "to_a"}
=============================================================================

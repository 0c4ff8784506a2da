---------------------------- MODULE HandleTable ----------------------------
(***************************************************************************)
(* What the wrapper layer of ruby-sfcc promises about the handles of the   *)
(* native CIM client library (sfcc), free of how Ruby's garbage collector  *)
(* and the wrapper structs bring it about:                                 *)
(*                                                                         *)
(*   - a handle is acquired once and reclaimed at most once;               *)
(*   - a handle the program can still use is never reclaimed;              *)
(*   - a handle that stopped being usable never becomes usable again.      *)
(***************************************************************************)
CONSTANT Native    \* the native handles: CIMCClient *, CIMCInstance *, ...

VARIABLES made,    \* handles the native library has handed out so far
          gone,    \* handles given back with ft->release
          usable   \* handles the Ruby program can still reach

vars == <<made, gone, usable>>

Init == made = {} /\ gone = {} /\ usable = {}

\* A call makes fresh handles; those reachable from its result can be used.
Acquire ==
  \E S \in SUBSET (Native \ made) :
    /\ S # {}
    /\ made' = made \cup S
    /\ \E U \in SUBSET S : usable' = usable \cup U
    /\ UNCHANGED gone

\* The program loses its way to some handles.
Forget ==
  /\ usable' \in SUBSET usable
  /\ UNCHANGED <<made, gone>>

\* Handles out of use are given back, each of them once.
Reclaim ==
  \E S \in SUBSET (made \ (usable \cup gone)) :
    /\ gone' = gone \cup S
    /\ UNCHANGED <<made, usable>>

Next == Acquire \/ Forget \/ Reclaim

Spec == Init /\ [][Next]_vars
=============================================================================

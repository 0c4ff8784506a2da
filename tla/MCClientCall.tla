---------------------------- MODULE MCClientCall ----------------------------
(***************************************************************************)
(* Module ClientCall with a few threads, for TLC.                          *)
(***************************************************************************)
EXTENDS ClientCall, TLC

Symmetry == Permutations(Thread)

\* Every operation, or one of each sort.
AllCalls == Operation
SomeCalls == {"instances", "invoke_method", "set_property"}

OneCall == {"delete_instance"}

\* Calls whose string is the last argument to be converted.
NameCalls == {"set_property", "property"}

AnyString == {"constant", "shared", "temporary"}
ConstantString == {"constant"}
PlainString == {"constant", "shared"}
TemporaryString == {"temporary"}
=============================================================================

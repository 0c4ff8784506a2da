----------------------------- MODULE MCCimData -----------------------------
(***************************************************************************)
(* Module CimData with a few objects, for TLC.                             *)
(***************************************************************************)
EXTENDS CimData, TLC

CONSTANTS i1, c1   \* an instance and a CIM string

Sources == {i1, c1}
TypeOfSource == [s \in Sources |-> Scalar(IF s = i1 THEN "instance" ELSE "string")]

Symmetry == Permutations(Data) \cup Permutations(Native)

\* A type of each sort the code tells apart.
MCTypes == {Scalar("boolean"), Scalar("uint8"), Scalar("real64"), Scalar("string"),
            Scalar("instance"), Array("string"), Array("sint64")}

\* Every value but true and false: the code never stores them (cim_data.c:214).
NoBooleans == Value \ {"boolean"}

\* Values and types with which an assignment can fail.  Arrays are left out:
\* after a failed assignment of one the state is good, and the object may take
\* its source's value for its own.
NoArrays == {"word", "huge", "other", i1, c1}
TypesForNoArrays == {Scalar("uint8"), Scalar("real64"), Scalar("string"), Scalar("instance")}
=============================================================================

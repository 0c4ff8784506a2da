------------------------------ MODULE CimTypes ------------------------------
(***************************************************************************)
(* The type codes of the CIM client library as sets of bit positions, so   *)
(* that the tests the code makes on them with & are intersections.  The    *)
(* codes are those of the library's header cimc.h.                         *)
(***************************************************************************)
EXTENDS Naturals, FiniteSets

\* CIMC_boolean = 0x2, CIMC_uint8 = 0x80, CIMC_string = 0x1600, ...
Code ==
  [null    |-> {},          boolean     |-> {1},         char16 |-> {0, 1},
   real32  |-> {3},         real64      |-> {2, 3},
   uint8   |-> {7},         uint16      |-> {4, 7},
   uint32  |-> {5, 7},      uint64      |-> {4, 5, 7},
   sint8   |-> {6, 7},      sint16      |-> {4, 6, 7},
   sint32  |-> {5, 6, 7},   sint64      |-> {4, 5, 6, 7},
   instance |-> {12},       ref         |-> {8, 12},
   class   |-> {8, 9, 12},  enumeration |-> {8, 10, 12},
   string  |-> {9, 10, 12}, chars       |-> {8, 9, 10, 12},
   dateTime |-> {11, 12},   charsptr    |-> {9, 11, 12}]

ArrayBit == 13   \* CIMC_ARRAY

\* The masks CIMC_UINT, CIMC_SINT and CIMC_REAL.
Uint == {7}
Sint == {6, 7}
Real == {3}

Scalar(name) == Code[name]
Array(name) == Code[name] \cup {ArrayBit}

Has(type, mask) == type \cap mask # {}   \* type & mask

\* The types Cim::Type can name, but args, filter and ptr, to which no Ruby
\* value is converted.
CimType ==
  {Scalar(x) : x \in DOMAIN Code}
  \cup {Array(x) : x \in DOMAIN Code \ {"null", "class", "enumeration"}}

IsArray(type) == ArrayBit \in type

\* The types whose value clear_cimdata releases or frees.
Owning(type) ==
  \/ IsArray(type)
  \/ type \in {Scalar(x) : x \in {"instance", "ref", "class", "enumeration", "string",
                                  "chars", "dateTime", "charsptr"}}
=============================================================================

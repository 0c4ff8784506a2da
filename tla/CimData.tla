------------------------------ MODULE CimData ------------------------------
(***************************************************************************)
(* Cim::Data: a Ruby object around a CIMCData, that is a type, a state and *)
(* a C union, with a flag that says whose the value in the union is.       *)
(*                                                                         *)
(* A value the data object made itself (a CIM string, a copied C string, a *)
(* CIM array) is released when it is replaced or the object is freed.  A   *)
(* value taken from another wrapper (a source: an instance, a CIM string,  *)
(* a class whose property the data describes) stays the source's, and the  *)
(* data object only refers to it.  No mark function ties the two together. *)
(***************************************************************************)
EXTENDS CimTypes

CONSTANTS Data,         \* slots for Cim::Data objects
          Source,       \* wrappers of handles a data object can refer to
          SourceType,   \* SourceType[s]: the CIM type of a source's handle
          Native,       \* native values, each allocated at most once
          Types,        \* the CIM types the program uses
          Values,       \* the Ruby values it uses
          Careful,      \* it gives a data object only convertible values
          KeepSources   \* it holds what a data object refers to, unchanged

\* What the union can hold besides a pointer to a native value: what malloc
\* or the stack left, all zeroes, or a number or boolean.
Plain == {"junk", "zero", "number"}

\* string is the text of a number, word is no such text, huge is a number no
\* C integer holds.  Of the arrays, strings and numbers have elements of one
\* type, mixed has not, nested starts with an array or with what has no CIM
\* value, broken has such an element further on.  other is a Hash, a Cim::Data
\* or whatever else has no case of its own.
Unwrapped == {"nil", "string", "word", "boolean", "number", "huge", "strings",
              "numbers", "mixed", "nested", "broken", "other"}
Value == Unwrapped \cup Source

ASSUME SourceAssumption ==
  /\ SourceType \in [Source -> {Scalar("instance"), Scalar("string")}]
  /\ Source \cap (Native \cup Unwrapped) = {}
ASSUME NativeAssumption == Native \cap (Plain \cup {"none", "gone"}) = {}
ASSUME InputAssumption == Types \subseteq CimType /\ Values \subseteq Value
ASSUME FlagAssumption == Careful \in BOOLEAN /\ KeepSources \in BOOLEAN

VARIABLES data,    \* data[d]: the wrapped struct
          held,    \* held[s]: the handle of source s, or "gone" once it is swept
          state,   \* state[n]: unborn, live, released, or a half-filled array
          fault    \* the undefined behaviour met first, or "none"

vars == <<data, held, state, fault>>

\* type, state, val and ref are the fields of rb_sfcc_data.  in says where the
\* object stands, free (no object), in use, or out of reach of the program;
\* given is the Ruby value the program last gave an object in use, and from the
\* same if its conversion was stored in the union, else "none".
DataRec == [in : {"free", "use", "garbage"}, type : CimType, state : {"good", "null", "bad"},
            val : Plain \cup Native, ref : BOOLEAN,
            given : Value \cup {"none"}, from : Value \cup {"none"}]

NoData == [in |-> "free", type |-> {}, state |-> "null", val |-> "zero", ref |-> FALSE,
           given |-> "none", from |-> "none"]

\* Sfcc_wrap_cim_data of the CIMCData new and from_value start from: its value
\* is whatever the stack held.
NewData == [in |-> "use", type |-> {}, state |-> "null", val |-> "junk", ref |-> TRUE,
            given |-> "none", from |-> "none"]

TypeOK ==
  /\ data \in [Data -> DataRec]
  /\ held \in [Source -> Native \cup {"gone"}]
  /\ state \in [Native -> {"unborn", "live", "released", "half"}]
  /\ fault \in {"none", "null", "wild", "double", "dangling"}

\* Each source wraps a live handle of its own when the program starts.
Init ==
  /\ data = [d \in Data |-> NoData]
  /\ held \in [Source -> Native]
  /\ \A s, u \in Source : held[s] = held[u] => s = u
  /\ state = [n \in Native |-> IF \E s \in Source : held[s] = n THEN "live" ELSE "unborn"]
  /\ fault = "none"

-----------------------------------------------------------------------------
(***************************************************************************)
(* The union.                                                              *)
(***************************************************************************)

\* What following a value as a pointer does.
Follow(v) ==
  IF v = "zero" THEN "null"
  ELSE IF v \in Plain THEN "wild"
  ELSE IF state[v] = "live" THEN "none" ELSE "dangling"

\* What clear_cimdata does with a struct: nothing, unless the type owns its
\* value and the state says there is one.
Clears(r) == Owning(r.type) /\ r.state = "good"

Cleared(r) ==
  IF Clears(r) THEN [r EXCEPT !.state = "null", !.val = "zero"] ELSE r

ClearFault(r) ==
  IF ~Clears(r) THEN "none"
  ELSE IF Follow(r.val) = "dangling" THEN "double" ELSE Follow(r.val)

\* Fault: the array branch releases nothing.
ClearReleasesNoArray(r) ==
  IF Clears(r) /\ ClearFault(r) = "none" /\ ~IsArray(r.type) THEN {r.val} ELSE {}

ClearReleases(r) == IF Clears(r) /\ ClearFault(r) = "none" THEN {r.val} ELSE {}

\* The part of do_set_value and do_set_type that gives up the old value.
GiveUp(r) == [(IF r.ref THEN r ELSE Cleared(r)) EXCEPT !.ref = FALSE]
GiveUpFault(r) == IF r.ref THEN "none" ELSE ClearFault(r)
GiveUpReleases(r) == IF r.ref THEN {} ELSE ClearReleases(r)

-----------------------------------------------------------------------------
(***************************************************************************)
(* Ruby values and what do_set_value makes of them.                        *)
(***************************************************************************)

Arrays == {"strings", "numbers", "mixed", "nested", "broken"}

Numeric(type) == Has(type, Uint \cup Code.char16) \/ Has(type, Sint) \/ Has(type, Real)

Text(type) == type \in {Scalar("string"), Scalar("chars"), Scalar("charsptr")}

\* The value has a meaning as a value of the type.
Convertible(v, type) ==
  \/ v = "nil"
  \/ v \in {"string", "number"} /\ ~IsArray(type) /\ type # Scalar("boolean")
     /\ (Numeric(type) \/ Text(type))
  \/ v = "word" /\ Text(type)
  \/ v = "boolean" /\ type = Scalar("boolean")
  \/ v = "strings" /\ type = Array("string")
  \/ v = "numbers" /\ type = Array("sint64")
  \/ v \in Source /\ SourceType[v] = type

\* The outcome of an assignment to a struct r whose old value was given up:
\* the struct, and whether a Ruby exception is raised.
Ok(r) == [rec |-> r, raises |-> FALSE]
Raise(r) == [rec |-> r, raises |-> TRUE]
Bad(r) == Raise([r EXCEPT !.state = "bad", !.given = "none"])

\* Fault: numbers given to a real are not stored.
AssignScalarNoReal(r, v, n) ==
  IF Has(r.type, Real) THEN Ok(r)
  ELSE IF Numeric(r.type) THEN Ok([r EXCEPT !.val = "number", !.from = v])
  ELSE IF Text(r.type) THEN Ok([r EXCEPT !.val = n, !.from = v])
  ELSE Bad(r)

\* Numbers and strings, the case labels T_STRING and T_FIXNUM: the tests are
\* in this order, and CIMC_char16 has a bit in common with CIMC_boolean, as
\* the code of an array type has with that of its elements.  rb_Float refuses
\* a word, rb_str2inum takes it for 0, NUM2ULL and NUM2LL refuse a huge number.
AssignScalar(r, v, n) ==
  IF Numeric(r.type)
    THEN IF v = (IF Has(r.type, Real) THEN "word" ELSE "huge") THEN Raise(r)
         ELSE Ok([r EXCEPT !.val = "number", !.from = v])
  ELSE IF Text(r.type) THEN Ok([r EXCEPT !.val = n, !.from = v])
  ELSE Bad(r)

\* Arrays: sfcc_rubyarray_to_cimcarray writes the type of the elements into
\* the struct's type before it knows whether it succeeds.
AssignArray(r, v, n) ==
  IF ~IsArray(r.type) THEN Raise(r)
  ELSE CASE v = "strings" -> Ok([r EXCEPT !.val = n, !.type = Array("string"), !.from = v])
         [] v = "numbers" -> Ok([r EXCEPT !.val = n, !.type = Array("sint64"), !.from = v])
         [] v \in {"mixed", "broken"} -> Raise([r EXCEPT !.type = Scalar("string")])
         [] v = "nested"  -> Raise([r EXCEPT !.type = Array("string")])

\* Fault: the value of a wrapped object is taken for the data's own.
AssignSourceOwned(r, s) ==
  IF r.type = SourceType[s] THEN Ok([r EXCEPT !.val = held[s], !.from = s]) ELSE Bad(r)

\* Wrapped objects are not copied.
AssignSource(r, s) ==
  IF r.type = SourceType[s] THEN Ok([r EXCEPT !.val = held[s], !.ref = TRUE, !.from = s])
  ELSE Bad(r)

Assign(r0, v, n) ==
  LET r == [r0 EXCEPT !.state = "good", !.given = v, !.from = "none"] IN
  CASE v = "nil"     -> Ok([r EXCEPT !.state = "null", !.given = "none"])
    [] v = "boolean" -> IF r.type = Scalar("boolean") THEN Ok(r) ELSE Bad(r)
    [] v \in {"string", "word", "number", "huge"} -> AssignScalar(r, v, n)
    [] v \in Arrays  -> AssignArray(r, v, n)
    [] v \in Source  -> AssignSource(r, v)
    [] v = "other"   -> Bad(r)

\* A struct filled with the good value x made from v, its own or another
\* wrapper's.
Filled(t, x, v, ref) ==
  [NewData EXCEPT !.type = t, !.state = "good", !.val = x, !.ref = ref,
                  !.given = v, !.from = v]

\* Fault: from_value takes every value for its own.
FromRubyOwned(v, n) ==
  CASE v = "string" -> Ok(Filled(Scalar("string"), n, v, FALSE))
    [] v \in Source -> Ok(Filled(SourceType[v], held[v], v, FALSE))
    [] OTHER        -> Raise(NewData)

\* sfcc_value_to_cimdata on its own, for from_value.
FromRuby(v, n) ==
  CASE v = "nil"     -> Ok([NewData EXCEPT !.val = "zero", !.ref = FALSE])
    [] v \in {"string", "word"} -> Ok(Filled(Scalar("string"), n, v, FALSE))
    [] v = "boolean" -> Ok(Filled(Scalar("boolean"), "number", v, FALSE))
    [] v = "number"  -> Ok(Filled(Scalar("sint64"), "number", v, FALSE))
    [] v = "strings" -> Ok(Filled(Array("string"), n, v, FALSE))
    [] v = "numbers" -> Ok(Filled(Array("sint64"), n, v, FALSE))
    [] v \in Source  -> Ok(Filled(SourceType[v], held[v], v, TRUE))
    [] OTHER         -> Raise(NewData)

-----------------------------------------------------------------------------
(***************************************************************************)
(* Operations.  After undefined behaviour the program makes no more steps. *)
(***************************************************************************)

\* No value is made, or an unborn one is.
Fresh == {n \in Native : state[n] = "unborn"} \cup {"none"}

\* The array that is lost half-filled when an element is met that has no CIM
\* value: newArray was called, the exception leaves nobody to release it.
Half(v, made) ==
  IF v = "broken" /\ made THEN {{n} : n \in Fresh \ {"none"}} ELSE {{}}

\* Slot d goes from record old, whose value is given up if gives, to the
\* record new, into which the value n was put if it is not "none"; the values
\* in half are lost.
Update(d, old, gives, new, n, half) ==
  /\ fault = "none"
  /\ new.val # "none"
  /\ n # "none" => new.val = n
  /\ fault' = IF gives THEN GiveUpFault(old) ELSE "none"
  /\ data' = [data EXCEPT ![d] = new]
  /\ state' = [m \in Native |->
                 IF gives /\ m \in GiveUpReleases(old) THEN "released"
                 ELSE IF m = n THEN "live"
                 ELSE IF m \in half THEN "half" ELSE state[m]]
  /\ UNCHANGED held

\* Fault: a changed type leaves the state of a value that was not found.
RetypedNotFound(r, t) ==
  IF r.type = t THEN r
  ELSE [GiveUp(r) EXCEPT !.type = t, !.state = "notFound", !.given = "none", !.from = "none"]

\* do_set_type to a known type.
Retyped(r, t) ==
  IF r.type = t THEN r
  ELSE [GiveUp(r) EXCEPT !.type = t, !.state = "null", !.given = "none", !.from = "none"]

\* A source the program passes still exists.
Available(v) == v \in Source => held[v] # "gone"

\* The program has no reference to the object any more.
Lost(r) == [r EXCEPT !.in = "garbage", !.given = "none", !.from = "none"]

\* If a step of new raises, the object is made but nobody has it.
Made(out) == IF out.raises THEN Lost(out.rec) ELSE out.rec

\* Data.new(type, value)
New(d, t, v) ==
  \E n \in Fresh, half \in Half(v, IsArray(t)) :
    /\ data[d].in = "free" /\ Available(v)
    /\ Careful => Convertible(v, t)
    /\ Update(d, NewData, FALSE, Made(Assign(GiveUp(Retyped(NewData, t)), v, n)), n, half)

\* Data.from_value(value)
FromValue(d, v) ==
  \E n \in Fresh, half \in Half(v, TRUE) :
    /\ data[d].in = "free" /\ Available(v)
    /\ Update(d, NewData, FALSE, Made(FromRuby(v, n)), n, half)

\* Fault: a copied struct owns what the original owns.
FromDataOwned(d, e) ==
  /\ ~KeepSources
  /\ data[d].in = "free" /\ data[e].in = "use"
  /\ Update(d, NewData, FALSE, data[e], "none", {})

\* Data.from_value(data): the struct is copied, pointer and all.
FromData(d, e) ==
  /\ ~KeepSources
  /\ data[d].in = "free" /\ data[e].in = "use"
  /\ Update(d, NewData, FALSE, [data[e] EXCEPT !.ref = TRUE], "none", {})

\* Class#property, qualifier, property_qualifier and the each_ methods: the
\* data refers to a value inside the class.
DescribeProperty(d, s) ==
  /\ data[d].in = "free" /\ held[s] # "gone"
  /\ Update(d, NewData, FALSE, Filled(SourceType[s], held[s], s, TRUE), "none", {})

\* data.type = a type.  An unknown name raises, an unknown number returns, and
\* neither changes anything.
SetType(d, t) ==
  LET r == data[d] IN
  /\ r.in = "use"
  /\ Update(d, r, r.type # t, Retyped(r, t), "none", {})

\* data.type = an object that is no type.
SetTypeBad(d) ==
  /\ ~Careful
  /\ data[d].in = "use"
  /\ Update(d, data[d], FALSE, [data[d] EXCEPT !.state = "bad"], "none", {})

\* data.value = a value, whether it raises or not.
SetValue(d, v) ==
  \E n \in Fresh, half \in Half(v, IsArray(data[d].type)) :
    /\ data[d].in = "use" /\ Available(v)
    /\ Careful => Convertible(v, data[d].type)
    /\ Update(d, data[d], TRUE, Assign(GiveUp(data[d]), v, n).rec, n, half)

\* data.value: sfcc_cimdata_to_value follows the pointer of a good value; it
\* takes a NULL one for an empty array or nil.
GetValue(d) ==
  LET r == data[d] IN
  /\ fault = "none"
  /\ r.in = "use" /\ r.state = "good" /\ Owning(r.type) /\ r.val # "zero"
  /\ fault' = Follow(r.val)
  /\ UNCHANGED <<data, held, state>>

\* The program drops a data object; the collector frees it some time later.
Drop(d) ==
  /\ data[d].in = "use"
  /\ Update(d, data[d], FALSE, Lost(data[d]), "none", {})

Dealloc(d) ==
  /\ data[d].in = "garbage"
  /\ Update(d, data[d], TRUE, NoData, "none", {})

\* The wrapper of a source is swept and releases its handle.
SweepSource(s) ==
  /\ fault = "none"
  /\ held[s] # "gone"
  /\ KeepSources => \A d \in Data : data[d].in = "use" => data[d].val # held[s]
  /\ fault' = IF state[held[s]] = "live" THEN "none" ELSE "double"
  /\ state' = [state EXCEPT ![held[s]] = "released"]
  /\ held' = [held EXCEPT ![s] = "gone"]
  /\ UNCHANGED data

Next ==
  \/ \E d \in Data :
       \/ \E v \in Values : FromValue(d, v) \/ SetValue(d, v)
       \/ \E t \in Types, v \in Values : New(d, t, v)
       \/ \E t \in Types : SetType(d, t)
       \/ \E e \in Data : FromData(d, e)
       \/ \E s \in Source : DescribeProperty(d, s)
       \/ SetTypeBad(d) \/ GetValue(d) \/ Drop(d) \/ Dealloc(d)
  \/ \E s \in Source : SweepSource(s)

Spec == Init /\ [][Next]_vars

-----------------------------------------------------------------------------
(***************************************************************************)
(* Properties.                                                             *)
(***************************************************************************)

\* No value is released twice, read after its release, or used as a pointer
\* when it is none.
NoFault == fault = "none"

\* Every allocated value belongs to a source or to a data object that will
\* release it when its value is replaced or it is freed, but for the arrays
\* that an element without a CIM value leaves half-filled.
ValueOwned ==
  fault = "none" => \A n \in Native : state[n] = "live" =>
    \/ \E s \in Source : held[s] = n
    \/ \E d \in Data : data[d].in # "free" /\ data[d].val = n
                       /\ ~data[d].ref /\ Clears(data[d])

\* No two owners would release the same value.
OneOwner ==
  LET Owns(d, n) == /\ data[d].in # "free" /\ ~data[d].ref
                    /\ Clears(data[d]) /\ data[d].val = n
  IN \A n \in Native : \A d \in Data : Owns(d, n) =>
       /\ \A e \in Data : Owns(e, n) => e = d
       /\ \A s \in Source : held[s] # n

\* While a source is there, its handle is released by nobody: no data object
\* that referred to it, changed its type or failed to take a value does so.
SourceSafe ==
  [][\A s \in Source : held'[s] # "gone" => state'[held[s]] = state[held[s]]]_vars

\* A data object in state good holds what the program last gave it, not what
\* the union held before, and as its type asks for: a pointer if it is a type
\* whose value is released, else a number.
GoodIsStored ==
  \A d \in Data : data[d].in = "use" /\ data[d].state = "good" =>
    /\ data[d].from = data[d].given
    /\ IF Owning(data[d].type) THEN data[d].val \in Native ELSE data[d].val = "number"
=============================================================================

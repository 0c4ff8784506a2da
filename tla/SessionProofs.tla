--------------------------- MODULE SessionProofs ---------------------------
(***************************************************************************)
(* Theorems about Session: for any objects, arguments and answers, and for *)
(* integers of any widths, a call runs the method only when it is asked    *)
(* for, and what comes back is what the CIMOM said.                        *)
(***************************************************************************)
EXTENDS Session, SequenceTheorems, TLAPS

NoOutputs == <<Unset, Unset>>

\* A call by name, of a name that the program cannot read instead.
Named ==
  /\ on \in {"path", "instance", "invoke"} /\ given \in Given
  /\ on \in {"path", "instance"} /\ given = <<>> => world.key = "none"

\* The arguments bound so far are none that the Ruby layer refuses.
Binding ==
  /\ args \in Seq(Arguments) /\ Len(args) <= Len(given)
  /\ Len(given) - Len(args) <= world.ins
  /\ \A i \in 1..Len(args) : args[i] = given[Len(given) - Len(args) + i]
  /\ \A i \in 1..(Len(given) - Len(args)) : given[i] \notin {False, Nil}

\* What the CIMOM is asked is what the description of the class allows.
Asked ==
  /\ client /\ given \in Given
  /\ on \in {"path", "instance"} /\ given = <<>> => world.key = "none"
  /\ on # "client" =>
       /\ world.mof = "present" /\ Len(given) >= world.ins
       /\ \A i \in 1..world.ins : given[i] \notin {False, Nil}
       /\ world.outs => Len(given) = world.ins + 1 /\ given[Len(given)] = Hash

\* What is known of a call by how far it has come.
Stage ==
  /\ pc = "lookup" => on \in {"path", "instance"} /\ given \in Given /\ given = <<>> /\ args = given
  /\ pc = "describe" => Named /\ args = given
  /\ pc = "bind" => Named /\ client /\ world.mof = "present" /\ Binding
  /\ pc \in {"encode", "execute", "decode"} => Asked
  /\ pc \in {"execute", "decode"} =>
       wire = [i \in DOMAIN Inputs |-> Encoded(Inputs[i])] /\ \A i \in DOMAIN Inputs : ~Refused(Inputs[i])
  /\ pc \in {"lookup", "describe", "bind", "encode", "execute", "decode"} => world \in Objects

\* Nothing has come back yet; the CIMOM has answered.
Silent ==
  /\ pc \notin {"decode", "done"} => reply = Null /\ ran = 0
  /\ pc # "done" => out = NoOutputs /\ result = Unset

Answered ==
  pc = "decode" =>
    \E s \in Codes \cup {"OK"}, ret \in CimValue : \E outs :
      /\ reply = Replied(s, outs, ret)
      /\ s = "OK" => ran = 1
      /\ \/ outs = <<>>
         \/ \E x, y : outs = <<x, y>> /\ (wire # <<>> => x = wire[1])

IInv == TypeOK /\ Stage /\ Silent /\ Answered /\ RunsOnlyWhenAsked

\* What the program is to find when a call has ended.
EndsRight == ErrorsTell /\ IntegersArrive /\ OutputsTogether /\ GoodReturned
-----------------------------------------------------------------------------
(***************************************************************************)
(* Status codes.                                                           *)
(***************************************************************************)

LEMMA SameName ==
  \A s \in Known \ {"ERR_ACCESS_DENIED", "ERR_TYPE_MISMATCH", "ERROR_SYSTEM"} :
    ClassName[s] = Documented[s]
BY DEF Known, ClassName, Documented

LEMMA OtherName ==
  /\ Documented["ERR_ACCESS_DENIED"] = "ErrorAccessDenied"
  /\ Documented["ERR_TYPE_MISMATCH"] = "ErrorTypeMisMatch"
  /\ Documented["ERROR_SYSTEM"] = "ErrorErrorSystem"
BY DEF ClassName, Documented

NotDefined == {"ErrorAcessDenied", "ErrorTypeMismatch", "ErrorSystem", "ErrorNeverUnload"}

LEMMA MisnamedNames ==
  /\ \A s \in Known : ClassName[s] \in NotDefined => s \in Misnamed
  /\ \A s \in Misnamed : s \in Known /\ ClassName[s] \in NotDefined
BY DEF Known, ClassName, Misnamed, NotDefined

\* A code is raised as the documented class, or as a NameError if misnamed.
LEMMA RaisedAs ==
  ASSUME NEW s \in Known
  PROVE  Raised(s) = IF s \in Misnamed THEN "NameError" ELSE Documented[s]
<1>0. s # "UNLISTED"
  BY DEF Known, ClassName
<1>1. CASE s \notin Misnamed
  <2>1. ClassName[s] = Documented[s] /\ s # "NEVER_UNLOAD"
    BY <1>1, SameName DEF Misnamed
  <2>2. ClassName[s] \in DefinedClass
    BY <2>1 DEF DefinedClass
  <2> QED
    BY <1>0, <1>1, <2>1, <2>2 DEF Raised
<1>2. CASE s \in Misnamed
  <2>1. ASSUME NEW u \in Known \ {"NEVER_UNLOAD"} PROVE Documented[u] \notin NotDefined
    <3>1. CASE u \in Misnamed
      BY <3>1, OtherName DEF Misnamed, NotDefined
    <3>2. CASE u \notin Misnamed
      BY <3>2, SameName, MisnamedNames DEF Misnamed
    <3> QED
      BY <3>1, <3>2
  <2>2. ClassName[s] \notin DefinedClass
    BY <1>2, <2>1, MisnamedNames DEF DefinedClass
  <2> QED
    BY <1>0, <1>2, <2>2 DEF Raised
<1> QED
  BY <1>1, <1>2

LEMMA OnlyMethodNotFound ==
  ASSUME NEW s \in Known, Raised(s) = "ErrorMethodNotFound"
  PROVE  s = "ERR_METHOD_NOT_FOUND" /\ s \notin Misnamed
<1>1. s \notin Misnamed
  BY RaisedAs
<1>2. Raised(s) = ClassName[s]
  BY <1>1, RaisedAs, SameName DEF Misnamed
<1>3. ClassName[s] = "ErrorMethodNotFound" => s = "ERR_METHOD_NOT_FOUND"
  BY DEF Known, ClassName
<1> QED
  BY <1>1, <1>2, <1>3

LEMMA CodesDiffer == "OK" \notin Failure /\ Failure = Known \cup {"UNLISTED"} /\ "UNLISTED" \notin Known
BY DEF Known, ClassName, Failure

-----------------------------------------------------------------------------
(***************************************************************************)
(* Integers.                                                               *)
(***************************************************************************)

LEMMA Small ==
  ASSUME NEW m \in Nat \ {0}, NEW n \in 0..(m - 1)
  PROVE  n % m = n
OBVIOUS

LEMMA HalfPositive ==
  \A w \in {8, 16, 32, 64} : Half[w] \in Nat \ {0} /\ Half[w] <= Half[64]
                            /\ (w <= 32 => Half[w] <= Half[32])
BY HalfAssumption

LEMMA WidthType == \A type \in IntType : Width[type] \in {8, 16, 32, 64}
BY DEF Width, IntType

\* Reduced to w bits, a number in their range stays as it is.
LEMMA AsUnsignedSame ==
  ASSUME NEW w \in {8, 16, 32, 64}, NEW n \in UnsignedRange(w)
  PROVE  AsUnsigned(n, w) = n
<1>1. 2 * Half[w] \in Nat \ {0}
  BY HalfPositive
<1> QED
  BY <1>1, Small DEF AsUnsigned, UnsignedRange

LEMMA AsSignedSame ==
  ASSUME NEW w \in {8, 16, 32, 64}, NEW n \in SignedRange(w)
  PROVE  AsSigned(n, w) = n
<1>1. 2 * Half[w] \in Nat \ {0} /\ Half[w] \in Nat
  BY HalfPositive
<1>2. n \in Int /\ n + Half[w] \in 0..(2 * Half[w] - 1)
  BY <1>1 DEF SignedRange
<1>3. (n + Half[w]) % (2 * Half[w]) = n + Half[w]
  BY <1>1, <1>2, Small
<1> QED
  BY <1>1, <1>2, <1>3 DEF AsSigned

LEMMA Reduced ==
  ASSUME NEW w \in {8, 16, 32, 64}, NEW n \in Int
  PROVE  AsUnsigned(n, w) \in UnsignedRange(w) /\ AsSigned(n, w) \in SignedRange(w)
<1>1. 2 * Half[w] \in Nat \ {0} /\ Half[w] \in Nat
  BY HalfPositive
<1>2. ASSUME NEW k \in Int PROVE k % (2 * Half[w]) \in 0..(2 * Half[w] - 1)
  BY <1>1
<1>3. AsUnsigned(n, w) \in UnsignedRange(w)
  BY <1>2 DEF AsUnsigned, UnsignedRange
<1>4. (n + Half[w]) % (2 * Half[w]) \in 0..(2 * Half[w] - 1)
  BY <1>1, <1>2
<1>5. AsSigned(n, w) \in SignedRange(w)
  BY <1>1, <1>4 DEF AsSigned, SignedRange
<1> QED
  BY <1>3, <1>5

\* A value of its type is held as it is; whatever is held is of the type.
LEMMA HeldSame ==
  ASSUME NEW type \in IntType, NEW n \in Int
  PROVE  /\ Held(type, n) \in ValuesOf(type)
         /\ n \in ValuesOf(type) => Held(type, n) = n
BY WidthType, Reduced, AsUnsignedSame, AsSignedSame DEF Held, ValuesOf

\* Values of up to 32 bits become the same Ruby integers.
LEMMA ToRubySame ==
  ASSUME NEW type \in IntType, Width[type] <= 32, NEW n \in ValuesOf(type)
  PROVE  ToRuby(type, n) = n
<1>1. Half[Width[type]] \in Nat /\ Half[32] \in Nat /\ Half[Width[type]] <= Half[32]
  BY WidthType, HalfPositive
<1>2. CASE type \in Unsigned
  <2>1. n \in UnsignedRange(32)
    BY <1>1, <1>2 DEF ValuesOf, UnsignedRange
  <2> QED
    BY <1>2, <2>1, AsUnsignedSame DEF ToRuby
<1>3. CASE type \notin Unsigned
  <2>1. n \in SignedRange(32)
    BY <1>1, <1>3 DEF ValuesOf, SignedRange
  <2> QED
    BY <1>3, <2>1, AsSignedSame DEF ToRuby
<1> QED
  BY <1>2, <1>3

\* An integer that is not refused is a value of sint64; a Fixnum comes back.
LEMMA SentSame ==
  ASSUME NEW n \in Int, Sendable(n)
  PROVE  /\ n \in ValuesOf("sint64")
         /\ IsFixnum(n) => ToRuby("sint64", n) = n
<1>1. "sint64" \notin Unsigned /\ Width["sint64"] = 64
  BY DEF Unsigned, Width
<1>2. n \in SignedRange(64)
  <2>1. n \in SignedRange(32) => n \in SignedRange(64)
    BY HalfAssumption DEF SignedRange
  <2> QED
    BY <2>1 DEF Sendable
<1>3. IsFixnum(n) => AsSigned(n, 32) = n
  BY AsSignedSame DEF Sendable
<1> QED
  BY <1>1, <1>2, <1>3 DEF ValuesOf, ToRuby
-----------------------------------------------------------------------------
(***************************************************************************)
(* Values.                                                                 *)
(***************************************************************************)

LEMMA AnswerTyped ==
  ASSUME NEW v \in CimValue
  PROVE  /\ "status" \notin DOMAIN v /\ "ret" \notin DOMAIN v
         /\ v.state \in {"good", "null", "bad", "notFound"}
         /\ Short(v) => v.n \in ValuesOf(v.type)
<1>1. v \in {Null, Bad, NotFound, CimFalse} \/ v \in Spoilt \/ \E a \in Answers : v = Good(a.type, a.n)
  BY DEF CimValue
<1>2. CASE v = Null
  BY <1>2 DEF Null, Short
<1>3. CASE v = Bad
  BY <1>3 DEF Bad, Short
<1>4. CASE v = CimFalse
  BY <1>4 DEF CimFalse, Good, Short, IntType, Width
<1>5. CASE \E a \in Answers : v = Good(a.type, a.n)
  BY <1>5, AnswersAssumption DEF Good, Short
<1>6. CASE v = NotFound
  BY <1>6 DEF NotFound, Short
<1>7. CASE v \in Spoilt
  BY <1>7 DEF Spoilt, Short, IntType, Width
<1> QED
  BY <1>1, <1>2, <1>3, <1>4, <1>5, <1>6, <1>7

\* What a conversion gives.
LEMMA ToValueIs ==
  ASSUME NEW v
  PROVE  /\ ToValue(v) \notin {Error("ErrorNoSuchProperty"), Error("ErrorMethodNotFound")}
         /\ ToValue(v) # Unset
         /\ ToValue(v).is = "int" => ToValue(v) = RubyInt(ToRuby(v.type, v.n))
<1>1. \A w \in Spoilt : w.class \in {"ArgumentError", "RuntimeError", "TypeError"}
  BY DEF Spoilt
<1> QED
  BY <1>1 DEF ToValue, Nil, Error, False, RubyInt, Unset

\* What ends a call whose outputs are lost.
LEMMA UnmergedIs ==
  ASSUME NEW outs
  PROVE  Unmerged(outs) \in {Error("ArgumentError"), Error("RuntimeError"), Error("TypeError")}
<1>1. ASSUME NEW v \in Spoilt
      PROVE  ToValue(v) \in {Error("ArgumentError"), Error("RuntimeError"), Error("TypeError")}
  <2>1. v.state = "good" /\ v # CimFalse
    BY DEF Spoilt, CimFalse, Good
  <2>2. v.class \in {"ArgumentError", "RuntimeError", "TypeError"}
    BY DEF Spoilt
  <2>3. ToValue(v) = Error(v.class)
    BY <2>1 DEF ToValue
  <2> QED
    BY <2>2, <2>3
<1> QED
  BY <1>1 DEF Unmerged

LEMMA ShortArrives ==
  ASSUME NEW v, Short(v), v.n \in ValuesOf(v.type)
  PROVE  ToValue(v) = RubyInt(v.n)
<1>1. ToRuby(v.type, v.n) = v.n
  BY ToRubySame DEF Short
<1>2. v.state = "good" /\ v # CimFalse /\ v \notin Spoilt
  BY DEF Short, CimFalse, Good, IntType, Width, Spoilt
<1> QED
  BY <1>1, <1>2 DEF ToValue

LEMMA GivenTyped ==
  ASSUME NEW list \in Given
  PROVE  list \in Seq(Arguments) /\ \A i \in 1..Len(list) : IsArgument(list[i]) /\ list[i] \in Arguments
BY GivenAssumption

\* The inputs of a call that is allowed are among its arguments.
LEMMA InputsTyped ==
  ASSUME Asked, world \in Objects
  PROVE  /\ Inputs \in Seq(Arguments)
         /\ \A i \in DOMAIN Inputs : IsArgument(Inputs[i])
<1>1. given \in Seq(Arguments) /\ \A i \in 1..Len(given) : IsArgument(given[i])
  BY GivenTyped DEF Asked
<1>2. CASE on = "client"
  BY <1>1, <1>2 DEF Inputs
<1>3. CASE on # "client"
  <2>1. world.ins \in Nat /\ world.ins <= Len(given)
    BY <1>1, <1>3, ObjectsAssumption DEF Asked, World
  <2>2. Inputs = [i \in 1..world.ins |-> given[i]]
    BY <1>1, <1>3, <2>1 DEF Inputs
  <2>3. Inputs \in Seq(Arguments)
    BY <1>1, <1>3, <2>1 DEF Inputs
  <2> QED
    BY <1>1, <2>1, <2>2, <2>3
<1> QED
  BY <1>2, <1>3

\* An argument that is not refused becomes false, nil or an integer of its type.
LEMMA EncodedTyped ==
  ASSUME NEW a, IsArgument(a), ~Refused(a)
  PROVE  \/ Encoded(a) \in {Null, CimFalse}
         \/ Encoded(a).type \in Types /\ Encoded(a).n \in ValuesOf(Encoded(a).type)
<1>1. CASE a \in {False, Nil}
  BY <1>1 DEF Encoded, False, Nil
<1>2. CASE a.is = "int" /\ a.n \in Int /\ a = RubyInt(a.n)
  <2>1. Encoded(a) = Good("sint64", a.n)
    BY <1>2 DEF Encoded
  <2>2. Sendable(a.n)
    BY <1>2 DEF Refused
  <2> QED
    BY <1>2, <2>1, <2>2, SentSame, TypesAssumption DEF Good
<1>3. CASE a.is = "data" /\ a.type \in Types /\ a.n \in Int
  <2>1. Encoded(a) = Good(a.type, Held(a.type, a.n))
    BY <1>3 DEF Encoded
  <2> QED
    BY <1>3, <2>1, HeldSame, TypesAssumption DEF Good
<1> QED
  BY <1>1, <1>2, <1>3 DEF IsArgument, Refused

\* An argument the CIMOM sends back arrives as it was given.
LEMMA Echoed ==
  ASSUME NEW a, IsArgument(a), ~Refused(a)
  PROVE  \/ a.is \notin {"int", "data"}
         \/ a.is = "int" /\ ~IsFixnum(a.n)
         \/ a.is = "data" /\ (Width[a.type] = 64 \/ a.n \notin ValuesOf(a.type))
         \/ ToValue(Encoded(a)) = RubyInt(a.n)
<1>1. CASE a.is = "int" /\ IsFixnum(a.n)
  <2>1. a.n \in Int /\ Sendable(a.n)
    BY <1>1 DEF IsArgument, Refused, False, Nil, Hash, Other
  <2>2. Encoded(a) = Good("sint64", a.n) /\ ToRuby("sint64", a.n) = a.n
    BY <1>1, <2>1, SentSame DEF Encoded
  <2> QED
    BY <2>2 DEF ToValue, Good, CimFalse, Spoilt
<1>2. CASE a.is = "data" /\ Width[a.type] # 64 /\ a.n \in ValuesOf(a.type)
  <2>1. a.type \in IntType /\ a.n \in Int
    BY <1>2, TypesAssumption DEF IsArgument, False, Nil, Hash, Other
  <2>2. Width[a.type] <= 32
    BY <1>2, <2>1, WidthType
  <2>3. Encoded(a) = Good(a.type, a.n)
    BY <1>2, <2>1, HeldSame DEF Encoded
  <2> QED
    BY <1>2, <2>1, <2>2, <2>3, ShortArrives DEF Good, Short
<1> QED
  BY <1>1, <1>2
-----------------------------------------------------------------------------
(***************************************************************************)
(* How a call goes on.                                                     *)
(***************************************************************************)

\* As long as a call has not ended there is nothing to find.
LEMMA NothingYet ==
  ASSUME Silent, pc # "done"
  PROVE  EndsRight
BY DEF Silent, EndsRight, ErrorsTell, IntegersArrive, OutputsTogether, GoodReturned, NoOutputs, Unset

LEMMA GoOn ==
  ASSUME Silent', pc' # "done"
  PROVE  EndsRight'
BY DEF EndsRight, ErrorsTell, IntegersArrive, OutputsTogether, GoodReturned, Silent, NoOutputs, Unset

\* A step that ends a call before the CIMOM was asked.
LEMMA EndStep ==
  ASSUME IInv, NEW r, r.is \in {"error", "nil"}, pc' = "done", result' = r,
         pc \in {"describe", "bind", "encode"},
         wire' = wire, argout' = argout,
         UNCHANGED <<world, client, on, given, ran, reply, out>>
  PROVE  IInv' /\ EndsRight'
<1>1. reply = Null /\ ran = 0 /\ out = NoOutputs
  BY DEF IInv, Silent
<1>2. TypeOK'
  BY DEF IInv, TypeOK
<1>3. Stage' /\ Silent' /\ Answered' /\ RunsOnlyWhenAsked'
  BY <1>1 DEF IInv, Stage, Silent, Answered, RunsOnlyWhenAsked
<1>4. Null \in CimValue /\ "status" \notin DOMAIN Null /\ "ret" \notin DOMAIN Null /\ Null.state # "good"
  BY DEF CimValue, Null
<1>5. EndsRight'
  BY <1>1, <1>4 DEF EndsRight, ErrorsTell, IntegersArrive, OutputsTogether, GoodReturned, NoOutputs, Short
<1> QED
  BY <1>2, <1>3, <1>5 DEF IInv

LEMMA InitIInv == Init => IInv /\ EndsRight
<1> SUFFICES ASSUME Init PROVE IInv /\ EndsRight
  OBVIOUS
<1>1. Silent
  BY DEF Init, Idle, Silent, NoOutputs
<1>2. TypeOK
  <2>1. wire = <<>> /\ wire \in Seq(CimValue) /\ Len(wire) = 0
    BY EmptySeq DEF Init, Idle
  <2>2. DOMAIN wire = {}
    BY <2>1, LenProperties
  <2> QED
    BY <2>2 DEF Init, Idle, TypeOK
<1>3. IInv
  BY <1>1, <1>2 DEF Init, Idle, IInv, Stage, Answered, RunsOnlyWhenAsked
<1> QED
  BY <1>1, <1>3, NothingYet DEF Init, Idle

LEMMA ConnectStep ==
  ASSUME IInv, pc = "idle",
         NEW explicit \in Parts, NEW uri \in Parts, NEW verify \in {"true", "false"},
         Connect(explicit, uri, verify)
  PROVE  IInv' /\ EndsRight'
<1>1. reply = Null /\ ran = 0 /\ out = NoOutputs
  BY DEF IInv, Silent
<1>2. /\ pc' = "done" /\ on' = "connect" /\ given' = <<explicit, uri>> /\ client' \in BOOLEAN
      /\ UNCHANGED <<world, args, wire, argout, ran, reply, out>>
  BY DEF Connect
<1>3. IInv'
  BY <1>1, <1>2 DEF IInv, TypeOK, Stage, Silent, Answered, RunsOnlyWhenAsked
<1>4. result'.is \in {"client", "error"}
  BY DEF Connect, Error, Connected
<1>5. Null \in CimValue /\ "status" \notin DOMAIN Null /\ "ret" \notin DOMAIN Null /\ Null.state # "good"
  BY DEF CimValue, Null
<1>6. EndsRight'
  BY <1>1, <1>2, <1>4, <1>5 DEF EndsRight, ErrorsTell, IntegersArrive, OutputsTogether, GoodReturned, NoOutputs, Short
<1> QED
  BY <1>3, <1>6

LEMMA TakeStep ==
  ASSUME IInv, EndsRight, pc = "idle", NEW w \in Objects, TakeObject(w)
  PROVE  IInv' /\ EndsRight'
<1>1. world' = w /\ UNCHANGED <<client, pc, call>> /\ ran = 0
  BY DEF IInv, Silent, TakeObject
<1>2. TypeOK' /\ RunsOnlyWhenAsked'
  BY <1>1 DEF IInv, TypeOK, RunsOnlyWhenAsked, call
<1>3. Stage' /\ Silent' /\ Answered'
  BY <1>1 DEF IInv, Stage, Silent, Answered, call
<1>4. EndsRight'
  BY <1>1, <1>3, GoOn DEF IInv, Silent, call
<1> QED
  BY <1>2, <1>3, <1>4 DEF IInv

LEMMA CallStep ==
  ASSUME IInv, pc = "idle", NEW what \in {"path", "instance", "invoke"}, NEW list \in Given,
         Call(what, list)
  PROVE  IInv' /\ EndsRight'
<1>1. /\ on' = what /\ given' = list /\ args' = list
      /\ pc' = IF what # "invoke" /\ list = <<>> THEN "lookup" ELSE "describe"
      /\ UNCHANGED <<world, client, wire, argout, ran, reply, out, result>>
      /\ world \in Objects /\ ran = 0
  BY DEF Call, IInv, TypeOK, Silent
<1>2. TypeOK' /\ RunsOnlyWhenAsked'
  BY <1>1 DEF IInv, TypeOK, RunsOnlyWhenAsked
<1>3. Stage' /\ Silent' /\ Answered'
  BY <1>1 DEF IInv, Stage, Silent, Answered, Named
<1>4. pc' # "done"
  BY <1>1
<1>5. EndsRight'
  BY <1>3, <1>4, GoOn
<1> QED
  BY <1>2, <1>3, <1>5 DEF IInv

LEMMA CallNativeStep ==
  ASSUME IInv, pc = "idle", NEW list \in Given, NEW o \in {"nil", "hash", "other"},
         CallNative(list, o)
  PROVE  IInv' /\ EndsRight'
<1>1. /\ on' = "client" /\ given' = list /\ argout' = o /\ pc' = "encode" /\ client
      /\ UNCHANGED <<world, client, args, wire, ran, reply, out, result>>
      /\ world \in Objects /\ ran = 0
  BY DEF CallNative, IInv, TypeOK, Silent
<1>2. TypeOK' /\ RunsOnlyWhenAsked'
  BY <1>1 DEF IInv, TypeOK, RunsOnlyWhenAsked
<1>3. Stage' /\ Silent' /\ Answered'
  BY <1>1 DEF IInv, Stage, Silent, Answered, Asked
<1>4. EndsRight'
  BY <1>1, <1>3, GoOn
<1> QED
  BY <1>2, <1>3, <1>4 DEF IInv

LEMMA LookupStep ==
  ASSUME IInv, Lookup
  PROVE  IInv' /\ EndsRight'
<1>0. pc = "lookup" /\ UNCHANGED <<world, client, on, args, given, wire, argout, ran, out>>
  BY DEF Lookup
<1>1. /\ reply = Null /\ ran = 0 /\ out = NoOutputs /\ result = Unset /\ world \in Objects
      /\ on \in {"path", "instance"} /\ given \in Given /\ given = <<>> /\ args = given
  BY <1>0 DEF IInv, Silent, Stage
<1>2. PICK v \in CimValue, s \in {"ERR_NO_SUCH_PROPERTY", "ERR_NOT_FOUND"} :
        LET r == IF world.key = "none" THEN Error(Raised(s)) ELSE ToValue(v) IN
        /\ IF world.key = "none" THEN v = Null ELSE v.state = world.key
        /\ reply' = v
        /\ IF FallsBack(r) THEN pc' = "describe" /\ UNCHANGED result ELSE End(r)
  BY DEF Lookup
<1> DEFINE r == IF world.key = "none" THEN Error(Raised(s)) ELSE ToValue(v)
<1>3. CASE FallsBack(r)
  <2>1. world.key = "none" /\ reply' = Null
    BY <1>2, <1>3, ToValueIs DEF FallsBack
  <2>2. pc' = "describe" /\ UNCHANGED result
    BY <1>2, <1>3
  <2>3. TypeOK' /\ RunsOnlyWhenAsked'
    BY <1>0, <1>1, <2>2 DEF IInv, TypeOK, RunsOnlyWhenAsked
  <2>4. Stage' /\ Silent' /\ Answered'
    BY <1>0, <1>1, <2>1, <2>2 DEF Stage, Silent, Answered, Named
  <2> QED
    BY <2>2, <2>3, <2>4, GoOn DEF IInv
<1>4. CASE ~FallsBack(r)
  <2>1. pc' = "done" /\ result' = r /\ reply' = v
    BY <1>2, <1>4 DEF End
  <2>2. TypeOK' /\ RunsOnlyWhenAsked'
    BY <1>0, <1>1, <2>1 DEF IInv, TypeOK, RunsOnlyWhenAsked
  <2>3. Stage' /\ Silent' /\ Answered'
    BY <1>0, <1>1, <2>1 DEF Stage, Silent, Answered
  <2>4. Short(v) => r = RubyInt(v.n)
    <3>1. v.state = "good" => world.key # "none"
      BY <1>2 DEF Null
    <3> QED
      BY <3>1, AnswerTyped, ShortArrives DEF Short
  <2>5. EndsRight'
    BY <1>0, <1>1, <2>1, <2>4, AnswerTyped
       DEF EndsRight, ErrorsTell, IntegersArrive, OutputsTogether, GoodReturned, NoOutputs, Short
  <2> QED
    BY <2>2, <2>3, <2>5 DEF IInv
<1> QED
  BY <1>3, <1>4

LEMMA DescribeStep ==
  ASSUME IInv, Describe
  PROVE  IInv' /\ EndsRight'
<1>0. pc = "describe" /\ UNCHANGED <<world, client, on, args, given, wire, argout, ran, reply, out>>
  BY DEF Describe
<1>1. reply = Null /\ ran = 0 /\ out = NoOutputs /\ result = Unset /\ world \in Objects
      /\ Named /\ args = given
  BY <1>0 DEF IInv, Silent, Stage
<1>2. CASE \E r \in {Error("RuntimeError"), Nil, Rescued(Error("ErrorMethodNotFound"))} : End(r)
  <2>1. PICK r \in {Error("RuntimeError"), Nil, Rescued(Error("ErrorMethodNotFound"))} : End(r)
    BY <1>2
  <2>2. r.is \in {"error", "nil"}
    BY DEF Error, Nil, Rescued
  <2> QED
    BY <1>0, <2>1, <2>2, EndStep DEF End
<1>3. CASE client /\ world.mof = "present" /\ pc' = "bind" /\ UNCHANGED result
  <2>1. TypeOK' /\ RunsOnlyWhenAsked'
    BY <1>0, <1>1, <1>3 DEF IInv, TypeOK, RunsOnlyWhenAsked
  <2>2. Binding'
    <3>1. given \in Seq(Arguments) /\ world.ins \in Nat
      BY <1>1, GivenTyped, ObjectsAssumption DEF Named, World
    <3>2. Len(given) - Len(args) = 0 /\ args \in Seq(Arguments) /\ Len(args) \in Nat
      BY <1>1, <3>1
    <3> QED
      BY <1>0, <1>1, <3>1, <3>2 DEF Binding
  <2>3. Stage' /\ Silent' /\ Answered'
    BY <1>0, <1>1, <1>3, <2>2 DEF Stage, Silent, Answered, Named
  <2> QED
    BY <1>3, <2>1, <2>3, GoOn DEF IInv
<1>4. world.mof \in {"missing", "absent", "present"}
  BY <1>1, ObjectsAssumption DEF World
<1> QED
  BY <1>2, <1>3, <1>4 DEF Describe

LEMMA BindInputStep ==
  ASSUME IInv, BindInput
  PROVE  IInv' /\ EndsRight'
<1>0. pc = "bind" /\ UNCHANGED <<world, client, on, given, wire, argout, ran, reply, out>>
  BY DEF BindInput
<1>1. reply = Null /\ ran = 0 /\ out = NoOutputs /\ result = Unset /\ world \in Objects
      /\ Named /\ client /\ world.mof = "present" /\ Binding
  BY <1>0 DEF IInv, Silent, Stage
<1>2. CASE End(Error("ArgumentError"))
  BY <1>0, <1>2, EndStep DEF End, Error
<1>3. CASE /\ args # <<>> /\ Head(args) \notin {False, Nil}
           /\ args' = Tail(args) /\ UNCHANGED <<pc, result>>
  <2>1. TypeOK' /\ RunsOnlyWhenAsked'
    BY <1>0, <1>1, <1>3 DEF IInv, TypeOK, RunsOnlyWhenAsked
  <2>2. Binding'
    <3>1. given \in Seq(Arguments) /\ world.ins \in Nat
      BY <1>1, GivenTyped, ObjectsAssumption DEF Named, World
    <3>2. /\ args \in Seq(Arguments) /\ Tail(args) \in Seq(Arguments)
          /\ Len(Tail(args)) = Len(args) - 1 /\ Len(args) \in Nat \ {0} /\ Len(given) \in Nat
          /\ \A i \in 1..Len(Tail(args)) : Tail(args)[i] = args[i + 1]
          /\ Head(args) = args[1]
      BY <1>1, <1>3, <3>1 DEF Binding
    <3>3. args[1] = given[Len(given) - Len(args) + 1]
      BY <1>1, <3>2 DEF Binding
    <3>4. ASSUME NEW i \in 1..(Len(given) - Len(Tail(args))) PROVE given[i] \notin {False, Nil}
      <4>1. CASE i \in 1..(Len(given) - Len(args))
        BY <1>1, <4>1 DEF Binding
      <4>2. CASE i = Len(given) - Len(args) + 1
        BY <1>3, <3>2, <3>3, <4>2
      <4> QED
        BY <3>2, <4>1, <4>2
    <3>5. ASSUME NEW i \in 1..Len(Tail(args))
          PROVE  Tail(args)[i] = given[Len(given) - Len(Tail(args)) + i]
      <4>1. i + 1 \in 1..Len(args) /\ Len(given) - Len(Tail(args)) + i = Len(given) - Len(args) + (i + 1)
        BY <3>2
      <4> QED
        BY <1>1, <3>2, <4>1 DEF Binding
    <3>6. Len(Tail(args)) <= Len(given) /\ Len(given) - Len(Tail(args)) <= world.ins
      BY <1>1, <3>1, <3>2 DEF Binding, BindInput
    <3> QED
      BY <1>0, <1>3, <3>2, <3>4, <3>5, <3>6 DEF Binding
  <2>3. Stage' /\ Silent' /\ Answered'
    BY <1>0, <1>1, <1>3, <2>2 DEF Stage, Silent, Answered, Named
  <2> QED
    BY <1>0, <1>3, <2>1, <2>3, GoOn DEF IInv
<1> QED
  BY <1>2, <1>3 DEF BindInput

LEMMA BindOutputStep ==
  ASSUME IInv, BindOutput
  PROVE  IInv' /\ EndsRight'
<1>0. pc = "bind" /\ UNCHANGED <<world, client, on, args, given, wire, ran, reply, out>>
  BY DEF BindOutput
<1>1. reply = Null /\ ran = 0 /\ out = NoOutputs /\ result = Unset /\ world \in Objects
      /\ Named /\ client /\ world.mof = "present" /\ Binding
  BY <1>0 DEF IInv, Silent, Stage
<1>2. CASE End(Error("RuntimeError")) /\ UNCHANGED argout
  BY <1>0, <1>2, EndStep DEF End, Error
<1>3. CASE /\ world.outs => args # <<>> /\ Head(args) = Hash /\ ~(Len(args) > 1)
           /\ pc' = "encode" /\ UNCHANGED result /\ argout' = IF world.outs THEN "hash" ELSE "nil"
  <2>1. TypeOK' /\ RunsOnlyWhenAsked'
    BY <1>0, <1>1, <1>3 DEF IInv, TypeOK, RunsOnlyWhenAsked
  <2>2. Asked
    <3>1. given \in Seq(Arguments) /\ world.ins \in Nat /\ args \in Seq(Arguments)
          /\ Len(given) \in Nat /\ Len(args) \in Nat
      BY <1>1, GivenTyped, ObjectsAssumption DEF Named, World, Binding
    <3>2. Len(given) - Len(args) = world.ins
      BY DEF BindOutput
    <3>3. \A i \in 1..world.ins : given[i] \notin {False, Nil}
      BY <1>1, <3>2 DEF Binding
    <3>4. ASSUME world.outs PROVE Len(given) = world.ins + 1 /\ given[Len(given)] = Hash
      <4>0. args # <<>> /\ Head(args) = Hash /\ ~(Len(args) > 1)
        BY <1>3, <3>4
      <4>1. Len(args) = 1 /\ args[1] = Hash
        BY <3>1, <4>0, EmptySeq
      <4>2. args[1] = given[Len(given) - Len(args) + 1]
        BY <1>1, <4>1 DEF Binding
      <4> QED
        BY <3>1, <3>2, <4>1, <4>2
    <3> QED
      BY <1>1, <3>1, <3>2, <3>3, <3>4 DEF Asked, Named
  <2>3. Stage' /\ Silent' /\ Answered'
    BY <1>0, <1>1, <1>3, <2>2 DEF Stage, Silent, Answered, Asked
  <2> QED
    BY <1>3, <2>1, <2>3, GoOn DEF IInv
<1> QED
  BY <1>2, <1>3 DEF BindOutput
LEMMA EncodeStep ==
  ASSUME IInv, Encode
  PROVE  IInv' /\ EndsRight'
<1>0. pc = "encode" /\ UNCHANGED <<world, client, on, args, given, argout, ran, reply, out>>
  BY DEF Encode
<1>1. reply = Null /\ ran = 0 /\ out = NoOutputs /\ result = Unset /\ world \in Objects /\ Asked
  BY <1>0 DEF IInv, Silent, Stage
<1>2. CASE /\ \A i \in DOMAIN Inputs : ~Refused(Inputs[i])
           /\ wire' = [i \in DOMAIN Inputs |-> Encoded(Inputs[i])]
           /\ pc' = "execute" /\ UNCHANGED result
  <2>1. Inputs' = Inputs
    BY <1>0 DEF Inputs
  <2>2. \A i \in DOMAIN wire' :
          \/ wire'[i] \in {Null, CimFalse}
          \/ wire'[i].type \in Types /\ wire'[i].n \in ValuesOf(wire'[i].type)
    BY <1>1, <1>2, InputsTyped, EncodedTyped
  <2>3. TypeOK'
    BY <1>0, <1>2, <2>2 DEF IInv, TypeOK
  <2>4. Stage' /\ Silent' /\ Answered' /\ RunsOnlyWhenAsked'
    BY <1>0, <1>1, <1>2, <2>1 DEF Stage, Silent, Answered, Asked, RunsOnlyWhenAsked
  <2> QED
    BY <1>2, <2>3, <2>4, GoOn DEF IInv
<1>3. CASE \E i \in DOMAIN Inputs : End(Refusal(Inputs[i])) /\ UNCHANGED wire
  BY <1>0, <1>3, EndStep DEF End, Refusal, Error
<1> QED
  BY <1>2, <1>3 DEF Encode

LEMMA ExecuteStep ==
  ASSUME IInv, Execute
  PROVE  IInv' /\ EndsRight'
<1>0. pc = "execute" /\ pc' = "decode"
      /\ UNCHANGED <<world, client, on, args, given, wire, argout, out, result>>
  BY DEF Execute
<1>1. /\ ran = 0 /\ out = NoOutputs /\ result = Unset /\ world \in Objects /\ Asked
      /\ wire = [i \in DOMAIN Inputs |-> Encoded(Inputs[i])]
      /\ \A i \in DOMAIN Inputs : ~Refused(Inputs[i])
  BY <1>0 DEF IInv, Silent, Stage
<1>2. ran' = 0 \/ (ran' = 1 /\ world.provided)
  BY <1>1 DEF Execute
<1>3. TypeOK' /\ RunsOnlyWhenAsked'
  BY <1>0, <1>1, <1>2 DEF IInv, TypeOK, RunsOnlyWhenAsked, Asked
<1>4. Answered'
  <2>1. CASE world.provided /\ ran' = ran + 1
             /\ \E second \in {Null, Bad, CimFalse} \cup Spoilt, ret \in CimValue :
                  reply' = Replied("OK",
                                   IF ~world.outs THEN <<>>
                                   ELSE <<IF wire = <<>> THEN CimFalse ELSE wire[1], second>>,
                                   ret)
    <3>1. PICK second \in {Null, Bad, CimFalse} \cup Spoilt, ret \in CimValue :
                 reply' = Replied("OK",
                                  IF ~world.outs THEN <<>>
                                  ELSE <<IF wire = <<>> THEN CimFalse ELSE wire[1], second>>,
                                  ret)
      BY <2>1
    <3>2. PICK outs : /\ reply' = Replied("OK", outs, ret)
                      /\ \/ outs = <<>>
                         \/ \E x, y : outs = <<x, y>> /\ (wire # <<>> => x = wire[1])
      BY <3>1
    <3>3. wire' = wire /\ ran' = 1 /\ "OK" \in Codes \cup {"OK"}
      BY <1>0, <1>1, <2>1
    <3> QED
      BY <3>2, <3>3, Zenon DEF Answered
  <2>2. CASE \E s \in Codes : reply' = Replied(s, <<>>, Null)
    <3>1. Null \in CimValue /\ "OK" \notin Codes
      BY CodesDiffer, CodesAssumption DEF CimValue
    <3> QED
      BY <1>0, <2>2, <3>1 DEF Answered
  <2> QED
    BY <2>1, <2>2 DEF Execute
<1>5. Stage' /\ Silent'
  BY <1>0, <1>1 DEF Stage, Silent, Asked, Inputs
<1> QED
  BY <1>0, <1>3, <1>4, <1>5, GoOn DEF IInv

LEMMA ReturnStep ==
  ASSUME IInv, Return
  PROVE  IInv' /\ EndsRight'
<1>1. /\ pc' = "idle" /\ on' = "none" /\ argout' = "nil" /\ ran' = 0 /\ reply' = Null
      /\ out' = NoOutputs /\ result' = Unset /\ wire' = <<>> /\ UNCHANGED <<world, client>>
  BY DEF Return, NoOutputs
<1>2. TypeOK'
  <2>1. <<>> \in Seq(CimValue) /\ Len(<<>>) = 0
    BY EmptySeq
  <2>2. DOMAIN wire' = {}
    BY <1>1, <2>1, LenProperties
  <2> QED
    BY <1>1, <2>2 DEF IInv, TypeOK
<1>3. Stage' /\ Silent' /\ Answered' /\ RunsOnlyWhenAsked'
  BY <1>1 DEF Stage, Silent, Answered, RunsOnlyWhenAsked
<1> QED
  BY <1>1, <1>2, <1>3, GoOn DEF IInv
\* What the rescue clauses leave.
LEMMA RescuedIs ==
  /\ \A v : Rescued(ToValue(v)) = ToValue(v)
  /\ \A class : Rescued(Error(class)) = Error(class) \/ Rescued(Error(class)) = Nil
  /\ Rescued(Error("TypeError")) = Error("TypeError")
  /\ \A outs : Rescued(Unmerged(outs)) = Unmerged(outs)
BY ToValueIs, UnmergedIs DEF Rescued, Error

\* The four ways in which an answer ends a call.
LEMMA DecodeCases ==
  ASSUME Decode
  PROVE  /\ pc = "decode" /\ pc' = "done"
         /\ UNCHANGED <<world, client, on, args, given, wire, argout, ran, reply>>
         /\ \/ reply.status # "OK" /\ result' = Rescued(Error(Raised(reply.status))) /\ out' = out
            \/ reply.status = "OK" /\ argout = "nil" /\ result' = ToValue(reply.ret) /\ out' = out
            \/ reply.status = "OK" /\ argout = "other" /\ result' = Error("TypeError") /\ out' = out
            \/ /\ reply.status = "OK" /\ argout \notin {"nil", "other"} /\ out' = Merged(reply.outs)
               /\ result' = IF Mergeable(reply.outs) THEN ToValue(reply.ret) ELSE Unmerged(reply.outs)
BY RescuedIs DEF Decode, Conclude, End

LEMMA DecodeStep ==
  ASSUME IInv, Decode
  PROVE  IInv' /\ EndsRight'
<1>0. /\ pc = "decode" /\ pc' = "done"
      /\ UNCHANGED <<world, client, on, args, given, wire, argout, ran, reply>>
  BY DecodeCases
<1>1. /\ out = NoOutputs /\ world \in Objects /\ Asked /\ RunsOnlyWhenAsked
      /\ wire = [i \in DOMAIN Inputs |-> Encoded(Inputs[i])]
      /\ \A i \in DOMAIN Inputs : ~Refused(Inputs[i])
  BY <1>0 DEF IInv, Silent, Stage
<1>2. PICK s \in Codes \cup {"OK"}, ret \in CimValue : \E outs :
             /\ reply = Replied(s, outs, ret)
             /\ s = "OK" => ran = 1
             /\ \/ outs = <<>>
                \/ \E x, y : outs = <<x, y>> /\ (wire # <<>> => x = wire[1])
  BY <1>0 DEF IInv, Answered
<1>3. PICK outs : /\ reply = Replied(s, outs, ret)
                  /\ s = "OK" => ran = 1
                  /\ \/ outs = <<>>
                     \/ \E x, y : outs = <<x, y>> /\ (wire # <<>> => x = wire[1])
  BY <1>2
<1>4. /\ reply.status = s /\ reply.outs = outs /\ reply.ret = ret
      /\ "state" \notin DOMAIN reply
  BY <1>3 DEF Replied
<1>5. \/ s # "OK" /\ result' = Rescued(Error(Raised(s))) /\ out' = out
      \/ s = "OK" /\ (result' = ToValue(ret) \/ result'.is = "error") /\ out' = out
      \/ /\ s = "OK" /\ argout = "hash" /\ out' = Merged(outs)
         /\ result' = ToValue(ret) \/ result'.is = "error"
  <2>1. Error("TypeError").is = "error" /\ Unmerged(outs).is = "error"
    BY UnmergedIs DEF Error
  <2> QED
    BY <1>4, <2>1, DecodeCases DEF IInv, TypeOK
<1>6. IInv'
  <2>1. TypeOK'
    BY <1>0 DEF IInv, TypeOK
  <2>2. RunsOnlyWhenAsked'
    BY <1>0, <1>1 DEF RunsOnlyWhenAsked
  <2> QED
    BY <1>0, <2>1, <2>2 DEF IInv, Stage, Silent, Answered
<1>7. ErrorsTell'
  <2>1. CASE s \in Known
    <3>1. result' = Rescued(Error(Raised(s)))
      BY <1>5, <2>1, CodesDiffer
    <3>2. CASE on = "instance" /\ given = <<>> /\ Raised(s) = "ErrorMethodNotFound"
      BY <1>0, <1>4, <2>1, <3>1, <3>2, OnlyMethodNotFound DEF ErrorsTell, Rescued
    <3>3. CASE ~(on = "instance" /\ given = <<>> /\ Raised(s) = "ErrorMethodNotFound")
      <4>1. result' = Error(Raised(s))
        BY <3>1, <3>3 DEF Rescued, Error
      <4> QED
        BY <1>0, <1>4, <2>1, <4>1, RaisedAs DEF ErrorsTell
    <3> QED
      BY <3>2, <3>3
  <2>2. CASE s \notin Known
    BY <1>0, <1>4, <2>2 DEF ErrorsTell
  <2> QED
    BY <2>1, <2>2
<1>8. OutputsTogether' /\ (out'[1] # Unset =>
        \E x, y : outs = <<x, y>> /\ (wire # <<>> => x = wire[1]) /\ out'[1] = ToValue(x))
  <2>1. CASE out' = out
    BY <1>1, <2>1 DEF OutputsTogether, NoOutputs
  <2>2. CASE s = "OK" /\ argout = "hash" /\ out' = Merged(outs)
    <3>1. CASE outs = <<>> \/ ~Mergeable(outs)
      <4>1. out' = [i \in 1..2 |-> out[i]]
        BY <2>2, <3>1 DEF Merged
      <4>2. out' = NoOutputs
        BY <1>1, <4>1 DEF NoOutputs
      <4> QED
        BY <4>2 DEF OutputsTogether, NoOutputs
    <3>2. CASE outs # <<>> /\ Mergeable(outs)
      <4>1. PICK x, y : outs = <<x, y>> /\ (wire # <<>> => x = wire[1])
        BY <1>3, <3>2
      <4>2. \A i \in 1..2 : out'[i] = ToValue(outs[i])
        BY <2>2, <3>2, <4>1 DEF Merged
      <4>3. OutputsTogether'
        BY <1>0, <1>3, <1>4, <2>2, <4>1, <4>2 DEF OutputsTogether
      <4> QED
        BY <4>1, <4>2, <4>3
    <3> QED
      BY <3>1, <3>2
  <2> QED
    BY <1>5, <2>1, <2>2
<1>9. IntegersArrive'
  <2>1. result'.is = "int" /\ Short(ret) => result' = RubyInt(ret.n)
    BY <1>5, RescuedIs, AnswerTyped, ShortArrives DEF Error, Nil
  <2>2. ASSUME out'[1] # Unset, Inputs # <<>>
        PROVE  LET a == Inputs[1] IN
               \/ a.is \notin {"int", "data"}
               \/ a.is = "int" /\ ~IsFixnum(a.n)
               \/ a.is = "data" /\ (Width[a.type] = 64 \/ a.n \notin ValuesOf(a.type))
               \/ out'[1] = RubyInt(a.n)
    <3>1. Inputs \in Seq(Arguments) /\ 1 \in DOMAIN Inputs
      BY <1>1, <2>2, InputsTyped, EmptySeq
    <3>2. wire[1] = Encoded(Inputs[1]) /\ wire # <<>>
      BY <1>1, <3>1
    <3>3. out'[1] = ToValue(Encoded(Inputs[1]))
      BY <1>8, <2>2, <3>2
    <3> QED
      BY <1>1, <3>1, <3>3, InputsTyped, Echoed
  <2>3. Inputs' = Inputs
    BY <1>0 DEF Inputs
  <2> QED
    BY <1>0, <1>4, <2>1, <2>2, <2>3 DEF IntegersArrive, Short, RubyInt
<1>10. GoodReturned'
  <2>1. ASSUME argout = "hash", s = "OK", Mergeable(outs), NEW i \in DOMAIN outs
        PROVE  out'[i] = ToValue(outs[i])
    <3>1. outs = <<>> \/ \E x, y : outs = <<x, y>>
      BY <1>3
    <3>2. i \in 1..2
      BY <2>1, <3>1
    <3>3. out' = Merged(outs)
      BY <1>4, <2>1, DecodeCases, CodesDiffer
    <3> QED
      BY <2>1, <3>2, <3>3 DEF Merged
  <2> QED
    BY <1>0, <1>4, <2>1 DEF GoodReturned
<1> QED
  BY <1>6, <1>7, <1>8, <1>9, <1>10 DEF EndsRight

-----------------------------------------------------------------------------
LEMMA StepIInv ==
  ASSUME IInv, EndsRight, [Next]_vars
  PROVE  IInv' /\ EndsRight'
<1>1. CASE pc = "idle" /\ \E explicit, uri \in Parts, verify \in {"true", "false"} :
             Connect(explicit, uri, verify)
  BY <1>1, ConnectStep
<1>2. CASE pc = "idle" /\ \E w \in Objects : TakeObject(w)
  BY <1>2, TakeStep
<1>3. CASE pc = "idle" /\ \E what \in {"path", "instance", "invoke"}, list \in Given : Call(what, list)
  BY <1>3, CallStep
<1>4. CASE pc = "idle" /\ \E list \in Given, o \in {"nil", "hash", "other"} : CallNative(list, o)
  BY <1>4, CallNativeStep
<1>5. CASE Lookup \/ Describe \/ BindInput \/ BindOutput \/ Encode \/ Execute \/ Decode \/ Return
  BY <1>5, LookupStep, DescribeStep, BindInputStep, BindOutputStep, EncodeStep, ExecuteStep,
     DecodeStep, ReturnStep
<1>6. CASE UNCHANGED vars
  <2>1. UNCHANGED <<world, client, pc, on, args, given, wire, argout, ran, reply, out, result>>
    BY <1>6 DEF vars, call
  <2>2. TypeOK' /\ RunsOnlyWhenAsked'
    BY <2>1 DEF IInv, TypeOK, RunsOnlyWhenAsked
  <2>3. Named' = Named /\ Binding' = Binding /\ Asked' = Asked /\ Inputs' = Inputs
    BY <2>1 DEF Named, Binding, Asked, Inputs
  <2>4. Stage'
    BY <2>1, <2>3 DEF IInv, Stage
  <2>5. Silent' /\ Answered'
    BY <2>1 DEF IInv, Silent, Answered
  <2>6. EndsRight'
    BY <2>1 DEF EndsRight, ErrorsTell, IntegersArrive, OutputsTogether, GoodReturned, Inputs
  <2> QED
    BY <2>2, <2>4, <2>5, <2>6 DEF IInv
<1> QED
  BY <1>1, <1>2, <1>3, <1>4, <1>5, <1>6 DEF Next
\* All that is said below of every state of a session.
THEOREM Invariance == Spec => [](IInv /\ EndsRight)
<1>1. Init => IInv /\ EndsRight
  BY InitIInv
<1>2. IInv /\ EndsRight /\ [Next]_vars => IInv' /\ EndsRight'
  BY StepIInv
<1> QED
  BY <1>1, <1>2, PTL DEF Spec

\* Every CIM value the program sends is false, null or an integer in the range of
\* its type.
THEOREM TypeCorrect == Spec => []TypeOK
<1>1. IInv /\ EndsRight => TypeOK
  BY DEF IInv
<1> QED
  BY <1>1, Invariance, PTL

\* The CIMOM runs a method once at most in a call, and only if the object has
\* no property of the name and the arguments are those the description asks
\* for (ObjectPath#invoke, method_missing).
THEOREM RunsWhenAsked == Spec => []RunsOnlyWhenAsked
<1>1. IInv /\ EndsRight => RunsOnlyWhenAsked
  BY DEF IInv
<1> QED
  BY <1>1, Invariance, PTL

\* No rescue clause of the Ruby layer hides an error of the CIMOM or takes it
\* for another (sfcc_status_exception, method_missing).
THEOREM ErrorsAreTold == Spec => []ErrorsTell
<1>1. IInv /\ EndsRight => ErrorsTell
  BY DEF EndsRight
<1> QED
  BY <1>1, Invariance, PTL

\* Whatever the widths of the C types are, integers of up to 32 bits come
\* from the CIMOM as they are, and Fixnums return as they were given
\* (sfcc_value_to_cimdata, sfcc_cimdata_to_value, do_set_value).
THEOREM IntegersAreKept == Spec => []IntegersArrive
<1>1. IInv /\ EndsRight => IntegersArrive
  BY DEF EndsRight
<1> QED
  BY <1>1, Invariance, PTL

\* The program's Hash gets the outputs of a call that succeeded, all or none
\* (invoke_method's merge!).
THEOREM OutputsTogetherAlways == Spec => []OutputsTogether
<1>1. IInv /\ EndsRight => OutputsTogether
  BY DEF EndsRight
<1> QED
  BY <1>1, Invariance, PTL

\* An output that is not good, or that has no Ruby value, is the one way to lose
\* the outputs of a method that succeeded: when there is none, the Hash has them,
\* also if the result then raises (invoke_method merges before it converts the
\* result).
THEOREM GoodOutputsReturned == Spec => []GoodReturned
<1>1. IInv /\ EndsRight => GoodReturned
  BY DEF EndsRight
<1> QED
  BY <1>1, Invariance, PTL
=============================================================================

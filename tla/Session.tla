------------------------------ MODULE Session ------------------------------
(***************************************************************************)
(* What a Ruby program sees of a managed object: it connects, reads keys   *)
(* and properties and calls methods of the object by their name, as if     *)
(* they were Ruby's.  A call goes through the Ruby layer (method_missing   *)
(* and invoke), the conversion of its arguments, the CIMOM and the         *)
(* conversion of the answer; each may end it.                              *)
(*                                                                         *)
(* One name is enough: what it is to the object, to the description of the *)
(* class the client has and to the CIMOM is chosen independently.          *)
(***************************************************************************)
EXTENDS Numbers, Sequences, StatusCodes

CONSTANTS Types,    \* the integer types the program and the CIMOM use
          Given,    \* the argument lists the program gives
          Answers,  \* the integers the CIMOM has for the key and for results
          Hosts,    \* host names
          Codes,    \* the status codes of the native library
          Objects   \* what the name can be to the object and its class

ASSUME TypesAssumption == Types \subseteq IntType /\ "sint64" \in Types
ASSUME AnswersAssumption ==
  Answers \subseteq [type : Types, n : Int] /\ \A a \in Answers : a.n \in ValuesOf(a.type)
ASSUME CodesAssumption == Codes \subseteq Failure

\* key:      the value the object has under the name, if it has one
\* mof:      missing (no file describes the class), absent (the class has no
\*           such method), present
\* provided: the CIMOM has the method
\* ins:      the number of its input arguments
\* outs:     whether it has output arguments
World ==
  [key : {"none", "good", "null", "bad", "notFound"}, mof : {"missing", "absent", "present"},
   provided : BOOLEAN, ins : Nat, outs : BOOLEAN]

ASSUME ObjectsAssumption == Objects \subseteq World

\* Ruby values: an integer, Cim::Data.new(type, n), false, nil, a Hash, or
\* something else that has no CIM value.
RubyInt(n) == [is |-> "int", n |-> n]
RubyData(type, n) == [is |-> "data", type |-> type, n |-> n]
False == [is |-> "false"]
Nil == [is |-> "nil"]
Hash == [is |-> "hash"]
Other == [is |-> "other"]

IsArgument(a) ==
  \/ a \in {False, Nil, Hash, Other}
  \/ a.is = "int" /\ a.n \in Int /\ a = RubyInt(a.n)
  \/ a.is = "data" /\ a.type \in Types /\ a.n \in Int /\ a = RubyData(a.type, a.n) /\ Storable(a.n)

\* What the program passes.
Arguments == UNION {{list[i] : i \in DOMAIN list} : list \in Given}

\* A call ends with a value, a client or an exception.
Error(class) == [is |-> "error", class |-> class]
Connected(to) == [is |-> "client", to |-> to]
Unset == [is |-> "unset"]

ASSUME GivenAssumption == Given \subseteq Seq(Arguments) /\ \A a \in Arguments : IsArgument(a)

\* CIM values: the state, and the integer with its type.
Good(type, n) == [state |-> "good", type |-> type, n |-> n]
Null == [state |-> "null"]
Bad == [state |-> "bad"]
NotFound == [state |-> "notFound"]
CimFalse == Good("boolean", 0)

\* Good values that have no Ruby value: of a type the conversion does not know,
\* an array with an element that is bad, not found or of such a type, and among
\* outputs one whose name cannot be read.  class is what the conversion raises.
Spoilt ==
  {[state |-> "good", type |-> "spoilt", class |-> c] :
     c \in {"ArgumentError", "RuntimeError", "TypeError"}}

CimValue == {Null, Bad, NotFound, CimFalse} \cup Spoilt \cup {Good(a.type, a.n) : a \in Answers}

VARIABLES world,   \* what the name is: see World
          client,  \* the program has a client, and its objects refer to it
          pc,      \* what the call is about to do
          on,      \* what was called
          args,    \* the arguments of the call not bound yet
          given,   \* all its arguments
          wire,    \* the input arguments as CIM values
          argout,  \* what the CIMOM's output arguments are to be merged into
          ran,     \* how often the CIMOM has run the method in this call
          reply,   \* the CIMOM's answer, or what a lookup found
          out,     \* the two entries of the Hash the outputs are merged into
          result   \* how the call ended

call == <<on, args, given, wire, argout, ran, reply, out, result>>
vars == <<world, client, pc, call>>

Idle ==
  /\ pc = "idle" /\ on = "none" /\ args = <<>> /\ given = <<>> /\ wire = <<>>
  /\ argout = "nil" /\ ran = 0 /\ reply = Null /\ out = <<Unset, Unset>> /\ result = Unset

NoObject == [key |-> "no object"]

Init == world = NoObject /\ client = FALSE /\ Idle

\* The call ends.
End(r) == pc' = "done" /\ result' = r

-----------------------------------------------------------------------------
(***************************************************************************)
(* Client.connect                                                          *)
(***************************************************************************)

Part == {"host", "scheme"}

\* Explicit parameters and those of a URI; nil is one that is not there.
Parts == [host : Hosts \cup {"nil"}, scheme : {"http", "https", "wbem", "nil"}]

\* uri_to_params: ||= for each part.
Overridden(explicit, uri) ==
  [p \in Part |-> IF explicit[p] # "nil" THEN explicit[p] ELSE uri[p]]

\* The scheme decides; the message for an unknown one names a variable that
\* does not exist.  Of the parameters for https only :verify => false is used.
Connect(explicit, uri, verify) ==
  LET to == Overridden(explicit, uri) IN
  /\ ~client /\ world = NoObject
  /\ on' = "connect"
  /\ given' = <<explicit, uri>>
  /\ pc' = "done"
  /\ \/ /\ to.scheme = "http" \/ (to.scheme = "https" /\ verify = "false")
        /\ \/ client' = TRUE /\ result' = Connected(to)
           \/ \E s \in Codes : client' = FALSE /\ result' = Error(Raised(s))
     \/ to.scheme = "https" /\ verify # "false" /\ client' = FALSE /\ result' = Error("RuntimeError")
     \/ to.scheme \notin {"http", "https"} /\ client' = FALSE /\ result' = Error("NameError")
  /\ UNCHANGED <<world, args, wire, argout, ran, reply, out>>

-----------------------------------------------------------------------------
(***************************************************************************)
(* Calls by name.                                                          *)
(***************************************************************************)

\* The program takes an object, which refers to its client if it has one.
TakeObject(w) ==
  /\ world = NoObject
  /\ world' = w
  /\ UNCHANGED <<client, pc, call>>

\* path.name(list), instance.name(list) and path.invoke(name, list).
Call(what, list) ==
  /\ world # NoObject
  /\ on' = what /\ given' = list /\ args' = list
  /\ pc' = IF what # "invoke" /\ list = <<>> THEN "lookup" ELSE "describe"
  /\ UNCHANGED <<world, client, wire, argout, ran, reply, out, result>>

\* The Ruby value of a CIM value, or the exception its conversion raises.
ToValue(v) ==
  CASE v.state = "null" -> Nil
    [] v.state = "notFound" -> Error("RuntimeError")
    [] v.state = "bad"  -> Error("ArgumentError")
    [] v \in Spoilt     -> Error(v.class)
    [] v = CimFalse     -> False
    [] OTHER            -> RubyInt(ToRuby(v.type, v.n))

\* rescue Sfcc::Cim::ErrorNoSuchProperty
FallsBack(r) == r = Error("ErrorNoSuchProperty")

\* method_missing without arguments: self.key or self.property.  The tests
\* expect ERR_NO_SUCH_PROPERTY of the library for a name the object lacks;
\* after any other code the call ends.
Lookup ==
  /\ pc = "lookup"
  /\ \E v \in CimValue, s \in {"ERR_NO_SUCH_PROPERTY", "ERR_NOT_FOUND"} :
       LET r == IF world.key = "none" THEN Error(Raised(s)) ELSE ToValue(v) IN
       /\ IF world.key = "none" THEN v = Null ELSE v.state = world.key
       /\ reply' = v
       /\ IF FallsBack(r) THEN pc' = "describe" /\ UNCHANGED result ELSE End(r)
  /\ UNCHANGED <<world, client, on, args, given, wire, argout, ran, out>>

\* Instance#method_missing: rescue Sfcc::Cim::ErrorMethodNotFound.
Rescued(r) ==
  IF on = "instance" /\ given = <<>> /\ r = Error("ErrorMethodNotFound") THEN Nil ELSE r

\* invoke: the description of the class is loaded, and the method looked up.
Describe ==
  /\ pc = "describe"
  /\ IF ~client THEN End(Error("RuntimeError"))
     ELSE IF world.mof = "missing" THEN End(Nil)
     ELSE IF world.mof = "absent" THEN End(Rescued(Error("ErrorMethodNotFound")))
     ELSE pc' = "bind" /\ UNCHANGED result
  /\ UNCHANGED <<world, client, on, args, given, wire, argout, ran, reply, out>>

\* invoke: an input argument is taken from the list; after the last one the
\* Hash for the outputs, if there are any.  Arguments too many are refused
\* only then.
BindInput ==
  /\ pc = "bind" /\ Len(given) - Len(args) < world.ins
  /\ IF args = <<>> \/ Head(args) \in {False, Nil}
       THEN End(Error("ArgumentError")) /\ UNCHANGED args
       ELSE args' = Tail(args) /\ UNCHANGED <<pc, result>>
  /\ UNCHANGED <<world, client, on, given, wire, argout, ran, reply, out>>

BindOutput ==
  /\ pc = "bind" /\ Len(given) - Len(args) = world.ins
  /\ IF world.outs /\ (args = <<>> \/ Head(args) # Hash \/ Len(args) > 1)
       THEN End(Error("RuntimeError")) /\ UNCHANGED argout
       ELSE /\ pc' = "encode" /\ UNCHANGED result
            /\ argout' = IF world.outs THEN "hash" ELSE "nil"
  /\ UNCHANGED <<world, client, on, args, given, wire, ran, reply, out>>

\* client.invoke_method(path, name, arguments, argout), which checks nothing
\* of the description.
CallNative(list, o) ==
  /\ client /\ world # NoObject
  /\ on' = "client" /\ given' = list /\ argout' = o
  /\ pc' = "encode"
  /\ UNCHANGED <<world, client, args, wire, ran, reply, out, result>>

-----------------------------------------------------------------------------
(***************************************************************************)
(* client.invoke_method                                                    *)
(***************************************************************************)

\* The arguments that are inputs.
Inputs == IF on = "client" THEN given ELSE SubSeq(given, 1, world.ins)

\* sfcc_value_to_cimdata of an argument, or the exception it raises.
Refused(a) == a \in {Hash, Other} \/ (a.is = "int" /\ ~Sendable(a.n))
Refusal(a) == IF a.is = "int" THEN Error("RangeError") ELSE Error("TypeError")
Encoded(a) ==
  CASE a.is = "int"   -> Good("sint64", a.n)
    [] a.is = "data"  -> Good(a.type, Held(a.type, a.n))
    [] a.is = "false" -> CimFalse
    [] a.is = "nil"   -> Null

\* sfcc_hash_to_cimargs: the first argument that is refused ends the call.
Encode ==
  /\ pc = "encode"
  /\ \/ /\ \A i \in DOMAIN Inputs : ~Refused(Inputs[i])
        /\ wire' = [i \in DOMAIN Inputs |-> Encoded(Inputs[i])]
        /\ pc' = "execute"
        /\ UNCHANGED result
     \/ \E i \in DOMAIN Inputs :
          /\ Refused(Inputs[i]) /\ \A j \in 1..(i - 1) : ~Refused(Inputs[j])
          /\ End(Refusal(Inputs[i]))
          /\ UNCHANGED wire
  /\ UNCHANGED <<world, client, on, args, given, argout, ran, reply, out>>

Replied(s, outs, ret) == [status |-> s, outs |-> outs, ret |-> ret]

\* The CIMOM runs the method and says how it went, or does not run it.  The
\* first of two outputs is the first input, the second may have no value or
\* one that cannot be converted.
Execute ==
  /\ pc = "execute"
  /\ pc' = "decode"
  /\ \/ /\ world.provided
        /\ ran' = ran + 1
        /\ \E second \in {Null, Bad, CimFalse} \cup Spoilt, ret \in CimValue :
             reply' = Replied("OK",
                              IF ~world.outs THEN <<>>
                              ELSE <<IF wire = <<>> THEN CimFalse ELSE wire[1], second>>,
                              ret)
     \/ /\ ran' = IF world.provided THEN ran + 1 ELSE ran
        /\ \E s \in Codes : reply' = Replied(s, <<>>, Null)
     \/ /\ UNCHANGED ran
        /\ \E s \in Codes : reply' = Replied(s, <<>>, Null)
  /\ UNCHANGED <<world, client, on, args, given, wire, argout, out, result>>

Convertible(v) == v.state = "good" /\ v \notin Spoilt

\* Fault: each output goes into the program's Hash as it is converted.
MergedOneByOne(outs) ==
  [i \in 1..2 |-> IF i \in DOMAIN outs /\ \A j \in 1..i : Convertible(outs[j])
                  THEN ToValue(outs[i]) ELSE out[i]]

\* sfcc_cimargs_to_hash stops at the first output that it cannot convert: with
\* nil for all of them if that one is not good, and merge! refuses nil.
Mergeable(outs) == \A i \in DOMAIN outs : Convertible(outs[i])
Unmerged(outs) ==
  LET i == CHOOSE k \in DOMAIN outs : ~Convertible(outs[k]) /\ \A j \in 1..(k - 1) : Convertible(outs[j])
  IN IF outs[i] \in Spoilt THEN ToValue(outs[i]) ELSE Error("TypeError")
Merged(outs) ==
  [i \in 1..2 |-> IF i \in DOMAIN outs /\ Mergeable(outs) THEN ToValue(outs[i]) ELSE out[i]]

\* Fault: ObjectPath#method_missing rescues around both of its calls.
ConcludeTwice(r) ==
  IF on = "path" /\ r = Error("ErrorNoSuchProperty")
    THEN pc' = "describe" /\ UNCHANGED result ELSE End(Rescued(r))

Conclude(r) == End(Rescued(r))

\* Fault: the result is converted first, and when it raises nothing is merged.
DecodeResultFirst ==
  /\ pc = "decode"
  /\ IF reply.status # "OK" THEN Conclude(Error(Raised(reply.status))) /\ UNCHANGED out
     ELSE IF argout = "nil" \/ ToValue(reply.ret).is = "error" THEN Conclude(ToValue(reply.ret)) /\ UNCHANGED out
     ELSE IF argout = "other" THEN Conclude(Error("TypeError")) /\ UNCHANGED out
     ELSE /\ out' = Merged(reply.outs)
          /\ Conclude(IF Mergeable(reply.outs) THEN ToValue(reply.ret) ELSE Unmerged(reply.outs))
  /\ UNCHANGED <<world, client, on, args, given, wire, argout, ran, reply>>

\* The outputs are merged before the result is converted.
Decode ==
  /\ pc = "decode"
  /\ IF reply.status # "OK" THEN Conclude(Error(Raised(reply.status))) /\ UNCHANGED out
     ELSE IF argout = "nil" THEN Conclude(ToValue(reply.ret)) /\ UNCHANGED out
     ELSE IF argout = "other" THEN Conclude(Error("TypeError")) /\ UNCHANGED out
     ELSE /\ out' = Merged(reply.outs)
          /\ Conclude(IF Mergeable(reply.outs) THEN ToValue(reply.ret) ELSE Unmerged(reply.outs))
  /\ UNCHANGED <<world, client, on, args, given, wire, argout, ran, reply>>

\* The program goes on.
Return ==
  /\ pc = "done"
  /\ pc' = "idle" /\ on' = "none" /\ args' = <<>> /\ given' = <<>> /\ wire' = <<>>
  /\ argout' = "nil" /\ ran' = 0 /\ reply' = Null /\ out' = <<Unset, Unset>> /\ result' = Unset
  /\ UNCHANGED <<world, client>>

\* The program does one thing after the other.
Next ==
  \/ /\ pc = "idle"
     /\ \/ \E explicit, uri \in Parts, verify \in {"true", "false"} : Connect(explicit, uri, verify)
        \/ \E w \in Objects : TakeObject(w)
        \/ \E what \in {"path", "instance", "invoke"}, list \in Given : Call(what, list)
        \/ \E list \in Given, o \in {"nil", "hash", "other"} : CallNative(list, o)
  \/ Lookup \/ Describe \/ BindInput \/ BindOutput \/ Encode \/ Execute \/ Decode \/ Return

Spec == Init /\ [][Next]_vars

-----------------------------------------------------------------------------
(***************************************************************************)
(* Properties.                                                             *)
(***************************************************************************)

TypeOK ==
  /\ world \in Objects \cup {NoObject} /\ client \in BOOLEAN
  /\ pc \in {"idle", "lookup", "describe", "bind", "encode", "execute", "decode", "done"}
  /\ on \in {"none", "connect", "path", "instance", "invoke", "client"}
  /\ argout \in {"nil", "hash", "other"} /\ ran \in Nat
  /\ \A i \in DOMAIN wire :
       \/ wire[i] \in {Null, CimFalse}
       \/ wire[i].type \in Types /\ wire[i].n \in ValuesOf(wire[i].type)

\* A call makes the CIMOM run the method once at most: not again after an
\* error, not when the name can be read instead, and not when the arguments
\* are not those the class's description asks for.
RunsOnlyWhenAsked ==
  ran > 0 =>
    /\ ran = 1 /\ client /\ world.provided
    /\ on \in {"path", "instance"} /\ given = <<>> => world.key = "none"
    /\ on # "client" =>
         /\ world.mof = "present" /\ Len(given) >= world.ins
         /\ \A i \in 1..world.ins : given[i] \notin {False, Nil}
         /\ world.outs => Len(given) = world.ins + 1 /\ given[Len(given)] = Hash

\* An error of the CIMOM reaches the program as the exception documented for
\* it, and as no other error of this library, whatever the layers in between
\* rescue: except for the four codes whose class the C code misspells or cim.rb
\* does not define, and for a method that an instance lacks, which gives nil.
ErrorsTell ==
  pc = "done" /\ "status" \in DOMAIN reply /\ reply.status \in Known =>
    \/ reply.status \notin Misnamed /\ result = Error(Documented[reply.status])
    \/ reply.status \in Misnamed /\ result = Error("NameError")
    \/ on = "instance" /\ given = <<>> /\ reply.status = "ERR_METHOD_NOT_FOUND" /\ result = Nil

\* v is an integer of a type of up to 32 bits.
Short(v) == v.state = "good" /\ v.type \in IntType /\ Width[v.type] <= 32

\* Integers arrive as they were sent: from the CIMOM those of up to 32 bits,
\* and to it and back every Fixnum it is given and every Cim::Data of such a
\* type that was given a value of its type.
IntegersArrive ==
  pc = "done" =>
    /\ "state" \in DOMAIN reply /\ Short(reply) => result = RubyInt(reply.n)
    /\ result.is = "int" /\ "ret" \in DOMAIN reply /\ Short(reply.ret) => result.n = reply.ret.n
    /\ out[1] # Unset /\ Inputs # <<>> =>
         LET a == Inputs[1] IN
         \/ a.is \notin {"int", "data"}
         \/ a.is = "int" /\ ~IsFixnum(a.n)
         \/ a.is = "data" /\ (Width[a.type] = 64 \/ a.n \notin ValuesOf(a.type))
         \/ out[1] = RubyInt(a.n)

\* The program's Hash gets all the outputs of a call or none, and none unless
\* the CIMOM ran the method and said that it succeeded.
OutputsTogether ==
  \/ out = <<Unset, Unset>>
  \/ /\ ran = 1 /\ reply.status = "OK" /\ argout = "hash" /\ Len(reply.outs) = 2
     /\ \A i \in 1..2 : out[i] = ToValue(reply.outs[i])

\* The outputs of a method that succeeded are lost only by an output that is not
\* good or cannot be converted (sfcc_cimargs_to_hash): when there is none the
\* Hash has them, whatever becomes of the result (invoke_method merges them
\* first).
GoodReturned ==
  pc = "done" /\ ran = 1 /\ argout = "hash" /\ reply.status = "OK" /\ Mergeable(reply.outs) =>
    \A i \in DOMAIN reply.outs : out[i] = ToValue(reply.outs[i])

\* cim_client.c:1070, "argout hash where output parameters will be returned":
\* after a method succeeded the Hash has its outputs.
OutputsReturned ==
  pc = "done" /\ ran = 1 /\ argout = "hash" /\ reply.status = "OK" =>
    \A i \in DOMAIN reply.outs : out[i] = ToValue(reply.outs[i])
=============================================================================

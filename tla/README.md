# A verification project for ruby-sfcc

ruby-sfcc is a Ruby extension in C around *sfcc*, the C client library for CIM
servers (CIMOMs).  A Ruby program connects a `Cim::Client`, asks it for classes,
instances and enumerations, reads values out of them and calls methods on the
server.  The program's own logic is the glue between two memory disciplines:
native handles that must be released exactly once, and Ruby objects that a
collector frees when it sees no reference to them.  It is also the glue between
a blocking network library and Ruby's threads.  That glue is what the modules
here model, check and prove about.

Files and line numbers below are those of `ext/sfcc/` unless they say otherwise.

## 1. Inventory

| part | state | operations | what makes it correct |
|---|---|---|---|
| start and exit (`sfcc.c`) | `cimcEnv`, an object in the constant `CIMC_ENV` | `Init_sfcc`, `Exit_sfcc` | everything made from the environment is released once |
| Client (`cim_client.c`) | a `CIMCClient *` | `connect`, 17 remote operations | threads run while a call waits; what a call leaves allocated is known by operation and outcome; the reply is wrapped once |
| Enumeration (`cim_enumeration.c`) | handle, client | `each`, `to_a`, `size`, `simple_type`, `client` | elements outlive the enumeration; the client outlives both |
| Instance (`cim_instance.c`) | handle, client | properties, qualifiers, `object_path`, `new` | the same |
| ObjectPath (`cim_object_path.c`) | handle, client | components, keys, `client=`, `new` | the same, also when the client is replaced |
| Class (`cim_class.c`) | handle | properties and qualifiers as `Cim::Data`, `keys` | its data objects do not use it after it is freed |
| String (`cim_string.c`) | handle | `new`, `to_s` | released once |
| Data (`cim_data.c`) | type, state, C union, flag `reference` | `new`, `from_value`, `type=`, `value=`, `value` | the value agrees with type and state and has one owner |
| Type, Flags (`cim_type.c`, `cim_flags.c`) | none that changes | `to_i`, `to_s` | - |
| conversion (`sfcc.c`) | none | Ruby value to `CIMCData` and back, arrays, argument hashes, strings | what is cloned and what is referred to; no memory lost when one step raises |
| status exceptions (`sfcc.c`, `lib/sfcc/cim.rb`) | none | a status code to an exception | the exception of each code exists |
| Ruby layer (`lib/sfcc/*.rb`) | none | `Client.connect`, `ObjectPath#invoke`, `method_missing` | documented precedence of arguments; checked argument lists |

How they interact.  The client's operations make wrappers; the wrappers of
enumerations, instances and paths hold the client's `VALUE` and mark it.
`sfcc_cimdata_to_value` makes new wrappers out of values inside older ones, by
cloning.  `Cim::Data` alone refers to the handle of another wrapper without
holding its `VALUE`.  A remote call gives the interpreter's lock away in between.
The collector calls the `dealloc` functions at any allocation, and at exit in
heap order.

What is hard to test: sweeping at every possible moment, in any order; exit with
any heap; two threads in calls at once, one of them interrupted, its argument
strings collected or changed; an exception from the middle of a conversion
(a `longjmp` over the code that frees); and long mixtures of assignments to one
data object.  `PROJECT.json` lists these hazards at the lines where they bite.

## 2. Modules

| module | models |
|---|---|
| `HandleTable` | abstract: handles are acquired once, reclaimed at most once and never while usable |
| `Wrappers` | wrappers, mark and dealloc functions, the collector, exit |
| `RemoteCall` | abstract: a call is one request, one answer and what the program is told of it |
| `ClientCall` | threads, the lock, and the native memory of a call, for each of the 17 operations |
| `CimTypes` | the type codes and the bit tests made on them |
| `CimData` | `Cim::Data`: `do_set_type`, `do_set_value`, `from_value`, `clear_cimdata` |
| `Iteration` | abstract: a loop walks the list as it was when the loop began |
| `EachLoop` | the loops `each`, `to_a`, `each_property`, `each_qualifier`, `each_key`, ... and the blocks they call |
| `Numbers` | the integers of the CIM types, and what the conversions make of them |
| `StatusCodes` | status codes, the classes `cim.rb` defines, what raising a code does |
| `Session` | what a program sees of one object: `Client.connect`, `method_missing`, `invoke`, argument hashes, answers |
| `WrappersProofs`, `ClientCallProofs`, `CimDataProofs`, `EachLoopProofs`, `SessionProofs` | theorems about the modules they are named after |
| `CimDataOwnersProofs` | theorems about `CimData` for programs whose assignments fail |
| `MCWrappers`, `MCClientCall`, `MCCimData`, `MCEachLoop`, `MCSession` | small instances for TLC |

`Wrappers` implements `HandleTable`, `ClientCall` implements `RemoteCall` and
`EachLoop` implements `Iteration`.
`CimData` uses `CimTypes`; `Session` composes the Ruby layer with the conversions
of `Numbers` and the exceptions of `StatusCodes`.

### Wrappers

The heap has slots `Obj`.  `kind[o]` is the class of the object in slot `o`,
`ptr[o]` its native handle, `client[o]` the `VALUE` in its struct.  A slot that
was swept may hold another object later, so a stale `VALUE` is a real danger and
not just a missing element.  A handle is `unborn`, `live` or `released`;
`parent[n]` says which handle `n` is a part of, and parts are released with it.
`left` is the set of handles that calls left allocated and that no Ruby object will
ever release.

| action | code |
|---|---|
| `Connect` | `Client.native_connect` |
| `EnumerationResult`, `GetInstance`, `GetClass`, `CreateInstance`, `ReplyValue` | the client's operations, by what they return |
| `LoseAnswer`, `LeaveString` | the losses of the C code: the answer of an interrupted call or of a value that has no Ruby value; the CIM strings of `add_key`, `set_property`, `hash_to_cimargs` (`sfcc.c:295`), of the object path in an error message (`cim_client.c:277`, 562, 817, ...) and of a name in a loop that is left |
| `NewObjectPath`, `NewInstance`, `NewString` | the `new` singleton methods |
| `InstanceObjectPath` | `Instance#object_path` |
| `ToValue` | `sfcc_cimdata_to_value`, wherever an element, property, qualifier or key is read |
| `SetClient`, `RefuseClient`, `GetClient` | `ObjectPath#client=` with a client and with anything else, `#client` |
| `Sweep` | one step of lazy sweeping: the dealloc function of an unmarked object |
| `BeginExit`, `Finalize`, `Exit_sfcc` | exit: every dealloc function, in any order, with that of `CIMC_ENV` among them |

Under the interpreter's lock these operations do not overlap, so each is one
step.  An operation that fails makes no wrapper and is a stutter but for what it
leaves.  `ReplyValue` clones the answer of `invoke_method` and `property`, wraps the
clone and leaves the original (`cim_client.c:1129`, 1216) unless it was inside the
output arguments.  `RefuseClient` reads a message pointer nobody has set
(`cim_object_path.c:161`): the call raises, or the process is down (`phase` is
`crash`).

`Marked` is the least set that contains the roots and is closed under the mark
functions; it decides what is swept.  `Usable` is the least set closed under what
the program can obtain.  That the first contains the second is what the mark
functions are for, and `ClientKept` and the refinement fail as soon as one is
missing.

### ClientCall

`pc[t]` walks through `ready` (waiting for the lock), `ruby`, `native` (inside
the library), `back` (waiting to take the lock back) and `finish`.  `held[t]` is
the native memory the call has allocated and must free; `lost[t]` is what was
left when the call ended.  The tables `Needs` and `Fills` are the fields of
`ruby_thread_args_t` that a threaded function reads and an operation fills in.
`MightBlock` is `THREAD_MIGHT_BLOCK`: without it the lock is kept.

A Ruby exception is a `Return` with whatever was not freed yet in `lost`: `Refuse`
(a conversion raises), `InterruptedEarly` and `Interrupted` (an exception raised by
another thread is delivered before or after the native call), and the cases of
`Finish`. The buffers include those that nobody frees: the second input arguments of
a threaded `invoke_method`, the CIM strings argument Hashes are copied from, the
object path as a string (`ops`), and the original of a cloned answer. Which strings
a call hands to the library follows from the operation and from whether it got a
property list (`Strings`). `Disturb` is what happens to a string the native call
still points into: a String made by `to_s` is collected, a shared one modified.

`RemoteCall` has no lock, no struct and no memory: a thread asks, is answered
and is told.  A call inside the library is `asked`, one that is on its way back
`answered`.  `Enter` is then `Ask`, `Reply` is `Answer`, and every end of a call is
`Tell`, or `GiveUp` when no request went out.  An interrupted call is told an
exception of Ruby's, whatever the answer was: the program cannot know whether the
CIMOM has done what it asked.

### CimData

A record per data object: `type` as a set of bits (so that `type & CIMC_UINT` is
an intersection, as in the code), `state`, `val` and the flag `reference` (`ref`).
Values are native values or one of `junk`, `zero`, `number`, because a union has
no idea which member was stored last.  `fault` is the undefined behaviour met
first: following a null pointer, a wild one, a released value, or releasing one
twice; after it nothing moves.  Sources are wrappers (an instance, a CIM string)
whose handle a data object may refer to; `SweepSource` frees one.  Two more fields
are there for the properties only: `given` is the Ruby value the program last gave
the object, `from` the one whose conversion is in the union.  An array that an
element ends half-way is a native value in state `half`.  `Careful`
restricts the program to convertible values, `KeepSources` to holding what its
data objects refer to.  `Cim::Data.from_value` of another data object is
included only without `KeepSources`: the original is then a source whose value
can be replaced at any time.

### EachLoop

The native library keeps properties, qualifiers and keys as lists that are read
by index.  `entries[s]` is such a list (a subject), `unreadable[s]` the names whose
value has no Ruby value.  `frame[t]` is the stack of loops thread `t` is in, each
with the number of entries it counted, its index, what it yielded and the name
strings it took and released.  Between two yields a loop keeps the lock, so
`Proceed` is one step; at a yield anything may happen.

| action | code |
|---|---|
| `Begin` | a loop is called: it counts the entries and goes to the first yield, if there is one |
| `Advance` | the block returns, the name is released, the loop goes on |
| `Leave` | the block does not return (`break`, `throw`, an exception): a `longjmp` over the loop |
| `ToArray` | `Enumeration#to_a`, which yields nothing |
| `Put` | `add_key`, `set_property` |
| `Rename` | the String given to `each_property_qualifier`, read again for every index, is modified |

`Iteration` has no index, no count and no names: a loop is the list it walks and
how much of it was yielded.  The refinement takes for that list the first entries
of the live one, as many as the loop counted (`Walk`).  It goes through because
lists only grow at their end; a loop that counted again while it runs would walk a
list that changes under it.  A loop that was moved by `Rename` is `Astray`: nothing
is promised of it but that it ends.

### Session

One program, one object, one name.  What the name is to the object (a key with a
good, null, bad or missing value, or none), to the description of its class (no file, no
such method, a method with so many inputs and with or without outputs) and to the
CIMOM is chosen freely (`World`).  `pc` walks through a call: `lookup`, `describe`,
`bind`, `encode`, `execute`, `decode`, `done`; each step may end it with a value or an
exception in `result`.  `ran` counts how often the CIMOM ran the method, `out` is
the Hash the output arguments go into.  A good CIM value may still have no Ruby
value (`Spoilt`): its type is unknown to the conversion, or it is an array with an
element that is bad, missing or of such a type, or an output with an unreadable
name.  The first output that is not good or is spoilt ends the conversion of all
(`Unmerged`).

For a method without outputs `invoke` drops the arguments it has not bound
(`object_path.rb:72-83`), and the method runs; with outputs it refuses them.
`BindOutput` does the same, and `RunsOnlyWhenAsked` asks for the exact number of
arguments only where the code checks it.

| action | code |
|---|---|
| `Connect` | `Client.connect`: URI, explicit parameters, scheme, verification |
| `Call`, `Lookup` | `ObjectPath#method_missing`, `Instance#method_missing` |
| `Describe`, `BindInput`, `BindOutput` | `ObjectPath#invoke` |
| `CallNative` | `Client#invoke_method`, called directly |
| `Encode` | `sfcc_hash_to_cimargs` with `sfcc_value_to_cimdata` |
| `Execute` | the CIMOM (external) |
| `Decode` | the rest of `invoke_method`: the exception, the outputs, the result |

`Numbers` models integers by the ranges of their C types: `Half[w]` is the number of
non-negative values of a signed integer of `w` bits.  The conversions cut and wrap
as C does: a `Cim::Data` holds what was assigned modulo the width of its type, and
`UINT2NUM` and `INT2NUM` cut 64 bits to 32.  `Raised` in `StatusCodes` is the class a
code is raised as: the documented one, or `NameError` for the codes whose class name
`sfcc.c` misspells or `cim.rb` does not define.  A code the switch has no case for
gives nil for a class; what Ruby raises then is left open (`Undefined`).

## 3. Runs

| run | instance | shows |
|---|---|---|
| `wrappers` | 4 slots, 4 handles, 2 parts, symmetric | `HandleLive`, `SoleOwner`, `LeakBounded`, `ClientKept`, and `HandleTable` is implemented |
| `wrappers_exit` | 2 slots, 3 handles, 1 part | exit gives back every handle that a Ruby object holds (`ExitReleasesWrapped`) |
| `calls` | 2 threads, all operations, threaded build | `LockHeld`, `ArgsComplete`, `EndsBounded`, and `RemoteCall` is implemented |
| `calls_live` | 3 threads, 1 operation, threaded build | a CIMOM that never answers stops nobody else (`EveryThreadRuns`), and answers that came are told (`AnswersAreTold`) |
| `calls_locked` | 3 threads, 3 operations, lock kept | calls do not overlap (`OneNativeCall`), strings stay as they were (`ArgsIntact`) |
| `data` | 2 data objects, 2 sources, 5 values, careful program | no fault, no leak, one owner, good means that the value last given is stored |
| `data_raise` | 2 data objects, careless program, no arrays | sources are safe and values have one owner |
| `loops` | 2 threads (2 nested loops, 1 loop), 2 lists, 2 names | names are released (`NamesReleased`), entries yielded once and in order (`YieldsInOrder`), and `Iteration` is implemented |
| `session` | every sort of object, 2 hosts, 6 integer types, every status code | `RunsOnlyWhenAsked`, `ErrorsTell`, `IntegersArrive`, `OutputsTogether`, `GoodReturned` |

The bounds.  Four slots hold a client, a path, an instance and the result of
`create_instance` on them, or a path that names a client swept too early and the
object that takes its slot; four handles allow a client, an enumeration, a part
of it and a clone of the part, or a path with two parts and a clone.  Two threads
are enough for one to disturb or interrupt the other; three let one wait for the
lock while another runs and a third is inside the library.  Two data objects can
refer to the same source, or copy one another.  Native handles are allocated once,
so the number of `Native` bounds the length of a behaviour that allocates.

In `loops` a list has at most one name at first and can get a second: a loop then
sees an entry added behind the ones it counted.  Two nested loops of one thread and
a third in another can be at different places of one list.  `MaxDepth` bounds the
nesting.  `each_property_qualifier`, whose subject can also change, stands for the
loops with a block, and `to_a` for itself: the other loops differ only in taking no
name or no argument that changes.  The theorems are about all of them.

`LeakBounded` and `EndsBounded` do not claim that nothing is lost, which is untrue of
this code; they name what is.  Of handles, `LeakBounded` says that one is without a
wrapper exactly if it is an original, a lost answer or a string a call left.  Of the
memory of a call, `EndsBounded` says by operation and outcome: the property list and
the first input arguments are lost only by an exception or an interrupt; the second
input arguments and the strings of both by `invoke_method`; the string it stores by
`set_property`; the output arguments by
`invoke_method` when the CIMOM did not report an error; the answer by an interrupt,
or where it is a value that is cloned; the message by an interrupt; the path by the
six operations that write it out, when they got no reply to wrap.

In `session` the integers have 2, 4, 8 and 32 values in place of those of 8, 16, 32
and 64 bits, with Fixnums of 16 values; the numbers given lie on either side of each
limit. A method has at most two inputs and two outputs; the second output is the one
without a value, or with one that has no Ruby value. The proofs have none of these
bounds.

Deadlock is not checked in the runs of `Wrappers` and `CimData`: the process has
ended, or has used up its handles.  In the others it is checked.

### What the code does otherwise than it says

Three runs expect a violation; each is a disagreement between the code and a
comment, a changelog entry or a test, quoted in `PROJECT.json`.

| run | property | what happens |
|---|---|---|
| `call_strings` | `ArgsIntact` | `to_charptr` points into a temporary String (`sfcc.c:561`), which the collector may free while a threaded `set_property` reads it and another thread runs |
| `data_sources` | `NoFault` | a data object does not keep the wrapper it refers to |
| `session_outputs` | `OutputsReturned` | a null or bad output argument turns the success of a method into `TypeError` and loses the other outputs (`sfcc.c:350`, `cim_client.c:1126`) |

The models reproduce more, which show when a cfg is widened or a property is
strengthened:

- `invoke_method` builds the input arguments twice in a threaded build and frees
  one (`cim_client.c:1102`), and keeps the output arguments when there is no
  `argout` or it is no Hash; `lost[t]` in `ClientCall`;
- a call that raises or is interrupted leaves its property list behind
  (`cim_client.c:261-272`; `lost[t]`, and the exception `EndsBounded` makes);
- the originals of cloned answers, the path in the message of an error and the CIM
  strings of keys, properties and arguments are never released (`cim_client.c:1129`,
  1216, 817, `sfcc.c:295`; `left` in `Wrappers`, `lost[t]` in `ClientCall`);
- `client=` with anything but a client follows an uninitialised pointer
  (`cim_object_path.c:161`; `RefuseClient`);
- an array with an element that has no CIM value is lost half-filled (`sfcc.c:400`;
  `half` in `CimData`);
- a refused array leaves the state good and the old type gone (`cim_data.c:277`,
  `sfcc.c:402`; `NoFault` with `Careful = FALSE` and arrays in `Values`);
- a boolean is never stored (`cim_data.c:214` is unreachable; `GoodIsStored` when
  `Values` has `"boolean"`);
- a number overwrites the pointer of an integer array (`cim_data.c:221` tests the
  type with a mask; `GoodIsStored` with `Careful = FALSE`);
- `type=` with an object that is no type makes the data object forget its value
  (`cim_data.c:106` and 38; `ValueOwned` with `Careful = FALSE`);
- a block that breaks, or a value that cannot be converted, loses the name string of
  its step (`cim_instance.c:70` and its like; `taken - freed` in `ended`);
- 64-bit integers lose their upper half on the way to Ruby (`sfcc.c:271`;
  `IntegersArrive` when `Short` lets 64 bits in);
- four status codes raise `NameError` in place of their exception (`Misnamed`), an
  unknown scheme does too because its message names a variable that does not exist
  (`client.rb:80`), and https without `:verify => false` is refused whatever
  certificates are given (`client.rb:77`).

The passing runs leave such inputs out by name (`NoBooleans`, `Careful`,
`KeepSources`, `NoArrays`, `PlainString`, `Short`, `Misnamed`) and check what then
holds.

### Fairness

`Wrappers`: only the finalizers at exit are sure to run; the comment at
`cim_client.c:210-213` and Ruby's `Data_Wrap_Struct` contract say so.  Nothing
forces a collection before.  `ClientCall`: Ruby hands the lock to waiting threads
in turn and takes it from a thread whose time slice is over, hence strong
fairness for taking the lock and weak fairness for the steps of its holder.
Nothing makes the CIMOM answer, and no thread need make a call.  The liveness of
`RemoteCall` is a leads-to, not a fairness condition: an answer that came is told
(`AnswersAreTold`), which follows from the fairness of `ClientCall`.  `CimData`,
`EachLoop` and `Session` state safety only: they are sequences of calls the program
may make, and a block or a CIMOM need not come back.

### Mutants

Next to a mapped operator a module has a few variants that a plausible slip would
give (a mark function forgotten, a clone forgotten, a field of the argument
struct not filled in, the lock not given up, the flag `reference` not set).
Their comments start with "Fault".  No action uses them; each property of a
passing run fails when its variant takes the operator's place.

## 4. Proofs

The six `...Proofs` modules are checked by tlapm with no assumption beyond the
named ones of the modules they are about (`Nil` is no slot, `None` is no thread,
sources are no values, the halves of the integer types grow with their width, and
the like).  They hold for any number of slots, handles, threads, data objects,
lists, nested loops, hosts and arguments.

`Wrappers`. `HandleLive` alone is not inductive: that a sweep leaves the handles of
the others live needs `SoleOwner`, and that a handle goes with its parts and with
nothing else needs facts on `parent`. `IInv` therefore adds that handles not yet
made are no parts and have none (`Fresh`), that a part is live when and as long as
its whole is (`PartOfWhole`), that handles have a kind (`Typed`), that only wrappers
with a client field have a client (`ClientField`) and that what the program can
reach is allocated (`UsableAllocated`). The operations that wrap a fresh handle
share one lemma (`WrapIInv`), and so do the sweep and the finalizers
(`DeallocIInv`); every other action has a lemma of its own. `ReachableIsKept` rests
on the lemma that `Marked` and `Usable` are the same set, which follows from `Marks`
and `Leads` agreeing in every state that satisfies the invariant: only an
enumeration, an instance or a path has a client. `Implementation` maps every step:
those that allocate to `Acquire`, those that release to `Reclaim`, those that move
roots to `Forget` or a stutter. `LeakIsBounded` needs that a handle in `left` has no
wrapper: only fresh handles are wrapped or left, never both. `ExitGivesBack` is the
safety half of `ExitReleasesWrapped`: after the program every step but that of
`CIMC_ENV` removes one wrapper (`ExitFrees`), and when no wrapper is left only
handles in `left`, and their parts, are live (`OnlyLeftRemain`), because
`LeakBounded` gives every other one a wrapper and `PartOfWhole` every part a whole.
That the finalizers do run is the half that fairness adds.

`ClientCall`.  `IInv` is `TypeOK`, `LockHeld`, `EndsBounded`, `OpKnown` (a thread
inside the library has called an operation), `ReplyKept` (a reply is there from
its arrival to the end of the call) and `HeldRight` (output arguments are not held
once the CIMOM reported an error, and a reply is held only when there is one that
the operation returns).  `EndsBounded` needs the last: what an end loses is what was
held and not freed.  `CallsDoNotOverlap` follows from `LockHeld`:
without `MightBlock` a thread inside the library holds the lock.  `ArgsAreComplete`
follows from `OpKnown` and a lemma on the two tables.  `StringsStayIntact` adds the
invariant `Untouched`: whoever could disturb a string would hold the lock that the
call holds.  `Implementation` maps every step to one of `RemoteCall`, and needs
`ReplyKept` to know that an answer is told once.

`CimData`. What a program gets depends on what it does, so the theorems carry
hypotheses on the constants. `Regular` (the program assigns only convertible values,
or uses no arrays) is needed for single ownership: when an array is refused, the
struct has the type of its elements, the state good and the value of its union from
before, which may be a source's. `IInv` has four parts besides types. `OwnersRight`:
an owned value is live, nobody else's and no source's. `SourcesRight`: a source's
handle is live and its own. `RecordsRight`: a struct is one the program can make, a
good one holds what it says (`Stored`), and what it refers to is there (`Kept`).
`AllOwned`: what is live has an owner. Assignments and constructors share the lemma
`UpdateInv`, which asks of the new struct only that it is blank or filled;
`AssignOutcome` and `FromRubyInv` show that for every sort of value.
`OneOwnerAlways` and `SourceSafeAlways` are proved for regular programs,
`NoFaultEver` for programs that are `Careful` and `KeepSources`, `ValueOwnedAlways`
for careful ones, `GoodIsStoredAlways` for careful ones that assign no boolean; it
rests on `Stored`, which compares `from` with `given`.

`CimDataOwnersProofs` drops the hypotheses on the constants: any program, any
values, arrays with mixed elements among them. `TypeCorrect` needs only that what is
referred to was allocated at some time (`Born`). Two kinds of step are then to blame
for all that goes wrong, and they are named as action formulas a behaviour may
satisfy. `SetTypeBad` gives `type=` something that is no type, which makes the
object forget its value; a behaviour without it (`TypesAreTypes`) loses no value an
object owned, though arrays are lost half-filled. `LateRefusal` is an assignment of
a value that the object's type refuses after `do_set_value` has given up the old
value and set the state (`RefusedLate`: an array that cannot be converted, or a huge
number or a word for an array type of numbers). It is stated of what the program
gives, not of what comes of it; a behaviour without it (`NoLateRefusal`) has one
owner for each value and leaves the sources alone, whatever else fails. The
inductive invariant is `OInv`: `BInv`, `SourcesRight` and `OwnersApart` (an owned
native value is live, nobody else's and no source's). `SlotStep` says what a step
may do to one data object; the lemmas before it show that every update does that,
from what an assignment can make of a struct (`Result`): its pointer is fresh, the
old one or a source's, and an owned one is fresh unless the struct was kept by an
exception.

`EachLoop`.  `IInv` says of every loop on every stack that its index is the number
of entries yielded, that these are the first of its list unless it was moved, that
the list has not become shorter than it counted, and that a loop in its block
holds one name.  `ProceedIInv` shows it for one step of a loop, `PutIInv` because
lists only grow at their end.  `LoopsImplementIteration` uses the same invariant:
the first entries of a list stay what they were, so the list a loop walks
does not change, and an index beyond the count is the end of that list.

`Session`. `IInv` says what is known of a call by how far it has come (`Stage`: up
to `bind` the arguments taken were not refused, from `encode` on the request is one
the class's description allows, from `execute` on the wire holds the converted
arguments), that nothing came back before `decode` (`Silent`) and what the answer
looks like (`Answered`). With `RunsOnlyWhenAsked` it is inductive. `EndsRight` is
then shown of the steps that end a call; its arithmetic is in the lemmas on
`Numbers` (`AsUnsignedSame`, `AsSignedSame`, `HeldSame`, `ToRubySame`).
`GoodOutputsReturned` is what remains of the claim the run `session_outputs`
refutes: outputs that are all good and have Ruby values reach the program, since
`invoke_method` merges them before it converts the result.

Model-checked only: `ExitReleasesWrapped`, `EveryThreadRuns` and `AnswersAreTold`.
They hold by fairness, whose `ENABLED` the prover does not reason about; of the
first the safety half is proved.  Every other property of a passing run is stated by
a theorem.

## 5. Plan

Done: `Wrappers`, `ClientCall`, `CimData`, `EachLoop` with their abstract
specifications and theorems; the Ruby layer with numbers and status codes; `CimData`
after failed assignments.

Left, in this order:

1. `Numbers` beyond 32 bits: what is kept of a 64-bit integer is its value modulo
   2^32, as a lemma for every width.
2. `Session` as an implementation of `RemoteCall` for one thread, so that what a
   program is told of a call is stated once for both layers.
3. Arrays in `Session` by their elements: so far an array either is good or has no
   Ruby value.

Not modelled, and why:

- what the CIMOM stores and how it answers, XML and sockets: in the native library;
- the content of strings and property lists (the length of a `charsptr`,
  `cim_data.c:197`; the missing end of a property list, `sfcc.c:174`; the empty one
  that becomes NULL, `sfcc.c:176`): what the library does with them is not in this
  code, and the C code computes them in one expression;
- host, namespace, class name, key lists, `size` and the flags of properties: each
  is one native call and a conversion, and keeps no state;
- the precedence of explicit parameters over a URI is modelled (`Overridden`), but no
  property repeats it: it is one `||=` for each part;
- floats and times, type names, flags, string formatting, `<=>` of paths;
- the build files, tests and examples.

------------------------------ MODULE Wrappers ------------------------------
(***************************************************************************)
(* The Ruby objects that wrap handles of the native CIM client library,    *)
(* the garbage collector that sweeps them, and the exit of the process.    *)
(*                                                                         *)
(* Each T_DATA object owns one native handle and gives it back in its      *)
(* dealloc function.  An Enumeration, Instance or ObjectPath also holds    *)
(* the VALUE of the client it came from and has a mark function, the only  *)
(* thing that keeps this VALUE from being swept.  Values read out of a     *)
(* handle (the elements of an enumeration, embedded instances, references) *)
(* are parts of it and die with it, so sfcc_cimdata_to_value clones them   *)
(* before it wraps them.                                                   *)
(*                                                                         *)
(* Some handles never get a wrapper and are released by nobody: what the   *)
(* CIMOM sent for a value of which the program gets the clone, the answer  *)
(* of an interrupted call, and CIM strings made on the way.  They are left *)
(* allocated, and the set left says which they are.                        *)
(*                                                                         *)
(* Ruby code runs under the interpreter's lock, so an operation is one     *)
(* step; the collector takes its own steps in between.  What one call to   *)
(* the CIMOM does without the lock is the subject of module ClientCall.    *)
(***************************************************************************)
EXTENDS Naturals, FiniteSets

CONSTANTS Obj,       \* slots of Ruby's heap that can hold a wrapper
          Native,    \* native handles, each allocated at most once
          Nil,       \* Ruby's nil as the client of a wrapper
          NoNative,  \* the NULL handle
          MaxParts   \* bound: parts of one handle that are told apart

ASSUME NilAssumption == Nil \notin Obj
ASSUME NoNativeAssumption == NoNative \notin Native
ASSUME MaxPartsAssumption == MaxParts \in Nat

Kind == {"Client", "Enumeration", "Instance", "ObjectPath", "Class", "String"}

\* The wrappers whose struct has a field VALUE client (rb_sfcc_*).
HasClient == {"Enumeration", "Instance", "ObjectPath"}

VARIABLES kind,    \* kind[o]: class of the wrapper in slot o, or "free"
          ptr,     \* ptr[o]: the native handle the wrapper holds
          client,  \* client[o]: the VALUE in the struct's client field
          root,    \* objects Ruby variables and machine stacks refer to
          state,   \* state[n]: unborn, live (allocated) or released
          type,    \* type[n]: what a handle is, "none" before it is made
          parent,  \* parent[n]: the handle n is a part of, if any
          left,    \* handles allocated for nobody: no object releases them
          phase    \* run, exit (finalizers run), down (CIMC_ENV released),
                   \* or crash

vars == <<kind, ptr, client, root, state, type, parent, left, phase>>

TypeOK ==
  /\ kind \in [Obj -> Kind \cup {"free"}]
  /\ ptr \in [Obj -> Native \cup {NoNative}]
  /\ client \in [Obj -> Obj \cup {Nil}]
  /\ root \in SUBSET Obj
  /\ state \in [Native -> {"unborn", "live", "released"}]
  /\ type \in [Native -> Kind \cup {"none"}]
  /\ parent \in [Native -> Native \cup {NoNative}]
  /\ left \in SUBSET Native
  /\ phase \in {"run", "exit", "down", "crash"}

Init ==
  /\ kind = [o \in Obj |-> "free"]
  /\ ptr = [o \in Obj |-> NoNative]
  /\ client = [o \in Obj |-> Nil]
  /\ root = {}
  /\ state = [n \in Native |-> "unborn"]
  /\ type = [n \in Native |-> "none"]
  /\ parent = [n \in Native |-> NoNative]
  /\ left = {}
  /\ phase = "run"

-----------------------------------------------------------------------------
(***************************************************************************)
(* Reachability.                                                           *)
(***************************************************************************)

\* Fault: an ObjectPath wrapped without its mark function.
MarksNotPath(o) ==
  IF kind[o] \in {"Enumeration", "Instance"} THEN {client[o]} \ {Nil} ELSE {}

\* The VALUEs the mark function of the object in slot o hands to rb_gc_mark.
Marks(o) ==
  IF kind[o] \in {"Enumeration", "Instance", "ObjectPath"}
    THEN {client[o]} \ {Nil}
    ELSE {}

\* The VALUEs a program that holds o can obtain from it (o.client).
Leads(o) == {client[o]} \ {Nil}

\* The least set that contains the roots and is closed under marking.
Marked ==
  {o \in Obj : \A S \in SUBSET Obj :
     (root \subseteq S /\ \A p \in S : Marks(p) \subseteq S) => o \in S}

\* The same for what the program can get hold of.
Usable ==
  {o \in Obj : \A S \in SUBSET Obj :
     (root \subseteq S /\ \A p \in S : Leads(p) \subseteq S) => o \in S}

Parts(n) == {m \in Native : parent[m] = n}
Tree(n) == {n} \cup Parts(n)

\* Handles the program can use: those of usable wrappers and their parts.
UsableNative ==
  IF phase = "run" THEN UNION {Tree(ptr[o]) \cap Native : o \in Usable} ELSE {}

-----------------------------------------------------------------------------
(***************************************************************************)
(* Wrapping and releasing.                                                 *)
(***************************************************************************)

\* The native library allocates handle n of kind k, with parts of kind pk, and
\* those of loose; nobody will release the latter.
Make(n, k, parts, pk, loose) ==
  LET whole == {n} \cup loose IN
  /\ \A m \in whole \cup parts : state[m] = "unborn"
  /\ parts \in SUBSET (Native \ whole)
  /\ Cardinality(parts) <= MaxParts
  /\ state' = [m \in Native |-> IF m \in whole \cup parts THEN "live" ELSE state[m]]
  /\ type' = [m \in Native |-> IF m \in whole THEN k
                               ELSE IF m \in parts THEN pk ELSE type[m]]
  /\ parent' = [m \in Native |-> IF m \in parts THEN n ELSE parent[m]]
  /\ left' = left \cup loose

Allocate(n, k, parts, pk) == Make(n, k, parts, pk, {})

\* Fault: the handle and the client change places.
WrapSwapped(o, k, n, c) ==
  /\ phase = "run"
  /\ kind[o] = "free"
  /\ kind' = [kind EXCEPT ![o] = k]
  /\ ptr' = [ptr EXCEPT ![o] = c]
  /\ client' = [client EXCEPT ![o] = n]
  /\ root' = root \cup {o}
  /\ UNCHANGED phase

\* Sfcc_wrap_cim_*: a new Ruby object o takes over handle n; the caller
\* gets a reference to it.
Wrap(o, k, n, c) ==
  /\ phase = "run"
  /\ kind[o] = "free"
  /\ kind' = [kind EXCEPT ![o] = k]
  /\ ptr' = [ptr EXCEPT ![o] = n]
  /\ client' = [client EXCEPT ![o] = IF k \in HasClient THEN c ELSE Nil]
  /\ root' = root \cup {o}
  /\ UNCHANGED phase

\* ft->release: a handle goes together with its parts.
Release(n) ==
  state' = [m \in Native |-> IF m \in Tree(n) THEN "released" ELSE state[m]]

\* Fault: a Class is freed without releasing its handle.
DeallocNotClass(o) ==
  /\ kind[o] # "free"
  /\ IF kind[o] = "Class" THEN UNCHANGED state ELSE Release(ptr[o])
  /\ kind' = [kind EXCEPT ![o] = "free"]
  /\ ptr' = [ptr EXCEPT ![o] = NoNative]
  /\ client' = [client EXCEPT ![o] = Nil]
  /\ UNCHANGED <<root, type, parent, left, phase>>

\* Fault: a wrapper releases the handle of its client as well.
DeallocClientToo(o) ==
  /\ kind[o] # "free"
  /\ LET own == {ptr[o]} \cup (IF client[o] = Nil THEN {} ELSE {ptr[client[o]]})
     IN state' = [m \in Native |-> IF m \in own THEN "released" ELSE state[m]]
  /\ kind' = [kind EXCEPT ![o] = "free"]
  /\ ptr' = [ptr EXCEPT ![o] = NoNative]
  /\ client' = [client EXCEPT ![o] = Nil]
  /\ UNCHANGED <<root, type, parent, left, phase>>

\* The dealloc functions; the slot is free for another object afterwards.
Dealloc(o) ==
  /\ kind[o] # "free"
  /\ Release(ptr[o])
  /\ kind' = [kind EXCEPT ![o] = "free"]
  /\ ptr' = [ptr EXCEPT ![o] = NoNative]
  /\ client' = [client EXCEPT ![o] = Nil]
  /\ UNCHANGED <<root, type, parent, left, phase>>

-----------------------------------------------------------------------------
(***************************************************************************)
(* What a Ruby program does with wrappers.                                 *)
(***************************************************************************)

\* Client.native_connect
Connect ==
  \E o \in Obj, n \in Native :
    /\ Allocate(n, "Client", {}, "none")
    /\ Wrap(o, "Client", n, Nil)

\* class_names, classes, query, instance_names, instances, associators,
\* associator_names, references and reference_names: the reply is an
\* enumeration of object paths, classes or instances.
EnumerationResult(c) ==
  \E o \in Obj, n \in Native, parts \in SUBSET Native,
     pk \in {"ObjectPath", "Class", "Instance"} :
    /\ kind[c] = "Client"
    /\ Allocate(n, "Enumeration", parts, pk)
    /\ Wrap(o, "Enumeration", n, c)

\* get_instance; its parts are embedded instances and references.
GetInstance(c) ==
  \E o \in Obj, n \in Native, parts \in SUBSET Native,
     pk \in {"Instance", "ObjectPath"} :
    /\ kind[c] = "Client"
    /\ Allocate(n, "Instance", parts, pk)
    /\ Wrap(o, "Instance", n, c)

\* get_class; a class keeps no client.
GetClass(c) ==
  \E o \in Obj, n \in Native :
    /\ kind[c] = "Client"
    /\ Allocate(n, "Class", {}, "none")
    /\ Wrap(o, "Class", n, c)

\* create_instance of one object path and one instance: a new object path.
CreateInstance(c) ==
  \E op, inst \in root, o \in Obj, n \in Native :
    /\ kind[c] = "Client"
    /\ kind[op] = "ObjectPath" /\ kind[inst] = "Instance"
    /\ Allocate(n, "ObjectPath", {}, "none")
    /\ Wrap(o, "ObjectPath", n, c)

\* invoke_method and property: the value the CIMOM sent is cloned and the
\* clone n wrapped with the calling client.  The original m of the result is
\* left; that of an output argument goes with the CIMCArgs it came in.
ReplyValue(c) ==
  \E o \in Obj, n, m \in Native, k \in Kind \ {"Client", "String"} :
    /\ kind[c] = "Client" /\ m # n
    /\ \E loose \in {{}, {m}} : Make(n, k, {}, "none", loose)
    /\ Wrap(o, k, n, c)

\* A call is interrupted when its answer is there, or the answer cannot be
\* made a Ruby value (then it is data): the answer is left.  Its parts, which
\* nobody sees, are not told apart.
LoseAnswer(c) ==
  \E n \in Native, k \in Kind \ {"Client", "String"} :
    /\ phase = "run" /\ kind[c] = "Client"
    /\ Make(n, k, {}, "none", {n})
    /\ UNCHANGED <<kind, ptr, client, root, phase>>

\* A CIM string is made and left: of a Ruby string that becomes a key, a
\* property or an argument of a method; of a name asked of an object path, or
\* taken by a loop that is left; of the object path in an error message; of the
\* value invoke_method or property returns as a Ruby string.
LeaveString ==
  \E n \in Native :
    /\ phase = "run"
    /\ Make(n, "String", {}, "none", {n})
    /\ UNCHANGED <<kind, ptr, client, root, phase>>

\* ObjectPath.new(namespace, class_name, client): any object, or none, is
\* taken as the client.  The path may hold references as keys.
NewObjectPath ==
  \E c \in root \cup {Nil}, o \in Obj, n \in Native, parts \in SUBSET Native :
    /\ Allocate(n, "ObjectPath", parts, "ObjectPath")
    /\ Wrap(o, "ObjectPath", n, c)

\* Instance.new(object_path, client)
NewInstance ==
  \E op \in root, c \in root \cup {Nil}, o \in Obj, n \in Native :
    /\ kind[op] = "ObjectPath"
    /\ Allocate(n, "Instance", {}, "none")
    /\ Wrap(o, "Instance", n, c)

\* CIMString.new(value)
NewString ==
  \E o \in Obj, n \in Native :
    /\ Allocate(n, "String", {}, "none")
    /\ Wrap(o, "String", n, Nil)

\* Instance#object_path: the native call builds a path, the client is the
\* instance's own.
InstanceObjectPath(i) ==
  \E o \in Obj, n \in Native :
    /\ kind[i] = "Instance"
    /\ Allocate(n, "ObjectPath", {}, "none")
    /\ Wrap(o, "ObjectPath", n, client[i])

\* Fault: the part is wrapped as it is, without a clone.
ToValueUncloned(src) ==
  \E m \in Parts(ptr[src]), o \in Obj :
    /\ kind[src] \in HasClient
    /\ Wrap(o, type[m], m, client[src])
    /\ UNCHANGED <<state, type, parent, left>>

\* sfcc_cimdata_to_value on part m of what src wraps: an element in each or
\* to_a, a property or qualifier of an instance, a key of an object path.
ToValue(src) ==
  \E m \in Parts(ptr[src]), o \in Obj, n \in Native :
    /\ kind[src] \in HasClient
    /\ Allocate(n, type[m], {}, "none")
    /\ Wrap(o, type[m], n, client[src])

\* ObjectPath#client=: only a Client is accepted.
SetClient(op) ==
  \E c \in root :
    /\ phase = "run"
    /\ kind[op] = "ObjectPath" /\ kind[c] = "Client"
    /\ client' = [client EXCEPT ![op] = c]
    /\ UNCHANGED <<kind, ptr, root, state, type, parent, left, phase>>

\* It refuses anything else, nil included, with an error whose message is read
\* through a pointer nobody has set: the call raises, which changes nothing,
\* or brings the process down.
RefuseClient(op) ==
  \E c \in root \cup {Nil} :
    /\ phase = "run"
    /\ kind[op] = "ObjectPath" /\ (c # Nil => kind[c] # "Client")
    /\ phase' \in {"run", "crash"}
    /\ UNCHANGED <<kind, ptr, client, root, state, type, parent, left>>

\* Enumeration#client, Instance#client and ObjectPath#client
GetClient(o) ==
  /\ phase = "run"
  /\ kind[o] \in HasClient /\ client[o] # Nil
  /\ root' = root \cup {client[o]}
  /\ UNCHANGED <<kind, ptr, client, state, type, parent, left, phase>>

\* The program drops its last reference to o.
Drop(o) ==
  /\ phase = "run"
  /\ root' = root \ {o}
  /\ UNCHANGED <<kind, ptr, client, state, type, parent, left, phase>>

-----------------------------------------------------------------------------
(***************************************************************************)
(* The collector and the exit of the process.                              *)
(***************************************************************************)

\* Lazy sweeping frees unmarked objects one at a time, in any order.
Sweep(o) ==
  /\ phase = "run"
  /\ o \notin Marked
  /\ Dealloc(o)

\* The program ends: its references are of no account any more.
BeginExit ==
  /\ phase = "run"
  /\ phase' = "exit"
  /\ root' = {}
  /\ UNCHANGED <<kind, ptr, client, state, type, parent, left>>

\* Fault: to prevent multiple deallocs, the exit leaves clients alone.
FinalizeNotClient(o) ==
  /\ phase \in {"exit", "down"}
  /\ kind[o] # "Client"
  /\ Dealloc(o)

\* At exit Ruby deallocates every remaining object, clients included, in
\* heap order and without marking.
Finalize(o) ==
  /\ phase \in {"exit", "down"}
  /\ Dealloc(o)

\* Exit_sfcc, the dealloc function of the constant CIMC_ENV, somewhere
\* among the other finalizers.
Exit_sfcc ==
  /\ phase = "exit"
  /\ phase' = "down"
  /\ UNCHANGED <<kind, ptr, client, root, state, type, parent, left>>

Program ==
  \/ Connect \/ NewObjectPath \/ NewInstance \/ NewString \/ LeaveString
  \/ \E o \in root :
       \/ EnumerationResult(o) \/ GetInstance(o) \/ GetClass(o)
       \/ CreateInstance(o) \/ ReplyValue(o) \/ LoseAnswer(o)
       \/ InstanceObjectPath(o) \/ ToValue(o)
       \/ SetClient(o) \/ RefuseClient(o) \/ GetClient(o) \/ Drop(o)

Exit == Exit_sfcc \/ \E o \in Obj : Finalize(o)

Next == Program \/ (\E o \in Obj : Sweep(o)) \/ BeginExit \/ Exit

\* Only the finalizers are sure to run: the comment at cim_client.c:210
\* says Ruby will de-allocate what is left during exit().
Spec == Init /\ [][Next]_vars /\ WF_vars(Exit)

-----------------------------------------------------------------------------
(***************************************************************************)
(* Properties.                                                             *)
(***************************************************************************)

Wrappers == {o \in Obj : kind[o] # "free"}

\* The handle of every wrapper is allocated, is of the wrapper's kind and is
\* no part of another handle: a method called on the object never follows a
\* handle that its own dealloc, or that of another object, released.
HandleLive ==
  \A o \in Wrappers : /\ ptr[o] \in Native
                      /\ state[ptr[o]] = "live"
                      /\ type[ptr[o]] = kind[o]
                      /\ parent[ptr[o]] = NoNative

\* Two wrappers never hold one handle, so no dealloc releases it twice.
SoleOwner ==
  \A o, p \in Wrappers : ptr[o] = ptr[p] => o = p

\* A handle that is allocated and is no part of another one is either held by
\* a wrapper, hence released when this wrapper goes, or one of those a call
\* left for good: the original of a cloned result, a lost answer, a string.
\* No other handle of these kinds is lost, and what is left is never wrapped.
LeakBounded ==
  \A n \in Native : state[n] = "live" /\ parent[n] = NoNative =>
    n \in left <=> ~\E o \in Wrappers : ptr[o] = n

\* A VALUE the program can obtain, directly or as the client of something it
\* holds, denotes the object it was stored for: the collector neither frees
\* that object nor puts another one in its slot while it is within reach.
ClientKept ==
  [][\A o \in Usable : phase' = "run" =>
       kind[o] # "free" /\ kind'[o] = kind[o] /\ ptr'[o] = ptr[o]]_vars

\* Once the program ends, every handle is given back that a Ruby object had
\* taken over, and its parts; those a call left stay allocated.
ExitReleasesWrapped ==
  (phase \in {"exit", "down"}) ~> (\A n \in Native \ left : state[n] # "live")

\* The wrapper layer implements the handle table.
Handles == INSTANCE HandleTable
  WITH made <- {n \in Native : state[n] # "unborn"},
       gone <- {n \in Native : state[n] = "released"},
       usable <- UsableNative

ImplementsHandleTable == Handles!Spec
=============================================================================

----------------------------- MODULE ClientCall -----------------------------
(***************************************************************************)
(* The calls of a Cim::Client: Ruby threads, the interpreter's lock (GVL), *)
(* and the native memory one call holds from its first conversion to its   *)
(* return.                                                                 *)
(*                                                                         *)
(* A call converts its Ruby arguments to C data, enters the native library *)
(* for as long as the CIMOM takes, and turns the reply into a Ruby value.  *)
(* Built for a threaded Ruby (MightBlock) it gives up the lock for the     *)
(* native part, so other threads run Ruby code, start calls of their own,  *)
(* collect garbage and interrupt it meanwhile; otherwise it keeps the lock.*)
(* A Ruby exception leaves the C function by longjmp: what the function    *)
(* still had to free is lost.                                              *)
(***************************************************************************)
EXTENDS Naturals, FiniteSets

CONSTANTS Thread,      \* the Ruby threads
          None,        \* the lock is held by no thread
          Calls,       \* the client operations the program uses
          MightBlock,  \* THREAD_MIGHT_BLOCK of the build
          ArgKind      \* what the program passes where a string is wanted

Operation ==
  {"get_class", "class_names", "classes", "get_instance", "create_instance",
   "set_instance", "delete_instance", "query", "instance_names", "instances",
   "associators", "associator_names", "references", "reference_names",
   "invoke_method", "set_property", "property"}

ASSUME NoneAssumption == None \notin Thread
ASSUME CallsAssumption == Calls \subseteq Operation
ASSUME MightBlockAssumption == MightBlock \in BOOLEAN

\* constant: a Symbol or a String nobody changes; shared: a String another
\* thread may modify; temporary: any other object, whose to_s is a new String
\* that no variable refers to.
ASSUME ArgKindAssumption == ArgKind \subseteq {"constant", "shared", "temporary"}

-----------------------------------------------------------------------------
(***************************************************************************)
(* What each operation passes, allocates and returns.                      *)
(***************************************************************************)

TakesFlags == {"get_class", "class_names", "classes", "get_instance",
               "set_instance", "instances", "associators", "references"}

TakesProps == (TakesFlags \ {"class_names", "classes"})

\* Operations with a string argument of their own, beside the property list.
TakesNames ==
  {"query", "associators", "associator_names", "references", "reference_names",
   "invoke_method", "set_property", "property"}

\* Those that convert nothing after such a string: the collector has no chance
\* to run over it before the native call.
NameComesLast == {"set_property", "property"}
                 \cup (IF MightBlock THEN {} ELSE {"invoke_method"})

ReturnsEnumeration ==
  {"class_names", "classes", "query", "instance_names", "instances",
   "associators", "associator_names", "references", "reference_names"}

ReturnsHandle == ReturnsEnumeration \cup {"get_class", "get_instance", "create_instance"}

\* The reply is a CIMCData, converted by sfcc_cimdata_to_value.
ReturnsData == {"invoke_method", "property"}

\* Operations that write their object path to a string for the message of an
\* error: the last four of an answer without enumeration, too.
NamesPath ==
  {"get_class", "delete_instance",
   "associators", "associator_names", "references", "reference_names"}

Roles == {"assoc_class", "result_class", "role", "result_role"}

\* The fields of ruby_thread_args_t an operation reads without the lock.
Needs(o) ==
  {"client", "op"}
  \cup CASE o = "get_class"        -> {"flags", "props", "status"}
         [] o = "class_names"      -> {"flags", "status"}
         [] o = "classes"          -> {"flags", "status"}
         [] o = "get_instance"     -> {"flags", "props", "status"}
         [] o = "create_instance"  -> {"instance", "status"}
         [] o = "set_instance"     -> {"instance", "flags", "props", "status"}
         [] o = "delete_instance"  -> {"status"}
         [] o = "query"            -> {"query", "lang", "status"}
         [] o = "instance_names"   -> {"status"}
         [] o = "instances"        -> {"flags", "props", "status"}
         [] o = "associators"      -> Roles \cup {"flags", "props", "status"}
         [] o = "associator_names" -> Roles \cup {"status"}
         [] o = "references"       -> {"result_class", "role", "flags", "props", "status"}
         [] o = "reference_names"  -> {"result_class", "role", "status"}
         [] o = "invoke_method"    -> {"name", "argsin", "argsout", "status", "data"}
         [] o = "set_property"     -> {"name", "value", "type", "status"}
         [] o = "property"         -> {"name", "status", "data"}

\* Fault: the role of reference_names is not filled in.
FillsNoRole(o) ==
  CASE o = "reference_names" -> {"client", "op", "status", "result_class"}
    [] OTHER                 -> Needs(o)

\* The fields it fills before it gives up the lock.
Fills(o) ==
  {"client", "op", "status"}
  \cup (IF o \in TakesFlags THEN {"flags"} ELSE {})
  \cup (IF o \in TakesProps THEN {"props"} ELSE {})
  \cup (IF o \in {"create_instance", "set_instance"} THEN {"instance"} ELSE {})
  \cup (IF o \in {"associators", "associator_names"} THEN Roles ELSE {})
  \cup (IF o \in {"references", "reference_names"} THEN {"result_class", "role"} ELSE {})
  \cup (IF o = "query" THEN {"query", "lang"} ELSE {})
  \cup (IF o \in {"invoke_method", "set_property", "property"} THEN {"name"} ELSE {})
  \cup (IF o = "invoke_method" THEN {"argsin", "argsout"} ELSE {})
  \cup (IF o = "set_property" THEN {"value", "type"} ELSE {})
  \cup (IF o \in ReturnsData THEN {"data"} ELSE {})

\* Native memory a call may hold: the property list; the input arguments
\* (built once more for the threaded call) and the CIM strings and arrays they
\* were copied from; the output arguments; the value of set_property; what the
\* native call returned; the message of its status; the path in a string.
Buffer == {"props", "argsin", "argsin2", "strings", "argsout", "value", "reply",
           "message", "ops"}

\* Fault: the message of an error is formatted before each call.
HeldMessage(o) == {{"text"}}

\* The input arguments of a method, with and without strings among them.
Given(buffers) == {buffers, buffers \cup {"strings"}}

AllArgs == {"argsin", "argsout"} \cup (IF MightBlock THEN {"argsin2"} ELSE {})

\* What a call may hold when all its arguments are converted.  A property
\* list is optional; a value that is an object or a number needs no memory.
Held(o) ==
  CASE o \in TakesProps     -> {{}, {"props"}}
    [] o = "invoke_method"  -> Given(AllArgs)
    [] o = "set_property"   -> {{}, {"value"}}
    [] OTHER                -> {{}}

\* What it may hold when an argument is refused: an object of the wrong sort;
\* an element of the property list, a string (its to_s) or the flags
\* (NUM2INT); the type of argin, one of its values, the method name, or one of
\* its values when they are converted again; the value or the name.
HeldAtRaise(o) ==
  CASE o \in TakesProps     -> {{}, {"props"}}
    [] o = "invoke_method"  -> {{}} \cup Given({"argsin"})
                               \cup Given({"argsin", "argsout"}) \cup Given(AllArgs)
    [] o = "set_property"   -> {{}, {"value"}}
    [] OTHER                -> {{}}

-----------------------------------------------------------------------------
VARIABLES gvl,      \* the thread that holds the lock, or None
          pc,       \* pc[t]: ready and ruby outside a call, else its phase
          op,       \* op[t]: the operation t calls, or called last
          held,     \* held[t]: buffers the call in progress has allocated
          arg,      \* arg[t]: what its string arguments are
          intact,   \* intact[t]: the C strings are still as they were taken
          reply,    \* reply[t]: what the native call returned
          pending,  \* pending[t]: an exception was raised in t by others
          outcome,  \* outcome[t]: how the last call of t ended
          lost      \* lost[t]: buffers that call left without an owner

vars == <<gvl, pc, op, held, arg, intact, reply, pending, outcome, lost>>

TypeOK ==
  /\ gvl \in Thread \cup {None}
  /\ pc \in [Thread -> {"ready", "ruby", "native", "back", "finish"}]
  /\ op \in [Thread -> Operation \cup {"none"}]
  /\ held \in [Thread -> SUBSET Buffer]
  /\ arg \in [Thread -> ArgKind \cup {"constant"}]
  /\ intact \in [Thread -> BOOLEAN]
  /\ reply \in [Thread -> {"none", "ok", "null", "error"}]
  /\ pending \in [Thread -> BOOLEAN]
  /\ outcome \in [Thread -> {"none", "value", "error", "raised", "interrupted"}]
  /\ lost \in [Thread -> SUBSET Buffer]

Init ==
  /\ gvl = None
  /\ pc = [t \in Thread |-> "ready"]
  /\ op = [t \in Thread |-> "none"]
  /\ held = [t \in Thread |-> {}]
  /\ arg = [t \in Thread |-> "constant"]
  /\ intact = [t \in Thread |-> TRUE]
  /\ reply = [t \in Thread |-> "none"]
  /\ pending = [t \in Thread |-> FALSE]
  /\ outcome = [t \in Thread |-> "none"]
  /\ lost = [t \in Thread |-> {}]

callVars == <<op, held, arg, intact, reply, pending, outcome, lost>>

\* The call of t returns to Ruby code, with the lock.
Return(t, how, left) ==
  /\ pc' = [pc EXCEPT ![t] = "ruby"]
  /\ outcome' = [outcome EXCEPT ![t] = how]
  /\ lost' = [lost EXCEPT ![t] = left]
  /\ held' = [held EXCEPT ![t] = {}]
  /\ arg' = [arg EXCEPT ![t] = "constant"]
  /\ intact' = [intact EXCEPT ![t] = TRUE]
  /\ reply' = [reply EXCEPT ![t] = "none"]
  /\ pending' = [pending EXCEPT ![t] = FALSE]

-----------------------------------------------------------------------------
(***************************************************************************)
(* Ruby code outside a call.                                               *)
(***************************************************************************)

Acquire(t) ==
  /\ pc[t] = "ready" /\ gvl = None
  /\ gvl' = t
  /\ pc' = [pc EXCEPT ![t] = "ruby"]
  /\ UNCHANGED callVars

\* The time slice of t is over, or it waits for something else.
Yield(t) ==
  /\ pc[t] = "ruby"
  /\ gvl' = None
  /\ pc' = [pc EXCEPT ![t] = "ready"]
  /\ UNCHANGED callVars

\* A string another thread's call points into changes under it: the collector
\* frees a temporary one, or t modifies a shared one.
Disturb(t, u) ==
  /\ pc[t] = "ruby" /\ pc[u] \in {"native", "back"}
  /\ arg[u] \in {"temporary", "shared"}
  /\ intact' = [intact EXCEPT ![u] = FALSE]
  /\ UNCHANGED <<gvl, pc, op, held, arg, reply, pending, outcome, lost>>

\* Thread#raise, Thread#kill or a signal, while u is in a call.
Interrupt(t, u) ==
  /\ pc[t] = "ruby" /\ pc[u] \in {"native", "back"}
  /\ pending' = [pending EXCEPT ![u] = TRUE]
  /\ UNCHANGED <<gvl, pc, op, held, arg, intact, reply, outcome, lost>>

-----------------------------------------------------------------------------
(***************************************************************************)
(* A call.                                                                 *)
(***************************************************************************)

\* The conversion of an argument raises.
Refuse(t, o) ==
  /\ pc[t] = "ruby"
  /\ op' = [op EXCEPT ![t] = o]
  /\ \E left \in HeldAtRaise(o) : Return(t, "raised", left)
  /\ UNCHANGED gvl

\* Fault: the native call is made without giving up the lock.
EnterLocked(t, o) ==
  /\ pc[t] = "ruby"
  /\ op' = [op EXCEPT ![t] = o]
  /\ pc' = [pc EXCEPT ![t] = "native"]
  /\ \E h \in Held(o) : held' = [held EXCEPT ![t] = h]
  /\ UNCHANGED <<gvl, arg, intact, reply, pending, outcome, lost>>

\* What the strings of a call can be that has allocated h: without a string
\* argument of its own, the elements of its property list, if it has one.
Strings(o, h) == IF o \in TakesNames \/ "props" \in h THEN ArgKind ELSE {"constant"}

\* Fault: the lock is given up whatever the build.
EnterUnlocked(t, o) ==
  /\ pc[t] = "ruby"
  /\ op' = [op EXCEPT ![t] = o]
  /\ pc' = [pc EXCEPT ![t] = "native"]
  /\ gvl' = None
  /\ \E h \in Held(o), a \in ArgKind :
       /\ held' = [held EXCEPT ![t] = h]
       /\ a \in Strings(o, h)
       /\ arg' = [arg EXCEPT ![t] = a]
  /\ UNCHANGED <<intact, reply, pending, outcome, lost>>

\* Arguments are converted and the native library is entered.  While one
\* argument is converted the collector may already run over the temporary
\* string of another.
Enter(t, o) ==
  /\ pc[t] = "ruby"
  /\ op' = [op EXCEPT ![t] = o]
  /\ pc' = [pc EXCEPT ![t] = "native"]
  /\ gvl' = IF MightBlock THEN None ELSE t
  /\ \E h \in Held(o) :
       /\ held' = [held EXCEPT ![t] = h]
       /\ \E a \in Strings(o, h), i \in BOOLEAN :
            /\ ~i => a = "temporary" /\ o \notin NameComesLast
            /\ arg' = [arg EXCEPT ![t] = a]
            /\ intact' = [intact EXCEPT ![t] = i]
  /\ outcome' = [outcome EXCEPT ![t] = "none"]
  /\ lost' = [lost EXCEPT ![t] = {}]
  /\ UNCHANGED <<reply, pending>>

\* An interrupt is found before the lock is given up: no request is sent.
InterruptedEarly(t, o) ==
  /\ MightBlock
  /\ pc[t] = "ruby"
  /\ op' = [op EXCEPT ![t] = o]
  /\ \E left \in Held(o) : Return(t, "interrupted", left)
  /\ UNCHANGED gvl

\* Fault: the reply is turned into a Ruby value by the thread that comes out
\* of the native library, without the lock.
ReplyUnlocked(t) ==
  /\ pc[t] = "native"
  /\ reply' = [reply EXCEPT ![t] = "error"]
  /\ pc' = [pc EXCEPT ![t] = "finish"]
  /\ UNCHANGED <<gvl, op, held, arg, intact, pending, outcome, lost>>

\* The CIMOM answers.  An enumeration can be NULL without an error; when a
\* method call fails the library has freed the output arguments (comment at
\* cim_client.c:1131); a scalar needs no memory; an error may come with a
\* message.
Reply(t) ==
  /\ pc[t] = "native"
  /\ \/ /\ reply' = [reply EXCEPT ![t] = "ok"]
        /\ \E r \in (IF op[t] \in ReturnsHandle THEN {{"reply"}}
                     ELSE IF op[t] \in ReturnsData THEN {{}, {"reply"}}
                     ELSE {{}}) :
             held' = [held EXCEPT ![t] = @ \cup r]
     \/ /\ op[t] \in ReturnsEnumeration
        /\ reply' = [reply EXCEPT ![t] = "null"]
        /\ UNCHANGED held
     \/ /\ reply' = [reply EXCEPT ![t] = "error"]
        /\ \E m \in {{}, {"message"}} :
             held' = [held EXCEPT ![t] = (@ \ {"argsout"}) \cup m]
  /\ pc' = [pc EXCEPT ![t] = IF MightBlock THEN "back" ELSE "finish"]
  /\ UNCHANGED <<gvl, op, arg, intact, pending, outcome, lost>>

\* The lock is taken back.
Reacquire(t) ==
  /\ pc[t] = "back" /\ gvl = None
  /\ gvl' = t
  /\ pc' = [pc EXCEPT ![t] = "finish"]
  /\ UNCHANGED callVars

\* A pending interrupt raises as soon as the thread has the lock again.
Interrupted(t) ==
  /\ pc[t] = "finish" /\ pending[t]
  /\ Return(t, "interrupted", held[t])
  /\ UNCHANGED <<gvl, op>>

\* Fault: the property list is freed by nobody.
FreedFirstNoProps == {"argsin"}

\* Freed before the status is looked at: the property list, and the first
\* input arguments.
FreedFirst == {"props", "argsin"}

\* Fault: the status is not looked at.
FinishUnchecked(t) ==
  /\ pc[t] = "finish" /\ ~pending[t]
  /\ Return(t, "value", held[t] \ FreedFirst)
  /\ UNCHANGED <<gvl, op>>

\* The object path written out when the call got no reply to wrap.
Path(t) == IF op[t] \in NamesPath /\ reply[t] # "ok" THEN {"ops"} ELSE {}

\* The C function frees what it frees; raises if the status is an error, when
\* it frees the message; and wraps the reply otherwise.  A handle becomes the
\* wrapper's; a CIMCData is cloned and the original left, also when it has no
\* Ruby value.  The path is never freed.
Finish(t) ==
  LET rest == held[t] \ FreedFirst IN
  /\ pc[t] = "finish" /\ ~pending[t]
  /\ \/ /\ reply[t] = "error"
        /\ Return(t, "error", (rest \ {"message"}) \cup Path(t))
     \/ /\ reply[t] = "null"
        /\ Return(t, "value", rest \cup Path(t))        \* nil
     \/ /\ reply[t] = "ok" /\ op[t] \notin ReturnsData
        /\ Return(t, "value", rest \ {"reply"})
     \/ /\ reply[t] = "ok" /\ op[t] = "property"
        /\ \E how \in {"value", "raised"} : Return(t, how, rest)
     \/ /\ reply[t] = "ok" /\ op[t] = "invoke_method"
        /\ \/ \E how \in {"value", "raised"} :          \* argout is a hash, or nil;
              \E out \in {{}, {"argsout"}} :            \* ret has a Ruby value, or none
                Return(t, how, rest \ out)
           \/ Return(t, "raised", rest)                \* argout is no hash, or merge! fails
  /\ UNCHANGED <<gvl, op>>

-----------------------------------------------------------------------------
RubyStep(t) == Yield(t) \/ Finish(t) \/ Interrupted(t)

Next ==
  \E t \in Thread :
    \/ Acquire(t) \/ Reacquire(t) \/ RubyStep(t) \/ Reply(t)
    \/ \E o \in Calls : Refuse(t, o) \/ Enter(t, o) \/ InterruptedEarly(t, o)
    \/ \E u \in Thread : Disturb(t, u) \/ Interrupt(t, u)

\* Ruby serves the threads that wait for the lock in turn and takes it from a
\* thread whose time slice is over.  Nothing makes the CIMOM answer.
Fairness ==
  \A t \in Thread : /\ SF_vars(Acquire(t)) /\ SF_vars(Reacquire(t))
                    /\ WF_vars(RubyStep(t))

Spec == Init /\ [][Next]_vars /\ Fairness

-----------------------------------------------------------------------------
(***************************************************************************)
(* Properties.                                                             *)
(***************************************************************************)

\* Ruby's API is used by the holder of the lock only: neither Ruby code nor
\* the part of a call before and after the native one runs in two threads.
LockHeld ==
  \A t \in Thread :
    gvl = t <=> \/ pc[t] \in {"ruby", "finish"}
                \/ pc[t] = "native" /\ ~MightBlock

\* The struct a threaded call hands to the other side has every field the
\* threaded function reads: none is left as the stack had it.
ArgsComplete ==
  MightBlock => \A t \in Thread : pc[t] = "native" => Needs(op[t]) \subseteq Fills(op[t])

\* Which native memory a call can leave behind, whatever the others did
\* meanwhile.  The property list and the first input arguments: only a call that
\* raised or was interrupted.  The second input arguments and the strings of
\* both: every method call.  The output arguments: no call that ended with an
\* error.  The answer: one that is data, which is cloned, and that of an
\* interrupted call.  The message: an interrupted call alone.  The path: a call
\* that got no reply to wrap.
EndsBounded ==
  \A t \in Thread :
    LET exception == outcome[t] \in {"raised", "interrupted"} IN
    /\ lost[t] \cap {"props", "argsin"} # {} => exception
    /\ lost[t] \cap {"argsin2", "strings"} # {} => op[t] = "invoke_method"
    /\ "argsin2" \in lost[t] => MightBlock
    /\ "argsout" \in lost[t] => op[t] = "invoke_method" /\ outcome[t] # "error"
    /\ "value" \in lost[t] => op[t] = "set_property"
    /\ "reply" \in lost[t] =>
         \/ outcome[t] = "interrupted"
         \/ op[t] \in ReturnsData /\ outcome[t] # "error"
    /\ "message" \in lost[t] => outcome[t] = "interrupted"
    /\ "ops" \in lost[t] =>
         \/ op[t] \in NamesPath /\ outcome[t] = "error"
         \/ op[t] \in NamesPath \cap ReturnsEnumeration /\ outcome[t] = "value"

\* A thread that waits for the lock gets it, also while calls of other threads
\* wait for a CIMOM that never answers.
EveryThreadRuns ==
  \A t \in Thread : pc[t] \in {"ready", "back"} ~> gvl = t

\* Built without threads, one call at a time is inside the native library.
OneNativeCall ==
  \A t, u \in Thread : pc[t] = "native" /\ pc[u] = "native" => t = u

\* The strings a native call reads are the ones it was given, and so is the
\* method name in the message about a failed method call.
ArgsIntact ==
  \A t \in Thread :
    \/ pc[t] = "native"
    \/ pc[t] = "finish" /\ op[t] = "invoke_method" /\ reply[t] = "error"
    => intact[t]

-----------------------------------------------------------------------------
(***************************************************************************)
(* The calls of module RemoteCall.                                         *)
(***************************************************************************)

Stage(t) == IF pc[t] = "native" THEN "asked"
            ELSE IF pc[t] \in {"back", "finish"} THEN "answered" ELSE "idle"

Answer(t) == IF reply[t] \in {"ok", "null"} THEN "value" ELSE reply[t]

Heard(t) == IF outcome[t] = "none" THEN "nothing"
            ELSE IF outcome[t] \in {"raised", "interrupted"} THEN "exception" ELSE outcome[t]

Remote == INSTANCE RemoteCall WITH stage  <- [t \in Thread |-> Stage(t)],
                                   answer <- [t \in Thread |-> Answer(t)],
                                   heard  <- [t \in Thread |-> Heard(t)]

\* Whatever threads do to each other, a call is a request, its answer and what
\* the program is told of it: an operation that succeeded at the CIMOM is never
\* reported as the CIMOM's error, one that failed never as a value, and nothing
\* is reported before the answer to this request came.
ImplementsRemoteCall == Remote!Safe

\* An answer that came is told, also when others interrupt the thread and the
\* CIMOM of another one never answers.
AnswersAreTold == Remote!Live
=============================================================================

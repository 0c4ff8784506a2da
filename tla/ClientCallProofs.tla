-------------------------- MODULE ClientCallProofs --------------------------
(***************************************************************************)
(* Proofs about module ClientCall: the lock is held by exactly the thread  *)
(* that uses Ruby's API, a build without threads makes one native call at  *)
(* a time, calls leave native memory behind only where the code does so    *)
(* when it raises, is interrupted or clones, the argument struct is        *)
(* complete, and the calls are those of module RemoteCall.                 *)
(***************************************************************************)
EXTENDS ClientCall, TLAPS

\* What a step of thread t leaves alone in every other one.
OthersKept(t) ==
  \A u \in Thread \ {t} :
    /\ pc'[u] = pc[u] /\ op'[u] = op[u]
    /\ outcome'[u] = outcome[u] /\ lost'[u] = lost[u]

\* A thread inside the library has called an operation.
OpKnown == \A t \in Thread : pc[t] = "native" => op[t] \in Operation

\* A reply is there from its arrival to the end of the call.
ReplyKept == \A t \in Thread : pc[t] \in {"back", "finish"} <=> reply[t] # "none"

\* The memory h that operation o may have allocated for its arguments.
ForArguments(o, h) ==
  /\ h \cap {"argsin2", "strings", "argsout"} # {} => o = "invoke_method"
  /\ "argsin2" \in h => MightBlock
  /\ "value" \in h => o = "set_property"
  /\ h \cap {"reply", "message", "ops"} = {}

\* A call holds memory for its arguments, and an answer or a message while
\* there is one.  The library frees the output arguments of a call that fails.
HeldRight ==
  \A t \in Thread :
    /\ ForArguments(op[t], held[t] \ {"reply", "message"})
    /\ reply[t] = "error" => "argsout" \notin held[t]
    /\ reply[t] = "null" => op[t] \in ReturnsEnumeration
    /\ "reply" \in held[t] => reply[t] = "ok" /\ op[t] \in ReturnsHandle \cup ReturnsData
    /\ "message" \in held[t] => reply[t] = "error"

\* The memory a call of operation o with that outcome may leave behind.
MayLeave(o, how, left) ==
  /\ ForArguments(o, left \ {"reply", "message", "ops"})
  /\ left \cap {"props", "argsin"} # {} => how \in {"raised", "interrupted"}
  /\ "argsout" \in left => how # "error"
  /\ "reply" \in left =>
       \/ how = "interrupted"
       \/ o \in ReturnsData /\ how # "error"
  /\ "message" \in left => how = "interrupted"
  /\ "ops" \in left => \/ o \in NamesPath /\ how = "error"
                       \/ o \in NamesPath \cap ReturnsEnumeration /\ how = "value"

IInv == TypeOK /\ LockHeld /\ EndsBounded /\ OpKnown /\ ReplyKept /\ HeldRight

-----------------------------------------------------------------------------
(***************************************************************************)
(* Lemmas about the tables of operations.                                  *)
(***************************************************************************)

\* The memory of a method call's arguments.
LEMMA ArgumentsType ==
  /\ Given(AllArgs) \subseteq SUBSET Buffer
  /\ Given({"argsin"}) \subseteq SUBSET Buffer
  /\ Given({"argsin", "argsout"}) \subseteq SUBSET Buffer
<1>1. /\ AllArgs \subseteq Buffer
      /\ {"argsin"} \subseteq Buffer /\ {"argsin", "argsout"} \subseteq Buffer
      /\ {"strings"} \subseteq Buffer
  BY DEF AllArgs, Buffer
<1>2. ASSUME NEW b, b \subseteq Buffer PROVE Given(b) \subseteq SUBSET Buffer
  BY <1>1, <1>2 DEF Given
<1> QED
  BY <1>1, <1>2

\* Methods and properties take no property list.
LEMMA ListTakers == TakesProps \cap {"invoke_method", "set_property"} = {}
BY DEF TakesProps, TakesFlags

\* What a call may hold, at any time, is a set of the buffers that exist.
LEMMA HeldType ==
  ASSUME NEW o \in Operation
  PROVE  /\ Held(o) \subseteq SUBSET Buffer
         /\ HeldAtRaise(o) \subseteq SUBSET Buffer
<1>1. {"props"} \subseteq Buffer /\ {"value"} \subseteq Buffer
  BY DEF Buffer
<1>2. CASE o \in TakesProps
  <2>1. Held(o) = {{}, {"props"}} /\ HeldAtRaise(o) = {{}, {"props"}}
    BY <1>2, ListTakers DEF Held, HeldAtRaise
  <2> QED
    BY <1>1, <2>1
<1>3. CASE o \notin TakesProps /\ o = "invoke_method"
  <2>1. Held(o) = Given(AllArgs)
    BY <1>3 DEF Held
  <2>2. HeldAtRaise(o) = {{}} \cup Given({"argsin"})
                         \cup Given({"argsin", "argsout"}) \cup Given(AllArgs)
    BY <1>3 DEF HeldAtRaise
  <2> QED
    BY <2>1, <2>2, ArgumentsType
<1>4. CASE o \notin TakesProps /\ o # "invoke_method"
  BY <1>1, <1>4 DEF Held, HeldAtRaise
<1> QED
  BY <1>2, <1>3, <1>4

\* Before the request goes out a call holds its arguments alone.
LEMMA HeldForArguments ==
  ASSUME NEW o, NEW h \in Held(o) \cup HeldAtRaise(o)
  PROVE  ForArguments(o, h)
<1>1. CASE o \in TakesProps
  <2>1. Held(o) = {{}, {"props"}} /\ HeldAtRaise(o) = {{}, {"props"}}
    BY <1>1, ListTakers DEF Held, HeldAtRaise
  <2> QED
    BY <2>1 DEF ForArguments
<1>2. CASE o \notin TakesProps /\ o = "invoke_method"
  <2>1. h \subseteq AllArgs \cup {"strings"}
    BY <1>2 DEF Held, HeldAtRaise, Given, AllArgs
  <2>2. "argsin2" \in h => MightBlock
    BY <2>1 DEF AllArgs
  <2>3. h \cap {"value", "reply", "message", "ops"} = {}
    BY <2>1 DEF AllArgs
  <2> QED
    BY <1>2, <2>2, <2>3 DEF ForArguments
<1>3. CASE o \notin TakesProps /\ o # "invoke_method"
  BY <1>3 DEF Held, HeldAtRaise, ForArguments
<1> QED
  BY <1>1, <1>2, <1>3

\* A method call returns no handle; only operations that return one can get a
\* NULL enumeration.
LEMMA InvokeReturnsNoHandle ==
  /\ "invoke_method" \notin ReturnsHandle /\ "property" \notin ReturnsHandle
  /\ ReturnsData = {"invoke_method", "property"}
BY DEF ReturnsHandle, ReturnsEnumeration, ReturnsData

\* The program calls operations that exist.
LEMMA CallsExist == ASSUME NEW o \in Calls PROVE o \in Operation
BY CallsAssumption

-----------------------------------------------------------------------------
(***************************************************************************)
(* The type invariant.                                                     *)
(***************************************************************************)

\* The initial state has the types declared.
LEMMA InitType == Init => TypeOK
BY DEF Init, TypeOK

\* A return from a call, the other variables left aside, keeps the types.
LEMMA ReturnType ==
  ASSUME TypeOK, NEW t \in Thread, NEW left \in SUBSET Buffer,
         NEW how \in {"none", "value", "error", "raised", "interrupted"},
         Return(t, how, left), gvl' = gvl, op' \in [Thread -> Operation \cup {"none"}]
  PROVE  TypeOK'
BY DEF TypeOK, Return

\* The ways a call ends whose answer came, and what it leaves.
LEMMA FinishReturns ==
  ASSUME TypeOK, NEW t \in Thread, Finish(t)
  PROVE  \E how \in {"value", "error", "raised"}, l \in SUBSET Buffer :
           /\ Return(t, how, l)
           /\ l \subseteq (held[t] \ FreedFirst) \cup Path(t)
           /\ how = "error" <=> reply[t] = "error"
           /\ how = "error" => "message" \notin l
           /\ how = "raised" => Path(t) = {}
           /\ op[t] \in ReturnsHandle => "reply" \notin l \/ reply[t] # "ok"
<1> DEFINE rest == held[t] \ FreedFirst
<1>1. rest \in SUBSET Buffer /\ Path(t) \in SUBSET Buffer
  BY DEF TypeOK, Path, Buffer
<1>2. CASE reply[t] = "error" /\ Return(t, "error", (rest \ {"message"}) \cup Path(t))
  <2>1. "message" \notin Path(t)
    BY DEF Path
  <2> QED
    BY <1>1, <1>2, <2>1
<1>3. CASE reply[t] = "null" /\ Return(t, "value", rest \cup Path(t))
  BY <1>1, <1>3
<1>4. CASE reply[t] = "ok" /\ op[t] \notin ReturnsData /\ Return(t, "value", rest \ {"reply"})
  BY <1>1, <1>4
<1>5. ASSUME reply[t] = "ok", op[t] \in ReturnsData,
             NEW how \in {"value", "raised"}, NEW out \in {{}, {"argsout"}},
             Return(t, how, rest \ out)
      PROVE  \E h \in {"value", "error", "raised"}, l \in SUBSET Buffer :
               /\ Return(t, h, l)
               /\ l \subseteq rest \cup Path(t)
               /\ h = "error" <=> reply[t] = "error"
               /\ h = "error" => "message" \notin l
               /\ h = "raised" => Path(t) = {}
               /\ op[t] \in ReturnsHandle => "reply" \notin l \/ reply[t] # "ok"
  <2>1. op[t] \notin ReturnsHandle /\ Path(t) = {}
    BY <1>5, InvokeReturnsNoHandle DEF Path
  <2>2. rest \ out \in SUBSET Buffer /\ rest \ out \subseteq rest \cup Path(t)
    BY <1>1
  <2> QED
    BY <1>5, <2>1, <2>2
<1>6. CASE reply[t] = "ok" /\ op[t] = "property"
           /\ \E how \in {"value", "raised"} : Return(t, how, rest)
  <2>1. rest = rest \ {}
    OBVIOUS
  <2> QED
    BY <1>5, <1>6, <2>1, InvokeReturnsNoHandle
<1>7. CASE reply[t] = "ok" /\ op[t] = "invoke_method"
           /\ \/ \E how \in {"value", "raised"} :
                   \E out \in {{}, {"argsout"}} : Return(t, how, rest \ out)
              \/ Return(t, "raised", rest)
  <2>1. rest = rest \ {}
    OBVIOUS
  <2> QED
    BY <1>5, <1>7, <2>1, InvokeReturnsNoHandle
<1> QED
  BY <1>2, <1>3, <1>4, <1>6, <1>7 DEF Finish

\* Every step keeps the types.
LEMMA StepType == TypeOK /\ [Next]_vars => TypeOK'
<1> SUFFICES ASSUME TypeOK, [Next]_vars PROVE TypeOK'
  OBVIOUS
<1>1. CASE UNCHANGED vars
  BY <1>1 DEF TypeOK, vars
<1>2. ASSUME NEW t \in Thread, Acquire(t) PROVE TypeOK'
  BY <1>2 DEF TypeOK, Acquire, callVars
<1>3. ASSUME NEW t \in Thread, Reacquire(t) PROVE TypeOK'
  BY <1>3 DEF TypeOK, Reacquire, callVars
<1>4. ASSUME NEW t \in Thread, Yield(t) PROVE TypeOK'
  BY <1>4 DEF TypeOK, Yield, callVars
<1>5. ASSUME NEW t \in Thread, Finish(t) PROVE TypeOK'
  <2>1. PICK how \in {"value", "error", "raised"}, l \in SUBSET Buffer : Return(t, how, l)
    BY <1>5, FinishReturns
  <2>2. gvl' = gvl /\ op' \in [Thread -> Operation \cup {"none"}]
    BY <1>5 DEF Finish, TypeOK
  <2> QED
    BY <2>1, <2>2, ReturnType
<1>6. ASSUME NEW t \in Thread, Interrupted(t) PROVE TypeOK'
  <2>1. held[t] \in SUBSET Buffer /\ op' \in [Thread -> Operation \cup {"none"}]
    BY <1>6 DEF TypeOK, Interrupted
  <2> QED
    BY <1>6, <2>1, ReturnType DEF Interrupted
<1>7. ASSUME NEW t \in Thread, Reply(t) PROVE TypeOK'
  <2>1. /\ gvl' = gvl /\ op' = op /\ arg' = arg /\ intact' = intact
        /\ pending' = pending /\ outcome' = outcome /\ lost' = lost
    BY <1>7 DEF Reply
  <2>2. pc' \in [Thread -> {"ready", "ruby", "native", "back", "finish"}]
    BY <1>7 DEF Reply, TypeOK
  <2>3. reply' \in [Thread -> {"none", "ok", "null", "error"}]
    BY <1>7 DEF Reply, TypeOK
  <2>4. held' \in [Thread -> SUBSET Buffer]
    <3>1. {"reply"} \subseteq Buffer /\ {"message"} \subseteq Buffer
          /\ held[t] \in SUBSET Buffer
      BY DEF Buffer, TypeOK
    <3>2. \/ held' = held
          \/ \E r \in {{"reply"}, {}} : held' = [held EXCEPT ![t] = @ \cup r]
          \/ \E m \in {{}, {"message"}} :
               held' = [held EXCEPT ![t] = (@ \ {"argsout"}) \cup m]
      BY <1>7 DEF Reply
    <3> QED
      BY <3>1, <3>2 DEF TypeOK
  <2> QED
    BY <2>1, <2>2, <2>3, <2>4 DEF TypeOK
<1>8. ASSUME NEW t \in Thread, NEW o \in Calls, Refuse(t, o) PROVE TypeOK'
  <2>1. gvl' = gvl /\ op' \in [Thread -> Operation \cup {"none"}]
    BY <1>8, CallsExist DEF TypeOK, Refuse
  <2>2. PICK left \in HeldAtRaise(o) : Return(t, "raised", left)
    BY <1>8 DEF Refuse
  <2> QED
    BY <2>1, <2>2, HeldType, CallsExist, ReturnType
<1>9. ASSUME NEW t \in Thread, NEW o \in Calls, InterruptedEarly(t, o) PROVE TypeOK'
  <2>1. gvl' = gvl /\ op' \in [Thread -> Operation \cup {"none"}]
    BY <1>9, CallsExist DEF TypeOK, InterruptedEarly
  <2>2. PICK left \in Held(o) : Return(t, "interrupted", left)
    BY <1>9 DEF InterruptedEarly
  <2> QED
    BY <2>1, <2>2, HeldType, CallsExist, ReturnType
<1>10. ASSUME NEW t \in Thread, NEW o \in Calls, Enter(t, o) PROVE TypeOK'
  <2>1. gvl' \in Thread \cup {None} /\ reply' = reply /\ pending' = pending
    BY <1>10 DEF TypeOK, Enter
  <2>2. /\ op' \in [Thread -> Operation \cup {"none"}]
        /\ pc' \in [Thread -> {"ready", "ruby", "native", "back", "finish"}]
    BY <1>10, CallsExist DEF TypeOK, Enter
  <2>3. held' \in [Thread -> SUBSET Buffer]
    <3>1. PICK h \in Held(o) : held' = [held EXCEPT ![t] = h]
      BY <1>10 DEF Enter
    <3> QED
      BY <3>1, HeldType, CallsExist DEF TypeOK
  <2>4. /\ arg' \in [Thread -> ArgKind \cup {"constant"}]
        /\ intact' \in [Thread -> BOOLEAN]
    <3>1. PICK a \in ArgKind \cup {"constant"}, i \in BOOLEAN :
            arg' = [arg EXCEPT ![t] = a] /\ intact' = [intact EXCEPT ![t] = i]
      BY <1>10 DEF Enter, Strings
    <3> QED
      BY <3>1 DEF TypeOK
  <2>5. /\ outcome' \in [Thread -> {"none", "value", "error", "raised", "interrupted"}]
        /\ lost' \in [Thread -> SUBSET Buffer]
    BY <1>10 DEF TypeOK, Enter
  <2> QED
    BY <2>1, <2>2, <2>3, <2>4, <2>5 DEF TypeOK
<1>11. ASSUME NEW t \in Thread, NEW u \in Thread, Disturb(t, u) PROVE TypeOK'
  BY <1>11 DEF TypeOK, Disturb
<1>12. ASSUME NEW t \in Thread, NEW u \in Thread, Interrupt(t, u) PROVE TypeOK'
  BY <1>12 DEF TypeOK, Interrupt
<1> QED
  BY <1>1, <1>2, <1>3, <1>4, <1>5, <1>6, <1>7, <1>8, <1>9, <1>10, <1>11, <1>12
     DEF Next, RubyStep

-----------------------------------------------------------------------------
(***************************************************************************)
(* The lock.                                                               *)
(***************************************************************************)

\* Nobody holds the lock when the program starts.
LEMMA InitLock == Init => LockHeld
BY NoneAssumption DEF Init, LockHeld

\* A step that hands the lock to t, or leaves it with t, and moves t alone.
LEMMA StepLock == TypeOK /\ LockHeld /\ [Next]_vars => LockHeld'
<1> SUFFICES ASSUME TypeOK, LockHeld, [Next]_vars PROVE LockHeld'
  OBVIOUS
<1> USE NoneAssumption, MightBlockAssumption
<1>1. CASE UNCHANGED vars
  BY <1>1 DEF LockHeld, vars
<1>2. ASSUME NEW t \in Thread, Acquire(t) PROVE LockHeld'
  BY <1>2 DEF TypeOK, LockHeld, Acquire
<1>3. ASSUME NEW t \in Thread, Reacquire(t) PROVE LockHeld'
  BY <1>3 DEF TypeOK, LockHeld, Reacquire
<1>4. ASSUME NEW t \in Thread, Yield(t) PROVE LockHeld'
  BY <1>4 DEF TypeOK, LockHeld, Yield
<1>5. ASSUME NEW t \in Thread, gvl' = gvl, pc' = [pc EXCEPT ![t] = "ruby"],
             pc[t] \in {"ruby", "finish"}
      PROVE  LockHeld'
  BY <1>5 DEF TypeOK, LockHeld
<1>6. ASSUME NEW t \in Thread, Finish(t) \/ Interrupted(t) PROVE LockHeld'
  BY <1>5, <1>6 DEF Finish, Interrupted, Return
<1>7. ASSUME NEW t \in Thread, Reply(t) PROVE LockHeld'
  <2>1. /\ pc[t] = "native" /\ gvl' = gvl
        /\ pc' = [pc EXCEPT ![t] = IF MightBlock THEN "back" ELSE "finish"]
    BY <1>7 DEF Reply
  <2> QED
    BY <2>1 DEF TypeOK, LockHeld
<1>8. ASSUME NEW t \in Thread, NEW o \in Calls, Refuse(t, o) \/ InterruptedEarly(t, o)
      PROVE  LockHeld'
  BY <1>5, <1>8 DEF Refuse, InterruptedEarly, Return
<1>9. ASSUME NEW t \in Thread, NEW o \in Calls, Enter(t, o) PROVE LockHeld'
  <2>1. /\ pc[t] = "ruby" /\ pc' = [pc EXCEPT ![t] = "native"]
        /\ gvl' = IF MightBlock THEN None ELSE t
    BY <1>9 DEF Enter
  <2> QED
    BY <2>1 DEF TypeOK, LockHeld
<1>10. ASSUME NEW t \in Thread, NEW u \in Thread, Disturb(t, u) \/ Interrupt(t, u)
       PROVE  LockHeld'
  BY <1>10 DEF LockHeld, Disturb, Interrupt
<1> QED
  BY <1>1, <1>2, <1>3, <1>4, <1>6, <1>7, <1>8, <1>9, <1>10 DEF Next, RubyStep

-----------------------------------------------------------------------------
(***************************************************************************)
(* The memory of a call.                                                   *)
(***************************************************************************)

\* No call has ended when the program starts.
LEMMA InitBounded == Init => EndsBounded /\ HeldRight
BY DEF Init, EndsBounded, HeldRight, ForArguments

\* The end of a call of t, with its operation, its outcome and what it left.
LEMMA EndOfCall ==
  ASSUME EndsBounded, NEW t \in Thread, OthersKept(t),
         MayLeave(op'[t], outcome'[t], lost'[t])
  PROVE  EndsBounded'
<1> SUFFICES ASSUME NEW u \in Thread
             PROVE  MayLeave(op'[u], outcome'[u], lost'[u])
  BY DEF EndsBounded, MayLeave, ForArguments
<1>1. CASE u = t
  BY <1>1
<1>2. CASE u # t
  <2>1. MayLeave(op[u], outcome[u], lost[u])
    BY DEF EndsBounded, MayLeave, ForArguments
  <2> QED
    BY <1>2, <2>1 DEF OthersKept
<1> QED
  BY <1>1, <1>2

\* A call of t that raises or is interrupted before its request goes out leaves
\* its arguments at most.
LEMMA RefusedEnd ==
  ASSUME TypeOK, EndsBounded, NEW t \in Thread, NEW o \in Calls,
         Refuse(t, o) \/ InterruptedEarly(t, o)
  PROVE  EndsBounded'
<1>1. PICK left \in Held(o) \cup HeldAtRaise(o) :
        \E how \in {"raised", "interrupted"} : Return(t, how, left)
  BY DEF Refuse, InterruptedEarly
<1>2. op' = [op EXCEPT ![t] = o]
  BY DEF Refuse, InterruptedEarly
<1>3. /\ OthersKept(t) /\ op'[t] = o /\ lost'[t] = left
      /\ outcome'[t] \in {"raised", "interrupted"}
  BY <1>1, <1>2 DEF Return, TypeOK, OthersKept
<1>4. ForArguments(o, left)
  BY HeldForArguments
<1>5. MayLeave(o, outcome'[t], left)
  BY <1>3, <1>4 DEF MayLeave, ForArguments
<1> QED
  BY <1>3, <1>5, EndOfCall

\* A call of t that is interrupted with its answer.
LEMMA InterruptedEnd ==
  ASSUME TypeOK, EndsBounded, HeldRight, NEW t \in Thread, Interrupted(t)
  PROVE  EndsBounded'
<1>1. /\ OthersKept(t) /\ op'[t] = op[t] /\ lost'[t] = held[t]
      /\ outcome'[t] = "interrupted"
  BY DEF Interrupted, Return, TypeOK, OthersKept
<1>2. MayLeave(op[t], "interrupted", held[t])
  BY DEF HeldRight, ForArguments, MayLeave
<1> QED
  BY <1>1, <1>2, EndOfCall

\* A call of t that ends with a value, an error or a refused result.
LEMMA FinishEnd ==
  ASSUME TypeOK, EndsBounded, HeldRight, NEW t \in Thread, Finish(t)
  PROVE  EndsBounded'
<1>1. PICK how \in {"value", "error", "raised"}, l \in SUBSET Buffer :
        /\ Return(t, how, l)
        /\ l \subseteq (held[t] \ FreedFirst) \cup Path(t)
        /\ how = "error" <=> reply[t] = "error"
        /\ how = "error" => "message" \notin l
        /\ how = "raised" => Path(t) = {}
        /\ op[t] \in ReturnsHandle => "reply" \notin l \/ reply[t] # "ok"
  BY FinishReturns
<1>2. OthersKept(t) /\ op'[t] = op[t] /\ lost'[t] = l /\ outcome'[t] = how
  BY <1>1 DEF Finish, Return, TypeOK, OthersKept
<1>3. Path(t) \subseteq {"ops"} /\ "ops" \notin held[t]
  BY DEF Path, HeldRight, ForArguments
<1>4. ForArguments(op[t], l \ {"reply", "message", "ops"})
  <2>1. l \ {"reply", "message", "ops"} \subseteq held[t] \ {"reply", "message"}
    BY <1>1, <1>3
  <2> QED
    BY <2>1 DEF HeldRight, ForArguments
<1>5. l \cap {"props", "argsin"} = {}
  BY <1>1, <1>3 DEF FreedFirst
<1>6. "argsout" \in l => how # "error"
  BY <1>1, <1>3 DEF HeldRight
<1>7. "reply" \in l => op[t] \in ReturnsData /\ how # "error"
  BY <1>1, <1>3 DEF HeldRight
<1>8. "message" \notin l
  BY <1>1, <1>3 DEF HeldRight
<1>9. "ops" \in l => \/ op[t] \in NamesPath /\ how = "error"
                     \/ op[t] \in NamesPath \cap ReturnsEnumeration /\ how = "value"
  <2>1. "ops" \in l => op[t] \in NamesPath /\ reply[t] # "ok"
    BY <1>1, <1>3 DEF Path
  <2>2. reply[t] \in {"none", "ok", "null", "error"}
    BY DEF TypeOK
  <2>3. reply[t] # "none"
    BY DEF Finish
  <2>4. "ops" \in l => how # "raised"
    BY <1>1, <1>3
  <2> QED
    BY <1>1, <2>1, <2>2, <2>3, <2>4 DEF HeldRight
<1>10. MayLeave(op[t], how, l)
  BY <1>4, <1>5, <1>6, <1>7, <1>8, <1>9 DEF MayLeave
<1> QED
  BY <1>2, <1>10, EndOfCall

\* Every step keeps EndsBounded.
LEMMA StepBounded == TypeOK /\ EndsBounded /\ HeldRight /\ [Next]_vars => EndsBounded'
<1> SUFFICES ASSUME TypeOK, EndsBounded, HeldRight, [Next]_vars PROVE EndsBounded'
  OBVIOUS
<1>1. ASSUME UNCHANGED <<op, outcome, lost>> PROVE EndsBounded'
  BY <1>1 DEF EndsBounded
<1>2. ASSUME NEW t \in Thread,
             Acquire(t) \/ Reacquire(t) \/ Yield(t) \/ Reply(t)
      PROVE  EndsBounded'
  BY <1>1, <1>2 DEF Acquire, Reacquire, Yield, Reply, callVars
<1>3. ASSUME NEW t \in Thread, NEW u \in Thread, Disturb(t, u) \/ Interrupt(t, u)
      PROVE  EndsBounded'
  BY <1>1, <1>3 DEF Disturb, Interrupt
<1>4. ASSUME NEW t \in Thread, NEW o \in Calls, Enter(t, o) PROVE EndsBounded'
  <2>1. OthersKept(t) /\ lost'[t] = {}
    BY <1>4 DEF Enter, TypeOK, OthersKept
  <2>2. MayLeave(op'[t], outcome'[t], {})
    BY DEF MayLeave, ForArguments
  <2> QED
    BY <2>1, <2>2, EndOfCall
<1>5. CASE UNCHANGED vars
  BY <1>1, <1>5 DEF vars
<1> QED
  BY <1>2, <1>3, <1>4, <1>5, RefusedEnd, InterruptedEnd, FinishEnd DEF Next, RubyStep

\* Every step keeps HeldRight: buffers come with the request and its answer,
\* and go with the end of the call.
LEMMA StepHeld == TypeOK /\ HeldRight /\ ReplyKept /\ [Next]_vars => HeldRight'
<1> SUFFICES ASSUME TypeOK, HeldRight, ReplyKept, [Next]_vars PROVE HeldRight'
  OBVIOUS
<1>1. ASSUME UNCHANGED <<op, held, reply>> PROVE HeldRight'
  BY <1>1 DEF HeldRight
<1>2. ASSUME NEW t \in Thread, Acquire(t) \/ Reacquire(t) \/ Yield(t)
      PROVE  HeldRight'
  BY <1>1, <1>2 DEF Acquire, Reacquire, Yield, callVars
<1>3. ASSUME NEW t \in Thread, NEW u \in Thread, Disturb(t, u) \/ Interrupt(t, u)
      PROVE  HeldRight'
  BY <1>1, <1>3 DEF Disturb, Interrupt
<1>4. ASSUME NEW t \in Thread, held'[t] = {}, reply'[t] = "none",
             \A u \in Thread \ {t} : held'[u] = held[u] /\ op'[u] = op[u] /\ reply'[u] = reply[u]
      PROVE  HeldRight'
  BY <1>4 DEF HeldRight, ForArguments
<1>5. ASSUME NEW t \in Thread, Interrupted(t) \/ Finish(t)
      PROVE  HeldRight'
  <2>1. op' = op /\ \E how, l : Return(t, how, l)
    BY <1>5 DEF Interrupted, Finish
  <2> QED
    BY <1>4, <2>1 DEF Return, TypeOK
<1>6. ASSUME NEW t \in Thread, NEW o \in Calls, Refuse(t, o) \/ InterruptedEarly(t, o)
      PROVE  HeldRight'
  <2>1. op' = [op EXCEPT ![t] = o] /\ \E how, l : Return(t, how, l)
    BY <1>6 DEF Refuse, InterruptedEarly
  <2> QED
    BY <1>4, <2>1 DEF Return, TypeOK
<1>7. ASSUME NEW t \in Thread, NEW o \in Calls, Enter(t, o) PROVE HeldRight'
  <2>1. /\ pc[t] = "ruby" /\ reply' = reply /\ op' = [op EXCEPT ![t] = o]
        /\ \E h \in Held(o) : held' = [held EXCEPT ![t] = h]
    BY <1>7 DEF Enter
  <2>2. ForArguments(o, held'[t]) /\ reply'[t] = "none" /\ op'[t] = o
    BY <2>1, HeldForArguments DEF TypeOK, ReplyKept
  <2>3. ForArguments(o, held'[t] \ {"reply", "message"}) /\ "reply" \notin held'[t]
        /\ "message" \notin held'[t]
    BY <2>2 DEF ForArguments
  <2>4. \A u \in Thread \ {t} : held'[u] = held[u] /\ op'[u] = op[u] /\ reply'[u] = reply[u]
    BY <2>1 DEF TypeOK
  <2> QED
    BY <2>2, <2>3, <2>4 DEF HeldRight
<1>8. ASSUME NEW t \in Thread, Reply(t) PROVE HeldRight'
  <2>1. /\ pc[t] = "native" /\ op' = op
        /\ \A u \in Thread \ {t} : held'[u] = held[u] /\ reply'[u] = reply[u]
    BY <1>8 DEF Reply, TypeOK
  <2>2. "reply" \notin held[t] /\ "message" \notin held[t]
    BY <2>1 DEF HeldRight, ReplyKept
  <2>3. ForArguments(op[t], held[t])
    BY <2>2 DEF HeldRight, ForArguments
  <2>4. SUFFICES /\ ForArguments(op[t], held'[t] \ {"reply", "message"})
                 /\ reply'[t] = "error" => "argsout" \notin held'[t]
                 /\ reply'[t] = "null" => op[t] \in ReturnsEnumeration
                 /\ "reply" \in held'[t] =>
                      reply'[t] = "ok" /\ op[t] \in ReturnsHandle \cup ReturnsData
                 /\ "message" \in held'[t] => reply'[t] = "error"
    BY <2>1, <2>4 DEF HeldRight
  <2>5. CASE /\ reply' = [reply EXCEPT ![t] = "ok"]
             /\ \E r \in (IF op[t] \in ReturnsHandle THEN {{"reply"}}
                          ELSE IF op[t] \in ReturnsData THEN {{}, {"reply"}}
                          ELSE {{}}) :
                  held' = [held EXCEPT ![t] = @ \cup r]
    <3>1. PICK r \in {{}, {"reply"}} :
            held'[t] = held[t] \cup r /\ (r # {} => op[t] \in ReturnsHandle \cup ReturnsData)
      BY <2>5 DEF TypeOK
    <3>2. reply'[t] = "ok"
      BY <2>5 DEF TypeOK
    <3> QED
      BY <2>2, <2>3, <3>1, <3>2 DEF ForArguments
  <2>6. CASE /\ op[t] \in ReturnsEnumeration
             /\ reply' = [reply EXCEPT ![t] = "null"] /\ held' = held
    <3>1. reply'[t] = "null" /\ held'[t] = held[t]
      BY <2>6 DEF TypeOK
    <3> QED
      BY <2>2, <2>3, <2>6, <3>1 DEF ForArguments
  <2>7. CASE /\ reply' = [reply EXCEPT ![t] = "error"]
             /\ \E m \in {{}, {"message"}} :
                  held' = [held EXCEPT ![t] = (@ \ {"argsout"}) \cup m]
    <3>1. PICK m \in {{}, {"message"}} : held'[t] = (held[t] \ {"argsout"}) \cup m
      BY <2>7 DEF TypeOK
    <3>2. reply'[t] = "error"
      BY <2>7 DEF TypeOK
    <3> QED
      BY <2>2, <2>3, <3>1, <3>2 DEF ForArguments
  <2> QED
    BY <1>8, <2>5, <2>6, <2>7 DEF Reply
<1>9. CASE UNCHANGED vars
  BY <1>1, <1>9 DEF vars
<1> QED
  BY <1>2, <1>3, <1>5, <1>6, <1>7, <1>8, <1>9 DEF Next, RubyStep

-----------------------------------------------------------------------------
(***************************************************************************)
(* The argument struct and the reply.                                      *)
(***************************************************************************)

\* Each operation fills in what its threaded function reads.
LEMMA FillsWhatItNeeds == ASSUME NEW o \in Operation PROVE Needs(o) \subseteq Fills(o)
<1> USE DEF Needs, Fills, TakesFlags, TakesProps, Roles, ReturnsData
<1>1. CASE o \in {"get_class", "class_names", "classes", "get_instance"}
  BY <1>1
<1>2. CASE o \in {"create_instance", "set_instance", "delete_instance", "query"}
  BY <1>2
<1>3. CASE o \in {"instance_names", "instances", "associators", "associator_names"}
  BY <1>3
<1>4. CASE o \in {"references", "reference_names"}
  BY <1>4
<1>5. CASE o \in {"invoke_method", "set_property", "property"}
  BY <1>5
<1> QED
  BY <1>1, <1>2, <1>3, <1>4, <1>5 DEF Operation

\* Initially no thread is in a call.
LEMMA InitCall == Init => OpKnown /\ ReplyKept
BY DEF Init, OpKnown, ReplyKept

\* Calls are entered with an operation, and replies come and go with them.
LEMMA StepCall == TypeOK /\ OpKnown /\ ReplyKept /\ [Next]_vars => OpKnown' /\ ReplyKept'
<1> SUFFICES ASSUME TypeOK, OpKnown, ReplyKept, [Next]_vars PROVE OpKnown' /\ ReplyKept'
  OBVIOUS
<1> USE DEF OpKnown, ReplyKept
<1>1. CASE UNCHANGED vars
  BY <1>1 DEF vars
<1>2. ASSUME NEW t \in Thread, Acquire(t) \/ Yield(t) \/ Reacquire(t)
      PROVE  OpKnown' /\ ReplyKept'
  BY <1>2 DEF TypeOK, Acquire, Yield, Reacquire, callVars
<1>3. ASSUME NEW t \in Thread, Finish(t) \/ Interrupted(t)
      PROVE  OpKnown' /\ ReplyKept'
  BY <1>3 DEF TypeOK, Finish, Interrupted, Return
<1>4. ASSUME NEW t \in Thread, Reply(t) PROVE OpKnown' /\ ReplyKept'
  <2>1. /\ op' = op
        /\ \E r \in {"ok", "null", "error"} : reply' = [reply EXCEPT ![t] = r]
        /\ \E p \in {"back", "finish"} : pc' = [pc EXCEPT ![t] = p]
    BY <1>4 DEF Reply
  <2> QED
    BY <2>1 DEF TypeOK
<1>5. ASSUME NEW t \in Thread, NEW o \in Calls, Enter(t, o) PROVE OpKnown' /\ ReplyKept'
  BY <1>5, CallsExist DEF TypeOK, Enter
<1>6. ASSUME NEW t \in Thread, NEW o \in Calls, Refuse(t, o) \/ InterruptedEarly(t, o)
      PROVE  OpKnown' /\ ReplyKept'
  BY <1>6 DEF TypeOK, Refuse, InterruptedEarly, Return
<1>7. ASSUME NEW t \in Thread, NEW u \in Thread, Disturb(t, u) \/ Interrupt(t, u)
      PROVE  OpKnown' /\ ReplyKept'
  BY <1>7 DEF Disturb, Interrupt
<1> QED
  BY <1>1, <1>2, <1>3, <1>4, <1>5, <1>6, <1>7 DEF Next, RubyStep

-----------------------------------------------------------------------------
(***************************************************************************)
(* Strings.                                                                *)
(***************************************************************************)

\* A build that keeps the lock, in which the strings a call is given are held
\* by the program.
Sheltered == ~MightBlock /\ "temporary" \notin ArgKind

\* No call waits for the lock, and the strings of those under way are intact.
Untouched ==
  \A t \in Thread : pc[t] # "back" /\ (pc[t] \in {"native", "finish"} => intact[t])

LEMMA InitUntouched == Init => Untouched
BY DEF Init, Untouched

LEMMA StepUntouched ==
  ASSUME Sheltered, TypeOK, LockHeld, Untouched, [Next]_vars
  PROVE  Untouched'
<1> USE DEF Untouched
<1>1. CASE UNCHANGED vars
  BY <1>1 DEF vars
<1>2. ASSUME NEW t \in Thread, Acquire(t) \/ Yield(t) \/ Reacquire(t)
      PROVE  Untouched'
  BY <1>2 DEF TypeOK, Acquire, Yield, Reacquire, callVars
<1>3. ASSUME NEW t \in Thread, NEW how, NEW left, Return(t, how, left)
      PROVE  Untouched'
  BY <1>3 DEF TypeOK, Return
<1>4. ASSUME NEW t \in Thread, Reply(t) PROVE Untouched'
  BY <1>4 DEF TypeOK, Reply, Sheltered
<1>5. ASSUME NEW t \in Thread, NEW o \in Calls, Enter(t, o) PROVE Untouched'
  <2>1. PICK a \in ArgKind \cup {"constant"}, i \in BOOLEAN :
          (~i => a = "temporary") /\ intact' = [intact EXCEPT ![t] = i]
    BY <1>5 DEF Enter, Strings
  <2>2. a # "temporary"
    BY DEF Sheltered
  <2> QED
    BY <1>5, <2>1, <2>2 DEF TypeOK, Enter
<1>6. ASSUME NEW t \in Thread, NEW u \in Thread, Disturb(t, u) PROVE Untouched'
  \* Both would hold the lock.
  BY <1>6 DEF LockHeld, Disturb, Sheltered
<1>7. ASSUME NEW t \in Thread, NEW u \in Thread, Interrupt(t, u) PROVE Untouched'
  BY <1>7 DEF Interrupt
<1>8. ASSUME NEW t \in Thread, Finish(t) \/ Interrupted(t) PROVE Untouched'
  BY <1>3, <1>8 DEF Finish, Interrupted
<1>9. ASSUME NEW t \in Thread, NEW o \in Calls, Refuse(t, o) \/ InterruptedEarly(t, o)
      PROVE  Untouched'
  BY <1>3, <1>9 DEF Refuse, InterruptedEarly
<1> QED
  BY <1>1, <1>2, <1>4, <1>5, <1>6, <1>7, <1>8, <1>9 DEF Next, RubyStep

-----------------------------------------------------------------------------
(***************************************************************************)
(* The refinement of RemoteCall: every step of the calls is one of its     *)
(* steps, or changes nothing it speaks of.                                 *)
(***************************************************************************)

\* The mapped variables.
stages == [t \in Thread |-> Stage(t)]
answers == [t \in Thread |-> Answer(t)]
hears == [t \in Thread |-> Heard(t)]

\* A process without calls is one in the abstract, too.
LEMMA InitRemote == Init => Remote!Init
BY DEF Init, Remote!Init, Stage, Answer, Heard

\* What only moves the lock, a string or an interrupt is no step of RemoteCall.
LEMMA Unnoticed ==
  ASSUME TypeOK, reply' = reply, outcome' = outcome,
         \A t \in Thread : Stage(t)' = Stage(t)
  PROVE  UNCHANGED Remote!vars
BY DEF Remote!vars, Answer, Heard

\* The end of a call before the request went out, and of one whose answer came.
LEMMA EndRemote ==
  ASSUME TypeOK, ReplyKept, NEW t \in Thread, NEW left, NEW how, Return(t, how, left),
         how \in {"raised", "interrupted", "error", "value"},
         how = "error" => reply[t] = "error" /\ pc[t] = "finish",
         how = "value" => reply[t] # "error" /\ pc[t] = "finish",
         pc[t] \in {"ruby", "finish"}
  PROVE  Remote!Next
<1>1. /\ pc' = [pc EXCEPT ![t] = "ruby"] /\ reply' = [reply EXCEPT ![t] = "none"]
      /\ outcome' = [outcome EXCEPT ![t] = how]
  BY DEF Return
<1>2. /\ stages' = [stages EXCEPT ![t] = "idle"]
      /\ answers' = [answers EXCEPT ![t] = "none"]
  BY <1>1 DEF stages, answers, Stage, Answer, TypeOK
<1>3. hears' = [hears EXCEPT ![t] = IF how \in {"raised", "interrupted"} THEN "exception" ELSE how]
  BY <1>1 DEF hears, Heard, TypeOK
<1>4. CASE pc[t] = "ruby"
  <2>1. stages[t] = "idle" /\ answers[t] = "none" /\ reply[t] = "none"
    BY <1>4 DEF stages, answers, Stage, Answer, ReplyKept
  <2>2. stages' = stages /\ answers' = answers
    BY <1>2, <2>1 DEF stages, answers
  <2>3. hears' = [hears EXCEPT ![t] = "exception"]
    BY <1>3, <1>4
  <2>4. Remote!GiveUp(t)
    BY <2>1, <2>2, <2>3 DEF Remote!GiveUp, stages, answers, hears
  <2> QED
    BY <2>4 DEF Remote!Next
<1>5. CASE pc[t] = "finish"
  <2>1. stages[t] = "answered" /\ reply[t] \in {"ok", "null", "error"}
    BY <1>5 DEF stages, Stage, ReplyKept, TypeOK
  <2>2. how \in {"error", "value"} => answers[t] = how
    BY <1>5, <2>1 DEF answers, Answer
  <2>3. \E h \in {answers[t], "exception"} : hears' = [hears EXCEPT ![t] = h]
    BY <1>3, <2>2
  <2>4. Remote!Tell(t)
    BY <1>2, <2>1, <2>3 DEF Remote!Tell, stages, answers, hears
  <2> QED
    BY <2>4 DEF Remote!Next
<1> QED
  BY <1>4, <1>5

\* The request goes out.
LEMMA EnterRemote ==
  ASSUME TypeOK, NEW t \in Thread, NEW o \in Calls, Enter(t, o)
  PROVE  Remote!Next
<1>1. /\ pc[t] = "ruby" /\ pc' = [pc EXCEPT ![t] = "native"]
      /\ outcome' = [outcome EXCEPT ![t] = "none"] /\ reply' = reply
  BY DEF Enter
<1>2. stages[t] = "idle" /\ stages' = [stages EXCEPT ![t] = "asked"]
  <2>1. stages[t] = "idle"
    BY <1>1 DEF stages, Stage
  <2>2. pc'[t] = "native" /\ \A u \in Thread \ {t} : pc'[u] = pc[u]
    BY <1>1 DEF TypeOK
  <2>3. stages' = [stages EXCEPT ![t] = "asked"]
    BY <2>2 DEF stages, Stage
  <2> QED
    BY <2>1, <2>3
<1>3. hears' = [hears EXCEPT ![t] = "nothing"] /\ answers' = answers
  BY <1>1 DEF hears, answers, Heard, Answer, TypeOK
<1>4. Remote!Ask(t)
  BY <1>2, <1>3 DEF Remote!Ask, stages, answers, hears
<1> QED
  BY <1>4 DEF Remote!Next

\* The answer comes.
LEMMA ReplyRemote ==
  ASSUME TypeOK, NEW t \in Thread, Reply(t)
  PROVE  Remote!Next
<1>1. /\ pc[t] = "native" /\ outcome' = outcome
      /\ \E p \in {"back", "finish"} : pc' = [pc EXCEPT ![t] = p]
  BY DEF Reply
<1>2. PICK r \in {"ok", "null", "error"} : reply' = [reply EXCEPT ![t] = r]
  BY DEF Reply
<1>3. stages[t] = "asked" /\ stages' = [stages EXCEPT ![t] = "answered"]
  <2>1. stages[t] = "asked"
    BY <1>1 DEF stages, Stage
  <2>2. pc'[t] \in {"back", "finish"} /\ \A u \in Thread \ {t} : pc'[u] = pc[u]
    BY <1>1 DEF TypeOK
  <2>3. stages' = [stages EXCEPT ![t] = "answered"]
    BY <2>2 DEF stages, Stage
  <2> QED
    BY <2>1, <2>3
<1>4. \E a \in {"value", "error"} : answers' = [answers EXCEPT ![t] = a]
  <2>1. answers' = [answers EXCEPT ![t] = IF r = "error" THEN "error" ELSE "value"]
    BY <1>2 DEF answers, Answer, TypeOK
  <2> QED
    BY <2>1
<1>5. hears' = hears
  BY <1>1 DEF hears, Heard
<1>6. Remote!Answer(t)
  BY <1>3, <1>4, <1>5 DEF Remote!Answer, stages, answers, hears
<1> QED
  BY <1>6 DEF Remote!Next

\* Every step.
LEMMA StepRemote == TypeOK /\ ReplyKept /\ [Next]_vars => [Remote!Next]_(Remote!vars)
<1> SUFFICES ASSUME TypeOK, ReplyKept, [Next]_vars PROVE Remote!Next \/ UNCHANGED Remote!vars
  OBVIOUS
<1>1. CASE UNCHANGED vars
  BY <1>1, Unnoticed DEF vars, Stage
<1>2. ASSUME NEW t \in Thread, Acquire(t) \/ Yield(t) \/ Reacquire(t)
      PROVE  UNCHANGED Remote!vars
  <2>1. reply' = reply /\ outcome' = outcome
    BY <1>2 DEF Acquire, Yield, Reacquire, callVars
  <2>2. \A u \in Thread : Stage(u)' = Stage(u)
    BY <1>2 DEF Acquire, Yield, Reacquire, Stage, TypeOK
  <2> QED
    BY <2>1, <2>2, Unnoticed
<1>3. ASSUME NEW t \in Thread, Finish(t) PROVE Remote!Next
  <2>1. pc[t] = "finish"
    BY <1>3 DEF Finish
  <2>2. PICK how \in {"value", "error", "raised"}, left \in SUBSET Buffer :
          Return(t, how, left) /\ (how = "error" <=> reply[t] = "error")
    BY <1>3, FinishReturns
  <2> QED
    BY <2>1, <2>2, EndRemote
<1>4. ASSUME NEW t \in Thread, Interrupted(t) PROVE Remote!Next
  <2>1. pc[t] = "finish" /\ Return(t, "interrupted", held[t])
    BY <1>4 DEF Interrupted
  <2> QED
    BY <2>1, EndRemote
<1>5. ASSUME NEW t \in Thread, Reply(t) PROVE Remote!Next
  BY <1>5, ReplyRemote
<1>6. ASSUME NEW t \in Thread, NEW o \in Calls, Enter(t, o) PROVE Remote!Next
  BY <1>6, EnterRemote
<1>7. ASSUME NEW t \in Thread, NEW o \in Calls, Refuse(t, o) \/ InterruptedEarly(t, o)
      PROVE  Remote!Next
  <2>1. pc[t] = "ruby"
    BY <1>7 DEF Refuse, InterruptedEarly
  <2>2. PICK how \in {"raised", "interrupted"}, left \in Held(o) \cup HeldAtRaise(o) :
          Return(t, how, left)
    BY <1>7 DEF Refuse, InterruptedEarly
  <2> QED
    BY <2>1, <2>2, EndRemote
<1>8. ASSUME NEW t \in Thread, NEW u \in Thread, Disturb(t, u) \/ Interrupt(t, u)
      PROVE  UNCHANGED Remote!vars
  BY <1>8, Unnoticed DEF Disturb, Interrupt, Stage
<1> QED
  BY <1>1, <1>2, <1>3, <1>4, <1>5, <1>6, <1>7, <1>8 DEF Next, RubyStep

-----------------------------------------------------------------------------
(***************************************************************************)
(* Theorems.                                                               *)
(***************************************************************************)

\* The inductive invariant holds in every state of every execution.
THEOREM Invariance == Spec => []IInv
<1>1. Init => IInv
  BY InitType, InitLock, InitBounded, InitCall DEF IInv
<1>2. IInv /\ [Next]_vars => IInv'
  BY StepType, StepLock, StepBounded, StepHeld, StepCall DEF IInv
<1> QED
  BY <1>1, <1>2, PTL DEF Spec

\* The variables keep their types.
THEOREM TypeCorrect == Spec => []TypeOK
<1>1. IInv => TypeOK
  BY DEF IInv
<1> QED
  BY <1>1, Invariance, PTL

\* Any number of threads: Ruby's API is used by the holder of the lock alone.
THEOREM LockDiscipline == Spec => []LockHeld
<1>1. IInv => LockHeld
  BY DEF IInv
<1> QED
  BY <1>1, Invariance, PTL

\* What a call can leave allocated, for any threads and interrupts.  A property
\* list and the first input arguments are lost by an exception alone
\* (cim_client.c:261); the second input arguments and the strings of both by
\* every method call (cim_client.c:1102, sfcc.c:295); the output arguments never
\* by an error (cim_client.c:1131); the answer where it is cloned or the call
\* interrupted (cim_client.c:1129, 1216); the path where the call got no reply
\* to wrap (cim_client.c:277, 562, 817).
THEOREM CallsEndBounded == Spec => []EndsBounded
<1>1. IInv => EndsBounded
  BY DEF IInv
<1> QED
  BY <1>1, Invariance, PTL

\* A build without threads keeps the lock, so native calls never overlap.
THEOREM CallsDoNotOverlap == Spec => [](~MightBlock => OneNativeCall)
<1>1. IInv => (~MightBlock => OneNativeCall)
  <2> SUFFICES ASSUME LockHeld, ~MightBlock,
                      NEW t \in Thread, NEW u \in Thread,
                      pc[t] = "native", pc[u] = "native"
               PROVE  t = u
    BY DEF IInv, OneNativeCall
  <2>1. gvl = t /\ gvl = u
    BY DEF LockHeld
  <2> QED
    BY <2>1
<1> QED
  BY <1>1, Invariance, PTL

\* A build without threads calls the native library under the lock
\* (cim_client.c:20), so nobody changes the strings it reads, unless the
\* collector took one before the call (sfcc.c:561).
THEOREM StringsStayIntact == Spec => [](Sheltered => ArgsIntact)
<1>1. CASE Sheltered
  <2>1. Init => Untouched
    BY InitUntouched
  <2>2. IInv /\ Untouched /\ [Next]_vars => Untouched'
    BY <1>1, StepUntouched DEF IInv
  <2>3. Untouched => (Sheltered => ArgsIntact)
    BY DEF Untouched, ArgsIntact
  <2> QED
    BY <2>1, <2>2, <2>3, Invariance, PTL DEF Spec
<1>2. CASE ~Sheltered
  <2>1. Sheltered => ArgsIntact
    BY <1>2
  <2> QED
    BY <2>1, PTL
<1> QED
  BY <1>1, <1>2

\* The threaded functions of cim_client.c:59-203 read no field of the argument
\* struct that the operation has not filled in.
THEOREM ArgsAreComplete == Spec => []ArgsComplete
<1>1. IInv => ArgsComplete
  BY FillsWhatItNeeds DEF IInv, OpKnown, ArgsComplete
<1> QED
  BY <1>1, Invariance, PTL

\* The operations of cim_client.c are remote calls in the sense of RemoteCall:
\* one request, one answer, and what the program is told follows from it.
THEOREM Implementation == Spec => ImplementsRemoteCall
<1>1. Init => Remote!Init
  BY InitRemote
<1>2. IInv /\ [Next]_vars => [Remote!Next]_(Remote!vars)
  BY StepRemote DEF IInv
<1> QED
  BY <1>1, <1>2, Invariance, PTL DEF Spec, ImplementsRemoteCall, Remote!Safe
=============================================================================

----------------------------- MODULE RemoteCall -----------------------------
(***************************************************************************)
(* What a Cim::Client promises about its calls, free of the interpreter's  *)
(* lock, of argument structs and of native memory:                         *)
(*                                                                         *)
(*   - a call sends one request at most, and gets one answer for it;       *)
(*   - a value is told only when the CIMOM answered with one, and an error *)
(*     of the CIMOM only when it answered with that;                       *)
(*   - a call may end with an exception of Ruby's instead, but not while   *)
(*     its request is under way;                                           *)
(*   - an answer that has come is told.                                    *)
(***************************************************************************)
CONSTANT Thread   \* the Ruby threads

VARIABLES stage,   \* stage[t]: where the call of t is
          answer,  \* answer[t]: the CIMOM's answer, until it is told
          heard    \* heard[t]: what the last call of t told the program

vars == <<stage, answer, heard>>

Init ==
  /\ stage = [t \in Thread |-> "idle"]
  /\ answer = [t \in Thread |-> "none"]
  /\ heard = [t \in Thread |-> "nothing"]

Ask(t) ==
  /\ stage[t] = "idle"
  /\ stage' = [stage EXCEPT ![t] = "asked"]
  /\ heard' = [heard EXCEPT ![t] = "nothing"]
  /\ UNCHANGED answer

\* A call ends before its request goes out.
GiveUp(t) ==
  /\ stage[t] = "idle"
  /\ heard' = [heard EXCEPT ![t] = "exception"]
  /\ UNCHANGED <<stage, answer>>

Answer(t) ==
  /\ stage[t] = "asked"
  /\ stage' = [stage EXCEPT ![t] = "answered"]
  /\ \E a \in {"value", "error"} : answer' = [answer EXCEPT ![t] = a]
  /\ UNCHANGED heard

Tell(t) ==
  /\ stage[t] = "answered"
  /\ stage' = [stage EXCEPT ![t] = "idle"]
  /\ \E h \in {answer[t], "exception"} : heard' = [heard EXCEPT ![t] = h]
  /\ answer' = [answer EXCEPT ![t] = "none"]

Next == \E t \in Thread : Ask(t) \/ GiveUp(t) \/ Answer(t) \/ Tell(t)

Safe == Init /\ [][Next]_vars

\* Nothing makes the CIMOM answer, but its answers are told.
Live == \A t \in Thread : stage[t] = "answered" ~> stage[t] = "idle"

Spec == Safe /\ Live
=============================================================================

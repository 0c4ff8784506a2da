------------------------------ MODULE MCSession ------------------------------
(***************************************************************************)
(* Module Session for TLC, with integers of 2 to 32 values standing for    *)
(* those of 8 to 64 bits.                                                  *)
(***************************************************************************)
EXTENDS Session, TLC

MCHalf == (8 :> 1) @@ (16 :> 2) @@ (32 :> 4) @@ (64 :> 16)

\* A width below 32 bits, 32 bits and 64 bits, of each sign.
MCTypes == {"uint8", "sint16", "uint32", "sint32", "uint64", "sint64"}

\* Every integer in and around the ranges of the types.
Integers == -17..32
MCData == {RubyData(t, n) : t \in MCTypes, n \in {-16, -4, -3, -2, -1, 0, 1, 2, 3, 4, 7, 8, 31}}

\* A method's arguments: an input of each sort, with the Hash, without it,
\* and with an argument too many.
Firsts == {RubyInt(n) : n \in Integers} \cup MCData \cup {False, Nil, Hash, Other}
MCGiven ==
  {<<>>, <<Hash, Hash>>, <<RubyInt(0), False>>, <<RubyInt(0), Hash, Nil>>,
   <<RubyInt(0), RubyInt(8), Hash>>, <<RubyInt(0), RubyInt(0), Hash>>}
    \cup {<<a>> : a \in Firsts} \cup {<<a, Hash>> : a \in Firsts}

MCAnswers == {[type |-> "uint8", n |-> 1], [type |-> "uint32", n |-> 7],
              [type |-> "sint32", n |-> -4], [type |-> "sint16", n |-> -2],
              [type |-> "uint64", n |-> 31]}

\* A name of each sort: what a key is matters without inputs, and what a
\* method takes only when it is described.
MCObjects ==
  {w \in [key : {"none", "good", "null", "bad", "notFound"}, mof : {"missing", "absent", "present"},
          provided : BOOLEAN, ins : 0..2, outs : BOOLEAN] :
     /\ w.key # "none" => w.ins = 0
     /\ w.mof # "present" => w.ins = 0 /\ ~w.outs}
=============================================================================

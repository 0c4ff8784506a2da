------------------------ MODULE CimDataOwnersProofs ------------------------
(***************************************************************************)
(* Theorems about CimData for every program, careful or not, whatever      *)
(* arrays it uses.  Two inputs are to blame for all that can happen to who *)
(* owns a value.  Setting a type that is none makes the object forget the  *)
(* value it owns.  A value that is refused late, when the state is good    *)
(* already, leaves the object with a pointer it does not own: an array     *)
(* that its type does not take or that cannot be converted, or, if it has  *)
(* an array type, a number that is too large or a word.  A program that    *)
(* does not do the former forgets no value but half-filled arrays; one     *)
(* that does not do the latter has no value with two owners.               *)
(***************************************************************************)
EXTENDS CimDataProofs

\* Values an object of the type refuses by an exception out of a conversion:
\* do_set_value has set the state at cim_data.c:155, before it converts
\* anything, and neither the array's conversion (:277, :280) nor NUM2ULL,
\* NUM2LL and rb_Float (:201-244) set it back.
RefusedLate(v, type) ==
  \/ v \in Arrays /\ Owning(type) /\ (IsArray(type) => v \notin {"strings", "numbers"})
  \/ v = (IF Has(type, Real) THEN "word" ELSE "huge") /\ IsArray(type) /\ Numeric(type)

\* The program gives data object d such a value.
LateRefusal(d) == \E v \in Values : RefusedLate(v, data[d].type) /\ SetValue(d, v)

TypesAreTypes == [][\A d \in Data : ~SetTypeBad(d)]_vars
NoLateRefusal == [][\A d \in Data : ~LateRefusal(d)]_vars

\* Whatever is referred to was allocated at some time.
Born ==
  /\ \A d \in Data : data[d].val \in Native => state[data[d].val] # "unborn"
  /\ \A s \in Source : held[s] \in Native => state[held[s]] # "unborn"

BInv == TypeOK /\ Born

\* A native value that a data object owns is live and nobody else's.
OwnersApart ==
  \A d \in Data : Owner(data[d]) /\ data[d].val \in Native =>
    /\ state[data[d].val] = "live"
    /\ \A e \in Data : Owner(data[e]) /\ data[e].val = data[d].val => e = d
    /\ \A s \in Source : held[s] # data[d].val

OInv == BInv /\ SourcesRight /\ OwnersApart

-----------------------------------------------------------------------------
(***************************************************************************)
(* What an assignment makes of a struct whose value was given up.          *)
(***************************************************************************)

\* The struct the value is put into.
Given(r) == r \in DataRec /\ ~r.ref /\ (r.val \in Native => state[r.val] # "unborn")

\* The pointer is the fresh value, the old pointer or a source's; the fresh
\* value is owned; an owned value is fresh, unless the struct is kept as it
\* was and an exception raised.
Result(out, r, n) ==
  /\ out.rec \in DataRec /\ out.rec.in = r.in
  /\ out.rec.val \in Native => out.rec.val = n \/ state[out.rec.val] # "unborn"
  /\ n # "none" => ~out.rec.ref /\ Clears(out.rec)
  /\ ~out.rec.ref /\ Clears(out.rec) /\ out.rec.val \in Native =>
       \/ n # "none" /\ out.rec.val = n
       \/ out.raises /\ out.rec.val = r.val

\* A kept pointer, or none: no fresh value was made.
LEMMA KeptResult ==
  ASSUME NEW r, Given(r), NEW n \in Fresh, NEW out,
         out.rec \in DataRec, out.rec.in = r.in, ~out.rec.ref,
         out.rec.val = r.val \/ out.rec.val \notin Native,
         out.raises \/ ~Clears(out.rec),
         n # "none" => out.rec.val = n
  PROVE  Result(out, r, n)
<1>1. n = "none"
  BY FreshTyped DEF Given
<1> QED
  BY <1>1 DEF Result, Given

LEMMA ScalarResult ==
  ASSUME NEW r, Given(r), NEW v \in Values, NEW n \in Fresh,
         NEW out, out = AssignScalar(Asked(r, v), v, n),
         out.rec.val # "none", n # "none" => out.rec.val = n
  PROVE  Result(out, r, n)
<1> DEFINE g == Asked(r, v)
<1>0. /\ g \in DataRec /\ g.type = r.type /\ g.in = r.in /\ g.val = r.val /\ ~g.ref /\ g.state = "good"
      /\ v \in Value
  BY AskedIs DEF Given
<1>1. CASE out = Raise(g)
  <2>1. out.rec = g /\ out.raises
    BY <1>1 DEF Raise
  <2> QED
    BY <1>0, <2>1, KeptResult
<1>2. CASE Numeric(r.type) /\ out = Ok([g EXCEPT !.val = "number", !.from = v])
  <2>1. out.rec = [g EXCEPT !.val = "number", !.from = v]
    BY <1>2 DEF Ok
  <2>2. /\ out.rec \in DataRec /\ out.rec.in = r.in /\ ~out.rec.ref /\ out.rec.val = "number"
    BY <1>0, <2>1 DEF DataRec, Plain
  <2>3. "number" \notin Native
    BY NamesDiffer DEF Plain
  <2>4. n = "none"
    BY <2>2, <2>3, FreshTyped
  <2> QED
    BY <2>2, <2>3, <2>4 DEF Result
<1>3. CASE Text(r.type) /\ out = Ok([g EXCEPT !.val = n, !.from = v])
  <2>1. out.rec = [g EXCEPT !.val = n, !.from = v]
    BY <1>3 DEF Ok
  <2>2. out.rec.val = n /\ n # "none" /\ n \in Native
    BY <1>0, <2>1, FreshTyped DEF DataRec
  <2>3. /\ out.rec \in DataRec /\ out.rec.in = r.in /\ ~out.rec.ref /\ out.rec.state = "good"
        /\ out.rec.type = r.type
    BY <1>0, <2>1, <2>2 DEF DataRec
  <2> QED
    BY <1>3, <2>2, <2>3, TextIsOwned DEF Result, Clears
<1>4. CASE out = Bad(g)
  <2>1. out.rec = Refused(g)
    BY <1>4 DEF Bad, Raise, Refused
  <2>2. out.rec \in DataRec /\ out.rec.in = r.in /\ ~out.rec.ref /\ out.rec.val = r.val /\ ~Clears(out.rec)
    BY <1>0, <2>1, RefusedIs DEF Clears
  <2> QED
    BY <2>2, KeptResult
<1> QED
  BY <1>0, <1>1, <1>2, <1>3, <1>4 DEF AssignScalar

LEMMA ArrayResult ==
  ASSUME NEW r, Given(r), NEW v \in Values, v \in Arrays, NEW n \in Fresh,
         NEW out, out = AssignArray(Asked(r, v), v, n),
         out.rec.val # "none", n # "none" => out.rec.val = n
  PROVE  Result(out, r, n)
<1> DEFINE g == Asked(r, v)
<1>0. /\ g \in DataRec /\ g.type = r.type /\ g.in = r.in /\ g.val = r.val /\ ~g.ref /\ g.state = "good"
      /\ v \in Value
  BY AskedIs DEF Given
<1>1. CASE ~IsArray(r.type)
  <2>1. out = Raise(g)
    BY <1>0, <1>1 DEF AssignArray
  <2>2. out.rec = g /\ out.raises
    BY <2>1 DEF Raise
  <2> QED
    BY <1>0, <2>2, KeptResult
<1>2. CASE IsArray(r.type) /\ v \in {"strings", "numbers"}
  <2>1. PICK x \in {"string", "sint64"} : out = Ok([g EXCEPT !.val = n, !.type = Array(x), !.from = v])
    BY <1>0, <1>2 DEF AssignArray
  <2>2. out.rec = [g EXCEPT !.val = n, !.type = Array(x), !.from = v]
    BY <2>1 DEF Ok
  <2>3. Array(x) \in CimType /\ Owning(Array(x))
    BY TypesUsed
  <2>4. out.rec.val = n /\ n # "none" /\ n \in Native
    BY <1>0, <2>2, FreshTyped DEF DataRec
  <2>5. /\ out.rec \in DataRec /\ out.rec.in = r.in /\ ~out.rec.ref /\ out.rec.state = "good"
        /\ out.rec.type = Array(x)
    BY <1>0, <2>2, <2>3, <2>4 DEF DataRec
  <2> QED
    BY <2>3, <2>4, <2>5 DEF Result, Clears
<1>3. CASE IsArray(r.type) /\ v \in {"mixed", "nested", "broken"}
  <2>1. \E t \in CimType : out = Raise([g EXCEPT !.type = t])
    BY <1>0, <1>3, TypesUsed DEF AssignArray
  <2>2. PICK t \in CimType : out = Raise([g EXCEPT !.type = t])
    BY <2>1
  <2>3. out.rec = [g EXCEPT !.type = t] /\ out.raises
    BY <2>2 DEF Raise
  <2>4. out.rec \in DataRec /\ out.rec.in = r.in /\ ~out.rec.ref /\ out.rec.val = r.val
    BY <1>0, <2>3 DEF DataRec
  <2> QED
    BY <2>3, <2>4, KeptResult
<1> QED
  BY <1>1, <1>2, <1>3 DEF Arrays

LEMMA SourceResult ==
  ASSUME BInv, NEW r, Given(r), NEW v \in Values, v \in Source, Available(v), NEW n \in Fresh,
         NEW out, out = AssignSource(Asked(r, v), v),
         out.rec.val # "none", n # "none" => out.rec.val = n
  PROVE  Result(out, r, n)
<1> DEFINE g == Asked(r, v)
<1>0. /\ g \in DataRec /\ g.type = r.type /\ g.in = r.in /\ g.val = r.val /\ ~g.ref /\ g.state = "good"
      /\ v \in Value
  BY AskedIs DEF Given
<1>1. held[v] \in Native /\ state[held[v]] # "unborn"
  BY DEF Available, BInv, TypeOK, Born
<1>2. CASE out = Ok([g EXCEPT !.val = held[v], !.ref = TRUE, !.from = v])
  <2>1. out.rec = [g EXCEPT !.val = held[v], !.ref = TRUE, !.from = v]
    BY <1>2 DEF Ok
  <2>2. out.rec \in DataRec /\ out.rec.in = r.in /\ out.rec.ref /\ out.rec.val = held[v]
    BY <1>0, <1>1, <2>1 DEF DataRec
  <2>3. n = "none"
    BY <1>1, <2>2, FreshTyped
  <2> QED
    BY <1>1, <2>2, <2>3 DEF Result
<1>3. CASE out = Bad(g)
  <2>1. out.rec = Refused(g)
    BY <1>3 DEF Bad, Raise, Refused
  <2>2. out.rec \in DataRec /\ out.rec.in = r.in /\ ~out.rec.ref /\ out.rec.val = r.val /\ ~Clears(out.rec)
    BY <1>0, <2>1, RefusedIs DEF Clears
  <2> QED
    BY <2>2, KeptResult
<1> QED
  BY <1>2, <1>3 DEF AssignSource

LEMMA AssignResult ==
  ASSUME BInv, NEW r, Given(r), NEW v \in Values, Available(v), NEW n \in Fresh,
         NEW out, out = Assign(r, v, n), out.rec.val # "none", n # "none" => out.rec.val = n
  PROVE  Result(out, r, n)
<1> DEFINE g == Asked(r, v)
<1>0. /\ g \in DataRec /\ g.type = r.type /\ g.in = r.in /\ g.val = r.val /\ ~g.ref /\ g.state = "good"
      /\ v \in Value
  BY AskedIs DEF Given
<1>1. v \in Unwrapped \cup Source
  BY InputAssumption DEF Value
<1>2. CASE v \in {"string", "word", "number", "huge"}
  <2>1. out = AssignScalar(g, v, n)
    BY <1>2, NamesDiffer DEF Assign, Arrays, Unwrapped, Asked
  <2> QED
    BY <2>1, ScalarResult
<1>3. CASE v \in Arrays
  <2>1. out = AssignArray(g, v, n)
    BY <1>3, NamesDiffer DEF Assign, Arrays, Unwrapped, Asked
  <2> QED
    BY <1>3, <2>1, ArrayResult
<1>4. CASE v \in Source
  <2>1. out = AssignSource(g, v)
    BY <1>4, NamesDiffer DEF Assign, Arrays, Unwrapped, Asked
  <2> QED
    BY <1>4, <2>1, SourceResult
<1>5. CASE v \in {"nil", "boolean", "other"}
  <2>1. \/ out.rec = Emptied(g) \/ out.rec = Refused(g)
        \/ out.rec = g /\ g.type = Scalar("boolean")
    BY <1>5, NamesDiffer DEF Assign, Arrays, Unwrapped, Ok, Bad, Raise, Asked, Emptied, Refused
  <2>2. /\ out.rec \in DataRec /\ out.rec.in = r.in /\ ~out.rec.ref /\ out.rec.val = r.val
        /\ out.rec.state \in {"null", "bad"} \/ out.rec.type = Scalar("boolean")
    BY <1>0, <2>1, RefusedIs
  <2>3. ~Clears(out.rec)
    BY <2>2, TypesUsed DEF Clears
  <2> QED
    BY <2>2, <2>3, KeptResult
<1> QED
  BY <1>1, <1>2, <1>3, <1>4, <1>5 DEF Unwrapped, Arrays

\* An exception that leaves the struct good, and its pointer owned, comes of
\* one of those values.
LEMMA LateOnes ==
  ASSUME NEW r \in DataRec, NEW v \in Values, NEW n, NEW out, out = Assign(r, v, n),
         out.raises, Clears(out.rec)
  PROVE  RefusedLate(v, r.type)
<1> DEFINE g == Asked(r, v)
<1>0. g \in DataRec /\ g.type = r.type /\ g.state = "good" /\ v \in Unwrapped \cup Source
  BY AskedIs DEF Value
<1>1. out # Bad(g)
  <2>1. Bad(g).rec = Refused(g)
    BY DEF Bad, Raise, Refused
  <2> QED
    BY <1>0, <2>1, RefusedIs DEF Clears
<1>2. CASE v \in {"string", "word", "number", "huge"}
  <2>1. out = AssignScalar(g, v, n)
    BY <1>2, NamesDiffer DEF Assign, Arrays, Unwrapped, Asked
  <2>2. Numeric(r.type) /\ v = (IF Has(r.type, Real) THEN "word" ELSE "huge") /\ out = Raise(g)
    BY <1>0, <1>1, <2>1 DEF AssignScalar, Ok
  <2>3. Owning(r.type)
    BY <1>0, <2>2 DEF Raise, Clears
  <2> QED
    BY <2>2, <2>3, NumbersAreNotOwned DEF RefusedLate
<1>3. CASE v \in Arrays
  <2>1. out = AssignArray(g, v, n)
    BY <1>3, NamesDiffer DEF Assign, Arrays, Unwrapped, Asked
  <2>2. CASE IsArray(r.type)
    <3>1. v \notin {"strings", "numbers"}
      BY <1>0, <2>1, <2>2 DEF AssignArray, Ok
    <3>2. Owning(r.type)
      BY <2>2 DEF Owning
    <3> QED
      BY <1>3, <3>1, <3>2 DEF RefusedLate
  <2>3. CASE ~IsArray(r.type)
    <3>1. out.rec = g
      BY <1>0, <2>1, <2>3 DEF AssignArray, Raise
    <3> QED
      BY <1>0, <1>3, <2>3, <3>1 DEF RefusedLate, Clears
  <2> QED
    BY <2>2, <2>3
<1>4. CASE v \in Source
  <2>1. out = AssignSource(g, v)
    BY <1>4, NamesDiffer DEF Assign, Arrays, Unwrapped, Asked
  <2> QED
    BY <1>1, <2>1 DEF AssignSource, Ok
<1>5. CASE v \in {"nil", "boolean", "other"}
  BY <1>1, <1>5, NamesDiffer DEF Assign, Arrays, Unwrapped, Ok, Asked
<1> QED
  BY <1>0, <1>2, <1>3, <1>4, <1>5 DEF Unwrapped, Arrays

LEMMA GivenUp ==
  ASSUME NEW r \in DataRec, r.val \in Native => state[r.val] # "unborn"
  PROVE  Given(GiveUp(r)) /\ GiveUp(r).in = r.in /\ GiveUp(r).type = r.type
<1> DEFINE c == IF r.ref THEN r ELSE Cleared(r)
<1>1. /\ c \in DataRec /\ c.in = r.in /\ c.type = r.type
      /\ c.val = r.val \/ c.val = "zero"
  BY DEF Cleared, Clears, DataRec, Plain
<1>2. GiveUp(r) = [c EXCEPT !.ref = FALSE]
  BY DEF GiveUp
<1> QED
  BY <1>1, <1>2, NamesDiffer DEF Given, DataRec, Clears, Plain
-----------------------------------------------------------------------------
(***************************************************************************)
(* Steps.  All but reading a value and sweeping a source put a record into *)
(* one slot.                                                               *)
(***************************************************************************)

\* Slot d goes from old to new, and the fresh value, if any, is owned by new.
Places(d, gives, old, new, n) ==
  /\ \E half \in Halves : Update(d, old, gives, new, n, half)
  /\ gives => old = data[d] /\ old.in # "free"
  /\ new.val \in Native => new.val = n \/ state[new.val] # "unborn"
  /\ n # "none" => Owner(new)

\* What is owned stays owned unless it is given up.
Remembers(d, gives, new) ==
  ~gives /\ Owner(data[d]) => Owner(new) /\ new.val = data[d].val

\* What is owned is fresh or was owned before.
OwnsItsOwn(d, gives, new, n) ==
  Owner(new) /\ new.val \in Native =>
    \/ n # "none" /\ new.val = n
    \/ ~gives /\ Owner(data[d]) /\ new.val = data[d].val

SlotStep(d) ==
  \E gives \in BOOLEAN, old \in DataRec, new \in DataRec, n \in Fresh :
    /\ Places(d, gives, old, new, n)
    /\ Remembers(d, gives, new) \/ SetTypeBad(d)
    /\ OwnsItsOwn(d, gives, new, n) \/ LateRefusal(d)

LEMMA NoneIsFresh == "none" \in Fresh /\ {} \in Halves
BY HalfFresh DEF Fresh

LEMMA RecordsTyped ==
  ASSUME BInv, NEW d \in Data
  PROVE  data[d] \in DataRec /\ (data[d].val \in Native => state[data[d].val] # "unborn")
BY DEF BInv, TypeOK, Born

LEMMA NewDataTyped ==
  /\ NewData \in DataRec /\ NoData \in DataRec /\ NoData.in = "free"
  /\ NoData.val = "zero" /\ "zero" \notin Native /\ "junk" \notin Native /\ "number" \notin Native
<1>1. NewData \in DataRec
  BY NewDataHolds, HoldsTyped, TypesUsed DEF Plain
<1>2. NoData \in DataRec /\ NoData.in = "free" /\ NoData.val = "zero"
  BY TypesUsed DEF NoData, DataRec, Plain
<1> QED
  BY <1>1, <1>2, NamesDiffer DEF Plain

\* Put in a slot or made garbage, a result makes a step of this kind.
LEMMA ResultStep ==
  ASSUME BInv, NEW d \in Data, NEW gives \in BOOLEAN, NEW old \in DataRec, NEW new, NEW n \in Fresh,
         NEW half \in Halves, Update(d, old, gives, new, n, half),
         gives => old = data[d] /\ old.in # "free",
         ~gives => data[d].in = "free",
         NEW r, r.in = "use", NEW out, Result(out, r, n),
         new \in {out.rec, Lost(out.rec)},
         out.raises /\ Clears(out.rec) /\ out.rec.val = r.val /\ r.val \in Native => LateRefusal(d)
  PROVE  SlotStep(d)
<1>1. /\ new.type = out.rec.type /\ new.state = out.rec.state /\ new.val = out.rec.val
      /\ new.ref = out.rec.ref /\ new.in \in {"use", "garbage"} /\ new \in DataRec
  BY DEF Result, DataRec, Lost
<1>2. Owner(new) <=> ~out.rec.ref /\ Clears(out.rec)
  BY <1>1 DEF Owner, Clears
<1>3. Places(d, gives, old, new, n)
  BY <1>1, <1>2 DEF Places, Result
<1>4. Remembers(d, gives, new)
  BY DEF Remembers, Owner
<1>5. OwnsItsOwn(d, gives, new, n) \/ LateRefusal(d)
  BY <1>1, <1>2 DEF OwnsItsOwn, Result
<1> QED
  BY <1>1, <1>3, <1>4, <1>5 DEF SlotStep

LEMMA NewStep ==
  ASSUME BInv, NEW d \in Data, NEW t \in Types, NEW v \in Values, New(d, t, v)
  PROVE  SlotStep(d)
<1> DEFINE r == GiveUp(Retyped(NewData, t))
<1>1. PICK n \in Fresh, half \in Half(v, IsArray(t)) :
        /\ data[d].in = "free" /\ Available(v)
        /\ Update(d, NewData, FALSE, Made(Assign(r, v, n)), n, half)
  BY DEF New
<1> DEFINE out == Assign(r, v, n)
           new == Made(out)
<1>2. t \in CimType
  BY InputAssumption
<1>3. Holds(r, "use", t, "null", "junk") /\ ~r.ref
  BY <1>2, NewStruct
<1> HIDE DEF r
<1>4. r \in DataRec /\ Given(r) /\ r.in = "use" /\ r.val = "junk"
  <2>1. r \in DataRec
    BY <1>2, <1>3, HoldsTyped DEF Plain
  <2> QED
    BY <1>3, <2>1, NewDataTyped DEF Given, Holds
<1>5. new \in {out.rec, Lost(out.rec)}
  BY DEF Made
<1>6. new.val = out.rec.val
  <2>1. IsStruct(out.rec)
    BY <1>4, AssignStruct
  <2> QED
    BY <1>5, <2>1 DEF IsStruct, Lost
<1>7. out.rec.val # "none" /\ (n # "none" => out.rec.val = n)
  BY <1>1, <1>6 DEF Update
<1>8. half \in Halves /\ Update(d, NewData, FALSE, new, n, half)
  BY <1>1, HalfFresh
<1>9. Result(out, r, n)
  <2> HIDE DEF new
  <2> QED
    BY <1>1, <1>4, <1>7, AssignResult
<1> HIDE DEF out, new
<1> QED
  BY <1>1, <1>4, <1>5, <1>8, <1>9, NewDataTyped, ResultStep

LEMMA SetValueStep ==
  ASSUME BInv, NEW d \in Data, NEW v \in Values, SetValue(d, v)
  PROVE  SlotStep(d)
<1> DEFINE r == GiveUp(data[d])
<1>1. PICK n \in Fresh, half \in Half(v, IsArray(data[d].type)) :
        /\ data[d].in = "use" /\ Available(v)
        /\ Update(d, data[d], TRUE, Assign(r, v, n).rec, n, half)
  BY DEF SetValue
<1> DEFINE out == Assign(r, v, n)
<1>2. Given(r) /\ r.in = "use" /\ r.type = data[d].type
  BY <1>1, GivenUp, RecordsTyped
<1>3. out.rec.val # "none" /\ (n # "none" => out.rec.val = n)
  BY <1>1 DEF Update
<1>4. out.raises /\ Clears(out.rec) /\ out.rec.val = r.val /\ r.val \in Native => LateRefusal(d)
  BY <1>2, LateOnes DEF LateRefusal, Given
<1> HIDE DEF r
<1>5. Result(out, r, n)
  BY <1>1, <1>2, <1>3, AssignResult
<1>6. half \in Halves /\ Update(d, data[d], TRUE, out.rec, n, half)
  BY <1>1, HalfFresh
<1> HIDE DEF out
<1> QED
  BY <1>1, <1>2, <1>4, <1>5, <1>6, RecordsTyped, ResultStep

LEMMA FromRubyStep ==
  ASSUME BInv, NEW d \in Data, NEW v \in Values, FromValue(d, v)
  PROVE  SlotStep(d)
<1>1. PICK n \in Fresh, half \in Half(v, TRUE) :
        /\ data[d].in = "free" /\ Available(v)
        /\ Update(d, NewData, FALSE, Made(FromRuby(v, n)), n, half)
  BY DEF FromValue
<1> DEFINE new == Made(FromRuby(v, n))
<1>2. n = "none" \/ (n \in Native /\ state[n] = "unborn")
  BY FreshTyped
<1>3. new.val # "none" /\ (n # "none" => new.val = n)
  BY <1>1 DEF Update
<1>4. v \in Value
  BY InputAssumption
<1>5. ~Owner(data[d])
  BY <1>1 DEF Owner
<1>6. \/ Holds(new, "use", {}, "null", "zero")
      \/ Holds(new, "garbage", {}, "null", "junk")
      \/ \E t \in CimType : Holds(new, "use", t, "good", "number") /\ ~Owning(t)
      \/ \E t \in CimType : Holds(new, "use", t, "good", n) /\ ~new.ref /\ Owning(t)
      \/ v \in Source /\ Holds(new, "use", SourceType[v], "good", held[v]) /\ new.ref
  BY <1>4, FromRubyHolds, TypesUsed
<1>7. half \in Halves /\ Update(d, NewData, FALSE, new, n, half)
  BY <1>1, HalfFresh
<1> HIDE DEF new
<1>8. CASE Holds(new, "use", {}, "null", "zero") \/ Holds(new, "garbage", {}, "null", "junk")
  <2>1. new.state = "null" /\ new.val \in {"zero", "junk"} /\ new \in DataRec
    BY <1>8, HoldsTyped, TypesUsed DEF Holds, Plain
  <2>2. n = "none" /\ new.val \notin Native /\ ~Owner(new)
    BY <1>2, <1>3, <2>1, NewDataTyped DEF Owner, Clears
  <2> QED
    BY <1>5, <1>7, <2>1, <2>2, NewDataTyped DEF SlotStep, Places, Remembers, OwnsItsOwn
<1>9. CASE \E t \in CimType : Holds(new, "use", t, "good", "number") /\ ~Owning(t)
  <2>1. new.val = "number" /\ ~Owning(new.type) /\ new \in DataRec
    BY <1>9, HoldsTyped DEF Holds, Plain
  <2>2. n = "none" /\ new.val \notin Native /\ ~Owner(new)
    BY <1>2, <1>3, <2>1, NewDataTyped DEF Owner, Clears
  <2> QED
    BY <1>5, <1>7, <2>1, <2>2, NewDataTyped DEF SlotStep, Places, Remembers, OwnsItsOwn
<1>10. CASE \E t \in CimType : Holds(new, "use", t, "good", n) /\ ~new.ref /\ Owning(t)
  <2>1. new.in = "use" /\ new.val = n /\ Clears(new) /\ ~new.ref
    BY <1>10 DEF Holds, Clears
  <2>2. n \in Native /\ n # "none"
    BY <1>2, <1>3, <2>1
  <2>3. new \in DataRec /\ Owner(new)
    BY <1>10, <2>1, <2>2, HoldsTyped DEF Owner
  <2> QED
    BY <1>5, <1>7, <2>1, <2>2, <2>3, NewDataTyped DEF SlotStep, Places, Remembers, OwnsItsOwn
<1>11. CASE v \in Source /\ Holds(new, "use", SourceType[v], "good", held[v]) /\ new.ref
  <2>1. held[v] \in Native /\ state[held[v]] # "unborn"
    BY <1>1, <1>11 DEF Available, BInv, TypeOK, Born
  <2>2. new \in DataRec /\ new.val = held[v] /\ ~Owner(new)
    BY <1>11, <2>1, SourceAssumption, TypesUsed, HoldsTyped DEF Holds, Owner
  <2>3. n = "none"
    BY <1>2, <1>3, <2>1, <2>2
  <2> QED
    BY <1>5, <1>7, <2>1, <2>2, <2>3, NewDataTyped DEF SlotStep, Places, Remembers, OwnsItsOwn
<1> QED
  BY <1>6, <1>8, <1>9, <1>10, <1>11
LEMMA FromDataStep ==
  ASSUME BInv, NEW d \in Data, NEW e \in Data, FromData(d, e)
  PROVE  SlotStep(d)
<1> DEFINE new == [data[e] EXCEPT !.ref = TRUE]
<1>1. data[d].in = "free" /\ Update(d, NewData, FALSE, new, "none", {})
  BY DEF FromData
<1>2. /\ new \in DataRec /\ new.ref /\ new.val = data[e].val
      /\ data[e].val \in Native => state[data[e].val] # "unborn"
  BY RecordsTyped DEF DataRec
<1> HIDE DEF new
<1>3. ~Owner(new) /\ ~Owner(data[d])
  BY <1>1, <1>2 DEF Owner
<1> QED
  BY <1>1, <1>2, <1>3, NewDataTyped, NoneIsFresh DEF SlotStep, Places, Remembers, OwnsItsOwn

LEMMA DescribeStep ==
  ASSUME BInv, NEW d \in Data, NEW s \in Source, DescribeProperty(d, s)
  PROVE  SlotStep(d)
<1> DEFINE new == Filled(SourceType[s], held[s], s, TRUE)
<1>1. data[d].in = "free" /\ held[s] # "gone" /\ Update(d, NewData, FALSE, new, "none", {})
  BY DEF DescribeProperty
<1>2. held[s] \in Native /\ state[held[s]] # "unborn"
  BY <1>1 DEF BInv, TypeOK, Born
<1>3. Holds(new, "use", SourceType[s], "good", held[s]) /\ new.ref
  BY FilledHolds DEF Value
<1> HIDE DEF new
<1>4. new \in DataRec /\ new.val = held[s] /\ ~Owner(new) /\ ~Owner(data[d])
  BY <1>1, <1>2, <1>3, SourceAssumption, TypesUsed, HoldsTyped DEF Holds, Owner
<1> QED
  BY <1>1, <1>2, <1>4, NewDataTyped, NoneIsFresh DEF SlotStep, Places, Remembers, OwnsItsOwn

LEMMA SetTypeStep ==
  ASSUME BInv, NEW d \in Data, NEW t \in Types, SetType(d, t)
  PROVE  SlotStep(d)
<1>1. data[d].in = "use" /\ Update(d, data[d], data[d].type # t, Retyped(data[d], t), "none", {})
  BY DEF SetType
<1>2. CASE data[d].type = t
  <2>1. Update(d, data[d], FALSE, data[d], "none", {})
    BY <1>1, <1>2 DEF Retyped
  <2> QED
    BY <2>1, RecordsTyped, NoneIsFresh DEF SlotStep, Places, Remembers, OwnsItsOwn
<1>3. CASE data[d].type # t
  <2> DEFINE new == [GiveUp(data[d]) EXCEPT !.type = t, !.state = "null",
                                              !.given = "none", !.from = "none"]
  <2>1. Update(d, data[d], TRUE, new, "none", {})
    BY <1>1, <1>3 DEF Retyped
  <2>2. Given(GiveUp(data[d])) /\ t \in CimType
    BY GivenUp, RecordsTyped, InputAssumption
  <2>3. /\ new \in DataRec /\ new.state = "null"
        /\ new.val \in Native => state[new.val] # "unborn"
    BY <2>2 DEF Given, DataRec
  <2> HIDE DEF new
  <2>4. ~Owner(new)
    BY <2>3 DEF Owner, Clears
  <2> QED
    BY <1>1, <2>1, <2>3, <2>4, RecordsTyped, NoneIsFresh DEF SlotStep, Places, Remembers, OwnsItsOwn
<1> QED
  BY <1>2, <1>3

LEMMA SetTypeBadStep ==
  ASSUME BInv, NEW d \in Data, SetTypeBad(d)
  PROVE  SlotStep(d)
<1> DEFINE new == [data[d] EXCEPT !.state = "bad"]
<1>1. Update(d, data[d], FALSE, new, "none", {})
  BY DEF SetTypeBad
<1>2. new \in DataRec /\ new.state = "bad" /\ new.val = data[d].val
  BY RecordsTyped DEF DataRec
<1> HIDE DEF new
<1>3. ~Owner(new)
  BY <1>2 DEF Owner, Clears
<1>4. Places(d, FALSE, data[d], new, "none") /\ OwnsItsOwn(d, FALSE, new, "none")
  BY <1>1, <1>2, <1>3, RecordsTyped, NoneIsFresh DEF Places, OwnsItsOwn
<1> QED
  BY <1>2, <1>4, RecordsTyped, NoneIsFresh DEF SlotStep

LEMMA DropStep ==
  ASSUME BInv, NEW d \in Data, Drop(d)
  PROVE  SlotStep(d)
<1> DEFINE new == Lost(data[d])
<1>1. data[d].in = "use" /\ Update(d, data[d], FALSE, new, "none", {})
  BY DEF Drop
<1>2. /\ new \in DataRec /\ new.in = "garbage" /\ new.type = data[d].type /\ new.state = data[d].state
      /\ new.val = data[d].val /\ new.ref = data[d].ref
  BY RecordsTyped DEF DataRec, Lost
<1> HIDE DEF new
<1>3. Owner(new) <=> Owner(data[d])
  BY <1>1, <1>2 DEF Owner, Clears
<1> QED
  BY <1>1, <1>2, <1>3, RecordsTyped, NoneIsFresh DEF SlotStep, Places, Remembers, OwnsItsOwn

LEMMA DeallocStep ==
  ASSUME BInv, NEW d \in Data, Dealloc(d)
  PROVE  SlotStep(d)
<1>1. data[d].in = "garbage" /\ Update(d, data[d], TRUE, NoData, "none", {})
  BY DEF Dealloc
<1>2. ~Owner(NoData)
  BY NewDataTyped DEF Owner
<1> QED
  BY <1>1, <1>2, RecordsTyped, NewDataTyped, NoneIsFresh DEF SlotStep, Places, Remembers, OwnsItsOwn

LEMMA StepsAre ==
  ASSUME BInv, Next
  PROVE  \/ \E d \in Data : SlotStep(d) \/ GetValue(d)
         \/ \E s \in Source : SweepSource(s)
<1>1. ASSUME NEW d \in Data, NEW v \in Values, FromValue(d, v) \/ SetValue(d, v)
      PROVE  SlotStep(d)
  BY <1>1, FromRubyStep, SetValueStep
<1>2. ASSUME NEW d \in Data, NEW t \in Types, NEW v \in Values, New(d, t, v)
      PROVE  SlotStep(d)
  BY <1>2, NewStep
<1>3. ASSUME NEW d \in Data, NEW t \in Types, SetType(d, t)
      PROVE  SlotStep(d)
  BY <1>3, SetTypeStep
<1>4. ASSUME NEW d \in Data, NEW e \in Data, FromData(d, e)
      PROVE  SlotStep(d)
  BY <1>4, FromDataStep
<1>5. ASSUME NEW d \in Data, NEW s \in Source, DescribeProperty(d, s)
      PROVE  SlotStep(d)
  BY <1>5, DescribeStep
<1>6. ASSUME NEW d \in Data, SetTypeBad(d) \/ Drop(d) \/ Dealloc(d)
      PROVE  SlotStep(d)
  BY <1>6, SetTypeBadStep, DropStep, DeallocStep
<1> QED
  BY <1>1, <1>2, <1>3, <1>4, <1>5, <1>6 DEF Next

-----------------------------------------------------------------------------
(***************************************************************************)
(* The invariants.                                                         *)
(***************************************************************************)

\* What such a step does to the variables; out is what it releases.
Changes(d, new, n, gives, out) ==
  /\ fault = "none" /\ held' = held
  /\ data'[d] = new /\ \A e \in Data : e # d => data'[e] = data[e]
  /\ \A m \in Native :
       \/ state'[m] = IF m \in out THEN "released" ELSE IF m = n THEN "live" ELSE state[m]
       \/ m \notin out /\ m # n /\ state[m] = "unborn" /\ state'[m] = "half"
  /\ out # {} => Owner(data[d]) /\ data[d].val \in Native /\ state[data[d].val] = "live"
  /\ gives /\ Owner(data[d]) /\ fault' = "none" => out = {data[d].val}
  /\ n = "none" \/ (n \in Native /\ state[n] = "unborn" /\ n \notin out)

LEMMA Placed ==
  ASSUME BInv, NEW d \in Data, NEW gives \in BOOLEAN, NEW old \in DataRec, NEW new \in DataRec,
         NEW n \in Fresh, Places(d, gives, old, new, n)
  PROVE  \E out \in SUBSET {data[d].val} : Changes(d, new, n, gives, out)
<1> DEFINE out == IF gives THEN GiveUpReleases(data[d]) ELSE {}
<1>0. PICK half \in Halves : Update(d, old, gives, new, n, half)
  BY DEF Places
<1>1. /\ fault = "none" /\ held' = held /\ data' = [data EXCEPT ![d] = new]
      /\ state' = [m \in Native |-> IF gives /\ m \in GiveUpReleases(old) THEN "released"
                                     ELSE IF m = n THEN "live"
                                     ELSE IF m \in half THEN "half" ELSE state[m]]
      /\ fault' = IF gives THEN GiveUpFault(old) ELSE "none"
      /\ gives => old = data[d] /\ old.in # "free"
  BY <1>0 DEF Places, Update
<1>2. data \in [Data -> DataRec] /\ data[d] \in DataRec
  BY DEF BInv, TypeOK
<1>3. out \subseteq {data[d].val}
  BY DEF GiveUpReleases, ClearReleases
<1>4. ASSUME out # {}
      PROVE  Owner(data[d]) /\ data[d].val \in Native /\ state[data[d].val] = "live"
  <2>1. gives /\ ~data[d].ref /\ Clears(data[d]) /\ ClearFault(data[d]) = "none"
    BY <1>4 DEF GiveUpReleases, ClearReleases
  <2>2. Follow(data[d].val) = "none"
    BY <2>1 DEF ClearFault
  <2>3. data[d].val \notin Plain
    BY <2>2 DEF Follow
  <2>4. data[d].val \in Native /\ state[data[d].val] = "live"
    BY <1>2, <2>2, <2>3 DEF Follow, DataRec, Plain
  <2> QED
    BY <1>1, <2>1, <2>4 DEF Owner
<1>5. ASSUME gives, Owner(data[d]), fault' = "none"
      PROVE  out = {data[d].val}
  BY <1>1, <1>5 DEF Owner, GiveUpFault, GiveUpReleases, ClearReleases
<1>6. n = "none" \/ (n \in Native /\ state[n] = "unborn")
  BY FreshTyped
<1>7. n = "none" \/ n \notin out
  BY <1>3, <1>4, <1>6
<1>8. \A m \in Native :
        \/ state'[m] = IF m \in out THEN "released" ELSE IF m = n THEN "live" ELSE state[m]
        \/ m \notin out /\ m # n /\ state[m] = "unborn" /\ state'[m] = "half"
  <2>1. \A m \in half : state[m] = "unborn"
    BY FreshTyped DEF Halves
  <2> QED
    BY <1>1, <2>1
<1> HIDE DEF out
<1>9. Changes(d, new, n, gives, out)
  BY <1>1, <1>2, <1>3, <1>4, <1>5, <1>6, <1>7, <1>8 DEF Changes
<1> QED
  BY <1>3, <1>9

LEMMA SweptHeld ==
  ASSUME BInv, NEW s \in Source, SweepSource(s)
  PROVE  /\ fault = "none" /\ data' = data /\ held[s] \in Native
         /\ held'[s] = "gone" /\ \A u \in Source : u # s => held'[u] = held[u]
         /\ state'[held[s]] = "released"
         /\ \A n \in Native : n # held[s] => state'[n] = state[n]
BY NamesDiffer DEF SweepSource, BInv, TypeOK

LEMMA BornStep ==
  ASSUME BInv, [Next]_vars
  PROVE  BInv'
<1>1. ASSUME NEW d \in Data, SlotStep(d)
      PROVE  BInv'
  <2>1. PICK gives \in BOOLEAN, old \in DataRec, new \in DataRec, n \in Fresh :
          Places(d, gives, old, new, n)
    BY <1>1 DEF SlotStep
  <2>2. PICK out \in SUBSET {data[d].val} : Changes(d, new, n, gives, out)
    BY <2>1, Placed
  <2>3. TypeOK'
    <3>1. fault' \in {"none", "null", "wild", "double", "dangling"}
      BY <2>1 DEF Places, Update, GiveUpFault, ClearFault, Follow
    <3>2. /\ data' = [data EXCEPT ![d] = new] /\ held' = held
          /\ \E half : state' = [m \in Native |->
               IF gives /\ m \in GiveUpReleases(old) THEN "released"
               ELSE IF m = n THEN "live" ELSE IF m \in half THEN "half" ELSE state[m]]
      BY <2>1 DEF Places, Update
    <3> QED
      BY <3>1, <3>2 DEF BInv, TypeOK
  <2>4. \A m \in Native : state[m] # "unborn" \/ m = n => state'[m] # "unborn"
    BY <2>2 DEF Changes
  <2>5. new.val \in Native => state'[new.val] # "unborn"
    BY <2>1, <2>4 DEF Places
  <2>6. Born'
    BY <2>2, <2>4, <2>5 DEF Changes, BInv, Born
  <2> QED
    BY <2>3, <2>6 DEF BInv
<1>2. ASSUME NEW d \in Data, GetValue(d)
      PROVE  BInv'
  <2>1. fault' = Follow(data[d].val) /\ UNCHANGED <<data, held, state>>
    BY <1>2 DEF GetValue
  <2>2. fault' \in {"none", "null", "wild", "double", "dangling"}
    BY <2>1 DEF Follow
  <2> QED
    BY <2>1, <2>2 DEF BInv, TypeOK, Born
<1>3. ASSUME NEW s \in Source, SweepSource(s)
      PROVE  BInv'
  <2>1. TypeOK'
    BY <1>3 DEF SweepSource, BInv, TypeOK
  <2>2. Born'
    BY <1>3, SweptHeld, NamesDiffer DEF BInv, Born
  <2> QED
    BY <2>1, <2>2 DEF BInv
<1>4. CASE UNCHANGED vars
  BY <1>4 DEF vars, BInv, TypeOK, Born
<1> QED
  BY <1>1, <1>2, <1>3, <1>4, StepsAre

\* Without a bad type nothing live is forgotten.
LEMMA OwnedStep ==
  ASSUME BInv, ValueOwned, [Next]_vars, [\A d \in Data : ~SetTypeBad(d)]_vars
  PROVE  ValueOwned'
<1>1. ASSUME NEW d \in Data, SlotStep(d), ~SetTypeBad(d)
      PROVE  ValueOwned'
  <2>1. PICK gives \in BOOLEAN, old \in DataRec, new \in DataRec, n \in Fresh :
          Places(d, gives, old, new, n) /\ Remembers(d, gives, new)
    BY <1>1 DEF SlotStep
  <2>2. PICK out \in SUBSET {data[d].val} : Changes(d, new, n, gives, out)
    BY <2>1, Placed
  <2>3. ASSUME fault' = "none", NEW m \in Native, state'[m] = "live"
        PROVE  \/ \E s \in Source : held[s] = m
               \/ \E e \in Data : Owner(data'[e]) /\ data'[e].val = m
    <3>1. CASE m = n
      <4>1. Owner(new) /\ new.val = n
        BY <2>1, <3>1, NamesDiffer DEF Places, Update
      <4> QED
        BY <2>2, <3>1, <4>1 DEF Changes
    <3>2. CASE m # n
      <4>1. m \notin out /\ state[m] = "live"
        BY <2>2, <2>3, <3>2 DEF Changes
      <4>2. CASE \E s \in Source : held[s] = m
        BY <4>2
      <4>3. CASE \E e \in Data : Owner(data[e]) /\ data[e].val = m
        <5>1. PICK e \in Data : Owner(data[e]) /\ data[e].val = m
          BY <4>3
        <5>2. CASE e # d
          BY <2>2, <5>1, <5>2 DEF Changes
        <5>3. CASE e = d
          BY <2>1, <2>2, <2>3, <4>1, <5>1, <5>3 DEF Changes, Remembers
        <5> QED
          BY <5>2, <5>3
      <4> QED
        BY <2>2, <4>1, <4>2, <4>3 DEF Changes, ValueOwned, Owner
    <3> QED
      BY <3>1, <3>2
  <2> QED
    BY <2>2, <2>3 DEF Changes, ValueOwned, Owner, Clears
<1>2. ASSUME NEW d \in Data, GetValue(d)
      PROVE  ValueOwned'
  BY <1>2 DEF GetValue, ValueOwned, Clears
<1>3. ASSUME NEW s \in Source, SweepSource(s)
      PROVE  ValueOwned'
  <2>1. /\ fault = "none" /\ data' = data
        /\ \A u \in Source : u # s => held'[u] = held[u]
        /\ state'[held[s]] = "released"
        /\ \A n \in Native : n # held[s] => state'[n] = state[n]
    BY <1>3, SweptHeld
  <2>2. ASSUME NEW n \in Native, state'[n] = "live"
        PROVE  \/ \E u \in Source : held'[u] = n
               \/ \E d \in Data : data[d].in # "free" /\ data[d].val = n /\ ~data[d].ref /\ Clears(data[d])
    <3>1. n # held[s] /\ state[n] = "live"
      BY <2>1, <2>2
    <3> QED
      BY <2>1, <3>1 DEF ValueOwned
  <2> QED
    BY <2>1, <2>2 DEF ValueOwned, Clears
<1>4. CASE UNCHANGED vars
  BY <1>4 DEF vars, ValueOwned, Clears
<1> QED
  BY <1>1, <1>2, <1>3, <1>4, StepsAre
\* While no refused value is taken over, no value gets a second owner.
LEMMA ApartSlotStep ==
  ASSUME OInv, BInv', NEW d \in Data, NEW gives \in BOOLEAN, NEW old \in DataRec, NEW new \in DataRec,
         NEW n \in Fresh, Places(d, gives, old, new, n), OwnsItsOwn(d, gives, new, n)
  PROVE  OInv'
<1>0. BInv /\ SourcesRight /\ OwnersApart
  BY DEF OInv
<1>1. PICK out \in SUBSET {data[d].val} : Changes(d, new, n, gives, out)
  BY <1>0, Placed
<1>2. /\ held' = held /\ data'[d] = new /\ \A e \in Data : e # d => data'[e] = data[e]
      /\ n # "none" => n \in Native /\ state'[n] = "live"
      /\ \A m \in Native : m # n /\ m \notin out /\ state[m] # "unborn" => state'[m] = state[m]
  BY <1>1 DEF Changes
<1>3. /\ held \in [Source -> Native \cup {"gone"}] /\ "none" \notin Native
      /\ n # "none" => state[n] = "unborn"
  BY <1>0, <1>1, NamesDiffer DEF BInv, TypeOK, Changes
<1>4. \A m \in out : Owner(data[d]) /\ data[d].val \in Native /\ m = data[d].val
  BY <1>1 DEF Changes
<1>5. ASSUME NEW s \in Source, held[s] # "gone"
      PROVE  held[s] \in Native /\ held[s] # n /\ state'[held[s]] = "live"
  <2>1. held[s] \in Native /\ state[held[s]] = "live"
    BY <1>0, <1>3, <1>5 DEF SourcesRight
  <2>2. held[s] # n
    BY <1>3, <2>1
  <2>3. held[s] \notin out
    BY <1>0, <1>4 DEF OwnersApart
  <2> QED
    BY <1>2, <2>1, <2>2, <2>3
<1>6. SourcesRight'
  BY <1>0, <1>2, <1>5 DEF SourcesRight
<1>7. ASSUME NEW e \in Data, e # d, Owner(data[e]), data[e].val \in Native
      PROVE  /\ state'[data[e].val] = "live" /\ data[e].val # n
             /\ Owner(data[d]) => data[d].val # data[e].val
  <2>1. state[data[e].val] = "live" /\ (Owner(data[d]) => data[d].val # data[e].val)
    BY <1>0, <1>7 DEF OwnersApart
  <2>2. data[e].val # n /\ data[e].val \notin out
    BY <1>3, <1>4, <1>7, <2>1
  <2> QED
    BY <1>2, <1>7, <2>1, <2>2
<1>8. ASSUME Owner(new), new.val \in Native
      PROVE  /\ state'[new.val] = "live" /\ \A s \in Source : held[s] # new.val
             /\ \A e \in Data : e # d /\ Owner(data[e]) => data[e].val # new.val
  <2>1. CASE n # "none" /\ new.val = n
    <3>1. \A s \in Source : held[s] # n
      BY <1>5, <1>8, <2>1, NamesDiffer
    <3> QED
      BY <1>2, <1>7, <1>8, <2>1, <3>1
  <2>2. CASE ~gives /\ Owner(data[d]) /\ new.val = data[d].val
    <3>1. state[new.val] = "live" /\ \A s \in Source : held[s] # new.val
      BY <1>0, <1>8, <2>2 DEF OwnersApart
    <3>2. new.val # n
      BY <1>3, <1>8, <3>1
    <3>3. new.val \notin out
      <4>1. Places(d, FALSE, old, new, n)
        BY <2>2
      <4>2. state'[new.val] # "released"
        BY <1>8, <3>1, <4>1 DEF Places, Update
      <4> QED
        BY <1>1, <1>8, <4>2 DEF Changes
    <3> QED
      BY <1>2, <1>7, <1>8, <2>2, <3>1, <3>2, <3>3
  <2> QED
    BY <1>8, <2>1, <2>2 DEF OwnsItsOwn
<1>9. ASSUME NEW e \in Data, Owner(data'[e]), data'[e].val \in Native
      PROVE  /\ state'[data'[e].val] = "live"
             /\ \A f \in Data : Owner(data'[f]) /\ data'[f].val = data'[e].val => f = e
             /\ \A s \in Source : held'[s] # data'[e].val
  <2>1. CASE e = d
    BY <1>2, <1>8, <1>9, <2>1
  <2>2. CASE e # d
    <3>1. data'[e] = data[e]
      BY <1>2, <2>2
    <3>2. /\ state'[data[e].val] = "live" /\ \A s \in Source : held'[s] # data[e].val
          /\ \A f \in Data : Owner(data[f]) /\ data[f].val = data[e].val => f = e
      BY <1>0, <1>2, <1>7, <1>9, <2>2, <3>1 DEF OwnersApart
    <3>3. Owner(new) => new.val # data[e].val
      BY <1>8, <1>9, <2>2, <3>1
    <3> QED
      BY <1>2, <2>2, <3>1, <3>2, <3>3
  <2> QED
    BY <2>1, <2>2
<1>10. OwnersApart'
  BY <1>9 DEF OwnersApart, Owner, Clears
<1> QED
  BY <1>6, <1>10 DEF OInv

LEMMA ApartStep ==
  ASSUME OInv, [Next]_vars, [\A d \in Data : ~LateRefusal(d)]_vars
  PROVE  OInv'
<1>0. BInv /\ BInv' /\ SourcesRight /\ OwnersApart
  BY BornStep DEF OInv
<1>1. ASSUME NEW d \in Data, SlotStep(d), ~LateRefusal(d)
      PROVE  OInv'
  <2>1. PICK gives \in BOOLEAN, old \in DataRec, new \in DataRec, n \in Fresh :
          Places(d, gives, old, new, n) /\ OwnsItsOwn(d, gives, new, n)
    BY <1>1 DEF SlotStep
  <2> QED
    BY <1>0, <2>1, ApartSlotStep
<1>2. ASSUME NEW d \in Data, GetValue(d)
      PROVE  OInv'
  BY <1>0, <1>2 DEF GetValue, OInv, SourcesRight, OwnersApart, Owner, Clears
<1>3. ASSUME NEW s \in Source, SweepSource(s)
      PROVE  OInv'
  <2>1. /\ data' = data /\ held[s] \in Native
        /\ held'[s] = "gone" /\ \A u \in Source : u # s => held'[u] = held[u]
        /\ \A n \in Native : n # held[s] => state'[n] = state[n]
        /\ \A n \in Native : n # "gone"
    BY <1>0, <1>3, SweptHeld, NamesDiffer
  <2>2. held[s] # "gone"
    BY <2>1
  <2>3. SourcesRight'
    <3>1. ASSUME NEW u \in Source, held'[u] # "gone"
          PROVE  /\ held'[u] = held[u] /\ state'[held[u]] = "live"
                 /\ \A w \in Source : held'[w] = held[u] => w = u
      <4>1. u # s /\ held'[u] = held[u] /\ held[u] # "gone"
        BY <2>1, <3>1
      <4>2. held[u] \in Native /\ held[u] # held[s] /\ state[held[u]] = "live"
        BY <1>0, <2>2, <4>1 DEF BInv, TypeOK, SourcesRight
      <4>3. \A w \in Source : held[w] = held[u] => w = u
        BY <1>0, <4>1 DEF SourcesRight
      <4> QED
        BY <2>1, <4>1, <4>2, <4>3
    <3> QED
      BY <3>1 DEF SourcesRight
  <2>4. ASSUME NEW d \in Data, Owner(data[d]), data[d].val \in Native
        PROVE  /\ state'[data[d].val] = "live"
               /\ \A e \in Data : Owner(data[e]) /\ data[e].val = data[d].val => e = d
               /\ \A u \in Source : held'[u] # data[d].val
    BY <1>0, <2>1, <2>4 DEF OwnersApart
  <2>5. OwnersApart'
    BY <2>1, <2>4 DEF OwnersApart, Owner, Clears
  <2> QED
    BY <1>0, <2>3, <2>5 DEF OInv
<1>4. CASE UNCHANGED vars
  BY <1>0, <1>4 DEF vars, OInv, SourcesRight, OwnersApart, Owner, Clears
<1> QED
  BY <1>0, <1>1, <1>2, <1>3, <1>4, StepsAre

\* A source keeps its handle until it is gone.
LEMMA HeldKept ==
  ASSUME BInv, [Next]_vars, NEW s \in Source
  PROVE  held'[s] \in {held[s], "gone"}
<1>1. ASSUME NEW d \in Data, SlotStep(d) \/ GetValue(d)
      PROVE  held' = held
  BY <1>1 DEF SlotStep, Places, Update, GetValue
<1>2. ASSUME NEW u \in Source, SweepSource(u)
      PROVE  held'[s] \in {held[s], "gone"}
  BY <1>2, SweptHeld
<1>3. CASE UNCHANGED vars
  BY <1>3 DEF vars
<1> QED
  BY <1>1, <1>2, <1>3, StepsAre

LEMMA InitAll == Init => OInv /\ ValueOwned
<1> SUFFICES ASSUME Init PROVE OInv /\ ValueOwned
  OBVIOUS
<1>1. /\ \A d \in Data : data[d] = NoData
      /\ held \in [Source -> Native] /\ \A s, u \in Source : held[s] = held[u] => s = u
      /\ state = [n \in Native |-> IF \E s \in Source : held[s] = n THEN "live" ELSE "unborn"]
  BY DEF Init
<1>2. TypeOK
  BY NewDataTyped DEF Init, TypeOK
<1>3. Born /\ SourcesRight
  BY <1>1, NewDataTyped DEF Born, SourcesRight
<1>4. OwnersApart
  BY <1>1, NewDataTyped DEF OwnersApart, Owner
<1>5. ValueOwned
  BY <1>1 DEF ValueOwned
<1> QED
  BY <1>2, <1>3, <1>4, <1>5 DEF OInv, BInv

-----------------------------------------------------------------------------
\* The records stay of their types, and no data object refers to a value that
\* was never allocated, for every program.
THEOREM TypeCorrect == Spec => [](TypeOK /\ Born)
<1>1. Init => BInv
  BY InitAll DEF OInv
<1>2. BInv /\ [Next]_vars => BInv'
  BY BornStep
<1>3. BInv => TypeOK /\ Born
  BY DEF BInv
<1> QED
  BY <1>1, <1>2, <1>3, PTL DEF Spec

\* A program that sets types with types forgets no value a data object owned,
\* whatever values it assigns and however many of them are refused; all that
\* is lost are arrays left half-filled, which no data object ever owned
\* (clear_cimdata, do_set_value, do_set_type, sfcc_rubyarray_to_cimcarray).
THEOREM OnlyBadTypesForget == Spec /\ TypesAreTypes => []ValueOwned
<1>1. Init => BInv /\ ValueOwned
  BY InitAll DEF OInv
<1>2. /\ BInv /\ ValueOwned
      /\ [Next]_vars /\ [\A d \in Data : ~SetTypeBad(d)]_vars
      => (BInv /\ ValueOwned)'
  BY BornStep, OwnedStep
<1> QED
  BY <1>1, <1>2, PTL DEF Spec, TypesAreTypes

LEMMA ApartAlways == Spec /\ NoLateRefusal => []OInv
<1>1. Init => OInv
  BY InitAll
<1>2. OInv /\ [Next]_vars /\ [\A d \in Data : ~LateRefusal(d)]_vars => OInv'
  BY ApartStep
<1> QED
  BY <1>1, <1>2, PTL DEF Spec, NoLateRefusal

\* As long as the program gives no data object a value that it refuses late,
\* no native value gets a second owner, whatever else fails (do_set_value).
THEOREM OnlyRefusalsShare == Spec /\ NoLateRefusal => []OneOwner
<1>1. OInv => OneOwner
  BY DEF OInv, OwnersApart, OneOwner, Owner
<1> QED
  BY <1>1, ApartAlways, PTL

\* Nor is the handle of a source released by anybody else while the source is
\* there (do_set_value, dealloc).
THEOREM OnlyRefusalsHarmSources == Spec /\ NoLateRefusal => SourceSafe
<1>1. OInv /\ OInv' /\ [Next]_vars =>
        [\A s \in Source : held'[s] # "gone" => state'[held[s]] = state[held[s]]]_vars
  <2> SUFFICES ASSUME OInv, OInv', [Next]_vars, NEW s \in Source, held'[s] # "gone"
               PROVE  state'[held[s]] = state[held[s]]
    OBVIOUS
  <2>1. held'[s] = held[s]
    BY HeldKept DEF OInv
  <2> QED
    BY <2>1 DEF OInv, SourcesRight
<1> QED
  BY <1>1, ApartAlways, PTL DEF Spec, SourceSafe
=============================================================================

--------------------------- MODULE CimDataProofs ---------------------------
(***************************************************************************)
(* Theorems about CimData: for any number of data objects, sources and     *)
(* values, every value has one owner, and a source's value is released by  *)
(* the source alone.                                                       *)
(*                                                                         *)
(* A Ruby array that is refused breaks this, so the program either gives   *)
(* only what can be converted or uses no arrays.                           *)
(***************************************************************************)
EXTENDS CimData, TLAPS

NoArraysUsed == Values \cap Arrays = {} /\ \A t \in Types : ~IsArray(t)
Regular == Careful \/ NoArraysUsed

\* The struct owns the value in its union.
Owner(r) == r.in # "free" /\ ~r.ref /\ Clears(r)

\* A record the program can make.
Fits(r) == r \in DataRec /\ (Careful \/ ~IsArray(r.type))

\* A good value is stored, and it is there as long as its source is held.
Stored(r) ==
  Careful /\ r.in = "use" /\ r.state = "good" =>
    /\ IF Owning(r.type) THEN r.val \in Native ELSE "boolean" \notin Values => r.val = "number"
    /\ "boolean" \notin Values => r.from = r.given

Kept(r, hs) ==
  Careful /\ KeepSources /\ r.in = "use" /\ Clears(r) /\ r.ref => \E s \in Source : hs[s] = r.val

\* A source's handle is live and no other source's.
SourcesRight ==
  \A s \in Source : held[s] # "gone" =>
    state[held[s]] = "live" /\ \A u \in Source : held[u] = held[s] => u = s

\* An owned value is live and nobody else's.
OwnersRight ==
  \A d \in Data : Owner(data[d]) =>
    /\ data[d].val \in Native /\ state[data[d].val] = "live"
    /\ \A e \in Data : Owner(data[e]) /\ data[e].val = data[d].val => e = d
    /\ \A s \in Source : held[s] # data[d].val

RecordsRight ==
  \A d \in Data :
    /\ Fits(data[d]) /\ Stored(data[d]) /\ Kept(data[d], held)
    /\ data[d].val \in Native => state[data[d].val] # "unborn"

\* Nothing that is live is forgotten.
AllOwned ==
  Careful => \A n \in Native : state[n] = "live" =>
    \/ \E s \in Source : held[s] = n
    \/ \E d \in Data : Owner(data[d]) /\ data[d].val = n

IInv ==
  /\ TypeOK /\ SourcesRight /\ OwnersRight /\ RecordsRight /\ AllOwned
  /\ Careful /\ KeepSources => fault = "none"

-----------------------------------------------------------------------------
(***************************************************************************)
(* Types.                                                                  *)
(***************************************************************************)

LEMMA OwningScalars ==
  ASSUME NEW t \in {Scalar(x) : x \in {"instance", "ref", "class", "enumeration", "string",
                                      "chars", "dateTime", "charsptr"}}
  PROVE  t \cap {0, 1, 3, 6, 7} = {} /\ t # Scalar("boolean") /\ t # {}
BY DEF Scalar, Code

LEMMA NumericBits ==
  ASSUME NEW t, Numeric(t)
  PROVE  t \cap {0, 1, 3, 6, 7} # {}
BY DEF Numeric, Has, Uint, Sint, Real, Code

\* No scalar is a number and a pointer.
LEMMA NumbersAreNotOwned ==
  ASSUME NEW t, ~IsArray(t), Numeric(t) \/ t = Scalar("boolean") \/ t = {}
  PROVE  ~Owning(t)
<1>1. IsArray(t) \/ t \notin {Scalar(x) : x \in {"instance", "ref", "class", "enumeration", "string",
                                      "chars", "dateTime", "charsptr"}}
  BY OwningScalars, NumericBits
<1> QED
  BY <1>1 DEF Owning

LEMMA NoArrayTypes == \A x \in DOMAIN Code : ~IsArray(Scalar(x))
BY DEF IsArray, Scalar, Code, ArrayBit

LEMMA TextIsOwned ==
  ASSUME NEW t, Text(t)
  PROVE  Owning(t) /\ ~Numeric(t) /\ ~IsArray(t) /\ t # Scalar("boolean")
<1>1. t \in {Scalar(x) : x \in {"instance", "ref", "class", "enumeration", "string",
                                "chars", "dateTime", "charsptr"}}
  BY DEF Text
<1>2. ~IsArray(t)
  BY NoArrayTypes DEF Text, Code
<1> QED
  BY <1>1, <1>2, OwningScalars, NumericBits DEF Owning

LEMMA TypesUsed ==
  /\ {} \in CimType /\ ~IsArray({})
  /\ \A x \in {"instance", "string", "boolean", "sint64"} : Scalar(x) \in CimType /\ ~IsArray(Scalar(x))
  /\ \A x \in {"string", "sint64"} : Array(x) \in CimType /\ IsArray(Array(x)) /\ Owning(Array(x))
  /\ Owning(Scalar("instance")) /\ Owning(Scalar("string"))
  /\ ~Owning(Scalar("boolean")) /\ ~Owning(Scalar("sint64")) /\ ~Owning({})
<1>1. {} = Scalar("null") /\ \A x \in {"null", "instance", "string", "boolean", "sint64"} : x \in DOMAIN Code
  BY DEF Scalar, Code
<1>2. \A x \in {"string", "sint64"} : x \in DOMAIN Code \ {"null", "class", "enumeration"}
  BY DEF Code
<1>3. \A x \in {"string", "sint64"} : Array(x) \in CimType /\ IsArray(Array(x)) /\ Owning(Array(x))
  BY <1>2 DEF CimType, Array, IsArray, Owning
<1>4. \A x \in {"null", "instance", "string", "boolean", "sint64"} : Scalar(x) \in CimType /\ ~IsArray(Scalar(x))
  BY <1>1, NoArrayTypes DEF CimType
<1>5. Numeric(Scalar("sint64"))
  BY DEF Numeric, Has, Scalar, Code, Uint, Sint, Real
<1>6. ~Owning(Scalar("boolean")) /\ ~Owning(Scalar("sint64")) /\ ~Owning({})
  BY <1>1, <1>4, <1>5, NumbersAreNotOwned
<1> QED
  BY <1>1, <1>3, <1>4, <1>6 DEF Owning
-----------------------------------------------------------------------------
(***************************************************************************)
(* What an assignment makes of a struct whose value was given up.          *)
(***************************************************************************)

LEMMA NamesDiffer ==
  /\ \A n \in Native : n \notin Plain /\ n # "none" /\ n # "gone" /\ n \notin Source
  /\ \A s \in Source : s \notin Unwrapped
BY SourceAssumption, NativeAssumption

\* The struct the value is put into.
Blank(r) == Fits(r) /\ ~r.ref /\ (r.val \in Native => state[r.val] # "unborn")

\* The struct an assignment of v starts to work on, a refused one, and nil's.
Asked(r, v) == [r EXCEPT !.state = "good", !.given = v, !.from = "none"]
Refused(g) == [g EXCEPT !.state = "bad", !.given = "none"]
Emptied(g) == [g EXCEPT !.state = "null", !.given = "none"]

LEMMA AskedIs ==
  ASSUME NEW r \in DataRec, NEW v \in Values, NEW g, g = Asked(r, v)
  PROVE  /\ g \in DataRec /\ g.type = r.type /\ g.in = r.in /\ g.val = r.val /\ g.ref = r.ref
         /\ g.state = "good" /\ g.given = v /\ v \in Value
BY InputAssumption DEF Asked, DataRec

LEMMA RefusedIs ==
  ASSUME NEW g \in DataRec, NEW rec \in {Refused(g), Emptied(g)}
  PROVE  /\ rec \in DataRec /\ rec.type = g.type /\ rec.in = g.in /\ rec.val = g.val
         /\ rec.ref = g.ref /\ rec.state = IF rec = Refused(g) THEN "bad" ELSE "null"
BY DEF DataRec, Refused, Emptied

\* What may come out: rec from r, with the fresh value n.
Outcome(rec, r, n) ==
  /\ rec \in DataRec /\ rec.in = r.in
  /\ Careful \/ ~IsArray(rec.type)
  /\ Stored(rec)
  /\ rec.ref => \E s \in Source : held[s] # "gone" /\ rec.val = held[s]
  /\ ~rec.ref /\ Clears(rec) => rec.val = n /\ n # "none"
  /\ Careful /\ n # "none" => ~rec.ref /\ Clears(rec)
  /\ rec.val \in Native => rec.val = n \/ state[rec.val] # "unborn"

\* A value that may be put into a struct of the type, and what is allocated
\* for it.
Assignable(v, type, n) ==
  v \in Values /\ n \in Fresh /\ Available(v) /\ (Careful => Convertible(v, type))

LEMMA FreshTyped ==
  ASSUME NEW n \in Fresh
  PROVE  n = "none" \/ (n \in Native /\ state[n] = "unborn")
BY DEF Fresh

\* Strings and numbers: they go into structs of text and number types, and are
\* converted in the former case only.
LEMMA ScalarOutcome ==
  ASSUME Regular, NEW r, Blank(r), NEW v, NEW n, Assignable(v, r.type, n),
         v \in {"string", "word", "number", "huge"},
         NEW rec, rec = AssignScalar(Asked(r, v), v, n).rec,
         rec.val # "none", n # "none" => rec.val = n
  PROVE  Outcome(rec, r, n)
<1> DEFINE g == Asked(r, v)
<1>0. /\ g \in DataRec /\ g.type = r.type /\ g.in = r.in /\ g.val = r.val /\ ~g.ref /\ g.state = "good"
      /\ Careful \/ ~IsArray(r.type)
      /\ r.val \in Native => state[r.val] # "unborn"
      /\ g.given = v /\ v \in Value
  BY AskedIs DEF Blank, Fits, Assignable
<1>1. n = "none" \/ (n \in Native /\ n \notin Plain)
  BY FreshTyped, NamesDiffer DEF Assignable
<1>2. Careful => (Numeric(r.type) \/ Text(r.type)) /\ (v = "word" => Text(r.type)) /\ v # "huge"
                 /\ ~IsArray(r.type)
  BY TextIsOwned, NamesDiffer DEF Assignable, Convertible, Arrays, Unwrapped
<1>3. CASE Numeric(r.type)
  <2>1. ~IsArray(r.type) /\ ~Owning(r.type)
    BY <1>0, <1>2, <1>3, NumbersAreNotOwned
  <2>2. rec = g \/ rec = [g EXCEPT !.val = "number", !.from = v]
    BY <1>0, <1>3 DEF AssignScalar, Ok, Raise
  <2>3. Careful => rec = [g EXCEPT !.val = "number", !.from = v]
    BY <1>0, <1>2, <1>3, TextIsOwned DEF AssignScalar, Ok, Raise
  <2>4. /\ rec \in DataRec /\ rec.in = r.in /\ rec.type = r.type /\ ~rec.ref /\ rec.val \in {r.val, "number"}
        /\ Careful => rec.val = "number" /\ rec.from = rec.given
    BY <1>0, <2>2, <2>3 DEF DataRec, Plain
  <2>5. Careful => n = "none"
    BY <1>1, <2>4 DEF Plain
  <2>6. rec.val \in Native => state[rec.val] # "unborn"
    BY <1>0, <2>4, NamesDiffer DEF Plain
  <2> QED
    BY <1>0, <2>1, <2>4, <2>5, <2>6 DEF Outcome, Stored, Clears
<1>4. CASE ~Numeric(r.type) /\ Text(r.type)
  <2>1. rec = [g EXCEPT !.val = n, !.from = v]
    BY <1>0, <1>4 DEF AssignScalar, Ok
  <2>2. rec.val = n /\ n # "none" /\ n \in Native
    BY <1>0, <1>1, <2>1 DEF DataRec
  <2>3. /\ rec \in DataRec /\ rec.in = r.in /\ rec.type = r.type /\ ~rec.ref /\ rec.state = "good"
        /\ rec.from = rec.given
    BY <1>0, <2>1, <2>2 DEF DataRec
  <2> QED
    BY <1>0, <1>4, <2>2, <2>3, TextIsOwned DEF Outcome, Stored, Clears
<1>5. CASE ~Numeric(r.type) /\ ~Text(r.type)
  <2>1. rec = Refused(g) /\ ~Careful
    BY <1>0, <1>2, <1>5 DEF AssignScalar, Bad, Raise, Refused
  <2>2. /\ rec \in DataRec /\ rec.in = r.in /\ rec.type = r.type /\ ~rec.ref /\ rec.state = "bad"
        /\ rec.val = r.val
    BY <1>0, <2>1, RefusedIs
  <2> QED
    BY <1>0, <2>1, <2>2 DEF Outcome, Stored, Clears
<1> QED
  BY <1>3, <1>4, <1>5

LEMMA ArrayOutcome ==
  ASSUME Regular, NEW r, Blank(r), NEW v, NEW n, Assignable(v, r.type, n), v \in Arrays,
         NEW rec, rec = AssignArray(Asked(r, v), v, n).rec,
         rec.val # "none", n # "none" => rec.val = n
  PROVE  Outcome(rec, r, n)
<1> DEFINE g == Asked(r, v)
<1>0. /\ g \in DataRec /\ g.type = r.type /\ g.in = r.in /\ g.val = r.val /\ ~g.ref /\ g.state = "good"
      /\ g.given = v /\ v \in Value
  BY AskedIs DEF Blank, Fits, Assignable
<1>1. Careful
  BY DEF Regular, NoArraysUsed, Assignable
<1>2. \/ v = "strings" /\ r.type = Array("string")
      \/ v = "numbers" /\ r.type = Array("sint64")
  BY <1>1, NamesDiffer DEF Assignable, Convertible, Arrays, Unwrapped
<1>3. IsArray(r.type) /\ Owning(r.type) /\ r.type \in CimType
  BY <1>2, TypesUsed
<1>4. rec = [g EXCEPT !.val = n, !.type = r.type, !.from = v]
  BY <1>0, <1>2, <1>3 DEF AssignArray, Ok
<1>5. n \in Native /\ rec.val = n
  BY <1>0, <1>4, FreshTyped DEF Assignable, DataRec
<1>6. /\ rec \in DataRec /\ rec.in = r.in /\ rec.type = r.type /\ ~rec.ref /\ rec.state = "good"
      /\ rec.from = rec.given
  BY <1>0, <1>4, <1>5 DEF DataRec
<1> QED
  BY <1>1, <1>3, <1>5, <1>6, NamesDiffer DEF Outcome, Stored, Clears

LEMMA SourceOutcome ==
  ASSUME Regular, TypeOK, NEW r, Blank(r), NEW v, NEW n, Assignable(v, r.type, n), v \in Source,
         SourcesRight,
         NEW rec, rec = AssignSource(Asked(r, v), v).rec,
         rec.val # "none", n # "none" => rec.val = n
  PROVE  Outcome(rec, r, n)
<1> DEFINE g == Asked(r, v)
<1>0. /\ g \in DataRec /\ g.type = r.type /\ g.in = r.in /\ g.val = r.val /\ ~g.ref /\ g.state = "good"
      /\ Careful \/ ~IsArray(r.type)
      /\ r.val \in Native => state[r.val] # "unborn"
      /\ g.given = v /\ v \in Value
  BY AskedIs DEF Blank, Fits, Assignable
<1>1. held[v] \in Native /\ held[v] # "gone" /\ state[held[v]] = "live"
  BY NamesDiffer DEF Assignable, Available, TypeOK, SourcesRight
<1>2. CASE r.type = SourceType[v]
  <2>1. rec = [g EXCEPT !.val = held[v], !.ref = TRUE, !.from = v]
    BY <1>0, <1>2 DEF AssignSource, Ok
  <2>2. /\ rec \in DataRec /\ rec.in = r.in /\ rec.type = r.type /\ rec.ref /\ rec.state = "good"
        /\ rec.val = held[v] /\ rec.from = rec.given
    BY <1>0, <1>1, <2>1 DEF DataRec
  <2>3. n = "none"
    BY <1>1, <2>2, FreshTyped DEF Assignable
  <2>4. Owning(r.type)
    BY <1>2, SourceAssumption, TypesUsed
  <2> QED
    BY <1>0, <1>1, <2>2, <2>3, <2>4 DEF Outcome, Stored
<1>3. CASE r.type # SourceType[v]
  <2>1. rec = Refused(g) /\ ~Careful
    BY <1>0, <1>3, NamesDiffer DEF AssignSource, Bad, Raise, Assignable, Convertible, Unwrapped, Refused
  <2>2. /\ rec \in DataRec /\ rec.in = r.in /\ rec.type = r.type /\ ~rec.ref /\ rec.state = "bad"
        /\ rec.val = r.val
    BY <1>0, <2>1, RefusedIs
  <2> QED
    BY <1>0, <2>1, <2>2 DEF Outcome, Stored, Clears
<1> QED
  BY <1>2, <1>3
\* nil leaves the union as it is, and so does a boolean, which is not stored;
\* nothing else can be a value.
LEMMA OtherOutcome ==
  ASSUME Regular, NEW r, Blank(r), NEW v, NEW n, Assignable(v, r.type, n),
         v \in {"nil", "boolean", "other"},
         NEW rec, rec.val # "none", n # "none" => rec.val = n,
         NEW g, g = Asked(r, v),
         \/ rec \in {Emptied(g), Refused(g)}
         \/ v = "boolean" /\ rec = g /\ g.type = Scalar("boolean")
  PROVE  Outcome(rec, r, n)
<1>1. /\ rec \in DataRec /\ rec.in = r.in /\ rec.type = r.type /\ ~rec.ref /\ rec.val = r.val
      /\ rec.state = "good" => v = "boolean" /\ r.type = Scalar("boolean")
  BY AskedIs, RefusedIs DEF Blank, Fits, Assignable
<1>2. ~Clears(rec)
  BY <1>1, TypesUsed DEF Clears
<1>3. n = "none"
  BY <1>1, FreshTyped DEF Assignable, Blank, Fits
<1>4. Stored(rec)
  BY <1>1, TypesUsed DEF Stored, Assignable
<1> QED
  BY <1>1, <1>2, <1>3, <1>4 DEF Outcome, Blank, Fits

LEMMA AssignOutcome ==
  ASSUME Regular, TypeOK, SourcesRight, NEW r, Blank(r), NEW v, NEW n, Assignable(v, r.type, n),
         NEW rec, rec = Assign(r, v, n).rec, rec.val # "none", n # "none" => rec.val = n
  PROVE  Outcome(rec, r, n)
<1> DEFINE g == Asked(r, v)
<1>1. v \in Unwrapped \cup Source
  BY InputAssumption DEF Assignable, Value
<1>2. CASE v \in {"string", "word", "number", "huge"}
  <2>1. Assign(r, v, n) = AssignScalar(g, v, n)
    BY <1>2, NamesDiffer DEF Assign, Arrays, Unwrapped, Asked
  <2> QED
    BY <1>2, <2>1, ScalarOutcome
<1>3. CASE v \in Arrays
  <2>1. Assign(r, v, n) = AssignArray(g, v, n)
    BY <1>3, NamesDiffer DEF Assign, Arrays, Unwrapped, Asked
  <2> QED
    BY <1>3, <2>1, ArrayOutcome
<1>4. CASE v \in Source
  <2>1. Assign(r, v, n) = AssignSource(g, v)
    BY <1>4, NamesDiffer DEF Assign, Arrays, Unwrapped, Asked
  <2> QED
    BY <1>4, <2>1, SourceOutcome
<1>5. CASE v = "nil"
  <2>1. Assign(r, v, n) = Ok(Emptied(g))
    BY <1>5, NamesDiffer DEF Assign, Arrays, Unwrapped, Asked, Emptied
  <2>2. rec = Emptied(g)
    BY <2>1 DEF Ok
  <2> QED
    BY <1>5, <2>2, OtherOutcome
<1>6. CASE v = "boolean"
  <2>1. Assign(r, v, n) = IF g.type = Scalar("boolean") THEN Ok(g) ELSE Bad(g)
    BY <1>6, NamesDiffer DEF Assign, Arrays, Unwrapped, Asked
  <2>2. (g.type = Scalar("boolean") /\ rec = g) \/ rec = Refused(g)
    BY <2>1 DEF Ok, Bad, Raise, Refused
  <2> QED
    BY <1>6, <2>2, OtherOutcome
<1>7. CASE v = "other"
  <2>1. Assign(r, v, n) = Bad(g)
    BY <1>7, NamesDiffer DEF Assign, Arrays, Unwrapped, Asked
  <2>2. rec = Refused(g)
    BY <2>1 DEF Bad, Raise, Refused
  <2> QED
    BY <1>7, <2>2, OtherOutcome
<1> QED
  BY <1>1, <1>2, <1>3, <1>4, <1>5, <1>6, <1>7 DEF Unwrapped, Arrays

LEMMA GivenUpBlank ==
  ASSUME NEW r, Fits(r), r.val \in Native => state[r.val] # "unborn"
  PROVE  Blank(GiveUp(r)) /\ GiveUp(r).in = r.in /\ GiveUp(r).type = r.type
<1> DEFINE c == IF r.ref THEN r ELSE Cleared(r)
<1>1. /\ c \in DataRec /\ c.in = r.in /\ c.type = r.type
      /\ c.val = r.val \/ c.val = "zero"
  BY DEF Fits, Cleared, Clears, DataRec, Plain
<1>2. GiveUp(r) = [c EXCEPT !.ref = FALSE]
  BY DEF GiveUp
<1> QED
  BY <1>1, <1>2, NamesDiffer DEF Blank, Fits, DataRec, Clears, Plain
-----------------------------------------------------------------------------
(***************************************************************************)
(* Steps.                                                                  *)
(***************************************************************************)

\* What is given up is released if it was owned, and nothing goes wrong.
LEMMA GiveUpOwned ==
  ASSUME IInv, NEW d \in Data, data[d].in # "free"
  PROVE  /\ GiveUpFault(data[d]) = "none"
         /\ GiveUpReleases(data[d]) = IF Owner(data[d]) THEN {data[d].val} ELSE {}
<1>1. CASE Owner(data[d])
  <2>1. data[d].val \in Native /\ state[data[d].val] = "live"
    BY <1>1 DEF IInv, OwnersRight
  <2>2. Follow(data[d].val) = "none"
    BY <2>1, NamesDiffer DEF Follow, Plain
  <2> QED
    BY <1>1, <2>2 DEF Owner, GiveUpFault, GiveUpReleases, ClearFault, ClearReleases
<1>2. CASE ~Owner(data[d])
  BY <1>2 DEF Owner, GiveUpFault, GiveUpReleases, ClearFault, ClearReleases
<1> QED
  BY <1>1, <1>2

\* Values that were not there before.
Halves == SUBSET (Fresh \ {"none"})

LEMMA HalfFresh ==
  /\ {} \in Halves
  /\ \A v, made : Half(v, made) \subseteq Halves
BY DEF Half, Halves

\* A step that puts a record into slot d, having given up the value of the old
\* one or kept it, with a fresh value or without, and with others that are lost.
LEMMA UpdateInv ==
  ASSUME IInv, NEW d \in Data, NEW gives \in BOOLEAN, NEW old, NEW new, NEW n \in Fresh,
         NEW half \in Halves, Update(d, old, gives, new, n, half),
         gives => old = data[d] /\ old.in # "free",
         Fits(new), Stored(new), Kept(new, held),
         new.val \in Native => new.val = n \/ state[new.val] # "unborn",
         Owner(new) => \/ n # "none" /\ new.val = n
                       \/ ~gives /\ Owner(data[d]) /\ new.val = data[d].val,
         Careful /\ ~gives /\ Owner(data[d]) => Owner(new) /\ new.val = data[d].val,
         Careful /\ n # "none" => Owner(new)
  PROVE  IInv'
<1> DEFINE out == IF gives /\ Owner(data[d]) THEN {data[d].val} ELSE {}
<1>1. /\ held' = held /\ data' = [data EXCEPT ![d] = new] /\ fault' = "none"
      /\ state' = [m \in Native |-> IF m \in out THEN "released"
                                     ELSE IF m = n THEN "live"
                                     ELSE IF m \in half THEN "half" ELSE state[m]]
      /\ n # "none" => new.val = n
  BY GiveUpOwned DEF Update
<1>2. n = "none" \/ (n \in Native /\ state[n] = "unborn")
  BY FreshTyped
<1>3. n \notin out /\ \A m \in Native : m # n \/ n \in Native
  BY <1>2, NamesDiffer DEF IInv, OwnersRight
<1>11. \A m \in half : state[m] = "unborn"
  BY FreshTyped DEF Halves
<1>4. /\ data \in [Data -> DataRec] /\ held \in [Source -> Native \cup {"gone"}]
      /\ state \in [Native -> {"unborn", "live", "released", "half"}]
      /\ data'[d] = new /\ \A e \in Data : e # d => data'[e] = data[e]
      /\ "none" \notin Native /\ "gone" \notin Native
  BY <1>1, NamesDiffer DEF IInv, TypeOK
<1>5. TypeOK'
  BY <1>1, <1>4 DEF TypeOK, Fits
<1>6. \A m \in Native : m # n /\ m \notin out /\ state[m] # "unborn" => state'[m] = state[m]
  BY <1>1, <1>11
<1>7. SourcesRight'
  <2>1. ASSUME NEW s \in Source, held[s] # "gone"
        PROVE  held[s] \in Native /\ held[s] # n /\ held[s] \notin out /\ state[held[s]] = "live"
    BY <1>2, <1>4, <2>1 DEF IInv, SourcesRight, OwnersRight
  <2> QED
    BY <1>1, <1>6, <2>1 DEF IInv, SourcesRight
<1>8. OwnersRight'
  <2>1. ASSUME NEW e \in Data, e # d, Owner(data[e])
        PROVE  /\ data[e].val \in Native /\ data[e].val # n /\ data[e].val \notin out
               /\ state'[data[e].val] = "live"
               /\ Owner(new) => new.val # data[e].val
    <3>1. data[e].val \in Native /\ state[data[e].val] = "live"
      BY <2>1 DEF IInv, OwnersRight
    <3>2. data[e].val # n
      BY <1>2, <1>4, <3>1
    <3>3. Owner(data[d]) => data[d].val # data[e].val
      BY <2>1 DEF IInv, OwnersRight
    <3> QED
      BY <1>6, <3>1, <3>2, <3>3
  <2>2. ASSUME Owner(new)
        PROVE  /\ new.val \in Native /\ state'[new.val] = "live"
               /\ \A s \in Source : held[s] # new.val
    <3>1. CASE n # "none" /\ new.val = n
      BY <1>1, <1>2, <1>3, <1>4, <3>1 DEF IInv, SourcesRight
    <3>2. CASE ~gives /\ Owner(data[d]) /\ new.val = data[d].val
      <4>1. new.val \in Native /\ state[new.val] = "live" /\ \A s \in Source : held[s] # new.val
        BY <3>2 DEF IInv, OwnersRight
      <4>2. new.val # n
        BY <1>2, <1>4, <4>1
      <4> QED
        BY <1>6, <3>2, <4>1, <4>2
    <3> QED
      BY <2>2, <3>1, <3>2
  <2>3. ASSUME NEW e \in Data, NEW f \in Data, Owner(data'[e]), Owner(data'[f]),
               data'[f].val = data'[e].val
        PROVE  f = e
    <3>1. CASE e # d /\ f # d
      BY <1>4, <2>3, <3>1 DEF IInv, OwnersRight
    <3>2. CASE e = d /\ f # d
      <4>1. Owner(new) /\ Owner(data[f]) /\ data[f].val = new.val
        BY <1>4, <2>3, <3>2
      <4> QED
        BY <2>1, <3>2, <4>1
    <3>3. CASE e # d /\ f = d
      <4>1. Owner(new) /\ Owner(data[e]) /\ data[e].val = new.val
        BY <1>4, <2>3, <3>3
      <4> QED
        BY <2>1, <3>3, <4>1
    <3> QED
      BY <3>1, <3>2, <3>3
  <2>4. \A e \in Data : Owner(data'[e]) =>
          /\ data'[e].val \in Native /\ state'[data'[e].val] = "live"
          /\ \A s \in Source : held'[s] # data'[e].val
    <3> TAKE e \in Data
    <3>1. CASE e = d
      BY <1>1, <1>4, <2>2, <3>1
    <3>2. CASE e # d
      BY <1>1, <1>4, <2>1, <3>2 DEF IInv, OwnersRight
    <3> QED
      BY <3>1, <3>2
  <2> QED
    BY <2>3, <2>4 DEF OwnersRight, Owner, Clears
<1>9. RecordsRight'
  <2>1. \A m \in Native : state[m] # "unborn" => state'[m] # "unborn"
    BY <1>1, <1>11
  <2>2. n \in Native => state'[n] = "live"
    BY <1>1, <1>3
  <2>3. ASSUME NEW e \in Data
        PROVE  /\ Fits(data'[e]) /\ Stored(data'[e]) /\ Kept(data'[e], held)
               /\ data'[e].val \in Native => state'[data'[e].val] # "unborn"
    <3>1. CASE e = d
      BY <1>4, <2>1, <2>2, <3>1
    <3>2. CASE e # d
      BY <1>4, <2>1, <3>2 DEF IInv, RecordsRight
    <3> QED
      BY <3>1, <3>2
  <2> QED
    BY <1>1, <2>3 DEF RecordsRight, Fits, Stored, Kept, Clears
<1>10. AllOwned'
  <2> SUFFICES ASSUME Careful, NEW m \in Native, state'[m] = "live"
               PROVE  \/ \E s \in Source : held[s] = m
                      \/ \E e \in Data : Owner(data'[e]) /\ data'[e].val = m
    BY <1>1 DEF AllOwned, Owner, Clears
  <2>1. CASE m = n
    BY <1>1, <1>4, <2>1
  <2>2. CASE m # n
    <3>1. m \notin out /\ state[m] = "live"
      BY <1>1, <2>2
    <3>2. CASE \E s \in Source : held[s] = m
      BY <3>2
    <3>3. CASE \E e \in Data : Owner(data[e]) /\ data[e].val = m
      <4>1. PICK e \in Data : Owner(data[e]) /\ data[e].val = m
        BY <3>3
      <4>2. CASE e # d
        BY <1>4, <4>1, <4>2
      <4>3. CASE e = d
        BY <1>4, <3>1, <4>1, <4>3
      <4> QED
        BY <4>2, <4>3
    <3> QED
      BY <3>1, <3>2, <3>3 DEF IInv, AllOwned
  <2> QED
    BY <2>1, <2>2
<1> QED
  BY <1>1, <1>5, <1>7, <1>8, <1>9, <1>10 DEF IInv
\* x is a struct with these fields.
IsStruct(x) ==
  x = [in |-> x.in, type |-> x.type, state |-> x.state, val |-> x.val, ref |-> x.ref,
       given |-> x.given, from |-> x.from]
Holds(x, in, type, st, val) ==
  /\ IsStruct(x) /\ x.in = in /\ x.type = type /\ x.state = st /\ x.val = val /\ x.ref \in BOOLEAN
  /\ x.given \in Value \cup {"none"} /\ x.from = x.given

LEMMA HoldsTyped ==
  ASSUME NEW x, NEW in \in {"free", "use", "garbage"}, NEW type \in CimType,
         NEW st \in {"good", "null", "bad"}, NEW val \in Plain \cup Native, Holds(x, in, type, st, val)
  PROVE  x \in DataRec
BY DEF Holds, IsStruct, DataRec

LEMMA NewDataHolds == Holds(NewData, "use", {}, "null", "junk") /\ NewData.ref
BY DEF NewData, Holds, IsStruct

LEMMA FromNewData ==
  ASSUME NEW t, NEW y, NEW v \in Value, NEW b \in BOOLEAN
  PROVE  /\ Holds(Filled(t, y, v, b), "use", t, "good", y) /\ Filled(t, y, v, b).ref = b
         /\ Holds(Lost(NewData), "garbage", {}, "null", "junk")
         /\ Holds([NewData EXCEPT !.val = y, !.ref = b], "use", {}, "null", y)
<1>1. ASSUME NEW x, Holds(x, "use", {}, "null", "junk"),
             NEW z,
             z = [x EXCEPT !.type = t, !.state = "good", !.val = y, !.ref = b, !.given = v, !.from = v]
      PROVE  Holds(z, "use", t, "good", y) /\ z.ref = b
  <2>1. z.type = t /\ z.in = "use" /\ z.state = "good" /\ z.val = y
    BY <1>1 DEF Holds, IsStruct
  <2>2. z.ref = b /\ z.given = v /\ z.from = v
    BY <1>1 DEF Holds, IsStruct
  <2>3. IsStruct(z)
    BY <1>1 DEF Holds, IsStruct
  <2> QED
    BY <2>1, <2>2, <2>3 DEF Holds
<1>2. ASSUME NEW x, Holds(x, "use", {}, "null", "junk"), NEW z, z = Lost(x)
      PROVE  Holds(z, "garbage", {}, "null", "junk")
  BY <1>2 DEF Holds, IsStruct, Lost
<1>3. ASSUME NEW x, Holds(x, "use", {}, "null", "junk"), NEW z, z = [x EXCEPT !.val = y, !.ref = b]
      PROVE  Holds(z, "use", {}, "null", y)
  <2>1. z.type = {} /\ z.in = "use" /\ z.state = "null" /\ z.val = y /\ z.ref \in BOOLEAN
        /\ z.given = x.given /\ z.from = x.from
    BY <1>3 DEF Holds, IsStruct
  <2>2. IsStruct(z)
    BY <1>3 DEF Holds, IsStruct
  <2> QED
    BY <1>3, <2>1, <2>2 DEF Holds
<1> QED
  BY <1>1, <1>2, <1>3, NewDataHolds, Zenon DEF Filled

LEMMA FilledHolds ==
  ASSUME NEW t, NEW y, NEW v \in Value
  PROVE  /\ Holds(Filled(t, y, v, TRUE), "use", t, "good", y) /\ Filled(t, y, v, TRUE).ref
         /\ Holds(Filled(t, y, v, FALSE), "use", t, "good", y) /\ ~Filled(t, y, v, FALSE).ref
BY FromNewData

\* The struct new starts from, once its type is set.
LEMMA NewStruct ==
  ASSUME NEW t \in CimType
  PROVE  Holds(GiveUp(Retyped(NewData, t)), "use", t, "null", "junk") /\ ~GiveUp(Retyped(NewData, t)).ref
<1>1. ASSUME NEW x, Holds(x, "use", x.type, "null", "junk")
      PROVE  Holds(GiveUp(x), "use", x.type, "null", "junk") /\ ~GiveUp(x).ref
  <2>1. ~Clears(x)
    BY <1>1 DEF Holds, Clears
  <2>2. GiveUp(x) = [x EXCEPT !.ref = FALSE]
    BY <2>1, Zenon DEF GiveUp, Cleared
  <2> QED
    BY <1>1, <2>2 DEF Holds, IsStruct
<1>2. Holds(NewData, "use", NewData.type, "null", "junk")
  BY NewDataHolds DEF Holds
<1>3. Holds(Retyped(NewData, t), "use", t, "null", "junk")
  <2>1. CASE NewData.type = t
    BY <1>2, <2>1 DEF Retyped
  <2>2. CASE NewData.type # t
    <3>1. Retyped(NewData, t) = [GiveUp(NewData) EXCEPT !.type = t, !.state = "null",
                                                       !.given = "none", !.from = "none"]
      BY <2>2 DEF Retyped
    <3>2. Holds(GiveUp(NewData), "use", NewData.type, "null", "junk")
      BY <1>1, <1>2
    <3> QED
      BY <3>1, <3>2 DEF Holds, IsStruct
  <2> QED
    BY <2>1, <2>2
<1> QED
  BY <1>1, <1>3 DEF Holds

LEMMA NewBlank ==
  ASSUME NEW t \in CimType, Careful \/ ~IsArray(t)
  PROVE  /\ Blank(GiveUp(Retyped(NewData, t)))
         /\ GiveUp(Retyped(NewData, t)).type = t /\ GiveUp(Retyped(NewData, t)).in = "use"
BY NewStruct, HoldsTyped, NamesDiffer DEF Blank, Fits, Holds, Plain

\* Put in a slot or made garbage, an outcome is as the invariant asks.
LEMMA OutcomeUpdate ==
  ASSUME IInv, NEW d \in Data, NEW gives \in BOOLEAN, NEW old, NEW new, NEW n \in Fresh,
         NEW half \in Halves,
         Update(d, old, gives, new, n, half), gives => old = data[d] /\ old.in # "free",
         ~gives => data[d].in = "free",
         NEW r, Blank(r), r.in = "use",
         NEW rec, Outcome(rec, r, n), new \in {rec, Lost(rec)}
  PROVE  IInv'
<1>1. /\ new.type = rec.type /\ new.state = rec.state /\ new.val = rec.val /\ new.ref = rec.ref
      /\ new.in \in {"use", "garbage"} /\ new \in DataRec /\ (new.in = "use" => new = rec)
  BY DEF Outcome, DataRec, Lost
<1>2. Clears(new) = Clears(rec)
  BY <1>1 DEF Clears
<1>3. Fits(new) /\ Stored(new)
  BY <1>1 DEF Outcome, Fits, Stored
<1>4. Kept(new, held)
  BY <1>1 DEF Outcome, Kept
<1>5. Owner(new) <=> ~rec.ref /\ Clears(rec)
  BY <1>1, <1>2 DEF Owner
<1>6. ~gives => ~Owner(data[d])
  BY DEF Owner
<1> QED
  BY <1>1, <1>3, <1>4, <1>5, <1>6, UpdateInv DEF Outcome
LEMMA AssignStruct ==
  ASSUME NEW r \in DataRec, NEW v \in Values, NEW n
  PROVE  IsStruct(Assign(r, v, n).rec)
<1> DEFINE g == Asked(r, v)
<1>0. IsStruct(g)
  BY AskedIs DEF DataRec, IsStruct
<1>1. v \in Unwrapped \cup Source
  BY InputAssumption DEF Value
<1>2. CASE v \in {"string", "word", "number", "huge"}
  <2>1. Assign(r, v, n) = AssignScalar(g, v, n)
    BY <1>2, NamesDiffer DEF Assign, Arrays, Unwrapped, Asked
  <2>2. AssignScalar(g, v, n).rec \in
          {g, [g EXCEPT !.val = "number", !.from = v], [g EXCEPT !.val = n, !.from = v], Refused(g)}
    BY DEF AssignScalar, Ok, Raise, Bad, Refused
  <2> QED
    BY <1>0, <2>1, <2>2 DEF IsStruct, Refused
<1>3. CASE v \in Arrays
  <2>1. Assign(r, v, n) = AssignArray(g, v, n)
    BY <1>3, NamesDiffer DEF Assign, Arrays, Unwrapped, Asked
  <2>2. AssignArray(g, v, n).rec \in
          {g, [g EXCEPT !.val = n, !.type = Array("string"), !.from = v],
           [g EXCEPT !.val = n, !.type = Array("sint64"), !.from = v],
           [g EXCEPT !.type = Scalar("string")], [g EXCEPT !.type = Array("string")]}
    BY <1>3 DEF AssignArray, Ok, Raise, Arrays
  <2> QED
    BY <1>0, <2>1, <2>2 DEF IsStruct, Refused
<1>4. CASE v \in Source
  <2>1. Assign(r, v, n) = AssignSource(g, v)
    BY <1>4, NamesDiffer DEF Assign, Arrays, Unwrapped, Asked
  <2>2. AssignSource(g, v).rec \in {[g EXCEPT !.val = held[v], !.ref = TRUE, !.from = v], Refused(g)}
    BY DEF AssignSource, Ok, Raise, Bad, Refused
  <2> QED
    BY <1>0, <2>1, <2>2 DEF IsStruct, Refused
<1>5. CASE v \in {"nil", "boolean", "other"}
  <2>1. Assign(r, v, n).rec \in {Emptied(g), g, Refused(g)}
    BY <1>5, NamesDiffer DEF Assign, Arrays, Unwrapped, Ok, Bad, Raise, Asked, Emptied, Refused
  <2> QED
    BY <1>0, <2>1 DEF IsStruct, Emptied, Refused
<1> QED
  BY <1>1, <1>2, <1>3, <1>4, <1>5 DEF Unwrapped, Arrays

LEMMA NewInv ==
  ASSUME Regular, IInv, NEW d \in Data, NEW t \in Types, NEW v \in Values, New(d, t, v)
  PROVE  IInv'
<1> DEFINE r == GiveUp(Retyped(NewData, t))
<1>1. PICK n \in Fresh, half \in Half(v, IsArray(t)) :
        /\ data[d].in = "free" /\ Available(v)
        /\ Careful => Convertible(v, t)
        /\ Update(d, NewData, FALSE, Made(Assign(r, v, n)), n, half)
  BY DEF New
<1>2. Blank(r) /\ r.type = t /\ r.in = "use"
  BY NewBlank, InputAssumption DEF Regular, NoArraysUsed
<1> DEFINE rec == Assign(r, v, n).rec
           new == Made(Assign(r, v, n))
<1>3. new \in {rec, Lost(rec)}
  BY DEF Made
<1>4. new.val = rec.val
  <2>1. IsStruct(rec)
    BY <1>2, AssignStruct DEF Blank, Fits
  <2> QED
    BY <1>3, <2>1 DEF IsStruct, Lost
<1>5. rec.val # "none" /\ (n # "none" => rec.val = n)
  BY <1>1, <1>4 DEF Update
<1> HIDE DEF r, rec, new
<1>6. Outcome(rec, r, n)
  BY <1>1, <1>2, <1>5, AssignOutcome DEF Assignable, IInv, rec
<1> QED
  BY <1>1, <1>2, <1>3, <1>6, HalfFresh, OutcomeUpdate DEF new, r

LEMMA SetValueInv ==
  ASSUME Regular, IInv, NEW d \in Data, NEW v \in Values, SetValue(d, v)
  PROVE  IInv'
<1> DEFINE r == GiveUp(data[d])
<1>1. PICK n \in Fresh, half \in Half(v, IsArray(data[d].type)) :
        /\ data[d].in = "use" /\ Available(v)
        /\ Careful => Convertible(v, data[d].type)
        /\ Update(d, data[d], TRUE, Assign(r, v, n).rec, n, half)
  BY DEF SetValue
<1>2. Blank(r) /\ r.type = data[d].type /\ r.in = "use"
  BY <1>1, GivenUpBlank DEF IInv, RecordsRight
<1> DEFINE rec == Assign(r, v, n).rec
<1>3. rec.val # "none" /\ (n # "none" => rec.val = n)
  BY <1>1 DEF Update
<1> HIDE DEF r, rec
<1>4. Outcome(rec, r, n)
  BY <1>1, <1>2, <1>3, AssignOutcome DEF Assignable, IInv, rec
<1> QED
  BY <1>1, <1>2, <1>4, HalfFresh, OutcomeUpdate DEF rec
LEMMA MadeIs ==
  \A r : Made(Ok(r)) = r /\ Made(Raise(r)) = Lost(r)
BY DEF Made, Ok, Raise

\* Each value, and what from_value makes of it.
LEMMA FromRubyHolds ==
  ASSUME NEW v \in Value, NEW n, NEW new, new = Made(FromRuby(v, n))
  PROVE  \/ Holds(new, "use", {}, "null", "zero")
         \/ Holds(new, "garbage", {}, "null", "junk")
         \/ Holds(new, "use", Scalar("string"), "good", n) /\ ~new.ref
         \/ v = "boolean" /\ Holds(new, "use", Scalar("boolean"), "good", "number")
         \/ Holds(new, "use", Scalar("sint64"), "good", "number")
         \/ /\ v \in Arrays \cap Unwrapped /\ ~new.ref
            /\ \E x \in {"string", "sint64"} : Holds(new, "use", Array(x), "good", n)
         \/ v \in Source /\ Holds(new, "use", SourceType[v], "good", held[v]) /\ new.ref
<1>1. CASE v \in Source
  <2>1. FromRuby(v, n) = Ok(Filled(SourceType[v], held[v], v, TRUE))
    BY <1>1, NamesDiffer DEF FromRuby, Unwrapped
  <2>2. new = Filled(SourceType[v], held[v], v, TRUE)
    BY <2>1, MadeIs
  <2> QED
    BY <1>1, <2>2, FilledHolds
<1>2. CASE v = "nil"
  <2>1. FromRuby(v, n) = Ok([NewData EXCEPT !.val = "zero", !.ref = FALSE])
    BY <1>2, NamesDiffer DEF FromRuby, Unwrapped
  <2>2. new = [NewData EXCEPT !.val = "zero", !.ref = FALSE]
    BY <2>1, MadeIs
  <2> QED
    BY <2>2, FromNewData
<1>3. CASE v \in {"string", "word"}
  <2>1. FromRuby(v, n) = Ok(Filled(Scalar("string"), n, v, FALSE)) /\ v \notin Source
    BY <1>3, NamesDiffer DEF FromRuby, Unwrapped
  <2>2. new = Filled(Scalar("string"), n, v, FALSE)
    BY <2>1, MadeIs
  <2> QED
    BY <1>3, <2>2, FilledHolds
<1>4. CASE v = "boolean"
  <2>1. FromRuby(v, n) = Ok(Filled(Scalar("boolean"), "number", v, FALSE))
    BY <1>4, NamesDiffer DEF FromRuby, Unwrapped
  <2>2. new = Filled(Scalar("boolean"), "number", v, FALSE)
    BY <2>1, MadeIs
  <2> QED
    BY <1>4, <2>2, FilledHolds
<1>5. CASE v = "number"
  <2>1. FromRuby(v, n) = Ok(Filled(Scalar("sint64"), "number", v, FALSE))
    BY <1>5, NamesDiffer DEF FromRuby, Unwrapped
  <2>2. new = Filled(Scalar("sint64"), "number", v, FALSE)
    BY <2>1, MadeIs
  <2> QED
    BY <1>5, <2>2, FilledHolds
<1>6. CASE v \in {"strings", "numbers"}
  <2>1. \E x \in {"string", "sint64"} : FromRuby(v, n) = Ok(Filled(Array(x), n, v, FALSE))
    BY <1>6, NamesDiffer DEF FromRuby, Unwrapped
  <2>2. v \in Arrays \cap Unwrapped
    BY <1>6 DEF Arrays, Unwrapped
  <2>3. PICK x \in {"string", "sint64"} : new = Filled(Array(x), n, v, FALSE)
    BY <2>1, MadeIs
  <2>4. Holds(new, "use", Array(x), "good", n) /\ ~new.ref
    BY <2>3, FilledHolds
  <2> QED
    BY <2>2, <2>4
<1>7. CASE v \in {"huge", "mixed", "nested", "broken", "other"}
  <2>1. FromRuby(v, n) = Raise(NewData)
    BY <1>7, NamesDiffer DEF FromRuby, Unwrapped
  <2>2. new = Lost(NewData)
    BY <2>1, MadeIs
  <2> QED
    BY <2>2, FromNewData
<1> QED
  BY <1>1, <1>2, <1>3, <1>4, <1>5, <1>6, <1>7 DEF Unwrapped, Value

LEMMA FromRubyInv ==
  ASSUME Regular, IInv, NEW d \in Data, NEW v \in Values, FromValue(d, v)
  PROVE  IInv'
<1>1. PICK n \in Fresh, half \in Half(v, TRUE) :
        /\ data[d].in = "free" /\ Available(v)
        /\ Update(d, NewData, FALSE, Made(FromRuby(v, n)), n, half)
  BY DEF FromValue
<1> DEFINE new == Made(FromRuby(v, n))
<1>2. n = "none" \/ (n \in Native /\ state[n] = "unborn")
  BY FreshTyped
<1>3. new.val # "none" /\ (n # "none" => new.val = n)
  BY <1>1 DEF Update
<1>4. v \in Value /\ (Careful \/ v \notin Arrays)
  BY InputAssumption DEF Regular, NoArraysUsed
<1>5. ~Owner(data[d])
  BY <1>1 DEF Owner
<1>0. new = Made(FromRuby(v, n))
  OBVIOUS
<1> HIDE DEF new
<1>6. \/ Holds(new, "use", {}, "null", "zero")
      \/ Holds(new, "garbage", {}, "null", "junk")
      \/ Holds(new, "use", Scalar("string"), "good", n) /\ ~new.ref
      \/ v = "boolean" /\ Holds(new, "use", Scalar("boolean"), "good", "number")
      \/ Holds(new, "use", Scalar("sint64"), "good", "number")
      \/ Careful /\ (\E x \in {"string", "sint64"} : Holds(new, "use", Array(x), "good", n)) /\ ~new.ref
      \/ v \in Source /\ Holds(new, "use", SourceType[v], "good", held[v]) /\ new.ref
  BY <1>0, <1>4, FromRubyHolds DEF Arrays, Unwrapped
<1>7. CASE Holds(new, "use", {}, "null", "zero") \/ Holds(new, "garbage", {}, "null", "junk")
  <2>0. new.state = "null" /\ new.val \in {"zero", "junk"} /\ new.type = {} /\ new \in DataRec
    BY <1>7, HoldsTyped, TypesUsed DEF Holds, Plain
  <2>1. n = "none" /\ new.val \notin Native
    BY <1>2, <1>3, <2>0, NamesDiffer DEF Plain
  <2>2. ~Clears(new) /\ Fits(new) /\ Stored(new) /\ Kept(new, held)
    BY <2>0, TypesUsed DEF Clears, Fits, Stored, Kept
  <2> QED
    BY <1>1, <1>5, <2>1, <2>2, HalfFresh, UpdateInv DEF new, Owner
<1>8. CASE \/ v = "boolean" /\ Holds(new, "use", Scalar("boolean"), "good", "number")
           \/ Holds(new, "use", Scalar("sint64"), "good", "number")
  <2>0. /\ new.val = "number" /\ new.type \in {Scalar("boolean"), Scalar("sint64")} /\ new \in DataRec
        /\ new.from = new.given
    BY <1>8, HoldsTyped, TypesUsed DEF Holds, Plain
  <2>1. n = "none" /\ new.val \notin Native
    BY <1>2, <1>3, <2>0, NamesDiffer DEF Plain
  <2>2. ~Clears(new) /\ Fits(new) /\ Stored(new) /\ Kept(new, held)
    BY <2>0, TypesUsed DEF Clears, Fits, Stored, Kept
  <2> QED
    BY <1>1, <1>5, <2>1, <2>2, HalfFresh, UpdateInv DEF new, Owner
<1>9. CASE \/ Holds(new, "use", Scalar("string"), "good", n) /\ ~new.ref
           \/ Careful /\ (\E x \in {"string", "sint64"} : Holds(new, "use", Array(x), "good", n)) /\ ~new.ref
  <2>0. /\ new.in = "use" /\ new.state = "good" /\ new.val = n /\ ~new.ref /\ new.from = new.given
        /\ new.type = Scalar("string") \/ (Careful /\ \E x \in {"string", "sint64"} : new.type = Array(x))
    BY <1>9 DEF Holds
  <2>1. n \in Native /\ n # "none" /\ new.val = n
    BY <1>2, <1>3, <2>0, NamesDiffer
  <2>2. Owning(new.type) /\ Clears(new) /\ ~new.ref
    BY <2>0, TypesUsed DEF Clears
  <2>3. Fits(new)
    BY <1>9, <2>0, <2>1, HoldsTyped, TypesUsed DEF Fits
  <2>4. Stored(new) /\ Kept(new, held) /\ Owner(new)
    BY <2>0, <2>1, <2>2 DEF Stored, Kept, Owner
  <2> QED
    BY <1>1, <1>5, <2>1, <2>3, <2>4, HalfFresh, UpdateInv DEF new
<1>10. CASE v \in Source /\ Holds(new, "use", SourceType[v], "good", held[v]) /\ new.ref
  <2>1. held[v] \in Native /\ held[v] # "gone" /\ state[held[v]] = "live"
    BY <1>1, <1>10, NamesDiffer DEF Available, IInv, TypeOK, SourcesRight
  <2>2. SourceType[v] \in CimType /\ ~IsArray(SourceType[v]) /\ Owning(SourceType[v])
    BY <1>10, SourceAssumption, TypesUsed
  <2>3. n = "none" /\ new.val = held[v] /\ new.ref /\ new.type = SourceType[v] /\ new.state = "good"
        /\ new.from = new.given
    BY <1>2, <1>3, <1>10, <2>1 DEF Holds
  <2>4. Fits(new) /\ Stored(new) /\ Kept(new, held) /\ ~Owner(new)
    BY <1>10, <2>1, <2>2, <2>3, HoldsTyped DEF Fits, Stored, Kept, Owner
  <2> QED
    BY <1>1, <1>5, <2>1, <2>3, <2>4, HalfFresh, UpdateInv DEF new
<1> QED
  BY <1>6, <1>7, <1>8, <1>9, <1>10
\* What the invariant says of one record.
LEMMA RecordRight ==
  ASSUME IInv, NEW d \in Data
  PROVE  /\ data[d] \in DataRec /\ Fits(data[d]) /\ Stored(data[d]) /\ Kept(data[d], held)
         /\ data[d].val \in Native => state[data[d].val] # "unborn"
BY DEF IInv, RecordsRight, Fits

LEMMA FromDataInv ==
  ASSUME IInv, NEW d \in Data, NEW e \in Data, FromData(d, e)
  PROVE  IInv'
<1> DEFINE new == [data[e] EXCEPT !.ref = TRUE]
<1>1. ~KeepSources /\ data[d].in = "free" /\ Update(d, NewData, FALSE, new, "none", {})
  BY DEF FromData
<1>2. /\ new \in DataRec /\ new.ref /\ new.in = data[e].in /\ new.type = data[e].type
      /\ new.state = data[e].state /\ new.val = data[e].val
      /\ new.given = data[e].given /\ new.from = data[e].from
  BY RecordRight DEF DataRec
<1> HIDE DEF new
<1>3. Fits(new) /\ Stored(new) /\ Kept(new, held) /\ ~Owner(new)
  BY <1>1, <1>2, RecordRight DEF Fits, Stored, Kept, Owner
<1>4. ~Owner(data[d]) /\ "none" \in Fresh
  BY <1>1 DEF Owner, Fresh
<1> QED
  BY <1>1, <1>2, <1>3, <1>4, RecordRight, HalfFresh, UpdateInv

LEMMA DescribeInv ==
  ASSUME IInv, NEW d \in Data, NEW s \in Source, DescribeProperty(d, s)
  PROVE  IInv'
<1> DEFINE new == Filled(SourceType[s], held[s], s, TRUE)
<1>1. data[d].in = "free" /\ held[s] # "gone" /\ Update(d, NewData, FALSE, new, "none", {})
  BY DEF DescribeProperty
<1>2. held[s] \in Native /\ state[held[s]] = "live"
  BY <1>1 DEF IInv, TypeOK, SourcesRight
<1>3. Holds(new, "use", SourceType[s], "good", held[s]) /\ new.ref
  BY FilledHolds DEF Value
<1>4. SourceType[s] \in CimType /\ ~IsArray(SourceType[s]) /\ Owning(SourceType[s])
  BY SourceAssumption, TypesUsed
<1> HIDE DEF new
<1>5. new \in DataRec /\ new.in = "use" /\ new.type = SourceType[s] /\ new.val = held[s]
      /\ new.from = new.given
  BY <1>2, <1>3, <1>4, HoldsTyped DEF Holds
<1>6. Fits(new) /\ Stored(new) /\ Kept(new, held) /\ ~Owner(new)
  BY <1>2, <1>3, <1>4, <1>5 DEF Fits, Stored, Kept, Owner
<1>7. ~Owner(data[d]) /\ "none" \in Fresh
  BY <1>1 DEF Owner, Fresh
<1> QED
  BY <1>1, <1>2, <1>5, <1>6, <1>7, HalfFresh, UpdateInv

LEMMA SetTypeInv ==
  ASSUME Regular, IInv, NEW d \in Data, NEW t \in Types, SetType(d, t)
  PROVE  IInv'
<1>1. /\ data[d].in = "use" /\ "none" \in Fresh
      /\ Update(d, data[d], data[d].type # t, Retyped(data[d], t), "none", {})
  BY DEF SetType, Fresh
<1>2. CASE data[d].type = t
  <2>1. Update(d, data[d], FALSE, data[d], "none", {})
    BY <1>1, <1>2 DEF Retyped
  <2> QED
    BY <1>1, <2>1, RecordRight, HalfFresh, UpdateInv
<1>3. CASE data[d].type # t
  <2> DEFINE new == [GiveUp(data[d]) EXCEPT !.type = t, !.state = "null",
                                              !.given = "none", !.from = "none"]
  <2>1. Update(d, data[d], TRUE, new, "none", {})
    BY <1>1, <1>3 DEF Retyped
  <2>2. Blank(GiveUp(data[d])) /\ t \in CimType /\ (Careful \/ ~IsArray(t))
    BY GivenUpBlank, RecordRight, InputAssumption DEF Regular, NoArraysUsed
  <2>3. /\ new \in DataRec /\ new.type = t /\ new.state = "null" /\ new.val = GiveUp(data[d]).val
        /\ new.val \in Native => state[new.val] # "unborn"
    BY <2>2 DEF Blank, Fits, DataRec
  <2> HIDE DEF new
  <2>4. Fits(new) /\ Stored(new) /\ Kept(new, held) /\ ~Owner(new)
    BY <2>2, <2>3 DEF Fits, Stored, Kept, Owner, Clears
  <2> QED
    BY <1>1, <2>1, <2>3, <2>4, HalfFresh, UpdateInv
<1> QED
  BY <1>2, <1>3

LEMMA SetTypeBadInv ==
  ASSUME IInv, NEW d \in Data, SetTypeBad(d)
  PROVE  IInv'
<1> DEFINE new == [data[d] EXCEPT !.state = "bad"]
<1>1. ~Careful /\ "none" \in Fresh /\ Update(d, data[d], FALSE, new, "none", {})
  BY DEF SetTypeBad, Fresh
<1>2. /\ new \in DataRec /\ new.type = data[d].type /\ new.state = "bad" /\ new.val = data[d].val
  BY RecordRight DEF DataRec
<1> HIDE DEF new
<1>3. Fits(new) /\ Stored(new) /\ Kept(new, held) /\ ~Owner(new)
  BY <1>1, <1>2, RecordRight DEF Fits, Stored, Kept, Owner, Clears
<1> QED
  BY <1>1, <1>2, <1>3, RecordRight, HalfFresh, UpdateInv

LEMMA DropInv ==
  ASSUME IInv, NEW d \in Data, Drop(d)
  PROVE  IInv'
<1> DEFINE new == Lost(data[d])
<1>1. data[d].in = "use" /\ "none" \in Fresh /\ Update(d, data[d], FALSE, new, "none", {})
  BY DEF Drop, Fresh
<1>2. /\ new \in DataRec /\ new.in = "garbage" /\ new.type = data[d].type /\ new.state = data[d].state
      /\ new.val = data[d].val /\ new.ref = data[d].ref
  BY RecordRight DEF DataRec, Lost
<1> HIDE DEF new
<1>3. Fits(new) /\ Stored(new) /\ Kept(new, held) /\ (Owner(new) <=> Owner(data[d]))
  BY <1>1, <1>2, RecordRight DEF Fits, Stored, Kept, Owner, Clears
<1> QED
  BY <1>1, <1>2, <1>3, RecordRight, HalfFresh, UpdateInv

LEMMA DeallocInv ==
  ASSUME IInv, NEW d \in Data, Dealloc(d)
  PROVE  IInv'
<1>1. data[d].in = "garbage" /\ "none" \in Fresh /\ Update(d, data[d], TRUE, NoData, "none", {})
  BY DEF Dealloc, Fresh
<1>2. NoData \in DataRec /\ NoData.in = "free" /\ NoData.type = {} /\ NoData.val = "zero"
  BY TypesUsed DEF NoData, DataRec, Plain
<1>3. Fits(NoData) /\ Stored(NoData) /\ Kept(NoData, held) /\ ~Owner(NoData) /\ NoData.val \notin Native
  BY <1>2, TypesUsed, NamesDiffer DEF Fits, Stored, Kept, Owner, Plain
<1> QED
  BY <1>1, <1>3, HalfFresh, UpdateInv

\* A good value is followed: it is there if the program is careful and keeps
\* the sources.
LEMMA GetValueInv ==
  ASSUME IInv, NEW d \in Data, GetValue(d)
  PROVE  IInv'
<1>1. /\ data[d].in = "use" /\ data[d].state = "good" /\ Owning(data[d].type)
      /\ fault' = Follow(data[d].val) /\ UNCHANGED <<data, held, state>>
  BY DEF GetValue
<1>2. Careful /\ KeepSources => fault' = "none"
  <2> SUFFICES ASSUME Careful, KeepSources PROVE Follow(data[d].val) = "none"
    BY <1>1
  <2>1. Clears(data[d]) /\ data[d].val \in Native
    BY <1>1, RecordRight DEF Clears, Stored
  <2>2. state[data[d].val] = "live"
    <3>1. CASE data[d].ref
      <4>1. PICK s \in Source : held[s] = data[d].val
        BY <1>1, <2>1, <3>1, RecordRight DEF Kept
      <4> QED
        BY <2>1, <4>1, NamesDiffer DEF IInv, SourcesRight
    <3>2. CASE ~data[d].ref
      BY <1>1, <2>1, <3>2 DEF IInv, OwnersRight, Owner
    <3> QED
      BY <3>1, <3>2
  <2> QED
    BY <2>1, <2>2, NamesDiffer DEF Follow, Plain
<1>3. fault' \in {"none", "null", "wild", "double", "dangling"}
  BY <1>1 DEF Follow
<1>4. TypeOK'
  BY <1>1, <1>3 DEF IInv, TypeOK
<1>5. SourcesRight' /\ OwnersRight' /\ RecordsRight' /\ AllOwned'
  BY <1>1 DEF IInv, SourcesRight, OwnersRight, RecordsRight, AllOwned, Owner, Clears, Fits, Stored, Kept
<1> QED
  BY <1>2, <1>4, <1>5 DEF IInv

\* A source is swept: nobody else owns its value, and those who refer to it
\* are not there if the program keeps the sources.
LEMMA SweepInv ==
  ASSUME IInv, NEW s \in Source, SweepSource(s)
  PROVE  IInv'
<1>1. /\ held[s] # "gone" /\ fault' = (IF state[held[s]] = "live" THEN "none" ELSE "double")
      /\ state' = [state EXCEPT ![held[s]] = "released"] /\ held' = [held EXCEPT ![s] = "gone"]
      /\ data' = data
      /\ KeepSources => \A d \in Data : data[d].in = "use" => data[d].val # held[s]
  BY DEF SweepSource
<1>2. held[s] \in Native /\ state[held[s]] = "live" /\ fault' = "none" /\ "gone" \notin Native
  BY <1>1, NamesDiffer DEF IInv, TypeOK, SourcesRight
<1>3. /\ held'[s] = "gone" /\ \A u \in Source : u # s => held'[u] = held[u]
      /\ \A n \in Native : n # held[s] => state'[n] = state[n]
      /\ state'[held[s]] = "released"
  BY <1>1, <1>2 DEF IInv, TypeOK
<1>4. TypeOK'
  BY <1>1, <1>2 DEF IInv, TypeOK
<1>5. SourcesRight'
  <2>1. ASSUME NEW u \in Source, u # s, held[u] # "gone"
        PROVE  held[u] # held[s] /\ held[u] \in Native /\ state[held[u]] = "live"
    BY <1>1, <2>1 DEF IInv, TypeOK, SourcesRight
  <2> QED
    BY <1>3, <2>1 DEF IInv, SourcesRight
<1>6. OwnersRight'
  <2>1. ASSUME NEW d \in Data, Owner(data[d])
        PROVE  /\ data[d].val \in Native /\ state'[data[d].val] = "live"
               /\ \A e \in Data : Owner(data[e]) /\ data[e].val = data[d].val => e = d
               /\ \A u \in Source : held'[u] # data[d].val
    BY <1>2, <1>3, <2>1 DEF IInv, OwnersRight
  <2> QED
    BY <1>1, <2>1 DEF OwnersRight, Owner, Clears
<1>7. RecordsRight'
  <2>1. ASSUME NEW d \in Data
        PROVE  /\ Fits(data[d]) /\ Stored(data[d]) /\ Kept(data[d], held')
               /\ data[d].val \in Native => state'[data[d].val] # "unborn"
    <3>1. Kept(data[d], held')
      <4> SUFFICES ASSUME Careful, KeepSources, data[d].in = "use", Clears(data[d]), data[d].ref
                   PROVE  \E u \in Source : held'[u] = data[d].val
        BY DEF Kept
      <4>1. PICK u \in Source : held[u] = data[d].val
        BY RecordRight DEF Kept
      <4>2. u # s
        BY <1>1, <4>1
      <4> QED
        BY <1>3, <4>1, <4>2
    <3>2. data[d].val \in Native => state'[data[d].val] # "unborn"
      BY <1>3, RecordRight
    <3> QED
      BY <3>1, <3>2, RecordRight
  <2> QED
    BY <1>1, <2>1 DEF RecordsRight, Fits, Stored, Kept, Clears
<1>8. AllOwned'
  <2> SUFFICES ASSUME Careful, NEW n \in Native, state'[n] = "live"
               PROVE  \/ \E u \in Source : held'[u] = n
                      \/ \E d \in Data : Owner(data[d]) /\ data[d].val = n
    BY <1>1 DEF AllOwned, Owner, Clears
  <2>1. n # held[s] /\ state[n] = "live"
    BY <1>3
  <2> QED
    BY <1>3, <2>1 DEF IInv, AllOwned
<1> QED
  BY <1>2, <1>4, <1>5, <1>6, <1>7, <1>8 DEF IInv
LEMMA InitIInv == Init => IInv
<1> SUFFICES ASSUME Init PROVE IInv
  OBVIOUS
<1>1. \A d \in Data : data[d] = NoData
  BY DEF Init
<1>2. NoData \in DataRec /\ NoData.in = "free" /\ NoData.type = {} /\ NoData.val = "zero"
  BY TypesUsed DEF NoData, DataRec, Plain
<1>3. TypeOK
  BY <1>2 DEF Init, TypeOK
<1>4. SourcesRight
  BY DEF Init, SourcesRight
<1>5. OwnersRight
  BY <1>1, <1>2 DEF OwnersRight, Owner
<1>6. RecordsRight
  BY <1>1, <1>2, TypesUsed, NamesDiffer DEF RecordsRight, Fits, Stored, Kept, Plain
<1>7. AllOwned
  BY DEF Init, AllOwned
<1> QED
  BY <1>3, <1>4, <1>5, <1>6, <1>7 DEF IInv, Init

LEMMA StepIInv ==
  ASSUME Regular, IInv, [Next]_vars
  PROVE  IInv'
<1>1. ASSUME NEW d \in Data, NEW v \in Values, FromValue(d, v) \/ SetValue(d, v)
      PROVE  IInv'
  BY <1>1, FromRubyInv, SetValueInv
<1>2. ASSUME NEW d \in Data, NEW t \in Types, NEW v \in Values, New(d, t, v)
      PROVE  IInv'
  BY <1>2, NewInv
<1>3. ASSUME NEW d \in Data, NEW t \in Types, SetType(d, t)
      PROVE  IInv'
  BY <1>3, SetTypeInv
<1>4. ASSUME NEW d \in Data, NEW e \in Data, FromData(d, e)
      PROVE  IInv'
  BY <1>4, FromDataInv
<1>5. ASSUME NEW d \in Data, NEW s \in Source, DescribeProperty(d, s)
      PROVE  IInv'
  BY <1>5, DescribeInv
<1>6. ASSUME NEW d \in Data, SetTypeBad(d) \/ GetValue(d) \/ Drop(d) \/ Dealloc(d)
      PROVE  IInv'
  BY <1>6, SetTypeBadInv, GetValueInv, DropInv, DeallocInv
<1>7. ASSUME NEW s \in Source, SweepSource(s)
      PROVE  IInv'
  BY <1>7, SweepInv
<1>8. CASE UNCHANGED vars
  <2>1. UNCHANGED <<data, held, state, fault>>
    BY <1>8 DEF vars
  <2>2. TypeOK' /\ SourcesRight' /\ OwnersRight'
    BY <2>1 DEF IInv, TypeOK, SourcesRight, OwnersRight, Owner, Clears
  <2>3. RecordsRight' /\ AllOwned'
    BY <2>1 DEF IInv, RecordsRight, AllOwned, Owner, Clears, Fits, Stored, Kept
  <2> QED
    BY <2>1, <2>2, <2>3 DEF IInv
<1> QED
  BY <1>1, <1>2, <1>3, <1>4, <1>5, <1>6, <1>7, <1>8 DEF Next

\* What is held is the handle a source had at first, until it is gone.
LEMMA HeldStep ==
  ASSUME IInv, [Next]_vars, NEW s \in Source
  PROVE  held'[s] \in {held[s], "gone"}
<1>1. CASE held' = held
  BY <1>1
<1>2. ASSUME NEW u \in Source, SweepSource(u)
      PROVE  held'[s] \in {held[s], "gone"}
  BY <1>2 DEF SweepSource, IInv, TypeOK
<1>3. ASSUME NEW d \in Data, NEW v \in Values, NEW t \in Types, New(d, t, v)
      PROVE  held' = held
  BY <1>3 DEF New, Update
<1>4. ASSUME NEW d \in Data, NEW v \in Values, FromValue(d, v) \/ SetValue(d, v)
      PROVE  held' = held
  BY <1>4 DEF FromValue, SetValue, Update
<1>5. CASE \E d \in Data :
             \/ \E t \in Types : SetType(d, t)
             \/ \E e \in Data : FromData(d, e)
             \/ \E u \in Source : DescribeProperty(d, u)
             \/ SetTypeBad(d) \/ GetValue(d) \/ Drop(d) \/ Dealloc(d)
  <2>1. held' = held
    BY <1>5 DEF SetType, FromData, DescribeProperty, SetTypeBad, GetValue, Drop, Dealloc, Update
  <2> QED
    BY <2>1
<1> QED
  BY <1>1, <1>2, <1>3, <1>4, <1>5 DEF Next, vars

-----------------------------------------------------------------------------
\* The invariant of every program that gives data objects only what can be
\* converted, or uses no arrays.
THEOREM Invariance == ASSUME Regular PROVE Spec => []IInv
<1>1. Init => IInv
  BY InitIInv
<1>2. IInv /\ [Next]_vars => IInv'
  BY StepIInv
<1> QED
  BY <1>1, <1>2, PTL DEF Spec

\* No two data objects, and no data object and source, would release the same
\* value, in whatever order values are assigned, copied and swept
\* (do_set_value, clear_cimdata, from_value).
THEOREM OneOwnerAlways == ASSUME Regular PROVE Spec => []OneOwner
<1>1. IInv => OneOwner
  BY DEF IInv, OwnersRight, OneOwner, Owner
<1> QED
  BY <1>1, Invariance, PTL

\* While a source is there its handle stays as it is, whatever becomes of the
\* data objects that refer to it (the flag reference of rb_sfcc_data).
THEOREM SourceSafeAlways == ASSUME Regular PROVE Spec => SourceSafe
<1>1. IInv /\ [Next]_vars =>
        [\A s \in Source : held'[s] # "gone" => state'[held[s]] = state[held[s]]]_vars
  <2> SUFFICES ASSUME IInv, [Next]_vars, NEW s \in Source, held'[s] # "gone"
               PROVE  state'[held[s]] = state[held[s]]
    OBVIOUS
  <2>1. IInv'
    BY StepIInv
  <2>2. held'[s] = held[s]
    BY HeldStep
  <2> QED
    BY <2>1, <2>2 DEF IInv, SourcesRight
<1> QED
  BY <1>1, Invariance, PTL DEF Spec, SourceSafe

\* With values that can be converted no allocated value is lost.
THEOREM ValueOwnedAlways == ASSUME Careful PROVE Spec => []ValueOwned
<1>1. Regular
  BY DEF Regular
<1>2. IInv => ValueOwned
  BY DEF IInv, AllOwned, ValueOwned, Owner
<1> QED
  BY <1>1, <1>2, Invariance, PTL

\* A program that also holds what its data objects refer to never follows a
\* pointer that is none, or to a value that is released.
THEOREM NoFaultEver == ASSUME Careful, KeepSources PROVE Spec => []NoFault
<1>1. Regular
  BY DEF Regular
<1>2. IInv => NoFault
  BY DEF IInv, NoFault
<1> QED
  BY <1>1, <1>2, Invariance, PTL

\* A program that gives a data object only what it can convert, and no boolean
\* (whose assignment stores nothing), finds in every object in state good the
\* conversion of the value it last gave (do_set_value, sfcc_value_to_cimdata).
THEOREM GoodIsStoredAlways == ASSUME Careful, "boolean" \notin Values PROVE Spec => []GoodIsStored
<1>1. Regular
  BY DEF Regular
<1>2. IInv => GoodIsStored
  BY DEF IInv, RecordsRight, Stored, GoodIsStored
<1> QED
  BY <1>1, <1>2, Invariance, PTL
=============================================================================

--------------------------- MODULE WrappersProofs ---------------------------
(***************************************************************************)
(* Proofs that the safety properties of module Wrappers hold for heaps and *)
(* handle sets of every size.                                              *)
(***************************************************************************)
EXTENDS Wrappers, TLAPS

\* A handle that was not made yet is no part of another and has no parts.
Fresh ==
  \A n \in Native : state[n] = "unborn" =>
    parent[n] = NoNative /\ \A m \in Native : parent[m] # n

\* Parts have no parts, and live and die with their whole.
PartOfWhole ==
  \A n \in Native : parent[n] \in Native =>
    parent[parent[n]] = NoNative /\ state[n] = state[parent[n]]

\* The library says of every handle it made what it is.
Typed == \A n \in Native : state[n] # "unborn" => type[n] \in Kind

\* Only the structs that have a client field hold a client.
ClientField == \A o \in Obj : kind[o] \notin HasClient => client[o] = Nil

\* While the program runs, what it can get hold of is not swept.
UsableAllocated == phase = "run" => \A o \in Usable : kind[o] # "free"

\* What a call left stays as it was made, whole and without parts.
LeftAlone ==
  \A n \in left : /\ state[n] = "live" /\ parent[n] = NoNative
                  /\ \A m \in Native : parent[m] # n

\* The inductive invariant.
IInv ==
  /\ TypeOK
  /\ HandleLive
  /\ SoleOwner
  /\ LeakBounded
  /\ LeftAlone
  /\ Fresh
  /\ PartOfWhole
  /\ Typed
  /\ ClientField
  /\ UsableAllocated

-----------------------------------------------------------------------------
(***************************************************************************)
(* Facts about the two closures.                                           *)
(***************************************************************************)

\* Usable contains the roots and, with an object, the client it leads to.
LEMMA UsableClosed ==
  ASSUME TypeOK
  PROVE  /\ root \subseteq Usable
         /\ \A p \in Usable : client[p] # Nil => client[p] \in Usable
<1>1. root \subseteq Usable
  BY DEF TypeOK, Usable
<1>2. ASSUME NEW p \in Usable, client[p] # Nil PROVE client[p] \in Usable
  <2>1. p \in Obj /\ client[p] \in Obj
    BY <1>2 DEF TypeOK, Usable
  <2>2. ASSUME NEW S \in SUBSET Obj, root \subseteq S,
               \A q \in S : Leads(q) \subseteq S
        PROVE  client[p] \in S
    <3>1. p \in S
      BY <2>2 DEF Usable
    <3>2. client[p] \in Leads(p)
      BY <1>2 DEF Leads
    <3> QED
      BY <2>2, <3>1, <3>2
  <2> QED
    BY <2>1, <2>2 DEF Usable
<1> QED
  BY <1>1, <1>2

\* It is the least such set.
LEMMA UsableLeast ==
  ASSUME NEW S \in SUBSET Obj, root \subseteq S,
         \A p \in S : client[p] # Nil => client[p] \in S
  PROVE  Usable \subseteq S
<1>1. \A p \in S : Leads(p) \subseteq S
  BY DEF Leads
<1> QED
  BY <1>1 DEF Usable

\* The same of the state after a step.
LEMMA UsableLeastNext ==
  ASSUME NEW S \in SUBSET Obj, root' \subseteq S,
         \A p \in S : client'[p] # Nil => client'[p] \in S
  PROVE  Usable' \subseteq S
<1>1. \A p \in S : Leads(p)' \subseteq S
  BY DEF Leads
<1> QED
  BY <1>1 DEF Usable

\* The mark functions cover every client field, so the collector keeps
\* exactly what the program can get hold of.
LEMMA MarkedIsUsable ==
  ASSUME ClientField
  PROVE  Marked = Usable
<1>1. \A p \in Obj : Marks(p) = Leads(p)
  BY DEF ClientField, HasClient, Marks, Leads
<1>2. ASSUME NEW S \in SUBSET Obj
      PROVE  (\A p \in S : Marks(p) \subseteq S)
             <=> (\A p \in S : Leads(p) \subseteq S)
  BY <1>1
<1> QED
  BY <1>2 DEF Marked, Usable

-----------------------------------------------------------------------------
(***************************************************************************)
(* The invariant holds initially and every step preserves it.              *)
(***************************************************************************)

LEMMA InitIInv == Init => IInv
<1> SUFFICES ASSUME Init PROVE IInv
  OBVIOUS
<1> USE DEF Init
<1>1. TypeOK
  BY DEF TypeOK
<1>2. HandleLive /\ SoleOwner /\ LeakBounded /\ LeftAlone
  BY DEF HandleLive, SoleOwner, LeakBounded, LeftAlone, Wrappers
<1>3. Fresh /\ PartOfWhole /\ Typed /\ ClientField
  BY NoNativeAssumption DEF Fresh, PartOfWhole, Typed, ClientField
<1>4. Usable = {}
  BY DEF Usable
<1> QED
  BY <1>1, <1>2, <1>3, <1>4 DEF IInv, UsableAllocated

\* What a call makes keeps the facts about handles alone.
LEMMA MakeKeeps ==
  ASSUME TypeOK, Fresh, PartOfWhole, Typed, LeftAlone,
         NEW n \in Native, NEW k \in Kind, NEW parts \in SUBSET Native,
         NEW pk \in Kind \cup {"none"}, NEW loose \in SUBSET Native,
         parts = {} \/ pk \in Kind, parts = {} \/ n \notin loose,
         Make(n, k, parts, pk, loose)
  PROVE  Fresh' /\ PartOfWhole' /\ Typed' /\ LeftAlone'
<1> DEFINE whole == {n} \cup loose
<1>1. /\ \A m \in whole : parent[m] = NoNative /\ m \notin parts
                           /\ \A q \in Native : parent[q] # m
      /\ \A m \in parts : \A q \in Native : parent[q] # m
  BY DEF Fresh, Make
<1>2. /\ state' = [m \in Native |-> IF m \in whole \cup parts THEN "live" ELSE state[m]]
      /\ parent' = [m \in Native |-> IF m \in parts THEN n ELSE parent[m]]
      /\ left' = left \cup loose
  BY DEF Make
<1>3. Fresh'
  BY <1>1, <1>2 DEF TypeOK, Fresh
<1>4. PartOfWhole'
  BY <1>1, <1>2, NoNativeAssumption DEF TypeOK, PartOfWhole, Fresh
<1>5. Typed'
  BY DEF TypeOK, Typed, Make
<1>6. LeftAlone'
  <2> SUFFICES ASSUME NEW l \in left'
               PROVE  /\ state'[l] = "live" /\ parent'[l] = NoNative
                      /\ \A m \in Native : parent'[m] # l
    BY DEF LeftAlone
  <2>1. CASE l \in loose
    BY <1>1, <1>2, <2>1
  <2>2. CASE l \in left
    <3>1. state[l] = "live" /\ parent[l] = NoNative
          /\ \A m \in Native : parent[m] # l
      BY <2>2 DEF LeftAlone
    <3>2. l \in Native /\ l \notin whole \cup parts
      BY <2>2, <3>1 DEF TypeOK, Make
    <3> QED
      BY <1>2, <3>1, <3>2
  <2> QED
    BY <1>2, <2>1, <2>2
<1> QED
  BY <1>3, <1>4, <1>5, <1>6

\* A call that makes a handle and wraps it with a client in reach.
LEMMA WrapIInv ==
  ASSUME IInv,
         NEW o \in Obj, NEW n \in Native, NEW k \in Kind,
         NEW parts \in SUBSET Native, NEW pk \in Kind \cup {"none"},
         NEW loose \in SUBSET Native, n \notin loose,
         NEW c \in Usable \cup {Nil}, parts = {} \/ pk \in Kind,
         Make(n, k, parts, pk, loose), Wrap(o, k, n, c)
  PROVE  IInv'
<1> USE DEF IInv
<1>0. c \in Obj \cup {Nil}
  BY DEF Usable
<1>1. TypeOK'
  BY <1>0 DEF TypeOK, Make, Wrap
<1>2. parent[n] = NoNative /\ n \notin parts /\ \A m \in Native : parent[m] # n
  BY DEF Fresh, Make
<1>3. HandleLive'
  BY <1>2 DEF TypeOK, HandleLive, Wrappers, Make, Wrap
<1>4. SoleOwner'
  BY DEF TypeOK, SoleOwner, HandleLive, Wrappers, Make, Wrap
<1>5. LeakBounded'
  <2> SUFFICES ASSUME NEW m \in Native, state'[m] = "live", parent'[m] = NoNative
               PROVE  m \in left' <=> ~\E p \in Wrappers' : ptr'[p] = m
    BY DEF LeakBounded
  <2>1. CASE m = n
    <3>1. o \in Wrappers' /\ ptr'[o] = m
      BY <2>1 DEF TypeOK, Wrappers, Wrap, Kind
    <3>2. m \notin left'
      BY <2>1 DEF LeftAlone, Make
    <3> QED
      BY <3>1, <3>2
  <2>2. \A p \in Wrappers' : p # o => p \in Wrappers /\ ptr'[p] = ptr[p]
    BY DEF TypeOK, Wrappers, Wrap
  <2>3. CASE m \in loose
    <3>1. m \in left' /\ state[m] = "unborn"
      BY <2>3 DEF Make
    <3>2. ASSUME NEW p \in Wrappers', ptr'[p] = m PROVE FALSE
      <4>1. p # o
        BY <2>3, <3>2 DEF TypeOK, Wrap
      <4> QED
        BY <2>2, <3>1, <3>2, <4>1 DEF HandleLive
    <3> QED
      BY <3>1, <3>2
  <2>4. CASE m # n /\ m \notin loose
    <3>1. state[m] = "live" /\ parent[m] = NoNative /\ (m \in left' <=> m \in left)
      BY <2>4, NoNativeAssumption DEF TypeOK, Make
    <3>2. (\E p \in Wrappers' : ptr'[p] = m) <=> (\E p \in Wrappers : ptr[p] = m)
      <4>1. ptr'[o] = n /\ o \notin Wrappers
        BY DEF TypeOK, Wrappers, Wrap
      <4>2. \A p \in Wrappers : p \in Wrappers' /\ ptr'[p] = ptr[p]
        BY <4>1 DEF TypeOK, Wrappers, Wrap
      <4> QED
        BY <2>2, <2>4, <4>1, <4>2
    <3> QED
      BY <3>1, <3>2 DEF LeakBounded
  <2> QED
    BY <2>1, <2>3, <2>4
<1>6. Fresh' /\ PartOfWhole' /\ Typed' /\ LeftAlone'
  BY MakeKeeps
<1>7. ClientField'
  BY DEF TypeOK, ClientField, Wrap
<1>9. UsableAllocated'
  <2> DEFINE S == Usable \cup {o}
  <2>1. o \notin Usable
    BY DEF UsableAllocated, Wrap
  <2>2. S \in SUBSET Obj /\ root' \subseteq S
    BY UsableClosed DEF Usable, Wrap
  <2>3. ASSUME NEW p \in S, client'[p] # Nil PROVE client'[p] \in S
    BY <2>1, <2>2, <2>3, UsableClosed DEF TypeOK, Wrap
  <2>4. Usable' \subseteq S
    BY <2>2, <2>3, UsableLeastNext
  <2>5. ASSUME NEW p \in S PROVE kind'[p] # "free"
    BY <2>1, <2>2 DEF UsableAllocated, TypeOK, Wrap, Kind
  <2> QED
    BY <2>4, <2>5 DEF UsableAllocated
<1> QED
  BY <1>1, <1>3, <1>4, <1>5, <1>6, <1>7, <1>9

\* A call that makes a handle and leaves it.
Leaving ==
  \E n \in Native, k \in Kind :
    /\ phase = "run"
    /\ Make(n, k, {}, "none", {n})
    /\ UNCHANGED <<kind, ptr, client, root, phase>>

LEMMA LeaveIInv ==
  ASSUME IInv, Leaving
  PROVE  IInv' /\ Usable' = Usable
<1> USE DEF IInv
<1>1. PICK n \in Native, k \in Kind :
        Make(n, k, {}, "none", {n}) /\ UNCHANGED <<kind, ptr, client, root, phase>>
  BY DEF Leaving
<1>2. /\ state[n] = "unborn" /\ parent' = parent /\ left' = left \cup {n}
      /\ state' = [state EXCEPT ![n] = "live"]
  BY <1>1 DEF TypeOK, Make
<1>3. TypeOK'
  BY <1>1 DEF TypeOK, Make
<1>4. Wrappers' = Wrappers /\ \A o \in Wrappers : ptr[o] # n
  BY <1>1, <1>2 DEF Wrappers, HandleLive
<1>5. HandleLive' /\ SoleOwner'
  BY <1>1, <1>2, <1>4 DEF TypeOK, HandleLive, SoleOwner, Make
<1>6. LeakBounded'
  BY <1>1, <1>2, <1>4 DEF TypeOK, LeakBounded
<1>7. Fresh' /\ PartOfWhole' /\ Typed' /\ LeftAlone'
  BY <1>1, MakeKeeps
<1>8. ClientField' /\ Usable' = Usable
  BY <1>1 DEF ClientField, Usable, Leads
<1>9. UsableAllocated'
  BY <1>1, <1>8 DEF UsableAllocated
<1> QED
  BY <1>3, <1>5, <1>6, <1>7, <1>8, <1>9

\* Freeing an object that is out of reach.
LEMMA DeallocIInv ==
  ASSUME IInv, NEW o \in Obj, Dealloc(o), phase = "run" => o \notin Usable
  PROVE  IInv'
<1> USE DEF IInv
<1>1. TypeOK'
  BY DEF TypeOK, Dealloc, Release
<1>2. o \in Wrappers /\ ptr[o] \in Native /\ state[ptr[o]] = "live"
      /\ parent[ptr[o]] = NoNative
  BY DEF Wrappers, HandleLive, Dealloc
<1>3. \A p \in Wrappers' : p \in Wrappers /\ p # o
  BY DEF TypeOK, Wrappers, Dealloc
<1>4. ASSUME NEW p \in Wrappers, p # o
      PROVE  /\ kind'[p] = kind[p] /\ ptr'[p] = ptr[p]
             /\ state'[ptr[p]] = state[ptr[p]]
  <2>1. ptr[p] \in Native /\ parent[ptr[p]] = NoNative /\ ptr[p] # ptr[o]
    BY <1>2, <1>4 DEF HandleLive, SoleOwner
  <2>2. ptr[p] \notin Tree(ptr[o])
    BY <1>2, <2>1, NoNativeAssumption DEF Tree, Parts
  <2> QED
    BY <1>4, <2>1, <2>2 DEF TypeOK, Wrappers, Dealloc, Release
<1>5. HandleLive'
  BY <1>3, <1>4 DEF HandleLive, Dealloc
<1>6. SoleOwner'
  BY <1>3, <1>4 DEF SoleOwner
<1>7. LeakBounded'
  <2> SUFFICES ASSUME NEW m \in Native, state'[m] = "live", parent'[m] = NoNative
               PROVE  m \in left' <=> ~\E p \in Wrappers' : ptr'[p] = m
    BY DEF LeakBounded
  <2>1. state[m] = "live" /\ parent[m] = NoNative /\ m # ptr[o] /\ left' = left
    BY DEF Dealloc, Release, Tree
  <2>2. (\E p \in Wrappers' : ptr'[p] = m) <=> (\E p \in Wrappers : ptr[p] = m)
    BY <2>1, <1>3, <1>4 DEF Wrappers
  <2> QED
    BY <2>1, <2>2 DEF LeakBounded
<1>7a. LeftAlone'
  <2> SUFFICES ASSUME NEW l \in left PROVE state'[l] = "live"
    BY DEF LeftAlone, Dealloc
  <2>1. l \in Native /\ state[l] = "live" /\ parent[l] = NoNative
    BY DEF TypeOK, LeftAlone
  <2>2. l # ptr[o]
    BY <1>2, <2>1 DEF LeakBounded
  <2> QED
    BY <1>2, <2>1, <2>2, NoNativeAssumption DEF Dealloc, Release, Tree, Parts
<1>8. Fresh'
  BY DEF TypeOK, Fresh, Dealloc, Release
<1>9. PartOfWhole'
  <2> SUFFICES ASSUME NEW m \in Native, parent[m] \in Native
               PROVE  /\ parent[parent[m]] = NoNative
                      /\ state'[m] = state'[parent[m]]
    BY DEF PartOfWhole, Dealloc
  <2>1. parent[parent[m]] = NoNative /\ state[m] = state[parent[m]]
    BY DEF PartOfWhole
  <2>2. m \in Tree(ptr[o]) <=> parent[m] \in Tree(ptr[o])
    BY <1>2, <2>1, NoNativeAssumption DEF Tree, Parts
  <2> QED
    BY <2>1, <2>2 DEF Dealloc, Release
<1>10. ClientField' /\ Typed'
  BY <1>2 DEF TypeOK, ClientField, Typed, PartOfWhole, Dealloc, Release, Tree, Parts
<1>11. UsableAllocated'
  <2> SUFFICES ASSUME phase = "run" PROVE \A p \in Usable' : kind'[p] # "free"
    BY DEF UsableAllocated, Dealloc
  <2>1. Usable \in SUBSET Obj /\ root' \subseteq Usable /\ o \notin Usable
    BY UsableClosed DEF Usable, Dealloc
  <2>2. ASSUME NEW p \in Usable, client'[p] # Nil PROVE client'[p] \in Usable
    BY <2>1, <2>2, UsableClosed DEF TypeOK, Dealloc
  <2>3. Usable' \subseteq Usable
    BY <2>1, <2>2, UsableLeastNext
  <2> QED
    BY <2>1, <2>3 DEF UsableAllocated, TypeOK, Dealloc
<1> QED
  BY <1>1, <1>5, <1>6, <1>7, <1>7a, <1>8, <1>9, <1>10, <1>11

\* Steps that only move references: nothing comes into reach by them.
LEMMA ReachIInv ==
  ASSUME IInv, TypeOK', ClientField',
         UNCHANGED <<kind, ptr, state, type, parent, left>>,
         phase' = "run" => phase = "run" /\ Usable' \subseteq Usable
  PROVE  IInv'
<1> USE DEF IInv
<1>1. HandleLive' /\ SoleOwner' /\ LeakBounded' /\ LeftAlone'
  BY DEF HandleLive, SoleOwner, LeakBounded, LeftAlone, Wrappers
<1>2. Fresh' /\ PartOfWhole' /\ Typed'
  BY DEF Fresh, PartOfWhole, Typed
<1>3. UsableAllocated'
  BY DEF UsableAllocated
<1> QED
  BY <1>1, <1>2, <1>3

\* The references moved by client=, client, and by dropping an object.
LEMMA SetClientIInv ==
  ASSUME IInv, NEW op \in root, SetClient(op)
  PROVE  IInv' /\ Usable' \subseteq Usable
<1> USE DEF IInv
<1>1. PICK c \in root : kind[op] = "ObjectPath"
                        /\ client' = [client EXCEPT ![op] = c]
  BY DEF SetClient
<1>2. TypeOK' /\ ClientField'
  BY <1>1 DEF TypeOK, ClientField, HasClient, SetClient
<1>3. Usable \in SUBSET Obj /\ root' \subseteq Usable /\ c \in Usable
  BY UsableClosed DEF Usable, SetClient
<1>4. ASSUME NEW p \in Usable, client'[p] # Nil PROVE client'[p] \in Usable
  BY <1>1, <1>3, <1>4, UsableClosed DEF TypeOK
<1>5. Usable' \subseteq Usable
  BY <1>3, <1>4, UsableLeastNext
<1> QED
  BY <1>2, <1>5, ReachIInv DEF SetClient

LEMMA RefuseClientIInv ==
  ASSUME IInv, NEW op \in root, RefuseClient(op)
  PROVE  IInv' /\ Usable' \subseteq Usable
<1> USE DEF IInv
<1>1. TypeOK' /\ ClientField' /\ Usable' = Usable
  BY DEF TypeOK, ClientField, Usable, Leads, RefuseClient
<1> QED
  BY <1>1, ReachIInv DEF RefuseClient

LEMMA GetClientIInv ==
  ASSUME IInv, NEW o \in root, GetClient(o)
  PROVE  IInv' /\ Usable' \subseteq Usable
<1> USE DEF IInv
<1>1. TypeOK' /\ ClientField'
  BY DEF TypeOK, ClientField, GetClient
<1>2. Usable \in SUBSET Obj /\ root' \subseteq Usable
  BY UsableClosed DEF Usable, GetClient
<1>3. ASSUME NEW p \in Usable, client'[p] # Nil PROVE client'[p] \in Usable
  BY <1>3, UsableClosed DEF GetClient
<1>4. Usable' \subseteq Usable
  BY <1>2, <1>3, UsableLeastNext
<1> QED
  BY <1>1, <1>4, ReachIInv DEF GetClient

LEMMA DropIInv ==
  ASSUME IInv, NEW o \in root, Drop(o)
  PROVE  IInv' /\ Usable' \subseteq Usable
<1> USE DEF IInv
<1>1. TypeOK' /\ ClientField'
  BY DEF TypeOK, ClientField, Drop
<1>2. Usable \in SUBSET Obj /\ root' \subseteq Usable
  BY UsableClosed DEF Usable, Drop
<1>3. ASSUME NEW p \in Usable, client'[p] # Nil PROVE client'[p] \in Usable
  BY <1>3, UsableClosed DEF Drop
<1>4. Usable' \subseteq Usable
  BY <1>2, <1>3, UsableLeastNext
<1> QED
  BY <1>1, <1>4, ReachIInv DEF Drop

LEMMA BeginExitIInv == IInv /\ BeginExit => IInv'
<1> SUFFICES ASSUME IInv, BeginExit PROVE IInv'
  OBVIOUS
<1>1. TypeOK' /\ ClientField'
  BY DEF IInv, TypeOK, ClientField, BeginExit
<1> QED
  BY <1>1, ReachIInv DEF BeginExit

LEMMA ExitSfccIInv == IInv /\ Exit_sfcc => IInv'
<1> SUFFICES ASSUME IInv, Exit_sfcc PROVE IInv'
  OBVIOUS
<1>1. TypeOK' /\ ClientField'
  BY DEF IInv, TypeOK, ClientField, Exit_sfcc
<1> QED
  BY <1>1, ReachIInv DEF Exit_sfcc

\* A step that wraps a new handle, whichever call makes it.
Wrapping ==
  \E o \in Obj, n \in Native, k \in Kind, parts \in SUBSET Native,
     pk \in Kind \cup {"none"}, loose \in SUBSET Native, c \in Usable \cup {Nil} :
    /\ parts = {} \/ pk \in Kind
    /\ n \notin loose
    /\ Make(n, k, parts, pk, loose)
    /\ Wrap(o, k, n, c)

\* Most calls leave nothing.
LEMMA WrappingAll ==
  ASSUME NEW o \in Obj, NEW n \in Native, NEW k \in Kind, NEW parts \in SUBSET Native,
         NEW pk \in Kind \cup {"none"}, NEW c \in Usable \cup {Nil},
         parts = {} \/ pk \in Kind, Allocate(n, k, parts, pk), Wrap(o, k, n, c)
  PROVE  Wrapping
<1>1. {} \in SUBSET Native /\ n \notin {} /\ Make(n, k, parts, pk, {})
  BY DEF Allocate
<1> QED
  BY <1>1 DEF Wrapping

\* The steps of a program are of three sorts.
LEMMA ProgramSteps ==
  ASSUME IInv, Program
  PROVE  \/ Wrapping
         \/ Leaving
         \/ \E o \in root : SetClient(o) \/ RefuseClient(o) \/ GetClient(o) \/ Drop(o)
<1> USE DEF IInv, Kind
<1>0. root \subseteq Usable /\ {} \in SUBSET Native
  BY UsableClosed
<1>1. ASSUME Connect PROVE Wrapping
  BY <1>0, <1>1, WrappingAll DEF Connect
<1>2. ASSUME NewObjectPath PROVE Wrapping
  BY <1>0, <1>2, WrappingAll DEF NewObjectPath
<1>3. ASSUME NewInstance PROVE Wrapping
  BY <1>0, <1>3, WrappingAll DEF NewInstance
<1>4. ASSUME NewString PROVE Wrapping
  BY <1>0, <1>4, WrappingAll DEF NewString
<1>5. ASSUME NEW c \in root, EnumerationResult(c) PROVE Wrapping
  BY <1>0, <1>5, WrappingAll DEF EnumerationResult
<1>6. ASSUME NEW c \in root, GetInstance(c) PROVE Wrapping
  BY <1>0, <1>6, WrappingAll DEF GetInstance
<1>7. ASSUME NEW c \in root, GetClass(c) PROVE Wrapping
  BY <1>0, <1>7, WrappingAll DEF GetClass
<1>8. ASSUME NEW c \in root, CreateInstance(c) PROVE Wrapping
  BY <1>0, <1>8, WrappingAll DEF CreateInstance
<1>9. ASSUME NEW c \in root, ReplyValue(c) PROVE Wrapping
  <2>1. PICK o \in Obj, n \in Native, m \in Native, k \in Kind \ {"Client", "String"} :
          /\ kind[c] = "Client" /\ m # n
          /\ \E loose \in {{}, {m}} : Make(n, k, {}, "none", loose)
          /\ Wrap(o, k, n, c)
    BY <1>9 DEF ReplyValue
  <2>2. PICK loose \in SUBSET Native : n \notin loose /\ Make(n, k, {}, "none", loose)
    BY <2>1
  <2> QED
    BY <1>0, <2>1, <2>2 DEF Wrapping
<1>10. ASSUME NEW i \in root, InstanceObjectPath(i) PROVE Wrapping
  <2>1. client[i] \in Usable \cup {Nil}
    BY <1>0, UsableClosed
  <2> QED
    BY <1>0, <1>10, <2>1, WrappingAll DEF InstanceObjectPath
<1>11. ASSUME NEW src \in root, ToValue(src) PROVE Wrapping
  <2>1. client[src] \in Usable \cup {Nil}
    BY <1>0, UsableClosed
  <2>2. PICK m \in Parts(ptr[src]), o \in Obj, n \in Native :
          Allocate(n, type[m], {}, "none") /\ Wrap(o, type[m], n, client[src])
    BY <1>11 DEF ToValue
  <2>3. type[m] \in Kind
    <3>1. src \in Wrappers
      BY <1>0, <1>11 DEF ToValue, Wrappers, HasClient, TypeOK
    <3>2. m \in Native /\ parent[m] = ptr[src] /\ state[ptr[src]] = "live"
          /\ ptr[src] \in Native
      BY <3>1 DEF Parts, HandleLive
    <3> QED
      BY <3>2 DEF Typed, PartOfWhole
  <2> QED
    BY <1>0, <2>1, <2>2, <2>3, WrappingAll
<1>12. ASSUME LeaveString \/ \E c \in root : LoseAnswer(c) PROVE Leaving
  BY <1>12 DEF LeaveString, LoseAnswer, Leaving
<1> QED
  BY <1>1, <1>2, <1>3, <1>4, <1>5, <1>6, <1>7, <1>8, <1>9, <1>10, <1>11, <1>12
  DEF Program

-----------------------------------------------------------------------------
(***************************************************************************)
(* The theorems.                                                           *)
(***************************************************************************)

LEMMA NextIInv == IInv /\ [Next]_vars => IInv'
<1> SUFFICES ASSUME IInv, [Next]_vars PROVE IInv'
  OBVIOUS
<1>1. CASE Program
  <2>1. CASE Wrapping
    BY <2>1, WrapIInv DEF Wrapping
  <2>2. CASE Leaving
    BY <2>2, LeaveIInv
  <2>3. ASSUME NEW o \in root,
               SetClient(o) \/ RefuseClient(o) \/ GetClient(o) \/ Drop(o)
        PROVE  IInv'
    BY <2>3, SetClientIInv, RefuseClientIInv, GetClientIInv, DropIInv
  <2> QED
    BY <1>1, <2>1, <2>2, <2>3, ProgramSteps
<1>2. ASSUME NEW o \in Obj, Sweep(o) PROVE IInv'
  BY <1>2, MarkedIsUsable, DeallocIInv DEF Sweep, IInv
<1>3. CASE BeginExit
  BY <1>3, BeginExitIInv
<1>4. CASE Exit_sfcc
  BY <1>4, ExitSfccIInv
<1>5. ASSUME NEW o \in Obj, Finalize(o) PROVE IInv'
  BY <1>5, DeallocIInv DEF Finalize
<1>6. CASE UNCHANGED vars
  <2>1. TypeOK' /\ ClientField' /\ Usable' = Usable
    BY <1>6 DEF IInv, TypeOK, ClientField, Usable, Leads, vars
  <2> QED
    BY <1>6, <2>1, ReachIInv DEF vars
<1> QED
  BY <1>1, <1>2, <1>3, <1>4, <1>5, <1>6 DEF Next, Exit

THEOREM Invariance == Spec => []IInv
<1> QED
  BY InitIInv, NextIInv, PTL DEF Spec

\* The variables keep to their types.
THEOREM TypeCorrect == Spec => []TypeOK
<1>1. IInv => TypeOK
  BY DEF IInv
<1> QED
  BY <1>1, Invariance, PTL

\* No wrapper is ever left with a released handle, for any number of objects
\* and handles.
THEOREM HandlesStayLive == Spec => []HandleLive
<1>1. IInv => HandleLive
  BY DEF IInv
<1> QED
  BY <1>1, Invariance, PTL

\* No handle ever has two wrappers that would both release it.
THEOREM HandlesHaveOneOwner == Spec => []SoleOwner
<1>1. IInv => SoleOwner
  BY DEF IInv
<1> QED
  BY <1>1, Invariance, PTL

\* Every allocated handle has a wrapper whose dealloc releases it, or is one the
\* calls of cim_client.c and sfcc.c are known to leave: the originals of cloned
\* results (cim_client.c:1129, 1216), lost answers, strings (sfcc.c:295).
THEOREM LeakIsBounded == Spec => []LeakBounded
<1>1. IInv => LeakBounded
  BY DEF IInv
<1> QED
  BY <1>1, Invariance, PTL

\* What a step may do to an object in reach of the program: nothing.
LEMMA NextClientKept ==
  ASSUME IInv, [Next]_vars, NEW o \in Usable, phase' = "run"
  PROVE  kind[o] # "free" /\ kind'[o] = kind[o] /\ ptr'[o] = ptr[o]
<1>1. phase = "run" /\ o \in Obj /\ kind[o] # "free"
  <2>1. phase = "run"
    <3>1. CASE Program
      BY <3>1, ProgramSteps
         DEF Wrapping, Wrap, Leaving, SetClient, RefuseClient, GetClient, Drop
    <3>2. CASE ~Program
      BY <3>2 DEF Next, Sweep, BeginExit, Exit, Exit_sfcc, Finalize, Dealloc, vars
    <3> QED
      BY <3>1, <3>2
  <2> QED
    BY <2>1 DEF IInv, UsableAllocated, Usable
<1>2. CASE Program
  <2>1. CASE Wrapping
    BY <1>1, <2>1 DEF Wrapping, Wrap, IInv, TypeOK
  <2>2. CASE Leaving \/ \E p \in root : \/ SetClient(p) \/ RefuseClient(p)
                                        \/ GetClient(p) \/ Drop(p)
    BY <1>1, <2>2 DEF Leaving, SetClient, RefuseClient, GetClient, Drop
  <2> QED
    BY <1>2, <2>1, <2>2, ProgramSteps
<1>3. ASSUME NEW p \in Obj, Sweep(p)
      PROVE  kind'[o] = kind[o] /\ ptr'[o] = ptr[o]
  <2>1. p # o
    BY <1>3, MarkedIsUsable DEF Sweep, IInv
  <2> QED
    BY <1>1, <1>3, <2>1 DEF Sweep, Dealloc, IInv, TypeOK
<1>4. CASE BeginExit \/ Exit \/ UNCHANGED vars
  BY <1>1, <1>4 DEF BeginExit, Exit, Exit_sfcc, Finalize, vars
<1> QED
  BY <1>1, <1>2, <1>3, <1>4 DEF Next

\* The collector never frees, or reuses the slot of, an object within reach.
THEOREM ReachableIsKept == Spec => ClientKept
<1>1. IInv /\ [Next]_vars =>
        [\A o \in Usable : phase' = "run" =>
           kind[o] # "free" /\ kind'[o] = kind[o] /\ ptr'[o] = ptr[o]]_vars
  BY NextClientKept
<1> QED
  BY <1>1, Invariance, PTL DEF Spec, ClientKept

\* Once the program has ended there is Exit_sfcc, once, and the finalizers, each
\* of which takes one wrapper away; no other object is made.
FreesOne ==
  \/ phase = "exit" /\ phase' = "down" /\ Wrappers' = Wrappers
  \/ phase' = phase /\ \E o \in Wrappers : Wrappers' = Wrappers \ {o}

ExitFrees == [][(phase \in {"exit", "down"}) => FreesOne]_vars

\* Without wrappers, no handle is allocated but those a call left.
OnlyLeftRemain == Wrappers = {} => \A n \in Native \ left : state[n] # "live"

LEMMA LastWrapper == IInv => OnlyLeftRemain
<1> SUFFICES ASSUME IInv, Wrappers = {}, NEW n \in Native \ left, state[n] = "live"
             PROVE  FALSE
  BY DEF OnlyLeftRemain
<1>1. CASE parent[n] = NoNative
  BY <1>1 DEF IInv, LeakBounded
<1>2. CASE parent[n] # NoNative
  <2>1. parent[n] \in Native /\ parent[parent[n]] = NoNative /\ state[parent[n]] = "live"
    BY <1>2 DEF IInv, TypeOK, PartOfWhole
  <2>2. parent[n] \notin left
    BY DEF IInv, LeftAlone
  <2> QED
    BY <2>1, <2>2 DEF IInv, LeakBounded
<1> QED
  BY <1>1, <1>2

LEMMA NextExitFrees ==
  ASSUME IInv, Next, phase \in {"exit", "down"}
  PROVE  FreesOne
<1>1. CASE Program
  BY <1>1, ProgramSteps
     DEF Wrapping, Wrap, Leaving, SetClient, RefuseClient, GetClient, Drop
<1>2. CASE Exit_sfcc
  BY <1>2 DEF FreesOne, Exit_sfcc, Wrappers
<1>3. ASSUME NEW o \in Obj, Finalize(o)
      PROVE  phase' = phase /\ o \in Wrappers /\ Wrappers' = Wrappers \ {o}
  BY <1>3 DEF Finalize, Dealloc, Wrappers, IInv, TypeOK
<1> QED
  BY <1>1, <1>2, <1>3 DEF FreesOne, Next, Exit, Sweep, BeginExit

\* The exit gives every handle back that a Ruby object holds, provided that the
\* finalizers run (comment at cim_client.c:210): each takes a wrapper away, none
\* is made, and with the last wrapper goes the last handle, parts included, but
\* for those the calls had left.
THEOREM ExitGivesBack == Spec => ExitFrees /\ []OnlyLeftRemain
<1>1. IInv /\ [Next]_vars =>
        [(phase \in {"exit", "down"}) => FreesOne]_vars
  BY NextExitFrees
<1>2. IInv => OnlyLeftRemain
  BY LastWrapper
<1> QED
  BY <1>1, <1>2, Invariance, PTL DEF Spec, ExitFrees

-----------------------------------------------------------------------------
(***************************************************************************)
(* The wrapper layer implements the handle table.                          *)
(***************************************************************************)

Made == {n \in Native : state[n] # "unborn"}
Gone == {n \in Native : state[n] = "released"}

\* What was in reach stays so if no reference of a reachable object changes
\* and no root is given up.
LEMMA UsableGrows ==
  ASSUME TypeOK, root \subseteq root',
         \A p \in Usable : client'[p] = client[p]
  PROVE  Usable \subseteq Usable'
<1>1. ASSUME NEW o \in Usable, NEW S \in SUBSET Obj, root' \subseteq S,
             \A p \in S : Leads(p)' \subseteq S
      PROVE  o \in S
  <2> DEFINE T == S \cap Usable
  <2>1. T \in SUBSET Obj /\ root \subseteq T
    BY <1>1, UsableClosed
  <2>2. ASSUME NEW p \in T, client[p] # Nil PROVE client[p] \in T
    <3>1. client'[p] \in Leads(p)'
      BY <2>2 DEF Leads
    <3> QED
      BY <1>1, <2>2, <3>1, UsableClosed
  <2>3. Usable \subseteq T
    BY <2>1, <2>2, UsableLeast
  <2> QED
    BY <2>3
<1>2. Usable \subseteq Obj
  BY DEF Usable
<1> QED
  BY <1>1, <1>2 DEF Usable

\* Wrapping a new handle is an Acquire of the handle and its parts.
LEMMA WrappingAcquires == IInv /\ Wrapping => Handles!Acquire
<1> SUFFICES ASSUME IInv, Wrapping PROVE Handles!Acquire
  OBVIOUS
<1> USE DEF IInv
<1>1. PICK o \in Obj, n \in Native, k \in Kind, parts \in SUBSET Native,
           pk \in Kind \cup {"none"}, loose \in SUBSET Native, c \in Usable \cup {Nil} :
        Make(n, k, parts, pk, loose) /\ Wrap(o, k, n, c)
  BY DEF Wrapping
<1> DEFINE S == {n} \cup parts
           T == S \cup loose
<1>2. /\ T \in SUBSET (Native \ Made) /\ T # {} /\ S \in SUBSET T
      /\ Made' = Made \cup T /\ Gone' = Gone
  BY <1>1 DEF Made, Gone, TypeOK, Make
<1>3. phase = "run" /\ phase' = "run" /\ o \notin Usable /\ o \in Usable'
  <2>1. phase = "run" /\ phase' = "run" /\ o \notin Usable /\ o \in root'
    BY <1>1 DEF UsableAllocated, Wrap
  <2> QED
    BY <2>1 DEF Usable
<1>4. Usable' = Usable \cup {o}
  <2>1. \A p \in Usable : client'[p] = client[p]
    BY <1>1, <1>3 DEF TypeOK, Wrap
  <2>2. Usable \subseteq Usable'
    BY <1>1, <2>1, UsableGrows DEF Wrap
  <2>3. Usable \cup {o} \in SUBSET Obj /\ root' \subseteq Usable \cup {o}
    BY <1>1, UsableClosed DEF Usable, Wrap
  <2>4. ASSUME NEW p \in Usable \cup {o}, client'[p] # Nil
        PROVE  client'[p] \in Usable \cup {o}
    BY <1>1, <2>1, <2>4, UsableClosed DEF TypeOK, Wrap
  <2>5. Usable' \subseteq Usable \cup {o}
    BY <2>3, <2>4, UsableLeastNext
  <2> QED
    BY <1>3, <2>2, <2>5
<1>5. ASSUME NEW p \in Usable PROVE Tree(ptr[p])' = Tree(ptr[p])
  <2>1. ptr'[p] = ptr[p] /\ ptr[p] \in Native /\ state[ptr[p]] = "live"
    BY <1>1, <1>3 DEF TypeOK, UsableAllocated, HandleLive, Wrappers, Usable, Wrap
  <2>2. \A m \in Native : parent'[m] = ptr[p] <=> parent[m] = ptr[p]
    BY <1>1, <2>1, NoNativeAssumption DEF TypeOK, Fresh, Make
  <2> QED
    BY <2>1, <2>2 DEF Tree, Parts
<1>6. Tree(ptr[o])' = S
  <2>1. ptr'[o] = n /\ \A m \in Native : parent'[m] = n <=> m \in parts
    BY <1>1 DEF TypeOK, Fresh, Wrap, Make
  <2> QED
    BY <2>1 DEF Tree, Parts
<1>7. UsableNative' = UsableNative \cup S
  BY <1>3, <1>4, <1>5, <1>6 DEF UsableNative
<1> QED
  BY <1>2, <1>7 DEF Handles!Acquire, Made, Gone

\* A handle left at once is acquired and never used.
LEMMA LeavingAcquires == IInv /\ Leaving => Handles!Acquire
<1> SUFFICES ASSUME IInv, Leaving PROVE Handles!Acquire
  OBVIOUS
<1>1. PICK n \in Native, k \in Kind :
        Make(n, k, {}, "none", {n}) /\ UNCHANGED <<kind, ptr, client, root, phase>>
  BY DEF Leaving
<1> DEFINE S == {n}
<1>2. /\ S \in SUBSET (Native \ Made) /\ S # {} /\ {} \in SUBSET S
      /\ Made' = Made \cup S /\ Gone' = Gone
  BY <1>1 DEF IInv, TypeOK, Made, Gone, Make
<1>3. Usable' = Usable /\ parent' = parent
  BY <1>1, LeaveIInv DEF IInv, TypeOK, Make
<1>4. UsableNative' = UsableNative \cup {}
  BY <1>1, <1>3 DEF UsableNative, Tree, Parts
<1> QED
  BY <1>2, <1>4 DEF Handles!Acquire, Made, Gone

\* A step that changes references only is a Forget.
LEMMA MovingForgets ==
  ASSUME UNCHANGED <<ptr, state, parent>>,
         phase' = "run" => phase = "run" /\ Usable' \subseteq Usable
  PROVE  Handles!Forget
<1>1. UsableNative' \subseteq UsableNative
  BY DEF UsableNative, Tree, Parts
<1> QED
  BY <1>1 DEF Handles!Forget

\* Freeing an object out of reach is a Reclaim of its handle and parts.
LEMMA DeallocReclaims ==
  ASSUME IInv, NEW o \in Obj, Dealloc(o), phase = "run" => o \notin Usable
  PROVE  Handles!Reclaim
<1> USE DEF IInv
<1> DEFINE S == Tree(ptr[o])
<1>1. /\ o \in Wrappers /\ ptr[o] \in Native /\ state[ptr[o]] = "live"
      /\ parent[ptr[o]] = NoNative
  BY DEF Wrappers, HandleLive, Dealloc
<1>2. S \in SUBSET Made /\ S \cap Gone = {}
  BY <1>1 DEF Tree, Parts, PartOfWhole, Made, Gone
<1>3. Made' = Made /\ Gone' = Gone \cup S
  BY <1>2 DEF Made, Gone, TypeOK, Dealloc, Release
<1>4. phase' = "run" => Usable' = Usable
  <2> SUFFICES ASSUME phase = "run" PROVE Usable' = Usable
    BY DEF Dealloc
  <2>1. /\ Usable \in SUBSET Obj /\ root' = root /\ root \subseteq Usable
        /\ \A p \in Usable : client'[p] = client[p]
    BY UsableClosed DEF TypeOK, Usable, Dealloc
  <2>2. Usable \subseteq Usable'
    BY <2>1, UsableGrows
  <2>3. Usable' \subseteq Usable
    BY <2>1, UsableClosed, UsableLeastNext
  <2> QED
    BY <2>2, <2>3
<1>5. UsableNative' = UsableNative
  <2>1. CASE phase # "run"
    BY <2>1 DEF UsableNative, Dealloc
  <2>2. CASE phase = "run"
    <3>1. \A p \in Usable : ptr'[p] = ptr[p]
      BY <2>2 DEF TypeOK, Usable, Dealloc
    <3>2. \A p \in Usable : Tree(ptr[p])' = Tree(ptr[p])
      BY <3>1 DEF Tree, Parts, Dealloc
    <3> QED
      BY <1>4, <2>2, <3>2 DEF UsableNative, Dealloc
  <2> QED
    BY <2>1, <2>2
<1>6. S \cap UsableNative = {}
  <2> SUFFICES ASSUME phase = "run", NEW p \in Usable, NEW m \in S, m \in Tree(ptr[p])
               PROVE  FALSE
    BY DEF UsableNative
  <2>1. p \in Wrappers /\ p # o
    BY DEF UsableAllocated, Wrappers, Usable
  <2>2. ptr[p] # ptr[o] /\ ptr[p] \in Native /\ parent[ptr[p]] = NoNative
    BY <1>1, <2>1 DEF SoleOwner, HandleLive
  <2> QED
    BY <1>1, <2>2, NoNativeAssumption DEF Tree, Parts
<1> QED
  BY <1>2, <1>3, <1>5, <1>6 DEF Handles!Reclaim, Made, Gone

\* Each step of the wrapper layer is a step of the handle table, or none.
LEMMA NextImplements ==
  ASSUME IInv, [Next]_vars
  PROVE  [Handles!Next]_(Handles!vars)
<1>1. CASE Program
  <2>1. CASE Wrapping
    BY <2>1, WrappingAcquires DEF Handles!Next
  <2>2. ASSUME NEW o \in root, SetClient(o) PROVE Handles!Forget
    BY <2>2, SetClientIInv, MovingForgets DEF SetClient
  <2>3. ASSUME NEW o \in root, GetClient(o) PROVE Handles!Forget
    BY <2>3, GetClientIInv, MovingForgets DEF GetClient
  <2>4. ASSUME NEW o \in root, Drop(o) PROVE Handles!Forget
    BY <2>4, DropIInv, MovingForgets DEF Drop
  <2>5. ASSUME NEW o \in root, RefuseClient(o) PROVE Handles!Forget
    BY <2>5, RefuseClientIInv, MovingForgets DEF RefuseClient
  <2>6. CASE Leaving
    BY <2>6, LeavingAcquires DEF Handles!Next
  <2> QED
    BY <1>1, <2>1, <2>2, <2>3, <2>4, <2>5, <2>6, ProgramSteps DEF Handles!Next
<1>2. ASSUME NEW o \in Obj, Sweep(o) PROVE Handles!Reclaim
  BY <1>2, MarkedIsUsable, DeallocReclaims DEF Sweep, IInv
<1>3. CASE BeginExit
  BY <1>3, MovingForgets DEF BeginExit, Handles!Next
<1>4. CASE Exit_sfcc
  BY <1>4, MovingForgets DEF Exit_sfcc, Handles!Next
<1>5. ASSUME NEW o \in Obj, Finalize(o) PROVE Handles!Reclaim
  BY <1>5, DeallocReclaims DEF Finalize
<1>6. CASE UNCHANGED vars
  <2>1. Usable' = Usable /\ phase' = phase
    BY <1>6 DEF Usable, Leads, vars
  <2> QED
    BY <1>6, <2>1, MovingForgets DEF vars, Handles!Next
<1> QED
  BY <1>1, <1>2, <1>3, <1>4, <1>5, <1>6 DEF Next, Exit, Handles!Next

\* Whatever the program, the collector and the exit do, handles are acquired
\* once, reclaimed at most once, and never while they can be used.
THEOREM Implementation == Spec => ImplementsHandleTable
<1>1. Init => Handles!Init
  <2> SUFFICES ASSUME Init PROVE Handles!Init
    OBVIOUS
  <2>1. Made = {} /\ Gone = {}
    BY DEF Init, Made, Gone
  <2>2. Usable = {}
    BY DEF Init, Usable, Leads
  <2> QED
    BY <2>1, <2>2 DEF Handles!Init, Made, Gone, UsableNative
<1>2. IInv /\ [Next]_vars => [Handles!Next]_(Handles!vars)
  BY NextImplements
<1> QED
  BY <1>1, <1>2, Invariance, PTL DEF Spec, ImplementsHandleTable, Handles!Spec
=============================================================================

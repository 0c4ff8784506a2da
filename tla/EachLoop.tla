------------------------------ MODULE EachLoop ------------------------------
(***************************************************************************)
(* The loops over what the native library keeps by name and index: the     *)
(* properties and qualifiers of classes and instances, the keys of object  *)
(* paths, the elements of enumerations.                                    *)
(*                                                                         *)
(* A loop reads the number of entries once, then for each index takes the  *)
(* entry and, except from an enumeration, a native string with its name,   *)
(* yields both to a Ruby block and releases the string when the block      *)
(* returns.  The block is Ruby code: it may add or replace entries, start  *)
(* loops of its own, wait while other threads do the same, or never return *)
(* to the loop (break, throw, an exception).  Between two yields a loop    *)
(* keeps the interpreter's lock, so that part is one step.                 *)
(***************************************************************************)
EXTENDS Naturals, Sequences

CONSTANTS Thread,    \* the Ruby threads
          Subject,   \* what is walked: the lists of entries
          Entry,     \* the names entries can have
          Contents,  \* what the lists may hold at first
          Walkers,   \* the loops the program uses
          MaxDepth   \* bound: the loops each thread has nested

\* The loops that yield a name with the value.
NamedWalker == {"each_property", "each_qualifier", "each_property_qualifier", "each_key"}

ASSUME ContentsAssumption == Contents \subseteq Seq(Entry)
ASSUME WalkersAssumption == Walkers \subseteq NamedWalker \cup {"each", "to_a"}
ASSUME DepthAssumption == MaxDepth \in [Thread -> Nat]

\* A loop: the entries it counted, the index it is at, what it has yielded,
\* the name strings it has taken and released, and whether the name of the
\* property it asks about was changed under it.
Frame == [walker : Walkers, subject : Subject, moved : BOOLEAN, num : Nat,
          k : Nat, seen : Seq(Entry), taken : Nat, freed : Nat]

VARIABLES entries,    \* entries[s]: the names in s, in the library's order
          unreadable, \* unreadable[s]: those whose value has no Ruby value
          depth,      \* depth[t]: the number of loops thread t is in
          frame,      \* frame[t]: those loops, the outermost first
          ended       \* the loop that ended in the last step, if one did, and how

NoLoop == [how |-> "none"]

vars == <<entries, unreadable, depth, frame, ended>>

TypeOK ==
  /\ entries \in [Subject -> Seq(Entry)]
  /\ unreadable \in [Subject -> SUBSET Entry]
  /\ depth \in [Thread -> Nat]
  /\ \A t \in Thread : depth[t] <= MaxDepth[t]
  /\ DOMAIN frame = Thread
  /\ \A t \in Thread : frame[t] \in [1..depth[t] -> Frame]
  /\ ended \in {NoLoop} \cup [how : {"done", "failed", "left"}, loop : Frame]

Init ==
  /\ entries \in [Subject -> Contents]
  /\ unreadable \in [Subject -> SUBSET Entry]
  /\ \A s \in Subject : unreadable[s] \subseteq {entries[s][i] : i \in DOMAIN entries[s]}
  /\ depth = [t \in Thread |-> 0]
  /\ frame = [t \in Thread |-> <<>>]
  /\ ended = NoLoop

Top(t) == frame[t][depth[t]]

-----------------------------------------------------------------------------
(***************************************************************************)
(* One loop.                                                               *)
(***************************************************************************)

\* Fault: loops over one list share their position, as with getNext.
StartShared(s) ==
  LET at == {Top(t).k : t \in {u \in Thread : depth[u] > 0 /\ Top(u).subject = s}}
  IN  IF at = {} THEN 0 ELSE CHOOSE k \in at : \A j \in at : j <= k

\* The index a loop starts at.
Start(s) == 0

Opened(w, s) ==
  [walker |-> w, subject |-> s, moved |-> FALSE, num |-> Len(entries[s]),
   k |-> Start(s), seen |-> <<>>, taken |-> 0, freed |-> 0]

\* The library gives the entry at the index of f, and a string for its name.
Take(f) == [f EXCEPT !.taken = IF f.walker \in NamedWalker THEN @ + 1 ELSE @]

\* Fault: each_property_qualifier does not release the name.
ReleaseNotAll(f) ==
  [f EXCEPT !.freed = IF f.walker \in NamedWalker \ {"each_property_qualifier"} THEN @ + 1 ELSE @]

\* The block has returned.
Release(f) == [f EXCEPT !.freed = IF f.walker \in NamedWalker THEN @ + 1 ELSE @]

\* Loop f, the innermost of t, is at depth d and in its block.
Stay(t, d, f) ==
  /\ depth' = [depth EXCEPT ![t] = d]
  /\ frame' = [frame EXCEPT ![t] = [i \in 1..d |-> IF i = d THEN f ELSE @[i]]]
  /\ ended' = NoLoop

\* Fault: what the loop kept on the stack outlives it.
CloseKeeping(t, d, how, f) ==
  /\ depth' = [depth EXCEPT ![t] = d - 1]
  /\ ended' = [how |-> how, loop |-> f]
  /\ UNCHANGED frame

\* It has ended.
Close(t, d, how, f) ==
  /\ depth' = [depth EXCEPT ![t] = d - 1]
  /\ frame' = [frame EXCEPT ![t] = [i \in 1..(d - 1) |-> @[i]]]
  /\ ended' = [how |-> how, loop |-> f]

\* Fault: the entries are counted again for every index.
ProceedRecounting(t, d, f) ==
  LET all == entries[f.subject] IN
  \/ f.k >= Len(all) /\ Close(t, d, "done", f)
  \/ /\ f.k < Len(all)
     /\ IF all[f.k + 1] \in unreadable[f.subject]
          THEN Close(t, d, "failed", Take(f))
          ELSE Stay(t, d, [Take(f) EXCEPT !.seen = Append(@, all[f.k + 1]), !.k = @ + 1])

\* The loop goes on at its index: it is through; the library has no such
\* entry; the conversion of the value raises; or the entry is yielded.
Proceed(t, d, f) ==
  LET all == entries[f.subject] IN
  \/ f.k >= f.num /\ Close(t, d, "done", f)
  \/ f.k < f.num /\ f.k >= Len(all) /\ Close(t, d, "failed", f)
  \/ /\ f.k < f.num /\ f.k < Len(all)
     /\ IF all[f.k + 1] \in unreadable[f.subject]
          THEN Close(t, d, "failed", Take(f))
          ELSE Stay(t, d, [Take(f) EXCEPT !.seen = Append(@, all[f.k + 1]), !.k = @ + 1])

-----------------------------------------------------------------------------
(***************************************************************************)
(* What a thread does.                                                     *)
(***************************************************************************)

Begin(t, w, s) ==
  /\ w # "to_a" /\ depth[t] < MaxDepth[t]
  /\ Proceed(t, depth[t] + 1, Opened(w, s))
  /\ UNCHANGED <<entries, unreadable>>

\* The block returns.
Advance(t) ==
  /\ depth[t] > 0
  /\ Proceed(t, depth[t], Release(Top(t)))
  /\ UNCHANGED <<entries, unreadable>>

\* The block does not return: break, throw or an exception.  Loops around this
\* one may be left in the same way.
Leave(t) ==
  /\ depth[t] > 0
  /\ Close(t, depth[t], "left", Top(t))
  /\ UNCHANGED <<entries, unreadable>>

\* Enumeration#to_a: a loop that stores what it takes and calls no block.
ToArray(s) ==
  LET all == entries[s]
      f == Opened("to_a", s) IN
  /\ "to_a" \in Walkers
  /\ ended' = IF \E i \in DOMAIN all : all[i] \in unreadable[s]
                THEN [how |-> "failed", loop |-> f]
                ELSE [how |-> "done", loop |-> [f EXCEPT !.seen = all, !.k = f.num]]
  /\ UNCHANGED <<entries, unreadable, depth, frame>>

\* add_key or set_property: a new name goes to the end, a known one gets
\* another value.
Put(s, e, readable) ==
  /\ entries' = IF \E i \in DOMAIN entries[s] : entries[s][i] = e THEN entries
                ELSE [entries EXCEPT ![s] = Append(@, e)]
  /\ unreadable' = [unreadable EXCEPT ![s] = IF readable THEN @ \ {e} ELSE @ \cup {e}]
  /\ ended' = NoLoop
  /\ UNCHANGED <<depth, frame>>

\* each_property_qualifier converts its argument to a C string again for every
\* index: whoever modifies that String sends the loop to another property.
Rename(t, d, s) ==
  /\ d \in 1..depth[t] /\ s # frame[t][d].subject
  /\ frame[t][d].walker = "each_property_qualifier"
  /\ LET f == [frame[t][d] EXCEPT !.subject = s, !.moved = TRUE]
     IN  frame' = [frame EXCEPT ![t] = [frame[t] EXCEPT ![d] = f]]
  /\ ended' = NoLoop
  /\ UNCHANGED <<entries, unreadable, depth>>

Next ==
  \/ \E t \in Thread :
       \/ \E w \in Walkers, s \in Subject : Begin(t, w, s)
       \/ Advance(t) \/ Leave(t)
       \/ \E d \in 1..MaxDepth[t], s \in Subject : Rename(t, d, s)
  \/ \E s \in Subject : ToArray(s)
  \/ \E s \in Subject, e \in Entry, readable \in BOOLEAN : Put(s, e, readable)

Spec == Init /\ [][Next]_vars

-----------------------------------------------------------------------------
(***************************************************************************)
(* Properties.                                                             *)
(***************************************************************************)

\* A loop that ends by itself has released every name string it took, whatever
\* its blocks did meanwhile; one that is left or that fails has lost at most
\* the last one, and none is released twice.
NamesReleased ==
  /\ \A t \in Thread : \A d \in 1..depth[t] :
       LET f == frame[t][d]
       IN  f.taken = IF f.walker \in NamedWalker THEN f.freed + 1 ELSE f.freed
  /\ ended.how = "done" => ended.loop.taken = ended.loop.freed
  /\ ended.how \in {"failed", "left"} =>
       ended.loop.taken \in {ended.loop.freed, ended.loop.freed + 1}

\* f has yielded the first entries of its list, each once and in order.
InOrder(f) ==
  ~f.moved =>
    /\ Len(f.seen) <= f.num /\ f.num <= Len(entries[f.subject])
    /\ \A i \in 1..Len(f.seen) : f.seen[i] = entries[f.subject][i]

\* Every loop yields the entries that were there when it began, once each and
\* in the order of the library, also when its block or another thread adds
\* entries, replaces values or walks the same list; one that ends by itself
\* has yielded all of them.
YieldsInOrder ==
  /\ \A t \in Thread : \A d \in 1..depth[t] : InOrder(frame[t][d])
  /\ ended.how # "none" => InOrder(ended.loop)
  /\ ended.how = "done" /\ ~ended.loop.moved => Len(ended.loop.seen) = ended.loop.num

-----------------------------------------------------------------------------
(***************************************************************************)
(* The loops of module Iteration.                                          *)
(***************************************************************************)

\* The list a loop walks is what it counted, the first entries of the live one.
Walk(f) ==
  IF f.moved THEN [list |-> "unknown"]
  ELSE [list |-> SubSeq(entries[f.subject], 1, f.num), told |-> f.k]

Snapshot ==
  INSTANCE Iteration WITH
    loop <- [t \in Thread |-> [d \in 1..depth[t] |-> Walk(frame[t][d])]],
    last <- IF ended.how = "none" THEN NoLoop ELSE [how |-> ended.how, loop |-> Walk(ended.loop)]

\* A loop that counts once and then reads the live list by index, while its
\* block and other threads add to it, replace values and walk it themselves,
\* is a loop over the list as it was when the loop began.
ImplementsIteration == Snapshot!Spec
=============================================================================

----------------------------- MODULE Iteration -----------------------------
(***************************************************************************)
(* What the loops of ruby-sfcc promise to the blocks they call, free of    *)
(* indexes, counts and name strings: a loop walks the list as it was when  *)
(* the loop began, whatever is added to the list meanwhile.                *)
(*                                                                         *)
(*   - it yields the entries of that list one by one, none left out and    *)
(*     none twice;                                                         *)
(*   - it is done after the last of them and no sooner;                    *)
(*   - it may fail at an entry it has not yielded, and its block may leave *)
(*     it at any time.                                                     *)
(*                                                                         *)
(* A loop that goes by a name which somebody changes is astray: nothing is *)
(* promised of it but that it ends as all others do.                       *)
(***************************************************************************)
EXTENDS Naturals, Sequences

CONSTANTS Thread, Subject, Entry

VARIABLES entries,  \* entries[s]: the list s
          depth,    \* depth[t]: the number of loops thread t is in
          loop,     \* loop[t]: those loops, the outermost first
          last      \* the loop that ended in the last step, if one did, and how

vars == <<entries, depth, loop, last>>

\* A loop: the list it walks and how much of it was yielded.
Over(list, told) == [list |-> list, told |-> told]
Astray == [list |-> "unknown"]
NoLoop == [how |-> "none"]

Init ==
  /\ entries \in [Subject -> Seq(Entry)]
  /\ depth = [t \in Thread |-> 0]
  /\ loop = [t \in Thread |-> <<>>]
  /\ last = NoLoop

\* Loop r of t, at depth d, is the innermost and in its block.
In(t, d, r) ==
  /\ last' = NoLoop
  /\ UNCHANGED entries
  /\ depth' = [depth EXCEPT ![t] = d]
  /\ loop' = [loop EXCEPT ![t] = Append(SubSeq(@, 1, d - 1), r)]

\* Loop r, at depth d, has ended.
Out(t, d, how, r) ==
  /\ UNCHANGED entries
  /\ depth' = [depth EXCEPT ![t] = d - 1]
  /\ last' = [how |-> how, loop |-> r]
  /\ loop' = [loop EXCEPT ![t] = SubSeq(@, 1, d - 1)]

\* Loop r of t, at depth d, goes on.
GoOn(t, d, r) ==
  \/ r # Astray /\ r.told < Len(r.list) /\ In(t, d, Over(r.list, r.told + 1))
  \/ r # Astray /\ r.told = Len(r.list) /\ Out(t, d, "done", r)
  \/ r # Astray /\ r.told < Len(r.list) /\ Out(t, d, "failed", r)
  \/ r = Astray /\ (In(t, d, r) \/ Out(t, d, "done", r) \/ Out(t, d, "failed", r))

Begin(t, s) == GoOn(t, depth[t] + 1, Over(entries[s], 0))

Advance(t) == depth[t] > 0 /\ GoOn(t, depth[t], loop[t][depth[t]])

Leave(t) == depth[t] > 0 /\ Out(t, depth[t], "left", loop[t][depth[t]])

\* A loop without a block.
Collect(s) ==
  /\ UNCHANGED <<entries, depth>>
  /\ last' \in {[how |-> "done", loop |-> Over(entries[s], Len(entries[s]))],
                [how |-> "failed", loop |-> Over(entries[s], 0)]}
  /\ UNCHANGED loop

\* A list grows at its end, or nothing that loops can see happens.
Add(s) ==
  /\ last' = NoLoop
  /\ UNCHANGED depth
  /\ \/ UNCHANGED entries
     \/ \E e \in Entry : entries' = [entries EXCEPT ![s] = Append(@, e)]
  /\ UNCHANGED loop

Stray(t, d) ==
  /\ last' = NoLoop
  /\ UNCHANGED <<entries, depth>>
  /\ loop' = [loop EXCEPT ![t] = [@ EXCEPT ![d] = Astray]]

Next ==
  \/ \E s \in Subject : Add(s) \/ Collect(s)
  \/ \E t \in Thread : \/ Advance(t) \/ Leave(t)
                       \/ \E s \in Subject : Begin(t, s)
                       \/ \E d \in 1..depth[t] : Stray(t, d)

Spec == Init /\ [][Next]_vars
=============================================================================

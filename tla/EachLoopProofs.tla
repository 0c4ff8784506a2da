--------------------------- MODULE EachLoopProofs ---------------------------
(***************************************************************************)
(* Theorems about EachLoop: for any number of threads, lists, entries and  *)
(* nested loops, every loop yields what was there in order and releases    *)
(* the names it takes.                                                     *)
(***************************************************************************)
EXTENDS EachLoop, SequenceTheorems, TLAPS

\* A loop has yielded as many entries as its index says, and the right ones
\* of es, what the lists hold.
OnTrack(f, es) ==
  /\ f \in Frame
  /\ f.k = Len(f.seen)
  /\ ~f.moved =>
       /\ Len(f.seen) <= f.num /\ f.num <= Len(es[f.subject])
       /\ \A i \in 1..Len(f.seen) : f.seen[i] = es[f.subject][i]

\* It holds no name; it holds the name of the entry its block works on.
Free(f) == f.taken = f.freed
Holding(f) == f.taken = IF f.walker \in NamedWalker THEN f.freed + 1 ELSE f.freed

\* e, the way a loop ended, is right.
EndedRight(e, es) ==
  /\ e.how # "none" => OnTrack(e.loop, es) /\ (Free(e.loop) \/ Holding(e.loop))
  /\ e.how = "done" =>
       Free(e.loop) /\ (~e.loop.moved => Len(e.loop.seen) = e.loop.num)

\* The stacks of loops of all the threads are right.
StacksRight(fr, dp, es) ==
  \A t \in Thread : \A d \in 1..dp[t] : OnTrack(fr[t][d], es) /\ Holding(fr[t][d])

IInv ==
  /\ TypeOK
  /\ StacksRight(frame, depth, entries)
  /\ EndedRight(ended, entries)

\* es2 holds what es1 holds, in the same places.
Grown(es1, es2) ==
  /\ es2 \in [Subject -> Seq(Entry)]
  /\ \A s \in Subject : /\ Len(es1[s]) <= Len(es2[s])
                        /\ \A i \in 1..Len(es1[s]) : es2[s][i] = es1[s][i]

-----------------------------------------------------------------------------
\* The invariant says what the properties of the module ask.
LEMMA IInvImplies == IInv => NamesReleased /\ YieldsInOrder
<1> SUFFICES ASSUME IInv PROVE NamesReleased /\ YieldsInOrder
  OBVIOUS
<1>1. \A t \in Thread : \A d \in 1..depth[t] : OnTrack(frame[t][d], entries) /\ Holding(frame[t][d])
  BY DEF IInv, StacksRight
<1>2. EndedRight(ended, entries)
  BY DEF IInv
<1>3. ASSUME NEW f, Free(f) \/ Holding(f)
      PROVE  f.taken \in {f.freed, f.freed + 1}
  BY <1>3 DEF Free, Holding
<1>4. ended.how = "done" => ended.loop.taken = ended.loop.freed
  BY <1>2 DEF EndedRight, Free
<1>5. ended.how \in {"failed", "left"} => ended.loop.taken \in {ended.loop.freed, ended.loop.freed + 1}
  BY <1>2, <1>3 DEF EndedRight
<1>6. NamesReleased
  BY <1>1, <1>4, <1>5 DEF NamesReleased, Holding
<1>7. YieldsInOrder
  BY <1>1, <1>2 DEF YieldsInOrder, EndedRight, OnTrack, InOrder
<1> QED
  BY <1>6, <1>7

\* What a loop has yielded stays right when entries are added.
LEMMA OnTrackGrown ==
  ASSUME NEW es1 \in [Subject -> Seq(Entry)], NEW es2, Grown(es1, es2), NEW f, OnTrack(f, es1)
  PROVE  OnTrack(f, es2)
<1>1. f \in Frame /\ f.subject \in Subject /\ f.num \in Nat /\ f.seen \in Seq(Entry)
  BY DEF OnTrack, Frame
<1>2. es1[f.subject] \in Seq(Entry) /\ es2[f.subject] \in Seq(Entry)
  BY <1>1 DEF Grown
<1>3. Len(es1[f.subject]) <= Len(es2[f.subject])
  BY <1>1 DEF Grown
<1>4. \A i \in 1..Len(es1[f.subject]) : es2[f.subject][i] = es1[f.subject][i]
  BY <1>1 DEF Grown
<1>5. CASE f.moved
  BY <1>5 DEF OnTrack
<1>6. CASE ~f.moved
  <2>1. Len(f.seen) <= f.num /\ f.num <= Len(es1[f.subject])
    BY <1>6 DEF OnTrack
  <2>2. \A i \in 1..Len(f.seen) : f.seen[i] = es2[f.subject][i]
    BY <1>6, <2>1, <1>1, <1>2, <1>4 DEF OnTrack
  <2>3. f.num <= Len(es2[f.subject])
    BY <2>1, <1>1, <1>2, <1>3
  <2> QED
    BY <2>1, <2>2, <2>3 DEF OnTrack
<1> QED
  BY <1>5, <1>6 DEF OnTrack, Frame

LEMMA HoldingSame ==
  ASSUME NEW f, NEW g, Holding(f), g.walker = f.walker, g.taken = f.taken, g.freed = f.freed
  PROVE  Holding(g)
<1>1. CASE f.walker \in NamedWalker
  BY <1>1, Zenon DEF Holding
<1>2. CASE f.walker \notin NamedWalker
  BY <1>2, Zenon DEF Holding
<1> QED
  BY <1>1, <1>2

LEMMA SameGrown ==
  ASSUME NEW es \in [Subject -> Seq(Entry)]
  PROVE  Grown(es, es)
BY DEF Grown

\* At the start no thread is in a loop.
LEMMA InitIInv == Init => IInv
<1> SUFFICES ASSUME Init PROVE IInv
  OBVIOUS
<1>1. entries \in [Subject -> Seq(Entry)]
  BY ContentsAssumption DEF Init
<1>2. \A t \in Thread : depth[t] = 0 /\ frame[t] = <<>> /\ MaxDepth[t] \in Nat
  BY DepthAssumption DEF Init
<1>3. \A t \in Thread : frame[t] \in [1..depth[t] -> Frame] /\ depth[t] <= MaxDepth[t]
  <2>1. <<>> \in [1..0 -> Frame]
    <3>1. <<>> \in Seq(Frame) /\ Len(<<>>) = 0
      BY EmptySeq
    <3> QED
      BY <3>1, LenProperties, Zenon
  <2> TAKE t \in Thread
  <2>2. depth[t] = 0 /\ frame[t] = <<>> /\ MaxDepth[t] \in Nat
    BY <1>2
  <2>3. depth[t] <= MaxDepth[t]
    BY <2>2
  <2>4. frame[t] \in [1..depth[t] -> Frame]
    BY <2>1, <2>2, Zenon
  <2> QED
    BY <2>3, <2>4
<1>4. TypeOK
  BY <1>1, <1>3 DEF Init, TypeOK
<1>5. StacksRight(frame, depth, entries)
  BY <1>2 DEF StacksRight
<1>6. EndedRight(ended, entries)
  BY DEF Init, EndedRight, NoLoop
<1> QED
  BY <1>4, <1>5, <1>6 DEF IInv

\* A step that gives one thread a right stack of n loops, and ends no loop or
\* ends one rightly, keeps the invariant.
LEMMA StackIInv ==
  ASSUME IInv, NEW t \in Thread, NEW n \in Nat, n <= MaxDepth[t],
         NEW stack \in [1..n -> Frame],
         \A i \in 1..n : OnTrack(stack[i], entries) /\ Holding(stack[i]),
         depth' = [depth EXCEPT ![t] = n], frame' = [frame EXCEPT ![t] = stack],
         ended' \in {NoLoop} \cup [how : {"done", "failed", "left"}, loop : Frame],
         EndedRight(ended', entries), UNCHANGED <<entries, unreadable>>
  PROVE  IInv'
<1>1. TypeOK
  BY DEF IInv
<1>2. depth'[t] = n /\ frame'[t] = stack
  BY <1>1 DEF TypeOK
<1>3. \A u \in Thread \ {t} : depth'[u] = depth[u] /\ frame'[u] = frame[u]
  BY <1>1 DEF TypeOK
<1>4. \A u \in Thread : depth'[u] <= MaxDepth[u] /\ frame'[u] \in [1..depth'[u] -> Frame]
  BY <1>1, <1>2, <1>3 DEF TypeOK
<1>5. depth' \in [Thread -> Nat] /\ DOMAIN frame' = Thread
  BY <1>1 DEF TypeOK
<1>6. TypeOK'
  BY <1>1, <1>4, <1>5 DEF TypeOK
<1>7. StacksRight(frame', depth', entries)
  BY <1>2, <1>3 DEF IInv, StacksRight
<1> QED
  BY <1>6, <1>7 DEF IInv

-----------------------------------------------------------------------------
\* Loop f of t at depth d, which holds no name, goes on.
LEMMA ProceedIInv ==
  ASSUME IInv, NEW t \in Thread, NEW d \in Nat, d > 0, d \in {depth[t], depth[t] + 1},
         d <= MaxDepth[t], NEW f, OnTrack(f, entries), Free(f), Proceed(t, d, f),
         UNCHANGED <<entries, unreadable>>
  PROVE  IInv'
<1> DEFINE all == entries[f.subject]
           next == [Take(f) EXCEPT !.seen = Append(@, all[f.k + 1]), !.k = @ + 1]
<1>1. TypeOK /\ f \in Frame /\ f.subject \in Subject /\ all \in Seq(Entry) /\ f.k \in Nat
      /\ f.num \in Nat /\ f.seen \in Seq(Entry) /\ f.k = Len(f.seen)
  BY DEF IInv, TypeOK, OnTrack, Frame
<1>2. Take(f) \in Frame /\ Holding(Take(f)) /\ OnTrack(Take(f), entries)
  <2>1. CASE f.walker \in NamedWalker
    <3>1. Take(f) = [f EXCEPT !.taken = @ + 1]
      BY <2>1 DEF Take
    <3> QED
      BY <1>1, <2>1, <3>1 DEF Frame, Holding, Free, OnTrack
  <2>2. CASE f.walker \notin NamedWalker
    <3>1. Take(f) = f
      BY <1>1, <2>2 DEF Take, Frame
    <3> QED
      BY <1>1, <2>2, <3>1 DEF Holding, Free
  <2> QED
    BY <2>1, <2>2
<1>3. \A i \in 1..(d - 1) : frame[t][i] \in Frame /\ OnTrack(frame[t][i], entries) /\ Holding(frame[t][i])
  <2>1. 1..(d - 1) \subseteq 1..depth[t]
    BY <1>1 DEF TypeOK
  <2> QED
    BY <2>1 DEF IInv, StacksRight, OnTrack
<1>4. ASSUME NEW how \in {"done", "failed"}, NEW g, OnTrack(g, entries), Close(t, d, how, g),
             how = "done" => Free(g) /\ (~g.moved => Len(g.seen) = g.num),
             Free(g) \/ Holding(g)
      PROVE  IInv'
  <2> DEFINE stack == [i \in 1..(d - 1) |-> frame[t][i]]
  <2>1. d - 1 \in Nat /\ d - 1 <= MaxDepth[t] /\ stack \in [1..(d - 1) -> Frame]
    BY <1>1, <1>3, DepthAssumption DEF TypeOK
  <2>2. \A i \in 1..(d - 1) : OnTrack(stack[i], entries) /\ Holding(stack[i])
    BY <1>3
  <2>3. depth' = [depth EXCEPT ![t] = d - 1] /\ frame' = [frame EXCEPT ![t] = stack]
        /\ ended' = [how |-> how, loop |-> g]
    BY <1>4 DEF Close
  <2>4. EndedRight(ended', entries) /\ g \in Frame
    BY <1>4, <2>3 DEF EndedRight, OnTrack
  <2> HIDE DEF stack
  <2> QED
    BY <2>1, <2>2, <2>3, <2>4, StackIInv
<1>5. CASE f.k >= f.num /\ Close(t, d, "done", f)
  <2>1. ~f.moved => Len(f.seen) = f.num
    BY <1>1, <1>5 DEF OnTrack
  <2> QED
    BY <1>4, <1>5, <2>1
<1>6. CASE f.k < f.num /\ f.k >= Len(all) /\ Close(t, d, "failed", f)
  BY <1>4, <1>6
<1>7. CASE f.k < f.num /\ f.k < Len(all) /\ Close(t, d, "failed", Take(f))
  BY <1>2, <1>4, <1>7
<1>8. CASE f.k < f.num /\ f.k < Len(all) /\ Stay(t, d, next)
  <2>1. all[f.k + 1] \in Entry
    BY <1>1, <1>8
  <2>2. next \in Frame /\ next.seen = Append(f.seen, all[f.k + 1]) /\ next.k = f.k + 1
        /\ next.subject = f.subject /\ next.moved = f.moved /\ next.num = f.num
        /\ next.walker = f.walker /\ next.taken = Take(f).taken /\ next.freed = Take(f).freed
        /\ Take(f).walker = f.walker
    <3>1. Take(f) \in Frame /\ Take(f).walker = f.walker /\ Take(f).subject = f.subject
          /\ Take(f).moved = f.moved /\ Take(f).num = f.num /\ Take(f).k = f.k
          /\ Take(f).seen = f.seen
      BY <1>1, <1>2 DEF Take, Frame
    <3> QED
      <4> DEFINE g == Take(f)
      <4>1. next = [g EXCEPT !.seen = Append(f.seen, all[f.k + 1]), !.k = f.k + 1]
        BY <3>1
      <4>2. Append(f.seen, all[f.k + 1]) \in Seq(Entry) /\ f.k + 1 \in Nat
        BY <1>1, <2>1
      <4> HIDE DEF g, next
      <4> QED
        BY <3>1, <4>1, <4>2 DEF Frame, g
  <2> HIDE DEF next
  <2>3. Len(next.seen) = Len(f.seen) + 1
    BY <1>1, <2>1, <2>2
  <2>4. ~f.moved => \A i \in 1..Len(next.seen) : next.seen[i] = all[i]
    BY <1>1, <2>1, <2>2, <2>3 DEF OnTrack
  <2>5. OnTrack(next, entries)
    <3>1. next.k = Len(next.seen)
      BY <1>1, <2>2, <2>3
    <3>2. ~f.moved => Len(next.seen) <= f.num /\ f.num <= Len(all)
      BY <1>1, <1>8, <2>3 DEF OnTrack
    <3>3. ~next.moved =>
            /\ Len(next.seen) <= next.num /\ next.num <= Len(entries[next.subject])
            /\ \A i \in 1..Len(next.seen) : next.seen[i] = entries[next.subject][i]
      BY <2>2, <2>4, <3>2, Zenon
    <3> QED
      BY <2>2, <3>1, <3>3, Zenon DEF OnTrack
  <2>6. Holding(next)
    <3>1. Holding(Take(f))
      BY <1>2
    <3>2. next.walker = Take(f).walker /\ next.taken = Take(f).taken /\ next.freed = Take(f).freed
      BY <2>2
    <3> QED
      BY <3>1, <3>2, HoldingSame, Zenon
  <2> DEFINE stack == [i \in 1..d |-> IF i = d THEN next ELSE frame[t][i]]
  <2>7. stack \in [1..d -> Frame] /\ \A i \in 1..d : OnTrack(stack[i], entries) /\ Holding(stack[i])
    BY <1>3, <2>2, <2>5, <2>6
  <2>8. depth' = [depth EXCEPT ![t] = d] /\ frame' = [frame EXCEPT ![t] = stack] /\ ended' = NoLoop
    BY <1>8 DEF Stay
  <2>9. EndedRight(ended', entries)
    BY <2>8 DEF EndedRight, NoLoop
  <2> HIDE DEF stack
  <2> QED
    BY <2>7, <2>8, <2>9, StackIInv
<1> QED
  BY <1>5, <1>6, <1>7, <1>8 DEF Proceed

\* One lemma for each action.
LEMMA LeaveIInv ==
  ASSUME IInv, NEW t \in Thread, Leave(t)
  PROVE  IInv'
<1> DEFINE d == depth[t]
           stack == [i \in 1..(d - 1) |-> frame[t][i]]
<1>1. TypeOK /\ d \in Nat /\ d > 0 /\ d <= MaxDepth[t] /\ MaxDepth[t] \in Nat
  BY DepthAssumption DEF IInv, TypeOK, Leave
<1>2. \A i \in 1..d : frame[t][i] \in Frame /\ OnTrack(frame[t][i], entries) /\ Holding(frame[t][i])
  BY DEF IInv, StacksRight, OnTrack
<1>3. Top(t) \in Frame /\ OnTrack(Top(t), entries) /\ Holding(Top(t))
  BY <1>1, <1>2 DEF Top
<1>4. depth' = [depth EXCEPT ![t] = d - 1] /\ frame' = [frame EXCEPT ![t] = stack]
      /\ ended' = [how |-> "left", loop |-> Top(t)]
  BY DEF Leave, Close
<1>5. EndedRight(ended', entries)
  BY <1>3, <1>4 DEF EndedRight
<1>6. stack \in [1..(d - 1) -> Frame] /\ d - 1 \in Nat /\ d - 1 <= MaxDepth[t]
      /\ \A i \in 1..(d - 1) : OnTrack(stack[i], entries) /\ Holding(stack[i])
  BY <1>1, <1>2
<1>7. UNCHANGED <<entries, unreadable>>
  BY DEF Leave
<1> HIDE DEF d, stack
<1> QED
  BY <1>3, <1>4, <1>5, <1>6, <1>7, StackIInv

LEMMA OpenedRight ==
  ASSUME IInv, NEW w \in Walkers, NEW s \in Subject
  PROVE  OnTrack(Opened(w, s), entries) /\ Free(Opened(w, s))
<1>1. entries[s] \in Seq(Entry)
  BY DEF IInv, TypeOK
<1>2. <<>> \in Seq(Entry) /\ Len(<<>>) = 0
  BY EmptySeq
<1>3. Opened(w, s) \in Frame
  BY <1>1, <1>2 DEF Opened, Start, Frame
<1> QED
  BY <1>1, <1>2, <1>3 DEF Opened, Start, OnTrack, Free

LEMMA BeginIInv ==
  ASSUME IInv, NEW t \in Thread, NEW w \in Walkers, NEW s \in Subject, Begin(t, w, s)
  PROVE  IInv'
<1>1. depth[t] \in Nat /\ MaxDepth[t] \in Nat
  BY DepthAssumption DEF IInv, TypeOK
<1> QED
  BY <1>1, OpenedRight, ProceedIInv DEF Begin

LEMMA AdvanceIInv ==
  ASSUME IInv, NEW t \in Thread, Advance(t)
  PROVE  IInv'
<1>1. depth[t] \in Nat /\ depth[t] > 0 /\ depth[t] <= MaxDepth[t]
  BY DEF IInv, TypeOK, Advance
<1>2. OnTrack(Top(t), entries) /\ Holding(Top(t)) /\ Top(t) \in Frame
  BY <1>1 DEF IInv, StacksRight, OnTrack, Top
<1>3. CASE Top(t).walker \in NamedWalker
  <2>1. Release(Top(t)) = [Top(t) EXCEPT !.freed = @ + 1]
    BY <1>3 DEF Release
  <2>2. OnTrack(Release(Top(t)), entries) /\ Free(Release(Top(t)))
    BY <1>2, <1>3, <2>1 DEF Frame, OnTrack, Holding, Free
  <2> QED
    BY <1>1, <2>2, ProceedIInv DEF Advance
<1>4. CASE Top(t).walker \notin NamedWalker
  <2>1. Release(Top(t)) = Top(t)
    BY <1>2, <1>4 DEF Release, Frame
  <2>2. OnTrack(Release(Top(t)), entries) /\ Free(Release(Top(t)))
    BY <1>2, <1>4, <2>1 DEF Holding, Free
  <2> QED
    BY <1>1, <2>2, ProceedIInv DEF Advance
<1> QED
  BY <1>3, <1>4

LEMMA ToArrayIInv ==
  ASSUME IInv, NEW s \in Subject, ToArray(s)
  PROVE  IInv'
<1> DEFINE f == Opened("to_a", s)
           g == [f EXCEPT !.seen = entries[s], !.k = f.num]
<1>1. entries[s] \in Seq(Entry) /\ "to_a" \in Walkers
  BY DEF IInv, TypeOK, ToArray
<1>2. OnTrack(f, entries) /\ Free(f)
  BY <1>1, OpenedRight
<1>3. /\ f.num = Len(entries[s]) /\ f.subject = s /\ f \in Frame
      /\ g.seen = entries[s] /\ g.k = f.num /\ g.num = f.num /\ g.subject = s
      /\ g.taken = f.taken /\ g.freed = f.freed /\ g.moved = f.moved /\ g \in Frame
  BY <1>1, <1>2 DEF Opened, OnTrack, Frame
<1>4. ended' \in {[how |-> "failed", loop |-> f], [how |-> "done", loop |-> g]}
  BY DEF ToArray
<1> HIDE DEF f, g
<1>5. OnTrack(g, entries) /\ Free(g) /\ Len(g.seen) = g.num
  BY <1>1, <1>2, <1>3 DEF OnTrack, Free
<1>6. EndedRight(ended', entries) /\ ended' \in [how : {"done", "failed", "left"}, loop : Frame]
  BY <1>2, <1>3, <1>4, <1>5 DEF EndedRight
<1>7. UNCHANGED <<entries, unreadable, depth, frame>>
  BY DEF ToArray
<1> QED
  BY <1>6, <1>7 DEF IInv, TypeOK

LEMMA PutIInv ==
  ASSUME IInv, NEW s \in Subject, NEW e \in Entry, NEW readable \in BOOLEAN, Put(s, e, readable)
  PROVE  IInv'
<1>1. TypeOK /\ entries \in [Subject -> Seq(Entry)]
  BY DEF IInv, TypeOK
<1>2. Grown(entries, entries')
  <2>1. CASE entries' = entries
    BY <1>1, <2>1, SameGrown
  <2>2. CASE entries' = [entries EXCEPT ![s] = Append(@, e)]
    BY <1>1, <2>2 DEF Grown
  <2> QED
    BY <2>1, <2>2 DEF Put
<1>3. unreadable' \in [Subject -> SUBSET Entry]
  BY <1>1 DEF Put, TypeOK
<1>4. UNCHANGED <<depth, frame>> /\ ended' = NoLoop
  BY DEF Put
<1>5. TypeOK'
  BY <1>1, <1>2, <1>3, <1>4 DEF TypeOK, Grown
<1>6. StacksRight(frame, depth, entries')
  BY <1>1, <1>2, OnTrackGrown DEF IInv, StacksRight
<1>7. EndedRight(ended', entries')
  BY <1>4 DEF EndedRight, NoLoop
<1> QED
  BY <1>4, <1>5, <1>6, <1>7 DEF IInv

LEMMA RenameIInv ==
  ASSUME IInv, NEW t \in Thread, NEW d \in Nat, NEW s \in Subject, Rename(t, d, s)
  PROVE  IInv'
<1> DEFINE f == frame[t][d]
           g == [f EXCEPT !.subject = s, !.moved = TRUE]
           stack == [frame[t] EXCEPT ![d] = g]
<1>1. TypeOK /\ d \in 1..depth[t] /\ depth[t] \in Nat /\ depth[t] <= MaxDepth[t]
      /\ frame[t] \in [1..depth[t] -> Frame]
  BY DEF IInv, TypeOK, Rename
<1>2. \A i \in 1..depth[t] : OnTrack(frame[t][i], entries) /\ Holding(frame[t][i])
  BY DEF IInv, StacksRight
<1>3. f \in Frame /\ f.k = Len(f.seen) /\ Holding(f)
  BY <1>1, <1>2 DEF OnTrack
<1>4. g \in Frame /\ g.moved = TRUE /\ g.k = f.k /\ g.seen = f.seen /\ g.walker = f.walker
      /\ g.taken = f.taken /\ g.freed = f.freed
  BY <1>3 DEF Frame
<1>5. frame' = [frame EXCEPT ![t] = stack] /\ ended' = NoLoop
      /\ UNCHANGED <<entries, unreadable, depth>>
  BY DEF Rename
<1> HIDE DEF f, g
<1>6. OnTrack(g, entries)
  BY <1>3, <1>4 DEF OnTrack
<1>7. Holding(g)
  BY <1>3, <1>4, HoldingSame
<1>8. stack \in [1..depth[t] -> Frame] /\ \A i \in 1..depth[t] : OnTrack(stack[i], entries) /\ Holding(stack[i])
  BY <1>1, <1>2, <1>4, <1>6, <1>7
<1>9. EndedRight(ended', entries) /\ depth' = [depth EXCEPT ![t] = depth[t]]
  BY <1>1, <1>5 DEF EndedRight, NoLoop, TypeOK
<1> HIDE DEF stack
<1> QED
  BY <1>1, <1>5, <1>8, <1>9, StackIInv

LEMMA NextIInv == IInv /\ [Next]_vars => IInv'
<1> SUFFICES ASSUME IInv, [Next]_vars PROVE IInv'
  OBVIOUS
<1>1. CASE \E t \in Thread, w \in Walkers, s \in Subject : Begin(t, w, s)
  BY <1>1, BeginIInv
<1>2. CASE \E t \in Thread : Advance(t)
  BY <1>2, AdvanceIInv
<1>3. CASE \E t \in Thread : Leave(t)
  BY <1>3, LeaveIInv
<1>4. CASE \E t \in Thread : \E d \in 1..MaxDepth[t], s \in Subject : Rename(t, d, s)
  <2>1. \A t \in Thread : 1..MaxDepth[t] \subseteq Nat
    BY DepthAssumption
  <2> QED
    BY <1>4, <2>1, RenameIInv
<1>5. CASE \E s \in Subject : ToArray(s)
  BY <1>5, ToArrayIInv
<1>6. CASE \E s \in Subject, e \in Entry, readable \in BOOLEAN : Put(s, e, readable)
  BY <1>6, PutIInv
<1>7. CASE UNCHANGED vars
  <2>1. TypeOK'
    BY <1>7 DEF vars, IInv, TypeOK
  <2>2. StacksRight(frame', depth', entries') /\ EndedRight(ended', entries')
    BY <1>7, Zenon DEF vars, IInv
  <2> QED
    BY <2>1, <2>2 DEF IInv
<1> QED
  BY <1>1, <1>2, <1>3, <1>4, <1>5, <1>6, <1>7 DEF Next

LEMMA Invariance == Spec => []IInv
<1> QED
  BY InitIInv, NextIInv, PTL DEF Spec

-----------------------------------------------------------------------------
(***************************************************************************)
(* The refinement of Iteration: every step of the loops is one of its      *)
(* steps, or changes nothing it speaks of.                                 *)
(***************************************************************************)

\* The mapped variables, and the list a loop walks when the lists are es.
loops == [t \in Thread |-> [d \in 1..depth[t] |-> Walk(frame[t][d])]]
lastEnd == IF ended.how = "none" THEN NoLoop ELSE [how |-> ended.how, loop |-> Walk(ended.loop)]
WalkOf(f, es) ==
  IF f.moved THEN [list |-> "unknown"]
  ELSE [list |-> SubSeq(es[f.subject], 1, f.num), told |-> f.k]

\* What a loop counted is there to be walked.
LEMMA Counted ==
  ASSUME NEW es \in [Subject -> Seq(Entry)], NEW f, OnTrack(f, es), ~f.moved
  PROVE  /\ f.num \in Nat /\ f.k \in Nat /\ f.k <= f.num
         /\ es[f.subject] \in Seq(Entry) /\ f.num <= Len(es[f.subject])
         /\ SubSeq(es[f.subject], 1, f.num) \in Seq(Entry)
         /\ Len(SubSeq(es[f.subject], 1, f.num)) = f.num
         /\ \A i \in 1..f.num : SubSeq(es[f.subject], 1, f.num)[i] = es[f.subject][i]
<1>1. f \in Frame /\ f.subject \in Subject /\ f.num \in Nat /\ f.seen \in Seq(Entry)
      /\ f.k = Len(f.seen) /\ Len(f.seen) <= f.num /\ f.num <= Len(es[f.subject])
  BY DEF OnTrack, Frame
<1>2. es[f.subject] \in Seq(Entry) /\ f.k \in Nat
  BY <1>1, LenProperties
<1> DEFINE list == es[f.subject]
           n == f.num
<1>3. list \in Seq(Entry) /\ n \in Nat /\ n <= Len(list) /\ Len(list) \in Nat
  BY <1>1, <1>2, LenProperties
<1> HIDE DEF list, n
<1>4. SubSeq(list, 1, n) \in Seq(Entry) /\ Len(SubSeq(list, 1, n)) = n
      /\ \A i \in 1..n : SubSeq(list, 1, n)[i] = list[i]
  BY <1>3, SubSeqProperties
<1> QED
  BY <1>1, <1>2, <1>4 DEF list, n

\* Entries added at the end of a list are out of sight of the loops over it.
LEMMA WalkGrown ==
  ASSUME NEW es1 \in [Subject -> Seq(Entry)], NEW es2, Grown(es1, es2), NEW f, OnTrack(f, es1)
  PROVE  WalkOf(f, es2) = WalkOf(f, es1)
<1>1. CASE f.moved
  BY <1>1 DEF WalkOf
<1>2. CASE ~f.moved
  <2>1. OnTrack(f, es2) /\ es2 \in [Subject -> Seq(Entry)] /\ f.subject \in Subject
    BY OnTrackGrown DEF Grown, OnTrack, Frame
  <2> DEFINE l1 == SubSeq(es1[f.subject], 1, f.num)
             l2 == SubSeq(es2[f.subject], 1, f.num)
  <2>2. /\ l1 \in Seq(Entry) /\ Len(l1) = f.num /\ f.num \in Nat /\ f.num <= Len(es1[f.subject])
        /\ \A i \in 1..f.num : l1[i] = es1[f.subject][i]
    BY <1>2, Counted
  <2>3. /\ l2 \in Seq(Entry) /\ Len(l2) = f.num
        /\ \A i \in 1..f.num : l2[i] = es2[f.subject][i]
    BY <1>2, <2>1, Counted
  <2>4. \A i \in 1..f.num : es2[f.subject][i] = es1[f.subject][i]
    <3>1. es1[f.subject] \in Seq(Entry) /\ f.subject \in Subject /\ f.num \in Nat
          /\ f.num <= Len(es1[f.subject])
      BY <2>1, <2>2
    <3>2. Len(es1[f.subject]) \in Nat
      BY <3>1, LenProperties
    <3>3. \A i \in 1..Len(es1[f.subject]) : es2[f.subject][i] = es1[f.subject][i]
      BY <3>1 DEF Grown
    <3> QED
      BY <3>1, <3>2, <3>3
  <2>5. \A i \in 1..f.num : l1[i] = l2[i]
    BY <2>2, <2>3, <2>4
  <2> HIDE DEF l1, l2
  <2>6. l1 = l2
    BY <2>2, <2>3, <2>5, SeqEqual
  <2> QED
    BY <1>2, <2>6 DEF WalkOf, l1, l2
<1> QED
  BY <1>1, <1>2

\* The loops around the one at depth d.
LEMMA Outer ==
  ASSUME TypeOK, NEW t \in Thread, NEW d \in Nat, d \in {depth[t], depth[t] + 1}, d > 0, NEW r
  PROVE  /\ SubSeq(loops[t], 1, d - 1) = [i \in 1..(d - 1) |-> Walk(frame[t][i])]
         /\ Append(SubSeq(loops[t], 1, d - 1), r) =
              [i \in 1..d |-> IF i = d THEN r ELSE Walk(frame[t][i])]
<1> DEFINE n == depth[t]
           W == {Walk(frame[t][i]) : i \in 1..n}
           s == SubSeq(loops[t], 1, d - 1)
<1>1. n \in Nat /\ d - 1 \in Nat /\ d - 1 <= n
  BY DEF TypeOK
<1>2. loops[t] = [i \in 1..n |-> Walk(frame[t][i])]
  BY DEF loops
<1>3. loops[t] \in Seq(W) /\ Len(loops[t]) = n
  BY <1>1, <1>2
<1>4. s \in Seq(W) /\ Len(s) = d - 1 /\ \A i \in 1..(d - 1) : s[i] = loops[t][i]
  BY <1>1, <1>3, SubSeqProperties
<1>5. s = [i \in 1..(d - 1) |-> Walk(frame[t][i])]
  BY <1>1, <1>2, <1>4
<1> HIDE DEF s
<1>6. Append(s, r) = [i \in 1..d |-> IF i = d THEN r ELSE Walk(frame[t][i])]
  BY <1>1, <1>4, <1>5
<1> QED
  BY <1>5, <1>6 DEF s

\* The end of a loop is one of Iteration's.
LEMMA CloseOut ==
  ASSUME TypeOK, NEW t \in Thread, NEW d \in Nat, d \in {depth[t], depth[t] + 1}, d > 0,
         NEW how \in {"done", "failed", "left"}, NEW f, Close(t, d, how, f), entries' = entries,
         NEW r, r = WalkOf(f, entries)
  PROVE  Snapshot!Out(t, d, how, r)
<1>1. depth' = [depth EXCEPT ![t] = d - 1] /\ ended' = [how |-> how, loop |-> f]
      /\ frame' = [frame EXCEPT ![t] = [i \in 1..(d - 1) |-> frame[t][i]]]
  BY DEF Close
<1>2. \A u \in Thread : depth[u] \in Nat
  BY DEF TypeOK
<1>3. loops' = [loops EXCEPT ![t] = SubSeq(loops[t], 1, d - 1)]
  <2>1. \A u \in Thread \ {t} : loops'[u] = loops[u]
    BY <1>1 DEF loops, Walk, TypeOK
  <2>2. \A i \in 1..(d - 1) : loops[t][i] = Walk(frame[t][i])
    BY <1>2 DEF loops
  <2>3. loops'[t] = [i \in 1..(d - 1) |-> Walk(frame[t][i])]
    BY <1>1 DEF loops, Walk, TypeOK
  <2>4. loops'[t] = SubSeq(loops[t], 1, d - 1)
    BY <2>2, <2>3, Outer
  <2>5. DOMAIN loops = Thread /\ DOMAIN loops' = Thread
        /\ loops = [u \in Thread |-> loops[u]] /\ loops' = [u \in Thread |-> loops'[u]]
    BY DEF loops
  <2> QED
    BY <2>1, <2>4, <2>5
<1>4. lastEnd' = [how |-> how, loop |-> WalkOf(f, entries)]
  BY <1>1 DEF lastEnd, Walk, WalkOf
<1> QED
  BY <1>1, <1>3, <1>4 DEF Snapshot!Out, loops, lastEnd

\* And so is a step into the block.
LEMMA StayIn ==
  ASSUME TypeOK, NEW t \in Thread, NEW d \in Nat, d \in {depth[t], depth[t] + 1}, d > 0,
         NEW f, Stay(t, d, f), entries' = entries, NEW r, r = WalkOf(f, entries)
  PROVE  Snapshot!In(t, d, r)
<1>1. depth' = [depth EXCEPT ![t] = d] /\ ended' = NoLoop
      /\ frame' = [frame EXCEPT ![t] = [i \in 1..d |-> IF i = d THEN f ELSE frame[t][i]]]
  BY DEF Stay
<1>2. \A u \in Thread : depth[u] \in Nat
  BY DEF TypeOK
<1>3. loops' = [loops EXCEPT ![t] = Append(SubSeq(loops[t], 1, d - 1), r)]
  <2>1. \A u \in Thread \ {t} : loops'[u] = loops[u]
    BY <1>1 DEF loops, Walk, TypeOK
  <2>2. \A i \in 1..(d - 1) : loops[t][i] = Walk(frame[t][i])
    BY <1>2 DEF loops
  <2>3. loops'[t] = [i \in 1..d |-> IF i = d THEN WalkOf(f, entries) ELSE Walk(frame[t][i])]
    BY <1>1 DEF loops, Walk, WalkOf, TypeOK
  <2>4. loops'[t] = Append(SubSeq(loops[t], 1, d - 1), r)
    BY <2>2, <2>3, Outer
  <2>5. DOMAIN loops = Thread /\ DOMAIN loops' = Thread
        /\ loops = [u \in Thread |-> loops[u]] /\ loops' = [u \in Thread |-> loops'[u]]
    BY DEF loops
  <2> QED
    BY <2>1, <2>4, <2>5
<1>4. lastEnd' = NoLoop
  BY <1>1 DEF lastEnd, NoLoop
<1> QED
  BY <1>1, <1>3, <1>4 DEF Snapshot!In, Snapshot!NoLoop, NoLoop, loops, lastEnd

\* What a loop walks depends on where it is and what it counted only.
LEMMA WalkSame ==
  ASSUME NEW f, NEW g, NEW es, g.subject = f.subject, g.num = f.num, g.k = f.k, g.moved = f.moved
  PROVE  WalkOf(g, es) = WalkOf(f, es)
BY DEF WalkOf

\* The entry a loop has taken is the only thing it changes.
LEMMA Yielded ==
  ASSUME NEW f \in Frame, NEW e
  PROVE  LET next == [Take(f) EXCEPT !.seen = Append(@, e), !.k = @ + 1] IN
         /\ Take(f).subject = f.subject /\ Take(f).num = f.num /\ Take(f).k = f.k
         /\ Take(f).moved = f.moved
         /\ next.subject = f.subject /\ next.num = f.num /\ next.k = f.k + 1
         /\ next.moved = f.moved
<1>1. CASE f.walker \in NamedWalker
  <2>1. Take(f) = [f EXCEPT !.taken = @ + 1]
    BY <1>1 DEF Take
  <2> QED
    BY <2>1 DEF Frame
<1>2. CASE f.walker \notin NamedWalker
  <2>1. Take(f) = f
    BY <1>2 DEF Take, Frame
  <2> QED
    BY <2>1 DEF Frame
<1> QED
  BY <1>1, <1>2

\* A loop that goes on does what Iteration allows: it has what it counted, as
\* entries are only added.
LEMMA ProceedGoesOn ==
  ASSUME IInv, NEW t \in Thread, NEW d \in Nat, d > 0, d \in {depth[t], depth[t] + 1},
         NEW f, OnTrack(f, entries), Proceed(t, d, f), UNCHANGED <<entries, unreadable>>,
         NEW r, r = WalkOf(f, entries)
  PROVE  Snapshot!GoOn(t, d, r)
<1> DEFINE all == entries[f.subject]
<1>1. TypeOK /\ f \in Frame /\ entries' = entries /\ entries \in [Subject -> Seq(Entry)]
  BY DEF IInv, TypeOK, OnTrack
<1>2. PICK e : e = all[f.k + 1]
  OBVIOUS
<1>3. PICK took : took = Take(f)
  OBVIOUS
<1>4. PICK next : next = [Take(f) EXCEPT !.seen = Append(@, e), !.k = @ + 1]
  OBVIOUS
<1>5. PICK r2 : r2 = WalkOf(next, entries)
  OBVIOUS
<1>6. /\ took.subject = f.subject /\ took.num = f.num /\ took.k = f.k /\ took.moved = f.moved
      /\ next.subject = f.subject /\ next.num = f.num /\ next.k = f.k + 1
      /\ next.moved = f.moved
  BY <1>1, <1>3, <1>4, Yielded, Zenon
<1>7. r = WalkOf(took, entries)
  BY <1>6, WalkSame, Zenon
<1>8. \/ f.k >= f.num /\ Close(t, d, "done", f)
      \/ f.k < f.num /\ f.k >= Len(all) /\ Close(t, d, "failed", f)
      \/ f.k < f.num /\ Close(t, d, "failed", took)
      \/ f.k < f.num /\ Stay(t, d, next)
  BY <1>2, <1>3, <1>4, Zenon DEF Proceed, Close, Stay
<1>9. \/ f.k >= f.num /\ Snapshot!Out(t, d, "done", r)
      \/ f.k < f.num /\ Snapshot!Out(t, d, "failed", r)
      \/ f.k < f.num /\ Snapshot!In(t, d, r2)
  <2>1. CASE f.k >= f.num /\ Close(t, d, "done", f)
    BY <2>1, <1>1, CloseOut
  <2>2. CASE f.k < f.num /\ Close(t, d, "failed", f)
    BY <2>2, <1>1, CloseOut
  <2>3. CASE f.k < f.num /\ Close(t, d, "failed", took)
    BY <2>3, <1>1, <1>7, CloseOut
  <2>4. CASE f.k < f.num /\ Stay(t, d, next)
    BY <2>4, <1>1, <1>5, StayIn
  <2> QED
    BY <1>8, <2>1, <2>2, <2>3, <2>4
<1>10. CASE f.moved
  <2>1. r = Snapshot!Astray /\ r2 = r
    BY <1>5, <1>6, <1>10 DEF WalkOf, Snapshot!Astray
  <2>2. Snapshot!In(t, d, r) \/ Snapshot!Out(t, d, "done", r) \/ Snapshot!Out(t, d, "failed", r)
    BY <1>9, <2>1
  <2> QED
    BY <2>1, <2>2, Zenon DEF Snapshot!GoOn
<1>11. CASE ~f.moved
  <2>1. /\ f.num \in Nat /\ f.k \in Nat /\ f.k <= f.num
        /\ Len(SubSeq(all, 1, f.num)) = f.num
    BY <1>1, <1>11, Counted
  <2>2. r = [list |-> SubSeq(all, 1, f.num), told |-> f.k]
    BY <1>11 DEF WalkOf
  <2>3. r.told = f.k /\ r.list = SubSeq(all, 1, f.num) /\ Len(r.list) = f.num
    BY <2>1, <2>2
  <2>4. r # Snapshot!Astray
    <3>1. "told" \in DOMAIN r
      BY <2>2
    <3>2. "told" \notin DOMAIN Snapshot!Astray
      BY DEF Snapshot!Astray
    <3> QED
      BY <3>1, <3>2, Zenon
  <2>5. r2 = Snapshot!Over(r.list, r.told + 1)
    BY <1>5, <1>6, <1>11, <2>3 DEF WalkOf, Snapshot!Over
  <2>6. CASE f.k >= f.num /\ Snapshot!Out(t, d, "done", r)
    <3>1. r.told = Len(r.list)
      BY <2>1, <2>3, <2>6
    <3> QED
      BY <2>4, <2>6, <3>1, Zenon DEF Snapshot!GoOn
  <2>7. CASE f.k < f.num /\ Snapshot!Out(t, d, "failed", r)
    <3>1. r.told < Len(r.list)
      BY <2>1, <2>3, <2>7
    <3> QED
      BY <2>4, <2>7, <3>1, Zenon DEF Snapshot!GoOn
  <2>8. CASE f.k < f.num /\ Snapshot!In(t, d, r2)
    <3>1. r.told < Len(r.list)
      BY <2>1, <2>3, <2>8
    <3>2. Snapshot!In(t, d, Snapshot!Over(r.list, r.told + 1))
      BY <2>5, <2>8, Zenon DEF Snapshot!In
    <3> QED
      BY <2>4, <3>1, <3>2, Zenon DEF Snapshot!GoOn
  <2> QED
    BY <1>9, <2>6, <2>7, <2>8
<1> QED
  BY <1>10, <1>11

\* One lemma for each action.
LEMMA BeginStep ==
  ASSUME IInv, NEW t \in Thread, NEW w \in Walkers, NEW s \in Subject, Begin(t, w, s)
  PROVE  Snapshot!Begin(t, s)
<1>1. TypeOK /\ depth[t] \in Nat /\ entries[s] \in Seq(Entry)
  BY DEF IInv, TypeOK
<1>2. PICK d \in Nat : d = depth[t] + 1
  BY <1>1
<1>3. PICK f : f = Opened(w, s)
  OBVIOUS
<1>4. PICK r : r = WalkOf(f, entries)
  OBVIOUS
<1>5. OnTrack(f, entries)
  BY <1>3, OpenedRight
<1>6. Proceed(t, d, f) /\ UNCHANGED <<entries, unreadable>>
  BY <1>2, <1>3, Zenon DEF Begin, Proceed, Close, Stay
<1>7. Snapshot!GoOn(t, d, r)
  BY <1>1, <1>2, <1>4, <1>5, <1>6, ProceedGoesOn
<1>8. r = Snapshot!Over(entries[s], 0)
  <2>1. f.moved = FALSE /\ f.subject = s /\ f.num = Len(entries[s]) /\ f.k = 0
    BY <1>3 DEF Opened, Start
  <2>2. SubSeq(entries[s], 1, Len(entries[s])) = entries[s]
    BY <1>1, SubSeqFull
  <2> QED
    BY <1>4, <2>1, <2>2 DEF WalkOf, Snapshot!Over
<1> QED
  BY <1>2, <1>7, <1>8, Zenon DEF Snapshot!Begin, Snapshot!GoOn, Snapshot!In, Snapshot!Out

\* The innermost of the mapped loops.
LEMMA Innermost ==
  ASSUME IInv, NEW t \in Thread, depth[t] > 0
  PROVE  /\ depth[t] \in Nat /\ OnTrack(Top(t), entries) /\ Top(t) \in Frame
         /\ loops[t][depth[t]] = WalkOf(Top(t), entries)
<1>1. depth[t] \in Nat /\ depth[t] \in 1..depth[t]
  BY DEF IInv, TypeOK
<1>2. OnTrack(Top(t), entries) /\ Top(t) \in Frame
  BY <1>1 DEF IInv, StacksRight, OnTrack, Top
<1>3. loops[t][depth[t]] = Walk(Top(t))
  BY <1>1 DEF loops, Top
<1> QED
  BY <1>1, <1>2, <1>3 DEF Walk, WalkOf

LEMMA AdvanceStep ==
  ASSUME IInv, NEW t \in Thread, Advance(t)
  PROVE  Snapshot!Advance(t)
<1>1. depth[t] > 0 /\ depth[t] \in Nat /\ OnTrack(Top(t), entries) /\ Top(t) \in Frame
      /\ loops[t][depth[t]] = WalkOf(Top(t), entries)
  BY Innermost DEF Advance
<1>2. PICK d \in Nat : d = depth[t]
  BY <1>1
<1>3. PICK f : f = Release(Top(t))
  OBVIOUS
<1>4. PICK r : r = WalkOf(f, entries)
  OBVIOUS
<1>5. OnTrack(f, entries) /\ f.subject = Top(t).subject /\ f.num = Top(t).num
      /\ f.k = Top(t).k /\ f.moved = Top(t).moved
  <2>1. CASE Top(t).walker \in NamedWalker
    <3>1. f = [Top(t) EXCEPT !.freed = @ + 1]
      BY <1>3, <2>1 DEF Release
    <3> QED
      BY <1>1, <3>1 DEF Frame, OnTrack
  <2>2. CASE Top(t).walker \notin NamedWalker
    <3>1. f = Top(t)
      BY <1>1, <1>3, <2>2 DEF Release, Frame
    <3> QED
      BY <1>1, <3>1
  <2> QED
    BY <2>1, <2>2
<1>6. Proceed(t, d, f) /\ UNCHANGED <<entries, unreadable>>
  BY <1>2, <1>3, Zenon DEF Advance, Proceed, Close, Stay
<1>7. Snapshot!GoOn(t, d, r)
  BY <1>1, <1>2, <1>4, <1>5, <1>6, ProceedGoesOn
<1>8. r = loops[t][depth[t]]
  BY <1>1, <1>4, <1>5, WalkSame
<1>9. depth[t] > 0
  BY <1>1
<1> QED
  BY <1>2, <1>7, <1>8, <1>9, Zenon
  DEF Snapshot!Advance, Snapshot!GoOn, Snapshot!In, Snapshot!Out, loops

LEMMA LeaveStep ==
  ASSUME IInv, NEW t \in Thread, Leave(t)
  PROVE  Snapshot!Leave(t)
<1>1. TypeOK /\ depth[t] > 0 /\ depth[t] \in Nat
      /\ loops[t][depth[t]] = WalkOf(Top(t), entries)
  BY Innermost DEF Leave, IInv
<1>2. PICK d \in Nat : d = depth[t]
  BY <1>1
<1>3. PICK f : f = Top(t)
  OBVIOUS
<1>4. PICK r : r = WalkOf(f, entries)
  OBVIOUS
<1>5. Close(t, d, "left", f) /\ entries' = entries
  BY <1>2, <1>3, Zenon DEF Leave, Close
<1>6. Snapshot!Out(t, d, "left", r)
  BY <1>1, <1>2, <1>4, <1>5, CloseOut
<1>7. r = loops[t][depth[t]] /\ depth[t] > 0
  BY <1>1, <1>3, <1>4
<1> QED
  BY <1>2, <1>6, <1>7, Zenon DEF Snapshot!Leave, Snapshot!Out, loops

LEMMA RenameStep ==
  ASSUME IInv, NEW t \in Thread, NEW d \in Nat, NEW s \in Subject, Rename(t, d, s)
  PROVE  d \in 1..depth[t] /\ Snapshot!Stray(t, d)
<1> DEFINE g == [frame[t][d] EXCEPT !.subject = s, !.moved = TRUE]
           stack == [frame[t] EXCEPT ![d] = g]
<1>1. TypeOK /\ d \in 1..depth[t] /\ depth[t] \in Nat /\ frame[t] \in [1..depth[t] -> Frame]
  BY DEF IInv, TypeOK, Rename
<1>2. frame' = [frame EXCEPT ![t] = stack] /\ ended' = NoLoop
      /\ UNCHANGED <<entries, unreadable, depth>>
  BY DEF Rename
<1>3. g.moved = TRUE
  BY <1>1 DEF Frame
<1> HIDE DEF g
<1>4. loops' = [loops EXCEPT ![t] = [loops[t] EXCEPT ![d] = Snapshot!Astray]]
  <2>1. \A u \in Thread \ {t} : loops'[u] = loops[u]
    BY <1>1, <1>2 DEF loops, Walk, TypeOK
  <2>2. stack \in [1..depth[t] -> Frame \cup {g}] /\ stack[d] = g
        /\ \A i \in 1..depth[t] : i # d => stack[i] = frame[t][i]
    BY <1>1
  <2> HIDE DEF stack
  <2>3. frame'[t] = stack /\ depth'[t] = depth[t]
    BY <1>1, <1>2 DEF TypeOK
  <2>4. loops'[t] = [i \in 1..depth[t] |-> WalkOf(stack[i], entries)]
    BY <2>3, <1>2 DEF loops, Walk, WalkOf
  <2>5. loops[t] = [i \in 1..depth[t] |-> WalkOf(frame[t][i], entries)]
    BY DEF loops, Walk, WalkOf
  <2>6. WalkOf(g, entries) = Snapshot!Astray
    BY <1>3 DEF WalkOf, Snapshot!Astray
  <2>7. loops'[t] = [loops[t] EXCEPT ![d] = Snapshot!Astray]
    BY <1>1, <2>2, <2>4, <2>5, <2>6
  <2>8. DOMAIN loops = Thread /\ DOMAIN loops' = Thread
        /\ loops = [u \in Thread |-> loops[u]] /\ loops' = [u \in Thread |-> loops'[u]]
    BY DEF loops
  <2> QED
    BY <2>1, <2>7, <2>8
<1>5. lastEnd' = NoLoop
  BY <1>2 DEF lastEnd, NoLoop
<1> QED
  BY <1>1, <1>2, <1>4, <1>5 DEF Snapshot!Stray, Snapshot!NoLoop, NoLoop, loops, lastEnd

LEMMA ToArrayStep ==
  ASSUME IInv, NEW s \in Subject, ToArray(s)
  PROVE  Snapshot!Collect(s)
<1> DEFINE f == Opened("to_a", s)
           g == [f EXCEPT !.seen = entries[s], !.k = f.num]
<1>1. entries[s] \in Seq(Entry) /\ "to_a" \in Walkers
  BY DEF IInv, TypeOK, ToArray
<1>2. SubSeq(entries[s], 1, Len(entries[s])) = entries[s]
  BY <1>1, SubSeqFull
<1>3. /\ f.moved = FALSE /\ f.subject = s /\ f.num = Len(entries[s]) /\ f.k = 0
      /\ g.moved = FALSE /\ g.subject = s /\ g.num = f.num /\ g.k = f.num
  BY DEF Opened, Start
<1>4. ended' \in {[how |-> "failed", loop |-> f], [how |-> "done", loop |-> g]}
      /\ UNCHANGED <<entries, unreadable, depth, frame>>
  BY DEF ToArray
<1> HIDE DEF f, g
<1>5. lastEnd' \in {[how |-> "done", loop |-> Snapshot!Over(entries[s], Len(entries[s]))],
                    [how |-> "failed", loop |-> Snapshot!Over(entries[s], 0)]}
  <2>1. WalkOf(f, entries) = Snapshot!Over(entries[s], 0)
    BY <1>2, <1>3 DEF WalkOf, Snapshot!Over
  <2>2. WalkOf(g, entries) = Snapshot!Over(entries[s], Len(entries[s]))
    BY <1>2, <1>3 DEF WalkOf, Snapshot!Over
  <2>3. lastEnd' = [how |-> ended'.how, loop |-> WalkOf(ended'.loop, entries)]
    BY <1>4 DEF lastEnd, Walk, WalkOf
  <2> QED
    BY <1>4, <2>1, <2>2, <2>3
<1>6. loops' = loops
  BY <1>4 DEF loops, Walk
<1> QED
  BY <1>4, <1>5, <1>6 DEF Snapshot!Collect, loops, lastEnd

LEMMA PutStep ==
  ASSUME IInv, NEW s \in Subject, NEW e \in Entry, NEW readable \in BOOLEAN, Put(s, e, readable)
  PROVE  Snapshot!Add(s)
<1>1. TypeOK /\ entries \in [Subject -> Seq(Entry)]
  BY DEF IInv, TypeOK
<1>2. entries' = entries \/ entries' = [entries EXCEPT ![s] = Append(@, e)]
  BY DEF Put
<1>3. Grown(entries, entries')
  <2>1. CASE entries' = entries
    BY <1>1, <2>1, SameGrown
  <2>2. CASE entries' = [entries EXCEPT ![s] = Append(@, e)]
    BY <1>1, <2>2 DEF Grown
  <2> QED
    BY <1>2, <2>1, <2>2
<1>4. UNCHANGED <<depth, frame>> /\ ended' = NoLoop
  BY DEF Put
<1>5. loops' = loops
  <2>1. \A u \in Thread : \A d \in 1..depth[u] :
          WalkOf(frame[u][d], entries') = WalkOf(frame[u][d], entries)
    BY <1>1, <1>3, WalkGrown DEF IInv, StacksRight
  <2>2. loops' = [u \in Thread |-> [d \in 1..depth[u] |-> WalkOf(frame[u][d], entries')]]
    BY <1>4 DEF loops, Walk, WalkOf
  <2>3. loops = [u \in Thread |-> [d \in 1..depth[u] |-> WalkOf(frame[u][d], entries)]]
    BY DEF loops, Walk, WalkOf
  <2> QED
    BY <2>1, <2>2, <2>3
<1>6. lastEnd' = NoLoop
  BY <1>4 DEF lastEnd, NoLoop
<1> QED
  BY <1>2, <1>4, <1>5, <1>6 DEF Snapshot!Add, Snapshot!NoLoop, NoLoop, loops, lastEnd

LEMMA InitIteration == Init => Snapshot!Init
<1> SUFFICES ASSUME Init PROVE Snapshot!Init
  OBVIOUS
<1>1. entries \in [Subject -> Seq(Entry)] /\ depth = [t \in Thread |-> 0]
  BY ContentsAssumption DEF Init
<1>2. loops = [t \in Thread |-> <<>>]
  <2>1. \A t \in Thread : depth[t] = 0
    BY <1>1
  <2>2. \A t \in Thread : loops[t] = <<>>
    <3> TAKE t \in Thread
    <3>1. loops[t] = [d \in 1..0 |-> Walk(frame[t][d])]
      BY <2>1 DEF loops
    <3>2. [d \in 1..0 |-> Walk(frame[t][d])] = <<>>
      OBVIOUS
    <3> QED
      BY <3>1, <3>2, Zenon
  <2> QED
    BY <2>2 DEF loops
<1>3. lastEnd = NoLoop
  BY DEF Init, lastEnd, NoLoop
<1> QED
  BY <1>1, <1>2, <1>3 DEF Snapshot!Init, Snapshot!NoLoop, NoLoop, loops, lastEnd

LEMMA StepIteration == IInv /\ [Next]_vars => [Snapshot!Next]_Snapshot!vars
<1> SUFFICES ASSUME IInv, [Next]_vars PROVE [Snapshot!Next]_Snapshot!vars
  OBVIOUS
<1>1. CASE \E t \in Thread, w \in Walkers, s \in Subject : Begin(t, w, s)
  BY <1>1, BeginStep DEF Snapshot!Next
<1>2. CASE \E t \in Thread : Advance(t)
  BY <1>2, AdvanceStep DEF Snapshot!Next
<1>3. CASE \E t \in Thread : Leave(t)
  BY <1>3, LeaveStep DEF Snapshot!Next
<1>4. CASE \E t \in Thread : \E d \in 1..MaxDepth[t], s \in Subject : Rename(t, d, s)
  <2>1. \A t \in Thread : 1..MaxDepth[t] \subseteq Nat
    BY DepthAssumption
  <2> QED
    BY <1>4, <2>1, RenameStep DEF Snapshot!Next
<1>5. CASE \E s \in Subject : ToArray(s)
  BY <1>5, ToArrayStep DEF Snapshot!Next
<1>6. CASE \E s \in Subject, e \in Entry, readable \in BOOLEAN : Put(s, e, readable)
  BY <1>6, PutStep DEF Snapshot!Next
<1>7. CASE UNCHANGED vars
  <2>1. loops' = loops /\ lastEnd' = lastEnd /\ UNCHANGED <<entries, depth>>
    BY <1>7 DEF vars, loops, lastEnd, Walk
  <2> QED
    BY <2>1 DEF Snapshot!vars, loops, lastEnd
<1> QED
  BY <1>1, <1>2, <1>3, <1>4, <1>5, <1>6, <1>7 DEF Next

-----------------------------------------------------------------------------
\* The state of the loops has the types the module gives it, for any number of
\* threads, lists, entries and nested loops.
THEOREM TypeCorrect == Spec => []TypeOK
<1>1. IInv => TypeOK
  BY DEF IInv
<1> QED
  BY <1>1, Invariance, PTL

\* A loop that ends by itself has released every name it took from the native
\* library, and no other one loses more than the last.
THEOREM NamesAreReleased == Spec => []NamesReleased
<1> QED
  BY IInvImplies, Invariance, PTL

\* Every loop yields the entries that were there when it began, once each and
\* in order, whatever its block and the other threads do.
THEOREM LoopsYieldInOrder == Spec => []YieldsInOrder
<1> QED
  BY IInvImplies, Invariance, PTL

\* A loop that counts once and reads the live list by index is, whatever the
\* blocks and the other threads do, a loop over the list as it was when the
\* loop began: it yields those entries, all of them before it is done.
THEOREM LoopsImplementIteration == Spec => ImplementsIteration
<1>1. IInv /\ [Next]_vars => [Snapshot!Next]_Snapshot!vars
  BY StepIteration
<1> QED
  BY <1>1, InitIteration, Invariance, PTL DEF Spec, ImplementsIteration, Snapshot!Spec
=============================================================================

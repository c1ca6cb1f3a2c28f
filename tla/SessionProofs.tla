---------------------------- MODULE SessionProofs ---------------------------
(***************************************************************************)
(* Proofs about playing, saving and loading a story, for every story: for  *)
(* every world_step (StepOf), every cart and every bound.                  *)
(*                                                                         *)
(* HistoryOf folds a log from the left, and the fold is a recursive        *)
(* function on sets of positions.  The first section shows what it does,   *)
(* position by position, by taking smallest counterexamples; the second    *)
(* states the inductive invariant and proves the two properties.           *)
(***************************************************************************)
EXTENDS Session, WellFoundedInduction, SequenceTheorems, TLAPS

-----------------------------------------------------------------------------
(* The fold of a log.                                                      *)

\* f is the recursive function behind HistoryOf, over the first n positions.
IsFold(f, log, n) ==
  f = [s \in SUBSET (1 .. n) |->
         IF s = {} THEN Genesis ELSE StepOf(f[s \ {Max(s)}], log[Max(s)]).world]

\* A nonempty set of numbers has a least element.
LEMMA LeastNumber ==
  ASSUME NEW T, T \subseteq Nat, T # {}
  PROVE  \E n \in T : \A m \in T : n <= m
<1>1. PICK n \in T : \A m \in T : ~ (<<m, n>> \in OpToRel(<, Nat))
  BY NatLessThanWellFounded, WFMin
<1>2. \A m \in T : ~ (m < n)
  BY <1>1 DEF OpToRel
<1> QED
  BY <1>2

\* A nonempty set of positions has a greatest element, and it is Max.
LEMMA MaxOfPositions ==
  ASSUME NEW n \in Nat, NEW s, s \subseteq 1 .. n, s # {}
  PROVE  /\ Max(s) \in s
         /\ \A x \in s : Max(s) >= x
<1> DEFINE T == {k \in Nat : \A x \in s : x <= k}
<1>1. PICK k \in T : \A m \in T : k <= m
  <2>1. n \in T
    OBVIOUS
  <2> QED
    BY <2>1, LeastNumber
<1>2. k \in s
  <2>1. SUFFICES ASSUME k \notin s PROVE FALSE
    OBVIOUS
  <2>2. PICK x \in s : TRUE
    OBVIOUS
  <2>3. k >= 1
    BY <2>2
  <2>4. k - 1 \in T
    BY <2>1, <2>3
  <2> QED
    BY <2>4, <1>1
<1>3. \E x \in s : \A y \in s : x >= y
  BY <1>2
<1> QED
  BY <1>3 DEF Max

\* The last of n positions, when it is among those chosen, is their maximum.
LEMMA TopOfPositions ==
  ASSUME NEW n \in Nat, NEW s, s \subseteq 1 .. n, n \in s
  PROVE  Max(s) = n
<1>1. Max(s) \in s /\ Max(s) >= n
  BY MaxOfPositions
<1>2. Max(s) \in 1 .. n
  BY <1>1
<1> QED
  BY <1>1, <1>2

\* Without their greatest, chosen positions lie below it.
LEMMA BelowTheTop ==
  ASSUME NEW n \in Nat, NEW s, s \subseteq 1 .. n, NEW k \in 1 .. n, \A x \in s : x <= k
  PROVE  s \ {k} \subseteq 1 .. k - 1
<1>1. ASSUME NEW x \in s \ {k} PROVE x \in 1 .. k - 1
  <2>1. x \in 1 .. n /\ x # k /\ x <= k
    OBVIOUS
  <2> QED
    BY <2>1
<1> QED
  BY <1>1

\* The recursion has a solution over any number of positions.
LEMMA FoldExists ==
  ASSUME NEW log, NEW n \in Nat
  PROVE  \E f : IsFold(f, log, n)
<1> DEFINE Bad == {k \in Nat : ~ \E f : IsFold(f, log, k)}
<1>1. SUFFICES ASSUME Bad # {} PROVE FALSE
  OBVIOUS
<1>2. PICK k \in Bad : \A m \in Bad : k <= m
  BY <1>1, LeastNumber
<1>3. k # 0
  <2>1. SUFFICES ASSUME k = 0 PROVE FALSE
    OBVIOUS
  <2> DEFINE f == [s \in SUBSET (1 .. 0) |-> Genesis]
  <2>2. SUBSET (1 .. 0) = {{}}
    OBVIOUS
  <2>3. f = [s \in SUBSET (1 .. 0) |->
               IF s = {} THEN Genesis ELSE StepOf(f[s \ {Max(s)}], log[Max(s)]).world]
    BY <2>2
  <2>4. IsFold(f, log, 0)
    BY <2>3 DEF IsFold
  <2> QED
    BY <2>1, <2>4, <1>2
<1>4. k - 1 \in Nat /\ k - 1 \notin Bad
  BY <1>2, <1>3
<1>5. PICK g : IsFold(g, log, k - 1)
  BY <1>4
<1>51. k \in Nat /\ k >= 1
  BY <1>2, <1>3
<1> HIDE DEF Bad
<1> DEFINE f == [s \in SUBSET (1 .. k) |->
                   IF k \in s THEN StepOf(g[s \ {k}], log[k]).world ELSE g[s]]
<1>6. ASSUME NEW s \in SUBSET (1 .. k)
      PROVE  f[s] = IF s = {} THEN Genesis ELSE StepOf(f[s \ {Max(s)}], log[Max(s)]).world
  <2>1. CASE k \in s
    <3>1. Max(s) = k
      BY <2>1, <1>51, TopOfPositions
    <3>2. s \ {k} \in SUBSET (1 .. k) /\ k \notin s \ {k}
      OBVIOUS
    <3>3. f[s \ {k}] = g[s \ {k}]
      BY <3>2
    <3>4. f[s] = StepOf(g[s \ {k}], log[k]).world
      BY <2>1
    <3> QED
      BY <3>1, <3>3, <3>4, <2>1
  <2>2. CASE k \notin s
    <3>1. s \in SUBSET (1 .. k - 1)
      <4>1. k \in 1 .. k /\ \A x \in s : x <= k
        BY <1>51
      <4>2. s \ {k} \subseteq 1 .. k - 1
        BY <4>1, <1>51, BelowTheTop
      <4> QED
        BY <4>2, <2>2
    <3>2. f[s] = g[s]
      BY <2>2
    <3>3. g[s] = IF s = {} THEN Genesis ELSE StepOf(g[s \ {Max(s)}], log[Max(s)]).world
      BY <1>5, <3>1 DEF IsFold
    <3>4. s \ {Max(s)} \in SUBSET (1 .. k) /\ k \notin s \ {Max(s)}
      BY <2>2
    <3>5. f[s \ {Max(s)}] = g[s \ {Max(s)}]
      BY <3>4
    <3> QED
      BY <3>2, <3>3, <3>5
  <2> QED
    BY <2>1, <2>2
<1>7. f = [s \in SUBSET (1 .. k) |->
             IF s = {} THEN Genesis ELSE StepOf(f[s \ {Max(s)}], log[Max(s)]).world]
  BY <1>6
<1>8. IsFold(f, log, k)
  BY <1>7 DEF IsFold
<1> QED
  BY <1>8, <1>2 DEF Bad

\* Where two logs agree, their folds do.
LEMMA FoldsAgree ==
  ASSUME NEW l1, NEW l2, NEW n \in Nat, NEW m \in Nat, n <= m, NEW f1, NEW f2,
         IsFold(f1, l1, n), IsFold(f2, l2, m), \A i \in 1 .. n : l1[i] = l2[i]
  PROVE  f1[1 .. n] = f2[1 .. n]
<1> DEFINE Bad == {k \in 0 .. n : \E s \in SUBSET (1 .. k) : f1[s] # f2[s]}
<1>1. SUFFICES ASSUME f1[1 .. n] # f2[1 .. n] PROVE FALSE
  OBVIOUS
<1>2. PICK k \in Bad : \A j \in Bad : k <= j
  <2>1. n \in Bad /\ Bad \subseteq Nat
    BY <1>1
  <2> HIDE DEF Bad
  <2> QED
    BY <2>1, LeastNumber
<1>3. PICK s \in SUBSET (1 .. k) : f1[s] # f2[s]
  OBVIOUS
<1>4. s \in SUBSET (1 .. n) /\ s \in SUBSET (1 .. m)
  OBVIOUS
<1>5. /\ f1[s] = IF s = {} THEN Genesis ELSE StepOf(f1[s \ {Max(s)}], l1[Max(s)]).world
      /\ f2[s] = IF s = {} THEN Genesis ELSE StepOf(f2[s \ {Max(s)}], l2[Max(s)]).world
  BY <1>4 DEF IsFold
<1>6. s # {}
  BY <1>3, <1>5
<1>7. Max(s) \in s /\ \A x \in s : Max(s) >= x
  <2>1. k \in Nat /\ s \subseteq 1 .. k
    OBVIOUS
  <2> HIDE DEF Bad
  <2> QED
    BY <2>1, <1>6, MaxOfPositions
<1>71. Max(s) \in 1 .. k /\ k \in 0 .. n
  BY <1>7
<1>8. s \ {Max(s)} \in SUBSET (1 .. Max(s) - 1) /\ Max(s) - 1 \in 0 .. n /\ Max(s) - 1 < k
  <2>1. k \in Nat /\ s \subseteq 1 .. k /\ \A x \in s : x <= Max(s)
    BY <1>7, <1>71
  <2> HIDE DEF Bad
  <2>2. s \ {Max(s)} \subseteq 1 .. Max(s) - 1
    BY <2>1, <1>71, BelowTheTop
  <2> QED
    BY <2>2, <1>71
<1>81. Max(s) - 1 \in Bad => k <= Max(s) - 1
  BY <1>2
<1>9. f1[s \ {Max(s)}] = f2[s \ {Max(s)}]
  BY <1>8, <1>81
<1>10. l1[Max(s)] = l2[Max(s)]
  BY <1>7, <1>4
<1> QED
  BY <1>3, <1>5, <1>6, <1>9, <1>10

\* HistoryOf is a fold over all the positions of the log.
LEMMA HistoryIsAFold ==
  ASSUME NEW S, NEW log \in Seq(S)
  PROVE  \E f : IsFold(f, log, Len(log)) /\ HistoryOf(log) = f[1 .. Len(log)]
<1> DEFINE F == CHOOSE f : f = [s \in SUBSET (DOMAIN log) |->
                  IF s = {} THEN Genesis ELSE StepOf(f[s \ {Max(s)}], log[Max(s)]).world]
<1>1. HistoryOf(log) = F[DOMAIN log]
  BY DEF HistoryOf, FoldLeft, MapThenFoldSet
<1>2. DOMAIN log = 1 .. Len(log) /\ Len(log) \in Nat
  OBVIOUS
<1>3. \E f : f = [s \in SUBSET (DOMAIN log) |->
                  IF s = {} THEN Genesis ELSE StepOf(f[s \ {Max(s)}], log[Max(s)]).world]
  <2>1. \E f : IsFold(f, log, Len(log))
    BY <1>2, FoldExists
  <2> QED
    BY <2>1, <1>2 DEF IsFold
<1>4. F = [s \in SUBSET (DOMAIN log) |->
             IF s = {} THEN Genesis ELSE StepOf(F[s \ {Max(s)}], log[Max(s)]).world]
  BY <1>3
<1>5. IsFold(F, log, Len(log))
  BY <1>4, <1>2 DEF IsFold
<1> QED
  BY <1>1, <1>2, <1>5

\* A log no step was taken for leads nowhere.
LEMMA HistoryOfNothing == HistoryOf(<<>>) = Genesis
<1>1. <<>> \in Seq({}) /\ Len(<<>>) = 0
  OBVIOUS
<1>2. PICK f : IsFold(f, <<>>, 0) /\ HistoryOf(<<>>) = f[1 .. 0]
  BY <1>1, HistoryIsAFold
<1>3. {} \in SUBSET (1 .. 0) /\ 1 .. 0 = {}
  OBVIOUS
<1> QED
  BY <1>2, <1>3 DEF IsFold

\* One more entry is one more step.
LEMMA HistoryOfOneMore ==
  ASSUME NEW S, NEW log \in Seq(S), NEW acts \in S
  PROVE  HistoryOf(Append(log, acts)) = StepOf(HistoryOf(log), acts).world
<1> DEFINE n == Len(log)  more == Append(log, acts)
<1>1. /\ n \in Nat
      /\ more \in Seq(S) /\ Len(more) = n + 1 /\ more[n + 1] = acts
      /\ \A i \in 1 .. n : log[i] = more[i]
  OBVIOUS
<1>2. PICK f : IsFold(f, log, n) /\ HistoryOf(log) = f[1 .. n]
  BY HistoryIsAFold
<1>3. PICK g : IsFold(g, more, n + 1) /\ HistoryOf(more) = g[1 .. n + 1]
  BY <1>1, HistoryIsAFold
<1> HIDE DEF more, n
<1>4. f[1 .. n] = g[1 .. n]
  BY <1>1, <1>2, <1>3, FoldsAgree
<1>5. 1 .. n + 1 \in SUBSET (1 .. n + 1) /\ n + 1 \in 1 .. n + 1 /\ 1 .. n + 1 # {}
  <2>1. n + 1 \in 1 .. n + 1
    BY <1>1
  <2> QED
    BY <2>1
<1>6. Max(1 .. n + 1) = n + 1
  <2>1. n + 1 \in Nat
    BY <1>1
  <2> DEFINE P == 1 .. n + 1
  <2>2. P \subseteq 1 .. n + 1 /\ n + 1 \in P
    BY <1>5
  <2> HIDE DEF P
  <2>3. Max(P) = n + 1
    BY <2>1, <2>2, TopOfPositions
  <2> QED
    BY <2>3 DEF P
<1>7. (1 .. n + 1) \ {n + 1} = 1 .. n
  BY <1>1
<1>8. g[1 .. n + 1] = StepOf(g[1 .. n], more[n + 1]).world
  BY <1>3, <1>5, <1>6, <1>7 DEF IsFold
<1> QED
  BY <1>1, <1>2, <1>3, <1>4, <1>8 DEF more

-----------------------------------------------------------------------------
(* The invariant.                                                          *)

\* rt has the fields of a runtime and no others.
IsRuntime ==
  rt = [tick |-> rt.tick, rejected |-> rt.rejected, log |-> rt.log, feed |-> rt.feed,
        atfeed |-> rt.atfeed, replaying |-> rt.replaying]

\* Every entry of a log is a step that was taken where the entries before it led.
Accepted(log) ==
  \A k \in 1 .. Len(log) :
    log[k] # <<>> /\ StepOf(HistoryOf(SubSeq(log, 1, k - 1)), log[k]).ok

\* A log is a sequence of accepted steps.
IsLog(log) == (\E S : log \in Seq(S)) /\ Accepted(log)

LogInv == IsRuntime /\ IsLog(rt.log) /\ world = HistoryOf(rt.log)

\* What is on disk is a log, and it leads to the world it was saved from.
DiskInv == disk # NoFile => IsLog(disk.lines) /\ saved = HistoryOf(disk.lines)

\* While the file on disk is fed back, the log is the part of it fed so far:
\* no fed entry is refused, skipped or logged twice.
FeedInv ==
  rt.replaying /\ disk # NoFile /\ rt.feed = disk.lines =>
    rt.atfeed \in 0 .. Len(disk.lines) /\ rt.log = SubSeq(disk.lines, 1, rt.atfeed)

SessionInv == LogInv /\ DiskInv /\ FeedInv

\* The smaller of two integers.
LEMMA MinOfTwo ==
  ASSUME NEW a \in Int, NEW b \in Int
  PROVE  Min({a, b}) = IF a <= b THEN a ELSE b
<1>1. \E x \in {a, b} : \A y \in {a, b} : x =< y
  OBVIOUS
<1>2. Min({a, b}) \in {a, b} /\ Min({a, b}) =< a /\ Min({a, b}) =< b
  BY <1>1 DEF Min
<1> QED
  BY <1>2

\* An accepted step makes the log longer by an accepted entry.
LEMMA LogGrows ==
  ASSUME NEW log, IsLog(log), NEW acts, acts # <<>>, StepOf(HistoryOf(log), acts).ok
  PROVE  /\ IsLog(Append(log, acts))
         /\ HistoryOf(Append(log, acts)) = StepOf(HistoryOf(log), acts).world
<1>1. PICK S : log \in Seq(S)
  BY DEF IsLog
<1> DEFINE T == S \cup {acts}  more == Append(log, acts)
<1>2. log \in Seq(T) /\ acts \in T
  BY <1>1, SeqMonotonic
<1> HIDE DEF T
<1>3. /\ more \in Seq(T) /\ Len(log) \in Nat /\ Len(more) = Len(log) + 1
      /\ more[Len(log) + 1] = acts
      /\ \A i \in 1 .. Len(log) : more[i] = log[i]
  BY <1>2
<1>4. HistoryOf(more) = StepOf(HistoryOf(log), acts).world
  BY <1>2, HistoryOfOneMore
<1>5. ASSUME NEW k \in 1 .. Len(more)
      PROVE  more[k] # <<>> /\ StepOf(HistoryOf(SubSeq(more, 1, k - 1)), more[k]).ok
  <2>1. SubSeq(more, 1, k - 1) = SubSeq(log, 1, k - 1)
    BY <1>2, <1>3, <1>5
  <2>2. CASE k \in 1 .. Len(log)
    BY <2>1, <2>2, <1>3 DEF IsLog, Accepted
  <2>3. CASE k = Len(log) + 1
    <3>1. SubSeq(log, 1, k - 1) = log
      BY <2>3, <1>2, <1>3, SubSeqFull
    <3> QED
      BY <2>1, <2>3, <3>1, <1>3
  <2> QED
    BY <2>2, <2>3, <1>3
<1> QED
  BY <1>3, <1>4, <1>5 DEF IsLog, Accepted

\* What a tick does to the log: it takes a step and logs it, or does neither.
LEMMA TickOutcome ==
  ASSUME IsRuntime, Play
  PROVE  \E acts :
    /\ IF acts # <<>> /\ StepOf(world, acts).ok
         THEN world' = StepOf(world, acts).world /\ rt'.log = Append(rt.log, acts)
         ELSE world' = world /\ rt'.log = rt.log
    /\ rt.replaying => acts = IF rt.atfeed < Len(rt.feed) THEN rt.feed[rt.atfeed + 1] ELSE <<>>
    /\ rt'.feed = rt.feed /\ rt'.replaying = rt.replaying
    /\ rt'.atfeed = Min({rt.atfeed + 1, Len(rt.feed)})
    /\ IsRuntime'
    /\ UNCHANGED <<disk, saved>>
<1>1. PICK raw \in Inputs : Tick(raw)
  BY DEF Play
<1>2. PICK acts, took :
        /\ \E proposal : acts = Disposed(proposal)
        /\ took = IF acts = <<>> THEN [ok |-> TRUE, world |-> world, emits |-> emits]
                  ELSE Take(world, acts)
        /\ world' = took.world
        /\ rt' = [rt EXCEPT !.tick = @ + 1, !.rejected = ~ took.ok,
                            !.log = LogAfter(acts, took.ok),
                            !.atfeed = Min({@ + 1, Len(rt.feed)})]
        /\ UNCHANGED <<disk, saved>>
  BY <1>1 DEF Tick
<1>3. /\ rt'.log = LogAfter(acts, took.ok) /\ rt'.feed = rt.feed
      /\ rt'.replaying = rt.replaying /\ rt'.atfeed = Min({rt.atfeed + 1, Len(rt.feed)})
      /\ IsRuntime'
  BY <1>2 DEF IsRuntime
<1>4. rt.replaying => acts = IF rt.atfeed < Len(rt.feed) THEN rt.feed[rt.atfeed + 1] ELSE <<>>
  BY <1>2 DEF Disposed
<1>5. IF acts # <<>> /\ StepOf(world, acts).ok
        THEN world' = StepOf(world, acts).world /\ rt'.log = Append(rt.log, acts)
        ELSE world' = world /\ rt'.log = rt.log
  <2>1. CASE acts = <<>>
    BY <2>1, <1>2, <1>3 DEF LogAfter
  <2>2. CASE acts # <<>> /\ StepOf(world, acts).ok
    BY <2>2, <1>2, <1>3 DEF LogAfter, Take
  <2>3. CASE acts # <<>> /\ ~ StepOf(world, acts).ok
    BY <2>3, <1>2, <1>3 DEF LogAfter, Take
  <2> QED
    BY <2>1, <2>2, <2>3
<1> QED
  BY <1>2, <1>3, <1>4, <1>5
-----------------------------------------------------------------------------
(* The steps preserve it.                                                  *)

\* A session starts with a log: the empty one.
LEMMA FreshLog == IsLog(<<>>)
<1>1. <<>> \in Seq({}) /\ Len(<<>>) = 0
  OBVIOUS
<1> QED
  BY <1>1 DEF IsLog, Accepted

\* The invariant holds when the program starts.
LEMMA InitInv == Init => SessionInv
<1> SUFFICES ASSUME Init PROVE SessionInv
  OBVIOUS
<1>1. LogInv
  BY FreshLog, HistoryOfNothing DEF Init, FreshRuntime, LogInv, IsRuntime
<1>2. DiskInv /\ FeedInv
  BY DEF Init, DiskInv, FeedInv
<1> QED
  BY <1>1, <1>2 DEF SessionInv

\* A tick keeps it, played live or fed from a save.
LEMMA TickInv == SessionInv /\ Play => SessionInv'
<1> SUFFICES ASSUME SessionInv, Play PROVE SessionInv'
  OBVIOUS
<1> USE DEF SessionInv
<1>1. PICK acts :
    /\ IF acts # <<>> /\ StepOf(world, acts).ok
         THEN world' = StepOf(world, acts).world /\ rt'.log = Append(rt.log, acts)
         ELSE world' = world /\ rt'.log = rt.log
    /\ rt.replaying => acts = IF rt.atfeed < Len(rt.feed) THEN rt.feed[rt.atfeed + 1] ELSE <<>>
    /\ rt'.feed = rt.feed /\ rt'.replaying = rt.replaying
    /\ rt'.atfeed = Min({rt.atfeed + 1, Len(rt.feed)})
    /\ IsRuntime'
    /\ UNCHANGED <<disk, saved>>
  BY TickOutcome DEF LogInv
<1>2. LogInv'
  <2>1. CASE acts # <<>> /\ StepOf(world, acts).ok
    <3>1. IsLog(Append(rt.log, acts)) /\ HistoryOf(Append(rt.log, acts)) = StepOf(world, acts).world
      BY <2>1, LogGrows DEF LogInv
    <3> QED
      BY <1>1, <2>1, <3>1 DEF LogInv
  <2>2. CASE ~ (acts # <<>> /\ StepOf(world, acts).ok)
    BY <1>1, <2>2 DEF LogInv
  <2> QED
    BY <2>1, <2>2
<1>3. DiskInv'
  BY <1>1 DEF DiskInv
<1>4. FeedInv'
  <2>1. SUFFICES ASSUME rt.replaying, disk # NoFile, rt.feed = disk.lines
        PROVE  /\ rt'.atfeed \in 0 .. Len(disk.lines)
               /\ rt'.log = SubSeq(disk.lines, 1, rt'.atfeed)
    BY <1>1 DEF FeedInv
  <2> DEFINE lines == disk.lines  k == rt.atfeed
  <2>2. /\ IsLog(lines)
        /\ k \in 0 .. Len(lines) /\ rt.log = SubSeq(lines, 1, k)
    BY <2>1 DEF DiskInv, FeedInv
  <2>3. PICK S : lines \in Seq(S)
    BY <2>2 DEF IsLog
  <2>4. /\ acts = IF k < Len(lines) THEN lines[k + 1] ELSE <<>>
        /\ rt'.atfeed = Min({k + 1, Len(lines)})
    BY <1>1, <2>1
  <2> HIDE DEF lines, k
  <2>5. Len(lines) \in Nat /\ k \in Nat
    BY <2>2, <2>3
  <2>6. CASE k < Len(lines)
    <3>1. rt'.atfeed = k + 1
      BY <2>4, <2>5, <2>6, MinOfTwo
    <3>2. k + 1 \in 1 .. Len(lines) /\ (k + 1) - 1 = k
      BY <2>5, <2>6
    <3>3. acts # <<>> /\ StepOf(HistoryOf(SubSeq(lines, 1, k)), acts).ok
      BY <2>2, <2>4, <2>6, <3>2 DEF IsLog, Accepted
    <3>4. rt'.log = Append(rt.log, acts)
      BY <1>1, <2>2, <3>3 DEF LogInv
    <3>5. Append(SubSeq(lines, 1, k), lines[k + 1]) = SubSeq(lines, 1, k + 1)
      BY <2>3, <2>5, <3>2
    <3>6. rt'.log = SubSeq(lines, 1, rt'.atfeed)
      <4>1. acts = lines[k + 1]
        BY <2>4, <2>6
      <4> QED
        BY Zenon, <2>2, <3>1, <3>4, <3>5, <4>1
    <3>7. rt'.atfeed \in 0 .. Len(lines)
      BY <2>5, <3>1, <3>2
    <3> QED
      BY <3>6, <3>7 DEF lines
  <2>7. CASE ~ (k < Len(lines))
    <3>0. k = Len(lines) /\ k \in Int /\ k + 1 \in Int
      BY <2>2, <2>5, <2>7
    <3>1. rt'.atfeed = k
      BY <2>4, <3>0, MinOfTwo
    <3>2. rt'.log = rt.log
      BY <1>1, <2>4, <2>7
    <3> QED
      BY <2>2, <2>5, <3>0, <3>1, <3>2 DEF lines
  <2> QED
    BY <2>6, <2>7
<1> QED
  BY <1>2, <1>3, <1>4

\* A drawn frame touches neither the world nor the log.
LEMMA FrameInv == SessionInv /\ Frame => SessionInv'
BY DEF SessionInv, LogInv, DiskInv, FeedInv, Frame, IsRuntime, rtvars

\* Loading a save keeps it: nothing is fed yet and the log is empty.
LEMMA LoadInv == ASSUME NEW file PROVE SessionInv /\ Load(file) => SessionInv'
<1> SUFFICES ASSUME SessionInv, Load(file) PROVE SessionInv'
  OBVIOUS
<1> USE DEF SessionInv
<1>1. /\ IsRuntime' /\ rt'.log = rt.log /\ rt'.atfeed = 0 /\ rt.log = <<>>
      /\ UNCHANGED <<world, disk, saved>>
  BY DEF Load, LogInv, IsRuntime
<1>2. LogInv'
  BY <1>1 DEF LogInv
<1>3. DiskInv'
  BY <1>1 DEF DiskInv
<1>4. FeedInv'
  <2>1. SUFFICES ASSUME disk # NoFile
        PROVE  0 \in 0 .. Len(disk.lines) /\ <<>> = SubSeq(disk.lines, 1, 0)
    BY <1>1 DEF FeedInv
  <2>2. PICK S : disk.lines \in Seq(S)
    BY <2>1 DEF DiskInv, IsLog
  <2> QED
    BY <2>2
<1> QED
  BY <1>2, <1>3, <1>4

\* Quitting keeps it, with the log saved or dropped.
LEMMA QuitInv == ASSUME NEW save \in BOOLEAN PROVE SessionInv /\ Quit(save) => SessionInv'
<1> SUFFICES ASSUME SessionInv, Quit(save) PROVE SessionInv'
  OBVIOUS
<1> USE DEF SessionInv
<1>1. LogInv'
  BY FreshLog, HistoryOfNothing DEF Quit, FreshRuntime, LogInv, IsRuntime
<1>2. DiskInv'
  BY DEF Quit, DiskInv, LogInv
<1>3. FeedInv'
  BY DEF Quit, FeedInv, FreshRuntime
<1> QED
  BY <1>1, <1>2, <1>3

\* The invariant holds of every state of every player, whatever is loaded.
LEMMA SessionInvariant == Spec => []SessionInv
<1>1. SessionInv /\ [Next]_vars => SessionInv'
  <2> SUFFICES ASSUME SessionInv, [Next]_vars PROVE SessionInv'
    OBVIOUS
  <2>1. CASE Play
    BY <2>1, TickInv
  <2>2. CASE Frame
    BY <2>2, FrameInv
  <2>3. CASE \E file \in {disk} \cup Foreign : Load(file)
    BY <2>3, LoadInv
  <2>4. CASE \E save \in BOOLEAN : Quit(save)
    BY <2>4, QuitInv
  <2>5. CASE UNCHANGED vars
    BY <2>5 DEF vars, rtvars, SessionInv, LogInv, DiskInv, FeedInv, IsRuntime
  <2> QED
    BY <2>1, <2>2, <2>3, <2>4, <2>5 DEF Next
<1> QED
  BY <1>1, InitInv, PTL DEF Spec

\* Whatever the cart proposes, whatever the world refuses and whatever log is
\* fed in place of the cart, the world is the fold of the action log over a
\* fresh world (runtime.h: each is a function of the other).
THEOREM LogTellsAll == Spec => []LogIsTheHistory
<1>1. SessionInv => LogIsTheHistory
  BY DEF SessionInv, LogInv, LogIsTheHistory
<1> QED
  BY <1>1, SessionInvariant, PTL

\* Feeding the saved log back, whichever cart drives, ends in the world that was
\* saved and in the log on disk (rt_load, rt_step, rt_save).
THEOREM SavesLoad == Spec => []LoadRestoresTheSave
<1>1. SessionInv => LoadRestoresTheSave
  <2> SUFFICES ASSUME SessionInv, rt.replaying, disk # NoFile, rt.feed = disk.lines,
                      rt.atfeed = Len(rt.feed)
      PROVE  world = saved /\ rt.log = disk.lines
    BY DEF LoadRestoresTheSave
  <2>1. PICK S : disk.lines \in Seq(S)
    BY DEF SessionInv, DiskInv, IsLog
  <2>2. rt.log = SubSeq(disk.lines, 1, Len(disk.lines))
    BY DEF SessionInv, FeedInv
  <2>3. rt.log = disk.lines
    BY <2>1, <2>2, SubSeqFull
  <2> QED
    BY <2>3 DEF SessionInv, LogInv, DiskInv
<1> QED
  BY <1>1, SessionInvariant, PTL

-----------------------------------------------------------------------------
(* Sequences put together from others.                                     *)

\* f is the recursive function behind FlattenSeq, over the first n sequences.
IsFlatten(f, seqs, n) ==
  f = [i \in 1 .. n |-> IF i = 1 THEN seqs[i] ELSE f[i - 1] \o seqs[i]]

\* The recursion has a solution over any number of sequences.
LEMMA FlattenExists ==
  ASSUME NEW seqs, NEW n \in Nat
  PROVE  \E f : IsFlatten(f, seqs, n)
<1> DEFINE Bad == {m \in Nat : ~ \E f : IsFlatten(f, seqs, m)}
<1>1. SUFFICES ASSUME Bad # {} PROVE FALSE
  OBVIOUS
<1>2. PICK m \in Bad : \A j \in Bad : m <= j
  BY <1>1, LeastNumber
<1>3. m # 0
  <2>1. SUFFICES ASSUME m = 0 PROVE FALSE
    OBVIOUS
  <2> DEFINE f == [i \in 1 .. 0 |-> <<>>]
  <2>2. \A i : i \notin 1 .. 0
    OBVIOUS
  <2>3. f = [i \in 1 .. 0 |-> IF i = 1 THEN seqs[i] ELSE f[i - 1] \o seqs[i]]
    BY <2>2
  <2>4. IsFlatten(f, seqs, 0)
    BY <2>3 DEF IsFlatten
  <2> QED
    BY <2>1, <2>4, <1>2
<1>4. m \in Nat /\ m >= 1 /\ m - 1 \in Nat /\ m - 1 \notin Bad
  BY <1>2, <1>3
<1>5. PICK g : IsFlatten(g, seqs, m - 1)
  BY <1>4
<1>6. ~ \E f : IsFlatten(f, seqs, m)
  BY <1>2
<1> HIDE DEF Bad
<1> DEFINE f == [i \in 1 .. m |-> IF i = m THEN (IF m = 1 THEN seqs[m] ELSE g[m - 1] \o seqs[m])
                                         ELSE g[i]]
<1>7. ASSUME NEW i \in 1 .. m
      PROVE  f[i] = IF i = 1 THEN seqs[i] ELSE f[i - 1] \o seqs[i]
  <2>1. CASE i = m
    <3>1. CASE m = 1
      BY <2>1, <3>1
    <3>2. CASE m # 1
      <4>1. m - 1 \in 1 .. m /\ m - 1 # m
        BY <1>4, <3>2
      <4>2. f[m - 1] = g[m - 1]
        BY <4>1
      <4> QED
        BY <2>1, <3>2, <4>2
    <3> QED
      BY <3>1, <3>2
  <2>2. CASE i # m
    <3>1. i \in 1 .. m - 1
      BY <1>4, <2>2
    <3>2. g[i] = IF i = 1 THEN seqs[i] ELSE g[i - 1] \o seqs[i]
      BY <1>5, <3>1 DEF IsFlatten
    <3>3. CASE i = 1
      BY <2>2, <3>2, <3>3
    <3>4. CASE i # 1
      <4>1. i - 1 \in 1 .. m /\ i - 1 # m
        BY <1>4, <3>1, <3>4
      <4>2. f[i - 1] = g[i - 1]
        BY <4>1
      <4> QED
        BY <2>2, <3>2, <3>4, <4>2
    <3> QED
      BY <3>3, <3>4
  <2> QED
    BY <2>1, <2>2
<1>8. f = [i \in 1 .. m |-> f[i]]
  OBVIOUS
<1> HIDE DEF f
<1>9. f = [i \in 1 .. m |-> IF i = 1 THEN seqs[i] ELSE f[i - 1] \o seqs[i]]
  BY <1>7, <1>8
<1> QED
  BY <1>6, <1>9 DEF IsFlatten

\* FlattenSeq is the last of the partial results.
LEMMA FlattenIsLast ==
  ASSUME NEW S, NEW seqs \in Seq(S), Len(seqs) # 0
  PROVE  \E f : IsFlatten(f, seqs, Len(seqs)) /\ FlattenSeq(seqs) = f[Len(seqs)]
<1> DEFINE n == Len(seqs)
           F == CHOOSE f : f = [i \in 1 .. n |-> IF i = 1 THEN seqs[i] ELSE f[i - 1] \o seqs[i]]
<1>1. FlattenSeq(seqs) = F[n]
  BY DEF FlattenSeq
<1>0. n \in Nat
  OBVIOUS
<1>2. \E f : IsFlatten(f, seqs, n)
  <2> HIDE DEF n
  <2> QED
    BY <1>0, FlattenExists
<1>3. \E f : f = [i \in 1 .. n |-> IF i = 1 THEN seqs[i] ELSE f[i - 1] \o seqs[i]]
  BY <1>2 DEF IsFlatten
<1>4. F = [i \in 1 .. n |-> IF i = 1 THEN seqs[i] ELSE F[i - 1] \o seqs[i]]
  BY <1>3
<1> HIDE DEF F
<1>5. IsFlatten(F, seqs, n)
  BY <1>4 DEF IsFlatten
<1> QED
  BY <1>1, <1>5

\* Sequences over S are put together to a sequence over S.
LEMMA FlattenType ==
  ASSUME NEW S, NEW seqs \in Seq(Seq(S))
  PROVE  FlattenSeq(seqs) \in Seq(S)
<1>1. CASE Len(seqs) = 0
  <2>1. seqs = <<>> /\ FlattenSeq(seqs) = <<>> /\ <<>> \in Seq(S)
    BY <1>1 DEF FlattenSeq
  <2> QED
    BY <2>1
<1>2. CASE Len(seqs) # 0
  <2>1. PICK f : IsFlatten(f, seqs, Len(seqs)) /\ FlattenSeq(seqs) = f[Len(seqs)]
    BY <1>2, FlattenIsLast
  <2>2. PICK n : n = Len(seqs) /\ n \in Nat /\ n # 0 /\ \A i \in 1 .. n : seqs[i] \in Seq(S)
    BY <1>2
  <2>3. \A i \in 1 .. n : f[i] = IF i = 1 THEN seqs[i] ELSE f[i - 1] \o seqs[i]
    BY <2>1, <2>2 DEF IsFlatten
  <2> DEFINE Bad == {i \in 1 .. n : f[i] \notin Seq(S)}
  <2>4. SUFFICES ASSUME Bad # {} PROVE FALSE
    BY <2>1, <2>2
  <2>5. PICK i \in Bad : \A j \in Bad : i <= j
    <3>1. Bad \subseteq Nat
      OBVIOUS
    <3> HIDE DEF Bad
    <3> QED
      BY <2>4, <3>1, LeastNumber
  <2>6. i \in 1 .. n /\ f[i] \notin Seq(S)
    BY <2>5
  <2>7. i # 1
    BY <2>2, <2>3, <2>6
  <2>8. i - 1 \in 1 .. n /\ i - 1 \notin Bad
    BY <2>2, <2>5, <2>6, <2>7
  <2>9. f[i - 1] \in Seq(S) /\ seqs[i] \in Seq(S) /\ f[i] = f[i - 1] \o seqs[i]
    BY <2>2, <2>3, <2>6, <2>7, <2>8
  <2> QED
    BY <2>6, <2>9
<1> QED
  BY <1>1, <1>2

\* What is kept of a sequence is a sequence of its elements at those positions.
LEMMA KeepType ==
  ASSUME NEW T, NEW s \in Seq(T), NEW at
  PROVE  Keep(s, at) \in Seq({s[k] : k \in at \cap DOMAIN s})
<1> DEFINE S == {s[k] : k \in at \cap DOMAIN s}
           one(k) == IF k \in at THEN <<s[k]>> ELSE <<>>
<1>1. DOMAIN s = 1 .. Len(s) /\ Len(s) \in Nat
  OBVIOUS
<1>2. \A k \in DOMAIN s : one(k) \in Seq(S)
  <2> SUFFICES ASSUME NEW k \in DOMAIN s PROVE one(k) \in Seq(S)
    OBVIOUS
  <2>1. CASE k \in at
    <3>1. s[k] \in S
      BY <2>1
    <3> HIDE DEF S
    <3> QED
      BY <2>1, <3>1
  <2>2. CASE k \notin at
    <3>1. one(k) = <<>>
      BY <2>2
    <3> HIDE DEF one, S
    <3> QED
      BY <3>1
  <2> QED
    BY <2>1, <2>2
<1>3. Keep(s, at) = FlattenSeq([k \in DOMAIN s |-> one(k)])
  BY DEF Keep
<1> HIDE DEF S, one
<1>4. [k \in DOMAIN s |-> one(k)] \in Seq(Seq(S))
  BY <1>1, <1>2
<1>5. FlattenSeq([k \in DOMAIN s |-> one(k)]) \in Seq(S)
  BY <1>4, FlattenType
<1> QED
  BY <1>3, <1>5 DEF S

\* The beginning of a sequence is a sequence of its elements.
LEMMA FirstFew ==
  ASSUME NEW S, NEW s \in Seq(S), NEW n \in Nat
  PROVE  SubSeq(s, 1, Min({n, Len(s)})) \in Seq(S)
<1>1. Min({n, Len(s)}) \in Nat /\ Min({n, Len(s)}) <= Len(s)
  BY MinOfTwo
<1>2. PICK m \in Nat : m = Min({n, Len(s)}) /\ m <= Len(s)
  BY <1>1
<1>3. \A i \in 1 .. m : s[i] \in S
  BY <1>2
<1>4. SubSeq(s, 1, m) \in Seq(S)
  <2>1. 1 \in Int /\ m \in Int
    OBVIOUS
  <2> QED
    BY <1>3, <2>1, SubSeqProperties, Zenon
<1> QED
  BY <1>2, <1>4

-----------------------------------------------------------------------------
(* What the pure cart submits.                                             *)

Terms == ToSet(ActionList)

Refusal(w, t) == [term |-> t, ok |-> FALSE, blocker |-> CHOOSE b \in Blockers(w, t) : TRUE]

\* Rows that may be shown over world w: an offered one applies.
HonestRows(w) == {OkRow(t) : t \in {x \in Terms : Applies(w, x)}} \cup {Refusal(w, t) : t \in Terms}

\* The rows of a verb are honest.
LEMMA VerbRowsHonest ==
  ASSUME NEW w, NEW terms \in Seq(Terms)
  PROVE  VerbRows(w, terms) \in Seq(HonestRows(w))
<1> DEFINE at == {k \in DOMAIN terms : Applies(w, terms[k])}
           applicable == Keep(terms, at)
           refused == {k \in DOMAIN terms : Offerable(w, terms[k])}
<1>1. VerbRows(w, terms) = IF applicable # <<>> THEN [k \in DOMAIN applicable |-> OkRow(applicable[k])]
                           ELSE IF refused # {} THEN <<Refusal(w, terms[Min(refused)])>> ELSE <<>>
  BY DEF VerbRows, Refusal
<1>2. applicable \in Seq({x \in Terms : Applies(w, x)})
  <2>1. applicable \in Seq({terms[k] : k \in at \cap DOMAIN terms})
    BY KeepType
  <2>2. {terms[k] : k \in at \cap DOMAIN terms} \subseteq {x \in Terms : Applies(w, x)}
    OBVIOUS
  <2> HIDE DEF applicable, at
  <2> QED
    BY <2>1, <2>2, SeqMonotonic
<1>3. refused # {} => terms[Min(refused)] \in Terms
  <2> SUFFICES ASSUME refused # {} PROVE terms[Min(refused)] \in Terms
    OBVIOUS
  <2>1. refused \subseteq DOMAIN terms /\ DOMAIN terms \subseteq Nat
    OBVIOUS
  <2> HIDE DEF refused
  <2>2. \E k \in refused : \A j \in refused : k <= j
    BY <2>1, LeastNumber
  <2>3. Min(refused) \in refused
    BY <2>2 DEF Min
  <2> QED
    BY <2>1, <2>3
<1> HIDE DEF applicable, refused
<1>4. CASE applicable # <<>>
  <2>1. [k \in DOMAIN applicable |-> OkRow(applicable[k])] \in Seq(HonestRows(w))
    <3>1. DOMAIN applicable = 1 .. Len(applicable) /\ Len(applicable) \in Nat
      BY <1>2
    <3>2. \A k \in DOMAIN applicable : OkRow(applicable[k]) \in HonestRows(w)
      BY <1>2 DEF HonestRows
    <3> HIDE DEF OkRow
    <3> QED
      BY <3>1, <3>2
  <2> QED
    BY <1>1, <1>4, <2>1
<1>5. CASE applicable = <<>> /\ refused # {}
  <2>1. Refusal(w, terms[Min(refused)]) \in HonestRows(w)
    BY <1>3, <1>5 DEF HonestRows
  <2> HIDE DEF Refusal
  <2> QED
    BY <1>1, <1>5, <2>1
<1>6. CASE applicable = <<>> /\ refused = {}
  BY <1>1, <1>6
<1> QED
  BY <1>4, <1>5, <1>6

\* A menu is numbered from 1, and what it offers applies.
MenuHonest(w, menu) ==
  /\ \E n \in Nat : DOMAIN menu = 1 .. n
  /\ \A i \in DOMAIN menu : menu[i].ok => Applies(w, menu[i].term)

\* build_menu offers what applies.
LEMMA BuildMenuHonest ==
  ASSUME NEW w, NEW picked, NEW aimed
  PROVE  MenuHonest(w, BuildMenu(w, picked, aimed))
<1> DEFINE kin   == IF picked = None THEN "" ELSE SortOf(picked[1])
           mineAt == {k \in DOMAIN ActionList :
                        /\ ActionList[k] \notin Clickable
                        /\ Mine(ActionList[k], kin, ToSet(picked) \cup ToSet(aimed))}
           mine  == Keep(ActionList, mineAt)
           names == Distinct([k \in DOMAIN mine |-> NameOf(mine[k])])
           verbs == SubSeq(names, 1, Min({MaxMenu, Len(names)}))
           rowsOf(v) == VerbRows(w, Keep(mine, {k \in DOMAIN mine : NameOf(mine[k]) = verbs[v]}))
           all   == FlattenSeq([v \in DOMAIN verbs |-> rowsOf(v)])
           rows  == SubSeq(all, 1, Min({MaxMenu, Len(all)}))
           box   == BoxOf(w, "a_menu")
           menu  == [i \in DOMAIN rows |->
                      [term |-> rows[i].term, ok |-> rows[i].ok, blocker |-> rows[i].blocker,
                       label |-> LabelOf(rows, i), x |-> box.x, y |-> box.y + (i - 1) * (box.h + 3),
                       w |-> box.w, h |-> box.h]]
<1>1. BuildMenu(w, picked, aimed) = menu
  BY DEF BuildMenu
<1>2. mine \in Seq(Terms)
  <2>1. mine \in Seq({ActionList[k] : k \in mineAt \cap DOMAIN ActionList})
    BY ActionListAssumption, KeepType
  <2>2. {ActionList[k] : k \in mineAt \cap DOMAIN ActionList} \subseteq Terms
    BY DEF Terms, ToSet
  <2> HIDE DEF mine, mineAt
  <2> QED
    BY <2>1, <2>2, SeqMonotonic
<1> HIDE DEF mine
<1>3. DOMAIN verbs \subseteq Nat /\ \E n \in Nat : DOMAIN verbs = 1 .. n
  <2> DEFINE s == [k \in DOMAIN mine |-> NameOf(mine[k])]
             T == {NameOf(mine[k]) : k \in DOMAIN mine}
             at == {k \in DOMAIN s : \A j \in 1 .. k - 1 : s[j] # s[k]}
  <2>1. s \in Seq(T)
    BY <1>2
  <2>2. names = Keep(s, at)
    BY DEF Distinct
  <2> HIDE DEF s, at, T
  <2>3. names \in Seq({s[k] : k \in at \cap DOMAIN s})
    BY <2>1, <2>2, KeepType
  <2> DEFINE U == {s[k] : k \in at \cap DOMAIN s}
  <2> HIDE DEF names, U
  <2>4. verbs \in Seq(U)
    BY <2>3, MaxMenuAssumption, FirstFew DEF U
  <2> HIDE DEF verbs
  <2> QED
    BY <2>4
<1> HIDE DEF names, verbs
<1>4. \A v : rowsOf(v) \in Seq(HonestRows(w))
  <2> SUFFICES ASSUME NEW v PROVE rowsOf(v) \in Seq(HonestRows(w))
    OBVIOUS
  <2> DEFINE at == {k \in DOMAIN mine : NameOf(mine[k]) = verbs[v]}
  <2>1. Keep(mine, at) \in Seq({mine[k] : k \in at \cap DOMAIN mine})
    BY <1>2, KeepType
  <2>2. {mine[k] : k \in at \cap DOMAIN mine} \subseteq Terms
    BY <1>2
  <2>3. Keep(mine, at) \in Seq(Terms)
    BY <2>1, <2>2, SeqMonotonic
  <2> HIDE DEF at
  <2>4. VerbRows(w, Keep(mine, at)) \in Seq(HonestRows(w))
    BY <2>3, VerbRowsHonest
  <2> QED
    BY <2>4 DEF at
<1> HIDE DEF rowsOf
<1>5. all \in Seq(HonestRows(w))
  <2>1. [v \in DOMAIN verbs |-> rowsOf(v)] \in Seq(Seq(HonestRows(w)))
    BY <1>3, <1>4
  <2> QED
    BY <2>1, FlattenType
<1> HIDE DEF all
<1>6. rows \in Seq(HonestRows(w))
  BY <1>5, MaxMenuAssumption, FirstFew
<1> HIDE DEF rows
<1>7. \A i \in DOMAIN rows : rows[i].ok => Applies(w, rows[i].term)
  <2> SUFFICES ASSUME NEW i \in DOMAIN rows, rows[i].ok PROVE Applies(w, rows[i].term)
    OBVIOUS
  <2>1. rows[i] \in HonestRows(w)
    BY <1>6
  <2> QED
    BY <2>1 DEF HonestRows, OkRow, Refusal
<1>8. \A i \in DOMAIN menu : menu[i].ok = rows[i].ok /\ menu[i].term = rows[i].term
  OBVIOUS
<1>9. DOMAIN menu = DOMAIN rows /\ \E n \in Nat : DOMAIN rows = 1 .. n
  BY <1>6
<1> HIDE DEF menu
<1> QED
  BY <1>1, <1>7, <1>8, <1>9 DEF MenuHonest

\* What a click on an entity submits applies.
LEMMA PickActionApplies ==
  ASSUME NEW w, NEW e
  PROVE  PickAction(w, e) \in Seq({t \in Terms : Applies(w, t)})
<1> DEFINE at == {k \in DOMAIN ActionList :
                    /\ e \in DOMAIN ClickNames /\ Contains(ClickNames[e], ActionList[k])
                    /\ Applies(w, ActionList[k])}
<1>1. PickAction(w, e) = Keep(ActionList, at)
  BY DEF PickAction
<1>2. Keep(ActionList, at) \in Seq({ActionList[k] : k \in at \cap DOMAIN ActionList})
  BY ActionListAssumption, KeepType
<1>3. {ActionList[k] : k \in at \cap DOMAIN ActionList} \subseteq {t \in Terms : Applies(w, t)}
  BY DEF Terms, ToSet
<1> HIDE DEF at
<1> QED
  BY <1>1, <1>2, <1>3, SeqMonotonic

\* The scene of the pure cart was built over the world it is shown.
MenuInv == cart = "pure" => "menu" \in DOMAIN scene /\ MenuHonest(world, scene.menu)

\* What is proposed from an honest menu applies.
LEMMA ProposalApplies ==
  ASSUME NEW w, NEW s, MenuHonest(w, s.menu), NEW id, ProposalOf(w, s, id) # <<>>
  PROVE  Applies(w, ProposalOf(w, s, id)[1])
<1>1. CASE RowOf(s, id) # {}
  <2> DEFINE R == RowOf(s, id)
  <2>1. R \subseteq DOMAIN s.menu /\ R \subseteq Nat
    BY DEF RowOf, MenuHonest
  <2> HIDE DEF R
  <2>2. \E k \in R : \A j \in R : k <= j
    BY <1>1, <2>1, LeastNumber DEF R
  <2>3. Min(R) \in R
    BY <2>2 DEF Min
  <2>4. ProposalOf(w, s, id) = IF s.menu[Min(R)].ok THEN <<s.menu[Min(R)].term>> ELSE <<>>
    BY <1>1 DEF ProposalOf, R
  <2>5. s.menu[Min(R)].ok
    BY <2>4
  <2> QED
    BY <2>1, <2>3, <2>4, <2>5 DEF MenuHonest
<1>2. CASE RowOf(s, id) = {} /\ EntityOf(s, id) # {}
  <2> DEFINE p == PickAction(w, id[2])
             G == {t \in Terms : Applies(w, t)}
             few == SubSeq(p, 1, Min({1, Len(p)}))
  <2>1. ProposalOf(w, s, id) = few
    BY <1>2 DEF ProposalOf
  <2>2. p \in Seq(G)
    BY PickActionApplies
  <2> HIDE DEF p, G
  <2>3. few \in Seq(G)
    BY <2>2, FirstFew
  <2> HIDE DEF few
  <2>4. few # <<>> => few[1] \in G
    BY <2>3
  <2> QED
    BY <2>1, <2>4 DEF G
<1>3. CASE RowOf(s, id) = {} /\ EntityOf(s, id) = {}
  BY <1>3 DEF ProposalOf
<1> QED
  BY <1>1, <1>2, <1>3

\* Every step keeps the menu honest: it is rebuilt whenever the world may have changed.
LEMMA MenuInvStep == MenuInv /\ [Next]_vars => MenuInv'
<1> SUFFICES ASSUME MenuInv, [Next]_vars PROVE MenuInv'
  OBVIOUS
<1>0. \A w : "menu" \in DOMAIN Rebuild(w) /\ MenuHonest(w, Rebuild(w).menu)
  BY BuildMenuHonest DEF Rebuild
<1>1. ASSUME NEW raw \in Inputs, Tick(raw) PROVE MenuInv'
  <2>1. cart' = cart /\ (cart = "pure" => scene' = Rebuild(world'))
    BY <1>1 DEF Tick
  <2> QED
    BY <1>0, <2>1 DEF MenuInv
<1>2. CASE Frame
  <2>1. UNCHANGED <<cart, world>> /\ (cart = "pure" => scene' = Drawn(world, scene))
    BY <1>2 DEF Frame, rtvars
  <2>2. \A w, s : "menu" \in DOMAIN s =>
                     "menu" \in DOMAIN Drawn(w, s) /\ Drawn(w, s).menu = s.menu
    BY DEF Drawn
  <2> QED
    BY <2>1, <2>2 DEF MenuInv
<1>3. ASSUME NEW file, Load(file) PROVE MenuInv'
  BY <1>3 DEF Load, MenuInv, pcvars
<1>4. ASSUME NEW save \in BOOLEAN, Quit(save) PROVE MenuInv'
  <2>1. world' = Genesis /\ (cart' = "pure" => scene' = Rebuild(Genesis))
    BY <1>4 DEF Quit
  <2> QED
    BY <1>0, <2>1 DEF MenuInv
<1>5. CASE UNCHANGED vars
  BY <1>5 DEF vars, rtvars, pcvars, MenuInv
<1> QED
  BY <1>1, <1>2, <1>3, <1>4, <1>5 DEF Next, Play

\* Whatever the player does next, what the pure cart submits applies to the world it
\* is submitted to (pc_tick).
THEOREM SubmissionsApply == Spec => []SubmitsWhatApplies
<1>1. Init => MenuInv
  <2> SUFFICES ASSUME Init PROVE MenuInv
    OBVIOUS
  <2>1. world = Genesis /\ (cart = "pure" => scene = Rebuild(Genesis))
    BY DEF Init
  <2> QED
    BY <2>1, BuildMenuHonest DEF MenuInv, Rebuild
<1>2. MenuInv => SubmitsWhatApplies
  BY ProposalApplies DEF MenuInv, SubmitsWhatApplies
<1> QED
  BY <1>1, <1>2, MenuInvStep, PTL DEF Spec
=============================================================================

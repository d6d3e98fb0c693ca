-------------------------- MODULE ChallengeProofs --------------------------
(***************************************************************************)
(* Theorems about Challenge, for any number of goroutines and any numbers  *)
(* that solve the challenge: what Search returns is a solution unless two  *)
(* goroutines tore the slice, and no attempt is lost or counted twice.     *)
(***************************************************************************)
EXTENDS Challenge, SumProofs

-----------------------------------------------------------------------------
(* The inductive invariant.                                                *)

\* The goroutine has found a solution: it has tried its present number too.
Has(g) == attempts[g] = work[g] - start[g] + 1

\* Where the goroutines are.  One that has found a solution tries no more.
Progress ==
  /\ hashed \subseteq Works
  /\ start \in [Cores -> Works] /\ work \in [Cores -> Works]
  /\ attempts \in [Cores -> Nat]
  /\ pc \in [Cores -> {"test", "try", "store", "count", "done"}]
  /\ unwritten \in [Cores -> SUBSET {"ptr", "len"}]
  /\ raced \in BOOLEAN
  /\ solution = [ptr |-> solution.ptr, len |-> solution.len]
  /\ \A g \in Cores :
       /\ Has(g) \/ attempts[g] = work[g] - start[g]
       /\ Has(g) => Verify(work[g]) /\ pc[g] \in {"store", "count", "done"}
       /\ pc[g] = "store" => Has(g)
       /\ pc[g] = "store" <=> unwritten[g] # {}
       /\ pc[g] \in {"count", "done"} => \E h \in Cores : Has(h)

\* A word of the slice is what the last of its writers wrote, or what it was
\* declared as when there is none yet.
Wrote(g, word) == Has(g) /\ word \notin unwritten[g]
Words ==
  /\ \/ solution.ptr = None /\ \A g \in Cores : ~ Wrote(g, "ptr")
     \/ \E g \in Cores : Wrote(g, "ptr") /\ solution.ptr = work[g]
  /\ \/ solution.len = 0 /\ \A g \in Cores : ~ Wrote(g, "len")
     \/ \E g \in Cores : Wrote(g, "len") /\ solution.len = Size[work[g]]

\* As long as nobody interfered, the words are of one assignment; while one is
\* under way the word that was written is its writer's.
Torn(g) == unwritten[g] = {"ptr"} \/ unwritten[g] = {"len"}
Whole ==
  ~ raced =>
    /\ \A g \in Cores :
         /\ unwritten[g] = {"len"} => solution.ptr = work[g]
         /\ unwritten[g] = {"ptr"} => solution.len = Size[work[g]]
    /\ (\A g \in Cores : ~ Torn(g)) =>
         \/ solution.ptr = None /\ solution.len = 0
         \/ \E g \in Cores : /\ Has(g) /\ solution.ptr = work[g]
                             /\ solution.len = Size[work[g]]

\* The shared counter has what the goroutines that are done have tried.
Done == {g \in Cores : pc[g] = "done"}
Counted == attempted = SumFunctionOnSet(attempts, Done)

SearchInv == Progress /\ Words /\ Whole /\ Counted


-----------------------------------------------------------------------------
(* Every step keeps the invariant.                                         *)

\* A goroutine goes from one place to another.
LEMMA AtDoes ==
  ASSUME Progress, NEW g \in Cores, NEW here, NEW there, At(g, here, there),
         there \in {"test", "try", "store", "count", "done"}
  PROVE  /\ pc[g] = here /\ pc'[g] = there
         /\ \A h \in Cores \ {g} : pc'[h] = pc[h]
         /\ pc' \in [Cores -> {"test", "try", "store", "count", "done"}]
         /\ here # "done" /\ there # "done" => Done' = Done
<1>1. pc[g] = here /\ pc' = [pc EXCEPT ![g] = there]
  BY DEF At
<1>2. pc \in [Cores -> {"test", "try", "store", "count", "done"}]
  BY DEF Progress
<1>3. /\ pc'[g] = there /\ \A h \in Cores \ {g} : pc'[h] = pc[h]
      /\ pc' \in [Cores -> {"test", "try", "store", "count", "done"}]
  BY <1>1, <1>2
<1> QED BY <1>1, <1>3 DEF Done

\* What those who are done have tried does not change.
LEMMA CountedKept ==
  ASSUME Counted, Done' = Done, attempted' = attempted,
         \A g \in Done : attempts'[g] = attempts[g]
  PROVE  Counted'
<1>1. IsFiniteSet(Done)
  BY ChallengeAssumption, FS_Subset DEF Done
<1>2. SumFunctionOnSet(attempts, Done) = SumFunctionOnSet(attempts', Done)
  BY <1>1, SumSame
<1> QED BY <1>2 DEF Counted

\* The loop's test.
LEMMA TestKeeps ==
  ASSUME SearchInv, NEW g \in Cores, Test(g)
  PROVE  SearchInv'
<1> DEFINE there == IF solution.len = 0 THEN "try" ELSE "count"
<1>1. /\ At(g, "test", there) /\ hashed' = hashed /\ start' = start /\ work' = work
      /\ unwritten' = unwritten /\ attempts' = attempts /\ solution' = solution
      /\ attempted' = attempted /\ raced' = raced
  BY DEF Test
<1>2. Progress /\ Words /\ Whole /\ Counted
  BY DEF SearchInv
<1>3. /\ pc[g] = "test" /\ pc'[g] = there /\ \A h \in Cores \ {g} : pc'[h] = pc[h]
      /\ pc' \in [Cores -> {"test", "try", "store", "count", "done"}]
      /\ Done' = Done
  BY <1>1, <1>2, AtDoes
<1>4. \A h : Has(h)' <=> Has(h)
  BY <1>1 DEF Has
<1>5. there = "count" => \E h \in Cores : Has(h)
  BY <1>2 DEF Words, Wrote
<1>6. Progress'
  <2>1. \A h \in Cores : Verify(work[h])' <=> Verify(work[h])
    BY <1>1 DEF Verify
  <2> QED BY <1>1, <1>2, <1>3, <1>4, <1>5, <2>1 DEF Progress
<1>7. Words' /\ Whole'
  BY <1>1, <1>2, <1>4 DEF Words, Wrote, Whole, Torn
<1>8. Counted'
  BY <1>1, <1>2, <1>3, CountedKept
<1> QED BY <1>6, <1>7, <1>8 DEF SearchInv

\* The goroutine is done.
LEMMA CountKeeps ==
  ASSUME SearchInv, NEW g \in Cores, Count(g)
  PROVE  SearchInv'
<1>1. /\ At(g, "count", "done") /\ hashed' = hashed /\ start' = start /\ work' = work
      /\ unwritten' = unwritten /\ attempts' = attempts /\ solution' = solution
      /\ attempted' = attempted + attempts[g] /\ raced' = raced
  BY DEF Count
<1>2. Progress /\ Words /\ Whole /\ Counted
  BY DEF SearchInv
<1>3. /\ pc[g] = "count" /\ pc'[g] = "done" /\ \A h \in Cores \ {g} : pc'[h] = pc[h]
      /\ pc' \in [Cores -> {"test", "try", "store", "count", "done"}]
  BY <1>1, <1>2, AtDoes
<1>4. \A h : Has(h)' <=> Has(h)
  BY <1>1 DEF Has
<1>5. Progress'
  <2>1. \A h \in Cores : Verify(work[h])' <=> Verify(work[h])
    BY <1>1 DEF Verify
  <2> QED BY <1>1, <1>2, <1>3, <1>4, <2>1 DEF Progress
<1>6. Words' /\ Whole'
  BY <1>1, <1>2, <1>4 DEF Words, Wrote, Whole, Torn
<1>7. Counted'
  <2>1. Done' = Done \cup {g} /\ g \notin Done /\ IsFiniteSet(Done)
    BY <1>3, ChallengeAssumption, FS_Subset DEF Done
  <2>2. \A h \in Cores : attempts[h] \in Int
    BY <1>2 DEF Progress
  <2>3. SumFunctionOnSet(attempts, Done \cup {g}) = SumFunctionOnSet(attempts, Done) + attempts[g]
    <3>1. Done \subseteq Cores
      BY DEF Done
    <3> QED BY <2>1, <2>2, <3>1, SumAdd
  <2> QED BY <1>1, <1>2, <2>1, <2>3 DEF Counted
<1> QED BY <1>5, <1>6, <1>7 DEF SearchInv

\* A goroutine that tries has not found anything, and writes nothing.
LEMMA Trying ==
  ASSUME Progress, NEW g \in Cores, pc[g] = "try"
  PROVE  /\ ~ Has(g) /\ unwritten[g] = {} /\ attempts[g] = work[g] - start[g]
         /\ attempts[g] \in Nat /\ work[g] \in Works /\ work[g] \in Nat /\ start[g] \in Nat
  BY ChallengeAssumption DEF Progress, Works

\* The number that was tried is a solution.
LEMMA FoundKeeps ==
  ASSUME SearchInv, NEW g \in Cores, Found(g)
  PROVE  SearchInv'
<1>1. /\ At(g, "try", "store") /\ Verify(work[g])
      /\ attempts' = [attempts EXCEPT ![g] = @ + 1]
      /\ unwritten' = [unwritten EXCEPT ![g] = {"ptr", "len"}]
      /\ hashed' = hashed /\ start' = start /\ work' = work
      /\ solution' = solution /\ attempted' = attempted /\ raced' = raced
  BY DEF Found
<1>2. Progress /\ Words /\ Whole /\ Counted
  BY DEF SearchInv
<1>3. /\ pc[g] = "try" /\ pc'[g] = "store" /\ \A h \in Cores \ {g} : pc'[h] = pc[h]
      /\ pc' \in [Cores -> {"test", "try", "store", "count", "done"}]
      /\ Done' = Done
  BY <1>1, <1>2, AtDoes
<1>4. /\ ~ Has(g) /\ unwritten[g] = {} /\ attempts[g] = work[g] - start[g]
      /\ attempts[g] \in Nat /\ work[g] \in Nat /\ start[g] \in Nat
  BY <1>2, <1>3, Trying
<1>5. /\ attempts \in [Cores -> Nat] /\ unwritten \in [Cores -> SUBSET {"ptr", "len"}]
  BY <1>2 DEF Progress
<1>6. /\ attempts' \in [Cores -> Nat] /\ attempts'[g] = attempts[g] + 1
      /\ \A h \in Cores \ {g} : attempts'[h] = attempts[h]
      /\ unwritten' \in [Cores -> SUBSET {"ptr", "len"}] /\ unwritten'[g] = {"ptr", "len"}
      /\ \A h \in Cores \ {g} : unwritten'[h] = unwritten[h]
  BY <1>1, <1>4, <1>5
<1>7. Has(g)' /\ \A h \in Cores \ {g} : Has(h)' <=> Has(h)
  <2>1. Has(g)'
    BY <1>1, <1>4, <1>6 DEF Has
  <2> QED BY <1>1, <1>6, <2>1 DEF Has
<1>8. Progress'
  <2>1. \A h \in Cores : Verify(work[h])' <=> Verify(work[h])
    BY <1>1 DEF Verify
  <2>2. \A h \in Cores \ {g} :
          (Has(h) \/ attempts[h] = work[h] - start[h])'
    BY <1>1, <1>2, <1>6, <1>7 DEF Progress
  <2> QED BY <1>1, <1>2, <1>3, <1>6, <1>7, <2>1, <2>2 DEF Progress
<1>9. \A h \in Cores, word \in {"ptr", "len"} : Wrote(h, word)' <=> Wrote(h, word)
  BY <1>4, <1>6, <1>7 DEF Wrote
<1>10. Words'
  BY <1>1, <1>2, <1>9 DEF Words
<1>11. Whole'
  <2>1. \A h \in Cores : Torn(h)' <=> Torn(h)
    BY <1>4, <1>6 DEF Torn
  <2> QED BY <1>1, <1>2, <1>4, <1>6, <1>7, <2>1 DEF Whole
<1>12. Counted'
  <2>1. g \notin Done /\ Done \subseteq Cores
    BY <1>3 DEF Done
  <2> QED BY <1>1, <1>2, <1>3, <1>6, <2>1, CountedKept
<1> QED BY <1>8, <1>10, <1>11, <1>12 DEF SearchInv

\* It is not, and the next one is due.
LEMMA MissedKeeps ==
  ASSUME SearchInv, NEW g \in Cores, Missed(g)
  PROVE  SearchInv'
<1>1. /\ At(g, "try", "test") /\ hashed' = hashed /\ start' = start
      /\ unwritten' = unwritten /\ solution' = solution /\ attempted' = attempted
      /\ raced' = raced
      /\ \/ /\ work[g] < MaxWork
            /\ work' = [work EXCEPT ![g] = @ + 1]
            /\ attempts' = [attempts EXCEPT ![g] = @ + 1]
         \/ work' = work /\ attempts' = attempts
  BY DEF Missed
<1>2. Progress /\ Words /\ Whole /\ Counted
  BY DEF SearchInv
<1>3. /\ pc[g] = "try" /\ pc'[g] = "test" /\ \A h \in Cores \ {g} : pc'[h] = pc[h]
      /\ pc' \in [Cores -> {"test", "try", "store", "count", "done"}]
      /\ Done' = Done
  BY <1>1, <1>2, AtDoes
<1>4. /\ ~ Has(g) /\ unwritten[g] = {} /\ attempts[g] = work[g] - start[g]
      /\ attempts[g] \in Nat /\ work[g] \in Works /\ work[g] \in Nat /\ start[g] \in Nat
  BY <1>2, <1>3, Trying
<1>5. attempts \in [Cores -> Nat] /\ work \in [Cores -> Works]
  BY <1>2 DEF Progress
<1>6. /\ attempts' \in [Cores -> Nat] /\ work' \in [Cores -> Works]
      /\ attempts'[g] = work'[g] - start[g]
      /\ \A h \in Cores \ {g} : attempts'[h] = attempts[h] /\ work'[h] = work[h]
  <2>1. CASE work' = work /\ attempts' = attempts
    BY <1>4, <1>5, <2>1
  <2>2. CASE /\ work[g] < MaxWork
             /\ work' = [work EXCEPT ![g] = @ + 1]
             /\ attempts' = [attempts EXCEPT ![g] = @ + 1]
    <3>1. work[g] + 1 \in Works /\ attempts[g] + 1 \in Nat
          /\ attempts[g] + 1 = (work[g] + 1) - start[g]
      BY <1>4, <2>2, ChallengeAssumption DEF Works
    <3>2. work'[g] = work[g] + 1 /\ attempts'[g] = attempts[g] + 1
      BY <1>5, <2>2
    <3>3. attempts' \in [Cores -> Nat] /\ work' \in [Cores -> Works]
      BY <1>5, <2>2, <3>1
    <3>4. \A h \in Cores \ {g} : attempts'[h] = attempts[h] /\ work'[h] = work[h]
      BY <1>5, <2>2
    <3> QED BY <3>1, <3>2, <3>3, <3>4
  <2> QED BY <1>1, <2>1, <2>2
<1>7. ~ Has(g)' /\ \A h \in Cores \ {g} : Has(h)' <=> Has(h)
  <2>1. work'[g] - start[g] \in Int
    BY <1>4, <1>6 DEF Works
  <2>2. ~ Has(g)'
    BY <1>1, <1>6, <2>1 DEF Has
  <2> QED BY <1>1, <1>6, <2>2 DEF Has
<1>8. Progress'
  <2>1. \A h \in Cores \ {g} : Verify(work[h])' <=> Verify(work[h])
    BY <1>1, <1>6 DEF Verify
  <2>2. \A h \in Cores : (Has(h) \/ attempts[h] = work[h] - start[h])'
    BY <1>1, <1>2, <1>6, <1>7 DEF Progress
  <2>3. \A h \in Cores : (Has(h) => Verify(work[h]) /\ pc[h] \in {"store", "count", "done"})'
    BY <1>2, <1>3, <1>7, <2>1 DEF Progress
  <2>4. \A h \in Cores : /\ (pc[h] = "store" => Has(h))'
                         /\ (pc[h] = "store" <=> unwritten[h] # {})'
    BY <1>1, <1>2, <1>3, <1>4, <1>7 DEF Progress
  <2>5. \A h \in Cores : (pc[h] \in {"count", "done"})' => \E k \in Cores : Has(k)'
    BY <1>2, <1>3, <1>4, <1>7 DEF Progress
  <2> QED BY <1>1, <1>2, <1>3, <1>6, <2>2, <2>3, <2>4, <2>5 DEF Progress
<1>9. \A h \in Cores : \A word : (Wrote(h, word)' <=> Wrote(h, word)) /\ (Has(h) => h # g)
  BY <1>1, <1>4, <1>7 DEF Wrote
<1>10. Words'
  BY <1>1, <1>2, <1>6, <1>9 DEF Words, Wrote
<1>11. Whole'
  <2>1. \A h \in Cores : Torn(h)' <=> Torn(h)
    BY <1>1 DEF Torn
  <2>2. \A h \in Cores : unwritten[h] # {} => work'[h] = work[h] /\ h # g
    BY <1>4, <1>6
  <2> QED BY <1>1, <1>2, <1>4, <1>6, <1>7, <2>1, <2>2 DEF Whole
<1>12. Counted'
  <2>1. g \notin Done /\ Done \subseteq Cores
    BY <1>3 DEF Done
  <2> QED BY <1>1, <1>2, <1>3, <1>6, <2>1, CountedKept
<1> QED BY <1>8, <1>10, <1>11, <1>12 DEF SearchInv

\* The slice after a word of it was written.
LEMMA SliceAfter ==
  ASSUME Progress, NEW g \in Cores, NEW word \in {"ptr", "len"}, Store(g, word)
  PROVE  /\ solution' = [ptr |-> solution'.ptr, len |-> solution'.len]
         /\ word = "ptr" => solution'.ptr = work[g] /\ solution'.len = solution.len
         /\ word = "len" => solution'.len = Size[work[g]] /\ solution'.ptr = solution.ptr
<1> DEFINE p == solution.ptr
           l == solution.len
           w == work[g]
           z == Size[w]
<1>1. solution = [ptr |-> p, len |-> l]
  BY DEF Progress
<1>2. solution' = IF word = "ptr" THEN [solution EXCEPT !.ptr = w]
                                  ELSE [solution EXCEPT !.len = z]
  BY DEF Store
<1> HIDE DEF p, l, w, z
<1>3. solution' = IF word = "ptr" THEN [ptr |-> w, len |-> l] ELSE [ptr |-> p, len |-> z]
  BY <1>1, <1>2
<1>4. /\ solution' = [ptr |-> solution'.ptr, len |-> solution'.len]
      /\ word = "ptr" => solution'.ptr = w /\ solution'.len = l
      /\ word = "len" => solution'.len = z /\ solution'.ptr = p
  BY <1>3
<1> QED BY <1>4 DEF p, l, w, z

\* A word of the slice is written.
LEMMA StoreKeeps ==
  ASSUME SearchInv, NEW g \in Cores, NEW word \in {"ptr", "len"}, Store(g, word)
  PROVE  SearchInv'
<1> DEFINE left == unwritten[g] \ {word}
           there == IF unwritten'[g] = {} THEN "count" ELSE "store"
<1>1. /\ word \in unwritten[g] /\ unwritten' = [unwritten EXCEPT ![g] = left]
      /\ At(g, "store", there) /\ raced' = (raced \/ Writing # {g})
      /\ hashed' = hashed /\ start' = start /\ work' = work
      /\ attempts' = attempts /\ attempted' = attempted
  BY DEF Store
<1>2. Progress /\ Words /\ Whole /\ Counted
  BY DEF SearchInv
<1>3. /\ pc[g] = "store" /\ pc'[g] = there /\ \A h \in Cores \ {g} : pc'[h] = pc[h]
      /\ pc' \in [Cores -> {"test", "try", "store", "count", "done"}]
      /\ Done' = Done
  BY <1>1, <1>2, AtDoes
<1>4. unwritten \in [Cores -> SUBSET {"ptr", "len"}] /\ unwritten[g] \subseteq {"ptr", "len"}
  BY <1>2 DEF Progress
<1>5. /\ unwritten' \in [Cores -> SUBSET {"ptr", "len"}] /\ unwritten'[g] = left
      /\ \A h \in Cores \ {g} : unwritten'[h] = unwritten[h]
  BY <1>1, <1>4
<1>6. \A h : Has(h)' <=> Has(h)
  BY <1>1 DEF Has
<1>7. Has(g)
  BY <1>2, <1>3 DEF Progress
<1>8. /\ solution' = [ptr |-> solution'.ptr, len |-> solution'.len]
      /\ word = "ptr" => solution'.ptr = work[g] /\ solution'.len = solution.len
      /\ word = "len" => solution'.len = Size[work[g]] /\ solution'.ptr = solution.ptr
  BY <1>2, SliceAfter
<1>9. Progress'
  <2>1. \A h \in Cores : Verify(work[h])' <=> Verify(work[h])
    BY <1>1 DEF Verify
  <2>2. raced' \in BOOLEAN
    BY <1>1, <1>2 DEF Progress
  <2>3. \A h \in Cores : /\ (Has(h) \/ attempts[h] = work[h] - start[h])'
                         /\ (Has(h) => Verify(work[h]) /\ pc[h] \in {"store", "count", "done"})'
    BY <1>1, <1>2, <1>3, <1>6, <2>1 DEF Progress
  <2>4. \A h \in Cores : /\ (pc[h] = "store" => Has(h))'
                         /\ (pc[h] = "store" <=> unwritten[h] # {})'
    BY <1>2, <1>3, <1>5, <1>6, <1>7 DEF Progress
  <2>5. \A h \in Cores : (pc[h] \in {"count", "done"})' => \E k \in Cores : Has(k)'
    BY <1>6, <1>7
  <2> QED BY <1>1, <1>2, <1>3, <1>5, <1>8, <2>2, <2>3, <2>4, <2>5 DEF Progress
<1>10. Words'
  <2>1. Wrote(g, word)' /\ \A h \in Cores : \A v : v # word => (Wrote(h, v)' <=> Wrote(h, v))
    BY <1>5, <1>6, <1>7 DEF Wrote
  <2>2. CASE word = "ptr"
    BY <1>1, <1>2, <1>8, <2>1, <2>2 DEF Words
  <2>3. CASE word = "len"
    BY <1>1, <1>2, <1>8, <2>1, <2>3 DEF Words
  <2> QED BY <2>2, <2>3
<1>11. Whole'
  <2> SUFFICES ASSUME ~ raced' PROVE Whole'
    BY DEF Whole
  <2>1. ~ raced /\ Writing = {g}
    BY <1>1
  <2>2. \A h \in Cores \ {g} : unwritten'[h] = {}
    BY <1>2, <1>5, <2>1 DEF Writing, Progress
  <2>3. (unwritten[g] = {"len"} => solution.ptr = work[g])
        /\ (unwritten[g] = {"ptr"} => solution.len = Size[work[g]])
    BY <1>2, <2>1 DEF Whole
  <2>4. CASE word = "ptr"
    <3>1. left = {"len"} \/ (left = {} /\ unwritten[g] = {"ptr"})
      BY <1>1, <1>4, <2>4
    <3> QED BY <1>1, <1>5, <1>6, <1>7, <1>8, <2>2, <2>3, <2>4, <3>1 DEF Whole, Torn
  <2>5. CASE word = "len"
    <3>1. left = {"ptr"} \/ (left = {} /\ unwritten[g] = {"len"})
      BY <1>1, <1>4, <2>5
    <3> QED BY <1>1, <1>5, <1>6, <1>7, <1>8, <2>2, <2>3, <2>5, <3>1 DEF Whole, Torn
  <2> QED BY <2>4, <2>5
<1>12. Counted'
  BY <1>1, <1>2, <1>3, CountedKept
<1> QED BY <1>9, <1>10, <1>11, <1>12 DEF SearchInv

\* Before Search has started its goroutines.
LEMMA SearchInvInit == Init => SearchInv
<1> SUFFICES ASSUME Init PROVE SearchInv
  OBVIOUS
<1>1. /\ hashed \in SUBSET Works /\ start \in [Cores -> Starts]
      /\ pc = [g \in Cores |-> "test"] /\ work = start
      /\ unwritten = [g \in Cores |-> {}] /\ attempts = [g \in Cores |-> 0]
      /\ solution = [ptr |-> None, len |-> 0] /\ attempted = 0 /\ raced = FALSE
  BY DEF Init
<1>2. start \in [Cores -> Works] /\ \A g \in Cores : start[g] \in Nat
  BY <1>1, ChallengeAssumption DEF Starts, Works
<1>3. \A g \in Cores : attempts[g] = work[g] - start[g] /\ ~ Has(g)
  BY <1>1, <1>2 DEF Has
<1>4. Progress
  BY <1>1, <1>2, <1>3 DEF Progress
<1>5. Words
  BY <1>1, <1>3 DEF Words, Wrote
<1>6. Whole
  BY <1>1 DEF Whole, Torn
<1>7. Counted
  <2>1. Done = {}
    BY <1>1 DEF Done
  <2>2. SumFunctionOnSet(attempts, {}) = 0
    BY SumEmpty
  <2> QED BY <1>1, <2>1, <2>2 DEF Counted
<1> QED BY <1>4, <1>5, <1>6, <1>7 DEF SearchInv

\* Every step of every goroutine keeps the invariant.
LEMMA SearchInvNext == SearchInv /\ [Next]_vars => SearchInv'
<1> SUFFICES ASSUME SearchInv, [Next]_vars PROVE SearchInv'
  OBVIOUS
<1>1. CASE vars' = vars
  BY <1>1 DEF vars, SearchInv, Progress, Has, Verify, Words, Wrote, Whole, Torn, Counted, Done
<1>2. CASE Next
  <2>1. PICK g \in Cores : Run(g)
    BY <1>2 DEF Next
  <2> QED BY <2>1, TestKeeps, FoundKeeps, MissedKeeps, CountKeeps, StoreKeeps DEF Run
<1> QED BY <1>1, <1>2

\* The inductive invariant of the search.
THEOREM SearchInvHolds == Spec => []SearchInv
  BY SearchInvInit, SearchInvNext, PTL DEF Spec

-----------------------------------------------------------------------------
(* What Search returns.                                                    *)

\* Those who found a solution.
LEMMA FindersHave ==
  ASSUME SearchInv, NEW g \in Cores
  PROVE  g \in Finders <=> Has(g)
<1>1. /\ work[g] \in Nat /\ start[g] \in Nat /\ attempts[g] \in Nat
      /\ Has(g) \/ attempts[g] = work[g] - start[g]
      /\ Has(g) => Verify(work[g])
  BY ChallengeAssumption DEF SearchInv, Progress, Works
<1>2. attempts[g] > work[g] - start[g] <=> Has(g)
  BY <1>1 DEF Has
<1> QED BY <1>1, <1>2 DEF Finders, Verify

\* When all are done the words are those of finders, and of the same one unless
\* two wrote at once.
LEMMA FinishedSlice ==
  ASSUME SearchInv, Finished
  PROVE  /\ \E g \in Cores : Has(g) /\ solution.ptr = work[g]
         /\ \E h \in Cores : Has(h) /\ solution.len = Size[work[h]]
         /\ ~ raced => \E g \in Cores : /\ Has(g) /\ solution.ptr = work[g]
                                        /\ solution.len = Size[work[g]]
<1>1. Progress /\ Words /\ Whole
  BY DEF SearchInv
<1>2. \A g \in Cores : unwritten[g] = {}
  BY <1>1 DEF Finished, Progress
<1>3. \E g \in Cores : Has(g)
  BY <1>1, ChallengeAssumption DEF Finished, Progress
<1>4. \A g \in Cores : \A word : Wrote(g, word) <=> Has(g)
  BY <1>2 DEF Wrote
<1>5. PICK g \in Cores : Has(g) /\ solution.ptr = work[g]
  BY <1>1, <1>3, <1>4 DEF Words
<1>6. \E h \in Cores : Has(h) /\ solution.len = Size[work[h]]
  BY <1>1, <1>3, <1>4 DEF Words
<1>7. solution.ptr # None
  BY <1>1, <1>5, ChallengeAssumption DEF Progress, Works
<1>8. ~ raced => \E k \in Cores : /\ Has(k) /\ solution.ptr = work[k]
                                  /\ solution.len = Size[work[k]]
  BY <1>1, <1>2, <1>7 DEF Whole, Torn
<1> QED BY <1>5, <1>6, <1>8

\* What the pointer points to is a solution; it reads as such when the length
\* is its own.
LEMMA SliceVerifies ==
  ASSUME SearchInv, NEW g \in Cores, Has(g), solution.ptr = work[g],
         solution.len = Size[work[g]]
  PROVE  \E w \in Works : ReadsAs(w) /\ Verify(w)
<1>1. work[g] \in Works /\ Verify(work[g]) /\ work[g] # None
  BY ChallengeAssumption DEF SearchInv, Progress, Works
<1>2. ReadsAs(work[g])
  BY <1>1 DEF ReadsAs
<1> QED BY <1>1, <1>2

\* A set with two members has more than one.
LEMMA TwoMembers ==
  ASSUME NEW S, IsFiniteSet(S), NEW a \in S, NEW b \in S, a # b
  PROVE  Cardinality(S) > 1
<1>1. Cardinality({a, b}) = 2
  <2>1. IsFiniteSet({a}) /\ Cardinality({a}) = 1
    BY FS_Singleton
  <2>2. {a, b} = {a} \cup {b} /\ b \notin {a}
    OBVIOUS
  <2>3. Cardinality({a} \cup {b}) = Cardinality({a}) + 1
    BY <2>1, <2>2, FS_AddElement
  <2> QED BY <2>1, <2>2, <2>3
<1>2. Cardinality({a, b}) <= Cardinality(S) /\ Cardinality(S) \in Nat
  BY FS_Subset, FS_CardinalityType
<1> QED BY <1>1, <1>2

\* Search returns a solution, unless two goroutines tore the slice.
LEMMA SearchInvSolution == SearchInv => SolutionVerifies
<1> SUFFICES ASSUME SearchInv, Finished
             PROVE  \/ \E w \in Works : ReadsAs(w) /\ Verify(w)
                    \/ raced /\ Cardinality({Size[work[k]] : k \in Finders}) > 1
  BY DEF SolutionVerifies
<1>1. PICK g \in Cores : Has(g) /\ solution.ptr = work[g]
  BY FinishedSlice
<1>2. PICK h \in Cores : Has(h) /\ solution.len = Size[work[h]]
  BY FinishedSlice
<1>3. CASE Size[work[g]] = Size[work[h]]
  BY <1>1, <1>2, <1>3, SliceVerifies
<1>4. CASE ~ raced
  <2>1. PICK k \in Cores : /\ Has(k) /\ solution.ptr = work[k]
                           /\ solution.len = Size[work[k]]
    BY <1>4, FinishedSlice
  <2> QED BY <2>1, SliceVerifies
<1>5. CASE raced /\ Size[work[g]] # Size[work[h]]
  <2> DEFINE S == {Size[work[k]] : k \in Finders}
  <2>1. g \in Finders /\ h \in Finders
    BY <1>1, <1>2, FindersHave
  <2>2. Size[work[g]] \in S /\ Size[work[h]] \in S
    BY <2>1
  <2>3. IsFiniteSet(Finders)
    BY ChallengeAssumption, FS_Subset DEF Finders
  <2>4. IsFiniteSet(S)
    <3> DEFINE f == [k \in Finders |-> Size[work[k]]]
    <3>1. f \in Surjection(Finders, S)
      BY DEF Surjection
    <3> HIDE DEF f, S
    <3> QED BY <2>3, <3>1, FS_Surjection
  <2> HIDE DEF S
  <2>5. Cardinality(S) > 1
    BY <1>5, <2>2, <2>4, TwoMembers
  <2> QED BY <1>5, <2>5 DEF S
<1> QED BY <1>3, <1>4, <1>5

\* The counter has every attempt once.
LEMMA SearchInvAttempts == SearchInv => AttemptsCounted
<1> DEFINE tried == [g \in Cores |-> work[g] - start[g] + (IF g \in Finders THEN 1 ELSE 0)]
<1> SUFFICES ASSUME SearchInv, Finished
             PROVE  attempted = SumFunctionOnSet(tried, Cores)
  BY DEF AttemptsCounted
<1>1. Done = Cores
  BY DEF Done, Finished
<1>2. \A g \in Cores : attempts[g] = tried[g]
  <2> TAKE g \in Cores
  <2>1. g \in Finders <=> Has(g)
    BY FindersHave
  <2>2. /\ work[g] \in Nat /\ start[g] \in Nat
        /\ Has(g) \/ attempts[g] = work[g] - start[g]
    BY ChallengeAssumption DEF SearchInv, Progress, Works
  <2> QED BY <2>1, <2>2 DEF Has
<1> HIDE DEF tried
<1>3. SumFunctionOnSet(attempts, Cores) = SumFunctionOnSet(tried, Cores)
  BY <1>2, SumSame, ChallengeAssumption
<1> QED BY <1>1, <1>3 DEF SearchInv, Counted

\* Whatever the goroutines' interleaving and whichever numbers solve the
\* challenge, Search returns a solution that Verify accepts, unless two
\* goroutines whose solutions differ in size wrote the slice at the same time.
THEOREM SearchSolves == Spec => []SolutionVerifies
  BY SearchInvHolds, SearchInvSolution, PTL

\* Search reports exactly the attempts that were made.
THEOREM SearchCounts == Spec => []AttemptsCounted
  BY SearchInvHolds, SearchInvAttempts, PTL
=============================================================================

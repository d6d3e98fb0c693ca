----------------------------- MODULE Challenge -----------------------------
(***************************************************************************)
(* The search for a proof of work (challenge/challenge.go).  Search starts *)
(* one goroutine per core; each counts up from a random number until it    *)
(* finds a solution or sees that another one has.  They share the slice    *)
(* `solution` without a lock.  A slice is several words in memory, so its  *)
(* assignment is several writes, in any order, between which others may    *)
(* read or write; the loop's test reads the length alone.                  *)
(*                                                                         *)
(* A number stands for its bytes, big-endian and without leading zeros.    *)
(***************************************************************************)
EXTENDS Integers, FiniteSets, Functions

CONSTANTS
  Cores,            \* the goroutines
  Base,             \* number of values of a byte
  MaxSolutionSize,  \* maxSolutionSize, in bytes
  MaxWork,          \* bound of the model on the numbers tried
  None              \* the nil pointer

VARIABLES
  hashed,     \* numbers whose hash with the salt has enough leading zeros
  start,      \* where each goroutine started
  pc,         \* where each goroutine is
  work,       \* its number
  unwritten,  \* the words of `solution` it has still to write
  attempts,   \* what it has tried
  solution,   \* the shared slice: pointer (the number whose bytes it points
              \*   to) and length
  attempted,  \* the shared counter
  raced       \* two goroutines have been writing `solution` at the same time

vars == <<hashed, start, pc, work, unwritten, attempts, solution, attempted, raced>>

ASSUME ChallengeAssumption ==
  /\ IsFiniteSet(Cores) /\ Cores # {}
  /\ Base \in Nat \ {0, 1}
  /\ MaxSolutionSize \in Nat \ {0}
  /\ MaxWork \in Nat
  /\ None \notin Nat

Works == 0 .. MaxWork

\* len(work.Bytes())
Size[w \in Nat] == IF w = 0 THEN 0 ELSE 1 + Size[w \div Base]

\* The salt has the length that New gives it.
Verify(w) == Size[w] <= MaxSolutionSize /\ w \in hashed

\* maxSolutionSize/2 random bytes
Starts == {w \in Works : Size[w] <= MaxSolutionSize \div 2}

Init ==
  /\ hashed \in SUBSET Works
  /\ start \in [Cores -> Starts]
  /\ pc = [g \in Cores |-> "test"]
  /\ work = start
  /\ unwritten = [g \in Cores |-> {}]
  /\ attempts = [g \in Cores |-> 0]
  /\ solution = [ptr |-> None, len |-> 0]
  /\ attempted = 0
  /\ raced = FALSE

At(g, here, there) == pc[g] = here /\ pc' = [pc EXCEPT ![g] = there]

\* for len(solution) == 0
Test(g) ==
  /\ At(g, "test", IF solution.len = 0 THEN "try" ELSE "count")
  /\ UNCHANGED <<hashed, start, work, unwritten, attempts, solution, attempted, raced>>

Found(g) ==
  /\ Verify(work[g])
  /\ At(g, "try", "store")
  /\ attempts' = [attempts EXCEPT ![g] = @ + 1]
  /\ unwritten' = [unwritten EXCEPT ![g] = {"ptr", "len"}]
  /\ UNCHANGED <<hashed, start, work, solution, attempted, raced>>

\* Past MaxWork the model has nothing left to try.
Missed(g) ==
  /\ ~ Verify(work[g])
  /\ At(g, "try", "test")
  /\ \/ /\ work[g] < MaxWork
        /\ work' = [work EXCEPT ![g] = @ + 1]
        /\ attempts' = [attempts EXCEPT ![g] = @ + 1]
     \/ work[g] = MaxWork /\ UNCHANGED <<work, attempts>>
  /\ UNCHANGED <<hashed, start, unwritten, solution, attempted, raced>>

Writing == {g \in Cores : pc[g] = "store"}

\* Mutant: the bytes are those of the number that is counted up.
StoreNext(g, word) ==
  /\ word \in unwritten[g]
  /\ solution' = IF word = "ptr" THEN [solution EXCEPT !.ptr = work[g] + 1]
                                 ELSE [solution EXCEPT !.len = Size[work[g]]]
  /\ unwritten' = [unwritten EXCEPT ![g] = @ \ {word}]
  /\ raced' = (raced \/ Writing # {g})
  /\ At(g, "store", IF unwritten'[g] = {} THEN "count" ELSE "store")
  /\ UNCHANGED <<hashed, start, work, attempts, attempted>>

\* solution = workBytes, one word of it
Store(g, word) ==
  /\ word \in unwritten[g]
  /\ solution' = IF word = "ptr" THEN [solution EXCEPT !.ptr = work[g]]
                                 ELSE [solution EXCEPT !.len = Size[work[g]]]
  /\ unwritten' = [unwritten EXCEPT ![g] = @ \ {word}]
  /\ raced' = (raced \/ Writing # {g})
  /\ At(g, "store", IF unwritten'[g] = {} THEN "count" ELSE "store")
  /\ UNCHANGED <<hashed, start, work, attempts, attempted>>

\* Mutant: the counter is overwritten instead of added to.
CountAlone(g) ==
  /\ At(g, "count", "done")
  /\ attempted' = attempts[g]
  /\ UNCHANGED <<hashed, start, work, unwritten, attempts, solution, raced>>

\* Mutant: wg.Done is forgotten on the early return.
CountNotDone(g) ==
  /\ At(g, "count", "done")
  /\ ~ Verify(work[g])
  /\ attempted' = attempted + attempts[g]
  /\ UNCHANGED <<hashed, start, work, unwritten, attempts, solution, raced>>

\* atomic.AddUint64(&attempted, attempts), wg.Done()
Count(g) ==
  /\ At(g, "count", "done")
  /\ attempted' = attempted + attempts[g]
  /\ UNCHANGED <<hashed, start, work, unwritten, attempts, solution, raced>>

Run(g) ==
  Test(g) \/ Found(g) \/ Missed(g) \/ Count(g) \/ \E word \in {"ptr", "len"} : Store(g, word)

Next == \E g \in Cores : Run(g)

\* The Go scheduler keeps every goroutine running.
Spec == Init /\ [][Next]_vars /\ \A g \in Cores : WF_vars(Run(g))

-----------------------------------------------------------------------------
(* Properties.                                                             *)

\* wg.Wait() returns.
Finished == \A g \in Cores : pc[g] = "done"

\* What the slice reads as: the first `len` bytes at its pointer, and anything
\* at all when there are fewer.
ReadsAs(w) ==
  /\ solution.ptr # None
  /\ LET size == Size[solution.ptr]
     IN \/ solution.len = size /\ w = solution.ptr
        \/ solution.len < size /\ w = solution.ptr \div Base ^ (size - solution.len)

Finders == {g \in Cores : work[g] \in hashed /\ attempts[g] > work[g] - start[g]}

\* Search returns a solution that Verify accepts, however the goroutines race,
\* unless two that found solutions of different sizes wrote at the same time.
SolutionVerifies ==
  Finished =>
    \/ \E w \in Works : ReadsAs(w) /\ Verify(w)
    \/ raced /\ Cardinality({Size[work[g]] : g \in Finders}) > 1

\* Search reports as many attempts as numbers were put to Verify, each goroutine
\* having tried every number from its start on.
AttemptsCounted ==
  Finished =>
    LET tried == [g \in Cores |-> work[g] - start[g] + (IF g \in Finders THEN 1 ELSE 0)]
    IN attempted = SumFunctionOnSet(tried, Cores)

\* Search returns when some goroutine has a solution ahead of it.  The empty
\* solution is not enough: it leaves the length at 0, and the others go on.
SearchReturns ==
  (\E g \in Cores, w \in Works \ {0} : Verify(w) /\ w >= start[g]) ~> Finished
=============================================================================

----------------------------- MODULE WarpProofs -----------------------------
(***************************************************************************)
(* Theorems about Warp, for every number of chains, accounts and assets.   *)
(*                                                                         *)
(* Every action of Assets is a chain of storage calls.  The lemmas of the  *)
(* first part say what one call does to the fields of a state and to the   *)
(* totals Supply, Owned and Lent; with them an action is arithmetic on the *)
(* totals, and the balances of single accounts need no longer be followed. *)
(* The last of them, NextSteps, says that a step of Warp is local to a     *)
(* chain, an export or an import, in those terms.                          *)
(*                                                                         *)
(* The second part finds the inductive invariant Inv and proves it: that   *)
(* supplies are accounted for and that loans cover what is abroad need     *)
(* each other's company and that of the homes of assets and messages.  The *)
(* third part uses it to show that every message in flight can be          *)
(* imported, the fourth that the chains together implement Bridge.         *)
(***************************************************************************)
EXTENDS Warp, SumProofs

\* What a chain's state is while and after transactions are executed.
Typed(s) ==
  /\ s.balance \in [Addresses -> [Assets -> Uint64]]
  /\ s.loan \in [Originals -> [Chains -> Uint64]]
  /\ DOMAIN s.asset \subseteq Assets
  /\ s.asset = [x \in DOMAIN s.asset |-> s.asset[x]]
  /\ \A x \in DOMAIN s.asset :
       s.asset[x] \in AssetRecord /\ (s.asset[x].warp <=> x \notin Originals)

IsState(s) ==
  /\ s \in [balance : {s.balance}, asset : {s.asset}, loan : {s.loan},
            imported : {s.imported}, ok : BOOLEAN, keys : {s.keys}]
  /\ s.ok => Typed(s)

\* Uint64 are the natural numbers below Word.
LEMMA Uint64Range ==
  /\ Uint64 \subseteq Nat
  /\ \A n \in Int : n \in Uint64 <=> 0 <= n /\ n < Word
  BY AssetsAssumption DEF Uint64

\* What fits a word is a number below it.
LEMMA Uint64Below == \A n \in Uint64 : n \in Nat /\ n < Word
  BY Uint64Range

\* One entry of a table of uint64 changes.
LEMMA TableUpdate ==
  ASSUME NEW A, NEW X, NEW t \in [A -> [X -> Uint64]],
         NEW a \in A, NEW x \in X, NEW n \in Int
  PROVE  LET w == [t EXCEPT ![a][x] = n]
         IN /\ w \in [A -> [X -> Int]]
            /\ \A b \in A, y \in X :
                 /\ t[b][y] \in Nat
                 /\ w[b][y] = IF b = a /\ y = x THEN n ELSE t[b][y]
<1> DEFINE row == [t[a] EXCEPT ![x] = n]
           w == [t EXCEPT ![a] = row]
<1>1. \A b \in A, y \in X : t[b][y] \in Nat
  BY Uint64Range
<1>2. row \in [X -> Int] /\ row[x] = n /\ \A y \in X \ {x} : row[y] = t[a][y]
  BY <1>1
<1> HIDE DEF row
<1>3. w[a] = row /\ \A b \in A \ {a} : w[b] = t[b]
  OBVIOUS
<1>4. \A b \in A : w[b] \in [X -> Int]
  BY <1>1, <1>2, <1>3
<1>5. w \in [A -> [X -> Int]]
  BY <1>4
<1> HIDE DEF w
<1>6. \A b \in A, y \in X : w[b][y] = IF b = a /\ y = x THEN n ELSE t[b][y]
  BY <1>2, <1>3
<1>7. w = [t EXCEPT ![a][x] = n]
  BY DEF w, row
<1> QED BY <1>1, <1>5, <1>6, <1>7

\* Owned and Lent depend on the tables alone.
Held(t, y) == SumFunctionOnSet([a \in Addresses |-> t[a][y]], Addresses)
LentOut(t, y) == IF y \in Originals THEN SumFunctionOnSet(t[y], Chains) ELSE 0

\* Totals depend on the tables of balances and loans only.
LEMMA TotalsOfTables ==
  ASSUME NEW s, NEW y
  PROVE  Owned(s, y) = Held(s.balance, y) /\ Lent(s, y) = LentOut(s.loan, y)
  BY DEF Owned, Lent, Held, LentOut

\* The total of an asset follows the one balance that changes.
LEMMA HeldUpdate ==
  ASSUME NEW t \in [Addresses -> [Assets -> Uint64]],
         NEW a \in Addresses, NEW x \in Assets, NEW n \in Int, NEW y \in Assets
  PROVE  Held([t EXCEPT ![a][x] = n], y) =
           IF y = x THEN Held(t, x) - t[a][x] + n ELSE Held(t, y)
<1> DEFINE w == [t EXCEPT ![a][x] = n]
           f == [b \in Addresses |-> t[b][y]]
           g == [b \in Addresses |-> w[b][y]]
<1>1. IsFiniteSet(Addresses)
  BY WarpAssumption
<1>8. \A b \in Addresses, z \in Assets :
        /\ t[b][z] \in Nat
        /\ w[b][z] = IF b = a /\ z = x THEN n ELSE t[b][z]
  BY TableUpdate
<1> HIDE DEF w
<1>2. \A b \in Addresses :
        /\ f[b] \in Nat
        /\ g[b] = IF b = a /\ y = x THEN n ELSE f[b]
  BY <1>8
<1>3. f[a] = t[a][y]
  OBVIOUS
<1>4. Held(t, y) = SumFunctionOnSet(f, Addresses)
      /\ Held(w, y) = SumFunctionOnSet(g, Addresses)
  BY DEF Held
<1> HIDE DEF f, g
<1>5. \A b \in Addresses : f[b] \in Int /\ g[b] \in Int
  BY <1>2
<1>6. ASSUME y = x PROVE Held(w, y) = Held(t, x) - t[a][x] + n
  <2>1. \A b \in Addresses \ {a} : f[b] = g[b]
    BY <1>2
  <2>2. SumFunctionOnSet(g, Addresses) = SumFunctionOnSet(f, Addresses) - f[a] + g[a]
    BY <1>1, <1>5, <2>1, SumUpdate
  <2> QED BY <1>2, <1>3, <1>4, <1>6, <2>2
<1>7. ASSUME y # x PROVE Held(w, y) = Held(t, y)
  <2>1. \A b \in Addresses : f[b] = g[b]
    BY <1>2, <1>7
  <2> QED BY <1>1, <1>4, <2>1, SumSame
<1> QED BY <1>6, <1>7 DEF w

\* The same for loans.
LEMMA LentOutUpdate ==
  ASSUME NEW t \in [Originals -> [Chains -> Uint64]],
         NEW x \in Originals, NEW d \in Chains, NEW n \in Int, NEW y \in Assets
  PROVE  LentOut([t EXCEPT ![x][d] = n], y) =
           IF y = x THEN LentOut(t, x) - t[x][d] + n ELSE LentOut(t, y)
<1> DEFINE w == [t EXCEPT ![x][d] = n]
<1>1. IsFiniteSet(Chains)
  BY WarpAssumption
<1>2. CASE y \notin Originals
  BY <1>2 DEF LentOut
<1>3. CASE y \in Originals /\ y # x
  BY <1>3 DEF LentOut
<1>4. CASE y = x
  <2> DEFINE f == t[x]
             g == w[x]
  <2>7. \A z \in Originals, b \in Chains :
          /\ t[z][b] \in Nat
          /\ w[z][b] = IF z = x /\ b = d THEN n ELSE t[z][b]
    BY TableUpdate
  <2> HIDE DEF w
  <2>1. \A b \in Chains :
          /\ f[b] \in Nat
          /\ g[b] = IF b = d THEN n ELSE f[b]
    BY <2>7
  <2>2. LentOut(t, x) = SumFunctionOnSet(f, Chains)
        /\ LentOut(w, x) = SumFunctionOnSet(g, Chains)
    BY DEF LentOut
  <2>3. f[d] = t[x][d]
    OBVIOUS
  <2> HIDE DEF f, g
  <2>4. \A b \in Chains : f[b] \in Int /\ g[b] \in Int
    BY <2>1
  <2>5. \A b \in Chains \ {d} : f[b] = g[b]
    BY <2>1
  <2>6. SumFunctionOnSet(g, Chains) = SumFunctionOnSet(f, Chains) - f[d] + g[d]
    BY <1>1, <2>4, <2>5, SumUpdate
  <2> QED BY <1>4, <2>1, <2>2, <2>3, <2>6 DEF w
<1> QED BY <1>2, <1>3, <1>4

\* The totals are natural numbers.
LEMMA TotalsType ==
  ASSUME NEW s, Typed(s), NEW y \in Assets
  PROVE  Owned(s, y) \in Nat /\ Lent(s, y) \in Nat /\ Supply(s, y) \in Nat
<1>1. IsFiniteSet(Addresses) /\ IsFiniteSet(Chains)
  BY WarpAssumption
<1>2. Owned(s, y) \in Nat
  <2> DEFINE f == [b \in Addresses |-> s.balance[b][y]]
  <2>1. \A b \in Addresses : f[b] \in Nat
    BY Uint64Range DEF Typed
  <2> HIDE DEF f
  <2>2. SumFunctionOnSet(f, Addresses) \in Nat
    BY <1>1, <2>1, SumNat
  <2> QED BY <2>2 DEF Owned, f
<1>3. Lent(s, y) \in Nat
  <2>1. CASE y \in Originals
    <3>1. \A b \in Chains : s.loan[y][b] \in Nat
      BY <2>1, Uint64Range DEF Typed
    <3>2. SumFunctionOnSet(s.loan[y], Chains) \in Nat
      BY <1>1, <3>1, SumNat
    <3> QED BY <2>1, <3>2 DEF Lent
  <2>2. CASE y \notin Originals
    BY <2>2 DEF Lent
  <2> QED BY <2>1, <2>2
<1>4. Supply(s, y) \in Nat
  BY Uint64Range DEF Supply, Typed, AssetRecord
<1> QED BY <1>2, <1>3, <1>4

-----------------------------------------------------------------------------
(* The storage calls, one at a time.                                       *)

\* Declare.
LEMMA DeclareDoes ==
  ASSUME NEW s, IsState(s), NEW ks
  PROVE  LET r == Declare(s, ks)
         IN /\ IsState(r) /\ r.keys = ks /\ r.ok = s.ok
            /\ r.balance = s.balance /\ r.asset = s.asset /\ r.loan = s.loan
            /\ r.imported = s.imported
  BY DEF IsState, Typed, Declare

\* Check.
LEMMA CheckDoes ==
  ASSUME NEW s, IsState(s), NEW p \in BOOLEAN
  PROVE  LET r == Check(s, p)
         IN /\ IsState(r) /\ r.keys = s.keys /\ (r.ok <=> s.ok /\ p)
            /\ r.balance = s.balance /\ r.asset = s.asset /\ r.loan = s.loan
            /\ r.imported = s.imported
  BY DEF IsState, Typed, Check

\* Check after CheckKey, which every storage call begins with.
LEMMA AccessDoes ==
  ASSUME NEW s, IsState(s), NEW k, NEW p \in BOOLEAN
  PROVE  LET r == Check(CheckKey(s, k), p)
         IN /\ IsState(r) /\ r.keys = s.keys /\ (r.ok <=> s.ok /\ k \in s.keys /\ p)
            /\ r.balance = s.balance /\ r.asset = s.asset /\ r.loan = s.loan
            /\ r.imported = s.imported
<1> DEFINE q == k \in s.keys
           t == Check(s, q)
<1>1. q \in BOOLEAN
  OBVIOUS
<1>2. CheckKey(s, k) = t
  BY DEF CheckKey
<1> HIDE DEF q
<1>3. /\ IsState(t) /\ t.keys = s.keys /\ (t.ok <=> s.ok /\ q)
      /\ t.balance = s.balance /\ t.asset = s.asset /\ t.loan = s.loan
      /\ t.imported = s.imported
  BY <1>1, CheckDoes
<1> HIDE DEF t
<1> DEFINE r == Check(t, p)
<1>4. /\ IsState(r) /\ r.keys = t.keys /\ (r.ok <=> t.ok /\ p)
      /\ r.balance = t.balance /\ r.asset = t.asset /\ r.loan = t.loan
      /\ r.imported = t.imported
  BY <1>3, CheckDoes
<1> HIDE DEF r
<1>5. Check(CheckKey(s, k), p) = r
  BY <1>2 DEF r
<1>6. q <=> k \in s.keys
  BY DEF q
<1> QED BY <1>3, <1>4, <1>5, <1>6

\* A table of balances or loans in which one entry is changed within uint64.
LEMMA TableType ==
  ASSUME NEW A, NEW X, NEW t \in [A -> [X -> Uint64]],
         NEW a \in A, NEW x \in X, NEW n \in Uint64
  PROVE  [t EXCEPT ![a][x] = n] \in [A -> [X -> Uint64]]
<1> DEFINE w == [t EXCEPT ![a][x] = n]
<1>1. /\ w \in [A -> [X -> Int]]
      /\ \A b \in A, y \in X :
           w[b][y] = IF b = a /\ y = x THEN n ELSE t[b][y]
  BY TableUpdate, Uint64Range
<1> HIDE DEF w
<1>2. \A b \in A, y \in X : w[b][y] \in Uint64
  BY <1>1
<1>3. w \in [A -> [X -> Uint64]]
  BY <1>1, <1>2
<1> QED BY <1>3 DEF w

\* A state with other balances.
LEMMA SetBalances ==
  ASSUME NEW s, IsState(s), NEW b, s.ok => b \in [Addresses -> [Assets -> Uint64]]
  PROVE  LET r == [s EXCEPT !.balance = b]
         IN /\ IsState(r) /\ r.keys = s.keys /\ r.ok = s.ok
            /\ r.balance = b /\ r.asset = s.asset /\ r.loan = s.loan
            /\ r.imported = s.imported
  BY DEF IsState, Typed

\* A state with other loans.
LEMMA SetLoans ==
  ASSUME NEW s, IsState(s), NEW l, s.ok => l \in [Originals -> [Chains -> Uint64]]
  PROVE  LET r == [s EXCEPT !.loan = l]
         IN /\ IsState(r) /\ r.keys = s.keys /\ r.ok = s.ok
            /\ r.loan = l /\ r.asset = s.asset /\ r.balance = s.balance
            /\ r.imported = s.imported
  BY DEF IsState, Typed

\* The totals of the asset x change by own, lent and made; those of the other
\* assets stay.
Moves(s, r, x, own, lent, made) ==
  /\ \A y \in Assets \ {x} :
       Owned(r, y) = Owned(s, y) /\ Lent(r, y) = Lent(s, y) /\ Supply(r, y) = Supply(s, y)
  /\ Owned(r, x) = Owned(s, x) + own
  /\ Lent(r, x) = Lent(s, x) + lent
  /\ Supply(r, x) = Supply(s, x) + made

\* Totals whose tables are the same.
LEMMA SameTotals ==
  ASSUME NEW s, NEW r, NEW y
  PROVE  /\ r.balance = s.balance => Owned(r, y) = Owned(s, y)
         /\ r.loan = s.loan => Lent(r, y) = Lent(s, y)
         /\ r.asset = s.asset => Supply(r, y) = Supply(s, y)
  BY DEF Owned, Lent, Supply

\* Only the balances change, by v in the sum.
LEMMA MovesOwned ==
  ASSUME NEW s, NEW r, Typed(s), NEW x \in Assets, NEW v \in Int,
         r.asset = s.asset, r.loan = s.loan,
         \A y \in Assets : Owned(r, y) = IF y = x THEN Owned(s, x) + v ELSE Owned(s, y)
  PROVE  Moves(s, r, x, v, 0, 0)
  BY TotalsType, SameTotals DEF Moves

\* Only the loans change.
LEMMA MovesLent ==
  ASSUME NEW s, NEW r, Typed(s), NEW x \in Assets, NEW v \in Int,
         r.asset = s.asset, r.balance = s.balance,
         \A y \in Assets : Lent(r, y) = IF y = x THEN Lent(s, x) + v ELSE Lent(s, y)
  PROVE  Moves(s, r, x, 0, v, 0)
  BY TotalsType, SameTotals DEF Moves

\* AddBalance.
LEMMA AddBalanceDoes ==
  ASSUME NEW s, IsState(s), NEW a \in Addresses, NEW x \in Assets, NEW v \in Nat
  PROVE  LET r == AddBalance(s, a, x, v)
         IN /\ IsState(r)
            /\ r.ok => s.ok
            /\ r.asset = s.asset /\ r.loan = s.loan
            /\ r.imported = s.imported /\ r.keys = s.keys
            /\ r.ok => Moves(s, r, x, v, 0, 0)
<1> DEFINE p == s.balance[a][x] + v < Word
           t == Check(CheckKey(s, BalanceKey(a, x)), p)
           old == s.balance[a][x]
           n == old + v
           w == [s.balance EXCEPT ![a][x] = n]
           r == [t EXCEPT !.balance = w]
<1>1. p \in BOOLEAN
  OBVIOUS
<1>2. ASSUME s.ok, p
      PROVE  /\ s.balance \in [Addresses -> [Assets -> Uint64]]
             /\ old \in Nat /\ n \in Uint64
             /\ w \in [Addresses -> [Assets -> Uint64]]
  <2>1. s.balance \in [Addresses -> [Assets -> Uint64]]
    BY <1>2 DEF IsState, Typed
  <2>2. old \in Nat /\ old < Word
    <3>1. old \in Uint64
      <4> HIDE DEF t, w
      <4> QED BY <2>1
    <3> HIDE DEF old, t, w, n, p
    <3> QED BY <3>1, Uint64Range
  <2>3. n \in Int /\ 0 <= n /\ n < Word
    <3>1. p
      BY <1>2
    <3> HIDE DEF t
    <3> QED BY <2>2, <3>1, AssetsAssumption
  <2>4. n \in Uint64
    BY <2>3, Uint64Range
  <2> HIDE DEF t, n
  <2> QED BY <2>1, <2>2, <2>4, TableType
<1> HIDE DEF p, w
<1>3. /\ IsState(t) /\ (t.ok <=> s.ok /\ BalanceKey(a, x) \in s.keys /\ p)
      /\ t.keys = s.keys /\ t.balance = s.balance /\ t.asset = s.asset
      /\ t.loan = s.loan /\ t.imported = s.imported
  BY <1>1, AccessDoes
<1>4. AddBalance(s, a, x, v) = r
  BY <1>3 DEF AddBalance, p, w
<1> HIDE DEF t
<1>5. /\ IsState(r) /\ r.ok = t.ok /\ r.keys = t.keys
      /\ r.balance = w /\ r.asset = t.asset /\ r.loan = t.loan
      /\ r.imported = t.imported
  BY <1>2, <1>3, SetBalances
<1> HIDE DEF r
<1>6. ASSUME r.ok PROVE Moves(s, r, x, v, 0, 0)
  <2>1. s.ok /\ p
    BY <1>3, <1>5, <1>6
  <2>2. s.balance \in [Addresses -> [Assets -> Uint64]] /\ old \in Nat /\ n \in Int
    BY <1>2, <2>1, Uint64Range
  <2>3. r.balance = [s.balance EXCEPT ![a][x] = n]
    BY <1>5 DEF w
  <2>4. Typed(s) /\ x \in Assets
    BY <2>1 DEF IsState, Assets
  <2>5. Owned(s, x) \in Nat
    BY <2>4, TotalsType
  <2>6. Owned(s, x) - old + n = Owned(s, x) + (v)
    BY <2>2, <2>5
  <2> HIDE DEF n
  <2>7. \A y \in Assets : Owned(r, y) = IF y = x THEN Owned(s, x) - old + n ELSE Owned(s, y)
    <3> TAKE y \in Assets
    <3>1. Owned(r, y) = Held(r.balance, y) /\ Owned(s, y) = Held(s.balance, y)
          /\ Owned(s, x) = Held(s.balance, x)
      BY TotalsOfTables
    <3>2. Held([s.balance EXCEPT ![a][x] = n], y)
            = IF y = x THEN Held(s.balance, x) - s.balance[a][x] + n ELSE Held(s.balance, y)
      <4>1. s.balance \in [Addresses -> [Assets -> Uint64]] /\ n \in Int
        BY <2>2
      <4> HIDE DEF old
      <4> QED BY <4>1, HeldUpdate
    <3> QED BY <2>3, <3>1, <3>2
  <2>8. \A y \in Assets : Owned(r, y) = IF y = x THEN Owned(s, x) + (v) ELSE Owned(s, y)
    BY <2>6, <2>7
  <2> QED BY <1>3, <1>5, <2>4, <2>8, MovesOwned
<1> QED BY <1>3, <1>4, <1>5, <1>6

\* AddBalance: when it succeeds, and the entry it writes.
LEMMA AddBalanceWrites ==
  ASSUME NEW s, IsState(s), NEW a \in Addresses, NEW x \in Assets, NEW v \in Nat
  PROVE  LET r == AddBalance(s, a, x, v)
         IN /\ r.ok <=> s.ok /\ BalanceKey(a, x) \in s.keys /\ s.balance[a][x] + v < Word
            /\ r.balance = [s.balance EXCEPT ![a][x] = @ + v]
<1> DEFINE p == s.balance[a][x] + v < Word
           t == Check(CheckKey(s, BalanceKey(a, x)), p)
           w == [s.balance EXCEPT ![a][x] = @ + v]
           r == [t EXCEPT !.balance = w]
<1>1. p \in BOOLEAN
  OBVIOUS
<1> HIDE DEF p, w
<1>2. IsState(t) /\ (t.ok <=> s.ok /\ BalanceKey(a, x) \in s.keys /\ p) /\ t.balance = s.balance
  BY <1>1, AccessDoes
<1>3. AddBalance(s, a, x, v) = r
  BY <1>2 DEF AddBalance, p, w
<1> HIDE DEF t
<1>4. r.ok = t.ok /\ r.balance = w
  BY <1>2 DEF IsState
<1> HIDE DEF r
<1> QED BY <1>2, <1>3, <1>4 DEF w, p

\* SubBalance.
LEMMA SubBalanceDoes ==
  ASSUME NEW s, IsState(s), NEW a \in Addresses, NEW x \in Assets, NEW v \in Nat
  PROVE  LET r == SubBalance(s, a, x, v)
         IN /\ IsState(r)
            /\ r.ok => s.ok
            /\ r.asset = s.asset /\ r.loan = s.loan
            /\ r.imported = s.imported /\ r.keys = s.keys
            /\ r.ok => Moves(s, r, x, 0 - v, 0, 0)
<1> DEFINE p == v <= s.balance[a][x]
           t == Check(CheckKey(s, BalanceKey(a, x)), p)
           old == s.balance[a][x]
           n == old - v
           w == [s.balance EXCEPT ![a][x] = n]
           r == [t EXCEPT !.balance = w]
<1>1. p \in BOOLEAN
  OBVIOUS
<1>2. ASSUME s.ok, p
      PROVE  /\ s.balance \in [Addresses -> [Assets -> Uint64]]
             /\ old \in Nat /\ n \in Uint64
             /\ w \in [Addresses -> [Assets -> Uint64]]
  <2>1. s.balance \in [Addresses -> [Assets -> Uint64]]
    BY <1>2 DEF IsState, Typed
  <2>2. old \in Nat /\ old < Word
    <3>1. old \in Uint64
      <4> HIDE DEF t, w
      <4> QED BY <2>1
    <3> HIDE DEF old, t, w, n, p
    <3> QED BY <3>1, Uint64Range
  <2>3. n \in Int /\ 0 <= n /\ n < Word
    <3>1. p
      BY <1>2
    <3> HIDE DEF t
    <3> QED BY <2>2, <3>1, AssetsAssumption
  <2>4. n \in Uint64
    BY <2>3, Uint64Range
  <2> HIDE DEF t, n
  <2> QED BY <2>1, <2>2, <2>4, TableType
<1> HIDE DEF p, w
<1>3. /\ IsState(t) /\ (t.ok <=> s.ok /\ BalanceKey(a, x) \in s.keys /\ p)
      /\ t.keys = s.keys /\ t.balance = s.balance /\ t.asset = s.asset
      /\ t.loan = s.loan /\ t.imported = s.imported
  BY <1>1, AccessDoes
<1>4. SubBalance(s, a, x, v) = r
  BY <1>3 DEF SubBalance, p, w
<1> HIDE DEF t
<1>5. /\ IsState(r) /\ r.ok = t.ok /\ r.keys = t.keys
      /\ r.balance = w /\ r.asset = t.asset /\ r.loan = t.loan
      /\ r.imported = t.imported
  BY <1>2, <1>3, SetBalances
<1> HIDE DEF r
<1>6. ASSUME r.ok PROVE Moves(s, r, x, 0 - v, 0, 0)
  <2>1. s.ok /\ p
    BY <1>3, <1>5, <1>6
  <2>2. s.balance \in [Addresses -> [Assets -> Uint64]] /\ old \in Nat /\ n \in Int
    BY <1>2, <2>1, Uint64Range
  <2>3. r.balance = [s.balance EXCEPT ![a][x] = n]
    BY <1>5 DEF w
  <2>4. Typed(s) /\ x \in Assets
    BY <2>1 DEF IsState, Assets
  <2>5. Owned(s, x) \in Nat
    BY <2>4, TotalsType
  <2>6. Owned(s, x) - old + n = Owned(s, x) + (0 - v)
    BY <2>2, <2>5
  <2> HIDE DEF n
  <2>7. \A y \in Assets : Owned(r, y) = IF y = x THEN Owned(s, x) - old + n ELSE Owned(s, y)
    <3> TAKE y \in Assets
    <3>1. Owned(r, y) = Held(r.balance, y) /\ Owned(s, y) = Held(s.balance, y)
          /\ Owned(s, x) = Held(s.balance, x)
      BY TotalsOfTables
    <3>2. Held([s.balance EXCEPT ![a][x] = n], y)
            = IF y = x THEN Held(s.balance, x) - s.balance[a][x] + n ELSE Held(s.balance, y)
      <4>1. s.balance \in [Addresses -> [Assets -> Uint64]] /\ n \in Int
        BY <2>2
      <4> HIDE DEF old
      <4> QED BY <4>1, HeldUpdate
    <3> QED BY <2>3, <3>1, <3>2
  <2>8. \A y \in Assets : Owned(r, y) = IF y = x THEN Owned(s, x) + (0 - v) ELSE Owned(s, y)
    BY <2>6, <2>7
  <2> QED BY <1>3, <1>5, <2>4, <2>8, MovesOwned
<1> QED BY <1>3, <1>4, <1>5, <1>6

\* SubBalance: when it succeeds, and the entry it writes.
LEMMA SubBalanceWrites ==
  ASSUME NEW s, IsState(s), NEW a \in Addresses, NEW x \in Assets, NEW v \in Nat
  PROVE  LET r == SubBalance(s, a, x, v)
         IN /\ r.ok <=> s.ok /\ BalanceKey(a, x) \in s.keys /\ v <= s.balance[a][x]
            /\ r.balance = [s.balance EXCEPT ![a][x] = @ - v]
<1> DEFINE p == v <= s.balance[a][x]
           t == Check(CheckKey(s, BalanceKey(a, x)), p)
           w == [s.balance EXCEPT ![a][x] = @ - v]
           r == [t EXCEPT !.balance = w]
<1>1. p \in BOOLEAN
  OBVIOUS
<1> HIDE DEF p, w
<1>2. IsState(t) /\ (t.ok <=> s.ok /\ BalanceKey(a, x) \in s.keys /\ p) /\ t.balance = s.balance
  BY <1>1, AccessDoes
<1>3. SubBalance(s, a, x, v) = r
  BY <1>2 DEF SubBalance, p, w
<1> HIDE DEF t
<1>4. r.ok = t.ok /\ r.balance = w
  BY <1>2 DEF IsState
<1> HIDE DEF r
<1> QED BY <1>2, <1>3, <1>4 DEF w, p

\* AddLoan.
LEMMA AddLoanDoes ==
  ASSUME NEW s, IsState(s), NEW x \in Originals, NEW d \in Chains, NEW v \in Nat
  PROVE  LET r == AddLoan(s, x, d, v)
         IN /\ IsState(r)
            /\ r.ok => s.ok
            /\ r.asset = s.asset /\ r.balance = s.balance
            /\ r.imported = s.imported /\ r.keys = s.keys
            /\ r.ok => Moves(s, r, x, 0, v, 0)
<1> DEFINE p == s.loan[x][d] + v < Word
           t == Check(CheckKey(s, LoanKey(x, d)), p)
           old == s.loan[x][d]
           n == old + v
           w == [s.loan EXCEPT ![x][d] = n]
           r == [t EXCEPT !.loan = w]
<1>1. p \in BOOLEAN
  OBVIOUS
<1>2. ASSUME s.ok, p
      PROVE  /\ s.loan \in [Originals -> [Chains -> Uint64]]
             /\ old \in Nat /\ n \in Uint64
             /\ w \in [Originals -> [Chains -> Uint64]]
  <2>1. s.loan \in [Originals -> [Chains -> Uint64]]
    BY <1>2 DEF IsState, Typed
  <2>2. old \in Nat /\ old < Word
    <3>1. old \in Uint64
      <4> HIDE DEF t, w
      <4> QED BY <2>1
    <3> HIDE DEF old, t, w, n, p
    <3> QED BY <3>1, Uint64Range
  <2>3. n \in Int /\ 0 <= n /\ n < Word
    <3>1. p
      BY <1>2
    <3> HIDE DEF t
    <3> QED BY <2>2, <3>1, AssetsAssumption
  <2>4. n \in Uint64
    BY <2>3, Uint64Range
  <2> HIDE DEF t, n
  <2> QED BY <2>1, <2>2, <2>4, TableType
<1> HIDE DEF p, w
<1>3. /\ IsState(t) /\ (t.ok <=> s.ok /\ LoanKey(x, d) \in s.keys /\ p)
      /\ t.keys = s.keys /\ t.balance = s.balance /\ t.asset = s.asset
      /\ t.loan = s.loan /\ t.imported = s.imported
  BY <1>1, AccessDoes
<1>4. AddLoan(s, x, d, v) = r
  BY <1>3 DEF AddLoan, p, w
<1> HIDE DEF t
<1>5. /\ IsState(r) /\ r.ok = t.ok /\ r.keys = t.keys
      /\ r.loan = w /\ r.asset = t.asset /\ r.balance = t.balance
      /\ r.imported = t.imported
  BY <1>2, <1>3, SetLoans
<1> HIDE DEF r
<1>6. ASSUME r.ok PROVE Moves(s, r, x, 0, v, 0)
  <2>1. s.ok /\ p
    BY <1>3, <1>5, <1>6
  <2>2. s.loan \in [Originals -> [Chains -> Uint64]] /\ old \in Nat /\ n \in Int
    BY <1>2, <2>1, Uint64Range
  <2>3. r.loan = [s.loan EXCEPT ![x][d] = n]
    BY <1>5 DEF w
  <2>4. Typed(s) /\ x \in Assets
    BY <2>1 DEF IsState, Assets
  <2>5. Lent(s, x) \in Nat
    BY <2>4, TotalsType
  <2>6. Lent(s, x) - old + n = Lent(s, x) + (v)
    BY <2>2, <2>5
  <2> HIDE DEF n
  <2>7. \A y \in Assets : Lent(r, y) = IF y = x THEN Lent(s, x) - old + n ELSE Lent(s, y)
    <3> TAKE y \in Assets
    <3>1. Lent(r, y) = LentOut(r.loan, y) /\ Lent(s, y) = LentOut(s.loan, y)
          /\ Lent(s, x) = LentOut(s.loan, x)
      BY TotalsOfTables
    <3>2. LentOut([s.loan EXCEPT ![x][d] = n], y)
            = IF y = x THEN LentOut(s.loan, x) - s.loan[x][d] + n ELSE LentOut(s.loan, y)
      <4>1. s.loan \in [Originals -> [Chains -> Uint64]] /\ n \in Int
        BY <2>2
      <4> HIDE DEF old
      <4> QED BY <4>1, LentOutUpdate
    <3> QED BY <2>3, <3>1, <3>2
  <2>8. \A y \in Assets : Lent(r, y) = IF y = x THEN Lent(s, x) + (v) ELSE Lent(s, y)
    BY <2>6, <2>7
  <2> QED BY <1>3, <1>5, <2>4, <2>8, MovesLent
<1> QED BY <1>3, <1>4, <1>5, <1>6

\* AddLoan: when it succeeds, and the entry it writes.
LEMMA AddLoanWrites ==
  ASSUME NEW s, IsState(s), NEW x \in Originals, NEW d \in Chains, NEW v \in Nat
  PROVE  LET r == AddLoan(s, x, d, v)
         IN /\ r.ok <=> s.ok /\ LoanKey(x, d) \in s.keys /\ s.loan[x][d] + v < Word
            /\ r.loan = [s.loan EXCEPT ![x][d] = @ + v]
<1> DEFINE p == s.loan[x][d] + v < Word
           t == Check(CheckKey(s, LoanKey(x, d)), p)
           w == [s.loan EXCEPT ![x][d] = @ + v]
           r == [t EXCEPT !.loan = w]
<1>1. p \in BOOLEAN
  OBVIOUS
<1> HIDE DEF p, w
<1>2. IsState(t) /\ (t.ok <=> s.ok /\ LoanKey(x, d) \in s.keys /\ p) /\ t.loan = s.loan
  BY <1>1, AccessDoes
<1>3. AddLoan(s, x, d, v) = r
  BY <1>2 DEF AddLoan, p, w
<1> HIDE DEF t
<1>4. r.ok = t.ok /\ r.loan = w
  BY <1>2 DEF IsState
<1> HIDE DEF r
<1> QED BY <1>2, <1>3, <1>4 DEF w, p

\* SubLoan.
LEMMA SubLoanDoes ==
  ASSUME NEW s, IsState(s), NEW x \in Originals, NEW d \in Chains, NEW v \in Nat
  PROVE  LET r == SubLoan(s, x, d, v)
         IN /\ IsState(r)
            /\ r.ok => s.ok
            /\ r.asset = s.asset /\ r.balance = s.balance
            /\ r.imported = s.imported /\ r.keys = s.keys
            /\ r.ok => Moves(s, r, x, 0, 0 - v, 0)
<1> DEFINE p == v <= s.loan[x][d]
           t == Check(CheckKey(s, LoanKey(x, d)), p)
           old == s.loan[x][d]
           n == old - v
           w == [s.loan EXCEPT ![x][d] = n]
           r == [t EXCEPT !.loan = w]
<1>1. p \in BOOLEAN
  OBVIOUS
<1>2. ASSUME s.ok, p
      PROVE  /\ s.loan \in [Originals -> [Chains -> Uint64]]
             /\ old \in Nat /\ n \in Uint64
             /\ w \in [Originals -> [Chains -> Uint64]]
  <2>1. s.loan \in [Originals -> [Chains -> Uint64]]
    BY <1>2 DEF IsState, Typed
  <2>2. old \in Nat /\ old < Word
    <3>1. old \in Uint64
      <4> HIDE DEF t, w
      <4> QED BY <2>1
    <3> HIDE DEF old, t, w, n, p
    <3> QED BY <3>1, Uint64Range
  <2>3. n \in Int /\ 0 <= n /\ n < Word
    <3>1. p
      BY <1>2
    <3> HIDE DEF t
    <3> QED BY <2>2, <3>1, AssetsAssumption
  <2>4. n \in Uint64
    BY <2>3, Uint64Range
  <2> HIDE DEF t, n
  <2> QED BY <2>1, <2>2, <2>4, TableType
<1> HIDE DEF p, w
<1>3. /\ IsState(t) /\ (t.ok <=> s.ok /\ LoanKey(x, d) \in s.keys /\ p)
      /\ t.keys = s.keys /\ t.balance = s.balance /\ t.asset = s.asset
      /\ t.loan = s.loan /\ t.imported = s.imported
  BY <1>1, AccessDoes
<1>4. SubLoan(s, x, d, v) = r
  BY <1>3 DEF SubLoan, p, w
<1> HIDE DEF t
<1>5. /\ IsState(r) /\ r.ok = t.ok /\ r.keys = t.keys
      /\ r.loan = w /\ r.asset = t.asset /\ r.balance = t.balance
      /\ r.imported = t.imported
  BY <1>2, <1>3, SetLoans
<1> HIDE DEF r
<1>6. ASSUME r.ok PROVE Moves(s, r, x, 0, 0 - v, 0)
  <2>1. s.ok /\ p
    BY <1>3, <1>5, <1>6
  <2>2. s.loan \in [Originals -> [Chains -> Uint64]] /\ old \in Nat /\ n \in Int
    BY <1>2, <2>1, Uint64Range
  <2>3. r.loan = [s.loan EXCEPT ![x][d] = n]
    BY <1>5 DEF w
  <2>4. Typed(s) /\ x \in Assets
    BY <2>1 DEF IsState, Assets
  <2>5. Lent(s, x) \in Nat
    BY <2>4, TotalsType
  <2>6. Lent(s, x) - old + n = Lent(s, x) + (0 - v)
    BY <2>2, <2>5
  <2> HIDE DEF n
  <2>7. \A y \in Assets : Lent(r, y) = IF y = x THEN Lent(s, x) - old + n ELSE Lent(s, y)
    <3> TAKE y \in Assets
    <3>1. Lent(r, y) = LentOut(r.loan, y) /\ Lent(s, y) = LentOut(s.loan, y)
          /\ Lent(s, x) = LentOut(s.loan, x)
      BY TotalsOfTables
    <3>2. LentOut([s.loan EXCEPT ![x][d] = n], y)
            = IF y = x THEN LentOut(s.loan, x) - s.loan[x][d] + n ELSE LentOut(s.loan, y)
      <4>1. s.loan \in [Originals -> [Chains -> Uint64]] /\ n \in Int
        BY <2>2
      <4> HIDE DEF old
      <4> QED BY <4>1, LentOutUpdate
    <3> QED BY <2>3, <3>1, <3>2
  <2>8. \A y \in Assets : Lent(r, y) = IF y = x THEN Lent(s, x) + (0 - v) ELSE Lent(s, y)
    BY <2>6, <2>7
  <2> QED BY <1>3, <1>5, <2>4, <2>8, MovesLent
<1> QED BY <1>3, <1>4, <1>5, <1>6

\* SubLoan: when it succeeds, and the entry it writes.
LEMMA SubLoanWrites ==
  ASSUME NEW s, IsState(s), NEW x \in Originals, NEW d \in Chains, NEW v \in Nat
  PROVE  LET r == SubLoan(s, x, d, v)
         IN /\ r.ok <=> s.ok /\ LoanKey(x, d) \in s.keys /\ v <= s.loan[x][d]
            /\ r.loan = [s.loan EXCEPT ![x][d] = @ - v]
<1> DEFINE p == v <= s.loan[x][d]
           t == Check(CheckKey(s, LoanKey(x, d)), p)
           w == [s.loan EXCEPT ![x][d] = @ - v]
           r == [t EXCEPT !.loan = w]
<1>1. p \in BOOLEAN
  OBVIOUS
<1> HIDE DEF p, w
<1>2. IsState(t) /\ (t.ok <=> s.ok /\ LoanKey(x, d) \in s.keys /\ p) /\ t.loan = s.loan
  BY <1>1, AccessDoes
<1>3. SubLoan(s, x, d, v) = r
  BY <1>2 DEF SubLoan, p, w
<1> HIDE DEF t
<1>4. r.ok = t.ok /\ r.loan = w
  BY <1>2 DEF IsState
<1> HIDE DEF r
<1> QED BY <1>2, <1>3, <1>4 DEF w, p

\* SetAsset of a record that may belong to x.
LEMMA SetAssetDoes ==
  ASSUME NEW s, IsState(s), NEW x \in Assets,
         NEW rec \in [symbol : Symbols, supply : Int,
                      owner : Addresses \cup {EmptyAddress}, warp : BOOLEAN],
         rec.warp <=> x \notin Originals
  PROVE  LET r == SetAsset(s, x, rec)
         IN /\ IsState(r)
            /\ r.ok <=> s.ok /\ AssetKey(x) \in s.keys /\ rec.supply \in Uint64
            /\ r.asset = [y \in DOMAIN s.asset \cup {x} |->
                            IF y = x THEN rec ELSE s.asset[y]]
            /\ r.balance = s.balance /\ r.loan = s.loan
            /\ r.imported = s.imported /\ r.keys = s.keys
            /\ r.ok => Moves(s, r, x, 0, 0, rec.supply - Supply(s, x))
<1> DEFINE p == rec.supply \in Uint64
           t == Check(CheckKey(s, AssetKey(x)), p)
           new == [y \in DOMAIN s.asset \cup {x} |-> IF y = x THEN rec ELSE s.asset[y]]
           r == [t EXCEPT !.asset = new]
<1>1. p \in BOOLEAN
  OBVIOUS
<1>2. ASSUME s.ok, p
      PROVE  /\ DOMAIN new \subseteq Assets
             /\ new = [y \in DOMAIN new |-> new[y]]
             /\ \A y \in DOMAIN new :
                  new[y] \in AssetRecord /\ (new[y].warp <=> y \notin Originals)
  <2>1. Typed(s)
    BY <1>2 DEF IsState
  <2>2. rec \in AssetRecord
    BY <1>2 DEF AssetRecord
  <2> HIDE DEF t
  <2> QED BY <2>1, <2>2 DEF Typed
<1> HIDE DEF p, new
<1>3. /\ IsState(t) /\ (t.ok <=> s.ok /\ AssetKey(x) \in s.keys /\ p)
      /\ t.keys = s.keys /\ t.balance = s.balance /\ t.asset = s.asset
      /\ t.loan = s.loan /\ t.imported = s.imported
  BY <1>1, AccessDoes
<1>4. SetAsset(s, x, rec) = r
  BY DEF SetAsset, p, new
<1> HIDE DEF t
<1>5. /\ IsState(r) /\ r.ok = t.ok /\ r.keys = t.keys
      /\ r.asset = new /\ r.balance = t.balance /\ r.loan = t.loan
      /\ r.imported = t.imported
  BY <1>2, <1>3 DEF IsState, Typed
<1> HIDE DEF r
<1>6. ASSUME r.ok PROVE Moves(s, r, x, 0, 0, rec.supply - Supply(s, x))
  <2>1. Typed(s)
    BY <1>3, <1>5, <1>6 DEF IsState
  <2>2. Supply(s, x) \in Nat /\ Owned(s, x) \in Nat /\ Lent(s, x) \in Nat
    BY <2>1, TotalsType
  <2>3. \A y \in Assets : Owned(r, y) = Owned(s, y) /\ Lent(r, y) = Lent(s, y)
    BY <1>3, <1>5, SameTotals
  <2>4. \A y \in Assets : Supply(r, y) = IF y = x THEN rec.supply ELSE Supply(s, y)
    BY <1>5 DEF Supply, new
  <2> QED BY <2>2, <2>3, <2>4 DEF Moves
<1> QED BY <1>3, <1>4, <1>5, <1>6 DEF new, p

\* DeleteAsset.
LEMMA DeleteAssetDoes ==
  ASSUME NEW s, IsState(s), NEW x \in Assets
  PROVE  LET r == DeleteAsset(s, x)
         IN /\ IsState(r)
            /\ r.ok <=> s.ok /\ AssetKey(x) \in s.keys
            /\ r.asset = [y \in DOMAIN s.asset \ {x} |-> s.asset[y]]
            /\ r.balance = s.balance /\ r.loan = s.loan
            /\ r.imported = s.imported /\ r.keys = s.keys
            /\ r.ok => Moves(s, r, x, 0, 0, 0 - Supply(s, x))
<1> DEFINE p == AssetKey(x) \in s.keys
           t == Check(s, p)
           new == [y \in DOMAIN s.asset \ {x} |-> s.asset[y]]
           r == [t EXCEPT !.asset = new]
<1>1. p \in BOOLEAN
  OBVIOUS
<1>2. ASSUME s.ok
      PROVE  /\ DOMAIN new \subseteq Assets
             /\ new = [y \in DOMAIN new |-> new[y]]
             /\ \A y \in DOMAIN new :
                  new[y] \in AssetRecord /\ (new[y].warp <=> y \notin Originals)
  <2>1. Typed(s)
    BY <1>2 DEF IsState
  <2> HIDE DEF t
  <2> QED BY <2>1 DEF Typed
<1> HIDE DEF p, new
<1>3. /\ IsState(t) /\ (t.ok <=> s.ok /\ p)
      /\ t.keys = s.keys /\ t.balance = s.balance /\ t.asset = s.asset
      /\ t.loan = s.loan /\ t.imported = s.imported
  BY <1>1, CheckDoes
<1>4. DeleteAsset(s, x) = r
  BY DEF DeleteAsset, CheckKey, p, new
<1> HIDE DEF t
<1>5. /\ IsState(r) /\ r.ok = t.ok /\ r.keys = t.keys
      /\ r.asset = new /\ r.balance = t.balance /\ r.loan = t.loan
      /\ r.imported = t.imported
  BY <1>2, <1>3 DEF IsState, Typed
<1> HIDE DEF r
<1>6. ASSUME r.ok PROVE Moves(s, r, x, 0, 0, 0 - Supply(s, x))
  <2>1. Typed(s)
    BY <1>3, <1>5, <1>6 DEF IsState
  <2>2. Supply(s, x) \in Nat /\ Owned(s, x) \in Nat /\ Lent(s, x) \in Nat
    BY <2>1, TotalsType
  <2>3. \A y \in Assets : Owned(r, y) = Owned(s, y) /\ Lent(r, y) = Lent(s, y)
    BY <1>3, <1>5, SameTotals
  <2>4. \A y \in Assets : Supply(r, y) = IF y = x THEN 0 ELSE Supply(s, y)
    BY <1>5 DEF Supply, new
  <2> QED BY <2>2, <2>3, <2>4 DEF Moves
<1> QED BY <1>3, <1>4, <1>5, <1>6 DEF new, p

\* One movement after another.
LEMMA MovesTwice ==
  ASSUME NEW s, NEW r, NEW t, NEW x \in Assets, Typed(s),
         NEW a \in Int, NEW b \in Int, NEW c \in Int, Moves(s, r, x, a, b, c),
         NEW i \in Int, NEW j \in Int, NEW k \in Int, Moves(r, t, x, i, j, k)
  PROVE  Moves(s, t, x, a + i, b + j, c + k)
  BY TotalsType DEF Moves

-----------------------------------------------------------------------------
(* The actions of one chain.                                               *)

\* Records of a chain's own assets stay, with their symbols; what is imported is
\* there already.
Inherits(s, r) ==
  /\ \A x \in Originals \cap DOMAIN s.asset :
       x \in DOMAIN r.asset /\ r.asset[x].symbol = s.asset[x].symbol
  /\ \A x \in DOMAIN r.asset \ Originals :
       x \in DOMAIN s.asset /\ r.asset[x].symbol = s.asset[x].symbol

\* Transfer changes no total.
LEMMA TransferDoes ==
  ASSUME NEW s, IsState(s), NEW a \in Addresses, NEW to \in Addresses,
         NEW x \in Assets, NEW v \in Nat, Transfer(s, a, to, x, v).ok
  PROVE  LET r == Transfer(s, a, to, x, v)
         IN /\ IsState(r) /\ Moves(s, r, x, 0, 0, 0)
            /\ r.loan = s.loan /\ r.asset = s.asset /\ r.imported = s.imported
<1> DEFINE q == v > 0
           s1 == Declare(s, {BalanceKey(a, x), BalanceKey(to, x)})
           s2 == Check(s1, q)
           s3 == SubBalance(s2, a, x, v)
           r  == AddBalance(s3, to, x, v)
<1>1. q \in BOOLEAN
  OBVIOUS
<1>2. Transfer(s, a, to, x, v) = r
  BY DEF Transfer
<1> HIDE DEF q
<1>3. /\ IsState(s1) /\ s1.ok = s.ok /\ s1.balance = s.balance /\ s1.asset = s.asset
      /\ s1.loan = s.loan /\ s1.imported = s.imported
  BY DeclareDoes
<1> HIDE DEF s1
<1>4. /\ IsState(s2) /\ (s2.ok <=> s1.ok /\ q) /\ s2.balance = s1.balance
      /\ s2.asset = s1.asset /\ s2.loan = s1.loan /\ s2.imported = s1.imported
  BY <1>1, <1>3, CheckDoes
<1> HIDE DEF s2
<1>5. /\ IsState(s3) /\ (s3.ok => s2.ok) /\ s3.asset = s2.asset /\ s3.loan = s2.loan
      /\ s3.imported = s2.imported /\ (s3.ok => Moves(s2, s3, x, 0 - v, 0, 0))
  BY <1>4, SubBalanceDoes
<1> HIDE DEF s3
<1>6. /\ IsState(r) /\ (r.ok => s3.ok) /\ r.asset = s3.asset /\ r.loan = s3.loan
      /\ r.imported = s3.imported /\ (r.ok => Moves(s3, r, x, v, 0, 0))
  BY <1>5, AddBalanceDoes
<1> HIDE DEF r
<1>7. Moves(s2, s3, x, 0 - v, 0, 0) /\ Moves(s3, r, x, v, 0, 0) /\ s.ok
  BY <1>2, <1>3, <1>4, <1>5, <1>6
<1>8. \A y \in Assets :
        Owned(s2, y) = Owned(s, y) /\ Lent(s2, y) = Lent(s, y)
        /\ Supply(s2, y) = Supply(s, y)
  BY <1>3, <1>4, SameTotals
<1>9. Moves(s, r, x, 0, 0, 0)
  <2>1. Typed(s)
    BY <1>7 DEF IsState
  <2>2. Owned(s, x) \in Nat /\ Lent(s, x) \in Nat /\ Supply(s, x) \in Nat
    BY <2>1, TotalsType
  <2> QED BY <1>7, <1>8, <2>2 DEF Moves
<1> QED BY <1>2, <1>3, <1>4, <1>5, <1>6, <1>9

\* States with the same tables have the same totals.
LEMMA MovesFrom ==
  ASSUME NEW s, NEW s1, NEW r, NEW x \in Assets, NEW a, NEW b, NEW c,
         s1.balance = s.balance, s1.loan = s.loan, s1.asset = s.asset,
         Moves(s1, r, x, a, b, c)
  PROVE  Moves(s, r, x, a, b, c)
<1>1. \A y \in Assets :
        Owned(s1, y) = Owned(s, y) /\ Lent(s1, y) = Lent(s, y)
        /\ Supply(s1, y) = Supply(s, y)
  BY SameTotals
<1> QED BY <1>1 DEF Moves

\* CreateAsset makes a record with no supply.
LEMMA CreateAssetDoes ==
  ASSUME NEW s, IsState(s), s.ok, NEW a \in Addresses, NEW x \in NewAssets,
         NEW symbol \in Symbols, x \notin DOMAIN s.asset, CreateAsset(s, a, x, symbol).ok
  PROVE  LET r == CreateAsset(s, a, x, symbol)
         IN /\ IsState(r) /\ Moves(s, r, x, 0, 0, 0)
            /\ r.loan = s.loan /\ r.imported = s.imported
            /\ Inherits(s, r) /\ DOMAIN r.asset = DOMAIN s.asset \cup {x}
<1> DEFINE s1  == Declare(s, {AssetKey(x)})
           rec == [symbol |-> symbol, supply |-> 0, owner |-> a, warp |-> FALSE]
           r   == SetAsset(s1, x, rec)
<1>1. CreateAsset(s, a, x, symbol) = r
  BY DEF CreateAsset
<1>2. /\ IsState(s1) /\ s1.ok = s.ok /\ s1.balance = s.balance /\ s1.asset = s.asset
      /\ s1.loan = s.loan /\ s1.imported = s.imported
  BY DeclareDoes
<1> HIDE DEF s1
<1>3. x \in Originals /\ x \in Assets
  BY DEF Assets, Originals
<1>4. /\ rec \in [symbol : Symbols, supply : Int,
                  owner : Addresses \cup {EmptyAddress}, warp : BOOLEAN]
      /\ rec.supply = 0 /\ ~ rec.warp
  OBVIOUS
<1> HIDE DEF rec
<1>5. /\ IsState(r)
      /\ r.asset = [y \in DOMAIN s1.asset \cup {x} |-> IF y = x THEN rec ELSE s1.asset[y]]
      /\ r.loan = s1.loan /\ r.imported = s1.imported
      /\ r.ok => Moves(s1, r, x, 0, 0, rec.supply - Supply(s1, x))
  BY <1>2, <1>3, <1>4, SetAssetDoes
<1> HIDE DEF r
<1>6. rec.supply - Supply(s1, x) = 0
  BY <1>2, <1>4 DEF Supply
<1>7. Moves(s1, r, x, 0, 0, 0)
  BY <1>1, <1>5, <1>6
<1>8. Moves(s, r, x, 0, 0, 0)
  BY <1>2, <1>3, <1>7, MovesFrom
<1>9. Inherits(s, r) /\ DOMAIN r.asset = DOMAIN s.asset \cup {x}
  BY <1>2, <1>3, <1>5 DEF Inherits
<1> QED BY <1>1, <1>2, <1>5, <1>8, <1>9

\* A record of the state with another supply.
LEMMA NewSupply ==
  ASSUME NEW s, Typed(s), NEW x \in DOMAIN s.asset, NEW n \in Int
  PROVE  LET rec == [s.asset[x] EXCEPT !.supply = n]
         IN /\ rec \in [symbol : Symbols, supply : Int,
                        owner : Addresses \cup {EmptyAddress}, warp : BOOLEAN]
            /\ rec.supply = n /\ rec.symbol = s.asset[x].symbol
            /\ (rec.warp <=> x \notin Originals)
  BY DEF Typed, AssetRecord

\* Changing the supply of a record keeps the records and their symbols.
LEMMA InheritsSupply ==
  ASSUME NEW s, NEW r, NEW x \in DOMAIN s.asset, NEW rec,
         rec.symbol = s.asset[x].symbol,
         r.asset = [y \in DOMAIN s.asset \cup {x} |-> IF y = x THEN rec ELSE s.asset[y]]
  PROVE  Inherits(s, r) /\ DOMAIN r.asset = DOMAIN s.asset
  BY DEF Inherits

\* MintAsset makes what it adds to the account; it is an asset of this chain.
LEMMA MintAssetDoes ==
  ASSUME NEW s, IsState(s), s.ok, NEW a \in Addresses, NEW to \in Addresses,
         NEW x \in Assets, NEW v \in Nat, MintAsset(s, a, to, x, v).ok
  PROVE  LET r == MintAsset(s, a, to, x, v)
         IN /\ IsState(r) /\ Moves(s, r, x, v, 0, v) /\ x \in NewAssets /\ v > 0
            /\ r.loan = s.loan /\ r.imported = s.imported
            /\ Inherits(s, r) /\ DOMAIN r.asset = DOMAIN s.asset
<1> DEFINE s1  == Declare(s, {AssetKey(x), BalanceKey(to, x)})
           n   == s1.asset[x].supply + v
           rec == [s1.asset[x] EXCEPT !.supply = n]
           s2  == SetAsset(s1, x, rec)
           r   == AddBalance(s2, to, x, v)
<1>1. /\ IsState(s1) /\ s1.ok = s.ok /\ s1.balance = s.balance /\ s1.asset = s.asset
      /\ s1.loan = s.loan /\ s1.imported = s.imported
  BY DeclareDoes
<1>2. CanMint(s1, a, x, v)
  <2>1. SUFFICES ASSUME ~ CanMint(s1, a, x, v) PROVE FALSE
    OBVIOUS
  <2>2. MintAsset(s, a, to, x, v) = Check(s1, FALSE)
    BY <2>1 DEF MintAsset
  <2> HIDE DEF s1
  <2>3. ~ Check(s1, FALSE).ok
    BY <1>1 DEF Check, IsState
  <2> QED BY <2>2, <2>3
<1>3. MintAsset(s, a, to, x, v) = r
  BY <1>2 DEF MintAsset
<1> HIDE DEF s1
<1>4. x \in DOMAIN s1.asset /\ ~ s1.asset[x].warp /\ x # Native /\ v > 0
  BY <1>2 DEF CanMint, HasAsset
<1>5. Typed(s1)
  BY <1>1 DEF IsState
<1>6. x \in NewAssets
  BY <1>4, <1>5 DEF Typed, Originals
<1>7. s1.asset[x].supply \in Nat /\ Supply(s1, x) = s1.asset[x].supply
  BY <1>4, <1>5, Uint64Range DEF Typed, AssetRecord, Supply
<1>8. n \in Int /\ n - Supply(s1, x) = v
  BY <1>7
<1> HIDE DEF n
<1>9. /\ rec \in [symbol : Symbols, supply : Int,
                  owner : Addresses \cup {EmptyAddress}, warp : BOOLEAN]
      /\ rec.supply = n /\ rec.symbol = s1.asset[x].symbol
      /\ (rec.warp <=> x \notin Originals)
  BY <1>4, <1>5, <1>8, NewSupply
<1> HIDE DEF rec
<1>10. /\ IsState(s2)
       /\ s2.asset = [y \in DOMAIN s1.asset \cup {x} |-> IF y = x THEN rec ELSE s1.asset[y]]
       /\ s2.loan = s1.loan /\ s2.imported = s1.imported
       /\ s2.ok => Moves(s1, s2, x, 0, 0, rec.supply - Supply(s1, x))
  BY <1>1, <1>9, SetAssetDoes
<1> HIDE DEF s2
<1>11. /\ IsState(r) /\ (r.ok => s2.ok) /\ r.asset = s2.asset /\ r.loan = s2.loan
       /\ r.imported = s2.imported /\ (r.ok => Moves(s2, r, x, v, 0, 0))
  BY <1>10, AddBalanceDoes
<1> HIDE DEF r
<1>12. Moves(s1, s2, x, 0, 0, v) /\ Moves(s2, r, x, v, 0, 0)
  BY <1>3, <1>8, <1>9, <1>10, <1>11
<1>13. Moves(s1, r, x, v, 0, v)
  <2>1. Moves(s1, r, x, 0 + v, 0 + 0, v + 0)
    BY <1>5, <1>12, MovesTwice
  <2> QED BY <2>1
<1>14. Moves(s, r, x, v, 0, v)
  BY <1>1, <1>13, MovesFrom
<1>15. Inherits(s1, r) /\ DOMAIN r.asset = DOMAIN s1.asset
  BY <1>4, <1>9, <1>10, <1>11, InheritsSupply
<1>16. Inherits(s, r) /\ DOMAIN r.asset = DOMAIN s.asset
  BY <1>1, <1>15 DEF Inherits
<1> QED BY <1>1, <1>3, <1>4, <1>6, <1>10, <1>11, <1>14, <1>16

\* BurnAsset destroys what it takes from the account.
LEMMA BurnAssetDoes ==
  ASSUME NEW s, IsState(s), s.ok, NEW a \in Addresses,
         NEW x \in Assets, NEW v \in Nat, BurnAsset(s, a, x, v).ok
  PROVE  LET r == BurnAsset(s, a, x, v)
         IN /\ IsState(r) /\ Moves(s, r, x, 0 - v, 0, 0 - v) /\ v > 0
            /\ r.loan = s.loan /\ r.imported = s.imported
            /\ Inherits(s, r) /\ DOMAIN r.asset = DOMAIN s.asset
<1> DEFINE s1  == Declare(s, {AssetKey(x), BalanceKey(a, x)})
           s2  == SubBalance(s1, a, x, v)
           n   == s1.asset[x].supply - v
           rec == [s1.asset[x] EXCEPT !.supply = n]
           r   == SetAsset(s2, x, rec)
<1>1. /\ IsState(s1) /\ s1.ok = s.ok /\ s1.balance = s.balance /\ s1.asset = s.asset
      /\ s1.loan = s.loan /\ s1.imported = s.imported
  BY DeclareDoes
<1>2. v > 0 /\ HasAsset(s1, x)
  <2>1. SUFFICES ASSUME ~ (v > 0 /\ HasAsset(s1, x)) PROVE FALSE
    OBVIOUS
  <2>2. BurnAsset(s, a, x, v) = Check(s1, FALSE)
    BY <2>1 DEF BurnAsset
  <2> HIDE DEF s1
  <2>3. ~ Check(s1, FALSE).ok
    BY <1>1 DEF Check, IsState
  <2> QED BY <2>2, <2>3
<1>3. BurnAsset(s, a, x, v) = r
  BY <1>2 DEF BurnAsset
<1> HIDE DEF s1
<1>4. x \in DOMAIN s1.asset
  BY <1>2 DEF HasAsset
<1>5. Typed(s1)
  BY <1>1 DEF IsState
<1>7. s1.asset[x].supply \in Nat /\ Supply(s1, x) = s1.asset[x].supply
  BY <1>4, <1>5, Uint64Range DEF Typed, AssetRecord, Supply
<1>8. n \in Int /\ n - Supply(s1, x) = 0 - v
  BY <1>7
<1> HIDE DEF n
<1>9. /\ rec \in [symbol : Symbols, supply : Int,
                  owner : Addresses \cup {EmptyAddress}, warp : BOOLEAN]
      /\ rec.supply = n /\ rec.symbol = s1.asset[x].symbol
      /\ (rec.warp <=> x \notin Originals)
  BY <1>4, <1>5, <1>8, NewSupply
<1> HIDE DEF rec
<1>10. /\ IsState(s2) /\ s2.asset = s1.asset /\ s2.loan = s1.loan
       /\ s2.imported = s1.imported /\ (s2.ok => Moves(s1, s2, x, 0 - v, 0, 0))
  BY <1>1, SubBalanceDoes
<1> HIDE DEF s2
<1>11. /\ IsState(r) /\ (r.ok => s2.ok)
       /\ r.asset = [y \in DOMAIN s2.asset \cup {x} |-> IF y = x THEN rec ELSE s2.asset[y]]
       /\ r.loan = s2.loan /\ r.imported = s2.imported
       /\ r.ok => Moves(s2, r, x, 0, 0, rec.supply - Supply(s2, x))
  BY <1>9, <1>10, SetAssetDoes
<1> HIDE DEF r
<1>12. Supply(s2, x) = Supply(s1, x)
  BY <1>10, SameTotals
<1>13. Moves(s1, s2, x, 0 - v, 0, 0) /\ Moves(s2, r, x, 0, 0, 0 - v)
  BY <1>3, <1>8, <1>9, <1>10, <1>11, <1>12
<1>14. Moves(s1, r, x, 0 - v, 0, 0 - v)
  <2>1. Moves(s1, r, x, (0 - v) + 0, 0 + 0, 0 + (0 - v))
    BY <1>5, <1>13, MovesTwice
  <2> QED BY <2>1
<1>15. Moves(s, r, x, 0 - v, 0, 0 - v)
  BY <1>1, <1>14, MovesFrom
<1>16. Inherits(s1, r) /\ DOMAIN r.asset = DOMAIN s1.asset
  <2>1. r.asset = [y \in DOMAIN s1.asset \cup {x} |-> IF y = x THEN rec ELSE s1.asset[y]]
    BY <1>10, <1>11
  <2> QED BY <1>4, <1>9, <2>1, InheritsSupply
<1>17. Inherits(s, r) /\ DOMAIN r.asset = DOMAIN s.asset
  BY <1>1, <1>16 DEF Inherits
<1> QED BY <1>1, <1>2, <1>3, <1>10, <1>11, <1>15, <1>17

\* Two withdrawals, the second only when there is a reward.
LEMMA PaidDoes ==
  ASSUME NEW k, IsState(k), NEW a \in Addresses, NEW x \in Assets,
         NEW v \in Nat, NEW w \in Nat
  PROVE  LET b == SubBalance(k, a, x, v)
             r == Rewarding(w, SubBalance(b, a, x, w), b)
         IN /\ IsState(r) /\ r.asset = k.asset /\ r.loan = k.loan
            /\ r.imported = k.imported /\ r.keys = k.keys
            /\ r.ok => k.ok /\ Moves(k, r, x, 0 - (v + w), 0, 0)
<1> DEFINE b == SubBalance(k, a, x, v)
           c == SubBalance(b, a, x, w)
           r == Rewarding(w, c, b)
<1>1. /\ IsState(b) /\ (b.ok => k.ok) /\ b.asset = k.asset /\ b.loan = k.loan
      /\ b.imported = k.imported /\ b.keys = k.keys
      /\ (b.ok => Moves(k, b, x, 0 - v, 0, 0))
  BY SubBalanceDoes
<1> HIDE DEF b
<1>2. /\ IsState(c) /\ (c.ok => b.ok) /\ c.asset = b.asset /\ c.loan = b.loan
      /\ c.imported = b.imported /\ c.keys = b.keys
      /\ (c.ok => Moves(b, c, x, 0 - w, 0, 0))
  BY <1>1, SubBalanceDoes
<1> HIDE DEF c
<1>3. CASE w > 0
  <2>1. r = c
    BY <1>3 DEF Rewarding
  <2>2. ASSUME c.ok PROVE Moves(k, c, x, 0 - (v + w), 0, 0)
    <3>1. Typed(k)
      BY <1>1, <1>2, <2>2 DEF IsState
    <3>2. Moves(k, b, x, 0 - v, 0, 0) /\ Moves(b, c, x, 0 - w, 0, 0)
      BY <1>1, <1>2, <2>2
    <3>3. Moves(k, c, x, (0 - v) + (0 - w), 0 + 0, 0 + 0)
      BY <3>1, <3>2, MovesTwice
    <3>4. (0 - v) + (0 - w) = 0 - (v + w) /\ 0 + 0 = 0
      OBVIOUS
    <3> QED BY <3>3, <3>4
  <2> QED BY <1>1, <1>2, <2>1, <2>2 DEF b, c
<1>4. CASE ~ (w > 0)
  <2>1. r = b /\ 0 - v = 0 - (v + w)
    BY <1>4 DEF Rewarding
  <2> QED BY <1>1, <2>1 DEF b, c
<1> QED BY <1>3, <1>4

\* Two payments, the second only when there is a reward.
LEMMA ReceivedDoes ==
  ASSUME NEW k, IsState(k), NEW to \in Addresses, NEW a \in Addresses,
         NEW x \in Assets, NEW v \in Nat, NEW w \in Nat
  PROVE  LET b == AddBalance(k, to, x, v)
             r == Rewarding(w, AddBalance(b, a, x, w), b)
         IN /\ IsState(r) /\ r.asset = k.asset /\ r.loan = k.loan
            /\ r.imported = k.imported /\ r.keys = k.keys
            /\ r.ok => k.ok /\ Moves(k, r, x, v + w, 0, 0)
<1> DEFINE b == AddBalance(k, to, x, v)
           c == AddBalance(b, a, x, w)
           r == Rewarding(w, c, b)
<1>1. /\ IsState(b) /\ (b.ok => k.ok) /\ b.asset = k.asset /\ b.loan = k.loan
      /\ b.imported = k.imported /\ b.keys = k.keys
      /\ (b.ok => Moves(k, b, x, v, 0, 0))
  BY AddBalanceDoes
<1> HIDE DEF b
<1>2. /\ IsState(c) /\ (c.ok => b.ok) /\ c.asset = b.asset /\ c.loan = b.loan
      /\ c.imported = b.imported /\ c.keys = b.keys
      /\ (c.ok => Moves(b, c, x, w, 0, 0))
  BY <1>1, AddBalanceDoes
<1> HIDE DEF c
<1>3. CASE w > 0
  <2>1. r = c
    BY <1>3 DEF Rewarding
  <2>2. ASSUME c.ok PROVE Moves(k, c, x, v + w, 0, 0)
    <3>1. Typed(k)
      BY <1>1, <1>2, <2>2 DEF IsState
    <3>2. Moves(k, b, x, v, 0, 0) /\ Moves(b, c, x, w, 0, 0)
      BY <1>1, <1>2, <2>2
    <3>3. Moves(k, c, x, v + w, 0 + 0, 0 + 0)
      BY <3>1, <3>2, MovesTwice
    <3> QED BY <3>3
  <2> QED BY <1>1, <1>2, <2>1, <2>2 DEF b, c
<1>4. CASE ~ (w > 0)
  <2>1. r = b /\ v = v + w
    BY <1>4 DEF Rewarding
  <2> QED BY <1>1, <2>1 DEF b, c
<1> QED BY <1>3, <1>4

\* A failed check fails the transaction.
LEMMA CheckFails ==
  ASSUME NEW s, IsState(s)
  PROVE  ~ Check(s, FALSE).ok
  BY DEF Check, IsState

\* executeReturn of ExportAsset: the supply of an imported asset is reduced, and
\* its record deleted when nothing is left.
LEMMA ReducedDoes ==
  ASSUME NEW s, IsState(s), s.ok, NEW x \in DOMAIN s.asset \ Originals, NEW n \in Nat
  PROVE  LET left == s.asset[x].supply - n
             r    == IF left > 0
                       THEN SetAsset(s, x, [s.asset[x] EXCEPT !.supply = left])
                       ELSE DeleteAsset(Check(s, left = 0), x)
         IN /\ IsState(r) /\ r.loan = s.loan /\ r.imported = s.imported
            /\ r.ok => Moves(s, r, x, 0, 0, 0 - n) /\ Inherits(s, r)
                       /\ DOMAIN r.asset \subseteq DOMAIN s.asset
<1> DEFINE left == s.asset[x].supply - n
           rec == [s.asset[x] EXCEPT !.supply = left]
           q == left = 0
           t == Check(s, q)
           p == SetAsset(s, x, rec)
           e == DeleteAsset(t, x)
<1>1. Typed(s) /\ x \in Assets
  BY DEF IsState, Typed
<1>2. s.asset[x].supply \in Nat /\ Supply(s, x) = s.asset[x].supply
  BY <1>1, Uint64Range DEF Typed, AssetRecord, Supply
<1>3. left \in Int /\ left - Supply(s, x) = 0 - n /\ q \in BOOLEAN
  BY <1>2
<1>4. CASE left > 0
  <2> HIDE DEF left
  <2>1. /\ rec \in [symbol : Symbols, supply : Int,
                    owner : Addresses \cup {EmptyAddress}, warp : BOOLEAN]
        /\ rec.supply = left /\ rec.symbol = s.asset[x].symbol
        /\ (rec.warp <=> x \notin Originals)
    BY <1>1, <1>3, NewSupply
  <2> HIDE DEF rec
  <2>2. /\ IsState(p) /\ p.loan = s.loan /\ p.imported = s.imported
        /\ p.asset = [y \in DOMAIN s.asset \cup {x} |-> IF y = x THEN rec ELSE s.asset[y]]
        /\ p.ok => Moves(s, p, x, 0, 0, rec.supply - Supply(s, x))
    BY <1>1, <2>1, SetAssetDoes
  <2> HIDE DEF p
  <2>3. Inherits(s, p) /\ DOMAIN p.asset = DOMAIN s.asset
    BY <2>1, <2>2, InheritsSupply
  <2>4. /\ IsState(p) /\ p.loan = s.loan /\ p.imported = s.imported
        /\ p.ok => Moves(s, p, x, 0, 0, 0 - n) /\ Inherits(s, p)
                   /\ DOMAIN p.asset \subseteq DOMAIN s.asset
    BY <1>3, <2>1, <2>2, <2>3
  <2> QED BY <1>4, <2>4 DEF p, rec, left
<1>5. CASE ~ (left > 0)
  <2> HIDE DEF q
  <2>1. /\ IsState(t) /\ (t.ok <=> s.ok /\ q) /\ t.asset = s.asset /\ t.loan = s.loan
        /\ t.balance = s.balance /\ t.imported = s.imported
    BY <1>3, CheckDoes
  <2> HIDE DEF t
  <2>2. /\ IsState(e) /\ (e.ok => t.ok) /\ e.loan = t.loan /\ e.imported = t.imported
        /\ e.asset = [y \in DOMAIN t.asset \ {x} |-> t.asset[y]]
        /\ e.ok => Moves(t, e, x, 0, 0, 0 - Supply(t, x))
    BY <1>1, <2>1, DeleteAssetDoes
  <2> HIDE DEF e
  <2>3. ASSUME e.ok PROVE Moves(s, e, x, 0, 0, 0 - n)
    <3>1. q
      BY <2>1, <2>2, <2>3
    <3>2. Supply(t, x) = n
      <4>1. Supply(t, x) = Supply(s, x)
        BY <2>1, SameTotals
      <4> QED BY <1>2, <3>1, <4>1 DEF q
    <3>3. Moves(t, e, x, 0, 0, 0 - n)
      BY <2>2, <2>3, <3>2
    <3> QED BY <1>1, <2>1, <3>3, MovesFrom
  <2>4. Inherits(s, e) /\ DOMAIN e.asset \subseteq DOMAIN s.asset
    BY <2>1, <2>2 DEF Inherits
  <2> QED BY <1>5, <2>1, <2>2, <2>3, <2>4 DEF e, t, q
<1> QED BY <1>4, <1>5

\* The fields of exports and messages.
LEMMA FieldTypes ==
  /\ \A e \in Exports :
       /\ e.Asset \in Assets /\ e.Destination \in Chains /\ e.Return \in BOOLEAN
       /\ e.Value \in Nat /\ e.Reward \in Nat
       /\ e.Value \in Uint64 /\ e.Reward \in Uint64
       /\ e.To \in Addresses /\ e.swap \in Swaps
  /\ \A m \in WarpTransfers :
       /\ m.Asset \in Originals /\ m.Return \in BOOLEAN /\ m.symbol \in Symbols
       /\ m.SourceChainID \in Chains /\ m.DestinationChainID \in Chains
       /\ m.Value \in Nat /\ m.Reward \in Nat /\ m.To \in Addresses
       /\ m.swap \in Swaps /\ m.TxID \in Nat
<1>1. ASSUME NEW e \in Exports
      PROVE  /\ e.Asset \in Assets /\ e.Destination \in Chains /\ e.Return \in BOOLEAN
             /\ e.Value \in Values /\ e.Reward \in Rewards
             /\ e.To \in Addresses /\ e.swap \in Orders \cup {NoSwap}
  BY DEF Exports
<1>2. NoSwap \in Swaps
  BY AssetsAssumption DEF NoSwap, Swaps, Uint64, Assets, Originals
<1>3. Orders \subseteq Swaps /\ Values \subseteq Uint64 /\ Rewards \subseteq Uint64
      /\ Uint64 \subseteq Nat
  BY WarpAssumption, Uint64Range
<1>4. ASSUME NEW m \in WarpTransfers
      PROVE  /\ m.Asset \in Originals /\ m.Return \in BOOLEAN /\ m.symbol \in Symbols
             /\ m.SourceChainID \in Chains /\ m.DestinationChainID \in Chains
             /\ m.Value \in Uint64 /\ m.Reward \in Uint64 /\ m.To \in Addresses
             /\ m.swap \in Swaps /\ m.TxID \in Nat
  BY DEF WarpTransfers
<1> QED BY <1>1, <1>2, <1>3, <1>4

\* One entry of a table changes twice.
LEMMA TableTwice ==
  ASSUME NEW A, NEW X, NEW t \in [A -> [X -> Uint64]], NEW a \in A, NEW x \in X,
         NEW m, NEW n
  PROVE  [[t EXCEPT ![a][x] = m] EXCEPT ![a][x] = n] = [t EXCEPT ![a][x] = n]
  OBVIOUS

\* executeLoan of ExportAsset: what leaves the account is lent.
LEMMA ExportLoanDoes ==
  ASSUME NEW s, IsState(s), s.ok, NEW a \in Addresses, NEW e \in Exports,
         ExportLoan(s, a, e).ok
  PROVE  LET r == ExportLoan(s, a, e)
             x == e.Asset
             n == e.Value + e.Reward
         IN /\ IsState(r) /\ x \in Originals /\ x \in DOMAIN s.asset
            /\ Moves(s, r, x, 0 - n, n, 0)
            /\ r.loan = [s.loan EXCEPT ![x][e.Destination] = s.loan[x][e.Destination] + n]
            /\ r.asset = s.asset /\ r.imported = s.imported
<1> DEFINE x  == e.Asset
           d  == e.Destination
           v  == e.Value
           w  == e.Reward
           s1 == AddLoan(s, x, d, v)
           s2 == SubBalance(s1, a, x, v)
           s3 == AddLoan(s2, x, d, w)
           s4 == SubBalance(s3, a, x, w)
           l  == s.loan[x][d]
<1>1. HasAsset(s, x) /\ ~ s.asset[x].warp
  <2>1. SUFFICES ASSUME ~ (HasAsset(s, x) /\ ~ s.asset[x].warp) PROVE FALSE
    OBVIOUS
  <2>2. ExportLoan(s, a, e) = Check(s, FALSE)
    BY <2>1 DEF ExportLoan
  <2> QED BY <2>2, CheckFails
<1>2. ExportLoan(s, a, e) = Rewarding(w, s4, s2)
  BY <1>1 DEF ExportLoan
<1>3. /\ x \in Assets /\ d \in Chains /\ v \in Nat /\ w \in Nat
  BY WarpAssumption, Uint64Range DEF Exports
<1>4. Typed(s)
  BY DEF IsState
<1>5. x \in Originals /\ x \in DOMAIN s.asset
  BY <1>1, <1>4 DEF HasAsset, Typed
<1> HIDE DEF x, d, v, w
<1>6. /\ IsState(s1) /\ (s1.ok => s.ok) /\ s1.asset = s.asset
      /\ s1.imported = s.imported /\ (s1.ok => Moves(s, s1, x, 0, v, 0))
  BY <1>3, <1>5, AddLoanDoes
<1>7. s1.loan = [s.loan EXCEPT ![x][d] = l + v]
  BY <1>3, <1>5, AddLoanWrites
<1> HIDE DEF s1
<1>8. /\ IsState(s2) /\ (s2.ok => s1.ok) /\ s2.asset = s1.asset /\ s2.loan = s1.loan
      /\ s2.imported = s1.imported /\ (s2.ok => Moves(s1, s2, x, 0 - v, 0, 0))
  BY <1>3, <1>6, SubBalanceDoes
<1> HIDE DEF s2
<1>9. /\ IsState(s3) /\ (s3.ok => s2.ok) /\ s3.asset = s2.asset
      /\ s3.imported = s2.imported /\ (s3.ok => Moves(s2, s3, x, 0, w, 0))
  BY <1>3, <1>5, <1>8, AddLoanDoes
<1>10. s3.loan = [s2.loan EXCEPT ![x][d] = s2.loan[x][d] + w]
  BY <1>3, <1>5, <1>8, AddLoanWrites
<1> HIDE DEF s3
<1>11. /\ IsState(s4) /\ (s4.ok => s3.ok) /\ s4.asset = s3.asset /\ s4.loan = s3.loan
       /\ s4.imported = s3.imported /\ (s4.ok => Moves(s3, s4, x, 0 - w, 0, 0))
  BY <1>3, <1>9, SubBalanceDoes
<1> HIDE DEF s4
<1>12. s.loan \in [Originals -> [Chains -> Uint64]] /\ l \in Nat
  <2>1. s.loan \in [Originals -> [Chains -> Uint64]]
    BY <1>4 DEF Typed
  <2>2. l \in Uint64
    BY <1>3, <1>5, <2>1
  <2> QED BY <2>1, <2>2, Uint64Range
<1>13. s2.loan = [s.loan EXCEPT ![x][d] = l + v] /\ s2.loan[x][d] = l + v
  BY <1>3, <1>5, <1>7, <1>8, <1>12
<1> HIDE DEF l
<1>14. ASSUME s2.ok PROVE Moves(s, s2, x, 0 - v, v, 0)
  <2>1. Moves(s, s1, x, 0, v, 0) /\ Moves(s1, s2, x, 0 - v, 0, 0)
    BY <1>6, <1>8, <1>14
  <2>2. Moves(s, s2, x, 0 + (0 - v), v + 0, 0 + 0)
    BY <1>3, <1>4, <2>1, MovesTwice
  <2> QED BY <1>3, <2>2
<1> DEFINE n == v + w
<1>15. CASE w > 0
  <2>1. s4.ok
    BY <1>2, <1>15 DEF Rewarding
  <2>2. Moves(s, s2, x, 0 - v, v, 0) /\ Moves(s2, s3, x, 0, w, 0)
        /\ Moves(s3, s4, x, 0 - w, 0, 0)
    BY <1>9, <1>11, <1>14, <2>1
  <2>3. Moves(s, s3, x, (0 - v) + 0, v + w, 0 + 0)
    BY <1>3, <1>4, <2>2, MovesTwice
  <2>4. Moves(s, s4, x, ((0 - v) + 0) + (0 - w), (v + w) + 0, (0 + 0) + 0)
    BY <1>3, <1>4, <2>2, <2>3, MovesTwice
  <2>5. Moves(s, s4, x, 0 - n, n, 0)
    <3>1. ((0 - v) + 0) + (0 - w) = 0 - n /\ (v + w) + 0 = n /\ (0 + 0) + 0 = 0
      BY <1>3
    <3> QED BY <2>4, <3>1
  <2>6. s4.loan = [s.loan EXCEPT ![x][d] = l + n]
    <3>1. s4.loan = [[s.loan EXCEPT ![x][d] = l + v] EXCEPT ![x][d] = (l + v) + w]
      BY <1>10, <1>11, <1>13
    <3> DEFINE t == s.loan
               p == l + v
               q == p + w
    <3>2. q = l + n
      BY <1>3, <1>12
    <3>3. t \in [Originals -> [Chains -> Uint64]] /\ x \in Originals /\ d \in Chains
      BY <1>3, <1>5, <1>12
    <3> HIDE DEF p, q, t
    <3>4. [[t EXCEPT ![x][d] = p] EXCEPT ![x][d] = q] = [t EXCEPT ![x][d] = q]
      BY <3>3
    <3>5. s4.loan = [t EXCEPT ![x][d] = q]
      BY <3>1, <3>4 DEF p, q, t
    <3> QED BY <3>2, <3>5 DEF t
  <2>7. ExportLoan(s, a, e) = s4
    BY <1>2, <1>15 DEF Rewarding
  <2> HIDE DEF n
  <2>8. /\ IsState(s4) /\ s4.asset = s.asset /\ s4.imported = s.imported
    BY <1>6, <1>8, <1>9, <1>11
  <2> QED BY <1>5, <2>5, <2>6, <2>7, <2>8 DEF x, d, v, w, n, l
<1>16. CASE ~ (w > 0)
  <2>1. ExportLoan(s, a, e) = s2 /\ v = n
    BY <1>2, <1>3, <1>16 DEF Rewarding
  <2>2. Moves(s, s2, x, 0 - v, v, 0)
    BY <1>14, <2>1
  <2>3. Moves(s, s2, x, 0 - n, n, 0) /\ s2.loan = [s.loan EXCEPT ![x][d] = l + n]
    BY <1>13, <2>1, <2>2
  <2> HIDE DEF n
  <2>4. /\ IsState(s2) /\ s2.asset = s.asset /\ s2.imported = s.imported
    BY <1>6, <1>8
  <2> QED BY <1>5, <2>1, <2>3, <2>4 DEF x, d, v, w, n, l
<1> QED BY <1>15, <1>16

\* executeReturn of ExportAsset: what leaves the account is no longer part of the
\* supply of an asset that came from the destination.
LEMMA ExportReturnDoes ==
  ASSUME NEW s, IsState(s), s.ok, NEW a \in Addresses, NEW e \in Exports,
         ExportReturn(s, a, e).ok
  PROVE  LET r == ExportReturn(s, a, e)
             x == e.Asset
             n == e.Value + e.Reward
         IN /\ IsState(r) /\ x \in DOMAIN s.asset \ Originals /\ x[2] = e.Destination
            /\ Moves(s, r, x, 0 - n, 0, 0 - n)
            /\ r.loan = s.loan /\ r.imported = s.imported
            /\ Inherits(s, r) /\ DOMAIN r.asset \subseteq DOMAIN s.asset
<1> DEFINE x  == e.Asset
           v  == e.Value
           w  == e.Reward
           n  == v + w
           left == s.asset[x].supply - v - w
           k  == IF left > 0
                   THEN SetAsset(s, x, [s.asset[x] EXCEPT !.supply = left])
                   ELSE DeleteAsset(Check(s, left = 0), x)
           b  == SubBalance(k, a, x, v)
           r  == Rewarding(w, SubBalance(b, a, x, w), b)
           p  == HasAsset(s, x) /\ s.asset[x].warp /\ x[2] = e.Destination
<1>1. p
  <2>1. SUFFICES ASSUME ~ p PROVE FALSE
    OBVIOUS
  <2>2. ExportReturn(s, a, e) = Check(s, FALSE)
    BY <2>1 DEF ExportReturn
  <2> QED BY <2>2, CheckFails
<1>2. ExportReturn(s, a, e) = r
  BY <1>1 DEF ExportReturn
<1>3. x \in Assets /\ v \in Nat /\ w \in Nat /\ n \in Nat
  <2>1. x \in Assets /\ v \in Nat /\ w \in Nat
    BY FieldTypes
  <2> QED BY <2>1
<1>4. Typed(s)
  BY DEF IsState
<1>5. x \in DOMAIN s.asset \ Originals /\ x[2] = e.Destination
  BY <1>1, <1>4 DEF HasAsset, Typed
<1> HIDE DEF p
<1>6. /\ IsState(k) /\ k.loan = s.loan /\ k.imported = s.imported
      /\ k.ok => Moves(s, k, x, 0, 0, 0 - n) /\ Inherits(s, k)
                 /\ DOMAIN k.asset \subseteq DOMAIN s.asset
  <2>1. s.asset[x].supply \in Nat
    BY <1>4, <1>5, Uint64Range DEF Typed, AssetRecord
  <2>2. left = s.asset[x].supply - n
    BY <1>3, <2>1
  <2> HIDE DEF n, x, v, w
  <2> QED BY <1>3, <1>5, <2>2, ReducedDoes
<1> HIDE DEF k, x, v, w
<1>7. /\ IsState(r) /\ r.asset = k.asset /\ r.loan = k.loan /\ r.imported = k.imported
      /\ r.ok => k.ok /\ Moves(k, r, x, 0 - (v + w), 0, 0)
  BY <1>3, <1>6, PaidDoes
<1> HIDE DEF r, b
<1>8. Moves(s, k, x, 0, 0, 0 - n) /\ Moves(k, r, x, 0 - n, 0, 0) /\ Inherits(s, k)
      /\ DOMAIN k.asset \subseteq DOMAIN s.asset
  BY <1>2, <1>6, <1>7
<1>9. Moves(s, r, x, 0 + (0 - n), 0 + 0, (0 - n) + 0)
  BY <1>3, <1>4, <1>8, MovesTwice
<1>10. Moves(s, r, x, 0 - n, 0, 0 - n)
  <2>1. 0 + (0 - n) = 0 - n /\ 0 + 0 = 0 /\ (0 - n) + 0 = 0 - n
    BY <1>3
  <2> QED BY <1>9, <2>1
<1>11. Inherits(s, r) /\ DOMAIN r.asset \subseteq DOMAIN s.asset
  BY <1>7, <1>8 DEF Inherits
<1> QED BY <1>2, <1>5, <1>6, <1>7, <1>10, <1>11 DEF x, v, w

\* The symbol of the record of an imported asset.
MintSymbol(s, m) ==
  IF AssetIn(m) \in DOMAIN s.asset THEN s.asset[AssetIn(m)].symbol ELSE m.symbol

\* executeMint of ImportAsset: what arrives is added to accounts and supply.
LEMMA ImportMintDoes ==
  ASSUME NEW s, IsState(s), s.ok, NEW a \in Addresses, NEW m \in WarpTransfers,
         ~ m.Return, AssetKey(AssetIn(m)) \in s.keys
  PROVE  LET r == ImportMint(s, a, m)
             x == AssetIn(m)
             n == m.Value + m.Reward
         IN /\ IsState(r) /\ r.loan = s.loan /\ r.imported = s.imported
            /\ DOMAIN r.asset = DOMAIN s.asset \cup {x}
            /\ r.asset[x].symbol = MintSymbol(s, m)
            /\ \A y \in DOMAIN s.asset \ {x} : r.asset[y] = s.asset[y]
            /\ r.ok => Moves(s, r, x, n, 0, n)
<1> DEFINE x   == AssetIn(m)
           v   == m.Value
           w   == m.Reward
           n   == v + w
           has == HasAsset(s, x)
           old == IF has THEN s.asset[x] ELSE [symbol |-> m.symbol, supply |-> 0]
           sup == old.supply + v + w
           new == [symbol |-> old.symbol, supply |-> sup,
                   owner |-> EmptyAddress, warp |-> TRUE]
           q   == has => s.asset[x].warp
           s1  == Check(s, q)
           s2  == SetAsset(s1, x, new)
           b   == AddBalance(s2, m.To, x, v)
           r   == Rewarding(w, AddBalance(b, a, x, w), b)
<1>1. ImportMint(s, a, m) = r
  BY DEF ImportMint
<1>2. v \in Nat /\ w \in Nat /\ n \in Nat /\ m.To \in Addresses /\ m.symbol \in Symbols
  <2>1. v \in Nat /\ w \in Nat /\ m.To \in Addresses /\ m.symbol \in Symbols
    BY FieldTypes
  <2> QED BY <2>1
<1>3. x \in Assets /\ x \notin Originals
  BY AssetsAssumption DEF AssetIn, Assets, WarpTransfers
<1>4. Typed(s)
  BY DEF IsState
<1>5. has <=> x \in DOMAIN s.asset
  BY DEF HasAsset
<1>6. q \in BOOLEAN
  OBVIOUS
<1>7. /\ old.symbol = MintSymbol(s, m) /\ old.symbol \in Symbols
      /\ old.supply = Supply(s, x) /\ old.supply \in Nat
  BY <1>2, <1>4, <1>5, Uint64Range DEF MintSymbol, Supply, Typed, AssetRecord
<1> HIDE DEF x, v, w, has, q, old
<1>8. /\ IsState(s1) /\ (s1.ok <=> s.ok /\ q) /\ s1.balance = s.balance
      /\ s1.asset = s.asset /\ s1.loan = s.loan /\ s1.imported = s.imported
      /\ s1.keys = s.keys
  BY <1>6, CheckDoes
<1> HIDE DEF s1
<1>9. sup \in Int /\ sup - Supply(s, x) = n
  BY <1>2, <1>7
<1> HIDE DEF sup
<1>10. /\ new \in [symbol : Symbols, supply : Int,
                   owner : Addresses \cup {EmptyAddress}, warp : BOOLEAN]
       /\ new.supply = sup /\ new.symbol = MintSymbol(s, m) /\ new.warp
  BY <1>7, <1>9
<1> HIDE DEF new
<1>11. /\ IsState(s2) /\ (s2.ok => s1.ok) /\ s2.loan = s1.loan /\ s2.imported = s1.imported
       /\ s2.asset = [y \in DOMAIN s1.asset \cup {x} |-> IF y = x THEN new ELSE s1.asset[y]]
       /\ s2.ok => Moves(s1, s2, x, 0, 0, new.supply - Supply(s1, x))
  BY <1>3, <1>8, <1>10, SetAssetDoes
<1> HIDE DEF s2
<1>12. /\ IsState(r) /\ r.asset = s2.asset /\ r.loan = s2.loan /\ r.imported = s2.imported
       /\ r.ok => s2.ok /\ Moves(s2, r, x, v + w, 0, 0)
  BY <1>2, <1>3, <1>11, ReceivedDoes
<1> HIDE DEF r, b
<1>13. ASSUME r.ok PROVE Moves(s, r, x, n, 0, n)
  <2>1. Supply(s1, x) = Supply(s, x)
    BY <1>8, SameTotals
  <2>2. new.supply - Supply(s1, x) = n
    BY <1>9, <1>10, <2>1
  <2>3. Moves(s1, s2, x, 0, 0, n) /\ Moves(s2, r, x, n, 0, 0)
    BY <1>11, <1>12, <1>13, <2>2
  <2>4. Moves(s, s2, x, 0, 0, n)
    BY <1>3, <1>8, <2>3, MovesFrom
  <2>5. Moves(s, r, x, 0 + n, 0 + 0, n + 0)
    BY <1>2, <1>3, <1>4, <2>3, <2>4, MovesTwice
  <2>6. 0 + n = n /\ 0 + 0 = 0 /\ n + 0 = n
    BY <1>2
  <2> QED BY <2>5, <2>6
<1>14. /\ DOMAIN r.asset = DOMAIN s.asset \cup {x}
       /\ r.asset[x].symbol = MintSymbol(s, m)
       /\ \A y \in DOMAIN s.asset \ {x} : r.asset[y] = s.asset[y]
  BY <1>8, <1>10, <1>11, <1>12
<1> QED BY <1>1, <1>8, <1>11, <1>12, <1>13, <1>14 DEF x, v, w

\* executeReturn of ImportAsset: what arrives is no longer lent.
LEMMA ImportReturnDoes ==
  ASSUME NEW s, IsState(s), s.ok, NEW a \in Addresses, NEW m \in WarpTransfers
  PROVE  LET r == ImportReturn(s, a, m)
             x == m.Asset
             c == m.SourceChainID
             n == m.Value + m.Reward
         IN /\ IsState(r) /\ r.asset = s.asset /\ r.imported = s.imported
            /\ r.ok =>
                 /\ Moves(s, r, x, n, 0 - n, 0)
                 /\ r.loan = [s.loan EXCEPT ![x][c] = s.loan[x][c] - n]
<1> DEFINE x  == m.Asset
           c  == m.SourceChainID
           to == m.To
           v  == m.Value
           w  == m.Reward
           q  == HasAsset(s, x) /\ s.asset[x].symbol = m.symbol /\ ~ s.asset[x].warp
           s0 == Check(s, q)
           s1 == SubLoan(s0, x, c, v)
           s2 == AddBalance(s1, to, x, v)
           s3 == SubLoan(s2, x, c, w)
           s4 == AddBalance(s3, a, x, w)
           l  == s.loan[x][c]
<1>1. ImportReturn(s, a, m) = Rewarding(w, s4, s2)
  BY DEF ImportReturn
<1>2. /\ x \in Originals /\ x \in Assets /\ c \in Chains /\ to \in Addresses
      /\ v \in Nat /\ w \in Nat
  BY FieldTypes DEF Assets
<1>3. q \in BOOLEAN
  OBVIOUS
<1> HIDE DEF x, c, to, v, w, q
<1>4. /\ IsState(s0) /\ (s0.ok <=> s.ok /\ q) /\ s0.asset = s.asset /\ s0.loan = s.loan
      /\ s0.balance = s.balance /\ s0.imported = s.imported
  BY <1>3, CheckDoes
<1> HIDE DEF s0
<1>5. Typed(s)
  BY DEF IsState
<1>6. /\ IsState(s1) /\ (s1.ok => s0.ok) /\ s1.asset = s0.asset
      /\ s1.imported = s0.imported /\ (s1.ok => Moves(s0, s1, x, 0, 0 - v, 0))
  BY <1>2, <1>4, SubLoanDoes
<1>7. s1.loan = [s.loan EXCEPT ![x][c] = l - v]
  <2>1. s1.loan = [s0.loan EXCEPT ![x][c] = s0.loan[x][c] - v]
    BY <1>2, <1>4, SubLoanWrites
  <2> HIDE DEF s1
  <2> QED BY <1>4, <2>1
<1> HIDE DEF s1
<1>8. /\ IsState(s2) /\ (s2.ok => s1.ok) /\ s2.asset = s1.asset /\ s2.loan = s1.loan
      /\ s2.imported = s1.imported /\ (s2.ok => Moves(s1, s2, x, v, 0, 0))
  BY <1>2, <1>6, AddBalanceDoes
<1> HIDE DEF s2
<1>9. /\ IsState(s3) /\ (s3.ok => s2.ok) /\ s3.asset = s2.asset
      /\ s3.imported = s2.imported /\ (s3.ok => Moves(s2, s3, x, 0, 0 - w, 0))
  BY <1>2, <1>8, SubLoanDoes
<1>10. s3.loan = [s2.loan EXCEPT ![x][c] = s2.loan[x][c] - w]
  BY <1>2, <1>8, SubLoanWrites
<1> HIDE DEF s3
<1>11. /\ IsState(s4) /\ (s4.ok => s3.ok) /\ s4.asset = s3.asset /\ s4.loan = s3.loan
       /\ s4.imported = s3.imported /\ (s4.ok => Moves(s3, s4, x, w, 0, 0))
  BY <1>2, <1>9, AddBalanceDoes
<1> HIDE DEF s4
<1>12. s.loan \in [Originals -> [Chains -> Uint64]] /\ l \in Nat
  <2>1. s.loan \in [Originals -> [Chains -> Uint64]]
    BY <1>5 DEF Typed
  <2>2. l \in Uint64
    BY <1>2, <2>1
  <2> QED BY <2>1, <2>2, Uint64Range
<1>13. s2.loan = [s.loan EXCEPT ![x][c] = l - v] /\ s2.loan[x][c] = l - v
  BY <1>2, <1>7, <1>8, <1>12
<1> HIDE DEF l
<1>14. ASSUME s2.ok PROVE Moves(s, s2, x, v, 0 - v, 0)
  <2>1. Moves(s0, s1, x, 0, 0 - v, 0) /\ Moves(s1, s2, x, v, 0, 0)
    BY <1>6, <1>8, <1>14
  <2>2. Moves(s, s1, x, 0, 0 - v, 0)
    BY <1>2, <1>4, <2>1, MovesFrom
  <2>3. Moves(s, s2, x, 0 + v, (0 - v) + 0, 0 + 0)
    BY <1>2, <1>5, <2>1, <2>2, MovesTwice
  <2> QED BY <1>2, <2>3
<1> DEFINE n == v + w
<1>15. CASE w > 0
  <2>1. ImportReturn(s, a, m) = s4
    BY <1>1, <1>15 DEF Rewarding
  <2>2. ASSUME s4.ok
        PROVE Moves(s, s4, x, n, 0 - n, 0)
    <3>1. Moves(s, s2, x, v, 0 - v, 0) /\ Moves(s2, s3, x, 0, 0 - w, 0)
          /\ Moves(s3, s4, x, w, 0, 0)
      BY <1>9, <1>11, <1>14, <2>2
    <3>2. Moves(s, s3, x, v + 0, (0 - v) + (0 - w), 0 + 0)
      BY <1>2, <1>5, <3>1, MovesTwice
    <3>3. Moves(s, s4, x, (v + 0) + w, ((0 - v) + (0 - w)) + 0, (0 + 0) + 0)
      BY <1>2, <1>5, <3>1, <3>2, MovesTwice
    <3>4. (v + 0) + w = n /\ ((0 - v) + (0 - w)) + 0 = 0 - n /\ (0 + 0) + 0 = 0
      BY <1>2
    <3> QED BY <3>3, <3>4
  <2>3. s4.loan = [s.loan EXCEPT ![x][c] = l - n]
    <3>1. s4.loan = [[s.loan EXCEPT ![x][c] = l - v] EXCEPT ![x][c] = (l - v) - w]
      BY <1>10, <1>11, <1>13
    <3>2. l - v \in Int /\ (l - v) - w \in Int /\ (l - v) - w = l - n
      BY <1>2, <1>12
    <3>3. [[s.loan EXCEPT ![x][c] = l - v] EXCEPT ![x][c] = (l - v) - w]
            = [s.loan EXCEPT ![x][c] = (l - v) - w]
      BY <1>2, <1>12, <3>2, TableTwice
    <3> QED BY <3>1, <3>2, <3>3
  <2> HIDE DEF n
  <2>4. IsState(s4) /\ s4.asset = s.asset /\ s4.imported = s.imported
    BY <1>4, <1>6, <1>8, <1>9, <1>11
  <2> QED BY <2>1, <2>2, <2>3, <2>4 DEF x, c, v, w, n, l
<1>16. CASE ~ (w > 0)
  <2>1. ImportReturn(s, a, m) = s2 /\ v = n
    BY <1>1, <1>2, <1>16 DEF Rewarding
  <2>2. /\ s2.ok => Moves(s, s2, x, n, 0 - n, 0)
        /\ s2.loan = [s.loan EXCEPT ![x][c] = l - n]
    BY <1>13, <1>14, <2>1
  <2> HIDE DEF n
  <2>3. IsState(s2) /\ s2.asset = s.asset /\ s2.imported = s.imported
    BY <1>4, <1>6, <1>8
  <2> QED BY <2>1, <2>2, <2>3 DEF x, c, v, w, n, l
<1> QED BY <1>15, <1>16

\* From one account to another: no total changes.
LEMMA PassDoes ==
  ASSUME NEW s, IsState(s), NEW a \in Addresses, NEW b \in Addresses,
         NEW x \in Assets, NEW v \in Nat
  PROVE  LET r == AddBalance(SubBalance(s, a, x, v), b, x, v)
         IN /\ IsState(r) /\ (r.ok => s.ok) /\ r.asset = s.asset /\ r.loan = s.loan
            /\ r.imported = s.imported /\ (r.ok => Moves(s, r, x, 0, 0, 0))
<1> DEFINE t == SubBalance(s, a, x, v)
           r == AddBalance(t, b, x, v)
<1>1. /\ IsState(t) /\ (t.ok => s.ok) /\ t.asset = s.asset /\ t.loan = s.loan
      /\ t.imported = s.imported /\ (t.ok => Moves(s, t, x, 0 - v, 0, 0))
  BY SubBalanceDoes
<1> HIDE DEF t
<1>2. /\ IsState(r) /\ (r.ok => t.ok) /\ r.asset = t.asset /\ r.loan = t.loan
      /\ r.imported = t.imported /\ (r.ok => Moves(t, r, x, v, 0, 0))
  BY <1>1, AddBalanceDoes
<1> HIDE DEF r
<1>3. ASSUME r.ok PROVE Moves(s, r, x, 0, 0, 0)
  <2>1. Typed(s) /\ Moves(s, t, x, 0 - v, 0, 0) /\ Moves(t, r, x, v, 0, 0)
    BY <1>1, <1>2, <1>3 DEF IsState
  <2>2. Moves(s, r, x, (0 - v) + v, 0 + 0, 0 + 0)
    BY <2>1, MovesTwice
  <2>3. (0 - v) + v = 0 /\ 0 + 0 = 0
    OBVIOUS
  <2> QED BY <2>2, <2>3
<1> QED BY <1>1, <1>2, <1>3 DEF r, t

\* The totals of all assets stay.
SameMoney(s, r) ==
  \A y \in Assets :
    Owned(r, y) = Owned(s, y) /\ Lent(r, y) = Lent(s, y) /\ Supply(r, y) = Supply(s, y)

\* No movement, of whichever asset, changes no total.
LEMMA MovesNothing ==
  ASSUME NEW s, NEW r, Typed(s), NEW x \in Assets
  PROVE  Moves(s, r, x, 0, 0, 0) <=> SameMoney(s, r)
  BY TotalsType DEF Moves, SameMoney

\* Filling an order swaps two assets between two accounts.
LEMMA FillSwapDoes ==
  ASSUME NEW s, IsState(s), NEW a \in Addresses, NEW m \in WarpTransfers
  PROVE  LET r == FillSwap(s, a, m)
         IN /\ IsState(r) /\ (r.ok => s.ok) /\ r.asset = s.asset /\ r.loan = s.loan
            /\ r.imported = s.imported /\ (r.ok => SameMoney(s, r))
<1> DEFINE x == AssetIn(m)
           y == m.swap.AssetOut
           v == m.swap.SwapIn
           w == m.swap.SwapOut
           t == AddBalance(SubBalance(s, m.To, x, v), a, x, v)
           r == AddBalance(SubBalance(t, a, y, w), m.To, y, w)
<1>1. FillSwap(s, a, m) = r
  BY DEF FillSwap
<1>2. /\ x \in Assets /\ y \in Assets /\ v \in Nat /\ w \in Nat /\ m.To \in Addresses
  <2>1. m.swap \in Swaps /\ m.To \in Addresses /\ m.Asset \in Originals
        /\ m.SourceChainID \in Chains
    BY FieldTypes
  <2>2. y \in Assets /\ v \in Uint64 /\ w \in Uint64
    BY <2>1 DEF Swaps
  <2>3. x \in Assets
    BY <2>1 DEF AssetIn, Assets
  <2> QED BY <2>1, <2>2, <2>3, Uint64Range
<1> HIDE DEF x, y, v, w
<1>3. /\ IsState(t) /\ (t.ok => s.ok) /\ t.asset = s.asset /\ t.loan = s.loan
      /\ t.imported = s.imported /\ (t.ok => Moves(s, t, x, 0, 0, 0))
  BY <1>2, PassDoes
<1> HIDE DEF t
<1>4. /\ IsState(r) /\ (r.ok => t.ok) /\ r.asset = t.asset /\ r.loan = t.loan
      /\ r.imported = t.imported /\ (r.ok => Moves(t, r, y, 0, 0, 0))
  BY <1>2, <1>3, PassDoes
<1> HIDE DEF r
<1>5. ASSUME r.ok PROVE SameMoney(s, r)
  <2>1. Typed(s) /\ Typed(t)
    BY <1>3, <1>4, <1>5 DEF IsState
  <2>2. SameMoney(s, t) /\ SameMoney(t, r)
    BY <1>2, <1>3, <1>4, <1>5, <2>1, MovesNothing
  <2> QED BY <2>2 DEF SameMoney
<1> QED BY <1>1, <1>3, <1>4, <1>5

\* What ImportAsset does to the tables, apart from the balances.
Arrives(s, r, m) ==
  LET x == AssetIn(m)
      c == m.SourceChainID
      n == m.Value + m.Reward
  IN IF m.Return
       THEN /\ Moves(s, r, x, n, 0 - n, 0)
            /\ r.loan = [s.loan EXCEPT ![x][c] = s.loan[x][c] - n]
            /\ r.asset = s.asset
       ELSE /\ Moves(s, r, x, n, 0, n)
            /\ r.loan = s.loan
            /\ DOMAIN r.asset = DOMAIN s.asset \cup {x}
            /\ r.asset[x].symbol = MintSymbol(s, m)
            /\ \A y \in DOMAIN s.asset \ {x} : r.asset[y] = s.asset[y]

\* It depends on the tables alone.
LEMMA ArrivesFrom ==
  ASSUME NEW s, NEW s1, NEW r, NEW t, NEW m \in WarpTransfers,
         s1.balance = s.balance, s1.loan = s.loan, s1.asset = s.asset,
         SameMoney(r, t), t.loan = r.loan, t.asset = r.asset, Arrives(s1, r, m)
  PROVE  Arrives(s, t, m)
<1> DEFINE x == AssetIn(m)
<1>1. x \in Assets
  BY FieldTypes DEF AssetIn, Assets
<1>2. \A y \in Assets :
        Owned(s1, y) = Owned(s, y) /\ Lent(s1, y) = Lent(s, y)
        /\ Supply(s1, y) = Supply(s, y)
  BY SameTotals
<1>3. ASSUME NEW a, NEW b, NEW c, Moves(s1, r, x, a, b, c)
      PROVE  Moves(s, t, x, a, b, c)
  BY <1>1, <1>2, <1>3 DEF Moves, SameMoney
<1>4. MintSymbol(s1, m) = MintSymbol(s, m)
  BY DEF MintSymbol
<1> QED BY <1>3, <1>4 DEF Arrives

\* ImportAsset, with or without filling the order.
LEMMA ImportAssetDoes ==
  ASSUME NEW s, IsState(s), s.ok, NEW a \in Addresses, NEW m \in WarpTransfers,
         NEW fill \in BOOLEAN, NEW t, ImportAsset(s, t, a, m, fill).ok
  PROVE  LET r == ImportAsset(s, t, a, m, fill)
         IN IsState(r) /\ r.imported = s.imported /\ Arrives(s, r, m)
<1> DEFINE x  == AssetIn(m)
           ks == ImportStateKeys(a, m, fill)
           s1 == Declare(s, ks)
           s2 == IF m.Return THEN ImportReturn(s1, a, m) ELSE ImportMint(s1, a, m)
           q  == m.swap.SwapIn = 0 \/ m.swap.SwapExpiry <= t
           r  == IF fill THEN FillSwap(s2, a, m) ELSE Check(s2, q)
<1>1. ImportAsset(s, t, a, m, fill) = r
  BY DEF ImportAsset
<1>2. /\ IsState(s1) /\ s1.ok /\ s1.asset = s.asset /\ s1.loan = s.loan
      /\ s1.balance = s.balance /\ s1.imported = s.imported /\ s1.keys = ks
  BY DeclareDoes
<1>3. AssetKey(x) \in ks
  BY DEF ImportStateKeys
<1>4. q \in BOOLEAN
  OBVIOUS
<1> HIDE DEF s1, ks, q
<1>5. /\ IsState(s2) /\ s2.imported = s1.imported /\ (s2.ok => Arrives(s1, s2, m))
  <2>1. CASE m.Return
    <3> DEFINE u == ImportReturn(s1, a, m)
    <3>1. s2 = u /\ x = m.Asset
      BY <2>1 DEF AssetIn
    <3>2. /\ IsState(u) /\ u.asset = s1.asset /\ u.imported = s1.imported
          /\ u.ok =>
               /\ Moves(s1, u, m.Asset, m.Value + m.Reward, 0 - (m.Value + m.Reward), 0)
               /\ u.loan = [s1.loan EXCEPT ![m.Asset][m.SourceChainID] =
                              s1.loan[m.Asset][m.SourceChainID] - (m.Value + m.Reward)]
      BY <1>2, ImportReturnDoes
    <3> HIDE DEF u, s2
    <3> QED BY <2>1, <3>1, <3>2 DEF Arrives
  <2>2. CASE ~ m.Return
    <3> DEFINE u == ImportMint(s1, a, m)
    <3>1. s2 = u
      BY <2>2
    <3>2. /\ IsState(u) /\ u.loan = s1.loan /\ u.imported = s1.imported
          /\ DOMAIN u.asset = DOMAIN s1.asset \cup {x}
          /\ u.asset[x].symbol = MintSymbol(s1, m)
          /\ \A y \in DOMAIN s1.asset \ {x} : u.asset[y] = s1.asset[y]
          /\ u.ok => Moves(s1, u, x, m.Value + m.Reward, 0, m.Value + m.Reward)
      BY <1>2, <1>3, <2>2, ImportMintDoes
    <3> HIDE DEF u, s2, x
    <3> QED BY <2>2, <3>1, <3>2 DEF Arrives, x
  <2> QED BY <2>1, <2>2
<1> HIDE DEF s2
<1>6. /\ IsState(r) /\ r.imported = s2.imported /\ r.asset = s2.asset
      /\ r.loan = s2.loan /\ (r.ok => s2.ok) /\ (r.ok => SameMoney(s2, r))
  <2>1. CASE fill
    <3> DEFINE u == FillSwap(s2, a, m)
    <3>1. /\ IsState(u) /\ (u.ok => s2.ok) /\ u.asset = s2.asset /\ u.loan = s2.loan
          /\ u.imported = s2.imported /\ (u.ok => SameMoney(s2, u))
      BY <1>5, FillSwapDoes
    <3>2. r = u
      BY <2>1
    <3> HIDE DEF u, r
    <3> QED BY <3>1, <3>2
  <2>2. CASE ~ fill
    <3> DEFINE u == Check(s2, q)
    <3>1. /\ IsState(u) /\ (u.ok => s2.ok) /\ u.asset = s2.asset /\ u.loan = s2.loan
          /\ u.imported = s2.imported /\ u.balance = s2.balance
      BY <1>4, <1>5, CheckDoes
    <3>2. r = u
      BY <2>2
    <3> HIDE DEF u, r
    <3>3. SameMoney(s2, u)
      BY <3>1, SameTotals DEF SameMoney
    <3> QED BY <3>1, <3>2, <3>3
  <2> QED BY <2>1, <2>2
<1> HIDE DEF r
<1>7. Arrives(s1, s2, m) /\ SameMoney(s2, r)
  BY <1>1, <1>5, <1>6
<1>8. Arrives(s, r, m)
  BY <1>2, <1>6, <1>7, ArrivesFrom
<1> QED BY <1>1, <1>2, <1>5, <1>6, <1>8

\* What ExportAsset does to the tables, apart from the balances.
Departs(s, r, e) ==
  LET x == e.Asset
      d == e.Destination
      n == e.Value + e.Reward
  IN IF e.Return
       THEN /\ x \in DOMAIN s.asset \ Originals /\ x[2] = d
            /\ Moves(s, r, x, 0 - n, 0, 0 - n)
            /\ r.loan = s.loan
            /\ Inherits(s, r) /\ DOMAIN r.asset \subseteq DOMAIN s.asset
       ELSE /\ x \in Originals /\ x \in DOMAIN s.asset
            /\ Moves(s, r, x, 0 - n, n, 0)
            /\ r.loan = [s.loan EXCEPT ![x][d] = s.loan[x][d] + n]
            /\ r.asset = s.asset

\* ExportAsset.
LEMMA ExportAssetDoes ==
  ASSUME NEW s, IsState(s), s.ok, NEW a \in Addresses, NEW e \in Exports,
         ExportAsset(s, a, e).ok
  PROVE  LET r == ExportAsset(s, a, e)
         IN IsState(r) /\ r.imported = s.imported /\ Departs(s, r, e)
<1> DEFINE x  == e.Asset
           n  == e.Value + e.Reward
           s1 == Declare(s, ExportStateKeys(a, e))
           r  == IF e.Return THEN ExportReturn(s1, a, e) ELSE ExportLoan(s1, a, e)
<1>1. ExportAsset(s, a, e) = r
  BY DEF ExportAsset
<1>2. /\ IsState(s1) /\ s1.ok /\ s1.asset = s.asset /\ s1.loan = s.loan
      /\ s1.balance = s.balance /\ s1.imported = s.imported
  BY DeclareDoes
<1> HIDE DEF s1
<1>3. x \in Assets
  BY FieldTypes
<1>4. CASE e.Return
  <2> DEFINE u == ExportReturn(s1, a, e)
  <2>1. r = u
    BY <1>4
  <2>2. u.ok
    BY <1>1, <2>1
  <2>3. /\ IsState(u) /\ x \in DOMAIN s1.asset \ Originals /\ x[2] = e.Destination
        /\ Moves(s1, u, x, 0 - n, 0, 0 - n)
        /\ u.loan = s1.loan /\ u.imported = s1.imported
        /\ Inherits(s1, u) /\ DOMAIN u.asset \subseteq DOMAIN s1.asset
    BY <1>2, <2>2, ExportReturnDoes
  <2> HIDE DEF u, r, x, n
  <2>4. Moves(s, u, x, 0 - n, 0, 0 - n)
    BY <1>2, <1>3, <2>3, MovesFrom
  <2>5. Inherits(s, u)
    BY <1>2, <2>3 DEF Inherits
  <2>6. Departs(s, u, e)
    BY <1>2, <1>4, <2>3, <2>4, <2>5 DEF Departs, x, n
  <2> QED BY <1>1, <1>2, <2>1, <2>3, <2>6
<1>5. CASE ~ e.Return
  <2> DEFINE u == ExportLoan(s1, a, e)
             d == e.Destination
  <2>1. r = u
    BY <1>5
  <2>2. u.ok
    BY <1>1, <2>1
  <2>3. /\ IsState(u) /\ x \in Originals /\ x \in DOMAIN s1.asset
        /\ Moves(s1, u, x, 0 - n, n, 0)
        /\ u.loan = [s1.loan EXCEPT ![x][d] = s1.loan[x][d] + n]
        /\ u.asset = s1.asset /\ u.imported = s1.imported
    BY <1>2, <2>2, ExportLoanDoes
  <2> HIDE DEF u, r, x, n, d
  <2>4. Moves(s, u, x, 0 - n, n, 0)
    BY <1>2, <1>3, <2>3, MovesFrom
  <2>5. u.loan = [s.loan EXCEPT ![x][d] = s.loan[x][d] + n]
    BY <1>2, <2>3
  <2>6. Departs(s, u, e)
    BY <1>2, <1>5, <2>3, <2>4, <2>5 DEF Departs, x, n, d
  <2> QED BY <1>1, <1>2, <2>1, <2>3, <2>6
<1> QED BY <1>4, <1>5

-----------------------------------------------------------------------------
(* The steps of the whole system, in terms of the totals.                  *)

\* The types, and what they do not say: a chain has imported only what was sent,
\* and the transaction IDs of messages are all different.
Shape ==
  /\ now \in 0 .. MaxTime
  /\ sent \subseteq WarpTransfers /\ IsFiniteSet(sent)
  /\ \A m \in sent : m.TxID <= Cardinality(sent)
  /\ chain = [c \in Chains |-> chain[c]]
  /\ \A c \in Chains :
       IsState(chain[c]) /\ chain[c].ok /\ chain[c].imported \subseteq sent

\* The chain c executes a transaction, the others do nothing.
Executes(c) ==
  /\ chain' = [d \in Chains |-> chain'[d]]
  /\ \A d \in Chains \ {c} : chain'[d] = chain[d]
  /\ IsState(chain'[c]) /\ chain'[c].ok

\* Transfer, create, mint, burn: v units of x are made, or destroyed.
Local(c, x, v) ==
  /\ Executes(c) /\ sent' = sent /\ now' = now
  /\ chain'[c].imported = chain[c].imported /\ chain'[c].loan = chain[c].loan
  /\ Moves(chain[c], chain'[c], x, v, 0, v)
  /\ v > 0 => x \in NewAssets
  /\ v \in Uint64 \/ 0 - v \in Uint64
  /\ Inherits(chain[c], chain'[c])

Exporting(c, e) ==
  LET m == WarpTransfer(chain[c], c, e, Cardinality(sent) + 1)
  IN /\ Executes(c) /\ now' = now
     /\ chain'[c].imported = chain[c].imported
     /\ Departs(chain[c], chain'[c], e)
     /\ e.Value > 0 /\ ValidSwapParams(e.Value, e.swap)
     /\ sent' = sent \cup {m}

Importing(c, m) ==
  /\ Executes(c) /\ sent' = sent /\ now' = now
  /\ m \in sent /\ m.DestinationChainID = c /\ m \notin chain[c].imported
  /\ chain'[c].imported = chain[c].imported \cup {m}
  /\ Arrives(chain[c], chain'[c], m)

\* Execute makes the state r of the transaction the state of the chain.
LEMMA ExecuteDoes ==
  ASSUME Shape, NEW c \in Chains, NEW r, IsState(r), Execute(c, r)
  PROVE  /\ Executes(c) /\ r.ok
         /\ chain'[c].balance = r.balance /\ chain'[c].loan = r.loan
         /\ chain'[c].asset = r.asset /\ chain'[c].imported = r.imported
<1> DEFINE t == [r EXCEPT !.keys = {}]
<1>1. chain' = [chain EXCEPT ![c] = t] /\ r.ok
  BY DEF Execute
<1>2. /\ t.balance = r.balance /\ t.loan = r.loan /\ t.asset = r.asset
      /\ t.imported = r.imported /\ t.ok = r.ok /\ IsState(t)
  BY DEF IsState, Typed
<1> HIDE DEF t
<1>3. chain = [d \in Chains |-> chain[d]]
  BY DEF Shape
<1>4. /\ chain' = [d \in Chains |-> chain'[d]] /\ chain'[c] = t
      /\ \A d \in Chains \ {c} : chain'[d] = chain[d]
  BY <1>1, <1>3
<1> QED BY <1>1, <1>2, <1>4 DEF Executes

\* The same movement, seen from a state with the same tables.
LEMMA MovesTo ==
  ASSUME NEW s, NEW r, NEW t, NEW x, NEW a, NEW b, NEW c, Moves(s, r, x, a, b, c),
         x \in Assets, t.balance = r.balance, t.loan = r.loan, t.asset = r.asset
  PROVE  Moves(s, t, x, a, b, c)
<1>1. \A y \in Assets :
        Owned(t, y) = Owned(r, y) /\ Lent(t, y) = Lent(r, y)
        /\ Supply(t, y) = Supply(r, y)
  BY SameTotals
<1> QED BY <1>1 DEF Moves

\* Transfer.
LEMMA TransferStep ==
  ASSUME Shape, NEW c \in Chains, NEW a \in Addresses, NEW to \in Addresses,
         NEW x \in Assets, NEW v \in Values, TransferTx(c, a, to, x, v)
  PROVE  Local(c, x, 0)
<1> DEFINE s == chain[c]
           r == Transfer(s, a, to, x, v)
<1>1. IsState(s) /\ v \in Nat /\ Execute(c, r) /\ r.ok /\ sent' = sent /\ now' = now
  BY WarpAssumption, Uint64Range DEF Shape, TransferTx, Execute
<1>2. /\ IsState(r) /\ Moves(s, r, x, 0, 0, 0)
      /\ r.loan = s.loan /\ r.asset = s.asset /\ r.imported = s.imported
  BY <1>1, TransferDoes
<1> HIDE DEF r
<1>3. /\ Executes(c)
      /\ chain'[c].balance = r.balance /\ chain'[c].loan = r.loan
      /\ chain'[c].asset = r.asset /\ chain'[c].imported = r.imported
  BY <1>1, <1>2, ExecuteDoes
<1>4. Moves(s, chain'[c], x, 0, 0, 0)
  BY <1>2, <1>3, MovesTo
<1>5. Inherits(s, chain'[c])
  BY <1>2, <1>3 DEF Inherits
<1>6. 0 \in Uint64
  BY AssetsAssumption, Uint64Range
<1> QED BY <1>1, <1>2, <1>3, <1>4, <1>5, <1>6 DEF Local

\* CreateAsset.
LEMMA CreateStep ==
  ASSUME Shape, NEW c \in Chains, NEW a \in Addresses, NEW x \in NewAssets,
         NEW symbol \in Created, CreateTx(c, a, x, symbol)
  PROVE  Local(c, x, 0)
<1> DEFINE s == chain[c]
           r == CreateAsset(s, a, x, symbol)
<1>1. /\ IsState(s) /\ s.ok /\ symbol \in Symbols /\ x \notin DOMAIN s.asset /\ x \in Assets
      /\ Execute(c, r) /\ r.ok /\ sent' = sent /\ now' = now
  BY WarpAssumption DEF Shape, CreateTx, Execute, Assets, Originals
<1>2. /\ IsState(r) /\ Moves(s, r, x, 0, 0, 0)
      /\ r.loan = s.loan /\ r.imported = s.imported /\ Inherits(s, r)
  BY <1>1, CreateAssetDoes
<1> HIDE DEF r
<1>3. /\ Executes(c)
      /\ chain'[c].balance = r.balance /\ chain'[c].loan = r.loan
      /\ chain'[c].asset = r.asset /\ chain'[c].imported = r.imported
  BY <1>1, <1>2, ExecuteDoes
<1>4. Moves(s, chain'[c], x, 0, 0, 0)
  BY <1>1, <1>2, <1>3, MovesTo
<1>5. Inherits(s, chain'[c])
  BY <1>2, <1>3 DEF Inherits
<1>6. 0 \in Uint64
  BY AssetsAssumption, Uint64Range
<1> QED BY <1>1, <1>2, <1>3, <1>4, <1>5, <1>6 DEF Local

\* MintAsset.
LEMMA MintStep ==
  ASSUME Shape, NEW c \in Chains, NEW a \in Addresses, NEW to \in Addresses,
         NEW x \in Assets, NEW v \in Values, MintTx(c, a, to, x, v)
  PROVE  Local(c, x, v)
<1> DEFINE s == chain[c]
           r == MintAsset(s, a, to, x, v)
<1>1. /\ IsState(s) /\ s.ok /\ v \in Nat /\ v \in Uint64
      /\ Execute(c, r) /\ r.ok /\ sent' = sent /\ now' = now
  BY WarpAssumption, Uint64Range DEF Shape, MintTx, Execute
<1>2. /\ IsState(r) /\ Moves(s, r, x, v, 0, v) /\ x \in NewAssets
      /\ r.loan = s.loan /\ r.imported = s.imported /\ Inherits(s, r)
  BY <1>1, MintAssetDoes
<1> HIDE DEF r
<1>3. /\ Executes(c)
      /\ chain'[c].balance = r.balance /\ chain'[c].loan = r.loan
      /\ chain'[c].asset = r.asset /\ chain'[c].imported = r.imported
  BY <1>1, <1>2, ExecuteDoes
<1>4. Moves(s, chain'[c], x, v, 0, v)
  BY <1>2, <1>3, MovesTo
<1>5. Inherits(s, chain'[c])
  BY <1>2, <1>3 DEF Inherits
<1> QED BY <1>1, <1>2, <1>3, <1>4, <1>5 DEF Local

\* BurnAsset.
LEMMA BurnStep ==
  ASSUME Shape, NEW c \in Chains, NEW a \in Addresses,
         NEW x \in Assets, NEW v \in Values, BurnTx(c, a, x, v)
  PROVE  Local(c, x, 0 - v)
<1> DEFINE s == chain[c]
           r == BurnAsset(s, a, x, v)
<1>1. /\ IsState(s) /\ s.ok /\ v \in Nat /\ v \in Uint64
      /\ Execute(c, r) /\ r.ok /\ sent' = sent /\ now' = now
  BY WarpAssumption, Uint64Range DEF Shape, BurnTx, Execute
<1>2. /\ IsState(r) /\ Moves(s, r, x, 0 - v, 0, 0 - v) /\ v > 0
      /\ r.loan = s.loan /\ r.imported = s.imported /\ Inherits(s, r)
  BY <1>1, BurnAssetDoes
<1> HIDE DEF r
<1>3. /\ Executes(c)
      /\ chain'[c].balance = r.balance /\ chain'[c].loan = r.loan
      /\ chain'[c].asset = r.asset /\ chain'[c].imported = r.imported
  BY <1>1, <1>2, ExecuteDoes
<1>4. Moves(s, chain'[c], x, 0 - v, 0, 0 - v)
  BY <1>2, <1>3, MovesTo
<1>5. Inherits(s, chain'[c])
  BY <1>2, <1>3 DEF Inherits
<1>6. ~ (0 - v > 0) /\ 0 - (0 - v) \in Uint64
  <2>1. 0 - (0 - v) = v
    BY <1>1
  <2> QED BY <1>1, <1>2, <2>1
<1> QED BY <1>1, <1>2, <1>3, <1>4, <1>5, <1>6 DEF Local

\* ExportAsset.
LEMMA ExportStep ==
  ASSUME Shape, NEW c \in Chains, NEW a \in Addresses, NEW e \in Exports,
         ExportTx(c, a, e)
  PROVE  Exporting(c, e)
<1> DEFINE s == chain[c]
           r == ExportAsset(s, a, e)
           t == chain'[c]
<1>1. /\ IsState(s) /\ s.ok /\ Execute(c, r) /\ r.ok /\ now' = now
      /\ e.Value > 0 /\ ValidSwapParams(e.Value, e.swap)
      /\ sent' = sent \cup {WarpTransfer(chain[c], c, e, Cardinality(sent) + 1)}
  BY DEF Shape, ExportTx, Execute
<1>2. IsState(r) /\ r.imported = s.imported /\ Departs(s, r, e)
  BY <1>1, ExportAssetDoes
<1> HIDE DEF r
<1>3. /\ Executes(c)
      /\ t.balance = r.balance /\ t.loan = r.loan
      /\ t.asset = r.asset /\ t.imported = r.imported
  BY <1>1, <1>2, ExecuteDoes
<1>4. e.Asset \in Assets
  BY FieldTypes
<1>5. \A u, v, w : Moves(s, r, e.Asset, u, v, w) => Moves(s, t, e.Asset, u, v, w)
  BY <1>3, <1>4, MovesTo
<1>6. Inherits(s, r) => Inherits(s, t)
  BY <1>3 DEF Inherits
<1>7. Departs(s, t, e)
  <2> HIDE DEF s, t
  <2>1. CASE e.Return
    BY <1>2, <1>3, <1>5, <1>6, <2>1 DEF Departs
  <2>2. CASE ~ e.Return
    BY <1>2, <1>3, <1>5, <1>6, <2>2 DEF Departs
  <2> QED BY <2>1, <2>2
<1> QED BY <1>1, <1>2, <1>3, <1>7 DEF Exporting

\* ImportAsset.
LEMMA ImportStep ==
  ASSUME Shape, NEW c \in Chains, NEW a \in Addresses, NEW m \in sent,
         NEW fill \in BOOLEAN, ImportTx(c, a, m, fill)
  PROVE  Importing(c, m)
<1> DEFINE s == chain[c]
           i == ImportAsset(s, now, a, m, fill)
           r == [i EXCEPT !.imported = @ \cup {m}]
           t == chain'[c]
<1>1. /\ IsState(s) /\ s.ok /\ Execute(c, r) /\ r.ok /\ sent' = sent /\ now' = now
      /\ m \notin s.imported /\ m.DestinationChainID = c /\ m \in WarpTransfers
  BY DEF Shape, ImportTx, Execute, Imported, WarpVerified
<1>2. i.ok
  <2>1. r.ok = i.ok
    OBVIOUS
  <2> QED BY <1>1, <2>1
<1>3. IsState(i) /\ i.imported = s.imported /\ Arrives(s, i, m)
  BY <1>1, <1>2, ImportAssetDoes
<1> HIDE DEF i
<1>4. /\ IsState(r) /\ r.balance = i.balance /\ r.loan = i.loan /\ r.asset = i.asset
      /\ r.imported = i.imported \cup {m}
  BY <1>3 DEF IsState, Typed
<1> HIDE DEF r
<1>5. /\ Executes(c)
      /\ t.balance = r.balance /\ t.loan = r.loan
      /\ t.asset = r.asset /\ t.imported = r.imported
  BY <1>1, <1>4, ExecuteDoes
<1>6. SameMoney(i, t)
  BY <1>4, <1>5, SameTotals DEF SameMoney
<1>7. Arrives(s, t, m)
  BY <1>1, <1>3, <1>4, <1>5, <1>6, ArrivesFrom
<1> QED BY <1>1, <1>3, <1>4, <1>5, <1>7 DEF Importing

\* Every step of the system is one of these.
LEMMA NextSteps ==
  ASSUME Shape, [Next]_vars
  PROVE  \/ UNCHANGED <<chain, sent>> /\ now' \in 0 .. MaxTime
         \/ \E c \in Chains, x \in Assets, v \in Int : Local(c, x, v)
         \/ \E c \in Chains, e \in Exports : Exporting(c, e)
         \/ \E c \in Chains, m \in sent : Importing(c, m)
<1> DEFINE Goal ==
             \/ UNCHANGED <<chain, sent>> /\ now' \in 0 .. MaxTime
             \/ \E c \in Chains, x \in Assets, v \in Int : Local(c, x, v)
             \/ \E c \in Chains, e \in Exports : Exporting(c, e)
             \/ \E c \in Chains, m \in sent : Importing(c, m)
<1>1. Values \subseteq Int /\ NewAssets \subseteq Assets /\ \A v \in Values : 0 - v \in Int
  BY WarpAssumption, Uint64Range DEF Assets, Originals
<1>2. CASE UNCHANGED vars
  BY <1>2 DEF vars, Shape
<1>3. CASE Tick
  BY <1>3, WarpAssumption DEF Tick, Shape
<1>4. ASSUME NEW c \in Chains, NEW a \in Addresses, NEW to \in Addresses,
             NEW x \in Assets, NEW v \in Values,
             TransferTx(c, a, to, x, v) \/ MintTx(c, a, to, x, v)
      PROVE  Goal
  BY <1>1, <1>4, TransferStep, MintStep
<1>5. ASSUME NEW c \in Chains, NEW a \in Addresses, NEW x \in Assets, NEW v \in Values,
             BurnTx(c, a, x, v)
      PROVE  Goal
  BY <1>1, <1>5, BurnStep
<1>6. ASSUME NEW c \in Chains, NEW a \in Addresses, NEW x \in NewAssets,
             NEW symbol \in Created, CreateTx(c, a, x, symbol)
      PROVE  Goal
  BY <1>1, <1>6, CreateStep
<1>7. ASSUME NEW c \in Chains, NEW a \in Addresses, NEW e \in Exports, ExportTx(c, a, e)
      PROVE  Goal
  BY <1>7, ExportStep
<1>8. ASSUME NEW c \in Chains, NEW a \in Addresses, NEW m \in sent,
             NEW fill \in BOOLEAN, ImportTx(c, a, m, fill)
      PROVE  Goal
  BY <1>8, ImportStep
<1> HIDE DEF Goal
<1>9. Goal
  BY <1>2, <1>3, <1>4, <1>5, <1>6, <1>7, <1>8 DEF Next, Goal
<1> QED BY <1>9 DEF Goal

-----------------------------------------------------------------------------
(* The inductive invariant.                                                *)

\* Who records an imported asset has it from a chain that records the asset
\* under the same symbol: ImportAsset copies the symbol of the message.
Homes ==
  \A c, d \in Chains, x \in Originals :
    ImportedAssetID(x, c) \in DOMAIN chain[d].asset =>
      /\ x \in DOMAIN chain[c].asset
      /\ chain[c].asset[x].symbol = chain[d].asset[ImportedAssetID(x, c)].symbol

\* The chain a message's asset is at home on.
HomeOf(m) == IF m.Return THEN m.DestinationChainID ELSE m.SourceChainID

\* A message is well formed, and carries the symbol its asset has at home.
MessagesHome ==
  \A m \in sent :
    /\ UnmarshalWarpTransferOk(m)
    /\ m.Asset \in DOMAIN chain[HomeOf(m)].asset
    /\ chain[HomeOf(m)].asset[m.Asset].symbol = m.symbol

Inv == Shape /\ SupplyAccounted /\ LoansCoverAbroad /\ Homes /\ MessagesHome

-----------------------------------------------------------------------------
(* Messages and what they carry.                                           *)

\* An imported asset's ID is the pair of its home's ID and the home.
LEMMA ImportedIDs ==
  /\ \A x \in Assets \ Originals :
       x[1] \in Originals /\ x[2] \in Chains /\ x = ImportedAssetID(x[1], x[2])
  /\ \A x, y \in Originals, c, d \in Chains :
       /\ ImportedAssetID(x, c) \in Assets \ Originals
       /\ ImportedAssetID(x, c) = ImportedAssetID(y, d) => x = y /\ c = d
  BY AssetsAssumption DEF Assets, ImportedAssetID

\* The message an export sends is new, and well formed.
LEMMA NewMessage ==
  ASSUME Shape, NEW c \in Chains, NEW e \in Exports, Exporting(c, e)
  PROVE  LET m == WarpTransfer(chain[c], c, e, Cardinality(sent) + 1)
         IN /\ m \in WarpTransfers /\ m \notin sent
            /\ m.Value = e.Value /\ m.Reward = e.Reward /\ m.Return = e.Return
            /\ m.SourceChainID = c /\ m.DestinationChainID = e.Destination
            /\ m.symbol = chain[c].asset[e.Asset].symbol
            /\ e.Asset \in DOMAIN chain[c].asset
            /\ e.Asset = IF e.Return THEN ImportedAssetID(m.Asset, e.Destination)
                                     ELSE m.Asset
            /\ UnmarshalWarpTransferOk(m)
            /\ m.TxID = Cardinality(sent) + 1
<1> DEFINE s == chain[c]
           n == Cardinality(sent) + 1
           m == WarpTransfer(s, c, e, n)
<1>1. /\ m.To = e.To /\ m.symbol = s.asset[e.Asset].symbol
      /\ m.Asset = IF e.Return THEN e.Asset[1] ELSE e.Asset
      /\ m.Value = e.Value /\ m.Return = e.Return /\ m.Reward = e.Reward
      /\ m.swap = e.swap /\ m.TxID = n /\ m.SourceChainID = c
      /\ m.DestinationChainID = e.Destination
      /\ m = [To |-> m.To, symbol |-> m.symbol, Asset |-> m.Asset, Value |-> m.Value,
              Return |-> m.Return, Reward |-> m.Reward, swap |-> m.swap,
              TxID |-> m.TxID, SourceChainID |-> m.SourceChainID,
              DestinationChainID |-> m.DestinationChainID]
  BY DEF WarpTransfer
<1>2. /\ e.Asset \in Assets /\ e.Destination \in Chains /\ e.Return \in BOOLEAN
      /\ e.Value \in Uint64 /\ e.Reward \in Uint64 /\ e.To \in Addresses /\ e.swap \in Swaps
      /\ e.Value \in Nat
  BY FieldTypes
<1>3. /\ IsState(s) /\ s.ok /\ Departs(s, chain'[c], e)
      /\ e.Value > 0 /\ ValidSwapParams(e.Value, e.swap)
  BY DEF Shape, Exporting
<1>4. /\ e.Asset \in DOMAIN s.asset
      /\ IF e.Return THEN e.Asset \notin Originals /\ e.Asset[2] = e.Destination
                     ELSE e.Asset \in Originals
  BY <1>2, <1>3 DEF Departs
<1>5. s.asset[e.Asset] \in AssetRecord
  BY <1>3, <1>4 DEF IsState, Typed
<1>6. s.asset[e.Asset].symbol \in Symbols
  BY <1>5 DEF AssetRecord
<1>7. Cardinality(sent) \in Nat /\ n \in Nat
  BY FS_CardinalityType DEF Shape
<1> HIDE DEF m, n, s
<1>8. /\ m.Asset \in Originals
      /\ e.Asset = IF e.Return THEN ImportedAssetID(m.Asset, e.Destination) ELSE m.Asset
  <2>1. CASE e.Return
    BY <1>1, <1>2, <1>4, <2>1, ImportedIDs
  <2>2. CASE ~ e.Return
    BY <1>1, <1>4, <2>2
  <2> QED BY <2>1, <2>2
<1>9. m.Value \in Uint64 \ {0}
  BY <1>1, <1>2, <1>3
<1>10. m \in WarpTransfers
  BY <1>1, <1>2, <1>6, <1>7, <1>8, <1>9 DEF WarpTransfers
<1>11. m \notin sent
  <2>1. \A k \in sent : k.TxID <= Cardinality(sent)
    BY DEF Shape
  <2>2. n > Cardinality(sent)
    BY <1>7 DEF n
  <2> QED BY <1>1, <1>7, <2>1, <2>2
<1>12. UnmarshalWarpTransferOk(m)
  BY <1>1, <1>3 DEF UnmarshalWarpTransferOk
<1> QED BY <1>1, <1>4, <1>8, <1>10, <1>11, <1>12 DEF m, n, s

\* What messages carry is a number.
LEMMA LoadType ==
  ASSUME NEW ms, IsFiniteSet(ms), ms \subseteq WarpTransfers
  PROVE  Load(ms) \in Nat
<1> DEFINE f == [m \in ms |-> m.Value + m.Reward]
<1>1. \A m \in ms : f[m] \in Nat
  BY FieldTypes
<1> HIDE DEF f
<1>2. SumFunctionOnSet(f, ms) \in Nat
  BY <1>1, SumNat
<1> QED BY <1>2 DEF Load, f

\* One more message.
LEMMA LoadAdd ==
  ASSUME NEW ms, IsFiniteSet(ms), ms \subseteq WarpTransfers,
         NEW m \in WarpTransfers, m \notin ms
  PROVE  Load(ms \cup {m}) = Load(ms) + (m.Value + m.Reward)
<1> DEFINE f == [k \in ms |-> k.Value + k.Reward]
           g == [k \in ms \cup {m} |-> k.Value + k.Reward]
<1>1. /\ \A k \in ms : f[k] = g[k] /\ g[k] \in Int
      /\ g[m] = m.Value + m.Reward /\ g[m] \in Int
  BY FieldTypes
<1>2. Load(ms) = SumFunctionOnSet(f, ms)
      /\ Load(ms \cup {m}) = SumFunctionOnSet(g, ms \cup {m})
  BY DEF Load
<1> HIDE DEF f, g
<1>3. SumFunctionOnSet(g, ms \cup {m}) = SumFunctionOnSet(g, ms) + g[m]
  BY <1>1, SumAdd
<1>4. SumFunctionOnSet(f, ms) = SumFunctionOnSet(g, ms)
  BY <1>1, SumSame
<1> QED BY <1>1, <1>2, <1>3, <1>4

\* One message less.
LEMMA LoadRemove ==
  ASSUME NEW ms, IsFiniteSet(ms), ms \subseteq WarpTransfers, NEW m \in ms
  PROVE  Load(ms) = Load(ms \ {m}) + (m.Value + m.Reward)
<1>1. IsFiniteSet(ms \ {m}) /\ ms \ {m} \subseteq WarpTransfers /\ m \notin ms \ {m}
      /\ (ms \ {m}) \cup {m} = ms
  BY FS_RemoveElement
<1> QED BY <1>1, LoadAdd

-----------------------------------------------------------------------------
(* What steps do to the messages under way.                                *)

\* The message m is one of those UnderWay(c, d, x, return) counts.
Carries(m, c, d, x, return) ==
  m.Asset = x /\ m.Return = return /\ m.SourceChainID = c /\ m.DestinationChainID = d

\* They are finitely many.
LEMMA UnderWayType ==
  ASSUME Shape, NEW c, NEW d, NEW x, NEW b
  PROVE  /\ IsFiniteSet(UnderWay(c, d, x, b)) /\ UnderWay(c, d, x, b) \subseteq WarpTransfers
         /\ Load(UnderWay(c, d, x, b)) \in Nat
<1>1. UnderWay(c, d, x, b) \subseteq sent /\ IsFiniteSet(sent) /\ sent \subseteq WarpTransfers
  BY DEF Shape, UnderWay, InFlight
<1>2. IsFiniteSet(UnderWay(c, d, x, b)) /\ UnderWay(c, d, x, b) \subseteq WarpTransfers
  BY <1>1, FS_Subset
<1> QED BY <1>2, LoadType

\* A chain that executes no warp action leaves them alone.
LEMMA LocalLoads ==
  ASSUME Shape, NEW k \in Chains, NEW y, NEW v, Local(k, y, v),
         NEW c, NEW d, NEW x, NEW b
  PROVE  Load(UnderWay(c, d, x, b))' = Load(UnderWay(c, d, x, b))
<1>1. \A m \in sent : m.DestinationChainID \in Chains
  BY FieldTypes DEF Shape
<1>2. \A h \in Chains : chain'[h].imported = chain[h].imported
  BY DEF Local, Executes
<1>3. InFlight' = InFlight
  BY <1>1, <1>2 DEF InFlight, Local
<1> QED BY <1>3 DEF UnderWay, Load

\* An export adds its message.
LEMMA ExportLoads ==
  ASSUME Shape, NEW k \in Chains, NEW e \in Exports, Exporting(k, e),
         NEW c, NEW d, NEW x, NEW b
  PROVE  LET m == WarpTransfer(chain[k], k, e, Cardinality(sent) + 1)
         IN Load(UnderWay(c, d, x, b))' =
              IF Carries(m, c, d, x, b)
                THEN Load(UnderWay(c, d, x, b)) + (e.Value + e.Reward)
                ELSE Load(UnderWay(c, d, x, b))
<1> DEFINE m == WarpTransfer(chain[k], k, e, Cardinality(sent) + 1)
           U == UnderWay(c, d, x, b)
<1>1. /\ m \in WarpTransfers /\ m \notin sent
      /\ m.Value = e.Value /\ m.Reward = e.Reward
  BY NewMessage
<1>2. sent' = sent \cup {m}
  BY DEF Exporting
<1> HIDE DEF m
<1>3. \A n \in sent \cup {m} : n.DestinationChainID \in Chains
  BY <1>1, FieldTypes DEF Shape
<1>4. \A h \in Chains : chain'[h].imported = chain[h].imported
  BY DEF Exporting, Executes
<1>5. \A h \in Chains : m \notin chain[h].imported
  BY <1>1 DEF Shape
<1>6. InFlight' = InFlight \cup {m}
  BY <1>2, <1>3, <1>4, <1>5 DEF InFlight
<1>7. U' = IF Carries(m, c, d, x, b) THEN U \cup {m} ELSE U
  BY <1>6 DEF UnderWay, Carries
<1>8. m \notin U /\ IsFiniteSet(U) /\ U \subseteq WarpTransfers
  <2>1. IsFiniteSet(U) /\ U \subseteq WarpTransfers
    BY UnderWayType
  <2>2. U \subseteq sent
    BY DEF UnderWay, InFlight
  <2> QED BY <1>1, <2>1, <2>2
<1> HIDE DEF U
<1>9. Load(U \cup {m}) = Load(U) + (e.Value + e.Reward)
  BY <1>1, <1>8, LoadAdd
<1>10. Load(U)' = Load(U')
  BY DEF Load
<1> QED BY <1>7, <1>9, <1>10 DEF m, U

\* An import removes its message.
LEMMA ImportLoads ==
  ASSUME Shape, NEW k \in Chains, NEW m \in sent, Importing(k, m),
         NEW c, NEW d, NEW x, NEW b
  PROVE  Load(UnderWay(c, d, x, b))' =
           IF Carries(m, c, d, x, b)
             THEN Load(UnderWay(c, d, x, b)) - (m.Value + m.Reward)
             ELSE Load(UnderWay(c, d, x, b))
<1> DEFINE U == UnderWay(c, d, x, b)
<1>1. \A n \in sent : n.DestinationChainID \in Chains
  BY FieldTypes DEF Shape
<1>2. /\ \A h \in Chains \ {k} : chain'[h].imported = chain[h].imported
      /\ chain'[k].imported = chain[k].imported \cup {m}
      /\ m.DestinationChainID = k /\ m \notin chain[k].imported /\ sent' = sent
  BY DEF Importing, Executes
<1>3. InFlight' = InFlight \ {m} /\ m \in InFlight
  BY <1>1, <1>2 DEF InFlight
<1>4. U' = U \ {m} /\ (m \in U <=> Carries(m, c, d, x, b))
  BY <1>3 DEF UnderWay, Carries
<1>5. IsFiniteSet(U) /\ U \subseteq WarpTransfers
  BY UnderWayType
<1> HIDE DEF U
<1>6. CASE m \in U
  <2>1. Load(U) = Load(U \ {m}) + (m.Value + m.Reward)
    BY <1>5, <1>6, LoadRemove
  <2>2. Load(U)' = Load(U \ {m})
    BY <1>4 DEF Load
  <2>3. IsFiniteSet(U \ {m}) /\ U \ {m} \subseteq WarpTransfers
    BY <1>5, FS_RemoveElement, FS_Subset
  <2>4. Load(U \ {m}) \in Nat /\ m.Value + m.Reward \in Nat
    BY <1>5, <1>6, <2>3, LoadType, FieldTypes
  <2>5. Load(U)' = Load(U) - (m.Value + m.Reward)
    BY <2>1, <2>2, <2>4
  <2> QED BY <1>4, <1>6, <2>5 DEF U
<1>7. CASE m \notin U
  <2>1. U' = U
    BY <1>4, <1>7
  <2>2. Load(U)' = Load(U)
    BY <2>1 DEF Load
  <2> QED BY <1>4, <1>7, <2>2 DEF U
<1> QED BY <1>6, <1>7

-----------------------------------------------------------------------------
(* Every step keeps the invariant.                                         *)

\* A state that Shape speaks of is typed.
LEMMA ShapeTyped ==
  ASSUME Shape, NEW c \in Chains
  PROVE  Typed(chain[c])
  BY DEF Shape, IsState

\* Movements of one chain that change the supply by what they add to accounts
\* and loans keep the books of the chain.
LEMMA MovesBalanced ==
  ASSUME NEW s, NEW r, Typed(s), NEW x \in Assets,
         NEW a \in Int, NEW b \in Int, NEW c \in Int, c = a + b, Moves(s, r, x, a, b, c),
         \A y \in Assets : Supply(s, y) = Owned(s, y) + Lent(s, y)
  PROVE  \A y \in Assets : Supply(r, y) = Owned(r, y) + Lent(r, y)
  BY TotalsType DEF Moves

\* Every step of a chain is such a movement.
LEMMA StepBalanced ==
  ASSUME Shape, SupplyAccounted, NEW k \in Chains, Executes(k),
         NEW x \in Assets, NEW a \in Int, NEW b \in Int, NEW c \in Int, c = a + b,
         Moves(chain[k], chain'[k], x, a, b, c)
  PROVE  SupplyAccounted'
<1>1. \A y \in Assets : Supply(chain[k], y) = Owned(chain[k], y) + Lent(chain[k], y)
  BY DEF SupplyAccounted
<1>2. \A y \in Assets : Supply(chain'[k], y) = Owned(chain'[k], y) + Lent(chain'[k], y)
  BY <1>1, ShapeTyped, MovesBalanced
<1>3. \A d \in Chains \ {k} : chain'[d] = chain[d]
  BY DEF Executes
<1>4. ASSUME NEW d \in Chains, NEW y \in Assets
      PROVE  Supply(chain'[d], y) = Owned(chain'[d], y) + Lent(chain'[d], y)
  <2>1. CASE d = k
    BY <1>2, <2>1
  <2>2. CASE d # k
    BY <1>3, <2>2 DEF SupplyAccounted
  <2> QED BY <2>1, <2>2
<1>5. \A d \in Chains, y \in Assets :
        /\ Supply(chain[d], y)' = Supply(chain'[d], y)
        /\ Owned(chain[d], y)' = Owned(chain'[d], y)
        /\ Lent(chain[d], y)' = Lent(chain'[d], y)
  BY DEF Supply, Owned, Lent
<1> QED BY <1>4, <1>5 DEF SupplyAccounted

\* The types.
LEMMA LocalShape ==
  ASSUME Shape, NEW k \in Chains, NEW x, NEW v, Local(k, x, v)
  PROVE  Shape'
<1>1. \A d \in Chains :
        IsState(chain'[d]) /\ chain'[d].ok /\ chain'[d].imported \subseteq sent
  BY DEF Shape, Local, Executes
<1>2. \A d \in Chains : IsState(chain[d])' <=> IsState(chain'[d])
  BY DEF IsState, Typed
<1> QED BY <1>1, <1>2 DEF Shape, Local, Executes

\* An import keeps the shape of the chains.
LEMMA ImportShape ==
  ASSUME Shape, NEW k \in Chains, NEW m \in sent, Importing(k, m)
  PROVE  Shape'
<1>1. \A d \in Chains :
        IsState(chain'[d]) /\ chain'[d].ok /\ chain'[d].imported \subseteq sent
  BY DEF Shape, Importing, Executes
<1>2. \A d \in Chains : IsState(chain[d])' <=> IsState(chain'[d])
  BY DEF IsState, Typed
<1> QED BY <1>1, <1>2 DEF Shape, Importing, Executes

\* An export keeps the shape of the chains, and its message is new.
LEMMA ExportShape ==
  ASSUME Shape, NEW k \in Chains, NEW e \in Exports, Exporting(k, e)
  PROVE  Shape'
<1> DEFINE m == WarpTransfer(chain[k], k, e, Cardinality(sent) + 1)
<1>1. m \in WarpTransfers /\ m \notin sent /\ m.TxID = Cardinality(sent) + 1
  BY NewMessage
<1>2. sent' = sent \cup {m} /\ now' = now
  BY DEF Exporting
<1> HIDE DEF m
<1>3. /\ IsFiniteSet(sent) /\ sent \subseteq WarpTransfers
      /\ \A n \in sent : n.TxID <= Cardinality(sent) /\ n.TxID \in Nat
  BY FieldTypes DEF Shape
<1>4. /\ IsFiniteSet(sent') /\ Cardinality(sent') = Cardinality(sent) + 1
      /\ Cardinality(sent) \in Nat
  BY <1>1, <1>2, <1>3, FS_AddElement, FS_CardinalityType
<1>5. \A n \in sent' : n.TxID <= Cardinality(sent')
  BY <1>1, <1>2, <1>3, <1>4
<1>6. \A d \in Chains :
        IsState(chain'[d]) /\ chain'[d].ok /\ chain'[d].imported \subseteq sent'
  BY <1>2 DEF Shape, Exporting, Executes
<1>7. \A d \in Chains : IsState(chain[d])' <=> IsState(chain'[d])
  BY DEF IsState, Typed
<1>8. chain' = [c \in Chains |-> chain'[c]]
  BY DEF Exporting, Executes
<1>9. now' \in 0 .. MaxTime /\ sent' \subseteq WarpTransfers
  BY <1>1, <1>2, <1>3 DEF Shape
<1> QED BY <1>4, <1>5, <1>6, <1>7, <1>8, <1>9 DEF Shape

\* The books of each chain.
LEMMA SupplyStep ==
  ASSUME Shape, SupplyAccounted, NEW k \in Chains
  PROVE  /\ \A x \in Assets, v \in Int : Local(k, x, v) => SupplyAccounted'
         /\ \A e \in Exports : Exporting(k, e) => SupplyAccounted'
         /\ \A m \in sent : Importing(k, m) => SupplyAccounted'
<1>1. ASSUME NEW x \in Assets, NEW v \in Int, Local(k, x, v) PROVE SupplyAccounted'
  <2>1. Executes(k) /\ Moves(chain[k], chain'[k], x, v, 0, v) /\ v = v + 0
    BY <1>1 DEF Local
  <2> QED BY <2>1, StepBalanced
<1>2. ASSUME NEW e \in Exports, Exporting(k, e) PROVE SupplyAccounted'
  <2> DEFINE n == e.Value + e.Reward
  <2>1. n \in Int /\ 0 - n \in Int /\ 0 = (0 - n) + n /\ 0 - n = (0 - n) + 0
        /\ e.Asset \in Assets /\ e.Return \in BOOLEAN
    BY FieldTypes
  <2>2. Executes(k) /\ Departs(chain[k], chain'[k], e)
    BY <1>2 DEF Exporting
  <2>3. CASE e.Return
    <3>1. Moves(chain[k], chain'[k], e.Asset, 0 - n, 0, 0 - n)
      BY <2>2, <2>3 DEF Departs
    <3> HIDE DEF n
    <3> QED BY <2>1, <2>2, <3>1, StepBalanced
  <2>4. CASE ~ e.Return
    <3>1. Moves(chain[k], chain'[k], e.Asset, 0 - n, n, 0)
      BY <2>2, <2>4 DEF Departs
    <3> HIDE DEF n
    <3> QED BY <2>1, <2>2, <3>1, StepBalanced
  <2> QED BY <2>3, <2>4
<1>3. ASSUME NEW m \in sent, Importing(k, m) PROVE SupplyAccounted'
  <2> DEFINE n == m.Value + m.Reward
             x == AssetIn(m)
  <2>1. n \in Int /\ 0 - n \in Int /\ 0 = n + (0 - n) /\ n = n + 0
        /\ m.Asset \in Originals /\ m.SourceChainID \in Chains
    BY FieldTypes DEF Shape
  <2>2. x \in Assets
    BY <2>1 DEF AssetIn, Assets
  <2>3. Executes(k) /\ Arrives(chain[k], chain'[k], m)
    BY <1>3 DEF Importing
  <2>4. CASE m.Return
    <3>1. Moves(chain[k], chain'[k], x, n, 0 - n, 0)
      BY <2>3, <2>4 DEF Arrives
    <3> HIDE DEF n, x
    <3> QED BY <2>1, <2>2, <2>3, <3>1, StepBalanced
  <2>5. CASE ~ m.Return
    <3>1. Moves(chain[k], chain'[k], x, n, 0, n)
      BY <2>3, <2>5 DEF Arrives
    <3> HIDE DEF n, x
    <3> QED BY <2>1, <2>2, <2>3, <3>1, StepBalanced
  <2> QED BY <2>4, <2>5
<1> QED BY <1>1, <1>2, <1>3

\* Both sides of LoansCoverAbroad are numbers.
LEMMA CoverTypes ==
  ASSUME Shape, NEW c \in Chains, NEW d \in Chains, NEW x \in Originals
  PROVE  /\ Supply(chain[d], ImportedAssetID(x, c)) \in Nat
         /\ Load(UnderWay(c, d, x, FALSE)) \in Nat /\ Load(UnderWay(d, c, x, TRUE)) \in Nat
         /\ chain[c].loan[x][d] \in Nat
<1>1. ImportedAssetID(x, c) \in Assets
  BY ImportedIDs
<1>2. Supply(chain[d], ImportedAssetID(x, c)) \in Nat
  BY <1>1, ShapeTyped, TotalsType
<1>3. chain[c].loan \in [Originals -> [Chains -> Uint64]]
  BY ShapeTyped DEF Typed
<1>4. chain[c].loan[x][d] \in Uint64
  BY <1>3
<1> QED BY <1>2, <1>4, UnderWayType, Uint64Range

\* One entry of a table of loans changes.
LEMMA LoanEntry ==
  ASSUME NEW t \in [Originals -> [Chains -> Uint64]], NEW y \in Originals, NEW h \in Chains,
         NEW n \in Int, NEW x \in Originals, NEW d \in Chains
  PROVE  [t EXCEPT ![y][h] = n][x][d] = IF x = y /\ d = h THEN n ELSE t[x][d]
  BY TableUpdate

\* Transfer, create, mint and burn: the supply of what is imported never grows.
LEMMA LocalCovers ==
  ASSUME Shape, LoansCoverAbroad, NEW k \in Chains, NEW y \in Assets, NEW v \in Int,
         Local(k, y, v), NEW c \in Chains, NEW d \in Chains, NEW x \in Originals
  PROVE  Supply(chain'[d], ImportedAssetID(x, c))
           + Load(UnderWay(c, d, x, FALSE))' + Load(UnderWay(d, c, x, TRUE))'
           <= chain'[c].loan[x][d]
<1> DEFINE z == ImportedAssetID(x, c)
           F == Load(UnderWay(c, d, x, FALSE))
           T == Load(UnderWay(d, c, x, TRUE))
<1>1. Supply(chain[d], z) + F + T <= chain[c].loan[x][d]
  BY DEF LoansCoverAbroad
<1>2. F' = F /\ T' = T
  BY LocalLoads
<1>3. chain'[c].loan = chain[c].loan
  BY DEF Local, Executes
<1>4. Supply(chain'[d], z) \in Nat /\ Supply(chain'[d], z) <= Supply(chain[d], z)
  <2>1. z \in Assets \ Originals /\ Supply(chain[d], z) \in Nat
    BY ImportedIDs, CoverTypes
  <2>2. CASE d # k
    BY <2>1, <2>2 DEF Local, Executes
  <2>3. CASE d = k
    <3>1. IsState(chain'[k]) /\ chain'[k].ok /\ Moves(chain[k], chain'[k], y, v, 0, v)
          /\ (v > 0 => y \in Originals)
      BY DEF Local, Executes, Originals
    <3>2. Supply(chain'[k], z) \in Nat
      BY <2>1, <3>1, TotalsType DEF IsState
    <3>3. CASE y = z
      BY <2>1, <2>3, <3>1, <3>2, <3>3 DEF Moves
    <3>4. CASE y # z
      BY <2>1, <2>3, <3>1, <3>2, <3>4 DEF Moves
    <3> QED BY <3>3, <3>4
  <2> QED BY <2>2, <2>3
<1>5. F \in Nat /\ T \in Nat /\ chain[c].loan[x][d] \in Nat /\ Supply(chain[d], z) \in Nat
  BY CoverTypes
<1> HIDE DEF z, F, T
<1>6. Supply(chain'[d], z) + F' + T' <= chain'[c].loan[x][d]
  BY <1>1, <1>2, <1>3, <1>4, <1>5
<1> QED BY <1>6 DEF z, F, T

\* ExportAsset: what it sends is lent, or was covered here.
LEMMA ExportCovers ==
  ASSUME Shape, LoansCoverAbroad, NEW k \in Chains, NEW e \in Exports, Exporting(k, e),
         NEW c \in Chains, NEW d \in Chains, NEW x \in Originals
  PROVE  Supply(chain'[d], ImportedAssetID(x, c))
           + Load(UnderWay(c, d, x, FALSE))' + Load(UnderWay(d, c, x, TRUE))'
           <= chain'[c].loan[x][d]
<1> DEFINE z == ImportedAssetID(x, c)
           m == WarpTransfer(chain[k], k, e, Cardinality(sent) + 1)
           F == Load(UnderWay(c, d, x, FALSE))
           T == Load(UnderWay(d, c, x, TRUE))
           n == e.Value + e.Reward
           h == e.Destination
           old == chain[c].loan[x][d]
           was == Supply(chain[d], z)
<1>1. was + F + T <= old
  BY DEF LoansCoverAbroad
<1>2. F \in Nat /\ T \in Nat /\ old \in Nat /\ was \in Nat /\ n \in Nat
      /\ e.Return \in BOOLEAN /\ h \in Chains /\ z \in Assets \ Originals
      /\ e.Asset \in Assets
  <2>1. F \in Nat /\ T \in Nat /\ old \in Nat /\ was \in Nat
    BY CoverTypes
  <2>2. n \in Nat /\ e.Return \in BOOLEAN /\ h \in Chains /\ e.Asset \in Assets
    BY FieldTypes
  <2>3. z \in Assets \ Originals
    BY ImportedIDs
  <2> QED BY <2>1, <2>2, <2>3
<1>3. /\ F' = IF Carries(m, c, d, x, FALSE) THEN F + n ELSE F
      /\ T' = IF Carries(m, d, c, x, TRUE) THEN T + n ELSE T
  <2>1. F' = IF Carries(m, c, d, x, FALSE) THEN F + n ELSE F
    <3>1. \A b : Load(UnderWay(c, d, x, b))' =
                  IF Carries(m, c, d, x, b)
                    THEN Load(UnderWay(c, d, x, b)) + n
                    ELSE Load(UnderWay(c, d, x, b))
      BY ExportLoads
    <3> QED BY <3>1, Zenon
  <2>2. T' = IF Carries(m, d, c, x, TRUE) THEN T + n ELSE T
    <3>1. \A b : Load(UnderWay(d, c, x, b))' =
                  IF Carries(m, d, c, x, b)
                    THEN Load(UnderWay(d, c, x, b)) + n
                    ELSE Load(UnderWay(d, c, x, b))
      BY ExportLoads
    <3> QED BY <3>1, Zenon
  <2> QED BY <2>1, <2>2
<1>4. /\ m.Return = e.Return /\ m.SourceChainID = k /\ m.DestinationChainID = h
      /\ e.Asset = IF e.Return THEN ImportedAssetID(m.Asset, h) ELSE m.Asset
      /\ m.Asset \in Originals
  BY NewMessage, FieldTypes
<1>5. /\ Executes(k) /\ Departs(chain[k], chain'[k], e)
      /\ \A i \in Chains \ {k} : chain'[i] = chain[i]
  BY DEF Exporting, Executes
<1> HIDE DEF m, F, T, n
<1>6. CASE e.Return
  <2>1. /\ chain'[k].loan = chain[k].loan
        /\ Moves(chain[k], chain'[k], e.Asset, 0 - n, 0, 0 - n)
    BY <1>5, <1>6 DEF Departs, n
  <2>2. chain'[c].loan[x][d] = old
    BY <1>5, <2>1
  <2>3. F' = F
    BY <1>3, <1>4, <1>6 DEF Carries
  <2>4. e.Asset = z <=> m.Asset = x /\ h = c
    BY <1>4, <1>6, ImportedIDs, <1>2
  <2>5. CASE d = k /\ e.Asset = z
    <3>1. Supply(chain'[d], z) = was + (0 - n)
      BY <2>1, <2>5 DEF Moves
    <3>2. T' = T + n
      BY <1>3, <1>4, <1>6, <2>4, <2>5 DEF Carries
    <3> HIDE DEF was, old
    <3>3. Supply(chain'[d], z) + F' + T' <= chain'[c].loan[x][d]
      BY <1>1, <1>2, <2>2, <2>3, <3>1, <3>2
    <3> QED BY <3>3 DEF z, F, T
  <2>6. CASE ~ (d = k /\ e.Asset = z)
    <3>1. Supply(chain'[d], z) = was
      BY <1>2, <1>5, <2>1, <2>6 DEF Moves
    <3>2. T' = T
      BY <1>3, <1>4, <2>4, <2>6 DEF Carries
    <3> HIDE DEF was, old
    <3>3. Supply(chain'[d], z) + F' + T' <= chain'[c].loan[x][d]
      BY <1>1, <1>2, <2>2, <2>3, <3>1, <3>2
    <3> QED BY <3>3 DEF z, F, T
  <2> QED BY <2>5, <2>6
<1>7. CASE ~ e.Return
  <2>1. /\ chain'[k].loan = [chain[k].loan EXCEPT ![e.Asset][h] = chain[k].loan[e.Asset][h] + n]
        /\ Moves(chain[k], chain'[k], e.Asset, 0 - n, n, 0)
        /\ e.Asset \in Originals /\ e.Asset = m.Asset
    BY <1>4, <1>5, <1>7 DEF Departs, n
  <2>2. Supply(chain'[d], z) = was
    BY <1>2, <1>5, <2>1 DEF Moves
  <2>3. T' = T
    BY <1>3, <1>4, <1>7 DEF Carries
  <2>4. chain[k].loan \in [Originals -> [Chains -> Uint64]]
    BY ShapeTyped DEF Typed
  <2>5. chain[k].loan[e.Asset][h] + n \in Int
    <3>1. chain[k].loan[e.Asset][h] \in Uint64
      BY <1>2, <2>1, <2>4
    <3>2. chain[k].loan[e.Asset][h] \in Nat
      BY <3>1, Uint64Range
    <3> QED BY <1>2, <3>2
  <2>6. chain'[k].loan[x][d] =
          IF x = e.Asset /\ d = h THEN chain[k].loan[e.Asset][h] + n ELSE chain[k].loan[x][d]
    BY <1>2, <2>1, <2>4, <2>5, LoanEntry
  <2>7. CASE c = k /\ x = e.Asset /\ d = h
    <3>1. chain'[c].loan[x][d] = old + n
      BY <2>6, <2>7
    <3>2. F' = F + n
      BY <1>3, <1>4, <1>7, <2>1, <2>7 DEF Carries
    <3> HIDE DEF was, old
    <3>3. Supply(chain'[d], z) + F' + T' <= chain'[c].loan[x][d]
      BY <1>1, <1>2, <2>2, <2>3, <3>1, <3>2
    <3> QED BY <3>3 DEF z, F, T
  <2>8. CASE ~ (c = k /\ x = e.Asset /\ d = h)
    <3>1. chain'[c].loan[x][d] = old
      BY <1>5, <2>6, <2>8
    <3>2. F' = F
      BY <1>3, <1>4, <2>1, <2>8 DEF Carries
    <3> HIDE DEF was, old
    <3>3. Supply(chain'[d], z) + F' + T' <= chain'[c].loan[x][d]
      BY <1>1, <1>2, <2>2, <2>3, <3>1, <3>2
    <3> QED BY <3>3 DEF z, F, T
  <2> QED BY <2>7, <2>8
<1> QED BY <1>2, <1>6, <1>7

\* ImportAsset: what it makes, or pays out of a loan, was under way.
LEMMA ImportCovers ==
  ASSUME Shape, LoansCoverAbroad, NEW k \in Chains, NEW m \in sent, Importing(k, m),
         NEW c \in Chains, NEW d \in Chains, NEW x \in Originals
  PROVE  Supply(chain'[d], ImportedAssetID(x, c))
           + Load(UnderWay(c, d, x, FALSE))' + Load(UnderWay(d, c, x, TRUE))'
           <= chain'[c].loan[x][d]
<1> DEFINE z == ImportedAssetID(x, c)
           F == Load(UnderWay(c, d, x, FALSE))
           T == Load(UnderWay(d, c, x, TRUE))
           n == m.Value + m.Reward
           h == m.SourceChainID
           old == chain[c].loan[x][d]
           was == Supply(chain[d], z)
<1>1. was + F + T <= old
  BY DEF LoansCoverAbroad
<1>2. F \in Nat /\ T \in Nat /\ old \in Nat /\ was \in Nat /\ n \in Nat
      /\ m.Return \in BOOLEAN /\ h \in Chains /\ z \in Assets \ Originals
      /\ m.Asset \in Originals
  <2>1. F \in Nat /\ T \in Nat /\ old \in Nat /\ was \in Nat
    BY CoverTypes
  <2>2. n \in Nat /\ m.Return \in BOOLEAN /\ h \in Chains /\ m.Asset \in Originals
    BY FieldTypes DEF Shape
  <2>3. z \in Assets \ Originals
    BY ImportedIDs
  <2> QED BY <2>1, <2>2, <2>3
<1>3. /\ F' = IF Carries(m, c, d, x, FALSE) THEN F - n ELSE F
      /\ T' = IF Carries(m, d, c, x, TRUE) THEN T - n ELSE T
  <2>1. F' = IF Carries(m, c, d, x, FALSE) THEN F - n ELSE F
    <3>1. \A b : Load(UnderWay(c, d, x, b))' =
                  IF Carries(m, c, d, x, b)
                    THEN Load(UnderWay(c, d, x, b)) - n
                    ELSE Load(UnderWay(c, d, x, b))
      BY ImportLoads
    <3> QED BY <3>1, Zenon
  <2>2. T' = IF Carries(m, d, c, x, TRUE) THEN T - n ELSE T
    <3>1. \A b : Load(UnderWay(d, c, x, b))' =
                  IF Carries(m, d, c, x, b)
                    THEN Load(UnderWay(d, c, x, b)) - n
                    ELSE Load(UnderWay(d, c, x, b))
      BY ImportLoads
    <3> QED BY <3>1, Zenon
  <2> QED BY <2>1, <2>2
<1>4. /\ Executes(k) /\ Arrives(chain[k], chain'[k], m) /\ m.DestinationChainID = k
      /\ \A i \in Chains \ {k} : chain'[i] = chain[i]
  BY DEF Importing, Executes
<1> HIDE DEF F, T, n
<1>5. CASE m.Return
  <2>1. /\ chain'[k].loan = [chain[k].loan EXCEPT ![m.Asset][h] = chain[k].loan[m.Asset][h] - n]
        /\ Moves(chain[k], chain'[k], m.Asset, n, 0 - n, 0)
    BY <1>4, <1>5 DEF Arrives, AssetIn, n
  <2>2. Supply(chain'[d], z) = was
    BY <1>2, <1>4, <2>1 DEF Moves
  <2>3. F' = F
    BY <1>3, <1>5 DEF Carries
  <2>4. chain[k].loan \in [Originals -> [Chains -> Uint64]]
    BY ShapeTyped DEF Typed
  <2>5. chain[k].loan[m.Asset][h] - n \in Int
    <3>1. chain[k].loan[m.Asset][h] \in Uint64
      BY <1>2, <2>1, <2>4
    <3>2. chain[k].loan[m.Asset][h] \in Nat
      BY <3>1, Uint64Range
    <3> QED BY <1>2, <3>2
  <2>6. chain'[k].loan[x][d] =
          IF x = m.Asset /\ d = h THEN chain[k].loan[m.Asset][h] - n ELSE chain[k].loan[x][d]
    BY <1>2, <2>1, <2>4, <2>5, LoanEntry
  <2>7. CASE c = k /\ x = m.Asset /\ d = h
    <3>1. chain'[c].loan[x][d] = old - n
      BY <2>6, <2>7
    <3>2. T' = T - n
      BY <1>3, <1>4, <1>5, <2>7 DEF Carries
    <3> HIDE DEF was, old
    <3>3. Supply(chain'[d], z) + F' + T' <= chain'[c].loan[x][d]
      BY <1>1, <1>2, <2>2, <2>3, <3>1, <3>2
    <3> QED BY <3>3 DEF z, F, T
  <2>8. CASE ~ (c = k /\ x = m.Asset /\ d = h)
    <3>1. chain'[c].loan[x][d] = old
      BY <1>4, <2>6, <2>8
    <3>2. T' = T
      BY <1>3, <1>4, <2>8 DEF Carries
    <3> HIDE DEF was, old
    <3>3. Supply(chain'[d], z) + F' + T' <= chain'[c].loan[x][d]
      BY <1>1, <1>2, <2>2, <2>3, <3>1, <3>2
    <3> QED BY <3>3 DEF z, F, T
  <2> QED BY <2>7, <2>8
<1>6. CASE ~ m.Return
  <2> DEFINE y == ImportedAssetID(m.Asset, h)
  <2>1. chain'[k].loan = chain[k].loan /\ Moves(chain[k], chain'[k], y, n, 0, n)
    BY <1>4, <1>6 DEF Arrives, AssetIn, n
  <2>2. chain'[c].loan[x][d] = old
    BY <1>4, <2>1
  <2>3. T' = T
    BY <1>3, <1>6 DEF Carries
  <2>4. y = z <=> m.Asset = x /\ h = c
    BY <1>2, ImportedIDs
  <2>5. CASE d = k /\ y = z
    <3>1. Supply(chain'[d], z) = was + n
      BY <2>1, <2>5 DEF Moves
    <3>2. F' = F - n
      BY <1>3, <1>4, <1>6, <2>4, <2>5 DEF Carries
    <3> HIDE DEF was, old
    <3>3. Supply(chain'[d], z) + F' + T' <= chain'[c].loan[x][d]
      BY <1>1, <1>2, <2>2, <2>3, <3>1, <3>2
    <3> QED BY <3>3 DEF z, F, T
  <2>6. CASE ~ (d = k /\ y = z)
    <3>1. Supply(chain'[d], z) = was
      BY <1>2, <1>4, <2>1, <2>6 DEF Moves
    <3>2. F' = F
      BY <1>3, <1>4, <2>4, <2>6 DEF Carries
    <3> HIDE DEF was, old
    <3>3. Supply(chain'[d], z) + F' + T' <= chain'[c].loan[x][d]
      BY <1>1, <1>2, <2>2, <2>3, <3>1, <3>2
    <3> QED BY <3>3 DEF z, F, T
  <2> QED BY <2>5, <2>6
<1> QED BY <1>2, <1>5, <1>6

\* Chains keep the records of their own assets.
HomesKept ==
  \A c \in Chains : \A x \in Originals \cap DOMAIN chain[c].asset :
    x \in DOMAIN chain'[c].asset /\ chain'[c].asset[x].symbol = chain[c].asset[x].symbol

\* A step that inherits its records.
LEMMA InheritsHomes ==
  ASSUME Shape, Homes, NEW k \in Chains, Executes(k), Inherits(chain[k], chain'[k])
  PROVE  HomesKept /\ Homes'
<1>1. HomesKept
  BY DEF HomesKept, Executes, Inherits
<1>2. ASSUME NEW c \in Chains, NEW d \in Chains, NEW x \in Originals,
             ImportedAssetID(x, c) \in DOMAIN chain'[d].asset
      PROVE  /\ x \in DOMAIN chain'[c].asset
             /\ chain'[c].asset[x].symbol = chain'[d].asset[ImportedAssetID(x, c)].symbol
  <2> DEFINE z == ImportedAssetID(x, c)
  <2>1. z \notin Originals
    BY ImportedIDs
  <2>2. z \in DOMAIN chain[d].asset /\ chain'[d].asset[z].symbol = chain[d].asset[z].symbol
    BY <1>2, <2>1 DEF Executes, Inherits
  <2>3. x \in DOMAIN chain[c].asset /\ chain[c].asset[x].symbol = chain[d].asset[z].symbol
    BY <2>2 DEF Homes
  <2> QED BY <1>1, <2>2, <2>3 DEF HomesKept
<1> QED BY <1>1, <1>2 DEF Homes

\* The messages that were sent keep their homes.
LEMMA MessagesKept ==
  ASSUME Shape, MessagesHome, HomesKept, NEW m \in sent
  PROVE  /\ UnmarshalWarpTransferOk(m)
         /\ m.Asset \in DOMAIN chain'[HomeOf(m)].asset
         /\ chain'[HomeOf(m)].asset[m.Asset].symbol = m.symbol
<1>1. HomeOf(m) \in Chains /\ m.Asset \in Originals
  BY FieldTypes DEF Shape, HomeOf
<1> QED BY <1>1 DEF MessagesHome, HomesKept

\* A transaction that stays on its chain leaves every imported asset with the
\* symbol of its original.
LEMMA LocalHomes ==
  ASSUME Shape, Homes, MessagesHome, NEW k \in Chains, NEW x, NEW v, Local(k, x, v)
  PROVE  Homes' /\ MessagesHome'
<1>1. HomesKept /\ Homes'
  BY InheritsHomes DEF Local
<1>2. sent' = sent
  BY DEF Local
<1> QED BY <1>1, <1>2, MessagesKept DEF MessagesHome, HomeOf, UnmarshalWarpTransferOk

\* An export sends the symbol of the original along.
LEMMA ExportHomes ==
  ASSUME Shape, Homes, MessagesHome, NEW k \in Chains, NEW e \in Exports, Exporting(k, e)
  PROVE  Homes' /\ MessagesHome'
<1> DEFINE m == WarpTransfer(chain[k], k, e, Cardinality(sent) + 1)
<1>1. /\ m \in WarpTransfers /\ UnmarshalWarpTransferOk(m)
      /\ m.Return = e.Return /\ m.SourceChainID = k /\ m.DestinationChainID = e.Destination
      /\ m.symbol = chain[k].asset[e.Asset].symbol
      /\ e.Asset \in DOMAIN chain[k].asset
      /\ e.Asset = IF e.Return THEN ImportedAssetID(m.Asset, e.Destination) ELSE m.Asset
  BY NewMessage
<1>2. /\ sent' = sent \cup {m} /\ Executes(k) /\ Departs(chain[k], chain'[k], e)
      /\ e.Return \in BOOLEAN
  BY FieldTypes DEF Exporting
<1> HIDE DEF m
<1>3. Inherits(chain[k], chain'[k])
  <2>1. CASE e.Return
    BY <1>2, <2>1 DEF Departs
  <2>2. CASE ~ e.Return
    <3>1. chain'[k].asset = chain[k].asset
      BY <1>2, <2>2 DEF Departs
    <3> QED BY <3>1 DEF Inherits
  <2> QED BY <1>2, <2>1, <2>2
<1>4. HomesKept /\ Homes'
  BY <1>2, <1>3, InheritsHomes
<1>5. m.Asset \in Originals /\ m.DestinationChainID \in Chains
  BY <1>1, FieldTypes
<1>6. /\ m.Asset \in DOMAIN chain[HomeOf(m)].asset
      /\ chain[HomeOf(m)].asset[m.Asset].symbol = m.symbol /\ HomeOf(m) \in Chains
  <2>1. CASE e.Return
    <3>1. HomeOf(m) = e.Destination
      BY <1>1, <2>1 DEF HomeOf
    <3>2. ImportedAssetID(m.Asset, e.Destination) \in DOMAIN chain[k].asset
      BY <1>1, <2>1
    <3>3. /\ m.Asset \in DOMAIN chain[e.Destination].asset
          /\ chain[e.Destination].asset[m.Asset].symbol =
               chain[k].asset[ImportedAssetID(m.Asset, e.Destination)].symbol
      BY <1>1, <1>5, <3>2 DEF Homes
    <3> QED BY <1>1, <1>5, <2>1, <3>1, <3>3
  <2>2. CASE ~ e.Return
    BY <1>1, <2>2 DEF HomeOf
  <2> QED BY <1>2, <2>1, <2>2
<1>7. /\ m.Asset \in DOMAIN chain'[HomeOf(m)].asset
      /\ chain'[HomeOf(m)].asset[m.Asset].symbol = m.symbol
  BY <1>4, <1>5, <1>6 DEF HomesKept
<1>8. \A n \in sent' :
        /\ UnmarshalWarpTransferOk(n)
        /\ n.Asset \in DOMAIN chain'[HomeOf(n)].asset
        /\ chain'[HomeOf(n)].asset[n.Asset].symbol = n.symbol
  BY <1>1, <1>2, <1>4, <1>7, MessagesKept
<1> QED BY <1>4, <1>8 DEF MessagesHome, HomeOf, UnmarshalWarpTransferOk

\* An import records an asset under the symbol of its original.
LEMMA ImportHomes ==
  ASSUME Shape, Homes, MessagesHome, NEW k \in Chains, NEW m \in sent, Importing(k, m)
  PROVE  Homes' /\ MessagesHome'
<1> DEFINE y == AssetIn(m)
           s == chain[k]
           t == chain'[k]
<1>1. /\ Executes(k) /\ Arrives(s, t, m) /\ sent' = sent
      /\ m.Asset \in Originals /\ m.SourceChainID \in Chains /\ m.Return \in BOOLEAN
  BY FieldTypes DEF Importing, Shape
<1>2. HomesKept /\ Homes'
  <2>1. CASE m.Return
    <3>1. t.asset = s.asset
      BY <1>1, <2>1 DEF Arrives
    <3>2. Inherits(s, t)
      BY <3>1 DEF Inherits
    <3> QED BY <1>1, <3>2, InheritsHomes
  <2>2. CASE ~ m.Return
    <3>1. y = ImportedAssetID(m.Asset, m.SourceChainID) /\ y \notin Originals
      BY <1>1, <2>2, ImportedIDs DEF AssetIn
    <3>2. /\ DOMAIN t.asset = DOMAIN s.asset \cup {y}
          /\ t.asset[y].symbol = MintSymbol(s, m)
          /\ \A z \in DOMAIN s.asset \ {y} : t.asset[z] = s.asset[z]
      BY <1>1, <2>2 DEF Arrives
    <3>3. HomesKept
      BY <1>1, <3>1, <3>2 DEF HomesKept, Executes
    <3>4. /\ m.Asset \in DOMAIN chain[m.SourceChainID].asset
          /\ chain[m.SourceChainID].asset[m.Asset].symbol = m.symbol
      BY <2>2 DEF MessagesHome, HomeOf
    <3>5. chain[m.SourceChainID].asset[m.Asset].symbol = MintSymbol(s, m)
      BY <1>1, <3>1, <3>4 DEF MintSymbol, Homes
    <3>6. ASSUME NEW c \in Chains, NEW d \in Chains, NEW x \in Originals,
                 ImportedAssetID(x, c) \in DOMAIN chain'[d].asset
          PROVE  /\ x \in DOMAIN chain[c].asset
                 /\ chain[c].asset[x].symbol = chain'[d].asset[ImportedAssetID(x, c)].symbol
      <4>1. CASE d = k /\ ImportedAssetID(x, c) = y
        <5>1. x = m.Asset /\ c = m.SourceChainID
          BY <1>1, <3>1, <4>1, ImportedIDs
        <5> QED BY <3>2, <3>4, <3>5, <4>1, <5>1
      <4>2. CASE ~ (d = k /\ ImportedAssetID(x, c) = y)
        <5>1. /\ ImportedAssetID(x, c) \in DOMAIN chain[d].asset
              /\ chain'[d].asset[ImportedAssetID(x, c)] = chain[d].asset[ImportedAssetID(x, c)]
          BY <1>1, <3>2, <3>6, <4>2 DEF Executes
        <5> QED BY <5>1 DEF Homes
      <4> QED BY <4>1, <4>2
    <3>7. Homes'
      BY <3>3, <3>6 DEF Homes, HomesKept
    <3> QED BY <3>3, <3>7
  <2> QED BY <1>1, <2>1, <2>2
<1> QED BY <1>1, <1>2, MessagesKept DEF MessagesHome, HomeOf, UnmarshalWarpTransferOk

-----------------------------------------------------------------------------
(* The theorems.                                                           *)

\* A chain after Genesis.Load has a state of the right types.
LEMMA GenesisState ==
  ASSUME NEW c \in Chains
  PROVE  IsState(Genesis(c)) /\ Genesis(c).ok /\ Genesis(c).imported = {}
<1> DEFINE total == SumFunctionOnSet(GenesisBalance[c], Addresses)
           b == [a \in Addresses |-> [x \in Assets |->
                  IF x = Native THEN GenesisBalance[c][a] ELSE 0]]
           l == [x \in Originals |-> [d \in Chains |-> 0]]
           rec == [symbol |-> NativeSymbol, owner |-> EmptyAddress, warp |-> FALSE,
                   supply |-> total]
           r == [x \in {Native} |-> rec]
<1>1. Genesis(c) = [balance |-> b, asset |-> r, loan |-> l, imported |-> {},
                    ok |-> TRUE, keys |-> {}]
  BY DEF Genesis
<1>2. 0 \in Uint64 /\ total \in Uint64 /\ GenesisBalance[c] \in [Addresses -> Uint64]
      /\ NativeSymbol \in Symbols
  BY WarpAssumption, AssetsAssumption, Uint64Range
<1> HIDE DEF total
<1>3. b \in [Addresses -> [Assets -> Uint64]]
  BY <1>2
<1>4. l \in [Originals -> [Chains -> Uint64]]
  BY <1>2
<1>5. rec \in AssetRecord /\ rec.warp = FALSE
  BY <1>2 DEF AssetRecord
<1> HIDE DEF b, l, rec
<1>6. /\ DOMAIN r \subseteq Assets /\ r = [x \in DOMAIN r |-> r[x]]
      /\ \A x \in DOMAIN r : r[x] \in AssetRecord /\ (r[x].warp <=> x \notin Originals)
  BY <1>5 DEF Assets, Originals
<1> HIDE DEF r
<1> QED BY <1>1, <1>3, <1>4, <1>6 DEF IsState, Typed

\* Its only asset is the native one, all of which is owned.
LEMMA GenesisTotals ==
  ASSUME NEW c \in Chains, NEW x \in Assets
  PROVE  /\ Supply(Genesis(c), x) = Owned(Genesis(c), x)
         /\ Lent(Genesis(c), x) = 0
         /\ x # Native => Supply(Genesis(c), x) = 0
<1> DEFINE f == [a \in Addresses |-> Genesis(c).balance[a][x]]
           g == [d \in Chains |-> 0]
<1>1. IsFiniteSet(Addresses) /\ IsFiniteSet(Chains)
  BY WarpAssumption
<1>2. \A a \in Addresses : f[a] = IF x = Native THEN GenesisBalance[c][a] ELSE 0
  BY DEF Genesis
<1>3. /\ DOMAIN Genesis(c).asset = {Native}
      /\ Genesis(c).asset[Native].supply = SumFunctionOnSet(GenesisBalance[c], Addresses)
      /\ x \in Originals => Genesis(c).loan[x] = g
  BY DEF Genesis
<1>4. Lent(Genesis(c), x) = 0
  <2>1. \A d \in Chains : g[d] = 0
    OBVIOUS
  <2> HIDE DEF g
  <2>2. SumFunctionOnSet(g, Chains) = 0
    BY <1>1, <2>1, SumZero
  <2> QED BY <1>3, <2>2 DEF Lent
<1>5. Owned(Genesis(c), x) = SumFunctionOnSet(f, Addresses)
  BY DEF Owned
<1> HIDE DEF f
<1>6. CASE x = Native
  <2>1. SumFunctionOnSet(f, Addresses) = SumFunctionOnSet(GenesisBalance[c], Addresses)
    BY <1>1, <1>2, <1>6, SumSame
  <2> QED BY <1>3, <1>4, <1>5, <1>6, <2>1 DEF Supply
<1>7. CASE x # Native
  <2>1. SumFunctionOnSet(f, Addresses) = 0
    BY <1>1, <1>2, <1>7, SumZero
  <2> QED BY <1>3, <1>4, <1>5, <1>7, <2>1 DEF Supply
<1> QED BY <1>6, <1>7

\* The invariant holds at genesis.
LEMMA InitInv ==
  ASSUME Init
  PROVE  Inv
<1>1. /\ chain = [c \in Chains |-> Genesis(c)] /\ sent = {} /\ now = 0
      /\ \A c \in Chains : chain[c] = Genesis(c)
  BY DEF Init
<1>2. Shape
  BY <1>1, GenesisState, WarpAssumption, FS_EmptySet DEF Shape
<1>3. SupplyAccounted
  <2>1. ASSUME NEW c \in Chains, NEW x \in Assets
        PROVE  Supply(chain[c], x) = Owned(chain[c], x) + Lent(chain[c], x)
    <3>1. Supply(chain[c], x) = Owned(chain[c], x) /\ Lent(chain[c], x) = 0
      BY <1>1, GenesisTotals
    <3>2. Owned(chain[c], x) \in Nat
      BY <1>2, ShapeTyped, TotalsType
    <3> QED BY <3>1, <3>2
  <2> QED BY <2>1 DEF SupplyAccounted
<1>4. LoansCoverAbroad
  <2>1. ASSUME NEW c \in Chains, NEW d \in Chains, NEW x \in Originals
        PROVE  /\ Supply(chain[d], ImportedAssetID(x, c)) = 0
               /\ Load(UnderWay(c, d, x, FALSE)) = 0 /\ Load(UnderWay(d, c, x, TRUE)) = 0
               /\ chain[c].loan[x][d] = 0
    <3>1. ImportedAssetID(x, c) \in Assets /\ ImportedAssetID(x, c) # Native
      BY ImportedIDs DEF Originals
    <3>2. Supply(chain[d], ImportedAssetID(x, c)) = 0
      BY <1>1, <3>1, GenesisTotals
    <3>3. UnderWay(c, d, x, FALSE) = {} /\ UnderWay(d, c, x, TRUE) = {}
      BY <1>1 DEF UnderWay, InFlight
    <3>4. Load({}) = 0
      BY SumEmpty DEF Load
    <3>5. chain[c].loan[x][d] = 0
      BY <1>1 DEF Genesis
    <3> QED BY <3>2, <3>3, <3>4, <3>5
  <2>2. ASSUME NEW c \in Chains, NEW d \in Chains, NEW x \in Originals
        PROVE  Supply(chain[d], ImportedAssetID(x, c))
                 + Load(UnderWay(c, d, x, FALSE)) + Load(UnderWay(d, c, x, TRUE))
                 <= chain[c].loan[x][d]
    <3> DEFINE S == Supply(chain[d], ImportedAssetID(x, c))
               F == Load(UnderWay(c, d, x, FALSE))
               T == Load(UnderWay(d, c, x, TRUE))
    <3>1. S = 0 /\ F = 0 /\ T = 0 /\ chain[c].loan[x][d] = 0
      BY <2>1
    <3> HIDE DEF S, F, T
    <3>2. S + F + T <= chain[c].loan[x][d]
      BY <3>1
    <3> QED BY <3>2 DEF S, F, T
  <2> QED BY <2>2 DEF LoansCoverAbroad
<1>5. Homes
  <2>1. \A d \in Chains : DOMAIN chain[d].asset = {Native}
    BY <1>1 DEF Genesis
  <2>2. \A c \in Chains, x \in Originals : ImportedAssetID(x, c) # Native
    BY ImportedIDs DEF Originals
  <2> QED BY <2>1, <2>2 DEF Homes
<1>6. MessagesHome
  BY <1>1 DEF MessagesHome
<1> QED BY <1>2, <1>3, <1>4, <1>5, <1>6 DEF Inv

\* Every step keeps it.
LEMMA NextInv ==
  ASSUME Inv, [Next]_vars
  PROVE  Inv'
<1>1. Shape /\ SupplyAccounted /\ LoansCoverAbroad /\ Homes /\ MessagesHome
  BY DEF Inv
<1>2. CASE UNCHANGED <<chain, sent>> /\ now' \in 0 .. MaxTime
  <2>1. Shape'
    BY <1>1, <1>2 DEF Shape, IsState, Typed
  <2>2. SupplyAccounted'
    <3>1. \A c \in Chains, x \in Assets :
            /\ Supply(chain[c], x)' = Supply(chain[c], x)
            /\ Owned(chain[c], x)' = Owned(chain[c], x)
            /\ Lent(chain[c], x)' = Lent(chain[c], x)
      BY <1>2 DEF Supply, Owned, Lent
    <3> QED BY <1>1, <3>1 DEF SupplyAccounted
  <2>4. LoansCoverAbroad'
    <3>1. \A c, d \in Chains, x \in Originals :
            Supply(chain[d], ImportedAssetID(x, c))' = Supply(chain[d], ImportedAssetID(x, c))
      BY <1>2 DEF Supply
    <3>2. InFlight' = InFlight
      BY <1>2 DEF InFlight
    <3>3. \A c, d, x : /\ Load(UnderWay(c, d, x, FALSE))' = Load(UnderWay(c, d, x, FALSE))
                        /\ Load(UnderWay(d, c, x, TRUE))' = Load(UnderWay(d, c, x, TRUE))
      BY <3>2 DEF UnderWay, Load
    <3>4. \A c, d \in Chains, x \in Originals : chain'[c].loan[x][d] = chain[c].loan[x][d]
      BY <1>2
    <3>5. ASSUME NEW c \in Chains, NEW d \in Chains, NEW x \in Originals
          PROVE  (Supply(chain[d], ImportedAssetID(x, c))
                    + Load(UnderWay(c, d, x, FALSE)) + Load(UnderWay(d, c, x, TRUE))
                    <= chain[c].loan[x][d])'
      <4> DEFINE S == Supply(chain[d], ImportedAssetID(x, c))
                 F == Load(UnderWay(c, d, x, FALSE))
                 T == Load(UnderWay(d, c, x, TRUE))
      <4>1. S + F + T <= chain[c].loan[x][d]
        BY <1>1 DEF LoansCoverAbroad
      <4>2. S' = S /\ F' = F /\ T' = T /\ chain'[c].loan[x][d] = chain[c].loan[x][d]
        BY <3>1, <3>3, <3>4
      <4> HIDE DEF S, F, T
      <4>3. (S + F + T <= chain[c].loan[x][d])'
        BY <4>1, <4>2
      <4> QED BY <4>3 DEF S, F, T
    <3> QED BY <3>5 DEF LoansCoverAbroad
  <2>3. Homes' /\ MessagesHome'
    BY <1>1, <1>2 DEF Homes, MessagesHome, HomeOf
  <2> QED BY <2>1, <2>2, <2>3, <2>4 DEF Inv
<1>3. ASSUME NEW k \in Chains, NEW x \in Assets, NEW v \in Int, Local(k, x, v) PROVE Inv'
  <2>1. Shape' /\ SupplyAccounted' /\ Homes' /\ MessagesHome'
    BY <1>1, <1>3, LocalShape, SupplyStep, LocalHomes
  <2>2. LoansCoverAbroad'
    BY <1>1, <1>3, LocalCovers DEF LoansCoverAbroad, Supply
  <2> QED BY <2>1, <2>2 DEF Inv
<1>4. ASSUME NEW k \in Chains, NEW e \in Exports, Exporting(k, e) PROVE Inv'
  <2>1. Shape' /\ SupplyAccounted' /\ Homes' /\ MessagesHome'
    BY <1>1, <1>4, ExportShape, SupplyStep, ExportHomes
  <2>2. LoansCoverAbroad'
    BY <1>1, <1>4, ExportCovers DEF LoansCoverAbroad, Supply
  <2> QED BY <2>1, <2>2 DEF Inv
<1>5. ASSUME NEW k \in Chains, NEW m \in sent, Importing(k, m) PROVE Inv'
  <2>1. Shape' /\ SupplyAccounted' /\ Homes' /\ MessagesHome'
    BY <1>1, <1>5, ImportShape, SupplyStep, ImportHomes
  <2>2. LoansCoverAbroad'
    BY <1>1, <1>5, ImportCovers DEF LoansCoverAbroad, Supply
  <2> QED BY <2>1, <2>2 DEF Inv
<1> QED BY <1>1, <1>2, <1>3, <1>4, <1>5, NextSteps

\* Inv is an invariant of the chains: what the theorems below rest on.
THEOREM InvHolds == Spec => []Inv
<1>1. Inv /\ [Next]_vars => Inv'
  BY NextInv
<1> QED BY InitInv, <1>1, PTL DEF Spec

\* Types: however many chains, accounts and messages there are, no sequence of
\* actions takes a balance, a loan or a supply out of uint64.
THEOREM WarpTypes == Spec => []TypeOK
<1>1. Inv => TypeOK
  BY DEF Inv, Shape, IsState, Typed, TypeOK
<1> QED BY <1>1, InvHolds, PTL

\* On every chain the supply of an asset is what its accounts own plus what is
\* lent to other chains.
THEOREM SupplyIsAccounted == Spec => []SupplyAccounted
<1>1. Inv => SupplyAccounted
  BY DEF Inv
<1> QED BY <1>1, InvHolds, PTL

\* What another chain has of an asset, and what is under way between the two, is
\* covered by the loan of the asset's home, for any number of chains and messages.
THEOREM LoansCover == Spec => []LoansCoverAbroad
<1>1. Inv => LoansCoverAbroad
  BY DEF Inv
<1> QED BY <1>1, InvHolds, PTL

-----------------------------------------------------------------------------
(* No message is trapped.                                                  *)

\* No account owns more than all accounts, no chain owes more than all chains.
LEMMA PartOfTotal ==
  ASSUME NEW s, Typed(s)
  PROVE  /\ \A a \in Addresses, x \in Assets :
              s.balance[a][x] \in Nat /\ s.balance[a][x] <= Owned(s, x)
         /\ \A x \in Originals, d \in Chains :
              s.loan[x][d] \in Nat /\ s.loan[x][d] <= Lent(s, x)
<1>1. IsFiniteSet(Addresses) /\ IsFiniteSet(Chains)
  BY WarpAssumption
<1>2. ASSUME NEW a \in Addresses, NEW x \in Assets
      PROVE  s.balance[a][x] \in Nat /\ s.balance[a][x] <= Owned(s, x)
  <2> DEFINE f == [b \in Addresses |-> s.balance[b][x]]
  <2>1. \A b \in Addresses : f[b] \in Nat
    BY Uint64Range DEF Typed
  <2>2. f[a] = s.balance[a][x]
    OBVIOUS
  <2> HIDE DEF f
  <2>3. f[a] <= SumFunctionOnSet(f, Addresses)
    BY <1>1, <2>1, SumMember
  <2> QED BY <2>1, <2>2, <2>3 DEF Owned, f
<1>3. ASSUME NEW x \in Originals, NEW d \in Chains
      PROVE  s.loan[x][d] \in Nat /\ s.loan[x][d] <= Lent(s, x)
  <2>1. \A e \in Chains : s.loan[x][e] \in Nat
    BY Uint64Range DEF Typed
  <2>2. s.loan[x][d] <= SumFunctionOnSet(s.loan[x], Chains)
    BY <1>1, <2>1, SumMember
  <2> QED BY <2>1, <2>2 DEF Lent
<1> QED BY <1>2, <1>3

\* AddBalance succeeds when all accounts together have room for the amount.
LEMMA AddBalanceSucceeds ==
  ASSUME NEW s, IsState(s), s.ok, NEW a \in Addresses, NEW x \in Assets, NEW v \in Nat,
         BalanceKey(a, x) \in s.keys, Owned(s, x) + v < Word
  PROVE  AddBalance(s, a, x, v).ok
<1>1. Typed(s)
  BY DEF IsState
<1>2. Owned(s, x) \in Nat
  BY <1>1, TotalsType
<1>3. s.balance[a][x] \in Nat /\ s.balance[a][x] <= Owned(s, x)
  BY <1>1, PartOfTotal
<1>4. s.balance[a][x] + v < Word
  BY <1>2, <1>3, AssetsAssumption
<1> QED BY <1>4, AddBalanceWrites

\* The receiver and the relayer are paid.
LEMMA ReceivedSucceeds ==
  ASSUME NEW k, IsState(k), k.ok, NEW to \in Addresses, NEW a \in Addresses,
         NEW x \in Assets, NEW v \in Nat, NEW w \in Nat,
         BalanceKey(to, x) \in k.keys, w > 0 => BalanceKey(a, x) \in k.keys,
         Owned(k, x) + (v + w) < Word
  PROVE  Rewarding(w, AddBalance(AddBalance(k, to, x, v), a, x, w),
                   AddBalance(k, to, x, v)).ok
<1> DEFINE b == AddBalance(k, to, x, v)
<1>1. Owned(k, x) \in Nat
  BY TotalsType DEF IsState
<1>2. Owned(k, x) + v < Word
  BY <1>1, AssetsAssumption
<1>3. b.ok
  BY <1>2, AddBalanceSucceeds
<1>4. IsState(b) /\ b.keys = k.keys /\ Moves(k, b, x, v, 0, 0)
  BY <1>3, AddBalanceDoes
<1> HIDE DEF b
<1>5. Owned(b, x) + w < Word
  BY <1>1, <1>4, AssetsAssumption DEF Moves
<1>6. ASSUME w > 0 PROVE AddBalance(b, a, x, w).ok
  BY <1>3, <1>4, <1>5, <1>6, AddBalanceSucceeds
<1> QED BY <1>3, <1>6 DEF Rewarding, b

\* executeMint of ImportAsset succeeds when the supply has room.
LEMMA ImportMintSucceeds ==
  ASSUME NEW s, IsState(s), s.ok, NEW a \in Addresses, NEW m \in WarpTransfers, ~ m.Return,
         AssetKey(AssetIn(m)) \in s.keys, BalanceKey(m.To, AssetIn(m)) \in s.keys,
         m.Reward > 0 => BalanceKey(a, AssetIn(m)) \in s.keys,
         Owned(s, AssetIn(m)) <= Supply(s, AssetIn(m)),
         Supply(s, AssetIn(m)) + (m.Value + m.Reward) < Word
  PROVE  ImportMint(s, a, m).ok
<1> DEFINE x   == AssetIn(m)
           v   == m.Value
           w   == m.Reward
           to  == m.To
           has == HasAsset(s, x)
           old == IF has THEN s.asset[x] ELSE [symbol |-> m.symbol, supply |-> 0]
           sup == old.supply + v + w
           new == [symbol |-> old.symbol, supply |-> sup,
                   owner |-> EmptyAddress, warp |-> TRUE]
           q   == has => s.asset[x].warp
           s1  == Check(s, q)
           s2  == SetAsset(s1, x, new)
           b   == AddBalance(s2, to, x, v)
           r   == Rewarding(w, AddBalance(b, a, x, w), b)
<1>1. ImportMint(s, a, m) = r
  BY DEF ImportMint
<1>2. v \in Nat /\ w \in Nat /\ to \in Addresses /\ m.symbol \in Symbols
  BY FieldTypes
<1>3. x \in Assets /\ x \notin Originals
  BY AssetsAssumption DEF AssetIn, Assets, WarpTransfers
<1>4. Typed(s)
  BY DEF IsState
<1>5. has <=> x \in DOMAIN s.asset
  BY DEF HasAsset
<1>6. q \in BOOLEAN /\ q
  BY <1>3, <1>4, <1>5 DEF Typed
<1>7. old.symbol \in Symbols /\ old.supply = Supply(s, x) /\ old.supply \in Nat
  BY <1>2, <1>4, <1>5, Uint64Range DEF Supply, Typed, AssetRecord
<1>8. /\ AssetKey(x) \in s.keys /\ BalanceKey(to, x) \in s.keys
      /\ w > 0 => BalanceKey(a, x) \in s.keys
      /\ Owned(s, x) <= Supply(s, x) /\ Supply(s, x) + (v + w) < Word
  OBVIOUS
<1>9. Owned(s, x) \in Nat
  BY <1>3, <1>4, TotalsType
<1> HIDE DEF x, v, w, to, has, q, old
<1>10. /\ IsState(s1) /\ s1.ok /\ s1.balance = s.balance /\ s1.keys = s.keys
  BY <1>6, CheckDoes
<1> HIDE DEF s1
<1>11. sup \in Int /\ sup \in Uint64 /\ Owned(s, x) + (v + w) < Word
  <2>1. sup \in Int /\ 0 <= sup /\ sup < Word /\ Owned(s, x) + (v + w) < Word
    BY <1>2, <1>7, <1>8, <1>9, AssetsAssumption
  <2> QED BY <2>1, Uint64Range
<1> HIDE DEF sup
<1>12. /\ new \in [symbol : Symbols, supply : Int,
                   owner : Addresses \cup {EmptyAddress}, warp : BOOLEAN]
       /\ new.supply = sup /\ new.warp
  BY <1>7, <1>11
<1> HIDE DEF new
<1>13. IsState(s2) /\ s2.ok /\ s2.balance = s1.balance /\ s2.keys = s1.keys
  BY <1>3, <1>8, <1>10, <1>11, <1>12, SetAssetDoes
<1> HIDE DEF s2
<1>14. Owned(s2, x) + (v + w) < Word
  <2>1. Owned(s2, x) = Owned(s, x)
    BY <1>10, <1>13, SameTotals
  <2> QED BY <1>11, <2>1
<1>15. BalanceKey(to, x) \in s2.keys /\ (w > 0 => BalanceKey(a, x) \in s2.keys)
  BY <1>8, <1>10, <1>13
<1>16. r.ok
  BY <1>2, <1>3, <1>13, <1>14, <1>15, ReceivedSucceeds
<1> QED BY <1>1, <1>16

\* executeReturn of ImportAsset succeeds when the loan covers the message.
LEMMA ImportReturnSucceeds ==
  ASSUME NEW s, IsState(s), s.ok, NEW a \in Addresses, NEW m \in WarpTransfers,
         AssetKey(m.Asset) \in s.keys, BalanceKey(m.To, m.Asset) \in s.keys,
         LoanKey(m.Asset, m.SourceChainID) \in s.keys,
         m.Reward > 0 => BalanceKey(a, m.Asset) \in s.keys,
         m.Asset \in DOMAIN s.asset, s.asset[m.Asset].symbol = m.symbol,
         m.Value + m.Reward <= s.loan[m.Asset][m.SourceChainID],
         Owned(s, m.Asset) + (m.Value + m.Reward) < Word
  PROVE  ImportReturn(s, a, m).ok
<1> DEFINE x  == m.Asset
           c  == m.SourceChainID
           to == m.To
           v  == m.Value
           w  == m.Reward
           q  == HasAsset(s, x) /\ s.asset[x].symbol = m.symbol /\ ~ s.asset[x].warp
           s0 == Check(s, q)
           s1 == SubLoan(s0, x, c, v)
           s2 == AddBalance(s1, to, x, v)
           s3 == SubLoan(s2, x, c, w)
           s4 == AddBalance(s3, a, x, w)
           l  == s.loan[x][c]
<1>1. ImportReturn(s, a, m) = Rewarding(w, s4, s2)
  BY DEF ImportReturn
<1>2. /\ x \in Originals /\ x \in Assets /\ c \in Chains /\ to \in Addresses
      /\ v \in Nat /\ w \in Nat
  BY FieldTypes DEF Assets
<1>3. Typed(s)
  BY DEF IsState
<1>4. q \in BOOLEAN /\ q
  BY <1>2, <1>3 DEF HasAsset, Typed
<1>5. /\ BalanceKey(to, x) \in s.keys /\ LoanKey(x, c) \in s.keys
      /\ w > 0 => BalanceKey(a, x) \in s.keys
      /\ v + w <= l /\ Owned(s, x) + (v + w) < Word
  OBVIOUS
<1>6. l \in Nat /\ Owned(s, x) \in Nat
  BY <1>2, <1>3, PartOfTotal, TotalsType
<1>7. s.loan \in [Originals -> [Chains -> Uint64]]
  BY <1>3 DEF Typed
<1> HIDE DEF x, c, to, v, w, q
<1>8. /\ IsState(s0) /\ s0.ok /\ s0.balance = s.balance /\ s0.loan = s.loan
      /\ s0.keys = s.keys
  BY <1>4, CheckDoes
<1>9. v <= l /\ w <= l - v /\ Owned(s, x) + v < Word
  BY <1>2, <1>5, <1>6, AssetsAssumption
<1> HIDE DEF s0
<1>10. s1.ok
  <2>1. v <= s0.loan[x][c] /\ LoanKey(x, c) \in s0.keys
    BY <1>5, <1>8, <1>9
  <2> QED BY <1>2, <1>8, <2>1, SubLoanWrites
<1>11. s1.loan = [s.loan EXCEPT ![x][c] = l - v]
  <2>1. s1.loan = [s0.loan EXCEPT ![x][c] = s0.loan[x][c] - v]
    BY <1>2, <1>8, SubLoanWrites
  <2> HIDE DEF s1
  <2> QED BY <1>8, <2>1
<1>12. IsState(s1) /\ s1.balance = s0.balance /\ s1.keys = s0.keys
  BY <1>2, <1>8, SubLoanDoes
<1> HIDE DEF s1
<1>13. Owned(s1, x) = Owned(s, x)
  BY <1>8, <1>12, SameTotals
<1>14. BalanceKey(to, x) \in s1.keys /\ Owned(s1, x) + v < Word
  BY <1>5, <1>8, <1>9, <1>12, <1>13
<1>15. s2.ok
  BY <1>2, <1>10, <1>12, <1>14, AddBalanceSucceeds
<1>16. IsState(s2) /\ s2.keys = s1.keys /\ s2.loan = s1.loan /\ Moves(s1, s2, x, v, 0, 0)
  BY <1>2, <1>12, <1>15, AddBalanceDoes
<1> HIDE DEF s2
<1>17. ASSUME w > 0 PROVE s4.ok
  <2>1. s2.loan[x][c] = l - v
    BY <1>2, <1>6, <1>7, <1>11, <1>16, LoanEntry
  <2>2. w <= s2.loan[x][c] /\ LoanKey(x, c) \in s2.keys
    BY <1>5, <1>8, <1>9, <1>12, <1>16, <2>1
  <2>3. s3.ok
    BY <1>2, <1>15, <1>16, <2>2, SubLoanWrites
  <2>4. IsState(s3) /\ s3.balance = s2.balance /\ s3.keys = s2.keys
    BY <1>2, <1>16, SubLoanDoes
  <2> HIDE DEF s3
  <2>5. Owned(s3, x) = Owned(s2, x) /\ Owned(s2, x) = Owned(s1, x) + v
    BY <1>16, <2>4, SameTotals DEF Moves
  <2>6. Owned(s3, x) + w < Word /\ BalanceKey(a, x) \in s3.keys
    <3>1. Owned(s3, x) + w < Word
      BY <1>2, <1>5, <1>6, <1>13, <2>5, AssetsAssumption
    <3> QED BY <1>5, <1>8, <1>12, <1>16, <1>17, <2>4, <3>1
  <2> QED BY <1>2, <2>3, <2>4, <2>6, AddBalanceSucceeds
<1> HIDE DEF s3, s4
<1>18. Rewarding(w, s4, s2).ok
  BY <1>15, <1>17 DEF Rewarding
<1> QED BY <1>1, <1>18

\* A message in flight is one of those under way, and no more than all of them.
LEMMA InFlightLoad ==
  ASSUME Shape, NEW m \in InFlight
  PROVE  LET U == UnderWay(m.SourceChainID, m.DestinationChainID, m.Asset, m.Return)
         IN Load(U) \in Nat /\ m.Value + m.Reward <= Load(U)
<1> DEFINE U == UnderWay(m.SourceChainID, m.DestinationChainID, m.Asset, m.Return)
<1>1. m \in U
  BY DEF UnderWay
<1>2. IsFiniteSet(U) /\ U \subseteq WarpTransfers /\ Load(U) \in Nat
  BY UnderWayType
<1> HIDE DEF U
<1>3. IsFiniteSet(U \ {m}) /\ U \ {m} \subseteq WarpTransfers
  BY <1>1, <1>2, FS_RemoveElement
<1>4. Load(U) = Load(U \ {m}) + (m.Value + m.Reward)
  BY <1>1, <1>2, LoadRemove
<1>5. Load(U \ {m}) \in Nat /\ m.Value + m.Reward \in Nat
  BY <1>1, <1>2, <1>3, LoadType, FieldTypes
<1>6. m.Value + m.Reward <= Load(U)
  BY <1>4, <1>5
<1> QED BY <1>2, <1>6 DEF U

\* executeReturn or executeMint of ImportAsset.
Receive(s, a, m) == IF m.Return THEN ImportReturn(s, a, m) ELSE ImportMint(s, a, m)

\* What a message in flight carries can be received: the loan covers it, and there
\* is room for it.
LEMMA InFlightReceived ==
  ASSUME Inv, NEW m \in InFlight, NEW a \in Addresses, NEW ks,
         AssetKey(AssetIn(m)) \in ks, BalanceKey(m.To, AssetIn(m)) \in ks,
         m.Return => LoanKey(m.Asset, m.SourceChainID) \in ks,
         m.Reward > 0 => BalanceKey(a, AssetIn(m)) \in ks
  PROVE  LET r == Receive(Declare(chain[m.DestinationChainID], ks), a, m)
         IN IsState(r) /\ r.ok
<1> DEFINE d  == m.DestinationChainID
           c  == m.SourceChainID
           x  == m.Asset
           n  == m.Value + m.Reward
           s  == chain[d]
           s1 == Declare(s, ks)
           s2 == IF m.Return THEN ImportReturn(s1, a, m) ELSE ImportMint(s1, a, m)
<1>1. /\ Shape /\ SupplyAccounted /\ LoansCoverAbroad /\ Homes /\ MessagesHome
      /\ m \in sent /\ m \in WarpTransfers
  BY DEF Inv, InFlight, Shape
<1>2. /\ UnmarshalWarpTransferOk(m) /\ x \in DOMAIN chain[HomeOf(m)].asset
      /\ chain[HomeOf(m)].asset[x].symbol = m.symbol
  BY <1>1 DEF MessagesHome
<1>3. /\ d \in Chains /\ c \in Chains /\ x \in Originals /\ m.Return \in BOOLEAN
      /\ m.Value \in Nat /\ m.Reward \in Nat /\ n \in Nat /\ m.To \in Addresses /\ m.swap \in Swaps
  <2>1. /\ d \in Chains /\ c \in Chains /\ x \in Originals /\ m.Return \in BOOLEAN
        /\ m.Value \in Nat /\ m.Reward \in Nat /\ m.To \in Addresses /\ m.swap \in Swaps
    BY <1>1, FieldTypes
  <2> QED BY <2>1
<1>4. IsState(s) /\ s.ok /\ Typed(s)
  BY <1>1, <1>3, ShapeTyped DEF Shape
<1>5. /\ IsState(s1) /\ s1.ok /\ s1.keys = ks /\ s1.asset = s.asset /\ s1.loan = s.loan
      /\ s1.balance = s.balance
  BY <1>4, DeclareDoes
<1>6. /\ AssetKey(AssetIn(m)) \in ks /\ BalanceKey(m.To, AssetIn(m)) \in ks
      /\ m.Return => LoanKey(x, c) \in ks
      /\ m.Reward > 0 => BalanceKey(a, AssetIn(m)) \in ks
  OBVIOUS
<1> HIDE DEF s1
<1>7. Word \in Nat
  BY AssetsAssumption
<1>8. IsState(s2) /\ s2.ok
  <2>1. CASE m.Return
    <3> DEFINE F == Load(UnderWay(d, c, x, FALSE))
               T == Load(UnderWay(c, d, x, TRUE))
               S == Supply(chain[c], ImportedAssetID(x, d))
               l == s.loan[x][c]
    <3>1. S + F + T <= l /\ S \in Nat /\ F \in Nat /\ T \in Nat /\ l \in Nat
      BY <1>1, <1>3, CoverTypes DEF LoansCoverAbroad
    <3>2. n <= T
      <4>1. m.Return = TRUE
        BY <1>3, <2>1
      <4>2. n <= Load(UnderWay(c, d, x, m.Return))
        BY <1>1, InFlightLoad
      <4> QED BY <4>1, <4>2
    <3> HIDE DEF F, T, S
    <3>3. n <= l
      BY <1>3, <3>1, <3>2
    <3>4. x \in Assets /\ x \in DOMAIN s.asset /\ s.asset[x].symbol = m.symbol
      BY <1>2, <1>3, <2>1 DEF HomeOf, Assets
    <3>5. l <= Lent(s, x) /\ Lent(s, x) \in Nat /\ Owned(s, x) \in Nat
      BY <1>3, <1>4, <3>4, PartOfTotal, TotalsType
    <3>6. Supply(s, x) = Owned(s, x) + Lent(s, x)
      BY <1>1, <1>3, <3>4 DEF SupplyAccounted
    <3>7. Supply(s, x) \in Uint64
      BY <1>4, <3>4 DEF Supply, Typed, AssetRecord
    <3>8. Supply(s, x) \in Nat /\ Supply(s, x) < Word
      <4>1. \A u \in Uint64 : u \in Nat /\ u < Word
        BY Uint64Range
      <4> QED BY <3>7, <4>1
    <3> HIDE DEF l
    <3>9. Owned(s, x) + n < Word
      BY <1>3, <1>7, <3>1, <3>3, <3>5, <3>6, <3>8
    <3>10. Owned(s1, x) = Owned(s, x)
      BY <1>5, SameTotals
    <3>11. AssetIn(m) = x
      BY <2>1 DEF AssetIn
    <3>12. s2 = ImportReturn(s1, a, m)
      BY <2>1
    <3>13. n <= s1.loan[x][c] /\ Owned(s1, x) + n < Word /\ s1.asset[x].symbol = m.symbol
           /\ x \in DOMAIN s1.asset
      BY <1>5, <3>3, <3>4, <3>9, <3>10 DEF l
    <3>14. ImportReturn(s1, a, m).ok
      BY <1>1, <1>5, <1>6, <2>1, <3>11, <3>13, ImportReturnSucceeds
    <3>15. IsState(ImportReturn(s1, a, m))
      BY <1>1, <1>5, ImportReturnDoes
    <3> QED BY <3>12, <3>14, <3>15
  <2>2. CASE ~ m.Return
    <3> DEFINE y == ImportedAssetID(x, c)
               F == Load(UnderWay(c, d, x, FALSE))
               T == Load(UnderWay(d, c, x, TRUE))
               S == Supply(s, y)
               l == chain[c].loan[x][d]
    <3>1. S + F + T <= l /\ S \in Nat /\ F \in Nat /\ T \in Nat /\ l \in Nat
      BY <1>1, <1>3, CoverTypes DEF LoansCoverAbroad
    <3>2. n <= F
      <4>1. m.Return = FALSE
        BY <1>3, <2>2
      <4>2. n <= Load(UnderWay(c, d, x, m.Return))
        BY <1>1, InFlightLoad
      <4> QED BY <4>1, <4>2
    <3>3. l < Word
      <4>1. chain[c].loan \in [Originals -> [Chains -> Uint64]]
        BY <1>1, <1>3, ShapeTyped DEF Typed
      <4>2. l \in Uint64
        BY <1>3, <4>1
      <4> QED BY <3>1, <4>2, Uint64Range
    <3> HIDE DEF F, T, l
    <3>4. S + n < Word
      <4> HIDE DEF S
      <4> QED BY <1>3, <1>7, <3>1, <3>2, <3>3
    <3>5. y \in Assets /\ y \notin Originals /\ AssetIn(m) = y
      BY <1>3, <2>2, ImportedIDs DEF AssetIn
    <3>6. S = Owned(s, y) + Lent(s, y) /\ Lent(s, y) = 0 /\ Owned(s, y) \in Nat
      BY <1>1, <1>3, <1>4, <3>5, TotalsType DEF SupplyAccounted, Lent
    <3>7. Owned(s, y) <= S
      BY <3>1, <3>6
    <3>8. Owned(s1, y) = Owned(s, y) /\ Supply(s1, y) = S
      BY <1>5, SameTotals
    <3>9. Owned(s1, AssetIn(m)) <= Supply(s1, AssetIn(m)) /\ Supply(s1, AssetIn(m)) + n < Word
      BY <3>4, <3>5, <3>7, <3>8
    <3>10. s2 = ImportMint(s1, a, m)
      BY <2>2
    <3>11. ImportMint(s1, a, m).ok
      BY <1>1, <1>5, <1>6, <2>2, <3>9, ImportMintSucceeds
    <3>12. IsState(ImportMint(s1, a, m))
      BY <1>1, <1>5, <1>6, <2>2, ImportMintDoes
    <3> QED BY <3>10, <3>11, <3>12
  <2> QED BY <1>3, <2>1, <2>2
<1> QED BY <1>8 DEF Receive, s2, s1

\* The keys that an import declares.
LEMMA ImportKeys ==
  ASSUME NEW a, NEW m, NEW fill
  PROVE  LET ks == ImportStateKeys(a, m, fill)
         IN /\ AssetKey(AssetIn(m)) \in ks /\ BalanceKey(m.To, AssetIn(m)) \in ks
            /\ m.Return => LoanKey(m.Asset, m.SourceChainID) \in ks
            /\ m.Reward > 0 => BalanceKey(a, AssetIn(m)) \in ks
  BY DEF ImportStateKeys

\* Without filling its order, a message is imported once the order has expired.
LEMMA UnfilledSucceeds ==
  ASSUME Inv, NEW m \in InFlight, NEW a \in Addresses, NEW t \in Nat,
         m.swap.SwapExpiry <= t
  PROVE  Imported(m.DestinationChainID, a, m, FALSE, t).ok
<1> DEFINE d == m.DestinationChainID
           s == Declare(chain[d], ImportStateKeys(a, m, FALSE))
           r == Receive(s, a, m)
           q == m.swap.SwapIn = 0 \/ m.swap.SwapExpiry <= t
<1>1. IsState(r) /\ r.ok
  BY ImportKeys, InFlightReceived
<1>2. q \in BOOLEAN /\ q
  OBVIOUS
<1>3. Imported(d, a, m, FALSE, t).ok = Check(r, q).ok
  BY DEF Imported, ImportAsset, Receive
<1> HIDE DEF r, q
<1>4. Check(r, q).ok
  BY <1>1, <1>2, CheckDoes
<1> QED BY <1>3, <1>4

\* Whoever relays a message after its order expired succeeds.
LEMMA InvDeliverable ==
  ASSUME Inv
  PROVE  Deliverable
<1> SUFFICES ASSUME NEW m \in InFlight, NEW a \in Addresses
             PROVE  /\ UnmarshalWarpTransferOk(m)
                    /\ Imported(m.DestinationChainID, a, m, FALSE, m.swap.SwapExpiry).ok
  BY DEF Deliverable
<1>1. m \in sent /\ m \in WarpTransfers /\ UnmarshalWarpTransferOk(m)
  BY DEF Inv, InFlight, Shape, MessagesHome
<1>2. m.swap \in Swaps
  BY <1>1, FieldTypes
<1>3. m.swap.SwapExpiry \in Nat
  BY <1>2 DEF Swaps
<1>4. m.swap.SwapExpiry <= m.swap.SwapExpiry
  BY <1>3
<1> QED BY <1>1, <1>3, <1>4, UnfilledSucceeds

\* No message is trapped: on every reachable state, for any chains and accounts,
\* an import of a message in flight succeeds once its order has expired.  No
\* overflow of a balance or a supply and no loan that is too small can stop it.
THEOREM MessagesDeliverable == Spec => []Deliverable
<1>1. Inv => Deliverable
  BY InvDeliverable
<1> QED BY <1>1, InvHolds, PTL

-----------------------------------------------------------------------------
(* The bridge.                                                             *)

\* The record of Units for one asset.
Place(h, a, g, m) == [home |-> h, abroad |-> a, going |-> g, coming |-> m]

\* The steps of Bridge, on such a record: at home,
LEMMA PlaceMakes ==
  ASSUME NEW h \in Int, NEW a, NEW g, NEW m, NEW v \in Nat
  PROVE  /\ B!Mint(Place(h, a, g, m), Place(h + v, a, g, m), v)
         /\ v <= h => B!Burn(Place(h, a, g, m), Place(h - v, a, g, m), v)
  BY DEF Place, B!Mint, B!Burn

\* and between home and another chain.
LEMMA PlaceMoves ==
  ASSUME NEW h \in Int, NEW a \in [Chains -> Int], NEW g \in [Chains -> Int],
         NEW m \in [Chains -> Int], NEW d \in Chains, NEW v \in Nat
  PROVE  LET u == Place(h, a, g, m)
         IN /\ v <= h => B!Depart(u, Place(h - v, a, [g EXCEPT ![d] = g[d] + v], m), d, v)
            /\ v <= g[d] => B!Arrive(u, Place(h, [a EXCEPT ![d] = a[d] + v],
                                              [g EXCEPT ![d] = g[d] - v], m), d, v)
            /\ v <= a[d] => B!BurnAbroad(u, Place(h, [a EXCEPT ![d] = a[d] - v], g, m), d, v)
            /\ v <= a[d] => B!Leave(u, Place(h, [a EXCEPT ![d] = a[d] - v], g,
                                             [m EXCEPT ![d] = m[d] + v]), d, v)
            /\ v <= m[d] => B!Return(u, Place(h + v, a, g, [m EXCEPT ![d] = m[d] - v]), d, v)
<1> DEFINE u == Place(h, a, g, m)
<1>3. v <= h => B!Depart(u, Place(h - v, a, [g EXCEPT ![d] = g[d] + v], m), d, v)
  <2> DEFINE i == h - v
             j == g[d] + v
  <2>1. u.home = h /\ u.abroad = a /\ u.going = g /\ u.coming = m
    BY DEF Place
  <2> HIDE DEF i, j
  <2>2. [u EXCEPT !.home = i] = Place(i, a, g, m)
    BY DEF Place
  <2>3. [Place(i, a, g, m) EXCEPT !.going[d] = j] = Place(i, a, [g EXCEPT ![d] = j], m)
    BY DEF Place
  <2>4. [u EXCEPT !.home = i, !.going[d] = j] = [[u EXCEPT !.home = i] EXCEPT !.going[d] = j]
    BY DEF Place
  <2>5. v <= h => B!Depart(u, Place(i, a, [g EXCEPT ![d] = j], m), d, v)
    BY <2>1, <2>2, <2>3, <2>4 DEF B!Depart, i, j
  <2> QED BY <2>5 DEF i, j
<1>4. v <= g[d] => B!Arrive(u, Place(h, [a EXCEPT ![d] = a[d] + v],
                                     [g EXCEPT ![d] = g[d] - v], m), d, v)
  <2> DEFINE i == g[d] - v
             j == a[d] + v
  <2>1. u.home = h /\ u.abroad = a /\ u.going = g /\ u.coming = m
    BY DEF Place
  <2> HIDE DEF i, j
  <2>2. [u EXCEPT !.going[d] = i] = Place(h, a, [g EXCEPT ![d] = i], m)
    BY DEF Place
  <2>3. [Place(h, a, [g EXCEPT ![d] = i], m) EXCEPT !.abroad[d] = j] = Place(h, [a EXCEPT ![d] = j], [g EXCEPT ![d] = i], m)
    BY DEF Place
  <2>4. [u EXCEPT !.going[d] = i, !.abroad[d] = j] = [[u EXCEPT !.going[d] = i] EXCEPT !.abroad[d] = j]
    BY DEF Place
  <2>5. v <= g[d] => B!Arrive(u, Place(h, [a EXCEPT ![d] = j], [g EXCEPT ![d] = i], m), d, v)
    BY <2>1, <2>2, <2>3, <2>4 DEF B!Arrive, i, j
  <2> QED BY <2>5 DEF i, j
<1>5. v <= a[d] => B!BurnAbroad(u, Place(h, [a EXCEPT ![d] = a[d] - v], g, m), d, v)
  BY DEF Place, B!BurnAbroad
<1>6. v <= a[d] => B!Leave(u, Place(h, [a EXCEPT ![d] = a[d] - v], g,
                                    [m EXCEPT ![d] = m[d] + v]), d, v)
  <2> DEFINE i == a[d] - v
             j == m[d] + v
  <2>1. u.home = h /\ u.abroad = a /\ u.going = g /\ u.coming = m
    BY DEF Place
  <2> HIDE DEF i, j
  <2>2. [u EXCEPT !.abroad[d] = i] = Place(h, [a EXCEPT ![d] = i], g, m)
    BY DEF Place
  <2>3. [Place(h, [a EXCEPT ![d] = i], g, m) EXCEPT !.coming[d] = j] = Place(h, [a EXCEPT ![d] = i], g, [m EXCEPT ![d] = j])
    BY DEF Place
  <2>4. [u EXCEPT !.abroad[d] = i, !.coming[d] = j] = [[u EXCEPT !.abroad[d] = i] EXCEPT !.coming[d] = j]
    BY DEF Place
  <2>5. v <= a[d] => B!Leave(u, Place(h, [a EXCEPT ![d] = i], g, [m EXCEPT ![d] = j]), d, v)
    BY <2>1, <2>2, <2>3, <2>4 DEF B!Leave, i, j
  <2> QED BY <2>5 DEF i, j
<1>7. v <= m[d] => B!Return(u, Place(h + v, a, g, [m EXCEPT ![d] = m[d] - v]), d, v)
  <2> DEFINE i == m[d] - v
             j == h + v
  <2>1. u.home = h /\ u.abroad = a /\ u.going = g /\ u.coming = m
    BY DEF Place
  <2> HIDE DEF i, j
  <2>2. [u EXCEPT !.coming[d] = i] = Place(h, a, g, [m EXCEPT ![d] = i])
    BY DEF Place
  <2>3. [Place(h, a, g, [m EXCEPT ![d] = i]) EXCEPT !.home = j] = Place(j, a, g, [m EXCEPT ![d] = i])
    BY DEF Place
  <2>4. [u EXCEPT !.coming[d] = i, !.home = j] = [[u EXCEPT !.coming[d] = i] EXCEPT !.home = j]
    BY DEF Place
  <2>5. v <= m[d] => B!Return(u, Place(j, a, g, [m EXCEPT ![d] = i]), d, v)
    BY <2>1, <2>2, <2>3, <2>4 DEF B!Return, i, j
  <2> QED BY <2>5 DEF i, j
<1> QED BY <1>3, <1>4, <1>5, <1>6, <1>7

\* The parts of Units.
Home(c, x) == Owned(chain[c], x)
Abroad(c, x) == [d \in Chains |-> Owned(chain[d], ImportedAssetID(x, c))]
Going(c, x) == [d \in Chains |-> Load(UnderWay(c, d, x, FALSE))]
Coming(c, x) == [d \in Chains |-> Load(UnderWay(d, c, x, TRUE))]
Where(c, x) == Place(Home(c, x), Abroad(c, x), Going(c, x), Coming(c, x))

\* The refinement mapping, asset by asset.
LEMMA UnitsAre ==
  Units = [c \in Chains |-> [x \in Originals |-> Where(c, x)]]
  BY DEF Units, Where, Place, Home, Abroad, Going, Coming

\* Steps of the bridge that move one asset of one chain.
LEMMA OneAssetMoves ==
  ASSUME NEW c \in Chains, NEW x \in Originals, B!Step(x, Where(c, x), Where(c, x)'),
         \A d \in Chains, y \in Originals : d # c \/ y # x => Where(d, y)' = Where(d, y)
  PROVE  [B!Next]_Units
<1> DEFINE old == Units
           new == Units'
<1>1. /\ old = [d \in Chains |-> [y \in Originals |-> Where(d, y)]]
      /\ new = [d \in Chains |-> [y \in Originals |-> Where(d, y)']]
  BY UnitsAre DEF Where, Units, Place, Home, Abroad, Going, Coming
<1>2. old[c][x] = Where(c, x) /\ new[c][x] = Where(c, x)'
  BY <1>1
<1>3. new = [old EXCEPT ![c][x] = new[c][x]]
  BY <1>1
<1> HIDE DEF old, new
<1>4. B!Step(x, old[c][x], new[c][x])
  BY <1>2
<1>5. CASE old = new
  BY <1>5 DEF old, new
<1>6. CASE old # new
  <2>1. \E o \in {old}, n \in {new} :
          /\ o # n
          /\ \E d \in Chains, y \in Originals :
               n = [o EXCEPT ![d][y] = n[d][y]] /\ B!Step(y, o[d][y], n[d][y])
    BY <1>3, <1>4, <1>6
  <2> QED BY <2>1 DEF B!Next, old, new
<1> QED BY <1>5, <1>6

\* Steps of which the bridge sees nothing.
LEMMA NothingMoves ==
  ASSUME \A c \in Chains, x \in Originals : Where(c, x)' = Where(c, x)
  PROVE  [B!Next]_Units
<1>1. /\ Units = [d \in Chains |-> [y \in Originals |-> Where(d, y)]]
      /\ Units' = [d \in Chains |-> [y \in Originals |-> Where(d, y)']]
  BY UnitsAre DEF Where, Units, Place, Home, Abroad, Going, Coming
<1>2. Units' = Units
  BY <1>1
<1> QED BY <1>2

\* The types of the parts.
LEMMA WhereTypes ==
  ASSUME Shape, NEW c \in Chains, NEW x \in Originals
  PROVE  /\ Home(c, x) \in Nat /\ Abroad(c, x) \in [Chains -> Nat]
         /\ Going(c, x) \in [Chains -> Nat] /\ Coming(c, x) \in [Chains -> Nat]
<1>1. Home(c, x) \in Nat
  BY ShapeTyped, TotalsType DEF Home, Assets
<1>2. \A d \in Chains : Owned(chain[d], ImportedAssetID(x, c)) \in Nat
  BY ImportedIDs, ShapeTyped, TotalsType
<1>3. \A d \in Chains : /\ Load(UnderWay(c, d, x, FALSE)) \in Nat
                        /\ Load(UnderWay(d, c, x, TRUE)) \in Nat
  BY CoverTypes
<1> QED BY <1>1, <1>2, <1>3 DEF Abroad, Going, Coming

\* One entry of a table of numbers per chain changes by o.
Changed(f, d, o) == [f EXCEPT ![d] = f[d] + o]

\* What a step does to what the accounts own, of an asset of the chain k itself,
LEMMA HomeMoves ==
  ASSUME Shape, NEW k \in Chains, Executes(k), NEW y \in Originals,
         NEW o, NEW l, NEW n, Moves(chain[k], chain'[k], y, o, l, n)
  PROVE  /\ Home(k, y)' = Home(k, y) + o
         /\ \A c \in Chains, x \in Originals : c # k \/ x # y => Home(c, x)' = Home(c, x)
         /\ \A c \in Chains, x \in Originals : Abroad(c, x)' = Abroad(c, x)
<1>1. \A d \in Chains \ {k} : chain'[d] = chain[d]
  BY DEF Executes
<1>2. /\ \A x \in Assets \ {y} : Owned(chain'[k], x) = Owned(chain[k], x)
      /\ Owned(chain'[k], y) = Owned(chain[k], y) + o
  BY DEF Moves
<1>3. \A c \in Chains, x \in Originals :
        Home(c, x)' = Owned(chain'[c], x) /\ Home(c, x) = Owned(chain[c], x) /\ x \in Assets
  BY DEF Home, Owned, Assets
<1>4. Home(k, y)' = Home(k, y) + o
  BY <1>2, <1>3
<1>5. \A c \in Chains, x \in Originals : c # k \/ x # y => Home(c, x)' = Home(c, x)
  BY <1>1, <1>2, <1>3
<1>6. ASSUME NEW c \in Chains, NEW x \in Originals
      PROVE  Abroad(c, x)' = Abroad(c, x)
  <2>1. \A d \in Chains :
          Owned(chain'[d], ImportedAssetID(x, c)) = Owned(chain[d], ImportedAssetID(x, c))
    BY <1>1, <1>2, ImportedIDs
  <2>2. Abroad(c, x)' = [d \in Chains |-> Owned(chain'[d], ImportedAssetID(x, c))]
    BY DEF Abroad, Owned
  <2> QED BY <2>1, <2>2 DEF Abroad
<1> QED BY <1>4, <1>5, <1>6

\* and of an imported one.
LEMMA AbroadMoves ==
  ASSUME Shape, NEW k \in Chains, Executes(k), NEW h \in Chains, NEW y \in Originals,
         NEW o, NEW l, NEW n, Moves(chain[k], chain'[k], ImportedAssetID(y, h), o, l, n)
  PROVE  /\ \A c \in Chains, x \in Originals : Home(c, x)' = Home(c, x)
         /\ Abroad(h, y)' = Changed(Abroad(h, y), k, o)
         /\ \A c \in Chains, x \in Originals : c # h \/ x # y => Abroad(c, x)' = Abroad(c, x)
<1> DEFINE z == ImportedAssetID(y, h)
<1>1. \A d \in Chains \ {k} : chain'[d] = chain[d]
  BY DEF Executes
<1>2. /\ \A x \in Assets \ {z} : Owned(chain'[k], x) = Owned(chain[k], x)
      /\ Owned(chain'[k], z) = Owned(chain[k], z) + o
  BY DEF Moves
<1>3. \A x \in Originals : x \in Assets \ {z}
  BY ImportedIDs DEF Assets
<1>4. \A c \in Chains, x \in Originals : Home(c, x)' = Home(c, x)
  BY <1>1, <1>2, <1>3 DEF Home, Owned
<1>5. \A c \in Chains, x \in Originals :
        /\ Abroad(c, x) = [d \in Chains |-> Owned(chain[d], ImportedAssetID(x, c))]
        /\ Abroad(c, x)' = [d \in Chains |-> Owned(chain'[d], ImportedAssetID(x, c))]
  BY DEF Abroad, Owned
<1>6. Abroad(h, y)[k] = Owned(chain[k], z)
  BY <1>5
<1>7. Abroad(h, y)' = [Abroad(h, y) EXCEPT ![k] = Owned(chain'[k], z)]
  BY <1>1, <1>5
<1>8. ASSUME NEW c \in Chains, NEW x \in Originals, c # h \/ x # y
      PROVE  Abroad(c, x)' = Abroad(c, x)
  <2>1. ImportedAssetID(x, c) \in Assets \ {z}
    BY <1>8, ImportedIDs
  <2>2. \A d \in Chains :
          Owned(chain'[d], ImportedAssetID(x, c)) = Owned(chain[d], ImportedAssetID(x, c))
    BY <1>1, <1>2, <2>1
  <2> QED BY <1>5, <2>2
<1>9. Abroad(h, y)' = Changed(Abroad(h, y), k, o)
  BY <1>2, <1>6, <1>7 DEF Changed
<1> QED BY <1>2, <1>4, <1>6, <1>8, <1>9

\* Transfer, create, mint and burn are steps of the bridge.
LEMMA LocalBridge ==
  ASSUME Shape, NEW k \in Chains, NEW y \in Assets, NEW v \in Int, Local(k, y, v)
  PROVE  [B!Next]_Units
<1>1. /\ Executes(k) /\ Moves(chain[k], chain'[k], y, v, 0, v)
      /\ v > 0 => y \in NewAssets
      /\ v \in Uint64 \/ 0 - v \in Uint64
      /\ Typed(chain'[k])
  BY DEF Local, Executes, IsState
<1>2. \A c \in Chains, x \in Originals : Going(c, x)' = Going(c, x) /\ Coming(c, x)' = Coming(c, x)
  <2>1. ASSUME NEW c \in Chains, NEW d \in Chains, NEW x \in Originals
        PROVE  /\ Load(UnderWay(c, d, x, FALSE))' = Load(UnderWay(c, d, x, FALSE))
               /\ Load(UnderWay(c, d, x, TRUE))' = Load(UnderWay(c, d, x, TRUE))
    BY LocalLoads
  <2> QED BY <2>1 DEF Going, Coming
<1>3. \A c \in Chains, x \in Originals :
        Where(c, x)' = Place(Home(c, x)', Abroad(c, x)', Going(c, x), Coming(c, x))
  BY <1>2 DEF Where, Place
<1>4. CASE y \in Originals
  <2> DEFINE h == Home(k, y)
             a == Abroad(k, y)
             g == Going(k, y)
             m == Coming(k, y)
  <2>1. /\ Home(k, y)' = h + v
        /\ \A c \in Chains, x \in Originals : c # k \/ x # y => Home(c, x)' = Home(c, x)
        /\ \A c \in Chains, x \in Originals : Abroad(c, x)' = Abroad(c, x)
    BY <1>1, <1>4, HomeMoves
  <2>2. \A c \in Chains, x \in Originals : c # k \/ x # y => Where(c, x)' = Where(c, x)
    BY <1>3, <2>1 DEF Where
  <2>3. h \in Nat /\ a \in [Chains -> Int] /\ g \in [Chains -> Int] /\ m \in [Chains -> Int]
    BY <1>4, WhereTypes
  <2>4. Where(k, y) = Place(h, a, g, m) /\ Where(k, y)' = Place(h + v, a, g, m)
    BY <1>3, <1>4, <2>1 DEF Where
  <2>5. h + v \in Nat
    <3>1. Home(k, y)' = Owned(chain'[k], y)
      BY DEF Home, Owned
    <3> QED BY <1>1, <2>1, <3>1, TotalsType
  <2> HIDE DEF h, a, g, m
  <2>6. CASE v > 0
    <3>1. v \in Uint64 \ {0} /\ v \in Nat /\ y \in NewAssets
      BY <1>1, <2>6, Uint64Range
    <3>2. B!Mint(Place(h, a, g, m), Place(h + v, a, g, m), v)
      BY <2>3, <3>1, PlaceMakes
    <3>3. B!Step(y, Where(k, y), Where(k, y)')
      BY <2>4, <3>1, <3>2 DEF B!Step
    <3> QED BY <1>4, <2>2, <3>3, OneAssetMoves
  <2>7. CASE v < 0
    <3> DEFINE w == 0 - v
    <3>1. w \in Nat /\ w <= h /\ h + v = h - w /\ w # 0
      BY <2>3, <2>5, <2>7
    <3>2. w \in Uint64 \ {0}
      BY <1>1, <2>7, <3>1, Uint64Range
    <3> HIDE DEF w
    <3>3. B!Burn(Place(h, a, g, m), Place(h - w, a, g, m), w)
      BY <2>3, <3>1, PlaceMakes
    <3>4. B!Step(y, Where(k, y), Where(k, y)')
      BY <2>4, <3>1, <3>2, <3>3 DEF B!Step
    <3> QED BY <1>4, <2>2, <3>4, OneAssetMoves
  <2>8. CASE v = 0
    <3>1. h + v = h
      BY <2>3, <2>8
    <3>2. \A c \in Chains, x \in Originals : Where(c, x)' = Where(c, x)
      BY <2>2, <2>4, <3>1
    <3> QED BY <3>2, NothingMoves
  <2> QED BY <2>6, <2>7, <2>8
<1>5. CASE y \notin Originals
  <2>1. PICK c0 \in Chains, x0 \in Originals : y = ImportedAssetID(x0, c0)
    BY <1>5, ImportedIDs
  <2> DEFINE h == Home(c0, x0)
             a == Abroad(c0, x0)
             g == Going(c0, x0)
             m == Coming(c0, x0)
  <2>10. Moves(chain[k], chain'[k], ImportedAssetID(x0, c0), v, 0, v)
    BY <1>1, <2>1
  <2>2. /\ \A c \in Chains, x \in Originals : Home(c, x)' = Home(c, x)
        /\ Abroad(c0, x0)' = Changed(a, k, v)
        /\ \A c \in Chains, x \in Originals : c # c0 \/ x # x0 => Abroad(c, x)' = Abroad(c, x)
    BY <1>1, <2>1, <2>10, AbroadMoves
  <2>3. \A c \in Chains, x \in Originals : c # c0 \/ x # x0 => Where(c, x)' = Where(c, x)
    BY <1>3, <2>2 DEF Where
  <2>4. h \in Nat /\ a \in [Chains -> Nat] /\ g \in [Chains -> Int] /\ m \in [Chains -> Int]
    BY <2>1, WhereTypes
  <2>5. /\ Where(c0, x0) = Place(h, a, g, m)
        /\ Where(c0, x0)' = Place(h, [a EXCEPT ![k] = a[k] + v], g, m)
    BY <1>3, <2>1, <2>2 DEF Where, Changed
  <2>6. a[k] + v \in Nat /\ a[k] \in Nat
    <3>1. a[k] = Owned(chain[k], y)
      BY <2>1 DEF Abroad
    <3>2. Owned(chain'[k], y) = a[k] + v
      BY <1>1, <3>1 DEF Moves
    <3> QED BY <1>1, <2>4, <3>2, TotalsType
  <2>7. ~ (v > 0)
    BY <1>1, <1>5 DEF Originals
  <2> HIDE DEF h, a, g, m
  <2>8. CASE v < 0
    <3> DEFINE w == 0 - v
    <3>1. w \in Nat /\ w <= a[k] /\ a[k] + v = a[k] - w /\ w # 0
      BY <2>6, <2>8
    <3>2. w \in Uint64 \ {0}
      BY <1>1, <2>8, <3>1, Uint64Range
    <3>6. a \in [Chains -> Int] /\ h \in Int
      BY <2>4
    <3> HIDE DEF w
    <3>3. B!BurnAbroad(Place(h, a, g, m), Place(h, [a EXCEPT ![k] = a[k] - w], g, m), k, w)
      BY <2>4, <3>1, <3>6, PlaceMoves
    <3>4. B!Step(x0, Where(c0, x0), Where(c0, x0)')
      BY <2>5, <3>1, <3>2, <3>3 DEF B!Step
    <3> QED BY <2>1, <2>3, <3>4, OneAssetMoves
  <2>9. CASE v = 0
    <3>1. [a EXCEPT ![k] = a[k] + v] = a
      BY <2>4, <2>6, <2>9
    <3>2. \A c \in Chains, x \in Originals : Where(c, x)' = Where(c, x)
      BY <2>3, <2>5, <3>1
    <3> QED BY <3>2, NothingMoves
  <2> QED BY <2>7, <2>8, <2>9
<1> QED BY <1>4, <1>5

\* What a step does to the messages under way, of an asset that goes abroad,
LEMMA GoingMoves ==
  ASSUME Shape, NEW h \in Chains, NEW y \in Originals, NEW k \in Chains, NEW o \in Int,
         \A c, d \in Chains, x \in Originals :
           /\ Load(UnderWay(c, d, x, FALSE))' =
                IF c = h /\ d = k /\ x = y THEN Load(UnderWay(c, d, x, FALSE)) + o
                                           ELSE Load(UnderWay(c, d, x, FALSE))
           /\ Load(UnderWay(c, d, x, TRUE))' = Load(UnderWay(c, d, x, TRUE))
  PROVE  /\ Going(h, y)' = Changed(Going(h, y), k, o)
         /\ \A c \in Chains, x \in Originals : c # h \/ x # y => Going(c, x)' = Going(c, x)
         /\ \A c \in Chains, x \in Originals : Coming(c, x)' = Coming(c, x)
<1>1. Going(h, y)' = Changed(Going(h, y), k, o)
  BY DEF Going, Changed
<1>2. \A c \in Chains, x \in Originals : c # h \/ x # y => Going(c, x)' = Going(c, x)
  BY DEF Going
<1>3. \A c \in Chains, x \in Originals : Coming(c, x)' = Coming(c, x)
  BY DEF Coming
<1> QED BY <1>1, <1>2, <1>3

\* and of one that comes back.
LEMMA ComingMoves ==
  ASSUME Shape, NEW h \in Chains, NEW y \in Originals, NEW k \in Chains, NEW o \in Int,
         \A c, d \in Chains, x \in Originals :
           /\ Load(UnderWay(d, c, x, TRUE))' =
                IF c = h /\ d = k /\ x = y THEN Load(UnderWay(d, c, x, TRUE)) + o
                                           ELSE Load(UnderWay(d, c, x, TRUE))
           /\ Load(UnderWay(d, c, x, FALSE))' = Load(UnderWay(d, c, x, FALSE))
  PROVE  /\ Coming(h, y)' = Changed(Coming(h, y), k, o)
         /\ \A c \in Chains, x \in Originals : c # h \/ x # y => Coming(c, x)' = Coming(c, x)
         /\ \A c \in Chains, x \in Originals : Going(c, x)' = Going(c, x)
<1>1. Coming(h, y)' = Changed(Coming(h, y), k, o)
  BY DEF Coming, Changed
<1>2. \A c \in Chains, x \in Originals : c # h \/ x # y => Coming(c, x)' = Coming(c, x)
  BY DEF Coming
<1>3. \A c \in Chains, x \in Originals : Going(c, x)' = Going(c, x)
  BY DEF Going
<1> QED BY <1>1, <1>2, <1>3

\* What accounts own of a recorded asset is a uint64.
LEMMA OwnedUint64 ==
  ASSUME Shape, SupplyAccounted, NEW c \in Chains, NEW x \in DOMAIN chain[c].asset
  PROVE  Owned(chain[c], x) \in Uint64
<1>1. Typed(chain[c]) /\ x \in Assets
  BY ShapeTyped DEF Typed
<1>2. Supply(chain[c], x) \in Uint64
  BY <1>1 DEF Supply, Typed, AssetRecord
<1>3. Supply(chain[c], x) = Owned(chain[c], x) + Lent(chain[c], x)
  BY <1>1 DEF SupplyAccounted
<1>4. Owned(chain[c], x) \in Nat /\ Lent(chain[c], x) \in Nat
  BY <1>1, TotalsType
<1>5. \A u \in Uint64 : u \in Nat /\ u < Word
  BY Uint64Range
<1>6. 0 <= Owned(chain[c], x) /\ Owned(chain[c], x) < Word /\ Owned(chain[c], x) \in Int
  BY <1>2, <1>3, <1>4, <1>5, AssetsAssumption
<1> QED BY <1>6, Uint64Range

\* So are the messages under way to or from an asset's home.
LEMMA LoadsUint64 ==
  ASSUME Shape, LoansCoverAbroad, NEW c \in Chains, NEW d \in Chains, NEW x \in Originals
  PROVE  Going(c, x)[d] \in Uint64 /\ Coming(c, x)[d] \in Uint64
<1> DEFINE S == Supply(chain[d], ImportedAssetID(x, c))
           F == Load(UnderWay(c, d, x, FALSE))
           T == Load(UnderWay(d, c, x, TRUE))
           l == chain[c].loan[x][d]
<1>1. S + F + T <= l
  BY DEF LoansCoverAbroad
<1>2. S \in Nat /\ F \in Nat /\ T \in Nat /\ l \in Nat
  BY CoverTypes
<1>3. l \in Uint64
  <2>1. chain[c].loan \in [Originals -> [Chains -> Uint64]]
    BY ShapeTyped DEF Typed
  <2> QED BY <2>1
<1>4. Going(c, x)[d] = F /\ Coming(c, x)[d] = T
  BY DEF Going, Coming
<1> HIDE DEF S, F, T, l
<1>5. l < Word
  BY <1>2, <1>3, Uint64Range
<1>6. F < Word /\ T < Word
  BY <1>1, <1>2, <1>5, AssetsAssumption
<1> QED BY <1>2, <1>4, <1>6, Uint64Range

\* An amount between one and a uint64 is one of the bridge's.
LEMMA AmountRange ==
  ASSUME NEW n \in Nat, n > 0, NEW u \in Uint64, n <= u
  PROVE  n \in Uint64 \ {0}
<1>1. u \in Nat /\ u < Word
  BY Uint64Range
<1>2. n < Word
  BY <1>1, AssetsAssumption
<1> QED BY <1>2, Uint64Range


\* Units of the asset x0 of chain k depart to chain j.
LEMMA DepartBridge ==
  ASSUME Shape, NEW k \in Chains, NEW j \in Chains, NEW x0 \in Originals,
         NEW n \in Nat, n \in Uint64 \ {0}, n <= Owned(chain[k], x0), Executes(k),
         NEW l, NEW q, Moves(chain[k], chain'[k], x0, 0 - n, l, q),
         \A c, d \in Chains, x \in Originals :
           /\ Load(UnderWay(c, d, x, FALSE))' =
                IF c = k /\ d = j /\ x = x0 THEN Load(UnderWay(c, d, x, FALSE)) + n
                                            ELSE Load(UnderWay(c, d, x, FALSE))
           /\ Load(UnderWay(c, d, x, TRUE))' = Load(UnderWay(c, d, x, TRUE))
  PROVE  [B!Next]_Units
<1> DEFINE h == Home(k, x0)
           a == Abroad(k, x0)
           g == Going(k, x0)
           m == Coming(k, x0)
<1>1. n \in Int /\ 0 - n \in Int
  OBVIOUS
<1>2. /\ Home(k, x0)' = h + (0 - n)
      /\ \A c \in Chains, x \in Originals : c # k \/ x # x0 => Home(c, x)' = Home(c, x)
      /\ \A c \in Chains, x \in Originals : Abroad(c, x)' = Abroad(c, x)
  BY HomeMoves
<1>3. /\ Going(k, x0)' = Changed(g, j, n)
      /\ \A c \in Chains, x \in Originals : c # k \/ x # x0 => Going(c, x)' = Going(c, x)
      /\ \A c \in Chains, x \in Originals : Coming(c, x)' = Coming(c, x)
  BY <1>1, GoingMoves
<1>4. \A c \in Chains, x \in Originals : c # k \/ x # x0 => Where(c, x)' = Where(c, x)
  BY <1>2, <1>3 DEF Where, Place
<1>5. h \in Int /\ a \in [Chains -> Int] /\ g \in [Chains -> Int] /\ m \in [Chains -> Int]
  BY WhereTypes
<1>6. n <= h
  BY DEF Home
<1>7. /\ Where(k, x0) = Place(h, a, g, m)
      /\ Where(k, x0)' = Place(h + (0 - n), a, Changed(g, j, n), m)
  BY <1>2, <1>3 DEF Where, Place
<1> HIDE DEF h, a, g, m
<1>8. B!Depart(Place(h, a, g, m), Place(h - n, a, [g EXCEPT ![j] = g[j] + n], m), j, n)
  BY <1>1, <1>5, <1>6, PlaceMoves
<1>9. h + (0 - n) = h - n
  BY <1>1, <1>5
<1>10. B!Depart(Where(k, x0), Where(k, x0)', j, n)
  BY <1>7, <1>8, <1>9 DEF Changed
<1>11. B!Step(x0, Where(k, x0), Where(k, x0)')
  BY <1>10 DEF B!Step
<1> QED BY <1>4, <1>11, OneAssetMoves

\* Units of the asset x0 of chain j arrive on chain k.
LEMMA ArriveBridge ==
  ASSUME Shape, NEW k \in Chains, NEW j \in Chains, NEW x0 \in Originals,
         NEW n \in Nat, n \in Uint64 \ {0}, n <= Going(j, x0)[k], Executes(k),
         NEW l, NEW q, Moves(chain[k], chain'[k], ImportedAssetID(x0, j), n, l, q),
         \A c, d \in Chains, x \in Originals :
           /\ Load(UnderWay(c, d, x, FALSE))' =
                IF c = j /\ d = k /\ x = x0 THEN Load(UnderWay(c, d, x, FALSE)) + (0 - n)
                                            ELSE Load(UnderWay(c, d, x, FALSE))
           /\ Load(UnderWay(c, d, x, TRUE))' = Load(UnderWay(c, d, x, TRUE))
  PROVE  [B!Next]_Units
<1> DEFINE h == Home(j, x0)
           a == Abroad(j, x0)
           g == Going(j, x0)
           m == Coming(j, x0)
<1>1. n \in Int /\ 0 - n \in Int
  OBVIOUS
<1>2. /\ \A c \in Chains, x \in Originals : Home(c, x)' = Home(c, x)
      /\ Abroad(j, x0)' = Changed(a, k, n)
      /\ \A c \in Chains, x \in Originals : c # j \/ x # x0 => Abroad(c, x)' = Abroad(c, x)
  BY AbroadMoves
<1>3. /\ Going(j, x0)' = Changed(g, k, 0 - n)
      /\ \A c \in Chains, x \in Originals : c # j \/ x # x0 => Going(c, x)' = Going(c, x)
      /\ \A c \in Chains, x \in Originals : Coming(c, x)' = Coming(c, x)
  BY <1>1, GoingMoves
<1>4. \A c \in Chains, x \in Originals : c # j \/ x # x0 => Where(c, x)' = Where(c, x)
  BY <1>2, <1>3 DEF Where, Place
<1>5. h \in Int /\ a \in [Chains -> Int] /\ g \in [Chains -> Int] /\ m \in [Chains -> Int]
      /\ g[k] \in Nat
  BY WhereTypes
<1>6. n <= g[k]
  OBVIOUS
<1>7. /\ Where(j, x0) = Place(h, a, g, m)
      /\ Where(j, x0)' = Place(h, Changed(a, k, n), Changed(g, k, 0 - n), m)
  BY <1>2, <1>3 DEF Where, Place
<1> HIDE DEF h, a, g, m
<1>8. B!Arrive(Place(h, a, g, m),
              Place(h, [a EXCEPT ![k] = a[k] + n], [g EXCEPT ![k] = g[k] - n], m), k, n)
  BY <1>1, <1>5, <1>6, PlaceMoves
<1>9. g[k] + (0 - n) = g[k] - n
  BY <1>1, <1>5
<1>10. B!Arrive(Where(j, x0), Where(j, x0)', k, n)
  BY <1>7, <1>8, <1>9 DEF Changed
<1>11. B!Step(x0, Where(j, x0), Where(j, x0)')
  BY <1>10 DEF B!Step
<1> QED BY <1>4, <1>11, OneAssetMoves

\* What of the asset x0 of chain j the accounts of chain k own leaves for home.
LEMMA LeaveBridge ==
  ASSUME Shape, NEW k \in Chains, NEW j \in Chains, NEW x0 \in Originals,
         NEW n \in Nat, n \in Uint64 \ {0}, n <= Owned(chain[k], ImportedAssetID(x0, j)), Executes(k),
         NEW l, NEW q, Moves(chain[k], chain'[k], ImportedAssetID(x0, j), 0 - n, l, q),
         \A c, d \in Chains, x \in Originals :
           /\ Load(UnderWay(d, c, x, TRUE))' =
                IF c = j /\ d = k /\ x = x0 THEN Load(UnderWay(d, c, x, TRUE)) + n
                                            ELSE Load(UnderWay(d, c, x, TRUE))
           /\ Load(UnderWay(d, c, x, FALSE))' = Load(UnderWay(d, c, x, FALSE))
  PROVE  [B!Next]_Units
<1> DEFINE h == Home(j, x0)
           a == Abroad(j, x0)
           g == Going(j, x0)
           m == Coming(j, x0)
<1>1. n \in Int /\ 0 - n \in Int
  OBVIOUS
<1>2. /\ \A c \in Chains, x \in Originals : Home(c, x)' = Home(c, x)
      /\ Abroad(j, x0)' = Changed(a, k, 0 - n)
      /\ \A c \in Chains, x \in Originals : c # j \/ x # x0 => Abroad(c, x)' = Abroad(c, x)
  BY AbroadMoves
<1>3. /\ Coming(j, x0)' = Changed(m, k, n)
      /\ \A c \in Chains, x \in Originals : c # j \/ x # x0 => Coming(c, x)' = Coming(c, x)
      /\ \A c \in Chains, x \in Originals : Going(c, x)' = Going(c, x)
  BY <1>1, ComingMoves
<1>4. \A c \in Chains, x \in Originals : c # j \/ x # x0 => Where(c, x)' = Where(c, x)
  BY <1>2, <1>3 DEF Where, Place
<1>5. h \in Int /\ a \in [Chains -> Int] /\ g \in [Chains -> Int] /\ m \in [Chains -> Int]
      /\ a[k] \in Nat
  BY WhereTypes
<1>6. n <= a[k]
  BY DEF Abroad
<1>7. /\ Where(j, x0) = Place(h, a, g, m)
      /\ Where(j, x0)' = Place(h, Changed(a, k, 0 - n), g, Changed(m, k, n))
  BY <1>2, <1>3 DEF Where, Place
<1> HIDE DEF h, a, g, m
<1>8. B!Leave(Place(h, a, g, m),
              Place(h, [a EXCEPT ![k] = a[k] - n], g, [m EXCEPT ![k] = m[k] + n]), k, n)
  BY <1>1, <1>5, <1>6, PlaceMoves
<1>9. a[k] + (0 - n) = a[k] - n
  BY <1>1, <1>5
<1>10. B!Leave(Where(j, x0), Where(j, x0)', k, n)
  BY <1>7, <1>8, <1>9 DEF Changed
<1>11. B!Step(x0, Where(j, x0), Where(j, x0)')
  BY <1>10 DEF B!Step
<1> QED BY <1>4, <1>11, OneAssetMoves

\* Units of the asset x0 of chain k return from chain j.
LEMMA ReturnBridge ==
  ASSUME Shape, NEW k \in Chains, NEW j \in Chains, NEW x0 \in Originals,
         NEW n \in Nat, n \in Uint64 \ {0}, n <= Coming(k, x0)[j], Executes(k),
         NEW l, NEW q, Moves(chain[k], chain'[k], x0, n, l, q),
         \A c, d \in Chains, x \in Originals :
           /\ Load(UnderWay(d, c, x, TRUE))' =
                IF c = k /\ d = j /\ x = x0 THEN Load(UnderWay(d, c, x, TRUE)) + (0 - n)
                                            ELSE Load(UnderWay(d, c, x, TRUE))
           /\ Load(UnderWay(d, c, x, FALSE))' = Load(UnderWay(d, c, x, FALSE))
  PROVE  [B!Next]_Units
<1> DEFINE h == Home(k, x0)
           a == Abroad(k, x0)
           g == Going(k, x0)
           m == Coming(k, x0)
<1>1. n \in Int /\ 0 - n \in Int
  OBVIOUS
<1>2. /\ Home(k, x0)' = h + n
      /\ \A c \in Chains, x \in Originals : c # k \/ x # x0 => Home(c, x)' = Home(c, x)
      /\ \A c \in Chains, x \in Originals : Abroad(c, x)' = Abroad(c, x)
  BY HomeMoves
<1>3. /\ Coming(k, x0)' = Changed(m, j, 0 - n)
      /\ \A c \in Chains, x \in Originals : c # k \/ x # x0 => Coming(c, x)' = Coming(c, x)
      /\ \A c \in Chains, x \in Originals : Going(c, x)' = Going(c, x)
  BY <1>1, ComingMoves
<1>4. \A c \in Chains, x \in Originals : c # k \/ x # x0 => Where(c, x)' = Where(c, x)
  BY <1>2, <1>3 DEF Where, Place
<1>5. h \in Int /\ a \in [Chains -> Int] /\ g \in [Chains -> Int] /\ m \in [Chains -> Int]
      /\ m[j] \in Nat
  BY WhereTypes
<1>6. n <= m[j]
  OBVIOUS
<1>7. /\ Where(k, x0) = Place(h, a, g, m)
      /\ Where(k, x0)' = Place(h + n, a, g, Changed(m, j, 0 - n))
  BY <1>2, <1>3 DEF Where, Place
<1> HIDE DEF h, a, g, m
<1>8. B!Return(Place(h, a, g, m), Place(h + n, a, g, [m EXCEPT ![j] = m[j] - n]), j, n)
  BY <1>1, <1>5, <1>6, PlaceMoves
<1>9. m[j] + (0 - n) = m[j] - n
  BY <1>1, <1>5
<1>10. B!Return(Where(k, x0), Where(k, x0)', j, n)
  BY <1>7, <1>8, <1>9 DEF Changed
<1>11. B!Step(x0, Where(k, x0), Where(k, x0)')
  BY <1>10 DEF B!Step
<1> QED BY <1>4, <1>11, OneAssetMoves

\* ExportAsset: units depart, or leave for home.
LEMMA ExportBridge ==
  ASSUME Shape, SupplyAccounted, NEW k \in Chains, NEW e \in Exports, Exporting(k, e)
  PROVE  [B!Next]_Units
<1> DEFINE msg == WarpTransfer(chain[k], k, e, Cardinality(sent) + 1)
           n == e.Value + e.Reward
           j == e.Destination
<1>1. /\ Executes(k) /\ Departs(chain[k], chain'[k], e) /\ e.Value > 0 /\ Typed(chain'[k])
  BY DEF Exporting, Executes, IsState
<1>2. /\ e.Value \in Nat /\ e.Reward \in Nat /\ j \in Chains /\ e.Return \in BOOLEAN
      /\ e.Asset \in Assets
  BY FieldTypes
<1>3. /\ msg.Return = e.Return /\ msg.SourceChainID = k /\ msg.DestinationChainID = j
      /\ e.Asset \in DOMAIN chain[k].asset
      /\ e.Asset = IF e.Return THEN ImportedAssetID(msg.Asset, j) ELSE msg.Asset
      /\ msg.Asset \in Originals
  BY NewMessage, FieldTypes
<1>4. \A c, d, x, b : Load(UnderWay(c, d, x, b))' =
        IF Carries(msg, c, d, x, b) THEN Load(UnderWay(c, d, x, b)) + n
                                    ELSE Load(UnderWay(c, d, x, b))
  BY ExportLoads
<1> HIDE DEF msg
<1>5. PICK x0 \in Originals : msg.Asset = x0
  BY <1>3
<1>6. n \in Nat /\ n > 0 /\ 0 - n \in Int
  BY <1>1, <1>2
<1>7. Owned(chain[k], e.Asset) \in Uint64 /\ Owned(chain[k], e.Asset) \in Nat
      /\ Owned(chain'[k], e.Asset) \in Nat
  BY <1>1, <1>2, <1>3, OwnedUint64, Uint64Range, TotalsType, ShapeTyped
<1>8. Owned(chain'[k], e.Asset) = Owned(chain[k], e.Asset) + (0 - n)
  BY <1>1, <1>2 DEF Departs, Moves
<1> HIDE DEF n, j
<1>9. n <= Owned(chain[k], e.Asset) /\ n \in Uint64 \ {0}
  <2>1. n <= Owned(chain[k], e.Asset)
    BY <1>6, <1>7, <1>8
  <2> QED BY <1>6, <1>7, <2>1, AmountRange
<1>10. CASE e.Return
  <2>1. /\ Moves(chain[k], chain'[k], ImportedAssetID(x0, j), 0 - n, 0, 0 - n)
        /\ e.Asset = ImportedAssetID(x0, j) /\ msg.Return = TRUE
    BY <1>1, <1>2, <1>3, <1>5, <1>10 DEF Departs, n
  <2>2. ASSUME NEW c \in Chains, NEW d \in Chains, NEW x \in Originals
        PROVE  /\ Carries(msg, d, c, x, TRUE) <=> c = j /\ d = k /\ x = x0
               /\ ~ Carries(msg, d, c, x, FALSE)
    BY <1>3, <1>5, <2>1 DEF Carries
  <2>3. \A c, d \in Chains, x \in Originals :
          /\ Load(UnderWay(d, c, x, TRUE))' =
               IF c = j /\ d = k /\ x = x0 THEN Load(UnderWay(d, c, x, TRUE)) + n
                                           ELSE Load(UnderWay(d, c, x, TRUE))
          /\ Load(UnderWay(d, c, x, FALSE))' = Load(UnderWay(d, c, x, FALSE))
    <3> SUFFICES ASSUME NEW c \in Chains, NEW d \in Chains, NEW x \in Originals
                 PROVE  /\ Load(UnderWay(d, c, x, TRUE))' =
                             IF c = j /\ d = k /\ x = x0 THEN Load(UnderWay(d, c, x, TRUE)) + n
                                                         ELSE Load(UnderWay(d, c, x, TRUE))
                        /\ Load(UnderWay(d, c, x, FALSE))' = Load(UnderWay(d, c, x, FALSE))
      OBVIOUS
    <3>1. Load(UnderWay(d, c, x, TRUE))' = IF Carries(msg, d, c, x, TRUE)
             THEN Load(UnderWay(d, c, x, TRUE)) + n ELSE Load(UnderWay(d, c, x, TRUE))
      BY <1>4, Zenon
    <3>2. Load(UnderWay(d, c, x, FALSE))' = IF Carries(msg, d, c, x, FALSE)
             THEN Load(UnderWay(d, c, x, FALSE)) + n ELSE Load(UnderWay(d, c, x, FALSE))
      BY <1>4, Zenon
    <3>3. /\ Carries(msg, d, c, x, TRUE) <=> c = j /\ d = k /\ x = x0
          /\ ~ Carries(msg, d, c, x, FALSE)
      BY <2>2
    <3>4. CASE c = j /\ d = k /\ x = x0
      BY <3>1, <3>2, <3>3, <3>4, Zenon
    <3>5. CASE ~ (c = j /\ d = k /\ x = x0)
      BY <3>1, <3>2, <3>3, <3>5, Zenon
    <3> QED BY <3>4, <3>5, Zenon
  <2> QED BY <1>1, <1>2, <1>6, <1>9, <2>1, <2>3, LeaveBridge
<1>11. CASE ~ e.Return
  <2>1. /\ Moves(chain[k], chain'[k], x0, 0 - n, n, 0) /\ e.Asset = x0 /\ msg.Return = FALSE
    BY <1>1, <1>2, <1>3, <1>5, <1>11 DEF Departs, n
  <2>2. ASSUME NEW c \in Chains, NEW d \in Chains, NEW x \in Originals
        PROVE  /\ Carries(msg, c, d, x, FALSE) <=> c = k /\ d = j /\ x = x0
               /\ ~ Carries(msg, c, d, x, TRUE)
    BY <1>3, <1>5, <2>1 DEF Carries
  <2>3. \A c, d \in Chains, x \in Originals :
          /\ Load(UnderWay(c, d, x, FALSE))' =
               IF c = k /\ d = j /\ x = x0 THEN Load(UnderWay(c, d, x, FALSE)) + n
                                           ELSE Load(UnderWay(c, d, x, FALSE))
          /\ Load(UnderWay(c, d, x, TRUE))' = Load(UnderWay(c, d, x, TRUE))
    <3>1. ASSUME NEW c \in Chains, NEW d \in Chains, NEW x \in Originals
          PROVE  /\ Load(UnderWay(c, d, x, FALSE))' =
                      IF Carries(msg, c, d, x, FALSE) THEN Load(UnderWay(c, d, x, FALSE)) + n
                                                     ELSE Load(UnderWay(c, d, x, FALSE))
                 /\ Load(UnderWay(c, d, x, TRUE))' =
                      IF Carries(msg, c, d, x, TRUE) THEN Load(UnderWay(c, d, x, TRUE)) + n
                                                      ELSE Load(UnderWay(c, d, x, TRUE))
      BY <1>4, Zenon
    <3> QED BY <2>2, <3>1
  <2> QED BY <1>1, <1>2, <1>6, <1>9, <2>1, <2>3, DepartBridge
<1> QED BY <1>2, <1>10, <1>11

\* ImportAsset: units arrive, or return home.
LEMMA ImportBridge ==
  ASSUME Shape, LoansCoverAbroad, NEW k \in Chains, NEW m \in sent, Importing(k, m)
  PROVE  [B!Next]_Units
<1> DEFINE n == m.Value + m.Reward
           j == m.SourceChainID
           x0 == m.Asset
<1>1. /\ Executes(k) /\ Arrives(chain[k], chain'[k], m) /\ m.DestinationChainID = k
      /\ m \in InFlight /\ m \in WarpTransfers
  BY DEF Importing, InFlight, Shape
<1>2. /\ m.Value \in Nat /\ m.Reward \in Nat /\ j \in Chains /\ m.Return \in BOOLEAN
      /\ x0 \in Originals /\ m.Value # 0
  BY <1>1, FieldTypes DEF WarpTransfers
<1>3. n \in Nat /\ n > 0 /\ 0 - n \in Int
  BY <1>2
<1>4. \A c, d, x, b : Load(UnderWay(c, d, x, b))' =
        IF Carries(m, c, d, x, b) THEN Load(UnderWay(c, d, x, b)) - n
                                  ELSE Load(UnderWay(c, d, x, b))
  BY ImportLoads
<1>5. /\ \A c, d \in Chains, x \in Originals :
           /\ Load(UnderWay(c, d, x, FALSE)) \in Nat /\ Load(UnderWay(c, d, x, TRUE)) \in Nat
  BY CoverTypes
<1>6. n <= Load(UnderWay(j, k, x0, m.Return))
  BY <1>1, InFlightLoad
<1> HIDE DEF n, j, x0
<1>7. \A i \in Nat : i + (0 - n) = i - n
  BY <1>3
<1>8. CASE m.Return
  <2>1. Moves(chain[k], chain'[k], x0, n, 0 - n, 0) /\ m.Return = TRUE
    BY <1>1, <1>2, <1>8 DEF Arrives, AssetIn, n, x0
  <2>2. ASSUME NEW c \in Chains, NEW d \in Chains, NEW x \in Originals
        PROVE  /\ Carries(m, d, c, x, TRUE) <=> c = k /\ d = j /\ x = x0
               /\ ~ Carries(m, d, c, x, FALSE)
    BY <1>1, <2>1 DEF Carries, x0, j
  <2>3. \A c, d \in Chains, x \in Originals :
          /\ Load(UnderWay(d, c, x, TRUE))' =
               IF c = k /\ d = j /\ x = x0 THEN Load(UnderWay(d, c, x, TRUE)) - n
                                           ELSE Load(UnderWay(d, c, x, TRUE))
          /\ Load(UnderWay(d, c, x, FALSE))' = Load(UnderWay(d, c, x, FALSE))
    <3> SUFFICES ASSUME NEW c \in Chains, NEW d \in Chains, NEW x \in Originals
                 PROVE  /\ Load(UnderWay(d, c, x, TRUE))' =
                             IF c = k /\ d = j /\ x = x0 THEN Load(UnderWay(d, c, x, TRUE)) - n
                                                         ELSE Load(UnderWay(d, c, x, TRUE))
                        /\ Load(UnderWay(d, c, x, FALSE))' = Load(UnderWay(d, c, x, FALSE))
      OBVIOUS
    <3>1. Load(UnderWay(d, c, x, TRUE))' = IF Carries(m, d, c, x, TRUE)
             THEN Load(UnderWay(d, c, x, TRUE)) - n ELSE Load(UnderWay(d, c, x, TRUE))
      BY <1>4, Zenon
    <3>2. Load(UnderWay(d, c, x, FALSE))' = IF Carries(m, d, c, x, FALSE)
             THEN Load(UnderWay(d, c, x, FALSE)) - n ELSE Load(UnderWay(d, c, x, FALSE))
      BY <1>4, Zenon
    <3>3. /\ Carries(m, d, c, x, TRUE) <=> c = k /\ d = j /\ x = x0
          /\ ~ Carries(m, d, c, x, FALSE)
      BY <2>2
    <3>4. CASE c = k /\ d = j /\ x = x0
      BY <3>1, <3>2, <3>3, <3>4, Zenon
    <3>5. CASE ~ (c = k /\ d = j /\ x = x0)
      BY <3>1, <3>2, <3>3, <3>5, Zenon
    <3> QED BY <3>4, <3>5, Zenon
  <2>4. \A c, d \in Chains, x \in Originals :
          /\ Load(UnderWay(d, c, x, TRUE))' =
               IF c = k /\ d = j /\ x = x0 THEN Load(UnderWay(d, c, x, TRUE)) + (0 - n)
                                           ELSE Load(UnderWay(d, c, x, TRUE))
          /\ Load(UnderWay(d, c, x, FALSE))' = Load(UnderWay(d, c, x, FALSE))
    BY <1>5, <1>7, <2>3
  <2>5. n <= Coming(k, x0)[j] /\ Coming(k, x0)[j] \in Uint64
    <3>1. n <= Load(UnderWay(j, k, x0, TRUE))
      BY <1>6, <2>1
    <3>2. Coming(k, x0)[j] \in Uint64
      BY <1>2, LoadsUint64
    <3>3. Coming(k, x0)[j] = Load(UnderWay(j, k, x0, TRUE))
      BY <1>2 DEF Coming
    <3> QED BY <3>1, <3>2, <3>3
  <2>6. n \in Uint64 \ {0}
    BY <1>3, <2>5, AmountRange
  <2> QED BY <1>1, <1>2, <1>3, <2>1, <2>4, <2>5, <2>6, ReturnBridge
<1>9. CASE ~ m.Return
  <2>1. Moves(chain[k], chain'[k], ImportedAssetID(x0, j), n, 0, n) /\ m.Return = FALSE
    BY <1>1, <1>2, <1>9 DEF Arrives, AssetIn, n, x0, j
  <2>2. ASSUME NEW c \in Chains, NEW d \in Chains, NEW x \in Originals
        PROVE  /\ Carries(m, c, d, x, FALSE) <=> c = j /\ d = k /\ x = x0
               /\ ~ Carries(m, c, d, x, TRUE)
    BY <1>1, <2>1 DEF Carries, x0, j
  <2>3. \A c, d \in Chains, x \in Originals :
          /\ Load(UnderWay(c, d, x, FALSE))' =
               IF c = j /\ d = k /\ x = x0 THEN Load(UnderWay(c, d, x, FALSE)) - n
                                           ELSE Load(UnderWay(c, d, x, FALSE))
          /\ Load(UnderWay(c, d, x, TRUE))' = Load(UnderWay(c, d, x, TRUE))
    <3>1. ASSUME NEW c \in Chains, NEW d \in Chains, NEW x \in Originals
          PROVE  /\ Load(UnderWay(c, d, x, FALSE))' =
                      IF Carries(m, c, d, x, FALSE) THEN Load(UnderWay(c, d, x, FALSE)) - n
                                                     ELSE Load(UnderWay(c, d, x, FALSE))
                 /\ Load(UnderWay(c, d, x, TRUE))' =
                      IF Carries(m, c, d, x, TRUE) THEN Load(UnderWay(c, d, x, TRUE)) - n
                                                      ELSE Load(UnderWay(c, d, x, TRUE))
      BY <1>4, Zenon
    <3> QED BY <2>2, <3>1
  <2>4. \A c, d \in Chains, x \in Originals :
          /\ Load(UnderWay(c, d, x, FALSE))' =
               IF c = j /\ d = k /\ x = x0 THEN Load(UnderWay(c, d, x, FALSE)) + (0 - n)
                                           ELSE Load(UnderWay(c, d, x, FALSE))
          /\ Load(UnderWay(c, d, x, TRUE))' = Load(UnderWay(c, d, x, TRUE))
    BY <1>5, <1>7, <2>3
  <2>5. n <= Going(j, x0)[k] /\ Going(j, x0)[k] \in Uint64
    <3>1. n <= Load(UnderWay(j, k, x0, FALSE))
      BY <1>6, <2>1
    <3>2. Going(j, x0)[k] \in Uint64
      BY <1>2, LoadsUint64
    <3>3. Going(j, x0)[k] = Load(UnderWay(j, k, x0, FALSE))
      BY <1>2 DEF Going
    <3> QED BY <3>1, <3>2, <3>3
  <2>6. n \in Uint64 \ {0}
    BY <1>3, <2>5, AmountRange
  <2> QED BY <1>1, <1>2, <1>3, <2>1, <2>4, <2>5, <2>6, ArriveBridge
<1> QED BY <1>2, <1>8, <1>9

\* At genesis everything is at home.
LEMMA InitBridge ==
  ASSUME Init
  PROVE  B!Init
<1>1. Inv /\ \A c \in Chains : chain[c] = Genesis(c)
  BY InitInv DEF Init
<1>2. Shape
  BY <1>1 DEF Inv
<1> DEFINE none == [d \in Chains |-> 0]
<1>3. ASSUME NEW c \in Chains, NEW x \in Originals
      PROVE  /\ Units[c][x] = Where(c, x)
             /\ Abroad(c, x) = none /\ Going(c, x) = none /\ Coming(c, x) = none
             /\ x \in NewAssets => Home(c, x) = 0
  <2>1. Units[c][x] = Where(c, x)
    BY UnitsAre
  <2>2. \A d \in Chains : Owned(chain[d], ImportedAssetID(x, c)) = 0
    <3>1. ImportedAssetID(x, c) \in Assets /\ ImportedAssetID(x, c) # Native
      BY ImportedIDs DEF Originals
    <3> QED BY <1>1, <3>1, GenesisTotals
  <2>3. ASSUME NEW d, NEW b PROVE Load(UnderWay(c, d, x, b)) = 0 /\ Load(UnderWay(d, c, x, b)) = 0
    <3>1. UnderWay(c, d, x, b) = {} /\ UnderWay(d, c, x, b) = {}
      BY DEF Init, UnderWay, InFlight
    <3>2. Load({}) = 0
      BY SumEmpty DEF Load
    <3> QED BY <3>1, <3>2
  <2>4. x \in NewAssets => Home(c, x) = 0
    <3>1. x \in Assets /\ (x \in NewAssets => x # Native)
      BY AssetsAssumption DEF Assets
    <3> QED BY <1>1, <3>1, GenesisTotals DEF Home
  <2> QED BY <2>1, <2>2, <2>3, <2>4 DEF Abroad, Going, Coming
<1> HIDE DEF none
<1>4. ASSUME NEW c \in Chains, NEW x \in Originals
      PROVE  LET u == Units[c][x]
             IN /\ u = [home |-> u.home, abroad |-> none, going |-> none, coming |-> none]
                /\ x \in NewAssets => u.home = 0
  <2>1. Units[c][x] = [home |-> Home(c, x), abroad |-> none, going |-> none, coming |-> none]
    BY <1>3 DEF Where, Place
  <2> QED BY <1>3, <2>1
<1> QED BY <1>4 DEF B!Init, none

\* Every step of the chains is a step of the bridge, or none.
LEMMA NextBridge ==
  ASSUME Inv, [Next]_vars
  PROVE  [B!Next]_Units
<1>1. Shape /\ SupplyAccounted /\ LoansCoverAbroad
  BY DEF Inv
<1>2. ASSUME UNCHANGED <<chain, sent>> PROVE [B!Next]_Units
  <2>1. Units' = Units
    BY <1>2 DEF Units, Owned, Load, UnderWay, InFlight
  <2> QED BY <2>1
<1> QED BY <1>1, <1>2, NextSteps, LocalBridge, ExportBridge, ImportBridge

\* The chains implement the bridge: for any number of chains, accounts, assets and
\* messages, delivered in whatever order, the six actions only move units between
\* home and abroad; MintAsset alone makes some and BurnAsset alone destroys some.
THEOREM ChainsImplementBridge == Spec => IsBridge
<1>1. Inv /\ [Next]_vars => [B!Next]_Units
  BY NextBridge
<1> QED BY InitBridge, InvHolds, <1>1, PTL DEF Spec, IsBridge, B!Spec
=============================================================================

---------------------------- MODULE Books_proofs ----------------------------
(***************************************************************************)
(* Facts about the operators the components share: what a fill does to an  *)
(* account (Portfolio), and what record() leaves in the journal's file and *)
(* read_all() gives (JournalFile).  For any account, any fill, and files   *)
(* of any length over any kind of entries.  The cost of all positions is a *)
(* fold over a set and read_all's loop one over a sequence; what they give *)
(* is proved by induction, with Folding.                                   *)
(***************************************************************************)
EXTENDS Portfolio, JournalFile, FiniteSetTheorems, TLAPS

-----------------------------------------------------------------------------
(* The account: rounding of the weighted average, fills, cost *)

(* Euclidean division by a positive number, between its two bounds.        *)
LEMMA DivBounds ==
  ASSUME NEW n \in Nat, NEW d \in Nat \ {0}
  PROVE  /\ n \div d \in Nat
         /\ d * (n \div d) <= n
         /\ n < d * (n \div d) + d
OBVIOUS

(* Only one integer lies between those bounds.                             *)
LEMMA DivUnique ==
  ASSUME NEW d \in Nat \ {0}, NEW r \in Int, NEW p \in Int, NEW n \in Int,
         d * r <= n, n < d * r + d, d * p <= n, n < d * p + d
  PROVE  r = p
<1>1. CASE r < p
  <2>1. r + 1 <= p BY <1>1
  <2>2. d * (r + 1) <= d * p BY <2>1
  <2>3. d * (r + 1) = d * r + d OBVIOUS
  <2> QED BY <2>2, <2>3
<1>2. CASE p < r
  <2>1. p + 1 <= r BY <1>2
  <2>2. d * (p + 1) <= d * r BY <2>1
  <2>3. d * (p + 1) = d * p + d OBVIOUS
  <2> QED BY <2>2, <2>3
<1> QED BY <1>1, <1>2

(* The rounded average is within half a unit per lot of the exact one      *)
(* (_apply_buy: new_cost_basis / new_qty).                                 *)
LEMMA RoundDivError ==
  ASSUME NEW c \in Nat, NEW q \in Nat \ {0}
  PROVE  /\ RoundDiv(c, q) \in Nat
         /\ 2 * (q * RoundDiv(c, q)) - 2 * c <= q
         /\ 2 * c - 2 * (q * RoundDiv(c, q)) <= q
<1> DEFINE r == (2 * c + q) \div (2 * q)
<1>1. 2 * c + q \in Nat /\ 2 * q \in Nat \ {0}
  OBVIOUS
<1>2. /\ r \in Nat
      /\ (2 * q) * r <= 2 * c + q
      /\ 2 * c + q < (2 * q) * r + 2 * q
  BY <1>1, DivBounds
<1>3. (2 * q) * r = 2 * (q * r)
  BY <1>2
<1>4. r = RoundDiv(c, q)
  BY DEF RoundDiv
<1> HIDE DEF r
<1>5. q * r \in Nat
  BY <1>2
<1> QED BY <1>2, <1>3, <1>4, <1>5

(* A position opened by one fill averages to exactly that fill's price.    *)
LEMMA RoundDivExact ==
  ASSUME NEW p \in Nat, NEW q \in Nat \ {0}
  PROVE  RoundDiv(q * p, q) = p
<1> DEFINE n == 2 * (q * p) + q
           r == n \div (2 * q)
<1>1. n \in Nat /\ 2 * q \in Nat \ {0} /\ q * p \in Nat
  OBVIOUS
<1>2. r \in Nat /\ (2 * q) * r <= n /\ n < (2 * q) * r + 2 * q
  BY <1>1, DivBounds
<1>3. (2 * q) * p <= n /\ n < (2 * q) * p + 2 * q
  <2>1. (2 * q) * p = 2 * (q * p) OBVIOUS
  <2> QED BY <2>1, <1>1
<1>4. r = RoundDiv(q * p, q)
  BY DEF RoundDiv
<1> HIDE DEF r
<1>5. r = p
  <2> HIDE DEF n
  <2> QED BY <1>1, <1>2, <1>3, DivUnique
<1> QED BY <1>4, <1>5

-----------------------------------------------------------------------------
\* no symbol is a key of the positions dict without being held, or held
\* without its key
KeysHeld(a) == \A s \in Symbols : s \in a.open <=> a.qty[s] > 0

\* a fill as ExecutionEngine makes it: something is traded, and the fee is
\* no more than the traded value
ProperFill(f) ==
  /\ f.symbol \in Symbols /\ f.qty \in Nat \ {0} /\ f.price \in Nat \ {0}
  /\ f.fee \in Nat /\ f.fee <= f.qty * f.price

(* A fresh tracker is a well-formed account that holds nothing.            *)
LEMMA NewAccountIsAccount ==
  ASSUME NEW c \in Nat
  PROVE  NewAccount(c) \in Accounts /\ KeysHeld(NewAccount(c))
BY DEF NewAccount, Accounts, KeysHeld

(* A buy that fits leaves a well-formed account (_apply_buy).              *)
LEMMA BoughtIsAccount ==
  ASSUME NEW a \in Accounts, KeysHeld(a), NEW f, ProperFill(f), BuyFits(a, f)
  PROVE  Bought(a, f) \in Accounts /\ KeysHeld(Bought(a, f))
<1> DEFINE s == f.symbol
           q == a.qty[s] + f.qty
           cost == a.qty[s] * a.avg[s] + f.qty * f.price
           b == Bought(a, f)
<1>1. /\ s \in Symbols /\ f.qty \in Nat \ {0} /\ f.price \in Nat \ {0}
      /\ f.fee \in Nat
  BY DEF ProperFill
<1>2. a.qty[s] \in Nat /\ a.avg[s] \in Nat /\ a.cash \in Nat
  BY <1>1 DEF Accounts
<1>3. cost \in Nat
  <2>1. a.qty[s] * a.avg[s] \in Nat BY <1>2
  <2>2. f.qty * f.price \in Nat BY <1>1
  <2> QED BY <2>1, <2>2
<1>4. q \in Nat \ {0}
  BY <1>1, <1>2
<1>5. RoundDiv(cost, q) \in Nat
  <2> HIDE DEF cost, q
  <2> QED BY <1>3, <1>4, RoundDivError
<1>6. a.cash - Outlay(f) \in Nat
  <2>1. f.qty * f.price \in Nat BY <1>1
  <2> QED BY <2>1, <1>1, <1>2 DEF BuyFits, Outlay
<1>7. b = [cash |-> a.cash - Outlay(f), realized |-> a.realized,
           open |-> a.open \cup {s},
           qty |-> [a.qty EXCEPT ![s] = q],
           avg |-> [a.avg EXCEPT ![s] = RoundDiv(cost, q)]]
  BY DEF Bought, Basis
<1> HIDE DEF cost, q, b
<1>8. b \in Accounts
  BY <1>1, <1>4, <1>5, <1>6, <1>7 DEF Accounts
<1>9. KeysHeld(b)
  BY <1>1, <1>4, <1>7 DEF KeysHeld, Accounts
<1> QED BY <1>8, <1>9 DEF b

(* A sell that fits leaves a well-formed account, and deletes the position *)
(* exactly when nothing of it is left (_apply_sell).                       *)
LEMMA SoldIsAccount ==
  ASSUME NEW a \in Accounts, KeysHeld(a), NEW f, ProperFill(f), SellFits(a, f)
  PROVE  Sold(a, f) \in Accounts /\ KeysHeld(Sold(a, f))
<1> DEFINE s == f.symbol
           left == a.qty[s] - f.qty
           gain == (f.price - a.avg[s]) * f.qty
           b == Sold(a, f)
<1>1. /\ s \in Symbols /\ f.qty \in Nat \ {0} /\ f.price \in Nat \ {0}
      /\ f.fee \in Nat /\ f.fee <= f.qty * f.price
  BY DEF ProperFill
<1>2. /\ a.qty[s] \in Nat /\ a.avg[s] \in Nat /\ a.cash \in Nat
      /\ a.realized \in Int
  BY <1>1 DEF Accounts
<1>3. left \in Nat
  BY <1>1, <1>2 DEF SellFits
<1>4. a.cash + f.qty * f.price - f.fee \in Nat
  <2>1. f.qty * f.price \in Nat BY <1>1
  <2> QED BY <2>1, <1>1, <1>2
<1>5. a.realized + gain - f.fee \in Int
  <2>1. gain \in Int
    <3>1. f.price - a.avg[s] \in Int BY <1>1, <1>2
    <3> QED BY <3>1, <1>1
  <2> QED BY <2>1, <1>1, <1>2
<1>6. b = [cash |-> a.cash + f.qty * f.price - f.fee,
           realized |-> a.realized + gain - f.fee,
           open |-> IF left = 0 THEN a.open \ {s} ELSE a.open,
           qty |-> [a.qty EXCEPT ![s] = left],
           avg |-> [a.avg EXCEPT ![s] = IF left = 0 THEN 0 ELSE @]]
  BY DEF Sold
<1> HIDE DEF left, gain, b
<1>7. b \in Accounts
  BY <1>1, <1>3, <1>4, <1>5, <1>6 DEF Accounts
<1>8. KeysHeld(b)
  BY <1>1, <1>3, <1>6 DEF KeysHeld, Accounts, SellFits
<1> QED BY <1>7, <1>8 DEF b

-----------------------------------------------------------------------------
(* Sums over the positions *)

PickOne(S) == CHOOSE x \in S : TRUE

Sums == INSTANCE Folding WITH op <- +, choose <- PickOne

(* The community modules' sum of a function is a fold over its domain.    *)
LEMMA SumIsFold ==
  ASSUME NEW f
  PROVE  SumFunction(f) = Sums!Fold(0, f, DOMAIN f)
BY DEF SumFunction, SumFunctionOnSet, FoldFunctionOnSet, MapThenFoldSet,
       Sums!Fold, Sums!MapThenFoldSet, PickOne

(* A finite set can be summed over: each nonempty subset has an element   *)
(* to begin with.                                                         *)
LEMMA FiniteSetsHaveSums ==
  ASSUME NEW S, IsFiniteSet(S)
  PROVE  Sums!Foldable(S)
BY DEF Sums!Foldable, Sums!IsFiniteSet, IsFiniteSet, PickOne

(* A sum of finitely many integers is an integer.                         *)
LEMMA SumIsInt ==
  ASSUME NEW S, IsFiniteSet(S), NEW f \in [S -> Int]
  PROVE  SumFunction(f) \in Int
<1>1. \A u, v \in Int : u + v \in Int
  OBVIOUS
<1>2. Sums!Fold(0, f, S) \in Int
  BY <1>1, Sums!FoldType, FiniteSetsHaveSums
<1> QED
  BY <1>2, SumIsFold

(* A sum is any one of its summands and the sum of the others.             *)
LEMMA SumTakesOne ==
  ASSUME NEW S, IsFiniteSet(S), NEW f \in [S -> Int], NEW x \in S
  PROVE  SumFunction(f) = f[x] + SumFunction([y \in S \ {x} |-> f[y]])
<1>1. \A u, v \in Int : u + v \in Int
  OBVIOUS
<1>2. \A u, v, w \in Int : u + (v + w) = v + (u + w)
  OBVIOUS
<1>3. Sums!Fold(0, f, S) = f[x] + Sums!Fold(0, f, S \ {x})
  BY <1>1, <1>2, Sums!FoldAnyOrder, FiniteSetsHaveSums
<1>4. Sums!Fold(0, f, S \ {x}) = Sums!Fold(0, [y \in S \ {x} |-> f[y]], S \ {x})
  BY FiniteSetsHaveSums, Sums!FoldCongruence, FS_Subset
<1> QED
  BY <1>3, <1>4, SumIsFold

(* A sum of sums is the sum of both: by induction over the domain.         *)
LEMMA SumsAdd ==
  ASSUME NEW S, IsFiniteSet(S), NEW f \in [S -> Int], NEW g \in [S -> Int]
  PROVE  SumFunction([x \in S |-> f[x] + g[x]]) = SumFunction(f) + SumFunction(g)
<1> DEFINE h == [x \in S |-> f[x] + g[x]]
           part(k, T) == SumFunction([x \in T |-> k[x]])
           good == {T \in SUBSET S : part(h, T) = part(f, T) + part(g, T)}
<1>1. h \in [S -> Int]
  OBVIOUS
<1>2. ASSUME NEW k \in [S -> Int], NEW T \in SUBSET S
      PROVE  /\ part(k, T) \in Int
             /\ T = {} => part(k, T) = 0
             /\ \A x \in T : part(k, T) = k[x] + part(k, T \ {x})
  <2>1. IsFiniteSet(T) /\ [x \in T |-> k[x]] \in [T -> Int]
    BY FS_Subset
  <2>2. part(k, T) \in Int
    BY <2>1, SumIsInt
  <2>3. T = {} => part(k, T) = 0
    <3>1. Sums!Fold(0, [x \in {} |-> k[x]], {}) = 0
      BY FS_EmptySet, FiniteSetsHaveSums, Sums!FoldDef
    <3> QED
      BY <3>1, SumIsFold
  <2>4. ASSUME NEW x \in T PROVE part(k, T) = k[x] + part(k, T \ {x})
    <3> DEFINE r == [y \in T |-> k[y]]
    <3>1. SumFunction(r) = r[x] + SumFunction([y \in T \ {x} |-> r[y]])
      <4>1. IsFiniteSet(T) /\ r \in [T -> Int]
        BY <2>1
      <4> HIDE DEF r
      <4> QED
        BY <4>1, SumTakesOne
    <3>2. [y \in T \ {x} |-> r[y]] = [y \in T \ {x} |-> k[y]]
      OBVIOUS
    <3> QED
      BY <3>1, <3>2
  <2> QED
    BY <2>2, <2>3, <2>4
<1> HIDE DEF part
<1>3. ASSUME NEW T \in SUBSET S,
             \A U \in SUBSET T : U # T => U \in good
      PROVE  T \in good
  <2>1. CASE T = {}
    <3>1. part(h, T) = 0 /\ part(f, T) = 0 /\ part(g, T) = 0
      BY <1>1, <1>2, <2>1
    <3> HIDE DEF h
    <3>2. part(h, T) = part(f, T) + part(g, T)
      BY <3>1
    <3> QED
      BY <3>2
  <2>2. CASE T # {}
    <3>1. PICK x \in T : TRUE
      BY <2>2
    <3>2. part(h, T \ {x}) = part(f, T \ {x}) + part(g, T \ {x})
      BY <1>3
    <3>3. /\ part(h, T) = h[x] + part(h, T \ {x})
          /\ part(f, T) = f[x] + part(f, T \ {x})
          /\ part(g, T) = g[x] + part(g, T \ {x})
          /\ part(f, T \ {x}) \in Int /\ part(g, T \ {x}) \in Int
      BY <1>1, <1>2
    <3>4. h[x] = f[x] + g[x] /\ f[x] \in Int /\ g[x] \in Int
      OBVIOUS
    <3> HIDE DEF h
    <3>5. part(h, T) = part(f, T) + part(g, T)
      BY <3>2, <3>3, <3>4
    <3> QED
      BY <3>5
  <2> QED
    BY <2>1, <2>2
<1> HIDE DEF good
<1>4. SUBSET S \subseteq good
  <2>1. \A T \in SUBSET S :
          (\A U \in SUBSET T : U # T => U \in good) => T \in good
    BY <1>3
  <2> QED
    BY <2>1, Sums!InductionOnSubsets DEF Sums!IsFiniteSet, IsFiniteSet
<1>5. part(h, S) = part(f, S) + part(g, S)
  BY <1>4 DEF good
<1>6. \A k \in [S -> Int] : part(k, S) = SumFunction(k)
  <2>1. \A k \in [S -> Int] : [x \in S |-> k[x]] = k
    OBVIOUS
  <2> QED
    BY <2>1 DEF part
<1> QED
  BY <1>1, <1>5, <1>6

(* An account whose positions are all closed has spent nothing on them.    *)
LEMMA NothingHeldCostsNothing ==
  ASSUME NEW a, a.open = {}
  PROVE  CostBasis(a) = 0
<1> DEFINE f == [s \in {} |-> Basis(a, s)]
<1>1. CostBasis(a) = SumFunction(f)
  BY DEF CostBasis
<1>2. Sums!Fold(0, f, {}) = 0
  <2> HIDE DEF f
  <2> QED
    BY FS_EmptySet, FiniteSetsHaveSums, Sums!FoldDef
<1> QED
  BY <1>1, <1>2, SumIsFold

(* The cost of the positions is a sum of one position's and the others'.   *)
LEMMA CostOfOneAndOthers ==
  ASSUME NEW a \in Accounts, KeysHeld(a), NEW s \in Symbols
  PROVE  /\ Basis(a, s) \in Int
         /\ SumFunction([o \in a.open \ {s} |-> Basis(a, o)]) \in Int
         /\ CostBasis(a) =
              Basis(a, s) + SumFunction([o \in a.open \ {s} |-> Basis(a, o)])
<1> DEFINE f == [o \in a.open |-> Basis(a, o)]
           g == [o \in a.open \ {s} |-> Basis(a, o)]
<1>1. \A o \in Symbols : Basis(a, o) \in Int
  BY DEF Basis, Accounts
<1>2. IsFiniteSet(a.open) /\ IsFiniteSet(a.open \ {s}) /\ a.open \subseteq Symbols
  BY SymbolsFinite, FS_Subset DEF Accounts
<1>3. f \in [a.open -> Int] /\ g \in [a.open \ {s} -> Int]
  BY <1>1, <1>2
<1>4. SumFunction(g) \in Int
  <2> HIDE DEF g
  <2> QED
    BY <1>2, <1>3, SumIsInt
<1>5. CASE s \in a.open
  <2>1. g = [o \in a.open \ {s} |-> f[o]] /\ f[s] = Basis(a, s)
    BY <1>5
  <2>2. SumFunction(f) = f[s] + SumFunction([o \in a.open \ {s} |-> f[o]])
    <3> HIDE DEF f, g
    <3> QED
      BY <1>2, <1>3, <1>5, SumTakesOne
  <2> QED
    BY <1>1, <1>4, <2>1, <2>2 DEF CostBasis
<1>6. CASE s \notin a.open
  <2>1. Basis(a, s) = 0
    BY <1>6 DEF Basis, KeysHeld, Accounts
  <2>2. a.open \ {s} = a.open
    BY <1>6
  <2> QED
    BY <1>4, <2>1, <2>2 DEF CostBasis
<1> QED
  BY <1>1, <1>4, <1>5, <1>6

(* The cost of the open positions of an account is an integer.            *)
LEMMA CostIsInt ==
  ASSUME NEW a \in Accounts
  PROVE  CostBasis(a) \in Int
<1> DEFINE f == [o \in a.open |-> Basis(a, o)]
<1>1. IsFiniteSet(a.open) /\ a.open \subseteq Symbols
  BY SymbolsFinite, FS_Subset DEF Accounts
<1>2. f \in [a.open -> Int]
  BY <1>1 DEF Basis, Accounts
<1> HIDE DEF f
<1> QED
  BY <1>1, <1>2, SumIsInt DEF CostBasis, f

(* When one position changes, the cost of all changes by what it does.     *)
LEMMA CostMovesWithOne ==
  ASSUME NEW a \in Accounts, KeysHeld(a), NEW b \in Accounts, KeysHeld(b),
         NEW s \in Symbols, a.open \ {s} = b.open \ {s},
         \A o \in Symbols \ {s} : Basis(b, o) = Basis(a, o)
  PROVE  /\ CostBasis(a) \in Int /\ CostBasis(b) \in Int
         /\ CostBasis(b) - CostBasis(a) = Basis(b, s) - Basis(a, s)
<1> DEFINE others(c) == SumFunction([o \in c.open \ {s} |-> Basis(c, o)])
<1>1. others(a) = others(b)
  <2>1. [o \in a.open \ {s} |-> Basis(a, o)] = [o \in b.open \ {s} |-> Basis(b, o)]
    BY DEF Accounts
  <2> QED
    BY <2>1
<1>2. /\ Basis(a, s) \in Int /\ others(a) \in Int
      /\ CostBasis(a) = Basis(a, s) + others(a)
      /\ Basis(b, s) \in Int /\ others(b) \in Int
      /\ CostBasis(b) = Basis(b, s) + others(b)
  BY CostOfOneAndOthers
<1> HIDE DEF others
<1> QED
  BY <1>1, <1>2

(* The first buy of a symbol turns cash into cost, except for the fee: its *)
(* average is its price exactly (_apply_buy).                              *)
LEMMA FirstBuyBalances ==
  ASSUME NEW a \in Accounts, KeysHeld(a), NEW f, ProperFill(f), BuyFits(a, f),
         f.symbol \notin a.open
  PROVE  /\ Bought(a, f).avg[f.symbol] = f.price
         /\ Bought(a, f).cash + CostBasis(Bought(a, f))
              = (a.cash + CostBasis(a)) - f.fee
<1> DEFINE s == f.symbol
           b == Bought(a, f)
           value == f.qty * f.price
<1>1. /\ s \in Symbols /\ f.qty \in Nat \ {0} /\ f.price \in Nat
      /\ f.fee \in Nat /\ value \in Nat /\ a.cash \in Nat
  BY DEF ProperFill, Accounts
<1>2. a.qty[s] = 0 /\ a.avg[s] \in Nat /\ Basis(a, s) = 0
  BY <1>1 DEF KeysHeld, Accounts, Basis
<1>3. b \in Accounts /\ KeysHeld(b)
  BY BoughtIsAccount
<1>4. a.qty[s] + f.qty = f.qty /\ Basis(a, s) + f.qty * f.price = f.qty * f.price
  BY <1>1, <1>2
<1>5. b = [cash |-> a.cash - Outlay(f), realized |-> a.realized,
           open |-> a.open \cup {s},
           qty |-> [a.qty EXCEPT ![s] = f.qty],
           avg |-> [a.avg EXCEPT ![s] = f.price]]
  BY <1>1, <1>4, RoundDivExact DEF Bought
<1> HIDE DEF b
<1>6. Basis(b, s) = value
  BY <1>1, <1>5 DEF Basis, Accounts
<1>7. \A o \in Symbols \ {s} : Basis(b, o) = Basis(a, o)
  BY <1>5 DEF Basis, Accounts
<1>8. a.open \ {s} = b.open \ {s}
  BY <1>5
<1>9. /\ CostBasis(a) \in Int /\ CostBasis(b) \in Int
      /\ CostBasis(b) - CostBasis(a) = value
  <2>1. /\ CostBasis(a) \in Int /\ CostBasis(b) \in Int
        /\ CostBasis(b) - CostBasis(a) = Basis(b, s) - Basis(a, s)
    BY <1>1, <1>3, <1>7, <1>8, CostMovesWithOne
  <2> QED
    BY <2>1, <1>1, <1>2, <1>6
<1>10. b.cash = a.cash - (value + f.fee)
  BY <1>5 DEF Outlay
<1>11. b.avg[s] = f.price
  BY <1>1, <1>5 DEF Accounts
<1> HIDE DEF value
<1> QED
  BY <1>1, <1>9, <1>10, <1>11 DEF b

(* Selling the whole holding turns its cost into cash, and the difference  *)
(* is the realized profit (_apply_sell).                                   *)
LEMMA WholeSaleBalances ==
  ASSUME NEW a \in Accounts, KeysHeld(a), NEW f, ProperFill(f), SellFits(a, f),
         f.qty = a.qty[f.symbol]
  PROVE  (Sold(a, f).cash + CostBasis(Sold(a, f))) - Sold(a, f).realized
           = (a.cash + CostBasis(a)) - a.realized
<1> DEFINE s == f.symbol
           b == Sold(a, f)
           value == f.qty * f.price
           cost == f.qty * a.avg[s]
<1>1. /\ s \in Symbols /\ f.qty \in Nat /\ f.price \in Nat /\ f.fee \in Nat
      /\ a.avg[s] \in Nat /\ a.cash \in Nat /\ a.realized \in Int
  BY DEF ProperFill, Accounts
<1>2. value \in Int /\ cost \in Int
  BY <1>1
<1>3. b \in Accounts /\ KeysHeld(b)
  BY SoldIsAccount
<1>4. a.qty[s] - f.qty = 0
  BY <1>1
<1>5. b = [cash |-> a.cash + f.qty * f.price - f.fee,
           realized |-> a.realized + (f.price - a.avg[s]) * f.qty - f.fee,
           open |-> a.open \ {s},
           qty |-> [a.qty EXCEPT ![s] = 0],
           avg |-> [a.avg EXCEPT ![s] = 0]]
  BY <1>4 DEF Sold
<1>6. /\ b.cash = a.cash + (value - f.fee)
      /\ b.realized = a.realized + ((value - cost) - f.fee)
  <2>1. (f.price - a.avg[s]) * f.qty = value - cost
    BY <1>1
  <2> QED
    BY <2>1, <1>5
<1> HIDE DEF b
<1>7. Basis(b, s) = 0 /\ Basis(a, s) = cost
  BY <1>1, <1>5 DEF Basis, Accounts
<1>8. \A o \in Symbols \ {s} : Basis(b, o) = Basis(a, o)
  BY <1>5 DEF Basis, Accounts
<1>9. a.open \ {s} = b.open \ {s}
  BY <1>5
<1>10. /\ CostBasis(a) \in Int /\ CostBasis(b) \in Int
       /\ CostBasis(b) - CostBasis(a) = Basis(b, s) - Basis(a, s)
  BY <1>1, <1>3, <1>8, <1>9, CostMovesWithOne
<1> HIDE DEF value, cost
<1>11. CostBasis(b) = CostBasis(a) - cost
  BY <1>2, <1>7, <1>10
<1>12. (b.cash + CostBasis(b)) - b.realized = (a.cash + CostBasis(a)) - a.realized
  BY <1>1, <1>2, <1>6, <1>10, <1>11
<1> QED
  BY <1>12 DEF b

-----------------------------------------------------------------------------
(* The journal: read_all's loop *)

LastOf(S) == Max(S)

KeepLast(line, kept) == KeepParsed(kept, line)

Loop == INSTANCE Folding WITH op <- KeepLast, choose <- LastOf

(* The loop of read_all() is a fold over the lines of the file.           *)
LEMMA LoopIsFold ==
  ASSUME NEW s
  PROVE  FoldLeft(KeepParsed, << >>, s) = Loop!Fold(<< >>, s, DOMAIN s)
BY DEF FoldLeft, MapThenFoldSet, Loop!Fold, Loop!MapThenFoldSet, KeepLast, LastOf

(* The loop's fold takes the last line last, as the loop does.            *)
LEMMA LoopTakesLast == \A n \in Nat : Loop!TakesLast(n)
<1>1. \A T : LastOf(T) = CHOOSE m \in T : \A i \in T : m >= i
  BY DEF LastOf, Max
<1> QED
  BY <1>1, Loop!GreatestTakesLast

(* read_all's loop keeps the lines that parse, all of them, in their order;*)
(* and if the last lines parse, they are the last that it keeps.           *)
LEMMA LoopKeepsParsed ==
  ASSUME NEW X, NEW s \in Seq(X)
  PROVE  LET r == FoldLeft(KeepParsed, << >>, s)
         IN  /\ r \in Seq(X)
             /\ {r[i] : i \in DOMAIN r} = {s[i] : i \in DOMAIN s} \ {Garbage}
             /\ \A i, j \in DOMAIN r :
                  i < j => \E k, l \in DOMAIN s :
                             k < l /\ s[k] = r[i] /\ s[l] = r[j]
             /\ \A c \in 0..Len(s) :
                  (\A i \in 1..c : s[Len(s) - i + 1] # Garbage) =>
                    /\ Len(r) >= c
                    /\ \A i \in 1..c : r[Len(r) - i + 1] = s[Len(s) - i + 1]
<1> DEFINE r == FoldLeft(KeepParsed, << >>, s)
           parsed == X \ {Garbage}
           same == [x \in X |-> x]
           n == Len(s)
<1>1. /\ r \in Seq(X)
      /\ Loop!Filters(s, r, parsed, same)
  <2>1. Loop!Picks(X, X, parsed, same)
    BY LoopTakesLast DEF Loop!Picks, KeepLast, KeepParsed
  <2> HIDE DEF parsed, same
  <2>2. /\ Loop!Fold(<< >>, s, DOMAIN s) \in Seq(X)
        /\ Loop!Filters(s, Loop!Fold(<< >>, s, DOMAIN s), parsed, same)
    BY <2>1, Loop!FoldFilters
  <2> QED
    BY <2>2, LoopIsFold
<1> HIDE DEF r
<1>2. /\ n \in Nat /\ DOMAIN s = 1..n
      /\ \A i \in DOMAIN s : s[i] \in X /\ same[s[i]] = s[i]
                            /\ (s[i] \in parsed <=> s[i] # Garbage)
  OBVIOUS
<1> HIDE DEF parsed, same, n
<1>3. ASSUME NEW i \in DOMAIN s, s[i] # Garbage
      PROVE  \E j \in DOMAIN r : r[j] = s[i]
  <2>1. PICK j \in DOMAIN r : r[j] = same[s[i]]
    BY <1>1, <1>2, <1>3 DEF Loop!Filters
  <2> QED
    BY <1>2, <2>1
<1>4. ASSUME NEW j \in DOMAIN r
      PROVE  r[j] # Garbage /\ \E i \in DOMAIN s : s[i] = r[j]
  <2>1. PICK i \in DOMAIN s : s[i] \in parsed /\ r[j] = same[s[i]]
    BY <1>1 DEF Loop!Filters
  <2> QED
    BY <1>2, <2>1
<1>5. {r[i] : i \in DOMAIN r} = {s[i] : i \in DOMAIN s} \ {Garbage}
  BY <1>3, <1>4
<1>6. ASSUME NEW i \in DOMAIN r, NEW j \in DOMAIN r, i < j
      PROVE  \E k, l \in DOMAIN s : k < l /\ s[k] = r[i] /\ s[l] = r[j]
  <2>1. PICK k \in DOMAIN s, l \in DOMAIN s :
          k < l /\ r[i] = same[s[k]] /\ r[j] = same[s[l]]
    BY <1>1, <1>6 DEF Loop!Filters
  <2> QED
    BY <1>2, <2>1
<1>7. ASSUME NEW c \in 0..Len(s), \A i \in 1..c : s[Len(s) - i + 1] # Garbage
      PROVE  /\ Len(r) >= c
             /\ \A i \in 1..c : r[Len(r) - i + 1] = s[Len(s) - i + 1]
  <2>1. \A i \in 1..c : n - i + 1 \in DOMAIN s
    <3>1. n \in Nat /\ c \in 0..n /\ DOMAIN s = 1..n
      BY <1>2 DEF n
    <3> QED
      BY <3>1
  <2>2. \A i \in 1..c : s[Len(s) - i + 1] \in parsed
    BY <1>2, <1>7, <2>1 DEF n
  <2>3. /\ Len(r) >= c
        /\ \A i \in 1..c : r[Len(r) - i + 1] = same[s[Len(s) - i + 1]]
    BY <1>1, <2>2 DEF Loop!Filters
  <2> QED
    BY <1>2, <2>1, <2>3 DEF n
<1> QED
  BY <1>1, <1>5, <1>6, <1>7 DEF r

-----------------------------------------------------------------------------
(* What one record() does to the lines and the tail.                       *)

LineValues(j) == {j.lines[i] : i \in DOMAIN j.lines}

\* the two kinds of failure, and no line at all, are not taken for an entry
MarkersApart(Entry) == {Garbage, Mangled, Clean, Partial, Cut} \cap Entry = {}

(* What a reader gets back intact are the lines, and the tail, that are   *)
(* entries: the parse marks every other line.                             *)
LEMMA IntactIsEntries ==
  ASSUME NEW Entry, MarkersApart(Entry), NEW j \in JournalFiles(Entry)
  PROVE  /\ Intact(j) = (LineValues(j) \cup {j.tail}) \cap Entry
         /\ \A x \in LineValues(j) : x \in Entry \cup {Garbage, Mangled}
BY DEF MarkersApart, Intact, JournalFiles, LineValues

(* record() that succeeds appends one line, which is the entry itself     *)
(* unless a tail was there to run into it.                                *)
LEMMA RecordedFacts ==
  ASSUME NEW Entry, MarkersApart(Entry), NEW j \in JournalFiles(Entry), NEW e \in Entry
  PROVE  LET r == Recorded(j, e)
             n == Len(j.lines)
         IN  /\ r \in JournalFiles(Entry) /\ r.tail = Clean
             /\ n \in Nat /\ DOMAIN j.lines = 1..n /\ DOMAIN r.lines = 1..(n + 1)
             /\ \A i \in 1..n : r.lines[i] = j.lines[i]
             /\ r.lines[n + 1] = Completed(j.tail, e)
             /\ Completed(j.tail, e) \in {e, Garbage, Mangled}
             /\ j.tail = Clean => Completed(j.tail, e) = e
<1> DEFINE r == Recorded(j, e)
<1>1. /\ r = [lines |-> Append(j.lines, Completed(j.tail, e)), tail |-> Clean]
      /\ Completed(j.tail, e) \in {e, Garbage, Mangled}
      /\ j.tail = Clean => Completed(j.tail, e) = e
  BY TailsDiffer DEF Recorded, Completed
<1>2. j.lines \in Seq(Entry \cup {Garbage, Mangled})
  BY DEF JournalFiles
<1> QED
  BY <1>1, <1>2 DEF JournalFiles

(* record() that fails leaves every line as it is, and an entry as its     *)
(* tail only where it was, or where the whole text went in behind a clean  *)
(* end; or it wrote what one that succeeds writes.                         *)
LEMMA FailedFacts ==
  ASSUME NEW Entry, MarkersApart(Entry), NEW j \in JournalFiles(Entry), NEW e \in Entry,
         NEW g \in FailedRecords(j, e)
  PROVE  /\ g \in JournalFiles(Entry)
         /\ \/ g = Recorded(j, e)
            \/ /\ g.lines = j.lines
               /\ g.tail \in Entry => g.tail = j.tail \/ (g.tail = e /\ j.tail = Clean)
<1>1. \/ g = j \/ g = Recorded(j, e)
      \/ \E t \in TornTails(j.tail, e) : g = [j EXCEPT !.tail = t]
  BY DEF FailedRecords
<1>2. CASE g = j
  BY <1>2, Zenon
<1>3. CASE g = Recorded(j, e)
  BY <1>3, RecordedFacts
<1>4. ASSUME NEW t \in TornTails(j.tail, e), g = [j EXCEPT !.tail = t]
      PROVE  /\ g \in JournalFiles(Entry) /\ g.lines = j.lines
             /\ g.tail \in Entry => g.tail = j.tail \/ (g.tail = e /\ j.tail = Clean)
  <2>1. t \in {Partial, Cut, e} /\ (t \in Entry => t = e /\ j.tail = Clean)
    BY DEF MarkersApart, TornTails
  <2> QED
    BY <1>4, <2>1 DEF JournalFiles
<1> QED
  BY <1>1, <1>2, <1>3, <1>4

(* A read_all() that returns gives what stands in the lines that parse,    *)
(* then the last line without its newline, and no other.                   *)
LEMMA ReadFacts ==
  ASSUME NEW Entry, MarkersApart(Entry), NEW j \in JournalFiles(Entry), Decodes(j)
  PROVE  LET r == ReadAll(j)
         IN  /\ r \in Seq(Entry)
             /\ {r[i] : i \in DOMAIN r} = Intact(j)
             /\ \A a, b \in DOMAIN r :
                  a < b =>
                    \/ \E k, l \in DOMAIN j.lines :
                         k < l /\ j.lines[k] = r[a] /\ j.lines[l] = r[b]
                    \/ /\ \E k \in DOMAIN j.lines : j.lines[k] = r[a]
                       /\ r[b] = j.tail
<1> DEFINE X == Entry \cup {Garbage, Mangled}
           p == FoldLeft(KeepParsed, << >>, j.lines)
           r == ReadAll(j)
           m == Len(p)
<1>1. j.lines \in Seq(X) /\ j.tail \in Entry \cup {Clean, Partial}
  BY DEF JournalFiles, Decodes
<1> HIDE DEF X
<1>2. /\ p \in Seq(X)
      /\ {p[i] : i \in DOMAIN p} = LineValues(j) \ {Garbage}
      /\ \A a, b \in DOMAIN p :
           a < b => \E k, l \in DOMAIN j.lines :
                      k < l /\ j.lines[k] = p[a] /\ j.lines[l] = p[b]
  BY <1>1, LoopKeepsParsed DEF LineValues
<1>3. LineValues(j) \ {Garbage} \subseteq Entry
  BY IntactIsEntries DEF Decodes, LineValues
<1>4. m \in Nat /\ DOMAIN p = 1..m /\ \A i \in DOMAIN p : p[i] \in Entry
  BY <1>2, <1>3
<1>5. p \in Seq(Entry)
  BY <1>2, <1>4
<1>6. Intact(j) = (LineValues(j) \ {Garbage}) \cup ({j.tail} \cap Entry)
  BY <1>3, IntactIsEntries DEF MarkersApart
<1>7. CASE j.tail \notin Entry
  <2>1. r = p \o << >>
    BY <1>1, <1>7 DEF ReadAll
  <2>2. r = p
    BY <1>5, <2>1
  <2> HIDE DEF r, p, m
  <2> QED
    BY <1>2, <1>5, <1>6, <1>7, <2>2 DEF r
<1>8. CASE j.tail \in Entry
  <2>1. r = p \o <<j.tail>>
    BY <1>8 DEF MarkersApart, ReadAll
  <2>2. /\ r \in Seq(Entry) /\ DOMAIN r = 1..(m + 1) /\ r[m + 1] = j.tail
        /\ \A i \in 1..m : r[i] = p[i]
    BY <1>5, <1>8, <2>1
  <2> HIDE DEF r, p, m
  <2>3. {r[i] : i \in DOMAIN r} = {p[i] : i \in DOMAIN p} \cup {j.tail}
    <3>1. m + 1 \in DOMAIN r
      BY <1>4, <2>2
    <3>2. \A i \in DOMAIN p : i \in DOMAIN r
      BY <1>4, <2>2
    <3>3. \A i \in DOMAIN r : i \in DOMAIN p \/ i = m + 1
      BY <1>4, <2>2
    <3> QED
      BY <1>4, <2>2, <3>1, <3>2, <3>3
  <2>4. ASSUME NEW a \in DOMAIN r, NEW b \in DOMAIN r, a < b
        PROVE  \/ \E k, l \in DOMAIN j.lines :
                    k < l /\ j.lines[k] = r[a] /\ j.lines[l] = r[b]
               \/ /\ \E k \in DOMAIN j.lines : j.lines[k] = r[a]
                  /\ r[b] = j.tail
    <3>1. a \in DOMAIN p /\ r[a] = p[a]
      BY <1>4, <2>2, <2>4
    <3>2. CASE b = m + 1
      <4>1. r[a] \in LineValues(j)
        BY <1>2, <3>1
      <4> QED
        BY <2>2, <3>2, <4>1 DEF LineValues
    <3>3. CASE b # m + 1
      <4>1. b \in DOMAIN p /\ r[b] = p[b]
        BY <1>4, <2>2, <3>3
      <4> QED
        BY <1>2, <2>4, <3>1, <4>1
    <3> QED
      BY <3>2, <3>3
  <2>5. {r[i] : i \in DOMAIN r} = Intact(j)
    BY <1>2, <1>6, <1>8, <2>3
  <2> QED
    BY <2>2, <2>4, <2>5 DEF r
<1> QED
  BY <1>7, <1>8

(* If the last lines parse and end in a newline, they end what is read.    *)
LEMMA ReadEnd ==
  ASSUME NEW Entry, NEW j \in JournalFiles(Entry), j.tail = Clean,
         NEW k \in 0..Len(j.lines),
         \A i \in 1..k : j.lines[Len(j.lines) - i + 1] # Garbage
  PROVE  LET r == ReadAll(j)
         IN  /\ Len(r) >= k
             /\ \A i \in 1..k :
                  r[Len(r) - i + 1] = j.lines[Len(j.lines) - i + 1]
<1> DEFINE X == Entry \cup {Garbage, Mangled}
           p == FoldLeft(KeepParsed, << >>, j.lines)
<1>1. j.lines \in Seq(X)
  BY DEF JournalFiles
<1> HIDE DEF X
<1>2. /\ p \in Seq(X) /\ Len(p) >= k
      /\ \A i \in 1..k : p[Len(p) - i + 1] = j.lines[Len(j.lines) - i + 1]
  BY <1>1, LoopKeepsParsed
<1> HIDE DEF p
<1>3. ReadAll(j) = p \o << >>
  BY DEF ReadAll, p
<1>4. ReadAll(j) = p
  BY <1>2, <1>3
<1> QED
  BY <1>2, <1>4
=============================================================================

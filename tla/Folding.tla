------------------------------ MODULE Folding ------------------------------
(***************************************************************************)
(* What a fold over a finite set or a sequence computes, proved by         *)
(* induction over finite sets, for any operator: the sums over open        *)
(* positions and the loops over journal lines are instances.  The elements *)
(* are taken in the order of choose.  That a set has a member is all that  *)
(* an induction needs to know of a predicate, so the predicates below are  *)
(* sets.                                                                   *)
(***************************************************************************)
EXTENDS Folds, Sequences, FiniteSetTheorems, TLAPS

CONSTANTS op(_, _), choose(_)

Fold(base, f, S) == MapThenFoldSet(op, base, LAMBDA x : f[x], choose, S)

Foldable(S) ==
  IsFiniteSet(S) /\ \A T \in SUBSET S : T # {} => choose(T) \in T

IsFold(g, base, f, S) ==
  g = [T \in SUBSET S |-> IF T = {} THEN base
                          ELSE op(f[choose(T)], g[T \ {choose(T)}])]

(* A set of subsets of a finite set that has each subset whose proper      *)
(* subsets it has, has them all.                                           *)
LEMMA InductionOnSubsets ==
  ASSUME NEW S, IsFiniteSet(S), NEW F,
         \A T \in SUBSET S : (\A U \in SUBSET T : U # T => U \in F) => T \in F
  PROVE  SUBSET S \subseteq F
<1> DEFINE missing == (SUBSET S) \ F
<1> SUFFICES ASSUME missing # {} PROVE FALSE
  OBVIOUS
<1>1. PICK T \in missing :
        \A U \in missing : <<U, T>> \notin StrictSubsetOrdering(S)
  <2> HIDE DEF missing
  <2>1. missing \subseteq FiniteSubsetsOf(S)
    BY FS_FiniteSubsetsOfFinite DEF missing
  <2> QED
    BY <2>1, FS_StrictSubsetOrderingWellFounded, WFMin
<1>2. \A U \in SUBSET T : U # T => U \in F
  BY <1>1 DEF StrictSubsetOrdering
<1> QED
  BY <1>2

(* The recursion equation has at most one solution.                        *)
LEMMA IsFoldUnique ==
  ASSUME NEW base, NEW f, NEW S, Foldable(S), NEW V \in SUBSET S,
         NEW g, NEW h, IsFold(g, base, f, S), IsFold(h, base, f, V)
  PROVE  g[V] = h[V]
<1> DEFINE F == {T \in SUBSET V : g[T] = h[T]}
<1>1. ASSUME NEW T \in SUBSET V,
             \A U \in SUBSET T : U # T => U \in F
      PROVE  T \in F
  <2>1. CASE T = {}
    BY <2>1 DEF IsFold
  <2>2. CASE T # {}
    <3> DEFINE rest == T \ {choose(T)}
    <3>1. rest \in SUBSET T /\ rest # T
      BY <2>2 DEF Foldable
    <3>2. g[rest] = h[rest]
      BY <1>1, <3>1
    <3>3. T \in SUBSET V /\ T \in SUBSET S
      OBVIOUS
    <3>4. g[T] = op(f[choose(T)], g[rest]) /\ h[T] = op(f[choose(T)], h[rest])
      BY <3>3, <2>2 DEF IsFold
    <3> QED
      BY <3>2, <3>4
  <2> QED
    BY <2>1, <2>2
<1>2. IsFiniteSet(V)
  BY FS_Subset DEF Foldable
<1> HIDE DEF F
<1>3. SUBSET V \subseteq F
  BY <1>1, <1>2, InductionOnSubsets
<1> QED
  BY <1>3 DEF F

(* It has one, for every finite set.                                       *)
LEMMA IsFoldExists ==
  ASSUME NEW base, NEW f, NEW S, Foldable(S)
  PROVE  \E g : IsFold(g, base, f, S)
<1> DEFINE F == {T \in SUBSET S : \E g : IsFold(g, base, f, T)}
<1>1. ASSUME NEW T \in SUBSET S,
             \A U \in SUBSET T : U # T => U \in F
      PROVE  T \in F
  <2> DEFINE part(U) == CHOOSE g : IsFold(g, base, f, U)
             value(U) == part(U)[U]
             rest(U) == U \ {choose(U)}
             G == [U \in SUBSET T |-> IF U = {} THEN base
                                      ELSE op(f[choose(U)], value(rest(U)))]
  <2>1. \A U \in SUBSET T : U # T => IsFold(part(U), base, f, U)
    BY <1>1
  <2>2. \A U \in SUBSET T :
          U # {} => rest(U) \in SUBSET U /\ rest(U) \in SUBSET T /\ rest(U) # T
    BY DEF Foldable
  <2>3. ASSUME NEW U \in SUBSET T, U # T
        PROVE  G[U] = value(U)
    <3>1. IsFold(part(U), base, f, U)
      BY <2>1, <2>3
    <3>2. CASE U = {}
      BY <3>1, <3>2 DEF IsFold
    <3>3. CASE U # {}
      <4>1. rest(U) \in SUBSET U /\ IsFold(part(rest(U)), base, f, rest(U))
        <5> HIDE DEF part, rest
        <5> QED
          BY <2>1, <2>2, <3>3
      <4>2. part(U)[U] = op(f[choose(U)], part(U)[rest(U)])
        <5> HIDE DEF part
        <5> QED
          BY <3>1, <3>3 DEF IsFold
      <4>3. part(U)[rest(U)] = part(rest(U))[rest(U)]
        <5>1. Foldable(U)
          BY FS_Subset DEF Foldable
        <5> HIDE DEF part, rest, G, F
        <5> QED
          BY <3>1, <4>1, <5>1, IsFoldUnique
      <4> QED
        BY <4>2, <4>3, <3>3
    <3> QED
      BY <3>2, <3>3
  <2>4. G = [U \in SUBSET T |-> IF U = {} THEN base
                                ELSE op(f[choose(U)], G[rest(U)])]
    <3>1. \A U \in SUBSET T : U # {} => value(rest(U)) = G[rest(U)]
      <4> HIDE DEF G, value, rest
      <4> QED
        BY <2>2, <2>3
    <3> HIDE DEF value
    <3> QED
      BY <3>1
  <2>5. IsFold(G, base, f, T)
    <3> HIDE DEF G
    <3> QED
      BY <2>4 DEF IsFold
  <2> QED
    BY <2>5
<1> HIDE DEF F
<1>2. SUBSET S \subseteq F
  BY <1>1, InductionOnSubsets DEF Foldable
<1> QED
  BY <1>2 DEF F

(* A fold is the base for the empty set, and otherwise the chosen element  *)
(* combined with the fold of the rest.                                     *)
THEOREM FoldDef ==
  ASSUME NEW base, NEW f, NEW S, Foldable(S)
  PROVE  /\ Fold(base, f, {}) = base
         /\ S # {} =>
              Fold(base, f, S) = op(f[choose(S)], Fold(base, f, S \ {choose(S)}))
<1> DEFINE the(T) == CHOOSE g : IsFold(g, base, f, T)
<1>1. \A T \in SUBSET S : IsFold(the(T), base, f, T)
  <2> SUFFICES ASSUME NEW T \in SUBSET S PROVE \E g : IsFold(g, base, f, T)
    OBVIOUS
  <2> QED
    BY IsFoldExists, FS_Subset DEF Foldable
<1>2. \A T : Fold(base, f, T) = the(T)[T]
  BY DEF Fold, MapThenFoldSet, IsFold
<1>3. the({})[{}] = base
  <2> HIDE DEF the
  <2> QED
    BY <1>1 DEF IsFold
<1>4. ASSUME S # {}
      PROVE  the(S)[S] = op(f[choose(S)], the(S \ {choose(S)})[S \ {choose(S)}])
  <2> DEFINE V == S \ {choose(S)}
  <2> HIDE DEF the
  <2>1. the(S)[S] = op(f[choose(S)], the(S)[V])
    BY <1>1, <1>4 DEF IsFold
  <2>2. IsFold(the(S), base, f, S) /\ IsFold(the(V), base, f, V) /\ V \in SUBSET S
    BY <1>1
  <2>3. the(S)[V] = the(V)[V]
    <3> HIDE DEF V
    <3> QED
      BY <2>2, IsFoldUnique
  <2> QED
    BY <2>1, <2>3
<1> HIDE DEF the
<1> QED
  BY <1>2, <1>3, <1>4

(* Folds of functions that agree on the set are equal.                     *)
THEOREM FoldCongruence ==
  ASSUME NEW base, NEW f, NEW g, NEW S, Foldable(S),
         \A x \in S : f[x] = g[x]
  PROVE  Fold(base, f, S) = Fold(base, g, S)
<1> DEFINE F == {T \in SUBSET S : Fold(base, f, T) = Fold(base, g, T)}
<1>1. ASSUME NEW T \in SUBSET S,
             \A U \in SUBSET T : U # T => U \in F
      PROVE  T \in F
  <2>1. Foldable(T)
    BY FS_Subset DEF Foldable
  <2>2. CASE T = {}
    BY <2>1, <2>2, FoldDef
  <2>3. CASE T # {}
    <3> DEFINE rest == T \ {choose(T)}
    <3>1. choose(T) \in T /\ rest \in SUBSET T /\ rest # T
      BY <2>1, <2>3 DEF Foldable
    <3>2. Fold(base, f, rest) = Fold(base, g, rest) /\ f[choose(T)] = g[choose(T)]
      BY <1>1, <3>1
    <3> QED
      BY <2>1, <2>3, <3>2, FoldDef
  <2> QED
    BY <2>2, <2>3
<1> HIDE DEF F
<1>2. SUBSET S \subseteq F
  BY <1>1, InductionOnSubsets DEF Foldable
<1> QED
  BY <1>2 DEF F

(* The fold of members of a set that op does not leave is a member.        *)
THEOREM FoldType ==
  ASSUME NEW Kind, NEW base \in Kind, \A u, v \in Kind : op(u, v) \in Kind,
         NEW S, Foldable(S),
         NEW f, \A x \in S : f[x] \in Kind
  PROVE  Fold(base, f, S) \in Kind
<1> DEFINE F == {T \in SUBSET S : Fold(base, f, T) \in Kind}
<1>1. ASSUME NEW T \in SUBSET S,
             \A U \in SUBSET T : U # T => U \in F
      PROVE  T \in F
  <2>1. Foldable(T)
    BY FS_Subset DEF Foldable
  <2>2. CASE T = {}
    BY <2>1, <2>2, FoldDef
  <2>3. CASE T # {}
    <3> DEFINE rest == T \ {choose(T)}
    <3>1. choose(T) \in T /\ rest \in SUBSET T /\ rest # T
      BY <2>1, <2>3 DEF Foldable
    <3>2. Fold(base, f, rest) \in Kind /\ f[choose(T)] \in Kind
      BY <1>1, <3>1
    <3> QED
      BY <2>1, <2>3, <3>2, FoldDef
  <2> QED
    BY <2>2, <2>3
<1> HIDE DEF F
<1>2. SUBSET S \subseteq F
  BY <1>1, InductionOnSubsets DEF Foldable
<1> QED
  BY <1>2 DEF F

(* When the order of the operands does not matter, any element may be      *)
(* taken first.                                                            *)
THEOREM FoldAnyOrder ==
  ASSUME NEW Kind, NEW base \in Kind, \A u, v \in Kind : op(u, v) \in Kind,
         \A u, v, w \in Kind : op(u, op(v, w)) = op(v, op(u, w)),
         NEW S, Foldable(S),
         NEW f, \A x \in S : f[x] \in Kind
  PROVE  \A x \in S : Fold(base, f, S) = op(f[x], Fold(base, f, S \ {x}))
<1> DEFINE F == {T \in SUBSET S :
                   \A x \in T : Fold(base, f, T) = op(f[x], Fold(base, f, T \ {x}))}
<1>1. ASSUME NEW T \in SUBSET S,
             \A U \in SUBSET T : U # T => U \in F
      PROVE  T \in F
  <2> SUFFICES ASSUME NEW x \in T
               PROVE  Fold(base, f, T) = op(f[x], Fold(base, f, T \ {x}))
    OBVIOUS
  <2> DEFINE c == choose(T)
  <2>1. \A U \in SUBSET T : Foldable(U)
    BY FS_Subset DEF Foldable
  <2>2. c \in T /\ Fold(base, f, T) = op(f[c], Fold(base, f, T \ {c}))
    <3>1. Foldable(T) /\ T # {} /\ c \in T
      BY <2>1 DEF Foldable
    <3> HIDE DEF F, c
    <3>2. Foldable(T) =>
            (T # {} =>
               Fold(base, f, T) = op(f[choose(T)], Fold(base, f, T \ {choose(T)})))
      BY ONLY FoldDef
    <3> QED
      BY <3>1, <3>2 DEF c
  <2>3. CASE c = x
    BY <2>2, <2>3
  <2>4. CASE c # x
    <3> DEFINE left == Fold(base, f, (T \ {c}) \ {x})
    <3>1. Fold(base, f, T \ {c}) = op(f[x], left)
      <4>1. T \ {c} \in F /\ x \in T \ {c}
        BY <1>1, <2>2, <2>4
      <4> QED
        BY <4>1
    <3>2. Fold(base, f, T \ {x}) = op(f[c], left)
      <4>1. T \ {x} \in F /\ c \in T \ {x}
        BY <1>1, <2>2, <2>4
      <4>2. (T \ {x}) \ {c} = (T \ {c}) \ {x}
        OBVIOUS
      <4> QED
        BY <4>1, <4>2
    <3>3. left \in Kind
      <4> DEFINE U == (T \ {c}) \ {x}
      <4>1. U \in SUBSET T /\ \A y \in U : f[y] \in Kind
        OBVIOUS
      <4> HIDE DEF U
      <4>2. Fold(base, f, U) \in Kind
        BY <4>1, <2>1, FoldType
      <4> QED
        BY <4>2 DEF U
    <3>4. op(f[c], op(f[x], left)) = op(f[x], op(f[c], left))
      <4>1. f[c] \in Kind /\ f[x] \in Kind
        BY <2>2
      <4> HIDE DEF left, c, F
      <4> QED
        BY <4>1, <3>3
    <3> QED
      BY <2>2, <3>1, <3>2, <3>4
  <2> QED
    BY <2>3, <2>4
<1> HIDE DEF F
<1>2. SUBSET S \subseteq F
  BY <1>1, InductionOnSubsets DEF Foldable
<1>3. S \in F
  BY <1>2
<1> QED
  BY <1>3 DEF F

-----------------------------------------------------------------------------
(* Folds over sequences, the last element taken first: FoldLeft *)

TakesLast(n) ==
  \A T \in SUBSET (1..n) : T # {} => choose(T) \in T /\ \A i \in T : i <= choose(T)

(* Induction over the naturals for a set of them: what has no least       *)
(* missing number misses none.                                            *)
LEMMA InductionOnNat ==
  ASSUME NEW F, 0 \in F, \A n \in Nat : n \in F => n + 1 \in F
  PROVE  Nat \subseteq F
<1> DEFINE missing == Nat \ F
<1> SUFFICES ASSUME missing # {} PROVE FALSE
  OBVIOUS
<1>1. PICK x \in missing : \A y \in missing : <<y, x>> \notin OpToRel(<, Nat)
  <2> HIDE DEF missing
  <2>1. missing \subseteq Nat
    BY DEF missing
  <2> QED
    BY <2>1, NatLessThanWellFounded, WFMin
<1>2. \A y \in missing : ~(y < x)
  BY <1>1 DEF OpToRel
<1>3. x # 0 /\ x - 1 \in Nat /\ x - 1 \notin missing
  BY <1>2
<1> QED
  BY <1>3

(* A choice of the greatest takes the last.                                *)
LEMMA GreatestTakesLast ==
  ASSUME \A T : choose(T) = CHOOSE m \in T : \A i \in T : m >= i
  PROVE  \A n \in Nat : TakesLast(n)
<1> DEFINE F == {n \in Nat : \A T \in SUBSET (1..n) :
                    T # {} => \E m \in T : \A i \in T : m >= i}
<1>1. 0 \in F
  <2>1. 1..0 = {}
    OBVIOUS
  <2> QED
    BY <2>1
<1>2. ASSUME NEW n \in Nat, n \in F PROVE n + 1 \in F
  <2> SUFFICES ASSUME NEW T \in SUBSET (1..(n + 1)), T # {}
               PROVE  \E m \in T : \A i \in T : m >= i
    OBVIOUS
  <2>1. CASE n + 1 \in T
    BY <2>1
  <2>2. CASE n + 1 \notin T
    <3>1. T \in SUBSET (1..n)
      BY <2>2
    <3> QED
      BY <1>2, <3>1
  <2> QED
    BY <2>1, <2>2
<1> HIDE DEF F
<1>3. Nat \subseteq F
  BY <1>1, <1>2, InductionOnNat
<1>4. \A n \in Nat : \A T \in SUBSET (1..n) :
         T # {} => \E m \in T : \A i \in T : m >= i
  BY <1>3 DEF F
<1> QED
  BY <1>4 DEF TakesLast

(* The positions of a sequence can be folded over.                        *)
LEMMA SegmentFoldable ==
  ASSUME NEW n \in Nat, TakesLast(n)
  PROVE  Foldable(1..n)
BY FS_Interval DEF Foldable, TakesLast

(* The fold of a longer sequence is one more turn of the loop.             *)
THEOREM FoldOfAppend ==
  ASSUME NEW base, NEW X, NEW s \in Seq(X), NEW x \in X, TakesLast(Len(s) + 1)
  PROVE  Fold(base, Append(s, x), DOMAIN Append(s, x)) =
         op(x, Fold(base, s, DOMAIN s))
<1> DEFINE n == Len(s)
           t == Append(s, x)
<1>1. /\ n \in Nat /\ DOMAIN s = 1..n /\ DOMAIN t = 1..(n + 1)
      /\ t[n + 1] = x /\ \A i \in 1..n : t[i] = s[i]
  OBVIOUS
<1>0. n \in Nat
  OBVIOUS
<1> HIDE DEF n, t
<1>2. choose(1..(n + 1)) = n + 1
  <2>0. n + 1 \in 1..(n + 1)
    BY <1>0
  <2>1. 1..(n + 1) # {} /\ n + 1 \in 1..(n + 1)
    BY <2>0
  <2>2. choose(1..(n + 1)) \in 1..(n + 1) /\ n + 1 <= choose(1..(n + 1))
    BY <2>1 DEF TakesLast, n
  <2> QED
    BY <1>0, <2>2
<1>3. Foldable(1..(n + 1)) /\ Foldable(1..n)
  <2>1. TakesLast(n)
    <3>1. SUBSET (1..n) \subseteq SUBSET (1..(n + 1))
      BY <1>0
    <3> QED
      BY <3>1 DEF TakesLast, n
  <2>2. n + 1 \in Nat /\ TakesLast(n + 1)
    BY <1>0 DEF n
  <2> QED
    BY <1>0, <2>1, <2>2, SegmentFoldable
<1>4. 1..(n + 1) # {} /\ (1..(n + 1)) \ {n + 1} = 1..n
  <2>1. n + 1 \in 1..(n + 1) /\ (1..(n + 1)) \ {n + 1} = 1..n
    BY <1>0
  <2> QED
    BY <2>1
<1>5. Fold(base, t, 1..(n + 1)) = op(t[n + 1], Fold(base, t, 1..n))
  <2> DEFINE S == 1..(n + 1)
  <2>1. Foldable(S) /\ S # {}
    BY <1>3, <1>4
  <2> HIDE DEF S
  <2>2. Fold(base, t, S) = op(t[choose(S)], Fold(base, t, S \ {choose(S)}))
    BY <2>1, FoldDef
  <2> QED
    BY <1>2, <1>4, <2>2 DEF S
<1>6. Fold(base, t, 1..n) = Fold(base, s, 1..n)
  BY <1>1, <1>3, FoldCongruence
<1> QED
  BY <1>1, <1>5, <1>6 DEF t

(* A fold over the empty sequence is the base.                            *)
THEOREM FoldOfNone ==
  ASSUME NEW base, TakesLast(0)
  PROVE  Fold(base, << >>, DOMAIN << >>) = base
<1>1. Foldable(1..0) /\ 1..0 = {} /\ DOMAIN << >> = {}
  BY SegmentFoldable
<1> QED
  BY <1>1, FoldDef

(* A set that has the empty sequence, and with a sequence each that is one  *)
(* longer, has all sequences.                                              *)
THEOREM InductionOnSeq ==
  ASSUME NEW X, NEW F, << >> \in F,
         \A s \in Seq(X), x \in X : s \in F => Append(s, x) \in F
  PROVE  Seq(X) \subseteq F
<1> DEFINE G == {n \in Nat : \A s \in Seq(X) : Len(s) = n => s \in F}
<1>1. 0 \in G
  <2> SUFFICES ASSUME NEW s \in Seq(X), Len(s) = 0 PROVE s \in F
    OBVIOUS
  <2>1. s = << >>
    OBVIOUS
  <2> QED
    BY <2>1
<1>2. ASSUME NEW n \in Nat, n \in G PROVE n + 1 \in G
  <2> SUFFICES ASSUME NEW t \in Seq(X), Len(t) = n + 1 PROVE t \in F
    OBVIOUS
  <2> DEFINE s == SubSeq(t, 1, n)
             x == t[n + 1]
  <2>1. s \in Seq(X) /\ Len(s) = n /\ x \in X /\ t = Append(s, x)
    OBVIOUS
  <2>2. s \in F
    BY <1>2, <2>1
  <2> HIDE DEF s, x, G
  <2> QED
    BY <2>1, <2>2
<1> HIDE DEF G
<1>3. Nat \subseteq G
  BY <1>1, <1>2, InductionOnNat
<1> QED
  BY <1>3 DEF G

(* P[s] is the set of results that are right for s.  If one turn of the    *)
(* loop takes right results to right ones, the whole loop is right.        *)
THEOREM FoldInduction ==
  ASSUME NEW base, NEW X, NEW P, \A n \in Nat : TakesLast(n),
         base \in P[<< >>],
         \A s \in Seq(X), x \in X : \A r \in P[s] : op(x, r) \in P[Append(s, x)]
  PROVE  \A s \in Seq(X) : Fold(base, s, DOMAIN s) \in P[s]
<1> DEFINE F == {s \in Seq(X) : Fold(base, s, DOMAIN s) \in P[s]}
<1>1. << >> \in F
  BY FoldOfNone
<1>2. ASSUME NEW s \in Seq(X), NEW x \in X, s \in F PROVE Append(s, x) \in F
  <2>1. Fold(base, Append(s, x), DOMAIN Append(s, x)) =
        op(x, Fold(base, s, DOMAIN s))
    <3>1. TakesLast(Len(s) + 1)
      OBVIOUS
    <3> QED
      BY <3>1, FoldOfAppend
  <2>2. Append(s, x) \in Seq(X) /\ Fold(base, s, DOMAIN s) \in P[s]
    BY <1>2
  <2> QED
    BY <2>1, <2>2
<1> HIDE DEF F
<1>3. Seq(X) \subseteq F
  BY <1>1, <1>2, InductionOnSeq
<1> QED
  BY <1>3 DEF F

-----------------------------------------------------------------------------
(* Loops that pick some elements and convert them *)

(* r holds the images under img of the elements of u that are in keep, in  *)
(* their order; and as many of the last elements of u as are in keep make  *)
(* the end of r.                                                           *)
Filters(u, r, keep, img) ==
  /\ \A i \in DOMAIN u : u[i] \in keep => \E j \in DOMAIN r : r[j] = img[u[i]]
  /\ \A j \in DOMAIN r : \E i \in DOMAIN u : u[i] \in keep /\ r[j] = img[u[i]]
  /\ \A i, j \in DOMAIN r :
       i < j => \E k, l \in DOMAIN u :
                  /\ k < l /\ u[k] \in keep /\ u[l] \in keep
                  /\ r[i] = img[u[k]] /\ r[j] = img[u[l]]
  /\ \A c \in 0..Len(u) :
       (\A i \in 1..c : u[Len(u) - i + 1] \in keep) =>
         /\ Len(r) >= c
         /\ \A i \in 1..c : r[Len(r) - i + 1] = img[u[Len(u) - i + 1]]

(* The empty sequence is what a filter leaves of the empty sequence.      *)
LEMMA FiltersNone ==
  ASSUME NEW keep, NEW img
  PROVE  Filters(<< >>, << >>, keep, img)
<1>1. DOMAIN << >> = {} /\ Len(<< >>) = 0
  OBVIOUS
<1> QED
  BY <1>1 DEF Filters

(* An element that is left out changes nothing.                            *)
LEMMA FiltersSkip ==
  ASSUME NEW X, NEW Y, NEW u \in Seq(X), NEW r \in Seq(Y), NEW keep, NEW img,
         NEW x \in X, x \notin keep, Filters(u, r, keep, img)
  PROVE  Filters(Append(u, x), r, keep, img)
<1> DEFINE v == Append(u, x)
           n == Len(u)
<1>1. /\ n \in Nat /\ DOMAIN u = 1..n /\ DOMAIN v = 1..(n + 1) /\ Len(v) = n + 1
      /\ v[n + 1] = x /\ \A i \in 1..n : v[i] = u[i]
  OBVIOUS
<1>2. Len(r) \in Nat
  OBVIOUS
<1> HIDE DEF v, n
<1>3. DOMAIN u \subseteq DOMAIN v /\ \A i \in DOMAIN u : v[i] = u[i]
  BY <1>1
<1>4. ASSUME NEW i \in DOMAIN v, v[i] \in keep
      PROVE  \E j \in DOMAIN r : r[j] = img[v[i]]
  <2>1. i \in 1..n
    BY <1>1, <1>4
  <2>2. i \in DOMAIN u /\ v[i] = u[i]
    BY <1>1, <2>1
  <2>3. PICK j \in DOMAIN r : r[j] = img[u[i]]
    BY <1>4, <2>2 DEF Filters
  <2> QED
    BY <2>2, <2>3
<1>5. ASSUME NEW j \in DOMAIN r
      PROVE  \E i \in DOMAIN v : v[i] \in keep /\ r[j] = img[v[i]]
  <2>1. PICK i \in DOMAIN u : u[i] \in keep /\ r[j] = img[u[i]]
    BY DEF Filters
  <2> QED
    BY <1>3, <2>1
<1>6. ASSUME NEW i \in DOMAIN r, NEW j \in DOMAIN r, i < j
      PROVE  \E k, l \in DOMAIN v :
               /\ k < l /\ v[k] \in keep /\ v[l] \in keep
               /\ r[i] = img[v[k]] /\ r[j] = img[v[l]]
  <2>1. PICK k \in DOMAIN u, l \in DOMAIN u :
               /\ k < l /\ u[k] \in keep /\ u[l] \in keep
               /\ r[i] = img[u[k]] /\ r[j] = img[u[l]]
    BY <1>6 DEF Filters
  <2> QED
    BY <1>3, <2>1
<1>7. ASSUME NEW c \in 0..Len(v), \A i \in 1..c : v[Len(v) - i + 1] \in keep
      PROVE  /\ Len(r) >= c
             /\ \A i \in 1..c : r[Len(r) - i + 1] = img[v[Len(v) - i + 1]]
  <2>1. c = 0
    <3> SUFFICES ASSUME c # 0 PROVE FALSE
      OBVIOUS
    <3>0. n \in Nat /\ Len(v) = n + 1
      BY <1>1
    <3>1. 1 \in 1..c /\ Len(v) - 1 + 1 = n + 1
      BY <3>0
    <3>2. v[Len(v) - 1 + 1] \in keep
      BY <1>7, <3>1
    <3> QED
      BY <1>1, <3>1, <3>2
  <2> QED
    BY <1>2, <2>1
<1>8. Filters(v, r, keep, img)
  BY <1>4, <1>5, <1>6, <1>7 DEF Filters
<1> QED
  BY <1>8 DEF v

(* An element that is picked comes last.                                   *)
LEMMA FiltersTake ==
  ASSUME NEW X, NEW Y, NEW u \in Seq(X), NEW r \in Seq(Y), NEW keep,
         NEW img \in [X -> Y], NEW x \in X, x \in keep, Filters(u, r, keep, img)
  PROVE  Filters(Append(u, x), Append(r, img[x]), keep, img)
<1> DEFINE v == Append(u, x)
           q == Append(r, img[x])
           n == Len(u)
           m == Len(r)
<1>1. /\ n \in Nat /\ DOMAIN u = 1..n /\ DOMAIN v = 1..(n + 1) /\ Len(v) = n + 1
      /\ v[n + 1] = x /\ \A i \in 1..n : v[i] = u[i]
  OBVIOUS
<1>2. /\ m \in Nat /\ DOMAIN r = 1..m /\ DOMAIN q = 1..(m + 1) /\ Len(q) = m + 1
      /\ q[m + 1] = img[x] /\ \A i \in 1..m : q[i] = r[i]
  OBVIOUS
<1> HIDE DEF v, q, n, m
<1>3. n + 1 \in DOMAIN v /\ m + 1 \in DOMAIN q
  BY <1>1, <1>2
<1>4. ASSUME NEW i \in DOMAIN v, v[i] \in keep
      PROVE  \E j \in DOMAIN q : q[j] = img[v[i]]
  <2>1. CASE i = n + 1
    BY <1>1, <1>2, <1>3, <2>1
  <2>2. CASE i # n + 1
    <3>1. i \in DOMAIN u /\ v[i] = u[i]
      BY <1>1, <2>2
    <3>2. PICK j \in DOMAIN r : r[j] = img[u[i]]
      BY <1>4, <3>1 DEF Filters
    <3>3. j \in DOMAIN q /\ q[j] = r[j]
      BY <1>2, <3>2
    <3> QED
      BY <3>1, <3>2, <3>3
  <2> QED
    BY <2>1, <2>2
<1>5. ASSUME NEW j \in DOMAIN q
      PROVE  \E i \in DOMAIN v : v[i] \in keep /\ q[j] = img[v[i]]
  <2>1. CASE j = m + 1
    BY <1>1, <1>2, <1>3, <2>1
  <2>2. CASE j # m + 1
    <3>1. j \in DOMAIN r /\ q[j] = r[j]
      BY <1>2, <2>2
    <3>2. PICK i \in DOMAIN u : u[i] \in keep /\ r[j] = img[u[i]]
      BY <3>1 DEF Filters
    <3>3. i \in DOMAIN v /\ v[i] = u[i]
      BY <1>1, <3>2
    <3> QED
      BY <3>1, <3>2, <3>3
  <2> QED
    BY <2>1, <2>2
<1>6. ASSUME NEW i \in DOMAIN q, NEW j \in DOMAIN q, i < j
      PROVE  \E k, l \in DOMAIN v :
               /\ k < l /\ v[k] \in keep /\ v[l] \in keep
               /\ q[i] = img[v[k]] /\ q[j] = img[v[l]]
  <2>1. i \in DOMAIN r /\ q[i] = r[i]
    BY <1>2, <1>6
  <2>2. CASE j = m + 1
    <3>1. PICK k \in DOMAIN u : u[k] \in keep /\ r[i] = img[u[k]]
      BY <2>1 DEF Filters
    <3>2. k \in DOMAIN v /\ v[k] = u[k] /\ k < n + 1
      BY <1>1, <3>1
    <3> QED
      BY <1>1, <1>2, <1>3, <2>1, <2>2, <3>1, <3>2
  <2>3. CASE j # m + 1
    <3>1. j \in DOMAIN r /\ q[j] = r[j]
      BY <1>2, <2>3
    <3>2. PICK k \in DOMAIN u, l \in DOMAIN u :
               /\ k < l /\ u[k] \in keep /\ u[l] \in keep
               /\ r[i] = img[u[k]] /\ r[j] = img[u[l]]
      BY <1>6, <2>1, <3>1 DEF Filters
    <3>3. k \in DOMAIN v /\ l \in DOMAIN v /\ v[k] = u[k] /\ v[l] = u[l]
      BY <1>1, <3>2
    <3> QED
      BY <2>1, <3>1, <3>2, <3>3
  <2> QED
    BY <2>2, <2>3
<1>7. ASSUME NEW c \in 0..Len(v), \A i \in 1..c : v[Len(v) - i + 1] \in keep
      PROVE  /\ Len(q) >= c
             /\ \A i \in 1..c : q[Len(q) - i + 1] = img[v[Len(v) - i + 1]]
  <2>1. CASE c = 0
    BY <1>2, <2>1
  <2>2. CASE c # 0
    <3> DEFINE d == c - 1
    <3>1. d \in 0..n /\ c = d + 1
      BY <1>1, <2>2
    <3> HIDE DEF d
    <3>2. \A i \in 1..d : u[n - i + 1] \in keep
      <4> SUFFICES ASSUME NEW i \in 1..d PROVE u[n - i + 1] \in keep
        OBVIOUS
      <4>1. i + 1 \in 1..c /\ n - i + 1 \in 1..n
              /\ (n + 1) - (i + 1) + 1 = n - i + 1
        BY <1>1, <3>1
      <4>2. v[Len(v) - (i + 1) + 1] \in keep
        BY <1>7, <4>1
      <4> QED
        BY <1>1, <4>1, <4>2
    <3>3. m >= d /\ \A i \in 1..d : r[m - i + 1] = img[u[n - i + 1]]
      BY <3>1, <3>2 DEF Filters, n, m
    <3>4. ASSUME NEW i \in 1..c
          PROVE  q[Len(q) - i + 1] = img[v[Len(v) - i + 1]]
      <4>1. CASE i = 1
        BY <1>1, <1>2, <4>1
      <4>2. CASE i # 1
        <5>0. n \in Nat /\ m \in Nat /\ m >= d /\ d \in 0..n /\ c = d + 1
          BY <1>1, <1>2, <3>1, <3>3
        <5>1. /\ i - 1 \in 1..d
              /\ (m + 1) - i + 1 \in 1..m /\ (m + 1) - i + 1 = m - (i - 1) + 1
              /\ (n + 1) - i + 1 \in 1..n /\ (n + 1) - i + 1 = n - (i - 1) + 1
          BY <4>2, <5>0
        <5> QED
          BY <1>1, <1>2, <3>3, <5>1
      <4> QED
        BY <4>1, <4>2
    <3>5. Len(q) >= c
      BY <1>2, <3>1, <3>3
    <3> QED
      BY <3>4, <3>5
  <2> QED
    BY <2>1, <2>2
<1>8. Filters(v, q, keep, img)
  BY <1>4, <1>5, <1>6, <1>7 DEF Filters
<1> QED
  BY <1>8 DEF v, q

\* one turn of the loop
Picks(X, Y, keep, img) ==
  /\ img \in [X -> Y] /\ \A n \in Nat : TakesLast(n)
  /\ \A x \in X, r \in Seq(Y) :
       op(x, r) = IF x \in keep THEN Append(r, img[x]) ELSE r

(* A loop that appends the image of each element it picks returns all of   *)
(* them, and nothing else, in order.                                       *)
THEOREM FoldFilters ==
  ASSUME NEW X, NEW Y, NEW keep, NEW img, NEW s \in Seq(X),
         Picks(X, Y, keep, img)
  PROVE  /\ Fold(<< >>, s, DOMAIN s) \in Seq(Y)
         /\ Filters(s, Fold(<< >>, s, DOMAIN s), keep, img)
<1> DEFINE P == [u \in Seq(X) |-> {r \in Seq(Y) : Filters(u, r, keep, img)}]
<1>1. << >> \in P[<< >>]
  <2>1. << >> \in Seq(X) /\ << >> \in Seq(Y)
    OBVIOUS
  <2> QED
    BY <2>1, FiltersNone
<1>2. ASSUME NEW u \in Seq(X), NEW x \in X, NEW r \in P[u]
      PROVE  op(x, r) \in P[Append(u, x)]
  <2>1. r \in Seq(Y) /\ Filters(u, r, keep, img) /\ Append(u, x) \in Seq(X)
    BY <1>2
  <2>0. img \in [X -> Y] /\ op(x, r) = IF x \in keep THEN Append(r, img[x]) ELSE r
    BY <2>1 DEF Picks
  <2>2. CASE x \in keep
    <3>1. op(x, r) = Append(r, img[x]) /\ Append(r, img[x]) \in Seq(Y)
      BY <2>0, <2>1, <2>2
    <3>2. Filters(Append(u, x), Append(r, img[x]), keep, img)
      BY <2>0, <2>1, <2>2, FiltersTake
    <3> QED
      BY <2>1, <3>1, <3>2
  <2>3. CASE x \notin keep
    <3>1. op(x, r) = r
      BY <2>0, <2>3
    <3>2. Filters(Append(u, x), r, keep, img)
      BY <2>1, <2>3, FiltersSkip
    <3> QED
      BY <2>1, <3>1, <3>2
  <2> QED
    BY <2>2, <2>3
<1> HIDE DEF P
<1>3. Fold(<< >>, s, DOMAIN s) \in P[s]
  BY <1>1, <1>2, FoldInduction DEF Picks
<1> QED
  BY <1>3 DEF P
=============================================================================

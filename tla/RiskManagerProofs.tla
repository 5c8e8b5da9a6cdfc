------------------------- MODULE RiskManagerProofs -------------------------
(***************************************************************************)
(* What the risk rules guarantee for every price, stop, account and        *)
(* configuration, and the facts about sums that the proofs about the books *)
(* of the engine and of the backtest rest on.                              *)
(***************************************************************************)
EXTENDS RiskManager, FiniteSets, Functions, FiniteSetTheorems,
        WellFoundedInduction, TLAPS

\* A trailed stop is a price, and it protects at least what the stop it
\* replaces protected (RiskManager.update_trailing_stop: "Ratchet the stop
\* in the trade's favor; never loosens it").
THEOREM TrailNeverLoosens ==
    ASSUME NEW side \in Side, NEW stop \in Int, NEW peak \in Int,
           NEW dist \in Int, NEW entry \in Int, NEW initialRisk \in Int
    PROVE  LET new == UpdateTrailingStop(side, stop, peak, dist, entry, initialRisk)
           IN  new \in Int /\ Gain(side, stop, new) >= 0
  BY RiskConfigAssumption
     DEF UpdateTrailingStop, Side, Gain, Tighter, Larger, Smaller, Behind

\* Once the trade has gained its initial risk, the trailed stop is at least
\* the entry price: the trade can no longer be stopped out at a loss.
THEOREM TrailLocksInEntry ==
    ASSUME NEW side \in Side, NEW stop \in Int, NEW peak \in Int,
           NEW dist \in Int, NEW entry \in Int, NEW initialRisk \in Nat \ {0},
           Trailing, Gain(side, entry, peak) >= initialRisk
    PROVE  Gain(side, entry, UpdateTrailingStop(side, stop, peak, dist, entry, initialRisk)) >= 0
  BY DEF UpdateTrailingStop, Side, Gain, Tighter, Larger, Smaller, Behind

\* The initial stop is a price.
LEMMA ResolveStopIsPrice ==
    ASSUME NEW side \in Side, NEW entry \in Int, NEW atr \in Int,
           NEW hint \in Int \cup {NoLevel}
    PROVE  ResolveStop(side, entry, atr, hint) \in Int
  BY RiskConfigAssumption DEF ResolveStop, ValidStop, Side, Behind, Gain

\* A floored quotient, multiplied back, does not exceed the dividend.
LEMMA FloorDivision ==
    ASSUME NEW a \in Int, NEW b \in Nat \ {0}
    PROVE  /\ a \div b \in Int
           /\ b * (a \div b) <= a
  OBVIOUS

\* Products with a non-negative factor keep the order.
LEMMA TimesAtMost ==
    ASSUME NEW b \in Nat, NEW q \in Int, NEW r \in Int, q <= r
    PROVE  b * q <= b * r
  OBVIOUS

\* A position never costs more than the cash at hand, never exceeds the
\* position cap, and at its stop loses no more than the risk budget, of the
\* percentage asked for and of the largest allowed, all at the reference price
\* (RiskManager.position_size: "Size so that a stop-out loses at most the risk
\* budget").
THEOREM PositionSizeWithinCaps ==
    ASSUME NEW equity \in Int, NEW entry \in Int, NEW stop \in Int,
           NEW cash \in Int, NEW riskPct \in Int,
           NEW qty, qty = PositionSize(equity, entry, stop, cash, riskPct)
    PROVE  /\ qty \in Nat
           /\ qty > 0 => /\ entry * qty <= cash
                         /\ (100 * entry) * qty <= equity * MaxPositionPct
                         /\ (100 * Distance(entry, stop)) * qty <= equity * MaxRiskPct
                         /\ (100 * Distance(entry, stop)) * qty
                               <= equity * Smaller(riskPct, MaxRiskPct)
  <1> DEFINE pct == Smaller(Larger(riskPct, 0), MaxRiskPct)
             risk == 100 * Distance(entry, stop)
             byRisk == (equity * pct) \div risk
             byNotional == (equity * MaxPositionPct) \div (100 * entry)
             byCash == cash \div entry
  <1>1. CASE entry = stop \/ entry <= 0
    BY <1>1 DEF PositionSize
  <1>2. CASE ~(entry = stop \/ entry <= 0)
    <2>1. pct \in Nat /\ pct <= MaxRiskPct /\ MaxRiskPct \in Nat /\ MaxPositionPct \in Nat
      BY RiskConfigAssumption DEF Smaller, Larger
    <2>2. risk \in Nat \ {0} /\ 100 * entry \in Nat \ {0} /\ entry \in Nat \ {0}
      BY <1>2 DEF Distance
    <2>3. equity * pct \in Int /\ equity * MaxPositionPct \in Int
      BY <2>1
    <2>4. byRisk \in Int /\ risk * byRisk <= equity * pct
      <3> HIDE DEF pct, risk
      <3> QED BY <2>2, <2>3, FloorDivision
    <2>5. byNotional \in Int /\ (100 * entry) * byNotional <= equity * MaxPositionPct
      BY <2>2, <2>3, FloorDivision
    <2>6. byCash \in Int /\ entry * byCash <= cash
      BY <2>2, FloorDivision
    <2>7. qty = Larger(0, Smaller(byRisk, Smaller(byNotional, byCash)))
      BY <1>2 DEF PositionSize
    <2> HIDE DEF byRisk, byNotional, byCash
    <2>8. qty \in Nat
      BY <2>4, <2>5, <2>6, <2>7 DEF Larger, Smaller
    <2>9. SUFFICES ASSUME qty > 0
                   PROVE  /\ entry * qty <= cash
                          /\ (100 * entry) * qty <= equity * MaxPositionPct
                          /\ (100 * Distance(entry, stop)) * qty <= equity * MaxRiskPct
                          /\ (100 * Distance(entry, stop)) * qty
                                <= equity * Smaller(riskPct, MaxRiskPct)
      BY <2>8
    <2>10. qty <= byRisk /\ qty <= byNotional /\ qty <= byCash
      BY <2>4, <2>5, <2>6, <2>7, <2>9 DEF Larger, Smaller
    <2>11. entry * qty <= cash
      <3>1. entry * qty <= entry * byCash
        BY <2>2, <2>6, <2>8, <2>10, TimesAtMost
      <3> QED BY <3>1, <2>2, <2>6, <2>8
    <2>12. (100 * entry) * qty <= equity * MaxPositionPct
      <3>1. (100 * entry) * qty <= (100 * entry) * byNotional
        BY <2>2, <2>5, <2>8, <2>10, TimesAtMost
      <3> QED BY <3>1, <2>2, <2>3, <2>5, <2>8
    <2>13. risk * qty <= equity * MaxRiskPct /\ risk * qty <= equity * pct /\ pct > 0
      <3> HIDE DEF pct, risk
      <3>1. risk * qty <= risk * byRisk
        BY <2>2, <2>4, <2>8, <2>10, TimesAtMost
      <3>2. risk * qty <= equity * pct
        BY <3>1, <2>2, <2>3, <2>4, <2>8
      <3>3. risk * qty >= 1
        BY <2>2, <2>8, <2>9
      <3>4. equity * pct >= 1
        BY <3>2, <3>3, <2>2, <2>3, <2>8
      <3>5. equity >= 0
        BY <3>4, <2>1
      <3>6. equity * pct <= equity * MaxRiskPct
        BY <3>5, <2>1, TimesAtMost
      <3>7. pct > 0
        BY <3>4, <3>5, <2>1
      <3> QED BY <3>2, <3>6, <3>7, <2>1, <2>2, <2>3, <2>8
    <2>14. pct = Smaller(riskPct, MaxRiskPct)
      BY <2>13, <2>1 DEF Larger, Smaller
    <2> QED BY <2>11, <2>12, <2>13, <2>14
  <1> QED BY <1>1, <1>2

\* A number whose multiple does not exceed the dividend does not exceed the
\* floored quotient.
LEMMA FloorIsLargest ==
    ASSUME NEW a \in Int, NEW b \in Nat \ {0}, NEW q \in Int, b * q <= a
    PROVE  q <= a \div b
  <1> SUFFICES ASSUME q > a \div b
               PROVE  FALSE
    BY FloorDivision
  <1>1. a \div b \in Int /\ a = b * (a \div b) + (a % b) /\ a % b < b /\ a % b \in Int
    OBVIOUS
  <1>2. b * ((a \div b) + 1) <= b * q
    BY <1>1, TimesAtMost
  <1>3. b * ((a \div b) + 1) = b * (a \div b) + b
    BY <1>1
  <1> QED BY <1>1, <1>2, <1>3

\* Nobody could have had one share more: any number of shares that the risk
\* budget, the position cap and the cash allow is at most the position's size.
THEOREM PositionSizeIsLargest ==
    ASSUME NEW equity \in Int, NEW entry \in Nat \ {0}, NEW stop \in Int, entry # stop,
           NEW cash \in Int, NEW riskPct \in Int, NEW q \in Nat \ {0},
           (100 * Distance(entry, stop)) * q <= equity * Smaller(riskPct, MaxRiskPct),
           (100 * entry) * q <= equity * MaxPositionPct,
           entry * q <= cash
    PROVE  q <= PositionSize(equity, entry, stop, cash, riskPct)
  <1> DEFINE pct == Smaller(Larger(riskPct, 0), MaxRiskPct)
             risk == 100 * Distance(entry, stop)
             byRisk == (equity * pct) \div risk
             byNotional == (equity * MaxPositionPct) \div (100 * entry)
             byCash == cash \div entry
  <1>1. MaxRiskPct \in Nat \ {0} /\ MaxPositionPct \in Nat \ {0}
    BY RiskConfigAssumption
  <1>2. risk \in Nat \ {0} /\ 100 * entry \in Nat \ {0}
    BY DEF Distance
  <1>3. equity * MaxPositionPct \in Int /\ equity * pct \in Int /\ pct \in Int
    BY <1>1 DEF Smaller, Larger
  <1>4. equity > 0
    <2>1. equity * MaxPositionPct >= 1
      <3>1. (100 * entry) * q >= 1
        BY <1>2
      <3> QED BY <1>2, <1>3, <3>1
    <2> QED BY <1>1, <2>1
  <1>5. riskPct > 0
    <2>1. risk * q >= 1
      BY <1>2
    <2>2. equity * Smaller(riskPct, MaxRiskPct) >= 1
      <3>1. Smaller(riskPct, MaxRiskPct) \in Int
        BY <1>1 DEF Smaller
      <3>2. equity * Smaller(riskPct, MaxRiskPct) \in Int
        BY <3>1
      <3> HIDE DEF risk
      <3>3. risk * q <= equity * Smaller(riskPct, MaxRiskPct)
        BY DEF risk
      <3> QED BY <1>2, <2>1, <3>2, <3>3
    <2> QED BY <1>1, <1>4, <2>2 DEF Smaller
  <1>6. pct = Smaller(riskPct, MaxRiskPct)
    BY <1>5 DEF Larger
  <1>7. q <= byRisk
    <2>1. risk * q <= equity * pct
      BY <1>6
    <2>2. \A a \in Int, b \in Nat \ {0} : b * q <= a => q <= a \div b
      BY FloorIsLargest
    <2> DEFINE budget == equity * pct
    <2>3. budget \in Int /\ risk * q <= budget
      BY <1>3, <2>1
    <2> HIDE DEF risk, budget
    <2>4. q <= budget \div risk
      BY <1>2, <2>2, <2>3
    <2> QED BY <2>4 DEF budget
  <1>8. q <= byNotional
    BY <1>2, <1>3, FloorIsLargest
  <1>9. q <= byCash
    BY FloorIsLargest
  <1>10. PositionSize(equity, entry, stop, cash, riskPct)
           = Larger(0, Smaller(byRisk, Smaller(byNotional, byCash)))
    BY DEF PositionSize
  <1>11. byRisk \in Int /\ byNotional \in Int /\ byCash \in Int
    <2>1. byRisk \in Int
      <3> HIDE DEF risk, pct
      <3> QED BY <1>2, <1>3, FloorDivision
    <2> QED BY <1>2, <1>3, <2>1, FloorDivision
  <1> HIDE DEF byRisk, byNotional, byCash
  <1> QED BY <1>7, <1>8, <1>9, <1>10, <1>11 DEF Larger, Smaller

-----------------------------------------------------------------------------
(* Sums.  The library's sum is a fold over the subsets of a finite set, in  *)
(* an order of its own; these lemmas say that the order does not matter.    *)

\* Induction over the naturals, for a set of them: a least number outside the
\* set would have its predecessor in it.
LEMMA NatSetInduction ==
    ASSUME NEW S, 0 \in S, \A n \in Nat : n \in S => n + 1 \in S
    PROVE  Nat \subseteq S
  <1> DEFINE R == {p \in Nat \X Nat : p[1] < p[2]}
             T == Nat \ S
  <1>1. IsWellFoundedOn(R, Nat)
    BY NatLessThanWellFounded DEF OpToRel
  <1>2. SUFFICES ASSUME T # {} PROVE FALSE
    OBVIOUS
  <1>3. T \subseteq Nat
    OBVIOUS
  <1> HIDE DEF R, T
  <1>4. PICK x \in T : \A y \in T : <<y, x>> \notin R
    BY <1>1, <1>2, <1>3, WFMin
  <1> USE DEF R, T
  <1>5. x # 0 /\ x - 1 \in Nat
    OBVIOUS
  <1>6. x - 1 \in T /\ <<x - 1, x>> \in R
    BY <1>5
  <1> QED BY <1>4, <1>6

\* The element a fold takes first.
Chosen(S) == CHOOSE x \in S : TRUE

\* The equation the fold over the subsets of S is chosen to satisfy, on the
\* subsets in D.
FoldsTo(g, f, D) ==
    g = [s \in D |-> IF s = {} THEN 0 ELSE f[Chosen(s)] + g[s \ {Chosen(s)}]]

\* The library's sum is such a fold, taken at the whole set.
LEMMA SumIsFold ==
    ASSUME NEW f, NEW S
    PROVE  SumFunctionOnSet(f, S) = (CHOOSE g : FoldsTo(g, f, SUBSET S))[S]
  BY DEF SumFunctionOnSet, FoldFunctionOnSet, MapThenFoldSet, FoldsTo, Chosen

\* The subsets of S with at most n elements.
Small(S, n) == {s \in SUBSET S : Cardinality(s) <= n}

\* Over a finite set there is a fold: from the one for the sets of n elements
\* comes the one for the sets of n + 1.
LEMMA FoldExists ==
    ASSUME NEW f, NEW S, IsFiniteSet(S)
    PROVE  \E g : FoldsTo(g, f, SUBSET S)
  <1> DEFINE N == {n \in Nat : \E g : FoldsTo(g, f, Small(S, n))}
  <1>1. \A s \in SUBSET S : IsFiniteSet(s) /\ Cardinality(s) \in Nat
    BY FS_Subset, FS_CardinalityType
  <1>2. \A s \in SUBSET S : s # {} => /\ Chosen(s) \in s
                                      /\ s \ {Chosen(s)} \in SUBSET S
                                      /\ Cardinality(s \ {Chosen(s)}) = Cardinality(s) - 1
    <2> TAKE s \in SUBSET S
    <2> HAVE s # {}
    <2>1. Chosen(s) \in s
      BY DEF Chosen
    <2> QED BY <1>1, <2>1, FS_RemoveElement
  <1>3. 0 \in N
    <2> DEFINE g == [s \in Small(S, 0) |-> 0]
    <2>1. \A s \in Small(S, 0) : s = {}
      BY <1>1, FS_EmptySet DEF Small
    <2>2. g = [s \in Small(S, 0) |-> IF s = {} THEN 0 ELSE f[Chosen(s)] + g[s \ {Chosen(s)}]]
      BY <2>1
    <2>3. FoldsTo(g, f, Small(S, 0))
      BY <2>2 DEF FoldsTo
    <2> QED BY <2>3
  <1>4. \A n \in Nat : n \in N => n + 1 \in N
    <2> TAKE n \in Nat
    <2> HAVE n \in N
    <2>1. PICK g : FoldsTo(g, f, Small(S, n))
      OBVIOUS
    <2> DEFINE h == [s \in Small(S, n + 1) |->
                        IF s = {} THEN 0 ELSE f[Chosen(s)] + g[s \ {Chosen(s)}]]
    <2>2. \A s \in Small(S, n) : s \in Small(S, n + 1) /\ h[s] = g[s]
      <3> TAKE s \in Small(S, n)
      <3>1. s \in Small(S, n + 1)
        BY <1>1 DEF Small
      <3>2. g[s] = IF s = {} THEN 0 ELSE f[Chosen(s)] + g[s \ {Chosen(s)}]
        BY <2>1 DEF FoldsTo
      <3> QED BY <3>1, <3>2
    <2>3. \A s \in Small(S, n + 1) : s # {} => s \ {Chosen(s)} \in Small(S, n)
      BY <1>1, <1>2 DEF Small
    <2>4. \A s \in Small(S, n + 1) :
             h[s] = IF s = {} THEN 0 ELSE f[Chosen(s)] + h[s \ {Chosen(s)}]
      BY <2>2, <2>3
    <2>5. h = [s \in Small(S, n + 1) |->
                        IF s = {} THEN 0 ELSE f[Chosen(s)] + h[s \ {Chosen(s)}]]
      BY <2>4
    <2> HIDE DEF h
    <2>6. FoldsTo(h, f, Small(S, n + 1))
      BY <2>5 DEF FoldsTo
    <2> QED BY <2>6
  <1>5. Nat \subseteq N
    <2> HIDE DEF N
    <2> QED BY <1>3, <1>4, NatSetInduction
  <1>6. Cardinality(S) \in N
    BY <1>1, <1>5
  <1>7. Small(S, Cardinality(S)) = SUBSET S
    BY <1>1, FS_Subset DEF Small
  <1> QED BY <1>6, <1>7

Agree(f, g, S) == \A x \in S : f[x] = g[x]

\* Two folds agree on a set on which their functions do.
LEMMA FoldsAgree ==
    ASSUME NEW f, NEW g, NEW S, NEW T, NEW F, NEW G,
           IsFiniteSet(S), S \subseteq T, Agree(f, g, S),
           FoldsTo(F, f, SUBSET S), FoldsTo(G, g, SUBSET T)
    PROVE  F[S] = G[S]
  <1> DEFINE N == {n \in Nat : \A s \in SUBSET S : Cardinality(s) = n => F[s] = G[s]}
  <1>1. \A s \in SUBSET S : IsFiniteSet(s) /\ Cardinality(s) \in Nat
    BY FS_Subset, FS_CardinalityType
  <1>2. \A s \in SUBSET S :
           /\ F[s] = IF s = {} THEN 0 ELSE f[Chosen(s)] + F[s \ {Chosen(s)}]
           /\ G[s] = IF s = {} THEN 0 ELSE g[Chosen(s)] + G[s \ {Chosen(s)}]
    BY DEF FoldsTo
  <1>3. 0 \in N
    BY <1>1, <1>2, FS_EmptySet
  <1>4. \A n \in Nat : n \in N => n + 1 \in N
    <2> TAKE n \in Nat
    <2> HAVE n \in N
    <2> SUFFICES ASSUME NEW s \in SUBSET S, Cardinality(s) = n + 1 PROVE F[s] = G[s]
      OBVIOUS
    <2>1. s # {}
      BY <1>1, FS_EmptySet
    <2>2. Chosen(s) \in s /\ f[Chosen(s)] = g[Chosen(s)]
      BY <2>1 DEF Chosen, Agree
    <2>3. s \ {Chosen(s)} \in SUBSET S /\ Cardinality(s \ {Chosen(s)}) = n
      <3>1. Cardinality(s \ {Chosen(s)}) = Cardinality(s) - 1
        BY <1>1, <2>2, FS_RemoveElement
      <3> QED BY <3>1
    <2>4. F[s \ {Chosen(s)}] = G[s \ {Chosen(s)}]
      BY <2>3
    <2> QED BY <1>2, <2>1, <2>2, <2>4
  <1>5. Nat \subseteq N
    <2> HIDE DEF N
    <2> QED BY <1>3, <1>4, NatSetInduction
  <1> QED BY <1>1, <1>5

\* The sum over a set is what a fold over its subsets gives it.
LEMMA SumHasFold ==
    ASSUME NEW f, NEW S, IsFiniteSet(S)
    PROVE  \E F : FoldsTo(F, f, SUBSET S) /\ SumFunctionOnSet(f, S) = F[S]
  <1> DEFINE F == CHOOSE h : FoldsTo(h, f, SUBSET S)
  <1>1. FoldsTo(F, f, SUBSET S)
    BY FoldExists
  <1>2. SumFunctionOnSet(f, S) = F[S]
    BY SumIsFold
  <1> QED BY <1>1, <1>2

\* A sum over a set is the same for functions that agree on it.
LEMMA SumAgrees ==
    ASSUME NEW f, NEW g, NEW S, IsFiniteSet(S), \A x \in S : f[x] = g[x]
    PROVE  SumFunctionOnSet(f, S) = SumFunctionOnSet(g, S)
  <1>1. PICK F : FoldsTo(F, f, SUBSET S) /\ SumFunctionOnSet(f, S) = F[S]
    BY SumHasFold
  <1>2. PICK G : FoldsTo(G, g, SUBSET S) /\ SumFunctionOnSet(g, S) = G[S]
    BY SumHasFold
  <1>3. F[S] = G[S]
    <2>1. IsFiniteSet(S) /\ S \subseteq S /\ Agree(f, g, S)
      BY DEF Agree
    <2>2. FoldsTo(F, f, SUBSET S) /\ FoldsTo(G, g, SUBSET S)
      BY <1>1, <1>2
    <2> QED BY ONLY <2>1, <2>2, FoldsAgree
  <1> QED BY <1>1, <1>2, <1>3

\* A sum over a set is one element's value and the sum over the rest.
LEMMA SumUnfolds ==
    ASSUME NEW f, NEW S, IsFiniteSet(S)
    PROVE  SumFunctionOnSet(f, S)
             = IF S = {} THEN 0
               ELSE f[Chosen(S)] + SumFunctionOnSet(f, S \ {Chosen(S)})
  <1> DEFINE R == S \ {Chosen(S)}
  <1>1. IsFiniteSet(R)
    BY FS_Subset
  <1>2. PICK F : FoldsTo(F, f, SUBSET S) /\ SumFunctionOnSet(f, S) = F[S]
    BY SumHasFold
  <1>3. PICK G : FoldsTo(G, f, SUBSET R) /\ SumFunctionOnSet(f, R) = G[R]
    BY <1>1, SumHasFold
  <1>4. G[R] = F[R]
    <2>1. R \subseteq S /\ Agree(f, f, R)
      BY DEF Agree
    <2>2. FoldsTo(G, f, SUBSET R) /\ FoldsTo(F, f, SUBSET S)
      BY <1>2, <1>3
    <2> HIDE DEF R
    <2> QED BY ONLY <1>1, <2>1, <2>2, FoldsAgree
  <1>5. F[S] = IF S = {} THEN 0 ELSE f[Chosen(S)] + F[R]
    BY <1>2 DEF FoldsTo
  <1> QED BY <1>2, <1>3, <1>4, <1>5

\* The sum of integers is an integer.
LEMMA SumIsInt ==
    ASSUME NEW f, NEW S, IsFiniteSet(S), \A x \in S : f[x] \in Int
    PROVE  SumFunctionOnSet(f, S) \in Int
  <1> DEFINE N == {n \in Nat : \A s \in SUBSET S :
                      Cardinality(s) = n => SumFunctionOnSet(f, s) \in Int}
  <1>1. \A s \in SUBSET S : IsFiniteSet(s) /\ Cardinality(s) \in Nat
    BY FS_Subset, FS_CardinalityType
  <1>2. 0 \in N
    <2> SUFFICES ASSUME NEW s \in SUBSET S, Cardinality(s) = 0
                 PROVE  SumFunctionOnSet(f, s) \in Int
      OBVIOUS
    <2>1. IsFiniteSet(s) /\ s = {}
      BY <1>1, FS_EmptySet
    <2>2. SumFunctionOnSet(f, s) = IF s = {} THEN 0 ELSE
             f[Chosen(s)] + SumFunctionOnSet(f, s \ {Chosen(s)})
      BY <2>1, SumUnfolds
    <2> QED BY <2>1, <2>2
  <1>3. \A n \in Nat : n \in N => n + 1 \in N
    <2> TAKE n \in Nat
    <2> HAVE n \in N
    <2> SUFFICES ASSUME NEW s \in SUBSET S, Cardinality(s) = n + 1
                 PROVE  SumFunctionOnSet(f, s) \in Int
      OBVIOUS
    <2>1. s # {}
      BY <1>1, FS_EmptySet
    <2>2. Chosen(s) \in s
      BY <2>1 DEF Chosen
    <2>3. s \ {Chosen(s)} \in SUBSET S /\ Cardinality(s \ {Chosen(s)}) = n
      <3>1. Cardinality(s \ {Chosen(s)}) = Cardinality(s) - 1
        BY <1>1, <2>2, FS_RemoveElement
      <3> QED BY <3>1
    <2>4. SumFunctionOnSet(f, s \ {Chosen(s)}) \in Int
      BY <2>3
    <2> QED BY <1>1, <2>1, <2>2, <2>4, SumUnfolds
  <1>4. Nat \subseteq N
    <2> HIDE DEF N
    <2> QED BY <1>2, <1>3, NatSetInduction
  <1> QED BY <1>1, <1>4

\* Positive integers sum to a positive one, unless there are none.
LEMMA SumIsPositive ==
    ASSUME NEW f, NEW S, IsFiniteSet(S), \A x \in S : f[x] \in Nat \ {0}
    PROVE  /\ SumFunctionOnSet(f, S) \in Nat
           /\ S # {} => SumFunctionOnSet(f, S) > 0
  <1> DEFINE N == {n \in Nat : \A s \in SUBSET S :
                      Cardinality(s) = n => /\ SumFunctionOnSet(f, s) \in Nat
                                            /\ s # {} => SumFunctionOnSet(f, s) > 0}
  <1>1. \A s \in SUBSET S : IsFiniteSet(s) /\ Cardinality(s) \in Nat
    BY FS_Subset, FS_CardinalityType
  <1>2. 0 \in N
    <2> SUFFICES ASSUME NEW s \in SUBSET S, Cardinality(s) = 0
                 PROVE  SumFunctionOnSet(f, s) = 0 /\ s = {}
      OBVIOUS
    <2>1. IsFiniteSet(s) /\ s = {}
      BY <1>1, FS_EmptySet
    <2>2. SumFunctionOnSet(f, s) = IF s = {} THEN 0 ELSE
             f[Chosen(s)] + SumFunctionOnSet(f, s \ {Chosen(s)})
      BY <2>1, SumUnfolds
    <2> QED BY <2>1, <2>2
  <1>3. \A n \in Nat : n \in N => n + 1 \in N
    <2> TAKE n \in Nat
    <2> HAVE n \in N
    <2> SUFFICES ASSUME NEW s \in SUBSET S, Cardinality(s) = n + 1
                 PROVE  SumFunctionOnSet(f, s) \in Nat /\ SumFunctionOnSet(f, s) > 0
      OBVIOUS
    <2>1. s # {}
      BY <1>1, FS_EmptySet
    <2>2. Chosen(s) \in s /\ f[Chosen(s)] \in Nat \ {0}
      BY <2>1 DEF Chosen
    <2>3. s \ {Chosen(s)} \in SUBSET S /\ Cardinality(s \ {Chosen(s)}) = n
      <3>1. Cardinality(s \ {Chosen(s)}) = Cardinality(s) - 1
        BY <1>1, <2>2, FS_RemoveElement
      <3> QED BY <3>1
    <2>4. SumFunctionOnSet(f, s \ {Chosen(s)}) \in Nat
      BY <2>3
    <2>5. SumFunctionOnSet(f, s) = f[Chosen(s)] + SumFunctionOnSet(f, s \ {Chosen(s)})
      BY <1>1, <2>1, SumUnfolds
    <2> QED BY <2>2, <2>4, <2>5
  <1>4. Nat \subseteq N
    <2> HIDE DEF N
    <2> QED BY <1>2, <1>3, NatSetInduction
  <1> QED BY <1>1, <1>4

\* One more element adds its value to the sum, whichever the fold takes first.
LEMMA SumAdds ==
    ASSUME NEW f, NEW S, IsFiniteSet(S), NEW x, x \notin S,
           \A y \in S \cup {x} : f[y] \in Int
    PROVE  SumFunctionOnSet(f, S \cup {x}) = f[x] + SumFunctionOnSet(f, S)
  <1> DEFINE Sum(s) == SumFunctionOnSet(f, s)
             A == S \cup {x}
             N == {n \in Nat : \A s \in SUBSET A, y \in A :
                      Cardinality(s) = n /\ y \notin s => Sum(s \cup {y}) = f[y] + Sum(s)}
  <1>1. IsFiniteSet(A)
    BY FS_AddElement
  <1>2. \A s \in SUBSET A : IsFiniteSet(s) /\ Cardinality(s) \in Nat /\ Sum(s) \in Int
    BY <1>1, FS_Subset, FS_CardinalityType, SumIsInt
  <1>3. \A s \in SUBSET A : Sum(s) = IF s = {} THEN 0 ELSE f[Chosen(s)] + Sum(s \ {Chosen(s)})
    BY <1>2, SumUnfolds
  <1> HIDE DEF Sum
  <1>4. 0 \in N
    <2> SUFFICES ASSUME NEW s \in SUBSET A, NEW y \in A, Cardinality(s) = 0
                 PROVE  Sum(s \cup {y}) = f[y] + Sum(s)
      OBVIOUS
    <2>1. s = {}
      BY <1>2, FS_EmptySet
    <2>2. Chosen({y}) = y
      BY DEF Chosen
    <2>3. {y} \ {Chosen({y})} = {}
      BY <2>2
    <2> QED BY <1>3, <2>1, <2>2, <2>3
  <1>5. \A n \in Nat : n \in N => n + 1 \in N
    <2> TAKE n \in Nat
    <2> HAVE n \in N
    <2> SUFFICES ASSUME NEW s \in SUBSET A, NEW y \in A, Cardinality(s) = n + 1, y \notin s
                 PROVE  Sum(s \cup {y}) = f[y] + Sum(s)
      OBVIOUS
    <2> DEFINE t == s \cup {y}
               c == Chosen(t)
    <2>1. t \in SUBSET A /\ t # {} /\ c \in t
      BY DEF Chosen
    <2>2. Sum(t) = f[c] + Sum(t \ {c})
      BY <1>3, <2>1
    <2> HIDE DEF c
    <2>3. CASE c = y
      <3>1. t \ {c} = s
        BY <2>3
      <3> QED BY <2>2, <2>3, <3>1
    <2>4. CASE c # y
      <3> DEFINE r == s \ {c}
      <3>1. c \in s /\ r \in SUBSET A /\ c \notin r /\ y \notin r
        BY <2>1, <2>4
      <3>2. Cardinality(r) = n
        BY <1>2, <3>1, FS_RemoveElement
      <3>3. Sum(r \cup {c}) = f[c] + Sum(r) /\ Sum(r \cup {y}) = f[y] + Sum(r)
        BY <3>1, <3>2
      <3>4. r \cup {c} = s /\ t \ {c} = r \cup {y}
        BY <2>4, <3>1
      <3>5. Sum(r) \in Int /\ f[c] \in Int /\ f[y] \in Int
        BY <1>2, <3>1
      <3> QED BY <2>2, <3>3, <3>4, <3>5
    <2> QED BY <2>3, <2>4
  <1>6. Nat \subseteq N
    <2> HIDE DEF N
    <2> QED BY <1>4, <1>5, NatSetInduction
  <1>7. Cardinality(S) \in N /\ S \in SUBSET A /\ x \in A
    BY <1>2, <1>6
  <1>8. Sum(S \cup {x}) = f[x] + Sum(S)
    BY <1>7
  <1> QED BY <1>8 DEF Sum

\* A sum over a set with one element's value changed moves by the change.
LEMMA SumChanges ==
    ASSUME NEW f, NEW g, NEW S, IsFiniteSet(S), NEW x \in S,
           \A y \in S : f[y] \in Int /\ g[y] \in Int,
           \A y \in S : y # x => f[y] = g[y]
    PROVE  SumFunctionOnSet(g, S) = SumFunctionOnSet(f, S) + (g[x] - f[x])
  <1> DEFINE R == S \ {x}
  <1>1. IsFiniteSet(R) /\ R \cup {x} = S /\ x \notin R
    BY FS_Subset
  <1>2. SumFunctionOnSet(f, R) = SumFunctionOnSet(g, R)
    BY <1>1, SumAgrees
  <1>3. SumFunctionOnSet(f, R) \in Int
    BY <1>1, SumIsInt
  <1> HIDE DEF R
  <1>4. SumFunctionOnSet(f, R \cup {x}) = f[x] + SumFunctionOnSet(f, R)
    BY <1>1, SumAdds
  <1>5. SumFunctionOnSet(g, R \cup {x}) = g[x] + SumFunctionOnSet(g, R)
    BY <1>1, SumAdds
  <1>6. SumFunctionOnSet(f, S) = f[x] + SumFunctionOnSet(f, R)
    BY <1>1, <1>4
  <1>7. SumFunctionOnSet(g, S) = g[x] + SumFunctionOnSet(f, R)
    BY <1>1, <1>2, <1>5
  <1>8. f[x] \in Int /\ g[x] \in Int
    OBVIOUS
  <1> QED BY <1>3, <1>6, <1>7, <1>8

\* The sum of a function's values, when they are integers and finitely many.
LEMMA FunctionSumIsInt ==
    ASSUME NEW f, IsFiniteSet(DOMAIN f), \A x \in DOMAIN f : f[x] \in Int
    PROVE  SumFunction(f) \in Int
  BY SumIsInt DEF SumFunction

\* A function with one more argument sums to its value more.
LEMMA FunctionSumGrows ==
    ASSUME NEW f, NEW g, NEW x, x \notin DOMAIN f, DOMAIN g = DOMAIN f \cup {x},
           IsFiniteSet(DOMAIN f), g[x] \in Int,
           \A y \in DOMAIN f : f[y] \in Int /\ g[y] = f[y]
    PROVE  SumFunction(g) = SumFunction(f) + g[x]
  <1>1. SumFunctionOnSet(f, DOMAIN f) = SumFunctionOnSet(g, DOMAIN f)
    BY SumAgrees
  <1>2. SumFunctionOnSet(g, DOMAIN f \cup {x}) = g[x] + SumFunctionOnSet(g, DOMAIN f)
    BY SumAdds
  <1>3. SumFunctionOnSet(g, DOMAIN f) \in Int
    BY SumIsInt
  <1>4. SumFunction(f) = SumFunctionOnSet(f, DOMAIN f)
    BY DEF SumFunction
  <1>5. SumFunction(g) = SumFunctionOnSet(g, DOMAIN f \cup {x})
    BY DEF SumFunction
  <1> QED BY <1>1, <1>2, <1>3, <1>4, <1>5

\* Nothing sums to zero.
LEMMA EmptySum ==
    ASSUME NEW f, DOMAIN f = {}
    PROVE  SumFunction(f) = 0
  BY SumUnfolds, FS_EmptySet DEF SumFunction
=============================================================================

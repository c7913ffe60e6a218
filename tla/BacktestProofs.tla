---------------------------- MODULE BacktestProofs ----------------------------
(***************************************************************************)
(* Theorems about the two parts of the backtest, which share no state: the *)
(* cash accounting of CashLedger, for any number of tickers, any prices,   *)
(* any weights a strategy asks for, any fee up to the notional and any     *)
(* number of sessions; and the window replay of WindowReplay, for any      *)
(* calendar, horizon, products and panel.                                  *)
(***************************************************************************)
EXTENDS CashLedger, WindowReplay, FiniteSetTheorems, WellFoundedInduction, TLAPS

-----------------------------------------------------------------------------
(* What Sum computes.  It is a recursive function; the lemmas argue from the *)
(* least index at which they would fail (WFMin), which needs no induction    *)
(* scheme.                                                                   *)

LEMMA LeastExists ==
  ASSUME NEW T \in SUBSET Nat, T # {}
  PROVE  \E x \in T : \A y \in T : x <= y
<1>1. IsWellFoundedOn(OpToRel(<, Nat), Nat)
  BY NatLessThanWellFounded
<1>2. \E x \in T : \A y \in T : ~ (<<y, x>> \in OpToRel(<, Nat))
  BY <1>1, WFMin
<1>3. PICK x \in T : \A y \in T : ~ (<<y, x>> \in OpToRel(<, Nat))
  BY <1>2
<1>4. \A y \in T : ~ (y < x)
  BY <1>3 DEF OpToRel
<1> QED
  BY <1>4

\* The equation of the partial sums up to n.
Adds(s, f, n) == s = [i \in 0 .. n |-> IF i = 0 THEN 0 ELSE s[i - 1] + f[i]]

LEMMA PartialSumsExist ==
  ASSUME NEW f, NEW n \in Nat
  PROVE  \E s : Adds(s, f, n)
<1> DEFINE T == {m \in Nat : ~ \E s : Adds(s, f, m)}
<1> SUFFICES ASSUME T # {} PROVE FALSE
  OBVIOUS
<1>1. PICK m \in T : \A k \in T : m <= k
  BY LeastExists
<1>2. m # 0
  <2>1. Adds([i \in 0 .. 0 |-> 0], f, 0)
    BY DEF Adds
  <2> QED
    BY <2>1
<1>3. PICK s : Adds(s, f, m - 1)
  <2>1. m - 1 \in Nat /\ ~ (m <= m - 1)
    BY <1>2
  <2> QED
    BY <1>1, <2>1
<1> DEFINE r == [i \in 0 .. m |-> IF i = m THEN s[m - 1] + f[m] ELSE s[i]]
<1>4. \A i \in 0 .. m : r[i] = IF i = 0 THEN 0 ELSE r[i - 1] + f[i]
  <2> SUFFICES ASSUME NEW i \in 0 .. m
               PROVE  r[i] = IF i = 0 THEN 0 ELSE r[i - 1] + f[i]
    OBVIOUS
  <2>1. CASE i = m
    BY <2>1, <1>2
  <2>2. CASE i # m
    <3>1. i \in 0 .. m - 1
      BY <2>2
    <3>2. s[i] = IF i = 0 THEN 0 ELSE s[i - 1] + f[i]
      BY <1>3, <3>1 DEF Adds
    <3> QED
      BY <2>2, <3>1, <3>2
  <2> QED
    BY <2>1, <2>2
<1>5. r = [i \in 0 .. m |-> r[i]]
  OBVIOUS
<1>6. Adds(r, f, m)
  <2> HIDE DEF r
  <2> QED
    BY <1>4, <1>5 DEF Adds
<1> QED
  BY <1>6

\* The partial sums of f, and Sum as the last of them.
LEMMA SumUnfolds ==
  ASSUME NEW f
  PROVE  \E s : Adds(s, f, N) /\ Sum(f) = s[N]
<1> DEFINE s == CHOOSE s : Adds(s, f, N)
<1>1. N \in Nat
  BY SizeAssumption
<1>2. Adds(s, f, N)
  BY <1>1, PartialSumsExist
<1>3. Sum(f) = s[N]
  BY DEF Sum, Adds
<1> QED
  BY <1>2, <1>3

LEMMA PartialSumsStep ==
  ASSUME NEW f, NEW s, Adds(s, f, N), NEW i \in 0 .. N
  PROVE  /\ i = 0 => s[i] = 0
         /\ i # 0 => i - 1 \in 0 .. N /\ i \in Tickers /\ s[i] = s[i - 1] + f[i]
<1>1. N \in Nat
  BY SizeAssumption
<1> QED
  BY <1>1 DEF Adds, Tickers

\* Partial sums of integers are integers, of naturals naturals.
LEMMA PartialSumsTyped ==
  ASSUME NEW D, D = Int \/ D = Nat, NEW f \in [Tickers -> D], NEW s, Adds(s, f, N)
  PROVE  \A i \in 0 .. N : s[i] \in D
<1> DEFINE T == {i \in 0 .. N : s[i] \notin D}
<1> SUFFICES ASSUME T # {} PROVE FALSE
  OBVIOUS
<1>1. PICK i \in T : \A j \in T : i <= j
  <2>1. T \subseteq Nat
    BY SizeAssumption
  <2> QED
    BY <2>1, LeastExists
<1>2. i # 0 /\ s[i] = s[i - 1] + f[i] /\ i - 1 \in 0 .. N /\ i \in Tickers
  BY PartialSumsStep
<1>3. s[i - 1] \in D
  BY <1>1, <1>2, SizeAssumption
<1>4. f[i] \in D
  BY <1>2
<1>5. s[i] \in D
  BY <1>2, <1>3, <1>4
<1> QED
  BY <1>5

LEMMA SumTyped ==
  ASSUME NEW D, D = Int \/ D = Nat, NEW f \in [Tickers -> D]
  PROVE  Sum(f) \in D
<1>1. PICK s : Adds(s, f, N) /\ Sum(f) = s[N]
  BY SumUnfolds
<1>2. N \in 0 .. N
  BY SizeAssumption
<1> QED
  BY <1>1, <1>2, PartialSumsTyped

\* Changing one summand changes the sum by the difference.
LEMMA SumUpdate ==
  ASSUME NEW f \in [Tickers -> Int], NEW g \in [Tickers -> Int], NEW k \in Tickers,
         \A t \in Tickers \ {k} : g[t] = f[t]
  PROVE  Sum(g) = Sum(f) - f[k] + g[k]
<1>1. PICK s : Adds(s, f, N) /\ Sum(f) = s[N]
  BY SumUnfolds
<1>2. PICK r : Adds(r, g, N) /\ Sum(g) = r[N]
  BY SumUnfolds
<1>3. \A i \in 0 .. N : s[i] \in Int /\ r[i] \in Int
  BY <1>1, <1>2, PartialSumsTyped
<1> DEFINE Holds(i) == r[i] = s[i] + (IF i < k THEN 0 ELSE g[k] - f[k])
           T == {i \in 0 .. N : ~ Holds(i)}
<1>4. T = {}
  <2> SUFFICES ASSUME T # {} PROVE FALSE
    OBVIOUS
  <2>1. PICK i \in T : \A j \in T : i <= j
    <3>1. T \subseteq Nat
      BY SizeAssumption
    <3> QED
      BY <3>1, LeastExists
  <2>2. k \in Int /\ 1 <= k /\ k <= N /\ i \in Int
    BY SizeAssumption DEF Tickers
  <2>3. i # 0
    BY <1>1, <1>2, <2>1, <2>2, PartialSumsStep
  <2>4. /\ i - 1 \in 0 .. N /\ i \in Tickers
        /\ s[i] = s[i - 1] + f[i] /\ r[i] = r[i - 1] + g[i]
    BY <1>1, <1>2, <2>3, PartialSumsStep
  <2>5. Holds(i - 1)
    BY <2>1, <2>2, <2>4
  <2>6. f[i] \in Int /\ g[i] \in Int /\ f[k] \in Int /\ g[k] \in Int
    BY <2>4
  <2>7. s[i - 1] \in Int /\ r[i - 1] \in Int
    BY <1>3, <2>4
  <2>8. CASE i = k
    BY <2>2, <2>4, <2>5, <2>6, <2>7, <2>8
  <2>9. CASE i # k
    <3>1. g[i] = f[i]
      BY <2>4, <2>9
    <3> QED
      BY <2>2, <2>4, <2>5, <2>6, <2>7, <2>9, <3>1
  <2> QED
    BY <2>8, <2>9
<1>5. Holds(N)
  BY <1>4, SizeAssumption
<1>6. N \in Int /\ k \in Int /\ k <= N /\ f[k] \in Int /\ g[k] \in Int /\ N \in 0 .. N
  BY SizeAssumption DEF Tickers
<1> QED
  BY <1>1, <1>2, <1>3, <1>5, <1>6


-----------------------------------------------------------------------------
(* Arithmetic *)

LEMMA DivBound ==
  ASSUME NEW a \in Int, NEW d \in Nat \ {0}, NEW q \in Int, q <= a \div d
  PROVE  q * d <= a
<1>1. (a \div d) \in Int /\ (a \div d) * d <= a
  OBVIOUS
<1>2. q * d <= (a \div d) * d
  <2> DEFINE e == a \div d
  <2>1. e \in Int /\ q <= e
    BY <1>1
  <2> HIDE DEF e
  <2>2. q * d <= e * d
    BY <2>1
  <2> QED
    BY <2>2 DEF e
<1>3. q * d \in Int
  OBVIOUS
<1> QED
  BY <1>1, <1>2, <1>3

LEMMA DivRest ==
  ASSUME NEW a \in Int, NEW d \in Nat \ {0}
  PROVE  a < ((a \div d) + 1) * d
OBVIOUS

LEMMA ProductNat ==
  ASSUME NEW a \in Nat, NEW b \in Nat
  PROVE  a * b \in Nat
OBVIOUS

\* The reserve: what is left over a share c/w of itself and of a is not negative.
LEMMA ReserveNonneg ==
  ASSUME NEW w \in Nat, NEW c \in Nat, c < w, NEW x \in Int, NEW a \in Nat,
         c * (x + a) <= w * x
  PROVE  x \in Nat
<1> SUFFICES ASSUME x < 0 PROVE FALSE
  OBVIOUS
<1>1. w * x < c * x
  OBVIOUS
<1>2. c * a \in Nat
  BY ProductNat
<1>3. c * (x + a) = c * x + c * a
  OBVIOUS
<1>4. c * x \in Int /\ w * x \in Int
  OBVIOUS
<1> QED
  BY <1>1, <1>2, <1>3, <1>4

-----------------------------------------------------------------------------
(* Amounts *)

LEMMA AmountTyped ==
  ASSUME NEW n \in Nat, NEW p \in Nat
  PROVE  /\ Paid(n, p) \in Nat /\ Cost(n, p) \in Nat
         /\ Cost(n, p) <= Paid(n, p)
<1> DEFINE m == n * p
<1>1. m \in Nat
  BY ProductNat
<1>2. FeeDen \in Nat /\ FeeNum \in Nat /\ FeeNum <= FeeDen
  BY FeeAssumption
<1> HIDE DEF m
<1>3. m * FeeDen \in Nat /\ m * FeeNum \in Nat /\ m * FeeNum <= m * FeeDen
  BY <1>1, <1>2
<1> QED
  BY <1>3 DEF m, Paid, Cost

\* Amounts are additive in the number of lots.
LEMMA PaidMoves ==
  ASSUME NEW a \in Nat, NEW n \in Int, NEW p \in Nat
  PROVE  /\ Paid(a + n, p) = Paid(a, p) + Paid(n, p)
         /\ Paid(a - n, p) = Paid(a, p) - Paid(n, p)
BY FeeAssumption DEF Paid

LEMMA WorthTyped ==
  ASSUME NEW sh \in [Tickers -> Nat], NEW m \in [Tickers -> Nat]
  PROVE  /\ [t \in Tickers |-> Paid(sh[t], m[t])] \in [Tickers -> Nat]
         /\ Sum([t \in Tickers |-> Paid(sh[t], m[t])]) \in Nat
<1>1. \A t \in Tickers : Paid(sh[t], m[t]) \in Nat
  BY AmountTyped
<1>2. [t \in Tickers |-> Paid(sh[t], m[t])] \in [Tickers -> Nat]
  BY <1>1
<1> QED
  BY <1>2, SumTyped

LEMMA GrossTyped ==
  ASSUME NEW sh \in [Tickers -> Nat], NEW m \in [Tickers -> Nat]
  PROVE  /\ [t \in Tickers |-> Paid(sh[t], m[t]) * Mult[t]] \in [Tickers -> Nat]
         /\ Sum([t \in Tickers |-> Paid(sh[t], m[t]) * Mult[t]]) \in Nat
<1>1. \A t \in Tickers : Paid(sh[t], m[t]) \in Nat /\ Mult[t] \in Nat
  BY AmountTyped, MultAssumption
<1>2. \A t \in Tickers : Paid(sh[t], m[t]) * Mult[t] \in Nat
  BY <1>1, ProductNat
<1>3. [t \in Tickers |-> Paid(sh[t], m[t]) * Mult[t]] \in [Tickers -> Nat]
  BY <1>2
<1> QED
  BY <1>3, SumTyped

\* A trade in one ticker changes the worth and the gross of the portfolio by
\* that ticker's part.
LEMMA TradeWorth ==
  ASSUME NEW sh \in [Tickers -> Nat], NEW m \in [Tickers -> Nat],
         NEW k \in Tickers, NEW x \in Nat
  PROVE  Sum([t \in Tickers |-> Paid([sh EXCEPT ![k] = x][t], m[t])])
           = Sum([t \in Tickers |-> Paid(sh[t], m[t])]) - Paid(sh[k], m[k]) + Paid(x, m[k])
<1> DEFINE f == [t \in Tickers |-> Paid(sh[t], m[t])]
           sx == [sh EXCEPT ![k] = x]
           g == [t \in Tickers |-> Paid(sx[t], m[t])]
<1>1. sx \in [Tickers -> Nat]
  OBVIOUS
<1>2. f \in [Tickers -> Int] /\ g \in [Tickers -> Int]
  <2>1. \A t \in Tickers : Paid(sh[t], m[t]) \in Nat /\ Paid(sx[t], m[t]) \in Nat
    BY <1>1, AmountTyped
  <2> QED
    BY <2>1
<1>3. \A t \in Tickers \ {k} : g[t] = f[t]
  OBVIOUS
<1>4. f[k] = Paid(sh[k], m[k]) /\ g[k] = Paid(x, m[k])
  OBVIOUS
<1> HIDE DEF f, g
<1>5. Sum(g) = Sum(f) - f[k] + g[k]
  BY <1>2, <1>3, SumUpdate
<1> QED
  BY <1>4, <1>5 DEF f, g

LEMMA TradeGross ==
  ASSUME NEW sh \in [Tickers -> Nat], NEW m \in [Tickers -> Nat],
         NEW k \in Tickers, NEW x \in Nat
  PROVE  Sum([t \in Tickers |-> Paid([sh EXCEPT ![k] = x][t], m[t]) * Mult[t]])
           = Sum([t \in Tickers |-> Paid(sh[t], m[t]) * Mult[t]])
             - Paid(sh[k], m[k]) * Mult[k] + Paid(x, m[k]) * Mult[k]
<1> DEFINE f == [t \in Tickers |-> Paid(sh[t], m[t]) * Mult[t]]
           sx == [sh EXCEPT ![k] = x]
           g == [t \in Tickers |-> Paid(sx[t], m[t]) * Mult[t]]
<1>1. sx \in [Tickers -> Nat]
  OBVIOUS
<1>2. f \in [Tickers -> Int] /\ g \in [Tickers -> Int]
  <2>1. f \in [Tickers -> Nat] /\ g \in [Tickers -> Nat]
    BY <1>1, GrossTyped
  <2> QED
    BY <2>1
<1>3. \A t \in Tickers \ {k} : g[t] = f[t]
  OBVIOUS
<1>4. f[k] = Paid(sh[k], m[k]) * Mult[k] /\ g[k] = Paid(x, m[k]) * Mult[k]
  OBVIOUS
<1> HIDE DEF f, g
<1>5. Sum(g) = Sum(f) - f[k] + g[k]
  BY <1>2, <1>3, SumUpdate
<1> QED
  BY <1>4, <1>5 DEF f, g

-----------------------------------------------------------------------------
(* Orders *)

\* The state functions that orders read have the right types.
LEMMA OrderTyped ==
  ASSUME TypeOK, NEW t \in Tickers
  PROVE  /\ quote[t].open \in Nat /\ Mark(t) \in Nat /\ Weight(t) \in Nat
         /\ (quote[t].open > 0 => Mark(t) = quote[t].open)
         /\ Effective(t) \in Nat /\ Effective(t) <= Weight(t)
         /\ AtOpen \in Nat /\ Gross \in Nat
         /\ [u \in Tickers |-> Mark(u)] \in [Tickers -> Nat]
<1>1. \A u \in Tickers : quote[u] \in [open : Nat, close : Nat] /\ prev[u] \in Nat
  BY DEF TypeOK
<1>2. \A u \in Tickers : Mark(u) \in Nat
  BY <1>1 DEF Mark, First
<1>3. [u \in Tickers |-> Mark(u)] \in [Tickers -> Nat]
  BY <1>2
<1>4. shares \in [Tickers -> Nat] /\ Weight(t) \in Nat
  BY DEF TypeOK, Weight
<1>5. AtOpen \in Nat
  BY <1>3, <1>4, WorthTyped DEF AtOpen, Worth
<1>6. Gross \in Nat
  <2> DEFINE m == [u \in Tickers |-> Mark(u)]
  <2>1. Sum([u \in Tickers |-> Paid(shares[u], m[u]) * Mult[u]]) \in Nat
    <3> HIDE DEF m
    <3> QED
      BY <1>3, <1>4, GrossTyped DEF m
  <2>2. [u \in Tickers |-> Paid(shares[u], m[u]) * Mult[u]]
          = [u \in Tickers |-> Paid(shares[u], Mark(u)) * Mult[u]]
    OBVIOUS
  <2> QED
    BY <2>1, <2>2 DEF Gross
<1>7. Effective(t) \in Nat /\ Effective(t) <= Weight(t)
  BY <1>4, LimitAssumption DEF Effective, Smaller
<1> QED
  BY <1>1, <1>2, <1>3, <1>4, <1>5, <1>6, <1>7 DEF Mark, First

\* A purchase fits under each of the four limits, its fee included.
LEMMA BuyFits ==
  ASSUME TypeOK, NEW t \in Tickers, quote[t].open > 0, BuyLots(t) > 0,
         NEW n, n = BuyLots(t), NEW p, p = quote[t].open
  PROVE  /\ n \in Nat /\ p \in Nat
         /\ n * p <= budget[t] - traded[t]
         /\ WDen * Paid(n, p) + (WDen - CLim) * Cost(n, p) <= WDen * cash - CLim * equityCur
         /\ WDen * Paid(n, p) + Effective(t) * Cost(n, p)
              <= Effective(t) * equityCur - WDen * Paid(shares[t], p)
         /\ WDen * (Paid(n, p) * Mult[t]) + GLim * Cost(n, p) <= GLim * equityCur - WDen * Gross
<1> DEFINE ds == p * (WDen * FeeDen + Effective(t) * FeeNum)
           dc == p * (WDen * FeeDen + (WDen - CLim) * FeeNum)
           dg == p * (WDen * FeeDen * Mult[t] + GLim * FeeNum)
           es == Effective(t) * equityCur - WDen * Paid(shares[t], p)
           ec == WDen * cash - CLim * equityCur
           eg == GLim * equityCur - WDen * Gross
           ea == budget[t] - traded[t]
<1>1. /\ p \in Nat \ {0} /\ WDen \in Nat \ {0} /\ CLim \in Nat /\ WDen - CLim \in Nat
      /\ GLim \in Nat /\ FeeDen \in Nat \ {0} /\ FeeNum \in Nat /\ Mult[t] \in Nat \ {0}
      /\ Effective(t) \in Nat
  BY OrderTyped, LimitAssumption, FeeAssumption, MultAssumption
<1>2. ds \in Nat \ {0} /\ dc \in Nat \ {0} /\ dg \in Nat \ {0}
  <2>1. WDen * FeeDen \in Nat \ {0} /\ WDen * FeeDen * Mult[t] \in Nat \ {0}
    BY <1>1
  <2>2. /\ Effective(t) * FeeNum \in Nat /\ (WDen - CLim) * FeeNum \in Nat
        /\ GLim * FeeNum \in Nat
    BY <1>1, ProductNat
  <2>3. /\ WDen * FeeDen + Effective(t) * FeeNum \in Nat \ {0}
        /\ WDen * FeeDen + (WDen - CLim) * FeeNum \in Nat \ {0}
        /\ WDen * FeeDen * Mult[t] + GLim * FeeNum \in Nat \ {0}
    BY <2>1, <2>2
  <2>4. \A d \in Nat \ {0} : p * d \in Nat \ {0}
    BY <1>1
  <2> QED
    BY <2>3, <2>4
<1>3. /\ cash \in Int /\ equityCur \in Int /\ Gross \in Int /\ shares[t] \in Nat
      /\ budget[t] \in Nat /\ traded[t] \in Nat
  BY OrderTyped DEF TypeOK
<1>4. es \in Int /\ ec \in Int /\ eg \in Int /\ ea \in Int
  <2>1. Paid(shares[t], p) \in Nat
    BY <1>1, <1>3, AmountTyped
  <2> QED
    BY <1>1, <1>3, <2>1
<1>5. /\ SingleLots(t) = es \div ds /\ CashLots(t) = ec \div dc
      /\ GrossLots(t) = eg \div dg /\ AdvLots(t) = ea \div p
  BY DEF SingleLots, CashLots, GrossLots, AdvLots
<1> HIDE DEF ds, dc, dg, es, ec, eg, ea
<1>6. /\ es \div ds \in Int /\ ec \div dc \in Int /\ eg \div dg \in Int /\ ea \div p \in Int
  BY <1>1, <1>2, <1>4
<1>7. /\ n \in Int /\ n <= es \div ds /\ n <= ec \div dc /\ n <= eg \div dg /\ n <= ea \div p
  BY <1>5, <1>6 DEF BuyLots, Smaller
<1>8. n \in Nat
  BY <1>7
<1>9. n * ds <= es /\ n * dc <= ec /\ n * dg <= eg /\ n * p <= ea
  BY <1>1, <1>2, <1>4, <1>7, DivBound
<1>10. /\ n * ds = WDen * Paid(n, p) + Effective(t) * Cost(n, p)
       /\ n * dc = WDen * Paid(n, p) + (WDen - CLim) * Cost(n, p)
       /\ n * dg = WDen * (Paid(n, p) * Mult[t]) + GLim * Cost(n, p)
  BY <1>1, <1>8 DEF ds, dc, dg, Paid, Cost
<1> QED
  BY <1>1, <1>8, <1>9, <1>10 DEF es, ec, eg, ea

\* What a trade at the open does to the worth and the gross of the portfolio.
LEMMA TradeMoves ==
  ASSUME TypeOK, NEW t \in Tickers, quote[t].open > 0, NEW x \in Nat,
         shares' = [shares EXCEPT ![t] = x], quote' = quote, prev' = prev
  PROVE  /\ AtOpen' = AtOpen - Paid(shares[t], quote[t].open) + Paid(x, quote[t].open)
         /\ Gross' = Gross - Paid(shares[t], quote[t].open) * Mult[t]
                           + Paid(x, quote[t].open) * Mult[t]
<1> DEFINE m == [u \in Tickers |-> Mark(u)]
<1>1. m \in [Tickers -> Nat] /\ shares \in [Tickers -> Nat]
  BY OrderTyped DEF TypeOK
<1>2. m[t] = quote[t].open
  BY OrderTyped
<1>4. /\ AtOpen = Sum([u \in Tickers |-> Paid(shares[u], m[u])])
      /\ Gross = Sum([u \in Tickers |-> Paid(shares[u], m[u]) * Mult[u]])
  <2>1. /\ [u \in Tickers |-> Paid(shares[u], m[u])] = [u \in Tickers |-> Paid(shares[u], Mark(u))]
        /\ [u \in Tickers |-> Paid(shares[u], m[u]) * Mult[u]]
             = [u \in Tickers |-> Paid(shares[u], Mark(u)) * Mult[u]]
    OBVIOUS
  <2> QED
    BY <2>1 DEF AtOpen, Gross, Worth
<1>5. /\ AtOpen' = Sum([u \in Tickers |-> Paid([shares EXCEPT ![t] = x][u], m[u])])
      /\ Gross' = Sum([u \in Tickers |-> Paid([shares EXCEPT ![t] = x][u], m[u]) * Mult[u]])
  <2>1. \A u \in Tickers : Mark(u)' = Mark(u)
    BY DEF Mark
  <2>2. /\ AtOpen' = Sum([u \in Tickers |-> Paid(shares'[u], [v \in Tickers |-> Mark(v)'][u])])
        /\ Gross' = Sum([u \in Tickers |-> Paid(shares'[u], Mark(u)') * Mult[u]])
    BY DEF AtOpen, Gross, Worth
  <2>3. [v \in Tickers |-> Mark(v)'] = m
    BY <2>1
  <2>4. [u \in Tickers |-> Paid(shares'[u], Mark(u)') * Mult[u]]
          = [u \in Tickers |-> Paid(shares'[u], m[u]) * Mult[u]]
    BY <2>1
  <2> QED
    BY <2>2, <2>3, <2>4
<1> HIDE DEF m
<1>6. Sum([u \in Tickers |-> Paid([shares EXCEPT ![t] = x][u], m[u])])
        = Sum([u \in Tickers |-> Paid(shares[u], m[u])]) - Paid(shares[t], m[t]) + Paid(x, m[t])
  BY <1>1, TradeWorth
<1>7. Sum([u \in Tickers |-> Paid([shares EXCEPT ![t] = x][u], m[u]) * Mult[u]])
        = Sum([u \in Tickers |-> Paid(shares[u], m[u]) * Mult[u]])
          - Paid(shares[t], m[t]) * Mult[t] + Paid(x, m[t]) * Mult[t]
  BY <1>1, TradeGross
<1>8. AtOpen' = AtOpen - Paid(shares[t], quote[t].open) + Paid(x, quote[t].open)
  BY <1>2, <1>4, <1>5, <1>6
<1>9. Gross' = Gross - Paid(shares[t], quote[t].open) * Mult[t]
                     + Paid(x, quote[t].open) * Mult[t]
  BY <1>2, <1>4, <1>5, <1>7
<1> QED
  BY <1>8, <1>9

\* A step that touches neither the positions nor the quotes keeps both.
LEMMA NothingMoves ==
  ASSUME shares' = shares, quote' = quote, prev' = prev
  PROVE  AtOpen' = AtOpen /\ Gross' = Gross
BY DEF AtOpen, Gross, Worth, Mark

-----------------------------------------------------------------------------
(* The inductive invariant *)

\* A ticker sold today is still held up to its target.
SoldDownToTarget == \A t \in sold : quote[t].open > 0 /\ Desired(t) <= shares[t]

LedgerInv ==
  /\ TypeOK /\ Reconciles /\ WithinVolume /\ NoRoundTrip
  /\ SoldDownToTarget
  /\ 0 <= fees
  /\ phase = "sell" => bought = {}
  /\ phase = "closed" => sold = {} /\ bought = {}

LEMMA LedgerInit == Init => LedgerInv
<1> SUFFICES ASSUME Init PROVE LedgerInv
  OBVIOUS
<1>1. \A q \in Quotes : q.open \in Nat /\ q.close \in Nat
  BY InputAssumption
<1>2. Zero \in [Tickers -> Nat]
  BY DEF Zero
<1>3. Capital * FeeDen \in Nat
  BY SizeAssumption, FeeAssumption
<1>4. intent \in [kind : {"hold", "cash", "target"}, weights : [Tickers -> Nat]]
  BY <1>2, InputAssumption DEF Init, Hold, Liquidate, Target
<1>5. TypeOK
  BY <1>1, <1>2, <1>3, <1>4, SizeAssumption DEF Init, TypeOK, NoQuotes
<1>6. Reconciles
  BY DEF Init, Reconciles
<1>7. WithinVolume
  BY DEF Init, WithinVolume, Zero
<1> QED
  BY <1>5, <1>6, <1>7 DEF Init, LedgerInv, NoRoundTrip, SoldDownToTarget

-----------------------------------------------------------------------------
(* Sales *)

\* A sale fits in the volume left, sells no more than is held and stops at the
\* target.
LEMMA SellFits ==
  ASSUME TypeOK, NEW t \in Tickers, quote[t].open > 0, SellLots(t) > 0,
         NEW n, n = SellLots(t), NEW p, p = quote[t].open
  PROVE  /\ n \in Nat /\ p \in Nat \ {0}
         /\ n <= shares[t] /\ Desired(t) \in Int /\ Desired(t) <= shares[t] - n
         /\ n * p <= budget[t] - traded[t]
<1>1. /\ p \in Nat \ {0} /\ shares[t] \in Nat /\ Weight(t) \in Nat /\ equity \in Int
      /\ budget[t] - traded[t] \in Int
  BY OrderTyped DEF TypeOK
<1>2. Desired(t) \in Int
  <2>1. WDen * FeeDen * p \in Nat \ {0} /\ Weight(t) * equity \in Int
    BY <1>1, LimitAssumption, FeeAssumption
  <2> QED
    BY <2>1 DEF Desired
<1> DEFINE ea == budget[t] - traded[t]
<1>3. AdvLots(t) = ea \div p
  BY DEF AdvLots
<1> HIDE DEF ea
<1>4. ea \in Int /\ ea \div p \in Int
  BY <1>1 DEF ea
<1>5. n \in Int /\ n <= shares[t] /\ n <= shares[t] - Desired(t) /\ n <= ea \div p
  BY <1>1, <1>2, <1>3, <1>4 DEF SellLots, Smaller
<1>6. n * p <= ea
  BY <1>1, <1>4, <1>5, DivBound
<1> QED
  BY <1>1, <1>2, <1>5, <1>6 DEF ea

LEMMA SellKeeps ==
  ASSUME LedgerInv, NEW t \in Tickers, Sell(t)
  PROVE  LedgerInv'
<1> DEFINE n == SellLots(t)
           p == quote[t].open
<1>1. TypeOK /\ phase = "sell" /\ p > 0 /\ n > 0 /\ bought = {} /\ 0 <= fees
  BY DEF LedgerInv, Sell
<1>2. /\ n \in Nat /\ p \in Nat \ {0}
      /\ n <= shares[t] /\ Desired(t) \in Int /\ Desired(t) <= shares[t] - n
      /\ n * p <= budget[t] - traded[t]
  BY <1>1, SellFits
<1>3. /\ cash' = cash + Paid(n, p) - Cost(n, p)
      /\ shares' = [shares EXCEPT ![t] = shares[t] - n]
      /\ traded' = [traded EXCEPT ![t] = traded[t] + n * p]
      /\ fees' = fees + Cost(n, p)
      /\ sold' = sold \union {t} /\ todo' = todo \ {t}
      /\ UNCHANGED <<session, phase, prev, quote, intent, equity, equityCur, budget,
                     bought, unfilled, report>>
  BY DEF Sell, Visit
<1> HIDE DEF n, p
<1>4. Paid(n, p) \in Nat /\ Cost(n, p) \in Nat /\ Cost(n, p) <= Paid(n, p) /\ n * p \in Nat
  BY <1>2, AmountTyped, ProductNat
<1>5. /\ cash \in Nat /\ fees \in Int /\ equity \in Int /\ shares \in [Tickers -> Nat]
      /\ traded \in [Tickers -> Nat] /\ budget \in [Tickers -> Nat]
  BY <1>1 DEF TypeOK
<1>6. shares[t] - n \in Nat /\ shares[t] \in Nat
  BY <1>2, <1>5
<1>7. TypeOK'
  <2>1. cash' \in Nat /\ fees' \in Int
    BY <1>3, <1>4, <1>5
  <2>2. shares' \in [Tickers -> Nat] /\ traded' \in [Tickers -> Nat]
    BY <1>3, <1>4, <1>5, <1>6
  <2>3. todo' \subseteq Tickers /\ sold' \subseteq Tickers
    BY <1>1, <1>3 DEF TypeOK
  <2> QED
    BY <1>1, <1>3, <2>1, <2>2, <2>3 DEF TypeOK, report
<1>8. Reconciles'
  <2>1. AtOpen' = AtOpen - Paid(shares[t], p) + Paid(shares[t] - n, p)
    BY <1>1, <1>3, <1>6, TradeMoves DEF p
  <2>2. Paid(shares[t] - n, p) = Paid(shares[t], p) - Paid(n, p)
    <3>1. n \in Int /\ p \in Nat
      BY <1>2
    <3> QED
      BY <1>6, <3>1, PaidMoves
  <2>3. AtOpen \in Nat /\ Paid(shares[t], p) \in Nat
    BY <1>1, <1>2, <1>6, OrderTyped, AmountTyped
  <2>4. cash + AtOpen + fees = equity
    BY <1>1 DEF LedgerInv, Reconciles
  <2>5. cash' + AtOpen' + fees' = equity'
    BY <1>3, <1>4, <1>5, <2>1, <2>2, <2>3, <2>4
  <2> QED
    BY <1>1, <1>3, <2>5 DEF Reconciles
<1>9. WithinVolume'
  <2>1. traded'[t] <= budget'[t]
    BY <1>2, <1>3, <1>4, <1>5
  <2>2. \A u \in Tickers \ {t} : traded'[u] <= budget'[u]
    BY <1>3, <1>5 DEF LedgerInv, WithinVolume
  <2> QED
    BY <2>1, <2>2 DEF WithinVolume
<1>10. SoldDownToTarget'
  <2>1. \A u \in Tickers : Desired(u)' = Desired(u)
    BY <1>3 DEF Desired, Weight
  <2>2. quote'[t].open > 0 /\ Desired(t)' <= shares'[t]
    BY <1>1, <1>2, <1>3, <1>5, <2>1 DEF p
  <2>3. \A u \in sold \ {t} : quote'[u].open > 0 /\ Desired(u)' <= shares'[u]
    <3>1. sold \subseteq Tickers
      BY <1>1 DEF TypeOK
    <3> QED
      BY <1>3, <1>5, <2>1, <3>1 DEF LedgerInv, SoldDownToTarget
  <2> QED
    BY <1>3, <2>2, <2>3 DEF SoldDownToTarget
<1>11. NoRoundTrip' /\ 0 <= fees' /\ phase' = "sell" /\ bought' = {}
  BY <1>1, <1>3, <1>4, <1>5 DEF NoRoundTrip
<1> QED
  BY <1>7, <1>8, <1>9, <1>10, <1>11 DEF LedgerInv

-----------------------------------------------------------------------------
(* Purchases *)

\* What a ticker was sold of today, it is not bought back: it is still held up
\* to its target, and after the fees the target allows no further lot.
LEMMA NotBoughtBack ==
  ASSUME LedgerInv, phase = "buy", NEW t \in Tickers, quote[t].open > 0, BuyLots(t) > 0
  PROVE  t \notin sold
<1> SUFFICES ASSUME t \in sold PROVE FALSE
  OBVIOUS
<1> DEFINE n == BuyLots(t)
           p == quote[t].open
           d == WDen * FeeDen * p
           w == Weight(t)
           a == w * equity
           k == Desired(t)
           h == shares[t]
<1>1. TypeOK /\ p > 0 /\ n > 0
  BY DEF LedgerInv
<1>2. /\ n \in Nat /\ p \in Nat
      /\ WDen * Paid(n, p) + Effective(t) * Cost(n, p) <= Effective(t) * equityCur - WDen * Paid(h, p)
  BY <1>1, BuyFits
<1>3. /\ w \in Nat /\ Effective(t) \in Nat /\ Effective(t) <= w /\ h \in Nat
      /\ equity \in Int /\ equityCur \in Nat /\ equityCur <= equity
  <2>1. /\ equityCur = cash + AtOpen /\ cash + AtOpen + fees = equity /\ 0 <= fees
        /\ cash \in Nat /\ fees \in Int /\ equity \in Int
    BY <1>1 DEF LedgerInv, Reconciles, TypeOK
  <2>2. AtOpen \in Nat
    BY <1>1, OrderTyped
  <2> QED
    BY <1>1, <2>1, <2>2, OrderTyped DEF TypeOK
<1>4. d \in Nat \ {0} /\ a \in Int
  BY <1>1, <1>2, <1>3, LimitAssumption, FeeAssumption
<1>5. k \in Int /\ k <= h
  <2>1. k = a \div d
    BY DEF Desired
  <2> HIDE DEF a, d, k
  <2>2. k \in Int
    BY <1>4, <2>1
  <2> QED
    BY <2>2 DEF LedgerInv, SoldDownToTarget, k
<1>6. a < (k + 1) * d
  <2>1. k = a \div d
    BY DEF Desired
  <2> HIDE DEF a, d, k
  <2> QED
    BY <1>4, <2>1, DivRest
<1>7. (k + 1) * d <= (h + 1) * d
  <2> HIDE DEF d, k, h
  <2> QED
    BY <1>3, <1>4, <1>5
<1>8. (h + 1) * d <= WDen * Paid(h, p) + WDen * Paid(n, p)
  <2>1. WDen * Paid(h, p) = h * d /\ WDen * Paid(n, p) = n * d
    BY <1>2, <1>3, LimitAssumption, FeeAssumption DEF Paid
  <2> HIDE DEF d, n, h
  <2>2. (h + n) * d >= (h + 1) * d /\ (h + n) * d = h * d + n * d
    BY <1>1, <1>2, <1>3, <1>4
  <2> QED
    BY <2>1, <2>2
<1>9. Effective(t) * equityCur <= a
  <2> DEFINE e == Effective(t)
  <2> HIDE DEF e, w
  <2>1. e * equityCur <= w * equityCur
    BY <1>3 DEF e
  <2>2. w * equityCur <= w * equity
    BY <1>3
  <2>3. e * equityCur \in Int /\ w * equityCur \in Int /\ w * equity \in Int
    BY <1>3 DEF e
  <2> QED
    BY <2>1, <2>2, <2>3 DEF e
<1> HIDE DEF n, p, d, w, a, k, h
<1>10. /\ Effective(t) * Cost(n, p) \in Nat /\ Effective(t) * equityCur \in Int
       /\ WDen * Paid(n, p) \in Int /\ WDen * Paid(h, p) \in Int
       /\ (k + 1) * d \in Int /\ (h + 1) * d \in Int
  <2>1. Cost(n, p) \in Nat /\ Paid(n, p) \in Nat /\ Paid(h, p) \in Nat
    BY <1>2, <1>3, AmountTyped
  <2> QED
    BY <1>3, <1>4, <1>5, <2>1, LimitAssumption, ProductNat
<1> QED
  BY <1>2, <1>4, <1>6, <1>7, <1>8, <1>9, <1>10

\* What a purchase leaves behind: the books balance, and each limit holds of the
\* new position and the equity after the fee.
LEMMA BuyMoves ==
  ASSUME LedgerInv, NEW t \in Tickers, Buy(t),
         NEW n, n = BuyLots(t), NEW p, p = quote[t].open
  PROVE  /\ cash' \in Nat /\ shares' \in [Tickers -> Nat] /\ equityCur' \in Int
         /\ cash' + AtOpen' + fees' = equity /\ equityCur' = cash' + AtOpen'
         /\ WDen * Paid(shares'[t], p) <= Effective(t) * equityCur'
         /\ WDen * Gross' <= GLim * equityCur'
         /\ WDen * cash' >= CLim * equityCur'
<1>1. TypeOK /\ phase = "buy" /\ p > 0 /\ n > 0
  BY DEF LedgerInv, Buy, Blocked, TypeOK
<1>2. /\ n \in Nat /\ p \in Nat
      /\ WDen * Paid(n, p) + (WDen - CLim) * Cost(n, p) <= WDen * cash - CLim * equityCur
      /\ WDen * Paid(n, p) + Effective(t) * Cost(n, p)
           <= Effective(t) * equityCur - WDen * Paid(shares[t], p)
      /\ WDen * (Paid(n, p) * Mult[t]) + GLim * Cost(n, p) <= GLim * equityCur - WDen * Gross
  BY <1>1, BuyFits DEF Buy
<1>3. /\ cash' = cash - Paid(n, p) - Cost(n, p)
      /\ shares' = [shares EXCEPT ![t] = shares[t] + n]
      /\ fees' = fees + Cost(n, p)
      /\ equityCur' = equityCur - Cost(n, p)
      /\ quote' = quote /\ prev' = prev
  BY DEF Buy
<1>4. /\ cash \in Int /\ fees \in Int /\ equity \in Int /\ equityCur \in Int
      /\ shares \in [Tickers -> Nat] /\ shares[t] \in Nat /\ shares[t] + n \in Nat
      /\ cash + AtOpen + fees = equity /\ equityCur = cash + AtOpen
      /\ AtOpen \in Nat /\ Gross \in Nat /\ Effective(t) \in Nat
      /\ Mult[t] \in Nat /\ WDen \in Nat /\ GLim \in Nat /\ CLim \in Nat /\ CLim < WDen
  BY <1>1, <1>2, OrderTyped, MultAssumption, LimitAssumption
     DEF LedgerInv, Reconciles, TypeOK
<1>5. /\ AtOpen' = AtOpen - Paid(shares[t], p) + Paid(shares[t] + n, p)
      /\ Gross' = Gross - Paid(shares[t], p) * Mult[t] + Paid(shares[t] + n, p) * Mult[t]
  BY <1>1, <1>3, <1>4, TradeMoves
<1>6. Paid(shares[t] + n, p) = Paid(shares[t], p) + Paid(n, p)
  <2>1. n \in Int /\ p \in Nat /\ shares[t] \in Nat
    BY <1>2, <1>4
  <2> QED
    BY <2>1, PaidMoves
<1> DEFINE b == Paid(n, p)
           c == Cost(n, p)
           h == Paid(shares[t], p)
           e == Effective(t)
           mt == Mult[t]
<1>7. b \in Nat /\ c \in Nat /\ h \in Nat
  BY <1>2, <1>4, AmountTyped
<1>8. shares' \in [Tickers -> Nat] /\ shares'[t] = shares[t] + n
  BY <1>3, <1>4
<1>9. /\ WDen * b + (WDen - CLim) * c <= WDen * cash - CLim * equityCur
      /\ WDen * b + e * c <= e * equityCur - WDen * h
      /\ WDen * (b * mt) + GLim * c <= GLim * equityCur - WDen * Gross
      /\ AtOpen' = AtOpen + b /\ Gross' = Gross + b * mt
      /\ cash' = cash - b - c /\ equityCur' = equityCur - c /\ fees' = fees + c
      /\ e \in Nat /\ mt \in Nat
      /\ Paid(shares'[t], p) = h + b
  <2>1. (h + b) * mt = h * mt + b * mt /\ h * mt \in Nat /\ b * mt \in Nat
    <3> HIDE DEF h, b, mt
    <3> QED
      BY <1>4, <1>7 DEF mt
  <2>2. Gross' = Gross - h * mt + (h + b) * mt
    BY <1>5, <1>6
  <2>3. AtOpen' = AtOpen - h + (h + b)
    BY <1>5, <1>6
  <2>4. AtOpen' = AtOpen + b /\ Gross' = Gross + b * mt
    <3> HIDE DEF h, b, mt
    <3> QED
      BY <1>4, <1>7, <2>1, <2>2, <2>3
  <2> QED
    BY <1>2, <1>3, <1>4, <1>6, <1>8, <2>4
<1> HIDE DEF b, c, h, e, mt
<1>10. equityCur' = cash' + AtOpen' /\ cash' + AtOpen' + fees' = equity
  BY <1>4, <1>7, <1>9
<1>11. WDen * cash' >= CLim * equityCur'
  BY <1>4, <1>7, <1>9
<1>12. WDen * (h + b) <= e * equityCur'
  BY <1>4, <1>7, <1>9
<1>13. WDen * Gross' <= GLim * equityCur'
  <2>1. b * mt \in Nat
    BY <1>7, <1>9, ProductNat
  <2> DEFINE g == b * mt
  <2> HIDE DEF g
  <2> QED
    BY <1>4, <1>7, <1>9, <2>1 DEF g
<1>14. cash' \in Nat
  <2> DEFINE a == AtOpen'
             x == cash'
  <2>1. a \in Nat /\ x \in Int
    BY <1>4, <1>7, <1>9
  <2>2. CLim * (x + a) <= WDen * x
    BY <1>10, <1>11
  <2> HIDE DEF a, x
  <2>3. x \in Nat
    BY <1>4, <2>1, <2>2, ReserveNonneg
  <2> QED
    BY <2>3 DEF x
<1> QED
  BY <1>4, <1>7, <1>8, <1>9, <1>10, <1>11, <1>12, <1>13, <1>14 DEF e

LEMMA BuyKeeps ==
  ASSUME LedgerInv, NEW t \in Tickers, Buy(t)
  PROVE  LedgerInv'
<1> DEFINE n == BuyLots(t)
           p == quote[t].open
<1>1. TypeOK /\ phase = "buy" /\ p > 0 /\ n > 0 /\ 0 <= fees
  BY DEF LedgerInv, Buy, Blocked, TypeOK
<1>2. /\ cash' \in Nat /\ shares' \in [Tickers -> Nat] /\ equityCur' \in Int
      /\ cash' + AtOpen' + fees' = equity /\ equityCur' = cash' + AtOpen'
  BY BuyMoves
<1>3. n \in Nat /\ p \in Nat /\ n * p <= budget[t] - traded[t]
  BY <1>1, BuyFits
<1>4. t \notin sold
  BY <1>1, NotBoughtBack
<1>5. /\ shares' = [shares EXCEPT ![t] = shares[t] + n]
      /\ traded' = [traded EXCEPT ![t] = traded[t] + n * p]
      /\ fees' = fees + Cost(n, p)
      /\ bought' = bought \union {t} /\ todo' = todo \ {t}
      /\ UNCHANGED <<session, phase, prev, quote, intent, equity, budget,
                     sold, unfilled, report>>
  BY DEF Buy, Visit
<1> HIDE DEF n, p
<1>6. /\ Cost(n, p) \in Nat /\ n * p \in Nat /\ fees \in Int
      /\ traded \in [Tickers -> Nat] /\ budget \in [Tickers -> Nat]
      /\ sold \subseteq Tickers /\ shares \in [Tickers -> Nat]
  BY <1>1, <1>3, AmountTyped, ProductNat DEF TypeOK
<1>7. TypeOK'
  <2>1. fees' \in Int /\ traded' \in [Tickers -> Nat]
    BY <1>5, <1>6
  <2>2. todo' \subseteq Tickers /\ bought' \subseteq Tickers
    BY <1>1, <1>5 DEF TypeOK
  <2> QED
    BY <1>1, <1>2, <1>5, <2>1, <2>2 DEF TypeOK, report
<1>8. Reconciles'
  BY <1>1, <1>2, <1>5 DEF Reconciles
<1>9. WithinVolume'
  <2>1. traded'[t] <= budget'[t]
    BY <1>3, <1>5, <1>6
  <2>2. \A u \in Tickers \ {t} : traded'[u] <= budget'[u]
    BY <1>5, <1>6 DEF LedgerInv, WithinVolume
  <2> QED
    BY <2>1, <2>2 DEF WithinVolume
<1>10. SoldDownToTarget'
  <2>1. \A u \in Tickers : Desired(u)' = Desired(u)
    BY <1>5 DEF Desired, Weight
  <2>2. \A u \in sold : shares'[u] = shares[u]
    BY <1>4, <1>5, <1>6
  <2> QED
    BY <1>5, <1>6, <2>1, <2>2 DEF LedgerInv, SoldDownToTarget
<1>11. NoRoundTrip' /\ 0 <= fees'
  BY <1>4, <1>5, <1>6, <1>1 DEF LedgerInv, NoRoundTrip
<1>12. phase' = "buy"
  BY <1>1, <1>5
<1> QED
  BY <1>7, <1>8, <1>9, <1>10, <1>11, <1>12 DEF LedgerInv

-----------------------------------------------------------------------------
(* The steps that trade nothing *)

\* A ticker passed over by either loop.
LEMMA PassKeeps ==
  ASSUME LedgerInv, NEW t \in Tickers,
         SellUnquoted(t) \/ SellNothing(t) \/ BuyBlocked(t) \/ BuyNothing(t)
  PROVE  LedgerInv'
<1>1. /\ todo' = todo \ {t} /\ unfilled' \in {unfilled, unfilled \union {t}}
      /\ UNCHANGED <<session, phase, prev, quote, intent, cash, shares, equity, equityCur,
                     fees, budget, traded, sold, bought, report>>
  BY DEF SellUnquoted, SellNothing, BuyBlocked, BuyNothing, Visit, Pass
<1>2. TypeOK'
  <2>1. todo' \subseteq Tickers /\ unfilled' \subseteq Tickers
    BY <1>1 DEF LedgerInv, TypeOK
  <2> QED
    BY <1>1, <2>1 DEF LedgerInv, TypeOK, report
<1>3. Reconciles'
  BY <1>1, NothingMoves DEF LedgerInv, Reconciles
<1>4. WithinVolume'
  BY <1>1 DEF LedgerInv, WithinVolume
<1>5. NoRoundTrip'
  BY <1>1 DEF LedgerInv, NoRoundTrip
<1>6. SoldDownToTarget'
  BY <1>1 DEF LedgerInv, SoldDownToTarget, Desired, Weight
<1>7. /\ 0 <= fees' /\ (phase' = "sell" => bought' = {})
      /\ (phase' = "closed" => sold' = {} /\ bought' = {})
  BY <1>1 DEF LedgerInv
<1> QED
  BY <1>2, <1>3, <1>4, <1>5, <1>6, <1>7 DEF LedgerInv

\* Marks are prices, so what a portfolio is worth at them is an amount.
LEMMA ValueTyped ==
  ASSUME TypeOK, NEW m, \A t \in Tickers : m[t] \in Nat
  PROVE  Worth(m) \in Nat /\ cash + Worth(m) \in Nat
<1> DEFINE f == [t \in Tickers |-> m[t]]
<1>1. f \in [Tickers -> Nat] /\ shares \in [Tickers -> Nat] /\ cash \in Nat
  BY DEF TypeOK
<1>2. [t \in Tickers |-> Paid(shares[t], f[t])] = [t \in Tickers |-> Paid(shares[t], m[t])]
  OBVIOUS
<1> HIDE DEF f
<1>3. Sum([t \in Tickers |-> Paid(shares[t], f[t])]) \in Nat
  BY <1>1, WorthTyped
<1>4. Worth(m) \in Nat
  BY <1>2, <1>3 DEF Worth
<1> QED
  BY <1>1, <1>4

LEMMA QuotesTyped ==
  ASSUME NEW q \in [Tickers -> Quotes]
  PROVE  /\ q \in [Tickers -> [open : Nat, close : Nat]]
         /\ \A t \in Tickers : q[t].open \in Nat /\ q[t].close \in Nat
<1>1. \A r \in Quotes : r \in [open : Nat, close : Nat]
  BY InputAssumption
<1>2. \A t \in Tickers : q[t] \in [open : Nat, close : Nat]
  BY <1>1
<1> QED
  BY <1>2

LEMMA CarryKeeps ==
  ASSUME LedgerInv, NEW q \in [Tickers -> Quotes], CarryPriceless(q) \/ CarryHold(q)
  PROVE  LedgerInv'
<1>1. TypeOK /\ phase = "closed" /\ sold = {} /\ bought = {}
  BY DEF LedgerInv, CarryPriceless, CarryHold, Opens
<1>2. /\ quote' = q /\ session' = session + 1 /\ session < MaxSession /\ phase' = "decide"
      /\ UNCHANGED <<prev, intent, cash, shares, orders>>
  BY DEF CarryPriceless, CarryHold, Opens
<1>3. /\ \A t \in Tickers : q[t].open \in Nat /\ q[t].close \in Nat /\ prev[t] \in Nat
      /\ q \in [Tickers -> [open : Nat, close : Nat]]
  BY <1>1, QuotesTyped DEF TypeOK
<1>4. EquityPrev \in Nat /\ cash \in Nat
  BY <1>1, <1>3, ValueTyped DEF EquityPrev, TypeOK
<1>5. nav' \in Nat /\ navBefore' = nav /\ base' \in Nat
  <2>1. CASE CarryPriceless(q)
    <3> DEFINE marks == [t \in Tickers |-> First(q[t].close, prev[t])]
               value == IF \A t \in Held : marks[t] > 0 THEN cash + Worth(marks) ELSE EquityPrev
    <3>1. \A t \in Tickers : marks[t] \in Nat
      BY <1>3 DEF First
    <3>2. Reports(value, value)
      BY <2>1 DEF CarryPriceless
    <3> HIDE DEF marks
    <3>3. cash + Worth(marks) \in Nat
      BY <1>1, <3>1, ValueTyped
    <3> QED
      BY <1>4, <3>2, <3>3 DEF Reports
  <2>2. CASE CarryHold(q)
    <3> DEFINE marks == [t \in Tickers |-> First(q[t].open, prev[t])]
               closes == [t \in Tickers |-> First(q[t].close, marks[t])]
               value == cash + Worth(closes)
    <3>1. \A t \in Tickers : closes[t] \in Nat
      BY <1>3 DEF First
    <3>2. \/ Reports(cash, cash)
          \/ Reports(value, IF EquityPrev = 0 THEN value ELSE EquityPrev)
      BY <2>2 DEF CarryHold
    <3> HIDE DEF closes
    <3>3. value \in Nat
      BY <1>1, <3>1, ValueTyped
    <3> QED
      BY <1>4, <3>2, <3>3 DEF Reports
  <2> QED
    BY <2>1, <2>2
<1>6. TypeOK'
  <2>1. session' \in 0 .. MaxSession
    BY <1>1, <1>2, SizeAssumption DEF TypeOK
  <2>2. navBefore' \in Nat
    BY <1>1, <1>5 DEF TypeOK
  <2> QED
    BY <1>1, <1>2, <1>3, <1>5, <2>1, <2>2 DEF TypeOK, orders
<1>7. Reconciles'
  BY <1>2 DEF Reconciles
<1>8. WithinVolume'
  BY <1>2 DEF LedgerInv, WithinVolume, orders
<1>9. sold' = {} /\ bought' = {} /\ 0 <= fees'
  BY <1>1, <1>2 DEF LedgerInv, orders
<1> QED
  BY <1>2, <1>6, <1>7, <1>8, <1>9 DEF LedgerInv, NoRoundTrip, SoldDownToTarget

LEMMA StartOrdersKeeps ==
  ASSUME LedgerInv, NEW q \in [Tickers -> Quotes], NEW b \in Budgets, StartOrders(q, b)
  PROVE  LedgerInv'
<1> DEFINE marks == [t \in Tickers |-> First(q[t].open, prev[t])]
<1>1. TypeOK /\ fees' = 0 /\ 0 \in Nat
  BY DEF LedgerInv, StartOrders
<1>2. /\ quote' = q /\ session' = session + 1 /\ session < MaxSession /\ phase' = "sell"
      /\ todo' = Held /\ equity' = cash + Worth(marks) /\ equityCur' = 0
      /\ budget' = b /\ traded' = Zero /\ sold' = {} /\ bought' = {} /\ unfilled' = {}
      /\ base' = EquityPrev
      /\ UNCHANGED <<prev, intent, cash, shares, nav, navBefore>>
  BY DEF StartOrders, Opens
<1>3. /\ \A t \in Tickers : q[t].open \in Nat /\ prev[t] \in Nat
      /\ q \in [Tickers -> [open : Nat, close : Nat]]
  BY <1>1, QuotesTyped DEF TypeOK
<1>4. EquityPrev \in Nat
  BY <1>1, <1>3, ValueTyped DEF EquityPrev
<1>5. Worth(marks) \in Nat /\ cash \in Nat
  <2>1. \A t \in Tickers : marks[t] \in Nat
    BY <1>3 DEF First
  <2> HIDE DEF marks
  <2> QED
    BY <1>1, <2>1, ValueTyped DEF TypeOK
<1>6. b \in [Tickers -> Nat] /\ Zero \in [Tickers -> Nat] /\ \A t \in Tickers : Zero[t] = 0
  BY InputAssumption DEF Zero
<1>7. TypeOK'
  <2>1. session' \in 0 .. MaxSession
    BY <1>1, <1>2, SizeAssumption DEF TypeOK
  <2>2. todo' \subseteq Tickers
    BY <1>2 DEF Held
  <2>3. equity' \in Int
    BY <1>2, <1>5
  <2> HIDE DEF marks
  <2> QED
    BY <1>1, <1>2, <1>3, <1>4, <1>6, <2>1, <2>2, <2>3 DEF TypeOK
<1>8. Reconciles'
  <2>1. AtOpen' = Worth(marks)
    BY <1>2 DEF AtOpen, Worth, Mark
  <2> HIDE DEF marks
  <2>2. cash' + AtOpen' + fees' = equity'
    BY <1>1, <1>2, <1>5, <2>1
  <2> QED
    BY <1>2, <2>2 DEF Reconciles
<1>9. WithinVolume'
  BY <1>2, <1>6 DEF WithinVolume
<1> QED
  BY <1>1, <1>2, <1>7, <1>8, <1>9 DEF LedgerInv, NoRoundTrip, SoldDownToTarget

LEMMA StartBuysKeeps ==
  ASSUME LedgerInv, StartBuys
  PROVE  LedgerInv'
<1>1. /\ phase = "sell" /\ phase' = "buy" /\ todo' = {t \in Tickers : Weight(t) > 0}
      /\ equityCur' = cash + AtOpen
      /\ UNCHANGED <<session, prev, quote, intent, cash, shares, equity, fees, budget,
                     traded, sold, bought, unfilled, report>>
  BY DEF StartBuys
<1>2. TypeOK /\ bought = {}
  BY <1>1 DEF LedgerInv
<1>3. AtOpen' = AtOpen
  BY <1>1, NothingMoves
<1>4. TypeOK'
  <2>1. cash + AtOpen = equity - fees /\ equity \in Int /\ fees \in Int
    <3>1. cash + AtOpen + fees = equity /\ cash \in Nat /\ fees \in Int /\ equity \in Int
      BY <1>1, <1>2 DEF LedgerInv, Reconciles, TypeOK
    <3>2. AtOpen' = AtOpen /\ AtOpen \in Nat
      <4> DEFINE f == [t \in Tickers |-> Mark(t)]
      <4>1. \A t \in Tickers : f[t] \in Nat
        BY <1>2, OrderTyped
      <4> HIDE DEF f
      <4>2. Worth(f) \in Nat
        BY <1>2, <4>1, ValueTyped
      <4> QED
        BY <1>3, <4>2 DEF AtOpen, f
    <3> QED
      BY <3>1, <3>2
  <2>2. equityCur' \in Int
    BY <1>1, <2>1
  <2>3. todo' \subseteq Tickers
    BY <1>1
  <2> QED
    BY <1>1, <1>2, <2>2, <2>3 DEF TypeOK, report
<1>5. Reconciles'
  BY <1>1, <1>3 DEF LedgerInv, Reconciles
<1>6. WithinVolume'
  BY <1>1 DEF LedgerInv, WithinVolume
<1>7. SoldDownToTarget'
  BY <1>1 DEF LedgerInv, SoldDownToTarget, Desired, Weight
<1>8. NoRoundTrip' /\ 0 <= fees'
  BY <1>1 DEF LedgerInv, NoRoundTrip
<1> QED
  BY <1>1, <1>4, <1>5, <1>6, <1>7, <1>8 DEF LedgerInv

LEMMA CloseSessionKeeps ==
  ASSUME LedgerInv, CloseSession
  PROVE  LedgerInv'
<1> DEFINE marks == [t \in Tickers |-> First(quote[t].close, prev[t])]
           value == cash + Worth(marks)
<1>1. /\ phase' = "decide" /\ Reports(value, IF base = 0 THEN value ELSE base)
      /\ UNCHANGED <<session, prev, quote, intent, cash, shares, orders>>
  BY DEF CloseSession
<1>2. TypeOK
  BY DEF LedgerInv
<1>3. value \in Nat
  <2>1. \A t \in Tickers : marks[t] \in Nat
    <3>1. \A t \in Tickers : quote[t].close \in Nat /\ prev[t] \in Nat
      BY <1>2 DEF TypeOK
    <3> QED
      BY <3>1 DEF First
  <2> HIDE DEF marks
  <2> QED
    BY <1>2, <2>1, ValueTyped
<1> HIDE DEF value
<1>4. TypeOK'
  <2>1. nav' \in Nat /\ navBefore' \in Nat /\ base' \in Nat
    BY <1>1, <1>2, <1>3 DEF Reports, TypeOK
  <2> QED
    BY <1>1, <1>2, <2>1 DEF TypeOK, orders
<1>5. Reconciles'
  BY <1>1 DEF Reconciles
<1>6. WithinVolume' /\ NoRoundTrip' /\ 0 <= fees'
  BY <1>1 DEF LedgerInv, WithinVolume, NoRoundTrip, orders
<1>7. SoldDownToTarget'
  BY <1>1 DEF LedgerInv, SoldDownToTarget, Desired, Weight, orders
<1> QED
  BY <1>1, <1>4, <1>5, <1>6, <1>7 DEF LedgerInv

LEMMA DecideKeeps ==
  ASSUME LedgerInv, Decide
  PROVE  LedgerInv'
<1>1. TypeOK
  BY DEF LedgerInv
<1>2. /\ phase' = "closed" /\ sold' = {} /\ bought' = {} /\ fees' = 0
      /\ traded' = Zero /\ budget' = Zero
  BY DEF Decide
<1>3. Zero \in [Tickers -> Nat] /\ \A t \in Tickers : Zero[t] = 0
  BY DEF Zero
<1>4. TypeOK'
  <2>1. prev' \in [Tickers -> Nat]
    <3>1. \A t \in Tickers : quote[t].close \in Nat
      BY <1>1 DEF TypeOK
    <3> QED
      BY <3>1 DEF Decide
  <2>2. intent' \in [kind : {"hold", "cash", "target"}, weights : [Tickers -> Nat]]
    BY <1>3, InputAssumption DEF Decide, Hold, Liquidate, Target
  <2>3. quote' \in [Tickers -> [open : Nat, close : Nat]]
    BY DEF Decide, NoQuotes
  <2> QED
    BY <1>1, <1>3, <2>1, <2>2, <2>3 DEF Decide, TypeOK, report
<1>5. Reconciles'
  BY <1>2 DEF Reconciles
<1>6. WithinVolume'
  BY <1>2, <1>3 DEF WithinVolume
<1> QED
  BY <1>2, <1>4, <1>5, <1>6 DEF LedgerInv, NoRoundTrip, SoldDownToTarget

LEMMA StutterKeeps ==
  ASSUME LedgerInv, UNCHANGED vars
  PROVE  LedgerInv'
<1>1. UNCHANGED <<session, phase, prev, quote, intent, cash, shares, todo, equity, equityCur,
                  fees, budget, traded, sold, bought, unfilled, nav, navBefore, base>>
  BY DEF vars, orders, report
<1>2. TypeOK'
  BY <1>1 DEF LedgerInv, TypeOK
<1>3. Reconciles'
  BY <1>1, NothingMoves DEF LedgerInv, Reconciles
<1>4. SoldDownToTarget'
  BY <1>1 DEF LedgerInv, SoldDownToTarget, Desired, Weight
<1> QED
  BY <1>1, <1>2, <1>3, <1>4 DEF LedgerInv, WithinVolume, NoRoundTrip

LEMMA LedgerNext == LedgerInv /\ [Next]_vars => LedgerInv'
<1> SUFFICES ASSUME LedgerInv, [Next]_vars PROVE LedgerInv'
  OBVIOUS
<1>1. CASE Execute
  BY <1>1, CarryKeeps, StartOrdersKeeps DEF Execute
<1>2. CASE Order
  BY <1>2, PassKeeps, SellKeeps, BuyKeeps DEF Order
<1>3. CASE StartBuys
  BY <1>3, StartBuysKeeps
<1>4. CASE CloseSession
  BY <1>4, CloseSessionKeeps
<1>5. CASE Decide
  BY <1>5, DecideKeeps
<1>6. CASE UNCHANGED vars
  BY <1>6, StutterKeeps
<1> QED
  BY <1>1, <1>2, <1>3, <1>4, <1>5, <1>6 DEF Next

-----------------------------------------------------------------------------
(* Theorems *)

THEOREM LedgerInvariant == Spec => []LedgerInv
BY LedgerInit, LedgerNext, PTL DEF Spec

\* The cash stays nonnegative between any two orders, whatever the prices, the
\* weights and the volume: transition_portfolio_state never meets a ledger it
\* would refuse, and no position is ever sold short.
THEOREM LedgerTyped == Spec => []TypeOK
<1>1. LedgerInv => TypeOK
  BY DEF LedgerInv
<1> QED
  BY <1>1, LedgerInvariant, PTL

\* Between any two orders the cash, the positions at their marks and the fees
\* add up to the equity at the open, and equity_cur is the true equity.
THEOREM LedgerReconciles == Spec => []Reconciles
<1>1. LedgerInv => Reconciles
  BY DEF LedgerInv
<1> QED
  BY <1>1, LedgerInvariant, PTL

\* Sales and purchases of a ticker share one volume budget and never exceed it.
THEOREM VolumeRespected == Spec => []WithinVolume
<1>1. LedgerInv => WithinVolume
  BY DEF LedgerInv
<1> QED
  BY <1>1, LedgerInvariant, PTL

\* The buy loop never buys back a ticker that the sell loop of the same session
\* sold: what the rounding left is at least the target, and the fees only lower
\* the equity that the target is a share of.
THEOREM NeverRoundTrips == Spec => []NoRoundTrip
<1>1. LedgerInv => NoRoundTrip
  BY DEF LedgerInv
<1> QED
  BY <1>1, LedgerInvariant, PTL

\* A step of the ledger raises the shares of a ticker only as a purchase within
\* the limits.
LEMMA OnlyBuysRaise ==
  ASSUME LedgerInv, [Next]_vars, NEW t \in Tickers, shares'[t] > shares[t]
  PROVE  Buy(t)
<1>1. shares \in [Tickers -> Nat]
  BY DEF LedgerInv, TypeOK
<1>2. shares' # shares
  BY <1>1
<1>3. PICK u \in Tickers : Sell(u) \/ Buy(u)
  BY <1>2 DEF Next, Execute, Order, CarryPriceless, CarryHold, StartOrders, SellUnquoted,
     SellNothing, BuyBlocked, BuyNothing, StartBuys, CloseSession, Decide, Pass, vars
<1>4. CASE Sell(u)
  <2> DEFINE n == SellLots(u)
  <2>1. n \in Nat /\ n > 0
    BY <1>4, SellFits DEF Sell, LedgerInv
  <2>2. shares' = [shares EXCEPT ![u] = @ - n]
    BY <1>4 DEF Sell
  <2> HIDE DEF n
  <2> QED
    BY <1>1, <2>1, <2>2
<1>5. CASE Buy(u)
  <2>1. shares' = [shares EXCEPT ![u] = @ + BuyLots(u)]
    BY <1>5 DEF Buy
  <2>2. u = t
    BY <1>1, <2>1
  <2> QED
    BY <1>5, <2>2
<1> QED
  BY <1>3, <1>4, <1>5

\* No purchase leaves its ticker over the weight it may have, the portfolio over
\* the gross limit or the cash under the reserve, after its own fee.
THEOREM PurchasesWithinLimits == Spec => PurchasesKeepLimits
<1>1. ASSUME LedgerInv, [Next]_vars
      PROVE  \A t \in Tickers : shares'[t] > shares[t] =>
               /\ WDen * Paid(shares'[t], quote[t].open) <= Effective(t) * equityCur'
               /\ WDen * Gross' <= GLim * equityCur'
               /\ WDen * cash' >= CLim * equityCur'
  <2> SUFFICES ASSUME NEW t \in Tickers, shares'[t] > shares[t]
               PROVE  /\ WDen * Paid(shares'[t], quote[t].open) <= Effective(t) * equityCur'
                      /\ WDen * Gross' <= GLim * equityCur'
                      /\ WDen * cash' >= CLim * equityCur'
    OBVIOUS
  <2>1. Buy(t)
    BY <1>1, OnlyBuysRaise
  <2> QED
    BY <1>1, <2>1, BuyMoves
<1> QED
  BY <1>1, LedgerInvariant, PTL DEF Spec, PurchasesKeepLimits
(***************************************************************************)
(* WindowReplay: what each tool has on file is the replay of a window, a    *)
(* sequence of memories, intents and portfolios that its start determines;  *)
(* two such sequences over the same days agree from the eve on.             *)
(***************************************************************************)

(***************************************************************************)
(* The grid                                                                 *)
(***************************************************************************)

\* How many members of S are not after d.
RankIn(S, d) == Cardinality({e \in S : e <= d})

LEMMA RankIsNat ==
  ASSUME NEW S \in SUBSET Nat, IsFiniteSet(S), NEW d \in Int
  PROVE  IsFiniteSet({e \in S : e <= d}) /\ RankIn(S, d) \in Nat /\ RankIn(S, d) <= Cardinality(S)
<1>1. {e \in S : e <= d} \subseteq S OBVIOUS
<1>2. QED BY <1>1, FS_Subset, FS_CardinalityType DEF RankIn

\* A later member has a higher rank.
LEMMA RankGrows ==
  ASSUME NEW S \in SUBSET Nat, IsFiniteSet(S), NEW d \in Int, NEW e \in S, d < e
  PROVE  RankIn(S, d) < RankIn(S, e)
<1> DEFINE A == {x \in S : x <= d}
           B == {x \in S : x <= e}
<1>0. \A x \in S : x \in Nat OBVIOUS
<1>a. (\A x \in S : x <= d => x <= e) /\ e <= e /\ ~ (e <= d) BY <1>0
<1>1. A \subseteq B /\ e \in B /\ e \notin A BY <1>a, Zenon
<1>2. IsFiniteSet(A) /\ IsFiniteSet(B) BY RankIsNat
<1>3. Cardinality(A) <= Cardinality(B) /\ (Cardinality(A) = Cardinality(B) => A = B)
  BY <1>1, <1>2, FS_Subset
<1>4. Cardinality(A) \in Nat /\ Cardinality(B) \in Nat BY <1>2, FS_CardinalityType
<1>5. QED BY <1>1, <1>3, <1>4 DEF RankIn

\* The member before another one has the rank below.
LEMMA RankBefore ==
  ASSUME NEW S \in SUBSET Nat, IsFiniteSet(S), NEW d \in S, NEW c \in Int, c < d,
         \A e \in S : e < d => e <= c
  PROVE  RankIn(S, d) = RankIn(S, c) + 1
<1> DEFINE A == {x \in S : x <= c}
           B == {x \in S : x <= d}
<1>1. \A e \in S : e <= d <=> (e <= c \/ e = d) OBVIOUS
<1>2. B = A \cup {d} BY <1>1
<1>3. d \notin A OBVIOUS
<1>4. IsFiniteSet(A) BY RankIsNat
<1>5. QED BY <1>2, <1>3, <1>4, FS_AddElement DEF RankIn

\* The greatest member at or below c, from the least distance to it.
LEMMA NearestBelow ==
  ASSUME NEW S \in SUBSET Nat, NEW c \in Nat, \E e \in S : e <= c
  PROVE  \E d \in S : d <= c /\ \A e \in S : e <= c => e <= d
<1> DEFINE T == {c - e : e \in {x \in S : x <= c}}
<1>1. T \in SUBSET Nat /\ T # {} OBVIOUS
<1>2. PICK x \in T : \A y \in T : x <= y BY <1>1, LeastExists
<1>3. PICK d \in S : d <= c /\ x = c - d BY <1>2
<1>4. ASSUME NEW e \in S, e <= c PROVE e <= d
  <2>1. c - e \in T BY <1>4
  <2>2. c - d <= c - e BY <2>1, <1>2, <1>3
  <2>3. QED BY <2>2
<1>5. QED BY <1>3, <1>4

\* Every rank is that of a member.
LEMMA NthIs ==
  ASSUME NEW S \in SUBSET Nat, IsFiniteSet(S), NEW m \in Nat, \A e \in S : e <= m,
         NEW i \in 1 .. Cardinality(S)
  PROVE  Nth(S, i) \in S /\ RankIn(S, Nth(S, i)) = i
<1> DEFINE T == {d \in S : RankIn(S, d) >= i}
<1>c. Cardinality(S) \in Nat /\ i \in Nat /\ i > 0 BY FS_CardinalityType
<1>s. \A e \in S : e \in Nat /\ e \in Int OBVIOUS
<1>1. T # {}
  <2>1. S # {} BY <1>c, FS_EmptySet
  <2>2. \A e \in S : e <= m OBVIOUS
  <2>3. {e \in S : e <= m} = S BY <2>2
  <2>4. PICK d \in S : d <= m /\ \A e \in S : e <= m => e <= d 
    <3>1. \E e \in S : e <= m BY <2>1, <2>2
    <3>2. QED BY <3>1, NearestBelow
  <2>5. {e \in S : e <= d} = S BY <2>2, <2>4
  <2>6. QED BY <2>5, <1>c DEF RankIn
<1>2. PICK d \in T : \A e \in T : d <= e BY <1>1, LeastExists
<1>3. RankIn(S, d) = i
  <2>1. RankIn(S, d) \in Nat /\ d \in Nat /\ d \in S BY RankIsNat, <1>2, <1>s
  <2>2. CASE \A e \in S : ~ (e < d)
    <3>1. \A e \in S : e < d => e <= -1 BY <2>2
    <3>2. -1 \in Int /\ -1 < d BY <2>1
    <3>3. RankIn(S, d) = RankIn(S, -1) + 1 BY <3>1, <3>2, <1>2, RankBefore
    <3>a. \A e \in S : ~ (e <= -1) BY <1>s
    <3>4. {e \in S : e <= -1} = {} BY <3>a, Zenon
    <3>5. RankIn(S, -1) = 0 BY <3>4, FS_EmptySet DEF RankIn
    <3>6. QED BY <3>3, <3>5, <1>2, <1>c
  <2>3. CASE \E e \in S : e < d
    <3>1. d - 1 \in Nat /\ \E e \in S : e <= d - 1 BY <2>3, <2>1
    <3>2. PICK c \in S : c <= d - 1 /\ \A e \in S : e <= d - 1 => e <= c BY <3>1, NearestBelow
    <3>3. c < d /\ \A e \in S : e < d => e <= c BY <3>2, <2>1
    <3>4. RankIn(S, d) = RankIn(S, c) + 1 BY <3>3, <1>2, RankBefore
    <3>5. RankIn(S, c) \in Nat BY <1>s, <3>2, RankIsNat
    <3>6. c \notin T BY <3>3, <1>2, <2>1
    <3>7. RankIn(S, c) < i BY <3>6, <3>5, <1>c
    <3>8. QED BY <3>4, <3>5, <3>7, <1>2, <1>c, <2>1
  <2>4. QED BY <2>2, <2>3
<1>4. QED BY <1>2, <1>3 DEF Nth, RankIn

\* A member is found at its rank.
LEMMA NthOfRank ==
  ASSUME NEW S \in SUBSET Nat, IsFiniteSet(S), NEW m \in Nat, \A e \in S : e <= m, NEW d \in S
  PROVE  Nth(S, RankIn(S, d)) = d /\ RankIn(S, d) \in 1 .. Cardinality(S)
<1>s. d \in Nat /\ d \in Int /\ -1 \in Int /\ -1 < d OBVIOUS
<1>1. RankIn(S, d) \in Nat /\ RankIn(S, d) <= Cardinality(S) BY <1>s, RankIsNat
<1>2. RankIn(S, -1) < RankIn(S, d) /\ RankIn(S, -1) \in Nat BY <1>s, RankGrows, RankIsNat
<1>3. Cardinality(S) \in Nat BY FS_CardinalityType
<1>4. RankIn(S, d) \in 1 .. Cardinality(S) BY <1>1, <1>2, <1>3
<1> DEFINE n == Nth(S, RankIn(S, d))
<1>5. n \in S /\ RankIn(S, n) = RankIn(S, d) BY <1>4, NthIs
<1> HIDE DEF n
<1>s2. n \in Int BY <1>5
<1>6. ~ (n < d)
  <2> SUFFICES ASSUME n < d PROVE FALSE OBVIOUS
  <2>1. RankIn(S, n) < RankIn(S, d) BY <1>s2, RankGrows
  <2>2. QED BY <2>1, <1>1, <1>5
<1>7. ~ (d < n)
  <2> SUFFICES ASSUME d < n PROVE FALSE OBVIOUS
  <2>1. RankIn(S, d) < RankIn(S, n) BY <1>s, <1>5, RankGrows
  <2>2. QED BY <2>1, <1>1, <1>5
<1>8. n = d BY <1>6, <1>7, <1>s, <1>s2
<1>9. QED BY <1>4, <1>8 DEF n

(***************************************************************************)
(* Types                                                                    *)
(***************************************************************************)

Wishes == [mem : Memories, intent : Intents]

\* A world as its assumption describes it.
LEMMA WorldIs ==
  ASSUME NEW w \in Worlds
  PROVE  /\ w.rows \subseteq Sessions
         /\ w.tradable \in [Sessions -> SUBSET Products] /\ w.eligible \in [Sessions -> SUBSET Products]
         /\ w.best \in [Aids -> [Sessions -> Products]]
         /\ w.kind # "policy" => \A x, y \in Aids : w.best[x] = w.best[y]
         /\ w.kind = "convex" => w.shown \in [Sessions -> [Products -> Rows]]
         /\ [w EXCEPT !.falls = {}].falls = {}
BY WorldAssumption

LEMMA RememberedIs ==
  ASSUME NEW w, NEW m \in Memories, NEW h \in Portfolios, NEW d
  PROVE  Remembered(w, m, h, d) \in Memories
<1> DEFINE stopped == m.stopped \/ (h.ticker # None /\ d \in w.falls)
<1>1. stopped \in BOOLEAN /\ m.age \in Nat /\ Lock \in Nat
  BY ReplayAssumption DEF Memories
<1>2. h.ticker \in Products \cup {None} BY DEF Portfolios
<1>3. [Fresh EXCEPT !.stopped = stopped] = [leader |-> None, age |-> 0, stopped |-> stopped]
  BY DEF Fresh
<1>4. Remembered(w, m, h, d) =
        IF h.ticker = None THEN [Fresh EXCEPT !.stopped = stopped]
        ELSE [leader |-> h.ticker, stopped |-> stopped,
              age |-> IF m.leader # h.ticker THEN 1 ELSE IF m.age < Lock THEN m.age + 1 ELSE Lock]
  BY DEF Remembered
<1> HIDE DEF stopped
<1>5. QED BY <1>1, <1>2, <1>3, <1>4 DEF Memories

\* Those members of S that beat x.
Beating(S, R, x) == {y \in S : <<x, y>> \notin R}

\* A total preorder of a finite set has a greatest member: one that the fewest beat.
LEMMA TopExists ==
  ASSUME NEW S, IsFiniteSet(S), S # {}, NEW R,
         \A x, y \in S : <<x, y>> \in R \/ <<y, x>> \in R,
         \A x, y, z \in S : <<x, y>> \in R /\ <<y, z>> \in R => <<x, z>> \in R
  PROVE  \E x \in S : \A y \in S : <<x, y>> \in R
<1> DEFINE sizes == {Cardinality(Beating(S, R, x)) : x \in S}
<1>0. \A x \in S : Beating(S, R, x) \subseteq S BY DEF Beating
<1>1. \A x \in S : IsFiniteSet(Beating(S, R, x)) /\ Cardinality(Beating(S, R, x)) \in Nat
  BY <1>0, FS_Subset, FS_CardinalityType
<1>2. sizes \in SUBSET Nat /\ sizes # {} BY <1>1
<1>3. PICK n \in sizes : \A k \in sizes : n <= k
  <2> HIDE DEF sizes
  <2>1. QED BY <1>2, LeastExists
<1>4. PICK x \in S : n = Cardinality(Beating(S, R, x)) BY <1>3
<1>5. ASSUME NEW y \in Beating(S, R, x) PROVE FALSE
  <2>1. y \in S /\ Beating(S, R, y) \subseteq Beating(S, R, x) /\ y \notin Beating(S, R, y)
    BY DEF Beating
  <2>2. IsFiniteSet(Beating(S, R, x) \ {y}) /\ Cardinality(Beating(S, R, x) \ {y}) = n - 1
    BY <1>1, <1>4, FS_RemoveElement
  <2>3. Beating(S, R, y) \subseteq Beating(S, R, x) \ {y} BY <2>1
  <2>4. Cardinality(Beating(S, R, y)) <= n - 1
    BY <2>2, <2>3, FS_Subset
  <2>5. Cardinality(Beating(S, R, y)) \in sizes BY <2>1
  <2>6. n \in Nat /\ Cardinality(Beating(S, R, y)) \in Nat BY <1>1, <1>4, <2>1
  <2>7. QED BY <1>3, <2>4, <2>5, <2>6
<1>6. QED BY <1>5 DEF Beating

\* Some product of a finite set has the greatest strength.
LEMMA StrongestIs ==
  ASSUME NEW S \in SUBSET Products, S # {}, NEW rows, \A t \in S : Strength(rows[t]) \in Int
  PROVE  Strongest(rows, S) \in S
<1> SUFFICES \E t \in S : \A u \in S : Strength(rows[t]) >= Strength(rows[u])
  BY DEF Strongest
<1> DEFINE R == {p \in S \X S : Strength(rows[p[1]]) >= Strength(rows[p[2]])}
<1>1. \A x, y \in S : <<x, y>> \in R <=> Strength(rows[x]) >= Strength(rows[y]) OBVIOUS
<1> HIDE DEF R
<1>2. \A x, y \in S : <<x, y>> \in R \/ <<y, x>> \in R
  <2>1. \A x, y \in S : Strength(rows[x]) >= Strength(rows[y]) \/ Strength(rows[y]) >= Strength(rows[x])
    OBVIOUS
  <2>2. QED BY <1>1, <2>1
<1>3. \A x, y, z \in S : <<x, y>> \in R /\ <<y, z>> \in R => <<x, z>> \in R BY <1>1
<1>4. IsFiniteSet(S) BY ReplayAssumption, FS_Subset
<1>5. PICK t \in S : \A u \in S : <<t, u>> \in R BY <1>2, <1>3, <1>4, TopExists
<1>6. QED BY <1>1, <1>5

\* The convex strategy wants a product it was shown, or cash.
LEMMA ConvexScoreIs ==
  ASSUME NEW S \in SUBSET Products, NEW rows \in [S -> Rows], NEW age \in Nat, NEW held0
  PROVE  ConvexScore(rows, age, held0).wants \in Products \cup {None}
<1> DEFINE gated == {t \in Affordable(rows) : Setup(rows[t]) # "none"}
           surging == InSetup(rows, gated, "impulse")
           best == Strongest(rows, IF surging # {} THEN surging ELSE gated)
<1>1. gated \subseteq S /\ surging \subseteq gated BY DEF Affordable, Doubles, InSetup
<1>2. \A t \in S : Strength(rows[t]) \in Int BY DEF Strength, Rows
<1>3. ASSUME gated # {} PROVE best \in gated
  <2>1. CASE surging # {}
    <3>1. surging \in SUBSET Products /\ \A t \in surging : Strength(rows[t]) \in Int
      BY <1>1, <1>2
    <3>2. Strongest(rows, surging) \in surging BY <2>1, <3>1, StrongestIs
    <3>3. QED BY <1>1, <2>1, <3>2
  <2>2. CASE surging = {}
    <3>1. gated \in SUBSET Products /\ \A t \in gated : Strength(rows[t]) \in Int
      BY <1>1, <1>2
    <3>2. Strongest(rows, gated) \in gated BY <1>3, <3>1, StrongestIs
    <3>3. QED BY <2>2, <3>2
  <2>3. QED BY <2>1, <2>2
<1>4. ASSUME gated # {} PROVE PickTicker(rows, gated, held0, age) \in gated
  <2>1. PickTicker(rows, gated, held0, age) \in {held0, best} /\
        (PickTicker(rows, gated, held0, age) = held0 => held0 \in gated \/ held0 = best)
    BY DEF PickTicker
  <2>2. QED BY <1>3, <1>4, <2>1
<1>5. QED BY <1>1, <1>4 DEF ConvexScore

\* What a model wants, of any world and any day of it.
LEMMA WantedIs ==
  ASSUME NEW w \in Worlds, NEW who \in Tools, NEW m \in Memories, NEW h \in Portfolios,
         NEW d \in Sessions, NEW aid \in Aids
  PROVE  Wanted(w, who, m, h, d, aid) \in Wishes
<1> DEFINE shown == ScoredOn(w, who, d)
           m1 == Remembered(w, m, h, d)
<1>s. Stay \in Intents /\ Cash \in Intents
      /\ \A t \in Products : Enter(t) \in Intents
  BY DEF Stay, Cash, Enter, Intents
<1>1. shown \subseteq Products /\ w.best[aid][d] \in Products
  BY WorldIs DEF ScoredOn, EngineScored, CacheScored
<1>2. m1 \in Memories BY RememberedIs
<1>3. shown # {} => Preferred(w, m1, h, shown, d, aid) \in Products
  BY <1>1 DEF Preferred
<1>4. StickyWants(w, who, m, h, d, aid) \in Wishes
  <2> DEFINE fails == d \in w.failing \/ (shown = {} /\ w.kind = "policy")
             wish == IF m1.stopped \/ shown = {} THEN Cash ELSE Enter(Preferred(w, m1, h, shown, d, aid))
  <2>1. wish \in Intents BY <1>3, <1>s
  <2>2. StickyWants(w, who, m, h, d, aid) =
          IF fails THEN [mem |-> m, intent |-> Stay] ELSE [mem |-> m1, intent |-> wish]
    BY Zenon DEF StickyWants
  <2> HIDE DEF fails, wish, m1
  <2>3. \A x \in Memories, y \in Intents : [mem |-> x, intent |-> y] \in Wishes BY DEF Wishes
  <2>4. QED BY <2>1, <2>2, <2>3, <1>2, <1>s, Zenon
<1>5. ASSUME w.kind = "convex" PROVE ConvexWants(w, who, m, h, d) \in Wishes
  <2> DEFINE m2 == Remembered([w EXCEPT !.falls = {}], m, h, d)
             rows == [t \in ScoredOn(w, who, d) |-> w.shown[d][t]]
             score == ConvexScore(rows, m2.age, h.ticker)
  <2>1. m2 \in Memories BY RememberedIs
  <2>2. rows \in [ScoredOn(w, who, d) -> Rows] BY <1>1, <1>5, WorldIs
  <2>3. m2.age \in Nat BY <2>1 DEF Memories
  <2>4. score.wants \in Products \cup {None}
    <3> HIDE DEF rows, m2
    <3>1. QED BY <1>1, <2>2, <2>3, ConvexScoreIs
  <2>5. score.wants # None => Enter(score.wants) \in Intents
    <3> HIDE DEF score
    <3>1. QED BY <2>4, <1>s
  <2>6. ConvexWants(w, who, m, h, d) =
          IF d \in w.failing THEN [mem |-> m, intent |-> Stay]
          ELSE [mem |-> IF score.seen THEN m2 ELSE m,
                intent |-> IF score.wants = None THEN Cash ELSE Enter(score.wants)]
    BY DEF ConvexWants
  <2> HIDE DEF score, m2, rows
  <2>7. CASE d \in w.failing BY <2>6, <2>7, <1>s DEF Wishes
  <2>8. CASE d \notin w.failing
    <3>1. (IF score.seen THEN m2 ELSE m) \in Memories BY <2>1
    <3>2. (IF score.wants = None THEN Cash ELSE Enter(score.wants)) \in Intents
      BY <2>5, <1>s
    <3>3. \A a \in Memories, b \in Intents : [mem |-> a, intent |-> b] \in Wishes BY DEF Wishes
    <3>4. QED BY <2>6, <2>8, <3>1, <3>2, <3>3, Zenon
  <2>9. QED BY <2>7, <2>8
<1>6. QED BY <1>4, <1>5 DEF Wanted

LEMMA TradedIs ==
  ASSUME NEW w \in Worlds, NEW h \in Portfolios, NEW p \in Intents, NEW d
  PROVE  Traded(w, h, p, d) \in Portfolios
BY DEF Traded, Nothing, Portfolios, Intents

(***************************************************************************)
(* The windows                                                              *)
(***************************************************************************)

\* The grid of a world, what a cached replay of a window starts from, and what an
\* engine run does.
GridIn(w) == GridOf(w, FirstSession, LastSession)

CacheBegins(w, index) ==
  LET eve == IF index > 1 /\ index <= Cardinality(GridIn(w)) + 1 THEN Nth(GridIn(w), index - 1) ELSE 0
  IN  IF eve = 0 THEN [mem |-> Fresh, intent |-> Stay] ELSE CacheEve(w, Fresh, eve)

EngineBegins(w, start) ==
  LET eve == PreviousEve(w, start)
  IN  IF eve = 0 THEN [mem |-> Fresh, intent |-> Stay] ELSE EngineEve(w, Fresh, eve)

Begins(w, who, win) == IF who = "slow" THEN EngineBegins(w, win.start) ELSE CacheBegins(w, win.index)

\* The windows of a tool: of every start in the grid, or of a start asked for
\* whose horizon the calendar has.
IsWindow(w, who, win) ==
  /\ win.index \in Nat \ {0} /\ win.start \in Nat
  /\ who # "oneshot" => win.index <= Cardinality(GridIn(w)) /\ win.start = Nth(GridIn(w), win.index)
  /\ who = "oneshot" => win.start \in FirstSession .. LastSession /\ win.index = win.start - FirstSession + 1

WindowSet == [start : Nat, index : Nat]

LEMMA GridIs ==
  ASSUME NEW w
  PROVE  /\ GridIn(w) \in SUBSET Nat /\ IsFiniteSet(GridIn(w)) /\ Cardinality(GridIn(w)) \in Nat
         /\ LastSession \in Nat /\ \A d \in GridIn(w) : d \in Sessions /\ d <= LastSession
         /\ GridIn(w) \subseteq FirstSession .. LastSession
<1>1. FirstSession \in Nat /\ FirstSession > 0 /\ LastSession \in Nat BY ReplayAssumption
<1>2. GridIn(w) \subseteq FirstSession .. LastSession BY DEF GridIn, GridOf
<1>3. IsFiniteSet(FirstSession .. LastSession) BY <1>1, FS_Interval
<1>4. IsFiniteSet(GridIn(w)) BY <1>2, <1>3, FS_Subset
<1>5. \A d \in GridIn(w) : d \in Sessions /\ d <= LastSession /\ d \in Nat BY <1>1, <1>2 DEF Sessions
<1>6. QED BY <1>1, <1>2, <1>4, <1>5, FS_CardinalityType

LEMMA SliceIs ==
  ASSUME NEW w, NEW index \in Nat \ {0}
  PROVE  Slice(GridIn(w), index, Horizon) \in Seq(Sessions)
<1> DEFINE size == Cardinality(GridIn(w))
           to == IF index + Horizon - 1 < size THEN index + Horizon - 1 ELSE size
           n == IF to < index THEN 0 ELSE to - index + 1
<1>1. size \in Nat BY GridIs
<1>2. Horizon \in Nat /\ Horizon > 0 BY ReplayAssumption
<1>3. n \in Nat /\ \A i \in 1 .. n : index + i - 1 \in 1 .. size
  <2> HIDE DEF size
  <2>1. QED BY <1>1, <1>2
<1>4. ASSUME NEW i \in 1 .. n PROVE Nth(GridIn(w), index + i - 1) \in Sessions
  <2>1. index + i - 1 \in 1 .. Cardinality(GridIn(w)) BY <1>3
  <2> DEFINE k == index + i - 1
  <2>2. Nth(GridIn(w), k) \in GridIn(w)
    <3> HIDE DEF k
    <3>1. k \in 1 .. Cardinality(GridIn(w)) BY <2>1 DEF k
    <3>2. QED BY <3>1, GridIs, NthIs
  <2>3. QED BY <2>2, GridIs
<1>5. Slice(GridIn(w), index, Horizon) = [i \in 1 .. n |-> Nth(GridIn(w), index + i - 1)]
  BY DEF Slice
<1> HIDE DEF n
<1>6. QED BY <1>3, <1>4, <1>5

\* The window whose turn it is, and what it starts from.
LEMMA WindowIs ==
  ASSUME world \in Worlds, tool \in Tools, next \in Nat, next < WindowCount
  PROVE  /\ WindowAt(next + 1) \in WindowSet
         /\ WindowAt(next + 1).index # 0 => IsWindow(world, tool, WindowAt(next + 1))
<1>1. Grid = GridIn(world) BY DEF Grid, GridIn
<1>2. CASE tool = "oneshot"
  <2>1. next + 1 \in 1 .. Len(Asked) /\ Asked[next + 1] \in Nat
    BY <1>2, ReplayAssumption DEF WindowCount
  <2>2. WindowAt(next + 1) = OneshotWindow(next + 1) BY <1>2 DEF WindowAt
  <2> DEFINE st == Asked[next + 1]
             ix == st - FirstSession + 1
             fits == st \in FirstSession .. LastSession
                     /\ ix - 1 + Horizon <= LastSession - FirstSession + 1
  <2>3. WindowAt(next + 1) = [start |-> st, index |-> IF fits THEN ix ELSE 0]
    BY <2>2 DEF OneshotWindow
  <2>4. fits => st \in FirstSession .. LastSession /\ ix = st - FirstSession + 1 /\ ix \in Nat \ {0}
    BY <2>1, ReplayAssumption
  <2>7. st \in Nat BY <2>1
  <2> HIDE DEF st, ix, fits
  <2>5. st \in Nat BY <2>7
  <2>6. QED BY <1>2, <2>3, <2>4, <2>5 DEF WindowSet, IsWindow
<1>3. CASE tool # "oneshot"
  <2>1. next + 1 \in 1 .. Cardinality(GridIn(world))
    BY <1>1, <1>3, GridIs, ReplayAssumption DEF WindowCount, RollingStarts
  <2> DEFINE i == next + 1
  <2>2. WindowAt(i) = [start |-> Nth(GridIn(world), i), index |-> i]
    BY <1>1, <1>3 DEF WindowAt, RollingWindow
  <2> HIDE DEF i
  <2>3. i \in 1 .. Cardinality(GridIn(world)) BY <2>1 DEF i
  <2>4. Nth(GridIn(world), i) \in GridIn(world) BY <2>3, GridIs, NthIs
  <2>5. Nth(GridIn(world), i) \in Nat /\ i \in Nat \ {0} /\ i <= Cardinality(GridIn(world))
    BY <2>3, <2>4, GridIs
  <2>6. WindowAt(i) \in WindowSet /\ IsWindow(world, tool, WindowAt(i))
    BY <1>3, <2>2, <2>5 DEF WindowSet, IsWindow
  <2>7. QED BY <2>6 DEF i
<1>4. QED BY <1>2, <1>3

LEMMA BeginsIs ==
  ASSUME NEW w \in Worlds, NEW who \in Tools, NEW win \in WindowSet, IsWindow(w, who, win)
  PROVE  Begins(w, who, win) \in Wishes
<1>s. [mem |-> Fresh, intent |-> Stay] \in Wishes /\ Fresh \in Memories /\ Nothing \in Portfolios
  BY DEF Wishes, Fresh, Stay, Memories, Intents, Nothing, Portfolios
<1>1. win.index \in Nat /\ win.start \in Nat BY DEF WindowSet
<1>t. "fast" \in Tools /\ "slow" \in Tools /\ "none" \in Aids /\ "engine" \in Aids
  BY DEF Tools, Aids
<1>2. CacheBegins(w, win.index) \in Wishes
  <2> DEFINE eve == IF win.index > 1 /\ win.index <= Cardinality(GridIn(w)) + 1
                      THEN Nth(GridIn(w), win.index - 1) ELSE 0
  <2>1. eve \in Sessions \/ eve = 0
    <3> SUFFICES ASSUME win.index > 1 /\ win.index <= Cardinality(GridIn(w)) + 1
                 PROVE  Nth(GridIn(w), win.index - 1) \in Sessions
      OBVIOUS
    <3>1. win.index - 1 \in 1 .. Cardinality(GridIn(w)) BY <1>1, GridIs
    <3> DEFINE i == win.index - 1
    <3> HIDE DEF i
    <3>2. i \in 1 .. Cardinality(GridIn(w)) BY <3>1 DEF i
    <3>3. Nth(GridIn(w), i) \in GridIn(w) BY <3>2, GridIs, NthIs
    <3>4. QED BY <3>3, GridIs DEF i
  <2>2. CacheBegins(w, win.index) =
          IF eve = 0 THEN [mem |-> Fresh, intent |-> Stay] ELSE CacheEve(w, Fresh, eve)
    BY DEF CacheBegins
  <2> HIDE DEF eve
  <2>3. eve \in Sessions => CacheEve(w, Fresh, eve) \in Wishes
    BY <1>s, <1>t, WantedIs DEF CacheEve
  <2>4. QED BY <1>s, <2>1, <2>2, <2>3
<1>3. EngineBegins(w, win.start) \in Wishes
  <2>1. PreviousEve(w, win.start) \in Sessions \/ PreviousEve(w, win.start) = 0
    BY WorldIs DEF PreviousEve
  <2>2. \A d \in Sessions : EngineEve(w, Fresh, d) \in Wishes
    BY <1>s, <1>t, WantedIs DEF EngineEve
  <2>3. QED BY <1>s, <2>1, <2>2 DEF EngineBegins
<1>4. QED BY <1>2, <1>3 DEF Begins

(***************************************************************************)
(* The run of a window                                                      *)
(***************************************************************************)

Days(w, win) == Slice(GridIn(w), win.index, Horizon)
HeldAt(tr, i) == IF i = 0 THEN Nothing ELSE tr[i]

\* tr is what a tool holds after the opens of a window, so far; ms and ps are the
\* memories and the intents behind it.
Ran(w, who, win, tr, ms, ps) ==
  /\ ms \in [0 .. Len(tr) -> Memories] /\ ps \in [0 .. Len(tr) -> Intents]
  /\ ms[0] = Begins(w, who, win).mem /\ ps[0] = Begins(w, who, win).intent
  /\ \A i \in 1 .. Len(tr) :
       /\ tr[i] = Traded(w, HeldAt(tr, i - 1), ps[i - 1], Days(w, win)[i])
       /\ LET wish == Wanted(w, who, ms[i - 1], tr[i], Days(w, win)[i], AidOf(who))
          IN  ms[i] = wish.mem /\ ps[i] = wish.intent

IsReplay(w, who, win, tr) ==
  /\ IsWindow(w, who, win) /\ Len(tr) = Len(Days(w, win))
  /\ \E ms, ps : Ran(w, who, win, tr, ms, ps)

\* The window in progress: what is left of it, and how it came to what it holds.
WindowInv ==
  pc = "session" =>
    LET win == WindowAt(next + 1) IN
    /\ next < WindowCount /\ win.index # 0
    /\ Len(trace) + Len(window) = Len(Days(world, win))
    /\ \A i \in 1 .. Len(window) : window[i] = Days(world, win)[Len(trace) + i]
    /\ held = HeldAt(trace, Len(trace))
    /\ \E ms, ps : /\ Ran(world, tool, win, trace, ms, ps)
                   /\ mem = ms[Len(trace)] /\ pending = ps[Len(trace)]

\* What is on file are the replays of windows.
FiledInv ==
  \A who \in Tools : \A i \in 1 .. Len(results[who]) :
    \E win \in WindowSet : /\ results[who][i].start = win.start
                           /\ IsReplay(world, who, win, results[who][i].trace)

ReplayInv == ReplayTypeOK /\ WindowInv /\ FiledInv

LEMMA ReplayInitially == ReplayInit => ReplayInv
<1> SUFFICES ASSUME ReplayInit PROVE ReplayInv OBVIOUS
<1>1. ReplayTypeOK
  BY DEF ReplayInit, ReplayTypeOK, Tools, Memories, Fresh, Portfolios, Nothing, Intents, Stay
<1>2. WindowInv BY DEF ReplayInit, WindowInv
<1>3. FiledInv BY DEF ReplayInit, FiledInv
<1>4. QED BY <1>1, <1>2, <1>3 DEF ReplayInv

\* The start of a tool in terms of the world alone.
LEMMA BegunIs ==
  ASSUME NEW win
  PROVE  (IF tool = "slow" THEN EngineStart(win.start) ELSE CacheStart(win.index))
           = Begins(world, tool, win)
BY Zenon DEF Begins, EngineStart, CacheStart, EngineBegins, CacheBegins, Reset, Grid, GridIn

LEMMA BeginKeeps ==
  ASSUME ReplayInv, Begin
  PROVE  ReplayInv'
<1> DEFINE win == WindowAt(next + 1)
           begun == IF tool = "slow" THEN EngineStart(win.start) ELSE CacheStart(win.index)
<1>t. ReplayTypeOK /\ FiledInv BY DEF ReplayInv
<1>1. /\ pc = "window" /\ next < WindowCount /\ UNCHANGED <<world, tool, results>>
      /\ next \in Nat /\ world \in Worlds /\ tool \in Tools
  BY <1>t, Zenon DEF Begin, ReplayTypeOK
<1>2. begun = Begins(world, tool, win)
  <2> HIDE DEF win
  <2>1. QED BY BegunIs
<1>3. win \in WindowSet /\ (win.index # 0 => IsWindow(world, tool, win)) BY <1>1, WindowIs
<1>4. FiledInv' BY <1>t, <1>1 DEF FiledInv
<1>5. CASE win.index = 0
  <2>1. next' = next + 1 /\ UNCHANGED <<window, mem, held, pending, trace, pc>>
    BY <1>5, Zenon DEF Begin
  <2>2. ReplayTypeOK' BY <1>t, <1>1, <2>1 DEF ReplayTypeOK
  <2>3. WindowInv' BY <1>1, <2>1 DEF WindowInv
  <2>4. QED BY <1>4, <2>2, <2>3 DEF ReplayInv
<1>6. CASE win.index # 0
  <2>1. /\ window' = Slice(Grid, win.index, Horizon) /\ mem' = begun.mem /\ pending' = begun.intent
        /\ held' = Nothing /\ trace' = <<>> /\ pc' = "session" /\ UNCHANGED next
    BY <1>6, Zenon DEF Begin
  <2> HIDE DEF win, begun
  <2>2. begun \in Wishes BY <1>1, <1>2, <1>3, <1>6, BeginsIs
  <2>3. window' = Days(world, win) BY <2>1 DEF Days, Grid, GridIn
  <2>4. Days(world, win) \in Seq(Sessions)
    BY <1>3, <1>6, SliceIs DEF Days, WindowSet
  <2>5. ReplayTypeOK'
    BY <1>t, <1>1, <2>1, <2>2, <2>3, <2>4 DEF ReplayTypeOK, Wishes, Portfolios, Nothing
  <2>6. WindowAt(next + 1)' = win BY <1>1, <2>1 DEF win, WindowAt, OneshotWindow, RollingWindow, Grid, GridOf
  <2>7. WindowCount' = WindowCount BY <1>1 DEF WindowCount, RollingStarts, Grid, GridOf
  <2> DEFINE ms == [i \in 0 .. 0 |-> begun.mem]
             ps == [i \in 0 .. 0 |-> begun.intent]
  <2>8. ms \in [0 .. 0 -> Memories] /\ ps \in [0 .. 0 -> Intents]
        /\ ms[0] = begun.mem /\ ps[0] = begun.intent
    BY <2>2 DEF Wishes
  <2>9. Len(trace') = 0 /\ 1 .. 0 = {} BY <2>1
  <2> HIDE DEF ms, ps
  <2>10. Ran(world, tool, win, trace', ms, ps) BY <1>2, <2>8, <2>9 DEF Ran
  <2>11. /\ Len(trace') + Len(window') = Len(Days(world, win))
         /\ \A i \in 1 .. Len(window') : window'[i] = Days(world, win)[Len(trace') + i]
         /\ held' = HeldAt(trace', Len(trace'))
    BY <2>1, <2>3, <2>4, <2>9 DEF HeldAt
  <2>12. mem' = ms[Len(trace')] /\ pending' = ps[Len(trace')] BY <2>1, <2>8, <2>9
  <2>13. WindowInv'
    BY <1>1, <1>6, <2>1, <2>6, <2>7, <2>10, <2>11, <2>12 DEF WindowInv
  <2>14. QED BY <1>4, <2>5, <2>13 DEF ReplayInv
<1>7. QED BY <1>5, <1>6

\* One session more.
LEMMA RanOn ==
  ASSUME NEW w \in Worlds, NEW who \in Tools, NEW win \in WindowSet, NEW tr \in Seq(Portfolios),
         NEW ms, NEW ps, Ran(w, who, win, tr, ms, ps),
         NEW now \in Portfolios, NEW decided \in Wishes,
         now = Traded(w, HeldAt(tr, Len(tr)), ps[Len(tr)], Days(w, win)[Len(tr) + 1]),
         decided = Wanted(w, who, ms[Len(tr)], now, Days(w, win)[Len(tr) + 1], AidOf(who))
  PROVE  \E ms2, ps2 : /\ Ran(w, who, win, Append(tr, now), ms2, ps2)
                       /\ ms2[Len(tr) + 1] = decided.mem /\ ps2[Len(tr) + 1] = decided.intent
<1> DEFINE n == Len(tr)
           tr2 == Append(tr, now)
           ms2 == [i \in 0 .. n + 1 |-> IF i = n + 1 THEN decided.mem ELSE ms[i]]
           ps2 == [i \in 0 .. n + 1 |-> IF i = n + 1 THEN decided.intent ELSE ps[i]]
<1>1. n \in Nat /\ tr2 \in Seq(Portfolios) /\ Len(tr2) = n + 1 /\ tr2[n + 1] = now
      /\ \A i \in 1 .. n : tr2[i] = tr[i]
  OBVIOUS
<1>2. ms \in [0 .. n -> Memories] /\ ps \in [0 .. n -> Intents] BY DEF Ran
<1>3. decided.mem \in Memories /\ decided.intent \in Intents
  BY DEF Wishes
<1> HIDE DEF n, tr2
<1>4. ms2 \in [0 .. n + 1 -> Memories] /\ ps2 \in [0 .. n + 1 -> Intents] BY <1>1, <1>2, <1>3
<1>5. ms2[n + 1] = decided.mem /\ ps2[n + 1] = decided.intent
      /\ \A i \in 0 .. n : ms2[i] = ms[i] /\ ps2[i] = ps[i]
  BY <1>1
<1> HIDE DEF ms2, ps2
<1>6. 0 \in 0 .. n BY <1>1
<1>7. ms2[0] = Begins(w, who, win).mem /\ ps2[0] = Begins(w, who, win).intent BY <1>5, <1>6 DEF Ran
<1>8. ASSUME NEW i \in 1 .. n + 1
      PROVE  /\ tr2[i] = Traded(w, HeldAt(tr2, i - 1), ps2[i - 1], Days(w, win)[i])
             /\ ms2[i] = Wanted(w, who, ms2[i - 1], tr2[i], Days(w, win)[i], AidOf(who)).mem
             /\ ps2[i] = Wanted(w, who, ms2[i - 1], tr2[i], Days(w, win)[i], AidOf(who)).intent
  <2>1. i - 1 \in 0 .. n /\ HeldAt(tr2, i - 1) = HeldAt(tr, i - 1)
    BY <1>1 DEF HeldAt
  <2>2. CASE i \in 1 .. n
    <3>1. /\ tr[i] = Traded(w, HeldAt(tr, i - 1), ps[i - 1], Days(w, win)[i])
          /\ ms[i] = Wanted(w, who, ms[i - 1], tr[i], Days(w, win)[i], AidOf(who)).mem
          /\ ps[i] = Wanted(w, who, ms[i - 1], tr[i], Days(w, win)[i], AidOf(who)).intent
      BY <2>2 DEF Ran, n
    <3>2. i \in 0 .. n BY <2>2
    <3>3. QED BY <1>1, <1>5, <2>1, <2>2, <3>1, <3>2
  <2>3. CASE i = n + 1
    <3>1. i - 1 = n BY <1>1, <2>3
    <3>2. QED BY <1>1, <1>3, <1>5, <2>1, <2>3, <3>1 DEF n
  <2>4. QED BY <1>1, <2>2, <2>3
<1>9. Ran(w, who, win, tr2, ms2, ps2) BY <1>1, <1>4, <1>7, <1>8 DEF Ran
<1>10. QED BY <1>5, <1>9 DEF n, tr2

LEMMA SessionKeeps ==
  ASSUME ReplayInv, Session
  PROVE  ReplayInv'
<1> DEFINE win == WindowAt(next + 1)
           d == Head(window)
           now == Traded(world, held, pending, d)
           decided == Wanted(world, tool, mem, now, d, AidOf(tool))
<1>t. ReplayTypeOK /\ FiledInv /\ WindowInv BY DEF ReplayInv
<1>1. /\ pc = "session" /\ window # <<>> /\ UNCHANGED <<world, tool, next, results, pc>>
      /\ held' = now /\ trace' = Append(trace, now)
      /\ mem' = decided.mem /\ pending' = decided.intent /\ window' = Tail(window)
      /\ next \in Nat /\ world \in Worlds /\ tool \in Tools /\ window \in Seq(Sessions)
      /\ trace \in Seq(Portfolios) /\ held \in Portfolios /\ pending \in Intents /\ mem \in Memories
  BY <1>t, Zenon DEF Session, ReplayTypeOK
<1>2. next < WindowCount /\ win.index # 0 /\ held = HeldAt(trace, Len(trace))
      /\ Len(trace) + Len(window) = Len(Days(world, win))
      /\ \A i \in 1 .. Len(window) : window[i] = Days(world, win)[Len(trace) + i]
  BY <1>t, <1>1, Zenon DEF WindowInv
<1>3. PICK ms, ps : /\ Ran(world, tool, win, trace, ms, ps)
                    /\ mem = ms[Len(trace)] /\ pending = ps[Len(trace)]
  BY <1>t, <1>1, Zenon DEF WindowInv
<1>4. win \in WindowSet BY <1>1, <1>2, WindowIs
<1>w. WindowAt(next + 1)' = win /\ WindowCount' = WindowCount
  BY <1>1 DEF WindowAt, OneshotWindow, RollingWindow, WindowCount, RollingStarts, Grid, GridOf
<1> HIDE DEF win
<1>5. d \in Sessions /\ d = Days(world, win)[Len(trace) + 1] /\ Len(window) \in Nat /\ Len(window) > 0
      /\ Len(trace) \in Nat /\ Tail(window) \in Seq(Sessions) /\ Len(Tail(window)) = Len(window) - 1
      /\ \A i \in 1 .. Len(window) - 1 : Tail(window)[i] = window[i + 1]
  <2>1. Len(window) \in Nat /\ Len(window) > 0 /\ d = window[1] /\ d \in Sessions BY <1>1
  <2>2. 1 \in 1 .. Len(window) BY <2>1
  <2>3. QED BY <1>1, <1>2, <2>1, <2>2
<1> HIDE DEF d
<1>6. now \in Portfolios BY <1>1, TradedIs
<1> HIDE DEF now
<1>7. decided \in Wishes
  <2>1. AidOf(tool) \in Aids BY DEF AidOf, Aids
  <2>2. QED BY <1>1, <1>5, <1>6, <2>1, WantedIs
<1>8. PICK ms2, ps2 : /\ Ran(world, tool, win, Append(trace, now), ms2, ps2)
                      /\ ms2[Len(trace) + 1] = decided.mem /\ ps2[Len(trace) + 1] = decided.intent
  <2>1. now = Traded(world, HeldAt(trace, Len(trace)), ps[Len(trace)], Days(world, win)[Len(trace) + 1])
    BY <1>2, <1>3, <1>5 DEF now
  <2>2. decided = Wanted(world, tool, ms[Len(trace)], now, Days(world, win)[Len(trace) + 1],
                         AidOf(tool))
    BY <1>3, <1>5
  <2> HIDE DEF decided
  <2>3. QED BY <1>1, <1>3, <1>4, <1>6, <1>7, <2>1, <2>2, RanOn
<1> HIDE DEF decided
<1>9. Len(trace') = Len(trace) + 1 /\ trace' \in Seq(Portfolios) /\ trace'[Len(trace) + 1] = now
  BY <1>1, <1>6
<1>10. ReplayTypeOK'
  BY <1>t, <1>1, <1>5, <1>6, <1>7, <1>9 DEF ReplayTypeOK, Wishes
<1>11. FiledInv' BY <1>t, <1>1 DEF FiledInv
<1>12. held' = HeldAt(trace', Len(trace')) BY <1>1, <1>5, <1>9 DEF HeldAt
<1>13. Len(trace') + Len(window') = Len(Days(world, win))
  BY <1>1, <1>2, <1>5, <1>9
<1>14. \A i \in 1 .. Len(window') : window'[i] = Days(world, win)[Len(trace') + i]
  <2> SUFFICES ASSUME NEW i \in 1 .. Len(window) - 1
               PROVE  Tail(window)[i] = Days(world, win)[Len(trace) + 1 + i]
    BY <1>1, <1>5, <1>9
  <2>1. i + 1 \in 1 .. Len(window) /\ Len(trace) + (i + 1) = Len(trace) + 1 + i BY <1>5
  <2>2. QED BY <1>2, <1>5, <2>1
<1>15. mem' = ms2[Len(trace')] /\ pending' = ps2[Len(trace')] /\ Ran(world, tool, win, trace', ms2, ps2)
  BY <1>1, <1>8, <1>9
<1>16. WindowInv' BY <1>1, <1>2, <1>w, <1>12, <1>13, <1>14, <1>15 DEF WindowInv
<1>17. QED BY <1>10, <1>11, <1>16 DEF ReplayInv

LEMMA FileKeeps ==
  ASSUME ReplayInv, File
  PROVE  ReplayInv'
<1> DEFINE win == WindowAt(next + 1)
           entry == [start |-> win.start, trace |-> trace]
<1>t. ReplayTypeOK /\ FiledInv /\ WindowInv BY DEF ReplayInv
<1>1. /\ pc = "session" /\ window = <<>> /\ UNCHANGED <<world, tool, window, mem, held, pending, trace>>
      /\ results' = [results EXCEPT ![tool] = Append(@, entry)]
      /\ next' = next + 1 /\ pc' = "window"
      /\ next \in Nat /\ world \in Worlds /\ tool \in Tools /\ trace \in Seq(Portfolios)
      /\ results \in [Tools -> Seq(Replays)]
  BY <1>t, Zenon DEF File, ReplayTypeOK
<1>2. next < WindowCount /\ win.index # 0 /\ Len(trace) + Len(window) = Len(Days(world, win))
      /\ \E ms, ps : Ran(world, tool, win, trace, ms, ps)
  BY <1>t, <1>1, Zenon DEF WindowInv
<1>3. win \in WindowSet /\ IsWindow(world, tool, win) BY <1>1, <1>2, WindowIs
<1> HIDE DEF win
<1>4. Len(trace) = Len(Days(world, win)) BY <1>1, <1>2
<1>5. IsReplay(world, tool, win, trace) BY <1>2, <1>3, <1>4 DEF IsReplay
<1>6. entry \in Replays BY <1>1, <1>3 DEF Replays, WindowSet
<1>7. entry.start = win.start /\ entry.trace = trace OBVIOUS
<1> HIDE DEF entry
<1>8. ReplayTypeOK' BY <1>t, <1>1, <1>6 DEF ReplayTypeOK
<1>9. FiledInv'
  <2> SUFFICES ASSUME NEW who \in Tools, NEW i \in 1 .. Len(results'[who])
               PROVE  \E v \in WindowSet : /\ results'[who][i].start = v.start
                                           /\ IsReplay(world, who, v, results'[who][i].trace)
    BY <1>1 DEF FiledInv
  <2>1. CASE who # tool
    <3>1. results'[who] = results[who] BY <1>1, <2>1
    <3>2. QED BY <1>t, <3>1 DEF FiledInv
  <2>2. CASE who = tool
    <3>1. results'[who] = Append(results[who], entry) /\ results[who] \in Seq(Replays)
      BY <1>1, <2>2
    <3>2. CASE i \in 1 .. Len(results[who])
      <4>1. results'[who][i] = results[who][i] BY <1>6, <3>1, <3>2
      <4>2. QED BY <1>t, <3>2, <4>1 DEF FiledInv
    <3>3. CASE i = Len(results[who]) + 1
      <4>1. results'[who][i] = entry BY <1>6, <3>1, <3>3
      <4>2. QED BY <1>3, <1>5, <1>7, <2>2, <4>1
    <3>4. QED BY <1>6, <3>1, <3>2, <3>3
  <2>3. QED BY <2>1, <2>2
<1>10. WindowInv' BY <1>1 DEF WindowInv
<1>11. QED BY <1>8, <1>9, <1>10 DEF ReplayInv

LEMMA ToolKeeps ==
  ASSUME ReplayInv, ChangeTool
  PROVE  ReplayInv'
<1>t. ReplayTypeOK /\ FiledInv BY DEF ReplayInv
<1>1. pc = "window" /\ UNCHANGED <<world, window, mem, held, pending, trace, results>>
  BY DEF ChangeTool
<1>2. /\ pc' \in {"window", "done"} /\ tool' \in Tools /\ next' \in Nat
  <2>1. CASE tool = "oneshot" BY <1>t, <1>1, <2>1 DEF ChangeTool, ReplayTypeOK
  <2>2. CASE tool # "oneshot"
    <3>1. tool \in {"fast", "slow"} BY <1>t, <2>2 DEF ReplayTypeOK, Tools
    <3>2. tool' = Following[tool] /\ next' = 0 /\ pc' = pc BY <2>2 DEF ChangeTool
    <3>3. QED BY <1>1, <3>1, <3>2 DEF Following, Tools
  <2>3. QED BY <2>1, <2>2
<1>3. ReplayTypeOK' BY <1>t, <1>1, <1>2 DEF ReplayTypeOK
<1>4. WindowInv' BY <1>2 DEF WindowInv
<1>5. FiledInv' BY <1>t, <1>1 DEF FiledInv
<1>6. QED BY <1>3, <1>4, <1>5 DEF ReplayInv

LEMMA ReplayHolds == ReplaySpec => []ReplayInv
<1>1. ReplayInv /\ [ReplayNext]_replayVars => ReplayInv'
  <2> SUFFICES ASSUME ReplayInv, [ReplayNext]_replayVars PROVE ReplayInv' OBVIOUS
  <2>1. CASE Begin BY <2>1, BeginKeeps
  <2>2. CASE Session BY <2>2, SessionKeeps
  <2>3. CASE File BY <2>3, FileKeeps
  <2>4. CASE ChangeTool BY <2>4, ToolKeeps
  <2>5. CASE UNCHANGED replayVars
    <3>1. UNCHANGED <<world, tool, next, window, mem, held, pending, trace, results, pc>>
      BY <2>5 DEF replayVars
    <3>2. ReplayTypeOK' BY <3>1 DEF ReplayInv, ReplayTypeOK
    <3>3. FiledInv' BY <3>1 DEF ReplayInv, FiledInv
    <3>4. WindowAt(next + 1)' = WindowAt(next + 1) /\ WindowCount' = WindowCount
      BY <3>1 DEF WindowAt, OneshotWindow, RollingWindow, WindowCount, RollingStarts, Grid, GridOf
    <3>5. WindowInv' BY <3>1, <3>4 DEF ReplayInv, WindowInv
    <3>6. QED BY <3>2, <3>3, <3>5 DEF ReplayInv
  <2>6. QED BY <2>1, <2>2, <2>3, <2>4, <2>5 DEF ReplayNext
<1>2. QED BY ReplayInitially, <1>1, PTL DEF ReplaySpec

(***************************************************************************)
(* Two runs of the same days                                                *)
(***************************************************************************)

\* What allocate is told makes a difference to a policy only.
SameAid(w, x, y) == w.kind = "policy" => x = y

\* Two tools show the model the same products of a day.
SameShown(w, who, as, d) == ScoredOn(w, who, d) = ScoredOn(w, as, d)

\* What a model wants depends on the products it is shown, and for a policy on what
\* it is told.
LEMMA WantedAlike ==
  ASSUME NEW w \in Worlds, NEW x \in Aids, NEW y \in Aids, SameAid(w, x, y)
  PROVE  \A who, as, d, m, h : SameShown(w, who, as, d) => Wanted(w, who, m, h, d, x) = Wanted(w, as, m, h, d, y)
<1> SUFFICES ASSUME NEW who, NEW as, NEW d, NEW m, NEW h, SameShown(w, who, as, d)
             PROVE  Wanted(w, who, m, h, d, x) = Wanted(w, as, m, h, d, y)
  OBVIOUS
<1>1. w.best[x] = w.best[y] BY WorldIs DEF SameAid
<1>2. \A n, S : Preferred(w, n, h, S, d, x) = Preferred(w, n, h, S, d, y) BY <1>1 DEF Preferred
<1>3. ConvexWants(w, who, m, h, d) = ConvexWants(w, as, m, h, d) BY Zenon DEF ConvexWants, SameShown
<1>4. StickyWants(w, who, m, h, d, x) = StickyWants(w, as, m, h, d, y)
  BY <1>2, Zenon DEF StickyWants, SameShown
<1>5. QED BY <1>3, <1>4, Zenon DEF Wanted

\* Two replays of the same days that start alike, are shown the same and are told the
\* same as far as it matters, hold the same: at the first index where they differ,
\* the index before would have to differ.
LEMMA ReplaysAgree ==
  ASSUME NEW w \in Worlds, NEW who \in Tools, NEW as \in Tools, NEW v \in WindowSet, NEW u \in WindowSet,
         Days(w, v) = Days(w, u), Days(w, v) \in Seq(Sessions),
         NEW x \in Seq(Portfolios), NEW y \in Seq(Portfolios),
         IsReplay(w, who, v, x), IsReplay(w, as, u, y),
         Begins(w, who, v) = Begins(w, as, u),
         SameAid(w, AidOf(who), AidOf(as)),
         \A d \in Sessions : SameShown(w, who, as, d)
  PROVE  x = y
<1> DEFINE n == Len(x)
<1>1. n \in Nat /\ Len(y) = n /\ n = Len(Days(w, v)) BY DEF IsReplay
<1>2. PICK ms, ps : Ran(w, who, v, x, ms, ps) BY DEF IsReplay
<1>3. PICK ns, qs : Ran(w, as, u, y, ns, qs) BY DEF IsReplay
<1> DEFINE Alike(i) == ms[i] = ns[i] /\ ps[i] = qs[i] /\ HeldAt(x, i) = HeldAt(y, i)
           bad == {i \in 0 .. n : ~ Alike(i)}
<1>4. /\ ms \in [0 .. n -> Memories] /\ ps \in [0 .. n -> Intents]
      /\ ns \in [0 .. n -> Memories] /\ qs \in [0 .. n -> Intents]
  BY <1>1, <1>2, <1>3 DEF Ran
<1>5. Alike(0)
  <2>1. ms[0] = Begins(w, who, v).mem /\ ps[0] = Begins(w, who, v).intent
        /\ ns[0] = Begins(w, as, u).mem /\ qs[0] = Begins(w, as, u).intent
    BY <1>2, <1>3 DEF Ran
  <2>2. HeldAt(x, 0) = HeldAt(y, 0) BY DEF HeldAt
  <2>3. QED BY <2>1, <2>2
<1>6. ASSUME NEW i \in 1 .. n, Alike(i - 1) PROVE Alike(i)
  <2> DEFINE d == Days(w, v)[i]
  <2>1. d \in Sessions /\ i \in 1 .. Len(y) BY <1>1
  <2> DEFINE wish == Wanted(w, who, ms[i - 1], x[i], d, AidOf(who))
             want == Wanted(w, as, ns[i - 1], y[i], d, AidOf(as))
  <2>2. x[i] = Traded(w, HeldAt(x, i - 1), ps[i - 1], d) /\ ms[i] = wish.mem /\ ps[i] = wish.intent
    BY <1>2 DEF Ran
  <2>3. y[i] = Traded(w, HeldAt(y, i - 1), qs[i - 1], d) /\ ns[i] = want.mem /\ qs[i] = want.intent
    BY <1>3, <2>1 DEF Ran
  <2> HIDE DEF d
  <2>4. HeldAt(x, i - 1) = HeldAt(y, i - 1) /\ ps[i - 1] = qs[i - 1] /\ ms[i - 1] = ns[i - 1] BY <1>6
  <2>5. x[i] = y[i] BY <2>2, <2>3, <2>4
  <2>6. wish = want
    <3>1. SameShown(w, who, as, d) BY <2>1
    <3>2. AidOf(who) \in Aids /\ AidOf(as) \in Aids BY DEF AidOf, Aids
    <3>3. want = Wanted(w, as, ms[i - 1], x[i], d, AidOf(as)) BY <2>4, <2>5
    <3> HIDE DEF want
    <3>4. \A k, g : SameShown(w, who, as, d)
                     => Wanted(w, who, k, g, d, AidOf(who)) = Wanted(w, as, k, g, d, AidOf(as))
      <4> DEFINE a == AidOf(who)
                 b == AidOf(as)
      <4>1. a \in Aids /\ b \in Aids /\ SameAid(w, a, b) BY <3>2
      <4> HIDE DEF a, b
      <4>2. \A f, t, e, k, g : SameShown(w, f, t, e) => Wanted(w, f, k, g, e, a) = Wanted(w, t, k, g, e, b)
        BY <4>1, WantedAlike
      <4>3. QED BY <4>2, Zenon DEF a, b
    <3>5. wish = Wanted(w, as, ms[i - 1], x[i], d, AidOf(as)) BY <3>1, <3>4, Zenon
    <3>6. QED BY <3>3, <3>5
  <2> HIDE DEF wish, want
  <2>7. HeldAt(x, i) = HeldAt(y, i) BY <2>5 DEF HeldAt
  <2>8. QED BY <2>2, <2>3, <2>6, <2>7
<1>7. bad = {}
  <2> SUFFICES ASSUME bad # {} PROVE FALSE OBVIOUS
  <2>1. bad \in SUBSET Nat OBVIOUS
  <2>2. PICK i \in bad : \A j \in bad : i <= j
    <3> HIDE DEF bad
    <3>1. QED BY <2>1, LeastExists
  <2> HIDE DEF Alike
  <2>3. i \in 0 .. n /\ ~ Alike(i) OBVIOUS
  <2>4. i \in 1 .. n BY <1>5, <2>3
  <2>5. i - 1 \in 0 .. n /\ ~ (i <= i - 1) BY <2>4
  <2>6. Alike(i - 1) BY <2>2, <2>5
  <2>7. QED BY <1>6, <2>3, <2>4, <2>6
<1>8. ASSUME NEW i \in 1 .. n PROVE x[i] = y[i]
  <2>1. i \in 0 .. n /\ Alike(i)
    <3> HIDE DEF Alike
    <3>1. i \in 0 .. n OBVIOUS
    <3>2. QED BY <1>7, <3>1
  <2>2. QED BY <2>1 DEF HeldAt
<1>9. QED BY <1>1, <1>8

\* A rolling window stands in the grid where its start does.
LEMMA RollingRank ==
  ASSUME NEW w, NEW who \in Tools \ {"oneshot"}, NEW v \in WindowSet, IsWindow(w, who, v)
  PROVE  v.start \in GridIn(w) /\ v.index = RankIn(GridIn(w), v.start)
<1>1. v.index \in 1 .. Cardinality(GridIn(w)) /\ v.start = Nth(GridIn(w), v.index)
  BY GridIs DEF IsWindow
<1>2. QED BY <1>1, GridIs, NthIs

\* Where every session has rows, the grid counts as the calendar does.
LEMMA CalendarRank ==
  ASSUME NEW w, NEW s \in FirstSession .. LastSession, FirstSession .. s \subseteq w.rows
  PROVE  RankIn(GridIn(w), s) = s - FirstSession + 1
<1>0. FirstSession \in Nat /\ LastSession \in Nat /\ s \in Nat BY ReplayAssumption
<1>1. \A e : e \in GridIn(w) /\ e <= s <=> e \in FirstSession .. s
  BY <1>0 DEF GridIn, GridOf
<1>2. {e \in GridIn(w) : e <= s} = FirstSession .. s BY <1>1
<1>3. Cardinality(FirstSession .. s) = s - FirstSession + 1 BY <1>0, FS_Interval
<1>4. QED BY <1>2, <1>3 DEF RankIn

\* The eve a cached replay starts from is that of an engine run, if both see it.
LEMMA EvesAgree ==
  ASSUME NEW w \in Worlds, NEW v \in WindowSet, IsWindow(w, "fast", v),
         \/ v.start > FirstSession /\ v.start - 1 \in w.rows
         \/ v.start - 1 \notin w.rows /\ \A d \in w.rows : d >= v.start
  PROVE  PreviousEve(w, v.start) =
           IF v.index > 1 /\ v.index <= Cardinality(GridIn(w)) + 1 THEN Nth(GridIn(w), v.index - 1) ELSE 0
<1> DEFINE S == GridIn(w)
           s == v.start
<1>1. "fast" \in Tools \ {"oneshot"} BY DEF Tools
<1>2. s \in S /\ v.index = RankIn(S, s) BY <1>1, RollingRank
<1>3. S \in SUBSET Nat /\ IsFiniteSet(S) /\ LastSession \in Nat /\ (\A e \in S : e <= LastSession)
      /\ S \subseteq FirstSession .. LastSession /\ Cardinality(S) \in Nat /\ FirstSession \in Nat
  BY GridIs, ReplayAssumption
<1>4. s \in Nat /\ s - 1 \in Int /\ FirstSession <= s BY <1>2, <1>3
<1>5. v.index = RankIn(S, s - 1) + 1
  <2>1. \A e \in S : e < s => e <= s - 1 BY <1>3, <1>4
  <2> HIDE DEF S, s
  <2> DEFINE c == s - 1
  <2>2. c < s /\ \A e \in S : e < s => e <= c BY <2>1, <1>4
  <2>3. c \in Int BY <1>4
  <2> HIDE DEF c
  <2>4. RankIn(S, s) = RankIn(S, c) + 1 BY <1>2, <1>3, <2>2, <2>3, RankBefore
  <2>5. QED BY <1>2, <2>4 DEF c
<1>6. CASE s > FirstSession /\ s - 1 \in w.rows
  <2>1. s - 1 \in S BY <1>2, <1>3, <1>4, <1>6 DEF GridIn, GridOf
  <2>2. Nth(S, RankIn(S, s - 1)) = s - 1 /\ RankIn(S, s - 1) \in 1 .. Cardinality(S)
    <3> HIDE DEF S, s
    <3>1. QED BY <1>3, <2>1, NthOfRank
  <2>3. v.index > 1 /\ v.index <= Cardinality(S) + 1 /\ v.index - 1 = RankIn(S, s - 1)
    BY <1>3, <1>5, <2>2
  <2>4. QED BY <1>6, <2>2, <2>3 DEF PreviousEve
<1>7. CASE s - 1 \notin w.rows /\ \A d \in w.rows : d >= s
  <2>1. \A e \in S : e \in w.rows BY DEF GridIn, GridOf
  <2>2. \A e \in S : ~ (e <= s - 1) BY <2>1, <1>3, <1>4, <1>7
  <2>3. {e \in S : e <= s - 1} = {} BY <2>2
  <2>4. RankIn(S, s - 1) = 0 BY <2>3, FS_EmptySet DEF RankIn
  <2>5. v.index = 1 BY <1>5, <2>4
  <2>6. QED BY <1>7, <2>5 DEF PreviousEve
<1>8. QED BY <1>6, <1>7

(***************************************************************************)
(* What the three tools promise of each other                               *)
(***************************************************************************)

\* The types of the replay: the model's memory, the portfolio, the intent and the
\* results are what the simulation functions pass around.
THEOREM ReplayTyped == ReplaySpec => []ReplayTypeOK
<1>1. ReplayInv => ReplayTypeOK BY DEF ReplayInv
<1>2. QED BY <1>1, ReplayHolds, PTL

\* A oneshot window is the rolling window of its start: where all its sessions and
\* those before it have rows, the calendar index the oneshot passes is the index of
\* the grid, and nothing else of a replay tells the two tools apart.
THEOREM OneshotReplaysRolling == ReplaySpec => []OneshotIsRolling
<1>1. ASSUME ReplayInv PROVE OneshotIsRolling
  <2> SUFFICES ASSUME NEW i \in 1 .. Len(results["oneshot"]), NEW j \in 1 .. Len(results["fast"]),
                      results["oneshot"][i].start = results["fast"][j].start,
                      FirstSession .. results["oneshot"][i].start + Horizon - 1 \subseteq world.rows
               PROVE  results["oneshot"][i].trace = results["fast"][j].trace
    BY DEF OneshotIsRolling, Filed
  <2>1. world \in Worlds /\ results \in [Tools -> Seq(Replays)] /\ FiledInv
        /\ "oneshot" \in Tools /\ "fast" \in Tools /\ "fast" \in Tools \ {"oneshot"}
    BY <1>1 DEF ReplayInv, ReplayTypeOK, Tools
  <2> DEFINE x == results["oneshot"][i].trace
             y == results["fast"][j].trace
  <2>2. x \in Seq(Portfolios) /\ y \in Seq(Portfolios)
    <3>1. results["oneshot"][i] \in Replays /\ results["fast"][j] \in Replays BY <2>1
    <3>2. QED BY <3>1 DEF Replays
  <2>3. PICK v \in WindowSet : results["oneshot"][i].start = v.start /\ IsReplay(world, "oneshot", v, x)
    BY <2>1 DEF FiledInv
  <2>4. PICK u \in WindowSet : results["fast"][j].start = u.start /\ IsReplay(world, "fast", u, y)
    BY <2>1 DEF FiledInv
  <2> HIDE DEF x, y
  <2>5. v.start = u.start BY <2>3, <2>4
  <2>6. v.start \in FirstSession .. LastSession /\ v.index = v.start - FirstSession + 1
    BY <2>3 DEF IsReplay, IsWindow
  <2>7. u.index = RankIn(GridIn(world), u.start) BY <2>1, <2>4, RollingRank DEF IsReplay
  <2>8. FirstSession .. v.start \subseteq world.rows
    <3>1. FirstSession .. v.start + Horizon - 1 \subseteq world.rows BY <2>3
    <3>2. FirstSession .. v.start \subseteq FirstSession .. v.start + Horizon - 1
      BY <2>6, ReplayAssumption
    <3>3. QED BY <3>1, <3>2
  <2>9. v.index = u.index BY <2>5, <2>6, <2>7, <2>8, CalendarRank
  <2>10. Days(world, v) = Days(world, u) BY <2>9 DEF Days
  <2>11. Days(world, v) \in Seq(Sessions)
    BY <2>3, SliceIs DEF Days, IsReplay, IsWindow
  <2>12. Begins(world, "oneshot", v) = Begins(world, "fast", u) BY <2>9 DEF Begins
  <2>13. SameAid(world, AidOf("oneshot"), AidOf("fast")) BY DEF SameAid, AidOf
  <2>14. \A d \in Sessions : SameShown(world, "oneshot", "fast", d) BY DEF SameShown, ScoredOn
  <2>15. x = y
    BY <2>1, <2>2, <2>3, <2>4, <2>10, <2>11, <2>12, <2>13, <2>14, ReplaysAgree
  <2>16. QED BY <2>15 DEF x, y
<1>2. QED BY <1>1, ReplayHolds, PTL

\* The cached replay of a window holds what an engine run of it alone holds, for every
\* model that does not allocate, every length of the calendar, every horizon: both
\* reset the trackers, see the same eve, and decide each close from the same memory.
THEOREM FastReplaysSlow == ReplaySpec => []FastIsSlow
<1>1. ASSUME ReplayInv PROVE FastIsSlow
  <2> SUFFICES ASSUME NEW i \in 1 .. Len(results["fast"]), NEW j \in 1 .. Len(results["slow"]),
                      results["fast"][i].start = results["slow"][j].start,
                      SameEve(results["fast"][i].start),
                      ChecksFill(world) => world.tradable = world.eligible,
                      world.kind # "policy"
               PROVE  results["fast"][i].trace = results["slow"][j].trace
    BY DEF FastIsSlow, Filed
  <2>1. world \in Worlds /\ results \in [Tools -> Seq(Replays)] /\ FiledInv
        /\ "slow" \in Tools /\ "fast" \in Tools
        /\ "fast" \in Tools \ {"oneshot"} /\ "slow" \in Tools \ {"oneshot"}
    BY <1>1 DEF ReplayInv, ReplayTypeOK, Tools
  <2> DEFINE x == results["fast"][i].trace
             y == results["slow"][j].trace
  <2>2. x \in Seq(Portfolios) /\ y \in Seq(Portfolios)
    <3>1. results["fast"][i] \in Replays /\ results["slow"][j] \in Replays BY <2>1
    <3>2. QED BY <3>1 DEF Replays
  <2>3. PICK v \in WindowSet : results["fast"][i].start = v.start /\ IsReplay(world, "fast", v, x)
    BY <2>1 DEF FiledInv
  <2>4. PICK u \in WindowSet : results["slow"][j].start = u.start /\ IsReplay(world, "slow", u, y)
    BY <2>1 DEF FiledInv
  <2> HIDE DEF x, y
  <2>5. v.start = u.start /\ SameEve(v.start) BY <2>3, <2>4
  <2>6. IsWindow(world, "fast", v) /\ IsWindow(world, "slow", u) BY <2>3, <2>4 DEF IsReplay
  <2>7. v.index = u.index BY <2>1, <2>5, <2>6, RollingRank
  <2>8. Days(world, v) = Days(world, u) BY <2>7 DEF Days
  <2>9. Days(world, v) \in Seq(Sessions) BY <2>6, SliceIs DEF Days, IsWindow
  <2>10. \A d \in Sessions : SameShown(world, "fast", "slow", d)
    BY DEF SameShown, ScoredOn, CacheScored, EngineScored
  <2>11. Begins(world, "fast", v) = Begins(world, "slow", u)
    <3> DEFINE eve == PreviousEve(world, v.start)
    <3>1. eve = IF v.index > 1 /\ v.index <= Cardinality(GridIn(world)) + 1
                  THEN Nth(GridIn(world), v.index - 1) ELSE 0
      BY <2>1, <2>5, <2>6, EvesAgree DEF SameEve
    <3>2. Begins(world, "fast", v) =
            IF eve = 0 THEN [mem |-> Fresh, intent |-> Stay] ELSE CacheEve(world, Fresh, eve)
      BY <3>1, Zenon DEF Begins, CacheBegins
    <3>3. Begins(world, "slow", u) =
            IF eve = 0 THEN [mem |-> Fresh, intent |-> Stay] ELSE EngineEve(world, Fresh, eve)
      BY <2>5, Zenon DEF Begins, EngineBegins
    <3>4. eve # 0 => eve \in Sessions BY <2>1, WorldIs DEF PreviousEve
    <3> HIDE DEF eve
    <3>5. CASE eve = 0 BY <3>2, <3>3, <3>5
    <3>6. CASE eve # 0
      <4>1. SameShown(world, "fast", "slow", eve) BY <2>10, <3>4, <3>6
      <4>2. "none" \in Aids /\ "engine" \in Aids /\ SameAid(world, "none", "engine")
        BY DEF Aids, SameAid
      <4>3. CacheEve(world, Fresh, eve) = EngineEve(world, Fresh, eve)
        BY <2>1, <4>1, <4>2, WantedAlike DEF CacheEve, EngineEve
      <4>4. QED BY <3>2, <3>3, <3>6, <4>3
    <3>7. QED BY <3>5, <3>6
  <2>12. SameAid(world, AidOf("fast"), AidOf("slow")) BY DEF SameAid
  <2>13. x = y
    BY <2>1, <2>2, <2>3, <2>4, <2>8, <2>9, <2>10, <2>11, <2>12, ReplaysAgree
  <2>14. QED BY <2>13 DEF x, y
<1>2. QED BY <1>1, ReplayHolds, PTL
=============================================================================

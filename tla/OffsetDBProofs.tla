--------------------------- MODULE OffsetDBProofs ---------------------------
(***************************************************************************)
(* The lookups of OffsetDB, for all tables, roundings and measurements.      *)
(***************************************************************************)
EXTENDS OffsetDB, WellFoundedInduction, TLAPS

-----------------------------------------------------------------------------
(* Greatest and least members.                                              *)

LEMMA LeastExists ==
    ASSUME NEW S \in SUBSET Nat, S # {}
    PROVE \E x \in S : \A y \in S : x <= y
<1>1. \E x \in S : \A y \in S : ~(<<y, x>> \in OpToRel(<, Nat))
  BY NatLessThanWellFounded, WFMin
<1>2. \A x, y \in Nat : <<y, x>> \in OpToRel(<, Nat) <=> y < x
  BY DEF OpToRel
<1>3. PICK x \in S : \A y \in S : ~(<<y, x>> \in OpToRel(<, Nat))
  BY <1>1
<1>4. ASSUME NEW y \in S PROVE x <= y
  <2>1. x \in Nat /\ y \in Nat
    OBVIOUS
  <2>2. ~(y < x)
    BY <2>1, <1>2, <1>3
  <2> QED
    BY <2>1, <2>2
<1> QED
  BY <1>4

LEMMA GreatestExists ==
    ASSUME NEW S \in SUBSET Nat, S # {}, NEW b \in Nat, \A y \in S : y <= b
    PROVE \E x \in S : \A y \in S : y <= x
<1> DEFINE T == {z \in Nat : b - z \in S}
<1>1. T # {}
  <2>1. PICK y \in S : TRUE
    OBVIOUS
  <2>2. b - y \in Nat /\ b - (b - y) = y
    OBVIOUS
  <2> QED
    BY <2>1, <2>2
<1>2. PICK z \in T : \A w \in T : z <= w
  BY <1>1, LeastExists
<1>3. ASSUME NEW y \in S PROVE y <= b - z
  <2>1. y \in Nat /\ b \in Nat /\ y <= b /\ z \in Nat
    OBVIOUS
  <2>2. b - y \in Nat /\ b - (b - y) = y
    BY <2>1
  <2>3. b - y \in T
    BY <2>2
  <2>4. z <= b - y
    BY <1>2, <2>3
  <2> QED
    BY <2>1, <2>4
<1> QED
  BY <1>3

\* The greatest member of S up to x, if there is one.
LEMMA BelowFacts ==
    ASSUME NEW S \in SUBSET Nat, NEW x \in Nat
    PROVE /\ (\E a \in S : a <= x)
                => /\ Below(S, x) \in S /\ Below(S, x) <= x
                   /\ \A y \in S : y <= x => y <= Below(S, x)
          /\ ~(\E a \in S : a <= x) => Below(S, x) = 0
<1> DEFINE T == {y \in S : y <= x}
<1>1. Below(S, x) = IF T = {} THEN 0 ELSE CHOOSE z \in T : \A y \in T : y <= z
  BY DEF Below, Largest, Null
<1>2. CASE T = {}
  BY <1>1, <1>2
<1>3. CASE T # {}
  <2>1. \E z \in T : \A y \in T : y <= z
    BY <1>3, GreatestExists
  <2>2. Below(S, x) \in T /\ \A y \in T : y <= Below(S, x)
    BY <1>1, <1>3, <2>1
  <2> QED
    BY <2>2, <1>3
<1> QED
  BY <1>2, <1>3

\* The least member of S from x on, if there is one.
LEMMA AboveFacts ==
    ASSUME NEW S \in SUBSET Nat, NEW x \in Nat
    PROVE /\ (\E a \in S : x <= a)
                => /\ Above(S, x) \in S /\ x <= Above(S, x)
                   /\ \A y \in S : x <= y => Above(S, x) <= y
          /\ ~(\E a \in S : x <= a) => Above(S, x) = 0
<1> DEFINE T == {y \in S : y >= x}
<1>1. Above(S, x) = IF T = {} THEN 0 ELSE CHOOSE z \in T : \A y \in T : z <= y
  BY DEF Above, Smallest, Null
<1>2. CASE T = {}
  BY <1>1, <1>2
<1>3. CASE T # {}
  <2>1. \E z \in T : \A y \in T : z <= y
    BY <1>3, LeastExists
  <2>2. Above(S, x) \in T /\ \A y \in T : Above(S, x) <= y
    BY <1>1, <1>3, <2>1
  <2> QED
    BY <2>2, <1>3
<1> QED
  BY <1>2, <1>3

-----------------------------------------------------------------------------
(* Printed numbers and the interval found for them.                         *)

\* A set whose members a query finds.
Exact(S) == S \subseteq Numbers /\ \A s \in S : Printed(s) = s

LEMMA ExactInt == ASSUME NEW S, Exact(S) PROVE S \subseteq Int
<1>1. Numbers \subseteq Nat /\ S \subseteq Numbers
  BY NumberAssumption DEF Exact
<1> QED
  BY <1>1

\* The interval of a printed number has the number itself in it, or is a single
\* point.
LEMMA PrintedInterval ==
    ASSUME NEW S, Exact(S), NEW x \in Numbers, Covers(S, Printed(x))
    PROVE LET a == Below(S, Printed(x))
              b == Above(S, Printed(x))
          IN a \in S /\ b \in S /\ (a = b \/ (a < b /\ a <= x /\ x <= b))
<1> DEFINE q == Printed(x)
           a == Below(S, q)
           b == Above(S, q)
<1>1. S \in SUBSET Nat /\ x \in Nat /\ q \in Nat
  BY NumberAssumption DEF Exact
<1>2. a \in S /\ a <= q /\ \A y \in S : y <= q => y <= a
  BY <1>1, BelowFacts DEF Covers
<1>3. b \in S /\ q <= b /\ \A y \in S : q <= y => b <= y
  BY <1>1, AboveFacts DEF Covers
<1>4. a \in Nat /\ b \in Nat /\ a <= b
  <2>1. a \in Nat /\ b \in Nat
    BY <1>1, <1>2, <1>3
  <2> HIDE DEF a, b, q
  <2> QED
    BY <2>1, <1>1, <1>2, <1>3
<1>5. Printed(a) = a /\ Printed(b) = b /\ a \in Numbers /\ b \in Numbers
  BY <1>2, <1>3 DEF Exact
<1>6. ASSUME a # b PROVE a <= x /\ x <= b
  <2>1. a < q /\ q < b
    <3>1. a # q
      BY <1>1, <1>2, <1>3, <1>4, <1>6
    <3>2. b # q
      BY <1>1, <1>2, <1>3, <1>4, <1>6
    <3> QED
      BY <3>1, <3>2, <1>1, <1>2, <1>3, <1>4
  <2>2. ~(x < a)
    <3>1. x <= a => q <= a
      BY <1>5, NumberAssumption
    <3> QED
      BY <3>1, <2>1, <1>1, <1>4
  <2>3. ~(b < x)
    <3>1. b <= x => b <= q
      BY <1>5, NumberAssumption
    <3> QED
      BY <3>1, <2>1, <1>1, <1>4
  <2> QED
    BY <2>2, <2>3, <1>1, <1>4
<1> QED
  BY <1>2, <1>3, <1>4, <1>6

\* Its ends are neighbours of the number, although printing may have moved the
\* number onto one of them.
LEMMA PrintedNeighbours ==
    ASSUME NEW S, Exact(S), NEW x \in Numbers, Covers(S, x)
    PROVE /\ Covers(S, Printed(x))
          /\ <<Below(S, x), Above(S, x)>> \in Around(S, x)
          /\ Below(S, Printed(x)) \in {Below(S, x), Above(S, x)}
          /\ Above(S, Printed(x)) \in {Below(S, x), Above(S, x)}
<1> DEFINE q == Printed(x)
           a == Below(S, x)
           b == Above(S, x)
<1>1. S \in SUBSET Nat /\ x \in Nat /\ q \in Nat
  BY NumberAssumption DEF Exact
<1>2. a \in S /\ a <= x /\ \A y \in S : y <= x => y <= a
  BY <1>1, BelowFacts DEF Covers
<1>3. b \in S /\ x <= b /\ \A y \in S : x <= y => b <= y
  BY <1>1, AboveFacts DEF Covers
<1>4. a \in Nat /\ b \in Nat /\ a <= b
  <2>1. a \in Nat /\ b \in Nat
    BY <1>1, <1>2, <1>3
  <2> HIDE DEF a, b, q
  <2> QED
    BY <2>1, <1>1, <1>2, <1>3
<1>5. a <= q /\ q <= b
  <2>1. Printed(a) = a /\ Printed(b) = b /\ a \in Numbers /\ b \in Numbers
    BY <1>2, <1>3 DEF Exact
  <2> QED
    BY <2>1, <1>2, <1>3, NumberAssumption
<1>6. Covers(S, q)
  BY <1>2, <1>3, <1>5 DEF Covers
<1>7. \A y \in S : y <= a \/ b <= y
  BY <1>1, <1>2, <1>3
<1>8. <<a, b>> \in Around(S, x)
  BY <1>2, <1>3, <1>4, <1>7 DEF Around, Adjacent
<1>9. Below(S, q) \in {a, b}
  <2>1. Below(S, q) \in S /\ Below(S, q) <= q /\ \A y \in S : y <= q => y <= Below(S, q)
    BY <1>1, <1>6, BelowFacts DEF Covers
  <2>2. Below(S, q) \in Nat /\ a <= Below(S, q)
    BY <2>1, <1>1, <1>2, <1>5
  <2>3. Below(S, q) <= b
    <3> HIDE DEF a, b, q
    <3> QED BY <2>1, <2>2, <1>1, <1>4, <1>5
  <2> QED
    BY <2>1, <2>2, <2>3, <1>4, <1>7
<1>10. Above(S, q) \in {a, b}
  <2>1. Above(S, q) \in S /\ q <= Above(S, q) /\ \A y \in S : q <= y => Above(S, q) <= y
    BY <1>1, <1>6, AboveFacts DEF Covers
  <2>2. Above(S, q) \in Nat /\ Above(S, q) <= b
    BY <2>1, <1>1, <1>3, <1>5
  <2>3. a <= Above(S, q)
    <3> HIDE DEF a, b, q
    <3> QED BY <2>1, <2>2, <1>1, <1>4, <1>5
  <2> QED
    BY <2>1, <2>2, <2>3, <1>4, <1>7
<1> QED
  BY <1>6, <1>8, <1>9, <1>10

-----------------------------------------------------------------------------
(* Lines.                                                                   *)

LEMMA ProductNat == \A x, y \in Nat : x * y \in Nat
OBVIOUS

\* A line between two points stays between them.
LEMMA LineBetween ==
    ASSUME NEW v \in Int, NEW x1 \in Int, NEW x2 \in Int, NEW y1 \in Int, NEW y2 \in Int,
           NEW lo \in Int, NEW hi \in Int,
           lo <= y1, lo <= y2, y1 <= hi, y2 <= hi,
           x1 = x2 \/ (x1 < x2 /\ x1 <= v /\ v <= x2)
    PROVE LET s == SumSlope(v, x1, y1, x2, y2)
          IN s.n \in Int /\ s.d \in Int /\ s.d > 0 /\ lo * s.d <= s.n /\ s.n <= hi * s.d
<1>1. CASE x1 = x2
  BY <1>1 DEF SumSlope
<1>2. CASE x1 # x2
  <2> DEFINE n == (y2 - y1) * v + (y1 * x2 - y2 * x1)
             d == x2 - x1
  <2>1. SumSlope(v, x1, y1, x2, y2) = [n |-> n, d |-> d]
    BY <1>2 DEF SumSlope
  <2>2. x2 - v \in Nat /\ v - x1 \in Nat /\ d \in Nat /\ d > 0 /\ n \in Int
    BY <1>2
  <2>3. n - lo * d = (y1 - lo) * (x2 - v) + (y2 - lo) * (v - x1)
    OBVIOUS
  <2>4. hi * d - n = (hi - y1) * (x2 - v) + (hi - y2) * (v - x1)
    OBVIOUS
  <2>5. (y1 - lo) * (x2 - v) \in Nat /\ (y2 - lo) * (v - x1) \in Nat
    <3>1. y1 - lo \in Nat /\ y2 - lo \in Nat
      OBVIOUS
    <3> QED
      BY <3>1, <2>2, ProductNat
  <2>6. (hi - y1) * (x2 - v) \in Nat /\ (hi - y2) * (v - x1) \in Nat
    <3>1. hi - y1 \in Nat /\ hi - y2 \in Nat
      OBVIOUS
    <3> QED
      BY <3>1, <2>2, ProductNat
  <2>7. n - lo * d >= 0 /\ hi * d - n >= 0
    BY <2>3, <2>4, <2>5, <2>6
  <2>8. lo * d \in Int /\ hi * d \in Int
    BY <2>2
  <2>9. lo * d <= n /\ n <= hi * d
    <3> HIDE DEF n, d
    <3> QED BY <2>7, <2>8, <2>2
  <2> QED
    BY <2>1, <2>2, <2>9
<1> QED
  BY <1>1, <1>2

LEMMA Extremes ==
    ASSUME NEW a \in Int, NEW b \in Int, NEW c \in Int, NEW d \in Int
    PROVE \E lo, hi \in {a, b, c, d} : \A x \in {a, b, c, d} : lo <= x /\ x <= hi
<1>1. \A x, y \in Int : \E lo, hi \in {x, y} : \A z \in {x, y} : lo <= z /\ z <= hi
  OBVIOUS
<1>2. PICK l1, h1 \in {a, b} : \A z \in {a, b} : l1 <= z /\ z <= h1
  BY <1>1
<1>3. PICK l2, h2 \in {c, d} : \A z \in {c, d} : l2 <= z /\ z <= h2
  BY <1>1
<1>4. PICK lo \in {l1, l2} : lo <= l1 /\ lo <= l2
  BY <1>2, <1>3
<1>5. PICK hi \in {h1, h2} : h1 <= hi /\ h2 <= hi
  BY <1>2, <1>3
<1>6. lo \in {a, b, c, d} /\ hi \in {a, b, c, d}
  BY <1>2, <1>3, <1>4, <1>5
<1>7. \A x \in {a, b, c, d} : lo <= x /\ x <= hi
  BY <1>2, <1>3, <1>4, <1>5
<1> QED
  BY <1>6, <1>7

-----------------------------------------------------------------------------
(* The rows.                                                                *)

\* What is stored is never taken for an error, defaults included.
GoodRows == {row \in Rows : \A i \in 1 .. Columns : row[i] > JCOFFSET_ERROR}

RowsInv ==
    /\ txRows \in [TxKeys -> [Powers -> GoodRows \union {NoRow}]]
    /\ rxRows \in [DutPorts -> GoodRows \union {NoRow}]

LEMMA FilledGood ==
    ASSUME NEW row \in Measured, NEW num PROVE Filled(row, num) \in GoodRows
<1>1. \A i \in 1 .. Columns : row[i] \in Int /\ row[i] > JCOFFSET_ERROR
  BY MeasuredAssumption
<1>2. 0 \in Int /\ 0 > JCOFFSET_ERROR
  BY DEF JCOFFSET_ERROR
<1> DEFINE filled == Filled(row, num)
<1>3. /\ filled = [i \in 1 .. Columns |-> filled[i]]
      /\ \A i \in 1 .. Columns : filled[i] \in {row[i], 0}
  BY DEF Filled
<1> HIDE DEF filled
<1>4. \A i \in 1 .. Columns : filled[i] \in Int /\ filled[i] > JCOFFSET_ERROR
  BY <1>1, <1>2, <1>3
<1>5. filled \in Rows
  BY <1>3, <1>4 DEF Rows
<1>6. filled \in GoodRows
  BY <1>4, <1>5 DEF GoodRows
<1> QED
  BY <1>6 DEF filled

LEMMA RowsInit == Init => RowsInv
BY DEF Init, RowsInv

LEMMA RowsStep == RowsInv /\ [Next]_vars => RowsInv'
<1> SUFFICES ASSUME RowsInv, [Next]_vars PROVE RowsInv'
  OBVIOUS
<1>1. ASSUME NEW k \in TxKeys, NEW p \in Levels, StoreTx(k, p) PROVE RowsInv'
  <2>1. PICK row \in Measured :
           txRows' = [txRows EXCEPT ![k][Printed(p)] = Filled(row, FreqHeader(TxGrid))]
    BY <1>1 DEF StoreTx
  <2>2. Filled(row, FreqHeader(TxGrid)) \in GoodRows
    BY FilledGood
  <2> QED
    BY <1>1, <2>1, <2>2 DEF RowsInv, StoreTx
<1>2. ASSUME NEW port \in DutPorts, StoreRx(port) PROVE RowsInv'
  <2>1. PICK row \in Measured :
           rxRows' = [rxRows EXCEPT ![port] = Filled(row, FreqHeader(RxGrid))]
    BY <1>2 DEF StoreRx
  <2>2. Filled(row, FreqHeader(RxGrid)) \in GoodRows
    BY FilledGood
  <2> QED
    BY <1>2, <2>1, <2>2 DEF RowsInv, StoreRx
<1>3. CASE UNCHANGED vars
  BY <1>3 DEF RowsInv, vars
<1> QED
  BY <1>1, <1>2, <1>3 DEF Next

LEMMA RowsAlways == Spec => []RowsInv
BY RowsInit, RowsStep, PTL DEF Spec

\* Every row stored has all its columns, for any table and measurement.
THEOREM RowsTyped == Spec => []TypeOK
<1>1. RowsInv => TypeOK
  BY DEF RowsInv, TypeOK, GoodRows
<1> QED
  BY <1>1, RowsAlways, PTL

-----------------------------------------------------------------------------
(* What a lookup finds.                                                     *)

LEMMA GridFacts ==
    ASSUME NEW grid \in {TxGrid, RxGrid}
    PROVE /\ Exact(Points(grid)) /\ DOMAIN grid \subseteq 1 .. Columns
          /\ \A i \in DOMAIN grid : grid[i] \in Points(grid)
<1>1. grid \in Seq(Numbers) /\ Len(grid) <= Columns /\ Columns \in Nat
  BY GridAssumption
<1>2. DOMAIN grid = 1 .. Len(grid) /\ Len(grid) \in Nat
  BY <1>1
<1>3. \A i \in DOMAIN grid : grid[i] \in Numbers
  BY <1>1, <1>2
<1> QED
  BY <1>1, <1>2, <1>3, GridAssumption DEF Exact, Points

LEMMA IdFacts ==
    ASSUME NEW grid \in {TxGrid, RxGrid}, NEW f \in Points(grid)
    PROVE Ids(grid, f) # {} /\ IdOf(grid, f) \in 1 .. Columns
<1>1. Printed(f) = f
  BY GridFacts DEF Exact
<1>2. Ids(grid, f) # {} /\ Ids(grid, f) \subseteq 1 .. Columns
  BY <1>1, GridFacts DEF Ids, Points
<1>3. Ids(grid, f) \in SUBSET Nat
  BY <1>2, GridAssumption
<1>4. \E i \in Ids(grid, f) : \A j \in Ids(grid, f) : i <= j
  BY <1>2, <1>3, LeastExists
<1>5. IdOf(grid, f) \in Ids(grid, f)
  BY <1>4 DEF IdOf
<1> QED
  BY <1>2, <1>5

LEMMA CalibratedFacts ==
    ASSUME RowsInv, NEW k \in TxKeys
    PROVE /\ Exact(Calibrated(k))
          /\ \A p \in Calibrated(k) : HasRow(k, p) /\ txRows[k][Printed(p)] \in GoodRows
<1>1. \A p \in Powers : p \in Numbers /\ Printed(p) = p
  BY NumberAssumption DEF Powers
<1> QED
  BY <1>1 DEF Exact, Calibrated, HasRow, RowsInv

LEMMA TxValueFacts ==
    ASSUME RowsInv, NEW k \in TxKeys, NEW p \in Calibrated(k), NEW f \in Points(TxGrid)
    PROVE TxValue(k, p, f) \in Int /\ TxValue(k, p, f) > JCOFFSET_ERROR
<1>1. txRows[k][Printed(p)] \in GoodRows
  BY CalibratedFacts
<1>2. IdOf(TxGrid, f) \in 1 .. Columns
  BY IdFacts
<1> QED
  BY <1>1, <1>2 DEF TxValue, GoodRows, Rows

LEMMA RxValueFacts ==
    ASSUME RowsInv, NEW port \in DutPorts, rxRows[port] # NoRow, NEW f \in Points(RxGrid)
    PROVE RxValue(port, f) \in Int /\ RxValue(port, f) > JCOFFSET_ERROR
<1>1. rxRows[port] \in GoodRows
  BY DEF RowsInv
<1>2. IdOf(RxGrid, f) \in 1 .. Columns
  BY IdFacts
<1> QED
  BY <1>1, <1>2 DEF RxValue, GoodRows, Rows

\* A lookup inside the tables lies in any range that holds the values at the four
\* corners it uses.
LEMMA LookupTx ==
    ASSUME RowsInv, NEW k \in TxKeys, NEW f \in Freqs, NEW p \in Levels,
           Covers(Points(TxGrid), Printed(f)), Covers(Calibrated(k), Printed(p)),
           NEW lo \in Int, NEW hi \in Int,
           \A t \in {Below(Calibrated(k), Printed(p)), Above(Calibrated(k), Printed(p))} :
              \A g \in {Below(Points(TxGrid), Printed(f)), Above(Points(TxGrid), Printed(f))} :
                 lo <= TxValue(k, t, g) /\ TxValue(k, t, g) <= hi
    PROVE LET s == OffsetTx(k, f, p)
          IN s.n \in Int /\ s.d \in Int /\ s.d > 0 /\ lo * s.d <= s.n /\ s.n <= hi * s.d
<1> DEFINE f1 == Below(Points(TxGrid), Printed(f))
           f2 == Above(Points(TxGrid), Printed(f))
           t1 == Below(Calibrated(k), Printed(p))
           t2 == Above(Calibrated(k), Printed(p))
           o1 == SumSlope(f, f1, TxValue(k, t1, f1), f2, TxValue(k, t1, f2))
           o2 == SumSlope(f, f1, TxValue(k, t2, f1), f2, TxValue(k, t2, f2))
           s == SumSlope(p, t1, o1.n, t2, o2.n)
<1>1. f \in Numbers /\ p \in Numbers /\ f \in Int /\ p \in Int
  BY NumberAssumption
<1>2. f1 \in Points(TxGrid) /\ f2 \in Points(TxGrid)
      /\ (f1 = f2 \/ (f1 < f2 /\ f1 <= f /\ f <= f2))
  BY <1>1, GridFacts, PrintedInterval
<1>3. t1 \in Calibrated(k) /\ t2 \in Calibrated(k)
      /\ (t1 = t2 \/ (t1 < t2 /\ t1 <= p /\ p <= t2))
  BY <1>1, CalibratedFacts, PrintedInterval
<1>4. f1 \in Int /\ f2 \in Int /\ t1 \in Int /\ t2 \in Int
  <2>1. Exact(Points(TxGrid)) /\ Exact(Calibrated(k))
    BY GridFacts, CalibratedFacts
  <2>2. Points(TxGrid) \subseteq Int /\ Calibrated(k) \subseteq Int
    BY <2>1, ExactInt
  <2> HIDE DEF f1, f2, t1, t2
  <2> QED
    BY <2>2, <1>2, <1>3
<1>5. \A t \in {t1, t2} : \A g \in {f1, f2} : TxValue(k, t, g) \in Int
  BY <1>2, <1>3, TxValueFacts
<1>6. OffsetTx(k, f, p) = [n |-> s.n, d |-> s.d * o1.d]
  <2>1. Ids(TxGrid, f1) # {} /\ Ids(TxGrid, f2) # {}
    BY <1>2, IdFacts
  <2>2. HasRow(k, t1) /\ HasRow(k, t2)
    BY <1>3, CalibratedFacts
  <2> QED
    BY <2>1, <2>2 DEF OffsetTx
<1> HIDE DEF f1, f2, t1, t2
<1>7. /\ o1.n \in Int /\ o1.d \in Int /\ o1.d > 0
      /\ lo * o1.d <= o1.n /\ o1.n <= hi * o1.d
  <2>1. /\ lo <= TxValue(k, t1, f1) /\ lo <= TxValue(k, t1, f2)
        /\ TxValue(k, t1, f1) <= hi /\ TxValue(k, t1, f2) <= hi
    BY DEF f1, f2, t1, t2
  <2> QED
    BY <2>1, <1>1, <1>2, <1>4, <1>5, LineBetween
<1>8. /\ o2.n \in Int /\ o2.d \in Int /\ o2.d > 0
      /\ lo * o2.d <= o2.n /\ o2.n <= hi * o2.d
  <2>1. /\ lo <= TxValue(k, t2, f1) /\ lo <= TxValue(k, t2, f2)
        /\ TxValue(k, t2, f1) <= hi /\ TxValue(k, t2, f2) <= hi
    BY DEF f1, f2, t1, t2
  <2> QED
    BY <2>1, <1>1, <1>2, <1>4, <1>5, LineBetween
<1>9. o1.d = o2.d
  BY DEF SumSlope
<1> HIDE DEF o1, o2
<1> DEFINE l == lo * o1.d
           h == hi * o1.d
<1>10. /\ l \in Int /\ h \in Int
       /\ l <= o1.n /\ l <= o2.n /\ o1.n <= h /\ o2.n <= h
  BY <1>7, <1>8, <1>9
<1> HIDE DEF l, h
<1>11. s.n \in Int /\ s.d \in Int /\ s.d > 0 /\ l * s.d <= s.n /\ s.n <= h * s.d
  BY <1>1, <1>3, <1>4, <1>7, <1>8, <1>10, LineBetween
<1> HIDE DEF s
<1>12. l * s.d = lo * (s.d * o1.d) /\ h * s.d = hi * (s.d * o1.d)
  BY <1>7, <1>11 DEF l, h
<1>13. s.d * o1.d \in Int /\ s.d * o1.d > 0
  BY <1>7, <1>11
<1> QED
  BY <1>6, <1>11, <1>12, <1>13

LEMMA LookupRx ==
    ASSUME RowsInv, NEW port \in DutPorts, NEW f \in Freqs,
           Covers(Points(RxGrid), Printed(f)), rxRows[port] # NoRow,
           NEW lo \in Int, NEW hi \in Int,
           \A g \in {Below(Points(RxGrid), Printed(f)), Above(Points(RxGrid), Printed(f))} :
              lo <= RxValue(port, g) /\ RxValue(port, g) <= hi
    PROVE LET s == OffsetRx(port, f)
          IN s.n \in Int /\ s.d \in Int /\ s.d > 0 /\ lo * s.d <= s.n /\ s.n <= hi * s.d
<1> DEFINE f1 == Below(Points(RxGrid), Printed(f))
           f2 == Above(Points(RxGrid), Printed(f))
<1>1. f \in Numbers /\ f \in Int
  BY NumberAssumption
<1>2. f1 \in Points(RxGrid) /\ f2 \in Points(RxGrid)
      /\ (f1 = f2 \/ (f1 < f2 /\ f1 <= f /\ f <= f2))
  BY <1>1, GridFacts, PrintedInterval
<1>3. f1 \in Int /\ f2 \in Int
  <2>1. Exact(Points(RxGrid))
    BY GridFacts
  <2>2. Points(RxGrid) \subseteq Int
    BY <2>1, ExactInt
  <2> HIDE DEF f1, f2
  <2> QED
    BY <2>2, <1>2
<1>4. RxValue(port, f1) \in Int /\ RxValue(port, f2) \in Int
  BY <1>2, RxValueFacts
<1>5. OffsetRx(port, f) = SumSlope(f, f1, RxValue(port, f1), f2, RxValue(port, f2))
  BY <1>2, IdFacts DEF OffsetRx
<1>6. /\ lo <= RxValue(port, f1) /\ lo <= RxValue(port, f2)
      /\ RxValue(port, f1) <= hi /\ RxValue(port, f2) <= hi
  OBVIOUS
<1> HIDE DEF f1, f2
<1> QED
  BY <1>1, <1>2, <1>3, <1>4, <1>5, <1>6, LineBetween

-----------------------------------------------------------------------------
(* The theorems.                                                            *)

LEMMA Interpolates == RowsInv => BetweenNeighbours
<1> SUFFICES ASSUME RowsInv PROVE BetweenNeighbours
  OBVIOUS
<1>1. ASSUME NEW k \in TxKeys, NEW f \in Freqs, NEW p \in Levels,
             Covers(Points(TxGrid), f), Covers(Calibrated(k), p)
      PROVE \E fs \in Around(Points(TxGrid), f), ps \in Around(Calibrated(k), p) :
               Within(OffsetTx(k, f, p), Corners(k, fs, ps))
  <2> DEFINE a == Below(Points(TxGrid), f)
             b == Above(Points(TxGrid), f)
             c == Below(Calibrated(k), p)
             d == Above(Calibrated(k), p)
             X == Corners(k, <<a, b>>, <<c, d>>)
  <2>1. f \in Numbers /\ p \in Numbers
    BY NumberAssumption
  <2>2. /\ Covers(Points(TxGrid), Printed(f))
        /\ <<a, b>> \in Around(Points(TxGrid), f)
        /\ Below(Points(TxGrid), Printed(f)) \in {a, b}
        /\ Above(Points(TxGrid), Printed(f)) \in {a, b}
    BY <1>1, <2>1, GridFacts, PrintedNeighbours
  <2>3. /\ Covers(Calibrated(k), Printed(p))
        /\ <<c, d>> \in Around(Calibrated(k), p)
        /\ Below(Calibrated(k), Printed(p)) \in {c, d}
        /\ Above(Calibrated(k), Printed(p)) \in {c, d}
    BY <1>1, <2>1, CalibratedFacts, PrintedNeighbours
  <2>4. /\ a \in Points(TxGrid) /\ b \in Points(TxGrid)
        /\ c \in Calibrated(k) /\ d \in Calibrated(k)
    BY <2>2, <2>3 DEF Around
  <2> HIDE DEF a, b, c, d
  <2>5. X = {TxValue(k, c, a), TxValue(k, c, b), TxValue(k, d, a), TxValue(k, d, b)}
    BY DEF Corners
  <2> HIDE DEF X
  <2>6. /\ TxValue(k, c, a) \in Int /\ TxValue(k, c, b) \in Int
        /\ TxValue(k, d, a) \in Int /\ TxValue(k, d, b) \in Int
    BY <2>4, TxValueFacts
  <2>7. PICK lo, hi \in X : \A x \in X : lo <= x /\ x <= hi
    BY <2>5, <2>6, Extremes
  <2>8. lo \in Int /\ hi \in Int
    BY <2>5, <2>6
  <2>9. \A t \in {c, d}, g \in {a, b} : TxValue(k, t, g) \in X
    BY <2>5
  <2>10. OffsetTx(k, f, p).d > 0 /\ lo * OffsetTx(k, f, p).d <= OffsetTx(k, f, p).n
         /\ OffsetTx(k, f, p).n <= hi * OffsetTx(k, f, p).d
    BY <2>2, <2>3, <2>7, <2>8, <2>9, LookupTx
  <2>11. Within(OffsetTx(k, f, p), X)
    BY <2>10 DEF Within
  <2> QED
    BY <2>2, <2>3, <2>11 DEF X
<1>2. ASSUME NEW port \in DutPorts, NEW f \in Freqs,
             Covers(Points(RxGrid), f), rxRows[port] # NoRow
      PROVE \E fs \in Around(Points(RxGrid), f) :
               Within(OffsetRx(port, f), {RxValue(port, fs[j]) : j \in {1, 2}})
  <2> DEFINE a == Below(Points(RxGrid), f)
             b == Above(Points(RxGrid), f)
             X == {RxValue(port, <<a, b>>[j]) : j \in {1, 2}}
  <2>1. f \in Numbers
    BY NumberAssumption
  <2>2. /\ Covers(Points(RxGrid), Printed(f))
        /\ <<a, b>> \in Around(Points(RxGrid), f)
        /\ Below(Points(RxGrid), Printed(f)) \in {a, b}
        /\ Above(Points(RxGrid), Printed(f)) \in {a, b}
    BY <1>2, <2>1, GridFacts, PrintedNeighbours
  <2>3. a \in Points(RxGrid) /\ b \in Points(RxGrid)
    BY <2>2 DEF Around
  <2> HIDE DEF a, b
  <2>4. X = {RxValue(port, a), RxValue(port, b)}
    OBVIOUS
  <2> HIDE DEF X
  <2>5. RxValue(port, a) \in Int /\ RxValue(port, b) \in Int
    BY <1>2, <2>3, RxValueFacts
  <2>6. PICK lo, hi \in X : \A x \in X : lo <= x /\ x <= hi
    BY <2>4, <2>5
  <2>7. lo \in Int /\ hi \in Int /\ \A g \in {a, b} : RxValue(port, g) \in X
    BY <2>4, <2>5
  <2>8. OffsetRx(port, f).d > 0 /\ lo * OffsetRx(port, f).d <= OffsetRx(port, f).n
        /\ OffsetRx(port, f).n <= hi * OffsetRx(port, f).d
    BY <1>2, <2>2, <2>6, <2>7, LookupRx
  <2>9. Within(OffsetRx(port, f), X)
    BY <2>8 DEF Within
  <2> QED
    BY <2>2, <2>9 DEF X
<1> QED
  BY <1>1, <1>2, Zenon DEF BetweenNeighbours

\* A lookup inside the calibrated range interpolates between neighbours of what
\* it is asked for, for any tables, any monotone rounding of the queries and any
\* history of calibrations.
THEOREM InterpolatesBetween == Spec => []BetweenNeighbours
BY Interpolates, RowsAlways, PTL

\* The interval of a member is the member itself.
LEMMA ExactInterval ==
    ASSUME NEW S, Exact(S), NEW x \in S PROVE Below(S, x) = x /\ Above(S, x) = x
<1>1. S \in SUBSET Nat /\ x \in Nat
  BY NumberAssumption DEF Exact
<1>2. Below(S, x) \in S /\ Below(S, x) <= x /\ x <= Below(S, x)
  BY <1>1, BelowFacts
<1>3. Above(S, x) \in S /\ x <= Above(S, x) /\ Above(S, x) <= x
  BY <1>1, AboveFacts
<1>4. Below(S, x) \in Nat /\ Above(S, x) \in Nat
  BY <1>1, <1>2, <1>3
<1> QED
  BY <1>1, <1>2, <1>3, <1>4

LEMMA ExactLookups == RowsInv => ExactWhereCalibrated
<1> SUFFICES ASSUME RowsInv PROVE ExactWhereCalibrated
  OBVIOUS
<1>1. ASSUME NEW k \in TxKeys, NEW i \in DOMAIN TxGrid, NEW p \in Levels,
             i = IdOf(TxGrid, TxGrid[i]), HasRow(k, p), Printed(p) = p
      PROVE Equals(OffsetTx(k, TxGrid[i], p), txRows[k][p][i])
  <2> DEFINE f == TxGrid[i]
             y == TxValue(k, p, f)
  <2>1. f \in Points(TxGrid) /\ Printed(f) = f
    BY GridFacts DEF Exact
  <2>2. p \in Calibrated(k)
    BY <1>1 DEF Calibrated, HasRow
  <2>3. Below(Points(TxGrid), f) = f /\ Above(Points(TxGrid), f) = f
    BY <2>1, GridFacts, ExactInterval
  <2>4. Below(Calibrated(k), p) = p /\ Above(Calibrated(k), p) = p
    BY <2>2, CalibratedFacts, ExactInterval
  <2>5. Ids(TxGrid, f) # {}
    BY <2>1, IdFacts
  <2>6. y \in Int /\ y = txRows[k][p][i]
    BY <1>1, <2>1, <2>2, TxValueFacts DEF TxValue
  <2> HIDE DEF f
  <2>7. OffsetTx(k, f, p) = [n |-> y, d |-> 1 * 1]
    BY <1>1, <2>1, <2>3, <2>4, <2>5 DEF OffsetTx, SumSlope
  <2> QED
    BY <2>6, <2>7 DEF Equals, f
<1>2. ASSUME NEW port \in DutPorts, NEW i \in DOMAIN RxGrid,
             i = IdOf(RxGrid, RxGrid[i]), rxRows[port] # NoRow
      PROVE Equals(OffsetRx(port, RxGrid[i]), rxRows[port][i])
  <2> DEFINE f == RxGrid[i]
             y == RxValue(port, f)
  <2>1. f \in Points(RxGrid) /\ Printed(f) = f
    BY GridFacts DEF Exact
  <2>2. Below(Points(RxGrid), f) = f /\ Above(Points(RxGrid), f) = f
    BY <2>1, GridFacts, ExactInterval
  <2>3. Ids(RxGrid, f) # {}
    BY <2>1, IdFacts
  <2>4. y \in Int /\ y = rxRows[port][i]
    BY <1>2, <2>1, RxValueFacts DEF RxValue
  <2> HIDE DEF f
  <2>5. OffsetRx(port, f) = [n |-> y, d |-> 1]
    BY <1>2, <2>1, <2>2, <2>3 DEF OffsetRx, SumSlope
  <2> QED
    BY <2>4, <2>5 DEF Equals, f
<1> QED
  BY <1>1, <1>2 DEF ExactWhereCalibrated

\* A lookup at a calibrated point and level returns what was stored for it.
THEOREM LooksUpExactly == Spec => []ExactWhereCalibrated
BY ExactLookups, RowsAlways, PTL

\* Outside the printed range one of the interval's ends is the empty maximum.
LEMMA OutsideIsZero ==
    ASSUME NEW S, Exact(S), NEW x \in Numbers, ~Covers(S, Printed(x))
    PROVE Below(S, Printed(x)) = 0 \/ Above(S, Printed(x)) = 0
<1>1. S \in SUBSET Nat /\ Printed(x) \in Nat
  BY NumberAssumption DEF Exact
<1> QED
  BY <1>1, BelowFacts, AboveFacts DEF Covers

LEMMA ZeroNotFound ==
    ASSUME NEW grid \in {TxGrid, RxGrid}, 0 \notin Points(grid) PROVE Ids(grid, 0) = {}
<1>1. Printed(0) = 0
  BY NumberAssumption
<1> QED
  BY <1>1, GridFacts DEF Ids

\* A value above that of an error is none.
LEMMA NoError ==
    ASSUME NEW a, a.n \in Int, a.d \in Int, a.d > 0, (JCOFFSET_ERROR + 1) * a.d <= a.n
    PROVE ~IsError(a)
BY DEF IsError, JCOFFSET_ERROR

LEMMA Failures == RowsInv => FailsOutside
<1> SUFFICES ASSUME RowsInv PROVE FailsOutside
  OBVIOUS
<1> DEFINE least == JCOFFSET_ERROR + 1
<1>1. least \in Int /\ JCOFFSET_ERROR \in Int /\ IsError(NoAnswer)
      /\ \A v \in Int : v > JCOFFSET_ERROR => least <= v
  BY DEF JCOFFSET_ERROR, IsError, NoAnswer
<1>2. ASSUME NEW k \in TxKeys, NEW f \in Freqs, NEW p \in Levels,
             0 \notin Points(TxGrid), 0 \notin Calibrated(k)
      PROVE IsError(OffsetTx(k, f, p))
               <=> ~(Covers(Points(TxGrid), Printed(f)) /\ Covers(Calibrated(k), Printed(p)))
  <2>1. f \in Numbers /\ p \in Numbers
    BY NumberAssumption
  <2>2. CASE ~Covers(Points(TxGrid), Printed(f))
    <3>1. \/ Below(Points(TxGrid), Printed(f)) = 0
          \/ Above(Points(TxGrid), Printed(f)) = 0
      BY <2>1, <2>2, GridFacts, OutsideIsZero
    <3>2. Ids(TxGrid, 0) = {}
      BY <1>2, ZeroNotFound
    <3>3. OffsetTx(k, f, p) = NoAnswer
      BY <3>1, <3>2 DEF OffsetTx
    <3> QED
      BY <3>3, <2>2, <1>1
  <2>3. CASE ~Covers(Calibrated(k), Printed(p))
    <3>1. Below(Calibrated(k), Printed(p)) = 0 \/ Above(Calibrated(k), Printed(p)) = 0
      BY <2>1, <2>3, CalibratedFacts, OutsideIsZero
    <3>2. ~HasRow(k, 0)
      <4>1. Printed(0) = 0
        BY NumberAssumption
      <4> QED
        BY <4>1, <1>2 DEF HasRow, Calibrated
    <3>3. OffsetTx(k, f, p) = NoAnswer
      BY <3>1, <3>2 DEF OffsetTx
    <3> QED
      BY <3>3, <2>3, <1>1
  <2>4. CASE Covers(Points(TxGrid), Printed(f)) /\ Covers(Calibrated(k), Printed(p))
    <3> DEFINE f1 == Below(Points(TxGrid), Printed(f))
               f2 == Above(Points(TxGrid), Printed(f))
               t1 == Below(Calibrated(k), Printed(p))
               t2 == Above(Calibrated(k), Printed(p))
    <3>1. f1 \in Points(TxGrid) /\ f2 \in Points(TxGrid)
      BY <2>1, <2>4, GridFacts, PrintedInterval
    <3>2. t1 \in Calibrated(k) /\ t2 \in Calibrated(k)
      BY <2>1, <2>4, CalibratedFacts, PrintedInterval
    <3>3. \A t \in {t1, t2}, g \in {f1, f2} :
             TxValue(k, t, g) \in Int /\ TxValue(k, t, g) > JCOFFSET_ERROR
      BY <3>1, <3>2, TxValueFacts
    <3> HIDE DEF f1, f2, t1, t2
    <3>4. PICK hi \in {TxValue(k, t1, f1), TxValue(k, t1, f2),
                       TxValue(k, t2, f1), TxValue(k, t2, f2)} :
             \A t \in {t1, t2}, g \in {f1, f2} : TxValue(k, t, g) <= hi
      BY <3>3, Extremes
    <3>5. hi \in Int
      BY <3>3, <3>4
    <3>6. \A t \in {t1, t2} : \A g \in {f1, f2} :
             least <= TxValue(k, t, g) /\ TxValue(k, t, g) <= hi
      BY <1>1, <3>3, <3>4
    <3>7. /\ OffsetTx(k, f, p).n \in Int /\ OffsetTx(k, f, p).d \in Int
          /\ OffsetTx(k, f, p).d > 0 /\ least * OffsetTx(k, f, p).d <= OffsetTx(k, f, p).n
      <4> HIDE DEF least
      <4> QED
        BY <1>1, <2>4, <3>5, <3>6, LookupTx DEF f1, f2, t1, t2
    <3> QED
      BY <3>7, <2>4, NoError
  <2> QED
    BY <2>2, <2>3, <2>4
<1>3. ASSUME NEW port \in DutPorts, NEW f \in Freqs, 0 \notin Points(RxGrid)
      PROVE IsError(OffsetRx(port, f))
               <=> ~(Covers(Points(RxGrid), Printed(f)) /\ rxRows[port] # NoRow)
  <2>1. f \in Numbers
    BY NumberAssumption
  <2>2. CASE ~Covers(Points(RxGrid), Printed(f))
    <3>1. \/ Below(Points(RxGrid), Printed(f)) = 0
          \/ Above(Points(RxGrid), Printed(f)) = 0
      BY <2>1, <2>2, GridFacts, OutsideIsZero
    <3>2. Ids(RxGrid, 0) = {}
      BY <1>3, ZeroNotFound
    <3>3. OffsetRx(port, f) = NoAnswer
      BY <3>1, <3>2 DEF OffsetRx
    <3> QED
      BY <3>3, <2>2, <1>1
  <2>3. CASE rxRows[port] = NoRow
    BY <2>3, <1>1 DEF OffsetRx
  <2>4. CASE Covers(Points(RxGrid), Printed(f)) /\ rxRows[port] # NoRow
    <3> DEFINE f1 == Below(Points(RxGrid), Printed(f))
               f2 == Above(Points(RxGrid), Printed(f))
    <3>1. f1 \in Points(RxGrid) /\ f2 \in Points(RxGrid)
      BY <2>1, <2>4, GridFacts, PrintedInterval
    <3>2. \A g \in {f1, f2} : RxValue(port, g) \in Int /\ RxValue(port, g) > JCOFFSET_ERROR
      BY <3>1, <2>4, RxValueFacts
    <3> HIDE DEF f1, f2
    <3>3. PICK hi \in {RxValue(port, f1), RxValue(port, f2)} :
             \A g \in {f1, f2} : RxValue(port, g) <= hi
      BY <3>2
    <3>4. hi \in Int
      BY <3>2, <3>3
    <3>5. \A g \in {f1, f2} : least <= RxValue(port, g) /\ RxValue(port, g) <= hi
      BY <1>1, <3>2, <3>3
    <3>6. /\ OffsetRx(port, f).n \in Int /\ OffsetRx(port, f).d \in Int
          /\ OffsetRx(port, f).d > 0 /\ least * OffsetRx(port, f).d <= OffsetRx(port, f).n
      <4> HIDE DEF least
      <4> QED
        BY <1>1, <2>4, <3>4, <3>5, LookupRx DEF f1, f2
    <3> QED
      BY <3>6, <2>4, NoError
  <2> QED
    BY <2>2, <2>3, <2>4
<1> QED
  BY <1>2, <1>3, Zenon DEF FailsOutside

\* A lookup fails exactly outside the calibrated range, unless 0 is in a table.
THEOREM FailsExactlyOutside == Spec => []FailsOutside
BY Failures, RowsAlways, PTL
-----------------------------------------------------------------------------
(* What a calibration changes.                                              *)

\* A calibrated level lies between the level stored and the level asked for.
Separated(k, p, q) ==
    \E x \in Calibrated(k) : \/ Printed(q) <= x /\ x < Printed(p)
                             \/ Printed(p) < x /\ x <= Printed(q)

\* Storing a row changes no lookup of another port, carrier, kind or direction,
\* and none at a level that calibrated levels separate from it, except that a row
\* at 0 dBm is also what an empty maximum finds.
StoringIsLocal ==
    [][/\ \A k \in TxKeys, p \in Levels : StoreTx(k, p) =>
            /\ \A port \in DutPorts, f \in Freqs : OffsetRx(port, f)' = OffsetRx(port, f)
            /\ \A l \in TxKeys, f \in Freqs, q \in Levels :
                  l # k \/ (Separated(k, p, q) /\ Printed(p) # 0)
                      => OffsetTx(l, f, q)' = OffsetTx(l, f, q)
       /\ \A port \in DutPorts : StoreRx(port) =>
            /\ \A l \in TxKeys, f \in Freqs, q \in Levels :
                  OffsetTx(l, f, q)' = OffsetTx(l, f, q)
            /\ \A other \in DutPorts \ {port}, f \in Freqs :
                  OffsetRx(other, f)' = OffsetRx(other, f)]_vars

\* A calibration takes no answer away: what could be looked up before it can be
\* looked up after it, with other values perhaps.
AnswersStay ==
    [][/\ \A k \in TxKeys, f \in Freqs, q \in Levels :
             0 \notin Points(TxGrid) /\ 0 \notin Calibrated(k)' /\ ~IsError(OffsetTx(k, f, q))
                 => ~IsError(OffsetTx(k, f, q)')
       /\ \A port \in DutPorts, f \in Freqs :
             0 \notin Points(RxGrid) /\ ~IsError(OffsetRx(port, f))
                 => ~IsError(OffsetRx(port, f)')]_vars

\* A lookup depends on the two rows around its level only.
LEMMA LookupSame ==
    ASSUME NEW l, NEW f, NEW q, NEW t1, NEW t2,
           t1 = Below(Calibrated(l), Printed(q)), t2 = Above(Calibrated(l), Printed(q)),
           t1 = Below(Calibrated(l)', Printed(q)), t2 = Above(Calibrated(l)', Printed(q)),
           HasRow(l, t1)' <=> HasRow(l, t1), HasRow(l, t2)' <=> HasRow(l, t2),
           \A g : TxValue(l, t1, g)' = TxValue(l, t1, g),
           \A g : TxValue(l, t2, g)' = TxValue(l, t2, g)
    PROVE  OffsetTx(l, f, q)' = OffsetTx(l, f, q)
<1> DEFINE f1 == Below(Points(TxGrid), Printed(f))
           f2 == Above(Points(TxGrid), Printed(f))
           Answer(a, b, c, d) ==
               LET offset1 == SumSlope(f, f1, a, f2, b)
                   offset2 == SumSlope(f, f1, c, f2, d)
                   s == SumSlope(q, t1, offset1.n, t2, offset2.n)
               IN [n |-> s.n, d |-> s.d * offset1.d]
           Found == Ids(TxGrid, f1) # {} /\ Ids(TxGrid, f2) # {}
<1>1. OffsetTx(l, f, q) =
          IF Found /\ HasRow(l, t1) /\ HasRow(l, t2)
          THEN Answer(TxValue(l, t1, f1), TxValue(l, t1, f2),
                      TxValue(l, t2, f1), TxValue(l, t2, f2))
          ELSE NoAnswer
  BY DEF OffsetTx
<1>2. OffsetTx(l, f, q)' =
          IF Found /\ HasRow(l, t1)' /\ HasRow(l, t2)'
          THEN Answer(TxValue(l, t1, f1)', TxValue(l, t1, f2)',
                      TxValue(l, t2, f1)', TxValue(l, t2, f2)')
          ELSE NoAnswer
  BY DEF OffsetTx
<1> HIDE DEF Found, Answer, f1, f2
<1> QED
  BY <1>1, <1>2

LEMMA SameRowsSameLookups ==
    ASSUME NEW l, txRows'[l] = txRows[l], NEW f, NEW q
    PROVE  OffsetTx(l, f, q)' = OffsetTx(l, f, q)
<1>1. Calibrated(l)' = Calibrated(l)
  BY DEF Calibrated
<1>2. \A t : HasRow(l, t)' <=> HasRow(l, t)
  BY DEF HasRow
<1>3. \A t, g : TxValue(l, t, g)' = TxValue(l, t, g)
  BY DEF TxValue
<1> QED
  BY <1>1, <1>2, <1>3, LookupSame

LEMMA SameRowSameRxLookups ==
    ASSUME NEW port, rxRows'[port] = rxRows[port], NEW f
    PROVE  OffsetRx(port, f)' = OffsetRx(port, f)
<1> DEFINE f1 == Below(Points(RxGrid), Printed(f))
           f2 == Above(Points(RxGrid), Printed(f))
<1>1. \A g : RxValue(port, g)' = RxValue(port, g)
  BY DEF RxValue
<1>2. OffsetRx(port, f) =
          IF Ids(RxGrid, f1) # {} /\ Ids(RxGrid, f2) # {} /\ rxRows[port] # NoRow
          THEN SumSlope(f, f1, RxValue(port, f1), f2, RxValue(port, f2)) ELSE NoAnswer
  BY DEF OffsetRx
<1>3. OffsetRx(port, f)' =
          IF Ids(RxGrid, f1) # {} /\ Ids(RxGrid, f2) # {} /\ rxRows'[port] # NoRow
          THEN SumSlope(f, f1, RxValue(port, f1)', f2, RxValue(port, f2)') ELSE NoAnswer
  BY DEF OffsetRx
<1> HIDE DEF f1, f2
<1> QED
  BY <1>1, <1>2, <1>3

\* Sets that differ in r at most have the same neighbours of x, if a member lies
\* between x and r.
LEMMA NeighboursSame ==
    ASSUME NEW S \in SUBSET Nat, NEW T \in SUBSET Nat, NEW r \in Nat, NEW x \in Nat,
           S \ {r} = T \ {r}, NEW m \in S, (x <= m /\ m < r) \/ (r < m /\ m <= x)
    PROVE  /\ Below(S, x) = Below(T, x) /\ Above(S, x) = Above(T, x)
           /\ Below(S, x) \in (S \ {r}) \union {0} /\ Above(S, x) \in (S \ {r}) \union {0}
<1>1. m # r /\ m \in T /\ m \in Nat
  OBVIOUS
<1>2. \A y \in Nat : y # r => (y \in S <=> y \in T)
  OBVIOUS
<1>3. CASE x <= m /\ m < r
  <2>1. {y \in S : y <= x} = {y \in T : y <= x}
    BY <1>2, <1>3
  <2>2. Below(S, x) = Below(T, x)
    BY <2>1 DEF Below
  <2>3. /\ Above(S, x) \in S /\ x <= Above(S, x) /\ Above(S, x) <= m
        /\ \A y \in S : x <= y => Above(S, x) <= y
    BY <1>3, AboveFacts
  <2>4. /\ Above(T, x) \in T /\ x <= Above(T, x) /\ Above(T, x) <= m
        /\ \A y \in T : x <= y => Above(T, x) <= y
    BY <1>1, <1>3, AboveFacts
  <2>5. Above(S, x) \in Nat /\ Above(T, x) \in Nat /\ Above(S, x) # r /\ Above(T, x) # r
    <3>1. Above(S, x) \in Nat /\ Above(T, x) \in Nat
      BY <2>3, <2>4
    <3> QED
      BY <3>1, <1>1, <1>3, <2>3, <2>4
  <2>6. Above(S, x) <= Above(T, x) /\ Above(T, x) <= Above(S, x)
    BY <1>2, <2>3, <2>4, <2>5
  <2>7. Below(S, x) \in (S \ {r}) \union {0}
    <3>1. (\E a \in S : a <= x) => Below(S, x) \in S /\ Below(S, x) <= x
      BY BelowFacts
    <3>2. ~(\E a \in S : a <= x) => Below(S, x) = 0
      BY BelowFacts
    <3>3. ~ (r <= x)
      BY <1>1, <1>3
    <3> QED
      BY <3>1, <3>2, <3>3
  <2> QED
    BY <2>2, <2>3, <2>5, <2>6, <2>7
<1>4. CASE r < m /\ m <= x
  <2>1. {y \in S : y >= x} = {y \in T : y >= x}
    BY <1>1, <1>2, <1>4
  <2>2. Above(S, x) = Above(T, x)
    BY <2>1 DEF Above
  <2>3. /\ Below(S, x) \in S /\ Below(S, x) <= x /\ m <= Below(S, x)
        /\ \A y \in S : y <= x => y <= Below(S, x)
    BY <1>4, BelowFacts
  <2>4. /\ Below(T, x) \in T /\ Below(T, x) <= x /\ m <= Below(T, x)
        /\ \A y \in T : y <= x => y <= Below(T, x)
    BY <1>1, <1>4, BelowFacts
  <2>5. Below(S, x) \in Nat /\ Below(T, x) \in Nat /\ Below(S, x) # r /\ Below(T, x) # r
    <3>1. Below(S, x) \in Nat /\ Below(T, x) \in Nat
      BY <2>3, <2>4
    <3> QED
      BY <3>1, <1>1, <1>4, <2>3, <2>4
  <2>6. Below(S, x) <= Below(T, x) /\ Below(T, x) <= Below(S, x)
    BY <1>2, <2>3, <2>4, <2>5
  <2>7. Above(S, x) \in (S \ {r}) \union {0}
    <3>1. (\E a \in S : x <= a) => Above(S, x) \in S /\ x <= Above(S, x)
      BY AboveFacts
    <3>2. ~(\E a \in S : x <= a) => Above(S, x) = 0
      BY AboveFacts
    <3>3. ~ (x <= r)
      BY <1>1, <1>4
    <3> QED
      BY <3>1, <3>2, <3>3
  <2> QED
    BY <2>2, <2>3, <2>5, <2>6, <2>7
<1> QED
  BY <1>3, <1>4

\* Storing changes one row, and that row is there afterwards.
LEMMA StoredTx ==
    ASSUME RowsInv, NEW k \in TxKeys, NEW p \in Levels, StoreTx(k, p)
    PROVE  /\ rxRows' = rxRows
           /\ \A l \in TxKeys : l # k => txRows'[l] = txRows[l]
           /\ \A y \in Powers : y # Printed(p) => txRows'[k][y] = txRows[k][y]
           /\ Printed(p) \in Powers /\ txRows'[k][Printed(p)] # NoRow
<1>1. PICK row \in Measured :
         txRows' = [txRows EXCEPT ![k][Printed(p)] = Filled(row, FreqHeader(TxGrid))]
  BY DEF StoreTx
<1>2. Filled(row, FreqHeader(TxGrid)) # NoRow
  <2>1. 1 \in DOMAIN Filled(row, FreqHeader(TxGrid))
    BY MeasuredAssumption, GridAssumption DEF Filled
  <2>2. DOMAIN NoRow = {}
    BY DEF NoRow
  <2> QED
    BY <2>1, <2>2
<1>3. Printed(p) \in Powers
  BY DEF Powers
<1> QED
  BY <1>1, <1>2, <1>3 DEF RowsInv, StoreTx

LEMMA LocalTx ==
    ASSUME RowsInv, NEW k \in TxKeys, NEW p \in Levels, StoreTx(k, p),
           NEW f \in Freqs, NEW q \in Levels, Separated(k, p, q), Printed(p) # 0
    PROVE  OffsetTx(k, f, q)' = OffsetTx(k, f, q)
<1> DEFINE r == Printed(p)
           x == Printed(q)
           S == Calibrated(k)
           T == Calibrated(k)'
<1>1. r \in Nat /\ x \in Nat /\ Powers \subseteq Numbers /\ Powers \in SUBSET Nat
  BY NumberAssumption DEF Powers
<1>2. S \in SUBSET Nat /\ T \in SUBSET Nat
  BY <1>1 DEF Calibrated
<1>3. \A y \in Powers : y # r => txRows'[k][y] = txRows[k][y]
  BY StoredTx
<1>4. S \ {r} = T \ {r}
  BY <1>3 DEF Calibrated
<1>5. \E m \in S : (x <= m /\ m < r) \/ (r < m /\ m <= x)
  BY DEF Separated
<1> HIDE DEF r, x, S, T
<1>6. PICK t1, t2 : /\ t1 = Below(S, x) /\ t2 = Above(S, x)
                    /\ t1 = Below(T, x) /\ t2 = Above(T, x)
                    /\ t1 \in (S \ {r}) \union {0} /\ t2 \in (S \ {r}) \union {0}
  BY <1>1, <1>2, <1>4, <1>5, NeighboursSame
<1>7. \A t \in (S \ {r}) \union {0} : Printed(t) = t /\ t # r
  <2>1. 0 # r /\ Printed(0) = 0
    BY NumberAssumption DEF r
  <2>2. \A t \in S : Printed(t) = t
    BY CalibratedFacts DEF Exact, S
  <2> QED
    BY <2>1, <2>2
<1>8. ASSUME NEW t \in (S \ {r}) \union {0}
      PROVE  /\ HasRow(k, t)' <=> HasRow(k, t)
             /\ \A g : HasRow(k, t) => TxValue(k, t, g)' = TxValue(k, t, g)
  BY <1>3, <1>7 DEF HasRow, TxValue
<1>9. HasRow(k, t1)' <=> HasRow(k, t1)
  BY <1>6, <1>8
<1>10. HasRow(k, t2)' <=> HasRow(k, t2)
  BY <1>6, <1>8
<1>11. CASE HasRow(k, t1) /\ HasRow(k, t2)
  <2>1. /\ \A g : TxValue(k, t1, g)' = TxValue(k, t1, g)
        /\ \A g : TxValue(k, t2, g)' = TxValue(k, t2, g)
    BY <1>6, <1>8, <1>11
  <2> QED
    BY <1>6, <1>9, <1>10, <2>1, LookupSame DEF S, T, x
<1>12. CASE ~ (HasRow(k, t1) /\ HasRow(k, t2))
  <2>1. OffsetTx(k, f, q) = NoAnswer
    BY <1>6, <1>12 DEF OffsetTx, S, x
  <2>2. ~ (HasRow(k, t1)' /\ HasRow(k, t2)')
    BY <1>9, <1>10, <1>12
  <2>3. OffsetTx(k, f, q)' = NoAnswer
    BY <1>6, <2>2 DEF OffsetTx, T, x
  <2> QED
    BY <2>1, <2>3
<1> QED
  BY <1>11, <1>12

\* A calibration disturbs no lookup it has nothing to do with: not that of
\* another port, carrier or kind of row, not the receive side, and of its own key
\* only lookups with no calibrated level between them and the level stored.
THEOREM StoresLocally == Spec => StoringIsLocal
<1>1. ASSUME RowsInv, NEW k \in TxKeys, NEW p \in Levels, StoreTx(k, p)
      PROVE  /\ \A port \in DutPorts, f \in Freqs : OffsetRx(port, f)' = OffsetRx(port, f)
             /\ \A l \in TxKeys, f \in Freqs, q \in Levels :
                   l # k \/ (Separated(k, p, q) /\ Printed(p) # 0)
                       => OffsetTx(l, f, q)' = OffsetTx(l, f, q)
  BY <1>1, StoredTx, SameRowsSameLookups, SameRowSameRxLookups, LocalTx
<1>2. ASSUME RowsInv, NEW port \in DutPorts, StoreRx(port)
      PROVE  /\ \A l \in TxKeys, f \in Freqs, q \in Levels :
                   OffsetTx(l, f, q)' = OffsetTx(l, f, q)
             /\ \A other \in DutPorts \ {port}, f \in Freqs :
                   OffsetRx(other, f)' = OffsetRx(other, f)
  <2>1. /\ txRows' = txRows
        /\ \A other \in DutPorts \ {port} : rxRows'[other] = rxRows[other]
    BY <1>2 DEF StoreRx, RowsInv
  <2> QED
    BY <2>1, SameRowsSameLookups, SameRowSameRxLookups
<1>3. RowsInv /\ [Next]_vars =>
        [/\ \A k \in TxKeys, p \in Levels : StoreTx(k, p) =>
              /\ \A port \in DutPorts, f \in Freqs : OffsetRx(port, f)' = OffsetRx(port, f)
              /\ \A l \in TxKeys, f \in Freqs, q \in Levels :
                    l # k \/ (Separated(k, p, q) /\ Printed(p) # 0)
                        => OffsetTx(l, f, q)' = OffsetTx(l, f, q)
         /\ \A port \in DutPorts : StoreRx(port) =>
              /\ \A l \in TxKeys, f \in Freqs, q \in Levels :
                    OffsetTx(l, f, q)' = OffsetTx(l, f, q)
              /\ \A other \in DutPorts \ {port}, f \in Freqs :
                    OffsetRx(other, f)' = OffsetRx(other, f)]_vars
  BY <1>1, <1>2
<1> QED
  BY <1>3, RowsAlways, PTL DEF StoringIsLocal, Spec

\* What is calibrated stays calibrated.
LEMMA CalibratedStays ==
    ASSUME RowsInv, [Next]_vars
    PROVE  /\ \A k \in TxKeys : Calibrated(k) \subseteq Calibrated(k)'
           /\ \A port \in DutPorts : rxRows[port] # NoRow => rxRows'[port] # NoRow
<1>1. ASSUME NEW k \in TxKeys, NEW p \in Levels, StoreTx(k, p)
      PROVE  /\ \A l \in TxKeys : Calibrated(l) \subseteq Calibrated(l)'
             /\ rxRows' = rxRows
  BY <1>1, StoredTx DEF Calibrated
<1>2. ASSUME NEW port \in DutPorts, StoreRx(port)
      PROVE  /\ \A l \in TxKeys : Calibrated(l)' = Calibrated(l)
             /\ \A other \in DutPorts : rxRows[other] # NoRow => rxRows'[other] # NoRow
  <2>1. PICK row \in Measured :
           rxRows' = [rxRows EXCEPT ![port] = Filled(row, FreqHeader(RxGrid))]
    BY <1>2 DEF StoreRx
  <2>2. Filled(row, FreqHeader(RxGrid)) # NoRow
    <3>1. 1 \in DOMAIN Filled(row, FreqHeader(RxGrid))
      BY MeasuredAssumption, GridAssumption DEF Filled
    <3>2. DOMAIN NoRow = {}
      BY DEF NoRow
    <3> QED
      BY <3>1, <3>2
  <2> QED
    BY <1>2, <2>1, <2>2 DEF StoreRx, RowsInv, Calibrated
<1>3. CASE UNCHANGED vars
  BY <1>3 DEF vars, Calibrated
<1> QED
  BY <1>1, <1>2, <1>3 DEF Next

\* No calibration, of any port, carrier, kind or level, in any order, makes a
\* lookup fail that had an answer.
THEOREM AnswersAreKept == Spec => AnswersStay
<1>1. RowsInv => FailsOutside
  BY Failures
<1>2. ASSUME RowsInv, FailsOutside, FailsOutside', [Next]_vars,
             NEW k \in TxKeys, NEW f \in Freqs, NEW q \in Levels,
             0 \notin Points(TxGrid), 0 \notin Calibrated(k)', ~IsError(OffsetTx(k, f, q))
      PROVE  ~IsError(OffsetTx(k, f, q)')
  <2>1. Calibrated(k) \subseteq Calibrated(k)'
    BY <1>2, CalibratedStays
  <2>2. Covers(Points(TxGrid), Printed(f)) /\ Covers(Calibrated(k), Printed(q))
    BY <1>2, <2>1 DEF FailsOutside
  <2>3. Covers(Calibrated(k)', Printed(q))
    BY <2>1, <2>2 DEF Covers
  <2>4. IsError(OffsetTx(k, f, q)') <=>
           ~(Covers(Points(TxGrid), Printed(f)) /\ Covers(Calibrated(k)', Printed(q)))
    BY <1>2 DEF FailsOutside
  <2> QED
    BY <2>2, <2>3, <2>4
<1>3. ASSUME RowsInv, FailsOutside, FailsOutside', [Next]_vars, NEW port \in DutPorts, NEW f \in Freqs,
             0 \notin Points(RxGrid), ~IsError(OffsetRx(port, f))
      PROVE  ~IsError(OffsetRx(port, f)')
  <2>1. Covers(Points(RxGrid), Printed(f)) /\ rxRows[port] # NoRow
    BY <1>3 DEF FailsOutside
  <2>2. rxRows'[port] # NoRow
    BY <1>3, <2>1, CalibratedStays
  <2>3. IsError(OffsetRx(port, f)') <=>
           ~(Covers(Points(RxGrid), Printed(f)) /\ rxRows'[port] # NoRow)
    BY <1>3 DEF FailsOutside
  <2> QED
    BY <2>1, <2>2, <2>3
<1>4. RowsInv /\ FailsOutside /\ FailsOutside' /\ [Next]_vars =>
        [/\ \A k \in TxKeys, f \in Freqs, q \in Levels :
               0 \notin Points(TxGrid) /\ 0 \notin Calibrated(k)'
                   /\ ~IsError(OffsetTx(k, f, q)) => ~IsError(OffsetTx(k, f, q)')
         /\ \A port \in DutPorts, f \in Freqs :
               0 \notin Points(RxGrid) /\ ~IsError(OffsetRx(port, f))
                   => ~IsError(OffsetRx(port, f)')]_vars
  BY <1>2, <1>3
<1> QED
  BY <1>1, <1>4, RowsAlways, PTL DEF AnswersStay, Spec
-----------------------------------------------------------------------------
(* The range of the answers.                                                *)

\* lo and hi bound what is measured, and 0, which a column without a point gets.
Bounds(lo, hi) ==
    /\ lo <= 0 /\ 0 <= hi
    /\ \A row \in Measured : \A i \in 1 .. Columns : lo <= row[i] /\ row[i] <= hi

\* No answer leaves the range of what was ever measured.
AnswersBounded ==
    \A lo, hi \in Int : Bounds(lo, hi) =>
        /\ \A k \in TxKeys, f \in Freqs, p \in Levels :
              Covers(Points(TxGrid), Printed(f)) /\ Covers(Calibrated(k), Printed(p)) =>
                  LET a == OffsetTx(k, f, p)
                  IN a.d > 0 /\ lo * a.d <= a.n /\ a.n <= hi * a.d
        /\ \A port \in DutPorts, f \in Freqs :
              Covers(Points(RxGrid), Printed(f)) /\ rxRows[port] # NoRow =>
                  LET a == OffsetRx(port, f)
                  IN a.d > 0 /\ lo * a.d <= a.n /\ a.n <= hi * a.d

RowsBetween(lo, hi) == {row \in Rows : \A i \in 1 .. Columns : lo <= row[i] /\ row[i] <= hi}

RowsBounded ==
    \A lo, hi \in Int : Bounds(lo, hi) =>
        /\ \A k \in TxKeys, x \in Powers : txRows[k][x] \in RowsBetween(lo, hi) \union {NoRow}
        /\ \A port \in DutPorts : rxRows[port] \in RowsBetween(lo, hi) \union {NoRow}

LEMMA FilledBounded ==
    ASSUME NEW lo \in Int, NEW hi \in Int, Bounds(lo, hi), NEW row \in Measured, NEW num
    PROVE  Filled(row, num) \in RowsBetween(lo, hi)
<1> DEFINE filled == Filled(row, num)
<1>1. filled \in Rows
  BY FilledGood DEF GoodRows
<1>2. \A i \in 1 .. Columns : filled[i] \in {row[i], 0}
  BY DEF Filled
<1> HIDE DEF filled
<1>3. \A i \in 1 .. Columns : lo <= filled[i] /\ filled[i] <= hi
  BY <1>2 DEF Bounds
<1>4. filled \in RowsBetween(lo, hi)
  BY <1>1, <1>3 DEF RowsBetween
<1> QED
  BY <1>4 DEF filled

LEMMA RowsBoundedStep == RowsInv /\ RowsBounded /\ [Next]_vars => RowsBounded'
<1> SUFFICES ASSUME RowsInv, RowsBounded, [Next]_vars,
                    NEW lo \in Int, NEW hi \in Int, Bounds(lo, hi)
             PROVE  /\ \A k \in TxKeys, x \in Powers :
                          txRows'[k][x] \in RowsBetween(lo, hi) \union {NoRow}
                    /\ \A port \in DutPorts :
                          rxRows'[port] \in RowsBetween(lo, hi) \union {NoRow}
  BY DEF RowsBounded, Bounds, RowsBetween
<1>0. /\ \A k \in TxKeys, x \in Powers : txRows[k][x] \in RowsBetween(lo, hi) \union {NoRow}
      /\ \A port \in DutPorts : rxRows[port] \in RowsBetween(lo, hi) \union {NoRow}
  BY DEF RowsBounded
<1>1. ASSUME NEW k \in TxKeys, NEW p \in Levels, StoreTx(k, p)
      PROVE  /\ \A l \in TxKeys, x \in Powers :
                   txRows'[l][x] \in RowsBetween(lo, hi) \union {NoRow}
             /\ rxRows' = rxRows
  <2>1. PICK row \in Measured :
           txRows' = [txRows EXCEPT ![k][Printed(p)] = Filled(row, FreqHeader(TxGrid))]
    BY <1>1 DEF StoreTx
  <2>2. Filled(row, FreqHeader(TxGrid)) \in RowsBetween(lo, hi)
    BY FilledBounded
  <2> QED
    BY <1>0, <1>1, <2>1, <2>2 DEF RowsInv, StoreTx
<1>2. ASSUME NEW port \in DutPorts, StoreRx(port)
      PROVE  /\ \A other \in DutPorts : rxRows'[other] \in RowsBetween(lo, hi) \union {NoRow}
             /\ txRows' = txRows
  <2>1. PICK row \in Measured :
           rxRows' = [rxRows EXCEPT ![port] = Filled(row, FreqHeader(RxGrid))]
    BY <1>2 DEF StoreRx
  <2>2. Filled(row, FreqHeader(RxGrid)) \in RowsBetween(lo, hi)
    BY FilledBounded
  <2> QED
    BY <1>0, <1>2, <2>1, <2>2 DEF RowsInv, StoreRx
<1>3. CASE UNCHANGED vars
  BY <1>0, <1>3 DEF vars
<1> QED
  BY <1>0, <1>1, <1>2, <1>3 DEF Next

LEMMA BoundedAnswers == RowsInv /\ RowsBounded => AnswersBounded
<1> SUFFICES ASSUME RowsInv, RowsBounded, NEW lo \in Int, NEW hi \in Int, Bounds(lo, hi)
             PROVE  /\ \A k \in TxKeys, f \in Freqs, p \in Levels :
                          Covers(Points(TxGrid), Printed(f))
                              /\ Covers(Calibrated(k), Printed(p)) =>
                          LET a == OffsetTx(k, f, p)
                          IN a.d > 0 /\ lo * a.d <= a.n /\ a.n <= hi * a.d
                    /\ \A port \in DutPorts, f \in Freqs :
                          Covers(Points(RxGrid), Printed(f)) /\ rxRows[port] # NoRow =>
                          LET a == OffsetRx(port, f)
                          IN a.d > 0 /\ lo * a.d <= a.n /\ a.n <= hi * a.d
  BY DEF AnswersBounded
<1>1. ASSUME NEW k \in TxKeys, NEW t \in Calibrated(k), NEW g \in Points(TxGrid)
      PROVE  lo <= TxValue(k, t, g) /\ TxValue(k, t, g) <= hi
  <2>1. txRows[k][Printed(t)] # NoRow /\ Printed(t) \in Powers
    BY CalibratedFacts DEF HasRow
  <2>2. txRows[k][Printed(t)] \in RowsBetween(lo, hi)
    BY <2>1 DEF RowsBounded
  <2>3. IdOf(TxGrid, g) \in 1 .. Columns
    BY IdFacts
  <2> QED
    BY <2>2, <2>3 DEF TxValue, RowsBetween
<1>2. ASSUME NEW port \in DutPorts, rxRows[port] # NoRow, NEW g \in Points(RxGrid)
      PROVE  lo <= RxValue(port, g) /\ RxValue(port, g) <= hi
  <2>1. rxRows[port] \in RowsBetween(lo, hi)
    BY <1>2 DEF RowsBounded
  <2>2. IdOf(RxGrid, g) \in 1 .. Columns
    BY IdFacts
  <2> QED
    BY <2>1, <2>2 DEF RxValue, RowsBetween
<1>3. ASSUME NEW k \in TxKeys, NEW f \in Freqs, NEW p \in Levels,
             Covers(Points(TxGrid), Printed(f)), Covers(Calibrated(k), Printed(p))
      PROVE  LET a == OffsetTx(k, f, p)
             IN a.d > 0 /\ lo * a.d <= a.n /\ a.n <= hi * a.d
  <2> DEFINE f1 == Below(Points(TxGrid), Printed(f))
             f2 == Above(Points(TxGrid), Printed(f))
             t1 == Below(Calibrated(k), Printed(p))
             t2 == Above(Calibrated(k), Printed(p))
  <2>1. f \in Numbers /\ p \in Numbers
    BY NumberAssumption
  <2>2. f1 \in Points(TxGrid) /\ f2 \in Points(TxGrid)
    BY <1>3, <2>1, GridFacts, PrintedInterval
  <2>3. t1 \in Calibrated(k) /\ t2 \in Calibrated(k)
    BY <1>3, <2>1, CalibratedFacts, PrintedInterval
  <2>4. \A t \in {t1, t2} : \A g \in {f1, f2} : lo <= TxValue(k, t, g) /\ TxValue(k, t, g) <= hi
    BY <1>1, <2>2, <2>3
  <2> HIDE DEF f1, f2, t1, t2
  <2> QED
    BY <1>3, <2>4, LookupTx DEF f1, f2, t1, t2
<1>4. ASSUME NEW port \in DutPorts, NEW f \in Freqs,
             Covers(Points(RxGrid), Printed(f)), rxRows[port] # NoRow
      PROVE  LET a == OffsetRx(port, f)
             IN a.d > 0 /\ lo * a.d <= a.n /\ a.n <= hi * a.d
  <2> DEFINE f1 == Below(Points(RxGrid), Printed(f))
             f2 == Above(Points(RxGrid), Printed(f))
  <2>1. f \in Numbers
    BY NumberAssumption
  <2>2. f1 \in Points(RxGrid) /\ f2 \in Points(RxGrid)
    BY <1>4, <2>1, GridFacts, PrintedInterval
  <2>3. \A g \in {f1, f2} : lo <= RxValue(port, g) /\ RxValue(port, g) <= hi
    BY <1>2, <1>4, <2>2
  <2> HIDE DEF f1, f2
  <2> QED
    BY <1>4, <2>3, LookupRx DEF f1, f2
<1> QED
  BY <1>3, <1>4

\* Interpolating twice, over frequency and level, never gives an offset beyond
\* those measured: what the transmit models take for the range of the offsets is
\* the range of the measurements.
THEOREM AnswersInRange == Spec => []AnswersBounded
<1>1. Init => RowsBounded
  BY DEF Init, RowsBounded
<1> QED
  BY <1>1, RowsInit, RowsStep, RowsBoundedStep, BoundedAnswers, PTL DEF Spec
=============================================================================

------------------------------ MODULE OffsetDB ------------------------------
(***************************************************************************)
(* The calibration database of one band: the tables of frequencies TX_<band>  *)
(* and RX_<band>, which the library only reads, the rows of offsets that      *)
(* calibrations store, and the interpolated lookups.                          *)
(*                                                                          *)
(* Numbers are integers in one unit.  A lookup's value is a fraction          *)
(* [n |-> numerator, d |-> denominator].  SQL's NULL, the maximum of no row,  *)
(* reads as 0.  Numbers go into a query with six digits: Printed.             *)
(***************************************************************************)
EXTENDS Integers, FiniteSets, Sequences

CONSTANTS
    Numbers,        \* the numbers that occur in queries
    Printed(_),     \* a number as it appears in a query
    TxGrid,         \* TX_<band>, a value for every ID; 0 where a row is blank
    RxGrid,         \* RX_<band>
    Columns,        \* value columns of the tables of offsets
    MaxNum,         \* size of the caller's array of frequencies
    TxKeys,         \* port, carrier and kind (real or detector) of a row
    DutPorts,
    Freqs,          \* frequencies that are looked up
    Levels,         \* levels that are calibrated or looked up
    Measured        \* what a calibration may measure, as printed

JCOFFSET_ERROR == -10000

Points(grid) == {grid[i] : i \in DOMAIN grid}

\* FreqHeader: the points up to the first blank one.
FreqHeader(grid) ==
    Cardinality({i \in DOMAIN grid : i <= MaxNum /\ \A j \in 1 .. i : grid[j] # 0})

NoRow == <<>>
Rows == [1 .. Columns -> Int]

\* Levels as rows hold them.
Powers == {Printed(p) : p \in Levels}

ASSUME NumberAssumption ==
    /\ Numbers \subseteq Nat /\ Freqs \subseteq Numbers /\ Levels \subseteq Numbers
    /\ 0 \in Numbers /\ Printed(0) = 0
    /\ \A x \in Numbers : Printed(x) \in Numbers /\ Printed(Printed(x)) = Printed(x)
    /\ \A x, y \in Numbers : x <= y => Printed(x) <= Printed(y)
\* The points of the tables have at most six digits, so that a query finds them.
ASSUME GridAssumption ==
    /\ \A grid \in {TxGrid, RxGrid} :
          /\ grid \in Seq(Numbers) /\ Len(grid) <= Columns
          /\ \A x \in Points(grid) : Printed(x) = x
    /\ Columns \in Nat \ {0} /\ MaxNum \in Nat
\* A value for every column.  What is measured cannot be taken for an error.
ASSUME MeasuredAssumption ==
    \A row \in Measured :
        /\ row \in [1 .. Columns -> Int]
        /\ \A i \in 1 .. Columns : row[i] > JCOFFSET_ERROR

VARIABLES
    txRows,     \* JC_TX_OFFSET_ALL
    rxRows      \* JC_RX_OFFSET_ALL

vars == <<txRows, rxRows>>

-----------------------------------------------------------------------------
(* Storing: Store_v2.  When the statement fails nothing changes.            *)

\* Mutation: a column that is not named has no value.
FilledShort(row, num) == [i \in 1 .. num |-> row[i]]
\* "insert or replace" names the first num columns, but always the first one; a
\* column that is not named gets its default.
Filled(row, num) == [i \in 1 .. Columns |-> IF i = 1 \/ i <= num THEN row[i] ELSE 0]

StoreTx(k, p) ==
    /\ \E row \in Measured :
          txRows' = [txRows EXCEPT ![k][Printed(p)] = Filled(row, FreqHeader(TxGrid))]
    /\ UNCHANGED rxRows

StoreRx(port) ==
    /\ \E row \in Measured :
          rxRows' = [rxRows EXCEPT ![port] = Filled(row, FreqHeader(RxGrid))]
    /\ UNCHANGED txRows

-----------------------------------------------------------------------------
(* Looking up.                                                              *)

Null == 0
Largest(S) == IF S = {} THEN Null ELSE CHOOSE x \in S : \A y \in S : y <= x
Smallest(S) == IF S = {} THEN Null ELSE CHOOSE x \in S : \A y \in S : x <= y

Below(S, x) == Largest({y \in S : y <= x})
\* Mutation: the interval is half open.
AboveStrictly(S, x) == Smallest({y \in S : y > x})
Above(S, x) == Smallest({y \in S : y >= x})

\* Mutation: the sign of the intercept's second term.
SumSlopeUnsigned(v, x1, y1, x2, y2) ==
    IF x1 = x2 THEN [n |-> y1, d |-> 1]
    ELSE [n |-> (y2 - y1) * v + (y1 * x2 + y2 * x1), d |-> x2 - x1]
\* The line through two points.
SumSlope(v, x1, y1, x2, y2) ==
    IF x1 = x2 THEN [n |-> y1, d |-> 1]
    ELSE [n |-> (y2 - y1) * v + (y1 * x2 - y2 * x1), d |-> x2 - x1]

NoAnswer == [n |-> JCOFFSET_ERROR, d |-> 1]
IsError(a) == a.n = JCOFFSET_ERROR * a.d

\* The first ID of a frequency, and whether it has one.
Ids(grid, f) == {i \in DOMAIN grid : grid[i] = Printed(f)}
IdOf(grid, f) == CHOOSE i \in Ids(grid, f) : \A j \in Ids(grid, f) : i <= j

HasRow(k, p) == Printed(p) \in Powers /\ txRows[k][Printed(p)] # NoRow

\* Mutation: the query does not ask for the kind of row.
CalibratedAnyKey(k) == {p \in Powers : \E l \in TxKeys : txRows[l][p] # NoRow}
\* The levels with a row for k.
Calibrated(k) == {p \in Powers : txRows[k][p] # NoRow}

TxValue(k, p, f) == txRows[k][Printed(p)][IdOf(TxGrid, f)]

OffsetTx(k, f, p) ==
    LET f1 == Below(Points(TxGrid), Printed(f))
        f2 == Above(Points(TxGrid), Printed(f))
        tx1 == Below(Calibrated(k), Printed(p))
        tx2 == Above(Calibrated(k), Printed(p))
        offset1 == SumSlope(f, f1, TxValue(k, tx1, f1), f2, TxValue(k, tx1, f2))
        offset2 == SumSlope(f, f1, TxValue(k, tx2, f1), f2, TxValue(k, tx2, f2))
        s == SumSlope(p, tx1, offset1.n, tx2, offset2.n)
    IN IF /\ Ids(TxGrid, f1) # {} /\ Ids(TxGrid, f2) # {}
          /\ HasRow(k, tx1) /\ HasRow(k, tx2)
       THEN [n |-> s.n, d |-> s.d * offset1.d]
       ELSE NoAnswer

RxValue(port, f) == rxRows[port][IdOf(RxGrid, f)]

OffsetRx(port, f) ==
    LET f1 == Below(Points(RxGrid), Printed(f))
        f2 == Above(Points(RxGrid), Printed(f))
    IN IF Ids(RxGrid, f1) # {} /\ Ids(RxGrid, f2) # {} /\ rxRows[port] # NoRow
       THEN SumSlope(f, f1, RxValue(port, f1), f2, RxValue(port, f2))
       ELSE NoAnswer

-----------------------------------------------------------------------------
Init ==
    /\ txRows = [k \in TxKeys |-> [p \in Powers |-> NoRow]]
    /\ rxRows = [port \in DutPorts |-> NoRow]

Next ==
    \/ \E k \in TxKeys, p \in Levels : StoreTx(k, p)
    \/ \E port \in DutPorts : StoreRx(port)

Spec == Init /\ [][Next]_vars

-----------------------------------------------------------------------------
(* Properties.                                                              *)

\* Types: every row has all its columns.
TypeOK ==
    /\ txRows \in [TxKeys -> [Powers -> Rows \union {NoRow}]]
    /\ rxRows \in [DutPorts -> Rows \union {NoRow}]

Equals(a, x) == a.d > 0 /\ a.n = x * a.d
Within(a, X) == a.d > 0 /\ \E lo, hi \in X : lo * a.d <= a.n /\ a.n <= hi * a.d

\* No member of S lies strictly between its members a and b.
Adjacent(S, a, b) ==
    /\ a \in S /\ b \in S /\ a <= b
    /\ \A x \in S : x <= a \/ b <= x
Around(S, x) == {ab \in S \X S : Adjacent(S, ab[1], ab[2]) /\ ab[1] <= x /\ x <= ab[2]}
Covers(S, x) == (\E a \in S : a <= x) /\ (\E b \in S : x <= b)

\* A lookup at a calibrated point and level returns the offset that was stored
\* for exactly this point, first and last ones included, although the point is
\* searched as an interval and its value by column number.
ExactWhereCalibrated ==
    /\ \A k \in TxKeys, i \in DOMAIN TxGrid, p \in Levels :
          i = IdOf(TxGrid, TxGrid[i]) /\ HasRow(k, p) /\ Printed(p) = p
              => Equals(OffsetTx(k, TxGrid[i], p), txRows[k][p][i])
    /\ \A port \in DutPorts, i \in DOMAIN RxGrid :
          i = IdOf(RxGrid, RxGrid[i]) /\ rxRows[port] # NoRow
              => Equals(OffsetRx(port, RxGrid[i]), rxRows[port][i])

\* The values stored at the corners of an interval of frequencies and one of levels.
Corners(k, fs, ps) == {TxValue(k, ps[i], fs[j]) : i, j \in {1, 2}}

\* Inside the calibrated range a lookup interpolates between neighbours of the
\* frequency and level asked for, also when printing rounds one of them across a
\* point of the table: it never extrapolates.
BetweenNeighbours ==
    /\ \A k \in TxKeys, f \in Freqs, p \in Levels :
          Covers(Points(TxGrid), f) /\ Covers(Calibrated(k), p)
              => \E fs \in Around(Points(TxGrid), f), ps \in Around(Calibrated(k), p) :
                    Within(OffsetTx(k, f, p), Corners(k, fs, ps))
    /\ \A port \in DutPorts, f \in Freqs :
          Covers(Points(RxGrid), f) /\ rxRows[port] # NoRow
              => \E fs \in Around(Points(RxGrid), f) :
                    Within(OffsetRx(port, f), {RxValue(port, fs[j]) : j \in {1, 2}})

\* Outside the calibrated range a lookup fails, although the empty maximum reads
\* as 0, unless 0 is itself in the table: a blank frequency or a calibration at
\* 0 dBm.  Inside, what was measured is never taken for a failure.
FailsOutside ==
    /\ \A k \in TxKeys, f \in Freqs, p \in Levels :
          0 \notin Points(TxGrid) /\ 0 \notin Calibrated(k)
              => (IsError(OffsetTx(k, f, p))
                     <=> ~(Covers(Points(TxGrid), Printed(f))
                              /\ Covers(Calibrated(k), Printed(p))))
    /\ \A port \in DutPorts, f \in Freqs :
          0 \notin Points(RxGrid)
              => (IsError(OffsetRx(port, f))
                     <=> ~(Covers(Points(RxGrid), Printed(f)) /\ rxRows[port] # NoRow))
=============================================================================

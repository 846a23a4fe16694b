---------------------------- MODULE HilbertCode -----------------------------
(***************************************************************************)
(* DataStructures/HilbertValue.cpp: the position of a coordinate on a      *)
(* Hilbert curve, by which the R-tree is packed.                           *)
(***************************************************************************)
EXTENDS Bitwise, Integers, SequencesExt, FiniteSetsExt

CONSTANTS
    HilbertBits,    \* width of a coordinate, 32 in the program
    LatShift,       \* 90 and 180 degrees: they make
    LonShift        \* every coordinate unsigned

\* The values of Q in the loops: M, M / 2, ..., 2.
QValues == [i \in 1 .. HilbertBits - 1 |-> 2 ^ (HilbertBits - i)]

Has(x, Q) == (x & Q) # 0

\* One step of the "inverse undo" for coordinate i: invert low bits of X[1] or exchange.
UndoStep(X, i, Q) ==
    IF Has(X[i], Q) THEN [X EXCEPT ![1] = @ ^^ (Q - 1)]
    ELSE LET t == (X[1] ^^ X[i]) & (Q - 1)
             Y == [X EXCEPT ![1] = @ ^^ t]
         IN [Y EXCEPT ![i] = @ ^^ t]

GrayEncode(X) == [X EXCEPT ![2] = @ ^^ X[1]]

\* What the last loop ("check if this for loop is wrong") computes.
Correction(X) == FoldLeft(LAMBDA t, Q : IF Has(X[2], Q) THEN t ^^ (Q - 1) ELSE t, 0, QValues)

TransposeCoordinate(location) ==
    LET undone == FoldLeft(LAMBDA X, Q : UndoStep(UndoStep(X, 1, Q), 2, Q), location, QValues)
        gray == GrayEncode(undone)
        t == Correction(gray)
    IN <<gray[1] ^^ t, gray[2] ^^ t>>

\* Bits of latitude and longitude in turn, the highest first.
BitInterleaving(latitude, longitude) ==
    LET bit(x, index) == (x \div 2 ^ index) % 2
    IN FoldLeft(LAMBDA result, index : 4 * result + 2 * bit(latitude, index) + bit(longitude, index),
                0, [i \in 1 .. HilbertBits |-> HilbertBits - i])

\* The sums are unsigned numbers.
get_hilbert_number(coordinate) ==
    LET X == TransposeCoordinate(<<(coordinate.lat + LatShift) % 2 ^ HilbertBits,
                                   (coordinate.lon + LonShift) % 2 ^ HilbertBits>>)
    IN BitInterleaving(X[1], X[2])

-----------------------------------------------------------------------------
\* The code is a Hilbert curve: it numbers all cells of the grid, and the cells of
\* consecutive numbers are neighbours, so that a leaf holds what lies close together.
IsHilbertCurve ==
    LET Side(shift) == -shift .. 2 ^ HilbertBits - 1 - shift
        coded == {<<get_hilbert_number(c), c>> : c \in [lat : Side(LatShift), lon : Side(LonShift)]}
    IN /\ {x[1] : x \in coded} = 0 .. 4 ^ HilbertBits - 1
       /\ \A x, y \in coded : y[1] = x[1] + 1 =>
            (x[2].lat - y[2].lat) ^ 2 + (x[2].lon - y[2].lon) ^ 2 = 1
=============================================================================

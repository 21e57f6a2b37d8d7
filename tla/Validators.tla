----------------------------- MODULE Validators -----------------------------
(***************************************************************************)
(* The integer part of the statistical validators: what each one counts in *)
(* a sample before it turns the counts into a p-value or an estimate.      *)
(* A sample is a sequence of bytes; bits are numbered from 1.              *)
(***************************************************************************)
EXTENDS Integers, Sequences, SequencesExt, FiniteSets

Larger(a, b) == IF a > b THEN a ELSE b

Smaller(a, b) == IF a > b THEN b ELSE a

\* Go's integer division truncates towards zero.
Quot(a, b) == IF a >= 0 THEN a \div b ELSE -((-a) \div b)

-----------------------------------------------------------------------------
(* bits.go                                                                 *)

\* Most significant bit first.
ToBits(data) ==
  [k \in 1..(8 * Len(data)) |->
     (data[(k - 1) \div 8 + 1] \div 2 ^ (7 - ((k - 1) % 8))) % 2]

countOnes(bits) == FoldLeft(+, 0, bits)

-----------------------------------------------------------------------------
(* Counts over bytes: validators.go, minentropy.go, structure.go           *)

Freq(data) == [b \in ToSet(data) |-> Cardinality({i \in DOMAIN data : data[i] = b})]

MostCommonValue(data) == FoldFunction(Larger, 0, Freq(data))

DistinctByteValues(data) == Cardinality(ToSet(data))

CountRepetitions(data) == Cardinality({i \in 2..Len(data) : data[i] = data[i - 1]})

\* The ones at each of the 8 positions of a byte.
BitBiasCounts(data) ==
  [pos \in 1..8 |->
     Cardinality({k \in DOMAIN ToBits(data) : ((k - 1) % 8) + 1 = pos /\ ToBits(data)[k] = 1})]

\* The pairs of bits at distance lag that agree.
Agreements(bits, lag) ==
  Cardinality({i \in 1..(Len(bits) - lag) : bits[i] = bits[i + lag]})

-----------------------------------------------------------------------------
(* nist.go                                                                 *)

Runs(bits) == 1 + Cardinality({i \in 2..Len(bits) : bits[i] # bits[i - 1]})

\* The block length of the block frequency test (runNIST).
BlockLength(n) == IF n < 128 THEN 8 ELSE 128

Blocks(n, m) == IF n < m THEN 0 ELSE n \div m

BlockOnes(bits, m) ==
  [b \in 1..Blocks(Len(bits), m) |->
     countOnes(SubSeq(bits, (b - 1) * m + 1, b * m))]

\* Block length, number of blocks and the runs that have a bin of their own.
Tier(n) ==
  IF n < 6272 THEN [m |-> 8, blocks |-> 16, v |-> <<1, 2, 3, 4>>]
              ELSE [m |-> 128, blocks |-> 49, v |-> <<4, 5, 6, 7, 8, 9>>]

\* The run of ones that ends at the last bit, and the longest one seen.
LongestRun(block) ==
  FoldLeft(LAMBDA r, b : LET cur == IF b = 1 THEN r.cur + 1 ELSE 0
                         IN  [cur |-> cur, runs |-> Larger(cur, r.runs)],
           [cur |-> 0, runs |-> 0], block).runs

\* Bins are numbered from 1; what lies between the tabulated runs, or above, is
\* in the last one.
RunBin(run, v) ==
  IF run <= v[1] THEN 1
  ELSE IF \E j \in 2..(Len(v) - 1) : run = v[j]
       THEN CHOOSE j \in 2..(Len(v) - 1) : run = v[j]
       ELSE Len(v)

MutantExtended(bits, m) == bits \o [i \in 1..(m - 1) |-> 0]

\* The bit stream, continued circularly by m - 1 bits.
Extended(bits, m) == bits \o SubSeq(bits, 1, m - 1)

\* How often each m-bit pattern starts at one of the bits (apEnPhi, serialPsi2).
PatternCounts(bits, m) ==
  LET at == [i \in DOMAIN bits |-> SubSeq(Extended(bits, m), i, i + m - 1)]
  IN  [p \in ToSet(at) |-> Cardinality({i \in DOMAIN at : at[i] = p})]

\* The sum over the patterns of serialPsi2.  What the code goes on to compute from it,
\* psi^2 = 2^m * sum / n - n and the differences of psi^2, is float64 and not modelled:
\* a difference that is exactly 0 may come out slightly negative, and its p-value NaN.
SquareSum(counts) == FoldFunction(LAMBDA x, acc : x * x + acc, 0, counts)

\* The pattern length of the serial test: the last of 3..16 that fits.
SerialLength(n) ==
  FoldLeft(LAMBDA m, mm : IF 2 * mm * 2 ^ mm <= n /\ 2 ^ (mm - 2) <= n THEN mm ELSE m,
           3, [i \in 1..14 |-> i + 2])

MutantExcursions(bits) ==
  LET walk == FoldLeft(LAMBDA w, b : LET s == w.sum + (IF b = 1 THEN 1 ELSE -1)
                                     IN  [sum |-> s, sup |-> Larger(w.sup, s),
                                          inf |-> Smaller(w.inf, s)],
                       [sum |-> 0, sup |-> 0, inf |-> 0], bits)
  IN  [forward |-> Larger(walk.sup, -walk.inf),
       reverse |-> Larger(walk.sup - walk.sum, -walk.inf)]

\* The largest excursions of the cumulative sums, forward and reverse; one pass.
Excursions(bits) ==
  LET walk == FoldLeft(LAMBDA w, b : LET s == w.sum + (IF b = 1 THEN 1 ELSE -1)
                                     IN  [sum |-> s, sup |-> Larger(w.sup, s),
                                          inf |-> Smaller(w.inf, s)],
                       [sum |-> 0, sup |-> 0, inf |-> 0], bits)
  IN  [forward |-> Larger(walk.sup, -walk.inf),
       reverse |-> Larger(walk.sup - walk.sum, walk.sum - walk.inf)]

\* The terms of the two sums of cumulativeSumsP.
Sum1Terms(n, z) == Quot(-(n \div z) + 1, 4)..Quot((n \div z) - 1, 4)

Sum2Terms(n, z) == Quot(-(n \div z) - 3, 4)..Quot((n \div z) - 1, 4)

-----------------------------------------------------------------------------
(* How many of a sample's first bits the two block tests read.  An index   *)
(* beyond the sample would panic in a goroutine of the fan-in, where no    *)
(* recovery middleware catches it.                                         *)

BlockFrequencyReads(n) == Blocks(n, BlockLength(n)) * BlockLength(n)

LongestRunReads(n) == IF n < 128 THEN 0 ELSE Tier(n).blocks * Tier(n).m

=============================================================================

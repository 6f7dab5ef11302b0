-------------------------------- MODULE Cost --------------------------------
(***************************************************************************)
(* Economic quantities (src/cost.cpp): prices that carry the provenance of *)
(* their evidence, and the fixed-width arithmetic on them.                 *)
(*                                                                         *)
(* A price is a record [source, micro_units]; micro_units is an int64_t,   *)
(* whose range is MinInt .. MaxInt.  A size is a record [known, bytes].    *)
(***************************************************************************)
EXTENDS Integers

CONSTANTS MaxInt,   \* std::numeric_limits<std::int64_t>::max()
          Mib       \* bytes that a unit price is quoted for

ASSUME CostAssumption == /\ MaxInt \in Nat \ {0}
                         /\ Mib \in Nat \ {0}

MinInt == -MaxInt - 1
Int64 == MinInt .. MaxInt
MaxUint == 2 * MaxInt + 1

CostSource == {"UNKNOWN", "MEASURED", "POLICY", "ESTIMATED"}
CostValue == [source: CostSource, micro_units: Int64]
known(value) == value.source # "UNKNOWN"
unknown == [source |-> "UNKNOWN", micro_units |-> 0]
Price(source, micro_units) == [source |-> source, micro_units |-> micro_units]

\* Weaker evidence has the lower rank.
source_rank(source) == CASE source = "MEASURED"  -> 3
                         [] source = "POLICY"    -> 2
                         [] source = "ESTIMATED" -> 1
                         [] OTHER                -> 0

\* C++ integer division rounds toward zero.
Quotient(a, b) == IF a >= 0 THEN a \div b ELSE -((-a) \div b)

\* Two's complement representation of an integer that does not fit.
Wrap(x) == ((x + MaxInt + 1) % (MaxUint + 1)) - MaxInt - 1
Clamp(x) == IF x > MaxInt THEN MaxInt ELSE IF x < MinInt THEN MinInt ELSE x

saturating_add(a, b) == Clamp(a + b)

\* The product is computed before it is tested, and its overflow is undefined
\* in C++.  A build that keeps the test clamps it; an optimizing one folds
\* product / b to a, drops the test and returns what the multiplication left.
Build == {"tests overflow", "folds the test"}
saturating_mul(build, a, b) ==
  IF build = "tests overflow" \/ (a = -1 /\ b = MinInt) \/ (b = -1 /\ a = MinInt)
    THEN Clamp(a * b)
    ELSE Wrap(a * b)

cost_add(a, b) ==
  IF ~known(a) \/ ~known(b)
    THEN unknown
    ELSE Price(IF source_rank(a.source) <= source_rank(b.source) THEN a.source ELSE b.source,
               saturating_add(a.micro_units, b.micro_units))

\* A component with neither provenance nor magnitude counts as not applicable.
Present(a) == known(a) \/ a.micro_units # 0
cost_sum(a, b) == IF ~Present(a) THEN b ELSE IF ~Present(b) THEN a ELSE cost_add(a, b)

Magnitude(a) == IF a < 0 THEN -a ELSE a

\* Faulty variant: the scaled price is not tested for overflow.
ScaleWrapping(value, numerator, denominator) ==
  IF ~known(value) \/ denominator = 0
    THEN unknown
    ELSE Price(value.source, Quotient(Wrap(value.micro_units * numerator), denominator))

cost_scale(value, numerator, denominator) ==
  IF \/ ~known(value)
     \/ denominator = 0
     \/ numerator # 0 /\ Magnitude(value.micro_units) > MaxInt \div numerator
    THEN unknown
    ELSE Price(value.source, Quotient(value.micro_units * numerator, denominator))

\* Negative: a is cheaper; positive: a is worse.  UNKNOWN is worse than any
\* price, and of two equal prices the one with weaker evidence is worse.
cost_compare(a, b) ==
  CASE ~known(a) /\ ~known(b)           -> 0
    [] ~known(a) /\ known(b)            -> 1
    [] known(a) /\ ~known(b)            -> -1
    [] OTHER ->
         IF a.micro_units # b.micro_units
           THEN IF a.micro_units < b.micro_units THEN -1 ELSE 1
           ELSE LET stronger == source_rank(a.source) - source_rank(b.source)
                IN  IF stronger = 0 THEN 0 ELSE IF stronger > 0 THEN -1 ELSE 1

\* Expected reuse: a count times a probability in thousandths, as a uint64_t.
ReuseValue == [source: CostSource, count: Nat, per_mille: Nat]
NoReuse == [source |-> "UNKNOWN", count |-> 0, per_mille |-> 0]
expected_value_milli(reuse) ==
  IF reuse.count * reuse.per_mille > MaxUint THEN MaxUint ELSE reuse.count * reuse.per_mille

SizeValue == [known: BOOLEAN, bytes: Nat]
Size(bytes) == [known |-> TRUE, bytes |-> bytes]
NoSize == [known |-> FALSE, bytes |-> 0]

\* A policy's unit price applied to a size.
price_bytes(source, micro_per_mib, size) ==
  IF source = "UNKNOWN" THEN unknown
  ELSE IF micro_per_mib = 0 THEN Price(source, 0)
  ELSE IF ~size.known THEN unknown
  ELSE cost_scale(Price(source, micro_per_mib), size.bytes, Mib)
=============================================================================

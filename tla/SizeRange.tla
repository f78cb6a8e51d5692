------------------------------ MODULE SizeRange ------------------------------
(***************************************************************************)
(* Range from the text of --range on: the text is read by SizeText, and    *)
(* what it says goes the way of Range.  What was meant by a text is kept   *)
(* beside it, as the two sizes it was put together from, and the sizes     *)
(* that are read are compared with the exact value of those.               *)
(***************************************************************************)
EXTENDS Range, Sequences, FiniteSets

CONSTANTS
  ExpMax, Cutoff, Decimal, Binary,   \* of SizeText
  Inputs                             \* families of ranges, and the lengths of their files

INSTANCE SizeText

\* A size as it is meant: digits, a point and digits, an exponent, a unit.
Absent == [int |-> <<>>, frac |-> <<>>, exp |-> <<>>, unit |-> <<>>]

SizeOf(s) == s.int \o s.frac \o s.exp \o s.unit
TextOf(w) == SizeOf(w.left) \o w.delim \o SizeOf(w.right)

Figures    == {Digits[n] : n \in 1 .. 10} \cup {"_"}
Wrong      == {" ", "x"}     \* in no size; "x" is any other character
Text       == Seq(Figures \cup Wrong \cup Prefixes \cup {"b", "i", ".", "-", "+", ","})
Units      == {prefix \o i \o b : prefix \in {<<>>, <<"k">>, <<"e">>}, i \in {<<>>, <<"i">>},
                                 b \in {<<>>, <<"b">>}}
Delimiters == {<<>>, <<"-">>, <<".", ".">>, <<",">>}

\* What can be written as a size, its mistakes included.  ("e" alone is a unit,
\* no exponent; spaces at the ends are trimmed.)  No text is as long as the
\* largest exponent.
IsSide(s) ==
  /\ s \in [int : Text, frac : Text, exp : Text, unit : Units]
  /\ \A n \in DOMAIN s.int  : s.int[n] \in Figures \cup Wrong
  /\ \A n \in DOMAIN s.frac : s.frac[n] \in IF n = 1 THEN {"."} ELSE Figures \cup Wrong
  /\ \A n \in DOMAIN s.exp  : s.exp[n] \in CASE n = 1 -> {"e"}
                                            [] n = 2 -> Figures \cup Wrong \cup {"+", "-"}
                                            [] n > 2 -> Figures \cup Wrong
  /\ Len(s.exp) # 1
  /\ SizeOf(s) # <<>> => SizeOf(s)[1] # " " /\ ~EndsIn(SizeOf(s), {" "})
  /\ 10 * (Len(s.int) + Cutoff + 2) <= ExpMax /\ Len(s.frac) + Cutoff <= ExpMax

\* No power of ten beyond Cutoff leaves anything of a size.
ASSUME SizeRangeAssumption ==
  /\ {Decimal, Binary} \subseteq 1 .. Max /\ {ExpMax, Cutoff} \subseteq Nat
  /\ 2 * Max * Binary < Pow10[Cutoff + 1] /\ 2 * Max * Decimal < Pow10[Cutoff + 1]
  /\ \A f \in DOMAIN Inputs :
       /\ \A s \in Inputs[f].left \cup Inputs[f].right : IsSide(s)
       /\ Inputs[f].delim \subseteq Delimiters /\ Inputs[f].fileLen \subseteq U64

VARIABLE written     \* the range as it is meant: left, delim, right

Unwritten == [left |-> Absent, delim |-> <<>>, right |-> Absent]

\* Nothing is asked for before the text is read.
TextInit ==
  \/ Init /\ ~cli /\ written = Unwritten
  \/ /\ cli = TRUE /\ pc = "read"
     /\ \E f \in DOMAIN Inputs :
          /\ written \in [left : Inputs[f].left, delim : Inputs[f].delim, right : Inputs[f].right]
          /\ fileLen \in Inputs[f].fileLen
     /\ start = 0 /\ end = 0 /\ offset = 0 /\ maxLen = None
     /\ len = 0 /\ status = "none"

\* from_str takes the place of Range's Parse: it is the same check of the order
\* after the two sizes have been read.
Read ==
  /\ pc = "read"
  /\ LET range == FromStr(TextOf(written), None)
     IN  \/ range.error # "none" /\ Stop(range.error)
         \/ /\ range.error = "none"
            /\ start' = range.start /\ end' = range.end
            /\ pc' = "setup"
            /\ UNCHANGED <<cli, fileLen, offset, maxLen, len, status>>

TextNext == (Read \/ Setup \/ Validate \/ Resolve) /\ UNCHANGED written

TextSpec == TextInit /\ [][TextNext]_<<vars, written>>

-----------------------------------------------------------------------------
\* What a size says: the digits and the exponent, as numbers.

HasDigit(t) == \E n \in DOMAIN t : IsDigit(t[n])

WellFormed(s) ==
  /\ HasDigit(s.int) /\ (s.exp # <<>> => HasDigit(s.exp))
  /\ \A n \in DOMAIN SizeOf(s) : SizeOf(s)[n] \notin Wrong

NumberOf(t) ==
  LET value[n \in 0 .. Len(t)] ==
        IF n = 0 THEN 0 ELSE IF IsDigit(t[n]) THEN value[n - 1] * 10 + Value(t[n]) ELSE value[n - 1]
  IN  value[Len(t)]

Mantissa(s) == NumberOf(s.int \o s.frac)

Factor(s) ==
  IF \E n \in DOMAIN s.unit : s.unit[n] \in Prefixes
  THEN IF \E n \in DOMAIN s.unit : s.unit[n] = "i" THEN Binary ELSE Decimal
  ELSE 1

Below(s) ==   \* the power of ten, taken off the digits after the point
  Cardinality({n \in DOMAIN s.frac : IsDigit(s.frac[n])})

Power(s) ==
  (IF \E n \in DOMAIN s.exp : s.exp[n] = "-" THEN -NumberOf(s.exp) ELSE NumberOf(s.exp)) - Below(s)

\* v is num/den rounded, a half upwards.
Rounds(v, num, den) == (2 * v - 1) * den <= 2 * num /\ 2 * num < (2 * v + 1) * den

\* The digits m that a u64 takes of those of s, all but the last k: no more are
\* left out than must be, and m is rounded, to Max + 1 it may be.
Kept(s) ==
  LET digits == Mantissa(s)
      left == {k \in 0 .. Len(s.int \o s.frac) :
                 /\ k > 0 => (Max + 1) * Pow10[k - 1] <= digits
                 /\ digits < (Max + 1) * Pow10[k]}
  IN  {d \in (0 .. Max + 1) \X left : Rounds(d[1], digits, Pow10[d[2]])}

\* The size nearest to n * 10^power; Max + 1 for all that are larger.  (Beyond
\* Cutoff one power is as good as another.)
Nearest(n, power) ==
  LET Capped(e) == IF e < 0 THEN 0 ELSE IF e <= Cutoff THEN e ELSE Cutoff + 1
      num == n * Pow10[Capped(power)]
      den == Pow10[Capped(-power)]
  IN  CHOOSE v \in 0 .. Max + 1 :
        IF v <= Max THEN Rounds(v, num, den) ELSE (2 * v - 1) * den <= 2 * num

\* The size that s says.
Meant(s) == {Nearest(d[1] * Factor(s), Power(s) + d[2]) : d \in Kept(s)}

\* Its digits fit, and it is not zero.
Plain(s) == \E d \in Kept(s) : d[1] \in 1 .. Max

\* v is what s is read as.
ReadAs(v, s) == WellFormed(s) /\ v \in Meant(s)

-----------------------------------------------------------------------------
\* The errors of from_str.
Unreadable == {"Empty", "InvalidDigit", "SpaceNotAllowed", "PosOverflow", "inverted"}

\* The two sizes of w can be told apart: a dash or two dots are not run into by
\* what ends like an exponent or a fraction ("1e-2", "2...3").
Separable(w) ==
  LET left == SizeOf(w.left)
  IN  w.left # Absent => /\ w.delim # <<>>
                         /\ w.delim = <<"-">>      => ~EndsIn(left, {"e", "+", "-", ".", "_"})
                         /\ w.delim = <<".", ".">> => ~EndsIn(left, {"."})

\* A range that is accepted is the one that was written: it is taken apart where
\* its two sizes meet, whatever digits, points, exponents and units these have,
\* a side that is left out is open, and each size is the nearest to its exact
\* value, of which the digits that do not fit in a u64 are rounded off.
RangeIsAsWritten ==
  (cli /\ pc # "read" /\ status \notin Unreadable /\ Separable(written)) =>
    /\ IF written.left = Absent THEN start = 0 ELSE ReadAs(start, written.left)
    /\ IF written.right = Absent THEN end = None ELSE ReadAs(end, written.right)

\* A range that is well written is refused for what it says only: a size that is
\* larger than a u64, or an end that is not after its start.  (Of sizes whose
\* digits fit and that are not zero.)
RefusedForCause ==
  LET sides == {written.left, written.right} \ {Absent}
  IN  (/\ cli /\ status \in Unreadable /\ Separable(written)
       /\ sides # {} /\ \A s \in sides : WellFormed(s) /\ Plain(s)) =>
        \/ status = "PosOverflow" /\ \E s \in sides : Max + 1 \in Meant(s)
        \/ /\ status = "inverted" /\ written.right # Absent
           /\ \E l \in IF written.left = Absent THEN {0} ELSE Meant(written.left),
                 r \in Meant(written.right) : r <= l

\* "number too large to fit in target type" is said of such a number only.
TooLargeIsTooLarge ==
  status = "PosOverflow" =>
    \E s \in {written.left, written.right} : WellFormed(s) /\ Max + 1 \in Meant(s)
==============================================================================

------------------------------ MODULE SizeText ------------------------------
(***************************************************************************)
(* From a text to a size, and from a text to the two sizes of a range      *)
(* (crates/pagers-cli/src/size_range.rs).  A text is a sequence of         *)
(* characters, in lower case: the code treats both cases alike.            *)
(*                                                                         *)
(* Machine integers have their width.  Of the prefixes, "k" stands for     *)
(* those that are nothing else, "e" also begins an exponent; both have     *)
(* the same factor here, Decimal or Binary.                                *)
(***************************************************************************)
EXTENDS Integers, Sequences

CONSTANTS
  Max,       \* the largest u64
  ExpMax,    \* the largest i32
  Cutoff,    \* 38: the largest power of ten that fits u128
  Decimal,   \* the factor of a prefix
  Binary     \* and with an "i"

Digits   == <<"0", "1", "2", "3", "4", "5", "6", "7", "8", "9">>
Prefixes == {"k", "e"}

IsDigit(c) == \E n \in 1 .. 10 : Digits[n] = c
Value(c)   == (CHOOSE n \in 1 .. 10 : Digits[n] = c) - 1

FrontOf(t) == SubSeq(t, 1, Len(t) - 1)
EndsIn(t, chars) == t # <<>> /\ t[Len(t)] \in chars

Ok(n)      == [error |-> "none", size |-> n]
Refuse(e)  == [error |-> e, size |-> 0]

-----------------------------------------------------------------------------
\* parse_with_multiply, one character at a time.

Begun == [state |-> "Empty", mantissa |-> 0, shift |-> 0, exponent |-> 0, digit |-> FALSE,
          error |-> "none"]

\* Mutant of Significant: the place of the digit that does not fit is lost.
SignificantUnshifted(p, d) ==
  LET longer  == p.mantissa * 10 + d
      rounded == p.mantissa + (IF d >= 5 THEN 1 ELSE 0)
  IN  CASE longer <= Max ->
             [p EXCEPT !.mantissa = longer,
                       !.state = IF @ = "Empty" THEN "Integer" ELSE @,
                       !.shift = IF p.state = "Fraction" THEN @ - 1 ELSE @]
        [] longer > Max /\ rounded > Max -> [p EXCEPT !.error = "PosOverflow"]
        [] longer > Max /\ rounded <= Max ->
             [p EXCEPT !.mantissa = rounded,
                       !.state = IF @ = "Fraction" THEN "FractionOverflow" ELSE "IntegerOverflow"]

\* A digit of the number, while they fit.  The first that does not is rounded
\* into the mantissa, which may then not fit itself.
Significant(p, d) ==
  LET longer  == p.mantissa * 10 + d
      rounded == p.mantissa + (IF d >= 5 THEN 1 ELSE 0)
  IN  CASE longer <= Max ->
             [p EXCEPT !.mantissa = longer,
                       !.state = IF @ = "Empty" THEN "Integer" ELSE @,
                       !.shift = IF p.state = "Fraction" THEN @ - 1 ELSE @]
        [] longer > Max /\ rounded > Max -> [p EXCEPT !.error = "PosOverflow"]
        [] longer > Max /\ rounded <= Max ->
             [p EXCEPT !.mantissa = rounded,
                       !.state = IF @ = "Fraction" THEN "FractionOverflow" ELSE "IntegerOverflow",
                       !.shift = IF p.state = "Fraction" THEN @ ELSE @ + 1]

\* A digit of the exponent.  Of a negative one a digit that does not fit is
\* ignored: the size is zero anyway.
OfExponent(p, d) ==
  LET e == IF p.state = "PosExponent" THEN p.exponent * 10 + d ELSE p.exponent * 10 - d
  IN  CASE -ExpMax - 1 <= e /\ e <= ExpMax -> [p EXCEPT !.exponent = e, !.digit = TRUE]
        [] e > ExpMax -> [p EXCEPT !.error = "PosOverflow"]
        [] e < -ExpMax - 1 -> p

Digit(p, d) ==
  CASE p.state \in {"Empty", "Integer", "Fraction"} -> Significant(p, d)
    [] p.state = "IntegerOverflow"                  -> [p EXCEPT !.shift = @ + 1]
    [] p.state = "FractionOverflow"                 -> p
    [] p.state \in {"PosExponent", "NegExponent"}   -> OfExponent(p, d)

\* Where each state goes on a character that is not a digit; no character but
\* these is accepted.
Turn ==
  [c \in {"e", "-", "+", "."} |->
    CASE c = "e" -> [s \in {"Integer", "Fraction", "IntegerOverflow", "FractionOverflow"} |->
                       "PosExponent"]
      [] c = "-" -> [s \in {"PosExponent"} |-> "NegExponent"]
      [] c = "+" -> [s \in {"PosExponent"} |-> "PosExponent"]
      [] c = "." -> [s \in {"Integer", "IntegerOverflow"} |->
                       IF s = "Integer" THEN "Fraction" ELSE "FractionOverflow"]]

Character(p, c) ==
  CASE p.error # "none" \/ c = "_" -> p
    [] p.error = "none" /\ c = " " -> [p EXCEPT !.error = "SpaceNotAllowed"]
    [] p.error = "none" /\ IsDigit(c) -> Digit(p, Value(c))
    [] p.error = "none" /\ c \in DOMAIN Turn /\ p.state \in DOMAIN Turn[c] ->
         [p EXCEPT !.state = Turn[c][p.state]]
    [] OTHER -> [p EXCEPT !.error = "InvalidDigit"]

Parsed(t) ==
  LET after[n \in 0 .. Len(t)] == IF n = 0 THEN Begun ELSE Character(after[n - 1], t[n])
  IN  after[Len(t)]

\* The powers of ten; a u128 holds those up to Cutoff.
Pow10[n \in Nat] == IF n = 0 THEN 1 ELSE 10 * Pow10[n - 1]

\* Half of a byte and more is a byte.
Rounded(n, power) == (n + (power \div 2)) \div power

\* Mutant of Scaled: the largest power is taken not to fit.
ScaledStrictly(mantissa, multiply, e) ==
  LET fits == e < Cutoff /\ multiply * Pow10[e + 1] <= Max /\ mantissa * multiply * Pow10[e] <= Max
      size == CASE e >= 0            -> IF fits THEN mantissa * multiply * Pow10[e] ELSE Max + 1
                [] -Cutoff <= e /\ e < 0 -> Rounded(mantissa * multiply, Pow10[-e])
                [] e < -Cutoff       -> 0
  IN  IF size <= Max THEN Ok(size) ELSE Refuse("PosOverflow")

\* The mantissa times the unit times a power of ten: in u64, each product in its
\* turn, when the power is not negative; in u128, rounded, when it is.
Scaled(mantissa, multiply, e) ==
  LET fits == e <= Cutoff /\ multiply * Pow10[e] <= Max /\ mantissa * multiply * Pow10[e] <= Max
      size == CASE e >= 0            -> IF fits THEN mantissa * multiply * Pow10[e] ELSE Max + 1
                [] -Cutoff <= e /\ e < 0 -> Rounded(mantissa * multiply, Pow10[-e])
                [] e < -Cutoff       -> 0
  IN  IF size <= Max THEN Ok(size) ELSE Refuse("PosOverflow")

ParseWithMultiply(t, multiply) ==
  LET p == Parsed(t)
      e == p.exponent + p.shift
  IN  CASE p.error # "none" -> Refuse(p.error)
        [] p.error = "none" /\ p.state = "Empty" -> Refuse("Empty")
        [] p.error = "none" /\ p.state \in {"PosExponent", "NegExponent"} /\ ~p.digit ->
             Refuse("InvalidDigit")
        [] OTHER -> Scaled(p.mantissa, multiply, IF e > ExpMax THEN ExpMax ELSE e)

\* parse_size: the unit is taken off the end, a "b", an "i", a prefix, and what
\* is left is the number.
ParseSize(t) ==
  LET noB    == IF EndsIn(t, {"b"}) THEN FrontOf(t) ELSE t
      binary == EndsIn(noB, {"i"})
      noI    == IF binary THEN FrontOf(noB) ELSE noB
  IN  IF EndsIn(noI, Prefixes)
      THEN ParseWithMultiply(FrontOf(noI), IF binary THEN Binary ELSE Decimal)
      ELSE ParseWithMultiply(noI, 1)

-----------------------------------------------------------------------------
\* SizeRange::from_str.

Occurrences(t, d) == {i \in 1 .. Len(t) - Len(d) + 1 : SubSeq(t, i, i + Len(d) - 1) = d}

First(S) == CHOOSE i \in S : \A j \in S : i <= j
Final(S) == CHOOSE i \in S : \A j \in S : j <= i

Cut(t, i, width) == <<SubSeq(t, 1, i - 1), SubSeq(t, i + width, Len(t))>>

\* Mutant of DashDelimiters: a dash after an "e" separates as well.
DashDelimitersAfterE(t) ==
  {i \in 2 .. Len(t) : t[i] = "-" /\ (IsDigit(t[i - 1]) \/ t[i - 1] \in {"b", "i", "k", "e"})}

\* find_dash_delimiter: a dash after a digit or a unit, but not after an "e",
\* where it is the sign of an exponent.
DashDelimiters(t) ==
  {i \in 2 .. Len(t) : t[i] = "-" /\ (IsDigit(t[i - 1]) \/ t[i - 1] \in {"b", "i", "k"})}

\* try_split: <<>> is for a text that is one size.
TrySplit(t) ==
  CASE Occurrences(t, <<".", ".">>) # {} -> Cut(t, First(Occurrences(t, <<".", ".">>)), 2)
    [] Occurrences(t, <<".", ".">>) = {} /\ Occurrences(t, <<",">>) # {} ->
         Cut(t, First(Occurrences(t, <<",">>)), 1)
    [] Occurrences(t, <<".", ".">>) = {} /\ Occurrences(t, <<",">>) = {} ->
         IF t # <<>> /\ t[1] = "-" THEN Cut(t, 1, 1)
         ELSE IF DashDelimiters(t) # {} THEN Cut(t, Final(DashDelimiters(t)), 1) ELSE <<>>

\* str::trim.
Trim(t) ==
  LET ink == {i \in 1 .. Len(t) : t[i] # " "}
  IN  IF ink = {} THEN <<>> ELSE SubSeq(t, First(ink), Final(ink))

\* A side that is empty is the default d; the first error is the one returned.
SideOr(t, d) == IF t = <<>> THEN Ok(d) ELSE ParseSize(t)

\* The error, or the range, whose end is None where it is open.
FromStr(t, None) ==
  LET sides == TrySplit(Trim(t))
      left  == IF sides = <<>> THEN Ok(0) ELSE SideOr(sides[1], 0)
      right == IF sides = <<>> THEN ParseSize(Trim(t)) ELSE SideOr(sides[2], None)
      error == CASE sides = << <<>>, <<>> >> -> "Empty"
                 [] sides # << <<>>, <<>> >> /\ left.error # "none" -> left.error
                 [] OTHER -> right.error
  IN  [error |-> IF error = "none" /\ sides # <<>> /\ right.size <= left.size
                 THEN "inverted" ELSE error,
       start |-> left.size, end |-> right.size]
=============================================================================

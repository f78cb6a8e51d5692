----------------------------- MODULE RangeProofs -----------------------------
(***************************************************************************)
(* Theorems about Range, for every page size and every width of the        *)
(* integers, and about SizeText and SizeRange, for every text.             *)
(***************************************************************************)
EXTENDS SizeRange, SequenceTheorems, FiniteSetTheorems, WellFoundedInduction, TLAPS

-----------------------------------------------------------------------------
\* Rounding down to a page.
LEMMA AlignedBounds ==
  ASSUME NEW b \in Nat
  PROVE  /\ Aligned(b) \in Nat /\ b \div PageSize \in Nat
         /\ Aligned(b) <= b /\ b < Aligned(b) + PageSize
         /\ Aligned(b) % PageSize = 0
<1> DEFINE q == b \div PageSize
<1>1. PageSize \in Nat \ {0}
  BY RangeAssumption
<1>2. q \in Nat
  BY <1>1, Z3
<1>3. q * PageSize \in Nat /\ q * PageSize <= b /\ b < q * PageSize + PageSize
  BY <1>1, Z3
<1> HIDE DEF q
<1>4. (q * PageSize) % PageSize = 0
  BY <1>1, <1>2, Z3
<1> QED
  BY <1>2, <1>3, <1>4 DEF Aligned, q

-----------------------------------------------------------------------------
\* The strengthening.  An error names its cause, ...
Causes ==
  /\ pc = "done" <=> status # "none"
  /\ status = "inverted" => end <= start
  /\ status = "order" => end <= Aligned(start)
  /\ status = "skipped" => fileLen = 0
  /\ status = "beyond" => offset >= fileLen
  /\ status = "ok" => offset < fileLen /\ len = Least(maxLen, fileLen - offset)

\* ... what comes from the command line has been parsed and set up, ...
Beyond == {"unaligned", "empty", "overflow", "skipped", "beyond", "ok",
           "toolarge"}

FromCli ==
  cli =>
    /\ pc \in {"setup", "validate", "resolve"} \/ status \in Beyond => end > start \/ start = 0
    /\ pc \in {"validate", "resolve"} \/ status \in Beyond =>
         /\ offset = Aligned(start) /\ end > offset
         /\ maxLen = IF end = None THEN None ELSE end - offset

\* ... and what comes to a file has been validated.
Checked ==
  pc = "resolve" \/ status \in {"skipped", "beyond", "ok", "toolarge"}
    => offset % PageSize = 0 /\ maxLen # 0

IInv == TypeOK /\ Causes /\ FromCli /\ Checked /\ CliRangeIsValid

(* The invariant holds of whatever was asked for. *)
LEMMA InitIInv == Init => IInv
BY RangeAssumption
   DEF Init, IInv, TypeOK, Causes, FromCli, Beyond, Checked, CliRangeIsValid, U64, Limit, None

(* Parsing keeps it. *)
LEMMA ParseIInv == IInv /\ Parse => IInv'
BY RangeAssumption
   DEF IInv, TypeOK, Causes, FromCli, Beyond, Checked, CliRangeIsValid, U64, Limit, None,
       Parse, Stop, Continue, request, Aligned, Least

(* The alignment of common_setup keeps it. *)
LEMMA SetupIInv == IInv /\ Setup => IInv'
<1> SUFFICES ASSUME IInv, Setup PROVE IInv'
  OBVIOUS
<1>1. start \in Nat /\ start <= Max
  BY RangeAssumption DEF IInv, TypeOK, U64
<1>2. Aligned(start) \in Nat /\ Aligned(start) <= start
  BY <1>1, AlignedBounds
<1> DEFINE a == Aligned(start)
<1>3. Aligned(start)' = a
  BY DEF Setup, Stop, Continue, request, Aligned
<1> QED
  BY <1>1, <1>2, <1>3, RangeAssumption
     DEF IInv, TypeOK, Causes, FromCli, Beyond, Checked, CliRangeIsValid, U64, Limit, None,
         Setup, Stop, Continue, request, Least

(* FileRange::validate keeps it. *)
LEMMA ValidateIInv == IInv /\ Validate => IInv'
<1> SUFFICES ASSUME IInv, Validate PROVE IInv'
  OBVIOUS
<1>1. start \in Nat /\ start <= Max
  BY RangeAssumption DEF IInv, TypeOK, U64
<1>2. Aligned(start) \in Nat /\ Aligned(start) % PageSize = 0
  BY <1>1, AlignedBounds
<1>3. Aligned(start)' = Aligned(start)
  BY DEF Validate, Stop, Continue, request, Aligned
<1> QED
  BY <1>1, <1>2, <1>3, RangeAssumption
     DEF IInv, TypeOK, Causes, FromCli, Beyond, Checked, CliRangeIsValid, U64, Limit, None,
         Validate, Stop, Continue, request, Least

(* Resolution against a file keeps it. *)
LEMMA ResolveIInv == IInv /\ Resolve => IInv'
<1> SUFFICES ASSUME IInv, Resolve PROVE IInv'
  OBVIOUS
<1>1. Aligned(start)' = Aligned(start)
  BY DEF Resolve, Stop, request, Aligned
<1> QED
  BY <1>1, RangeAssumption
     DEF IInv, TypeOK, Causes, FromCli, Beyond, Checked, CliRangeIsValid, U64, Limit, None,
         Resolve, Stop, request, Least

(* A stuttering step keeps it. *)
LEMMA StutterIInv == IInv /\ UNCHANGED vars => IInv'
BY DEF IInv, TypeOK, Causes, FromCli, Beyond, Checked, CliRangeIsValid, vars, Aligned, Least

(* The invariant holds throughout. *)
LEMMA SpecIInv == Spec => []IInv
<1>1. IInv /\ [Next]_vars => IInv'
  BY ParseIInv, SetupIInv, ValidateIInv, ResolveIInv, StutterIInv DEF Next
<1> QED
  BY InitIInv, <1>1, PTL DEF Spec

-----------------------------------------------------------------------------
\* Every variable stays in its type.
THEOREM TypeCorrect == Spec => []TypeOK
BY SpecIInv, PTL DEF IInv

\* The command line never hands the library a range that the library refuses,
\* for its alignment, its length or an overflow of u64.
THEOREM CliIsValid == Spec => []CliRangeIsValid
BY SpecIInv, PTL DEF IInv

\* What was validated and resolved is inside the file.
LEMMA InvStaysInFile == IInv => StaysInFile
BY RangeAssumption
   DEF IInv, TypeOK, Causes, Checked, StaysInFile, U64, Limit, None, Least

\* What is mapped is not empty, aligned, and inside the file.
THEOREM MappingIsInside == Spec => []StaysInFile
BY InvStaysInFile, SpecIInv, PTL

\* A byte that was asked for excludes every cause of an error but a length that
\* no mapping has.
LEMMA InvNothingIsMissed == IInv => NothingIsMissed
<1> SUFFICES ASSUME IInv, cli, pc = "done", RequestedPages # {}
             PROVE  status \in {"ok", "toolarge"}
  BY DEF NothingIsMissed
<1>1. PICK b \in U64 : start <= b /\ b < Least(end, fileLen)
  BY DEF RequestedPages
<1>2. start \in Nat /\ end \in Nat /\ fileLen \in Nat /\ b \in Nat
  BY RangeAssumption DEF IInv, TypeOK, U64, Limit, None
<1>3. start < end /\ start < fileLen
  BY <1>1, <1>2 DEF Least
<1>4. Aligned(start) \in Nat /\ Aligned(start) <= start
  BY <1>2, AlignedBounds
<1>5. status \notin {"inverted", "order", "skipped"}
  BY <1>2, <1>3, <1>4 DEF IInv, Causes
<1>6. status # "beyond"
  BY <1>2, <1>3, <1>4 DEF IInv, Causes, FromCli, Beyond
<1> QED
  BY <1>5, <1>6 DEF IInv, TypeOK, Causes, CliRangeIsValid

\* A file with a byte of the requested range is not skipped or refused, unless
\* the mapping would be longer than a usize.
THEOREM NothingMissed == Spec => []NothingIsMissed
BY InvNothingIsMissed, SpecIInv, PTL

-----------------------------------------------------------------------------
\* Facts of arithmetic that the solver needs one at a time.
LEMMA TimesPage ==
  ASSUME NEW x \in Nat, NEW y \in Nat
  PROVE  /\ x * PageSize \in Nat
         /\ (x + y) * PageSize = x * PageSize + y * PageSize
         /\ x <= y => x * PageSize <= y * PageSize
         /\ x * PageSize < y * PageSize => x < y
         /\ (x * PageSize) \div PageSize = x
BY RangeAssumption, Z3

(* The quotient by the page size, from below and from above. *)
LEMMA DivPage ==
  ASSUME NEW b \in Nat
  PROVE  /\ b \div PageSize \in Nat
         /\ (b \div PageSize) * PageSize <= b
         /\ b < (b \div PageSize) * PageSize + PageSize
BY AlignedBounds DEF Aligned

\* What IInv says of a mapping made for the command line: it begins at the page
\* of start, and ends where the range or the file does.
LEMMA MappedFrom ==
  ASSUME IInv, cli, status = "ok", start < fileLen
  PROVE  /\ {start, fileLen, offset, len, Least(end, fileLen)} \subseteq Nat
         /\ offset = (start \div PageSize) * PageSize
         /\ start < Least(end, fileLen) /\ Least(end, fileLen) <= Max
         /\ len > 0 /\ offset + len = Least(end, fileLen)
<1>1. /\ start \in Nat /\ end \in Nat /\ fileLen \in Nat /\ offset \in Nat /\ len \in Nat
      /\ fileLen <= Max /\ end \in Limit
  BY RangeAssumption DEF IInv, TypeOK, U64, Limit, None
<1>2. /\ end > start \/ start = 0
      /\ offset = Aligned(start) /\ end > offset
      /\ maxLen = IF end = None THEN None ELSE end - offset
  BY DEF IInv, FromCli, Beyond
<1>3. offset < fileLen /\ len = Least(maxLen, fileLen - offset)
  BY DEF IInv, Causes
<1>4. Aligned(start) <= start
  BY <1>1, AlignedBounds
<1>5. end > start
  BY <1>1, <1>2, <1>4
<1>6. offset + len = Least(end, fileLen) /\ len > 0
  BY <1>1, <1>2, <1>3, RangeAssumption DEF Least, None
<1>7. /\ Least(end, fileLen) \in Nat /\ Least(end, fileLen) <= Max
      /\ start < Least(end, fileLen)
  BY <1>1, <1>5, RangeAssumption DEF Least
<1>8. offset = (start \div PageSize) * PageSize
  BY <1>2, Zenon DEF Aligned
<1> QED
  BY <1>1, <1>6, <1>7, <1>8, Zenon

\* The pages from the one of start to the one of the last byte are those of the
\* bytes between them.
LEMMA PagesInFile ==
  ASSUME IInv, cli, status = "ok", start < fileLen
  PROVE  MappedPages = RequestedPages /\ start \div PageSize \in RequestedPages
<1> DEFINE q == start \div PageSize
           e == Least(end, fileLen)
           t == TotalPages
<1>1. /\ start \in Nat /\ offset \in Nat /\ len \in Nat /\ e \in Nat /\ e <= Max
      /\ offset = q * PageSize /\ start < e /\ len > 0 /\ offset + len = e
  BY MappedFrom
<1>2. PageSize \in Nat /\ PageSize > 0 /\ Max \in Nat
  BY RangeAssumption
<1>3. q \in Nat /\ offset <= start /\ start < offset + PageSize
  BY <1>1, DivPage
<1>4. t \in Nat /\ t * PageSize \in Nat /\ t * PageSize <= len + PageSize - 1 /\ len <= t * PageSize
  <2>1. len + PageSize - 1 \in Nat
    BY <1>1, <1>2
  <2>2. /\ t \in Nat /\ t * PageSize <= len + PageSize - 1
        /\ len + PageSize - 1 < t * PageSize + PageSize
    BY <2>1, DivPage DEF TotalPages
  <2>3. t * PageSize \in Nat
    BY <2>2, TimesPage
  <2> QED
    BY <2>2, <2>3, <1>1, <1>2
<1>5. offset \div PageSize = q
  BY <1>1, <1>3, TimesPage
<1> HIDE DEF q, e, t
<1>6. MappedPages = {q + i : i \in 0 .. t - 1}
  BY <1>5 DEF MappedPages, t
<1>7. RequestedPages = {b \div PageSize : b \in {b \in 0 .. Max : start <= b /\ b < e}}
  BY DEF RequestedPages, U64, e
<1>8. ASSUME NEW i \in 0 .. t - 1 PROVE q + i \in RequestedPages
  <2>1. i \in Nat /\ i + 1 <= t
    BY <1>4
  <2>2. CASE i = 0
    BY <2>2, <1>1, <1>2, <1>3, <1>7 DEF q
  <2>3. CASE i # 0
    <3> DEFINE b == (q + i) * PageSize
    <3>1. b \in Nat /\ b = offset + i * PageSize /\ b \div PageSize = q + i
      <4>1. q + i \in Nat
        BY <1>3, <2>1
      <4> QED
        BY <4>1, <1>1, <1>3, <2>1, TimesPage
    <3>2. i * PageSize + 1 * PageSize <= t * PageSize
      BY <2>1, <1>4, TimesPage
    <3>3. 1 * PageSize <= i * PageSize /\ i * PageSize \in Nat
      BY <2>1, <2>3, TimesPage
    <3> HIDE DEF b
    <3>4. start <= b
      BY <3>1, <3>3, <1>1, <1>2, <1>3
    <3>5. b < e
      BY <3>1, <3>2, <3>3, <1>1, <1>2, <1>4
    <3>6. b \in 0 .. Max
      BY <3>1, <3>5, <1>1, <1>2
    <3> QED
      BY <3>1, <3>4, <3>5, <3>6, <1>7
  <2> QED
    BY <2>2, <2>3
<1>9. ASSUME NEW b \in 0 .. Max, start <= b, b < e PROVE b \div PageSize \in MappedPages
  <2> DEFINE p == b \div PageSize
  <2>1. b \in Nat
    BY <1>2
  <2>2. p \in Nat /\ p * PageSize <= b /\ b < p * PageSize + PageSize /\ p * PageSize \in Nat
    BY <2>1, DivPage, TimesPage
  <2> HIDE DEF p
  <2>3. q <= p
    <3>1. (p + 1) * PageSize = p * PageSize + 1 * PageSize
      BY <2>2, TimesPage
    <3>2. q * PageSize < (p + 1) * PageSize
      BY <3>1, <2>1, <2>2, <1>1, <1>2, <1>3, <1>9
    <3>3. q < p + 1
      BY <3>2, <1>3, <2>2, TimesPage
    <3> QED
      BY <3>3, <1>3, <2>2
  <2> DEFINE i == p - q
  <2>4. i \in Nat /\ p = q + i
    BY <2>2, <2>3, <1>3
  <2> HIDE DEF i
  <2>5. p * PageSize = offset + i * PageSize /\ i * PageSize \in Nat
    BY <2>4, <1>1, <1>3, TimesPage
  <2>6. i * PageSize < t * PageSize
    BY <2>1, <2>2, <2>5, <1>1, <1>2, <1>4, <1>9
  <2>7. i < t
    BY <2>4, <2>6, <1>4, TimesPage
  <2>8. i \in 0 .. t - 1
    BY <2>4, <2>7, <1>4
  <2> QED
    BY <2>4, <2>8, <1>6 DEF p
<1>10. start \div PageSize \in RequestedPages
  BY <1>1, <1>2, <1>7
<1> QED
  BY <1>6, <1>7, <1>8, <1>9, <1>10

\* A file that ends before the start, in its page: that page alone is mapped.
LEMMA PageOfStart ==
  ASSUME IInv, cli, status = "ok", fileLen <= start
  PROVE  MappedPages = {start \div PageSize} /\ RequestedPages = {}
<1> DEFINE q == start \div PageSize
<1>1. /\ start \in Nat /\ end \in Nat /\ fileLen \in Nat /\ offset \in Nat /\ len \in Nat
      /\ maxLen \in Nat /\ PageSize \in Nat /\ PageSize > 0
  BY RangeAssumption DEF IInv, TypeOK, U64, Limit, None
<1>2. /\ offset = Aligned(start)
      /\ end > start \/ start = 0
      /\ maxLen = IF end = None THEN None ELSE end - offset
  BY DEF IInv, FromCli, Beyond
<1>3. offset < fileLen /\ len = Least(maxLen, fileLen - offset)
  BY DEF IInv, Causes
<1>4. offset = q * PageSize /\ q \in Nat /\ offset <= start /\ start < offset + PageSize
  BY <1>1, AlignedBounds DEF IInv, FromCli, Beyond, Aligned
<1>5. end > start
  BY <1>1, <1>2, <1>3, <1>4
<1>6. 0 < len /\ len < PageSize
  <2>1. maxLen > 0
    BY <1>1, <1>2, <1>3, <1>4, <1>5, RangeAssumption DEF None
  <2> QED
    BY <2>1, <1>1, <1>3, <1>4 DEF Least
<1> HIDE DEF q
<1>7. TotalPages = 1
  <2>1. len + PageSize - 1 \in Nat /\ 1 * PageSize <= len + PageSize - 1
    BY <1>1, <1>6
  <2>2. /\ TotalPages \in Nat /\ TotalPages * PageSize <= len + PageSize - 1
        /\ len + PageSize - 1 < TotalPages * PageSize + PageSize
        /\ TotalPages * PageSize \in Nat
    BY <2>1, DivPage, TimesPage DEF TotalPages
  <2>3. TotalPages * PageSize < 2 * PageSize /\ 0 * PageSize < TotalPages * PageSize
    BY <2>1, <2>2, <1>1, <1>6
  <2>4. TotalPages < 2 /\ 0 < TotalPages
    BY <2>2, <2>3, TimesPage
  <2> QED
    BY <2>2, <2>4
<1>8. offset \div PageSize = q
  BY <1>4, TimesPage
<1>9. MappedPages = {q}
  <2>1. \A i \in 0 .. TotalPages - 1 : i = 0
    BY <1>7
  <2>2. 0 \in 0 .. TotalPages - 1
    BY <1>7
  <2> QED
    BY <2>1, <2>2, <1>4, <1>8 DEF MappedPages
<1>10. RequestedPages = {}
  BY <1>1, RangeAssumption DEF RequestedPages, Least, U64
<1> QED
  BY <1>9, <1>10 DEF q

\* Together: the pages with a byte of the range, and that of its start.
LEMMA InvExactPages == IInv => ExactPages
<1> SUFFICES ASSUME IInv, cli, status = "ok"
             PROVE  MappedPages = RequestedPages \cup {start \div PageSize}
  BY DEF ExactPages
<1>1. start < fileLen \/ fileLen <= start
  BY RangeAssumption DEF IInv, TypeOK, U64
<1> QED
  BY <1>1, PagesInFile, PageOfStart

\* The pages mapped for a range of the command line are those that hold a byte
\* of it in the file, and the page of its start, which holds none when the file
\* ends before the start (common_setup aligns the start first, runop.rs:107).
THEOREM PagesAreExact == Spec => []ExactPages
BY InvExactPages, SpecIInv, PTL

-----------------------------------------------------------------------------
(***************************************************************************)
(* The text of --range.  Recursive functions are reasoned about by sets of *)
(* numbers: one that has zero, and with each number the next, has all.     *)
(***************************************************************************)
\* A set of numbers that is not empty has a least one, ...
LEMMA LeastNumber ==
  ASSUME NEW S \in SUBSET Nat, S # {}
  PROVE  \E n \in S : \A m \in S : n <= m
<1> DEFINE R == OpToRel(<, Nat)
<1>1. IsWellFoundedOn(R, Nat)
  BY NatLessThanWellFounded
<1>2. \A m, n \in Nat : m < n => <<m, n>> \in R
  BY DEF OpToRel
<1> HIDE DEF R
<1>3. PICK n \in S : \A m \in S : ~ (<<m, n>> \in R)
  BY <1>1, WFMin
<1>4. \A m \in S : m \in Nat /\ n \in Nat /\ ~ (m < n)
  BY <1>2, <1>3
<1> QED
  BY <1>4

\* ... and, when it is bounded, a greatest.
LEMMA GreatestNumber ==
  ASSUME NEW N \in Nat, NEW S \in SUBSET (1 .. N), S # {}
  PROVE  \E n \in S : \A m \in S : m <= n
<1> DEFINE back == {N - n : n \in S}
<1>1. back \in SUBSET Nat /\ back # {}
  <2>1. \A n \in S : N - n \in Nat
    OBVIOUS
  <2>2. PICK s : s \in S
    OBVIOUS
  <2> QED
    BY <2>1, <2>2
<1>2. PICK b \in back : \A c \in back : b <= c
  <2> HIDE DEF back
  <2> QED
    BY <1>1, LeastNumber
<1>3. PICK n \in S : b = N - n
  BY <1>2
<1>4. \A m \in S : N - n <= N - m /\ m \in 1 .. N
  BY <1>2, <1>3
<1>5. \A m \in S : m <= n
  BY <1>3, <1>4
<1> QED
  BY <1>5

\* What holds of zero, and of each number's successor, holds of all.
LEMMA Induction ==
  ASSUME NEW S, 0 \in S, \A n \in Nat : n \in S => n + 1 \in S
  PROVE  \A n \in Nat : n \in S
<1> SUFFICES ASSUME Nat \ S # {} PROVE FALSE
  OBVIOUS
<1>1. Nat \ S \in SUBSET Nat
  OBVIOUS
<1>2. PICK n \in Nat \ S : \A m \in Nat \ S : n <= m
  BY <1>1, LeastNumber
<1>3. n - 1 \in Nat /\ ~ (n <= n - 1)
  BY <1>2
<1>4. n - 1 \in S
  BY <1>2, <1>3
<1>5. n - 1 + 1 \in S
  BY <1>3, <1>4
<1> QED
  BY <1>2, <1>5

-----------------------------------------------------------------------------
\* The automaton of parse_with_multiply.
States == {"Empty", "Integer", "IntegerOverflow", "Fraction", "FractionOverflow",
           "PosExponent", "NegExponent"}

\* Its variables, each within the width of its type.
ParseState ==
  [state : States, mantissa : U64, shift : Int, exponent : -ExpMax - 1 .. ExpMax,
   digit : BOOLEAN, error : {"none", "PosOverflow", "SpaceNotAllowed", "InvalidDigit"}]

\* The state of the automaton with a mantissa, a state and a shift of its own.
LEMMA WithMantissa ==
  ASSUME NEW p \in ParseState, NEW m \in U64, NEW s \in States, NEW h \in Int
  PROVE  [p EXCEPT !.mantissa = m, !.state = s, !.shift = h] \in ParseState
<1> USE DEF ParseState
<1>1. PICK q \in ParseState : q = [p EXCEPT !.mantissa = m]
  OBVIOUS
<1>2. PICK r \in ParseState : r = [q EXCEPT !.state = s]
  BY ONLY q \in ParseState, s \in States
<1>3. [r EXCEPT !.shift = h] \in ParseState
  BY ONLY r \in ParseState, h \in Int
<1> QED
  BY <1>1, <1>2, <1>3

\* The same with an exponent.
LEMMA WithExponent ==
  ASSUME NEW p \in ParseState, NEW e \in -ExpMax - 1 .. ExpMax
  PROVE  [p EXCEPT !.exponent = e, !.digit = TRUE] \in ParseState
<1> USE DEF ParseState
<1>1. PICK q \in ParseState : q = [p EXCEPT !.exponent = e]
  OBVIOUS
<1>2. [q EXCEPT !.digit = TRUE] \in ParseState
  BY ONLY q \in ParseState
<1> QED
  BY <1>1, <1>2

\* A digit of the number or of the exponent keeps the widths.
LEMMA DigitTyped ==
  ASSUME NEW p \in ParseState, NEW d \in 0 .. 9
  PROVE  Digit(p, d) \in ParseState
<1>1. ExpMax \in Nat /\ Max \in Nat
  BY RangeAssumption, SizeRangeAssumption
<1>2. p.mantissa \in U64 /\ p.shift \in Int /\ p.exponent \in -ExpMax - 1 .. ExpMax /\ p.state \in States
  BY DEF ParseState
<1>3. CASE p.state \in {"Empty", "Integer", "Fraction"}
  <2>1. Digit(p, d) = Significant(p, d)
    BY <1>3 DEF Digit
  <2> DEFINE longer  == p.mantissa * 10 + d
             rounded == p.mantissa + (IF d >= 5 THEN 1 ELSE 0)
  <2>2. longer \in Nat /\ rounded \in Nat
    BY <1>1, <1>2 DEF U64
  <2>3. CASE longer <= Max
    <3>1. longer \in U64
      BY <1>1, <2>2, <2>3 DEF U64
    <3> HIDE DEF longer
    <3>2. Significant(p, d) =
            [p EXCEPT !.mantissa = longer,
                      !.state = IF @ = "Empty" THEN "Integer" ELSE @,
                      !.shift = IF p.state = "Fraction" THEN @ - 1 ELSE @]
      BY <1>1, <1>2, <2>3, <3>1 DEF Significant, longer, U64
    <3>3. PICK state \in States : state = IF p.state = "Empty" THEN "Integer" ELSE p.state
      BY <1>2 DEF States
    <3>4. PICK shift \in Int : shift = IF p.state = "Fraction" THEN p.shift - 1 ELSE p.shift
      BY <1>2
    <3>5. Significant(p, d) = [p EXCEPT !.mantissa = longer, !.state = state, !.shift = shift]
      BY <3>2, <3>3, <3>4
    <3>6. [p EXCEPT !.mantissa = longer, !.state = state, !.shift = shift] \in ParseState
      BY <3>1, WithMantissa
    <3> QED
      BY <2>1, <3>5, <3>6
  <2>4. CASE longer > Max /\ rounded > Max
    <3>1. Significant(p, d) = [p EXCEPT !.error = "PosOverflow"]
      BY <1>1, <1>2, <2>4, <2>2 DEF Significant
    <3> QED
      BY <2>1, <3>1 DEF ParseState
  <2>5. CASE longer > Max /\ rounded <= Max
    <3>1. rounded \in U64
      BY <1>1, <2>2, <2>5 DEF U64
    <3>2. Significant(p, d) =
            [p EXCEPT !.mantissa = rounded,
                      !.state = IF @ = "Fraction" THEN "FractionOverflow" ELSE "IntegerOverflow",
                      !.shift = IF p.state = "Fraction" THEN @ ELSE @ + 1]
      BY <1>1, <1>2, <2>5, <2>2 DEF Significant
    <3> HIDE DEF rounded
    <3>3. PICK state \in States :
            state = IF p.state = "Fraction" THEN "FractionOverflow" ELSE "IntegerOverflow"
      BY DEF States
    <3>4. PICK shift \in Int : shift = IF p.state = "Fraction" THEN p.shift ELSE p.shift + 1
      BY <1>2
    <3>5. Significant(p, d) = [p EXCEPT !.mantissa = rounded, !.state = state, !.shift = shift]
      BY <3>2, <3>3, <3>4
    <3>6. [p EXCEPT !.mantissa = rounded, !.state = state, !.shift = shift] \in ParseState
      BY <3>1, WithMantissa
    <3> QED
      BY <2>1, <3>5, <3>6
  <2> QED
    BY <1>1, <2>2, <2>3, <2>4, <2>5
<1>4. CASE p.state = "IntegerOverflow"
  BY <1>2, <1>4 DEF Digit, ParseState, States
<1>5. CASE p.state = "FractionOverflow"
  BY <1>2, <1>5 DEF Digit, ParseState, States
<1>6. CASE p.state \in {"PosExponent", "NegExponent"}
  <2>1. Digit(p, d) = OfExponent(p, d)
    BY <1>6 DEF Digit
  <2>2. PICK e : e = IF p.state = "PosExponent" THEN p.exponent * 10 + d ELSE p.exponent * 10 - d
    OBVIOUS
  <2>3. e \in Int
    BY <1>1, <1>2, <2>2
  <2>4. OfExponent(p, d) =
          CASE -ExpMax - 1 <= e /\ e <= ExpMax -> [p EXCEPT !.exponent = e, !.digit = TRUE]
            [] e > ExpMax -> [p EXCEPT !.error = "PosOverflow"]
            [] e < -ExpMax - 1 -> p
    BY <2>2 DEF OfExponent
  <2>5. CASE -ExpMax - 1 <= e /\ e <= ExpMax
    <3>1. OfExponent(p, d) = [p EXCEPT !.exponent = e, !.digit = TRUE]
      BY <1>1, <2>3, <2>4, <2>5
    <3>2. e \in -ExpMax - 1 .. ExpMax
      BY <1>1, <2>3, <2>5
    <3>3. [p EXCEPT !.exponent = e, !.digit = TRUE] \in ParseState
      BY <3>2, WithExponent
    <3> QED
      BY <2>1, <3>1, <3>3
  <2>6. CASE e > ExpMax
    BY <1>1, <2>1, <2>3, <2>4, <2>6 DEF ParseState
  <2>7. CASE e < -ExpMax - 1
    BY <1>1, <2>1, <2>3, <2>4, <2>7 DEF ParseState
  <2> QED
    BY <1>1, <2>3, <2>5, <2>6, <2>7
<1> QED
  BY <1>2, <1>3, <1>4, <1>5, <1>6 DEF States

\* A digit is no other character.
LEMMA OnlyDigits ==
  /\ \A c : IsDigit(c) => c \notin {" ", "_", "e", "-", "+", ".", ",", "b", "i", "k", "x"}
  /\ DOMAIN Turn = {"e", "-", "+", "."}
<1>1. \A n \in 1 .. 10 :
        Digits[n] \in {"0", "1", "2", "3", "4", "5", "6", "7", "8", "9"}
  <2>1. /\ Digits[1] = "0" /\ Digits[2] = "1" /\ Digits[3] = "2" /\ Digits[4] = "3"
        /\ Digits[5] = "4" /\ Digits[6] = "5" /\ Digits[7] = "6" /\ Digits[8] = "7"
        /\ Digits[9] = "8" /\ Digits[10] = "9"
    BY DEF Digits
  <2>2. 1 .. 10 = {1, 2, 3, 4, 5, 6, 7, 8, 9, 10}
    OBVIOUS
  <2> QED
    BY <2>1, <2>2
<1> QED
  BY <1>1 DEF IsDigit, Turn

\* A character is a digit, a turn, or a mistake.
LEMMA CharacterTyped ==
  ASSUME NEW p \in ParseState, NEW c
  PROVE  Character(p, c) \in ParseState
<1>1. CASE p.error # "none" \/ c = "_"
  <2>1. c = "_" => ~IsDigit(c) /\ c # " " /\ c \notin DOMAIN Turn
    BY OnlyDigits
  <2>2. Character(p, c) = p
    BY <1>1, <2>1 DEF Character
  <2> QED
    BY <2>2
<1>2. CASE ~(p.error # "none" \/ c = "_")
  <2>1. CASE c = " "
    <3>1. ~IsDigit(c) /\ c \notin DOMAIN Turn
      BY <2>1, OnlyDigits
    <3>2. Character(p, c) = [p EXCEPT !.error = "SpaceNotAllowed"]
      BY <1>2, <2>1, <3>1 DEF Character
    <3> QED
      BY <3>2 DEF ParseState
  <2>2. CASE c # " " /\ IsDigit(c)
    <3>1. Value(c) \in 0 .. 9
      <4>1. PICK n \in 1 .. 10 : n = CHOOSE m \in 1 .. 10 : Digits[m] = c
        BY <2>2 DEF IsDigit
      <4> QED
        BY <4>1 DEF Value
    <3>2. c \notin DOMAIN Turn
      BY <2>2, OnlyDigits
    <3>3. Character(p, c) = Digit(p, Value(c))
      BY <1>2, <2>2, <3>2 DEF Character
    <3> QED
      BY <3>1, <3>3, DigitTyped
  <2>3. CASE c # " " /\ ~IsDigit(c) /\ c \in DOMAIN Turn /\ p.state \in DOMAIN Turn[c]
    <3>1. Character(p, c) = [p EXCEPT !.state = Turn[c][p.state]]
      BY <1>2, <2>3 DEF Character
    <3>2. Turn[c][p.state] \in States
      BY <2>3 DEF Turn, States
    <3> QED
      BY <3>1, <3>2 DEF ParseState
  <2>4. CASE c # " " /\ ~IsDigit(c) /\ ~(c \in DOMAIN Turn /\ p.state \in DOMAIN Turn[c])
    <3>1. Character(p, c) = [p EXCEPT !.error = "InvalidDigit"]
      BY <1>2, <2>4 DEF Character
    <3> QED
      BY <3>1 DEF ParseState
  <2> QED
    BY <2>1, <2>2, <2>3, <2>4
<1> QED
  BY <1>1, <1>2

\* The recursion over a text has a solution: the states after each character.
LEMMA StatesExist ==
  ASSUME NEW t, NEW N \in Nat
  PROVE  \E g : g = [n \in 0 .. N |-> IF n = 0 THEN Begun ELSE Character(g[n - 1], t[n])]
<1> DEFINE Run(k, g) == g = [n \in 0 .. k |-> IF n = 0 THEN Begun ELSE Character(g[n - 1], t[n])]
           S == {k \in Nat : \E g : Run(k, g)}
<1>1. 0 \in S
  <2> DEFINE g == [n \in 0 .. 0 |-> Begun]
  <2>1. Run(0, g)
    OBVIOUS
  <2> HIDE DEF g
  <2> QED
    BY <2>1
<1>2. ASSUME NEW k \in Nat, k \in S
      PROVE  k + 1 \in S
  <2>1. PICK g : Run(k, g)
    BY <1>2
  <2> DEFINE h == [n \in 0 .. k + 1 |-> IF n <= k THEN g[n] ELSE Character(g[k], t[k + 1])]
  <2>2. \A n \in 0 .. k + 1 : h[n] = IF n = 0 THEN Begun ELSE Character(h[n - 1], t[n])
    <3> TAKE n \in 0 .. k + 1
    <3>1. CASE n = 0
      BY <2>1, <3>1
    <3>2. CASE n \in 1 .. k
      <4>1. n - 1 \in 0 .. k /\ n \in 0 .. k /\ n # 0 /\ n - 1 <= k /\ n <= k /\ n - 1 \in 0 .. k + 1
        BY <3>2
      <4>2. g[n] = Character(g[n - 1], t[n])
        BY <2>1, <4>1
      <4>3. h[n] = g[n] /\ h[n - 1] = g[n - 1]
        BY <4>1
      <4> QED
        BY <4>1, <4>2, <4>3
    <3>3. CASE n = k + 1
      <4>1. k \in 0 .. k + 1 /\ k <= k /\ n # 0 /\ n - 1 = k /\ ~(k + 1 <= k)
        BY <3>3
      <4>2. h[n] = Character(g[k], t[n]) /\ h[k] = g[k]
        BY <3>3, <4>1
      <4> QED
        BY <4>1, <4>2
    <3> QED
      BY <3>1, <3>2, <3>3
  <2>3. DOMAIN h = 0 .. k + 1
    OBVIOUS
  <2>4. h = [n \in DOMAIN h |-> h[n]]
    OBVIOUS
  <2> HIDE DEF h
  <2>5. h = [n \in 0 .. k + 1 |-> IF n = 0 THEN Begun ELSE Character(h[n - 1], t[n])]
    BY <2>2, <2>3, <2>4
  <2> QED
    BY <2>5
<1>3. \A k \in Nat : k \in S
  <2> HIDE DEF S
  <2> QED
    BY <1>1, <1>2, Induction
<1> QED
  BY <1>3

\* Whatever the text, no step of parse_with_multiply leaves the width of a type: the
\* mantissa stays a u64 and the exponent an i32.
THEOREM ParsedFits ==
  ASSUME NEW C, NEW t \in Seq(C)
  PROVE  Parsed(t) \in ParseState
<1>1. Len(t) \in Nat
  OBVIOUS
<1>2. PICK f : f = [n \in 0 .. Len(t) |-> IF n = 0 THEN Begun ELSE Character(f[n - 1], t[n])]
  BY <1>1, StatesExist
<1> DEFINE Run(g) == g = [n \in 0 .. Len(t) |-> IF n = 0 THEN Begun ELSE Character(g[n - 1], t[n])]
<1>3. PICK g : g = CHOOSE a : Run(a)
  OBVIOUS
<1>4. Run(g)
  <2>1. \E a : Run(a)
    BY <1>2
  <2> HIDE DEF Run
  <2> QED
    BY <1>3, <2>1
<1>5. Parsed(t) = g[Len(t)]
  BY <1>3 DEF Parsed
<1> DEFINE S == {n \in Nat : n <= Len(t) => g[n] \in ParseState}
<1>6. 0 \in S
  <2>1. g[0] = Begun
    BY <1>1, <1>4
  <2>2. Begun \in ParseState
    <3>1. ExpMax \in Nat /\ Max \in Nat
      BY SizeRangeAssumption, RangeAssumption
    <3>2. 0 \in U64 /\ 0 \in -ExpMax - 1 .. ExpMax /\ "Empty" \in States
      BY <3>1 DEF U64, States
    <3> QED
      BY <3>2 DEF Begun, ParseState
  <2> QED
    BY <2>1, <2>2
<1>7. ASSUME NEW n \in Nat, n \in S
      PROVE  n + 1 \in S
  <2> SUFFICES ASSUME n + 1 <= Len(t) PROVE g[n + 1] \in ParseState
    OBVIOUS
  <2>1. n + 1 \in 0 .. Len(t) /\ n + 1 # 0 /\ n + 1 - 1 = n /\ n <= Len(t)
    BY <1>1
  <2>2. g[n + 1] = Character(g[n], t[n + 1])
    BY <1>4, <2>1
  <2>3. g[n] \in ParseState
    BY <1>7, <2>1
  <2> QED
    BY <2>2, <2>3, CharacterTyped
<1>8. \A n \in Nat : n \in S
  <2> HIDE DEF S
  <2> QED
    BY <1>6, <1>7, Induction
<1> QED
  BY <1>1, <1>5, <1>8

\* The first k steps of a recursion over the numbers.
Steps(k, g, S, first, step) ==
  /\ g \in [0 .. k -> S] /\ g[0] = first
  /\ \A n \in Nat : n < k => g[n + 1] = step[n][g[n]]

\* A recursion has a solution up to any number, ...
LEMMA StepsExist ==
  ASSUME NEW S, NEW first \in S, NEW step \in [Nat -> [S -> S]], NEW N \in Nat
  PROVE  \E g : Steps(N, g, S, first, step)
<1> USE DEF Steps
<1> DEFINE K == {k \in Nat : \E g : Steps(k, g, S, first, step)}
<1>1. 0 \in K
  <2> DEFINE g == [n \in 0 .. 0 |-> first]
  <2>1. Steps(0, g, S, first, step)
    OBVIOUS
  <2> HIDE DEF g
  <2> QED
    BY <2>1
<1>2. ASSUME NEW k \in Nat, k \in K
      PROVE  k + 1 \in K
  <2>1. PICK g : Steps(k, g, S, first, step)
    BY <1>2
  <2>2. k \in 0 .. k /\ step[k][g[k]] \in S
    <3>1. k \in 0 .. k
      OBVIOUS
    <3>2. g[k] \in S /\ step[k] \in [S -> S]
      BY <2>1, <3>1
    <3> QED
      BY <3>1, <3>2
  <2> DEFINE h == [n \in 0 .. k + 1 |-> IF n <= k THEN g[n] ELSE step[k][g[k]]]
  <2>3. \A n \in 0 .. k + 1 : h[n] \in S
    <3> TAKE n \in 0 .. k + 1
    <3>1. n <= k => n \in 0 .. k /\ g[n] \in S
      BY <2>1
    <3> QED
      BY <2>2, <3>1
  <2>4. h[0] = first
    BY <2>1
  <2>5. ASSUME NEW n \in Nat, n < k + 1
        PROVE  h[n + 1] = step[n][h[n]]
    <3>1. n \in 0 .. k + 1 /\ n + 1 \in 0 .. k + 1 /\ n <= k
      BY <2>5
    <3>2. h[n] = g[n]
      BY <3>1
    <3>3. CASE n = k
      <4>1. ~(n + 1 <= k)
        BY <3>3
      <4>2. h[n + 1] = step[k][g[k]]
        BY <3>1, <4>1
      <4> QED
        BY <3>2, <3>3, <4>2
    <3>4. CASE n # k
      <4>1. n + 1 <= k /\ n < k
        BY <3>1, <3>4
      <4>2. h[n + 1] = g[n + 1] /\ g[n + 1] = step[n][g[n]]
        BY <2>1, <3>1, <4>1
      <4> QED
        BY <3>2, <4>2
    <3> QED
      BY <3>3, <3>4
  <2>6. h \in [0 .. k + 1 -> S]
    BY <2>3
  <2> HIDE DEF h
  <2>7. Steps(k + 1, h, S, first, step)
    BY <2>4, <2>5, <2>6
  <2> QED
    BY <2>7
<1>3. \A k \in Nat : k \in K
  <2> HIDE DEF K
  <2> QED
    BY <1>1, <1>2, Induction
<1> QED
  BY <1>3

\* ... all of them agree, ...
LEMMA StepsAgree ==
  ASSUME NEW S, NEW first, NEW step, NEW j \in Nat, NEW k \in Nat, NEW g, NEW h,
         Steps(j, g, S, first, step), Steps(k, h, S, first, step)
  PROVE  \A n \in Nat : n <= j /\ n <= k => g[n] = h[n]
<1> USE DEF Steps
<1> DEFINE N == {n \in Nat : n <= j /\ n <= k => g[n] = h[n]}
<1>1. 0 \in N
  OBVIOUS
<1>2. ASSUME NEW n \in Nat, n \in N
      PROVE  n + 1 \in N
  <2> SUFFICES ASSUME n + 1 <= j, n + 1 <= k PROVE g[n + 1] = h[n + 1]
    OBVIOUS
  <2>1. n < j /\ n < k /\ n <= j /\ n <= k
    OBVIOUS
  <2>2. g[n + 1] = step[n][g[n]] /\ h[n + 1] = step[n][h[n]]
    BY <2>1
  <2>3. g[n] = h[n]
    BY <1>2, <2>1
  <2> QED
    BY <2>2, <2>3
<1>3. \A n \in Nat : n \in N
  <2> HIDE DEF N
  <2> QED
    BY <1>1, <1>2, Induction
<1> QED
  BY <1>3

\* A recursion over all the numbers.
Unfolds(g, S, first, step) ==
  g \in [Nat -> S] /\ g[0] = first /\ \A n \in Nat : g[n + 1] = step[n][g[n]]

\* ... and so there is one for all the numbers.
LEMMA Recursion ==
  ASSUME NEW S, NEW first \in S, NEW step \in [Nat -> [S -> S]]
  PROVE  \E g : Unfolds(g, S, first, step)
<1> DEFINE Some(k) == CHOOSE g : Steps(k, g, S, first, step)
           G == [k \in Nat |-> Some(k)[k]]
<1>1. \A k \in Nat : Steps(k, Some(k), S, first, step)
  <2> TAKE k \in Nat
  <2>1. \E g : Steps(k, g, S, first, step)
    BY StepsExist
  <2> QED
    BY <2>1
<1> HIDE DEF Some
<1>2. \A k \in Nat : G[k] \in S
  BY <1>1 DEF Steps
<1>3. G[0] = first
  BY <1>1 DEF Steps
<1>4. \A n \in Nat : G[n + 1] = step[n][G[n]]
  <2> TAKE n \in Nat
  <2>1. PICK k \in Nat : k = n + 1
    OBVIOUS
  <2>a. PICK g, h : g = Some(n) /\ h = Some(k)
    OBVIOUS
  <2>2. Steps(n, g, S, first, step) /\ Steps(k, h, S, first, step)
    BY <1>1, <2>a
  <2>3. \A m \in Nat : m <= n /\ m <= k => g[m] = h[m]
    BY <2>2, StepsAgree
  <2>4. g[n] = h[n]
    BY <2>1, <2>3
  <2>5. h[n + 1] = step[n][h[n]]
    BY <2>1, <2>2 DEF Steps
  <2>6. G[n + 1] = h[n + 1] /\ G[n] = g[n]
    BY <2>1, <2>a
  <2> QED
    BY <2>4, <2>5, <2>6
<1>5. G \in [Nat -> S]
  BY <1>2
<1> HIDE DEF G
<1>6. Unfolds(G, S, first, step)
  BY <1>3, <1>4, <1>5 DEF Unfolds
<1> QED
  BY <1>6

\* So it is for the powers of ten.
LEMMA PowersOfTen ==
  /\ Pow10[0] = 1
  /\ \A n \in Nat : Pow10[n + 1] = 10 * Pow10[n]
<1> DEFINE All(g) == g = [n \in Nat |-> IF n = 0 THEN 1 ELSE 10 * g[n - 1]]
           step == [n \in Nat |-> [p \in Nat |-> 10 * p]]
<1>1. step \in [Nat -> [Nat -> Nat]]
  OBVIOUS
<1>2. \A n \in Nat, p \in Nat : step[n][p] = 10 * p
  OBVIOUS
<1>3. PICK G \in [Nat -> Nat] : G[0] = 1 /\ \A n \in Nat : G[n + 1] = step[n][G[n]]
  <2> HIDE DEF step
  <2>1. PICK S, first, next : S = Nat /\ first = 1 /\ next = step
    OBVIOUS
  <2>2. first \in S /\ next \in [Nat -> [S -> S]]
    BY <1>1, <2>1
  <2>3. PICK g : Unfolds(g, S, first, next)
    BY <2>2, Recursion
  <2> QED
    BY <2>1, <2>3 DEF Unfolds
<1> HIDE DEF step
<1>4. All(G)
  <2>1. \A n \in Nat : G[n] = IF n = 0 THEN 1 ELSE 10 * G[n - 1]
    <3> TAKE n \in Nat
    <3>1. CASE n = 0
      BY <1>3, <3>1
    <3>2. CASE n # 0
      <4>1. n - 1 \in Nat /\ n - 1 + 1 = n
        BY <3>2
      <4>2. G[n] = step[n - 1][G[n - 1]] /\ G[n - 1] \in Nat
        BY <1>3, <4>1
      <4> QED
        BY <1>2, <3>2, <4>1, <4>2
    <3> QED
      BY <3>1, <3>2
  <2> QED
    BY <2>1
<1>5. All(Pow10)
  <2>1. \E g : All(g)
    <3> HIDE DEF All
    <3> QED
      BY <1>4
  <2>2. PICK f : f = CHOOSE g : All(g)
    OBVIOUS
  <2>3. All(f)
    <3> HIDE DEF All
    <3> QED
      BY <2>1, <2>2
  <2>4. Pow10 = f
    BY <2>2 DEF Pow10
  <2> HIDE DEF All
  <2> QED
    BY <2>3, <2>4
<1>6. \A n \in Nat : Pow10[n] = IF n = 0 THEN 1 ELSE 10 * Pow10[n - 1]
  BY <1>5
<1>7. \A n \in Nat : Pow10[n + 1] = 10 * Pow10[n]
  <2> TAKE n \in Nat
  <2>1. n + 1 \in Nat /\ n + 1 # 0 /\ n + 1 - 1 = n
    OBVIOUS
  <2> QED
    BY <1>6, <2>1
<1> QED
  BY <1>6, <1>7

\* A power of ten is a natural number, and not zero.
LEMMA PowersAreNatural ==
  \A e \in Nat : Pow10[e] \in Nat \ {0}
<1> DEFINE S == {n \in Nat : Pow10[n] \in Nat \ {0}}
<1>1. 0 \in S
  BY PowersOfTen
<1>2. ASSUME NEW n \in Nat, n \in S
      PROVE  n + 1 \in S
  BY <1>2, PowersOfTen
<1>3. \A n \in Nat : n \in S
  <2> HIDE DEF S
  <2> QED
    BY <1>1, <1>2, Induction
<1> QED
  BY <1>3

-----------------------------------------------------------------------------
\* A size that is read is a u64, and what is refused has an error to say so.
Errors == {"Empty", "InvalidDigit", "SpaceNotAllowed", "PosOverflow"}

IsResult(r) ==
  /\ r.error \in {"none"} \cup Errors /\ r.size \in U64
  /\ r.error # "none" => r.size = 0

\* A refusal is a result, ...
LEMMA ResultOfRefuse ==
  ASSUME NEW e \in Errors
  PROVE  IsResult(Refuse(e))
BY RangeAssumption DEF Errors, IsResult, Refuse, U64

\* ... and so is a u64.
LEMMA ResultOfOk ==
  ASSUME NEW n \in U64
  PROVE  IsResult(Ok(n))
BY DEF IsResult, Ok

\* Rounding leaves a natural number, ...
LEMMA RoundedIsNatural ==
  ASSUME NEW n \in Nat, NEW power \in Nat \ {0}
  PROVE  Rounded(n, power) \in Nat
<1>1. PICK half \in Nat : half = power \div 2
  <2>1. power \div 2 \in Nat
    BY Z3
  <2> QED
    BY <2>1
<1>2. n + half \in Nat
  OBVIOUS
<1>3. \A m \in Nat : m \div power \in Nat
  BY Z3
<1> QED
  BY <1>1, <1>2, <1>3 DEF Rounded

\* ... as a product does.
LEMMA TimesIsNatural ==
  ASSUME NEW m \in Nat, NEW n \in Nat
  PROVE  m * n \in Nat
BY Z3

\* What is scaled fits or is refused.
LEMMA ScaledTyped ==
  ASSUME NEW mantissa \in U64, NEW multiply \in 1 .. Max, NEW e \in Int
  PROVE  IsResult(Scaled(mantissa, multiply, e))
<1>1. Max \in Nat /\ Cutoff \in Nat /\ mantissa \in Nat /\ multiply \in Nat
  BY RangeAssumption, SizeRangeAssumption DEF U64
<1>2. mantissa * multiply \in Nat
  BY <1>1, TimesIsNatural
<1> DEFINE fits == e <= Cutoff /\ multiply * Pow10[e] <= Max /\ mantissa * multiply * Pow10[e] <= Max
<1>3. PICK size : size = CASE e >= 0 -> IF fits THEN mantissa * multiply * Pow10[e] ELSE Max + 1
                           [] -Cutoff <= e /\ e < 0 -> Rounded(mantissa * multiply, Pow10[-e])
                           [] e < -Cutoff -> 0
  OBVIOUS
<1>4. size \in Nat
  <2>1. CASE e >= 0
    <3>1. size = IF fits THEN mantissa * multiply * Pow10[e] ELSE Max + 1
      BY <1>1, <1>3, <2>1
    <3>2. fits => mantissa * multiply * Pow10[e] \in Nat
      <4> SUFFICES ASSUME fits PROVE mantissa * multiply * Pow10[e] \in Nat
        OBVIOUS
      <4>1. e \in Nat
        BY <1>1, <2>1
      <4>2. Pow10[e] \in Nat
        BY <4>1, PowersAreNatural
      <4> QED
        BY <1>2, <4>2, TimesIsNatural
    <3> HIDE DEF fits
    <3> QED
      BY <1>1, <3>1, <3>2
  <2>2. CASE -Cutoff <= e /\ e < 0
    <3>1. size = Rounded(mantissa * multiply, Pow10[-e])
      BY <1>1, <1>3, <2>2
    <3>2. -e \in Nat
      BY <1>1, <2>2
    <3>3. Pow10[-e] \in Nat \ {0}
      BY <3>2, PowersAreNatural
    <3> QED
      BY <1>2, <3>1, <3>3, RoundedIsNatural
  <2>3. CASE e < -Cutoff
    BY <1>1, <1>3, <2>3
  <2> QED
    BY <1>1, <2>1, <2>2, <2>3
<1>5. Scaled(mantissa, multiply, e) = IF size <= Max THEN Ok(size) ELSE Refuse("PosOverflow")
  BY <1>3 DEF Scaled
<1>6. size <= Max => size \in U64
  BY <1>1, <1>4 DEF U64
<1>7. "PosOverflow" \in Errors
  BY DEF Errors
<1> QED
  BY <1>5, <1>6, <1>7, ResultOfOk, ResultOfRefuse

\* A number is read as a u64 or refused.
LEMMA ParseWithMultiplyTyped ==
  ASSUME NEW C, NEW t \in Seq(C), NEW multiply \in 1 .. Max
  PROVE  IsResult(ParseWithMultiply(t, multiply))
<1>1. PICK p \in ParseState : p = Parsed(t)
  BY ParsedFits
<1>2. ExpMax \in Nat
  BY SizeRangeAssumption
<1>3. /\ p.mantissa \in U64 /\ p.exponent \in Int /\ p.shift \in Int
      /\ p.error \in {"none", "PosOverflow", "SpaceNotAllowed", "InvalidDigit"}
  BY <1>2 DEF ParseState
<1>4. PICK e \in Int : e = IF p.exponent + p.shift > ExpMax THEN ExpMax ELSE p.exponent + p.shift
  BY <1>2, <1>3
<1>5. ParseWithMultiply(t, multiply) =
        CASE p.error # "none" -> Refuse(p.error)
          [] p.error = "none" /\ p.state = "Empty" -> Refuse("Empty")
          [] p.error = "none" /\ p.state \in {"PosExponent", "NegExponent"} /\ ~p.digit ->
               Refuse("InvalidDigit")
          [] OTHER -> Scaled(p.mantissa, multiply, e)
  BY <1>1, <1>4 DEF ParseWithMultiply
<1>6. /\ p.error # "none" => IsResult(Refuse(p.error))
      /\ IsResult(Refuse("Empty")) /\ IsResult(Refuse("InvalidDigit"))
  BY <1>3, ResultOfRefuse DEF Errors
<1>7. IsResult(Scaled(p.mantissa, multiply, e))
  BY <1>3, ScaledTyped
<1> QED
  BY <1>5, <1>6, <1>7

\* A part of a text is a text.
LEMMA PartOfText ==
  ASSUME NEW C, NEW t \in Seq(C), NEW m \in Int, NEW n \in Int, 1 <= m, n <= Len(t)
  PROVE  SubSeq(t, m, n) \in Seq(C)
OBVIOUS

\* A size with its unit is read as a u64 or refused.
LEMMA ParseSizeTyped ==
  ASSUME NEW C, NEW t \in Seq(C)
  PROVE  IsResult(ParseSize(t))
<1>1. \A s \in Seq(C) : FrontOf(s) \in Seq(C)
  <2> TAKE s \in Seq(C)
  <2>1. Len(s) - 1 \in Int /\ Len(s) - 1 <= Len(s)
    OBVIOUS
  <2> QED
    BY <2>1, PartOfText DEF FrontOf
<1>2. PICK noB \in Seq(C) : noB = IF EndsIn(t, {"b"}) THEN FrontOf(t) ELSE t
  BY <1>1
<1>3. PICK noI \in Seq(C) : noI = IF EndsIn(noB, {"i"}) THEN FrontOf(noB) ELSE noB
  BY <1>1
<1>4. ParseSize(t) =
        IF EndsIn(noI, Prefixes)
        THEN ParseWithMultiply(FrontOf(noI), IF EndsIn(noB, {"i"}) THEN Binary ELSE Decimal)
        ELSE ParseWithMultiply(noI, 1)
  BY <1>2, <1>3 DEF ParseSize
<1>5. 1 \in 1 .. Max /\ Binary \in 1 .. Max /\ Decimal \in 1 .. Max
  BY RangeAssumption, SizeRangeAssumption
<1>6. PICK factor \in 1 .. Max : factor = IF EndsIn(noB, {"i"}) THEN Binary ELSE Decimal
  BY <1>5
<1>7. FrontOf(noI) \in Seq(C)
  BY <1>1
<1>8. /\ IsResult(ParseWithMultiply(FrontOf(noI), factor))
      /\ IsResult(ParseWithMultiply(noI, 1))
  <2>1. IsResult(ParseWithMultiply(FrontOf(noI), factor))
    BY <1>7, ParseWithMultiplyTyped
  <2>2. IsResult(ParseWithMultiply(noI, 1))
    BY <1>5, ParseWithMultiplyTyped
  <2> QED
    BY <2>1, <2>2
<1> QED
  BY <1>4, <1>6, <1>8

\* str::trim takes characters off the ends.
LEMMA TrimTyped ==
  ASSUME NEW C, NEW t \in Seq(C)
  PROVE  Trim(t) \in Seq(C)
<1> DEFINE ink == {i \in 1 .. Len(t) : t[i] # " "}
<1>0. Len(t) \in Nat /\ ink \in SUBSET Nat /\ ink \in SUBSET (1 .. Len(t))
  <2>1. Len(t) \in Nat
    OBVIOUS
  <2> HIDE DEF ink
  <2>2. \A i \in ink : i \in 1 .. Len(t)
    BY DEF ink
  <2> QED
    BY <2>1, <2>2
<1>a. Trim(t) = IF ink = {} THEN <<>> ELSE SubSeq(t, First(ink), Final(ink))
  BY DEF Trim
<1> HIDE DEF ink
<1>1. CASE ink = {}
  BY <1>1, <1>a
<1>2. CASE ink # {}
  <2>1. First(ink) \in ink
    <3>1. PICK i \in ink : \A j \in ink : i <= j
      BY <1>0, <1>2, LeastNumber
    <3> QED
      BY <3>1 DEF First
  <2>2. Final(ink) \in ink
    <3>1. PICK i \in ink : \A j \in ink : j <= i
      BY <1>0, <1>2, GreatestNumber
    <3> QED
      BY <3>1 DEF Final
  <2>3. First(ink) \in Int /\ Final(ink) \in Int /\ 1 <= First(ink) /\ Final(ink) <= Len(t)
    <3>1. First(ink) \in 1 .. Len(t) /\ Final(ink) \in 1 .. Len(t)
      BY <1>0, <2>1, <2>2
    <3> QED
      BY <1>0, <3>1
  <2>4. Trim(t) = SubSeq(t, First(ink), Final(ink))
    BY <1>2, <1>a
  <2> QED
    BY <2>3, <2>4, PartOfText
<1> QED
  BY <1>1, <1>2

\* A text is cut into texts.
Halves(C) == Seq(C) \X Seq(C)

\* Each side of a delimiter is a text.
LEMMA CutTyped ==
  ASSUME NEW C, NEW t \in Seq(C), NEW i \in 1 .. Len(t), NEW width \in {1, 2}
  PROVE  Cut(t, i, width) \in Halves(C)
<1>1. Len(t) \in Int /\ i - 1 \in Int /\ i + width \in Int /\ 1 <= i + width /\ i - 1 <= Len(t)
  OBVIOUS
<1>2. SubSeq(t, 1, i - 1) \in Seq(C)
  BY <1>1, PartOfText
<1>3. SubSeq(t, i + width, Len(t)) \in Seq(C)
  BY <1>1, PartOfText
<1> QED
  BY <1>2, <1>3 DEF Cut, Halves

\* A text is one size or is cut into two texts.
LEMMA TrySplitTyped ==
  ASSUME NEW C, NEW t \in Seq(C)
  PROVE  TrySplit(t) \in {<<>>} \cup Halves(C)
<1> DEFINE dots == Occurrences(t, <<".", ".">>)
           commas == Occurrences(t, <<",">>)
           dashes == DashDelimiters(t)
<1>1. Len(t) \in Nat
  OBVIOUS
<1>2. dots \in SUBSET (1 .. Len(t)) /\ commas \in SUBSET (1 .. Len(t))
  <2>1. Len(<<".", ".">>) = 2 /\ Len(<<",">>) = 1
    OBVIOUS
  <2>2. \A i \in 1 .. Len(t) - 2 + 1 : i \in 1 .. Len(t)
    BY <1>1
  <2>3. \A i \in 1 .. Len(t) - 1 + 1 : i \in 1 .. Len(t)
    BY <1>1
  <2>4. \A d, i : i \in Occurrences(t, d) => i \in 1 .. Len(t) - Len(d) + 1
    BY DEF Occurrences
  <2> QED
    BY <2>1, <2>2, <2>3, <2>4
<1>3. dashes \in SUBSET (1 .. Len(t))
  BY <1>1 DEF DashDelimiters
<1>4. ASSUME NEW S \in SUBSET (1 .. Len(t)), S # {}
      PROVE  First(S) \in 1 .. Len(t) /\ Final(S) \in 1 .. Len(t)
  <2>1. S \in SUBSET Nat
    OBVIOUS
  <2>2. PICK i \in S : \A j \in S : i <= j
    BY <1>4, <2>1, LeastNumber
  <2>3. PICK k \in S : \A j \in S : j <= k
    BY <1>1, <1>4, GreatestNumber
  <2>4. First(S) \in S
    BY <2>2 DEF First
  <2>5. Final(S) \in S
    BY <2>3 DEF Final
  <2> QED
    BY <2>4, <2>5
<1> HIDE DEF dots, commas, dashes
<1>5. CASE dots # {}
  <2>1. TrySplit(t) = Cut(t, First(dots), 2)
    BY <1>5 DEF TrySplit, dots
  <2>2. First(dots) \in 1 .. Len(t)
    BY <1>2, <1>4, <1>5
  <2> QED
    BY <2>1, <2>2, CutTyped
<1>6. CASE dots = {} /\ commas # {}
  <2>1. TrySplit(t) = Cut(t, First(commas), 1)
    BY <1>6 DEF TrySplit, dots, commas
  <2>2. First(commas) \in 1 .. Len(t)
    BY <1>2, <1>4, <1>6
  <2> QED
    BY <2>1, <2>2, CutTyped
<1>7. CASE dots = {} /\ commas = {}
  <2>1. TrySplit(t) = IF t # <<>> /\ t[1] = "-" THEN Cut(t, 1, 1)
                      ELSE IF dashes # {} THEN Cut(t, Final(dashes), 1) ELSE <<>>
    BY <1>7 DEF TrySplit, dots, commas, dashes
  <2>2. t # <<>> => 1 \in 1 .. Len(t)
    OBVIOUS
  <2>3. t # <<>> => Cut(t, 1, 1) \in Halves(C)
    BY <2>2, CutTyped
  <2>4. dashes # {} => Cut(t, Final(dashes), 1) \in Halves(C)
    <3> SUFFICES ASSUME dashes # {} PROVE Cut(t, Final(dashes), 1) \in Halves(C)
      OBVIOUS
    <3>1. Final(dashes) \in 1 .. Len(t)
      BY <1>3, <1>4
    <3> QED
      BY <3>1, CutTyped
  <2> QED
    BY <2>1, <2>3, <2>4
<1> QED
  BY <1>5, <1>6, <1>7

\* A range that is accepted has a start and an end of its types, in this order;
\* one that is refused has an error to say so.
LEMMA FromStrTyped ==
  ASSUME NEW C, NEW t \in Seq(C)
  PROVE  LET range == FromStr(t, None)
         IN  /\ range.error \in {"none", "inverted"} \cup Errors
             /\ range.error = "none" =>
                  /\ range.start \in U64 /\ range.end \in Limit
                  /\ range.end > range.start \/ range.start = 0
<1>1. Max \in Nat
  BY RangeAssumption
<1>2. Trim(t) \in Seq(C)
  BY TrimTyped
<1>3. PICK sides \in {<<>>} \cup Halves(C) : sides = TrySplit(Trim(t))
  BY <1>2, TrySplitTyped
<1>4. sides # <<>> => sides[1] \in Seq(C) /\ sides[2] \in Seq(C)
  BY <1>3 DEF Halves
<1>5. PICK left : left = IF sides = <<>> THEN Ok(0) ELSE SideOr(sides[1], 0)
  OBVIOUS
<1>6. PICK right : right = IF sides = <<>> THEN ParseSize(Trim(t)) ELSE SideOr(sides[2], None)
  OBVIOUS
<1>7. PICK error : error = CASE sides = << <<>>, <<>> >> -> "Empty"
                             [] sides # << <<>>, <<>> >> /\ left.error # "none" -> left.error
                             [] OTHER -> right.error
  OBVIOUS
<1>8. FromStr(t, None) =
        [error |-> IF error = "none" /\ sides # <<>> /\ right.size <= left.size
                   THEN "inverted" ELSE error,
         start |-> left.size, end |-> right.size]
  BY <1>3, <1>5, <1>6, <1>7 DEF FromStr
<1>9. 0 \in U64
  BY <1>1 DEF U64
<1>10. IsResult(left) /\ (sides = <<>> => left.size = 0)
  <2>1. CASE sides = <<>>
    BY <1>5, <1>9, <2>1, ResultOfOk DEF Ok
  <2>2. CASE sides # <<>>
    <3>1. IsResult(ParseSize(sides[1]))
      BY <1>4, <2>2, ParseSizeTyped
    <3> QED
      BY <1>5, <1>9, <2>2, <3>1, ResultOfOk DEF SideOr
  <2> QED
    BY <2>1, <2>2
<1>11. right.error \in {"none"} \cup Errors /\ right.size \in Limit
  <2>1. CASE sides = <<>>
    <3>1. IsResult(ParseSize(Trim(t)))
      BY <1>2, ParseSizeTyped
    <3> QED
      BY <1>6, <2>1, <3>1 DEF IsResult, Limit
  <2>2. CASE sides # <<>> /\ sides[2] = <<>>
    BY <1>6, <2>2 DEF SideOr, Ok, Limit
  <2>3. CASE sides # <<>> /\ sides[2] # <<>>
    <3>1. IsResult(ParseSize(sides[2]))
      BY <1>4, <2>3, ParseSizeTyped
    <3> QED
      BY <1>6, <2>3, <3>1 DEF SideOr, IsResult, Limit
  <2> QED
    BY <2>1, <2>2, <2>3
<1>12. error \in {"none"} \cup Errors /\ (error = "none" => left.error = "none" /\ right.error = "none")
  <2>1. sides = << <<>>, <<>> >> => error = "Empty"
    BY <1>7
  <2>2. sides # << <<>>, <<>> >> => error = IF left.error # "none" THEN left.error ELSE right.error
    BY <1>7
  <2> QED
    BY <1>10, <1>11, <2>1, <2>2 DEF IsResult, Errors
<1>13. left.size \in U64
  BY <1>10 DEF IsResult
<1>14. left.size \in Int /\ right.size \in Int
  BY <1>1, <1>11, <1>13 DEF U64, Limit, None
<1>15. CASE error = "none" /\ sides # <<>> /\ right.size <= left.size
  BY <1>8, <1>15
<1>16. CASE ~(error = "none" /\ sides # <<>> /\ right.size <= left.size)
  BY <1>8, <1>10, <1>11, <1>12, <1>13, <1>14, <1>16
<1> QED
  BY <1>15, <1>16

-----------------------------------------------------------------------------
\* Until its text is read a range is nothing, and so it stays when the text is
\* refused; whatever is read is a range as Range has it.
TextInv ==
  IF pc = "read" \/ status \in Errors
  THEN /\ cli = TRUE /\ fileLen \in U64
       /\ start = 0 /\ end = 0 /\ offset = 0 /\ maxLen = None /\ len = 0
       /\ IF pc = "read" THEN status = "none" /\ TextOf(written) \in Text
          ELSE pc = "done" /\ status \in Errors
  ELSE IInv

\* Two texts make a text, ...
LEMMA JoinedTexts ==
  ASSUME NEW a \in Text, NEW b \in Text
  PROVE  a \o b \in Text
<1>1. PICK C : Text = Seq(C)
  BY DEF Text
<1>2. \A s, t \in Seq(C) : s \o t \in Seq(C)
  OBVIOUS
<1> QED
  BY <1>1, <1>2

\* ... as the punctuation does, ...
LEMMA TextOfSigns ==
  /\ <<>> \in Text /\ <<"k">> \in Text /\ <<"e">> \in Text /\ <<"i">> \in Text
  /\ <<"b">> \in Text /\ <<"-">> \in Text /\ <<",">> \in Text /\ <<".", ".">> \in Text
<1>1. PICK C : Text = Seq(C) /\ {"k", "e", "i", "b", "-", ",", "."} \subseteq C
  BY DEF Text, Prefixes
<1>2. \A c \in C : <<c>> \in Seq(C)
  OBVIOUS
<1>3. \A c, d \in C : <<c, d>> \in Seq(C)
  OBVIOUS
<1>4. <<>> \in Seq(C)
  OBVIOUS
<1> QED
  BY <1>1, <1>2, <1>3, <1>4

\* ... a size with its unit, ...
LEMMA TextOfSize ==
  ASSUME NEW s, IsSide(s)
  PROVE  SizeOf(s) \in Text
<1>1. s.int \in Text /\ s.frac \in Text /\ s.exp \in Text /\ s.unit \in Units
  BY DEF IsSide
<1>2. s.unit \in Text
  <2>1. PICK prefix \in {<<>>, <<"k">>, <<"e">>}, i \in {<<>>, <<"i">>}, b \in {<<>>, <<"b">>} :
          s.unit = prefix \o i \o b
    BY <1>1 DEF Units
  <2>2. prefix \in Text /\ i \in Text /\ b \in Text
    BY TextOfSigns
  <2>3. prefix \o i \in Text
    BY <2>2, JoinedTexts
  <2> QED
    BY <2>1, <2>2, <2>3, JoinedTexts
<1>3. PICK a \in Text, b \in Text, c \in Text, d \in Text :
        a = s.int /\ b = s.frac /\ c = s.exp /\ d = s.unit
  BY <1>1, <1>2
<1>4. a \o b \in Text
  BY JoinedTexts
<1>5. a \o b \o c \in Text
  BY <1>4, JoinedTexts
<1>6. a \o b \o c \o d \in Text
  BY <1>5, JoinedTexts
<1> QED
  BY <1>3, <1>6 DEF SizeOf

\* ... and two sizes and their delimiter.
LEMMA TextOfSides ==
  ASSUME NEW w, IsSide(w.left), IsSide(w.right), w.delim \in Delimiters
  PROVE  TextOf(w) \in Text
<1>1. w.delim \in Text
  BY TextOfSigns DEF Delimiters
<1>2. PICK left \in Text, right \in Text, delim \in Text :
        left = SizeOf(w.left) /\ right = SizeOf(w.right) /\ delim = w.delim
  BY <1>1, TextOfSize
<1>3. left \o delim \in Text
  BY JoinedTexts
<1>4. left \o delim \o right \in Text
  BY <1>3, JoinedTexts
<1> QED
  BY <1>2, <1>4 DEF TextOf

\* Before the text is read there is nothing but the text.
LEMMA InitTextInv == TextInit => TextInv
<1>1. CASE Init /\ ~cli /\ written = Unwritten
  <2>1. IInv
    BY <1>1, InitIInv
  <2>2. pc # "read" /\ status \notin Errors
    BY <1>1 DEF Init, Errors
  <2> QED
    BY <2>1, <2>2 DEF TextInv
<1>2. ASSUME NEW f \in DOMAIN Inputs, cli = TRUE, pc = "read",
             written \in [left : Inputs[f].left, delim : Inputs[f].delim, right : Inputs[f].right],
             fileLen \in Inputs[f].fileLen,
             start = 0, end = 0, offset = 0, maxLen = None, len = 0, status = "none"
      PROVE  TextInv
  <2>1. /\ \A s \in Inputs[f].left \cup Inputs[f].right : IsSide(s)
        /\ Inputs[f].delim \subseteq Delimiters /\ Inputs[f].fileLen \subseteq U64
    BY SizeRangeAssumption
  <2>2. IsSide(written.left) /\ IsSide(written.right) /\ written.delim \in Delimiters
    BY <1>2, <2>1
  <2>3. TextOf(written) \in Text
    BY <2>2, TextOfSides
  <2>4. fileLen \in U64
    BY <1>2, <2>1
  <2> QED
    BY <1>2, <2>3, <2>4 DEF TextInv
<1> QED
  BY <1>1, <1>2 DEF TextInit

\* The text is read.
LEMMA ReadTextInv == TextInv /\ Read => TextInv'
<1> SUFFICES ASSUME TextInv, Read PROVE TextInv'
  OBVIOUS
<1>1. /\ pc = "read" /\ cli = TRUE /\ fileLen \in U64 /\ status = "none"
      /\ start = 0 /\ end = 0 /\ offset = 0 /\ maxLen = None /\ len = 0
      /\ TextOf(written) \in Text
  BY DEF TextInv, Read
<1>2. PICK range : range = FromStr(TextOf(written), None)
  OBVIOUS
<1>3. /\ range.error \in {"none", "inverted"} \cup Errors
      /\ range.error = "none" =>
           /\ range.start \in U64 /\ range.end \in Limit
           /\ range.end > range.start \/ range.start = 0
  BY <1>1, <1>2, FromStrTyped DEF Text
<1>4. \/ range.error # "none" /\ Stop(range.error)
      \/ /\ range.error = "none"
         /\ start' = range.start /\ end' = range.end
         /\ pc' = "setup"
         /\ UNCHANGED <<cli, fileLen, offset, maxLen, len, status>>
  BY <1>2 DEF Read
<1>5. Max \in Nat /\ UsizeMax \in Nat
  BY RangeAssumption
<1>6. CASE range.error \in Errors /\ Stop(range.error)
  BY <1>1, <1>6 DEF Stop, request, TextInv, Errors, U64, None
<1>7. CASE range.error = "inverted" /\ Stop(range.error)
  <2>1. IInv'
    BY <1>1, <1>5, <1>7
       DEF Stop, request, IInv, TypeOK, Causes, FromCli, Beyond, Checked, CliRangeIsValid, U64,
           Limit, None
  <2>2. pc' # "read" /\ status' \notin Errors
    BY <1>7 DEF Stop, Errors
  <2> QED
    BY <2>1, <2>2 DEF TextInv
<1>8. CASE /\ range.error = "none"
           /\ start' = range.start /\ end' = range.end
           /\ pc' = "setup"
           /\ UNCHANGED <<cli, fileLen, offset, maxLen, len, status>>
  <2>1. IInv'
    BY <1>1, <1>3, <1>5, <1>8
       DEF IInv, TypeOK, Causes, FromCli, Beyond, Checked, CliRangeIsValid, U64, Limit, None
  <2>2. pc' # "read" /\ status' \notin Errors
    BY <1>1, <1>8 DEF Errors
  <2> QED
    BY <2>1, <2>2 DEF TextInv
<1> QED
  BY <1>3, <1>4, <1>6, <1>7, <1>8

\* From then on the steps are those of Range.
LEMMA NextTextInv == TextInv /\ [TextNext]_<<vars, written>> => TextInv'
<1> SUFFICES ASSUME TextInv, [TextNext]_<<vars, written>> PROVE TextInv'
  OBVIOUS
<1>1. CASE Read
  BY <1>1, ReadTextInv
<1>2. CASE (Setup \/ Validate \/ Resolve)
  <2>1. pc \in {"setup", "validate", "resolve"}
    BY <1>2 DEF Setup, Validate, Resolve
  <2>2. IInv
    BY <2>1 DEF TextInv
  <2>3. IInv'
    BY <1>2, <2>2, SetupIInv, ValidateIInv, ResolveIInv
  <2>4. status = "none"
    BY <2>1, <2>2 DEF IInv, Causes
  <2>5. pc' # "read" /\ status' \notin Errors
    BY <1>2, <2>1, <2>4 DEF Setup, Validate, Resolve, Stop, Continue, request, Errors
  <2> QED
    BY <2>3, <2>5 DEF TextInv
<1>3. CASE UNCHANGED <<vars, written>>
  <2>1. UNCHANGED vars /\ written' = written
    BY <1>3
  <2>2. CASE pc = "read" \/ status \in Errors
    <3>1. TextOf(written)' = TextOf(written)
      BY <2>1 DEF TextOf, SizeOf
    <3> QED
      BY <2>1, <2>2, <3>1 DEF TextInv, vars
  <2>3. CASE ~(pc = "read" \/ status \in Errors)
    <3>1. IInv'
      BY <2>1, <2>3, StutterIInv DEF TextInv
    <3>2. pc' = pc /\ status' = status
      BY <2>1 DEF vars
    <3> QED
      BY <2>3, <3>1, <3>2 DEF TextInv
  <2> QED
    BY <2>2, <2>3
<1> QED
  BY <1>1, <1>2, <1>3 DEF TextNext

\* The invariant holds whatever the text.
LEMMA TextInvHolds == TextSpec => []TextInv
BY InitTextInv, NextTextInv, PTL DEF TextSpec

\* Whatever is written after --range, what is mapped is not empty, aligned, and
\* inside the file.
THEOREM TextStaysInFile == TextSpec => []StaysInFile
<1>1. TextInv => StaysInFile
  BY InvStaysInFile DEF TextInv, StaysInFile, Errors
<1> QED
  BY <1>1, TextInvHolds, PTL

\* The pages mapped are those that hold a byte of the range that was read, and
\* the page of its start, whatever text it was read from.
THEOREM TextPagesAreExact == TextSpec => []ExactPages
<1>1. TextInv => ExactPages
  BY InvExactPages DEF TextInv, ExactPages, Errors
<1> QED
  BY <1>1, TextInvHolds, PTL

\* No file with a byte of the range that was read is skipped or refused, unless
\* the mapping would be longer than a usize.
THEOREM TextIsNotMissed == TextSpec => []NothingIsMissed
<1>1. TextInv /\ status \in Errors => RequestedPages = {}
  <2> SUFFICES ASSUME TextInv, status \in Errors, NEW b \in U64, start <= b, b < Least(end, fileLen)
               PROVE  FALSE
    BY DEF RequestedPages
  <2>1. start = 0 /\ end = 0 /\ fileLen \in Nat /\ b \in Nat
    BY RangeAssumption DEF TextInv, U64
  <2> QED
    BY <2>1 DEF Least
<1>2. TextInv => NothingIsMissed
  <2>1. CASE status \in Errors
    BY <1>1, <2>1 DEF NothingIsMissed
  <2>2. CASE status \notin Errors
    BY <2>2, InvNothingIsMissed DEF TextInv, NothingIsMissed
  <2> QED
    BY <2>1, <2>2
<1> QED
  BY <1>2, TextInvHolds, PTL

\* No text makes a range that common_setup accepts and the library refuses.
THEOREM TextIsValid == TextSpec => []CliRangeIsValid
<1>1. TextInv => CliRangeIsValid
  BY DEF TextInv, IInv, CliRangeIsValid, Errors
<1> QED
  BY <1>1, TextInvHolds, PTL

-----------------------------------------------------------------------------
(***************************************************************************)
(* The digits that are kept of a number, and the size that is nearest to it.*)
(***************************************************************************)
\* A larger factor makes a product no smaller.
LEMMA TimesGrows ==
  ASSUME NEW a \in Int, NEW b \in Int, NEW c \in Nat, a <= b
  PROVE  a * c <= b * c
<1>1. (b - a) * c >= 0
  BY Z3
<1>2. (b - a) * c = b * c - a * c
  BY Z3
<1> QED
  BY <1>1, <1>2, Z3

\* The powers of ten grow.
LEMMA PowersGrow ==
  ASSUME NEW j \in Nat, NEW k \in Nat, j <= k
  PROVE  Pow10[j] <= Pow10[k]
<1> DEFINE S == {n \in Nat : Pow10[j] <= Pow10[j + n]}
<1>1. 0 \in S
  BY PowersAreNatural
<1>2. ASSUME NEW n \in Nat, n \in S
      PROVE  n + 1 \in S
  <2>1. Pow10[j + n] \in Nat /\ Pow10[j] \in Nat
    BY PowersAreNatural
  <2>2. j + n \in Nat /\ j + (n + 1) = j + n + 1
    OBVIOUS
  <2>3. Pow10[j + (n + 1)] = 10 * Pow10[j + n]
    BY <2>2, PowersOfTen
  <2> QED
    BY <1>2, <2>1, <2>3
<1>3. \A n \in Nat : n \in S
  <2> HIDE DEF S
  <2> QED
    BY <1>1, <1>2, Induction
<1>4. k - j \in Nat /\ j + (k - j) = k
  OBVIOUS
<1> QED
  BY <1>3, <1>4

\* m is what is kept of the digits of value, all but the last k.
Keeps(m, k, value) ==
  /\ m \in 0 .. Max + 1 /\ k \in Nat
  /\ k > 0 => (Max + 1) * Pow10[k - 1] <= value
  /\ value < (Max + 1) * Pow10[k] /\ Rounds(m, value, Pow10[k])

\* All digits are kept while they fit, ...
LEMMA KeepsAll ==
  ASSUME NEW value \in U64
  PROVE  Keeps(value, 0, value)
BY PowersOfTen, RangeAssumption DEF Keeps, Rounds, U64

\* ... they may be all, ...
LEMMA AllAreKept ==
  ASSUME NEW value \in Nat, NEW m, Keeps(m, 0, value)
  PROVE  m = value /\ value <= Max
BY PowersOfTen, RangeAssumption DEF Keeps, Rounds

\* ... the first that does not is rounded into them, ...
LEMMA KeepsFirst ==
  ASSUME NEW value \in U64, NEW d \in 0 .. 9, value * 10 + d > Max
  PROVE  Keeps(value + (IF d >= 5 THEN 1 ELSE 0), 1, value * 10 + d)
<1>1. Pow10[1] = 10 /\ Pow10[0] = 1
  <2>1. Pow10[0 + 1] = 10 * Pow10[0] /\ Pow10[0] = 1
    BY PowersOfTen
  <2> QED
    BY <2>1
<1>2. Max \in Nat /\ value \in Nat /\ value <= Max
  BY RangeAssumption DEF U64
<1>3. PICK m : m = value + (IF d >= 5 THEN 1 ELSE 0)
  OBVIOUS
<1>4. m \in 0 .. Max + 1 /\ m \in Nat
  BY <1>2, <1>3
<1>5. Rounds(m, value * 10 + d, 10)
  BY <1>2, <1>3, <1>4 DEF Rounds
<1> QED
  BY <1>1, <1>2, <1>3, <1>4, <1>5 DEF Keeps

\* ... and then the places are counted.
LEMMA KeepsNext ==
  ASSUME NEW value \in Nat, NEW d \in 0 .. 9, NEW m, NEW k, k # 0, Keeps(m, k, value)
  PROVE  Keeps(m, k + 1, value * 10 + d)
<1>1. Max \in Nat /\ m \in 0 .. Max + 1 /\ m \in Nat /\ k \in Nat /\ k - 1 \in Nat /\ k + 1 \in Nat
  BY RangeAssumption DEF Keeps
<1>2. PICK q \in Nat \ {0} : q = Pow10[k - 1]
  BY <1>1, PowersAreNatural
<1>3. Pow10[k] = 10 * q /\ Pow10[k + 1] = 100 * q
  <2>1. Pow10[k - 1 + 1] = 10 * Pow10[k - 1] /\ Pow10[k + 1] = 10 * Pow10[k] /\ k - 1 + 1 = k
    BY <1>1, PowersOfTen
  <2> QED
    BY <1>2, <2>1
<1>4. PICK x \in Nat, y \in Int : x = (Max + 1) * q /\ y = m * q
  <2>1. (Max + 1) * q \in Nat /\ m * q \in Int
    BY <1>1, <1>2, TimesIsNatural
  <2> QED
    BY <2>1
<1>5. /\ (Max + 1) * (10 * q) = 10 * x /\ (Max + 1) * (100 * q) = 100 * x
      /\ (2 * m - 1) * (10 * q) = 20 * y - 10 * q /\ (2 * m + 1) * (10 * q) = 20 * y + 10 * q
      /\ (2 * m - 1) * (100 * q) = 200 * y - 100 * q /\ (2 * m + 1) * (100 * q) = 200 * y + 100 * q
  <2>1. ASSUME NEW a \in Int, NEW b \in Int
       PROVE a * (10 * b) = 10 * (a * b) /\ a * (100 * b) = 100 * (a * b)
    BY Z3
  <2>2. (2 * m - 1) * q = 2 * y - q
    BY <1>1, <1>2, <1>4, Z3
  <2>3. (2 * m + 1) * q = 2 * y + q
    BY <1>1, <1>2, <1>4, Z3
  <2>4. Max + 1 \in Int /\ 2 * m - 1 \in Int /\ 2 * m + 1 \in Int /\ q \in Int
    BY <1>1, <1>2
  <2>5. (Max + 1) * (10 * q) = 10 * x /\ (Max + 1) * (100 * q) = 100 * x
    BY <1>4, <2>1, <2>4
  <2>6. (2 * m - 1) * (10 * q) = 10 * (2 * y - q) /\ (2 * m - 1) * (100 * q) = 100 * (2 * y - q)
    BY <2>1, <2>2, <2>4
  <2>7. (2 * m + 1) * (10 * q) = 10 * (2 * y + q) /\ (2 * m + 1) * (100 * q) = 100 * (2 * y + q)
    BY <2>1, <2>3, <2>4
  <2> QED
    BY <1>2, <1>4, <2>5, <2>6, <2>7
<1>6. /\ x <= value /\ value < 10 * x
      /\ 20 * y - 10 * q <= 2 * value /\ 2 * value < 20 * y + 10 * q
  BY <1>1, <1>2, <1>3, <1>4, <1>5 DEF Keeps, Rounds
<1>7. /\ 10 * x <= value * 10 + d /\ value * 10 + d < 100 * x
      /\ 200 * y - 100 * q <= 2 * (value * 10 + d)
      /\ 2 * (value * 10 + d) < 200 * y + 100 * q
  BY <1>2, <1>4, <1>6
<1>8. Rounds(m, value * 10 + d, 100 * q)
  BY <1>5, <1>7 DEF Rounds
<1>9. k + 1 > 0 /\ k + 1 - 1 = k
  BY <1>1
<1> QED
  BY <1>1, <1>3, <1>5, <1>7, <1>8, <1>9 DEF Keeps

\* What is rounded is rounded to one number.
LEMMA RoundsOnce ==
  ASSUME NEW num \in Int, NEW den \in Nat \ {0}, NEW v \in Int, NEW w \in Int,
         (2 * w - 1) * den <= 2 * num, 2 * num < (2 * v + 1) * den
  PROVE  w <= v
<1> SUFFICES ASSUME v < w PROVE FALSE
  OBVIOUS
<1>1. (2 * v + 1) * den <= (2 * w - 1) * den
  <2>1. 2 * v + 1 \in Int /\ 2 * w - 1 \in Int /\ 2 * v + 1 <= 2 * w - 1
    OBVIOUS
  <2> QED
    BY <2>1, TimesGrows
<1>2. PICK x \in Int, y \in Int : x = (2 * v + 1) * den /\ y = (2 * w - 1) * den
  OBVIOUS
<1> QED
  BY <1>1, <1>2

\* There is one way to keep the digits of a number.
LEMMA KeepsOnce ==
  ASSUME NEW value \in Nat, NEW m, NEW k, NEW n, NEW j, Keeps(m, k, value), Keeps(n, j, value)
  PROVE  m = n /\ k = j
<1>1. Max \in Nat /\ m \in Int /\ n \in Int /\ k \in Nat /\ j \in Nat
  BY RangeAssumption DEF Keeps
<1>2. ASSUME NEW a \in Nat, NEW b \in Nat, a < b, value < (Max + 1) * Pow10[a],
             (Max + 1) * Pow10[b - 1] <= value
      PROVE  FALSE
  <2>1. PICK p \in Nat, q \in Nat : p = Pow10[a] /\ q = Pow10[b - 1] /\ p <= q
    <3>1. b - 1 \in Nat /\ a <= b - 1
      BY <1>2
    <3> QED
      BY <3>1, PowersAreNatural, PowersGrow
  <2>2. p * (Max + 1) <= q * (Max + 1)
    BY <1>1, <2>1, TimesGrows
  <2>3. p * (Max + 1) = (Max + 1) * p /\ q * (Max + 1) = (Max + 1) * q
    BY <1>1, <2>1, Z3
  <2>4. (Max + 1) * p \in Nat /\ (Max + 1) * q \in Nat
    BY <1>1, <2>1, TimesIsNatural
  <2> QED
    BY <1>2, <2>1, <2>2, <2>3, <2>4
<1>3. k = j
  <2>1. ~(k < j)
    BY <1>1, <1>2 DEF Keeps
  <2>2. ~(j < k)
    BY <1>1, <1>2 DEF Keeps
  <2> QED
    BY <1>1, <2>1, <2>2
<1>4. PICK p \in Nat \ {0} : p = Pow10[k]
  BY <1>1, PowersAreNatural
<1>5. Rounds(m, value, p) /\ Rounds(n, value, p)
  BY <1>3, <1>4 DEF Keeps
<1>6. m <= n /\ n <= m
  BY <1>1, <1>5, RoundsOnce DEF Rounds
<1> QED
  BY <1>1, <1>3, <1>6

\* v is the size nearest to num/den, if it is no larger than Max.
IsNearest(v, num, den) ==
  /\ v \in 0 .. Max + 1
  /\ IF v <= Max THEN Rounds(v, num, den) ELSE (2 * v - 1) * den <= 2 * num

\* There is one such size.
LEMMA NearestOnce ==
  ASSUME NEW num \in Nat, NEW den \in Nat \ {0}, NEW v, NEW w,
         IsNearest(v, num, den), IsNearest(w, num, den)
  PROVE  v = w
<1>1. Max \in Nat /\ v \in Int /\ w \in Int /\ v <= Max + 1 /\ w <= Max + 1
  BY RangeAssumption DEF IsNearest
<1>2. (2 * v - 1) * den <= 2 * num /\ (2 * w - 1) * den <= 2 * num
  BY DEF IsNearest, Rounds
<1>3. v <= Max => w <= v
  BY <1>1, <1>2, RoundsOnce DEF IsNearest, Rounds
<1>4. w <= Max => v <= w
  BY <1>1, <1>2, RoundsOnce DEF IsNearest, Rounds
<1> QED
  BY <1>1, <1>3, <1>4

\* Nearest is taken with the power of ten above, ...
LEMMA NearestAbove ==
  ASSUME NEW n \in Nat, NEW power \in Nat, NEW v,
         IsNearest(v, n * Pow10[IF power <= Cutoff THEN power ELSE Cutoff + 1], 1)
  PROVE  Nearest(n, power) = v
<1>1. Cutoff \in Nat /\ Max \in Nat
  BY SizeRangeAssumption, RangeAssumption
<1> DEFINE Capped(e) == IF e < 0 THEN 0 ELSE IF e <= Cutoff THEN e ELSE Cutoff + 1
<1>2. PICK up \in Nat : up = IF power <= Cutoff THEN power ELSE Cutoff + 1
  BY <1>1
<1>3. Capped(power) = up /\ Capped(-power) = 0
  BY <1>1, <1>2
<1>4. PICK num \in Nat : num = n * Pow10[up]
  BY PowersAreNatural, TimesIsNatural
<1>5. Pow10[0] = 1
  BY PowersOfTen
<1>6. Nearest(n, power) = CHOOSE w \in 0 .. Max + 1 :
                            IF w <= Max THEN Rounds(w, num, 1) ELSE (2 * w - 1) * 1 <= 2 * num
  BY <1>3, <1>4, <1>5 DEF Nearest
<1>7. IsNearest(v, num, 1)
  BY <1>2, <1>4
<1>8. \A w : IsNearest(w, num, 1) => w = v
  BY <1>7, NearestOnce
<1> QED
  BY <1>6, <1>7, <1>8 DEF IsNearest

\* ... or with the one below.
LEMMA NearestBelow ==
  ASSUME NEW n \in Nat, NEW power \in Int, power < 0, NEW v,
         IsNearest(v, n, Pow10[IF -power <= Cutoff THEN -power ELSE Cutoff + 1])
  PROVE  Nearest(n, power) = v
<1>1. Cutoff \in Nat /\ Max \in Nat
  BY SizeRangeAssumption, RangeAssumption
<1> DEFINE Capped(e) == IF e < 0 THEN 0 ELSE IF e <= Cutoff THEN e ELSE Cutoff + 1
<1>2. PICK down \in Nat : down = IF -power <= Cutoff THEN -power ELSE Cutoff + 1
  BY <1>1
<1>3. Capped(-power) = down /\ Capped(power) = 0
  BY <1>1, <1>2
<1>4. PICK den \in Nat \ {0} : den = Pow10[down]
  BY PowersAreNatural
<1>5. n * Pow10[0] = n
  BY PowersOfTen
<1>6. Nearest(n, power) = CHOOSE w \in 0 .. Max + 1 :
                            IF w <= Max THEN Rounds(w, n, den) ELSE (2 * w - 1) * den <= 2 * n
  BY <1>3, <1>4, <1>5 DEF Nearest
<1>7. IsNearest(v, n, den)
  BY <1>2, <1>4
<1>8. \A w : IsNearest(w, n, den) => w = v
  BY <1>7, NearestOnce
<1> QED
  BY <1>6, <1>7, <1>8 DEF IsNearest

\* Beyond Cutoff one power is as good as another.
LEMMA NearestFar ==
  ASSUME NEW n, NEW p \in Int, NEW q \in Int,
         \/ p > Cutoff /\ q > Cutoff
         \/ p < -Cutoff /\ q < -Cutoff
  PROVE  Nearest(n, p) = Nearest(n, q)
<1>1. Cutoff \in Nat
  BY SizeRangeAssumption
<1> DEFINE Capped(e) == IF e < 0 THEN 0 ELSE IF e <= Cutoff THEN e ELSE Cutoff + 1
<1>2. Capped(p) = Capped(q) /\ Capped(-p) = Capped(-q)
  BY <1>1
<1> QED
  BY <1>2 DEF Nearest

\* The factors of the units.
Factors == {f \in 1 .. Max : 2 * Max * f < Pow10[Cutoff + 1]}

\* A product that is too large stays too large.
LEMMA TooLarge ==
  ASSUME NEW num \in Nat, num > Max
  PROVE  IsNearest(Max + 1, num, 1)
<1>1. Max \in Nat
  BY RangeAssumption
<1>2. (2 * (Max + 1) - 1) * 1 <= 2 * num /\ ~(Max + 1 <= Max)
  BY <1>1
<1> QED
  BY <1>1, <1>2 DEF IsNearest

\* What is not too large is itself.
LEMMA NotTooLarge ==
  ASSUME NEW num \in U64
  PROVE  IsNearest(num, num, 1)
<1>1. Max \in Nat /\ num \in Nat /\ num <= Max
  BY RangeAssumption DEF U64
<1>2. (2 * num - 1) * 1 <= 2 * num /\ 2 * num < (2 * num + 1) * 1
  BY <1>1
<1> QED
  BY <1>1, <1>2 DEF IsNearest, Rounds

\* Half of a power of ten added before the division makes it a rounding.
LEMMA RoundedRounds ==
  ASSUME NEW n \in Nat, NEW k \in Nat \ {0}
  PROVE  Rounds(Rounded(n, Pow10[k]), n, Pow10[k])
<1>1. PICK half \in Nat \ {0} : Pow10[k] = 2 * half
  <2>1. PICK q \in Nat \ {0} : q = Pow10[k - 1]
    BY PowersAreNatural
  <2>2. Pow10[k] = 10 * q
    <3>1. k - 1 \in Nat /\ k - 1 + 1 = k
      OBVIOUS
    <3> QED
      BY <2>1, <3>1, PowersOfTen
  <2>3. 5 * q \in Nat \ {0} /\ 10 * q = 2 * (5 * q)
    OBVIOUS
  <2> QED
    BY <2>2, <2>3
<1>2. (2 * half) \div 2 = half
  BY Z3
<1>3. PICK v \in Nat : v = (n + half) \div (2 * half)
  <2>1. (n + half) \div (2 * half) \in Nat
    BY Z3
  <2> QED
    BY <2>1
<1>4. PICK x \in Nat : x = v * half
  BY TimesIsNatural
<1>5. 2 * x <= n + half /\ n + half < 2 * x + 2 * half
  <2>1. v * (2 * half) <= n + half /\ n + half < (v + 1) * (2 * half)
    BY <1>3, Z3
  <2>2. v * (2 * half) = 2 * x /\ (v + 1) * (2 * half) = 2 * x + 2 * half
    BY <1>4, Z3
  <2> QED
    BY <2>1, <2>2
<1>6. (2 * v - 1) * (2 * half) = 4 * x - 2 * half
  BY <1>4, Z3
<1>7. (2 * v + 1) * (2 * half) = 4 * x + 2 * half
  BY <1>4, Z3
<1>8. Rounds(v, n, 2 * half)
  BY <1>5, <1>6, <1>7 DEF Rounds
<1>9. Rounded(n, Pow10[k]) = v
  BY <1>1, <1>2, <1>3 DEF Rounded
<1> QED
  BY <1>1, <1>8, <1>9

\* A factor times a number is no less.
LEMMA TimesOneOrMore ==
  ASSUME NEW a \in Nat \ {0}, NEW b \in Nat
  PROVE  b <= a * b /\ b <= b * a
<1>1. 1 * b <= a * b
  BY TimesGrows
<1>2. a * b = b * a
  BY Z3
<1> QED
  BY <1>1, <1>2

\* What Scaled returns is the nearest size, and what it refuses is too large.
LEMMA ScaledIsNearest ==
  ASSUME NEW m \in U64, NEW f \in Factors, NEW e \in Int,
         NEW r, r = Scaled(m, f, e)
  PROVE  /\ r.error \in {"none", "PosOverflow"}
         /\ r.error = "none" => r.size = Nearest(m * f, e)
         /\ r.error # "none" /\ m # 0 => Nearest(m * f, e) = Max + 1
<1>1. Max \in Nat /\ Cutoff \in Nat /\ m \in Nat /\ m <= Max /\ f \in Nat \ {0} /\ Cutoff + 1 \in Nat
  BY RangeAssumption, SizeRangeAssumption DEF U64, Factors
<1>2. PICK n \in Nat : n = m * f
  BY <1>1, TimesIsNatural
<1>3. 2 * n < Pow10[Cutoff + 1]
  <2>1. m * f <= Max * f
    BY <1>1, TimesGrows
  <2>2. 2 * Max * f < Pow10[Cutoff + 1]
    BY DEF Factors
  <2>3. PICK x \in Nat, y \in Nat : x = Max * f /\ y = Pow10[Cutoff + 1]
    BY <1>1, TimesIsNatural, PowersAreNatural
  <2>4. 2 * Max * f = 2 * x
    BY <1>1, <2>3, Z3
  <2> QED
    BY <1>2, <2>1, <2>2, <2>3, <2>4
<1> DEFINE fits == e <= Cutoff /\ f * Pow10[e] <= Max /\ m * f * Pow10[e] <= Max
<1>4. PICK size : size = CASE e >= 0 -> IF fits THEN m * f * Pow10[e] ELSE Max + 1
                           [] -Cutoff <= e /\ e < 0 -> Rounded(m * f, Pow10[-e])
                           [] e < -Cutoff -> 0
  OBVIOUS
<1>5. r = IF size <= Max THEN Ok(size) ELSE Refuse("PosOverflow")
  BY <1>4 DEF Scaled
<1>6. SUFFICES /\ size \in Nat
               /\ size <= Max => Nearest(n, e) = size
               /\ size > Max /\ m # 0 => Nearest(n, e) = Max + 1
  BY <1>1, <1>2, <1>5 DEF Ok, Refuse
<1>7. CASE e >= 0
  <2>1. PICK up \in Nat : up = IF e <= Cutoff THEN e ELSE Cutoff + 1
    BY <1>1, <1>7
  <2>2. PICK p \in Nat \ {0} : p = Pow10[up]
    BY PowersAreNatural
  <2>3. PICK num \in Nat : num = n * p
    BY <2>2, TimesIsNatural
  <2>4. ASSUME NEW v, IsNearest(v, num, 1) PROVE Nearest(n, e) = v
    <3>1. e \in Nat /\ num = n * Pow10[IF e <= Cutoff THEN e ELSE Cutoff + 1]
      BY <1>7, <2>1, <2>2, <2>3
    <3>2. IsNearest(v, n * Pow10[IF e <= Cutoff THEN e ELSE Cutoff + 1], 1)
      BY <2>4, <3>1
    <3> QED
      BY <3>1, <3>2, NearestAbove
  <2>5. size = IF fits THEN m * f * Pow10[e] ELSE Max + 1
    BY <1>1, <1>4, <1>7
  <2>6. CASE fits
    <3>1. size = num /\ num <= Max
      BY <1>2, <2>1, <2>2, <2>3, <2>5, <2>6
    <3>2. num \in U64
      BY <1>1, <3>1 DEF U64
    <3> QED
      BY <1>1, <2>4, <3>1, <3>2, NotTooLarge
  <2>7. CASE ~fits
    <3>1. size = Max + 1
      BY <2>5, <2>7
    <3>2. ASSUME m # 0 PROVE num > Max
      <4>1. CASE e > Cutoff
        <5>1. up = Cutoff + 1
          BY <2>1, <4>1, <1>1
        <5>2. 2 * Max * f < p /\ f >= 1
          BY <1>1, <2>2, <5>1 DEF Factors
        <5>3. 2 * Max <= (2 * Max) * f
          BY <1>1, TimesOneOrMore
        <5>4. n >= 1
          <6>1. m \in Nat \ {0} /\ f <= m * f
            BY <1>1, <3>2, TimesOneOrMore
          <6> QED
            BY <1>1, <1>2, <6>1
        <5>5. p <= n * p
          BY <2>2, <5>4, TimesOneOrMore
        <5>6. PICK x \in Nat : x = (2 * Max) * f
          BY <1>1, TimesIsNatural
        <5> QED
          BY <1>1, <2>2, <2>3, <5>2, <5>3, <5>5, <5>6
      <4>2. CASE e <= Cutoff
        <5>1. up = e /\ p = Pow10[e]
          BY <1>1, <2>1, <2>2, <4>2
        <5>2. m * f * p = num
          BY <1>2, <2>3
        <5>3. f * p > Max \/ num > Max
          BY <1>1, <1>2, <2>3, <2>7, <4>2, <5>1, <5>2, TimesIsNatural
        <5>4. PICK x \in Nat : x = f * p
          BY <1>1, <2>2, TimesIsNatural
        <5>5. num = m * x
          BY <1>1, <2>2, <5>2, <5>4, Z3
        <5>6. x <= m * x
          BY <1>1, <3>2, <5>4, TimesOneOrMore
        <5> QED
          BY <1>1, <5>3, <5>4, <5>5, <5>6
      <4> QED
        BY <1>1, <4>1, <4>2
    <3>3. m # 0 => Nearest(n, e) = Max + 1
      BY <2>4, <3>2, TooLarge
    <3> QED
      BY <1>1, <3>1, <3>3
  <2> QED
    BY <2>6, <2>7
<1>8. CASE -Cutoff <= e /\ e < 0
  <2>1. size = Rounded(n, Pow10[-e]) /\ -e \in Nat \ {0} /\ -e <= Cutoff
    BY <1>1, <1>2, <1>4, <1>8
  <2>2. PICK p \in Nat \ {0} : p = Pow10[-e]
    BY <2>1, PowersAreNatural
  <2>3. size \in Nat /\ Rounds(size, n, p)
    BY <2>1, <2>2, RoundedIsNatural, RoundedRounds
  <2>4. \A v : IsNearest(v, n, p) => Nearest(n, e) = v
    BY <1>1, <1>8, <2>1, <2>2, NearestBelow
  <2>5. size <= Max => IsNearest(size, n, p)
    BY <1>1, <2>3 DEF IsNearest
  <2>6. size > Max => IsNearest(Max + 1, n, p)
    <3> SUFFICES ASSUME size > Max PROVE (2 * (Max + 1) - 1) * p <= 2 * n
      BY <1>1 DEF IsNearest
    <3>1. 2 * (Max + 1) - 1 \in Int /\ 2 * size - 1 \in Int /\ 2 * (Max + 1) - 1 <= 2 * size - 1
      BY <1>1, <2>3
    <3>2. (2 * (Max + 1) - 1) * p <= (2 * size - 1) * p
      BY <2>2, <3>1, TimesGrows
    <3>3. (2 * size - 1) * p <= 2 * n
      BY <2>3 DEF Rounds
    <3>4. PICK x \in Int, y \in Int : x = (2 * (Max + 1) - 1) * p /\ y = (2 * size - 1) * p
      BY <2>2, <3>1
    <3> QED
      BY <3>2, <3>3, <3>4
  <2> QED
    BY <2>3, <2>4, <2>5, <2>6
<1>9. CASE e < -Cutoff
  <2>1. size = 0
    BY <1>1, <1>4, <1>9
  <2>2. PICK p \in Nat \ {0} : p = Pow10[Cutoff + 1]
    BY <1>1, PowersAreNatural
  <2>3. IsNearest(0, n, p)
    BY <1>1, <1>3, <2>2 DEF IsNearest, Rounds
  <2>4. (IF -e <= Cutoff THEN -e ELSE Cutoff + 1) = Cutoff + 1 /\ e < 0
    BY <1>1, <1>9
  <2>5. Nearest(n, e) = 0
    BY <2>2, <2>3, <2>4, NearestBelow
  <2> QED
    BY <1>1, <2>1, <2>5
<1> QED
  BY <1>1, <1>7, <1>8, <1>9

-----------------------------------------------------------------------------
(***************************************************************************)
(* The runs of the automaton and of the number over a text.                *)
(***************************************************************************)
\* One character more of a number.
AddDigit(value, c) == IF IsDigit(c) THEN value * 10 + Value(c) ELSE value

\* A digit has a value.
LEMMA DigitHasValue ==
  ASSUME NEW c, IsDigit(c)
  PROVE  Value(c) \in 0 .. 9
<1>1. PICK n \in 1 .. 10 : n = CHOOSE m \in 1 .. 10 : Digits[m] = c
  BY DEF IsDigit
<1> QED
  BY <1>1 DEF Value

\* The number after each character, from v on.
NumberRun(f, v, t) ==
  /\ f \in [0 .. Len(t) -> Nat] /\ f[0] = v
  /\ \A n \in 1 .. Len(t) : f[n] = AddDigit(f[n - 1], t[n])

\* A number is read in one run over its text.
LEMMA NumberIsRun ==
  ASSUME NEW C, NEW t \in Seq(C)
  PROVE  \E f : NumberRun(f, 0, t) /\ NumberOf(t) = f[Len(t)]
<1>1. PICK L \in Nat : L = Len(t)
  OBVIOUS
<1> DEFINE All(f) == f = [n \in 0 .. L |->
                            IF n = 0 THEN 0
                            ELSE IF IsDigit(t[n]) THEN f[n - 1] * 10 + Value(t[n]) ELSE f[n - 1]]
           step == [n \in Nat |-> [v \in Nat |-> AddDigit(v, t[n + 1])]]
<1>2. \A v \in Nat : \A c : AddDigit(v, c) \in Nat
  BY DigitHasValue DEF AddDigit
<1>3. step \in [Nat -> [Nat -> Nat]]
  BY <1>2
<1>4. \A n \in Nat, v \in Nat : step[n][v] = AddDigit(v, t[n + 1])
  OBVIOUS
<1> HIDE DEF step
<1>5. PICK G : G \in [Nat -> Nat] /\ G[0] = 0 /\ \A n \in Nat : G[n + 1] = step[n][G[n]]
  <2>1. PICK S, first, next : S = Nat /\ first = 0 /\ next = step
    OBVIOUS
  <2>2. first \in S /\ next \in [Nat -> [S -> S]]
    BY <1>3, <2>1
  <2>3. PICK g : Unfolds(g, S, first, next)
    BY <2>2, Recursion
  <2> QED
    BY <2>1, <2>3 DEF Unfolds
<1>6. \A n \in Nat : G[n + 1] = AddDigit(G[n], t[n + 1])
  BY <1>4, <1>5
<1> DEFINE g == [n \in 0 .. L |-> G[n]]
<1>7. All(g)
  <2>1. \A n \in 0 .. L : g[n] = IF n = 0 THEN 0
                                 ELSE IF IsDigit(t[n]) THEN g[n - 1] * 10 + Value(t[n]) ELSE g[n - 1]
    <3> TAKE n \in 0 .. L
    <3>1. CASE n = 0
      BY <1>5, <3>1
    <3>2. CASE n # 0
      <4>1. n - 1 \in Nat /\ n - 1 + 1 = n /\ n - 1 \in 0 .. L
        BY <3>2
      <4>2. G[n] = AddDigit(G[n - 1], t[n])
        BY <1>6, <4>1
      <4>3. g[n] = G[n] /\ g[n - 1] = G[n - 1]
        BY <4>1
      <4> QED
        BY <3>2, <4>2, <4>3 DEF AddDigit
    <3> QED
      BY <3>1, <3>2
  <2>2. DOMAIN g = 0 .. L /\ g = [n \in DOMAIN g |-> g[n]]
    OBVIOUS
  <2> HIDE DEF g
  <2> QED
    BY <2>1, <2>2
<1>8. PICK f : f = CHOOSE h : All(h)
  OBVIOUS
<1>9. All(f)
  <2>1. \E h : All(h)
    <3> HIDE DEF g, All
    <3> QED
      BY <1>7
  <2> HIDE DEF All
  <2> QED
    BY <1>8, <2>1
<1>10. NumberOf(t) = f[L]
  BY <1>1, <1>8 DEF NumberOf
<1>11. f[0] = 0 /\ DOMAIN f = 0 .. L /\ \A n \in 1 .. L : f[n] = AddDigit(f[n - 1], t[n])
  <2>1. \A n \in 1 .. L : n \in 0 .. L /\ n # 0
    OBVIOUS
  <2>2. 0 \in 0 .. L
    OBVIOUS
  <2> QED
    BY <1>9, <2>1, <2>2 DEF AddDigit
<1> HIDE DEF All, g
<1> DEFINE K == {n \in Nat : n <= L => f[n] \in Nat}
<1>12. 0 \in K
  BY <1>11
<1>13. ASSUME NEW n \in Nat, n \in K PROVE n + 1 \in K
  <2> SUFFICES ASSUME n + 1 <= L PROVE f[n + 1] \in Nat
    OBVIOUS
  <2>1. n + 1 \in 1 .. L /\ n + 1 - 1 = n /\ f[n] \in Nat
    BY <1>13
  <2>2. f[n + 1] = AddDigit(f[n], t[n + 1])
    BY <1>11, <2>1
  <2> QED
    BY <1>2, <2>1, <2>2
<1>14. \A n \in Nat : n \in K
  <2> HIDE DEF K
  <2> QED
    BY <1>12, <1>13, Induction
<1>15. f = [n \in 0 .. L |-> f[n]]
  BY <1>9 DEF All
<1>16. f \in [0 .. L -> Nat]
  BY <1>14, <1>15
<1>17. NumberRun(f, 0, t)
  BY <1>1, <1>11, <1>16 DEF NumberRun
<1> QED
  BY <1>1, <1>10, <1>17

\* The states of the automaton after each character, from p on.
StateRun(g, p, t) ==
  /\ g[0] = p /\ \A n \in 1 .. Len(t) : g[n] = Character(g[n - 1], t[n])

\* A text is parsed in one run over it.
LEMMA ParsedIsRun ==
  ASSUME NEW C, NEW t \in Seq(C)
  PROVE  \E g : StateRun(g, Begun, t) /\ Parsed(t) = g[Len(t)]
<1>1. Len(t) \in Nat
  OBVIOUS
<1> DEFINE All(g) == g = [n \in 0 .. Len(t) |-> IF n = 0 THEN Begun ELSE Character(g[n - 1], t[n])]
<1>2. \E g : All(g)
  BY <1>1, StatesExist
<1>3. PICK g : g = CHOOSE a : All(a)
  OBVIOUS
<1>4. All(g)
  <2> HIDE DEF All
  <2> QED
    BY <1>2, <1>3
<1>5. Parsed(t) = g[Len(t)]
  BY <1>3 DEF Parsed
<1>6. \A n \in 1 .. Len(t) : n \in 0 .. Len(t) /\ n # 0
  BY <1>1
<1>7. 0 \in 0 .. Len(t)
  BY <1>1
<1> QED
  BY <1>4, <1>5, <1>6, <1>7 DEF StateRun

\* The automaton in the number, with no error.
At(s, m, h) ==
  [state |-> s, mantissa |-> m, shift |-> h, exponent |-> 0, digit |-> FALSE, error |-> "none"]

\* After an error nothing is read, ...
LEMMA ErrorStays ==
  ASSUME NEW p, NEW c, p.error # "none"
  PROVE  Character(p, c) = p
<1>1. p.error # "none" \/ c = "_"
  OBVIOUS
<1> QED
  BY <1>1 DEF Character

\* ... an underscore counts for nothing, ...
LEMMA UnderscoreIsSkipped ==
  ASSUME NEW p
  PROVE  Character(p, "_") = p
<1>1. ~IsDigit("_") /\ "_" \notin DOMAIN Turn
  BY OnlyDigits
<1> QED
  BY <1>1 DEF Character

\* ... a digit is one of the number or of the exponent, ...
LEMMA DigitIsRead ==
  ASSUME NEW p, NEW c, p.error = "none", IsDigit(c)
  PROVE  Character(p, c) = Digit(p, Value(c)) /\ Value(c) \in 0 .. 9
<1>1. c # "_" /\ c # " " /\ c \notin DOMAIN Turn
  BY OnlyDigits
<1>2. Character(p, c) = Digit(p, Value(c))
  BY <1>1 DEF Character
<1> QED
  BY <1>2, DigitHasValue

\* ... a sign, a point or an "e" turns to another state or is a mistake, ...
LEMMA TurnIsTaken ==
  ASSUME NEW p, NEW c \in {"e", "-", "+", "."}, p.error = "none"
  PROVE  Character(p, c) = IF p.state \in DOMAIN Turn[c] THEN [p EXCEPT !.state = Turn[c][p.state]]
                           ELSE [p EXCEPT !.error = "InvalidDigit"]
<1>1. c # "_" /\ c # " " /\ ~IsDigit(c) /\ c \in DOMAIN Turn
  BY OnlyDigits
<1>2. CASE p.state \in DOMAIN Turn[c]
  BY <1>1, <1>2 DEF Character
<1>3. CASE p.state \notin DOMAIN Turn[c]
  BY <1>1, <1>3 DEF Character
<1> QED
  BY <1>2, <1>3

\* ... and all others are mistakes.
LEMMA WrongIsRefused ==
  ASSUME NEW p, NEW c \in Wrong \cup {",", "b", "i", "k"},
         p \in ParseState
  PROVE  Character(p, c).error # "none"
<1>1. c # "_" /\ ~IsDigit(c) /\ c \notin DOMAIN Turn
  BY OnlyDigits DEF Wrong
<1>2. CASE p.error # "none"
  BY <1>2, ErrorStays
<1>3. CASE p.error = "none" /\ c = " "
  <2>1. Character(p, c) = [p EXCEPT !.error = "SpaceNotAllowed"]
    BY <1>1, <1>3 DEF Character
  <2> QED
    BY <2>1 DEF ParseState
<1>4. CASE p.error = "none" /\ c # " "
  <2>1. Character(p, c) = [p EXCEPT !.error = "InvalidDigit"]
    BY <1>1, <1>4 DEF Character
  <2> QED
    BY <2>1 DEF ParseState
<1> QED
  BY <1>2, <1>3, <1>4

\* The state in the number: before and after the point, with digits or none yet,
\* all of them kept or not.
NumberState(place, count, k) ==
  IF place = "int"
  THEN IF count = 0 THEN "Empty" ELSE IF k = 0 THEN "Integer" ELSE "IntegerOverflow"
  ELSE IF k = 0 THEN "Fraction" ELSE "FractionOverflow"

\* The automaton has read count digits, below of them after the point, that make
\* value, and keeps m, all but the last k.
Number(p, place, value, below, count, m, k, h) ==
  /\ Keeps(m, k, value) /\ k <= count /\ h = k - below
  /\ place = "int" => below = 0
  /\ place = "frac" => count # 0
  /\ count = 0 => value = 0
  /\ m <= Max => p = At(NumberState(place, count, k), m, h)
  /\ m > Max => p.error = "PosOverflow"

\* So it is in the number, of which some m is kept, or it is refused.
AtNumber(p, place, value, below, count) ==
  \E m, k, h : Number(p, place, value, below, count, m, k, h)

\* It begins with no digits, ...
LEMMA NumberBegins == AtNumber(Begun, "int", 0, 0, 0)
<1>1. Max \in Nat /\ 0 \in U64
  BY RangeAssumption DEF U64
<1>2. Keeps(0, 0, 0)
  BY <1>1, KeepsAll
<1>3. Begun = At(NumberState("int", 0, 0), 0, 0)
  BY DEF Begun, At, NumberState
<1>4. Number(Begun, "int", 0, 0, 0, 0, 0, 0)
  BY <1>1, <1>2, <1>3 DEF Number
<1> QED
  BY <1>4 DEF AtNumber

\* ... goes on with each digit, ...
LEMMA NumberGoesOn ==
  ASSUME NEW p, NEW place \in {"int", "frac"}, NEW value \in Nat,
         NEW below \in Nat, NEW count \in Nat, AtNumber(p, place, value, below, count),
         NEW c, IsDigit(c)
  PROVE  AtNumber(Character(p, c), place, value * 10 + Value(c),
                  IF place = "frac" THEN below + 1 ELSE below, count + 1)
<1>1. PICK m, k, h : Number(p, place, value, below, count, m, k, h)
  BY DEF AtNumber
<1>a. /\ Keeps(m, k, value) /\ k <= count /\ h = k - below
      /\ place = "int" => below = 0
      /\ place = "frac" => count # 0
      /\ count = 0 => value = 0
      /\ m <= Max => p = At(NumberState(place, count, k), m, h)
      /\ m > Max => p.error = "PosOverflow"
  BY <1>1 DEF Number
<1>2. PICK d \in 0 .. 9 : d = Value(c)
  BY DigitHasValue
<1>3. Max \in Nat /\ m \in Nat /\ m <= Max + 1 /\ k \in Nat /\ h \in Int
  BY <1>a, RangeAssumption DEF Keeps
<1>4. PICK more \in Nat : more = IF place = "frac" THEN below + 1 ELSE below
  OBVIOUS
<1>5. PICK all \in Nat, all1 \in Nat : all = value * 10 + d /\ all1 = count + 1
  OBVIOUS
<1>c. place = "int" => more = 0
  BY <1>a, <1>4
<1> DEFINE After(n, j, i) == Number(Character(p, c), place, all, more, all1, n, j, i)
<1>b. SUFFICES \E n, j, i : After(n, j, i)
  BY <1>2, <1>4, <1>5 DEF AtNumber
<1>6. CASE m > Max
  <2>1. k # 0
    BY <1>a, <1>3, <1>6, AllAreKept
  <2>2. PICK next \in Nat, then \in Int : next = k + 1 /\ then = next - more
    BY <1>3
  <2>3. Keeps(m, next, all)
    BY <1>a, <1>5, <2>1, <2>2, KeepsNext
  <2>4. p.error = "PosOverflow" /\ ~(m <= Max)
    BY <1>a, <1>3, <1>6
  <2>5. Character(p, c) = p
    BY <2>4, ErrorStays
  <2>6. next <= all1 /\ all1 # 0
    BY <1>a, <1>3, <1>5, <2>2
  <2>7. After(m, next, then)
    BY <1>c, <2>2, <2>3, <2>4, <2>5, <2>6 DEF Number
  <2> HIDE DEF After
  <2> QED
    BY <2>7
<1>7. CASE m <= Max
  <2>1. p = At(NumberState(place, count, k), m, h)
    BY <1>a, <1>7
  <2>2. p.error = "none" /\ p.state = NumberState(place, count, k) /\ p.mantissa = m /\ p.shift = h
    BY <2>1 DEF At
  <2>3. Character(p, c) = Digit(p, d)
    BY <1>2, <2>2, DigitIsRead
  <2>4. CASE k = 0
    <3>1. value = m /\ value \in U64
      BY <1>a, <1>3, <2>4, AllAreKept DEF U64
    <3>2. p.state \in {"Empty", "Integer", "Fraction"} /\ (p.state = "Fraction" <=> place = "frac")
      BY <2>2, <2>4 DEF NumberState
    <3>3. Character(p, c) = Significant(p, d)
      BY <2>3, <3>2 DEF Digit
    <3>4. PICK longer \in Nat, rounded \in Nat :
            longer = m * 10 + d /\ rounded = m + (IF d >= 5 THEN 1 ELSE 0)
      BY <1>3
    <3>5. CASE longer <= Max
      <4>1. Keeps(longer, 0, all)
        <5>1. longer \in U64 /\ longer = all
          BY <1>3, <1>5, <3>1, <3>4, <3>5 DEF U64
        <5> QED
          BY <5>1, KeepsAll
      <4>2. Significant(p, d) =
              [p EXCEPT !.mantissa = longer,
                        !.state = IF @ = "Empty" THEN "Integer" ELSE @,
                        !.shift = IF p.state = "Fraction" THEN @ - 1 ELSE @]
        BY <1>3, <2>2, <3>4, <3>5 DEF Significant
      <4>3. (IF p.state = "Empty" THEN "Integer" ELSE p.state) = NumberState(place, all1, 0)
        BY <1>a, <1>5, <2>2, <2>4 DEF NumberState
      <4>4. PICK then \in Int : then = 0 - more
        OBVIOUS
      <4>5. (IF p.state = "Fraction" THEN p.shift - 1 ELSE p.shift) = then
        BY <1>a, <1>4, <2>2, <2>4, <3>2, <4>4
      <4>6. Significant(p, d) = At(NumberState(place, all1, 0), longer, then)
        BY <2>1, <2>2, <4>2, <4>3, <4>5 DEF At
      <4>7. 0 <= all1 /\ all1 # 0 /\ ~(longer > Max)
        BY <1>3, <1>5, <3>5
      <4>8. After(longer, 0, then)
        BY <1>c, <3>3, <3>5, <4>1, <4>4, <4>6, <4>7 DEF Number
      <4> HIDE DEF After
      <4> QED
        BY <4>8
    <3>6. CASE longer > Max
      <4>1. Keeps(rounded, 1, all)
        BY <1>5, <3>1, <3>4, <3>6, KeepsFirst
      <4>2. 1 <= all1 /\ all1 # 0
        BY <1>5
      <4>4. PICK then \in Int : then = 1 - more
        OBVIOUS
      <4>5. CASE rounded > Max
        <5>1. Significant(p, d) = [p EXCEPT !.error = "PosOverflow"]
          BY <1>3, <2>2, <3>4, <3>6, <4>5 DEF Significant
        <5>2. Significant(p, d).error = "PosOverflow" /\ ~(rounded <= Max)
          BY <1>3, <2>1, <4>5, <5>1 DEF At
        <5>3. After(rounded, 1, then)
          BY <1>c, <3>3, <4>1, <4>2, <4>4, <5>2 DEF Number
        <5> HIDE DEF After
        <5> QED
          BY <5>3
      <4>6. CASE rounded <= Max
        <5>1. Significant(p, d) =
                [p EXCEPT !.mantissa = rounded,
                          !.state = IF @ = "Fraction" THEN "FractionOverflow" ELSE "IntegerOverflow",
                          !.shift = IF p.state = "Fraction" THEN @ ELSE @ + 1]
          BY <1>3, <2>2, <3>4, <3>6, <4>6 DEF Significant
        <5>2. (IF p.state = "Fraction" THEN "FractionOverflow" ELSE "IntegerOverflow")
                = NumberState(place, all1, 1)
          BY <1>5, <3>2 DEF NumberState
        <5>3. (IF p.state = "Fraction" THEN p.shift ELSE p.shift + 1) = then
          BY <1>a, <1>4, <2>2, <2>4, <3>2, <4>4
        <5>4. Significant(p, d) = At(NumberState(place, all1, 1), rounded, then)
          BY <2>1, <2>2, <5>1, <5>2, <5>3 DEF At
        <5>5. ~(rounded > Max)
          BY <1>3, <4>6
        <5>6. After(rounded, 1, then)
          BY <1>c, <3>3, <4>1, <4>2, <4>4, <4>6, <5>4, <5>5 DEF Number
        <5> HIDE DEF After
        <5> QED
          BY <5>6
      <4>7. rounded > Max \/ rounded <= Max
        BY <1>3, <3>4
      <4> HIDE DEF After
      <4> QED
        BY <4>5, <4>6, <4>7
    <3>7. longer <= Max \/ longer > Max
      BY <1>3, <3>4
    <3> HIDE DEF After
    <3> QED
      BY <3>5, <3>6, <3>7
  <2>5. CASE k # 0
    <3>a. PICK next \in Nat, then \in Int : next = k + 1 /\ then = next - more
      BY <1>3
    <3>1. Keeps(m, next, all) /\ next <= all1 /\ all1 # 0
      <4>1. Keeps(m, next, all)
        BY <1>a, <1>5, <2>5, <3>a, KeepsNext
      <4> QED
        BY <1>a, <1>3, <1>5, <3>a, <4>1
    <3>2. p.state = (IF place = "int" THEN "IntegerOverflow" ELSE "FractionOverflow")
      <4>1. count # 0
        BY <1>a, <1>3, <2>5
      <4> QED
        BY <2>2, <2>5, <4>1 DEF NumberState
    <3>3. NumberState(place, all1, next) = p.state
      BY <1>3, <3>1, <3>2, <3>a DEF NumberState
    <3>4. CASE place = "int"
      <4>1. Character(p, c) = [p EXCEPT !.shift = @ + 1]
        BY <2>3, <3>2, <3>4 DEF Digit
      <4>2. p.shift + 1 = then
        BY <1>a, <1>3, <1>4, <2>2, <3>4, <3>a
      <4>3. Character(p, c) = At(NumberState(place, all1, next), m, then)
        BY <2>1, <2>2, <3>3, <4>1, <4>2 DEF At
      <4>4. ~(m > Max)
        BY <1>3, <1>7
      <4>5. After(m, next, then)
        BY <1>c, <1>7, <3>1, <3>a, <4>3, <4>4 DEF Number
      <4> HIDE DEF After
      <4> QED
        BY <4>5
    <3>5. CASE place = "frac"
      <4>1. Character(p, c) = p
        BY <2>3, <3>2, <3>5 DEF Digit
      <4>2. p.shift = then
        BY <1>a, <1>3, <1>4, <2>2, <3>5, <3>a
      <4>3. Character(p, c) = At(NumberState(place, all1, next), m, then)
        BY <2>1, <2>2, <3>3, <4>1, <4>2 DEF At
      <4>4. ~(m > Max)
        BY <1>3, <1>7
      <4>5. After(m, next, then)
        BY <1>c, <1>7, <3>1, <3>a, <4>3, <4>4 DEF Number
      <4> HIDE DEF After
      <4> QED
        BY <4>5
    <3> QED
      BY <3>4, <3>5
  <2> QED
    BY <2>4, <2>5
<1>8. m > Max \/ m <= Max
  BY <1>3
<1> HIDE DEF After
<1> QED
  BY <1>6, <1>7, <1>8

\* ... and past the point.
LEMMA NumberHasPoint ==
  ASSUME NEW p, NEW value, NEW count, count # 0, AtNumber(p, "int", value, 0, count)
  PROVE  AtNumber(Character(p, "."), "frac", value, 0, count)
<1>1. PICK m, k, h : Number(p, "int", value, 0, count, m, k, h)
  BY DEF AtNumber
<1>2. SUFFICES /\ m <= Max => Character(p, ".") = At(NumberState("frac", count, k), m, h)
               /\ m > Max => Character(p, ".").error = "PosOverflow"
  <2>1. Number(Character(p, "."), "frac", value, 0, count, m, k, h)
    BY <1>1, <1>2 DEF Number
  <2> QED
    BY <2>1 DEF AtNumber
<1>3. ASSUME m > Max PROVE Character(p, ".").error = "PosOverflow"
  <2>1. p.error = "PosOverflow"
    BY <1>1, <1>3 DEF Number
  <2>2. Character(p, ".") = p
    BY <2>1, ErrorStays
  <2> QED
    BY <2>1, <2>2
<1>4. ASSUME m <= Max PROVE Character(p, ".") = At(NumberState("frac", count, k), m, h)
  <2>1. p = At(NumberState("int", count, k), m, h)
    BY <1>1, <1>4 DEF Number
  <2>2. p.error = "none" /\ p.state = (IF k = 0 THEN "Integer" ELSE "IntegerOverflow")
    BY <2>1 DEF At, NumberState
  <2>3. Turn["."] = [s \in {"Integer", "IntegerOverflow"} |->
                       IF s = "Integer" THEN "Fraction" ELSE "FractionOverflow"]
    BY DEF Turn
  <2>4. p.state \in DOMAIN Turn["."] /\ Turn["."][p.state] = NumberState("frac", count, k)
    BY <2>2, <2>3 DEF NumberState
  <2>5. Character(p, ".") = [p EXCEPT !.state = NumberState("frac", count, k)]
    BY <2>2, <2>4, TurnIsTaken
  <2> QED
    BY <1>4, <2>1, <2>5 DEF At
<1> QED
  BY <1>3, <1>4

\* The automaton in the exponent.
InExponent(s, m, h, x, digit, error) ==
  [state |-> s, mantissa |-> m, shift |-> h, exponent |-> x, digit |-> digit, error |-> error]

\* The exponent x after count digits that make value: they fit, or are too large,
\* or those that do not fit a negative exponent are left out.
Exponent(s, x, digit, error, value, count) ==
  /\ x \in -ExpMax - 1 .. ExpMax /\ digit \in BOOLEAN
  /\ count = 0 => value = 0
  /\ \/ error = "none" /\ (digit <=> count # 0) /\ x = IF s = "PosExponent" THEN value ELSE -value
     \/ s = "PosExponent" /\ error = "PosOverflow" /\ value > ExpMax
     \/ s = "NegExponent" /\ error = "none" /\ digit /\ count # 0 /\ 10 * x < 8 - ExpMax /\ -x <= value

\* So it is in the exponent, after count of its digits.
AtExponent(p, s, m, h, value, count) ==
  \E x, digit, error : p = InExponent(s, m, h, x, digit, error)
     /\ Exponent(s, x, digit, error, value, count)

\* The exponent begins after a digit of the number, ...
LEMMA ExponentBegins ==
  ASSUME NEW place \in {"int", "frac"}, NEW count, NEW k, NEW m, NEW h, place = "int" => count # 0
  PROVE  AtExponent(Character(At(NumberState(place, count, k), m, h), "e"), "PosExponent", m, h, 0, 0)
<1>1. PICK p : p = At(NumberState(place, count, k), m, h)
  OBVIOUS
<1>2. /\ p.error = "none"
      /\ p.state \in {"Integer", "IntegerOverflow", "Fraction", "FractionOverflow"}
  BY <1>1 DEF At, NumberState
<1>3. Turn["e"] = [s \in {"Integer", "Fraction", "IntegerOverflow", "FractionOverflow"} |-> "PosExponent"]
  BY DEF Turn
<1>4. Character(p, "e") = [p EXCEPT !.state = "PosExponent"]
  BY <1>2, <1>3, TurnIsTaken
<1>5. Character(p, "e") = InExponent("PosExponent", m, h, 0, FALSE, "none")
  BY <1>1, <1>4 DEF At, InExponent
<1>6. ExpMax \in Nat
  BY SizeRangeAssumption
<1>7. Exponent("PosExponent", 0, FALSE, "none", 0, 0)
  BY <1>6 DEF Exponent
<1> QED
  BY <1>1, <1>5, <1>7 DEF AtExponent

\* ... has a sign, ...
LEMMA ExponentIsSigned ==
  ASSUME NEW p, NEW m, NEW h, AtExponent(p, "PosExponent", m, h, 0, 0)
  PROVE  /\ AtExponent(Character(p, "-"), "NegExponent", m, h, 0, 0)
         /\ AtExponent(Character(p, "+"), "PosExponent", m, h, 0, 0)
<1>1. PICK x, digit, error :
         p = InExponent("PosExponent", m, h, x, digit, error)
            /\ Exponent("PosExponent", x, digit, error, 0, 0)
  BY DEF AtExponent
<1>2. ExpMax \in Nat
  BY SizeRangeAssumption
<1>3. x = 0 /\ error = "none" /\ digit = FALSE
  BY <1>1, <1>2 DEF Exponent
<1>4. p.error = "none" /\ p.state = "PosExponent"
  BY <1>1, <1>3 DEF InExponent
<1>5. Turn["-"] = [s \in {"PosExponent"} |-> "NegExponent"]
  BY DEF Turn
<1>6. Turn["+"] = [s \in {"PosExponent"} |-> "PosExponent"]
  BY DEF Turn
<1>7. Character(p, "-") = [p EXCEPT !.state = "NegExponent"]
  BY <1>4, <1>5, TurnIsTaken
<1>8. Character(p, "+") = [p EXCEPT !.state = "PosExponent"]
  BY <1>4, <1>6, TurnIsTaken
<1>9. Character(p, "-") = InExponent("NegExponent", m, h, x, digit, error)
  BY <1>1, <1>7 DEF InExponent
<1>10. Character(p, "+") = InExponent("PosExponent", m, h, x, digit, error)
  BY <1>1, <1>8 DEF InExponent
<1>11. Exponent("NegExponent", x, digit, error, 0, 0) /\ Exponent("PosExponent", x, digit, error, 0, 0)
  <2>1. x \in -ExpMax - 1 .. ExpMax
    BY <1>1 DEF Exponent
  <2>2. PICK zero \in Nat : zero = 0 /\ -zero = zero
    OBVIOUS
  <2>3. \A s : Exponent(s, x, digit, error, zero, 0)
    BY <1>3, <2>1, <2>2 DEF Exponent
  <2> QED
    BY <2>2, <2>3
<1> QED
  BY <1>9, <1>10, <1>11 DEF AtExponent

\* ... and goes on with each digit.
LEMMA ExponentGoesOn ==
  ASSUME ExpMax >= 9, NEW s \in {"PosExponent", "NegExponent"}, NEW p, NEW m, NEW h,
         NEW value \in Nat, NEW count \in Nat,
         AtExponent(p, s, m, h, value, count), NEW c, IsDigit(c)
  PROVE  AtExponent(Character(p, c), s, m, h, value * 10 + Value(c), count + 1)
<1>1. PICK x, digit, error :
         p = InExponent(s, m, h, x, digit, error) /\ Exponent(s, x, digit, error, value, count)
  BY DEF AtExponent
<1>2. ExpMax \in Nat /\ x \in Int
  BY <1>1, SizeRangeAssumption DEF Exponent
<1>3. PICK d \in 0 .. 9 : d = Value(c)
  BY DigitHasValue
<1>4. PICK all \in Nat, all1 \in Nat : all = value * 10 + d /\ all1 = count + 1 /\ all1 # 0
  OBVIOUS
<1> DEFINE After(y, e) == Character(p, c) = InExponent(s, m, h, y, TRUE, e)
                        /\ Exponent(s, y, TRUE, e, all, all1)
           Rest(y) == Character(p, c) = InExponent(s, m, h, y, digit, "PosOverflow")
                      /\ Exponent(s, y, digit, "PosOverflow", all, all1)
<1>5. SUFFICES \E y : Rest(y) \/ \E e : After(y, e)
  BY <1>3, <1>4 DEF AtExponent
<1>a. /\ -ExpMax - 1 <= x /\ x <= ExpMax /\ digit \in BOOLEAN
      /\ \/ error = "none" /\ (digit <=> count # 0) /\ x = IF s = "PosExponent" THEN value ELSE -value
         \/ s = "PosExponent" /\ error = "PosOverflow" /\ value > ExpMax
         \/ s = "NegExponent" /\ error = "none" /\ digit /\ count # 0 /\ 10 * x < 8 - ExpMax /\ -x <= value
  BY <1>1, <1>2 DEF Exponent
<1>6. CASE error # "none"
  <2>1. error = "PosOverflow" /\ s = "PosExponent" /\ value > ExpMax
    BY <1>6, <1>a
  <2>2. Character(p, c) = p
    BY <1>1, <1>6, ErrorStays DEF InExponent
  <2>3. all > ExpMax
    BY <1>2, <1>4, <2>1
  <2>4. Rest(x)
    BY <1>1, <1>2, <1>4, <1>a, <2>1, <2>2, <2>3 DEF Exponent
  <2> HIDE DEF Rest, After
  <2> QED
    BY <2>4
<1>7. CASE error = "none"
  <2>1. p.error = "none" /\ p.state = s /\ p.exponent = x
    BY <1>1, <1>7 DEF InExponent
  <2>2. Character(p, c) = OfExponent(p, d)
    <3>1. Character(p, c) = Digit(p, d)
      BY <1>3, <2>1, DigitIsRead
    <3> QED
      BY <2>1, <3>1 DEF Digit
  <2>3. PICK e \in Int : e = IF s = "PosExponent" THEN x * 10 + d ELSE x * 10 - d
    BY <1>2
  <2>4. CASE -ExpMax - 1 <= e /\ e <= ExpMax
    <3>1. OfExponent(p, d) = [p EXCEPT !.exponent = e, !.digit = TRUE]
      BY <1>2, <2>1, <2>3, <2>4 DEF OfExponent
    <3>2. Character(p, c) = InExponent(s, m, h, e, TRUE, "none")
      BY <1>1, <1>7, <2>2, <3>1 DEF InExponent
    <3>3. \/ e = IF s = "PosExponent" THEN all ELSE -all
          \/ s = "NegExponent" /\ 10 * e < 8 - ExpMax /\ -e <= all
      BY <1>2, <1>4, <1>7, <1>a, <2>3
    <3>4. e \in -ExpMax - 1 .. ExpMax
      BY <1>2, <2>4
    <3>5. After(e, "none")
      BY <1>4, <3>2, <3>3, <3>4 DEF Exponent
    <3> HIDE DEF Rest, After
    <3> QED
      BY <3>5
  <2>5. CASE e > ExpMax
    <3>1. s = "PosExponent" /\ x = value
      BY <1>2, <1>7, <1>a, <2>3, <2>5
    <3>2. OfExponent(p, d) = [p EXCEPT !.error = "PosOverflow"]
      BY <1>2, <2>1, <2>3, <2>5 DEF OfExponent
    <3>3. Character(p, c) = InExponent(s, m, h, x, digit, "PosOverflow")
      BY <1>1, <2>2, <3>2 DEF InExponent
    <3>4. all > ExpMax
      BY <1>2, <1>4, <2>3, <2>5, <3>1
    <3>5. Rest(x)
      BY <1>1, <1>2, <1>4, <1>a, <3>1, <3>3, <3>4 DEF Exponent
    <3> HIDE DEF Rest, After
    <3> QED
      BY <3>5
  <2>6. CASE e < -ExpMax - 1
    <3>1. s = "NegExponent" /\ 10 * x < 8 - ExpMax /\ -x <= value
      BY <1>2, <1>7, <1>a, <2>3, <2>6
    <3>2. Character(p, c) = p
      BY <1>2, <2>1, <2>2, <2>3, <2>6 DEF OfExponent
    <3>3. digit = TRUE
      <4>1. ASSUME count = 0 PROVE FALSE
        <5>1. value = 0
          BY <1>1, <4>1 DEF Exponent
        <5>2. x >= 0
          <6>1. value <= 0
            BY <5>1
          <6> QED
            BY <1>2, <3>1, <6>1
        <5> QED
          BY <1>2, <2>3, <2>6, <3>1, <5>2
      <4> QED
        BY <1>7, <1>a, <4>1
    <3>4. -x <= all
      BY <1>2, <1>4, <3>1
    <3>5. After(x, "none")
      BY <1>1, <1>2, <1>4, <1>7, <1>a, <3>1, <3>2, <3>3, <3>4 DEF Exponent
    <3> HIDE DEF Rest, After
    <3> QED
      BY <3>5
  <2>7. (-ExpMax - 1 <= e /\ e <= ExpMax) \/ e > ExpMax \/ e < -ExpMax - 1
    BY <1>2
  <2> HIDE DEF Rest, After
  <2> QED
    BY <2>4, <2>5, <2>6, <2>7
<1> HIDE DEF Rest, After
<1> QED
  BY <1>6, <1>7

-----------------------------------------------------------------------------
(***************************************************************************)
(* The parts of a text.                                                    *)
(***************************************************************************)
\* A figure is a digit or an underscore, which changes neither the number nor the
\* state.
LEMMA FigureIsDigit ==
  ASSUME NEW c \in Figures
  PROVE  IsDigit(c) \/ c = "_"
BY DEF Figures, IsDigit

LEMMA NoDigit ==
  ASSUME NEW v, NEW c \in {"_", "e", "-", "+", "."}
  PROVE  ~IsDigit(c) /\ AddDigit(v, c) = v
<1>1. ~IsDigit(c)
  BY OnlyDigits
<1> QED
  BY <1>1 DEF AddDigit

\* A run over two texts is one over the first and one over the second.
LEMMA StatesOfTwo ==
  ASSUME NEW C, NEW t \in Seq(C), NEW u \in Seq(C), NEW g, NEW p, StateRun(g, p, t \o u)
  PROVE  StateRun(g, p, t) /\ \E b : StateRun(b, g[Len(t)], u) /\ b[Len(u)] = g[Len(t \o u)]
<1>1. PICK L \in Nat, M \in Nat : L = Len(t) /\ M = Len(u)
  OBVIOUS
<1>2. Len(t \o u) = L + M /\ \A i \in 1 .. L + M : (t \o u)[i] = IF i <= L THEN t[i] ELSE u[i - L]
  BY <1>1, ConcatProperties
<1>3. g[0] = p /\ \A n \in 1 .. L + M : g[n] = Character(g[n - 1], (t \o u)[n])
  BY <1>2 DEF StateRun
<1>4. StateRun(g, p, t)
  <2>1. \A n \in 1 .. L : n \in 1 .. L + M /\ n <= L
    OBVIOUS
  <2> QED
    BY <1>1, <1>2, <1>3, <2>1 DEF StateRun
<1>5. PICK b : b = [n \in 0 .. M |-> g[L + n]]
  OBVIOUS
<1>6. StateRun(b, g[L], u)
  <2>1. b[0] = g[L]
    BY <1>5
  <2>2. ASSUME NEW n \in 1 .. M PROVE b[n] = Character(b[n - 1], u[n])
    <3>1. PICK j \in 1 .. L + M : /\ j = L + n /\ ~(j <= L) /\ j - L = n /\ j - 1 = L + (n - 1)
                                   /\ n \in 0 .. M /\ n - 1 \in 0 .. M
      OBVIOUS
    <3>2. g[j] = Character(g[j - 1], (t \o u)[j]) /\ (t \o u)[j] = u[j - L]
      BY <1>2, <1>3, <3>1
    <3>3. b[n] = g[j] /\ b[n - 1] = g[j - 1]
      BY <1>5, <3>1
    <3> QED
      BY <3>1, <3>2, <3>3
  <2> QED
    BY <1>1, <2>1, <2>2 DEF StateRun
<1>7. b[M] = g[L + M]
  BY <1>5
<1> QED
  BY <1>1, <1>2, <1>4, <1>6, <1>7

\* The number of two texts goes on from that of the first.
LEMMA NumbersOfTwo ==
  ASSUME NEW C, NEW t \in Seq(C), NEW u \in Seq(C), NEW f, NEW v, NumberRun(f, v, t \o u)
  PROVE  \E a, b : NumberRun(a, v, t) /\ NumberRun(b, a[Len(t)], u) /\ b[Len(u)] = f[Len(t \o u)]
<1>1. PICK L \in Nat, M \in Nat : L = Len(t) /\ M = Len(u)
  OBVIOUS
<1>2. Len(t \o u) = L + M /\ \A i \in 1 .. L + M : (t \o u)[i] = IF i <= L THEN t[i] ELSE u[i - L]
  BY <1>1, ConcatProperties
<1>3. f \in [0 .. L + M -> Nat] /\ f[0] = v /\ \A n \in 1 .. L + M : f[n] = AddDigit(f[n - 1], (t \o u)[n])
  BY <1>2 DEF NumberRun
<1>4. PICK a : a = [n \in 0 .. L |-> f[n]]
  OBVIOUS
<1>5. NumberRun(a, v, t)
  <2>1. a \in [0 .. L -> Nat] /\ a[0] = v
    BY <1>3, <1>4
  <2>2. ASSUME NEW n \in 1 .. L PROVE a[n] = AddDigit(a[n - 1], t[n])
    <3>1. n \in 1 .. L + M /\ n <= L /\ n \in 0 .. L /\ n - 1 \in 0 .. L
      OBVIOUS
    <3>2. f[n] = AddDigit(f[n - 1], t[n])
      BY <1>2, <1>3, <3>1
    <3> QED
      BY <1>4, <3>1, <3>2
  <2> QED
    BY <1>1, <2>1, <2>2 DEF NumberRun
<1>6. PICK b : b = [n \in 0 .. M |-> f[L + n]]
  OBVIOUS
<1>7. NumberRun(b, a[L], u)
  <2>1. b \in [0 .. M -> Nat] /\ b[0] = a[L]
    <3>1. \A n \in 0 .. M : L + n \in 0 .. L + M
      OBVIOUS
    <3>2. b \in [0 .. M -> Nat]
      BY <1>3, <1>6, <3>1
    <3>3. 0 \in 0 .. M /\ L \in 0 .. L /\ L + 0 = L
      OBVIOUS
    <3>4. b[0] = f[L] /\ a[L] = f[L]
      BY <1>4, <1>6, <3>3
    <3> QED
      BY <3>2, <3>4
  <2>2. ASSUME NEW n \in 1 .. M PROVE b[n] = AddDigit(b[n - 1], u[n])
    <3>1. PICK j \in 1 .. L + M : /\ j = L + n /\ ~(j <= L) /\ j - L = n /\ j - 1 = L + (n - 1)
                                   /\ n \in 0 .. M /\ n - 1 \in 0 .. M
      OBVIOUS
    <3>2. f[j] = AddDigit(f[j - 1], (t \o u)[j]) /\ (t \o u)[j] = u[j - L]
      BY <1>2, <1>3, <3>1
    <3>3. b[n] = f[j] /\ b[n - 1] = f[j - 1]
      BY <1>6, <3>1
    <3> QED
      BY <3>1, <3>2, <3>3
  <2> QED
    BY <1>1, <2>1, <2>2 DEF NumberRun
<1>8. b[M] = f[L + M]
  BY <1>6
<1> QED
  BY <1>1, <1>2, <1>5, <1>7, <1>8

\* The digits up to n.
DigitsTo(t, n) == {i \in 1 .. n : IsDigit(t[i])}

\* One character more is one digit more, or none.
LEMMA DigitsGrow ==
  ASSUME NEW t, NEW n \in Nat
  PROVE  /\ IsFiniteSet(DigitsTo(t, n)) /\ Cardinality(DigitsTo(t, n)) \in 0 .. n
         /\ IsDigit(t[n + 1]) => Cardinality(DigitsTo(t, n + 1)) = Cardinality(DigitsTo(t, n)) + 1
         /\ ~IsDigit(t[n + 1]) => DigitsTo(t, n + 1) = DigitsTo(t, n)
<1>1. IsFiniteSet(1 .. n) /\ Cardinality(1 .. n) = n
  BY FS_Interval
<1>2. DigitsTo(t, n) \in SUBSET (1 .. n)
  BY DEF DigitsTo
<1>3. IsFiniteSet(DigitsTo(t, n)) /\ Cardinality(DigitsTo(t, n)) <= n
  BY <1>1, <1>2, FS_Subset
<1>4. Cardinality(DigitsTo(t, n)) \in Nat
  BY <1>3, FS_CardinalityType
<1>5. 1 .. n + 1 = (1 .. n) \cup {n + 1} /\ n + 1 \notin 1 .. n
  OBVIOUS
<1>6. ASSUME IsDigit(t[n + 1]) PROVE Cardinality(DigitsTo(t, n + 1)) = Cardinality(DigitsTo(t, n)) + 1
  <2>1. PICK next : next = n + 1
    OBVIOUS
  <2>2. DigitsTo(t, n + 1) = DigitsTo(t, n) \cup {next} /\ next \notin DigitsTo(t, n)
    BY <1>5, <1>6, <2>1 DEF DigitsTo
  <2> QED
    BY <1>3, <2>2, FS_AddElement
<1>7. ASSUME ~IsDigit(t[n + 1]) PROVE DigitsTo(t, n + 1) = DigitsTo(t, n)
  BY <1>5, <1>7 DEF DigitsTo
<1> QED
  BY <1>3, <1>4, <1>6, <1>7

\* The figures before the point are read, ...
LEMMA IntegerIsRead ==
  ASSUME NEW C, NEW t \in Seq(C), \A n \in DOMAIN t : t[n] \in Figures,
         NEW g, StateRun(g, Begun, t), NEW f, NumberRun(f, 0, t)
  PROVE  \E count \in 0 .. Len(t) :
            AtNumber(g[Len(t)], "int", f[Len(t)], 0, count) /\ (count # 0 <=> HasDigit(t))
<1>1. PICK L \in Nat : L = Len(t)
  OBVIOUS
<1>2. g[0] = Begun /\ \A n \in 1 .. L : g[n] = Character(g[n - 1], t[n])
  BY <1>1 DEF StateRun
<1>3. f \in [0 .. L -> Nat] /\ f[0] = 0 /\ \A n \in 1 .. L : f[n] = AddDigit(f[n - 1], t[n])
  BY <1>1 DEF NumberRun
<1>4. DOMAIN t = 1 .. L
  BY <1>1
<1> DEFINE UpTo(n, count) == AtNumber(g[n], "int", f[n], 0, count)
                               /\ (count # 0 <=> \E i \in 1 .. n : IsDigit(t[i]))
           S == {n \in Nat : n <= L => \E count \in 0 .. n : UpTo(n, count)}
<1>5. 0 \in S
  <2>1. PICK zero \in Nat : zero = 0
    OBVIOUS
  <2>2. UpTo(zero, zero) /\ zero \in 0 .. zero
    BY <1>2, <1>3, <2>1, NumberBegins
  <2> HIDE DEF UpTo
  <2> QED
    BY <2>1, <2>2
<1>6. ASSUME NEW n \in Nat, n \in S PROVE n + 1 \in S
  <2> SUFFICES ASSUME n + 1 <= L PROVE \E count \in 0 .. n + 1 : UpTo(n + 1, count)
    OBVIOUS
  <2>1. PICK count \in 0 .. n : UpTo(n, count)
    <3>1. n <= L
      BY <1>1
    <3> HIDE DEF UpTo
    <3> QED
      BY <1>6, <3>1
  <2>2. PICK next \in 1 .. L : next = n + 1 /\ next - 1 = n /\ n \in 0 .. L
    BY <1>1
  <2>3. PICK c : c = t[next] /\ c \in Figures
    BY <1>4, <2>2
  <2>4. g[next] = Character(g[n], c) /\ f[next] = AddDigit(f[n], c) /\ f[n] \in Nat
    BY <1>2, <1>3, <2>2, <2>3
  <2>5. \A i : i \in 1 .. next <=> i \in 1 .. n \/ i = next
    BY <2>2
  <2>6. CASE IsDigit(c)
    <3>1. PICK more \in 0 .. n + 1 : more = count + 1 /\ more # 0
      OBVIOUS
    <3>2. AtNumber(g[n], "int", f[n], 0, count) /\ count \in Nat
      BY <2>1
    <3>3. AtNumber(g[next], "int", f[n] * 10 + Value(c), 0, more)
      <4>1. PICK place \in {"int", "frac"}, below \in Nat : place = "int" /\ below = 0
        OBVIOUS
      <4>2. PICK v \in Nat : v = f[n]
        BY <2>4
      <4>3. AtNumber(g[n], place, v, below, count)
        BY <3>2, <4>1, <4>2
      <4>4. AtNumber(Character(g[n], c), place, v * 10 + Value(c),
                    IF place = "frac" THEN below + 1 ELSE below, count + 1)
        BY <2>6, <3>2, <4>3, NumberGoesOn
      <4> QED
        BY <2>4, <3>1, <4>1, <4>2, <4>4
    <3>4. f[next] = f[n] * 10 + Value(c)
      BY <2>4, <2>6 DEF AddDigit
    <3>5. \E i \in 1 .. next : IsDigit(t[i])
      BY <2>3, <2>5, <2>6
    <3>6. UpTo(next, more)
      BY <3>1, <3>3, <3>4, <3>5
    <3> HIDE DEF UpTo
    <3> QED
      BY <2>2, <3>1, <3>6
  <2>7. CASE ~IsDigit(c)
    <3>1. c = "_"
      BY <2>3, <2>7, FigureIsDigit
    <3>2. g[next] = g[n] /\ f[next] = f[n]
      BY <2>4, <2>7, <3>1, UnderscoreIsSkipped DEF AddDigit
    <3>3. (\E i \in 1 .. next : IsDigit(t[i])) <=> \E i \in 1 .. n : IsDigit(t[i])
      BY <2>3, <2>5, <2>7
    <3>4. UpTo(next, count)
      BY <2>1, <3>2, <3>3
    <3>5. count \in 0 .. n + 1
      OBVIOUS
    <3> HIDE DEF UpTo
    <3> QED
      BY <2>2, <3>4, <3>5
  <2> QED
    BY <2>6, <2>7
<1>7. \A n \in Nat : n \in S
  <2> HIDE DEF S
  <2> QED
    BY <1>5, <1>6, Induction
<1>8. PICK count \in 0 .. L : UpTo(L, count)
  <2> HIDE DEF UpTo
  <2>1. L \in Nat /\ L <= L
    OBVIOUS
  <2> QED
    BY <1>7, <2>1
<1> QED
  BY <1>1, <1>4, <1>8 DEF HasDigit

\* ... then those after it, ...
LEMMA FractionIsRead ==
  ASSUME NEW C, NEW t \in Seq(C), t # <<>>,
         \A n \in DOMAIN t : t[n] \in IF n = 1 THEN {"."} ELSE Figures,
         NEW p, NEW v, NEW before \in Nat \ {0}, AtNumber(p, "int", v, 0, before),
         NEW g, StateRun(g, p, t), NEW f, NumberRun(f, v, t)
  PROVE  \E below \in 0 .. Len(t) :
            /\ below = Cardinality({n \in DOMAIN t : IsDigit(t[n])})
            /\ AtNumber(g[Len(t)], "frac", f[Len(t)], below, before + below)
<1>1. PICK L \in Nat \ {0} : L = Len(t)
  OBVIOUS
<1>2. g[0] = p /\ \A n \in 1 .. L : g[n] = Character(g[n - 1], t[n])
  BY <1>1 DEF StateRun
<1>3. f \in [0 .. L -> Nat] /\ f[0] = v /\ \A n \in 1 .. L : f[n] = AddDigit(f[n - 1], t[n])
  BY <1>1 DEF NumberRun
<1>4. DOMAIN t = 1 .. L
  BY <1>1
<1> DEFINE Behind(n) == Cardinality(DigitsTo(t, n))
           UpTo(n) == AtNumber(g[n], "frac", f[n], Behind(n), before + Behind(n))
           S == {n \in Nat : n + 1 <= L => UpTo(n + 1)}
<1>5. 0 \in S
  <2>1. t[1] = "."
    BY <1>4
  <2>2. 1 \in 1 .. L /\ 1 - 1 = 0
    OBVIOUS
  <2>3. g[1] = Character(p, ".") /\ f[1] = v
    BY <1>2, <1>3, <2>1, <2>2, NoDigit
  <2>4. DigitsTo(t, 1) = {}
    <3>1. ~IsDigit(t[1])
      BY <2>1, OnlyDigits
    <3>2. \A i \in 1 .. 1 : i = 1
      OBVIOUS
    <3> QED
      BY <3>1, <3>2 DEF DigitsTo
  <2>5. Behind(1) = 0
    BY <2>4, FS_EmptySet
  <2>6. AtNumber(g[1], "frac", v, 0, before)
    BY <2>3, NumberHasPoint
  <2>7. UpTo(1)
    BY <2>3, <2>5, <2>6
  <2> HIDE DEF UpTo
  <2> QED
    BY <2>7
<1>6. ASSUME NEW n \in Nat, n \in S PROVE n + 1 \in S
  <2> SUFFICES ASSUME n + 2 <= L PROVE UpTo(n + 2)
    OBVIOUS
  <2>1. PICK m \in Nat \ {0} : m = n + 1 /\ m + 1 = n + 2
    OBVIOUS
  <2>2. UpTo(m)
    <3>1. n + 1 <= L
      BY <1>1
    <3> HIDE DEF UpTo
    <3> QED
      BY <1>6, <2>1, <3>1
  <2>3. PICK next \in 1 .. L : next = m + 1 /\ next - 1 = m /\ m \in 0 .. L /\ next # 1
    BY <1>1, <2>1
  <2>4. PICK c : c = t[next] /\ c \in Figures
    BY <1>4, <2>3
  <2>5. g[next] = Character(g[m], c) /\ f[next] = AddDigit(f[m], c) /\ f[m] \in Nat
    BY <1>2, <1>3, <2>3, <2>4
  <2>6. PICK below \in Nat : below = Behind(m)
    BY DigitsGrow
  <2>7. CASE IsDigit(c)
    <3>1. Behind(next) = below + 1
      BY <2>3, <2>4, <2>6, <2>7, DigitsGrow
    <3>2. PICK place \in {"int", "frac"}, w \in Nat, all \in Nat :
            place = "frac" /\ w = f[m] /\ all = before + below
      BY <2>5
    <3>3. AtNumber(g[m], place, w, below, all)
      BY <2>2, <2>6, <3>2
    <3>4. AtNumber(Character(g[m], c), place, w * 10 + Value(c),
                  IF place = "frac" THEN below + 1 ELSE below, all + 1)
      BY <2>7, <3>3, NumberGoesOn
    <3>5. f[next] = w * 10 + Value(c)
      BY <2>5, <2>7, <3>2 DEF AddDigit
    <3>6. before + (below + 1) = all + 1
      BY <3>2
    <3>7. UpTo(next)
      BY <2>5, <3>1, <3>2, <3>4, <3>5, <3>6
    <3> HIDE DEF UpTo
    <3> QED
      BY <2>1, <2>3, <3>7
  <2>8. CASE ~IsDigit(c)
    <3>1. c = "_"
      BY <2>4, <2>8, FigureIsDigit
    <3>2. g[next] = g[m] /\ f[next] = f[m]
      BY <2>5, <2>8, <3>1, UnderscoreIsSkipped DEF AddDigit
    <3>3. Behind(next) = Behind(m)
      BY <2>3, <2>4, <2>8, DigitsGrow
    <3>4. UpTo(next)
      BY <2>2, <3>2, <3>3
    <3> HIDE DEF UpTo
    <3> QED
      BY <2>1, <2>3, <3>4
  <2> QED
    BY <2>7, <2>8
<1>7. \A n \in Nat : n \in S
  <2> HIDE DEF S
  <2> QED
    BY <1>5, <1>6, Induction
<1>8. UpTo(L)
  <2> HIDE DEF UpTo
  <2>1. L - 1 \in Nat /\ L - 1 + 1 = L /\ L <= L
    OBVIOUS
  <2> QED
    BY <1>7, <2>1
<1>9. DigitsTo(t, L) = {n \in DOMAIN t : IsDigit(t[n])}
  BY <1>4 DEF DigitsTo
<1>10. Behind(L) \in 0 .. L
  BY DigitsGrow
<1> QED
  BY <1>1, <1>8, <1>9, <1>10

\* ... and those of the exponent.
LEMMA ExponentIsRead ==
  ASSUME ExpMax >= 9, NEW C, NEW t \in Seq(C), Len(t) > 1,
         \A n \in DOMAIN t : t[n] \in CASE n = 1 -> {"e"} [] n = 2 -> Figures \cup {"+", "-"} [] n > 2 -> Figures,
         NEW place \in {"int", "frac"}, NEW before, NEW k, NEW m, NEW h, place = "int" => before # 0,
         NEW g, StateRun(g, At(NumberState(place, before, k), m, h), t), NEW f, NumberRun(f, 0, t)
  PROVE  \E s \in {"PosExponent", "NegExponent"}, count \in Nat :
            /\ s = "NegExponent" <=> \E n \in DOMAIN t : t[n] = "-"
            /\ count # 0 <=> HasDigit(t)
            /\ AtExponent(g[Len(t)], s, m, h, f[Len(t)], count)
<1>1. PICK L \in Nat : L = Len(t) /\ L > 1
  OBVIOUS
<1>2. g[0] = At(NumberState(place, before, k), m, h) /\ \A n \in 1 .. L : g[n] = Character(g[n - 1], t[n])
  BY <1>1 DEF StateRun
<1>3. f \in [0 .. L -> Nat] /\ f[0] = 0 /\ \A n \in 1 .. L : f[n] = AddDigit(f[n - 1], t[n])
  BY <1>1 DEF NumberRun
<1>4. DOMAIN t = 1 .. L
  BY <1>1
<1>5. t[1] = "e" /\ t[2] \in Figures \cup {"+", "-"}
  <2>1. 1 \in 1 .. L /\ 2 \in 1 .. L
    BY <1>1
  <2> QED
    BY <1>4, <2>1
<1>6. \A n \in 3 .. L : t[n] \in Figures
  BY <1>1, <1>4
<1>7. PICK s \in {"PosExponent", "NegExponent"} : s = IF t[2] = "-" THEN "NegExponent" ELSE "PosExponent"
  OBVIOUS
<1>8. s = "NegExponent" <=> \E n \in DOMAIN t : t[n] = "-"
  <2>1. \A c \in Figures : c # "-"
    BY FigureIsDigit, OnlyDigits
  <2>2. \A n \in 1 .. L : n = 1 \/ n = 2 \/ n \in 3 .. L
    OBVIOUS
  <2>3. 2 \in 1 .. L
    BY <1>1
  <2> QED
    BY <1>4, <1>5, <1>6, <1>7, <2>1, <2>2, <2>3
<1> DEFINE UpTo(n, r, count) == AtExponent(g[n], r, m, h, f[n], count)
                                  /\ (count # 0 <=> \E i \in 1 .. n : IsDigit(t[i]))
\* One figure more.
<1>9. ASSUME NEW n \in Nat, n + 1 <= L, t[n + 1] \in Figures, NEW r \in {"PosExponent", "NegExponent"},
             NEW count \in Nat, UpTo(n, r, count)
      PROVE  \E more \in Nat : UpTo(n + 1, r, more)
  <2>1. PICK next \in 1 .. L : next = n + 1 /\ next - 1 = n /\ n \in 0 .. L
    BY <1>1, <1>9
  <2>2. PICK c : c = t[next] /\ c \in Figures
    BY <1>9, <2>1
  <2>3. g[next] = Character(g[n], c) /\ f[next] = AddDigit(f[n], c) /\ f[n] \in Nat
    BY <1>2, <1>3, <2>1, <2>2
  <2>4. \A i : i \in 1 .. next <=> i \in 1 .. n \/ i = next
    BY <2>1
  <2>5. CASE IsDigit(c)
    <3>1. PICK more \in Nat, v \in Nat : more = count + 1 /\ more # 0 /\ v = f[n]
      BY <2>3
    <3>2. AtExponent(g[n], r, m, h, v, count)
      BY <1>9, <3>1
    <3>3. AtExponent(Character(g[n], c), r, m, h, v * 10 + Value(c), count + 1)
      BY <2>5, <3>2, ExponentGoesOn
    <3>4. f[next] = v * 10 + Value(c)
      BY <2>3, <2>5, <3>1 DEF AddDigit
    <3>5. \E i \in 1 .. next : IsDigit(t[i])
      BY <2>2, <2>4, <2>5
    <3>6. UpTo(next, r, more)
      BY <2>3, <3>1, <3>3, <3>4, <3>5
    <3> HIDE DEF UpTo
    <3> QED
      BY <2>1, <3>1, <3>6
  <2>6. CASE ~IsDigit(c)
    <3>1. c = "_"
      BY <2>2, <2>6, FigureIsDigit
    <3>2. g[next] = g[n] /\ f[next] = f[n]
      BY <2>3, <2>6, <3>1, UnderscoreIsSkipped DEF AddDigit
    <3>3. (\E i \in 1 .. next : IsDigit(t[i])) <=> \E i \in 1 .. n : IsDigit(t[i])
      BY <2>2, <2>4, <2>6
    <3>4. UpTo(next, r, count)
      BY <1>9, <3>2, <3>3
    <3> HIDE DEF UpTo
    <3> QED
      BY <2>1, <3>4
  <2> QED
    BY <2>5, <2>6
<1>10. UpTo(1, "PosExponent", 0)
  <2>1. 1 \in 1 .. L /\ 1 - 1 = 0
    BY <1>1
  <2>2. g[1] = Character(g[0], "e") /\ f[1] = 0
    <3>1. f[1] = AddDigit(0, "e") /\ g[1] = Character(g[0], "e")
      BY <1>2, <1>3, <1>5, <2>1
    <3> QED
      BY <3>1, NoDigit
  <2>3. ~ \E i \in 1 .. 1 : IsDigit(t[i])
    <3>1. ~IsDigit(t[1])
      BY <1>5, OnlyDigits
    <3>2. \A i \in 1 .. 1 : i = 1
      OBVIOUS
    <3> QED
      BY <3>1, <3>2
  <2>4. AtExponent(g[1], "PosExponent", m, h, 0, 0)
    BY <1>2, <2>2, ExponentBegins
  <2> QED
    BY <2>2, <2>3, <2>4
<1>11. \E count \in Nat : UpTo(2, s, count)
  <2>1. 2 \in 1 .. L /\ 2 - 1 = 1
    BY <1>1
  <2>2. CASE t[2] \in Figures
    <3>1. s = "PosExponent"
      BY <1>7, <2>2, FigureIsDigit, OnlyDigits
    <3>2. PICK n \in Nat, count \in Nat : n = 1 /\ count = 0 /\ n + 1 = 2
      OBVIOUS
    <3>3. n + 1 <= L /\ t[n + 1] \in Figures /\ UpTo(n, s, count)
      BY <1>1, <1>10, <2>2, <3>1, <3>2
    <3> HIDE DEF UpTo
    <3>4. \E more \in Nat : UpTo(n + 1, s, more)
      BY <1>9, <3>3
    <3> QED
      BY <3>2, <3>4
  <2>3. CASE t[2] \in {"+", "-"}
    <3>1. g[2] = Character(g[1], t[2]) /\ f[2] = f[1] /\ ~IsDigit(t[2])
      <4>1. ~IsDigit(t[2])
        BY <2>3, OnlyDigits
      <4>2. f[2] = AddDigit(f[1], t[2]) /\ g[2] = Character(g[1], t[2])
        BY <1>2, <1>3, <2>1
      <4> QED
        BY <4>1, <4>2 DEF AddDigit
    <3>2. AtExponent(g[1], "PosExponent", m, h, 0, 0) /\ f[1] = 0
      <4>1. f[1] = 0
        <5>1. 1 \in 1 .. L /\ 1 - 1 = 0
          BY <1>1
        <5>2. f[1] = AddDigit(0, "e")
          BY <1>3, <1>5, <5>1
        <5> QED
          BY <5>2, NoDigit
      <4> QED
        BY <1>10, <4>1
    <3>3. AtExponent(g[2], s, m, h, 0, 0)
      BY <1>7, <2>3, <3>1, <3>2, ExponentIsSigned
    <3>4. ~ \E i \in 1 .. 2 : IsDigit(t[i])
      <4>1. ~IsDigit(t[1])
        BY <1>5, OnlyDigits
      <4>2. \A i \in 1 .. 2 : i = 1 \/ i = 2
        OBVIOUS
      <4> QED
        BY <3>1, <4>1, <4>2
    <3>5. UpTo(2, s, 0)
      BY <3>1, <3>2, <3>3, <3>4
    <3> HIDE DEF UpTo
    <3> QED
      BY <3>5
  <2> QED
    BY <1>5, <2>2, <2>3
<1> DEFINE S == {n \in Nat : n + 2 <= L => \E count \in Nat : UpTo(n + 2, s, count)}
<1>12. 0 \in S
  <2> HIDE DEF UpTo
  <2> QED
    BY <1>11
<1>13. ASSUME NEW n \in Nat, n \in S PROVE n + 1 \in S
  <2> HIDE DEF UpTo
  <2> SUFFICES ASSUME n + 3 <= L PROVE \E count \in Nat : UpTo(n + 3, s, count)
    OBVIOUS
  <2>1. PICK j \in Nat : j = n + 2 /\ j + 1 = n + 3 /\ j <= L /\ j + 1 \in 3 .. L
    BY <1>1
  <2>2. PICK count \in Nat : UpTo(j, s, count)
    BY <1>13, <2>1
  <2>3. t[j + 1] \in Figures /\ j + 1 <= L
    BY <1>6, <2>1
  <2>4. \E more \in Nat : UpTo(j + 1, s, more)
    BY <1>9, <2>2, <2>3
  <2> QED
    BY <2>1, <2>4
<1>14. \A n \in Nat : n \in S
  <2> HIDE DEF S
  <2> QED
    BY <1>12, <1>13, Induction
<1>15. PICK count \in Nat : UpTo(L, s, count)
  <2> HIDE DEF UpTo
  <2>1. L - 2 \in Nat /\ L - 2 + 2 = L /\ L <= L
    BY <1>1
  <2> QED
    BY <1>14, <2>1
<1> QED
  BY <1>1, <1>4, <1>8, <1>15 DEF HasDigit

\* An error is the last state, ...
LEMMA ErrorLasts ==
  ASSUME NEW C, NEW t \in Seq(C), NEW g, NEW p, StateRun(g, p, t),
         NEW i \in 0 .. Len(t), g[i].error # "none"
  PROVE  g[Len(t)] = g[i]
<1>1. PICK L \in Nat : L = Len(t)
  OBVIOUS
<1>2. \A n \in 1 .. L : g[n] = Character(g[n - 1], t[n])
  BY <1>1 DEF StateRun
<1> DEFINE S == {n \in Nat : i + n <= L => g[i + n] = g[i]}
<1>3. 0 \in S
  BY <1>1
<1>4. ASSUME NEW n \in Nat, n \in S PROVE n + 1 \in S
  <2> SUFFICES ASSUME i + (n + 1) <= L PROVE g[i + (n + 1)] = g[i]
    OBVIOUS
  <2>1. PICK j \in 1 .. L : j = i + (n + 1) /\ j - 1 = i + n /\ i + n <= L
    BY <1>1
  <2>2. g[j - 1] = g[i]
    BY <1>4, <2>1
  <2>3. g[j] = g[j - 1]
    BY <1>2, <2>1, <2>2, ErrorStays
  <2> QED
    BY <2>1, <2>2, <2>3
<1>5. \A n \in Nat : n \in S
  <2> HIDE DEF S
  <2> QED
    BY <1>3, <1>4, Induction
<1>6. L - i \in Nat /\ i + (L - i) = L /\ L <= L
  BY <1>1
<1> QED
  BY <1>1, <1>5, <1>6

\* The run begins in a state of the automaton, ...
LEMMA BegunTyped == Begun \in ParseState
<1>1. ExpMax \in Nat /\ Max \in Nat
  BY SizeRangeAssumption, RangeAssumption
<1>2. 0 \in U64 /\ 0 \in -ExpMax - 1 .. ExpMax /\ "Empty" \in States
  BY <1>1 DEF U64, States
<1> QED
  BY <1>2 DEF Begun, ParseState

\* ... and never leaves them.
LEMMA RunTyped ==
  ASSUME NEW C, NEW t \in Seq(C), NEW g, StateRun(g, Begun, t)
  PROVE  \A n \in 0 .. Len(t) : g[n] \in ParseState
<1>1. PICK L \in Nat : L = Len(t)
  OBVIOUS
<1>2. g[0] = Begun /\ \A n \in 1 .. L : g[n] = Character(g[n - 1], t[n])
  BY <1>1 DEF StateRun
<1> DEFINE S == {n \in Nat : n <= L => g[n] \in ParseState}
<1>3. 0 \in S
  BY <1>2, BegunTyped
<1>4. ASSUME NEW n \in Nat, n \in S PROVE n + 1 \in S
  <2> SUFFICES ASSUME n + 1 <= L PROVE g[n + 1] \in ParseState
    OBVIOUS
  <2>1. PICK j \in 1 .. L : j = n + 1 /\ j - 1 = n /\ n <= L
    BY <1>1
  <2>2. g[j - 1] \in ParseState
    BY <1>4, <2>1
  <2>3. g[j] \in ParseState
    BY <1>2, <2>1, <2>2, CharacterTyped
  <2> QED
    BY <2>1, <2>3
<1>5. \A n \in Nat : n \in S
  <2> HIDE DEF S
  <2> QED
    BY <1>3, <1>4, Induction
<1> QED
  BY <1>1, <1>5

\* A text has a character of S.
Has(t, S) == \E n \in DOMAIN t : t[n] \in S

\* Of two texts one has it or the other.
LEMMA HasOfTwo ==
  ASSUME NEW C, NEW t \in Seq(C), NEW u \in Seq(C), NEW S
  PROVE  Has(t \o u, S) <=> Has(t, S) \/ Has(u, S)
<1>1. PICK L \in Nat, M \in Nat : L = Len(t) /\ M = Len(u)
  OBVIOUS
<1>2. /\ DOMAIN t = 1 .. L /\ DOMAIN u = 1 .. M /\ DOMAIN (t \o u) = 1 .. L + M
      /\ \A i \in 1 .. L + M : (t \o u)[i] = IF i <= L THEN t[i] ELSE u[i - L]
  <2>1. t \o u \in Seq(C) /\ Len(t \o u) = L + M
    BY <1>1, ConcatProperties
  <2>2. \A i \in 1 .. L + M : (t \o u)[i] = IF i <= L THEN t[i] ELSE u[i - L]
    BY <1>1, ConcatProperties
  <2>3. DOMAIN (t \o u) = 1 .. L + M
    BY <2>1
  <2> QED
    BY <1>1, <2>2, <2>3
<1>3. ASSUME Has(t \o u, S) PROVE Has(t, S) \/ Has(u, S)
  <2>1. PICK n \in 1 .. L + M : (t \o u)[n] \in S
    BY <1>2, <1>3 DEF Has
  <2>2. CASE n <= L
    BY <1>2, <2>1, <2>2 DEF Has
  <2>3. CASE ~(n <= L)
    <3>1. n - L \in 1 .. M
      BY <2>3
    <3> QED
      BY <1>2, <2>1, <2>3, <3>1 DEF Has
  <2> QED
    BY <2>2, <2>3
<1>4. ASSUME Has(t, S) PROVE Has(t \o u, S)
  <2>1. PICK n \in 1 .. L : t[n] \in S
    BY <1>2, <1>4 DEF Has
  <2>2. n \in 1 .. L + M /\ n <= L
    OBVIOUS
  <2> QED
    BY <1>2, <2>1, <2>2 DEF Has
<1>5. ASSUME Has(u, S) PROVE Has(t \o u, S)
  <2>1. PICK n \in 1 .. M : u[n] \in S
    BY <1>2, <1>5 DEF Has
  <2>2. PICK j \in 1 .. L + M : j = L + n /\ ~(j <= L) /\ j - L = n
    OBVIOUS
  <2>3. (t \o u)[j] = u[n]
    BY <1>2, <2>2
  <2> QED
    BY <1>2, <2>1, <2>2, <2>3 DEF Has
<1> QED
  BY <1>3, <1>4, <1>5

\* Nothing in a text is wrong.
Clean(t) == \A n \in DOMAIN t : t[n] \notin Wrong

\* So it is in two texts when it is in each.
LEMMA CleanOfTwo ==
  ASSUME NEW C, NEW t \in Seq(C), NEW u \in Seq(C)
  PROVE  Clean(t \o u) <=> Clean(t) /\ Clean(u)
<1>1. \A x : Clean(x) <=> ~Has(x, Wrong)
  BY DEF Clean, Has
<1> QED
  BY <1>1, HasOfTwo

\* What is wrong is found.
LEMMA WrongIsFound ==
  ASSUME NEW C, NEW t \in Seq(C), ~Clean(t)
  PROVE  Parsed(t).error # "none"
<1>1. PICK g : StateRun(g, Begun, t) /\ Parsed(t) = g[Len(t)]
  BY ParsedIsRun
<1>2. PICK n \in DOMAIN t : t[n] \in Wrong
  BY DEF Clean
<1>3. n \in 1 .. Len(t) /\ n \in 0 .. Len(t) /\ n - 1 \in 0 .. Len(t)
  OBVIOUS
<1>4. g[n - 1] \in ParseState
  BY <1>1, <1>3, RunTyped
<1>5. g[n] = Character(g[n - 1], t[n])
  BY <1>1, <1>3 DEF StateRun
<1>6. g[n].error # "none"
  BY <1>2, <1>4, <1>5, WrongIsRefused
<1> QED
  BY <1>1, <1>3, <1>6, ErrorLasts

\* The figures of a size with nothing wrong in it.
LEMMA PartsOfSide ==
  ASSUME NEW s, IsSide(s)
  PROVE  /\ \E C : Text = Seq(C)
         /\ s.int \in Text /\ s.frac \in Text /\ s.exp \in Text /\ s.unit \in Units
         /\ Clean(s.int) => \A n \in DOMAIN s.int : s.int[n] \in Figures
         /\ Clean(s.frac) => \A n \in DOMAIN s.frac : s.frac[n] \in IF n = 1 THEN {"."} ELSE Figures
         /\ Clean(s.exp) => \A n \in DOMAIN s.exp :
              s.exp[n] \in CASE n = 1 -> {"e"} [] n = 2 -> Figures \cup {"+", "-"} [] n > 2 -> Figures
<1>1. s.int \in Text /\ s.frac \in Text /\ s.exp \in Text /\ s.unit \in Units
  BY DEF IsSide
<1>2. ASSUME Clean(s.int) PROVE \A n \in DOMAIN s.int : s.int[n] \in Figures
  BY <1>2 DEF IsSide, Clean
<1>3. ASSUME Clean(s.frac) PROVE \A n \in DOMAIN s.frac : s.frac[n] \in IF n = 1 THEN {"."} ELSE Figures
  BY <1>3 DEF IsSide, Clean
<1>4. ASSUME Clean(s.exp)
      PROVE \A n \in DOMAIN s.exp :
              s.exp[n] \in CASE n = 1 -> {"e"} [] n = 2 -> Figures \cup {"+", "-"} [] n > 2 -> Figures
  <2>1. \A n \in DOMAIN s.exp : s.exp[n] \in CASE n = 1 -> {"e"}
                                           [] n = 2 -> Figures \cup Wrong \cup {"+", "-"}
                                           [] n > 2 -> Figures \cup Wrong
    BY DEF IsSide
  <2>2. \A n \in DOMAIN s.exp : s.exp[n] \notin Wrong
    BY <1>4 DEF Clean
  <2>3. \A n \in DOMAIN s.exp : n = 1 \/ n = 2 \/ n > 2
    <3>1. PICK C : s.exp \in Seq(C)
      BY <1>1 DEF Text
    <3>2. DOMAIN s.exp = 1 .. Len(s.exp) /\ Len(s.exp) \in Nat
      BY <3>1
    <3>3. \A n \in 1 .. Len(s.exp) : n = 1 \/ n = 2 \/ n > 2
      OBVIOUS
    <3> QED
      BY <3>2, <3>3
  <2> QED
    BY <2>1, <2>2, <2>3
<1>5. \E C : Text = Seq(C)
  BY DEF Text
<1> QED
  BY <1>1, <1>2, <1>3, <1>4, <1>5

\* What is kept of a size, and the place where it stops.
KeepsOf(s, m, k, h) ==
  /\ Keeps(m, k, Mantissa(s)) /\ k <= Len(s.int \o s.frac)
  /\ h = k - Below(s) /\ h <= Len(s.int) /\ -Len(s.frac) <= h

\* The state at the end of a size of which m is kept.
EndsAt(p, s, m, h) ==
  /\ m > Max => p.error = "PosOverflow"
  /\ m <= Max /\ s.exp = <<>> =>
       /\ p.error = "none" /\ p.mantissa = m /\ p.shift = h /\ p.exponent = 0
       /\ p.state \notin {"Empty", "PosExponent", "NegExponent"}
  /\ m <= Max /\ s.exp # <<>> =>
       \E sign \in {"PosExponent", "NegExponent"}, count \in Nat :
          /\ sign = "NegExponent" <=> \E n \in DOMAIN s.exp : s.exp[n] = "-"
          /\ count # 0 <=> HasDigit(s.exp)
          /\ AtExponent(p, sign, m, h, NumberOf(s.exp), count)

\* The end of the exponent is the end of the size.
LEMMA AtExponentEnds ==
  ASSUME NEW s, IsSide(s), Clean(s.exp), s.exp # <<>>,
         NEW place \in {"int", "frac"}, NEW before, NEW k, NEW m, NEW h, place = "int" => before # 0,
         NEW b, StateRun(b, At(NumberState(place, before, k), m, h), s.exp)
  PROVE  \E sign \in {"PosExponent", "NegExponent"}, count \in Nat :
            /\ sign = "NegExponent" <=> \E n \in DOMAIN s.exp : s.exp[n] = "-"
            /\ count # 0 <=> HasDigit(s.exp)
            /\ AtExponent(b[Len(s.exp)], sign, m, h, NumberOf(s.exp), count)
<1>1. PICK C : Text = Seq(C)
  BY DEF Text
<1>2. PICK t \in Seq(C) : t = s.exp
  BY <1>1, PartsOfSide
<1>3. \A n \in DOMAIN t : t[n] \in CASE n = 1 -> {"e"} [] n = 2 -> Figures \cup {"+", "-"} [] n > 2 -> Figures
  BY <1>2, PartsOfSide
<1>4. Len(t) > 1
  <2>1. Len(t) # 1
    BY <1>2 DEF IsSide
  <2>2. PICK l \in Nat : l = Len(t)
    OBVIOUS
  <2>3. l # 0 /\ l # 1
    BY <1>2, <2>1, <2>2
  <2> QED
    BY <2>2, <2>3
<1>5. ExpMax >= 9
  <2>1. 10 * (Len(s.int) + Cutoff + 2) <= ExpMax /\ s.int \in Text
    BY DEF IsSide
  <2>2. PICK l \in Nat : l = Len(s.int)
    BY <1>1, <2>1
  <2>3. 10 * (l + Cutoff + 2) <= ExpMax /\ Cutoff \in Nat /\ ExpMax \in Nat
    BY <2>1, <2>2, SizeRangeAssumption
  <2> QED
    BY <2>3
<1>6. PICK f : NumberRun(f, 0, t) /\ NumberOf(t) = f[Len(t)]
  BY NumberIsRun
<1>7. \E sign \in {"PosExponent", "NegExponent"}, count \in Nat :
            /\ sign = "NegExponent" <=> \E n \in DOMAIN t : t[n] = "-"
            /\ count # 0 <=> HasDigit(t)
            /\ AtExponent(b[Len(t)], sign, m, h, f[Len(t)], count)
  <2>1. StateRun(b, At(NumberState(place, before, k), m, h), t)
    BY <1>2
  <2> QED
    BY <1>3, <1>4, <1>5, <1>6, <2>1, ExponentIsRead
<1> QED
  BY <1>2, <1>6, <1>7

\* A text in three parts is read in three.
LEMMA ThreeRuns ==
  ASSUME NEW s, IsSide(s), NEW p, p = Parsed(s.int \o s.frac \o s.exp)
  PROVE  \E g, b, c, e, d :
           /\ StateRun(g, Begun, s.int)
           /\ StateRun(b, g[Len(s.int)], s.frac)
           /\ StateRun(c, b[Len(s.frac)], s.exp) /\ p = c[Len(s.exp)]
           /\ NumberRun(e, 0, s.int)
           /\ NumberRun(d, e[Len(s.int)], s.frac) /\ Mantissa(s) = d[Len(s.frac)]
<1>1. PICK C : Text = Seq(C)
  BY DEF Text
<1>2. PICK t \in Seq(C), u \in Seq(C), x \in Seq(C) : t = s.int /\ u = s.frac /\ x = s.exp
  BY <1>1, PartsOfSide
<1>3. PICK n \in Seq(C), y \in Seq(C) : n = t \o u /\ y = n \o x
  <2>1. t \o u \in Seq(C)
    BY ConcatProperties
  <2>2. t \o u \o x \in Seq(C)
    BY <2>1, ConcatProperties
  <2> QED
    BY <2>1, <2>2
<1>4. PICK g : StateRun(g, Begun, y) /\ Parsed(y) = g[Len(y)]
  BY ParsedIsRun
<1>5. StateRun(g, Begun, n) /\ \E c : StateRun(c, g[Len(n)], x) /\ c[Len(x)] = g[Len(y)]
  BY <1>3, <1>4, StatesOfTwo
<1>6. PICK c : StateRun(c, g[Len(n)], x) /\ c[Len(x)] = g[Len(y)]
  BY <1>5
<1>7. StateRun(g, Begun, t) /\ \E b : StateRun(b, g[Len(t)], u) /\ b[Len(u)] = g[Len(n)]
  BY <1>3, <1>5, StatesOfTwo
<1>8. PICK b : StateRun(b, g[Len(t)], u) /\ b[Len(u)] = g[Len(n)]
  BY <1>7
<1>9. PICK f : NumberRun(f, 0, n) /\ NumberOf(n) = f[Len(n)]
  BY NumberIsRun
<1>10. PICK e, d : NumberRun(e, 0, t) /\ NumberRun(d, e[Len(t)], u) /\ d[Len(u)] = f[Len(n)]
  BY <1>3, <1>9, NumbersOfTwo
<1>11. Mantissa(s) = f[Len(n)] /\ p = g[Len(y)]
  BY <1>2, <1>3, <1>4, <1>9 DEF Mantissa
<1>12. /\ StateRun(g, Begun, t) /\ StateRun(b, g[Len(t)], u)
       /\ StateRun(c, b[Len(u)], x) /\ p = c[Len(x)]
       /\ NumberRun(e, 0, t) /\ NumberRun(d, e[Len(t)], u) /\ Mantissa(s) = d[Len(u)]
  BY <1>6, <1>7, <1>8, <1>10, <1>11
<1> QED
  BY <1>2, <1>12

\* Before the first digit the automaton is where it began.
LEMMA NothingIsRead ==
  ASSUME NEW p, NEW v, AtNumber(p, "int", v, 0, 0)
  PROVE  p.error = "none" /\ p.state = "Empty"
<1>1. PICK m, k, h : Number(p, "int", v, 0, 0, m, k, h)
  BY DEF AtNumber
<1>2. Max \in Nat /\ k \in Nat /\ m \in Nat /\ k <= 0 /\ v = 0
  BY <1>1, RangeAssumption DEF Number, Keeps
<1>3. k = 0
  BY <1>2
<1>4. m = v
  <2>1. PICK value \in Nat : value = v
    BY <1>2
  <2>2. Keeps(m, 0, value)
    BY <1>1, <1>3, <2>1 DEF Number
  <2> QED
    BY <2>1, <2>2, AllAreKept
<1>5. m <= Max
  BY <1>2, <1>4
<1>6. p = At(NumberState("int", 0, k), m, h)
  BY <1>1, <1>5 DEF Number
<1> QED
  BY <1>6 DEF At, NumberState

\* No size is without a digit before its point, ...
LEMMA NoDigitIsRefused ==
  ASSUME NEW s, IsSide(s), Clean(s.int), Clean(s.frac), Clean(s.exp), ~HasDigit(s.int),
         NEW p, p = Parsed(s.int \o s.frac \o s.exp)
  PROVE  p.error # "none" \/ p.state = "Empty"
<1>1. PICK C : Text = Seq(C)
  BY DEF Text
<1>2. PICK t \in Seq(C), u \in Seq(C), x \in Seq(C) : t = s.int /\ u = s.frac /\ x = s.exp
  BY <1>1, PartsOfSide
<1>3. PICK g, b, c, e, d : /\ StateRun(g, Begun, t) /\ StateRun(b, g[Len(t)], u)
                           /\ StateRun(c, b[Len(u)], x) /\ p = c[Len(x)] /\ NumberRun(e, 0, t)
  BY <1>2, ThreeRuns
<1>4. \A n \in DOMAIN t : t[n] \in Figures
  BY <1>2, PartsOfSide
<1>5. PICK q : q = g[Len(t)]
  OBVIOUS
<1>6. q.error = "none" /\ q.state = "Empty"
  <2>1. PICK count \in 0 .. Len(t) :
           AtNumber(q, "int", e[Len(t)], 0, count) /\ (count # 0 <=> HasDigit(t))
    BY <1>3, <1>4, <1>5, IntegerIsRead
  <2>2. count = 0
    BY <1>2, <2>1
  <2> QED
    BY <2>1, <2>2, NothingIsRead
<1>7. b[0] = q /\ c[0] = b[Len(u)]
  BY <1>3, <1>5 DEF StateRun
<1>8. CASE u # <<>>
  <2>1. 1 \in DOMAIN u /\ 1 \in 1 .. Len(u) /\ 1 \in 0 .. Len(u) /\ 1 - 1 = 0
    BY <1>8
  <2>2. u[1] = "."
    BY <1>2, <2>1, PartsOfSide
  <2>3. b[1] = Character(q, ".")
    BY <1>3, <1>7, <2>1, <2>2 DEF StateRun
  <2>4. Turn["."] = [i \in {"Integer", "IntegerOverflow"} |->
                       IF i = "Integer" THEN "Fraction" ELSE "FractionOverflow"]
    BY DEF Turn
  <2>5. Character(q, ".") = [q EXCEPT !.error = "InvalidDigit"]
    BY <1>6, <2>4, TurnIsTaken
  <2>6. q \in ParseState
    BY <1>3, <1>5, RunTyped
  <2>7. b[1].error # "none"
    BY <2>3, <2>5, <2>6 DEF ParseState
  <2>8. b[Len(u)].error # "none"
    BY <1>3, <2>1, <2>7, ErrorLasts
  <2>9. 0 \in 0 .. Len(x)
    OBVIOUS
  <2>10. c[Len(x)].error # "none"
    BY <1>3, <1>7, <2>8, <2>9, ErrorLasts
  <2> QED
    BY <1>3, <2>10
<1>9. CASE u = <<>> /\ x # <<>>
  <2>1. 1 \in DOMAIN x /\ 1 \in 1 .. Len(x) /\ 1 \in 0 .. Len(x) /\ 1 - 1 = 0
    BY <1>9
  <2>2. x[1] = "e"
    BY <1>2, <2>1, PartsOfSide
  <2>3. c[1] = Character(q, "e")
    <3>1. c[0] = q
      BY <1>7, <1>9
    <3> QED
      BY <1>3, <2>1, <2>2, <3>1 DEF StateRun
  <2>4. Turn["e"] = [i \in {"Integer", "Fraction", "IntegerOverflow", "FractionOverflow"} |-> "PosExponent"]
    BY DEF Turn
  <2>5. Character(q, "e") = [q EXCEPT !.error = "InvalidDigit"]
    BY <1>6, <2>4, TurnIsTaken
  <2>6. q \in ParseState
    BY <1>3, <1>5, RunTyped
  <2>7. c[1].error # "none"
    BY <2>3, <2>5, <2>6 DEF ParseState
  <2>8. c[Len(x)].error # "none"
    BY <1>3, <2>1, <2>7, ErrorLasts
  <2> QED
    BY <1>3, <2>8
<1>10. CASE u = <<>> /\ x = <<>>
  BY <1>3, <1>6, <1>7, <1>10
<1> QED
  BY <1>8, <1>9, <1>10

\* ... and with one it is read to its end.
LEMMA SizeIsParsed ==
  ASSUME NEW s, IsSide(s), Clean(s.int), Clean(s.frac), Clean(s.exp), HasDigit(s.int),
         NEW p, p = Parsed(s.int \o s.frac \o s.exp)
  PROVE  \E m, k, h : KeepsOf(s, m, k, h) /\ EndsAt(p, s, m, h)
<1>1. PICK C : Text = Seq(C)
  BY DEF Text
<1>2. PICK t \in Seq(C), u \in Seq(C), x \in Seq(C) : t = s.int /\ u = s.frac /\ x = s.exp
  BY <1>1, PartsOfSide
<1>3. PICK g, b, c, e, d :
           /\ StateRun(g, Begun, t) /\ StateRun(b, g[Len(t)], u)
           /\ StateRun(c, b[Len(u)], x) /\ p = c[Len(x)]
           /\ NumberRun(e, 0, t) /\ NumberRun(d, e[Len(t)], u) /\ Mantissa(s) = d[Len(u)]
  BY <1>2, ThreeRuns
<1>4. \A n \in DOMAIN t : t[n] \in Figures
  BY <1>2, PartsOfSide
<1>5. PICK count \in 0 .. Len(t) : AtNumber(g[Len(t)], "int", e[Len(t)], 0, count) /\ count # 0
  <2>1. PICK count \in 0 .. Len(t) :
           AtNumber(g[Len(t)], "int", e[Len(t)], 0, count) /\ (count # 0 <=> HasDigit(t))
    BY <1>3, <1>4, IntegerIsRead
  <2> QED
    BY <1>2, <2>1
\* The end of the digits.
<1>6. \E place \in {"int", "frac"}, below \in 0 .. Len(u) :
         below = Below(s) /\ AtNumber(b[Len(u)], place, Mantissa(s), below, count + below)
  <2>1. CASE u = <<>>
    <3>1. Below(s) = 0
      <4>1. {n \in DOMAIN u : IsDigit(u[n])} = {}
        BY <2>1
      <4> QED
        BY <1>2, <4>1, FS_EmptySet DEF Below
    <3>2. Len(u) = 0 /\ b[0] = g[Len(t)] /\ d[0] = e[Len(t)]
      BY <1>3, <2>1 DEF StateRun, NumberRun
    <3>3. AtNumber(b[Len(u)], "int", Mantissa(s), 0, count)
      BY <1>3, <1>5, <3>2
    <3>4. PICK place \in {"int", "frac"}, below \in 0 .. Len(u) :
            place = "int" /\ below = 0 /\ count + below = count
      OBVIOUS
    <3> QED
      BY <3>1, <3>3, <3>4
  <2>2. CASE u # <<>>
    <3>1. \A n \in DOMAIN u : u[n] \in IF n = 1 THEN {"."} ELSE Figures
      BY <1>2, PartsOfSide
    <3>2. count \in Nat \ {0}
      BY <1>5
    <3>3. \E below \in 0 .. Len(u) :
             /\ below = Cardinality({n \in DOMAIN u : IsDigit(u[n])})
             /\ AtNumber(b[Len(u)], "frac", d[Len(u)], below, count + below)
      BY <1>3, <1>5, <2>2, <3>1, <3>2, FractionIsRead
    <3> QED
      BY <1>2, <1>3, <3>3 DEF Below
  <2> QED
    BY <2>1, <2>2
<1>7. PICK place \in {"int", "frac"}, below \in 0 .. Len(u) :
         below = Below(s) /\ AtNumber(b[Len(u)], place, Mantissa(s), below, count + below)
  BY <1>6
<1>8. PICK all, q : all \in Nat /\ all = count + below /\ all # 0 /\ q = b[Len(u)]
  BY <1>5
<1>9. PICK m, k, h : Number(q, place, Mantissa(s), below, all, m, k, h)
  BY <1>7, <1>8 DEF AtNumber
<1>10. KeepsOf(s, m, k, h)
  <2>1. Len(t \o u) = Len(t) + Len(u)
    BY ConcatProperties
  <2>2. PICK L \in Nat, M \in Nat : L = Len(t) /\ M = Len(u)
    OBVIOUS
  <2>3. Keeps(m, k, Mantissa(s)) /\ k <= all /\ h = k - below /\ k \in Nat
    BY <1>9 DEF Number, Keeps
  <2>4. count <= L /\ below <= M
    BY <2>2
  <2>5. k <= L + M /\ h <= L /\ -M <= h
    BY <1>8, <2>2, <2>3, <2>4
  <2> QED
    BY <1>2, <1>7, <2>1, <2>2, <2>3, <2>5 DEF KeepsOf
<1>11. Max \in Nat /\ m \in Nat
  BY <1>9, RangeAssumption DEF Number, Keeps
<1>12. c[0] = q
  BY <1>3, <1>8 DEF StateRun
<1>13. EndsAt(p, s, m, h)
  <2>1. ASSUME m > Max PROVE p.error = "PosOverflow"
    <3>1. q.error = "PosOverflow"
      BY <1>9, <2>1 DEF Number
    <3>2. 0 \in 0 .. Len(x)
      OBVIOUS
    <3> QED
      BY <1>3, <1>12, <3>1, <3>2, ErrorLasts
  <2>2. ASSUME m <= Max PROVE q = At(NumberState(place, all, k), m, h)
    BY <1>9, <2>2 DEF Number
  <2>3. ASSUME m <= Max, x = <<>>
        PROVE /\ p.error = "none" /\ p.mantissa = m /\ p.shift = h /\ p.exponent = 0
              /\ p.state \notin {"Empty", "PosExponent", "NegExponent"}
    <3>1. p = q
      BY <1>3, <1>12, <2>3
    <3>2. q = At(NumberState(place, all, k), m, h)
      BY <2>2, <2>3
    <3> QED
      BY <1>8, <3>1, <3>2 DEF At, NumberState
  <2>4. ASSUME m <= Max, x # <<>>
        PROVE \E sign \in {"PosExponent", "NegExponent"}, n \in Nat :
                /\ sign = "NegExponent" <=> \E i \in DOMAIN s.exp : s.exp[i] = "-"
                /\ n # 0 <=> HasDigit(s.exp)
                /\ AtExponent(p, sign, m, h, NumberOf(s.exp), n)
    <3>1. StateRun(c, At(NumberState(place, all, k), m, h), s.exp)
      BY <1>2, <1>3, <1>8, <2>2, <2>4
    <3>2. s.exp # <<>> /\ p = c[Len(s.exp)]
      BY <1>2, <1>3, <2>4
    <3>3. Clean(s.exp) /\ place \in {"int", "frac"} /\ (place = "int" => all # 0)
      BY <1>2, <1>8
    <3>4. PICK end1 : end1 = c[Len(s.exp)] /\ p = end1
      BY <3>2
    <3>5. \E sign \in {"PosExponent", "NegExponent"}, n \in Nat :
            /\ sign = "NegExponent" <=> \E i \in DOMAIN s.exp : s.exp[i] = "-"
            /\ n # 0 <=> HasDigit(s.exp)
            /\ AtExponent(c[Len(s.exp)], sign, m, h, NumberOf(s.exp), n)
      BY <3>1, <3>2, <3>3, AtExponentEnds
    <3> QED
      BY <3>4, <3>5
  <2> QED
    BY <1>2, <2>1, <2>3, <2>4 DEF EndsAt
<1> QED
  BY <1>10, <1>13

-----------------------------------------------------------------------------
(***************************************************************************)
(* From the digits and the exponent to the size that is meant.             *)
(***************************************************************************)
\* The digits of a text make a natural number.
LEMMA NumberIsNatural ==
  ASSUME NEW C, NEW t \in Seq(C)
  PROVE  NumberOf(t) \in Nat
<1>1. PICK f : NumberRun(f, 0, t) /\ NumberOf(t) = f[Len(t)]
  BY NumberIsRun
<1>2. f \in [0 .. Len(t) -> Nat] /\ Len(t) \in 0 .. Len(t)
  BY <1>1 DEF NumberRun
<1> QED
  BY <1>1, <1>2

\* What is kept is what SizeRange says is kept.
LEMMA KeptIsKept ==
  ASSUME NEW s, IsSide(s), NEW m, NEW k
  PROVE  /\ Mantissa(s) \in Nat
         /\ <<m, k>> \in Kept(s) <=> Keeps(m, k, Mantissa(s)) /\ k <= Len(s.int \o s.frac)
<1>1. PICK C : Text = Seq(C)
  BY DEF Text
<1>2. s.int \in Seq(C) /\ s.frac \in Seq(C)
  BY <1>1, PartsOfSide
<1>3. s.int \o s.frac \in Seq(C)
  BY <1>2, ConcatProperties
<1>4. PICK L \in Nat, digits \in Nat : L = Len(s.int \o s.frac) /\ digits = Mantissa(s)
  <2>1. PICK t \in Seq(C) : t = s.int \o s.frac
    BY <1>3
  <2>2. NumberOf(t) \in Nat /\ Len(t) \in Nat
    BY NumberIsNatural
  <2> QED
    BY <2>1, <2>2 DEF Mantissa
<1> DEFINE left == {j \in 0 .. L : (j > 0 => (Max + 1) * Pow10[j - 1] <= digits)
                                /\ digits < (Max + 1) * Pow10[j]}
<1>5. Kept(s) = {d \in (0 .. Max + 1) \X left : Rounds(d[1], digits, Pow10[d[2]])}
  BY <1>4 DEF Kept
<1>6. <<m, k>> \in Kept(s) <=> m \in 0 .. Max + 1 /\ k \in left /\ Rounds(m, digits, Pow10[k])
  BY <1>5
<1>7. k \in left <=> /\ k \in Nat /\ k <= L
                     /\ k > 0 => (Max + 1) * Pow10[k - 1] <= digits
                     /\ digits < (Max + 1) * Pow10[k]
  <2>1. k \in 0 .. L <=> k \in Nat /\ k <= L
    OBVIOUS
  <2> QED
    BY <2>1
<1> HIDE DEF left
<1> QED
  BY <1>4, <1>6, <1>7 DEF Keeps

\* The factors of the units are such that no power of ten beyond Cutoff counts.
LEMMA FactorIsOne ==
  ASSUME NEW s
  PROVE  Factor(s) \in Factors
<1>1. Max \in Nat \ {0} /\ Cutoff + 1 \in Nat /\ Decimal \in 1 .. Max /\ Binary \in 1 .. Max
  BY RangeAssumption, SizeRangeAssumption
<1>2. Decimal \in Factors /\ Binary \in Factors
  BY <1>1, SizeRangeAssumption DEF Factors
<1>3. 1 \in Factors
  <2>1. PICK q \in Nat : q = Pow10[Cutoff + 1]
    BY <1>1, PowersAreNatural
  <2>2. PICK a \in Nat, f \in Nat \ {0} : a = 2 * Max /\ f = Binary
    BY <1>1
  <2>3. a * f < q
    BY <2>1, <2>2, SizeRangeAssumption
  <2>4. a <= a * f /\ a * f \in Nat
    BY <2>2, TimesOneOrMore, TimesIsNatural
  <2>5. 2 * Max * 1 < q
    BY <1>1, <2>2, <2>3, <2>4
  <2> QED
    BY <1>1, <2>1, <2>5 DEF Factors
<1> QED
  BY <1>2, <1>3 DEF Factor

\* Beyond Cutoff nothing but zero fits.
LEMMA FarAbove ==
  ASSUME NEW m \in Nat \ {0}, NEW f \in Factors, NEW power \in Int, power > Cutoff
  PROVE  Nearest(m * f, power) = Max + 1
<1>1. Max \in Nat \ {0} /\ Cutoff \in Nat /\ f \in Nat \ {0} /\ power \in Nat
  BY RangeAssumption, SizeRangeAssumption DEF Factors
<1>2. PICK n \in Nat, q \in Nat, b \in Nat : n = m * f /\ q = Pow10[Cutoff + 1] /\ b = 2 * Max * f
  <2>1. PICK a \in Nat : a = 2 * Max
    BY <1>1
  <2>2. m * f \in Nat /\ a * f \in Nat
    BY <1>1, TimesIsNatural
  <2>3. Pow10[Cutoff + 1] \in Nat
    BY <1>1, PowersAreNatural
  <2> QED
    BY <2>1, <2>2, <2>3
<1>3. n > 0 /\ b < q /\ Max <= b
  <2>1. f <= n
    BY <1>1, <1>2, TimesOneOrMore
  <2>2. 2 * Max <= b
    <3>1. PICK a \in Nat : a = 2 * Max
      BY <1>1
    <3> QED
      BY <1>1, <1>2, <3>1, TimesOneOrMore
  <2>3. b < q
    BY <1>2 DEF Factors
  <2> QED
    BY <1>1, <1>2, <2>1, <2>2, <2>3
<1>4. q <= n * q /\ n * q \in Nat
  BY <1>2, <1>3, TimesOneOrMore, TimesIsNatural
<1>5. n * q > Max
  BY <1>1, <1>2, <1>3, <1>4
<1>6. IsNearest(Max + 1, n * q, 1)
  BY <1>4, <1>5, TooLarge
<1>7. ~(power <= Cutoff)
  BY <1>1
<1>8. IsNearest(Max + 1, n * Pow10[IF power <= Cutoff THEN power ELSE Cutoff + 1], 1)
  BY <1>2, <1>6, <1>7
<1>9. Nearest(n, power) = Max + 1
  BY <1>1, <1>2, <1>8, NearestAbove
<1> QED
  BY <1>2, <1>9

\* m times f is scaled as it is meant, or too large.
IsScaled(r, m, f, power) ==
  /\ r.error \in {"none", "PosOverflow"}
  /\ r.error = "none" => r.size = Nearest(m * f, power)
  /\ r.error # "none" /\ m # 0 => Nearest(m * f, power) = Max + 1

\* The power that is scaled with is as good as the one that is meant.
LEMMA ScaledAsMeant ==
  ASSUME NEW m \in U64, NEW f \in Factors, NEW e \in Int, NEW power \in Int,
         power = e \/ (power < -Cutoff /\ e < -Cutoff), Cutoff < ExpMax,
         NEW r, r = Scaled(m, f, IF e > ExpMax THEN ExpMax ELSE e)
  PROVE  IsScaled(r, m, f, power)
<1>1. ExpMax \in Nat /\ Cutoff \in Nat
  BY SizeRangeAssumption
<1>2. PICK c \in Int : c = IF e > ExpMax THEN ExpMax ELSE e
  BY <1>1
<1>3. Nearest(m * f, c) = Nearest(m * f, power)
  <2>1. PICK n : n = m * f
    OBVIOUS
  <2>2. c = power \/ (c > Cutoff /\ power > Cutoff) \/ (c < -Cutoff /\ power < -Cutoff)
    BY <1>1, <1>2
  <2>3. Nearest(n, c) = Nearest(n, power)
    BY <2>2, NearestFar
  <2> QED
    BY <2>1, <2>3
<1>4. r = Scaled(m, f, c)
  BY <1>2
<1>5. r.error \in {"none", "PosOverflow"}
  BY <1>4, ScaledIsNearest
<1>6. r.error = "none" => r.size = Nearest(m * f, c)
  BY <1>4, ScaledIsNearest
<1>7. r.error # "none" /\ m # 0 => Nearest(m * f, c) = Max + 1
  BY <1>4, ScaledIsNearest
<1> QED
  BY <1>3, <1>5, <1>6, <1>7 DEF IsScaled

\* The power of ten of a size, where k digits are left out.
LEMMA PowerOf ==
  ASSUME NEW s, IsSide(s), NEW m, NEW k, NEW h, KeepsOf(s, m, k, h)
  PROVE  /\ NumberOf(s.exp) \in Nat /\ h \in Int /\ k \in Nat
         /\ s.exp = <<>> => Power(s) + k = h
         /\ (\E n \in DOMAIN s.exp : s.exp[n] = "-") => Power(s) + k = h - NumberOf(s.exp)
         /\ (~ \E n \in DOMAIN s.exp : s.exp[n] = "-") => Power(s) + k = h + NumberOf(s.exp)
<1>1. PICK C : Text = Seq(C)
  BY DEF Text
<1>2. PICK t \in Seq(C), x \in Seq(C) : t = s.frac /\ x = s.exp
  BY <1>1, PartsOfSide
<1>3. PICK number \in Nat : number = NumberOf(s.exp)
  <2>1. NumberOf(x) \in Nat
    BY NumberIsNatural
  <2> QED
    BY <1>2, <2>1
<1>4. PICK below \in Nat : below = Below(s)
  <2>1. PICK L \in Nat : L = Len(t)
    OBVIOUS
  <2>2. {n \in DOMAIN t : IsDigit(t[n])} = DigitsTo(t, L)
    BY <2>1 DEF DigitsTo
  <2>3. Cardinality(DigitsTo(t, L)) \in 0 .. L
    BY <2>1, DigitsGrow
  <2>4. Below(s) = Cardinality({n \in DOMAIN t : IsDigit(t[n])})
    BY <1>2 DEF Below
  <2>5. Below(s) \in 0 .. L
    BY <2>2, <2>3, <2>4
  <2> QED
    BY <2>5
<1>5. k \in Nat /\ h = k - below
  BY <1>4 DEF KeepsOf, Keeps
<1>6. Power(s) = (IF \E n \in DOMAIN s.exp : s.exp[n] = "-" THEN -number ELSE number) - below
  BY <1>3, <1>4 DEF Power
<1>7. s.exp = <<>> => number = 0 /\ ~ \E n \in DOMAIN s.exp : s.exp[n] = "-"
  <2> SUFFICES ASSUME x = <<>> PROVE number = 0 /\ ~ \E n \in DOMAIN x : x[n] = "-"
    BY <1>2
  <2>1. PICK f : NumberRun(f, 0, x) /\ NumberOf(x) = f[Len(x)]
    BY NumberIsRun
  <2>2. f[0] = 0 /\ Len(x) = 0
    BY <2>1 DEF NumberRun
  <2> QED
    BY <1>2, <1>3, <2>1, <2>2
<1>8. (\E n \in DOMAIN s.exp : s.exp[n] = "-") => Power(s) + k = h - number
  BY <1>5, <1>6
<1>9. (~ \E n \in DOMAIN s.exp : s.exp[n] = "-") => Power(s) + k = h + number
  BY <1>5, <1>6
<1> QED
  BY <1>3, <1>5, <1>7, <1>8, <1>9

\* The lengths that a size may have.
LEMMA LengthsOf ==
  ASSUME NEW s, IsSide(s)
  PROVE  /\ Len(s.int) \in Nat /\ Len(s.frac) \in Nat
         /\ Cutoff < ExpMax
         /\ 10 * Len(s.int) + 10 * Cutoff + 20 <= ExpMax /\ Len(s.frac) + Cutoff <= ExpMax
<1>1. PICK C : Text = Seq(C)
  BY DEF Text
<1>2. s.int \in Seq(C) /\ s.frac \in Seq(C)
  BY <1>1, PartsOfSide
<1>3. PICK a \in Nat, b \in Nat : a = Len(s.int) /\ b = Len(s.frac)
  BY <1>2
<1>4. 10 * (a + Cutoff + 2) <= ExpMax /\ b + Cutoff <= ExpMax /\ Cutoff \in Nat /\ ExpMax \in Nat
  BY <1>3, SizeRangeAssumption DEF IsSide
<1>5. Cutoff < ExpMax /\ 10 * a + 10 * Cutoff + 20 <= ExpMax
  BY <1>4
<1> QED
  BY <1>3, <1>4, <1>5

\* A size that is read is the one that is meant, ...
AsMeant(r, s, m, power) ==
  /\ r.error = "none" =>
        /\ s.exp # <<>> => HasDigit(s.exp)
        /\ m <= Max /\ r.size = Nearest(m * Factor(s), power)
  /\ (r.error # "none" /\ m \in 1 .. Max /\ (s.exp # <<>> => HasDigit(s.exp))) =>
        r.error = "PosOverflow" /\ Nearest(m * Factor(s), power) = Max + 1

\* ... whatever its digits and its exponent.
LEMMA ReadAsMeant ==
  ASSUME NEW s, IsSide(s), NEW p, NEW m, NEW k, NEW h, KeepsOf(s, m, k, h), EndsAt(p, s, m, h),
         p = Parsed(s.int \o s.frac \o s.exp),
         NEW r, r = ParseWithMultiply(s.int \o s.frac \o s.exp, Factor(s))
  PROVE  AsMeant(r, s, m, Power(s) + k)
<1>1. PICK f, n : f \in Factors /\ f = Factor(s) /\ n = m * f
  BY FactorIsOne
<1>2. Max \in Nat /\ m \in Nat /\ ExpMax \in Nat /\ Cutoff \in Nat
  BY RangeAssumption, SizeRangeAssumption DEF KeepsOf, Keeps
<1>3. PICK number \in Nat : number = NumberOf(s.exp)
  BY PowerOf
<1>a. h \in Int /\ k \in Nat
  BY PowerOf
<1>b. s.exp = <<>> => Power(s) + k = h
  BY PowerOf
<1>c. (\E i \in DOMAIN s.exp : s.exp[i] = "-") => Power(s) + k = h - number
  BY <1>3, PowerOf
<1>d. (~ \E i \in DOMAIN s.exp : s.exp[i] = "-") => Power(s) + k = h + number
  BY <1>3, PowerOf
<1>4. PICK power \in Int : power = Power(s) + k
  <2>1. h - number \in Int /\ h + number \in Int
    BY <1>a
  <2> QED
    BY <1>c, <1>d, <2>1
<1>5. r = CASE p.error # "none" -> Refuse(p.error)
            [] p.error = "none" /\ p.state = "Empty" -> Refuse("Empty")
            [] p.error = "none" /\ p.state \in {"PosExponent", "NegExponent"} /\ ~p.digit -> Refuse("InvalidDigit")
            [] OTHER -> Scaled(p.mantissa, f, IF p.exponent + p.shift > ExpMax THEN ExpMax ELSE p.exponent + p.shift)
  BY <1>1 DEF ParseWithMultiply
\* The numbers fit.
<1>6. ASSUME m <= Max, NEW e \in Int, e = p.exponent + p.shift, p.mantissa = m,
             power = e \/ (power < -Cutoff /\ e < -Cutoff),
             r = Scaled(p.mantissa, f, IF p.exponent + p.shift > ExpMax THEN ExpMax ELSE p.exponent + p.shift),
             s.exp # <<>> => HasDigit(s.exp)
      PROVE  AsMeant(r, s, m, power)
  <2>1. m \in U64
    BY <1>2, <1>6 DEF U64
  <2>2. r = Scaled(m, f, IF e > ExpMax THEN ExpMax ELSE e)
    BY <1>6
  <2>3. Cutoff < ExpMax
    BY LengthsOf
  <2>4. IsScaled(r, m, f, power)
    <3>1. power = e \/ (power < -Cutoff /\ e < -Cutoff)
      BY <1>6
    <3> QED
      BY <1>1, <2>1, <2>2, <2>3, <3>1, ScaledAsMeant
  <2>5. m \in 1 .. Max => m # 0
    BY <1>2
  <2> QED
    BY <1>1, <1>6, <2>4, <2>5 DEF AsMeant, IsScaled
\* The state is one that is refused.
<1>7. CASE m > Max
  <2>1. p.error = "PosOverflow"
    BY <1>7 DEF EndsAt
  <2>2. r = Refuse("PosOverflow")
    BY <1>5, <2>1
  <2>3. r.error = "PosOverflow" /\ m \notin 1 .. Max
    BY <1>2, <1>7, <2>2 DEF Refuse
  <2> QED
    BY <2>3 DEF AsMeant
<1>8. CASE m <= Max /\ s.exp = <<>>
  <2>1. /\ p.error = "none" /\ p.mantissa = m /\ p.shift = h /\ p.exponent = 0
        /\ p.state \notin {"Empty", "PosExponent", "NegExponent"}
    BY <1>8 DEF EndsAt
  <2>2. r = Scaled(p.mantissa, f, IF p.exponent + p.shift > ExpMax THEN ExpMax ELSE p.exponent + p.shift)
    BY <1>5, <2>1
  <2>3. PICK e \in Int : e = p.exponent + p.shift /\ e = h
    BY <1>a, <2>1
  <2>4. power = e
    BY <1>4, <1>8, <1>b, <2>3
  <2>5. AsMeant(r, s, m, power)
    BY <1>6, <1>8, <2>1, <2>2, <2>3, <2>4
  <2> QED
    BY <1>4, <2>5
<1>9. CASE m <= Max /\ s.exp # <<>>
  <2>1. PICK sign \in {"PosExponent", "NegExponent"}, count \in Nat :
           /\ sign = "NegExponent" <=> \E i \in DOMAIN s.exp : s.exp[i] = "-"
           /\ count # 0 <=> HasDigit(s.exp)
           /\ AtExponent(p, sign, m, h, number, count)
    BY <1>3, <1>9 DEF EndsAt
  <2>2. PICK x, digit, error : p = InExponent(sign, m, h, x, digit, error)
                                  /\ Exponent(sign, x, digit, error, number, count)
    BY <2>1 DEF AtExponent
  <2>3. /\ p.error = error /\ p.state = sign /\ p.exponent = x
        /\ p.shift = h /\ p.digit = digit /\ p.mantissa = m
    BY <2>2 DEF InExponent
  <2>4. x \in Int
    BY <1>2, <2>2 DEF Exponent
  <2>5. power = IF sign = "PosExponent" THEN h + number ELSE h - number
    BY <1>4, <1>c, <1>d, <2>1
  <2>6. PICK e \in Int : e = p.exponent + p.shift /\ e = x + h
    BY <1>a, <2>3, <2>4
  <2>7. CASE error = "none" /\ count = 0
    <3>1. digit = FALSE
      BY <2>2, <2>7 DEF Exponent
    <3>2. r = Refuse("InvalidDigit")
      BY <1>5, <2>3, <2>7, <3>1
    <3>3. r.error = "InvalidDigit" /\ ~HasDigit(s.exp)
      BY <2>1, <2>7, <3>2 DEF Refuse
    <3>4. AsMeant(r, s, m, power)
      BY <1>9, <3>3 DEF AsMeant
    <3> QED
      BY <1>4, <3>4
  <2>8. CASE error = "none" /\ count # 0
    <3>1. digit = TRUE
      BY <2>2, <2>8 DEF Exponent
    <3>2. r = Scaled(p.mantissa, f, IF p.exponent + p.shift > ExpMax THEN ExpMax ELSE p.exponent + p.shift)
      BY <1>5, <2>3, <2>8, <3>1
    <3>3. \/ x = IF sign = "PosExponent" THEN number ELSE -number
          \/ sign = "NegExponent" /\ 10 * x < 8 - ExpMax /\ -x <= number
      BY <2>2, <2>8 DEF Exponent
    <3>4. power = e \/ (power < -Cutoff /\ e < -Cutoff)
      <4>1. CASE x = IF sign = "PosExponent" THEN number ELSE -number
        BY <1>a, <2>4, <2>5, <2>6, <4>1
      <4>2. CASE sign = "NegExponent" /\ 10 * x < 8 - ExpMax /\ -x <= number
        <5>1. PICK a \in Nat : a = Len(s.int)
          BY LengthsOf
        <5>2. 10 * a + 10 * Cutoff + 20 <= ExpMax
          BY <5>1, LengthsOf
        <5>3. h <= a
          BY <5>1 DEF KeepsOf
        <5>4. e < -Cutoff
          BY <1>2, <1>a, <2>4, <2>6, <4>2, <5>2, <5>3
        <5>5. power <= e
          BY <1>a, <2>4, <2>5, <2>6, <4>2
        <5> QED
          BY <1>2, <5>4, <5>5
      <4> QED
        BY <3>3, <4>1, <4>2
    <3>5. HasDigit(s.exp)
      BY <2>1, <2>8
    <3>6. AsMeant(r, s, m, power)
      BY <1>6, <1>9, <2>3, <2>6, <3>2, <3>4, <3>5
    <3> QED
      BY <1>4, <3>6
  <2>9. CASE error # "none"
    <3>1. error = "PosOverflow" /\ sign = "PosExponent" /\ number > ExpMax
      BY <2>2, <2>9 DEF Exponent
    <3>2. r = Refuse("PosOverflow")
      BY <1>5, <2>3, <3>1
    <3>3. r.error = "PosOverflow"
      BY <3>2 DEF Refuse
    <3>4. power > Cutoff
      <4>1. PICK b \in Nat : b = Len(s.frac)
        BY LengthsOf
      <4>2. b + Cutoff <= ExpMax /\ -b <= h
        BY <4>1, LengthsOf DEF KeepsOf
      <4> QED
        BY <1>2, <1>a, <2>5, <3>1, <4>2
    <3>5. m \in 1 .. Max => Nearest(m * f, power) = Max + 1
      BY <1>1, <1>2, <3>4, FarAbove
    <3>6. AsMeant(r, s, m, power)
      BY <1>1, <3>3, <3>5 DEF AsMeant
    <3> QED
      BY <1>4, <3>6
  <2> QED
    BY <2>7, <2>8, <2>9
<1> QED
  BY <1>2, <1>7, <1>8, <1>9

-----------------------------------------------------------------------------
(***************************************************************************)
(* The unit at the end of a size.                                          *)
(***************************************************************************)
\* A last character, and what is before it.
LEMMA LastOne ==
  ASSUME NEW C, NEW t \in Seq(C), NEW c \in C
  PROVE  /\ t \o <<c>> \in Seq(C) /\ FrontOf(t \o <<c>>) = t
         /\ \A S : EndsIn(t \o <<c>>, S) <=> c \in S
<1>a. PICK L \in Nat : L = Len(t)
  OBVIOUS
<1>b. PICK x : x = t \o <<c>>
  OBVIOUS
<1>1. L = Len(t) /\ x = t \o <<c>>
  BY <1>a, <1>b
<1>2. <<c>> \in Seq(C) /\ Len(<<c>>) = 1 /\ <<c>>[1] = c
  OBVIOUS
<1>3. x \in Seq(C) /\ Len(x) = L + 1 /\ \A i \in 1 .. L + 1 : x[i] = IF i <= L THEN t[i] ELSE <<c>>[i - L]
  <2>1. x \in Seq(C) /\ Len(x) = L + 1
    BY <1>1, <1>2, ConcatProperties
  <2>2. \A i \in 1 .. L + 1 : x[i] = IF i <= L THEN t[i] ELSE <<c>>[i - L]
    BY <1>1, <1>2, ConcatProperties
  <2> QED
    BY <2>1, <2>2
<1>4. x[L + 1] = c
  <2>1. PICK i \in 1 .. L + 1 : i = L + 1 /\ ~(i <= L) /\ i - L = 1
    OBVIOUS
  <2> QED
    BY <1>2, <1>3, <2>1
<1>5. FrontOf(x) = t
  <2>1. FrontOf(x) = SubSeq(x, 1, L)
    BY <1>3 DEF FrontOf
  <2>2. \A i \in 1 .. L : i \in 1 .. L + 1 /\ i <= L
    OBVIOUS
  <2>3. \A i \in 1 .. L : x[i] = t[i]
    BY <1>3, <2>2
  <2>4. \A i \in 1 .. L : x[i] \in C
    BY <1>3, <2>2
  <2>5. SubSeq(x, 1, L) \in Seq(C) /\ Len(SubSeq(x, 1, L)) = L /\ \A i \in 1 .. L : SubSeq(x, 1, L)[i] = x[i]
    <3>1. SubSeq(x, 1, L) \in Seq(C)
      BY <2>4, SubSeqProperties
    <3>2. Len(SubSeq(x, 1, L)) = IF 1 <= L THEN L - 1 + 1 ELSE 0
      BY <2>4, SubSeqProperties
    <3>3. \A i \in 1 .. L - 1 + 1 : SubSeq(x, 1, L)[i] = x[1 + i - 1]
      BY <2>4, SubSeqProperties
    <3>4. \A i \in 1 .. L : i \in 1 .. L - 1 + 1 /\ 1 + i - 1 = i
      OBVIOUS
    <3> QED
      BY <3>1, <3>2, <3>3, <3>4
  <2>6. PICK y \in Seq(C) : y = SubSeq(x, 1, L)
    BY <2>5
  <2>7. Len(y) = Len(t) /\ \A i \in 1 .. Len(t) : y[i] = t[i]
    BY <1>1, <2>3, <2>5, <2>6
  <2>8. y = t
    BY <2>7, SeqEqual
  <2> QED
    BY <2>1, <2>6, <2>8
<1>6. \A S : EndsIn(x, S) <=> c \in S
  <2>1. x # <<>>
    BY <1>3
  <2> QED
    BY <1>3, <1>4, <2>1 DEF EndsIn
<1> QED
  BY <1>1, <1>3, <1>5, <1>6

\* A number never ends like a unit.
LEMMA NumberHasNoUnit ==
  ASSUME NEW s, IsSide(s)
  PROVE  ~EndsIn(s.int \o s.frac \o s.exp, {"b", "i", "k", "e"})
<1>1. PICK C : Text = Seq(C)
  BY DEF Text
<1>2. PICK t \in Seq(C), u \in Seq(C), x \in Seq(C) : t = s.int /\ u = s.frac /\ x = s.exp
  BY <1>1, PartsOfSide
<1> DEFINE Units4 == {"b", "i", "k", "e"}
<1>3. \A c \in Figures \cup Wrong \cup {"+", "-", "."} : c \notin Units4
  BY FigureIsDigit, OnlyDigits DEF Wrong
<1>4. /\ \A n \in DOMAIN t : t[n] \notin Units4
      /\ \A n \in DOMAIN u : u[n] \notin Units4
  <2>1. ASSUME NEW n \in DOMAIN t PROVE t[n] \notin Units4
    <3>1. t[n] \in Figures \cup Wrong
      BY <1>2 DEF IsSide
    <3> QED
      BY <1>3, <3>1
  <2>2. ASSUME NEW n \in DOMAIN u PROVE u[n] \notin Units4
    <3>1. u[n] \in IF n = 1 THEN {"."} ELSE Figures \cup Wrong
      BY <1>2 DEF IsSide
    <3> QED
      BY <1>3, <3>1
  <2> QED
    BY <2>1, <2>2
<1>5. \A n \in DOMAIN x : n # 1 => x[n] \notin Units4
  <2> SUFFICES ASSUME NEW n \in DOMAIN x, n # 1 PROVE x[n] \notin Units4
    OBVIOUS
  <2>1. x[n] \in CASE n = 1 -> {"e"}
                   [] n = 2 -> Figures \cup Wrong \cup {"+", "-"}
                   [] n > 2 -> Figures \cup Wrong
    BY <1>2 DEF IsSide
  <2>2. n = 2 \/ n > 2
    OBVIOUS
  <2>3. x[n] \in Figures \cup Wrong \cup {"+", "-"}
    BY <2>1, <2>2
  <2> QED
    BY <1>3, <2>3
<1>6. ASSUME NEW a \in Seq(C), NEW b \in Seq(C)
      PROVE EndsIn(a \o b, Units4) <=> IF b = <<>> THEN EndsIn(a, Units4) ELSE EndsIn(b, Units4)
  <2>1. PICK L \in Nat, M \in Nat : L = Len(a) /\ M = Len(b)
    OBVIOUS
  <2>2. CASE b = <<>>
    <3>1. a \o b = a
      BY <2>2, ConcatEmptySeq
    <3> QED
      BY <2>2, <3>1
  <2>3. CASE b # <<>>
    <3>1. PICK ab \in Seq(C) : ab = a \o b
      BY ConcatProperties
    <3>2. Len(ab) = L + M /\ M # 0
      <4>1. Len(ab) = L + M
        BY <2>1, <3>1, ConcatProperties
      <4> QED
        BY <2>1, <2>3, <4>1
    <3>3. PICK j \in 1 .. L + M : j = L + M /\ ~(j <= L) /\ j - L = M
      BY <3>2
    <3>4. ab[j] = b[M]
      BY <2>1, <3>1, <3>3, ConcatProperties
    <3>5. ab # <<>>
      BY <3>2
    <3> QED
      BY <2>1, <2>3, <3>1, <3>2, <3>3, <3>4, <3>5 DEF EndsIn
  <2> QED
    BY <2>2, <2>3
<1>7. ~EndsIn(t, Units4) /\ ~EndsIn(u, Units4)
  <2>1. t # <<>> => Len(t) \in DOMAIN t
    OBVIOUS
  <2>2. u # <<>> => Len(u) \in DOMAIN u
    OBVIOUS
  <2> QED
    BY <1>4, <2>1, <2>2 DEF EndsIn
<1>8. ~EndsIn(x, Units4)
  <2>1. Len(x) # 1
    BY <1>2 DEF IsSide
  <2>2. x # <<>> => Len(x) \in DOMAIN x
    OBVIOUS
  <2> QED
    BY <1>5, <2>1, <2>2 DEF EndsIn
<1>9. ~EndsIn(t \o u, Units4) /\ t \o u \in Seq(C)
  <2> HIDE DEF Units4
  <2>1. t \o u \in Seq(C)
    BY ConcatProperties
  <2> QED
    BY <1>6, <1>7, <2>1
<1>10. ~EndsIn(t \o u \o x, Units4)
  <2> HIDE DEF Units4
  <2> QED
    BY <1>6, <1>8, <1>9
<1> QED
  BY <1>2, <1>10

\* A part that may be left out: one character, or none.
IsOptional(C, t, o, c, S) ==
  /\ t \o o \in Seq(C) /\ o \in Seq(C)
  /\ EndsIn(t \o o, S) <=> o # <<>> /\ c \in S
  /\ o # <<>> => FrontOf(t \o o) = t
  /\ o = <<>> => t \o o = t
  /\ \A T : Has(o, T) <=> o # <<>> /\ c \in T

\* It is taken off if it is there.
LEMMA Optional ==
  ASSUME NEW C, NEW t \in Seq(C), NEW c \in C, NEW o \in {<<>>, <<c>>}, NEW S, ~EndsIn(t, S)
  PROVE  IsOptional(C, t, o, c, S)
<1>1. CASE o = <<>>
  <2>1. t \o o = t
    BY <1>1, ConcatEmptySeq
  <2>2. \A T : ~Has(o, T)
    BY <1>1 DEF Has
  <2>3. o \in Seq(C)
    BY <1>1
  <2> QED
    BY <1>1, <2>1, <2>2, <2>3, ~EndsIn(t, S) DEF IsOptional
<1>2. CASE o = <<c>>
  <2>1. o # <<>> /\ o \in Seq(C) /\ DOMAIN o = {1} /\ o[1] = c
    <3>1. Len(o) = 1 /\ o[1] = c /\ o \in Seq(C)
      BY <1>2
    <3>2. DOMAIN o = 1 .. 1
      BY <3>1
    <3>3. \A n : n \in 1 .. 1 <=> n = 1
      OBVIOUS
    <3> QED
      BY <3>1, <3>2, <3>3
  <2>2. \A T : Has(o, T) <=> c \in T
    BY <2>1 DEF Has
  <2>3. t \o o \in Seq(C)
    BY <1>2, LastOne
  <2>4. FrontOf(t \o o) = t
    BY <1>2, LastOne
  <2>5. EndsIn(t \o o, S) <=> c \in S
    BY <1>2, LastOne
  <2> QED
    BY <2>1, <2>2, <2>3, <2>4, <2>5 DEF IsOptional
<1> QED
  BY <1>1, <1>2

\* Texts that are put together in two ways.
Grouped(t, u, x) == (t \o u) \o x = t \o (u \o x)

\* Both ways make the same text.
LEMMA Regrouped ==
  ASSUME NEW C, NEW t \in Seq(C), NEW u \in Seq(C), NEW x \in Seq(C)
  PROVE  Grouped(t, u, x)
<1>1. PICK tu \in Seq(C), ux \in Seq(C) : tu = t \o u /\ ux = u \o x
  <2>1. t \o u \in Seq(C)
    BY ConcatProperties
  <2>2. u \o x \in Seq(C)
    BY ConcatProperties
  <2> QED
    BY <2>1, <2>2
<1>2. PICK l \in Seq(C), r \in Seq(C) : l = tu \o x /\ r = t \o ux
  <2>1. tu \o x \in Seq(C)
    BY ConcatProperties
  <2>2. t \o ux \in Seq(C)
    BY ConcatProperties
  <2> QED
    BY <2>1, <2>2
<1>3. PICK T \in Nat, U \in Nat, X \in Nat : T = Len(t) /\ U = Len(u) /\ X = Len(x)
  OBVIOUS
<1>4. Len(tu) = T + U /\ \A i \in 1 .. T + U : tu[i] = IF i <= T THEN t[i] ELSE u[i - T]
  BY <1>1, <1>3, ConcatProperties
<1>5. Len(ux) = U + X /\ \A i \in 1 .. U + X : ux[i] = IF i <= U THEN u[i] ELSE x[i - U]
  BY <1>1, <1>3, ConcatProperties
<1>6. Len(l) = T + U + X /\ \A i \in 1 .. T + U + X : l[i] = IF i <= T + U THEN tu[i] ELSE x[i - (T + U)]
  <2>1. Len(tu \o x) = Len(tu) + Len(x)
    BY ConcatProperties
  <2>2. \A i \in 1 .. Len(tu) + Len(x) : (tu \o x)[i] = IF i <= Len(tu) THEN tu[i] ELSE x[i - Len(tu)]
    BY ConcatProperties
  <2> QED
    BY <1>2, <1>3, <1>4, <2>1, <2>2
<1>7. Len(r) = T + U + X /\ \A i \in 1 .. T + U + X : r[i] = IF i <= T THEN t[i] ELSE ux[i - T]
  <2>1. Len(r) = T + (U + X)
    <3>1. Len(t \o ux) = Len(t) + Len(ux)
      BY ConcatProperties
    <3> QED
      BY <1>2, <1>3, <1>5, <3>1
  <2>2. \A i \in 1 .. T + (U + X) : r[i] = IF i <= T THEN t[i] ELSE ux[i - T]
    BY <1>2, <1>3, <1>5, ConcatProperties
  <2>3. T + (U + X) = T + U + X
    OBVIOUS
  <2> QED
    BY <2>1, <2>2, <2>3
<1>8. ASSUME NEW i \in 1 .. T + U + X PROVE l[i] = r[i]
  <2>1. CASE i <= T
    <3>1. i \in 1 .. T + U /\ i <= T + U
      BY <2>1
    <3> QED
      BY <1>4, <1>6, <1>7, <2>1, <3>1
  <2>2. CASE ~(i <= T) /\ i <= T + U
    <3>1. PICK j \in 1 .. U + X : j = i - T /\ j <= U
      BY <2>2
    <3>2. i \in 1 .. T + U
      BY <2>2
    <3> QED
      BY <1>4, <1>5, <1>6, <1>7, <2>2, <3>1, <3>2
  <2>3. CASE ~(i <= T) /\ ~(i <= T + U)
    <3>1. PICK j \in 1 .. U + X : j = i - T /\ ~(j <= U) /\ j - U = i - (T + U)
      BY <2>3
    <3> QED
      BY <1>5, <1>6, <1>7, <2>3, <3>1
  <2> QED
    BY <2>1, <2>2, <2>3
<1>9. l = r
  BY <1>6, <1>7, <1>8, SeqEqual
<1> QED
  BY <1>1, <1>2, <1>9 DEF Grouped

\* The unit is taken off, and nothing else is.
LEMMA UnitIsTaken ==
  ASSUME NEW s, IsSide(s)
  PROVE  /\ ParseSize(SizeOf(s)) = ParseWithMultiply(s.int \o s.frac \o s.exp, Factor(s))
         /\ \A T : (T \cap {"k", "e", "i", "b"} = {}) => ~Has(s.unit, T)
         /\ Clean(s.unit) /\ s.unit \in Text
<1>1. PICK C : Text = Seq(C) /\ {"k", "e", "i", "b"} \subseteq C
  BY DEF Text, Prefixes
<1>2. PICK y \in Seq(C) : y = s.int \o s.frac \o s.exp
  <2>1. PICK t \in Seq(C), u \in Seq(C), x \in Seq(C) : t = s.int /\ u = s.frac /\ x = s.exp
    BY <1>1, PartsOfSide
  <2>2. t \o u \in Seq(C)
    BY ConcatProperties
  <2>3. t \o u \o x \in Seq(C)
    BY <2>2, ConcatProperties
  <2> QED
    BY <2>1, <2>3
<1>3. ~EndsIn(y, {"b", "i", "k", "e"})
  BY <1>2, NumberHasNoUnit
<1>a. \A S : S \subseteq {"b", "i", "k", "e"} => ~EndsIn(y, S)
  BY ONLY <1>3 DEF EndsIn
<1>4. PICK prefix \in {<<>>, <<"k">>, <<"e">>}, i \in {<<>>, <<"i">>}, b \in {<<>>, <<"b">>} :
        s.unit = prefix \o i \o b
  BY PartsOfSide DEF Units
<1>5. PICK c \in {"k", "e"} : prefix \in {<<>>, <<c>>}
  OBVIOUS
<1>6. PICK y1, y2, y3 : y1 = y \o prefix /\ y2 = y1 \o i /\ y3 = y2 \o b
  OBVIOUS
<1>7. /\ y1 \in Seq(C) /\ prefix \in Seq(C)
      /\ EndsIn(y1, Prefixes) <=> prefix # <<>>
      /\ prefix # <<>> => FrontOf(y1) = y
      /\ prefix = <<>> => y1 = y
      /\ \A T : Has(prefix, T) <=> prefix # <<>> /\ c \in T
  <2>1. ~EndsIn(y, Prefixes) /\ c \in C /\ c \in Prefixes
    BY <1>1, <1>a DEF Prefixes
  <2>2. IsOptional(C, y, prefix, c, Prefixes)
    BY <1>5, <2>1, Optional
  <2> QED
    BY <1>6, <2>1, <2>2 DEF IsOptional
<1>8. ~EndsIn(y1, {"i"}) /\ ~EndsIn(y1, {"b"})
  <2>1. PICK S, T : S = {"i"} /\ T = {"b"}
    OBVIOUS
  <2>2. ~EndsIn(y, S) /\ ~EndsIn(y, T) /\ c \in C /\ c \notin S /\ c \notin T
    BY <1>1, <1>a, <2>1
  <2>a. c \in C /\ ~EndsIn(y, S)
    BY <2>2
  <2>b. c \in C /\ ~EndsIn(y, T)
    BY <2>2
  <2>3. IsOptional(C, y, prefix, c, S)
    BY <1>5, <2>a, Optional
  <2>4. IsOptional(C, y, prefix, c, T)
    BY <1>5, <2>b, Optional
  <2> QED
    BY <1>6, <2>1, <2>2, <2>3, <2>4 DEF IsOptional
<1>9. /\ y2 \in Seq(C) /\ i \in Seq(C)
      /\ EndsIn(y2, {"i"}) <=> i # <<>>
      /\ i # <<>> => FrontOf(y2) = y1
      /\ i = <<>> => y2 = y1
      /\ \A T : Has(i, T) <=> i # <<>> /\ "i" \in T
  <2>1. "i" \in C
    BY <1>1
  <2>2. IsOptional(C, y1, i, "i", {"i"})
    BY <1>4, <1>7, <1>8, <2>1, Optional
  <2> QED
    BY <1>6, <2>2 DEF IsOptional
<1>10. ~EndsIn(y2, {"b"})
  <2>1. "i" \in C /\ "i" \notin {"b"}
    BY <1>1
  <2>a. y1 \in Seq(C) /\ i \in {<<>>, <<"i">>} /\ ~EndsIn(y1, {"b"})
    BY <1>4, <1>7, <1>8
  <2>2. IsOptional(C, y1, i, "i", {"b"})
    BY <2>1, <2>a, Optional
  <2> QED
    BY <1>6, <2>1, <2>2 DEF IsOptional
<1>11. /\ y3 \in Seq(C) /\ b \in Seq(C)
       /\ EndsIn(y3, {"b"}) <=> b # <<>>
       /\ b # <<>> => FrontOf(y3) = y2
       /\ b = <<>> => y3 = y2
       /\ \A T : Has(b, T) <=> b # <<>> /\ "b" \in T
  <2>1. "b" \in C
    BY <1>1
  <2>2. IsOptional(C, y2, b, "b", {"b"})
    BY <1>4, <1>9, <1>10, <2>1, Optional
  <2> QED
    BY <1>6, <2>2 DEF IsOptional
<1>12. SizeOf(s) = y3 /\ s.unit \in Seq(C)
  <2>1. prefix \o i \in Seq(C)
    BY <1>7, <1>9, ConcatProperties
  <2>2. prefix \o i \o b \in Seq(C)
    BY <1>11, <2>1, ConcatProperties
  <2>a. PICK pi \in Seq(C), bb \in Seq(C), ii \in Seq(C), pp \in Seq(C) :
           pi = prefix \o i /\ bb = b /\ ii = i /\ pp = prefix
    BY <1>7, <1>9, <1>11, <2>1
  <2>b. (y \o pi) \o bb = y \o (pi \o bb)
    <3>1. Grouped(y, pi, bb)
      BY Regrouped
    <3> QED
      BY <3>1 DEF Grouped
  <2>c. (y \o pp) \o ii = y \o (pp \o ii)
    <3>1. Grouped(y, pp, ii)
      BY Regrouped
    <3> QED
      BY <3>1 DEF Grouped
  <2>3. y \o ((prefix \o i) \o b) = (y \o (prefix \o i)) \o b
    BY <2>a, <2>b
  <2>4. y \o (prefix \o i) = (y \o prefix) \o i
    BY <2>a, <2>c
  <2>5. SizeOf(s) = y \o s.unit
    BY <1>2 DEF SizeOf
  <2> QED
    BY <1>4, <1>6, <2>2, <2>3, <2>4, <2>5
<1>13. \A T : Has(s.unit, T) <=> (prefix # <<>> /\ c \in T) \/ (i # <<>> /\ "i" \in T) \/ (b # <<>> /\ "b" \in T)
  <2> SUFFICES ASSUME NEW T
               PROVE  Has(prefix \o i \o b, T) <=>
                        (prefix # <<>> /\ c \in T) \/ (i # <<>> /\ "i" \in T) \/ (b # <<>> /\ "b" \in T)
    BY <1>4
  <2>1. prefix \o i \in Seq(C)
    BY <1>7, <1>9, ConcatProperties
  <2>2. Has(prefix \o i \o b, T) <=> Has(prefix \o i, T) \/ Has(b, T)
    BY <1>11, <2>1, HasOfTwo
  <2>3. Has(prefix \o i, T) <=> Has(prefix, T) \/ Has(i, T)
    BY <1>7, <1>9, HasOfTwo
  <2> QED
    BY <1>7, <1>9, <1>11, <2>2, <2>3
<1>14. Factor(s) = IF prefix # <<>> THEN IF i # <<>> THEN Binary ELSE Decimal ELSE 1
  <2>1. Has(s.unit, Prefixes) <=> prefix # <<>>
    BY <1>13 DEF Prefixes
  <2>2. Has(s.unit, {"i"}) <=> i # <<>>
    BY <1>13
  <2>3. Has(s.unit, {"i"}) <=> \E n \in DOMAIN s.unit : s.unit[n] = "i"
    BY DEF Has
  <2> QED
    BY <2>1, <2>2, <2>3 DEF Factor, Has
<1>15. Clean(s.unit)
  <2>1. ~Has(s.unit, Wrong)
    <3>1. c \notin Wrong /\ "i" \notin Wrong /\ "b" \notin Wrong
      BY DEF Wrong
    <3> QED
      BY <1>13, <3>1
  <2> QED
    BY <2>1 DEF Clean, Has
<1>16. ParseSize(y3) = ParseWithMultiply(y, Factor(s))
  <2>1. PICK noB : noB = IF EndsIn(y3, {"b"}) THEN FrontOf(y3) ELSE y3
    OBVIOUS
  <2>2. noB = y2
    BY <1>11, <2>1
  <2>3. PICK noI : noI = IF EndsIn(noB, {"i"}) THEN FrontOf(noB) ELSE noB
    OBVIOUS
  <2>4. noI = y1
    BY <1>9, <2>2, <2>3
  <2>5. ParseSize(y3) = IF EndsIn(noI, Prefixes)
                        THEN ParseWithMultiply(FrontOf(noI), IF EndsIn(noB, {"i"}) THEN Binary ELSE Decimal)
                        ELSE ParseWithMultiply(noI, 1)
    BY <2>1, <2>3 DEF ParseSize
  <2> QED
    BY <1>7, <1>9, <1>14, <2>2, <2>4, <2>5
<1>17. \A T : (T \cap {"k", "e", "i", "b"} = {}) => ~Has(s.unit, T)
  BY <1>13
<1> QED
  BY <1>1, <1>2, <1>12, <1>15, <1>16, <1>17

\* A size that is read is the one that was written, and one that is refused, though
\* well written, is too large.
LEMMA SizeIsRead ==
  ASSUME NEW s, IsSide(s), NEW r, r = ParseSize(SizeOf(s))
  PROVE  /\ r.error = "none" => ReadAs(r.size, s)
         /\ (r.error # "none" /\ WellFormed(s) /\ Plain(s)) => r.error = "PosOverflow" /\ Max + 1 \in Meant(s)
<1>1. PICK C : Text = Seq(C)
  BY DEF Text
<1>2. PICK t \in Seq(C), u \in Seq(C), x \in Seq(C), z \in Seq(C)
            : t = s.int /\ u = s.frac /\ x = s.exp /\ z = s.unit
  BY <1>1, PartsOfSide, UnitIsTaken
<1>3. PICK y \in Seq(C) : y = t \o u \o x /\ (Clean(y) <=> Clean(t) /\ Clean(u) /\ Clean(x))
  <2>1. t \o u \in Seq(C)
    BY ConcatProperties
  <2>2. t \o u \o x \in Seq(C)
    BY <2>1, ConcatProperties
  <2>3. Clean(t \o u \o x) <=> Clean(t \o u) /\ Clean(x)
    BY <2>1, CleanOfTwo
  <2>4. Clean(t \o u) <=> Clean(t) /\ Clean(u)
    BY CleanOfTwo
  <2> QED
    BY <2>2, <2>3, <2>4
<1>4. SizeOf(s) = y \o z /\ (Clean(SizeOf(s)) <=> Clean(y))
  <2>1. Clean(y \o z) <=> Clean(y) /\ Clean(z)
    BY CleanOfTwo
  <2>2. Clean(z)
    BY <1>2, UnitIsTaken
  <2>3. SizeOf(s) = y \o z
    BY <1>2, <1>3 DEF SizeOf
  <2> QED
    BY <2>1, <2>2, <2>3
<1>5. r = ParseWithMultiply(y, Factor(s))
  BY <1>2, <1>3, UnitIsTaken
<1>6. PICK p : p = Parsed(y)
  OBVIOUS
<1>7. r = CASE p.error # "none" -> Refuse(p.error)
            [] p.error = "none" /\ p.state = "Empty" -> Refuse("Empty")
            [] p.error = "none" /\ p.state \in {"PosExponent", "NegExponent"} /\ ~p.digit -> Refuse("InvalidDigit")
            [] OTHER -> Scaled(p.mantissa, Factor(s), IF p.exponent + p.shift > ExpMax THEN ExpMax ELSE p.exponent + p.shift)
  BY <1>5, <1>6 DEF ParseWithMultiply
<1>8. WellFormed(s) <=> HasDigit(t) /\ (x # <<>> => HasDigit(x)) /\ Clean(y)
  BY <1>2, <1>4 DEF WellFormed, Clean
<1>9. CASE ~Clean(y)
  <2>1. p.error # "none"
    BY <1>6, <1>9, WrongIsFound
  <2>2. r.error # "none"
    BY <1>7, <2>1 DEF Refuse
  <2> QED
    BY <1>8, <1>9, <2>2
<1>10. CASE Clean(y) /\ ~HasDigit(t)
  <2>1. p.error # "none" \/ p.state = "Empty"
    BY <1>2, <1>3, <1>6, <1>10, NoDigitIsRefused
  <2>2. r.error # "none"
    BY <1>7, <2>1 DEF Refuse
  <2> QED
    BY <1>8, <1>10, <2>2
<1>11. CASE Clean(y) /\ HasDigit(t)
  <2>1. PICK m, k, h : KeepsOf(s, m, k, h) /\ EndsAt(p, s, m, h)
    BY <1>2, <1>3, <1>6, <1>11, SizeIsParsed
  <2>2. AsMeant(r, s, m, Power(s) + k)
    BY <1>2, <1>3, <1>5, <1>6, <2>1, FactorIsOne, ReadAsMeant
  <2>3. <<m, k>> \in Kept(s)
    BY <2>1, KeptIsKept DEF KeepsOf
  <2>4. Nearest(m * Factor(s), Power(s) + k) \in Meant(s)
    <3>1. PICK d \in Kept(s) : d = <<m, k>> /\ d[1] = m /\ d[2] = k
      BY <2>3
    <3> QED
      BY <3>1 DEF Meant
  <2>5. Plain(s) => m \in 1 .. Max
    <3> SUFFICES ASSUME Plain(s) PROVE m \in 1 .. Max
      OBVIOUS
    <3>1. PICK d \in Kept(s) : d[1] \in 1 .. Max
      BY DEF Plain
    <3>2. d = <<d[1], d[2]>>
      BY DEF Kept
    <3>3. PICK n, j : n = d[1] /\ j = d[2]
      OBVIOUS
    <3>4. Keeps(n, j, Mantissa(s)) /\ Mantissa(s) \in Nat
      BY <3>2, <3>3, KeptIsKept
    <3>5. n = m
      BY <2>1, <3>4, KeepsOnce DEF KeepsOf
    <3> QED
      BY <3>1, <3>3, <3>5
  <2>6. r.error = "none" => ReadAs(r.size, s)
    BY <1>2, <1>8, <1>11, <2>2, <2>4 DEF AsMeant, ReadAs
  <2>7. (r.error # "none" /\ WellFormed(s) /\ Plain(s)) => r.error = "PosOverflow" /\ Max + 1 \in Meant(s)
    BY <1>2, <1>8, <2>2, <2>4, <2>5 DEF AsMeant
  <2> QED
    BY <2>6, <2>7
<1> QED
  BY <1>9, <1>10, <1>11

-----------------------------------------------------------------------------
(***************************************************************************)
(* The text of a range, and where it is split.                             *)
(***************************************************************************)
\* The characters of two texts that follow each other.
Follow(t, u, x, L, M) ==
  /\ L = Len(t) /\ M = Len(u) /\ L \in Nat /\ M \in Nat /\ Len(x) = L + M
  /\ DOMAIN t = 1 .. L /\ DOMAIN u = 1 .. M /\ DOMAIN x = 1 .. L + M
  /\ \A i \in 1 .. L : x[i] = t[i]
  /\ \A i \in 1 .. M : x[L + i] = u[i]
  /\ \A i \in 1 .. L + M : i <= L \/ \E j \in 1 .. M : i = L + j

\* Two texts make one, with the characters of both.
LEMMA TwoFollow ==
  ASSUME NEW C, NEW t \in Seq(C), NEW u \in Seq(C)
  PROVE  t \o u \in Seq(C) /\ \E L, M \in Nat : Follow(t, u, t \o u, L, M)
<1>1. PICK L \in Nat, M \in Nat : L = Len(t) /\ M = Len(u)
  OBVIOUS
<1>2. PICK x \in Seq(C) : x = t \o u
  BY ConcatProperties
<1>3. Len(x) = L + M
  <2>1. Len(t \o u) = Len(t) + Len(u)
    BY ConcatProperties
  <2> QED
    BY <1>1, <1>2, <2>1
<1>4. \A i \in 1 .. L + M : x[i] = IF i <= L THEN t[i] ELSE u[i - L]
  BY <1>1, <1>2, ConcatProperties
<1>5. ASSUME NEW i \in 1 .. L PROVE x[i] = t[i]
  <2>1. i \in 1 .. L + M /\ i <= L
    OBVIOUS
  <2> QED
    BY <1>4, <2>1
<1>6. ASSUME NEW i \in 1 .. M PROVE x[L + i] = u[i]
  <2>1. PICK j \in 1 .. L + M : j = L + i /\ ~(j <= L) /\ j - L = i
    OBVIOUS
  <2> QED
    BY <1>4, <2>1
<1>7. ASSUME NEW i \in 1 .. L + M PROVE i <= L \/ \E j \in 1 .. M : i = L + j
  <2> SUFFICES ASSUME ~(i <= L) PROVE \E j \in 1 .. M : i = L + j
    OBVIOUS
  <2>1. i - L \in 1 .. M /\ i = L + (i - L)
    OBVIOUS
  <2> QED
    BY <2>1
<1>8. DOMAIN t = 1 .. L /\ DOMAIN u = 1 .. M /\ DOMAIN x = 1 .. L + M
  BY <1>1, <1>3
<1>9. Follow(t, u, x, L, M)
  BY <1>1, <1>3, <1>5, <1>6, <1>7, <1>8 DEF Follow
<1> QED
  BY <1>2, <1>9

\* A dash follows an "e", as the sign of an exponent does.
DashesAfterE(t) == \A n \in DOMAIN t : t[n] = "-" => n - 1 \in DOMAIN t /\ t[n - 1] = "e"

\* It does in two texts when it does in each.
LEMMA DashesOfTwo ==
  ASSUME NEW C, NEW t \in Seq(C), NEW u \in Seq(C), DashesAfterE(t), DashesAfterE(u)
  PROVE  DashesAfterE(t \o u)
<1>1. PICK L, M, x : {L, M} \subseteq Nat /\ x = t \o u /\ Follow(t, u, x, L, M)
  BY TwoFollow
<1>a. L \in Nat /\ M \in Nat
  BY <1>1
<1>2. ASSUME NEW n \in 1 .. L + M, x[n] = "-" PROVE n - 1 \in 1 .. L + M /\ x[n - 1] = "e"
  <2>1. CASE n <= L
    <3>1. n \in 1 .. L
      BY <2>1
    <3>2. t[n] = "-"
      BY <1>1, <1>2, <3>1 DEF Follow
    <3>3. n - 1 \in 1 .. L /\ t[n - 1] = "e"
      BY <1>1, <3>1, <3>2 DEF Follow, DashesAfterE
    <3> QED
      BY <1>1, <3>3 DEF Follow
  <2>2. CASE \E j \in 1 .. M : n = L + j
    <3>1. PICK j \in 1 .. M : n = L + j
      BY <2>2
    <3>2. u[j] = "-"
      BY <1>1, <1>2, <3>1 DEF Follow
    <3>3. j - 1 \in 1 .. M /\ u[j - 1] = "e"
      BY <1>1, <3>2 DEF Follow, DashesAfterE
    <3>4. n - 1 = L + (j - 1) /\ n - 1 \in 1 .. L + M
      BY <1>a, <3>1, <3>3
    <3> QED
      BY <1>1, <3>3, <3>4 DEF Follow
  <2> QED
    BY <1>1, <2>1, <2>2 DEF Follow
<1> QED
  BY <1>1, <1>2 DEF Follow, DashesAfterE

\* There is one point at most.
OneDot(t) == \A i, j \in DOMAIN t : t[i] = "." /\ t[j] = "." => i = j

\* So it is in two texts when one of them has none.
LEMMA DotsOfTwo ==
  ASSUME NEW C, NEW t \in Seq(C), NEW u \in Seq(C),
         OneDot(t), OneDot(u), ~Has(t, {"."}) \/ ~Has(u, {"."})
  PROVE  OneDot(t \o u)
<1>1. PICK L, M, x : {L, M} \subseteq Nat /\ x = t \o u /\ Follow(t, u, x, L, M)
  BY TwoFollow
<1>2. ASSUME NEW i \in 1 .. L + M, NEW j \in 1 .. L + M, x[i] = ".", x[j] = "." PROVE i = j
  <2>1. CASE ~Has(t, {"."})
    <3>1. ASSUME NEW n \in 1 .. L PROVE x[n] # "."
      BY <1>1, <2>1 DEF Follow, Has
    <3>2. ~(i <= L) /\ ~(j <= L)
      BY <1>2, <3>1
    <3>3. PICK a \in 1 .. M, b \in 1 .. M : i = L + a /\ j = L + b
      BY <1>1, <3>2 DEF Follow
    <3>4. u[a] = "." /\ u[b] = "."
      BY <1>1, <1>2, <3>3 DEF Follow
    <3>5. a = b
      BY <1>1, <3>4 DEF Follow, OneDot
    <3> QED
      BY <3>3, <3>5
  <2>2. CASE ~Has(u, {"."})
    <3>1. ASSUME NEW n \in 1 .. M PROVE x[L + n] # "."
      <4>1. u[n] # "."
        BY <1>1, <2>2 DEF Follow, Has
      <4> QED
        BY <1>1, <4>1 DEF Follow
    <3>2. i <= L /\ j <= L
      BY <1>1, <1>2, <3>1 DEF Follow
    <3>3. i \in 1 .. L /\ j \in 1 .. L
      BY <3>2
    <3>4. t[i] = "." /\ t[j] = "."
      BY <1>1, <1>2, <3>3 DEF Follow
    <3> QED
      BY <1>1, <3>3, <3>4 DEF Follow, OneDot
  <2> QED
    BY <2>1, <2>2
<1> QED
  BY <1>1, <1>2 DEF Follow, OneDot

\* What holds of the text of every size.
IsSizeText(t) == ~Has(t, {","}) /\ DashesAfterE(t) /\ OneDot(t)

\* It does: a comma is in no part of a size, a dash is the sign of its exponent,
\* and its one point begins the fraction.
LEMMA SizeTextOf ==
  ASSUME NEW s, IsSide(s)
  PROVE  IsSizeText(SizeOf(s))
<1>1. PICK C : Text = Seq(C)
  BY DEF Text
<1>2. PICK t \in Seq(C), u \in Seq(C), x \in Seq(C), z \in Seq(C)
            : t = s.int /\ u = s.frac /\ x = s.exp /\ z = s.unit
  BY <1>1, PartsOfSide, UnitIsTaken
<1>3. PICK tu \in Seq(C), y \in Seq(C) : tu = t \o u /\ y = tu \o x /\ SizeOf(s) = y \o z
  <2>1. t \o u \in Seq(C)
    BY ConcatProperties
  <2>2. t \o u \o x \in Seq(C)
    BY <2>1, ConcatProperties
  <2> QED
    BY <1>2, <2>1, <2>2 DEF SizeOf
<1>4. \A c \in Figures \cup Wrong : c \notin {",", "-", "."}
  BY FigureIsDigit, OnlyDigits DEF Wrong
<1>5. \A n \in DOMAIN t : t[n] \notin {",", "-", "."}
  <2>1. \A n \in DOMAIN t : t[n] \in Figures \cup Wrong
    BY <1>2 DEF IsSide
  <2> QED
    BY <1>4, <2>1
<1>6. \A n \in DOMAIN u : u[n] \notin {",", "-"} /\ (u[n] = "." => n = 1)
  <2>1. \A n \in DOMAIN u : u[n] \in IF n = 1 THEN {"."} ELSE Figures \cup Wrong
    BY <1>2 DEF IsSide
  <2> QED
    BY <1>4, <2>1
<1>7. \A n \in DOMAIN x : /\ x[n] \notin {",", "."}
                          /\ x[n] = "-" => n - 1 \in DOMAIN x /\ x[n - 1] = "e"
  <2> SUFFICES ASSUME NEW n \in DOMAIN x
               PROVE  /\ x[n] \notin {",", "."}
                      /\ x[n] = "-" => n - 1 \in DOMAIN x /\ x[n - 1] = "e"
    OBVIOUS
  <2>1. \A i \in DOMAIN x : x[i] \in CASE i = 1 -> {"e"}
                                       [] i = 2 -> Figures \cup Wrong \cup {"+", "-"}
                                       [] i > 2 -> Figures \cup Wrong
    BY <1>2 DEF IsSide
  <2>2. n = 1 \/ n = 2 \/ n > 2
    OBVIOUS
  <2>3. CASE n = 1
    <3>1. x[1] = "e"
      BY <2>1, <2>3
    <3> QED
      BY <2>3, <3>1
  <2>4. CASE n = 2
    <3>1. x[2] \in Figures \cup Wrong \cup {"+", "-"}
      BY <2>1, <2>4
    <3>2. 1 \in DOMAIN x /\ 2 - 1 = 1
      BY <2>4
    <3>3. x[1] = "e"
      BY <2>1, <3>2
    <3> QED
      BY <1>4, <2>4, <3>1, <3>2, <3>3
  <2>5. CASE n > 2
    <3>1. x[n] \in Figures \cup Wrong
      BY <2>1, <2>5
    <3> QED
      BY <1>4, <3>1
  <2> QED
    BY <2>2, <2>3, <2>4, <2>5
<1>8. \A n \in DOMAIN z : z[n] \notin {",", "-", "."}
  <2>1. PICK T : T = {",", "-", "."} /\ T \cap {"k", "e", "i", "b"} = {}
    <3>1. \A c \in {",", "-", "."} : c \notin {"k", "e", "i", "b"}
      OBVIOUS
    <3>2. {",", "-", "."} \cap {"k", "e", "i", "b"} = {}
      BY <3>1
    <3> QED
      BY <3>2
  <2>2. ~Has(z, T)
    BY <1>2, <2>1, UnitIsTaken
  <2> QED
    BY <2>1, <2>2 DEF Has
<1>9. ~Has(SizeOf(s), {","})
  <2>1. PICK T : T = {","}
    OBVIOUS
  <2>2. ~Has(t, T) /\ ~Has(u, T) /\ ~Has(x, T) /\ ~Has(z, T)
    BY <1>5, <1>6, <1>7, <1>8, <2>1 DEF Has
  <2>3. ~Has(t \o u, T)
    BY <2>2, HasOfTwo
  <2>a. ~Has(tu, T)
    BY <1>3, <2>3
  <2>4. ~Has(tu \o x, T)
    BY <2>2, <2>a, HasOfTwo
  <2>b. ~Has(y, T)
    BY <1>3, <2>4
  <2>5. ~Has(y \o z, T)
    BY <2>2, <2>b, HasOfTwo
  <2> QED
    BY <1>3, <2>1, <2>5
<1>10. DashesAfterE(SizeOf(s))
  <2>1. DashesAfterE(t) /\ DashesAfterE(u) /\ DashesAfterE(x) /\ DashesAfterE(z)
    BY <1>5, <1>6, <1>7, <1>8 DEF DashesAfterE
  <2>2. DashesAfterE(tu)
    BY <1>3, <2>1, DashesOfTwo
  <2>3. DashesAfterE(y)
    BY <1>3, <2>1, <2>2, DashesOfTwo
  <2> QED
    BY <1>3, <2>1, <2>3, DashesOfTwo
<1>11. OneDot(SizeOf(s))
  <2>1. OneDot(t) /\ OneDot(u) /\ OneDot(x) /\ OneDot(z)
    BY <1>5, <1>6, <1>7, <1>8 DEF OneDot
  <2>2. ~Has(t, {"."}) /\ ~Has(x, {"."}) /\ ~Has(z, {"."})
    BY <1>5, <1>7, <1>8 DEF Has
  <2>3. OneDot(tu)
    BY <1>3, <2>1, <2>2, DotsOfTwo
  <2>4. OneDot(y)
    BY <1>3, <2>1, <2>2, <2>3, DotsOfTwo
  <2> QED
    BY <1>3, <2>1, <2>2, <2>4, DotsOfTwo
<1> QED
  BY <1>9, <1>10, <1>11 DEF IsSizeText

\* The characters of two texts with a third between them.
Parted(t, d, u, x, L, W, M) ==
  /\ L = Len(t) /\ W = Len(d) /\ M = Len(u) /\ Len(x) = L + W + M
  /\ DOMAIN t = 1 .. L /\ DOMAIN d = 1 .. W /\ DOMAIN u = 1 .. M /\ DOMAIN x = 1 .. L + W + M
  /\ \A i \in 1 .. L : x[i] = t[i]
  /\ \A i \in 1 .. W : x[L + i] = d[i]
  /\ \A i \in 1 .. M : x[L + W + i] = u[i]
  /\ \A i \in 1 .. L + W + M :
       i <= L \/ (\E j \in 1 .. W : i = L + j) \/ (\E j \in 1 .. M : i = L + W + j)

\* Three texts make one, with the characters of all.
LEMMA ThreeFollow ==
  ASSUME NEW C, NEW t \in Seq(C), NEW d \in Seq(C), NEW u \in Seq(C)
  PROVE  t \o d \o u \in Seq(C) /\ \E L, W, M \in Nat : Parted(t, d, u, t \o d \o u, L, W, M)
<1>1. PICK y \in Seq(C) : y = t \o d
  BY TwoFollow
<1>2. PICK x \in Seq(C) : x = y \o u
  BY TwoFollow
<1>3. PICK L \in Nat, W \in Nat : Follow(t, d, y, L, W)
  BY <1>1, TwoFollow
<1>4. PICK K \in Nat, M \in Nat : Follow(y, u, x, K, M)
  BY <1>2, TwoFollow
<1>5. K = L + W
  BY <1>3, <1>4 DEF Follow
<1>6. Follow(y, u, x, L + W, M)
  BY <1>4, <1>5
<1>7. ASSUME NEW i \in 1 .. L PROVE x[i] = t[i]
  <2>1. i \in 1 .. L + W
    OBVIOUS
  <2> QED
    BY <1>3, <1>6, <2>1 DEF Follow
<1>8. ASSUME NEW i \in 1 .. W PROVE x[L + i] = d[i]
  <2>1. L + i \in 1 .. L + W
    OBVIOUS
  <2> QED
    BY <1>3, <1>6, <2>1 DEF Follow
<1>9. ASSUME NEW i \in 1 .. L + W + M
      PROVE  i <= L \/ (\E j \in 1 .. W : i = L + j) \/ (\E j \in 1 .. M : i = L + W + j)
  <2>1. CASE i <= L + W
    <3>1. i \in 1 .. L + W
      BY <2>1
    <3> QED
      BY <1>3, <3>1 DEF Follow
  <2>2. CASE ~(i <= L + W)
    BY <1>6, <2>2 DEF Follow
  <2> QED
    BY <2>1, <2>2
<1>10. Parted(t, d, u, x, L, W, M)
  BY <1>3, <1>6, <1>7, <1>8, <1>9 DEF Follow, Parted
<1> QED
  BY <1>1, <1>2, <1>10

\* Cut where the third is.
IsCut(t, u, x, L, W) == Cut(x, L + 1, W) = <<t, u>>

\* What is left are the other two.
LEMMA CutAtThird ==
  ASSUME NEW C, NEW t \in Seq(C), NEW d \in Seq(C), NEW u \in Seq(C), NEW x \in Seq(C),
         NEW L \in Nat, NEW W \in Nat, NEW M \in Nat, Parted(t, d, u, x, L, W, M)
  PROVE  IsCut(t, u, x, L, W)
<1>1. \A i \in 1 .. L + W + M : x[i] \in C
  BY DEF Parted
<1>2. SubSeq(x, 1, L) = t
  <2>1. \A i \in 1 .. L : x[i] \in C
    <3>1. \A i \in 1 .. L : i \in 1 .. L + W + M
      OBVIOUS
    <3> QED
      BY <1>1, <3>1
  <2>2. PICK y \in Seq(C) : y = SubSeq(x, 1, L)
    <3>1. SubSeq(x, 1, L) \in Seq(C)
      BY <2>1, SubSeqProperties
    <3> QED
      BY <3>1
  <2>3. Len(y) = L /\ \A i \in 1 .. L : y[i] = x[i]
    <3>1. Len(SubSeq(x, 1, L)) = IF 1 <= L THEN L - 1 + 1 ELSE 0
      BY <2>1, SubSeqProperties
    <3>2. \A i \in 1 .. L - 1 + 1 : SubSeq(x, 1, L)[i] = x[1 + i - 1]
      BY <2>1, SubSeqProperties
    <3>3. \A i \in 1 .. L : i \in 1 .. L - 1 + 1 /\ 1 + i - 1 = i
      OBVIOUS
    <3> QED
      BY <2>2, <3>1, <3>2, <3>3
  <2>4. Len(y) = Len(t) /\ \A i \in 1 .. Len(t) : y[i] = t[i]
    BY <2>3 DEF Parted
  <2> QED
    BY <2>2, <2>4, SeqEqual
<1>3. SubSeq(x, L + W + 1, L + W + M) = u
  <2>1. PICK a \in Nat, b \in Nat : a = L + W + 1 /\ b = L + W + M
    OBVIOUS
  <2>2. \A i \in a .. b : x[i] \in C
    <3>1. \A i \in a .. b : i \in 1 .. L + W + M
      BY <2>1
    <3> QED
      BY <1>1, <3>1
  <2>3. PICK y \in Seq(C) : y = SubSeq(x, a, b)
    <3>1. SubSeq(x, a, b) \in Seq(C)
      BY <2>2, SubSeqProperties
    <3> QED
      BY <3>1
  <2>4. Len(y) = M /\ \A i \in 1 .. M : y[i] = x[L + W + i]
    <3>1. Len(SubSeq(x, a, b)) = IF a <= b THEN b - a + 1 ELSE 0
      BY <2>2, SubSeqProperties
    <3>2. \A i \in 1 .. b - a + 1 : SubSeq(x, a, b)[i] = x[a + i - 1]
      BY <2>2, SubSeqProperties
    <3>3. (IF a <= b THEN b - a + 1 ELSE 0) = M
      BY <2>1
    <3>4. \A i \in 1 .. M : i \in 1 .. b - a + 1 /\ a + i - 1 = L + W + i
      BY <2>1
    <3> QED
      BY <2>3, <3>1, <3>2, <3>3, <3>4
  <2>5. Len(y) = Len(u) /\ \A i \in 1 .. Len(u) : y[i] = u[i]
    BY <2>4 DEF Parted
  <2>6. y = u
    BY <2>5, SeqEqual
  <2> QED
    BY <2>1, <2>3, <2>6
<1>4. Cut(x, L + 1, W) = <<SubSeq(x, 1, L + 1 - 1), SubSeq(x, L + 1 + W, Len(x))>>
  BY DEF Cut
<1>5. L + 1 - 1 = L /\ L + 1 + W = L + W + 1 /\ Len(x) = L + W + M
  BY DEF Parted
<1> QED
  BY <1>2, <1>3, <1>4, <1>5 DEF IsCut

\* A text that neither begins nor ends with a space.
Bare(t) == t # <<>> => t[1] # " " /\ t[Len(t)] # " "

\* Nothing is trimmed off it.
LEMMA NothingTrimmed ==
  ASSUME NEW C, NEW t \in Seq(C), Bare(t)
  PROVE  Trim(t) = t
<1>b. PICK space : space = " "
  OBVIOUS
<1>1. PICK L \in Nat : L = Len(t)
  OBVIOUS
<1> DEFINE ink == {i \in 1 .. Len(t) : t[i] # space}
<1>a. Trim(t) = IF ink = {} THEN <<>> ELSE SubSeq(t, First(ink), Final(ink))
  BY <1>b DEF Trim
<1>c. t # <<>> => t[1] # space /\ t[Len(t)] # space
  BY <1>b DEF Bare
<1>2. CASE t = <<>>
  <2>1. ink = {}
    BY <1>2
  <2> QED
    BY <1>2, <1>a, <2>1
<1>3. CASE t # <<>>
  <2>1. 1 \in ink /\ L \in ink /\ \A i \in ink : i \in Nat /\ 1 <= i /\ i <= L
    BY <1>1, <1>3, <1>c
  <2> HIDE DEF ink
  <2>2. First(ink) = 1
    <3>1. PICK f : f = First(ink)
      OBVIOUS
    <3>2. f \in ink /\ \A j \in ink : f <= j
      <4>1. \E i \in ink : \A j \in ink : i <= j
        BY <2>1
      <4> QED
        BY <3>1, <4>1 DEF First
    <3>3. f <= 1 /\ 1 <= f /\ f \in Nat
      BY <2>1, <3>2
    <3>4. f = 1
      BY <3>3
    <3> QED
      BY <3>1, <3>4
  <2>3. Final(ink) = L
    <3>1. PICK f : f = Final(ink)
      OBVIOUS
    <3>2. f \in ink /\ \A j \in ink : j <= f
      <4>1. \E i \in ink : \A j \in ink : j <= i
        BY <2>1
      <4> QED
        BY <3>1, <4>1 DEF Final
    <3>3. f <= L /\ L <= f /\ f \in Nat
      BY <2>1, <3>2
    <3>4. f = L
      BY <3>3
    <3> QED
      BY <3>1, <3>4
  <2>4. \A i \in 1 .. L : t[i] \in C
    BY <1>1
  <2>5. PICK y \in Seq(C) : y = SubSeq(t, 1, L)
    <3>1. SubSeq(t, 1, L) \in Seq(C)
      BY <2>4, SubSeqProperties
    <3> QED
      BY <3>1
  <2>6. Len(y) = L /\ \A i \in 1 .. L : y[i] = t[i]
    <3>1. Len(SubSeq(t, 1, L)) = IF 1 <= L THEN L - 1 + 1 ELSE 0
      BY <2>4, SubSeqProperties
    <3>2. \A i \in 1 .. L - 1 + 1 : SubSeq(t, 1, L)[i] = t[1 + i - 1]
      BY <2>4, SubSeqProperties
    <3>3. \A i \in 1 .. L : i \in 1 .. L - 1 + 1 /\ 1 + i - 1 = i
      OBVIOUS
    <3> QED
      BY <2>5, <3>1, <3>2, <3>3
  <2>7. y = t
    BY <1>1, <2>6, SeqEqual
  <2>8. ink # {}
    BY <2>1
  <2>9. Trim(t) = SubSeq(t, 1, L)
    BY <1>a, <2>2, <2>3, <2>8
  <2> QED
    BY <2>5, <2>7, <2>9
<1> QED
  BY <1>2, <1>3

\* Where a character is twice, one after the other.
LEMMA WhereTwoAre ==
  ASSUME NEW C, NEW c \in C, NEW t \in Seq(C), NEW i
  PROVE  i \in Occurrences(t, <<c, c>>) <=>
           i \in Nat /\ i \in DOMAIN t /\ i + 1 \in DOMAIN t /\ t[i] = c /\ t[i + 1] = c
<1>1. PICK L \in Nat : L = Len(t) /\ DOMAIN t = 1 .. L
  OBVIOUS
<1>2. PICK d \in Seq(C) : d = <<c, c>>
  <2>1. <<c, c>> \in Seq(C)
    OBVIOUS
  <2> QED
    BY <2>1
<1>3. Len(d) = 2 /\ d[1] = c /\ d[2] = c
  BY <1>2
<1>4. i \in Occurrences(t, d) <=> i \in 1 .. L - 2 + 1 /\ SubSeq(t, i, i + 2 - 1) = d
  BY <1>1, <1>3 DEF Occurrences
<1>5. i \in 1 .. L - 2 + 1 <=> i \in Nat /\ i \in 1 .. L /\ i + 1 \in 1 .. L
  OBVIOUS
<1>6. ASSUME i \in 1 .. L - 2 + 1
      PROVE  SubSeq(t, i, i + 2 - 1) = d <=> t[i] = c /\ t[i + 1] = c
  <2>1. PICK n \in 1 .. L, m \in 1 .. L : n = i /\ m = i + 1 /\ m = i + 2 - 1 /\ m = n + 1
    BY <1>5, <1>6
  <2>2. \A j \in n .. m : t[j] \in C
    <3>1. \A j \in n .. m : j \in 1 .. L
      BY <2>1
    <3> QED
      BY <1>1, <3>1
  <2>3. PICK y \in Seq(C) : y = SubSeq(t, n, m)
    <3>1. SubSeq(t, n, m) \in Seq(C)
      BY <2>1, <2>2, SubSeqProperties
    <3> QED
      BY <3>1
  <2>4. Len(y) = 2 /\ y[1] = t[n] /\ y[2] = t[m]
    <3>1. Len(SubSeq(t, n, m)) = IF n <= m THEN m - n + 1 ELSE 0
      BY <2>1, <2>2, SubSeqProperties
    <3>2. \A j \in 1 .. m - n + 1 : SubSeq(t, n, m)[j] = t[n + j - 1]
      BY <2>1, <2>2, SubSeqProperties
    <3>3. (IF n <= m THEN m - n + 1 ELSE 0) = 2 /\ n + 1 - 1 = n /\ n + 2 - 1 = m
          /\ 1 \in 1 .. m - n + 1 /\ 2 \in 1 .. m - n + 1
      BY <2>1
    <3> QED
      BY <2>3, <3>1, <3>2, <3>3
  <2>5. ASSUME t[n] = c, t[m] = c PROVE y = d
    <3>1. Len(y) = Len(d)
      BY <1>3, <2>4
    <3>2. \A j \in 1 .. 2 : y[j] = d[j]
      <4>1. \A j \in 1 .. 2 : j = 1 \/ j = 2
        OBVIOUS
      <4> QED
        BY <1>3, <2>4, <2>5, <4>1
    <3> QED
      BY <1>3, <3>1, <3>2, SeqEqual
  <2>6. y = d => t[n] = c /\ t[m] = c
    BY <1>3, <2>4
  <2> QED
    BY <2>1, <2>3, <2>5, <2>6
<1> QED
  BY <1>1, <1>2, <1>4, <1>5, <1>6

\* Where it is.
LEMMA WhereOneIs ==
  ASSUME NEW C, NEW c \in C, NEW t \in Seq(C), NEW i
  PROVE  i \in Occurrences(t, <<c>>) <=> i \in Nat /\ i \in DOMAIN t /\ t[i] = c
<1>1. PICK L \in Nat : L = Len(t) /\ DOMAIN t = 1 .. L
  OBVIOUS
<1>2. PICK d \in Seq(C) : d = <<c>>
  <2>1. <<c>> \in Seq(C)
    OBVIOUS
  <2> QED
    BY <2>1
<1>3. Len(d) = 1 /\ d[1] = c
  BY <1>2
<1>4. i \in Occurrences(t, d) <=> i \in 1 .. L - 1 + 1 /\ SubSeq(t, i, i + 1 - 1) = d
  BY <1>1, <1>3 DEF Occurrences
<1>5. i \in 1 .. L - 1 + 1 <=> i \in Nat /\ i \in 1 .. L
  OBVIOUS
<1>6. ASSUME i \in 1 .. L - 1 + 1
      PROVE  SubSeq(t, i, i + 1 - 1) = d <=> t[i] = c
  <2>1. PICK n \in 1 .. L : n = i /\ n = i + 1 - 1
    BY <1>5, <1>6
  <2>2. \A j \in n .. n : t[j] \in C
    <3>1. \A j \in n .. n : j \in 1 .. L
      BY <2>1
    <3> QED
      BY <1>1, <3>1
  <2>3. PICK y \in Seq(C) : y = SubSeq(t, n, n)
    <3>1. SubSeq(t, n, n) \in Seq(C)
      BY <2>1, <2>2, SubSeqProperties
    <3> QED
      BY <3>1
  <2>4. Len(y) = 1 /\ y[1] = t[n]
    <3>1. Len(SubSeq(t, n, n)) = IF n <= n THEN n - n + 1 ELSE 0
      BY <2>1, <2>2, SubSeqProperties
    <3>2. \A j \in 1 .. n - n + 1 : SubSeq(t, n, n)[j] = t[n + j - 1]
      BY <2>1, <2>2, SubSeqProperties
    <3>3. (IF n <= n THEN n - n + 1 ELSE 0) = 1 /\ n + 1 - 1 = n /\ 1 \in 1 .. n - n + 1
      BY <2>1
    <3> QED
      BY <2>3, <3>1, <3>2, <3>3
  <2>5. ASSUME t[n] = c PROVE y = d
    <3>1. Len(y) = Len(d)
      BY <1>3, <2>4
    <3>2. \A j \in 1 .. 1 : y[j] = d[j]
      <4>1. \A j \in 1 .. 1 : j = 1
        OBVIOUS
      <4> QED
        BY <1>3, <2>4, <2>5, <4>1
    <3> QED
      BY <1>3, <3>1, <3>2, SeqEqual
  <2>6. y = d => t[n] = c
    BY <1>3, <2>4
  <2> QED
    BY <2>1, <2>3, <2>5, <2>6
<1> QED
  BY <1>1, <1>2, <1>4, <1>5, <1>6

\* The first of some numbers is the least.
LEMMA FirstIs ==
  ASSUME NEW S \in SUBSET Nat, NEW n \in S, \A i \in S : n <= i
  PROVE  First(S) = n
<1>1. PICK f : f = First(S)
  OBVIOUS
<1>2. f \in S /\ \A j \in S : f <= j
  <2>1. \E i \in S : \A j \in S : i <= j
    OBVIOUS
  <2> QED
    BY <1>1, <2>1 DEF First
<1>3. f <= n /\ n <= f /\ f \in Nat /\ n \in Nat
  BY <1>2
<1>4. f = n
  BY ONLY <1>3
<1> QED
  BY <1>1, <1>4

\* The last is the greatest.
LEMMA FinalIs ==
  ASSUME NEW S \in SUBSET Nat, NEW n \in S, \A i \in S : i <= n
  PROVE  Final(S) = n
<1>1. PICK f : f = Final(S)
  OBVIOUS
<1>2. f \in S /\ \A j \in S : j <= f
  <2>1. \E i \in S : \A j \in S : j <= i
    OBVIOUS
  <2> QED
    BY <1>1, <2>1 DEF Final
<1>3. f <= n /\ n <= f /\ f \in Nat /\ n \in Nat
  BY <1>2
<1>4. f = n
  BY ONLY <1>3
<1> QED
  BY <1>1, <1>4

\* Two dots split before the first of them.
LEMMA SplitByDots ==
  ASSUME NEW C, "." \in C, NEW a \in Seq(C), NEW b \in Seq(C), OneDot(a), ~EndsIn(a, {"."})
  PROVE  TrySplit(a \o <<".", ".">> \o b) = <<a, b>>
<1>1. PICK c \in C : c = "."
  OBVIOUS
<1>2. PICK d \in Seq(C) : d = <<c, c>> /\ Len(d) = 2 /\ d[1] = c /\ d[2] = c
  <2>1. <<c, c>> \in Seq(C)
    OBVIOUS
  <2> QED
    BY <2>1
<1>3. PICK x \in Seq(C), L \in Nat, W \in Nat, M \in Nat : x = a \o d \o b /\ Parted(a, d, b, x, L, W, M)
  BY ThreeFollow
<1>4. W = 2
  BY <1>2, <1>3 DEF Parted
<1>5. Parted(a, d, b, x, L, 2, M)
  BY <1>3, <1>4
<1>6. \A i : i \in Occurrences(x, d) <=>
               i \in Nat /\ i \in DOMAIN x /\ i + 1 \in DOMAIN x /\ x[i] = c /\ x[i + 1] = c
  BY <1>2, WhereTwoAre
<1>7. Occurrences(x, d) \in SUBSET Nat
  BY <1>6
<1>8. L + 1 \in Occurrences(x, d)
  <2>1. 1 \in 1 .. 2 /\ 2 \in 1 .. 2 /\ L + 1 + 1 = L + 2
    OBVIOUS
  <2>2. x[L + 1] = c /\ x[L + 1 + 1] = c
    BY <1>2, <1>5, <2>1 DEF Parted
  <2>3. L + 1 \in DOMAIN x /\ L + 1 + 1 \in DOMAIN x
    BY <1>5 DEF Parted
  <2>4. PICK n \in Nat : n = L + 1
    OBVIOUS
  <2>5. n \in DOMAIN x /\ n + 1 \in DOMAIN x /\ x[n] = c /\ x[n + 1] = c
    BY <2>2, <2>3, <2>4
  <2>6. n \in Occurrences(x, d)
    BY <1>6, <2>5
  <2> QED
    BY <2>4, <2>6
<1>9. ASSUME NEW i \in Occurrences(x, d) PROVE L + 1 <= i
  <2> SUFFICES ASSUME i <= L PROVE FALSE
    BY <1>7
  <2>1. i \in 1 .. L /\ x[i] = c /\ x[i + 1] = c
    BY <1>5, <1>6, <1>9 DEF Parted
  <2>2. a[i] = c
    BY <1>5, <2>1 DEF Parted
  <2>3. CASE i = L
    <3>1. a # <<>>
      BY <1>5, <2>1 DEF Parted
    <3>2. a[Len(a)] \notin {"."}
      BY <3>1 DEF EndsIn
    <3> QED
      BY <1>1, <1>5, <2>2, <2>3, <3>2 DEF Parted
  <2>4. CASE i # L
    <3>1. PICK j \in 1 .. L : j = i + 1
      BY <2>1, <2>4
    <3>2. a[j] = c
      BY <1>5, <2>1, <3>1 DEF Parted
    <3>3. i \in DOMAIN a /\ j \in DOMAIN a
      BY <1>5, <2>1 DEF Parted
    <3>4. i = j
      BY <1>1, <2>2, <3>2, <3>3 DEF OneDot
    <3> QED
      BY <2>1, <3>1, <3>4
  <2> QED
    BY <2>3, <2>4
<1>10. First(Occurrences(x, d)) = L + 1
  <2>1. PICK n, S : n = L + 1 /\ S = Occurrences(x, d)
    OBVIOUS
  <2>2. S \in SUBSET Nat /\ n \in S /\ \A i \in S : n <= i
    BY <1>7, <1>8, <1>9, <2>1
  <2>3. First(S) = n
    BY ONLY <2>2, FirstIs
  <2> QED
    BY <2>1, <2>3
<1>11. TrySplit(x) = Cut(x, L + 1, 2)
  <2>1. Occurrences(x, <<".", ".">>) = Occurrences(x, d)
    BY <1>1, <1>2
  <2>2. Occurrences(x, d) # {}
    BY <1>8
  <2>3. TrySplit(x) = Cut(x, First(Occurrences(x, d)), 2)
    BY <2>1, <2>2 DEF TrySplit
  <2> QED
    BY <1>10, <2>3
<1>12. Cut(x, L + 1, 2) = <<a, b>>
  <2>1. PICK K \in Nat : K = 2
    OBVIOUS
  <2>2. Parted(a, d, b, x, L, K, M)
    BY <1>5, <2>1
  <2>3. IsCut(a, b, x, L, K)
    BY <2>2, CutAtThird
  <2> QED
    BY <2>1, <2>3 DEF IsCut
<1> QED
  BY <1>1, <1>2, <1>3, <1>11, <1>12

\* Two dots that do not follow each other do not split.
LEMMA NoTwoDots ==
  ASSUME NEW C, "." \in C, NEW t \in Seq(C),
         \A i \in DOMAIN t : t[i] # "." \/ i + 1 \notin DOMAIN t \/ t[i + 1] # "."
  PROVE  Occurrences(t, <<".", ".">>) = {}
<1>1. PICK c \in C : c = "."
  OBVIOUS
<1>2. \A i : i \notin Occurrences(t, <<c, c>>)
  BY <1>1, WhereTwoAre
<1>3. Occurrences(t, <<c, c>>) = {}
  BY <1>2
<1> QED
  BY <1>1, <1>3

\* They do not in two sizes with another character between them.
LEMMA NoTwoDotsOfThree ==
  ASSUME NEW C, "." \in C, NEW a \in Seq(C), NEW b \in Seq(C), NEW c \in C, c # ".", OneDot(a), OneDot(b)
  PROVE  Occurrences(a \o <<c>> \o b, <<".", ".">>) = {}
<1>0. PICK dot \in C : dot = "."
  OBVIOUS
<1>1. PICK d \in Seq(C) : d = <<c>> /\ Len(d) = 1 /\ d[1] = c
  <2>1. <<c>> \in Seq(C)
    OBVIOUS
  <2> QED
    BY <2>1
<1>2. PICK x \in Seq(C), L \in Nat, W \in Nat, M \in Nat : x = a \o d \o b /\ Parted(a, d, b, x, L, W, M)
  BY ThreeFollow
<1>3. W = 1
  BY <1>1, <1>2 DEF Parted
<1>4. Parted(a, d, b, x, L, 1, M)
  BY <1>2, <1>3
<1>5. x[L + 1] # dot
  <2>1. 1 \in 1 .. 1
    OBVIOUS
  <2> QED
    BY <1>0, <1>1, <1>4, <2>1 DEF Parted
<1>6. ASSUME NEW i \in DOMAIN x, x[i] = dot, i + 1 \in DOMAIN x, x[i + 1] = dot PROVE FALSE
  <2>1. i \in 1 .. L + 1 + M /\ i + 1 \in 1 .. L + 1 + M /\ i # L + 1 /\ i + 1 # L + 1
    BY <1>4, <1>5, <1>6 DEF Parted
  <2>2. CASE i < L
    <3>1. i \in 1 .. L /\ i + 1 \in 1 .. L
      BY <2>1, <2>2
    <3>2. a[i] = dot /\ a[i + 1] = dot
      BY <1>4, <1>6, <3>1 DEF Parted
    <3>3. i = i + 1
      BY <1>0, <1>4, <3>1, <3>2 DEF Parted, OneDot
    <3> QED
      BY <3>1, <3>3
  <2>3. CASE i > L + 1
    <3>1. PICK j \in 1 .. M, k \in 1 .. M : i = L + 1 + j /\ i + 1 = L + 1 + k /\ k = j + 1
      <4>1. PICK n \in Nat : n = i
        BY <2>1
      <4>2. PICK j \in 1 .. M : j = n - L - 1
        BY <2>1, <2>3, <4>1
      <4>3. PICK k \in 1 .. M : k = n - L
        BY <2>1, <2>3, <4>1
      <4>4. n = L + 1 + j /\ n + 1 = L + 1 + k /\ k = j + 1
        BY <4>2, <4>3
      <4> QED
        BY <4>1, <4>4
    <3>2. b[j] = dot /\ b[k] = dot
      BY <1>4, <1>6, <3>1 DEF Parted
    <3>3. j = k
      BY <1>0, <1>4, <3>2 DEF Parted, OneDot
    <3> QED
      BY <3>1, <3>3
  <2> QED
    BY <2>1, <2>2, <2>3
<1>7. Occurrences(x, <<".", ".">>) = {}
  BY <1>0, <1>6, NoTwoDots
<1> QED
  BY <1>1, <1>2, <1>7

\* A character that is in neither text is where the two meet.
LEMMA OnlyBetween ==
  ASSUME NEW C, NEW c \in C, NEW a \in Seq(C), NEW b \in Seq(C), ~Has(a, {c}), ~Has(b, {c})
  PROVE  \A i : i \in Occurrences(a \o <<c>> \o b, <<c>>) <=> i = Len(a) + 1
<1>1. PICK d \in Seq(C) : d = <<c>> /\ Len(d) = 1 /\ d[1] = c
  <2>1. <<c>> \in Seq(C)
    OBVIOUS
  <2> QED
    BY <2>1
<1>2. PICK x \in Seq(C), L \in Nat, W \in Nat, M \in Nat : x = a \o d \o b /\ Parted(a, d, b, x, L, W, M)
  BY ThreeFollow
<1>3. W = 1
  BY <1>1, <1>2 DEF Parted
<1>4. Parted(a, d, b, x, L, 1, M)
  BY <1>2, <1>3
<1>5. \A i : i \in Occurrences(x, <<c>>) <=> i \in Nat /\ i \in DOMAIN x /\ x[i] = c
  BY WhereOneIs
<1>6. \A i \in 1 .. 1 : i = 1
  OBVIOUS
<1>7. L + 1 \in DOMAIN x /\ x[L + 1] = c /\ L + 1 \in Nat
  <2>1. 1 \in 1 .. 1
    OBVIOUS
  <2> QED
    BY <1>1, <1>4, <2>1 DEF Parted
<1>8. ASSUME NEW i \in DOMAIN x, x[i] = c PROVE i = L + 1
  <2>1. i \in 1 .. L + 1 + M
    BY <1>4 DEF Parted
  <2>2. CASE i <= L
    <3>1. i \in 1 .. L
      BY <2>1, <2>2
    <3>2. i \in DOMAIN a /\ a[i] = c
      BY <1>4, <1>8, <3>1 DEF Parted
    <3> QED
      BY <3>2 DEF Has
  <2>3. CASE \E j \in 1 .. M : i = L + 1 + j
    <3>1. PICK j \in 1 .. M : i = L + 1 + j
      BY <2>3
    <3>2. j \in DOMAIN b /\ b[j] = c
      BY <1>4, <1>8, <3>1 DEF Parted
    <3> QED
      BY <3>2 DEF Has
  <2>4. CASE \E j \in 1 .. 1 : i = L + j
    BY <1>6, <2>4
  <2> QED
    BY <1>4, <2>1, <2>2, <2>3, <2>4 DEF Parted
<1>9. Len(a) = L
  BY <1>4 DEF Parted
<1> QED
  BY <1>1, <1>2, <1>5, <1>7, <1>8, <1>9

\* The cut at the character between two texts.
LEMMA CutBetween ==
  ASSUME NEW C, NEW c \in C, NEW a \in Seq(C), NEW b \in Seq(C)
  PROVE  Cut(a \o <<c>> \o b, Len(a) + 1, 1) = <<a, b>>
<1>1. PICK d \in Seq(C) : d = <<c>> /\ Len(d) = 1 /\ d[1] = c
  <2>1. <<c>> \in Seq(C)
    OBVIOUS
  <2> QED
    BY <2>1
<1>2. PICK x \in Seq(C), L \in Nat, W \in Nat, M \in Nat : x = a \o d \o b /\ Parted(a, d, b, x, L, W, M)
  BY ThreeFollow
<1>3. W = 1 /\ L = Len(a)
  BY <1>1, <1>2 DEF Parted
<1>4. IsCut(a, b, x, L, W)
  <2>1. Parted(a, d, b, x, L, W, M)
    BY <1>2
  <2> QED
    BY <2>1, CutAtThird
<1> QED
  BY <1>1, <1>2, <1>3, <1>4 DEF IsCut

\* The delimiters that are one character.
IsComma(c) == c = ","

\* A comma splits.
LEMMA SplitByComma ==
  ASSUME NEW C, "." \in C, NEW c \in C, IsComma(c), NEW a \in Seq(C), NEW b \in Seq(C),
         IsSizeText(a), IsSizeText(b)
  PROVE  TrySplit(a \o <<c>> \o b) = <<a, b>>
<1>1. OneDot(a) /\ OneDot(b) /\ ~Has(a, {c}) /\ ~Has(b, {c})
  BY DEF IsSizeText, IsComma
<1>2. PICK x : x = a \o <<c>> \o b
  OBVIOUS
<1>3. c # "."
  BY DEF IsComma
<1>4. Occurrences(x, <<".", ".">>) = {}
  BY <1>1, <1>2, <1>3, NoTwoDotsOfThree
<1>5. PICK n \in Nat : n = Len(a) + 1
  OBVIOUS
<1>6. PICK S : S = Occurrences(x, <<c>>)
  OBVIOUS
<1>7. \A i : i \in S <=> i = n
  BY <1>1, <1>2, <1>5, <1>6, OnlyBetween
<1>8. First(S) = n
  <2>1. S \in SUBSET Nat /\ n \in S /\ \A i \in S : n <= i
    BY <1>7
  <2> QED
    BY ONLY <2>1, FirstIs
<1>9. TrySplit(x) = Cut(x, n, 1)
  <2>1. S # {}
    BY <1>7
  <2>2. TrySplit(x) = Cut(x, First(S), 1)
    BY <1>4, <1>6, <2>1 DEF TrySplit, IsComma
  <2> QED
    BY <1>8, <2>2
<1> QED
  BY <1>2, <1>5, <1>9, CutBetween

\* Without two dots and a comma a dash may split.
LEMMA SplitAtDashes ==
  ASSUME NEW C, NEW c \in C, IsComma(c), NEW t \in Seq(C), Occurrences(t, <<".", ".">>) = {}, ~Has(t, {c})
  PROVE  TrySplit(t) = IF t # <<>> /\ t[1] = "-" THEN Cut(t, 1, 1)
                       ELSE IF DashDelimiters(t) # {} THEN Cut(t, Final(DashDelimiters(t)), 1) ELSE <<>>
<1>1. \A i : i \notin Occurrences(t, <<c>>)
  <2>1. \A i : i \in DOMAIN t => t[i] # c
    BY DEF Has
  <2> QED
    BY <2>1, WhereOneIs
<1>2. Occurrences(t, <<c>>) = {}
  BY <1>1
<1> QED
  BY <1>2 DEF TrySplit, IsComma

\* A dash after these splits.
Splits(c) == IsDigit(c) \/ c \in {"b", "i", "k"}

\* No dash of a size splits, ...
LEMMA NoDashSplits ==
  ASSUME NEW C, NEW t \in Seq(C), DashesAfterE(t)
  PROVE  /\ DashDelimiters(t) = {} /\ (t # <<>> => t[1] # "-")
         /\ \A i \in DOMAIN t : t[i] = "-" => i - 1 \in DOMAIN t /\ ~Splits(t[i - 1])
<1>1. ~Splits("e")
  BY OnlyDigits DEF Splits
<1>2. \A i \in DOMAIN t : t[i] = "-" => i - 1 \in DOMAIN t /\ ~Splits(t[i - 1])
  BY <1>1 DEF DashesAfterE
<1>3. \A i \in 2 .. Len(t) : i \in DOMAIN t
  OBVIOUS
<1>4. DashDelimiters(t) = {}
  BY <1>2, <1>3 DEF DashDelimiters, Splits
<1>5. t # <<>> => 1 \in DOMAIN t /\ ~(1 - 1 \in DOMAIN t)
  OBVIOUS
<1> QED
  BY <1>2, <1>4, <1>5

\* ... and one alone is not split.
LEMMA NotSplit ==
  ASSUME NEW C, "." \in C, NEW c \in C, IsComma(c), NEW t \in Seq(C), IsSizeText(t)
  PROVE  TrySplit(t) = <<>>
<1>1. OneDot(t) /\ ~Has(t, {c}) /\ DashesAfterE(t)
  BY DEF IsSizeText, IsComma
<1>2. \A i \in DOMAIN t : t[i] # "." \/ i + 1 \notin DOMAIN t \/ t[i + 1] # "."
  <2>1. ASSUME NEW i \in DOMAIN t, t[i] = ".", i + 1 \in DOMAIN t, t[i + 1] = "." PROVE FALSE
    <3>1. i = i + 1
      BY <1>1, <2>1 DEF OneDot
    <3> QED
      BY <3>1
  <2> QED
    BY <2>1
<1>3. Occurrences(t, <<".", ".">>) = {}
  BY <1>2, NoTwoDots
<1>4. TrySplit(t) = IF t # <<>> /\ t[1] = "-" THEN Cut(t, 1, 1)
                    ELSE IF DashDelimiters(t) # {} THEN Cut(t, Final(DashDelimiters(t)), 1) ELSE <<>>
  BY <1>1, <1>3, SplitAtDashes
<1> QED
  BY <1>1, <1>4, NoDashSplits

IsDash(c) == c = "-"

\* Where a dash between two sizes splits.
LEMMA DashBetween ==
  ASSUME NEW C, NEW m \in C, IsDash(m), NEW a \in Seq(C), NEW b \in Seq(C), a # <<>>,
         DashesAfterE(a), DashesAfterE(b)
  PROVE  \A i : i \in DashDelimiters(a \o <<m>> \o b) <=> i = Len(a) + 1 /\ Splits(a[Len(a)])
<1>1. PICK d \in Seq(C) : d = <<m>> /\ Len(d) = 1 /\ d[1] = m
  <2>1. <<m>> \in Seq(C)
    OBVIOUS
  <2> QED
    BY <2>1
<1>2. PICK x \in Seq(C), L \in Nat, W \in Nat, M \in Nat : x = a \o d \o b /\ Parted(a, d, b, x, L, W, M)
  BY ThreeFollow
<1>3. W = 1
  BY <1>1, <1>2 DEF Parted
<1>4. Parted(a, d, b, x, L, 1, M)
  BY <1>2, <1>3
<1>5. L = Len(a) /\ L \in 1 .. L /\ Len(x) = L + 1 + M /\ DOMAIN x = 1 .. L + 1 + M
  <2>1. L # 0
    BY <1>4 DEF Parted
  <2> QED
    BY <1>4, <2>1 DEF Parted
<1>6. \A i : i \in DashDelimiters(x) <=> i \in 2 .. L + 1 + M /\ x[i] = m /\ Splits(x[i - 1])
  BY <1>5 DEF DashDelimiters, IsDash, Splits
<1>7. x[L + 1] = m /\ L + 1 - 1 = L /\ x[L] = a[L] /\ L + 1 \in 2 .. L + 1 + M
  <2>1. 1 \in 1 .. 1
    OBVIOUS
  <2> QED
    BY <1>1, <1>4, <1>5, <2>1 DEF Parted
<1>8. \A i \in DOMAIN a : a[i] = m => i - 1 \in DOMAIN a /\ ~Splits(a[i - 1])
  BY NoDashSplits DEF IsDash
<1>9. \A i \in DOMAIN b : b[i] = m => i - 1 \in DOMAIN b /\ ~Splits(b[i - 1])
  BY NoDashSplits DEF IsDash
<1>10. ASSUME NEW i \in 2 .. L + 1 + M, x[i] = m, Splits(x[i - 1]) PROVE i = L + 1
  <2>1. CASE i <= L
    <3>1. i \in 1 .. L
      BY <2>1
    <3>2. a[i] = m
      BY <1>4, <1>10, <3>1 DEF Parted
    <3>3. i - 1 \in 1 .. L /\ ~Splits(a[i - 1])
      BY <1>4, <1>8, <3>1, <3>2 DEF Parted
    <3>4. x[i - 1] = a[i - 1]
      BY <1>4, <3>3 DEF Parted
    <3> QED
      BY <1>10, <3>3, <3>4
  <2>2. CASE i > L + 1
    <3>1. PICK j \in 1 .. M : i = L + 1 + j
      <4>1. i - L - 1 \in 1 .. M /\ i = L + 1 + (i - L - 1)
        BY <2>2
      <4> QED
        BY <4>1
    <3>2. b[j] = m
      BY <1>4, <1>10, <3>1 DEF Parted
    <3>3. PICK k \in 1 .. M : k = j - 1 /\ ~Splits(b[k])
      BY <1>4, <1>9, <3>2 DEF Parted
    <3>4. i - 1 = L + 1 + k
      BY <3>1, <3>3
    <3>5. x[L + 1 + k] = b[k]
      BY <1>4 DEF Parted
    <3> QED
      BY <1>10, <3>3, <3>4, <3>5
  <2> QED
    BY <2>1, <2>2
<1>11. \A i : i \in DashDelimiters(x) <=> i = L + 1 /\ Splits(a[L])
  <2> TAKE i
  <2>1. i \in DashDelimiters(x) => i = L + 1 /\ Splits(a[L])
    <3> SUFFICES ASSUME i \in DashDelimiters(x) PROVE i = L + 1 /\ Splits(a[L])
      OBVIOUS
    <3>1. i \in 2 .. L + 1 + M /\ x[i] = m /\ Splits(x[i - 1])
      BY <1>6
    <3>2. i = L + 1
      BY <1>10, <3>1
    <3>3. i - 1 = L
      BY <1>7, <3>2
    <3> QED
      BY <1>7, <3>1, <3>2, <3>3
  <2>2. i = L + 1 /\ Splits(a[L]) => i \in DashDelimiters(x)
    <3> SUFFICES ASSUME i = L + 1, Splits(a[L]) PROVE i \in DashDelimiters(x)
      OBVIOUS
    <3>1. Splits(x[L + 1 - 1])
      BY <1>7
    <3>2. PICK n : n = L + 1
      OBVIOUS
    <3>3. n \in 2 .. L + 1 + M /\ x[n] = m /\ Splits(x[n - 1])
      BY <1>7, <3>1, <3>2
    <3>4. n \in DashDelimiters(x)
      BY <1>6, <3>3
    <3> QED
      BY <3>2, <3>4
  <2> QED
    BY <2>1, <2>2
<1> QED
  BY <1>1, <1>2, <1>5, <1>11

\* A dash splits when nothing is before it, or a size that does not end like an
\* exponent or a fraction.
LEMMA SplitByDash ==
  ASSUME NEW C, "." \in C, NEW c \in C, IsComma(c), NEW m \in C, IsDash(m),
         NEW a \in Seq(C), NEW b \in Seq(C), IsSizeText(a), IsSizeText(b)
  PROVE  TrySplit(a \o <<m>> \o b) = IF a = <<>> \/ Splits(a[Len(a)]) THEN <<a, b>> ELSE <<>>
<1>0. /\ OneDot(a) /\ ~Has(a, {c}) /\ DashesAfterE(a)
      /\ OneDot(b) /\ ~Has(b, {c}) /\ DashesAfterE(b)
  BY DEF IsSizeText, IsComma
<1>1. PICK d \in Seq(C) : d = <<m>> /\ Len(d) = 1 /\ d[1] = m
  <2>1. <<m>> \in Seq(C)
    OBVIOUS
  <2> QED
    BY <2>1
<1>2. PICK x \in Seq(C), L \in Nat, W \in Nat, M \in Nat : x = a \o d \o b /\ Parted(a, d, b, x, L, W, M)
  BY ThreeFollow
<1>3. Occurrences(x, <<".", ".">>) = {}
  <2>1. m # "."
    BY DEF IsDash
  <2>2. Occurrences(a \o <<m>> \o b, <<".", ".">>) = {}
    BY <1>0, <2>1, NoTwoDotsOfThree
  <2> QED
    BY <1>1, <1>2, <2>2
<1>4. ~Has(x, {c})
  <2>1. PICK T : T = {c}
    OBVIOUS
  <2>2. ~Has(a, T) /\ ~Has(b, T)
    BY <1>0, <2>1
  <2>3. ~Has(d, T)
    <3>1. m # c
      BY DEF IsDash, IsComma
    <3>2. \A n \in DOMAIN d : n = 1
      BY <1>1
    <3> QED
      BY <1>1, <2>1, <3>1, <3>2 DEF Has
  <2>4. PICK y \in Seq(C) : y = a \o d
    BY TwoFollow
  <2>5. ~Has(y, T)
    BY <2>2, <2>3, <2>4, HasOfTwo
  <2>6. ~Has(y \o b, T)
    BY <2>2, <2>5, HasOfTwo
  <2> QED
    BY <1>2, <2>1, <2>4, <2>6
<1>5. TrySplit(x) = IF x # <<>> /\ x[1] = "-" THEN Cut(x, 1, 1)
                    ELSE IF DashDelimiters(x) # {} THEN Cut(x, Final(DashDelimiters(x)), 1) ELSE <<>>
  BY <1>3, <1>4, SplitAtDashes
<1>6. Cut(x, Len(a) + 1, 1) = <<a, b>>
  BY <1>1, <1>2, CutBetween
<1>7. W = 1 /\ L = Len(a) /\ Len(x) = L + W + M /\ x # <<>>
  <2>1. W = 1 /\ L = Len(a) /\ Len(x) = L + W + M
    BY <1>1, <1>2 DEF Parted
  <2>2. Len(x) # 0
    BY <2>1
  <2> QED
    BY <2>1, <2>2
<1>8. CASE a = <<>>
  <2>1. L = 0 /\ Len(a) + 1 = 1
    BY <1>7, <1>8
  <2>2. x[1] = m
    <3>1. 1 \in 1 .. W /\ L + 1 = 1
      BY <1>7, <2>1
    <3>2. x[L + 1] = d[1]
      BY <1>2, <3>1 DEF Parted
    <3> QED
      BY <1>1, <3>1, <3>2
  <2> QED
    BY <1>1, <1>2, <1>5, <1>6, <1>7, <1>8, <2>1, <2>2 DEF IsDash
<1>9. CASE a # <<>>
  <2>1. x[1] = a[1]
    <3>1. L # 0
      BY <1>2, <1>9 DEF Parted
    <3>2. 1 \in 1 .. L
      BY <3>1
    <3> QED
      BY <1>2, <3>2 DEF Parted
  <2>2. a[1] # "-"
    BY <1>0, <1>9, NoDashSplits
  <2>3. TrySplit(x) = IF DashDelimiters(x) # {} THEN Cut(x, Final(DashDelimiters(x)), 1) ELSE <<>>
    BY <1>5, <2>1, <2>2
  <2>4. PICK S : S = DashDelimiters(x)
    OBVIOUS
  <2>5. PICK n \in Nat : n = Len(a) + 1
    BY <1>7
  <2>6. \A i : i \in S <=> i = n /\ Splits(a[Len(a)])
    BY <1>0, <1>1, <1>2, <1>9, <2>4, <2>5, DashBetween
  <2>7. CASE Splits(a[Len(a)])
    <3>1. S \in SUBSET Nat /\ n \in S /\ \A i \in S : i <= n
      BY <2>6, <2>7
    <3>2. Final(S) = n
      BY ONLY <3>1, FinalIs
    <3>3. S # {}
      BY <3>1
    <3>4. TrySplit(x) = Cut(x, n, 1)
      BY <2>3, <2>4, <3>2, <3>3
    <3> QED
      BY <1>1, <1>2, <1>6, <2>5, <2>7, <3>4
  <2>8. CASE ~Splits(a[Len(a)])
    <3>1. S = {}
      BY <2>6, <2>8
    <3> QED
      BY <1>1, <1>2, <1>9, <2>3, <2>4, <2>8, <3>1
  <2> QED
    BY <2>7, <2>8
<1> QED
  BY <1>8, <1>9

-----------------------------------------------------------------------------
(***************************************************************************)
(* From the two sizes to the range.                                        *)
(***************************************************************************)
\* A size that is absent has no text, and no other has none.
LEMMA AbsentIsEmpty ==
  ASSUME NEW s, IsSide(s)
  PROVE  SizeOf(s) = <<>> <=> s = Absent
<1>1. PICK C : Text = Seq(C)
  BY DEF Text
<1>2. PICK t \in Seq(C), u \in Seq(C), x \in Seq(C), z \in Seq(C)
            : t = s.int /\ u = s.frac /\ x = s.exp /\ z = s.unit
  BY <1>1, PartsOfSide, UnitIsTaken
<1>3. s = [int |-> t, frac |-> u, exp |-> x, unit |-> z]
  BY <1>2 DEF IsSide
<1>4. \A v, w \in Seq(C) : v \o w \in Seq(C) /\ Len(v \o w) = Len(v) + Len(w)
  BY ConcatProperties
<1>5. PICK tu \in Seq(C), y \in Seq(C), q \in Seq(C) : tu = t \o u /\ y = tu \o x /\ q = y \o z
  <2>1. t \o u \in Seq(C)
    BY <1>4
  <2>2. (t \o u) \o x \in Seq(C)
    BY <1>4, <2>1
  <2>3. ((t \o u) \o x) \o z \in Seq(C)
    BY <1>4, <2>2
  <2> QED
    BY <2>1, <2>2, <2>3
<1>6. SizeOf(s) = q
  BY <1>2, <1>5 DEF SizeOf
<1>7. Len(tu) = Len(t) + Len(u) /\ Len(y) = Len(tu) + Len(x) /\ Len(q) = Len(y) + Len(z)
  BY <1>4, <1>5
<1>8. \A v \in Seq(C) : v = <<>> <=> Len(v) = 0
  OBVIOUS
<1>9. \A v \in Seq(C) : Len(v) \in Nat
  OBVIOUS
<1>10. PICK T \in Nat, U \in Nat, X \in Nat, Z \in Nat, TU \in Nat, Y \in Nat, Q \in Nat :
         /\ T = Len(t) /\ U = Len(u) /\ X = Len(x) /\ Z = Len(z)
         /\ TU = Len(tu) /\ Y = Len(y) /\ Q = Len(q)
  BY <1>9
<1>11. Q = 0 <=> T = 0 /\ U = 0 /\ X = 0 /\ Z = 0
  <2>1. TU = T + U /\ Y = TU + X /\ Q = Y + Z
    BY <1>7, <1>10
  <2> QED
    BY ONLY <2>1, T \in Nat, U \in Nat, X \in Nat, Z \in Nat
<1>12. q = <<>> <=> t = <<>> /\ u = <<>> /\ x = <<>> /\ z = <<>>
  BY <1>8, <1>10, <1>11
<1>13. s = Absent <=> t = <<>> /\ u = <<>> /\ x = <<>> /\ z = <<>>
  BY <1>2, <1>3 DEF Absent
<1> QED
  BY <1>6, <1>12, <1>13

\* The text of a size has no space at its ends.
LEMMA SideIsBare ==
  ASSUME NEW s, IsSide(s)
  PROVE  Bare(SizeOf(s))
BY DEF IsSide, Bare, EndsIn

\* What is wrong stays when the end is taken off for a unit, ...
LEMMA WrongStays ==
  ASSUME NEW C, NEW t \in Seq(C), ~Clean(t), NEW S, EndsIn(t, S), S \cap Wrong = {}
  PROVE  FrontOf(t) \in Seq(C) /\ ~Clean(FrontOf(t))
<1>1. PICK L \in Nat : L = Len(t) /\ DOMAIN t = 1 .. L /\ \A i \in 1 .. L : t[i] \in C
  OBVIOUS
<1>2. PICK n \in 1 .. L : t[n] \in Wrong
  BY <1>1 DEF Clean
<1>3. t[L] \notin Wrong
  BY <1>1 DEF EndsIn
<1>4. n # L
  BY <1>2, <1>3
<1>5. PICK K \in Nat : K = L - 1 /\ n \in 1 .. K
  BY <1>2, <1>4
<1>6. \A i \in 1 .. K : t[i] \in C
  <2>1. \A i \in 1 .. K : i \in 1 .. L
    BY <1>5
  <2> QED
    BY <1>1, <2>1
<1>7. PICK y \in Seq(C) : y = SubSeq(t, 1, K)
  <2>1. SubSeq(t, 1, K) \in Seq(C)
    BY <1>6, SubSeqProperties
  <2> QED
    BY <2>1
<1>8. Len(y) = K /\ \A i \in 1 .. K : y[i] = t[i]
  <2>1. Len(SubSeq(t, 1, K)) = IF 1 <= K THEN K - 1 + 1 ELSE 0
    BY <1>6, SubSeqProperties
  <2>2. \A i \in 1 .. K - 1 + 1 : SubSeq(t, 1, K)[i] = t[1 + i - 1]
    BY <1>6, SubSeqProperties
  <2>3. \A i \in 1 .. K : i \in 1 .. K - 1 + 1 /\ 1 + i - 1 = i
    OBVIOUS
  <2> QED
    BY <1>7, <2>1, <2>2, <2>3
<1>9. n \in DOMAIN y /\ y[n] \in Wrong
  BY <1>2, <1>5, <1>8
<1>10. FrontOf(t) = y
  BY <1>1, <1>5, <1>7 DEF FrontOf
<1> QED
  BY <1>9, <1>10 DEF Clean

\* ... and a text that is not clean is refused.
LEMMA WrongSizeIsRefused ==
  ASSUME NEW C, NEW t \in Seq(C), ~Clean(t)
  PROVE  ParseSize(t).error # "none"
<1>1. ASSUME NEW u \in Seq(C), ~Clean(u), NEW m PROVE ParseWithMultiply(u, m).error # "none"
  <2>1. PICK p : p = Parsed(u)
    OBVIOUS
  <2>2. p.error # "none"
    BY <1>1, <2>1, WrongIsFound
  <2>3. ParseWithMultiply(u, m) = Refuse(p.error)
    BY <2>1, <2>2 DEF ParseWithMultiply
  <2> QED
    BY <2>2, <2>3 DEF Refuse
<1>2. {"b"} \cap Wrong = {} /\ {"i"} \cap Wrong = {} /\ Prefixes \cap Wrong = {}
  BY DEF Prefixes, Wrong
<1>3. PICK noB \in Seq(C) : noB = (IF EndsIn(t, {"b"}) THEN FrontOf(t) ELSE t) /\ ~Clean(noB)
  BY <1>2, WrongStays
<1>4. PICK noI \in Seq(C) : noI = (IF EndsIn(noB, {"i"}) THEN FrontOf(noB) ELSE noB) /\ ~Clean(noI)
  BY <1>2, <1>3, WrongStays
<1>5. EndsIn(noI, Prefixes) => FrontOf(noI) \in Seq(C) /\ ~Clean(FrontOf(noI))
  BY <1>2, <1>4, WrongStays
<1>6. ParseSize(t) = IF EndsIn(noI, Prefixes)
                     THEN ParseWithMultiply(FrontOf(noI), IF EndsIn(noB, {"i"}) THEN Binary ELSE Decimal)
                     ELSE ParseWithMultiply(noI, 1)
  BY <1>3, <1>4 DEF ParseSize
<1>7. CASE EndsIn(noI, Prefixes)
  BY <1>1, <1>5, <1>6, <1>7
<1>8. CASE ~EndsIn(noI, Prefixes)
  BY <1>1, <1>4, <1>6, <1>8
<1> QED
  BY <1>7, <1>8

\* How a side is read: its default d when it is absent, what it says, or refused
\* for its size.
SideIsRead(r, s, d) ==
  /\ r.error = "none" => IF s = Absent THEN r.size = d ELSE ReadAs(r.size, s)
  /\ r.error # "none" =>
       /\ s # Absent
       /\ WellFormed(s) /\ Plain(s) => r.error = "PosOverflow" /\ Max + 1 \in Meant(s)

\* So every side is read.
LEMMA SideOrIsRead ==
  ASSUME NEW s, IsSide(s), NEW d
  PROVE  SideIsRead(SideOr(SizeOf(s), d), s, d)
<1>1. CASE s = Absent
  <2>1. SideOr(SizeOf(s), d) = Ok(d)
    BY <1>1, AbsentIsEmpty DEF SideOr
  <2> QED
    BY <1>1, <2>1 DEF Ok, SideIsRead
<1>2. CASE s # Absent
  <2>1. PICK r : r = ParseSize(SizeOf(s))
    OBVIOUS
  <2>2. SideOr(SizeOf(s), d) = r
    BY <1>2, <2>1, AbsentIsEmpty DEF SideOr
  <2>3. SideIsRead(r, s, d)
    BY <1>2, <2>1, SizeIsRead DEF SideIsRead
  <2> QED
    BY <2>2, <2>3
<1> QED
  BY <1>1, <1>2

\* Two texts and one between them have no space at their ends, when they have none.
LEMMA TextIsBare ==
  ASSUME NEW C, NEW a \in Seq(C), NEW d \in Seq(C), NEW b \in Seq(C), Bare(a), Bare(d), Bare(b)
  PROVE  Bare(a \o d \o b)
<1>1. PICK x \in Seq(C), L \in Nat, W \in Nat, M \in Nat : x = a \o d \o b /\ Parted(a, d, b, x, L, W, M)
  BY ThreeFollow
<1>2. PICK space : space = " "
  OBVIOUS
<1>3. /\ a # <<>> => a[1] # space /\ a[L] # space
      /\ d # <<>> => d[1] # space /\ d[W] # space
      /\ b # <<>> => b[1] # space /\ b[M] # space
  BY <1>1, <1>2 DEF Bare, Parted
<1>4. (L # 0 => a # <<>>) /\ (W # 0 => d # <<>>) /\ (M # 0 => b # <<>>)
  BY <1>1 DEF Parted
<1>5. ASSUME x # <<>> PROVE x[1] # space
  <2>1. L + W + M # 0
    BY <1>1, <1>5 DEF Parted
  <2>2. CASE L # 0
    <3>1. 1 \in 1 .. L
      BY <2>2
    <3> QED
      BY <1>1, <1>3, <1>4, <2>2, <3>1 DEF Parted
  <2>3. CASE L = 0 /\ W # 0
    <3>1. 1 \in 1 .. W /\ L + 1 = 1
      BY <2>3
    <3>2. x[L + 1] = d[1]
      BY <1>1, <3>1 DEF Parted
    <3> QED
      BY <1>3, <1>4, <2>3, <3>1, <3>2
  <2>4. CASE L = 0 /\ W = 0
    <3>1. 1 \in 1 .. M /\ L + W + 1 = 1 /\ M # 0
      BY <2>1, <2>4
    <3>2. x[L + W + 1] = b[1]
      BY <1>1, <3>1 DEF Parted
    <3> QED
      BY <1>3, <1>4, <3>1, <3>2
  <2> QED
    BY <2>2, <2>3, <2>4
<1>6. ASSUME x # <<>> PROVE x[L + W + M] # space
  <2>1. L + W + M # 0
    BY <1>1, <1>6 DEF Parted
  <2>2. CASE M # 0
    <3>1. M \in 1 .. M
      BY <2>2
    <3>2. x[L + W + M] = b[M]
      BY <1>1, <3>1 DEF Parted
    <3> QED
      BY <1>3, <1>4, <2>2, <3>2
  <2>3. CASE M = 0 /\ W # 0
    <3>1. W \in 1 .. W /\ L + W + M = L + W
      BY <2>3
    <3>2. x[L + W] = d[W]
      BY <1>1, <3>1 DEF Parted
    <3> QED
      BY <1>3, <1>4, <2>3, <3>1, <3>2
  <2>4. CASE M = 0 /\ W = 0
    <3>1. L \in 1 .. L /\ L + W + M = L /\ L # 0
      BY <2>1, <2>4
    <3>2. x[L] = a[L]
      BY <1>1, <3>1 DEF Parted
    <3> QED
      BY <1>3, <1>4, <3>1, <3>2
  <2> QED
    BY <2>2, <2>3, <2>4
<1>7. Len(x) = L + W + M
  BY <1>1 DEF Parted
<1>8. Bare(x)
  BY <1>2, <1>5, <1>6, <1>7 DEF Bare
<1> QED
  BY <1>1, <1>8

\* The range is read as it is written, or refused for its cause.
RangeIsRead(range, w) ==
  /\ range.error = "none" =>
       /\ IF w.left = Absent THEN range.start = 0 ELSE ReadAs(range.start, w.left)
       /\ IF w.right = Absent THEN range.end = None ELSE ReadAs(range.end, w.right)
  /\ (/\ range.error # "none" /\ {w.left, w.right} \ {Absent} # {}
      /\ \A s \in {w.left, w.right} \ {Absent} : WellFormed(s) /\ Plain(s)) =>
       \/ /\ range.error = "PosOverflow"
          /\ \E s \in {w.left, w.right} \ {Absent} : Max + 1 \in Meant(s)
       \/ /\ range.error = "inverted" /\ w.right # Absent
          /\ \E l \in IF w.left = Absent THEN {0} ELSE Meant(w.left),
                r \in Meant(w.right) : r <= l

\* It is when its text is split into the texts of its sizes.
LEMMA HalvesAreRead ==
  ASSUME NEW w, IsSide(w.left), IsSide(w.right), NEW t,
         TrySplit(Trim(t)) = <<SizeOf(w.left), SizeOf(w.right)>>
  PROVE  RangeIsRead(FromStr(t, None), w)
<1>1. PICK C : Text = Seq(C)
  BY DEF Text
<1>2. PICK a \in Seq(C), b \in Seq(C) : a = SizeOf(w.left) /\ b = SizeOf(w.right)
  BY <1>1, TextOfSize
<1>3. PICK l : l = SideOr(a, 0)
  OBVIOUS
<1>4. PICK r : r = SideOr(b, None)
  OBVIOUS
<1>5. SideIsRead(l, w.left, 0) /\ SideIsRead(r, w.right, None)
  BY <1>2, <1>3, <1>4, SideOrIsRead
<1>6. PICK sides : sides = <<a, b>> /\ sides[1] = a /\ sides[2] = b /\ sides # <<>>
                   /\ TrySplit(Trim(t)) = sides
  BY <1>2
<1>7. PICK error : error = CASE sides = << <<>>, <<>> >> -> "Empty"
                             [] sides # << <<>>, <<>> >> /\ l.error # "none" -> l.error
                             [] OTHER -> r.error
  OBVIOUS
<1>8. PICK range : range = [error |-> IF error = "none" /\ r.size <= l.size THEN "inverted" ELSE error,
                            start |-> l.size, end |-> r.size]
  OBVIOUS
<1>9. FromStr(t, None) = range
  BY <1>3, <1>4, <1>6, <1>7, <1>8 DEF FromStr
<1>10. range.start = l.size /\ range.end = r.size
       /\ range.error = IF error = "none" /\ r.size <= l.size THEN "inverted" ELSE error
  BY <1>8
<1>11. (a = <<>> <=> w.left = Absent) /\ (b = <<>> <=> w.right = Absent)
  BY <1>2, AbsentIsEmpty
<1>12. CASE w.left = Absent /\ w.right = Absent
  <2>1. sides = << <<>>, <<>> >>
    BY <1>6, <1>11, <1>12
  <2>2. range.error # "none"
    BY <1>7, <1>10, <2>1
  <2>3. RangeIsRead(range, w)
    BY <1>12, <2>2 DEF RangeIsRead
  <2> QED
    BY <1>9, <2>3
<1>13. CASE w.left # Absent \/ w.right # Absent
  <2>1. sides # << <<>>, <<>> >>
    BY <1>6, <1>11, <1>13
  <2>2. error = IF l.error # "none" THEN l.error ELSE r.error
    BY <1>7, <2>1
  <2>3. ASSUME range.error = "none"
        PROVE  /\ IF w.left = Absent THEN range.start = 0 ELSE ReadAs(range.start, w.left)
               /\ IF w.right = Absent THEN range.end = None ELSE ReadAs(range.end, w.right)
    <3>1. error = "none"
      BY <1>10, <2>3
    <3>2. l.error = "none" /\ r.error = "none"
      BY <2>2, <3>1
    <3> QED
      BY <1>5, <1>10, <3>2 DEF SideIsRead
  <2>4. ASSUME range.error # "none",
               \A s \in {w.left, w.right} \ {Absent} : WellFormed(s) /\ Plain(s)
        PROVE  \/ /\ range.error = "PosOverflow"
                  /\ \E s \in {w.left, w.right} \ {Absent} : Max + 1 \in Meant(s)
               \/ /\ range.error = "inverted" /\ w.right # Absent
                  /\ \E i \in IF w.left = Absent THEN {0} ELSE Meant(w.left),
                        j \in Meant(w.right) : j <= i
    <3>1. CASE l.error # "none"
      <4>1. w.left # Absent /\ WellFormed(w.left) /\ Plain(w.left)
        BY <1>5, <2>4, <3>1 DEF SideIsRead
      <4>2. l.error = "PosOverflow" /\ Max + 1 \in Meant(w.left)
        BY <1>5, <3>1, <4>1 DEF SideIsRead
      <4>3. range.error = "PosOverflow"
        BY <1>10, <2>2, <4>2
      <4> QED
        BY <4>1, <4>2, <4>3
    <3>2. CASE l.error = "none" /\ r.error # "none"
      <4>1. w.right # Absent /\ WellFormed(w.right) /\ Plain(w.right)
        BY <1>5, <2>4, <3>2 DEF SideIsRead
      <4>2. r.error = "PosOverflow" /\ Max + 1 \in Meant(w.right)
        BY <1>5, <3>2, <4>1 DEF SideIsRead
      <4>3. range.error = "PosOverflow"
        BY <1>10, <2>2, <3>2, <4>2
      <4> QED
        BY <4>1, <4>2, <4>3
    <3>3. CASE l.error = "none" /\ r.error = "none"
      <4>1. error = "none"
        BY <2>2, <3>3
      <4>2. range.error = "inverted" /\ r.size <= l.size
        BY <1>10, <2>4, <4>1
      <4>3. l.size \in Nat /\ l.size <= Max
        <5>1. IsResult(l)
          <6>1. CASE a = <<>>
            <7>1. 0 \in U64
              BY RangeAssumption DEF U64
            <7>2. l = Ok(0)
              BY <1>3, <6>1 DEF SideOr
            <7> QED
              BY <7>1, <7>2, ResultOfOk
          <6>2. CASE a # <<>>
            BY <1>3, <6>2, ParseSizeTyped DEF SideOr
          <6> QED
            BY <6>1, <6>2
        <5>2. l.size \in U64
          BY <5>1 DEF IsResult
        <5> QED
          BY <5>2, RangeAssumption DEF U64
      <4>4. w.right # Absent
        <5> SUFFICES ASSUME w.right = Absent PROVE FALSE
          OBVIOUS
        <5>1. r.size = None
          BY <1>5, <3>3 DEF SideIsRead
        <5> QED
          BY <4>2, <4>3, <5>1, RangeAssumption DEF None
      <4>5. r.size \in Meant(w.right)
        BY <1>5, <3>3, <4>4 DEF SideIsRead, ReadAs
      <4>6. l.size \in IF w.left = Absent THEN {0} ELSE Meant(w.left)
        BY <1>5, <3>3 DEF SideIsRead, ReadAs
      <4> QED
        BY <4>2, <4>4, <4>5, <4>6
    <3> QED
      BY <3>1, <3>2, <3>3
  <2>5. RangeIsRead(range, w)
    BY <2>3, <2>4 DEF RangeIsRead
  <2> QED
    BY <1>9, <2>5
<1> QED
  BY <1>12, <1>13

\* A text that is not split is one size.
LEMMA NotSplitIsOne ==
  ASSUME NEW t, TrySplit(Trim(t)) = <<>>, NEW r, r = ParseSize(Trim(t)), NEW range, range = FromStr(t, None)
  PROVE  range.error = r.error /\ range.start = 0 /\ range.end = r.size
<1>1. <<>> # << <<>>, <<>> >>
  OBVIOUS
<1>2. PICK sides : sides = <<>> /\ sides # << <<>>, <<>> >> /\ TrySplit(Trim(t)) = sides
  BY <1>1
<1>3. PICK left : left = Ok(0)
  OBVIOUS
<1>4. left.error = "none" /\ left.size = 0
  BY <1>3 DEF Ok
<1>5. PICK error : error = CASE sides = << <<>>, <<>> >> -> "Empty"
                             [] sides # << <<>>, <<>> >> /\ left.error # "none" -> left.error
                             [] OTHER -> r.error
  OBVIOUS
<1>6. error = r.error
  BY <1>2, <1>4, <1>5
<1>7. range = [error |-> IF error = "none" /\ sides # <<>> /\ r.size <= left.size THEN "inverted" ELSE error,
               start |-> left.size, end |-> r.size]
  BY <1>2, <1>3, <1>5 DEF FromStr
<1> QED
  BY <1>2, <1>4, <1>6, <1>7

\* A last character after which a dash does not split, and that does not run into
\* it, is wrong.
LEMMA LastIsWrong ==
  ASSUME NEW a \in Text, a # <<>>, NEW c, IsComma(c), ~Has(a, {c}), ~Splits(a[Len(a)]),
         ~EndsIn(a, {"e", "+", "-", ".", "_"})
  PROVE  ~Clean(a)
<1>a. PICK C : /\ Text = Seq(C)
               /\ C = Figures \cup Wrong \cup Prefixes \cup {"b", "i", ".", "-", "+", ","}
  BY DEF Text
<1>b. Text = Seq(C)
  BY <1>a
<1>1. PICK L \in DOMAIN a : L = Len(a) /\ a[L] \in C
  <2>1. a \in Seq(C)
    BY <1>b
  <2>2. Len(a) \in DOMAIN a /\ a[Len(a)] \in C
    BY ONLY <2>1, a # <<>>
  <2> QED
    BY <2>2
<1>2. a[L] \in Figures \cup Wrong \cup Prefixes \cup {"b", "i", ".", "-", "+", ","}
  BY <1>a, <1>1
<1>3. a[L] # "," /\ a[L] \notin {"e", "+", "-", ".", "_"} /\ ~IsDigit(a[L]) /\ a[L] \notin {"b", "i", "k"}
  BY <1>1 DEF Has, EndsIn, Splits, IsComma
<1>4. a[L] \in Figures => IsDigit(a[L]) \/ a[L] = "_"
  BY FigureIsDigit
<1>5. a[L] \in Wrong
  BY <1>2, <1>3, <1>4 DEF Prefixes
<1> QED
  BY <1>1, <1>5 DEF Clean

\* What is written is what is read, or refused for its cause: the text of a range
\* is taken apart where its two sizes meet.
LEMMA TextIsRead ==
  ASSUME NEW w, IsSide(w.left), IsSide(w.right), w.delim \in Delimiters, Separable(w)
  PROVE  RangeIsRead(FromStr(TextOf(w), None), w)
<1>1. PICK C : Text = Seq(C) /\ {".", ",", "-"} \subseteq C
  BY DEF Text
<1>2. PICK dot \in C, comma \in C, dash \in C : dot = "." /\ comma = "," /\ dash = "-"
  BY <1>1
<1>a. "." \in C
  BY <1>1
<1>3. IsComma(comma) /\ IsDash(dash)
  BY <1>2 DEF IsComma, IsDash
<1>4. PICK a \in Seq(C), b \in Seq(C), d \in Seq(C)
            : a = SizeOf(w.left) /\ b = SizeOf(w.right) /\ d = w.delim
  BY <1>1, TextOfSize, TextOfSigns DEF Delimiters
<1>5. IsSizeText(a) /\ IsSizeText(b)
  BY <1>4, SizeTextOf
<1>6. a = <<>> <=> w.left = Absent
  BY <1>4, AbsentIsEmpty
<1>7. Bare(d)
  <2>1. d \in {<<>>, <<"-">>, <<".", ".">>, <<",">>}
    BY <1>4 DEF Delimiters
  <2>2. ASSUME NEW c, c # " " PROVE Bare(<<c>>) /\ Bare(<<c, c>>)
    BY <2>2 DEF Bare
  <2>3. Bare(<<>>)
    BY DEF Bare
  <2>4. Bare(<<"-">>) /\ Bare(<<".", ".">>) /\ Bare(<<",">>)
    <3>1. "-" # " " /\ "." # " " /\ "," # " "
      OBVIOUS
    <3> QED
      BY <2>2, <3>1
  <2> QED
    BY <2>1, <2>3, <2>4
<1>8. PICK t \in Seq(C) : t = a \o d \o b
  BY ThreeFollow
<1>9. TextOf(w) = t
  BY <1>4, <1>8 DEF TextOf
<1>10. Trim(t) = t
  <2>1. Bare(a) /\ Bare(b)
    BY <1>4, SideIsBare
  <2>2. Bare(t)
    BY <1>7, <1>8, <2>1, TextIsBare
  <2> QED
    BY <2>2, NothingTrimmed
<1>11. ASSUME TrySplit(t) = <<a, b>> PROVE RangeIsRead(FromStr(t, None), w)
  <2>1. TrySplit(Trim(t)) = <<SizeOf(w.left), SizeOf(w.right)>>
    BY <1>4, <1>10, <1>11
  <2> QED
    BY <2>1, HalvesAreRead
<1>12. CASE d = <<>>
  <2>1. w.left = Absent /\ a = <<>>
    BY <1>4, <1>6, <1>12 DEF Separable
  <2>2. t = b
    <3>1. a \o d = a
      BY <1>12, ConcatEmptySeq
    <3>2. a \o b = b
      BY <2>1, ConcatEmptySeq
    <3> QED
      BY <1>8, <3>1, <3>2
  <2>3. TrySplit(t) = <<>>
    BY <1>a, <1>3, <1>5, <2>2, NotSplit
  <2>4. PICK r : r = ParseSize(b)
    OBVIOUS
  <2>5. PICK range : range = FromStr(t, None)
    OBVIOUS
  <2>6. range.error = r.error /\ range.start = 0 /\ range.end = r.size
    BY <1>10, <2>2, <2>3, <2>4, <2>5, NotSplitIsOne
  <2>7. /\ r.error = "none" => ReadAs(r.size, w.right)
        /\ (r.error # "none" /\ WellFormed(w.right) /\ Plain(w.right)) =>
             r.error = "PosOverflow" /\ Max + 1 \in Meant(w.right)
    BY <1>4, <2>4, SizeIsRead
  <2>8. ReadAs(r.size, w.right) => w.right # Absent
    <3>1. ~HasDigit(Absent.int)
      BY DEF Absent, HasDigit
    <3> QED
      BY <3>1 DEF ReadAs, WellFormed
  <2>9. RangeIsRead(range, w)
    BY <2>1, <2>6, <2>7, <2>8 DEF RangeIsRead
  <2> QED
    BY <1>9, <2>5, <2>9
<1>13. CASE d = <<dot, dot>>
  <2>1. ~EndsIn(a, {"."})
    <3>1. CASE w.left = Absent
      BY <1>6, <3>1 DEF EndsIn
    <3>2. CASE w.left # Absent
      BY <1>2, <1>4, <1>13, <3>2 DEF Separable
    <3> QED
      BY <3>1, <3>2
  <2>2. OneDot(a)
    BY <1>5 DEF IsSizeText
  <2>3. TrySplit(a \o <<".", ".">> \o b) = <<a, b>>
    BY <1>a, <2>1, <2>2, SplitByDots
  <2>4. TrySplit(t) = <<a, b>>
    BY <1>2, <1>8, <1>13, <2>3
  <2> QED
    BY <1>9, <1>11, <2>4
<1>14. CASE d = <<comma>>
  <2>1. TrySplit(a \o <<comma>> \o b) = <<a, b>>
    BY <1>a, <1>3, <1>5, SplitByComma
  <2>2. TrySplit(t) = <<a, b>>
    BY <1>8, <1>14, <2>1
  <2> QED
    BY <1>9, <1>11, <2>2
<1>15. CASE d = <<dash>>
  <2>1. TrySplit(t) = IF a = <<>> \/ Splits(a[Len(a)]) THEN <<a, b>> ELSE <<>>
    <3>1. TrySplit(a \o <<dash>> \o b) = IF a = <<>> \/ Splits(a[Len(a)]) THEN <<a, b>> ELSE <<>>
      BY <1>a, <1>3, <1>5, SplitByDash
    <3> QED
      BY <1>8, <1>15, <3>1
  <2>2. CASE a = <<>> \/ Splits(a[Len(a)])
    BY <1>9, <1>11, <2>1, <2>2
  <2>3. CASE a # <<>> /\ ~Splits(a[Len(a)])
    <3>1. w.left # Absent /\ ~EndsIn(a, {"e", "+", "-", ".", "_"})
      BY <1>2, <1>4, <1>6, <1>15, <2>3 DEF Separable
    <3>2. ~Has(a, {comma})
      BY <1>3, <1>5 DEF IsSizeText, IsComma
    <3>3. ~Clean(a)
      BY <1>1, <1>3, <2>3, <3>1, <3>2, LastIsWrong
    <3>4. ~Clean(t)
      <4>1. PICK y \in Seq(C) : y = a \o d
        BY TwoFollow
      <4>2. ~Clean(y)
        BY <3>3, <4>1, CleanOfTwo
      <4>3. ~Clean(y \o b)
        BY <4>2, CleanOfTwo
      <4> QED
        BY <1>8, <4>1, <4>3
    <3>5. PICK r : r = ParseSize(t)
      OBVIOUS
    <3>6. r.error # "none"
      BY <3>4, <3>5, WrongSizeIsRefused
    <3>7. PICK range : range = FromStr(t, None)
      OBVIOUS
    <3>8. TrySplit(t) = <<>>
      BY <2>1, <2>3
    <3>9. range.error # "none"
      BY <1>10, <3>5, <3>6, <3>7, <3>8, NotSplitIsOne
    <3>10. ~WellFormed(w.left)
      BY <1>4, <3>3 DEF WellFormed, Clean
    <3>11. RangeIsRead(range, w)
      BY <3>1, <3>9, <3>10 DEF RangeIsRead
    <3> QED
      BY <1>9, <3>7, <3>11
  <2> QED
    BY <2>2, <2>3
<1>16. d \in {<<>>, <<dot, dot>>, <<comma>>, <<dash>>}
  <2>1. d \in {<<>>, <<"-">>, <<".", ".">>, <<",">>}
    BY <1>4 DEF Delimiters
  <2> QED
    BY <1>2, <2>1
<1> QED
  BY <1>12, <1>13, <1>14, <1>15, <1>16

\* What is in the text to be read, and what has been read.
WrittenInv ==
  /\ pc = "read" => /\ status = "none"
                    /\ IsSide(written.left) /\ IsSide(written.right) /\ written.delim \in Delimiters
  /\ RangeIsAsWritten /\ RefusedForCause

\* Nothing is read at first.
LEMMA InitWrittenInv == TextInit => WrittenInv
<1>1. CASE Init /\ ~cli /\ written = Unwritten
  <2>1. pc # "read"
    BY <1>1 DEF Init
  <2> QED
    BY <1>1, <2>1 DEF WrittenInv, RangeIsAsWritten, RefusedForCause
<1>2. ASSUME NEW f \in DOMAIN Inputs, cli = TRUE, pc = "read",
             written \in [left : Inputs[f].left, delim : Inputs[f].delim, right : Inputs[f].right],
             status = "none"
      PROVE  WrittenInv
  <2>1. /\ \A s \in Inputs[f].left \cup Inputs[f].right : IsSide(s)
        /\ Inputs[f].delim \subseteq Delimiters
    BY SizeRangeAssumption
  <2>2. IsSide(written.left) /\ IsSide(written.right) /\ written.delim \in Delimiters
    BY <1>2, <2>1
  <2>3. status \notin Unreadable
    BY <1>2 DEF Unreadable
  <2> QED
    BY <1>2, <2>2, <2>3 DEF WrittenInv, RangeIsAsWritten, RefusedForCause
<1> QED
  BY <1>1, <1>2 DEF TextInit

\* The text is read as it is written.
LEMMA ReadWrittenInv == TextInv /\ WrittenInv /\ Read /\ written' = written => WrittenInv'
<1> SUFFICES ASSUME TextInv, WrittenInv, Read, written' = written PROVE WrittenInv'
  OBVIOUS
<1>1. /\ pc = "read" /\ status = "none"
      /\ IsSide(written.left) /\ IsSide(written.right) /\ written.delim \in Delimiters
  BY DEF WrittenInv, Read
<1>2. PICK w : w = written
  OBVIOUS
<1>3. PICK range : range = FromStr(TextOf(w), None)
  OBVIOUS
<1>4. Separable(w) => RangeIsRead(range, w)
  BY <1>1, <1>2, <1>3, TextIsRead
<1>5. \/ range.error # "none" /\ Stop(range.error)
      \/ /\ range.error = "none"
         /\ start' = range.start /\ end' = range.end
         /\ pc' = "setup"
         /\ UNCHANGED <<cli, fileLen, offset, maxLen, len, status>>
  BY <1>2, <1>3 DEF Read
<1>6. pc' # "read"
  BY <1>5 DEF Stop
<1>7. CASE range.error # "none" /\ Stop(range.error)
  <2>1. status' = range.error /\ pc' = "done"
    BY <1>7 DEF Stop
  <2>2. range.error \in Unreadable
    <3>1. TextOf(w) \in Text
      BY <1>1, <1>2, TextOfSides
    <3>2. range.error \in {"none", "inverted"} \cup Errors
      BY <1>3, <3>1, FromStrTyped DEF Text
    <3> QED
      BY <1>7, <3>2 DEF Errors, Unreadable
  <2>3. RangeIsAsWritten'
    BY <2>1, <2>2 DEF RangeIsAsWritten, Unreadable
  <2>4. RefusedForCause'
    BY <1>2, <1>4, <1>7, <2>1 DEF RefusedForCause, RangeIsRead
  <2> QED
    BY <1>6, <2>3, <2>4 DEF WrittenInv
<1>8. CASE /\ range.error = "none"
           /\ start' = range.start /\ end' = range.end
           /\ pc' = "setup"
           /\ UNCHANGED <<cli, fileLen, offset, maxLen, len, status>>
  <2>1. RangeIsAsWritten'
    BY <1>2, <1>4, <1>8 DEF RangeIsAsWritten, RangeIsRead
  <2>2. RefusedForCause'
    BY <1>1, <1>8 DEF RefusedForCause, Unreadable
  <2> QED
    BY <1>6, <2>1, <2>2 DEF WrittenInv
<1> QED
  BY <1>5, <1>7, <1>8

\* From then on neither the range nor what was written changes, and no step refuses
\* the text.
LEMMA NextWrittenInv == TextInv /\ WrittenInv /\ [TextNext]_<<vars, written>> => WrittenInv'
<1> SUFFICES ASSUME TextInv, WrittenInv, [TextNext]_<<vars, written>> PROVE WrittenInv'
  OBVIOUS
<1>1. CASE Read /\ written' = written
  BY <1>1, ReadWrittenInv
<1>2. CASE (Setup \/ Validate \/ Resolve) /\ written' = written
  <2>1. pc \in {"setup", "validate", "resolve"}
    BY <1>2 DEF Setup, Validate, Resolve
  <2>2. status = "none"
    <3>1. IInv
      BY <2>1 DEF TextInv
    <3> QED
      BY <2>1, <3>1 DEF IInv, Causes
  <2>3. pc' # "read" /\ status' \notin Unreadable /\ start' = start /\ end' = end /\ cli' = cli
    BY <1>2, <2>1, <2>2 DEF Setup, Validate, Resolve, Stop, Continue, request, Unreadable
  <2>4. RangeIsAsWritten'
    BY <1>2, <2>1, <2>2, <2>3 DEF WrittenInv, RangeIsAsWritten, Unreadable
  <2>5. RefusedForCause'
    BY <2>3 DEF RefusedForCause
  <2> QED
    BY <2>3, <2>4, <2>5 DEF WrittenInv
<1>3. CASE UNCHANGED <<vars, written>>
  BY <1>3 DEF WrittenInv, RangeIsAsWritten, RefusedForCause, vars
<1> QED
  BY <1>1, <1>2, <1>3 DEF TextNext

\* It holds whatever the text.
LEMMA WrittenInvHolds == TextSpec => []WrittenInv
<1>1. TextInv /\ WrittenInv /\ [TextNext]_<<vars, written>> => WrittenInv'
  BY NextWrittenInv
<1> QED
  BY InitWrittenInv, <1>1, TextInvHolds, PTL DEF TextSpec

\* A range that is accepted is the one that was written, whatever its text, the
\* width of the integers and the largest exponent.
THEOREM TextIsAsWritten == TextSpec => []RangeIsAsWritten
BY WrittenInvHolds, PTL DEF WrittenInv

\* A range that is well written is refused for what it says only.
THEOREM TextIsRefusedForCause == TextSpec => []RefusedForCause
BY WrittenInvHolds, PTL DEF WrittenInv
==============================================================================

-------------------------------- MODULE Range --------------------------------
(***************************************************************************)
(* From --range to the pages that are mapped: SizeRange::from_str and      *)
(* common_setup of the command line, FileRange::new of the library, and    *)
(* ResolvedRange::for_file for each file (crates/pagers-cli/src/           *)
(* size_range.rs and runop.rs, crates/pagers-core/src/ops/mod.rs and       *)
(* process.rs).  Machine integers have their width: Max is the largest     *)
(* u64, UsizeMax the largest usize.  The text of --range is read in        *)
(* SizeRange, which puts from_str in the place of Parse.                   *)
(***************************************************************************)
EXTENDS Naturals

CONSTANTS PageSize, Max, UsizeMax

ASSUME RangeAssumption ==
  /\ PageSize \in Nat \ {0} /\ Max \in Nat \ {0} /\ UsizeMax \in Nat \ {0}
  /\ PageSize <= Max /\ UsizeMax <= Max

U64   == 0 .. Max
None  == Max + 1        \* Option::None of a limit: beyond every u64
Limit == U64 \cup {None}

VARIABLES
  pc,                \* "parse", "setup", "validate", "resolve", "done"
  cli,               \* the request comes from the command line
  start, end,        \* its SizeRange
  offset, maxLen,    \* the FileRange
  fileLen,           \* length of the file
  len,               \* the length that is mapped
  status             \* "none", "ok", "skipped" or the error

vars == <<pc, cli, start, end, offset, maxLen, fileLen, len, status>>

request == <<cli, start, end, fileLen>>

\* A caller of the library gives the FileRange itself.
Init ==
  /\ cli \in BOOLEAN
  /\ pc = IF cli THEN "parse" ELSE "validate"
  /\ start \in IF cli THEN U64 ELSE {0}
  /\ end \in IF cli THEN Limit ELSE {None}
  /\ offset \in IF cli THEN {0} ELSE U64
  /\ maxLen \in IF cli THEN {None} ELSE Limit
  /\ fileLen \in U64
  /\ len = 0 /\ status = "none"

Stop(s) ==
  /\ pc' = "done" /\ status' = s
  /\ UNCHANGED <<request, offset, maxLen, len>>

Continue(next) ==
  /\ pc' = next
  /\ UNCHANGED <<request, status>>

-----------------------------------------------------------------------------
\* "start..end" must not be inverted; a bare size is an end, and may be zero.
Parse ==
  /\ pc = "parse"
  /\ \/ end <= start /\ Stop("inverted")
     \/ (end > start \/ start = 0) /\ Continue("setup") /\ UNCHANGED <<offset, maxLen, len>>

\* Mutant of Aligned: rounded up.
AlignedUp(b) == ((b + PageSize - 1) \div PageSize) * PageSize

Aligned(b) == (b \div PageSize) * PageSize

\* common_setup: the start is aligned down, the length counted from there.
Setup ==
  /\ pc = "setup"
  /\ \/ end <= Aligned(start) /\ Stop("order")
     \/ /\ end > Aligned(start)
        /\ offset' = Aligned(start)
        /\ maxLen' = IF end = None THEN None ELSE end - Aligned(start)
        /\ Continue("validate") /\ UNCHANGED len

\* FileRange::validate, in new and again for each file.
Validate ==
  /\ pc = "validate"
  /\ \/ offset % PageSize # 0 /\ Stop("unaligned")
     \/ offset % PageSize = 0 /\ maxLen = 0 /\ Stop("empty")
     \/ offset % PageSize = 0 /\ maxLen \in U64 \ {0} /\ offset + maxLen > Max /\ Stop("overflow")
     \/ /\ offset % PageSize = 0 /\ maxLen # 0
        /\ maxLen = None \/ offset + maxLen <= Max
        /\ Continue("resolve") /\ UNCHANGED <<offset, maxLen, len>>

Least(a, b) == IF a <= b THEN a ELSE b

\* Mutant of Resolve: the limit is taken for the length.
ResolveUnclamped ==
  /\ pc = "resolve"
  /\ \/ fileLen = 0 /\ Stop("skipped")
     \/ fileLen # 0 /\ offset >= fileLen /\ Stop("beyond")
     \/ /\ offset < fileLen
        /\ len' = IF maxLen = None THEN fileLen - offset ELSE maxLen
        /\ pc' = "done" /\ status' = "ok"
        /\ UNCHANGED <<request, offset, maxLen>>

\* ResolvedRange::for_file: an empty file is skipped, one that ends before the
\* range begins is an error, and the length is cut at the end of the file.
Resolve ==
  /\ pc = "resolve"
  /\ \/ fileLen = 0 /\ Stop("skipped")
     \/ fileLen # 0 /\ offset >= fileLen /\ Stop("beyond")
     \/ /\ offset < fileLen
        /\ Least(maxLen, fileLen - offset) > UsizeMax
        /\ Stop("toolarge")
     \/ /\ offset < fileLen
        /\ len' = Least(maxLen, fileLen - offset)
        /\ len' <= UsizeMax
        /\ pc' = "done" /\ status' = "ok"
        /\ UNCHANGED <<request, offset, maxLen>>

Next == Parse \/ Setup \/ Validate \/ Resolve

Spec == Init /\ [][Next]_vars

-----------------------------------------------------------------------------
\* PreparedFile::total_pages, and the pages of the file that they are.
TotalPages  == (len + PageSize - 1) \div PageSize
MappedPages == {offset \div PageSize + i : i \in 0 .. TotalPages - 1}

\* The pages with a byte that was asked for and that the file has.
RequestedPages == {b \div PageSize : b \in {b \in U64 : start <= b /\ b < Least(end, fileLen)}}

\* Every variable stays in its type.
TypeOK ==
  /\ pc \in {"parse", "setup", "validate", "resolve", "done"}
  /\ cli \in BOOLEAN
  /\ start \in U64 /\ end \in Limit /\ offset \in U64 /\ maxLen \in Limit
  /\ fileLen \in U64 /\ len \in 0 .. UsizeMax
  /\ status \in {"none", "ok", "skipped", "inverted", "order", "unaligned", "empty",
                 "overflow", "beyond", "toolarge"}

\* What is mapped is a piece of the file that is there: not empty, which mmap
\* refuses, aligned, as it demands, and not past the end, where a read of the
\* mapping would kill the process.
StaysInFile ==
  status = "ok" => len > 0 /\ offset % PageSize = 0 /\ offset + len <= fileLen

\* The pages mapped for a range of the command line are those that hold a byte
\* of it that the file has, and the page of its start, wherever its ends fall in
\* their pages: no other.  The page of the start holds such a byte unless the file
\* ends before the start and in its page.  Then that page is mapped for no
\* byte at all, because the start was aligned down before it is compared with the
\* length of the file; a file that ends a page earlier is refused ("beyond").
ExactPages ==
  (cli /\ status = "ok") => MappedPages = RequestedPages \cup {start \div PageSize}

\* A range that the command line lets through never fails the checks of the
\* library, neither for its alignment nor for its length nor by overflow.
CliRangeIsValid ==
  cli => status \notin {"unaligned", "empty", "overflow"}

\* No file that has a byte of the range is skipped or refused on its account,
\* except for a length that no mapping can have: more than a usize.
NothingIsMissed ==
  (cli /\ pc = "done" /\ RequestedPages # {}) => status \in {"ok", "toolarge"}
==============================================================================

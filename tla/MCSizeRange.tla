----------------------------- MODULE MCSizeRange -----------------------------
(* Instances of SizeRange for TLC. *)
EXTENDS SizeRange

\* "0" .. "29", in full digits.
Decimals(n) == IF n < 10 THEN <<Digits[n + 1]>> ELSE <<Digits[(n \div 10) + 1], Digits[(n % 10) + 1]>>
Plainly(n)  == [Absent EXCEPT !.int = Decimals(n)]

Between == Delimiters \ {<<>>}

\* Sizes in every form that is read in a way of its own.
Sizes ==
  [int : {<<"0">>, <<"2">>, <<"1", "2">>, <<"2", "_", "4">>, <<"2", "5">>, <<"2", "4", "9">>,
          <<"2", "5", "5">>, <<"1", "4", "4", "9">>},
   frac : {<<>>, <<".">>, <<".", "4">>, <<".", "5">>, <<".", "0", "5">>, <<".", "4", "9">>,
           <<".", "5", "5">>, <<".", "4", "4", "9">>},
   exp : {<<>>, <<"e", "1">>, <<"e", "+", "2">>, <<"e", "-", "1">>, <<"e", "-", "2">>,
          <<"e", "-", "3">>, <<"e", "1", "0", "1">>, <<"e", "-", "1", "0", "1">>},
   unit : {<<>>, <<"b">>, <<"i">>, <<"k">>, <<"k", "i", "b">>, <<"e">>, <<"e", "i">>}]

\* Texts with a mistake in them.
Mistakes ==
  {[Absent EXCEPT !.unit = <<"k">>], [Absent EXCEPT !.frac = <<".", "5">>],
   [Absent EXCEPT !.int = <<"1", " ", "2">>], [Absent EXCEPT !.int = <<"2", "x">>],
   [Absent EXCEPT !.int = <<"2">>, !.exp = <<"e", "-">>],
   [Absent EXCEPT !.int = <<"2">>, !.exp = <<"e", "+">>, !.unit = <<"k">>]}

Family(l, d, r, n) == [left |-> l, delim |-> d, right |-> r, fileLen |-> n]

Numbers == {Plainly(n) : n \in U64}
One     == {Plainly(1)}
Nothing == {Absent}

\* Every range of plain numbers with every file; then every form of a size
\* alone and on either side; then what is missing or wrong.
AllInputs ==
  <<Family(Numbers, {<<"-">>}, Numbers \cup Nothing, U64),
    Family(Nothing, {<<>>}, Numbers, U64),
    Family(Nothing, {<<>>}, Sizes, {Max}),
    Family(One, Between, Sizes, {Max}),
    Family(Sizes, Between, One \cup Nothing, {Max}),
    Family(Nothing, Delimiters, Mistakes \cup One \cup Nothing, {Max}),
    Family(Mistakes, Between, One, {Max})>>
==============================================================================

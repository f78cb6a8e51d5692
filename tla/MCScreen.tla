------------------------------ MODULE MCScreen ------------------------------
(* Instances of Screen for TLC. *)
EXTENDS Screen

\* Samples of one, two and five pages, the last more than a word of four.
SomeSamples == {<<1>>, <<7, 0>>, <<1, 0, 0, 1, 1>>, <<0, 1, 1, 0, 0>>}
=============================================================================

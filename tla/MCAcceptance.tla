---------------------------- MODULE MCAcceptance ----------------------------
(***************************************************************************)
(* An instance of Acceptance for TLC.                                      *)
(***************************************************************************)
EXTENDS Acceptance

\* Lists that are permutations, prefixes and repetitions of each other; with k
\* of 3, 5 and 6 some level is odd.
MyLists ==
  {<<"c">>, <<"c", "c">>, <<"c", "d">>, <<"d", "c">>, <<"c", "d", "d">>, <<"d", "c", "c", "d", "c">>}
=============================================================================

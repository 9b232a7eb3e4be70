----------------------------- MODULE MCEnvelope -----------------------------
(***************************************************************************)
(* An instance of Envelope for TLC.                                        *)
(***************************************************************************)
EXTENDS Envelope

\* The empty session id, and one that looks like the separator.
MySessions == {<< >>, <<0>>}
=============================================================================

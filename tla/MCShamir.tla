------------------------------ MODULE MCShamir ------------------------------
(***************************************************************************)
(* An instance of Shamir for TLC: secrets of one byte, the smallest        *)
(* thresholds, and shares of an earlier split that mix with this one's.    *)
(***************************************************************************)
EXTENDS Shamir

MySecrets == {<<Byte(83)>>}
MyCoefficients == {Zero8, Byte(202)}
MySharings == {<<2, 3>>, <<3, 4>>, <<1, 2>>}

\* A share of an earlier split, and a share with the index 0.
MyForeign == {<<2, <<Byte(129)>> >>, <<0, <<Byte(83)>> >>}
=============================================================================

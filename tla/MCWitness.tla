----------------------------- MODULE MCWitness -----------------------------
(***************************************************************************)
(* Instances of Witness for TLC.  MCWitness.cfg is about the loops: one    *)
(* user, two attempts a call, a root with two chains and one with a single *)
(* chain.  MCWitness_keys.cfg is about the keys and the requests: two      *)
(* users, two copies of a key, requests whose texts collide, and one       *)
(* attempt a call.                                                         *)
(***************************************************************************)
EXTENDS Witness, TLC

MyInput ==
  [password |-> <<"p">>, salt |-> "s",
   hardwareToken |-> {<<"token", "t", "s">>}, biometricHash |-> {}]

\* A user with an authentic and a duress login; the panic suffix is the empty
\* one.
OneUser ==
  {[input |-> MyInput, mode |-> "Authentic"],
   [input |-> DeriveDuressInput(MyInput, << >>), mode |-> "Duress"]}

TwoUsers ==
  OneUser \cup {[input |-> [MyInput EXCEPT !.password = <<"q">>], mode |-> "Authentic"]}

MySharings == {<<2, 2>>, <<1, 2>>}

\* The two chains of 569296, the smallest root with chains, and the one of
\* 618930, the smallest root with a single chain.
MyChainsets ==
  LET top == <<Pair(29962, 2), Pair(1576, 2)>>
  IN  569296 :> {Append(top, Pair(1, 173)), Append(top, Pair(82, 2))} @@
      618930 :> {<<Pair(32571, 9), Pair(1710, 9), Pair(9, 171)>>}

TwoSpaces == [rootN : {569296, 618930}, depth : {3}]
OneSpace  == [rootN : {618930}, depth : {3}]

MyWord == 2^20

\* The lengths that fit a header are 0 and 1.
MyLenWord == 2

\* A request, one whose bytes in a row are the same, and one whose identity is
\* too long for its header: framed, it is the same text as the first.
OneRequest    == {<< << >>, <<98, 0>> >>}
ThreeRequests == OneRequest \cup {<< <<98>>, <<0>> >>, << <<0, 98>>, << >> >>}
=============================================================================

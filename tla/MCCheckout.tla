----------------------------- MODULE MCCheckout -----------------------------
(***************************************************************************)
(* Checkout for TLC: calls a and b are made for the same user, call c for  *)
(* another one.                                                            *)
(***************************************************************************)
EXTENDS Checkout, TLC

CONSTANTS u1, u2, a, b, c, scarce

Users2 == {u1, u2}
ThreeCalls == {a, b, c}
CallsOf == a :> u1 @@ b :> u1 @@ c :> u2
TwoCalls == {a, b}
SameUser == a :> u1 @@ b :> u1
TwoEach == [p \in Products |-> 2]
OneAndTwo == [p \in Products |-> IF p = scarce THEN 1 ELSE 2]
=============================================================================

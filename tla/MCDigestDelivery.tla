--------------------------- MODULE MCDigestDelivery ---------------------------
(* Constants of DigestDelivery for TLC.                                       *)
EXTENDS DigestDelivery, TLC

CONSTANTS w1, w2, h1, h2, wide, rated, other

OneHost  == (w1 :> h1) @@ (w2 :> h1)
TwoHosts == (w1 :> h1) @@ (w2 :> h2)

SlotSymmetry == Permutations({w1, w2})
===============================================================================

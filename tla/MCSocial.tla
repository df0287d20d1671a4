------------------------------ MODULE MCSocial ------------------------------
(* Small instances of Social: a few requests of either spouse on one entry. *)
EXTENDS Social, TLC

CONSTANTS husband, wife, h1, h2, h3, w1, w2, redHeart, bareHeart

SpouseOfFour == h1 :> husband @@ h2 :> husband @@ w1 :> wife @@ w2 :> wife
SpouseOfFive == h3 :> husband @@ SpouseOfFour

\* Requests of the same spouse are interchangeable, and so are two hearts.
Alike ==
  Permutations({h1, h2, h3}) \cup Permutations({w1, w2}) \cup Permutations({redHeart, bareHeart})
=============================================================================

---------------------------- MODULE MCChatSystem ----------------------------
(* One phone each; the husband writes over his websocket or over REST, the   *)
(* wife's screen marks as read.                                              *)
EXTENDS ChatSystem, TLC

CONSTANTS husband, wife, h1, w1, r1, r2, m1

SpouseOfPair == h1 :> husband @@ w1 :> wife @@ r1 :> wife @@ r2 :> husband
AuthorPair == m1 :> husband
=============================================================================

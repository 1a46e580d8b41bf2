---------------------------- MODULE MCAttribution ----------------------------
(* Small instance of the attribution chain: one session, which is held out *)
(* or not by the fraction the merchant chose, and one order of its, which  *)
(* the pixel may claim cost nothing, what it cost, or more.                *)
EXTENDS Attribution, TLC

CONSTANTS s1, o1

MCBuyer == o1 :> s1
MCPrice == o1 :> 2
MCBucket == s1 :> 0
=============================================================================

-------------------------- MODULE MC_StateTracker --------------------------
EXTENDS StateTracker, TLC

CONSTANTS i1, i2, d1, d2, p1, h1

(* Two tags of one manifest, so that all() covers a digest through either *)
(* image and an image event can find the digest held through the other.   *)
MCDigest == (i1 :> d1) @@ (i2 :> d1)
=============================================================================

----------------------------- MODULE MC_HfMirror -----------------------------
EXTENDS HfMirror

CONSTANTS n1, n2, f1, f2

(* A GET and a HEAD of the weight file f1; a GET of the excluded metadata *)
(* file f2, and a /blobs/ GET of f2's blob (the hub no longer serves f2,  *)
(* but a node may hold it from before).                                   *)
MCAsks == {<<f1, "GET", "resolve">>, <<f1, "HEAD", "resolve">>,
           <<f2, "GET", "resolve">>, <<f2, "GET", "blob">>}
=============================================================================

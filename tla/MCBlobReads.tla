---------------------------- MODULE MCBlobReads ----------------------------
(***************************************************************************)
(* Two Runs of one Step.  The cache of Runs in flight holds five bytes: an *)
(* input of one and a state of two fit, and a second Run's push the first   *)
(* out; a state of six never fits.  A state of one byte stays in its row.   *)
(***************************************************************************)
EXTENDS BlobReads, TLC

CONSTANTS r1, r2, s1, k1, short, long, huge

Lengths == (short :> 1) @@ (long :> 2) @@ (huge :> 6) @@ (NoBlob :> 0)
SlotValues == ("input" :> {short}) @@ ("output" :> {NoBlob, long})
              @@ (s1 :> {short, long, huge})
Alike == Permutations(Runs)
=============================================================================

----------------------------- MODULE MCImageStore -----------------------------
(* Instances of ImageStore for TLC. *)
EXTENDS ImageStore

CONSTANTS i1, i2, i3, d1, d2, w1, w2
=============================================================================

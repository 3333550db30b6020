----------------------------- MODULE MCDownload -----------------------------
(* An instance of the download for TLC: a range of two blocks, and one of one. *)
EXTENDS Download, TLC

CONSTANTS pa, pb

Sizes == (pa :> 2) @@ (pb :> 1)
=============================================================================

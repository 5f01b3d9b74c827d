------------------------------ MODULE MCBlobCache ------------------------------
(* Small instances of BlobCache for TLC. *)
EXTENDS BlobCache, TLC

CONSTANTS small, large, huge

Sizes == small :> 1 @@ large :> 2 @@ huge :> 3

=============================================================================

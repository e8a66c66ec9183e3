----------------------------- MODULE MCRunCache -----------------------------
(* Small instances of RunCache: two or three requests for two keys, and    *)
(* jobs without a key.                                                     *)
EXTENDS RunCache
=============================================================================

----------------------------- MODULE MCHubStore -----------------------------
(* A small instance of HubStore: two clusters, writers that mix revisions, *)
(* duplicates, missing identities and graphs that do not fit.              *)
EXTENDS HubStore
=============================================================================

----------------------------- MODULE MCBlobPool -----------------------------
(* An instance of BlobPool for TLC: the cfg files give the constants.      *)
EXTENDS BlobPool
=============================================================================

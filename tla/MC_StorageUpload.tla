-------------------------- MODULE MC_StorageUpload --------------------------
(* Hashes of two bytes over the byte values 0 and 1, and decoded IPFS      *)
(* hashes of up to four bytes: shorter than the slice, shorter and longer   *)
(* than prefix plus hash, and exactly prefix plus hash.                     *)
EXTENDS StorageUpload
=============================================================================

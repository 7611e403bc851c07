------------------------------ MODULE MCGateway ------------------------------
(* Instances of Gateway for TLC; the releases are those of MCStoreReload.   *)
EXTENDS Gateway, MCStoreReload
=============================================================================

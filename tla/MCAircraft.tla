------------------------------ MODULE MCAircraft ------------------------------
(* One aircraft of one shard; Aircraft.cfg gives the times and the bounds.     *)
EXTENDS Aircraft
===============================================================================

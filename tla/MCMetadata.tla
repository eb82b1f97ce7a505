----------------------------- MODULE MCMetadata -----------------------------
(* Metadata for TLC: three states of the inventory, and one reader, since *)
(* readers write nothing that another one reads.                          *)
EXTENDS Metadata
=============================================================================

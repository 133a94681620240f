----------------------------- MODULE MCIndexer -----------------------------
(***************************************************************************)
(* Indexer for TLC.  The contracts are model values; the factory, a child  *)
(* and an adopted contract play different parts, so no two of them are     *)
(* interchangeable and no symmetry is used.                                *)
(***************************************************************************)
EXTENDS Indexer
=============================================================================

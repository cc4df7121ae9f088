--------------------------- MODULE MCFatDirFaults ---------------------------
(* The image of MCFatDir on a device whose writes may fail. *)
EXTENDS FatDirFaults, MCFatDir
=============================================================================

---------------------------- MODULE MCFatDirIter ----------------------------
(* The iterating caller over the image of MCFatDir. *)
EXTENDS FatDirIter, MCFatDir
=============================================================================

----------------------------- MODULE MCReloader -----------------------------
(***************************************************************************)
(* The script and one module it may require, again and again, while both   *)
(* are edited; ReloaderProofs is about any number of modules.              *)
(***************************************************************************)
EXTENDS Reloader

CONSTANT mod1

MCModules == {mod1}
=============================================================================

------------------------------ MODULE MCUnmask ------------------------------
(***************************************************************************)
(* A config that is noticed, one that is blocked and one that exists       *)
(* nowhere outside cfgfs; the script may stop listing the first, or all.   *)
(***************************************************************************)
EXTENDS Unmask

CONSTANTS scout, blocked, missing

MCConfigs == {scout, blocked, missing}
MCExists  == {scout, blocked}
MCBlocked == {blocked}
MCLists   == {{}, {blocked, missing}, {scout, blocked, missing}}
=============================================================================

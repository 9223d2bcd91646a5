----------------------------- MODULE MCBuildLock -----------------------------
(* Three test processes; a liveness property is checked, so no symmetry.    *)
EXTENDS BuildLock
=============================================================================

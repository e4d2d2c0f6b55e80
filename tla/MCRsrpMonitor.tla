--------------------------- MODULE MCRsrpMonitor ---------------------------
(***************************************************************************)
(* RsrpMonitor with the thresholds of prj.conf and Kconfig, for TLC: with   *)
(* three levels a drop may be sharp (-117 to -122), slow (three samples) or *)
(* absent, and an average may round up to the recovery level.               *)
(***************************************************************************)
EXTENDS RsrpMonitor

DrivenLevels == {-117, -119, -122}
PrjFallbackDbm == -120
PrjRecoveryDbm == -120
=============================================================================

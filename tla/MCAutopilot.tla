---------------------------- MODULE MCAutopilot ----------------------------
(* Autopilot for TLC.                                                      *)
EXTENDS Autopilot
=============================================================================

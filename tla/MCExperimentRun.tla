--------------------------- MODULE MCExperimentRun ---------------------------
(* The run directory for TLC: two runners over three questions, in batches *)
(* of two, with two attempts and a crash between them; the attempts follow *)
(* each other or overlap.  A window of two stops at two schema errors or   *)
(* at one provider error.                                                  *)
EXTENDS ExperimentRun
CONSTANTS r1, r2
==============================================================================

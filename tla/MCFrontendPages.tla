---------------------------- MODULE MCFrontendPages ----------------------------
(* The pages on small instances: sets of model values in the .cfg.               *)
EXTENDS FrontendPages, TLC
=============================================================================

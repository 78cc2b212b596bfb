---------------------------- MODULE MCReviewedJob ----------------------------
(* Instances of ReviewedJob for TLC.  Two tasks give every predecessor and   *)
(* successor relation the journal distinguishes; three are checked as well.  *)
EXTENDS ReviewedJob
=============================================================================

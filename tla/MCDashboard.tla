---------------------------- MODULE MCDashboard ----------------------------
(***************************************************************************)
(* The instance of Dashboard for TLC, in thirds of a second.               *)
(***************************************************************************)
EXTENDS Dashboard

\* What the theorem about a provider on pace supposes holds of this instance.
ASSUME BriskAssumption == Brisk
=============================================================================

---------------------------- MODULE MCJobMachine ----------------------------
(* JobMachine on three processes, two stop signals and two statuses. *)
EXTENDS JobMachine
=============================================================================

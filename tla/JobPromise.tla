----------------------------- MODULE JobPromise -----------------------------
(***************************************************************************)
(* What a job record promises its reader, without its members: a job is    *)
(* published once, may stop and run again any number of times, completes   *)
(* once, and is forgotten only after its completion was acknowledged.      *)
(* Every stop and every completion raises one notice; a notice is lowered  *)
(* by an acknowledgement or, for a stop, by the job running again.         *)
(***************************************************************************)
VARIABLES phase, owed

pvars == <<phase, owed>>

Phase == {"Planned", "Starting", "Live", "Stopped", "Completed", "Notified", "Reaped"}

PInit == phase = "Planned" /\ owed = FALSE

Move(from, to) == phase \in from /\ phase' = to

Begin    == Move({"Planned"}, "Starting") /\ UNCHANGED owed
Abort    == Move({"Starting"}, "Reaped") /\ UNCHANGED owed
Run      == Move({"Starting", "Stopped"}, "Live") /\ owed' = FALSE
Stop     == Move({"Starting", "Live"}, "Stopped") /\ owed' = TRUE
Complete == Move({"Starting", "Live", "Stopped"}, "Completed") /\ owed' = TRUE
AckStop  == phase = "Stopped" /\ owed /\ owed' = FALSE /\ UNCHANGED phase
Notify   == Move({"Completed"}, "Notified") /\ owed /\ owed' = FALSE
Reap     == Move({"Notified"}, "Reaped") /\ UNCHANGED owed

PNext == Begin \/ Abort \/ Run \/ Stop \/ Complete \/ AckStop \/ Notify \/ Reap

PSpec == PInit /\ [][PNext]_pvars
=============================================================================

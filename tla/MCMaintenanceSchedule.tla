------------------------ MODULE MCMaintenanceSchedule ------------------------
(* The periodic jobs with a pool of three and ticks numbered 1..3. *)
EXTENDS MaintenanceSchedule
==============================================================================

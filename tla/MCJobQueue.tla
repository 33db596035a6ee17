----------------------------- MODULE MCJobQueue -----------------------------
(* The names of keys and runs are model values of the cfg, a job is a number. *)
EXTENDS JobQueue
=============================================================================

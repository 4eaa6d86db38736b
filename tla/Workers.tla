------------------------------ MODULE Workers ------------------------------
(* Whom and what every other module speaks about. *)
CONSTANTS Worker,       \* the seamstresses: worker_profiles
          Asg           \* ids of the work_assignments they are given
=============================================================================

---- MODULE MCInstallJobs ----
(* Small instances of InstallJobs for TLC. *)
EXTENDS InstallJobs, TLC

Symmetry == Permutations(Hosts)
====

---- MODULE MCAgentEnrollment ----
(* Small instances of AgentEnrollment for TLC. *)
EXTENDS AgentEnrollment, TLC

Symmetry == Permutations(Agents) \cup Permutations(Secrets)
====

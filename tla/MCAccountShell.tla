---- MODULE MCAccountShell ----
(* Two accounts with a host each. *)
EXTENDS AccountShell, TLC

CONSTANTS ua, ub, ha, hb

HostOwner == ha :> ua @@ hb :> ub
====

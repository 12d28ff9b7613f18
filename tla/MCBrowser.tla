---- MODULE MCBrowser ----
(* Two accounts with a host each. *)
EXTENDS Browser, TLC

CONSTANTS ua, ub, ha, hb

HostOwner == ha :> ua @@ hb :> ub
====

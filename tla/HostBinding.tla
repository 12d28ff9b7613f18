---- MODULE HostBinding ----
(***************************************************************************)
(* What agent enrollment promises the owner of a host, with no tokens,     *)
(* messages or crashes: one installation at a time holds the host, it gets *)
(* there only through a revocation of its predecessor, and a current       *)
(* reading of the host is always the holder's own.                         *)
(* AgentEnrollment implements this module.                                 *)
(***************************************************************************)
CONSTANTS
  Agents,   \* agent installations
  None      \* "nobody": the empty string or NULL of the binding row

VARIABLES
  open,     \* the owner lets an agent be bound to the host
  holder,   \* the installation that may report for the host, or None
  current   \* the installation whose reading is the host's current one, or None

vars == <<open, holder, current>>

Init == open = FALSE /\ holder = None /\ current = None

Open ==
  /\ open' = TRUE
  /\ UNCHANGED <<holder, current>>

Bind(a) ==
  /\ open /\ holder = None
  /\ holder' = a
  /\ current' = None
  /\ UNCHANGED open

Report(a) ==
  /\ holder = a
  /\ current' = a
  /\ UNCHANGED <<open, holder>>

Revoke ==
  /\ open' = FALSE /\ holder' = None /\ current' = None

Next ==
  \/ Open \/ Revoke
  \/ \E a \in Agents : Bind(a) \/ Report(a)

Spec == Init /\ [][Next]_vars
====

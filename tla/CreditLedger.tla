---- MODULE CreditLedger ----
(***************************************************************************)
(* The credits of the platform's AI subscription: what the administrator's *)
(* events add to a balance, what modelCall reserves before it calls the    *)
(* provider, what settle gives back afterwards, and what a restart refunds *)
(* of the reservations nobody will settle any more.                        *)
(*                                                                         *)
(* The calls of all users run concurrently; each statement or transaction  *)
(* is one action.  Credits that an invoice adds come the same way as those *)
(* of an event and are Checkout's subject.                                 *)
(***************************************************************************)
EXTENDS Naturals, FiniteSets, Functions

CONSTANTS
  Users,
  Calls,        \* IDs of ai_usage rows
  Events,       \* IDs of credit events, chosen by the administrator
  Amounts,      \* what an event may add
  Reserves,     \* what a call may reserve: its input in bytes plus 4096
  NoUser,
  MaxRestarts   \* bound of the model

Assumptions ==
  /\ NoUser \notin Users
  /\ Amounts \subseteq Nat \ {0} /\ Reserves \subseteq Nat \ {0}
  /\ MaxRestarts \in Nat

VARIABLES
  (* the database *)
  balance,    \* credits.balance
  source,     \* the source in the AI settings of a user
  events,     \* credit_events
  usage,      \* ai_usage
  (* the server process *)
  calls,      \* where the goroutine of each call is, with the variables settle will use
  restarts

vars == <<balance, source, events, usage, calls, restarts>>

Sources  == {"byok", "subscription"}
Outcomes == {"complete", "estimated", "failed"}
Event    == [user : Users \cup {NoUser}, amount : Nat]
NoEvent  == [user |-> NoUser, amount |-> 0]
Usage    == [user : Users \cup {NoUser}, source : Sources, reserved : Nat, used : Nat,
             status : Outcomes \cup {"none", "pending", "interrupted"}]
NoUsage  == [user |-> NoUser, source |-> "byok", reserved |-> 0, used |-> 0, status |-> "none"]
Run      == [stage : {"none", "calling", "settling"}, source : Sources, used : Nat,
             status : Outcomes]
NoRun    == [stage |-> "none", source |-> "byok", used |-> 0, status |-> "failed"]

TypeOK ==
  /\ balance \in [Users -> Nat] /\ source \in [Users -> Sources]
  /\ events \in [Events -> Event] /\ usage \in [Calls -> Usage] /\ calls \in [Calls -> Run]
  /\ restarts \in 0..MaxRestarts

Init ==
  /\ balance = [u \in Users |-> 0] /\ source = [u \in Users |-> "byok"]
  /\ events = [i \in Events |-> NoEvent]
  /\ usage = [c \in Calls |-> NoUsage] /\ calls = [c \in Calls |-> NoRun]
  /\ restarts = 0

-----------------------------------------------------------------------------
AiSettingsSave(u) ==
  /\ \E s \in Sources : source' = [source EXCEPT ![u] = s]
  /\ UNCHANGED <<balance, events, usage, calls, restarts>>

\* An event that is known is answered, 200 or 409, and adds nothing.
Credit(i, u, amount) ==
  /\ IF events[i] = NoEvent
     THEN /\ events' = [events EXCEPT ![i] = [user |-> u, amount |-> amount]]
          /\ balance' = [balance EXCEPT ![u] = @ + amount]
     ELSE UNCHANGED <<events, balance>>
  /\ UNCHANGED <<source, usage, calls, restarts>>

\* Mutant: the balance is not asked whether it suffices.
ReserveUnchecked(c, u, reserve) ==
  /\ usage[c].status = "none"
  /\ balance' = IF source[u] = "subscription" THEN [balance EXCEPT ![u] = @ - reserve] ELSE balance
  /\ usage' = [usage EXCEPT ![c] = [user |-> u, source |-> source[u], reserved |-> reserve,
                                    used |-> 0, status |-> "pending"]]
  /\ calls' = [calls EXCEPT ![c] = [NoRun EXCEPT !.stage = "calling", !.source = source[u]]]
  /\ UNCHANGED <<source, events, restarts>>

\* modelCall up to the commit: the reservation and its row are one transaction.
Reserve(c, u, reserve) ==
  /\ usage[c].status = "none"
  /\ IF source[u] = "subscription"
     THEN balance[u] >= reserve /\ balance' = [balance EXCEPT ![u] = @ - reserve]
     ELSE UNCHANGED balance
  /\ usage' = [usage EXCEPT ![c] = [user |-> u, source |-> source[u], reserved |-> reserve,
                                    used |-> 0, status |-> "pending"]]
  /\ calls' = [calls EXCEPT ![c] = [NoRun EXCEPT !.stage = "calling", !.source = source[u]]]
  /\ UNCHANGED <<source, events, restarts>>

\* The provider answers: input and output tokens, each at most the reserve; no
\* usable count, for which the reserve itself is the estimate; or a failure.
Answer(c) ==
  /\ calls[c].stage = "calling"
  /\ LET reserve == usage[c].reserved IN
     \/ \E used \in 0..(2 * reserve) :
          calls' = [calls EXCEPT ![c].stage = "settling", ![c].used = used, ![c].status = "complete"]
     \/ calls' = [calls EXCEPT ![c].stage = "settling", ![c].used = reserve, ![c].status = "estimated"]
     \/ calls' = [calls EXCEPT ![c].stage = "settling"]
  /\ UNCHANGED <<balance, source, events, usage, restarts>>

AtMost(n, limit) == IF n > limit THEN limit ELSE n

\* Mutant: the refund asks the settings for the source once more.
SettleBySettings(c) ==
  /\ calls[c].stage = "settling" /\ usage[c].status = "pending"
  /\ usage' = [usage EXCEPT ![c].status = calls[c].status, ![c].used = calls[c].used]
  /\ balance' = IF source[usage[c].user] = "subscription"
                THEN [balance EXCEPT ![usage[c].user] =
                        @ + usage[c].reserved - AtMost(calls[c].used, usage[c].reserved)]
                ELSE balance
  /\ calls' = [calls EXCEPT ![c] = NoRun]
  /\ UNCHANGED <<source, events, restarts>>

\* settle: the row's end and the refund are one transaction.
Settle(c) ==
  /\ calls[c].stage = "settling" /\ usage[c].status = "pending"
  /\ usage' = [usage EXCEPT ![c].status = calls[c].status, ![c].used = calls[c].used]
  /\ balance' = IF calls[c].source = "subscription"
                THEN [balance EXCEPT ![usage[c].user] =
                        @ + (usage[c].reserved - AtMost(calls[c].used, usage[c].reserved))]
                ELSE balance
  /\ calls' = [calls EXCEPT ![c] = NoRun]
  /\ UNCHANGED <<source, events, restarts>>

\* settle's transaction fails or takes too long, and nobody tries again.
SettleFails(c) ==
  /\ calls[c].stage = "settling"
  /\ calls' = [calls EXCEPT ![c] = NoRun]
  /\ UNCHANGED <<balance, source, events, usage, restarts>>

PendingOf(u) ==
  {c \in Calls : usage[c].user = u /\ usage[c].status = "pending" /\ usage[c].source = "subscription"}
Held(u) == SumFunctionOnSet([c \in Calls |-> usage[c].reserved], PendingOf(u))

\* The process ends at any point; recoverInterrupted is one transaction, before
\* the next process serves anything.
Restart ==
  /\ restarts < MaxRestarts /\ restarts' = restarts + 1
  /\ balance' = [u \in Users |-> balance[u] + Held(u)]
  /\ usage' = [c \in Calls |-> IF usage[c].status = "pending"
                               THEN [usage[c] EXCEPT !.status = "interrupted"] ELSE usage[c]]
  /\ calls' = [c \in Calls |-> NoRun]
  /\ UNCHANGED <<source, events>>

Next ==
  \/ \E u \in Users : AiSettingsSave(u)
  \/ \E i \in Events, u \in Users, amount \in Amounts : Credit(i, u, amount)
  \/ \E c \in Calls, u \in Users, reserve \in Reserves : Reserve(c, u, reserve)
  \/ \E c \in Calls : Answer(c) \/ Settle(c) \/ SettleFails(c)
  \/ Restart

Spec == Init /\ [][Next]_vars

-----------------------------------------------------------------------------
(* Correctness *)

GrantsTo(u) == {i \in Events : events[i].user = u}
Granted(u)  == SumFunctionOnSet([i \in Events |-> events[i].amount], GrantsTo(u))
ChargedTo(u) == {c \in Calls : /\ usage[c].user = u /\ usage[c].source = "subscription"
                              /\ usage[c].status \in {"complete", "estimated"}}
Cost       == [c \in Calls |-> AtMost(usage[c].used, usage[c].reserved)]
Charged(u) == SumFunctionOnSet(Cost, ChargedTo(u))

\* No credit appears or disappears: what a user was granted, each event once, is
\* what the balance holds, what calls in progress have reserved and what finished
\* calls were charged, at most their reservation and nothing for a failure,
\* however calls, changes of the source, failing settlements and restarts
\* interleave (credit, modelCall, settle, recoverInterrupted).
Conserved == \A u \in Users : balance[u] + Held(u) + Charged(u) = Granted(u)

\* A call is accounted for once: what its row has come to is final, also for the
\* settlement and the restart that come after it (settle's and
\* recoverInterrupted's WHERE status='pending').
AccountedOnce ==
  [][\A c \in Calls : usage[c].status \notin {"none", "pending"} => usage'[c] = usage[c]]_vars
====

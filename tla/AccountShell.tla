---- MODULE AccountShell ----
(***************************************************************************)
(* The shell of the page (App.tsx, api.ts): who is logged in, what it      *)
(* shows of that account, and the flows that go on over several answers of *)
(* the server - to connect to a host, to install the agent on one          *)
(* (MonitorPage.tsx, monitoring.ts), to close a connection.  Every await   *)
(* is a step of its own: while an answer is on its way the session may     *)
(* end, the user may log out and another may log in.                       *)
(***************************************************************************)
EXTENDS Naturals

CONSTANTS
  Accounts, Hosts,
  Owner,          \* the account of each host
  Saved,          \* the hosts whose credential the server keeps
  Flows, Loads,   \* flows and requests for lists at the same time
  Sessions,       \* sessions the server can issue
  Nobody, None,
  MaxEpoch        \* how often the shell is cleared

VARIABLES
  user, epoch,    \* user and epoch.current
  visit,          \* the session in which the user was set, None without one
  list,           \* hosts, and the account for which the list was requested
  summary,        \* hosts in monitorSummary
  connections,    \* hosts of the open connections
  watched,        \* monitorHost
  temporary,      \* the flow that waits for the credential dialog
  entry, leaving, \* the requests to log in and out
  flows, loads,   \* flows, and the requests for a list or a summary
  cookie,         \* session cookie of the browser
  account, alive  \* of the server: the account of each session, those it accepts

vars == <<user, epoch, visit, list, summary, connections, watched, temporary, entry, leaving,
          flows, loads, cookie, account, alive>>
shown == <<list, summary, connections, watched>>
server == <<account, alive>>

Kinds    == {"connect", "install", "disconnect"}
InFlight == {"probing", "trusting", "opening", "closing"}

Assumptions ==
  /\ Owner \in [Hosts -> Accounts]
  /\ Saved \subseteq Hosts
  /\ Nobody \notin Accounts
  /\ None \notin Sessions \cup Hosts \cup Flows
  /\ MaxEpoch \in Nat

Request == [session |-> cookie, valid |-> cookie \in alive]
Resting == [pc |-> "idle", kind |-> "connect", host |-> None, epoch |-> 0, visit |-> None,
            request |-> [session |-> None, valid |-> FALSE]]
NoLoad  == [pc |-> "idle", owner |-> Nobody, epoch |-> 0, visit |-> None,
            request |-> [session |-> None, valid |-> FALSE]]
NoList  == [owner |-> Nobody, hosts |-> {}]
NoEntry == [pc |-> "none", account |-> Nobody, session |-> None]

OwnedBy(a) == {h \in Hosts : Owner[h] = a}

\* A dialog over the page takes every click.
Covered == temporary # None \/ \E f \in Flows : flows[f].pc = "asking"

-----------------------------------------------------------------------------
Init ==
  /\ user = Nobody /\ epoch = 0 /\ visit = None
  /\ list = NoList /\ summary = {} /\ connections = {} /\ watched = None /\ temporary = None
  /\ leaving = None
  /\ flows = [f \in Flows |-> Resting]
  /\ loads = [l \in Loads |-> NoLoad]
  /\ \/ /\ entry = NoEntry /\ cookie = None
        /\ account = [s \in Sessions |-> Nobody] /\ alive = {}
     \/ \E a \in Accounts, s \in Sessions :     \* a session of before: the page asks /me
          /\ entry = [pc |-> "asking", account |-> a, session |-> s] /\ cookie = s
          /\ account = [t \in Sessions |-> IF t = s THEN a ELSE Nobody] /\ alive = {s}

\* What logout and an expired session have in common: the flow that waits for a
\* credential gets null and ends, with it the flows in `others`.
Clear(others) ==
  /\ epoch < MaxEpoch
  /\ user' = Nobody /\ visit' = None /\ epoch' = epoch + 1
  /\ list' = NoList /\ summary' = {} /\ connections' = {} /\ watched' = None
  /\ temporary' = None
  /\ flows' = [f \in Flows |-> IF f = temporary \/ f \in others THEN Resting ELSE flows[f]]

\* An answer 401 of any request, old or new: all questions are withdrawn (cancelAll).
Expired(others) == Clear(others \cup {f \in Flows : flows[f].pc = "asking"})

-----------------------------------------------------------------------------
\* The login form, and the answers to its two requests.
Submit(a) ==
  /\ user = Nobody /\ entry = NoEntry /\ ~Covered
  /\ entry' = [NoEntry EXCEPT !.pc = "posting", !.account = a]
  /\ UNCHANGED <<user, epoch, visit, shown, temporary, leaving, flows, loads, cookie, server>>

Admit(s) ==
  /\ entry.pc = "posting" /\ account[s] = Nobody
  /\ account' = [account EXCEPT ![s] = entry.account]
  /\ alive' = alive \cup {s}
  /\ cookie' = s
  /\ entry' = [entry EXCEPT !.pc = "asking", !.session = s]
  /\ UNCHANGED <<user, epoch, visit, shown, temporary, leaving, flows, loads>>

Enter ==
  /\ entry.pc = "asking"
  /\ user' = entry.account /\ visit' = entry.session
  /\ entry' = NoEntry
  /\ UNCHANGED <<epoch, shown, temporary, leaving, flows, loads, cookie, server>>

\* A wrong password, and a session that has ended meanwhile, are answered with 401.
Refused ==
  /\ \/ entry.pc = "posting"
     \/ entry.pc = "asking" /\ entry.session \notin alive
  /\ Expired({}) /\ entry' = NoEntry
  /\ UNCHANGED <<leaving, loads, cookie, server>>

EntryFails ==
  /\ entry # NoEntry /\ entry' = NoEntry
  /\ UNCHANGED <<user, epoch, visit, shown, temporary, leaving, flows, loads, cookie, server>>

\* The logout button waits for the server, which forgets the session and the cookie.
Leave ==
  /\ user # Nobody /\ ~Covered /\ leaving = None /\ cookie # None
  /\ leaving' = cookie
  /\ UNCHANGED <<user, epoch, visit, shown, temporary, entry, flows, loads, cookie, server>>

Left ==
  /\ leaving # None
  /\ Clear({})
  /\ leaving' = None /\ cookie' = None
  /\ alive' = alive \ {leaving}
  /\ UNCHANGED <<entry, loads, account>>

LeaveFails ==
  /\ leaving # None /\ leaving' = None
  /\ UNCHANGED <<user, epoch, visit, shown, temporary, entry, flows, loads, cookie, server>>

\* External: a session runs out, or is ended from elsewhere.
SessionEnds(s) ==
  /\ s \in alive /\ alive' = alive \ {s}
  /\ UNCHANGED <<user, epoch, visit, shown, temporary, entry, leaving, flows, loads, cookie,
                 account>>

-----------------------------------------------------------------------------
\* load() and the poll of the summaries.  An answer counts if the account, and the epoch
\* or the effect that sent it, is still there.
Requested(l) ==
  loads' = [loads EXCEPT ![l] = [pc |-> "sent", owner |-> user, epoch |-> epoch,
                                 visit |-> visit, request |-> Request]]

Load(l) ==
  /\ user # Nobody /\ loads[l] = NoLoad
  /\ Requested(l)
  /\ UNCHANGED <<user, epoch, visit, shown, temporary, entry, leaving, flows, cookie, server>>

\* Mutant: an answer counts whoever asked for it.
CurrentAny(l) == TRUE

Current(l) == loads[l].owner = user /\ loads[l].epoch = epoch
Active(l)  == user # Nobody /\ loads[l].visit = visit

Loaded(l) ==
  /\ loads[l].pc = "sent" /\ loads[l].request.valid
  /\ LET answer == OwnedBy(account[loads[l].request.session])
     IN \/ /\ list' = IF Current(l) THEN [owner |-> loads[l].owner, hosts |-> answer] ELSE list
           /\ UNCHANGED summary
        \/ /\ summary' = IF Active(l) THEN answer ELSE summary
           /\ UNCHANGED list
  /\ loads' = [loads EXCEPT ![l] = NoLoad]
  /\ UNCHANGED <<user, epoch, visit, connections, watched, temporary, entry, leaving, flows,
                 cookie, server>>

LoadFails(l) ==
  /\ loads[l].pc = "sent"
  /\ loads' = [loads EXCEPT ![l] = NoLoad]
  /\ UNCHANGED <<user, epoch, visit, shown, temporary, entry, leaving, flows, cookie, server>>

LoadRefused(l) ==
  /\ loads[l].pc = "sent" /\ loads[l].request.session \notin alive
  /\ Expired({})
  /\ loads' = [loads EXCEPT ![l] = NoLoad]
  /\ UNCHANGED <<entry, leaving, cookie, server>>

-----------------------------------------------------------------------------
Sends(f, pc) == flows' = [flows EXCEPT ![f].pc = pc, ![f].request = Request]
Ends(f)      == flows' = [flows EXCEPT ![f] = Resting]

Begins(f, kind, h) ==
  /\ user # Nobody /\ ~Covered /\ flows[f] = Resting
  /\ flows' = [flows EXCEPT ![f] = [pc |-> IF kind = "disconnect" THEN "asking" ELSE "probing",
                 kind |-> kind, host |-> h, epoch |-> epoch, visit |-> visit,
                 request |-> Request]]
  /\ UNCHANGED <<user, epoch, visit, shown, temporary, entry, leaving, loads, cookie, server>>

Watch(h) ==
  /\ user # Nobody /\ ~Covered /\ h \in list.hosts
  /\ watched' = h
  /\ UNCHANGED <<user, epoch, visit, list, summary, connections, temporary, entry, leaving,
                 flows, loads, cookie, server>>

\* The buttons of a host, of a workspace (also reconnect), of the AI and monitoring pages.
Connect(f, h)    == h \in list.hosts \cup connections /\ Begins(f, "connect", h)
Install(f, h)    == h = watched /\ Begins(f, "install", h)
Disconnect(f, h) == h \in connections /\ Begins(f, "disconnect", h)

\* The rest of connect() and install() once the host is trusted: only connect() looks at
\* the epoch.  A second dialog takes the place of the first, whose flow waits for ever.
Goes(f) ==
  LET stale == flows[f].kind = "connect" /\ flows[f].epoch # epoch
      ask   == flows[f].host \notin Saved
  IN /\ CASE stale -> Ends(f)
          [] ~stale /\ ask -> flows' = [flows EXCEPT ![f].pc = "entering"]
          [] OTHER -> Sends(f, "opening")
     /\ temporary' = IF ~stale /\ ask THEN f ELSE temporary

\* The server answers to the account the host belongs to.
Answered(f) ==
  /\ flows[f].request.valid
  /\ account[flows[f].request.session] = Owner[flows[f].host]

Probed(f) ==
  /\ flows[f].pc = "probing" /\ Answered(f)
  /\ \/ Goes(f)
     \/ flows' = [flows EXCEPT ![f].pc = "asking"] /\ UNCHANGED temporary
  /\ UNCHANGED <<user, epoch, visit, shown, entry, leaving, loads, cookie, server>>

\* Mutant: the epoch is not looked at after the question.
ConfirmStale(f) ==
  /\ flows[f].pc = "asking"
  /\ Sends(f, IF flows[f].kind = "disconnect" THEN "closing" ELSE "trusting")
  /\ UNCHANGED <<user, epoch, visit, shown, temporary, entry, leaving, loads, cookie, server>>

\* The question about the fingerprint, or about closing the connection.
Confirm(f) ==
  /\ flows[f].pc = "asking"
  /\ CASE flows[f].kind = "disconnect" -> Sends(f, "closing")
       [] flows[f].kind = "connect" /\ flows[f].epoch # epoch -> Ends(f)
       [] OTHER -> Sends(f, "trusting")
  /\ UNCHANGED <<user, epoch, visit, shown, temporary, entry, leaving, loads, cookie, server>>

Decline(f) ==
  /\ flows[f].pc = "asking" /\ Ends(f)
  /\ UNCHANGED <<user, epoch, visit, shown, temporary, entry, leaving, loads, cookie, server>>

\* connect() loads the list again before it looks at the epoch, whoever is logged in.
Trusted(f) ==
  /\ flows[f].pc = "trusting" /\ Answered(f)
  /\ IF flows[f].kind = "connect"
       THEN \E l \in Loads : loads[l] = NoLoad /\ Requested(l)
       ELSE UNCHANGED loads
  /\ Goes(f)
  /\ UNCHANGED <<user, epoch, visit, shown, entry, leaving, cookie, server>>

\* TemporaryCredential, shown only to a user.
Credential(f) ==
  /\ user # Nobody /\ temporary = f
  /\ temporary' = None
  /\ \/ Ends(f)
     \/ IF flows[f].kind = "connect" /\ flows[f].epoch # epoch
          THEN Ends(f) ELSE Sends(f, "opening")
  /\ UNCHANGED <<user, epoch, visit, shown, entry, leaving, loads, cookie, server>>

\* The connection or the installation is there, or the connection is closed.
Opened(f) ==
  /\ flows[f].pc = "opening" /\ Answered(f)
  /\ connections' = IF flows[f].kind = "connect" /\ flows[f].epoch = epoch
                      THEN connections \cup {flows[f].host} ELSE connections
  /\ Ends(f)
  /\ UNCHANGED <<user, epoch, visit, list, summary, watched, temporary, entry, leaving, loads,
                 cookie, server>>

Closed(f) ==
  /\ flows[f].pc = "closing" /\ Answered(f)
  /\ connections' = connections \ {flows[f].host}
  /\ Ends(f)
  /\ UNCHANGED <<user, epoch, visit, list, summary, watched, temporary, entry, leaving, loads,
                 cookie, server>>

Fails(f) ==
  /\ flows[f].pc \in InFlight /\ Ends(f)
  /\ UNCHANGED <<user, epoch, visit, shown, temporary, entry, leaving, loads, cookie, server>>

FlowRefused(f) ==
  /\ flows[f].pc \in InFlight /\ flows[f].request.session \notin alive
  /\ Expired({f})
  /\ UNCHANGED <<entry, leaving, loads, cookie, server>>

-----------------------------------------------------------------------------
Next ==
  \/ \E a \in Accounts : Submit(a)
  \/ \E s \in Sessions : Admit(s) \/ SessionEnds(s)
  \/ Enter \/ Refused \/ EntryFails \/ Leave \/ Left \/ LeaveFails
  \/ \E l \in Loads : Load(l) \/ Loaded(l) \/ LoadFails(l) \/ LoadRefused(l)
  \/ \E h \in Hosts : Watch(h)
  \/ \E f \in Flows : \/ \E h \in Hosts : Connect(f, h) \/ Install(f, h) \/ Disconnect(f, h)
                      \/ Probed(f) \/ Confirm(f) \/ Decline(f) \/ Trusted(f) \/ Credential(f)
                      \/ Opened(f) \/ Closed(f) \/ Fails(f) \/ FlowRefused(f)

Spec == Init /\ [][Next]_vars

-----------------------------------------------------------------------------
Requests == [session : Sessions \cup {None}, valid : BOOLEAN]

TypeOK ==
  /\ user \in Accounts \cup {Nobody} /\ epoch \in 0..MaxEpoch /\ visit \in Sessions \cup {None}
  /\ list \in [owner : Accounts \cup {Nobody}, hosts : SUBSET Hosts]
  /\ summary \subseteq Hosts /\ connections \subseteq Hosts
  /\ watched \in Hosts \cup {None} /\ temporary \in Flows \cup {None}
  /\ entry \in [pc : {"none", "posting", "asking"}, account : Accounts \cup {Nobody},
                session : Sessions \cup {None}]
  /\ leaving \in Sessions \cup {None}
  /\ flows \in [Flows -> [pc : {"idle", "asking", "entering"} \cup InFlight, kind : Kinds,
                          host : Hosts \cup {None}, epoch : 0..MaxEpoch,
                          visit : Sessions \cup {None}, request : Requests]]
  /\ loads \in [Loads -> [pc : {"idle", "sent"}, owner : Accounts \cup {Nobody},
                          epoch : 0..MaxEpoch, visit : Sessions \cup {None},
                          request : Requests]]
  /\ cookie \in Sessions \cup {None}
  /\ account \in [Sessions -> Accounts \cup {Nobody}] /\ alive \subseteq Sessions

\* What the page keeps of an account goes with it: the list, the summaries and the
\* connections are the user's, however late an answer comes (App: load, poll, connect).  A
\* list requested while nobody was logged in (connect, after it has trusted a host) is of
\* the cookie's account, which need not be the next user.
NothingOfAnother ==
  /\ user = Nobody => summary = {} /\ connections = {}
  /\ user # Nobody => summary \cup connections \subseteq OwnedBy(user)
  /\ list.owner # Nobody => list.owner = user /\ list.hosts \subseteq OwnedBy(user)

\* A host is trusted and connected to in the session in which the user asked for it: the
\* flow does not go on for the next account (App: connect).
ActsForItsUser ==
  \A f \in Flows :
    flows[f].kind = "connect" /\ flows[f].pc \in {"trusting", "opening"}
      => flows[f].request.session \in {flows[f].visit, None}

\* No question and no dialog names a host of another account (App, MonitorPage).
AsksItsUser ==
  \A f \in Flows :
    flows[f].pc = "asking" \/ temporary = f => Owner[flows[f].host] = user
====

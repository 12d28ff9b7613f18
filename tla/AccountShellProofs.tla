---- MODULE AccountShellProofs ----
(***************************************************************************)
(* Proofs about AccountShell for any accounts, hosts and sessions, and any *)
(* number of flows and requests at the same time: types, and that what the *)
(* page shows and does is the user's.                                      *)
(***************************************************************************)
EXTENDS AccountShell, TLAPS

-----------------------------------------------------------------------------
(* The inductive invariant *)

\* Who is logged in came by a session of his; the cookie is still of that session, or an
\* old logout has taken it away.
VisitAgrees ==
  /\ user = Nobody => visit = None
  /\ user # Nobody => /\ entry.pc = "none" /\ visit \in Sessions /\ account[visit] = user
                      /\ cookie \in {visit, None}

\* So is who is about to be.
EntryAgrees ==
  /\ entry.pc # "none" => entry.account \in Accounts
  /\ entry.pc = "asking" => /\ entry.session \in Sessions
                            /\ account[entry.session] = entry.account
                            /\ cookie \in {entry.session, None}

\* A request for a list carries the session of the user who asked for it.
LoadsAgree ==
  \A l \in Loads :
    LET q == loads[l].request IN
    /\ q.valid => q.session \in Sessions
    /\ loads[l].owner = Nobody => loads[l].visit = None
    /\ loads[l].owner # Nobody => /\ loads[l].visit \in Sessions
                                  /\ account[loads[l].visit] = loads[l].owner
                                  /\ q.session \in {loads[l].visit, None}

\* The epoch of a flow is over, or its user is still there in the same visit; what a flow
\* to connect has sent was sent in its visit.
FlowAgrees(w) ==
  /\ w.epoch <= epoch
  /\ w.request.valid => w.request.session \in Sessions
  /\ w.pc # "idle" => /\ w.host \in Hosts
                      /\ w.epoch = epoch => user # Nobody /\ w.visit = visit
  /\ w.kind = "connect" /\ w.pc \in InFlight => w.request.session \in {w.visit, None}

FlowsAgree ==
  \A f \in Flows : FlowAgrees(flows[f]) /\ (temporary = f => flows[f].pc = "entering")

IInv == TypeOK /\ VisitAgrees /\ EntryAgrees /\ LoadsAgree /\ FlowsAgree /\ NothingOfAnother

\* The records of TypeOK, by name.
EntryRecord == [pc : {"none", "posting", "asking"}, account : Accounts \cup {Nobody},
                session : Sessions \cup {None}]
FlowRecord  == [pc : {"idle", "asking", "entering"} \cup InFlight, kind : Kinds,
                host : Hosts \cup {None}, epoch : 0..MaxEpoch,
                visit : Sessions \cup {None}, request : Requests]
LoadRecord  == [pc : {"idle", "sent"}, owner : Accounts \cup {Nobody}, epoch : 0..MaxEpoch,
                visit : Sessions \cup {None}, request : Requests]

-----------------------------------------------------------------------------
(* What nearly all steps have in common *)

LEMMA RestTyped ==
  ASSUME Assumptions
  PROVE  NoEntry \in EntryRecord /\ Resting \in FlowRecord /\ NoLoad \in LoadRecord
BY DEF Assumptions, NoEntry, Resting, NoLoad, EntryRecord, FlowRecord, LoadRecord, Requests, Kinds

\* Everything but the flows and the requests for lists.
RestOfType ==
  /\ user \in Accounts \cup {Nobody} /\ epoch \in 0..MaxEpoch /\ visit \in Sessions \cup {None}
  /\ list \in [owner : Accounts \cup {Nobody}, hosts : SUBSET Hosts]
  /\ summary \subseteq Hosts /\ connections \subseteq Hosts
  /\ watched \in Hosts \cup {None} /\ temporary \in Flows \cup {None}
  /\ entry \in EntryRecord
  /\ leaving \in Sessions \cup {None}
  /\ cookie \in Sessions \cup {None}
  /\ account \in [Sessions -> Accounts \cup {Nobody}] /\ alive \subseteq Sessions

LEMMA TypeSplit ==
  TypeOK <=> RestOfType /\ flows \in [Flows -> FlowRecord] /\ loads \in [Loads -> LoadRecord]
BY DEF TypeOK, RestOfType, EntryRecord, FlowRecord, LoadRecord

LEMMA TypeSplitNext ==
  TypeOK' <=> RestOfType' /\ flows' \in [Flows -> FlowRecord] /\ loads' \in [Loads -> LoadRecord]
BY DEF TypeOK, RestOfType, EntryRecord, FlowRecord, LoadRecord

-----------------------------------------------------------------------------
LEMMA InitHolds == ASSUME Assumptions, Init PROVE IInv
<1> USE DEF Assumptions, Init, NoEntry, NoList, NoLoad, Resting, Requests, Kinds, InFlight
<1>1. TypeOK
  <2>1. /\ user \in Accounts \cup {Nobody} /\ epoch \in 0..MaxEpoch
        /\ list \in [owner : Accounts \cup {Nobody}, hosts : SUBSET Hosts]
    OBVIOUS
  <2>2. entry \in EntryRecord /\ cookie \in Sessions \cup {None}
    BY DEF EntryRecord
  <2>3. account \in [Sessions -> Accounts \cup {Nobody}] /\ alive \subseteq Sessions
    OBVIOUS
  <2>4. RestOfType
    BY <2>1, <2>2, <2>3 DEF RestOfType
  <2>5. flows \in [Flows -> FlowRecord] /\ loads \in [Loads -> LoadRecord]
    BY RestTyped
  <2> QED BY <2>4, <2>5, TypeSplit
<1>2. VisitAgrees /\ EntryAgrees /\ NothingOfAnother
  BY DEF VisitAgrees, EntryAgrees, NothingOfAnother
<1>3. LoadsAgree
  BY DEF LoadsAgree
<1>4. FlowsAgree
  BY DEF FlowsAgree, FlowAgrees
<1> QED BY <1>1, <1>2, <1>3, <1>4 DEF IInv

\* What is cleared belongs to nobody, and no flow is of the new epoch.
LEMMA ClearKeeps ==
  ASSUME Assumptions, IInv, NEW others \in SUBSET Flows, Clear(others),
         entry' \in {entry, NoEntry}, UNCHANGED account,
         cookie' \in {cookie, None}, alive' \subseteq alive, leaving' \in {leaving, None},
         \/ UNCHANGED loads
         \/ \E l \in Loads : loads' = [loads EXCEPT ![l] = NoLoad]
  PROVE  IInv'
<1>1. RestOfType /\ flows \in [Flows -> FlowRecord] /\ loads \in [Loads -> LoadRecord]
  BY TypeSplit DEF IInv
<1>2. /\ NoEntry \in EntryRecord /\ Resting \in FlowRecord /\ NoLoad \in LoadRecord
      /\ NoEntry.pc = "none"
      /\ ~NoLoad.request.valid /\ NoLoad.owner = Nobody /\ NoLoad.visit = None
      /\ Resting.epoch = 0 /\ ~Resting.request.valid /\ Resting.pc = "idle"
  BY RestTyped DEF NoEntry, NoLoad, Resting
<1>3. flows' \in [Flows -> FlowRecord]
  BY <1>1, <1>2 DEF Clear
<1>4. loads' \in [Loads -> LoadRecord]
  BY <1>1, <1>2
<1>5. RestOfType'
  <2>1. epoch' \in 0..MaxEpoch
    BY <1>1 DEF Clear, RestOfType, Assumptions
  <2>2. list' \in [owner : Accounts \cup {Nobody}, hosts : SUBSET Hosts]
    BY DEF Clear, NoList
  <2> QED BY <1>1, <1>2, <2>1, <2>2 DEF Clear, RestOfType
<1>6. TypeOK'
  BY <1>3, <1>4, <1>5, TypeSplitNext
<1>7. VisitAgrees' /\ EntryAgrees'
  BY <1>1, <1>2 DEF IInv, Clear, VisitAgrees, EntryAgrees
<1>8. LoadsAgree'
  BY <1>1, <1>2 DEF IInv, LoadsAgree
<1>9. FlowsAgree'
  <2> SUFFICES ASSUME NEW f \in Flows PROVE FlowAgrees(flows[f])' /\ temporary' # f
    BY DEF FlowsAgree
  <2>1. temporary' # f
    BY DEF Clear, Assumptions
  <2>2. epoch' = epoch + 1 /\ epoch \in Nat
    BY <1>1 DEF Clear, RestOfType
  <2>3. CASE flows'[f] = Resting
    BY <1>2, <2>1, <2>2, <2>3 DEF FlowAgrees, InFlight
  <2>4. CASE flows'[f] = flows[f]
    <3>1. FlowAgrees(flows[f]) /\ flows[f].epoch \in Nat
      BY <1>1 DEF IInv, FlowsAgree, FlowRecord
    <3> QED BY <2>1, <2>2, <2>4, <3>1 DEF FlowAgrees
  <2> QED BY <1>1, <2>1, <2>3, <2>4 DEF Clear
<1>10. NothingOfAnother'
  BY DEF NothingOfAnother, Clear, NoList
<1> QED BY <1>6, <1>7, <1>8, <1>9, <1>10 DEF IInv

-----------------------------------------------------------------------------
(* Logging in and out *)

LEMMA EntryKeeps ==
  ASSUME Assumptions, IInv,
         \/ \E a \in Accounts : Submit(a)
         \/ \E s \in Sessions : Admit(s) \/ SessionEnds(s)
         \/ Enter \/ EntryFails \/ Leave \/ LeaveFails
  PROVE  IInv'
<1>1. RestOfType /\ flows \in [Flows -> FlowRecord] /\ loads \in [Loads -> LoadRecord]
  BY TypeSplit DEF IInv
<1>2. UNCHANGED <<flows, loads, list, summary, connections, temporary, epoch>>
  BY DEF Submit, Admit, SessionEnds, Enter, EntryFails, Leave, LeaveFails, shown, server
<1>3. RestOfType'
  BY <1>1, <1>2, RestTyped DEF RestOfType, EntryRecord, NoEntry, Submit, Admit, SessionEnds,
     Enter, EntryFails, Leave, LeaveFails, shown, server
<1>4. TypeOK'
  BY <1>1, <1>2, <1>3, TypeSplitNext
<1>5. \A s \in Sessions : account[s] # Nobody => account'[s] = account[s]
  BY <1>1 DEF RestOfType, Submit, Admit, SessionEnds, Enter, EntryFails, Leave, LeaveFails, server
<1>6. user = user' \/ (user = Nobody /\ user' = entry.account /\ Enter)
  BY DEF IInv, VisitAgrees, Submit, Admit, SessionEnds, Enter, EntryFails, Leave, LeaveFails
<1>7. VisitAgrees' /\ EntryAgrees'
  <2>1. NoEntry.pc = "none"
    BY DEF NoEntry
  <2> USE <1>1, <1>5, <2>1 DEF IInv, VisitAgrees, EntryAgrees, RestOfType, EntryRecord, Assumptions
  <2>2. ASSUME NEW a \in Accounts, Submit(a) PROVE VisitAgrees' /\ EntryAgrees'
    BY <2>2 DEF Submit, NoEntry, server
  <2>3. ASSUME NEW s \in Sessions, Admit(s) PROVE VisitAgrees' /\ EntryAgrees'
    BY <2>3 DEF Admit
  <2>4. CASE Enter
    BY <2>4 DEF Enter, server
  <2>5. CASE EntryFails
    BY <2>5 DEF EntryFails, server
  <2>6. CASE Leave \/ LeaveFails \/ \E s \in Sessions : SessionEnds(s)
    BY <2>6 DEF Leave, LeaveFails, SessionEnds, server
  <2> QED BY <2>2, <2>3, <2>4, <2>5, <2>6
<1>8. LoadsAgree'
  BY <1>1, <1>2, <1>5 DEF IInv, LoadsAgree, LoadRecord
<1>9. FlowsAgree'
  <2>1. CASE UNCHANGED <<user, visit>>
    BY <1>2, <2>1 DEF IInv, FlowsAgree, FlowAgrees
  <2>2. CASE Enter
    BY <1>2, <1>6, <2>2 DEF IInv, VisitAgrees, FlowsAgree, FlowAgrees, Enter
  <2> QED BY <2>1, <2>2 DEF Submit, Admit, SessionEnds, EntryFails, Leave, LeaveFails
<1>10. NothingOfAnother'
  BY <1>2, <1>6 DEF IInv, NothingOfAnother
<1> QED BY <1>4, <1>7, <1>8, <1>9, <1>10 DEF IInv

LEMMA Cleared ==
  ASSUME Assumptions, IInv,
         \/ Refused \/ Left
         \/ \E l \in Loads : LoadRefused(l)
         \/ \E f \in Flows : FlowRefused(f)
  PROVE  IInv'
<1>1. CASE Refused
  BY <1>1, ClearKeeps DEF Refused, Expired, server
<1>2. CASE Left
  BY <1>2, ClearKeeps DEF Left
<1>3. ASSUME NEW l \in Loads, LoadRefused(l) PROVE IInv'
  BY <1>3, ClearKeeps DEF LoadRefused, Expired, server
<1>4. ASSUME NEW f \in Flows, FlowRefused(f) PROVE IInv'
  BY <1>4, ClearKeeps DEF FlowRefused, Expired, server
<1> QED BY <1>1, <1>2, <1>3, <1>4

-----------------------------------------------------------------------------
(* Requests for lists *)

\* A request that is sent is the user's, if there is one.
LEMMA RequestAgrees ==
  ASSUME Assumptions, IInv
  PROVE  /\ Request \in Requests
         /\ Request.valid => Request.session \in Sessions
         /\ user # Nobody => Request.session \in {visit, None}
<1>1. cookie \in Sessions \cup {None} /\ alive \subseteq Sessions
  BY DEF IInv, TypeOK
<1>2. (cookie \in alive) \in BOOLEAN
  OBVIOUS
<1>3. Request \in Requests
  BY <1>1, <1>2 DEF Request, Requests
<1>4. Request.session = cookie /\ (Request.valid <=> cookie \in alive)
  BY DEF Request
<1> QED BY <1>1, <1>3, <1>4 DEF IInv, VisitAgrees

LEMMA RequestedKeeps ==
  ASSUME Assumptions, IInv, NEW l \in Loads, Requested(l), UNCHANGED account
  PROVE  loads' \in [Loads -> LoadRecord] /\ LoadsAgree'
<1>1. RestOfType /\ loads \in [Loads -> LoadRecord]
  BY TypeSplit DEF IInv
<1>2. loads' \in [Loads -> LoadRecord]
  BY <1>1, RequestAgrees DEF Requested, LoadRecord, RestOfType
<1>3. LoadsAgree'
  BY <1>1, RequestAgrees DEF IInv, LoadsAgree, Requested, VisitAgrees
<1> QED BY <1>2, <1>3

LEMMA ListsKeep ==
  ASSUME Assumptions, IInv, NEW l \in Loads, Load(l) \/ Loaded(l) \/ LoadFails(l)
  PROVE  IInv'
<1>1. RestOfType /\ flows \in [Flows -> FlowRecord] /\ loads \in [Loads -> LoadRecord]
  BY TypeSplit DEF IInv
<1>2. UNCHANGED <<user, epoch, visit, connections, watched, temporary, entry, leaving, flows,
                  cookie, account, alive>>
  BY DEF Load, Loaded, LoadFails, shown, server
<1>3. loads' \in [Loads -> LoadRecord] /\ LoadsAgree'
  <2>1. CASE Load(l)
    BY <1>2, <2>1, RequestedKeeps DEF Load
  <2>2. CASE loads' = [loads EXCEPT ![l] = NoLoad]
    BY <1>1, <1>2, <2>2, RestTyped DEF IInv, LoadsAgree, NoLoad
  <2> QED BY <2>1, <2>2 DEF Loaded, LoadFails
<1>4. VisitAgrees' /\ EntryAgrees' /\ FlowsAgree'
  BY <1>2 DEF IInv, VisitAgrees, EntryAgrees, FlowsAgree, FlowAgrees
<1>5. RestOfType' /\ NothingOfAnother'
  <2>1. CASE UNCHANGED <<list, summary>>
    BY <1>1, <1>2, <2>1 DEF IInv, RestOfType, NothingOfAnother
  <2>2. CASE Loaded(l)
    <3> DEFINE s == loads[l].request.session
    <3>1. s \in Sessions /\ loads[l] \in LoadRecord
      BY <1>1, <2>2 DEF IInv, LoadsAgree, Loaded
    <3>2. loads[l].owner # Nobody => account[s] = loads[l].owner
      BY <3>1 DEF IInv, LoadsAgree, Assumptions
    <3>3. Active(l) => user # Nobody /\ account[s] = user
      BY <3>1, <3>2 DEF IInv, VisitAgrees, LoadsAgree, Active, Assumptions
    <3>4. OwnedBy(account[s]) \subseteq Hosts
      BY DEF OwnedBy
    <3>5. CASE UNCHANGED list /\ summary' = IF Active(l) THEN OwnedBy(account[s]) ELSE summary
      BY <1>1, <1>2, <3>3, <3>4, <3>5 DEF IInv, RestOfType, NothingOfAnother
    <3>6. CASE UNCHANGED summary /\ list' = IF Current(l)
                 THEN [owner |-> loads[l].owner, hosts |-> OwnedBy(account[s])] ELSE list
      BY <1>1, <1>2, <3>1, <3>2, <3>4, <3>6 DEF IInv, RestOfType, NothingOfAnother, Current,
         LoadRecord
    <3> QED BY <2>2, <3>5, <3>6 DEF Loaded
  <2> QED BY <2>1, <2>2 DEF Load, LoadFails, shown
<1> QED BY <1>1, <1>2, <1>3, <1>4, <1>5, TypeSplitNext DEF IInv

-----------------------------------------------------------------------------
(* Flows *)

\* A flow that goes on, or ends, as the same user's.
LEMMA FlowKeeps ==
  ASSUME Assumptions, IInv, NEW f \in Flows, NEW w \in FlowRecord,
         flows' = [flows EXCEPT ![f] = w], FlowAgrees(w),
         temporary' = f => w.pc = "entering",
         temporary' \in {temporary, f, None},
         UNCHANGED <<user, epoch, visit, list, summary, watched, entry, leaving, cookie,
                     account, alive>>,
         connections' \subseteq Hosts,
         connections' \subseteq connections \cup (IF user = Nobody THEN {} ELSE OwnedBy(user)),
         loads' \in [Loads -> LoadRecord], LoadsAgree'
  PROVE  IInv'
<1>1. RestOfType /\ flows \in [Flows -> FlowRecord]
  BY TypeSplit DEF IInv
<1>2. flows' \in [Flows -> FlowRecord]
  BY <1>1
<1>3. RestOfType'
  BY <1>1 DEF RestOfType
<1>4. VisitAgrees' /\ EntryAgrees'
  BY DEF IInv, VisitAgrees, EntryAgrees
<1>5. NothingOfAnother'
  BY DEF IInv, NothingOfAnother
<1>6. FlowsAgree'
  <2> SUFFICES ASSUME NEW g \in Flows
               PROVE  FlowAgrees(flows[g])' /\ (temporary' = g => flows'[g].pc = "entering")
    BY DEF FlowsAgree
  <2>1. CASE g = f
    BY <1>1, <2>1 DEF FlowAgrees
  <2>2. CASE g # f
    <3>1. flows'[g] = flows[g] /\ FlowAgrees(flows[g])
      BY <1>1, <2>2 DEF IInv, FlowsAgree
    <3>2. temporary' = g => temporary = g
      BY <1>1, <2>2 DEF Assumptions
    <3> QED BY <3>1, <3>2 DEF IInv, FlowsAgree, FlowAgrees
  <2> QED BY <2>1, <2>2
<1> QED BY <1>2, <1>3, <1>4, <1>5, <1>6, TypeSplitNext DEF IInv

LEMMA RestAgrees == ASSUME Assumptions, IInv PROVE Resting \in FlowRecord /\ FlowAgrees(Resting)
<1>1. epoch \in Nat
  BY DEF IInv, TypeOK
<1> QED BY <1>1, RestTyped DEF FlowAgrees, Resting, InFlight

\* A flow that sends its next request: to connect, only in its epoch.
LEMMA SendsAgrees ==
  ASSUME Assumptions, IInv, NEW f \in Flows, NEW pc \in InFlight, flows[f].pc # "idle",
         flows[f].kind = "connect" => flows[f].epoch = epoch
  PROVE  LET w == [flows[f] EXCEPT !.pc = pc, !.request = Request]
         IN w \in FlowRecord /\ FlowAgrees(w) /\ w.pc = pc
<1> DEFINE w == [flows[f] EXCEPT !.pc = pc, !.request = Request]
<1>1. flows[f] \in FlowRecord /\ FlowAgrees(flows[f])
  BY TypeSplit DEF IInv, FlowsAgree
<1>2. w \in FlowRecord
  BY <1>1, RequestAgrees DEF FlowRecord
<1>3. /\ w.pc = pc /\ w.request = Request /\ w.epoch = flows[f].epoch /\ w.host = flows[f].host
      /\ w.visit = flows[f].visit /\ w.kind = flows[f].kind
  BY <1>1 DEF FlowRecord
<1>4. FlowAgrees(w)
  BY <1>1, <1>3, RequestAgrees DEF FlowAgrees
<1> QED BY <1>2, <1>3, <1>4

\* The flow after the host is trusted: it ends, asks for a credential, or goes on.
LEMMA GoesAgrees ==
  ASSUME Assumptions, IInv, NEW f \in Flows, flows[f].pc \in {"probing", "trusting"}, Goes(f)
  PROVE  \E w \in FlowRecord :
           /\ flows' = [flows EXCEPT ![f] = w]
           /\ FlowAgrees(w)
           /\ temporary' \in {temporary, f}
           /\ temporary' = f => w.pc = "entering"
<1> DEFINE stale == flows[f].kind = "connect" /\ flows[f].epoch # epoch
           ask   == flows[f].host \notin Saved
<1>1. /\ flows \in [Flows -> FlowRecord] /\ flows[f] \in FlowRecord /\ FlowAgrees(flows[f])
      /\ temporary # f
  BY TypeSplit DEF IInv, FlowsAgree
<1>2. CASE stale
  <2>1. flows' = [flows EXCEPT ![f] = Resting] /\ temporary' = temporary
    BY <1>2 DEF Goes, Ends
  <2> QED BY <1>1, <2>1, RestAgrees
<1>3. CASE ~stale /\ ask
  <2> DEFINE w == [flows[f] EXCEPT !.pc = "entering"]
  <2>1. flows' = [flows EXCEPT ![f] = w] /\ temporary' = f
    BY <1>1, <1>3 DEF Goes
  <2>2. w \in FlowRecord /\ w.pc = "entering"
    BY <1>1 DEF FlowRecord
  <2>3. FlowAgrees(w)
    BY <1>1 DEF FlowAgrees, FlowRecord, InFlight
  <2> QED BY <2>1, <2>2, <2>3
<1>4. CASE ~stale /\ ~ask
  <2> DEFINE w == [flows[f] EXCEPT !.pc = "opening", !.request = Request]
  <2>1. flows' = [flows EXCEPT ![f] = w] /\ temporary' = temporary
    BY <1>1, <1>4 DEF Goes, Sends
  <2>2. w \in FlowRecord /\ FlowAgrees(w)
    BY <1>1, <1>4, SendsAgrees DEF InFlight
  <2> QED BY <1>1, <2>1, <2>2
<1> QED BY <1>2, <1>3, <1>4

\* A step of a flow alone.
LEMMA FlowAlone ==
  ASSUME Assumptions, IInv, NEW f \in Flows, NEW w \in FlowRecord,
         flows' = [flows EXCEPT ![f] = w], FlowAgrees(w),
         temporary' = f => w.pc = "entering",
         temporary' \in {temporary, f, None},
         UNCHANGED <<user, epoch, visit, list, summary, connections, watched, entry, leaving,
                     cookie, account, alive, loads>>
  PROVE  IInv'
<1>1. loads' \in [Loads -> LoadRecord] /\ LoadsAgree' /\ connections' \subseteq Hosts
  BY TypeSplit DEF IInv, LoadsAgree, RestOfType
<1> QED BY <1>1, FlowKeeps

LEMMA BeginsKeeps ==
  ASSUME Assumptions, IInv, NEW f \in Flows, NEW h \in Hosts,
         Connect(f, h) \/ Install(f, h) \/ Disconnect(f, h)
  PROVE  IInv'
<1>1. PICK kind \in Kinds : Begins(f, kind, h)
  BY DEF Connect, Install, Disconnect, Kinds
<1> DEFINE w == [pc |-> IF kind = "disconnect" THEN "asking" ELSE "probing", kind |-> kind,
                 host |-> h, epoch |-> epoch, visit |-> visit, request |-> Request]
<1>2. flows' = [flows EXCEPT ![f] = w]
  BY <1>1 DEF Begins
<1>3. RestOfType /\ temporary # f
  BY <1>1, TypeSplit DEF IInv, FlowsAgree, Begins, Resting
<1>4. w \in FlowRecord
  BY <1>3, RequestAgrees DEF RestOfType, FlowRecord, InFlight
<1>5. FlowAgrees(w)
  BY <1>1, <1>3, RequestAgrees DEF FlowAgrees, Begins, RestOfType, InFlight
<1> HIDE DEF w
<1> QED BY <1>1, <1>2, <1>3, <1>4, <1>5, FlowAlone DEF Begins, shown, server

LEMMA WatchKeeps == ASSUME Assumptions, IInv, NEW h \in Hosts, Watch(h) PROVE IInv'
<1>1. RestOfType'
  BY TypeSplit DEF IInv, RestOfType, Watch, server
<1>2. UNCHANGED <<user, epoch, visit, list, summary, connections, temporary, entry, flows, loads,
                  cookie, account>>
  BY DEF Watch, server
<1>3. TypeOK'
  BY <1>1, <1>2, TypeSplit, TypeSplitNext DEF IInv
<1> QED BY <1>2, <1>3 DEF IInv, VisitAgrees, EntryAgrees, LoadsAgree, FlowsAgree, FlowAgrees,
                          NothingOfAnother

LEMMA ProbedKeeps == ASSUME Assumptions, IInv, NEW f \in Flows, Probed(f) PROVE IInv'
<1>1. flows \in [Flows -> FlowRecord] /\ FlowAgrees(flows[f]) /\ temporary # f
  BY TypeSplit DEF IInv, FlowsAgree, Probed
<1>2. CASE Goes(f)
  <2>1. PICK w \in FlowRecord : /\ flows' = [flows EXCEPT ![f] = w]
                                /\ FlowAgrees(w)
                                /\ temporary' \in {temporary, f}
                                /\ temporary' = f => w.pc = "entering"
    BY <1>2, GoesAgrees DEF Probed
  <2> QED BY <2>1, FlowAlone DEF Probed, shown, server
<1>3. CASE flows' = [flows EXCEPT ![f].pc = "asking"] /\ UNCHANGED temporary
  <2> DEFINE w == [flows[f] EXCEPT !.pc = "asking"]
  <2>1. flows' = [flows EXCEPT ![f] = w] /\ w \in FlowRecord
    BY <1>1, <1>3 DEF FlowRecord
  <2>2. FlowAgrees(w)
    BY <1>1 DEF FlowAgrees, FlowRecord, InFlight, Probed
  <2> HIDE DEF w
  <2> QED BY <1>1, <1>3, <2>1, <2>2, FlowAlone DEF Probed, shown, server
<1> QED BY <1>2, <1>3 DEF Probed

\* A flow that ends, with or without the dialog for its credential.
LEMMA EndsKeeps ==
  ASSUME Assumptions, IInv, NEW f \in Flows, Ends(f), temporary' # f,
         temporary' \in {temporary, None},
         UNCHANGED <<user, epoch, visit, list, summary, connections, watched, entry, leaving,
                     cookie, account, alive, loads>>
  PROVE  IInv'
BY RestAgrees, FlowAlone DEF Ends

\* A flow that sends a request, after its question or its dialog.
LEMMA SendsKeeps ==
  ASSUME Assumptions, IInv, NEW f \in Flows, NEW pc \in InFlight, Sends(f, pc),
         flows[f].pc # "idle", flows[f].kind = "connect" => flows[f].epoch = epoch,
         temporary' # f, temporary' \in {temporary, None},
         UNCHANGED <<user, epoch, visit, list, summary, connections, watched, entry, leaving,
                     cookie, account, alive, loads>>
  PROVE  IInv'
<1> DEFINE w == [flows[f] EXCEPT !.pc = pc, !.request = Request]
<1>1. flows' = [flows EXCEPT ![f] = w]
  BY TypeSplit DEF IInv, Sends
<1>2. w \in FlowRecord /\ FlowAgrees(w)
  BY SendsAgrees
<1> HIDE DEF w
<1> QED BY <1>1, <1>2, FlowAlone

LEMMA QuestionKeeps ==
  ASSUME Assumptions, IInv, NEW f \in Flows, Confirm(f) \/ Decline(f) \/ Credential(f)
  PROVE  IInv'
<1>1. flows[f].pc = "asking" => temporary # f
  BY DEF IInv, FlowsAgree
<1>2. temporary = f => flows[f].pc = "entering" /\ None # f
  BY DEF IInv, FlowsAgree, Assumptions
<1>3. CASE Decline(f)
  BY <1>1, <1>3, EndsKeeps DEF Decline, shown, server
<1>4. CASE Confirm(f)
  <2>1. CASE flows[f].kind = "disconnect"
    BY <1>1, <1>4, <2>1, SendsKeeps DEF Confirm, shown, server, InFlight
  <2>2. CASE flows[f].kind = "connect" /\ flows[f].epoch # epoch
    BY <1>1, <1>4, <2>2, EndsKeeps DEF Confirm, shown, server
  <2>3. CASE flows[f].kind # "disconnect" /\ (flows[f].kind = "connect" => flows[f].epoch = epoch)
    <3>1. Sends(f, "trusting")
      BY <1>4, <2>3 DEF Confirm
    <3> QED BY <1>1, <1>4, <2>3, <3>1, SendsKeeps DEF Confirm, shown, server, InFlight
  <2> QED BY <2>1, <2>2, <2>3
<1>5. CASE Credential(f)
  <2>1. CASE Ends(f)
    BY <1>2, <1>5, <2>1, EndsKeeps DEF Credential, shown, server
  <2>2. CASE Sends(f, "opening") /\ (flows[f].kind = "connect" => flows[f].epoch = epoch)
    BY <1>2, <1>5, <2>2, SendsKeeps DEF Credential, shown, server, InFlight
  <2> QED BY <1>5, <2>1, <2>2 DEF Credential
<1> QED BY <1>3, <1>4, <1>5

\* The list that connect() asks for after it has trusted the host.
LEMMA TrustedKeeps == ASSUME Assumptions, IInv, NEW f \in Flows, Trusted(f) PROVE IInv'
<1>1. PICK w \in FlowRecord : /\ flows' = [flows EXCEPT ![f] = w]
                              /\ FlowAgrees(w)
                              /\ temporary' \in {temporary, f}
                              /\ temporary' = f => w.pc = "entering"
  BY GoesAgrees DEF Trusted
<1>2. loads' \in [Loads -> LoadRecord] /\ LoadsAgree'
  <2>1. CASE UNCHANGED loads
    BY <2>1, TypeSplit DEF IInv, LoadsAgree, Trusted, server
  <2>2. ASSUME NEW l \in Loads, Requested(l) PROVE loads' \in [Loads -> LoadRecord] /\ LoadsAgree'
    BY <2>2, RequestedKeeps DEF Trusted, server
  <2> QED BY <2>1, <2>2 DEF Trusted
<1>3. connections' \subseteq Hosts
  BY DEF IInv, TypeOK, Trusted, shown
<1> QED BY <1>1, <1>2, <1>3, FlowKeeps DEF Trusted, shown, server

\* What is opened for the page was asked for in this visit, so it is the user's.
LEMMA AnswerKeeps ==
  ASSUME Assumptions, IInv, NEW f \in Flows, Opened(f) \/ Closed(f) \/ Fails(f)
  PROVE  IInv'
<1>1. FlowAgrees(flows[f]) /\ flows[f].pc \in InFlight /\ temporary # f
  BY DEF IInv, FlowsAgree, Opened, Closed, Fails, InFlight
<1>2. flows' = [flows EXCEPT ![f] = Resting]
  BY DEF Opened, Closed, Fails, Ends
<1>3. connections \subseteq Hosts
  BY DEF IInv, TypeOK
<1>4. /\ connections' \subseteq Hosts
      /\ connections' \subseteq connections \cup (IF user = Nobody THEN {} ELSE OwnedBy(user))
  <2>1. CASE connections' \subseteq connections
    BY <1>3, <2>1
  <2>2. CASE /\ Opened(f) /\ flows[f].kind = "connect" /\ flows[f].epoch = epoch
             /\ connections' = connections \cup {flows[f].host}
    <3>1. user # Nobody /\ flows[f].visit = visit /\ flows[f].host \in Hosts
      BY <1>1, <2>2 DEF FlowAgrees, InFlight
    <3>2. flows[f].request.session = visit
      BY <1>1, <2>2, <3>1 DEF FlowAgrees, Opened, Answered, Assumptions
    <3>3. Owner[flows[f].host] = user
      BY <2>2, <3>1, <3>2 DEF IInv, VisitAgrees, Opened, Answered
    <3> QED BY <1>3, <2>2, <3>1, <3>3 DEF OwnedBy
  <2> QED BY <2>1, <2>2 DEF Opened, Closed, Fails, shown
<1>5. loads' \in [Loads -> LoadRecord] /\ LoadsAgree'
  BY TypeSplit DEF IInv, LoadsAgree, Opened, Closed, Fails, server
<1> QED BY <1>1, <1>2, <1>4, <1>5, RestAgrees, FlowKeeps DEF Opened, Closed, Fails, shown, server

-----------------------------------------------------------------------------
(* The theorems *)

LEMMA NextKeeps == ASSUME Assumptions, IInv, [Next]_vars PROVE IInv'
<1>1. CASE Next
  BY <1>1, EntryKeeps, Cleared, ListsKeep, WatchKeeps, BeginsKeeps, ProbedKeeps, QuestionKeeps,
     TrustedKeeps, AnswerKeeps DEF Next
<1>2. CASE UNCHANGED vars
  <2>1. TypeOK'
    BY <1>2 DEF IInv, TypeOK, vars
  <2> QED BY <1>2, <2>1 DEF IInv, VisitAgrees, EntryAgrees, LoadsAgree, FlowsAgree, FlowAgrees,
                            NothingOfAnother, vars
<1> QED BY <1>1, <1>2

\* The inductive invariant holds: requests and flows carry the session of their user, and
\* a flow whose epoch is not over is the present user's (App: connect, load).
THEOREM Invariant == ASSUME Assumptions PROVE Spec => []IInv
<1>1. Init => IInv
  BY InitHolds
<1>2. IInv /\ [Next]_vars => IInv'
  BY NextKeeps
<1> QED BY <1>1, <1>2, PTL DEF Spec

\* Every variable of the shell keeps its type.
THEOREM TypeCorrect == ASSUME Assumptions PROVE Spec => []TypeOK
<1>1. IInv => TypeOK
  BY DEF IInv
<1> QED BY <1>1, Invariant, PTL

\* Nothing of one account is left for the next, however late the answers of its requests
\* come (App: load, poll, connect).
THEOREM ListsAreTheUsers == ASSUME Assumptions PROVE Spec => []NothingOfAnother
<1>1. IInv => NothingOfAnother
  BY DEF IInv
<1> QED BY <1>1, Invariant, PTL

\* A host is trusted and connected to in the session in which the user asked for it
\* (App: connect).
THEOREM FlowsAreTheUsers == ASSUME Assumptions PROVE Spec => []ActsForItsUser
<1>1. IInv => ActsForItsUser
  BY DEF IInv, FlowsAgree, FlowAgrees, ActsForItsUser, InFlight
<1> QED BY <1>1, Invariant, PTL
====

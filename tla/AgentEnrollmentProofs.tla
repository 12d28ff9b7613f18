---- MODULE AgentEnrollmentProofs ----
(***************************************************************************)
(* Proofs about AgentEnrollment for any sets of installations and secrets: *)
(* type correctness, one holder of an accepted credential, no current      *)
(* reading without a live credential, no lock-out by rotation, and that    *)
(* enrollment implements HostBinding.                                      *)
(***************************************************************************)
EXTENDS AgentEnrollment, TLAPS

(* An abandoned call is a call. *)
LEMMA AbandonTyped ==
  ASSUME TypeOK, NEW a \in Agents, Abandon(a)
  PROVE  requests' \subseteq Request /\ reply' \in [Agents -> Reply]
<1>1. requests' \subseteq Request
  <2> SUFFICES ASSUME NEW n \in requests' PROVE n \in Request
    OBVIOUS
  <2>1. PICK m \in requests :
          n = IF m.agent = a THEN [m EXCEPT !.wanted = FALSE] ELSE m
    BY DEF Abandon
  <2> QED BY <2>1 DEF TypeOK, Request
<1>2. reply' \in [Agents -> Reply]
  BY DEF TypeOK, Abandon, Reply, NoReply, Maybe
<1> QED BY <1>1, <1>2

(* A call of the running process is a call. *)
LEMMA CallTyped ==
  ASSUME TypeOK, NEW a \in Agents, NEW kind \in {"register", "report"},
         NEW secret \in Secrets, Call(a, kind, secret)
  PROVE  TypeOK'
<1> DEFINE call == [agent |-> a, kind |-> kind, secret |-> secret,
                   identified |-> FALSE, wanted |-> TRUE]
<1>1. call \in Request
  BY DEF Request
<1>2. requests' \subseteq Request
  BY <1>1 DEF TypeOK, Call
<1>3. pc' \in [Agents -> Stages]
  BY DEF TypeOK, Call, Stages
<1> QED BY <1>2, <1>3 DEF TypeOK, Call, serverVars, tokenVars

(* Every variable keeps its type in every step. *)
LEMMA TypeStep == TypeOK /\ [Next]_vars => TypeOK'
<1> SUFFICES ASSUME TypeOK, [Next]_vars PROVE TypeOK'
  OBVIOUS
<1> USE NoneAssumption DEF Maybe, serverVars, tokenVars, agentVars, callVars
<1>1. CASE Owner
  BY <1>1 DEF Owner, TypeOK, AgentEnable, AgentRegistration, AgentDisable, AgentRotate,
              ExpireRegistration
<1>2. ASSUME NEW m \in requests, Handle(m) PROVE TypeOK'
  <2>1. CASE AgentRegister(m)
    BY <2>1 DEF TypeOK, AgentRegister, Answer, Taken, Reply, Request
  <2>2. CASE AgentIdentity(m)
    BY <2>2 DEF TypeOK, AgentIdentity, Request
  <2>3. CASE Refuse(m)
    BY <2>3 DEF TypeOK, Refuse, Answer, Taken, Reply, Request
  <2>4. CASE LoseRequest(m)
    BY <2>4 DEF TypeOK, LoseRequest
  <2>5. ASSUME NEW sample \in BOOLEAN, NEW fresh \in BOOLEAN, IngestAgent(m, sample, fresh)
        PROVE  TypeOK'
    BY <2>5 DEF TypeOK, IngestAgent, Answer, Taken, Reply, Request
  <2> QED BY <1>2, <2>1, <2>2, <2>3, <2>4, <2>5 DEF Handle
<1>3. ASSUME NEW a \in Agents, AgentStep(a) PROVE TypeOK'
  <2> USE DEF Stages, Config, Blank
  <2>1. CASE \E t \in handedOut : Install(a, t)
    BY <2>1 DEF TypeOK, Install
  <2>2. CASE Start(a)
    BY <2>2 DEF TypeOK, Start
  <2>3. CASE SendRegister(a)
    <3>1. memory[a].reg \in Secrets
      BY <2>3 DEF TypeOK, SendRegister
    <3> QED BY <2>3, <3>1, CallTyped DEF SendRegister
  <2>4. CASE SendReport(a)
    <3>1. memory[a].report \in Secrets
      BY <2>4 DEF TypeOK, SendReport
    <3> QED BY <2>4, <3>1, CallTyped DEF SendReport
  <2>5. CASE ReceiveRegistered(a)
    BY <2>5 DEF TypeOK, ReceiveRegistered, Reply, NoReply
  <2>6. CASE Apply(a)
    <3>1. [memory[a] EXCEPT !.report = reply[a].token] \in Config
      BY DEF TypeOK, Reply
    <3>2. memory' \in [Agents -> Config]
      BY <2>6, <3>1 DEF TypeOK, Apply
    <3>3. pc' \in [Agents -> Stages]
      BY <2>6 DEF TypeOK, Apply
    <3>4. reply' \in [Agents -> Reply]
      BY <2>6 DEF TypeOK, Apply, Reply, NoReply
    <3> QED BY <2>6, <3>2, <3>3, <3>4 DEF TypeOK, Apply
  <2>7. CASE SaveConfig(a)
    BY <2>7 DEF TypeOK, SaveConfig
  <2>8. CASE ReceiveUnauthorized(a)
    <3>1. reply' \in [Agents -> Reply]
      BY <2>8 DEF TypeOK, ReceiveUnauthorized, Reply, NoReply
    <3>2. pc' \in [Agents -> Stages] /\ memory' \in [Agents -> Config]
      BY <2>8 DEF TypeOK, ReceiveUnauthorized, Exit
    <3> QED BY <2>8, <3>1, <3>2 DEF TypeOK, ReceiveUnauthorized
  <2>9. CASE GiveUp(a)
    <3>1. pc' \in [Agents -> Stages] /\ memory' \in [Agents -> Config]
      <4>1. CASE memory[a].report = None
        BY <2>9, <4>1 DEF TypeOK, GiveUp, Exit
      <4>2. CASE memory[a].report # None
        BY <2>9, <4>2 DEF TypeOK, GiveUp
      <4> QED BY <4>1, <4>2
    <3>2. requests' \subseteq Request /\ reply' \in [Agents -> Reply]
      BY <2>9, AbandonTyped DEF GiveUp
    <3> QED BY <2>9, <3>1, <3>2 DEF TypeOK, GiveUp
  <2>10. CASE Crash(a)
    BY <2>10, AbandonTyped DEF TypeOK, Crash, Exit
  <2>11. CASE Remove(a)
    BY <2>11, AbandonTyped DEF TypeOK, Remove
  <2> QED BY <1>3, <2>1, <2>2, <2>3, <2>4, <2>5, <2>6, <2>7, <2>8, <2>9, <2>10, <2>11
          DEF AgentStep
<1>4. CASE UNCHANGED vars
  BY <1>4 DEF TypeOK, vars
<1> QED BY <1>1, <1>2, <1>3, <1>4 DEF Next

(* Type correctness of the server's rows, the agents' files and the calls. *)
THEOREM TypeCorrect == Spec => []TypeOK
<1>1. ASSUME Init PROVE TypeOK
  <2>1. Blank \in Config /\ NoReply \in Reply
    BY DEF Blank, Config, NoReply, Reply, Maybe
  <2> QED BY <1>1, <2>1 DEF Init, TypeOK, Maybe, Stages
<1> QED BY <1>1, TypeStep, PTL DEF Spec

-----------------------------------------------------------------------------
(* Steps that give no installation a credential it did not have *)

SameServer == UNCHANGED <<enabled, digest, pending, boundAgent, lastCurrent, issued>>

(* While the server's rows stay as they are, the parts of the invariant about   *)
(* who holds what can only be broken by an installation learning a credential.  *)
LEMMA NothingLearnt ==
  ASSUME IInv, SameServer,
         \A b \in Agents, s \in Secrets : Holds(b, s)' => Holds(b, s)
  PROVE  Generated' /\ BindingConsistent' /\ OneHolder' /\ CurrentIsHolders'
<1>1. Accepted' = Accepted /\ Accepted \subseteq Secrets
  BY DEF SameServer, Accepted, IInv, TypeOK, Maybe
<1> QED BY <1>1 DEF IInv, SameServer, Generated, BindingConsistent, OneHolder, CurrentIsHolders

(* What Unsaved and SavedAccepted say, for a step that leaves the rows alone.   *)
LEMMA NothingNew ==
  ASSUME IInv, SameServer,
         \A b \in Agents : disk'[b].report = disk[b].report,
         \A b \in Agents, t \in Secrets : Unsaved(b, t)' => Unsaved(b, t)
  PROVE  NewIsPending'
BY DEF IInv, NewIsPending, SameServer, SavedAccepted, Accepted

(* No new call, no new file: what is in use was saved.                          *)
LEMMA NothingUsed ==
  ASSUME IInv, SameServer,
         \A b \in Agents : disk'[b].report = disk[b].report,
         \A b \in Agents : pc[b] = "removed" => pc'[b] = "removed",
         \A n \in requests' : \E m \in requests :
            m.agent = n.agent /\ m.kind = n.kind /\ m.secret = n.secret
  PROVE  UsedIsSaved'
<1> SUFFICES ASSUME NEW n \in requests', n.kind = "report", pc'[n.agent] # "removed"
             PROVE  /\ disk'[n.agent].report # None
                    /\ n.secret = pending => disk'[n.agent].report = pending
  BY DEF UsedIsSaved, SameServer
<1>1. PICK m \in requests : m.agent = n.agent /\ m.kind = n.kind /\ m.secret = n.secret
  OBVIOUS
<1>2. m.agent \in Agents
  BY DEF IInv, TypeOK, Request
<1> QED BY <1>1, <1>2 DEF IInv, UsedIsSaved

LEMMA AgentIdentityInv ==
  ASSUME IInv, TypeOK', NEW m \in requests, AgentIdentity(m)
  PROVE  IInv'
<1> DEFINE n == [m EXCEPT !.identified = TRUE]
<1>1. m \in Request /\ requests' = (requests \ {m}) \cup {n}
      /\ n.agent = m.agent /\ n.kind = m.kind /\ n.secret = m.secret /\ n.wanted = m.wanted
  BY DEF IInv, TypeOK, Request, AgentIdentity
<1>2. SameServer /\ UNCHANGED <<pc, disk, memory, reply>>
  BY DEF SameServer, AgentIdentity, serverVars, tokenVars, agentVars
<1> HIDE DEF n
<1>3. \A b \in Agents, s \in Secrets : Holds(b, s)' => Holds(b, s)
  BY <1>1, <1>2 DEF Holds
<1>4. OneCall'
  <2>1. \A k \in requests' : k.wanted =>
          /\ pc[k.agent] = "waiting" /\ reply[k.agent] = NoReply
          /\ k.kind = "register" => memory[k.agent].report = None
          /\ k.kind = "report" => memory[k.agent].report = k.secret
    <3> SUFFICES ASSUME NEW k \in requests', k.wanted
                 PROVE  /\ pc[k.agent] = "waiting" /\ reply[k.agent] = NoReply
                        /\ k.kind = "register" => memory[k.agent].report = None
                        /\ k.kind = "report" => memory[k.agent].report = k.secret
      OBVIOUS
    <3>1. PICK j \in requests : /\ j.agent = k.agent /\ j.kind = k.kind
                                /\ j.secret = k.secret /\ j.wanted = k.wanted
      BY <1>1
    <3> QED BY <3>1 DEF IInv, OneCall
  <2>2. ASSUME NEW k \in requests', NEW l \in requests', k.wanted, l.wanted,
               k.agent = l.agent
        PROVE  k = l
    <3>1. \A j \in requests : j.wanted /\ m.wanted /\ j.agent = m.agent => j = m
      BY DEF IInv, OneCall
    <3>2. CASE k = n \/ l = n
      BY <1>1, <2>2, <3>1, <3>2
    <3>3. CASE k # n /\ l # n
      BY <1>1, <2>2, <3>3 DEF IInv, OneCall
    <3> QED BY <3>2, <3>3
  <2> QED BY <1>2, <2>1, <2>2 DEF IInv, OneCall
<1>5. SavedBeforeUse'
  BY <1>2 DEF IInv, SavedBeforeUse
<1>6. NewIsPending'
  BY <1>2, NothingNew DEF Unsaved
<1>7. UsedIsSaved'
  BY <1>1, <1>2, NothingUsed
<1> QED BY <1>2, <1>3, <1>4, <1>5, <1>6, <1>7, NothingLearnt DEF IInv

LEMMA RefuseInv ==
  ASSUME IInv, TypeOK', NEW m \in requests, Refuse(m)
  PROVE  IInv'
<1> USE NoneAssumption DEF Refuse, Taken, Answer, serverVars, tokenVars, agentVars
<1>1. m \in Request /\ requests' \subseteq requests
      /\ (m.wanted => requests' = requests \ {m})
  BY DEF IInv, TypeOK
<1>2. SameServer
  BY DEF SameServer
<1>3. \A b \in Agents : reply'[b].token \in {None, reply[b].token}
  BY <1>1 DEF IInv, TypeOK, Reply
<1>4. \A b \in Agents, s \in Secrets : Holds(b, s)' => Holds(b, s)
  BY <1>1, <1>3 DEF Holds
<1>5. OneCall'
  <2>1. \A k \in requests' : k.wanted => reply'[k.agent] = reply[k.agent]
    BY <1>1 DEF IInv, OneCall, TypeOK, Request
  <2>2. \A b \in Agents : reply'[b] = reply[b] \/ (b = m.agent /\ m.wanted
                            /\ reply'[b].status = "unauthorized")
    BY <1>1 DEF IInv, TypeOK
  <2> QED BY <1>1, <2>1, <2>2 DEF IInv, OneCall
<1>6. SavedBeforeUse'
  BY DEF IInv, SavedBeforeUse
<1>7. NewIsPending'
  BY <1>2, <1>3, NothingNew DEF Unsaved
<1>8. UsedIsSaved'
  BY <1>1, <1>2, NothingUsed
<1> QED BY <1>2, <1>4, <1>5, <1>6, <1>7, <1>8, NothingLearnt DEF IInv

LEMMA LoseRequestInv ==
  ASSUME IInv, TypeOK', NEW m \in requests, LoseRequest(m)
  PROVE  IInv'
<1> USE DEF LoseRequest, serverVars, tokenVars, agentVars
<1>1. SameServer
  BY DEF SameServer
<1>2. \A b \in Agents, s \in Secrets : Holds(b, s)' => Holds(b, s)
  BY DEF Holds
<1>3. OneCall' /\ SavedBeforeUse'
  BY DEF IInv, OneCall, SavedBeforeUse
<1>4. NewIsPending'
  BY <1>1, NothingNew DEF Unsaved
<1>5. UsedIsSaved'
  BY <1>1, NothingUsed
<1> QED BY <1>1, <1>2, <1>3, <1>4, <1>5, NothingLearnt DEF IInv

-----------------------------------------------------------------------------
(* The owner's steps leave every agent and every call alone. *)
LEMMA OwnerInv ==
  ASSUME IInv, TypeOK', Owner
  PROVE  IInv'
<1> USE NoneAssumption DEF tokenVars, agentVars, callVars, serverVars
<1>1. UNCHANGED <<agentVars, callVars>> /\ issued \subseteq issued'
  BY DEF Owner, AgentEnable, AgentRegistration, AgentDisable, AgentRotate, ExpireRegistration
<1>2. OneCall' /\ SavedBeforeUse'
  BY <1>1 DEF IInv, OneCall, SavedBeforeUse
<1>3. \A b \in Agents, s \in Secrets : Holds(b, s)' <=> Holds(b, s)
  BY <1>1 DEF Holds
<1>4. CASE AgentEnable \/ AgentRegistration \/ ExpireRegistration
  <2>1. UNCHANGED <<digest, pending, boundAgent, lastCurrent>> /\ (enabled => enabled')
    BY <1>4 DEF AgentEnable, AgentRegistration, ExpireRegistration
  <2>2. Accepted' = Accepted /\ Accepted \subseteq Secrets
    BY <2>1 DEF Accepted, IInv, TypeOK, Maybe
  <2>3. Generated' /\ BindingConsistent' /\ OneHolder' /\ CurrentIsHolders'
    BY <1>1, <1>3, <2>1, <2>2
       DEF IInv, Generated, BindingConsistent, OneHolder, CurrentIsHolders
  <2>4. NewIsPending' /\ UsedIsSaved'
    BY <1>1, <2>1, <2>2 DEF IInv, NewIsPending, UsedIsSaved, Unsaved, SavedAccepted
  <2> QED BY <1>2, <2>3, <2>4 DEF IInv
<1>5. CASE AgentDisable
  <2>1. digest' = None /\ pending' = None /\ lastCurrent' = None /\ Accepted' = {}
    BY <1>5 DEF AgentDisable, Accepted
  <2>2. Generated' /\ BindingConsistent' /\ OneHolder' /\ CurrentIsHolders'
    BY <1>1, <1>3, <2>1
       DEF IInv, Generated, BindingConsistent, OneHolder, CurrentIsHolders
  <2>3. NewIsPending'
    BY <1>1, <2>1 DEF IInv, NewIsPending, Unsaved, SavedAccepted
  <2>4. UsedIsSaved'
    BY <1>1, <2>1 DEF IInv, UsedIsSaved, TypeOK, Request
  <2> QED BY <1>2, <2>2, <2>3, <2>4 DEF IInv
<1>6. CASE AgentRotate
  <2>1. PICK s \in Secrets \ issued : pending' = s /\ issued' = issued \cup {s}
    BY <1>6 DEF AgentRotate
  <2>2. \A b \in Agents : ~Holds(b, s)
    BY <2>1 DEF IInv, Generated
  <2>3. /\ digest # None /\ pending = None /\ digest # s /\ pending' = s
        /\ UNCHANGED <<enabled, digest, boundAgent, lastCurrent>>
        /\ Accepted = {digest} /\ Accepted' = {digest, s} /\ Accepted' \subseteq Secrets
    BY <1>6, <2>1 DEF AgentRotate, Accepted, IInv, TypeOK, Maybe, Generated
  <2>4. Generated' /\ BindingConsistent' /\ OneHolder' /\ CurrentIsHolders'
    BY <1>1, <1>3, <2>1, <2>2, <2>3
       DEF IInv, Generated, BindingConsistent, OneHolder, CurrentIsHolders
  <2>5. NewIsPending'
    <3> SUFFICES ASSUME NEW b \in Agents, NEW t \in Secrets, Unsaved(b, t)'
                 PROVE  /\ t # disk[b].report
                        /\ disk[b].report # None /\ t \in Accepted' => t = s
                        /\ disk[b].report \in Accepted' => t = s
      BY <1>1, <2>3 DEF NewIsPending, SavedAccepted
    <3>1. Unsaved(b, t)
      BY <1>1 DEF Unsaved
    <3>2. t # disk[b].report
      BY <3>1 DEF IInv, NewIsPending
    <3>3. disk[b].report # None /\ t = digest => t = s
      BY <3>1, <2>3 DEF IInv, NewIsPending
    <3>4. disk[b].report # s
      BY <2>2 DEF Holds
    <3>5. disk[b].report # digest
      BY <3>1, <2>3 DEF IInv, NewIsPending, SavedAccepted
    <3> QED BY <2>3, <3>2, <3>3, <3>4, <3>5
  <2>6. UsedIsSaved'
    <3> SUFFICES ASSUME NEW m \in requests, m.kind = "report", pc[m.agent] # "removed"
                 PROVE  disk[m.agent].report # None /\ m.secret # s
      BY <1>1, <2>3 DEF UsedIsSaved
    <3>1. m.agent \in Agents
      BY DEF IInv, TypeOK, Request
    <3>2. Holds(m.agent, m.secret)
      BY DEF Holds
    <3> QED BY <2>2, <3>1, <3>2 DEF IInv, UsedIsSaved
  <2> QED BY <1>2, <2>4, <2>5, <2>6 DEF IInv
<1> QED BY <1>4, <1>5, <1>6 DEF Owner

-----------------------------------------------------------------------------
(* Steps that answer a call *)

(* An answer is the only one its agent gets, and brings it nothing but a token. *)
LEMMA Answered ==
  ASSUME IInv, NEW m \in requests, NEW token \in Maybe(Secrets),
         Answer(m, "ok", token), Taken(m), UNCHANGED agentVars,
         m.kind = "register" => token # None
  PROVE  /\ OneCall'
         /\ \A b \in Agents, t \in Secrets : Holds(b, t)' =>
              Holds(b, t) \/ (b = m.agent /\ t = token)
         /\ \A b \in Agents, t \in Secrets : Unsaved(b, t)' =>
              Unsaved(b, t) \/ (m.wanted /\ b = m.agent /\ t = token)
<1> USE NoneAssumption DEF agentVars
<1>1. m \in Request /\ requests' \subseteq requests
      /\ (m.wanted => requests' = requests \ {m})
  BY DEF IInv, TypeOK, Taken
<1>2. \A b \in Agents : reply'[b] = reply[b] \/ (b = m.agent /\ m.wanted
                          /\ reply'[b] = [status |-> "ok", token |-> token])
  BY DEF Answer, IInv, TypeOK
<1>3. OneCall'
  <2>1. \A k \in requests' : k.wanted => reply'[k.agent] = reply[k.agent]
    BY <1>1 DEF Answer, IInv, OneCall, TypeOK, Request
  <2>2. m.wanted => pc[m.agent] = "waiting"
                    /\ (memory[m.agent].report = None => m.kind = "register")
    BY <1>1 DEF IInv, OneCall, Request
  <2> QED BY <1>1, <1>2, <2>1, <2>2 DEF IInv, OneCall
<1>4. \A b \in Agents, t \in Secrets : Holds(b, t)' =>
        Holds(b, t) \/ (b = m.agent /\ t = token)
  BY <1>1, <1>2 DEF Holds
<1>5. \A b \in Agents, t \in Secrets : Unsaved(b, t)' =>
        Unsaved(b, t) \/ (m.wanted /\ b = m.agent /\ t = token)
  BY <1>2 DEF Unsaved
<1> QED BY <1>3, <1>4, <1>5

(* A credential on its way to an agent is one the agent has. *)
LEMMA UnsavedHeld ==
  ASSUME NEW b \in Agents, NEW t \in Secrets, Unsaved(b, t)
  PROVE  Holds(b, t)
BY DEF Unsaved, Holds

LEMMA AgentRegisterInv ==
  ASSUME IInv, TypeOK', NEW m \in requests, AgentRegister(m)
  PROVE  IInv'
<1> USE NoneAssumption DEF Maybe
<1>1. PICK s \in Secrets \ issued :
        digest' = s /\ issued' = issued \cup {s} /\ Answer(m, "ok", s)
  BY DEF AgentRegister
<1>2. m \in Request /\ m.kind = "register" /\ Taken(m) /\ m.agent \in Agents
  BY DEF AgentRegister, IInv, TypeOK, Request
<1>3. UNCHANGED <<pc, disk, memory, enabled, pending>> /\ enabled /\ digest = None
      /\ boundAgent' = m.agent /\ lastCurrent' = None /\ requests' \subseteq requests
  BY DEF AgentRegister, agentVars, Taken
<1>4. s # None /\ pending = None /\ Accepted' = {s}
  BY <1>1, <1>3 DEF Accepted, IInv, BindingConsistent
<1>5. \A b \in Agents : ~Holds(b, s)
  BY <1>1 DEF IInv, Generated
<1>6. /\ OneCall'
      /\ \A b \in Agents, t \in Secrets : Holds(b, t)' =>
           Holds(b, t) \/ (b = m.agent /\ t = s)
      /\ \A b \in Agents, t \in Secrets : Unsaved(b, t)' =>
           Unsaved(b, t) \/ (m.wanted /\ b = m.agent /\ t = s)
  BY <1>1, <1>2, <1>3, <1>4, Answered DEF agentVars
<1>7. Generated' /\ BindingConsistent' /\ OneHolder' /\ CurrentIsHolders'
  BY <1>1, <1>2, <1>3, <1>4, <1>5, <1>6
     DEF IInv, Generated, BindingConsistent, OneHolder, CurrentIsHolders
<1>8. SavedBeforeUse'
  BY <1>3 DEF IInv, SavedBeforeUse
<1>9. NewIsPending'
  <2> SUFFICES ASSUME NEW b \in Agents, NEW t \in Secrets, Unsaved(b, t)'
               PROVE  /\ t # disk[b].report
                      /\ t = s => disk[b].report = None
                      /\ disk[b].report # s
    BY <1>3, <1>4 DEF NewIsPending, SavedAccepted
  <2>1. disk[b].report # s
    BY <1>5, <1>1 DEF Holds
  <2>2. CASE Unsaved(b, t)
    BY <1>5, <2>1, <2>2, UnsavedHeld DEF IInv, NewIsPending
  <2>3. CASE m.wanted /\ b = m.agent /\ t = s
    BY <1>2, <2>1, <2>3 DEF IInv, OneCall, SavedBeforeUse
  <2> QED BY <1>6, <2>1, <2>2, <2>3
<1>10. UsedIsSaved'
  BY <1>3, <1>4 DEF IInv, UsedIsSaved, TypeOK, Request
<1> QED BY <1>6, <1>7, <1>8, <1>9, <1>10 DEF IInv

LEMMA IngestAgentInv ==
  ASSUME IInv, TypeOK', NEW m \in requests,
         NEW sample \in BOOLEAN, NEW fresh \in BOOLEAN, IngestAgent(m, sample, fresh)
  PROVE  IInv'
<1> USE NoneAssumption DEF Maybe
<1> DEFINE offered == IF m.secret = pending THEN None ELSE pending
<1>1. m \in Request /\ m.kind = "report" /\ Taken(m) /\ m.agent \in Agents
      /\ m.secret \in Accepted /\ m.secret \in Secrets
  BY DEF IngestAgent, IInv, TypeOK, Request
<1>2. /\ UNCHANGED <<pc, disk, memory, enabled, boundAgent, issued>>
      /\ requests' \subseteq requests /\ enabled
      /\ offered \in Maybe(Secrets) /\ Answer(m, "ok", offered)
  BY DEF IngestAgent, agentVars, tokenVars, Taken, IInv, TypeOK
<1>3. Holds(m.agent, m.secret) /\ m.agent = boundAgent
  BY <1>1 DEF Holds, IInv, OneHolder
<1>4. /\ OneCall'
      /\ \A b \in Agents, t \in Secrets : Holds(b, t)' =>
           Holds(b, t) \/ (b = m.agent /\ t = offered)
      /\ \A b \in Agents, t \in Secrets : Unsaved(b, t)' =>
           Unsaved(b, t) \/ (m.wanted /\ b = m.agent /\ t = offered)
  <2> HIDE DEF offered
  <2> QED BY <1>1, <1>2, Answered DEF agentVars
<1>5. Accepted' \subseteq Accepted /\ Accepted \subseteq Secrets
  BY DEF Accepted, IngestAgent, IInv, TypeOK
<1>6. BindingConsistent' /\ CurrentIsHolders'
  BY <1>1, <1>2, <1>3 DEF IngestAgent, Accepted, IInv, BindingConsistent, CurrentIsHolders
<1>7. offered \in Secrets => offered \in Accepted
  BY DEF Accepted
<1>8. Generated' /\ OneHolder'
  <2> HIDE DEF offered
  <2> QED BY <1>1, <1>2, <1>3, <1>4, <1>5, <1>7 DEF IInv, Generated, OneHolder
<1>9. SavedBeforeUse'
  BY <1>2 DEF IInv, SavedBeforeUse
<1>10. CASE m.secret = pending
  <2>1. pending' = None /\ Accepted' = {pending} /\ pending \in Secrets /\ offered = None
    BY <1>1, <1>10 DEF IngestAgent, Accepted
  <2>2. NewIsPending'
    <3> SUFFICES ASSUME NEW b \in Agents, NEW t \in Secrets, Unsaved(b, t)'
                 PROVE  /\ t # disk[b].report
                        /\ disk[b].report # None => t # pending
                        /\ disk[b].report # pending
      BY <1>2, <2>1 DEF NewIsPending, SavedAccepted
    <3>1. Unsaved(b, t) /\ Holds(b, t)
      BY <1>4, <2>1, UnsavedHeld
    <3>2. t # disk[b].report
      BY <3>1 DEF IInv, NewIsPending
    <3>3. t # pending
      <4> SUFFICES ASSUME t = pending PROVE FALSE
        OBVIOUS
      <4>1. b = m.agent
        BY <1>3, <1>5, <2>1, <1>1, <1>10, <3>1 DEF IInv, OneHolder
      <4>2. pc[b] # "removed"
        BY <3>1 DEF Unsaved, IInv, OneCall, NoReply
      <4> QED BY <1>1, <1>10, <3>2, <4>1, <4>2 DEF IInv, UsedIsSaved
    <3>4. disk[b].report # pending
      BY <1>1, <1>10, <3>1, <3>3 DEF IInv, NewIsPending, SavedAccepted
    <3> QED BY <3>2, <3>3, <3>4
  <2>3. UsedIsSaved'
    BY <1>2, <2>1 DEF IInv, UsedIsSaved, TypeOK, Request
  <2> QED BY <1>4, <1>6, <1>8, <1>9, <2>2, <2>3 DEF IInv
<1>11. CASE m.secret # pending
  <2>1. UNCHANGED <<digest, pending>> /\ Accepted' = Accepted /\ offered = pending
        /\ m.secret = digest
    BY <1>1, <1>11 DEF IngestAgent, Accepted
  <2>2. NewIsPending'
    <3> SUFFICES ASSUME NEW b \in Agents, NEW t \in Secrets, Unsaved(b, t)'
                 PROVE  /\ t # disk[b].report
                        /\ disk[b].report # None /\ t \in Accepted => t = pending
                        /\ disk[b].report \in Accepted => t = pending
      BY <1>2, <2>1 DEF NewIsPending, SavedAccepted
    <3>1. CASE Unsaved(b, t)
      BY <3>1 DEF IInv, NewIsPending, SavedAccepted
    <3>2. CASE m.wanted /\ b = m.agent /\ t = pending
      <4>1. memory[b].report = digest /\ pc[b] = "waiting"
        BY <1>1, <2>1, <3>2 DEF IInv, OneCall
      <4>2. disk[b].report = digest
        BY <4>1 DEF IInv, SavedBeforeUse
      <4> QED BY <1>11, <2>1, <3>2, <4>2
    <3> QED BY <1>4, <2>1, <3>1, <3>2
  <2>3. UsedIsSaved'
    BY <1>2, <2>1 DEF IInv, UsedIsSaved
  <2> QED BY <1>4, <1>6, <1>8, <1>9, <2>2, <2>3 DEF IInv
<1> QED BY <1>10, <1>11

-----------------------------------------------------------------------------
(* The agents' steps *)

(* An agent that is not waiting, or stops waiting, has no call it waits for. *)
LEMMA QuietAgent ==
  ASSUME IInv, NEW a \in Agents, reply'[a] = NoReply,
         \A n \in requests' : n.wanted => n \in requests /\ n.agent # a,
         \A b \in Agents \ {a} :
           pc'[b] = pc[b] /\ memory'[b] = memory[b] /\ reply'[b] = reply[b]
  PROVE  OneCall'
<1>1. \A n \in requests' : n.wanted => n.agent \in Agents \ {a}
  BY DEF IInv, TypeOK, Request
<1>2. \A b \in Agents : reply'[b] # NoReply => reply'[b] = reply[b] /\ b # a
  OBVIOUS
<1>3. NoReply.status # "ok"
  BY DEF NoReply
<1> QED BY <1>1, <1>2, <1>3 DEF IInv, OneCall

(* Calls survive being given up, and none of them is waited for. *)
LEMMA AbandonedCalls ==
  ASSUME IInv, NEW a \in Agents, Abandon(a)
  PROVE  /\ \A n \in requests' : n.wanted => n \in requests /\ n.agent # a
         /\ \A n \in requests' : \E m \in requests :
              m.agent = n.agent /\ m.kind = n.kind /\ m.secret = n.secret
         /\ reply' = [reply EXCEPT ![a] = NoReply] /\ reply'[a] = NoReply
<1>1. reply' = [reply EXCEPT ![a] = NoReply] /\ reply'[a] = NoReply
  BY DEF Abandon, IInv, TypeOK
<1>2. ASSUME NEW n \in requests'
      PROVE  /\ n.wanted => n \in requests /\ n.agent # a
             /\ \E m \in requests :
                  m.agent = n.agent /\ m.kind = n.kind /\ m.secret = n.secret
  <2>1. PICK m \in requests :
          n = IF m.agent = a THEN [m EXCEPT !.wanted = FALSE] ELSE m
    BY DEF Abandon
  <2>2. m \in Request
    BY DEF IInv, TypeOK
  <2> QED BY <2>1, <2>2 DEF Request
<1> QED BY <1>1, <1>2

(* A step that only stops an agent: what it had in memory or in flight to it is gone. *)
LEMMA StoppedAgent ==
  ASSUME IInv, NEW a \in Agents, Exit(a), disk' = disk, SameServer,
         pc[a] \in {"idle", "waiting", "saving"},
         reply' = [reply EXCEPT ![a] = NoReply],
         \A n \in requests' : n.wanted => n \in requests /\ n.agent # a,
         \A n \in requests' : \E m \in requests :
           m.agent = n.agent /\ m.kind = n.kind /\ m.secret = n.secret
  PROVE  /\ Generated' /\ BindingConsistent' /\ OneHolder' /\ CurrentIsHolders'
         /\ OneCall' /\ SavedBeforeUse' /\ NewIsPending' /\ UsedIsSaved'
<1>1. /\ pc'[a] = "down" /\ memory'[a] = Blank /\ reply'[a] = NoReply
      /\ \A b \in Agents \ {a} :
           pc'[b] = pc[b] /\ memory'[b] = memory[b] /\ reply'[b] = reply[b]
  BY DEF Exit, IInv, TypeOK
<1>2. \A b \in Agents, s \in Secrets : Holds(b, s)' => Holds(b, s)
  BY <1>1, NoneAssumption DEF Holds, Blank, NoReply
<1>3. \A b \in Agents, t \in Secrets : Unsaved(b, t)' => Unsaved(b, t)
  BY <1>1, NoneAssumption DEF Unsaved, NoReply
<1>4. SavedBeforeUse'
  BY <1>1 DEF IInv, SavedBeforeUse
<1>5. NewIsPending'
  BY <1>3, NothingNew
<1>6. UsedIsSaved'
  BY <1>1, NothingUsed
<1> QED BY <1>1, <1>2, <1>4, <1>5, <1>6, QuietAgent, NothingLearnt

LEMMA InstallInv ==
  ASSUME IInv, TypeOK', NEW a \in Agents, NEW t \in handedOut, Install(a, t)
  PROVE  IInv'
<1>1. /\ SameServer /\ UNCHANGED <<memory, requests, reply>>
      /\ pc[a] = "fresh" /\ pc'[a] = "down" /\ disk'[a].report = None
      /\ \A b \in Agents \ {a} : pc'[b] = pc[b] /\ disk'[b] = disk[b]
  BY DEF Install, SameServer, serverVars, tokenVars, callVars, IInv, TypeOK
<1>2. disk[a].report = None /\ memory[a] = Blank /\ reply[a] = NoReply
  BY <1>1 DEF IInv, SavedBeforeUse, OneCall, Blank
<1>3. \A b \in Agents : disk'[b].report = disk[b].report
  BY <1>1, <1>2
<1>4. \A b \in Agents, s \in Secrets : Holds(b, s)' => Holds(b, s)
  BY <1>1, <1>3 DEF Holds
<1>5. \A n \in requests' : n.wanted => n \in requests /\ n.agent # a
  BY <1>1 DEF IInv, OneCall
<1>6. OneCall'
  BY <1>1, <1>2, <1>5, QuietAgent
<1>7. SavedBeforeUse'
  BY <1>1, <1>2 DEF IInv, SavedBeforeUse
<1>8. NewIsPending'
  BY <1>1, <1>3, NothingNew DEF Unsaved
<1>9. UsedIsSaved'
  BY <1>1, <1>3, NothingUsed
<1> QED BY <1>1, <1>4, <1>6, <1>7, <1>8, <1>9, NothingLearnt DEF IInv

LEMMA StartInv ==
  ASSUME IInv, TypeOK', NEW a \in Agents, Start(a)
  PROVE  IInv'
<1>1. /\ SameServer /\ UNCHANGED <<disk, requests, reply>>
      /\ pc[a] = "down" /\ pc'[a] = "idle" /\ memory'[a] = disk[a]
      /\ \A b \in Agents \ {a} : pc'[b] = pc[b] /\ memory'[b] = memory[b]
  BY DEF Start, SameServer, serverVars, tokenVars, callVars, IInv, TypeOK
<1>2. reply[a] = NoReply
  BY <1>1 DEF IInv, OneCall
<1>3. \A b \in Agents, s \in Secrets : Holds(b, s)' => Holds(b, s)
  BY <1>1 DEF Holds
<1>4. \A n \in requests' : n.wanted => n \in requests /\ n.agent # a
  BY <1>1 DEF IInv, OneCall
<1>5. OneCall'
  BY <1>1, <1>2, <1>4, QuietAgent
<1>6. SavedBeforeUse'
  BY <1>1 DEF IInv, SavedBeforeUse
<1>7. NewIsPending'
  BY <1>1, NothingNew DEF Unsaved
<1>8. UsedIsSaved'
  BY <1>1, NothingUsed
<1> QED BY <1>1, <1>3, <1>5, <1>6, <1>7, <1>8, NothingLearnt DEF IInv

(* A new call is the only one its agent waits for, and uses what is saved. *)
LEMMA CallInv ==
  ASSUME IInv, TypeOK', NEW a \in Agents, NEW secret \in Secrets,
         NEW kind \in {"register", "report"}, Call(a, kind, secret),
         kind = "register" => memory[a].report = None,
         kind = "report" => memory[a].report = secret
  PROVE  IInv'
<1> DEFINE call == [agent |-> a, kind |-> kind, secret |-> secret,
                   identified |-> FALSE, wanted |-> TRUE]
<1>1. /\ SameServer /\ UNCHANGED <<disk, memory, reply>>
      /\ pc[a] = "idle" /\ pc'[a] = "waiting"
      /\ \A b \in Agents \ {a} : pc'[b] = pc[b]
  BY DEF Call, SameServer, serverVars, tokenVars, IInv, TypeOK
<1>2. requests' = requests \cup {call} /\ call.agent = a /\ call.kind = kind
      /\ call.secret = secret /\ call.wanted
  BY DEF Call
<1> HIDE DEF call
<1>3. reply[a] = NoReply /\ memory[a] = disk[a]
  BY <1>1 DEF IInv, OneCall, SavedBeforeUse
<1>4. \A n \in requests : n.wanted => n.agent # a
  BY <1>1 DEF IInv, OneCall
<1>5. OneCall'
  <2>1. \A n \in requests' : n.wanted =>
          /\ pc'[n.agent] = "waiting" /\ reply[n.agent] = NoReply
          /\ n.kind = "register" => memory[n.agent].report = None
          /\ n.kind = "report" => memory[n.agent].report = n.secret
    <3> SUFFICES ASSUME NEW n \in requests', n.wanted
                 PROVE  /\ pc'[n.agent] = "waiting" /\ reply[n.agent] = NoReply
                        /\ n.kind = "register" => memory[n.agent].report = None
                        /\ n.kind = "report" => memory[n.agent].report = n.secret
      OBVIOUS
    <3>1. CASE n = call
      BY <1>1, <1>2, <1>3, <3>1
    <3>2. CASE n \in requests
      <4>1. n.agent \in Agents \ {a}
        BY <1>4, <3>2 DEF IInv, TypeOK, Request
      <4> QED BY <1>1, <3>2, <4>1 DEF IInv, OneCall
    <3> QED BY <1>2, <3>1, <3>2
  <2>2. \A m, n \in requests' : m.wanted /\ n.wanted /\ m.agent = n.agent => m = n
    BY <1>2, <1>4 DEF IInv, OneCall
  <2>3. \A b \in Agents : /\ reply[b] # NoReply => pc'[b] = "waiting"
                          /\ reply[b].status = "ok" /\ memory[b].report = None
                               => reply[b].token # None
    BY <1>1 DEF IInv, OneCall
  <2> QED BY <1>1, <2>1, <2>2, <2>3 DEF OneCall
<1>6. \A b \in Agents, s \in Secrets : Holds(b, s)' => Holds(b, s)
  BY <1>1, <1>2 DEF Holds
<1>7. SavedBeforeUse'
  BY <1>1, <1>3 DEF IInv, SavedBeforeUse
<1>8. NewIsPending'
  BY <1>1, NothingNew DEF Unsaved
<1>9. UsedIsSaved'
  <2> SUFFICES ASSUME NEW n \in requests', n.kind = "report", pc'[n.agent] # "removed"
               PROVE  /\ disk[n.agent].report # None
                      /\ n.secret = pending => disk[n.agent].report = pending
    BY <1>1 DEF UsedIsSaved, SameServer
  <2>1. CASE n = call
    BY <1>2, <1>3, <2>1, NoneAssumption
  <2>2. CASE n \in requests
    <3>1. n.agent \in Agents /\ pc[n.agent] # "removed"
      BY <1>1, <2>2 DEF IInv, TypeOK, Request
    <3> QED BY <2>2, <3>1 DEF IInv, UsedIsSaved
  <2> QED BY <1>2, <2>1, <2>2
<1> QED BY <1>1, <1>5, <1>6, <1>7, <1>8, <1>9, NothingLearnt DEF IInv

LEMMA ReceiveRegisteredInv ==
  ASSUME IInv, TypeOK', NEW a \in Agents, ReceiveRegistered(a)
  PROVE  IInv'
<1>1. /\ SameServer /\ UNCHANGED <<disk, requests>>
      /\ pc[a] = "waiting" /\ pc'[a] = "saving" /\ reply[a] # NoReply
      /\ memory'[a].report = reply[a].token /\ reply'[a] = NoReply
      /\ reply[a].token # None
      /\ \A b \in Agents \ {a} :
           pc'[b] = pc[b] /\ memory'[b] = memory[b] /\ reply'[b] = reply[b]
  BY DEF ReceiveRegistered, SameServer, serverVars, tokenVars, IInv, TypeOK, OneCall, NoReply
<1>2. \A b \in Agents, s \in Secrets : Holds(b, s)' => Holds(b, s)
  BY <1>1, NoneAssumption DEF Holds, NoReply
<1>3. \A b \in Agents, t \in Secrets : Unsaved(b, t)' => Unsaved(b, t)
  BY <1>1, NoneAssumption DEF Unsaved, NoReply
<1>4. \A n \in requests' : n.wanted => n \in requests /\ n.agent # a
  BY <1>1 DEF IInv, OneCall
<1>5. OneCall'
  BY <1>1, <1>4, QuietAgent
<1>6. SavedBeforeUse'
  BY <1>1 DEF IInv, SavedBeforeUse
<1>7. NewIsPending'
  BY <1>1, <1>3, NothingNew
<1>8. UsedIsSaved'
  BY <1>1, NothingUsed
<1> QED BY <1>1, <1>2, <1>5, <1>6, <1>7, <1>8, NothingLearnt DEF IInv

LEMMA ApplyInv ==
  ASSUME IInv, TypeOK', NEW a \in Agents, Apply(a)
  PROVE  IInv'
<1>1. /\ SameServer /\ UNCHANGED <<disk, requests>>
      /\ pc[a] = "waiting" /\ reply[a] # NoReply /\ reply'[a] = NoReply
      /\ \A b \in Agents \ {a} :
           pc'[b] = pc[b] /\ memory'[b] = memory[b] /\ reply'[b] = reply[b]
  <2>1. pc'[a] \in {"idle", "saving"}
        /\ \A b \in Agents \ {a} : pc'[b] = pc[b] /\ memory'[b] = memory[b]
    BY DEF Apply, IInv, TypeOK
  <2> QED BY <2>1 DEF Apply, SameServer, serverVars, tokenVars, IInv, TypeOK, NoReply
<1>2. \/ pc'[a] = "idle" /\ memory'[a] = memory[a]
      \/ /\ pc'[a] = "saving" /\ reply[a].token # None
         /\ memory'[a].report = reply[a].token
  <2>1. CASE reply[a].token \in {None, memory[a].report}
    BY <2>1 DEF Apply, IInv, TypeOK
  <2>2. CASE reply[a].token \notin {None, memory[a].report}
    <3>1. memory'[a] = [memory[a] EXCEPT !.report = reply[a].token]
      BY <2>2 DEF Apply, IInv, TypeOK
    <3>2. memory[a] \in Config
      BY DEF IInv, TypeOK
    <3>3. memory'[a].report = reply[a].token
      BY <3>1, <3>2 DEF Config
    <3>4. pc'[a] = "saving"
      BY <2>2 DEF Apply, IInv, TypeOK
    <3> QED BY <2>2, <3>3, <3>4
  <2> QED BY <2>1, <2>2
<1>3. \A b \in Agents, s \in Secrets : Holds(b, s)' => Holds(b, s)
  BY <1>1, <1>2, NoneAssumption DEF Holds, NoReply
<1>4. \A b \in Agents, t \in Secrets : Unsaved(b, t)' => Unsaved(b, t)
  BY <1>1, <1>2, NoneAssumption DEF Unsaved, NoReply
<1>5. \A n \in requests' : n.wanted => n \in requests /\ n.agent # a
  BY <1>1 DEF IInv, OneCall
<1>6. OneCall'
  BY <1>1, <1>5, QuietAgent
<1>7. SavedBeforeUse'
  BY <1>1, <1>2 DEF IInv, SavedBeforeUse
<1>8. NewIsPending'
  BY <1>1, <1>4, NothingNew
<1>9. UsedIsSaved'
  BY <1>1, <1>2, NothingUsed
<1> QED BY <1>1, <1>3, <1>6, <1>7, <1>8, <1>9, NothingLearnt DEF IInv

LEMMA SaveConfigInv ==
  ASSUME IInv, TypeOK', NEW a \in Agents, SaveConfig(a)
  PROVE  IInv'
<1>1. /\ SameServer /\ UNCHANGED <<memory, requests, reply>>
      /\ pc[a] = "saving" /\ pc'[a] = "idle" /\ disk'[a] = memory[a]
      /\ \A b \in Agents \ {a} : pc'[b] = pc[b] /\ disk'[b] = disk[b]
  BY DEF SaveConfig, SameServer, serverVars, tokenVars, callVars, IInv, TypeOK
<1>2. reply[a] = NoReply /\ memory[a].report # None
  BY <1>1 DEF IInv, OneCall, SavedBeforeUse
<1>3. \A b \in Agents, s \in Secrets : Holds(b, s)' => Holds(b, s)
  BY <1>1 DEF Holds
<1>4. \A n \in requests' : n.wanted => n \in requests /\ n.agent # a
  BY <1>1 DEF IInv, OneCall
<1>5. OneCall'
  BY <1>1, <1>2, <1>4, QuietAgent
<1>6. SavedBeforeUse'
  BY <1>1 DEF IInv, SavedBeforeUse
<1>7. NewIsPending'
  <2> SUFFICES ASSUME NEW b \in Agents, NEW t \in Secrets, Unsaved(b, t)'
               PROVE  /\ t # disk'[b].report
                      /\ disk'[b].report # None /\ t \in Accepted => t = pending
                      /\ disk'[b].report \in Accepted => t = pending
    BY <1>1 DEF NewIsPending, SavedAccepted, SameServer, Accepted
  <2>1. b # a
    BY <1>1, <1>2, NoneAssumption DEF Unsaved, NoReply
  <2>2. Unsaved(b, t) /\ disk'[b] = disk[b]
    BY <1>1, <2>1 DEF Unsaved
  <2> QED BY <2>2 DEF IInv, NewIsPending, SavedAccepted
<1>8. UsedIsSaved'
  <2> SUFFICES ASSUME NEW m \in requests, m.kind = "report", pc'[m.agent] # "removed"
               PROVE  /\ disk'[m.agent].report # None
                      /\ m.secret = pending => disk'[m.agent].report = pending
    BY <1>1 DEF UsedIsSaved, SameServer
  <2>1. m.agent \in Agents /\ pc[m.agent] # "removed" /\ m.secret \in Secrets
    BY <1>1 DEF IInv, TypeOK, Request
  <2>2. CASE m.agent = a
    <3>1. memory[a].report \in Secrets /\ Unsaved(a, memory[a].report)
      BY <1>1, <1>2 DEF IInv, TypeOK, Config, Maybe, Unsaved
    <3>2. m.secret = pending => SavedAccepted(a)
      BY <2>1, <2>2, NoneAssumption DEF IInv, UsedIsSaved, SavedAccepted, Accepted
    <3> QED BY <1>1, <1>2, <2>2, <3>1, <3>2 DEF IInv, NewIsPending
  <2>3. CASE m.agent # a
    BY <1>1, <2>1, <2>3 DEF IInv, UsedIsSaved
  <2> QED BY <2>2, <2>3
<1> QED BY <1>1, <1>3, <1>5, <1>6, <1>7, <1>8, NothingLearnt DEF IInv

LEMMA StopInv ==
  ASSUME IInv, TypeOK', NEW a \in Agents,
         ReceiveUnauthorized(a) \/ GiveUp(a) \/ Crash(a)
  PROVE  IInv'
<1> USE DEF SameServer, serverVars, tokenVars
<1>1. CASE ReceiveUnauthorized(a)
  <2>1. reply[a] # NoReply
    BY <1>1 DEF ReceiveUnauthorized, NoReply
  <2>2. \A n \in requests : n.wanted => n.agent # a
    BY <2>1 DEF IInv, OneCall
  <2> QED BY <1>1, <2>2, StoppedAgent DEF ReceiveUnauthorized, IInv
<1>2. CASE Crash(a)
  BY <1>2, StoppedAgent, AbandonedCalls DEF Crash, IInv
<1>3. CASE GiveUp(a) /\ memory[a].report = None
  BY <1>3, StoppedAgent, AbandonedCalls DEF GiveUp, IInv
<1>4. CASE GiveUp(a) /\ memory[a].report # None
  <2>1. /\ SameServer /\ UNCHANGED <<disk, memory>>
        /\ pc[a] = "waiting" /\ pc'[a] = "idle"
        /\ \A b \in Agents \ {a} : pc'[b] = pc[b]
        /\ Abandon(a)
    BY <1>4 DEF GiveUp, IInv, TypeOK
  <2>2. /\ \A n \in requests' : n.wanted => n \in requests /\ n.agent # a
        /\ \A n \in requests' : \E m \in requests :
             m.agent = n.agent /\ m.kind = n.kind /\ m.secret = n.secret
        /\ reply'[a] = NoReply
        /\ \A b \in Agents \ {a} : reply'[b] = reply[b]
    BY <2>1, AbandonedCalls DEF IInv, TypeOK
  <2>3. \A b \in Agents, s \in Secrets : Holds(b, s)' => Holds(b, s)
    BY <2>1, <2>2, NoneAssumption DEF Holds, NoReply
  <2>4. \A b \in Agents, t \in Secrets : Unsaved(b, t)' => Unsaved(b, t)
    BY <2>1, <2>2, NoneAssumption DEF Unsaved, NoReply
  <2>5. OneCall'
    BY <2>1, <2>2, QuietAgent
  <2>6. SavedBeforeUse'
    BY <2>1 DEF IInv, SavedBeforeUse
  <2>7. NewIsPending'
    BY <2>1, <2>4, NothingNew
  <2>8. UsedIsSaved'
    BY <2>1, <2>2, NothingUsed
  <2> QED BY <2>1, <2>3, <2>5, <2>6, <2>7, <2>8, NothingLearnt DEF IInv
<1> QED BY <1>1, <1>2, <1>3, <1>4

LEMMA RemoveInv ==
  ASSUME IInv, TypeOK', NEW a \in Agents, Remove(a)
  PROVE  IInv'
<1>1. /\ SameServer /\ pc'[a] = "removed" /\ disk'[a] = Blank /\ memory'[a] = Blank
      /\ \A b \in Agents \ {a} :
           pc'[b] = pc[b] /\ memory'[b] = memory[b] /\ disk'[b] = disk[b]
      /\ Abandon(a)
  BY DEF Remove, SameServer, serverVars, tokenVars, IInv, TypeOK
<1>2. /\ \A n \in requests' : n.wanted => n \in requests /\ n.agent # a
      /\ \A n \in requests' : \E m \in requests :
           m.agent = n.agent /\ m.kind = n.kind /\ m.secret = n.secret
      /\ reply'[a] = NoReply
      /\ \A b \in Agents \ {a} : reply'[b] = reply[b]
  BY <1>1, AbandonedCalls DEF IInv, TypeOK
<1>3. \A b \in Agents, s \in Secrets : Holds(b, s)' => Holds(b, s)
  BY <1>1, <1>2, NoneAssumption DEF Holds, NoReply, Blank
<1>4. \A b \in Agents, t \in Secrets :
        Unsaved(b, t)' => b # a /\ Unsaved(b, t) /\ disk'[b] = disk[b]
  BY <1>1, <1>2, NoneAssumption DEF Unsaved, NoReply
<1>5. OneCall'
  BY <1>1, <1>2, QuietAgent
<1>6. SavedBeforeUse'
  BY <1>1 DEF IInv, SavedBeforeUse
<1>7. NewIsPending'
  BY <1>1, <1>4 DEF IInv, NewIsPending, SameServer, SavedAccepted, Accepted
<1>8. UsedIsSaved'
  <2> SUFFICES ASSUME NEW n \in requests', n.kind = "report", pc'[n.agent] # "removed"
               PROVE  /\ disk'[n.agent].report # None
                      /\ n.secret = pending => disk'[n.agent].report = pending
    BY <1>1 DEF UsedIsSaved, SameServer
  <2>1. PICK m \in requests : m.agent = n.agent /\ m.kind = n.kind /\ m.secret = n.secret
    BY <1>2
  <2>2. m.agent \in Agents \ {a}
    BY <1>1, <2>1 DEF IInv, TypeOK, Request
  <2> QED BY <1>1, <2>1, <2>2 DEF IInv, UsedIsSaved
<1> QED BY <1>1, <1>3, <1>5, <1>6, <1>7, <1>8, NothingLearnt DEF IInv

-----------------------------------------------------------------------------
(* The theorems *)

(* The invariant is inductive. *)
LEMMA Inductive == IInv /\ [Next]_vars => IInv'
<1> SUFFICES ASSUME IInv, [Next]_vars PROVE IInv'
  OBVIOUS
<1>1. TypeOK'
  BY TypeStep DEF IInv
<1>2. CASE Owner
  BY <1>1, <1>2, OwnerInv
<1>3. ASSUME NEW m \in requests, Handle(m) PROVE IInv'
  BY <1>1, <1>3, AgentRegisterInv, AgentIdentityInv, RefuseInv, LoseRequestInv, IngestAgentInv
     DEF Handle
<1>4. ASSUME NEW a \in Agents, AgentStep(a) PROVE IInv'
  <2>1. CASE SendRegister(a)
    <3>1. memory[a].reg \in Secrets /\ memory[a].report = None /\ Call(a, "register", memory[a].reg)
      BY <2>1 DEF SendRegister, IInv, TypeOK, Config, Maybe
    <3> QED BY <1>1, <3>1, CallInv
  <2>2. CASE SendReport(a)
    <3>1. memory[a].report \in Secrets /\ Call(a, "report", memory[a].report)
      BY <2>2 DEF SendReport, IInv, TypeOK, Config, Maybe
    <3> QED BY <1>1, <3>1, CallInv
  <2> QED BY <1>1, <1>4, <2>1, <2>2, InstallInv, StartInv, ReceiveRegisteredInv, ApplyInv,
             SaveConfigInv, StopInv, RemoveInv DEF AgentStep
<1>5. CASE UNCHANGED vars
  <2>1. SameServer /\ UNCHANGED <<pc, disk, memory, requests, reply>>
    BY <1>5 DEF vars, SameServer, serverVars, tokenVars, agentVars, callVars
  <2>2. \A b \in Agents, s \in Secrets : Holds(b, s)' <=> Holds(b, s)
    BY <2>1 DEF Holds
  <2>3. OneCall' /\ SavedBeforeUse'
    BY <2>1 DEF IInv, OneCall, SavedBeforeUse
  <2>4. NewIsPending' /\ UsedIsSaved'
    BY <2>1, NothingNew, NothingUsed DEF Unsaved
  <2> QED BY <1>1, <2>1, <2>2, <2>3, <2>4, NothingLearnt DEF IInv
<1> QED BY <1>2, <1>3, <1>4, <1>5 DEF Next

LEMMA Initial == Init => IInv
<1> SUFFICES ASSUME Init PROVE IInv
  OBVIOUS
<1> USE NoneAssumption
<1>1. TypeOK
  <2>1. Blank \in Config /\ NoReply \in Reply
    BY DEF Blank, Config, NoReply, Reply, Maybe
  <2> QED BY <2>1 DEF Init, TypeOK, Maybe, Stages
<1>2. Accepted = {} /\ requests = {}
      /\ \A a \in Agents : pc[a] = "fresh" /\ disk[a] = Blank /\ memory[a] = Blank
                           /\ reply[a] = NoReply
  BY DEF Init, Accepted
<1>3. \A a \in Agents, s \in Secrets : ~Holds(a, s) /\ ~Unsaved(a, s)
  BY <1>2 DEF Holds, Unsaved, Blank, NoReply
<1>4. Generated /\ BindingConsistent /\ OneHolder /\ CurrentIsHolders
  BY <1>2, <1>3 DEF Init, Generated, BindingConsistent, OneHolder, CurrentIsHolders
<1>5. OneCall /\ SavedBeforeUse
  BY <1>2 DEF OneCall, SavedBeforeUse, NoReply
<1>6. NewIsPending /\ UsedIsSaved
  BY <1>2, <1>3 DEF NewIsPending, UsedIsSaved
<1> QED BY <1>1, <1>4, <1>5, <1>6 DEF IInv

(* The strengthened invariant holds in every reachable state. *)
THEOREM Invariant == Spec => []IInv
BY Initial, Inductive, PTL DEF Spec

(* No two installations ever have an accepted credential, however token,        *)
(* rotation and revocation interleave with late, lost and repeated calls.       *)
THEOREM HolderUnique == Spec => []OneHolder
<1>1. IInv => OneHolder
  BY DEF IInv
<1> QED BY <1>1, Invariant, PTL

(* A current reading is always the reading of the live credential's holder.     *)
THEOREM CurrentCorrect == Spec => []CurrentIsHolders
<1>1. IInv => CurrentIsHolders
  BY DEF IInv
<1> QED BY <1>1, Invariant, PTL

(* Rotation cannot lock an agent out, whatever is lost and whenever it crashes. *)
THEOREM AccessKept == Spec => KeepsAccess
<1> DEFINE Kept == \A a \in Agents : SavedAccepted(a)
                     => SavedAccepted(a)' \/ digest' = None \/ pc'[a] = "removed"
<1>1. ASSUME IInv, [Next]_vars PROVE [Kept]_vars
  <2> SUFFICES ASSUME NEW a \in Agents, SavedAccepted(a), digest' # None,
                      pc'[a] # "removed", Next
               PROVE  SavedAccepted(a)'
    BY <1>1
  <2> USE <1>1, NoneAssumption
          DEF SavedAccepted, Accepted, serverVars, tokenVars, agentVars, callVars
  <2>1. disk[a].report # None /\ digest # None
    BY DEF IInv, BindingConsistent
  <2>2. CASE Owner
    BY <2>1, <2>2 DEF Owner, AgentEnable, AgentRegistration, AgentDisable, AgentRotate,
                      ExpireRegistration, IInv, BindingConsistent
  <2>3. ASSUME NEW m \in requests, Handle(m) PROVE SavedAccepted(a)'
    <3>1. CASE AgentRegister(m) \/ AgentIdentity(m) \/ Refuse(m) \/ LoseRequest(m)
      BY <2>1, <3>1 DEF AgentRegister, AgentIdentity, Refuse, LoseRequest
    <3>2. ASSUME NEW sample \in BOOLEAN, NEW fresh \in BOOLEAN, IngestAgent(m, sample, fresh)
          PROVE  SavedAccepted(a)'
      <4>1. m.agent \in Agents /\ m.secret \in Secrets /\ m.kind = "report"
            /\ m.secret \in Accepted /\ disk' = disk /\ pc' = pc
        BY <3>2 DEF IngestAgent, IInv, TypeOK, Request
      <4>2. Holds(a, disk[a].report) /\ disk[a].report \in Secrets
            /\ Holds(m.agent, m.secret)
        BY <2>1, <4>1 DEF Holds, IInv, TypeOK, Config, Maybe
      <4>3. m.agent = a
        BY <4>1, <4>2 DEF IInv, OneHolder
      <4>4. m.secret = pending => disk[a].report = pending
        BY <4>1, <4>3 DEF IInv, UsedIsSaved
      <4> QED BY <2>1, <3>2, <4>1, <4>4 DEF IngestAgent
    <3> QED BY <2>3, <3>1, <3>2 DEF Handle
  <2>4. ASSUME NEW b \in Agents, AgentStep(b) PROVE SavedAccepted(a)'
    <3>1. UNCHANGED <<digest, pending>>
      BY <2>4 DEF AgentStep, Install, Start, SendRegister, SendReport, Call, ReceiveRegistered,
                  Apply, SaveConfig, ReceiveUnauthorized, GiveUp, Crash, Remove
    <3>2. CASE SaveConfig(b) /\ b = a
      <4>1. pc[a] = "saving" /\ memory[a].report \in Secrets /\ disk'[a] = memory[a]
        BY <3>2 DEF SaveConfig, IInv, SavedBeforeUse, TypeOK, Config, Maybe
      <4>2. memory[a].report = pending
        BY <4>1 DEF IInv, NewIsPending, Unsaved
      <4> QED BY <3>1, <4>1, <4>2
    <3>3. CASE \E t \in handedOut : Install(b, t)
      <4>1. b # a
        BY <2>1, <3>3 DEF Install, IInv, SavedBeforeUse, Blank
      <4> QED BY <3>1, <3>3, <4>1 DEF Install, IInv, TypeOK
    <3>4. CASE Remove(b)
      <4>1. b # a
        BY <3>4 DEF Remove, IInv, TypeOK
      <4> QED BY <3>1, <3>4, <4>1 DEF Remove, IInv, TypeOK
    <3>5. CASE SaveConfig(b) /\ b # a
      BY <3>1, <3>5 DEF SaveConfig, IInv, TypeOK
    <3> QED BY <2>4, <3>1, <3>2, <3>3, <3>4, <3>5
            DEF AgentStep, Start, SendRegister, SendReport, Call, ReceiveRegistered, Apply,
                ReceiveUnauthorized, GiveUp, Crash
  <2> QED BY <2>2, <2>3, <2>4 DEF Next
<1>2. Spec => [][Kept]_vars
  BY <1>1, Invariant, PTL DEF Spec
<1> QED BY <1>2 DEF KeepsAccess

(* Enrollment implements HostBinding: every step binds, reports for, revokes or *)
(* opens the host's binding, or leaves it as it is.                             *)
THEOREM Refinement == Spec => ImplementsBinding
<1> USE NoneAssumption
<1>1. Init => Binding!Init
  BY DEF Init, Binding!Init
<1>2. ASSUME IInv, [Next]_vars PROVE [Binding!Next]_(Binding!vars)
  <2> USE <1>2 DEF serverVars
  <2>1. CASE Owner
    <3>1. CASE AgentEnable
      BY <3>1 DEF AgentEnable, Binding!Next, Binding!Open
    <3>2. CASE AgentDisable
      BY <3>2 DEF AgentDisable, Binding!Next, Binding!Revoke
    <3>3. CASE AgentRegistration \/ AgentRotate \/ ExpireRegistration
      BY <3>3 DEF AgentRegistration, AgentRotate, ExpireRegistration, Binding!vars
    <3> QED BY <2>1, <3>1, <3>2, <3>3 DEF Owner
  <2>2. ASSUME NEW m \in requests, Handle(m) PROVE [Binding!Next]_(Binding!vars)
    <3>1. m.agent \in Agents /\ m.secret \in Secrets
      BY DEF IInv, TypeOK, Request
    <3>2. CASE AgentRegister(m)
      <4>1. Binding!Bind(m.agent)
        BY <3>2 DEF AgentRegister, Binding!Bind
      <4> QED BY <3>1, <4>1 DEF Binding!Next
    <3>3. CASE AgentIdentity(m) \/ Refuse(m) \/ LoseRequest(m)
      BY <3>3 DEF AgentIdentity, Refuse, LoseRequest, Binding!vars
    <3>4. ASSUME NEW sample \in BOOLEAN, NEW fresh \in BOOLEAN, IngestAgent(m, sample, fresh)
          PROVE  [Binding!Next]_(Binding!vars)
      <4>1. digest # None /\ digest' # None /\ boundAgent' = boundAgent /\ enabled' = enabled
        BY <3>4 DEF IngestAgent, IInv, BindingConsistent, Accepted
      <4>2. CASE sample /\ fresh
        <5>1. Binding!Report(m.agent)
          BY <3>4, <4>1, <4>2 DEF IngestAgent, Binding!Report
        <5> QED BY <3>1, <5>1 DEF Binding!Next
      <4>3. CASE ~(sample /\ fresh)
        BY <3>4, <4>1, <4>3 DEF IngestAgent, Binding!vars
      <4> QED BY <4>2, <4>3
    <3> QED BY <2>2, <3>2, <3>3, <3>4 DEF Handle
  <2>3. ASSUME NEW a \in Agents, AgentStep(a) PROVE [Binding!Next]_(Binding!vars)
    BY <2>3 DEF AgentStep, Install, Start, SendRegister, SendReport, Call, ReceiveRegistered,
                Apply, SaveConfig, ReceiveUnauthorized, GiveUp, Crash, Remove, Binding!vars
  <2>4. CASE UNCHANGED vars
    BY <2>4 DEF vars, Binding!vars
  <2> QED BY <2>1, <2>2, <2>3, <2>4 DEF Next
<1> QED BY <1>1, <1>2, Invariant, PTL DEF Spec, ImplementsBinding, Binding!Spec
====

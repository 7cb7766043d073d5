------------------------------ MODULE AccessProofs ------------------------------
(***************************************************************************)
(* Theorems about who may do what: the sockets of the gateway, the doors   *)
(* through which commands reach the desk, and the payment gate.  They hold *)
(* in every behaviour of DeskServices and for every value of its constants *)
(* that its assumptions admit.                                             *)
(***************************************************************************)
EXTENDS DeskServices, SequenceTheorems, TLAPS

-------------------------------------------------------------------------------
(* WebSocket gateway                                                          *)

\* Every behaviour of the services is one of the gateway, or leaves it at rest.
LEMMA GatewayRuns == Safety => Ws!WsSpec
  <1>1. MCInit => Ws!WsInit
    BY DEF MCInit
  <1>2. [MCNext]_mcVars => [Ws!WsNext]_(Ws!wsVars)
    BY DEF MCNext, Rest, On, mcVars, wsVars, Ws!wsVars
  <1>3. QED
    BY <1>1, <1>2, PTL DEF Safety, Ws!WsSpec

\* A client has only the channels its actor may read, and has been sent what it may see.
WsIInv ==
  /\ clients \in [Sockets -> [state : {"closed", "open", "closing"},
                              actor : SocketActors \cup {"nobody"}, channels : SUBSET Ws!Channels]]
  /\ sent \in [Sockets -> SUBSET {"sanitized", "raw"}]
  /\ \A s \in Sockets : \A c \in clients[s].channels : Ws!canSubscribe(clients[s].actor, c)
  /\ Ws!RawEventsStayInside

\* A broadcast on a channel that every receiver has keeps the invariant.
LEMMA DeliverKeeps ==
  ASSUME WsIInv, NEW channel, NEW receivers, Ws!Deliver(channel, receivers),
         channel = "public" \/ \A s \in receivers \cap Sockets : channel \in clients[s].channels,
         channel \in {"public", "operator", "audit"},
         UNCHANGED clients
  PROVE  WsIInv'
  <1>1. PICK dropped \in SUBSET receivers :
          sent' = [s \in Sockets |->
                    IF s \in receivers \ dropped /\ clients[s].state = "open"
                    THEN sent[s] \cup {Ws!payloadFor(channel)} ELSE sent[s]]
    BY DEF Ws!Deliver
  <1>2. sent' \in [Sockets -> SUBSET {"sanitized", "raw"}]
    BY <1>1 DEF WsIInv, Ws!payloadFor
  <1>3. ASSUME NEW s \in Sockets, "raw" \in sent'[s] PROVE clients[s].actor = "operator"
    BY <1>1, <1>3 DEF WsIInv, Ws!payloadFor, Ws!RawEventsStayInside, Ws!canSubscribe
  <1>4. QED
    BY <1>2, <1>3 DEF WsIInv, Ws!RawEventsStayInside

\* Every step of the gateway keeps the invariant.
LEMMA WsStep == WsIInv /\ [Ws!WsNext]_(Ws!wsVars) => WsIInv'
  <1> SUFFICES ASSUME WsIInv, [Ws!WsNext]_(Ws!wsVars) PROVE WsIInv'
    OBVIOUS
  <1> USE DEF WsIInv, Ws!RawEventsStayInside
  <1>1. ASSUME NEW s \in Sockets, Ws!Closed(s) PROVE WsIInv'
    BY <1>1 DEF Ws!Closed, Ws!NoClient
  <1>2. ASSUME NEW s \in Sockets, Ws!BadMessage(s) PROVE WsIInv'
    BY <1>2 DEF Ws!BadMessage
  <1>3. ASSUME NEW s \in Sockets, Ws!Command(s) PROVE WsIInv'
    BY <1>3 DEF Ws!Command
  <1>4. ASSUME NEW s \in Sockets, NEW a \in SocketActors, Ws!Open(s, a) PROVE WsIInv'
    BY <1>4 DEF Ws!Open, Ws!canSubscribe, Ws!Channels
  <1>5. ASSUME NEW s \in Sockets, NEW c \in Ws!Channels, Ws!SubAdd(s, c) PROVE WsIInv'
    BY <1>5 DEF Ws!SubAdd
  <1>6. ASSUME NEW s \in Sockets, NEW c \in Ws!Channels, Ws!SubRefused(s, c) PROVE WsIInv'
    BY <1>6 DEF Ws!SubRefused
  <1>7. ASSUME NEW s \in Sockets, NEW c \in Ws!Channels, Ws!SubRemove(s, c) PROVE WsIInv'
    BY <1>7 DEF Ws!SubRemove
  <1>8. ASSUME NEW type \in {"STATE_UPDATE", "FLOOR_TAPE", "POSITION_UPDATE", "ORDER_UPDATE"},
               Ws!UiEvent(type)
        PROVE  WsIInv'
    BY <1>8, DeliverKeeps DEF Ws!UiEvent, Ws!broadcastChannelForType
  <1>9. ASSUME Ws!AuditEvent PROVE WsIInv'
    BY <1>9, DeliverKeeps DEF Ws!AuditEvent
  <1>10. ASSUME Ws!Heartbeat PROVE WsIInv'
    BY <1>10, DeliverKeeps DEF Ws!Heartbeat
  <1>11. ASSUME NEW a \in SocketActors, Ws!WindowEnds(a) \/ Ws!BanEnds(a) PROVE WsIInv'
    BY <1>11 DEF Ws!WindowEnds, Ws!BanEnds
  <1>12. CASE UNCHANGED Ws!wsVars
    BY <1>12 DEF Ws!wsVars
  <1>13. QED
    BY <1>1, <1>2, <1>3, <1>4, <1>5, <1>6, <1>7, <1>8, <1>9, <1>10, <1>11, <1>12 DEF Ws!WsNext

\* Whatever a socket subscribed to and whoever held it before, the desk's positions, orders
\* and audits as they are reach the sockets of operators only (ws-gateway index.ts).
THEOREM RawEventsInside == Safety => []RawEventsStayInside
  <1>1. Ws!WsInit => WsIInv
    BY DEF Ws!WsInit, WsIInv, Ws!NoClient, Ws!RawEventsStayInside
  <1>2. WsIInv => RawEventsStayInside
    BY DEF WsIInv, RawEventsStayInside
  <1>3. QED
    BY <1>1, <1>2, WsStep, GatewayRuns, PTL DEF Ws!WsSpec

-------------------------------------------------------------------------------
(* Commands                                                                   *)

\* Every behaviour of the services is one of the doors, or leaves them at rest.
LEMMA GateRuns == Safety => Gate!GateSpec
  <1>1. MCInit => Gate!GateInit
    BY DEF MCInit
  <1>2. [MCNext]_mcVars => [Gate!GateNext]_(Gate!gateVars)
    BY DEF MCNext, Rest, On, mcVars, gateVars, Gate!gateVars
  <1>3. QED
    BY <1>1, <1>2, PTL DEF Safety, Gate!GateSpec

Roles == {"operator_admin", "operator_view"}
Capabilities == Gate!ReadOnly \cup {"execute"}
\* The type of an operator's claims, of a socket's identity and of a message.
Claims == [actor : {"human"}, roles : SUBSET Roles, mfa : BOOLEAN]
Identities == [actor : {"system", "human", "external_agent"}, roles : SUBSET Roles, mfa : BOOLEAN,
               caps : SUBSET Capabilities]
Messages == [command : GateCommands \cup {"/risk-policy"},
             actor : Gate!Everyone \cup {"system"}, role : Roles \cup {"none"},
             caps : SUBSET Capabilities, wellFormed : BOOLEAN, byAdmin : BOOLEAN]

Verdicts == {"waiting", "refused", "invalid", "executed", "lost"}

\* What every door sees to: a change passes the runtime's look, and an administrator made it.
Checked(m) == m.command \in Gate!Mutating => Gate!runtimeAccepts(m) /\ m.byAdmin

\* Every message is one that the runtime accepts if it changes the desk, and the runtime has
\* refused only what it does not accept.
GateIInv ==
  /\ token \in Claims \cup {Gate!NoOne}
  /\ socket \in Identities \cup {Gate!NoOne}
  /\ stream \in Seq(Messages)
  /\ verdict \in Seq(Verdicts) /\ Len(verdict) = Len(stream)
  /\ \A i \in 1..Len(stream) :
       /\ Checked(stream[i])
       /\ verdict[i] = "refused" => ~Gate!runtimeAccepts(stream[i])

\* A door that publishes only what is checked keeps the invariant.
LEMMA SubmitKeeps ==
  ASSUME GateIInv, NEW m \in Messages,
         Gate!Submit(m.command, m.actor, m.role, m.caps, m.wellFormed, m.byAdmin),
         Checked(m), UNCHANGED <<token, socket>>
  PROVE  GateIInv'
  <1>1. stream' = Append(stream, m) /\ verdict' = Append(verdict, "waiting")
    BY DEF Gate!Submit, Messages
  <1>2. /\ stream' \in Seq(Messages) /\ Len(stream') = Len(stream) + 1
        /\ \A i \in 1..Len(stream') : stream'[i] = IF i = Len(stream) + 1 THEN m ELSE stream[i]
    BY <1>1 DEF GateIInv
  <1>3. /\ verdict' \in Seq(Verdicts) /\ Len(verdict') = Len(stream) + 1
        /\ \A i \in 1..Len(stream') : verdict'[i] = IF i = Len(stream) + 1 THEN "waiting" ELSE verdict[i]
    BY <1>1, <1>2 DEF GateIInv, Verdicts
  <1>4. QED
    BY <1>2, <1>3 DEF GateIInv, Checked

\* A change asks for an administrator's role and the capability to execute.
LEMMA Policies ==
  \A c : c \in Gate!Mutating =>
           Gate!commandPolicy(c) = [actors |-> {"human", "internal_agent"},
                                   roles |-> {"operator_admin"}, caps |-> {"execute"}]
  BY DEF Gate!commandPolicy, Gate!Mutating, Gate!ReadOnly, Gate!Admin

\* The runtime accepts a change of an administrator or of the desk's agent.
LEMMA AcceptedOfAdmins ==
  \A m : /\ m.command \in Gate!Mutating
         /\ m.actor \in {"human", "internal_agent"}
         /\ m.role = "operator_admin" /\ "execute" \in m.caps
         => Gate!runtimeAccepts(m)
  BY Policies DEF Gate!runtimeAccepts

\* The capabilities of every tier are capabilities.
LEMMA TierCaps == \A tier \in 0..3 : Gate!tierCaps(tier) \in SUBSET Capabilities
  BY DEF Gate!tierCaps, Capabilities, Gate!ReadOnly

\* The role that a message tells is a role or none.
LEMMA RoleType == \A roles \in SUBSET Roles : Gate!publishedRole(roles) \in Roles \cup {"none"}
  BY DEF Gate!publishedRole, Roles, Gate!Admin, Gate!Viewer

\* POST /v1/operator/command keeps the invariant.
LEMMA OperatorCommandKeeps ==
  ASSUME GateIInv, NEW c \in GateCommands, NEW ok \in BOOLEAN, Gate!OperatorCommand(c, ok)
  PROVE  GateIInv'
  <1> DEFINE m == [command |-> c, actor |-> "human", role |-> Gate!publishedRole(token.roles),
                   caps |-> {"execute"}, wellFormed |-> ok,
                   byAdmin |-> "operator_admin" \in token.roles]
  <1>1. token \in Claims
    BY DEF Gate!OperatorCommand, GateIInv
  <1>2. m \in Messages
    BY <1>1, RoleType DEF Messages, Claims, Gate!Everyone, Capabilities
  <1>3. ASSUME c \in Gate!Mutating PROVE Gate!runtimeAccepts(m) /\ m.byAdmin
    <2>1. "operator_admin" \in token.roles
      BY <1>3, Policies DEF Gate!OperatorCommand, Gate!mayAs
    <2>2. m.role = "operator_admin"
      BY <2>1 DEF Gate!publishedRole, Gate!Admin
    <2>3. QED
      BY <1>3, <2>1, <2>2, AcceptedOfAdmins
  <1>4. QED
    BY <1>2, <1>3, SubmitKeeps DEF Gate!OperatorCommand, Gate!Admin, Checked

\* PATCH /v1/operator/config/risk keeps it.
LEMMA PatchConfigKeeps ==
  ASSUME GateIInv, NEW ok \in BOOLEAN, Gate!PatchConfig(ok)
  PROVE  GateIInv'
  <1> DEFINE m == [command |-> "/risk-policy", actor |-> "human",
                   role |-> Gate!publishedRole(token.roles), caps |-> {"execute"},
                   wellFormed |-> ok, byAdmin |-> TRUE]
  <1>1. token \in Claims
    BY DEF Gate!PatchConfig, GateIInv
  <1>2. m \in Messages
    BY <1>1, RoleType DEF Messages, Claims, Gate!Everyone, Capabilities
  <1>3. m.role = "operator_admin"
    BY DEF Gate!PatchConfig, Gate!publishedRole, Gate!Admin
  <1>4. Gate!runtimeAccepts(m)
    BY <1>3, AcceptedOfAdmins DEF Gate!Mutating
  <1>5. QED
    BY <1>2, <1>4, SubmitKeeps DEF Gate!PatchConfig, Checked

\* POST /v1/agent/command keeps it: an agent asks questions only.
LEMMA AgentCommandKeeps ==
  ASSUME GateIInv, NEW c \in GateCommands, NEW tier \in 0..3, NEW ok \in BOOLEAN,
         Gate!AgentCommand(c, tier, ok)
  PROVE  GateIInv'
  <1> DEFINE m == [command |-> c, actor |-> "external_agent", role |-> "none",
                   caps |-> Gate!tierCaps(tier), wellFormed |-> ok, byAdmin |-> FALSE]
  <1>1. m \in Messages
    BY TierCaps DEF Messages, Gate!Everyone
  <1>2. c \notin Gate!Mutating
    BY Policies DEF Gate!AgentCommand
  <1>3. QED
    BY <1>1, <1>2, SubmitKeeps DEF Gate!AgentCommand, Checked

\* A socket's command keeps it: the socket's identity is the token's it was opened with.
LEMMA SocketCommandKeeps ==
  ASSUME GateIInv, NEW c \in GateCommands, NEW ok \in BOOLEAN, Gate!SocketCommand(c, ok)
  PROVE  GateIInv'
  <1> DEFINE m == [command |-> c, actor |-> socket.actor, role |-> Gate!publishedRole(socket.roles),
                   caps |-> socket.caps, wellFormed |-> ok,
                   byAdmin |-> "operator_admin" \in socket.roles]
  <1>1. socket \in Identities
    BY DEF Gate!SocketCommand, GateIInv
  <1>2. m \in Messages
    BY <1>1, RoleType DEF Messages, Identities, Gate!Everyone
  <1>3. ASSUME c \in Gate!Mutating PROVE Gate!runtimeAccepts(m) /\ m.byAdmin
    <2>1. "operator_admin" \in socket.roles
      BY <1>3, Policies DEF Gate!SocketCommand, Gate!mayAs
    <2>2. m.role = "operator_admin"
      BY <2>1 DEF Gate!publishedRole, Gate!Admin
    <2>3. QED
      <3>1. socket.actor \in {"human", "internal_agent"} /\ "execute" \in socket.caps
        BY <1>3, Policies DEF Gate!SocketCommand
      <3>2. QED
        BY <1>3, <2>1, <2>2, <3>1, AcceptedOfAdmins
  <1>4. QED
    BY <1>2, <1>3, SubmitKeeps DEF Gate!SocketCommand, Gate!Admin, Checked

\* The agent runner's command keeps it.
LEMMA RunnerCommandKeeps ==
  ASSUME GateIInv, Gate!RunnerCommand
  PROVE  GateIInv'
  <1> DEFINE m == [command |-> "/risk-policy", actor |-> "internal_agent", role |-> "operator_admin",
                   caps |-> {"execute"}, wellFormed |-> TRUE, byAdmin |-> TRUE]
  <1>1. m \in Messages
    BY DEF Messages, Gate!Everyone, Capabilities, Roles
  <1>2. Gate!runtimeAccepts(m)
    BY AcceptedOfAdmins DEF Gate!Mutating
  <1>3. QED
    BY <1>1, <1>2, SubmitKeeps DEF Gate!RunnerCommand, Checked, Gate!Admin

\* Every step of the doors and the runtime keeps the invariant.
LEMMA GateStep == GateIInv /\ [Gate!GateNext]_(Gate!gateVars) => GateIInv'
  <1> SUFFICES ASSUME GateIInv, [Gate!GateNext]_(Gate!gateVars) PROVE GateIInv'
    OBVIOUS
  <1>1. CASE Gate!Login \/ Gate!TokenExpires
    BY <1>1 DEF GateIInv, Gate!Login, Gate!TokenExpires, Claims, Roles, Gate!Admin, Gate!Viewer
  <1>2. CASE Gate!Connect \/ Gate!Disconnect
    <2>1. Gate!Public \in Identities
      BY DEF Gate!Public, Identities
    <2>2. ASSUME NEW claims \in Claims PROVE Gate!operatorIdentity(claims) \in Identities
      BY TierCaps DEF Claims, Gate!operatorIdentity, Identities, Capabilities
    <2>3. ASSUME NEW tier \in 0..3 PROVE Gate!agentIdentity(tier) \in Identities
      BY TierCaps DEF Gate!agentIdentity, Identities
    <2>4. QED
      BY <1>2, <2>1, <2>2, <2>3 DEF GateIInv, Gate!Connect, Gate!Disconnect
  <1>3. CASE Gate!HandleCommand
    <2>1. PICK i \in 1..Len(stream) : verdict' = [verdict EXCEPT ![i] =
            IF ~Gate!runtimeAccepts(stream[i]) THEN "refused"
            ELSE IF stream[i].command = "/risk-policy" /\ ~stream[i].wellFormed THEN "invalid"
            ELSE "executed"]
      BY <1>3 DEF Gate!HandleCommand, Gate!Unread
    <2>2. verdict' \in Seq(Verdicts) /\ Len(verdict') = Len(stream)
      BY <2>1 DEF GateIInv, Verdicts
    <2>3. QED
      BY <1>3, <2>1, <2>2 DEF GateIInv, Gate!HandleCommand
  <1>4. CASE Gate!RuntimeAttaches
    <2>1. verdict' \in Seq(Verdicts) /\ Len(verdict') = Len(stream)
      BY <1>4, IsASeq DEF GateIInv, Verdicts, Gate!RuntimeAttaches
    <2>2. QED
      BY <1>4, <2>1 DEF GateIInv, Gate!RuntimeAttaches
  <1>5. CASE Gate!RuntimeStops
    BY <1>5 DEF GateIInv, Gate!RuntimeStops
  <1>6. CASE UNCHANGED Gate!gateVars
    BY <1>6 DEF GateIInv, Gate!gateVars
  <1>7. QED
    BY <1>1, <1>2, <1>3, <1>4, <1>5, <1>6, OperatorCommandKeeps, PatchConfigKeeps, AgentCommandKeeps,
       SocketCommandKeeps, RunnerCommandKeeps DEF Gate!GateNext

\* The invariant of the doors holds in every behaviour of the services.
LEMMA GateHolds == Safety => []GateIInv
  <1>1. Gate!GateInit => GateIInv
    BY DEF Gate!GateInit, GateIInv
  <1>2. QED
    BY <1>1, GateStep, GateRuns, PTL DEF Gate!GateSpec

\* The doors and the runtime agree: no change that a door has answered with submitted is
\* refused by the runtime for its sender, whatever token, socket or tier it came with.
THEOREM AcknowledgedNotRefused == Safety => []AcknowledgedIsAccepted
  <1>1. GateIInv => AcknowledgedIsAccepted
    BY DEF GateIInv, Checked, AcknowledgedIsAccepted, Gate!AcknowledgedIsAccepted
  <1>2. QED
    BY <1>1, GateHolds, PTL

\* The runtime carries out a change for an administrator or the desk's own agent only, with any
\* number of messages, expired tokens, open sockets and restarts of the runtime.
THEOREM AdminsChangeTheDesk == Safety => []DeskChangedByAdminsOnly
  <1>1. GateIInv => DeskChangedByAdminsOnly
    BY DEF GateIInv, Checked, DeskChangedByAdminsOnly, Gate!DeskChangedByAdminsOnly
  <1>2. QED
    BY <1>1, GateHolds, PTL

-------------------------------------------------------------------------------
(* Payment gate                                                               *)

\* Every behaviour of the services is one of the payment gate, or leaves it at rest.
LEMMA PaymentsRun == Safety => Ent!EntSpec
  <1>1. MCInit => Ent!EntInit
    BY DEF MCInit
  <1>2. [MCNext]_mcVars => [Ent!EntNext]_(Ent!entVars)
    BY DEF MCNext, Rest, On, mcVars, entVars, Ent!entVars
  <1>3. QED
    BY <1>1, <1>2, PTL DEF Safety, Ent!EntSpec

\* An entitlement that the running API can still serve: its challenge is not forgotten, or a
\* proof was accepted, or a request for it is in the gate.
Open(i) == \/ i \in challenges \cup verified
           \/ \E r \in Requests : gate[r] # Ent!NoRequest /\ gate[r].id = i

\* The types of the payment gate.
EntTypes ==
  /\ cache \in [ChallengeIds -> Nat \cup {-1}] /\ row \in [ChallengeIds -> Nat \cup {-1}]
  /\ upserts \subseteq ChallengeIds \X Nat
  /\ served \in [ChallengeIds -> Nat]
  /\ usage \in [ChallengeIds -> [requests : Nat, failures : Nat]]
  /\ gate \in [Requests -> [id : ChallengeIds, capable : BOOLEAN] \cup {Ent!NoRequest}]
  /\ verified \cup challenges \subseteq ChallengeIds

\* What makes the quota hold is that an entitlement that can still be served is in the cache:
\* its quota and what it has served are together within what was sold.  After a restart of the
\* API the database may remember a larger quota, but nobody can prove a payment for it any more.
EntIInv ==
  /\ EntTypes
  /\ challenges \subseteq issued /\ verified \subseteq issued \cap paid
  /\ \A r \in Requests : gate[r] # Ent!NoRequest => gate[r].id \in issued \cap paid
  /\ \A i \in ChallengeIds \ issued : served[i] = 0
  /\ \A i \in ChallengeIds : Open(i) => cache[i] \in Nat /\ served[i] + cache[i] <= Quota
  /\ \A i \in ChallengeIds : served[i] <= Quota /\ (served[i] > 0 => i \in paid)

\* Every step of the payment gate keeps the invariant.
LEMMA EntStep == EntIInv /\ [Ent!EntNext]_(Ent!entVars) => EntIInv'
  <1> SUFFICES ASSUME EntIInv, [Ent!EntNext]_(Ent!entVars) PROVE EntIInv'
    OBVIOUS
  <1> USE QuotaAssumption DEF EntIInv, EntTypes, Open
  <1>1. ASSUME NEW i \in ChallengeIds, Ent!Handshake(i) PROVE EntIInv'
    BY <1>1 DEF Ent!Handshake, Ent!setEntitlement
  <1>2. ASSUME NEW i \in ChallengeIds, Ent!VerifyFails(i) PROVE EntIInv'
    BY <1>2 DEF Ent!VerifyFails
  <1>3. ASSUME NEW i \in ChallengeIds, Ent!Verify(i) PROVE EntIInv'
    <2>1. i \in challenges /\ cache' = cache
      BY <1>3 DEF Ent!Verify, Ent!verifyProof, Ent!getEntitlement, Ent!Nothing
    <2>2. QED
      BY <1>3, <2>1 DEF Ent!Verify
  <1>4. ASSUME NEW i \in ChallengeIds, Ent!WindowTurns(i) PROVE EntIInv'
    BY <1>4 DEF Ent!WindowTurns
  <1>5. ASSUME NEW i \in ChallengeIds, Ent!BanLapses(i) \/ Ent!ChallengeOverdue(i) \/ Ent!EntitlementExpires(i)
        PROVE EntIInv'
    BY <1>5 DEF Ent!BanLapses, Ent!ChallengeOverdue, Ent!EntitlementExpires
  <1>6. ASSUME NEW r \in Requests, Ent!NotFound(r) PROVE EntIInv'
    BY <1>6 DEF Ent!NotFound
  <1>7. ASSUME NEW r \in Requests, Ent!Decide(r) PROVE EntIInv'
    <2> DEFINE i == gate[r].id
    <2>1. i \in issued \cap paid \cap ChallengeIds /\ Open(i) /\ Ent!getEntitlement(i) = cache[i]
      BY <1>7 DEF Ent!Decide, Ent!getEntitlement, Ent!Nothing, Ent!NoRequest
    <2>2. CASE UNCHANGED <<cache, upserts, served>>
      BY <1>7, <2>1, <2>2 DEF Ent!Decide
    <2>3. CASE /\ cache[i] > 0 /\ Ent!setEntitlement(i, cache[i] - 1)
               /\ served' = [served EXCEPT ![i] = @ + 1]
      BY <1>7, <2>1, <2>3 DEF Ent!Decide, Ent!setEntitlement
    <2>4. QED
      BY <1>7, <2>1, <2>2, <2>3 DEF Ent!Decide, Ent!consumeQuota
  <1>8. ASSUME NEW r \in Requests, NEW i \in ChallengeIds, NEW capable \in BOOLEAN, Ent!Enter(r, i, capable)
        PROVE EntIInv'
    BY <1>8 DEF Ent!Enter
  <1>9. CASE Ent!Upsert
    BY <1>9 DEF Ent!Upsert
  <1>10. CASE Ent!ApiRestarts
    BY <1>10 DEF Ent!ApiRestarts, Ent!Nothing
  <1>11. CASE UNCHANGED Ent!entVars
    BY <1>11 DEF Ent!entVars
  <1>12. QED
    BY <1>1, <1>2, <1>3, <1>4, <1>5, <1>6, <1>7, <1>8, <1>9, <1>10, <1>11 DEF Ent!EntNext

\* No entitlement serves more requests than its quota, and none before a proof of payment was
\* accepted, with any number of requests in the gate at once, writes that land in any order,
\* and restarts of the API.
THEOREM RequestsArePaid == Safety => []ServedAsPaidFor
  <1>1. Ent!EntInit => EntIInv
    BY QuotaAssumption DEF Ent!EntInit, EntIInv, EntTypes, Open, Ent!Nothing, Ent!NoRequest
  <1>2. EntIInv => ServedAsPaidFor
    BY DEF EntIInv, ServedAsPaidFor, Ent!ServedAsPaidFor
  <1>3. QED
    BY <1>1, <1>2, EntStep, PaymentsRun, PTL DEF Ent!EntSpec
===============================================================================

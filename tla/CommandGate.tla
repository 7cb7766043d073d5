----------------------------- MODULE CommandGate -----------------------------
(***************************************************************************)
(* Who may change the desk.  A command reaches the stream hlp.commands     *)
(* through one of five doors: two operator routes and an agent route of    *)
(* the API (apps/api/src/index.ts), a socket of the gateway                *)
(* (apps/ws-gateway/src/index.ts) and the agent runner.  Each door looks   *)
(* at the commands' policy (packages/contracts/src/index.ts) before it     *)
(* publishes and answers "submitted", and the runtime, which sees only     *)
(* what the message says of its sender, looks at it again                  *)
(* (apps/runtime/src/orchestrator/state.ts).  Sanitising, prompt filters,  *)
(* audits and the table of commands, which nobody reads, are left out.     *)
(***************************************************************************)
EXTENDS Naturals, Sequences

CONSTANTS GateCommands,   \* the commands that are submitted
          MfaRequired,    \* OPERATOR_MFA_REQUIRED
          AgentTokens,    \* WS_ALLOW_INSECURE_TOKENS, outside production
          MaxSubmitted,   \* bound: messages in the stream
          MaxOutages      \* bound: restarts of the runtime

VARIABLES
  token,    \* the claims of the operator's token while it is valid
  socket,   \* the identity a socket of the gateway was opened with
  stream,   \* the messages of hlp.commands
  verdict,  \* what became of each message
  attached, \* the runtime's consumer is running
  outages

gateVars == <<token, socket, stream, verdict, attached, outages>>

Admin == "operator_admin"
Viewer == "operator_view"
NoOne == [actor |-> "none"]

ReadOnly == {"/status", "/positions", "/explain"}
Mutating == {"/halt", "/resume", "/flatten", "/risk-policy"}
Everyone == {"human", "internal_agent", "external_agent"}

\* Mutant: /risk-policy is open to the agents that may execute, as the role matrix of
\* SPEC.md has it for agent_tier2.
commandPolicyOpen(c) ==
  IF c \in {"/status", "/positions", "/explain"}
  THEN [actors |-> Everyone, roles |-> {}, caps |-> {c}]
  ELSE IF c = "/risk-policy"
  THEN [actors |-> Everyone, roles |-> {}, caps |-> {"execute"}]
  ELSE [actors |-> {"human", "internal_agent"}, roles |-> {Admin}, caps |-> {"execute"}]
\* A read-only command's capability bears its name.
commandPolicy(c) ==
  IF c \in ReadOnly
  THEN [actors |-> Everyone, roles |-> {}, caps |-> {c}]
  ELSE [actors |-> {"human", "internal_agent"}, roles |-> {Admin}, caps |-> {"execute"}]

\* DEFAULT_TIER_CAPABILITIES, as far as commands are concerned.
tierCaps(tier) ==
  CASE tier = 0 -> {"/status"}
    [] tier = 1 -> {"/status", "/explain"}
    [] OTHER    -> {"/status", "/explain", "/positions", "execute"}

\* resolveIdentity(): a viewer's list of its own, an administrator has tier 3.
Public == [actor |-> "system", roles |-> {}, mfa |-> FALSE, caps |-> {}]
operatorIdentity(claims) ==
  [actor |-> "human", roles |-> claims.roles, mfa |-> claims.mfa,
   caps |-> IF Admin \in claims.roles THEN tierCaps(3) ELSE ReadOnly]
agentIdentity(tier) ==
  [actor |-> "external_agent", roles |-> {}, mfa |-> FALSE, caps |-> tierCaps(tier)]

\* Mutant: the role told is the first of the token's; the viewer's comes first.
publishedRoleFirst(roles) == IF roles = {} THEN "none" ELSE Viewer
\* The one role that the message tells.
publishedRole(roles) ==
  IF Admin \in roles THEN Admin ELSE IF Viewer \in roles THEN Viewer ELSE "none"

GateInit ==
  /\ token = NoOne /\ socket = NoOne
  /\ stream = <<>> /\ verdict = <<>>
  /\ attached = FALSE /\ outages = 0

\* byAdmin, which no message says: whether the sender's claims held the admin role,
\* or the sender is the desk's own agent.
Submit(c, actor, role, caps, wellFormed, byAdmin) ==
  /\ Len(stream) < MaxSubmitted
  /\ stream' = Append(stream, [command |-> c, actor |-> actor, role |-> role, caps |-> caps,
                               wellFormed |-> wellFormed, byAdmin |-> byAdmin])
  /\ verdict' = Append(verdict, "waiting")
  /\ UNCHANGED <<attached, outages>>

(***************************************************************************)
(* Tokens and sockets.                                                     *)
(***************************************************************************)
Login ==
  /\ token = NoOne
  /\ \E roles \in {{Viewer}, {Viewer, Admin}}, mfa \in BOOLEAN :
       token' = [actor |-> "human", roles |-> roles, mfa |-> mfa]
  /\ UNCHANGED <<socket, stream, verdict, attached, outages>>

\* After eight hours, unless refreshed: a refreshed token has the same claims.
TokenExpires ==
  /\ token # NoOne /\ token' = NoOne
  /\ UNCHANGED <<socket, stream, verdict, attached, outages>>

\* A socket keeps the identity it was opened with, whatever becomes of the token.
Connect ==
  /\ socket = NoOne
  /\ \/ socket' = Public
     \/ token # NoOne /\ socket' = operatorIdentity(token)
     \/ AgentTokens /\ \E tier \in 0..3 : socket' = agentIdentity(tier)
  /\ UNCHANGED <<token, stream, verdict, attached, outages>>

Disconnect ==
  /\ socket # NoOne /\ socket' = NoOne
  /\ UNCHANGED <<token, stream, verdict, attached, outages>>

(***************************************************************************)
(* The doors.                                                              *)
(***************************************************************************)
mayAs(policy, who) ==
  /\ policy.roles # {} => policy.roles \cap who.roles # {}
  /\ (Admin \in policy.roles /\ MfaRequired) => who.mfa

\* POST /v1/operator/command: an operator's message claims the capability to execute and
\* no other.
OperatorCommand(c, wellFormed) ==
  /\ token # NoOne
  /\ LET policy == commandPolicy(c) IN
     mayAs(policy, token) /\ "human" \in policy.actors
  /\ Submit(c, "human", publishedRole(token.roles), {"execute"}, wellFormed,
            Admin \in token.roles)
  /\ UNCHANGED <<token, socket>>

\* PATCH /v1/operator/config/risk: every entry of the body but the reason is an argument.
PatchConfig(wellFormed) ==
  /\ token # NoOne /\ Admin \in token.roles
  /\ Submit("/risk-policy", "human", publishedRole(token.roles), {"execute"}, wellFormed, TRUE)
  /\ UNCHANGED <<token, socket>>

\* POST /v1/agent/command, behind the payment gate: an entitlement has capabilities of its
\* tier, the status at least.
AgentCommand(c, tier, wellFormed) ==
  /\ LET policy == commandPolicy(c) IN
     "external_agent" \in policy.actors /\ policy.caps \subseteq tierCaps(tier)
  /\ Submit(c, "external_agent", "none", tierCaps(tier), wellFormed, FALSE)
  /\ UNCHANGED <<token, socket>>

\* cmd.exec
SocketCommand(c, wellFormed) ==
  /\ socket # NoOne
  /\ LET policy == commandPolicy(c) IN
     socket.actor \in policy.actors /\ policy.caps \subseteq socket.caps /\ mayAs(policy, socket)
  /\ Submit(c, socket.actor, publishedRole(socket.roles), socket.caps, wellFormed,
            Admin \in socket.roles)
  /\ UNCHANGED <<token, socket>>

\* publishAgentCommand(): the runner tunes the risk policy as an administrator.
RunnerCommand ==
  /\ Submit("/risk-policy", "internal_agent", Admin, {"execute"}, TRUE, TRUE)
  /\ UNCHANGED <<token, socket>>

(***************************************************************************)
(* The runtime.                                                            *)
(***************************************************************************)
runtimeAccepts(m) ==
  LET policy == commandPolicy(m.command) IN
  /\ m.actor \in policy.actors
  /\ policy.roles # {} => m.role \in policy.roles
  /\ policy.caps \subseteq m.caps

Unread == {i \in 1..Len(stream) : verdict[i] = "waiting"}

\* handleCommand(): only /risk-policy looks at its arguments.
HandleCommand ==
  /\ attached
  /\ \E i \in Unread :
       /\ \A j \in Unread : i <= j
       /\ verdict' = [verdict EXCEPT ![i] =
            IF ~runtimeAccepts(stream[i]) THEN "refused"
            ELSE IF stream[i].command = "/risk-policy" /\ ~stream[i].wellFormed THEN "invalid"
            ELSE "executed"]
  /\ UNCHANGED <<token, socket, stream, attached, outages>>

\* The consumer begins at the end of the stream: what was submitted before is lost.
RuntimeAttaches ==
  /\ ~attached /\ attached' = TRUE
  /\ verdict' = [i \in 1..Len(verdict) |-> IF verdict[i] = "waiting" THEN "lost" ELSE verdict[i]]
  /\ UNCHANGED <<token, socket, stream, outages>>

RuntimeStops ==
  /\ attached /\ outages < MaxOutages
  /\ attached' = FALSE /\ outages' = outages + 1
  /\ UNCHANGED <<token, socket, stream, verdict>>

GateNext ==
  \/ Login \/ TokenExpires \/ Connect \/ Disconnect
  \/ \E c \in GateCommands, ok \in BOOLEAN :
       OperatorCommand(c, ok) \/ SocketCommand(c, ok) \/ \E tier \in 0..3 : AgentCommand(c, tier, ok)
  \/ \E ok \in BOOLEAN : PatchConfig(ok)
  \/ RunnerCommand
  \/ HandleCommand \/ RuntimeAttaches \/ RuntimeStops

GateSpec == GateInit /\ [][GateNext]_gateVars

(***************************************************************************)
(* Properties                                                              *)
(***************************************************************************)

\* The two looks agree: a change of the desk that a door has acknowledged is not
\* refused by the runtime for its sender, who was told "submitted".
AcknowledgedIsAccepted ==
  \A i \in 1..Len(stream) : stream[i].command \in Mutating => verdict[i] # "refused"

\* A change is carried out only for an administrator or for the desk's own agent.
DeskChangedByAdminsOnly ==
  \A i \in 1..Len(stream) :
    (stream[i].command \in Mutating /\ verdict[i] = "executed") => stream[i].byAdmin
=============================================================================

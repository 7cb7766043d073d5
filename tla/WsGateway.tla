------------------------------ MODULE WsGateway ------------------------------
(***************************************************************************)
(* The WebSocket gateway (apps/ws-gateway/src/index.ts): sockets, the      *)
(* channels they subscribe to, what is broadcast on each, and the counts   *)
(* by which an actor is slowed down or banned.  The identity of a socket   *)
(* and what a command may do is the module CommandGate; here a command is  *)
(* one that the policy lets pass, and one it does not is a bad message.    *)
(***************************************************************************)
EXTENDS Naturals

CONSTANTS Sockets,
          SocketActors, \* some of "public", "agent", "operator": one actor of each type
          BanThreshold, \* ABUSE_BAN_THRESHOLD
          RateLimit     \* COMMAND_RATE_LIMIT

VARIABLES
  clients,   \* of each socket: its state, actor and channels
  sent,      \* of each socket, whether it was sent sanitized or raw events
  abuse,     \* abuseWindows: bad messages of an actor in its window of a minute
  bannedActors, \* until a minute has passed
  commands   \* commandWindows

wsVars == <<clients, sent, abuse, bannedActors, commands>>

Channels == {"public", "operator", "agent", "replay", "audit"}
NoClient == [state |-> "closed", actor |-> "nobody", channels |-> {}]

WsInit ==
  /\ clients = [s \in Sockets |-> NoClient]
  /\ sent = [s \in Sockets |-> {}]
  /\ abuse = [a \in SocketActors |-> 0]
  /\ bannedActors = {}
  /\ commands = [a \in SocketActors |-> 0]

Connected(s) == clients[s].state # "closed"

\* Mutant: every actor that has a token may read every channel.
canSubscribeWithToken(actor, channel) == channel = "public" \/ actor # "public"
canSubscribe(actor, channel) ==
  \/ channel = "public"
  \/ actor = "operator"
  \/ channel = "agent" /\ actor = "agent"

\* What a broadcast of the runtime's UI events goes out on.
broadcastChannelForType(type) ==
  IF type \in {"STATE_UPDATE", "FLOOR_TAPE"} THEN "public" ELSE "operator"
payloadFor(channel) == IF channel = "public" THEN "sanitized" ELSE "raw"

\* sendSafe(): a socket that is closing gets nothing, one that does not keep up may not.
Deliver(channel, receivers) ==
  \E dropped \in SUBSET receivers :
    sent' = [s \in Sockets |->
      IF s \in receivers \ dropped /\ clients[s].state = "open"
      THEN sent[s] \cup {payloadFor(channel)} ELSE sent[s]]

(***************************************************************************)
(* Sockets.                                                                *)
(***************************************************************************)
\* A banned actor is turned away; its other sockets stay.
Open(s, a) ==
  /\ ~Connected(s) /\ a \notin bannedActors
  /\ clients' = [clients EXCEPT ![s] = [state |-> "open", actor |-> a, channels |-> {"public"}]]
  /\ sent' = [sent EXCEPT ![s] = {}]
  /\ UNCHANGED <<abuse, bannedActors, commands>>

\* The close event, after which the client is forgotten.
Closed(s) ==
  /\ Connected(s)
  /\ clients' = [clients EXCEPT ![s] = NoClient]
  /\ sent' = [sent EXCEPT ![s] = {}]
  /\ UNCHANGED <<abuse, bannedActors, commands>>

\* The first bad message of a window bans nobody, and every one from the threshold on
\* bans anew.
recordAbuse(a) ==
  /\ abuse' = [abuse EXCEPT ![a] = IF @ < BanThreshold THEN @ + 1 ELSE @]
  /\ bannedActors' = IF abuse[a] + 1 >= BanThreshold THEN bannedActors \cup {a} ELSE bannedActors

SubAdd(s, channel) ==
  /\ Connected(s) /\ canSubscribe(clients[s].actor, channel)
  /\ clients' = [clients EXCEPT ![s].channels = @ \cup {channel}]
  /\ UNCHANGED <<sent, abuse, bannedActors, commands>>

\* A refused subscription counts as abuse, but the socket is not closed for it.
SubRefused(s, channel) ==
  /\ Connected(s) /\ ~canSubscribe(clients[s].actor, channel)
  /\ recordAbuse(clients[s].actor)
  /\ UNCHANGED <<clients, sent, commands>>

SubRemove(s, channel) ==
  /\ Connected(s) /\ channel # "public"
  /\ clients' = [clients EXCEPT ![s].channels = @ \ {channel}]
  /\ UNCHANGED <<sent, abuse, bannedActors, commands>>

\* Too large, not in the protocol, or a command that is none or not for this actor.
BadMessage(s) ==
  /\ Connected(s)
  /\ recordAbuse(clients[s].actor)
  /\ clients' = IF abuse[clients[s].actor] + 1 >= BanThreshold
                THEN [clients EXCEPT ![s].state = "closing"] ELSE clients
  /\ UNCHANGED <<sent, commands>>

\* trackCommand(): beyond the limit the command is answered with an error.
Command(s) ==
  /\ Connected(s) /\ commands[clients[s].actor] < RateLimit
  /\ commands' = [commands EXCEPT ![clients[s].actor] = @ + 1]
  /\ UNCHANGED <<clients, sent, abuse, bannedActors>>

(***************************************************************************)
(* The consumers of the two streams, and the passing of time.              *)
(***************************************************************************)
UiEvent(type) ==
  LET channel == broadcastChannelForType(type) IN
  /\ Deliver(channel, {s \in Sockets : channel \in clients[s].channels})
  /\ UNCHANGED <<clients, abuse, bannedActors, commands>>

AuditEvent ==
  /\ Deliver("audit", {s \in Sockets : "audit" \in clients[s].channels})
  /\ UNCHANGED <<clients, abuse, bannedActors, commands>>

Heartbeat ==
  /\ Deliver("public", {s \in Sockets : Connected(s)})
  /\ UNCHANGED <<clients, abuse, bannedActors, commands>>

\* A window ends a minute after its first entry.
WindowEnds(a) ==
  /\ \/ abuse[a] > 0 /\ abuse' = [abuse EXCEPT ![a] = 0] /\ UNCHANGED commands
     \/ commands[a] > 0 /\ commands' = [commands EXCEPT ![a] = 0] /\ UNCHANGED abuse
  /\ UNCHANGED <<clients, sent, bannedActors>>

\* A ban ends a minute after the last bad message, so after the window it was earned in.
BanEnds(a) ==
  /\ a \in bannedActors /\ abuse[a] < BanThreshold
  /\ bannedActors' = bannedActors \ {a}
  /\ UNCHANGED <<clients, sent, abuse, commands>>

WsNext ==
  \/ \E s \in Sockets :
       \/ Closed(s) \/ BadMessage(s) \/ Command(s)
       \/ \E a \in SocketActors : Open(s, a)
       \/ \E c \in Channels : SubAdd(s, c) \/ SubRefused(s, c) \/ SubRemove(s, c)
  \/ \E type \in {"STATE_UPDATE", "FLOOR_TAPE", "POSITION_UPDATE", "ORDER_UPDATE"} : UiEvent(type)
  \/ AuditEvent \/ Heartbeat
  \/ \E a \in SocketActors : WindowEnds(a) \/ BanEnds(a)

WsSpec == WsInit /\ [][WsNext]_wsVars

(***************************************************************************)
(* Properties                                                              *)
(***************************************************************************)

\* What is not sanitized, the positions, orders and audits as the desk has them, reaches
\* the sockets of operators only, whatever they subscribed to and whoever held the
\* socket before.
RawEventsStayInside ==
  \A s \in Sockets : "raw" \in sent[s] => clients[s].actor = "operator"
=============================================================================

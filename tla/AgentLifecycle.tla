--------------------------- MODULE AgentLifecycle ---------------------------
(***************************************************************************)
(* How an agent gets its tunnel, loses it and comes back: the retry loop   *)
(* of src/cmd/agent/main.go with StartSession of src/internal/tunnel/      *)
(* agent.go on one side, handleAgentConnection of src/cmd/relay/main.go    *)
(* with AddSession and the scavenger on the other, and between them        *)
(* connections that break without either side being told.                  *)
(*                                                                         *)
(* One domain.  Several agents are agents that were started with the same  *)
(* API key, on one machine or many.  Every data connection has a           *)
(* goroutine of its own at the relay, which may be arbitrarily slow (it    *)
(* waits for the database), so it may still be at work when the agent has  *)
(* long given the connection up.                                           *)
(***************************************************************************)
EXTENDS Naturals

CONSTANTS
  Agent,       \* agents with the domain's key
  Conn,        \* data connections; one is reused when both ends are done with it
  NoConn,      \* no connection
  NoAgent,     \* nobody opened the connection yet
  MaxDelay,    \* maxRetryDelay, in units of the first delay
  MaxTrouble   \* bound: breaks, crashes, stopped agents and expired tokens

ASSUME AgentAssumption ==
  /\ NoConn \notin Conn /\ NoAgent \notin Agent
  /\ MaxDelay \in Nat /\ MaxDelay > 0 /\ MaxTrouble \in Nat

VARIABLES
  agent,    \* agent -> its place in runAgent, its retryDelay, its connection
  conn,     \* connection -> both its ends
  session,  \* Manager.sessions[domain]
  up,       \* the relay runs, with its database
  trouble   \* what went wrong so far

vars == <<agent, conn, session, up, trouble>>

-----------------------------------------------------------------------------
AgentState == [pc : {"off", "register", "dial", "await", "serve", "sleep"},
               delay : 1..MaxDelay, conn : Conn \cup {NoConn}]

\* agentOpen: the agent has not closed its end.  cut: packets are lost, and
\* neither end knows yet.  handler: where handleAgentConnection is; "open" is a
\* yamux session, "closed" the end of it.  reply: what the handshake answered.
ConnState == [owner : Agent \cup {NoAgent}, agentOpen : BOOLEAN, cut : BOOLEAN,
              tokenValid : BOOLEAN, reply : {"none", "ok", "error"},
              handler : {"none", "read", "log", "add", "open", "closed"}]

UnusedConn == [owner |-> NoAgent, agentOpen |-> FALSE, cut |-> FALSE,
               tokenValid |-> FALSE, reply |-> "none", handler |-> "none"]

NewAgent == [pc |-> "register", delay |-> 1, conn |-> NoConn]

Init ==
  /\ agent = [a \in Agent |-> NewAgent]
  /\ conn = [c \in Conn |-> UnusedConn]
  /\ session = NoConn
  /\ up = TRUE
  /\ trouble = 0

Unused(c) == ~conn[c].agentOpen /\ conn[c].handler \in {"none", "closed"} /\ session # c

-----------------------------------------------------------------------------
(* The agent: main and runAgent                                             *)

\* An attempt that ends with an error; its deferred Close runs.
Fail(a) ==
  /\ agent' = [agent EXCEPT ![a].pc = "sleep", ![a].conn = NoConn]
  /\ conn' = IF agent[a].conn = NoConn THEN conn
             ELSE [conn EXCEPT ![agent[a].conn].agentOpen = FALSE]
  /\ UNCHANGED <<session, up, trouble>>

\* The gRPC dial and RegisterAgent, which hands out a fresh tunnel token.
Register(a) ==
  /\ agent[a].pc = "register"
  /\ up
  /\ agent' = [agent EXCEPT ![a].pc = "dial"]
  /\ UNCHANGED <<conn, session, up, trouble>>

\* The data connection, and the handshake with the token.
OpenData(a, c) ==
  /\ agent[a].pc = "dial"
  /\ up
  /\ Unused(c)
  /\ agent' = [agent EXCEPT ![a].pc = "await", ![a].conn = c]
  /\ conn' = [conn EXCEPT ![c] = [owner |-> a, agentOpen |-> TRUE, cut |-> FALSE,
       tokenValid |-> TRUE, reply |-> "none", handler |-> "read"]]
  /\ UNCHANGED <<session, up, trouble>>

ConnectFails(a) == agent[a].pc \in {"register", "dial"} /\ ~up /\ Fail(a)

\* Whatever the answer says: runAgent looks for an error in decoding it, not in
\* its error field.
ReadReply(a) ==
  LET c == agent[a].conn IN
  /\ agent[a].pc = "await"
  /\ conn[c].reply # "none" /\ ~conn[c].cut
  /\ agent' = [agent EXCEPT ![a].pc = "serve"]
  /\ UNCHANGED <<conn, session, up, trouble>>

\* The connection ended or broke before an answer was read.
AwaitFails(a) ==
  LET c == agent[a].conn IN
  /\ agent[a].pc = "await"
  /\ conn[c].cut \/ (conn[c].handler = "closed" /\ conn[c].reply = "none")
  /\ Fail(a)

\* Keepalive finds the connection broken: Accept fails, and runAgent with it.
SessionBreaks(a) == agent[a].pc = "serve" /\ conn[agent[a].conn].cut /\ Fail(a)

\* Fault: the end of the file is taken for one more stream that failed.
SessionEndsUnseen(a) ==
  /\ agent[a].pc = "serve"
  /\ conn[agent[a].conn].handler = "closed" /\ ~conn[agent[a].conn].cut
  /\ UNCHANGED vars

\* The relay closed the connection: Accept sees EOF, StartSession returns nil,
\* and main starts over at once, with the first delay.
SessionEnds(a) ==
  LET c == agent[a].conn IN
  /\ agent[a].pc = "serve"
  /\ conn[c].handler = "closed" /\ ~conn[c].cut
  /\ agent' = [agent EXCEPT ![a] = NewAgent]
  /\ conn' = [conn EXCEPT ![c].agentOpen = FALSE]
  /\ UNCHANGED <<session, up, trouble>>

\* Accept waits for streams; that the agent is served is all it does here.
WaitForStreams(a) ==
  /\ agent[a].pc = "serve"
  /\ conn[agent[a].conn].handler = "open"
  /\ UNCHANGED vars

\* Fault: the doubled delay is not kept.
WakeAfresh(a) ==
  /\ agent[a].pc = "sleep"
  /\ agent' = [agent EXCEPT ![a].pc = "register"]
  /\ UNCHANGED <<conn, session, up, trouble>>

\* time.Sleep(retryDelay) is over; the next failure waits twice as long.
Wake(a) ==
  /\ agent[a].pc = "sleep"
  /\ agent' = [agent EXCEPT ![a].pc = "register",
                            ![a].delay = IF 2 * @ > MaxDelay THEN MaxDelay ELSE 2 * @]
  /\ UNCHANGED <<conn, session, up, trouble>>

-----------------------------------------------------------------------------
(* The relay: handleAgentConnection, AddSession, the scavenger              *)

\* Fault: after the answer "Unauthorized" the handler does not return.
ReadHandshakeGoesOn(c) ==
  /\ up
  /\ conn[c].handler = "read"
  /\ conn' = [conn EXCEPT ![c].handler = "add",
                          ![c].reply = IF conn[c].tokenValid THEN "ok" ELSE "error"]
  /\ UNCHANGED <<agent, session, up, trouble>>

\* The handshake is decoded and its token checked.
ReadHandshake(c) ==
  /\ up
  /\ conn[c].handler = "read"
  /\ conn' = IF conn[c].tokenValid THEN [conn EXCEPT ![c].handler = "log"]
             ELSE [conn EXCEPT ![c].handler = "closed", ![c].reply = "error"]
  /\ UNCHANGED <<agent, session, up, trouble>>

\* The handshake never arrived.
HandshakeFails(c) ==
  /\ up
  /\ conn[c].handler = "read"
  /\ conn[c].cut \/ ~conn[c].agentOpen
  /\ conn' = [conn EXCEPT ![c].handler = "closed"]
  /\ UNCHANGED <<agent, session, up, trouble>>

\* LogSession, which may take long, and the answer; nobody looks whether the
\* answer could be written.
Confirm(c) ==
  /\ up
  /\ conn[c].handler = "log"
  /\ conn' = [conn EXCEPT ![c].handler = "add", ![c].reply = "ok"]
  /\ UNCHANGED <<agent, session, up, trouble>>

\* Fault: the old session is not closed.
AddSessionKeepsOld(c) ==
  /\ up
  /\ conn[c].handler = "add"
  /\ conn' = [conn EXCEPT ![c].handler = "open"]
  /\ session' = c
  /\ UNCHANGED <<agent, up, trouble>>

\* The session that is registered is closed and replaced.
AddSession(c) ==
  /\ up
  /\ conn[c].handler = "add"
  /\ conn' = [d \in Conn |-> CASE d = c -> [conn[d] EXCEPT !.handler = "open"]
                               [] d = session -> [conn[d] EXCEPT !.handler = "closed"]
                               [] OTHER -> conn[d]]
  /\ session' = c
  /\ UNCHANGED <<agent, up, trouble>>

\* yamux: end of file, or keepalive without an answer.
SessionDies(c) ==
  /\ up
  /\ conn[c].handler = "open"
  /\ conn[c].cut \/ ~conn[c].agentOpen
  /\ conn' = [conn EXCEPT ![c].handler = "closed"]
  /\ UNCHANGED <<agent, session, up, trouble>>

Scavenge ==
  /\ up
  /\ session # NoConn
  /\ conn[session].handler = "closed"
  /\ session' = NoConn
  /\ UNCHANGED <<agent, conn, up, trouble>>

-----------------------------------------------------------------------------
(* The world                                                                *)

Trouble == trouble < MaxTrouble /\ trouble' = trouble + 1

Cut(c) ==
  /\ Trouble
  /\ conn[c].agentOpen /\ ~conn[c].cut
  /\ conn' = [conn EXCEPT ![c].cut = TRUE]
  /\ UNCHANGED <<agent, session, up>>

\* The five minutes of the token are over before the relay reads it.
TokenExpires(c) ==
  /\ Trouble
  /\ conn[c].handler = "read" /\ conn[c].tokenValid
  /\ conn' = [conn EXCEPT ![c].tokenValid = FALSE]
  /\ UNCHANGED <<agent, session, up>>

\* The agent's process ends; the system closes its end of the connection.
Stop(a) ==
  /\ Trouble
  /\ agent[a].pc # "off"
  /\ agent' = [agent EXCEPT ![a] = [NewAgent EXCEPT !.pc = "off"]]
  /\ conn' = IF agent[a].conn = NoConn THEN conn
             ELSE [conn EXCEPT ![agent[a].conn].agentOpen = FALSE]
  /\ UNCHANGED <<session, up>>

\* Somebody starts it again.
Boot(a) ==
  /\ agent[a].pc = "off"
  /\ agent' = [agent EXCEPT ![a] = NewAgent]
  /\ UNCHANGED <<conn, session, up, trouble>>

\* The relay stops and with it every handler and session; the agents see the
\* connections end, or break.
Crash ==
  /\ Trouble
  /\ up
  /\ up' = FALSE
  /\ session' = NoConn
  /\ \E broken \in BOOLEAN :
       conn' = [c \in Conn |-> IF Unused(c) THEN conn[c]
                 ELSE [conn[c] EXCEPT !.handler = "closed", !.cut = @ \/ broken]]
  /\ UNCHANGED agent

Start ==
  /\ ~up
  /\ up' = TRUE
  /\ UNCHANGED <<agent, conn, session, trouble>>

-----------------------------------------------------------------------------
AgentStep(a) ==
  \/ Register(a) \/ ConnectFails(a) \/ ReadReply(a) \/ AwaitFails(a)
  \/ SessionBreaks(a) \/ SessionEnds(a) \/ Wake(a)
  \/ \E c \in Conn : OpenData(a, c)

RelayStep(c) ==
  \/ ReadHandshake(c) \/ HandshakeFails(c) \/ Confirm(c) \/ AddSession(c) \/ SessionDies(c)

Next ==
  \/ \E a \in Agent : AgentStep(a) \/ WaitForStreams(a) \/ Stop(a) \/ Boot(a)
  \/ \E c \in Conn : RelayStep(c) \/ Cut(c) \/ TokenExpires(c)
  \/ Scavenge \/ Crash \/ Start

Spec == Init /\ [][Next]_vars

\* Agents and handlers go on, keepalive finds what broke, the scavenger's
\* ticker never stops.
Fairness ==
  /\ \A a \in Agent : WF_vars(AgentStep(a))
  /\ \A c \in Conn : WF_vars(RelayStep(c))
  /\ WF_vars(Scavenge)

\* Nobody owes it to the agents to start the relay again, nor an agent.
FairSpec == Spec /\ Fairness

-----------------------------------------------------------------------------
(* The shape of the agents and the connections.                             *)
TypeOK ==
  /\ agent \in [Agent -> AgentState]
  /\ conn \in [Conn -> ConnState]
  /\ session \in Conn \cup {NoConn}
  /\ up \in BOOLEAN
  /\ trouble \in Nat

(* Both ends are there, and the manager sends the domain's requests here.   *)
Working(c) == conn[c].handler = "open" /\ conn[c].agentOpen /\ ~conn[c].cut
Serving(a) == agent[a].pc = "serve" /\ session = agent[a].conn /\ Working(session)

(* However the handlers of several connections overlap, no yamux session    *)
(* stays open that the manager does not know: its agent would be connected  *)
(* and never be sent a request.                                             *)
OpenIsRegistered == \A c \in Conn : conn[c].handler = "open" => session = c

(* The manager only keeps connections whose handshake was accepted, whatever *)
(* expired, broke or was closed while the handler was at work.              *)
OnlyAcceptedIsServed ==
  /\ session # NoConn => conn[session].reply = "ok"
  /\ \A c \in Conn : conn[c].handler = "open" => conn[c].reply = "ok"

(* After the last break, crash or expired token, an agent whose relay runs  *)
(* serves its domain for good, once it is the only one with the key.        *)
Alone(a) == agent[a].pc # "off" /\ \A b \in Agent \ {a} : agent[b].pc = "off"
Reconnects == \A a \in Agent : <>[](up /\ Alone(a)) => <>[]Serving(a)

(* No agent waits for requests for ever on a connection that the manager    *)
(* does not use, also when others connect with the same key.                *)
NobodyServesUnreached ==
  \A a \in Agent : (agent[a].pc = "serve" /\ session # agent[a].conn)
                     ~> (agent[a].pc # "serve" \/ session = agent[a].conn)

(* While the relay stays down, agents come less and less often.             *)
FailingAgentsSlowDown ==
  \A a \in Agent :
    <>[](~up /\ agent[a].pc # "off") => <>[](agent[a].delay = MaxDelay)

(* "Jika ada sesi lama, tutup dulu": AddSession closes old sessions, not a  *)
(* working one in favour of a connection whose agent has left.              *)
OldGivesWayToNew ==
  [][\A c, d \in Conn :
       session = c /\ Working(c) /\ session' = d /\ d # c => conn[d].agentOpen]_vars
=============================================================================

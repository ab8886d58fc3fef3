------------------------ MODULE AgentLifecycleProofs ------------------------
(***************************************************************************)
(* Proofs for AgentLifecycle, for any number of agents and connections and *)
(* any amount of trouble: the types, that a session which is open is the   *)
(* registered one, and that only accepted connections get that far.        *)
(***************************************************************************)
EXTENDS AgentLifecycle, TLAPS

\* What the handler's place says of its connection.
Places ==
  /\ \A c \in Conn : conn[c].handler = "add" => conn[c].reply = "ok"
  /\ session # NoConn => conn[session].handler \in {"open", "closed"}

Inv == TypeOK /\ Places /\ OpenIsRegistered /\ OnlyAcceptedIsServed

\* Closing an agent's end leaves a well-formed connection.
LEMMA CloseKeepsType ==
  ASSUME conn \in [Conn -> ConnState], NEW c \in Conn
  PROVE  [conn EXCEPT ![c].agentOpen = FALSE] \in [Conn -> ConnState]
BY DEF ConnState

\* Trouble counts in the natural numbers.
LEMMA TroubleCounts == ASSUME TypeOK, Trouble PROVE trouble' \in Nat
BY DEF TypeOK, Trouble

\* A step of an agent's loop that ends its attempt.
LEMMA FailKeepsInv == ASSUME Inv, NEW a \in Agent, Fail(a) PROVE Inv'
<1>1. TypeOK'
  <2>1. agent' \in [Agent -> AgentState]
    BY DEF Inv, TypeOK, AgentState, Fail
  <2>2. agent[a].conn \in Conn \cup {NoConn}
    BY DEF Inv, TypeOK, AgentState
  <2>3. conn' \in [Conn -> ConnState]
    BY <2>2, CloseKeepsType DEF Inv, TypeOK, Fail
  <2>4. QED
    BY <2>1, <2>3 DEF Inv, TypeOK, Fail
<1>2. \A c \in Conn : conn'[c].handler = conn[c].handler /\ conn'[c].reply = conn[c].reply
  BY DEF Inv, TypeOK, AgentState, ConnState, Fail
<1>3. QED
  BY <1>1, <1>2 DEF Inv, TypeOK, Places, OpenIsRegistered, OnlyAcceptedIsServed, Fail

\* The steps of an agent.
LEMMA AgentKeepsInv == ASSUME Inv, NEW a \in Agent, AgentStep(a) PROVE Inv'
<1>1. CASE Register(a) \/ ReadReply(a)
  BY <1>1 DEF Inv, TypeOK, AgentState, Places, OpenIsRegistered, OnlyAcceptedIsServed,
     Register, ReadReply
<1>2. CASE ConnectFails(a) \/ AwaitFails(a) \/ SessionBreaks(a)
  BY <1>2, FailKeepsInv DEF ConnectFails, AwaitFails, SessionBreaks
<1>3. CASE SessionEnds(a)
  <2>1. TypeOK'
    <3>1. NewAgent \in AgentState
      BY AgentAssumption DEF AgentState, NewAgent
    <3>2. agent' \in [Agent -> AgentState]
      BY <1>3, <3>1 DEF Inv, TypeOK, SessionEnds
    <3>3. agent[a].conn \in Conn \cup {NoConn}
      BY DEF Inv, TypeOK, AgentState
    <3>4. conn' = [conn EXCEPT ![agent[a].conn].agentOpen = FALSE]
      BY <1>3 DEF SessionEnds
    <3>5. conn' \in [Conn -> ConnState]
      <4>1. CASE agent[a].conn \in Conn
        BY <3>4, <4>1, CloseKeepsType DEF Inv, TypeOK
      <4>2. CASE agent[a].conn \notin Conn
        BY <3>4, <4>2 DEF Inv, TypeOK
      <4>3. QED
        BY <4>1, <4>2
    <3>6. QED
      BY <1>3, <3>2, <3>5 DEF Inv, TypeOK, SessionEnds
  <2>2. \A c \in Conn : conn'[c].handler = conn[c].handler /\ conn'[c].reply = conn[c].reply
    BY <1>3 DEF Inv, TypeOK, AgentState, ConnState, SessionEnds
  <2>3. QED
    BY <1>3, <2>1, <2>2
    DEF Inv, TypeOK, Places, OpenIsRegistered, OnlyAcceptedIsServed, SessionEnds
<1>4. CASE Wake(a)
  <2>1. agent'[a].delay \in 1..MaxDelay
    BY <1>4, AgentAssumption DEF Inv, TypeOK, AgentState, Wake
  <2>2. TypeOK'
    BY <1>4, <2>1 DEF Inv, TypeOK, AgentState, Wake
  <2>3. QED
    BY <1>4, <2>2 DEF Inv, Places, OpenIsRegistered, OnlyAcceptedIsServed, Wake
<1>5. CASE \E c \in Conn : OpenData(a, c)
  <2>1. PICK c \in Conn : OpenData(a, c)
    BY <1>5
  <2>2. session # c
    BY <2>1 DEF OpenData, Unused
  <2>3. TypeOK'
    BY <2>1 DEF Inv, TypeOK, AgentState, ConnState, OpenData
  <2>4. /\ conn'[c].handler = "read"
        /\ \A d \in Conn \ {c} : conn'[d] = conn[d]
    BY <2>1 DEF Inv, TypeOK, OpenData
  <2>5. session' = session
    BY <2>1 DEF OpenData
  <2>6. QED
    BY <2>2, <2>3, <2>4, <2>5 DEF Inv, TypeOK, Places, OpenIsRegistered, OnlyAcceptedIsServed
<1>6. QED
  BY <1>1, <1>2, <1>3, <1>4, <1>5 DEF AgentStep

\* The steps of a handler at the relay.
LEMMA RelayKeepsInv == ASSUME Inv, NEW c \in Conn, RelayStep(c) PROVE Inv'
<1>1. CASE ReadHandshake(c) \/ HandshakeFails(c) \/ Confirm(c) \/ SessionDies(c)
  <2>1. TypeOK'
    BY <1>1
    DEF Inv, TypeOK, ConnState, ReadHandshake, HandshakeFails, Confirm, SessionDies
  <2>2. \A d \in Conn \ {c} : conn'[d] = conn[d]
    BY <1>1
    DEF Inv, TypeOK, ReadHandshake, HandshakeFails, Confirm, SessionDies
  <2>3. session' = session
    BY <1>1 DEF ReadHandshake, HandshakeFails, Confirm, SessionDies
  <2>4. CASE conn[c].handler \in {"read", "log"}
    <3>1. session # c
      BY <2>4, AgentAssumption DEF Inv, Places
    <3>2. /\ conn'[c].handler \in {"log", "add", "closed"}
          /\ conn'[c].handler = "add" => conn'[c].reply = "ok"
      BY <1>1, <2>4 DEF Inv, TypeOK, ConnState, ReadHandshake, HandshakeFails, Confirm,
         SessionDies
    <3>3. QED
      BY <2>1, <2>2, <2>3, <3>1, <3>2
      DEF Inv, TypeOK, Places, OpenIsRegistered, OnlyAcceptedIsServed
  <2>5. CASE conn[c].handler = "open"
    <3>1. conn'[c].handler = "closed" /\ conn'[c].reply = conn[c].reply
      BY <1>1, <2>5 DEF Inv, TypeOK, ConnState, ReadHandshake, HandshakeFails, Confirm,
         SessionDies
    <3>2. QED
      BY <2>1, <2>2, <2>3, <3>1
      DEF Inv, TypeOK, Places, OpenIsRegistered, OnlyAcceptedIsServed
  <2>6. QED
    BY <1>1, <2>4, <2>5 DEF ReadHandshake, HandshakeFails, Confirm, SessionDies
<1>2. CASE AddSession(c)
  <2>1. TypeOK'
    BY <1>2 DEF Inv, TypeOK, ConnState, AddSession
  <2>2. /\ conn[c].reply = "ok"
        /\ session' = c
    BY <1>2 DEF Inv, Places, AddSession
  <2>3. /\ \A d \in Conn : conn'[d].reply = conn[d].reply
        /\ conn'[c].handler = "open"
        /\ \A d \in Conn \ {c} : conn'[d].handler =
             IF d = session THEN "closed" ELSE conn[d].handler
    <3>1. \A d \in Conn : conn'[d] =
             CASE d = c -> [conn[d] EXCEPT !.handler = "open"]
               [] d = session -> [conn[d] EXCEPT !.handler = "closed"]
               [] OTHER -> conn[d]
      BY <1>2 DEF AddSession
    <3>2. \A d \in Conn : conn[d] \in ConnState
      BY DEF Inv, TypeOK
    <3>3. c # session
      BY <1>2, AgentAssumption DEF Inv, Places, AddSession
    <3>4. conn'[c] = [conn[c] EXCEPT !.handler = "open"]
      BY <3>1, <3>3
    <3>5. \A d \in Conn \ {c} : conn'[d] =
             IF d = session THEN [conn[d] EXCEPT !.handler = "closed"] ELSE conn[d]
      BY <3>1
    <3>6. conn'[c].handler = "open" /\ conn'[c].reply = conn[c].reply
      BY <3>2, <3>4 DEF ConnState
    <3>7. ASSUME NEW d \in Conn \ {c}
          PROVE  /\ conn'[d].handler = IF d = session THEN "closed" ELSE conn[d].handler
                 /\ conn'[d].reply = conn[d].reply
      <4>1. CASE d = session
        BY <3>2, <3>5, <4>1 DEF ConnState
      <4>2. CASE d # session
        BY <3>5, <4>2
      <4>3. QED
        BY <4>1, <4>2
    <3>8. QED
      BY <3>6, <3>7
  <2>4. QED
    BY <2>1, <2>2, <2>3 DEF Inv, TypeOK, Places, OpenIsRegistered, OnlyAcceptedIsServed
<1>3. QED
  BY <1>1, <1>2 DEF RelayStep

\* The scavenger and what happens to connections and processes.
LEMMA WorldKeepsInv ==
  ASSUME Inv,
         \/ \E a \in Agent : Stop(a) \/ Boot(a)
         \/ \E c \in Conn : Cut(c) \/ TokenExpires(c)
         \/ Scavenge \/ Crash \/ Start
  PROVE  Inv'
<1>1. CASE \E a \in Agent : Stop(a)
  <2>1. PICK a \in Agent : Stop(a)
    BY <1>1
  <2>2. TypeOK'
    <3>1. [NewAgent EXCEPT !.pc = "off"] \in AgentState
      BY AgentAssumption DEF AgentState, NewAgent
    <3>2. agent' \in [Agent -> AgentState]
      BY <2>1, <3>1 DEF Inv, TypeOK, Stop
    <3>3. agent[a].conn \in Conn \cup {NoConn}
      BY DEF Inv, TypeOK, AgentState
    <3>4. conn' \in [Conn -> ConnState]
      BY <2>1, <3>3, CloseKeepsType DEF Inv, TypeOK, Stop
    <3>5. QED
      BY <2>1, <3>2, <3>4, TroubleCounts DEF Inv, TypeOK, Stop
  <2>3. \A c \in Conn : conn'[c].handler = conn[c].handler /\ conn'[c].reply = conn[c].reply
    BY <2>1 DEF Inv, TypeOK, AgentState, ConnState, Stop
  <2>4. QED
    BY <2>1, <2>2, <2>3
    DEF Inv, TypeOK, Places, OpenIsRegistered, OnlyAcceptedIsServed, Stop
<1>2. CASE \E c \in Conn : Cut(c) \/ TokenExpires(c)
  <2>1. PICK c \in Conn : Cut(c) \/ TokenExpires(c)
    BY <1>2
  <2>2. TypeOK'
    <3>1. conn' \in [Conn -> ConnState]
      <4>1. CASE Cut(c)
        BY <4>1 DEF Inv, TypeOK, ConnState, Cut
      <4>2. CASE TokenExpires(c)
        BY <4>2 DEF Inv, TypeOK, ConnState, TokenExpires
      <4>3. QED
        BY <2>1, <4>1, <4>2
    <3>2. trouble' \in Nat
      BY <2>1, TroubleCounts DEF Inv, Cut, TokenExpires
    <3>3. QED
      BY <2>1, <3>1, <3>2 DEF Inv, TypeOK, Cut, TokenExpires
  <2>3. \A d \in Conn : conn'[d].handler = conn[d].handler /\ conn'[d].reply = conn[d].reply
    BY <2>1 DEF Inv, TypeOK, ConnState, Cut, TokenExpires
  <2>4. session' = session
    BY <2>1 DEF Cut, TokenExpires
  <2>5. QED
    BY <2>2, <2>3, <2>4 DEF Inv, TypeOK, Places, OpenIsRegistered, OnlyAcceptedIsServed
<1>3. CASE Scavenge
  BY <1>3 DEF Inv, TypeOK, Places, OpenIsRegistered, OnlyAcceptedIsServed, Scavenge
<1>4. CASE Crash
  <2>1. PICK broken \in BOOLEAN :
          conn' = [c \in Conn |-> IF Unused(c) THEN conn[c]
                    ELSE [conn[c] EXCEPT !.handler = "closed", !.cut = @ \/ broken]]
    BY <1>4 DEF Crash
  <2>2. \A c \in Conn : /\ conn'[c] \in ConnState
                        /\ conn'[c].handler \in {"none", "closed"}
    <3>1. TAKE c \in Conn
    <3>2. conn[c] \in ConnState
      BY DEF Inv, TypeOK
    <3>3. CASE Unused(c)
      <4>1. conn'[c] = conn[c]
        BY <2>1, <3>3
      <4>2. QED
        BY <3>2, <3>3, <4>1 DEF Unused
    <3>4. CASE ~Unused(c)
      <4>1. conn'[c] = [conn[c] EXCEPT !.handler = "closed", !.cut = @ \/ broken]
        BY <2>1, <3>4
      <4>2. (conn[c].cut \/ broken) \in BOOLEAN
        OBVIOUS
      <4>3. conn'[c] \in ConnState
        BY <3>2, <4>1, <4>2 DEF ConnState
      <4>4. conn'[c].handler = "closed"
        BY <3>2, <4>1 DEF ConnState
      <4>5. QED
        BY <4>3, <4>4
    <3>5. QED
      BY <3>3, <3>4
  <2>3. conn' \in [Conn -> ConnState]
    BY <2>1, <2>2
  <2>4. TypeOK'
    BY <1>4, <2>3, TroubleCounts DEF Inv, TypeOK, Crash
  <2>5. session' = NoConn
    BY <1>4 DEF Crash
  <2>6. QED
    BY <2>2, <2>4, <2>5 DEF Inv, Places, OpenIsRegistered, OnlyAcceptedIsServed
<1>5. CASE Start
  BY <1>5 DEF Inv, TypeOK, Places, OpenIsRegistered, OnlyAcceptedIsServed, Start
<1>6. CASE \E a \in Agent : Boot(a)
  <2>1. NewAgent \in AgentState
    BY AgentAssumption DEF AgentState, NewAgent
  <2>2. QED
    BY <1>6, <2>1
    DEF Inv, TypeOK, Places, OpenIsRegistered, OnlyAcceptedIsServed, Boot
<1>7. QED
  BY <1>1, <1>2, <1>3, <1>4, <1>5, <1>6

\* Inv is inductive.
LEMMA Invariance == Spec => []Inv
<1>1. Init => Inv
  BY AgentAssumption DEF Init, Inv, TypeOK, Places, OpenIsRegistered, OnlyAcceptedIsServed,
     AgentState, ConnState, NewAgent, UnusedConn
<1>2. Inv /\ [Next]_vars => Inv'
  <2> SUFFICES ASSUME Inv, [Next]_vars PROVE Inv'
    OBVIOUS
  <2>1. CASE UNCHANGED vars
    BY <2>1 DEF Inv, TypeOK, Places, OpenIsRegistered, OnlyAcceptedIsServed, vars
  <2>2. CASE \E a \in Agent : WaitForStreams(a)
    BY <2>1, <2>2 DEF WaitForStreams
  <2>3. QED
    BY <2>1, <2>2, AgentKeepsInv, RelayKeepsInv, WorldKeepsInv DEF Next
<1>3. QED
  BY <1>1, <1>2, PTL DEF Spec

(* Every reachable state has the shape TypeOK says; the delay of an agent   *)
(* never leaves 1..MaxDelay.                                                *)
THEOREM TypeCorrect == Spec => []TypeOK
<1>1. Inv => TypeOK
  BY DEF Inv
<1>2. QED
  BY <1>1, Invariance, PTL

(* However many handlers overlap, an open yamux session is the registered   *)
(* one: AddSession leaves none behind.                                      *)
THEOREM OpenSessionIsRegistered == Spec => []OpenIsRegistered
<1>1. Inv => OpenIsRegistered
  BY DEF Inv
<1>2. QED
  BY <1>1, Invariance, PTL

(* A connection whose token was refused, or was never read, is never        *)
(* registered, whatever broke, expired or restarted meanwhile.              *)
THEOREM RefusedIsNeverServed == Spec => []OnlyAcceptedIsServed
<1>1. Inv => OnlyAcceptedIsServed
  BY DEF Inv
<1>2. QED
  BY <1>1, Invariance, PTL
=============================================================================

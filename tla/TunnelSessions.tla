--------------------------- MODULE TunnelSessions ---------------------------
(***************************************************************************)
(* The tunnel_sessions table beside the tunnel manager.  An agent leaves a *)
(* row when it registers over gRPC and another one when its data           *)
(* connection is accepted; the bandwidth worker adds what it took from the *)
(* counters of a domain to the rows of that domain that are not            *)
(* disconnected; and since nothing calls CloseSession, no row ever is.     *)
(* The steps of TunnelManager are taken unchanged, with their effect on    *)
(* the table conjoined.                                                    *)
(***************************************************************************)
EXTENDS TunnelManager

VARIABLES
  rowDomain,   \* row -> its domain, NoDomain before the INSERT
  rowBytes     \* row -> bytes_in + bytes_out

tableVars == <<rowDomain, rowBytes>>
allVars == <<vars, tableVars>>

\* The row of agent c inserted by RegisterAgent, or by handleAgentConnection.
Row == {"control", "data"} \X Conn

InitSessions ==
  /\ Init
  /\ rowDomain = [r \in Row |-> NoDomain]
  /\ rowBytes = [r \in Row |-> 0]

-----------------------------------------------------------------------------
\* LogSession: both callers go on when the INSERT fails.
InsertRow(r, d) ==
  /\ \/ rowDomain' = [rowDomain EXCEPT ![r] = d]
     \/ DBMayFail /\ UNCHANGED rowDomain
  /\ UNCHANGED rowBytes

\* gRPC RegisterAgent of agent c, which precedes its data connection.
RegisterAgent(c, d) ==
  /\ agent[c].pc = "new"
  /\ rowDomain[<<"control", c>>] = NoDomain
  /\ InsertRow(<<"control", c>>, d)
  /\ UNCHANGED vars

\* The token names the domain that was registered; an agent may also present
\* its API key without registering.
ConnectAgent(c, d) ==
  /\ LogSession(c, d)
  /\ rowDomain[<<"control", c>>] \in {NoDomain, d}
  /\ InsertRow(<<"data", c>>, d)

\* UPDATE ... WHERE domain = $3 AND disconnected_at IS NULL.
ActiveRows(d) == {r \in Row : rowDomain[r] = d}

\* Fault: the bytes are added once for each direction.
IncrementRowsTwice ==
  /\ UpdateSessionStatsIncrement
  /\ rowBytes' = [r \in Row |-> IF r \in ActiveRows(worker.dom)
                                THEN rowBytes[r] + 2 * TotalTaken ELSE rowBytes[r]]
  /\ UNCHANGED rowDomain

IncrementRows ==
  /\ UpdateSessionStatsIncrement
  /\ \/ rowBytes' = [r \in Row |-> IF r \in ActiveRows(worker.dom)
                                   THEN rowBytes[r] + TotalTaken ELSE rowBytes[r]]
     \/ DBMayFail /\ UNCHANGED rowBytes
  /\ UNCHANGED rowDomain

\* Every other step of the manager.
ManagerStep ==
  /\ \/ \E c \in Conn : AddSession(c) \/ ReadQuota(c) \/ ThrottleOnConnect(c) \/ Disconnect(c)
     \/ \E s \in Stream : Gateway(s)
     \/ Scavenge
     \/ Tick \/ RoundDone
     \/ \E d \in Domain : StatsLoadIn(d) \/ StatsMissing(d)
     \/ StatsLoadOut \/ StatsStoreIn \/ StatsStoreOut
     \/ UpdateBandwidthUsage \/ SetThrottle
  /\ UNCHANGED tableVars

NextSessions ==
  \/ \E c \in Conn, d \in Domain : RegisterAgent(c, d) \/ ConnectAgent(c, d)
  \/ IncrementRows
  \/ ManagerStep

SpecSessions == InitSessions /\ [][NextSessions]_allVars

\* The manager's fairness: the table holds up neither worker nor scavenger.
FairSpecSessions == SpecSessions /\ Fairness

-----------------------------------------------------------------------------
CarriedBy(c) == counted[<<"in", c>>] + counted[<<"out", c>>]

(* The table has rows of known domains, and sizes.                          *)
TableTypeOK ==
  /\ rowDomain \in [Row -> Domain \cup {NoDomain}]
  /\ rowBytes \in [Row -> Nat]

(* No row shows more bytes than the agents of its domain carried altogether,*)
(* however often the domain reconnected: the worker adds a byte to a row at *)
(* most once.                                                               *)
RowsStayWithinDomainTraffic ==
  \A r \in Row : rowDomain[r] \in Domain =>
    rowBytes[r] <= SumFunctionOnSet([c \in Conn |-> CarriedBy(c)],
                                    {c \in Conn : agent[c].dom = rowDomain[r]})
=============================================================================

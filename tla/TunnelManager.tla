--------------------------- MODULE TunnelManager ---------------------------
(***************************************************************************)
(* The relay's tunnel manager (src/internal/tunnel/manager.go) with every  *)
(* goroutine that works on it:                                             *)
(*                                                                         *)
(*   - one handleAgentConnection per accepted agent connection             *)
(*     (src/cmd/relay/main.go), which logs the session, registers it and   *)
(*     then applies the quota status it read from the database;            *)
(*   - gateway requests, which open streams with GetStream and move bytes  *)
(*     through a CountingConn;                                             *)
(*   - the one-minute bandwidth worker (src/internal/tunnel/sync.go);      *)
(*   - the scavenger of ghost sessions;                                    *)
(*   - the network, which may close an agent's yamux session at any time.  *)
(*                                                                         *)
(* An accepted connection c names at once the yamux session made over it   *)
(* and the pair of int64 counters that AddSession allocates for it, so a   *)
(* *yamux.Session and the pointers in bytesIn, bytesOut are elements of    *)
(* Conn.  The database is external here: its answers are unconstrained.    *)
(***************************************************************************)
EXTENDS Naturals, FiniteSets, Functions

CONSTANTS
  Domain,      \* tunnel domains
  Conn,        \* agent connections accepted by the relay, each used once
  Stream,      \* gateway goroutines, each with at most one stream at a time
  NoConn,      \* the nil pointer
  NoDomain,    \* the value of a domain variable not assigned yet
  MaxBytes,    \* bound: a stream of a connection moves bytes only while
               \* fewer than this were counted for that connection
  DBMayFail    \* whether database calls may return an error

ASSUME NilAssumption == NoConn \notin Conn /\ NoDomain \notin Domain
ASSUME BoundAssumption == MaxBytes \in Nat \ {0}
ASSUME FailAssumption == DBMayFail \in BOOLEAN

VARIABLES
  \* The Manager's maps, protected by Manager.mu
  sessions,    \* domain -> yamux session
  bytesIn,     \* domain -> counter of bytes read from the agent
  bytesOut,    \* domain -> counter of bytes written to the agent
  meta,        \* domain -> metadata, known by the connection it describes
  throttles,   \* the domains that have a rate limiter
  \* What the maps point to
  yamux,       \* connection -> state of its yamux session
  cell,        \* <<direction, connection>> -> value of that int64
  \* The goroutines
  agent,       \* connection -> its handleAgentConnection
  stream,      \* gateway goroutine -> its stream
  worker,      \* the bandwidth worker
  \* History
  counted,     \* <<direction, connection>> -> bytes ever added to that int64
  billed       \* <<direction, connection>> -> bytes UpdateBandwidthUsage took

managerVars == <<sessions, bytesIn, bytesOut, meta, throttles>>
meterVars == <<counted, billed>>
vars == <<managerVars, yamux, cell, agent, stream, worker, meterVars>>

-----------------------------------------------------------------------------
Dir == {"in", "out"}
Account == Dir \X Conn

\* Maps from domains to connections; a missing key is a missing entry.
ConnMap == UNION {[D -> Conn] : D \in SUBSET Domain}
EmptyMap == [d \in {} |-> NoConn]
Store(m, d, c) == [x \in DOMAIN m \cup {d} |-> IF x = d THEN c ELSE m[x]]
\* Fault: a domain without a session falls back on the session of another one.
LookupAny(m, d) == IF d \in DOMAIN m THEN m[d]
                   ELSE IF m # EmptyMap THEN m[CHOOSE x \in DOMAIN m : TRUE] ELSE NoConn
Lookup(m, d) == IF d \in DOMAIN m THEN m[d] ELSE NoConn

NoBytes == [dir \in Dir |-> 0]

IdleAgent == [pc |-> "new", dom |-> NoDomain]
IdleStream == [pc |-> "idle", dom |-> NoDomain, conn |-> NoConn, bIn |-> NoConn,
               bOut |-> NoConn, limited |-> FALSE, held |-> NoBytes]
IdleWorker == [pc |-> "idle", todo |-> {}, dom |-> NoDomain, ptr |-> NoConn,
               taken |-> NoBytes, slow |-> FALSE]
NextDomain == [IdleWorker EXCEPT !.pc = "next", !.todo = worker.todo]

\* GetStats keeps mu from its first atomic load to its return.  Every other
\* critical section is a single step, taken only while mu is free.
MuFree == worker.pc \notin {"loadOut", "storeIn", "storeOut"}

\* The int64 a CountingConn adds to in direction dir.
Pointer(s, dir) == IF dir = "in" THEN s.bIn ELSE s.bOut

Init ==
  /\ sessions = EmptyMap /\ bytesIn = EmptyMap /\ bytesOut = EmptyMap
  /\ meta = EmptyMap /\ throttles = {}
  /\ yamux = [c \in Conn |-> "none"]
  /\ cell = [a \in Account |-> 0]
  /\ agent = [c \in Conn |-> IdleAgent]
  /\ stream = [s \in Stream |-> IdleStream]
  /\ worker = IdleWorker
  /\ counted = [a \in Account |-> 0]
  /\ billed = [a \in Account |-> 0]

-----------------------------------------------------------------------------
(* handleAgentConnection, after the handshake was authenticated             *)

\* The domain comes from the token or the API key.  What LogSession writes to
\* the database is in TunnelSessions; a failed INSERT is only logged.
LogSession(c, d) ==
  /\ agent[c].pc = "new"
  /\ agent' = [agent EXCEPT ![c] = [pc |-> "logged", dom |-> d]]
  /\ UNCHANGED <<managerVars, yamux, cell, stream, worker, meterVars>>

\* Fault: the session the domain had is forgotten and stays open.
AddSessionKeepsOld(c) ==
  LET d == agent[c].dom IN
  /\ agent[c].pc = "logged"
  /\ MuFree
  /\ yamux' = [yamux EXCEPT ![c] = "open"]
  /\ sessions' = Store(sessions, d, c)
  /\ meta' = Store(meta, d, c)
  /\ bytesIn' = Store(bytesIn, d, c)
  /\ bytesOut' = Store(bytesOut, d, c)
  /\ agent' = [agent EXCEPT ![c].pc = "added"]
  /\ UNCHANGED <<throttles, cell, stream, worker, meterVars>>

\* Under mu: the session the domain had is closed, the new one replaces it,
\* with counters that start from zero.  Neither throttles nor isPaid is reset.
AddSession(c) ==
  LET d == agent[c].dom IN
  /\ agent[c].pc = "logged"
  /\ MuFree
  /\ yamux' = [x \in Conn |-> IF x = c THEN "open"
                              ELSE IF x = Lookup(sessions, d) THEN "closed"
                              ELSE yamux[x]]
  /\ sessions' = Store(sessions, d, c)
  /\ meta' = Store(meta, d, c)
  /\ bytesIn' = Store(bytesIn, d, c)
  /\ bytesOut' = Store(bytesOut, d, c)
  /\ agent' = [agent EXCEPT ![c].pc = "added"]
  /\ UNCHANGED <<throttles, cell, stream, worker, meterVars>>

\* GetBandwidthStatusByDomain: throttled or not, or an error; only the first
\* makes the handler go on.  SetPaidStatus, which follows, is in
\* BandwidthQuota: nothing here reads isPaid.
ReadQuota(c) ==
  /\ agent[c].pc = "added"
  /\ \E pc \in {"slow", "done"} : agent' = [agent EXCEPT ![c].pc = pc]
  /\ UNCHANGED <<managerVars, yamux, cell, stream, worker, meterVars>>

\* The handler only ever switches the throttle on, and returns.
ThrottleOnConnect(c) ==
  /\ agent[c].pc = "slow"
  /\ MuFree
  /\ throttles' = throttles \cup {agent[c].dom}
  /\ agent' = [agent EXCEPT ![c].pc = "done"]
  /\ UNCHANGED <<sessions, bytesIn, bytesOut, meta, yamux, cell, stream,
                 worker, meterVars>>

\* The agent goes away, or yamux gives up on its keepalive.  Nobody tells the
\* manager.
Disconnect(c) ==
  /\ yamux[c] = "open"
  /\ yamux' = [yamux EXCEPT ![c] = "closed"]
  /\ UNCHANGED <<managerVars, cell, agent, stream, worker, meterVars>>

-----------------------------------------------------------------------------
(* Gateway: GetStream and CountingConn                                      *)

\* The critical section of GetStream: everything the stream will ever use.
GetStreamRead(s, d) ==
  /\ stream[s].pc = "idle"
  /\ MuFree
  /\ stream' = [stream EXCEPT ![s] =
                  [pc |-> "asked", dom |-> d, conn |-> Lookup(sessions, d),
                   bIn |-> Lookup(bytesIn, d), bOut |-> Lookup(bytesOut, d),
                   limited |-> d \in throttles, held |-> NoBytes]]
  /\ UNCHANGED <<managerVars, yamux, cell, agent, worker, meterVars>>

\* Fault: the session read before the unlock is used without asking whether it
\* was closed since.
GetStreamOpenUnchecked(s) ==
  /\ stream[s].pc = "asked"
  /\ stream[s].conn # NoConn
  /\ stream' = [stream EXCEPT ![s].pc = "open"]
  /\ UNCHANGED <<managerVars, yamux, cell, agent, worker, meterVars>>

\* After the unlock: IsClosed, then session.Open.
GetStreamOpen(s) ==
  /\ stream[s].pc = "asked"
  /\ stream[s].conn # NoConn
  /\ yamux[stream[s].conn] = "open"
  /\ stream' = [stream EXCEPT ![s].pc = "open"]
  /\ UNCHANGED <<managerVars, yamux, cell, agent, worker, meterVars>>

\* No session, a closed one, or an error of Open.
GetStreamFail(s) ==
  /\ stream[s].pc = "asked"
  /\ stream' = [stream EXCEPT ![s] = IdleStream]
  /\ UNCHANGED <<managerVars, yamux, cell, agent, worker, meterVars>>

\* CountingConn.Read and Write up to the return of the wrapped call.  A read
\* may still drain what a closed session had buffered; a write may not.
Transfer(s, dir) ==
  LET c == stream[s].conn IN
  /\ stream[s].pc = "open"
  /\ stream[s].held[dir] = 0
  /\ dir = "out" => yamux[c] = "open"
  /\ counted[<<"in", c>>] + counted[<<"out", c>>] < MaxBytes
  /\ stream' = [stream EXCEPT ![s].held[dir] = 1]
  /\ UNCHANGED <<managerVars, yamux, cell, agent, worker, meterVars>>

\* The atomic.AddInt64 that follows, after the limiter's wait if there is one.
CountBytes(s, dir) ==
  LET a == <<dir, Pointer(stream[s], dir)>>
      n == stream[s].held[dir]
  IN
  /\ n > 0
  /\ cell' = [cell EXCEPT ![a] = @ + n]
  /\ counted' = [counted EXCEPT ![a] = @ + n]
  /\ stream' = [stream EXCEPT ![s].held[dir] = 0]
  /\ UNCHANGED <<managerVars, yamux, agent, worker, billed>>

CloseStream(s) ==
  /\ stream[s].pc = "open"
  /\ stream[s].held = NoBytes
  /\ stream' = [stream EXCEPT ![s] = IdleStream]
  /\ UNCHANGED <<managerVars, yamux, cell, agent, worker, meterVars>>

-----------------------------------------------------------------------------
(* The scavenger                                                            *)

Ghosts == {d \in DOMAIN sessions : yamux[sessions[d]] = "closed"}

\* Fault: a counter outlives its session.
ScavengeKeepsOut ==
  /\ MuFree
  /\ Ghosts # {}
  /\ sessions' = Restrict(sessions, DOMAIN sessions \ Ghosts)
  /\ bytesIn' = Restrict(bytesIn, DOMAIN bytesIn \ Ghosts)
  /\ meta' = Restrict(meta, DOMAIN meta \ Ghosts)
  /\ throttles' = throttles \ Ghosts
  /\ UNCHANGED <<bytesOut, yamux, cell, agent, stream, worker, meterVars>>

Scavenge ==
  /\ MuFree
  /\ Ghosts # {}
  /\ sessions' = Restrict(sessions, DOMAIN sessions \ Ghosts)
  /\ bytesIn' = Restrict(bytesIn, DOMAIN bytesIn \ Ghosts)
  /\ bytesOut' = Restrict(bytesOut, DOMAIN bytesOut \ Ghosts)
  /\ meta' = Restrict(meta, DOMAIN meta \ Ghosts)
  /\ throttles' = throttles \ Ghosts
  /\ UNCHANGED <<yamux, cell, agent, stream, worker, meterVars>>

-----------------------------------------------------------------------------
(* The bandwidth worker                                                     *)

\* The ticker fires: GetActiveDomains.
Tick ==
  /\ worker.pc = "idle"
  /\ worker' = [IdleWorker EXCEPT !.pc = "next", !.todo = DOMAIN sessions]
  /\ UNCHANGED <<managerVars, yamux, cell, agent, stream, meterVars>>

RoundDone ==
  /\ worker.pc = "next"
  /\ worker.todo = {}
  /\ worker' = IdleWorker
  /\ UNCHANGED <<managerVars, yamux, cell, agent, stream, meterVars>>

\* GetStats(domain, true): lock, find the counters, load the first one.
StatsLoadIn(d) ==
  /\ worker.pc = "next"
  /\ d \in worker.todo
  /\ d \in DOMAIN bytesIn
  /\ worker' = [worker EXCEPT !.pc = "loadOut", !.dom = d, !.ptr = bytesIn[d],
                              !.todo = @ \ {d},
                              !.taken = [NoBytes EXCEPT !["in"] = cell[<<"in", bytesIn[d]>>]]]
  /\ UNCHANGED <<managerVars, yamux, cell, agent, stream, meterVars>>

\* GetStats when the scavenger removed the domain since GetActiveDomains: zero.
StatsMissing(d) ==
  /\ worker.pc = "next"
  /\ d \in worker.todo
  /\ d \notin DOMAIN bytesIn
  /\ worker' = [worker EXCEPT !.pc = "session", !.dom = d, !.ptr = NoConn,
                              !.todo = @ \ {d}, !.taken = NoBytes]
  /\ UNCHANGED <<managerVars, yamux, cell, agent, stream, meterVars>>

StatsLoadOut ==
  /\ worker.pc = "loadOut"
  /\ worker' = [worker EXCEPT !.pc = "storeIn",
                              !.taken["out"] = cell[<<"out", bytesOut[worker.dom]>>]]
  /\ UNCHANGED <<managerVars, yamux, cell, agent, stream, meterVars>>

\* Fault: the counter is read and not reset.
StatsStoreInKeeps ==
  /\ worker.pc = "storeIn"
  /\ worker' = [worker EXCEPT !.pc = "storeOut"]
  /\ UNCHANGED <<managerVars, yamux, cell, agent, stream, meterVars>>

StatsStoreIn ==
  /\ worker.pc = "storeIn"
  /\ cell' = [cell EXCEPT ![<<"in", worker.ptr>>] = 0]
  /\ worker' = [worker EXCEPT !.pc = "storeOut"]
  /\ UNCHANGED <<managerVars, yamux, agent, stream, meterVars>>

\* Fault: GetStats does not unlock.
StatsStoreOutKeepsLock ==
  /\ worker.pc = "storeOut"
  /\ cell' = [cell EXCEPT ![<<"out", bytesOut[worker.dom]>>] = 0]
  /\ UNCHANGED <<managerVars, yamux, agent, stream, worker, meterVars>>

\* The second store, and the deferred unlock.
StatsStoreOut ==
  /\ worker.pc = "storeOut"
  /\ cell' = [cell EXCEPT ![<<"out", bytesOut[worker.dom]>>] = 0]
  /\ worker' = [worker EXCEPT !.pc = "session"]
  /\ UNCHANGED <<managerVars, yamux, agent, stream, meterVars>>

TotalTaken == worker.taken["in"] + worker.taken["out"]

\* What it writes is in TunnelSessions; an error is only logged.  Without bytes
\* the quota is left alone.
UpdateSessionStatsIncrement ==
  /\ worker.pc = "session"
  /\ worker' = IF TotalTaken > 0 THEN [worker EXCEPT !.pc = "quota"] ELSE NextDomain
  /\ UNCHANGED <<managerVars, yamux, cell, agent, stream, meterVars>>

\* Fault: the usage is set to the bytes of this round.
UpdateBandwidthUsageSets ==
  /\ worker.pc = "quota"
  /\ \E slow \in BOOLEAN : worker' = [worker EXCEPT !.pc = "throttle", !.slow = slow]
  /\ billed' = [a \in Account |-> IF a[2] = worker.ptr THEN worker.taken[a[1]] ELSE billed[a]]
  /\ UNCHANGED <<managerVars, yamux, cell, agent, stream, counted>>

\* The quota transaction commits and answers, or fails and the loop continues
\* with bytes that are in no counter any more.
UpdateBandwidthUsage ==
  /\ worker.pc = "quota"
  /\ \/ /\ \E slow \in BOOLEAN :
             worker' = [worker EXCEPT !.pc = "throttle", !.slow = slow]
        /\ billed' = [a \in Account |-> IF a[2] = worker.ptr
                                        THEN billed[a] + worker.taken[a[1]]
                                        ELSE billed[a]]
     \/ /\ DBMayFail
        /\ worker' = NextDomain
        /\ UNCHANGED billed
  /\ UNCHANGED <<managerVars, yamux, cell, agent, stream, counted>>

\* The domain may have lost or changed its session since the worker listed it.
SetThrottle ==
  /\ worker.pc = "throttle"
  /\ throttles' = IF worker.slow THEN throttles \cup {worker.dom}
                                 ELSE throttles \ {worker.dom}
  /\ worker' = NextDomain
  /\ UNCHANGED <<sessions, bytesIn, bytesOut, meta, yamux, cell, agent,
                 stream, meterVars>>

Worker ==
  \/ Tick \/ RoundDone
  \/ \E d \in Domain : StatsLoadIn(d) \/ StatsMissing(d)
  \/ StatsLoadOut \/ StatsStoreIn \/ StatsStoreOut
  \/ UpdateSessionStatsIncrement \/ UpdateBandwidthUsage \/ SetThrottle

-----------------------------------------------------------------------------
Handler(c) ==
  \/ \E d \in Domain : LogSession(c, d)
  \/ AddSession(c) \/ ReadQuota(c) \/ ThrottleOnConnect(c)
  \/ Disconnect(c)

Gateway(s) ==
  \/ \E d \in Domain : GetStreamRead(s, d)
  \/ GetStreamOpen(s) \/ GetStreamFail(s) \/ CloseStream(s)
  \/ \E dir \in Dir : Transfer(s, dir) \/ CountBytes(s, dir)

Next ==
  \/ \E c \in Conn : Handler(c)
  \/ \E s \in Stream : Gateway(s)
  \/ Scavenge
  \/ Worker

\* The two tickers never stop, and the database answers every call of the
\* worker.  The worker is the only one to hold mu over several steps, so the
\* scavenger's Lock waits for it again and again; sync.RWMutex starves no
\* waiter.  Nothing else is obliged to happen.
Fairness == WF_vars(Worker) /\ SF_vars(Scavenge)

Spec == Init /\ [][Next]_vars
FairSpec == Spec /\ Fairness

-----------------------------------------------------------------------------
AgentState == [pc : {"new", "logged", "added", "slow", "done"},
               dom : Domain \cup {NoDomain}]
StreamState == [pc : {"idle", "asked", "open"}, dom : Domain \cup {NoDomain},
                conn : Conn \cup {NoConn}, bIn : Conn \cup {NoConn},
                bOut : Conn \cup {NoConn}, limited : BOOLEAN, held : [Dir -> Nat]]
WorkerState == [pc : {"idle", "next", "loadOut", "storeIn", "storeOut", "session",
                      "quota", "throttle"},
                todo : SUBSET Domain, dom : Domain \cup {NoDomain},
                ptr : Conn \cup {NoConn}, taken : [Dir -> Nat], slow : BOOLEAN]

(* The shape of the manager and of the goroutines around it.                *)
TypeOK ==
  /\ sessions \in ConnMap /\ bytesIn \in ConnMap
  /\ bytesOut \in ConnMap /\ meta \in ConnMap
  /\ throttles \in SUBSET Domain
  /\ yamux \in [Conn -> {"none", "open", "closed"}]
  /\ cell \in [Account -> Nat]
  /\ agent \in [Conn -> AgentState]
  /\ stream \in [Stream -> StreamState]
  /\ worker \in WorkerState
  /\ counted \in [Account -> Nat] /\ billed \in [Account -> Nat]

(* GetStats, GetSnapshot and the worker dereference m.bytesOut[domain] or   *)
(* m.bytesIn[domain] after testing another map only: whatever sequence of   *)
(* registrations and scavenges came before, the four maps of a live domain  *)
(* have an entry together, of one and the same connection, so that no       *)
(* dereference meets nil and no counter of another session.                 *)
CountersFollowSession ==
  /\ bytesIn = sessions /\ bytesOut = sessions /\ meta = sessions
  /\ worker.pc \in {"loadOut", "storeIn", "storeOut"} =>
       Lookup(bytesOut, worker.dom) = worker.ptr /\ worker.ptr # NoConn

(* An agent whose session is registered and still open is the one the       *)
(* gateway reaches under its domain: no reconnection and no scavenge leaves *)
(* a connected agent that no request can reach.                             *)
LiveAgentsAreReachable ==
  \A c \in Conn :
    yamux[c] = "open" => agent[c].dom \in DOMAIN sessions /\ sessions[agent[c].dom] = c

(* A stream counts into the counters of the session it was opened on, and   *)
(* what the worker took is billed to the domain whose agent carried it,     *)
(* although AddSession may replace session and counters at any time.        *)
BytesGoToTheirOwner ==
  /\ \A s \in Stream : stream[s].pc = "open" =>
       /\ stream[s].bIn = stream[s].conn /\ stream[s].bOut = stream[s].conn
       /\ agent[stream[s].conn].dom = stream[s].dom
  /\ worker.pc \in {"session", "quota"} /\ TotalTaken > 0 =>
       worker.ptr # NoConn /\ agent[worker.ptr].dom = worker.dom

(* A byte is charged to a quota at most once and only after it was counted, *)
(* while CountingConn adds to the counters that GetStats reads and resets   *)
(* with two separate atomic operations.                                     *)
NoOverBilling == \A a \in Account : billed[a] <= counted[a]

(* A stream is opened only on the session its domain has at that moment:    *)
(* GetStream uses after the unlock what it read before, but a session that  *)
(* was replaced meanwhile is closed, and refuses.                           *)
OpensOnCurrentSession ==
  [][\A s \in Stream :
       stream[s].pc = "asked" /\ stream'[s].pc = "open" =>
         /\ stream[s].dom \in DOMAIN sessions
         /\ sessions[stream[s].dom] = stream[s].conn]_vars

(* The counters and sessions refine the promise of UsageMeter.              *)
Meter == INSTANCE UsageMeter WITH carried <- counted, charged <- billed
BillsLikeAMeter == Meter!Spec

(* GetStats "moves the usage figures to the database": with a database that *)
(* never fails, a counted byte is in its counter, in the worker's hands or  *)
(* billed.                                                                  *)
Pending(a) == IF worker.pc \in {"session", "quota"} /\ a[2] = worker.ptr
              THEN worker.taken[a[1]] ELSE 0
NoByteIsForgotten ==
  MuFree => \A a \in Account : counted[a] = cell[a] + Pending(a) + billed[a]

(* A closed session does not stay in the maps for ever: it is scavenged or  *)
(* replaced.                                                                *)
GhostsAreRemoved ==
  \A d \in Domain : (d \in Ghosts) ~> (d \notin Ghosts)

(* Bytes in the counters of a registered session do not stay there: the     *)
(* worker takes them, unless the session is removed or replaced first.      *)
UsageIsCollected ==
  \A d \in Domain, c \in Conn, dir \in Dir :
    (Lookup(sessions, d) = c /\ cell[<<dir, c>>] > 0)
      ~> (Lookup(sessions, d) # c \/ cell[<<dir, c>>] = 0)
=============================================================================

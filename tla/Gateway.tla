------------------------------- MODULE Gateway -------------------------------
(***************************************************************************)
(* The HTTP gateway of the relay for one domain (src/internal/tunnel/      *)
(* gateway.go): every request is a goroutine that probes for a tunnel, is  *)
(* proxied over a stream of the session (GetStream of manager.go), and     *)
(* leaves an entry in the ring of the live dashboard and, through a        *)
(* channel and the log worker, in the database.  Meanwhile agents connect, *)
(* replace each other and die, and the database may fail or hang.          *)
(*                                                                         *)
(* A request stands for its log entry as well.                             *)
(***************************************************************************)
EXTENDS Naturals, Sequences, FiniteSets

CONSTANTS
  Request,     \* requests for the domain, each of them made once
  Session,     \* yamux sessions of agents of the domain
  NoSession,   \* no session
  NoRequest,   \* the log worker waits
  RingSize,    \* entries the ring keeps (50)
  ChanSize     \* buffer of logChan (1000)

ASSUME GatewayAssumption ==
  /\ NoSession \notin Session /\ NoRequest \notin Request
  /\ RingSize \in Nat \ {0} /\ ChanSize \in Nat \ {0}

VARIABLES
  \* The manager
  session,     \* sessions[domain]
  yamux,       \* session -> its state
  ring,        \* logs[domain]
  \* The gateway
  req,         \* request -> where ServeHTTP is, and the session GetStream read
  idle,        \* streams http.Transport keeps for another request
  logChan,     \* the buffered channel
  saving,      \* the entry the log worker holds
  \* The database
  rows,        \* request -> its rows in traffic_logs
  hung,        \* statements do not return
  \* History
  logged,      \* entries in the order of AddLog
  lost         \* entries dropped at a full channel, or reported with an error

managerVars == <<session, yamux>>
logVars == <<ring, logged>>
workerVars == <<saving, rows, hung>>
vars == <<managerVars, logVars, req, idle, logChan, workerVars, lost>>

-----------------------------------------------------------------------------
Start == [pc |-> "idle", via |-> NoSession]

Init ==
  /\ session = NoSession
  /\ yamux = [s \in Session |-> "none"]
  /\ ring = <<>>
  /\ req = [r \in Request |-> Start]
  /\ idle = 0
  /\ logChan = <<>>
  /\ saving = NoRequest
  /\ rows = [r \in Request |-> 0]
  /\ hung = FALSE
  /\ logged = <<>>
  /\ lost = {}

Alive(s) == s # NoSession /\ yamux[s] = "open"

\* Where request r is, and where it goes, with which session in hand.
At(r, pc) == req[r].pc = pc
Go(r, pc, s) == req' = [req EXCEPT ![r] = [pc |-> pc, via |-> s]]
GatewayStep == UNCHANGED <<managerVars, logVars, logChan, workerVars, lost>>

-----------------------------------------------------------------------------
(* ServeHTTP                                                                *)

\* GetStream reads the session under the manager's lock and opens a stream
\* after the unlock: meanwhile the session may die or be replaced.
ProbeReads(r) == At(r, "idle") /\ Go(r, "probe", session) /\ UNCHANGED idle /\ GatewayStep

\* "Tunnel Offline", or the way to the proxy.  Nothing closes the probe's stream.
ProbeOpens(r) ==
  /\ At(r, "probe")
  /\ Go(r, IF Alive(req[r].via) THEN "proxy" ELSE "offline", NoSession)
  /\ UNCHANGED idle /\ GatewayStep

DialReads(r) == At(r, "proxy") /\ Go(r, "dial", session) /\ UNCHANGED idle /\ GatewayStep

\* A new stream; or ErrorHandler: 502.
DialOpens(r) ==
  /\ At(r, "dial")
  /\ Go(r, IF Alive(req[r].via) THEN "wait" ELSE "log", NoSession)
  /\ UNCHANGED idle /\ GatewayStep

\* A stream an earlier request left behind, which may be broken by now.
Reuse(r) ==
  /\ At(r, "proxy") /\ idle > 0
  /\ idle' = idle - 1
  /\ Go(r, "wait", NoSession) /\ GatewayStep

\* An idle stream times out, or its session is gone.
IdleEnds ==
  /\ idle > 0
  /\ idle' = idle - 1
  /\ UNCHANGED req /\ GatewayStep

\* The head of the answer arrives, and is written to the client.
AnswerBegins(r) == At(r, "wait") /\ Go(r, "copy", NoSession) /\ UNCHANGED idle /\ GatewayStep

\* The stream or the client is gone before the head: ErrorHandler, 502.
AnswerFails(r) == At(r, "wait") /\ Go(r, "log", NoSession) /\ UNCHANGED idle /\ GatewayStep

\* The stream is kept, unless one side wants it closed.
AnswerEnds(r) ==
  /\ At(r, "copy")
  /\ idle' \in {idle, idle + 1}
  /\ Go(r, "log", NoSession) /\ GatewayStep

\* The stream or the client is gone after the head: ReverseProxy panics with
\* http.ErrAbortHandler, and ServeHTTP gets no further.
Abort(r) == At(r, "copy") /\ Go(r, "aborted", NoSession) /\ UNCHANGED idle /\ GatewayStep

\* Fault: the ring makes room at the wrong end.
AddLogDropsNewest(r) ==
  /\ At(r, "log")
  /\ ring' = Append(IF Len(ring) >= RingSize THEN SubSeq(ring, 1, Len(ring) - 1) ELSE ring, r)
  /\ logged' = Append(logged, r)
  /\ Go(r, "send", NoSession)
  /\ UNCHANGED <<managerVars, idle, logChan, workerVars, lost>>

AddLog(r) ==
  /\ At(r, "log")
  /\ ring' = Append(IF Len(ring) >= RingSize THEN Tail(ring) ELSE ring, r)
  /\ logged' = Append(logged, r)
  /\ Go(r, "send", NoSession)
  /\ UNCHANGED <<managerVars, idle, logChan, workerVars, lost>>

\* Fault: a send without default.
SendLogBlocks(r) ==
  /\ At(r, "send")
  /\ Len(logChan) < ChanSize
  /\ logChan' = Append(logChan, r)
  /\ Go(r, "done", NoSession)
  /\ UNCHANGED <<managerVars, logVars, idle, workerVars, lost>>

\* select with default: a full channel drops the entry.
SendLog(r) ==
  /\ At(r, "send")
  /\ IF Len(logChan) < ChanSize
     THEN logChan' = Append(logChan, r) /\ UNCHANGED lost
     ELSE lost' = lost \cup {r} /\ UNCHANGED logChan
  /\ Go(r, "done", NoSession)
  /\ UNCHANGED <<managerVars, logVars, idle, workerVars>>

-----------------------------------------------------------------------------
(* logWorker and InsertTrafficLog                                           *)

TakeLog ==
  /\ saving = NoRequest
  /\ logChan # <<>>
  /\ saving' = Head(logChan)
  /\ logChan' = Tail(logChan)
  /\ UNCHANGED <<managerVars, logVars, req, idle, rows, hung, lost>>

InsertTrafficLog ==
  /\ saving # NoRequest
  /\ ~hung
  /\ rows' = [rows EXCEPT ![saving] = @ + 1]
  /\ saving' = NoRequest
  /\ UNCHANGED <<managerVars, logVars, req, idle, logChan, hung, lost>>

\* Fault: an entry that was refused goes back into the channel.
InsertFailsRequeues ==
  /\ saving # NoRequest
  /\ ~hung
  /\ lost' = lost \cup {saving}
  /\ logChan' = Append(logChan, saving)
  /\ saving' = NoRequest
  /\ UNCHANGED <<managerVars, logVars, req, idle, rows, hung>>

\* Fault: the error goes unnoticed.
InsertFailsSilently ==
  /\ saving # NoRequest
  /\ ~hung
  /\ saving' = NoRequest
  /\ UNCHANGED <<managerVars, logVars, req, idle, logChan, rows, hung, lost>>

\* An error is printed, and the entry forgotten.  The statement was refused, or
\* the row was committed and the connection was gone before the answer.
InsertFails ==
  /\ saving # NoRequest
  /\ ~hung
  /\ rows' \in {rows, [rows EXCEPT ![saving] = @ + 1]}
  /\ lost' = lost \cup {saving}
  /\ saving' = NoRequest
  /\ UNCHANGED <<managerVars, logVars, req, idle, logChan, hung>>

LogWorker == TakeLog \/ InsertTrafficLog \/ InsertFails

-----------------------------------------------------------------------------
(* Agents and the database                                                  *)

\* AddSession closes the session it replaces.
AddSession(s) ==
  /\ yamux[s] = "none"
  /\ yamux' = [t \in Session |-> IF t = s THEN "open"
                                 ELSE IF t = session THEN "closed" ELSE yamux[t]]
  /\ session' = s
  /\ UNCHANGED <<logVars, req, idle, logChan, workerVars, lost>>

Disconnect(s) ==
  /\ yamux[s] = "open"
  /\ yamux' = [yamux EXCEPT ![s] = "closed"]
  /\ UNCHANGED <<session, logVars, req, idle, logChan, workerVars, lost>>

Scavenge ==
  /\ session # NoSession /\ yamux[session] = "closed"
  /\ session' = NoSession
  /\ UNCHANGED <<yamux, logVars, req, idle, logChan, workerVars, lost>>

\* The database stops answering, or answers again.
Hang ==
  /\ hung' = ~hung
  /\ UNCHANGED <<managerVars, logVars, req, idle, logChan, saving, rows, lost>>

-----------------------------------------------------------------------------
\* What ServeHTTP does by itself; the answer is the agent's.
ServeHTTP(r) ==
  \/ ProbeOpens(r) \/ DialReads(r) \/ DialOpens(r) \/ Reuse(r)
  \/ AddLog(r) \/ SendLog(r)

Next ==
  \/ \E r \in Request : \/ ProbeReads(r) \/ ServeHTTP(r)
                        \/ AnswerBegins(r) \/ AnswerFails(r) \/ AnswerEnds(r) \/ Abort(r)
  \/ IdleEnds
  \/ LogWorker
  \/ \E s \in Session : AddSession(s) \/ Disconnect(s)
  \/ Scavenge \/ Hang

Spec == Init /\ [][Next]_vars

\* Requests go on where they wait for nobody, and so does the log worker, but
\* for a database that hangs.
FairSpec ==
  /\ Spec
  /\ \A r \in Request : WF_vars(ServeHTTP(r))
  /\ WF_vars(LogWorker)

-----------------------------------------------------------------------------
RequestState ==
  [pc : {"idle", "probe", "proxy", "dial", "wait", "copy", "log", "send",
         "done", "offline", "aborted"},
   via : Session \cup {NoSession}]

(* The shape of the gateway, the ring and the channel, with their limits.   *)
TypeOK ==
  /\ session \in Session \cup {NoSession}
  /\ yamux \in [Session -> {"none", "open", "closed"}]
  /\ req \in [Request -> RequestState]
  /\ idle \in Nat
  /\ ring \in Seq(Request) /\ Len(ring) <= RingSize
  /\ logChan \in Seq(Request) /\ Len(logChan) <= ChanSize
  /\ saving \in Request \cup {NoRequest}
  /\ rows \in [Request -> Nat]
  /\ hung \in BOOLEAN
  /\ logged \in Seq(Request)
  /\ lost \in SUBSET Request

(* The audit trail neither invents nor repeats: a request that was proxied  *)
(* to its end has its entry in the channel, with the worker, or dealt with  *)
(* (in the table or reported, or both when the answer to the INSERT was     *)
(* lost), never in two of these; no entry has two rows; and the other       *)
(* requests have none.                                                      *)
Times(r, s) == Cardinality({i \in DOMAIN s : s[i] = r})
DealtWith(r) == rows[r] > 0 \/ r \in lost
Places(r) ==
  Times(r, logChan) + (IF saving = r THEN 1 ELSE 0) + (IF DealtWith(r) THEN 1 ELSE 0)
EntryIsInOnePlace ==
  \A r \in Request : /\ Places(r) = IF At(r, "done") THEN 1 ELSE 0
                     /\ rows[r] <= 1

(* The live dashboard shows the newest entries, in their order, and no more *)
(* than the ring holds, also when many requests end at once.                *)
RingIsNewest ==
  LET n == Len(logged)
      k == IF n < RingSize THEN n ELSE RingSize
  IN ring = SubSeq(logged, n - k + 1, n)

(* Logging never holds a request up: it ends although the database hangs    *)
(* and the channel is full.                                                 *)
LoggingNeverBlocks == \A r \in Request : At(r, "log") ~> At(r, "done")

(* With a database that answers in the end, the entries in the channel are  *)
(* saved or reported, in spite of errors and of all that hung before.       *)
EntriesAreSaved ==
  (<>[]~hung) =>
    \A r \in Request : At(r, "done") ~> DealtWith(r)
=============================================================================

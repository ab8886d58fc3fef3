---------------------------- MODULE GatewayProofs ----------------------------
(***************************************************************************)
(* The ring of the live dashboard and the audit trail, for every number of *)
(* requests and agents, and every size of the ring and of the channel.     *)
(***************************************************************************)
EXTENDS Gateway, SequenceTheorems, FiniteSetTheorems, TLAPS

USE GatewayAssumption
USE DEF vars, managerVars, logVars, workerVars, GatewayStep

LEMMA InitType == Init => TypeOK
<1> SUFFICES ASSUME Init PROVE TypeOK
  OBVIOUS
<1>1. hung \in BOOLEAN
  BY Zenon DEF Init
<1>2. req \in [Request -> RequestState]
  BY DEF Init, Start, RequestState
<1>3. yamux \in [Session -> {"none", "open", "closed"}] /\ rows \in [Request -> Nat]
  BY DEF Init
<1> QED BY <1>1, <1>2, <1>3 DEF Init, TypeOK

\* Go moves one request and keeps the shape of req.
LEMMA GoKeepsType ==
  ASSUME TypeOK, NEW r \in Request, NEW s \in Session \cup {NoSession},
         NEW pc \in {"idle", "probe", "proxy", "dial", "wait", "copy", "log", "send",
                     "done", "offline", "aborted"},
         Go(r, pc, s)
  PROVE  req' \in [Request -> RequestState]
BY DEF TypeOK, RequestState, Go

\* A request that is on its way, but for the two steps that log it.
OnTheWay(r) ==
  \/ ProbeReads(r) \/ ProbeOpens(r) \/ DialReads(r) \/ DialOpens(r) \/ Reuse(r)
  \/ AnswerBegins(r) \/ AnswerFails(r) \/ AnswerEnds(r) \/ Abort(r)

LEMMA OnTheWayType ==
  ASSUME TypeOK, NEW r \in Request, OnTheWay(r)
  PROVE  TypeOK'
<1>1. req' \in [Request -> RequestState]
  BY GoKeepsType DEF OnTheWay, ProbeReads, ProbeOpens, DialReads, DialOpens, Reuse,
     AnswerBegins, AnswerFails, AnswerEnds, Abort, TypeOK
<1>2. idle' \in Nat
  BY DEF OnTheWay, ProbeReads, ProbeOpens, DialReads, DialOpens, Reuse,
     AnswerBegins, AnswerFails, AnswerEnds, Abort, TypeOK
<1>3. UNCHANGED <<managerVars, logVars, logChan, workerVars, lost>>
  BY DEF OnTheWay, ProbeReads, ProbeOpens, DialReads, DialOpens, Reuse,
     AnswerBegins, AnswerFails, AnswerEnds, Abort
<1> QED BY <1>1, <1>2, <1>3 DEF TypeOK

\* What Append, Tail and the length are to each other.
LEMMA RingLength ==
  ASSUME TypeOK, NEW r \in Request
  PROVE  LET kept == IF Len(ring) >= RingSize THEN Tail(ring) ELSE ring
         IN  Append(kept, r) \in Seq(Request) /\ Len(Append(kept, r)) <= RingSize
<1> USE DEF TypeOK
<1>1. CASE Len(ring) >= RingSize
  <2>1. ring # <<>>
    BY <1>1
  <2> QED BY <1>1, <2>1
<1>2. CASE ~(Len(ring) >= RingSize)
  BY <1>2
<1> QED BY <1>1, <1>2

LEMMA AddLogType ==
  ASSUME TypeOK, NEW r \in Request, AddLog(r)
  PROVE  TypeOK'
<1>1. req' \in [Request -> RequestState]
  BY GoKeepsType DEF AddLog
<1>2. ring' \in Seq(Request) /\ Len(ring') <= RingSize
  BY RingLength DEF AddLog
<1>3. logged' \in Seq(Request)
  BY DEF AddLog, TypeOK
<1> QED BY <1>1, <1>2, <1>3 DEF AddLog, TypeOK

LEMMA SendLogType ==
  ASSUME TypeOK, NEW r \in Request, SendLog(r)
  PROVE  TypeOK'
<1>1. req' \in [Request -> RequestState]
  BY GoKeepsType DEF SendLog
<1>2. logChan' \in Seq(Request) /\ Len(logChan') <= ChanSize /\ lost' \in SUBSET Request
  <2> USE DEF TypeOK
  <2>1. CASE Len(logChan) < ChanSize
    <3>1. logChan' = Append(logChan, r) /\ lost' = lost
      BY <2>1 DEF SendLog
    <3>2. Append(logChan, r) \in Seq(Request) /\ Len(Append(logChan, r)) = Len(logChan) + 1
      BY AppendProperties
    <3> QED BY <2>1, <3>1, <3>2, LenProperties
  <2>2. CASE ~(Len(logChan) < ChanSize)
    BY <2>2 DEF SendLog
  <2> QED BY <2>1, <2>2
<1> QED BY <1>1, <1>2 DEF SendLog, TypeOK

LEMMA LogWorkerType == ASSUME TypeOK, LogWorker PROVE TypeOK'
<1>1. CASE TakeLog
  <2>1. logChan # <<>> /\ logChan' = Tail(logChan) /\ saving' = Head(logChan)
    BY <1>1 DEF TakeLog
  <2>2. logChan' \in Seq(Request) /\ Len(logChan') <= ChanSize /\ saving' \in Request
    BY <2>1 DEF TypeOK
  <2> QED BY <1>1, <2>2 DEF TakeLog, TypeOK
<1>2. CASE InsertTrafficLog
  BY <1>2 DEF InsertTrafficLog, TypeOK
<1>3. CASE InsertFails
  BY <1>3 DEF InsertFails, TypeOK
<1> QED BY <1>1, <1>2, <1>3 DEF LogWorker

\* The steps of agents, of the database and of the pool touch neither requests nor logs.
Outside ==
  \/ IdleEnds \/ Scavenge \/ Hang
  \/ \E s \in Session : AddSession(s) \/ Disconnect(s)

LEMMA OutsideType == ASSUME TypeOK, Outside PROVE TypeOK'
<1>1. CASE IdleEnds
  BY <1>1 DEF IdleEnds, TypeOK
<1>2. CASE Scavenge
  BY <1>2 DEF Scavenge, TypeOK
<1>3. CASE Hang
  BY <1>3 DEF Hang, TypeOK
<1>4. ASSUME NEW s \in Session, AddSession(s) PROVE TypeOK'
  BY <1>4 DEF AddSession, TypeOK
<1>5. ASSUME NEW s \in Session, Disconnect(s) PROVE TypeOK'
  BY <1>5 DEF Disconnect, TypeOK
<1> QED BY <1>1, <1>2, <1>3, <1>4, <1>5 DEF Outside

\* Every step of the gateway is one of these.
LEMMA Steps ==
  Next <=> \/ \E r \in Request : OnTheWay(r) \/ AddLog(r) \/ SendLog(r)
           \/ LogWorker \/ Outside
BY Zenon DEF Next, ServeHTTP, OnTheWay, Outside

LEMMA NextType == TypeOK /\ [Next]_vars => TypeOK'
<1>1. CASE UNCHANGED vars
  BY <1>1 DEF TypeOK
<1>2. CASE Next /\ TypeOK
  BY <1>2, Steps, OnTheWayType, AddLogType, SendLogType, LogWorkerType, OutsideType
<1> QED BY <1>1, <1>2

(* The gateway keeps its shape: the ring has room for what it holds, and    *)
(* the channel never holds more than its buffer.                            *)
THEOREM TypeCorrect == Spec => []TypeOK
BY InitType, NextType, PTL DEF Spec

-----------------------------------------------------------------------------
\* The end of a sequence, with one more element.
LEMMA SubSeqOfAppend ==
  ASSUME NEW S, NEW s \in Seq(S), NEW e \in S, NEW m \in 1 .. Len(s) + 1
  PROVE  SubSeq(Append(s, e), m, Len(s) + 1) = Append(SubSeq(s, m, Len(s)), e)
<1> DEFINE n == Len(s)
           a == SubSeq(Append(s, e), m, n + 1)
           b == Append(SubSeq(s, m, n), e)
<1>1. n \in Nat /\ m \in 1 .. n + 1 /\ \A i \in 1 .. n : s[i] \in S
  BY LenProperties, ElementOfSeq
<1>2. /\ Append(s, e) \in Seq(S) /\ Len(Append(s, e)) = n + 1
      /\ \A i \in 1 .. n : Append(s, e)[i] = s[i]
      /\ Append(s, e)[n + 1] = e
  BY AppendProperties
<1>3. /\ a \in Seq(S) /\ Len(a) = n + 2 - m
      /\ \A i \in 1 .. n + 2 - m : a[i] = Append(s, e)[m + i - 1]
  <2>1. \A i \in m .. n + 1 : Append(s, e)[i] \in S
    BY <1>2, ElementOfSeq
  <2> DEFINE t == Append(s, e)
             p == n + 1
  <2>2. p \in Int /\ m \in Int /\ m <= p /\ p = n + 1 /\ \A i \in m .. p : t[i] \in S
    BY <1>1, <2>1
  <2> HIDE DEF n, p, t
  <2>3. /\ SubSeq(t, m, p) \in Seq(S)
        /\ Len(SubSeq(t, m, p)) = IF m <= p THEN p - m + 1 ELSE 0
        /\ \A i \in 1 .. p - m + 1 : SubSeq(t, m, p)[i] = t[m + i - 1]
    BY <2>2, SubSeqProperties
  <2>4. p - m + 1 = n + 2 - m
    BY <1>1, <2>2
  <2>5. a = SubSeq(t, m, p)
    BY DEF p, t
  <2> HIDE DEF a
  <2> QED BY <2>2, <2>3, <2>4, <2>5 DEF t
<1>4. /\ SubSeq(s, m, n) \in Seq(S) /\ Len(SubSeq(s, m, n)) = n + 1 - m
      /\ \A i \in 1 .. n + 1 - m : SubSeq(s, m, n)[i] = s[m + i - 1]
  <2> HIDE DEF n
  <2>1. \A i \in m .. n : s[i] \in S
    BY <1>1
  <2>2. n \in Int /\ m \in Int /\ m <= n + 1
    BY <1>1
  <2>3. /\ SubSeq(s, m, n) \in Seq(S)
        /\ Len(SubSeq(s, m, n)) = IF m <= n THEN n - m + 1 ELSE 0
        /\ \A i \in 1 .. n - m + 1 : SubSeq(s, m, n)[i] = s[m + i - 1]
    BY <2>1, <2>2, SubSeqProperties
  <2> QED BY <1>1, <2>2, <2>3
<1>5. /\ b \in Seq(S) /\ Len(b) = n + 2 - m
      /\ \A i \in 1 .. n + 1 - m : b[i] = s[m + i - 1]
      /\ b[n + 2 - m] = e
  <2> DEFINE c == SubSeq(s, m, n)
  <2>1. /\ Append(c, e) \in Seq(S) /\ Len(Append(c, e)) = Len(c) + 1
        /\ \A i \in 1 .. Len(c) : Append(c, e)[i] = c[i]
        /\ Append(c, e)[Len(c) + 1] = e
    BY <1>4, AppendProperties
  <2> HIDE DEF c, n
  <2> QED BY <1>1, <1>4, <2>1 DEF c
<1>6. \A i \in 1 .. Len(a) : a[i] = b[i]
  <2> SUFFICES ASSUME NEW i \in 1 .. n + 2 - m PROVE a[i] = b[i]
    BY <1>3
  <2> HIDE DEF n, a, b
  <2>1. CASE i = n + 2 - m
    BY <1>1, <1>2, <1>3, <1>5, <2>1
  <2>2. CASE i # n + 2 - m
    <3>1. i \in 1 .. n + 1 - m /\ m + i - 1 \in 1 .. n
      BY <1>1, <2>2
    <3> QED BY <1>2, <1>3, <1>5, <3>1
  <2> QED BY <2>1, <2>2
<1> HIDE DEF a, b
<1>7. a = b
  BY <1>3, <1>5, <1>6, SeqEqual
<1> QED BY <1>7 DEF a, b

\* The newest entries stay the newest when one is added.
LEMMA AddLogRing ==
  ASSUME TypeOK, RingIsNewest, NEW r \in Request, AddLog(r)
  PROVE  RingIsNewest'
<1> DEFINE n == Len(logged)
<1>1. /\ logged \in Seq(Request) /\ n \in Nat
      /\ logged' = Append(logged, r) /\ Len(logged') = n + 1
  BY AppendProperties, LenProperties DEF TypeOK, AddLog
<1>2. CASE n < RingSize
  <2>1. n - n + 1 = 1 /\ (n + 1) - (n + 1) + 1 = 1
    BY <1>1
  <2>2. ring = SubSeq(logged, 1, n)
    BY <1>1, <1>2, <2>1 DEF RingIsNewest
  <2>3. Len(ring) < RingSize
    BY <1>1, <1>2, <2>2, SubSeqFull
  <2>4. ring' = Append(ring, r)
    BY <2>3 DEF AddLog, TypeOK
  <2>5. ring' = SubSeq(logged', 1, n + 1)
    BY <1>1, <2>2, <2>4, SubSeqOfAppend
  <2>6. CASE n + 1 < RingSize
    BY <1>1, <2>1, <2>5, <2>6 DEF RingIsNewest
  <2>7. CASE n + 1 = RingSize
    BY <1>1, <2>1, <2>5, <2>7 DEF RingIsNewest
  <2> QED BY <1>1, <1>2, <2>6, <2>7
<1>3. CASE n >= RingSize
  <2> DEFINE m == n - RingSize + 1
  <2>1. /\ m \in 1 .. n /\ n \in m .. n /\ m + 1 \in 1 .. n + 1
        /\ (n + 1) - RingSize + 1 = m + 1 /\ n - m + 1 = RingSize
    BY <1>1, <1>3
  <2>2. ring = SubSeq(logged, m, n)
    <3>1. (IF n < RingSize THEN n ELSE RingSize) = RingSize
      BY <1>1, <1>3
    <3> HIDE DEF n
    <3> QED BY <3>1 DEF RingIsNewest, n
  <2>3. ~(n + 1 < RingSize)
    BY <1>1, <1>3
  <2> HIDE DEF m
  <2>4. Len(ring) = RingSize
    <3>1. \A i \in m .. n : logged[i] \in Request
      BY <1>1, <2>1, ElementOfSeq
    <3>2. Len(SubSeq(logged, m, n)) = IF m <= n THEN n - m + 1 ELSE 0
      BY <1>1, <2>1, <3>1, SubSeqProperties
    <3> QED BY <2>1, <2>2, <3>2
  <2>5. ring' = Append(Tail(ring), r)
    BY <2>4 DEF AddLog
  <2>6. Tail(ring) = SubSeq(logged, m + 1, n)
    BY <1>1, <2>1, <2>2, HeadTailOfSubSeq
  <2>7. ring' = SubSeq(logged', m + 1, n + 1)
    BY <1>1, <2>1, <2>5, <2>6, SubSeqOfAppend
  <2> QED BY <1>1, <2>1, <2>3, <2>7 DEF RingIsNewest
<1> QED BY <1>1, <1>2, <1>3

(* The ring holds the last entries in the order of AddLog: the live         *)
(* dashboard never skips one that is still recent, nor shows one twice.     *)
THEOREM RingAlwaysNewest == Spec => []RingIsNewest
<1>1. Init => RingIsNewest
  BY DEF Init, RingIsNewest
<1>2. TypeOK /\ RingIsNewest /\ [Next]_vars => RingIsNewest'
  <2> SUFFICES ASSUME TypeOK, RingIsNewest, [Next]_vars PROVE RingIsNewest'
    OBVIOUS
  <2>1. ASSUME UNCHANGED logVars PROVE RingIsNewest'
    BY <2>1 DEF RingIsNewest
  <2>2. ASSUME NEW r \in Request, OnTheWay(r) \/ SendLog(r) PROVE UNCHANGED logVars
    BY <2>2 DEF OnTheWay, ProbeReads, ProbeOpens, DialReads, DialOpens, Reuse,
       AnswerBegins, AnswerFails, AnswerEnds, Abort, SendLog
  <2>3. ASSUME LogWorker \/ Outside \/ UNCHANGED vars PROVE UNCHANGED logVars
    BY <2>3 DEF LogWorker, TakeLog, InsertTrafficLog, InsertFails, Outside, IdleEnds, Scavenge,
       Hang, AddSession, Disconnect
  <2> QED BY <2>1, <2>2, <2>3, AddLogRing, Steps
<1> QED BY <1>1, <1>2, TypeCorrect, PTL DEF Spec

-----------------------------------------------------------------------------
\* How often an element occurs is a number.
LEMMA TimesType ==
  ASSUME NEW S, NEW s \in Seq(S), NEW r
  PROVE  /\ IsFiniteSet({i \in DOMAIN s : s[i] = r})
         /\ Times(r, s) \in Nat
<1>1. DOMAIN s = 1 .. Len(s) /\ Len(s) \in Nat
  BY LenProperties
<1>2. IsFiniteSet(1 .. Len(s))
  BY <1>1, FS_Interval
<1>3. IsFiniteSet({i \in DOMAIN s : s[i] = r})
  BY <1>1, <1>2, FS_Subset
<1> QED BY <1>3, FS_CardinalityType DEF Times

\* Append adds its element.
LEMMA TimesAppend ==
  ASSUME NEW S, NEW s \in Seq(S), NEW e \in S, NEW r
  PROVE  Times(r, Append(s, e)) = Times(r, s) + (IF e = r THEN 1 ELSE 0)
<1> DEFINE n == Len(s)
           A == {i \in DOMAIN s : s[i] = r}
           B == {i \in DOMAIN Append(s, e) : Append(s, e)[i] = r}
<1>1. n \in Nat /\ DOMAIN s = 1 .. n
  BY LenProperties
<1>2. /\ DOMAIN Append(s, e) = 1 .. n + 1
      /\ \A i \in 1 .. n : Append(s, e)[i] = s[i]
      /\ Append(s, e)[n + 1] = e
  BY <1>1, AppendProperties, LenProperties
<1>3. IsFiniteSet(A) /\ Times(r, s) = Cardinality(A) /\ Times(r, Append(s, e)) = Cardinality(B)
  BY TimesType DEF Times
<1>4. Cardinality(A) \in Nat
  BY <1>3, FS_CardinalityType
<1>5. n + 1 \notin A
  BY <1>1
<1>6. CASE e = r
  <2>1. B = A \cup {n + 1}
    BY <1>1, <1>2, <1>6
  <2> HIDE DEF A, B, n
  <2>2. Cardinality(A \cup {n + 1}) = Cardinality(A) + 1
    BY <1>3, <1>5, FS_AddElement
  <2> QED BY <1>3, <1>4, <1>6, <2>1, <2>2
<1>7. CASE e # r
  <2>1. B = A
    BY <1>1, <1>2, <1>7
  <2> HIDE DEF A, B
  <2> QED BY <1>3, <1>4, <1>7, <2>1
<1> QED BY <1>6, <1>7

\* Tail takes the head away.
LEMMA TimesTail ==
  ASSUME NEW S, NEW s \in Seq(S), s # <<>>, NEW r
  PROVE  Times(r, s) = Times(r, Tail(s)) + (IF Head(s) = r THEN 1 ELSE 0)
<1> DEFINE n == Len(s)
           A == {i \in DOMAIN s : s[i] = r}
           B == {i \in DOMAIN Tail(s) : Tail(s)[i] = r}
           A1 == A \ {1}
           f == [i \in B |-> i + 1]
<1>1. n \in Nat \ {0} /\ DOMAIN s = 1 .. n /\ Head(s) = s[1]
  BY LenProperties, EmptySeq
<1>2. /\ Tail(s) \in Seq(S) /\ DOMAIN Tail(s) = 1 .. n - 1
      /\ \A i \in 1 .. n - 1 : Tail(s)[i] = s[i + 1]
  BY <1>1, HeadTailProperties, LenProperties
<1>3. /\ IsFiniteSet(A) /\ Times(r, s) = Cardinality(A)
      /\ IsFiniteSet(B) /\ Times(r, Tail(s)) = Cardinality(B)
  BY <1>2, TimesType DEF Times
<1>4. A1 = {i \in 2 .. n : s[i] = r} /\ B = {i \in 1 .. n - 1 : s[i + 1] = r}
  BY <1>1, <1>2
<1>5. ExistsBijection(B, A1)
  <2>1. f \in [B -> A1]
    BY <1>1, <1>4
  <2>2. \A i, j \in B : f[i] = f[j] => i = j
    BY <1>1, <1>4
  <2>3. \A i \in A1 : i - 1 \in B /\ f[i - 1] = i
    BY <1>1, <1>4
  <2>4. f \in Bijection(B, A1)
    BY <2>1, <2>2, <2>3 DEF Bijection, Injection, IsInjective, Surjection
  <2> QED BY <2>4 DEF ExistsBijection
<1>6. Cardinality(A1) = Cardinality(B)
  BY <1>3, <1>5, FS_Bijection
<1>7. Cardinality(A1) = IF 1 \in A THEN Cardinality(A) - 1 ELSE Cardinality(A)
  BY <1>3, FS_RemoveElement
<1>8. 1 \in A <=> Head(s) = r
  BY <1>1
<1>9. Cardinality(A) \in Nat
  BY <1>3, FS_CardinalityType
<1> HIDE DEF A, B, A1
<1> QED BY <1>3, <1>6, <1>7, <1>8, <1>9

\* A request that moves, but for the step that sends its entry, keeps its places.
LEMMA MoveKeepsPlaces ==
  ASSUME TypeOK, EntryIsInOnePlace, NEW r \in Request, NEW s,
         NEW pc \in {"idle", "probe", "proxy", "dial", "wait", "copy", "log", "send",
                     "offline", "aborted"},
         ~At(r, "done"), Go(r, pc, s), UNCHANGED <<logChan, workerVars, lost>>
  PROVE  EntryIsInOnePlace'
<1> SUFFICES ASSUME NEW q \in Request
             PROVE  /\ Places(q)' = IF At(q, "done")' THEN 1 ELSE 0
                    /\ rows'[q] <= 1
  BY DEF EntryIsInOnePlace
<1>1. Places(q)' = Places(q) /\ rows' = rows
  BY DEF Places, DealtWith, Times
<1>2. At(q, "done")' <=> At(q, "done")
  BY DEF At, Go, TypeOK, RequestState
<1> QED BY <1>1, <1>2 DEF EntryIsInOnePlace

\* The parts of Places are numbers.
LEMMA PlacesType ==
  ASSUME TypeOK, NEW q \in Request
  PROVE  Times(q, logChan) \in Nat /\ rows[q] \in Nat
BY TimesType DEF TypeOK

LEMMA SendLogPlaces ==
  ASSUME TypeOK, EntryIsInOnePlace, NEW r \in Request, SendLog(r)
  PROVE  EntryIsInOnePlace'
<1> SUFFICES ASSUME NEW q \in Request
             PROVE  /\ Places(q)' = IF At(q, "done")' THEN 1 ELSE 0
                    /\ rows'[q] <= 1
  BY DEF EntryIsInOnePlace
<1>1. At(q, "done")' <=> (q = r \/ At(q, "done"))
  BY DEF SendLog, At, Go, TypeOK, RequestState
<1>2. Places(q) = (IF At(q, "done") THEN 1 ELSE 0) /\ rows[q] <= 1
  BY DEF EntryIsInOnePlace
<1>3. ~At(r, "done") /\ saving' = saving /\ rows' = rows
  BY DEF SendLog, At
<1>4. Times(q, logChan) \in Nat /\ rows[q] \in Nat
  BY PlacesType
<1>5. CASE Len(logChan) < ChanSize
  <2>1. logChan' = Append(logChan, r) /\ lost' = lost
    BY <1>5 DEF SendLog
  <2>2. Times(q, logChan') = Times(q, logChan) + (IF r = q THEN 1 ELSE 0)
    BY <2>1, TimesAppend DEF TypeOK
  <2>3. Times(q, logChan)' = Times(q, logChan')
    BY DEF Times
  <2> QED BY <1>1, <1>2, <1>3, <1>4, <2>1, <2>2, <2>3 DEF Places, DealtWith
<1>6. CASE ~(Len(logChan) < ChanSize)
  <2>1. logChan' = logChan /\ lost' = lost \cup {r}
    BY <1>6 DEF SendLog
  <2>2. Times(q, logChan)' = Times(q, logChan)
    BY <2>1 DEF Times
  <2> QED BY <1>1, <1>2, <1>3, <1>4, <2>1, <2>2 DEF Places, DealtWith
<1> QED BY <1>5, <1>6

LEMMA LogWorkerPlaces ==
  ASSUME TypeOK, EntryIsInOnePlace, LogWorker
  PROVE  EntryIsInOnePlace'
<1> SUFFICES ASSUME NEW q \in Request
             PROVE  /\ Places(q)' = IF At(q, "done")' THEN 1 ELSE 0
                    /\ rows'[q] <= 1
  BY DEF EntryIsInOnePlace
<1>1. At(q, "done")' <=> At(q, "done")
  BY DEF LogWorker, TakeLog, InsertTrafficLog, InsertFails, At
<1>2. Places(q) = (IF At(q, "done") THEN 1 ELSE 0) /\ rows[q] <= 1
  BY DEF EntryIsInOnePlace
<1>3. Times(q, logChan) \in Nat /\ rows[q] \in Nat
  BY PlacesType
<1>4. Places(q)' = Places(q) /\ rows'[q] <= 1
  <2>1. CASE TakeLog
    <3>1. /\ logChan # <<>> /\ logChan' = Tail(logChan) /\ saving = NoRequest
          /\ saving' = Head(logChan) /\ rows' = rows /\ lost' = lost
      BY <2>1 DEF TakeLog
    <3>2. Times(q, logChan) = Times(q, logChan') + (IF saving' = q THEN 1 ELSE 0)
      BY <3>1, TimesTail DEF TypeOK
    <3>3. Times(q, logChan)' = Times(q, logChan')
      BY DEF Times
    <3>4. Times(q, logChan') \in Nat
      BY <3>1, TimesType, HeadTailProperties DEF TypeOK
    <3> QED BY <1>2, <1>3, <3>1, <3>2, <3>3, <3>4 DEF Places, DealtWith
  <2>2. saving = q => rows[q] = 0 /\ q \notin lost
    BY <1>2, <1>3 DEF Places, DealtWith
  <2>3. CASE InsertTrafficLog \/ InsertFails
    <3>1. /\ saving # NoRequest /\ saving' = NoRequest /\ logChan' = logChan
          /\ rows' \in {rows, [rows EXCEPT ![saving] = @ + 1]}
      BY <2>3 DEF InsertTrafficLog, InsertFails
    <3>2. Times(q, logChan)' = Times(q, logChan)
      BY <3>1 DEF Times
    <3>3. CASE saving = q
      <4>1. DealtWith(q)' /\ rows'[q] <= 1
        BY <1>3, <2>2, <2>3, <3>1, <3>3 DEF DealtWith, InsertTrafficLog, InsertFails, TypeOK
      <4>2. ~DealtWith(q)
        BY <2>2, <3>3 DEF DealtWith
      <4> QED BY <1>3, <3>1, <3>2, <3>3, <4>1, <4>2 DEF Places
    <3>4. CASE saving # q
      <4>1. rows'[q] = rows[q] /\ (q \in lost' <=> q \in lost)
        BY <2>3, <3>1, <3>4 DEF InsertTrafficLog, InsertFails, TypeOK
      <4> QED BY <1>2, <1>3, <3>1, <3>2, <3>4, <4>1 DEF Places, DealtWith
    <3> QED BY <3>3, <3>4
  <2> QED BY <2>1, <2>3 DEF LogWorker
<1> QED BY <1>1, <1>2, <1>4

(* No entry of the audit trail is invented, saved twice or gone without a   *)
(* message, for any number of requests that end at once.                    *)
THEOREM EntryAlwaysInOnePlace == Spec => []EntryIsInOnePlace
<1>1. Init => EntryIsInOnePlace
  <2> SUFFICES ASSUME Init, NEW q \in Request
               PROVE  /\ Places(q) = IF At(q, "done") THEN 1 ELSE 0
                      /\ rows[q] <= 1
    BY DEF EntryIsInOnePlace
  <2>1. {i \in DOMAIN logChan : logChan[i] = q} = {}
    BY DEF Init
  <2>2. Times(q, logChan) = 0
    BY <2>1, FS_EmptySet DEF Times
  <2> QED BY <2>2 DEF Init, Places, DealtWith, At, Start
<1>2. TypeOK /\ EntryIsInOnePlace /\ [Next]_vars => EntryIsInOnePlace'
  <2> SUFFICES ASSUME TypeOK, EntryIsInOnePlace, [Next]_vars PROVE EntryIsInOnePlace'
    OBVIOUS
  <2>1. ASSUME UNCHANGED <<req, logChan, workerVars, lost>> PROVE EntryIsInOnePlace'
    BY <2>1 DEF EntryIsInOnePlace, Places, DealtWith, Times, At
  <2>2. ASSUME NEW r \in Request, OnTheWay(r) PROVE EntryIsInOnePlace'
    BY <2>2, MoveKeepsPlaces DEF OnTheWay, ProbeReads, ProbeOpens, DialReads, DialOpens, Reuse,
       AnswerBegins, AnswerFails, AnswerEnds, Abort, At
  <2>3. ASSUME NEW r \in Request, AddLog(r) PROVE EntryIsInOnePlace'
    BY <2>3, MoveKeepsPlaces DEF AddLog, At
  <2>4. ASSUME Outside \/ UNCHANGED vars PROVE EntryIsInOnePlace'
    <3>1. CASE Hang
      BY <3>1 DEF Hang, EntryIsInOnePlace, Places, DealtWith, Times, At
    <3>2. CASE ~Hang
      BY <2>1, <2>4, <3>2 DEF Outside, IdleEnds, Scavenge, AddSession, Disconnect
    <3> QED BY <3>1, <3>2
  <2> QED BY <2>2, <2>3, <2>4, SendLogPlaces, LogWorkerPlaces, Steps
<1> QED BY <1>1, <1>2, TypeCorrect, PTL DEF Spec
=============================================================================

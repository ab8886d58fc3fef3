------------------------ MODULE TunnelManagerProofs ------------------------
(***************************************************************************)
(* Safety of TunnelManager, and of TunnelSessions built on it, for every   *)
(* number of domains, connections and gateway goroutines, and every        *)
(* database.                                                               *)
(***************************************************************************)
EXTENDS TunnelSessions, FiniteSetTheorems, TLAPS

-----------------------------------------------------------------------------
(* The inductive invariant                                                  *)

\* A connection has a domain from LogSession on, and a session from AddSession on.
AgentPhases ==
  \A c \in Conn :
    /\ agent[c].pc # "new" => agent[c].dom \in Domain
    /\ yamux[c] = "none" <=> agent[c].pc \in {"new", "logged"}

\* What the map calls the session of a domain was registered for that domain.
SessionsAreRegistered ==
  \A d \in DOMAIN sessions :
    agent[sessions[d]].dom = d /\ yamux[sessions[d]] # "none"

\* GetStream captured one connection, session and counters alike.
StreamsAreWhole ==
  \A s \in Stream :
    /\ stream[s].pc # "idle" => stream[s].bIn = stream[s].conn /\ stream[s].bOut = stream[s].conn
    /\ stream[s].pc # "idle" /\ stream[s].conn # NoConn =>
         /\ agent[stream[s].conn].dom = stream[s].dom
         /\ yamux[stream[s].conn] # "none"
    /\ stream[s].pc = "open" => stream[s].conn # NoConn
    /\ stream[s].pc # "open" => stream[s].held = NoBytes

\* The worker has bytes only of a registered connection of the domain it is at.
WorkerIsWhole ==
  /\ worker.pc \in {"session", "quota"} /\ worker.ptr = NoConn => worker.taken = NoBytes
  /\ worker.pc \in {"loadOut", "storeIn", "storeOut", "session", "quota", "throttle"} =>
       /\ worker.dom \in Domain
       /\ worker.ptr # NoConn =>
            agent[worker.ptr].dom = worker.dom /\ yamux[worker.ptr] # "none"

\* The bytes of counter a that the worker has stored back as zero, and not yet
\* billed.
Outstanding(a) ==
  IF a[2] = worker.ptr
     /\ worker.pc \in (IF a[1] = "in" THEN {"storeOut", "session", "quota"}
                                      ELSE {"session", "quota"})
  THEN worker.taken[a[1]] ELSE 0

\* Between a load and its store the counter has only grown, and the bytes in a
\* counter, in the worker's hands and on the bill were all counted.
BytesAreConserved ==
  /\ worker.pc \in {"loadOut", "storeIn"} => worker.taken["in"] <= cell[<<"in", worker.ptr>>]
  /\ worker.pc \in {"storeIn", "storeOut"} => worker.taken["out"] <= cell[<<"out", worker.ptr>>]
  /\ \A a \in Account : billed[a] + cell[a] + Outstanding(a) <= counted[a]

IndInv ==
  /\ TypeOK
  /\ CountersFollowSession
  /\ AgentPhases
  /\ SessionsAreRegistered
  /\ LiveAgentsAreReachable
  /\ StreamsAreWhole
  /\ WorkerIsWhole
  /\ BytesAreConserved

-----------------------------------------------------------------------------
(* Sums over finite sets.  SumFunctionOnSet takes one chosen element after  *)
(* another out of the set; what follows shows that the choice does not      *)
(* matter and that the sum is monotone.  The inductions are first-order: a  *)
(* smallest counterexample among the subsets of a finite set.               *)

Sum(f, S) == SumFunctionOnSet(f, S)

Picked(S) == CHOOSE x \in S : TRUE

\* g sums f over each of the subsets of S.
Sums(f, S, g) ==
  g = [s \in SUBSET S |-> IF s = {} THEN 0 ELSE f[Picked(s)] + g[s \ {Picked(s)}]]

LEMMA SumIsChosen ==
  ASSUME NEW f, NEW S
  PROVE  Sum(f, S) = (CHOOSE g : Sums(f, S, g))[S]
BY DEF Sum, SumFunctionOnSet, FoldFunctionOnSet, MapThenFoldSet, Sums, Picked

LEMMA SmallestSubset ==
  ASSUME NEW S, IsFiniteSet(S), NEW T, T \subseteq SUBSET S, T # {}
  PROVE  \E s \in T : \A t \in T : t \subseteq s => t = s
<1>1. IsWellFoundedOn(StrictSubsetOrdering(S), SUBSET S)
  BY FS_StrictSubsetOrderingWellFounded, FS_FiniteSubsetsOfFinite
<1>2. PICK s \in T : \A t \in T : ~(<<t, s>> \in StrictSubsetOrdering(S))
  BY <1>1, WFMin
<1> QED BY <1>2 DEF StrictSubsetOrdering

LEMMA PickedIsThere == ASSUME NEW S, S # {} PROVE Picked(S) \in S
BY DEF Picked

LEMMA SumsOfPart ==
  ASSUME NEW f, NEW S, NEW g, Sums(f, S, g), NEW t \in SUBSET S
  PROVE  Sums(f, t, [s \in SUBSET t |-> g[s]])
<1> DEFINE h == [s \in SUBSET t |-> g[s]]
<1>1. ASSUME NEW s \in SUBSET t
      PROVE  h[s] = IF s = {} THEN 0 ELSE f[Picked(s)] + h[s \ {Picked(s)}]
  <2>1. s \in SUBSET S /\ s \ {Picked(s)} \in SUBSET t
    OBVIOUS
  <2>2. g[s] = IF s = {} THEN 0 ELSE f[Picked(s)] + g[s \ {Picked(s)}]
    BY <2>1 DEF Sums
  <2> QED BY <2>1, <2>2
<1> QED BY <1>1 DEF Sums

LEMMA SumsAreUnique ==
  ASSUME NEW f, NEW S, IsFiniteSet(S), NEW g, NEW h, Sums(f, S, g), Sums(f, S, h)
  PROVE  g = h
<1> DEFINE T == {s \in SUBSET S : g[s] # h[s]}
<1>1. T = {}
  <2> SUFFICES ASSUME T # {} PROVE FALSE
    OBVIOUS
  <2>1. PICK s \in T : \A t \in T : t \subseteq s => t = s
    <3>1. T \subseteq SUBSET S
      OBVIOUS
    <3> HIDE DEF T
    <3> QED BY <3>1, SmallestSubset
  <2>2. s # {}
    BY DEF Sums
  <2>3. s \ {Picked(s)} \in SUBSET S /\ s \ {Picked(s)} \notin T
    BY <2>1, <2>2, PickedIsThere
  <2>4. g[s] = f[Picked(s)] + g[s \ {Picked(s)}] /\ h[s] = f[Picked(s)] + h[s \ {Picked(s)}]
    BY <2>2 DEF Sums
  <2> QED BY <2>3, <2>4
<1> QED BY <1>1 DEF Sums

LEMMA SumsExist ==
  ASSUME NEW f, NEW S, IsFiniteSet(S)
  PROVE  \E g : Sums(f, S, g)
<1> DEFINE T == {s \in SUBSET S : ~\E g : Sums(f, s, g)}
<1> SUFFICES ASSUME T # {} PROVE FALSE
  OBVIOUS
<1>1. PICK s \in T : \A t \in T : t \subseteq s => t = s
  <2>1. T \subseteq SUBSET S
    OBVIOUS
  <2> HIDE DEF T
  <2> QED BY <2>1, SmallestSubset
<1> DEFINE G(t) == CHOOSE g : Sums(f, t, g)
           g == [t \in SUBSET s |-> IF t = {} THEN 0
                                    ELSE f[Picked(t)] + G(t \ {Picked(t)})[t \ {Picked(t)}]]
<1>2. ASSUME NEW t \in SUBSET s, t # s PROVE Sums(f, t, G(t))
  <2>1. \E h : Sums(f, t, h)
    BY <1>1, <1>2
  <2> QED BY <2>1
<1>3. ASSUME NEW t \in SUBSET s, t # s PROVE g[t] = G(t)[t]
  <2> DEFINE h == G(t)
  <2>0. Sums(f, t, h)
    BY <1>2, <1>3
  <2>1. CASE t = {}
    <3>1. h[t] = 0
      <4> HIDE DEF h
      <4> QED BY <2>0, <2>1 DEF Sums
    <3> QED BY <2>1, <3>1
  <2>2. CASE t # {}
    <3> DEFINE u == t \ {Picked(t)}
    <3>1. u \in SUBSET t /\ u \in SUBSET s /\ u # s /\ IsFiniteSet(u)
      BY <1>3, <2>2, FS_Subset
    <3>2. Sums(f, u, [v \in SUBSET u |-> G(t)[v]])
      BY <1>2, <1>3, <3>1, SumsOfPart
    <3>3. [v \in SUBSET u |-> G(t)[v]] = G(u)
      BY <1>2, <3>1, <3>2, SumsAreUnique
    <3>4. G(u)[u] = G(t)[u]
      BY <3>3
    <3>5. h[t] = f[Picked(t)] + h[u]
      <4> HIDE DEF h
      <4> QED BY <2>0, <2>2 DEF Sums
    <3> QED BY <2>2, <3>4, <3>5
  <2> QED BY <2>1, <2>2
<1>4. ASSUME NEW t \in SUBSET s, t # {}
      PROVE  g[t] = f[Picked(t)] + g[t \ {Picked(t)}]
  <2>1. t \ {Picked(t)} \in SUBSET s /\ t \ {Picked(t)} # s
    BY <1>4, PickedIsThere
  <2>2. g[t \ {Picked(t)}] = G(t \ {Picked(t)})[t \ {Picked(t)}]
    BY <1>3, <2>1
  <2> QED BY <1>4, <2>2
<1>5. g = [t \in SUBSET s |-> IF t = {} THEN 0 ELSE f[Picked(t)] + g[t \ {Picked(t)}]]
  <2> DEFINE h == [t \in SUBSET s |-> IF t = {} THEN 0 ELSE f[Picked(t)] + g[t \ {Picked(t)}]]
  <2>1. \A t \in SUBSET s : g[t] = h[t]
    BY <1>4
  <2> QED BY <2>1
<1>6. Sums(f, s, g)
  BY <1>5 DEF Sums
<1> QED BY <1>1, <1>6

LEMMA SumEmpty == ASSUME NEW f PROVE Sum(f, {}) = 0
<1>1. \E g : Sums(f, {}, g)
  BY SumsExist, FS_EmptySet
<1>2. Sums(f, {}, CHOOSE g : Sums(f, {}, g))
  BY <1>1
<1> DEFINE h == CHOOSE g : Sums(f, {}, g)
<1>3. h[{}] = 0
  <2> HIDE DEF h
  <2>1. Sums(f, {}, h)
    BY <1>2 DEF h
  <2> QED BY <2>1 DEF Sums
<1> QED BY <1>3, SumIsChosen

LEMMA SumPicked ==
  ASSUME NEW f, NEW S, IsFiniteSet(S), S # {}
  PROVE  Sum(f, S) = f[Picked(S)] + Sum(f, S \ {Picked(S)})
<1> DEFINE t == S \ {Picked(S)}
           g == CHOOSE x : Sums(f, S, x)
           h == CHOOSE x : Sums(f, t, x)
<1>1. t \in SUBSET S /\ IsFiniteSet(t)
  BY FS_Subset
<1>2. Sums(f, S, g) /\ Sums(f, t, h)
  BY <1>1, SumsExist
<1>3. Sum(f, S) = g[S] /\ Sum(f, t) = h[t]
  BY SumIsChosen
<1> HIDE DEF g, h
<1>4. g[S] = f[Picked(S)] + g[t]
  BY <1>2 DEF Sums
<1>5. [s \in SUBSET t |-> g[s]] = h
  <2>1. Sums(f, t, [s \in SUBSET t |-> g[s]])
    BY <1>1, <1>2, SumsOfPart
  <2> HIDE DEF t
  <2> QED BY <1>1, <1>2, <2>1, SumsAreUnique
<1>6. g[t] = h[t]
  BY <1>5
<1> QED BY <1>3, <1>4, <1>6

LEMMA SumIsNat ==
  ASSUME NEW D, NEW f \in [D -> Nat], NEW S \in SUBSET D, IsFiniteSet(S)
  PROVE  Sum(f, S) \in Nat
<1> DEFINE T == {s \in SUBSET S : Sum(f, s) \notin Nat}
<1> SUFFICES ASSUME T # {} PROVE FALSE
  OBVIOUS
<1>1. PICK s \in T : \A t \in T : t \subseteq s => t = s
  <2>1. T \subseteq SUBSET S
    OBVIOUS
  <2> HIDE DEF T
  <2> QED BY <2>1, SmallestSubset
<1>2. s # {} /\ s \in SUBSET S /\ IsFiniteSet(s)
  <2>1. s # {}
    BY SumEmpty
  <2> QED BY <2>1, FS_Subset
<1>3. Sum(f, s \ {Picked(s)}) \in Nat
  BY <1>1, <1>2, PickedIsThere
<1> QED BY <1>2, <1>3, SumPicked, PickedIsThere

LEMMA SumApart ==
  ASSUME NEW D, NEW f \in [D -> Nat], NEW S \in SUBSET D, IsFiniteSet(S), NEW x \in S
  PROVE  Sum(f, S) = f[x] + Sum(f, S \ {x})
<1> DEFINE T == {s \in SUBSET S : \E y \in s : Sum(f, s) # f[y] + Sum(f, s \ {y})}
<1> SUFFICES ASSUME T # {} PROVE FALSE
  OBVIOUS
<1>1. PICK s \in T : \A t \in T : t \subseteq s => t = s
  <2>1. T \subseteq SUBSET S
    OBVIOUS
  <2> HIDE DEF T
  <2> QED BY <2>1, SmallestSubset
<1>2. PICK y \in s : Sum(f, s) # f[y] + Sum(f, s \ {y})
  OBVIOUS
<1> DEFINE p == Picked(s)
           t == s \ {p}
           u == s \ {y}
<1>3. s \in SUBSET S /\ IsFiniteSet(s) /\ s # {}
  BY FS_Subset
<1>4. Sum(f, s) = f[p] + Sum(f, t) /\ p \in s /\ p # y
  BY <1>2, <1>3, SumPicked, PickedIsThere
<1>5. Sum(f, t) = f[y] + Sum(f, t \ {y})
  <2>1. t \in SUBSET S /\ t \subseteq s /\ t # s /\ y \in t
    BY <1>3, <1>4
  <2>2. t \notin T
    BY <1>1, <2>1
  <2> QED BY <2>1, <2>2
<1>6. Sum(f, u) = f[p] + Sum(f, u \ {p})
  <2>1. u \in SUBSET S /\ u \subseteq s /\ u # s /\ p \in u
    BY <1>3, <1>4
  <2>2. u \notin T
    BY <1>1, <2>1
  <2> QED BY <2>1, <2>2
<1>7. t \ {y} = u \ {p}
  OBVIOUS
<1>8. f[p] \in Nat /\ f[y] \in Nat /\ Sum(f, t \ {y}) \in Nat
  <2>1. t \ {y} \in SUBSET D /\ IsFiniteSet(t \ {y})
    BY <1>3, FS_Subset
  <2> QED BY <1>3, <1>4, <2>1, SumIsNat
<1> DEFINE rest == Sum(f, t \ {y})
<1>9. Sum(f, u \ {p}) = rest
  BY <1>7
<1>10. /\ Sum(f, s) = f[p] + (f[y] + rest)
      /\ Sum(f, u) = f[p] + rest
  BY <1>4, <1>5, <1>6, <1>9
<1>11. Sum(f, s) # f[y] + Sum(f, u)
  BY <1>2
<1> HIDE DEF t, u, p, T, rest
<1>12. f[p] \in Nat /\ f[y] \in Nat /\ rest \in Nat
  BY <1>8 DEF rest
<1> QED BY <1>10, <1>11, <1>12

LEMMA SumGrows ==
  ASSUME NEW D, NEW f \in [D -> Nat], NEW g \in [D -> Nat],
         NEW R \in SUBSET D, IsFiniteSet(R), NEW S \in SUBSET R, \A x \in S : f[x] <= g[x]
  PROVE  Sum(f, S) <= Sum(g, R)
<1> DEFINE T == {r \in SUBSET R : ~(Sum(f, r \cap S) <= Sum(g, r))}
<1>1. T = {}
  <2> SUFFICES ASSUME T # {} PROVE FALSE
    OBVIOUS
  <2>1. PICK r \in T : \A t \in T : t \subseteq r => t = r
    <3>1. T \subseteq SUBSET R
      OBVIOUS
    <3> HIDE DEF T
    <3> QED BY <3>1, SmallestSubset
  <2>2. r # {}
    BY SumEmpty
  <2> DEFINE p == Picked(r)
             t == r \ {p}
  <2>3. p \in r /\ r \in SUBSET D /\ IsFiniteSet(r) /\ IsFiniteSet(t) /\ IsFiniteSet(r \cap S)
    BY <2>2, PickedIsThere, FS_Subset
  <2>4. Sum(g, r) = g[p] + Sum(g, t)
    BY <2>2, <2>3, SumPicked
  <2>5. Sum(f, t \cap S) <= Sum(g, t)
    <3>1. t \in SUBSET R /\ t \notin T
      BY <2>1, <2>3
    <3> QED BY <3>1
  <2>6. /\ Sum(g, t) \in Nat /\ Sum(f, t \cap S) \in Nat /\ g[p] \in Nat /\ f[p] \in Nat
    <3>1. t \in SUBSET D /\ t \cap S \in SUBSET D /\ IsFiniteSet(t \cap S)
      BY <2>3, FS_Subset
    <3> QED BY <2>3, <3>1, SumIsNat
  <2>7. CASE p \in S
    <3>1. Sum(f, r \cap S) = f[p] + Sum(f, (r \cap S) \ {p})
      BY <2>3, <2>7, SumApart
    <3>2. (r \cap S) \ {p} = t \cap S
      OBVIOUS
    <3>3. f[p] <= g[p]
      BY <2>7
    <3>4. ~(Sum(f, r \cap S) <= Sum(g, r))
      OBVIOUS
    <3> DEFINE a == Sum(f, t \cap S)
               b == Sum(g, t)
    <3>5. Sum(f, r \cap S) = f[p] + a
      BY <3>1, <3>2
    <3>6. Sum(g, r) = g[p] + b /\ a <= b /\ a \in Nat /\ b \in Nat /\ g[p] \in Nat /\ f[p] \in Nat
      BY <2>4, <2>5, <2>6
    <3> HIDE DEF p, t, T, a, b
    <3> QED BY <3>3, <3>4, <3>5, <3>6
  <2>8. CASE p \notin S
    <3>1. r \cap S = t \cap S
      BY <2>8
    <3>2. ~(Sum(f, r \cap S) <= Sum(g, r))
      OBVIOUS
    <3> DEFINE a == Sum(f, t \cap S)
               b == Sum(g, t)
    <3>5. Sum(f, r \cap S) = a
      BY <3>1
    <3>6. Sum(g, r) = g[p] + b /\ a <= b /\ a \in Nat /\ b \in Nat /\ g[p] \in Nat
      BY <2>4, <2>5, <2>6
    <3> HIDE DEF p, t, T, a, b
    <3> QED BY <3>2, <3>5, <3>6
  <2> QED BY <2>7, <2>8
<1>2. R \cap S = S /\ R \in SUBSET R
  OBVIOUS
<1> QED BY <1>1, <1>2

LEMMA SumGrowsBy ==
  ASSUME NEW D, NEW f \in [D -> Nat], NEW g \in [D -> Nat],
         NEW S \in SUBSET D, IsFiniteSet(S), \A x \in S : f[x] <= g[x],
         NEW c \in S, NEW k \in Nat, f[c] + k <= g[c]
  PROVE  Sum(f, S) + k <= Sum(g, S)
<1> DEFINE r == S \ {c}
<1>1. r \in SUBSET D /\ IsFiniteSet(r)
  BY FS_Subset
<1>2. Sum(f, r) <= Sum(g, r) /\ Sum(f, r) \in Nat /\ Sum(g, r) \in Nat
  BY <1>1, SumGrows, SumIsNat
<1>3. Sum(f, S) = f[c] + Sum(f, r) /\ Sum(g, S) = g[c] + Sum(g, r)
  BY SumApart
<1>4. f[c] \in Nat /\ g[c] \in Nat
  OBVIOUS
<1> QED BY <1>2, <1>3, <1>4

-----------------------------------------------------------------------------
(* The maps                                                                 *)

USE NilAssumption

LEMMA ConnMapValues ==
  ASSUME NEW m \in ConnMap
  PROVE  /\ DOMAIN m \subseteq Domain
         /\ \A d \in DOMAIN m : m[d] \in Conn
BY DEF ConnMap

LEMMA StoreIsConnMap ==
  ASSUME NEW m \in ConnMap, NEW d \in Domain, NEW c \in Conn
  PROVE  Store(m, d, c) \in ConnMap
<1>1. Store(m, d, c) \in [DOMAIN m \cup {d} -> Conn]
  BY ConnMapValues DEF Store
<1>2. DOMAIN m \cup {d} \in SUBSET Domain
  BY ConnMapValues
<1> QED BY <1>1, <1>2 DEF ConnMap

LEMMA RestrictIsConnMap ==
  ASSUME NEW m \in ConnMap, NEW D
  PROVE  Restrict(m, DOMAIN m \ D) \in ConnMap
<1>1. Restrict(m, DOMAIN m \ D) \in [DOMAIN m \ D -> Conn]
  BY ConnMapValues DEF Restrict
<1>2. DOMAIN m \ D \in SUBSET Domain
  BY ConnMapValues
<1> QED BY <1>1, <1>2 DEF ConnMap

LEMMA LookupIsConn ==
  ASSUME NEW m \in ConnMap, NEW d
  PROVE  /\ Lookup(m, d) \in Conn \cup {NoConn}
         /\ Lookup(m, d) # NoConn => d \in DOMAIN m /\ Lookup(m, d) = m[d]
BY ConnMapValues DEF Lookup

USE DEF IndInv, vars, managerVars, meterVars, MuFree, Dir, Account, NoBytes

LEMMA LogSessionStep ==
  ASSUME IndInv, NEW c \in Conn, NEW d \in Domain, LogSession(c, d)
  PROVE  IndInv'
<1> USE DEF LogSession
<1>1. TypeOK'
  <2>1. agent' \in [Conn -> AgentState]
    BY DEF TypeOK, AgentState
  <2> QED BY <2>1 DEF TypeOK
<1>2. SessionsAreRegistered'
  BY ConnMapValues DEF SessionsAreRegistered, AgentPhases, TypeOK
<1>3. AgentPhases'
  BY DEF AgentPhases, TypeOK, AgentState
<1>4. LiveAgentsAreReachable'
  BY DEF LiveAgentsAreReachable, TypeOK, AgentState, AgentPhases
<1>5. StreamsAreWhole'
  BY DEF StreamsAreWhole, TypeOK, StreamState, AgentPhases
<1>6. WorkerIsWhole'
  BY DEF WorkerIsWhole, TypeOK, WorkerState, AgentPhases
<1>7. (CountersFollowSession /\ BytesAreConserved)'
  BY DEF CountersFollowSession, BytesAreConserved, Outstanding
<1> QED BY <1>1, <1>2, <1>3, <1>4, <1>5, <1>6, <1>7 DEF IndInv

LEMMA AddSessionStep ==
  ASSUME IndInv, NEW c \in Conn, AddSession(c)
  PROVE  IndInv'
<1> DEFINE d == agent[c].dom
<1> USE DEF AddSession
<1>1. d \in Domain
  BY DEF AgentPhases
<1>2. TypeOK'
  <2>1. sessions' \in ConnMap /\ bytesIn' \in ConnMap /\ bytesOut' \in ConnMap /\ meta' \in ConnMap
    BY <1>1, StoreIsConnMap DEF TypeOK
  <2>2. agent' \in [Conn -> AgentState]
    BY DEF TypeOK, AgentState
  <2>3. yamux' \in [Conn -> {"none", "open", "closed"}]
    BY DEF TypeOK
  <2> QED BY <2>1, <2>2, <2>3 DEF TypeOK
<1>3. SessionsAreRegistered'
  <2> SUFFICES ASSUME NEW x \in DOMAIN sessions'
               PROVE  agent'[sessions'[x]].dom = x /\ yamux'[sessions'[x]] # "none"
    BY DEF SessionsAreRegistered
  <2>1. CASE x = d
    BY <2>1 DEF Store, TypeOK
  <2>2. CASE x # d
    BY <2>2, ConnMapValues DEF Store, TypeOK, SessionsAreRegistered
  <2> QED BY <2>1, <2>2
<1>4. LiveAgentsAreReachable'
  <2> SUFFICES ASSUME NEW x \in Conn, yamux'[x] = "open"
               PROVE  agent'[x].dom \in DOMAIN sessions' /\ sessions'[agent'[x].dom] = x
    BY DEF LiveAgentsAreReachable
  <2>1. CASE x = c
    BY <2>1 DEF Store, TypeOK
  <2>2. CASE x # c
    BY <2>2, ConnMapValues DEF Store, Lookup, TypeOK, LiveAgentsAreReachable, SessionsAreRegistered
  <2> QED BY <2>1, <2>2
<1>5. CountersFollowSession'
  BY DEF CountersFollowSession, Lookup, TypeOK, WorkerState
<1>6. AgentPhases'
  BY ConnMapValues DEF AgentPhases, SessionsAreRegistered, Lookup, TypeOK, AgentState
<1>7. StreamsAreWhole'
  BY DEF StreamsAreWhole, TypeOK, StreamState
<1>8. WorkerIsWhole'
  BY DEF WorkerIsWhole, TypeOK, WorkerState
<1>9. BytesAreConserved'
  BY DEF BytesAreConserved, Outstanding
<1> QED BY <1>2, <1>3, <1>4, <1>5, <1>6, <1>7, <1>8, <1>9 DEF IndInv

LEMMA ReadQuotaStep ==
  ASSUME IndInv, NEW c \in Conn, ReadQuota(c)
  PROVE  IndInv'
<1> PICK pc \in {"slow", "done"} : agent' = [agent EXCEPT ![c].pc = pc]
  BY DEF ReadQuota
<1>1. agent[c].pc = "added" /\ UNCHANGED <<managerVars, yamux, cell, stream, worker, meterVars>>
  BY DEF ReadQuota
<1>2. TypeOK'
  <2>1. agent' \in [Conn -> AgentState]
    BY DEF TypeOK, AgentState
  <2> QED BY <1>1, <2>1 DEF TypeOK
<1>3. \A x \in Conn : agent'[x].dom = agent[x].dom
  BY DEF TypeOK, AgentState
<1>4. AgentPhases'
  BY <1>1, <1>3 DEF AgentPhases, TypeOK
<1>5. SessionsAreRegistered'
  BY <1>1, <1>3, ConnMapValues DEF SessionsAreRegistered, TypeOK
<1>6. StreamsAreWhole'
  BY <1>1, <1>3 DEF StreamsAreWhole, TypeOK, StreamState
<1>7. WorkerIsWhole'
  BY <1>1, <1>3 DEF WorkerIsWhole, TypeOK, WorkerState
<1>8. LiveAgentsAreReachable'
  BY <1>1, <1>3 DEF LiveAgentsAreReachable, TypeOK, AgentState
<1>9. (CountersFollowSession /\ BytesAreConserved)'
  BY <1>1 DEF CountersFollowSession, BytesAreConserved, Outstanding
<1> QED BY <1>2, <1>4, <1>5, <1>6, <1>7, <1>8, <1>9 DEF IndInv

LEMMA ThrottleOnConnectStep ==
  ASSUME IndInv, NEW c \in Conn, ThrottleOnConnect(c)
  PROVE  IndInv'
<1> USE DEF ThrottleOnConnect
<1>1. TypeOK'
  BY DEF TypeOK, AgentState, AgentPhases
<1>2. AgentPhases'
  BY DEF AgentPhases, TypeOK, AgentState
<1>3. SessionsAreRegistered'
  BY DEF SessionsAreRegistered, TypeOK, AgentState
<1>4. LiveAgentsAreReachable'
  BY DEF LiveAgentsAreReachable, TypeOK, AgentState
<1>5. StreamsAreWhole'
  BY DEF StreamsAreWhole, TypeOK, StreamState
<1>6. WorkerIsWhole'
  BY DEF WorkerIsWhole, TypeOK, WorkerState
<1>7. (CountersFollowSession /\ BytesAreConserved)'
  BY DEF CountersFollowSession, BytesAreConserved, Outstanding
<1> QED BY <1>1, <1>2, <1>3, <1>4, <1>5, <1>6, <1>7 DEF IndInv

LEMMA DisconnectStep ==
  ASSUME IndInv, NEW c \in Conn, Disconnect(c)
  PROVE  IndInv'
<1> USE DEF Disconnect
<1>1. TypeOK'
  BY DEF TypeOK
<1>2. AgentPhases'
  BY DEF AgentPhases, TypeOK, AgentState
<1>3. SessionsAreRegistered'
  BY DEF SessionsAreRegistered, TypeOK, AgentState
<1>4. LiveAgentsAreReachable'
  BY DEF LiveAgentsAreReachable, TypeOK, AgentState
<1>5. StreamsAreWhole'
  BY DEF StreamsAreWhole, TypeOK, StreamState
<1>6. WorkerIsWhole'
  BY DEF WorkerIsWhole, TypeOK, WorkerState
<1>7. (CountersFollowSession /\ BytesAreConserved)'
  BY DEF CountersFollowSession, BytesAreConserved, Outstanding
<1> QED BY <1>1, <1>2, <1>3, <1>4, <1>5, <1>6, <1>7 DEF IndInv

LEMMA GetStreamReadStep ==
  ASSUME IndInv, NEW s \in Stream, NEW d \in Domain, GetStreamRead(s, d)
  PROVE  IndInv'
<1> USE DEF GetStreamRead
<1>1. TypeOK'
  <2>1. /\ Lookup(sessions, d) \in Conn \cup {NoConn}
        /\ Lookup(bytesIn, d) \in Conn \cup {NoConn}
        /\ Lookup(bytesOut, d) \in Conn \cup {NoConn}
    BY LookupIsConn DEF TypeOK
  <2>2. stream' \in [Stream -> StreamState]
    BY <2>1 DEF TypeOK, StreamState, IdleStream
  <2> QED BY <2>2 DEF TypeOK
<1>2. StreamsAreWhole'
  BY ConnMapValues DEF StreamsAreWhole, CountersFollowSession, SessionsAreRegistered, Lookup, TypeOK, StreamState
<1>3. (CountersFollowSession /\ AgentPhases /\ SessionsAreRegistered /\ LiveAgentsAreReachable /\ WorkerIsWhole /\ BytesAreConserved)'
  BY DEF CountersFollowSession, AgentPhases, SessionsAreRegistered, LiveAgentsAreReachable, WorkerIsWhole, BytesAreConserved, Outstanding
<1> QED BY <1>1, <1>2, <1>3 DEF IndInv

LEMMA GetStreamOpenStep ==
  ASSUME IndInv, NEW s \in Stream, GetStreamOpen(s)
  PROVE  IndInv'
<1> USE DEF GetStreamOpen
<1>1. TypeOK'
  <2>1. [stream[s] EXCEPT !.pc = "open"] \in StreamState
    BY DEF TypeOK, StreamState
  <2> QED BY <2>1 DEF TypeOK
<1>2. StreamsAreWhole'
  BY DEF StreamsAreWhole, TypeOK, StreamState
<1>3. (CountersFollowSession /\ AgentPhases /\ SessionsAreRegistered /\ LiveAgentsAreReachable /\ WorkerIsWhole /\ BytesAreConserved)'
  BY DEF CountersFollowSession, AgentPhases, SessionsAreRegistered, LiveAgentsAreReachable, WorkerIsWhole, BytesAreConserved, Outstanding
<1> QED BY <1>1, <1>2, <1>3 DEF IndInv

LEMMA GetStreamFailStep ==
  ASSUME IndInv, NEW s \in Stream, GetStreamFail(s)
  PROVE  IndInv'
<1> USE DEF GetStreamFail
<1>1. TypeOK'
  BY DEF TypeOK, StreamState, IdleStream
<1>2. StreamsAreWhole'
  BY DEF StreamsAreWhole, IdleStream, TypeOK, StreamState
<1>3. (CountersFollowSession /\ AgentPhases /\ SessionsAreRegistered /\ LiveAgentsAreReachable /\ WorkerIsWhole /\ BytesAreConserved)'
  BY DEF CountersFollowSession, AgentPhases, SessionsAreRegistered, LiveAgentsAreReachable, WorkerIsWhole, BytesAreConserved, Outstanding
<1> QED BY <1>1, <1>2, <1>3 DEF IndInv

LEMMA TransferStep ==
  ASSUME IndInv, NEW s \in Stream, NEW dir \in Dir, Transfer(s, dir)
  PROVE  IndInv'
<1> USE DEF Transfer
<1>1. TypeOK'
  <2>2. stream' \in [Stream -> StreamState]
    <3>1. [stream[s].held EXCEPT ![dir] = 1] \in [Dir -> Nat]
      BY DEF TypeOK, StreamState
    <3> DEFINE h == [stream[s].held EXCEPT ![dir] = 1]
    <3>2. stream[s] \in StreamState /\ h \in [Dir -> Nat]
      BY <3>1 DEF TypeOK
    <3>3. stream' = [stream EXCEPT ![s] = [stream[s] EXCEPT !.held = h]]
      BY DEF TypeOK, StreamState
    <3> HIDE DEF h
    <3>4. [stream[s] EXCEPT !.held = h] \in StreamState
      BY <3>2 DEF StreamState
    <3> QED BY <3>3, <3>4 DEF TypeOK
  <2> QED BY <2>2 DEF TypeOK
<1>2. StreamsAreWhole'
  BY DEF StreamsAreWhole, TypeOK, StreamState
<1>3. (CountersFollowSession /\ AgentPhases /\ SessionsAreRegistered /\ LiveAgentsAreReachable /\ WorkerIsWhole /\ BytesAreConserved)'
  BY DEF CountersFollowSession, AgentPhases, SessionsAreRegistered, LiveAgentsAreReachable, WorkerIsWhole, BytesAreConserved, Outstanding
<1> QED BY <1>1, <1>2, <1>3 DEF IndInv

LEMMA CountBytesStep ==
  ASSUME IndInv, NEW s \in Stream, NEW dir \in Dir, CountBytes(s, dir)
  PROVE  IndInv'
<1> DEFINE a == <<dir, Pointer(stream[s], dir)>>
           n == stream[s].held[dir]
<1> USE DEF CountBytes
<1>1. a \in Account /\ n \in Nat /\ n > 0
  BY DEF TypeOK, StreamState, StreamsAreWhole, Pointer
<1>2. TypeOK'
  <2>1. cell' \in [Account -> Nat] /\ counted' \in [Account -> Nat]
    BY <1>1 DEF TypeOK
  <2>2. stream' \in [Stream -> StreamState]
    <3>1. [stream[s].held EXCEPT ![dir] = 0] \in [Dir -> Nat]
      BY DEF TypeOK, StreamState
    <3> DEFINE h == [stream[s].held EXCEPT ![dir] = 0]
    <3>2. stream[s] \in StreamState /\ h \in [Dir -> Nat]
      BY <3>1 DEF TypeOK
    <3>3. stream' = [stream EXCEPT ![s] = [stream[s] EXCEPT !.held = h]]
      BY DEF TypeOK, StreamState
    <3> HIDE DEF h
    <3>4. [stream[s] EXCEPT !.held = h] \in StreamState
      BY <3>2 DEF StreamState
    <3> QED BY <3>3, <3>4 DEF TypeOK
  <2> QED BY <2>1, <2>2 DEF TypeOK
<1>3. BytesAreConserved'
  <2>1. \A b \in Account : cell[b] \in Nat /\ counted[b] \in Nat /\ billed[b] \in Nat
    BY DEF TypeOK
  <2>2. \A b \in Account : b # a => cell'[b] = cell[b] /\ counted'[b] = counted[b]
    BY <1>1 DEF TypeOK
  <2>3. cell'[a] = cell[a] + n /\ counted'[a] = counted[a] + n
    BY <1>1 DEF TypeOK
  <2>4. \A b \in Account : Outstanding(b) \in Nat /\ Outstanding(b)' = Outstanding(b)
    BY DEF Outstanding, TypeOK, WorkerState
  <2>5. \A b \in Account : billed'[b] + cell'[b] + Outstanding(b)' <= counted'[b]
    BY <1>1, <2>1, <2>2, <2>3, <2>4 DEF BytesAreConserved
  <2>6. \A b \in Account : cell[b] <= cell'[b]
    BY <1>1, <2>1, <2>2, <2>3
  <2>7. worker.ptr # NoConn => \A x \in Dir : <<x, worker.ptr>> \in Account
    BY DEF TypeOK, WorkerState
  <2>8. \A x \in Dir : worker.taken[x] \in Nat
    BY DEF TypeOK, WorkerState
  <2>9. worker.pc \in {"loadOut", "storeIn"} => worker.taken["in"] <= cell'[<<"in", worker.ptr>>]
    BY <1>2, <2>1, <2>6, <2>7, <2>8 DEF BytesAreConserved, CountersFollowSession, TypeOK
  <2>10. worker.pc \in {"storeIn", "storeOut"} => worker.taken["out"] <= cell'[<<"out", worker.ptr>>]
    BY <1>2, <2>1, <2>6, <2>7, <2>8 DEF BytesAreConserved, CountersFollowSession, TypeOK
  <2> QED BY <2>5, <2>9, <2>10 DEF BytesAreConserved
<1>4. StreamsAreWhole'
  BY DEF StreamsAreWhole, TypeOK, StreamState
<1>5. (CountersFollowSession /\ AgentPhases /\ SessionsAreRegistered /\ LiveAgentsAreReachable /\ WorkerIsWhole)'
  BY DEF CountersFollowSession, AgentPhases, SessionsAreRegistered, LiveAgentsAreReachable, WorkerIsWhole
<1> QED BY <1>2, <1>3, <1>4, <1>5 DEF IndInv

LEMMA CloseStreamStep ==
  ASSUME IndInv, NEW s \in Stream, CloseStream(s)
  PROVE  IndInv'
<1> USE DEF CloseStream
<1>1. TypeOK'
  BY DEF TypeOK, StreamState, IdleStream
<1>2. StreamsAreWhole'
  BY DEF StreamsAreWhole, IdleStream, TypeOK, StreamState
<1>3. (CountersFollowSession /\ AgentPhases /\ SessionsAreRegistered /\ LiveAgentsAreReachable /\ WorkerIsWhole /\ BytesAreConserved)'
  BY DEF CountersFollowSession, AgentPhases, SessionsAreRegistered, LiveAgentsAreReachable, WorkerIsWhole, BytesAreConserved, Outstanding
<1> QED BY <1>1, <1>2, <1>3 DEF IndInv

LEMMA ScavengeStep ==
  ASSUME IndInv, Scavenge
  PROVE  IndInv'
<1> USE DEF Scavenge
<1>1. TypeOK'
  BY RestrictIsConnMap DEF TypeOK
<1>2. DOMAIN sessions' = DOMAIN sessions \ Ghosts /\ \A d \in DOMAIN sessions' : sessions'[d] = sessions[d]
  BY DEF Restrict
<1>3. SessionsAreRegistered'
  BY <1>2 DEF SessionsAreRegistered
<1>4. LiveAgentsAreReachable'
  BY <1>2 DEF LiveAgentsAreReachable, Ghosts
<1>5. CountersFollowSession'
  BY DEF CountersFollowSession, Lookup, TypeOK, WorkerState
<1>6. (AgentPhases /\ StreamsAreWhole /\ WorkerIsWhole /\ BytesAreConserved)'
  BY DEF AgentPhases, StreamsAreWhole, WorkerIsWhole, BytesAreConserved, Outstanding
<1> QED BY <1>1, <1>3, <1>4, <1>5, <1>6 DEF IndInv

LEMMA TickStep ==
  ASSUME IndInv, Tick
  PROVE  IndInv'
<1> USE DEF Tick
<1>1. TypeOK'
  <2>1. DOMAIN sessions \in SUBSET Domain
    BY ConnMapValues DEF TypeOK
  <2>2. worker' \in WorkerState
    BY <2>1 DEF TypeOK, WorkerState, IdleWorker
  <2> QED BY <2>2 DEF TypeOK
<1>2. CountersFollowSession'
  BY DEF CountersFollowSession, Lookup, TypeOK, WorkerState
<1>3. WorkerIsWhole'
  BY DEF WorkerIsWhole, TypeOK, WorkerState
<1>4. BytesAreConserved'
  BY DEF BytesAreConserved, Outstanding, TypeOK, WorkerState
<1>5. (AgentPhases /\ SessionsAreRegistered /\ LiveAgentsAreReachable /\ StreamsAreWhole)'
  BY DEF AgentPhases, SessionsAreRegistered, LiveAgentsAreReachable, StreamsAreWhole
<1> QED BY <1>1, <1>2, <1>3, <1>4, <1>5 DEF IndInv

LEMMA RoundDoneStep ==
  ASSUME IndInv, RoundDone
  PROVE  IndInv'
<1> USE DEF RoundDone
<1>1. TypeOK'
  BY DEF TypeOK, WorkerState, IdleWorker, NextDomain
<1>2. CountersFollowSession'
  BY DEF CountersFollowSession, NextDomain, IdleWorker, TypeOK, WorkerState
<1>3. WorkerIsWhole'
  BY DEF WorkerIsWhole, NextDomain, IdleWorker, TypeOK, WorkerState
<1>4. BytesAreConserved'
  BY DEF BytesAreConserved, Outstanding, NextDomain, IdleWorker, TypeOK, WorkerState
<1>5. (AgentPhases /\ SessionsAreRegistered /\ LiveAgentsAreReachable /\ StreamsAreWhole)'
  BY DEF AgentPhases, SessionsAreRegistered, LiveAgentsAreReachable, StreamsAreWhole
<1> QED BY <1>1, <1>2, <1>3, <1>4, <1>5 DEF IndInv

LEMMA StatsLoadInStep ==
  ASSUME IndInv, NEW d \in Domain, StatsLoadIn(d)
  PROVE  IndInv'
<1> USE DEF StatsLoadIn
<1>1. bytesIn[d] \in Conn /\ cell[<<"in", bytesIn[d]>>] \in Nat /\ d \in DOMAIN bytesIn
  BY ConnMapValues DEF TypeOK
<1>2. /\ worker'.pc = "loadOut" /\ worker'.dom = d /\ worker'.ptr = bytesIn[d]
      /\ worker'.taken["in"] = cell[<<"in", bytesIn[d]>>]
      /\ worker' \in WorkerState
  BY <1>1 DEF TypeOK, WorkerState
<1>3. TypeOK'
  BY <1>2 DEF TypeOK
<1>4. CountersFollowSession'
  BY <1>1, <1>2 DEF CountersFollowSession, Lookup, TypeOK
<1>5. BytesAreConserved'
  <2>1. \A a \in Account : Outstanding(a) = 0 /\ Outstanding(a)' = 0
    BY <1>2 DEF Outstanding
  <2>2. cell[<<"in", bytesIn[d]>>] <= cell[<<"in", bytesIn[d]>>]
    BY <1>1
  <2> QED BY <1>1, <1>2, <2>1, <2>2 DEF BytesAreConserved, TypeOK
<1>6. WorkerIsWhole'
  BY <1>1, <1>2 DEF WorkerIsWhole, CountersFollowSession, SessionsAreRegistered, TypeOK
<1>7. (AgentPhases /\ SessionsAreRegistered /\ LiveAgentsAreReachable /\ StreamsAreWhole)'
  BY DEF AgentPhases, SessionsAreRegistered, LiveAgentsAreReachable, StreamsAreWhole
<1> QED BY <1>3, <1>4, <1>5, <1>6, <1>7 DEF IndInv

LEMMA StatsMissingStep ==
  ASSUME IndInv, NEW d \in Domain, StatsMissing(d)
  PROVE  IndInv'
<1> USE DEF StatsMissing
<1>1. TypeOK'
  BY DEF TypeOK, WorkerState, IdleWorker, NextDomain
<1>2. CountersFollowSession'
  BY DEF CountersFollowSession, Lookup, TypeOK, WorkerState
<1>3. WorkerIsWhole'
  BY DEF WorkerIsWhole, TypeOK, WorkerState
<1>4. BytesAreConserved'
  BY DEF BytesAreConserved, Outstanding, TypeOK, WorkerState
<1>5. (AgentPhases /\ SessionsAreRegistered /\ LiveAgentsAreReachable /\ StreamsAreWhole)'
  BY DEF AgentPhases, SessionsAreRegistered, LiveAgentsAreReachable, StreamsAreWhole
<1> QED BY <1>1, <1>2, <1>3, <1>4, <1>5 DEF IndInv

LEMMA StatsLoadOutStep ==
  ASSUME IndInv, StatsLoadOut
  PROVE  IndInv'
<1> USE DEF StatsLoadOut
<1>1. /\ worker.ptr \in Conn /\ bytesOut[worker.dom] = worker.ptr
      /\ cell[<<"out", worker.ptr>>] \in Nat
  BY LookupIsConn DEF TypeOK, WorkerState, CountersFollowSession
<1>2. /\ worker'.pc = "storeIn" /\ worker'.ptr = worker.ptr /\ worker'.dom = worker.dom
      /\ worker'.taken["in"] = worker.taken["in"]
      /\ worker'.taken["out"] = cell[<<"out", worker.ptr>>]
  BY <1>1 DEF TypeOK, WorkerState
<1>3. BytesAreConserved'
  <2>1. \A a \in Account : Outstanding(a) = 0 /\ Outstanding(a)' = 0
    BY <1>2 DEF Outstanding
  <2>2. cell[<<"out", worker.ptr>>] <= cell[<<"out", worker.ptr>>]
    BY <1>1
  <2> QED BY <1>1, <1>2, <2>1, <2>2 DEF BytesAreConserved, TypeOK
<1>4. TypeOK'
  BY <1>1 DEF TypeOK, WorkerState, IdleWorker, NextDomain
<1>5. CountersFollowSession'
  BY DEF CountersFollowSession, Lookup, TypeOK, WorkerState
<1>6. WorkerIsWhole'
  BY DEF WorkerIsWhole, TypeOK, WorkerState
<1>7. (AgentPhases /\ SessionsAreRegistered /\ LiveAgentsAreReachable /\ StreamsAreWhole)'
  BY DEF AgentPhases, SessionsAreRegistered, LiveAgentsAreReachable, StreamsAreWhole
<1> QED BY <1>3, <1>4, <1>5, <1>6, <1>7 DEF IndInv

LEMMA StatsStoreInStep ==
  ASSUME IndInv, StatsStoreIn
  PROVE  IndInv'
<1> USE DEF StatsStoreIn
<1>1. worker.ptr \in Conn /\ worker.taken["in"] \in Nat /\ worker.taken["out"] \in Nat
  BY DEF TypeOK, WorkerState, CountersFollowSession
<1>2. /\ worker'.pc = "storeOut" /\ worker'.ptr = worker.ptr /\ worker'.dom = worker.dom
       /\ worker'.taken = worker.taken
  BY DEF TypeOK, WorkerState
<1>3. BytesAreConserved'
  <2> DEFINE a == <<"in", worker.ptr>>
  <2>1. \A b \in Account : cell[b] \in Nat /\ counted[b] \in Nat /\ billed[b] \in Nat
    BY DEF TypeOK
  <2>2. a \in Account /\ cell'[a] = 0
    BY <1>1 DEF TypeOK
  <2>3. \A b \in Account : b # a => cell'[b] = cell[b]
    BY <1>1 DEF TypeOK
  <2>4. \A b \in Account : Outstanding(b) = 0
    BY DEF Outstanding
  <2>5. \A b \in Account : b # a => Outstanding(b)' = 0
    BY <1>2 DEF Outstanding
  <2>6. Outstanding(a)' = worker.taken["in"]
    BY <1>2 DEF Outstanding
  <2>7. worker.taken["in"] <= cell[a]
    BY DEF BytesAreConserved
  <2>8. billed[a] + cell'[a] + Outstanding(a)' <= counted[a]
    BY <1>1, <2>1, <2>2, <2>4, <2>6, <2>7 DEF BytesAreConserved
  <2>9. \A b \in Account : billed[b] + cell'[b] + Outstanding(b)' <= counted[b]
    BY <2>3, <2>4, <2>5, <2>8 DEF BytesAreConserved
  <2>10. <<"out", worker.ptr>> \in Account /\ <<"out", worker.ptr>> # a
    BY <1>1
  <2>11. worker.taken["out"] <= cell'[<<"out", worker.ptr>>]
    BY <2>3, <2>10 DEF BytesAreConserved
  <2> QED BY <1>2, <2>9, <2>11 DEF BytesAreConserved
<1>4. TypeOK'
  BY DEF TypeOK, WorkerState, IdleWorker, NextDomain
<1>5. CountersFollowSession'
  BY DEF CountersFollowSession, Lookup, TypeOK, WorkerState
<1>6. WorkerIsWhole'
  BY DEF WorkerIsWhole, TypeOK, WorkerState
<1>7. (AgentPhases /\ SessionsAreRegistered /\ LiveAgentsAreReachable /\ StreamsAreWhole)'
  BY DEF AgentPhases, SessionsAreRegistered, LiveAgentsAreReachable, StreamsAreWhole
<1> QED BY <1>3, <1>4, <1>5, <1>6, <1>7 DEF IndInv

LEMMA StatsStoreOutStep ==
  ASSUME IndInv, StatsStoreOut
  PROVE  IndInv'
<1> USE DEF StatsStoreOut
<1>1. /\ worker.ptr \in Conn /\ worker.taken["in"] \in Nat /\ worker.taken["out"] \in Nat
      /\ bytesOut[worker.dom] = worker.ptr
  BY LookupIsConn DEF TypeOK, WorkerState, CountersFollowSession
<1>2. /\ worker'.pc = "session" /\ worker'.ptr = worker.ptr /\ worker'.dom = worker.dom
       /\ worker'.taken = worker.taken
  BY DEF TypeOK, WorkerState
<1>3. BytesAreConserved'
  <2> DEFINE a == <<"out", worker.ptr>>
  <2>1. \A b \in Account : cell[b] \in Nat /\ counted[b] \in Nat /\ billed[b] \in Nat
    BY DEF TypeOK
  <2>2. a \in Account /\ cell'[a] = 0
    BY <1>1 DEF TypeOK
  <2>3. \A b \in Account : b # a => cell'[b] = cell[b]
    BY <1>1 DEF TypeOK
  <2>4. Outstanding(a) = 0 /\ Outstanding(a)' = worker.taken["out"]
    BY <1>2 DEF Outstanding
  <2>5. \A b \in Account : b # a => Outstanding(b)' = Outstanding(b)
    BY <1>2 DEF Outstanding
  <2>7. worker.taken["out"] <= cell[a]
    BY DEF BytesAreConserved
  <2>8. billed[a] + cell'[a] + Outstanding(a)' <= counted[a]
    BY <1>1, <2>1, <2>2, <2>4, <2>7 DEF BytesAreConserved
  <2>9. \A b \in Account : billed[b] + cell'[b] + Outstanding(b)' <= counted[b]
    BY <2>3, <2>5, <2>8 DEF BytesAreConserved
  <2> QED BY <1>2, <2>9 DEF BytesAreConserved
<1>4. TypeOK'
  BY DEF TypeOK, WorkerState, IdleWorker, NextDomain
<1>5. CountersFollowSession'
  BY DEF CountersFollowSession, Lookup, TypeOK, WorkerState
<1>6. WorkerIsWhole'
  BY DEF WorkerIsWhole, CountersFollowSession, TypeOK, WorkerState
<1>7. (AgentPhases /\ SessionsAreRegistered /\ LiveAgentsAreReachable /\ StreamsAreWhole)'
  BY DEF AgentPhases, SessionsAreRegistered, LiveAgentsAreReachable, StreamsAreWhole
<1> QED BY <1>3, <1>4, <1>5, <1>6, <1>7 DEF IndInv

LEMMA UpdateSessionStatsIncrementStep ==
  ASSUME IndInv, UpdateSessionStatsIncrement
  PROVE  IndInv'
<1> USE DEF UpdateSessionStatsIncrement
<1>1. TypeOK'
  BY DEF TypeOK, WorkerState, IdleWorker, NextDomain
<1>2. CountersFollowSession'
  BY DEF CountersFollowSession, NextDomain, IdleWorker, TypeOK, WorkerState
<1>3. WorkerIsWhole'
  BY DEF WorkerIsWhole, NextDomain, IdleWorker, TypeOK, WorkerState, TotalTaken
<1>4. BytesAreConserved'
  BY DEF BytesAreConserved, Outstanding, NextDomain, IdleWorker, TypeOK, WorkerState
<1>5. (AgentPhases /\ SessionsAreRegistered /\ LiveAgentsAreReachable /\ StreamsAreWhole)'
  BY DEF AgentPhases, SessionsAreRegistered, LiveAgentsAreReachable, StreamsAreWhole
<1> QED BY <1>1, <1>2, <1>3, <1>4, <1>5 DEF IndInv

LEMMA UpdateBandwidthUsageStep ==
  ASSUME IndInv, UpdateBandwidthUsage
  PROVE  IndInv'
<1>1. worker.taken \in [Dir -> Nat] /\ billed \in [Account -> Nat] /\ worker.pc = "quota"
  BY DEF TypeOK, WorkerState, UpdateBandwidthUsage
<1>2. /\ worker' \in WorkerState
      /\ \/ worker'.pc = "next"
         \/ worker'.pc = "throttle" /\ worker'.dom = worker.dom /\ worker'.ptr = worker.ptr
      /\ UNCHANGED <<managerVars, yamux, cell, agent, stream, counted>>
  <2>1. CASE worker' = NextDomain
    BY <2>1 DEF UpdateBandwidthUsage, TypeOK, WorkerState, NextDomain, IdleWorker
  <2>2. CASE \E slow \in BOOLEAN : worker' = [worker EXCEPT !.pc = "throttle", !.slow = slow]
    <3> PICK slow \in BOOLEAN : worker' = [worker EXCEPT !.pc = "throttle", !.slow = slow]
      BY <2>2
    <3> QED BY DEF UpdateBandwidthUsage, TypeOK, WorkerState
  <2> QED BY <2>1, <2>2 DEF UpdateBandwidthUsage
<1>3. \A a \in Account : billed'[a] <= billed[a] + Outstanding(a)
  <2>1. CASE UNCHANGED billed
    BY <2>1, <1>1 DEF Outstanding
  <2>2. CASE billed' = [a \in Account |-> IF a[2] = worker.ptr
                                         THEN billed[a] + worker.taken[a[1]]
                                         ELSE billed[a]]
    BY <2>2, <1>1 DEF Outstanding
  <2> QED BY <2>1, <2>2 DEF UpdateBandwidthUsage
<1>4. billed' \in [Account -> Nat]
  <2>1. \A a \in Account : a[1] \in Dir /\ worker.taken[a[1]] \in Nat
    BY <1>1
  <2>2. CASE UNCHANGED billed
    BY <2>2, <1>1
  <2>3. CASE billed' = [a \in Account |-> IF a[2] = worker.ptr
                                         THEN billed[a] + worker.taken[a[1]]
                                         ELSE billed[a]]
    <3>1. \A a \in Account : billed[a] + worker.taken[a[1]] \in Nat /\ billed[a] \in Nat
      BY <1>1, <2>1
    <3> QED BY <2>3, <3>1, Zenon
  <2> QED BY <2>2, <2>3 DEF UpdateBandwidthUsage
<1>5. TypeOK'
  BY <1>2, <1>4 DEF TypeOK
<1>6. CountersFollowSession'
  BY <1>2 DEF CountersFollowSession
<1>7. WorkerIsWhole'
  BY <1>1, <1>2 DEF WorkerIsWhole
<1>8. BytesAreConserved'
  <2>1. \A a \in Account : Outstanding(a)' = 0
    BY <1>2 DEF Outstanding
  <2>2. \A a \in Account : /\ cell[a] \in Nat /\ counted[a] \in Nat /\ billed[a] \in Nat
                           /\ Outstanding(a) \in Nat
    BY <1>1 DEF TypeOK, Outstanding
  <2>3. \A a \in Account : billed'[a] + cell'[a] + Outstanding(a)' <= counted'[a]
    BY <1>2, <1>3, <1>4, <2>1, <2>2 DEF BytesAreConserved
  <2> QED BY <1>2, <2>3 DEF BytesAreConserved
<1>9. (AgentPhases /\ SessionsAreRegistered /\ LiveAgentsAreReachable /\ StreamsAreWhole)'
  BY <1>2 DEF AgentPhases, SessionsAreRegistered, LiveAgentsAreReachable, StreamsAreWhole
<1> QED BY <1>5, <1>6, <1>7, <1>8, <1>9 DEF IndInv

LEMMA SetThrottleStep ==
  ASSUME IndInv, SetThrottle
  PROVE  IndInv'
<1> USE DEF SetThrottle
<1>1. TypeOK'
  <2>1. worker' \in WorkerState
    BY DEF TypeOK, WorkerState, NextDomain, IdleWorker
  <2>2. throttles' \in SUBSET Domain
    BY DEF TypeOK, WorkerIsWhole
  <2> QED BY <2>1, <2>2 DEF TypeOK
<1>2. CountersFollowSession'
  BY DEF CountersFollowSession, NextDomain, IdleWorker, TypeOK, WorkerState
<1>3. WorkerIsWhole'
  BY DEF WorkerIsWhole, NextDomain, IdleWorker, TypeOK, WorkerState
<1>4. BytesAreConserved'
  BY DEF BytesAreConserved, Outstanding, NextDomain, IdleWorker, TypeOK, WorkerState
<1>5. (AgentPhases /\ SessionsAreRegistered /\ LiveAgentsAreReachable /\ StreamsAreWhole)'
  BY DEF AgentPhases, SessionsAreRegistered, LiveAgentsAreReachable, StreamsAreWhole
<1> QED BY <1>1, <1>2, <1>3, <1>4, <1>5 DEF IndInv

-----------------------------------------------------------------------------
(* Theorems                                                                 *)

LEMMA InitIndInv == Init => IndInv
<1> SUFFICES ASSUME Init PROVE IndInv
  OBVIOUS
<1> USE DEF Init
<1>1. TypeOK
  <2>1. EmptyMap \in ConnMap
    BY DEF EmptyMap, ConnMap
  <2>2. worker \in WorkerState
    BY DEF WorkerState, IdleWorker
  <2>3. stream \in [Stream -> StreamState]
    BY DEF StreamState, IdleStream
  <2>4. agent \in [Conn -> AgentState]
    BY DEF AgentState, IdleAgent
  <2> QED BY <2>1, <2>2, <2>3, <2>4 DEF TypeOK
<1>2. CountersFollowSession
  BY DEF CountersFollowSession, IdleWorker
<1>3. AgentPhases
  BY DEF AgentPhases, IdleAgent
<1>4. SessionsAreRegistered
  BY DEF SessionsAreRegistered, EmptyMap
<1>5. LiveAgentsAreReachable
  BY DEF LiveAgentsAreReachable
<1>6. StreamsAreWhole
  BY DEF StreamsAreWhole, IdleStream
<1>7. WorkerIsWhole
  BY DEF WorkerIsWhole, IdleWorker
<1>8. BytesAreConserved
  BY DEF BytesAreConserved, Outstanding, IdleWorker
<1> QED BY <1>1, <1>2, <1>3, <1>4, <1>5, <1>6, <1>7, <1>8

LEMMA NextIndInv == IndInv /\ [Next]_vars => IndInv'
<1> SUFFICES ASSUME IndInv, [Next]_vars PROVE IndInv'
  OBVIOUS
<1>1. ASSUME NEW c \in Conn, Handler(c) PROVE IndInv'
  BY <1>1, LogSessionStep, AddSessionStep, ReadQuotaStep, ThrottleOnConnectStep, DisconnectStep
     DEF Handler
<1>2. ASSUME NEW s \in Stream, Gateway(s) PROVE IndInv'
  BY <1>2, GetStreamReadStep, GetStreamOpenStep, GetStreamFailStep, TransferStep,
     CountBytesStep, CloseStreamStep DEF Gateway
<1>3. CASE Scavenge
  BY <1>3, ScavengeStep
<1>4. CASE Worker
  BY <1>4, TickStep, RoundDoneStep, StatsLoadInStep, StatsMissingStep, StatsLoadOutStep,
     StatsStoreInStep, StatsStoreOutStep, UpdateSessionStatsIncrementStep,
     UpdateBandwidthUsageStep, SetThrottleStep DEF Worker
<1>5. CASE UNCHANGED vars
  BY <1>5 DEF TypeOK, CountersFollowSession, AgentPhases, SessionsAreRegistered,
     LiveAgentsAreReachable, StreamsAreWhole, WorkerIsWhole, BytesAreConserved, Outstanding
<1> QED BY <1>1, <1>2, <1>3, <1>4, <1>5 DEF Next

(* The inductive invariant holds in every reachable state.                  *)
THEOREM Inductive == Spec => []IndInv
BY InitIndInv, NextIndInv, PTL DEF Spec

(* Every map, record and counter of the manager keeps its shape.            *)
THEOREM TypeCorrect == Spec => []TypeOK
<1>1. IndInv => TypeOK
  BY DEF IndInv
<1> QED BY <1>1, Inductive, PTL

(* GetStats, GetSnapshot and GetStream never meet a missing counter or one  *)
(* of another session.                                                      *)
THEOREM CountersAlwaysFollowSession == Spec => []CountersFollowSession
<1>1. IndInv => CountersFollowSession
  BY DEF IndInv
<1> QED BY <1>1, Inductive, PTL

(* A registered agent that is still connected is the one its domain leads   *)
(* to, whatever AddSession and scavenge did.                                *)
THEOREM LiveAgentsStayReachable == Spec => []LiveAgentsAreReachable
<1>1. IndInv => LiveAgentsAreReachable
  BY DEF IndInv
<1> QED BY <1>1, Inductive, PTL

(* CountingConn and GetStats attribute bytes to the domain whose agent      *)
(* carried them.                                                            *)
THEOREM Attribution == Spec => []BytesGoToTheirOwner
<1>1. IndInv => BytesGoToTheirOwner
  <2> SUFFICES ASSUME IndInv PROVE BytesGoToTheirOwner
    OBVIOUS
  <2>1. \A s \in Stream : stream[s].pc = "open" =>
          /\ stream[s].bIn = stream[s].conn /\ stream[s].bOut = stream[s].conn
          /\ agent[stream[s].conn].dom = stream[s].dom
    BY DEF StreamsAreWhole
  <2>2. worker.pc \in {"session", "quota"} /\ TotalTaken > 0 =>
          worker.ptr # NoConn /\ agent[worker.ptr].dom = worker.dom
    BY DEF WorkerIsWhole, TotalTaken
  <2> QED BY <2>1, <2>2 DEF BytesGoToTheirOwner
<1> QED BY <1>1, Inductive, PTL

LEMMA BilledBound ==
  ASSUME IndInv
  PROVE  NoOverBilling
<1>1. \A a \in Account : billed[a] \in Nat /\ cell[a] \in Nat /\ counted[a] \in Nat
  BY DEF TypeOK
<1>2. \A a \in Account : Outstanding(a) \in Nat
  BY DEF TypeOK, WorkerState, Outstanding
<1> QED BY <1>1, <1>2 DEF NoOverBilling, BytesAreConserved

(* No byte is charged twice, or before it was counted, although GetStats    *)
(* reads and resets the counters in separate steps.                         *)
THEOREM NeverOverBills == Spec => []NoOverBilling
BY Inductive, BilledBound, PTL

(* What GetStream captured before the unlock is still current when the      *)
(* stream opens: a session that was replaced meanwhile is closed.           *)
THEOREM StreamsOpenOnCurrentSession == Spec => OpensOnCurrentSession
<1>1. IndInv /\ [Next]_vars =>
        [\A s \in Stream :
           stream[s].pc = "asked" /\ stream'[s].pc = "open" =>
             /\ stream[s].dom \in DOMAIN sessions
             /\ sessions[stream[s].dom] = stream[s].conn]_vars
  <2> SUFFICES ASSUME IndInv, Next, NEW s \in Stream,
                      stream[s].pc = "asked", stream'[s].pc = "open"
               PROVE  /\ stream[s].dom \in DOMAIN sessions
                      /\ sessions[stream[s].dom] = stream[s].conn
    OBVIOUS
  <2>1. PICK t \in Stream : Gateway(t)
    <3>1. ASSUME NEW c \in Conn, Handler(c) PROVE FALSE
      BY <3>1 DEF Handler, LogSession, AddSession, ReadQuota, ThrottleOnConnect, Disconnect
    <3>2. ~Scavenge
      BY DEF Scavenge
    <3>3. ~Worker
      BY DEF Worker, Tick, RoundDone, StatsLoadIn, StatsMissing, StatsLoadOut, StatsStoreIn,
         StatsStoreOut, UpdateSessionStatsIncrement, UpdateBandwidthUsage, SetThrottle
    <3> QED BY <3>1, <3>2, <3>3 DEF Next
  <2>2. GetStreamOpen(s)
    <3>1. ~\E d \in Domain : GetStreamRead(t, d)
      BY DEF GetStreamRead, TypeOK
    <3>2. ~GetStreamFail(t)
      BY DEF GetStreamFail, IdleStream, TypeOK
    <3>3. ~CloseStream(t)
      BY DEF CloseStream, IdleStream, TypeOK
    <3>4. ~\E dir \in Dir : Transfer(t, dir)
      BY DEF Transfer, TypeOK, StreamState
    <3>5. ~\E dir \in Dir : CountBytes(t, dir)
      <4> SUFFICES ASSUME NEW dir \in Dir, CountBytes(t, dir) PROVE FALSE
        OBVIOUS
      <4>1. stream' = [stream EXCEPT ![t].held[dir] = 0]
        BY DEF CountBytes
      <4> QED BY <4>1 DEF TypeOK, StreamState
    <3>6. GetStreamOpen(t)
      BY <2>1, <3>1, <3>2, <3>3, <3>4, <3>5 DEF Gateway
    <3> QED BY <3>6 DEF GetStreamOpen, TypeOK
  <2>3. stream[s].conn \in Conn /\ yamux[stream[s].conn] = "open"
    BY <2>2 DEF GetStreamOpen, TypeOK, StreamState
  <2> QED BY <2>2, <2>3 DEF LiveAgentsAreReachable, StreamsAreWhole, GetStreamOpen
<1> QED BY <1>1, Inductive, PTL DEF Spec, OpensOnCurrentSession

(* The manager, the gateway and the worker together implement UsageMeter:   *)
(* bytes are charged at most once, never before they were carried, and a    *)
(* charge is never taken back.                                              *)
THEOREM ImplementsMeter == Spec => BillsLikeAMeter
<1>1. Init => Meter!Init
  BY DEF Init, Meter!Init
<1>2. IndInv /\ IndInv' /\ [Next]_vars => [Meter!Next]_(Meter!meterVars)
  <2> SUFFICES ASSUME IndInv, IndInv', [Next]_vars
               PROVE  Meter!Next \/ UNCHANGED <<counted, billed>>
    BY DEF Meter!meterVars
  <2>1. CASE UNCHANGED <<counted, billed>>
    BY <2>1
  <2>2. ASSUME NEW s \in Stream, NEW dir \in Dir, CountBytes(s, dir)
        PROVE  Meter!Carry
    <3>1. <<dir, Pointer(stream[s], dir)>> \in Account /\ stream[s].held[dir] \in Nat
      BY <2>2 DEF CountBytes, TypeOK, StreamState, StreamsAreWhole, Pointer
    <3>2. \A a \in Account : counted[a] <= counted'[a]
      <4> DEFINE x == <<dir, Pointer(stream[s], dir)>>
                 n == stream[s].held[dir]
      <4>1. counted \in [Account -> Nat] /\ counted' = [counted EXCEPT ![x] = @ + n]
        BY <2>2 DEF CountBytes, TypeOK
      <4>2. x \in Account /\ n \in Nat
        BY <3>1
      <4> HIDE DEF x, n
      <4> QED BY <4>1, <4>2
    <3> QED BY <2>2, <3>2 DEF Meter!Carry, CountBytes, TypeOK
  <2>3. ASSUME UpdateBandwidthUsage
        PROVE  Meter!Charge
    <3>1. worker.taken \in [Dir -> Nat] /\ billed \in [Account -> Nat]
      BY DEF TypeOK, WorkerState
    <3>2. \A a \in Account : billed[a] <= billed'[a]
      <4>1. \A a \in Account : a[1] \in Dir /\ worker.taken[a[1]] \in Nat /\ billed[a] \in Nat
        BY <3>1
      <4>2. CASE UNCHANGED billed
        BY <4>1, <4>2
      <4>3. CASE billed' = [a \in Account |-> IF a[2] = worker.ptr
                                             THEN billed[a] + worker.taken[a[1]]
                                             ELSE billed[a]]
        <5>1. \A a \in Account : /\ billed[a] <= billed[a] + worker.taken[a[1]]
                                 /\ billed[a] <= billed[a]
          BY <4>1
        <5>2. \A a \in Account : billed'[a] \in {billed[a], billed[a] + worker.taken[a[1]]}
          BY <4>3, Zenon
        <5> QED BY <5>1, <5>2
      <4> QED BY <2>3, <4>2, <4>3 DEF UpdateBandwidthUsage
    <3>3. \A a \in Account : billed'[a] <= counted[a]
      <4>1. NoOverBilling'
        <5>1. \A a \in Account : billed'[a] \in Nat /\ cell'[a] \in Nat /\ counted'[a] \in Nat
          BY DEF TypeOK
        <5>2. \A a \in Account : Outstanding(a)' \in Nat
          BY DEF TypeOK, WorkerState, Outstanding
        <5> QED BY <5>1, <5>2 DEF NoOverBilling, BytesAreConserved
      <4> QED BY <2>3, <4>1 DEF NoOverBilling, UpdateBandwidthUsage
    <3> QED BY <2>3, <3>2, <3>3 DEF Meter!Charge, UpdateBandwidthUsage, TypeOK
  <2>4. CASE Next
    <3>1. ASSUME NEW c \in Conn, Handler(c) PROVE UNCHANGED <<counted, billed>>
      BY <3>1 DEF Handler, LogSession, AddSession, ReadQuota, ThrottleOnConnect, Disconnect
    <3>2. ASSUME NEW s \in Stream, Gateway(s)
          PROVE  UNCHANGED <<counted, billed>> \/ \E dir \in Dir : CountBytes(s, dir)
      BY <3>2 DEF Gateway, GetStreamRead, GetStreamOpen, GetStreamFail, CloseStream, Transfer
    <3>3. CASE Scavenge
      BY <3>3, <2>1 DEF Scavenge
    <3>4. ASSUME Worker PROVE UNCHANGED <<counted, billed>> \/ UpdateBandwidthUsage
      BY <3>4 DEF Worker, Tick, RoundDone, StatsLoadIn, StatsMissing, StatsLoadOut,
         StatsStoreIn, StatsStoreOut, UpdateSessionStatsIncrement, SetThrottle
    <3> QED BY <2>1, <2>2, <2>3, <2>4, <3>1, <3>2, <3>3, <3>4 DEF Next, Meter!Next
  <2> QED BY <2>1, <2>4
<1> QED BY <1>1, <1>2, Inductive, PTL DEF Spec, BillsLikeAMeter, Meter!Spec

-----------------------------------------------------------------------------
(* Where a counted byte can be lost                                         *)

Registered(c) == \E d \in DOMAIN sessions : sessions[d] = c

\* The bytes the worker will find in counter a: it only looks at the counters
\* of registered sessions.
Due(a) == IF Registered(a[2]) THEN cell[a] ELSE 0

\* The bytes counted in a that are on the bill or on their way to it.
Kept(a) == billed[a] + Due(a) + Outstanding(a)

\* The step takes n counted bytes of a out of the worker's reach.
Loses(a, n) == counted'[a] + Kept(a) = counted[a] + Kept(a)' + n

\* GetStats stores zero into a, over what was added since its load.
Resets(a) ==
  /\ worker.pc = (IF a[1] = "in" THEN "storeIn" ELSE "storeOut")
  /\ a[2] = worker.ptr
  /\ Loses(a, cell[a] - worker.taken[a[1]])

\* UpdateBandwidthUsage returns an error for the bytes taken from a.
Refused(a) ==
  /\ DBMayFail /\ worker.pc = "quota" /\ worker'.pc = "next" /\ a[2] = worker.ptr
  /\ Loses(a, worker.taken[a[1]])

\* The session of a is replaced or scavenged with the bytes in its counter.
Dropped(a) ==
  /\ Registered(a[2]) /\ ~Registered(a[2])' /\ yamux'[a[2]] = "closed"
  /\ Loses(a, cell[a])

\* A stream adds to a after the session of a was replaced or scavenged.
AddedLate(a) ==
  /\ ~Registered(a[2]) /\ yamux[a[2]] = "closed"
  /\ Loses(a, counted'[a] - counted[a])

Loss(a) == Resets(a) \/ Refused(a) \/ Dropped(a) \/ AddedLate(a)

BytesGetLostOnly == [][\A a \in Account : Loses(a, 0) \/ Loss(a)]_vars

\* Nothing was counted for a connection that never had a session.
CountersStartEmpty == \A a \in Account : yamux[a[2]] = "none" => counted[a] = 0

LEMMA OnlyOpenStreamsHold ==
  ASSUME IndInv, NEW s \in Stream, NEW dir \in Dir, CountBytes(s, dir)
  PROVE  /\ Pointer(stream[s], dir) \in Conn
         /\ yamux[Pointer(stream[s], dir)] # "none"
         /\ <<dir, Pointer(stream[s], dir)>> \in Account
         /\ stream[s].held[dir] \in Nat
BY DEF TypeOK, StreamState, StreamsAreWhole, Pointer, CountBytes

LEMMA CountersStartEmptyStep ==
  ASSUME IndInv, CountersStartEmpty, [Next]_vars
  PROVE  CountersStartEmpty'
<1> DEFINE NeverAgainNone == \A c \in Conn : yamux'[c] = "none" => yamux[c] = "none"
<1>1. NeverAgainNone
  <2>1. CASE UNCHANGED yamux
    BY <2>1
  <2>2. ASSUME NEW c \in Conn, AddSession(c) PROVE NeverAgainNone
    BY <2>2 DEF AddSession, TypeOK
  <2>3. ASSUME NEW c \in Conn, Disconnect(c) PROVE NeverAgainNone
    BY <2>3 DEF Disconnect, TypeOK
  <2> QED BY <2>1, <2>2, <2>3
     DEF Next, Handler, LogSession, ReadQuota, ThrottleOnConnect, Gateway, GetStreamRead,
         GetStreamOpen, GetStreamFail, CloseStream, Transfer, CountBytes, Scavenge, Worker,
         Tick, RoundDone, StatsLoadIn, StatsMissing, StatsLoadOut, StatsStoreIn,
         StatsStoreOut, UpdateSessionStatsIncrement, UpdateBandwidthUsage, SetThrottle
<1>2. CASE UNCHANGED counted
  BY <1>1, <1>2 DEF CountersStartEmpty
<1>3. ASSUME NEW s \in Stream, NEW dir \in Dir, CountBytes(s, dir) PROVE CountersStartEmpty'
  <2> DEFINE x == <<dir, Pointer(stream[s], dir)>>
             n == stream[s].held[dir]
  <2>1. counted \in [Account -> Nat] /\ counted' = [counted EXCEPT ![x] = @ + n]
    BY <1>3 DEF CountBytes, TypeOK
  <2>2. x \in Account /\ yamux[x[2]] # "none"
    BY <1>3, OnlyOpenStreamsHold
  <2> HIDE DEF x, n
  <2> QED BY <1>1, <2>1, <2>2 DEF CountersStartEmpty
<1> QED BY <1>2, <1>3
   DEF Next, Handler, LogSession, AddSession, ReadQuota, ThrottleOnConnect, Disconnect,
       Gateway, GetStreamRead, GetStreamOpen, GetStreamFail, CloseStream, Transfer, Scavenge,
       Worker, Tick, RoundDone, StatsLoadIn, StatsMissing, StatsLoadOut, StatsStoreIn,
       StatsStoreOut, UpdateSessionStatsIncrement, UpdateBandwidthUsage, SetThrottle

LEMMA AmountsAreNat ==
  ASSUME IndInv, NEW a \in Account
  PROVE  /\ counted[a] \in Nat /\ billed[a] \in Nat /\ cell[a] \in Nat
         /\ Due(a) \in Nat /\ Outstanding(a) \in Nat
         /\ worker.taken \in [Dir -> Nat] /\ worker.taken[a[1]] \in Nat
BY DEF TypeOK, WorkerState, Outstanding, Due

LEMMA NothingMoves ==
  ASSUME IndInv, NEW a \in Account, counted' = counted, billed' = billed,
         Due(a)' = Due(a), Outstanding(a)' = Outstanding(a)
  PROVE  Loses(a, 0)
<1>1. Kept(a)' = Kept(a)
  BY DEF Kept
<1>2. counted[a] \in Nat /\ Kept(a) \in Nat
  BY AmountsAreNat DEF Kept
<1> QED BY <1>1, <1>2 DEF Loses

\* A registered session is closed when it is replaced; the new one has counted
\* nothing yet.
LEMMA AddSessionLoss ==
  ASSUME IndInv, CountersStartEmpty, NEW c \in Conn, AddSession(c), NEW a \in Account
  PROVE  Loses(a, 0) \/ Dropped(a)
<1> DEFINE d == agent[c].dom
<1>1. /\ sessions \in ConnMap /\ sessions' = Store(sessions, d, c)
      /\ counted' = counted /\ billed' = billed /\ cell' = cell /\ worker' = worker
      /\ a[2] \in Conn
  BY DEF AddSession, TypeOK
<1>2. Outstanding(a)' = Outstanding(a)
  BY <1>1 DEF Outstanding
<1>3. DOMAIN sessions' = DOMAIN sessions \cup {d} /\ sessions'[d] = c
      /\ \A x \in DOMAIN sessions : x # d => sessions'[x] = sessions[x]
  BY <1>1 DEF Store
<1>4. CASE a[2] = c
  <2>1. cell[a] = 0
    <3>1. yamux[c] = "none"
      BY DEF AddSession, AgentPhases
    <3>2. counted[a] = 0
      BY <1>4, <3>1 DEF CountersStartEmpty
    <3> QED BY <3>2, AmountsAreNat DEF BytesAreConserved
  <2>2. Due(a) = 0 /\ Due(a)' = 0
    BY <1>1, <2>1 DEF Due
  <2> QED BY <1>1, <1>2, <2>2, NothingMoves
<1>5. CASE a[2] # c /\ d \in DOMAIN sessions /\ sessions[d] = a[2]
  <2>1. Registered(a[2])
    BY <1>5 DEF Registered
  <2>2. ~Registered(a[2])'
    <3>1. \A x \in DOMAIN sessions : x # d => sessions[x] # a[2]
      BY <1>5 DEF SessionsAreRegistered
    <3> QED BY <1>3, <1>5, <3>1 DEF Registered
  <2>3. yamux'[a[2]] = "closed"
    BY <1>1, <1>5 DEF AddSession, Lookup
  <2>4. Due(a) = cell[a] /\ Due(a)' = 0
    BY <2>1, <2>2 DEF Due
  <2>5. Loses(a, cell[a])
    BY <1>1, <1>2, <2>4, AmountsAreNat DEF Loses, Kept
  <2> QED BY <2>1, <2>2, <2>3, <2>5 DEF Dropped
<1>6. CASE a[2] # c /\ ~(d \in DOMAIN sessions /\ sessions[d] = a[2])
  <2>1. Registered(a[2])' = Registered(a[2])
    BY <1>3, <1>6 DEF Registered
  <2>2. Due(a)' = Due(a)
    BY <1>1, <2>1 DEF Due
  <2> QED BY <1>1, <1>2, <2>2, NothingMoves
<1> QED BY <1>4, <1>5, <1>6

LEMMA ScavengeLoss ==
  ASSUME IndInv, Scavenge, NEW a \in Account
  PROVE  Loses(a, 0) \/ Dropped(a)
<1>1. /\ sessions' = Restrict(sessions, DOMAIN sessions \ Ghosts)
      /\ counted' = counted /\ billed' = billed /\ cell' = cell /\ worker' = worker
      /\ yamux' = yamux
  BY DEF Scavenge
<1>2. Outstanding(a)' = Outstanding(a)
  BY <1>1 DEF Outstanding
<1>3. /\ DOMAIN sessions' = DOMAIN sessions \ Ghosts
      /\ \A x \in DOMAIN sessions' : sessions'[x] = sessions[x]
  BY <1>1 DEF Restrict
<1>4. CASE Registered(a[2])' = Registered(a[2])
  <2>1. Due(a)' = Due(a)
    BY <1>1, <1>4 DEF Due
  <2> QED BY <1>1, <1>2, <2>1, NothingMoves
<1>5. CASE Registered(a[2])' # Registered(a[2])
  <2>1. Registered(a[2]) /\ ~Registered(a[2])'
    BY <1>3, <1>5 DEF Registered
  <2>2. yamux'[a[2]] = "closed"
    BY <1>1, <1>3, <2>1 DEF Registered, Ghosts
  <2>3. Due(a) = cell[a] /\ Due(a)' = 0
    BY <2>1 DEF Due
  <2>4. Loses(a, cell[a])
    BY <1>1, <1>2, <2>3, AmountsAreNat DEF Loses, Kept
  <2> QED BY <2>1, <2>2, <2>4 DEF Dropped
<1> QED BY <1>4, <1>5

LEMMA CountBytesLoss ==
  ASSUME IndInv, NEW s \in Stream, NEW dir \in Dir, CountBytes(s, dir), NEW a \in Account
  PROVE  Loses(a, 0) \/ AddedLate(a)
<1> DEFINE x == <<dir, Pointer(stream[s], dir)>>
           n == stream[s].held[dir]
<1>1. x \in Account /\ n \in Nat /\ yamux[x[2]] # "none"
  BY OnlyOpenStreamsHold
<1>2. /\ counted \in [Account -> Nat] /\ counted' = [counted EXCEPT ![x] = @ + n]
      /\ cell \in [Account -> Nat] /\ cell' = [cell EXCEPT ![x] = @ + n]
      /\ billed' = billed /\ worker' = worker /\ sessions' = sessions
  BY DEF TypeOK, CountBytes
<1>3. Outstanding(a)' = Outstanding(a)
  BY <1>2 DEF Outstanding
<1>4. Registered(a[2])' = Registered(a[2])
  BY <1>2 DEF Registered
<1> HIDE DEF x, n
<1>5. CASE a # x
  <2>1. counted'[a] = counted[a] /\ cell'[a] = cell[a]
    BY <1>2, <1>5
  <2>2. Due(a)' = Due(a)
    BY <1>4, <2>1 DEF Due
  <2> QED BY <1>2, <1>3, <2>1, <2>2, AmountsAreNat DEF Loses, Kept
<1>6. CASE a = x
  <2>1. counted'[a] = counted[a] + n /\ cell'[a] = cell[a] + n
    BY <1>1, <1>2, <1>6
  <2>2. CASE Registered(a[2])
    <3>1. Due(a) = cell[a] /\ Due(a)' = cell[a] + n
      BY <1>4, <2>1, <2>2 DEF Due
    <3> QED BY <1>1, <1>2, <1>3, <2>1, <3>1, AmountsAreNat DEF Loses, Kept
  <2>3. CASE ~Registered(a[2])
    <3>1. Due(a) = 0 /\ Due(a)' = 0
      BY <1>4, <2>3 DEF Due
    <3>2. Loses(a, counted'[a] - counted[a])
      BY <1>1, <1>2, <1>3, <2>1, <3>1, AmountsAreNat DEF Loses, Kept
    <3>3. yamux[a[2]] = "closed"
      BY <1>1, <1>6, <2>3 DEF LiveAgentsAreReachable, TypeOK, Registered
    <3> QED BY <2>3, <3>2, <3>3 DEF AddedLate
  <2> QED BY <2>2, <2>3
<1> QED BY <1>5, <1>6

\* The session whose counters GetStats is at cannot be replaced before it is done.
LEMMA WorkerAtRegistered ==
  ASSUME IndInv, worker.pc \in {"storeIn", "storeOut"}
  PROVE  worker.ptr \in Conn /\ Registered(worker.ptr) /\ bytesOut[worker.dom] = worker.ptr
BY LookupIsConn DEF TypeOK, CountersFollowSession, Registered

LEMMA StatsStoreInLoss ==
  ASSUME IndInv, StatsStoreIn, NEW a \in Account
  PROVE  Loses(a, 0) \/ Resets(a)
<1>1. /\ worker.pc = "storeIn" /\ worker.ptr \in Conn /\ Registered(worker.ptr)
      /\ worker'.pc = "storeOut" /\ worker'.ptr = worker.ptr /\ worker'.taken = worker.taken
      /\ cell' = [cell EXCEPT ![<<"in", worker.ptr>>] = 0]
      /\ counted' = counted /\ billed' = billed /\ sessions' = sessions
  BY WorkerAtRegistered DEF StatsStoreIn, TypeOK, WorkerState
<1>2. Registered(a[2])' = Registered(a[2])
  BY <1>1 DEF Registered
<1>3. CASE a = <<"in", worker.ptr>>
  <2>1. cell'[a] = 0 /\ Outstanding(a) = 0 /\ Outstanding(a)' = worker.taken[a[1]]
    BY <1>1, <1>3 DEF Outstanding, TypeOK
  <2>2. Due(a) = cell[a] /\ Due(a)' = 0
    BY <1>1, <1>2, <1>3, <2>1 DEF Due
  <2>3. Loses(a, cell[a] - worker.taken[a[1]])
    BY <1>1, <2>1, <2>2, AmountsAreNat DEF Loses, Kept
  <2> QED BY <1>1, <1>3, <2>3 DEF Resets
<1>4. CASE a # <<"in", worker.ptr>>
  <2>1. Due(a)' = Due(a)
    BY <1>1, <1>2, <1>4 DEF Due, TypeOK
  <2>2. Outstanding(a)' = Outstanding(a)
    BY <1>1, <1>4 DEF Outstanding
  <2> QED BY <1>1, <2>1, <2>2, NothingMoves
<1> QED BY <1>3, <1>4

LEMMA StatsStoreOutLoss ==
  ASSUME IndInv, StatsStoreOut, NEW a \in Account
  PROVE  Loses(a, 0) \/ Resets(a)
<1>1. /\ worker.pc = "storeOut" /\ worker.ptr \in Conn /\ Registered(worker.ptr)
      /\ worker'.pc = "session" /\ worker'.ptr = worker.ptr /\ worker'.taken = worker.taken
      /\ cell' = [cell EXCEPT ![<<"out", worker.ptr>>] = 0]
      /\ counted' = counted /\ billed' = billed /\ sessions' = sessions
  BY WorkerAtRegistered DEF StatsStoreOut, TypeOK, WorkerState
<1>2. Registered(a[2])' = Registered(a[2])
  BY <1>1 DEF Registered
<1>3. CASE a = <<"out", worker.ptr>>
  <2>1. cell'[a] = 0 /\ Outstanding(a) = 0 /\ Outstanding(a)' = worker.taken[a[1]]
    BY <1>1, <1>3 DEF Outstanding, TypeOK
  <2>2. Due(a) = cell[a] /\ Due(a)' = 0
    BY <1>1, <1>2, <1>3, <2>1 DEF Due
  <2>3. Loses(a, cell[a] - worker.taken[a[1]])
    BY <1>1, <2>1, <2>2, AmountsAreNat DEF Loses, Kept
  <2> QED BY <1>1, <1>3, <2>3 DEF Resets
<1>4. CASE a # <<"out", worker.ptr>>
  <2>1. Due(a)' = Due(a)
    BY <1>1, <1>2, <1>4 DEF Due, TypeOK
  <2>2. Outstanding(a)' = Outstanding(a)
    BY <1>1, <1>4 DEF Outstanding
  <2> QED BY <1>1, <2>1, <2>2, NothingMoves
<1> QED BY <1>3, <1>4

LEMMA UpdateBandwidthUsageLoss ==
  ASSUME IndInv, UpdateBandwidthUsage, NEW a \in Account
  PROVE  Loses(a, 0) \/ Refused(a)
<1>1. worker.pc = "quota" /\ counted' = counted /\ cell' = cell /\ sessions' = sessions
  BY DEF UpdateBandwidthUsage
<1>2. Due(a)' = Due(a)
  BY <1>1 DEF Due, Registered
<1>3. Outstanding(a) = IF a[2] = worker.ptr THEN worker.taken[a[1]] ELSE 0
  BY <1>1 DEF Outstanding
<1>4. CASE /\ \E slow \in BOOLEAN : worker' = [worker EXCEPT !.pc = "throttle", !.slow = slow]
           /\ billed' = [b \in Account |-> IF b[2] = worker.ptr
                                           THEN billed[b] + worker.taken[b[1]]
                                           ELSE billed[b]]
  <2>1. worker'.pc = "throttle"
    BY <1>4 DEF TypeOK, WorkerState
  <2>2. Outstanding(a)' = 0
    BY <2>1 DEF Outstanding
  <2>3. billed'[a] = IF a[2] = worker.ptr THEN billed[a] + worker.taken[a[1]] ELSE billed[a]
    BY <1>4, Zenon
  <2> QED BY <1>1, <1>2, <1>3, <2>2, <2>3, AmountsAreNat DEF Loses, Kept
<1>5. CASE DBMayFail /\ worker' = NextDomain /\ billed' = billed
  <2>1. worker'.pc = "next"
    BY <1>5 DEF NextDomain, IdleWorker
  <2>2. Outstanding(a)' = 0
    BY <2>1 DEF Outstanding
  <2>3. CASE a[2] = worker.ptr
    <3>1. Loses(a, worker.taken[a[1]])
      BY <1>1, <1>2, <1>3, <1>5, <2>2, <2>3, AmountsAreNat DEF Loses, Kept
    <3> QED BY <1>1, <1>5, <2>1, <2>3, <3>1 DEF Refused
  <2>4. CASE a[2] # worker.ptr
    BY <1>1, <1>2, <1>3, <1>5, <2>2, <2>4, NothingMoves
  <2> QED BY <2>3, <2>4
<1> QED BY <1>4, <1>5 DEF UpdateBandwidthUsage

LEMMA OtherWorkerStepsLoseNothing ==
  ASSUME IndInv, NEW a \in Account,
         \/ Tick \/ RoundDone
         \/ \E d \in Domain : StatsLoadIn(d) \/ StatsMissing(d)
         \/ StatsLoadOut \/ UpdateSessionStatsIncrement \/ SetThrottle
  PROVE  Loses(a, 0)
<1>1. counted' = counted /\ billed' = billed /\ Due(a)' = Due(a)
  BY DEF Tick, RoundDone, StatsLoadIn, StatsMissing, StatsLoadOut,
         UpdateSessionStatsIncrement, SetThrottle, Due, Registered
<1>2. worker \in WorkerState
  BY DEF TypeOK
<1>3. Outstanding(a)' = Outstanding(a)
  <2>1. CASE Tick
    BY <1>2, <2>1 DEF Tick, Outstanding, IdleWorker, WorkerState
  <2>2. CASE RoundDone
    BY <1>2, <2>2 DEF RoundDone, Outstanding, IdleWorker, WorkerState
  <2>3. ASSUME NEW d \in Domain, StatsLoadIn(d) PROVE Outstanding(a)' = Outstanding(a)
    BY <1>2, <2>3 DEF StatsLoadIn, Outstanding, WorkerState
  <2>4. ASSUME NEW d \in Domain, StatsMissing(d) PROVE Outstanding(a)' = Outstanding(a)
    BY <1>2, <2>4 DEF StatsMissing, Outstanding, WorkerState
  <2>5. CASE StatsLoadOut
    BY <1>2, <2>5 DEF StatsLoadOut, Outstanding, WorkerState
  <2>6. CASE UpdateSessionStatsIncrement
    <3>1. CASE TotalTaken > 0
      BY <1>2, <2>6, <3>1 DEF UpdateSessionStatsIncrement, Outstanding, WorkerState
    <3>2. CASE ~(TotalTaken > 0)
      <4>1. worker.taken["in"] = 0 /\ worker.taken["out"] = 0
        BY <1>2, <3>2 DEF TotalTaken, WorkerState
      <4>2. Outstanding(a) = 0
        BY <4>1 DEF Outstanding
      <4>3. worker'.pc = "next"
        BY <2>6, <3>2 DEF UpdateSessionStatsIncrement, NextDomain, IdleWorker
      <4> QED BY <4>2, <4>3 DEF Outstanding
    <3> QED BY <3>1, <3>2
  <2>7. CASE SetThrottle
    BY <1>2, <2>7 DEF SetThrottle, Outstanding, NextDomain, IdleWorker, WorkerState
  <2> QED BY <2>1, <2>2, <2>3, <2>4, <2>5, <2>6, <2>7
<1> QED BY <1>1, <1>3, NothingMoves

(* A byte that was counted for an account stops being on its way to the     *)
(* bill in four kinds of step only, and the step loses exactly the bytes    *)
(* named: GetStats stores zero over what was added since its load (the      *)
(* violation of NoByteIsForgotten); the quota transaction is refused;       *)
(* AddSession or the scavenger removes a session with bytes in its          *)
(* counters; a stream of such a session still adds to them.  Nothing else   *)
(* the relay does, in any order, leaves a byte unbilled.                    *)
THEOREM LossesAreDelimited == Spec => BytesGetLostOnly
<1> DEFINE Safe == IndInv /\ CountersStartEmpty
<1>1. Init => CountersStartEmpty
  BY DEF Init, CountersStartEmpty
<1>2. Safe /\ [Next]_vars => [\A a \in Account : Loses(a, 0) \/ Loss(a)]_vars
  <2> SUFFICES ASSUME IndInv, CountersStartEmpty, Next, NEW a \in Account
               PROVE  Loses(a, 0) \/ Loss(a)
    OBVIOUS
  <2>1. ASSUME counted' = counted, billed' = billed, cell' = cell, worker' = worker,
               sessions' = sessions
        PROVE  Loses(a, 0)
    <3>1. Outstanding(a)' = Outstanding(a) /\ Due(a)' = Due(a)
      BY <2>1 DEF Outstanding, Due, Registered
    <3> QED BY <2>1, <3>1, NothingMoves
  <2>2. ASSUME NEW c \in Conn, Handler(c) PROVE Loses(a, 0) \/ Loss(a)
    <3>1. CASE AddSession(c)
      BY <3>1, AddSessionLoss DEF Loss
    <3>2. CASE ~AddSession(c)
      BY <2>1, <2>2, <3>2 DEF Handler, LogSession, ReadQuota, ThrottleOnConnect, Disconnect
    <3> QED BY <3>1, <3>2
  <2>3. ASSUME NEW s \in Stream, Gateway(s) PROVE Loses(a, 0) \/ Loss(a)
    <3>1. CASE \E dir \in Dir : CountBytes(s, dir)
      BY <3>1, CountBytesLoss DEF Loss
    <3>2. CASE ~\E dir \in Dir : CountBytes(s, dir)
      BY <2>1, <2>3, <3>2
         DEF Gateway, GetStreamRead, GetStreamOpen, GetStreamFail, CloseStream, Transfer
    <3> QED BY <3>1, <3>2
  <2>4. CASE Scavenge
    BY <2>4, ScavengeLoss DEF Loss
  <2>5. CASE Worker
    BY <2>5, OtherWorkerStepsLoseNothing, StatsStoreInLoss, StatsStoreOutLoss,
       UpdateBandwidthUsageLoss DEF Worker, Loss
  <2> QED BY <2>2, <2>3, <2>4, <2>5 DEF Next
<1>3. Safe /\ [Next]_vars => CountersStartEmpty'
  BY CountersStartEmptyStep
<1> QED BY <1>1, <1>2, <1>3, Inductive, PTL DEF Spec, BytesGetLostOnly

-----------------------------------------------------------------------------
(* The rows of tunnel_sessions                                              *)

USE DEF Row, CarriedBy

LEMMA InitSessionsIsInit == InitSessions => Init
BY DEF InitSessions

LEMMA SessionsStepIsStep == [NextSessions]_allVars => [Next]_vars
<1> SUFFICES ASSUME [NextSessions]_allVars PROVE Next \/ UNCHANGED vars
  OBVIOUS
<1>1. ASSUME NEW c \in Conn, NEW d \in Domain, RegisterAgent(c, d) PROVE UNCHANGED vars
  BY <1>1 DEF RegisterAgent
<1>2. ASSUME NEW c \in Conn, NEW d \in Domain, ConnectAgent(c, d) PROVE Next
  BY <1>2 DEF ConnectAgent, Next, Handler
<1>3. CASE IncrementRows
  BY <1>3 DEF IncrementRows, Next, Worker
<1>4. CASE ManagerStep
  BY <1>4 DEF ManagerStep, Next, Handler, Worker
<1>5. CASE UNCHANGED allVars
  BY <1>5 DEF allVars
<1> QED BY <1>1, <1>2, <1>3, <1>4, <1>5 DEF NextSessions

(* The table only watches: what is shown of the manager without it holds of *)
(* the two together.                                                        *)
THEOREM SessionsImplementManager == SpecSessions => Spec
BY InitSessionsIsInit, SessionsStepIsStep, PTL DEF SpecSessions, Spec

(* With the table beside it too, the relay never charges a byte twice nor   *)
(* before it was carried.                                                   *)
THEOREM SessionsImplementMeter == SpecSessions => BillsLikeAMeter
BY SessionsImplementManager, ImplementsMeter

\* The bytes of counter a that the worker stored back as zero, and has not
\* added to the rows yet.
OnTheWay(a) ==
  IF /\ a[2] = worker.ptr
     /\ worker.pc \in (IF a[1] = "in" THEN {"storeOut", "session"} ELSE {"session"})
  THEN worker.taken[a[1]] ELSE 0

\* The bytes that went through counter a and past the session rows.
Gone(a) == counted[a] - (cell[a] + OnTheWay(a))

Collected == [c \in Conn |-> Gone(<<"in", c>>) + Gone(<<"out", c>>)]

AgentsOf(d) == {c \in Conn : agent[c].dom = d}

\* A handler that has not logged its session has no domain and no row.
NewAgentsHaveNoRow ==
  \A c \in Conn :
    agent[c].pc = "new" => agent[c].dom = NoDomain /\ rowDomain[<<"data", c>>] = NoDomain

\* A row shows nothing before its INSERT, and then no more than the worker
\* collected from the agents of its domain.
RowsAreCollected ==
  \A r \in Row :
    /\ rowDomain[r] = NoDomain => rowBytes[r] = 0
    /\ rowDomain[r] \in Domain => rowBytes[r] <= Sum(Collected, AgentsOf(rowDomain[r]))

RowsInv ==
  /\ TableTypeOK
  /\ IsFiniteSet({c \in Conn : agent[c].dom # NoDomain})
  /\ NewAgentsHaveNoRow
  /\ RowsAreCollected

LEMMA AgentsAreFinitelyMany ==
  ASSUME RowsInv, NEW d \in Domain
  PROVE  AgentsOf(d) \in SUBSET Conn /\ IsFiniteSet(AgentsOf(d))
<1>1. AgentsOf(d) \subseteq {c \in Conn : agent[c].dom # NoDomain}
  BY DEF AgentsOf
<1> QED BY <1>1, FS_Subset DEF RowsInv

LEMMA GoneIsNat ==
  ASSUME IndInv, NEW a \in Account
  PROVE  Gone(a) \in Nat /\ Gone(a) <= counted[a]
<1>1. counted[a] \in Nat /\ cell[a] \in Nat /\ billed[a] \in Nat /\ worker.taken[a[1]] \in Nat
  BY DEF TypeOK, WorkerState
<1>2. OnTheWay(a) \in Nat /\ OnTheWay(a) <= Outstanding(a) /\ Outstanding(a) \in Nat
  BY <1>1 DEF OnTheWay, Outstanding
<1>3. billed[a] + cell[a] + Outstanding(a) <= counted[a]
  BY DEF BytesAreConserved
<1> HIDE DEF IndInv, Account
<1> QED BY <1>1, <1>2, <1>3 DEF Gone

LEMMA AllGoneIsNat == IndInv => \A a \in Account : Gone(a) \in Nat
BY GoneIsNat

LEMMA CollectedIsNat ==
  ASSUME IndInv
  PROVE  /\ Collected \in [Conn -> Nat]
         /\ \A c \in Conn : Collected[c] <= CarriedBy(c)
<1> SUFFICES ASSUME NEW c \in Conn
             PROVE  Collected[c] \in Nat /\ Collected[c] <= CarriedBy(c)
  BY DEF Collected
<1> DEFINE i == <<"in", c>>
           o == <<"out", c>>
<1>1. i \in Account /\ o \in Account
  OBVIOUS
<1>2. counted[i] \in Nat /\ counted[o] \in Nat
  BY <1>1 DEF TypeOK
<1>3. Gone(i) \in Nat /\ Gone(i) <= counted[i] /\ Gone(o) \in Nat /\ Gone(o) <= counted[o]
  BY <1>1, GoneIsNat
<1>4. Collected[c] = Gone(i) + Gone(o) /\ CarriedBy(c) = counted[i] + counted[o]
  BY DEF Collected
<1> HIDE DEF i, o
<1> QED BY <1>2, <1>3, <1>4

(* A step of the manager: what was collected stays collected.  Only the     *)
(* stores of GetStats and the increment of the rows collect anything.       *)
LEMMA GoneIsKept ==
  ASSUME IndInv, NEW a \in Account, UNCHANGED <<cell, counted>>,
         OnTheWay(a)' = OnTheWay(a)
  PROVE  Gone(a) <= Gone(a)'
<1>1. Gone(a)' = Gone(a)
  BY DEF Gone
<1>2. Gone(a) \in Nat
  BY GoneIsNat
<1> QED BY <1>1, <1>2

LEMMA GoneGrows ==
  ASSUME IndInv, IndInv', [Next]_vars, NEW a \in Account
  PROVE  Gone(a) <= Gone(a)'
<1>1. CASE UNCHANGED <<cell, counted, worker>>
  BY <1>1, GoneIsKept DEF OnTheWay
<1>2. ASSUME NEW c \in Conn, Handler(c) PROVE UNCHANGED <<cell, counted, worker>>
  BY <1>2 DEF Handler, LogSession, AddSession, ReadQuota, ThrottleOnConnect, Disconnect
<1>3. ASSUME NEW s \in Stream, Gateway(s)
      PROVE  UNCHANGED <<cell, counted, worker>> \/ \E dir \in Dir : CountBytes(s, dir)
  BY <1>3 DEF Gateway, GetStreamRead, GetStreamOpen, GetStreamFail, CloseStream, Transfer
<1>4. ASSUME NEW s \in Stream, NEW dir \in Dir, CountBytes(s, dir)
      PROVE  Gone(a) <= Gone(a)'
  <2> DEFINE x == <<dir, Pointer(stream[s], dir)>>
             n == stream[s].held[dir]
  <2>1. x \in Account /\ n \in Nat
    BY <1>4 DEF CountBytes, TypeOK, StreamState, StreamsAreWhole, Pointer
  <2>2. OnTheWay(a)' = OnTheWay(a) /\ OnTheWay(a) \in Nat
    BY <1>4 DEF CountBytes, OnTheWay, TypeOK, WorkerState
  <2>3. cell' = [cell EXCEPT ![x] = @ + n] /\ counted' = [counted EXCEPT ![x] = @ + n]
    BY <1>4 DEF CountBytes
  <2>4. cell \in [Account -> Nat] /\ counted \in [Account -> Nat]
    BY DEF TypeOK
  <2> HIDE DEF x, n, IndInv
  <2>5. \/ cell'[a] = cell[a] /\ counted'[a] = counted[a]
        \/ cell'[a] = cell[a] + n /\ counted'[a] = counted[a] + n
    BY <2>1, <2>3, <2>4
  <2>6. cell[a] \in Nat /\ counted[a] \in Nat
    BY <2>4
  <2> QED BY <2>1, <2>2, <2>5, <2>6 DEF Gone
<1>5. CASE Scavenge
  BY <1>5, <1>1 DEF Scavenge
<1>6. CASE Worker
  <2>1. CASE Tick \/ RoundDone \/ (\E d \in Domain : StatsLoadIn(d)) \/ StatsLoadOut
             \/ UpdateBandwidthUsage \/ SetThrottle
    <3>1. UNCHANGED <<cell, counted>> /\ OnTheWay(a) = 0
      BY <2>1 DEF Tick, RoundDone, StatsLoadIn, StatsLoadOut, UpdateBandwidthUsage, SetThrottle,
         OnTheWay
    <3>2. worker'.pc \notin {"storeOut", "session"}
      <4>1. worker \in WorkerState
        BY DEF TypeOK
      <4>2. ASSUME NEW d \in Domain, StatsLoadIn(d) PROVE worker'.pc = "loadOut"
        BY <4>1, <4>2 DEF StatsLoadIn, WorkerState
      <4>3. NextDomain.pc = "next"
        BY DEF NextDomain, IdleWorker
      <4>4. CASE Tick
        BY <4>4 DEF Tick, IdleWorker
      <4>8. CASE RoundDone
        BY <4>8 DEF RoundDone, IdleWorker
      <4>7. CASE StatsLoadOut
        <5>1. worker.ptr \in Conn /\ bytesOut[worker.dom] = worker.ptr
          BY <4>7, LookupIsConn DEF StatsLoadOut, TypeOK, WorkerState, CountersFollowSession
        <5>2. worker'.pc = "storeIn"
          BY <4>1, <4>7, <5>1 DEF StatsLoadOut, WorkerState
        <5> QED BY <5>2
      <4>5. CASE UpdateBandwidthUsage
        BY <4>1, <4>3, <4>5 DEF UpdateBandwidthUsage, WorkerState
      <4>6. CASE SetThrottle
        BY <4>3, <4>6 DEF SetThrottle
      <4> QED BY <2>1, <4>2, <4>4, <4>5, <4>6, <4>7, <4>8
    <3>3. OnTheWay(a)' = 0
      BY <3>2 DEF OnTheWay
    <3> QED BY <3>1, <3>3, GoneIsKept
  <2>2. ASSUME NEW d \in Domain, StatsMissing(d) PROVE Gone(a) <= Gone(a)'
    <3>1. worker.pc = "next" /\ UNCHANGED <<cell, counted>>
      BY <2>2 DEF StatsMissing
    <3>2. worker'.taken = NoBytes
      BY <2>2 DEF StatsMissing, TypeOK, WorkerState
    <3>3. OnTheWay(a) = 0 /\ OnTheWay(a)' = 0
      BY <3>1, <3>2 DEF OnTheWay
    <3> QED BY <3>1, <3>3, GoneIsKept
  <2>3. CASE StatsStoreIn
    <3> DEFINE x == <<"in", worker.ptr>>
    <3>1. x \in Account /\ worker.taken["in"] <= cell[x] /\ worker.taken["in"] \in Nat
      BY <2>3 DEF StatsStoreIn, BytesAreConserved, CountersFollowSession, TypeOK, WorkerState
    <3>2. /\ UNCHANGED counted /\ OnTheWay(a) = 0
          /\ OnTheWay(a)' = IF a = x THEN worker.taken["in"] ELSE 0
      BY <2>3 DEF StatsStoreIn, OnTheWay, TypeOK, WorkerState
    <3>3. cell' = [cell EXCEPT ![x] = 0]
      BY <2>3 DEF StatsStoreIn
    <3>4. cell \in [Account -> Nat] /\ counted \in [Account -> Nat]
      BY DEF TypeOK
    <3> HIDE DEF x, IndInv
    <3>5. cell[a] \in Nat /\ counted[a] \in Nat /\ cell'[a] = IF a = x THEN 0 ELSE cell[a]
      BY <3>1, <3>3, <3>4
    <3> QED BY <3>1, <3>2, <3>5 DEF Gone
  <2>4. CASE StatsStoreOut
    <3> DEFINE x == <<"out", worker.ptr>>
    <3>1. x \in Account /\ worker.taken["out"] <= cell[x] /\ worker.taken["out"] \in Nat
      BY <2>4 DEF StatsStoreOut, BytesAreConserved, CountersFollowSession, TypeOK, WorkerState
    <3>2. /\ UNCHANGED counted
          /\ OnTheWay(a)' = OnTheWay(a) + IF a = x THEN worker.taken["out"] ELSE 0
      BY <2>4 DEF StatsStoreOut, OnTheWay, TypeOK, WorkerState
    <3>3. cell' = [cell EXCEPT ![x] = 0]
      BY <2>4, LookupIsConn DEF StatsStoreOut, CountersFollowSession, TypeOK
    <3>4. cell \in [Account -> Nat] /\ counted \in [Account -> Nat] /\ OnTheWay(a) \in Nat
      BY DEF TypeOK, WorkerState, OnTheWay
    <3> HIDE DEF x, IndInv
    <3>5. cell[a] \in Nat /\ counted[a] \in Nat /\ cell'[a] = IF a = x THEN 0 ELSE cell[a]
      BY <3>1, <3>3, <3>4
    <3> QED BY <3>1, <3>2, <3>4, <3>5 DEF Gone
  <2>5. CASE UpdateSessionStatsIncrement
    <3>1. UNCHANGED <<cell, counted>> /\ worker'.pc \notin {"storeOut", "session"}
      BY <2>5 DEF UpdateSessionStatsIncrement, NextDomain, IdleWorker, TypeOK, WorkerState
    <3>2. OnTheWay(a)' = 0
      BY <3>1 DEF OnTheWay
    <3>3. cell[a] \in Nat /\ counted[a] \in Nat /\ OnTheWay(a) \in Nat
      BY DEF TypeOK, WorkerState, OnTheWay
    <3> HIDE DEF IndInv
    <3> QED BY <3>1, <3>2, <3>3 DEF Gone
  <2> QED BY <1>6, <2>1, <2>2, <2>3, <2>4, <2>5 DEF Worker
<1>7. CASE UNCHANGED vars
  BY <1>7, <1>1
<1> QED BY <1>1, <1>2, <1>3, <1>4, <1>5, <1>6, <1>7 DEF Next

LEMMA CollectedGrows ==
  ASSUME IndInv, IndInv', [Next]_vars
  PROVE  \A c \in Conn : Collected[c] <= Collected'[c]
<1> SUFFICES ASSUME NEW c \in Conn PROVE Collected[c] <= Collected'[c]
  OBVIOUS
<1> DEFINE i == <<"in", c>>
           o == <<"out", c>>
<1>1. i \in Account /\ o \in Account
  OBVIOUS
<1>2. Gone(i) <= Gone(i)' /\ Gone(o) <= Gone(o)'
  BY <1>1, GoneGrows
<1>3. Gone(i) \in Nat /\ Gone(i)' \in Nat /\ Gone(o) \in Nat /\ Gone(o)' \in Nat
  <2>1. (\A a \in Account : Gone(a) \in Nat)'
    BY AllGoneIsNat, PTL
  <2> QED BY <1>1, <2>1, AllGoneIsNat
<1>4. Collected[c] = Gone(i) + Gone(o) /\ Collected'[c] = Gone(i)' + Gone(o)'
  BY DEF Collected
<1> HIDE DEF IndInv, i, o
<1> QED BY <1>2, <1>3, <1>4

LEMMA CollectedStaysNat == IndInv => Collected \in [Conn -> Nat]
BY CollectedIsNat

(* The increment of the rows collects what the worker had taken.            *)
LEMMA IncrementCollects ==
  ASSUME IndInv, UpdateSessionStatsIncrement, NEW c \in Conn, worker.ptr = c
  PROVE  Collected[c] + TotalTaken <= Collected'[c]
<1> DEFINE i == <<"in", c>>
           o == <<"out", c>>
<1>1. i \in Account /\ o \in Account /\ worker.taken \in [Dir -> Nat]
  BY DEF TypeOK, WorkerState
<1>2. UNCHANGED <<cell, counted>> /\ worker.pc = "session" /\ worker'.pc \notin {"storeOut", "session"}
  BY DEF UpdateSessionStatsIncrement, NextDomain, IdleWorker, TypeOK, WorkerState
<1>3. /\ OnTheWay(i) = worker.taken["in"] /\ OnTheWay(o) = worker.taken["out"]
      /\ OnTheWay(i)' = 0 /\ OnTheWay(o)' = 0
  BY <1>2 DEF OnTheWay
<1>4. /\ counted[i] \in Nat /\ cell[i] \in Nat /\ counted[o] \in Nat /\ cell[o] \in Nat
      /\ worker.taken["in"] \in Nat /\ worker.taken["out"] \in Nat
  BY <1>1 DEF TypeOK
<1>5. /\ Collected[c] = Gone(i) + Gone(o)
      /\ Collected'[c] = Gone(i)' + Gone(o)'
  BY DEF Collected
<1>6. /\ Gone(i)' = counted[i] - cell[i] /\ Gone(i) = counted[i] - (cell[i] + worker.taken["in"])
      /\ Gone(o)' = counted[o] - cell[o] /\ Gone(o) = counted[o] - (cell[o] + worker.taken["out"])
  <2> HIDE DEF IndInv, Account
  <2> QED BY <1>2, <1>3, <1>4 DEF Gone
<1>7. TotalTaken = worker.taken["in"] + worker.taken["out"]
  BY DEF TotalTaken
<1> HIDE DEF IndInv, Account, i, o
<1> QED BY <1>1, <1>4, <1>5, <1>6, <1>7

(* A step that leaves the rows alone, or inserts an empty one.              *)
LEMMA BoundIsKept ==
  ASSUME IndInv, IndInv', [Next]_vars, RowsInv, NEW d \in Domain,
         IsFiniteSet(AgentsOf(d)'), AgentsOf(d) \subseteq AgentsOf(d)'
  PROVE  /\ Sum(Collected, AgentsOf(d)) \in Nat
         /\ Sum(Collected, AgentsOf(d))' \in Nat
         /\ Sum(Collected, AgentsOf(d)) <= Sum(Collected, AgentsOf(d))'
<1> DEFINE f == Collected
           g == Collected'
           S == AgentsOf(d)
           R == AgentsOf(d)'
<1>1. f \in [Conn -> Nat]
  BY CollectedIsNat
<1>2. g \in [Conn -> Nat]
  <2>1. (Collected \in [Conn -> Nat])'
    BY CollectedStaysNat, PTL
  <2> QED BY <2>1
<1>3. S \in SUBSET Conn /\ IsFiniteSet(S)
  BY AgentsAreFinitelyMany
<1>4. R \in SUBSET Conn /\ IsFiniteSet(R) /\ S \in SUBSET R
  BY DEF AgentsOf
<1>5. \A x \in S : f[x] <= g[x]
  BY <1>3, CollectedGrows
<1>6. Sum(f, S) \in Nat /\ Sum(g, R) \in Nat /\ Sum(f, S) <= Sum(g, R)
  <2> HIDE DEF f, g, S, R
  <2>1. Sum(f, S) \in Nat
    BY <1>1, <1>3, SumIsNat
  <2>2. Sum(g, R) \in Nat
    BY <1>2, <1>4, SumIsNat
  <2>3. Sum(f, S) <= Sum(g, R)
    BY <1>1, <1>2, <1>4, <1>5, SumGrows
  <2> QED BY <2>1, <2>2, <2>3
<1> QED BY <1>6 DEF Sum

(* A handler gets its domain when it logs its session, and keeps it.        *)
LEMMA AgentsOnlyJoin ==
  ASSUME IndInv, RowsInv, [NextSessions]_allVars
  PROVE  /\ IsFiniteSet({c \in Conn : agent'[c].dom # NoDomain})
         /\ \A d \in Domain : AgentsOf(d) \subseteq AgentsOf(d)'
<1> DEFINE Known == {c \in Conn : agent[c].dom # NoDomain}
<1>1. agent \in [Conn -> AgentState] /\ IsFiniteSet(Known)
  BY DEF RowsInv, TypeOK
<1>2. ASSUME \A c \in Conn : agent'[c].dom = agent[c].dom
      PROVE  /\ IsFiniteSet({c \in Conn : agent'[c].dom # NoDomain})
             /\ \A d \in Domain : AgentsOf(d) \subseteq AgentsOf(d)'
  <2>1. {c \in Conn : agent'[c].dom # NoDomain} = Known
    BY <1>2
  <2> QED BY <1>1, <1>2, <2>1 DEF AgentsOf
<1>3. ASSUME NEW x \in Conn, NEW d \in Domain, ConnectAgent(x, d)
      PROVE  /\ IsFiniteSet({c \in Conn : agent'[c].dom # NoDomain})
             /\ \A e \in Domain : AgentsOf(e) \subseteq AgentsOf(e)'
  <2>1. /\ agent' = [agent EXCEPT ![x] = [pc |-> "logged", dom |-> d]]
        /\ agent[x].dom = NoDomain
    BY <1>3 DEF ConnectAgent, LogSession, RowsInv, NewAgentsHaveNoRow
  <2>2. {c \in Conn : agent'[c].dom # NoDomain} = Known \cup {x}
    BY <1>1, <2>1
  <2>3. IsFiniteSet(Known \cup {x})
    BY <1>1, FS_AddElement
  <2>4. \A e \in Domain : AgentsOf(e) \subseteq AgentsOf(e)'
    BY <1>1, <2>1 DEF AgentsOf
  <2> QED BY <2>2, <2>3, <2>4
<1>4. ASSUME NEW x \in Conn, NEW d \in Domain, RegisterAgent(x, d)
      PROVE  \A c \in Conn : agent'[c].dom = agent[c].dom
  BY <1>4 DEF RegisterAgent
<1>5. ASSUME IncrementRows PROVE \A c \in Conn : agent'[c].dom = agent[c].dom
  BY <1>5 DEF IncrementRows, UpdateSessionStatsIncrement
<1>6. ASSUME ManagerStep PROVE \A c \in Conn : agent'[c].dom = agent[c].dom
  <2>1. CASE UNCHANGED agent
    BY <2>1
  <2>2. ASSUME NEW x \in Conn, AddSession(x) \/ ReadQuota(x) \/ ThrottleOnConnect(x) \/ Disconnect(x)
        PROVE  \A c \in Conn : agent'[c].dom = agent[c].dom
    BY <1>1, <2>2 DEF AddSession, ReadQuota, ThrottleOnConnect, Disconnect, AgentState
  <2>3. ASSUME NEW s \in Stream, Gateway(s) PROVE UNCHANGED agent
    BY <2>3 DEF Gateway, GetStreamRead, GetStreamOpen, GetStreamFail, CloseStream, Transfer, CountBytes
  <2>4. ASSUME Scavenge \/ Tick \/ RoundDone \/ (\E d \in Domain : StatsLoadIn(d) \/ StatsMissing(d))
               \/ StatsLoadOut \/ StatsStoreIn \/ StatsStoreOut \/ UpdateBandwidthUsage \/ SetThrottle
        PROVE  UNCHANGED agent
    BY <2>4 DEF Scavenge, Tick, RoundDone, StatsLoadIn, StatsMissing, StatsLoadOut, StatsStoreIn,
       StatsStoreOut, UpdateBandwidthUsage, SetThrottle
  <2> QED BY <1>6, <2>1, <2>2, <2>3, <2>4 DEF ManagerStep
<1>7. CASE UNCHANGED allVars
  BY <1>2, <1>7 DEF allVars
<1> QED BY <1>2, <1>3, <1>4, <1>5, <1>6, <1>7 DEF NextSessions

LEMMA NewAgentsStep ==
  ASSUME IndInv, RowsInv, [NextSessions]_allVars
  PROVE  NewAgentsHaveNoRow'
<1>1. agent \in [Conn -> AgentState] /\ rowDomain \in [Row -> Domain \cup {NoDomain}]
  BY DEF RowsInv, TypeOK, TableTypeOK
<1>2. ASSUME NEW c \in Conn, agent'[c].pc = "new"
      PROVE  agent[c].pc = "new" /\ agent'[c].dom = agent[c].dom
             /\ rowDomain'[<<"data", c>>] = rowDomain[<<"data", c>>]
  <2>1. ASSUME NEW x \in Conn, NEW d \in Domain, ConnectAgent(x, d)
        PROVE  agent[c].pc = "new" /\ agent'[c].dom = agent[c].dom
               /\ rowDomain'[<<"data", c>>] = rowDomain[<<"data", c>>]
    <3>1. agent' = [agent EXCEPT ![x] = [pc |-> "logged", dom |-> d]]
      BY <2>1 DEF ConnectAgent, LogSession
    <3>2. x # c /\ agent'[c] = agent[c]
      BY <1>1, <1>2, <3>1
    <3> QED BY <1>1, <1>2, <2>1, <3>2 DEF ConnectAgent, InsertRow
  <2>2. ASSUME NEW x \in Conn, NEW d \in Domain, RegisterAgent(x, d)
        PROVE  agent' = agent /\ rowDomain'[<<"data", c>>] = rowDomain[<<"data", c>>]
    BY <1>1, <2>2 DEF RegisterAgent, InsertRow
  <2>3. CASE IncrementRows
    BY <1>2, <2>3 DEF IncrementRows, UpdateSessionStatsIncrement
  <2>4. CASE ManagerStep
    <3>1. ASSUME NEW x \in Conn, AddSession(x) \/ ReadQuota(x) \/ ThrottleOnConnect(x)
          PROVE  agent[c].pc = "new" /\ agent'[c].dom = agent[c].dom
      <4>1. agent[x].pc # "new" /\ \E pc \in {"added", "slow", "done"} : agent' = [agent EXCEPT ![x].pc = pc]
        BY <3>1 DEF AddSession, ReadQuota, ThrottleOnConnect
      <4> QED BY <1>1, <1>2, <4>1 DEF AgentState
    <3>2. ASSUME NEW x \in Conn, Disconnect(x) PROVE UNCHANGED agent
      BY <3>2 DEF Disconnect
    <3>3. ASSUME NEW s \in Stream, Gateway(s) PROVE UNCHANGED agent
      BY <3>3 DEF Gateway, GetStreamRead, GetStreamOpen, GetStreamFail, CloseStream, Transfer, CountBytes
    <3>4. ASSUME Scavenge \/ Tick \/ RoundDone \/ (\E d \in Domain : StatsLoadIn(d) \/ StatsMissing(d))
                 \/ StatsLoadOut \/ StatsStoreIn \/ StatsStoreOut \/ UpdateBandwidthUsage \/ SetThrottle
          PROVE  UNCHANGED agent
      BY <3>4 DEF Scavenge, Tick, RoundDone, StatsLoadIn, StatsMissing, StatsLoadOut, StatsStoreIn,
         StatsStoreOut, UpdateBandwidthUsage, SetThrottle
    <3>5. UNCHANGED tableVars
      BY <2>4 DEF ManagerStep
    <3> QED BY <1>2, <2>4, <3>1, <3>2, <3>3, <3>4, <3>5 DEF ManagerStep, tableVars
  <2>5. CASE UNCHANGED allVars
    BY <1>2, <2>5 DEF allVars, tableVars
  <2> QED BY <1>2, <2>1, <2>2, <2>3, <2>4, <2>5 DEF NextSessions
<1> QED BY <1>2 DEF RowsInv, NewAgentsHaveNoRow

LEMMA TableTypeStep ==
  ASSUME IndInv, TableTypeOK, [NextSessions]_allVars
  PROVE  TableTypeOK'
<1>1. rowDomain \in [Row -> Domain \cup {NoDomain}] /\ rowBytes \in [Row -> Nat]
  BY DEF TableTypeOK
<1>2. ASSUME NEW r \in Row, NEW d \in Domain, InsertRow(r, d) PROVE TableTypeOK'
  BY <1>1, <1>2 DEF InsertRow, TableTypeOK
<1>3. CASE IncrementRows
  <2>1. TotalTaken \in Nat
    BY DEF TotalTaken, TypeOK, WorkerState
  <2>2. rowBytes' \in [Row -> Nat]
    BY <1>1, <1>3, <2>1 DEF IncrementRows
  <2> QED BY <1>1, <1>3, <2>2 DEF IncrementRows, TableTypeOK
<1>4. CASE UNCHANGED tableVars
  BY <1>1, <1>4 DEF tableVars, TableTypeOK
<1> QED BY <1>2, <1>3, <1>4 DEF NextSessions, RegisterAgent, ConnectAgent, ManagerStep, allVars

(* UPDATE ... SET bytes = bytes + n: the bound of a row of the worker's     *)
(* domain grows by at least what the row gains.                             *)
LEMMA IncrementIsCollected ==
  ASSUME IndInv, IndInv', RowsInv, [Next]_vars, UpdateSessionStatsIncrement,
         NEW d \in Domain, d = worker.dom
  PROVE  Sum(Collected, AgentsOf(d)) + TotalTaken <= Sum(Collected, AgentsOf(d))'
<1> DEFINE f == Collected
           g == Collected'
           S == AgentsOf(d)
           k == TotalTaken
<1>1. f \in [Conn -> Nat] /\ S \in SUBSET Conn /\ IsFiniteSet(S)
  BY CollectedIsNat, AgentsAreFinitelyMany
<1>2. g \in [Conn -> Nat]
  <2>1. (Collected \in [Conn -> Nat])'
    BY CollectedStaysNat, PTL
  <2> QED BY <2>1
<1>3. AgentsOf(d)' = S
  BY DEF AgentsOf, UpdateSessionStatsIncrement
<1>4. \A x \in S : f[x] <= g[x]
  BY <1>1, CollectedGrows
<1>5. k \in Nat /\ worker.pc = "session"
  BY DEF TotalTaken, TypeOK, WorkerState, UpdateSessionStatsIncrement
<1>6. CASE worker.ptr = NoConn
  <2>1. k = 0
    BY <1>5, <1>6 DEF WorkerIsWhole, TotalTaken
  <2> HIDE DEF f, g, S, k
  <2>2. Sum(f, S) <= Sum(g, S) /\ Sum(f, S) \in Nat
    BY <1>1, <1>2, <1>4, SumGrows, SumIsNat
  <2>3. Sum(f, S) + k <= Sum(g, S)
    BY <2>1, <2>2
  <2> QED BY <1>3, <2>3 DEF f, g, S, k, Sum
<1>7. CASE worker.ptr # NoConn
  <2>1. PICK c \in Conn : c = worker.ptr
    BY <1>7 DEF TypeOK, WorkerState
  <2>2. c \in S
    BY <1>5, <1>7, <2>1 DEF WorkerIsWhole, AgentsOf
  <2>3. f[c] + k <= g[c]
    BY <2>1, IncrementCollects
  <2> HIDE DEF f, g, S, k
  <2>4. Sum(f, S) + k <= Sum(g, S)
    BY <1>1, <1>2, <1>4, <1>5, <2>2, <2>3, SumGrowsBy
  <2> QED BY <1>3, <2>4 DEF f, g, S, k, Sum
<1> QED BY <1>6, <1>7

LEMMA RowsStep ==
  ASSUME IndInv, IndInv', RowsInv, [NextSessions]_allVars
  PROVE  RowsInv'
<1>1. [Next]_vars
  BY SessionsStepIsStep
<1>2. TableTypeOK'
  BY TableTypeStep DEF RowsInv
<1>3. NewAgentsHaveNoRow'
  BY NewAgentsStep
<1>4. IsFiniteSet({c \in Conn : agent[c].dom # NoDomain})'
  BY AgentsOnlyJoin
<1>5. \A d \in Domain : IsFiniteSet(AgentsOf(d)') /\ AgentsOf(d) \subseteq AgentsOf(d)'
  <2> SUFFICES ASSUME NEW d \in Domain PROVE IsFiniteSet(AgentsOf(d)')
    BY AgentsOnlyJoin
  <2>1. AgentsOf(d)' \subseteq {c \in Conn : agent'[c].dom # NoDomain}
    BY DEF AgentsOf
  <2> QED BY <1>4, <2>1, FS_Subset
<1>6. rowBytes \in [Row -> Nat] /\ rowDomain \in [Row -> Domain \cup {NoDomain}]
  BY DEF RowsInv, TableTypeOK
<1>7. \A d \in Domain : /\ Sum(Collected, AgentsOf(d)) \in Nat
                        /\ Sum(Collected, AgentsOf(d))' \in Nat
                        /\ Sum(Collected, AgentsOf(d)) <= Sum(Collected, AgentsOf(d))'
  BY <1>1, <1>5, BoundIsKept
<1>8. ASSUME NEW r \in Row
      PROVE  /\ rowDomain'[r] = NoDomain => rowBytes'[r] = 0
             /\ \A d \in Domain : rowDomain'[r] = d => rowBytes'[r] <= Sum(Collected, AgentsOf(d))'
  <2>1. /\ rowDomain[r] = NoDomain => rowBytes[r] = 0
        /\ \A d \in Domain : rowDomain[r] = d => rowBytes[r] <= Sum(Collected, AgentsOf(d))
    BY DEF RowsInv, RowsAreCollected
  <2>2. CASE UNCHANGED tableVars
    BY <1>6, <1>7, <2>1, <2>2 DEF tableVars
  <2>3. ASSUME NEW x \in Row, NEW e \in Domain, InsertRow(x, e), rowDomain[x] = NoDomain
        PROVE  /\ rowDomain'[r] = NoDomain => rowBytes'[r] = 0
               /\ \A d \in Domain : rowDomain'[r] = d => rowBytes'[r] <= Sum(Collected, AgentsOf(d))'
    <3>1. rowBytes'[r] = rowBytes[r] /\ (rowDomain'[r] = rowDomain[r] \/ (r = x /\ rowDomain'[r] = e))
      BY <1>6, <2>3 DEF InsertRow
    <3>2. CASE rowDomain'[r] = rowDomain[r]
      BY <1>6, <1>7, <2>1, <3>1, <3>2
    <3>3. CASE r = x /\ rowDomain'[r] = e
      BY <1>7, <2>1, <2>3, <3>1, <3>3
    <3> QED BY <3>1, <3>2, <3>3
  <2>4. ASSUME NEW c \in Conn, NEW e \in Domain, RegisterAgent(c, e) \/ ConnectAgent(c, e)
        PROVE  \E x \in Row : InsertRow(x, e) /\ rowDomain[x] = NoDomain
    BY <2>4 DEF RegisterAgent, ConnectAgent, LogSession, RowsInv, NewAgentsHaveNoRow
  <2>5. CASE IncrementRows
    <3>1. UpdateSessionStatsIncrement /\ UNCHANGED rowDomain /\ TotalTaken \in Nat
      BY <2>5 DEF IncrementRows, TotalTaken, TypeOK, WorkerState
    <3>2. worker.dom \in Domain
      BY <3>1 DEF UpdateSessionStatsIncrement, WorkerIsWhole
    <3>3. CASE rowDomain[r] = worker.dom
      <4> DEFINE d == rowDomain[r]
                 k == TotalTaken
      <4>1. PICK e \in Domain : e = worker.dom
        BY <3>2
      <4>2. Sum(Collected, AgentsOf(e)) + k <= Sum(Collected, AgentsOf(e))'
        BY <1>1, <3>1, <4>1, IncrementIsCollected
      <4>3. rowBytes'[r] <= rowBytes[r] + k /\ rowBytes[r] \in Nat /\ rowBytes'[r] \in Nat /\ k \in Nat
        BY <1>2, <1>6, <2>5, <3>1, <3>3 DEF IncrementRows, ActiveRows, TableTypeOK
      <4>4. rowBytes[r] <= Sum(Collected, AgentsOf(e))
        BY <2>1, <3>3, <4>1
      <4>5. rowBytes'[r] <= Sum(Collected, AgentsOf(e))'
        <5> DEFINE a == Sum(Collected, AgentsOf(e))
                   b == Sum(Collected, AgentsOf(e))'
        <5>1. a \in Nat /\ b \in Nat /\ a + k <= b /\ rowBytes[r] <= a
          BY <1>7, <4>2, <4>4
        <5> HIDE DEF a, b, k, IndInv
        <5>2. rowBytes'[r] <= b
          BY <4>3, <5>1
        <5> QED BY <5>2 DEF b
      <4> QED BY <3>1, <3>2, <3>3, <4>1, <4>5
    <3>4. CASE rowDomain[r] # worker.dom
      <4>1. rowBytes'[r] = rowBytes[r]
        BY <1>6, <2>5, <3>4 DEF IncrementRows, ActiveRows
      <4> QED BY <1>6, <1>7, <2>1, <3>1, <4>1
    <3> QED BY <3>3, <3>4
  <2> QED BY <2>2, <2>3, <2>4, <2>5 DEF NextSessions, ManagerStep, allVars
<1>9. RowsAreCollected'
  BY <1>8 DEF RowsAreCollected
<1> QED BY <1>2, <1>3, <1>4, <1>9 DEF RowsInv

LEMMA RowsInit == InitSessions => RowsInv
<1> SUFFICES ASSUME InitSessions PROVE RowsInv
  OBVIOUS
<1>1. {c \in Conn : agent[c].dom # NoDomain} = {}
  BY DEF InitSessions, Init, IdleAgent
<1>2. IsFiniteSet({c \in Conn : agent[c].dom # NoDomain})
  BY <1>1, FS_EmptySet
<1>3. TableTypeOK /\ NewAgentsHaveNoRow /\ RowsAreCollected
  BY DEF InitSessions, Init, IdleAgent, TableTypeOK, NewAgentsHaveNoRow, RowsAreCollected
<1> QED BY <1>2, <1>3 DEF RowsInv

THEOREM RowsInductive == SpecSessions => [](IndInv /\ RowsInv)
<1>1. SpecSessions => []IndInv
  BY SessionsImplementManager, Inductive
<1>2. SpecSessions => []RowsInv
  BY <1>1, RowsInit, RowsStep, PTL DEF SpecSessions
<1> QED BY <1>1, <1>2, PTL

(* The session rows keep their shape beside every step of the manager.      *)
THEOREM TableTypeCorrect == SpecSessions => []TableTypeOK
<1>1. RowsInv => TableTypeOK
  BY DEF RowsInv
<1> QED BY <1>1, RowsInductive, PTL

LEMMA RowsBound ==
  ASSUME IndInv, RowsInv
  PROVE  RowsStayWithinDomainTraffic
<1> SUFFICES ASSUME NEW r \in Row, NEW d \in Domain, rowDomain[r] = d
             PROVE  rowBytes[r] <= Sum([c \in Conn |-> CarriedBy(c)], AgentsOf(d))
  BY DEF RowsStayWithinDomainTraffic, Sum, AgentsOf
<1> DEFINE f == Collected
           g == [c \in Conn |-> CarriedBy(c)]
           S == AgentsOf(d)
<1>1. f \in [Conn -> Nat] /\ S \in SUBSET Conn /\ IsFiniteSet(S)
  BY CollectedIsNat, AgentsAreFinitelyMany
<1>2. g \in [Conn -> Nat]
  BY DEF TypeOK
<1>3. \A x \in S : f[x] <= g[x]
  BY <1>1, CollectedIsNat
<1>4. rowBytes[r] <= Sum(f, S) /\ rowBytes[r] \in Nat
  BY DEF RowsInv, RowsAreCollected, TableTypeOK
<1> HIDE DEF f, g, S, IndInv, RowsInv
<1>5. Sum(f, S) <= Sum(g, S) /\ Sum(f, S) \in Nat /\ Sum(g, S) \in Nat
  BY <1>1, <1>2, <1>3, SumGrows, SumIsNat
<1>6. rowBytes[r] <= Sum(g, S)
  BY <1>4, <1>5
<1> QED BY <1>6 DEF g, S

(* No row of tunnel_sessions shows more than the agents of its domain       *)
(* carried together, whatever the reconnections, the lost bytes of GetStats *)
(* and the failures of the database.                                        *)
THEOREM RowsNeverOverCount == SpecSessions => []RowsStayWithinDomainTraffic
BY RowsInductive, RowsBound, PTL

=============================================================================

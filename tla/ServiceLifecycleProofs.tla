----------------------- MODULE ServiceLifecycleProofs -----------------------
(***************************************************************************)
(* Theorems about ServiceLifecycle for every number of writers, requests,  *)
(* connections and statements that Validate accepts.                       *)
(***************************************************************************)
EXTENDS ServiceLifecycle, FiniteSetTheorems, SequenceTheorems, TLAPS

People == Writers \cup Requests

(* Those that hold a connection, and those that wait for one. *)
Holding == {w \in Writers : writer[w] = "pinned"} \cup {r \in Requests : request[r] = "query"}
Waiting == {w \in Writers : writer[w] = "wait"} \cup {r \in Requests : request[r] = "wait"}

-----------------------------------------------------------------------------
(* Queues in which nobody waits twice are injective. *)

(* x is served before y. *)
Before(q, x, y) == \E i, j \in DOMAIN q : i < j /\ q[i] = x /\ q[j] = y

(* Those that are still in the queue have kept their order. *)
KeepsOrder(q, p) ==
    \A x, y : Before(q, x, y) /\ x \in Range(p) /\ y \in Range(p) => Before(p, x, y)

LEMMA AppendFacts ==
    ASSUME NEW S, NEW q \in Seq(S), NEW x \in S, IsInjective(q), x \notin Range(q)
    PROVE  /\ Append(q, x) \in Seq(S) /\ IsInjective(Append(q, x))
           /\ Range(Append(q, x)) = Range(q) \cup {x}
           /\ KeepsOrder(q, Append(q, x))
<1> DEFINE p == Append(q, x)
<1>1. /\ p \in Seq(S) /\ Len(p) = Len(q) + 1 /\ Len(q) \in Nat
      /\ DOMAIN q = 1..Len(q) /\ DOMAIN p = 1..Len(p)
      /\ p[Len(q) + 1] = x /\ \A i \in 1..Len(q) : p[i] = q[i]
  OBVIOUS
<1> HIDE DEF p
<1>2. \A i \in 1..Len(q) : q[i] \in Range(q)
  BY <1>1 DEF Range
<1>3. IsInjective(p)
  BY <1>1, <1>2 DEF IsInjective
<1>4. Range(p) = Range(q) \cup {x}
  BY <1>1 DEF Range
<1>5. KeepsOrder(q, p)
  BY <1>1 DEF KeepsOrder, Before
<1> QED BY <1>1, <1>3, <1>4, <1>5 DEF p

(* A queue without the person at position k. *)
LEMMA WithoutOne ==
    ASSUME NEW S, NEW q \in Seq(S), IsInjective(q), NEW k \in 1..Len(q), NEW p,
           DOMAIN p = 1..(Len(q) - 1),
           \A i \in 1..(k - 1) : p[i] = q[i],
           \A i \in k..(Len(q) - 1) : p[i] = q[i + 1]
    PROVE  IsInjective(p) /\ Range(p) = Range(q) \ {q[k]} /\ KeepsOrder(q, p)
<1> DEFINE h == [i \in 1..(Len(q) - 1) |-> IF i < k THEN i ELSE i + 1]
           D == 1..(Len(q) - 1)
           E == 1..Len(q)
<1>1. Len(q) \in Nat /\ DOMAIN q = E /\ DOMAIN p = D /\ k \in E
  BY LenProperties
<1>2. \A i \in D : h[i] \in E \ {k}
  BY <1>1
<1>3. \A i, j \in D : h[i] = h[j] => i = j
  BY <1>1
<1>4. ASSUME NEW j \in E \ {k} PROVE \E i \in D : h[i] = j
  <2>1. CASE j < k
    <3>1. j \in D /\ h[j] = j
      BY <1>1, <2>1
    <3> QED BY <3>1
  <2>2. CASE j > k
    <3>1. j - 1 \in D /\ h[j - 1] = j
      BY <1>1, <2>2
    <3> QED BY <3>1
  <2> QED BY <1>1, <2>1, <2>2
<1>5. \A i \in D : p[i] = q[h[i]]
  BY <1>1
<1> HIDE DEF h, D, E
<1>6. IsInjective(p)
  BY <1>1, <1>2, <1>3, <1>5, SMTT(30) DEF IsInjective
<1>7. \A i \in D : p[i] \in Range(q) /\ p[i] # q[k]
  BY <1>1, <1>2, <1>5 DEF IsInjective, Range
<1>8. ASSUME NEW j \in E \ {k} PROVE q[j] \in Range(p)
  <2>1. PICK i \in D : h[i] = j
    BY <1>4
  <2>2. p[i] = q[j] /\ i \in DOMAIN p
    BY <1>1, <1>5, <2>1
  <2> QED BY <2>2 DEF Range
<1>9. Range(p) = Range(q) \ {q[k]}
  BY <1>1, <1>7, <1>8 DEF Range
<1>10. KeepsOrder(q, p)
  <2> SUFFICES ASSUME NEW i \in 1..Len(q), NEW j \in 1..Len(q), i < j,
                      q[i] \in Range(p), q[j] \in Range(p)
               PROVE  Before(p, q[i], q[j])
    BY <1>1 DEF KeepsOrder, Before, E
  <2> DEFINE g(n) == IF n < k THEN n ELSE n - 1
  <2>1. i # k /\ j # k
    BY <1>9
  <2>2. g(i) \in 1..(Len(q) - 1) /\ g(j) \in 1..(Len(q) - 1) /\ g(i) < g(j)
    BY <1>1, <2>1
  <2>3. p[g(i)] = q[i] /\ p[g(j)] = q[j]
    BY <1>1, <2>1
  <2> QED BY <2>2, <2>3 DEF Before
<1> QED BY <1>6, <1>9, <1>10

LEMMA TailFacts ==
    ASSUME NEW S, NEW q \in Seq(S), IsInjective(q), q # <<>>
    PROVE  /\ Head(q) \in Range(q) /\ Head(q) \in S
           /\ Tail(q) \in Seq(S) /\ IsInjective(Tail(q))
           /\ Range(Tail(q)) = Range(q) \ {Head(q)} /\ KeepsOrder(q, Tail(q))
<1>1. Len(q) \in Nat /\ Len(q) >= 1 /\ DOMAIN q = 1..Len(q)
  BY EmptySeq, LenProperties
<1>2. /\ Tail(q) \in Seq(S) /\ Len(Tail(q)) = Len(q) - 1
      /\ \A i \in 1..Len(Tail(q)) : Tail(q)[i] = q[i + 1]
  BY HeadTailProperties
<1>3. DOMAIN Tail(q) = 1..(Len(q) - 1)
  BY <1>2, LenProperties
<1>4. Head(q) = q[1]
  BY <1>1
<1>5. IsInjective(Tail(q)) /\ Range(Tail(q)) = Range(q) \ {q[1]} /\ KeepsOrder(q, Tail(q))
  <2> DEFINE p == Tail(q)
  <2>1. DOMAIN p = 1..(Len(q) - 1) /\ \A i \in 1..(Len(q) - 1) : p[i] = q[i + 1]
    BY <1>2, <1>3
  <2> HIDE DEF p
  <2>2. 1 \in 1..Len(q) /\ 1..(1 - 1) = {}
    BY <1>1
  <2>3. IsInjective(p) /\ Range(p) = Range(q) \ {q[1]} /\ KeepsOrder(q, p)
    BY <2>1, <2>2, WithoutOne
  <2> QED BY <2>3 DEF p
<1>6. q[1] \in Range(q) /\ q[1] \in S
  BY <1>1, ElementOfSeq DEF Range
<1> QED BY <1>2, <1>4, <1>5, <1>6

LEMMA RemoveAtFacts ==
    ASSUME NEW S, NEW q \in Seq(S), IsInjective(q), NEW k \in DOMAIN q
    PROVE  /\ RemoveAt(q, k) \in Seq(S) /\ IsInjective(RemoveAt(q, k))
           /\ Range(RemoveAt(q, k)) = Range(q) \ {q[k]} /\ KeepsOrder(q, RemoveAt(q, k))
<1> DEFINE a == SubSeq(q, 1, k - 1)
           c == SubSeq(q, k + 1, Len(q))
           p == RemoveAt(q, k)
<1>1. Len(q) \in Nat /\ DOMAIN q = 1..Len(q) /\ k \in 1..Len(q)
  BY LenProperties
<1>2. a \in Seq(S) /\ Len(a) = k - 1 /\ \A i \in 1..(k - 1) : a[i] = q[i]
  <2>1. \A i \in 1..(k - 1) : q[i] \in S
    BY <1>1, ElementOfSeq
  <2> QED BY <1>1, <2>1, SubSeqProperties
<1>3. c \in Seq(S) /\ Len(c) = Len(q) - k /\ \A i \in 1..(Len(q) - k) : c[i] = q[i + k]
  <2>1. \A i \in (k + 1)..Len(q) : q[i] \in S
    BY <1>1, ElementOfSeq
  <2> QED BY <1>1, <2>1, SubSeqProperties
<1>4. p = a \o c
  BY DEF RemoveAt
<1> HIDE DEF a, c, p
<1>5. /\ p \in Seq(S) /\ Len(p) = Len(q) - 1
      /\ \A i \in 1..(Len(q) - 1) : p[i] = IF i <= k - 1 THEN a[i] ELSE c[i - (k - 1)]
  <2>1. /\ a \o c \in Seq(S) /\ Len(a \o c) = Len(a) + Len(c)
        /\ \A i \in 1..(Len(a) + Len(c)) :
              (a \o c)[i] = IF i <= Len(a) THEN a[i] ELSE c[i - Len(a)]
    BY <1>2, <1>3, ConcatProperties
  <2>2. Len(a) = k - 1 /\ Len(a) + Len(c) = Len(q) - 1
    BY <1>1, <1>2, <1>3
  <2> QED BY <1>4, <2>1, <2>2
<1>6. DOMAIN p = 1..(Len(q) - 1)
  BY <1>5, LenProperties
<1>7. \A i \in 1..(k - 1) : p[i] = q[i]
  BY <1>1, <1>2, <1>5, SMTT(30)
<1>8. ASSUME NEW i \in k..(Len(q) - 1) PROVE p[i] = q[i + 1]
  <2>1. i \in 1..(Len(q) - 1) /\ ~(i <= k - 1)
        /\ i - (k - 1) \in 1..(Len(q) - k) /\ (i - (k - 1)) + k = i + 1
    BY <1>1
  <2> QED BY <1>3, <1>5, <2>1
<1>9. IsInjective(p) /\ Range(p) = Range(q) \ {q[k]} /\ KeepsOrder(q, p)
  BY <1>1, <1>6, <1>7, <1>8, WithoutOne
<1> QED BY <1>5, <1>9 DEF p

LEMMA OnceCounts ==
    ASSUME NEW S, NEW q \in Seq(S), IsInjective(q)
    PROVE  Cardinality(Range(q)) = Len(q)
<1>1. Len(q) \in Nat /\ DOMAIN q = 1..Len(q) /\ Range(q) = {q[i] : i \in 1..Len(q)}
      /\ q \in [1..Len(q) -> Range(q)]
  BY LenProperties DEF Range
<1>2. q \in Bijection(1..Len(q), Range(q))
  BY <1>1 DEF IsInjective, Bijection, Injection, Surjection
<1>3. ExistsBijection(1..Len(q), Range(q))
  BY <1>2 DEF ExistsBijection
<1>4. IsFiniteSet(Range(q))
  BY <1>1, <1>3, FS_NatBijection
<1> QED BY <1>1, <1>3, <1>4, FS_CountingElements

-----------------------------------------------------------------------------
(* The inductive invariant. *)

(* The pool and its queue are those of the writers and requests. *)
PoolInv ==
    /\ IsFiniteSet(conns) /\ conns = Holding
    /\ phase # "exited" => IsInjective(queue) /\ Range(queue) = Waiting

(* Where Service.Run is: no request but while it serves or drains, unless   *)
(* the requests were given up.                                             *)
RunInv ==
    /\ listening => phase = "serving"
    /\ closed => phase \in {"closing", "exited"}
    /\ \A r \in Requests :
          /\ request[r] # "idle" => timedOut \/ phase \in {"serving", "draining"}
          /\ request[r] \in {"refused", "gone"} => timedOut
          /\ request[r] \in {"wait", "query"} => left[r] >= 1

IInv == TypeOK /\ PoolInv /\ RunInv

LEMMA InitHolds == Init => IInv
<1> SUFFICES ASSUME Init PROVE IInv
  OBVIOUS
<1>1. TypeOK
  <2>1. Cardinality({}) = 0 /\ MaxConns \in Nat /\ MaxFaults \in Nat /\ Statements \in Nat
    BY ServiceAssumption, FS_EmptySet
  <2>2. conns \subseteq Writers \cup Requests /\ Cardinality(conns) <= MaxConns
        /\ faults \in 0..MaxFaults /\ left \in [Requests -> 0..Statements]
    BY <2>1 DEF Init
  <2>3. {cancelled, listening, timedOut, closed} \subseteq BOOLEAN
    BY DEF Init
  <2> QED BY <2>2, <2>3 DEF Init, TypeOK
<1>2. IsFiniteSet(conns) /\ conns = Holding /\ Waiting = {}
  BY FS_EmptySet DEF Init, Holding, Waiting
<1>3. IsInjective(queue) /\ Range(queue) = {}
  BY DEF Init, IsInjective, Range
<1>4. RunInv
  BY DEF Init, RunInv
<1> QED BY <1>1, <1>2, <1>3, <1>4 DEF IInv, PoolInv

(* How the state of one person changes who holds and who waits. *)
LEMMA OneWriter ==
    ASSUME TypeOK, NEW w \in Writers, NEW v \in {"off", "wait", "pinned", "done"},
           writer' = [writer EXCEPT ![w] = v], request' = request
    PROVE  /\ Holding' = IF v = "pinned" THEN Holding \cup {w} ELSE Holding \ {w}
           /\ Waiting' = IF v = "wait" THEN Waiting \cup {w} ELSE Waiting \ {w}
<1>1. writer'[w] = v /\ \A x \in Writers \ {w} : writer'[x] = writer[x]
  BY DEF TypeOK
<1>2. w \notin Requests
  BY ServiceAssumption
<1> QED BY <1>1, <1>2 DEF Holding, Waiting

LEMMA OneRequest ==
    ASSUME TypeOK, NEW r \in Requests,
           NEW v \in {"idle", "wait", "query", "refused", "gone"},
           request' = [request EXCEPT ![r] = v], writer' = writer
    PROVE  /\ Holding' = IF v = "query" THEN Holding \cup {r} ELSE Holding \ {r}
           /\ Waiting' = IF v = "wait" THEN Waiting \cup {r} ELSE Waiting \ {r}
<1>1. request'[r] = v /\ \A x \in Requests \ {r} : request'[x] = request[x]
  BY DEF TypeOK
<1>2. r \notin Writers
  BY ServiceAssumption
<1> QED BY <1>1, <1>2 DEF Holding, Waiting

(* The steps of the pool: someone begins to wait, stops, or is served. *)
LEMMA WaitFacts ==
    ASSUME TypeOK, PoolInv, phase # "exited", NEW x \in People, x \notin Waiting,
           queue' = Append(queue, x)
    PROVE  /\ queue' \in Seq(People) /\ IsInjective(queue')
           /\ Range(queue') = Waiting \cup {x}
BY AppendFacts DEF TypeOK, PoolInv, People

LEMMA LeaveFacts ==
    ASSUME TypeOK, PoolInv, phase # "exited", NEW x, Leave(x)
    PROVE  /\ queue' \in Seq(People) /\ IsInjective(queue')
           /\ Range(queue') = Waiting \ {x}
<1>1. queue \in Seq(People) /\ IsInjective(queue) /\ Range(queue) = Waiting
  BY DEF TypeOK, PoolInv, People
<1>2. CASE x \in Range(queue)
  <2>1. PICK i \in DOMAIN queue : queue[i] = x /\ queue' = RemoveAt(queue, i)
    BY <1>2 DEF Leave
  <2> QED BY <1>1, <2>1, RemoveAtFacts
<1>3. CASE x \notin Range(queue)
  BY <1>1, <1>3 DEF Leave
<1> QED BY <1>2, <1>3

LEMMA ReleaseFacts ==
    ASSUME TypeOK, PoolInv, NEW x, Release(x)
    PROVE  /\ IsFiniteSet(conns') /\ Cardinality(conns') <= MaxConns
           /\ conns' = Holding \ {x} /\ conns' \subseteq People
<1>1. IsFiniteSet(conns) /\ conns = Holding /\ Cardinality(conns) <= MaxConns
      /\ conns \subseteq People
  BY DEF TypeOK, PoolInv, People
<1>2. Cardinality(conns) \in Nat /\ MaxConns \in Nat
  BY <1>1, FS_CardinalityType, ServiceAssumption
<1>3. IsFiniteSet(conns \ {x}) /\ Cardinality(conns \ {x}) <= MaxConns
  BY <1>1, <1>2, FS_RemoveElement
<1> QED BY <1>1, <1>3 DEF Release

LEMMA GrantFacts ==
    ASSUME TypeOK, PoolInv, phase # "exited", Grant
    PROVE  /\ writer' \in [Writers -> {"off", "wait", "pinned", "done"}]
           /\ request' \in [Requests -> {"idle", "wait", "query", "refused", "gone"}]
           /\ \A r \in Requests : request'[r] # request[r]
                                     => request[r] = "wait" /\ request'[r] = "query"
           /\ IsFiniteSet(conns') /\ Cardinality(conns') <= MaxConns /\ conns' \subseteq People
           /\ conns' = Holding'
           /\ queue' \in Seq(People) /\ IsInjective(queue') /\ Range(queue') = Waiting'
<1> DEFINE x == Head(queue)
<1>1. queue \in Seq(People) /\ IsInjective(queue) /\ Range(queue) = Waiting /\ queue # <<>>
  BY DEF TypeOK, PoolInv, People, Grant
<1>2. /\ x \in Waiting /\ x \in People
      /\ Tail(queue) \in Seq(People) /\ IsInjective(Tail(queue))
      /\ Range(Tail(queue)) = Waiting \ {x}
  BY <1>1, TailFacts
<1> HIDE DEF x
<1>3. /\ conns' = conns \cup {x} /\ queue' = Tail(queue)
      /\ writer' = [w \in Writers |-> IF w = x THEN "pinned" ELSE writer[w]]
      /\ request' = [r \in Requests |-> IF r = x THEN "query" ELSE request[r]]
      /\ Cardinality(conns) < MaxConns
  BY DEF Grant, Free, x
<1>4. IsFiniteSet(conns') /\ Cardinality(conns') <= MaxConns /\ conns' \subseteq People
  <2>1. IsFiniteSet(conns) /\ conns \subseteq People
    BY DEF TypeOK, PoolInv, People
  <2>2. Cardinality(conns) \in Nat /\ MaxConns \in Nat
    BY <2>1, FS_CardinalityType, ServiceAssumption
  <2>3. IsFiniteSet(conns \cup {x}) /\ Cardinality(conns \cup {x}) <= MaxConns
    <3>1. /\ IsFiniteSet(conns \cup {x})
          /\ Cardinality(conns \cup {x}) \in {Cardinality(conns), Cardinality(conns) + 1}
      BY <2>1, FS_AddElement
    <3> QED BY <1>3, <2>2, <3>1
  <2> QED BY <1>2, <1>3, <2>1, <2>3
<1>5. \A r \in Requests : request'[r] # request[r] => request[r] = "wait" /\ request'[r] = "query"
  BY <1>2, <1>3, ServiceAssumption DEF Waiting
<1>6. /\ writer' \in [Writers -> {"off", "wait", "pinned", "done"}]
      /\ request' \in [Requests -> {"idle", "wait", "query", "refused", "gone"}]
  BY <1>3 DEF TypeOK
<1>7. Holding' = Holding \cup {x} /\ Waiting' = Waiting \ {x}
  BY <1>2, <1>3 DEF Holding, Waiting, People
<1>8. conns' = Holding'
  BY <1>3, <1>7 DEF PoolInv
<1> QED BY <1>2, <1>3, <1>4, <1>5, <1>6, <1>7, <1>8

-----------------------------------------------------------------------------
(* Every step keeps the invariant. *)

LEMMA RunStep == IInv /\ phase # "exited" /\ (Run \/ Grant) => IInv'
<1> SUFFICES ASSUME IInv, phase # "exited", Run \/ Grant PROVE IInv'
  OBVIOUS
<1> USE DEF IInv
(* Steps of Service.Run that leave the pool and those who use it alone. *)
<1>1. ASSUME UNCHANGED <<writer, reqVars, poolVars>>, RunInv',
             phase' \in {"connect", "migrate", "listen", "serving", "draining", "waiting",
                         "closing", "exited"},
             cancelled' \in BOOLEAN, listening' \in BOOLEAN, timedOut' \in BOOLEAN,
             closed' \in BOOLEAN, faults' \in 0..MaxFaults
      PROVE  IInv'
  <2>1. TypeOK'
    BY <1>1 DEF TypeOK, reqVars, poolVars
  <2>2. PoolInv'
    BY <1>1 DEF PoolInv, Holding, Waiting, reqVars, poolVars
  <2> QED BY <1>1, <2>1, <2>2
<1>2. /\ cancelled \in BOOLEAN /\ listening \in BOOLEAN /\ timedOut \in BOOLEAN /\ closed \in BOOLEAN
      /\ faults \in 0..MaxFaults /\ (Fault => faults' \in 0..MaxFaults)
  BY ServiceAssumption DEF TypeOK, Fault
<1>3. ASSUME Connect \/ ConnectFails \/ Migrate \/ StartFails \/ Launch \/ ServerFails \/ Shutdown
             \/ Drained \/ DrainTimesOut \/ PipelineEnded
      PROVE  IInv'
  <2>1. UNCHANGED <<writer, reqVars, poolVars>>
    BY <1>3 DEF Connect, ConnectFails, Migrate, StartFails, Launch, ServerFails, Shutdown,
                Drained, DrainTimesOut, PipelineEnded
  <2>2. /\ phase' \in {"connect", "migrate", "listen", "serving", "draining", "waiting",
                       "closing", "exited"}
        /\ cancelled' \in BOOLEAN /\ listening' \in BOOLEAN /\ timedOut' \in BOOLEAN
        /\ closed' \in BOOLEAN /\ faults' \in 0..MaxFaults
    BY <1>2, <1>3 DEF Connect, ConnectFails, Migrate, StartFails, Launch, ServerFails, Shutdown,
                      Drained, DrainTimesOut, PipelineEnded, Return
  <2>3. request' = request /\ left' = left
    BY <2>1 DEF reqVars
  <2>4. RunInv'
    <3>1. CASE Connect \/ Migrate \/ Launch
      BY <2>3, <3>1 DEF RunInv, Connect, Migrate, Launch
    <3>2. CASE ConnectFails \/ StartFails
      BY <2>3, <3>2 DEF RunInv, ConnectFails, StartFails, Return
    <3>3. CASE ServerFails
      BY <2>3, <3>3 DEF RunInv, ServerFails
    <3>4. CASE Shutdown \/ Drained \/ DrainTimesOut
      BY <2>3, <3>4 DEF RunInv, Shutdown, Drained, DrainTimesOut
    <3>5. CASE PipelineEnded
      BY <2>3, <3>5 DEF RunInv, PipelineEnded, Return
    <3> QED BY <1>3, <3>1, <3>2, <3>3, <3>4, <3>5
  <2> QED BY <1>1, <2>1, <2>2, <2>4
<1>4. ASSUME Exit PROVE IInv'
  <2>1. /\ phase = "closing" /\ phase' = "exited" /\ queue' = <<>> /\ conns = {} /\ conns' = conns
        /\ request' = [r \in Requests |-> IF request[r] = "idle" THEN "idle" ELSE "gone"]
        /\ UNCHANGED <<cancelled, listening, timedOut, writer, left, closed, faults>>
    BY <1>4 DEF Exit
  <2>2. TypeOK'
    BY <2>1 DEF TypeOK
  <2>3. PoolInv'
    BY <2>1 DEF PoolInv, Holding
  <2>4. RunInv'
    BY <2>1 DEF RunInv
  <2> QED BY <2>2, <2>3, <2>4
<1>5. ASSUME Grant PROVE IInv'
  <2>1. UNCHANGED <<phase, listening, timedOut, cancelled, left, closed, faults>>
    BY <1>5 DEF Grant, runVars
  <2>2. TypeOK'
    BY <1>5, <2>1, GrantFacts DEF TypeOK, People
  <2>3. PoolInv'
    BY <1>5, <2>1, GrantFacts DEF PoolInv
  <2>4. RunInv'
    BY <1>5, <2>1, GrantFacts DEF RunInv
  <2> QED BY <2>2, <2>3, <2>4
<1> QED BY <1>3, <1>4, <1>5 DEF Run

LEMMA WriterStep ==
    ASSUME IInv, phase # "exited", NEW w \in Writers, Writer(w)
    PROVE  IInv'
<1> USE DEF IInv
<1>1. UNCHANGED <<phase, listening, timedOut, request, left, closed>>
  BY DEF Writer, WriterAcquires, WriterGivesUp, WriterReturns, runVars, reqVars
<1>2. RunInv'
  BY <1>1 DEF RunInv
<1>3. /\ faults' \in 0..MaxFaults /\ cancelled' \in BOOLEAN /\ closed' \in BOOLEAN
      /\ listening' \in BOOLEAN /\ timedOut' \in BOOLEAN
  <2>1. closed' \in BOOLEAN /\ listening' \in BOOLEAN /\ timedOut' \in BOOLEAN
        /\ cancelled \in BOOLEAN /\ faults \in 0..MaxFaults /\ MaxFaults \in Nat
    BY <1>1, ServiceAssumption DEF TypeOK
  <2>2. cancelled' = cancelled \/ cancelled' = TRUE
    BY DEF Writer, WriterAcquires, WriterGivesUp, WriterReturns
  <2>3. faults' = faults \/ Fault
    BY DEF Writer, WriterAcquires, WriterGivesUp, WriterReturns
  <2>4. faults' \in 0..MaxFaults
    BY <2>1, <2>3 DEF Fault
  <2>5. cancelled' \in BOOLEAN
    BY <2>1, <2>2
  <2> QED BY <2>1, <2>4, <2>5
<1>4. ASSUME NEW v \in {"off", "wait", "pinned", "done"}, writer' = [writer EXCEPT ![w] = v],
             conns' \subseteq People, Cardinality(conns') <= MaxConns, queue' \in Seq(People)
      PROVE  TypeOK'
  BY <1>1, <1>3, <1>4 DEF TypeOK, People
<1>5. w \in People /\ w \notin Requests /\ conns = Holding /\ IsFiniteSet(conns)
      /\ conns \subseteq People /\ Cardinality(conns) <= MaxConns /\ queue \in Seq(People)
      /\ IsInjective(queue) /\ Range(queue) = Waiting
  BY ServiceAssumption DEF People, PoolInv, TypeOK
<1>6. CASE WriterAcquires(w)
  <2>1. /\ writer[w] = "off" /\ writer' = [writer EXCEPT ![w] = "wait"]
        /\ queue' = Append(queue, w) /\ conns' = conns
    BY <1>6 DEF WriterAcquires, Wait
  <2>2. w \notin Waiting /\ w \notin Holding
    BY <1>5, <2>1 DEF Waiting, Holding
  <2>3. Holding' = Holding /\ Waiting' = Waiting \cup {w}
    <3>1. Holding' = Holding \ {w} /\ Waiting' = Waiting \cup {w}
      BY <1>1, <2>1, <2>2, OneWriter
    <3> QED BY <3>1, <2>1, <2>2
  <2>4. queue' \in Seq(People) /\ IsInjective(queue') /\ Range(queue') = Waiting \cup {w}
    BY <1>5, <2>1, <2>2, WaitFacts
  <2>5. TypeOK'
    BY <1>4, <1>5, <2>1, <2>4
  <2>6. PoolInv'
    BY <1>5, <2>1, <2>3, <2>4 DEF PoolInv
  <2> QED BY <1>2, <2>5, <2>6
<1>7. CASE WriterGivesUp(w)
  <2>1. /\ writer[w] = "wait" /\ writer' = [writer EXCEPT ![w] = "done"]
        /\ Leave(w) /\ conns' = conns
    BY <1>7 DEF WriterGivesUp
  <2>2. w \notin Holding
    BY <1>5, <2>1 DEF Holding
  <2>3. Holding' = Holding /\ Waiting' = Waiting \ {w}
    <3>1. Holding' = Holding \ {w} /\ Waiting' = Waiting \ {w}
      BY <1>1, <2>1, <2>2, OneWriter
    <3> QED BY <3>1, <2>1, <2>2
  <2>4. queue' \in Seq(People) /\ IsInjective(queue') /\ Range(queue') = Waiting \ {w}
    BY <2>1, LeaveFacts
  <2>5. TypeOK'
    BY <1>4, <1>5, <2>1, <2>4
  <2>6. PoolInv'
    BY <1>5, <2>1, <2>3, <2>4 DEF PoolInv
  <2> QED BY <1>2, <2>5, <2>6
<1>8. CASE WriterReturns(w)
  <2>1. /\ writer[w] = "pinned" /\ writer' = [writer EXCEPT ![w] = "done"]
        /\ Release(w) /\ queue' = queue
    BY <1>8 DEF WriterReturns
  <2>2. w \notin Waiting
    BY <1>5, <2>1 DEF Waiting
  <2>3. Holding' = Holding \ {w} /\ Waiting' = Waiting
    <3>1. Holding' = Holding \ {w} /\ Waiting' = Waiting \ {w}
      BY <1>1, <2>1, <2>2, OneWriter
    <3> QED BY <3>1, <2>1, <2>2
  <2>4. /\ IsFiniteSet(conns') /\ Cardinality(conns') <= MaxConns
        /\ conns' = Holding \ {w} /\ conns' \subseteq People
    BY <2>1, ReleaseFacts
  <2>5. TypeOK'
    BY <1>4, <1>5, <2>1, <2>4
  <2>6. PoolInv'
    BY <1>5, <2>1, <2>3, <2>4 DEF PoolInv
  <2> QED BY <1>2, <2>5, <2>6
<1> QED BY <1>6, <1>7, <1>8 DEF Writer

LEMMA RequestStep ==
    ASSUME IInv, phase # "exited", NEW r \in Requests, Request(r)
    PROVE  IInv'
<1> USE DEF IInv
<1>1. UNCHANGED <<phase, listening, timedOut, writer, cancelled, closed>>
  BY DEF Request, Accept, StatementEnds, StatementFails, ClientLeaves, Refuse, runVars
<1>2. r \in People /\ r \notin Writers /\ conns = Holding /\ IsFiniteSet(conns)
      /\ conns \subseteq People /\ Cardinality(conns) <= MaxConns /\ queue \in Seq(People)
      /\ IsInjective(queue) /\ Range(queue) = Waiting
  BY ServiceAssumption DEF People, PoolInv, TypeOK
(* What is left to show of a step is what it does to the request, ...      *)
<1>3. ASSUME NEW v \in {"idle", "wait", "query", "refused", "gone"},
             request' = [request EXCEPT ![r] = v],
             NEW n \in 0..Statements, left' = [left EXCEPT ![r] = n],
             faults' \in 0..MaxFaults,
             conns' \subseteq People, Cardinality(conns') <= MaxConns, queue' \in Seq(People)
      PROVE  TypeOK'
  BY <1>1, <1>3 DEF TypeOK, People
<1>4. ASSUME NEW v \in {"idle", "wait", "query", "refused", "gone"},
             request' = [request EXCEPT ![r] = v],
             v # "idle" => timedOut \/ phase \in {"serving", "draining"},
             v \in {"refused", "gone"} => timedOut,
             NEW n \in 0..Statements, left' = [left EXCEPT ![r] = n], v \in {"wait", "query"} => n >= 1
      PROVE  RunInv'
  <2>1. /\ request'[r] = v /\ \A x \in Requests \ {r} : request'[x] = request[x]
        /\ left'[r] = n /\ \A x \in Requests \ {r} : left'[x] = left[x]
    BY <1>4 DEF TypeOK
  <2> QED BY <1>1, <1>4, <2>1 DEF RunInv
(* ... to the pool and to its queue.                                       *)
<1>5. ASSUME IsFiniteSet(conns'), conns' = Holding', IsInjective(queue'), Range(queue') = Waiting'
      PROVE  PoolInv'
  BY <1>5 DEF PoolInv
<1>6. request[r] # "idle" => timedOut \/ phase \in {"serving", "draining"}
  BY DEF RunInv
<1>7. faults \in 0..MaxFaults /\ MaxFaults \in Nat /\ (Fault => faults' \in 0..MaxFaults)
      /\ Statements \in Nat /\ 0 \in 0..Statements /\ left[r] \in 0..Statements
  BY ServiceAssumption DEF TypeOK, Fault
<1>8. CASE Accept(r)
  <2>1. PICK n \in 1..Statements : left' = [left EXCEPT ![r] = n]
    BY <1>8 DEF Accept
  <2>2. /\ listening /\ request[r] = "idle" /\ request' = [request EXCEPT ![r] = "wait"]
        /\ queue' = Append(queue, r) /\ conns' = conns /\ faults' = faults
    BY <1>8 DEF Accept, Wait
  <2>3. r \notin Waiting /\ r \notin Holding
    BY <1>2, <2>2 DEF Waiting, Holding
  <2>4. Holding' = Holding /\ Waiting' = Waiting \cup {r}
    <3>1. Holding' = Holding \ {r} /\ Waiting' = Waiting \cup {r}
      BY <1>1, <2>2, <2>3, OneRequest
    <3> QED BY <3>1, <2>2, <2>3
  <2>5. queue' \in Seq(People) /\ IsInjective(queue') /\ Range(queue') = Waiting \cup {r}
    BY <1>2, <2>2, <2>3, WaitFacts
  <2>6. n \in 0..Statements
    BY <1>7, <2>1
  <2>7. TypeOK'
    BY <1>2, <1>3, <1>7, <2>1, <2>2, <2>5, <2>6
  <2>8. RunInv'
    <3>1. phase = "serving" /\ n >= 1
      BY <2>1, <2>2 DEF RunInv
    <3> QED BY <1>4, <2>1, <2>2, <2>6, <3>1
  <2>9. PoolInv'
    BY <1>2, <1>5, <2>2, <2>4, <2>5
  <2> QED BY <2>7, <2>8, <2>9
<1>9. CASE StatementEnds(r)
  <2>1. /\ request[r] = "query" /\ Release(r) /\ faults' = faults
        /\ left' = [left EXCEPT ![r] = left[r] - 1]
    BY <1>9 DEF StatementEnds
  <2>2. r \notin Waiting
    BY <1>2, <2>1 DEF Waiting
  <2>3. /\ IsFiniteSet(conns') /\ Cardinality(conns') <= MaxConns
        /\ conns' = Holding \ {r} /\ conns' \subseteq People
    BY <2>1, ReleaseFacts
  <2>4. CASE left[r] > 1
    <3>1. request' = [request EXCEPT ![r] = "wait"] /\ queue' = Append(queue, r)
      BY <1>9, <2>4 DEF StatementEnds
    <3>2. Holding' = Holding \ {r} /\ Waiting' = Waiting \cup {r}
      BY <1>1, <2>2, <3>1, OneRequest
    <3>3. queue' \in Seq(People) /\ IsInjective(queue') /\ Range(queue') = Waiting \cup {r}
      BY <1>2, <2>2, <3>1, WaitFacts
    <3>4. left[r] - 1 \in 0..Statements
      BY <1>7, <2>4
    <3>5. TypeOK'
      BY <1>3, <1>7, <2>1, <2>3, <3>1, <3>3, <3>4
    <3>6. RunInv'
      <4>1. left[r] - 1 >= 1
        BY <1>7, <2>4
      <4> QED BY <1>4, <1>6, <2>1, <3>1, <3>4, <4>1
    <3>7. PoolInv'
      BY <1>5, <2>3, <3>2, <3>3
    <3> QED BY <3>5, <3>6, <3>7
  <2>5. CASE ~(left[r] > 1)
    <3>1. request' = [request EXCEPT ![r] = "idle"] /\ queue' = queue
      BY <1>9, <2>5 DEF StatementEnds
    <3>2. Holding' = Holding \ {r} /\ Waiting' = Waiting
      <4>1. Holding' = Holding \ {r} /\ Waiting' = Waiting \ {r}
        BY <1>1, <2>2, <3>1, OneRequest
      <4> QED BY <4>1, <2>2, <3>1
    <3>3. left[r] >= 1
      BY <2>1 DEF RunInv
    <3>4. left[r] - 1 \in 0..Statements
      BY <1>7, <3>3
    <3>5. TypeOK'
      BY <1>2, <1>3, <1>7, <2>1, <2>3, <3>1, <3>4
    <3>6. RunInv'
      BY <1>4, <2>1, <3>1, <3>4
    <3>7. PoolInv'
      BY <1>2, <1>5, <2>3, <3>1, <3>2
    <3> QED BY <3>5, <3>6, <3>7
  <2> QED BY <2>4, <2>5
<1>10. CASE StatementFails(r)
  <2>1. /\ request[r] = "query" /\ Release(r) /\ Fault /\ queue' = queue
        /\ request' = [request EXCEPT ![r] = "idle"] /\ left' = [left EXCEPT ![r] = 0]
    BY <1>10 DEF StatementFails
  <2>2. r \notin Waiting
    BY <1>2, <2>1 DEF Waiting
  <2>3. /\ IsFiniteSet(conns') /\ Cardinality(conns') <= MaxConns
        /\ conns' = Holding \ {r} /\ conns' \subseteq People
    BY <2>1, ReleaseFacts
  <2>4. Holding' = Holding \ {r} /\ Waiting' = Waiting
    <3>1. Holding' = Holding \ {r} /\ Waiting' = Waiting \ {r}
      BY <1>1, <2>1, <2>2, OneRequest
    <3> QED BY <3>1, <2>1, <2>2
  <2>5. TypeOK'
    BY <1>2, <1>3, <1>7, <2>1, <2>3
  <2>6. RunInv'
    BY <1>4, <1>7, <2>1
  <2>7. PoolInv'
    BY <1>2, <1>5, <2>1, <2>3, <2>4
  <2> QED BY <2>5, <2>6, <2>7
<1>11. CASE ClientLeaves(r)
  <2>1. /\ Release(r) /\ Leave(r) /\ faults' = faults
        /\ request' = [request EXCEPT ![r] = "idle"] /\ left' = [left EXCEPT ![r] = 0]
    BY <1>11 DEF ClientLeaves
  <2>2. /\ IsFiniteSet(conns') /\ Cardinality(conns') <= MaxConns
        /\ conns' = Holding \ {r} /\ conns' \subseteq People
    BY <2>1, ReleaseFacts
  <2>3. queue' \in Seq(People) /\ IsInjective(queue') /\ Range(queue') = Waiting \ {r}
    BY <2>1, LeaveFacts
  <2>4. Holding' = Holding \ {r} /\ Waiting' = Waiting \ {r}
    BY <1>1, <2>1, OneRequest
  <2>5. TypeOK'
    BY <1>3, <1>7, <2>1, <2>2, <2>3
  <2>6. RunInv'
    BY <1>4, <1>7, <2>1
  <2>7. PoolInv'
    BY <1>5, <2>2, <2>3, <2>4
  <2> QED BY <2>5, <2>6, <2>7
<1>12. CASE Refuse(r)
  <2>1. /\ request[r] = "wait" /\ closed /\ Leave(r) /\ conns' = conns /\ faults' = faults
        /\ request' = [request EXCEPT ![r] = "refused"] /\ left' = [left EXCEPT ![r] = 0]
    BY <1>12 DEF Refuse
  <2>2. r \notin Holding
    BY <1>2, <2>1 DEF Holding
  <2>3. queue' \in Seq(People) /\ IsInjective(queue') /\ Range(queue') = Waiting \ {r}
    BY <2>1, LeaveFacts
  <2>4. Holding' = Holding /\ Waiting' = Waiting \ {r}
    <3>1. Holding' = Holding \ {r} /\ Waiting' = Waiting \ {r}
      BY <1>1, <2>1, <2>2, OneRequest
    <3> QED BY <3>1, <2>1, <2>2
  <2>5. TypeOK'
    BY <1>2, <1>3, <1>7, <2>1, <2>3
  <2>6. timedOut
    BY <1>6, <2>1 DEF RunInv
  <2>7. RunInv'
    BY <1>4, <1>7, <2>1, <2>6
  <2>8. PoolInv'
    BY <1>2, <1>5, <2>1, <2>3, <2>4
  <2> QED BY <2>5, <2>7, <2>8
<1> QED BY <1>8, <1>9, <1>10, <1>11, <1>12 DEF Request

LEMMA StepKeeps == IInv /\ [Next]_vars => IInv'
<1> SUFFICES ASSUME IInv, [Next]_vars PROVE IInv'
  OBVIOUS
<1>1. CASE UNCHANGED vars
  BY <1>1 DEF vars, runVars, reqVars, poolVars, IInv, TypeOK, PoolInv, RunInv, Holding, Waiting
<1>2. CASE Next
  BY <1>2, RunStep, WriterStep, RequestStep DEF Next
<1> QED BY <1>1, <1>2

-----------------------------------------------------------------------------
(* The theorems. *)

THEOREM Invariance == Spec => []IInv
BY InitHolds, StepKeeps, PTL DEF Spec

(* The variables keep their types, and the pool never exceeds its maximum.  *)
THEOREM TypeCorrect == Spec => []TypeOK
<1>1. IInv => TypeOK
  BY DEF IInv
<1> QED BY <1>1, Invariance, PTL

(* No connection leaks, however writers and handlers end, for every size of *)
(* the pool and every number of those who share it.                        *)
THEOREM ConnectionsDoNotLeak == Spec => []NoConnectionLeaks
<1>1. IInv => NoConnectionLeaks
  <2> SUFFICES ASSUME IInv PROVE NoConnectionLeaks
    OBVIOUS
  <2>1. queue \in Seq(People)
    BY DEF IInv, TypeOK, People
  <2>2. IsInjective(queue) => Cardinality(Range(queue)) = Len(queue)
    BY <2>1, OnceCounts
  <2> QED BY <2>2 DEF IInv, PoolInv, Holding, Waiting, NoConnectionLeaks
<1> QED BY <1>1, Invariance, PTL

(* service.go:110-118: no accepted request loses its database before the    *)
(* time to drain is over.                                                  *)
THEOREM RequestsAreNotCutOff == Spec => []NoRequestCutOff
<1>1. IInv => NoRequestCutOff
  BY DEF IInv, RunInv, NoRequestCutOff
<1> QED BY <1>1, Invariance, PTL

-----------------------------------------------------------------------------
(* What RequestsAreAnswered rests on. *)

LEMMA OrderStep == IInv /\ [Next]_vars => KeepsOrder(queue, queue')
<1> SUFFICES ASSUME IInv, [Next]_vars PROVE KeepsOrder(queue, queue')
  OBVIOUS
<1>1. queue \in Seq(People) /\ TypeOK /\ PoolInv
  BY DEF IInv, TypeOK, People
<1>2. KeepsOrder(queue, queue) /\ KeepsOrder(queue, <<>>)
  BY DEF KeepsOrder, Before, Range
<1>3. CASE phase = "exited" \/ UNCHANGED vars
  BY <1>2, <1>3 DEF Next, vars, poolVars
<1>4. ASSUME phase # "exited", NEW x \in People, x \notin Waiting, queue' = Append(queue, x)
      PROVE  KeepsOrder(queue, queue')
  BY <1>1, <1>4, AppendFacts DEF PoolInv
<1>5. ASSUME phase # "exited", NEW x, Leave(x) PROVE KeepsOrder(queue, queue')
  <2>1. CASE x \in Range(queue)
    <3>1. PICK i \in DOMAIN queue : queue' = RemoveAt(queue, i)
      BY <1>5, <2>1 DEF Leave
    <3> QED BY <1>1, <1>5, <3>1, RemoveAtFacts DEF PoolInv
  <2>2. CASE x \notin Range(queue)
    BY <1>2, <1>5, <2>2 DEF Leave
  <2> QED BY <2>1, <2>2
<1>6. CASE phase # "exited" /\ Grant
  BY <1>1, <1>6, TailFacts DEF Grant, PoolInv
<1>7. CASE Run
  BY <1>2, <1>7 DEF Run, Connect, ConnectFails, Migrate, StartFails, Launch, ServerFails,
                    Shutdown, Drained, DrainTimesOut, PipelineEnded, Exit, poolVars
<1>8. ASSUME NEW w \in Writers, Writer(w), phase # "exited" PROVE KeepsOrder(queue, queue')
  <2>1. CASE WriterAcquires(w)
    BY <1>4, <1>8, <2>1, ServiceAssumption DEF WriterAcquires, Wait, People, Waiting
  <2>2. CASE WriterGivesUp(w)
    BY <1>5, <1>8, <2>2 DEF WriterGivesUp
  <2>3. CASE WriterReturns(w)
    BY <1>2, <2>3 DEF WriterReturns
  <2> QED BY <1>8, <2>1, <2>2, <2>3 DEF Writer
<1>9. ASSUME NEW r \in Requests, Request(r), phase # "exited" PROVE KeepsOrder(queue, queue')
  <2>1. request[r] # "wait" => r \notin Waiting
    BY ServiceAssumption DEF Waiting
  <2>2. CASE Accept(r)
    BY <1>4, <1>9, <2>1, <2>2 DEF Accept, Wait, People
  <2>3. CASE StatementEnds(r)
    BY <1>2, <1>4, <1>9, <2>1, <2>3 DEF StatementEnds, People
  <2>4. CASE StatementFails(r)
    BY <1>2, <2>4 DEF StatementFails
  <2>5. CASE ClientLeaves(r) \/ Refuse(r)
    BY <1>5, <1>9, <2>5 DEF ClientLeaves, Refuse
  <2> QED BY <1>9, <2>2, <2>3, <2>4, <2>5 DEF Request
<1> QED BY <1>3, <1>6, <1>7, <1>8, <1>9 DEF Next

(* Nobody who waits for a connection is overtaken by one who came later:    *)
(* not when others give up before, nor when the pool is closed.            *)
THEOREM FirstComeFirstServed == Spec => [][KeepsOrder(queue, queue')]_vars
<1>1. IInv /\ [Next]_vars => [KeepsOrder(queue, queue')]_vars
  BY OrderStep
<1> QED BY <1>1, Invariance, PTL DEF Spec

(* A full pool is not the writers' alone. *)
RequestsHoldSome == ~Free => \E r \in Requests : request[r] = "query"

(* With one connection more than writers, whoever waits waits for nothing,  *)
(* or for a statement of a request to end: writers, who keep theirs for    *)
(* ever, never have them all.                                              *)
THEOREM WritersLeaveOne ==
    ASSUME Cardinality(Writers) < MaxConns
    PROVE  Spec => []RequestsHoldSome
<1>1. ASSUME IInv PROVE RequestsHoldSome
  <2> SUFFICES ASSUME ~Free, \A r \in Requests : request[r] # "query" PROVE FALSE
    BY DEF RequestsHoldSome
  <2>1. conns \subseteq Writers
    BY <1>1 DEF IInv, PoolInv, Holding
  <2>2. IsFiniteSet(conns) /\ Cardinality(conns) <= Cardinality(Writers)
    BY <2>1, ServiceAssumption, FS_Subset
  <2>3. Cardinality(conns) \in Nat /\ Cardinality(Writers) \in Nat /\ MaxConns \in Nat
    BY <2>2, ServiceAssumption, FS_CardinalityType
  <2> QED BY <2>2, <2>3 DEF Free
<1>2. IInv => RequestsHoldSome
  BY <1>1
<1> QED BY <1>2, Invariance, PTL

-----------------------------------------------------------------------------
(* What ShutdownCompletes rests on: the pool is closed last. *)

(* Writers run from the launch of the pipeline until g.Wait returns. *)
WritersInTime ==
    /\ phase \in {"connect", "migrate", "listen"} => \A w \in Writers : writer[w] = "off"
    /\ phase \in {"closing", "exited"} => \A w \in Writers : writer[w] \in {"off", "done"}

LEMMA WritersStep == IInv /\ WritersInTime /\ [Next]_vars => WritersInTime'
<1> SUFFICES ASSUME IInv, WritersInTime, [Next]_vars PROVE WritersInTime'
  OBVIOUS
<1> USE DEF WritersInTime, runVars
<1>1. TypeOK /\ PoolInv /\ RunInv
  BY DEF IInv
<1>2. CASE UNCHANGED vars
  BY <1>2 DEF vars
<1>3. CASE Run
  BY <1>3 DEF Run, Connect, ConnectFails, Migrate, StartFails, Launch, ServerFails, Return,
              Shutdown, Drained, DrainTimesOut, PipelineEnded, Exit
<1>4. CASE Grant /\ phase # "exited"
  <2> DEFINE x == Head(queue)
  <2>1. x \in Waiting /\ phase' = phase
    <3>1. queue \in Seq(People) /\ queue # <<>>
      BY <1>1, <1>4 DEF TypeOK, People, Grant
    <3> QED BY <1>1, <1>4, <3>1, TailFacts DEF PoolInv, Grant
  <2>2. \A w \in Writers : writer'[w] = writer[w] \/ (w = x /\ writer[w] = "wait")
    BY <1>4, <2>1, ServiceAssumption DEF Grant, Waiting
  <2>3. \A w \in Writers : writer'[w] = IF w = x THEN "pinned" ELSE writer[w]
    BY <1>4 DEF Grant
  <2>4. CASE phase \in {"connect", "migrate", "listen"}
    BY <2>1, <2>2, <2>4
  <2>5. CASE phase = "closing"
    <3>1. \A w \in Writers : writer[w] # "wait"
      BY <2>5
    <3> QED BY <2>1, <2>2, <2>5, <3>1
  <2> QED BY <1>4, <2>1, <2>4, <2>5
<1>5. ASSUME NEW w \in Writers, Writer(w) PROVE WritersInTime'
  <2>1. CASE WriterAcquires(w)
    BY <2>1 DEF WriterAcquires
  <2>2. CASE WriterGivesUp(w)
    BY <1>1, <2>2 DEF WriterGivesUp, TypeOK
  <2>3. CASE WriterReturns(w)
    BY <1>1, <2>3 DEF WriterReturns, TypeOK
  <2> QED BY <1>5, <2>1, <2>2, <2>3 DEF Writer
<1>6. ASSUME NEW r \in Requests, Request(r) PROVE WritersInTime'
  BY <1>6 DEF Request, Accept, StatementEnds, StatementFails, ClientLeaves, Refuse
<1> QED BY <1>2, <1>3, <1>4, <1>5, <1>6 DEF Next

(* A pool that is being closed waits for no writer, and for nobody at all   *)
(* unless the time to drain was over.                                      *)
ClosedLast ==
    closed =>
        /\ \A w \in Writers : w \notin conns
        /\ phase = "closing" => \A w \in Writers : w \notin Range(queue)
        /\ ~timedOut => conns = {}

(* service.go:64 and 118: pool.Close, which waits for every connection,     *)
(* runs after the writers have returned theirs, so it cannot hang on one.  *)
THEOREM CloseWaitsForNoWriter == Spec => []ClosedLast
<1>1. Init => WritersInTime
  BY DEF Init, WritersInTime
<1>2. ASSUME IInv, WritersInTime PROVE ClosedLast
  <2> SUFFICES ASSUME closed PROVE ClosedLast
    BY DEF ClosedLast
  <2>1. phase \in {"closing", "exited"}
    BY <1>2 DEF IInv, RunInv
  <2>2. \A w \in Writers : writer[w] \in {"off", "done"}
    BY <1>2, <2>1 DEF WritersInTime
  <2>3. conns = Holding /\ (phase = "closing" => Range(queue) = Waiting)
    BY <1>2 DEF IInv, PoolInv
  <2>4. \A w \in Writers : w \notin Holding /\ w \notin Waiting
    BY <2>2, ServiceAssumption DEF Holding, Waiting
  <2>5. ~timedOut => \A r \in Requests : request[r] = "idle"
    BY <1>2, <2>1 DEF IInv, RunInv
  <2>6. ~timedOut => conns = {}
    BY <2>2, <2>3, <2>5 DEF Holding
  <2> QED BY <2>3, <2>4, <2>6 DEF ClosedLast
<1>3. IInv /\ WritersInTime => ClosedLast
  BY <1>2
<1> QED BY <1>1, <1>3, WritersStep, Invariance, PTL DEF Spec
=============================================================================

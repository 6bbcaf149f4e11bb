-------------------------- MODULE TileQueueProofs ---------------------------
(***************************************************************************)
(* Proofs about TileQueue, for any number of handlers, any priorities, any *)
(* concurrency and any number of reloads: tokens and requests match, and   *)
(* no handler renders without a worker that waits for it.                  *)
(***************************************************************************)
EXTENDS TileQueue, SequenceLemmas, FiniteSetTheorems

HandlerLabels == {"idle", "direct", "send", "wait", "run", "served", "failed", "stuck"}
WorkerLabels == {"none", "receive", "pick", "hand", "busy", "stuck"}

\* The types of what the proof is about.
Types ==
    /\ requests \in Seq(Handlers)
    /\ tokens \in Nat
    /\ concurrency \in Limits
    /\ reloads \in Nat
    /\ handler \in [Handlers -> HandlerLabels]
    /\ worker \in [Workers -> WorkerLabels]
    /\ job \in [Workers -> SUBSET Handlers]

\* The workers of a reload that has not yet opened its channel have not started.
Generations ==
    \A w \in Workers :
        worker[w] # "none" => w[1] <= reloads /\ (reloading # "no" => w[1] < reloads)

\* Until the first reload the channel and the workers are those of the start.
UntilReload ==
    /\ reloading # "no" => reloads > 0
    /\ reloads = 0 =>
          /\ channel = IF concurrency > 0 THEN "open" ELSE "nil"
          /\ \A w \in Workers : worker[w] # "none" => w \in Started(0, concurrency)
          /\ concurrency = 0 => In("send") = {}

\* A worker holds one request from when it has picked it until it is done.
Holding ==
    \A w \in Workers :
        IF worker[w] \in {"hand", "busy"}
        THEN \E h \in Handlers :
                /\ job[w] = {h}
                /\ handler[h] \in IF worker[w] = "hand" THEN {"send", "wait", "failed", "stuck"}
                                                        ELSE {"run", "failed"}
        ELSE job[w] = {}

\* A handler that renders is held by a worker that waits for it.
Rendering ==
    \A h \in In("run") : \E w \in At("busy") : h \in job[w]

\* No request is in the list or with the workers twice.
Exclusive ==
    /\ \A w1, w2 \in Workers : job[w1] \cap job[w2] # {} => w1 = w2
    /\ \A i, j \in DOMAIN requests : requests[i] = requests[j] => i = j
    /\ \A i \in DOMAIN requests, w \in Workers : requests[i] \notin job[w]

\* The handler of a request in the list has yet to be let run.
Listed ==
    \A i \in DOMAIN requests : handler[requests[i]] \in {"send", "wait", "failed", "stuck"}

QInv ==
    /\ Types /\ Generations /\ UntilReload /\ Holding /\ Rendering /\ Exclusive /\ Listed
    /\ TokensMatchRequests

----------------------------------------------------------------------------
(* Facts about the operators of the model.                                 *)

\* A priority lies between those of the features and of a tile outside the range.
LEMMA Priorities == \A h \in Handlers : Priority(h) \in -10..100
    BY TileQueueAssumption DEF Priority

\* Among indices with values there is a first one with the least value.
LEMMA FirstLeast ==
    ASSUME NEW D \in SUBSET Nat, D # {}, NEW v \in [D -> Nat]
    PROVE  \E i \in D : \A j \in D : v[i] < v[j] \/ (v[i] = v[j] /\ i <= j)
<1> DEFINE Values == {v[i] : i \in D}
           low == Min(Values)
           Lows == {i \in D : v[i] = low}
           first == Min(Lows)
<1>1. Values \in SUBSET Nat /\ Values # {}
    OBVIOUS
<1>2. low \in Values /\ \A n \in Values : low <= n
    <2> HIDE DEF Values
    <2> QED
        BY <1>1, MinOfNaturals
<1>3. \A j \in D : low <= v[j] /\ v[j] \in Nat
    BY <1>2
<1>4. Lows \in SUBSET Nat /\ Lows # {}
    BY <1>2
<1>5. first \in Lows /\ \A j \in Lows : first <= j
    <2> HIDE DEF Lows
    <2> QED
        BY <1>4, MinOfNaturals
<1> HIDE DEF Values, low, first
<1>6. first \in D /\ v[first] = low /\ \A j \in D : v[j] = low => first <= j
    BY <1>5
<1>7. low \in Nat
    BY <1>3, <1>6
<1>8. ASSUME NEW j \in D
      PROVE  v[first] < v[j] \/ (v[first] = v[j] /\ first <= j)
    BY <1>3, <1>6, <1>7
<1> QED
    BY <1>6, <1>8

\* A list that is not empty has a best request.
LEMMA BestExists ==
    ASSUME requests \in Seq(Handlers), requests # <<>>
    PROVE  Best # {}
<1> DEFINE D == DOMAIN requests
           v == [i \in D |-> Priority(requests[i]) + 10]
<1>1. 1 \in D /\ D \subseteq Nat
    BY EmptySeq
<1>2. \A i \in D : requests[i] \in Handlers
    OBVIOUS
<1> HIDE DEF D
<1>3. \A i \in D : Priority(requests[i]) \in -10..100
    BY <1>2, Priorities, Zenon
<1>4. \A n \in -10..100 : n + 10 \in Nat /\ n \in Int /\ n < MaxPriority
    BY DEF MaxPriority
<1>5. v \in [D -> Nat]
    BY <1>3, <1>4, Zenon
<1>6. PICK i \in D : \A j \in D : v[i] < v[j] \/ (v[i] = v[j] /\ i <= j)
    <2> HIDE DEF v
    <2> QED
        BY <1>1, <1>5, FirstLeast
<1>7. Priority(requests[i]) < MaxPriority
    BY <1>3, <1>4, Zenon
<1>8. ASSUME NEW j \in D
      PROVE  \/ Priority(requests[i]) < Priority(requests[j])
             \/ Priority(requests[i]) = Priority(requests[j]) /\ i <= j
    <2>1. v[i] = Priority(requests[i]) + 10 /\ v[j] = Priority(requests[j]) + 10
        OBVIOUS
    <2>2. Priority(requests[i]) \in Int /\ Priority(requests[j]) \in Int
        BY <1>3, <1>4, Zenon
    <2>3. v[i] < v[j] \/ (v[i] = v[j] /\ i <= j)
        BY <1>6
    <2> HIDE DEF v
    <2> QED
        BY ONLY <2>1, <2>2, <2>3
<1> QED
    BY <1>7, <1>8 DEF Best, D

\* The sets of handlers are finite, and so are those of workers until a reload.
LEMMA FiniteSets ==
    ASSUME QInv
    PROVE  /\ \A l : IsFiniteSet(In(l)) /\ Cardinality(In(l)) \in Nat
           /\ concurrency \in Nat
           /\ IsFiniteSet(Started(0, concurrency))
           /\ Cardinality(Started(0, concurrency)) = concurrency
           /\ reloads = 0 => \A l : l # "none" => IsFiniteSet(At(l)) /\ Cardinality(At(l)) \in Nat
<1>1. \A l : IsFiniteSet(In(l)) /\ Cardinality(In(l)) \in Nat
    <2> SUFFICES ASSUME NEW l PROVE IsFiniteSet(In(l)) /\ Cardinality(In(l)) \in Nat
        OBVIOUS
    <2>1. In(l) \in SUBSET Handlers /\ IsFiniteSet(Handlers)
        BY TileQueueAssumption DEF In
    <2> QED
        BY <2>1, FS_Subset, FS_CardinalityType
<1>2. concurrency \in Nat
    BY TileQueueAssumption DEF QInv, Types
<1>3. /\ IsFiniteSet(1..concurrency) /\ Cardinality(1..concurrency) = concurrency
      /\ IsFiniteSet({0}) /\ Cardinality({0}) = 1
    <2>1. concurrency \in Int /\ 1 \in Int
        BY <1>2
    <2>2. /\ IsFiniteSet(1..concurrency)
          /\ Cardinality(1..concurrency) = IF 1 > concurrency THEN 0 ELSE concurrency - 1 + 1
        BY <2>1, FS_Interval, Zenon
    <2>3. IsFiniteSet({0}) /\ Cardinality({0}) = 1
        BY FS_Singleton
    <2> QED
        BY <1>2, <2>2, <2>3
<1>4. IsFiniteSet(Started(0, concurrency)) /\ Cardinality(Started(0, concurrency)) = concurrency
    BY <1>2, <1>3, FS_Product DEF Started
<1>5. ASSUME reloads = 0, NEW l, l # "none"
      PROVE  IsFiniteSet(At(l)) /\ Cardinality(At(l)) \in Nat
    <2>1. At(l) \in SUBSET Started(0, concurrency)
        BY <1>5 DEF QInv, UntilReload, At
    <2> QED
        BY <1>4, <2>1, FS_Subset, FS_CardinalityType
<1> QED
    BY <1>1, <1>2, <1>4, <1>5

\* When a handler changes its label, one set loses it and another gains it.
LEMMA Enters ==
    ASSUME QInv, NEW h \in Handlers, NEW l, handler[h] # l,
           handler' = [handler EXCEPT ![h] = l]
    PROVE  /\ Cardinality(In(l))' = Cardinality(In(l)) + 1
           /\ \A k : k = handler[h] => Cardinality(In(k)) = Cardinality(In(k)') + 1
           /\ \A k : k # l /\ k # handler[h] => In(k)' = In(k)
<1>1. DOMAIN handler = Handlers
    BY DEF QInv, Types
<1>2. In(l)' = In(l) \cup {h} /\ h \notin In(l)
    BY <1>1 DEF In
<1>3. Cardinality(In(l)') = Cardinality(In(l)) + 1
    <2>1. IsFiniteSet(In(l))
        BY FiniteSets
    <2> QED
        BY <1>2, <2>1, FS_AddElement
<1>4. ASSUME NEW k, k = handler[h]
      PROVE  Cardinality(In(k)) = Cardinality(In(k)') + 1
    <2>1. In(k)' = In(k) \ {h} /\ h \in In(k)
        BY <1>1, <1>4 DEF In
    <2>2. IsFiniteSet(In(k)) /\ Cardinality(In(k)) \in Nat
        BY <1>4, FiniteSets
    <2>3. Cardinality(In(k)') = Cardinality(In(k)) - 1
        BY <2>1, <2>2, FS_RemoveElement
    <2> QED
        BY <2>2, <2>3
<1>5. \A k : k # l /\ k # handler[h] => In(k)' = In(k)
    BY <1>1 DEF In
<1> QED
    BY <1>3, <1>4, <1>5

\* The same of a worker, until a reload.
LEMMA EntersWork ==
    ASSUME QInv, reloads = 0, NEW w \in Workers, NEW l, worker[w] # l, worker[w] # "none", l # "none",
           worker' = [worker EXCEPT ![w] = l]
    PROVE  /\ Cardinality(At(l))' = Cardinality(At(l)) + 1
           /\ \A k : k = worker[w] => Cardinality(At(k)) = Cardinality(At(k)') + 1
           /\ \A k : k # l /\ k # worker[w] => At(k)' = At(k)
<1>1. DOMAIN worker = Workers
    BY DEF QInv, Types
<1>2. At(l)' = At(l) \cup {w} /\ w \notin At(l)
    BY <1>1 DEF At
<1>3. Cardinality(At(l)') = Cardinality(At(l)) + 1
    <2>1. IsFiniteSet(At(l))
        BY FiniteSets
    <2> QED
        BY <1>2, <2>1, FS_AddElement
<1>4. ASSUME NEW k, k = worker[w]
      PROVE  Cardinality(At(k)) = Cardinality(At(k)') + 1
    <2>1. At(k)' = At(k) \ {w} /\ w \in At(k)
        BY <1>1, <1>4 DEF At
    <2>2. IsFiniteSet(At(k)) /\ Cardinality(At(k)) \in Nat
        BY <1>4, FiniteSets
    <2>3. Cardinality(At(k)') = Cardinality(At(k)) - 1
        BY <2>1, <2>2, FS_RemoveElement
    <2> QED
        BY <2>2, <2>3
<1>5. \A k : k # l /\ k # worker[w] => At(k)' = At(k)
    BY <1>1 DEF At
<1> QED
    BY <1>3, <1>4, <1>5

----------------------------------------------------------------------------
(* The invariant holds at the start and after every action of a handler.   *)

LEMMA QInvInit == Init => QInv
<1> SUFFICES ASSUME Init PROVE QInv
    OBVIOUS
<1> USE DEF Init
<1>1. Types
    BY TileQueueAssumption DEF Types, HandlerLabels, WorkerLabels
<1>2. Generations /\ UntilReload /\ Holding /\ Rendering /\ Exclusive /\ Listed
    BY DEF Generations, UntilReload, Holding, Rendering, Exclusive, Listed, In, At, Started, Workers
<1>3. In("send") = {} /\ At("pick") = {}
    BY DEF In, At
<1>4. TokensMatchRequests
    <2>1. Cardinality(In("send")) = 0 /\ Cardinality(At("pick")) = 0
        BY <1>3, FS_EmptySet, Zenon
    <2>2. Len(requests) = 0 /\ tokens = 0
        OBVIOUS
    <2> QED
        BY <2>1, <2>2, TileQueueAssumption DEF TokensMatchRequests
<1> QED
    BY <1>1, <1>2, <1>4 DEF QInv

\* A new request is in no list and with no worker.
LEMMA QInvRequest == ASSUME NEW h \in Handlers, QInv, Request(h) PROVE QInv'
<1> USE DEF QInv
<1>0. /\ handler \in [Handlers -> HandlerLabels]
      /\ handler[h] = "idle"
      /\ UNCHANGED <<tokens, channel, concurrency, reloading, reloads, worker, job>>
    BY DEF Request, Types
<1>1. \A w \in Workers : h \notin job[w]
    BY <1>0 DEF Holding
<1>2. \A i \in DOMAIN requests : requests[i] # h /\ requests[i] \in Handlers
    BY <1>0 DEF Listed, Types
<1>3. CASE concurrency = 0
    <2>1. handler' = [handler EXCEPT ![h] = "direct"] /\ UNCHANGED requests
        BY <1>3 DEF Request, Go
    <2>2. Types'
        BY <1>0, <2>1 DEF Types, HandlerLabels
    <2>3. In("send")' = In("send") /\ In("run")' = In("run") /\ UNCHANGED <<At("busy"), At("pick")>>
        BY <1>0, <2>1 DEF In, At
    <2>4. Generations' /\ UntilReload' /\ Rendering' /\ Exclusive' /\ TokensMatchRequests'
        BY <1>0, <2>1, <2>3 DEF Generations, UntilReload, Rendering, Exclusive, TokensMatchRequests
    <2>5. Holding'
        BY <1>0, <1>1, <2>1 DEF Holding
    <2>6. Listed'
        BY <1>0, <1>2, <2>1 DEF Listed
    <2> QED
        BY <2>2, <2>4, <2>5, <2>6
<1>4. CASE concurrency # 0
    <2>1. handler' = [handler EXCEPT ![h] = "send"] /\ requests' = Append(requests, h)
        BY <1>4 DEF Request, Go
    <2>2. /\ requests' \in Seq(Handlers) /\ Len(requests') = Len(requests) + 1
          /\ DOMAIN requests' = 1..Len(requests) + 1 /\ DOMAIN requests = 1..Len(requests)
          /\ \A i \in 1..Len(requests) : requests'[i] = requests[i]
          /\ requests'[Len(requests) + 1] = h
          /\ Len(requests) \in Nat
        BY <2>1, AppendProperties DEF Types
    <2>3. Types'
        BY <1>0, <2>1, <2>2 DEF Types, HandlerLabels
    <2>4. In("run")' = In("run") /\ UNCHANGED <<At("busy"), At("pick")>>
        BY <1>0, <2>1 DEF In, At
    <2>5. Generations' /\ UntilReload' /\ Rendering'
        BY <1>0, <1>4, <2>1, <2>4 DEF Generations, UntilReload, Rendering
    <2>6. Holding'
        BY <1>0, <1>1, <2>1 DEF Holding
    <2>7. \A i \in DOMAIN requests' : requests'[i] = h \/ (i \in DOMAIN requests /\ requests'[i] = requests[i])
        BY <2>2
    <2>8. \A i \in DOMAIN requests' : requests'[i] = h => i = Len(requests) + 1
        BY <1>2, <2>2
    <2>9. Exclusive'
        BY <1>0, <1>1, <2>7, <2>8 DEF Exclusive
    <2>10. Listed'
        BY <1>0, <1>2, <2>1, <2>7 DEF Listed
    <2>11. Cardinality(In("send"))' = Cardinality(In("send")) + 1
        <3>1. "send" \in HandlerLabels /\ handler[h] # "send"
            BY <1>0 DEF HandlerLabels
        <3> QED
            BY <2>1, <3>1, Enters
    <2>12. Cardinality(At("pick"))' = Cardinality(At("pick"))
        BY <2>4
    <2>13. TokensMatchRequests'
        BY <1>0, <2>2, <2>11, <2>12, FiniteSets DEF TokensMatchRequests, Types
    <2> QED
        BY <2>3, <2>5, <2>6, <2>9, <2>10, <2>13
<1> QED
    BY <1>3, <1>4

\* A token is sent, or the request stays in the list without one.
LEMMA QInvSendToken == ASSUME NEW h \in Handlers, QInv, SendToken(h) PROVE QInv'
<1> USE DEF QInv
<1>0. /\ handler \in [Handlers -> HandlerLabels]
      /\ handler[h] = "send"
      /\ UNCHANGED <<requests, channel, concurrency, reloading, reloads, worker, job>>
    BY DEF SendToken, Types
<1>1. PICK l \in {"wait", "failed", "stuck"} : handler' = [handler EXCEPT ![h] = l]
    BY DEF SendToken, Go
<1>2. tokens' \in Nat /\ tokens' <= Capacity
    BY TileQueueAssumption DEF SendToken, Types, TokensMatchRequests
<1>3. Types'
    BY <1>0, <1>1, <1>2 DEF Types, HandlerLabels
<1>4. In("run")' = In("run") /\ UNCHANGED At("busy") /\ UNCHANGED At("pick")
    BY <1>0, <1>1 DEF In, At
<1>5. In("send") = {} => In("send")' = {}
    BY <1>0, <1>1 DEF In
<1>6. Generations' /\ UntilReload' /\ Rendering' /\ Exclusive'
    BY <1>0, <1>4, <1>5 DEF Generations, UntilReload, Rendering, Exclusive
<1>7. Holding'
    BY <1>0, <1>1 DEF Holding
<1>8. Listed'
    BY <1>0, <1>1 DEF Listed
<1>9. TokensMatchRequests'
    <2>1. SUFFICES ASSUME reloads = 0
                   PROVE  Len(requests) = tokens' + Cardinality(In("send"))' + Cardinality(At("pick"))
        BY <1>0, <1>2, <1>4 DEF TokensMatchRequests
    <2>2. channel = "open" /\ tokens' = tokens + 1
        <3>1. h \in In("send") /\ concurrency \in Nat
            BY <1>0, FiniteSets DEF In
        <3>2. concurrency > 0 /\ channel = "open"
            BY <2>1, <3>1 DEF UntilReload
        <3> QED
            BY <3>2 DEF SendToken
    <2>3. Cardinality(In("send")) = Cardinality(In("send"))' + 1
        <3>1. l \in HandlerLabels /\ handler[h] # l
            BY <1>0 DEF HandlerLabels
        <3> QED
            BY <1>0, <1>1, <3>1, Enters
    <2>4. Len(requests) = tokens + Cardinality(In("send")) + Cardinality(At("pick"))
        BY <2>1 DEF TokensMatchRequests
    <2>5. Cardinality(In("send")) \in Nat /\ Cardinality(At("pick")) \in Nat /\ tokens \in Nat
        BY <2>1, FiniteSets DEF Types
    <2>6. Cardinality(In("send"))' \in Int
        BY <1>3, TileQueueAssumption, FS_Subset, FS_CardinalityType DEF In
    <2> QED
        BY ONLY <2>2, <2>3, <2>4, <2>5, <2>6
<1> QED
    BY <1>3, <1>6, <1>7, <1>8, <1>9

\* The handler that is done was held by no other worker than the one it frees.
LEMMA QInvFinish == ASSUME NEW h \in Handlers, QInv, Finish(h) PROVE QInv'
<1> USE DEF QInv
<1>0. /\ handler \in [Handlers -> HandlerLabels] /\ worker \in [Workers -> WorkerLabels]
      /\ handler[h] \in {"run", "direct"}
      /\ handler' = [handler EXCEPT ![h] = "served"]
      /\ worker' = [w \in Workers |->
                        IF worker[w] = "busy" /\ h \in job[w] THEN "receive" ELSE worker[w]]
      /\ job' = [w \in Workers |-> job[w] \ {h}]
      /\ UNCHANGED <<requests, tokens, channel, concurrency, reloading, reloads>>
    BY DEF Finish, Go, Types
<1>1. Types'
    BY <1>0 DEF Types, HandlerLabels, WorkerLabels
<1>2. In("send")' = In("send") /\ In("run")' = In("run") \ {h} /\ At("pick")' = At("pick")
    BY <1>0 DEF In, At
<1>3. \A w \in Workers : worker'[w] = "none" <=> worker[w] = "none"
    BY <1>0
<1>4. Generations' /\ UntilReload'
    BY <1>0, <1>2, <1>3 DEF Generations, UntilReload
<1>5. \A w \in Workers : h \in job[w] => worker[w] = "busy" /\ job[w] = {h}
    BY <1>0 DEF Holding
<1>6. \A w \in Workers :
         IF h \in job[w] THEN worker'[w] = "receive" /\ job'[w] = {}
                         ELSE worker'[w] = worker[w] /\ job'[w] = job[w]
    BY <1>0, <1>5
<1>7. Holding'
    <2> SUFFICES ASSUME NEW w \in Workers
                 PROVE  IF worker'[w] \in {"hand", "busy"}
                        THEN \E g \in Handlers :
                                /\ job'[w] = {g}
                                /\ handler'[g] \in IF worker'[w] = "hand"
                                                   THEN {"send", "wait", "failed", "stuck"}
                                                   ELSE {"run", "failed"}
                        ELSE job'[w] = {}
        BY DEF Holding
    <2>1. CASE h \in job[w]
        BY <1>6, <2>1
    <2>2. CASE h \notin job[w]
        <3>1. \A g \in Handlers : g # h => handler'[g] = handler[g]
            BY <1>0
        <3> QED
            BY <1>6, <2>2, <3>1 DEF Holding
    <2> QED
        BY <2>1, <2>2
<1>8. Rendering'
    BY <1>0, <1>2, <1>5, <1>6 DEF Rendering, In, At
<1>9. Exclusive'
    <2>1. \A w \in Workers : job'[w] \subseteq job[w]
        BY <1>0
    <2> QED
        BY <1>0, <2>1 DEF Exclusive
<1>10. Listed'
    <2>1. \A i \in DOMAIN requests : requests[i] # h
        BY <1>0 DEF Listed
    <2> QED
        BY <1>0, <2>1 DEF Listed, Types
<1>11. TokensMatchRequests'
    BY <1>0, <1>2 DEF TokensMatchRequests
<1> QED
    BY <1>1, <1>4, <1>7, <1>8, <1>9, <1>10, <1>11

\* The worker of a handler that panics stays busy.
LEMMA QInvPanic == ASSUME NEW h \in Handlers, QInv, Panic(h) PROVE QInv'
<1> USE DEF QInv
<1>0. /\ handler \in [Handlers -> HandlerLabels]
      /\ handler[h] \in {"run", "direct"}
      /\ handler' = [handler EXCEPT ![h] = "failed"]
      /\ UNCHANGED <<requests, tokens, channel, concurrency, reloading, reloads, worker, job>>
    BY DEF Panic, Go, Types
<1>1. Types'
    BY <1>0 DEF Types, HandlerLabels
<1>2. In("send")' = In("send") /\ In("run")' \subseteq In("run") /\ UNCHANGED At("busy") /\ UNCHANGED At("pick")
    BY <1>0 DEF In, At
<1>3. Generations' /\ UntilReload' /\ Rendering' /\ Exclusive' /\ TokensMatchRequests'
    BY <1>0, <1>2 DEF Generations, UntilReload, Rendering, Exclusive, TokensMatchRequests
<1>4. Holding'
    BY <1>0 DEF Holding
<1>5. Listed'
    BY <1>0 DEF Listed, Types
<1> QED
    BY <1>1, <1>3, <1>4, <1>5

----------------------------------------------------------------------------
(* It also holds after every action of a worker.                           *)

\* A worker's step keeps the generations and what holds until a reload.
LEMMA WorkerMoves ==
    ASSUME NEW w \in Workers, NEW l \in WorkerLabels, QInv, worker[w] # "none", l # "none",
           worker' = [worker EXCEPT ![w] = l],
           UNCHANGED <<channel, concurrency, reloading, reloads>>, In("send")' = In("send")
    PROVE  worker' \in [Workers -> WorkerLabels] /\ Generations' /\ UntilReload'
<1>1. worker \in [Workers -> WorkerLabels]
    BY DEF QInv, Types
<1>2. \A v \in Workers : worker'[v] # "none" <=> worker[v] # "none"
    BY <1>1
<1> QED
    BY <1>1, <1>2 DEF QInv, Generations, UntilReload

\* A token taken is a worker that has still to look.
LEMMA QInvReceive == ASSUME NEW w \in Workers, QInv, Receive(w) PROVE QInv'
<1> USE DEF QInv
<1>0. /\ worker \in [Workers -> WorkerLabels]
      /\ worker[w] = "receive"
      /\ worker' = [worker EXCEPT ![w] = "pick"]
      /\ UNCHANGED <<requests, channel, concurrency, reloading, reloads, handler, job>>
    BY DEF Receive, Step, Types
<1>1. tokens' \in Nat /\ tokens' <= Capacity
    BY TileQueueAssumption DEF Receive, Types, TokensMatchRequests
<1>2. In("send")' = In("send") /\ In("run")' = In("run") /\ At("busy")' = At("busy")
    BY <1>0 DEF In, At
<1>3. worker' \in [Workers -> WorkerLabels] /\ Generations' /\ UntilReload'
    BY <1>0, <1>2, WorkerMoves DEF WorkerLabels
<1>4. Types' /\ Rendering' /\ Exclusive' /\ Listed'
    BY <1>0, <1>1, <1>2, <1>3 DEF Types, Rendering, Exclusive, Listed
<1>5. Holding'
    BY <1>0 DEF Holding
<1>6. TokensMatchRequests'
    <2> SUFFICES ASSUME reloads = 0
                 PROVE  Len(requests) = tokens' + Cardinality(In("send")) + Cardinality(At("pick")')
        BY <1>0, <1>1, <1>2 DEF TokensMatchRequests
    <2>1. tokens' = tokens - 1
        BY <1>0 DEF Receive, UntilReload
    <2>2. Cardinality(At("pick")') = Cardinality(At("pick")) + 1
        BY <1>0, EntersWork
    <2>3. Len(requests) = tokens + Cardinality(In("send")) + Cardinality(At("pick"))
        BY DEF TokensMatchRequests
    <2>4. Cardinality(In("send")) \in Nat /\ Cardinality(At("pick")) \in Nat /\ tokens \in Nat
        BY FiniteSets DEF Types
    <2> QED
        BY ONLY <2>1, <2>2, <2>3, <2>4
<1> QED
    BY <1>3, <1>4, <1>5, <1>6

\* Until a reload, a worker that looks finds a request.
LEMMA PickFinds ==
    ASSUME NEW w \in Workers, QInv, worker[w] = "pick", reloads = 0
    PROVE  Best # {}
<1> USE DEF QInv
<1>1. IsFiniteSet(At("pick")) /\ Cardinality(At("pick")) \in Nat /\ w \in At("pick")
    BY FiniteSets DEF At
<1>2. Cardinality(At("pick")) # 0
    BY <1>1, FS_EmptySet
<1>3. tokens \in Nat /\ Cardinality(In("send")) \in Nat
    BY FiniteSets DEF Types
<1>4. Len(requests) = tokens + Cardinality(In("send")) + Cardinality(At("pick"))
    BY DEF TokensMatchRequests
<1>5. Len(requests) # 0
    BY <1>1, <1>2, <1>3, <1>4
<1> QED
    BY <1>5, BestExists DEF Types

\* The request goes from the list to the worker, and is nowhere else.
LEMMA QInvPick == ASSUME NEW w \in Workers, QInv, Pick(w) PROVE QInv'
<1> USE DEF QInv
<1>0. /\ worker \in [Workers -> WorkerLabels] /\ job \in [Workers -> SUBSET Handlers]
      /\ worker[w] = "pick" /\ job[w] = {}
      /\ UNCHANGED <<tokens, channel, concurrency, reloading, reloads, handler>>
      /\ \A l : In(l)' = In(l)
    BY DEF Pick, Types, Holding, In
<1>1. CASE Best = {}
    <2>1. UNCHANGED <<requests, job>> /\ worker' = [worker EXCEPT ![w] = "stuck"]
        BY <1>1 DEF Pick, Step
    <2>2. worker' \in [Workers -> WorkerLabels] /\ Generations' /\ UntilReload'
        BY <1>0, <2>1, WorkerMoves DEF WorkerLabels
    <2>3. At("busy")' = At("busy")
        BY <1>0, <2>1 DEF At
    <2>4. Types' /\ Rendering' /\ Exclusive' /\ Listed'
        BY <1>0, <2>1, <2>2, <2>3 DEF Types, Rendering, Exclusive, Listed
    <2>5. Holding'
        BY <1>0, <2>1 DEF Holding
    <2>6. TokensMatchRequests'
        BY <1>0, <1>1, PickFinds DEF TokensMatchRequests
    <2> QED
        BY <2>2, <2>4, <2>5, <2>6
<1>2. ASSUME NEW i \in Best,
             requests' = RemoveAt(requests, i),
             job' = [job EXCEPT ![w] = {requests[i]}],
             Step(w, "hand")
      PROVE  QInv'
    <2> DEFINE n == Len(requests)
               h == requests[i]
    <2>1. n \in Nat /\ DOMAIN requests = 1..n /\ i \in 1..n /\ requests \in Seq(Handlers)
        BY DEF Best, Types
    <2>2. h \in Handlers /\ handler[h] \in {"send", "wait", "failed", "stuck"} /\ \A v \in Workers : h \notin job[v]
        BY <2>1 DEF Listed, Exclusive
    <2>3. /\ requests' \in Seq(Handlers) /\ Len(requests') = n - 1
          /\ \A j \in 1..i - 1 : requests'[j] = requests[j]
          /\ \A j \in i..n - 1 : requests'[j] = requests[j + 1]
        BY <1>2, <2>1, RemoveAtElements
    <2>4. DOMAIN requests' = 1..n - 1
        BY <2>3
    <2> HIDE DEF n, h
    <2>5. \A j \in 1..n - 1 :
             LET k == IF j < i THEN j ELSE j + 1
             IN  k \in 1..n /\ k # i /\ requests'[j] = requests[k]
        BY <2>1, <2>3
    <2>6. worker' = [worker EXCEPT ![w] = "hand"] /\ job' = [job EXCEPT ![w] = {h}] /\ h = requests[i]
        BY <1>2 DEF Step, h
    <2>7. worker' \in [Workers -> WorkerLabels] /\ Generations' /\ UntilReload'
        BY <1>0, <2>6, WorkerMoves DEF WorkerLabels
    <2>8. At("busy")' = At("busy") /\ \A v \in At("busy") : job'[v] = job[v]
        BY <1>0, <2>6 DEF At
    <2>9. Types' /\ Rendering'
        BY <1>0, <2>2, <2>3, <2>6, <2>7, <2>8 DEF Types, Rendering
    <2>10. \A v \in Workers : job'[v] = IF v = w THEN {h} ELSE job[v]
        BY <1>0, <2>6
    <2>11. Holding'
        BY <1>0, <2>2, <2>6, <2>10 DEF Holding
    <2>12. \A j, k \in DOMAIN requests' : requests'[j] = requests'[k] => j = k
        <3> SUFFICES ASSUME NEW j \in 1..n - 1, NEW k \in 1..n - 1, requests'[j] = requests'[k]
                     PROVE  j = k
            BY <2>4
        <3>1. (IF j < i THEN j ELSE j + 1) = IF k < i THEN k ELSE k + 1
            BY <2>1, <2>5 DEF Exclusive
        <3> QED
            BY <2>1, <3>1
    <2>13. \A j \in DOMAIN requests' : \E k \in DOMAIN requests : k # i /\ requests'[j] = requests[k]
        BY <2>1, <2>4, <2>5
    <2>14. \A j \in DOMAIN requests' : requests'[j] # h
        BY <2>1, <2>6, <2>13 DEF Exclusive
    <2>15. \A j \in DOMAIN requests', v \in Workers : requests'[j] \notin job'[v]
        BY <2>10, <2>13, <2>14 DEF Exclusive
    <2>16. \A v1, v2 \in Workers : job'[v1] \cap job'[v2] # {} => v1 = v2
        BY <2>2, <2>10 DEF Exclusive
    <2>17. Exclusive'
        BY <2>12, <2>15, <2>16 DEF Exclusive
    <2>18. Listed'
        BY <1>0, <2>13 DEF Listed
    <2>19. TokensMatchRequests'
        <3> SUFFICES ASSUME reloads = 0
                     PROVE  Len(requests') = tokens + Cardinality(In("send")) + Cardinality(At("pick")')
            BY <1>0 DEF TokensMatchRequests
        <3>1. Cardinality(At("pick")) = Cardinality(At("pick")') + 1
            BY <1>0, <2>6, EntersWork
        <3>2. n = tokens + Cardinality(In("send")) + Cardinality(At("pick"))
            BY DEF TokensMatchRequests, n
        <3>3. Cardinality(In("send")) \in Nat /\ Cardinality(At("pick")) \in Nat /\ tokens \in Nat
            BY FiniteSets DEF Types
        <3>4. IsFiniteSet(At("pick")')  /\ Cardinality(At("pick")') \in Nat
            <4>1. At("pick")' \subseteq At("pick")
                BY <1>0, <2>6 DEF At
            <4> QED
                BY <4>1, FiniteSets, FS_Subset, FS_CardinalityType
        <3> QED
            BY ONLY <2>3, <3>1, <3>2, <3>3, <3>4
    <2> QED
        BY <2>7, <2>9, <2>11, <2>17, <2>18, <2>19
<1> QED
    BY <1>1, <1>2 DEF Pick

\* The handler starts to render as its worker starts to wait for it.
LEMMA QInvHand == ASSUME NEW w \in Workers, QInv, Hand(w) PROVE QInv'
<1> USE DEF QInv
<1>0. /\ worker \in [Workers -> WorkerLabels] /\ handler \in [Handlers -> HandlerLabels]
      /\ worker[w] = "hand"
      /\ worker' = [worker EXCEPT ![w] = "busy"]
      /\ UNCHANGED <<requests, tokens, channel, concurrency, reloading, reloads, job>>
    BY DEF Hand, Types, Step
<1>1. PICK h \in Handlers : /\ job[w] = {h} /\ handler[h] = "wait"
                            /\ handler' = [handler EXCEPT ![h] = "run"]
    BY <1>0 DEF Hand, Holding, Go
<1>2. In("send")' = In("send") /\ In("run")' = In("run") \cup {h}
      /\ At("busy")' = At("busy") \cup {w} /\ At("pick")' = At("pick")
    BY <1>0, <1>1 DEF In, At
<1>3. worker' \in [Workers -> WorkerLabels] /\ Generations' /\ UntilReload'
    BY <1>0, <1>2, WorkerMoves DEF WorkerLabels
<1>4. Types' /\ Exclusive' /\ TokensMatchRequests'
    BY <1>0, <1>1, <1>2, <1>3 DEF Types, HandlerLabels, Exclusive, TokensMatchRequests
<1>5. Rendering'
    BY <1>0, <1>1, <1>2 DEF Rendering
<1>6. \A v \in Workers : v # w => h \notin job[v]
    BY <1>1 DEF Exclusive
<1>7. Holding'
    BY <1>0, <1>1, <1>6 DEF Holding
<1>8. Listed'
    BY <1>0, <1>1 DEF Listed, Exclusive
<1> QED
    BY <1>3, <1>4, <1>5, <1>7, <1>8

----------------------------------------------------------------------------
(* A reload keeps it, and so does every step.                              *)

LEMMA QInvReload == QInv /\ Reload => QInv'
<1> SUFFICES ASSUME QInv, Reload PROVE QInv'
    OBVIOUS
<1> USE DEF QInv
<1>1. UNCHANGED <<requests, handler, job>> /\ \A l : In(l)' = In(l)
    BY DEF Reload, ReloadClose, ReloadConfigure, ReloadOpen, In
<1>2. CASE ReloadClose
    <2>1. /\ reloading = "no" /\ reloads' = reloads + 1 /\ reloading' = "closed"
          /\ UNCHANGED <<tokens, concurrency, worker>>
        BY <1>2 DEF ReloadClose
    <2>2. Types' /\ Holding' /\ Exclusive' /\ Listed' /\ Rendering'
        BY <1>1, <2>1 DEF Types, Holding, Exclusive, Listed, Rendering, At
    <2>3. reloads' > 0 /\ \A w \in Workers : worker[w] # "none" => w[1] <= reloads /\ w[1] \in Nat
        BY <2>1 DEF Types, Generations, Workers
    <2>4. Generations' /\ UntilReload' /\ TokensMatchRequests'
        BY <2>1, <2>3 DEF Generations, UntilReload, TokensMatchRequests, Types
    <2> QED
        BY <2>2, <2>4
<1>3. CASE ReloadConfigure
    <2>1. /\ reloading # "no" /\ concurrency' \in Limits
          /\ UNCHANGED <<tokens, channel, reloads, worker>>
        BY <1>3 DEF ReloadConfigure
    <2>2. reloads > 0
        BY <2>1 DEF UntilReload
    <2>3. Types' /\ Holding' /\ Exclusive' /\ Listed' /\ Rendering' /\ UntilReload' /\ TokensMatchRequests'
        BY <1>1, <2>1, <2>2 DEF Types, Holding, Exclusive, Listed, Rendering, At, UntilReload, TokensMatchRequests
    <2>4. Generations'
        BY <2>1 DEF Generations
    <2> QED
        BY <2>3, <2>4
<1>4. CASE ReloadOpen
    <2>1. /\ reloading = "configured" /\ reloading' = "no" /\ UNCHANGED <<reloads, concurrency>>
          /\ tokens' \in {0, tokens}
          /\ worker' \in {worker, [w \in Workers |->
                  IF w \in Started(reloads, concurrency) THEN "receive" ELSE worker[w]]}
        BY <1>4 DEF ReloadOpen
    <2>2. reloads > 0 /\ reloads \in Nat
        BY <2>1 DEF UntilReload, Types
    <2>3. \A w \in Workers : w \in Started(reloads, concurrency) => w[1] = reloads /\ worker[w] = "none"
        BY <2>1, <2>2 DEF Started, Generations
    <2>4. worker \in [Workers -> WorkerLabels]
        BY DEF Types
    <2>5. \A w \in Workers : \/ worker'[w] = worker[w]
                             \/ worker[w] = "none" /\ worker'[w] = "receive" /\ w[1] = reloads
        BY <2>1, <2>3, <2>4
    <2>6. worker' \in [Workers -> WorkerLabels]
        BY <2>1, <2>4 DEF WorkerLabels
    <2>7. Types'
        BY <1>1, <2>1, <2>6 DEF Types
    <2>8. Generations'
        BY <2>1, <2>2, <2>5 DEF Generations
    <2>9. At("busy")' = At("busy")
        BY <2>5 DEF At
    <2>10. Rendering' /\ Exclusive' /\ Listed'
        BY <1>1, <2>9 DEF Rendering, Exclusive, Listed
    <2>11. Holding'
        BY <1>1, <2>5 DEF Holding
    <2>12. UntilReload' /\ TokensMatchRequests'
        BY <2>1, <2>2, TileQueueAssumption DEF UntilReload, TokensMatchRequests
    <2> QED
        BY <2>7, <2>8, <2>10, <2>11, <2>12
<1> QED
    BY <1>2, <1>3, <1>4 DEF Reload

LEMMA QInvNext == QInv /\ [Next]_vars => QInv'
<1> SUFFICES ASSUME QInv, [Next]_vars PROVE QInv'
    OBVIOUS
<1>1. ASSUME NEW h \in Handlers, Request(h) \/ Handle(h)
      PROVE  QInv'
    BY <1>1, QInvRequest, QInvSendToken, QInvFinish, QInvPanic DEF Handle
<1>2. ASSUME NEW w \in Workers, Work(w)
      PROVE  QInv'
    BY <1>2, QInvReceive, QInvPick, QInvHand DEF Work
<1>3. CASE Reload
    BY <1>3, QInvReload
<1>4. CASE UNCHANGED vars
    BY <1>4 DEF QInv, vars, Types, Generations, UntilReload, Holding, Rendering, Exclusive, Listed,
                TokensMatchRequests, In, At
<1> QED
    BY <1>1, <1>2, <1>3, <1>4 DEF Next

LEMMA QInvariance == Spec => []QInv
<1> QED
    BY QInvInit, QInvNext, PTL DEF Spec

\* Each handler that renders has a worker of its own, so there are no more of
\* them than workers started.
LEMMA QInvBounds == QInv => RenderingBounded
<1> SUFFICES ASSUME QInv PROVE RenderingBounded
    OBVIOUS
<1> USE DEF QInv
<1>1. ASSUME NEW h \in In("run")
      PROVE  Cardinality({w \in At("busy") : h \in job[w]}) = 1
    <2>1. PICK w \in At("busy") : h \in job[w]
        BY DEF Rendering
    <2>2. {v \in At("busy") : h \in job[v]} = {w}
        BY <2>1 DEF Exclusive, At
    <2> QED
        BY <2>2, FS_Singleton
<1>2. ASSUME reloads = 0
      PROVE  Cardinality(In("run")) <= concurrency
    <2> DEFINE waits == [h \in In("run") |-> CHOOSE w \in At("busy") : h \in job[w]]
    <2>1. \A h \in In("run") : waits[h] \in At("busy") /\ h \in job[waits[h]]
        BY DEF Rendering
    <2>2. \A h \in In("run") : waits[h] \in Started(0, concurrency)
        BY <1>2, <2>1 DEF UntilReload, At
    <2>3. waits \in [In("run") -> Started(0, concurrency)]
        BY <2>2
    <2> HIDE DEF waits
    <2>4. \A g, h \in In("run") : waits[g] = waits[h] => g = h
        BY <2>1 DEF Holding, At
    <2>5. waits \in Injection(In("run"), Started(0, concurrency))
        BY <2>3, <2>4 DEF Injection, IsInjective
    <2>6. Cardinality(In("run")) <= Cardinality(Started(0, concurrency))
        BY <2>5, FiniteSets, FS_Injection
    <2> QED
        BY <2>6, FiniteSets
<1> QED
    BY <1>1, <1>2 DEF RenderingBounded

----------------------------------------------------------------------------
\* Until a reload every request of the list is announced by one token, for any
\* number of handlers and workers: pushApiRequest and popBestApiRequest never
\* leave a request that no worker will look for, nor a worker that finds none.
THEOREM TokensMatch == Spec => []TokensMatchRequests
<1>1. QInv => TokensMatchRequests
    BY DEF QInv
<1> QED
    BY <1>1, QInvariance, PTL

\* A handler renders only while exactly one worker waits for it, also across
\* reloads, and until one no more render than tile_requests.concurrency allows.
THEOREM RenderingIsBounded == Spec => []RenderingBounded
<1> QED
    BY QInvBounds, QInvariance, PTL
=============================================================================

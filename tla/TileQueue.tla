------------------------------ MODULE TileQueue ------------------------------
(***************************************************************************)
(* The tile request queue of main.go.  A handler appends its request to a  *)
(* list under a lock and then puts a token into a channel; a worker takes  *)
(* a token, then the best request of the list, lets the handler run and    *)
(* waits until it is done.  A reload (applyConfig) closes the channel and  *)
(* later opens another one with workers of its own.                        *)
(*                                                                         *)
(* Workers and handlers read the global channel each time they use it.  A  *)
(* goroutine that was blocked in the old channel when it was closed has    *)
(* the same outcomes as one that finds it closed, so the variables hold    *)
(* one channel.                                                            *)
(***************************************************************************)
EXTENDS Integers, Sequences, FiniteSets, SequencesExt

CONSTANTS
    Handlers,       \* HTTP requests for tiles and features
    Kind,           \* "tile" or "features"
    Zoom,           \* a tile's zoom level
    Capacity,       \* of the token channel: 10000 in the code
    Limits,         \* values of tile_requests.concurrency, 0 for no queue
    MaxReloads,     \* bound: reloads of the configuration
    MaxPanics       \* bound: handlers that panic

ASSUME TileQueueAssumption ==
    /\ IsFiniteSet(Handlers)
    /\ Kind \in [Handlers -> {"tile", "features"}]
    /\ Zoom \in [Handlers -> Int]
    /\ Capacity \in Nat \ {0}
    /\ Limits \subseteq Nat /\ IsFiniteSet(Limits)
    /\ MaxReloads \in Nat /\ MaxPanics \in Nat

VARIABLES
    requests,       \* the list
    tokens,         \* how many the channel holds
    channel,        \* requestsOut: "nil", "open" or "closed"
    concurrency,    \* tileRequestConfig.Concurrency
    reloading,      \* where applyConfig is
    reloads,        \* how often it was called
    handler,        \* where each handler is
    worker,         \* where each worker is
    job             \* the request a worker holds: a set of at most one

vars == <<requests, tokens, channel, concurrency, reloading, reloads, handler,
          worker, job>>

\* A worker is named by the reload that started it.
MaxLimit == CHOOSE n \in Limits : \A m \in Limits : m <= n
Workers == (0..MaxReloads) \X (1..MaxLimit)

\* GetTilesRequestPriority, and the constant for features; lower is better.
MaxPriority == 127
Priority(h) ==
    CASE Kind[h] = "features" -> -10
      [] Kind[h] = "tile" /\ Zoom[h] \in 0..99 -> Zoom[h]
      [] OTHER -> 100

Started(generation, n) == {generation} \X (1..n)

Init ==
    /\ requests = <<>>
    /\ tokens = 0
    /\ concurrency \in Limits
    /\ channel = IF concurrency > 0 THEN "open" ELSE "nil"
    /\ reloading = "no"
    /\ reloads = 0
    /\ handler = [h \in Handlers |-> "idle"]
    /\ worker = [w \in Workers |->
                    IF w \in Started(0, concurrency) THEN "receive" ELSE "none"]
    /\ job = [w \in Workers |-> {}]

Go(h, label) == handler' = [handler EXCEPT ![h] = label]
Step(w, label) == worker' = [worker EXCEPT ![w] = label]

----------------------------------------------------------------------------
(* Handlers.                                                               *)

\* The request is handled directly, or appended to the list.
Request(h) ==
    /\ handler[h] = "idle"
    /\ IF concurrency = 0
       THEN Go(h, "direct") /\ UNCHANGED requests
       ELSE Go(h, "send") /\ requests' = Append(requests, h)
    /\ UNCHANGED <<tokens, channel, concurrency, reloading, reloads, worker, job>>

\* Faulty variant: the token is dropped when the channel is full.
SendTokenOrNot(h) ==
    /\ handler[h] = "send"
    /\ channel = "open"
    /\ Go(h, "wait")
    /\ tokens' = IF tokens < Capacity THEN tokens + 1 ELSE tokens
    /\ UNCHANGED <<requests, channel, concurrency, reloading, reloads, worker, job>>

\* requestsOut <- struct{}{}: a closed channel panics, and the middleware
\* answers; a nil channel blocks for ever.
SendToken(h) ==
    /\ handler[h] = "send"
    /\ \/ channel = "open" /\ tokens < Capacity /\ Go(h, "wait") /\ tokens' = tokens + 1
       \/ channel = "closed" /\ Go(h, "failed") /\ UNCHANGED tokens
       \/ channel = "nil" /\ Go(h, "stuck") /\ UNCHANGED tokens
    /\ UNCHANGED <<requests, channel, concurrency, reloading, reloads, worker, job>>

\* request.Handler() returns, and a worker's request.Done is received.
Finish(h) ==
    /\ handler[h] \in {"run", "direct"}
    /\ Go(h, "served")
    /\ worker' = [w \in Workers |->
                    IF worker[w] = "busy" /\ h \in job[w] THEN "receive" ELSE worker[w]]
    /\ job' = [w \in Workers |-> job[w] \ {h}]
    /\ UNCHANGED <<requests, tokens, channel, concurrency, reloading, reloads>>

\* It panics: the middleware answers, Done is never sent.
Panic(h) ==
    /\ handler[h] \in {"run", "direct"}
    /\ Cardinality({g \in Handlers : handler[g] = "failed"}) < MaxPanics
    /\ Go(h, "failed")
    /\ UNCHANGED <<requests, tokens, channel, concurrency, reloading, reloads,
                   worker, job>>

----------------------------------------------------------------------------
(* Workers: processTileRequests and popBestApiRequest.                     *)

\* A closed channel gives its tokens first, then as many as asked for.
Receive(w) ==
    /\ worker[w] = "receive"
    /\ \/ tokens > 0 /\ tokens' = tokens - 1
       \/ channel = "closed" /\ tokens = 0 /\ UNCHANGED tokens
    /\ Step(w, "pick")
    /\ UNCHANGED <<requests, channel, concurrency, reloading, reloads, handler, job>>

\* The first of the requests with the lowest priority below the maximum.
Best ==
    {i \in DOMAIN requests :
        /\ Priority(requests[i]) < MaxPriority
        /\ \A j \in DOMAIN requests :
              \/ Priority(requests[i]) < Priority(requests[j])
              \/ Priority(requests[i]) = Priority(requests[j]) /\ i <= j}

\* Faulty variant: the request stays in the list.
PickOnly(w) ==
    /\ worker[w] = "pick"
    /\ \E i \in Best : job' = [job EXCEPT ![w] = {requests[i]}] /\ Step(w, "hand")
    /\ UNCHANGED <<requests, tokens, channel, concurrency, reloading, reloads, handler>>

\* With no request, the worker sends on a nil channel for ever.
Pick(w) ==
    /\ worker[w] = "pick"
    /\ \/ /\ Best = {}
          /\ Step(w, "stuck")
          /\ UNCHANGED <<requests, job>>
       \/ \E i \in Best :
             /\ requests' = RemoveAt(requests, i)
             /\ job' = [job EXCEPT ![w] = {requests[i]}]
             /\ Step(w, "hand")
    /\ UNCHANGED <<tokens, channel, concurrency, reloading, reloads, handler>>

\* Faulty variant: the worker does not wait for Done.
HandOnly(w) ==
    /\ worker[w] = "hand"
    /\ \E h \in job[w] : handler[h] = "wait" /\ Go(h, "run")
    /\ Step(w, "receive")
    /\ job' = [job EXCEPT ![w] = {}]
    /\ UNCHANGED <<requests, tokens, channel, concurrency, reloading, reloads>>

\* request.Process: both sides have to be there.
Hand(w) ==
    /\ worker[w] = "hand"
    /\ \E h \in job[w] : handler[h] = "wait" /\ Go(h, "run")
    /\ Step(w, "busy")
    /\ UNCHANGED <<requests, tokens, channel, concurrency, reloading, reloads, job>>

----------------------------------------------------------------------------
(* applyConfig.                                                            *)

ReloadClose ==
    /\ reloading = "no"
    /\ reloads < MaxReloads
    /\ reloads' = reloads + 1
    /\ reloading' = "closed"
    /\ channel' = IF concurrency > 0 THEN "closed" ELSE channel
    /\ UNCHANGED <<requests, tokens, concurrency, handler, worker, job>>

ReloadConfigure ==
    /\ reloading = "closed"
    /\ reloading' = "configured"
    /\ concurrency' \in Limits
    /\ UNCHANGED <<requests, tokens, channel, reloads, handler, worker, job>>

\* Tokens of the old channel are lost, requests in the list stay.
ReloadOpen ==
    /\ reloading = "configured"
    /\ reloading' = "no"
    /\ IF concurrency > 0
       THEN /\ channel' = "open"
            /\ tokens' = 0
            /\ worker' = [w \in Workers |->
                  IF w \in Started(reloads, concurrency) THEN "receive" ELSE worker[w]]
       ELSE UNCHANGED <<channel, tokens, worker>>
    /\ UNCHANGED <<requests, concurrency, reloads, handler, job>>

----------------------------------------------------------------------------
Handle(h) == SendToken(h) \/ Finish(h) \/ Panic(h)
Work(w) == Receive(w) \/ Pick(w) \/ Hand(w)
Reload == ReloadClose \/ ReloadConfigure \/ ReloadOpen

Next ==
    \/ \E h \in Handlers : Request(h) \/ Handle(h)
    \/ \E w \in Workers : Work(w)
    \/ Reload

Spec == Init /\ [][Next]_vars

\* Some goroutine that can run does, and a reload that has begun goes on.
FairSpec ==
    /\ Spec
    /\ WF_vars(\E h \in Handlers : Handle(h))
    /\ WF_vars(\E w \in Workers : Work(w))
    /\ WF_vars(ReloadConfigure \/ ReloadOpen)

----------------------------------------------------------------------------
(* Properties.                                                             *)

In(label) == {h \in Handlers : handler[h] = label}
At(label) == {w \in Workers : worker[w] = label}

\* pushApiRequest and popBestApiRequest change the list and the channel one
\* after the other, yet until a reload every request of the list is announced by
\* one token: in the channel, about to be sent, or taken by a worker that has
\* still to look.  So a worker with a token finds a request, and none is left.
TokensMatchRequests ==
    /\ reloads = 0 => Len(requests) = tokens + Cardinality(In("send")) + Cardinality(At("pick"))
    /\ tokens <= Capacity

\* A handler renders only while one worker waits for it, and only the
\* configured number of them at once until a reload leaves old workers behind.
RenderingBounded ==
    /\ \A h \in In("run") : Cardinality({w \in At("busy") : h \in job[w]}) = 1
    /\ reloads = 0 => Cardinality(In("run")) <= concurrency

\* Every request is rendered or fails, whatever its priority, as long as fewer
\* handlers panic than there are workers, each of which costs one.
EveryRequestAnswered ==
    \A h \in Handlers :
        handler[h] # "idle" ~>
            \/ handler[h] \in {"served", "failed"}
            \/ reloads > 0
            \/ Cardinality(In("failed")) >= concurrency
=============================================================================

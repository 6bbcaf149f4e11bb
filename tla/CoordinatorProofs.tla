------------------------- MODULE CoordinatorProofs -------------------------
(***************************************************************************)
(* Theorems about the pipeline coordinator, for any number of collections, *)
(* requests and calls.                                                     *)
(***************************************************************************)
EXTENDS Coordinator, SequenceLemmas

\* A task is inserted between two neighbours or at an end of the queue.
LEMMA InsertionPointInRange ==
    ASSUME NEW S, NEW q \in Seq(S), NEW t
    PROVE  InsertionPoint(q, t) \in 1..Len(q) + 1
<1>. DEFINE I == {i \in 1..Len(q) : Before(t, q[i])}
            first == IF I # {} THEN Min(I) ELSE 0
<1>1. InsertionPoint(q, t) = IF first = 0 THEN Len(q) + 1 ELSE first
  BY DEF InsertionPoint, SelectInSeq
<1>2. CASE I = {}
  BY <1>1, <1>2
<1>3. CASE I # {}
  <2>1. I \in SUBSET Nat
    OBVIOUS
  <2>2. Min(I) \in I
    BY <1>3, <2>1, MinOfNaturals
  <2>. QED  BY <1>1, <1>3, <2>2
<1>. QED  BY <1>2, <1>3

\* Inserting a task lengthens the queue by that task and keeps the others in
\* their order.
LEMMA InsertSortedElements ==
    ASSUME NEW S, NEW q \in Seq(S), NEW t \in S
    PROVE  LET r == InsertSorted(q, t)
               pos == InsertionPoint(q, t)
           IN  /\ r \in Seq(S)
               /\ Len(r) = Len(q) + 1
               /\ r[pos] = t
               /\ \A i \in 1..pos - 1 : r[i] = q[i]
               /\ \A i \in pos + 1..Len(q) + 1 : r[i] = q[i - 1]
<1>. DEFINE pos == InsertionPoint(q, t)
            r == InsertAt(q, pos, t)
<1>1. pos \in 1..Len(q) + 1
  BY InsertionPointInRange
<1>2. InsertSorted(q, t) = r
  BY DEF InsertSorted
<1>. HIDE DEF pos
<1>3. /\ r \in Seq(S)
      /\ Len(r) = Len(q) + 1
      /\ r[pos] = t
      /\ \A i \in 1..pos - 1 : r[i] = q[i]
      /\ \A i \in pos + 1..Len(q) + 1 : r[i] = q[i - 1]
  BY ONLY <1>1, q \in Seq(S), t \in S, InsertAtElements
<1>. HIDE DEF r
<1>. QED  BY ONLY <1>2, <1>3 DEF pos

\* Taking a task off the queue by Id leaves the queue alone or closes the gap.
LEMMA UnqueuedElements ==
    ASSUME NEW S, NEW q \in Seq(S), NEW id
    PROVE  LET r == Unqueued(q, id)
           IN  /\ r \in Seq(S)
               /\ \/ r = q
                  \/ \E pos \in 1..Len(q) :
                        /\ Len(r) = Len(q) - 1
                        /\ \A i \in 1..pos - 1 : r[i] = q[i]
                        /\ \A i \in pos..Len(q) - 1 : r[i] = q[i + 1]
<1>. DEFINE I == {i \in 1..Len(q) : tasks[q[i]] = id}
<1>1. CASE I = {}
  <2>1. Unqueued(q, id) = q
    BY <1>1 DEF Unqueued, RemoveFirstMatch
  <2>. QED  BY <2>1
<1>2. CASE I # {}
  <2>1. Unqueued(q, id) = RemoveAt(q, Min(I))
    BY <1>2 DEF Unqueued, RemoveFirstMatch, SelectInSeq
  <2>2. I \in SUBSET Nat
    OBVIOUS
  <2>3. Min(I) \in 1..Len(q)
    BY <1>2, <2>2, MinOfNaturals
  <2>. HIDE DEF I
  <2>. QED  BY <2>1, <2>3, RemoveAtElements
<1>. QED  BY <1>1, <1>2

----------------------------------------------------------------------------
(* Type correctness.                                                       *)

\* The stages with a priority are the four that tasks are created for.
LEMMA StagesAre == Stages = {"files", "metadata", "contents", "faces"}
  BY DEF Stages, Priority

\* Pairing every stage of a call with a collection gives as many task Ids.
LEMMA CallIds ==
    ASSUME NEW call \in Seq(Stages), call # <<>>, NEW col \in Collections
    PROVE  LET ids == [i \in DOMAIN call |-> [stage |-> call[i], collection |-> col]]
           IN  ids \in Seq(Id) /\ ids # <<>>
<1>. DEFINE ids == [i \in 1..Len(call) |-> [stage |-> call[i], collection |-> col]]
<1>1. Len(call) \in Nat /\ Len(call) # 0 /\ DOMAIN call = 1..Len(call)
  BY EmptySeq
<1>2. ids \in [1..Len(call) -> Id]
  BY DEF Id
<1>3. ids \in Seq(Id) /\ Len(ids) = Len(call)
  BY <1>1, <1>2
<1>. QED  BY <1>1, <1>3

\* The new coordinator is well-formed, and nobody holds a task.
LEMMA InitTyped == Init => TypeOK /\ Control
<1>. SUFFICES ASSUME Init PROVE TypeOK /\ Control
  OBVIOUS
<1>. USE CoordinatorAssumption DEF Init, Proc, NoTask, ClientLabels, WorkerLabels
<1>1. tasks \in Seq(Id) /\ queue \in Seq(DOMAIN tasks) /\ Len(queue) = 0
  OBVIOUS
<1>2. registry \in [Id -> DOMAIN tasks \cup {NoTask}]
  OBVIOUS
<1>3. /\ todo \in [Proc -> Seq(Id)]
      /\ held \in [Proc -> DOMAIN tasks \cup {NoTask}]
  OBVIOUS
<1>4. /\ pc \in [Proc -> ClientLabels \cup WorkerLabels]
      /\ pc[Worker] = "select"
      /\ \A c \in Clients : pc[c] = "idle"
  OBVIOUS
<1>5. /\ signal \in BOOLEAN /\ shut \in BOOLEAN /\ closer = "open" /\ drained = 0
      /\ cancelled = {} /\ started = {} /\ current = NoTask
  OBVIOUS
<1>8. calls \in 0..MaxCalls
  BY ONLY Init, CoordinatorAssumption DEF Init
<1>6. TypeOK
  BY <1>1, <1>2, <1>3, <1>4, <1>5, <1>8 DEF TypeOK
<1>7. Control
  BY ONLY <1>1, <1>4, <1>5, CoordinatorAssumption DEF Control, Proc
<1>. QED  BY <1>6, <1>7

\* Every step of a request, a stop, the worker or Close keeps the state well-formed,
\* and gives each goroutine what its next step needs.
LEMMA StepTyped == TypeOK /\ Control /\ [Next]_vars => (TypeOK /\ Control)'
<1>. SUFFICES ASSUME TypeOK, Control, [Next]_vars
              PROVE  (TypeOK /\ Control)'
  OBVIOUS
<1>. USE CoordinatorAssumption
     DEF TypeOK, Control, Proc, ClientLabels, WorkerLabels, NoTask,
         work, adder, closing, Goto
<1>1. ASSUME NEW p \in Proc, Register(p) PROVE (TypeOK /\ Control)'
  <2>. DEFINE id == Head(todo[p])
              rest == Tail(todo[p])
  <2>1. id \in Id /\ rest \in Seq(Id)
    BY <1>1 DEF Register
  <2>2. CASE registry[id] # NoTask
    <3>1. /\ todo' = [todo EXCEPT ![p] = rest]
          /\ pc' = [pc EXCEPT ![p] = IF rest = <<>> THEN AfterAdding(p) ELSE "register"]
          /\ UNCHANGED <<tasks, registry, held, queue, signal, cancelled, calls,
                         work, closing>>
      BY <1>1, <2>2 DEF Register
    <3>2. pc[p] = "register"
      BY <1>1 DEF Register
    <3>. HIDE DEF id, rest
    <3>3. CASE rest = <<>>
      BY <2>1, <3>1, <3>2, <3>3 DEF AfterAdding
    <3>4. CASE rest # <<>>
      BY <2>1, <3>1, <3>2, <3>4
    <3>. QED  BY <3>3, <3>4
  <2>3. CASE registry[id] = NoTask
    <3>1. /\ tasks' = Append(tasks, id)
          /\ registry' = [registry EXCEPT ![id] = Len(tasks) + 1]
          /\ held' = [held EXCEPT ![p] = Len(tasks) + 1]
          /\ todo' = [todo EXCEPT ![p] = rest]
          /\ pc' = [pc EXCEPT ![p] = "insert"]
          /\ UNCHANGED <<queue, signal, cancelled, calls, work, closing>>
      BY <1>1, <2>3 DEF Register
    <3>. HIDE DEF id, rest
    <3>2. /\ tasks' \in Seq(Id)
          /\ Len(tasks') = Len(tasks) + 1
          /\ DOMAIN tasks' = DOMAIN tasks \cup {Len(tasks) + 1}
      BY <2>1, <3>1
    <3>3. queue \in Seq(DOMAIN tasks')
      BY <3>2
    <3>4. /\ registry' \in [Id -> DOMAIN tasks' \cup {NoTask}]
          /\ held' \in [Proc -> DOMAIN tasks' \cup {NoTask}]
          /\ held'[p] # NoTask
      BY <2>1, <3>1, <3>2
    <3>5. pc[p] = "register"
      BY <1>1 DEF Register
    <3>6. TypeOK'
      BY <2>1, <3>1, <3>2, <3>3, <3>4, <3>5
    <3>7. Control'
      BY <2>1, <3>1, <3>4, <3>5
    <3>. QED  BY <3>6, <3>7
  <2>. QED  BY <2>2, <2>3
<1>2. ASSUME NEW p \in Proc, Insert(p) PROVE (TypeOK /\ Control)'
  <2>1. held[p] \in DOMAIN tasks
    BY <1>2 DEF Insert
  <2>2. queue' \in Seq(DOMAIN tasks)
    BY <1>2, <2>1, InsertSortedElements DEF Insert
  <2>3. closer \notin {"draining", "unregistering"}
    BY <1>2 DEF Insert, QueueUnlocked
  <2>. QED  BY <1>2, <2>2, <2>3 DEF Insert
<1>3. ASSUME NEW p \in Proc, Notify(p) PROVE (TypeOK /\ Control)'
  BY <1>3 DEF Notify, AfterAdding
<1>4. ASSUME NEW c \in Clients, Request(c) PROVE (TypeOK /\ Control)'
  <2>1. PICK call \in Calls, col \in Collections :
           todo' = [todo EXCEPT ![c] =
                      [i \in DOMAIN call |-> [stage |-> call[i], collection |-> col]]]
    BY <1>4 DEF Request
  <2>2. todo'[c] \in Seq(Id) /\ todo'[c] # <<>>
    BY <2>1, CallIds
  <2>3. /\ todo' \in [Proc -> Seq(Id)]
        /\ \A p \in Proc \ {c} : todo'[p] = todo[p]
    BY <2>1, <2>2
  <2>4. calls' \in 0..MaxCalls
    BY <1>4 DEF Request
  <2>5. /\ pc' = [pc EXCEPT ![c] = "register"]
        /\ UNCHANGED <<tasks, registry, queue, signal, cancelled, work, held, closing>>
    BY <1>4 DEF Request
  <2>. QED  BY <2>2, <2>3, <2>4, <2>5
<1>5. ASSUME NEW c \in Clients, Stop(c) PROVE (TypeOK /\ Control)'
  BY <1>5 DEF Stop
<1>6. ASSUME NEW c \in Clients, Unqueue(c) PROVE (TypeOK /\ Control)'
  <2>1. queue' \in Seq(DOMAIN tasks)
    BY <1>6, UnqueuedElements DEF Unqueue
  <2>2. closer \notin {"draining", "unregistering"}
    BY <1>6 DEF Unqueue, QueueUnlocked
  <2>. QED  BY <1>6, <2>1, <2>2 DEF Unqueue
<1>7. ASSUME NEW c \in Clients, Cancel(c) PROVE (TypeOK /\ Control)'
  BY <1>7 DEF Cancel
<1>8. ASSUME NEW c \in Clients, Delete(c) PROVE (TypeOK /\ Control)'
  BY <1>8 DEF Delete
<1>9. CASE Exit
  BY <1>9 DEF Exit
<1>10. CASE Wake
  BY <1>10 DEF Wake
<1>11. CASE Dequeue
  <2>1. CASE queue = <<>>
    BY <1>11, <2>1 DEF Dequeue
  <2>2. CASE queue # <<>>
    <3>1. Front(queue) \in Seq(DOMAIN tasks) /\ Last(queue) \in DOMAIN tasks
      <4>. DEFINE D == DOMAIN tasks
      <4>1. queue \in Seq(D)
        OBVIOUS
      <4>. HIDE DEF D
      <4>2. Front(queue) \in Seq(D) /\ Last(queue) \in D
        BY ONLY <4>1, <2>2, FrontElements
      <4>. QED  BY <4>2 DEF D
    <3>2. closer \notin {"draining", "unregistering"}
      BY <1>11 DEF Dequeue, QueueUnlocked
    <3>. QED  BY <1>11, <2>2, <3>1, <3>2 DEF Dequeue
  <2>. QED  BY <2>1, <2>2
<1>12. CASE ScanSucceeds
  <2>4. FollowUps \in Seq(Stages) /\ FollowUps # <<>>
    BY ONLY StagesAre DEF FollowUps
  <2>5. current \in DOMAIN tasks /\ tasks[current] \in Id
    BY <1>12 DEF ScanSucceeds
  <2>1. /\ FollowUps \in Seq(Stages) /\ FollowUps # <<>>
        /\ tasks[current].collection \in Collections
    BY <2>4, <2>5 DEF Id
  <2>2. /\ todo'[Worker] \in Seq(Id) /\ todo'[Worker] # <<>>
        /\ todo' \in [Proc -> Seq(Id)]
        /\ \A p \in Clients : todo'[p] = todo[p]
    BY <1>12, <2>1, CallIds DEF ScanSucceeds
  <2>3. /\ pc' = [pc EXCEPT ![Worker] = "register"]
        /\ UNCHANGED <<tasks, registry, queue, signal, cancelled, calls, work, held, closing>>
    BY <1>12 DEF ScanSucceeds
  <2>. QED  BY <1>12, <2>2, <2>3 DEF ScanSucceeds
<1>13. CASE RunEnds
  BY <1>13 DEF RunEnds
<1>14. CASE Unregister
  BY <1>14 DEF Unregister
<1>15. CASE Complete
  BY <1>15 DEF Complete
<1>16. CASE Resignal
  BY <1>16 DEF Resignal
<1>17. CASE CloseContext
  BY <1>17 DEF CloseContext
<1>18. CASE LockQueue
  BY <1>18 DEF LockQueue
<1>19. CASE DrainCancel
  BY <1>19 DEF DrainCancel
<1>20. CASE DrainDelete
  BY <1>20 DEF DrainDelete
<1>21. CASE CloseQueue
  BY <1>21 DEF CloseQueue
<1>22. CASE UNCHANGED vars
  BY <1>22 DEF vars
<1>. QED
  BY <1>1, <1>2, <1>3, <1>4, <1>5, <1>6, <1>7, <1>8, <1>9, <1>10, <1>11, <1>12,
     <1>13, <1>14, <1>15, <1>16, <1>17, <1>18, <1>19, <1>20, <1>21, <1>22
  DEF Next, Adding, Stopping, Running, Closing

\* TypeOK: the coordinator's state stays well-formed.
THEOREM TypeCorrect == Spec => []TypeOK
<1>1. TypeOK /\ Control /\ [Next]_vars => (TypeOK /\ Control)'
  BY StepTyped
<1>. QED  BY <1>1, InitTyped, PTL DEF Spec

----------------------------------------------------------------------------
(* A task is at one place at a time.                                       *)

\* Only Insert, Unqueue, Dequeue and CloseQueue touch the queue, and a task
\* comes to be held for insertion only by Register.
LEMMA StepPlaced ==
    TypeOK /\ Control /\ Placement /\ [Next]_vars => Placement'
<1>. SUFFICES ASSUME TypeOK, Control, Placement, [Next]_vars
              PROVE  Placement'
  OBVIOUS
<1>. USE DEF Placement, Queued, Goto, work
<1>1. ASSUME NEW p \in Proc, Register(p) PROVE Placement'
  <2>. DEFINE n == Len(tasks) + 1
  <2>1. n \notin DOMAIN tasks /\ n \notin Queued \cup started
    BY DEF TypeOK
  <2>2. pc \in [Proc -> ClientLabels \cup WorkerLabels] /\ UNCHANGED <<queue, started>>
    BY <1>1 DEF TypeOK, Register
  <2>3. CASE pc'[p] # "insert"
    <3>1. UNCHANGED held /\ \A q \in Proc : q # p => pc'[q] = pc[q]
      BY <1>1, <2>2, <2>3 DEF Register
    <3>. QED  BY <2>2, <2>3, <3>1
  <2>4. CASE pc'[p] = "insert"
    <3>1. held' = [held EXCEPT ![p] = n] /\ pc' = [pc EXCEPT ![p] = "insert"]
      BY <1>1, <2>2, <2>4 DEF Register, AfterAdding
    <3>2. \A q \in Proc : held[q] # n
      BY <2>1 DEF TypeOK, NoTask
    <3>. HIDE DEF n
    <3>. QED  BY <2>1, <2>2, <3>1, <3>2 DEF TypeOK
  <2>. QED  BY <2>3, <2>4
<1>2. ASSUME NEW p \in Proc, Insert(p) PROVE Placement'
  <2>. DEFINE D == DOMAIN tasks
              t == held[p]
  <2>1. /\ queue \in Seq(D) /\ t \in D /\ pc[p] = "insert"
        /\ queue' = InsertSorted(queue, t) /\ UNCHANGED started
        /\ pc' = [pc EXCEPT ![p] = "notify"]
        /\ held' = [held EXCEPT ![p] = NoTask]
    BY <1>2 DEF Insert, TypeOK, Control
  <2>0. t = held[p]
    OBVIOUS
  <2>. HIDE DEF D, t
  <2>a. queue \in Seq(D) /\ t \in D
    BY <2>1
  <2>. DEFINE pos == InsertionPoint(queue, t)
  <2>b. queue' = InsertSorted(queue, t)
    BY <2>1
  <2>c. pos \in 1..Len(queue) + 1
    BY ONLY <2>a, InsertionPointInRange
  <2>2. /\ queue' \in Seq(D) /\ Len(queue') = Len(queue) + 1
        /\ queue'[pos] = t
        /\ \A i \in 1..pos - 1 : queue'[i] = queue[i]
        /\ \A i \in pos + 1..Len(queue) + 1 : queue'[i] = queue[i - 1]
    <3>. DEFINE r == InsertSorted(queue, t)
    <3>1. r \in Seq(D) /\ Len(r) = Len(queue) + 1
      BY ONLY <2>a, InsertSortedElements
    <3>3. r[pos] = t
      BY ONLY <2>a, InsertSortedElements
    <3>4. \A i \in 1..pos - 1 : r[i] = queue[i]
      BY ONLY <2>a, InsertSortedElements
    <3>5. \A i \in pos + 1..Len(queue) + 1 : r[i] = queue[i - 1]
      BY ONLY <2>a, InsertSortedElements
    <3>. HIDE DEF r, pos
    <3>2. queue' = r
      BY <2>b DEF r
    <3>. QED  BY ONLY <3>1, <3>2, <3>3, <3>4, <3>5
  <2>. HIDE DEF pos
  <2>3. /\ \A i \in DOMAIN queue' :
              \/ i = pos
              \/ i < pos /\ i \in DOMAIN queue /\ queue'[i] = queue[i]
              \/ i > pos /\ i - 1 \in DOMAIN queue /\ queue'[i] = queue[i - 1]
        /\ DOMAIN queue' \subseteq Nat /\ DOMAIN queue \subseteq Nat
    <3>1. /\ DOMAIN queue' = 1..Len(queue) + 1 /\ DOMAIN queue = 1..Len(queue)
          /\ Len(queue) \in Nat
      BY ONLY <2>1, <2>2
    <3>2. ASSUME NEW i \in 1..Len(queue) + 1
          PROVE  \/ i = pos
                 \/ i < pos /\ i \in 1..Len(queue) /\ queue'[i] = queue[i]
                 \/ i > pos /\ i - 1 \in 1..Len(queue) /\ queue'[i] = queue[i - 1]
      BY ONLY <2>2, <2>c, <3>1
    <3>. QED  BY ONLY <3>1, <3>2
  <2>4. t \notin Queued \cup started
    BY <2>0, <2>1
  <2>5. Queued' \subseteq Queued \cup {t}
    BY <2>2, <2>3
  <2>6. \A i, j \in DOMAIN queue' : queue'[i] = queue'[j] => i = j
    <3>1. \A i \in DOMAIN queue : queue[i] # t
      BY <2>4
    <3>2. \A i, j \in DOMAIN queue : queue[i] = queue[j] => i = j
      OBVIOUS
    <3>3. pos \in Nat
      BY <2>1, <2>c
    <3>. QED  BY ONLY <2>2, <2>3, <3>1, <3>2, <3>3
  <2>7. \A q \in Proc : pc'[q] = "insert" => q # p /\ pc[q] = "insert" /\ held'[q] = held[q]
    BY <2>1 DEF TypeOK
  <2>8. \A q \in Proc : pc'[q] = "insert" => held'[q] \notin Queued' \cup started'
    <3>1. \A q \in Proc : pc'[q] = "insert" => held[q] # t /\ held[q] \notin Queued \cup started
      BY <2>0, <2>1, <2>7
    <3>2. \A q \in Proc : pc'[q] = "insert" =>
             held'[q] = held[q] /\ held[q] \notin (Queued \cup {t}) \cup started
      BY <2>7, <3>1
    <3>3. started' = started
      BY <2>1
    <3>. QED  BY ONLY <2>5, <3>2, <3>3
  <2>9. Queued' \cap started' = {}
    BY <2>1, <2>4, <2>5
  <2>. QED  BY <2>6, <2>7, <2>8, <2>9
<1>3. ASSUME NEW c \in Clients, Unqueue(c) PROVE Placement'
  <2>. DEFINE D == DOMAIN tasks
              id == tasks[held[c]]
  <2>1. /\ queue \in Seq(D) /\ queue' = Unqueued(queue, id)
        /\ pc' = [pc EXCEPT ![c] = "cancel"] /\ UNCHANGED <<held, started>>
    BY <1>3 DEF Unqueue, TypeOK, adder
  <2>. HIDE DEF D, id
  <2>2. /\ queue' \in Seq(D)
        /\ \/ queue' = queue
           \/ \E pos \in 1..Len(queue) :
                 /\ Len(queue') = Len(queue) - 1
                 /\ \A i \in 1..pos - 1 : queue'[i] = queue[i]
                 /\ \A i \in pos..Len(queue) - 1 : queue'[i] = queue[i + 1]
    BY ONLY <2>1, UnqueuedElements
  <2>3. /\ Queued' \subseteq Queued
        /\ \A i, j \in DOMAIN queue' : queue'[i] = queue'[j] => i = j
    <3>1. CASE queue' = queue
      BY <3>1
    <3>2. CASE queue' # queue
      <4>1. PICK pos \in 1..Len(queue) :
               /\ Len(queue') = Len(queue) - 1
               /\ \A i \in 1..pos - 1 : queue'[i] = queue[i]
               /\ \A i \in pos..Len(queue) - 1 : queue'[i] = queue[i + 1]
        BY <2>2, <3>2
      <4>2. /\ DOMAIN queue' = 1..Len(queue) - 1 /\ DOMAIN queue = 1..Len(queue)
            /\ Len(queue) \in Nat
        BY ONLY <2>1, <2>2, <4>1
      <4>3. \A i \in DOMAIN queue' :
               \/ i < pos /\ i \in DOMAIN queue /\ queue'[i] = queue[i]
               \/ i >= pos /\ i + 1 \in DOMAIN queue /\ queue'[i] = queue[i + 1]
        BY ONLY <4>1, <4>2
      <4>. QED  BY <4>2, <4>3
    <3>. QED  BY <3>1, <3>2
  <2>4. \A q \in Proc : pc'[q] = "insert" => pc[q] = "insert" /\ held'[q] = held[q]
    BY <2>1 DEF TypeOK
  <2>. QED  BY <2>1, <2>3, <2>4
<1>4. CASE Dequeue
  <2>. DEFINE D == DOMAIN tasks
  <2>1. /\ queue \in Seq(D)
        /\ UNCHANGED held
        /\ \A q \in Proc : pc'[q] = "insert" => pc[q] = "insert"
    BY <1>4 DEF Dequeue, TypeOK, adder
  <2>. HIDE DEF D
  <2>2. CASE queue = <<>>
    BY <1>4, <2>1, <2>2 DEF Dequeue
  <2>3. CASE queue # <<>>
    <3>1. /\ Front(queue) \in Seq(D) /\ Len(Front(queue)) = Len(queue) - 1
          /\ \A i \in 1..Len(queue) - 1 : Front(queue)[i] = queue[i]
          /\ Last(queue) = queue[Len(queue)] /\ Len(queue) \in DOMAIN queue
      BY ONLY <2>1, <2>3, FrontElements
    <3>2. queue' = Front(queue) /\ started' = started \cup {Last(queue)}
      BY <1>4, <2>3 DEF Dequeue
    <3>3. Queued' \subseteq Queued \ {Last(queue)} /\ Last(queue) \in Queued
      BY <2>1, <3>1, <3>2
    <3>4. \A i, j \in DOMAIN queue' : queue'[i] = queue'[j] => i = j
      BY <2>1, <3>1, <3>2
    <3>. QED  BY <2>1, <3>2, <3>3, <3>4
  <2>. QED  BY <2>2, <2>3
<1>5. CASE CloseQueue
  BY <1>5 DEF CloseQueue, adder
<1>6. ASSUME UNCHANGED <<queue, started, held>>,
             \A q \in Proc : pc'[q] = "insert" => pc[q] = "insert"
      PROVE  Placement'
  BY <1>6
<1>7. ASSUME NEW p \in Proc, Notify(p) PROVE Placement'
  BY <1>6, <1>7 DEF Notify, AfterAdding, TypeOK, adder
<1>8. ASSUME NEW c \in Clients, Request(c) PROVE Placement'
  BY <1>6, <1>8 DEF Request, TypeOK
<1>9. ASSUME NEW c \in Clients, Stop(c) \/ Delete(c) PROVE Placement'
  <2>1. /\ UNCHANGED <<queue, started>>
        /\ pc'[c] # "insert" /\ \A q \in Proc \ {c} : pc'[q] = pc[q] /\ held'[q] = held[q]
    BY <1>9 DEF Stop, Delete, TypeOK, Proc
  <2>. QED  BY <2>1
<1>10. ASSUME NEW c \in Clients, Cancel(c) PROVE Placement'
  BY <1>6, <1>10 DEF Cancel, TypeOK, adder
<1>11. CASE Exit \/ Wake \/ RunEnds \/ Unregister \/ Complete \/ Resignal
  BY <1>6, <1>11 DEF Exit, Wake, RunEnds, Unregister, Complete, Resignal, TypeOK, adder
<1>12. CASE ScanSucceeds
  BY <1>6, <1>12 DEF ScanSucceeds, TypeOK
<1>13. CASE CloseContext \/ LockQueue \/ DrainCancel \/ DrainDelete \/ UNCHANGED vars
  BY <1>6, <1>13 DEF CloseContext, LockQueue, DrainCancel, DrainDelete, vars, adder
<1>. QED
  BY <1>1, <1>2, <1>3, <1>4, <1>5, <1>7, <1>8, <1>9, <1>10, <1>11, <1>12, <1>13
  DEF Next, Adding, Stopping, Running, Closing

\* With no tasks, each is at one place.
LEMMA InitPlaced == Init => Placement
<1>. SUFFICES ASSUME Init PROVE Placement
  OBVIOUS
<1>1. queue = <<>> /\ \A p \in Proc : pc[p] # "insert"
  BY DEF Init
<1>. QED  BY <1>1 DEF Placement, Queued

\* IInv is an inductive invariant of the coordinator: in particular no task is
\* ever queued twice, or queued again once the worker has taken it.
THEOREM Invariance == Spec => []IInv
<1>1. Init => IInv
  BY InitTyped, InitPlaced DEF IInv
<1>2. IInv /\ [Next]_vars => IInv'
  BY StepTyped, StepPlaced DEF IInv
<1>. QED  BY <1>1, <1>2, PTL DEF Spec

----------------------------------------------------------------------------
(* No lost wakeup.                                                         *)

\* Every step keeps a wakeup on its way to a worker that sleeps on queued tasks.
LEMMA StepNotified ==
    TypeOK /\ Control /\ NoLostWakeup /\ [Next]_vars => NoLostWakeup'
<1>. SUFFICES ASSUME TypeOK, Control, NoLostWakeup, [Next]_vars
              PROVE  NoLostWakeup'
  OBVIOUS
<1>0. /\ pc \in [Proc -> ClientLabels \cup WorkerLabels]
      /\ Clients \subseteq Proc /\ Worker \in Proc /\ Worker \notin Clients
  BY CoordinatorAssumption DEF TypeOK, Proc
<1>. USE <1>0 DEF NoLostWakeup, Goto
\* Steps that neither fill the queue, nor take the token, nor put the worker to
\* sleep, nor finish a notification.
<1>1. ASSUME NEW p \in Proc, pc[p] # "notify", pc'[p] # "select",
             \E label : pc' = [pc EXCEPT ![p] = label],
             signal => signal', queue' # <<>> => queue # <<>>
      PROVE  NoLostWakeup'
  BY <1>1
<1>2. ASSUME NEW p \in Proc, Register(p) PROVE NoLostWakeup'
  BY <1>1, <1>2 DEF Register, AfterAdding
<1>3. ASSUME NEW p \in Proc, Insert(p) PROVE NoLostWakeup'
  BY <1>3 DEF Insert, Proc
<1>4. ASSUME NEW p \in Proc, Notify(p) PROVE NoLostWakeup'
  BY <1>4 DEF Notify
<1>5. ASSUME NEW c \in Clients, Unqueue(c) PROVE NoLostWakeup'
  <2>. DEFINE D == DOMAIN tasks
              id == tasks[held[c]]
  <2>1. queue \in Seq(D) /\ queue' = Unqueued(queue, id)
    BY <1>5 DEF Unqueue, TypeOK
  <2>. HIDE DEF D, id
  <2>2. queue' # <<>> => queue # <<>>
    <3>1. SUFFICES ASSUME queue = <<>> PROVE queue' = <<>>
      OBVIOUS
    <3>2. Len(queue) = 0
      BY <3>1
    <3>3. \/ queue' = queue
          \/ \E pos \in 1..Len(queue) : Len(queue') = Len(queue) - 1
      BY ONLY <2>1, UnqueuedElements
    <3>. QED  BY <3>1, <3>2, <3>3
  <2>. QED  BY <1>1, <1>5, <2>2 DEF Unqueue
<1>6. ASSUME NEW c \in Clients, Request(c) \/ Stop(c) \/ Cancel(c) \/ Delete(c)
      PROVE  NoLostWakeup'
  BY <1>1, <1>6 DEF Request, Stop, Cancel, Delete
<1>7. CASE Exit \/ Wake \/ ScanSucceeds \/ RunEnds \/ Unregister \/ Complete
  BY <1>1, <1>7 DEF Exit, Wake, ScanSucceeds, RunEnds, Unregister, Complete
<1>8. CASE Dequeue
  BY <1>8 DEF Dequeue
<1>9. CASE Resignal
  BY <1>9 DEF Resignal
<1>10. CASE CloseContext \/ LockQueue \/ DrainCancel \/ DrainDelete \/ CloseQueue
            \/ UNCHANGED vars
  BY <1>10 DEF CloseContext, LockQueue, DrainCancel, DrainDelete, CloseQueue, vars
<1>. QED
  BY <1>2, <1>3, <1>4, <1>5, <1>6, <1>7, <1>8, <1>9, <1>10
  DEF Next, Adding, Stopping, Running, Closing

\* NoLostWakeup: the worker never sleeps through a queued task, however the
\* queue is filled and emptied around it.
THEOREM WakeupsKept == Spec => []NoLostWakeup
<1>1. Init => TypeOK /\ Control /\ NoLostWakeup
  BY InitTyped DEF Init, NoLostWakeup
<1>2. TypeOK /\ Control /\ NoLostWakeup /\ [Next]_vars
        => (TypeOK /\ Control /\ NoLostWakeup)'
  BY StepTyped, StepNotified
<1>. QED  BY <1>1, <1>2, PTL DEF Spec

----------------------------------------------------------------------------
(* The coordinator implements the task board.                              *)

\* A new coordinator is an empty board.
LEMMA InitBoard == Init => Board!Init
<1>. SUFFICES ASSUME Init PROVE Status = <<>>
  BY DEF Board!Init
<1>1. DOMAIN tasks = {}
  BY DEF Init
<1>. QED  BY <1>1 DEF Status

\* How each step that touches the queue changes the set of queued tasks.
LEMMA InsertQueued ==
    ASSUME TypeOK, Control, NEW p \in Proc, Insert(p)
    PROVE  Queued' = Queued \cup {held[p]}
<1>. DEFINE D == DOMAIN tasks
            t == held[p]
            pos == InsertionPoint(queue, t)
            r == InsertSorted(queue, t)
<1>0. queue \in Seq(D) /\ t \in D
  BY DEF Insert, TypeOK, Control
<1>1. queue' = r
  BY DEF Insert, TypeOK, Control
<1>. HIDE DEF D, t
<1>2. pos \in 1..Len(queue) + 1
  BY ONLY <1>0, InsertionPointInRange
<1>3. r \in Seq(D) /\ Len(r) = Len(queue) + 1
  BY ONLY <1>0, InsertSortedElements
<1>4. r[pos] = t
  BY ONLY <1>0, InsertSortedElements
<1>5. \A i \in 1..pos - 1 : r[i] = queue[i]
  BY ONLY <1>0, InsertSortedElements
<1>6. \A i \in pos + 1..Len(queue) + 1 : r[i] = queue[i - 1]
  BY ONLY <1>0, InsertSortedElements
<1>. HIDE DEF pos, r
<1>7. /\ DOMAIN r = 1..Len(queue) + 1 /\ DOMAIN queue = 1..Len(queue)
      /\ Len(queue) \in Nat
  BY ONLY <1>0, <1>3
<1>8. ASSUME NEW i \in DOMAIN r PROVE r[i] \in Queued \cup {t}
  <2>1. CASE i = pos
    BY <1>4, <2>1
  <2>2. CASE i < pos
    <3>1. i \in 1..pos - 1 /\ i \in DOMAIN queue
      BY <1>2, <1>7, <2>2
    <3>. QED  BY <1>5, <3>1 DEF Queued
  <2>3. CASE i > pos
    <3>1. i \in pos + 1..Len(queue) + 1 /\ i - 1 \in DOMAIN queue
      BY <1>2, <1>7, <2>3
    <3>. QED  BY <1>6, <3>1 DEF Queued
  <2>. QED  BY <1>2, <1>7, <2>1, <2>2, <2>3
<1>9. ASSUME NEW i \in DOMAIN queue PROVE \E j \in DOMAIN r : r[j] = queue[i]
  <2>1. CASE i < pos
    BY <1>2, <1>5, <1>7, <2>1
  <2>2. CASE i >= pos
    <3>1. i + 1 \in pos + 1..Len(queue) + 1 /\ i + 1 \in DOMAIN r /\ i + 1 - 1 = i
      BY <1>2, <1>7, <2>2
    <3>2. PICK j \in pos + 1..Len(queue) + 1 : j = i + 1
      BY <3>1
    <3>3. r[j] = queue[j - 1]
      BY ONLY <1>6, j \in pos + 1..Len(queue) + 1, Zenon
    <3>4. j - 1 = i
      BY <1>7, <3>2
    <3>. QED  BY <3>1, <3>2, <3>3, <3>4
  <2>. QED  BY <1>2, <1>7, <2>1, <2>2
<1>10. pos \in DOMAIN r
  BY <1>2, <1>7
<1>. QED  BY <1>1, <1>4, <1>8, <1>9, <1>10 DEF Queued, t

\* StopTask's removal by Id adds nothing to the queue.
LEMMA UnqueueQueued ==
    ASSUME TypeOK, NEW c \in Clients, Unqueue(c)
    PROVE  Queued' \subseteq Queued
<1>. DEFINE D == DOMAIN tasks
            id == tasks[held[c]]
            r == Unqueued(queue, id)
<1>1. queue \in Seq(D) /\ queue' = r
  BY DEF Unqueue, TypeOK
<1>. HIDE DEF D, id
<1>2. /\ r \in Seq(D)
      /\ \/ r = queue
         \/ \E pos \in 1..Len(queue) :
               /\ Len(r) = Len(queue) - 1
               /\ \A i \in 1..pos - 1 : r[i] = queue[i]
               /\ \A i \in pos..Len(queue) - 1 : r[i] = queue[i + 1]
  BY ONLY <1>1, UnqueuedElements
<1>. HIDE DEF r
<1>3. CASE r = queue
  BY <1>1, <1>3 DEF Queued
<1>4. CASE r # queue
  <2>1. PICK pos \in 1..Len(queue) :
           /\ Len(r) = Len(queue) - 1
           /\ \A i \in 1..pos - 1 : r[i] = queue[i]
           /\ \A i \in pos..Len(queue) - 1 : r[i] = queue[i + 1]
    BY <1>2, <1>4
  <2>2. /\ DOMAIN r = 1..Len(queue) - 1 /\ DOMAIN queue = 1..Len(queue)
        /\ Len(queue) \in Nat
    BY ONLY <1>1, <1>2, <2>1
  <2>3. ASSUME NEW i \in DOMAIN r PROVE \E j \in DOMAIN queue : r[i] = queue[j]
    BY ONLY <2>1, <2>2, i \in DOMAIN r
  <2>. QED  BY <1>1, <2>3 DEF Queued
<1>. QED  BY <1>3, <1>4

\* Taking the head moves one task from the queue to the worker.
LEMMA DequeueQueued ==
    ASSUME TypeOK, Placement, Dequeue, queue # <<>>
    PROVE  /\ Queued' = Queued \ {Last(queue)}
           /\ Last(queue) \in Queued
           /\ Last(queue) \in DOMAIN tasks
<1>. DEFINE D == DOMAIN tasks
            r == Front(queue)
<1>1. queue \in Seq(D) /\ queue' = r
  BY DEF Dequeue, TypeOK
<1>. HIDE DEF D
<1>2. /\ r \in Seq(D) /\ Len(r) = Len(queue) - 1
      /\ \A i \in 1..Len(queue) - 1 : r[i] = queue[i]
      /\ Last(queue) \in D
      /\ Last(queue) = queue[Len(queue)] /\ Len(queue) \in DOMAIN queue
  BY ONLY <1>1, queue # <<>>, FrontElements
<1>. HIDE DEF r
<1>3. /\ DOMAIN r = 1..Len(queue) - 1 /\ DOMAIN queue = 1..Len(queue)
      /\ Len(queue) \in Nat
  BY ONLY <1>1, <1>2
<1>4. \A i, j \in DOMAIN queue : queue[i] = queue[j] => i = j
  BY DEF Placement
<1>5. ASSUME NEW i \in DOMAIN r
      PROVE  i \in DOMAIN queue /\ r[i] = queue[i] /\ r[i] # Last(queue)
  BY ONLY <1>2, <1>3, <1>4, i \in DOMAIN r
<1>6. ASSUME NEW i \in DOMAIN queue, queue[i] # Last(queue)
      PROVE  i \in DOMAIN r /\ r[i] = queue[i]
  BY ONLY <1>2, <1>3, i \in DOMAIN queue, queue[i] # Last(queue)
<1>. QED  BY <1>1, <1>2, <1>5, <1>6 DEF Queued, D

\* Taking waiting tasks off the queue is a Drop of the board.
LEMMA DropIsDrop ==
    ASSUME UNCHANGED <<tasks, started, current, Inserting>>,
           Queued' \subseteq Queued, Queued \subseteq DOMAIN tasks,
           (Queued \cap (Inserting \cup started)) = {}
    PROVE  Board!Drop
<1>. DEFINE T == Queued \ Queued'
<1>1. T \subseteq {t \in DOMAIN Status : Status[t] = "pending"}
  BY DEF Status
<1>2. Status' = [t \in DOMAIN Status |-> IF t \in T THEN "dropped" ELSE Status[t]]
  BY DEF Status
<1>. HIDE DEF T
<1>. QED  BY <1>1, <1>2 DEF Board!Drop, Board!Pending

\* Every step of the coordinator is a step of the board or leaves it alone.
LEMMA StepBoard == IInv /\ [Next]_vars => [Board!Next]_Status
<1>. SUFFICES ASSUME IInv, [Next]_vars PROVE Board!Next \/ UNCHANGED Status
  OBVIOUS
<1>0. TypeOK /\ Control /\ Placement /\ pc \in [Proc -> ClientLabels \cup WorkerLabels]
  BY DEF IInv, TypeOK
<1>. USE <1>0 DEF Goto, work
\* Steps that move no task.
<1>1. ASSUME UNCHANGED <<tasks, Queued, Inserting, started, current>>
      PROVE  UNCHANGED Status
  BY <1>1 DEF Status
<1>2. ASSUME UNCHANGED <<tasks, queue, held, started, current>>,
             \A q \in Proc : pc'[q] = "insert" <=> pc[q] = "insert"
      PROVE  UNCHANGED Status
  BY <1>1, <1>2 DEF Queued, Inserting
<1>3. ASSUME NEW p \in Proc, Register(p)
      PROVE  Board!Submit \/ UNCHANGED Status
  <2>. DEFINE n == Len(tasks) + 1
  <2>1. CASE registry[Head(todo[p])] # NoTask
    BY <1>2, <1>3, <2>1 DEF Register, AfterAdding
  <2>2. CASE registry[Head(todo[p])] = NoTask
    <3>1. /\ tasks' = Append(tasks, Head(todo[p])) /\ tasks \in Seq(Id)
          /\ held' = [held EXCEPT ![p] = n] /\ held \in [Proc -> DOMAIN tasks \cup {NoTask}]
          /\ pc' = [pc EXCEPT ![p] = "insert"] /\ pc[p] = "register"
          /\ UNCHANGED <<queue, started, current>>
          /\ Head(todo[p]) \in Id
      BY <1>3, <2>2 DEF Register, TypeOK, Control
    <3>2. Inserting' = Inserting \cup {n} /\ UNCHANGED Queued
      BY <3>1 DEF Inserting, Queued
    <3>3. /\ DOMAIN tasks = 1..Len(tasks) /\ Len(tasks) \in Nat
          /\ DOMAIN tasks' = 1..n
      BY ONLY <3>1
    <3>4. Status \in Seq({"pending", "dropped", "running", "done"}) /\ Len(Status) = Len(tasks)
      BY ONLY <3>3 DEF Status
    <3>5. Status'[n] = "pending" /\ \A t \in 1..Len(tasks) : Status'[t] = Status[t]
      BY ONLY <3>1, <3>2, <3>3 DEF Status
    <3>6. Status' \in Seq({"pending", "dropped", "running", "done"}) /\ Len(Status') = n
      BY ONLY <3>3 DEF Status
    <3>. DEFINE L == {"pending", "dropped", "running", "done"}
                S == Status
                S1 == Status'
    <3>7. S \in Seq(L) /\ S1 \in Seq(L) /\ "pending" \in L /\ Len(S) + 1 = Len(S1)
          /\ S1[Len(S) + 1] = "pending" /\ \A t \in 1..Len(S) : S1[t] = S[t]
      BY <3>4, <3>5, <3>6
    <3>. HIDE DEF L, S, S1
    <3>8. S1 = Append(S, "pending")
      <4>1. /\ Append(S, "pending") \in Seq(L) /\ Len(Append(S, "pending")) = Len(S) + 1
            /\ \A i \in 1..Len(S) : Append(S, "pending")[i] = S[i]
            /\ Append(S, "pending")[Len(S) + 1] = "pending"
        BY ONLY <3>7, AppendProperties
      <4>2. \A i \in 1..Len(S1) : S1[i] = Append(S, "pending")[i]
        BY ONLY <3>7, <4>1
      <4>. QED  BY ONLY <3>7, <4>1, <4>2, SeqEqual
    <3>9. Status' = Append(Status, "pending")
      BY <3>8 DEF S, S1
    <3>. QED  BY <3>9 DEF Board!Submit
  <2>. QED  BY <2>1, <2>2
<1>4. ASSUME NEW p \in Proc, Insert(p)
      PROVE  UNCHANGED Status
  <2>. DEFINE t == held[p]
  <2>1. /\ pc[p] = "insert" /\ pc' = [pc EXCEPT ![p] = "notify"]
        /\ held' = [held EXCEPT ![p] = NoTask] /\ UNCHANGED <<tasks, started, current>>
        /\ held \in [Proc -> DOMAIN tasks \cup {NoTask}]
    BY <1>4 DEF Insert, TypeOK
  <2>2. Queued' = Queued \cup {t}
    BY <1>4, InsertQueued
  <2>3. Inserting = Inserting' \cup {t}
    BY <2>1 DEF Inserting
  <2>. HIDE DEF t
  <2>. QED  BY <2>1, <2>2, <2>3 DEF Status
<1>5. ASSUME NEW c \in Clients, Unqueue(c)
      PROVE  Board!Drop
  <2>1. /\ UNCHANGED <<tasks, started, current, Inserting>>
        /\ Queued' \subseteq Queued /\ Queued \subseteq DOMAIN tasks
        /\ (Queued \cap (Inserting \cup started)) = {}
    <3>1. /\ UNCHANGED <<tasks, started, current, held>> /\ c \in Proc
          /\ pc[c] = "unqueue" /\ pc' = [pc EXCEPT ![c] = "cancel"]
      BY <1>5 DEF Unqueue, adder, Proc
    <3>2. UNCHANGED Inserting
      BY <3>1 DEF Inserting
    <3>3. Queued \subseteq DOMAIN tasks
      BY DEF TypeOK, Queued
    <3>4. (Queued \cap (Inserting \cup started)) = {}
      BY DEF Placement, Inserting
    <3>. QED  BY <1>5, <3>1, <3>2, <3>3, <3>4, UnqueueQueued
  <2>. QED  BY <2>1, DropIsDrop
<1>6. CASE Dequeue
  <2>1. CASE queue = <<>>
    BY <1>2, <1>6, <2>1 DEF Dequeue, adder
  <2>2. CASE queue # <<>>
    <3>. DEFINE t == Last(queue)
    <3>1. /\ UNCHANGED <<tasks, held>> /\ current' = t /\ started' = started \cup {t}
          /\ pc[Worker] = "woken" /\ pc' = [pc EXCEPT ![Worker] = "run"]
      BY <1>6, <2>2 DEF Dequeue, adder
    <3>2. UNCHANGED Inserting
      BY <3>1 DEF Inserting
    <3>3. Queued' = Queued \ {t} /\ t \in Queued /\ t \in DOMAIN tasks
      BY <1>6, <2>2, DequeueQueued
    <3>4. t \notin Inserting /\ t \notin started /\ current = NoTask /\ NoTask \notin DOMAIN tasks
      BY <3>1, <3>3 DEF Placement, Inserting, Control, NoTask, TypeOK
    <3>. HIDE DEF t
    <3>5. /\ Status[t] = "pending"
          /\ \A u \in DOMAIN tasks : Status[u] # "running"
          /\ Status' = [Status EXCEPT ![t] = "running"]
      BY <3>1, <3>2, <3>3, <3>4 DEF Status
    <3>6. DOMAIN Status = DOMAIN tasks
      BY DEF Status
    <3>. QED  BY <3>3, <3>5, <3>6 DEF Board!Next, Board!Start, Board!Idle, Board!Pending
  <2>. QED  BY <2>1, <2>2
<1>7. CASE Complete
  <2>1. /\ UNCHANGED <<tasks, queue, held, started>> /\ current' = NoTask
        /\ pc[Worker] = "complete" /\ pc' = [pc EXCEPT ![Worker] = "resignal"]
    BY <1>7 DEF Complete, adder
  <2>2. UNCHANGED <<Queued, Inserting>>
    BY <2>1 DEF Queued, Inserting
  <2>3. current \in DOMAIN tasks /\ current \in started /\ current \notin Queued \cup Inserting
        /\ NoTask \notin DOMAIN tasks
    BY <2>1 DEF Control, TypeOK, Placement, Inserting, NoTask
  <2>4. Status[current] = "running" /\ Status' = [Status EXCEPT ![current] = "done"]
    BY <2>1, <2>2, <2>3 DEF Status
  <2>5. DOMAIN Status = DOMAIN tasks
    BY DEF Status
  <2>. QED  BY <2>3, <2>4, <2>5 DEF Board!Next, Board!Finish
<1>8. CASE CloseQueue
  <2>1. /\ UNCHANGED <<tasks, started, current, Inserting>>
        /\ Queued' \subseteq Queued /\ Queued \subseteq DOMAIN tasks
        /\ (Queued \cap (Inserting \cup started)) = {}
    BY <1>8 DEF CloseQueue, Inserting, adder, TypeOK, Placement, Queued
  <2>. QED  BY <2>1, DropIsDrop DEF Board!Next
<1>9. ASSUME NEW p \in Proc, Notify(p) PROVE UNCHANGED Status
  BY <1>2, <1>9 DEF Notify, AfterAdding, adder
<1>10. ASSUME NEW c \in Clients, Request(c) \/ Cancel(c) PROVE UNCHANGED Status
  BY <1>2, <1>10 DEF Request, Cancel, adder
<1>11. ASSUME NEW c \in Clients, Stop(c) \/ Delete(c) PROVE UNCHANGED Status
  <2>1. /\ UNCHANGED <<tasks, queue, started, current>>
        /\ pc[c] # "insert" /\ pc'[c] # "insert"
        /\ \A q \in Proc \ {c} : pc'[q] = pc[q] /\ held'[q] = held[q]
    BY <1>11 DEF Stop, Delete, TypeOK, Proc
  <2>. QED  BY <1>1, <2>1 DEF Queued, Inserting
<1>12. CASE Exit \/ Wake \/ RunEnds \/ Unregister \/ Resignal
  BY <1>2, <1>12 DEF Exit, Wake, RunEnds, Unregister, Resignal, adder
<1>13. CASE ScanSucceeds
  BY <1>2, <1>13 DEF ScanSucceeds
<1>14. CASE CloseContext \/ LockQueue \/ DrainCancel \/ DrainDelete \/ UNCHANGED vars
  BY <1>2, <1>14 DEF CloseContext, LockQueue, DrainCancel, DrainDelete, vars, adder
<1>. QED
  BY <1>3, <1>4, <1>5, <1>6, <1>7, <1>8, <1>9, <1>10, <1>11, <1>12, <1>13, <1>14
  DEF Next, Adding, Stopping, Running, Closing, Board!Next

\* ImplementsBoard: through every interleaving, each task is run at most once,
\* one at a time, and never comes back once it is over.
THEOREM BoardImplemented == Spec => ImplementsBoard
<1>1. Init => Board!Init
  BY InitBoard
<1>2. IInv /\ [Next]_vars => [Board!Next]_Status
  BY StepBoard
<1>. QED  BY <1>1, <1>2, Invariance, PTL DEF Spec, ImplementsBoard, Board!Spec

----------------------------------------------------------------------------
(* The worker starts the best task.                                        *)

\* The queue ascends: its tail comes after every other task.
Ordered == \A i, j \in DOMAIN queue : i < j => Before(queue[i], queue[j])

\* Before is a total order on tasks.
LEMMA BeforeOrder ==
    ASSUME TypeOK, NEW a \in DOMAIN tasks, NEW b \in DOMAIN tasks, NEW c \in DOMAIN tasks
    PROVE  /\ Before(a, b) \/ Before(b, a) \/ a = b
           /\ Before(a, b) /\ Before(b, c) => Before(a, c)
<1>1. \A t \in DOMAIN tasks : Priority[tasks[t].stage] \in Nat
  <2>1. \A t \in DOMAIN tasks : tasks[t].stage \in Stages
    <3>1. \A t \in DOMAIN tasks : tasks[t] \in Id
      BY DEF TypeOK
    <3>. QED  BY <3>1 DEF Id
  <2>2. \A g \in Stages : Priority[g] \in Nat
    BY DEF Stages, Priority
  <2>. QED  BY <2>1, <2>2
<1>2. DOMAIN tasks \subseteq Nat
  BY DEF TypeOK
<1>. QED  BY <1>1, <1>2 DEF Before

\* The insertion point is the first that the new task comes before.
LEMMA InsertionPointFirst ==
    ASSUME NEW S, NEW q \in Seq(S), NEW t
    PROVE  /\ \A i \in 1..InsertionPoint(q, t) - 1 : ~Before(t, q[i])
           /\ InsertionPoint(q, t) <= Len(q) => Before(t, q[InsertionPoint(q, t)])
<1>. DEFINE I == {i \in 1..Len(q) : Before(t, q[i])}
            first == IF I # {} THEN Min(I) ELSE 0
<1>1. InsertionPoint(q, t) = IF first = 0 THEN Len(q) + 1 ELSE first
  BY DEF InsertionPoint, SelectInSeq
<1>2. CASE I = {}
  BY <1>1, <1>2
<1>3. CASE I # {}
  <2>1. I \in SUBSET Nat
    OBVIOUS
  <2>2. Min(I) \in I /\ \A j \in I : Min(I) <= j
    <3>. HIDE DEF I
    <3>. QED  BY <1>3, <2>1, MinOfNaturals
  <2>3. InsertionPoint(q, t) = Min(I)
    BY <1>1, <1>3, <2>2
  <2>. DEFINE m == Min(I)
  <2>. HIDE DEF m
  <2>4. m \in 1..Len(q) /\ Before(t, q[m]) /\ \A j \in 1..Len(q) : Before(t, q[j]) => m <= j
    BY <2>2 DEF m
  <2>5. Len(q) \in Nat
    OBVIOUS
  <2>6. \A i \in 1..m - 1 : ~Before(t, q[i])
    BY <2>4, <2>5
  <2>. QED  BY <2>3, <2>4, <2>6 DEF m
<1>. QED  BY <1>2, <1>3

\* Inserting a task at that point keeps the queue in order.
LEMMA InsertKeepsOrder ==
    ASSUME TypeOK, Ordered, NEW t \in DOMAIN tasks, t \notin Queued
    PROVE  LET r == InsertSorted(queue, t)
           IN  \A i, j \in DOMAIN r : i < j => Before(r[i], r[j])
<1>. DEFINE D == DOMAIN tasks
            pos == InsertionPoint(queue, t)
            r == InsertSorted(queue, t)
            n == Len(queue)
<1>1. queue \in Seq(D) /\ t \in D
  BY DEF TypeOK
<1>. HIDE DEF D
<1>2. pos \in 1..n + 1
  BY ONLY <1>1, InsertionPointInRange
<1>3. /\ \A i \in 1..pos - 1 : ~Before(t, queue[i])
      /\ pos <= n => Before(t, queue[pos])
  BY ONLY <1>1, InsertionPointFirst
<1>4. r \in Seq(D) /\ Len(r) = n + 1
  BY ONLY <1>1, InsertSortedElements
<1>5. r[pos] = t
  BY ONLY <1>1, InsertSortedElements
<1>6. \A i \in 1..pos - 1 : r[i] = queue[i]
  BY ONLY <1>1, InsertSortedElements
<1>7. \A i \in pos + 1..n + 1 : r[i] = queue[i - 1]
  BY ONLY <1>1, InsertSortedElements
<1>. HIDE DEF pos, r
<1>8. n \in Nat /\ DOMAIN queue = 1..n /\ \A i \in 1..n : queue[i] \in D /\ queue[i] # t
  BY <1>1 DEF Queued
<1>. HIDE DEF n
<1>9. DOMAIN r = 1..n + 1
  BY <1>4
<1>10. \A a, b, c \in D : /\ Before(a, b) \/ Before(b, a) \/ a = b
                          /\ Before(a, b) /\ Before(b, c) => Before(a, c)
  BY BeforeOrder DEF D
<1>11. \A i, j \in 1..n : i < j => Before(queue[i], queue[j])
  BY <1>8 DEF Ordered
<1>12. \A i \in 1..n : i < pos => Before(queue[i], t)
  <2>. SUFFICES ASSUME NEW i \in 1..n, i < pos PROVE Before(queue[i], t)
    OBVIOUS
  <2>1. i \in 1..pos - 1
    BY <1>2, <1>8
  <2>2. ~Before(t, queue[i]) /\ queue[i] \in D /\ queue[i] # t
    BY <1>3, <1>8, <2>1
  <2>. QED  BY <1>1, <1>10, <2>2
<1>13. \A i \in 1..n : i >= pos => Before(t, queue[i])
  <2>. SUFFICES ASSUME NEW i \in 1..n, i >= pos PROVE Before(t, queue[i])
    OBVIOUS
  <2>1. pos \in 1..n /\ (i = pos \/ pos < i)
    BY <1>2, <1>8
  <2>2. Before(t, queue[pos])
    BY <1>2, <1>3, <1>8, <2>1
  <2>3. i = pos \/ Before(queue[pos], queue[i])
    BY <1>11, <2>1
  <2>4. queue[pos] \in D /\ queue[i] \in D
    BY <1>8, <2>1
  <2>. QED  BY <1>1, <1>10, <2>2, <2>3, <2>4
<1>14. ASSUME NEW i \in 1..n + 1
       PROVE  \/ i < pos /\ i \in 1..n /\ r[i] = queue[i]
              \/ i = pos /\ r[i] = t
              \/ i > pos /\ i - 1 \in 1..n /\ i - 1 >= pos /\ r[i] = queue[i - 1]
  <2>1. CASE i < pos
    <3>1. i \in 1..pos - 1 /\ i \in 1..n
      BY <1>2, <1>8, <2>1
    <3>. QED  BY <1>6, <2>1, <3>1
  <2>2. CASE i > pos
    <3>1. i \in pos + 1..n + 1 /\ i - 1 \in 1..n /\ i - 1 >= pos
      BY <1>2, <1>8, <2>2
    <3>. QED  BY <1>7, <2>2, <3>1
  <2>. QED  BY <1>2, <1>5, <1>8, <2>1, <2>2
<1>15. ASSUME NEW i \in 1..n + 1, NEW j \in 1..n + 1, i < j
       PROVE  Before(r[i], r[j])
  <2>0. i \in Int /\ j \in Int /\ pos \in Int /\ n \in Int
    BY <1>2, <1>8
  <2>1. CASE i < pos /\ j < pos
    BY <1>11, <1>14, <1>15, <2>0, <2>1
  <2>2. CASE i < pos /\ j = pos
    BY <1>12, <1>14, <2>0, <2>2
  <2>3. CASE i < pos /\ j > pos
    <3>1. r[i] = queue[i] /\ r[j] = queue[j - 1] /\ i < j - 1 /\ i \in 1..n /\ j - 1 \in 1..n
      BY <1>14, <2>0, <2>3
    <3>2. PICK k \in 1..n : k = j - 1
      BY <3>1
    <3>. QED  BY <1>11, <3>1, <3>2
  <2>4. CASE i = pos
    <3>1. r[i] = t /\ r[j] = queue[j - 1] /\ j - 1 \in 1..n /\ j - 1 >= pos
      BY <1>14, <1>15, <2>0, <2>4
    <3>2. PICK k \in 1..n : k = j - 1
      BY <3>1
    <3>. QED  BY <1>13, <3>1, <3>2
  <2>5. CASE i > pos
    <3>1. /\ r[i] = queue[i - 1] /\ r[j] = queue[j - 1]
          /\ i - 1 \in 1..n /\ j - 1 \in 1..n /\ i - 1 < j - 1
      BY <1>14, <1>15, <2>0, <2>5
    <3>2. PICK k, l \in 1..n : k = i - 1 /\ l = j - 1
      BY <3>1
    <3>. QED  BY <1>11, <3>1, <3>2
  <2>. QED  BY <2>0, <2>1, <2>2, <2>3, <2>4, <2>5, <1>15
<1>. QED  BY <1>9, <1>15 DEF r

\* Only Insert adds to the queue; the other steps shorten it or leave it alone.
LEMMA StepOrdered == IInv /\ Ordered /\ [Next]_vars => Ordered'
<1>. SUFFICES ASSUME IInv, Ordered, [Next]_vars PROVE Ordered'
  OBVIOUS
<1>0. TypeOK /\ Control /\ Placement
  BY DEF IInv
<1>1. ASSUME UNCHANGED <<tasks, queue>> PROVE Ordered'
  BY <1>1 DEF Ordered, Before
<1>2. ASSUME NEW p \in Proc, Register(p) PROVE Ordered'
  <2>1. queue' = queue /\ \A i \in DOMAIN queue : queue[i] \in DOMAIN tasks
    BY <1>0, <1>2 DEF Register, TypeOK
  <2>2. \A t \in DOMAIN tasks : tasks'[t] = tasks[t]
    <3>1. tasks \in Seq(Id) /\ (pc[p] = "register" => todo[p] # <<>> /\ todo[p] \in Seq(Id))
      BY <1>0, <1>2 DEF TypeOK, Control
    <3>2. Head(todo[p]) \in Id
      BY <1>2, <3>1 DEF Register
    <3>3. tasks' = tasks \/ tasks' = Append(tasks, Head(todo[p]))
      BY <1>2 DEF Register
    <3>. QED  BY ONLY <3>1, <3>2, <3>3
  <2>3. \A i, j \in DOMAIN queue : Before(queue[i], queue[j])' <=> Before(queue[i], queue[j])
    BY <2>1, <2>2 DEF Before
  <2>. QED  BY <2>1, <2>3 DEF Ordered
<1>3. ASSUME NEW p \in Proc, Insert(p) PROVE Ordered'
  <2>1. /\ queue' = InsertSorted(queue, held[p]) /\ tasks' = tasks
        /\ held[p] \in DOMAIN tasks /\ held[p] \notin Queued
    BY <1>0, <1>3 DEF Insert, TypeOK, Control, Placement
  <2>2. \A i, j \in DOMAIN queue' : i < j => Before(queue'[i], queue'[j])
    BY <1>0, <2>1, InsertKeepsOrder
  <2>. QED  BY <2>1, <2>2 DEF Ordered, Before
<1>4. ASSUME NEW c \in Clients, Unqueue(c) PROVE Ordered'
  <2>. DEFINE D == DOMAIN tasks
              id == tasks[held[c]]
  <2>1. queue \in Seq(D) /\ queue' = Unqueued(queue, id) /\ tasks' = tasks
    BY <1>0, <1>4 DEF Unqueue, TypeOK
  <2>. HIDE DEF D, id
  <2>2. CASE queue' = queue
    BY <1>1, <2>1, <2>2
  <2>3. CASE queue' # queue
    <3>. DEFINE r == Unqueued(queue, id)
    <3>1. /\ r \in Seq(D)
          /\ \/ r = queue
             \/ \E pos \in 1..Len(queue) :
                   /\ Len(r) = Len(queue) - 1
                   /\ \A i \in 1..pos - 1 : r[i] = queue[i]
                   /\ \A i \in pos..Len(queue) - 1 : r[i] = queue[i + 1]
      BY ONLY <2>1, UnqueuedElements
    <3>2. queue' = r
      BY <2>1
    <3>. HIDE DEF r
    <3>3. PICK pos \in 1..Len(queue) :
             /\ Len(r) = Len(queue) - 1
             /\ \A i \in 1..pos - 1 : r[i] = queue[i]
             /\ \A i \in pos..Len(queue) - 1 : r[i] = queue[i + 1]
      BY <2>3, <3>1, <3>2
    <3>. DEFINE at(i) == IF i < pos THEN i ELSE i + 1
    <3>4. DOMAIN r = 1..Len(queue) - 1 /\ DOMAIN queue = 1..Len(queue) /\ Len(queue) \in Nat
      BY ONLY <2>1, <3>1, <3>3
    <3>5. \A i \in DOMAIN r : at(i) \in DOMAIN queue /\ r[i] = queue[at(i)]
      BY ONLY <3>3, <3>4
    <3>6. \A i, j \in DOMAIN r : i < j => at(i) < at(j)
      BY ONLY <3>3, <3>4
    <3>. HIDE DEF at
    <3>. QED  BY <2>1, <3>2, <3>5, <3>6 DEF Ordered, Before
  <2>. QED  BY <2>2, <2>3
<1>5. CASE Dequeue
  <2>. DEFINE D == DOMAIN tasks
  <2>1. queue \in Seq(D) /\ tasks' = tasks
    BY <1>0, <1>5 DEF Dequeue, TypeOK
  <2>2. CASE queue = <<>>
    BY <1>1, <1>5, <2>2 DEF Dequeue
  <2>3. CASE queue # <<>>
    <3>. HIDE DEF D
    <3>1. queue' = Front(queue)
      BY <1>5, <2>3 DEF Dequeue
    <3>2. /\ Front(queue) \in Seq(D) /\ Len(Front(queue)) = Len(queue) - 1
          /\ \A i \in 1..Len(queue) - 1 : Front(queue)[i] = queue[i]
      BY ONLY <2>1, <2>3, FrontElements
    <3>3. \A i \in DOMAIN queue' : i \in DOMAIN queue /\ queue'[i] = queue[i]
      BY ONLY <2>1, <3>1, <3>2
    <3>. QED  BY <2>1, <3>3 DEF Ordered, Before
  <2>. QED  BY <2>2, <2>3
<1>6. CASE CloseQueue
  BY <1>6 DEF CloseQueue, Ordered
<1>7. ASSUME NEW p \in Proc, Notify(p) PROVE Ordered'
  BY <1>1, <1>7 DEF Notify
<1>8. ASSUME NEW c \in Clients, Request(c) \/ Stop(c) \/ Cancel(c) \/ Delete(c) PROVE Ordered'
  BY <1>1, <1>8 DEF Request, Stop, Cancel, Delete
<1>9. CASE Exit \/ Wake \/ ScanSucceeds \/ RunEnds \/ Unregister \/ Complete \/ Resignal
  BY <1>1, <1>9 DEF Exit, Wake, ScanSucceeds, RunEnds, Unregister, Complete, Resignal
<1>10. CASE CloseContext \/ LockQueue \/ DrainCancel \/ DrainDelete \/ UNCHANGED vars
  BY <1>1, <1>10 DEF CloseContext, LockQueue, DrainCancel, DrainDelete, vars
<1>. QED
  BY <1>2, <1>3, <1>4, <1>5, <1>6, <1>7, <1>8, <1>9, <1>10
  DEF Next, Adding, Stopping, Running, Closing

LEMMA OrderKept == Spec => [](IInv /\ Ordered)
<1>1. Init => IInv /\ Ordered
  BY InitTyped, InitPlaced DEF IInv, Init, Ordered
<1>2. IInv /\ [Next]_vars => IInv'
  BY StepTyped, StepPlaced DEF IInv
<1>3. (IInv /\ Ordered) /\ [Next]_vars => (IInv /\ Ordered)'
  BY <1>2, StepOrdered
<1>. QED  BY <1>1, <1>3, PTL DEF Spec

\* The worker takes the tail, which comes after every task it leaves: it only
\* starts a task in Dequeue, and only completes one elsewhere.
LEMMA StartsLast ==
    IInv /\ Ordered /\ [Next]_vars =>
        (pc[Worker] = "woken" /\ current' # current
            => \A i \in DOMAIN queue : queue[i] = current' \/ Before(queue[i], current'))
<1>. SUFFICES ASSUME IInv, Ordered, [Next]_vars, pc[Worker] = "woken", current' # current
              PROVE  \A i \in DOMAIN queue : queue[i] = current' \/ Before(queue[i], current')
  OBVIOUS
<1>1. Dequeue
  BY DEF Next, Adding, Stopping, Running, Closing, Register, Insert, Notify, Request, Stop,
         Unqueue, Cancel, Delete, Exit, Wake, ScanSucceeds, RunEnds, Unregister, Complete,
         Resignal, CloseContext, LockQueue, DrainCancel, DrainDelete, CloseQueue, vars, work
<1>2. queue # <<>> /\ current' = Last(queue)
  BY <1>1 DEF Dequeue, work
<1>. DEFINE D == DOMAIN tasks
<1>3. queue \in Seq(D)
  BY DEF IInv, TypeOK
<1>. HIDE DEF D
<1>4. Last(queue) = queue[Len(queue)] /\ Len(queue) \in DOMAIN queue
  BY ONLY <1>2, <1>3, FrontElements
<1>5. \A i \in DOMAIN queue : i = Len(queue) \/ i < Len(queue)
  BY ONLY <1>3
<1>. QED  BY <1>2, <1>4, <1>5 DEF Ordered

\* StartsBest: the worker never starts a task while a better one is queued,
\* however requests interleave their sorted insertions with stops and Close.
THEOREM BestIsStarted == Spec => StartsBest
<1>1. IInv /\ Ordered /\ [Next]_vars =>
        [pc[Worker] = "woken" /\ current' # current
            => \A i \in DOMAIN queue : queue[i] = current' \/ Before(queue[i], current')]_vars
  BY StartsLast
<1>. QED  BY <1>1, OrderKept, PTL DEF Spec, StartsBest

----------------------------------------------------------------------------
(* Where no task is stopped, the registry knows the one live task of an Id. *)

\* Nobody stops a task.
NoStops == \A c \in Clients : pc[c] \notin {"unqueue", "cancel", "delete"}

\* An Id maps to one of its own tasks.
OwnIds == \A id \in Id : registry[id] # NoTask => tasks[registry[id]] = id

\* Only what is completed or drained by Close is cancelled.
Uncancelled ==
    /\ current \notin cancelled
    /\ \A p \in Proc : pc[p] = "insert" => held[p] \notin cancelled
    /\ \A i \in DOMAIN queue : queue[i] \in cancelled =>
          \/ closer = "draining" /\ i <= drained
          \/ closer = "unregistering" /\ i <= drained + 1

\* A live task is the one its Id maps to ...
Registered == \A t \in Live : registry[tasks[t]] = t

\* ... and so is the task that Close has cancelled and is about to unregister.
Draining ==
    closer = "unregistering" =>
        LET t == queue[drained + 1] IN t \in cancelled /\ registry[tasks[t]] = t

\* A task is unregistered before it is completed.
Unregistered ==
    /\ pc[Worker] = "complete" => \A id \in Id : registry[id] # current
    /\ CompletedIsUnregistered

RInv == IInv /\ NoStops /\ OwnIds /\ Uncancelled /\ Registered /\ Draining /\ Unregistered

LEMMA InitRegistered == Init => RInv
<1>. SUFFICES ASSUME Init PROVE RInv
  OBVIOUS
<1>. USE DEF Init
<1>1. IInv
  BY InitTyped, InitPlaced DEF IInv
<1>2. Queued = {} /\ Inserting = {} /\ Executing = {}
  BY DEF Queued, Inserting, Executing, Proc
<1>3. NoStops /\ OwnIds /\ Uncancelled /\ Registered /\ Draining /\ Unregistered
  BY <1>2, CoordinatorAssumption
  DEF NoStops, OwnIds, Uncancelled, Registered, Live, Draining, Unregistered,
      CompletedIsUnregistered, Proc
<1>. QED  BY <1>1, <1>3 DEF RInv

\* What a step that moves no task keeps.
LEMMA QuietRegistered ==
    ASSUME RInv, UNCHANGED <<tasks, registry, queue, cancelled, current, held, drained>>,
           \A p \in Proc : pc'[p] = "insert" <=> pc[p] = "insert",
           pc'[Worker] = "complete" <=> pc[Worker] = "complete",
           \/ closer' = closer
           \/ closer \in {"open", "locking"} /\ closer' \notin {"open", "unregistering"}
    PROVE  OwnIds' /\ Uncancelled' /\ Registered' /\ Draining' /\ Unregistered'
<1>. USE DEF RInv
<1>1. OwnIds' /\ Unregistered'
  BY DEF OwnIds, Unregistered, CompletedIsUnregistered
<1>2. Uncancelled' /\ Draining'
  BY DEF Uncancelled, Draining
<1>3. UNCHANGED <<Queued, Inserting, Executing>>
  BY DEF Queued, Inserting, Executing
<1>4. Registered'
  BY <1>3 DEF Registered, Live
<1>. QED  BY <1>1, <1>2, <1>4

\* No request stops a task.
LEMMA StepNoStops == ASSUME Stoppable = {}, IInv, NoStops, [Next]_vars PROVE NoStops'
<1>1. pc \in [Proc -> ClientLabels \cup WorkerLabels] /\ Worker \notin Clients
  BY CoordinatorAssumption DEF IInv, TypeOK
<1>2. ASSUME NEW p \in Proc, NEW l, l \notin {"unqueue", "cancel", "delete"},
             pc' = [pc EXCEPT ![p] = l]
      PROVE  NoStops'
  BY <1>1, <1>2 DEF NoStops, Proc
<1>3. ASSUME NEW p \in Proc, Adding(p) PROVE NoStops'
  <2>1. AfterAdding(p) \in {"unregister", "idle"}
    BY DEF AfterAdding
  <2>2. PICK l \in {"register", "insert", "notify", "unregister", "idle"} :
            pc' = [pc EXCEPT ![p] = l]
    BY <1>3, <2>1 DEF Adding, Register, Insert, Notify, Goto
  <2>. QED  BY <1>2, <2>2
<1>4. ASSUME NEW c \in Clients, Request(c) \/ Stop(c) \/ Stopping(c) PROVE NoStops'
  <2>1. pc' = [pc EXCEPT ![c] = "register"]
    BY <1>4 DEF NoStops, Request, Stop, Stopping, Unqueue, Cancel, Delete, Goto
  <2>. QED  BY <1>2, <2>1 DEF Proc
<1>5. CASE Exit \/ Wake \/ Running
  <2>1. PICK l \in WorkerLabels : pc' = [pc EXCEPT ![Worker] = l]
    BY <1>5 DEF Exit, Wake, Running, Dequeue, ScanSucceeds, RunEnds, Unregister, Complete, Resignal,
                Goto, WorkerLabels
  <2>. QED  BY <1>2, <2>1 DEF Proc, WorkerLabels
<1>6. CASE CloseContext \/ Closing \/ UNCHANGED vars
  BY <1>6 DEF CloseContext, Closing, LockQueue, DrainCancel, DrainDelete, CloseQueue, vars, NoStops
<1>. QED  BY <1>3, <1>4, <1>5, <1>6 DEF Next

\* A task is registered only when no live task has its Id.
LEMMA RegisterRegistered ==
    ASSUME RInv, NEW p \in Proc, Register(p)
    PROVE  OwnIds' /\ Uncancelled' /\ Registered' /\ Draining' /\ Unregistered'
<1>. USE DEF RInv
<1>. DEFINE id == Head(todo[p])
            n == Len(tasks) + 1
<1>0. /\ pc \in [Proc -> ClientLabels \cup WorkerLabels] /\ tasks \in Seq(Id)
      /\ registry \in [Id -> DOMAIN tasks \cup {NoTask}] /\ held \in [Proc -> DOMAIN tasks \cup {NoTask}]
      /\ cancelled \subseteq DOMAIN tasks /\ queue \in Seq(DOMAIN tasks) /\ started \subseteq DOMAIN tasks
      /\ current \in started \cup {NoTask} /\ pc[p] = "register" /\ id \in Id
  BY DEF Register, IInv, TypeOK, Control
<1>1. CASE registry[id] # NoTask
  <2>1. AfterAdding(p) \in {"unregister", "idle"}
    BY DEF AfterAdding
  <2>2. /\ UNCHANGED <<tasks, registry, queue, cancelled, current, held, closer, drained>>
        /\ \E l \in {"unregister", "idle", "register"} : pc' = [pc EXCEPT ![p] = l]
    BY <1>1, <2>1 DEF Register, Goto, work, closing
  <2>3. /\ \A q \in Proc : pc'[q] = "insert" <=> pc[q] = "insert"
        /\ pc'[Worker] = "complete" <=> pc[Worker] = "complete"
    BY <1>0, <2>2 DEF Proc
  <2>. QED  BY <2>2, <2>3, QuietRegistered
<1>2. CASE registry[id] = NoTask
  <2>1. /\ tasks' = Append(tasks, id) /\ registry' = [registry EXCEPT ![id] = n]
        /\ held' = [held EXCEPT ![p] = n] /\ pc' = [pc EXCEPT ![p] = "insert"]
        /\ UNCHANGED <<queue, cancelled, current, closer, drained>>
    BY <1>2 DEF Register, Goto, work, closing
  <2>2. /\ n \notin DOMAIN tasks /\ n # NoTask /\ tasks'[n] = id
        /\ \A t \in DOMAIN tasks : tasks'[t] = tasks[t]
        /\ NoTask \notin DOMAIN tasks
    BY <1>0, <2>1 DEF NoTask
  <2>. HIDE DEF id, n
  <2>3. OwnIds'
    <3>. SUFFICES ASSUME NEW j \in Id, registry'[j] # NoTask PROVE tasks'[registry'[j]] = j
      BY DEF OwnIds
    <3>1. CASE j = id
      BY <1>0, <2>1, <2>2, <3>1
    <3>2. CASE j # id
      BY <1>0, <2>1, <2>2, <3>2 DEF OwnIds
    <3>. QED  BY <3>1, <3>2
  <2>4. n \notin cancelled
    BY <1>0, <2>2
  <2>5. Uncancelled'
    BY <1>0, <2>1, <2>4 DEF Uncancelled
  <2>6. Unregistered'
    BY <1>0, <2>1, <2>2 DEF Unregistered, CompletedIsUnregistered
  <2>7. Queued' = Queued /\ Executing' = Executing /\ Inserting' = Inserting \cup {n}
    BY <1>0, <2>1 DEF Queued, Executing, Inserting
  <2>8. Live \subseteq DOMAIN tasks /\ Live' = Live \cup {n}
    BY <1>0, <2>1, <2>4, <2>7 DEF Live, Queued, Executing, Inserting, IInv, Control
  <2>9. Registered'
    <3>. SUFFICES ASSUME NEW t \in Live \cup {n} PROVE registry'[tasks'[t]] = t
      BY <2>8 DEF Registered
    <3>1. CASE t = n
      BY <1>0, <2>1, <2>2, <3>1
    <3>2. CASE t \in Live
      <4>1. t \in DOMAIN tasks /\ registry[tasks[t]] = t /\ tasks[t] \in Id /\ tasks'[t] = tasks[t]
        BY <1>0, <2>2, <2>8, <3>2 DEF Registered
      <4>2. tasks[t] # id
        BY <1>2, <2>2, <4>1
      <4>. QED  BY <1>0, <2>1, <4>1, <4>2
    <3>. QED  BY <3>1, <3>2
  <2>10. Draining'
    <3>. SUFFICES ASSUME closer = "unregistering"
                  PROVE  LET t == queue[drained + 1] IN t \in cancelled /\ registry'[tasks'[t]] = t
      BY <2>1 DEF Draining
    <3>. DEFINE t == queue[drained + 1]
    <3>1. t \in DOMAIN tasks /\ t \in cancelled /\ registry[tasks[t]] = t
      BY <1>0 DEF Draining
    <3>. HIDE DEF t
    <3>2. tasks'[t] = tasks[t] /\ tasks[t] # id /\ tasks[t] \in Id
      BY <1>0, <1>2, <2>2, <3>1
    <3>3. registry'[tasks'[t]] = t
      BY <1>0, <2>1, <3>1, <3>2
    <3>. QED  BY <3>1, <3>3 DEF t
  <2>. QED  BY <2>3, <2>5, <2>6, <2>9, <2>10
<1>. QED  BY <1>1, <1>2

\* A task that moves into the queue, or from there to the worker, stays live.
LEMMA InsertRegistered ==
    ASSUME RInv, NEW p \in Proc, Insert(p)
    PROVE  OwnIds' /\ Uncancelled' /\ Registered' /\ Draining' /\ Unregistered'
<1>. USE DEF RInv
<1>0. /\ pc \in [Proc -> ClientLabels \cup WorkerLabels] /\ held \in [Proc -> DOMAIN tasks \cup {NoTask}]
      /\ pc[p] = "insert" /\ closer \notin {"draining", "unregistering"}
      /\ pc' = [pc EXCEPT ![p] = "notify"] /\ held' = [held EXCEPT ![p] = NoTask]
      /\ UNCHANGED <<tasks, registry, cancelled, current, closer, drained>>
  BY DEF Insert, IInv, TypeOK, QueueUnlocked, Goto, work, closing
<1>1. Queued' = Queued \cup {held[p]}
  BY InsertQueued DEF IInv
<1>2. Inserting = Inserting' \cup {held[p]} /\ Executing' = Executing
  BY <1>0 DEF Inserting, Executing
<1>3. Live' = Live
  BY <1>0, <1>1, <1>2 DEF Live
<1>4. Registered' /\ OwnIds' /\ Draining' /\ Unregistered'
  BY <1>0, <1>3 DEF Registered, OwnIds, Draining, Unregistered, CompletedIsUnregistered
<1>5. \A t \in Queued : t \notin cancelled
  BY <1>0 DEF Uncancelled, Queued
<1>6. \A t \in Queued' : t \notin cancelled
  BY <1>0, <1>1, <1>5 DEF Uncancelled
<1>7. Uncancelled'
  BY <1>0, <1>6 DEF Uncancelled, Queued
<1>. QED  BY <1>4, <1>7

LEMMA DequeueRegistered ==
    ASSUME RInv, Dequeue
    PROVE  OwnIds' /\ Uncancelled' /\ Registered' /\ Draining' /\ Unregistered'
<1>. USE DEF RInv
<1>0. /\ pc \in [Proc -> ClientLabels \cup WorkerLabels] /\ Worker \in Proc
      /\ pc[Worker] = "woken" /\ closer \notin {"draining", "unregistering"}
      /\ UNCHANGED <<tasks, registry, cancelled, held, closer, drained>>
  BY DEF Dequeue, IInv, TypeOK, QueueUnlocked, adder, closing, Proc
<1>1. CASE queue = <<>>
  <2>1. pc' = [pc EXCEPT ![Worker] = "select"] /\ UNCHANGED <<queue, current>>
    BY <1>1 DEF Dequeue, Goto, work
  <2>. QED  BY <1>0, <2>1, QuietRegistered
<1>2. CASE queue # <<>>
  <2>. DEFINE t == Last(queue)
  <2>1. Queued' = Queued \ {t} /\ t \in Queued
    BY <1>2, DequeueQueued DEF IInv
  <2>2. current' = t /\ pc' = [pc EXCEPT ![Worker] = "run"] /\ current = NoTask
    BY <1>0, <1>2 DEF Dequeue, Goto, IInv, Control
  <2>. HIDE DEF t
  <2>3. Inserting' = Inserting /\ Executing' \subseteq {t} /\ Executing = {}
    BY <1>0, <2>2 DEF Inserting, Executing
  <2>4. Live' \subseteq Live
    BY <1>0, <2>1, <2>3 DEF Live
  <2>5. Registered' /\ OwnIds' /\ Draining' /\ Unregistered'
    BY <1>0, <2>2, <2>4 DEF Registered, OwnIds, Draining, Unregistered, CompletedIsUnregistered
  <2>6. \A u \in Queued : u \notin cancelled
    BY <1>0 DEF Uncancelled, Queued
  <2>7. \A u \in Queued' : u \notin cancelled
    BY <2>1, <2>6
  <2>8. Uncancelled'
    BY <1>0, <2>1, <2>2, <2>6, <2>7 DEF Uncancelled, Queued
  <2>. QED  BY <2>5, <2>8
<1>. QED  BY <1>1, <1>2

\* The worker unregisters its task, the only live one of its Id ...
LEMMA UnregisterRegistered ==
    ASSUME RInv, Unregister
    PROVE  OwnIds' /\ Uncancelled' /\ Registered' /\ Draining' /\ Unregistered'
<1>. USE DEF RInv
<1>0. /\ pc \in [Proc -> ClientLabels \cup WorkerLabels] /\ Worker \in Proc
      /\ registry \in [Id -> DOMAIN tasks \cup {NoTask}]
      /\ tasks \in Seq(Id) /\ queue \in Seq(DOMAIN tasks) /\ NoTask \notin DOMAIN tasks
      /\ cancelled \subseteq DOMAIN tasks
      /\ pc[Worker] = "unregister" /\ pc' = [pc EXCEPT ![Worker] = "complete"]
      /\ registry' = [registry EXCEPT ![tasks[current]] = NoTask]
      /\ UNCHANGED <<tasks, queue, cancelled, current, held, closer, drained>>
  BY DEF Unregister, IInv, TypeOK, Goto, work, adder, closing, Proc, NoTask
<1>1. current \in DOMAIN tasks /\ current \in started /\ tasks[current] \in Id
  BY <1>0 DEF IInv, TypeOK, Control
<1>2. current \notin cancelled /\ current \in Executing /\ current \in Live
  BY <1>0, <1>1 DEF Uncancelled, Executing, Live
<1>3. registry[tasks[current]] = current
  BY <1>2 DEF Registered
<1>4. OwnIds'
  BY <1>0, <1>1 DEF OwnIds
<1>5. Uncancelled'
  BY <1>0 DEF Uncancelled
<1>6. Queued' = Queued /\ Inserting' = Inserting /\ Executing' = {}
  BY <1>0 DEF Queued, Inserting, Executing
<1>7. current \notin Queued \cup Inserting
  BY <1>1 DEF IInv, Placement, Inserting
<1>8. Live' \subseteq Live \ {current} /\ Live \subseteq DOMAIN tasks
  BY <1>0, <1>1, <1>6, <1>7 DEF Live, Queued, Inserting, Executing, IInv, TypeOK, Control
<1>9. Registered'
  <2>. SUFFICES ASSUME NEW t \in Live \ {current} PROVE registry'[tasks[t]] = t
    BY <1>0, <1>8 DEF Registered
  <2>1. t \in DOMAIN tasks /\ registry[tasks[t]] = t /\ tasks[t] \in Id
    BY <1>0, <1>8 DEF Registered
  <2>2. tasks[t] # tasks[current]
    BY <1>3, <2>1
  <2>. QED  BY <1>0, <2>1, <2>2
<1>10. Draining'
  <2>. SUFFICES ASSUME closer = "unregistering"
                PROVE  LET t == queue[drained + 1] IN t \in cancelled /\ registry'[tasks[t]] = t
    BY <1>0 DEF Draining
  <2>. DEFINE t == queue[drained + 1]
  <2>1. t \in cancelled /\ registry[tasks[t]] = t /\ t \in DOMAIN tasks /\ tasks[t] \in Id
    BY <1>0 DEF Draining
  <2>. HIDE DEF t
  <2>2. tasks[t] # tasks[current]
    BY <1>2, <1>3, <2>1
  <2>3. registry'[tasks[t]] = t
    BY <1>0, <2>1, <2>2
  <2>. QED  BY <2>1, <2>3 DEF t
<1>11. \A id \in Id : registry'[id] # current
  <2>. SUFFICES ASSUME NEW id \in Id PROVE registry'[id] # current
    OBVIOUS
  <2>1. CASE id = tasks[current]
    BY <1>0, <1>1, <2>1
  <2>2. CASE id # tasks[current]
    <3>1. registry'[id] = registry[id]
      BY <1>0, <2>2
    <3>2. registry[id] # current
      BY <1>0, <1>1, <2>2 DEF OwnIds
    <3>. QED  BY <3>1, <3>2
  <2>. QED  BY <2>1, <2>2
<1>12. CompletedIsUnregistered'
  <2>1. \A id \in Id : registry'[id] \in {registry[id], NoTask}
    BY <1>0
  <2>. QED  BY <1>0, <2>1 DEF Unregistered, CompletedIsUnregistered
<1>13. Unregistered'
  BY <1>0, <1>11, <1>12 DEF Unregistered
<1>. QED  BY <1>4, <1>5, <1>9, <1>10, <1>13

\* ... and then completes it, when no Id maps to it any more.
LEMMA CompleteRegistered ==
    ASSUME RInv, Complete
    PROVE  OwnIds' /\ Uncancelled' /\ Registered' /\ Draining' /\ Unregistered'
<1>. USE DEF RInv
<1>0. /\ pc \in [Proc -> ClientLabels \cup WorkerLabels] /\ Worker \in Proc
      /\ pc[Worker] = "complete" /\ pc' = [pc EXCEPT ![Worker] = "resignal"]
      /\ cancelled' = cancelled \cup {current} /\ current' = NoTask
      /\ UNCHANGED <<tasks, registry, queue, held, closer, drained>>
  BY DEF Complete, IInv, TypeOK, Goto, adder, closing, Proc
<1>1. current \in DOMAIN tasks /\ current \in started /\ NoTask \notin DOMAIN tasks
      /\ cancelled \subseteq DOMAIN tasks
  BY <1>0 DEF IInv, TypeOK, Control, NoTask
<1>2. current \notin Queued /\ \A p \in Proc : pc[p] = "insert" => held[p] # current
  BY <1>1 DEF IInv, Placement
<1>3. OwnIds'
  BY <1>0 DEF OwnIds
<1>4. Uncancelled'
  BY <1>0, <1>1, <1>2 DEF Uncancelled, Queued
<1>5. Queued' = Queued /\ Inserting' = Inserting /\ Executing' = {}
  BY <1>0 DEF Queued, Inserting, Executing
<1>6. Registered'
  BY <1>0, <1>5 DEF Registered, Live
<1>7. Draining' /\ Unregistered'
  BY <1>0 DEF Draining, Unregistered, CompletedIsUnregistered
<1>. QED  BY <1>3, <1>4, <1>6, <1>7

\* Close cancels the next task of the queue it has locked ...
LEMMA DrainCancelRegistered ==
    ASSUME RInv, DrainCancel
    PROVE  OwnIds' /\ Uncancelled' /\ Registered' /\ Draining' /\ Unregistered'
<1>. USE DEF RInv
<1>. DEFINE n == drained + 1
            t == queue[n]
<1>0. /\ closer = "draining" /\ closer' = "unregistering" /\ cancelled' = cancelled \cup {t}
      /\ UNCHANGED <<tasks, registry, queue, current, held, pc, drained>>
      /\ drained \in Nat /\ drained < Len(queue) /\ queue \in Seq(DOMAIN tasks)
  BY DEF DrainCancel, IInv, TypeOK, work, adder
<1>1. n \in DOMAIN queue /\ n > drained /\ \A i \in DOMAIN queue : i <= drained => i <= n
  BY <1>0
<1>2. t \in Queued /\ t \in DOMAIN tasks /\ t \notin cancelled /\ t \in Live
  BY <1>0, <1>1 DEF Queued, Uncancelled, Live
<1>3. \A i \in DOMAIN queue : queue[i] = t => i = n
  BY <1>1 DEF IInv, Placement
<1>4. t # current /\ \A p \in Proc : pc[p] = "insert" => held[p] # t
  BY <1>2 DEF IInv, Placement, TypeOK, NoTask
<1>5. registry[tasks[t]] = t
  BY <1>2 DEF Registered
<1>. HIDE DEF n
<1>6. Queued' = Queued /\ Inserting' = Inserting /\ Executing' = Executing
  BY <1>0 DEF Queued, Inserting, Executing
<1>. HIDE DEF t
<1>7. OwnIds' /\ Registered' /\ Unregistered'
  BY <1>0, <1>6 DEF OwnIds, Registered, Live, Unregistered, CompletedIsUnregistered
<1>8. Draining'
  <2>1. t = queue'[drained' + 1]
    BY <1>0 DEF t, n
  <2>. QED  BY <1>0, <1>5, <2>1 DEF Draining
<1>9. \A i \in DOMAIN queue : queue[i] \in cancelled' => i <= n
  <2>. SUFFICES ASSUME NEW i \in DOMAIN queue, queue[i] \in cancelled' PROVE i <= n
    OBVIOUS
  <2>1. CASE queue[i] = t
    BY <1>0, <1>1, <1>3, <2>1
  <2>2. CASE queue[i] # t
    BY <1>0, <1>1, <2>2 DEF Uncancelled
  <2>. QED  BY <2>1, <2>2
<1>10. Uncancelled'
  BY <1>0, <1>4, <1>9 DEF Uncancelled, n
<1>. QED  BY <1>7, <1>8, <1>10

\* ... and then removes it from the registry, which still had it.
LEMMA DrainDeleteRegistered ==
    ASSUME RInv, DrainDelete
    PROVE  OwnIds' /\ Uncancelled' /\ Registered' /\ Draining' /\ Unregistered'
<1>. USE DEF RInv
<1>. DEFINE t == queue[drained + 1]
<1>0. /\ closer = "unregistering" /\ closer' = "draining" /\ drained' = drained + 1
      /\ registry' = [registry EXCEPT ![tasks[t]] = NoTask]
      /\ UNCHANGED <<tasks, queue, cancelled, current, held, pc>>
      /\ drained \in Nat /\ tasks \in Seq(Id)
      /\ registry \in [Id -> DOMAIN tasks \cup {NoTask}]
      /\ NoTask \notin DOMAIN tasks
  BY DEF DrainDelete, IInv, TypeOK, work, adder, NoTask
<1>1. t \in cancelled /\ registry[tasks[t]] = t
  BY <1>0 DEF Draining
<1>. HIDE DEF t
<1>2. OwnIds'
  BY <1>0 DEF OwnIds
<1>3. Uncancelled'
  BY <1>0 DEF Uncancelled
<1>4. Live' = Live /\ Live \subseteq DOMAIN tasks
  <2>1. Queued' = Queued /\ Inserting' = Inserting /\ Executing' = Executing
    BY <1>0 DEF Queued, Inserting, Executing
  <2>2. Queued \cup Inserting \cup Executing \subseteq DOMAIN tasks
    BY DEF Queued, Inserting, Executing, IInv, TypeOK, Control
  <2>. QED  BY <1>0, <2>1, <2>2 DEF Live
<1>5. Registered'
  <2>. SUFFICES ASSUME NEW u \in Live PROVE registry'[tasks[u]] = u
    BY <1>0, <1>4 DEF Registered
  <2>1. u \in DOMAIN tasks /\ registry[tasks[u]] = u /\ tasks[u] \in Id /\ u \notin cancelled
    BY <1>0, <1>4 DEF Registered, Live
  <2>2. tasks[u] # tasks[t]
    BY <1>1, <2>1
  <2>. QED  BY <1>0, <2>1, <2>2
<1>6. Draining' /\ \A id \in Id : registry'[id] \in {registry[id], NoTask}
  BY <1>0 DEF Draining
<1>7. Unregistered'
  <2>1. pc[Worker] = "complete" => current \in DOMAIN tasks
    BY DEF IInv, TypeOK, Control
  <2>. QED  BY <1>0, <1>6, <2>1 DEF Unregistered, CompletedIsUnregistered
<1>. QED  BY <1>2, <1>3, <1>5, <1>6, <1>7

\* Every step where nothing is stopped.
LEMMA StepRegistered == ASSUME Stoppable = {}, RInv, [Next]_vars PROVE RInv'
<1>. DEFINE R == OwnIds' /\ Uncancelled' /\ Registered' /\ Draining' /\ Unregistered'
<1>1. IInv' /\ NoStops'
  BY StepTyped, StepPlaced, StepNoStops DEF RInv, IInv
<1>. SUFFICES R
  BY <1>1 DEF RInv
<1>2. pc \in [Proc -> ClientLabels \cup WorkerLabels] /\ Worker \in Proc
  BY DEF RInv, IInv, TypeOK, Proc
<1>3. ASSUME NEW p \in Proc, Adding(p) PROVE R
  <2>1. CASE Notify(p)
    <3>1. AfterAdding(p) \in {"unregister", "idle"}
      BY DEF AfterAdding
    <3>2. /\ UNCHANGED <<tasks, registry, queue, cancelled, current, held, closer, drained>>
          /\ pc[p] = "notify"
          /\ \E l \in {"unregister", "idle", "register"} : pc' = [pc EXCEPT ![p] = l]
      BY <2>1, <3>1 DEF Notify, Goto, work, adder, closing
    <3>3. /\ \A q \in Proc : pc'[q] = "insert" <=> pc[q] = "insert"
          /\ pc'[Worker] = "complete" <=> pc[Worker] = "complete"
      BY <1>2, <3>2
    <3>. QED  BY <3>2, <3>3, QuietRegistered
  <2>. QED  BY <1>3, <2>1, RegisterRegistered, InsertRegistered DEF Adding
<1>4. ASSUME NEW c \in Clients, Request(c) \/ Stop(c) \/ Stopping(c) PROVE R
  <2>1. Request(c)
    BY <1>4 DEF RInv, NoStops, Stop, Stopping, Unqueue, Cancel, Delete
  <2>2. /\ UNCHANGED <<tasks, registry, queue, cancelled, current, held, closer, drained>>
        /\ pc[c] = "idle" /\ pc' = [pc EXCEPT ![c] = "register"] /\ c \in Proc
    BY <2>1 DEF Request, Goto, work, closing, Proc
  <2>3. /\ \A q \in Proc : pc'[q] = "insert" <=> pc[q] = "insert"
        /\ pc'[Worker] = "complete" <=> pc[Worker] = "complete"
    BY <1>2, <2>2
  <2>. QED  BY <2>2, <2>3, QuietRegistered
<1>5. CASE Exit \/ Wake \/ ScanSucceeds \/ RunEnds \/ Resignal
  <2>1. /\ UNCHANGED <<tasks, registry, queue, cancelled, current, held, closer, drained>>
        /\ pc[Worker] \in {"select", "run", "resignal"}
        /\ \E l \in {"exited", "woken", "register", "unregister", "select"} :
              pc' = [pc EXCEPT ![Worker] = l]
    BY <1>5 DEF Exit, Wake, ScanSucceeds, RunEnds, Resignal, Goto, work, adder, closing
  <2>2. /\ \A q \in Proc : pc'[q] = "insert" <=> pc[q] = "insert"
        /\ pc'[Worker] = "complete" <=> pc[Worker] = "complete"
    BY <1>2, <2>1
  <2>. QED  BY <2>1, <2>2, QuietRegistered
<1>6. CASE Dequeue \/ Unregister \/ Complete
  BY <1>6, DequeueRegistered, UnregisterRegistered, CompleteRegistered
<1>7. CASE CloseContext \/ LockQueue
  BY <1>7, QuietRegistered DEF CloseContext, LockQueue, work, adder
<1>8. CASE DrainCancel \/ DrainDelete
  BY <1>8, DrainCancelRegistered, DrainDeleteRegistered
<1>9. CASE CloseQueue
  <2>1. /\ closer = "draining" /\ closer' = "closed" /\ queue' = <<>>
        /\ UNCHANGED <<tasks, registry, cancelled, current, held, pc>>
    BY <1>9 DEF CloseQueue, work, adder
  <2>2. Queued' = {} /\ Inserting' = Inserting /\ Executing' = Executing
    BY <2>1 DEF Queued, Inserting, Executing
  <2>. QED  BY <2>1, <2>2 DEF RInv, OwnIds, Uncancelled, Registered, Live, Draining, Unregistered,
                              CompletedIsUnregistered
<1>10. CASE UNCHANGED vars
  BY <1>10, QuietRegistered DEF vars, work, adder, closing
<1>. QED
  BY <1>3, <1>4, <1>5, <1>6, <1>7, <1>8, <1>9, <1>10 DEF Next, Running, Closing

\* OneTaskPerId, "the coordinator prevents duplicate tasks for the same
\* collection": where no task is stopped, no two tasks of one Id are queued or
\* running, for any number of concurrent requests, follow-ups and a Close.
THEOREM NoDuplicateTasks == ASSUME Stoppable = {} PROVE Spec => []OneTaskPerId
<1>1. RInv /\ [Next]_vars => RInv'
  BY StepRegistered
<1>2. RInv => OneTaskPerId
  BY DEF RInv, Registered, OneTaskPerId
<1>. QED  BY InitRegistered, <1>1, <1>2, PTL DEF Spec

\* CompletedIsUnregistered: whoever waits for Completed() can then add the same
\* task again, because the deferred calls of processTask unregister it first.
THEOREM CompletedIsGone == ASSUME Stoppable = {} PROVE Spec => []CompletedIsUnregistered
<1>1. RInv /\ [Next]_vars => RInv'
  BY StepRegistered
<1>2. RInv => CompletedIsUnregistered
  BY DEF RInv, Unregistered
<1>. QED  BY InitRegistered, <1>1, <1>2, PTL DEF Spec

----------------------------------------------------------------------------
(* Where no task is stopped, none is forgotten.                             *)

\* Close has cancelled the tasks of the queue that it has handled.
Handled ==
    closer \in {"draining", "unregistering"} =>
        \A i \in DOMAIN queue : i <= drained => queue[i] \in cancelled

NInv == RInv /\ Handled /\ NoTaskForgotten

\* What a step keeps that moves no task and completes none.
LEMMA QuietForgotten ==
    ASSUME NInv, UNCHANGED <<tasks, queue, cancelled, current, held, drained>>,
           \A p \in Proc : pc'[p] = "insert" <=> pc[p] = "insert",
           \/ closer' = closer
           \/ closer = "open" /\ closer' = "locking"
           \/ closer = "locking" /\ closer' = "draining"
    PROVE  Handled' /\ NoTaskForgotten'
<1>1. Queued' = Queued /\ Inserting' = Inserting
  BY DEF Queued, Inserting
<1>2. NoTaskForgotten'
  BY <1>1 DEF NInv, NoTaskForgotten
<1>3. closer = "locking" => drained = 0
  BY DEF NInv, RInv, IInv, Control
<1>4. CASE closer = "locking"
  <2>1. \A i \in DOMAIN queue : ~(i <= drained)
    BY <1>3, <1>4 DEF NInv, RInv, IInv, TypeOK
  <2>. QED  BY <1>2, <2>1 DEF Handled
<1>5. CASE closer # "locking"
  BY <1>2, <1>5 DEF NInv, Handled
<1>. QED  BY <1>4, <1>5

\* A new task is held by the goroutine that is about to insert it ...
LEMMA RegisterForgotten ==
    ASSUME NInv, NEW p \in Proc, Register(p)
    PROVE  Handled' /\ NoTaskForgotten'
<1>. DEFINE id == Head(todo[p])
            n == Len(tasks) + 1
<1>0. /\ pc \in [Proc -> ClientLabels \cup WorkerLabels] /\ tasks \in Seq(Id)
      /\ held \in [Proc -> DOMAIN tasks \cup {NoTask}] /\ pc[p] = "register" /\ id \in Id
  BY DEF Register, NInv, RInv, IInv, TypeOK, Control
<1>1. CASE registry[id] # NoTask
  <2>1. AfterAdding(p) \in {"unregister", "idle"}
    BY DEF AfterAdding
  <2>2. /\ UNCHANGED <<tasks, queue, cancelled, current, held, closer, drained>>
        /\ \E l \in {"unregister", "idle", "register"} : pc' = [pc EXCEPT ![p] = l]
    BY <1>1, <2>1 DEF Register, Goto, work, closing
  <2>3. \A q \in Proc : pc'[q] = "insert" <=> pc[q] = "insert"
    BY <1>0, <2>2
  <2>. QED  BY <2>2, <2>3, QuietForgotten
<1>2. CASE registry[id] = NoTask
  <2>1. /\ tasks' = Append(tasks, id)
        /\ held' = [held EXCEPT ![p] = n] /\ pc' = [pc EXCEPT ![p] = "insert"]
        /\ UNCHANGED <<queue, cancelled, current, closer, drained>>
    BY <1>2 DEF Register, Goto, work, closing
  <2>2. DOMAIN tasks' = DOMAIN tasks \cup {n}
    BY <1>0, <2>1
  <2>. HIDE DEF id, n
  <2>3. Queued' = Queued /\ Inserting' = Inserting \cup {n}
    BY <1>0, <2>1 DEF Queued, Inserting
  <2>4. NoTaskForgotten'
    BY <2>1, <2>2, <2>3 DEF NInv, NoTaskForgotten
  <2>. QED  BY <2>1, <2>4 DEF NInv, Handled
<1>. QED  BY <1>1, <1>2

\* ... from there it moves into the queue, which Close does not hold ...
LEMMA InsertForgotten ==
    ASSUME NInv, NEW p \in Proc, Insert(p)
    PROVE  Handled' /\ NoTaskForgotten'
<1>0. /\ pc \in [Proc -> ClientLabels \cup WorkerLabels] /\ held \in [Proc -> DOMAIN tasks \cup {NoTask}]
      /\ pc[p] = "insert" /\ closer \notin {"draining", "unregistering"}
      /\ pc' = [pc EXCEPT ![p] = "notify"] /\ held' = [held EXCEPT ![p] = NoTask]
      /\ UNCHANGED <<tasks, cancelled, current, closer>>
  BY DEF Insert, NInv, RInv, IInv, TypeOK, QueueUnlocked, Goto, work, closing
<1>1. Queued' = Queued \cup {held[p]}
  BY InsertQueued DEF NInv, RInv, IInv
<1>2. Inserting = Inserting' \cup {held[p]}
  BY <1>0 DEF Inserting
<1>3. NoTaskForgotten'
  BY <1>0, <1>1, <1>2 DEF NInv, NoTaskForgotten
<1>. QED  BY <1>0, <1>3 DEF Handled

\* ... and to the worker, which has no other task ...
LEMMA DequeueForgotten ==
    ASSUME NInv, Dequeue
    PROVE  Handled' /\ NoTaskForgotten'
<1>0. /\ pc \in [Proc -> ClientLabels \cup WorkerLabels] /\ Worker \in Proc
      /\ pc[Worker] = "woken" /\ closer \notin {"draining", "unregistering"}
      /\ UNCHANGED <<tasks, cancelled, held, closer, drained>>
      /\ current = NoTask /\ NoTask \notin DOMAIN tasks
  BY DEF Dequeue, NInv, RInv, IInv, TypeOK, Control, QueueUnlocked, adder, closing, Proc, NoTask
<1>1. CASE queue = <<>>
  <2>1. pc' = [pc EXCEPT ![Worker] = "select"] /\ UNCHANGED <<queue, current>>
    BY <1>1 DEF Dequeue, Goto, work
  <2>2. \A q \in Proc : pc'[q] = "insert" <=> pc[q] = "insert"
    BY <1>0, <2>1
  <2>. QED  BY <1>0, <2>1, <2>2, QuietForgotten
<1>2. CASE queue # <<>>
  <2>1. Queued' = Queued \ {Last(queue)}
    BY <1>2, DequeueQueued DEF NInv, RInv, IInv
  <2>2. current' = Last(queue) /\ pc' = [pc EXCEPT ![Worker] = "run"]
    BY <1>2 DEF Dequeue, Goto
  <2>3. Inserting' = Inserting
    BY <1>0, <2>2 DEF Inserting
  <2>4. NoTaskForgotten'
    BY <1>0, <2>1, <2>2, <2>3, Zenon DEF NInv, NoTaskForgotten
  <2>. QED  BY <1>0, <2>4 DEF Handled
<1>. QED  BY <1>1, <1>2

\* ... until it completes it.
LEMMA CompleteForgotten ==
    ASSUME NInv, Complete
    PROVE  Handled' /\ NoTaskForgotten'
<1>0. /\ pc \in [Proc -> ClientLabels \cup WorkerLabels] /\ Worker \in Proc
      /\ pc[Worker] = "complete" /\ pc' = [pc EXCEPT ![Worker] = "resignal"]
      /\ cancelled' = cancelled \cup {current}
      /\ UNCHANGED <<tasks, queue, held, closer, drained>>
  BY DEF Complete, NInv, RInv, IInv, TypeOK, Goto, adder, closing, Proc
<1>1. Queued' = Queued /\ Inserting' = Inserting
  BY <1>0 DEF Queued, Inserting
<1>2. NoTaskForgotten'
  BY <1>0, <1>1 DEF NInv, NoTaskForgotten
<1>. QED  BY <1>0, <1>2 DEF NInv, Handled

\* Close cancels each task of the queue before it drops them all.
LEMMA DrainForgotten ==
    ASSUME NInv, DrainCancel \/ DrainDelete \/ CloseQueue
    PROVE  Handled' /\ NoTaskForgotten'
<1>0. /\ UNCHANGED <<tasks, current, held, pc>> /\ drained \in Nat /\ queue \in Seq(DOMAIN tasks)
      /\ Inserting' = Inserting
  BY DEF DrainCancel, DrainDelete, CloseQueue, NInv, RInv, IInv, TypeOK, work, adder, Inserting
<1>1. CASE DrainCancel
  <2>1. /\ closer = "draining" /\ UNCHANGED <<queue, drained>> /\ cancelled \subseteq cancelled'
    BY <1>1 DEF DrainCancel
  <2>2. Queued' = Queued
    BY <2>1 DEF Queued
  <2>. QED  BY <1>0, <2>1, <2>2 DEF NInv, Handled, NoTaskForgotten
<1>2. CASE DrainDelete
  <2>1. /\ closer = "unregistering" /\ UNCHANGED <<queue, cancelled>> /\ drained' = drained + 1
        /\ queue[drained + 1] \in cancelled
    BY <1>2 DEF DrainDelete, NInv, RInv, Draining
  <2>2. Queued' = Queued
    BY <2>1 DEF Queued
  <2>3. NoTaskForgotten'
    BY <1>0, <2>1, <2>2 DEF NInv, NoTaskForgotten
  <2>4. \A i \in DOMAIN queue : i <= drained + 1 => i <= drained \/ i = drained + 1
    BY <1>0
  <2>5. Handled'
    BY <2>1, <2>4 DEF NInv, Handled
  <2>. QED  BY <2>3, <2>5
<1>3. CASE CloseQueue
  <2>1. /\ closer = "draining" /\ closer' = "closed" /\ drained = Len(queue) /\ queue' = <<>>
        /\ cancelled' = cancelled
    BY <1>3 DEF CloseQueue
  <2>2. \A i \in DOMAIN queue : queue[i] \in cancelled
    BY <1>0, <2>1 DEF NInv, Handled
  <2>3. Queued \subseteq cancelled
    BY <2>2 DEF Queued
  <2>4. NoTaskForgotten'
    BY <1>0, <2>1, <2>3 DEF NInv, NoTaskForgotten
  <2>. QED  BY <2>1, <2>4 DEF Handled
<1>. QED  BY <1>1, <1>2, <1>3

\* Every step where nothing is stopped.
LEMMA StepForgotten == ASSUME Stoppable = {}, NInv, [Next]_vars PROVE NInv'
<1>. DEFINE F == Handled' /\ NoTaskForgotten'
<1>1. RInv'
  BY StepRegistered DEF NInv
<1>. SUFFICES F
  BY <1>1 DEF NInv
<1>2. pc \in [Proc -> ClientLabels \cup WorkerLabels] /\ Worker \in Proc
  BY DEF NInv, RInv, IInv, TypeOK, Proc
<1>3. ASSUME NEW p \in Proc, Adding(p) PROVE F
  <2>1. CASE Notify(p)
    <3>1. AfterAdding(p) \in {"unregister", "idle"}
      BY DEF AfterAdding
    <3>2. /\ UNCHANGED <<tasks, queue, cancelled, current, held, closer, drained>>
          /\ pc[p] = "notify"
          /\ \E l \in {"unregister", "idle", "register"} : pc' = [pc EXCEPT ![p] = l]
      BY <2>1, <3>1 DEF Notify, Goto, work, adder, closing
    <3>3. \A q \in Proc : pc'[q] = "insert" <=> pc[q] = "insert"
      BY <1>2, <3>2
    <3>. QED  BY <3>2, <3>3, QuietForgotten
  <2>. QED  BY <1>3, <2>1, RegisterForgotten, InsertForgotten DEF Adding
<1>4. ASSUME NEW c \in Clients, Request(c) \/ Stop(c) \/ Stopping(c) PROVE F
  <2>1. Request(c)
    BY <1>4 DEF NInv, RInv, NoStops, Stop, Stopping, Unqueue, Cancel, Delete
  <2>2. /\ UNCHANGED <<tasks, queue, cancelled, current, held, closer, drained>>
        /\ pc[c] = "idle" /\ pc' = [pc EXCEPT ![c] = "register"] /\ c \in Proc
    BY <2>1 DEF Request, Goto, work, closing, Proc
  <2>3. \A q \in Proc : pc'[q] = "insert" <=> pc[q] = "insert"
    BY <1>2, <2>2
  <2>. QED  BY <2>2, <2>3, QuietForgotten
<1>5. CASE Exit \/ Wake \/ ScanSucceeds \/ RunEnds \/ Unregister \/ Resignal
  <2>1. /\ UNCHANGED <<tasks, queue, cancelled, current, held, closer, drained>>
        /\ pc[Worker] \in {"select", "run", "unregister", "resignal"}
        /\ \E l \in {"exited", "woken", "register", "unregister", "complete", "select"} :
              pc' = [pc EXCEPT ![Worker] = l]
    BY <1>5 DEF Exit, Wake, ScanSucceeds, RunEnds, Unregister, Resignal, Goto, work, adder, closing
  <2>2. \A q \in Proc : pc'[q] = "insert" <=> pc[q] = "insert"
    BY <1>2, <2>1
  <2>. QED  BY <2>1, <2>2, QuietForgotten
<1>6. CASE Dequeue \/ Complete
  BY <1>6, DequeueForgotten, CompleteForgotten
<1>7. CASE CloseContext \/ LockQueue
  BY <1>7, QuietForgotten DEF CloseContext, LockQueue, work, adder
<1>8. CASE DrainCancel \/ DrainDelete \/ CloseQueue
  BY <1>8, DrainForgotten
<1>9. CASE UNCHANGED vars
  BY <1>9, QuietForgotten DEF vars, work, adder, closing
<1>. QED
  BY <1>3, <1>4, <1>5, <1>6, <1>7, <1>8, <1>9 DEF Next, Running, Closing

\* NoTaskForgotten, "Close stops the coordinator and cancels all pending tasks":
\* where nothing is stopped, a task that is not completed is being added, queued
\* or run, for any number of requests and follow-ups around a Close.
THEOREM NothingForgotten == ASSUME Stoppable = {} PROVE Spec => []NoTaskForgotten
<1>1. Init => NInv
  <2>. SUFFICES ASSUME Init PROVE NInv
    OBVIOUS
  <2>1. tasks = <<>> /\ closer = "open"
    BY DEF Init
  <2>2. Handled /\ NoTaskForgotten
    BY <2>1 DEF Handled, NoTaskForgotten
  <2>. QED  BY <2>2, InitRegistered DEF NInv
<1>2. NInv /\ [Next]_vars => NInv'
  BY StepForgotten
<1>3. NInv => NoTaskForgotten
  BY DEF NInv
<1>. QED  BY <1>1, <1>2, <1>3, PTL DEF Spec
=============================================================================

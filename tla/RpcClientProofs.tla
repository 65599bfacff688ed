--------------------------- MODULE RpcClientProofs ---------------------------
(***************************************************************************)
(* Proofs about the RPC client, for every number of threads, keys,         *)
(* endpoints and retries and every batch size.                             *)
(***************************************************************************)
EXTENDS RpcClient, FiniteSetTheorems, TLAPS

-----------------------------------------------------------------------------
(* The timer.                                                              *)

\* What carries NothingStranded: a timer kept in _timer has not run yet.
TimerInv == /\ fired \in Nat
            /\ timerSet => counting \/ fired > 0
            /\ NothingStranded

timerVars == <<queue, timerSet, counting, fired>>

LEMMA TimerStep == TimerInv /\ [Next]_vars => TimerInv'
<1> SUFFICES ASSUME TimerInv, [Next]_vars PROVE TimerInv'
  OBVIOUS
<1> USE DEF TimerInv, NothingStranded
<1>1. ASSUME NEW t \in Threads, Enqueue(t) PROVE TimerInv'
  BY <1>1 DEF Enqueue, TakeQueue, CancelTimer
<1>2. ASSUME NEW t \in Threads, Flush(t) PROVE TimerInv'
  BY <1>2 DEF Flush, TakeQueue, CancelTimer
<1>3. CASE TimerFires
  BY <1>3 DEF TimerFires
<1>4. CASE TimerRuns
  BY <1>4 DEF TimerRuns, TakeQueue, CancelTimer
<1>5. CASE UNCHANGED timerVars
  BY <1>5 DEF timerVars
<1>6. ASSUME NEW t \in Threads,
             \/ StartFlush(t) \/ AppendFuture(t) \/ Collect(t) \/ Await(t) \/ ClearPending(t)
             \/ Get(t)
             \/ \E o \in Ops, k \in Keys : RequestHit(t, o, k) \/ RequestMiss(t, o, k)
      PROVE  UNCHANGED timerVars
  BY <1>6 DEF StartFlush, AppendFuture, Collect, Await, ClearPending, Get, RequestHit, RequestMiss,
              timerVars
<1>7. ASSUME Http PROVE UNCHANGED timerVars
  BY <1>7 DEF Http, BatchAnswered, RateLimited, NextEndpoint, BatchFails, timerVars
<1>8. ASSUME (\E k \in cached : Forget({k})) \/ Forget(cached) PROVE UNCHANGED timerVars
  BY <1>8 DEF Forget, timerVars
<1>9. CASE UNCHANGED vars
  BY <1>5, <1>9 DEF vars, timerVars
<1> QED
  BY <1>1, <1>2, <1>3, <1>4, <1>5, <1>6, <1>7, <1>8, <1>9 DEF Next, Step

\* A queued request is always covered by a timer that will still send the queue,
\* whatever other threads flush and however late a cancelled timer gets the lock.
THEOREM QueueCovered == Spec => []NothingStranded
<1>1. Init => TimerInv
  BY DEF Init, TimerInv, NothingStranded
<1>2. TimerInv => NothingStranded
  BY DEF TimerInv
<1> QED
  BY <1>1, <1>2, TimerStep, PTL DEF Spec

-----------------------------------------------------------------------------
(* The size of a batch.                                                    *)

\* Between two steps the queue is below the size at which it is sent.
SizeInv == /\ IsFiniteSet(queue) /\ Cardinality(queue) < MaxBatch
           /\ IsFiniteSet(batch.items) /\ BatchBounded

\* Whoever sends a set no larger than a batch keeps the sizes.
LEMMA TakeQueueSize ==
  ASSUME NEW h, NEW items, IsFiniteSet(items), Cardinality(items) <= MaxBatch,
         TakeQueue(h, items)
  PROVE  SizeInv'
BY FS_EmptySet, ConfigAssumption DEF TakeQueue, SizeInv, BatchBounded

LEMMA SizeStep == SizeInv /\ [Next]_vars => SizeInv'
<1> SUFFICES ASSUME SizeInv, [Next]_vars PROVE SizeInv'
  OBVIOUS
<1>0. Cardinality(queue) \in Nat /\ Cardinality(batch.items) \in Nat
  BY FS_CardinalityType DEF SizeInv
<1>1. ASSUME NEW t \in Threads, Enqueue(t) PROVE SizeInv'
  <2> DEFINE items == queue \cup {own[t]}
  <2>1. IsFiniteSet(items) /\ Cardinality(items) \in Nat
        /\ Cardinality(items) <= Cardinality(queue) + 1
    <3>1. IsFiniteSet(queue)
      BY DEF SizeInv
    <3>2. /\ IsFiniteSet(items)
          /\ Cardinality(items) = IF own[t] \in queue THEN Cardinality(queue)
                                                    ELSE Cardinality(queue) + 1
      BY <3>1, FS_AddElement
    <3> QED
      BY <1>0, <3>2
  <2>2. CASE Full(items)
    <3>1. TakeQueue(t, items)
      BY <1>1, <2>2 DEF Enqueue
    <3>2. Cardinality(items) <= MaxBatch
      BY <1>0, <2>1, ConfigAssumption DEF SizeInv
    <3> QED
      BY <2>1, <3>1, <3>2, TakeQueueSize
  <2>3. CASE ~Full(items)
    <3>1. queue' = items /\ batch' = batch
      BY <1>1, <2>3 DEF Enqueue
    <3> QED
      BY <2>1, <2>3, <3>1, ConfigAssumption DEF Full, SizeInv, BatchBounded
  <2> QED
    BY <2>2, <2>3
<1>2. ASSUME NEW h, TakeQueue(h, queue) PROVE SizeInv'
  BY <1>0, <1>2, TakeQueueSize, ConfigAssumption DEF SizeInv
<1>3. ASSUME UNCHANGED <<queue, batch>> PROVE SizeInv'
  BY <1>3 DEF SizeInv, BatchBounded
<1>4. ASSUME NEW t \in Threads, Flush(t) PROVE SizeInv'
  BY <1>2, <1>3, <1>4 DEF Flush
<1>5. CASE TimerRuns
  BY <1>2, <1>3, <1>5 DEF TimerRuns
<1>6. CASE BatchAnswered \/ BatchFails
  BY <1>6, FS_EmptySet, ConfigAssumption
  DEF BatchAnswered, BatchFails, Finish, NoBatch, SizeInv, BatchBounded
<1>7. CASE RateLimited \/ NextEndpoint
  <2>1. queue' = queue /\ batch'.items = batch.items
    BY <1>7 DEF RateLimited, NextEndpoint
  <2> QED
    BY <2>1 DEF SizeInv, BatchBounded
<1>8. ASSUME NEW t \in Threads,
             \/ StartFlush(t) \/ AppendFuture(t) \/ Collect(t) \/ Await(t) \/ ClearPending(t)
             \/ Get(t)
             \/ \E o \in Ops, k \in Keys : RequestHit(t, o, k) \/ RequestMiss(t, o, k)
      PROVE  SizeInv'
  BY <1>3, <1>8 DEF StartFlush, AppendFuture, Collect, Await, ClearPending, Get, RequestHit,
                    RequestMiss
<1>9. CASE TimerFires \/ (\E k \in cached : Forget({k})) \/ Forget(cached) \/ UNCHANGED vars
  BY <1>3, <1>9 DEF TimerFires, Forget, vars
<1> QED
  BY <1>1, <1>4, <1>5, <1>6, <1>7, <1>8, <1>9 DEF Next, Step, Http

\* However many threads queue at once, a batch never exceeds max_batch_size.
THEOREM BatchesBounded == Spec => []BatchBounded
<1>1. Init => SizeInv
  BY FS_EmptySet, ConfigAssumption DEF Init, NoBatch, SizeInv, BatchBounded
<1>2. SizeInv => BatchBounded
  BY DEF SizeInv
<1> QED
  BY <1>1, <1>2, SizeStep, PTL DEF Spec

-----------------------------------------------------------------------------
(* No request is lost or sent twice.                                       *)

PlaceTypes == /\ pc \in [Threads -> Places] /\ op \in [Threads -> Ops]
              /\ own \in [Threads -> Nat]
              /\ issued \in 0..MaxRequests
              /\ queue \subseteq Requests /\ batch.items \subseteq Requests
              /\ resolved \subseteq 1..issued

\* Threads about to queue hold different requests, that have been made.
OwnDiffer ==
  /\ \A t \in Threads : pc[t] = "queue" => own[t] \in 1..issued
  /\ \A t, u \in Threads : pc[t] = "queue" /\ pc[u] = "queue" /\ own[t] = own[u] => t = u

\* The lock's holder is inside queue_request or flush, or is the timer.
HolderSends ==
  /\ holder = Free => batch.items = {}
  /\ \A t \in Threads : holder = t => pc[t] \in {"queue", "flush"}

PlaceInv == PlaceTypes /\ OwnDiffer /\ HolderSends /\ InOnePlace

\* A step of a thread that queues nothing and does not hold the lock.
LEMMA QuietStep ==
  ASSUME PlaceInv, NEW t \in Threads, holder # t, pc[t] # "queue",
         NEW place \in Places \ {"queue"}, pc' = [pc EXCEPT ![t] = place],
         op' \in [Threads -> Ops], own' \in [Threads -> Nat],
         \A u \in Threads \ {t} : own'[u] = own[u],
         UNCHANGED <<issued, resolved, queue, holder, batch>>
  PROVE  PlaceInv'
<1>1. \A u \in Threads : pc'[u] = IF u = t THEN place ELSE pc[u]
  BY DEF PlaceInv, PlaceTypes
<1>2. PlaceTypes'
  BY DEF PlaceInv, PlaceTypes, Requests
<1>3. OwnDiffer'
  BY <1>1 DEF PlaceInv, OwnDiffer
<1>4. HolderSends'
  BY <1>1 DEF PlaceInv, HolderSends
<1>5. \A n \in Requests : Waiting(n)' <=> Waiting(n)
  BY <1>1 DEF Waiting
<1>6. InOnePlace'
  BY <1>5 DEF PlaceInv, InOnePlace, Requests
<1> QED
  BY <1>2, <1>3, <1>4, <1>6 DEF PlaceInv

\* A step that touches neither the threads nor the requests.
LEMMA StillStep ==
  ASSUME PlaceInv, UNCHANGED <<pc, op, own, issued, resolved, queue, holder>>,
         batch'.items = batch.items
  PROVE  PlaceInv'
<1>1. PlaceTypes' /\ OwnDiffer' /\ HolderSends'
  BY DEF PlaceInv, PlaceTypes, OwnDiffer, HolderSends, Requests
<1>2. \A n \in Requests : Waiting(n)' <=> Waiting(n)
  BY DEF Waiting
<1>3. InOnePlace'
  BY <1>2 DEF PlaceInv, InOnePlace, Requests
<1> QED
  BY <1>1, <1>3 DEF PlaceInv

\* A request is made and its thread is about to queue it.
LEMMA MissStep ==
  ASSUME PlaceInv, NEW t \in Threads, NEW o \in Ops, NEW k \in Keys, RequestMiss(t, o, k)
  PROVE  PlaceInv'
<1> DEFINE n0 == issued + 1
<1>1. /\ holder # t /\ pc[t] # "queue" /\ n0 \in Requests /\ issued \in Nat
      /\ issued' = n0
  BY BoundAssumption DEF RequestMiss, MayRequest, PlaceInv, HolderSends, PlaceTypes, Requests
<1>2. \A u \in Threads : /\ pc'[u] = IF u = t THEN "queue" ELSE pc[u]
                         /\ own'[u] = IF u = t THEN n0 ELSE own[u]
  BY DEF RequestMiss, Goto, PlaceInv, PlaceTypes
<1>3. UNCHANGED <<resolved, queue, holder, batch>>
  BY DEF RequestMiss
<1>4. PlaceTypes'
  <2>1. pc' \in [Threads -> Places] /\ op' \in [Threads -> Ops] /\ own' \in [Threads -> Nat]
    BY DEF RequestMiss, Goto, Places, PlaceInv, PlaceTypes
  <2> QED
    BY <1>1, <1>3, <2>1 DEF PlaceInv, PlaceTypes, Requests
<1>5. OwnDiffer'
  BY <1>1, <1>2 DEF PlaceInv, OwnDiffer
<1>6. HolderSends'
  BY <1>1, <1>2, <1>3 DEF PlaceInv, HolderSends
<1>7. \A n \in Requests : Waiting(n)' <=> (Waiting(n) \/ n = n0)
  BY <1>1, <1>2, <1>3 DEF Waiting
<1>8. \A n \in Requests : n <= n0 <=> (n <= issued \/ n = n0)
  BY <1>1 DEF Requests
<1>9. n0 \notin resolved /\ n0 \notin queue /\ n0 \notin batch.items
  BY <1>1 DEF PlaceInv, PlaceTypes, InOnePlace
<1>10. InOnePlace'
  <2>1. (queue \cap batch.items = {})'
    BY <1>3 DEF PlaceInv, InOnePlace
  <2>2. ASSUME NEW n \in Requests
        PROVE  /\ (n <= issued' /\ n \notin resolved')
                    <=> (Waiting(n)' \/ n \in queue' \cup batch'.items)
               /\ Waiting(n)' => n \notin queue' \cup batch'.items
    BY <1>1, <1>3, <1>7, <1>8, <1>9 DEF PlaceInv, InOnePlace
  <2> QED
    BY <2>1, <2>2 DEF InOnePlace
<1> QED
  BY <1>4, <1>5, <1>6, <1>10 DEF PlaceInv

\* A thread about to queue holds a request that waits.
LEMMA OwnWaits ==
  ASSUME PlaceInv, NEW t \in Threads, pc[t] = "queue", holder # t
  PROVE  own[t] \in Requests /\ Waiting(own[t])
<1>1. own[t] \in 1..issued /\ issued \in 0..MaxRequests
  BY DEF PlaceInv, OwnDiffer, PlaceTypes
<1>2. own[t] \in Requests
  BY <1>1, BoundAssumption DEF Requests
<1> QED
  BY <1>2 DEF Waiting

\* A thread's request joins the queue.
LEMMA QueuedStep ==
  ASSUME PlaceInv, NEW t \in Threads, holder = Free, pc[t] = "queue",
         queue' = queue \cup {own[t]}, pc' = [pc EXCEPT ![t] = "append"],
         UNCHANGED <<op, own, issued, resolved, holder, batch>>
  PROVE  PlaceInv'
<1>1. own[t] \in Requests /\ Waiting(own[t])
  BY OwnWaits, HolderAssumption
<1>2. \A u \in Threads : pc'[u] = IF u = t THEN "append" ELSE pc[u]
  BY DEF PlaceInv, PlaceTypes
<1>3. PlaceTypes' /\ OwnDiffer' /\ HolderSends'
  BY <1>1, <1>2, HolderAssumption
  DEF PlaceInv, PlaceTypes, OwnDiffer, HolderSends, Places, Requests
<1>4. \A n \in Requests : Waiting(n)' <=> (Waiting(n) /\ n # own[t])
  BY <1>2, HolderAssumption DEF Waiting, PlaceInv, OwnDiffer
<1>5. InOnePlace'
  <2>1. (queue \cap batch.items = {})'
    BY DEF PlaceInv, HolderSends
  <2>2. ASSUME NEW n \in Requests
        PROVE  /\ (n <= issued' /\ n \notin resolved')
                    <=> (Waiting(n)' \/ n \in queue' \cup batch'.items)
               /\ Waiting(n)' => n \notin queue' \cup batch'.items
    BY <1>1, <1>4 DEF PlaceInv, InOnePlace
  <2> QED
    BY <2>1, <2>2 DEF InOnePlace
<1> QED
  BY <1>3, <1>5 DEF PlaceInv

\* A batch is taken from the queue, and from a thread that holds the lock from now on.
LEMMA SentStep ==
  ASSUME PlaceInv, holder = Free, NEW h \in Threads \cup {Timer}, NEW items \in SUBSET Requests,
         h \in Threads => pc[h] \in {"queue", "flush"},
         \A n \in Requests :
           n \in items <=> n \in queue \/ (h \in Threads /\ pc[h] = "queue" /\ n = own[h]),
         TakeQueue(h, items), UNCHANGED <<pc, op, own, issued, resolved>>
  PROVE  PlaceInv'
<1>1. holder' = h /\ h # Free /\ queue' = {} /\ batch'.items = items /\ batch.items = {}
  BY HolderAssumption DEF TakeQueue, PlaceInv, HolderSends
<1>2. PlaceTypes' /\ OwnDiffer' /\ HolderSends'
  BY <1>1, HolderAssumption DEF PlaceInv, PlaceTypes, OwnDiffer, HolderSends, Requests
<1>3. \A n \in Requests :
        Waiting(n)' <=> Waiting(n) /\ ~(h \in Threads /\ pc[h] = "queue" /\ n = own[h])
  BY <1>1, HolderAssumption DEF Waiting, PlaceInv, OwnDiffer
<1>4. ASSUME h \in Threads, pc[h] = "queue" PROVE Waiting(own[h])
  BY <1>4, OwnWaits, HolderAssumption
<1>5. InOnePlace'
  <2>1. (queue \cap batch.items = {})'
    BY <1>1
  <2>2. ASSUME NEW n \in Requests
        PROVE  /\ (n <= issued' /\ n \notin resolved')
                    <=> (Waiting(n)' \/ n \in queue' \cup batch'.items)
               /\ Waiting(n)' => n \notin queue' \cup batch'.items
    BY <1>1, <1>3, <1>4 DEF PlaceInv, InOnePlace
  <2> QED
    BY <2>1, <2>2 DEF InOnePlace
<1> QED
  BY <1>2, <1>5 DEF PlaceInv

\* The batch ends with a result for every item.
LEMMA FinishStep ==
  ASSUME PlaceInv, holder # Free, Finish(batch.items), UNCHANGED <<op, own, issued, queue>>
  PROVE  PlaceInv'
<1>1. /\ resolved' = resolved \cup batch.items /\ holder' = Free /\ batch'.items = {}
      /\ \A t \in Threads : /\ pc'[t] \in Places
                            /\ pc'[t] = "queue" <=> pc[t] = "queue" /\ t # holder
  BY DEF Finish, NoBatch, Places, PlaceInv, PlaceTypes
<1>2. batch.items \subseteq 1..issued
  BY DEF PlaceInv, PlaceTypes, InOnePlace, Requests
<1>3. PlaceTypes'
  <2>1. pc' \in [Threads -> Places]
    BY <1>1 DEF Finish
  <2> QED
    BY <1>1, <1>2, <2>1 DEF PlaceInv, PlaceTypes, Requests
<1>4. OwnDiffer' /\ HolderSends'
  BY <1>1, HolderAssumption DEF PlaceInv, OwnDiffer, HolderSends
<1>5. \A n \in Requests : Waiting(n)' <=> Waiting(n)
  BY <1>1, HolderAssumption DEF Waiting
<1>6. InOnePlace'
  <2>1. (queue \cap batch.items = {})'
    BY <1>1
  <2>2. ASSUME NEW n \in Requests
        PROVE  /\ (n <= issued' /\ n \notin resolved')
                    <=> (Waiting(n)' \/ n \in queue' \cup batch'.items)
               /\ Waiting(n)' => n \notin queue' \cup batch'.items
    BY <1>1, <1>5 DEF PlaceInv, InOnePlace
  <2> QED
    BY <2>1, <2>2 DEF InOnePlace
<1> QED
  BY <1>3, <1>4, <1>6 DEF PlaceInv

LEMMA PlaceStep == ~ShortAnswers /\ HasCallable /\ PlaceInv /\ [Next]_vars => PlaceInv'
<1> SUFFICES ASSUME ~ShortAnswers, HasCallable, PlaceInv, [Next]_vars PROVE PlaceInv'
  OBVIOUS
<1>0. /\ pc \in [Threads -> Places] /\ op \in [Threads -> Ops] /\ own \in [Threads -> Nat]
      /\ queue \subseteq Requests
      /\ \A t \in Threads : holder = t => pc[t] \in {"queue", "flush"}
  BY DEF PlaceInv, PlaceTypes, HolderSends
<1>1. \A o \in Ops : AfterRequest(o) \in Places \ {"queue"}
  BY DEF AfterRequest, Ops, Places
<1>2. ASSUME NEW t \in Threads, NEW o \in Ops, NEW k \in Keys, RequestHit(t, o, k)
      PROVE  PlaceInv'
  <2>1. /\ holder # t /\ pc[t] # "queue" /\ pc' = [pc EXCEPT ![t] = AfterRequest(o)]
        /\ op' \in [Threads -> Ops] /\ own' \in [Threads -> Nat]
        /\ \A u \in Threads \ {t} : own'[u] = own[u]
        /\ UNCHANGED <<issued, resolved, queue, holder, batch>>
    BY <1>0, <1>2 DEF RequestHit, MayRequest, Goto, NoRequest
  <2> QED
    BY <1>1, <2>1, QuietStep
<1>3. ASSUME NEW t \in Threads, \/ StartFlush(t) \/ ClearPending(t) \/ Get(t)
                              \/ Collect(t) \/ Await(t)
      PROVE  PlaceInv'
  <2>1. PICK place \in {"flush", "idle", "get", "collect", "wait", "clear"} :
          /\ holder # t /\ pc[t] # "queue" /\ pc' = [pc EXCEPT ![t] = place]
          /\ op' \in [Threads -> Ops] /\ own' \in [Threads -> Nat]
          /\ \A u \in Threads \ {t} : own'[u] = own[u]
          /\ UNCHANGED <<issued, resolved, queue, holder, batch>>
    <3>1. CASE StartFlush(t)
      BY <1>0, <3>1 DEF StartFlush, Goto
    <3>2. CASE ClearPending(t)
      BY <1>0, <3>2 DEF ClearPending, Goto, Return, Ops
    <3>3. CASE Get(t)
      BY <1>0, <3>3 DEF Get, Goto, Return, Ops, NoRequest
    <3>4. CASE Collect(t) \/ Await(t)
      BY <1>0, <3>4 DEF Collect, Await, Goto
    <3> QED
      BY <1>3, <3>1, <3>2, <3>3, <3>4
  <2>2. place \in Places \ {"queue"}
    BY DEF Places
  <2> QED
    BY <2>1, <2>2, QuietStep
<1>4. ASSUME NEW t \in Threads, AppendFuture(t) PROVE PlaceInv'
  <2>1. op[t] \in Ops
    BY <1>0
  <2>2. /\ holder # t /\ pc[t] # "queue" /\ pc' = [pc EXCEPT ![t] = AfterRequest(op[t])]
        /\ op' \in [Threads -> Ops] /\ own' \in [Threads -> Nat]
        /\ \A u \in Threads \ {t} : own'[u] = own[u]
        /\ UNCHANGED <<issued, resolved, queue, holder, batch>>
    BY <1>0, <1>4 DEF AppendFuture, Goto, NoRequest
  <2> QED
    BY <1>1, <2>1, <2>2, QuietStep
<1>5. ASSUME NEW t \in Threads, Enqueue(t) PROVE PlaceInv'
  <2> DEFINE items == queue \cup {own[t]}
  <2>1. /\ pc[t] = "queue" /\ holder = Free /\ own[t] \in Requests
        /\ UNCHANGED <<op, own, issued, resolved>>
    BY <1>5, OwnWaits, HolderAssumption DEF Enqueue
  <2>2. CASE Full(items)
    <3>1. TakeQueue(t, items) /\ pc' = pc
      BY <1>5, <2>2 DEF Enqueue
    <3>2. items \in SUBSET Requests
      BY <1>0, <2>1
    <3> QED
      BY <2>1, <3>1, <3>2, SentStep
  <2>3. CASE ~Full(items)
    <3>1. queue' = items /\ pc' = [pc EXCEPT ![t] = "append"] /\ UNCHANGED <<holder, batch>>
      BY <1>5, <2>3 DEF Enqueue, Goto
    <3> QED
      BY <2>1, <3>1, QueuedStep
  <2> QED
    BY <2>2, <2>3
<1>6. ASSUME NEW t \in Threads, Flush(t) PROVE PlaceInv'
  <2>1. pc[t] = "flush" /\ holder = Free /\ UNCHANGED <<op, own, issued, resolved>>
    BY <1>6 DEF Flush
  <2>2. CASE queue = {}
    <3>1. pc' = [pc EXCEPT ![t] = "collect"] /\ UNCHANGED <<queue, holder, batch>>
      BY <1>6, <2>2 DEF Flush, Goto
    <3>2. "collect" \in Places \ {"queue"} /\ holder # t
      BY <2>1, HolderAssumption DEF Places
    <3> QED
      BY <1>0, <2>1, <3>1, <3>2, QuietStep
  <2>3. CASE queue # {}
    <3>1. TakeQueue(t, queue) /\ pc' = pc
      BY <1>6, <2>3 DEF Flush
    <3> QED
      BY <1>0, <2>1, <3>1, SentStep
  <2> QED
    BY <2>2, <2>3
<1>7. CASE TimerRuns
  <2>1. holder = Free /\ UNCHANGED <<pc, op, own, issued, resolved>>
    BY <1>7 DEF TimerRuns, clientVars
  <2>2. CASE queue = {}
    BY <1>7, <2>1, <2>2, StillStep DEF TimerRuns
  <2>3. CASE queue # {}
    <3>1. TakeQueue(Timer, queue)
      BY <1>7, <2>3 DEF TimerRuns
    <3> QED
      BY <1>0, <2>1, <3>1, SentStep, HolderAssumption
  <2> QED
    BY <2>2, <2>3
<1>8. CASE BatchAnswered \/ BatchFails
  <2>1. holder # Free /\ Finish(batch.items) /\ UNCHANGED <<op, own, issued, queue>>
    BY <1>8 DEF BatchAnswered, Answered, BatchFails
  <2> QED
    BY <2>1, FinishStep
<1>9. CASE RateLimited \/ NextEndpoint
  <2>1. UNCHANGED <<pc, op, own, issued, resolved, queue, holder>> /\ batch'.items = batch.items
    BY <1>9 DEF RateLimited, NextEndpoint, clientVars
  <2> QED
    BY <2>1, StillStep
<1>10. CASE TimerFires \/ (\E k \in cached : Forget({k})) \/ Forget(cached) \/ UNCHANGED vars
  <2>1. UNCHANGED <<pc, op, own, issued, resolved, queue, holder, batch>>
    BY <1>10 DEF TimerFires, Forget, clientVars, vars
  <2> QED
    BY <2>1, StillStep
<1> QED
  BY <1>2, <1>3, <1>4, <1>5, <1>6, <1>7, <1>8, <1>9, <1>10, MissStep DEF Next, Step, Http

\* When there is a callable and nodes answer whole batches, a request that has no result
\* yet is in exactly one place: about to be queued, in the queue, or in the batch under way.
THEOREM NothingLost == ASSUME ~ShortAnswers, HasCallable PROVE Spec => []InOnePlace
<1>1. Init => PlaceInv
  <2> SUFFICES ASSUME Init PROVE PlaceInv
    OBVIOUS
  <2>1. PlaceTypes
    BY BoundAssumption DEF Init, PlaceTypes, Places, Ops, NoRequest, NoBatch
  <2>2. OwnDiffer /\ HolderSends
    BY HolderAssumption DEF Init, OwnDiffer, HolderSends, NoBatch
  <2>3. InOnePlace
    BY DEF Init, InOnePlace, Waiting, NoBatch, Requests
  <2> QED
    BY <2>1, <2>2, <2>3 DEF PlaceInv
<1>2. PlaceInv /\ [Next]_vars => PlaceInv'
  BY PlaceStep
<1>3. PlaceInv => InOnePlace
  BY DEF PlaceInv
<1> QED
  BY <1>1, <1>2, <1>3, PTL DEF Spec

-----------------------------------------------------------------------------
(* Types.                                                                  *)

\* What carries the types: a thread about to queue, or to append, has made a request.
OwnMade == \A t \in Threads : pc[t] \in {"queue", "append"} => own[t] \in Requests

ClientTypes ==
  /\ pc \in [Threads -> Places]
  /\ op \in [Threads -> Ops]
  /\ own \in [Threads -> Requests \cup {NoRequest}]
  /\ at \in [Threads -> Nat \ {0}]
  /\ awaits \in [Threads -> Requests \cup {NoRequest}]
  /\ pending \in Seq(Requests)
  /\ issued \in 0..MaxRequests
  /\ keyOf \in [Requests -> Keys]
  /\ OwnMade

BatchTypes ==
  /\ resolved \subseteq Requests
  /\ queue \subseteq Requests
  /\ holder \in Threads \cup {Timer, Free}
  /\ batch \in [items : SUBSET Requests, endpoint : 1..Endpoints, attempt : 0..MaxRetries]
  /\ cached \subseteq Keys

TimerTypes == timerSet \in BOOLEAN /\ counting \in BOOLEAN /\ fired \in Nat

LEMMA TimerTypesStep == TimerTypes /\ [Next]_vars => TimerTypes'
<1> SUFFICES ASSUME TimerTypes, [Next]_vars PROVE TimerTypes'
  OBVIOUS
<1>1. timerSet' \in BOOLEAN
  BY DEF TimerTypes, Next, Step, Http, RequestHit, RequestMiss, StartFlush, Enqueue,
         AppendFuture, Flush, Collect, Await, ClearPending, Get, TimerFires, TimerRuns,
         BatchAnswered, RateLimited, NextEndpoint, BatchFails, Forget, TakeQueue, CancelTimer, vars
<1>2. counting' \in BOOLEAN
  BY DEF TimerTypes, Next, Step, Http, RequestHit, RequestMiss, StartFlush, Enqueue,
         AppendFuture, Flush, Collect, Await, ClearPending, Get, TimerFires, TimerRuns,
         BatchAnswered, RateLimited, NextEndpoint, BatchFails, Forget, TakeQueue, CancelTimer, vars
<1>3. fired' \in Nat
  <2>1. fired' = fired \/ fired' = fired + 1 \/ (fired > 0 /\ fired' = fired - 1)
    BY DEF Next, Step, Http, RequestHit, RequestMiss, StartFlush, Enqueue,
           AppendFuture, Flush, Collect, Await, ClearPending, Get, TimerFires, TimerRuns,
           BatchAnswered, RateLimited, NextEndpoint, BatchFails, Forget, vars
  <2> QED
    BY <2>1 DEF TimerTypes
<1> QED
  BY <1>1, <1>2, <1>3 DEF TimerTypes

\* Whoever sends requests leaves a batch of requests.
LEMMA TakeQueueTypes ==
  ASSUME BatchTypes, NEW h \in Threads \cup {Timer}, NEW items \in SUBSET Requests,
         TakeQueue(h, items), UNCHANGED <<resolved, cached>>
  PROVE  BatchTypes'
BY ConfigAssumption DEF TakeQueue, BatchTypes

LEMMA BatchTypesStep == ClientTypes /\ BatchTypes /\ [Next]_vars => BatchTypes'
<1> SUFFICES ASSUME ClientTypes, BatchTypes, [Next]_vars PROVE BatchTypes'
  OBVIOUS
<1>1. ASSUME NEW t \in Threads, Enqueue(t) PROVE BatchTypes'
  <2>1. own[t] \in Requests /\ UNCHANGED <<resolved, cached>>
    BY <1>1 DEF Enqueue, ClientTypes, OwnMade
  <2>2. queue \cup {own[t]} \in SUBSET Requests
    BY <2>1 DEF BatchTypes
  <2>3. CASE Full(queue \cup {own[t]})
    BY <1>1, <2>1, <2>2, <2>3, TakeQueueTypes DEF Enqueue
  <2>4. CASE ~Full(queue \cup {own[t]})
    BY <1>1, <2>1, <2>2, <2>4 DEF Enqueue, BatchTypes
  <2> QED
    BY <2>3, <2>4
<1>2. ASSUME NEW t \in Threads, Flush(t) PROVE BatchTypes'
  <2>1. CASE queue = {}
    BY <1>2, <2>1 DEF Flush, BatchTypes
  <2>2. CASE queue # {}
    <3>1. TakeQueue(t, queue) /\ UNCHANGED <<resolved, cached>>
      BY <1>2, <2>2 DEF Flush
    <3> QED
      BY <3>1, TakeQueueTypes DEF BatchTypes
  <2> QED
    BY <2>1, <2>2
<1>3. CASE TimerRuns
  <2>1. CASE queue = {}
    BY <1>3, <2>1 DEF TimerRuns, BatchTypes
  <2>2. CASE queue # {}
    <3>1. TakeQueue(Timer, queue) /\ UNCHANGED <<resolved, cached>>
      BY <1>3, <2>2 DEF TimerRuns
    <3> QED
      BY <3>1, TakeQueueTypes DEF BatchTypes
  <2> QED
    BY <2>1, <2>2
<1>4. CASE BatchAnswered
  <2>1. PICK items \in SUBSET batch.items :
          cached' = cached \cup {keyOf[n] : n \in items} /\ Finish(items)
    BY <1>4 DEF BatchAnswered, Answered
  <2>2. batch.items \subseteq Requests
    BY DEF BatchTypes
  <2>3. cached' \subseteq Keys
    BY <2>1, <2>2 DEF BatchTypes, ClientTypes
  <2>4. queue' = queue
    BY <1>4 DEF BatchAnswered
  <2> QED
    BY <2>1, <2>2, <2>3, <2>4, ConfigAssumption DEF Finish, NoBatch, BatchTypes
<1>5. CASE BatchFails
  BY <1>5, ConfigAssumption DEF BatchFails, Finish, NoBatch, BatchTypes
<1>6. CASE RateLimited
  <2>1. batch.attempt + 1 \in 0..MaxRetries
    BY <1>6, ConfigAssumption DEF RateLimited, RetriesLeft, BatchTypes
  <2> QED
    BY <1>6, <2>1 DEF RateLimited, BatchTypes
<1>7. CASE NextEndpoint
  <2>1. batch.endpoint + 1 \in 1..Endpoints /\ 0 \in 0..MaxRetries
    BY <1>7, ConfigAssumption DEF NextEndpoint, BatchTypes
  <2> QED
    BY <1>7, <2>1 DEF NextEndpoint, BatchTypes
<1>8. ASSUME NEW gone \in SUBSET cached, Forget(gone) PROVE BatchTypes'
  BY <1>8 DEF Forget, BatchTypes
<1>9. ASSUME NEW t \in Threads,
             \/ StartFlush(t) \/ AppendFuture(t) \/ Collect(t) \/ Await(t) \/ ClearPending(t)
             \/ Get(t)
             \/ \E o \in Ops, k \in Keys : RequestHit(t, o, k) \/ RequestMiss(t, o, k)
      PROVE  BatchTypes'
  BY <1>9 DEF StartFlush, AppendFuture, Collect, Await, ClearPending, Get, RequestHit, RequestMiss,
              BatchTypes
<1>10. CASE TimerFires \/ UNCHANGED vars
  BY <1>10 DEF TimerFires, vars, BatchTypes
<1>11. ASSUME (\E k \in cached : Forget({k})) \/ Forget(cached) PROVE BatchTypes'
  BY <1>8, <1>11
<1> QED
  BY <1>1, <1>2, <1>3, <1>4, <1>5, <1>6, <1>7, <1>9, <1>10, <1>11 DEF Next, Step, Http

\* A thread goes to a place where it needs no request of its own.
LEMMA GotoTypes ==
  ASSUME ClientTypes, NEW t \in Threads, NEW place \in Places \ {"queue", "append"},
         Goto(t, place), op' \in [Threads -> Ops],
         own' \in [Threads -> Requests \cup {NoRequest}],
         \A u \in Threads \ {t} : own'[u] = own[u],
         at' \in [Threads -> Nat \ {0}], pending' \in Seq(Requests),
         awaits' \in [Threads -> Requests \cup {NoRequest}],
         UNCHANGED <<issued, keyOf>>
  PROVE  ClientTypes'
<1>1. pc' \in [Threads -> Places]
  BY DEF ClientTypes, Goto
<1>2. OwnMade'
  BY DEF ClientTypes, Goto, OwnMade
<1> QED
  BY <1>1, <1>2 DEF ClientTypes

LEMMA ClientTypesStep == ClientTypes /\ BatchTypes /\ [Next]_vars => ClientTypes'
<1> SUFFICES ASSUME ClientTypes, BatchTypes, [Next]_vars PROVE ClientTypes'
  OBVIOUS
<1>0. /\ pc \in [Threads -> Places] /\ op \in [Threads -> Ops]
      /\ own \in [Threads -> Requests \cup {NoRequest}]
      /\ at \in [Threads -> Nat \ {0}] /\ pending \in Seq(Requests)
      /\ awaits \in [Threads -> Requests \cup {NoRequest}]
  BY DEF ClientTypes
<1>a. \A o \in Ops : AfterRequest(o) \in Places \ {"queue", "append"}
  BY DEF AfterRequest, Ops, Places
<1>1. ASSUME NEW t \in Threads, NEW o \in Ops, NEW k \in Keys, RequestHit(t, o, k)
      PROVE  ClientTypes'
  BY <1>0, <1>a, <1>1, GotoTypes DEF RequestHit
<1>2. ASSUME NEW t \in Threads, NEW o \in Ops, NEW k \in Keys, RequestMiss(t, o, k)
      PROVE  ClientTypes'
  <2>1. issued + 1 \in Requests /\ issued' = issued + 1 /\ issued' \in 0..MaxRequests
    BY <1>2, BoundAssumption DEF RequestMiss, ClientTypes, Requests
  <2>2. /\ own' = [own EXCEPT ![t] = issued + 1] /\ pc' = [pc EXCEPT ![t] = "queue"]
        /\ op' = [op EXCEPT ![t] = o] /\ keyOf' = [keyOf EXCEPT ![issued + 1] = k]
        /\ UNCHANGED <<at, awaits, pending>>
    BY <1>2 DEF RequestMiss, Goto
  <2>3. pc' \in [Threads -> Places] /\ own' \in [Threads -> Requests \cup {NoRequest}]
    BY <1>0, <2>1, <2>2 DEF Places
  <2>4. OwnMade'
    BY <1>0, <2>1, <2>2 DEF ClientTypes, OwnMade
  <2>5. op' \in [Threads -> Ops] /\ keyOf' \in [Requests -> Keys]
    BY <2>2 DEF ClientTypes
  <2> QED
    BY <1>0, <2>1, <2>2, <2>3, <2>4, <2>5 DEF ClientTypes
<1>3. ASSUME NEW t \in Threads, StartFlush(t) PROVE ClientTypes'
  <2>1. "flush" \in Places \ {"queue", "append"}
    BY DEF Places
  <2> QED
    BY <1>0, <1>3, <2>1, GotoTypes DEF StartFlush
<1>4. ASSUME NEW t \in Threads, AppendFuture(t) PROVE ClientTypes'
  <2>1. own[t] \in Requests /\ op[t] \in Ops
    BY <1>4 DEF AppendFuture, ClientTypes, OwnMade
  <2>2. pending' \in Seq(Requests)
    BY <1>0, <1>4, <2>1 DEF AppendFuture
  <2>3. own' \in [Threads -> Requests \cup {NoRequest}] /\ \A u \in Threads \ {t} : own'[u] = own[u]
    BY <1>0, <1>4 DEF AppendFuture
  <2> QED
    BY <1>0, <1>a, <1>4, <2>1, <2>2, <2>3, GotoTypes DEF AppendFuture
<1>5. ASSUME NEW t \in Threads, Enqueue(t) PROVE ClientTypes'
  <2>1. /\ pc[t] = "queue" /\ UNCHANGED <<op, own, at, awaits, pending, issued, keyOf>>
        /\ pc' = pc \/ pc' = [pc EXCEPT ![t] = "append"]
    BY <1>5 DEF Enqueue, Goto
  <2> QED
    BY <2>1 DEF ClientTypes, OwnMade, Places
<1>6. ASSUME NEW t \in Threads, Flush(t) PROVE ClientTypes'
  <2>1. CASE queue = {}
    <3>1. "collect" \in Places \ {"queue", "append"}
      BY DEF Places
    <3> QED
      BY <1>0, <1>6, <2>1, <3>1, GotoTypes DEF Flush
  <2>2. CASE queue # {}
    BY <1>6, <2>2 DEF Flush, ClientTypes, OwnMade
  <2> QED
    BY <2>1, <2>2
<1>7. ASSUME NEW t \in Threads, Collect(t) \/ Await(t) PROVE ClientTypes'
  <2>1. UNCHANGED <<op, own, pending, issued, keyOf>>
    BY <1>7 DEF Collect, Await
  <2>2. PICK place \in {"clear", "collect", "wait"} : Goto(t, place)
    BY <1>0, <1>7 DEF Collect, Await, Goto
  <2>3. at' \in [Threads -> Nat \ {0}] /\ awaits' \in [Threads -> Requests \cup {NoRequest}]
    <3>1. CASE Await(t)
      BY <1>0, <3>1 DEF Await
    <3>2. CASE Collect(t) /\ at[t] > Len(pending)
      BY <1>0, <3>2 DEF Collect
    <3>3. CASE Collect(t) /\ ~(at[t] > Len(pending))
      <4>1. at[t] \in 1..Len(pending) /\ pending[at[t]] \in Requests
        BY <1>0, <3>3
      <4>2. /\ at' = [at EXCEPT ![t] = at[t] + 1]
            /\ awaits' = awaits \/ awaits' = [awaits EXCEPT ![t] = pending[at[t]]]
        BY <3>3 DEF Collect
      <4>3. at[t] + 1 \in Nat \ {0}
        BY <4>1
      <4> QED
        BY <1>0, <4>1, <4>2, <4>3
    <3> QED
      BY <1>7, <3>1, <3>2, <3>3
  <2>4. place \in Places \ {"queue", "append"}
    BY DEF Places
  <2> QED
    BY <1>0, <2>1, <2>2, <2>3, <2>4, GotoTypes
<1>8. ASSUME NEW t \in Threads, ClearPending(t) PROVE ClientTypes'
  <2>1. /\ pending' \in Seq(Requests) /\ at' \in [Threads -> Nat \ {0}]
        /\ UNCHANGED <<own, awaits, issued, keyOf>>
    BY <1>0, <1>8 DEF ClearPending
  <2>2. PICK place \in {"get", "idle"} : Goto(t, place) /\ op' \in [Threads -> Ops]
    BY <1>0, <1>8 DEF ClearPending, Return, Ops
  <2>3. place \in Places \ {"queue", "append"}
    BY DEF Places
  <2> QED
    BY <1>0, <2>1, <2>2, <2>3, GotoTypes
<1>9. ASSUME NEW t \in Threads, Get(t) PROVE ClientTypes'
  <2>1. own' \in [Threads -> Requests \cup {NoRequest}] /\ \A u \in Threads \ {t} : own'[u] = own[u]
    BY <1>0, <1>9 DEF Get
  <2>2. /\ op' \in [Threads -> Ops] /\ Goto(t, "idle")
        /\ UNCHANGED <<at, awaits, pending, issued, keyOf>>
    BY <1>0, <1>9 DEF Get, Return, Ops
  <2>3. "idle" \in Places \ {"queue", "append"}
    BY DEF Places
  <2> QED
    BY <1>0, <2>1, <2>2, <2>3, GotoTypes
<1>10. CASE BatchAnswered \/ BatchFails
  <2>1. /\ UNCHANGED <<op, own, at, awaits, pending, issued, keyOf>>
        /\ pc' = [t \in Threads |-> IF t # holder THEN pc[t]
                                    ELSE IF pc[t] = "queue" THEN "append" ELSE "collect"]
    BY <1>10 DEF BatchAnswered, BatchFails, Finish
  <2>2. pc' \in [Threads -> Places]
    BY <1>0, <2>1 DEF Places
  <2>3. OwnMade'
    BY <2>1 DEF ClientTypes, OwnMade
  <2> QED
    BY <2>1, <2>2, <2>3 DEF ClientTypes
<1>11. CASE \/ RateLimited \/ NextEndpoint \/ TimerFires \/ TimerRuns
            \/ (\E k \in cached : Forget({k})) \/ Forget(cached)
  <2>1. UNCHANGED <<pc, op, own, at, awaits, pending, issued, keyOf>>
    BY <1>11 DEF RateLimited, NextEndpoint, TimerFires, TimerRuns, Forget, clientVars
  <2> QED
    BY <2>1 DEF ClientTypes, OwnMade
<1>12. CASE UNCHANGED vars
  BY <1>12 DEF vars, ClientTypes, OwnMade
<1> QED
  BY <1>1, <1>2, <1>3, <1>4, <1>5, <1>6, <1>7, <1>8, <1>9, <1>10, <1>11, <1>12
  DEF Next, Step, Http

\* Every list, queue and batch holds requests that were made and nothing else, also when
\* nodes answer short, and no batch runs past the endpoints or the retries.
THEOREM TypeCorrect == Spec => []TypeOK
<1>1. Init => ClientTypes /\ BatchTypes /\ TimerTypes
  <2> SUFFICES ASSUME Init PROVE ClientTypes /\ BatchTypes /\ TimerTypes
    OBVIOUS
  <2>1. ClientTypes
    <3>1. /\ issued \in 0..MaxRequests /\ at \in [Threads -> Nat \ {0}]
          /\ awaits \in [Threads -> Requests \cup {NoRequest}]
      BY BoundAssumption DEF Init
    <3>2. keyOf \in [Requests -> Keys]
      <4>1. (CHOOSE k \in Keys : TRUE) \in Keys
        BY KeysAssumption
      <4> QED
        BY <4>1 DEF Init
    <3>3. /\ pc \in [Threads -> Places] /\ op \in [Threads -> Ops]
          /\ own \in [Threads -> Requests \cup {NoRequest}] /\ pending \in Seq(Requests) /\ OwnMade
      BY DEF Init, Places, Ops, OwnMade
    <3> QED
      BY <3>1, <3>2, <3>3 DEF ClientTypes
  <2>2. BatchTypes
    BY ConfigAssumption DEF Init, BatchTypes, NoBatch
  <2>3. TimerTypes
    <3>1. fired \in Nat
      BY DEF Init
    <3>2. timerSet \in BOOLEAN /\ counting \in BOOLEAN
      BY DEF Init
    <3> QED
      BY <3>1, <3>2 DEF TimerTypes
  <2> QED
    BY <2>1, <2>2, <2>3
<1>2. ClientTypes /\ BatchTypes /\ TimerTypes => TypeOK
  BY DEF ClientTypes, BatchTypes, TimerTypes, TypeOK
<1> QED
  BY <1>1, <1>2, TimerTypesStep, BatchTypesStep, ClientTypesStep, PTL DEF Spec
=============================================================================

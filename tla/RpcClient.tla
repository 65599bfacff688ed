------------------------------ MODULE RpcClient ------------------------------
(***************************************************************************)
(* The RPC client (src/ingestion/rpc/client.py), its batcher (batcher.py)  *)
(* and its cache (cache.py), shared by several threads.                    *)
(*                                                                         *)
(* A request that misses the cache is queued; the queue is sent as one     *)
(* batch when it is full, when a timer fires, or when a thread flushes,    *)
(* and the batcher's lock is held from then until the batch is answered or *)
(* every endpoint has failed.  Requests are numbered; a number stands for  *)
(* the BatchItem and for its future.  The client reports to the failover   *)
(* manager and reads nothing back from it, so health is left out.          *)
(***************************************************************************)
EXTENDS Integers, FiniteSets, Sequences

CONSTANTS Threads,      \* threads using the client
          Keys,         \* cache keys
          MaxBatch,     \* max_batch_size
          Endpoints,    \* how many endpoints the failover manager lists
          MaxRetries,   \* max_retries
          HasCallable,  \* was the client given an http_callable?
          ShortAnswers, \* may the node answer fewer requests than were sent?
          Timer,        \* the timer thread, as a holder of the lock
          Free,         \* nobody holds the lock
          MaxRequests   \* bound: requests queued

ASSUME HolderAssumption  == Timer # Free /\ Timer \notin Threads /\ Free \notin Threads
ASSUME ConfigAssumption  == /\ MaxBatch \in Nat \ {0} /\ Endpoints \in Nat \ {0}
                            /\ MaxRetries \in Nat
                            /\ HasCallable \in BOOLEAN /\ ShortAnswers \in BOOLEAN
ASSUME KeysAssumption    == Keys # {}
ASSUME BoundAssumption   == MaxRequests \in Nat

Requests == 1..MaxRequests
NoRequest == 0

VARIABLES pc,       \* pc[t]: where thread t is
          op,       \* op[t]: "request", "single" (get_balance) or "all" (request_all)
          own,      \* own[t]: the request it made last, NoRequest after a cache hit
          at,       \* at[t]: where flush is in the list of pending futures
          awaits,   \* awaits[t]: the future that flush is in get() of
          pending,  \* _pending_futures
          issued,   \* requests made so far
          keyOf,    \* keyOf[n]: the cache key of request n
          resolved, \* requests whose futures hold an answer or an exception
          queue,    \* _queue
          timerSet, \* _timer is not None
          counting, \* is that timer still waiting?
          fired,    \* timer threads past their wait, in _on_timer
          holder,   \* who holds the batcher's lock
          batch,    \* items being sent, the endpoint and the attempt
          cached    \* keys in the cache that have not expired

clientVars == <<pc, op, own, at, awaits, pending, issued, keyOf>>
vars == <<pc, op, own, at, awaits, pending, issued, keyOf, resolved, queue, timerSet, counting,
          fired, holder, batch, cached>>

Places == {"idle", "queue", "append", "made", "flush", "collect", "wait", "clear", "get"}
Ops    == {"request", "single", "all"}
NoBatch == [items |-> {}, endpoint |-> 1, attempt |-> 0]

Init == /\ pc = [t \in Threads |-> "idle"]
        /\ op = [t \in Threads |-> "request"]
        /\ own = [t \in Threads |-> NoRequest]
        /\ at = [t \in Threads |-> 1]
        /\ awaits = [t \in Threads |-> NoRequest]
        /\ pending = <<>>
        /\ issued = 0
        /\ keyOf = [n \in Requests |-> CHOOSE k \in Keys : TRUE]
        /\ resolved = {}
        /\ queue = {}
        /\ timerSet = FALSE /\ counting = FALSE /\ fired = 0
        /\ holder = Free /\ batch = NoBatch
        /\ cached = {}

Goto(t, place) == pc' = [pc EXCEPT ![t] = place]

\* The call is over; its local variables are forgotten.
Return(t) == Goto(t, "idle") /\ op' = [op EXCEPT ![t] = "request"]

-----------------------------------------------------------------------------
(* SmartRpcClient.request and its callers.                                 *)

\* Where a call goes on once its request is made, or was answered by the cache.
AfterRequest(o) == CASE o = "request" -> "idle"
                     [] o = "single"  -> "flush"
                     [] o = "all"     -> "made"

\* A call begins, or request_all goes on with its list.
MayRequest(t, o) == \/ pc[t] = "idle"
                    \/ pc[t] = "made" /\ o = "all"

\* The cache answers: the future returned is a resolved one.
RequestHit(t, o, k) ==
  /\ MayRequest(t, o)
  /\ k \in cached
  /\ op' = [op EXCEPT ![t] = o]
  /\ own' = [own EXCEPT ![t] = NoRequest]
  /\ Goto(t, AfterRequest(o))
  /\ UNCHANGED <<at, awaits, pending, issued, keyOf, resolved, queue, timerSet, counting, fired,
                 holder, batch, cached>>

\* It does not: an item is made, to be queued.
RequestMiss(t, o, k) ==
  /\ MayRequest(t, o)
  /\ k \notin cached
  /\ issued < MaxRequests
  /\ op' = [op EXCEPT ![t] = o]
  /\ issued' = issued + 1
  /\ keyOf' = [keyOf EXCEPT ![issued + 1] = k]
  /\ own' = [own EXCEPT ![t] = issued + 1]
  /\ Goto(t, "queue")
  /\ UNCHANGED <<at, awaits, pending, resolved, queue, timerSet, counting, fired, holder, batch,
                 cached>>

\* The list of request_all is at its end.
StartFlush(t) ==
  /\ pc[t] = "made"
  /\ Goto(t, "flush")
  /\ UNCHANGED <<op, own, at, awaits, pending, issued, keyOf, resolved, queue, timerSet, counting,
                 fired, holder, batch, cached>>

-----------------------------------------------------------------------------
(* RpcBatcher: queue_request, flush and _on_timer, under the lock.         *)

\* Variant: a full queue may hold one more.
FullPastMax(items) == Cardinality(items) > MaxBatch

Full(items) == Cardinality(items) >= MaxBatch

\* Variant: the timer is cancelled and stays in _timer.
CancelTimerOnly == counting' = FALSE /\ UNCHANGED timerSet

CancelTimer == counting' = FALSE /\ timerSet' = FALSE

\* Variant: the queue keeps what is being sent.
TakeQueueKept(h, items) ==
  /\ queue' = items
  /\ CancelTimer
  /\ holder' = h
  /\ batch' = [items |-> items, endpoint |-> 1, attempt |-> 0]

\* _flush: its caller keeps the lock while the batch is on its way.
TakeQueue(h, items) ==
  /\ queue' = {}
  /\ CancelTimer
  /\ holder' = h
  /\ batch' = [items |-> items, endpoint |-> 1, attempt |-> 0]

\* queue_request: a full queue is sent, an idle timer is started.
Enqueue(t) ==
  LET items == queue \cup {own[t]} IN
  /\ pc[t] = "queue" /\ holder = Free
  /\ IF Full(items)
       THEN TakeQueue(t, items) /\ UNCHANGED pc
       ELSE /\ queue' = items
            /\ timerSet' = TRUE
            /\ counting' = (counting \/ ~timerSet)
            /\ Goto(t, "append")
            /\ UNCHANGED <<holder, batch>>
  /\ UNCHANGED <<op, own, at, awaits, pending, issued, keyOf, resolved, fired, cached>>

\* The future joins the shared list after queue_request has returned.
AppendFuture(t) ==
  /\ pc[t] = "append"
  /\ pending' = Append(pending, own[t])
  /\ own' = IF op[t] = "single" THEN own ELSE [own EXCEPT ![t] = NoRequest]
  /\ Goto(t, AfterRequest(op[t]))
  /\ UNCHANGED <<op, at, awaits, issued, keyOf, resolved, queue, timerSet, counting, fired,
                 holder, batch, cached>>

\* RpcBatcher.flush, called by SmartRpcClient.flush.
Flush(t) ==
  /\ pc[t] = "flush" /\ holder = Free
  /\ IF queue = {}
       THEN Goto(t, "collect") /\ UNCHANGED <<queue, timerSet, counting, holder, batch>>
       ELSE TakeQueue(t, queue) /\ UNCHANGED pc
  /\ UNCHANGED <<op, own, at, awaits, pending, issued, keyOf, resolved, fired, cached>>

\* The timer's wait is over: from here on cancel() comes too late.
TimerFires ==
  /\ counting
  /\ counting' = FALSE
  /\ fired' = fired + 1
  /\ UNCHANGED <<clientVars, resolved, queue, timerSet, holder, batch, cached>>

\* _on_timer
TimerRuns ==
  /\ fired > 0 /\ holder = Free
  /\ fired' = fired - 1
  /\ IF queue = {}
       THEN timerSet' = FALSE /\ UNCHANGED <<queue, counting, holder, batch>>
       ELSE TakeQueue(Timer, queue)
  /\ UNCHANGED <<clientVars, resolved, cached>>

-----------------------------------------------------------------------------
(* SmartRpcClient._execute_batch, inside _flush.                           *)

\* The batch is over: its items' futures are set and the lock is released.
Finish(items) ==
  /\ resolved' = resolved \cup items
  /\ holder' = Free
  /\ batch' = NoBatch
  /\ pc' = [t \in Threads |->
              IF t # holder THEN pc[t]
              ELSE IF pc[t] = "queue" THEN "append" ELSE "collect"]

\* What an answer may cover: zip() leaves out the items it is too short for, and without a
\* callable nobody is asked and no item gets anything.
Answered(items) == IF ~HasCallable THEN {{}} ELSE IF ShortAnswers THEN SUBSET items ELSE {items}

\* An endpoint answers: responses are cached, then dispatched.
BatchAnswered ==
  /\ holder # Free
  /\ \E items \in Answered(batch.items) :
       /\ cached' = cached \cup {keyOf[n] : n \in items}
       /\ Finish(items)
  /\ UNCHANGED <<op, own, at, awaits, pending, issued, keyOf, queue, timerSet, counting, fired>>

RetriesLeft == batch.attempt < MaxRetries

\* A rate-limited call is tried again on the same endpoint after a delay.
RateLimited ==
  /\ holder # Free /\ HasCallable
  /\ RetriesLeft
  /\ batch' = [items |-> batch.items, endpoint |-> batch.endpoint,
                attempt |-> batch.attempt + 1]
  /\ UNCHANGED <<clientVars, resolved, queue, timerSet, counting, fired, holder, cached>>

\* Any other error, or a rate limit after the last retry: the next endpoint.
NextEndpoint ==
  /\ holder # Free /\ HasCallable
  /\ batch.endpoint < Endpoints
  /\ batch' = [items |-> batch.items, endpoint |-> batch.endpoint + 1, attempt |-> 0]
  /\ UNCHANGED <<clientVars, resolved, queue, timerSet, counting, fired, holder, cached>>

\* Variant: the exception is logged, and the futures are forgotten.
BatchFailsSilently ==
  /\ holder # Free /\ HasCallable
  /\ batch.endpoint = Endpoints
  /\ Finish({})
  /\ UNCHANGED <<op, own, at, awaits, pending, issued, keyOf, queue, timerSet, counting, fired,
                 cached>>

\* There is none: the exception becomes the result of every item.
BatchFails ==
  /\ holder # Free /\ HasCallable
  /\ batch.endpoint = Endpoints
  /\ Finish(batch.items)
  /\ UNCHANGED <<op, own, at, awaits, pending, issued, keyOf, queue, timerSet, counting, fired,
                 cached>>

-----------------------------------------------------------------------------
(* SmartRpcClient.flush after the batch, and the caller's future.get().    *)

\* The list all threads share is walked by index, over the futures that are done...
Collect(t) ==
  /\ pc[t] = "collect"
  /\ IF at[t] > Len(pending)
       THEN Goto(t, "clear") /\ UNCHANGED <<at, awaits>>
       ELSE /\ at' = [at EXCEPT ![t] = @ + 1]
            /\ IF pending[at[t]] \in resolved
                 THEN UNCHANGED <<pc, awaits>>
                 ELSE Goto(t, "wait") /\ awaits' = [awaits EXCEPT ![t] = pending[at[t]]]
  /\ UNCHANGED <<op, own, pending, issued, keyOf, resolved, queue, timerSet, counting, fired,
                 holder, batch, cached>>

\* ...and up to one that is not: get() waits for it without a timeout, whoever clears the
\* list meanwhile.
Await(t) ==
  /\ pc[t] = "wait"
  /\ awaits[t] \in resolved
  /\ awaits' = [awaits EXCEPT ![t] = NoRequest]
  /\ Goto(t, "collect")
  /\ UNCHANGED <<op, own, at, pending, issued, keyOf, resolved, queue, timerSet, counting, fired,
                 holder, batch, cached>>

ClearPending(t) ==
  /\ pc[t] = "clear"
  /\ pending' = <<>>
  /\ at' = [at EXCEPT ![t] = 1]
  /\ IF op[t] = "single" THEN Goto(t, "get") /\ UNCHANGED op ELSE Return(t)
  /\ UNCHANGED <<own, awaits, issued, keyOf, resolved, queue, timerSet, counting, fired,
                 holder, batch, cached>>

Get(t) ==
  /\ pc[t] = "get"
  /\ own[t] # NoRequest => own[t] \in resolved
  /\ own' = [own EXCEPT ![t] = NoRequest]
  /\ Return(t)
  /\ UNCHANGED <<at, awaits, pending, issued, keyOf, resolved, queue, timerSet, counting,
                 fired, holder, batch, cached>>

-----------------------------------------------------------------------------
(* The cache.                                                              *)

\* Entries expire one by one, and clear_cache removes them all.
Forget(gone) ==
  /\ gone # {}
  /\ cached' = cached \ gone
  /\ UNCHANGED <<clientVars, resolved, queue, timerSet, counting, fired, holder, batch>>

Step(t) == \/ StartFlush(t) \/ Enqueue(t) \/ AppendFuture(t) \/ Flush(t)
           \/ Collect(t) \/ Await(t) \/ ClearPending(t) \/ Get(t)

Http == BatchAnswered \/ RateLimited \/ NextEndpoint \/ BatchFails

Next == \/ \E t \in Threads :
             \/ \E o \in Ops, k \in Keys : RequestHit(t, o, k) \/ RequestMiss(t, o, k)
             \/ Step(t)
        \/ TimerFires \/ TimerRuns
        \/ Http
        \/ \E k \in cached : Forget({k})
        \/ Forget(cached)

Spec == Init /\ [][Next]_vars

(***************************************************************************)
(* Threads and timers run, an HTTP call returns or raises, and a lock that *)
(* is free is given to a thread that waits for it.                         *)
(***************************************************************************)
FairSpec == /\ Spec
            /\ \A t \in Threads : WF_vars(Step(t))
            /\ WF_vars(TimerFires) /\ WF_vars(TimerRuns)
            /\ WF_vars(Http)

-----------------------------------------------------------------------------
(* Properties.                                                             *)

TypeOK ==
  /\ pc \in [Threads -> Places]
  /\ op \in [Threads -> Ops]
  /\ own \in [Threads -> Requests \cup {NoRequest}]
  /\ at \in [Threads -> Nat \ {0}]
  /\ awaits \in [Threads -> Requests \cup {NoRequest}]
  /\ pending \in Seq(Requests)
  /\ issued \in 0..MaxRequests
  /\ keyOf \in [Requests -> Keys]
  /\ resolved \subseteq Requests
  /\ queue \subseteq Requests
  /\ timerSet \in BOOLEAN /\ counting \in BOOLEAN /\ fired \in Nat
  /\ holder \in Threads \cup {Timer, Free}
  /\ batch \in [items : SUBSET Requests, endpoint : 1..Endpoints, attempt : 0..MaxRetries]
  /\ cached \subseteq Keys

\* "Timer-based flushing (batch_delay_ms) for smaller batches" (batcher.py:46): a
\* queued request always has a timer that will send it, whatever flushes, cancels
\* that come too late and timers already waiting for the lock do.
NothingStranded == queue # {} => counting \/ fired > 0

\* A request that was made and has no result is about to be queued by its thread,
\* in the queue, or in the batch under way, and in one of these only.
Waiting(n) == \E t \in Threads : own[t] = n /\ pc[t] = "queue" /\ holder # t

InOnePlace ==
  /\ queue \cap batch.items = {}
  /\ \A n \in Requests :
       (n <= issued /\ n \notin resolved) <=> (Waiting(n) \/ n \in queue \cup batch.items)
  /\ \A n \in Requests : Waiting(n) => n \notin queue \cup batch.items

\* "Batching of requests (max 100 per batch, per Solana JSON RPC spec)"
\* (client.py:22): no batch is larger, however many threads queue at once.
BatchBounded == Cardinality(batch.items) <= MaxBatch

\* Every request gets an answer or an error, also one nobody flushes.
RequestsAnswered == []<>(\A n \in 1..issued : n \in resolved)

\* No caller is kept for ever: not by the lock held during a batch, and not by
\* flush waiting for futures that other threads have put in the shared list.
CallersReturn == \A t \in Threads : []<>(pc[t] = "idle")
=============================================================================

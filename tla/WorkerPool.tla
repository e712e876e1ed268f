----------------------------- MODULE WorkerPool -----------------------------
(***************************************************************************)
(* The worker pool that keeps evaluation off the request thread            *)
(* (packages/coretex/src/workers/pool.ts): a stack of idle workers, a      *)
(* bounded queue of calls and the entry each worker has pending.  A worker *)
(* that errors is replaced; the replacement takes the identity of the one  *)
(* it replaces, since no message of a dead worker reaches the pool.        *)
(***************************************************************************)
EXTENDS Integers, Sequences, FiniteSets

CONSTANTS Calls,        \* calls of eval
          Workers,      \* the fixed pool
          MaxQueueSize, \* options.maxQueueSize
          MaxErrors,    \* bound: worker errors
          NoEntry       \* no pending entry

ASSUME PoolAssumption == /\ MaxQueueSize \in Nat
                         /\ MaxErrors \in Nat
                         /\ NoEntry \notin Calls
                         /\ IsFiniteSet(Workers)

VARIABLES idle,      \* stack of idle workers, top last
          poolQueue, \* calls waiting for a worker
          pending,   \* the call each worker runs
          promise,   \* the promise of each call
          closed,    \* the pool is closed
          alive,     \* the workers whose thread runs
          stopping,  \* the workers close is terminating
          errors     \* worker errors so far

poolVars == <<idle, poolQueue, pending, promise, closed, alive, stopping, errors>>

\* Type invariant, with the limit on queued calls.
PoolTypeOK ==
    /\ idle \in Seq(Workers)
    /\ poolQueue \in Seq(Calls) /\ Len(poolQueue) <= MaxQueueSize
    /\ pending \in [Workers -> Calls \cup {NoEntry}]
    /\ promise \in [Calls -> {"none", "pending", "resolved", "rejected"}]
    /\ closed \in BOOLEAN
    /\ alive \subseteq Workers
    /\ stopping \subseteq Workers
    /\ errors \in 0..MaxErrors

\* The constructor spawns the workers one after the other.
PoolInit ==
    /\ idle \in {s \in [1..Cardinality(Workers) -> Workers] : {s[i] : i \in DOMAIN s} = Workers}
    /\ poolQueue = <<>>
    /\ pending = [w \in Workers |-> NoEntry]
    /\ promise = [c \in Calls |-> "none"]
    /\ closed = FALSE
    /\ alive = Workers
    /\ stopping = {}
    /\ errors = 0

Top == idle[Len(idle)]

Pop == SubSeq(idle, 1, Len(idle) - 1)

\* _dispatch: the call becomes the worker's pending entry.
Dispatch(w, c) == pending' = [pending EXCEPT ![w] = c]

\* eval on a closed pool.
EvalClosed(c) ==
    /\ promise[c] = "none"
    /\ closed
    /\ promise' = [promise EXCEPT ![c] = "rejected"]
    /\ UNCHANGED <<idle, poolQueue, pending, closed, alive, stopping, errors>>

\* eval with an idle worker: the top of the stack takes the call.
EvalIdle(c) ==
    /\ promise[c] = "none"
    /\ ~closed
    /\ idle # <<>>
    /\ idle' = Pop
    /\ Dispatch(Top, c)
    /\ promise' = [promise EXCEPT ![c] = "pending"]
    /\ UNCHANGED <<poolQueue, closed, alive, stopping, errors>>

\* eval with no idle worker and a full queue.
EvalSaturated(c) ==
    /\ promise[c] = "none"
    /\ ~closed
    /\ idle = <<>>
    /\ Len(poolQueue) >= MaxQueueSize
    /\ promise' = [promise EXCEPT ![c] = "rejected"]
    /\ UNCHANGED <<idle, poolQueue, pending, closed, alive, stopping, errors>>

\* eval with no idle worker: the call queues up.
EvalQueued(c) ==
    /\ promise[c] = "none"
    /\ ~closed
    /\ idle = <<>>
    /\ Len(poolQueue) < MaxQueueSize
    /\ poolQueue' = Append(poolQueue, c)
    /\ promise' = [promise EXCEPT ![c] = "pending"]
    /\ UNCHANGED <<idle, pending, closed, alive, stopping, errors>>

\* Mutant: the worker goes back to the stack although it takes the next call.
OnMessageTwice(w, how) ==
    /\ w \in alive
    /\ pending[w] # NoEntry
    /\ promise' = [promise EXCEPT ![pending[w]] = how]
    /\ idle' = Append(idle, w)
    /\ \/ poolQueue # <<>> /\ Dispatch(w, Head(poolQueue)) /\ poolQueue' = Tail(poolQueue)
       \/ poolQueue = <<>> /\ Dispatch(w, NoEntry) /\ UNCHANGED poolQueue
    /\ UNCHANGED <<closed, alive, stopping, errors>>

\* _onMessage: the entry settles, then the worker drains the queue or idles.
OnMessage(w, how) ==
    /\ w \in alive
    /\ pending[w] # NoEntry
    /\ promise' = [promise EXCEPT ![pending[w]] = how]
    /\ \/ /\ poolQueue # <<>>
          /\ Dispatch(w, Head(poolQueue))
          /\ poolQueue' = Tail(poolQueue)
          /\ UNCHANGED idle
       \/ /\ poolQueue = <<>>
          /\ Dispatch(w, NoEntry)
          /\ idle' = Append(idle, w)
          /\ UNCHANGED poolQueue
    /\ UNCHANGED <<closed, alive, stopping, errors>>

\* idle.indexOf and splice: the stack without the first occurrence of w.
Spliced(s, w) ==
    IF \E i \in 1..Len(s) : s[i] = w
    THEN LET k == CHOOSE k \in 1..Len(s) : s[k] = w /\ \A i \in 1..(k - 1) : s[i] # w
         IN  [i \in 1..(Len(s) - 1) |-> s[IF i < k THEN i ELSE i + 1]]
    ELSE s

\* _onWorkerError: the entry is rejected and a new worker is pushed to the
\* stack, also when the pool is closing; the queue is not drained.
OnWorkerError(w) ==
    /\ w \in alive
    /\ errors < MaxErrors
    /\ errors' = errors + 1
    /\ promise' = [c \in Calls |-> IF c = pending[w] THEN "rejected" ELSE promise[c]]
    /\ pending' = [pending EXCEPT ![w] = NoEntry]
    /\ idle' = Append(Spliced(idle, w), w)
    /\ stopping' = stopping \ {w}
    /\ UNCHANGED <<poolQueue, closed, alive>>

\* close asks every worker there is to terminate ...
Close ==
    /\ ~closed
    /\ closed' = TRUE
    /\ stopping' = alive
    /\ UNCHANGED <<idle, poolQueue, pending, promise, alive, errors>>

\* ... and each thread ends some time later, with what it had pending.
Terminated(w) ==
    /\ w \in stopping
    /\ alive' = alive \ {w}
    /\ stopping' = stopping \ {w}
    /\ UNCHANGED <<idle, poolQueue, pending, promise, closed, errors>>

PoolNext == \/ \E c \in Calls : EvalClosed(c) \/ EvalIdle(c) \/ EvalSaturated(c) \/ EvalQueued(c)
            \/ \E w \in Workers : \/ \E how \in {"resolved", "rejected"} : OnMessage(w, how)
                                  \/ OnWorkerError(w) \/ Terminated(w)
            \/ Close

PoolSpec == PoolInit /\ [][PoolNext]_poolVars

----------------------------------------------------------------------------
(* Properties *)

\* A worker is on the idle stack, once, exactly when it runs nothing, so no
\* worker is given two calls at a time, and a promise is pending exactly while
\* its call is queued or run: the error path neither leaks a worker nor forgets
\* the caller (_dispatch, _onMessage, _onWorkerError).
EntriesMatchWorkers ==
    /\ \A i, k \in 1..Len(idle) : idle[i] = idle[k] => i = k
    /\ \A w \in Workers : pending[w] = NoEntry <=> \E i \in 1..Len(idle) : idle[i] = w
    /\ \A c \in Calls : promise[c] = "pending" <=> \/ \E i \in 1..Len(poolQueue) : poolQueue[i] = c
                                                   \/ \E w \in Workers : pending[w] = c

\* The pool keeps the promise of RequestService, errors and close included.
PoolService == INSTANCE RequestService
    WITH Requests <- Calls, Servers <- Cardinality(Workers), Room <- MaxQueueSize,
         waiting <- poolQueue,
         running <- {c \in Calls : \E w \in Workers : pending[w] = c},
         settled <- {c \in Calls : promise[c] \in {"resolved", "rejected"}}

\* The refinement: a call is answered at most once, calls wait in order and
\* within the bounds (eval, _onMessage and _onWorkerError).
PoolIsService == PoolService!ServiceSpec
=============================================================================

------------------------------ MODULE ThreadPool ------------------------------
(***************************************************************************)
(* The fork-join pool of srcs/runtime/thread_pool.c: one caller thread,    *)
(* and per worker a mutex, two condition variables and one work slot.      *)
(*                                                                         *)
(* Every field of a worker is read and written under that worker's mutex,  *)
(* so one action is one critical section: from taking the mutex to         *)
(* releasing it in pthread_mutex_unlock or in pthread_cond_wait.  A signal *)
(* wakes a thread only if it is already waiting, and a waiting thread may  *)
(* wake up without a signal (the Spurious actions).                        *)
(***************************************************************************)
EXTENDS Naturals

CONSTANTS MaxThreads,     \* bound on thread_count
          MaxTotal,       \* bound on the total of a dispatch
          MaxDispatches,  \* bound on the number of dispatches in a behaviour
          CreateMayFail   \* whether pthread_create may fail

ASSUME ThreadPoolAssumption ==
    /\ MaxThreads \in Nat \ {0}
    /\ MaxTotal \in Nat
    /\ MaxDispatches \in Nat
    /\ CreateMayFail \in BOOLEAN

Workers == 0 .. (MaxThreads - 1)

VARIABLES
    thread_count,   \* pool->thread_count
    cpc,            \* where the caller thread is
    idx,            \* its loop index over the workers
    total, offset,  \* the dispatch in progress and the first index not submitted
    dispatches,     \* how many dispatches were made
    wpc,            \* where each worker thread is
    item,           \* worker->item
    local,          \* the copy of item the worker runs from
    has_work, shutdown,
    todo            \* auxiliary: indices of this dispatch no work_fn call covered

slots == <<item, has_work, shutdown>>
vars  == <<thread_count, cpc, idx, total, offset, dispatches, wpc, item, local,
           has_work, shutdown, todo>>

CallerPCs == {"none", "spawn", "idle", "inline", "submit", "wait", "asleep",
              "shutdown", "join", "freed"}
WorkerPCs == {"none", "ready", "parked", "running", "finished", "exited"}

Items == [start : 0 .. MaxTotal, count : 0 .. MaxTotal]
Indices(it) == it.start .. (it.start + it.count - 1)

TypeOK ==
    /\ thread_count \in 0 .. MaxThreads
    /\ cpc \in CallerPCs
    /\ idx \in 0 .. MaxThreads
    /\ total \in 0 .. MaxTotal
    /\ offset \in 0 .. MaxTotal
    /\ dispatches \in 0 .. MaxDispatches
    /\ wpc \in [Workers -> WorkerPCs]
    /\ item \in [Workers -> Items]
    /\ local \in [Workers -> Items]
    /\ has_work \in [Workers -> BOOLEAN]
    /\ shutdown \in [Workers -> BOOLEAN]
    /\ todo \subseteq 0 .. (MaxTotal - 1)

NoItem == [start |-> 0, count |-> 0]

Init ==
    /\ thread_count = 0
    /\ cpc = "none"
    /\ idx = 0
    /\ total = 0
    /\ offset = 0
    /\ dispatches = 0
    /\ wpc = [w \in Workers |-> "none"]
    /\ item = [w \in Workers |-> NoItem]
    /\ local = [w \in Workers |-> NoItem]
    /\ has_work = [w \in Workers |-> FALSE]
    /\ shutdown = [w \in Workers |-> FALSE]
    /\ todo = {}

-------------------------------------------------------------------------------
(* pthread_cond_signal(&worker->cond_work) *)
SignalWorker(w) ==
    wpc' = IF wpc[w] = "parked" THEN [wpc EXCEPT ![w] = "ready"] ELSE wpc

(* pthread_cond_signal(&worker->cond_done) *)
SignalCaller(w) ==
    cpc' = IF cpc = "asleep" /\ idx = w THEN "wait" ELSE cpc

-------------------------------------------------------------------------------
(* lis_thread_pool_init.  One thread needs no worker; otherwise the workers *)
(* are initialised and then started one after the other.                    *)
InitPool(n) ==
    /\ cpc = "none"
    /\ thread_count' = n
    /\ cpc' = IF n = 1 THEN "idle" ELSE "spawn"
    /\ idx' = 0
    /\ UNCHANGED <<total, offset, dispatches, wpc, local, slots, todo>>

(* lis_worker_start: the result of pthread_create is not looked at. *)
SpawnWorker ==
    /\ cpc = "spawn"
    /\ \/ wpc' = [wpc EXCEPT ![idx] = "ready"]
       \/ CreateMayFail /\ UNCHANGED wpc
    /\ cpc' = IF idx + 1 = thread_count THEN "idle" ELSE "spawn"
    /\ idx' = idx + 1
    /\ UNCHANGED <<thread_count, total, offset, dispatches, local, slots, todo>>

(* lis_thread_pool_dispatch, its entry.  The calls it rejects and those with *)
(* total = 0 return at once and change nothing.                              *)
Dispatch(n) ==
    /\ cpc = "idle"
    /\ dispatches < MaxDispatches
    /\ dispatches' = dispatches + 1
    /\ total' = n
    /\ todo' = 0 .. (n - 1)
    /\ offset' = 0
    /\ idx' = 0
    /\ cpc' = IF thread_count = 1 THEN "inline" ELSE "submit"
    /\ UNCHANGED <<thread_count, wpc, local, slots>>

(* The single-thread fast path calls work_fn in the calling thread. *)
RunInline ==
    /\ cpc = "inline"
    /\ todo # {}
    /\ todo' = todo \ Indices([start |-> 0, count |-> total])
    /\ UNCHANGED <<thread_count, cpc, idx, total, offset, dispatches, wpc,
                   local, slots>>

ReturnInline ==
    /\ cpc = "inline"
    /\ todo = {}
    /\ cpc' = "idle"
    /\ UNCHANGED <<thread_count, idx, total, offset, dispatches, wpc, local,
                   slots, todo>>

ChunkCount   == IF total < thread_count THEN total ELSE thread_count
BaseChunk    == total \div ChunkCount
Remainder    == total % ChunkCount
(* Mutants of ChunkSize: every chunk rounded up; the remainder dropped. *)
ChunkSizeRoundedUp(i)   == BaseChunk + 1
ChunkSizeNoRemainder(i) == BaseChunk

ChunkSize(i) == BaseChunk + (IF i < Remainder THEN 1 ELSE 0)

(* Mutant: the next offset ignores the extra element of a larger chunk. *)
SubmitChunkShortOffset ==
    /\ cpc = "submit"
    /\ item' = [item EXCEPT ![idx] =
                   [start |-> offset, count |-> ChunkSize(idx)]]
    /\ has_work' = [has_work EXCEPT ![idx] = TRUE]
    /\ SignalWorker(idx)
    /\ offset' = offset + BaseChunk
    /\ IF idx + 1 = ChunkCount
         THEN cpc' = "wait" /\ idx' = 0
         ELSE cpc' = "submit" /\ idx' = idx + 1
    /\ UNCHANGED <<thread_count, total, dispatches, local, shutdown, todo>>

(* lis_worker_submit of the chunk idx. *)
SubmitChunk ==
    /\ cpc = "submit"
    /\ item' = [item EXCEPT ![idx] =
                   [start |-> offset, count |-> ChunkSize(idx)]]
    /\ has_work' = [has_work EXCEPT ![idx] = TRUE]
    /\ SignalWorker(idx)
    /\ offset' = offset + ChunkSize(idx)
    /\ IF idx + 1 = ChunkCount
         THEN cpc' = "wait" /\ idx' = 0
         ELSE cpc' = "submit" /\ idx' = idx + 1
    /\ UNCHANGED <<thread_count, total, dispatches, local, shutdown, todo>>

(* lis_worker_wait of the worker idx: sleep while it has work. *)
SleepOnDone ==
    /\ cpc = "wait"
    /\ has_work[idx]
    /\ cpc' = "asleep"
    /\ UNCHANGED <<thread_count, idx, total, offset, dispatches, wpc, local,
                   slots, todo>>

(* Mutant: go to the next worker without looking at has_work. *)
PassChunkUnfinished ==
    /\ cpc = "wait"
    /\ cpc' = IF idx + 1 = ChunkCount THEN "idle" ELSE "wait"
    /\ idx' = idx + 1
    /\ UNCHANGED <<thread_count, total, offset, dispatches, wpc, local, slots,
                   todo>>

(* It has none: go to the next worker, or return after the last one. *)
PassChunk ==
    /\ cpc = "wait"
    /\ ~has_work[idx]
    /\ cpc' = IF idx + 1 = ChunkCount THEN "idle" ELSE "wait"
    /\ idx' = idx + 1
    /\ UNCHANGED <<thread_count, total, offset, dispatches, wpc, local, slots,
                   todo>>

(* lis_thread_pool_destroy *)
BeginDestroy ==
    /\ cpc = "idle"
    /\ cpc' = IF thread_count = 1 THEN "freed" ELSE "shutdown"
    /\ idx' = 0
    /\ UNCHANGED <<thread_count, total, offset, dispatches, wpc, local, slots,
                   todo>>

(* Mutant: the shutdown flag is set without signalling cond_work. *)
ShutdownWorkerNoSignal ==
    /\ cpc = "shutdown"
    /\ shutdown' = [shutdown EXCEPT ![idx] = TRUE]
    /\ cpc' = "join"
    /\ UNCHANGED <<thread_count, idx, total, offset, dispatches, wpc, item,
                   local, has_work, todo>>

(* lis_worker_shutdown up to pthread_join *)
ShutdownWorker ==
    /\ cpc = "shutdown"
    /\ shutdown' = [shutdown EXCEPT ![idx] = TRUE]
    /\ SignalWorker(idx)
    /\ cpc' = "join"
    /\ UNCHANGED <<thread_count, idx, total, offset, dispatches, item, local,
                   has_work, todo>>

JoinWorker ==
    /\ cpc = "join"
    /\ wpc[idx] = "exited"
    /\ cpc' = IF idx + 1 = thread_count THEN "freed" ELSE "shutdown"
    /\ idx' = idx + 1
    /\ UNCHANGED <<thread_count, total, offset, dispatches, wpc, local, slots,
                   todo>>

SpuriousCaller ==
    /\ cpc = "asleep"
    /\ cpc' = "wait"
    /\ UNCHANGED <<thread_count, idx, total, offset, dispatches, wpc, local,
                   slots, todo>>

-------------------------------------------------------------------------------
(* Mutant: the wait loop of the worker only looks at has_work. *)
ParkWorkerIgnoringShutdown(w) ==
    /\ wpc[w] = "ready"
    /\ ~has_work[w]
    /\ wpc' = [wpc EXCEPT ![w] = "parked"]
    /\ UNCHANGED <<thread_count, cpc, idx, total, offset, dispatches, local,
                   slots, todo>>

(* lis_worker_loop, holding the mutex in "ready". *)
ParkWorker(w) ==
    /\ wpc[w] = "ready"
    /\ ~has_work[w] /\ ~shutdown[w]
    /\ wpc' = [wpc EXCEPT ![w] = "parked"]
    /\ UNCHANGED <<thread_count, cpc, idx, total, offset, dispatches, local,
                   slots, todo>>

TakeItem(w) ==
    /\ wpc[w] = "ready"
    /\ has_work[w]
    /\ local' = [local EXCEPT ![w] = item[w]]
    /\ wpc' = [wpc EXCEPT ![w] = "running"]
    /\ UNCHANGED <<thread_count, cpc, idx, total, offset, dispatches, slots,
                   todo>>

(* item.work_fn(item.start, item.count, item.context), without the mutex *)
RunItem(w) ==
    /\ wpc[w] = "running"
    /\ todo' = todo \ Indices(local[w])
    /\ wpc' = [wpc EXCEPT ![w] = "finished"]
    /\ UNCHANGED <<thread_count, cpc, idx, total, offset, dispatches, local,
                   slots>>

(* Mutant: has_work stays set. *)
ClearItemKeepsWork(w) ==
    /\ wpc[w] = "finished"
    /\ SignalCaller(w)
    /\ wpc' = [wpc EXCEPT ![w] = "ready"]
    /\ UNCHANGED <<thread_count, idx, total, offset, dispatches, local, slots,
                   todo>>

(* The mutex is kept from here through the next test of the wait loop. *)
ClearItem(w) ==
    /\ wpc[w] = "finished"
    /\ has_work' = [has_work EXCEPT ![w] = FALSE]
    /\ SignalCaller(w)
    /\ wpc' = [wpc EXCEPT ![w] = IF shutdown[w] THEN "exited" ELSE "parked"]
    /\ UNCHANGED <<thread_count, idx, total, offset, dispatches, item, local,
                   shutdown, todo>>

ExitWorker(w) ==
    /\ wpc[w] = "ready"
    /\ shutdown[w] /\ ~has_work[w]
    /\ wpc' = [wpc EXCEPT ![w] = "exited"]
    /\ UNCHANGED <<thread_count, cpc, idx, total, offset, dispatches, local,
                   slots, todo>>

SpuriousWorker(w) ==
    /\ wpc[w] = "parked"
    /\ wpc' = [wpc EXCEPT ![w] = "ready"]
    /\ UNCHANGED <<thread_count, cpc, idx, total, offset, dispatches, local,
                   slots, todo>>

-------------------------------------------------------------------------------
(* The pool is gone: nothing is left to do. *)
Freed == cpc = "freed" /\ UNCHANGED vars

CallerStep ==
    \/ SpawnWorker \/ RunInline \/ ReturnInline
    \/ SubmitChunk \/ SleepOnDone \/ PassChunk
    \/ ShutdownWorker \/ JoinWorker

WorkerStep(w) ==
    ParkWorker(w) \/ TakeItem(w) \/ RunItem(w) \/ ClearItem(w) \/ ExitWorker(w)

(* The calls the owner of the pool chooses to make. *)
Request ==
    \/ \E n \in 1 .. MaxThreads : InitPool(n)
    \/ \E n \in 1 .. MaxTotal : Dispatch(n)
    \/ BeginDestroy

Next ==
    \/ Request
    \/ CallerStep
    \/ SpuriousCaller
    \/ \E w \in Workers : WorkerStep(w) \/ SpuriousWorker(w)
    \/ Freed

Safety == Init /\ [][Next]_vars

(* A thread that is not blocked is eventually scheduled; nobody is obliged to *)
(* make a request, and no wakeup is spurious by obligation.                   *)
Spec ==
    /\ Safety
    /\ WF_vars(CallerStep)
    /\ \A w \in Workers : WF_vars(WorkerStep(w))

-------------------------------------------------------------------------------
InDispatch == cpc \in {"inline", "submit", "wait", "asleep"}

(* The context passed to dispatch lives on the caller's stack (lis_attention, *)
(* lis_matvec): no work function may still be running, nor any index be       *)
(* unprocessed, once dispatch has returned.                                   *)
JoinBeforeReturn ==
    ~InDispatch => /\ todo = {}
                   /\ \A w \in Workers : wpc[w] # "running"

(* Two threads inside work_fn at the same time never share an index, so they *)
(* never write the same output element.                                      *)
ConcurrentChunksDisjoint ==
    \A v, w \in Workers :
        v # w /\ wpc[v] = "running" /\ wpc[w] = "running"
            => Indices(local[v]) \cap Indices(local[w]) = {}

(* A thread that sleeps on a condition variable has nothing to do: the signal *)
(* that would wake it has not been sent while it was still on its way to wait *)
NoLostWakeup ==
    /\ \A w \in Workers : wpc[w] = "parked" => ~has_work[w] /\ ~shutdown[w]
    /\ cpc = "asleep" => has_work[idx]

(* The single slot of a worker is never overwritten while the worker still *)
(* owes the work in it, and the worker runs what the slot says.            *)
SlotNotOverwritten ==
    [][\A w \in Workers :
          /\ has_work[w] => item'[w] = item[w]
          /\ wpc'[w] = "running" => local'[w] = item'[w]]_vars

(* work_fn is called once for each index: a call only covers indices that no *)
(* earlier call of the same dispatch covered.                                *)
EachIndexOnce ==
    [][\A w \in Workers : wpc[w] = "running" /\ wpc'[w] = "finished"
          => Indices(local[w]) \subseteq todo]_vars

(* work_fn is called for every chunk handed out. *)
EveryIndexRuns ==
    \A i \in 0 .. (MaxTotal - 1) : (i \in todo) ~> (i \notin todo)

(* A dispatch returns, and lis_thread_pool_destroy joins every worker and *)
(* returns: no caller waits for a signal that does not come.              *)
CallsReturn ==
    /\ InDispatch ~> ~InDispatch
    /\ (cpc = "shutdown") ~> (cpc = "freed")

-------------------------------------------------------------------------------
(* The pool implements the abstract fork-join. *)
state == IF InDispatch THEN "busy"
         ELSE IF cpc \in {"shutdown", "join", "freed"} THEN "closed" ELSE "idle"

FJ == INSTANCE ForkJoin WITH state <- state, todo <- todo

(* Handing out work, executing it and returning, as thread_pool.h says. *)
ImplementsForkJoin == FJ!Spec
===============================================================================

--------------------------- MODULE ThreadPoolProofs ---------------------------
(***************************************************************************)
(* Proofs about ThreadPool for every number of threads, every range and    *)
(* any number of dispatches: the invariants, the two action properties and *)
(* the refinement of ForkJoin's safety.  They also hold when               *)
(* pthread_create fails: what is lost then is only progress.               *)
(***************************************************************************)
EXTENDS ThreadPool, TLAPS

(* The first index of chunk i: the first Remainder chunks have one more. *)
ChunkStart(i) == (i * BaseChunk) + (IF i < Remainder THEN i ELSE Remainder)

Threaded == {"submit", "wait", "asleep"}   \* inside a dispatch to the workers

(* Worker w still owes the work in its slot. *)
Pending(w) == has_work[w] /\ wpc[w] # "finished"

(* The loop indices of the caller and the offset stay in their ranges. *)
CallerInv ==
    /\ cpc # "none" => thread_count >= 1
    /\ cpc \in Threaded \cup {"spawn", "shutdown", "join"} => thread_count >= 2
    /\ cpc \in {"spawn", "shutdown", "join"} => idx < thread_count
    /\ cpc \in Threaded => total >= 1 /\ idx < ChunkCount /\ offset <= total
    /\ cpc = "submit" => offset = ChunkStart(idx)
    /\ cpc \in {"wait", "asleep"} => offset = total

(* Only the slots the caller has filled and not yet waited for are in use, *)
(* and a worker that runs does so on what its slot says.                   *)
SlotInv ==
    \A w \in Workers :
        /\ has_work[w] => /\ cpc \in Threaded
                          /\ item[w].start + item[w].count <= offset
                          /\ cpc = "submit" => w < idx
                          /\ cpc # "submit" => idx <= w /\ w < ChunkCount
        /\ wpc[w] \in {"running", "finished"}
               => has_work[w] /\ local[w] = item[w]

(* No two pending slots share an index. *)
DisjointInv ==
    \A v, w \in Workers :
        v # w /\ Pending(v) /\ Pending(w)
            => Indices(item[v]) \cap Indices(item[w]) = {}

(* What is left to do is what has not been submitted and what is pending. *)
TodoInv ==
    /\ ~InDispatch => todo = {}
    /\ cpc = "inline" => todo \subseteq 0 .. (total - 1)
    /\ cpc \in Threaded =>
           todo = {e \in 0 .. (total - 1) :
                      \/ offset <= e
                      \/ \E w \in Workers : Pending(w) /\ e \in Indices(item[w])}

IInv == TypeOK /\ CallerInv /\ SlotInv /\ DisjointInv /\ TodoInv /\ NoLostWakeup

-------------------------------------------------------------------------------
(* Division with remainder and multiplication, as the chunk sizes need them. *)
LEMMA DivMod ==
    ASSUME NEW n \in Nat, NEW c \in Nat \ {0}
    PROVE  /\ n \div c \in Nat
           /\ n % c \in 0 .. (c - 1)
           /\ n = (c * (n \div c)) + (n % c)
  BY SMT

LEMMA MulMonotone ==
    ASSUME NEW a \in Nat, NEW b \in Nat, NEW c \in Nat, a <= b
    PROVE  a * c \in Nat /\ b * c \in Nat /\ a * c <= b * c
  BY SMT

LEMMA MulSuccessor ==
    ASSUME NEW a \in Nat, NEW c \in Nat
    PROVE  (a + 1) * c = (a * c) + c
  BY SMT

(* The chunks of a dispatch partition its range: chunk i + 1 starts where *)
(* chunk i ends, the first starts at 0 and the last ends at total.        *)
LEMMA ChunksPartition ==
    ASSUME total \in Nat \ {0}, thread_count \in Nat \ {0}
    PROVE  /\ ChunkCount \in 1 .. total /\ ChunkCount <= thread_count
           /\ BaseChunk \in Nat /\ Remainder \in Nat
           /\ ChunkStart(0) = 0
           /\ ChunkStart(ChunkCount) = total
           /\ \A i \in 0 .. (ChunkCount - 1) :
                 /\ ChunkStart(i) \in Nat /\ ChunkSize(i) \in Nat
                 /\ ChunkStart(i + 1) = ChunkStart(i) + ChunkSize(i)
                 /\ ChunkStart(i + 1) <= total
<1>1. ChunkCount \in 1 .. total /\ ChunkCount <= thread_count
  BY DEF ChunkCount
<1> DEFINE c == ChunkCount
           b == BaseChunk
           r == Remainder
<1>2. b \in Nat /\ r \in 0 .. (c - 1) /\ total = (c * b) + r
  <2>1. total \in Nat /\ ChunkCount \in Nat \ {0}
    BY <1>1
  <2>2. /\ total \div ChunkCount \in Nat
        /\ total % ChunkCount \in 0 .. (ChunkCount - 1)
        /\ total = (ChunkCount * (total \div ChunkCount)) + (total % ChunkCount)
    BY <2>1, DivMod
  <2>3. QED
    BY <2>2 DEF BaseChunk, Remainder
<1>3. ChunkStart(0) = 0
  <2>1. 0 * b = 0
    BY <1>2
  <2>2. QED
    BY <1>1, <1>2, <2>1 DEF ChunkStart
<1>4. ChunkStart(c) = total
  <2>1. ~(c < r)
    BY <1>1, <1>2
  <2>2. QED
    BY <2>1, <1>2 DEF ChunkStart
<1>5. ASSUME NEW i \in 0 .. (c - 1)
      PROVE  /\ ChunkStart(i) \in Nat /\ ChunkSize(i) \in Nat
             /\ ChunkStart(i + 1) = ChunkStart(i) + ChunkSize(i)
             /\ ChunkStart(i + 1) <= total
  <2> DEFINE p == i * b
             q == (i + 1) * b
             m == c * b
  <2>1. i \in Nat /\ i + 1 \in Nat /\ i + 1 <= c /\ c \in Nat
    BY <1>1
  <2>2. p \in Nat /\ q \in Nat /\ m \in Nat /\ q <= m
    BY <2>1, <1>2, MulMonotone
  <2>3. q = p + b
    BY <2>1, <1>2, MulSuccessor
  <2>4. /\ ChunkStart(i) = p + (IF i < r THEN i ELSE r)
        /\ ChunkStart(i + 1) = q + (IF i + 1 < r THEN i + 1 ELSE r)
        /\ ChunkSize(i) = b + (IF i < r THEN 1 ELSE 0)
        /\ total = m + r
    BY <1>2 DEF ChunkStart, ChunkSize
  <2> HIDE DEF p, q, m, b, r, c
  <2>5. QED
    BY <1>2, <2>1, <2>2, <2>3, <2>4
<1>6. QED
  BY <1>1, <1>2, <1>3, <1>4, <1>5
-------------------------------------------------------------------------------
LEMMA InitInv == Init => IInv
<1> SUFFICES ASSUME Init PROVE IInv
  OBVIOUS
<1> USE ThreadPoolAssumption DEF Init
<1>1. TypeOK
  BY DEF TypeOK, CallerPCs, WorkerPCs, Items, NoItem
<1>2. CallerInv /\ SlotInv /\ DisjointInv /\ TodoInv /\ NoLostWakeup
  BY DEF CallerInv, Threaded, SlotInv, DisjointInv, Pending, TodoInv,
         InDispatch, NoLostWakeup
<1>3. QED
  BY <1>1, <1>2 DEF IInv

(* The signals only move a thread that waits, and leave the types alone. *)
LEMMA SignalWorkerMoves ==
    ASSUME TypeOK, NEW w \in Workers, SignalWorker(w)
    PROVE  /\ wpc' \in [Workers -> WorkerPCs]
           /\ wpc'[w] # "parked"
           /\ \A v \in Workers : \/ wpc'[v] = wpc[v]
                                 \/ wpc[v] = "parked" /\ wpc'[v] = "ready"
BY DEF TypeOK, SignalWorker, WorkerPCs

(* Steps that change no slot, no dispatch and no auxiliary variable. *)
LEMMA CallerMovesInv ==
    ASSUME IInv, SleepOnDone \/ SpuriousCaller
    PROVE  IInv'
<1> USE DEF IInv, SleepOnDone, SpuriousCaller, slots
<1>1. TypeOK'
  BY DEF TypeOK, CallerPCs
<1>2. ChunkCount' = ChunkCount
  BY DEF ChunkCount
<1>3. CallerInv'
  BY <1>2 DEF CallerInv, Threaded
<1>4. SlotInv'
  BY <1>2 DEF SlotInv, Threaded
<1>5. DisjointInv' /\ TodoInv'
  BY DEF DisjointInv, TodoInv, Pending, Indices, InDispatch, Threaded
<1>6. NoLostWakeup'
  BY DEF NoLostWakeup
<1>7. QED
  BY <1>1, <1>3, <1>4, <1>5, <1>6

LEMMA PoolStepsInv ==
    ASSUME IInv,
           (\E n \in 1 .. MaxThreads : InitPool(n)) \/ SpawnWorker
              \/ BeginDestroy \/ ShutdownWorker \/ JoinWorker
    PROVE  IInv'
<1> USE ThreadPoolAssumption DEF IInv, slots
<1>1. CASE \E n \in 1 .. MaxThreads : InitPool(n)
  <2> PICK n \in 1 .. MaxThreads : InitPool(n)
    BY <1>1
  <2> USE DEF InitPool
  <2>1. TypeOK'
    BY DEF TypeOK, CallerPCs
  <2>2. CallerInv' /\ SlotInv' /\ NoLostWakeup'
    BY DEF CallerInv, SlotInv, Threaded, NoLostWakeup
  <2>3. DisjointInv' /\ TodoInv'
    BY DEF DisjointInv, TodoInv, Pending, Indices, InDispatch, Threaded
  <2>4. QED
    BY <2>1, <2>2, <2>3
<1>2. CASE SpawnWorker
  <2> USE <1>2 DEF SpawnWorker
  <2>0. idx \in Workers /\ idx + 1 \in 0 .. MaxThreads
    BY DEF TypeOK, CallerInv, Workers
  <2>1. TypeOK'
    BY <2>0 DEF TypeOK, CallerPCs, WorkerPCs
  <2>2. CallerInv'
    BY DEF CallerInv, Threaded, TypeOK
  <2>3. \A w \in Workers : ~has_work[w] /\ ~has_work'[w]
    BY DEF SlotInv, Threaded
  <2>4. \A w \in Workers : wpc'[w] = wpc[w] \/ wpc'[w] = "ready"
    BY <2>0 DEF TypeOK
  <2>5. SlotInv' /\ DisjointInv'
    BY <2>3, <2>4 DEF SlotInv, DisjointInv, Pending
  <2>6. TodoInv'
    BY DEF TodoInv, InDispatch, Threaded
  <2>7. NoLostWakeup'
    BY <2>4 DEF NoLostWakeup
  <2>8. QED
    BY <2>1, <2>2, <2>5, <2>6, <2>7
<1>3. CASE BeginDestroy
  <2> USE <1>3 DEF BeginDestroy
  <2>1. TypeOK'
    BY DEF TypeOK, CallerPCs
  <2>2. CallerInv' /\ SlotInv' /\ NoLostWakeup'
    BY DEF CallerInv, SlotInv, Threaded, NoLostWakeup, TypeOK
  <2>3. DisjointInv' /\ TodoInv'
    BY DEF DisjointInv, TodoInv, Pending, Indices, InDispatch, Threaded
  <2>4. QED
    BY <2>1, <2>2, <2>3
<1>4. CASE ShutdownWorker
  <2> USE <1>4 DEF ShutdownWorker
  <2>0. idx \in Workers
    BY DEF TypeOK, CallerInv, Workers
  <2>1. /\ wpc' \in [Workers -> WorkerPCs]
        /\ wpc'[idx] # "parked"
        /\ \A v \in Workers : \/ wpc'[v] = wpc[v]
                              \/ wpc[v] = "parked" /\ wpc'[v] = "ready"
    BY <2>0, SignalWorkerMoves
  <2>2. TypeOK'
    BY <2>1 DEF TypeOK, CallerPCs
  <2>3. CallerInv'
    BY DEF CallerInv, Threaded
  <2>4. \A w \in Workers : ~has_work[w]
    BY DEF SlotInv, Threaded
  <2>5. SlotInv' /\ DisjointInv'
    BY <2>1, <2>4 DEF SlotInv, DisjointInv, Pending
  <2>6. TodoInv'
    BY DEF TodoInv, InDispatch, Threaded
  <2>7. NoLostWakeup'
    BY <2>0, <2>1, <2>4 DEF NoLostWakeup, TypeOK
  <2>8. QED
    BY <2>2, <2>3, <2>5, <2>6, <2>7
<1>5. CASE JoinWorker
  <2> USE <1>5 DEF JoinWorker
  <2>1. TypeOK'
    BY DEF TypeOK, CallerPCs, CallerInv
  <2>2. CallerInv' /\ SlotInv' /\ NoLostWakeup'
    BY DEF CallerInv, SlotInv, Threaded, NoLostWakeup, TypeOK
  <2>3. DisjointInv' /\ TodoInv'
    BY DEF DisjointInv, TodoInv, Pending, Indices, InDispatch, Threaded
  <2>4. QED
    BY <2>1, <2>2, <2>3
<1>6. QED
  BY <1>1, <1>2, <1>3, <1>4, <1>5
-------------------------------------------------------------------------------
LEMMA DispatchInv ==
    ASSUME IInv, NEW n \in 1 .. MaxTotal, Dispatch(n)
    PROVE  IInv'
<1> USE ThreadPoolAssumption DEF IInv, slots, Dispatch
<1>1. TypeOK'
  BY DEF TypeOK, CallerPCs
<1>2. \A w \in Workers : /\ ~has_work[w] /\ ~has_work'[w]
                         /\ wpc[w] \notin {"running", "finished"}
  BY DEF SlotInv, Threaded
<1>3. n \in Nat \ {0} /\ thread_count \in Nat \ {0}
  BY DEF TypeOK, CallerInv
<1>4. CallerInv'
  <2>1. ChunkCount' \in 1 .. n
    BY <1>3 DEF ChunkCount
  <2>2. cpc' = "submit" => ChunkStart(idx)' = 0
    <3>1. PICK c \in Nat \ {0} : c = ChunkCount'
      BY <1>3, <2>1
    <3>2. n \div c \in Nat /\ n % c \in Nat
      <4>1. n \in Nat
        BY <1>3
      <4>2. n \div c \in Nat /\ n % c \in 0 .. (c - 1)
        BY <4>1, DivMod, Zenon
      <4>3. QED
        BY <4>2
    <3>3. PICK b \in Nat, r \in Nat : b = BaseChunk' /\ r = Remainder'
      <4>1. BaseChunk' = n \div c /\ Remainder' = n % c
        BY <3>1, Zenon DEF BaseChunk, Remainder
      <4>2. QED
        BY <3>2, <4>1, Zenon
    <3>4. ChunkStart(0)' = (0 * b) + (IF 0 < r THEN 0 ELSE r)
      BY <3>3, Zenon DEF ChunkStart
    <3>5. QED
      BY <3>4 DEF ChunkStart
  <2>3. QED
    BY <1>3, <2>1, <2>2 DEF CallerInv, Threaded, TypeOK
<1>5. SlotInv' /\ DisjointInv' /\ NoLostWakeup'
  BY <1>2 DEF SlotInv, DisjointInv, Pending, NoLostWakeup
<1>6. TodoInv'
  <2>1. \A w \in Workers : ~Pending(w)'
    BY <1>2 DEF Pending
  <2>2. todo' = 0 .. (total' - 1) /\ offset' = 0
    OBVIOUS
  <2>3. {e \in 0 .. (total' - 1) :
            \/ offset' <= e
            \/ \E w \in Workers : Pending(w)' /\ e \in Indices(item[w])'}
          = 0 .. (total' - 1)
    BY <1>3, <2>2
  <2>4. InDispatch'
    BY DEF InDispatch
  <2>5. QED
    BY <2>2, <2>3, <2>4 DEF TodoInv
<1>7. QED
  BY <1>1, <1>4, <1>5, <1>6

LEMMA InlineInv ==
    ASSUME IInv, RunInline \/ ReturnInline
    PROVE  IInv'
<1> USE DEF IInv, slots, RunInline, ReturnInline
<1>1. TypeOK'
  BY DEF TypeOK, CallerPCs
<1>2. CallerInv' /\ SlotInv' /\ NoLostWakeup'
  BY DEF CallerInv, SlotInv, Threaded, NoLostWakeup
<1>3. DisjointInv'
  BY DEF SlotInv, Threaded, DisjointInv, Pending
<1>4. TodoInv'
  BY DEF TodoInv, InDispatch, Threaded
<1>5. QED
  BY <1>1, <1>2, <1>3, <1>4

(* The chunk submitted next lies between what was submitted before and total. *)
LEMMA NextChunk ==
    ASSUME IInv, cpc = "submit"
    PROVE  /\ idx \in Workers /\ idx + 1 <= ChunkCount /\ ChunkCount <= MaxThreads
           /\ ChunkSize(idx) \in Nat
           /\ offset \in Nat /\ total \in Nat \ {0}
           /\ offset = ChunkStart(idx)
           /\ offset + ChunkSize(idx) = ChunkStart(idx + 1)
           /\ offset + ChunkSize(idx) <= total
           /\ idx + 1 = ChunkCount => offset + ChunkSize(idx) = total
<1> USE ThreadPoolAssumption DEF IInv
<1>1. /\ total \in Nat \ {0} /\ thread_count \in Nat \ {0}
      /\ thread_count <= MaxThreads /\ offset \in Nat /\ idx \in Nat
      /\ idx < ChunkCount /\ offset = ChunkStart(idx)
  BY DEF TypeOK, CallerInv, Threaded
<1>2. idx \in 0 .. (ChunkCount - 1) /\ ChunkCount \in Nat /\ ChunkCount <= MaxThreads
  BY <1>1, ChunksPartition
<1>3. /\ ChunkSize(idx) \in Nat
      /\ ChunkStart(idx + 1) = ChunkStart(idx) + ChunkSize(idx)
      /\ ChunkStart(idx + 1) <= total
      /\ ChunkStart(ChunkCount) = total
  BY <1>1, <1>2, ChunksPartition
<1>4. idx \in Workers
  BY <1>2 DEF Workers
<1>5. QED
  BY <1>1, <1>2, <1>3, <1>4

LEMMA SubmitInv ==
    ASSUME IInv, SubmitChunk
    PROVE  IInv'
<1> USE ThreadPoolAssumption DEF IInv, slots, SubmitChunk
<1>0. PICK i \in Workers : i = idx
  BY NextChunk
<1> DEFINE size == ChunkSize(i)
           chunk == [start |-> offset, count |-> size]
<1>1. /\ i \in Nat /\ i = idx
      /\ i + 1 <= ChunkCount /\ ChunkCount <= MaxThreads /\ ChunkCount \in Nat
      /\ size \in Nat /\ offset \in Nat /\ total \in Nat \ {0}
      /\ offset + size <= total /\ total <= MaxTotal
      /\ offset + size = ChunkStart(i + 1)
      /\ i + 1 = ChunkCount => offset + size = total
  BY <1>0, NextChunk DEF TypeOK, Workers, ChunkCount
<1>2. /\ ChunkCount' = ChunkCount
      /\ \A j : ChunkStart(j)' = ChunkStart(j)
  BY DEF ChunkCount, ChunkStart, BaseChunk, Remainder
<1>3. /\ wpc' \in [Workers -> WorkerPCs]
      /\ wpc'[i] # "parked"
      /\ \A v \in Workers : \/ wpc'[v] = wpc[v]
                            \/ wpc[v] = "parked" /\ wpc'[v] = "ready"
  BY <1>1, SignalWorkerMoves
<1>4. /\ item'[i] = chunk /\ has_work'[i]
      /\ \A v \in Workers \ {i} : item'[v] = item[v] /\ has_work'[v] = has_work[v]
      /\ ~has_work[i]
      /\ wpc[i] \notin {"running", "finished"}
  BY <1>1 DEF TypeOK, SlotInv
<1>5. /\ offset' = offset + size /\ total' = total /\ todo' = todo
      /\ cpc' \in {"submit", "wait"}
      /\ cpc' = "submit" => idx' = i + 1 /\ i + 1 # ChunkCount
      /\ cpc' = "wait" => idx' = 0 /\ i + 1 = ChunkCount
  BY <1>1
<1>6. item' \in [Workers -> Items] /\ has_work' \in [Workers -> BOOLEAN]
  <2>1. chunk \in Items
    BY <1>1 DEF Items
  <2>2. QED
    BY <1>1, <2>1 DEF TypeOK
<1> HIDE DEF size, SubmitChunk, IInv, slots
<1>7. TypeOK'
  BY <1>1, <1>3, <1>5, <1>6 DEF TypeOK, CallerPCs, IInv, SubmitChunk
<1>8. CallerInv'
  BY <1>1, <1>2, <1>5 DEF CallerInv, Threaded, IInv, SubmitChunk
<1>9. Pending(i)' /\ \A v \in Workers \ {i} : Pending(v)' <=> Pending(v)
  BY <1>3, <1>4 DEF Pending
<1>10. Indices(item[i])' = offset .. (offset + size - 1)
  BY <1>4 DEF Indices
<1>11. \A v \in Workers \ {i} : Indices(item[v])' = Indices(item[v])
  BY <1>4 DEF Indices
<1>12. \A v \in Workers : /\ item[v].start \in Nat /\ item[v].count \in Nat
                          /\ has_work[v] => item[v].start + item[v].count <= offset
                                            /\ v < i
  BY <1>1 DEF TypeOK, Items, SlotInv, IInv, SubmitChunk
<1>13. \A v \in Workers : has_work[v] =>
           \A e \in Indices(item[v]) : e \in Nat /\ e < offset
  <2> SUFFICES ASSUME NEW v \in Workers, has_work[v], NEW e \in Indices(item[v])
               PROVE  e \in Nat /\ e < offset
    OBVIOUS
  <2> DEFINE s == item[v].start
             k == item[v].count
  <2>1. s \in Nat /\ k \in Nat /\ s + k <= offset /\ e \in s .. (s + k - 1)
    BY <1>12 DEF Indices
  <2> HIDE DEF s, k
  <2>2. QED
    BY <2>1, <1>1
<1>14. SlotInv'
  <2> SUFFICES ASSUME NEW v \in Workers
               PROVE  /\ has_work'[v] =>
                           /\ cpc' \in Threaded
                           /\ item'[v].start + item'[v].count <= offset'
                           /\ cpc' = "submit" => v < idx'
                           /\ cpc' # "submit" => idx' <= v /\ v < ChunkCount
                      /\ wpc'[v] \in {"running", "finished"}
                           => has_work'[v] /\ local'[v] = item'[v]
    BY <1>2 DEF SlotInv
  <2>1. CASE v = i
    BY <2>1, <1>1, <1>3, <1>4, <1>5 DEF Threaded
  <2>2. CASE v # i
    <3>1. item'[v] = item[v] /\ has_work'[v] = has_work[v]
      BY <2>2, <1>4
    <3>2. wpc'[v] \in {"running", "finished"} => has_work'[v] /\ local'[v] = item'[v]
      BY <3>1, <1>3 DEF SlotInv, IInv, SubmitChunk
    <3>3. v \in Nat
      BY DEF Workers
    <3>4. QED
      <4> DEFINE m == item[v].start + item[v].count
      <4>1. m \in Nat /\ (has_work[v] => m <= offset /\ v < i)
        BY <1>12
      <4>2. item'[v].start + item'[v].count = m
        BY <3>1
      <4> HIDE DEF m
      <4>3. has_work'[v] => m <= offset' /\ v < i
        BY <3>1, <4>1, <1>1, <1>5
      <4>4. has_work'[v] => /\ cpc' = "submit" => v < idx'
                            /\ cpc' # "submit" => idx' <= v /\ v < ChunkCount
        BY <3>3, <4>3, <1>1, <1>5
      <4>5. QED
        BY <3>2, <4>2, <4>3, <4>4, <1>5 DEF Threaded
  <2>3. QED
    BY <2>1, <2>2
<1>15. DisjointInv'
  <2>1. ASSUME NEW v \in Workers \ {i}, Pending(v)'
        PROVE  Indices(item[v])' \cap Indices(item[i])' = {}
    <3>1. Indices(item[v])' = Indices(item[v]) /\ has_work[v]
      BY <2>1, <1>9, <1>11 DEF Pending
    <3>2. \A e \in Indices(item[v]) : e \in Nat /\ e < offset
      BY <3>1, <1>13
    <3>3. \A e \in offset .. (offset + size - 1) : ~(e < offset)
      BY <1>1
    <3>4. QED
      BY <3>1, <3>2, <3>3, <1>10
  <2> SUFFICES ASSUME NEW v \in Workers, NEW w \in Workers, v # w,
                      Pending(v)', Pending(w)'
               PROVE  Indices(item[v])' \cap Indices(item[w])' = {}
    BY DEF DisjointInv
  <2>2. CASE v = i
    BY <2>1, <2>2
  <2>3. CASE w = i
    BY <2>1, <2>3
  <2>4. CASE v # i /\ w # i
    <3>1. Pending(v) /\ Pending(w)
      BY <1>9, <2>4
    <3>2. Indices(item[v])' = Indices(item[v]) /\ Indices(item[w])' = Indices(item[w])
      BY <1>11, <2>4
    <3>3. QED
      BY <3>1, <3>2 DEF IInv, DisjointInv
  <2>5. QED
    BY <2>2, <2>3, <2>4
<1>16. TodoInv'
  <2>1. todo = {e \in 0 .. (total - 1) :
                  \/ offset <= e
                  \/ \E w \in Workers : Pending(w) /\ e \in Indices(item[w])}
    BY DEF TodoInv, Threaded, IInv, SubmitChunk
  <2>2. ASSUME NEW e \in 0 .. (total - 1)
        PROVE  (\/ offset <= e
                \/ \E w \in Workers : Pending(w) /\ e \in Indices(item[w]))
               <=> (\/ offset' <= e
                    \/ \E w \in Workers : Pending(w)' /\ e \in Indices(item[w])')
    <3>1. e \in Nat
      BY <1>1
    <3>2. offset <= e <=> offset' <= e \/ e \in Indices(item[i])'
      BY <3>1, <1>1, <1>5, <1>10
    <3>3. ~Pending(i)
      BY <1>4 DEF Pending
    <3>4. ASSUME NEW w \in Workers \ {i}
          PROVE  Pending(w) /\ e \in Indices(item[w])
                   <=> Pending(w)' /\ e \in Indices(item[w])'
      BY <1>9, <1>11
    <3>5. Pending(i)'
      BY <1>9
    <3>6. QED
      BY <3>2, <3>3, <3>4, <3>5, <1>1 DEF Pending
  <2>3. InDispatch' /\ cpc' # "inline"
    BY <1>5 DEF InDispatch
  <2>4. todo' = {e \in 0 .. (total' - 1) :
                  \/ offset' <= e
                  \/ \E w \in Workers : Pending(w)' /\ e \in Indices(item[w])'}
    BY <1>5, <2>1, <2>2 DEF Pending
  <2>5. QED
    BY <2>3, <2>4 DEF TodoInv
<1>17. NoLostWakeup'
  BY <1>1, <1>3, <1>4, <1>5 DEF NoLostWakeup, IInv, SubmitChunk
<1>18. QED
  BY <1>7, <1>8, <1>14, <1>15, <1>16, <1>17 DEF IInv
LEMMA PassInv ==
    ASSUME IInv, PassChunk
    PROVE  IInv'
<1> USE ThreadPoolAssumption DEF IInv, slots, PassChunk
<1>1. /\ idx \in Nat /\ idx < ChunkCount /\ ChunkCount <= MaxThreads
      /\ ChunkCount \in Nat /\ offset = total /\ ChunkCount' = ChunkCount
  BY DEF TypeOK, CallerInv, Threaded, ChunkCount
<1>2. TypeOK'
  BY <1>1 DEF TypeOK, CallerPCs
<1>3. CallerInv'
  BY <1>1 DEF CallerInv, Threaded
<1>4. \A w \in Workers : has_work[w] => idx + 1 <= w /\ w < ChunkCount
  BY <1>1 DEF SlotInv, Workers
<1>5. cpc' = "idle" => \A w \in Workers : ~has_work[w]
  BY <1>1, <1>4 DEF Workers
<1>6. SlotInv'
  BY <1>1, <1>4, <1>5 DEF SlotInv, Threaded
<1>7. DisjointInv' /\ NoLostWakeup'
  BY DEF DisjointInv, Pending, NoLostWakeup
<1>8. TodoInv'
  <2>1. todo = {e \in 0 .. (total - 1) :
                  \/ offset <= e
                  \/ \E w \in Workers : Pending(w) /\ e \in Indices(item[w])}
    BY DEF TodoInv, Threaded
  <2>2. CASE cpc' = "wait"
    BY <2>1, <2>2 DEF TodoInv, Pending, Indices, InDispatch
  <2>3. CASE cpc' = "idle"
    <3>1. \A w \in Workers : ~Pending(w)
      BY <1>5, <2>3 DEF Pending
    <3>2. total \in Nat /\ \A e \in 0 .. (total - 1) : ~(offset <= e)
      BY <1>1 DEF TypeOK
    <3>3. todo = {}
      BY <2>1, <3>1, <3>2
    <3>4. QED
      BY <2>3, <3>3 DEF TodoInv, InDispatch, Threaded
  <2>4. QED
    BY <2>2, <2>3
<1>9. QED
  BY <1>2, <1>3, <1>6, <1>7, <1>8

-------------------------------------------------------------------------------
(* Steps of a worker that touch neither its slot nor what is pending. *)
LEMMA WorkerMovesInv ==
    ASSUME IInv, NEW w \in Workers,
           ParkWorker(w) \/ TakeItem(w) \/ ExitWorker(w) \/ SpuriousWorker(w)
    PROVE  IInv'
<1> USE DEF IInv, slots, ParkWorker, TakeItem, ExitWorker, SpuriousWorker
<1>1. TypeOK'
  BY DEF TypeOK, WorkerPCs
<1>2. CallerInv'
  BY DEF CallerInv, ChunkCount, ChunkStart, BaseChunk, Remainder
<1>3. \A v \in Workers : /\ v # w => wpc'[v] = wpc[v] /\ local'[v] = local[v]
                         /\ wpc[w] # "finished" /\ wpc'[w] # "finished"
  BY DEF TypeOK
<1>4. SlotInv'
  <2>1. ChunkCount' = ChunkCount
    BY DEF ChunkCount
  <2>2. wpc'[w] = "running" => has_work[w] /\ local'[w] = item[w]
    BY DEF TypeOK
  <2>3. QED
    BY <1>3, <2>1, <2>2 DEF SlotInv
<1>5. \A v \in Workers : Pending(v)' <=> Pending(v)
  BY <1>3 DEF Pending
<1>6. DisjointInv'
  BY <1>5 DEF DisjointInv, Indices, Pending
<1>7. TodoInv'
  BY <1>5 DEF TodoInv, InDispatch, Indices, Pending
<1>8. NoLostWakeup'
  BY <1>3 DEF NoLostWakeup, TypeOK
<1>9. QED
  BY <1>1, <1>2, <1>4, <1>6, <1>7, <1>8

(* What a worker is running is within the range and still to be done. *)
LEMMA RunningIsTodo ==
    ASSUME IInv, NEW w \in Workers, wpc[w] = "running"
    PROVE  /\ cpc \in Threaded
           /\ local[w] = item[w] /\ Pending(w)
           /\ Indices(local[w]) \subseteq todo
<1> USE DEF IInv
<1>1. has_work[w] /\ local[w] = item[w] /\ cpc \in Threaded
  BY DEF SlotInv
<1>2. Pending(w)
  BY <1>1 DEF Pending
<1> DEFINE s == item[w].start
           k == item[w].count
<1>3. /\ s \in Nat /\ k \in Nat /\ s + k <= offset /\ offset <= total
      /\ total \in Nat /\ offset \in Nat
  BY <1>1 DEF TypeOK, Items, SlotInv, CallerInv, Threaded
<1>4. Indices(local[w]) = s .. (s + k - 1)
  BY <1>1 DEF Indices
<1> HIDE DEF s, k
<1>5. Indices(local[w]) \subseteq 0 .. (total - 1)
  BY <1>3, <1>4
<1>6. Indices(local[w]) \subseteq todo
  BY <1>1, <1>2, <1>5 DEF TodoInv
<1>7. QED
  BY <1>1, <1>2, <1>6

LEMMA RunInv ==
    ASSUME IInv, NEW w \in Workers, RunItem(w)
    PROVE  IInv'
<1> USE DEF IInv, slots, RunItem
<1>0. /\ cpc \in Threaded /\ local[w] = item[w] /\ Pending(w)
      /\ Indices(local[w]) \subseteq todo
  BY RunningIsTodo
<1>1. TypeOK'
  BY DEF TypeOK, WorkerPCs
<1>2. CallerInv'
  BY DEF CallerInv, ChunkCount, ChunkStart, BaseChunk, Remainder
<1>3. wpc'[w] = "finished" /\ \A v \in Workers \ {w} : wpc'[v] = wpc[v]
  BY DEF TypeOK
<1>4. SlotInv' /\ NoLostWakeup'
  BY <1>0, <1>3 DEF SlotInv, ChunkCount, NoLostWakeup
<1>5. ~Pending(w)' /\ \A v \in Workers \ {w} : Pending(v)' <=> Pending(v)
  BY <1>3 DEF Pending
<1>6. DisjointInv'
  BY <1>5 DEF DisjointInv, Indices, Pending
<1>7. TodoInv'
  <2>1. todo = {e \in 0 .. (total - 1) :
                  \/ offset <= e
                  \/ \E v \in Workers : Pending(v) /\ e \in Indices(item[v])}
    BY <1>0 DEF TodoInv
  <2>2. \A e \in Indices(item[w]) :
            /\ ~(offset <= e)
            /\ \A v \in Workers \ {w} : ~(Pending(v) /\ e \in Indices(item[v]))
    <3>1. ASSUME NEW e \in Indices(item[w]) PROVE ~(offset <= e)
      <4> DEFINE s == item[w].start
                 k == item[w].count
      <4>1. /\ s \in Nat /\ k \in Nat /\ s + k <= offset /\ offset \in Nat
            /\ e \in s .. (s + k - 1)
        BY <1>0 DEF TypeOK, Items, SlotInv, Pending, Indices
      <4> HIDE DEF s, k
      <4>2. QED
        BY <4>1
    <3>2. QED
      BY <1>0, <3>1 DEF DisjointInv
  <2>3. ASSUME NEW e \in 0 .. (total - 1)
        PROVE  (e \in todo /\ e \notin Indices(item[w]))
               <=> (\/ offset <= e
                    \/ \E v \in Workers : Pending(v)' /\ e \in Indices(item[v]))
    BY <1>5, <2>1, <2>2 DEF Pending
  <2>4. todo' = {e \in 0 .. (total - 1) :
                  \/ offset <= e
                  \/ \E v \in Workers : Pending(v)' /\ e \in Indices(item[v])}
    BY <1>0, <2>1, <2>3
  <2>5. QED
    BY <1>0, <2>4 DEF TodoInv, InDispatch, Threaded
<1>8. QED
  BY <1>1, <1>2, <1>4, <1>6, <1>7

LEMMA ClearInv ==
    ASSUME IInv, NEW w \in Workers, ClearItem(w)
    PROVE  IInv'
<1> USE DEF IInv, slots, ClearItem, SignalCaller
<1>1. TypeOK'
  BY DEF TypeOK, WorkerPCs, CallerPCs
<1>2. cpc \in Threaded /\ cpc' \in Threaded /\ (cpc = "submit" <=> cpc' = "submit")
  BY DEF SlotInv, Threaded
<1>3. ChunkCount' = ChunkCount /\ \A i : ChunkStart(i)' = ChunkStart(i)
  BY DEF ChunkCount, ChunkStart, BaseChunk, Remainder
<1>4. CallerInv'
  BY <1>2, <1>3 DEF CallerInv, Threaded
<1>5. /\ ~has_work'[w] /\ wpc'[w] \notin {"running", "finished"}
      /\ \A v \in Workers \ {w} : /\ has_work'[v] = has_work[v]
                                  /\ wpc'[v] = wpc[v]
  BY DEF TypeOK
<1>6. SlotInv'
  BY <1>2, <1>3, <1>5 DEF SlotInv
<1>7. \A v \in Workers : Pending(v)' <=> Pending(v)
  BY <1>5 DEF Pending
<1>8. DisjointInv'
  BY <1>7 DEF DisjointInv, Indices, Pending
<1>9. TodoInv'
  <2>1. todo' = {e \in 0 .. (total' - 1) :
                  \/ offset' <= e
                  \/ \E v \in Workers : Pending(v)' /\ e \in Indices(item'[v])}
    BY <1>2, <1>7 DEF TodoInv, Pending
  <2>2. QED
    BY <1>2, <2>1 DEF TodoInv, InDispatch, Threaded
<1>10. NoLostWakeup'
  BY <1>5 DEF NoLostWakeup, TypeOK, Workers, CallerInv, Threaded
<1>11. QED
  BY <1>1, <1>4, <1>6, <1>8, <1>9, <1>10
-------------------------------------------------------------------------------
LEMMA NextInv == IInv /\ [Next]_vars => IInv'
<1> SUFFICES ASSUME IInv, [Next]_vars PROVE IInv'
  OBVIOUS
<1>1. CASE Request
  BY <1>1, PoolStepsInv, DispatchInv DEF Request
<1>2. CASE CallerStep
  BY <1>2, PoolStepsInv, InlineInv, SubmitInv, CallerMovesInv, PassInv
     DEF CallerStep
<1>3. CASE SpuriousCaller
  BY <1>3, CallerMovesInv
<1>4. CASE \E w \in Workers : WorkerStep(w) \/ SpuriousWorker(w)
  BY <1>4, WorkerMovesInv, RunInv, ClearInv DEF WorkerStep
<1>5. CASE UNCHANGED vars
  BY <1>5 DEF vars, slots, IInv, TypeOK, CallerInv, ChunkCount, ChunkStart,
     BaseChunk, Remainder, SlotInv, DisjointInv, TodoInv, Pending, Indices,
     InDispatch, NoLostWakeup
<1>6. QED
  BY <1>1, <1>2, <1>3, <1>4, <1>5 DEF Next, Freed

(* The inductive invariant holds in every reachable state. *)
THEOREM Invariance == Safety => []IInv
<1>1. QED
  BY InitInv, NextInv, PTL DEF Safety

(* The variables keep their types, whatever the number of threads. *)
THEOREM TypeCorrect == Safety => []TypeOK
<1>1. IInv => TypeOK
  BY DEF IInv
<1>2. QED
  BY <1>1, Invariance, PTL

(* lis_thread_pool_dispatch returns only when every index of its range has    *)
(* been through work_fn and no worker is inside it, even if some worker       *)
(* thread was never created.                                                  *)
THEOREM JoinCorrect == Safety => []JoinBeforeReturn
<1>1. IInv => JoinBeforeReturn
  BY DEF IInv, JoinBeforeReturn, TodoInv, SlotInv, InDispatch, Threaded
<1>2. QED
  BY <1>1, Invariance, PTL

(* Two workers inside work_fn never share an index. *)
THEOREM DisjointCorrect == Safety => []ConcurrentChunksDisjoint
<1>1. IInv => ConcurrentChunksDisjoint
  BY RunningIsTodo DEF IInv, ConcurrentChunksDisjoint, DisjointInv
<1>2. QED
  BY <1>1, Invariance, PTL

(* No thread sleeps through the signal that should have woken it. *)
THEOREM WakeupCorrect == Safety => []NoLostWakeup
<1>1. IInv => NoLostWakeup
  BY DEF IInv
<1>2. QED
  BY <1>1, Invariance, PTL

(* lis_worker_submit never overwrites an item that is still owed. *)
THEOREM SlotCorrect == Safety => SlotNotOverwritten
<1>1. ASSUME IInv, [Next]_vars, NEW w \in Workers
      PROVE  /\ has_work[w] => item'[w] = item[w]
             /\ wpc'[w] = "running" => local'[w] = item'[w]
  <2>1. has_work[w] => item'[w] = item[w]
    <3>1. CASE SubmitChunk
      BY <1>1, <3>1 DEF SubmitChunk, IInv, TypeOK, SlotInv, Workers
    <3>2. CASE ~SubmitChunk
      BY <1>1, <3>2 DEF Next, Request, InitPool, Dispatch, BeginDestroy,
         CallerStep, SpawnWorker, RunInline, ReturnInline, SleepOnDone,
         PassChunk, ShutdownWorker, JoinWorker, SpuriousCaller, WorkerStep,
         ParkWorker, TakeItem, RunItem, ClearItem, ExitWorker, SpuriousWorker,
         Freed, vars, slots
    <3>3. QED
      BY <3>1, <3>2
  <2>2. wpc'[w] = "running" => local'[w] = item'[w]
    BY <1>1, NextInv DEF IInv, SlotInv
  <2>3. QED
    BY <2>1, <2>2
<1>2. IInv /\ [Next]_vars =>
        [\A w \in Workers :
            /\ has_work[w] => item'[w] = item[w]
            /\ wpc'[w] = "running" => local'[w] = item'[w]]_vars
  BY <1>1
<1>3. QED
  BY <1>2, Invariance, PTL DEF Safety, SlotNotOverwritten

(* A call of work_fn only covers indices no call covered before it. *)
THEOREM OnceCorrect == Safety => EachIndexOnce
<1>1. IInv /\ [Next]_vars =>
        [\A w \in Workers : wpc[w] = "running" /\ wpc'[w] = "finished"
            => Indices(local[w]) \subseteq todo]_vars
  BY RunningIsTodo
<1>2. QED
  BY <1>1, Invariance, PTL DEF Safety, EachIndexOnce

-------------------------------------------------------------------------------
(* Every step of the pool is a step of the fork-join, or changes nothing of it. *)
LEMMA StepImplements == IInv /\ [Next]_vars => [FJ!Next]_(FJ!vars)
<1> SUFFICES ASSUME IInv, [Next]_vars PROVE [FJ!Next]_(FJ!vars)
  OBVIOUS
<1> USE ThreadPoolAssumption DEF FJ!vars
<1>1. CASE \E n \in 1 .. MaxThreads : InitPool(n)
  BY <1>1 DEF InitPool, state, InDispatch
<1>2. CASE \E n \in 1 .. MaxTotal : Dispatch(n)
  BY <1>2 DEF Dispatch, FJ!Next, FJ!Begin, state, InDispatch
<1>3. CASE BeginDestroy
  BY <1>3 DEF BeginDestroy, FJ!Next, FJ!Close, state, InDispatch
<1>4. CASE SpawnWorker \/ ShutdownWorker \/ JoinWorker \/ SleepOnDone \/ SpuriousCaller
  BY <1>4 DEF SpawnWorker, ShutdownWorker, JoinWorker, SleepOnDone,
     SpuriousCaller, state, InDispatch
<1>5. CASE RunInline
  <2>1. todo # {} /\ todo' = {} /\ todo \subseteq 0 .. (MaxTotal - 1)
    BY <1>5 DEF RunInline, IInv, TypeOK, TodoInv, Indices
  <2>2. state = "busy" /\ state' = state
    BY <1>5 DEF RunInline, state, InDispatch
  <2>3. FJ!Execute(todo)
    BY <2>1, <2>2 DEF FJ!Execute
  <2>4. QED
    BY <2>1, <2>3 DEF FJ!Next, FJ!Work
<1>6. CASE ReturnInline
  BY <1>6 DEF ReturnInline, FJ!Next, FJ!Return, state, InDispatch
<1>7. CASE SubmitChunk
  BY <1>7 DEF SubmitChunk, state, InDispatch
<1>8. CASE PassChunk
  <2>1. cpc' = "idle" => todo' = {}
    BY PassInv, <1>8 DEF IInv, TodoInv, InDispatch
  <2>2. QED
    BY <1>8, <2>1 DEF PassChunk, FJ!Next, FJ!Return, state, InDispatch
<1>9. ASSUME NEW w \in Workers,
             ParkWorker(w) \/ TakeItem(w) \/ ClearItem(w) \/ ExitWorker(w)
                \/ SpuriousWorker(w)
      PROVE  UNCHANGED FJ!vars
  BY <1>9 DEF ParkWorker, TakeItem, ClearItem, SignalCaller, ExitWorker,
     SpuriousWorker, state, InDispatch
<1>10. ASSUME NEW w \in Workers, RunItem(w)
       PROVE  FJ!Next \/ UNCHANGED FJ!vars
  <2>1. cpc \in Threaded /\ Indices(local[w]) \subseteq todo
    BY <1>10, RunningIsTodo DEF RunItem
  <2>2. state = "busy" /\ state' = state /\ todo' = todo \ Indices(local[w])
    BY <1>10, <2>1 DEF RunItem, state, InDispatch, Threaded
  <2>3. CASE Indices(local[w]) = {}
    BY <2>2, <2>3
  <2>4. CASE Indices(local[w]) # {}
    <3>1. Indices(local[w]) \in SUBSET (0 .. (MaxTotal - 1))
      BY <2>1 DEF IInv, TypeOK
    <3>2. FJ!Execute(Indices(local[w]))
      BY <2>1, <2>2, <2>4 DEF FJ!Execute
    <3>3. QED
      BY <3>1, <3>2 DEF FJ!Next, FJ!Work
  <2>5. QED
    BY <2>3, <2>4
<1>11. CASE UNCHANGED vars
  BY <1>11 DEF vars, state, InDispatch
<1>12. QED
  BY <1>1, <1>2, <1>3, <1>4, <1>5, <1>6, <1>7, <1>8, <1>9, <1>10, <1>11
     DEF Next, Request, CallerStep, WorkerStep, Freed

(* A dispatch hands out, executes and returns as ForkJoin says (its safety    *)
(* part: that it returns is checked by TLC under fairness).                   *)
THEOREM ForkJoinSafety == Safety => FJ!Safety
<1>1. Init => FJ!Init
  BY DEF Init, FJ!Init, state, InDispatch
<1>2. QED
  BY <1>1, StepImplements, Invariance, PTL DEF Safety, FJ!Safety
===============================================================================

------------------------- MODULE BoundedExecutorProofs -------------------------
(***************************************************************************)
(* Proofs about BoundedExecutor for every output limit, amount of output   *)
(* and number of signals: the limit is exact, a result that is ok is a     *)
(* complete one, and a run that was cut short leaves no process behind.    *)
(***************************************************************************)
EXTENDS BoundedExecutor, TLAPS

Terminating == {"check", "term", "grace", "kill", "reap"}
CutShort    == {"timeout", "output_limit", "interrupted"}

Places == {"loop", "read", "finally", "wait", "returned", "raised"} \cup Terminating

TypeInv ==
    /\ pc \in Places
    /\ alive \in SUBSET Members
    /\ reaped \in BOOLEAN /\ returncode \in {0, 1}
    /\ writers \in [Streams -> SUBSET Members]
    /\ written \in [Streams -> Nat] /\ captured \in [Streams -> Nat]
    /\ registered \in SUBSET Streams
    /\ status \in {"none", "spawn_error", "ok", "nonzero_exit"} \cup CutShort
    /\ handlers \in BOOLEAN /\ signals \in Nat

(* Only the living write, what was read had been written, and a stream     *)
(* leaves the selector at its end, which nothing takes back.               *)
StreamInv ==
    /\ \A s \in Streams : writers[s] \subseteq alive
    /\ \A s \in Streams : captured[s] <= written[s]
    /\ \A s \in Streams \ registered : Pending(s) = 0 /\ writers[s] = {}

(* What the status says at each place. *)
StatusInv ==
    /\ pc \in {"loop", "read"} => status = "none"
    /\ pc \in Terminating => status \in CutShort
    /\ pc \in {"finally", "wait"} => status \in {"none"} \cup CutShort
    /\ pc \in {"finally", "wait"} /\ status = "none" => registered = {}
    /\ pc = "wait" => handlers = FALSE
    /\ signals # 0 => status = "interrupted" \/ pc = "raised"

LimitInv ==
    /\ Captured <= OutputLimit
    /\ status = "output_limit" => Captured = OutputLimit

(* The group is gone when _terminate is done, and stays so. *)
GroupInv ==
    /\ pc = "reap" => alive = {}
    /\ pc \in {"finally", "wait", "returned"} /\ status \in CutShort => alive = {}
    /\ pc = "returned" => Exited
    /\ pc = "returned" /\ status # "spawn_error" => reaped
    /\ pc = "returned" /\ status = "ok" => returncode = 0 /\ registered = {}

IInv == TypeInv /\ StreamInv /\ StatusInv /\ LimitInv /\ GroupInv

-------------------------------------------------------------------------------
(* A command that has just been started has read nothing. *)
LEMMA InitIInv == Init => IInv
<1> SUFFICES ASSUME Init PROVE IInv
  OBVIOUS
<1> USE ExecutorAssumption
<1>1. TypeInv
  BY DEF Init, TypeInv, Places, Terminating, CutShort, Members, Streams
<1>2. StreamInv
  BY DEF Init, StreamInv, Pending
<1>3. StatusInv
  BY DEF Init, StatusInv, Terminating, CutShort
<1>4. LimitInv
  BY DEF Init, LimitInv, Captured, Streams
<1>5. GroupInv
  BY DEF Init, GroupInv, CutShort, Exited
<1> QED
  BY <1>1, <1>2, <1>3, <1>4, <1>5 DEF IInv

(* What the group does is no concern of the limit, and only the parent moves. *)
LEMMA GroupStep == IInv /\ Group => IInv'
<1> SUFFICES ASSUME IInv, Group PROVE IInv'
  OBVIOUS
<1> USE DEF IInv, parent, reader, clock
<1>1. ASSUME NEW m \in Members, Exit(m) PROVE IInv'
  <2> USE <1>1 DEF Exit, Die
  <2>1. TypeInv'
    BY DEF TypeInv
  <2>2. StreamInv'
    BY DEF TypeInv, StreamInv, Pending
  <2>3. StatusInv'
    BY DEF StatusInv
  <2>4. LimitInv'
    BY DEF LimitInv, Captured
  <2>5. GroupInv'
    BY DEF GroupInv, Exited
  <2> QED
    BY <2>1, <2>2, <2>3, <2>4, <2>5
<1>2. ASSUME NEW m \in Members, NEW s \in Streams, Write(m, s) PROVE IInv'
  <2> USE <1>2 DEF Write
  <2>1. TypeInv'
    BY DEF TypeInv
  <2>2. StreamInv'
    BY DEF TypeInv, StreamInv, Pending
  <2>3. StatusInv'
    BY DEF StatusInv
  <2>4. LimitInv'
    BY DEF LimitInv, Captured
  <2>5. GroupInv'
    BY DEF GroupInv, Exited
  <2> QED
    BY <2>1, <2>2, <2>3, <2>4, <2>5
<1>3. CASE Fork
  <2> USE <1>3 DEF Fork
  <2>1. TypeInv'
    BY DEF TypeInv, Members
  <2>2. StreamInv'
    BY DEF TypeInv, StreamInv, Pending
  <2>3. StatusInv'
    BY DEF StatusInv
  <2>4. LimitInv'
    BY DEF LimitInv, Captured
  <2>5. GroupInv'
    BY DEF GroupInv, Exited
  <2> QED
    BY <2>1, <2>2, <2>3, <2>4, <2>5
<1>4. CASE Detach
  <2> USE <1>4 DEF Detach
  <2>1. TypeInv'
    BY DEF TypeInv
  <2>2. StreamInv'
    BY DEF TypeInv, StreamInv, Pending
  <2>3. StatusInv'
    BY DEF StatusInv
  <2>4. LimitInv'
    BY DEF LimitInv, Captured
  <2>5. GroupInv'
    BY DEF GroupInv, Exited
  <2> QED
    BY <2>1, <2>2, <2>3, <2>4, <2>5
<1> QED
  BY <1>1, <1>2, <1>3, <1>4 DEF Group

(* A chunk is read whole when it fits, and up to the limit when it does not. *)
LEMMA ReadStep ==
    ASSUME IInv, NEW s \in Streams, ReadNothing(s) \/ ReadData(s)
    PROVE  IInv'
<1> USE ExecutorAssumption DEF IInv, group, clock
<1>1. CASE ReadNothing(s)
  <2> USE <1>1 DEF ReadNothing, Advance
  <2>1. TypeInv'
    BY DEF TypeInv, Places
  <2>2. StreamInv'
    BY DEF TypeInv, StreamInv, Pending
  <2>3. StatusInv'
    BY DEF StatusInv, Terminating
  <2>4. LimitInv'
    BY DEF LimitInv, Captured
  <2>5. GroupInv'
    BY DEF GroupInv, Exited
  <2> QED
    BY <2>1, <2>2, <2>3, <2>4, <2>5
<1>2. CASE ReadData(s)
  <2>1. PICK chunk \in 1 .. Pending(s) :
          LET allowed == OutputLimit - Captured IN
          IF chunk <= allowed
          THEN /\ captured' = [captured EXCEPT ![s] = @ + chunk]
               /\ Advance(s) /\ UNCHANGED <<status, grace_over>>
          ELSE /\ captured' = [captured EXCEPT ![s] = @ + allowed]
               /\ Terminate("output_limit") /\ UNCHANGED ready
    BY <1>2 DEF ReadData
  <2>2. /\ pc = "read"
        /\ UNCHANGED <<group, reaped, registered, expired, in_except, handlers, signals>>
    BY <1>2 DEF ReadData
  <2>3. status = "none" /\ signals = 0
    BY <2>2 DEF StatusInv
  <2>4. s \in registered
    BY <2>1 DEF StreamInv, TypeInv, Pending
  <2>5. PICK taken \in Nat :
          /\ captured' = [captured EXCEPT ![s] = @ + taken]
          /\ taken <= Pending(s) /\ taken <= OutputLimit - Captured
          /\ \/ Advance(s) /\ UNCHANGED status
             \/ Terminate("output_limit") /\ taken = OutputLimit - Captured
    <3>1. OutputLimit - Captured \in Nat /\ Pending(s) \in Int
      BY DEF TypeInv, LimitInv, Captured, Pending, Streams
    <3>2. CASE chunk <= OutputLimit - Captured
      BY <2>1, <3>1, <3>2
    <3>3. CASE ~(chunk <= OutputLimit - Captured)
      BY <2>1, <3>1, <3>3
    <3> QED
      BY <3>2, <3>3
  <2>6. TypeInv'
    BY <2>2, <2>5 DEF TypeInv, Advance, Terminate, Places, Terminating, CutShort
  <2>7. StreamInv'
    BY <2>2, <2>4, <2>5 DEF TypeInv, StreamInv, Pending
  <2>8. StatusInv'
    BY <2>2, <2>3, <2>5 DEF StatusInv, Advance, Terminate, Terminating, CutShort
  <2>9. LimitInv'
    <3>1. Captured' = Captured + taken
      BY <2>5 DEF TypeInv, Captured, Streams
    <3> QED
      BY <3>1, <2>3, <2>5 DEF LimitInv, TypeInv, Captured, Advance, Terminate, Streams
  <2>10. GroupInv'
    BY <2>2, <2>5 DEF GroupInv, Exited, Advance, Terminate
  <2> QED
    BY <2>6, <2>7, <2>8, <2>9, <2>10
<1> QED
  BY <1>1, <1>2

(* The loop of the parent, whatever the selector and the clock say.         *)
LEMMA LoopStep == IInv /\ Loop => IInv'
<1> SUFFICES ASSUME IInv, Expire \/ Select \/ LoopDone PROVE IInv'
  BY ReadStep DEF Loop
<1> USE DEF IInv, group, reader, clock, Expire, Select, LoopDone, Terminate
<1>1. TypeInv'
  BY DEF TypeInv, Places, Terminating, CutShort
<1>2. StreamInv'
  BY DEF StreamInv, Pending
<1>3. StatusInv'
  BY DEF StatusInv, Terminating, CutShort
<1>4. LimitInv'
  BY DEF LimitInv, Captured
<1>5. GroupInv'
  BY DEF GroupInv, StatusInv, Exited, CutShort
<1> QED
  BY <1>1, <1>2, <1>3, <1>4, <1>5

(* _terminate goes on to the finally clause only when no member is left. *)
LEMMA KillStep == IInv /\ Kill => IInv'
<1> SUFFICES ASSUME IInv, Kill PROVE IInv'
  OBVIOUS
<1> USE DEF IInv, group, reader, clock, Kill, Terminated
<1>1. CASE CheckGroup \/ WaitGrace \/ ReapKilled
  <2> USE <1>1 DEF CheckGroup, WaitGrace, ReapKilled, Exited, GroupAlive
  <2>1. TypeInv'
    BY DEF TypeInv, Places, Terminating
  <2>2. StreamInv'
    BY DEF StreamInv, Pending
  <2>3. StatusInv'
    BY DEF StatusInv, Terminating, CutShort
  <2>4. LimitInv'
    BY DEF LimitInv, Captured
  <2>5. GroupInv'
    BY DEF GroupInv
  <2> QED
    BY <2>1, <2>2, <2>3, <2>4, <2>5
<1>2. CASE SendTerm \/ SendKill
  <2>1. /\ pc \in {"term", "kill"} /\ pc' \in {"grace", "reap", "finally"}
        /\ alive' \subseteq alive /\ returncode' \in {returncode, 1}
        /\ pc' # "grace" => alive' = {}
        /\ writers' \in [Streams -> SUBSET Members]
        /\ \A s \in Streams : writers'[s] \subseteq writers[s] /\ writers'[s] \subseteq alive'
        /\ UNCHANGED <<written, reaped, reader, status, handlers, signals>>
    BY <1>2 DEF SendTerm, SendKill, Die, TypeInv, StreamInv, GroupAlive
  <2> HIDE DEF Kill
  <2>2. TypeInv'
    BY <2>1 DEF TypeInv, Places, Terminating
  <2>3. StreamInv'
    BY <2>1 DEF StreamInv, Pending
  <2>4. StatusInv'
    BY <2>1 DEF StatusInv, Terminating, CutShort
  <2>5. LimitInv'
    BY <2>1 DEF LimitInv, Captured
  <2>6. GroupInv'
    BY <2>1 DEF GroupInv
  <2> QED
    BY <2>2, <2>3, <2>4, <2>5, <2>6
<1> QED
  BY <1>1, <1>2

(* The ways out of run, and time passing. *)
LEMMA EndStep == IInv /\ (Finally \/ Return \/ Interrupt \/ Tick) => IInv'
<1> SUFFICES ASSUME IInv, Finally \/ Return \/ Interrupt \/ Tick PROVE IInv'
  OBVIOUS
<1> USE DEF IInv, group, reader, clock, Finally, Return, Interrupt, Tick, Terminate, InTry
<1>1. TypeInv'
  <2>1. CASE Finally \/ Tick
    BY <2>1 DEF TypeInv, Places
  <2>2. CASE Return
    BY <2>2 DEF TypeInv, Places
  <2>3. CASE Interrupt
    <3>1. pc' \in Places /\ status' \in {status, "interrupted"} /\ handlers' \in BOOLEAN
      BY <2>3 DEF Places, Terminating, TypeInv
    <3>2. /\ signals' = signals + 1
          /\ UNCHANGED <<alive, reaped, returncode, writers, written, captured, registered>>
      BY <2>3
    <3> QED
      BY <3>1, <3>2 DEF TypeInv, CutShort
  <2> QED
    BY <2>1, <2>2, <2>3
<1>2. StreamInv'
  BY DEF StreamInv, Pending
<1>3. StatusInv'
  BY DEF StatusInv, TypeInv, Terminating, CutShort
<1>4. LimitInv'
  BY DEF LimitInv, StatusInv, Captured
<1>5. GroupInv'
  BY DEF GroupInv, StatusInv, TypeInv, Exited, CutShort
<1> QED
  BY <1>1, <1>2, <1>3, <1>4, <1>5

(* A stuttering step. *)
LEMMA StutterStep == IInv /\ UNCHANGED vars => IInv'
BY DEF vars, group, reader, clock, IInv, TypeInv, StreamInv, StatusInv, LimitInv, GroupInv,
       Pending, Captured, Exited

(* The inductive invariant: the three properties below follow from it. *)
THEOREM Inductive == Spec => []IInv
<1>1. IInv /\ [Next]_vars => IInv'
  BY GroupStep, LoopStep, KillStep, EndStep, StutterStep DEF Next, Run
<1> QED
  BY InitIInv, <1>1, PTL DEF Spec

-------------------------------------------------------------------------------
(* For every limit: run never holds more output than the limit, and hands  *)
(* out exactly that much when it reports that the limit was exceeded.      *)
THEOREM OutputIsBoundedAlways == Spec => []OutputIsBounded
<1>1. IInv => OutputIsBounded
  BY DEF IInv, LimitInv, OutputIsBounded
<1> QED
  BY <1>1, Inductive, PTL

(* A result that is ok is of a child that exited with 0 and was reaped,    *)
(* with both streams read to the end and no signal received, whatever the  *)
(* group wrote and whoever held its pipes.                                 *)
THEOREM OkIsCompleteAlways == Spec => []OkIsComplete
<1>1. IInv => OkIsComplete
  BY DEF IInv, StreamInv, StatusInv, GroupInv, OkIsComplete
<1> QED
  BY <1>1, Inductive, PTL

(* A run cut short by the deadline, the limit or a signal returns when the *)
(* whole process group is dead and its leader reaped.                      *)
THEOREM NoProcessLeftAlways == Spec => []NoProcessLeft
<1>1. IInv => NoProcessLeft
  BY DEF IInv, GroupInv, CutShort, NoProcessLeft
<1> QED
  BY <1>1, Inductive, PTL
=============================================================================

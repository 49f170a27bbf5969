--------------------------- MODULE BoundedExecutor ---------------------------
(***************************************************************************)
(* BoundedExecutor.run of tools/lis_verify/execution.py: one supervised    *)
(* child in a process group of its own, read through two pipes, against a  *)
(* deadline, an output limit and the parent's own SIGINT and SIGTERM.      *)
(*                                                                         *)
(* The group is the child and at most one descendant of it.  Data in the   *)
(* pipes is counted, not looked at.                                        *)
(***************************************************************************)
EXTENDS Integers, FiniteSets

CONSTANTS OutputLimit,  \* output_limit, in units of data
          MaxOutput,    \* bound on what the group writes to each stream
          MaxSignals,   \* bound on the signals the parent receives
          Lingers       \* a child may close its streams and run on for ever

ASSUME ExecutorAssumption ==
    /\ OutputLimit \in Nat \ {0} /\ MaxOutput \in Nat /\ MaxSignals \in Nat
    /\ Lingers \in BOOLEAN

Streams == {"stdout", "stderr"}
Members == {"child", "descendant"}

VARIABLES
    pc,          \* where run is
    alive,       \* the members of the process group that run
    reaped,      \* the child's exit status was collected by poll or wait
    returncode,  \* the child's exit status, 1 also standing for a signal
    spawned,     \* the child has had its descendant
    writers,     \* the members that hold the write end of each stream
    written,     \* what was written to each stream
    captured,    \* what of it was read
    registered,  \* the streams in the selector
    ready,       \* the streams this pass of the loop still has to read
    status,
    expired,     \* the stage deadline has passed
    grace_over,  \* the deadline of _terminate has passed
    in_except,   \* control is in the except clause
    handlers,    \* the signal handlers of run are installed
    signals      \* signals received so far

group  == <<alive, returncode, spawned, writers, written>>
reader == <<captured, registered, ready>>
clock  == <<expired, grace_over>>
vars == <<pc, group, reaped, reader, status, clock, in_except, handlers, signals>>

Captured == captured["stdout"] + captured["stderr"]
Pending(s) == written[s] - captured[s]

\* Popen succeeded, or raised an OSError.
Init ==
    /\ \/ pc = "loop" /\ alive = {"child"} /\ status = "none"
       \/ pc = "returned" /\ alive = {} /\ status = "spawn_error"
    /\ reaped = FALSE /\ returncode = 0 /\ spawned = FALSE
    /\ writers = [s \in Streams |-> alive]
    /\ written = [s \in Streams |-> 0] /\ captured = [s \in Streams |-> 0]
    /\ registered = Streams /\ ready = {}
    /\ expired = FALSE /\ grace_over = FALSE
    /\ in_except = FALSE /\ handlers = (alive # {}) /\ signals = 0
-----------------------------------------------------------------------------
(***************************************************************************)
(* The process group.                                                      *)
(***************************************************************************)
parent == <<pc, reaped, reader, status, clock, in_except, handlers, signals>>

\* The members in dead are gone, and with them their ends of the pipes.
Die(dead) ==
    /\ alive' = alive \ dead
    /\ writers' = [s \in Streams |-> writers[s] \ dead]

Write(m, s) ==
    /\ m \in writers[s] /\ written[s] < MaxOutput
    /\ written' = [written EXCEPT ![s] = @ + 1]
    /\ UNCHANGED <<alive, returncode, spawned, writers, parent>>

Exit(m) ==
    /\ m \in alive /\ Die({m})
    /\ IF m = "child" THEN returncode' \in {0, 1} ELSE UNCHANGED returncode
    /\ UNCHANGED <<spawned, written, parent>>

\* The descendant inherits the streams it is given.
Fork ==
    /\ "child" \in alive /\ ~spawned
    /\ spawned' = TRUE /\ alive' = alive \cup {"descendant"}
    /\ \E inherited \in SUBSET {s \in Streams : "child" \in writers[s]} :
           writers' = [s \in Streams |->
               IF s \in inherited THEN writers[s] \cup {"descendant"} ELSE writers[s]]
    /\ UNCHANGED <<returncode, written, parent>>

\* The child closes its streams, at its end or to go on without them.
Detach ==
    /\ \E s \in Streams : "child" \in writers[s]
    /\ writers' = [s \in Streams |-> writers[s] \ {"child"}]
    /\ UNCHANGED <<alive, returncode, spawned, written, parent>>

Group == (\E m \in Members : Exit(m) \/ \E s \in Streams : Write(m, s)) \/ Fork \/ Detach

Tick ==
    /\ pc \notin {"returned", "raised"}
    /\ \/ ~expired /\ expired' = TRUE /\ UNCHANGED grace_over
       \/ pc = "grace" /\ ~grace_over /\ grace_over' = TRUE /\ UNCHANGED expired
    /\ UNCHANGED <<pc, group, reaped, reader, status, in_except, handlers, signals>>
-----------------------------------------------------------------------------
(***************************************************************************)
(* The read loop.                                                          *)
(***************************************************************************)
Exited == "child" \notin alive  \* process.poll() is not None, and reaps it

Terminate(why) ==
    /\ pc' = "check" /\ status' = why /\ grace_over' = FALSE

Expire ==
    /\ pc = "loop" /\ registered # {} /\ expired
    /\ Terminate("timeout")
    /\ UNCHANGED <<group, reaped, reader, expired, in_except, handlers, signals>>

\* A stream is ready with data or at its end.  Nothing is ready when a
\* descendant holds the pipes of a dead child: then all of them are tried.
Select ==
    /\ pc = "loop" /\ registered # {} /\ ~expired
    /\ LET found == {s \in registered : Pending(s) > 0 \/ writers[s] = {}} IN
       /\ ready' = IF found = {} /\ Exited THEN registered ELSE found
       /\ reaped' = (reaped \/ (found = {} /\ Exited))
    /\ pc' = IF ready' = {} THEN "loop" ELSE "read"
    /\ UNCHANGED <<group, captured, registered, status, clock, in_except, handlers, signals>>

LoopDone ==
    /\ pc = "loop" /\ registered = {}
    /\ pc' = "finally"
    /\ UNCHANGED <<group, reaped, reader, status, clock, in_except, handlers, signals>>

Advance(s) == ready' = ready \ {s} /\ pc' = IF ready = {s} THEN "loop" ELSE "read"

\* os.read would block, or returns the end of the stream.
ReadNothing(s) ==
    /\ pc = "read" /\ s \in ready /\ Pending(s) = 0
    /\ registered' = IF writers[s] = {} THEN registered \ {s} ELSE registered
    /\ Advance(s)
    /\ UNCHANGED <<group, reaped, captured, status, clock, in_except, handlers, signals>>

\* Mutant: a chunk that exceeds the limit is taken whole.
ReadDataWhole(s) ==
    /\ pc = "read" /\ s \in ready
    /\ \E chunk \in 1 .. Pending(s) :
        /\ captured' = [captured EXCEPT ![s] = @ + chunk]
        /\ IF chunk <= OutputLimit - Captured
           THEN Advance(s) /\ UNCHANGED <<status, grace_over>>
           ELSE Terminate("output_limit") /\ UNCHANGED ready
    /\ UNCHANGED <<group, reaped, registered, expired, in_except, handlers, signals>>

ReadData(s) ==
    /\ pc = "read" /\ s \in ready
    /\ \E chunk \in 1 .. Pending(s) :
        LET allowed == OutputLimit - Captured IN
        IF chunk <= allowed
        THEN /\ captured' = [captured EXCEPT ![s] = @ + chunk]
             /\ Advance(s) /\ UNCHANGED <<status, grace_over>>
        ELSE /\ captured' = [captured EXCEPT ![s] = @ + allowed]
             /\ Terminate("output_limit") /\ UNCHANGED ready
    /\ UNCHANGED <<group, reaped, registered, expired, in_except, handlers, signals>>
-----------------------------------------------------------------------------
(***************************************************************************)
(* _terminate.  A child that exited still counts for killpg until reaped.  *)
(***************************************************************************)
GroupAlive == alive # {} \/ ~reaped

\* Where _terminate returns to.
Terminated == pc' = "finally"

CheckGroup ==
    /\ pc = "check"
    /\ reaped' = (reaped \/ Exited)
    /\ IF alive = {} THEN Terminated ELSE pc' = "term"
    /\ UNCHANGED <<group, reader, status, clock, in_except, handlers, signals>>

\* killpg(SIGTERM): any member may ignore it.
SendTerm ==
    /\ pc = "term"
    /\ \/ /\ GroupAlive
          /\ \E dead \in SUBSET alive :
                /\ Die(dead)
                /\ returncode' = IF "child" \in dead THEN 1 ELSE returncode
          /\ pc' = "grace"
       \/ ~GroupAlive /\ Terminated /\ UNCHANGED <<alive, writers, returncode>>
    /\ UNCHANGED <<spawned, written, reaped, reader, status, clock, in_except, handlers,
                   signals>>

\* Mutant: the grace period does not end.
WaitGraceForever ==
    /\ pc = "grace"
    /\ \/ GroupAlive /\ Exited /\ ~reaped /\ reaped' = TRUE /\ UNCHANGED pc
       \/ ~GroupAlive /\ pc' = "kill" /\ UNCHANGED reaped
    /\ UNCHANGED <<group, reader, status, clock, in_except, handlers, signals>>

WaitGrace ==
    /\ pc = "grace"
    /\ \/ GroupAlive /\ ~grace_over /\ Exited /\ ~reaped /\ reaped' = TRUE /\ UNCHANGED pc
       \/ (~GroupAlive \/ grace_over) /\ pc' = "kill" /\ UNCHANGED reaped
    /\ UNCHANGED <<group, reader, status, clock, in_except, handlers, signals>>

\* Mutant: only the child is killed, not its group.
SendKillChild ==
    /\ pc = "kill"
    /\ Die({"child"})
    /\ returncode' = IF "child" \in alive THEN 1 ELSE returncode
    /\ pc' = "reap"
    /\ UNCHANGED <<spawned, written, reaped, reader, status, clock, in_except, handlers,
                   signals>>

SendKill ==
    /\ pc = "kill"
    /\ Die(alive)
    /\ returncode' = IF "child" \in alive THEN 1 ELSE returncode
    /\ pc' = "reap"
    /\ UNCHANGED <<spawned, written, reaped, reader, status, clock, in_except, handlers,
                   signals>>

ReapKilled ==
    /\ pc = "reap" /\ Exited
    /\ reaped' = TRUE /\ Terminated
    /\ UNCHANGED <<group, reader, status, clock, in_except, handlers, signals>>
-----------------------------------------------------------------------------
(***************************************************************************)
(* Signals of the parent and the end of run.                               *)
(***************************************************************************)
InTry == handlers /\ ~in_except /\ pc # "finally"

\* request_termination raises wherever control is: in the try the except
\* clause terminates the group; in the except clause or the finally clause
\* nothing takes it, and the finally clause still runs in the first case.
Interrupt ==
    /\ handlers /\ pc \notin {"returned", "raised"} /\ signals < MaxSignals
    /\ signals' = signals + 1
    /\ IF InTry
       THEN Terminate("interrupted") /\ in_except' = TRUE /\ UNCHANGED handlers
       ELSE /\ pc' = "raised" /\ handlers' = (pc = "finally")
            /\ UNCHANGED <<status, grace_over, in_except>>
    /\ UNCHANGED <<group, reaped, reader, expired>>

Finally ==
    /\ pc = "finally"
    /\ handlers' = FALSE /\ pc' = "wait"
    /\ UNCHANGED <<group, reaped, reader, status, clock, in_except, signals>>

\* Mutant: the loop's status is not kept, the exit code alone decides.
ReturnByExitCode ==
    /\ pc = "wait" /\ Exited
    /\ reaped' = TRUE /\ pc' = "returned"
    /\ status' = IF returncode = 0 THEN "ok" ELSE "nonzero_exit"
    /\ UNCHANGED <<group, reader, clock, in_except, handlers, signals>>

\* process.wait() has no timeout.
Return ==
    /\ pc = "wait" /\ Exited
    /\ reaped' = TRUE /\ pc' = "returned"
    /\ status' = IF status # "none" THEN status
                 ELSE IF returncode = 0 THEN "ok" ELSE "nonzero_exit"
    /\ UNCHANGED <<group, reader, clock, in_except, handlers, signals>>

Loop == \/ Expire \/ Select \/ LoopDone
        \/ \E s \in Streams : ReadNothing(s) \/ ReadData(s)
Kill == CheckGroup \/ SendTerm \/ WaitGrace \/ SendKill \/ ReapKilled
Run == Loop \/ Kill \/ Finally \/ Return

Next == Group \/ Tick \/ Interrupt \/ Run

Detached == "child" \in alive /\ \A s \in Streams : "child" \notin writers[s]

\* The parent is scheduled and time passes.  The group owes nothing, except,
\* unless it Lingers, the end of a child that has closed its streams.
Spec ==
    /\ Init /\ [][Next]_vars
    /\ WF_vars(Run) /\ WF_vars(Tick)
    /\ WF_vars(~Lingers /\ Detached /\ Exit("child"))
-----------------------------------------------------------------------------
\* The two streams together never exceed the limit, and a run that hit it
\* hands out exactly that much.
OutputIsBounded ==
    /\ Captured <= OutputLimit
    /\ pc = "returned" /\ status = "output_limit" => Captured = OutputLimit

\* A result that is ok tells of a child that exited with 0, was not cut short
\* by a deadline, limit or signal, and whose output was read to the end.
OkIsComplete ==
    pc = "returned" /\ status = "ok" =>
        /\ reaped /\ returncode = 0
        /\ signals = 0
        /\ \A s \in Streams : Pending(s) = 0 /\ writers[s] = {}

\* A run that was ended by a timeout, the output limit or a handled signal
\* leaves no member of the group behind, dead or alive.
NoProcessLeft ==
    pc = "returned" /\ status \in {"timeout", "output_limit", "interrupted"} =>
        alive = {} /\ reaped

\* Whatever the child does, run comes to an end.
Returns == <>(pc \in {"returned", "raised"})
=============================================================================

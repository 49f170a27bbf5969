------------------------------- MODULE ForkJoin -------------------------------
(***************************************************************************)
(* What srcs/includes/lis/thread_pool.h promises of a dispatch, without    *)
(* saying how: the index range [0, total) is handed out, every index is    *)
(* executed once, and the call returns when all of them are done.          *)
(* ThreadPool implements it.                                               *)
(***************************************************************************)
EXTENDS Naturals

CONSTANT MaxTotal   \* largest range a caller hands out

VARIABLES state,    \* "idle", "busy" inside a dispatch, "closed" once destroyed
          todo      \* the indices of the current dispatch not yet executed

vars == <<state, todo>>

TypeOK == /\ state \in {"idle", "busy", "closed"}
          /\ todo \subseteq 0 .. (MaxTotal - 1)

Init == state = "idle" /\ todo = {}

Begin(total) ==
    /\ state = "idle"
    /\ state' = "busy"
    /\ todo' = 0 .. (total - 1)

Execute(chunk) ==
    /\ state = "busy"
    /\ chunk # {}
    /\ chunk \subseteq todo
    /\ todo' = todo \ chunk
    /\ UNCHANGED state

Return ==
    /\ state = "busy"
    /\ todo = {}
    /\ state' = "idle"
    /\ UNCHANGED todo

Close ==
    /\ state = "idle"
    /\ state' = "closed"
    /\ UNCHANGED todo

Work == \E chunk \in SUBSET (0 .. (MaxTotal - 1)) : Execute(chunk)

Next == \/ \E total \in 1 .. MaxTotal : Begin(total)
        \/ Work
        \/ Return
        \/ Close

Safety == Init /\ [][Next]_vars

Spec == Safety /\ WF_vars(Work) /\ WF_vars(Return)
===============================================================================

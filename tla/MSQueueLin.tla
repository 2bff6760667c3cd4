----------------------------- MODULE MSQueueLin -----------------------------
(* MSQueue under the linearizability monitor. *)
EXTENDS MSQueue, LinMonitor

linVars == <<ip, pc, cnt, ret, head, tail, next, value, freeList, loc, lin>>

LinInit == Init /\ MonitorInit

LinNext == Next /\ Observe

LinSpec == LinInit /\ [][LinNext]_linVars

\* The scheduler runs every thread that is not stalled again and again.
FairLinSpec ==
    LinSpec /\ \A t \in Threads \ Stalled : WF_linVars(Step(t) /\ Observe)
=============================================================================

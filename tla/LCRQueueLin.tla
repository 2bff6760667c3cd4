----------------------------- MODULE LCRQueueLin -----------------------------
(* LCRQueue under the linearizability monitor. *)
EXTENDS LCRQueue, LinMonitor

linVars == <<ip, pc, cnt, ret, first, last, ring, used, loc, lin>>

LinInit == Init /\ MonitorInit

LinNext == Next /\ Observe

LinSpec == LinInit /\ [][LinNext]_linVars
=============================================================================

---------------------------- MODULE HowleyBSTLin ----------------------------
(* HowleyBST as its tests see it: contains has no step at which it always takes *)
(* effect, and in a weak build what counts is what complete executions show.   *)
EXTENDS HowleyBST, TestMonitor

linVars == <<ip, pc, cnt, ret, build, mem, view, scView, after, ops, freed, loc, lin, log>>

LinInit == Init /\ WatchInit

LinNext == Next /\ Watch

LinSpec == LinInit /\ [][LinNext]_linVars
=============================================================================

------------------------------- MODULE QuQueue -------------------------------
(***************************************************************************)
(* wrappers/qu-wrapper.h: a linked list with a dummy node and operations   *)
(* that try once.  An enqueue walks to the last node, which it may do by   *)
(* storing tail, and links its node with one compare-and-swap; if that     *)
(* fails the node is dropped and q_enqueue returns as if it were queued.   *)
(* A dequeue that loses its compare-and-swap returns false.  Nodes are not *)
(* recycled.  Every access to shared memory is one step; the read of the   *)
(* data of a node, which never changes once linked, is done in the step of *)
(* the winning compare-and-swap.                                           *)
(***************************************************************************)
EXTENDS Clients, FiniteSets

CONSTANT Stalled  \* threads the scheduler may abandon

\* A test starts finitely many threads, whose calls take finitely many nodes.
ASSUME ThreadsFinite == IsFiniteSet(Threads)

VARIABLES
    head, tail,  \* the two ends of the list, as the program sees them
    next,        \* next[n]: the next field of node n
    loc          \* loc[t]: the nodes the call of t has read

shared == <<head, tail, next>>
vars == <<ip, pc, cnt, ret, head, tail, next, loc>>

\* new_node hands each enqueue a node of its own: a node is the thread and
\* the number of the call that took it.
InitNode == <<"init", 0>>
NoNode == <<"null", 0>>
EnqCalls == UNION {{<<t, i>> : i \in {j \in DOMAIN Script[t] : Script[t][j].kind = "enq"}}
                      : t \in Threads}
Nodes == EnqCalls \cup {InitNode}
Data(n) == Script[n[1]][n[2]].val
NewNode(t) == <<t, ip[t]>>

EnqLabels == {"e_tail", "e_next", "e_walk", "e_link", "e_swing"}
DeqLabels == {"d_head", "d_next", "d_cas"}
Labels == EnqLabels \cup DeqLabels

NoLocals == [node |-> NoNode, next |-> NoNode]

\* queue_init
Init ==
    /\ ClientInit
    /\ head = InitNode
    /\ tail = InitNode
    /\ next = [n \in Nodes |-> NoNode]
    /\ loc = [t \in Threads |-> NoLocals]

-----------------------------------------------------------------------------
\* Slips the runs must notice.
LinkFreeBug(n) == TRUE
HeadSameBug(t) == TRUE
WalkedBug(t) == loc[t].node

\* May a node be linked behind n; has no other dequeue moved head; where the
\* walk and the swing leave tail; the node a dequeue takes the data of.
LinkFree(n) == next[n] = NoNode
HeadSame(t) == head = loc[t].node
Walked(t) == loc[t].next
Swung(t) == NewNode(t)
Taken(t) == loc[t].next

SetLocal(t, l) == loc' = [loc EXCEPT ![t] = l]
Finish(t, r) == Return(t, r) /\ SetLocal(t, NoLocals)

-----------------------------------------------------------------------------
EnqCall(t) == Invoke(t, "enq", "e_tail") /\ UNCHANGED <<shared, loc>>

EnqLoadTail(t) ==
    /\ pc[t] = "e_tail"
    /\ SetLocal(t, [loc[t] EXCEPT !.node = tail])
    /\ Goto(t, "e_next")
    /\ UNCHANGED shared

EnqLoadNext(t) ==
    /\ pc[t] = "e_next"
    /\ SetLocal(t, [loc[t] EXCEPT !.next = next[loc[t].node]])
    /\ Goto(t, IF next[loc[t].node] = NoNode THEN "e_link" ELSE "e_walk")
    /\ UNCHANGED shared

\* A plain store: tail may go back to where a slow thread once saw it.
EnqWalk(t) ==
    /\ pc[t] = "e_walk"
    /\ tail' = Walked(t)
    /\ Retry(t, "e_tail")
    /\ UNCHANGED <<head, next, loc>>

EnqLink(t) ==
    /\ pc[t] = "e_link"
    /\ \/ /\ LinkFree(loc[t].node)
          /\ next' = [next EXCEPT ![loc[t].node] = NewNode(t)]
          /\ Goto(t, "e_swing")
          /\ UNCHANGED loc
       \/ /\ ~LinkFree(loc[t].node)  \* -2: the node and its item are leaked
          /\ Finish(t, Ok)
          /\ UNCHANGED next
    /\ UNCHANGED <<head, tail>>

EnqSwing(t) ==
    /\ pc[t] = "e_swing"
    /\ tail' = Swung(t)
    /\ Finish(t, Ok)
    /\ UNCHANGED <<head, next>>

-----------------------------------------------------------------------------
DeqCall(t) == Invoke(t, "deq", "d_head") /\ UNCHANGED <<shared, loc>>

DeqLoadHead(t) ==
    /\ pc[t] = "d_head"
    /\ SetLocal(t, [loc[t] EXCEPT !.node = head])
    /\ Goto(t, "d_next")
    /\ UNCHANGED shared

DeqLoadNext(t) ==
    /\ pc[t] = "d_next"
    /\ \/ /\ next[loc[t].node] = NoNode
          /\ Finish(t, Empty)
       \/ /\ next[loc[t].node] # NoNode
          /\ SetLocal(t, [loc[t] EXCEPT !.next = next[loc[t].node]])
          /\ Goto(t, "d_cas")
    /\ UNCHANGED shared

DeqAdvance(t) ==
    /\ pc[t] = "d_cas"
    /\ \/ HeadSame(t) /\ head' = loc[t].next /\ Finish(t, Data(Taken(t)))
       \/ ~HeadSame(t) /\ Finish(t, Empty) /\ UNCHANGED head
    /\ UNCHANGED <<tail, next>>

-----------------------------------------------------------------------------
Step(t) ==
    \/ EnqCall(t) \/ EnqLoadTail(t) \/ EnqLoadNext(t) \/ EnqWalk(t)
    \/ EnqLink(t) \/ EnqSwing(t)
    \/ DeqCall(t) \/ DeqLoadHead(t) \/ DeqLoadNext(t) \/ DeqAdvance(t)

Terminating == Quiescent /\ UNCHANGED vars

Next == (\E t \in Threads : Step(t)) \/ Terminating

Spec == Init /\ [][Next]_vars

\* The scheduler runs every thread that is not stalled again and again.
FairSpec == Spec /\ \A t \in Threads \ Stalled : WF_vars(Step(t))

\* Nobody waits for a thread that has stopped between linking and swinging,
\* and a slow thread that takes tail back does not hold the others up for
\* ever, although the walk to the end starts over.
OthersFinish == <>(\A t \in Threads \ Stalled : Finished(t))

-----------------------------------------------------------------------------
\* The program's variables stay in their types.
TypeOK ==
    /\ ClientTypeOK(Labels)
    /\ head \in Nodes /\ tail \in Nodes
    /\ next \in [Nodes -> Nodes \cup {NoNode}]
    /\ loc \in [Threads -> [node : Nodes \cup {NoNode}, next : Nodes \cup {NoNode}]]

\* Where the pointers nx lead from n in so many steps; the nodes behind n.
Successor(n, nx) == IF n = NoNode THEN NoNode ELSE nx[n]
Walk(n, nx) ==
    LET at[i \in 0 .. Cardinality(Nodes)] ==
            IF i = 0 THEN n ELSE Successor(at[i - 1], nx)
    IN  at
Behind(n, nx) ==
    [i \in 1 .. Cardinality({j \in 1 .. Cardinality(Nodes) : Walk(n, nx)[j] # NoNode})
        |-> Walk(n, nx)[i]]

AllLinked == Behind(InitNode, next)
InList == {InitNode} \cup {AllLinked[i] : i \in DOMAIN AllLinked}

\* The list has no cycle and no second branch: all that was ever linked is
\* behind the first dummy, once.  Tail may lag behind head or go back, and so
\* may what a thread has read, but all of them stay on the list, from where a
\* walk gets to the end.
OneList ==
    LET list == InList
    IN  /\ \A n \in Nodes : next[n] # NoNode => n \in list
        /\ Len(AllLinked) = Cardinality(list) - 1
        /\ {head, tail} \subseteq list
        /\ \A t \in Threads : loc[t].node \in list \cup {NoNode}

\* The list is one list, and all that anybody holds is on it.
ListInv == TypeOK /\ OneList

\* The stage of each call, its result, and the items of the abstract queue.
Stage == [t \in Threads |-> CASE pc[t] = "e_swing" -> "done"
                              [] pc[t] = "idle" -> "idle"
                              [] OTHER -> "called"]
Res == [t \in Threads |-> IF pc[t] = "e_swing" THEN Ok ELSE ret[t]]
Queue == [i \in DOMAIN Behind(head, next) |-> Data(Behind(head, next)[i])]

\* An enqueue takes effect at its compare-and-swap, a dequeue at its own, or
\* when it loads a null next.  The contract is that of a queue which may drop
\* what is enqueued and may say that it is empty when it is not.
Abs == INSTANCE AtomicQueue WITH
    Lax   <- {"deqMayFail", "enqMayDrop"},
    stage <- Stage,
    res   <- Res,
    queue <- Queue

\* Whatever is not dropped comes out once, in the order in which it went in.
ImplementsAtomicQueue == Abs!Spec
=============================================================================

------------------------------ MODULE FastMPMC ------------------------------
(***************************************************************************)
(* wrappers/fastmpmc-wrapper.h: a bounded ring in which every slot carries *)
(* a version.  Ticket p uses slot p % m_capacity; version = p means the    *)
(* slot is free for the enqueuer of ticket p, version = p+1 that it holds  *)
(* the item of ticket p.  An enqueuer claims a ticket by advancing m_tail, *)
(* a dequeuer by advancing m_head; the payload itself is a plain field.    *)
(* Every atomic access of the code is one step, and so is each access to   *)
(* the payload.                                                            *)
(***************************************************************************)
EXTENDS Clients

CONSTANTS
    Capacity,     \* m_capacity (MAX_SIZE)
    WeakCAS       \* TRUE: compare_exchange_weak may fail spuriously

\* With one slot, "holds the item of p" and "free for p+1" are the same
\* version; the code fixes the capacity at 32.
ASSUME CapacityAssumption == Capacity \in Nat /\ Capacity >= 2

VARIABLES
    m_head, m_tail,  \* the next ticket to dequeue, to enqueue
    version,         \* version[s]: m_items[s].version
    value,           \* value[s]: m_items[s].value
    tk,              \* tk[t]: the local tail (enqueue) or head (dequeue)
    got              \* got[t]: *retVal of a dequeue

shared == <<m_head, m_tail, version, value>>
vars == <<ip, pc, cnt, ret, m_head, m_tail, version, value, tk, got>>

Slots == 0 .. Capacity - 1
Slot(p) == p % Capacity

EnqLabels == {"e_tail", "e_ver", "e_cas", "e_val", "e_pub"}
DeqLabels == {"d_head", "d_tail", "d_ver", "d_cas", "d_val", "d_rel"}
Labels == EnqLabels \cup DeqLabels

Init ==
    /\ ClientInit
    /\ m_head = 0
    /\ m_tail = 0
    /\ version = [s \in Slots |-> s]
    /\ value = [s \in Slots |-> Null]
    /\ tk  = [t \in Threads |-> 0]
    /\ got = [t \in Threads |-> Null]

-----------------------------------------------------------------------------
\* Slips the runs must notice: a full slot taken for free, an item read
\* before it is published, the sign of the capacity, off by one.
FreeForBug(p) == version[Slot(p)] <= p
HoldsBug(p) == version[Slot(p)] >= p
ReleasedSignBug(p) == p - Capacity
ReleasedOffByOneBug(p) == p + Capacity + 1

\* The versions that say: free for ticket p, holding the item of ticket p.
FreeFor(p) == version[Slot(p)] = p
Holds(p) == version[Slot(p)] = p + 1
\* The version an enqueuer publishes, and the one a dequeuer leaves behind.
Published(p) == p + 1
Released(p) == p + Capacity

EnqCall(t) == Invoke(t, "enq", "e_tail") /\ UNCHANGED <<shared, tk, got>>

EnqLoadTail(t) ==
    /\ pc[t] = "e_tail"
    /\ tk' = [tk EXCEPT ![t] = m_tail]
    /\ Goto(t, "e_ver")
    /\ UNCHANGED <<shared, got>>

EnqLoadVersion(t) ==
    /\ pc[t] = "e_ver"
    /\ IF FreeFor(tk[t]) THEN Goto(t, "e_cas") ELSE Retry(t, "e_tail")
    /\ UNCHANGED <<shared, tk, got>>

EnqClaim(t) ==
    /\ pc[t] = "e_cas"
    /\ \/ /\ m_tail = tk[t]
          /\ m_tail' = tk[t] + 1
          /\ Goto(t, "e_val")
       \/ /\ m_tail # tk[t] \/ WeakCAS
          /\ Retry(t, "e_tail")
          /\ UNCHANGED m_tail
    /\ UNCHANGED <<m_head, version, value, tk, got>>

EnqWriteValue(t) ==
    /\ pc[t] = "e_val"
    /\ value' = [value EXCEPT ![Slot(tk[t])] = Current(t).val]
    /\ Goto(t, "e_pub")
    /\ UNCHANGED <<m_head, m_tail, version, tk, got>>

EnqPublish(t) ==
    /\ pc[t] = "e_pub"
    /\ version' = [version EXCEPT ![Slot(tk[t])] = Published(tk[t])]
    /\ Return(t, Ok)
    /\ UNCHANGED <<m_head, m_tail, value, tk, got>>

-----------------------------------------------------------------------------
DeqCall(t) == Invoke(t, "deq", "d_head") /\ UNCHANGED <<shared, tk, got>>

DeqLoadHead(t) ==
    /\ pc[t] = "d_head"
    /\ tk' = [tk EXCEPT ![t] = m_head]
    /\ Goto(t, "d_tail")
    /\ UNCHANGED <<shared, got>>

DeqLoadTail(t) ==
    /\ pc[t] = "d_tail"
    /\ IF tk[t] = m_tail THEN Return(t, Empty) ELSE Goto(t, "d_ver")
    /\ UNCHANGED <<shared, tk, got>>

DeqLoadVersion(t) ==
    /\ pc[t] = "d_ver"
    /\ IF Holds(tk[t]) THEN Goto(t, "d_cas") ELSE Retry(t, "d_head")
    /\ UNCHANGED <<shared, tk, got>>

DeqClaim(t) ==
    /\ pc[t] = "d_cas"
    /\ \/ /\ m_head = tk[t]
          /\ m_head' = tk[t] + 1
          /\ Goto(t, "d_val")
       \/ /\ m_head # tk[t] \/ WeakCAS
          /\ Retry(t, "d_head")
          /\ UNCHANGED m_head
    /\ UNCHANGED <<m_tail, version, value, tk, got>>

DeqReadValue(t) ==
    /\ pc[t] = "d_val"
    /\ got' = [got EXCEPT ![t] = value[Slot(tk[t])]]
    /\ Goto(t, "d_rel")
    /\ UNCHANGED <<shared, tk>>

DeqRelease(t) ==
    /\ pc[t] = "d_rel"
    /\ version' = [version EXCEPT ![Slot(tk[t])] = Released(tk[t])]
    /\ Return(t, got[t])
    /\ UNCHANGED <<m_head, m_tail, value, tk, got>>

-----------------------------------------------------------------------------
EnqStep(t) ==
    \/ EnqCall(t) \/ EnqLoadTail(t) \/ EnqLoadVersion(t)
    \/ EnqClaim(t) \/ EnqWriteValue(t) \/ EnqPublish(t)

DeqStep(t) ==
    \/ DeqCall(t) \/ DeqLoadHead(t) \/ DeqLoadTail(t) \/ DeqLoadVersion(t)
    \/ DeqClaim(t) \/ DeqReadValue(t) \/ DeqRelease(t)

Step(t) == EnqStep(t) \/ DeqStep(t)

\* The test program ends when no thread has anything left to do.
Terminating == Quiescent /\ UNCHANGED vars

Next == (\E t \in Threads : Step(t)) \/ Terminating

Spec == Init /\ [][Next]_vars

\* Every thread of a running program is scheduled again and again, and no weak
\* compare-and-swap fails for ever on a value that is the expected one.
FairSpec ==
    /\ Spec
    /\ \A t \in Threads :
        /\ WF_vars(Step(t))
        /\ SF_vars(EnqClaim(t) /\ m_tail' # m_tail)
        /\ SF_vars(DeqClaim(t) /\ m_head' # m_head)

-----------------------------------------------------------------------------
\* The program's variables stay in their types.
TypeOK ==
    /\ ClientTypeOK(Labels)
    /\ m_head \in Nat
    /\ m_tail \in Nat
    /\ version \in [Slots -> Nat]
    /\ value \in [Slots -> Payloads]
    /\ tk  \in [Threads -> Nat]
    /\ got \in [Threads -> Payloads]

\* A thread between its winning CAS and its version store owns its slot.
EnqOwns(t) == pc[t] \in {"e_val", "e_pub"}
DeqOwns(t) == pc[t] \in {"d_val", "d_rel"}
Owns(t) == EnqOwns(t) \/ DeqOwns(t)

\* The payload is a plain field, written by an enqueuer and read by a
\* dequeuer with no lock: no two threads are ever between their winning CAS
\* and their version store on the same slot, so of two accesses to it one is
\* over before the other begins.  This is about interleavings: in C11 the
\* relaxed store of version (l. 89) and the relaxed load (l. 50) do not order
\* the read of the payload (l. 86) before the write a lap later (l. 58).
SlotExclusive ==
    \A t, u \in Threads :
        t # u /\ Owns(t) /\ Owns(u) => Slot(tk[t]) # Slot(tk[u])

\* No lap: the tickets handed out and not yet taken fit in the ring, and a
\* dequeuer still reading its slot is at most one lap behind m_tail, however
\* long it has been stalled.
NoLap ==
    /\ m_head <= m_tail
    /\ m_tail <= m_head + Capacity
    /\ \A t \in Threads : DeqOwns(t) => m_tail <= tk[t] + Capacity

\* A slot's version only grows: a stalled thread cannot find the version it
\* is waiting for coming back (no ABA on the version).
VersionsGrow ==
    [][\A s \in Slots : version'[s] >= version[s]]_vars

-----------------------------------------------------------------------------
\* Why SlotExclusive and NoLap hold: the version of a slot says who may use
\* it, also between the load of the version and the CAS that acts on it.
OwnersHoldVersions ==
    \A t \in Threads :
        /\ EnqOwns(t) => /\ m_head <= tk[t] /\ tk[t] < m_tail
                         /\ version[Slot(tk[t])] = tk[t]
        /\ DeqOwns(t) => /\ tk[t] < m_head
                         /\ version[Slot(tk[t])] = tk[t] + 1

TicketsDistinct ==
    \A t, u \in Threads :
        t # u => /\ EnqOwns(t) /\ EnqOwns(u) => tk[t] # tk[u]
                 /\ DeqOwns(t) /\ DeqOwns(u) => tk[t] # tk[u]

QueuedVersions ==
    \A p \in m_head .. m_tail - 1 : version[Slot(p)] \in {p, p + 1}

CheckedVersions ==
    \A t \in Threads :
        /\ pc[t] \in {"e_ver", "e_cas"} => tk[t] <= m_tail
        /\ pc[t] \in {"d_tail", "d_ver", "d_cas"} => tk[t] <= m_head
        /\ pc[t] \in {"d_ver", "d_cas"} => tk[t] < m_tail
        /\ pc[t] = "e_cas" /\ tk[t] = m_tail => version[Slot(tk[t])] = tk[t]
        /\ pc[t] = "d_cas" /\ tk[t] = m_head => version[Slot(tk[t])] = tk[t] + 1

\* A thread is where a call of its kind can be.
InOwnCall == InCallOf(EnqLabels, DeqLabels)

TicketInv ==
    /\ NoLap
    /\ OwnersHoldVersions
    /\ TicketsDistinct
    /\ QueuedVersions
    /\ CheckedVersions

\* The inductive invariant of the proofs in FastMPMCProofs: from whatever
\* state has it, no step of enqueue or dequeue, of any thread, leads out.
Inv == TypeOK /\ InOwnCall /\ TicketInv

-----------------------------------------------------------------------------
\* The item of a claimed ticket: still with its enqueuer, or in its slot.
Writes(t, p) == pc[t] = "e_val" /\ tk[t] = p
ItemOf(p) ==
    IF \E t \in Threads : Writes(t, p)
    THEN Current(CHOOSE t \in Threads : Writes(t, p)).val
    ELSE value[Slot(p)]

\* An enqueue takes effect at its CAS on m_tail, a dequeue at its CAS on
\* m_head, a dequeue that returns false when it loads an m_tail equal to the
\* m_head it has loaded.
Stage == [t \in Threads |-> IF Owns(t) THEN "done"
                            ELSE IF InCall(t) THEN "called" ELSE "idle"]
Res   == [t \in Threads |-> CASE EnqOwns(t) -> Ok
                              [] pc[t] = "d_val" -> value[Slot(tk[t])]
                              [] pc[t] = "d_rel" -> got[t]
                              [] OTHER -> ret[t]]
Queue == [i \in 1 .. m_tail - m_head |-> ItemOf(m_head + i - 1)]

Abs == INSTANCE AtomicQueue WITH
    Lax <- {}, stage <- Stage, res <- Res, queue <- Queue

\* Every execution of the queue is one of an atomic FIFO queue with the same
\* calls and the same results: the queue is linearizable.
ImplementsAtomicQueue == Abs!Spec
=============================================================================

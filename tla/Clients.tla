------------------------------- MODULE Clients -------------------------------
(***************************************************************************)
(* The threads that call a queue or a set.  A generated test starts one    *)
(* thread per operation of the history under test and noise threads that   *)
(* run noise_enq_deq of wrappers/queue-wrappers.h or noise_gen of          *)
(* wrappers/set-wrappers.h: a thread runs a fixed sequence of calls, one   *)
(* at a time.  This module holds the part of the state every module of a   *)
(* queue or set shares: how far each thread is in its sequence, where it   *)
(* is inside the current call, how often the loop of that call has turned, *)
(* and what its last completed call returned.                              *)
(***************************************************************************)
EXTENDS Naturals, Sequences

CONSTANTS
    Vals,     \* the payloads (val_t pointers), or the names of the keys
    Threads,  \* the threads of the test
    Script,   \* Script[t]: the calls thread t makes, in order
    MaxIter   \* MAX_ITER of the queue's header; 0: the loops are unbounded

Null     == "none"   \* the null pointer, and a payload never written
Payloads == Vals \cup {Null}

\* The calls of the two interfaces, and what they can return.
Enq(v)     == [kind |-> "enq", val |-> v]
Deq        == [kind |-> "deq", val |-> Null]
WAdd(v)    == [kind |-> "add", val |-> v]
WRemove(v) == [kind |-> "remove", val |-> v]
WIn(v)     == [kind |-> "in", val |-> v]
Calls      == [kind : {"enq", "deq", "add", "remove", "in"}, val : Payloads]

Ok    == "ok"      \* q_enqueue returned
Empty == "empty"   \* q_dequeue returned false
Yes   == "true"    \* w_add, w_remove or w_in returned true
No    == "false"   \* or false
NoRet == "noret"   \* no call of the thread has returned yet
Results == Payloads \cup {Ok, Empty, Yes, No, NoRet}

ASSUME ScriptAssumption == Script \in [Threads -> Seq(Calls)]
ASSUME MaxIterAssumption == MaxIter \in Nat

VARIABLES
    ip,   \* ip[t]: the number of calls t has made
    pc,   \* pc[t]: the next atomic access of t, "idle" between two calls
    cnt,  \* cnt[t]: the local cnt of the retry loop t is in
    ret   \* ret[t]: the result of the last call of t that returned

clientVars == <<ip, pc, cnt, ret>>

ClientInit ==
    /\ ip  = [t \in Threads |-> 0]
    /\ pc  = [t \in Threads |-> "idle"]
    /\ cnt = [t \in Threads |-> 0]
    /\ ret = [t \in Threads |-> NoRet]

-----------------------------------------------------------------------------
\* The call thread t is in (only meaningful while pc[t] # "idle").
Current(t) == Script[t][ip[t]]

InCall(t) == pc[t] # "idle"

\* t makes its next call, of the given kind, whose first access is entry.
\* The loop counter starts at 0 and the first ++cnt makes it 1.
Invoke(t, kind, entry) ==
    /\ ~InCall(t)
    /\ ip[t] < Len(Script[t])
    /\ Script[t][ip[t] + 1].kind = kind
    /\ ip'  = [ip EXCEPT ![t] = @ + 1]
    /\ cnt' = [cnt EXCEPT ![t] = 1]
    /\ pc'  = [pc EXCEPT ![t] = entry]
    /\ UNCHANGED ret

\* t goes on to its next access.
Goto(t, label) ==
    /\ pc' = [pc EXCEPT ![t] = label]
    /\ UNCHANGED <<ip, cnt, ret>>

\* t returns r from its call.
Return(t, r) ==
    /\ pc'  = [pc EXCEPT ![t] = "idle"]
    /\ ret' = [ret EXCEPT ![t] = r]
    /\ UNCHANGED <<ip, cnt>>

\* t starts the next turn of its retry loop, whose head is
\* __VERIFIER_assume(++cnt < MAX_ITER): the model checker abandons an
\* execution in which the condition is false, so the thread never steps
\* again.  With MaxIter = 0 the assume is compiled out.
Retry(t, entry) ==
    /\ IF MaxIter = 0
       THEN /\ pc' = [pc EXCEPT ![t] = entry]
            /\ UNCHANGED cnt
       ELSE /\ cnt' = [cnt EXCEPT ![t] = @ + 1]
            /\ pc'  = [pc EXCEPT ![t] = IF cnt[t] + 1 < MaxIter
                                        THEN entry ELSE "blocked"]
    /\ UNCHANGED <<ip, ret>>

\* __VERIFIER_assume(cond) in place of a spin on cond: t goes on if cond holds
\* when it looks, and is abandoned if not.  With MaxIter = 0 it is the spin.
Assume(t, cond, label) ==
    IF cond THEN Goto(t, label)
    ELSE IF MaxIter = 0 THEN UNCHANGED clientVars
    ELSE Goto(t, "blocked")

Finished(t) == ~InCall(t) /\ ip[t] = Len(Script[t])

\* No thread has anything left to do: each has made its calls, or is stopped
\* by an assume ("blocked") or a failed assertion ("assert").
Quiescent ==
    \A t \in Threads : pc[t] \in {"blocked", "assert"} \/ Finished(t)

\* A thread at an access of an enqueue (in E) or of a dequeue (in D) is in a call
\* of that kind.
InCallOf(E, D) ==
    \A t \in Threads :
        /\ pc[t] \in E => Current(t).kind = "enq"
        /\ pc[t] \in D => Current(t).kind = "deq"

ClientTypeOK(Labels) ==
    /\ ip  \in [Threads -> Nat]
    /\ \A t \in Threads : ip[t] <= Len(Script[t]) /\ (InCall(t) => ip[t] >= 1)
    /\ pc  \in [Threads -> Labels \cup {"idle", "blocked", "assert"}]
    /\ cnt \in [Threads -> Nat]
    /\ ret \in [Threads -> Results]
=============================================================================

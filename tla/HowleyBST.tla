------------------------------ MODULE HowleyBST ------------------------------
(***************************************************************************)
(* wrappers/howley/bst_howley.c: the set as an internal binary search tree *)
(* of Howley and Jones.  Every node has an op field, a pointer to the      *)
(* record of the last operation on the node with a flag in its low bits:   *)
(*   "none"      nothing is going on (the pointer only serves as a stamp)  *)
(*   "childcas"  a child pointer of the node is being replaced             *)
(*   "relocate"  a key is being moved from a node to one above it          *)
(*   "mark"      the node has been removed and is to be cut out            *)
(* Whoever sets a flag owns the node; whoever meets one finishes what it   *)
(* says before it goes on.  A node with two children is removed by moving  *)
(* the next larger key into it and cutting out the node that had it.       *)
(*                                                                         *)
(* There are three builds of the same code, with other memory orders:      *)
(* bst_howley_seq.c, only seq_cst, is "SEQ" here; bst_howley_opt.c is      *)
(* "OPT"; bst_howley.c is weaker still.  Every access is one step in the   *)
(* memory of C11, with the order it has in the build.  An operation record *)
(* is named when it is published, a node after the call that made it, and  *)
(* so is the block w_add allocates for the value.                          *)
(***************************************************************************)
EXTENDS C11, Integers

CONSTANTS
    KeyNum,    \* KeyNum[v]: the key of the value named v
    MaxFind,   \* MaxFind[b]: MAX_FIND in the build b; 0: the loop is unbounded
    MaxCalls,  \* the longest script
    Mains,     \* the sets of threads that main creates, one for each test
    Flags      \* the pairs <<u, t>> of threads where t waits for the flag of u

ASSUME KeysAssumption == KeyNum \in [Vals -> Nat \ {0}]
ASSUME BoundsAssumption ==
    /\ Threads \subseteq Nat /\ MaxFind \in [Builds -> Nat]
    /\ MaxCalls \in Nat /\ \A t \in Threads : Len(Script[t]) <= MaxCalls

VARIABLES
    ops,    \* the operation records published, in order, but for their state
    freed,  \* freed[v]: how often the block of the value v has been freed
    loc     \* loc[t]: the locals of the call t is in

vars == <<ip, pc, cnt, ret, build, mem, view, scView, after, ops, freed, loc>>

\* FLAG(op, flag); the record with number 0 is the null pointer.  What is done
\* leaves its record behind as a stamp.
Flag(id, flag) == [id |-> id, flag |-> flag]
NoOp == Flag(0, "none")

\* A child field holds 0 for NULL, a node, or SETNULL of a node, -n here.
Root == 1
MadeBy(t, i) == 1 + t * MaxCalls + i
Nodes == {Root} \cup
    UNION {{MadeBy(t, i) : i \in {j \in 1 .. Len(Script[t]) : Script[t][j].kind = "add"}} :
           t \in Threads}
IsNull(ref) == ref <= 0

\* Slips the run must notice: nobody looks whether a key has moved up; the node
\* a key was moved from is not removed; its value is not moved with the key.
RightNotCheckedBug(l, op) == FALSE
SourceStaysBug(seen) == "none"
ValueStaysBug(op) == op.removeValue

SetNull(n) == -n
Done(id) == Flag(id, "none")

\* What help_relocate puts in place of the removed value.
MovedValue(op) == op.replaceValue

\* The locations of a node and of a record, and what new_node stores.
Field(n, f) == <<f, n>>
State(id) == <<"state", id>>
NodeBlock(n) == <<"node", n>>
RecordBlock(id) == <<"record", id>>
NewNode(n, k, v) ==
    (Field(n, "key") :> k) @@ (Field(n, "value") :> v) @@ (Field(n, "op") :> NoOp)
        @@ (Field(n, "left") :> 0) @@ (Field(n, "right") :> 0)

\* NOT_FOUND_L, NOT_FOUND_R, ABORT; a value is a pointer and no such number.
NotFoundL == -1
NotFoundR == -2
Abort == -3
IsValue(res) == res > 0

NoLocals == [
    aux |-> Root, find |-> 0,                     \* of find
    pred |-> 0, predOp |-> NoOp, curr |-> 0, currOp |-> NoOp, next |-> 0,
    lastRight |-> 0, lastRightOp |-> NoOp, result |-> 0,
    old |-> 0,                                    \* of add
    victim |-> 0, victimOp |-> NoOp, val |-> 0,   \* of remove
    key |-> 0, value |-> 0,
    id |-> 0, dest |-> 0, hpred |-> 0, hpredOp |-> NoOp, hcurr |-> 0,   \* of help
    seen |-> "none", ref |-> 0, left |-> FALSE, then |-> "none"]

FindLabels == {"f_root", "f_right", "f_op", "f_key", "f_left", "f_rchild",
               "f_value", "f_checkR", "f_checkC"}
AddLabels == {"a_old", "a_cas"}
RemoveLabels == {"r_right", "r_left", "r_mark", "r_check", "r_key", "r_value", "r_cas"}
HelpLabels == {"c_child", "c_op",
               "h_state", "h_dest", "h_succ", "h_fail", "h_key", "h_value", "h_dop", "h_curr",
               "m_left", "m_left2", "m_right", "m_right2", "m_side", "m_cas"}
Labels == FindLabels \cup AddLabels \cup RemoveLabels \cup HelpLabels

\* A thread that main does not create has nothing left to do.
Init ==
    /\ ip \in {[t \in Threads |-> IF t \in ts THEN 0 ELSE Len(Script[t])] : ts \in Mains}
    /\ pc = [t \in Threads |-> "idle"]
    /\ cnt = [t \in Threads |-> 0]
    /\ ret = [t \in Threads |-> NoRet]
    /\ MemInit(NewNode(Root, 0, 0))
    /\ ops = << >>
    /\ freed = [n \in Nodes |-> 0]
    /\ loc = [t \in Threads |-> NoLocals]

-----------------------------------------------------------------------------
\* The memory orders of the accesses of bst_howley_opt.c by their labels.  In the
\* build "SEQ" the program interleaves, whatever they say.
OptFind ==
    [f_root |-> "acquire", f_right |-> "acquire", f_op |-> "acquire", f_key |-> "acquire",
     f_left |-> "acquire", f_rchild |-> "acquire", f_value |-> "acquire",
     f_checkR |-> "relaxed", f_checkC |-> "seq_cst"]
OptAdd == [a_old |-> "relaxed", a_cas |-> "release"]
OptHelpChild == [c_child |-> "release", c_op |-> "release"]
OptRemove ==
    [r_right |-> "relaxed", r_left |-> "relaxed", r_mark |-> "seq_cst",
     r_check |-> "relaxed", r_key |-> "relaxed", r_value |-> "relaxed", r_cas |-> "release"]
OptRelocate ==
    [h_state |-> "relaxed", h_dest |-> "release", h_succ |-> "relaxed", h_fail |-> "relaxed",
     h_key |-> "release", h_value |-> "relaxed", h_dop |-> "release", h_curr |-> "release"]
OptMarked ==
    [m_left |-> "relaxed", m_left2 |-> "relaxed", m_right |-> "relaxed",
     m_right2 |-> "relaxed", m_side |-> "relaxed", m_cas |-> "release"]
OptOrder == OptFind @@ OptAdd @@ OptHelpChild @@ OptRemove @@ OptRelocate @@ OptMarked

\* A slip the run must notice: the orders of bst_howley.c, which are relaxed at
\* these accesses.
Weakened == {"f_key", "f_value", "f_checkC", "c_op", "r_mark", "r_cas",
             "h_dest", "h_key", "h_dop", "h_curr"}
DefaultOrderBug(label) == IF label \in Weakened THEN "relaxed" ELSE OptOrder[label]

Order(label) == OptOrder[label]

\* The order of a compare-and-swap that fails.
LostOrder(label) == IF Order(label) = "release" THEN "acquire" ELSE Order(label)

SetLocal(t, l) == loc' = [loc EXCEPT ![t] = l]

\* t goes on to label with the locals l; nothing else than memory changes.
Step(t, label, l) ==
    Goto(t, label) /\ SetLocal(t, l) /\ UNCHANGED <<ops, freed>>

Key(t) == KeyNum[Current(t).val]
NodeMade(t) == MadeBy(t, ip[t])
NewId == Len(ops) + 1

\* The possible effects of an access by t, in the order it has in the build.
LoadOf(t, x) == Load(t, x, Order(pc[t]))

\* A slip: a store in place of the compare-and-swap.
BlindStoreBug(t, x, expected, new, own) ==
    {[won |-> TRUE, val |-> expected, to |-> e.to] : e \in Store(t, x, new, Order(pc[t]))}

CasOf(t, x, expected, new, own) ==
    Cas(t, x, expected, new, own, Order(pc[t]), LostOrder(pc[t]))

\* The call ends.  w_remove frees the value removed.
Finish(t, r, values) ==
    /\ Return(t, r)
    /\ SetLocal(t, NoLocals)
    /\ freed' = [v \in Nodes |-> IF v \in values THEN freed[v] + 1 ELSE freed[v]]

\* The head of a turn of the loop of add or remove, which calls find.
NextTurn(t) == Retry(t, "f_root") /\ SetLocal(t, [NoLocals EXCEPT !.find = 1]) /\ UNCHANGED freed

\* What find still knows after its search is given up.
Kept(l) ==
    [NoLocals EXCEPT !.aux = l.aux, !.find = l.find, !.pred = l.pred, !.predOp = l.predOp,
                     !.victim = l.victim, !.victimOp = l.victimOp, !.val = l.val]

\* retry of find, with the locals l.
FindRetryWith(t, l) ==
    LET max == MaxFind[build]
        n == IF max = 0 THEN 0 ELSE l.find + 1
        goesOn == max = 0 \/ n < max
    IN  /\ Goto(t, IF goesOn THEN "f_root" ELSE "blocked")
        /\ SetLocal(t, [Kept(l) EXCEPT !.find = n])
        /\ UNCHANGED freed

-----------------------------------------------------------------------------
\* The node add makes, once, for the key: it belongs to t until it is published.
WithNode(t, e) ==
    LET n == NodeMade(t)
    IN  IF Field(n, "key") \in DOMAIN e.to.mem THEN e
        ELSE [to |-> [e.to EXCEPT
                 !.mem = MemOf(NewNode(n, Key(t), n)) @@ @,
                 !.view = [@ EXCEPT ![t] = Join(@, Filled(NodeBlock(n)))]]]

\* The caller of find gets its result, after the last load, e.  A second find,
\* below the node to remove, leaves what it finds in curr, for replace.
Found(t, l, res, e) ==
    LET kind == Current(t).kind
    IN  IF kind = "add" /\ ~IsValue(res)
        THEN Does(WithNode(t, e)) /\ Step(t, "a_old", [l EXCEPT !.result = res])
        ELSE /\ Does(e)
             /\ IF kind # "remove" \/ (l.aux = Root /\ ~IsValue(res))
                THEN Finish(t, IF kind = "in" /\ IsValue(res) THEN Yes ELSE No, {})
                     /\ UNCHANGED ops
                ELSE IF l.aux = Root
                THEN Step(t, "r_right", [l EXCEPT !.victim = l.curr, !.victimOp = l.currOp,
                                                  !.val = res])
                ELSE IF res = Abort THEN NextTurn(t) /\ UNCHANGED ops
                ELSE Step(t, "r_check", l)

CallIn(t) ==
    /\ Invoke(t, "in", "f_root")
    /\ SetLocal(t, [NoLocals EXCEPT !.find = 1])
    /\ UNCHANGED <<ops, freed>>

CallAdd(t) ==
    /\ Invoke(t, "add", "f_root")
    /\ SetLocal(t, [NoLocals EXCEPT !.find = 1])
    /\ UNCHANGED <<ops, freed>>

CallRemove(t) ==
    /\ Invoke(t, "remove", "f_root")
    /\ SetLocal(t, [NoLocals EXCEPT !.find = 1])
    /\ UNCHANGED <<ops, freed>>

FindRoot(t) ==
    /\ pc[t] = "f_root"
    /\ \E e \in LoadOf(t, Field(loc[t].aux, "op")) :
          LET op == e.val
              l == [loc[t] EXCEPT !.curr = loc[t].aux, !.currOp = op, !.result = NotFoundR]
          IN  IF op.flag # "none" /\ l.aux # Root THEN Found(t, l, Abort, e)
              ELSE /\ Does(e)
                   /\ IF op.flag = "none" THEN Step(t, "f_right", l)
                      ELSE Step(t, "c_child", [Kept(l) EXCEPT !.id = op.id, !.dest = Root,
                                                              !.then = "retry"])

\* A child field is read: its node is visited next, or the search ends there.
Visit(t, l, ref) ==
    IF IsNull(ref) THEN Step(t, "f_checkR", l)
    ELSE Step(t, "f_op", [l EXCEPT !.next = ref])

GoRight(t) ==
    LET l == loc[t]
    IN  \E e \in LoadOf(t, Field(l.curr, "right")) :
            /\ Does(e)
            /\ Visit(t, [l EXCEPT !.lastRight = l.curr, !.lastRightOp = l.currOp], e.val)

FindRight(t) ==
    /\ pc[t] = "f_right"
    /\ GoRight(t)

\* help: which of the three operations t finishes is in the flag it met.
HelpLabel(flag) ==
    CASE flag = "childcas" -> "c_child"
      [] flag = "relocate" -> "h_state"
      [] flag = "mark"     -> "m_left"

FindOp(t) ==
    /\ pc[t] = "f_op"
    /\ \E e \in LoadOf(t, Field(loc[t].next, "op")) :
          LET op == e.val
              l == loc[t]
              here == [l EXCEPT !.pred = l.curr, !.predOp = l.currOp, !.curr = l.next,
                                !.currOp = op, !.next = 0]
          IN  /\ Does(e)
              /\ IF op.flag = "none" THEN Step(t, "f_key", here)
                 ELSE Step(t, HelpLabel(op.flag),
                           [Kept(here) EXCEPT !.id = op.id, !.dest = here.curr,
                                              !.hpred = here.pred, !.hpredOp = here.predOp,
                                              !.hcurr = here.curr, !.then = "retry"])

FindKey(t) ==
    /\ pc[t] = "f_key"
    /\ LET l == loc[t]
       IN  \E e \in LoadOf(t, Field(l.curr, "key")) :
              /\ Does(e)
              /\ IF Key(t) < e.val THEN Step(t, "f_left", [l EXCEPT !.result = NotFoundL])
                 ELSE IF Key(t) > e.val
                 THEN Step(t, "f_rchild", [l EXCEPT !.result = NotFoundR])
                 ELSE Step(t, "f_value", l)

FindLeftChild(t) ==
    /\ pc[t] = "f_left"
    /\ \E e \in LoadOf(t, Field(loc[t].curr, "left")) : Does(e) /\ Visit(t, loc[t], e.val)

FindRightChild(t) ==
    /\ pc[t] = "f_rchild"
    /\ GoRight(t)

FindValue(t) ==
    /\ pc[t] = "f_value"
    /\ \E e \in LoadOf(t, Field(loc[t].curr, "value")) :
          Does(e) /\ Step(t, "f_checkC", [loc[t] EXCEPT !.result = e.val])

LastRightMoved(l, op) == op # l.lastRightOp

\* The key is not in the tree if nothing has moved past the last node where
\* the search went right.
FindCheckRight(t) ==
    /\ pc[t] = "f_checkR"
    /\ LET l == loc[t]
       IN  \E e \in LoadOf(t, Field(l.lastRight, "op")) :
              /\ Does(e)
              /\ IF LastRightMoved(l, e.val) THEN FindRetryWith(t, l) /\ UNCHANGED ops
                 ELSE Step(t, "f_checkC", l)

FindCheckCurr(t) ==
    /\ pc[t] = "f_checkC"
    /\ LET l == loc[t]
       IN  \E e \in LoadOf(t, Field(l.curr, "op")) :
              IF e.val # l.currOp THEN Does(e) /\ FindRetryWith(t, l) /\ UNCHANGED ops
              ELSE Found(t, l, l.result, e)

-----------------------------------------------------------------------------
\* The state of a record of help_relocate is its only field that changes.
WithRecord(e, rec) ==
    IF rec.kind # "relocate" THEN e
    ELSE [to |-> [e.to EXCEPT !.mem = MemOf(State(NewId) :> "ongoing") @@ @]]

\* A compare-and-swap on the op field of n, from expected to new, where new
\* publishes the record rec; then is what happens if it succeeds and
\* otherwise if it does not.
PublishOp(t, n, expected, flag, rec, then, otherwise) ==
    \E e \in CasOf(t, Field(n, "op"), expected, Flag(NewId, flag), Filled(RecordBlock(NewId))) :
        /\ IF e.won
           THEN Does(WithRecord(e, rec)) /\ ops' = Append(ops, rec) /\ then
           ELSE Does(e) /\ otherwise /\ UNCHANGED ops

ChildCas(left, expected, update) ==
    [kind |-> "childcas", left |-> left, expected |-> expected, update |-> update]

AddLoadChild(t) ==
    /\ pc[t] = "a_old"
    /\ LET l == loc[t]
       IN  \E e \in LoadOf(t, Field(l.curr, IF l.result = NotFoundL THEN "left" ELSE "right")) :
              Does(e) /\ Step(t, "a_cas", [l EXCEPT !.old = e.val])

AddCas(t) ==
    /\ pc[t] = "a_cas"
    /\ LET l == loc[t]
       IN  PublishOp(t, l.curr, l.currOp, "childcas",
                     ChildCas(l.result = NotFoundL, l.old, NodeMade(t)),
                     /\ Goto(t, "c_child")
                     /\ SetLocal(t, [NoLocals EXCEPT !.id = NewId, !.dest = l.curr,
                                                     !.then = "added"])
                     /\ UNCHANGED freed,
                     NextTurn(t))

-----------------------------------------------------------------------------
\* What the thread that has helped, or that finishes its own operation, does
\* next: result is what help_relocate returns.
Continue(t, result) ==
    LET l == loc[t]
    IN  CASE l.then = "retry" -> FindRetryWith(t, l)
          [] l.then = "added" -> Finish(t, Yes, {})
          [] l.then = "removed" -> Finish(t, Yes, {l.val})
          [] l.then = "relocated" ->
                IF result THEN Finish(t, Yes, {l.val}) ELSE NextTurn(t)

\* help_child_cas(id, dest): the child pointer, then the flag.
HelpChild(t) ==
    /\ pc[t] = "c_child"
    /\ LET op == ops[loc[t].id]
           child == Field(loc[t].dest, IF op.left THEN "left" ELSE "right")
       IN  \E e \in CasOf(t, child, op.expected, op.update, Nothing) : Does(e)
    /\ Goto(t, "c_op")
    /\ UNCHANGED <<ops, freed, loc>>

HelpChildOp(t) ==
    /\ pc[t] = "c_op"
    /\ LET l == loc[t]
       IN  \E e \in CasOf(t, Field(l.dest, "op"), Flag(l.id, "childcas"), Done(l.id), Nothing) :
              Does(e)
    /\ Continue(t, TRUE)
    /\ UNCHANGED ops

\* help_marked(hpred, hpredOp, hcurr): the one child, or a null pointer of its
\* own, takes the place of the node.
MarkedLoadLeft(t) ==
    /\ pc[t] = "m_left"
    /\ \E e \in LoadOf(t, Field(loc[t].hcurr, "left")) :
          Does(e) /\ Step(t, IF IsNull(e.val) THEN "m_right" ELSE "m_left2", loc[t])

MarkedLoadRight(t) ==
    /\ pc[t] = "m_right"
    /\ LET l == loc[t]
       IN  \E e \in LoadOf(t, Field(l.hcurr, "right")) :
              /\ Does(e)
              /\ IF IsNull(e.val) THEN Step(t, "m_side", [l EXCEPT !.ref = SetNull(l.hcurr)])
                 ELSE Step(t, "m_right2", l)

MarkedTakeLeft(t) ==
    /\ pc[t] = "m_left2"
    /\ \E e \in LoadOf(t, Field(loc[t].hcurr, "left")) :
          Does(e) /\ Step(t, "m_side", [loc[t] EXCEPT !.ref = e.val])

MarkedTakeRight(t) ==
    /\ pc[t] = "m_right2"
    /\ \E e \in LoadOf(t, Field(loc[t].hcurr, "right")) :
          Does(e) /\ Step(t, "m_side", [loc[t] EXCEPT !.ref = e.val])

MarkedLoadSide(t) ==
    /\ pc[t] = "m_side"
    /\ \E e \in LoadOf(t, Field(loc[t].hpred, "left")) :
          Does(e) /\ Step(t, "m_cas", [loc[t] EXCEPT !.left = (e.val = loc[t].hcurr)])

MarkedCas(t) ==
    /\ pc[t] = "m_cas"
    /\ LET l == loc[t]
       IN  PublishOp(t, l.hpred, l.hpredOp, "childcas", ChildCas(l.left, l.hcurr, l.ref),
                     /\ Goto(t, "c_child")
                     /\ SetLocal(t, [l EXCEPT !.id = NewId, !.dest = l.hpred])
                     /\ UNCHANGED freed,
                     Continue(t, TRUE))

-----------------------------------------------------------------------------
\* help_relocate(id, hpred, hpredOp, hcurr).  seen is seen_state.  After the
\* part that needs a successful state, a helper that came by dest is done; one
\* that came by the node the key is moved from releases or removes that node.
AfterState(t, l) ==
    IF ops[l.id].dest = l.hcurr THEN Continue(t, l.seen = "successful")
    ELSE Goto(t, "h_curr") /\ SetLocal(t, l) /\ UNCHANGED freed

RelocLoadState(t) ==
    /\ pc[t] = "h_state"
    /\ \E e \in LoadOf(t, State(loc[t].id)) :
          LET l == [loc[t] EXCEPT !.seen = e.val]
          IN  /\ Does(e)
              /\ CASE l.seen = "ongoing" -> Step(t, "h_dest", l)
                   [] l.seen = "successful" -> Step(t, "h_key", l)
                   [] l.seen = "failed" -> AfterState(t, l) /\ UNCHANGED ops

RelocTakeDest(t) ==
    /\ pc[t] = "h_dest"
    /\ LET id == loc[t].id
           op == ops[id]
           taken == Flag(id, "relocate")
       IN  \E e \in CasOf(t, Field(op.dest, "op"), op.destOp, taken, Nothing) :
              /\ Does(e)
              /\ Goto(t, IF e.val \in {op.destOp, taken} THEN "h_succ" ELSE "h_fail")
    /\ UNCHANGED <<ops, freed, loc>>

RelocSucceed(t) ==
    /\ pc[t] = "h_succ"
    /\ \E e \in CasOf(t, State(loc[t].id), "ongoing", "successful", Nothing) : Does(e)
    /\ Step(t, "h_key", [loc[t] EXCEPT !.seen = "successful"])

RelocFail(t) ==
    /\ pc[t] = "h_fail"
    /\ \E e \in CasOf(t, State(loc[t].id), "ongoing", "failed", Nothing) :
          LET l == [loc[t] EXCEPT !.seen = e.val]
          IN  /\ Does(e)
              /\ IF l.seen = "successful" THEN Step(t, "h_key", l)
                 ELSE AfterState(t, l) /\ UNCHANGED ops

RelocMoveKey(t) ==
    /\ pc[t] = "h_key"
    /\ LET op == ops[loc[t].id]
       IN  \E e \in CasOf(t, Field(op.dest, "key"), op.removeKey, op.replaceKey, Nothing) : Does(e)
    /\ Goto(t, "h_value")
    /\ UNCHANGED <<ops, freed, loc>>

RelocMoveValue(t) ==
    /\ pc[t] = "h_value"
    /\ LET op == ops[loc[t].id]
       IN  \E e \in CasOf(t, Field(op.dest, "value"), op.removeValue, MovedValue(op), Nothing) : Does(e)
    /\ Goto(t, "h_dop")
    /\ UNCHANGED <<ops, freed, loc>>

RelocFreeDest(t) ==
    /\ pc[t] = "h_dop"
    /\ LET id == loc[t].id
       IN  \E e \in CasOf(t, Field(ops[id].dest, "op"), Flag(id, "relocate"), Done(id), Nothing) :
              Does(e)
    /\ AfterState(t, loc[t])
    /\ UNCHANGED ops

\* The flag of the node the key was moved from: it is to go if the move is made.
SourceFlag(seen) == IF seen = "successful" THEN "mark" ELSE "none"

\* The node the key was moved from is marked, and cut out; or is free again.
RelocMarkCurr(t) ==
    /\ pc[t] = "h_curr"
    /\ LET l == loc[t]
           done == Flag(l.id, SourceFlag(l.seen))
       IN  /\ \E e \in CasOf(t, Field(l.hcurr, "op"), Flag(l.id, "relocate"), done, Nothing) :
                 Does(e)
           /\ IF l.seen # "successful" THEN Continue(t, FALSE) /\ UNCHANGED ops
              ELSE Step(t, "m_left", IF ops[l.id].dest = l.hpred
                                     THEN [l EXCEPT !.hpredOp = Done(l.id)] ELSE l)

-----------------------------------------------------------------------------
\* remove, after its first find: a node with at most one child is marked and
\* cut out.
RemoveLoadRight(t) ==
    /\ pc[t] = "r_right"
    /\ \E e \in LoadOf(t, Field(loc[t].victim, "right")) :
          Does(e) /\ Step(t, IF IsNull(e.val) THEN "r_mark" ELSE "r_left", loc[t])

RemoveLoadLeft(t) ==
    /\ pc[t] = "r_left"
    /\ LET l == loc[t]
       IN  \E e \in LoadOf(t, Field(l.victim, "left")) :
              /\ Does(e)
              /\ IF IsNull(e.val) THEN Step(t, "r_mark", l)
                 ELSE Step(t, "f_root", [Kept(l) EXCEPT !.aux = l.victim, !.find = 1])

RemoveMark(t) ==
    /\ pc[t] = "r_mark"
    /\ LET l == loc[t]
       IN  \E e \in CasOf(t, Field(l.victim, "op"), l.victimOp,
                          Flag(l.victimOp.id, "mark"), Nothing) :
              /\ Does(e)
              /\ IF e.won
                 THEN Step(t, "m_left", [Kept(l) EXCEPT !.hpred = l.pred, !.hpredOp = l.predOp,
                                                        !.hcurr = l.victim, !.then = "removed"])
                 ELSE NextTurn(t) /\ UNCHANGED ops

\* A node with two children gets the key of the node found by a second find:
\* the leftmost of its right subtree.
RemoveCheck(t) ==
    /\ pc[t] = "r_check"
    /\ LET l == loc[t]
       IN  \E e \in LoadOf(t, Field(l.victim, "op")) :
              /\ Does(e)
              /\ IF e.val # l.victimOp THEN NextTurn(t) /\ UNCHANGED ops
                 ELSE Step(t, "r_key", [Kept(l) EXCEPT !.curr = l.curr, !.currOp = l.currOp])

RemoveLoadKey(t) ==
    /\ pc[t] = "r_key"
    /\ \E e \in LoadOf(t, Field(loc[t].curr, "key")) :
          Does(e) /\ Step(t, "r_value", [loc[t] EXCEPT !.key = e.val])

RemoveLoadValue(t) ==
    /\ pc[t] = "r_value"
    /\ \E e \in LoadOf(t, Field(loc[t].curr, "value")) :
          Does(e) /\ Step(t, "r_cas", [loc[t] EXCEPT !.value = e.val])

RemoveRelocate(t) ==
    /\ pc[t] = "r_cas"
    /\ LET l == loc[t]
           rec == [kind |-> "relocate", dest |-> l.victim, destOp |-> l.victimOp,
                   removeKey |-> Key(t), removeValue |-> l.val,
                   replaceKey |-> l.key, replaceValue |-> l.value]
       IN  PublishOp(t, l.curr, l.currOp, "relocate", rec,
                     /\ Goto(t, "h_state")
                     /\ SetLocal(t, [Kept(l) EXCEPT !.id = NewId, !.hpred = l.pred,
                                        !.hpredOp = l.predOp, !.hcurr = l.curr,
                                        !.then = "relocated"])
                     /\ UNCHANGED freed,
                     NextTurn(t))

-----------------------------------------------------------------------------
\* A thread of a generated test starts its call when the flags it waits for
\* are set.
MayStart(t) == \A u \in Threads : <<u, t>> \in Flags => Finished(u)

CallStep(t) ==
    /\ MayStart(t)
    /\ CallIn(t) \/ CallAdd(t) \/ CallRemove(t)
    /\ Starts(t, {u \in Threads : <<u, t>> \in Flags}, Nothing)

FindStep(t) ==
    \/ FindRoot(t) \/ FindRight(t) \/ FindOp(t) \/ FindKey(t) \/ FindLeftChild(t)
    \/ FindRightChild(t) \/ FindValue(t) \/ FindCheckRight(t) \/ FindCheckCurr(t)

AddStep(t) == AddLoadChild(t) \/ AddCas(t)

HelpStep(t) ==
    \/ HelpChild(t) \/ HelpChildOp(t)
    \/ MarkedLoadLeft(t) \/ MarkedLoadRight(t) \/ MarkedTakeLeft(t) \/ MarkedTakeRight(t)
    \/ MarkedLoadSide(t) \/ MarkedCas(t)
    \/ RelocLoadState(t) \/ RelocTakeDest(t) \/ RelocSucceed(t) \/ RelocFail(t)
    \/ RelocMoveKey(t) \/ RelocMoveValue(t) \/ RelocFreeDest(t) \/ RelocMarkCurr(t)

RemoveStep(t) ==
    \/ RemoveLoadRight(t) \/ RemoveLoadLeft(t) \/ RemoveMark(t) \/ RemoveCheck(t)
    \/ RemoveLoadKey(t) \/ RemoveLoadValue(t) \/ RemoveRelocate(t)

ThreadStep(t) == CallStep(t) \/ FindStep(t) \/ AddStep(t) \/ HelpStep(t) \/ RemoveStep(t)

\* A failed assume ends the execution for all; in a weak build nothing is to
\* be learnt from the rest of it.
Abandoned == ~Interleaved /\ \E t \in Threads : pc[t] = "blocked"

Stopped(t) == pc[t] = "blocked" \/ Finished(t) \/ (~InCall(t) /\ ~MayStart(t))

Terminating == (Abandoned \/ \A t \in Threads : Stopped(t)) /\ UNCHANGED vars

Next == (~Abandoned /\ \E t \in Threads : ThreadStep(t)) \/ Terminating

Spec == Init /\ [][Next]_vars

-----------------------------------------------------------------------------
\* The newest values of the fields, and the nodes that have been made.
Now(n, f) == Newest(Field(n, f))
Made == {n \in Nodes : Field(n, "key") \in DOMAIN mem}
Refs == Nodes \cup {0} \cup {SetNull(n) : n \in Nodes}
OpWords == [id : 0 .. Len(ops), flag : {"none", "childcas", "relocate", "mark"}]

TypeOK ==
    /\ ClientTypeOK(Labels)
    /\ \A n \in Made : /\ Now(n, "key") \in Nat /\ Now(n, "value") \in {0} \cup Nodes
                       /\ Now(n, "op") \in OpWords
                       /\ Now(n, "left") \in Refs /\ Now(n, "right") \in Refs
    /\ freed \in [Nodes -> Nat]
    /\ \A i \in 1 .. Len(ops) : ops[i].kind = "relocate" =>
          Newest(State(i)) \in {"ongoing", "successful", "failed"}

\* Below[n]: the nodes of the subtree with n at its top.  go[i] has those at
\* most 2^i links away.
Below ==
    LET children == [n \in Made |-> {Now(n, "left"), Now(n, "right")} \cap Nodes]
        go[i \in Nat] ==
            IF i = 0 THEN [n \in Made |-> {n} \cup children[n]]
            ELSE LET near == go[i - 1]
                 IN  [n \in Made |-> UNION {near[m] : m \in near[n]}]
    IN  go[Cardinality(Made) \div 2]
InTree == Below[Root]

Leaving(n) == Now(n, "op").flag \in {"relocate", "mark"}

\* What is reached from the root is a tree: one way leads to each node.
Shape(nodes) ==
    \A n \in nodes :
        Cardinality({c \in nodes \X {"left", "right"} : Now(c[1], c[2]) = n})
            = IF n = Root THEN 0 ELSE 1

\* Keys are in search order.  Only a node whose key has just been moved up, and
\* that is to be cut out, may have the same key as a node above it.
Sorted(below) ==
    \A n \in below[Root] \ {Root} :
        LET key == Now(n, "key")
            Side(f) == IF IsNull(Now(n, f)) THEN {} ELSE below[Now(n, f)]
        IN  /\ \A m \in Side("left") : Now(m, "key") < key
            /\ \A m \in Side("right") : Now(m, "key") > key \/ (Now(m, "key") = key /\ Leaving(m))

\* At every step, in the middle of any number of removals and of the help that
\* other threads give, the nodes form a search tree.
TreeInv == TypeOK /\ LET below == Below IN Shape(below[Root]) /\ Sorted(below)

\* The block of a value is freed once, by the remove that took it out, and a
\* node that is to stay in the tree has a value that is not freed, although a
\* removal reads a value, moves it and marks its node in separate steps.
FreedOnce ==
    /\ \A v \in Nodes : freed[v] <= 1
    /\ \A n \in InTree \ {Root} : ~Leaving(n) => freed[Now(n, "value")] = 0

\* A marked node never changes and, once out of the tree, never comes back,
\* whatever threads with old pointers and old records still do.
RemovedForGood ==
    [][mem' # mem /\ \A n \in {m \in Made : Now(m, "op").flag = "mark"} :
            /\ \A f \in {"key", "value", "op", "left", "right"} : Now(n, f)' = Now(n, f)
            /\ n \in InTree' => n \in InTree]_mem

\* The nodes and records t has pointers to, and reads.
NodesHeld(l) ==
    {l.aux, l.pred, l.curr, l.next, l.lastRight, l.victim, l.dest, l.hpred, l.hcurr}
        \ {0, Root}

\* Whoever follows a pointer knows what its maker has stored in the block it
\* points to, by whatever chain of helpers the pointer has come.
PublishedFirst ==
    \A t \in Threads : InCall(t) =>
        /\ \A n \in NodesHeld(loc[t]) : Knows(t, NodeBlock(n))
        /\ loc[t].id # 0 => Knows(t, RecordBlock(loc[t].id))
=============================================================================

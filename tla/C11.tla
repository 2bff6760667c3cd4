--------------------------------- MODULE C11 ---------------------------------
(***************************************************************************)
(* The C11 atomics, as far as the wrappers that are compiled with weak     *)
(* orders use them, in an operational form.  mem[x] holds the writes to    *)
(* location x in modification order.  A thread has a view, the newest      *)
(* write of each location that it knows of; it may read that write or any  *)
(* newer one, and it writes after it.  A write carries a view: a release   *)
(* carries what its thread knows, a read-modify-write also what the write  *)
(* it read carries (the release sequence); an acquire takes it over.  This *)
(* gives the executions of RC11 without fences, except that a release      *)
(* sequence is not continued by plain stores (no wrapper modelled here     *)
(* stores twice to a location) and that a seq_cst load sees every seq_cst  *)
(* write that has been executed.                                           *)
(*                                                                         *)
(* In the build "SEQ" all accesses are seq_cst: the program interleaves,   *)
(* only the newest write of a location is kept, and views say nothing.     *)
(***************************************************************************)
EXTENDS Clients, SequencesExt, FiniteSetsExt, TLC

CONSTANTS
    Builds,   \* the builds of the wrapper that are explored
    WeakCAS   \* TRUE: compare_exchange_weak may fail spuriously

VARIABLES
    build,   \* the build that is run
    mem,     \* mem[x]: the writes to the location x
    view,    \* view[t]: the newest writes t knows of
    scView,  \* the newest seq_cst writes
    after    \* after[t]: the threads whose flags t read before its first call

memVars == <<build, mem, view, scView, after>>

Interleaved == build = "SEQ"

\* A view maps locations to places in mem; every thread knows the first write
\* of a location.  Two views, or many, are joined place by place.
Nothing == << >>
Place(v, x) == IF x \in DOMAIN v THEN v[x] ELSE 1
At(x, p) == [y \in {x} |-> p]
Put(w, x, p) == [y \in {x} \cup DOMAIN w |-> IF y = x THEN p ELSE w[y]]
Join(v, w) ==
    [x \in DOMAIN v \cup DOMAIN w |->
        IF Place(v, x) >= Place(w, x) THEN Place(v, x) ELSE Place(w, x)]
JoinAll(vs) ==
    [x \in UNION {DOMAIN v : v \in vs} |-> Max({Place(v, x) : v \in vs})]

FirstWrite(v) == <<[val |-> v, view |-> Nothing, rmw |-> FALSE]>>
MemOf(initial) == [x \in DOMAIN initial |-> FirstWrite(initial[x])]
Newest(x) == Last(mem[x]).val

\* initial maps each location to the value it starts with.
MemInit(initial) ==
    /\ build \in Builds
    /\ mem = MemOf(initial)
    /\ view = [t \in Threads |-> Nothing]
    /\ scView = Nothing
    /\ after = [t \in Threads |-> {}]

-----------------------------------------------------------------------------
Acquires(o) == o \in {"acquire", "seq_cst"}
Releases(o) == o \in {"release", "seq_cst"}

\* The writes that a load of x by t may read, by their places.
Readable(t, x, o) ==
    {i \in DOMAIN mem[x] :
        /\ i >= Place(view[t], x)
        /\ o = "seq_cst" => i >= Place(scView, x)}

\* A read-modify-write stays next to the write it read.
FreePlace(x, p) == p > Len(mem[x]) \/ ~mem[x][p].rmw

ViewAfterRead(t, x, i, o) ==
    LET seen == Join(view[t], At(x, i))
    IN  IF Interleaved THEN view[t]
        ELSE IF Acquires(o) THEN Join(seen, mem[x][i].view) ELSE seen

\* The view w when a write comes in at place p of x: what came after p, and
\* what w knows of it, moves up by one.
Moved(w, x, p) ==
    IF p <= Len(mem[x]) /\ Place(w, x) >= p THEN [w EXCEPT ![x] = @ + 1] ELSE w

\* The memory and the views after t, which knows what knows says, puts a write
\* of v at place p of x.
AddWrite(t, x, p, v, o, knows, carried, rmw) ==
    LET now == Put(Moved(knows, x, p), x, p)
        write == [val |-> v, rmw |-> rmw,
                  view |-> Join(Moved(carried, x, p), IF Releases(o) THEN now ELSE At(x, p))]
        moved == IF p > Len(mem[x]) THEN mem
                 ELSE [y \in DOMAIN mem |->
                          [i \in DOMAIN mem[y] |-> [mem[y][i] EXCEPT !.view = Moved(@, x, p)]]]
    IN  IF Interleaved
        THEN [mem |-> [mem EXCEPT ![x] = FirstWrite(v)], view |-> view, sc |-> scView]
        ELSE [mem |-> [moved EXCEPT ![x] = InsertAt(@, p, write)],
              view |-> [u \in Threads |-> IF u = t THEN now ELSE Moved(view[u], x, p)],
              sc |-> IF o = "seq_cst" THEN Put(Moved(scView, x, p), x, p)
                     ELSE Moved(scView, x, p)]

-----------------------------------------------------------------------------
\* The accesses.  Each is the set of its possible effects: the value read, for
\* a compare-and-swap whether it won, and what it does to mem and view.
Load(t, x, o) ==
    {[val |-> mem[x][i].val,
      to |-> [mem |-> mem, view |-> [view EXCEPT ![t] = ViewAfterRead(t, x, i, o)],
              sc |-> scView]] :
        i \in Readable(t, x, o)}

Store(t, x, v, o) ==
    {[to |-> AddWrite(t, x, i + 1, v, o, view[t], Nothing, FALSE)] :
        i \in {j \in Readable(t, x, o) : FreePlace(x, j + 1)}}

\* A read-modify-write that leaves new[v] where it reads v.
Update(t, x, new, o) ==
    {[val |-> mem[x][i].val,
      to |-> AddWrite(t, x, i + 1, new[mem[x][i].val], o,
                      ViewAfterRead(t, x, i, o), mem[x][i].view, TRUE)] :
        i \in {j \in Readable(t, x, o) : FreePlace(x, j + 1)}}

\* A compare-and-swap of the value expected for new, by a thread that has
\* also filled own; lost is the order of the load it is if it fails.
Cas(t, x, expected, new, own, o, lost) ==
    {[won |-> TRUE, val |-> expected,
      to |-> AddWrite(t, x, i + 1, new, o, Join(own, ViewAfterRead(t, x, i, o)),
                      mem[x][i].view, TRUE)] :
        i \in {j \in Readable(t, x, o) : mem[x][j].val = expected /\ FreePlace(x, j + 1)}}
    \cup {[won |-> FALSE] @@ e :
              e \in {l \in Load(t, x, lost) : l.val # expected \/ WeakCAS}}

Does(effect) ==
    /\ mem' = effect.to.mem
    /\ view' = effect.to.view
    /\ scView' = effect.to.sc
    /\ UNCHANGED <<build, after>>

\* A block of memory that t has filled before anyone else had a pointer to it.
Filled(block) == IF Interleaved THEN Nothing ELSE At(block, 2)
Knows(t, block) == Interleaved \/ Place(view[t], block) = 2

\* The flags of a test.  A thread sets its flag, a release, when its calls have
\* returned; before its first call t reads those of the threads ts, acquires,
\* and goes on if they are set.  own is what t has filled.
Starts(t, ts, own) ==
    /\ \A u \in ts : Finished(u)
    /\ after' = [after EXCEPT ![t] = @ \cup ts]
    /\ view' = [view EXCEPT ![t] = JoinAll({own, @} \cup {view[u] : u \in ts})]
    /\ UNCHANGED <<build, mem, scView>>
=============================================================================

---------------------------- MODULE MCHowleyBST ----------------------------
(* Constants of the HowleyBST runs; a thread is its number. *)
EXTENDS HowleyBSTLin

MCKeys == ("A" :> 10) @@ ("B" :> 20) @@ ("C" :> 30) @@ ("D" :> 40)

\* Thread 0 makes the tree with B at its top, A on its left, D on its right and
\* C below D.  Then one thread removes B, which moves C up, another removes
\* A, which may keep B from moving, and a third looks for C on its way.  Or
\* two threads remove a leaf each and look for the other one.
MCScript ==
    (0 :> <<WAdd("B"), WAdd("B"), WAdd("A"), WRemove("C"), WAdd("D"), WAdd("C")>>)
        @@ (1 :> <<WRemove("B")>>) @@ (2 :> <<WRemove("A")>>) @@ (3 :> <<WIn("C")>>)
        @@ (4 :> <<WRemove("A"), WIn("C")>>) @@ (5 :> <<WRemove("C"), WIn("A")>>)
MCThreads == 0 .. 5
MCFlags == {0} \X (1 .. 5)
MCMains == {0 .. 3, {0, 4, 5}}

MCFind == ("SEQ" :> 3) @@ ("OPT" :> 2)

\* Thread 0 makes the tree with C at its top, B and then A on its left and D on
\* its right.  Then one thread removes C, which moves D up, and looks for A,
\* and another removes A and looks for C.
MovedScript ==
    (0 :> <<WAdd("C"), WAdd("B"), WAdd("A"), WAdd("D")>>)
        @@ (1 :> <<WRemove("C"), WIn("A")>>) @@ (2 :> <<WRemove("A"), WIn("C")>>)
MovedThreads == 0 .. 2
MovedFlags == {0} \X (1 .. 2)
MovedMains == {MovedThreads}
MovedFind == "OPT" :> 2
=============================================================================

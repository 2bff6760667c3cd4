-------------------------------- MODULE Rings --------------------------------
(***************************************************************************)
(* What the wrappers with a ring of fixed size share (uniq-wrapper.h,      *)
(* chase-lev-wrapper.h, mpmc-queue-wrapper.h): tickets are counted up      *)
(* without end, or to the end of their type, and a ticket is for the slot  *)
(* of its number modulo the size of the ring.                              *)
(***************************************************************************)
EXTENDS Naturals

CONSTANT Size   \* MAX_SIZE, t_size

ASSUME SizeAssumption == Size \in Nat \ {0}

Slots == 0 .. Size - 1
Slot(p) == p % Size    \* the code masks the ticket where Size is a power of two
=============================================================================

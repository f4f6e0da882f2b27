------------------------------ MODULE MCInput ------------------------------
(* A tall primary and a small secondary to its right make an inner corner; *)
(* the outputs change order, overlap while they are moved one by one, swap *)
(* the primary, and leave.                                                 *)
EXTENDS Input

CONSTANT v1

Left(v)  == [x |-> 0, y |-> 0, w |-> 1, h |-> 2, view |-> v]
Right(v) == [x |-> 1, y |-> 1, w |-> 1, h |-> 1, view |-> v]
Over(v)  == [x |-> 0, y |-> 1, w |-> 1, h |-> 1, view |-> v]

MCLayouts == { <<Left(Implicit)>>, <<Left(Implicit), Right(v1)>>,
               <<Right(Implicit), Left(v1)>>, <<Over(v1), Left(Implicit)>>,
               <<Right(v1)>> }
(* On the primary, and past its far corner: on the other output or on none. *)
MCReports == {<<0, 0>>, <<1, 1>>}
MCDeltas == {<<1, 0>>, <<-1, -1>>, <<1, 1>>}
=============================================================================

--------------------------- MODULE MCSharedMemory ---------------------------
(* Instances of SharedMemory for TLC: stops in a long sequence of writes,  *)
(* readers beside a writer, and a ring of locks full of dead readers.      *)
EXTENDS SharedMemory

MCLimits == {[calls |-> 4, reads |-> 0, kills |-> 2],
             [calls |-> 1, reads |-> 2, kills |-> 0],
             [calls |-> 1, reads |-> 1, kills |-> 1],
             [calls |-> 0, reads |-> 3, kills |-> 1]}
=============================================================================

---------------------------- MODULE MCVvcStream ----------------------------
(* Small instances of VvcStream: pictures of two CTUs, coded without loss,  *)
(* in CTU slices, or in mixed P slices.                                     *)
EXTENDS VvcStream

InfiniteGop == -1

MCOptions ==
    {[lossless |-> TRUE, tolerance |-> 0, mixed |-> FALSE],
     [lossless |-> FALSE, tolerance |-> 1, mixed |-> FALSE],
     [lossless |-> FALSE, tolerance |-> 2, mixed |-> TRUE]}

MixedOnly == {o \in MCOptions : o.mixed}
=============================================================================

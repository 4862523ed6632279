------------------------------ MODULE MCLines -------------------------------
(* The second line for TLC: a read of a parameter. *)
EXTENDS Lines

ReadLine ==
    [line |-> [verb |-> "read", spec |-> <<"m", "p">>, data |-> Absent],
     width |-> 2, cr |-> TRUE]
=============================================================================

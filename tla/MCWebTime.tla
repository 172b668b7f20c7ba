----------------------------- MODULE MCWebTime -----------------------------
(***************************************************************************)
(* Answers at the start, in the middle and in the last hour of a day, with *)
(* hours of one and two digits before and after the shift.                 *)
(***************************************************************************)
EXTENDS WebTime

At(day, month, hour, minute, second) ==
    [year |-> 2017, month |-> month, day |-> day,
     hour |-> hour, minute |-> minute, second |-> second]

Times == {At(1, 1, 0, 0, 0), At(21, 1, 8, 5, 9), At(9, 10, 9, 59, 59),
          At(21, 1, 13, 42, 8), At(31, 12, 23, 30, 40)}
=============================================================================

-------------------------------- MODULE MCSaver -------------------------------
(***************************************************************************)
(* A day of two hours of eight units; a short day and a long night         *)
(* interval, no redraws at night, and an interval that divides neither the *)
(* hour nor the day.                                                       *)
(***************************************************************************)
EXTENDS Saver
MCProfiles ==
    {[day |-> 1, night |-> 8, from |-> 1, to |-> 0], [day |-> 4, night |-> 0, from |-> 0, to |-> 1],
     [day |-> 6, night |-> 6, from |-> 0, to |-> 0]}
=============================================================================

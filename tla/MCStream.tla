------------------------------ MODULE MCStream ------------------------------
(***************************************************************************)
(* A panel of two gate lines of two bytes: four bytes a plane, one at half *)
(* resolution.                                                             *)
(***************************************************************************)
EXTENDS VStream

MCSessions == {[half |-> FALSE, crc |-> TRUE], [half |-> TRUE, crc |-> FALSE]}

MCPictures == [half \in BOOLEAN |->
    IF half THEN {[bw |-> <<27>>, red |-> <<255>>], [bw |-> <<255>>, red |-> <<27>>]}
            ELSE {[bw |-> <<7, 7, 7, 9>>, red |-> <<7, 7, 7, 7>>],
                  [bw |-> <<7, 7, 7, 7>>, red |-> <<9, 7, 7, 7>>]}]
=============================================================================

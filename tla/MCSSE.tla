------------------------------- MODULE MCSSE --------------------------------
(* An instance of SSE for TLC.                                             *)
EXTENDS SSE, TLC

(* The first two requests share an id, the last two an address; that of    *)
(* the first is not known.                                                 *)
SmallIdOf == [s \in Streams |-> IF s = "s3" THEN "b" ELSE "a"]

SmallIpOf == [s \in Streams |-> IF s = "s1" THEN NoIp ELSE "y"]

(* The generated events have no id.                                       *)
SmallUnnamed == {Generated(s) : s \in Generating}

EventSymmetry == Permutations(Events)
=============================================================================

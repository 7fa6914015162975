---------------------------- MODULE MCExtensions ----------------------------
(* Small instances of the extensions. *)
EXTENDS Extensions

CONSTANTS Edited, Typed, Writes, Cuts, Fails, All

MCLimits == [edit |-> Edited, type |-> Typed, write |-> Writes, cut |-> Cuts,
             fail |-> Fails, all |-> All]

\* One extension that runs, and a free name.
MCSaved == {[n \in Names |-> IF n = "m" THEN Entry(blank, TRUE) ELSE none]}
=============================================================================

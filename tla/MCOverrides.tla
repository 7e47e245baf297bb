---------------------------- MODULE MCOverrides ----------------------------
(* Constants for the runs of Overrides. *)
EXTENDS Overrides, TLC

CONSTANTS r1, r2

TwoPools == {"linux", "gpu"}

(* The configuration file, before and after somebody lowers a maximum. *)
FileConf   == [linux |-> [min |-> 0, max |-> 3], gpu |-> [min |-> 1, max |-> 1]]
EditedConf == [FileConf EXCEPT !["linux"] = [min |-> 0, max |-> 1]]
BothConfs  == {FileConf, EditedConf}

(* The first two are each acceptable, and cross when both are made. *)
Change(p, lo, hi) == [pool |-> p, min |-> lo, max |-> hi]
ManyAsks == {Change("linux", 2, Unset), Change("linux", Unset, 1),
             Change("linux", 0, 0), Change("gpu", 0, Unset)}

RequestSymmetry == Permutations(Request)
============================================================================

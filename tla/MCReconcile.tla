---------------------------- MODULE MCReconcile ----------------------------
(* Constants for the runs of Reconcile. *)
EXTENDS Reconcile, TLC

CONSTANTS n1, n2, n3

SameRepo       == [j \in Job |-> "a"]
ConfMax        == [p \in Pool |-> Conf[p].max]
RunnerSymmetry == Permutations(Name)

(* One pool. *)
OnePool       == <<"linux">>
OnePoolLabels == [linux |-> {"linux"}]
OneJob        == <<{"linux"}>>
AllOfLinux    == [n \in Name |-> "linux"]
ColdMaxOne    == [p \in Pool |-> [min |-> 0, max |-> 1]]
WarmMaxOne    == [p \in Pool |-> [min |-> 1, max |-> 1]]
NoChoices     == [p \in Pool |-> {}]

(* A warm pool, beside one whose name begins the same and that stays empty, *)
(* as no job fits it.                                                      *)
TwoPools      == <<"linux", "linux-gpu">>
TwoPoolLabels == "linux" :> {"linux"} @@ "linux-gpu" :> {"linux", "gpu"}
GpuJobs       == <<{"gpu"}, {"self-hosted", "gpu"}>>
AllOfGpu      == [n \in Name |-> "linux-gpu"]
WarmMaxTwo    == "linux" :> [min |-> 0, max |-> 1] @@ "linux-gpu" :> [min |-> 1, max |-> 2]
LowerMax      == "linux" :> {} @@ "linux-gpu" :> {[min |-> Unset, max |-> 1]}
===========================================================================

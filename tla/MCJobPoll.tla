------------------------------ MODULE MCJobPoll ------------------------------
(* Two repositories with a run each: the first a matrix of a job for a hosted    *)
(* runner and one for ours, the second a single job.                             *)
EXTENDS JobPoll, TLC

CONSTANTS A, B

MCRepos == {A, B}
MCRuns == {1, 2}
MCRepoOf == 1 :> A @@ 2 :> B
MCJobs == {1, 2, 3}
MCRunOf == 1 :> 1 @@ 2 :> 1 @@ 3 :> 2
MCLabels == 1 :> {"ubuntu-latest"} @@ 2 :> {"self-hosted", "linux"} @@ 3 :> {"linux"}
MCImages == {"ubuntu-latest"}
MCAsks == {14400}
=============================================================================

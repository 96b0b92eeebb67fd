------------------------------ MODULE MCJobQueue ------------------------------
(***************************************************************************)
(* Constants of the model-checking runs of JobQueue.                       *)
(***************************************************************************)
EXTENDS JobQueue, TLC

CONSTANTS u1, u2

OneUrl == {u1}
TwoUrls == {u1, u2}
OnePriority == {0}
TwoPriorities == {0, 1}
ServerOnly == {"server"}
ServerAndCli == {"server", "cli"}
BothRoles == {"loop", "sync"}
LoopOnly == {"loop"}
SyncOnly == {"sync"}
UrlSymmetry == Permutations(TwoUrls)
=============================================================================

--------------------------- MODULE MCOfflineCache ---------------------------
(***************************************************************************)
(* Constants of the model-checking runs of OfflineCache.                   *)
(***************************************************************************)
EXTENDS OfflineCache

CONSTANTS a, b, l, main, kids

RemoteVideos == {a, b}
AllVideos == {a, b, l}
NoVideos == {}
OnlyA == {a}
OnlyLocal == {l}
OneProfile == {main}
TwoProfiles == {main, kids}
SameSize == [v \in Videos |-> 3]
LargeSize == [v \in Videos |-> 6]
SameDuration == [v \in Videos |-> 2]
MixedDuration == [v \in Videos |-> IF v = a THEN 1 ELSE IF v = b THEN 2 ELSE 0]
SameScore == [v \in Videos |-> 0]
HighScoreOfA == [v \in Videos |-> IF v = a THEN 1 ELSE 0]
=============================================================================

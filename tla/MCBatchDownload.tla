---------------------------- MODULE MCBatchDownload ----------------------------
(***************************************************************************)
(* Constants of the model-checking runs of BatchDownload.                  *)
(***************************************************************************)
EXTENDS BatchDownload

CONSTANTS u1, v1, v2

OneUrl == {u1}
OneVideo == {v1}
TwoVideos == {v1, v2}
OnePriority == {0}
ServerOnly == {"server"}
LoopOnly == {"loop"}
AsPlaylist == {"playlist"}
AsEitherFeed == {"playlist", "channel"}
AsVideoOrFeed == {"single", "playlist"}
=============================================================================

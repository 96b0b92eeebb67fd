----------------------------- MODULE MCEnrichment -----------------------------
(***************************************************************************)
(* Constants of the model-checking runs of Enrichment.                     *)
(***************************************************************************)
EXTENDS Enrichment

(* A day of five minutes: one window crosses midnight and one is a single   *)
(* minute, which leaves minutes 1 and 3 outside.                            *)
TwoWindows == <<[from |-> 4, to |-> 0], Garbled, [from |-> 2, to |-> 2]>>

Settings(forced, windows) == [forced |-> forced, windows |-> windows]

ThreeConfigs == {Settings(TRUE, <<>>), Settings(FALSE, TwoWindows), Settings(FALSE, <<Garbled>>)}
AlwaysOpen == {Settings(FALSE, <<>>)}
=============================================================================

-------------------------- MODULE MCImportOrganizer --------------------------
(***************************************************************************)
(* Constants of the model-checking runs of ImportOrganizer.                *)
(***************************************************************************)
EXTENDS ImportOrganizer

CONSTANTS m1, m2, a1, n, c1, c2

TwoMedia == {m1, m2}
OneArt == {a1}
OneName == {n}
SameName == [p \in Media |-> n]
ArtOfFirst == [p \in Media |-> IF p = m1 THEN Art ELSE {}]
TwoContents == {c1, c2}
FirstFiles == [f \in Media \cup Art |->
                 IF f = m1 THEN c1 ELSE IF f = m2 THEN None ELSE Picture]
OneCli == {"cli"}
=============================================================================

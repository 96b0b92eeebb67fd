------------------------------ MODULE MCProfiles ------------------------------
(***************************************************************************)
(* Constants of the model-checking run of Profiles.                        *)
(***************************************************************************)
EXTENDS Profiles

CONSTANTS v1, v2, A, B, tv, phone

TwoVideos == {v1, v2}
TwoChannels == {A, B}
OnePerChannel == [v \in TwoVideos |-> IF v = v1 THEN A ELSE B]
TwoClients == {tv, phone}

(* The clients may change places, and the videos together with their        *)
(* channels.                                                                *)
Swap(videos, clients) ==
  [x \in TwoVideos \cup TwoChannels \cup TwoClients |->
     CASE x = v1 -> (IF videos THEN v2 ELSE v1) [] x = v2 -> (IF videos THEN v1 ELSE v2)
       [] x = A -> (IF videos THEN B ELSE A)    [] x = B -> (IF videos THEN A ELSE B)
       [] x = tv -> (IF clients THEN phone ELSE tv)
       [] x = phone -> (IF clients THEN tv ELSE phone)]

Places == {Swap(videos, clients) : videos, clients \in BOOLEAN}
=============================================================================

----------------------------- MODULE JobLifecycle -----------------------------
(***************************************************************************)
(* What the download queue promises about each job, without tables, retry  *)
(* policy or processes: an accepted job waits, is worked on by one worker  *)
(* at a time, goes back to waiting when the attempt fails or is cut short, *)
(* and is settled once, for good. JobQueue implements it.                  *)
(***************************************************************************)
CONSTANT JobIds

VARIABLES
  phase,   \* the phase of each job
  held     \* the jobs a user holds back

Phases == {"absent", "waiting", "working", "done", "dead"}

Init ==
  /\ phase = [i \in JobIds |-> "absent"]
  /\ held = {}

In(ph) == {i \in JobIds : phase[i] = ph}
Move(S, ph) == phase' = [i \in JobIds |-> IF i \in S THEN ph ELSE phase[i]]

Accept(i) ==
  /\ i \in In("absent")
  /\ Move({i}, "waiting")
  /\ UNCHANGED held

Begin(S) ==
  /\ S # {}
  /\ S \subseteq In("waiting") \ held
  /\ Move(S, "working")
  /\ UNCHANGED held

Finish(i, ph) ==
  /\ i \in In("working")
  /\ Move({i}, ph)
  /\ UNCHANGED held

(* Failed attempts, and every attempt in progress when its worker goes away. *)
GiveBack(S) ==
  /\ S # {}
  /\ S \subseteq In("working")
  /\ Move(S, "waiting")
  /\ UNCHANGED held

Hold(i) ==
  /\ i \in In("waiting") \ held
  /\ held' = held \union {i}
  /\ UNCHANGED phase

Release(i) ==
  /\ i \in held
  /\ held' = held \ {i}
  /\ UNCHANGED phase

Next ==
  \/ \E i \in JobIds : Accept(i) \/ Hold(i) \/ Release(i)
  \/ \E S \in SUBSET JobIds : Begin(S) \/ GiveBack(S)
  \/ \E i \in JobIds, ph \in {"done", "dead"} : Finish(i, ph)

Spec == Init /\ [][Next]_<<phase, held>>

=============================================================================

------------------------------- MODULE IndexState -------------------------------
(***************************************************************************)
(* What an index service knows (bb-core/src/mft/state.rs, MftIndexState):  *)
(* which volumes have finished and which are still building, with the      *)
(* percentage each build last reported.  The helper's service and the      *)
(* app's mirror of it are both values of this shape.  A volume stands for  *)
(* its drive letter and its root key at once.                              *)
(***************************************************************************)
EXTENDS Integers

CONSTANTS Drives,       \* the NTFS volumes of the machine
          PercentSteps  \* bound: a build reports percentages 0..PercentSteps-1

ASSUME PercentAssumption == PercentSteps \in Nat

Off    == -2            \* not building
Unsaid == -1            \* building, no percentage reported yet
Percents == Unsaid..(PercentSteps - 1)

IndexStates == [completed : SUBSET Drives, building : [Drives -> Percents \union {Off}]]

Cleared == [completed |-> {}, building |-> [d \in Drives |-> Off]]

MarkBuilding(st, d) ==
    IF st.building[d] = Off THEN [st EXCEPT !.building[d] = Unsaid] ELSE st

\* A drive not building stays that way.
SetProgress(st, d, p) ==
    IF st.building[d] = Off THEN st ELSE [st EXCEPT !.building[d] = p]

ClearBuilding(st, d) == [st EXCEPT !.building[d] = Off]

MarkComplete(st, d) == [st EXCEPT !.completed = @ \union {d}]

\* What one message does to the mirror.
Mirrored(st, m) ==
    CASE m.verb = "Building" -> MarkBuilding(st, m.arg)
      [] m.verb = "Idle"     -> ClearBuilding(st, m.arg)
      [] m.verb = "Progress" -> SetProgress(st, m.arg[1], m.arg[2])
      [] m.verb = "Complete" -> MarkComplete(st, m.arg)
      [] OTHER               -> st
================================================================================

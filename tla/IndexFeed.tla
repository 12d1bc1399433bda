------------------------------- MODULE IndexFeed -------------------------------
(***************************************************************************)
(* What one helper process promises every app that attaches to it, stated  *)
(* without messages.  The helper builds each volume once; an app attached  *)
(* to it shows each build at most once, takes it down only when it is over, *)
(* shows a volume as finished only when it is, and in the end shows        *)
(* exactly what the helper knows.                                          *)
(***************************************************************************)
EXTENDS Naturals, FiniteSets

CONSTANT Drives

VARIABLES
    building,   \* volumes the helper is building
    begun,      \* volumes it has ever begun to build
    finished,   \* volumes it has indexed
    attached,   \* an app is attached
    shown,      \* volumes the app shows as building
    takenDown,  \* volumes it has shown and taken down again since it attached
    claimed     \* volumes it shows as indexed

helperVars == <<building, begun, finished>>
appVars    == <<attached, shown, takenDown, claimed>>
vars       == <<building, begun, finished, attached, shown, takenDown, claimed>>

Init ==
    /\ building = {} /\ begun = {} /\ finished = {}
    /\ attached = FALSE /\ shown = {} /\ takenDown = {} /\ claimed = {}

Begin(d) == /\ d \notin begun
            /\ building' = building \union {d} /\ begun' = begun \union {d}
            /\ UNCHANGED <<finished, appVars>>
Finish(d) == /\ d \in building /\ finished' = finished \union {d}
             /\ UNCHANGED <<building, begun, appVars>>
Over(d) == /\ d \in building /\ building' = building \ {d}
           /\ UNCHANGED <<begun, finished, appVars>>

Attach == /\ ~attached /\ attached' = TRUE
          /\ shown' = {} /\ takenDown' = {} /\ claimed' = {}
          /\ UNCHANGED helperVars
Detach == /\ attached /\ attached' = FALSE
          /\ shown' = {} /\ takenDown' = {} /\ claimed' = {}
          /\ UNCHANGED helperVars

Show(d) == /\ attached /\ d \in begun /\ d \notin shown \union takenDown
           /\ shown' = shown \union {d}
           /\ UNCHANGED <<helperVars, attached, takenDown, claimed>>
TakeDown(d) == /\ attached /\ d \in shown \ building
               /\ shown' = shown \ {d} /\ takenDown' = takenDown \union {d}
               /\ UNCHANGED <<helperVars, attached, claimed>>
Claim(d) == /\ attached /\ d \in finished \ claimed
            /\ claimed' = claimed \union {d}
            /\ UNCHANGED <<helperVars, attached, shown, takenDown>>

Next == \/ Attach \/ Detach
        \/ \E d \in Drives : \/ Begin(d) \/ Finish(d) \/ Over(d)
                             \/ Show(d) \/ TakeDown(d) \/ Claim(d)

\* What the helper and the app may do; nothing says yet that they do it.
Safety == Init /\ [][Next]_vars

\* An app that stays attached is told everything: a finished volume is claimed, and a
\* build that is over is taken down.
Fairness == \A d \in Drives : WF_vars(Claim(d)) /\ WF_vars(TakeDown(d))

Spec == Safety /\ Fairness
================================================================================

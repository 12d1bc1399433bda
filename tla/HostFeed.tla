-------------------------------- MODULE HostFeed --------------------------------
(***************************************************************************)
(* One helper process and the apps that come and go before it: IndexHelper *)
(* with an app reduced to its mirroring loop (IndexClient::converse).  It  *)
(* implements IndexFeed.                                                   *)
(***************************************************************************)
EXTENDS IndexHelper

VARIABLES
    stage,      \* the app: "away", "listening", "attached"
    view,       \* the app's mirror of the helper's MftIndexState
    takenDown,  \* history: drives shown as building and taken down in this session
    begun       \* history: volumes the process has ever begun to build

feedVars == <<helperVars, wireVars, stage, view, takenDown, begun>>
appVars  == <<stage, view, takenDown>>

Init == /\ WireInit /\ HelperInit
        /\ stage = "away" /\ view = Cleared /\ takenDown = {} /\ begun = {}

AppListen == /\ stage = "away" /\ stage' = "listening"
             /\ PostConnect
             /\ UNCHANGED <<helperVars, view, takenDown>>

AppAttach == /\ stage = "listening" /\ stage' = "attached"
             /\ TakeConnection
             /\ view' = Cleared /\ takenDown' = {}
             /\ UNCHANGED helperVars

AppRead == /\ stage = "attached" /\ toApp # <<>>
           /\ toApp' = Tail(toApp)
           /\ view' = Mirrored(view, Head(toApp))
           /\ takenDown' = IF Head(toApp).verb = "Idle"
                           THEN takenDown \union {Head(toApp).arg} ELSE takenDown
           /\ UNCHANGED <<helperVars, stage, conn, listening, peer, appEnd, helperEnd, toHelper, inbox>>

AppSpeak == /\ stage = "attached" /\ toHelper = <<>> /\ inbox = <<>>
            /\ \E p \in Policies : AppWrite(conn, <<Msg("Record", p)>>, Parked)
            /\ UNCHANGED <<helperVars, appVars>>

AppHangUp == /\ stage = "attached" /\ stage' = "away"
             /\ CloseStream(conn)
             /\ view' = Cleared /\ takenDown' = {}
             /\ UNCHANGED helperVars

HelperStart == StartProcess(1, AppVersion) /\ conn = 0 /\ UNCHANGED wireVars

HelperActs(A) == /\ A
                 /\ begun' = begun \union {d \in Drives : service'.building[d] # Off}
                 /\ UNCHANGED appVars

AppActs(A) == A /\ UNCHANGED begun

Next == \/ HelperActs(HelperStart) \/ HelperActs(ServeNext)
        \/ \E d \in Drives : HelperActs(VolumeNext(d))
        \/ AppActs(AppListen) \/ AppActs(AppAttach) \/ AppActs(AppRead)
        \/ AppActs(AppSpeak) \/ AppActs(AppHangUp)

Fairness == /\ WF_feedVars(HelperActs(ServeNext))
            /\ \A d \in Drives : WF_feedVars(HelperActs(VolumeNext(d)))
            /\ WF_feedVars(AppActs(AppRead))

Spec == Init /\ [][Next]_feedVars /\ Fairness

--------------------------------------------------------------------------------

Feed == INSTANCE IndexFeed WITH
    building  <- {d \in Drives : service.building[d] # Off},
    finished  <- service.completed,
    attached  <- stage = "attached",
    shown     <- {d \in Drives : view.building[d] # Off},
    claimed   <- view.completed

\* One helper process keeps the promise of IndexFeed to every app that attaches.
ImplementsFeed == Feed!Spec
================================================================================

------------------------------- MODULE IndexHelper -------------------------------
(***************************************************************************)
(* The elevated index helper: its process (bb-indexer/src/main.rs), the    *)
(* index service with one thread per volume (bb-core/src/mft/service.rs)   *)
(* and the host that tells one app after another what the service knows    *)
(* (bb-core/src/mft/host.rs).  At most one helper process lives at a time: *)
(* it holds the per-user presence lock from start to exit.                 *)
(***************************************************************************)
EXTENDS IndexWire, IndexState, SequencesExt

CONSTANT Versions       \* protocol versions a helper may have been built with

ASSUME HelperAssumption == IsFiniteSet(Drives) /\ AppVersion \in Versions

VARIABLES
    helper,      \* the live helper process, 0 for none
    version,     \* its protocol version
    phase,       \* where its serving thread is
    subscribed,  \* the host listens to the service
    replaying,   \* completed roots the greeting has still to send
    reported,    \* the host's reported_building
    service,     \* the service's MftIndexState
    volume,      \* where each volume thread is
    recorded,    \* the service's change_log
    lifetimeOver \* a self-check has cancelled the helper's lifetime

helperVars == <<helper, version, phase, subscribed, replaying, reported,
                service, volume, recorded, lifetimeOver>>

NobodyTold == [d \in Drives |-> Off]

InSession == {"begun", "subscribed", "greeted", "toldBuilding", "replaying", "reading"}
Phases == {"gone", "seeking", "exiting"} \union InSession

VolumePhases == {"starting", "opened", "building", "progressed", "completed",
                 "cleared", "idleTold", "tailing", "ending", "endCleared", "over"}

\* IndexHost::send, to whatever stream the session holds.  A closed one swallows it, and
\* a write into a full buffer blocks.
HostSend(msgs) ==
    /\ (phase \in InSession /\ appEnd) => Len(toApp) < MaxUnread
    /\ toApp' = IF phase \in InSession /\ appEnd THEN toApp \o msgs ELSE toApp

NoProcess ==
    /\ helper = 0 /\ version = AppVersion /\ phase = "gone"
    /\ subscribed = FALSE /\ replaying = {} /\ reported = NobodyTold
    /\ service = Cleared /\ volume = [d \in Drives |-> "over"]
    /\ recorded = OffPolicy /\ lifetimeOver = FALSE

HelperInit == NoProcess

\* A helper process comes up: it takes the presence lock, starts indexing and begins
\* to look for an app.  Indexing does not wait for one.
StartProcess(h, v) ==
    /\ helper = 0
    /\ helper' = h
    /\ version' = v
    /\ phase' = "seeking"
    /\ volume' = [d \in Drives |-> "starting"]
    /\ UNCHANGED <<subscribed, replaying, reported, service, recorded, lifetimeOver>>

\* The process is gone, and everything it held with it.
ProcessGone ==
    /\ helper' = 0 /\ version' = AppVersion /\ phase' = "gone"
    /\ subscribed' = FALSE /\ replaying' = {} /\ reported' = NobodyTold
    /\ service' = Cleared /\ volume' = [d \in Drives |-> "over"]
    /\ recorded' = OffPolicy /\ lifetimeOver' = FALSE

HelperCrash ==
    /\ helper # 0
    /\ ProcessGone
    /\ IF phase \in InSession THEN HelperHangUp(<<>>) ELSE UNCHANGED wireVars

\* index.shutdown() has joined the volume threads and main returns.
HelperExit ==
    /\ phase = "exiting"
    /\ ProcessGone
    /\ UNCHANGED wireVars

\* self_checks.rs: the installation changed underneath; noticed between sessions,
\* or once the host has handled its next message.
SelfCheckFails ==
    /\ helper # 0 /\ phase # "exiting" /\ ~lifetimeOver
    /\ lifetimeOver' = TRUE
    /\ phase' = IF phase = "seeking" THEN "exiting" ELSE phase
    /\ UNCHANGED <<helper, version, subscribed, replaying, reported, service, volume,
                   recorded, wireVars>>

--------------------------------------------------------------------------------
(* The serving thread: serve and MftIndexHost::run. *)

\* A mutant: the session does not forget what the previous app was told.
HostConnectRemembers ==
    /\ phase = "seeking"
    /\ HelperConnect(helper)
    /\ phase' = "begun"
    /\ UNCHANGED <<helper, version, subscribed, replaying, reported, service, volume, recorded, lifetimeOver>>

\* The app is listening: a session begins, and this app has been told nothing.
HostConnect ==
    /\ phase = "seeking"
    /\ HelperConnect(helper)
    /\ phase' = "begun"
    /\ reported' = NobodyTold
    /\ UNCHANGED <<helper, version, subscribed, replaying, service, volume, recorded, lifetimeOver>>

HostSubscribe ==
    /\ phase = "begun"
    /\ subscribed' = TRUE
    /\ phase' = "subscribed"
    /\ UNCHANGED <<helper, version, replaying, reported, service, volume, recorded, lifetimeOver, wireVars>>

HostGreet ==
    /\ phase = "subscribed"
    /\ HostSend(<<Msg("Hello", version)>>)
    /\ phase' = "greeted"
    /\ UNCHANGED <<helper, version, subscribed, replaying, reported, service, volume, recorded, lifetimeOver,
                   conn, listening, peer, appEnd, helperEnd, toHelper, inbox>>

\* The messages IndexHost::status_changed sends: one for each drive whose building
\* state or percentage is not what this app was last told.
News(now) ==
    LET telling(d) ==
            (IF reported[d] = Off THEN <<Msg("Building", d)>> ELSE <<>>)
            \o (IF now[d] # (IF reported[d] = Off THEN Unsaid ELSE reported[d])
                THEN <<Msg("Progress", <<d, now[d]>>)>> ELSE <<>>)
        started == {d \in Drives : now[d] # Off}
        stopped == {d \in Drives : now[d] = Off /\ reported[d] # Off}
    IN  FlattenSeq([i \in DOMAIN SetToSeq(started) |-> telling(SetToSeq(started)[i])])
        \o [i \in DOMAIN SetToSeq(stopped) |-> Msg("Idle", SetToSeq(stopped)[i])]

StatusChanged == /\ HostSend(News(service.building))
                 /\ reported' = service.building

HostReplayBuilding ==
    /\ phase = "greeted"
    /\ StatusChanged
    /\ phase' = "toldBuilding"
    /\ UNCHANGED <<helper, version, subscribed, replaying, service, volume, recorded, lifetimeOver,
                   conn, listening, peer, appEnd, helperEnd, toHelper, inbox>>

\* A mutant: a new session is told only of volumes still building.
HostListNoRoots ==
    /\ phase = "toldBuilding"
    /\ phase' = "replaying"
    /\ UNCHANGED <<helper, version, subscribed, replaying, reported, service, volume, recorded, lifetimeOver,
                   wireVars>>

HostListRoots ==
    /\ phase = "toldBuilding"
    /\ replaying' = service.completed
    /\ phase' = "replaying"
    /\ UNCHANGED <<helper, version, subscribed, reported, service, volume, recorded, lifetimeOver, wireVars>>

HostReplayRoot ==
    /\ phase = "replaying"
    /\ \E r \in replaying :
          /\ HostSend(<<Msg("Complete", r)>>)
          /\ replaying' = replaying \ {r}
    /\ UNCHANGED <<helper, version, phase, subscribed, reported, service, volume, recorded, lifetimeOver,
                   conn, listening, peer, appEnd, helperEnd, toHelper, inbox>>

\* The session is over: a last word, then unsubscribed, and the connection dropped
\* with its stream.
EndSession(last, next) ==
    /\ HelperHangUp(last)
    /\ subscribed' = FALSE
    /\ replaying' = {}
    /\ phase' = IF lifetimeOver THEN "exiting" ELSE next
    /\ UNCHANGED <<helper, version, reported, service, volume, lifetimeOver>>

HostReady ==
    /\ phase = "replaying" /\ replaying = {} /\ ~lifetimeOver
    /\ HostSend(<<Msg("Ready", 0)>>)
    /\ phase' = "reading"
    /\ UNCHANGED <<helper, version, subscribed, replaying, reported, service, volume, recorded, lifetimeOver,
                   conn, listening, peer, appEnd, helperEnd, toHelper, inbox>>

\* The read loop tests the lifetime before each read.
HostLifetimeOver ==
    /\ phase = "replaying" /\ replaying = {} /\ lifetimeOver
    /\ EndSession(<<>>, "exiting")
    /\ UNCHANGED recorded

Parked == phase = "reading"

HostFill == /\ phase = "reading"
            /\ HelperFill
            /\ UNCHANGED helperVars

\* A mutant: every argument is taken for a policy.
HostReadTakesAnyArgument ==
    /\ phase = "reading" /\ inbox # <<>>
    /\ recorded' = Head(inbox).arg
    /\ inbox' = Tail(inbox)
    /\ UNCHANGED <<helper, version, phase, subscribed, replaying, reported, service, volume,
                   lifetimeOver, conn, listening, peer, appEnd, helperEnd, toApp, toHelper>>

\* One message.  Record sets the policy; Shutdown, and a Hello of another version,
\* end the process; Start finds the service already started, and the rest is ignored.
HostRead ==
    /\ phase = "reading" /\ inbox # <<>>
    /\ LET m == Head(inbox) IN
       /\ recorded' = IF m.verb = "Record" THEN m.arg ELSE recorded
       /\ IF m.verb = "Hello" /\ m.arg # version
          THEN EndSession(<<Msg("Fatal", 0)>>, "exiting")
          ELSE IF m.verb = "Shutdown" \/ lifetimeOver
          THEN EndSession(<<>>, "exiting")
          ELSE /\ inbox' = Tail(inbox)
               /\ UNCHANGED <<helper, version, phase, subscribed, replaying, reported, service, volume,
                              lifetimeOver, conn, listening, peer, appEnd, helperEnd, toApp, toHelper>>

\* The app hung up, which is how an app ordinarily goes away.
HostPeerGone ==
    /\ phase = "reading" /\ inbox = <<>> /\ toHelper = <<>> /\ ~appEnd
    /\ EndSession(<<>>, "seeking")
    /\ UNCHANGED recorded

ServeNext == HostConnect \/ HostSubscribe \/ HostGreet \/ HostReplayBuilding \/ HostListRoots
             \/ HostReplayRoot \/ HostReady \/ HostLifetimeOver \/ HostFill \/ HostRead
             \/ HostPeerGone \/ HelperExit

--------------------------------------------------------------------------------
(* One volume thread: MftIndexService::run_volume. *)

VolumeStep(d, from, to) ==
    /\ helper # 0
    /\ volume[d] = from
    /\ volume' = [volume EXCEPT ![d] = to]
    /\ UNCHANGED <<helper, version, phase, subscribed, replaying, recorded, lifetimeOver>>

SetService(st) == /\ service' = st
                  /\ UNCHANGED <<reported, wireVars>>

\* update_status: the host hears of it if it is listening.
TellStatus ==
    /\ IF subscribed THEN StatusChanged ELSE UNCHANGED <<toApp, reported>>
    /\ UNCHANGED <<service, conn, listening, peer, appEnd, helperEnd, toHelper, inbox>>

VolumeOpen(d)     == VolumeStep(d, "starting", "opened")    /\ SetService(MarkBuilding(service, d))
VolumeOpenFails(d) == VolumeStep(d, "starting", "ending")   /\ SetService(service)
VolumeTellOpen(d) == VolumeStep(d, "opened", "building")    /\ TellStatus
VolumeProgress(d) == /\ VolumeStep(d, "building", "progressed")
                     /\ \E p \in 0..(PercentSteps - 1) :
                           /\ p > service.building[d]
                           /\ SetService(SetProgress(service, d, p))
VolumeTellProgress(d) == VolumeStep(d, "progressed", "building") /\ TellStatus
VolumeBuildFails(d) == VolumeStep(d, "building", "ending")  /\ SetService(service)
VolumeComplete(d) == VolumeStep(d, "building", "completed") /\ SetService(MarkComplete(service, d))
VolumeClear(d)    == VolumeStep(d, "completed", "cleared")  /\ SetService(ClearBuilding(service, d))
VolumeTellIdle(d) == VolumeStep(d, "cleared", "idleTold")   /\ TellStatus
VolumeTellRefreshed(d) ==
    /\ VolumeStep(d, "idleTold", "tailing")
    /\ IF subscribed THEN HostSend(<<Msg("Complete", d)>>) ELSE UNCHANGED toApp
    /\ UNCHANGED <<reported, service, conn, listening, peer, appEnd, helperEnd, toHelper, inbox>>
\* The tail ends only when the journal is lost; the finished root is not forgotten.
VolumeTailEnds(d) == VolumeStep(d, "tailing", "ending")     /\ SetService(service)
VolumeEndClear(d) == VolumeStep(d, "ending", "endCleared")  /\ SetService(ClearBuilding(service, d))
VolumeTellEnd(d)  == VolumeStep(d, "endCleared", "over")    /\ TellStatus

VolumeNext(d) ==
    \/ VolumeOpen(d) \/ VolumeOpenFails(d) \/ VolumeTellOpen(d) \/ VolumeProgress(d)
    \/ VolumeTellProgress(d) \/ VolumeBuildFails(d) \/ VolumeComplete(d) \/ VolumeClear(d)
    \/ VolumeTellIdle(d) \/ VolumeTellRefreshed(d) \/ VolumeTailEnds(d) \/ VolumeEndClear(d)
    \/ VolumeTellEnd(d)

HelperNext == ServeNext \/ SelfCheckFails \/ HelperCrash \/ (\E d \in Drives : VolumeNext(d))

HelperTypeOK ==
    /\ helper \in Nat /\ version \in Versions /\ phase \in Phases
    /\ subscribed \in BOOLEAN /\ replaying \subseteq Drives
    /\ reported \in [Drives -> Percents \union {Off}]
    /\ service \in IndexStates
    /\ volume \in [Drives -> VolumePhases]
    /\ recorded \in Policies /\ lifetimeOver \in BOOLEAN
================================================================================

------------------------------ MODULE IndexSession ------------------------------
(***************************************************************************)
(* The app's index client and the elevated helper together, over the one   *)
(* pipe: prompts, launches, sign-in starts, crashes, self-check exits,     *)
(* hang-ups on either side, and the user's Start, Stop, Retry, policy and  *)
(* closing of the app at any moment.                                       *)
(***************************************************************************)
EXTENDS IndexHelper, IndexClient

CONSTANTS MaxProcesses,   \* bound: helper processes started over one behaviour
          Crashes         \* helpers may crash, or fail a self-check

ASSUME SessionAssumption == MaxProcesses \in Nat /\ Crashes \in BOOLEAN

VARIABLES processes,      \* helper processes started so far
          inForce,        \* history: policies in force since a worker first read Ready
          fresh           \* history: the mirror was empty when the latest session was begun

vars == <<helperVars, wireVars, clientVars, processes, inForce, fresh>>

Init == /\ WireInit /\ HelperInit /\ ClientInit
        /\ processes = 0
        /\ inForce = {}
        /\ fresh = TRUE

HelperActs(A) == A /\ UNCHANGED <<clientVars, processes, inForce, fresh>>
ClientActs(A) == A /\ UNCHANGED <<helperVars, processes, inForce, fresh>>

\* A call that may begin a session.
Begins(A) == /\ A /\ UNCHANGED <<helperVars, processes, inForce>>
             /\ fresh' = IF worker' = worker THEN fresh ELSE mirror = Cleared

\* The sign-in task, or an earlier app, has started a helper.
HelperStartsItself ==
    /\ processes < MaxProcesses /\ processes' = processes + 1
    /\ \E v \in Versions : StartProcess(processes', v)
    /\ UNCHANGED <<wireVars, clientVars, inForce, fresh>>

\* A prompt was accepted.  The new process exits at once if another holds the presence
\* lock, or if it finds no database it can use.
PromptAccepted(w) ==
    /\ processes < MaxProcesses /\ processes' = processes + 1
    /\ LaunchStarted(w, processes')
    /\ StartProcess(processes', AppVersion) \/ UNCHANGED helperVars
    /\ UNCHANGED <<inForce, fresh>>

\* A helper that is looking for an app polls four times a second, so it finds a posted
\* connect long before an accept gives up on it.
NobodyComing == phase \in {"gone", "exiting"}

WorkerActs(w) ==
    \/ ClientActs(TransportReady(w)) \/ ClientActs(TransportInUse(w))
    \/ ClientActs(AttachBegins(w)) \/ ClientActs(Attached(w))
    \/ ClientActs(NobodyAttached(w) /\ NobodyComing)
    \/ ClientActs(Probe(w, helper # 0))
    \/ ClientActs(LaunchRefused(w)) \/ PromptAccepted(w)
    \/ ClientActs(ArrivalBegins(w)) \/ ClientActs(Arrived(w)) \/ ClientActs(WrongPeer(w))
    \/ ClientActs(NobodyArrived(w) /\ NobodyComing)
    \/ ClientActs(StoreStream(w)) \/ ClientActs(Greet(w, Parked))
    \/ ClientActs(ReadState(w)) \/ ClientActs(ReadHello(w, Parked))
    \/ /\ ReadReady(w)
       /\ inForce' = IF w \in started THEN inForce ELSE {changeLog}
       /\ UNCHANGED <<helperVars, processes, fresh>>
    \/ ClientActs(RelayPolicy(w, Parked))
    \/ ClientActs(ReadEnd(w)) \/ ClientActs(ConverseEnds(w)) \/ ClientActs(ExitWaited(w))
    \/ ClientActs(Retire(w))

CallContinues(c) ==
    \/ Begins(StartFinishes(c))
    \/ ClientActs(StopSends(c, Parked)) \/ ClientActs(StopFinishes(c))
    \/ Begins(RetryFinishes(c)) \/ ClientActs(DisposeFinishes(c))
    \/ ClientActs(EndTakes(c)) \/ ClientActs(EndCloses(c)) \/ ClientActs(EndWaited(c))
    \/ ClientActs(PolicySends(c, Parked))

\* bound: a worker is left for every start that has been asked for
WorkerLeft == Cardinality({w \in Workers : at[w] = "unborn"})
              > Cardinality({c \in Callers : call[c].op \in {"start", "retry"}})

CallBegan(c) ==
    \/ Begins(StartAtLaunch(c) /\ WorkerLeft)
    \/ ClientActs(Start(c) /\ WorkerLeft) \/ ClientActs(Retry(c) /\ WorkerLeft)
    \/ ClientActs(Stop(c)) \/ ClientActs(Dispose(c))
    \/ SetPolicy(c) /\ inForce' = inForce \union {changeLog'} /\ UNCHANGED <<helperVars, processes, fresh>>

Next ==
    \/ HelperActs(ServeNext) \/ (\E d \in Drives : HelperActs(VolumeNext(d)))
    \/ Crashes /\ (HelperActs(HelperCrash) \/ HelperActs(SelfCheckFails))
    \/ HelperStartsItself
    \/ \E w \in Workers : WorkerActs(w)
    \/ \E c \in Callers : CallContinues(c) \/ CallBegan(c)

\* Threads run; prompts are answered; accepts time out.  Nothing says that a user ever
\* does anything, that a helper starts itself, or that one crashes.
Fairness ==
    /\ WF_vars(HelperActs(ServeNext))
    /\ \A d \in Drives : WF_vars(HelperActs(VolumeNext(d)))
    /\ \A w \in Workers : WF_vars(WorkerActs(w))
    /\ \A c \in Callers : WF_vars(CallContinues(c))

Spec == Init /\ [][Next]_vars
FairSpec == Spec /\ Fairness

--------------------------------------------------------------------------------

TypeOK == /\ HelperTypeOK /\ ClientTypeOK
          /\ processes \in 0..MaxProcesses /\ inForce \subseteq Policies
          /\ fresh \in BOOLEAN

Live(w) == at[w] \notin {"unborn", "done"} /\ w \notin cancelled

\* At most one session runs that nobody has told to stop, and it is the one on record:
\* a start never begins a second one beside it (the comment on retire_session).
SoleWorker == \A w \in Workers : Live(w) => worker = w

\* A conversation that is live can be reached: the gate holds its stream, so a policy is
\* relayed down it, stop() can say Shutdown on it and end_session can close it.
LiveStreamReachable ==
    \A w \in Workers : Live(w) /\ at[w] \in {"greeting", "reading", "relaying"} => stream = talking[w]

\* While the app says that no helper is running, it claims no volume to be indexed or
\* building: searches are not routed to a database nothing keeps current.
NothingClaimedWithoutHelper == presence = "NotRunning" => mirror = Cleared

Told == \A d \in Drives : volume[d] \in {"starting", "building", "tailing", "ending", "over"}
Conversing(w) == /\ Live(w) /\ at[w] = "reading" /\ w \in started
                 /\ talking[w] = conn /\ Open(conn)
Quiet(w) == /\ Conversing(w) /\ phase = "reading"
            /\ toApp = <<>> /\ toHelper = <<>> /\ inbox = <<>>
            /\ \A c \in Callers : call[c] = Idle

\* When a session has gone quiet, the app shows exactly what the helper knows, whatever
\* sessions, helpers and workers came before; as long as the session was begun with the mirror
\* empty.  All but one are: a retry that cancels a worker which has just come to talk leaves in
\* the mirror what that worker heard (retry() does not clear it, nor does a cancelled converse).
MirrorAgrees == \A w \in Workers : Quiet(w) /\ Told /\ fresh => mirror = service

\* When a session has gone quiet, the helper records under a policy the app has had in
\* force since the session was ready, never one left over from an earlier session or app.
PolicyOfThisSession == \A w \in Workers : Quiet(w) => recorded \in inForce

\* ... and under the one the app has now.
PolicyRelayed == \A w \in Workers : Quiet(w) => recorded = changeLog

\* A session that was begun is answered: it talks to a helper, or the worker is done and
\* the app can be told why.
StartIsAnswered == \A w \in Workers : at[w] = "creating" ~> at[w] \in {"reading", "done"}

\* Whoever calls stop, retry or dispose gets control back.
CallsReturn == \A c \in Callers : call[c] # Idle ~> call[c] = Idle

\* Losing the helper is noticed: the app does not go on saying that one is running, with
\* nothing wrong, short of closing.
LossIsNoticed ==
    (helper = 0 /\ presence = "Running" /\ failure = "none")
        ~> (helper # 0 \/ presence = "NotRunning" \/ failure # "none" \/ disposed)
================================================================================

------------------------------- MODULE IndexClient -------------------------------
(***************************************************************************)
(* The app's half of the index (bb-core/src/mft/client.rs, MftIndexClient): *)
(* the gate, the worker threads that run one session each, and the calls   *)
(* the rest of the app makes (start_with, stop, retry, dispose,            *)
(* set_change_log), each of which may run beside any worker.               *)
(*                                                                         *)
(* What lies outside this module is passed in: whether a helper process    *)
(* holds the presence lock, whether an accept may time out, whether the    *)
(* helper is parked in its read, and what launching does to the machine.   *)
(***************************************************************************)
EXTENDS IndexWire, IndexState

CONSTANTS Callers,        \* threads that call the client
          CanElevate,     \* this account may raise the prompt
          WaitMayExpire,  \* end_session's two seconds may pass while a worker is held
                          \* up by a prompt, or by a helper that is slow to arrive
          MaxWorkers      \* bound: sessions begun over one behaviour

ASSUME ClientAssumption ==
    /\ CanElevate \in BOOLEAN /\ WaitMayExpire \in BOOLEAN
    /\ MaxWorkers \in Nat

Workers == 1..MaxWorkers

VARIABLES
    worker,      \* gate.worker, 0 for None; gate.session is Some exactly when it is
    stream,      \* gate.stream, 0 for None
    failure,     \* gate.failure: "none", or what kind of status line it is
    canRetry, canStart, disposed,
    changeLog,   \* gate.change_log
    presence,    \* gate.presence
    mirror,      \* the client's MftIndexState
    cancelled,   \* workers whose session token has been cancelled
    at,          \* where each worker is
    mode,        \* the mode each worker was started with
    talking,     \* the stream each worker converses on
    launched,    \* the process each worker launched, 0 for none
    relaying,    \* the policy a worker has read and is about to send
    started,     \* workers that have seen Ready
    accepting,   \* the worker that holds the server's state lock, 0 for none
    call         \* what each caller is in the middle of

gateVars   == <<worker, stream, failure, canRetry, canStart, disposed, changeLog, presence>>
workerVars == <<cancelled, at, mode, talking, launched, relaying, started, accepting>>
clientVars == <<gateVars, mirror, workerVars, call>>

Failures == {"none", "error", "not responding"}
Modes == {"AttachOrLaunch", "AttachOnly"}
Places == {"unborn", "creating", "attaching", "listening", "storing", "probing", "prompting",
           "arriving", "awaiting", "greeting", "reading", "relaying", "ended", "exiting",
           "retiring", "done"}
Idle == [op |-> "none", step |-> "idle", w |-> 0, s |-> 0, p |-> OffPolicy]
Steps == {"idle", "send", "take", "close", "wait", "finish", "relay"}
Calls == [op : {"none", "start", "stop", "retry", "dispose", "policy"}, step : Steps,
          w : Workers \union {0}, s : 0..MaxConns, p : Policies]

ClientInit ==
    /\ worker = 0 /\ stream = 0 /\ failure = "none"
    /\ canRetry = FALSE /\ canStart = FALSE /\ disposed = FALSE
    /\ changeLog = OffPolicy /\ presence = "NotRunning"
    /\ mirror = Cleared
    /\ cancelled = {} /\ started = {} /\ accepting = 0
    /\ at = [w \in Workers |-> "unborn"]
    /\ mode = [w \in Workers |-> "AttachOnly"]
    /\ talking = [w \in Workers |-> 0]
    /\ launched = [w \in Workers |-> 0]
    /\ relaying = [w \in Workers |-> OffPolicy]
    /\ call = [c \in Callers |-> Idle]

--------------------------------------------------------------------------------
(* fail, settle and announce: the mirror is dropped and the gate says why. *)

\* A mutant: the mirror outlives the helper it mirrored.
FailKeepsMirror(retryable) ==
    /\ failure' = "error"
    /\ canRetry' = retryable
    /\ canStart' = retryable
    /\ presence' = "NotRunning"
    /\ UNCHANGED mirror

Fail(retryable) ==
    /\ mirror' = Cleared
    /\ failure' = "error"
    /\ canRetry' = retryable
    /\ canStart' = retryable
    /\ presence' = "NotRunning"

Settle(seen, why, startable) ==
    /\ mirror' = Cleared
    /\ canRetry' = (why # "none" /\ startable)
    /\ failure' = why
    /\ canStart' = startable
    /\ presence' = seen

Announce(st) ==
    /\ mirror' = st
    /\ failure' = "none"
    /\ canRetry' = FALSE
    /\ canStart' = FALSE
    /\ UNCHANGED presence

NoNews == UNCHANGED <<mirror, failure, canRetry, canStart, presence>>

Go(w, from, to) ==
    /\ at[w] = from
    /\ at' = [at EXCEPT ![w] = to]
    /\ UNCHANGED <<worker, disposed, changeLog, cancelled, mode, call>>

--------------------------------------------------------------------------------
(* One worker: run_session and session_body. *)

\* try_create: the app's one endpoint, unless another copy of the app owns it.
TransportReady(w) ==
    /\ Go(w, "creating", "attaching")
    /\ NoNews
    /\ UNCHANGED <<stream, talking, launched, relaying, started, accepting, wireVars>>
TransportInUse(w) ==
    /\ listening = "idle" /\ conn = 0
    /\ Go(w, "creating", "retiring")
    /\ Settle("NotRunning", "error", FALSE)
    /\ UNCHANGED <<stream, talking, launched, relaying, started, accepting, wireVars>>

\* accept takes the server's lock, then posts a connect if none is posted.
Accept(w, from, to) ==
    /\ accepting = 0 /\ accepting' = w
    /\ PostConnect
    /\ Go(w, from, to)
    /\ NoNews
    /\ UNCHANGED <<stream, talking, launched, relaying, started>>

\* ... and gives the lock back with a connection, or without one.
Accepted(w, from) ==
    /\ TakeConnection
    /\ Go(w, from, "storing")
    /\ talking' = [talking EXCEPT ![w] = conn]
    /\ accepting' = 0
    /\ NoNews
    /\ UNCHANGED <<stream, launched, relaying, started>>

AttachBegins(w) == Accept(w, "attaching", "listening")
Attached(w)     == Accepted(w, "listening")
\* A mutant: a timed-out accept keeps the server's lock.
NobodyAttachedKeepsLock(w) ==
    /\ listening = "pending"
    /\ Go(w, "listening", "probing")
    /\ NoNews
    /\ UNCHANGED <<stream, talking, launched, relaying, started, accepting, wireVars>>
NobodyAttached(w) ==
    /\ listening = "pending"
    /\ accepting' = 0
    /\ Go(w, "listening", "probing")
    /\ NoNews
    /\ UNCHANGED <<stream, talking, launched, relaying, started, wireVars>>

\* The presence probe decides between a helper that will not talk, an ordinary absence,
\* an account that may not ask, and a prompt.
Probe(w, running) ==
    /\ \/ running /\ Go(w, "probing", "retiring") /\ Settle("Running", "not responding", FALSE)
       \/ ~running /\ mode[w] = "AttachOnly"
          /\ Go(w, "probing", "retiring") /\ Settle("NotRunning", "none", CanElevate)
       \/ ~running /\ mode[w] = "AttachOrLaunch" /\ ~CanElevate
          /\ Go(w, "probing", "retiring") /\ Fail(FALSE)
       \/ ~running /\ mode[w] = "AttachOrLaunch" /\ CanElevate
          /\ Go(w, "probing", "prompting") /\ NoNews
    /\ UNCHANGED <<stream, talking, launched, relaying, started, accepting, wireVars>>

\* launch() answers: the prompt is declined, the launch fails, or the account turns out
\* not to be an administrator's ...
LaunchRefused(w) ==
    /\ Go(w, "prompting", "retiring")
    /\ \E retryable \in BOOLEAN : Fail(retryable)
    /\ UNCHANGED <<stream, talking, launched, relaying, started, accepting, wireVars>>
\* ... or process h starts.
LaunchStarted(w, h) ==
    /\ Go(w, "prompting", "arriving")
    /\ launched' = [launched EXCEPT ![w] = h]
    /\ NoNews
    /\ UNCHANGED <<stream, talking, relaying, started, accepting, wireVars>>

ArrivalBegins(w) == Accept(w, "arriving", "awaiting")
Arrived(w)       == peer = launched[w] /\ Accepted(w, "awaiting")
WrongPeer(w) ==
    /\ peer # launched[w]
    /\ RefuseConnection
    /\ accepting' = 0
    /\ Go(w, "awaiting", "retiring") /\ Fail(TRUE)
    /\ UNCHANGED <<stream, talking, launched, relaying, started>>
NobodyArrived(w) ==
    /\ listening = "pending"
    /\ accepting' = 0
    /\ Go(w, "awaiting", "retiring") /\ Fail(TRUE)
    /\ UNCHANGED <<stream, talking, launched, relaying, started, wireVars>>

StoreStream(w) ==
    /\ Go(w, "storing", "greeting")
    /\ stream' = talking[w]
    /\ NoNews
    /\ UNCHANGED <<talking, launched, relaying, started, accepting, wireVars>>

--------------------------------------------------------------------------------
(* One worker: converse. *)

\* The loop tests the token before each read.
NextRead(w) == IF w \in cancelled THEN "ended" ELSE "reading"

Greet(w, parked) ==
    /\ Go(w, "greeting", NextRead(w))
    /\ presence' = "Running" /\ canRetry' = FALSE /\ canStart' = FALSE /\ failure' = "none"
    /\ AppWrite(talking[w], <<Msg("Hello", AppVersion)>>, parked)
    /\ UNCHANGED <<mirror, stream, talking, launched, relaying, started, accepting>>

HasMessage(w) == talking[w] = conn /\ appEnd /\ toApp # <<>>
Consume == /\ toApp' = Tail(toApp)
           /\ UNCHANGED <<conn, listening, peer, appEnd, helperEnd>>

ReadState(w) ==
    /\ HasMessage(w) /\ Head(toApp).verb \in {"Building", "Idle", "Progress", "Complete"}
    /\ Consume /\ UNCHANGED <<toHelper, inbox>>
    /\ Go(w, "reading", NextRead(w))
    /\ Announce(Mirrored(mirror, Head(toApp)))
    /\ UNCHANGED <<stream, talking, launched, relaying, started, accepting>>

\* A helper that says it cannot serve is not listened to, and one of another version is asked
\* to stop as well.
ReadHello(w, parked) ==
    /\ HasMessage(w) /\ Head(toApp).verb \in {"Hello", "Fatal"}
    /\ Consume
    /\ IF Head(toApp) = Msg("Hello", AppVersion)
       THEN Go(w, "reading", NextRead(w)) /\ NoNews /\ UNCHANGED <<toHelper, inbox>>
       ELSE /\ Go(w, "reading", "retiring") /\ Fail(TRUE)
            /\ IF Head(toApp).verb = "Hello" THEN Delivered(talking[w], <<Msg("Shutdown", 0)>>, parked)
               ELSE UNCHANGED <<toHelper, inbox>>
    /\ UNCHANGED <<stream, talking, launched, relaying, started, accepting>>

\* The first Ready is answered, any other ignored: Start is sent and the policy read under
\* the gate ...
ReadReady(w) ==
    /\ HasMessage(w) /\ Head(toApp).verb = "Ready"
    /\ Consume /\ UNCHANGED <<toHelper, inbox>>
    /\ Go(w, "reading", IF w \in started THEN NextRead(w) ELSE "relaying")
    /\ relaying' = IF w \in started THEN relaying ELSE [relaying EXCEPT ![w] = changeLog]
    /\ started' = started \union {w}
    /\ NoNews
    /\ UNCHANGED <<stream, talking, launched, accepting>>

\* A mutant: Start alone is sent.
RelayNothing(w, parked) ==
    /\ Go(w, "relaying", NextRead(w))
    /\ AppWrite(talking[w], <<Msg("Start", 0)>>, parked)
    /\ relaying' = [relaying EXCEPT ![w] = OffPolicy]
    /\ NoNews
    /\ UNCHANGED <<stream, talking, launched, started, accepting>>

\* ... and sent once the gate has been let go.
RelayPolicy(w, parked) ==
    /\ Go(w, "relaying", NextRead(w))
    /\ AppWrite(talking[w], <<Msg("Start", 0), Msg("Record", relaying[w])>>, parked)
    /\ relaying' = [relaying EXCEPT ![w] = OffPolicy]
    /\ NoNews
    /\ UNCHANGED <<stream, talking, launched, started, accepting>>

\* End of stream: this end was closed, or the helper's is gone and nothing is left to read.
ReadEnd(w) ==
    /\ talking[w] # conn \/ ~appEnd \/ (toApp = <<>> /\ ~helperEnd)
    /\ Go(w, "reading", "ended")
    /\ NoNews
    /\ UNCHANGED <<stream, talking, launched, relaying, started, accepting, wireVars>>

\* A mutant: losing the helper goes unsaid.
ConverseEndsSilently(w) ==
    /\ Go(w, "ended", IF launched[w] = 0 THEN "retiring" ELSE "exiting")
    /\ NoNews
    /\ UNCHANGED <<stream, talking, launched, relaying, started, accepting, wireVars>>

\* Losing the helper is a failure; being told to stop is not.  A launched helper is
\* then waited for, briefly.
ConverseEnds(w) ==
    /\ Go(w, "ended", IF launched[w] = 0 THEN "retiring" ELSE "exiting")
    /\ IF w \in cancelled THEN NoNews ELSE Fail(TRUE)
    /\ UNCHANGED <<stream, talking, launched, relaying, started, accepting, wireVars>>
ExitWaited(w) ==
    /\ Go(w, "exiting", "retiring")
    /\ NoNews
    /\ UNCHANGED <<stream, talking, launched, relaying, started, accepting, wireVars>>

\* retire_session, then done.set(); the thread's locals and its token go with it.
Retire(w) ==
    /\ at[w] = "retiring"
    /\ at' = [at EXCEPT ![w] = "done"]
    /\ stream' = 0
    /\ worker' = IF worker = w THEN 0 ELSE worker
    /\ cancelled' = cancelled \ {w} /\ started' = started \ {w}
    /\ mode' = [mode EXCEPT ![w] = "AttachOnly"] /\ talking' = [talking EXCEPT ![w] = 0]
    /\ launched' = [launched EXCEPT ![w] = 0] /\ relaying' = [relaying EXCEPT ![w] = OffPolicy]
    /\ NoNews
    /\ UNCHANGED <<disposed, changeLog, accepting, call, wireVars>>

--------------------------------------------------------------------------------
(* The calls. *)

\* A mutant: a start does not look for a worker on record.
StartBesideWorker(m) ==
    IF disposed
    THEN UNCHANGED <<worker, at, mode>>
    ELSE \E w \in Workers :
            /\ at[w] = "unborn" /\ \A v \in Workers : v < w => at[v] # "unborn"
            /\ worker' = w
            /\ at' = [at EXCEPT ![w] = "creating"]
            /\ mode' = [mode EXCEPT ![w] = m]

\* start_with under the gate: a no-op once disposed, or while a worker is on record.
StartWith(m) ==
    IF disposed \/ worker # 0
    THEN UNCHANGED <<worker, at, mode>>
    ELSE \E w \in Workers :
            /\ at[w] = "unborn" /\ \A v \in Workers : v < w => at[v] # "unborn"
            /\ worker' = w
            /\ at' = [at EXCEPT ![w] = "creating"]
            /\ mode' = [mode EXCEPT ![w] = m]

Calling(c, op, step) == call[c].op = op /\ call[c].step = step
CallGoes(c, step)   == call' = [call EXCEPT ![c].step = step]
CallReturns(c)      == call' = [call EXCEPT ![c] = Idle]
CallBegins(c, op, step, s, p) ==
    /\ call[c] = Idle
    /\ call' = [call EXCEPT ![c] = [op |-> op, step |-> step, w |-> 0, s |-> s, p |-> p]]
SameWorkers == UNCHANGED <<cancelled, talking, launched, relaying, started, accepting>>

\* index_attach at launch: look for a helper, asking for one only if the setting says so.
StartAtLaunch(c) ==
    /\ call[c] = Idle /\ \A w \in Workers : at[w] = "unborn"
    /\ \E m \in Modes : StartWith(m)
    /\ NoNews /\ SameWorkers
    /\ UNCHANGED <<stream, disposed, changeLog, call, wireVars>>

\* index_start: offered only while the client says a start could help, then scheduled.
Start(c) ==
    /\ canStart \/ canRetry
    /\ CallBegins(c, "start", "finish", 0, OffPolicy)
    /\ NoNews /\ SameWorkers
    /\ UNCHANGED <<worker, stream, disposed, changeLog, at, mode, wireVars>>
StartFinishes(c) ==
    /\ Calling(c, "start", "finish")
    /\ CallReturns(c)
    /\ StartWith("AttachOrLaunch")
    /\ NoNews /\ SameWorkers
    /\ UNCHANGED <<stream, disposed, changeLog, wireVars>>

\* stop(): Shutdown down whatever stream the gate holds, then end_session, then settle.
Stop(c) ==
    /\ CallBegins(c, "stop", "send", stream, OffPolicy)
    /\ NoNews /\ SameWorkers
    /\ UNCHANGED <<worker, stream, disposed, changeLog, at, mode, wireVars>>
StopSends(c, parked) ==
    /\ Calling(c, "stop", "send")
    /\ CallGoes(c, "take")
    /\ AppWrite(call[c].s, <<Msg("Shutdown", 0)>>, parked)
    /\ NoNews /\ SameWorkers
    /\ UNCHANGED <<worker, stream, disposed, changeLog, at, mode>>
StopFinishes(c) ==
    /\ Calling(c, "stop", "finish")
    /\ CallReturns(c)
    /\ Settle("NotRunning", "none", CanElevate)
    /\ SameWorkers
    /\ UNCHANGED <<worker, stream, disposed, changeLog, at, mode, wireVars>>

\* retry(): offered only beside a failure; takes the offer back, ends the session and starts.
Retry(c) ==
    /\ ~disposed /\ canRetry
    /\ CallBegins(c, "retry", "take", 0, OffPolicy)
    /\ canRetry' = FALSE /\ failure' = "none"
    /\ SameWorkers
    /\ UNCHANGED <<mirror, canStart, presence, worker, stream, disposed, changeLog, at, mode, wireVars>>
RetryFinishes(c) ==
    /\ Calling(c, "retry", "finish")
    /\ CallReturns(c)
    /\ StartWith("AttachOrLaunch")
    /\ NoNews /\ SameWorkers
    /\ UNCHANGED <<stream, disposed, changeLog, wireVars>>

\* dispose(): the app is closing; it hangs up and nothing more.
Dispose(c) ==
    /\ ~disposed /\ disposed' = TRUE
    /\ CallBegins(c, "dispose", "take", 0, OffPolicy)
    /\ NoNews /\ SameWorkers
    /\ UNCHANGED <<worker, stream, changeLog, at, mode, wireVars>>
DisposeFinishes(c) ==
    /\ Calling(c, "dispose", "finish")
    /\ CallReturns(c)
    /\ NoNews /\ SameWorkers
    /\ UNCHANGED <<worker, stream, disposed, changeLog, at, mode, wireVars>>

\* end_session: the fields are taken under the gate and the token cancelled ...
EndTakes(c) ==
    /\ call[c].step = "take"
    /\ call' = [call EXCEPT ![c].step = "close", ![c].w = worker, ![c].s = stream]
    /\ worker' = 0
    /\ cancelled' = IF worker = 0 THEN cancelled ELSE cancelled \union {worker}
    /\ NoNews
    /\ UNCHANGED <<stream, disposed, changeLog, at, mode, talking, launched, relaying, started, accepting,
                   wireVars>>
\* A mutant: the stream is left open.
EndForgetsToClose(c) ==
    /\ call[c].step = "close"
    /\ CallGoes(c, "wait")
    /\ NoNews /\ SameWorkers
    /\ UNCHANGED <<worker, stream, disposed, changeLog, at, mode, wireVars>>
\* ... the stream closed, which is what returns a parked read ...
EndCloses(c) ==
    /\ call[c].step = "close"
    /\ CallGoes(c, "wait")
    /\ CloseStream(call[c].s)
    /\ NoNews /\ SameWorkers
    /\ UNCHANGED <<worker, stream, disposed, changeLog, at, mode>>
\* ... and the worker waited for, two seconds at most.
HeldUp == {"attaching", "prompting", "arriving", "awaiting"}
\* A mutant: the worker is not waited for.
EndWaitsForNobody(c) ==
    /\ call[c].step = "wait"
    /\ CallGoes(c, "finish")
    /\ NoNews /\ SameWorkers
    /\ UNCHANGED <<worker, stream, disposed, changeLog, at, mode, wireVars>>
EndWaited(c) ==
    /\ call[c].step = "wait"
    /\ \A w \in Workers : call[c].w = w =>
          at[w] = "done" \/ (WaitMayExpire /\ at[w] \in HeldUp)
    /\ CallGoes(c, "finish")
    /\ NoNews /\ SameWorkers
    /\ UNCHANGED <<worker, stream, disposed, changeLog, at, mode, wireVars>>

\* set_change_log: stored and the stream read under the gate, then relayed.
SetPolicy(c) ==
    /\ \E p \in Policies \ {changeLog} :
          /\ changeLog' = p
          /\ CallBegins(c, "policy", "relay", stream, p)
    /\ NoNews /\ SameWorkers
    /\ UNCHANGED <<worker, stream, disposed, at, mode, wireVars>>
PolicySends(c, parked) ==
    /\ Calling(c, "policy", "relay")
    /\ CallReturns(c)
    /\ AppWrite(call[c].s, <<Msg("Record", call[c].p)>>, parked)
    /\ NoNews /\ SameWorkers
    /\ UNCHANGED <<worker, stream, disposed, changeLog, at, mode>>

--------------------------------------------------------------------------------

GateTypeOK ==
    /\ worker \in Workers \union {0} /\ stream \in 0..MaxConns /\ failure \in Failures
    /\ canRetry \in BOOLEAN /\ canStart \in BOOLEAN /\ disposed \in BOOLEAN
    /\ changeLog \in Policies /\ presence \in {"NotRunning", "Running"}
    /\ mirror \in IndexStates

WorkerTypeOK ==
    /\ cancelled \subseteq Workers /\ started \subseteq Workers
    /\ accepting \in Workers \union {0}
    /\ at \in [Workers -> Places] /\ mode \in [Workers -> Modes]
    /\ talking \in [Workers -> 0..MaxConns] /\ launched \in [Workers -> Nat]
    /\ relaying \in [Workers -> Policies]

ClientTypeOK == GateTypeOK /\ WorkerTypeOK /\ call \in [Callers -> Calls]
================================================================================

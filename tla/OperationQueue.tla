----------------------------- MODULE OperationQueue -----------------------------
(***************************************************************************)
(* The app's operation queue (bb-app/src/ops/mod.rs) over its undo history: *)
(* one transfer thread runs the accepted jobs one after another, recording *)
(* each in the history or walking the history for an undo, while the UI    *)
(* thread accepts, cancels and pauses them, clears and resizes the history, *)
(* shows the questions a job parks on, and closes the app.                 *)
(*                                                                         *)
(* A job's own work on the file system is abstracted to whether it may     *)
(* have done something worth recording, is refused something for want of   *)
(* permission, or finds names that are taken.                              *)
(***************************************************************************)
EXTENDS UndoStack

CONSTANTS Jobs,      \* bound: operation ids in use at one time
          MaxRecords, \* bound: operations recorded over one behaviour
          MaxSteps   \* bound: steps of one "undo to here"

ASSUME QueueAssumption == Jobs \subseteq Nat \ {0} /\ MaxRecords \in Nat /\ MaxSteps \in Nat

VARIABLES
    jobs,        \* Queue.jobs: accepted and waiting, next first
    running,     \* Queue.running, 0 for None
    draining,    \* Queue.draining: "this app is writing"
    shutdown,    \* Queue.shutdown
    work,        \* what each job is
    status,      \* ops: how far each job is
    cancelled,   \* jobs whose token is cancelled
    target,      \* running_cancel: the job cancel_running would stop, 0 for None
    paused,      \* the pause gate is shut
    at,          \* where the transfer thread is
    span,        \* entries a walk has still to visit
    question,    \* the question a job is parked on
    owed,        \* released entries the transfer thread has still to retire
    ui,          \* what the UI thread is in the middle of
    uiOwed,      \* released entries the UI thread has still to retire
    retired,     \* entries whose record has been retired
    lost,        \* history: released entries a panic dropped
    stopped      \* history: jobs cancelled while they waited

queueVars == <<jobs, running, draining, shutdown, work, status, cancelled, target, paused>>
walkVars  == <<at, span, owed>>
vars == <<stackVars, queueVars, walkVars, question, ui, uiOwed, retired, lost, stopped>>

Kinds == {"transfer", "delete", "undo"}
Job == [kind : Kinds, steps : -MaxSteps..MaxSteps, made : Nat]
NoJob == [kind |-> "transfer", steps |-> 0, made |-> 0]
Statuses == {"free", "queued", "running"}
Places == {"idle", "clearing", "popped", "planning", "askingConflict", "working", "askingElevation",
           "recording", "locking", "walking", "askingStep", "stepping", "retiring",
           "finishing", "ending", "gone"}
Idle == [op |-> "none", job |-> 0, steps |-> 0]
Calls == {"none", "undo check", "undo submit", "cancel running", "cancel waiting", "clear",
          "budget", "retire", "release", "release retire", "shut down", "open gate", "join", "closed"}

Init ==
    /\ StackInit
    /\ jobs = <<>> /\ running = 0 /\ draining = FALSE /\ shutdown = FALSE
    /\ work = [j \in Jobs |-> NoJob] /\ status = [j \in Jobs |-> "free"]
    /\ cancelled = {} /\ target = 0 /\ paused = FALSE
    /\ at = "idle" /\ span = <<>> /\ question = "none" /\ owed = {}
    /\ ui = Idle /\ uiOwed = {} /\ retired = {} /\ lost = {} /\ stopped = {}

\* The history is locked throughout a walk, also while it is parked on a question.
HistoryLocked == at \in {"walking", "askingStep", "stepping"}

--------------------------------------------------------------------------------
(* The transfer thread. *)

Thread(from, to) == at = from /\ at' = to /\ UNCHANGED <<shutdown, ui, uiOwed>>
Kind == work[running].kind
SameStack == UNCHANGED <<stackVars, span, owed, retired, lost>>
SameJobs  == UNCHANGED <<work, status, cancelled, stopped>>
SameQueue == UNCHANGED <<jobs, running, draining, target, paused>> /\ SameJobs
\* A job is over, and its id free to stand for another.
Frees(j) == /\ status' = [status EXCEPT ![j] = "free"] /\ work' = [work EXCEPT ![j] = NoJob]
            /\ cancelled' = cancelled \ {j} /\ stopped' = stopped \ {j}
            /\ running' = 0

Exit == /\ shutdown /\ Thread("idle", "gone")
        /\ SameStack /\ SameQueue /\ UNCHANGED question

Pop == /\ ~shutdown /\ jobs # <<>>
       /\ Thread("idle", "popped")
       /\ running' = Head(jobs) /\ jobs' = Tail(jobs)
       /\ SameStack /\ SameJobs /\ UNCHANGED <<draining, target, paused, question>>

\* Empty and idle: the one place that releases draining ...
Drained == /\ ~shutdown /\ jobs = <<>> /\ draining
           /\ Thread("idle", "clearing")
           /\ draining' = FALSE
           /\ SameStack /\ SameJobs /\ UNCHANGED <<jobs, running, target, paused, question>>
\* ... and, with the lock let go, opens the gate.
Cleared == /\ Thread("clearing", "idle")
           /\ paused' = FALSE
           /\ SameStack /\ SameJobs /\ UNCHANGED <<jobs, running, draining, target, question>>

\* run_job: cancelled while it waited, it never starts.
Skipped == /\ running \in cancelled
           /\ Thread("popped", "idle")
           /\ Frees(running)
           /\ SameStack /\ UNCHANGED <<jobs, draining, target, paused, question>>

Begin(to) == /\ Thread("popped", to)
             /\ status' = [status EXCEPT ![running] = "running"]
             /\ target' = running
             /\ SameStack
             /\ UNCHANGED <<jobs, running, draining, work, cancelled, stopped, paused, question>>
FirstPlace == CASE Kind = "transfer" -> "planning" [] Kind = "delete" -> "working"
                [] Kind = "undo" -> "locking"
\* A mutant: the token is not looked at.
BeginsAnyway == Begin(FirstPlace)
Begins == running \notin cancelled /\ Begin(FirstPlace)

\* A job asks, and parks until the UI thread answers.
Ask(from, to) == /\ Thread(from, to) /\ question' = "raised"
                 /\ SameStack /\ SameQueue
Answered(from, to) == /\ question \in {"yes", "no"} /\ question' = "none"
                      /\ Thread(from, to)
                      /\ SameStack /\ SameQueue
Moves(from, to) == Thread(from, to) /\ SameStack /\ SameQueue /\ UNCHANGED question

\* run_transfer: nothing to do, cancelled while it looked, names taken, or straight to work.
Plans == Moves("planning", "working") \/ Moves("planning", "finishing")
         \/ Ask("planning", "askingConflict")
ConflictAnswered == Answered("askingConflict", IF question = "yes" THEN "working" ELSE "finishing")

\* Only a transfer waits at the gate; a cancelled one is let through it.
Works == /\ at = "working"
         /\ Kind = "transfer" => ~paused \/ running \in cancelled
         /\ Moves("working", "recording") \/ Ask("working", "askingElevation")
ElevationAnswered == Answered("askingElevation", "recording")

\* A mutant: what the new entry pushes out is not retired.
RecordsDropsReleased ==
    /\ Thread("recording", "retiring")
    /\ (\E held \in HeldSizes : Push(held)) \/ UNCHANGED stackVars
    /\ SameQueue /\ UNCHANGED <<span, owed, question, retired, lost>>
\* record: what was done takes its place in the history; nothing done, nothing recorded.
Records == /\ Thread("recording", "retiring")
           /\ \/ \E held \in HeldSizes :
                    Push(held) /\ owed' = Released(Ids(entries) \union {nextId})
              \/ UNCHANGED <<stackVars, owed>>
           /\ SameQueue /\ UNCHANGED <<span, question, retired, lost>>

\* run_undo: the span is taken once the history is locked.
WalkBegins == /\ Thread("locking", "walking")
              /\ span' = Span(work[running].steps)
              /\ SameQueue /\ UNCHANGED <<stackVars, owed, question, retired, lost>>

\* One step of the walk: all of it moved, only part of it, or nothing.  The walk goes on
\* only from a step that was clean.
Steps(from, next) ==
    /\ span # <<>> /\ BesideCursor(Head(span))
    /\ Thread(from, next)
    /\ \/ \E held \in HeldSizes :
             /\ Applied(Head(span), held)
             /\ owed' = owed \union Released(Ids(entries))
             /\ span' = Tail(span) \/ span' = <<>>
       \/ span' = <<>> /\ UNCHANGED <<stackVars, owed>>
    /\ SameQueue /\ UNCHANGED <<question, retired, lost>>

WalkSteps == Steps("walking", "walking")
\* A step that was refused in part asks for a second pass before its outcome counts.
StepAsks     == span # <<>> /\ BesideCursor(Head(span)) /\ Ask("walking", "askingStep")
StepAnswered == Answered("askingStep", "stepping")
StepEnds     == Steps("stepping", "walking")

\* A mutant: nothing catches it.
PanicEndsThread ==
    /\ span # <<>> /\ ~BesideCursor(Head(span))
    /\ Thread("walking", "gone")
    /\ span' = <<>> /\ owed' = {} /\ lost' = lost \union owed
    /\ SameQueue /\ UNCHANGED <<stackVars, question, retired>>
\* A span that names an entry no longer in the history panics; run_job catches it, and
\* what the walk had released by then is dropped.
WalkPanics == /\ span # <<>> /\ ~BesideCursor(Head(span))
              /\ Thread("walking", "finishing")
              /\ span' = <<>> /\ owed' = {} /\ lost' = lost \union owed
              /\ SameQueue /\ UNCHANGED <<stackVars, question, retired>>
WalkEnds == span = <<>> /\ Moves("walking", "retiring")

Retires == /\ Thread("retiring", "finishing")
           /\ retired' = retired \union owed /\ owed' = {}
           /\ SameQueue /\ UNCHANGED <<stackVars, span, question, lost>>

Finishes == /\ Thread("finishing", "ending")
            /\ target' = 0
            /\ SameStack /\ SameJobs /\ UNCHANGED <<jobs, running, draining, paused, question>>
Ends == /\ Thread("ending", "idle")
        /\ Frees(running)
        /\ SameStack /\ UNCHANGED <<jobs, draining, target, paused, question>>

ThreadNext ==
    \/ Exit \/ Pop \/ Drained \/ Cleared \/ Skipped \/ Begins \/ Plans \/ ConflictAnswered
    \/ Works \/ ElevationAnswered \/ Records \/ WalkBegins \/ WalkSteps \/ StepAsks
    \/ StepAnswered \/ StepEnds \/ WalkPanics \/ WalkEnds \/ Retires \/ Finishes \/ Ends

--------------------------------------------------------------------------------
(* The UI thread. *)

Call(op, job, steps) == ui' = [op |-> op, job |-> job, steps |-> steps]
UiGoes(from, to) == ui.op = from /\ ui' = [ui EXCEPT !.op = to]
UiReturns(from)  == ui.op = from /\ ui' = Idle
UiOnly == UNCHANGED <<walkVars, retired, lost>>
UiQueue == UNCHANGED <<jobs, running, draining, shutdown, work, status, cancelled, target, paused>>

\* bound: records left for every operation already accepted
RecordLeft == nextId - 1 + Cardinality({j \in Jobs : status[j] # "free" /\ work[j].kind # "undo"})
              < MaxRecords

Enqueue(kind, steps) ==
    /\ kind # "undo" => RecordLeft
    /\ \E j \in Jobs :
          /\ status[j] = "free" /\ \A i \in Jobs : i < j => status[i] # "free"
          /\ ui.job # j
          /\ work' = [work EXCEPT ![j] = [kind |-> kind, steps |-> steps, made |-> nextId - 1]]
          /\ status' = [status EXCEPT ![j] = "queued"]
          /\ jobs' = Append(jobs, j)
    /\ UNCHANGED <<running, shutdown, cancelled, target, paused>>

\* A mutant: an undo is accepted behind whatever is still running.
AcceptWhileDraining(kind, steps) == ~shutdown /\ draining' = TRUE /\ Enqueue(kind, steps)
\* A mutant: the queue is not said to be draining until the job has begun.
AcceptQuietly(kind, steps) ==
    /\ ~shutdown /\ (kind # "transfer" => ~draining)
    /\ UNCHANGED draining /\ Enqueue(kind, steps)
\* submit_with: a job that is not a transfer is refused while anything is draining.
Accept(kind, steps) ==
    /\ ~shutdown /\ (kind # "transfer" => ~draining)
    /\ draining' = TRUE /\ Enqueue(kind, steps)

Submit == /\ ui = Idle
          /\ \E kind \in {"transfer", "delete"} : Accept(kind, 0)
          /\ UiOnly /\ UNCHANGED <<stackVars, question, ui, uiOwed, stopped>>

\* op_undo_step looks at the history, and only then at the queue.
AskUndo == /\ ui = Idle
           /\ \E steps \in (-MaxSteps..MaxSteps) \ {0} : Call("undo check", 0, steps)
           /\ UiOnly /\ UiQueue /\ UNCHANGED <<stackVars, question, uiOwed, stopped>>
UndoChecked == /\ ~HistoryLocked /\ ui.op = "undo check"
               /\ ui' = IF Span(ui.steps) = <<>> THEN Idle ELSE [ui EXCEPT !.op = "undo submit"]
               /\ UiOnly /\ UiQueue /\ UNCHANGED <<stackVars, question, uiOwed, stopped>>
UndoSubmits == /\ UiReturns("undo submit")
               /\ Accept("undo", ui.steps) \/ ((draining \/ shutdown) /\ UiQueue)
               /\ UiOnly /\ UNCHANGED <<stackVars, question, uiOwed, stopped>>

\* cancel_op: the running job is looked up first, and stopped or searched for after.
Cancel == /\ ui = Idle
          /\ \E j \in Jobs :
                /\ status[j] \in {"queued", "running"}
                /\ Call(IF running = j THEN "cancel running" ELSE "cancel waiting", j, 0)
          /\ UiOnly /\ UiQueue /\ UNCHANGED <<stackVars, question, uiOwed, stopped>>
CancelRunning == /\ cancelled' = IF target = 0 THEN cancelled ELSE cancelled \union {target}
                 /\ paused' = IF target = 0 THEN paused ELSE FALSE
CancelsRunning == /\ UiReturns("cancel running")
                  /\ CancelRunning
                  /\ UiOnly /\ UNCHANGED <<stackVars, question, uiOwed, stopped,
                                jobs, running, draining, shutdown, work, status, target>>
CancelsWaiting == /\ UiReturns("cancel waiting")
                  /\ LET found == {ui.job} \intersect {jobs[i] : i \in DOMAIN jobs}
                     IN  cancelled' = cancelled \union found /\ stopped' = stopped \union found
                  /\ UiOnly /\ UNCHANGED <<stackVars, question, uiOwed,
                                jobs, running, draining, shutdown, work, status, target, paused>>

SetPaused == /\ ui = Idle
             /\ paused' = ~paused
             /\ UiOnly /\ UNCHANGED <<stackVars, question, ui, uiOwed, stopped,
                           jobs, running, draining, shutdown, work, status, cancelled, target>>

\* release_undo_history and set_undo_budget wait for the history, change it, and retire
\* what that released once it is unlocked.
CallsHistory == /\ ui = Idle
                /\ \E op \in {"clear", "budget"} : Call(op, 0, 0)
                /\ UiOnly /\ UiQueue /\ UNCHANGED <<stackVars, question, uiOwed, stopped>>
Clears(from, to) == /\ ~HistoryLocked /\ UiGoes(from, to)
                    /\ ClearHistory /\ uiOwed' = Ids(entries)
                    /\ UiOnly /\ UiQueue /\ UNCHANGED <<question, stopped>>
ClearsHistory == Clears("clear", "retire")
SetsBudget == /\ ~HistoryLocked /\ UiGoes("budget", "retire")
              /\ \E b \in Budgets \ {budget} : SetBudget(b)
              /\ uiOwed' = Released(Ids(entries))
              /\ UiOnly /\ UiQueue /\ UNCHANGED <<question, stopped>>
UiRetireAll == /\ retired' = retired \union uiOwed /\ uiOwed' = {}
               /\ UNCHANGED <<stackVars, walkVars, question, lost, stopped>> /\ UiQueue
UiRetires == UiReturns("retire") /\ UiRetireAll

\* The question's dialog is shown, and answered.
ShowsQuestion == /\ ui = Idle /\ question = "raised" /\ question' = "shown"
                 /\ UiOnly /\ UiQueue /\ UNCHANGED <<stackVars, ui, uiOwed, stopped>>
AnswersQuestion == /\ ui = Idle /\ question = "shown" /\ question' \in {"yes", "no"}
                   /\ UiOnly /\ UiQueue /\ UNCHANGED <<stackVars, ui, uiOwed, stopped>>

\* The window closes, its dialog with it; then bb_app_destroy, on the same thread.
Closes == /\ ui = Idle /\ Call("release", 0, 0)
          /\ question' = IF question = "shown" THEN "no" ELSE question
          /\ UiOnly /\ UiQueue /\ UNCHANGED <<stackVars, uiOwed, stopped>>
CloseReleases == Clears("release", "release retire")
CloseRetires  == UiGoes("release retire", "shut down") /\ UiRetireAll
ShutsDown == /\ UiGoes("shut down", "open gate")
             /\ shutdown' = TRUE
             /\ cancelled' = cancelled \union {jobs[i] : i \in DOMAIN jobs} /\ jobs' = <<>>
             /\ UiOnly /\ UNCHANGED <<stackVars, question, uiOwed, stopped,
                           running, draining, work, status, target, paused>>
\* A mutant: a paused run stays paused.
LeavesGate == /\ UiGoes("open gate", "join")
              /\ UiOnly /\ UiQueue /\ UNCHANGED <<stackVars, question, uiOwed, stopped>>
OpensGate == /\ UiGoes("open gate", "join")
             /\ IF paused
                THEN /\ cancelled' = IF target = 0 THEN cancelled ELSE cancelled \union {target}
                     /\ paused' = FALSE
                ELSE UNCHANGED <<cancelled, paused>>
             /\ UiOnly /\ UNCHANGED <<stackVars, question, uiOwed, stopped,
                           jobs, running, draining, shutdown, work, status, target>>
Joined == /\ at = "gone" /\ UiGoes("join", "closed")
          /\ UiOnly /\ UiQueue /\ UNCHANGED <<stackVars, question, uiOwed, stopped>>

UiContinues ==
    \/ UndoChecked \/ UndoSubmits \/ CancelsRunning \/ CancelsWaiting \/ ClearsHistory \/ SetsBudget
    \/ UiRetires \/ CloseReleases \/ CloseRetires \/ ShutsDown \/ OpensGate \/ Joined

UserActs == Submit \/ AskUndo \/ Cancel \/ SetPaused \/ CallsHistory \/ AnswersQuestion \/ Closes

Next == ThreadNext \/ UiContinues \/ ShowsQuestion \/ UserActs

\* Both threads run, and a dialog is shown; nothing says the user ever does anything.
Fairness == WF_vars(ThreadNext) /\ WF_vars(UiContinues) /\ WF_vars(ShowsQuestion)

Spec == Init /\ [][Next]_vars
FairSpec == Spec /\ Fairness

--------------------------------------------------------------------------------

TypeOK ==
    /\ StackTypeOK
    /\ jobs \in Seq(Jobs) /\ running \in Jobs \union {0} /\ target \in Jobs \union {0}
    /\ draining \in BOOLEAN /\ shutdown \in BOOLEAN /\ paused \in BOOLEAN
    /\ work \in [Jobs -> Job] /\ status \in [Jobs -> Statuses]
    /\ cancelled \subseteq Jobs /\ stopped \subseteq Jobs
    /\ at \in Places /\ span \in Seq(Nat)
    /\ question \in {"none", "raised", "shown", "yes", "no"}
    /\ ui \in [op : Calls, job : Jobs \union {0}, steps : -MaxSteps..MaxSteps]
    /\ owed \subseteq Nat /\ uiOwed \subseteq Nat /\ retired \subseteq Nat /\ lost \subseteq Nat

\* Whatever was undone, redone, abandoned or evicted, what is in effect lies before the
\* cursor, and the entries keep the order and the ids they were made with.
HistoryInOrder == DoneBeforeCursor /\ IdsInOrder

\* A record that was ever made is in the history, or on one thread's way to being retired,
\* or retired, or went down with a panic: never two of these, so no data is committed while
\* it can still be put back, and never none, so nothing held is forgotten.
RecordsAccountedFor ==
    /\ 1..(nextId - 1) = Ids(entries) \union owed \union uiOwed \union retired \union lost
    /\ nextId - 1 = Cardinality(Ids(entries)) + Cardinality(owed) + Cardinality(uiOwed)
                    + Cardinality(retired) + Cardinality(lost)

\* While anything is waiting or running, the app knows that it is writing.
BusyCoversWork == jobs # <<>> \/ running # 0 => draining

\* An undo that was accepted walks the history it was accepted against: no operation is
\* recorded in between, so it takes back what the user was shown.
UndoOfWhatWasThere ==
    at \in {"locking", "walking", "askingStep", "stepping"} => nextId - 1 = work[running].made

\* A job that was cancelled while it waited never runs.
StoppedNeverRuns == \A j \in stopped : status[j] = "queued"

\* An accepted job comes to an end, whatever became of those before it, unless the user
\* holds it, leaves it waiting for an answer, or closes the app.
AcceptedEnds ==
    \A j \in Jobs : status[j] = "queued"
        ~> (status[j] = "free" \/ paused \/ question # "none" \/ shutdown)

\* Closing the app comes to an end, short of a question that nobody has shown.
CloseEnds == ui.op = "open gate" ~> (ui.op = "closed" \/ question = "raised")

Line == INSTANCE UndoLine WITH
    made   <- nextId - 1,
    done   <- [i \in 1..cursor |-> entries[i].id],
    undone <- [i \in 1..(Len(entries) - cursor) |-> entries[cursor + i].id]

\* The history keeps the promise of UndoLine.
ImplementsUndoLine == Line!Spec

\* A span names only entries in the history.
SpanInHistory == \A i \in DOMAIN span : span[i] \in Ids(entries)

\* While a walk waits for an answer, the thread that has to show the question is not held
\* by the history the walk has locked.
QuestionCanBeAnswered ==
    ~(question = "raised" /\ HistoryLocked /\ ui.op \in {"undo check", "clear", "budget", "release"})
================================================================================

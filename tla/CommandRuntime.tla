---------------------------- MODULE CommandRuntime ----------------------------
(***************************************************************************)
(* Runtime (core/runtime.py): a queue of commands, one worker task that    *)
(* hands them to the handler, and the callers who await the answers.  Each *)
(* action runs from one await to the next.                                 *)
(***************************************************************************)
EXTENDS Naturals, SequencesExt

CONSTANTS
  Callers,  \* each submits one command
  Tasks,    \* worker tasks, one for each start
  Stoppers, \* tasks that may be inside stop() at the same time
  None

VARIABLES
  queue,    \* _queue, the callers whose commands wait
  worker,   \* _worker
  task,     \* each task: "new", "idle", "ended", or the caller it serves
  cancelled, \* tasks that were cancelled
  stopping, \* the task each stopper awaits
  caller    \* each caller: "idle", "waiting", "gone" or "answered"

vars == <<queue, worker, task, cancelled, stopping, caller>>

ASSUME RuntimeAssumption ==
  /\ None \notin Tasks
  /\ Callers \intersect {"new", "idle", "ended"} = {}

-----------------------------------------------------------------------------

TypeOK ==
  /\ queue \in Seq(Callers)
  /\ worker \in Tasks \union {None}
  /\ task \in [Tasks -> {"new", "idle", "ended"} \union Callers]
  /\ cancelled \in SUBSET Tasks
  /\ stopping \in [Stoppers -> Tasks \union {None}]
  /\ caller \in [Callers -> {"idle", "waiting", "gone", "answered"}]

Init ==
  /\ queue = <<>> /\ worker = None
  /\ task = [t \in Tasks |-> "new"] /\ cancelled = {}
  /\ stopping = [s \in Stoppers |-> None]
  /\ caller = [c \in Callers |-> "idle"]

\* start: nothing to do while there is a worker, also one being stopped.
Start(t) ==
  /\ worker = None /\ task[t] = "new"
  /\ worker' = t /\ task' = [task EXCEPT ![t] = "idle"]
  /\ UNCHANGED <<queue, cancelled, stopping, caller>>

\* Variant of StopBegins that lets go of the worker before it has ended.
StopBegins_LetsGo(s) ==
  /\ worker # None /\ stopping[s] = None
  /\ cancelled' = cancelled \union {worker}
  /\ stopping' = [stopping EXCEPT ![s] = worker]
  /\ worker' = None
  /\ UNCHANGED <<queue, task, caller>>

\* stop up to its await.
StopBegins(s) ==
  /\ worker # None /\ stopping[s] = None
  /\ cancelled' = cancelled \union {worker}
  /\ stopping' = [stopping EXCEPT ![s] = worker]
  /\ UNCHANGED <<queue, worker, task, caller>>

\* The task it awaits has ended.
StopEnds(s) ==
  /\ stopping[s] # None /\ task[stopping[s]] = "ended"
  /\ worker' = None
  /\ stopping' = [stopping EXCEPT ![s] = None]
  /\ UNCHANGED <<queue, task, cancelled, caller>>

\* submit, up to the await of its future.
Submit(c) ==
  /\ caller[c] = "idle"
  /\ caller' = [caller EXCEPT ![c] = "waiting"]
  /\ queue' = Append(queue, c)
  /\ UNCHANGED <<worker, task, cancelled, stopping>>

\* The caller is cancelled; its command stays in the queue.
GivesUp(c) ==
  /\ caller[c] = "waiting"
  /\ caller' = [caller EXCEPT ![c] = "gone"]
  /\ UNCHANGED <<queue, worker, task, cancelled, stopping>>

\* Variant of Takes that serves the newest command first.
Takes_Newest(t) ==
  /\ task[t] = "idle" /\ t \notin cancelled /\ queue # <<>>
  /\ task' = [task EXCEPT ![t] = Last(queue)]
  /\ queue' = Front(queue)
  /\ UNCHANGED <<worker, cancelled, stopping, caller>>

\* _run_owner takes the next command and calls the handler.
Takes(t) ==
  /\ task[t] = "idle" /\ t \notin cancelled /\ queue # <<>>
  /\ task' = [task EXCEPT ![t] = Head(queue)]
  /\ queue' = Tail(queue)
  /\ UNCHANGED <<worker, cancelled, stopping, caller>>

\* Variant of Answered that does not pass exceptions on.
Answered_Results(c) == caller' \in {caller, [caller EXCEPT ![c] = "answered"]}

\* set_result or set_exception, also that of a missing handler, unless the
\* future is done.
Answered(c) ==
  caller' = IF caller[c] = "waiting" THEN [caller EXCEPT ![c] = "answered"] ELSE caller

\* The handler returns or raises an Exception.
Answers(t) ==
  /\ task[t] \in Callers /\ t \notin cancelled
  /\ Answered(task[t])
  /\ task' = [task EXCEPT ![t] = "idle"]
  /\ UNCHANGED <<queue, worker, cancelled, stopping>>

\* The handler raises CancelledError of its own, for instance because a task
\* it awaits was cancelled: that is no Exception, so the worker ends with no
\* answer given, and _worker still names it.
Dies(t) ==
  /\ task[t] \in Callers /\ t \notin cancelled
  /\ task' = [task EXCEPT ![t] = "ended"]
  /\ UNCHANGED <<queue, worker, cancelled, stopping, caller>>

\* CancelledError from stop: the future of a command under way is left as it
\* is.
Ends(t) ==
  /\ t \in cancelled /\ task[t] # "ended"
  /\ task' = [task EXCEPT ![t] = "ended"]
  /\ UNCHANGED <<queue, worker, cancelled, stopping, caller>>

Next ==
  \/ \E t \in Tasks : Start(t) \/ Takes(t) \/ Answers(t) \/ Dies(t) \/ Ends(t)
  \/ \E s \in Stoppers : StopBegins(s) \/ StopEnds(s)
  \/ \E c \in Callers : Submit(c) \/ GivesUp(c)

\* The event loop runs what can run, and the handler returns, or raises
\* something, in the end; nobody has to call start or stop.
Fairness ==
  /\ \A t \in Tasks : WF_vars(Takes(t)) /\ WF_vars(Ends(t)) /\ WF_vars(Answers(t) \/ Dies(t))
  /\ \A s \in Stoppers : WF_vars(StopEnds(s))

Spec == Init /\ [][Next]_vars /\ Fairness

-----------------------------------------------------------------------------

\* "Single-process runtime: one OMS command owner": however start and stop
\* follow each other, never do two tasks serve commands.  One stopper at a
\* time: of two, the second forgets a worker started after the first.
OneOwner ==
  \A t, u \in Tasks :
     task[t] \notin {"new", "ended"} /\ task[u] \notin {"new", "ended"} => t = u

\* The worker has ended and _worker still names it: start does nothing until
\* stop has been called.
Fallen == worker # None /\ task[worker] = "ended"

\* A command in the queue is answered unless its caller gives up, the runtime
\* is stopped or the handler fells the worker; one that is left in the queue
\* then, when the runtime is started again.
QueuedServed ==
  \A c \in Callers :
     (Contains(queue, c) /\ worker # None /\ ~Fallen)
        ~> (caller[c] # "waiting" \/ worker = None \/ Fallen)

\* "surface to caller future": whatever the handler raises reaches the caller
\* it was raised for, and the next command is served, so that, unless the
\* runtime is stopped, nobody waits for ever.
RaisesSurface ==
  \A c \in Callers :
     (caller[c] = "waiting" /\ worker # None) ~> (caller[c] # "waiting" \/ worker = None)

Serial == INSTANCE SerialCommands WITH
  arrived  <- {c \in Callers : caller[c] # "idle"},
  pending  <- queue,
  serving  <- {task[t] : t \in Tasks} \intersect Callers,
  answered <- {c \in Callers : caller[c] = "answered"}

\* "One OMS command owner queue": however often the worker is stopped and
\* replaced, and whoever gives up, commands are served in the order of submit,
\* one at a time and once, and only a served one is answered.
SerialSpec == Serial!Spec

=============================================================================

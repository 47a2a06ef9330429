------------------------- MODULE CommandRuntime_proofs -------------------------
(* Theorems about CommandRuntime, for any callers, tasks and queue.        *)
EXTENDS CommandRuntime, TLAPS

(***************************************************************************)
(* The inductive invariant                                                 *)
(***************************************************************************)

Live(t) == task[t] \notin {"new", "ended"}

\* Whoever serves commands is the worker.
LiveIsWorker == \A t \in Tasks : Live(t) => t = worker

\* stop awaits the worker, which start does not replace meanwhile.
AwaitsWorker == \A s \in Stoppers : stopping[s] # None => stopping[s] = worker

IInv == TypeOK /\ LiveIsWorker /\ AwaitsWorker

LEMMA RuntimeInit == Init => IInv
<1> SUFFICES ASSUME Init
             PROVE  IInv
  OBVIOUS
<1>1. TypeOK
  BY DEF Init, TypeOK
<1>2. LiveIsWorker /\ AwaitsWorker
  BY DEF Init, LiveIsWorker, AwaitsWorker, Live
<1>3. QED
  BY <1>1, <1>2 DEF IInv

\* Types do not depend on who stops the runtime, and how often.
LEMMA TypeNext == TypeOK /\ [Next]_vars => TypeOK'
<1> SUFFICES ASSUME TypeOK, [Next]_vars
             PROVE  TypeOK'
  OBVIOUS
<1> USE RuntimeAssumption DEF TypeOK
<1>1. ASSUME NEW t \in Tasks, Start(t) \/ Dies(t) \/ Ends(t)
      PROVE  TypeOK'
  BY <1>1 DEF Start, Dies, Ends
<1>2. ASSUME NEW t \in Tasks, Takes(t)
      PROVE  TypeOK'
  <2>1. Head(queue) \in Callers /\ Tail(queue) \in Seq(Callers)
    BY <1>2 DEF Takes
  <2>2. QED
    BY <1>2, <2>1 DEF Takes
<1>3. ASSUME NEW t \in Tasks, Answers(t)
      PROVE  TypeOK'
  BY <1>3 DEF Answers, Answered
<1>4. ASSUME NEW s \in Stoppers, StopBegins(s) \/ StopEnds(s)
      PROVE  TypeOK'
  BY <1>4 DEF StopBegins, StopEnds
<1>5. ASSUME NEW c \in Callers, Submit(c) \/ GivesUp(c)
      PROVE  TypeOK'
  <2>1. CASE Submit(c)
    <3>1. queue' \in Seq(Callers)
      BY <2>1 DEF Submit
    <3>2. QED
      BY <2>1, <3>1 DEF Submit
  <2>2. CASE GivesUp(c)
    BY <2>2 DEF GivesUp
  <2>3. QED
    BY <1>5, <2>1, <2>2
<1>6. CASE UNCHANGED vars
  BY <1>6 DEF vars
<1>7. QED
  BY <1>1, <1>2, <1>3, <1>4, <1>5, <1>6 DEF Next

\* stop may be called again, but not while a call of it is waiting: of two,
\* the second would forget a worker started after the first.
LEMMA RuntimeNext ==
  ASSUME \A r, s \in Stoppers : r = s
  PROVE  IInv /\ [Next]_vars => IInv'
<1> SUFFICES ASSUME IInv, [Next]_vars
             PROVE  LiveIsWorker' /\ AwaitsWorker'
  BY TypeNext DEF IInv
<1> USE RuntimeAssumption DEF IInv, TypeOK
<1>1. ASSUME NEW t \in Tasks, Start(t)
      PROVE  LiveIsWorker' /\ AwaitsWorker'
  <2>1. LiveIsWorker'
    BY <1>1 DEF Start, LiveIsWorker, Live
  <2>2. AwaitsWorker'
    BY <1>1 DEF Start, AwaitsWorker
  <2>3. QED
    BY <2>1, <2>2
<1>2. ASSUME NEW t \in Tasks, Takes(t) \/ Answers(t)
      PROVE  LiveIsWorker' /\ AwaitsWorker'
  <2>1. LiveIsWorker'
    BY <1>2 DEF Takes, Answers, LiveIsWorker, Live
  <2>2. AwaitsWorker'
    BY <1>2 DEF Takes, Answers, AwaitsWorker
  <2>3. QED
    BY <2>1, <2>2
<1>3. ASSUME NEW t \in Tasks, Dies(t) \/ Ends(t)
      PROVE  LiveIsWorker' /\ AwaitsWorker'
  BY <1>3 DEF Dies, Ends, LiveIsWorker, AwaitsWorker, Live
<1>4. ASSUME NEW s \in Stoppers, StopBegins(s)
      PROVE  LiveIsWorker' /\ AwaitsWorker'
  BY <1>4 DEF StopBegins, LiveIsWorker, AwaitsWorker, Live
<1>5. ASSUME NEW s \in Stoppers, StopEnds(s)
      PROVE  LiveIsWorker' /\ AwaitsWorker'
  <2>1. stopping[s] = worker /\ task[worker] = "ended"
    BY <1>5 DEF StopEnds, AwaitsWorker
  <2>2. \A t \in Tasks : ~Live(t)
    BY <2>1 DEF LiveIsWorker, Live
  <2>3. LiveIsWorker'
    BY <1>5, <2>2 DEF StopEnds, LiveIsWorker, Live
  <2>4. \A r \in Stoppers : stopping'[r] = None
    BY <1>5 DEF StopEnds
  <2>5. QED
    BY <2>3, <2>4 DEF AwaitsWorker
<1>6. ASSUME NEW c \in Callers, Submit(c) \/ GivesUp(c)
      PROVE  LiveIsWorker' /\ AwaitsWorker'
  BY <1>6 DEF Submit, GivesUp, LiveIsWorker, AwaitsWorker, Live
<1>7. CASE UNCHANGED vars
  BY <1>7 DEF vars, LiveIsWorker, AwaitsWorker, Live
<1>8. QED
  BY <1>1, <1>2, <1>3, <1>4, <1>5, <1>6, <1>7 DEF Next

(***************************************************************************)
(* The theorems                                                            *)
(***************************************************************************)

\* The queue holds commands of callers, and every task, stopper and caller is
\* in one of its states, whoever stops the runtime (core/runtime.py).
THEOREM RuntimeTypes == Spec => []TypeOK
<1>1. Init => TypeOK
  BY RuntimeInit DEF IInv
<1>2. QED
  BY <1>1, TypeNext, PTL DEF Spec

\* "Single-process runtime: one OMS command owner": for any number of starts,
\* callers and queued commands, at most one task serves commands, as long as
\* calls of stop do not overlap.
THEOREM RuntimeOneOwner ==
  ASSUME \A r, s \in Stoppers : r = s
  PROVE  Spec => []OneOwner
<1>1. IInv => OneOwner
  BY DEF IInv, LiveIsWorker, Live, OneOwner
<1>2. QED
  BY <1>1, RuntimeInit, RuntimeNext, PTL DEF Spec

(***************************************************************************)
(* The refinement of SerialCommands                                        *)
(***************************************************************************)

Served == {task[t] : t \in Tasks} \intersect Callers
Arrived == {c \in Callers : caller[c] # "idle"}
HaveAnswer == {c \in Callers : caller[c] = "answered"}

\* A task that serves a command is the only one.
LEMMA ServesAlone ==
  ASSUME IInv, NEW t \in Tasks, task[t] \in Callers
  PROVE  Served = {task[t]}
<1>1. Live(t)
  BY RuntimeAssumption DEF Live
<1>2. \A u \in Tasks : task[u] \in Callers => u = t
  BY <1>1, RuntimeAssumption DEF IInv, LiveIsWorker, Live
<1>3. QED
  BY <1>2 DEF Served

\* While a live task waits, nobody is served.
LEMMA IdleServesNone ==
  ASSUME IInv, NEW t \in Tasks, task[t] = "idle"
  PROVE  Served = {}
<1>1. \A u \in Tasks : Live(u) => u = t
  BY DEF IInv, LiveIsWorker, Live
<1>2. \A u \in Tasks : task[u] \notin Callers
  BY <1>1, RuntimeAssumption DEF Live
<1>3. QED
  BY <1>2 DEF Served

\* No command moves while tasks enter states other than serving one.
LEMMA ServedKept ==
  ASSUME IInv, NEW t \in Tasks, task[t] \notin Callers,
         NEW to, to \notin Callers, task' = [task EXCEPT ![t] = to]
  PROVE  Served' = Served
<1>1. \A u \in Tasks : task'[u] = IF u = t THEN to ELSE task[u]
  BY DEF IInv, TypeOK
<1>2. QED
  BY <1>1 DEF Served

\* The end of a command: its task is free, or is no more.
LEMMA ServedEnds ==
  ASSUME IInv, NEW t \in Tasks, task[t] \in Callers,
         NEW to, to \notin Callers, task' = [task EXCEPT ![t] = to]
  PROVE  Served # {} /\ Served' = {}
<1>1. \A u \in Tasks : task'[u] = IF u = t THEN to ELSE task[u]
  BY DEF IInv, TypeOK
<1>2. \A u \in Tasks : task[u] \in Callers => u = t
  BY RuntimeAssumption DEF IInv, LiveIsWorker, Live
<1>3. \A u \in Tasks : task'[u] \notin Callers
  BY <1>1, <1>2
<1>4. QED
  BY <1>3 DEF Served

\* Every step of the runtime is one of SerialCommands or a stutter.
LEMMA SerialStep == IInv /\ [Next]_vars => [Serial!Next]_(Serial!vars)
<1> SUFFICES ASSUME IInv, [Next]_vars
             PROVE  Serial!Next \/ UNCHANGED <<Arrived, queue, Served, HaveAnswer>>
  BY DEF Serial!vars, Arrived, Served, HaveAnswer
<1> USE RuntimeAssumption
<1>1. ASSUME caller' = caller
      PROVE  Arrived' = Arrived /\ HaveAnswer' = HaveAnswer
  BY <1>1 DEF Arrived, HaveAnswer
<1>2. ASSUME NEW t \in Tasks, Start(t)
      PROVE  UNCHANGED <<Arrived, queue, Served, HaveAnswer>>
  <2>1. Served' = Served
    BY <1>2, ServedKept DEF Start
  <2>2. QED
    BY <1>1, <1>2, <2>1 DEF Start
<1>3. ASSUME NEW t \in Tasks, Takes(t)
      PROVE  Serial!Next
  <2>1. Served = {} /\ queue # <<>> /\ queue' = Tail(queue)
    BY <1>3, IdleServesNone DEF Takes
  <2>2. Head(queue) \in Callers
    BY <1>3 DEF Takes, IInv, TypeOK
  <2>3. \A u \in Tasks : task'[u] = IF u = t THEN Head(queue) ELSE task[u]
    BY <1>3 DEF Takes, IInv, TypeOK
  <2>4. Served' = {Head(queue)}
    BY <2>1, <2>2, <2>3 DEF Served
  <2>5. Arrived' = Arrived /\ HaveAnswer' = HaveAnswer
    BY <1>1, <1>3 DEF Takes
  <2>6. Serial!Serve
    BY <2>1, <2>4, <2>5 DEF Serial!Serve, Served, Arrived, HaveAnswer
  <2>7. QED
    BY <2>6 DEF Serial!Next
<1>4. ASSUME NEW t \in Tasks, Answers(t)
      PROVE  Serial!Next
  <2>1. Served # {} /\ Served' = {}
    BY <1>4, ServedEnds DEF Answers
  <2>2. Served = {task[t]}
    BY <1>4, ServesAlone DEF Answers
  <2>3. caller \in [Callers -> {"idle", "waiting", "gone", "answered"}] /\ task[t] \in Callers
    BY <1>4 DEF Answers, IInv, TypeOK
  <2>4. Arrived' = Arrived /\ HaveAnswer' \in {HaveAnswer, HaveAnswer \union Served}
    <3>1. CASE caller[task[t]] = "waiting"
      <4>1. caller' = [caller EXCEPT ![task[t]] = "answered"]
        BY <1>4, <3>1 DEF Answers, Answered
      <4>2. Arrived' = Arrived
        BY <2>3, <3>1, <4>1 DEF Arrived
      <4>3. HaveAnswer' = HaveAnswer \union {task[t]}
        BY <2>3, <4>1 DEF HaveAnswer
      <4>4. QED
        BY <2>2, <4>2, <4>3
    <3>2. CASE caller[task[t]] # "waiting"
      BY <1>1, <1>4, <3>2 DEF Answers, Answered
    <3>3. QED
      BY <3>1, <3>2
  <2>5. queue' = queue
    BY <1>4 DEF Answers
  <2>6. Serial!Finish
    BY <2>1, <2>4, <2>5 DEF Serial!Finish, Served, Arrived, HaveAnswer
  <2>7. QED
    BY <2>6 DEF Serial!Next
<1>5. ASSUME NEW t \in Tasks, Dies(t) \/ Ends(t)
      PROVE  Serial!Next \/ UNCHANGED <<Arrived, queue, Served, HaveAnswer>>
  <2>1. UNCHANGED <<Arrived, queue, HaveAnswer>>
    BY <1>1, <1>5 DEF Dies, Ends
  <2>2. CASE task[t] \in Callers
    <3>1. Served # {} /\ Served' = {}
      BY <1>5, <2>2, ServedEnds DEF Dies, Ends
    <3>2. Serial!Finish
      BY <2>1, <3>1 DEF Serial!Finish, Served, Arrived, HaveAnswer
    <3>3. QED
      BY <3>2 DEF Serial!Next
  <2>3. CASE task[t] \notin Callers
    BY <1>5, <2>1, <2>3, ServedKept DEF Dies, Ends
  <2>4. QED
    BY <2>2, <2>3
<1>6. ASSUME NEW s \in Stoppers, StopBegins(s) \/ StopEnds(s)
      PROVE  UNCHANGED <<Arrived, queue, Served, HaveAnswer>>
  BY <1>1, <1>6 DEF StopBegins, StopEnds, Served
<1>7. ASSUME NEW c \in Callers, Submit(c)
      PROVE  Serial!Next
  <2>1. c \notin Arrived /\ Arrived' = Arrived \union {c} /\ HaveAnswer' = HaveAnswer
    BY <1>7 DEF Submit, Arrived, HaveAnswer, IInv, TypeOK
  <2>2. queue' = Append(queue, c) /\ Served' = Served
    BY <1>7 DEF Submit, Served
  <2>3. Serial!Arrive(c)
    BY <2>1, <2>2 DEF Serial!Arrive, Served, Arrived, HaveAnswer
  <2>4. QED
    BY <2>3 DEF Serial!Next
<1>8. ASSUME NEW c \in Callers, GivesUp(c)
      PROVE  UNCHANGED <<Arrived, queue, Served, HaveAnswer>>
  BY <1>8 DEF GivesUp, Served, Arrived, HaveAnswer, IInv, TypeOK
<1>9. CASE UNCHANGED vars
  BY <1>1, <1>9 DEF vars, Served
<1>10. QED
  BY <1>2, <1>3, <1>4, <1>5, <1>6, <1>7, <1>8, <1>9 DEF Next

\* Commands are served one at a time, in the order of submit, each at most
\* once, and nobody is answered whose command was not served: Runtime refines
\* SerialCommands, for any callers, starts and stops that do not overlap.
THEOREM ServesInOrder ==
  ASSUME \A r, s \in Stoppers : r = s
  PROVE  Spec => SerialSpec
<1>1. Init => Serial!Init
  BY RuntimeAssumption DEF Init, Serial!Init
<1>2. QED
  BY <1>1, SerialStep, RuntimeInit, RuntimeNext, PTL DEF Spec, SerialSpec, Serial!Spec

=============================================================================

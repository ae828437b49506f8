------------------------------- MODULE TaskRunner -------------------------------
(***************************************************************************)
(* task_runner (system/task.h): clients enqueue tasks and ask the worker   *)
(* pool for a run of each; the pool's threads run do_run.  Nothing guards  *)
(* the std::queue, so each of its operations is two steps, which begin and *)
(* end it, and other threads step in between.  C++ defines what it does    *)
(* only if no thread is inside an operation when another begins one, two   *)
(* front()s excepted, and for front() and pop() if there is a task; from   *)
(* the first time on that this is not so the queue is broken, and its      *)
(* tasks are any.  The pool is Boost's: it calls what was scheduled, once  *)
(* each, on any free thread.                                               *)
(***************************************************************************)
EXTENDS Naturals, Sequences, FiniteSets

CONSTANTS
  Workers,    \* the threads of the worker pool
  Clients,    \* the threads that enqueue
  Tasks,      \* the tasks, each enqueued once
  EmptyTasks  \* those that hold no function

ASSUME FiniteAssumption == IsFiniteSet(Workers) /\ IsFiniteSet(Clients)
ASSUME ThreadsAssumption == Workers \cap Clients = {}

VARIABLES
  tasks,       \* _tasks, while it is not broken
  broken,      \* the queue was used as C++ does not allow
  scheduled,   \* the calls of do_run no thread has taken up
  at,          \* what each thread does next
  held,        \* the task each thread pushes or has a copy of, if any
  pushed,      \* the tasks pushed, in order
  seen,        \* the tasks do_run took and popped, in order
  interleaved  \* a do_run called front() when another had, and not yet popped

history == <<pushed, seen, interleaved>>
vars == <<tasks, broken, scheduled, at, held, pushed, seen, interleaved>>

Threads == Workers \cup Clients

Init ==
  /\ tasks = <<>> /\ broken = FALSE
  /\ scheduled = 0
  /\ at = [t \in Threads |-> "idle"]
  /\ held = [t \in Threads |-> {}]
  /\ pushed = <<>> /\ seen = <<>> /\ interleaved = FALSE

Goto(t, step) == at' = [at EXCEPT ![t] = step]
Hold(t, some) == held' = [held EXCEPT ![t] = some]
In(task, s) == \E i \in DOMAIN s : s[i] = task

-------------------------------------------------------------------------------
\* A thread enters front(), pop() or push().
Operations == {"fronting", "popping", "pushing"}

Enter(t, op) ==
  /\ Goto(t, op)
  /\ broken' = \/ broken
               \/ op # "pushing" /\ tasks = <<>>
               \/ \E u \in Threads \ {t} : at[u] \in Operations /\ {op, at[u]} # {"fronting"}

\* _tasks.push(task) ends.
PushEnd(t) ==
  /\ at[t] = "pushing"
  /\ \E task \in held[t] :
       /\ tasks' = IF broken THEN tasks ELSE Append(tasks, task)
       /\ pushed' = Append(pushed, task)
  /\ Hold(t, {})
  /\ Goto(t, IF t \in Clients THEN "run" ELSE "idle")
  /\ UNCHANGED <<broken, scheduled, seen, interleaved>>

\* enqueue(task)
Enqueue(c, task) ==
  /\ at[c] = "idle"
  /\ ~In(task, pushed) /\ \A u \in Threads : task \notin held[u]
  /\ Hold(c, {task})
  /\ Enter(c, "pushing")
  /\ UNCHANGED <<tasks, scheduled, history>>

\* Mutant: run() leaves it to the call that is scheduled already.
RunUnlessScheduled(c) ==
  /\ at[c] = "run"
  /\ scheduled' = 1
  /\ Goto(c, "idle")
  /\ UNCHANGED <<tasks, broken, held, history>>

\* Mutant: run() schedules two calls.
RunTwice(c) ==
  /\ at[c] = "run"
  /\ scheduled' = scheduled + 2
  /\ Goto(c, "idle")
  /\ UNCHANGED <<tasks, broken, held, history>>

\* run(), called once for each task enqueued and after it.
Run(c) ==
  /\ at[c] = "run"
  /\ scheduled' = scheduled + 1
  /\ Goto(c, "idle")
  /\ UNCHANGED <<tasks, broken, held, history>>

\* A thread of the pool takes up a call of do_run.
Begin(w) ==
  /\ at[w] = "idle" /\ scheduled > 0
  /\ scheduled' = scheduled - 1
  /\ Goto(w, "front")
  /\ UNCHANGED <<tasks, broken, held, history>>

\* A worker that has called front() and not returned from pop().
Taking == {w \in Workers : at[w] \in {"fronting", "pop", "popping"}}

\* task task = _tasks.front() ...
FrontBegin(w) ==
  /\ at[w] = "front"
  /\ Enter(w, "fronting")
  /\ interleaved' = (interleaved \/ Taking # {})
  /\ UNCHANGED <<tasks, scheduled, held, pushed, seen>>

\* ... has its copy.
FrontEnd(w) ==
  /\ at[w] = "fronting"
  /\ \E task \in IF broken THEN Tasks ELSE {Head(tasks)} : Hold(w, {task})
  /\ Goto(w, "pop")
  /\ UNCHANGED <<tasks, broken, scheduled, history>>

\* _tasks.pop() ...
PopBegin(w) ==
  /\ at[w] = "pop"
  /\ Enter(w, "popping")
  /\ UNCHANGED <<tasks, scheduled, held, history>>

\* Mutant: pop() leaves the queue as it is.
PopEndNothing(w) ==
  /\ at[w] = "popping"
  /\ \E task \in held[w] : seen' = Append(seen, task)
  /\ Goto(w, "look")
  /\ UNCHANGED <<tasks, broken, scheduled, held, pushed, interleaved>>

\* ... has removed the first task, whichever it is by then.
PopEnd(w) ==
  /\ at[w] = "popping"
  /\ tasks' = IF broken THEN tasks ELSE Tail(tasks)
  /\ \E task \in held[w] : seen' = Append(seen, task)
  /\ Goto(w, "look")
  /\ UNCHANGED <<broken, scheduled, held, pushed, interleaved>>

\* The rest of do_run, which calls no task: one that is paused is queued again,
\* with no run scheduled for it ...
Suspend(w) ==
  /\ at[w] = "look" /\ held[w] \cap EmptyTasks = {}
  /\ Enter(w, "pushing")
  /\ UNCHANGED <<tasks, scheduled, held, history>>

\* ... and any other is dropped.
Drop(w) ==
  /\ at[w] = "look"
  /\ Hold(w, {})
  /\ Goto(w, "idle")
  /\ UNCHANGED <<tasks, broken, scheduled, history>>

\* A thread goes on with what it began, and the pool with what was scheduled.
WorkerStep(w) ==
  \/ Begin(w) \/ FrontBegin(w) \/ FrontEnd(w) \/ PopBegin(w) \/ PopEnd(w)
  \/ Suspend(w) \/ Drop(w) \/ PushEnd(w)
ClientStep(c) == PushEnd(c) \/ Run(c)
Next ==
  \/ \E w \in Workers : WorkerStep(w)
  \/ \E c \in Clients : ClientStep(c) \/ \E task \in Tasks : Enqueue(c, task)

Spec ==
  /\ Init /\ [][Next]_vars
  /\ \A w \in Workers : WF_vars(WorkerStep(w))
  /\ \A c \in Clients : WF_vars(ClientStep(c))

-------------------------------------------------------------------------------
(***************************************************************************)
(* do_run asks neither before front() nor before pop() whether there is a  *)
(* task.  There is one, however many threads push, take and queue again,   *)
(* until two of them are inside the queue at once: the queue does not run  *)
(* empty under a do_run, it breaks before.                                 *)
(***************************************************************************)
NeverEmpty ==
  ~broken => \A w \in Workers : at[w] \in {"front", "fronting", "pop", "popping"} => tasks # <<>>

(***************************************************************************)
(* Until then a pop() removes one task each time, and do_run gets every    *)
(* task once and in the order of the pushes, those queued again included,  *)
(* as long as no do_run called front() between another's front() and       *)
(* pop(): then two get the same task, and one is popped that none got.     *)
(***************************************************************************)
SeenInOrder ==
  ~broken =>
    /\ Len(seen) + Len(tasks) = Len(pushed)
    /\ ~interleaved => seen \o tasks = pushed

\* A paused task was queued again.
QueuedAgain == \E i, j \in DOMAIN pushed : i # j /\ pushed[i] = pushed[j]

(***************************************************************************)
(* The run asked for with a task reaches it, unless two threads met in the *)
(* queue, two do_runs interleaved, or a task was queued again and took up  *)
(* a run of another: nothing else leaves a task in the queue.              *)
(***************************************************************************)
AllSeen ==
  \A task \in Tasks :
    In(task, pushed) ~> In(task, seen) \/ broken \/ interleaved \/ QueuedAgain

-------------------------------------------------------------------------------
\* The inductive invariant behind the first two properties.
Steps == Operations \cup {"idle", "front", "pop", "look", "run"}

TypeOK ==
  /\ tasks \in Seq(Tasks) /\ broken \in BOOLEAN /\ scheduled \in Nat
  /\ at \in [Threads -> Steps]
  /\ held \in [Threads -> SUBSET Tasks]
  /\ \A t \in Threads :
       at[t] \in {"pop", "popping", "look", "pushing"} => \E task \in Tasks : held[t] = {task}
  /\ pushed \in Seq(Tasks) /\ seen \in Seq(Tasks) /\ interleaved \in BOOLEAN

ToPop == {w \in Workers : at[w] \in {"front", "fronting", "pop", "popping"}}
ToAskFor == {c \in Clients : at[c] = "run"}

\* The runs under way, or that will be asked for, have each a task in the queue.
Due == scheduled + Cardinality(ToPop) + Cardinality(ToAskFor)
DueAreQueued == ~broken => Due <= Len(tasks)

\* Only one do_run is between front() and pop(), with the task it will pop.
OneTakesTheFirst ==
  ~broken /\ ~interleaved =>
    /\ \A v, w \in Taking : v = w
    /\ \A w \in Taking : at[w] # "fronting" => held[w] = {Head(tasks)}

IInv == TypeOK /\ DueAreQueued /\ NeverEmpty /\ OneTakesTheFirst /\ SeenInOrder
===============================================================================

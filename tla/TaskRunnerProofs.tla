---------------------------- MODULE TaskRunnerProofs ----------------------------
(***************************************************************************)
(* Proofs about TaskRunner, for every number of threads and tasks.  The    *)
(* types come first; then DueAreQueued, which counts the runs that are     *)
(* still to pop a task; then OneTakesTheFirst and SeenInOrder, which       *)
(* relate the queue to what was pushed and seen.                           *)
(***************************************************************************)
EXTENDS TaskRunner, FiniteSetTheorems, TLAPS

USE ThreadsAssumption

\* The type invariant is inductive.
LEMMA TypeInit == Init => TypeOK
<1> SUFFICES ASSUME Init PROVE TypeOK
  OBVIOUS
<1>1. at \in [Threads -> Steps] /\ \A t \in Threads : at[t] = "idle"
  BY DEF Init, Steps
<1>2. held \in [Threads -> SUBSET Tasks]
  BY DEF Init
<1>3. tasks \in Seq(Tasks) /\ pushed \in Seq(Tasks) /\ seen \in Seq(Tasks) /\ scheduled \in Nat
      /\ broken \in BOOLEAN /\ interleaved \in BOOLEAN
  <2>1. <<>> \in Seq(Tasks)
    OBVIOUS
  <2>2. tasks = <<>> /\ pushed = <<>> /\ seen = <<>> /\ scheduled = 0
    BY DEF Init
  <2>3. broken \in BOOLEAN /\ interleaved \in BOOLEAN
    BY Zenon DEF Init
  <2>4. QED
    BY <2>1, <2>2, <2>3
<1>4. QED
  BY <1>1, <1>2, <1>3 DEF TypeOK

\* What is broken stays broken.
LEMMA Breaks ==
  ASSUME NEW t, NEW op, Enter(t, op)
  PROVE  broken => broken'
BY Zenon DEF Enter

\* A thread that goes on moves itself only.
LEMMA Moves ==
  ASSUME TypeOK, NEW t \in Threads, NEW step \in Steps, Goto(t, step)
  PROVE  /\ at' \in [Threads -> Steps]
         /\ \A u \in Threads : at'[u] = IF u = t THEN step ELSE at[u]
BY DEF TypeOK, Goto

LEMMA Holds ==
  ASSUME TypeOK, NEW t \in Threads, NEW some \in SUBSET Tasks, Hold(t, some)
  PROVE  /\ held' \in [Threads -> SUBSET Tasks]
         /\ \A u \in Threads : held'[u] = IF u = t THEN some ELSE held[u]
BY DEF TypeOK, Hold

LEMMA Enters ==
  ASSUME TypeOK, NEW t \in Threads, NEW op \in Operations, Enter(t, op)
  PROVE  /\ Goto(t, op) /\ op \in Steps
         /\ at' \in [Threads -> Steps]
         /\ \A u \in Threads : at'[u] = IF u = t THEN op ELSE at[u]
         /\ broken' \in BOOLEAN /\ (broken => broken')
<1>1. Goto(t, op) /\ op \in Steps
  BY DEF Enter, Steps
<1>2. broken' \in BOOLEAN /\ (broken => broken')
  BY DEF Enter, TypeOK
<1>3. QED
  BY <1>1, <1>2, Moves

LEMMA OneHeld ==
  ASSUME TypeOK, NEW t \in Threads, at[t] \in {"pop", "popping", "look", "pushing"}
  PROVE  \E task \in Tasks : held[t] = {task}
BY DEF TypeOK

\* Each step keeps the types, as front() and pop() find a task.
LEMMA TypeNext == TypeOK /\ NeverEmpty /\ [Next]_vars => TypeOK'
<1> SUFFICES ASSUME TypeOK, NeverEmpty, [Next]_vars PROVE TypeOK'
  OBVIOUS
<1>w. Workers \subseteq Threads /\ Clients \subseteq Threads
  BY DEF Threads
<1>1. ASSUME NEW w \in Workers, Begin(w) PROVE TypeOK'
  BY <1>1 DEF TypeOK, Begin, Goto, history, Threads, Steps
<1>2. ASSUME NEW w \in Workers, FrontBegin(w) PROVE TypeOK'
  <2>1. Enter(w, "fronting") /\ "fronting" \in Operations /\ w \in Threads
    BY <1>2, <1>w DEF FrontBegin, Operations
  <2>2. interleaved' \in BOOLEAN /\ UNCHANGED <<tasks, scheduled, held, pushed, seen>>
    BY <1>2 DEF FrontBegin, TypeOK
  <2>3. QED
    BY <2>1, <2>2, Enters DEF TypeOK
<1>3. ASSUME NEW w \in Workers, FrontEnd(w) PROVE TypeOK'
  <2>1. Goto(w, "pop") /\ "pop" \in Steps /\ w \in Threads /\ UNCHANGED <<tasks, broken, scheduled, history>>
    BY <1>3, <1>w DEF FrontEnd, Steps
  <2>2. PICK task : task \in (IF broken THEN Tasks ELSE {Head(tasks)}) /\ Hold(w, {task})
    BY <1>3 DEF FrontEnd
  <2>3. task \in Tasks
    <3>1. ~broken => tasks # <<>>
      BY <1>3 DEF FrontEnd, NeverEmpty
    <3>2. QED
      BY <2>2, <3>1 DEF TypeOK
  <2>4. held' \in [Threads -> SUBSET Tasks] /\ at' \in [Threads -> Steps]
    BY <2>1, <2>2, <2>3, Moves, Holds
  <2>5. ASSUME NEW u \in Threads, at'[u] \in {"pop", "popping", "look", "pushing"}
        PROVE  \E x \in Tasks : held'[u] = {x}
    <3>1. CASE u = w
      BY <2>2, <2>3, <3>1, Holds
    <3>2. CASE u # w
      BY <2>1, <2>2, <2>3, <2>5, <3>2, Moves, Holds, OneHeld
    <3>3. QED
      BY <3>1, <3>2
  <2>6. QED
    BY <2>1, <2>4, <2>5 DEF TypeOK, history
<1>4. ASSUME NEW w \in Workers, PopBegin(w) PROVE TypeOK'
  <2>1. Enter(w, "popping") /\ "popping" \in Operations /\ w \in Threads /\ at[w] = "pop"
    BY <1>4, <1>w DEF PopBegin, Operations
  <2>2. QED
    BY <1>4, <2>1, Enters DEF TypeOK, PopBegin, history
<1>5. ASSUME NEW w \in Workers, PopEnd(w) PROVE TypeOK'
  <2>1. Goto(w, "look") /\ "look" \in Steps /\ w \in Threads /\ at[w] = "popping"
    BY <1>5, <1>w DEF PopEnd, Steps
  <2>2. PICK task \in Tasks : seen' = Append(seen, task)
    BY <1>5, <2>1 DEF PopEnd, TypeOK
  <2>3. seen' \in Seq(Tasks)
    BY <2>2 DEF TypeOK
  <2>4. tasks' \in Seq(Tasks)
    <3>1. ~broken => tasks # <<>>
      BY <2>1 DEF NeverEmpty
    <3>2. QED
      BY <1>5, <3>1 DEF TypeOK, PopEnd
  <2>5. QED
    BY <1>5, <2>1, <2>3, <2>4, Moves DEF TypeOK, PopEnd
<1>6. ASSUME NEW w \in Workers, Suspend(w) PROVE TypeOK'
  <2>1. Enter(w, "pushing") /\ "pushing" \in Operations /\ w \in Threads /\ at[w] = "look"
    BY <1>6, <1>w DEF Suspend, Operations
  <2>2. QED
    BY <1>6, <2>1, Enters DEF TypeOK, Suspend, history
<1>7. ASSUME NEW w \in Workers, Drop(w) PROVE TypeOK'
  BY <1>7, <1>w DEF TypeOK, Drop, Hold, Goto, history, Steps
<1>8. ASSUME NEW t \in Threads, PushEnd(t) PROVE TypeOK'
  <2>1. PICK task \in Tasks : /\ tasks' = IF broken THEN tasks ELSE Append(tasks, task)
                              /\ pushed' = Append(pushed, task)
    BY <1>8 DEF PushEnd, TypeOK
  <2>2. tasks' \in Seq(Tasks) /\ pushed' \in Seq(Tasks)
    BY <2>1 DEF TypeOK
  <2>3. PICK step \in Steps : Goto(t, step) /\ step \in {"run", "idle"}
    BY <1>8 DEF PushEnd, Steps
  <2>4. Hold(t, {}) /\ UNCHANGED <<broken, scheduled, seen, interleaved>>
    BY <1>8 DEF PushEnd
  <2>5. held' \in [Threads -> SUBSET Tasks] /\ at' \in [Threads -> Steps]
    BY <2>3, <2>4, Moves, Holds
  <2>6. ASSUME NEW u \in Threads, at'[u] \in {"pop", "popping", "look", "pushing"}
        PROVE  \E x \in Tasks : held'[u] = {x}
    BY <2>3, <2>4, <2>6, Moves, Holds, OneHeld
  <2>7. QED
    BY <2>2, <2>4, <2>5, <2>6 DEF TypeOK
<1>9. ASSUME NEW c \in Clients, Run(c) PROVE TypeOK'
  BY <1>9, <1>w DEF TypeOK, Run, Goto, history, Steps
<1>10. ASSUME NEW c \in Clients, NEW task \in Tasks, Enqueue(c, task) PROVE TypeOK'
  <2>1. Enter(c, "pushing") /\ "pushing" \in Operations /\ c \in Threads /\ Hold(c, {task})
    BY <1>10, <1>w DEF Enqueue, Operations
  <2>2. held' \in [Threads -> SUBSET Tasks] /\ at' \in [Threads -> Steps] /\ broken' \in BOOLEAN
    BY <2>1, Enters, Holds
  <2>3. ASSUME NEW u \in Threads, at'[u] \in {"pop", "popping", "look", "pushing"}
        PROVE  \E x \in Tasks : held'[u] = {x}
    <3>1. CASE u = c
      BY <2>1, <3>1, Holds
    <3>2. CASE u # c
      BY <2>1, <2>3, <3>2, Enters, Holds, OneHeld
    <3>3. QED
      BY <3>1, <3>2
  <2>4. QED
    BY <1>10, <2>2, <2>3 DEF TypeOK, Enqueue, history
<1>11. CASE UNCHANGED vars
  BY <1>11 DEF TypeOK, vars
<1>12. QED
  BY <1>w, <1>1, <1>2, <1>3, <1>4, <1>5, <1>6, <1>7, <1>8, <1>9, <1>10, <1>11, Zenon
     DEF Next, WorkerStep, ClientStep

-------------------------------------------------------------------------------
\* The runs that are due are finitely many, and a worker that is to pop is one.
LEMMA DueTyped ==
  ASSUME TypeOK
  PROVE  /\ IsFiniteSet(ToPop) /\ Cardinality(ToPop) \in Nat
         /\ IsFiniteSet(ToAskFor) /\ Cardinality(ToAskFor) \in Nat
         /\ Due \in Nat
         /\ \A w \in ToPop : Due >= 1
<1>1. ToPop \in SUBSET Workers /\ ToAskFor \in SUBSET Clients
  BY DEF TypeOK, ToPop, ToAskFor
<1>2. IsFiniteSet(ToPop) /\ IsFiniteSet(ToAskFor)
  BY <1>1, FiniteAssumption, FS_Subset
<1>3. Cardinality(ToPop) \in Nat /\ Cardinality(ToAskFor) \in Nat
  BY <1>2, FS_CardinalityType
<1>4. Due \in Nat
  BY <1>3 DEF Due, TypeOK
<1>5. ASSUME NEW w \in ToPop PROVE Due >= 1
  <2>1. Cardinality(ToPop) # 0
    BY <1>2, FS_EmptySet
  <2>2. QED
    BY <1>3, <2>1 DEF Due, TypeOK
<1>6. QED
  BY <1>2, <1>3, <1>4, <1>5

\* A worker that goes on changes ToPop by itself, a client ToAskFor.
LEMMA WorkerMoves ==
  ASSUME TypeOK, NEW w \in Workers, NEW step, Goto(w, step), step # "run"
  PROVE  /\ w \in ToPop <=> at[w] \in {"front", "fronting", "pop", "popping"}
         /\ step \in {"front", "fronting", "pop", "popping"} => ToPop' = ToPop \cup {w}
         /\ step \notin {"front", "fronting", "pop", "popping"} => ToPop' = ToPop \ {w}
         /\ ToAskFor' = ToAskFor
BY DEF TypeOK, Threads, ToPop, ToAskFor, Goto

LEMMA ClientMoves ==
  ASSUME TypeOK, NEW c \in Clients, NEW step, Goto(c, step)
  PROVE  /\ c \in ToAskFor <=> at[c] = "run"
         /\ step = "run" => ToAskFor' = ToAskFor \cup {c}
         /\ step # "run" => ToAskFor' = ToAskFor \ {c}
         /\ ToPop' = ToPop
BY DEF TypeOK, Threads, ToPop, ToAskFor, Goto

\* Each step takes a run from one of the three places to the next; a run leaves
\* the count with the task it pops, and comes to it after the task it is for.
LEMMA DueNext == TypeOK /\ DueAreQueued /\ [Next]_vars => DueAreQueued'
<1> SUFFICES ASSUME TypeOK, DueAreQueued, [Next]_vars PROVE DueAreQueued'
  OBVIOUS
<1>a. tasks \in Seq(Tasks) /\ scheduled \in Nat /\ Len(tasks) \in Nat
  BY DEF TypeOK
\* Whoever leaves the count, and adds to the queue if anything.
<1>k. ASSUME Due' = Due, broken => broken', Len(tasks') \in Nat, Len(tasks) <= Len(tasks')
      PROVE  DueAreQueued'
  BY <1>k, <1>a, DueTyped DEF DueAreQueued
<1>1. ASSUME NEW w \in Workers, Begin(w) PROVE DueAreQueued'
  <2>1. Goto(w, "front") /\ at[w] = "idle" /\ UNCHANGED <<tasks, broken>>
        /\ scheduled > 0 /\ scheduled' = scheduled - 1
    BY <1>1 DEF Begin
  <2>2. ToPop' = ToPop \cup {w} /\ w \notin ToPop /\ ToAskFor' = ToAskFor
    BY <2>1, WorkerMoves
  <2>3. Cardinality(ToPop') = Cardinality(ToPop) + 1
    BY <2>2, DueTyped, FS_AddElement
  <2>4. Due' = Due
    BY <2>1, <2>2, <2>3, <1>a, DueTyped DEF Due
  <2>5. QED
    BY <1>k, <1>a, <2>1, <2>4
<1>2. ASSUME NEW w \in Workers, FrontBegin(w) \/ FrontEnd(w) \/ PopBegin(w) PROVE DueAreQueued'
  <2>1. \E step \in {"fronting", "pop", "popping"} : Goto(w, step)
    BY <1>2, Zenon DEF FrontBegin, FrontEnd, PopBegin, Enter
  <2>2. at[w] \in {"front", "fronting", "pop"} /\ UNCHANGED <<tasks, scheduled>>
    BY <1>2 DEF FrontBegin, FrontEnd, PopBegin
  <2>b. broken => broken'
    BY <1>2, Breaks, Zenon DEF FrontBegin, FrontEnd, PopBegin
  <2>3. ToPop' = ToPop /\ ToAskFor' = ToAskFor
    BY <2>1, <2>2, WorkerMoves
  <2>4. Due' = Due
    BY <2>2, <2>3 DEF Due
  <2>5. QED
    BY <1>k, <1>a, <2>b, <2>2, <2>4
<1>3. ASSUME NEW w \in Workers, PopEnd(w) PROVE DueAreQueued'
  <2>1. Goto(w, "look") /\ at[w] = "popping" /\ UNCHANGED <<broken, scheduled>>
        /\ tasks' = IF broken THEN tasks ELSE Tail(tasks)
    BY <1>3 DEF PopEnd
  <2>2. ToPop' = ToPop \ {w} /\ w \in ToPop /\ ToAskFor' = ToAskFor
    BY <2>1, WorkerMoves
  <2>3. Cardinality(ToPop') = Cardinality(ToPop) - 1
    BY <2>2, DueTyped, FS_RemoveElement
  <2>4. Due' = Due - 1
    BY <2>1, <2>2, <2>3, <1>a, DueTyped DEF Due
  <2>5. ASSUME ~broken PROVE Due' <= Len(tasks')
    <3>1. Due \in Nat /\ Due >= 1 /\ Due <= Len(tasks)
      BY <2>2, <2>5, DueTyped DEF DueAreQueued
    <3>2. Len(tasks') = Len(tasks) - 1
      BY <1>a, <2>1, <2>5, <3>1
    <3>3. QED
      BY <1>a, <2>4, <3>1, <3>2
  <2>6. QED
    BY <2>1, <2>5 DEF DueAreQueued
<1>4. ASSUME NEW w \in Workers, Suspend(w) \/ Drop(w) PROVE DueAreQueued'
  <2>1. \E step \in {"pushing", "idle"} : Goto(w, step)
    BY <1>4, Zenon DEF Suspend, Drop, Enter
  <2>2. at[w] = "look" /\ UNCHANGED <<tasks, scheduled>>
    BY <1>4 DEF Suspend, Drop
  <2>b. broken => broken'
    BY <1>4, Breaks, Zenon DEF Suspend, Drop
  <2>3. ToPop' = ToPop /\ ToAskFor' = ToAskFor
    BY <2>1, <2>2, WorkerMoves
  <2>4. Due' = Due
    BY <2>2, <2>3 DEF Due
  <2>5. QED
    BY <1>k, <1>a, <2>b, <2>2, <2>4
<1>5. ASSUME NEW t \in Threads, PushEnd(t)
      PROVE  /\ at[t] = "pushing" /\ UNCHANGED <<broken, scheduled>>
             /\ ~broken => Len(tasks') = Len(tasks) + 1
             /\ Len(tasks') \in Nat /\ Len(tasks) <= Len(tasks')
  <2>1. PICK task : task \in held[t] /\ tasks' = IF broken THEN tasks ELSE Append(tasks, task)
    BY <1>5 DEF PushEnd
  <2>2. at[t] = "pushing" /\ UNCHANGED <<broken, scheduled>> /\ task \in Tasks
    BY <1>5, <2>1 DEF PushEnd, TypeOK
  <2>3. QED
    BY <1>a, <2>1, <2>2
<1>6. ASSUME NEW w \in Workers, PushEnd(w) PROVE DueAreQueued'
  <2>1. w \in Threads /\ w \notin Clients /\ Goto(w, "idle")
    BY <1>6 DEF PushEnd, Threads
  <2>2. ToPop' = ToPop /\ ToAskFor' = ToAskFor
    <3>1. at[w] = "pushing" /\ TypeOK
      BY <1>6 DEF PushEnd
    <3>2. QED
      BY <2>1, <3>1, WorkerMoves
  <2>3. Due' = Due
    BY <1>5, <1>6, <2>1, <2>2 DEF Due
  <2>4. QED
    BY <1>k, <1>5, <1>6, <2>1, <2>3
<1>7. ASSUME NEW c \in Clients, PushEnd(c) PROVE DueAreQueued'
  <2>1. c \in Threads /\ Goto(c, "run")
    BY <1>7 DEF PushEnd, Threads
  <2>2. ToAskFor' = ToAskFor \cup {c} /\ c \notin ToAskFor /\ ToPop' = ToPop
    BY <1>5, <1>7, <2>1, ClientMoves
  <2>3. Cardinality(ToAskFor') = Cardinality(ToAskFor) + 1
    BY <2>2, DueTyped, FS_AddElement
  <2>4. Due' = Due + 1
    BY <1>5, <1>7, <1>a, <2>1, <2>2, <2>3, DueTyped DEF Due
  <2>5. QED
    BY <1>a, <1>5, <1>7, <2>1, <2>4, DueTyped DEF DueAreQueued
<1>8. ASSUME NEW c \in Clients, Run(c) PROVE DueAreQueued'
  <2>1. Goto(c, "idle") /\ at[c] = "run" /\ UNCHANGED <<tasks, broken>> /\ scheduled' = scheduled + 1
    BY <1>8 DEF Run
  <2>2. ToAskFor' = ToAskFor \ {c} /\ c \in ToAskFor /\ ToPop' = ToPop
    BY <2>1, ClientMoves
  <2>3. Cardinality(ToAskFor') = Cardinality(ToAskFor) - 1
    BY <2>2, DueTyped, FS_RemoveElement
  <2>4. Due' = Due
    BY <2>1, <2>2, <2>3, <1>a, DueTyped DEF Due
  <2>5. QED
    BY <1>k, <1>a, <2>1, <2>4
<1>9. ASSUME NEW c \in Clients, NEW task \in Tasks, Enqueue(c, task) PROVE DueAreQueued'
  <2>1. Goto(c, "pushing") /\ at[c] = "idle" /\ UNCHANGED <<tasks, scheduled>> /\ (broken => broken')
    BY <1>9 DEF Enqueue, Enter
  <2>2. ToAskFor' = ToAskFor /\ ToPop' = ToPop
    BY <2>1, ClientMoves
  <2>3. Due' = Due
    BY <2>1, <2>2 DEF Due
  <2>4. QED
    BY <1>k, <1>a, <2>1, <2>3
<1>10. CASE UNCHANGED vars
  BY <1>10 DEF DueAreQueued, vars, Due, ToPop, ToAskFor
<1>11. QED
  BY <1>1, <1>2, <1>3, <1>4, <1>6, <1>7, <1>8, <1>9, <1>10, Zenon
     DEF Next, WorkerStep, ClientStep

LEMMA DueInit == Init => DueAreQueued
<1> SUFFICES ASSUME Init PROVE DueAreQueued
  OBVIOUS
<1>1. ToPop = {} /\ ToAskFor = {}
  BY DEF Init, ToPop, ToAskFor, Threads
<1>2. Due = 0
  BY <1>1, FS_EmptySet DEF Due, Init
<1>3. QED
  BY <1>2 DEF Init, DueAreQueued

LEMMA DueNeverEmpty == TypeOK /\ DueAreQueued => NeverEmpty
<1> SUFFICES ASSUME TypeOK, DueAreQueued, ~broken,
                    NEW w \in Workers, at[w] \in {"front", "fronting", "pop", "popping"}
             PROVE  tasks # <<>>
  BY DEF NeverEmpty
<1>1. Due \in Nat /\ Due >= 1
  BY DueTyped DEF ToPop
<1>2. QED
  BY <1>1 DEF DueAreQueued, TypeOK

LEMMA DueIInv ==
  /\ Init => TypeOK /\ DueAreQueued
  /\ TypeOK /\ DueAreQueued /\ [Next]_vars => (TypeOK /\ DueAreQueued)'
BY TypeInit, DueInit, TypeNext, DueNext, DueNeverEmpty

\* The state of the task_runner keeps its types: front() and pop() find a task,
\* or anything.
THEOREM TypeCorrect == Spec => []TypeOK
BY DueIInv, PTL DEF Spec

\* do_run never finds the queue empty before it is broken, whatever the number
\* of clients and workers, and whichever tasks are paused.
THEOREM TasksThere == Spec => []NeverEmpty
BY DueIInv, DueNeverEmpty, PTL DEF Spec

-------------------------------------------------------------------------------
\* The head of a queue stays when one is added, and leaves with the tail.
LEMMA AddLast ==
  ASSUME NEW S, NEW s \in Seq(S), NEW q \in Seq(S), NEW x \in S
  PROVE  /\ s \o Append(q, x) = Append(s \o q, x)
         /\ q # <<>> => Head(Append(q, x)) = Head(q)
         /\ Len(Append(q, x)) = Len(q) + 1
OBVIOUS

LEMMA MoveFirst ==
  ASSUME NEW S, NEW s \in Seq(S), NEW q \in Seq(S), q # <<>>
  PROVE  /\ Append(s, Head(q)) \o Tail(q) = s \o q
         /\ Len(Append(s, Head(q))) = Len(s) + 1 /\ Len(Tail(q)) = Len(q) - 1
OBVIOUS

\* Until it is broken the queue holds what was pushed and not seen.
LEMMA OrderNext ==
  TypeOK /\ NeverEmpty /\ OneTakesTheFirst /\ SeenInOrder /\ [Next]_vars
    => OneTakesTheFirst' /\ SeenInOrder'
<1> SUFFICES ASSUME TypeOK, NeverEmpty, OneTakesTheFirst, SeenInOrder, [Next]_vars
             PROVE  OneTakesTheFirst' /\ SeenInOrder'
  OBVIOUS
<1> DEFINE Apart == /\ \A v, w \in Taking : v = w
                    /\ \A w \in Taking : at[w] # "fronting" => held[w] = {Head(tasks)}
<1>a. tasks \in Seq(Tasks) /\ pushed \in Seq(Tasks) /\ seen \in Seq(Tasks)
  BY DEF TypeOK
<1>w. Workers \subseteq Threads /\ Clients \subseteq Threads /\ Taking \subseteq Workers
  BY DEF Threads, Taking
\* Whoever leaves the queue, and takes no first task, nor becomes a second to.
<1>k. ASSUME UNCHANGED <<tasks, pushed, seen>>, broken => broken', interleaved => interleaved',
             ~interleaved' => Taking' \subseteq Taking,
             ~broken' /\ ~interleaved' =>
               \A w \in Taking' : at'[w] # "fronting" => held'[w] = {Head(tasks)}
      PROVE  OneTakesTheFirst' /\ SeenInOrder'
  BY <1>k DEF OneTakesTheFirst, SeenInOrder
<1>1. ASSUME NEW w \in Workers, Begin(w) \/ Drop(w) \/ PopBegin(w) \/ Suspend(w)
      PROVE  OneTakesTheFirst' /\ SeenInOrder'
  <2>1. PICK step \in {"front", "idle", "popping", "pushing"} :
          Goto(w, step) /\ (step = "popping" => at[w] = "pop")
    BY <1>1, Zenon DEF Begin, Drop, PopBegin, Suspend, Enter
  <2>2. UNCHANGED <<tasks, pushed, seen, interleaved>>
    BY <1>1 DEF Begin, Drop, PopBegin, Suspend, history
  <2>b. broken => broken'
    BY <1>1, Breaks, Zenon DEF Begin, Drop, PopBegin, Suspend
  <2>3. \A u \in Threads : at'[u] = IF u = w THEN step ELSE at[u]
    BY <2>1, <1>w, Moves DEF Steps, Operations
  <2>4. Taking' \subseteq Taking
    BY <1>w, <2>1, <2>3 DEF Taking
  <2>5. \A v \in Taking' : held'[v] = held[v] /\ (at'[v] # "fronting" => at[v] # "fronting")
    <3>1. CASE Drop(w)
      <4>1. at'[w] = "idle"
        BY <1>w, <3>1, Moves DEF Drop, Steps
      <4>2. QED
        BY <1>w, <2>3, <3>1, <4>1, Holds DEF Drop, Taking
    <3>2. CASE Begin(w) \/ PopBegin(w) \/ Suspend(w)
      BY <1>w, <2>1, <2>3, <3>2 DEF Begin, PopBegin, Suspend, Taking
    <3>3. QED
      BY <1>1, <3>1, <3>2
  <2>6. QED
    BY <1>k, <2>b, <2>2, <2>4, <2>5 DEF OneTakesTheFirst
<1>2. ASSUME NEW w \in Workers, FrontBegin(w) PROVE OneTakesTheFirst' /\ SeenInOrder'
  <2>1. at[w] = "front" /\ Enter(w, "fronting") /\ UNCHANGED <<tasks, held, pushed, seen>>
        /\ interleaved' = (interleaved \/ Taking # {})
    BY <1>2 DEF FrontBegin
  <2>2. (broken => broken') /\ \A u \in Threads : at'[u] = IF u = w THEN "fronting" ELSE at[u]
    BY <1>w, <2>1, Enters DEF Operations
  <2>3. SeenInOrder'
    BY <2>1, <2>2 DEF SeenInOrder
  <2>4. ASSUME ~interleaved' PROVE Taking' = {w}
    BY <1>w, <2>1, <2>2, <2>4 DEF Taking
  <2>5. OneTakesTheFirst'
    BY <1>w, <2>2, <2>4 DEF OneTakesTheFirst
  <2>6. QED
    BY <2>3, <2>5
<1>3. ASSUME NEW w \in Workers, FrontEnd(w) PROVE OneTakesTheFirst' /\ SeenInOrder'
  <2>1. at[w] = "fronting" /\ Goto(w, "pop") /\ UNCHANGED <<tasks, broken, pushed, seen, interleaved>>
    BY <1>3 DEF FrontEnd, history
  <2>2. \A u \in Threads : at'[u] = IF u = w THEN "pop" ELSE at[u]
    BY <1>w, <2>1, Moves DEF Steps
  <2>3. Taking' = Taking /\ w \in Taking
    BY <1>w, <2>1, <2>2 DEF Taking
  <2>4. ASSUME ~broken, ~interleaved, NEW v \in Taking' PROVE held'[v] = {Head(tasks)}
    <3>1. v = w
      BY <2>3, <2>4 DEF OneTakesTheFirst
    <3>2. Hold(w, {Head(tasks)})
      BY <1>3, <2>4 DEF FrontEnd
    <3>3. QED
      BY <1>w, <3>1, <3>2 DEF Hold, TypeOK
  <2>5. QED
    BY <1>k, <2>1, <2>3, <2>4
<1>4. ASSUME NEW w \in Workers, PopEnd(w) PROVE OneTakesTheFirst' /\ SeenInOrder'
  <2>1. at[w] = "popping" /\ Goto(w, "look") /\ UNCHANGED <<broken, held, pushed, interleaved>>
        /\ tasks' = IF broken THEN tasks ELSE Tail(tasks)
    BY <1>4 DEF PopEnd
  <2>2. PICK task : held[w] = {task} /\ task \in Tasks
    BY <1>w, <2>1, OneHeld
  <2>3. seen' = Append(seen, task)
    BY <1>4, <2>2 DEF PopEnd
  <2>4. \A u \in Threads : at'[u] = IF u = w THEN "look" ELSE at[u]
    BY <1>w, <2>1, Moves DEF Steps
  <2>5. Taking' = Taking \ {w} /\ w \in Taking
    BY <1>w, <2>1, <2>4 DEF Taking
  <2>6. CASE broken
    BY <2>1, <2>6 DEF OneTakesTheFirst, SeenInOrder
  <2>7. CASE ~broken
    <3>1. tasks # <<>> /\ tasks' = Tail(tasks)
      BY <2>1, <2>7 DEF NeverEmpty
    <3>2. Len(seen') = Len(seen) + 1 /\ Len(tasks') = Len(tasks) - 1
      BY <1>a, <2>2, <2>3, <3>1
    <3>3. Len(seen') + Len(tasks') = Len(pushed')
      <4>1. Len(seen) + Len(tasks) = Len(pushed) /\ pushed' = pushed
        BY <2>1, <2>7 DEF SeenInOrder
      <4>2. Len(seen) \in Nat /\ Len(tasks) \in Nat
        BY <1>a
      <4>3. QED
        BY <3>2, <4>1, <4>2
    <3>4. ASSUME ~interleaved PROVE Taking' = {} /\ seen' \o tasks' = pushed'
      <4>1. Taking = {w} /\ task = Head(tasks)
        BY <2>1, <2>2, <2>5, <2>7, <3>4 DEF OneTakesTheFirst
      <4>2. seen' \o tasks' = seen \o tasks
        BY <1>a, <2>3, <3>1, <4>1, MoveFirst
      <4>3. QED
        BY <2>1, <2>5, <2>7, <3>4, <4>1, <4>2 DEF SeenInOrder
    <3>5. QED
      BY <2>1, <3>3, <3>4 DEF OneTakesTheFirst, SeenInOrder
  <2>8. QED
    BY <2>6, <2>7
<1>5. ASSUME NEW t \in Threads, PushEnd(t) PROVE OneTakesTheFirst' /\ SeenInOrder'
  <2>1. at[t] = "pushing" /\ UNCHANGED <<broken, seen, interleaved>> /\ Hold(t, {})
    BY <1>5 DEF PushEnd
  <2>2. PICK task : /\ task \in held[t]
                    /\ tasks' = IF broken THEN tasks ELSE Append(tasks, task)
                    /\ pushed' = Append(pushed, task)
    BY <1>5 DEF PushEnd
  <2>3. task \in Tasks
    BY <2>2 DEF TypeOK
  <2>4. PICK step \in {"run", "idle"} : Goto(t, step)
    BY <1>5 DEF PushEnd
  <2>5. \A u \in Threads : at'[u] = IF u = t THEN step ELSE at[u]
    BY <2>4, Moves DEF Steps
  <2>6. Taking' = Taking /\ t \notin Taking
    BY <1>w, <2>1, <2>5 DEF Taking
  <2>7. \A w \in Taking : held'[w] = held[w] /\ at'[w] = at[w]
    BY <1>w, <2>1, <2>5, <2>6, Holds
  <2>8. CASE broken
    BY <2>1, <2>8 DEF OneTakesTheFirst, SeenInOrder
  <2>9. CASE ~broken
    <3>1. tasks' = Append(tasks, task)
      BY <2>2, <2>9
    <3>2. \A w \in Taking : Head(tasks') = Head(tasks)
      <4>1. \A w \in Taking : tasks # <<>>
        BY <2>9 DEF NeverEmpty, Taking
      <4>2. QED
        BY <1>a, <2>3, <3>1, <4>1
    <3>3. OneTakesTheFirst'
      BY <2>1, <2>6, <2>7, <2>9, <3>2 DEF OneTakesTheFirst
    <3>4. Len(tasks') = Len(tasks) + 1 /\ Len(pushed') = Len(pushed) + 1
          /\ seen \o tasks' = Append(seen \o tasks, task)
      BY <1>a, <2>2, <2>3, <3>1, AddLast
    <3>5. SeenInOrder'
      BY <1>a, <2>1, <2>2, <2>9, <3>4 DEF SeenInOrder
    <3>6. QED
      BY <3>3, <3>5
  <2>10. QED
    BY <2>8, <2>9
<1>6. ASSUME NEW c \in Clients, Run(c) \/ \E task \in Tasks : Enqueue(c, task)
      PROVE  OneTakesTheFirst' /\ SeenInOrder'
  <2>1. UNCHANGED <<tasks, pushed, seen, interleaved>>
    BY <1>6 DEF Run, Enqueue, history
  <2>b. broken => broken'
    BY <1>6, Breaks, Zenon DEF Run, Enqueue
  <2>2. \A w \in Workers : at'[w] = at[w] /\ held'[w] = held[w]
    <3>1. CASE Run(c)
      BY <3>1 DEF Run, Goto, Threads, TypeOK
    <3>2. ASSUME NEW task, Enqueue(c, task) PROVE \A w \in Workers : at'[w] = at[w] /\ held'[w] = held[w]
      BY <3>2 DEF Enqueue, Enter, Goto, Hold, Threads, TypeOK
    <3>3. QED
      BY <1>6, <3>1, <3>2
  <2>3. Taking' = Taking
    BY <2>2 DEF Taking
  <2>4. QED
    BY <1>k, <1>w, <2>b, <2>1, <2>2, <2>3 DEF OneTakesTheFirst
<1>7. CASE UNCHANGED vars
  BY <1>7 DEF OneTakesTheFirst, SeenInOrder, Taking, vars
<1>8. QED
  BY <1>w, <1>1, <1>2, <1>3, <1>4, <1>5, <1>6, <1>7, Zenon DEF Next, WorkerStep, ClientStep

LEMMA OrderInit == Init => OneTakesTheFirst /\ SeenInOrder
BY DEF Init, OneTakesTheFirst, SeenInOrder, Taking, Threads

\* do_run gets every task once and in the order of the pushes, whatever the
\* number of clients and workers, until the queue is broken or two do_runs
\* take the same task.
THEOREM TasksInOrder == Spec => []SeenInOrder
<1>1. Init => IInv
  BY TypeInit, DueInit, DueNeverEmpty, OrderInit DEF IInv
<1>2. IInv /\ [Next]_vars => IInv'
  <2>1. TypeOK' /\ DueAreQueued' => NeverEmpty'
    BY DueNeverEmpty, PTL
  <2>2. QED
    BY <2>1, TypeNext, DueNext, OrderNext DEF IInv
<1>3. IInv => SeenInOrder
  BY DEF IInv
<1>4. QED
  BY <1>1, <1>2, <1>3, PTL DEF Spec
===============================================================================

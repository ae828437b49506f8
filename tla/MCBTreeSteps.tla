----------------------------- MODULE MCBTreeSteps -----------------------------
(***************************************************************************)
(* BTreeSteps for TLC: every insertion and erasure on every tree of up to  *)
(* MaxFree entries, and MaxCalls of them on trees of three levels that     *)
(* insertions at one end built.  Keys and data are one, as no step looks   *)
(* at them.  What a call makes of a tree step by step is compared with     *)
(* what the operations of BTreeOps, which run it whole, say it does.       *)
(***************************************************************************)
EXTENDS BTreeSteps, BTreeOps, MCTrees

CONSTANTS
  MaxFree,   \* bound on the entries of a tree on which anything may be called
  Lengths,   \* the sizes to which trees grow at one end before anything else
  MaxCalls   \* bound on the calls on one of them after that

VARIABLES
  was,    \* the tree a call began with, its iterator, and which call it is
  plan    \* the size to grow to, at which end, and how many calls may follow

stepsVars == <<vars, was, plan>>

NoCall == [t |-> NoTree, it |-> NoIterator, call |-> "none"]
Anything == [grow |-> 0, end |-> "any", calls |-> -1]

StepsInit ==
  /\ Init /\ was = NoCall
  /\ plan \in {Anything} \cup [grow : Lengths, end : {"first", "last"}, calls : {MaxCalls}]

\* A tree that grows at one end has a value inserted at begin() or at end().
Begins ==
  /\ was' = [t |-> tree, call |-> IF pc' = "repair" THEN "erase" ELSE "insert",
             it |-> IF waiting' # <<>> THEN waiting'[1]
                    ELSE IF it'.node \in DOMAIN tree.node \/ tree.root = NoNode THEN it'
                    ELSE It(tree.root, it'.position)]
  /\ IF plan.grow > 0
     THEN /\ was'.call = "insert"
          /\ \/ tree.root = NoNode
             \/ was'.it = IF plan.end = "first" THEN Begin(tree) ELSE End(tree)
          /\ plan' = [plan EXCEPT !.grow = @ - 1]
     ELSE /\ plan.calls # 0
          /\ plan = Anything /\ pc' # "repair" => SizeOf(tree) < MaxFree
          /\ plan' = IF plan.calls > 0 THEN [plan EXCEPT !.calls = @ - 1] ELSE plan

StepsNext ==
  /\ Next
  /\ IF pc = "idle" THEN Begins
     ELSE UNCHANGED plan /\ was' = IF pc' = "idle" THEN NoCall ELSE was

StepsSpec == StepsInit /\ [][StepsNext]_stepsVars

\* What the call that was begun makes of the tree, run whole.
Whole ==
  IF was.call = "erase" THEN EraseInLeaf(was.t, was.it).t
  ELSE InsertInLeaf(IF was.t = NoTree THEN [t |-> NewLeafRoot(was.t, 1), it |-> was.it]
                    ELSE MakeRoom(was.t, was.it), (CHOOSE e \in Entry : TRUE)).t

\* The steps of an insertion or an erasure come to what MakeRoom and
\* insert_value, or the loop of erase, make of the tree (btree.tcc:533-553,
\* 849-868): the stack of calls stands for the recursion of rebalance_or_split.
StepsMakeTheCall == [][pc # "idle" /\ pc' = "idle" => tree' = Whole]_stepsVars

\* TLC keeps a function value unevaluated until something compares it.
AllEvaluated ==
  /\ tree \in {tree} /\ it \in {it} /\ waiting \in {waiting} /\ level \in {level}
  /\ was \in {was} /\ plan \in {plan}

StepsView ==
  LET Place(t, i) == [i EXCEPT !.node = IndexIn(Order(t), @)]
  IN <<AllEvaluated, Renamed(tree, Len), pc, Place(tree, it), [i \in DOMAIN waiting |-> Place(tree, waiting[i])],
       [i \in DOMAIN Order(tree) |-> level[Order(tree)[i]]],
       plan, was.call, Place(was.t, was.it), Renamed(was.t, Len)>>
===============================================================================

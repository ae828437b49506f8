# atlasdb in TLA+

Models, model-checking runs and proofs for atlasdb, a C++11 header-only
database in an early state: one finished component, the B-tree containers of
`src/atlasdb/storage/btree`, and around it a network server, a client, a task
queue, a query engine and storage wrappers, most of them sketches. Paths below
are relative to `src/atlasdb`. Where a file does not compile as it stands (a
missing include, a name not in scope), the models follow what its statements
say.

## 1. Inventory

| Part | State | Operations | Interacts with | Status |
|---|---|---|---|---|
| `storage/btree`: containers (`btree.h`, `btree.tcc`, `btree_container.h`, `btree_map.h`) | root pointer; per node: leaf, position, max_count, count, parent, values, children; in an internal root: rightmost, size | insert (searched, hinted, from a range), `operator[]`, erase (iterator, range, key), clear, copy, `operator=`, swap, destructor, the bounds, find, count, `++` and `--`, statistics | nodes share parent and child pointers; callers hold iterators | modelled |
| `storage/btree`: search within a node | bounds of the search, match flag | linear and binary search, less-than and compare-to, lower and upper bound | called by every search of the tree | modelled |
| `storage/btree`: sizes of nodes | none at run time | the type of counts, the number of values of a node, the static asserts | fixes the node width of a tree | modelled |
| `net/tcp_server.h` | acceptor, signal set, the io_service's queue of handlers | constructor, `run`, `stop`, `handle_accept`, `handle_stop` | io_service calls handlers; other threads call `stop()`; puts connections in the connection pool | modelled |
| `net/tcp_client.h`, `net/connection_pool.h` | pending connect; map from local endpoint to connection | constructor, connect handler; put, take, erase, clear | io_service; the pool is one per process, shared with the server and all callers | modelled |
| `net/message.h`, the loop of `libs/example/client.cpp` | header and body length | encode, decode, set the length; a message for each line | the program reads lines | modelled |
| `net/connection.h` | socket, inbound and outbound buffers | socket, asynchronous read and write | the pool looks at its endpoint | the socket only: the other bodies are commented out |
| `net/session*.h`, `transmitter.h`, `tcp_client_pool.h`, `request.h`, `response.h`, `query.h` | none in use | declarations and empty bodies | none | not modelled: no behaviour |
| `system/task.h` | queue of tasks | enqueue, suspend, run, do_run on a worker pool | threads share the queue without a lock | modelled |
| `system/context.h`, `status.h` | static counters, a mutex | none | none | not modelled: nothing changes them |
| `utility/buffer.h` | an array of bytes, low and high water indices | append, prepend, retrieve, read, peek, raise and lower the indices, swap | none yet | modelled |
| `storage/sts.h` | state bits, exceptions mask | clear, setstate, exceptions | base class of storages | modelled |
| `storage/basic_repository.h`, `basic_indexer.h`, `basic_index.h`, `basic_storehouse.h`, `storage_base.h`, `bits/` | a name, a `btree_map`, a multimap of indexes | open, close, put, update, del, exists, bounds, iteration: most do nothing yet | `storage/btree` | every member that compiles when used |
| `storage/environment.h`, `transaction.h`, `graph/`, `storage_error.h` | none | declarations, error messages | none | not modelled |
| `query/stomanip.h` | none | `load(start, limit)`; the rest declared only | repository | not modelled: no record to load |
| `query/` engine, IR, processors | IR tree, keysets | build (one fixed edge), three visitors | storehouse | not modelled: see 6 |
| `db/` | a query engine | forwards | query engine | not modelled |
| `libs/` | none | test and example programs | none | read for usage; one loop modelled |

What is hard, and what makes each part correct:

* **B-tree.** Sequential, but every call may move values between siblings,
  split up to the root, merge up to the root, change the height, or replace the
  root, and each of these must leave positions, parents, the rightmost leaf and
  the size counter right, and the iterator that is returned on the right entry.
  Hinted insertions skip the search and must not break the order or the
  uniqueness of keys. Erasure deliberately leaves nodes under half full.
  Correct means: the contents change exactly as an ordered sequence would, and
  everything `verify()` asserts holds after every call.
* **Search within a node.** The compare-to variants report a match together
  with a position found later; the caller returns that entry without looking.
* **tcp_server.** Handlers, clients, signals and calls of `stop()` come in any
  order. Correct means: it stops when and only when asked, keeps accepting
  while it runs, and loses no client it accepted.
* **tcp_client, connection_pool.** Several threads share the pool; an error path
  goes on; a key does not identify a connection. Correct means: a connection
  that was made stays in the pool until one caller takes it, unless one that
  leads elsewhere is put under the same local endpoint.
* **task_runner.** An unsynchronised queue, read without asking whether it is
  empty. Correct means: each task is popped, once, in order, for as long as no
  two threads are inside the queue at once, which nothing in the code prevents.
* **buffer.** Copying at two moving indices must amount to a queue of bytes, and
  filling and emptying must not use up the array.
* **message, sts, node sizes.** Edges of numbers: what four characters parse to,
  bits raised before anyone asked to have them thrown, a type that must hold
  counts computed from its own size.
* **storehouse.** Members that are called, return, and did nothing.

`PROJECT.json` lists the hazards one by one with the line where each bites and
the properties that would show it.

## 2. Modules

| Module | Models | Used by |
|---|---|---|
| `EntrySeq` | Sequences of entries in key order; an iterator is a rank | all three levels of the containers |
| `OrderedEntries` | What a container promises its callers; leaves open where among equal keys a new entry goes | abstract specification of `BTreeSeq` |
| `BTreeSeq` | What each operation of `btree.tcc` does to the contents: where it inserts, from a key or a hint, what it erases, what it returns | abstract specification of `BTree` |
| `BTreeNodes` | Nodes in memory, their sizes, and the methods of `btree_node` | `BTreeBalance` |
| `BTreeMethods` | What the methods of `btree_node` that move values and children promise of the tree they are called on | `BTree`, `BTreeSteps`, `BTreeMethodsProofs` |
| `BTreeBalance` | What `btree` does to a node and its neighbours: moving values to a sibling, splitting, raising the root, `merge_nodes`, `try_merge_or_rebalance`, `try_shrink`, growing a root leaf | `BTreeOps`, `BTreeSteps` |
| `BTreeOps` | The operations of `btree` on a whole tree: iterators, searches, `rebalance_or_split`, `erase`, `internal_clear`, ... | `BTree` |
| `BTreeSteps` | An insertion and an erasure node by node: a step is what the code does between one recursive call, or turn of a loop, and the next | `BTreeBalanceProofs`, `MCBTreeSteps` |
| `BTree` | A container over those nodes, one action per call, and its statistics | `MCBTree*`, `BTreePair` |
| `BTreePair` | Two containers: assignment, swap, destructor | `MCBTreeCalls` |
| `BTreeAlias` | A container whose callers insert one of its own values | run `insert_alias` |
| `NodeSearch` | The four searches within a node, a step per turn of the loop | stands alone; `BTreeOps` uses the result it is shown to have |
| `NodeSizes` | The computation of `node_count_type` and `kNodeValues` | `MCParts` |
| `TcpServer` | `tcp_server` and the io_service it runs | `Connections` |
| `Connections` | A server, `tcp_client`s and callers of the one `connection_pool` | composes `TcpServer` |
| `TaskRunner` | `task_runner`: clients, pool threads, the unguarded queue | stands alone |
| `Messages` | `message` and the loop of the example client | `MCParts` |
| `Sts` | The status of a storage | `MCParts` |
| `Storehouse` | A repository, an indexer, or a storehouse, as far as their bodies go | run `storehouse_put` |
| `ByteQueues` | What a buffer is for: queues of bytes that are added to at both ends and taken from in front | abstract specification of `Buffer` |
| `Buffer` | `buffer`: the array, the indices, an action per call | `MCBuffer` |
| `MCBTreeSeq` | `BTreeSeq` for TLC: a unique and a multi container | run `seq` |
| `MCTrees` | A tree without the addresses of its nodes | views of `MCBTree`, `MCBTreeSteps` |
| `MCBTreeSteps` | `BTreeSteps` for TLC: small trees of every shape, and trees of three levels; what the steps of a call come to | run `btree_steps` |
| `MCBTree`, `MCBTreeShapes`, `MCBTreeCalls` | `BTree` for TLC: a view; all shapes; those of two node widths, and all calls on four kinds of container | run `btree` |
| `MCBuffer`, `MCParts` | the parts that stand alone for TLC, one of them moving in each behaviour | run `parts` |
| `BTreeSeqProofs` | theorems and proofs about `BTreeSeq` | |
| `BTreeMethodsProofs`, `BTreeBalanceProofs`, `BTreeStepsProofs` | about the methods of a node, the operators of `BTreeBalance`, and `BTreeSteps`; each rests on the one before | |
| `NodeSearchProofs`, `TaskRunnerProofs` | about `NodeSearch` and `TaskRunner` | |
| `ConnectionsProofs` | about `TcpServer` and `Connections` | |
| `PartsProofs` | about `Sts`, `Messages`, `NodeSizes` and `Buffer` | |

### The containers at three levels

    OrderedEntries  <--  BTreeSeq  <--  BTree
     (the promise)      (positions)     (nodes)

`BTreeSeq` implements `OrderedEntries` (`ImplementsPromise`, checked and
proved): hints, and the choice of the lower or the upper bound, only ever choose
one of the positions the order allows. `BTree` implements `BTreeSeq`
(`ImplementsSeq`, checked), with the refinement mapping `entries <- contents`,
where `contents` is what a walk over the nodes yields and `ret` turns the
iterator a call returns into its rank in that walk. An iterator that is none of
the entries' and not `end()` becomes rank 0, which `BTreeSeq` never returns from
a call that returns one.

Each of the three has a variable `call`: the last call and its arguments, with
iterators as ranks. No action reads it. It is there for the comparison of the
levels: a step must do what is promised of the call it is, so an `erase(key)`
that took out one entry too few is not excused by an `erase(first, last)` that
would have done the same.

How `BTree` corresponds to the code:

* `tree` is a record of the allocated nodes, `root_`, and the root's `rightmost`
  and `size`. The position of a node is the code's, counted from 0. The parent
  of the root is the leftmost leaf, as in the code.
* A call is one action, because a container has one caller at a time; all that
  the call does before it returns is in it. The operators of `BTreeOps` and
  `BTreeBalance` have the names of the functions they model.
* Every `assert` of a call that changes the tree is conjoined to `tree.asserts`, so a
  failing one stays visible (`AssertsHold`). Those of `increment_slow` and
  `decrement_slow` (`btree.tcc:308`, 311, 320, 350, 353, 362) change nothing; that they
  hold from every iterator is a part of `IterationWalksEntries` (`IncrementHolds`,
  `DecrementHolds`). `verify()` itself is the invariant `Verified`.
* `insert_value` leaves child `i+1` null until `split` sets it; the model does too.
* `kNodeValues` and `kMinNodeValues` are parameters; `max_size()` is `MaxSize`.
* A container that has the compare-to trait (string keys) is `CompareTo = TRUE`.
  Searching within a node is by definition the bound that `NodeSearch` shows
  each of the code's searches to return. `equal_range` is both bounds, each an
  action of its own.
* A value is passed by copy. The code takes a reference, which is read after room
  was made; `BTreeAlias` has callers pass a reference into the container itself,
  and reads what is at that place by then (anything, if `FreedIsReused` and the
  node was freed).
* A node remembers how many bytes it was allocated with. `BytesUsed` is computed
  as `bytes_used()` does, from counts of nodes, and compared with those.
* `BTreePair` keeps the tree of a second container. `operator=` clears, then
  copies, unless the argument is the container itself; `swap` exchanges the
  roots. The calls of `BTree` are on the first; a swap makes it the second's turn.

### What the methods of a node promise

`BTreeMethods` states, for each method of `btree_node` that moves values or
children between nodes, the shape of tree it may be called on and what it makes
of it. A tree is `Linked` if every child says whose child it is and where; `l`
and `r` are `Neighbours` if they are children of one parent next to each other,
on one level. Of `rebalance_right_to_left`, `rebalance_left_to_right`
(`Rebalanced`) and `merge` (`Merged`) it says that the values of `l`, the
delimiter, and those of `r` are in this order what they were, and their children
too; of `split` (`HasSplit`) that what `n` held is in `n`, the delimiter and the new
node, and that both of these have room; of `swap` (`Swapped`) that the contents are
exchanged, also of a parent and its child, which is how a root is replaced. Of
all of them it says that the tree is still linked, that every other node has the
values and children it had, and that none of their asserts fails. Of how full the
nodes are no more is assumed than the asserts say: the new node of a split is
empty, and for `rebalance_right_to_left` the node `r` holds no more than it has room
for (line 133). A null pointer (`NoNode`) is the
address of no node. `MethodsKeep` is all of it for every call the nodes of a tree allow.

### An insertion and an erasure, node by node

In `BTree` a call is one action, and `rebalance_or_split` and the loop of `erase`
are recursive operators that TLC runs through the whole height of a tree.
`BTreeSteps` is the same code as a machine that stops between one node and the
next, so that what holds there can be stated, and proved by induction over
steps where induction over the height of a tree cannot be.

* `pc` says what comes next: `"make room"` is the start of a call of
  `rebalance_or_split`, `"split"` the point where its parent has room, `"insert"` the
  `insert_value` of `internal_insert`, `"repair"` a turn of the loop of `erase`.
* `waiting` is the stack of the calls of `rebalance_or_split` that have not
  returned, each with its iterator, the leaf's first. `CallForParent` pushes, the
  actions that make room (`MoveLeft`, `MoveRight`, `SplitUnderParent`,
  `RaiseAndSplit`) pop. The call below goes on with its own node and position; its
  parent may be another by then, since the split it waited for may have moved the
  node to a new sibling of the parent. `Returns` is where the last call ends and
  `internal_insert` counts the new value.
* `it` is the iterator of `internal_insert` or of `erase`.
* `level` is how far each node is above the leaves. No action reads it; it is
  there to say that the leaves are on one level and where a waiting call is.

Which entry is inserted where is left open: any entry, at any position of any
leaf. `internal_insert` turns a position in an internal node into one in the leaf
before it and `erase` exchanges a value of an internal node with one of that leaf
(`ValueSwap`), so from there on both are about a position of a leaf. What the
machine leaves to `BTree` is the order of the keys, the number in the size
counter, and the iterator a call returns.

### The server

`run` says where `run()` is, `listening` whether the acceptor is open,
`accepting` and `waiting` which operations are outstanding, `ready` the handlers
that are due in order, `peer` and `pooled` what became of the one connection the
server creates. `HandleAccept` and `HandleStop` are the two handlers; `Stop`
posts `handle_stop` as `stop()` does; `Signal`, `Connect`, `AcceptCompletes` and
`RunReturns` are what the operating system and Boost.Asio do: an `async_accept`
into an open socket or on a closed acceptor fails at once and its handler is
called with the error; closing the acceptor cancels the accept that waits;
`io_service::run()` returns when nothing is due and nothing outstanding.

### Clients and the pool

`Connections` extends `TcpServer` with `tcp_client`s, each run by a thread of its
own, and `box`, the map in the connection pool. A successful accept puts the
connection (`NodeHandler`), and so does each `handle_connect`, after an error too.
The key is the local endpoint of the socket and nothing else. `ends` has both
endpoints of each socket: a connect chooses any local and any remote one, as long
as no two sockets are open with the same pair, which is all TCP promises; so
connections to different hosts may share a key, with each other and with what
the server accepts, all of which has the key `Listening`. A connect that failed
leaves the socket bound to any endpoint or to none (`Unbound`; whether the library
then throws or says so, the code looks at neither). A socket counts as open while
its handler is due or the pool has it; one that was taken may have been closed,
and its pair be used again. The container of the pool is of another library; a
put to a key in use may keep either connection, and each of its calls is one
step. Any thread may take, erase or clear at any time.

### The task queue

`TaskRunner` has the clients' and the pool's threads at the step they do next.
`std::queue` is not synchronised. `front`, `pop` and `push` are two steps each: the
operation begins when a thread enters it, and ends when all other threads see
what it did. If a thread enters one while another is inside one, two `front()`s
excepted, or takes the front of an empty queue or pops it, the behaviour is
undefined: the queue is `broken` from then on, the tasks it hands out are any, and
the properties promise nothing more of it. Nothing is assumed of how the library
lays the queue out, and nothing restricts the threads: any number of clients and
workers, and paused tasks, which `do_run` pushes again. So the properties say what
breaks the queue, rather than that it works: it is never found empty by a `do_run`
before two threads met in it (`NeverEmpty`), and until then tasks come out once and
in order (`SeenInOrder`), unless two `do_run`s were `interleaved`: a second called
`front()` between the first's `front()` and its `pop()`. C++ allows this and the
code does not prevent it, and both get the same task. Whether a task that holds a
function is paused is any, each time it is asked, since `paused()` is declared only.
No program in the repository uses the class; the model's clients call `run()` once
after each task they enqueue, which is what the class is made for. `AllSeen` says that
then each task is reached, unless the queue broke, or two `do_run`s were
interleaved, or a paused task was queued again and took up a run that was asked for
with another.

### Message, status, node sizes, storehouse

`Messages` keeps the four characters of a header as ASCII codes, because what
`atoi` makes of them is the point: blanks, a sign, digits up to something else,
converted from `int` to `size_t` (`AsSize`). `Sts` takes a set of flags for the
number they make up; `thrown` says that the last call ended with an exception,
which is after the state has changed. `NodeSizes` chooses the size of key and
data, their size in a pair, the target size and the machine's pointers, and
computes with unsigned subtraction as the code does. `Storehouse` has an action
for each member of the three classes that compiles when it is used; most return
without looking at anything.

### The buffer

`buffer` gives each of several buffers its `low`, `high` and `bytes`; several,
because `swap` exchanges two. The calls are named as in the class. The class
checks nothing but what it asserts, so the model states the contract callers are
left with: they append or raise the high index by no more than
`above_high_water_size()`, prepend no more than `under_low_water_size()`, and
take no more than `dirty_space_size()` except with `retrieve`, which allows
more. `read<T>()` returns `sizeof(T)` bytes and goes on by `sizeof(int32_t)` whatever
`T` is. Sizes (`ReadSizes`) may be any: `ByteQueues` says that a `read` of another size
returns bytes that stay in the queue or takes out bytes it did not return, that
every other call returns each byte it takes out once, and that no call does
worse. The array of a new buffer is
not initialized, though the high index may be above the low one: its bytes are
any. `Buffer` implements `ByteQueues` with the bytes between the indices as the
queue. `raise_high_water` adds whatever the array holds above the index.

## 3. Runs

All of them together take about five minutes with two workers.

| Run | Question | Instance | Distinct states |
|---|---|---|---|
| `seq` | does each call on a unique and on a multi container keep the promise? | 4 keys, 2 data, 4 entries | 8295 |
| `node_search` | does each search find the bound and end? | 3 keys, nodes of 0 to 5 values, all searches and bounds | 5505 |
| `btree` | do all nodes stay right in every shape of up to three levels, and could each be rebalanced, merged, split and swapped there? does every call do to the contents what `BTreeSeq` says? | shapes: 15 entries in nodes of 3, 16 in nodes of 4; unique: 5 keys, 2 data; multi: 2 keys, 2 data; 5 entries; two containers of 4 keys; 17 of 35 string keys in three orders, then one call | 5998 |
| `btree_steps` | does the recursion of `rebalance_or_split` find room where it comes back to, and do the steps of an insertion and an erasure keep the tree in order, and come to what `BTreeOps` says of the whole? | nodes of 4; anything on up to 15 entries; 40 entries inserted at either end, then one call | 10502 |
| `parts` | does each part that stands alone keep its limits? | 2 buffers of 3 bytes, reads of 1 to 3 of which 2 are taken out; headers of 3 characters; all sets of flags; 13 target sizes, 3 value sizes, 2 machines | 24520 |
| `connections` | does the server stop when and only when asked, and is no connection lost? | 2 clients of the server, 2 connects with 2 local endpoints, one of them the server's, and 2 remote ones; 1 call of `stop()` | 483892 |
| `task_runner` | until when does the queue work, and is each task reached? | 2 pool threads, 2 clients, 3 tasks, 1 of them empty | 250771 |
| `server_listens` | comment at `net/tcp_server.h:95` | 3 clients, 2 calls of `stop()` | violated |
| `server_stops` | comment at `net/tcp_server.h:117` | the same | violated |
| `insert_alias` | comment at `storage/btree/btree.h:840` | 2 keys, 8 entries, nodes of 3; freed memory keeps its contents | violated |
| `client_error` | comment at `net/tcp_client.h:47` | as `connections` | violated |
| `storehouse_put` | comment at `storage/basic_storehouse.h:68` | 2 keys, 2 values, 2 names | violated |

**Bounds, and why they are enough.** A node of 3 values is the smallest the code
allows (`btree.h:370`). With 5 entries the root leaf has grown through all its
sizes (1, 2, 3) and split. No operation looks at the data of an entry, and none
at more of a key than how it compares, so two data show a wrong entry, 2 keys
show every pattern of duplicates around a node's boundary that a comparison can
distinguish there, and 5 keys leave a gap on each side of every entry.
Rebalancing looks at counts and positions only. `MCBTreeShapes` therefore uses a
single key in a multi container, where a hint puts a new entry between any two:
every insertion at every position and every erasure of every shape is reached,
the entries told apart by their data, and states that differ in the data alone
are one state. 15 entries in nodes of 3, and 16 in nodes of 4, are three levels,
so a split and a merge pass through an internal node that is not the root; an
even width has a minimum of 2, with merges and moves that 3 does not have. In
`btree_steps` 15 entries in nodes of 4 make every tree of two levels up to that
size, with all its splits, moves and merges; calls of `rebalance_or_split` wait
for each other only below a full internal node, which the trees of 40 entries
have: grown at one end, they have three levels. An odd width is left to
`btree`. Two containers of up to 4 entries are both a leaf, a split root,
and empty when they are assigned and swapped. In the buffer an array of 3 bytes
with the waters at 1 and 2 has room at both ends of what it holds, lengths go
one beyond the array, and two values of a byte tell each order of bytes from
another. Headers of a blank, a minus and a digit contain every way of parsing;
lengths include the limit and one more; `size_t` is 2^20, beyond which no number
of four digits comes. The target sizes lie on both sides of where 255 values
turn to 256 and 65535 to 65536 and where three values no longer fit. Two
connects, with two local endpoints of which one is the server's, and two remote
ones, share every key they can: with each other, failed or not, to the same or
another host, and with an accepted client. Two pool threads and two clients show
every pair of operations inside the queue at once, and two workers between front
and pop; a third adds only more of them, and the proofs are for any number. The
three tasks are one for each client and one more, of which a paused one is queued
again.

**Views.** `MCBTree` and `MCBTreeSteps` name nodes by their place in a walk of the tree instead of
by address, since no operation compares addresses but for equality. The last call
and what it returned are left out of the views (the call only in `MCBTreeSeq`); no
action reads them, and TLC checks each step against the level above whether its
successor is new or not. In `MCBTreeShapes` the data of the entries are left out
as well; the step checks still compare them. In `MCBTreeSteps` only the number of
values of a node is kept, since no step looks at a value.

**Compositions for TLC.** `MCBTreeSeq`, `MCBTreeCalls` and `MCParts` put instances that share nothing side by side: in each behaviour one of
them moves. An invariant about a node width is stated for each width by its
instance (`MethodsHoldInShapes`, `TreesInOrder`, `StatsMatchInShapes`). `ImplementsSeq`
compares a step with the action of `BTreeSeq` that the call of the step names
(`ContentsChange`) instead of searching for one among all calls.

**Fairness.** `NodeSearch` has weak fairness of its loop, which runs in a
thread that nothing blocks. `TcpServer` and `Connections` have weak fairness of
`Service`, the io_service's loop inside `run()`: it calls a handler that is due,
delivers a client that is queued to an accept that waits, and returns when there
is nothing left. Nothing is assumed of clients, signals, callers of `stop()`, of
the pool, or of `run()`. `TaskRunner` has weak fairness of each thread: the pool
calls what was scheduled, and a thread in the middle of a call goes on; a client
need not enqueue. The containers and the other parts have safety properties only:
a call is one step.

**Deadlock** is checked but where stopping is legitimate: a search that has
returned, a server whose `run()` has returned, a queue whose tasks are done, and
containers and trees after the last of a bounded number of calls.

**What the violations show.** `handle_accept` calls `async_accept` with the
connection it was just called for, whose socket is open. That fails, the handler
returns at its first line, and after one client the server accepts no other, so
the comment that an accept is always outstanding does not hold. `handle_stop`
closes the acceptor and leaves the wait for a signal outstanding, so that after
`stop()` the call of `run()` does not return until a signal arrives; the comment
says that all outstanding operations are cancelled and `run()` exits. After a
signal it does (`SignalEndsRun`). `insert_multi(*it)` of a value of the container
itself reads the reference after `internal_insert` has made room: the values have
moved, and another one is inserted in a place that may not even fit its key.
`handle_connect` does what the comment says of an error nowhere, and the
connection that was not made is pooled. `put` of a storehouse has no body.

It is the first of these, that only one client is accepted, that makes
`PooledIsKept` hold of what the server accepts: two of them would have the same
key. Two connects may have it too, and then one put may drop the other; the
property says that this takes two different remote endpoints, or an accepted
client and a connect.

The comment at `storage/btree/btree.h:386`, that the keys of a child are all
less than the key after it, holds for unique containers only: equal keys of a
multi container lie on both sides. `Verified` states what `internal_verify`
asserts, with `<=`.

## 4. Proofs

TLAPS checks these for every value of the constants.

| Theorem | States | Argument |
|---|---|---|
| `BTreeSeqProofs!TypeCorrect`, `AlwaysInOrder`, `NeverTwice` | `Spec => []TypeOK`, `[]InOrder`, `[]NoDuplicateKeys` | `IInv` |
| `BTreeSeqProofs!KeepsPromise` | `Spec => ImplementsPromise` | initial state to initial state; under `IInv` each call of `BTreeSeq` does what `OrderedEntries` says of that call |
| `NodeSearchProofs!SearchFindsBound`, `ExactMatchIsExact` | `Spec => []FindsBound`, `[]ExactIfFound` | `LoopInv` |
| `PartsProofs!TypeCorrect`, `EmptiedHasRoom` | `Spec => []TypeOK`, `Spec => EmptiedIsRoomy` | `TypeOK` is inductive |
| `PartsProofs!KeepsQueues` | `Spec => ImplementsQueues` | under `TypeOK` each call changes the queue of its buffer as `ByteQueues` says of that call |
| `ConnectionsProofs!NeverReturnsUnasked`, `NoClientDropped` | `Spec => []ReturnsOnlyIfStopped`, `[]AcceptedIsPooled` | `IInv` |
| `ConnectionsProofs!NodeServes` | `NodeSpec => Spec` | a step of a process with clients is a step of its server or leaves it as it is |
| `ConnectionsProofs!NoPutDropsAnother` | `NodeSpec => []PooledIsKept` | `NodeIInv` |
| `TaskRunnerProofs!TypeCorrect`, `TasksThere`, `TasksInOrder` | `Spec => []TypeOK`, `[]NeverEmpty`, `[]SeenInOrder` | `TypeOK`, then `DueAreQueued`, then `OneTakesTheFirst` |
| `ConnectionsProofs!TakenOnce` | `NodeSpec => []TakenByOne` | `TakenIInv` |
| `BTreeMethodsProofs!RightToLeftRebalances`, `LeftToRightRebalances`, `MergeMerges`, `SplitSplits`, `SwapSwaps` | what `BTreeMethods` states of each method, for every linked tree that it may be called on | the method is a few steps that each change values, children or positions; the links are followed through them |
| `BTreeMethodsProofs!MethodsKeepTrees` | `MethodsKeep(t)` for every linked tree of finitely many nodes | the five above; a node the allocator returns is the child of none |
| `BTreeStepsProofs!Invariance` | `Spec => []Inv` of `BTreeSteps` | one lemma per action, resting on the lemmas of `BTreeBalanceProofs` |
| `BTreeStepsProofs!StepsTyped`, `NoAssertFails`, `NodesStayAttached`, `LeavesOnOneLevel`, `NodesNeverOverfull`, `EdgesStayKnown`, `NoNodeLeftEmpty`, `CallsRunUpThePath` | `[]TypeOK`, `[]AssertsHold`, `[]NodesAttached`, `[]Balanced`, `[]NodesSized`, `[]EdgesKnown`, `[]NoneLeftEmpty`, `[]CallsAreAPath` | `Inv` |
| `PartsProofs!ReturnsClean` | `StsSpec => []ReturnedIsClean` | inductive |
| `PartsProofs!BodyAlwaysFits`, `FramesRecovered` | `MessageSpec => []BodyFits`, `[]FramedIsRecovered` | `MessageIInv` |
| `PartsProofs!TypeHoldsCounts`, `LeavesOfTargetSize` | `NodeSizesSpec => []ChosenTypeFits`, `[]LeafIsOfTargetSize` | arithmetic of the quotients, by the size of pointers |

*Contents.* `IInv` of `BTreeSeq` is its type, order and uniqueness together:
that a hinted insertion does not duplicate a key needs the order, since only the
neighbours are compared. Lemmas say what `InsertAt` and `RemoveRange` do to each
rank, that an entry put where it `Fits` keeps the order (strictly, if its key is
new), that the bounds exist and fit, and, for each test of a hint, that passing
it means the position fits and, in a unique container, that the key is new.
Assumed: keys are integers (the order must be total), `MaxSize` is a natural
number, `DefaultData` is one of the data, `Multi` is Boolean.

*Search.* `LoopInv` says that positions before `s` are before the bound, those
from `e` on are not, that a match once seen is at `e` (so that it is reported
for the position that is returned), and that no match was passed over. The match
conjuncts are what `ExactIfFound` needs and a loop invariant for the position
alone would not give. Assumed: keys are integers, the node size is a natural
number.

*Buffer.* The lemmas are about slices of the array: a copy at the high index that
then goes up appends to the slice between the indices, a copy below the low
index that then goes down prepends, a low index that goes up drops the first
bytes. `TypeOK` (indices in order within the array) is what makes each slice a
sequence of bytes. Assumed: the static assertions of the class
(`WatersAssumption`), and that lengths and sizes are natural numbers
(`LengthsAssumption`).

*Server.* `IInv` adds to the two properties that an open acceptor has a wait for
a signal outstanding or a call of `handle_stop` due, and that a connected
client is pooled or the handler that pools it is due. Assumed: `NoClient` is no
client, `MaxStops` is a natural number.

*Connections.* `NodeIInv` adds to the server's `IInv` that the server accepts one
connection, of which it is told once (`AcceptsOne`, `AcceptedOnce`), that no two
sockets are open with the same pair of endpoints (`OpenApart`), and that each key
of the pool is that of the connection under it (`PoolKeyed`). A put then replaces
an accepted connection only by a connect, and a connect only by one that failed,
was accepted, or has another remote endpoint. Assumed: no dial is a client, and
`Unbound` is no endpoint. Nothing is assumed of which local endpoint a socket
gets.

*Tasks.* All of it is under `~broken`. `NeverEmpty` is not inductive: that there is
a task at `pop` depends on all other runs that are scheduled or under way.
`DueAreQueued` counts them (scheduled calls, threads before the end of their pop, a
client about to ask for a run) and says that as many tasks are queued; queueing a
paused task again adds a task and no run. `SeenInOrder` needs that the task a
worker holds is the first in the queue when it pops, which is so while no other is
between `front()` and `pop()` (`OneTakesTheFirst`). Assumed: finitely many threads,
none both client and worker.

*Node sizes.* With the type of 8 bits the fields are two pointers, so the number
of values is the quotient that was tested; with 16 bits they are more, and the
number is less. Assumed: sizes are natural numbers, no value has size 0, and none is
aligned more strictly than a pointer.

*Messages.* `MessageIInv` adds that a header that holds a length (`FramedHolds`)
has in each place the digit of that length or, in front of the first, a blank.
That `atoi` of it is the length again is shown by the number of digits: where the
span of blanks ends, and that the digits that are left have the values of their
places. Assumed: characters are ASCII codes, lengths are natural numbers, and a `size_t`
goes beyond 10000, so that it holds every number of four digits.

*Taking.* That no connection is taken twice needs that none is put twice, since
`take` removes it from the pool. `TakenIInv` adds to `NodeIInv` which connections
were put (`WasPut`: their connect handler was called, or the server pooled them),
and says that a connection in the pool or taken was, that a taken one is no longer
in the pool, and that while a handler that puts is still due it is the only one and
its connection has not been put (`AcceptedOnce`). That the connection is under one
key only, so that a `take` leaves no second copy, is `NodeIInv`'s.

*Methods of a node.* Each method is split where the code has a loop: what moving
the values does to the three sequences (lemmas on slices and concatenation),
what `SetChildren` and `Renumber` do to the parent and the position of each child
(a child occurs once in the whole tree, because it has one parent and one
position), and what is left alone. These are facts about one call and any tree.
The hypotheses are conditions of the code's asserts (siblings next to each other,
a destination that is empty, at line 133 a right node no fuller than it may be) and
the links; that the trees of every
shape in the run `btree` satisfy them, and that all the calls they allow have been
tried, is `MethodsHold`: `Tree(tree)`, `Linked(tree)` and `MethodsKeep(tree)`.

*Insertions and erasures node by node.* `Inv` is all the invariants of
`BTreeSteps` together, because each needs others. That no assert fails needs that
full nodes are `kNodeValues` wide (`NodesSized`) and that the node a call waits for
is full (`CallsAreAPath`). That a parent has room when its call returns needs
that what happens above a node leaves the nodes below it alone, and that the
leaves are on one level, so that the next call up the stack is for the parent and
not for another node (`Balanced`). That a merge or a loan from a sibling leaves no
empty node needs that the siblings are not empty (`NoneLeftEmpty`), and shrinking
the root, that an empty root has exactly one child (`NodesAttached`).

`BTreeBalanceProofs` has, for each operator of `BTreeBalance`, a lemma that says
what it makes of a tree in order. `Shape` is what they all keep: typed, linked,
within sizes, levels, edges, no failed assert. `RoomMade(t, u, lev, new, n, p, at)`
says of the ways to make room that a tree `t` with a full node `n` turned into `u`,
that `at` is the place in `u` for what was to go to position `p` of `n`, with room,
at the same level, that what hangs at position `p` of `n` now hangs at the node of
`at`, and that nothing below changed. `Repairing` says of a merge or a loan that
the node it was called for is no longer empty, and that no other is but perhaps
the parent, which comes next. The proofs about the edges follow a set of nodes
from the leaf to the root that are all first (last) children; the proofs about
levels give each new node the level of the one it was split from.

Assumed: `kNodeValues` is at least 3, as the code's static assertion says. Nothing
is assumed of the keys, the height or the number of entries.

Only model-checked:

* That the steps of `BTreeSteps` come to what the recursive operators of `BTreeOps`
  make of a tree (`StepsMakeTheCall`), and so that what is proved of the steps
  holds of the actions of `BTree`. The operators are recursive on the height of the
  tree, which is out of the prover's reach.
* For the same reason: the order of the keys in the tree, the size counter, the walk
  of an iterator, the searches, `internal_clear`, and what the statistics add up
  (`Verified`, `IterationWalksEntries`, `StatsMatchInShapes`), and that `BTree`
  implements `BTreeSeq`. `AssertsHold` of `BTree` includes the asserts of `erase` about
  the leaf it exchanges a value with, and `NoNodeLeaks` (in
  `TreesInOrder`) counts nodes by a walk.
* Liveness: `Terminates`, `SignalEndsRun`, `AllSeen`.
* `IndexImplementsPromise` is stated of the multi container of `MCBTreeSeq`, an
  instance of `BTreeSeq`; `KeepsPromise` proves it for either value of `Multi`.

## 5. Plan

Done: the containers at all three levels, alone and in pairs, insertions and
erasures node by node, the search within a node and the sizes of nodes, the
server with clients and their pool, the task queue, messages, the status bits, the
buffer, and what there is of the storages. Proved: every safety invariant of the
parts that are not recursive, the methods of a node, and the steps of an insertion
and an erasure.

What could follow:

1. The keys in `BTreeSteps`: that each step keeps the walk over the tree in order.
   The walk would have to be a recursive function over `level`.
2. That the result `BTreeOps` takes from a node search is the one `NodeSearch`
   proves.

## 6. Not modelled

* Exceptions from the allocator and from copying values; `dump`; comparators
  that are not total orders; callers that use an iterator an earlier call
  invalidated; the transport below Boost.Asio; values aligned more strictly than a
  pointer, which would pad a leaf further than `NodeSizes` does.
* What a queue of tasks does after two threads were inside it at once: C++ does not
  say, so there is nothing to check.
* `query/`: `algorithm.h` and `processor.h` name members and variables that do not
  exist (`interator`, `input` in a lambda that does not capture it), rest on
  headers that are not in the repository, and compile only because nothing
  instantiates them; `ir_builder.h` adds one edge whatever the query is, and
  `ir_tree.h` stores nodes by value of their base. A model would be of a program
  that does not exist. `stomanip.h`: `load` writes the records of a repository,
  which holds none, as `Storehouse` shows.
* `net/connection.h`: `async_write` and `async_read` are comments from the
  serialization on. `tcp_client_pool.h`, sessions and transmitters: empty or not
  compiling.
* `storage/basic_index.h` is a comment as a whole. Of a repository `count`, `front`,
  `back` and `update(key, value)`, of an indexer `open`, `operator[]`, `front` and
  `back` do not compile when they are used, since the members they forward to do
  not exist.
* `storage_error`: a table of messages. `system/context.h`, `status.h`: counters
  that nothing counts. `db/`: forwards to the query engine.

# A TLA+ model of go-algorithm-practice

The repository is a collection of small Go programs and data structures. Three of
them are concurrent or depend on time (a task scheduler, a parallel URL checker, a
token bucket), one keeps samples in rings, one routes payments through a graph, and
the rest are structures of pointers, slices, hashes or bytes. This directory models
them in TLA+, one module for each, checks the models with TLC and proves the main
properties of all but three of them with TLAPS. Paths below are relative to the repository.

## 1. Inventory

The components do not call one another: each file is a library or a program of its
own. What interacts is inside them: goroutines, a mutex, channels, contexts and
callbacks in the first two, repeated calls under a clock in the next two, calls in
sequence in the rest.

| Component (source) | State | Operations | What is hard | What makes it correct |
|---|---|---|---|---|
| Task scheduler (`practice/task_scheduler.go`) | heap `tasks` under `mu`, unbuffered `signal` | `AddTask`, `GetNextTask`, `ExecuteNextTask`, `Run(ctx)`; callbacks may add tasks or panic | the lock is dropped between Run's look at the heap and its act; non-blocking wake-up; timer, signal and context in one select | tasks start when due, in order of time and priority, once; none is lost; Run survives panics and ends when cancelled |
| URL health checker (`practice/parallel_url_health.go`) | channels `jobs` and `results`, errgroup with a context, feeder and workers | `RunChecker`, `checkUrl`, `ComputeSummary`, `RunE` | who blocks on a full or empty channel, who closes what when, SIGINT at any time, the feeder outside the group | every URL reported once; no send blocks or panics; no goroutine is left; a failed URL is a result |
| Token bucket (`rate-limiting/token-bucket/`) | per key: tokens, lastRefill; one mutex | `AllowN`, `AllowWithInfo`, `Reset` | clock read several times in a call, refused calls refill too, truncated durations, requests above the burst | never more than a burst and what the rate earns; nothing earned is withheld; right retry and reset times |
| Metrics buffers (`practice/metrics_buffer.go`) | ring, writeIdx, count, one mutex | `Push`, `GetRecent`, `Average`, `GetWindow` | the seam of the ring; the window moves while it is read | reports are about the last samples, in order |
| LRU cache (`data-structures/lru-cache.go`) | map, doubly linked list | `Get`, `Put` | map and pointers in step; evict after insert | evicts by recency; at most `capacity` entries |
| Sparse Merkle tree (`data-structures/merkle.go`) | one map for raw values and hashes, root | `Set`, `Get`, `GenerateProof`, `VerifyProof` | which sibling a place has | proofs verify; the root is that of the contents |
| Merkle tree (same file) | nodes with parent pointers | `NewMerkleTree`, `GenerateProof`, `VerifyProof` | an odd last node is its own sibling | every leaf's proof verifies; the root tells lists of one tree height apart, but for doubled ends |
| Payment router (`practice/payment_router.go`) | the graph; in a search `dist`, `prev`, the heap | `FindPath`, `reconstructPath` | amounts grow towards the source, and filters depend on them; no set of visited nodes | a route can be paid as it stands, and is the cheapest |
| Binary heap (`data-structures/heap.go`) | a slice | `Push`, `Pop`, `Peek`, `Heapify` | sifting at the ends of the slice | a priority queue |
| BST (`data-structures/bst.go`) | a tree | `Insert`, `Delete`, `Search`, `InOrder`, `IsValid`, `Height` | random choice in `Delete`, bounds of far ancestors | a set of keys that stays a search tree |
| Trie (`data-structures/trie.go`) | nodes with children by rune | `Insert`, two deletions, `Search`, `StartsWith`, `FindAllWithPrefix` | pruning on the way up, bytes against runes | a set of words; prefixes are those of its words |
| Linked list (`data-structures/linkedlist.go`) | pointers | reverse, cycle, middle, merge, remove, palindrome | order of pointer assignments | each function acts on sequences |
| RLP (`algorithms/serialization.go`) | a reader's position | encode, decode, `RLPReader` | length prefixes, types lost in decoding, streams cut short | decoding inverts encoding; reading keeps the order |
| Routing table (`practice/routing_table.go`) | a trie of bits | `AddRoute`, `FindRoute` | routes over routes, IPv6 prefixes | the longest prefix answers |
| Robotic leveling (`practice/robotic_leveling.go`) | none; the factory has stacks and a claw | `Solve` | targets while a box is in the claw | level within 200 turns, no invalid command |
| File blocks, temperature (`practice/`) | a slice | single loops | few | see section 6 |
| Consensus, gossip, graph, Patricia trie, DAG, Bloom filter | none | bodies are TODO | | nothing to model |

## 2. Modules

| Module | Role |
|---|---|
| `SchedulerContract` | what one Run loop promises: it starts the first due task, once, one at a time |
| `TaskScheduler` | the goroutines of the scheduler, step by step |
| `SchedulerProperties` | its properties, with the refinement mapping to the contract |
| `MCTaskScheduler` | tasks with times, priorities and parents for TLC |
| `TaskSchedulerProofs` | theorems about it |
| `HealthChecker`, `HealthCheckerProofs` | RunChecker and its goroutines; theorems |
| `TokenBucket`, `TokenBucketProofs` | the limiter under a clock; theorems |
| `RecentSamples` | the last samples as a sequence, abstract |
| `MetricsBuffer` | the rings that implement it, and the reports |
| `RecencyCache` | a cache in order of last use, abstract |
| `LRUCache` | the map and the pointers that implement it |
| `BoundedStoreProofs` | theorems about the two stores of bounded size, the rings and the cache |
| `MerkleHash` | the hashes and `VerifyProof`, shared by the two trees |
| `SparseMerkleTree` | the node map, Set, and proofs |
| `MerkleTree` | levels built from a list, and proofs |
| `MerkleProofs` | theorems about the two trees |
| `RLP` | encoding, decoding, and a reader of a stream that may be cut |
| `MCSerialization` | one instance of RLP for TLC, beside the two trees, which it extends |
| `PaymentRouter` | the search of FindPath and its routes |
| `MCPaymentRouter` | graphs of seven channels and their policies for TLC |
| `PriorityQueue` | a bag from which Pop takes a first value, abstract |
| `BinaryHeap` | the slice that implements it, loop by loop |
| `KeySet` | a set of keys, abstract: what a call does to it for the key the call was given |
| `SearchTree`, `Trie` | the two trees that implement it, and what reads them |
| `LinkedList` | nodes and pointers, and what each call does to the sequences |
| `RoutingTable` | the trie of bits and its lookup |
| `TreeProofs` | theorems about the heap, the trie and the routing table |
| `RoboticLeveling` | Solve and the factory that executes its commands |
| `GreedyProofs` | theorems about the router and the arm, which never take a step back |
| `MCDataStructures` | one instance of each structure that stands alone, for TLC; it extends the heap, the cache, the buffer, the routing table, the trie and the arm, so the run checks the very definitions the theorems name |
| `Iteration` | least numbers, induction and recursion over the natural numbers, for the proofs |

An operator named `Fault...` is a plausible wrong version of the operator that
follows it. No specification uses one. Each shows that a property is sensitive to
the code: with the wrong version in place the run that checks the property finds it
violated (`PROJECT.json`, "mutants", pairs them).

### State and actions against the code

**TaskScheduler.** `heap` is `ts.tasks` as a set: `container/heap` is external and
gives a minimal element of `Less`, any of them when several are. `call[t]` is how
far `AddTask(t)` is (new, pushed under the lock, returned), `pc[g]` where a
goroutine is, `timer[r]` the delay Run computed and then what is left on its timer,
`cur` the callback in progress. An action is one critical section, one non-blocking
send, one entry into a select or one event that wakes it, so the gaps between
actions are the gaps where the code can be interrupted:

| Code | Actions |
|---|---|
| `AddTask` | `AddTaskPush` (locked), `AddTaskSignal` (the select with default) |
| `GetNextTask` | `GetNextTask` |
| `ExecuteNextTask` | `ExecuteEmpty`, `ExecutePop`, then `CallbackReturns` or `CallbackPanics` |
| `Run` | `RunCheck` (locked look), `RunSelectIdle`, `RunArm`, `RunSelectTimer`, `RunTimerFires`, and `ExecuteNextTask`'s |
| context, clock | `Cancel`, `Tick` |

A signal is received only by a Run that is *parked* in a select. A Run on its way to
the select is not, and that is where a wake-up is lost (section 4). A callback that
calls `AddTask` runs its steps while it is in progress and outlasts them.

**HealthChecker.** Channels are sequences with the capacities of the `make` calls; a
receive from a closed empty channel ends the range loop, a send on a closed one
leaves the worker "panicked". Each worker goes through its two looks at the context:
the select before `checkUrl`, and the request, which ends as any of `Outcomes` or,
when the context is done, as an error. `out` is what RunChecker drained. URLs are
positions in the list, so a URL listed twice is two jobs.

**TokenBucket.** A call holds the mutex and is one action, but it reads the clock up
to three times (`time.Since`, `time.Now`, and again for its result); the delays
between readings are chosen from `Delays` (a first call on a key reads it only once
before its result). Amounts are exact integers (units of 1/`Window` token); float
rounding is abstracted. Durations are whole ticks as in the code they are whole
nanoseconds, truncated the same way. `granted`, `lost`, `log` and the time `at` of an answer are
history and only properties read them.

**MetricsBuffer.** The ring, `writeIdx` and `count` as in the code; the three
reports are actions that leave what they returned in `reply`, and may be taken in
every reachable state with every argument of `Asks`. Both buffers of the file have
the same ring code, so they are one model; a `GetWindow` reads the clock once per
sample and the clock may move on while it runs.

**LRUCache.** A node is named by its key. The pointers are updated in the order of
the assignments. **SparseMerkleTree.** Keys are bit tuples, `nodes` is keyed by
level and full key as the code's strings "level:hex" are. `MaxKeys` bounds how many
keys are set.

**MerkleHash.** sha256 is taken to be one to one, and so is joining two hashes, which
are 32 bytes each (`Concat`). There is no mark of what was hashed, as there is none in
the code: a leaf is the hash of an item, a parent the hash of two hashes joined, and an
item that is two hashes joined has the hash of their parent.

**MerkleTree.** A tree is the list of its levels instead of nodes with parents; going
to `n.Parent` halves the index of a node, counted from 0 (`Ancestors`). **RLP.** Bytes are
numbers and the arithmetic of headers is that of the code. The caller of `RLPReader`
is the usual one: it reads strings and lists as they come, goes into a list with the
reader `ReadList` returns and leaves it at `io.EOF`. `limits` are the
`io.LimitReader`s around the stream. A decoded buffer has no spare capacity, so a
slice beyond it panics; a panic and an error are both `Failed`.

**PaymentRouter.** `Expand(n)` is one iteration of the loop of `FindPath`: a pop and
all offers to the neighbours. `heap` gives the entry of each node that is in the
heap; since an entry is updated in place there is one, and `inHeap` is its domain.
Nodes of equal rank may be popped in any order, because their order in the slice
comes from Go's map iteration. Offers of parallel channels are taken in their order,
so the first of equals stays. `Walk` is one hop of `reconstructPath`.

**BinaryHeap.** `isMin` chooses `MinHeap` or `MaxHeap`, whose code differs only in
the comparison (`Before`). `loop`, `i` and `built` say which loop runs and where it
is: `BubbleUp` is an iteration of Push's, `Sink` one of `siftDown` that swaps,
`Settle` the one that ends it and goes on with Heapify's.

**SearchTree** trees are records; `Deleted` is the set of trees that the random
numbers of `Delete` may leave. **Trie** nodes are the runes that lead to them; Search,
StartsWith and the deletions walk along the nodes before they look at the mark of the
last one, and a node that is pruned takes its mark along. Both deletions index a slice of runes with positions in bytes, so with a rune of more
bytes they panic; `DeleteIterative` has then unmarked the word. **LinkedList** has
two lists in one memory of four nodes, or one list that closes into a cycle; an
action is a call, and `call` records its answer. **RoutingTable** follows addresses
of `Width` bits; `Far` are prefixes longer than that, as `net.ParseCIDR` makes them
from IPv6 routes. **RoboticLeveling** asks `Solve` before each turn and executes the
answer if the rules allow it.

## 3. What each run checks

Every property in the table is an INVARIANT or a PROPERTY of the named cfg. All
bounds are constants of the cfg or of the MC module. Deadlock is checked in `health`
and `bucket`; the others may really stop: a scheduler with no task left and no Run
alive, a search that has returned, a panicked caller, an arm that has won.

| Run | Instance | Shows |
|---|---|---|
| `scheduler_sole` | one Run; four tasks: two due together with different priorities, one due at once that a callback adds, one due later; one callback panics | `TypeOK`, `NeverEarly`, `SeenIsStillThere`, `ImplementsContract`; under fairness `SeenTasksDrain`, `ParkedRunSeesAdd`, `CancelledRunReturns` |
| `scheduler_shared` | two Runs and a client of `GetNextTask` and `ExecuteNextTask`; three tasks | `Accounted`: an added task is in the heap, or taken once, or started once; `StopsOnlyWhenCancelled` |
| `health` | 0, 1 or 3 URLs, 0, 1 or 2 workers, healthy or failing, SIGINT any time | `SendNeverBlocks`, `EachUrlOnce`, `CompleteUnlessInterrupted`; under fairness `RunCheckerReturns`, `FeederExits`; no deadlock |
| `bucket` | rate 2 per 3 ticks, burst 2 (the default), requests of 1 to 3, 0 or 1 tick between readings, 7 ticks | `NeverOverGrants`, `ConstantRate`, `AnswersAreTight`: RetryAfter and ResetAt are right to one tick in both directions, ResetAt but for the ticks between two readings (`FullAtReset`), and a request above the burst is told to retry in vain |
| `payment_router` | four nodes, seven channels, two of them parallel; three or four policies for each, free, with a toll, narrow, with a minimum, or closed; a payment of 900 msat, and one to oneself | `RouteCanBePaid`, `SettledOnce`, `LowestCostWithoutMinimum` against all ways to pay; under fairness `FindPathReturns` |
| `data_structures`, heap | values 1 to 3, up to five items, both orders | `HeapOrder`, `ImplementsPriorityQueue` |
| tree | keys 1 to 5, any calls, both choices of `Delete` | `TreeIsSound`, `KeysAreSets`: each call does what `KeySet` says for its own key |
| trie | seven words over, under and beside each other, one with a wide rune, and the empty one | `PrefixesOfWords`, `KeysAreSets` of the words that Search finds, up to a panic |
| lists | four nodes, values 1 and 2, every split into two lists, every cycle | `CallsActOnSequences` |
| cache | four keys, capacities 0 to 3 | `OneChain`, `ImplementsLRU` |
| buffer | rings of 1 to 3, up to 6 pushes, arguments 0, 1, 2, 4 | `ReadsAreExact` (GetRecent, Average, GetWindow), `HoldsRecent` (refines `RecentSamples`) |
| routes | 2 bits, two gateways and none, two longer prefixes, three calls | `LongestPrefix` |
| arm | two or three stacks of up to five boxes, sixteen boxes on one of eight stacks | `WinsInTime` |
| `serialization`, sparse tree | depth 3, any Sets of at most three of the eight keys, overwriting included | `ProofsAfterSet`, `RootOfNeighbours` |
| tree | lists of up to six items; of the two items one is the other's hash joined to itself, so that trees of different heights share roots | `ProofVerifies`, `RootDeterminesItems` |
| RLP | strings of 0, 1, 2, 55, 56, 255, 256 bytes, bytes and integers at every change of form, lists in lists; whole, and cut near either end | `DecodesWhole`, `ReadsInOrder` |

The structures of `data_structures`, and those of `serialization`, share nothing. A
behaviour of such a run is a behaviour of one of them, chosen by `part` in the
initial state, and the others stay as they are made. `AllTypes` is the type
invariant of those that state one, as a conjunction.

The bounds are enough for the case each property is about to happen. Two Runs and
one client are every pair of consumers of the heap, and a third adds the same pairs.
Three URLs with two workers give a full `jobs` channel, a worker that is late and a
feeder that blocks; pool 0 gives the group that ends at once. Rate 2 per 3 ticks
makes fractions of tokens that do not come out even, and 7 ticks let the bucket
refill twice. Rings of 3 with 6 pushes wrap twice, and a ring of 1 is its own seam.
An LRU cache of 3 has a head, a middle and a tail, and the fourth key makes it evict
from each state. A tree of depth 3 has siblings that are leaves, subtrees and larger
subtrees. A heap of five has a child that is chosen between two and has two children
itself, and one of four an inner node with one child. A tree of five keys has nodes
with two children below nodes with two children, so that a Delete deletes a
successor with a child. Six items make a Merkle tree with an odd level above an even
one. The seven channels have a diamond, its cross-edges in both directions and a
pair, which is what it takes for a dearer way to a node to be needed, for an offer
to update an entry in the heap, and for offers to go back to a popped node. Clocks
and counters saturate or stop (`Horizon`, `MaxPushes`, `MaxKeys`, `MaxRoutes`,
`MaxSize`, `MaxItems`); no property depends on the stop, because the scheduler's
clock stops only when every task is due.

The unbounded parts are handled otherwise: in the scheduler each task is added once,
so a long sequence is a larger `Tasks`, and section 5 proves the properties for
every `Tasks`.

## 4. Where the code and its texts differ

Each run of this kind checks one property that a comment or a test states and finds
it violated by what the code does.

| Run | Property | What happens |
|---|---|---|
| `scheduler_lost_wakeup` | `EveryAddIsSeen` | Run sees an empty heap and unlocks; `AddTask` pushes and finds nobody parked, so its signal is dropped; Run parks and never looks again, although the comment in `AddTask` says a busy Run "will re-check the heap anyway". `ParkedRunSeesAdd` holds: only this window is open |
| `scheduler_two_consumers` | `NeverEarly` | Run sees a due task and unlocks; another consumer takes it; `ExecuteNextTask` pops the next task, which is not due |
| `health_cancel` | `CancelledRunReportsError` | an interrupt that only the feeder notices: it closes `jobs`, workers finish what they have, RunChecker returns fewer results and no error |
| `payment_lowest_cost` | `FindsLowestCost` | the search keeps the least amount per node; a channel before it with a minimum above that amount is refused, although a dearer way on would meet the minimum. FindPath returns `ErrNoPath` or a dearer route. With no minimum above the payment this cannot happen (`LowestCostWithoutMinimum`) |
| `sparse_merkle_proofs` | `ProofsVerify` | a second Set that does not find the subtree of the first key overwrites the root without it |

Smaller remarks. A request above the burst on a new key is denied with RetryAfter 0;
on a known key it is given one after which it is denied again
(`RetryAboveBurstIsVain`). `ResetAt` is late by what passes between the reading of the
clock that dates the refill and the one it is added to. The Merkle tree hashes leaves
no differently from parents: the list of the one item that is h(a) and h(b) joined has
the root of the list of a and b (`RootDeterminesItems` says so of every two lists of
one root). `ErrSameNode` and `ErrInvalidAmount` of the payment router are never
returned: a payment to oneself gets an empty route, and no amount is refused. A task
that is sooner than the one Run's timer is armed for, and whose signal found nobody in
the select, starts only when that timer fires; that it starts is checked
(`SeenTasksDrain`), how late is not. `RemoveNthFromEnd`
drops the whole list when it is shorter than n, and panics for n = 0; `IsPalindrome`
leaves its argument cut in the middle. Both deletions of the trie panic on words
with runes of several bytes. An empty RLP list decodes to a `[]byte`, a one-byte
string to a `byte`, and a stream that is cut between two chunks ends like a list. An
IPv6 route shorter than 32 bits answers for IPv4 addresses that begin with zeros.
`AllowN` dates a refill by a second reading of the clock, so what is earned between
two readings is lost (`ConstantRate` counts it as `lost`). A timeout of one worker
does not cancel the others although the head of `parallel_url_health.go` asks for
that. `GetWindow` returns "all samples" of the window only while they have not been
overwritten.

## 5. What is proved

The proof modules hold for every value of the constants that satisfies the named
assumptions: sets are sets of numbers, tasks have times within the horizon, rates and
windows are positive, fees and amounts are not negative (`SchedulerAssumption`,
`HealthAssumption`, `BucketAssumption`, `HeapAssumption`, `RouterAssumption`); the
depth of a sparse tree is positive and its values are not the empty string, which is
a value of its own, bounds are numbers, routes are strings of bits and words strings
of runes (`TreeAssumption`, `ListAssumption`, `RouteAssumption`, `WordAssumption`); nodes
are finite in number and 1000 times a capacity is below `MaxInt64`, which the code has
since it compares in millisatoshi (`CapacityAssumption`); keys are finite in number, as
ints are, and capacities and sizes are not negative (`CacheAssumption`,
`BufferAssumption`); a factory has two to eight stacks and one to sixteen boxes, as
the rules say (`ArmAssumption`; these three are hypotheses of the theorems). TLC evaluates each of them. A theorem
about one Run loop assumes, in the text of the theorem, that there is one Run and no
client.

| Theorem | Argument |
|---|---|
| **Scheduler** | |
| `TypeCorrect` | `TypeOK` is inductive |
| `TasksAccounted` | `Accounted` needs only the types: a task enters the heap when its call leaves "new", and leaves it by a pop that records it |
| `RunStopsOnlyWhenCancelled` | a Run that sees its context done records nothing else; a panic is recovered and the Run goes on |
| `SoleRunActsOnTruth`, `SoleRunNeverEarly` | `NeverEarly` alone is not inductive: at "execute" Run pops whatever is there. `SoleInv` adds `SeenIsStillThere`: what Run saw is still true of some task, because nobody else pops and adding or waiting keeps it. The root precedes that task, so it is due |
| `SoleRunImplementsContract` | under `SoleInv` each step is a step of `SchedulerContract` or leaves its variables alone |
| **Health checker** | |
| `SendsNeverBlock` | `CountInv`: jobs queued, URLs in hand, results and output are together at most what was fed; a worker about to send counts once, so `results` is not full. `PhaseInv`: results is closed only when all workers have exited |
| `FailureMeansInterrupt` | `ErrorInv`: the context is done before `Wait` returns only by an interrupt |
| `UrlsAreHandedOnOnce` | the copies of a URL are those in four places (`PlacesOfUrl`: both channels, hands, output), and each step moves one from one place to the next. An idle worker has nothing in hand (`IdleHands`) |
| `SummaryIsComplete` | `DrainInv`: without an interrupt a worker leaves only when everything was fed and `jobs` is closed and empty, and the caller returns with `results` empty. Then `CountInv` leaves only the output |
| **Token bucket** | |
| `BucketTypes` | the level stays between 0 and full |
| `BucketsNeverOverGrant` | `NeverOverGrants` is not inductive, for it says nothing of what the bucket still holds. `BudgetFrom` adds the level: granted plus held is at most a burst and what was earned up to the last refill |
| `RateIsConstant` | the same from below: `RateInv` says that a bucket is full or that there is an earlier instant since which it has withheld nothing but the ticks lost between two readings |
| `AnswersTight` | `AnswerInv` ties the last answer to the bucket it left and to the time it was made, and says that only a request above the burst is refused without a bucket. The rest is arithmetic of the truncated quotient in both directions (`WaitIsTight`), once for each part (`TightRetry`, `TightReset`, `VainRetry`) |
| **Metrics buffer** | |
| `RingIsSound`, `BufferTypes` | `RingInv`: going back from `writeIdx` the slots hold the samples from the newest on, `count` of them, and the samples are in order of time. A push moves every slot one further back, with a wrap (`Wraps`) |
| `ReadsTellTheTruth` | from `RingInv`: both segments that `GetRecent` copies are a stretch of the history; the sum of `Average` is over the same slots; the early exit of `GetWindow` is right because times are in order |
| `RingHoldsRecent` | the sequence the ring stands for is the end of the history, and a Push of it a Push of `RecentSamples` |
| **LRU cache** | |
| `CacheTypes`, `ListIsOneChain` | `IInv` names the chain: a sequence of the keys of the map, each once, that head, tail and the pointers represent (`Represents`); the pointers of evicted nodes are free. A lemma for each list operation says what it makes of the chain, assignment by assignment: `AddHeadChains`, `MoveToHeadChains`, `PopTailChains`, from `LinkFirstChains` and `CutChains` |
| `CacheEvictsLeastRecent` | what is read along `next` is the chain (`WalkReads`), so the same lemmas say that each call is one of `RecencyCache` |
| **Payment router** | |
| `TypeCorrect` | types, and a node in the heap has there the amount of `dist` |
| `NodesSettleOnce` | fees are not negative, so amounts never fall from a pop to the next: every settled node has at most the amount of every node in the heap. An offer must be less than what the node has, so none goes to a settled node |
| `RoutesCanBePaid` | `PrevInv`: `prev` of a node leads over a channel that accepts its amount, with its fee, to a decided node. Amounts may be equal along `prev`, so they do not show that it has no loop; instead every set of nodes has one whose `prev` leads out of it. `WalkInv`: the walk has been along `prev` and nowhere twice |
| `RoutesCostLeast` | `SpreadInv`: a decided node has made its offers, so no neighbour needs more than it would send through it. By induction along any way to pay, backwards from the destination, no node on it needs more than the way does. That takes fees that grow with the amount, and no minimum in the way |
| **Binary heap** | |
| `TypeCorrect` | `TypeOK` with the places of the loops: `i` is inside the slice while a loop runs |
| `HeapsStayOrdered` | `HeapOrder` holds between calls only. During a loop the order may fail around `i` alone, above it for `BubbleUp` and below it for `Sink`, and it is *bridged*: children of `i` do not come before the parent of `i`. In Heapify only indices from `built` on have order below them. Each swap moves the failure with `i` |
| `HeapIsPriorityQueue` | a swap keeps the bag (`SwapKeepsBag`) and is a stutter, a Push adds one (`OneMoreInBag`), a Pop takes the root (`PopTakesFromBag`), which is a first one because the least index of an item before it would have a parent that is not (`RootIsFirst`) |
| **Sparse Merkle tree** | equal hashes are of equal things |
| `SparseTreeIsSound` | `SparseInv`: each level of the path of the last key is combined from the level below and the sibling that the map has now; and wherever only one key is set in a subtree, the node stored under that key is the hash of the subtree of the contents. The second part is what survives other Sets: a Set writes nodes of its own key only, and changes the contents of no subtree that its key is not in (`SetOthers`) |
| `ProofsFollowSet` | the siblings a proof reads are those that `SparseInv` says the root was combined from, so its fold ends at the root (`VerifiesWhen`) |
| `NeighboursHaveTheRoot` | two keys that differ in one bit share a subtree from that level up; below it each is alone, at it the sibling is the other key's node, and above it all siblings are empty (`SetAmongNeighbours`) |
| **Merkle tree** | |
| `GeneratedProofsVerify` | the levels are a `Tower`, each the parents of the one below. A node and its `Sibling`, in the order of the path bit, hash to the node at half the index, the doubled last one included (`ParentOfNode`), so the fold of a proof goes up the tower to the root. Combining is injective in the leaf (`OneLeafVerifies`) |
| `RootTellsItems` | from the root down: if the levels of two trees at one height are equal up to a longer end that repeats the shorter one's (`GoesOn`), so are the levels below (`GoesOnBelow`), down to the leaves of the lower tree (`SameRoot`, which asks only for levels that are each the parents of the one below). A longer list has no lower tree (`LongerIsNotLower`). When the heights are equal this is the property; else the lower tree's leaves are parents in the other, so its items are two hashes joined (`LeafOfParent`). Nothing is assumed to keep the two apart |
| **Trie** | |
| `FindsWordsOfPrefix` | `TrieInv`: nodes are closed under prefixes and no deeper than some number, every end is a node, and, until a panic, every node but the first leads to an end. Insert adds the prefixes of its word; a deletion prunes exactly the nodes of its word that lead to nothing any more (`PruneIsExact`). The descent of `findSuffixesDFS` finds the ends below a node (`WordsBelowIsExact`), by induction on how deep the nodes go |
| `TrieIsAKeySet` | what a call does for its own word to the words that Search finds, which is a walk along the nodes and a look at the mark. By `TrieInv` every marked word can be walked to; a deletion prunes only nodes that lead to no other end (`PruneIsExact`), so the way to every other word stays |
| **Routing table** | |
| `PathsAreComplete`, `FindsLongestPrefix` | `RouteInv`: the gateway at a node is that of the last route for its prefix, and all prefixes of a node are nodes. FindRoute stops at the first bit without a node; no longer prefix of the address has one then, so the loop's last gateway is that of the longest |
| **Robotic leveling** | |
| `SolveWins` | targets add up to the boxes (`SumOfTargets`), so a box in the claw has a place to go, and with no stack too high none is too low. `ArmInv`: `turn` and `TurnsLeft` are at most 200 together. `TurnsLeft` counts for each box that is missing on a stack a way there and a way back no longer than from its far end, with a PICK and a PLACE; each command makes it less (`TurnsGetFewer`). In a factory of the rules it is at most 200 at first (`EnoughTurns`); counting every way as long as the row of stacks would not do, eight stacks with sixteen boxes would come to more |

`Iteration` has what induction there is: a set of numbers has a least one, a set closed
under the next has all, and a recursion over the numbers has a solution. With it a
recursive *function* can be unfolded at every number, which is how `Walk` of the cache,
the ways to pay of the router, the levels of the Merkle trees, the loops of the tries
and the sums of the arm are reasoned about.

Only model-checked: liveness (out of the prover's reach, as is ENABLED), though
`SolveWins` bounds the turns of the arm without it; the search tree, the linked list
and RLP (`TreeIsSound`, the search tree's half of `KeysAreSets`, `CallsActOnSequences`,
`DecodesWhole`, `ReadsInOrder`), whose operators are recursive over data, for which the
provers have no induction. `AllTypes` and `KeysAreSets` are conjunctions over several
structures and are proved of those that have theorems.

### Fairness

`TaskScheduler`: weak fairness of the steps of every Run and of each `AddTask` that
has started, for the Go scheduler runs what can run and `ts.mu` is always released;
of `Tick`, for time passes; and of the end of a callback, since a callback that
never returns stops its Run. Nothing is assumed of when tasks are added, contexts
cancelled or clients call. `HealthChecker`: the same for the feeder, the workers and
the caller; a request ends because `checkUrl` gives it a timeout. Nobody need ever
interrupt. `PaymentRouter`: weak fairness of its one sequential caller.

## 6. Not modelled, and why

Consensus, gossip, graph algorithms, Patricia trie, DAG and Bloom filter have only
TODO bodies. `examples/` demonstrates. `FileBlockService` and temperature are single
loops over a slice that a test covers. SSZ and protobuf in `serialization.go` are
stubs. RLP input that no encoder produces, `ReadList` readers left before their end,
sums of amounts beyond int64, and texts that `net.ParseCIDR` or `net.ParseIP` refuse
are left out. `Peek` of a heap and `Graph.AddEdge` are single statements without a
branch of interest. Reading the URL file, printing and average latencies are I/O or
wording. Data races are not modelled as none were found: state is behind a mutex or
moves through channels. float64 rounding is not modelled. Of the sparse tree, keys
of a wrong length are left out, and so are depths that are not a multiple of 8,
where bits of a key beyond the depth name no place.

## 7. Plan

Every component with behaviour has a module, and every safety property of all but the
search tree, the linked list and RLP has a theorem. What could come next:

1. The abstract heap of `TaskScheduler` and of `PaymentRouter` stated as
   `PriorityQueue` over records.
2. `SettledOnce` gives a bound on the steps of the search; a number that decreases, as
   `TurnsLeft` does, would let a safety theorem say what `FindPathReturns` says under
   fairness.
3. The search tree with its nodes as places in a memory, as the linked list has them,
   so that its loops become recursions over numbers.

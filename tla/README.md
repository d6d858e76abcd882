# MarketXray in TLA+

MarketXray replays a day of NASDAQ ITCH messages.  A Rust process parses the
file and feeds one C++ engine per symbol through shared memory; each engine
keeps an order book and prints JSON snapshots; the Rust process relays them to
browsers over WebSocket; the browser shows them, or a simulator's when there is
no gateway.  A daemon for one symbol serves browsers from C++ instead.  This
directory holds a model of it: TLA+ modules, the TLC configurations that check
them, and proofs of nearly all of their safety properties.

## 1. Inventory

| part | state | operations | talks to |
|---|---|---|---|
| tick queue (`SharedMemory.hpp`, `ShmProducer` in `main.rs`) | `head`, `tail`, `buffer` | `push_tick`, `pop` | ingestor, engine (shared memory, atomics) |
| engine life cycle (`SharedMemoryManager`, `run_daemon`, `main` of `main.rs`) | region and its header, `running_`, child processes | create, open, signal, wait, stop, kill | shared memory, signals, exit status |
| ITCH ingestor (`run_ingestor`) | `target_stock_locates`, `order_side_map`, counters | one case per message kind, route, push or drop | tick queue |
| order book (`LimitOrderBook.hpp`, `MemoryPool.hpp`) | pool, free list, order map, levels, price sets, best prices | `add_order`, `cancel_order`, `execute_order` | called by the engine's loop |
| engine loop (`EngineLoop.hpp`) | lifetimes, statistics, windows since the last snapshot | `dispatch`, `emit_snapshot` | book, detector, analytics, graph; callback to stdout or `broadcast` |
| spoofing detector (`GraphAlgos.hpp`) | clusters, index of orders | `record_add`, `record_execute`, `check_cancel`, eviction | called by the loop |
| analytics (`AnalyticsEngine.hpp`, `HawkesPIN.hpp`) | OFI and VWAP windows with their sums, Hawkes events, PIN window with its counts | `process`, `record_event`, `record_trade`, `estimate_pin` | called by the loop, per tick and per snapshot |
| graph engine (`GraphAlgos.hpp`) | none | `simulate_market_impact`, `compute_flash_crash_probability`, `detect_arbitrage` | called by the loop, per snapshot |
| snapshot gateway (`main` of `main.rs`) | map symbol -> version and snapshot, `last_versions` per client | reader task, client task | stdout pipes, WebSocket |
| feed store (`feed.ts`) | status, socket, timers, market | `start` (from `App.tsx`), `setPreferSim`, socket and timer callbacks | WebSocket, simulator, React |
| WebSocket server (`WebSocketServer.hpp`, `main_ws.cpp`) | clients with descriptors, `running_`, pacing | select loop, `broadcast`, `stop` | engine thread, browsers |
| multi-symbol hub, exporter, simulator, user interface, tests, build | | | |

What is hard in it: two processes on a lock-free ring and on a hand-made ready
handshake; processes that die at any moment; pool slots, links and totals that
three registers of orders must agree on; ticks dropped under back-pressure;
tasks that read a map under a lock and send without it; descriptors closed on
one thread while another waits on them; sums carried along instead of computed;
browser callbacks and timers in any order.  `PROJECT.json` lists these as hazards,
each at its line.

## 2. Modules

| module | models | composed with |
|---|---|---|
| `BoundedFifo` | what the queue promises: a bounded FIFO channel whose reader may leave | |
| `SpscQueue` | the ring, access by access | implements `BoundedFifo` |
| `SpscQueueProofs` | theorems about `SpscQueue` | |
| `AbstractBook` | what the book promises: queues by side and price | |
| `LimitOrderBook` | book and pool | implements `AbstractBook` |
| `LimitOrderBookProofs` | theorems about `LimitOrderBook` | |
| `SpoofingDetector` | the detector's operators | used by `EngineLoop` |
| `AnalyticsEngine` | OFI and VWAP windows | used by `EngineLoop` |
| `HawkesPIN` | what the flow estimators keep, and the PIN level | used by `EngineLoop` |
| `GraphEngine` | impact walk, depth, search for a cycle | used by `EngineLoop` |
| `EngineLoop` | `dispatch`, `emit_snapshot` | `AbstractBook`, `SpoofingDetector`, `AnalyticsEngine`, `HawkesPIN`, `GraphEngine` |
| `EngineLoopProofs` | theorems about `EngineLoop` and the modules it uses | |
| `EngineLifecycle` | start, handshake, stop and kill of the engines | |
| `EngineLifecycleProofs` | theorems about `EngineLifecycle` | |
| `Ingestor` | message cases, `order_side_map`, drops, the books they lead to | |
| `IngestorProofs` | theorems about `Ingestor` | |
| `SnapshotGateway` | pipes, map, client tasks, sockets | |
| `SnapshotGatewayProofs` | theorems about `SnapshotGateway` | |
| `FeedStore` | connection, fallback and switch of the browser | |
| `FeedStoreProofs` | theorems about `FeedStore` | |
| `BroadcastFeed` | what a broadcast server promises its members | |
| `WebSocketServer` | select loop, `broadcast` and `stop` on two threads | implements `BroadcastFeed` |
| `WebSocketServerProofs` | theorems about `WebSocketServer` | |
| `MC...` | instances for TLC | |

How state and steps correspond to the code:

* **SpscQueue.**  A tick is 64 bytes, so a slot has two halves, written
  (`WriteLo`, `WriteHi`) and read (`ReadLo`, `ReadHi`) apart.  `LoadHead` and
  `LoadTail` are the acquire loads: they may return any value the other index
  has had since the value seen last (`MayLoad`), which is what the memory model
  allows.  `Publish` and `Release` are the release stores.  `LoadHeadFull` is a
  failed attempt with its spin, and the drop after the last one.  `EngineGone`
  is the engine's end at any point.
* **LimitOrderBook.**  One action per outcome of a call: rejected, thrown,
  added; unknown; cancelled or executed, in part (`Shrink`) or in full
  (`Remove`).  `pool`, `free_list`, `order_map`, `levels`, `prices` are the
  members of the same name.  A freed node is shown blank: the code leaves the
  old fields there, and overwrites them before it reads them.
* **EngineLifecycle.**  Every access of `SharedMemoryManager::map` to the
  region is a step, as are the stages of `ShmProducer::open`; `named` is whether
  the region's name resolves, `region` what is behind it.  Regions and engines
  (`leftover`) of an earlier run are there in the initial states; an engine of
  that kind unlinks, when it ends, whatever region the name then stands for
  (`LeftoverEnds`).  Assumed of these engines: they are past the creation of
  their regions, so they create and truncate none.  `EngineDies` and `Crash` end
  a process at any point.  The end of `main` is its loop over the handles: `Kill`
  sends SIGKILL, which the kernel delivers in its own time (`EngineKilled`) or
  finds the engine dead of another cause, `Reap` awaits that, and `Exit` looks at
  nothing but `children`, which has become empty.  No clock: the engine gives up
  (120 s) only when Rust no longer tries to open its region (5 s).
* **Ingestor.**  One action per message kind, which changes `order_side_map`
  and leaves one or two ticks in `pending`; `PushTick` pushes or drops the next.
  The file itself is the history `exchange`: order ids unique per symbol and
  day, messages only about live orders.  `Dispatch` applies a tick to the book,
  which has no pool here (its exhaustion is `LimitOrderBook`'s subject).
* **EngineLoop.**  A turn of the loop is a step: only this thread touches the
  state.  Of a timestamp it keeps whether the market has opened.  An execution
  comes with its order's price, or, from a message 'C', with any of
  `TradePrices`; these have 0, to which a price below one dollar is rounded.
  `analytics`,
  `hawkes` and `pin` are the members of those names; `published` is what the
  turn hands to the callbacks: the window and the figures of `emit_snapshot`.
  An average or a probability is kept as its numerator and denominator, and the
  impact walk and the cycle search are functions that fold over the levels and
  the edges in the order of the code's loops.  What an update of OFI or VWAP does
  to its window and its sums is a function of the pair of what was seen before
  and what is seen now.  Rates become integer weights: the logarithm of a product
  is a sum, and `Roundings` is what a logarithm may be off by.
* **SnapshotGateway.**  A line is a snapshot's number or noise: a banner, or the
  pieces of a snapshot into which the signal handler printed, none of which is
  JSON.  What the code
  does under the lock is one step; `send().await` is another, and waits while
  the socket is full.
* **FeedStore.**  One action per callback; sockets have the four ready states
  of the browser, are reused once closed, and `Gateway` brings the other end up
  and down.  `Start` is React's running of the effect that calls `start()`,
  which has no cleanup: once in the built bundle, twice in the development server,
  where `main.tsx`'s `StrictMode` mounts the page twice (`EffectRuns`).  The
  second call overwrites `this.ws` and leaves the first socket connecting, with
  callbacks that go on acting for the store: a stray.  `mounts` counts the calls.
* **WebSocketServer.**  The loop's thread and the engine's thread take turns at
  `clients_mutex_` (`lock`), and what either does between two calls of the
  kernel is a step; `it` is the iterator of the one that holds the lock.  The
  kernel is modelled from how the code uses it: `owner` says which client is at
  the other end of a descriptor, `accept` gives the lowest free one, and
  `select` may report a descriptor as ready that was closed since the set was
  filled.  A request is two pieces, the second of which ends its header.  A
  frame is the number of its snapshot, or `Cut` when the client stayed blocked
  for 5 ms.  `CloseAndErase` is both threads' way of dropping a client.

## 3. Runs

| run | instance | shows |
|---|---|---|
| `spsc_queue` | 4 slots, 6 pushes, 2 spins, 2 ticks | no slot is raced for; delivery whole and in order; the FIFO channel, with fairness; a push returns though the engine is gone |
| `order_book` | 3 slots, 4 ids, 2 valid and 2 invalid prices, quantities 0..2 | pool conserved, lists, totals and best prices consistent, `AbstractBook` implemented |
| `engine_lifecycle` | 2 symbols, 2 attempts, 1 tick, any set of old regions and old engines | no stale region is taken for a new one, no loop without a signal, a handle of every engine that runs, so that a clean exit leaves none, no endless wait |
| `ingestor` | 2 symbols, the same 2 ids, 5 messages, ring of 1 | books follow the file without drops, and only overstate it with drops |
| `engine_loop` | 3 ids, 5 ticks, snapshot every 3, 2 prices, clusters of 1 order, windows of 1 and 2, fills of 2 bits | book, detector, lifetimes and order flow agree; sums are those of their windows; a published window has its interval's executions, the first two if there were three; its figures are those of the book, less what a fill cuts off |
| `snapshot_gateway` | 2 symbols, 2 clients, 2 snapshots each, pipe of 2, socket of 2 | never older, nothing twice, nothing missed in the end |
| `feed_store` | 4 sockets, 1 or 2 calls of `start()` | no more connections than calls, the badge names a feed in use, reconnection |
| `web_socket_server` | 2 clients, 1 or 2 descriptors, 4 pieces, 2 snapshots | no descriptor leaked or listed twice; `BroadcastFeed` implemented; requests answered; `stop` ends |

The bounds.  Four slots wrap around within six pushes and fill; three pool slots
give lists with a first, a middle and a last node, and a fourth id exhausts
them; two symbols are the least with which one can disturb the other; two ids
are the least for a replace; a pipe of two lines lets a reader lag behind its engine, and a
socket of two frames a browser behind its task; three sockets are the current
one, one still closing and the next, and the fourth is the stray; three turns to
an interval and windows of two let a window overflow; with two clients
one of them can get the descriptor the other has just lost, and with a limit of
one descriptor `accept` fails; a level of two orders of two shares has the
volume 4, which a `Width` of 4 cuts to 0.  Each bound is a
constant that stands in a guard and nowhere else, or is a limit of the code made
small (`OpenPolls`, `MaxSpins`, `Window`, `WindowCap`, `MaxEvents`, `PinWindow`,
`MaxTracked`, `MaxOrders`, `Width`, `TopDepth`, `TotalDepth`).  `MaxSnapshots`,
`MaxMessages`, `MaxTicks`, `MaxPieces` and `MaxPushes` cut behaviours off;
the runs in which that, or the end of a process, stops the system do not check
deadlock.  `feed_store` is unbounded and checks it.

`MCEngineLoop` also has TLC evaluate `detect_arbitrage` on every matrix of three
assets with weights -1, 0, 1 or no edge.  `ArbitrageIsReal`: a reported cycle is
closed, made of edges that exist, and profitable (a theorem of the same name
says so for any number of assets).  `ArbitrageCanBeMissed`: the
converse fails, since the walk back may start at a node without a predecessor
(120 of the 4096 matrices); the rates the engine passes hold no cycle to miss.

Four runs each check one statement of the repository that the code does not
keep:

| run | statement | what happens |
|---|---|---|
| `lost_ready_signal` | Rust sets `rust_ready`, C++ wakes up (`Rust_SHM_Bridge.md`) | the engine clears the flag after Rust has set it |
| `stop_ignored` | "Press Ctrl+C to stop" (`main.cpp`) | `running_ = true` overwrites an early `stop()` |
| `sim_beside_live` | SIM is shown when the backend is unreachable (`README.md` of the frontend) | the effect runs twice under `npm run dev`; one socket's `onclose` starts the simulator while the other is open and delivers |
| `connection_dropped` | "every connected client receives them" (`WebSocketServer.hpp`) | a new client gets the number of a descriptor `broadcast` closed under `select`, is taken for ready, and closed |

## 4. Fairness

* `SpscQueue`: weak fairness of either process.  Both spin without blocking, and
  a store becomes visible in finite time; a load that returns nothing new is no
  step.  `PushReturns` uses the producer's alone.
* `EngineLifecycle`: weak fairness of the orchestrator and of every engine, which
  the operating system schedules, and of the kernel's delivery of a SIGKILL
  that was sent; none for crashes and other signals.
* `SnapshotGateway`: weak fairness of each task and each connection (tokio
  schedules tasks that are ready); none for engines or for browsers that leave.
* `FeedStore`: timers fire and closing sockets close (weak).  That a gateway
  which is up answers some attempt before its guard fires is strong fairness of
  `OnOpen`: single attempts may fail, each of them may not.
* `WebSocketServer`: weak fairness of either thread, which the operating system
  schedules.  Nobody has to call, send, emit a snapshot or ask for the stop.
  That the loop gets a mutex which broadcasts keep taking is not assumed: the
  snapshots are bounded, so the lock is free for good in the end; with endless
  snapshots it would rest on the mutex being fair enough.
* `LimitOrderBook`, `EngineLoop`, `Ingestor` are checked for safety.

## 5. Proofs

| module | theorems | property |
|---|---|---|
| `SpscQueueProofs` | `TypeCorrect`, `SlotsNeverRace`, `DeliveryInOrder`, `RingIsFifo` | types; no race; order; refinement of `BoundedFifo` |
| `EngineLifecycleProofs` | `TypeCorrect`, `StaleRegionNeverOpened`, `LiveAfterSignal`, `NoOrphans` | handshake and exit |
| `LimitOrderBookProofs` | `TypeCorrect`, `SlotsConserved`, `ListsAreRight`, `TotalsAreRight`, `BestPricesAreRight`, `ListsImplementQueues` | types; pool, lists, caches; refinement of `AbstractBook` |
| `EngineLoopProofs` | `RegistersAgreeAlways`, `CancelsAreCovered`, `WindowsAgree`, `ExecutionsAreComplete`, `FlowSeesTheBook`, `TotalsMatchWindows`, `QuotedMarketIsFair`, `RiskIsTheDepth`, `ArbitrageIsReal` | the registers of orders, the windows, the running sums; the figures of a snapshot; the search for a cycle |
| `IngestorProofs` | `OrderMapFollows`, `BooksFollowTheFile`, `DropsOverstate` | the map; the books at the other end |
| `SnapshotGatewayProofs` | `NeverOlderAlways`, `FramesAreNews`, `UpToDateIsSent` | what a browser receives |
| `FeedStoreProofs` | `ConnectionsAreBounded`, `BadgeIsRight`, `ForcedSimAlone` | the connections and the badge |
| `WebSocketServerProofs` | `NoDescriptorLeaks`, `FeedIsServed` | the descriptors; refinement of `BroadcastFeed` |

Each invariant that a passing run checks is a theorem, and so is the safety part
of each refinement.  A theorem rests on the named assumption about the constants
in the module it is about, and on nothing else; `ArbitrageIsReal`, which is
about an operator, states its hypotheses itself (at least one asset, and weights
for every pair).  `EngineAssumption` has the ticks' widths and sizes as natural
numbers; `ServerAssumption` tells the 101 from the refusal and the cut frame,
and all three from the snapshots' numbers.  The shape is the same everywhere: an
inductive invariant `IInv`, `Init => IInv`, one lemma per action, and the
property as a consequence of `IInv`.

`SpscQueueProofs` proves, for every `Capacity` of at least two, every spin bound
and every set of ticks: `TypeCorrect`, `SlotsNeverRace`, `DeliveryInOrder`, and
`RingIsFifo`, that the ring implements the safety part of `BoundedFifo`.

Absence of races is not inductive: why an outdated index is harmless has to be
said.  The inductive invariant is
`IInv == TypeOK /\ IndexOrder /\ SlotContents /\ PartialCopies /\ InOrderDelivery`.
`IndexOrder`: the indices are met round the ring in an order that keeps each
side's view behind the truth, so that an outdated view only makes the ring look
fuller to the producer and emptier to the consumer.  `SlotContents`: the slots
from `head` to `tail` hold the accepted and undelivered ticks, in order and with
both halves, and there are as many of them as the histories differ in length.
`PartialCopies`: what `pop` has copied is part of the oldest of these, and what
`push_tick` has written is part of the tick it pushes.  `InvariantStep` has one
step per action and under it one per conjunct the action can disturb; arithmetic
round the ring is done once, in lemmas about `Distance` and `NextIndex`.
`SlotsNeverRace` and `DeliveryInOrder` follow from `IInv`; `RingIsFifo` maps
`Publish` to `Accept`, `Release` to `Deliver`, `EngineGone` to `Close` and every
other step to a stutter.  Assumptions: those on the constants in `SpscQueue`,
nothing else.

`EngineLifecycleProofs` proves, for every set of symbols, every number of open
attempts and every length of the file: `TypeCorrect`, `StaleRegionNeverOpened`,
`LiveAfterSignal` and `NoOrphans`.  The handshake's properties need to know where
a stale region can still be met, and the exit's what the registry of children
holds.  The inductive invariant adds four parts to
them.  `OneAtATime`: the orchestrator starts one engine at a time, has spawned
the one it opens and has an attempt left.  `FreshRegions`: the name is gone while
an engine is newly spawned, the magic until the engine writes it, and a
`rust_ready` seen in a region the engine has made is this run's.  `TicksPushed`:
a ring never holds more than was pushed.  `AllStarted`: once the file is read,
every engine has been spawned.  `NoOrphanAfterExit` is inductive with it: a
spawn registers its handle before anything can fail, only `Reap` removes one, of
an engine that has ended, and so an empty registry means that all have, though
`Exit` never looks at an engine.  An engine left over from an earlier
run can only take a name away, which keeps all of these.  One lemma per part goes
through the actions; the ones that cannot touch the part share a step.  Assumptions:
`LifecycleAssumption` (finitely many symbols, `Nobody` not among them, at least
one attempt).

`LimitOrderBookProofs`, for every pool, price range and set of ids and
quantities.  `IInv == Types /\ PoolConserved /\ OrdersFound /\ Chains /\ Totals
/\ Best`.  The runs state that the lists match the map as a walk along `next`
and `prev`; what the steps preserve is `Chains`: the slots of a level are a
sequence without repetition, whose neighbours are linked both ways, that starts
at `head`, ends at `tail` and holds exactly the live orders of the level
(`IsChain`).  Appending to it (`ChainAppended`) and cutting one slot out of it,
be it the first, a middle or the last one (`ChainShortened`), are lemmas about
`IsChain` that know nothing of the book; `WalkFollowsChain` and `WalkBackwards`
say that the walks find that sequence and no other.  `Totals` needs sums over
sets: `SumOf` is a function on the finite sets of slots, and adding or removing
one element changes it by that element's share.  `ListsImplementQueues` maps
each chain to the queue of its orders; every call becomes the call of the same
name of `AbstractBook`, with the same answer.

`EngineLoopProofs`, for every interval between snapshots and every size of the
windows, clusters and pools.  `IInv == Registers /\ Turns`.  `Registers`: the
book's queues hold every id once (`BookInv`); the two indexes of the detector
are inverse to each other and a cluster's orders add up to no more than was
added to it (`DetectorInv`); every order the detector follows stands in the book
with the shares it thinks are left (`FollowedStand`).  The halving of
`evict_old` is why the second part is an inequality.  `Turns`: no more executions
than turns since the last snapshot was due, and of them in the window what it
holds, its first `WindowCap` (`FirstOfAppend`: appending to what is kept of a
sequence gives what is kept of the longer one).  On top of it `FlowInv`: the sums and counts of `analytics`, `pin`
and `hawkes` are those of their windows, whether an update rolls a window or not,
and the remembered top of book is the book's.

The figures of a snapshot are folds over levels and edges, each compared with a
reference that is computed in another way.  `FoldIsRun` says what the fold of
the community modules returns, the last of the values got one element at a
time, and `RunKeeps` that a set the fold's step stays in holds that value too.

* `QuotedMarketIsFair`: the weights come from a price of each asset (`Priced`),
  so going round a cycle costs the friction and no more.  `Uphill` is kept by
  every relaxation: distance plus price grows along the predecessors.  A walk
  back over three predecessors would climb down four nodes of three, so it falls
  off (`WalkEnds`), and what is then reported is nothing.  A spread is at
  least a tick, and its friction more than any rounding in `Roundings`.
* `RiskIsTheDepth`: the levels the book hands out are its asks ranked from the
  lowest (`Nth`, `LevelsAreLadder`), and their volumes added one at a time are
  the sum over the set of asks (`LadderVolume`).  `WalkUp` is the invariant of
  the impact walk: what is filled is at most the lesser of the probe and the
  volume passed, and exactly that when every volume fits a fill, at prices
  between the first and the last.
* `ArbitrageIsReal`, for any number of assets and any weights: `Slack` is kept
  by every relaxation: a node's distance is at least its predecessor's plus the
  weight of the edge, and on a loop of predecessors one of these inequalities is
  strict, because the relaxation that closed the loop lowered a node another
  one's distance was made from.  A walk of as many steps as there are assets that
  has not fallen off is on such a loop (`WalkStays`, `WalkCloses`), and the
  inequalities added up round it leave a negative weight
  (`CircleIsProfitable`).

`IngestorProofs`, for every legal file and every size of the rings.  The map's
invariant is small: it has side and price of each live order that was seen, and
an id that is new to the file is in no register.  The books need the ticks under
way.  `BookInv == Plumbing /\ BooksBehind /\ TicksRight /\ BooksExact` looks at
`Drained(l)`, the book after all ticks in its ring, which `Dispatch` does not
change and `PushTick` moves by one tick.  `BooksBehind`: it has no order that was
not added, at no other side or price, and no fewer shares than are left.
`TicksRight`: each pending tick keeps it so, whether or not the ring takes the
other one; that holds of the two ticks of a replace because one takes the old
order and the other adds a new one.  `BooksExact`: without drops, book plus
pending ticks are the file's.  What `FoldLeft` computes is proved first
(`FoldAppend`, `FoldHead`), since `Drained` is a fold from the left and the engine
takes ticks from the front.

`SnapshotGatewayProofs`, for any number of symbols, clients and lines.
`PipeInOrder`: a pipe holds its lines in the order of emission, all newer than
the map.  `SentInOrder`: any two frames to a client differ and the later is not
older (adjacent ones are not enough, as a browser that leaves loses what is on
the wire).  `VersionsTell`: a task whose version is behind the map's has sent
only older snapshots, which is why sending without the lock is harmless.
`UpToDate` is the property itself.

`FeedStoreProofs`, for every set of sockets and every number of calls of
`start()`: the three properties together are inductive once types and
`NothingBeforeMount` join them.  That a stray is never joined by another is a
matter of counting: a new connection is made only while `this.ws` is null, when
there is one less than calls (`ConnectKeepsBound`), and a teardown or an
`onclose` that sets it to null takes one away (`TeardownLeavesRoom`).  With one
call no stray exists (`OneCall`), and what the badge and the forced simulator
promise of the built bundle follows.

`WebSocketServerProofs`, for any number of clients and descriptors.
`DescriptorsOwned` needs `Phases`: who holds the lock is who walks the list, a
descriptor is in hand exactly between `accept` and `emplace_back`, and the list
is empty before the loop and after it.  `LowestFree` says that `accept` has a
lowest number to give.

`FeedIsServed` shows that the server implements the safety part of
`BroadcastFeed`, for any number of clients, descriptors and snapshots.  A member
of the feed is a client whose handshake is done.  What is owed is read off the
list: while a broadcast walks it, the clients from the iterator on.  `FeedInv`
adds to `IInv` what ties a client to one descriptor and to what it was sent:
`OnePerClient`; `DoneAreGreeted`, a client's descriptor is done with the
handshake exactly when the 101 was sent, and was sent nothing before;
`CallersWait`, a client in the backlog has been sent nothing and holds no
descriptor.  Erasing an entry under the iterator (`CloseAndErase`) is where a
client could be passed over or served twice; the lemmas about it say that the
rest of the list keeps its order, and that the set of those still to be served
loses exactly the one that was erased.  `Answer` becomes `Join`,
`BeginBroadcast` becomes `Publish`, `BroadcastOne` becomes `Deliver` or `Leave`,
the loop's dropping of a member is a `Leave`, `CleanUp` becomes `End`, and every
other step is a stutter.

Induction is done over sets: an exception to a claim about numbers or finite
sets would have a smallest one (`LeastOf`, `SetInduction`, `FiniteInduction`,
from the well-foundedness of `<` and of strict inclusion), since the provers
cannot instantiate a theorem that takes a predicate.

Only model-checked:

* liveness everywhere (`PushReturns`, the fairness halves of `FifoChannel` and
  `ServesTheFeed`, `WaitingEnds`, `OrchestratorEnds`, `CatchesUp`, `Reconnects`,
  `RequestAnswered`, `StopEnds`), which the prover does not reach;
* `ArbitrageCanBeMissed`, the existence of a counterexample among three assets,
  which TLC finds by evaluating all matrices.

## 6. Not modelled

* Floating point where it decides more than a comparison: the decaying intensity
  of the Hawkes process, the square root of the flash-crash score, the profit of
  a cycle.
* Text and bytes: the JSON exporter, field offsets of ITCH, SHA-1, Base64 and
  frame headers of the WebSocket server.
* Time as such: `pace_replay`, latency and throughput figures, the timestamps of
  a snapshot.  Pacing in `main_ws.cpp` may drop any snapshot but the first.
* Failures of single system calls, the Windows variants, rendering.
* The multi-symbol hub, which no documented set-up starts, and the benchmark.

Some behaviour was found by reading and is left without a property, because one
would only restate the line it is about:

* an unchanged snapshot in a batch repeats its executions on the tape
  (`main.rs:332`);
* simulated snapshots stay in the market under the LIVE badge (`feed.ts:256`);
* under `npm run dev` a stray socket may open, or go on delivering, while the
  simulator is forced (`feed.ts:339` closes only `this.ws`);
* the file's prices are divided to whole dollars (`main.rs:495`), where
  `Types.hpp:23` speaks of cents, and the book refuses a price below
  `MIN_VALID_PRICE = 100`, meant as one dollar (`cpp_errors.md:70`): orders
  below 100 dollars never reach their book;
* a read of the region's magic between `shm_open` and `ftruncate` ends the
  orchestrator by SIGBUS (`main.rs:142`);
* after a panic or a crash of the orchestrator, engines that are live run on
  (`main.rs:296`, `431`);
* a level of 2^32 shares or more fills an impact probe with what its volume
  leaves modulo 2^32 (`GraphAlgos.hpp:71`);
* the last ticks of the file, fewer than `snapshot_every_n`, reach no snapshot
  (`main.rs:670`);
* a snapshot that pacing drops takes its executions with it (`main_ws.cpp:135`);
* `order_side_map` keeps fully executed orders (`main.rs:438`), and `recv_buf`
  what a client sends after its handshake (`WebSocketServer.hpp:335`);
* descriptors above `FD_SETSIZE` go into an `fd_set` unchecked
  (`WebSocketServer.hpp:298`);
* a replay speed of zero panics (`main.rs:714`).

`PROJECT.json` gives the reason for each component that is not, or only partly,
modelled.

## 7. Plan

1. Back-pressure through the pipe: `SnapshotGateway`'s full pipe blocks the
   engine's loop, and with it the ring of `SpscQueue`.
2. `FeedStore` with histories, the trade tape and the selected symbol.
3. The hub: feeds of several servers merged and re-sent, and a feed that dies.

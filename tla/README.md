# goqueuesim in TLA+

goqueuesim simulates a flash sale: many clients ask for checkout, a throttle
lets them in at a bounded rate and in an order of its own, and the sale ends when
the stock is gone.  This directory models the parts of the program that decide
who gets in, checks them with TLC and proves the central facts with TLAPS.
Paths below are relative to the repository.

## 1. The system

| component | state | operations | talks to |
|---|---|---|---|
| rate tracker (`internal/throttle/tracker/impl/fixed_window_tracker.go`) | open window index, clients seen and let through per window, count of consecutive low windows | `ShouldProceed`, `MonitorAndEmitFeedback` (a goroutine) | called by server workers; sends feedback over an unbuffered channel without blocking |
| capped bins queue (`internal/throttle/queue/impl/capped_bins_queue.go`) | bins map, `queueBin`, `workingBin`, dequeue counts, total, one mutex; the bin of a client is in its cookie | `Add`, `Remove`, `Clear`, `IsCandidateToProceed`, `ReceiveTrackerFeedback` | called by server workers and by the notifier goroutine; only `Add` and `Remove` lock |
| interval bins queue (same directory, `interval_bins_queue.go`) | clients counted per bin, `latestBinIdx`, `maxConsideredBinIdx`, total, one mutex | the same interface, and two goroutines: one opens a bin per interval, one lets the next bin in | the same; `Clear` and the first goroutine do not lock |
| poll driven queue (`polldriven_capped_bins_queue.go`) | `queueBin`, `queueBinPos`, `workingBin`, total, polls per second, polling utilization | the same interface, and a goroutine that opens the next bin while the utilization is low | the same; only `Add` locks |
| sorted set queue (`redis_queue/sorted_set_queue.go`) | a sorted set in Redis, ranked by entry time; `WindowSize` in the process | the same interface | the same, and Redis; no mutex |
| Lua driven queue (`redis_queue/lua_driven_queue.go`, `lua_postprocessors.go`, the scripts under `redis-lua/bins-queue`, `internal/lua_config`) | bins, counts, gate and two timer keys in Redis; the bin of a client is in its cookie | the same interface, one script per operation | the same; skips the scripts when the stock counter says so |
| noop queue | counters that are printed | the same interface; everybody is a candidate | the same |
| throttle driver (`internal/throttle/throttle_driver.go`) | stock counter (`internal/common/AtomicCounter.go`), context | `TryThrottleStateTransition`, `MonitorUtilAndNotifyQueue` (a goroutine) | queue, tracker, client |
| simulation driver (`internal/simulator`) | request channel, wait group, completion channel | `startClients`, `runServerWorker`, `runClientWorker`, `monitorSimulationCompletion`, `aggregateFairnessResults` | clients, throttle driver |
| clients (`internal/client/impl`) | throttle state, polling fields, a mutex each | `HandleResponse`, `StartPolling`, `StopPolling`, `MarkExited`, a polling goroutine | request and response channels |
| mock network, configuration, metrics, `main` | – | values, start-up, interrupt handler, output | – |

What is hard here: any number of server workers, one client worker and one
polling goroutine per client, two tracker goroutines and two completion goroutines
run at the same time.  Half of the queue's operations do not lock.  A server
worker holds a client's mutex over the whole transition and over the send of the
response.  Channels are bounded, and a request that does not fit kills its client.
Operations of the queues in Redis are single commands or scripts, with nothing that
holds two of them together, and timer keys expire between any two.
Feedback is dropped when nobody is listening.  Timers are reset after the mutex
was released.  The stock is checked last, after queue and tracker have let a
client pass.

What makes each part correct:

* tracker: a window admits a bounded number of clients; what it reports about a
  window is final; it stops when told to;
* queues: clients are binned in order of arrival, bins are full before the next is
  opened (or cover an interval each), the gate never closes in front of a
  candidate and keeps moving, every call returns; what Redis holds agrees with the
  throttle states, and no script runs on keys that were deleted;
* driver: stock, states and queue agree; no more is sold than rate and
  stock allow; the end of the stock ends the sale;
* clients and simulation: nobody who is waiting is forgotten, nobody signs off
  twice or comes back, the simulation ends, and the report says who overtook whom.

`PROJECT.json` lists the hazards line by line with the property that watches
each.

## 2. Modules

* **`FixedWindowTracker`** – the tracker and its hand-over to the notifier.
  `ShouldProceed(c, canPass)` and `RollWindow` are single steps because both
  run under the two tracker mutexes; `EmitFeedback` is a step of its own because
  they are released before the send.  A utilization is kept as its numerator, and
  thresholds are compared by cross-multiplication.  The field `window` of a
  feedback message is a history field: no step reads it.
* **`CappedBinsQueue`** – the queue, cut at the accesses between which an unlocked
  operation can fall.  `qpc[t]` is where a thread is in its call.  A Go map is a
  reference, so `maps` holds every bins map ever made and `bins` says which one the
  queue uses; an `Add` goes on with the one it read.  `x++` that races with
  an unlocked store takes its operand from before or after that store.  A store
  into a missing bin (`nilBin`) and an unlocked map read during a map write
  (`mapRace`) end the process: `fault`.  `workingBin` wraps like an int64 of
  configurable width.  The cookie holds the decimal form of a bin number, which
  `ParseInt` reads back, so the model keeps the number; a client without a cookie
  is in bin 0, because `getUserBin` never reports success to its caller.
  `phase` and `clears` are history variables.
* **`CheckoutSale`** – the abstract specification: clients join, are sold one
  unit each while the count is not negative, leave, and the sale is closed.
* **`ThrottleDriver`** – server workers and `TryThrottleStateTransition`, composed
  with `T == INSTANCE FixedWindowTracker` and `Q == INSTANCE CappedBinsQueue`,
  whose actions are the steps of the calls.  `pc[w]` is where a worker is,
  `lock[c]` who holds a client's mutex.  The critical section of the stock counter
  is one step (`TakeInventory` or `SoldOut`); the calls of `Remove`, `Clear` and
  `cancel` that follow a sale are separate steps in program order.  Clients are an
  environment that polls and leaves; response channels have room (the full ones
  are in `ClientSession`).  `Sale == INSTANCE CheckoutSale` is the refinement
  mapping: the variables have the same names, the rest is hidden.  `Q` is a
  refinement mapping, too (`ImplementsQueue`): the specification of the queue is
  about any threads that call it as `Callers` says, and the workers are such threads.
* **`ClientSession`** – clients of all types, client and server workers,
  channels, wait group and the end of the simulation.  `poll[c]` has the fields
  `StartedPolling`, `PollStopper` and `pollTimer`, `loop[c]` is the polling
  goroutine.  What a client does under its own mutex is one step; only a server
  worker holds the mutex over several.  The transition is reduced to its
  possible results.  Delays have no length: a timer may fire at any time.
* **`IntervalBinsQueue`** – the queue with one bin per interval.  `timer` is
  `RoutinelyUpdateLatestBin`, the pair `MaximizeBegin`/`MaximizeFinish` one
  round of `RoutinelyMaximizeFairThroughput` that moves the gate (the "sweeper");
  rounds that only sleep change nothing and are left out.  Increments that race
  with unlocked stores are a read and a store.  The bin of a count and the bin
  of a cookie are two reads of `latestBinIdx`, as in `Add`.
* **`PollDrivenCappedBinsQueue`** – the queue whose gate follows the polling
  utilization.  `Poll` is a server worker's `IsCandidateToProceed` and, perhaps,
  the start of the `Remove` that follows.  Seconds pass between any two polls or not.
  The utilization is a whole number of polls, rounded up; the weighted
  mean is any number between its operands.
* **`FairnessReport`** – `aggregateFairnessResults`: one step per client of the
  first loop and per pair of clients of the nested loops (`StartInnerLoop`, `Compare`,
  `EndInnerLoop`), while clients may still reach checkout.  The reference it is compared
  with is the set of pairs that the function's comment defines; it determines every
  field of the report, so there is no separate type invariant.  Its names say `Report`
  because `SimulationDriver_proofs` extends it together with `ClientSession`.
* **`RedisQueues`** – the queues that live in Redis, and start-up.  A command or a
  script is one atomic step, because Redis runs them one at a time; workers,
  `Expire` of the timer keys and feedback fall between them.
  `MakeUserQueue` picks the queue from a configuration, or the process
  stops.  `queueType` then selects what each operation does: `sorted_set`, the two
  directories with bins (`fairness_interval_driven`, `opt_fairness_interval`),
  the scripts that do nothing (`noop`), and `NoopQueue` (`noop_queue`).  The two
  directories keep their fields under different keys but mean the same by
  them: a key that is missing counts as 0, which no script ever stores.  They
  differ in what fails on a missing key and in the timer that `add.lua` is given
  (`LatestTimerKey`, section 6).  `pc[c]` is the step that the worker serving `c` is
  at: which worker it is makes no difference, so only their number is kept.  The tracker
  is an environment that may refuse anybody; for the sorted set it counts
  the polls of a window, and a utilization is that count over `Cap`, with the
  window arithmetic in exact fractions.  `ImplementsSale` maps it to `CheckoutSale`: a client
  has hit checkout when it is in that state, and the first `Clear` closes the sale (the
  context, which is cancelled right after it, is not part of the module).
* **`MCCappedBinsQueue`, `MCThrottleDriver`, `MCClientSession`, `MCRedisQueues`** –
  symmetry sets for TLC, and the configurations of `RedisQueues`.  The
  other modules are checked without.
* **`FixedWindowTracker_proofs`, `CappedBinsQueue_proofs`,
  `IntervalBinsQueue_proofs`, `PollDrivenCappedBinsQueue_proofs`,
  `RedisQueues_proofs`, `ThrottleDriver_proofs`, `SimulationDriver_proofs`** – theorems;
  the last holds those about `ClientSession` and `FairnessReport`, the two modules that
  model `simulator.go`.
* **`FiniteSums`** – lemmas about the sum of a function over a finite set, which the
  proofs about counts cite.

Locals that are dead get their initial value back, so that they do not
multiply states.  Operators named `X_Something` in front of an operator `X` are
faulty versions of `X` (a dropped guard, a missing reset); `PROJECT.json` pairs
each with the property that must notice it.  Nothing in a specification uses them.
Some operators are small only so that there is one place where such a mistake would be
made (`Spent`, `Measured`, `CanLock`).  `FixedWindowTracker`,
`IntervalBinsQueue`, `PollDrivenCappedBinsQueue` and `ThrottleDriver` state a `TypeOK` that no
run checks; it documents the types of their variables (and `TypeCorrect` and
`DriverTypeCorrect` prove the first and the last).

## 3. Runs

| run | instance | shows |
|---|---|---|
| `tracker` | 3 clients, cap 1, windows 0..3, 2 low windows skipped | admission bound, frozen windows, exact feedback and low count, both goroutines stop |
| `queue` | 4 clients in bins of 2, 2 threads, 1 `Clear` | until the `Clear`: packing, arrival order, counts, a candidate stays one; the nil-bin panic is reached, but only after it |
| `interval` | 2 clients, 3 bins, 2 threads, 1 `Clear` | until the `Clear`: counts that cover the waiting clients, a gate behind the latest bin; everybody is reached although the timer may stop |
| `polldriven` | 3 clients, first bin of 1 and second of 2, 2 threads, target of 1 poll per second, 1 `Clear` | bins filled in turn; only too many polls keep the gate closed |
| `fairness` | 3 clients, 2 labels, 4 times | counters and maxima of the report equal those of the set of overtakings; the print panics exactly when there is none |
| `driver` | 3 clients, 2 workers, 2 units, 2 windows | the race for the last units, and queue and tracker that hold clients back: stock accounting, end-to-end rate, sales from open bins only, queue and states agree, no `Clear` while stock is left, refinement of `CheckoutSale` and of `CappedBinsQueue` |
| `driver_live` | 2 clients, 2 workers, 1 unit | the last sale cancels the context; requests are answered |
| `session` | a lazy and a greedy client, 2 server workers, channels of 1 | nobody forgotten, channels closed once, no way back |
| `session_live` | a greedy and a disappearing client, 1 server worker | who signs off twice; the simulation ends |
| `redis` | 4 clients, of which 3 come to a queue with bins, 2 workers, 2 units, every configuration | refinement of `CheckoutSale` with every queue; one way to panic; Redis agrees with the throttle states; old bins are closed, the gate stays behind, and who keeps polling is reached |

`driver_oversell` and `session_asymmetric` are expected to fail; see section 6.

### Bounds

* Two workers or threads: each race in the code is between two parties (two
  sellers, an `Add` and a `Clear`, a send and a receive).
* Three clients against a cap of one: two are admitted in a window (see section 6), so the
  third is the first that is rejected.  In the driver a cap of one gives bins of
  two, so a third client opens the second bin and has to wait for the gate; with
  two units, sales and the oversold one, it is still worth waiting for.  (A fourth client is needed for an
  `Add` to lose the second bin to a `Clear`, as it does in `queue`; by
  `QueueKeptWhileStockLeft` and `NilBinOnlyAfterClear` that cannot happen before
  the stock is gone.)
* `MaxWindow`: four windows give a run of low windows, its end, and a new run;
  two are enough for a sale in a later window than its admission and for feedback
  that moves the gate.  The monitor no longer rolls over when the bound is reached.
* `MaxClears`: `Clear` is called by the sale of the last unit and by the one
  sold beyond it, so twice.  In the driver that is not a bound but a fact; in
  `queue` one suffices for the panic.
* `Callers` of the queue: a client is removed while it waits.  The caller has found it
  to be a candidate some steps before; that is not a guard, because a `Clear` by
  another worker may have drawn the gate back since.  `ImplementsQueue` is what keeps
  these assumptions honest: TLC and TLAPS show that the workers meet them.
* `WorkingBinBound`: feedback is withheld once every bin of the instance is
  open.  The first opening already goes from 1 to 4.  The driver sets it beyond
  `MaxInt64`, so there it withholds nothing.
* `queueBin++` loads the field after the comparison in front of it (`AddIncr`).  A `Clear`
  between the two makes a difference from the third bin on, which bins of two reach with five
  clients.  The theorems about the queue hold for that, too; with bins of one and four clients
  TLC reaches it and finds no error (2.7 million states).
* `interval`: two clients and three bins are enough for a client that is counted
  in one bin and gets the next, for a gate that has to move twice, and for a
  `Clear` in the middle.  The timer opens no bin after `MaxBin`.
* `polldriven`: with `BinSize` 1 the second bin shows that later bins take one client
  more.  Two polls in a second are one above the target (`MaxPolls`).
* `fairness`: a client is overtaken by one second when the other enters, and
  leaves, in between; two clients that overtake a third by different amounts need
  four times.  Three clients suffice for a client overtaken twice, one that
  overtakes twice, and a maximum that is not the first pair.
* `redis`: at a utilization of 0 the window of the sorted set grows only when more
  than twice its size are queued, which takes four clients at a cap of one; three clients make three
  bins, one behind the gate, one at it and one open.  `Persistent = {3}` is the client
  that keeps polling: two in front of it may vanish, one behind it may, too.  With two
  units one client is sold to while there is stock, one as the last, and one
  beyond it.  Configurations are every queue type, known or not, every directory,
  with Redis and without.
* Channel capacities of 1: a full channel is reached with two clients.  With the
  default of 2000 the same states need 2000 clients or polls.

Deadlock is not checked where the system may stop: the process died (`fault`) or
exited, every client is through, the report is printed, or, in `session`, a server worker waits with a
client's mutex for room in that client's response channel while the client
worker waits for the mutex.

### Fairness

Go schedules every runnable goroutine, which is weak fairness of its steps.  Two
places need strong fairness.  A `select` with several ready cases picks one at
random, so a cancelled context is not passed over for ever
(`StopMonitor`, `StopNotifier`).  `sync.Mutex` hands the lock over to a waiter that
has waited for more than a millisecond, so a mutex that is free again and again is
obtained (`LockClient`, `QueueStep`, `MaximizeBegin`).  The goroutine of the poll
driven queue is woken by a timer again and again, and its update interval passes
(`UpdatePollingUtil`, `BeginOpening`); the same holds for the sweeper's grace
periods.  No fairness is assumed of clients, polls, the timer that opens intervals, or
interrupts.

In `RedisQueues` workers, expiry and the two halves of the feedback are
weakly fair.  Three assumptions are strong, and each is about something that is
tried again and again: the request of a client in `Persistent` (it polls for ever,
and workers become free in between), the tracker's yes (a window starts empty,
so that a client that asks in every window is let through in one), and a window
whose feedback reaches the notifier (which returns to its `select` after each
message).

## 4. Proofs

Every theorem holds for all values of the constants that satisfy the module's
one named assumption.  Only the theorems that need the gate of the capped bins queue
never to move back assume more, because without it they are false: `workingBin` more
than doubles with every quiet window and overflows after some sixty of them (section 6).
They are about every behaviour in which no store of `workingBin` overflows (`GateNotFull`
holds throughout), and those that a run checks have a second form, about every behaviour when the
constants leave no room for an overflow.

**`FiniteSums`**: how a sum over a finite set changes when a term changes or is
added (`SumOverStep`, `SumOverChange`, `SumOverAgree`).  `MapThenSumSet` is a recursive
function over the subsets of a set; that it has exactly one value is shown from a
smallest counterexample, since the induction theorems of the library cannot be used.

**`FixedWindowTracker_proofs`**, for all finite sets of clients, all positive caps
and any number of windows:

* `TypeCorrect`: `Spec => []TypeOK`;
* `AdmissionBounded`: `Spec => []WindowAdmissionBound`, which is inductive
  once types are known: a client is only added while at most the cap is in,
  and adding one grows a finite set by at most one;
* `ClosedWindowsStay`: the action property `ClosedWindowsFrozen`, directly from
  the actions: only the open window is written;
* `FeedbackExact`: `Spec => []FeedbackIsExact`.  Inductive together with the types:
  a message is made of the window that is just being closed, and
  closed windows stay as they are;
* `LowCountExact`: `Spec => []LowCountIsRunLength`.  The count is the length of the
  run of low windows that ends at the last closed one (`EndsRun`); a window that
  is closed extends the run or ends it (`RunExtended`), and polls touch only the
  open window.

**`CappedBinsQueue_proofs`**, for any clients, threads and bin size.
`QueueInv` is `CallInv` (a client is in the hands of one thread, has no cookie
before its `Add` is over, and a thread past its `Lock` holds the mutex) with
`BinInv`, which says of the time before a `Clear`: only the first map is in use
(`FirstMap`), all bins but the last are full (`BinsInTurn`), what an `Add` found
out about the last bin still holds at its next step (`LastBinKnown`), and
cookies name bins that hold their clients (`CookiesNameBins`).  `BinsPacked` alone is
not inductive: `AddInsert` would overfill a bin if another thread had inserted since
the length was compared, which the mutex excludes.  It gives

* `QueueBinsPacked`, `QueueArrivalOrder` (cookies are bins up to `queueBin`, and
  a new one is `queueBin` itself) and `QueueNilBinOnlyAfterClear`;
* `QueueTypeCorrect`: `Spec => []TypeOK`.  Its hard part is that `queueBin` is at most one more than
  the number of clients, although a `++` can bring back an operand from before a `Clear`.
  `BinsCharged` charges each increment to the client whose `Add` made it;
* `QueueCountsAccurate`: `Spec => []CountsAccurate`.  What the holder of the mutex has
  read of the total is still the total (`TotalRead`), and one dequeue raises the sum of
  the dequeue counts by one, in whichever window it falls (`CountInv`);
* `QueueOpenBinsStayOpen`: what a feedback has read of `workingBin` is still in memory
  when it stores (`GateInv`), so the store is never below what was there.
  `QueueGateMovesForward` states this for waiting clients as `CandidateStaysCandidate`, and
  `QueueCandidateStaysCandidate` with `2 * WorkingBinBound + 2 <= MaxInt64` for the
  condition.  With these every property of the run `queue` is a theorem;
* `QueueFirstComeFirstConsidered`: once a client has a cookie and another has none, then
  until a `Clear` the gate lets the first through whenever it lets the other through.  A
  cookie is never replaced (`CookieIsForGood`), and a new one is no smaller than any other
  (`QueueArrivalOrder`), so `NeverAhead` stays true from then on.  It needs no condition on the
  gate, which may move as it likes.  The statement is of the form `[](P => []R)`: the order of
  the two cookies is in no state once both are there.

**`IntervalBinsQueue_proofs`**, for any clients, threads and number of bins:

* `IntervalGateBehindLatest`: `Spec => []GateBehindLatest`.  The sweeper compares
  under the mutex but the timer stores without it, so the invariant says that the
  operands of both increments are still what is in memory (`OperandsFresh`), and
  that no thread unlocks a mutex it does not hold (`MutexHeld`);
* `IntervalCountsCoverBins`: `Spec => []CountsCoverBins`.  Between the count and the
  cookie of an `Add` the counts up to the latest bin are one ahead of the clients that
  wait (`CoverInv`): that one is what the timer can put into the wrong bin.

**`PollDrivenCappedBinsQueue_proofs`**, for any clients, threads and bin size:

* `PollDrivenFillsInTurn`: `Spec => []BinsFilledInTurn`.  A client has taken its
  position before it has its cookie, so the last bin has one member less than
  positions taken while somebody is in between (`BinsCounted`).

**`RedisQueues_proofs`**, for any number of clients and workers, any stock, cap and set
of configurations.  The invariant `RedisInv` is `TypeOK` with what the process knows
(`PcMatchesState`, `NothingBeforeStart`, `RedisAnswers`, `ClearedIsSoldOut`) and what
Redis holds (`WaitingHaveRank`, `WaitingHaveCookie`, `CookiesNameBins`, `TimerMeansBin`,
`ExpiredMeansNoTimer`, `GateBehindLatest`).

* `RedisTypeCorrect`; among the types is that the window of the sorted set stays
  positive, by the arithmetic of `Growth` and `Shrunk`;
* `RedisFailsOnlyAfterClear`: no script fails.  `ClearedIsSoldOut` is why none runs
  on deleted keys: `Clear` comes after the sale of the last unit, and from then on
  the stock checks keep `add.lua` and `poll.lua` from being run.  `remove.lua` still
  runs at a stock of 0, and `WaitingHaveCookie` is why it finds a bin: who was added too
  late for a cookie never passes a poll;
* `RedisImplementsSale`: `Spec => ImplementsSale`.  A sale maps to `Sell` because a client past
  its poll is still queued (`PcMatchesState`): no second worker serves it meanwhile;
  `RedisOversellBounded` counts the clients in checkout against the stock, as
  `DriverOversellBounded` does, here for every queue there is;
* `RedisGateBehindLatest`, and `OldBinsStayClosed` for the action property
  `OldBinsAreClosed`;
* `RedisQueueMatchesStates`: `Spec => []QueueMatchesStates`.  For every bin number, those
  without a key included, the count is the number of waiting clients with that cookie, and the total
  and the sorted set are those who wait (`MatchInv`), while there is stock.  "Waiting" is added and
  not removed: the driver removes a client only when it lets it into checkout, so one that
  gave up (`Exited`) still counts.

**`ThrottleDriver_proofs`**, for any set of workers, any stock and any capacity:

* `DriverInvariant`: `Spec => []DriverInv`, the locking discipline.
  `DriverInv` is `TypeOK` with `ServesClient` (a busy worker serves a real client),
  `LockHeld` (past its `Lock` a worker holds the mutex of the client it serves),
  `GatedIsQueued` (between candidate check and sale that client is still
  queued) and `FreshUntilCheckout` (a queued client has not been sold a unit).
  `TypeOK` alone is not inductive for what follows: a sale maps to
  `Sell` only if the client is queued and has no unit yet, which other workers and
  the client itself could have changed since the check if the mutex did not keep
  them out;
* `DriverTypeCorrect`: the stock counter stays within -1 .. Stock;
* `DriverImplementsSale`: `Spec => ImplementsSale`, one step per action;
* `DriverOversellBounded`: stock counter and sales agree and at most Stock + 1
  units are sold, from the refinement of each step and `DriverInv`;
* `DriverKeepsQueue`: `Spec => []QueueKeptWhileStockLeft`.  A worker clears on the
  strength of a count it took before its `Remove`; the counter only falls, so that
  count is never below the stock (`StockCounts`);
* `DriverThroughputBounded`: `Spec => []ThroughputBounded`.  A worker between rate
  check and sale serves a client that some window admitted (`SoldWereAdmitted`).  The
  clients of all closed windows are counted as one set (`WindowCounts`): a
  roll-over adds one window to it, so no sum over the windows is needed;
* `DriverImplementsQueue`: `Spec => ImplementsQueue`.  The queue checks nothing of what it
  expects of its callers.  `CallerInv` says why it holds: a call belongs to the
  place where its worker is and to the client that worker serves (`CallsPlaced`), and a client
  that is being added or removed is so by the worker that holds its lock (`PhasesFollow`).
  `ClearsPlanned` counts the workers that are going to clear: with those that have, they
  are no more than the units sold since the stock was 1, hence two at most.  `MessagesFit` and
  `GateType` bound what the notifier passes on;
* `DriverQueueMatchesState`: the states from `CallerInv`, the total from
  `QueueCountsAccurate`, which the refinement carries over to the driver;
* `DriverSoldFromOpenBins`: a worker at its rate check or its sale serves a client whose bin is
  open, and a client that was sold to stays in an open bin (`GatedAreOpen`); each step keeps that by
  `QueueOpenBinsStayOpen`.  `DriverSoldFromOpenBinsInTime` replaces the condition on the
  behaviour by one on the constants: a function `growth` into the positive int64 values, with
  `growth[n + 1] >= 2 * growth[n] + 2` for all windows (3 * 2^n - 2 is one, for up to 61 of
  them).  The gate is at most `growth` of the number of windows whose feedback was
  handled or lost (`GateReach`);
* `DriverFirstComeFirstServed`: a client that reaches checkout has left nobody behind the gate
  who had a cookie before it got its own, until a `Clear`.  It joins
  `QueueFirstComeFirstConsidered` and `DriverSoldFromOpenBins`, and is what the bins are for: within
  a bin clients overtake each other, across the gate they do not;
* `DriverBinsSharedByFew`: at most `BinSize` clients share a bin, so a client is overtaken in
  that way by fewer than that (from `QueueBinsPacked`);
* `DriverLivesWhileStockLeft`: no store of an `Add` hits a missing bin while a unit is left,
  by `QueueNilBinOnlyAfterClear` and `DriverKeepsQueue`;
* `DriverImplementsTracker`: `Spec => TP!Spec`, where `TP` is the instance of
  `FixedWindowTracker_proofs`.  The guard that needs an argument is that of
  `Cancel`: a context that is cancelled again changes nothing;
* `DriverGateFollowsWindows`: the utilization the queue has read when it adjusts its gate is
  the exact number of clients that some closed window let through.  `FeedbackExact`, carried over,
  says it of the message; `ToldByTracker` says that the notifier keeps the message until the queue
  has returned, and that the queue's local is a copy of it.  `FeedbackIsExact` is about the tracker and its
  receiver alone; this theorem reaches into the queue.

The steps of queue and tracker enter the proofs about the driver through what they
leave alone, and where a window, a call or the count of `Clear`s is concerned through their
definitions.  The theorems about the queue enter through `QP`, the instance of
`CappedBinsQueue_proofs`, whose assumption follows from the driver's (`QueueParameters`) and
whose specification is the one that `ImplementsQueue` names (`SameQueue`).
The theorems about the tracker enter through `TP` in the same way.

**`SimulationDriver_proofs`**.  About `ClientSession`, for any number of clients of any types, any number of
server workers and any channel capacities.  `SessionInv` joins the types of clients and
channels, `StopperIsTimed` and `StopperOpen` (a stopper is made with its timer and is
closed only when polling stops), `ClosersHadReason` and `WaitGroupCounts` (the wait group
falls short only by disappearing clients whose goroutine has ended).

* `SessionTypeCorrect`, `SessionClosesOnce`, `SessionSignsOffOnce`, `SessionNoWayBack`;
* `SessionForgetsNobody`: `Spec => []NobodyForgotten`, one client at a time
  (`Remembered`): each step that takes a request, an answer or a timer of a
  client away leaves it the next one, and the steps on other clients leave it all.

About `FairnessReport`, for any number of clients, any finite set of labels, any times, and clients
that reach checkout at any moment of it.  `ReportInv` says of each step which pairs have been
compared, and that the record holds exactly what belongs to their set: the counters
(`CountersOf`) those of `UnfairPairs`, the maxima those of the rows that have ended (`LargestOf`), and the
local maximum that of the row in progress.  It needs `CollectedOnce`: a client collected
twice would have its pairs counted twice, while a set holds each once.

* `ReportCorrect`: `ReportSpec => []ReportMatchesOvertakings`.  The summed unfairness is a sum over a
  finite set, to which a step adds one new pair (`FiniteSums`, `PairIsNew`);
* `ReportPanicsExactlyWhenFair`: the client of the maximum is nil exactly as long as no ended
  row had an unfair pair, since every unfairness is positive.

The inner loop is a step per pair, as in the code.  Written as one fold it would take an induction
over the collected clients, which cannot be had here; as steps, the induction is
that of the invariant.

Checked with TLC only: all liveness and fairness, which is out of the prover's
reach (`MonitorsStop`, the two `EverybodyIsConsidered`, `GateMovesOn`, `SoldOutCancels`,
`RequestsAnswered`, `SimulationEnds`).  All invariants and action properties of the passing runs,
and the refinements of `CheckoutSale` and `CappedBinsQueue`, are theorems.

## 5. Not modelled

* four more sets of Lua scripts (`polling_feedback_driven` and the `opt_polldriven`
  ones) whose parameters `params_factory.go` builds: the scripts are not in the
  repository, so a queue that names them does not start (`CanStart`);
* what is only printed or sent to Datadog: metrics, logging, the poll counters of the
  noop and the Lua driven queue, the poll-after times of the post-processors;
* flag and JSON parsing and the client factory (`client_factory.go`), which turns
  properties into client structs; `config.go` multiplies population shares
  (section 6); the vendored libraries;
* rounding of floats in the window of the sorted set, and a change of that window
  between the rank and the comparison of one `IsCandidateToProceed`;
* a Redis that goes away, or answers late, after start-up;
* in `RedisQueues`, the throttle state `Exited`: no queue is told of a client that leaves, which
  is modelled as one that stays queued and does not poll any more.  Where the driver does nothing
  with an old request of such a client, the module lets it poll: it has every behaviour of
  the code, and more.  `ClientSession` models how clients leave;
* `workingBin` beyond the range of `int64`: the properties of the gate are about behaviours in
  which no store of it overflows (section 6);
* the lengths of delays and windows; which client type draws which random delay;
* Go memory model effects beyond the ones named above: word-sized loads and
  stores are taken to be atomic, as on the platforms the build supports.

## 6. Where code and documents disagree

These have a run that TLC refutes:

* `driver_oversell`: `remInventory < 0` lets a second sale through at 0, so one
  unit more than `inventory_total` is sold although the flag promises a maximum.
  `OversellBounded` proves that it is never more than one.
* `session_asymmetric`: with two server workers the next poll can be handled
  before the previous response is; the client then panics with a message that
  blames the server for not marking the state.

Met in the models, without a run of their own:

* a first poll that does not fit is announced as "killing client"
  (`base_client.go:196`), but `StopPolling` uses the timer that was not made yet and
  the whole process dies: the outcome `nilTimer` of `ClientSession`;
* a disappearing client whose timer fires after it was let into checkout signs
  off twice (`fully_disappearing_client.go:43`, the exception in `SignOffOnce`); the simulation is declared complete
  with a client still waiting, or the wait group becomes negative;
* "If no such client exists, then max unfairness is 0 (very fair)"
  (`simulator.go:113`): the maximum is 0, but then line 182 asks a nil client for its
  label and panics (`PanicsExactlyWhenFair`).  The next line prints
  the two labels under each other's name;
* "Never increment beyond latest queueing bin" (`interval_bins_queue.go:117`) holds
  until a `Clear` (`GateBehindLatest`), not after one, which resets both numbers
  without the mutex;
* the poll driven queue's gate stays closed for ever when the last counted second
  had too many polls and no candidate polls again (the exception in `GateMovesOn`);
  its later bins take `binSize + 1` clients (`BinsFilledInTurn`).

* "The above step is not necessary for queue types other than
  `lua_driven_bins_queue`" (`README.md:41`): the sorted set queue needs Redis, too;
  without it the process dies before the first request (`CanStart`);
* a poll that reaches a sorted set after `Clear` asks for the rank of a member that is
  gone, and `sorted_set_queue.go:53` panics: the only fault `FailsOnlyAfterClear` allows;
* the sorted set does not expand its window over a short queue
  (`sorted_set_queue.go:86`), so clients behind vanished ones wait for ever: the exception
  `Stuck` in `EverybodyIsConsidered`;
* `append` in the parameters of `opt_fairness_interval` (`params_factory.go:252`) writes
  into the array whose slice is the keys of `add`, so that `add.lua` is passed the timer of
  `poll.lua`.  Its comment "KEYS[3]==update_timer" names the timer of arrivals; with
  the gate's timer a bin takes clients for longer than `max_unfair_ms`.
  `OldBinsAreClosed` holds for `fairness_interval_driven` only, which has both keys.

Smaller ones met while reading: a window admits
`maxCheckoutsPerWindow + 1` clients (`fixed_window_tracker.go:85` against `:25`;
`WindowAdmissionBound` states what the code does); the queue is notified at the
`maxSkpdLowPollingUtilCount`-th low window, not after it (`:129` against `:119`);
`workingBin += workingBin + 2` (`capped_bins_queue.go:89`) more than doubles the
bin and overflows after some sixty quiet windows; `MarkExited` is reached from
every state, not only from checkout (`throttle_state.go:14`); "must sum to 1.0"
(`config.go:199`) also rejects shares that do, because the size of each group is
rounded down before the sum is compared.

Outcomes the model includes because the code allows them, and no document
excludes: `mapRace`, `nilBin` after the stock is gone, and `closedTwice`
(both completion goroutines close the channel before `main` returns;
`ChannelsClosedOnce` says when).

## 7. Plan

1. Done: tracker, capped bins queue, abstract sale, driver, client session,
   interval bins queue, poll driven queue, fairness report, the queues in Redis.
2. Done: proofs about the tracker, the four kinds of queues, the driver, the client
   session and the fairness report (section 4).
3. Left to prove: nothing that a run checks and the prover can express.  What the gates of the
   interval and the poll driven queue promise after a `Clear` is neither stated nor proved.
4. Left to model: a Redis that stops answering; the lengths of polling delays, and with
   them that a response channel of the default capacity never fills up.

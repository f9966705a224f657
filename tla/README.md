# GhostNet in TLA+

TLA+ modules for the concurrent core of GhostNet (`src/`), the TLC
configurations that check them on small instances, and TLAPS proofs about nine
of the components. `PROJECT.json` maps every definition to the lines it models and
lists runs, mutants, findings, hazards and theorems.

## The system

GhostNet is a TCP relay. `startProxy` (`cmd/ghostnet/main.go`) loads the
configuration, starts the logger, the metrics, the domain pool, the router's
health checks, the statistics loop and a signal goroutine, and then runs
`Server.ListenAndServe` until its context is cancelled. For every accepted
connection the accept loop checks `max_connections` and the rate limit and
submits a closure to the worker pool. `Handler.Handle` dials an endpoint that
the router picked, lets the adaptive engine inject a fake segment, and relays
bytes both ways until one side ends.

| Part | State it keeps | Operations | Shared with |
|---|---|---|---|
| endpoint router (`routing/router.go`) | per endpoint: breaker state, failure count, `openUntil`, EWMA latency | `Pick`, `RecordSuccess`, `RecordFailure`, `State` (half-closes), health loop with one probe goroutine per endpoint, `Status` | every handler, health loop, stats loop |
| server and worker pool (`proxy/server.go`) | work channel, queue and overflow gauges, wait groups | accept, refuse, `submit`, `run`, `drain` | accept loop, workers, overflow goroutines |
| rate limiter (`proxy/server.go`) | map of buckets, timestamps, `lastSeen` | `allow`, `cleanup` | accept loop, cleanup loop |
| handler (`proxy/handler.go`) | local variables | `Handle`, `dialWithRetry` | calls all the others |
| relay (`proxy/relay.go`) | buffers, byte totals, first error | `RelayWithSNI`, `readSNI`, `copyLoop` twice, closer | handler, two peers |
| adaptive engine (`bypass/adaptive.go`) | LRU of destination to strategy | `Inject` with one fallback, `get`, `set` | all handlers, recorder |
| strategies (`bypass/wrongseq.go`, `fragment.go`, `desync.go`, `packet_linux.go`) | counters | one run sends one or more raw segments | adaptive engine |
| metrics (`metrics/collector.go`) | atomic gauges and counters, latency window, SNI map | add, snapshot | all handlers, stats loop |
| logger (`log/logger.go`) | bounded channel, writer goroutine | `emit` (drops when full), `Close` | everybody |
| configuration (`config/config.go`) | one struct with an RWMutex | `Load`, `Validate`, `SafeCopy` | everybody; written on reload |
| lifecycle (`cmd/ghostnet/main.go`) | signal channel, context | signals, reload, deferred closes | everybody |
| domain pool (`domain/pool.go`) | entries with latency, fail streak and `nextProbeAt`, `best` | probing loop, election, `Best` | handlers |
| preflight (`preflight/checker.go`) | one result per domain | one probe goroutine per domain, ranking | scan, setup |
| scan and setup (`cmd/ghostnet/main.go`) | `config.json` | probe, compose and rewrite the configuration | the next start, the user |
| ClientHello builder (`tls/clienthello.go`, `fingerprint.go`) | none | `Build` per browser profile, with padding | strategies; its format is what `parseSNI` reads |
| kernel tuner (`tuner/tuner.go`) | `/etc/sysctl.d`, `/etc/security/limits.d` | set and persist kernel parameters | none: nothing reads them back |
| network, SNI accumulator, plugin registry | none | interface lookup; the others are not called | none |

What is hard here: the router's state is read one lock at a time and used much
later; moving averages are updated without a lock; gauges are maintained by
other goroutines than the ones that test them; `allow` and `cleanup` hold
different locks; an election must wait for probes that write what it reads; a
command rewrites a file that a crash can cut off and a name server outage can
make unreadable; nested lengths come from a client, in pieces;
a relay has three goroutines and two peers that may stop
talking at any byte; the cache is read before and written after an injection;
sequence numbers and checksums wrap; and a shutdown races with everything that
still logs. The `hazards` of `PROJECT.json` list these places by line.

## Modules

| Module | Models | Actions and code |
|---|---|---|
| `Router` | router, with the handlers and the health loop that drive it | a step is one critical section or one atomic access: `Scan`/`PickNone`/`Pick` = `Pick`; `DialOk`/`DialFail`/`Backoff*` = `dialWithRetry`; `RelayEnd`/`StoreEWMA`/`RecordSuccess` = the end of `Handle`; `CheckAll`...`ProbeDead` = `healthLoop`, `checkAll`; `Status` |
| `JobPool` | abstract specification of a worker pool | `Submit`, `Start`, `Finish`, `Drained` |
| `Server` | accept loop, worker pool, the counters along `Handle`; implements `JobPool` | `Accept`...`WaitOverflow` = `ListenAndServe`, `submit`, `drain`; `Receive`...`Exit` = `run`; `ConnOpenedActive`...`ClientClose` = `Handle`, one step per atomic counter; `SniRead` = the end of `readSNI` |
| `RateLimiter` | `allow` and `cleanupLoop`; the timestamps of a bucket are a set of stamps (age and serial number), since the code only filters and counts them | `Lookup`, `Create`, `Take`; `CleanStart` = the tick and the cutoff, `CleanLock`...`CleanExit` = the pass under the map's lock |
| `BytePipe` | abstract specification of one direction of a relay | `Push`, `Deliver` |
| `Relay` | one relayed connection; implements two `BytePipe`s | `ReadSNI`...`WriteAccumulatedError` = `RelayWithSNI`; `Read`...`Exit` = `copyLoop`; `Closer`; `RelayReturn`; `HandleClose`; the peers |
| `Adaptive` | LRU cache, `Inject`, the metrics recorder and a reader of the metrics | `Begin`, `RunOk`, `RunFail`, `FallbackFail`, `Cache` = `Inject`; `Lookup`, `Create`, `AddOk`, `AddFail` = `RecordBypassStrategy`, one critical section or atomic add each; `Count` = the handler's `BypassOK`; `SnapLoad*`, `SnapUnlock`, `SnapReturn` = `Snapshot`, one load each |
| `Injection` | one run of a strategy, opened up: the segments it sends | `DelayElapsed`, `Check`, `Send`, the error exits |
| `Lifecycle` | `startProxy`, signals, reload, logger, background goroutines | `Signal`...`CancelCtx`; `Listen`...`WaitLog`; `Emit`, `WriteLine`, `WriterDone`; `StartRound`, `EndRound`, `Stop` |
| `DomainPool` | the pool with its probing loop, an entry for every position of `domain_pool` | `RoundStart`, `ProbeOk`, `ProbeFail`, `Elect` = `probeAll`; `LoopExit` = `loop`; `Flip` = a domain comes or goes |
| `Setup` | composition of `scan -w`, `setup`, preflight and configuration over one host | `StartScan`, `StartSetup`; `Probe`, `NoneReachable` = `RunDomains`; `Compose` = what `runScan` and `runSetup` put into the configuration; `Write*` = `writeCfg`; `Edit`, `Shell`, `Kill` = the user; `Resolver` = the name server; `Flush`, `PowerFailure` = the host, since nothing syncs the file; `Loads` and `Load` = a start |
| `ClientHello` | `Build` as an operator; `readSNI` with `parseSNI`, one step per check, on Build's records and on records with one wrong number | `Read` = `readSNI`; `Header`, `Lists`, `Slice`, `NextExtension`, `FirstName` = `parseSNI` |
| `RouterProofs`, `ServerProofs`, `RelayProofs`, `AdaptiveProofs`, `InjectionProofs`, `LifecycleProofs`, `DomainPoolProofs`, `SetupProofs` | theorems about the module of that name; `ServerProofs` holds those about `RateLimiter` too | |
| `MC*` | instances for TLC | |

The modules meet at the following seams. `Server` takes a dial, an injection and
a relay as one step each with every outcome; `Router`, `Adaptive` with
`Injection`, and `Relay` open those steps up. `Server` assumes that a relay past
its SNI phase ends once the context is done: that is `CancelReturns` of `Relay`.
Of the SNI phase it assumes nothing; `ShutdownCompletes` has the condition that
no handler stays in it for ever, which `CancelReturns` gives when there is an
idle timeout. `Lifecycle` assumes that the server returns once the context is
done, which is `ShutdownCompletes` under that condition.
`Server` takes the answer of `allow` as arbitrary; `RateLimiter` opens it up.
`Relay` takes parsing as done after some number of bytes, or never, whatever the
client sends; `ClientHello` opens `parseSNI` up. A client's hello has the format
that `Build` imitates, so `Build`'s records serve there as proper hellos. `Router`
assumes endpoints and a positive threshold, `Injection` usable delays:
`LoadedIsUsable` of `Setup` states all three. `Injection` assumes a payload:
`Build`.

Times are relative everywhere (ticks left, or ages that stop growing where the
code cannot tell them apart), so clocks need no bound. Histories (`granted`,
`strays`, `worked`, `tried`, `fellBack`, `termTaken`, `touched`, and in `Setup`
`announced` and `origin`) are never read by an action's guard. Operators whose comment begins
with "Faulty variant" are plausible mistakes in the definition that follows them;
no specification uses them, they serve to show that each property can fail.

## Runs

Bounds are in the `.cfg` files. Two handlers and a threshold of two are the
smallest numbers for which a trip, a stale choice and a late success can all
overlap on an endpoint, and nothing the properties say relates two endpoints.
The server has one connection more than channel and worker together hold, so
that one is queued, one handled and one past the channel at the same time. Both
runs check liveness, which is what limits them: the safety properties of the
router were also checked with two endpoints (7 million states), those of the
server with two workers, and all of them are proved for any number below.

| Run | Checks | Shows |
|---|---|---|
| `router` | `BreakerConsistent`, `OvershootBounded`, `LeavesOpen`, `EwmaBounded`, `OpenIsTemporary`, `DialReturns` | one endpoint, 2 handlers with two attempts per connection, threshold 2, cooldown 1, latencies 1 and 3: breaker fields agree; a tripped endpoint is charged only with work committed before; an open breaker is left only by cooldown or by the end of an older connection, and is looked at again; stored averages are in range in spite of lost updates, so a measured endpoint stays measured; dialling ends |
| `server` | `QueuedAccounting`, `OneOwner`, `DrainComplete`, `ShutdownCompletes`, `HandledOnce` | 3 connections, one worker, channel of 1, limit 2, with the SNI phase: no closure is lost or run twice, drain leaves nothing running and the counters settled, shutdown completes; `HandledOnce` is the refinement of `JobPool` |
| `server_gauge` | `ActiveIsCount` (violated) | the same instance: one failed dial makes the gauge wrong, see below |
| `rate_limiter` | `OnlyStraysExceed`, `StraysBounded`, `Forgotten` | 2 addresses, limit 1, window 1, period 2; four strays are reached, so the bound is tight; buckets of silent addresses go away. The two invariants were checked with limit 2 as well, where liveness takes minutes |
| `relay` | `BytesCounted`, `BothPipes`, `OneEndsBoth`, `SocketsClosed`, `CancelReturns` | 2 bytes each way, every split of them, with and without the SNI phase (done after 1 or 2 bytes) and the idle timeout, peers that neither send nor read; `BothPipes` is the refinement of two `BytePipe`s |
| `adaptive` | `CacheConsistent`, `CachedWorked`, `OneHop`, `CountsAgree`, `SnapshotConsistent` | 3 destinations, capacity 2, 2 handlers with 3 injections between them (`MaxRuns`), a reader that goes on for ever: two handlers create the counters of a strategy at the same time, the third injection meets a cache that is full |
| `injection` | `Tiles`, `BelowStream`, `OnlyZeroSumSurvives` | sequence space 16, payloads 1..10 (10 is where the split point changes), sizes 0..11, every `SynSeq` |
| `lifecycle` | `LogFlushed`, `PanicIsLate`, `TermEndsProcess` | 3 signals (`MaxSignals`), 2 background goroutines, log channel of 2 |
| `lifecycle_reload` | `ReloadSurvives` (violated) | the same with reloads that succeed, see below |
| `domain_pool` | `BestIsFastest`, `Recovers`, `FailsOver` | 2 domains, one of them listed twice, 2 latencies, backoff up to 4 ticks, so that it doubles twice and is then capped; outages at any moment of a round |
| `setup` | `NextStartAgrees`, `KeepsSettings`, `LoadedIsUsable` | a known domain, 2 addresses and a host name, 3 files a user may write and 3 environments (`MCUserFiles`, `MCEnvs`: address, host name, endpoints only; values in and out of range), any number of commands, kills, power failures and outages. How several domains are ranked is in the proofs only |
| `client_hello` | `FoundAtTheEnd`, `StaysInside`, `SizeHidesName` | all 5 profiles with their real sizes; names of 0 to 253 bytes with the lengths where padding stops; lowest and highest jitter; pieces of 3 and 260 bytes in any order; every number of a record replaced by 0, by 68, which ends the hello one byte behind the session id, and by one that is too large; bytes out of place read as small and large numbers (`Noise`) |

Deadlock is checked except in `Adaptive`, `Injection`, `ClientHello` and
`DomainPool`, whose behaviours may end by design (the bounded number of calls,
the end of the run, of the record, of the probing). The type
invariants are part of the inductive invariants proved below.

### Disagreements between code and documentation

`lifecycle_reload` checks the promise of a "Live config reload (no restart)"
(`docs/en/building.md`) and TLC refutes it: a successful reload assigns the whole
struct and with it overwrites the locked mutex, and the next `Unlock` is fatal.
`server_gauge` checks that the gauge of "Active connections"
(`docs/en/technical.md`) is their number, give or take the handlers between two
counters, and TLC refutes it with a single connection whose dial fails:
`ConnFailed` and the deferred `ConnClosed` both decrement the gauge. It drifts
down by one with each failed dial, which loosens the `max_connections` check.
`findings` in `PROJECT.json` quotes the lines.

Others show in what the passing properties have to leave out, or in the models:

- `Admit`: only `ConnOpened` increments the gauge, so connections accepted before
  the first handler gets there all pass the `max_connections` check.
- `CancelReturns`, `ShutdownCompletes`: with `log_client_sni` and `idle_timeout` 0 a client that sends
  nothing holds up the shutdown in `readSNI`, which does not watch the context.
- `CountsAgree`: a fallback that fails is missing from the per-strategy
  statistics.
- `OnlyZeroSumSurvives`: inverting a checksum of 0x0000 gives 0xFFFF, which is
  valid.
- `BelowStream` is relative to `SynSeq`, which `getTCPSeqNums` takes from the
  `tx_queue` column of `/proc/net/tcp` or from a hash: nothing ties it to the
  connection, so "designed to be ignored by server TCP stack"
  (`docs/en/technical.md`) does not follow.
- `LogFlushed` speaks of a process that ends on its own terms: a health probe or the
  stats loop, which nobody waits for, may log after `logger.Close` has closed the
  channel, and panics (`crash = "send"` in `Lifecycle`). `PanicIsLate` says when: never
  before the server has returned and `main` is in `Close`.
- `NextStartAgrees`, `KeepsSettings`: `README.md` says that `scan -w` "updates
  `fake_sni`, endpoint IP, and SNI pool in config". It also drops all other
  endpoints and `interface_ip`, writes the overrides of its environment into the
  file for good (a `GHOSTNET_LISTEN_PORT` given to one scan becomes the
  `listen_port` of the file), and starts from the defaults when the file does not
  load at that moment. `setup` may write an empty `connect_ip`, and any `-p`,
  which the start that follows refuses. Nothing syncs the file, and a kill or a
  power failure may leave it cut off; then the properties say nothing.
- `LoadedIsUsable`: with `min_delay_ms` above 50 and a positive `max_delay_ms`
  below it, or none, `Validate` leaves the upper bound below the lower one.
- From reading alone: `docs/en/system_tuning.md` says of the kernel settings "They
  persist across reboots", and `README.md` counts BBR among them; `loadBBR` sets the
  congestion control and the qdisc, but they are not in the file.
- `SnapshotConsistent` is about injections; `ConnOpened` increments the active gauge
  before the total, and the snapshot loads them in that order too, so it may
  show more active than total connections.
- `SizeHidesName`: `helloBodyLen` counts the length of the extensions twice, so a
  padded record misses its target by a constant.
- `bypass_method` is read from the configuration and used nowhere.
- `TermEndsProcess`: a signal that arrives while the one-element signal channel
  holds another one is lost; one that reaches the channel is obeyed.

## Fairness

Weak fairness only, of goroutines that the Go scheduler runs and of the passage
of time. `Router`: probes end within 3 s and dials within `connect_timeout`; no
fairness for starting connections or ending relays. `Server`: a relay past its SNI
phase must end, but only once the context is done; `readSNI` need not end, since
it does not watch the context; nobody has to connect. `RateLimiter`: both
goroutines and the clock. `Relay`: the peers promise nothing, and a successful
`Write` is not fair, since a peer that does not read can block it for ever; a
failed write (socket closed or deadline) is. `DomainPool`: the loop, its probes
(each has a timeout) and the clock; domains come and go as they like. `Setup`, `Adaptive`, `Injection` and `ClientHello` state no
liveness. `Lifecycle`: all goroutines; nobody
has to send a signal.

## Proofs

Every proof module has the same shape: an inductive invariant `IInv`
(`LimiterInv` for `RateLimiter`), a
conjunction of named parts of which the type invariant is one; lemmas that each
action keeps it; `Invariance` (`Spec => []IInv`; `LimiterInvariance`); and the theorems, which follow
from `IInv`. A theorem holds for all values of the constants that satisfy the
assumptions of the module, where a run covers one instance.

| Theorem | States | Argument, and what the inductive invariant adds |
|---|---|---|
| `RouterProofs!TypeCorrect` | `TypeOK` | one step per action, with lemmas for `CountFailure`, `ReadState`, `NextAttempt`, `Ewma` |
| `RouterProofs!BreakerAgrees` | `BreakerConsistent` | inductive with `TypeOK`; rewritten as a conjunction of `Agree(e)` so that actions on one endpoint need one instance |
| `RouterProofs!EwmaStaysInRange` | `EwmaBounded` | needs the values loaded and not yet stored: `EwmaInv` says that `prev` and `pprev` are in range too, and one update keeps the range, rounding included |
| `RouterProofs!OpenIsLeftProperly` | `LeavesOpen` | action by action from the type invariant |
| `RouterProofs!OvershootIsBounded` | `OvershootBounded` | not inductive alone, since a handler becomes committed by scanning. `CandsClean` and `Within(e)`, which splits on whether the failures have reached the threshold, are; an endpoint that can still be chosen is below the threshold by `BreakerAgrees` |
| `ServerProofs!ExactlyOneOwner` | `OneOwner` | `Ownership`: the places where a connection can be exclude each other (`WorkInv`, `WorkerInv`, `OverflowInv`, `CurInv`), each fixes its phase, and `Placed` says that none is lost. Counting owners comes last |
| `ServerProofs!QueueGaugeExact` | `QueuedAccounting` | `Counts` ties every gauge to the number of connections or workers in certain phases; `CountMove` gives the effect of one element changing sides |
| `ServerProofs!DrainIsComplete` | `DrainComplete` | `DrainInv`: a worker leaves only when the channel is closed and empty, and `drain` waits for the workers before the overflow goroutines; with `Placed` nothing is left, and `Counts` settles the counters |
| `ServerProofs!ServerIsJobPool` | `HandledOnce` | step simulation: a job waits from `submit` until its goroutine calls `fn`. `Ownership` gives the phase of the connection that a step moves, `DrainInv` that none is waiting or running when `drain` returns |
| `ServerProofs!AtMostLimit` | `OnlyStraysExceed` | `CountedInv`: what was let through and is no stray is in the bucket the map holds. `OwnerInv` says that no two addresses share a bucket and whose bucket `allow` holds |
| `ServerProofs!FewStrays` | `StraysBounded` | `StrayInv`, a potential: every stray uses up a threat (a lookup that a pass has overtaken or may overtake, a pass that waits for the map's lock, a tick that waits in the channel). Strays since the last tick and `Threats` are at most 3 together, all strays of a window and `Threats` at most 4; the next tick comes only when the strays of the one before have left the window. `SeenInv` says that a bucket last seen before the cutoff counts nothing recent, `VictimInv` that an entry about to be deleted was used at most once since |
| `ServerProofs!RateBound` | at most `Limit` + 4 connections of an address per second | the two before, and the cardinality of a union |
| `ServerProofs!StampsDistinct` | the stamp that `allow` adds is new | `StampInv`, `SerialInv`: the serial numbers of one tick have no gaps. It justifies sets where the code has a slice |
| `RelayProofs!BytesAreCounted` | `BytesCounted` | `Counted` says that a direction that is up, or whose loop has started, has counted all it delivered; `Control` which of `acc` and the buffers may hold bytes |
| `RelayProofs!RelayIsTwoPipes` | `BothPipes` | step simulation. `Stream`: as long as a direction is up, the delivered bytes, those held in `acc` or in the loop's buffer and those received are consecutive stretches of what was sent, and they are all of it unless the source is dead. Every step then pushes, delivers or stutters |
| `AdaptiveProofs!CacheStaysOne` | `CacheConsistent` | `CacheInv`: the list holds every key of the map once, and no other; lemmas on removing, moving to the front and evicting |
| `AdaptiveProofs!CachedHasWorked` | `CachedWorked` | `WorkedInv` adds the strategy a handler is about to cache |
| `AdaptiveProofs!FallsBackOnce` | `OneHop` | `HopInv` adds what a running injection may have chosen, depending on whether it is its second try |
| `AdaptiveProofs!RecorderAgrees` | `CountsAgree` | `CountInv` states the balance at every moment, with the handlers between two counts (`Uncounted`, `Falling`) |
| `AdaptiveProofs!SnapshotCovers` | `SnapshotConsistent` | `SnapInv` adds, in the middle of a snapshot, what the strategies not yet read will contribute at least; counters only grow |
| `InjectionProofs!SegmentsTile` | `Tiles` | `Progress`: the next sequence number is the first one plus what has been sent, modulo the sequence space |
| `InjectionProofs!NothingInStream` | `BelowStream` | `SegmentsOK` places every segment relative to `SynSeq`; lemmas on remainders of sums within two turns |
| `InjectionProofs!BadChecksumDropped` | `OnlyZeroSumSurvives` | a sum and its complement differ by a multiple of `Sums` only at zero, as `Sums` is odd |
| `LifecycleProofs!ExitFlushesLog` | `LogFlushed` | `CloseOrder`: the writer ends only on a channel that is closed and empty, and the process only after the writer |
| `LifecycleProofs!PanicOnlyInClose` | `PanicIsLate` | `CloseOrder` also says that `main` has closed the channel, with the context done, whenever it is closed |
| `LifecycleProofs!ReloadIsFatal` | `[][UnlockConfig => crash' = "unlock"]_vars` | `MutexOrder`: the assignment has freed the mutex before `Unlock`. The run `lifecycle_reload` shows that it happens, the theorem that it always does |
| `DomainPoolProofs!BestDomainIsFastest` | `BestIsFastest` | `RoundOver`: no probe outlives its round, so the entries stand still while the election reads them; `EntryOK` is what it needs of them; `Measured`: after the first round an entry counts as alive without a measurement only while it is being probed |
| `SetupProofs!AnnouncedIsUsed` | `NextStartAgrees` | `WriteInv` and `SetupDraft` say of the draft in memory what the property says of the file; `Composed` that the name and the endpoint are there twice, so that what `writeCfg` leaves out can be put together again |
| `SetupProofs!ScansKeepSettings` | `KeepsSettings` | `file` and `disk` alike hold a content whose settings are those of its origin, and so does the draft; with the lemmas that `Validate` leaves alone what it has repaired and that an override commutes with the repairs |
| `SetupProofs!AcceptedIsUsable` | `LoadedIsUsable` | lemmas on `Accepts`, `Override`, `Repair` and `Normal` for all values of the settings |

Assumptions are declared with the constants they restrict, and TLC evaluates
them in every run. `Router`: finitely many endpoints and handlers, a positive
threshold (`config.Validate` enforces it), positive latencies (0 is the code's
mark for "not measured"). `Server`: finitely many connections and workers, at
least one worker, a channel with a capacity. `RateLimiter`: a positive limit,
a window shorter than the cleanup period (one second and two minutes in the
code), finitely many addresses. `Relay`: positive sizes. `Adaptive`:
a positive capacity, finitely many handlers. `Injection`: payload and window
together fit the sequence space, and the checksum space is odd, as 2^16 - 1 is.
`Setup`: the files a user may write are records of settings of any value
(`Configs`), the environments any overrides, the known domains are finitely many
names, and a missing or cut off file is no configuration. `DomainPool`: a list of
names, positive latencies. `Lifecycle`: a log channel with a capacity.

Only model-checked:

- everything under fairness, since liveness is out of the prover's reach:
  `OpenIsTemporary`, `DialReturns`, `ShutdownCompletes`, `Forgotten`,
  `OneEndsBoth`, `SocketsClosed`, `CancelReturns`, `TermEndsProcess`, `Recovers`,
  `FailsOver`;
- `FoundAtTheEnd`, `StaysInside` and `SizeHidesName` of `ClientHello`, whose sizes are
  sums over lists of extensions.

## Not modelled

- `Pick` sorts by latencies that may change during the sort; with at most three
  candidates every order gives the same choice, with more the model takes the
  latencies of one moment.
- Delay and backoff distributions (random floating point); a delay takes any time.
- Byte formats: `CraftPacket` is reduced to the fields the properties mention,
  random bytes and the contents of the ClientHello's lists to their sizes.
- Weights of endpoints: the code reads them nowhere.
- Code that nothing calls or selects: the RST method of `desync`, the plugin
  registry, `ExtractSNI` and `SNIAccumulator`, `JA3String`, `writeDefaultConfig`, the
  pre-flight inside `startProxy`, and of the domain pool `Add`, `Remove`, `All` and
  `Entries`.
- The kernel tuner: a sequence of `sysctl` commands and two files that no part of
  the program reads back.
- Metrics: the latency window and its percentiles, `TopSNIs`, and the text of the
  exporters. The SNI map grows without bound.
- The interface lookup, `version` and `bench`: one-shot I/O without state.
- Most settings: `Setup` keeps the ones that a command, the environment or `Validate`
  treats in a way of its own; `max_connections` stands for those that nobody repairs
  (`log_level` and `rate_limit`, which the environment overrides too, among them).
- The configuration's data race during a reload: the reload ends the process
  before anything can observe it.

## Plan

1. Done: `Router`, `Server`, `RateLimiter`, `Relay` with `BytePipe`, `Adaptive`
   with recorder and snapshot, `Injection`, `Lifecycle`, `DomainPool`, `Setup`,
   `ClientHello`; proofs of all safety properties of the runs except those of
   `ClientHello`, and of the refinements of `JobPool` and `BytePipe`.
2. Left: `ClientHello`, whose sizes are sums over lists of extensions, and the
   liveness properties, both out of the prover's reach; of the code, what the
   section before lists.

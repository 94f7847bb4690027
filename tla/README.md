# A TLA+ model of the anti-bruteforce service

The service answers one question, "may this login attempt go on?". A `CheckAttempt` call carries a login, a
password and an address; the address is looked up in a whitelist and a blacklist of subnets, and if neither decides,
three sliding-window limits are asked, one for each part of the request. Administrators reset buckets and edit the
lists. There are two work modes: *local* (one process, everything in memory) and *external* (several instances, the
lists in PostgreSQL, the buckets in Redis, changes announced by Redis Pub/Sub).

The modules follow the code at the granularity at which its goroutines and processes can see each other. `PROJECT.json`
maps every definition to the lines it stands for.

## Inventory

| Part | State | Operations | What is hard | What makes it correct |
|---|---|---|---|---|
| In-memory bucket store, `storage/memory/bucketsdb.go` | map key → timeline of times; a RWMutex on the map, a Mutex on each timeline | `Allow`, `getTimeline`, `Reset` | double-checked insertion; the clock is read before the lock; never shrinks | one timeline per key; the limit holds in the last window; no refusal without cause |
| Redis bucket store, `storage/redisdb/buckets_repo.go` | a sorted set with a TTL per key | `Allow` (one transaction), `Reset` | clocks of several instances, lost answers, repeated transactions, equal members | the same promise, less the clock skew |
| Limiter, limit checker, `domain/ratelimit` | a rule per limit type | `Allow`, `Reset` | — | no key shared between limit types |
| Rate limiter service and gRPC server, `app/ratelimit_service.go`, `delivery/grpc/server.go` | none of its own | `CheckAttempt`, `ResetBucket` | three store calls that others interleave with and that fail one by one | no way around a limit |
| Subnet lists and policer, `domain/subnetlist` | two maps, no lock | `Add`, `Contains`, `Clear`, `Load`, `Check`, `ReloadSubnets` | reloads beside checks and beside each other; broken off at an invalid string | an undisturbed check decides by the repository's lists; overlapping reloads lose nothing that was listed all along |
| Subnet repositories, `storage/memory/subnetlistdb.go`, `storage/postgresdb/subnetlistdb.go` | the set of strings per list | get, add, remove (save and clear are unused) | a lost answer of the database | what is stored can be loaded |
| Subnet list service and publishers, `app/subnetlist_service.go`, `adapters/subnetupdatepublisher` | none | four admin calls: write, then publish | a failure or a crash between the two | every instance learns of every change |
| Subscriber, `adapters/redissubscriber` | the Pub/Sub channel | reload on any message | messages missed before and between subscriptions; a write during a reload | no update is lost that was delivered |
| Process, `cmd/anti-bruteforce/main.go`, `internal/factory` | the phases of `run()`, an errgroup of three goroutines, the gRPC server | start, serve, stop | a signal during the start; which goroutine reports first; a handler that does not return; loads before it subscribes | the exit code is true; no call is left running; a process asked to stop, or with a dead goroutine, ends |
| Command line client, `cmd/abfctl`, `internal/abfclient`, generated stubs | one command each | check, reset, add and remove on two lists | a reply that is lost; no deadline; many functions that differ in one word | exit code 0 means done; nothing else is ever done |
| Interceptors, logger, request metadata | the log | tag with an id, log the outcome | the order of the interceptors; levels | a call is in the log under the id its caller was given |
| Migrator, `cmd/migrator` | the table itself | up, down, redo, reset, up-to, down-to | the table disappears beside running instances | an instance is stale only for a reason |
| Configuration, `internal/config` | none after the start | `LoadConfig` | precedence of environment, file and default | a work mode is always chosen |
| `internal/version`, message code of `api/proto` | none | | | not modelled, see below |

Calls go down from the gRPC server through the services to the policer and the stores. The admin calls reach the policer
either through the local publisher (inline, on the caller's goroutine) or through Redis and the subscriber's goroutine
of every instance. Around every call are the two interceptors; before it, `abfctl` or another client of the library.

## Modules

* **`LimiterRepo`** – the promise of `ports.LimiterRepo`: at most `Limit[k]` grants on a key in the last `Window[k]`;
  `Reset` forgets them. It says nothing about refusals.
* **`BucketsDB`** – the in-memory store. One step is one critical section; reading the clock is part of the step before the
  first lock. `granted` is a history variable, the begin times of the grants on a key. Implements `LimiterRepo`.
* **`RedisBuckets`** – the Redis store. A call begins (clock of its instance, random suffix), is perhaps sent again, takes
  effect, and is answered or not. `clock` is the slowest instance's time, `Skew[p]` how far an instance is ahead.
  Implements `LimiterRepo` with the window shortened by `MaxSkew`; of attempts that drew the same member only the one
  answered first is a grant of the port (`Counted`), the set cannot tell them apart. The unit of the
  clock is abstract; `EXPIRE` has a resolution of a second, and twice the window rounded down to it is never shorter than
  the window.
* **`RateLimiter`** – `CheckAttempt` and `ResetBucket` from the handler to the store. The store is an `INSTANCE` of
  `LimiterRepo`: it is composed with the promise. A refusal or a failure is possible at any store call. An attempt is
  counted under any time between the begin of its check and now (`Charge`): both stores read the clock at the start of
  `Allow`, and other calls come before the attempt is counted. So what is shown holds on top of the in-memory store; on top of Redis
  it holds for the common window, as long as no two attempts on a key draw the same member, and with the begin of a check
  read on the slowest clock.
* **`SubnetRules`** – the pure part of the lists: which strings `Add` accepts, what the two lists decide. CIDR strings are
  model values; `Valid` and `Covers` say which parse and what they contain.
* **`LocalSubnets`** – the local mode: admin calls that write the repository and reload inline, checks beside them. The
  repository's lock makes a read or a write one step; `Clear` and each `Add` of `Load` are steps of their own. Go leaves
  concurrent use of a map undefined: either the accesses take some order or the runtime stops the process (`Throw`).
  `kept` and `seen` are history: what was in a repository list all through the calls that overlapped, and at some moment of them.
* **`SubnetSync`** – the external mode: instances that start, load, subscribe, lose their connection, crash or stop; admin
  calls that write the table and then publish; the migrator that creates and drops the table beside them. `owed[i]` is
  history: a change was not, and will not be, announced to `i`. An instance has one admin call in flight, and begins none
  while it stops; more of them would add publications of the same instance, which a crash loses together.
* **`Process`** – one process from `main()` to its exit code. Each call of `run()` that may fail is a step; the three goroutines
  of the errgroup are the variables `shut`, `sub` and `srv`. Of grpc-go and errgroup it takes: `Serve` on a stopped server
  returns `ErrServerStopped`, `GracefulStop` waits for the calls and may still be sent new ones until the clients have heard of it,
  `Stop` closes the connections and returns, also beside a `GracefulStop` that waits, the group keeps its first error. A call that
  is `cut` has lost its connection; its handler may go on until the process exits.
  `SubnetSync` has the same life in coarser steps, for several instances and with what they load.
* **`AdminCall`** – one command of `abfctl` and its call: flags, client, stub, network, interceptors, handler, log line, reply, exit
  code. What a handler does is the subject of the other modules; here it is the command it carries out, or its failure
  before or after that. A message that cannot be decoded is answered before the interceptors and is in no log. `rid` is
  the id in the context and in the reply's header, `carried` is history. That grpc-go sends a call again only while the server
  has not seen it (`Unseen`) is an assumption.
* **`BucketsDBProofs`**, **`RedisBucketsProofs`**, **`RateLimiterProofs`**, **`LocalSubnetsProofs`**, **`SubnetSyncProofs`**,
  **`ProcessProofs`**, **`AdminCallProofs`** – the theorems. `MC*` – the instances for TLC.

Each operator whose name says how it is wrong (`OneTooMany`, `LoadedWhiteOnly`, …) stands in front of the one it is a
plausible mistake for; the specification does not use it. It is there to see that the property it belongs to can fail.

## Runs

| Run | Bounds | What it shows |
|---|---|---|
| `memory_store` | 2 goroutines, 5 ticks, limit 2 in 2 ticks, and keys with limit or window zero | the limit at every moment, one timeline per key and none longer than its limit, justified refusals, refinement of `LimiterRepo` |
| `redis_store` | 2 instances a tick apart, limit 1, window 3, TTL 6, 4 ticks, 2 suffixes, 1 resend | grants that count are stored; refinement of `LimiterRepo` for the window common to the clocks |
| `rate_limiter` | 2 calls (symmetric), limits 2/1/1 in a window of 2, 2 ticks, an address of each kind | no interleaving gets more checks past a limit than it allows |
| `local_subnets` | 2 admins (symmetric), 1 check, a valid and an invalid string | what calls that overlap no other leave behind, answer and decide; what overlapping ones cannot lose or bring back |
| `subnet_sync` | 2 instances, 2 admin calls, 1 failure (a `down` of the migrator among them) | an instance at rest is stale only for a reason; those that are told converge |
| `process` | 2 calls, one signal, every failure | the exit code is true, no call is left running, the process ends |
| `admin_call` | 2 callers with any command, 1 resend, a level above info and an unknown one | exit code, effect and log agree |

Two of everything is what the hazards need: a goroutine that is overtaken and one that overtakes, an instance that writes
and one that must be told. The ticks cover a window, its end, and a call that is delayed past it. In the bucket stores the rule
is a parameter of the call, so a run may give each key its own; in `RateLimiter` there is one window, as in the
configuration. Four ticks are less than the TTL of the `redis_store` run, so there no key expires before its time: that an expiry
drops nothing that counts is shown by the theorem alone, and by the run's mutant, whose keys live too short. `MaxTime`, `MaxGrants`, `MaxWrites`, `MaxFaults` and `MaxResends` bound what the code does not.
Deadlock is not checked in `LocalSubnets`, `Process` and `AdminCall`, where the process or the command may end, and in
`SubnetSync`, where the bounded admin calls and failures run out.

### Where the code and its documents disagree

Each of these runs states what a document, a comment or a test says and TLC shows an execution of the model against it.

* `local_fresh` – two overlapping admin calls reload the same lists in place; the one that read first may install last.
* `local_check` – a check during a reload sees a list that has been emptied and not filled again.
* `local_race` – the lists have no lock: one goroutine writes a map that another is ranging over.
* `instances_agree` – an instance misses what is published between its `Init` and its `SUBSCRIBE`.
* `table_loadable` – strings are stored unparsed; one bad string stops every instance at its next reload, and at each restart.

Also seen while modelling, and not the subject of a run: the in-memory store reads the clock before it takes the lock, so the
limit holds for the window that ends *now* (`WindowBound`) and not for every interval of that length, and a time that a delayed
goroutine appended behind a younger one is pruned only with it; the Redis store lacks the early returns of the in-memory one for a limit or a
window of zero; a reset without a password clears the bucket of the empty password; an attempt that one limit refuses is not
counted for the limits after it; the comment at `cmd/abfctl/root.go:37` has the client closed after *every* command, but cobra skips
`PersistentPostRunE` when `RunE` fails (the process ends at once, so nothing is lost); a signal between `NotifyContext` and `Serve`
may end the process with code 1 (`asked = "early"` in `ExitExplained`); the defaults of Redis are set under `redis.*` but decoded
from `database.redis.*` (`internal/config/config.go:114`), and viper reads the environment only for keys that have a default or an
entry in the file, so with neither the address and the channel stay empty.

## Fairness

`SubnetSync`: weak
fairness of subscribing and reconnecting (the client library retries by itself), of taking messages, of the two steps of a load,
of publishing and of leaving `run()`; none for starting processes, admin calls, the migrator or failures. `Process`: weak fairness
of each goroutine and of the five-second timer; none for handlers, so that `Stops` holds with a handler that never returns, and
none for signals or failures. The other modules have safety properties only.
In particular nothing is said of the end of an `abfctl` command: neither it nor a handler has a deadline, so a property that
it ends could only assume that servers answer.

## Proofs

For every value of the constants that satisfies the named assumptions (rules are integers, the configured limits and window natural
numbers; bounds are natural numbers; `Nil` is neither a goroutine nor a key; no clock is ahead by more than `MaxSkew`; `Valid` is a
part of `Cidrs`), each type invariant, every safety invariant and action property and both refinements that the passing runs check:

* `BucketsDBProofs`: `TypeCorrect`, `SingleTimelineHolds`, `WindowBoundHolds`, `TimelineBoundHolds`, `StoreImplementsPort`, `RefusalJustifiedHolds`. `WindowBound` alone
  is not inductive: it does not mention the timeline that `Allow` counts. The invariant adds, for each key, that only the
  timeline in the map is ever used, that it is the list of grants without a prefix, that all of that prefix is older than a window
  *now* (`Backed`), that it is no longer than the limit, and that no goroutine carries a time of the future. The last one is
  why pruning by an early clock is harmless: it removes no more than the present clock would. The lemmas `BackedPrune`,
  `BackedAppend`, `BackedLater` and `BackedCount` carry the argument about sequences; the refinement follows because
  room on the timeline is room in the window. For refusals the argument is turned round (`LiveIsRecent`): the first entry that
  pruning leaves is a recent grant, and so are all behind it if the grants were recorded in order; that there is an entry at all
  needs `RuleInv`, that no attempt under a rule without a limit gets as far as a timeline.
* `RedisBucketsProofs`: `TypeCorrect`, `RecentStoredHolds`, `StoreImplementsPort`. A transaction cuts the set at its own score and time
  drops the key, so the invariant bounds the scores of the members on their way (`SentInv`) and of the tickets (`Stamped`) against the
  slowest clock, and the TTL against every grant (`Renewed`: two windows after its begin, or later). `LiveKeepsRecent` is the heart: no
  clock is more than `MaxSkew` ahead, so no transaction cuts into the common window. The refinement maps the recent grants, by
  their tickets (`Distinct`), one-to-one into the set that was counted, less the attempt itself (`CountIsEnough`). It has a
  hypothesis, `RulesCount`: a limit of zero comes with a window. Without it the theorem is false: line 71 admits the attempt
  that line 57 has just removed, and TLC shows the step when the instance is given limit and window zero. The in-memory
  store refuses under that rule.
* `RateLimiterProofs`: `TypeCorrect`, `PassedWithinLimitsHolds`. The store promises something about the grants of one key, at the time
  they are charged; the property is about checks, charged on three keys at three times, which pass with the last. The
  invariant counts (`Covered`): for every key and *every* time `c`, the passed checks begun after `c` and the running checks begun
  after `c` that have been charged for the key are no more than its grants after `c`. Quantified over `c`, it does not mention
  the clock, so time preserves it; a charge carries any time that is not earlier than the begin of its check, so each step adds on
  the right at least what it adds on the left (`CoveredCharge`, `CoveredPass`); passing moves a check from one side of the sum to the other
  (`CoveredHandOver`); a reset empties both sides, because every check that had been charged loses its claim (`amnesty`).
* `LocalSubnetsProofs`: `TypeCorrect`, `SoloFreshHolds`, `ReplyHonestHolds`, `CalmCheckRightHolds`, `OverlapBoundedHolds`. The properties speak of quiet moments;
  the invariant follows the call that is alone through its reload (`Reload`): what has been added and what is left to add make up the
  repository's list (`Loading`), the whitelist is done when the blacklist is being loaded, and the call ends with both lists
  loaded or broken off at an invalid string (`Finished`). `CheckInv` carries this from the begin of a calm check to its verdict.
  Of overlapping calls nothing of the kind is true, since each may clear what another has added. `OverlapInv` says what remains: what
  was listed all along is either in the policer's list, or some call has still to clear that list (`ToClear`), or has it still to add (`Filling`);
  what was listed at no moment is in no call's copy (`CopyInv`), and in the policer's list only while some call has still to clear it (`ListInv`).
* `SubnetSyncProofs`: `TypeCorrect`, `NoUpdateLost`. The invariant `FreshSoFar` says what a reload under way already has right when no
  message, no owed change and no pending publication is left: the rows it selected and the lists it installed are the table's. A
  write makes a publication pending or the instance owed; a publication puts a message in the queue of whoever is subscribed
  and makes the others owed; so nothing has to be said of a reload during which the table changed. The migrator's `down` makes every instance owed.
* `ProcessProofs`: `TypeCorrect`, `ExitExplainedHolds`, `NoneLeftRunningHolds`. The exit code depends on the group's first error, so
  the invariant says what each error means (`FirstError`): `canceled` is only ever first after a signal and with no failure before
  it, `ErrServerStopped` only after a signal that came before `Serve`. `Stopping` ties the server to the goroutine that stops
  it: that goroutine ends only when the server has stopped, and a stopped server runs no call.
* `AdminCallProofs`: `TypeCorrect`, `CommandEffectHolds`, `TraceableHolds`. The commands do not disturb each other, so the invariant is
  one of each caller: what was carried out follows from where the call is (`Effect`), what `abfctl` knows from where the command
  is (`Known`). The lemma `RightHandler` is the routing: the functions of `root.go`, the client library and the service description
  together lead each command to its own handler.

Each of these invariants was checked by TLC on the run's instance before it was proved. Only model-checked: the liveness properties
`Converges` and `Stops` (temporal reasoning with fairness, like `ENABLED`, is out of the prover's
reach), and of course the violations.

## Not modelled

Version, and the generated message code (`anti_bruteforce.pb.go`): no state, no control. Of the configuration only the work mode has
a meaning to the control flow; the other values are constants, and how a key of the file becomes a field is left out.
`SaveSubnetList`, `ClearSubnetList`, `SubnetList.Remove` and the user and trace ids of `ctxmeta` have no caller outside the tests.
The arithmetic of CIDR prefixes is given by constants. The wall clock is assumed not to step back. SHA-256 is taken as one-to-one,
a new request id as unused. `TimelineBound` bounds each timeline of the in-memory store; the number of timelines grows with the
keys seen, which a finite set of keys cannot show. What a rule of limit and window zero means is said
nowhere: the two stores answer it differently (see `RulesCount` under Proofs).

## Plan

Done: the two stores and their port, the checks above them, the lists in both modes with the migrator, the process, the commands
and their log; proofs of every safety property of the passing runs.

1. Proofs: the bound on the recent grants as a theorem of `LimiterRepo` itself, so that every implementation inherits it.
2. The whole check: `RateLimiter` composed with the policer of `LocalSubnets`, so that a reload and a limit meet in one call.
3. CIDR matching as an algorithm over short addresses, against a reference.

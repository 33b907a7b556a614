# Helios, verified

TLA+ models, TLC runs and TLAPS proofs for the Helios pipeline: a gateway that
turns a stream of Solana updates into envelopes on a Kafka topic, a group of
decoders that store them in ClickHouse, an API over Postgres with its
authenticator and rate limiter, a command that enqueues replay jobs, and an edge
proxy in front of the API.
Paths below are relative to the repository, services under `src/services`.

## Inventory

| Part | Code | State it keeps | Operations | Hard part |
|---|---|---|---|---|
| Gateway | `gateway-rs/src/main.rs` | per session: `seq`, `slot_parents`; per process: `backoff_ms`, whether a ctrl_c handler exists | connect, slot update, transaction update, produce, reconnect, interrupt | the identity of an envelope depends on session memory; failed sends; what happens between sessions |
| Decoder | `decoder-rs/src/main.rs` | batch, `batch_first`, the sleep of the select; in Kafka the group's offsets; in ClickHouse `tx_raw` | receive (row, unparseable, empty, malformed id), timer, flush, commit | offsets against stored rows through crashes, rebalances, lost and overtaken commits, partial inserts; the flush timer |
| Edge proxy | `edge-go/cmd/edge/main.go` | per backend: health flag (atomic), in-flight count, failures, last error, circuit (mutex); round-robin counter | select, forward, retry, record, probe | requests and probes interleave between critical sections; late outcomes |
| API rate limiter | `api-go/cmd/api/main.go` 956-1223 | Redis: a counter per client and window, its expiry; in memory: a token bucket per address | Allow, cleanup | INCR and EXPIRE are two commands of requests that interleave, fail and come late; the cleanup runs between finding a bucket and using it |
| Edge process | `edge-go/cmd/edge/main.go` 184-341, 478-511 | metrics; what was read of a request's body | count, render, stop | counters under one lock at a time; bodies that retries find consumed; a shutdown nobody waits for |
| API authenticator | `api-go/cmd/api/main.go` 585-954 | key document, time of its store | check an API key, verify a token, look up a key, refresh | concurrent refreshes outside the lock, staleness, verdicts some time after the arrival |
| API handlers | `api-go/cmd/api/main.go` 151-583 | the connection pool | two listings, readiness probe | every way out must give its connection back; reads that break off |
| Replay job | `replay-go/cmd/replay/main.go` | a row in `replay_jobs` | insert as `queued` | an insert whose outcome is unknown; nothing takes the row further |
| Schemas, infrastructure, load tests, docs | `infra`, `deploy`, `load`, `proto`, `docs` | - | - | evidence for what the environment does |

Interaction: gateway -> topic `helios.raw_tx` -> decoder group -> `tx_raw`. The
decoders share nothing but the consumer group and the table. Clients -> edge ->
API replicas; the edge learns of a backend from its probes and from what it
forwards. The API reads Postgres, which only the replay job writes.

What makes each part correct:

- Decoder: an envelope below the committed offset is stored (or there is a known
  exception); rows are stored twice only after the group was given them twice;
  every envelope is stored in the end; a batch stays within its size and is
  flushed in time.
- Gateway: what a session publishes is numbered without holes; no transaction
  asked for is lost; a transaction keeps its identity when it is published
  again (or there is a known exception); the session remembers the newest slots.
- Edge: in-flight counts are exact; a tripped breaker keeps a backend out; live
  backends come back, dead ones leave; requests are answered and do not use more
  backends than they may.
- Rate limiter: the requests of a window stay within the limit (up to a known
  delay); nobody is denied for another window's requests; keys expire. In memory, a
  client cannot tell that idle buckets are dropped, and they are; where rate and burst
  let it tell, it gains only by having been quiet for as long as buckets are kept.
- Edge process: a body reaches one backend; backends are charged with their own
  failures (or there is a known exception); every request gets an answer unless the
  process exits; the metrics add up.
- Authenticator: a key in use is recent; who is admitted deserves it at that moment;
  a good token is refused only for a known reason.
- API and replay job: connections are never lost; a listing has what it should (or
  there is a known exception); a range is enqueued twice only for a known reason.

## Modules

| Module | Models | Runs / proofs |
|---|---|---|
| `Decoder` | a group of decoder processes, the topic, the group coordinator and the table | `MCDecoder`, `DecoderProofs` |
| `Delivery` | the abstract at-least-once delivery the decoder implements | property `ImplementsDelivery`, theorem |
| `Gateway` | gateway processes, the provider and the topic | `MCGateway`, `GatewayProofs` |
| `Edge` | request goroutines, probes, backends and the clock | `MCEdge`, `EdgeProofs` |
| `RedisLimiter` | the requests of one client on all replicas, and Redis | `MCRedisLimiter`, `RedisLimiterProofs` |
| `LocalLimiter` | the requests of one address on a replica, the map of buckets and its cleanup | `MCLocalLimiter`, `LocalLimiterProofs` |
| `TokenBucket` | the abstract buckets the local limiter implements, on a clock of their own | property `ImplementsForgetfulBucket`, theorems |
| `KeyCache` | the cache of signing keys of one replica, and the issuer | through `Authenticator` and `AuthenticatorProofs` |
| `Authenticator` | the requests that are judged with it; extends `KeyCache` | `MCAuthenticator`, `AuthenticatorProofs` |
| `Api` | router, handlers, pool, Postgres, and runs of the replay command | `MCApi`, `ApiProofs` |
| `Forwarding` | what a request and its body go through in the edge process, its metrics and its end | `MCForwarding`, `ForwardingProofs` |

Definitions marked *Mutant* are plausible bugs of the code; each property of a
passing run is violated when its mutant takes the place of the definition that
follows it (`PROJECT.json`, "mutants").

### Decoder

Rows and messages are named `<<partition, offset>>`; a message is one of four
kinds: an envelope, a payload that is no envelope (`Unparseable`), no payload
(`Empty`), an envelope with a malformed `event_id_hex` (`BadId`).

One action per arm and exit of the main loop: `ReceiveEnvelope` (push and
`should_flush`), `ReceiveUnparseable` (`commit_message`, `continue`),
`ReceiveEmpty` (`continue`), `ReceiveBadId` (`?` leaves `main`), `KafkaError`,
`TimerFires`. A flush has two steps, since other processes and the coordinator run
while the insert is awaited: `StoreRows` or `InsertError`, then `CommitState`.
`insert_rows` streams, so a failed insert may leave any prefix of the batch in
the table. Time is in ticks: `sleep` is what is left of the sleep of the current
select, `elapsed` is `batch_first.elapsed()`, capped at the flush interval, where
the code stops telling values apart; it passes while a process waits.

The environment is what the code relies on: `Produce` appends; `ApplyCommit`
takes the asynchronous commits in any order and `LoseCommit` drops one, because
nothing awaits their result; `Rebalance` gives partitions to the live members
from the committed offsets, when membership changed or (a fault) a member was
thought dead, and leaves the batches alone, for the code installs no rebalance
callback; `Crash` and `Restart` are the service scheduler's.

Ghosts (`age`, `skipped`, `rewound`) are read by properties only.

### Gateway

The provider is modelled by what it owes a session: with `from_slot`, the
updates of all slots from there on; without it, those of the slots to come and an
arbitrary rest of the current slot, each in any order. The identity of an
envelope (`EventId`) is the part of the hashed key that differs between
deliveries: slot, parent slot and transaction; SHA-256 is taken as injective.
`SendOk` and `SendError` are the outcomes of `produce(...)`, awaited before the
next update is read: a good report, perhaps after a retry of the producer that
left the envelope in the topic twice, or an error, whether or not the broker has
it. `Interrupt` models `ctrl_c`: it ends the process until the first backoff has
installed the handler, and later only during a backoff.

### Edge

`Select` is one call of `pool.next`; when the first policy finds nothing the
other is asked in a later step, as it reads the backends anew. `Upstream` is the
upstream's answer, `Finish` the rest of `forwardOnce`. The scan of the backends
and the `inflight.Add(1)` that follows are one step; so are the record of an
outcome, under the backend's mutex, and the deferred `inflight.Add(-1)`. A probe
has the two steps of `setHealth`, the atomic store (`SetHealthFlag`) and the part
under the mutex (`SetHealthRest`), and a round starts when all probes of the last
are done. `circuit` is `circuitOpenUntil`: zero, in the future or past.
A backend goes up and down at will (`Toggle`); one that is up answers well, except
for `MaxFaults` failed forwards.

### RedisLimiter

`ReadClock` names the key of the window; `Incr` and `Expire` are the commands as
Redis executes them, each with an answer that may be lost; `FailEarly` and
`FailLate` are connections that fail before a command is executed. Only the
request that got the answer 1 goes on to `Expire`. Time is in seconds; `Tick` drops
expired keys and keeps a request within `MaxDelay` of its clock reading, as the
connection's timeout and deadline (two seconds each) do. The replicas' clocks agree; one
that is behind is a delay. `incrAt` is read by properties only.

### LocalLimiter

`ReadClock`, `Get` and `Use` are the three parts of a request: `get` reads the clock
before it waits for the lock, stamps the bucket or makes one under the lock, and
`Allow` takes the token after the lock is released. `BeginSweep` and `EndSweep` are
the cleanup, which reads its cutoff before the lock too. `golang.org/x/time/rate` is
not in the repository: its limiter is taken for a bucket that starts full and fills
at every tick, in units of which a request takes `Cost`. `MaxDelay` bounds how
late a goroutine may be; `LocalAssumption` says that this is less than the cleanup's
period and at most half the TTL, and nothing of rate and burst, which the code does
not validate either. `used`, when a token was last taken, is read by properties only.

`TokenBucket` has neither map nor cleanup, and a clock: it fills by `Refill` at a tick
(`Pour`) and at no other moment, so a bucket that is dropped before it is full is not a
step of it. `Spec` is a bucket that is never forgotten; the code implements it if a
bucket fills in the time it is kept after its last use (`FillsWhileKept`), which the
defaults do and a burst above 600 times the rate does not. `ForgetfulSpec` adds
`Forget`, which fills a bucket that nothing was taken from for `Kept` ticks; the code
implements that whatever is configured. `Kept` is the TTL, one tick more because the
cutoff is strict, less two delays: the time stamp may be older than the use by one, and
the cutoff older than the deletion by another. A bucket that is not in the map stands
for a full one. The run checks the second, which says more; `ImplementsTokenBucket`, the
first, is a theorem under its premise (with `Burst = 2` TLC confirms it too).

### KeyCache

`Verify` is the first look (`currentKey` under the read lock), `Serve` the issuer's
answer, `Store` the rest of `refresh`, `Recheck` the second look. Any number of
requests may be between them. A document is a number; it has kids
(`DocKeys`) and a key under each of them (`KeyOf`), so a key may be replaced under the
same kid, as `fallback-0` and the like always are, which the code makes up for keys that
have none. A token names a kid, or none and is given the first (`First`). `Tick` keeps a fetch
within the client's timeout (`FetchTime`); the second look follows a store at once.

### Authenticator

Composed with `KeyCache` by extension: `Present` is `authorized` and `Verify` up to
the first look, `Refresh` any later step of the cache for that request, and when the
cache has its result `Judge` is in the same step, for the rest of `Verify` reads
nothing that is shared but the clock. `JudgeAtOnce` covers every request that needs
no key: an API key, a bearer used as one when there is no verifier, nothing, or a
token that does not parse. A token is a record of what `Verify` and
`validateJWTClaims` tell apart; its signature holds for the key that signed it and no
other. A token's `kid` and its signer may differ, because it is forged or because the
key was replaced under its kid. In the second case a good token is refused until the
cache is refreshed (the old key is found, so no refresh follows): a case of
`RefusalExplained`, and of the run.

### Api

`Launch`, `Insert`, `Enqueued` and `InsertFails` are a run of the replay command;
`EndTransaction` is Postgres, which commits or aborts whether or not the command
still waits. `MayAsk` is the operator: a range is asked for again only when the run
before it failed. In the API, `Handled` is what gets past the two parsers
(`ValidQuery`). What they turn away holds nothing, and so does what the gates of
`newRouter` (CORS, authenticator, limiter) turn away. The gates and their order are
not part of the module: a request that does not pass them is one that never arrives.
`Arrive`, `Acquire` and `RunQuery` bring a request to its rows; `ReadRow` is one turn of
the loop, `ScanFails`, `QueryFails` and `Listed` are the ways out, `Listed` also when the
connection breaks (`rows.Err` is not read). `HandleReady` uses the same pool. A
request that was answered is kept as `listed` until the client is done, so that
properties can speak of what it got. `FirstRows` is `ORDER BY created_at DESC LIMIT`:
the `n` youngest of the places that match, the i-th of them the one with i - 1
younger ones (`Rank`).

### Forwarding

The counterpart of `Edge` for what `Edge` abstracts; any backend that was not tried
may be selected, or none. `left` is what the next read of the request's body finds:
`MaxBytesReader` remembers the end of a body, but one that was closed before it
cannot be read again. `Response` and `NoAnswer` are the exchange with the backend; it
may fail by the backend, or by the client, who leaves, sends too much, sends a body that
is malformed, or stalls it until `upstreamClient`'s time (5 seconds by default, less than the
server's 10 for reading) is over. The code charges the backend for all of these, and
`wronged` remembers whom it charged for others: `ChargedJustly` says per backend which
causes (`Excused`) there are and that there is no other, as a backend that was
given the whole request by a client who waits. One exchange is one request to the
backend; that the client follows redirects is left out.
`Count`, `Charge` and `Leave` are the three acquisitions of the metrics lock, `Exposed`
what `render` shows under it. 502, 503 and 504 are one status, and so are the other
5xx. `Stop` is SIGTERM, `Exit` the return of `main`, which cuts what is in flight.
`got`, `heard`, `guilty` and `wronged` are read by properties only.

## Runs

| Run | Bounds | Shows |
|---|---|---|
| `decoder_safety` | 2 decoders, 1 partition of 3 messages of all kinds, 2 faults, batch of 2, interval 1 | `TypeOK`, `LossOnlyBehindGarbage`, `LossBoundedByBatch`, `DuplicateOnlyAfterRewind`, `PoisonBlocksPartition` |
| `decoder_live` | 1 decoder, 2 partitions of 2 messages, 1 fault, batch of 3, interval 2, fairness | `FlushWithinTwoIntervals`, `EventuallyStored`, `ImplementsDelivery` |
| `decoder_loss` | as found | `CommitAfterSink` violated: finding 1 |
| `gateway` | 3 slots, one that names no parent, 3 transactions, one of them hollow, memory of 1 slot, 2 faults, fairness | `TypeOK`, `NumberedWithoutGaps`, `RemembersNewestSlots`, `AtMostTwoIds`, `EventuallyPublished` |
| `gateway_ids` | the same, no `from_slot` | `StableId` violated: finding 3 |
| `edge` | 2 requests, 2 backends that go up and down at will, 2 attempts, threshold 2, round robin; `lastError`, which no guard reads, is left out of TLC's view of a state | `TypeOK`, `InflightExact`, `BreakerHolds` |
| `edge_live` | 1 request, 2 backends that go up and down at will, 1 failed forward besides, least connections, fairness | `BackendRecovers`, `DeadBackendRemoved`, `RequestAnswered` |
| `redis_limiter` | 4 requests, limit 2, window of 1 second, up to 3 seconds late, 5 seconds | `TypeOK`, `PromptWithinLimit`, `DenialJustified`, `UnexpiringKeyExplained` |
| `local_limiter` | 3 requests, burst of 3, 1 token a tick, kept for 3 ticks, cleanup every 2, up to 1 tick late, 11 ticks | `TypeOK`, `HeldIsCurrent`, `ForgetsIdle`, `ImplementsForgetfulBucket` |
| `authenticator` | 2 requests, 3 documents (one without usable keys), 2 kids, one of which gets another key, 3 keys and a stranger's, interval 1, fetch 2, leeway 1, 5 seconds; the view of TLC leaves out a request that was judged | `AuthTypeOK`, `KeysFresh`, `AdmissionSound`, `RefusalExplained` |
| `api` | 2 runs of the command, 2 requests, 1 connection, limits of 1 and 2 | `TypeOK`, `PoolExact`, `JobsAccounted`, `ListingComplete` |
| `forwarding` | 2 requests of 5 kinds, clients that may stall or leave, 2 backends, 2 attempts | `TypeOK`, `BodyIntact`, `ChargedJustly`, `AnswerHonest`, `MetricsBalance` |

Why the bounds are enough: losing a row takes a row in a batch, a payload of
another kind behind it and one fault (3 messages, 1 fault); a row twice takes a
second decoder and one rebalance; an overtaken commit takes two commits of a
partition. Two identities take two sessions and a slot whose parent is not the
slot before it. A probe split by a failure takes one backend whose threshold the
failure reaches; retries take two backends and two attempts; the stalest outcome
takes two requests. A window that is granted twice takes limit + 1 requests, one of
them after the key's life of two seconds; a younger document that an older one
overwrites takes two fetches, and a request that is judged by it another. A
duplicate job takes two runs, a lost connection shows with a pool of one, an
incomplete listing with a job that passes a filter and a younger one that does not. A
body that is sent again takes two backends; counters disagree between the locks of
two requests. A row outlives a flush interval when another follows it before the
batch of three is full. An idle bucket is forgotten 7 ticks after its time stamp
at the latest; a bucket of three that is emptied has not filled in the two ticks it is
kept, so the run gives a full one early, and a cutoff off by one gives it too early. A listing that forgets its filters
shows with a limit of one, where a younger job displaces the match. Decoders and requests are interchangeable, so the safety runs
use symmetry; the liveness runs do not.

Deadlock is checked except for the gateway, which stops when the bounded chain
ends and everything is delivered, the limiters, whose clocks are bounded, and
`forwarding`, whose process exits.

## Fairness

- Decoder: the runtime polls the select (`Receive`, `Tick`, `TimerFires`), an
  insert and a commit call end, the service scheduler restarts a dead task, and
  the coordinator completes a rebalance that a change of membership asks for.
  Faults, commits arriving and the production of messages are not fair.
- Gateway: the chain goes on, the provider sends what it owes, connecting and the
  backoff end, `produce` is answered (5 s message timeout), the task is restarted.
- Edge: goroutines run; upstream calls and probes end by `BackendTimeout`; the
  ticker ticks; an open circuit expires. Clients are not obliged to send
  anything, so recovery has to come from the probes.
- The limiters, the authenticator, `Api` and `Forwarding` have safety properties only.

`EventuallyStored` is checked for topics without malformed event ids. With one,
the process that is given it exits with the rows of every partition in its
batch, again and again: `PoisonBlocksPartition` states what then holds.

## Proofs

TLAPS checks these for every value of the constants (any number of partitions,
decoders, messages, faults, backends, requests, key documents, any limit, window
and interval).

`DecoderProofs`: `TypeCorrect`, `DeliveryInvariant`, `NoLossExceptBehindGarbage`,
`DecoderImplementsDelivery`. `LossOnlyBehindGarbage` speaks of committed offsets
alone and is not inductive. `DeliveryInv` adds what makes an offset safe to
commit: an offset on its way to the broker is as safe as a committed one
(`CommitsSettled`); what the owner of a partition was given is settled or in its
batch (`PositionHeld`); a process that has inserted has its batch in the table
(`InsertedStored`); and everything points into the log (`OffsetsInLog`). A row
behind an unparseable payload is *forfeited*; the notion grows with the bound, so
every step that moves an offset forward keeps it.

- `PoisonBlocks`: with the offsets in the log, `PoisonBlocksPartition` is inductive.
- `FlushedWithinTwoIntervals`: while rows wait that only envelopes follow, their age
  and what is left of the sleep are less than two intervals (`WaitInv`): a receipt
  starts the sleep anew only while the age is below the interval.
- `LossBelowOneBatch`: what a later payload could make the group forget is the rows
  in the batch of the partition's owner, and a batch that does not wait for its
  flush has room (`LossInv`).
- `DuplicatesOnlyAfterRewind`: without a rewind, every row that is stored or waits is
  of an offset its owner has passed (`RowsBehindPosition`), a row is not stored before
  its batch is (`NotStoredYet`) and waits in one place (`HeldOnce`).

The refinement maps `Decoder`'s
`log`, `committed` and `tx_raw` to the variables of `Delivery`: `StoreRows` and
`InsertError` are `Store`, `ApplyCommit` is `Commit`, by `CommitsSettled`, and
every other step but `Produce` stutters.

`GatewayProofs`: `GatewayTypeCorrect`, `GatewayNumbersWithoutGaps`,
`GatewayRemembersNewestSlots`, `GatewayAtMostTwoIds`. Numbers have no holes because
only the newest session of a gateway sends (`SendsNewest`), none is in the topic
before it began (`NoFutureSession`), and its counter is the last number in the topic,
or one ahead while an envelope is being sent (`LastNumber`, `Published`). Of the
memory, `Remembered` says that a slot that was handled and forgotten is older than all
that are known; `RememberKeepsNewest` is what one insertion and trimming keeps of it.
An envelope names the parent the chain knows or the slot before (`IdsInv`).

`EdgeProofs`: `EdgeTypeCorrect`, `EdgeInflightExact`, `EdgeBreakerHolds`,
`EdgeSentWithinAttempts`. That
in-flight counts are naturals needs `InflightExact`, and `InflightExact` needs
the part of `TypeOK` that says when a request is at a backend; the lemmas
`EnterCounts` and `LeaveCounts` carry the cardinalities. `BreakerHolds` is
inductive with the types because it exempts a backend between the two halves of a
good probe, which is the very window of finding 5. `SentWithinAttempts` needs
`SentInv`: a request still to be given to a backend has an attempt left.

`RedisLimiterProofs`: `LimiterTypeCorrect`, `LimiterKeepsLimit`,
`LimiterDeniesJustly`. The first key of a window cannot expire while a request may
still be prompt (`KeyOutlivesWindow`: the second that EXPIRE adds), so prompt requests
count on one key (`OneKey`) and get different answers (`AnswersDiffer`); those that
allow are the numbers up to the limit. For denials, a key never counts more than
the requests that were counted (`CountBounded`). `LimiterExplainsKeys`: a key without an
expiry has the request that made it between its INCR and its EXPIRE, or that request
did not get through; `UnexpiringKeyExplained` is inductive with the types.

`LocalLimiterProofs`: `LocalTypeCorrect`, `LocalHeldIsCurrent`, `LocalForgetsIdle`,
`LocalImplementsForgetful`, `LocalImplementsBucket`. The inductive `LocalInv` bounds
every lateness (`Punctual`): a limiter is last used two delays after its time stamp at
the latest (`UsedRecently`), so a bucket that expires is in nobody's hands and was not
taken from for `Kept` ticks. Dropping it is then a `Forget` of `TokenBucket`, with no
assumption on rate and burst; every other step is the bucket's own step or a stutter,
the clock's tick a `Pour`. A level is never below what has flowed in since the last use
(`FillingSince`): under `FillsWhileKept`, which is a premise of `LocalImplementsBucket`
and not an assumption of the module, what is dropped is full, and dropping it stutters.

`AuthenticatorProofs`: of the cache, `CacheTypeCorrect`, `CacheKeysFresh`,
`CacheNotFoundExplained`. What was served is as young as its fetch (`FetchesRecent`),
what is in the cache was the issuer's a fetch before its store (`CacheRecent`), and the
second look finds a cache stored that very second (`RecheckFresh`). Of the requests,
`AuthImplementsCache`, `AuthTypeCorrect`, `AuthKeysFresh`, `AuthAdmissionSound`,
`AuthRefusalExplained`. Every step of the authenticator is one of `KeyCache` or leaves
its variables alone, so the invariants of the cache hold without a second proof. An
admission is then a single step whose key comes from a cache that is fresh, by
`KeysFresh` after the step, and whose claims are judged in it. A refusal is one too:
by a claim, by a key that was not the signer's, or by a look that found no key, which
`NotFoundExplained` traces to a fetch that failed or a document without it.

`ApiProofs`: `ApiTypeCorrect`, `ApiPoolExact`, `ApiJobsAccounted`,
`ApiListingComplete`. The connections taken and those left are `MaxConns` (`PoolInv`).
A job is doubled only by a run that could not tell its outcome: a transaction begins
with the INSERT and a run that says "enqueued" is right (`RunsKnow`), and of two runs for a
range one has failed (`OneAsk`). For listings, `FirstRowsAre` is what `ORDER BY ...
LIMIT` returns; `ListSound` of a request says that the rows its query chose are the
first that match and that the reader has a prefix of them. Jobs that come later are
younger than all of those (`OrderInv`, `AnswersStay`) and change neither.

`ForwardingProofs`: `ForwardingTypeCorrect`, `ForwardingBodyIntact`,
`ForwardingChargedJustly`, `ForwardingAnswerHonest`, `ForwardingMetricsBalance`. The
first four follow from one invariant per request (`RequestsInv`): it has an attempt left
when it selects (`AttemptsKept`), what is left of its body tells what the backends
have got (`BodyTracked`, `BodyShared`), and each point of `forwardOnce` has its result,
answer and culprit (`AttemptJudged`, `Answered`, `Charged`). A backend's excuse, once
there, stays: what it was given of a body is not taken back and a client who left does
not return. `MetricsBalance` is
inductive with it: a step moves one request from one of the sets it counts to another.

The assumptions are the named `ASSUME`s of the modules: sizes are positive,
kinds of messages are disjoint, sets of requests are finite, the fallback is a key
of its document, goroutines are late by less than the cleanup's period and half the TTL,
the watermarks are a sequence. TLC evaluates them
in every run.

Every invariant, every action property and every refinement that a passing run checks
are theorems. Model-checked only are the liveness properties (`EventuallyStored`,
`EventuallyPublished`, `BackendRecovers`, `DeadBackendRemoved`, `RequestAnswered`):
fairness and ENABLED are out of the prover's reach. The violations of
`decoder_loss` and `gateway_ids` are TLC's counterexamples.

`RefusalExplained` has a case, a replica without a verifier (`~JwtEnabled`), that the
run's constants do not reach and the theorem needs. `Api` takes `FirstRows` by rank and
not by a fold over the rows, because induction over data is out of reach too.

## Findings

1. `flush_batch` says "Commit offsets only after sink success."
   (`decoder-rs/src/main.rs:212`), but an unparseable payload commits its own
   offset (`:176`) over rows still in the batch. A crash then loses them: fewer
   than a batch per such payload (`LossBoundedByBatch`), and nothing else loses
   any (`LossOnlyBehindGarbage`, proved).
2. "Max time before we flush a partial batch" (`decoder-rs/src/main.rs:48`) is
   not kept: every select creates the sleep again. Rows that only envelopes
   follow wait less than two intervals; other payloads skip the age check too. No run
   is kept for it: with the bounds of `decoder_live` TLC refutes `FlushDeadline`.
3. "Stable keys for idempotency (event_id)"
   (`proto/helios/event_envelope.proto:8`): the parent slot in the key depends on
   whether the slot update came first in this session. A transaction may have two
   identities, never three.
4. "no-loss/no-dup processing" (`README.md:3`): without `from_slot`, which is the
   default, the updates between two sessions are lost. No run is kept for it: with
   `FromSlot = NoSlot` TLC refutes `EventuallyPublished` in `Gateway.cfg`.
5. "backend should recover after successful health check"
   (`edge-go/cmd/edge/main_test.go:325`): not if a forward fails between the two
   halves of `setHealth`; the backend is then out of rotation with its circuit
   closed, no failures and no error, until the next probe. No run is kept for it:
   with the bounds of `edge` TLC refutes `NoUnexplainedOutage`.
6. "Dependency unavailable", 503 (`api-go/cmd/api/openapi.yaml:123`, `:184`): the
   listings answer 500 when Postgres is down, and 200 with the rows so far when it
   goes down while they are read; their 503 needs a `Server` without a pool, which
   `main` never makes. Read off `QueryFails` and `Listed`.

## Not modelled, and the plan

Done: decoder, delivery, gateway, edge, both limiters, key cache and authenticator,
handlers, replay command and forwarding, with the proofs of their safety properties.

Next, in this order:

1. `Pipeline`: `Gateway` composed with `Delivery` and the merge of rows by
   `event_id`; abstract specification: each transaction in the table exactly once,
   up to findings 1, 3 and 4.
2. The scan of the edge's pool one backend at a time. `Edge` takes a scan as one step;
   the code may find no backend although one was available at every moment, or one
   that has just tripped, which the next forward finds out.

Not modelled:

- Reading the environment and starting listeners: sequential code before anything
  runs; the models take the settings that pass its checks as constants.
- Header rewriting, addresses of clients, dashboards, `/healthz`, `/metrics` and
  `/openapi.yaml` of the API, `/healthz` and `/__edge/backends` of the edge: they
  compute an answer from constants or from state that is modelled, and change
  nothing.
- The stdin source of the gateway: a sequential loop that ends at the first error.
- What becomes of a queued replay job: nothing in the repository takes it.
- The merge of rows with one `event_id` in ClickHouse: the services only insert.
- Infrastructure, load tests and documents, which are not part of the program.

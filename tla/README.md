# Formal models of the Niadra Python SDK

The SDK (`src/src/niadra`) connects an agent's code to Niadra's memory API. Most of it builds
requests and parses answers. What is hard to get right is the rest: queues with background senders,
a cache whose entries are shared by calls and background refreshes, copies of remote state that
must stay usable while the API is out of reach, a worker with leases, and the evaluator of a small
expression language. This project models those parts in TLA+, checks them with TLC, and proves with
TLAPS the safety of the event queue and that it implements what `track()` promises, and the central safety
properties of the context reads, the agent's working state, the turn queue, the voice line, the write outbox,
effect keys, the suppression list, the resolvers' times and the transport's budgets.

Paths below are relative to `src/src/niadra/`; `niadra_mock/` is the repository's emulator of the
API, which the models take for the API's behaviour.

## Inventory

| Part | State it keeps | Operations | Hard behaviour |
|---|---|---|---|
| Event queue, `_queue.py` | a bounded FIFO, drop counters, heartbeat counters, a send lock, a pause | `put` (from `track()`), `requeue`, `take`, `flush`, `stop`, the background loop | a failed batch put back while new items arrive; `flush()` against the sender; cancellation; a full queue; late landings |
| Context cache, `_cache.py` | packs by key with age and waiting deltas, an epoch per scope, refresh claims | `get`, `absorb`, `fallback`, `purge_scope`, `drop_on_auth_error`, `begin/end_refresh` | answers folded in any order; purges while reads are under way |
| Reads of the client, `_client.py`, `_base.py` | the refresh pool | `_pinned_context`, `_turn_context`, `_refresh`, `_send_now` (verify), `_forget_scope` | a refresh crossing `verify()` or `end()` |
| Session, `conversation.py` | the level asked for, the etag and the deltas kept | `context`, `verify`, `end` | deltas kept against the right pack |
| Agent state, `agent_state.py` | a copy per scope and agent, pending counts, conflicts | `get`, `put` (merge or compare-and-swap), `later`, `_resent` | direct and deferred writes in different order; guessed versions |
| Outbox, `_outbox.py` | a bounded FIFO of writes | `put`, the sender, `_settle` with its callback | resending what already landed; overflow |
| Transport, `_transport.py`, `_warm.py` | connection pool, retry state, warmth | `request` with up to three attempts in one budget, `begin`/`end`/`answered` of the warmth, `_reconnect`, `close` | 421, 429, attempts that hang and hold threads, an outage, closing while requests run |
| Turn recording, `turns/` | frames by context variable, a queue bounded by bytes and count, a sender | capture, `submit`, `requeue`, `take`, `flush`, refusals by content mode | order after a partial failure, shedding values, switching recording off |
| Voice reads, `_voice.py` | a line per call: reads in flight, the newest partial | speculative and final reads, prefetch | which answer belongs to which turn; lines dropped while reads run |
| Suppression list, `coordination/suppression.py` | entries with salt and cursor, when they were read, who reads | refresh by pages, `may_contact` | a list half re-read, fail-open and fail-closed purposes, several readers |
| Effects, `coordination/client.py` | attempts by key; Niadra's state of the key | `check`, `declare.effect`, `decided`, `failed` | declarations that come late or twice, a check whose answer was lost |
| Resolvers, `resolvers.py`, `cli/worker.py` | a circuit breaker and a rate by type, a pool of threads, leases | `fetch`, `verify_claim`, the worker's page of requests | leases that end while the worker waits, hung resolvers, several workers |
| State expressions, `state/expr.py`, `state/logic.py` | none: a function of text, declarations and slots | parse, compile, evaluate | values unobserved, absent or known to be wrong, through every operator; what compiling promises about evaluating |
| Async client, `_async_client.py` | as the sync client | the same, with awaits | cancellation at awaits |
| Contact tokens, replay, claims, constraints, backing, tools, admin, integrations, other commands | none shared, or the user's | computation over data and request building | tested against vectors; few interleavings |

The parts interact so: `conversation.py` calls the client; `track()` and every item of a conversation go
through the event queue, which alone talks to `/v1/batch` in the background, while `verify()` and
`identify()` go at once and join the queue only when they fail. `context()` goes through the cache;
`verify()` and `end()` purge it, and with it the reads of a voice line. `agent_state` talks
to the API directly and hands to the outbox what could not be sent; `declare.effect()` always goes through
it. A `check()` that gets no answer decides by the local copy of the suppression list. Closed turns have a queue and a sender of their own. The worker and `verify_claim()`
share the resolvers. The transport is below all of them.

What makes each part correct:

- event queue: nothing is lost uncounted, nothing twice, nothing overtakes; a `flush()` that says
  True means it; everything settles in the end;
- context reads: a change is told once; a purge holds against what was under way; the level proved
  is the level read; what the conversation shows beside a pack belongs to that pack;
- agent state: the copy follows Niadra's versions, keeps the code's own writes, never silently
  overwrites other agents, and what was deferred settles as long as its sender is awake;
- turns: each closed turn is in one place, or counted, but for two losses; refusals by mode and size do not send it round for ever;
- voice line: a turn gets slots of what it says, of after the last `verify()`; one speculative read at a time;
- suppression list: a copy read in full is the list, and what it forbids stays forbidden while reads fail;
- outbox: writes settle once and in order, whichever of thread and callers sends them;
- effects: what may have gone out does not go out again;
- transport: no call outlasts its budget, the allowance for a cold connection is given once an outage and once more for each renewed
  client, every call comes back;
- resolvers: `verify_claim()` keeps to its time, a request whose slot fits its lease is served;
- expressions: the parser reads what was written, compiling agrees with evaluating, unknown is never false.

`PROJECT.json` lists under "hazards" the places in the code where each of these can go wrong.

## Modules

| Module | What it is |
|---|---|
| `Delivery` | what `track()` promises, without queues or requests: items reach memory once and leave no gap |
| `EventQueue` | the queue, both flushers, user cancellation, and the batch API |
| `ContextReads` | cache, reads, refreshes, session, and the API that pins packs |
| `AgentState` | working state: copy, outbox, and the API that stores it |
| `TurnQueue` | closed turns: queue, sender, counters of the recorder, and what the API refuses |
| `VoiceLine` | a voice line: partials, speculation, turns, `verify()` and `end()` crossing its reads |
| `Suppressions` | the copy of the opt-out list, its reader, and the checks that use it |
| `Outbox` | the write outbox of both clients: thread or task, `flush()`, `stop()` |
| `Effects` | one effect key between sessions, their outboxes and Niadra |
| `ExprSyntax`, `Expressions` | the expression language: text and tree; compiler and evaluator |
| `Resolvers` | breakers, rates, pool, `verify_claim()` and the worker with its leases |
| `Transport` | attempts under budgets, their threads, the guess of an open connection, reconnect and close |
| `EventQueueProofs`, `AgentStateProofs`, `TurnQueueProofs`, `VoiceLineProofs`, `OutboxProofs`, `TransportProofs` | theorems on the module they are named for, and their proofs |
| `ReadsProofs` | theorems on `ContextReads` and `Resolvers`, the two ways a value is read |
| `CoordinationProofs` | theorems on `Effects` and `Suppressions`, what may be sent and to whom |
| `MC...` | the instance that TLC checks, where constants are more than a `.cfg` can say; the other modules get theirs in the `.cfg` alone |

`Suppressions` and `Resolvers` prefix the names of their specification (`ListInit`, `ListNext`, `ListSpec`, `ResolversSpec`, ...)
and share none with `Effects` and `ContextReads`, so one proof module can extend both.

### EventQueue

An item is the number of its `put()`, so order is visible and a drop can be attributed. `items` is the
deque, `held[s]` the local `batch` of `_send_one` in sender `s`, `holder` the send lock (sync) or
gate (async), `pc[s]` where a sender stands: waiting for the lock, looking at the queue, preparing
the batch, waiting for the API, answered. `Put`, `Requeue`, `Take`, `Drop` are the methods of
`EventBuffer`. `Take` then `Post` or `PostWithBeat` is `_prepare`; `Answered`, `Rejected` and `Failed` are
the outcomes of the request with `_settle` and `_report`; `CancelFlush`, `StopTask` and
`Interrupt` are what asyncio cancellation and Ctrl-C do. The constant `Async` chooses the flusher.
The API is `landed` and `beatsIn`; `claimed` (history) adds up what the counters of heartbeats said; a request the client gave up on is in `late` and may land at any
later time. `stop()` is `CallStop` and then a flush; in the async flusher it ends in `StopTask`.

Clocks are abstracted: `elapsed` says that `interval` or `turn_interval` passed for what waits, and
`paused` that a failure holds the sender back. When exactly the background thread wakes is not
modelled (it wakes at some time once a batch is due), nor are `notify()` and the sleeping time.

Two points follow from how the API recognises items: an item is applied once however often it is
sent, and an item counted as dropped may still have landed (a late attempt). `Delivery` therefore
lets `memory` and `givenUp` overlap.

### ContextReads

One conversation, its cache with one key per level asked for, threads in `Callers`, and one
possible background refresh per key. A read is three steps: the call looks at the cache and asks
(`FromCache` ends it there), the API answers (`Answer`, `AnswerDegraded`), and the answer is
absorbed (`Absorbs`, `TakesLastGood`, `TakesAsItIs`) or the call fails (`Fails`, `Denied`). A refresh has one
more: it is queued by the call that found a stale pack, and takes its epoch when its worker starts
(`StartRefresh`). `Verify` purges, `Prove` is the assertion arriving, `Verified` the
acknowledgement; `VerifyFails` leaves the assertion to the event queue, from which it arrives later
(`ProveLater`). The API pins one pack per key and proved level, and remembers in `mark` what it
already told.

Levels are two. A change is a turn of another conversation, told in a delta. The `turn` and
`query` texts, slots, `include` blocks and formats are left out, as is `delta=` given by hand. The
cached entry's age is a value that moves from fresh to dead at any time. The fields `since`, `background`,
`handed`, `forgone`, `told`, `acked`, `created` and `result` are history for the properties.

### AgentState

One state, of one scope and agent, whose code uses it from one thread and owns one field; a
sub-agent, by `Other`, owns the other. A merge names the code's field; a compare-and-swap rewrites
the state last read. `get()` and `put()` are a call, an answer of the API, and the handling of
that answer or of its failure (`GetFails`, `PutFails`, which is `later()`). The outbox sends the oldest
write (`Send`), and settles it in two steps, as the code does: out of the queue under its lock (`Settle`),
then its callback (`Settled`, which is `_resent`). `SendFails` after the API answered is a lost
answer. `sender` says whether the outbox's thread or task is awake: `WakeSender` is what a `put()` does to it, which is nothing
after `stop()` or outside of a loop, and `Doze` puts it to sleep with writes waiting, as `stop()` does and a
`flush()` that failed can (`Outbox` says how; its `OutboxStalls` is the finding). `flush()` sends at any time, so `Send` is possible of a
sleeping one. `whole` is history: the copy has counted every write that waits. It ends when an older write is refused, which
removes the copy, and when a stored `put()` resets the count while writes wait, and begins again with an empty outbox.
A direct request that failed before it landed never lands later in this model. Replayed
turns and fields removed with `{"$delete": true}` are left out.

### TurnQueue

A turn is the number of its `submit()`. `turns` is the queue, `hand` what the sender took, of which
the first `inFlight` are the request under way; `shed` are the turns whose values were dropped for
room, `digests` those whose record was built with digests only, `tally` the recorder's counters. `Submit` is
`put` with `MakeRoom`; `Take`, `Refresh`, `Build`, `Accepted`, `NotRecorded` (404), `TooLarge` (413), `Fails`,
`RequeueRest` and `Cancelled` are the path of `_send_next` and `settle()`: refresh of the profile, requests made of the
batch, their outcomes in order, what goes back. Content modes are `hashOnly` and `refused`: a turn
the API refuses with values leaves with digests only. `Unread` is an answer that does not parse, which lets go of the
batch. `wakes` says that the background sender will look at the queue again: `Submit` may leave it as it is, since
`notify()` outside of the sender's loop returns without waking anybody, and `Doze` ends it when nothing
waits. `entered` (turns let into the queue) and `missed` (turns of batches that left uncounted, `Cancelled` while the profile was read or
`Unread`) are history: no counter of the code holds them.

Left out: a `KeyboardInterrupt` in the sync sender's `flush()` (the event queue has that case). A batch is
cut into requests by bytes in the code, and anywhere here.

### VoiceLine

One line of one conversation. `read` are all the reads started, `reads` the last of them the line
remembers, `speculating`, `waiting`, `heard` and `settling` are the fields of the line; `turn` is
the call of the agent, in the steps where the code gives up the lock: `StartTurn`, `Opened`, `Choose`,
`TurnDone`. `Hear`, `Settle` and `Speculate` are the partial transcripts and the two tasks behind
them; `Answered` and `Finish` the end of a read, the storing of its pack under the epoch it began
with, and the release of the speculation. `Purge`, `ForgetReads` and `DropLine` are `_forget_scope` in
its order, for `verify()` and for `end()`. A text is an utterance and a number of words, since `covers()` compares
words. `from`, `purged` and `cleared` are history.

Left out: more than one line and the eviction past `MAX_LINES`, what `compose()` makes of the slots,
and the probe of the round trip. The server's own prefetch has no effect on this state.

### Suppressions

The list is a log of changes that pages with cursors give out; a new log makes older cursors
answer with `reset`, a new salt makes the copy start again, and a space may have no list (404). One reader at a
time holds the cursor, so a round trip and its effect are one step: `TakeSalt`, `ApplyPage`, `NoList`,
`Fails`. A check (`MayContact`, `WaitEnds`, `After`, `Answer`) reads, waits for another's reading, or answers from the copy
and lets somebody read later, as `may_contact` does. An entry stands for the contact it forbids, that is a destination, purpose
and channel at an hour inside its window: matching is computation. The list and its pages are external.

One case is excluded from `CopyInStep`. A list that goes away (404) and comes back is read on from
the old cursor: `failed()` empties the copy and keeps cursor and salt. What stood before that
cursor is then missing until the log or the salt changes. Hence `gone = 0`.

### Outbox

A write is the number of its `put()`; `writes` the queue, `attempt[a]` what the thread (or the
task) and each caller of `flush()` is sending, `settled` the order in which writes settled.
`Top`, `Look`, `Woken` and `Enter` are the loop of the sender, where `timed` says whether it sleeps with a
timeout; `Acquire`, `TooLate`, `Deadline`, `Attempt`, `Settle`, `Fails` are `_send_all` and `flush()`. `async`
chooses the class; `AsyncOutbox.put()` replaces its lock when it starts a task, which is `lock`
among two. Pacing is whether the pause has passed. An event loop other than the task's is left out.

### Effects

One key, several sessions. `held` is Niadra's state of the key, `owned` that somebody else owns
it (a claim, the one reason to defer kept here); `acts` are the attempts that went out, with how they
ended, `writes[s]` the declarations waiting in a session's outbox and `adrift` those given up on that may still come in.
`Ask`, `Decide`, `Answered`, `TimesOut` and `DecideLate` are a check and its loss; `Act` and `Declare` what the
documentation tells the caller to do; `Send`, `Land`, `GiveUp`, `LandLate` the outbox. Other reasons to
defer or deny (budgets, suppression) end a check without an act, as `owned` does.

### ExprSyntax and Expressions

An expression is a tree; `TextOf` writes it as tokens and `Parse` is the code's recursive descent
over tokens, with its limits. `KindOf` and `Compiled` are `compile_expression`, `Eval` the
evaluator: every operator and function, the logic of unobserved and defective values, `was()`, business days over a
calendar. A state of the run is one expression and one object, whose fields are observed one by one. Data are integers:
a number counts halves, a date days, an instant ticks; strings and digests are codes. A boolean field is unobserved or has a
reading: the repository's decoder never gives an absent one. So the characters
of tokens, the formats of dates and durations, and time zones beyond one offset are left out. The
operators were compared with `expr.py` on 39,766 states drawn from the run, without a difference.

### Resolvers

Two requests are about one object, one of them a watch, and a third is of another type; both types share the pool. In
`ResolversStarve` all are of one type. `queue` and `lease` are Niadra's; the worker is `at` a pause, a page, a sleep for the
rate, a fetch, or a release: `LeasePage`, `Skip`, `TakeSlot`, `Fetch`, `FetchOpen`, `Fetched`, `Release`, `Push`,
`EndPage`. `StartClaim`, `Asked` and `Read` are `verify_claim()` with its request and its one reading. `call` is what each
user has in the pool, `stuck` the threads that carry calls nobody waits for any more. Time is ticks that pass while
somebody sleeps or waits (`Tick`); what the worker computes, and its own short requests, take none. `aresolve()`
differs in its thread only and `register()` happens before; both are left out.

### Transport

A caller is one place that makes requests, one after another. `call[c]` is its request: how often
it was tried, what is `left` of its budget, the `timer` of its attempt or backoff; `attempt[c]` is the attempt, queued
for a thread, running on a connection of the current or a retired client, or hung. `Begin` and `Ends` are
`request()` with `Warmth.begin` and `end`; `Send`, `Answer`, `Fails`, `Overrun`, `Wakes`, `Reconnect` the loop `_attempts` with
`RetryState`; `Run` and `Cancel` are `_bounded`: the sync transport leaves an attempt it gave up on to its thread
(`stray`), the async one cancels it (`Async`). `open`, `inFlight` and `granted` are the fields of `Warmth`, with ages for
instants. `ClosePool` and `CloseClients` are `close()` in its order. Time is ticks that pass while everybody waits, so
a scheduler that keeps a runnable thread waiting is left out, as is the millisecond under which a
budget counts as spent. `Renewed`, the client replaced after a 421, clears `granted` as `forget()` does, and none of the history: `spent` is
the time since the first allowance after an answer, `windows` how often it was given anew since, `renewals` the clients
replaced since. Only an answer resets these. httpx keeps connections per client (`idle`); what it does with a connection and when the
edge closes one is external. `upload()` is the same loop without warmth and reconnect; the keep-warm ping is
left out. `took`, `spent`, `windows`, `renewals` and `leaked` are history.

## Runs

| Run | Checks | Bounds |
|---|---|---|
| `event_queue_async` | safety and refinement of the asyncio queue | 4 items, 1 heartbeat, 1 caller, 2 flushes, 1 fault, capacity 3, batches of 2 |
| `event_queue_live` | `EventuallySettled`, threaded queue | 3 items, 1 heartbeat, 1 flush, 1 fault, capacity 2 |
| `context_reads` | safety | 2 callers, 1 change, 4 reads, 1 fault, created at either level |
| `agent_state` | safety, action properties, settling | 3 puts in both modes, 1 get, 1 foreign write, 3 faults (1.0 million states) |
| `turn_queue` | account of turns, `flush()`, settling | 3 turns (one flagged, one the API refuses), 3 bytes, 2 turns, requests of 2, 1 flush, 2 faults (0.2 million states) |
| `voice_line` | purges, speculation, slots, settling | 1 utterance of 4 words with partials of 3 and 4, 2 reads remembered of 3 started, 1 turn, 2 partials, 1 fault, 1 `verify()` |
| `suppressions` | the copy, what it forbids, progress | 2 entries (one of a fail-open purpose), 2 threads, pages of 2, 2 pages a read, 2 changes, 1 turnover (log or salt), the list gone and back once, 1 fault, 1 aging |
| `outbox` | account, order, `flush()`, settling; both classes | 1 caller, 3 writes, capacity 2, 2 flushes, 2 faults |
| `effects` | safety | 2 sessions, 3 checks, 2 faults |
| `expressions` | parser, compiler, evaluator | `==`, `<`, `in`, `+`, `-` on all pairs of 21 operands, the other comparisons on pairs of 8, every function on every operand, conditions of two and three; 2 reports, 1 tick |
| `resolvers` | time of a claim, serving | 3 requests of 2 types, 1 claim, pool of 1, an interval of 2 ticks for one type, lease 2, budget 1, breaker at 2 failures, 1 fault |
| `transport` | budgets, the allowance, every call ends | 2 callers, one with reads, one with reads, voice reads and batches; 2 attempts (voice 1); budget, allowance, timeout and connect of 1 tick, keep-alive of 2, `Retry-After` up to 1; 1 thread, 1 fault, 1 `close()` |

Why these bounds are enough to meet the hard cases. Four items with a capacity of three fill the
queue while a batch is in flight, so `requeue` keeps some items and cuts others, and leave room for
another batch after a failure; two flushes overlap the background sender twice. Four reads are what
it takes to store a pack, find it stale, let a refresh bring a delta, and read twice more (1.8 million states).
Three puts are the fewest that show a direct write between deferred ones, and with three faults an older write is refused while a newer one
waits and a third is deferred. Three turns with room for two
make a put cut what a failed batch put back; two faults fail both halves of a batch. Two reads
remembered of three started make the line forget one that is under way. Two changes fill a page, so a read needs two round trips and the log, the salt
or a failure can come between them (0.7 million states). Three writes with room for two drop the one that is
being sent. Three checks let two sessions act on the same key and one of them ask again. A pool of one
thread is what a hung resolver, or a hung attempt, takes whole; with connect and budget of a tick each, a read lives by the
allowance or not at all (0.3 million states for `transport`). Two callers let one of them renew the client while the other's call waits with the allowance:
`OutageCostsOnce` is refuted there. In `resolvers` (0.6 million states) an interval as long as the lease makes the worker put a request off,
and a pool of one under two types makes a hung call of one type time out the other's: `EveryRequestSettles` and
`OpensForItsOwn` are both refuted with its constants. In `expressions` (0.7 million states) operands
are literals, names of every kind, lists, members and calls, and conditions nest in conditions.

The outbox inside `AgentState` holds as many writes as there are puts: an overflow drops a write without
calling its callback, which breaks `PendingBacked` (the copy then waits for ever). That is recorded
as a hazard, and overflow itself is checked in `outbox`.

Each type invariant stays in its module; all are proved but those of `Resolvers` and of the expressions, and all were
checked once with the bounds of their runs. `CHECK_DEADLOCK` is off everywhere: all actions are bounded, and a client that is stopped or idle stops.

### Fairness

Faults are bounded, so the API answers in the end, which is what the liveness properties are about;
user calls have no fairness.

- `EventQueue`: the background sender, its lock, its requests and the pause make progress: the thread
  loops for as long as the process lives and each request has a timeout. Nobody has to call `flush()`.
- `AgentState`: what anybody began to send ends, and the outbox's thread sends while it is awake. `EveryWriteSettles` excepts a run in
  which it sleeps for ever from some time on: stopped, outside of a loop, or after the `flush()` of `OutboxStalls`.
- `TurnQueue`: the sender's steps, taking what waits while the sender is awake or a `flush()` holds the lock, the end of a pause. `TurnsSettle`
  excepts `stop()` and a sender that sleeps for ever while turns wait, which the class documents for turns closed
  outside of its loop ("closed turns wait for `flush()`"). Without the second exception TLC refutes it.
- `VoiceLine`: reads are answered and finish (each request has a timeout), the settle timer fires and speculation tasks run.
- `Suppressions`: round trips end and a check's thread goes on. `CopyComes` supposes checks are asked again and again.
- `Outbox`: the thread's steps, a `flush()` and the end of a pause. Taking the lock is strongly fair: a
  caller may come back with `flush()` for ever, and the lock is free between its calls. The pause
  is at least a second, which the model takes to be longer than the way from a failure to the wait that uses it.
- `Resolvers`: time passes, the worker's process runs, claims come back. A resolver may hang for ever. `RequestsSettle` excepts a request
  that is put off again and again for a slot past its lease (`PutOff`).
- `Transport`: time passes, threads and tasks go on, `close()` ends once begun, and httpx ends a hung attempt without a budget
  (its phases have timeouts). A budgeted attempt may hang for ever, with its thread.

### What the passing runs show

- `NothingLost`, `OneInFlight`, `KeepsPromise`: the account of items balances at every step, across requeues
  into a full queue, refusals, cancellations and `stop()`; the whole queue implements `Delivery`, so a
  failed batch returns in front of what was queued meanwhile, and a `conversation.ended` is never visible before its turns.
- `FlushMeansAnswered`: True from `flush()` covers the batch the sender had in flight.
- `HeartbeatsHonest`: what the counters of heartbeats add up to, and the next one, never exceeds what the API received.
- `DeltaOnce`, `DeltaKept`, `RefreshHonoursPurge`, `VerifyIsSeen`: deltas are handed out once and are accounted
  for; refreshes respect the epoch; for a session created at the lowest level, the change of
  the cache key makes `verify()` visible to every later read.
- `CopyNeverGoesBack`, `PendingServed`, `PendingBacked`, `EveryWriteSettles`: the copy of a working state is
  monotonic; what it serves shows the newest write that waits, in whatever order answers come, until an older one is
  refused or a stored `put()` resets its count, and again once the outbox was empty. After either, a read may replace a write that still
  waits: `pending` counts from one again, and an older write's acknowledgement takes that away. Deferred writes settle while their sender is awake.
- `Accounted`, `FlushMeansSettled`, `TurnsSettle` (turns): a turn sent again, cut out of a full queue or refused
  in part is never counted twice; each is in the queue, in hand, in `sent` or in `dropped`, as long as no batch left in one of the two ways
  that nothing counts; `flush()` covers what another sender holds; nothing circles.
- `PackSincePurge`, `OneSpeculation`, `SlotsFit`, `SpeechSettles`: however late a read's answer comes, it
  brings no pack of before a purge, no slots of other words and no second speculation, and what was said is read in the end.
- `CopyInStep`, `OptOutHolds`, `CopyComes`: a finished read leaves the list as it is now, whatever changed
  between its pages; an opt-out keeps forbidding while reads of the same log fail; failures only delay.
- `Accounted`, `InOrder`, `FlushMeansSettled`, `WritesSettle` (outbox): thread and callers together settle each write once and in order.
- `NeverSentAgain`, `NiadraKnows`: lost checks and declarations make the key unavailable, never the effect double.
- `ReadsItsText`, `CompileSound`, `RefusesOnlyErrors`, `WasIsBefore`, `ObservingRefines`: the parser accepts a
  text as its tree and nothing with a token missing that reads otherwise; the compiler's kinds are what
  evaluation gives, and what it refuses would fail; observing more never turns a yes into a no.
- `ClaimInTime`, `RequestsSettle`: a request whose type has a resolver is settled unless it is put off for ever because its slots lie past its
  lease. Failures, hung resolvers of either type, an open circuit and the leases of other workers only delay it. `ClaimInTime` states the bound the code keeps: the budget, and with a cold
  connection the allowance for it (a second), which `CLAIM_BUDGET` does not mention.
- `InTime`, `OncePerOutage`, `EveryCallEnds`: whatever is retried, hangs, waits for a thread or is closed, a call with a budget
  returns within it; between two answers requests get the allowance in one window, and in one more for each client renewed meanwhile; a call whose attempt no thread takes
  ends by its timeout, and one that `close()` finds in the pool's queue ends there.

### Where the code and its documentation disagree

Each of these has a `.cfg` of its own, which `tlc -config <config>.cfg <module>` refutes, with the `MC` module where
there is one and the module itself otherwise. `PROJECT.json` quotes each sentence under "findings".

| Config | Property | What the counterexample shows |
|---|---|---|
| `EventQueueInterrupt` | `EveryLossCounted` | an interrupt in a threaded `flush()` loses the batch uncounted |
| `EventQueueBeatTwice` | `NeverDuplicated` | a heartbeat, which has no idempotency key, reaches the API twice |
| `ContextReadsVerify` | `NextReadSeesLevel` | created at the level it is about to prove, a session goes on reading the old level's pack: the purge comes before the assertion |
| `ContextReadsEnd` | `EndForgets` | a refresh that waits for its worker while `end()` purges takes the new epoch and stores its pack |
| `ContextReadsForgets` | `KeepsWhatItReceived` | one empty answer makes the session forget the deltas of a pack still pinned |
| `AgentStateResend` | `AppliedIsNoConflict` | a compare-and-swap whose answer was lost conflicts with itself |
| `AgentStateOwn` | `ReadYourWrites` | with deferred writes waiting, an acknowledged write may be missing from what `get()` serves |
| `AgentStateOthers` | `OthersNeverLose` | a compare-and-swap at a guessed version replaces another agent's write |
| `TurnQueueOrder` | `FailedBatchFirst` | when one request of several fails, younger turns go back in front of its own |
| `TurnQueueCancel` | `NothingVanishes` | an async `flush()` cancelled during the profile's refresh loses its turns uncounted |
| `VoiceLineEnd` | `NothingAfterEnd` | a read begun between the purge and the drop of the line stores its pack after `end()` |
| `VoiceLineWaits` | `WaitsBehindARead` | `verify()` leaves a waiting text that no read will take up |
| `OutboxStalls` | `SentInTheEnd` | a `flush()` that gives up leaves writes nobody wakes the thread for |
| `OutboxTwice` | `OnlyOnce` | an async `put()` replaces the lock a `flush()` holds, and both send the head |
| `SuppressionsLast` | `LastCopyKeepsApplying` | after a reset or a new salt the copy is empty and still counts as read, so a read that fails half-way lets an opt-out through |
| `EffectsResend` | `SentOnce` | a late `failed` of an older attempt frees a key a later one used, in the emulator |
| `ResolversStarve` | `EveryRequestSettles` | a skipped request takes a slot all the same: with 50 requests at 0.1 a second, 6 are read and 44 move the next slot 440 s on, every 60 s lease |
| `ResolversOpens` | `OpensForItsOwn` | calls queued behind another type's hung resolvers open the circuit of their own type |
| `TransportStarves` | `AnswersComeBack` | async reads that began in an outage never get the allowance again, are cancelled before they connect, and so go on failing when it is over, until some longer request or a batch brings an answer |
| `TransportFlush` | `FlushInTime` | the `Retry-After` of a 429 to a batch holds `flush()` and `close()` past their timeout |
| `TransportLeak` | `ClientsClosed` | a request answered 421 around `close()` opens a client that nobody closes |
| `Transport`, with this as its only invariant | `OutageCostsOnce` | a client renewed after a 421 forgets the allowance a waiting call already got: one outage costs it twice |

## Proofs

Each proof module proves its theorems for every value of the constants that satisfies the module's assumption, which
says that parameters have their types and that roles are distinct; bounds and capacities are any naturals.

### EventQueueProofs

For any number of callers, items, heartbeats and faults:

- `TypeCorrect`: `Spec => []TypeOK`, capacity included: a requeue never overfills the queue. `TypeOK` is
  inductive as it stands; the lemmas on `Requeue`, `Leave`, `GoOn` and `Apply` say what each helper does to the types.
- `OneAtATime`: `Spec => []OneInFlight`. Inductive with the type invariant: a sender enters the
  locked section only by `Acquire`, when the lock is free, and leaves it together with the lock.
- `NothingIsLost`: `Spec => []NothingLost`. The argument is an account: each action moves ids between the
  queue, the hands of senders, memory, the drop count and the interrupted ones, and no id leaves the
  union. It needs that `requeue` splits a batch into what it keeps and what it cuts
  (`RequeueSplits`), that the ids of a batch are its range (`SplitRange`), and a strengthening: a sender
  outside the locked section holds no batch, and a batch that was answered is in memory, without which `Answered` could release ids that never landed.

- `FlushAnswersForAll`: `Spec => []FlushMeansAnswered`. A `flush()` answers True only with the lock in its hands and an
  empty queue (`WhoAnswersTrue`), and then no sender holds a batch (`NothingInFlight`), so by the account every id
  offered before the call is in memory, counted or interrupted. Those three sets only grow (`UndoubtedGrows`).
- `ImplementsDelivery`: `Spec => KeepsPromise`, the refinement. `Delivery` reads memory and what was given up from
  `landed`, `lost` and `abandoned`; `StepKinds` sorts the actions by what they do to these, and all but three kinds
  stutter. What has to be proved is that a batch that lands leaves no gap: `Orderly` says that queue and hands are in rising order, what
  is in hand before what waits, that nothing is anywhere which was not offered, and that memory and every late batch are complete up to their
  items. `RequeueOrder` keeps the order when a failed batch goes back to the front, `LandOrder` the gap.
- `HeartbeatsAreHonest`: `Spec => []HeartbeatsHonest`. Counting needs that an id is in one place once (`Once`: queue and hands
  are injective and disjoint), that a heartbeat in a batch is not yet in memory (`FreshBeats`), and the stronger bound `Counted`: what was claimed
  is at most what landed and no longer waits, since a batch whose answer was lost has landed and will be counted when its retry is answered.

### ReadsProofs

Of `ContextReads`, for any callers, levels, changes, reads and faults:

- `TypeCorrect`: `Spec => []TypeOK`. `Base` adds `Rounds`: a request, its answer and its step belong together, which the types
  of what is absorbed follow from.
- `PurgeStands`: `Spec => []RefreshHonoursPurge`. A pack enters the cache by three ways (`StoredOrigin`), and a refresh, the
  one that may cross a purge, compares the epoch it began with (`PurgeHonoured`). `TypeOK` is all it needs.
- `DeltasOnce` and `DeltasKept`: `Spec => []DeltaOnce`, `Spec => []DeltaKept`. One invariant, `Track`, carries both: a change is in
  one place at most among the entries' waiting deltas and the answers under way, and in none once it was
  handed out (`OnePlace`); one beyond the API's mark is nowhere yet (`BeyondMark`); one that was told is handed out, forgone or in its place
  (`Followed`). `Settles` says what every action but the API's answer may do: move changes between places, hand them out or let them go.
  `SettleTrack` shows that this keeps `Track`, so each action is only shown to settle; `AnswerTrack` treats the answer, where new
  changes come from beyond the mark.
- `VerificationIsSeen`: `Spec => []VerifyIsSeen`. `Raised` follows the level: once `verify()` was acknowledged every request asks
  with the new key, and no answer, entry or session pack under that key is of the old level.

Of `Resolvers`, for any claimants, object types, rates, leases, budgets, pool and breaker, under the assumption that the
worker is none of the claimants:

- `ClaimsEndInTime`: `ResolversSpec => []ClaimInTime`. The bound alone says nothing of what a read may still take.
  `ClaimBounded` adds it: a claim that reads has a call in the pool, and what it took and what is left to the call are within the budget;
  the allowance may only be spent before, and then `Left` is nothing and there is no read. `Tick` waits while a
  call has no time left, so it never runs past the sum; the worker's steps leave claims alone (`WorkerLeavesClaims`).
- `LeasesCoverReads`: `ResolversSpec => AsksUnderLease`: the worker begins to read an object only under the lease of its request.
  `SleepInv`: while it sleeps for a slot, the time since it leased the page and what is left of the sleep are less than
  a lease; `TakeSlot` establishes it and a tick moves one to the other. The bound is tight: TLC finds a read in the last
  tick of a lease. (A read may end after it; the code gives it its budget, and what it read is pushed all the same.)

### AgentStateProofs

For any number of puts, gets, foreign writes and faults, any capacity of the outbox, both modes:

- `TypeCorrect`: `Spec => []TypeOK`. `Typed` names its parts; `Numbered` adds that no number, in memory, in the copy or on its
  way, is ahead of the calls of `put()`.
- `PendingWritesAreBacked`: `Spec => [](puts <= Capacity => PendingBacked)`. Without the bound it is false: an overflow drops
  a write and nobody tells the copy, which then waits for ever (a hazard in `PROJECT.json`). With it the outbox cannot overflow, since each
  `put()` leaves one write at most, when it ends (`Room`); and `Settle` takes a write out one step before `Settled` counts it off.
- `CopyMovesOn`: `Spec => CopyNeverGoesBack`, from `CopySteps`: four steps touch the copy, a read's answer only when it is
  no older and nothing is pending, a write's with a number that by `Numbered` is the highest.
- `NewestWriteServed`: `Spec => []PendingServed`. `Counted` is the strengthening (`WInv`): while the copy is `whole` it counts what is owed, that is the
  writes that wait and the callback to come, so a read cannot replace it. `GetDoneWhole`, `PutStoredWhole`
  and `EnqueueOwes` treat the steps that touch copy or count, `StillWhole` the rest. A refusal with writes waiting ends `whole`,
  and an empty outbox restores it. Neither theorem needs a bound, overflow included.

### TurnQueueProofs

For any number of turns, any flags, limits and faults:

- `TypeCorrect`: `Spec => []TypeOK`, both limits of the queue included. `RoomMade` proves of `_make_room` that a place where it
  may stop exists (the empty queue fits), that the least one is found (`MinIn`), and so that what is left fits; `BytesOfRest` that taking a
  batch makes a queue no heavier, by an injection of the places left into the places before.
- `EveryTurnAccounted`: `Spec => []Accounted`. The property does not carry from step to step; `Account` does: queue, hands, counters and the turns that
  left uncounted (`Lost`) add up to those let in. `Moves` says that a step shifts frames between queue, hands and counters and keeps
  their sum, and `MovesKeep` that this suffices. `BecomesEffect` shows it of a put or requeue that makes room, `Shares` of
  an answer that takes, refuses and sends back parts of a batch: the three parts are disjoint. `Stands` is the strengthening: no request is in
  flight but while waiting for the API, and an idle sender holds nothing.
- `FlushesSettle`: `Spec => []FlushMeansSettled`. A `flush()` says True when the queue is empty and the sender idle,
  which by `Stands` holds nothing; afterwards no step brings an old turn back, since `Moves` adds none to queue and hands.

### VoiceLineProofs

For any texts and any number of reads, turns and faults:

- `TypeCorrect`: `Spec => []TypeOK`. Inductive is `Typed`, which adds the shapes of the turn, of the reads the line no
  longer remembers and of the history. `StartEffect` says what starting a read does, `AddBounded` that the line keeps at most `MaxReads`.
- `PurgeHolds`: `Spec => []PackSincePurge`. The property alone is not inductive: an old read could still answer.
  `PackInv` adds that every read started before the last purge has an epoch below the present one,
  which stays so because epochs only grow and a read never changes its own (`EpochsKept`); `Store` compares them.
- `OneAtATime`: `Spec => []OneSpeculation`. `SpeculationInv` says more: the one speculative read not done since the
  reads were last forgotten is the one `speculating` names, so no other starts and only its end clears the name.
- `SlotsAreTheTurns`: `Spec => SlotsFit`. `SlotsInv` says that every read the line remembers was started after the last
  forgetting (`AddKeeps`, `StartSince`), and that every candidate of a turn answers its words and is younger than the
  forgetting before the turn; a read never changes its words. Nothing bounds `min_coverage`: above 1 a text does not cover
  itself, and a turn's own read answers it all the same, hence the two cases of `Fits`.

### OutboxProofs

For any number of callers, writes, flushes and faults and any capacity, both classes:

- `TypeCorrect`: `Spec => []TypeOK`, from `Typed`: flags, shapes, and `Locked`, which says who holds which lock
  at which step. `KeptIsBounded` and the lemmas on append and tail keep the queue in order and within capacity.
- `AllAccounted`: `Spec => []Accounted`. `PutEffect` and `SettleEffect` show what the two actions that move
  writes do; the rest move none (`OthersKeep`).
- `FlushHolds`: `Spec => []FlushMeansSettled`. A `flush()` answers True when it holds the lock and the queue is empty,
  and then, by `AllAccounted`, every write so far has settled or was dropped, and stays so.
- `SettledInOrder`: `Spec => []InOrder`. `Ordered` adds that what has settled comes before what is being
  sent, and that before what waits; while the lock is not `shared`, `OneSender` says that one actor sends.

### CoordinationProofs

Of `Effects`, for any number of sessions, checks and faults:

- `TypeCorrect`: `Spec => []TypeOK`, from `Typed`, which has functions where `TypeOK` has quantifiers and adds that
  only an act that ended is declared (`Ended`).
- `NothingTwice`: `Spec => []NeverSentAgain`. One act at a time is not inductive: a session may hold an attempt it has
  not acted on. `Attempts` says of a history without a stale declaration that one session at most holds an attempt,
  that acts have rising attempts, and that an attempt held or out is the one Niadra holds the key for. A check
  reserves a free key, which by this nobody holds (`ReserveAnew`); a declaration that is not stale is of the last act (`DeclaredInTime`).
- `WhatNiadraKnows`: `Spec => []NiadraKnows`. Until Niadra was told how the last act went, some session is at it or has its
  declaration in an outbox (`KnownInv`); nobody else frees the key meanwhile.

Both suppose `~stale`; the finding `EffectsResend` shows that the code does not ensure it.

Of `Suppressions`, for any threads, entries, sizes of pages, changes and faults:

- `ListTypeCorrect`: `ListSpec => []ListTypeOK`. `ListTyped` says more of the copy: it holds entries under its own salt only, and a
  cursor only with a salt.
- `CopyIsTheList`: `ListSpec => CopyInStep`. A read may stop at any page and another goes on from its cursor, so the property of a whole
  read needs one of every page. `Made(q, e)` says what a log `q` comes to for an entry, which is its last change; `CopyFollows` that
  as long as the list never went away the copy is what the log comes to up to the cursor. A page adds the log's next
  part (`PageAdds`), changes at the log's end leave the part before the cursor (`PrefixStays`), and a new log or salt takes the
  cursor with it. A page that is not full ends at the log's end, where `Made` is `InForce` (`MadeIsInForce`).
- `OptOutsForbid`: `ListSpec => OptOutHolds`. `SureHolds` relates the history to the copy: as long as the log is the one
  that was read in full, an opt-out of that copy still in force is in the copy, also in the middle of a later read, and no change beyond the
  cursor is about it, so no page to come takes it out.

### TransportProofs

For any callers, requests, budgets, timeouts, backoffs, threads and faults, both transports:

- `TypeCorrect`: `Spec => []TypeOK`, which says besides the shapes that `inFlight` of `Warmth` is the number of requests with a budget that have
  not come back: one counted twice, or never counted off, would make every later request look cold, or none. `Linked` ties a call
  to its attempt: an attempt is queued only for a request with a budget, none is left over when a call
  begins anew, and a call that goes on has a try left. By it the calls that `close()` ends are all counted ones
  (`ClosePoolWhole`). The set counted stays finite, one call at a time, so nothing is assumed of the number of callers.
- `InTimeAlways`: `Spec => []InTime`. The strengthening is an account of time (`AllOnTime`): what a request took and what is
  left to it is its budget and its allowance, and its timer ends no later than what is left, so `Tick`, which waits for
  no timer that is up, never runs past the end. `AgainEffect` shows that a retry sets no timer beyond the deadline,
  `EndsEffect` that an ended call leaves nothing behind; `SendKeeps` that an attempt gets at most what is left.
- `AnOutageCostsOnce`: `Spec => []OncePerOutage`. `Costs` counts the windows of an outage and, while `MayCost`, the one that may still come: together
  they are at most one and one for each renewed client. `MayCost` says that calls could get the allowance although it was spent, because the code
  has no `_granted` or one younger than the first allowance. `BeginKeeps` shows that a call which opens a window uses up that one, `WarmthKept`
  that only an answer or a new client allows another.

### Only model-checked

- All the liveness properties, `Fairness` and `ENABLED` being out of the prover's reach.
- The expressions: parser, compiler and evaluator recurse over trees, by operators the prover does not take and
  facts that need induction over them.
- The type invariant of `Resolvers`: a page is sorted by `SortSeq`, and that this permutes it needs induction over its
  length. No run lists it as a property; the theorems on `Resolvers` do not need it.

## Not modelled

- Contact tokens: signing, checking and normal forms are computation; the seen tokens are one dictionary under one lock.
- The keep-warm ping and the parsing of headers. The other modules take the transport's outcomes (answered, refused, failed,
  landed after it was given up on) as choices; `Transport` itself is checked alone, since a composition with the
  queues would multiply its states without new order among theirs.
- Cancellation of the async client's reads, checks and voice path. Its other interleavings, at
  awaits, are among those of the threads.
- Capture of turns: frames belong to one turn of one task.
- Replay, claims, constraints and backing: sequential computation over data and texts, tested against shared vectors.
- Commands other than the worker, tools, agent memory, administration, integrations, models and options: they build and parse requests.

Further work that would pay: cancellation at the awaits of the async reads.

# Freebuff gateway: specifications and proofs

This directory holds TLA+ specifications of the Rust gateway in `src/` of the
repository (`src/src/*.rs` as the paths are written in `PROJECT.json`) and of
the two programs around it that start it and feed it, the desktop shell and the
browser extension; the configurations under which TLC checks them; and proofs
that TLAPS checks. The gateway takes OpenAI and Claude chat requests, picks one
of several upstream accounts for each, opens a session and a run for it
upstream, or goes over the web protocol with a cookie, relays the answer, and
looks after the accounts, the sessions and the files meanwhile. It is one tokio
process: handlers, streams and background loops interleave at every await, share
state behind mutexes, and lose their client at any time.

The modules follow the code: state as in the structs, an action for each
critical section or await, guards from the conditions and early returns. Line
by line the correspondence is in the `map` of `PROJECT.json`.

## 1. Inventory

| Component | Source | State | Operations | Modelled in |
|---|---|---|---|---|
| Account pool, circuit breaker | `pool.rs` | accounts in order; score; breaker: state, failures, successes, deadline, probing flag, trips | `pick_best`, `mark_success/failure/cooldown`, `update_score`, `add_account`, `remove_account` | `CircuitBreaker`, `AccountPool`, `AccountHealth` |
| Concurrency limiter | `semaphore.rs` | two tokio semaphores a tier, the guards in use | `acquire`, drop of `TierGuard` | `TieredSemaphore`, `ConcurrencyGate` |
| Chat request life cycle | `api.rs` 2620-3390, 3405-4093 | locals of the handler and of the stream task | acquire, retry loop, session, run, chat, reports, stream, rows | `Gateway` |
| Session of an account | `session.rs` | status, instance id, expiry, poll-after | `ensure_session`, `absorb`, `is_active`, `instance_id`, keep-alive loop | `Session` |
| Web thread bindings | `web_threads.rs` | table in memory; `web_threads.json`, temporary file | `bind`, `clear`, prune, `atomic_write`, load | `WebThreads` |
| Clean-up of upstream threads | `api.rs` 4675-4900 | `threads.json`; threads upstream | `record_thread`, `sweep_threads`, hourly loop, operator's request | `ThreadSweep` |
| Web bridge | `api.rs` 983-1330 | which thread a turn goes on in, its permit, its stream | decide, acquire, turn, bind or clear, record | `WebBridge` |
| Direct web chat | `api.rs` 687-960 (`handle_web_chat`) | the stream it relays | stream, record | no, see section 6 |
| Tokens | `import.rs`, `export.rs`, `web_pool.rs`, `api.rs` 459-511, 1759-2020 | `tokens.json`, which credentials are in the two pools | import, list (dates old ones), delete, import of a backup | `CredentialStore` |
| Desktop shell | `desktop/main.js` | the child process, ready and quitting flags, timers | start, probe, restart, check, quit | `DesktopShell` |
| Browser extension | `browser-extension/background.js` | the running flow, the port and key named for it | click, message of a panel, read cookie, wait for login, post | `ExtensionImport` |
| Web cookie pool | `web_pool.rs` | cookies, breakers, scores | `pick`, `mark_*` | members in `CredentialStore`; breakers as in `CircuitBreaker` |
| Configuration, API keys | `config.rs`, `api.rs` 2262-2480 | `config.json` | read, change, write | planned |
| Log bus | `logbus.rs` | ring, next id, subscribers | emit, replay after an id | planned |
| Telemetry | `telemetry.rs` | bounded queue, counters of drops | offer, flush, shut down | planned; `Gateway` counts what is handed over |
| Usage table | `usage.rs` | one SQLite table | insert, aggregate | rows are counted in `Gateway` |
| Memory | `memory.rs` | versions of memories | observe, supersede, delete | planned |
| Account metadata | `account_meta.rs` | table, history file | touch, flush, compact | no: the write pattern of `WebThreads` |
| Retry, errors, models, router | `retry.rs`, `errors.rs`, `models.rs`, `router.rs` | none that changes | delay, classification, resolve, fall back | no: pure functions, any result is allowed where they are used |
| Stream encoders | `protocol/*.rs` | position in the event stream | OpenAI to Claude events and back | no: sequential conversions |
| Skills store | `skills/*.rs` | directories | install, enable, remove | no |
| Cloudflare worker | `cfworker/worker.js` | none | one request, sequential | no, see section 5 |
| Upstream and web clients, advertisements, panel, prompts, redaction, MCP, extension bridge, start-up, login window, Go predecessor, reference material | see `PROJECT.json` | - | network, text, packaging, superseded | no: no state of their own, or not part of this program |

How they interact. A chat handler asks the pool which tier it is in, waits for
a guard of the limiter, and then up to three times: picks an account from the
pool, calls `ensure_session` on that account's session, starts a run, sends the
chat, and reports every verdict back to the pool by the account's *name*, one
mutex acquisition per report. A streamed answer is relayed by a task of its own
that takes the guard with it. Token handlers change `tokens.json` and then the
pools, at any time. When no account of the pool is usable but a cookie is, the
handler takes the web bridge: it decides which thread to go on in, takes a guard
of the same limiter, and a task relays the stream, binds the credential in
`web_threads.json` and records the thread in `threads.json`; a sweep deletes
threads upstream and strikes them off. The desktop shell runs the gateway as a
child and probes it over HTTP; the browser extension posts the login cookie to
`/api/tokens/import`, which is the import of `CredentialStore`.

What is hard, and what must hold:

- *Pool*: requests report long after they picked, and in any order. A resting
  account must not be picked, a rest not be shortened, the parts of a breaker
  must agree, a token must not be in the pool twice.
- *Limiter*: an acquire has three awaits and may time out or be dropped at any
  of them. No permit may be lost or made, no acquire may hang, no more than the
  limit may be inside.
- *Life cycle*: a loop with ten ways out and a stream that outlives the
  handler. The guard must cover the stream; a failure must be blamed before
  anything else happens; a request must leave one row, not two; it must end.
- *Session*: the mutex is free during the network call, and between the answer
  and the two looks after it. An id that was dropped as expired must not be
  returned, and calls must not keep each other from ending.
- *Files*: writes outside the lock, a shared temporary file, failing disks,
  restarts. A file must be whole and hold what was acknowledged.
- *Sweep*: a list read without the lock, minutes of network, a second sweep and
  new turns meanwhile. No thread may be forgotten while it lives upstream.
- *Web bridge*: the thread is chosen before the wait for the permit and used
  after it, and bound when the stream is over, by a task the client may have
  left. Credentials must not mix, the permit must cover the stream and come back,
  a thread that was opened must be listed, one that is gone must be given up.
- *Tokens*: file and pools change one after the other; readers write too, and
  any read or write may fail. What another request did must not be undone, and an
  answer must be true.
- *Desktop shell*: exits, timers, probes and a quit in any order. There must be
  one gateway, a restart after each crash, and a quit must reach what runs.
- *Browser extension*: one flow, many who ask. The cookie must go where it was
  last said to go, with the key last named and nothing of an earlier flow,
  everybody must be answered, and no flow may block the next.

## 2. The modules

`EXTENDS` goes downwards; `INSTANCE` is marked.

    AccountHealth     <--- implemented by ---  AccountPool --- CircuitBreaker
    ConcurrencyGate   <--- implemented by ---  TieredSemaphore
    Gateway           INSTANCE AccountPool, INSTANCE ConcurrencyGate
    WebBridge         INSTANCE ConcurrencyGate
    Session, WebThreads, ThreadSweep, CredentialStore,
    DesktopShell, ExtensionImport              on their own
    XxxMC             a small instance of Xxx
    XxxProofs         theorems about Xxx
    CredentialProofs  theorems about CredentialStore and ExtensionImport
    ThreadProofs      theorems about ThreadSweep and WebThreads

The last two extend two components each, which is why the definitions of
`ExtensionImport` and `WebThreads` that would clash carry a prefix (`EISpec`,
`WTTypeOK`, ...).

**CircuitBreaker, AccountPool.** A breaker is a record, each method of
`CircuitBreaker` an operator on it. `open_until` is kept as the ticks left,
counters stop at the value they are last compared with. An action of
`AccountPool` is one critical section of the pool's mutex. `grant` is the
account a request holds since its pick: reports go to the first entry with the
*name* of that account, as in the code, so that they may hit another entry or
none. `PickBest` asks *every* entry, and each one that says yes goes through the
effect of `allow`: the code does so (section 5). Not modelled:
`snapshot` (reads only), the seconds behind a tick.

**AccountHealth.** The promise: an account that is listed serves, rests or is on
trial; a rest never gets shorter but by the clock; from rest to service there is a
trial, and no trial before the rest is over. Only `Remove` and `Add`, which change
`listed`, clear a record; in the refinement `listed` are the members of the pool, so
that no report can pass for them.

**TieredSemaphore.** Each tier has two tokio semaphores, modelled as a number of
free permits and a FIFO queue; a permit given back goes to the head of the
queue, which finds it when it next runs. `acquire` is `AskSlots`, `AskMulti`,
`GetGuard`, with `Busy` and `Abandon` (the future is dropped) as other ends.
Dropping the two permits of a guard is two steps, slot first, as is giving up
the second wait with the slot in hand. `waited` is a history variable.

**ConcurrencyGate.** The promise: at most `Limit` guards of a tier at once. It
is the interface `Gateway` and `WebBridge` use.

**Gateway.** One action per await of `handle_chat_completions` and
`handle_claude_messages`, which share a loop and differ in three places, marked
by `Handler`: only the OpenAI path reports a success and finishes its run, only
it turns a body with an error code into 502, and only the Claude path writes a
usage row after a stream that broke off. `stage` is the await the handler is
at; `todo` the reports it has still to make, one critical section each, and
`next` where it goes on then; `owed` (history) the verdict it has and the pool
has not. `Disconnect` drops the handler's future at any await before the answer.
The three points at which an attempt fails are `SessionFails`, `RunFails`,
`Refused`/`Unreachable`. `Refused` is free in whether the status is 401/403 and
whether the kind of the error is retryable: the kind goes by the text of the
body first, so that the two are independent.

**Session.** One session, any number of calls of `ensure_session`. Every look at
the session under its mutex is an action: the head of the loop has four
outcomes, then the answer is absorbed, then `is_active` and `instance_id` are
asked separately. `expires` and `pollAfter` are ticks left. `dropped` (history)
are the ids that were dropped as expired and not given out again. The keep-alive
loop only reads the session and is left out.

**WebThreads.** A caller changes the table and copies it in one step, then opens
and truncates the temporary file, fills it and renames it, each a step. Files are
kept apart from their names, so that a rename may take away the file another
caller is writing. Two copies written over each other may leave a whole table or
a mixture. `Restart` may come at any point; what cannot be parsed counts as
empty, a table that had to be pruned is written first. `result` (history) is what
the last call to end returned, and `overlap` (history) whether a call has run beside
another: Now while one of those runs, Past after that, and None again when a call
that ran alone has returned Ok. Callers overlap as they like; the two properties of
the file are stated for overlap None, because the code keeps them no further
(section 5). POSIX semantics; the
branch for Windows (remove, then rename) is not modelled, nor is a lock poisoned
by a panic.

**ThreadSweep.** `Begin` reads the list and decides what has expired,
`DeleteFound`/`DeleteFails` are the calls upstream (a lost answer is a failure
that may have deleted), `Merge` is the critical section that reads the list anew
and writes it. Turns are those of the bridge and of `/v1/web/chat`, which list
their thread in the same way. The cast of a negative number of hours to `u64` is modelled with
a smaller word. One web account owns all threads; writing `threads.json` is
atomic and does not fail.

**WebBridge.** A turn is `Decide` (cookie and thread), `Acquire` or `Busy`,
`Take` (the upstream has the request and may open a thread), `Answer` or `Fails`,
`Meta` (an event names the thread), `StreamEnds`, `Bind`, `Record`; `HangUp` drops
the handler before the stream begins, and later a client that is gone only ends
the stream. `Fails` is the error branch, which clears the binding of a turn that
went on, whatever is bound by then. `into` is decided before the permit and used
after it, as in the code. The upstream's side is `owner`, `live`, `said`; threads
vanish by a sweep (`ThreadSweep`) or on the web site. Any cookie may be picked;
the answer that is collected instead of streamed goes through the same steps.

**CredentialStore.** The file, the lock and the members of both pools. An import
is `Lock`, `Persist` and an `AddToPool` per credential; a deletion `Lock`, `RemoveFromFile`,
`TakeFromPool`; a listing `Read`, and when dates are missing `LockToHeal` and
`Heal`, which writes what was read before the lock; the import of a backup
`Replace`, with no lock, then the listing's steps and `Reload`. Reads and writes
fail: `Fails` is an import, a deletion or a backup's import that answers 500 with
nothing changed; `Replace` may end with 500 after the file is written, when
`config.json` cannot be (then nothing reloads the pool); `LoadFails` is a listing or
a reload that cannot read or date the file, which empties the pool of what the file
holds; a restart may find the file unreadable, too. A handler may be dropped at its
awaits, which are those of the pools only. `spoiled` (history) is what two requests
were about at once, and what one of these failures or a departed client left between
file and pools; the properties speak of the rest. Not modelled: credentials of
`config.json`, account metadata, the moment between remove and rename on Windows, and
the temporary file `tokens.json.tmp`, which the import of a backup
(`export.rs`) shares with the other writers without their lock.

**DesktopShell.** The callbacks of `main.js` one at a time; children, user and
system beside them. `proc` is what each process does, `mine` the children of the
shell that runs now; a child that outlives its shell keeps its port. The timers
of 2 s and 4 s are counters, `probe` an answer on its way. `log` tells a closed
log stream from one that was written to after that. Not modelled: the login
window, the windows, the updater, a quit before the tray is there.

**ExtensionImport.** One flow, cut at its awaits: `ReadCookie`, `LoginSeen` or
`LoginTimeout`, then a port at a time. `Refused` and `FetchTimeout` go on to the
next port, the latter with the request perhaps still on its way (`late`). A panel
is `Message`, then `Join` (it waits for the flow, for 3 s) or `JoinUnseen` (it is
told at once). `Evict` is the browser stopping the worker. Keys are values, and each
gateway asks for its own (`KeyOf`) or for none. `asked` (history) is the port and
the key named last for the flow that runs, each by itself, as in the code.

## 3. The runs

| Run | States | Shows |
|---|---|---|
| `account_pool` | 336,000 | `BreakerConsistent`, `RestIsHonoured`, and that the pool refines `AccountHealth`: while an account stays listed no rest is cut, and service comes only through a trial |
| `tiered_semaphore` | 58,000 | `PermitsConserved`, `BusyInTime`, refinement of `ConcurrencyGate`, and `EveryAcquireEnds` |
| `gateway` | 378,000 | `UpstreamWall`, `FailureIsReported`, `RowsOnce`, `EveryRequestEnds` |
| `session` | 285,000 | `DroppedStaysAway`, `EveryCallEnds` |
| `web_threads` | 1,398,000 | `OldestGoFirst`, and until calls overlap, and again from the first that then runs alone, `FileIsWhole`, `SavedWhenOk` |
| `thread_sweep` | 428,000 | `NoneForgotten`, `FailedStaysListed`, `EveryThreadIsSwept` |
| `web_bridge` | 72,000 | `OwnThread`, `StreamsBounded`, `PermitComesBack`, `HeardIsListed`, `GoneIsGivenUp` |
| `credential_store` | 1,408,000 | `PoolsFollowFile`, `AnswersHold` |
| `desktop_shell` | 105,000 | `OneGateway`, `QuitKillsAll`, `ChainUnbroken`, `CrashIsRestarted` |
| `extension_import` | 421,000 | `NamedForThisFlow`, `DoneIsHeld`, `PanelsHear`, `FlowsEnd` |
| `credential_dating`, `web_bridge_context` | - | counterexamples, see section 5 |

`TypeOK` is proved for every module that has proofs (section 4); three runs check
it as well: `web_threads`, `credential_store`, `extension_import`. Proved and not
run: `NoTokenTwice`, `RestIsNeverCut` (which the refinement of `AccountHealth`
implies), `SlotMeansEntry` (the step to `BusyInTime`), `EveryStepCounts`,
`FlowRunsDown`, `NameIsCarried`, `TableIsBounded`, `BridgeGateSpec`, and that the
gateway's handlers use pool and limiter by their protocols (`PoolSpec`, `GateSpec`;
section 4).

Bounds, and why they are enough:

- *Pool*: two tokens, two requests. Interference is between two requests on one
  account, or two accounts in one pick. The threshold is 2 (not 4), a rest is 1
  tick after the first trip, 2 after any later one, and 4 (the cap) after a
  refused credential, so that growth and both limits occur. Both
  tokens may be deleted and imported again.
- *Limiter*: three requests (one inside, one waiting, one coming or going), two
  ticks of patience, and both relations of the capacities: multi as many as
  slots, and fewer.
- *Gateway*: an OpenAI and a Claude request, two accounts of which one comes and
  goes and makes the tier a subscriber's, limit 1, two attempts: the smallest
  number with a retry. Failure threshold 2, so that a retry may trip a breaker.
- *Session*: three calls, two ids, each of the six statuses as an answer, and
  sessions that are stale, about to be, and without an expiry.
- *WebThreads*: three credentials with room for two, a clock that passes the
  time to live, and two callers, so that one renames what the other has truncated
  and the older copy is written last. States that differ in the numbers of the
  files only are one state (the `VIEW` of the configuration: what each file is
  called, and what is in those that have a name).
- *ThreadSweep*: two threads, two sweepers, one of which takes everything, one
  restart, one hour's set-back of the clock, which runs to twice the loop's age, so
  that the age of a thread listed late comes as well.
- *WebBridge*: two turns at a time, a free bucket with one permit and a
  subscriber's with two, two threads: enough for a turn that waits beside one
  that streams, and for a binding that is replaced while a turn goes on. Thread
  ids are used once, so that turns find no new thread in the end and fail. The
  counterexample has one turn at a time and two conversations.
- *CredentialStore*: two requests of any kind side by side, two cookies and a
  token, and a backup that holds one of each.
- *DesktopShell*: three names for processes, of which a shell needs two, so that
  one gateway may outlive its shell; two ports; two probes to a wait; at most two
  checks due (a child crashes only when there is room for its check).
- *ExtensionImport*: two panels, two ports, two keys, one of which the first
  port asks for, so that a panel may name a wrong one, or another's.

Where a run says `CHECK_DEADLOCK FALSE` the instance is finite by nature: each
call of `ensure_session` is made once, each thread id is used once.

### Fairness

- `TieredSemaphore`: tasks that can run do (weak fairness of `AskMulti`,
  `GetGuard`, `FinishDrop`), timers fire (`Busy`), the clock moves (strong
  fairness of `Tick`, which requests that come and go disable for an instant).
  Nobody is forced to give a guard back.
- `Gateway`: weak fairness of each handler, but not while it is in
  `ensure_session`, which the code may keep for ever (a queued session,
  section 5): `EveryRequestEnds` has the end of the request's own calls of it
  as a premise, and holds for a request whose neighbours sit there with their permits.
  For the rest it stands for a running scheduler, for an `acquire` that ends (shown
  in `TieredSemaphore`) and for an upstream that answers: the client gives up a connection after 15 s and a read after 300 s of
  silence (`upstream.rs` 103-107), so that a silent call ends; that a stream
  which goes on sending ends at all is an assumption on the upstream.
- `Session`: weak fairness of each call and of the clock. `EveryCallEnds` names
  its own condition: from some time on the upstream gives good sessions and does
  not queue. Without it the property is false: see section 5.
- `ThreadSweep`: the hourly loop sweeps again and again (`thread_cleanup_loop`, with
  a web cookie to do it), the clock moves, and a deletion it tries again and again
  succeeds at some time (strong fairness of its `DeleteFound`). The operator owes
  nothing: no request of his need come, or get to its end. The premise of
  `EveryThreadIsSwept` is the bound of the clock: the age of the thread comes.
- `WebBridge`: weak fairness of each turn: the gate waits 2 s, a connection 15 s,
  a silent stream is cut after 300 s. Nothing forces an upstream to name a thread,
  a client to stay, or a thread to vanish.
- `DesktopShell`: weak fairness of exit handlers and timers: Electron's event
  loop runs. The gateways owe nothing, not even to start.
- `ExtensionImport`: weak fairness of the panels' handlers, which a timer ends.
  `FlowsEnd` has its own premise, fairness of the flow, all of whose awaits have a
  deadline; `PanelsHear` holds without it.

## 4. The proofs

All are for any values of the constants that meet the assumptions named in the
modules: finite sets of requests, positive capacities and thresholds, tokens
configured once. `MaxCooldown` bounds every rest, and every cooldown a caller
asks for is at least that long (the code always asks for 600 s, which is the
cap); `RestIsNeverCut` depends on it.

- **AccountPoolProofs.** `IInv` is `TypeOK`, the consistency of every breaker and
  no token twice; the consistency is what makes the rest inductive. The
  lemmas go method by method (`Trip`, `TripFor`, `RecordFailure`, ... keep a
  breaker sound), then action by action. `RestIsHonoured` follows from
  `Allows` and consistency (only an Open breaker has a rest left),
  `RestIsNeverCut` from the fact that an Open breaker is opened again only by
  `TripFor` with the longest rest. `PoolImplementsHealth`: each action maps to
  `GoToRest`, `StartTrials`, `PassTrial`, `Remove`, `Add`, `Tick` or a stutter; that
  a report changes no membership is a lemma of its own (`MembersMove`).
- **TieredSemaphoreProofs.** `IInv` says of each semaphore that its queue has no
  duplicates, that those in the queue are waiting for this semaphore, and that
  free permits plus holders make the capacity (`SoundFor`), plus a bound on the
  time waited. The plain `PermitsConserved` is not inductive: giving a permit to
  the head of the queue needs to know that the head is a taker and is there once.
  `SlotIsEntry` is a counting argument, `BusyComesInTime` uses it (the clock
  stands while anyone is leaving), and `SemaphoreImplementsGate` counts again.
- **GatewayProofs.** `GatewayUsesPool` and `GatewayUsesGate` show that each step
  of a handler is a step of the pool and of the gate, or none; by the first, what
  is proved of the pool holds here. `LInv` says what is true of one request at
  each stage: which guard it has, how many turns it has left, what it reports
  next, what it has written. `WallStands` follows from it and the gate's limit.
  `RequestsRunDown` is the half of `EveryRequestEnds` that needs no fairness: a
  count of the steps a handler has still to make (16 for each turn of the loop it
  has left, and what is left of this one) gets less with each of its steps, and
  no step of anybody else makes it more. So no retry, report or verdict of the
  upstream keeps a request in the loop beyond `MaxAttempts` turns.
- **SessionProofs.** Types and `DroppedStaysAway`. Its invariant is that the id
  the session holds is not a dropped one: `Begin` drops the id and forgets it in one
  critical section, and an answer that names it again takes it back.
- **ThreadProofs.** *ThreadSweep*: what a sweep has deleted is not live and was
  born (ids are not used twice, so it does not come back); what it has still to do
  or failed to do is in the list it read; an idle sweep has no notes; what is known
  and live is listed. The last is inductive only with the others. *WebThreads*:
  the types (a free file for each caller, by counting), `OldestGoFirst`, and the
  limit of every table in memory, in a copy or in a file hold for any number of
  callers, and so do `FileIsWhole` and `SavedWhenOk`, with restarts and failing writes
  anywhere. `FileInv` says that the temporary file is never the one under the final
  name, and that, unless calls overlap now, there is one caller at most, which
  holds the temporary file alone and writes what is in memory; this is so again
  after an overlap, whatever it left under either name, and the first Ok then makes
  the file good.
- **CredentialProofs.** *CredentialStore*: `PoolsFollowFile` speaks of what is so when
  nobody is at work, which no step preserves by itself. `IInv` says what each request
  relies on at each point: its place fits its kind, one holds the lock, what
  it read is what the file still holds but for what others were about meanwhile,
  and while it is between file and pools the file is ahead of the pools by its own
  change only. A failure between the two spoils what the request was about.
  `AnswersAreTrue` follows for what is not spoiled.
  *ExtensionImport*: `FlowInv` says that the flow has the port and the key that were
  named last for it, and none of an earlier flow, until it posts, and that a request that was taken is held. The
  list of usual ports is not empty and names none twice (`Candidates` is proved to
  begin with the named port, and to be at most one longer). `FlowsRunDown`
  is the half of `FlowsEnd` that needs no fairness: each step of the flow leaves less
  to wait for, and panels, clicks and gateways do not make it more.
- **WebBridgeProofs.** `IInv` adds to `OwnThread` that the thread a turn is to go
  on in, and the one it is in, were opened with its own cookie: `Bind` needs the
  second, `Take` the first. `StreamsAreBounded` goes by the gate: each step is a step
  of `ConcurrencyGate` or none (`BridgeUsesGate`), its limit is kept, and who is
  upstream is inside. `HeardIsCarried` is the half of `HeardIsListed` that needs no
  fairness: a turn that has heard the name of its thread keeps it until the thread
  is listed, for it cannot be given up by then.
- **DesktopShellProofs.** `IInv` says that the only child is the one the variable
  `gateway` names (`QuittingKillsAll` needs it), that the user is quitting exactly in
  the state Closing, and that there is no timer while a child lives or an exit is to be
  handled (`OneGatewayAtATime`); `ChainDoesNotBreak` then needs one look at each
  step.

Model-checked only: liveness (`EveryAcquireEnds`, `EveryRequestEnds`,
`EveryCallEnds`, `EveryThreadIsSwept`, `PermitComesBack`, `HeardIsListed`,
`GoneIsGivenUp`, `CrashIsRestarted`, `PanelsHear`, `FlowsEnd`): the prover has no
rules for fairness and ENABLED; and the two counterexamples, which are runs of the
code and not theorems. Every invariant, action property and refinement that a
passing run checks is a theorem. `RequestsRunDown`, `FlowsRunDown` and `HeardIsCarried`
are the parts of three of the liveness properties that need no fairness.

## 5. Where code and comments disagree

| Run | What the run shows |
|---|---|
| `credential_dating` | `load_tokens_healed` reads `tokens.json` before it takes the lock and writes the whole of it under the lock: an import between is lost, a deletion undone, although the lock is there to make dating exclude both (`import.rs:202`, `CHANGELOG.md:297`) |
| `web_bridge_context` | `web_threads` has one thread for a credential: a turn of one conversation goes on in the thread of another, and sends its last message only, where first turns were to open a thread and later ones to go on in it (`web_threads.rs:7`) |

The models show these as well; they have no run, and the properties of the
passing runs are stated so that they hold beside them:

- *Pool.* `pick_best` opens the trial of every HalfOpen account and returns one;
  nobody frees the others (`pool.rs:233`; `pool.rs:74` says that a held gate has a
  trial in flight), nor do the waiting-room return or a client that goes away.
  They are not picked until some late report reaches them. A retry may pick the
  account that has just failed.
- *Life cycle.* The Claude path, said to follow the OpenAI path (`api.rs:3622`),
  reports no success: its successes end no trial and reset no failures. Runs of
  failed attempts and of Claude requests are never finished upstream; a request
  that finds no account, and an OpenAI stream that breaks off, leave no usage row.
- *Session.* A queued session whose wait is over is slept on for as long as the
  client stays: nothing polls (`session.rs:142`; `session.rs:5` says GET), and the
  permit is held. Between `is_active` and `instance_id` another call's answer may
  queue the account; the id of a queued session is returned. `ensure_session` asks
  again without a pause when the upstream answers `ended` or `superseded`. The
  keep-alive loop beats for sessions that are not active.
- *Limiter.* With fewer multi permits than slots an acquire may wait two
  time-outs, not one.
- *Thread bindings.* Two callers share one temporary file, and one may rename
  what the other has just truncated (`web_threads.rs:153`; line 148 speaks of atomic
  replacement); copies are written after the lock is free, the older perhaps last
  (`web_threads.rs:84`; line 65 says that taking the copy under the lock removes
  the window in which a newer binding is overwritten). The run has both, with two
  callers; `FileIsWhole` and `SavedWhenOk` say what is left: that the code keeps them
  until calls overlap, and that a torn or old file lasts until a call that runs alone
  succeeds.
- *Sweep.* After the clock was set back a new thread counts as expired.
- *Web bridge.* A late stream may bind a thread that is gone; a client that hangs
  up before the error leaves the binding to the next turn; the error of a turn
  that went on in an old thread clears a newer binding (`api.rs:1131`).
- *Tokens.* The import of a backup takes no lock and leaves the pool of tokens as
  it was (`export.rs:271`, `api.rs:504`). It writes `tokens.json` first and
  `config.json` last; if that cannot be written (`export.rs:310`, 320-324), as
  with the read-only mount of `docs/DOCKER.md:35`, it answers 500
  (`api.rs:507`) without a reload: the file is the backup's, the pool of cookies is
  the old one, and a deletion then answers 404 for a cookie that is still pooled, an
  import "exists" for one that is in no pool, until a reload or a restart. A reload or
  restart that cannot read the file, or not write the dates it adds, takes the cookies
  of the file out of the pool and says nothing (`web_pool.rs:128`). `Pool::new` reads `config.json` only, so that
  imported desktop tokens are in no pool after a restart, and importing them again
  answers that they exist. A deletion between the file and the pools of an import
  leaves the credential in the pool. A client that goes away between the two
  leaves the file changed and the pool not.
- *Desktop shell.* The probe asks port 47821 while the gateway listens where
  `config.json` says (`main.js:107`; `CHANGELOG.md:363` speaks of other ports). "After
  three failures" (`main.js:172`) is one failed check. A timer of 2 s that runs out
  while the shell closes starts a gateway nobody kills, and writes to a log stream
  that has ended, which nobody catches. A probe answered by a gateway that then
  exits, or by one that has outlived its shell, makes the shell ready with no
  child, and nothing will restart one.
- *Browser extension.* A panel that joins once the posting has begun is told of
  the end of a flow that does not use its port and key (`background.js:245` says they
  take effect), and a time-out, too, goes on to the next port (`background.js:159`; the
  extension's README speaks of refused connections only), so that two gateways
  may get the cookie. Port and key are kept apart (`background.js:248-251`): a panel
  that names a key and no port, or the reverse, leaves the other as another panel
  named it, and the port of one panel is tried with the key of the other.
- *Cloudflare worker* (read, not modelled). A session that fails leaves its root
  run unfinished (the clean-up of `worker.js:161` does not reach it); an upstream call that throws
  leaves both runs.

## 6. Not modelled, and why

- Of the handlers: parsing, model resolution and the request body (text); the
  choice between pool and web bridge, which is made before the acquire; the
  blocks for non-2xx answers after the loop (`api.rs` 3078-3168), which the loop
  does not let through; logs, telemetry events, memory.
- Of the session: `last_error`, position and queue depth, which are only shown;
  the counters of the keep-alive loop; the advertisement refresh.
- Of the web bridge: the choice of a cookie, its score and breaker; text and rows.
- The direct web chat, `handle_web_chat` (`api.rs` 687-960): it goes on in the thread
  its client names or opens one, asks the limiter for no permit, binds nothing, and lists
  the thread when its stream is over. So `StreamsBounded` speaks of the turns of the
  bridge only, and the upstream may see more streams than the limit; of its threads
  `ThreadSweep` has the opening, the listing and the end.
- Of the tokens: the parsers, and the other parts of a backup.
- Of the desktop shell and the extension: windows, tabs, notifications, options,
  and the updater, which keep no state the modelled parts read.
- Real time. Deadlines are ticks left; only their order matters to the
  properties.

## 7. Plan

1. `ConfigFile`: handlers that read, change and write `config.json` without a lock.
2. `LogBus` (ids, ring, replay) and `Telemetry` (bounded queue, drops, shut
   down): each with an abstract log it is to implement.
3. `Memory` (supersede in two statements).
4. `handle_web_chat` as further turns of `WebBridge`, outside the gate.
5. Proofs: the variants of the other liveness properties (`EveryAcquireEnds`: what
   an acquire has still to wait for; `EveryCallEnds` under a good upstream), and
   the theorems of the modules above.

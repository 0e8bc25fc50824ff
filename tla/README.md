# A formal model of Inference Systems Lab

TLA+ specifications of the parts of `aykutssert/inference-systems-lab` in which
order, failure and time matter, with TLC configurations that check them on
small instances and TLAPS proofs that hold for every instance. Paths below are
relative to `projects/` of the repository; `02/`, `03/`, `04/` and `06/` stand for
`02-local-inference/src/local_inference/`,
`03-production-serving/src/production_serving/`,
`04-nvidia-inference/src/nvidia_inference/` and
`06-internal-inference-access/src/internal_inference_access/`.

## 1. The system

| component | state | operations | interacts with |
|---|---|---|---|
| Admission controller `03/admission.py` | `_active`, `_waiting`, an `asyncio.Condition` and its deque of futures; `_released` of each lease | `acquire`, `release`, `lease.release` | called by the handler; resumed by the event loop |
| Rate limiter `03/rate_limit.py` | a bucket (tokens, time of last update) per client | `allow` | called by the handler before admission |
| Chat completion handler `03/api.py` | the local state of each request: lease, backend stream, response | `create_chat_completion`, `stream_chat_completion`, `close_stream`, `CancellableStreamingResponse` | rate limiter, admission, backend in worker threads, client through the ASGI server |
| Terminal chat client `03/chat_client.py` | `turns`, `memory` | prompt loop of `main`, `compact`, `_remember`, `remove_pending_user`, `stream_prompt` | the server over HTTP |
| Access gateway `06/` | revoked users, a bucket per user, counters | authenticate, revoke, restore, limit, forward, relay, probe | clients, the vLLM upstream through one connection pool |
| llama.cpp backend `02/llama_backend.py` | child process, its monitor, load time | `load`, `generate_chat`, `close` | a `llama-server` process on a port other processes use too |
| Benchmark pipeline `02/benchmark_*.py` | result files | run, write, read, summarise, report | the file system |
| Load and failure runners `03/load_runner.py`, `03/failure_runner.py` | a thread pool and its futures | requests, percentiles, report | the server over HTTP |
| NVIDIA benchmark `04/benchmark.py` | the same | the same, with its own token count and time per token | a vLLM server |
| Application and metrics `03/app.py`, `03/metrics.py` | readiness flag, Prometheus counters | start, stop, one middleware | wraps every request |
| Streaming backend `03/backend.py`, `02/mlx_backend.py` | the loaded model | `load`, `generate_chat`, `stream_chat` | called in worker threads |
| Local inference API `02/api.py` | none | one synchronous handler | the backend |
| Service life cycle `01-service-foundations`, `02/service_state.py` | readiness flag | start, stop, probes | the orchestrator |
| Deployment `05-reliable-deployment`, `06-.../runpod` | manifests, a start script | apply, start | Kubernetes, a GPU host |

What is hard in it:

- **Interleaving at suspension points.** All requests share one event loop.
  A call of `acquire()` that waits can be notified and then overtaken,
  cancelled before it runs, or both; the condition variable's deque, the
  counters and the futures have to agree through all of it.
- **Threads that cannot be cancelled.** Backend calls run in worker threads. A
  disconnect or a timeout does not stop them, so the moment at which a slot is
  free and the moment at which the backend is free may differ.
- **Error paths that own a resource.** A lease, an upstream connection, a child
  process and a temporary file each pass through code that may raise between
  any two calls.
- **State that changes while a request is under way.** Users are revoked and
  restored, the gateway restarts, the upstream comes and goes.
- **Several processes, one name.** Servers compete for a port, benchmark runs
  for a path; a kill or a power loss may fall between two calls.
- **Partial failure in the client.** Compaction may drop turns and then give up;
  a load run may lose one request and must not lose its report.
- **Time and limits.** Refill, burst, eviction; queue limits; the input budget.

What makes each component correct:

- *Admission*: no more leases than slots, exact counters, no lost wake-up, every
  free slot handed to a waiting call.
- *Rate limiter*: no client above burst plus rate, none below the rate refused,
  bounded table.
- *Serving*: the backend never works for more requests than there are slots, no
  request leaves a slot, a place or a stream behind, a disconnect frees its
  slot, every request ends.
- *Chat client*: turns alternate, requests fit the budget, nothing the user
  asked to remember is lost, compaction ends.
- *Gateway*: a revoked user starts nothing new, counters agree with answers,
  connections come back, users do not pay for each other, readiness recovers.
- *llama.cpp backend*: no server is lost, a load time comes of a server that was
  ready since the process was started, every call returns, closed servers end.
- *Benchmark files*: a visible file is whole, only the process that made it tells
  of it, a report tells of the file beside it, calls that raise leave no
  temporary file.
- *Load programs*: a report tells all requests and counts as successes those whose
  stream ended, only an exception that no clause takes costs it, and its
  percentiles are what they are named.

## 2. Modules

| module | what it is |
|---|---|
| `BoundedAdmission` | what admission promises, as the sets of requests that hold, wait and were refused: the abstract specification |
| `Admission` | `AdmissionController` and its leases on CPython's `asyncio.Condition` |
| `WholeTokens` | token buckets in whole tokens and without a clock: what the gateway uses and what `RateLimiter` answers like |
| `RateLimiter` | `TokenBucketRateLimiter` |
| `Serving` | a chat completion from arrival to end, composed with an instance of `Admission` |
| `ChatHistory` | `ConversationHistory` and the prompt loop of `main` |
| `Gateway` | the access gateway: authentication, limits, proxy, counters, readiness, restarts |
| `LlamaBackend` | `LlamaCppBackend` of several Python processes and the servers they start |
| `WriteOnce` | what publishing a file promises: it appears whole, in one step, and is not replaced: the abstract specification |
| `Publishing` | benchmark records and reports, from measuring to the link |
| `LoadRunner` | the load runner, the failure runner and the NVIDIA benchmark |
| `*Proofs` | theorems about the module of that name |
| `MC*` | constants for TLC; `MCChatHistory` holds a small tokenizer, `MCRateLimiter` and `MCPublishing` a symmetry |

Definitions whose comment begins with *Mutant of* are small bugs one could make
in the code, kept beside the definition they change. No specification uses
them, except where a guard is added to one to give the definition. Put in the
place of the definition, each makes a property fail, which shows that the
property depends on the code it is about.

### Admission

One action is the code between two suspensions. The lock of the condition is
held across no suspension except by `wait()`, which gives it up, so taking it
never suspends and the only suspension is the `await fut` inside `wait()`.

| code | action |
|---|---|
| `acquire()` with a free slot: the fast path, or `wait_for` finding its predicate true at once | `Acquire` |
| `acquire()` raising `QueueFullError` | `Reject` |
| `acquire()` counting itself and suspending | `Enqueue` |
| a notified call that runs again | `WakeAndTake`, `WakeAndWait` |
| cancellation of a waiting task, and its later unwinding through `wait()` and the `finally` clause | `Cancel`, `Unwind` |
| `lease.release()`, first and again | `Release`, `ReleaseAgain` |

`waiters` is the condition's deque. `notify(1)` sets the first future in it that
is not done; `Notify` does the same. Whether `wait()` passes a notification on
when it is cancelled depends on the version of CPython, so `RenotifyOnCancel` is
a constant; the theorems hold for both values.

`BoundedAdmission` says of refusals, too, when they are allowed: the queue is full,
and a slot that is free has calls that wait for it.

`Recycle` makes a finished member of `Requests` stand for another call; with it a
small set of requests gives unboundedly many arrivals.

### RateLimiter

`allow()` suspends nowhere, so it is one action per case (`AllowNew`,
`AllowTracked`). Time is in seconds and tokens are in sixtieths, which makes every
quantity an integer. `lastGrant`, `since` and `granted` are history variables: they
are written beside the code's state and never read by it. `OpenWindow` lets an
observer start counting at any moment, so `RateBound` is about every window of a
bucket's life. An eviction ends that life: a client whose bucket was dropped
returns with a full one, which is what the code does. `WholeLevel` reads the
state as buckets of whole tokens, and `AnswersLikeWholeTokens` says that each
answer is one of `WholeTokens`.

### Serving

Stages are the places where `create_chat_completion` and
`stream_chat_completion` suspend. `generating`, `first`, `abandoning`, `fetching` and
`closing` are calls in worker threads, which return, raise or are late
(nondeterministic choices) but are never interrupted. `sending` and `finishing` are
suspensions in a send, where a disconnect may cut the request off. `Enter` and
`Wake` take a step of `Admission` and of the handler together, because the code
between them does not suspend. `close()` of an unfinished stream may raise, which
skips the release; `unclosed` remembers the requests to which that happened.

### ChatHistory

The client is sequential. `Enter` adds the prompt and decides whether `compact()`
has work; `PairToDrop`, `SmallEnough` and `TooBig` are what a round of its loop finds,
`DropPair` is one round of its loop; `Compacted` and `Refuse` are its two
ends; `Answered` and `Failed` are the two ends of `stream_prompt`; `Restart` is any
end of the process. The tokenizer and the chat template are the constant
operator `Tokens`. `log` is a history variable. There is no action for the
`RuntimeError` on an invalid turn order: if the code could reach it, TLC would
report a deadlock, and `TurnOrder` shows that it cannot.

### Gateway

| code | action |
|---|---|
| `auth.py`: `revoke`, `restore`, and `require_user` in a worker thread | `Revoke`, `Restore`, `Authenticate` |
| `app.py`: `rate_limiter.allow`, and the 429 that is counted | `Limit` |
| `await request.body()` | `Body` |
| `proxy.py`: `client.send` taking a connection, and its `RequestError` | `Send`, `SendFails` |
| status and headers: a stream is counted and answered at once, other bodies are read | `Headers` |
| `aread()` with its `finally`, and the count after `forward` | `ReadBody` |
| `stream_response` with its `finally` | `RelayEnds` |
| `is_ready()` | `Probe`, `Ask`, `Told` |
| the process started anew | `Restart` |

`Limit` takes its buckets from `WholeTokens`, in which the refill is any number of
tokens up to the burst; `allow()` of `06/rate_limit.py` is that of
`03/rate_limit.py` but for the bound on the table, and `RateLimiter` with its clock
and parts of tokens is proved to answer as `WholeTokens` may. Chat requests and the probe share one
pool. `barred` is a history variable: the requests that came with a key revoked
at that time.

### LlamaBackend

Each member of `Backends` is the backend of one Python process. `Spawn`, `Attach`,
`Poll`, `Check`, `DeadlinePasses` and `InterruptLoad` are `load()` and
`_wait_until_ready()`; `Close`, `Waited`, `TerminateTimesOut`, `KillTimesOut` and
`InterruptClose` are `close()`, which `load()` also calls when it fails; `Request`,
`Hear`, `Generate` and `GenerateRaises` are `generate_chat()` and `parse_stream()`.
`Serve`, `Hang` and `Exit` are what a `llama-server` process does. All backends use
one port, as the default does, so the process that answers need not be the one
that was started. `foreign`, `abandoned` and `ready` are history variables; `ready` has the
backends since whose `Popen` some server on the port was ready at some time. It is
kept by `Start`, `Close` and `Serve`, not by `Check`, so that `LoadedIsWhole` compares
the load time with what the servers did and not with a guard. It does not say
whose server was ready: that it need not be the own one is what `llama_own` shows.

### Publishing

`Measure` is one generation of `run_benchmark()`; `Summarize` is `read_jsonl()`,
`summarize_benchmark()` and rendering; `Create`, `Write`, `Sync`, `Link` and `Unlink`
are the calls of `write_jsonl()` and of `write_markdown()`. Each may raise, also
through Ctrl-C, before it has done its work (`Raises`, and alternatives of `Create`
and `Unlink`); Ctrl-C may also come when the work is done, after the temporary
file is made, after the link and after the unlink. `outcome` is what the user is
told: the path, or the place of the call that raised last. A process whose file is
published may therefore tell of an error, and one whose `unlink()` raises leaves its
temporary name. `Kill` and `PowerLoss` are the environment: a power loss may undo a link,
since the code syncs no directory, and keeps of a file what was synced and any
first part of the rest. `file[p]` is the file process `p` made, and a path is linked
to the file of a process, so that a file that was opened and the name it is found
under are apart. `Visible` is what a reader finds under the paths, and
`ImplementsWriteOnce` maps it to `WriteOnce`, whose only steps are a publication, the
maker of a published file telling of it, and a power loss: everything else a
process does, fails at or is killed in is a stutter.

### LoadRunner

`Submit`, `Collect`, `Leave` and `Write` are the main thread; `Take` is a thread of the
pool; `Open`, `ReadErrorCode`, `Event`, `Finish`, `TimesOut` and `Break` are `run_request`
and `run_disconnect` against a server that does as it likes. The body of an HTTP
error is read apart from its status (`Open`, then `ReadErrorCode`), because that read
stands in an `except` clause: a timeout there is an exception that the sibling
clauses do not catch, and `future.result()` raises it. `Finish` is the end of a
stream, with `[DONE]` or cut off between two events: `parse_sse` makes no
difference, and both count as a success. `met` is what became of each request.
`runner` is the program that runs; the three share their control and differ in
what they catch and count. `Ascending`, `Percentile`, `Row`, `TotalTokens` and `BuildReport` are pure operators;
`Ascending` is a permutation in ascending order, which is what `sorted()` promises.
Quantiles are in hundredths, and so are the percentiles, which keeps them
integers.

## 3. Runs

| run | configuration | instance | properties |
|---|---|---|---|
| `admission` | `MCAdmission` | 5 calls, 2 slots, queue of 2, notifications not passed on | `TypeOK`, `Accounting`, `DequeMatchesQueue`, `NoLostWakeup`, `ImplementsBoundedAdmission` (safety and liveness) |
| `admission_fifo` | `MCAdmissionFifo` | 3 calls, 1 slot, queue of 2 | violated: `NoBarging` |
| `rate_limiter` | `MCRateLimiter` | 3 clients, table of 2, 30 a minute, burst of 2, times up to 4 s | `TypeOK`, `RateBound`, `RefusalsAreEarned` |
| `serving` | `MCServing` | 4 requests, 1 slot, queue of 2 | `TypeOK`, `BackendLoadBounded`, `OnlyFailedCloseLeaves`, `DisconnectFreesSlot`, `EveryRequestEnds` |
| `serving_close_fails` | `MCServingCloseFails` | 3 requests, 1 slot, queue of 1 | violated: `NothingLeftBehind` |
| `chat_history` | `MCChatHistory` | 4 prompts, 3 replies, 4 exchanges, budget of 20 | `TypeOK`, `TurnOrder`, `RequestFits`, `NothingForgotten`, `EveryPromptSettled` |
| `chat_history_empty` | `MCChatHistoryEmpty` | as above | violated: `OnlyAcceptableRequests` |
| `gateway` | `MCGateway` | 2 users, 2 requests, burst 1, 1 connection, 1 restart | `TypeOK`, `ConnectionsReturned`, `RevokedStayOut`, `CountersMatchAnswers`, `OnlyOwnRequestsCount`, `EveryRequestEnds`, `ReadinessRecovers` |
| `llama_backend` | `MCLlamaBackend` | 2 backends, 2 servers, 1 port | `TypeOK`, `NothingForgotten`, `LoadedIsWhole`, `CallsReturn`, `ClosedServersEnd` |
| `llama_own` | `MCLlamaOwn` | as above | violated: `ResultsAreOwn` |
| `publishing` | `MCPublishing` | 2 writers, 1 reporter, 2 prompts of 2 runs, 2 token counts, 2 power losses | `TypeOK`, `VisibleIsComplete`, `ImplementsWriteOnce`, `ReportTellsTheFile`, `ErrorsLeaveNoLitter` |
| `load_runner` | `MCLoadRunner` | 3 requests, 2 threads, 2 chunks, latencies up to 2, each program | `TypeOK`, `OnlyEndedStreamsCount`, `OnlyUncaughtErrorsCostTheReport`, `PercentilesAreRanks`, `RunEnds` |

**Bounds.** With more calls than slots and places together, every call is
accepted, queued and refused in some state, two waiting calls can be notified
and cancelled in every order, and a newcomer can come between. In `RateLimiter` a
token takes two seconds, so within four seconds a bucket empties, refills in
part, refuses, and fills again; three clients on two places force evictions.
`MaxTime` bounds the clock of the model only. In `ChatHistory` a budget of 20
holds two or three pairs, so four exchanges compact once or twice, reach the
threshold exactly and exceed it with memory alone; `MaxExchanges` bounds the
history variable. In `Gateway` one connection makes requests and the probe wait
for each other, a burst of one makes each second request of a user a refusal,
and two requests are enough for one to come before a revocation and one after.
`MaxRestarts` bounds the environment. Two backends and two servers make the
port contested and let a server's identity be used again. Two writers race for a
path in every order, a reporter may read before, between and after; two runs of
two prompts let a summary be refused because counts differ, and let a file be
cut off in every place. With two power losses a
path can be published, lost, published by the other writer and lost again;
`MaxPowerLosses` bounds the environment. Three requests
on two threads leave one in the queue, finish out of order, and give percentiles
of none, one, two and three values, with equal ones among them; `MaxChunks` and
`MaxLatency` bound the replies of the server; three latencies from three values take
every order and every tie. Symmetry is used in `rate_limiter` and `publishing`, whose
properties are about states and steps alone: clients, writers and token counts are
compared for equality and nothing else.

**Fairness.** The event loop runs every task that is ready (weak fairness of a
woken or cancelled call, and of the server's next step). Backend calls return:
the code has no way to end one that does not, and calls its timeout soft.
`Release` is fair in `Admission` because every path of the handler reaches it
but one that fails to close, which `Serving` shows. A stream ends because the
backend stops after `max_tokens` chunks (strong fairness of `StreamEnds`: fetching
is left and entered again with each chunk). Clients owe nothing in
`DisconnectFreesSlot`; `EveryRequestEnds` of `Serving` assumes that a client reads or
disconnects, since the code has no write timeout. In `ChatHistory` the loop runs
and `urlopen` returns or raises, as its timeout guarantees for replies that are
finite. (The timeouts of `urlopen` hold for each read from the socket, here and
below: against a server that trickles without end nothing in these clients
ends a call, and no property says so.) In `Gateway` a request
goes on because each await ends by an answer or by the timeout of the
`httpx` client, a relay because generations end and clients read or leave; the
orchestrator keeps probing. `ReadinessRecovers` assumes that the upstream is
healthy from some time on. In `LlamaBackend` a call under way goes on, the
deadline of `_wait_until_ready` passes (strong fairness, since polling is left and
entered again), and a killed process exits; a server owes nothing but that what
it sends is finite. In `LoadRunner` threads run and a silent server is given up, as
the timeout of each read guarantees; a reply has at most `MaxChunks` chunks, and
nothing else is assumed of the server.

**Deadlock** is checked in `Admission`, `RateLimiter`, `ChatHistory` and
`LlamaBackend`. `Serving`, `Gateway`, `Publishing` and `LoadRunner` stop when all their
requests, processes or programs are over, so their configurations turn the test
off; that they do not stop earlier is what their liveness properties say
(`Publishing` has none: a killed process just ends).

**Violations.** Four runs show where the code and what the repository says of
it part:

1. `admission_fifo`. The README and the report call the queue FIFO. A call that
   arrives after a release and before the notified call runs finds a free slot
   and takes it, when the queue has room for it; the overtaken call goes to
   the tail of the condition's deque.
2. `serving_close_fails`. In `stream_chat_completion` the release follows
   `close_stream()` in one `finally` clause. If `close()` raises, the slot is lost
   until the process restarts. `OnlyFailedCloseLeaves` shows that nothing else
   loses one.
3. `chat_history_empty`. A streamed reply without text is added to the history;
   the server refuses messages without content, so every later request fails
   with 400 until compaction happens to drop the pair. The non-streaming
   path of the backend refuses empty replies.
4. `llama_own`. `load()` takes the health of whoever holds the port for that of
   the server it started, and `generate_chat()` posts to it. A backend whose own
   server could not bind records results of another process's server, with the
   memory of its own.

## 4. Proofs

TLAPS checks the theorems below for every value of the constants, from the
named assumptions of the modules (finite sets, positive limits: what the
constructors and argument parsers test). Two kinds of theorems have one assumption
more: `RequestsFit` and `CompactionNeverSticks`, that the tokenizer returns a number,
and `WholeTokensAreEnough`, that the table has room for the clients. The property in
brackets is one a run checks on a small instance; the theorems without one are
written out.

| module | theorems (the property) |
|---|---|
| `AdmissionProofs` | `TypeCorrect`, `AccountingCorrect` (`Accounting`), `DequeCorrect` (`DequeMatchesQueue`), `NoWakeupIsLost` (`NoLostWakeup`), `SafelyImplements` (`Spec => Abstract!Spec`, the safety of `ImplementsBoundedAdmission`) |
| `RateLimiterProofs` | `TypeCorrect`, `RateIsBounded` (`RateBound`), `NoUnearnedRefusal` (`RefusalsAreEarned`), `WholeTokensAreEnough` (`Spec => AnswersLikeWholeTokens`) |
| `ServingProofs` | `UsesAdmissionAsMeant` (`Spec => P!Spec`), `TypeCorrect`, `BackendIsProtected` (`BackendLoadBounded`), `OnlyFailedCloseLeaks` (`OnlyFailedCloseLeaves`), `ServesBoundedly` (`Spec => P!Abstract!Spec`), `WaitersAreWoken` (`Spec => []P!NoLostWakeup`) |
| `ChatHistoryProofs` | `TypeCorrect`, `TurnsAlternate` (`TurnOrder`), `RequestsFit` (`RequestFits`), `CompactionForgetsNothing` (`NothingForgotten`), `CompactionNeverSticks` (`Spec => []CompactionGoesOn`), `CompactionShrinks` (a round that goes on leaves fewer turns) |
| `GatewayProofs` | `TypeCorrect`, `RevokedUsersStayOut` (`RevokedStayOut`), `ConnectionsAreReturned` (`ConnectionsReturned`), `CountersAreTrue` (`CountersMatchAnswers`), `BucketsAreSeparate` (`OnlyOwnRequestsCount`) |
| `LlamaBackendProofs` | `TypeCorrect`, `NoServerIsForgotten` (`NothingForgotten`), `LoadTimeIsTrue` (`LoadedIsWhole`) |
| `PublishingProofs` | `TypeCorrect`, `VisibleFilesAreComplete` (`VisibleIsComplete`), `FilesAreWrittenOnce` (`ImplementsWriteOnce`), `ReportsAreOfTheFile` (`ReportTellsTheFile`), `TemporaryFilesAreRemoved` (`ErrorsLeaveNoLitter`), `PublishedFilesStay` (`Spec => []PublishedIsOwn`), `WinnersAreFew` (`Spec => []OneWinnerPerLoss`) |
| `LoadRunnerProofs` | `TypeCorrect`, `ReportsSurviveErrors` (`OnlyUncaughtErrorsCostTheReport`), `ReportsCountEndedStreams` (`OnlyEndedStreamsCount`), `PercentilesAreTrue` (`PercentilesAreRanks`) |

**Admission.** `Shape`, the types together with `DequeMatchesQueue`, is inductive: the
deque holds each waiting call once, so removing a future removes the call
(`WithoutRemoves`), and `Notify` changes one pending future and nothing else
(`NotifySetsOne`). Given `Shape`, `Accounting` is inductive by counting the sets that
each action adds to or takes from. Given both, `NoLostWakeup` is inductive as it
stands; it is the heart of the controller. It says that while a call is
pending, slots in use plus calls on their way are at least the capacity. A
release gives back one slot and wakes one call (`NotifyCovers`); a cancellation
turns a notified call into a cancelled one, which is still on its way; its
unwinding takes it away and notifies exactly when a slot is free. A weaker
statement, that a free slot and a pending call imply some call on its way, is
not inductive: two slots may be free with one call on its way. `SafelyImplements`
maps the calls that hold, that wait and that were refused to the three sets of the
abstract specification; a refusal is one the abstract specification allows
because a full queue has, by `Accounting`, as many calls as its limit.

**RateLimiter.** `RateBound` speaks of the past and is not inductive:
`WindowBudget` adds what the bucket would allow at once to the left side. A grant
moves a token from the bucket to the count, time raises both sides by the same
amount, a new window starts with at most a full bucket. `RefusalsAreEarned` needs
`RefilledSinceGrant`: a bucket holds at least the refill since the last grant or is
full, so one with less than a token was granted from less than a token's time
ago. Products of a constant and a time are named by `PICK` so that the solver
sees linear arithmetic. `WholeTokensAreEnough` compares each answer with the bucket
rounded down to whole tokens: a bucket that is granted from had the next whole
token, one that refuses has none. It assumes a table with room for all clients,
since an eviction gives a client a full bucket that whole tokens do not grant;
with a smaller table TLC finds that behaviour.

**Serving.** `UsesAdmissionAsMeant` is a refinement: each step of the handler is
one operation of the controller or none, so that every theorem of
`AdmissionProofs` holds of the service, and in particular its count of leases. To
this `Leases` adds where the leases are: a request that a thread works for, or
whose stream is open, holds one, and a request whose stage is over holds none
unless its close failed. `BackendLoadBounded` is then a comparison of two sets.
Neither property is inductive without the stage of each request. Refinements
compose: `ServesBoundedly` and `WaitersAreWoken` are the theorems of the controller,
taken through the refinement to the handler with its disconnects and timeouts.

**ChatHistory.** `TurnOrder` with the types (`Kept`) is inductive as it stands,
and so is `RequestFits`, since the guard of the way to asking is the budget.
`NothingForgotten` needs `Logged`: the log consists of pairs, and what is left of
the turns is its tail. Then a dropped pair is the one at the end of what was
dropped before, and its prompt is the one the memory takes up. Nothing is
assumed of how the size of a prompt depends on it. `CompactionNeverSticks` and
`CompactionShrinks` are the safety half of `EveryPromptSettled`: each round finds
something to do, and one that goes on leaves fewer turns, so the loop ends for
every tokenizer although what it writes to the memory may cost more than
what it drops.

**Gateway.** `Progress` says what is known of a request from where it is: its
answer and whose key it has, and that a barred request that has not been
authenticated has a user who is revoked, which is what carries `RevokedStayOut`
through restorations of others. With the types this is `Safe`, and it is
inductive. `ConnectionsReturned`, `CountersMatchAnswers` and `OnlyOwnRequestsCount` are
each inductive given `Safe`: an answer adds one request to one of the sets that
are counted, and a restart empties them together with the counters and fills
the buckets. What `Limit` does to a bucket is one lemma about `WholeTokens`
(`LimitTakes`).

**LlamaBackend.** `NothingForgotten` and `LoadedIsWhole` need `Calls`: from `Popen` on
there is a process, while `load()` waits it is also monitored, and `close()` waits
only for a server it has signalled. An identity is used again only when no
object refers to it, so a new server disturbs no backend. `LoadedIsWhole` needs
`ReadyIsKnown` besides: while a server on the port is ready, every backend that
has a process is in `ready`, because the server was there before the process or
came up after it.

**Publishing.** The invariant is a statement about each process by itself
(`Holds`): what it has in memory and in its file at each place in the code, that
a file under a path was synced and is good, that a process whose `finally` block
runs without an error has its link, and where a temporary name may still be. It has to include that a linked file is on the
disk, because that is what a power loss keeps. Whether a summary covers
every prompt is arithmetic on the place of a record (`PromptsOfWhole`). The same
invariant gives `FilesAreWrittenOnce`: the link is the step in which the file
appears, and by then it is all there; the end of the `finally` block is where the
path is told, if nothing has raised, and then the link is the process's own;
every other step leaves the paths and what was told alone. `WinnersAreFew` is proved from the abstract steps only: a path that is
free has had no more winners than there were losses.

**LoadRunner.** `OnlyUncaughtErrorsCostTheReport` needs `Reasons`: the main thread
leaves the pool with all the results or because the next one is an error, and
an error stays one; `Sorted` says that the requests that raised are exactly those
that met an exception no clause takes, and `Collected` that what was collected has
returned. `Ordered` and `PoolKept` are what the types need: the queue is the tail of
what was submitted. The figures of the report need two things more. A row
with status 200 is that of a request whose stream came to its end, and of no
other; then the counts are cardinalities of the same set, and the sums are bounded
or equal by induction on a finite set. The percentiles need that a finite
sequence has an ascending permutation at all (`Ascending` chooses one), and that of
an ascending sequence a place tells how many values are below it and above. These
inductions are made by hand, as a least number that fails (`LeastNat`, `AllNat`), since
the induction theorems of the library take an operator as a parameter, which
these provers cannot instantiate.

Only model-checked: all liveness properties (TLAPS has no rule for fairness here),
with the liveness half of the refinement of `BoundedAdmission`, and the four
violations. Only proved, with no run of their own: `PublishedIsOwn`,
`OneWinnerPerLoss`, `AnswersLikeWholeTokens`, `CompactionGoesOn` and `CompactionShrinks`.

## 5. What is not modelled

- *Application and metrics* (`03/app.py`, `03/metrics.py`): wiring, and counters
  incremented once in a `finally` clause. The status they record is that of the
  response's start, also for a stream that fails later.
- *Streaming MLX backend*: inference inside a library. `Serving` takes it as an
  environment that returns, raises or is late.
- *Local inference API*: a synchronous handler without state. What two concurrent
  generations of one model do is inside the MLX library.
- *Service life cycle*: a flag set before and cleared after all requests.
- *Deployment*: configuration, and a start script run once per container.
- Floats: rounding in the rate limiters, in the context thresholds and in the
  percentiles.
- Message contents, payload formats, SSE framing, logging, command lines, `whoami`,
  the gateway's chat client, `/v1/models`, the rendering of reports, averages,
  wall time and rates.
- A forced shutdown that cancels a request while its worker thread runs on: the
  lease is then released with the thread still busy.
- A response dropped before its generator starts, whose `finally` clause does
  not run.
- The limit on worker threads (40), above the concurrency the defaults allow.
- Identifiers of experiments, which come from the clock: `Publishing` takes runs that
  share one, which needs a clock that repeats or a writer called twice.
- Ctrl-C in the few statements of `close()` between forgetting the process and
  `terminate()` (`02/llama_backend.py:258-263`), which would lose a running server:
  `NothingForgotten` is about interrupts of the calls that take seconds.
- Replies that never end: every model bounds them, and no timeout of the code does.
- The files' directory: `Publishing` lets a power loss undo a link, and no property
  promises that it does not.

## 6. What could follow

The components with state and concurrency are modelled. What remains is
narrower: the forced shutdown and the dropped response in `Serving`, which need a
model of the ASGI server; the metrics middleware beside it; `WholeTokens` in
place of `TurnAway`'s refusal in `Serving`; an abstract specification of
`LlamaBackend`, of one process that is loaded or not.

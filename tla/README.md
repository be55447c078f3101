# Formal models of the Beszel plugin for AstrBot

The plugin answers chat commands with the state of monitored servers
(read from a Beszel Hub) and forwards the Hub's alerts, received by a
webhook, to chat targets: the text at once, a history image and an
AI-written diagnosis in the background.  Everything runs on one asyncio event
loop; only the image renderer uses threads.  The interesting behaviour is
therefore *what may happen between two awaits*: these models have one action
for each stretch of code between two suspension points.

## Inventory

| Component | State it keeps | Operations | What is hard about it |
|---|---|---|---|
| `core/webhook/delivery.py` `WebhookDelivery` | `_background_tasks`, `_closed`, `_analysis_records` (a bounded deque per node), `_analysis_tails` (newest analysis task per node) | `deliver`, `_deliver_history`, `_deliver_analysis`, `close` | tasks of one node must take turns; they join the turn order only after an await; a task may fail, have nothing to say, be cancelled, or swallow its cancellation |
| `core/analysis.py` | none (pure) | `extract_analysis_context`, `add_analysis_history`, `summarize_analysis`, `format_analysis_reply` | window boundaries, size limit, errors on odd text |
| `core/beszel/service.py` `QueryService` | `_cached_systems`, `_cache_expires_at`, `_cache_lock` | `list_systems` and the four queries | cache stampede, overwriting newer data, order of answers, a lock lost on error or cancellation |
| `core/beszel/client.py` `BeszelClient` | one HTTP session, `_token`, `_token_expires_at`, `_closed` | requests with login, one replay after 401, renewal, paging, `close` | concurrent requests share the token; late 401; close during a login |
| `core/rendering/renderer.py` `BeszelRenderer` | `_engine`, `_executor`, `_active_renders`, `_idle_event`, `_closed` | `initialize`, `render_*`, `wait_idle`, `close` | threads outlive cancelled callers; concurrent initialisation |
| `core/webhook/server.py` `WebhookServer` | `_runner`, `_site` | `start`, `stop`, `healthz`, `notify` | stop drains handlers before it closes the delivery; bind failure |
| `core/webhook/parsers.py` | none (pure) | `parse_payload`, `attach_history` | source detection, fallbacks |
| `core/plugin.py` `BeszelPlugin` | the components above, the generated token | `initialize`, `terminate`, the chat commands and tools | order of shutdown; each step may fail |
| `core/config.py`, `core/access.py` | none (frozen data) | `PluginConfig.from_mapping`, `AccessPolicy` | range checks at the boundaries; some errors refuse everything, some only switch the webhook off |
| `core/rendering/presenter.py`, `templates/charts.py` | none (pure) | `build_history`, `_axis_bounds`, `_ticks`, `_path` | gaps, windows, axes, clock changes, overshooting curves |
| other templates, formatters | none (pure) | document to markup | layout only |

How they interact: `WebhookServer.notify` awaits `WebhookDelivery.deliver`,
which spawns one task per optional branch and awaits the raw text.  A branch
task awaits `QueryService.list_systems`, further queries, the renderer or the
chat model, and `send_message` of the host.  Chat commands call the same
service and the same renderer.  `BeszelPlugin.terminate` stops the server,
which closes the delivery, which cancels its tasks and waits for the renderer;
then it closes the renderer and the client.

Correctness, by component:

* *analysis branch*: one analysis of a node at a time, in acceptance order;
  each prompt carries exactly the earlier diagnoses it should; no task is stuck
  waiting; nothing is sent or left running after `close()`;
* *system list*: one fetch at a time, only when the cache is stale; the list
  never goes back in time; calls return in order; nobody waits for ever;
* *client*: a request never travels as a guest's because its token expired on
  the way, a rejected token leads to one login and one replay, nothing is sent
  after close;
* *renderer*: `wait_idle` returns only when every render submitted before it is
  over in its thread; nothing is submitted after close;
* *server and lifecycle*: a handler that was accepted delivers its text, the HTTP
  status tells what became of it, and after `terminate` no part of the plugin is
  running; a saved token keeps working;
* *queries*: images show nothing older than the query; a listing is wrong only
  where paging cannot help it, and asks for no more pages than there are records for;
  one failed read costs no more than its part;
* *prompt and charts*: what the model is told of its data is so, the prompt fits
  and says that it was cut (it does not always: finding 3); a chart shows every
  sample it has.

## Modules

| Module | Models | Checked by | Proved in |
|---|---|---|---|
| `AnalysisHistory` | the deque of diagnoses of a node and the choice of those a prompt carries (pure operators) | through `AnalysisChain` | lemmas in `AnalysisChain_proofs` |
| `AnalysisChain` | the analysis task of each alert, the chain of its node, `close()` | runs `chain*` (`MCAnalysisChain`) | `AnalysisChain_proofs` |
| `TurnQueue` | abstract: clients that line up in queues and are served in turn | through `AnalysisTurns` | |
| `AnalysisTurns` | the refinement mapping from `AnalysisChain` to `TurnQueue` | run `chain` (`MCAnalysisChain`) | `AnalysisChain_proofs` |
| `SystemList` | `list_systems`, cache and lock | run `system_list` (`SystemReads`) | `SystemList_proofs` |
| `OrderedReads` | abstract: reads of a changing world | through `SystemReads` | |
| `SystemReads` | the refinement mapping from `SystemList` to `OrderedReads` | run `system_list` | `SystemList_proofs` |
| `AlertAnalysis` | tasks and list together: node resolution through the shared list, chat users' queries contending for it | runs `alert_order*` (`MCAlertAnalysis`) | `AlertAnalysis_proofs` |
| `BeszelSession` | authenticated requests sharing one token and one HTTP session | run `session` (`MCBeszelSession`) | `BeszelSession_proofs` |
| `RenderPool` | render calls, the thread pool, the idle event, `close()` | run `render_pool` | `RenderPool_proofs` |
| `PluginConfig` | `PluginConfig.from_mapping` (pure operators) | through `PluginLifecycle` | lemmas in `PluginLifecycle_proofs` |
| `WebhookPayload` | `parse_payload`, and what a notification asks for (pure operators) | through `WebhookServer` | lemmas in `PluginLifecycle_proofs` |
| `WebhookServer` | listener, request handlers, raw text, optional tasks, `stop()` and `close()` | through `PluginLifecycle` | `PluginLifecycle_proofs` |
| `PluginLifecycle` | the plugin from start to start: token, `initialize`, `terminate`, death of the process; composes the three above | run `plugin` (`MCPlugin`) | `PluginLifecycle_proofs` |
| `GracefulService` | abstract: a service that can be taken down at any moment | through `PluginService` | |
| `PluginService` | the refinement mapping from `PluginLifecycle` to `GracefulService` | run `plugin` (`MCPlugin`) | `PluginLifecycle_proofs` |
| `RecordPaging` | records of the Hub that change, and listings that page through them | through `SystemQueries` | lemmas in `SystemQueries_proofs` |
| `SystemQueries` | the queries of the commands and tools, from the access check to the last message | run `queries` (`MCSystemQueries`) | `SystemQueries_proofs` |
| `AnalysisPrompt` | summaries of series, ranking of containers, the shortening of the prompt (pure operators) | through `Readings` | lemmas in `Readings_proofs` |
| `HistoryCharts` | which samples a chart shows, its segments, axis, window and curve (pure operators) | through `Readings` | lemmas in `Readings_proofs` |
| `ChartTicks` | the ticks and labels of a time axis in a zone whose clocks change (pure operators) | through `Readings` | lemmas in `Readings_proofs` |
| `Readings` | applies the three above to one input at a time | runs `readings`, `prompt_cuts` (`MCReadings`) | `Readings_proofs` |

Definitions named *Faulty variant* are not part of any specification.  Each is
one definition the way a plausible bug would have it; substituting it for the
real one must break the property it is written for.

### AnalysisChain

`phase[a]` says at which await the task of alert `a` is suspended:

| `phase` | suspended in |
|---|---|
| `idle` | the alert has not arrived |
| `resolving` | `_resolve_system` (line 221), or created and not yet started |
| `gathering` | the queries for detail, history and health (235-266) |
| `waiting` | `asyncio.wait([previous_task])` (272) |
| `asking` | `_generate_analysis` (297) |
| `sending` | `send_message` to target number `target[a]` (310) |
| `done`, `failed`, `cancelled` | ended by return, exception, `CancelledError` |

`tails`, `records`, `previous`, `hasPrompt` are the code's `_analysis_tails`,
`_analysis_records`, `previous_task` and `user_prompt is not None`.  `earlier[a]`
is a history variable: the tasks that had joined the chain when `a` did.
Cancelling is two steps, as in asyncio: `close()` requests it (`cancelPending`)
and the task notices at its await (`Cancelled`).  A task in the hands of a chat
provider or a platform adapter may be resumed normally instead, because those
are foreign code and may swallow the cancellation (`NoReply`, `Reply`,
`SendReturned`); the code's tests of `_closed` are there for this case.

Times are wall-clock readings and may go back.  A prompt is present or absent;
building it may also raise (`ExtractRaises`).

### SystemList

`call[c]` is the state of one call of `list_systems`.  The lock is asyncio's:
`release()` hands it to the first waiter, which stays queued until it runs
(`woken`), and a newcomer queues behind it.  A hit releases the lock in the step
that took it.  A list is the number of changes the Hub had seen, and a fetch
returns any version from the one at its start to the one at its end.  With
`TTL = 0` the same actions run without the lock and without storing anything.

### SystemReads

A pending reader of `OrderedReads` is a call that waits for the lock or for its
fetch; a hit that need not wait calls and returns in one step.  Taking the lock
over, storing a list, the clock and the end of the time to live are not steps of the abstract
specification.  It promises more than the invariants of `SystemList`: with caching
on, what calls return is one history of the Hub's list, whoever asks.

### AlertAnalysis

The task of alert `a` makes call number `a`; other numbers are chat users'
queries.  The steps of the two parts are joined where the code runs without
suspension: the step in which `list_systems` returns to a task is the step in
which the task joins a chain, or ends without a node.  The event loop starts
tasks in creation order.

`UserQuery` stands for any other call of `list_systems`, among them the ones
`get_system_detail` and `get_system_history` make while an analysis gathers data.

### BeszelSession

`phase[r]` is the exchange a call of `_authenticated_json` is in: `login` and
`get`, after a 401 `relogin` and `replay`; `wire[r]` is that exchange (`sent`, or
the Hub's answer on its way back).  A token is named after the login that got it.
Choosing the token and sending are one step, because the code has no suspension
in between; so are storing a new token and sending the GET that waited for it.
`denied` stands for `BeszelAuthError`, `failed` for the other errors.  A login
whose answer arrives while the client is being closed still stores its token;
its request then fails in `_ensure_session`.

Time passes only while no exchange exceeds `Timeout`.  `SessionAssumption` says
what the numbers must satisfy.  In the program the margin is 60 s, the timeout is
configured between 2 and 60 s, the fallback lifetime is an hour and the Hub's
tokens live for days, so the assumption amounts to *the Hub's clock is ahead of
the plugin's by no more than 60 s minus the timeout*; nothing in the code
enforces this.  That no accepted timeout exceeds the margin is a part of
`SettingsWork`; the longest leaves nothing for clocks that disagree, nor for
aiohttp, which rounds timeouts above 5 s up to a full second.

`ExchangesMoveOn` is why a request ends: it has at most four exchanges, each of
them made once, and none outlives its timeout (`WaitInv`).

### RenderPool

`caller[c]` is the coroutine of a call of `render_*`, `work[c]` the job of its
current page in the pool.  They part when the caller is cancelled: a running job
goes on, a queued one is withdrawn (`Withdraw`) unless a thread is quicker.
`untold` are jobs whose `_on_render_finished` has been scheduled on the loop but
has not run.  `asyncio.Event.set` releases the present waiters; they return later,
when the event may be cleared again.  A call for a single view is an overview
of one page; how many pages an overview has is a free choice up to `Pages`.
Engine start is a thread too (`initializing`); its cancellation abandons it.

### AnalysisTurns

A queue of `TurnQueue` holds the running tasks that have joined a node's chain;
a turn is the model call and the sends.  The abstract queue knows nothing of
tails: a client waits for everybody who was in the queue when it joined.  That
one tail per node, waiting for the previous task alone and removing only one's own
entry amount to the same is what `TurnsImplemented` says.  A task that fails while
its prompt is built is a client that breaks down and excuses those behind it
(see Findings).

### WebhookServer and PluginLifecycle

`handler[r]` is the coroutine of a request: `reading` its body, `sending` the raw
text to target number `target[r]`, `answered`, or `dropped` by a cancellation.
`task` has the optional branches; the history branch is modelled step by step
(`resolving`, `querying`, `drawing`, `sending`), the analysis only by its end,
since `AnalysisChain` shows it from within.  `drawing` holds the renders, which a
cancelled task leaves behind.  `runner` and `delivery` are the stages of
`start`/`stop` and of `close`.  aiohttp's drain is external: it ends when the
handlers have, or it times out and cancels them, or it raises; the last two leave
`abandoned` handlers, which may still call `deliver` on the closed delivery.

`PluginLifecycle` adds what the operator wrote (`file`), what the plugin saved
over it (`disk`), and the steps of `terminate`.  A failed step is the same step:
the code logs it and goes on, so `RendererClosed` and `ClientClosed` stand for
success and failure.  `Dies` keeps only the disk.

### PluginService

A request is a client of `GracefulService`, its optional tasks are the client's jobs, and the
renderer is the resource they borrow.  `closing` is `close()` of the delivery up to its
return.  Settings, bodies, the order of texts and the two ways a drain can fail are
not in the abstract specification; that a handler given up in the drain may live on, even
into the next start, is (`lost`).

### RecordPaging and SystemQueries

A record has its place in the order the request sorts by; its life is `new`,
`live`, `gone`.  New samples come at the end and old ones go at the start,
systems come and go anywhere.  `listing[q][c]` is the page a query asks for and the
rows it has; the page and the number of pages are what the Hub finds when it
answers.  `read[q]` has the other reads, each of which may return, be optional and
fail alone, or fail the query.  A selector is three sets of systems: those it
matches by id, by name and by part of the name, which covers every way names can
contain each other.  The lock around the cache is `SystemList`'s; here any query
that starts after a list was stored may be served from it or fetch, which is what
a time to live of unknown length allows.

`_list_records` counts neither pages nor requests.  That a listing ends therefore
depends on the Hub: one that stands still is read through, one that grows by a
page per request is read for as long as it grows.  No property claims more.  What
the code owes is that it stops when the records do (`PagesFollowTheHub`): no request
is for a page behind all the records there have been since the listing began.

### Readings

None of this code suspends, so `Readings` takes one input and shows its output;
only `_fit_payload` is a sequence of steps, one for each thing left out.  Times
are minutes, metrics whole numbers; `None` (`Absent` in a
chart) is a missing or non-finite value.
Quotients are compared after multiplication, percentages of an axis are in
hundredths, the curve's control points are multiplied by their denominators.
Texts are their lengths and a number of bytes per character.  A time zone is one
change of its offset.

`Limited` is the payload before `_fit_payload`.  It applies two kinds of limits:
those the test at `analysis.py:668` knows of (`InitiallyTruncated`) and, in
`Capped`, those it does not: of the sensor, the operating system, failed disks and their
models, extra disks, the status of a container, and the lengths of lists.  `PromptIsHonest`
claims of a prompt that is not marked no more than that the first kind and `_fit_payload`
took nothing from it; that the second kind may is finding 3.

## Runs

| Run | Shows | Bounds |
|---|---|---|
| `chain` | the chain implements `TurnQueue`; tails, turns, prompts; nothing sent or running after close | 3 alerts, 2 nodes, 2 targets, 3 times, deque of 1 |
| `chain_live` | `close()` terminates; every analysis ends unless a send of its node never returns; prompts with room for two diagnoses | 3 alerts, 1 node, 2 targets, times 0 and 2 h, deque of 2 |
| `chain_failure` | *violation*: a failing task lets its successor overtake | 3 alerts, 1 node |
| `system_list` | one fetch, every call returns, with caching on and off; the calls implement `OrderedReads`: no going back, call order | 3 calls, TTL 0 and 2, clock to 3, 2 Hub changes |
| `alert_order` | analyses finish in acceptance order with caching | 3 alerts, 1 user query, TTL 1, clock to 1 |
| `alert_order_uncached` | *violation*: without caching they may not | the same, TTL 0 |
| `session` | never a guest, one reset survived, nothing sent after close, each exchange made once | 2 requests, timeout 1, skew 1, margin 2, lifetime 3, clock to 4, 2 resets |
| `render_pool` | `wait_idle` waits and returns, nothing submitted after close | 2 callers, 2 pages, 1 thread, 2 waiters |
| `plugin` | the plugin implements `GracefulService`; nothing outlives `terminate`, which returns; drain before cancel; status and text agree; saved tokens work; settings are usable | 2 starts, 2 requests, up to 2 targets, 4 bodies, 76 files |
| `queries` | fresh images, complete listings, systems found, failures kept apart, no page asked for behind the records | 2 queries, 3 records, pages of 1, 2 Hub changes, 5 pairs of queries |
| `prompt_cuts` | *violation*: a prompt lists a text that was cut and does not say so | the payloads of `readings` and those one limit further |
| `readings` | the prompt's account of its data, ranking, size; charts, ticks, curves | inputs around each boundary, see `MCReadings` |

Two requests with two logins each let a 401 arrive after another request has
renewed the token; the times are the smallest at which every inequality of
`SessionAssumption` is tight, and the clock passes a token's end.
Two callers and one thread leave a job queued, and two pages let a caller
submit again while a waiter is released.

Three alerts are the least with a predecessor, a task that drops out in the
middle, and a successor that could overtake; two nodes show that chains do not
disturb each other; two targets give close a place between two sends.  A deque
of one is full after the first diagnosis, a deque of two holds everything three
alerts can put before the last prompt.  The times differ by nothing, by the
windows, by a second more, and backwards.  Three calls let one fetch, one be
handed the lock, and one queue or arrive meanwhile.

Two requests are the least with a handler that outlives the drain while another
has spawned tasks; two starts let a token be saved, lost with the process, and
used again.  The settings of `MCFiles` differ from good ones in one field, at the
edges of each range: the code checks each field by itself, so pairs of errors add
nothing.  A body asks for one optional task at most; two requests combine them, and the tasks
of one request share no more than those of two.  Three records and pages of one put a creation or a deletion before,
between and behind the pages read; one query of each pair can fill the cache the
other uses.  `MCReadings` says what each set of inputs is around.

The type invariants and the inductive invariants of the proved modules are not
checked by the runs: the proofs establish them for every value.

Symmetry is used for nodes (`chain`) and requests (`session`), in runs without
liveness.  Deadlock is checked in every run: a finished system stutters through
`Unloaded`, `AllReturned` or `AllEnded`.

### Fairness

`Fairness` asks that a task that can be resumed is resumed: HTTP requests have a
total timeout, the model call has `wait_for`, a cancelled task gets its
`CancelledError`, the event loop is fair.  The code sets no limit on the host's
provider lookup; that it returns is assumed with the model call.
Nothing is assumed of `send_message`, which has no timeout: `close()` terminates
without it, and a send that never returns is the only thing that holds up its
node's later analyses until `close()` (`EveryAnalysisEnds`).
`ListFairness` asks that fetches end and that the caller holding the hand-over
runs.  A fetch ends because each of its requests does, by aiohttp's total timeout and
`ExchangesMoveOn`, as long as the Hub does not outgrow it (`PagesFollowTheHub`).
`BeszelSession` and `SystemQueries` have no liveness properties and assume no
fairness: of a request or a query that is not over, the deadlock check says that
it can go on.  `PluginFairness` asks only that a shutdown goes on: aiohttp's drain has a
timeout, cancelled tasks get their `CancelledError`, renders end.  Nothing is
assumed of `send_message` there.  The fairness of `RenderPool` asks that native code ends, that the pool's threads take queued jobs
and that the loop runs its callbacks.  `WaitIdleEnds` is about finitely many
callers: chat users who kept the renderer busy for ever would keep the event
cleared and `wait_idle` waiting.

## Proofs

`AnalysisChain_proofs` proves, for any number of alerts, nodes and targets, any
history settings and any times (assumptions `HistoryAssumption` and
`ChainAssumption`):

* `ChainInvariant`: `Spec => []ChainInv`.  The turn order is not inductive.  It
  needs to know that the predecessor a task waits for stands for everybody who
  joined before (`PreviousInv`: the earlier tasks of `a` are those of
  `previous[a]` and `previous[a]` itself), that a chain without an entry has
  nobody running (`FreeChainInv`), that the entry is the newest task and runs
  (`TailIsLive`), and that after close nobody passes the wait (`CancelInv`: all
  tasks before their turn are cancelled).  All of these but the tail's
  liveness hold only *unless a task of the chain failed*, which is where
  the finding below comes from.  All steps of a joined task have one shape
  (`Moves`, lemma `TaskSteps`); `MoveStep` and `OtherStep` do the induction.
* `AnalysesTakeTurns`, `TailsAreLive`, `TypeCorrect`: its parts.
* `ClosedIsQuiet`, `ClosedSendsNothing`: after `close()`.
* `PromptsAreInformed`: a prompt carries exactly the diagnoses that are due to it.
  `MemoryInv` says why.  The tasks of a node form one order (`TurnInv`: of two,
  one joined earlier, and knows nothing the other does not).  A task that has sent
  its diagnosis had its turn (`SentInv`).  So the node's deque has the newest
  diagnoses in that order (`RecordsInv`, `HasNewest`): what it has dropped is
  older than all it has, and it drops only when full.  Two lemmas about the deque do
  the counting: `KeepsNewest` for `append`, and `RememberedIsKept`, by which "fewer
  than `MaxRecords` diagnoses are newer" and "is in the deque" are the same; then
  `SelectsWhatIsDue` reads `_select_history` off.  Once the turn has begun, what
  was due cannot change any more, because everybody earlier has ended (`DueStays`).
  All of it holds only while nobody has overtaken, which is what `InTurn` says.

Its second half proves that every step of the chain is a step of `TurnQueue` or
leaves the queues as they are (`TurnsAreImplemented`): one lemma for each way a task
joins, begins its turn, leaves or breaks down, all from `ChainInv`.  The queue's
rule, to wait for everybody who was there, comes out of `PreviousInv`.

`AlertAnalysis_proofs` proves that the composition implements both its parts, so
that their invariants carry over (`AlertsTakeTurns`, `AlertsShareTheList`, `AlertsReadOneHistory`).
`AlertsFinishInOrder`, the comment of finding 2 for `TTL > 0`, needs an
invariant of the composition, `AlertInv`: each task's call is where its phase says
(`CallInv`), calls are made in the order of acceptance (`StartInv`), and chains are
joined in that order (`JoinInv`).  The last follows from `CallsReturnInOrder`: the
step in which a call returns is the step in which its task joins.

`BeszelSession_proofs` proves, for any number of requests and all times that
satisfy `SessionAssumption`, `SessionInvariant`.  `NeverGuest` needs to know that a
token is kept only until it could no longer survive a request's timeout
(`KeptInv`), that a token fresh from a login survives one more exchange
(`LoginInv`, `NewTokenUsable`) and that no exchange outlives its timeout
(`WaitInv`); `SurvivesOneReset` needs that a repetition carries the request's own
token, issued after its first 401 (`ResetInv`).  `RequestsMoveOn` goes through the
actions.

`RenderPool_proofs` proves `PoolInvariant` for any number of callers, pages and
threads: the counter is the cardinality of the unfinished jobs, and a waiter is
released only when that is zero, at which point all it covers is over.

`SystemList_proofs` proves `ListInvariant` for any number of calls and any times,
and from it `FetchesAreSingle`, `ListsNeverGoBack` and `CallsReturnInOrder`.  That
one call fetches at a time needs to know that the lock is handed over only when it
is free and only to the head of the queue (`LockInv`, `QueueInv`); that calls
return in order needs the queue to be in call order and everybody before a call
that has the lock to have returned (`OrderInv`); that lists never go back needs
the cache to hold the newest list returned, which no fetch under way can undercut
(`AgeInv`).  Its second half proves that every step is one of `OrderedReads`
(`ReadsAreImplemented`).  The newest list must exist, which needs that only answered
calls have a list (`NewestInv`).  An answer is an abstract return because of what
`ListInv` says of the state *after* it (`AnswerIsReturn`): the order of calls and the age
of lists hold there, and they are exactly what the abstract read asks for; where the answer
came from does not matter.

`PluginLifecycle_proofs` proves `PluginInv` for any number of starts, requests and
targets, and any settings and bodies of the form `LifecycleAssumption` and
`WebhookAssumption` describe.  It has one part for each
thing the properties relate: the delivery is open while there is a listener, idles
only without tasks and closes only without renders (`CloseInv`); handlers at work
without a listener have been abandoned (`DrainInv`); a handler has started nothing
and answered nothing before its body is read (`HandlerInv`); the plugin's stage
fits the server's (`StageInv`); settings in use passed their checks
(`SettingsInv`); a token that was promised can be one (the last conjunct).  Each
group of steps has a lemma, and those that all steps of a handler or a task
share (`ErrorStep`, `TaskMoves`) come first.  The theorems on shutdown, status, tasks, tokens
and settings are corollaries; `ClosedShowsNothing` is an action property.
`ComesDownInOrder` says that every step is one of `GracefulService`.  It needs that close has
cancelled whatever still runs (`CloseInv`), so that no task begins to draw; that only
handlers that have arrived are given up and only those at work are cancelled (`DrainInv`);
and that nothing has been stopped while the plugin is up (`StageInv`).

`SystemQueries_proofs` proves `QueriesInv` for any number of queries, any finite
set of records, any page size and any changes of the Hub.  The heart of it is what a
listing knows between two pages (`ListingInv`, `Listed`): of the records that were
there when it began and still are, those with a place before the next page are in
the rows, once, unless a page has shifted.  `PageHolds` says
that a page has the records at its places, `PageKeepsListed` that reading one
keeps `Listed`, `ChangeKeepsListed` that changes of the Hub do, `LastPageCompletes`
and `CompleteIsListedWell` what the last page adds up to.  From it, a list in the cache
has every settled system once (`CacheInv`), so that one typed in full is found
(`FoundInv`); that images are fresh needs only that a query's own reads are
(`FreshInv`); `HealthInv` and `FailureInv` keep the failures apart.  `PagesNeverRunAhead`
is a part of what a listing knows (`ListingGood`): the next page is asked for only while it
has a record (`IsLast`), and records seen stay seen (`SeenSince`).

`Readings_proofs` proves what the prompt and the charts say of their data, for
samples, containers and texts of any number.  None of it suspends, so the
invariants are simple: `Results` (what is shown is what the algorithm makes of the
input; a lemma) and, for the one algorithm that takes steps, `Cutting`.  The work is in the
algorithms, and where one would use induction the proofs use that finite
sets of numbers have a greatest member (`GreatestExists`, from the well-foundedness
of inclusion).

* `QualitiesAreHonest`: the window splits into baseline and recent samples
  without rest (`SeriesFits`).  Where no gap is reported, each sample is at most one and a
  half intervals per sample from the first: the last one of which that is true
  must be the last of all (`CoveredWithoutGap`).
* `BusiestAreListed`: `Outranks` is a strict order (`OutranksOrders`), so the
  candidate that nobody outranks exists (`FirstExists`), three are
  listed unless fewer qualify (`ThreeAreListed`), and a container with more of
  both outranks (`MoreOfBothOutranks`).
* `PromptsAreHonest`: `LeftOut(p, r, k)` says, field by field, what `k` steps have left
  of a payload; `OneMoreStep` carries it over one step, and after the last it is
  what `Smallest` says (`NothingLeft`): a prompt is given up only when all that can
  be cut has been.  One that is not marked is `Capped` (`LimitedTexts`): the limits
  that the code's test knows of change nothing when it finds nothing.
* `ChartsAreComplete`: segments cover the samples (`SegmentsCover`) and break where
  two neighbours are more than one and a half intervals apart, and nowhere else
  (`LinesBreakAtGaps`); the axis holds the values (`AxisMaxOfSome`); a hidden
  container's peak is no higher than a shown one's (`HiddenPeakLower`).
* `CurvesStayBetween`: the tangent at a point is at most three times the slope on
  either side, being a harmonic mean of the two or the slope itself
  (`HarmonicIsGentle`, `TangentsAreGentle`); a control point is a third of the way
  along it.
* `TicksStayReadable`: every mark is due (`MarksAreDue`) and places grow with
  instants (`PlacesGrow`).  A round local time that the clocks skip is the only kind
  that can lose its mark, and it loses it to the one whose instant it falls on
  (`RoundTimesAreMarked`).  That the thinning of labels has a result follows from a
  smallest set of candidates that would have none (`ThinningExists`); a label that is
  kept need only be compared with the next one kept (`LabelsAreThinned`,
  `LabelsAreApart`).  Where local time runs evenly and the step of the labels leaves
  room, none is dropped (`NoLabelIsLost`), because two candidates are a
  whole number of steps apart (`StepsAreApart`).

Assumptions on the constants: `HistoryAssumption`, `ChainAssumption`,
`SessionAssumption`, `LifecycleAssumption`, `WebhookAssumption`,
`PagingAssumption`, `QueriesAssumption`, `InputsAssumption` and those of
`SystemList` and `RenderPool`.  All but `SessionAssumption` say only what form the
constants have: numbers are naturals, a deque or a page has room for one, the Hub
has finitely many records, an id names one of them, a settings file has a token
and targets, samples have whole minutes, a percentage is at most 100 and clocks are changed by
half an hour or an hour, if at all.  TLC
evaluates them on every run.

Some definitions were rewritten for the proofs.  Overlapping `CASE`
arms (`Refusal`, `Path`) have no value TLAPS can rely on, although TLC takes the first:
their guards now exclude each other, in the order of the code's tests.  A page is
the set of places it covers (`InOrder`, `Rank`), not the subsequence of a sequence
that a recursive operator selects.  The baseline's sum is counted (`SumOver`), not
folded.

Marks and labels of an axis are sets of local times; the labels kept are *the* set
that keeps a label if and only if it is far enough from the next one kept, a
`CHOOSE` whose set the proof shows to exist.

Only model-checked are the liveness properties (`CloseTerminates`,
`EveryAnalysisEnds`, `EveryCallReturns`, `WaitIdleEnds`, `TerminateReturns`), which are out of the prover's reach.  Every
invariant and every action property of the runs that pass is a theorem.  `Bytes` is a
fold, of which the provers know nothing; `PromptsAreHonest` compares payloads field
by field and never evaluates it.

## Findings

1. `chain_failure`: `extract_analysis_context` can raise between joining the
   chain and waiting for the predecessor (an unpaired surrogate in the alert's
   text cannot be encoded in `_fit_payload`).  The chain is cut there and the next
   alert overtakes the running analysis.
2. `alert_order_uncached`: with `cache_ttl_seconds = 0` the fetches for two
   alerts run in parallel and may return in either order, and so do the analyses.
   The comment at the head of the chain promises acceptance order.
3. `prompt_cuts`: "Tell the model when the initial field limits already cut any
   text" (`src/core/analysis.py:667`), but the test that follows looks at six texts
   and lists only.  The names of sensors and disks, the models of failed disks, the operating
   system and the status of containers are cut to their limits and the prompt still
   says `truncated: false`.

These runs show the violations of what a comment promises.  Smaller things met while
modelling, where the models follow the code:

* `_ticks` compares instants with `fold=0`, so in the hour that comes twice when
  clocks go back there are ticks in its first pass only; `TicksAreReadable` claims
  a tick for every round local time only in zones without such an hour.  The loop
  also stops at the local time the window ends at: a window of one hour that ends
  where it began by the clock gets at most one tick.
* A change of the clocks that is no multiple of the ticks (20 minutes), or larger than
  an hour, could lose the tick of a local time that exists; `IsAxis` leaves
  such zones out.
* Lists of the prompt that are limited in length lose their ends without setting
  `truncated`; the comment of finding 3 speaks of text only.
* A percentage above 100 or a negative sample would be clipped by the axis; the
  inputs of `ChartsShowEverySample` are what the Hub records, 0 to 100.

## Not modelled

* Formatting and layout: overview and status cards, templates other than the
  charts, the wording of messages and replies, logging.  They keep no state and
  no property here depends on them.
* The conversion of one record into a dataclass (`models.py`): it either succeeds or
  raises, and a record that breaks the contract is one the list leaves out.
* Container history, metrics and the three lists of the health are read with
  the same paging as samples; `SystemQueries` reads each in one answer.  Reads
  that outlive a failed `gather` go on and are ignored.
* `attach_history` is any node or none; how names are normalised is text.
* `status` and `overview` documents, and `bind_loader_module`.
* `notify` maps an unforeseen exception to 500; the parser and `deliver` raise none
  in the models.
* The host (AstrBot): that it calls `initialize` once and `terminate` once per start
  is taken from `src/main.py`.

## The plan

One extension is left: `BeszelSession` under `SystemQueries`, a query's reads as requests
of the shared session.

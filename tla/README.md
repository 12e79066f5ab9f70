# TLA+ models of homematic-manager

This directory holds TLA+ specifications of homematic-manager (the TypeScript
program under `packages/` and `apps/`), the configurations with which TLC checks
them, and proofs that TLAPS checks. Paths below are relative to the repository
unless they name a module.

homematic-manager connects to the interface processes of a HomeMatic CCU (BidCos-RF,
HmIP-RF, VirtualDevices and others), subscribes to their events with `init`, keeps a cache
of devices, service messages and outages, and writes parameter sets. A backend
(`packages/backend`) holds all of that; web, Electron and CCU add-on shells run it and a
Svelte user interface talks to it over a transport. The hard part is not computation: it is
one JavaScript thread with many `await`s, timers, and partners that restart, answer late
or not at all. Every `await` lets every other handler run. That is what the models are
about.

## Inventory

| component | module | state | operations | what is hard |
|---|---|---|---|---|
| write queue (`backend/src/write/queue.ts`) | `WriteQueue` | queue, busy mark and last start per interface | `enqueue`, `cancel`, the pace timer, the end of a write | three places start a write; a task is neither queued nor started while it waits for its pace |
| interface manager (`backend/src/interfaces/manager.ts`) | `InterfaceManager` | a record per interface, `#idle`, `#stopping`, the watchdog, retry and liveness timers, ports that could not be opened | `start`, `subscribe`, `unsubscribe`, `reconnect`, `stop`, `tick`, `noteEvent`, `probeInterfaces`, `#init` | overlapping `#init()` calls, calls that come during the awaits of others, processes that restart and forget us, moved addresses, late answers |
| callback servers and RPC clients (`backend/src/rpc`) | part of `InterfaceManager` | open servers, sockets | `ensure`, `stop`, `call` with a timeout | a timed-out call may still be worked off; ports in use |
| backend (`backend/src/api/backend.ts`) | `BackendLifecycle` | the current manager, the number of the connect, session count, idle and polling timers, the metadata store | `start`, `stop`, `config.set`, `noteSessions` | two connects at once, a probe overtaken by a save, an idle period against a page that opens, what is started after an await |
| lite interfaces (`backend/src/interfaces/lite.ts`) | `LiteInterfaces` | the client in use, a retry timer, the flags of each interface | `start`, `subscribe`, `unsubscribe`, `reconnect`, `stop`, the client's events | a client that is replaced while it connects, gaps in the stream |
| transport (`backend/src/transport/wsServer.ts`, `ui/src/lib/transport/WebSocketTransport.ts`) | `ApiTransport` | sockets on both sides, open requests, queued events | connect, request, broadcast, answer, keep-alive | a socket that is lost, with or without a word; answers beside queued events |
| caches (`backend/src/cache`, `core/src/serviceMessages`) | `CacheStore` | devices, service messages, the outage counter and their files | callbacks, refreshes, acknowledgements, load and write | an answer read before a callback and applied after it; restarts |
| paramset writes (`backend/src/write/paramset.ts`, `repair.ts`, `core/src/paramset`) | `ParamsetWriter`, `ParamsetValues` | none of their own | put, link, value, repair; cast, validate, compare | what is sent is worked out from what was read; one of several writes fails or is cancelled |
| persistence (`backend/src/util/jsonFile.ts`) | `WriteJsonFile`, `DebouncedJsonFile`, `KeptFile` | a pending value, a debounce timer, a chain of writes, the file and its temporary | `save`, `flush`, `remove`, `writeJsonFile` | crashes between two steps, writes of one file that overlap, removal during a write |
| metadata and ReGa (`backend/src/meta`, `backend/src/rega`) | the store's start and stop in `BackendLifecycle` | provider, documents, an availability flag | detect, start, stop, edit | a detection that ends after the disconnect |
| core library (`packages/core`) | `ParamsetValues` for its paramset part | none | pure functions over descriptions | boundaries |
| UI, shells, images, discovery, legacy | - | - | - | outside the scope of the models |

What makes them correct, in one sentence each: the queue never lets two writes of an
interface overlap or come closer than its pace, and answers every one; the manager is
subscribed whenever it wants events and quiet whenever it does not; the backend has one
live manager at most, made with the connection that is saved, subscribed while a page is open
and idle when none is; the openccu-lite system never sees two event streams of one token; an
answer reaches a page after the event its request caused, and no request waits on a lost
socket; a file is always some complete value that was saved; a cache ends up with what the
CCU last said and counts its outages; a write sends what its preview showed, and nothing is
answered as ok that was neither acknowledged nor found there. Where the code falls short of one of these, the
property says by how much. `PROJECT.json` lists the
components and, under `hazards`, each place in the code where that can go wrong.

## Modules

### WriteQueue

`WriteQueue` is `write/queue.ts`. `pending`, `running` and `promise` are the fields of the
class and the promises it returned; `held` is the task that `#drain()` has shifted off
the queue and that waits for its pace timer; `started` is what is on the wire. `Drain` is
`#drain()` as a whole and is a part of `Enqueue` and `Settle`, exactly where the code calls
it; `TimerFires` is the callback of `#schedule`; `Cancel` is `cancel()` of one interface or
of all. Time is counted per interface from its last start and only up to its pace, which is
all that the code's comparison can see; the clock (`Date.now()`) is assumed to go forward.

* `OneAtATime`: at most one write of an interface is on the wire or about to be.
* `PaceKept`: none starts before its pace, whichever of the three ways it starts.
* `NeverStuck`: the busy mark is exact, and nothing is queued behind a free interface.
* `SettledForGood`: a promise settles once; a cancelled write is never sent.
* `EveryWriteSettles`: under fairness of the timers and of the ends of writes (every RPC
  has a timeout), every promise settles.

### InterfaceManager

`InterfaceManager` is `interfaces/manager.ts` with the parts of `rpc/server.ts` and
`rpc/client.ts` it drives. The correspondence:

* `entry[i]` is the `ManagedInterface` of an interface and the flags of its `InterfaceState`.
  Error texts, time stamps, counters of attempts and notices are left out. What the code does
  with times are comparisons, and those are kept: `failing` is `failures > 0`, `backoff` is
  "`retryAt` has not come", `window` is "within the start window", `silence` is how the time
  since `lastSeenMono` compares with two thirds and with all of the timeout, `ponged` is
  `lastEventMono >= sentAt`. Time passes in `FallsSilent`, `BackoffEnds` and `WindowCloses`,
  and an armed timer may fire at any moment.
* `attempt[i][c]` is an `#init()` call in flight, by who made it (start, subscribe, the
  watchdog, a retry timer, a reconnect, a missing PONG). Its stages are the awaits of
  the code: `reopen` (a callback port that failed), `resolve` (the look-up of the own address),
  `sent`, `worked` (the process did it, the answer is under way) and `sweep` (`onConnected`).
  `BeginInit` is everything up to the first await, `Resolved`, `InitAnswered`, `InitFailed`,
  `SweepDone` and `SweepFailed` everything from one await to the next.
* `calls` holds the async methods that have not returned; each is one action up to its await
  and one after it (`Start`/`StartOpened`/`StartDone`, `Unsubscribe`/`UnsubscribeDone`, ...).
* `leaked` counts the intervals whose handle `#startWatchdog()` overwrote: they go on ticking.
* `handlers`, `up`, `late`, `inbound` and `address` are the CCU and the network, modelled
  from how the manager uses them: a process keeps a list of addresses, may work off a
  request after the manager gave up on it, loses its list when it dies, and this machine may
  change its address. `healthy` is a history variable for `LostMeansLost`.

* `StoppedIsQuiet`, `IdleIsQuiet`: no retry timer and no liveness timer survives `stop()`, or `unsubscribe()` until
  somebody subscribes, though events, answers and failures arrive during their awaits. The watchdog is
  not part of them: a `start()` or `subscribe()` in flight starts it afterwards (`manager.ts:593`).
* `NoInitAfterStop`: nothing is subscribed once `stop()` was called, not even by an attempt
  that was between two awaits.
* `WaitingIsRetried`: the watchdog leaves a waiting interface to its retry timer; so there
  is one, or an attempt is in flight.
* `LostMeansLost`: the liveness ping takes a subscription down only when something was lost.
* `InitNamesOpenPort`: a fixed callback port that is taken is never named in an `init`.
* `Resubscribed`, `ConnectedIsShown`: whatever is lost, an interface that answers pings is
  subscribed and shown as connected in the end, unless the manager is idle or stopped.
* `MethodsReturn`: no method hangs, whatever the CCU does; of `stop()` it says so up to the closing of the manager's own
  callback servers. That await has no timeout (`manager.ts:783`, `rpc/server.ts:163-176`): `StopLeft` begins it, `StopDone`
  ends it, and nothing is assumed of when.

Left out: an interface whose table entry has no `init` (there is none in
`core/src/interfaces/table.ts`), a `start()` that throws because no free port can be
had (what that does to the backend is in `BackendLifecycle`), and the interface list of `probeInterfaces()` beyond the flag it changes.

### WriteJsonFile, DebouncedJsonFile and KeptFile

`WriteJsonFile` is `writeJsonFile()` of `util/jsonFile.ts` for one file. Its calls are numbered
in the order they are made. `HasTurn` is the promise chain in `writesInProgress`: a call goes on
when the one before it has settled. `Begin`, `Finish` and `Rename` are the awaits of the body,
`Fail` is any of them rejecting, and `Kill` is the end of the process at any moment (of the
process, not of the machine: what the file system was told stays). A file is the number of the
call that wrote it and whether it is whole; `NoFile` has number 0.

* `FileIsWhole`: the file is never half a value.
* `AnsweredIsKept`: a write that was answered is only ever replaced by a later one.

`DebouncedJsonFile` extends it with the class of that name: `pending` and `timer` are its fields,
`chain` what the promise `#writing` has yet to hand to `writeJsonFile()`, `flushing` and
`removing` the calls that await that promise. `HandOver` is `flush()` up to its await, also
when the timer makes it. Saved values are numbered, `written[k]` is the value of call `k`.
A file has one `DebouncedJsonFile`; a kill drops what is in memory, and the program goes on
with the same files.

`KeptFile` is what the owner of such a file may rely on, without timers, temporary files or
kills: it holds one of the saved values, goes on only to newer ones, and gets nothing back that
was removed. `gone` (the newest value a removal took) is a history variable for it; `dropped`
(the newest value somebody gave up) and `kept` (the newest value `flush()` returned for) serve
the other two properties.

* `IsAKeptFile`: `DebouncedJsonFile` implements `KeptFile` with `value <- InFile`.
* `FlushedIsKept`: what `flush()` returned for stays until `remove()` is called.
* `EverySaveLands`: the newest value gets into the file unless a write fails, the process is killed
  or the file removed.

A value that is saved and flushed while `remove()` awaits may be removed with the file although
`flush()` returned; nothing in the code says which of the two wins, and `FlushedIsKept`
leaves it out.


### BackendLifecycle

`BackendLifecycle` is the connection of `api/backend.ts`. `stopped`, `manager`, `seq`, `idleTimer`,
`metaStarting` and `meta` are the fields of the class, `config` the number of the save the
configuration comes from. `job[c]` is an async call that has not returned: the `start()`, the
`stop()`, and one `config.set` per client in `Savers`. Its steps are the awaits: `probing` (the
host is asked whether it is an openccu-lite system), `starting` (`manager.start()`), `asking` (ReGa
is asked for the names), `naming` (the wait for them that `#connectNow()` bounds), `leaving` (`manager.stop()`),
`settling` (`#metaStarting`), `closing` (`meta.stop()`), `saving`, `loading`. Each action runs from one
await to the next; `Connect` and `MakeManager` are the two parts of `#connect()`/`#connectNow()` in
front of `manager.start()`. Connection `n` is the `n`-th manager; `phase`, `names` and `store` say how
far it, its ReGa names and its metadata store have come, `madeFor` which configuration it was made with.
`watched` is `#sessions > 0`, `PageOpens` and `PageCloses` are `noteSessions()`, `GraceOver` is the idle
timer. `intervals` are the polling intervals that run and `held` whether `#serviceMessageTimer` is the
handle of one, because a handle that is overwritten cannot be cleared any more.

Where a host matters: the web server and the CCU add-on listen only after `start()` has
returned (`apps/web/src/server.ts:330`), while Electron shows its window first
(`apps/electron/src/main/index.ts:466`), so pages may come during `start()`; all close
their transport before `stop()`, so nobody calls `config.set` after it, though a save may still be on its way.

* `OnlyTheHeldLives`: a manager or a store that is live is the one in `#manager` or `#meta`.
* `StopLeavesNothing`: after `stop()` has returned no manager and no store is live or comes back.
* `ConnectionIsTheSavedOne`: a probe that a save overtook does not bring back the older connection.
* `AttendedIsSubscribed`, `UnattendedGoesIdle`: subscribed while a page is open, idle in the end if none is.

`manager.start()` may throw at any time before it has returned (`StartFails`), also after its manager was stopped and another
made, as it awaits its callback servers (`manager.ts:577-582`). The handler then clears `#manager` whoever is there
(`backend.ts:888`), and that manager cannot be stopped any more: one save during `start()` is enough for it. `dropped`, a history
variable, holds the managers lost in this way, and the first two properties exempt these and no others. Neither speaks of the
service-message polling, which `#resubscribe()` may start after `stop()` (`backend.ts:494`).

`start()` with a connection that is not valid returns at once; a save may be of such a connection, or its file may not be
written or loaded, and then does not connect (`Saved`, `Reconnect`). `NoneAwaitsNothing` is what Node does with an await of
nothing: it is over before any file operation ends. Left out: the RSSI sweep of HmIP, ReGa beyond its
names, the queue's `cancel()` in a disconnect, and the API methods that read or write through the manager.

### LiteInterfaces

`LiteInterfaces` is `interfaces/lite.ts`. `box` is the client of `occulite-client` in use, `ready`,
`retry`, `idle`, `stopping` are the fields of that name, `opening` the clients whose `ready()` an `#open()`
awaits, `shown` the flags of the interface states. A client is a number and its state is
that of the package, which is external: it may be ready, hear only names (an older token),
fail or be refused; it loses its stream and gets it back with or without a resync.
`view` is what the client in use last heard. `Open` and `CloseBox` are `#open()` and `#closeBox()`
up to their awaits; `Opened`, `OpenedForNames`, `OpenFails` and `Forgotten` go on after `ready()`, the last when the
client was replaced meanwhile. `StreamLost`, `StreamBack`, `TokenRefused` are `#onStatus()`,
`ProcessIsUp` and `ProcessIsGone` are `#onInterface()`.

* `OneStream`: the system allows two streams per token; the backend never holds two clients open, an idle or stopped one none.
  An idle interface shows that and nothing else, but for `absent`, which `unsubscribe()` keeps (`lite.ts:250-258`).
* `RetriesWhatFailed`: a retry never closes a client that works, and an interface shown as
  waiting is waited for.
* `ShownIsTheSystem`: while the stream is up the states say what the system last said.
* `ConnectsInTheEnd`: a system that answers in the end is connected in the end.

Left out: the device callbacks of the stream (`#onDevices()`, see the hazard at `lite.ts:669`), the
translation of requests, and a `start()` refused for want of an address or an interface, which changes nothing (`lite.ts:210-216`). `reconnect()` of a client whose stream is broken shows its running interfaces as
connected (`lite.ts:281`), which is why `ShownIsTheSystem` speaks of the time the stream is up.

### ApiTransport

`ApiTransport` is `WebSocketTransport` of the UI and `ApiWebSocketServer` of the backend with the
network between them. On the page `socket`, `connected` and `retry` are the fields, `requests` its open
requests: `waiting` for the socket to open (`#whenOpen()`), `pending` on a socket, `resolved` or
`rejected`. `sockets`, `answered` and `pending` are the server's sockets, the mark its keep-alive
keeps and the frames that wait for the next turn of the event loop. `wire` is the network (external): frames stay in order, a
connection may be reset with both sides told, or cut with neither told; the page then finds out
only after the server gave it up, or never, which simplifies what an operating system does.

* `EventBeforeAnswer`: an answer waits behind the events that wait.
* `NoneWaitsOnALostSocket`: a request on a socket that is lost is rejected.
* `TheDeadAreNotCounted`: a socket nobody is behind is no session in the end.
* `StaysConnected`: a page that stays tries again, also when a socket never opened.

Left out: `close()` for good, `stop()` of the server, tokens and user sessions.

### CacheStore

`CacheStore` is the device cache, the service messages and the outage counter of one interface, with the
handlers of `api/backend.ts` that change them. `paired`, `away`, `sticky` and `calls` are the interface process
(external): its devices, whether one of them is unreachable, its `STICKY_UNREACH`, and the callbacks it has
sent and that arrive in order. `reads` are `#refreshDevices()` and `#refreshServiceMessages()` under
way, once by the timer and once by the user: the answer is what was true when it was given and is applied later.
`entry` is `UnreachCache`, `acks` the writes of `#acknowledge()`, `file` what a restart finds, which lags
behind until `stop()` or the delay writes it. `outages`, `reported` (the counter that
`UNREACH` events alone would give) and `doubtful` (the devices that a callback named after the answer applied last was given,
and before it was applied) are history.

* `ListIsTheInterface`: when every callback has arrived, the list is right on every device that is not `doubtful`: the
  code replaces the list with an answer whatever arrived during the read, and the next read repairs it.
* `EveryOutageCounts`: whatever polls, acknowledgements and restarts do, every outage is counted, but one after a `reset()`
  that found the flag set while `UNREACH` was not: an answer older than the recovery, or `STICKY_UNREACH`, had set it,
  `reset()` keeps it with a count of 0 (`cache/unreach.ts:118`), and the next `UNREACH` makes no edge (`:64`).
  `reported.masked` marks that one.
* `MessagesSettle`: the poll makes the messages those of the interface in the end.

### ParamsetValues and ParamsetWriter

`ParamsetValues` holds the pure functions of `core/src/paramset` that a write goes through: `Cast`
(`castValue`), `IsValid` (`validateValue`), `Diff` (`diffParamset`) and of `repair.ts` `FallbackValue` and `RepairPayload`.
Values are tagged (a number, a text of digits, a word, a boolean, one wrapped by the RPC layer) because the
functions tell them apart. `ParamsetWriter` is `ParamsetWriter` and `ConfigRepair` with the dialog in
front and the queue behind: it is an instance of `WriteQueue` for one interface. `call[c]` is a call with
the target it is at; `Read`, `Write`/`NoWrite` and `WriteEnds` are the three stretches between the awaits of
`#putOne()`, `Following` skips the addresses `multiApplyEligibility()` refuses, wherever a call lists them, `Ended` goes on to the next
target or stops where a write was cancelled. `Applies` is the interface process, which may work off
a write after it was given up, and which of a write it acknowledges may drop what its description does not admit
(`Unfit`), as rfd does; `ForeignWrite` is another client of the CCU.

* `SentWasShown`: a target is sent no other value than the preview showed, and no parameter it did not show - with one exception. With "Write every
  parameter" (`ParamsetDialog.svelte:552`) the preview leaves out a parameter whose stored or entered value is not valid and reports it as a problem, while
  the backend, which reads nothing then (`paramset.ts:297`), sends the default of that parameter. The property allows this and no more.
* `OkIsTrue`: of a target that is answered as ok every value was in a write of this call to this target that the interface acknowledged,
  or was read there: the value itself, or an invalid one that only casts to it, such as a string in an `INTEGER`
  (`OnlyReadsLike`; `diff.ts:154`, `docs/config-pending.md:125`), which only a repair puts right. What a device makes
  of an acknowledged write is not claimed.
* `RepairedIsValid`: a repaired channel holds valid values and goes on to.
* `EveryCallReturns`: every call is answered.

`MCParamsetWriter` also checks, as an assumption over a few thousand values and descriptions, that
`Cast` is idempotent, which the preview relies on; `ParamsetWriterProofs` proves it for every value. Left out: dry runs, the BidCos recovery
calls, the reads of `CONFIG_PENDING`, and enum names on the wire (no interface of the table uses them). An empty
`VALUE_LIST` is the same as none, and a word does not begin with a digit (`cast.ts:119`, `:146` tell such apart).

## Runs

`tlc -config X.cfg M` in this directory; every run ends within five minutes on
two workers. Deadlock is not checked: all of these systems may stop for good (a queue
with nothing to write, a stopped manager, a backend that has returned from `stop()`).

| run | module, cfg | question and bounds |
|---|---|---|
| write_queue | MCWriteQueue, WriteQueue | four writes to two interfaces with paces 2 and 1, so a queue forms behind a write that waits for its pace; cancelled at any moment; safety, and that every write settles |
| manager_calls | MCInterfaceManager, ManagerCalls | safety: `start()` and any two further calls overlapping in any order, two inits in flight, a process that may be down at first, a fixed port that may be taken |
| manager_returns | MCInterfaceManager, ManagerReturns | liveness for the same calls with one init at a time, with no assumption on the CCU for `MethodsReturn`, and one as the hypothesis of `ResubscribedByCcu` |
| manager_recovery | MCInterfaceManager, ManagerRecovery | liveness after any two disturbances (death, late or lost answer, moved address, held up callback, failed sweep, unsolicited device callback) |
| backend | BackendLifecycle, Backend | `start()`, `stop()` and two saves of one page that is opened and left twice: three connections, so that a save overtakes a start and another one the save; a start that fails at any moment, a save that fails or is of no valid connection |
| backend_two_saves | BackendTwoSaves | violation, see below |
| lite | LiteInterfaces, Lite | two interfaces of which one may be missing, two calls, three faults; three clients, the first number at which one is in use, one left behind and one opened |
| transport | ApiTransport, Transport | a page with two requests that may lose its socket and open a second one |
| caches | MCCacheStore, Caches | three changes of two devices with two overlapping reads and a restart; or one outage with those; or two outages with the poll alone |
| caches_one_outage | MCCacheStore, CachesOneOutage | violation, see below |
| paramsets | MCParamsetWriter, Paramsets | two calls of any two kinds at three channels, puts also with `writeAll` and channels that hold invalid values, one write of another client, one cancel, failing and late writes |
| debounced_json_file | DebouncedJsonFile | three saves, three writes, two removals, flushes at will, failures and kills |

The bounds of the manager are constants, `MaxAttempts` (inits in flight per interface),
`MaxCalls` (methods called after `start()`) and `MaxDisturbances`. One interface is enough because interfaces
share only the flags, the watchdog and the callback servers, and the proofs hold for any number. Two attempts in flight are the first number at which
attempts can disturb each other (with the liveness properties that is too much for TLC, so those runs have one), two calls the first at which a
method overlaps another one that is not `start()`; one `unsubscribe()` and one `subscribe()`
are pending at a time. In the file models three values are the
first number with one in the file, one being written and one pending; two removals are the
first number that can overlap. `FlushedIsKept` needs a write behind
another one and a later kill, which these bounds have room for. In the caches the budgets are given as
alternatives, because device lists, messages and outages share nothing but the file; two reads are what the code can have
under way (a timer or an init, and the user). One page is enough for the transport, as pages share only the
broadcast.

### Where code and documentation disagree

Each of these runs has one property that quotes a comment or a type's documentation, and
TLC finds a behaviour of the code that breaks it. `findings` in `PROJECT.json` has the quotes.

| run | what happens |
|---|---|
| backend_two_saves | two pages save the connection at once; the second clears `#manager` when its wait for the old one ends, or overwrites it, while the first manager starts, and that one lives on after `stop()` |
| caches_one_outage | an answer of `getServiceMessages` given before a device came back, and applied after it, counts the same outage twice |

Met while modelling and not kept as runs:

* `cancel()` ("rejects everything that has not started yet", `queue.ts:14`) finds nothing during a bulk, because a bulk enqueues
  one write at a time and `#drain()` takes it off the queue at once, also when it then waits for its pace: that write and all
  remaining targets are written (`queue.ts:121`);
* an `#init()` under way when the manager goes idle subscribes afterwards: it looks at `#stopping`, never at `#idle` (`manager.ts:1009`);
* `start()` or `subscribe()` starts a watchdog in an idle manager, or overwrites the handle of one that runs (`manager.ts:593`);
* after a failed init at a moved address the de-registration names an address the process never knew;
* the sweep of one of two overlapping inits clears `subscribing` for both; a callback after a refused init leaves
  `absent` beside `connected`; `subscribe()` during the awaits of `unsubscribe()` leaves the states marked `idle`;
* with "Write every parameter" (`ParamsetDialog.svelte:59`, `:417`, `:432`, `:552`) and a stored or entered value that is not valid the preview shows a problem
  and leaves the parameter out, Write stays enabled for the others, and the backend, which then reads nothing, sends the default of that
  parameter unseen (`paramset.ts:297`, `diff.ts:97`), although `paramsetForm.ts:152-153` says that both compute the same;
  `SentWasShown` has it as its one exception;
* a `manager.start()` that rejects after its await takes the manager that replaced it out of `#manager` (`backend.ts:888`, `manager.ts:577-582`);
  `dropped` in `BackendLifecycle` marks these;
* the first outage after a `reset()` is not counted if an old answer or `STICKY_UNREACH` had set the flag (`unreach.ts:64`, `:118`); `EveryOutageCounts`
  bounds the loss;
* a value of the wrong kind in a device, such as a string in an `INTEGER`, counts as the number it reads like, so a save of
  that number writes nothing and is answered as ok (`diff.ts:154`); `OkIsTrue` names it.

## Fairness

Node runs due timers and continues settled promises, so every timer action and every
continuation is weakly fair. `RpcClient.call()` and `#deregister()` have timeouts, so an
attempt in flight and a de-registration end one way or another (`OwnFairness`). That is all
`MethodsReturn` needs; the closing of the callback servers in `stop()` has no timeout and no fairness. `CcuFairness` adds that a process which died is started again
(the CCU's init does that) and that what it sends arrives; only `Resubscribed` and
`ConnectedIsShown` use it, and `ResubscribedByCcu` has it as a hypothesis. Disturbances, calls
of methods and `WindowCloses` are never assumed to happen. In the file models the timer, the
continuation of promises and each step of the file system are weakly fair; failures, kills and calls are not.

* `BackendLifecycle`: the steps of every caller and connection (probes, `start()` and `stop()` of a manager
  and the wait for the names are bounded by timeouts) and the idle timer; nobody has to call or look.
* `ApiTransport`: the reconnect timer, request timeouts, frames on an open connection, the server's keep-alive
  and its turn, and that the backend answers a request in the end. A cut connection is never assumed to be noticed.
* `CacheStore`: callbacks and answers arrive, acknowledgements end, the program is started again, and the
  poll comes round (strongly fair, because the read of the user may be in its way).
* `ParamsetWriter`: reads and writes end, as RPC has timeouts; late writes and the user are not assumed.
* `LiteInterfaces`: the retry timer, the end of a connect, the client passing on what it heard. That the
  system answers in the end is the hypothesis of `ConnectsInTheEnd`.

## Proofs

Eight modules prove, for every value of the constants that the named assumptions allow, what the runs
check on small instances. The type invariants of the modules other than `InterfaceManager` are proved
there and not checked by a run.

Liveness cannot be proved here, but most of it has a safe part that can: in every state, something is
left that will bring about what is promised. Five theorems state it for every value of the constants:
`NoWriteIsLost` (for `EveryWriteSettles`), `CallsHaveTheirWrites` (`EveryCallReturns`), `NothingIsForgotten`
(`EverySaveLands`), `OfflineIsNeverLeft` (`StaysConnected`) and `WantedIsNeverLeft` (`ConnectsInTheEnd`); and
`WatchedWhileSubscribed` and `UnattendedIsNotForgotten` are of this kind too. That it then happens is what the runs
check under fairness.

*WriteQueue.* `TypeOK` and the invariants are not inductive: that nothing is pending behind a
free interface says nothing of a task that is in two places. `IInv` adds that every queued,
held or started task has an open promise and is in one place only, once, that the busy mark
is set exactly while something is under way, and that the timer of a held task covers what
is left of its pace (`timer + since >= Pace`), which is why `TimerFires` keeps the pace.
`DrainKeeps` is the lemma that both callers of `#drain()` rest on, a new write and the end of one. `NoWriteIsLost` is the other
direction of open promises: `OpenIsPlaced` says that a task with one is in some place (`DrainLosesNone`), and
with `IInv` that is the wire, a timer, or the queue behind one of them.

*InterfaceManager.* `IInv` adds to the types, `StoppedIsQuiet` and `IdleIsQuiet`: an attempt that was
sent carries an address (`SentNamesUrl`), nothing exists before `start()`
(`NothingBeforeStart`), the methods that are pending fit `configured` and `stopping`
(`MethodsOrdered`), a port is closed or listening or the manager was stopped
(`PortsAccounted`), and the strengthening of `WaitingIsRetried` that holds also while methods are
pending (`WaitingIsPursued`). The step lemmas are by shape rather than by action: what a move of
an attempt, of an entry, of a method or of a server preserves (`AttemptMoves`, `EntryMoves`,
`MethodMoves`, `ServerMoves`). `LostMeansLost` needs `HearingInv`: what is on its way comes
from a process that can reach us (`InboundIsReachable`), an interface counts as healthy only while its process
runs and names our address (`HealthyIsListed`), one that was heard reaches an open port (`HeardIsReached`),
and if its ping has no answer yet, the answer is on its way (`PingIsAnswered`). `StepSteady` is what all
steps but a few have in common, that they hear nothing and give nothing up.
`WatchedWhileSubscribed` is the safe part of the recovery under fairness: no `unsubscribe()` between the awaits of
a `start()` or a `subscribe()` leaves a manager that wants events without its watchdog.

*Files.* `WriteInv` adds to the types that behind a call that has not settled all others wait
(`InTurn`), so that the temporary file is that of the call that writes (`TmpIsMine`), and that the
file is the value of a call that was answered. For `DebouncedJsonFile`, `IInv` lines up the values on
their way: those `writeJsonFile()` was called with, then those in `#writing`, then `#pending`
(`ValuesInOrder`). What a `remove()` does not wait for comes later in that line and is newer than
what it removes (`RemovalsTakeOld`), so what is yet to be written is newer than all that is gone
(`GoneIsOver`). `RenameIsNewer` follows, and with it `ImplementsKeptFile`: each step is a step of
`KeptFile` or cannot be seen in the file. `NothingIsForgotten` needs `NewestInv`, that the last value
in that line is the one saved last, because `save()` only replaces what is still pending.

*BackendLifecycle.* `LiveIsHeld` and `StopIsComplete` have one hypothesis, `OneSaver` (no two
clients in `Savers`). It is needed: with two savers `StopLeavesNothing` fails, as
`backend_two_saves` shows. That a `start()` may fail late is no hypothesis but part of the two properties (`dropped`). The
invariant says that one caller at most is on its way to a connection that is still the current one and that there is none while a save
replaces the connection (`OneProbes`, `NoneWhileReplacing`), that a manager which lives is `#manager` or was dropped
(`LiveHeld`), that after the stop in a disconnect none lives (`DownInv`, `GoneInv`), and that the store
is only ever in the making for `#metaStarting` and open for `#meta` (`StoreFollows`, `OpenIsHeld`).
`StopLeavesNothing` also needs where a caller may be at all (`StepsInv`). `SavedIsConnected` needs
`OneSaver` only: `SavingInv` says that a probe that is still current asks for the saved connection, and that a
save which got as far as the store has no manager, whoever fails. `AttendedIsNotIdle` and
`UnattendedIsNotForgotten` have no hypothesis. The latter is the safe part of `UnattendedGoesIdle`, that in each state
something is left that will see to the manager; it needs that a manager that starts is started by a caller
(`StartersInv`), which is the one that arms the idle timer when pages left meanwhile.

*ApiTransport.* `EventBeforeAnswer` needs where each frame is. `Down(s)` is what is on its way to a page,
first what is on the wire and then what waits in the server; `EventInv` says that in it, or among
what the page has seen, the event of a request is ahead of its answer; `OrderInv` that a request is on
its way up once, then at work, then answered. `OfflineIsNeverLeft` is about the slots of the page's side:
while it is offline, its reconnect timer runs or it has a socket of which `onopen` or `onclose` is
yet to come (`Awaited`).

*CacheStore.* `ListInv` is about the callbacks on their way: applied to the list, or to an answer
that is not too old, they lead to what the interface has (`EndsIn`, `AgreeBut`), on the devices no callback named since. `CountInv`
compares the counter with that of the `UNREACH` events alone, in memory and in the file: it is
ahead by one while it takes the device for away and they do not, and one less than that after a `reset()` in this state.

*LiteInterfaces.* `BoxInv` says which clients may be unclosed, `OutcomeInv` what `ready` and the
retry timer say of the client in use; `RetriesWhatFailed`, `OneStream` and `WantedIsNeverLeft` follow.

*ParamsetWriter.* `PreviewIsSent` rests on `CastTwice`, that casting is idempotent for every value a dialog
hands over: then what was shown is what is put (`PreviewInv`, `ShownIsCast`), and what `diffParamset()` makes of it is
the same values, fewer of them, or with `writeAll`, for which nothing is read, the defaults of what is not among them
(`CastIsSentAsItIs`). Its hypotheses are those on data below and `NamesAreGiven`, that no enum has a name
that is how an undefined value prints; the run has calls with `writeAll` and invalid stored values.
`MaxTargets` (3) bounds the targets of a call in the model, and so in the proofs: `FollowingIsLater` goes through them.
`OkIsKept` needs what is left out: `DiffLeavesNothingOut` says that a parameter without a problem is
in the payload or was read with that cast, `WritingInv` that what is on its way is this payload, and `LeftOutAsRead` that a
stored value with that cast is the value asked for or is not valid (`OnlyReadsLike`); for that every parameter has one of the known
types (`TypesAreKnown`).
`UsesTheQueue` shows that the calls, the `Cancel` and the interface process drive the queue only
by its own actions, so the theorems of `WriteQueueProofs` hold of it: `CallsDoNotOverlap` cites them.
`CallsHaveTheirWrites` joins the two: `AwaitedInv` says that the promise of a write is open just while its call
is at it, and that what a call has yet to write has none, so `Enqueue` never finds it taken.
`RepairsLast` and `OnlyValidIsSent` rest on `RepairsInv`: values have the number their tag promises
(`NumbersInv`), what was sent is valid and, from a repair, has every parameter with a fallback (`SentInv`), and what
a repair has applied is still valid (`RepairedInv`). That a valid value is sent as a valid one is
`ValidStaysValid`, because `castValue()` runs after `validateValue()`; `FallbackIsValid`, `RepairIsValid` and `PayloadIsValid`
carry it through `repair.ts` and `diffParamset()`. The hypotheses are about data: in `SoundDescription`, a
`VALUE_LIST` is a list of strings, its names stand within `MIN` and `MAX`, and numbers are numbers; in
`SoundClients`, another client writes a parameter as its description admits it. What the devices
hold at first may be anything. `NamesInBounds` is needed because a stored enum name is judged
without the bounds and sent as its index, which is judged with them; interface
processes give the first and last entry of the list as the bounds. The constants of the run satisfy both.

Only model-checked: everything under fairness, because liveness is out of the prover's reach. The properties
that are proved hold for any bounds, those of the runs for the ones above.

## Not modelled

* *ReGa, RPC log, host discovery, image and description files*: requests with an answer that
  is shown, or text that is written; nothing waits for them but with a timeout.
* *The metadata store beyond its start and stop* (`backend/src/meta`): documents of a profile
  that are edited and exported, over the files modelled above.
* *The core library beyond paramset values*: pure functions without state that lay out devices, links and easy
  modes for the user; each is a table or a single pass over its input.
* *The user interface* (`packages/ui`, the largest part of the code): components that show what
  the API returned. Its transport and the preview of the paramset dialog are modelled, because
  other parts rely on them.
* *The shells* (`apps`): how the backend is started and stopped is in `BackendLifecycle`; packaging,
  windows, login and static files are not.
* *The legacy program* (`legacy`): version 2, kept for reference.

So the share of all lines that a definition stands for stays small: the bulk of them
is presentation. The modelled parts are the ones in which an order of events decides
whether the program is right.

## Plan

Done: the write queue, the interface manager, the files with the abstract file they
implement, the backend, the lite interfaces, the transport, the caches, and the paramset
writes on top of the queue; every safety property the runs check is a theorem. Next would be
the device callbacks of `LiteInterfaces`, and the metadata documents.

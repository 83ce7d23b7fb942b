# A TLA+ model of the TPC API

The library talks OPC UA to the magnetic sensors of a time projection chamber
and computes the field from their readings. Its entry point is the class
`tpc::system::TPC`. Almost everything in it happens on threads of its own:
one runs the OPC UA client, one polls frames, one computes fields, and the
application calls in from any thread, including from event handlers that run on
those three. This directory models that machinery, checks it with TLC on small
instances, and proves the main safety properties with TLAPS for any size.

## Inventory

| Part | State | Operations | Talks to |
|---|---|---|---|
| `TPC` (`tpc.cpp`) | the poller and field worker below | `start_async`, `stop_async`, `start_polling_async`, `calculate_field_async`, `get_field_slice`, `export_to_vtk`, event forwarding | `Client`, `AnalyticsManager` |
| `Client` start/stop (`client.cpp:64-124`) | `running_`, `stop_requested_`, `opcua_thread_` | `connect_async`, `stop`, the worker body | `opcua::Client`, events |
| OPC UA session (`client.hpp:123-187`, `subscription.cpp`) | `channels_info_`, `node_ids_`, `subscription_id_`, `monitored_item_ids_` | discovery coroutine, subscription and item callbacks | server, `FrameReceiver` |
| `FrameReceiver`, `get_frame` | `received_` (at most 36 nodes) | `add_back`, `get_frame` | session callbacks, poller |
| Frame poller (`tpc.cpp:163-187, 341-366`) | `polling_worker_`, interval, revision | start, change interval, stop, loop | `get_frame_request`, events |
| Field worker (`tpc.cpp:189-225, 278-339`) | `pending_calculation_data_`, `field_calculation_in_progress_`, `field_worker_` | submit, loop, report | `AnalyticsManager`, events |
| `AnalyticsManager` | coefficients, field, valid flag, two `shared_mutex`es | SVD, field, slice, export, read view | exporter, Eigen |
| `VtkFieldExporter` | none | layer and row detection, triangulation, file | |
| `event_handler` | handlers, next id | subscribe, unsubscribe, dispose, invoke | everything |
| SVD, basis functions, transforms, calibration, logger | none worth a model | pure computations, I/O | |

What is hard here, and what makes each part correct:

- *Client start/stop*: a CAS, a flag and a jthread handle that are written by
  different threads without a common lock. Correct when one thread owns the
  loop at a time, a stop ends it, and no call waits for ever or for itself.
- *Poller*: a condition variable, a replaceable thread, and handlers that call
  back. Correct when there is one poller, none escapes, and no change is slept
  through.
- *Field worker*: a one-place queue whose flag is released before the events.
  Correct when no job is lost, overwritten or reported wrongly.
- *AnalyticsManager*: two locks and a two-step update, over a basis whose size
  only the solver checks. Correct when a reader sees one computation, whole, and
  no kernel reads a function or a coefficient that is not there.
- *Session*: asynchronous callbacks whose status is partly ignored, repeated
  discoveries, values that outlive their session.
- *event_handler*: invocation of a snapshot, ids that are reused. Correct when
  the registry holds what was subscribed and not ended, and an event reaches
  every handler it was raised to.
- *Teardown*: `stop_async` waits for nobody and `~TPC` destroys member after member
  while workers run. Correct when it returns and nobody touches what is gone.

`PROJECT.json` lists every hazard with its line and the properties that cover it.

## Modules

| Module | Models |
|---|---|
| `ClientLifecycle` | `Client::connect_async`, `Client::stop` and the worker body |
| `PollingWorker` | `start_polling_async`, `polling_worker_loop`, the poller's half of `stop_async` |
| `FieldService` | abstract: what `calculate_field_async` promises |
| `FieldPipeline` | `calculate_field_async`, `field_worker_loop`, the `AnalyticsManager` calls TPC makes, `~TPC`'s join |
| `FieldData` | `AnalyticsManager` alone, with several writers, readers and views; `FieldCollection` |
| `EventHandler` | `event_handler`: subscribe, unsubscribe, release, dispose, invoke |
| `Teardown` | all three workers under `start_async`, `stop_async`, the other calls, `~TPC` and `~Client` |
| `SensorSession` | discovery, channel table, subscription, `FrameReceiver`, `get_frame`, over several sessions |
| `StripTriangulation` | the exporter's layers, rows and triangles, on the grids `calculate_grid_kernel` generates |
| `MC*` | the modules that the configurations instantiate |
| `*_proofs` | theorems and their TLAPS proofs |

### ClientLifecycle

`worker[w]` says where the body of jthread `w` stands; `call[t]` where thread `t`
stands inside `connect_async` or `stop`. Threads are the application's and the
workers themselves: a worker in `runIterate` (where the OPC UA callbacks run),
in `disconnect` or in an error event may be in a handler, and handlers may call
the API. Each access to an atomic, to the handle or to the link is one action:

| Code | Action |
|---|---|
| l. 67, CAS on `running_` | `ConnectClaim` (a refused call changes nothing) |
| l. 70, reset of the flag | `ConnectClear` |
| l. 79, jthread constructor | `ConnectSpawn`, `ConnectSpawnFails` |
| l. 79, move assignment | `ConnectReplace` (stop the thread the member owns), `ConnectJoin`, `ConnectJoined`, `ConnectTake`; `ConnectTerminates` |
| l. 122, l. 123 | `StopFlag`, `StopToken` |
| l. 87-101 | `Open`, `Check`, `Iterate`, `Close`, `Report`, `Finish` |

The failure return of `initialize_opcua_handlers` (l. 74-77) is left out:
`client_` is set in the constructor and never reset. `halted` is a history
variable: it holds the last `stop()` since the last start, and whether that stop
fell between lines 67 and 70. Error handlers are assumed to return: the worker
lambda is `noexcept`, so one that throws ends the process. The link is connected or
not; the states between the two are left out, as nothing tells them apart. After
`ConnectSpawnFails` nothing resets `running_`, and every later start is refused.

No lock protects `opcua_thread_`, and two threads can be in its move assignment
at once: one starts, its loop ends before the assignment, and another starts meanwhile. The
model follows the standard's order (stop, join, take) and reads the handle anew
at each step, so it has what can come of that: one call joins the loop the other has just
put there, which nobody told to stop (`Overtaken`); both join one
thread; or the second finds the member owning a thread again when it takes
over its own, and `std::terminate` is called (`terminated`, after which nothing happens).
`CallsReturn` names these ends, since the code has them: every call returns unless two late
assignments met. TLC reaches each of them. No document says that `start_async` may be called
from several threads, so there is no line of the repository that they break. An
implementation that swaps first (libstdc++) joins each old thread on its own, and has only
the data race on the handle.

### PollingWorker

One action per critical section of `polling_worker_mutex_`: `StartPolling`
(l. 171-184) takes the new setting, keeps a running poller or moves a stopped
one out (`old[t]`, the local `stopped_worker`) and starts another; `Notify`,
`Join` and `SelfJoin` are what the call still does outside the lock.
`StartPollingFails` is the jthread constructor throwing there. `StopPolling` is
the locked part of `stop_async`. The loop is `Check`, `Request`,
`HandlerReturns`, `WaitBegin`, `Timeout` and `Wake`; `wait_for` with a stop token tests
the token and the predicate and releases the lock in one step, so `WaitBegin`
goes to sleep atomically, and a stop or a notify makes a sleeper test again.
`terminated` is `std::terminate`, after which nothing happens. A call with
interval 0 only warns and is left out.

### FieldPipeline and FieldService

`phase` is the field worker's position, `pending` and `in_progress` its one-place
queue, `coefficients` and `field` the data of `AnalyticsManager`, each named by
the job it was computed from. A field passes the stages absent, empty (cleared),
growing (the grid kernel appends), zeroed (sized to the grid) and complete; it is
complete exactly when `field_data_valid_` is TRUE. Failures returned and thrown are
one: the worker treats them alike. A slice or an export spans two actions,
between which the worker moves on; a slice holds the shared lock, so `Store`
waits for it, and an export holds nothing. `calculate_field` holds its two locks
against readers that TPC does not have (`get_field_data`), so they do not
appear here; `FieldData` has them. `Destroy` is the destructor of `field_worker_`, after every other thread has left.

`FieldService` is the promise: one job accepted at a time, the field on show
changes only while a job is being worked on and never while a verdict is being
reported, and the verdict is "success" exactly when the field on show is the
job's own. `FieldPipeline` implements it under the mapping at `Service`: the accepted
job is the pending one or the one in the worker's hands while `in_progress` is set; the finishing one
is the job whose events are being raised.

### FieldData

`at[t]` says where thread `t` stands inside `AnalyticsManager`. A lock is not a
variable: `CoefficientsShared`, `FieldUnique` and `FieldShared` are the threads that hold one,
by their place. The actions follow the code's locks and its early returns:

| Code | Action |
|---|---|
| `calculate_svd_coefficients`, `solve_svd`'s refusals | `Solve`, then `Store` under the unique lock |
| `calculate_field`, its checks and both locks | `Calculate`, then `Invalidate` (`clear`, not valid) |
| grid kernel, `resize_field_to_coordinates` | `Grid`, `Resize`, or `GridFails` |
| field kernel, one point a step; the last store | `Kernel`, `Publish` |
| `evaluate_for_point`, `evaluate_field_slice` | `Evaluate`, `End` |
| `get_field_data`, `export_to_vtk()` | `View`, `Acquire`, `End` |

A value of the field is the solution it was computed with, a grid its number of points, which
may be none: a radius that is NaN passes `radius <= 0.0`. `export_to_vtk(path)` (l. 395-405), which
takes no lock, is in `FieldPipeline` and not here.
`coordinates` and `field` are the two vectors of `FieldCollection`, which differ in length
between `Grid` and `Resize`. The unique lock of `Store` is taken and released in one step. A call
that fails its first checks returns and is not an action. A thread that holds
a view makes no other call until it lets go of it: `std::shared_mutex` is not
recursive, and one that recalculates would wait for its own shared lock.
`CallsReturn` rests on this, and no document says it.

### EventHandler

`stack[t]` is the nest of events that thread `t` is delivering, each with the handlers
of its snapshot still to be called; `ask[t]` is a call of the registry that waits for `mutex_`.
A handler may make any call, raise the event again up to `MaxDepth`, or throw,
which ends the event and leaves the rest uncalled. `Holds` says what is held between
two steps: nothing, since `invoke` copies the handlers and releases the lock before it
calls them. `standing`, `old` and `stale` are history. `dispose` starts the ids anew, so that an
id from before it may remove somebody else's handler: `RegistryExact` excludes runs
in which one is used (`stale`); without that, TLC refutes it. A handler that
is called once more after it was unsubscribed is what a snapshot means, and the
model has it; no document promises otherwise. A handler's order in the map is not kept.

### Teardown

What the three workers do is reduced to the members they touch: `at` and `doing` say
where a thread stands, and `TouchedAt`, `TouchedDoing` and `TouchedCalling` which members it
uses there. `DestructionOrder` is the reverse of the declarations in `tpc.hpp` and
`client.hpp`; `Destroy` begins it, `RequestStop` and `DestroyMember` go through it. A mutex stands for the
condition variable and the job declared beside it, `frame_receiver_` for the endpoint. Scalars are
left out, since nothing destroys them: the poller's interval and revision (`tpc.hpp:165-166`) are declared
after `polling_worker_`, and are still there when it is joined. Calls of the application before `~TPC` take one step
(the application does not destroy the object while it is in a call); calls of handlers span two, so that the
destruction may overlap them. `~opcua::Client` cancels what a loop that died left
unanswered, on the destroying thread. A call that meets a stopped poller
takes effect when the poller has ended; `PollingWorker` has the wait in between.

A handler that calls about polling, stops, or submits a job once the destruction has begun
may use a member that nobody waits for (`Strays`). Such a call is the caller's mistake,
and the model ends with it (`stray`). One exception to `SafeTeardown` is the code's:
`channels_info_` is declared after `opcua_thread_` (`client.hpp:111-114`) and therefore destroyed before the
loop is joined. If the client was still running, or had requests under way, when `~TPC` began
(`client_up`), discovery may publish into a table that is gone. The property excludes that one
member in that one case. Without either exclusion TLC refutes it; after a
`stop_async()` whose loop has ended, none is needed.

### SensorSession

Each activation starts a discovery, which keeps the number of its session. What
the coroutine and its continuation wait for is `stage[d]`; each resumption is one
action:

| Code | Action |
|---|---|
| `onSessionActivated` (`client.cpp:155`) | `Activate`, which asks for the root folder |
| `client.hpp:168-175` | `RootAnswered`, `ChannelsAnswered` |
| `client.hpp:181-184` | `SlotAnswered`, one slot after another |
| `client.hpp:127-162`, in the callback of the last slot | `Publish`: table, event, `node_ids_`, request |
| `upon_error` (`client.hpp:134`) | `DiscoveryFails`, and the failing half of `Publish` |
| `subscription.cpp:53-103` | `SubscriptionCreated`, `SubscriptionFails`, `ItemCreated`, `ItemFails` |
| `release` | `SubscriptionDeleted` |
| `add_back` (through `client.cpp:221-233`) | `DataReceived` |
| `get_frame`, one action per lock | `CopyValues`, `NameValues` |

The server is an address space per session, fixed at the start but seen only by
browsing. A request is answered well only in the session it was sent in; a bad
answer can come at any time, as the stack cancels requests. A value stands for
the session it was measured in, a node for its name. Every activation is that of a new session;
one that is activated again and keeps its subscription is not modelled. `missed`, `overlapped` and
the `of` of the table are history. Browses that the server truncates count as the
bad answers they resemble.

The table is replaced while the values stay, so a frame may lack values that were received:
those of earlier sessions (`ValuesNamed`), which may be all of them. `get_frame` then returns an empty map,
though `tpc.hpp:81` promises values "or `std::nullopt` if no frame is currently available". An invariant that
every frame has a value is refuted by TLC within one reconnection, and no run repeats that.

### StripTriangulation

A sequential algorithm. `Layer` and `Generated` are the grid kernel's loops over a disc, with
x in half steps and y in rows; the one point that lies
on the border, where rounding decides, may be in or out. The rows' distance is `RowStep` / `Unit`
of a step, sqrt(3)/2 in the code; 173/200 in the run, and any fraction between a half and 1 in the proofs. The loops whose rounds are
independent (finding the end of a run, comparing layers) are one action each; the
frontier of a strip moves one triangle at a time (`AdvanceLower`, `AdvanceUpper`).
`AnalyticsManager` passes whole grids; the input may also be any beginning of one, which
is what the exporter's own checks are there for. The two tests for overflow of
`size_t` are left out: no grid that fits in memory reaches them. `Cells` are the wedges that
join a triangle to its copy in the next layer, by index; `Conforming` asks that they stand
upright and leave no point out but the `Tips`.

The exporter turns r and phi back into x and y and compares up to 64 epsilon, absolute below 1. How
that compares to the grid is its `scale`. At `medium` scale it tells equal from different, exactly as integers do
(`TpcGeometry::kRadius` is 4). A `small` grid has steps of about 1E-7, so that the area of every triangle is
within the tolerance and none is added (l. 144). In a `large` one, of a radius of 50 or more, the error
of `r * sin(phi)` exceeds it where phi is near pi: a row near y = 0 may fall apart (`Torn`, `RowEnds`), at
any of its points, and between its parts `add_triangle` may drop slivers of no area or add them, either way
round. That the rows affected lie within 1/32 of the radius was found by computing with doubles, for radii
from 20 to 1E12 and up to 60 counts per radius; no rows merged, and no triangle with an area was lost. Steps so small that whole rows or layers
merge are not modelled; the exporter refuses them, too.

`Tips` came out of the proof. Where rows are much closer than the points in them
(`y_count` of 8 with `x_count` of 2, say), the first and last rows that have any point have just one, all
of them at x = 0. Between two such rows no triangle has an area, so `add_triangle` makes none: these
points are in the file and in no cell, and the cells stop short of the disc's tip. A comment says of the
cells that they are "filling the cylinder" (`vtk_field_exporter.hpp:153-154`); for such grids they do not, which the run
`strip_tips` shows (`CellsFill`). An export is not refused for it. Everywhere else every point is the corner of a cell.

## Runs

| Run | Instance | Shows |
|---|---|---|
| `client_lifecycle` | 2 callers, 3 loops | everything below holds |
| `client_stop_lost` | 2 callers, 2 loops | violated: `StopHolds` |
| `polling` | 2 callers, 2 pollers, 2 intervals, 3 settings | everything below holds |
| `polling_self_join` | as above, 1 interval | violated: `NoPollerJoinsItself` |
| `field_pipeline` | 2 callers, 3 jobs | everything below holds |
| `field_export` | 2 callers, 2 jobs | violated: `ExportSeesLayers` |
| `field_data` | 3 threads, 4 bases, grids of up to 2 points, 2 solutions, 6 calls | everything below holds |
| `event_handler` | 2 threads, 2 subscriptions, depth 2 | everything below holds |
| `teardown` | the application and the three workers | everything below holds |
| `sensor_session` | 2 sessions, 2 slots, 3 nodes, capacity 2, 1 reader | everything below holds |
| `strip_triangulation` | up to 4 counts per axis, 2 or 3 layers; 2 counts in x with 8 or 22 in y; small grids; large ones of 3 by 7 | everything below holds |
| `strip_tips` | 2 counts in x with 8 or 22 in y | violated: `CellsFill` |

What holds:

- `client_lifecycle`: one owner of the loop from the CAS to the last store
  (`OneOwner`); no handler joins its own thread (`NoSelfJoin`); a client at rest
  has closed its session unless a loop died of an exception (`SessionClosed`); a
  stop outside lines 67-70 ends the loop (`StopEnds`); calls return unless two late assignments
  meet (`CallsReturn`).
- `polling`: `OnePoller`, `NoOrphan`, `NoStaleSleep`, `StopEndsPoller`,
  `StartPollingReturns`.
- `field_pipeline`: `InProgressTracksJob`, `NoLostWakeup`, `SliceStable`,
  `FieldMatchesCoefficients`, the refinement `ImplementsService`, `JobReported`,
  `ShutdownCompletes`.
- `field_data`: a field that may be read, or is being read, is complete and of one
  solution (`FieldOfOneSolve`); no kernel indexes a basis beyond its functions, though none
  checks their number (`BasisInRange`); calls return (`CallsReturn`).
- `event_handler`: exactly the subscriptions nobody ended are registered (`RegistryExact`);
  an event reaches every handler it was raised to unless one throws (`EventReachesAll`).
- `teardown`: nobody touches a destroyed member, with the two exclusions above
  (`SafeTeardown`); `~TPC` returns, whatever the workers are doing (`TeardownEnds`).
- `sensor_session`: a table is complete unless a slot's browse failed (`TableComplete`);
  a value has its name in the table or is older than it (`ValuesNamed`), every discovery ends
  (`DiscoveryEnds`), and in a session that lasts every spared channel is shown
  (`SensorsFlow`). `ValuesNamed` and `SensorsFlow` exclude runs in which two discoveries
  were under way at once: there an older discovery can publish over a newer
  one, and `node_ids_` can change under a subscription. Without that exclusion TLC
  refutes both; no document promises them then.
- `strip_triangulation`: whole layers and nothing else are exported, and no small grid
  (`ExportsWholeLayers`); at medium scale the triangles tile the layer up to its tips: each turns left, no directed
  edge is used twice, and what is left without a neighbour is exactly the outline
  (`Conforming`); at every scale they are stretched only at the ends of rows (`FansAtEnds`), and the loops
  end (`ExportEnds`).

What does not, with the line that promises it:

- `StopHolds` (`tpc.hpp:68`): a `stop()` between the CAS and the reset of
  `stop_requested_` is erased. Its token goes to the previous thread.
- `NoPollerJoinsItself` (`tpc.hpp:94`): a frame handler that runs while the poller
  is stopped and then calls `start_polling_async` joins its own thread.
- `ExportSeesLayers` (`vtk_field_exporter.hpp:79`): an export can overlap the next
  calculation and find the grid half built.
- `CellsFill` (`vtk_field_exporter.hpp:153-154`): the points of a tip one point wide are in no cell.

### Bounds

Every bound limits how often something starts, never what happens to it. Two
application threads are enough for each pair of calls to race, and the worker
threads call the API as well. Three loops let two late assignments meet while the
member owns a third. Two pollers and three settings cover keeping, replacing and failing to
replace a poller, one of them joined while the other runs; a third poller only
repeats the replacement (checked once with one caller: no new behaviour). Three
jobs allow one on show, one in the worker and one refused or pending. Two
sessions let a discovery meet its successor, and two slots let one fail after
another was appended; the two address spaces differ so that old values fill the
receiver (capacity 2) that the third node needs, and may also be the same. The
grids of up to 4 counts per axis include rows of one point and neighbours of
very different length; 5 was checked once, with the same result. Those of 8 and 22 rows
per radius have tips of one and of several points, which no smaller ones have. The large grid of 3 by 7 has a row
of four points close to y = 0. In `field_data` the
six calls allow each of three threads a call and another while the others are
still inside; two points are enough for a field half computed, and the bases
are whole, lack a function, or have the wrong arity. In `event_handler` two threads and depth 2
let a handler and a stranger change the registry during an event; three
subscriptions were checked once, with one thread. `teardown` has no bound: the model is
finite. Deadlock is not
checked in `sensor_session`, where nothing need happen once the last session
is lost, nor for an export, which stops when it is done. No symmetry is used,
since the runs check liveness.

### Fairness

Weak fairness for every thread inside a call and for each loop: the operating
system schedules them. Strong fairness for the steps in which a handler returns,
because a handler that keeps calling the API disables its return again and
again; it says that handlers return. Weak fairness for the answer to each request
and the first value of each live item: the stack answers or cancels every
request while the client iterates, and OPC UA reports the first sample. Strong fairness for `Store`: a lock that is
free again and again is obtained; `JobReported` adds the assumption that it is,
as overlapping slices may starve the writer. `field_data` makes the same assumption for
every lock (`Locked`), and that readers let go of their views. In `event_handler` the strong
fairness of a handler's return is stated for each depth. In `teardown` it also covers the
loop's test of its stop flag, which callbacks disable again and again (`runIterate` returns), and
cancelled requests are answered. No fairness for application calls,
for activations and losses of sessions, for the poller's timeout (no property may rely on the interval passing), or
for the destruction.

## Proofs

Each `*_proofs` module proves type correctness first and then the invariants, for
every set of threads, callers, loops, pollers, intervals, jobs, bases, grids and
subscriptions, from the named assumptions on the constants of its module. Every safety invariant that
a passing run checks is proved, those of `StripTriangulation` at medium scale, and the refinement.

- `ClientLifecycle_proofs`: `OneOwner` is not inductive alone. `OwnerInv` adds that
  an owner implies `running_` (so the CAS fails while there is one) and that no
  worker thread is past the CAS, which also gives `NoSelfJoin`. `SessionInv` says that
  a link that is up has a loop that has not closed it, or one that died. `StopKeeps` is the safety
  half of `StopEnds`: a stop outside lines 67-70 stays in `stop_requested_`, so no loop goes round again.
  `WaitsForStopped` is that of `CallsReturn`: a call that waits for a loop has told it to stop, unless `Overtaken`.
- `PollingWorker_proofs`: `HandleInv` says that a jthread moved out of the member was
  told to stop, belongs to one call and cannot be moved out twice; `OnePoller` and
  `NoOrphan` follow together. `SeenInv` orders what the loops have read before the
  setting in force, which is what makes the revision test of `Wake` enough for
  `NoStaleSleep`. `CirclesAreSelfJoinsHolds` is the safety half of `StartPollingReturns`: of the pollers whose
  handlers join each other, none form a circle, because the poller that the member owns never
  holds another one (`CircleInv`); only a poller's join of itself cannot end.
- `FieldPipeline_proofs`: `JobInv` follows each job through the queue and the round,
  `RoundInv` says what the round has done to the data so far, `MatchInv` extends
  `FieldMatchesCoefficients` to every phase. From the first two, `Refinement`
  shows step by step that the pipeline implements `FieldService`.
- `SensorSession_proofs`: `TableInv` follows the result of a discovery slot by slot.
  `SourceInv` bounds where values come from, and `OneDiscovery` says that without an
  overlap only the present session's discovery asks, subscribes and publishes;
  `ValuesNamed` follows from the two.

- `FieldData_proofs`: typing needs the locks: that a grid is appended to an empty
  collection holds only because one thread is between `Invalidate` and `Publish` (`Exclusion`). `Readable`
  extends `FieldOfOneSolve` to the values written so far (`Written`), which the shared lock on the
  coefficients keeps of one solution. `Solved` says that coefficients exist only for a
  basis of exactly three functions, and gives `BasisInRange`. `NobodyStuckHolds` is the safety half of
  `CallsReturn`: as long as anybody is inside, somebody's lock is free and next step defined.
- `EventHandler_proofs`: `RegistryExact` needs that ids in use are distinct, were given to
  the subscriptions they hold, and lie below `next_id_`, for all subscriptions that are not
  from before a dispose.
- `Teardown_proofs`: `Joined` says that a worker whose handle is destroyed has ended and
  stays so; `Calling` that calls come from handlers and, after `Begun`, are ones that `~TPC` waits
  for; `Serving` says who runs the client's callbacks, and that a client at rest when `~TPC` began
  has nothing left to report but the end of its session. `SafeTeardown` follows by cases on the thread.
- `StripTriangulation_proofs`, for grids of every size at medium scale (`Exact`; the others are
  model-checked only), in three parts.
  *The grid.* `LayerHasTwoRows` and `NarrowTip` are the geometry of the disc: some row has two points, rows have no gaps
  within, and two rows with an empty one between them have one point each. `Enumeration` shows that
  counting the earlier points numbers a layer from 0 without gaps, by an order on a finite set with a least
  element (`LeastElement`), and `Layout` what the exporter therefore finds (`FirstLayer`).
  *The layers and rows.* `Staged` and `RowsInOrder` say that the layers found are the grid's and that the rows follow
  each other; with `LayersAgree` this is `ExportsWholeLayers`.
  *The triangles.* `Conforming` speaks of a finished layer. `Tiled` says the same of an unfinished
  one, with `Border` for its outline: the bottom row as far as it was passed, the right and left ends of the strips
  left behind, the top of the row below that is not yet covered (`Pending`), the part of the upper row reached
  (`Top`), and the edge at the frontier (`Front`). A triangle (`AfterTriangle`) takes off the border
  the edges it meets from the other side and adds its others; none of its edges is used before,
  because none lies beyond the frontier (`Behind`), and it turns left
  because both rows go up and to the right (`Areas`). When the last strip is done the border is `Outline` (`Closed`), and the
  points inside it are all but the tips. `FansAtEnds` is inductive with the rows' spacing: neighbours in
  a row are two half steps apart, and the row that is behind goes on.
  `Advance` is the safety half of `ExportEnds`: every step leads on and is bounded, and once the
  layers are found the export is not refused, so the checks of lines 133 and 187 never fail on a grid.

Only model-checked: the liveness
properties (`StopEnds`, `CallsReturn`, `StopEndsPoller`, `StartPollingReturns`,
`JobReported`, `ShutdownCompletes`, `CallsReturn` of `FieldData`, `EventReachesAll`,
`TeardownEnds`, `DiscoveryEnds`, `SensorsFlow`, `ExportEnds`), since TLAPS does not reason about fairness and ENABLED here.
What the four violated runs refute is shown by their counterexamples.

## Not modelled, and the plan

- `ChunkView`, and the insertions and transforms of `FieldCollection` that nothing else in
  `src/` calls: sequential, with no state of their own worth a model.
- Numerical code (SVD, basis functions, coordinate transforms, calibration): its accuracy is
  about real numbers. What the rest relies on, the number of functions and coefficients, is in `FieldData`.
- The exporter's checks of paths and sizes, and the writing of the file.
- An error handler that throws: the worker is `noexcept`, so the process ends, and
  there is no state after it.
- The logger, the test frame and the build files.
- The OPC UA stack itself: its callbacks are modelled by what the code registers,
  and it cancels or answers every request.

What is left of the plan is proof: the safety halves of the remaining liveness properties
(`EventReachesAll`, `TeardownEnds`, `JobReported`), stated as what no step may do.

# simple_torrent: a TLA+ model

This directory models [simple_torrent](../src/README.md), a Flutter BitTorrent
plugin: a Dart facade, one platform adapter per operating system, a C ABI and a
C++ `Manager` on top of libtorrent. It holds TLA+ modules, TLC configurations
that check them on small instances, and theorems checked by TLAPS.

Paths below are relative to `src/`.

## 1. Inventory

### Components

| Component | Source | State | Operations |
|---|---|---|---|
| Manager: registry and lifecycle | `native/src/torrent_manager.{hpp,cpp}` | `entries_`, `next_id_`, `config_.max_torrents`; per entry `active`, `finalising`, the two barrier flags | `Start*`/`Add`, `UpdateConfig`, `Find`, `Pause`, `Resume`, `Cancel`, `Finalise`, destructor; the poll thread's flush and removal alerts |
| Manager: observer side | same | per entry `state`, `fatal_error`, `last_error`, `metadata_delivered`, `completion_flush_*` | `ProcessAlerts`, `UpdateStats`, `DeliverMetadata`, `RecordError`, `State`, `Info`, `LastError` |
| Manager: suspension | same | the session's paused flag | `SetTransfersSuspended`, `TransfersSuspended`, `Add` while suspended |
| C ABI | `native/src/simple_torrent_native.cpp` | none of its own | argument checks, UTF-8 validation, config conversion, forwarding of callbacks |
| Android adapter | `packages/simple_torrent_android/.../SimpleTorrentPlugin.kt`, `native/platform/android/simple_torrent_android.cpp` | `nativeHandle`, `attached`, event buffers, the finalise executor | method dispatch, attach/detach, event dispatch to the main thread |
| Windows adapter | `packages/simple_torrent_windows/windows/simple_torrent_plugin.{h,cpp}` | `NativeState` (manager, tasks, shutdown), pending events and completions, results by request id | method dispatch, finalise queue, message-driven drain, destruction |
| Apple adapters | `packages/simple_torrent_{ios,macos}/.../SimpleTorrentPlugin.swift` (identical but for one line) | handle, sinks, buffers, a serial finalise queue | as above |
| Dart channel and facade | `packages/simple_torrent_platform_interface/lib/src/*.dart`, `packages/simple_torrent/lib/simple_torrent.dart` | pending calls with a deadline | typed calls, error mapping, `togglePause`, `pauseAll`, `resumeAll` |
| Example application | `packages/simple_torrent/example/lib/src` | controller state | refresh, start, run an action, suspension |
| Artifact builder | `tool/src/native_builder.dart` | caches, stamps, staging directories, manifests | prepare sources, build, assemble, verify |
| Test watchdog | `tool/run_with_timeout.py` | a child process group | run with a deadline |

### Interaction

The application calls the adapters over a method channel, on the platform
thread. The adapters call the C ABI synchronously, except `finalise`, which
blocks for up to 60 s and therefore runs on one worker per plugin instance. The
manager's poll thread wakes on libtorrent alerts or once per interval, and calls
back into the adapter (stats, metadata), which hands the event over to the
platform thread. So an entry of the manager is written by three parties: the
platform thread, the finalise worker and the poll thread; a condition variable
(`lifecycle_changed`) carries alerts from the poll thread to a waiting
`Finalise`.

### What is hard

- `Find` and the claim that follows it are separate critical sections: any call
  may meet an entry that another call has claimed, removed or erased.
- `Finalise` waits twice with a deadline; the answer it waits for may be lost or
  come late, when the entry is active again.
- A failure between claim and removal must give the torrent back, one after the
  removal must not.
- The reported state, the error latch and the diagnostic are written by all three
  threads, partly without a lock.
- Destruction must wait for accepted finalises, and no callback may touch a
  destroyed plugin.
- Arguments are checked in three layers, and in each adapter by other code: what
  one layer lets through the next must not distort. Whoever allocates is not
  whoever frees, and allocations may fail in between.

The hazards, each at its line, are in `PROJECT.json`.

## 2. Modules

| Module | Models | Corresponds to |
|---|---|---|
| `TorrentLifecycle` | what the manager promises about one torrent id: accepted once, claimed by one closing call at a time, given back or gone for good; no two held torrents share a hash | abstract, no code |
| `TorrentManager` | registry and lifecycle | `torrent_manager.cpp`, all calls that change the registry or claim an entry, and the alert handling that wakes `Finalise` |
| `TorrentManagerProofs` | invariants of `TorrentManager` | |
| `TorrentRefinementProofs` | `TorrentManager` implements `TorrentLifecycle` | |
| `TorrentEntry` | everything that writes one entry | `ProcessAlerts`, `UpdateStats`, `DeliverMetadata`, `RecordError`, and the calls |
| `TorrentEntryProofs` | types, the diagnostic, the metadata event and the durability of `TorrentEntry`; it implements `TorrentLifecycle` | |
| `AsyncFinalise` | what an adapter promises about `finalise`: refused or accepted, run once on a live manager, answered at most once and with its own code; the manager goes last | abstract, no code |
| `WindowsPlugin` | the Windows adapter from construction to destruction | `simple_torrent_plugin.cpp`: `NativeState`, its worker, pending completions, window messages, destructor |
| `WindowsPluginProofs` | invariants of `WindowsPlugin`; it implements `AsyncFinalise`; no accepted call is stranded | |
| `AndroidPlugin` | the Android adapter over several attachments | `SimpleTorrentPlugin.kt`: `NativeFinaliseWorker`, attach and detach, sinks and buffers; `simple_torrent_android.cpp`: callbacks, `nativeDestroy` |
| `AndroidPluginProofs` | `AndroidPlugin` implements `AsyncFinalise` in every attachment; no accepted call is stranded; its events | |
| `ApplePlugin` | the iOS and macOS adapter from registration to the release of all it owns | `SimpleTorrentPlugin.swift`: `init`, `deinit`, `finaliseQueue`, `CallbackContext` and the two C callbacks, `finish` |
| `ApplePluginProofs` | callbacks are safe; `ApplePlugin` implements `AsyncFinalise`; no accepted call is stranded | |
| `SequenceFacts` | lemmas about queues that the adapters' proofs use (what waits in them when something is added or taken), and about scans of a text | |
| `Utf8` | the decoder of the C ABI, and the table of the Unicode standard | `simple_torrent_native.cpp`, `IsUtf8` |
| `MethodCalls` | one method call on any platform: decode, check, run, copy, free, answer | the method handlers of the adapters, `simple_torrent_native.cpp`, `simple_torrent_android.cpp`, the error mapping of `method_channel_simple_torrent.dart` |
| `MethodCallsProofs` | the decoder against the table; what arrives, what is freed, what the application is told | |
| `MC*` | small instances | |

### TorrentManager

One step is one critical section, one access to an atomic, or one call into
libtorrent made between locks. `entries`, `nextId`, `maxTorrents` and `hash` are
the fields of `Manager` and `Entry`; `pc` and `arg` say where each adapter
thread is and with which id. `lifecycle_mutex` is held over two steps only by
`Cancel` (`LifecycleFree`). An entry and its torrent handle share the id that
`Add` issued, so a lookup by handle is a lookup by id. `session`, `open`,
`flushing` and `alerts` are the environment: libtorrent removes a torrent at
once, closes its files later, then posts `torrent_removed_alert`; it answers
`flush_cache` by an alert; it may drop any alert; `remove_torrent` and
`flush_cache` may throw before they take effect.

`TorrentLifecycle` is implemented under the mapping that reads the phase of an
id off `nextId`, `session` and `active`, and its owner off `pc` and `arg`: an id
is `closing` while libtorrent holds it and it is not active.

### TorrentEntry

One entry, from the moment `Add` emplaced it. `UpdateStats` is cut wherever it
leaves and re-reads shared state, so its poll thread holds a status and a
computed state that callers can make stale. `Resume` is cut between the section
under the entry mutex and the store of the state, `RecordError` between the latch
and the store, `DeliverMetadata` between the exchange and the callback. The
payload is counted in pieces: `written` are verified, `durable` are on disk, and
a flush covers what was written when it was called. The constants `Calls` and
`Failures` choose which calls and failures an instance has, `AlertsMayDrop`
whether the queue loses alerts, `CloseMayFail` whether a closing call can fail
before the removal. `TorrentLifecycle` is implemented, with a single id, under the
mapping that reads the phase off `active` and the handle, and the owner off `pc`.

Left out: the contents of callbacks, timestamps, names, and libtorrent's own
queueing of auto-managed torrents.

### WindowsPlugin

Three threads: the platform thread (`pt`, which runs the constructor, method
calls, window messages and the destructor), the detached worker (`worker`, the
loop of `Run`) and the manager's poll thread (`poll`). One step is one critical
section; `callback_mutex_` is the only lock held over several steps, because a
callback takes `pending_mutex_` and posts a message under it. `results` are the
`MethodResult`s by request id, `tasks` and `job` the worker's queue and task,
`completions` and `drained` the shared and the local deque of completions,
`posted` the window messages under way. The message queue of the thread is shared with
everything else that runs there, so a message may be refused at any time
(`refused` remembers whether the last one was), and none is posted without a view. Request ids wrap at `MaxRequest`, so
a small instance reuses them. `owns` is the plugin's reference to `NativeState`;
the worker's reference is its being alive.

`AsyncFinalise` is implemented under the mapping that calls a request accepted
from the moment it is queued (`Taken`), and the manager down from the moment the
worker takes its pointer. `outcome` and `answer` are history.

Left out: what becomes of events after the drain. The arguments and results of
all methods are in `MethodCalls`.

### AndroidPlugin

One plugin object may be attached, detached and attached again. Attachment `g`
has its own manager (`manager[g]`) and its own `NativeFinaliseWorker`
(`closed[g]`, `executor[g]`, whose first element is the task under way), and both
live on after the detach until the queued tasks, with destruction as the last,
have run. What runs on the main thread is one step. `looper` is the main thread's
queue, shared by all attachments: the poll threads and the executors post
(`runOnUiThread`, `postToPlatformThread`), `HandleStats`, `HandleMetadata` and
`HandleAnswer` are what is posted. A stats event is its number in the order of
posting, a metadata event the attachment and the id it is about;
`metadataBuffer[id]` says whose event is kept.

For `AsyncFinalise` each attachment is an instance: its accepted calls are those
it took, and its manager is down once destroyed. A refused call is a refusal in
all of them.

Left out: the arguments and results of all methods, which are in `MethodCalls`.

### ApplePlugin

The engine holds the plugin strongly, the manager only through a
`CallbackContext` that refers to it weakly; a callback makes the reference strong
for as long as it runs. So `deinit` runs on the main thread (`Detach`) or, if a
callback was the last to hold the plugin, on the poll thread (`Return`), and
leaves a block in the serial queue that destroys the manager (`BeginDestroy`,
`Joined`) and then releases the context. `queue` and `at` are that queue and the
progress of its first block, `answers` the blocks waiting on the main queue.
`mainCall` is a native call under way on the main thread, which may overlap a
finalise on the queue. The two Swift files differ in one line; the map names the
macOS one.

Left out: the sinks and buffers of events, which are as on Android but without
attachments, and the tearing of a weak reference.

### MethodCalls and Utf8

A request is a method and what the channel brought for it; the application may
leave any argument out, or send one of another type. After `Create` one call at a
time is sent, decoded or refused by the adapter (`RefuseArguments`, `CallNative`,
on Android with the checks of the JNI functions), checked by the C ABI
(`EnterAbi`), answered by the manager (`Manage`); its result is copied to blocks,
copied from them, the blocks are freed, and the application is told a value or the
category of error that the Dart channel makes of the code. The manager is what its
contract says: it may return any code that the method can return, and texts of
libtorrent's that are not well-formed. Any `malloc` of the C ABI may fail. A text
of an answer is cut at its first NUL, then made empty (Android) or repaired
(Apple) if it is ill-formed; Windows sends it as it is, and Dart cannot decode
it (`FromCString`, `Decoded`). C++ exceptions are modelled where they lose
something: `nativeCreate` keeps its reference in the `catch`, and a Windows call
that throws while it encodes an answer loses its blocks (`EncodingThrows`). The session's paused flag is the one piece of state calls share, and the
session may throw before or after it changed it. A text is the sequence of its
bytes, so that what a layer cuts off at a NUL is seen; integers are those of the
channel, which do not fit the fields of the C structures.

`finalise` passes through here for its argument and its code only: the queue is in
the adapters' modules. Platforms differ where the code does: blank texts are
refused by the Android adapter alone, an embedded NUL of `start` is reported as
`invalid_argument` on Windows and Apple and by the code of the method on Android,
a null `displayName` or `config` is accepted on some and refused on others, and
Android refuses a config with any null in it. What the properties say holds for
all of them; where platforms name an error differently, `Blames` says which
names a call may get.

## 3. Runs

Deadlock is checked in `method_calls` only: a destroyed manager stops, and so does a torrent that
was closed, or a plugin that is not attached again.

| Run | Instance | Shows |
|---|---|---|
| `manager_safety` | 2 threads, 2 ids, 1 hash, a limit of 2, updated to itself or (refused) to 0, alert queue of 1 | closing is exclusive, nothing is orphaned or resurrected, OK means done, whatever libtorrent fails at or loses, ids never come back; the code implements `TorrentLifecycle` |
| `manager_liveness` | 2 threads, 1 id | every call returns |
| `entry_races` | 2 threads that resume and finalise, 2 pieces, all failures, alert queue of 1, closes that do not fail | metadata once, a diagnostic that survives, SEEDING and the finalise barrier durable, under racing callers |
| `entry_give_back` | 2 threads that cancel and finalise, 1 piece, closes that may fail at any point before the removal | the entry implements `TorrentLifecycle`, also when it is given back; nothing but a giving back loses the metadata event |
| `entry_reports` | 1 thread that pauses, resumes and cancels, fatal failures | a stale report is overwritten for good; metadata is announced even if alerts are lost |
| `entry_seeding` | alerts not lost, finalises that fail | a torrent that stays complete is in the end reported as seeding for good, whatever it was reported as before |
| `windows` | 3 calls, 2 request ids, at most 2 pending events and 2 messages of the plugin, any message refused, a view | nothing touches a dead plugin, a completion is left behind only by a refused message and taken along by the next, accepted calls are answered if messages get through again, the destructor returns, the manager goes; the adapter implements `AsyncFinalise` |
| `android` | 2 calls, 2 attachments, 1 id, 2 events, a stats buffer of 1 | each attachment implements `AsyncFinalise` while their managers overlap; accepted calls are answered and managers go; events stay in order, wait for a listener and do not pass a detach |
| `apple` | 2 calls, 3 callbacks | whoever gives the plugin up last, callbacks are safe, accepted calls are answered, and manager and context go; the adapter implements `AsyncFinalise` |
| `method_calls` | 3 platforms, every method, 704 requests: each member of a call in order missing or replaced; answers with well-formed and ill-formed texts | what reaches the manager is what was meant; answers fit, and so does what they say of the session; every block is freed once, unless an exception loses it |
| `stale_flush_seeding` | 1 thread, 2 pieces, and a Finalise may time out | the first finding below |
| `lifecycle_serialised` | 2 calls, 1 callback | the second finding below |

Bounds. Two threads are what the adapters have (platform thread and finalise
worker). Two ids are enough for the interplay of two torrents of one hash, of which only one can be held at a time. No run lowers the
limit, whose test is one step with the insertion it guards; the theorems hold for any
limits. A queue of one alert already gives loss, lateness and reordering against
other events, because every alert may be dropped. Two pieces are the least for
which a flush can cover some but not all of the payload. Three calls on two request ids
make an id serve twice while another call waits; two messages let one be unread while another is posted, and each may be refused whatever is under way (`PostCap` bounds only what the plugin has posted and not handled). Two attachments let the
manager of a first one finalise and send events during the second; two events make a buffer of one overflow (the order inside a longer buffer is left to `StatsInOrderCorrect`, which holds for any), and one id is what both managers issue. Three
callbacks let one end before, one during and one after the plugin is given up.
In `method_calls` the integer range is scaled down (`Int32Max` 7, `MaxTorrents` 2,
`MaxConnections` 3) and every field takes the values on both sides of each limit,
including those that a narrowing cast would wrap into the range; the texts are
one of each kind that some layer treats differently (empty, blank, with a NUL, not ASCII, and five kinds of malformed), and the texts of answers are sound, malformed before, after and without a NUL. `DecodersAgree` compares the decoder with
the table on all texts of up to three boundary bytes.

Fairness. `FairSpec` of `TorrentManager` and of `TorrentEntry` lets a thread
inside a call run on. Strong fairness is used where the step needs a mutex: no
mutex implementation in use starves a waiter for ever. The poll thread's loop
runs until the manager is destroyed. For `entry_seeding` libtorrent is assumed
to write behind and to answer a flush; nothing is assumed of alerts that may be
dropped. `FairSpec` of `WindowsPlugin` lets the threads run on and the platform
thread handle messages. That a native finalise returns is `FinaliseReturns`, the
hypothesis of `AcceptedIsAnswered` and `ManagerGoes` only (the deadlines are the
manager's, `CallsReturn`); `DestructorReturns` does without. `AcceptedIsAnswered` also supposes that
messages get through again (`PostsGetThrough`): a completion whose only message was
refused waits for the next event, or for the destructor. Nothing is assumed
of the application, which may never destroy the plugin. The headless engine
(`HasView` FALSE) is covered by the proofs, not by a run. `FairSpec` of
`AndroidPlugin` lets the looper and the executors' threads run on, and a native
finalise return; nothing is assumed of listeners or of the engine, which may
never detach or attach again. `FairSpec` of `ApplePlugin` does the same for native
calls on the main thread, the queue and a callback under way; `Finish` is strongly
fair because the main queue is served in order, so that a posted answer has its
turn however many calls follow.

### Findings

`stale_flush_seeding`: `ProcessAlerts` sets `completion_flush_complete` on any
flush alert (`native/src/torrent_manager.cpp:620`). If a `Finalise` of a torrent
that is still downloading gives up after 30 s, the late answer sets the flag and
nothing resets it. At completion `UpdateStats` then skips the flush that its
comment (lines 686-687) promises. The same flag makes the next `Finalise` skip
the first barrier described at lines 405-407.

`lifecycle_serialised`: `native/include/simple_torrent_native.h:145-147` asks the
caller to serialise lifecycle calls. The Apple adapter, as the other two, runs
finalise on a queue of its own while pause, resume and cancel run on the main
thread. It does no harm, because the manager serialises them itself
(`lifecycle_mutex`, as `TorrentManager` shows); the contract is stricter than what
its callers keep.

## 4. Proofs

`TorrentManagerProofs` proves, for every number of threads, ids, hashes and
limits (assumption `ManagerAssumption`: the bounds are naturals, there is a hash
and the initial limit is valid), that `LifecycleInv` is inductive. Its parts are
the strengthening the safety properties need: what the registry, the session and
`active` say of each other (`RegistryInv`); what a thread inside `Cancel` or
`Finalise` may rely on (`ClaimInv`: before the removal its torrent is held and
inactive, after it registered but not held); that no two closing calls share a
torrent (`ExclusiveInv`); that a held torrent is active or owned (`OwnedInv`);
that held torrents have distinct hashes (`HashInv`); that everything that reports
a removal is about closed files (`ClosedInv`). `UniqueActiveHash`,
`FinaliseOkMeansClosed`, `ControlOkMeansHeld` and `OkOnlyOnce` follow.
`NoOrphan` needs more: `ReleaseInv`, that the flag of a Finalise and a removed
entry do not outlive the call that set the one and will erase the other. With it
an entry that nobody closes is one the next call can claim, and so
`RefusedOnlyIfClosing`: a step that refuses a closing call does so because another
call is closing that torrent, or because it is gone (proved, checked by no run).
`TorrentRefinementProofs` proves from `LifecycleInv` that every step is a step of
`TorrentLifecycle` or a stutter.

`GoneForGood` speaks of steps; it needs only types and the lemma that a start alone
registers (`OnlyStartsRegister`).

`TorrentEntryProofs` proves type correctness, `FatalKeepsDiagnostic` (inductive as
it stands: its four writers each keep it) and `MetadataOnce`, for every set of
threads, calls, failures and pieces (`EntryAssumption`). `MetadataOnce` needs
`OnceInv`: at most one thread is between the exchange on `metadata_delivered` and
its callback, and until then no callback has been made.

`SeedingIsDurable` and `BarrierDurable` are proved for closes that do not fail
before the removal (`~CloseMayFail`), which is where they hold. The invariant is
`DurableInv`: a claimed torrent stays claimed (`ClosingInv`); while it is active
every flush under way or answered is about all pieces, and once a flush for
Finalise can be answered UpdateStats does not get past its test of `active`
(`SeedInv`); every flush covers what Finalise owes (`BarrierInv`). The proof shows
that every step but the claim is `Cautious`, a predicate on steps that suffices to
keep the invariant.

`MetadataNotSwallowed` is what `MetadataReached` rests on: an active torrent whose
metadata is marked as delivered has had its callback, or a thread is about to make
it. A closing call that fails breaks it, because `DeliverMetadata` sets its latch
before it tests `active`, and a torrent that is given back stays marked. No other
step does: `SwallowedOnlyByGivingBack` is proved without any proviso.

`FollowsLifecycle` says that this one torrent lives as `TorrentLifecycle` tells, the
same abstract module that the registry implements, so the two views of the code
agree on what a closing call may do. It is proved for closes that fail or not: by
`LifeInv`, a thread inside a closing call is the only one, and the torrent is
inactive until that thread gives it back or has removed it.

`WindowsPluginProofs` proves `AdapterInv` inductive for every set of calls, number
of request ids, queue bounds, with and without a view (`PluginAssumption`). Its
parts: a thread inside a callback holds `callback_mutex_` and the plugin is there
as long as the mutex is held (`CallbackInv`); the worker has a task where it uses
one (`WorkInv`); the manager passes from the constructor to the worker and ends
with it (`OwnerInv`). `NoUseAfterFree` and `StateOutlivesManager` follow, and
`NoLostWakeup` is inductive beside it: whoever leaves a completion in the queue
has posted a message, is about to, or is followed by the destructor, unless the
last message was refused; then the next one that is not sees to it. For the
refinement `Inv` adds the ledger of request ids (`LedgerInv`): every
unanswered call waits under exactly one id, and its task, its job or its
completion is the only one with that id. From it, each step is one of
`AsyncFinalise` or silent. `HeadlessTellsNoCode` is about the engine that no run
covers: without a view nothing is ever posted or drained, so no finalise is told
its code, and all wait for the destructor.

`AndroidPluginProofs` proves `Inv` inductive for any number of calls, attachments
and events (`AndroidAssumption`). An attachment that is going on or still to come
has an open worker (`AttachInv`); destruction is the last task, and only of a
closed worker, and the executor is empty afterwards (`DestroyInv`); a call that
was taken is once in the executor of its attachment until it has run (`TaskInv`),
and then posted at most once (`AnswerInv`). From it, a step is in every attachment
a step of `AsyncFinalise` or silent. `DetachedIsQuiet` is inductive as it stands.
`EventInv` is about events: what is posted or kept was sent before, by an
attachment that has begun, and a listener leaves the buffer empty (`SourceInv`).
With it `StatsInOrder` and `MetadataKept` are inductive, and `TypeOK` follows.

`ApplePluginProofs` proves `Inv` inductive for any number of calls, codes and
callbacks (`AppleAssumption`): the plugin exists as long as somebody holds it
(`LifeInv`), the block of `deinit` is the last of the queue (`DestroyInv`), the
context outlives the manager and the manager the calls in the queue (`NativeInv`),
and an accepted call is in one place at a time (`TaskInv`, `AnswerInv`).
`CallbacksAreSafe` and the refinement follow.

Liveness itself cannot be proved, but what it rests on can, for each adapter.
`NothingStranded` says that at every moment whatever is still owed is where some
thread will come to: an accepted call without an answer is in a queue (in
`WindowsPlugin`: under an id that is on its way, `WayInv`, or it was answered by
the destructor, `AnsweredInv`), and a manager that its plugin or attachment has
left has its destruction queued or a worker told to stop (`StopInv`). What the runs
add is that those threads do come. `ToldOwnCode` is more than `AsyncFinalise`
promises: Android and Apple tell every accepted call its own code, and on Windows
only the destructor tells it anything else. Both are proved for any constants and
checked by no run of this directory.

`MethodCallsProofs` starts with the decoder: `DecoderAcceptsWellFormed` says that
whatever bytes stand at a place of a text, the bit arithmetic of `IsUtf8` accepts
them exactly when the table does, `DecoderStepsOverCharacter` that it then steps
over the character's width, and `DecoderDecides` that on a text of any length the
loop returns what the table says. The loop and the table are two `Scans` of
`SequenceFacts`: a scan that advances ends in one way, and two scans that take the
same steps end alike; both are shown for the smallest place where they could fail
(`SmallestElement`), because induction by an operator is out of the provers' reach.

Four inductive invariants are about calls with any arguments and any answers:
`Owned` (a block is pointed to until it is freed, once, or an exception took its
pointer), `Informed` (what the
application was told of the session holds), `Carried` (a call on its way carries
what was meant, in well-formed texts) and `Fitting` (code, reply and copied value
belong together at every stage of the call). They give `OwnedOnce`, `SessionAsTold`, `Intact` and `Truthful`. `OwnedOnce` is
exact about the two exits that do leak: only a call or a creation that threw keeps
anything. `Truthful` needs completeness of the checks as well: a
sound call passes every layer (`SoundAccepted`, `SoundTaken`), so that a blame is
never undeserved. Assumed is only what the channel guarantees: a request names one
of the methods, its booleans are booleans and its texts are bytes
(`RequestAssumption`); the default user agent, a literal of the code, is well-formed
and has no NUL (`AgentAssumption`).

Types are checked by the runs of `TorrentManager`, `TorrentEntry` and `AndroidPlugin`;
those of `WindowsPlugin` (request ids that wrap stay in range among them) are proved
and checked by no run.

Model-checked only: all liveness (`CallsReturn`, `ReportConverges`,
`MetadataReached`, `SeedingReached`, `DestructorReturns`, `AcceptedIsAnswered`,
`ManagerGoes`, `Concluded`): fairness and ENABLED are out of the prover's reach.

## 5. Not modelled

- The example application and the artifact builder: a demonstration on top of the
  plugin, and sequential build tooling around files, downloads and compilers.
- The test watchdog: one wait with a deadline, and operating-system calls.
- The event sinks and buffers of the Windows and Apple adapters. They run on one
  thread and are those of `AndroidPlugin` without attachments.
- Durations. The Dart side gives a finalise 75 s, the manager may take 60 s of it,
  and two slow finalises on one worker take longer; the listed hazard says what
  follows. Streams, `togglePause`, `pauseAll` and `resumeAll` are sequences of the
  calls of `MethodCalls`.
- What the C ABI does with null pointers, which no adapter passes; exceptions of
  the standard library other than those of `nativeCreate` and of the Windows
  encoding; in the manager, memory that runs
  out between `add_torrent` and the insertion of the entry (line 247), which would
  leave a torrent without an id, and inside `RecordError`; JNI lookups and
  allocations that fail elsewhere; the CA bundle and the checks of structure
  layouts.
- The race on `CallbackContext.plugin`: `deinit` clears this weak reference while
  the poll thread may load it, without a lock. `ApplePlugin` takes both for atomic.
- libtorrent and the engine's message channels, which appear as environment.

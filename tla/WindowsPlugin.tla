--------------------------- MODULE WindowsPlugin ---------------------------
(***************************************************************************)
(* The Windows adapter from construction to destruction: the plugin object *)
(* of the platform thread, the NativeState it shares with a detached       *)
(* worker, and the poll thread of the native manager, which calls back.    *)
(*                                                                         *)
(* Finalise calls travel platform thread -> finalise_tasks_ -> worker ->   *)
(* pending_finalise_completions_ -> window message -> platform thread,     *)
(* where the MethodResult waits under its request id.  One step is one     *)
(* critical section; a callback holds callback_mutex_ over several steps.  *)
(* What happens to events once drained is not modelled here:               *)
(* here they are counted.                                                  *)
(***************************************************************************)
EXTENDS Integers, Sequences

CONSTANTS Calls,       \* finalise calls, each with its MethodResult
          Codes,       \* what simple_torrent_manager_finalise returns
          MaxRequest,  \* request ids are 1..MaxRequest and wrap (2^64 - 1)
          EventCap,    \* bound on undrained events
          PostCap,     \* bound on this plugin's messages not handled yet
          HasView,     \* the engine has a view, so a window to post to
          NoCall       \* no MethodResult under this request id

ASSUME PluginAssumption ==
  /\ MaxRequest \in Nat \ {0}
  /\ EventCap \in Nat /\ PostCap \in Nat \ {0}
  /\ HasView \in BOOLEAN
  /\ NoCall \notin Calls
  /\ Codes \intersect {"none", "unavailable"} = {}

VARIABLES
  pt,            \* where the platform thread is
  owns,          \* it holds a reference to the NativeState
  results,       \* finalise_results_
  nextRequest,   \* next_finalise_request_id_
  drained,       \* the local deque of DrainFinaliseCompletions
  plugin,        \* NativeState::plugin_ is not null
  callbackMutex, \* who holds NativeState::callback_mutex_
  tasks,         \* NativeState::finalise_tasks_
  workerStarted, shutdownRequested,   \* as in NativeState
  worker, job,   \* the worker's program point and FinaliseTask
  poll,          \* the manager's poll thread: program point of a callback
  pendingEvents, \* number of pending_events_
  completions,   \* pending_finalise_completions_
  posted,        \* window messages not handled yet
  refused,       \* history: the latest PostMessage was refused
  manager,       \* the native manager; NativeState::manager_ if "up"
  outcome,       \* history: what the native finalise of a call returned
  answer         \* history: what its MethodResult was told

requests == <<results, nextRequest, drained>>
platform == <<pt, owns, requests>>
thread   == <<worker, job>>
flags    == <<workerStarted, shutdownRequested>>
state    == <<plugin, tasks, flags>>
pending  == <<pendingEvents, completions, posted, refused>>
history  == <<outcome, answer>>
vars == <<pt, owns, results, nextRequest, drained, plugin, callbackMutex, tasks,
          workerStarted, shutdownRequested, worker, job, poll, pendingEvents,
          completions, posted, refused, manager, outcome, answer>>

Requests == 1..MaxRequest

PtPcs == {"create", "spawn", "abort", "ready", "drain", "answer",
          "invalidate", "cancel", "finish", "gone"}
WorkerPcs == {"none", "wait", "finalise", "dispatch", "push", "post",
              "destroy", "exited"}
PollPcs == {"idle", "push", "post"}

Tasks == [id : Requests, call : Calls]
Completions == [id : Requests, code : Codes]
NoJob == [id |-> 0, call |-> NoCall]

ControlType ==
  /\ pt \in PtPcs /\ worker \in WorkerPcs /\ poll \in PollPcs
  /\ callbackMutex \in {"free", "worker", "poll"}
  /\ manager \in {"none", "up", "stopping", "down"}
FlagType ==
  /\ owns \in BOOLEAN /\ plugin \in BOOLEAN
  /\ workerStarted \in BOOLEAN /\ shutdownRequested \in BOOLEAN
  /\ refused \in BOOLEAN
CountType == pendingEvents \in 0..EventCap /\ posted \in 0..PostCap
ResultType ==
  /\ results \in [Requests -> Calls \union {NoCall}]
  /\ nextRequest \in Requests
QueueType ==
  /\ tasks \in Seq(Tasks) /\ job \in Tasks \union {NoJob}
  /\ completions \in Seq(Completions) /\ drained \in Seq(Completions)
HistoryType ==
  /\ outcome \in [Calls -> Codes \union {"none"}]
  /\ answer \in [Calls -> Codes \union {"none", "unavailable"}]

TypeOK ==
  /\ ControlType /\ FlagType /\ CountType
  /\ ResultType /\ QueueType /\ HistoryType

Init ==
  /\ pt = "create" /\ owns = TRUE /\ plugin = TRUE
  /\ results = [r \in Requests |-> NoCall] /\ nextRequest = 1
  /\ drained = <<>> /\ tasks = <<>> /\ completions = <<>>
  /\ callbackMutex = "free"
  /\ workerStarted = FALSE /\ shutdownRequested = FALSE
  /\ worker = "none" /\ job = NoJob /\ poll = "idle"
  /\ pendingEvents = 0 /\ posted = 0 /\ refused = FALSE
  /\ manager = "none"
  /\ outcome = [c \in Calls |-> "none"] /\ answer = [c \in Calls |-> "none"]

-----------------------------------------------------------------------------
(* Construction                                                            *)

PtAt(l)   == pt = l
PtGoto(l) == pt' = l

\* A manager forgotten.
KeepManager == UNCHANGED manager

\* The pointer is exchanged, so only one caller finds it.
DestroyManager == manager' = IF manager = "up" THEN "down" ELSE manager

CreateManager ==
  /\ PtAt("create")
  /\ \/ manager' = "up" /\ PtGoto("spawn")
     \/ UNCHANGED manager /\ PtGoto("abort")
  /\ UNCHANGED <<owns, requests, state, callbackMutex, thread, poll, pending,
                 history>>

\* StartWorker: the thread starts, or cannot be created, or cannot be
\* detached, and then is told to stop and joined.
StartWorker ==
  /\ PtAt("spawn")
  /\ \/ /\ worker' = "wait" /\ workerStarted' = TRUE
        /\ \/ PtGoto("ready") /\ UNCHANGED shutdownRequested
           \/ PtGoto("abort") /\ shutdownRequested' = TRUE
     \/ PtGoto("abort") /\ UNCHANGED <<worker, workerStarted, shutdownRequested>>
  /\ UNCHANGED <<owns, requests, plugin, callbackMutex, tasks, job, poll,
                 pending, manager, history>>

\* Neither a torrent nor a callback exists yet.  A worker that ran has
\* already destroyed the manager.
Abort ==
  /\ PtAt("abort")
  /\ worker \in {"none", "exited"}
  /\ plugin' = FALSE
  /\ DestroyManager
  /\ owns' = FALSE
  /\ PtGoto("ready")
  /\ UNCHANGED <<requests, callbackMutex, tasks, flags, thread, poll, pending,
                 history>>

-----------------------------------------------------------------------------
(* Finalise calls and window messages                                      *)

\* A call not made yet.
Taken == {c \in Calls :
            \/ outcome[c] # "none"
            \/ \E i \in DOMAIN tasks : tasks[i].call = c
            \/ worker = "finalise" /\ job.call = c}
Fresh(c) == c \notin Taken /\ answer[c] = "none"

\* The first id from nextRequest on that no outstanding result has; 0 is
\* skipped.  MaxRequest results are never outstanding at once.
Distance(r) == (r - nextRequest) % MaxRequest
RequestId(r) ==
  /\ results[r] = NoCall
  /\ \A q \in Requests : results[q] = NoCall => Distance(r) <= Distance(q)

Successor(r) == (r % MaxRequest) + 1

\* HandleMethodCall of finalise, with QueueFinalise and EnqueueFinalise.
Finalise(c) ==
  /\ PtAt("ready")
  /\ Fresh(c)
  /\ IF owns /\ workerStarted /\ ~shutdownRequested
     THEN /\ \E r \in Requests :
               /\ RequestId(r)
               /\ results' = [results EXCEPT ![r] = c]
               /\ nextRequest' = Successor(r)
               /\ tasks' = Append(tasks, [id |-> r, call |-> c])
          /\ UNCHANGED answer
     ELSE /\ answer' = [answer EXCEPT ![c] = "unavailable"]
          /\ UNCHANGED <<results, nextRequest, tasks>>
  /\ UNCHANGED <<pt, owns, drained, plugin, callbackMutex, flags, thread,
                 poll, pending, manager, outcome>>

\* HandleWindowMessage: DrainEvents ...
HandleMessage ==
  /\ PtAt("ready")
  /\ posted > 0
  /\ posted' = posted - 1
  /\ pendingEvents' = 0
  /\ PtGoto("drain")
  /\ UNCHANGED <<owns, requests, state, callbackMutex, thread, poll,
                 completions, refused, manager, history>>

\* A drain that takes one completion per message.
DrainOne ==
  /\ PtAt("drain")
  /\ LET n == IF completions = <<>> THEN 0 ELSE 1 IN
       /\ drained' = SubSeq(completions, 1, n)
       /\ completions' = SubSeq(completions, n + 1, Len(completions))
  /\ PtGoto(IF completions = <<>> THEN "ready" ELSE "answer")
  /\ UNCHANGED <<owns, results, nextRequest, state, callbackMutex, thread,
                 poll, pendingEvents, posted, refused, manager, history>>

\* ... then DrainFinaliseCompletions: the swap, and the answers.
DrainSwap ==
  /\ PtAt("drain")
  /\ drained' = completions
  /\ completions' = <<>>
  /\ PtGoto(IF completions = <<>> THEN "ready" ELSE "answer")
  /\ UNCHANGED <<owns, results, nextRequest, state, callbackMutex, thread,
                 poll, pendingEvents, posted, refused, manager, history>>

DrainAnswer ==
  /\ PtAt("answer")
  /\ drained' = Tail(drained)
  /\ LET r == Head(drained).id IN
       IF results[r] = NoCall THEN UNCHANGED <<results, answer>>
       ELSE /\ answer' = [answer EXCEPT ![results[r]] = Head(drained).code]
            /\ results' = [results EXCEPT ![r] = NoCall]
  /\ PtGoto(IF drained' = <<>> THEN "ready" ELSE "answer")
  /\ UNCHANGED <<owns, nextRequest, state, callbackMutex, thread, poll,
                 pending, manager, outcome>>

-----------------------------------------------------------------------------
(* Destruction                                                             *)

\* native_state is moved into a local, which lives as long as the destructor.
BeginDestructor ==
  /\ PtAt("ready")
  /\ PtGoto(IF owns THEN "invalidate" ELSE "cancel")
  /\ UNCHANGED <<owns, requests, state, callbackMutex, thread, poll, pending,
                 manager, history>>

\* InvalidatePlugin without its lock.
InvalidateUnlocked == plugin' = FALSE

InvalidatePlugin == callbackMutex = "free" /\ plugin' = FALSE

\* Shutdowns that leave the worker asleep, or wait for it.
ShutdownUnnoticed == UNCHANGED shutdownRequested
ShutdownWhenIdle  == /\ worker # "finalise"
                     /\ shutdownRequested' = (shutdownRequested \/ workerStarted)

Shutdown == shutdownRequested' = (shutdownRequested \/ workerStarted)

Invalidate ==
  /\ PtAt("invalidate")
  /\ InvalidatePlugin
  /\ PtGoto("cancel")
  /\ UNCHANGED <<owns, requests, callbackMutex, tasks, flags, thread, poll,
                 pending, manager, history>>

CancelPendingFinaliseResults ==
  /\ PtAt("cancel")
  /\ completions' = <<>>
  /\ answer' = [c \in Calls |->
                  IF \E r \in Requests : results[r] = c THEN "unavailable"
                  ELSE answer[c]]
  /\ results' = [r \in Requests |-> NoCall]
  /\ PtGoto("finish")
  /\ UNCHANGED <<owns, nextRequest, drained, state, callbackMutex, thread,
                 poll, pendingEvents, posted, refused, manager, outcome>>

\* Shutdown; then the delegate is unregistered, so no message arrives any
\* more, the pending deques are cleared, and the object goes.
Finish ==
  /\ PtAt("finish")
  /\ IF owns THEN Shutdown ELSE UNCHANGED shutdownRequested
  /\ pendingEvents' = 0 /\ completions' = <<>> /\ posted' = 0
  /\ owns' = FALSE
  /\ PtGoto("gone")
  /\ UNCHANGED <<requests, plugin, callbackMutex, tasks, workerStarted,
                 thread, poll, refused, manager, history>>

-----------------------------------------------------------------------------
(* The worker: Run                                                         *)

WorkerAt(l) == worker = l

\* Without a view there is no window to post to.  The queue of the thread
\* (10000 messages) is shared with everything else that runs there, so
\* PostMessage may be refused at any time; its result is ignored.
PostPlatformMessage ==
  IF ~HasView THEN UNCHANGED <<posted, refused>>
  ELSE \/ posted < PostCap /\ posted' = posted + 1 /\ refused' = FALSE
       \/ refused' = TRUE /\ UNCHANGED posted

WorkerTake ==
  /\ WorkerAt("wait")
  /\ tasks # <<>>
  /\ job' = Head(tasks)
  /\ tasks' = Tail(tasks)
  /\ worker' = "finalise"
  /\ UNCHANGED <<platform, plugin, callbackMutex, flags, poll, pending,
                 manager, history>>

\* simple_torrent_manager_finalise; what it throws becomes a code.
WorkerFinalise ==
  /\ WorkerAt("finalise")
  /\ \E code \in Codes : outcome' = [outcome EXCEPT ![job.call] = code]
  /\ worker' = "dispatch"
  /\ UNCHANGED <<platform, state, callbackMutex, job, poll, pending, manager,
                 answer>>

\* DispatchFinaliseCompletion under callback_mutex_: the test of plugin_ ...
WorkerDispatch ==
  /\ WorkerAt("dispatch")
  /\ callbackMutex = "free"
  /\ IF plugin THEN worker' = "push" /\ callbackMutex' = "worker" /\ UNCHANGED job
     ELSE worker' = "wait" /\ job' = NoJob /\ UNCHANGED callbackMutex
  /\ UNCHANGED <<platform, state, poll, pending, manager, history>>

\* ... QueueFinaliseCompletion, which touches the plugin ...
WorkerPush ==
  /\ WorkerAt("push")
  /\ completions' = Append(completions, [id |-> job.id, code |-> outcome[job.call]])
  /\ worker' = "post"
  /\ UNCHANGED <<platform, state, callbackMutex, job, poll, pendingEvents,
                 posted, refused, manager, history>>

\* ... and PostPlatformMessage.
WorkerPost ==
  /\ WorkerAt("post")
  /\ PostPlatformMessage
  /\ callbackMutex' = "free"
  /\ worker' = "wait"
  /\ job' = NoJob
  /\ UNCHANGED <<platform, state, poll, pendingEvents, completions, manager,
                 history>>

\* A worker that stops without finishing the queue.
StopAtOnce == shutdownRequested

StopRequested == shutdownRequested /\ tasks = <<>>

\* Out of the loop: DestroyManager takes the pointer, and the manager's
\* destructor joins the poll thread.
WorkerStop ==
  /\ WorkerAt("wait")
  /\ StopRequested
  /\ worker' = "destroy"
  /\ manager' = "stopping"
  /\ UNCHANGED <<platform, state, callbackMutex, job, poll, pending, history>>

WorkerDestroyed ==
  /\ WorkerAt("destroy")
  /\ poll = "idle"
  /\ manager' = "down"
  /\ workerStarted' = FALSE
  /\ worker' = "exited"
  /\ UNCHANGED <<platform, plugin, callbackMutex, tasks, shutdownRequested,
                 job, poll, pending, history>>

-----------------------------------------------------------------------------
(* The poll thread of the manager: OnStats and OnMetadata                  *)

PollDispatch ==
  /\ poll = "idle"
  /\ manager \in {"up", "stopping"}
  /\ ~PtAt("spawn") /\ ~PtAt("abort")
  /\ callbackMutex = "free" /\ plugin
  /\ pendingEvents < EventCap
  /\ callbackMutex' = "poll"
  /\ poll' = "push"
  /\ UNCHANGED <<platform, state, thread, pending, manager, history>>

PollPush ==
  /\ poll = "push"
  /\ pendingEvents' = pendingEvents + 1
  /\ poll' = "post"
  /\ UNCHANGED <<platform, state, callbackMutex, thread, completions, posted,
                 refused, manager, history>>

PollPost ==
  /\ poll = "post"
  /\ PostPlatformMessage
  /\ callbackMutex' = "free"
  /\ poll' = "idle"
  /\ UNCHANGED <<platform, state, thread, pendingEvents, completions, manager,
                 history>>

-----------------------------------------------------------------------------
Construct == CreateManager \/ StartWorker \/ Abort
Drain == DrainSwap \/ DrainAnswer
Destruct == Invalidate \/ CancelPendingFinaliseResults \/ Finish

Run ==
  \/ WorkerTake \/ WorkerDispatch \/ WorkerPush \/ WorkerPost
  \/ WorkerStop \/ WorkerDestroyed

Callback == PollPush \/ PollPost

Next ==
  \/ Construct \/ HandleMessage \/ Drain \/ BeginDestructor \/ Destruct
  \/ \E c \in Calls : Finalise(c)
  \/ Run \/ WorkerFinalise
  \/ PollDispatch \/ Callback

Spec == Init /\ [][Next]_vars

\* Threads run on and a mutex starves nobody; the platform thread handles its
\* messages.  Nothing is assumed of the application, nor that a native
\* finalise ever returns.
FairSpec ==
  /\ Spec
  /\ WF_vars(Construct) /\ WF_vars(Drain) /\ WF_vars(Callback)
  /\ SF_vars(Destruct) /\ SF_vars(Run)
  /\ SF_vars(HandleMessage)

\* As it does within its deadlines.
FinaliseReturns == WF_vars(WorkerFinalise)

-----------------------------------------------------------------------------
(* Properties                                                              *)

\* "Once it returns, native code can no longer dereference us": no thread is
\* inside a callback that touches the plugin once the object is gone, and
\* none gets there after InvalidatePlugin.
NoUseAfterFree ==
  PtAt("cancel") \/ PtAt("finish") \/ PtAt("gone")
    => worker \notin {"push", "post"} /\ poll = "idle"

\* The manager calls back through a plain pointer to the NativeState: the
\* plugin or the worker keeps it alive until the manager is down.
StateOutlivesManager ==
  manager \in {"up", "stopping"} => owns \/ worker \notin {"none", "exited"}

\* A completion is left behind, with no message, no drain and no poster on
\* its way that will see to it, only while PostMessage refuses: the first
\* message that is accepted again, whatever it was posted for, takes it along.
NoLostWakeup ==
  HasView /\ plugin /\ completions # <<>>
    => posted > 0 \/ refused \/ worker = "post" \/ PtAt("drain")

\* Every accepted call runs once on a live manager, is answered at most once
\* and with its own code, whatever ids are reused, and the manager is
\* destroyed once after all of them.
Abstract == INSTANCE AsyncFinalise WITH
  accepted <- Taken,
  manager <- IF manager \in {"none", "up"} THEN "up" ELSE "down"
ImplementsAsyncFinalise == Abstract!ASpec

\* Destruction never waits for a native finalise.
DestructorReturns == PtAt("invalidate") ~> PtAt("gone")

\* PostMessage is not refused for ever, and there is a next event to post.
PostsGetThrough == HasView /\ []<>~refused

\* Every accepted call is answered, also when the only message posted for it
\* was refused, provided that a later one is accepted.
AcceptedIsAnswered ==
  FinaliseReturns /\ PostsGetThrough
    => \A c \in Calls : c \in Taken ~> answer[c] # "none"

\* The manager does not outlive the plugin for ever.
ManagerGoes ==
  FinaliseReturns => (PtAt("gone") ~> manager \in {"none", "down"})
=============================================================================

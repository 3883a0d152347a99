------------------------ MODULE WindowsPluginProofs ------------------------
(***************************************************************************)
(* Proofs about WindowsPlugin, for every number of calls and request ids,  *)
(* every bound of the queues, with and without a view: first its           *)
(* invariants, then that it implements AsyncFinalise.  However request ids *)
(* are reused and whenever the plugin goes, a MethodResult is answered at  *)
(* most once, with the code of its own call, and the manager goes last.    *)
(***************************************************************************)
EXTENDS WindowsPlugin, SequenceFacts

\* The mutex is held exactly by a thread inside a callback into the plugin,
\* and the plugin is there as long as it is.
CallbackInv ==
  /\ callbackMutex = "worker" <=> worker \in {"push", "post"}
  /\ callbackMutex = "poll" <=> poll # "idle"
  /\ callbackMutex # "free" => plugin
  /\ pt \in {"cancel", "finish", "gone"} \/ ~owns => ~plugin
  /\ pt \in {"create", "spawn", "abort"} => poll = "idle"

\* What the threads hold between their steps.
WorkInv ==
  /\ worker \in {"finalise", "dispatch", "push", "post"} => job \in Tasks
  /\ worker \in {"dispatch", "push", "post"} => outcome[job.call] \in Codes
  /\ pt = "answer" => drained # <<>>
  /\ poll = "push" => pendingEvents < EventCap

\* The worker owns the manager from its first step to its last; before that
\* the constructor does.
OwnerInv ==
  /\ worker \in {"wait", "finalise", "dispatch", "push", "post"}
       => manager = "up"
  /\ manager = "stopping" <=> worker = "destroy"
  /\ worker = "exited" => manager = "down"
  /\ pt \in {"create", "spawn", "abort"} => owns
  /\ pt \in {"create", "spawn"} => worker = "none"
  /\ pt = "create" => manager = "none"
  /\ pt = "spawn" => manager = "up"
  /\ worker = "none" /\ pt \notin {"create", "spawn", "abort"}
       => ~owns /\ manager \in {"none", "down"}

AdapterInv == TypeOK /\ CallbackInv /\ WorkInv /\ OwnerInv

(***************************************************************************)
(* Types                                                                   *)
(***************************************************************************)

\* A step keeps the program points.
LEMMA ControlTypes ==
  ASSUME ControlType, [Next]_vars
  PROVE  ControlType'
<1> USE DEF ControlType, PtPcs, WorkerPcs, PollPcs
<1>1. CASE CreateManager
  BY <1>1 DEF CreateManager, requests, thread, state, pending, history,
     flags, PtGoto, PtAt
<1>2. CASE StartWorker
  BY <1>2 DEF StartWorker, requests, pending, history, PtGoto, PtAt
<1>3. CASE Abort
  BY <1>3 DEF Abort, DestroyManager, requests, thread, flags, pending,
     history, PtGoto, PtAt
<1>4. CASE HandleMessage
  BY <1>4 DEF HandleMessage, requests, thread, state, history, flags, PtGoto,
     PtAt
<1>5. CASE DrainSwap
  BY <1>5 DEF DrainSwap, thread, state, history, flags, PtGoto, PtAt
<1>6. CASE DrainAnswer
  BY <1>6 DEF DrainAnswer, thread, state, pending, flags, PtGoto, PtAt
<1>7. CASE BeginDestructor
  BY <1>7 DEF BeginDestructor, requests, thread, state, pending, history,
     flags, PtGoto, PtAt
<1>8. CASE Invalidate
  BY <1>8 DEF Invalidate, InvalidatePlugin, requests, thread, flags, pending,
     history, PtGoto, PtAt
<1>9. CASE CancelPendingFinaliseResults
  BY <1>9 DEF CancelPendingFinaliseResults, thread, state, flags, PtGoto,
     PtAt
<1>10. CASE Finish
  BY <1>10 DEF Finish, Shutdown, requests, thread, history, PtGoto, PtAt
<1>11. CASE WorkerTake
  BY <1>11 DEF WorkerTake, platform, flags, pending, history, requests,
     WorkerAt
<1>12. CASE WorkerFinalise
  BY <1>12 DEF WorkerFinalise, platform, state, pending, requests, flags,
     WorkerAt
<1>13. CASE WorkerDispatch
  BY <1>13 DEF WorkerDispatch, platform, state, pending, history, requests,
     flags, WorkerAt
<1>14. CASE WorkerPush
  BY <1>14 DEF WorkerPush, platform, state, history, requests, flags,
     WorkerAt
<1>15. CASE WorkerPost
  BY <1>15 DEF WorkerPost, PostPlatformMessage, platform, state, history,
     requests, flags, WorkerAt
<1>16. CASE WorkerStop
  BY <1>16 DEF WorkerStop, platform, state, pending, history, requests,
     flags, WorkerAt
<1>17. CASE WorkerDestroyed
  BY <1>17 DEF WorkerDestroyed, platform, pending, history, requests,
     WorkerAt
<1>18. CASE PollDispatch
  BY <1>18 DEF PollDispatch, platform, thread, state, pending, history,
     requests, flags, PtAt
<1>19. CASE PollPush
  BY <1>19 DEF PollPush, platform, thread, state, history, requests, flags
<1>20. CASE PollPost
  BY <1>20 DEF PollPost, PostPlatformMessage, platform, thread, state,
     history, requests, flags
<1>21. CASE UNCHANGED <<pt, worker, poll, callbackMutex, manager>>
  BY <1>21
<1>22. QED
  BY <1>1, <1>2, <1>3, <1>4, <1>5, <1>6, <1>7, <1>8, <1>9, <1>10, <1>11,
     <1>12, <1>13, <1>14, <1>15, <1>16, <1>17, <1>18, <1>19, <1>20, <1>21 DEF
     Next, Construct, Drain, Destruct, Run, Callback, vars, requests,
     platform, thread, flags, state, pending, history, Finalise

\* A step keeps the flags Boolean.
LEMMA FlagTypes ==
  ASSUME FlagType, [Next]_vars
  PROVE  FlagType'
<1> USE DEF FlagType
<1>1. CASE StartWorker
  BY <1>1 DEF StartWorker, requests, pending, history, PtGoto, PtAt
<1>2. CASE Abort
  BY <1>2 DEF Abort, DestroyManager, requests, thread, flags, pending,
     history, PtGoto, PtAt
<1>3. CASE Invalidate
  BY <1>3 DEF Invalidate, InvalidatePlugin, requests, thread, flags, pending,
     history, PtGoto, PtAt
<1>4. CASE Finish
  BY <1>4 DEF Finish, Shutdown, requests, thread, history, PtGoto, PtAt
<1>5. CASE WorkerDestroyed
  BY <1>5 DEF WorkerDestroyed, platform, pending, history, requests, WorkerAt
<1>6. CASE WorkerPost
  BY <1>6 DEF WorkerPost, PostPlatformMessage, platform, state, flags, requests
<1>7. CASE PollPost
  BY <1>7 DEF PollPost, PostPlatformMessage, platform, state, flags, requests
<1>8. CASE UNCHANGED <<owns, plugin, workerStarted, shutdownRequested, refused>>
  BY <1>8
<1>9. QED
  BY <1>1, <1>2, <1>3, <1>4, <1>5, <1>6, <1>7, <1>8 DEF Next, Construct, Drain, Destruct,
     Run, Callback, vars, requests, platform, thread, flags, state, pending,
     history, CreateManager, HandleMessage, DrainSwap, DrainAnswer,
     BeginDestructor, CancelPendingFinaliseResults, Finalise, WorkerTake,
     WorkerFinalise, WorkerDispatch, WorkerPush, WorkerStop, PollDispatch,
     PollPush

\* A step keeps the counts of events and messages within their bounds.
LEMMA CountTypes ==
  ASSUME CountType, WorkInv, [Next]_vars
  PROVE  CountType'
<1> USE PluginAssumption DEF CountType, WorkInv
<1>1. CASE HandleMessage
  BY <1>1 DEF HandleMessage, requests, thread, state, history, flags, PtGoto,
     PtAt
<1>2. CASE Finish
  BY <1>2 DEF Finish, Shutdown, requests, thread, history, PtGoto, PtAt
<1>3. CASE WorkerPost
  BY <1>3 DEF WorkerPost, PostPlatformMessage, platform, state, history,
     requests, flags, WorkerAt
<1>4. CASE PollPush
  BY <1>4 DEF PollPush, platform, thread, state, history, requests, flags
<1>5. CASE PollPost
  BY <1>5 DEF PollPost, PostPlatformMessage, platform, thread, state,
     history, requests, flags
<1>6. CASE UNCHANGED <<pendingEvents, posted>>
  BY <1>6
<1>7. QED
  BY <1>1, <1>2, <1>3, <1>4, <1>5, <1>6 DEF Next, Construct, Drain, Destruct,
     Run, Callback, vars, requests, platform, thread, flags, state, pending,
     history, CreateManager, StartWorker, Abort, DrainSwap, DrainAnswer,
     BeginDestructor, Invalidate, CancelPendingFinaliseResults, Finalise,
     WorkerTake, WorkerFinalise, WorkerDispatch, WorkerPush, WorkerStop,
     WorkerDestroyed, PollDispatch

\* A step keeps the table of results.
LEMMA ResultTypes ==
  ASSUME ResultType, [Next]_vars
  PROVE  ResultType'
<1> USE PluginAssumption DEF ResultType, Requests
<1>1. CASE DrainAnswer
  BY <1>1 DEF DrainAnswer, thread, state, pending, flags, PtGoto, PtAt
<1>2. CASE CancelPendingFinaliseResults
  BY <1>2 DEF CancelPendingFinaliseResults, thread, state, flags, PtGoto,
     PtAt
<1>3. ASSUME NEW c \in Calls, Finalise(c) PROVE ResultType'
  <2>1. CASE ~(owns /\ workerStarted /\ ~shutdownRequested)
    BY <1>3, <2>1 DEF Finalise
  <2>2. CASE owns /\ workerStarted /\ ~shutdownRequested
    <3>1. PICK r \in Requests : /\ results' = [results EXCEPT ![r] = c]
                               /\ nextRequest' = (r % MaxRequest) + 1
      BY <1>3, <2>2 DEF Finalise, Successor
    <3>2. (r % MaxRequest) + 1 \in Requests
      OBVIOUS
    <3>3. QED
      BY <3>1, <3>2
  <2>3. QED
    BY <2>1, <2>2
<1>4. CASE UNCHANGED <<results, nextRequest>>
  BY <1>4
<1>5. QED
  BY <1>1, <1>2, <1>3, <1>4 DEF Next, Construct, Drain, Destruct, Run,
     Callback, vars, requests, platform, thread, flags, state, pending,
     history, CreateManager, StartWorker, Abort, HandleMessage, DrainSwap,
     BeginDestructor, Invalidate, Finish, WorkerTake, WorkerFinalise,
     WorkerDispatch, WorkerPush, WorkerPost, WorkerStop, WorkerDestroyed,
     PollDispatch, PollPush, PollPost

\* A step keeps the queues and the worker's task.
LEMMA QueueTypes ==
  ASSUME QueueType, WorkInv, [Next]_vars
  PROVE  QueueType'
<1> USE DEF QueueType, WorkInv
<1>1. CASE DrainSwap
  BY <1>1 DEF DrainSwap, thread, state, history, flags, PtGoto, PtAt
<1>2. CASE DrainAnswer
  BY <1>2 DEF DrainAnswer, thread, state, pending, flags, PtGoto, PtAt
<1>3. CASE CancelPendingFinaliseResults
  BY <1>3 DEF CancelPendingFinaliseResults, thread, state, flags, PtGoto,
     PtAt
<1>4. CASE Finish
  BY <1>4 DEF Finish, Shutdown, requests, thread, history, PtGoto, PtAt
<1>5. ASSUME NEW c \in Calls, Finalise(c) PROVE QueueType'
  <2>1. CASE ~(owns /\ workerStarted /\ ~shutdownRequested)
    BY <1>5, <2>1 DEF Finalise, thread, pending
  <2>2. CASE owns /\ workerStarted /\ ~shutdownRequested
    <3>1. PICK r \in Requests : tasks' = Append(tasks, [id |-> r, call |-> c])
      BY <1>5, <2>2 DEF Finalise
    <3>2. [id |-> r, call |-> c] \in Tasks
      BY DEF Tasks
    <3>3. QED
      BY <1>5, <3>1, <3>2 DEF Finalise, thread, pending
  <2>3. QED
    BY <2>1, <2>2
<1>6. CASE WorkerTake
  BY <1>6 DEF WorkerTake, platform, flags, pending, history, requests,
     WorkerAt
<1>7. CASE WorkerDispatch
  BY <1>7 DEF WorkerDispatch, platform, state, pending, history, requests,
     flags, WorkerAt
<1>8. CASE WorkerPush
  <2>1. [id |-> job.id, code |-> outcome[job.call]] \in Completions
    BY <1>8 DEF WorkerPush, WorkerAt, Completions, Tasks
  <2>2. QED
    BY <1>8, <2>1 DEF WorkerPush, platform, requests, state, flags
<1>9. CASE WorkerPost
  BY <1>9 DEF WorkerPost, PostPlatformMessage, platform, state, history,
     requests, flags, WorkerAt
<1>10. CASE UNCHANGED <<tasks, job, completions, drained>>
  BY <1>10
<1>11. QED
  BY <1>1, <1>2, <1>3, <1>4, <1>5, <1>6, <1>7, <1>8, <1>9, <1>10 DEF Next,
     Construct, Drain, Destruct, Run, Callback, vars, requests, platform,
     thread, flags, state, pending, history, CreateManager, StartWorker,
     Abort, HandleMessage, BeginDestructor, Invalidate, WorkerFinalise,
     WorkerStop, WorkerDestroyed, PollDispatch, PollPush, PollPost

\* A step keeps the histories.
LEMMA HistoryTypes ==
  ASSUME HistoryType, QueueType, WorkInv, [Next]_vars
  PROVE  HistoryType'
<1> USE DEF HistoryType, QueueType, WorkInv
<1>1. CASE DrainAnswer
  <2>1. Head(drained) \in Completions
    BY <1>1 DEF DrainAnswer, PtAt
  <2>2. Head(drained).code \in Codes
    BY <2>1 DEF Completions
  <2>3. QED
    BY <1>1, <2>2 DEF DrainAnswer, pending
<1>2. CASE CancelPendingFinaliseResults
  BY <1>2 DEF CancelPendingFinaliseResults, thread, state, flags, PtGoto,
     PtAt
<1>3. ASSUME NEW c \in Calls, Finalise(c) PROVE HistoryType'
  BY <1>3 DEF Finalise, Fresh, RequestId, thread, flags, pending, PtAt
<1>4. CASE WorkerFinalise
  BY <1>4 DEF WorkerFinalise, platform, state, pending, requests, flags,
     WorkerAt
<1>5. CASE UNCHANGED <<outcome, answer>>
  BY <1>5
<1>6. QED
  BY <1>1, <1>2, <1>3, <1>4, <1>5 DEF Next, Construct, Drain, Destruct, Run,
     Callback, vars, requests, platform, thread, flags, state, pending,
     history, CreateManager, StartWorker, Abort, HandleMessage, DrainSwap,
     BeginDestructor, Invalidate, Finish, WorkerTake, WorkerDispatch,
     WorkerPush, WorkerPost, WorkerStop, WorkerDestroyed, PollDispatch,
     PollPush, PollPost

(***************************************************************************)
(* The invariant                                                           *)
(***************************************************************************)

\* Mutual exclusion of the callbacks, and their exclusion of InvalidatePlugin.
LEMMA CallbackKept ==
  ASSUME TypeOK, CallbackInv, OwnerInv, [Next]_vars
  PROVE  CallbackInv'
<1> USE DEF TypeOK, ControlType, FlagType, CallbackInv, OwnerInv
<1>1. CASE CreateManager
  BY <1>1 DEF CreateManager, requests, thread, state, pending, history,
     flags, PtGoto, PtAt
<1>2. CASE StartWorker
  BY <1>2 DEF StartWorker, requests, pending, history, PtGoto, PtAt
<1>3. CASE Abort
  BY <1>3 DEF Abort, DestroyManager, requests, thread, flags, pending,
     history, PtGoto, PtAt
<1>4. CASE HandleMessage
  BY <1>4 DEF HandleMessage, requests, thread, state, history, flags, PtGoto,
     PtAt
<1>5. CASE DrainSwap
  BY <1>5 DEF DrainSwap, thread, state, history, flags, PtGoto, PtAt
<1>6. CASE DrainAnswer
  BY <1>6 DEF DrainAnswer, thread, state, pending, flags, PtGoto, PtAt
<1>7. CASE BeginDestructor
  BY <1>7 DEF BeginDestructor, requests, thread, state, pending, history,
     flags, PtGoto, PtAt
<1>8. CASE Invalidate
  BY <1>8 DEF Invalidate, InvalidatePlugin, requests, thread, flags, pending,
     history, PtGoto, PtAt
<1>9. CASE CancelPendingFinaliseResults
  BY <1>9 DEF CancelPendingFinaliseResults, thread, state, flags, PtGoto,
     PtAt
<1>10. CASE Finish
  BY <1>10 DEF Finish, Shutdown, requests, thread, history, PtGoto, PtAt
<1>11. CASE WorkerTake
  BY <1>11 DEF WorkerTake, platform, flags, pending, history, requests,
     WorkerAt
<1>12. CASE WorkerFinalise
  BY <1>12 DEF WorkerFinalise, platform, state, pending, requests, flags,
     WorkerAt
<1>13. CASE WorkerDispatch
  BY <1>13 DEF WorkerDispatch, platform, state, pending, history, requests,
     flags, WorkerAt
<1>14. CASE WorkerPush
  BY <1>14 DEF WorkerPush, platform, state, history, requests, flags,
     WorkerAt
<1>15. CASE WorkerPost
  BY <1>15 DEF WorkerPost, PostPlatformMessage, platform, state, history,
     requests, flags, WorkerAt
<1>16. CASE WorkerStop
  BY <1>16 DEF WorkerStop, platform, state, pending, history, requests,
     flags, WorkerAt
<1>17. CASE WorkerDestroyed
  BY <1>17 DEF WorkerDestroyed, platform, pending, history, requests,
     WorkerAt
<1>18. CASE PollDispatch
  BY <1>18 DEF PollDispatch, platform, thread, state, pending, history,
     requests, flags, PtAt
<1>19. CASE PollPush
  BY <1>19 DEF PollPush, platform, thread, state, history, requests, flags
<1>20. CASE PollPost
  BY <1>20 DEF PollPost, PostPlatformMessage, platform, thread, state,
     history, requests, flags
<1>21. CASE UNCHANGED <<callbackMutex, worker, poll, plugin, pt, owns>>
  BY <1>21
<1>22. QED
  BY <1>1, <1>2, <1>3, <1>4, <1>5, <1>6, <1>7, <1>8, <1>9, <1>10, <1>11,
     <1>12, <1>13, <1>14, <1>15, <1>16, <1>17, <1>18, <1>19, <1>20, <1>21 DEF
     Next, Construct, Drain, Destruct, Run, Callback, vars, requests,
     platform, thread, flags, state, pending, history, Finalise

\* What the threads hold from one step to the next.
LEMMA WorkKept ==
  ASSUME TypeOK, WorkInv, [Next]_vars
  PROVE  WorkInv'
<1> USE PluginAssumption DEF TypeOK, ControlType, CountType, QueueType,
   HistoryType, WorkInv
<1>1. CASE CreateManager
  BY <1>1 DEF CreateManager, requests, thread, state, pending, history,
     flags, PtGoto, PtAt
<1>2. CASE StartWorker
  BY <1>2 DEF StartWorker, requests, pending, history, PtGoto, PtAt
<1>3. CASE Abort
  BY <1>3 DEF Abort, DestroyManager, requests, thread, flags, pending,
     history, PtGoto, PtAt
<1>4. CASE HandleMessage
  BY <1>4 DEF HandleMessage, requests, thread, state, history, flags, PtGoto,
     PtAt
<1>5. CASE DrainSwap
  BY <1>5 DEF DrainSwap, thread, state, history, flags, PtGoto, PtAt
<1>6. CASE DrainAnswer
  BY <1>6 DEF DrainAnswer, thread, state, pending, flags, PtGoto, PtAt
<1>7. CASE BeginDestructor
  BY <1>7 DEF BeginDestructor, requests, thread, state, pending, history,
     flags, PtGoto, PtAt
<1>8. CASE Invalidate
  BY <1>8 DEF Invalidate, InvalidatePlugin, requests, thread, flags, pending,
     history, PtGoto, PtAt
<1>9. CASE CancelPendingFinaliseResults
  BY <1>9 DEF CancelPendingFinaliseResults, thread, state, flags, PtGoto,
     PtAt
<1>10. CASE Finish
  BY <1>10 DEF Finish, Shutdown, requests, thread, history, PtGoto, PtAt
<1>11. CASE WorkerTake
  BY <1>11 DEF WorkerTake, platform, flags, pending, history, requests,
     WorkerAt
<1>12. CASE WorkerFinalise
  <2>1. job \in Tasks /\ job.call \in Calls
    BY <1>12 DEF WorkerFinalise, WorkerAt, Tasks
  <2>2. PICK code \in Codes : outcome' = [outcome EXCEPT ![job.call] = code]
    BY <1>12 DEF WorkerFinalise
  <2>3. outcome'[job.call] = code
    BY <2>1, <2>2 DEF HistoryType
  <2>4. QED
    BY <1>12, <2>1, <2>3 DEF WorkerFinalise, platform, state, flags, pending, requests
<1>13. CASE WorkerDispatch
  BY <1>13 DEF WorkerDispatch, platform, state, pending, history, requests,
     flags, WorkerAt
<1>14. CASE WorkerPush
  BY <1>14 DEF WorkerPush, platform, state, history, requests, flags,
     WorkerAt
<1>15. CASE WorkerPost
  BY <1>15 DEF WorkerPost, PostPlatformMessage, platform, state, history,
     requests, flags, WorkerAt
<1>16. CASE WorkerStop
  BY <1>16 DEF WorkerStop, platform, state, pending, history, requests,
     flags, WorkerAt
<1>17. CASE WorkerDestroyed
  BY <1>17 DEF WorkerDestroyed, platform, pending, history, requests,
     WorkerAt
<1>18. CASE PollDispatch
  BY <1>18 DEF PollDispatch, platform, thread, state, pending, history,
     requests, flags, PtAt
<1>19. CASE PollPush
  BY <1>19 DEF PollPush, platform, thread, state, history, requests, flags
<1>20. CASE PollPost
  BY <1>20 DEF PollPost, PostPlatformMessage, platform, thread, state,
     history, requests, flags
<1>21. CASE UNCHANGED <<worker, job, outcome, pt, drained, poll, pendingEvents>>
  BY <1>21
<1>22. QED
  BY <1>1, <1>2, <1>3, <1>4, <1>5, <1>6, <1>7, <1>8, <1>9, <1>10, <1>11,
     <1>12, <1>13, <1>14, <1>15, <1>16, <1>17, <1>18, <1>19, <1>20, <1>21 DEF
     Next, Construct, Drain, Destruct, Run, Callback, vars, requests,
     platform, thread, flags, state, pending, history, Finalise

\* The manager has one owner after the other.
LEMMA OwnerKept ==
  ASSUME TypeOK, OwnerInv, [Next]_vars
  PROVE  OwnerInv'
<1> USE DEF TypeOK, ControlType, FlagType, OwnerInv
<1>1. CASE CreateManager
  BY <1>1 DEF CreateManager, requests, thread, state, pending, history,
     flags, PtGoto, PtAt
<1>2. CASE StartWorker
  BY <1>2 DEF StartWorker, requests, pending, history, PtGoto, PtAt
<1>3. CASE Abort
  BY <1>3 DEF Abort, DestroyManager, requests, thread, flags, pending,
     history, PtGoto, PtAt
<1>4. CASE HandleMessage
  BY <1>4 DEF HandleMessage, requests, thread, state, history, flags, PtGoto,
     PtAt
<1>5. CASE DrainSwap
  BY <1>5 DEF DrainSwap, thread, state, history, flags, PtGoto, PtAt
<1>6. CASE DrainAnswer
  BY <1>6 DEF DrainAnswer, thread, state, pending, flags, PtGoto, PtAt
<1>7. CASE BeginDestructor
  BY <1>7 DEF BeginDestructor, requests, thread, state, pending, history,
     flags, PtGoto, PtAt
<1>8. CASE Invalidate
  BY <1>8 DEF Invalidate, InvalidatePlugin, requests, thread, flags, pending,
     history, PtGoto, PtAt
<1>9. CASE CancelPendingFinaliseResults
  BY <1>9 DEF CancelPendingFinaliseResults, thread, state, flags, PtGoto,
     PtAt
<1>10. CASE Finish
  BY <1>10 DEF Finish, Shutdown, requests, thread, history, PtGoto, PtAt
<1>11. CASE WorkerTake
  BY <1>11 DEF WorkerTake, platform, flags, pending, history, requests,
     WorkerAt
<1>12. CASE WorkerFinalise
  BY <1>12 DEF WorkerFinalise, platform, state, pending, requests, flags,
     WorkerAt
<1>13. CASE WorkerDispatch
  BY <1>13 DEF WorkerDispatch, platform, state, pending, history, requests,
     flags, WorkerAt
<1>14. CASE WorkerPush
  BY <1>14 DEF WorkerPush, platform, state, history, requests, flags,
     WorkerAt
<1>15. CASE WorkerPost
  BY <1>15 DEF WorkerPost, PostPlatformMessage, platform, state, history,
     requests, flags, WorkerAt
<1>16. CASE WorkerStop
  BY <1>16 DEF WorkerStop, platform, state, pending, history, requests,
     flags, WorkerAt
<1>17. CASE WorkerDestroyed
  BY <1>17 DEF WorkerDestroyed, platform, pending, history, requests,
     WorkerAt
<1>18. CASE UNCHANGED <<worker, manager, pt, owns>>
  BY <1>18
<1>19. QED
  BY <1>1, <1>2, <1>3, <1>4, <1>5, <1>6, <1>7, <1>8, <1>9, <1>10, <1>11,
     <1>12, <1>13, <1>14, <1>15, <1>16, <1>17, <1>18 DEF Next, Construct,
     Drain, Destruct, Run, Callback, vars, requests, platform, thread, flags,
     state, pending, history, Finalise, PollDispatch, PollPush, PollPost

\* A plugin under construction satisfies the invariant.
LEMMA AdapterInit == Init => AdapterInv
<1> SUFFICES ASSUME Init PROVE AdapterInv
  OBVIOUS
<1> USE PluginAssumption DEF Init
<1>1. ControlType /\ FlagType /\ CountType
  <2>1. ControlType
    BY DEF ControlType, PtPcs, WorkerPcs, PollPcs
  <2>2. FlagType
    BY DEF FlagType
  <2>3. CountType
    BY DEF CountType
  <2>4. QED
    BY <2>1, <2>2, <2>3
<1>2. ResultType /\ QueueType /\ HistoryType
  BY DEF ResultType, QueueType, HistoryType, Requests
<1>3. CallbackInv
  BY DEF CallbackInv
<1>4. WorkInv /\ OwnerInv
  BY DEF WorkInv, OwnerInv
<1>5. QED
  BY <1>1, <1>2, <1>3, <1>4 DEF AdapterInv, TypeOK

\* AdapterInv is inductive.
LEMMA AdapterStep == AdapterInv /\ [Next]_vars => AdapterInv'
<1> SUFFICES ASSUME AdapterInv, [Next]_vars PROVE AdapterInv'
  OBVIOUS
<1> USE DEF AdapterInv, TypeOK
<1>1. ControlType' /\ FlagType' /\ CountType'
  BY ControlTypes, FlagTypes, CountTypes
<1>2. ResultType' /\ QueueType' /\ HistoryType'
  BY ResultTypes, QueueTypes, HistoryTypes
<1>3. CallbackInv' /\ WorkInv' /\ OwnerInv'
  BY CallbackKept, WorkKept, OwnerKept
<1>4. QED
  BY <1>1, <1>2, <1>3

\* The invariant holds throughout.
THEOREM AdapterInvCorrect == Spec => []AdapterInv
<1>1. Init => AdapterInv
  BY AdapterInit
<1>2. AdapterInv /\ [Next]_vars => AdapterInv'
  BY AdapterStep
<1>3. QED
  BY <1>1, <1>2, PTL DEF Spec

\* Type correctness of the Windows adapter.
THEOREM TypeCorrect == Spec => []TypeOK
<1>1. AdapterInv => TypeOK
  BY DEF AdapterInv
<1>2. QED
  BY <1>1, AdapterInvCorrect, PTL

\* ~SimpleTorrentPlugin: "Once it returns, native code can no longer
\* dereference us", however the callbacks of both threads interleave.
THEOREM NoUseAfterFreeCorrect == Spec => []NoUseAfterFree
<1>1. AdapterInv => NoUseAfterFree
  BY DEF AdapterInv, CallbackInv, NoUseAfterFree, PtAt
<1>2. QED
  BY <1>1, AdapterInvCorrect, PTL

\* The NativeState that the manager calls back into lives as long as it.
THEOREM StateOutlivesManagerCorrect == Spec => []StateOutlivesManager
<1>1. AdapterInv => StateOutlivesManager
  BY ZenonT(30) DEF AdapterInv, OwnerInv, StateOutlivesManager
<1>2. QED
  BY <1>1, AdapterInvCorrect, PTL

\* Whoever leaves a completion behind has posted, is about to, or is drained
\* by the destructor.
LEMMA WakeupStep ==
  ASSUME AdapterInv, NoLostWakeup, [Next]_vars
  PROVE  NoLostWakeup'
<1> USE DEF NoLostWakeup, AdapterInv, TypeOK, PtAt, PtGoto, WorkerAt
<1>1. CASE Construct
  <2>1. CASE CreateManager
    BY <2>1 DEF CreateManager, state, pending, thread
  <2>2. CASE StartWorker
    BY <2>2 DEF StartWorker, pending, OwnerInv
  <2>3. CASE Abort
    BY <2>3 DEF Abort
  <2>4. QED
    BY <1>1, <2>1, <2>2, <2>3 DEF Construct
<1>2. CASE HandleMessage
  BY <1>2 DEF HandleMessage
<1>3. CASE Drain
  BY <1>3 DEF Drain, DrainSwap, DrainAnswer, state, pending, thread
<1>4. CASE BeginDestructor \/ Destruct
  <2>1. CASE BeginDestructor
    BY <2>1 DEF BeginDestructor, state, pending, thread
  <2>2. CASE Invalidate
    BY <2>2 DEF Invalidate, InvalidatePlugin
  <2>3. CASE CancelPendingFinaliseResults \/ Finish
    BY <2>3 DEF CancelPendingFinaliseResults, Finish
  <2>4. QED
    BY <1>4, <2>1, <2>2, <2>3 DEF Destruct
<1>5. ASSUME NEW c \in Calls, Finalise(c) PROVE NoLostWakeup'
  BY <1>5 DEF Finalise, pending, thread
<1>6. CASE WorkerTake \/ WorkerFinalise \/ WorkerDispatch \/ WorkerStop
             \/ WorkerDestroyed
  BY <1>6 DEF WorkerTake, WorkerFinalise, WorkerDispatch, WorkerStop,
     WorkerDestroyed, platform, state, pending
<1>7. CASE WorkerPush
  BY <1>7 DEF WorkerPush
<1>8. CASE WorkerPost \/ PollPost
  <2>1. HasView => posted' > 0 \/ refused'
    BY <1>8, PluginAssumption
       DEF WorkerPost, PollPost, PostPlatformMessage, CountType
  <2>2. UNCHANGED <<plugin, completions, pt>>
    BY <1>8 DEF WorkerPost, PollPost, platform, state
  <2>3. QED
    BY <2>1, <2>2
<1>9. CASE PollDispatch \/ PollPush
  BY <1>9 DEF PollDispatch, PollPush, platform, state, pending, thread
<1>10. CASE UNCHANGED vars
  BY <1>10 DEF vars
<1>11. QED
  BY <1>1, <1>2, <1>3, <1>4, <1>5, <1>6, <1>7, <1>8, <1>9, <1>10
  DEF Next, Run, Callback

\* A completion waits without a message, a drain or a poster that will see to
\* it only while PostMessage refuses, and the next message that is accepted
\* takes all completions along (PostPlatformMessage, DrainFinaliseCompletions).
THEOREM NoLostWakeupCorrect == Spec => []NoLostWakeup
<1>1. Init => NoLostWakeup
  BY DEF Init, NoLostWakeup
<1>2. AdapterInv /\ NoLostWakeup /\ [Next]_vars => NoLostWakeup'
  BY WakeupStep
<1>3. QED
  BY <1>1, <1>2, AdapterInvCorrect, PTL DEF Spec

(***************************************************************************)
(* The ledger: which call waits under which request id, and where its task *)
(* or its completion is.                                                   *)
(***************************************************************************)

\* Results may still wait.
Live == pt \notin {"finish", "gone"}

Ids(s) == {s[i].id : i \in DOMAIN s}
Once(s) == \A i, j \in DOMAIN s : s[i].id = s[j].id => i = j

\* An accepted call waits under one request id until it is answered.
ResultInv ==
  /\ \A q, r \in Requests :
       results[q] = results[r] /\ results[q] # NoCall => q = r
  /\ \A r \in Requests : results[r] # NoCall =>
       results[r] \in Taken /\ answer[results[r]] = "none"
  /\ Live => \A c \in Taken :
       answer[c] # "none" \/ \E r \in Requests : results[r] = c

\* A task is that of a call that waits and has not run.
TaskInv ==
  /\ \A i \in DOMAIN tasks : outcome[tasks[i].call] = "none"
  /\ \A i, j \in DOMAIN tasks : tasks[i].call = tasks[j].call => i = j
  /\ worker = "finalise" =>
       /\ outcome[job.call] = "none"
       /\ \A i \in DOMAIN tasks : tasks[i].call # job.call
  /\ Live => \A i \in DOMAIN tasks : results[tasks[i].id] = tasks[i].call
  /\ Live /\ worker \in {"finalise", "dispatch", "push"}
       => results[job.id] = job.call

\* No task comes before the constructor returned or after shutdown.
OpenInv ==
  /\ pt \in {"create", "spawn", "abort"} => tasks = <<>>
  /\ worker \in {"destroy", "exited"} => shutdownRequested

\* A completion is for the call that waits under its id, with its code.
Faithful(s) ==
  \A i \in DOMAIN s : /\ results[s[i].id] # NoCall
                      /\ outcome[results[s[i].id]] = s[i].code
CompletionInv ==
  /\ Live => Faithful(completions) /\ Faithful(drained)
  /\ Once(completions) /\ Once(drained)
  /\ Ids(completions) \intersect Ids(drained) = {}
  /\ Live /\ worker \in {"dispatch", "push"}
       => job.id \notin Ids(completions) \union Ids(drained)
  /\ pt # "answer" => drained = <<>>

LedgerInv == ResultInv /\ TaskInv /\ OpenInv /\ CompletionInv
Inv == AdapterInv /\ LedgerInv

(***************************************************************************)
(* Frames                                                                  *)
(***************************************************************************)

\* Only the platform thread accepts, answers and abandons.
LEMMA QuietSteps ==
  ASSUME AdapterInv, [Next]_vars, \A c \in Calls : ~Finalise(c),
         ~DrainAnswer, ~CancelPendingFinaliseResults
  PROVE  UNCHANGED <<results, answer>>
  BY DEF Next, Construct, Drain, Destruct, Run, Callback, vars, requests,
     platform, thread, flags, state, pending, history, CreateManager,
     StartWorker, Abort, HandleMessage, DrainSwap, BeginDestructor, Invalidate,
     Finish, WorkerTake, WorkerFinalise, WorkerDispatch, WorkerPush, WorkerPost,
     WorkerStop, WorkerDestroyed, PollDispatch, PollPush, PollPost

\* A call stays taken from the queue through the worker to its outcome.
LEMMA TakenKept ==
  ASSUME AdapterInv, [Next]_vars, \A c \in Calls : ~Finalise(c)
  PROVE  Taken' = Taken
<1> USE DEF AdapterInv, TypeOK, Taken
<1>1. CASE WorkerTake
  <2>1. tasks \in Seq(Tasks) /\ tasks # <<>>
    BY <1>1 DEF WorkerTake, QueueType
  <2>2. UNCHANGED outcome /\ job' = Head(tasks) /\ tasks' = Tail(tasks)
        /\ worker = "wait" /\ worker' = "finalise"
    BY <1>1 DEF WorkerTake, WorkerAt, history
  <2>3. ASSUME NEW c \in Calls
        PROVE  (\E i \in DOMAIN tasks : tasks[i].call = c)
               <=> \/ Head(tasks).call = c
                   \/ \E i \in DOMAIN Tail(tasks) : Tail(tasks)[i].call = c
    <3>1. CASE \E i \in DOMAIN tasks : tasks[i].call = c
      <4>1. PICK i \in DOMAIN tasks : tasks[i].call = c
        BY <3>1
      <4>2. i = 1 \/ \E j \in DOMAIN Tail(tasks) : Tail(tasks)[j] = tasks[i]
        BY <2>1, TailAt
      <4>3. Head(tasks) = tasks[1]
        BY <2>1, TailAt
      <4>4. QED
        BY <4>1, <4>2, <4>3
    <3>2. CASE Head(tasks).call = c
      BY <2>1, <3>2, TailAt
    <3>3. CASE \E i \in DOMAIN Tail(tasks) : Tail(tasks)[i].call = c
      BY <2>1, <3>3, TailAt
    <3>4. QED
      BY <3>1, <3>2, <3>3
  <2>4. QED
    BY <2>2, <2>3
<1>2. CASE WorkerFinalise
  <2>1. /\ job.call \in Calls
        /\ worker = "finalise" /\ worker' = "dispatch"
        /\ UNCHANGED <<tasks, job>>
    BY <1>2 DEF WorkerFinalise, WorkerAt, WorkInv, Tasks, state
  <2>2. PICK code \in Codes : outcome' = [outcome EXCEPT ![job.call] = code]
    BY <1>2 DEF WorkerFinalise
  <2>3. code # "none" /\ outcome \in [Calls -> Codes \union {"none"}]
    BY PluginAssumption DEF HistoryType
  <2>4. QED
    BY <2>1, <2>2, <2>3
<1>3. CASE UNCHANGED <<outcome, tasks>> /\ worker # "finalise" /\ worker' # "finalise"
  BY <1>3
<1>4. CASE UNCHANGED <<outcome, tasks, worker, job>>
  BY <1>4
<1>5. CASE StartWorker
  BY <1>5 DEF StartWorker, PtAt, OwnerInv, history
<1>6. CASE WorkerDispatch \/ WorkerPush \/ WorkerPost \/ WorkerStop
           \/ WorkerDestroyed
  BY <1>3, <1>6 DEF WorkerDispatch, WorkerPush, WorkerPost, WorkerStop,
     WorkerDestroyed, WorkerAt, state, history
<1>7. QED
  BY <1>1, <1>2, <1>4, <1>5, <1>6
  DEF Next, Construct, Drain, Destruct, Run, Callback, vars, requests,
     platform, thread, flags, state, pending, history, CreateManager, Abort,
     HandleMessage, DrainSwap, DrainAnswer, BeginDestructor, Invalidate,
     CancelPendingFinaliseResults, Finish, PollDispatch, PollPush, PollPost

\* Teardown is for good.
LEMMA LiveKept ==
  ASSUME AdapterInv, [Next]_vars, ~CancelPendingFinaliseResults
  PROVE  Live' => Live
  BY DEF Live, Next, Construct, Drain, Destruct, Run, Callback, vars, requests,
     platform, thread, flags, state, pending, history, CreateManager,
     StartWorker, Abort, HandleMessage, DrainSwap, DrainAnswer, BeginDestructor,
     Invalidate, Finish, Finalise, WorkerTake, WorkerFinalise, WorkerDispatch,
     WorkerPush, WorkerPost, WorkerStop, WorkerDestroyed, PollDispatch,
     PollPush, PollPost, PtAt, PtGoto

\* A call taken on is new to the ledger and waits under a free id.
LEMMA AcceptSteps ==
  ASSUME Inv, NEW c \in Calls, Finalise(c), owns, workerStarted,
         ~shutdownRequested
  PROVE  \E r \in Requests :
           /\ results[r] = NoCall /\ results' = [results EXCEPT ![r] = c]
           /\ tasks' = Append(tasks, [id |-> r, call |-> c])
           /\ c \notin Taken /\ answer[c] = "none" /\ outcome[c] = "none"
           /\ \A q \in Requests : results[q] # c
           /\ \A i \in DOMAIN tasks : tasks[i].call # c
           /\ Taken' = Taken \union {c}
           /\ UNCHANGED <<pt, answer, outcome, worker, job, completions, drained>>
           /\ pt = "ready"
<1>1. PICK r \in Requests :
        /\ results[r] = NoCall /\ results' = [results EXCEPT ![r] = c]
        /\ tasks' = Append(tasks, [id |-> r, call |-> c])
  BY DEF Finalise, RequestId
<1>2. /\ UNCHANGED <<pt, answer, outcome, worker, job, completions, drained>>
      /\ pt = "ready" /\ c \notin Taken /\ answer[c] = "none"
  BY DEF Finalise, Fresh, PtAt, thread, pending
<1>3. outcome[c] = "none" /\ \A i \in DOMAIN tasks : tasks[i].call # c
  BY <1>2 DEF Taken
<1>4. \A q \in Requests : results[q] # c
  BY <1>2, PluginAssumption DEF Inv, LedgerInv, ResultInv
<1>5. Taken' = Taken \union {c}
  <2>1. tasks \in Seq(Tasks) /\ [id |-> r, call |-> c] \in Tasks
    BY DEF Inv, AdapterInv, TypeOK, QueueType, Tasks
  <2>2. ASSUME NEW d \in Calls
        PROVE  (\E i \in DOMAIN tasks' : tasks'[i].call = d)
               <=> d = c \/ \E i \in DOMAIN tasks : tasks[i].call = d
    BY <1>1, <2>1, AppendAt
  <2>3. QED
    BY <1>2, <2>2 DEF Taken
<1>6. QED
  BY <1>1, <1>2, <1>3, <1>4, <1>5

\* A refused call touches nothing but its own answer.
LEMMA RefuseSteps ==
  ASSUME Inv, NEW c \in Calls, Finalise(c),
         ~(owns /\ workerStarted /\ ~shutdownRequested)
  PROVE  /\ c \notin Taken /\ answer[c] = "none"
         /\ answer' = [answer EXCEPT ![c] = "unavailable"]
         /\ UNCHANGED <<pt, results, outcome, tasks, worker, job, completions,
                        drained, shutdownRequested>>
         /\ Taken' = Taken
  BY DEF Finalise, Fresh, thread, pending, flags, Taken

(***************************************************************************)
(* The ledger is kept                                                      *)
(***************************************************************************)

\* ResultInv is kept: an id is reused only once its result is gone.
LEMMA ResultKept == ASSUME Inv, [Next]_vars PROVE ResultInv'
<1> USE DEF Inv, LedgerInv, ResultInv
<1>0. /\ results \in [Requests -> Calls \union {NoCall}]
      /\ answer \in [Calls -> Codes \union {"none", "unavailable"}]
      /\ NoCall \notin Calls /\ Taken \subseteq Calls
  BY PluginAssumption DEF AdapterInv, TypeOK, ResultType, HistoryType, Taken
<1>1. ASSUME NEW c \in Calls, Finalise(c) PROVE ResultInv'
  <2>1. CASE owns /\ workerStarted /\ ~shutdownRequested
    <3>1. PICK r \in Requests :
            /\ results[r] = NoCall /\ results' = [results EXCEPT ![r] = c]
            /\ answer[c] = "none"
            /\ \A q \in Requests : results[q] # c
            /\ Taken' = Taken \union {c}
            /\ UNCHANGED <<pt, answer>>
      BY <1>1, <2>1, AcceptSteps
    <3>2. QED
      BY <1>0, <3>1 DEF Live
  <2>2. CASE ~(owns /\ workerStarted /\ ~shutdownRequested)
    <3>1. /\ c \notin Taken /\ answer' = [answer EXCEPT ![c] = "unavailable"]
          /\ UNCHANGED <<pt, results>> /\ Taken' = Taken
      BY <1>1, <2>2, RefuseSteps
    <3>2. QED
      BY <1>0, <3>1 DEF Live
  <2>3. QED
    BY <2>1, <2>2
<1>2. CASE DrainAnswer
  <2>1. drained \in Seq(Completions) /\ drained # <<>>
    BY <1>2 DEF DrainAnswer, PtAt, AdapterInv, TypeOK, QueueType, WorkInv
  <2>2. Head(drained) \in Completions
    BY <2>1
  <2> DEFINE r == Head(drained).id
  <2>3. r \in Requests /\ Head(drained).code \in Codes
    BY <2>2 DEF Completions
  <2>4. Taken' = Taken /\ Live' /\ Live
    BY <1>2, TakenKept DEF DrainAnswer, PtAt, PtGoto, Live, Finalise
  <2>5. CASE results[r] = NoCall
    BY <1>0, <1>2, <2>4, <2>5 DEF DrainAnswer
  <2>6. CASE results[r] # NoCall
    <3>1. /\ answer' = [answer EXCEPT ![results[r]] = Head(drained).code]
          /\ results' = [results EXCEPT ![r] = NoCall]
      BY <1>2, <2>6 DEF DrainAnswer
    <3>2. Head(drained).code # "none"
      BY <2>3, PluginAssumption
    <3>3. QED
      BY <1>0, <2>3, <2>4, <2>6, <3>1, <3>2
  <2>7. QED
    BY <2>5, <2>6
<1>3. CASE CancelPendingFinaliseResults
  BY <1>0, <1>3 DEF CancelPendingFinaliseResults, PtGoto, Live
<1>4. CASE /\ \A c \in Calls : ~Finalise(c)
           /\ ~DrainAnswer /\ ~CancelPendingFinaliseResults
  BY <1>4, QuietSteps, TakenKept, LiveKept
<1>5. QED
  BY <1>1, <1>2, <1>3, <1>4

\* OpenInv is kept.
LEMMA OpenKept == ASSUME Inv, [Next]_vars PROVE OpenInv'
<1> USE DEF Inv, LedgerInv, OpenInv
<1>1. CASE pt \in {"create", "spawn", "abort"}
  <2>1. tasks' = tasks /\ (worker' \in {"destroy", "exited"} => shutdownRequested')
    BY <1>1 DEF Next, Construct, Drain, Destruct, Run, Callback, vars,
       requests, platform, thread, flags, state, pending, history, PtAt, PtGoto,
       WorkerAt, CreateManager, StartWorker, Abort, HandleMessage, DrainSwap,
       DrainAnswer, BeginDestructor, Invalidate, CancelPendingFinaliseResults,
       Finish, Finalise, WorkerTake, WorkerFinalise, WorkerDispatch, WorkerPush,
       WorkerPost, WorkerStop, StopRequested, WorkerDestroyed, PollDispatch,
       PollPush, PollPost
  <2>2. QED
    BY <1>1, <2>1
<1>2. CASE pt \notin {"create", "spawn", "abort"}
  <2>1. /\ pt' \notin {"create", "spawn", "abort"}
        /\ worker' \in {"destroy", "exited"} => shutdownRequested'
    BY <1>2 DEF Next, Construct, Drain, Destruct, Run, Callback, vars,
       requests, platform, thread, flags, state, pending, history, PtAt, PtGoto,
       WorkerAt, CreateManager, StartWorker, Abort, HandleMessage, DrainSwap,
       DrainAnswer, BeginDestructor, Invalidate, CancelPendingFinaliseResults,
       Finish, Shutdown, Finalise, WorkerTake, WorkerFinalise, WorkerDispatch,
       WorkerPush, WorkerPost, WorkerStop, StopRequested, WorkerDestroyed,
       PollDispatch, PollPush, PollPost
  <2>2. QED
    BY <2>1
<1>3. QED
  BY <1>1, <1>2

\* Steps that leave tasks, outcomes and results alone, and start no finalise.
LEMMA TaskFrame ==
  ASSUME Inv, [Next]_vars, UNCHANGED <<tasks, outcome, results>>,
         Live' => Live, worker' \in {"dispatch", "push"} => UNCHANGED job,
         worker' \in {"dispatch", "push"} => worker \in {"dispatch", "push"},
         worker' = "finalise" => worker = "finalise" /\ UNCHANGED job
  PROVE  TaskInv'
  BY DEF Inv, LedgerInv, TaskInv

\* TaskInv is kept.
LEMMA TaskKept == ASSUME Inv, [Next]_vars PROVE TaskInv'
<1> USE DEF Inv, LedgerInv, TaskInv
<1>0. /\ tasks \in Seq(Tasks) /\ drained \in Seq(Completions)
      /\ results \in [Requests -> Calls \union {NoCall}]
      /\ outcome \in [Calls -> Codes \union {"none"}]
      /\ \A i \in DOMAIN tasks : tasks[i] \in Tasks
  BY DEF AdapterInv, TypeOK, QueueType, ResultType, HistoryType
<1>1. ASSUME NEW c \in Calls, Finalise(c) PROVE TaskInv'
  <2>1. CASE owns /\ workerStarted /\ ~shutdownRequested
    <3>1. PICK r \in Requests :
            /\ results[r] = NoCall /\ results' = [results EXCEPT ![r] = c]
            /\ tasks' = Append(tasks, [id |-> r, call |-> c])
            /\ outcome[c] = "none" /\ c \notin Taken
            /\ \A i \in DOMAIN tasks : tasks[i].call # c
            /\ UNCHANGED <<pt, outcome, worker, job>>
            /\ pt = "ready"
      BY <1>1, <2>1, AcceptSteps
    <3> DEFINE e == [id |-> r, call |-> c]
    <3>2. e \in Tasks /\ e.id = r /\ e.call = c
      BY DEF Tasks
    <3>3. /\ DOMAIN tasks' = DOMAIN tasks \union {Len(tasks) + 1}
          /\ Len(tasks) + 1 \notin DOMAIN tasks
          /\ \A i \in DOMAIN tasks : tasks'[i] = tasks[i]
          /\ tasks'[Len(tasks) + 1] = e
      BY <1>0, <3>1, <3>2, AppendAt
    <3>4. \A i \in DOMAIN tasks : tasks[i].id \in Requests /\ tasks[i].id # r
      BY <1>0, <3>1, PluginAssumption DEF Tasks, Live
    <3>5. worker \in {"finalise", "dispatch", "push"}
            => job.id \in Requests /\ job.id # r
      BY <3>1, PluginAssumption DEF Live, Tasks, AdapterInv, WorkInv
    <3>6. worker = "finalise" => job.call # c
      BY <3>1 DEF Taken
    <3>7. \A i \in DOMAIN tasks' : outcome'[tasks'[i].call] = "none"
      BY <3>1, <3>2, <3>3
    <3>8. \A i, j \in DOMAIN tasks' : tasks'[i].call = tasks'[j].call => i = j
      BY <3>1, <3>2, <3>3
    <3>9. \A i \in DOMAIN tasks' : results'[tasks'[i].id] = tasks'[i].call
      BY <1>0, <3>1, <3>2, <3>3, <3>4 DEF Live
    <3>10. worker' \in {"finalise", "dispatch", "push"}
             => results'[job'.id] = job'.call
      BY <1>0, <3>1, <3>5 DEF Live
    <3>11. worker' = "finalise" =>
             /\ outcome'[job'.call] = "none"
             /\ \A i \in DOMAIN tasks' : tasks'[i].call # job'.call
      BY <3>1, <3>2, <3>3, <3>6
    <3>12. QED
      BY <3>7, <3>8, <3>9, <3>10, <3>11
  <2>2. CASE ~(owns /\ workerStarted /\ ~shutdownRequested)
    BY <1>1, <2>2, RefuseSteps DEF Live
  <2>3. QED
    BY <2>1, <2>2
<1>2. CASE DrainAnswer
  <2>1. /\ drained # <<>> /\ pt = "answer" /\ Live
        /\ UNCHANGED <<tasks, outcome, worker, job>>
    BY <1>2 DEF DrainAnswer, PtAt, Live, state, thread, AdapterInv, WorkInv
  <2> DEFINE r == Head(drained).id
  <2>2. /\ 1 \in DOMAIN drained /\ Head(drained) = drained[1]
        /\ Head(drained) \in Completions
    BY <1>0, <2>1, TailAt
  <2>3. r \in Requests /\ r \in Ids(drained) /\ Head(drained).code \in Codes
    BY <2>2 DEF Completions, Ids
  <2>4. results[r] # NoCall /\ outcome[results[r]] = Head(drained).code
    BY <2>1, <2>2 DEF CompletionInv, Faithful
  <2>5. outcome[results[r]] # "none"
    BY <2>3, <2>4, PluginAssumption
  <2>6. results' = [results EXCEPT ![r] = NoCall]
    BY <1>2, <2>4 DEF DrainAnswer
  <2>7. \A i \in DOMAIN tasks : tasks[i].id \in Requests /\ tasks[i].id # r
    BY <1>0, <2>1, <2>5 DEF Tasks
  <2>8. worker \in {"finalise", "dispatch", "push"}
          => job.id \in Requests /\ job.id # r
    BY <2>1, <2>3, <2>5 DEF CompletionInv, AdapterInv, WorkInv, Tasks
  <2>9. QED
    BY <1>0, <2>1, <2>6, <2>7, <2>8
<1>3. CASE CancelPendingFinaliseResults
  BY <1>3 DEF CancelPendingFinaliseResults, PtGoto, Live, state, thread
<1>4. CASE WorkerTake
  <2>1. /\ tasks # <<>> /\ job' = Head(tasks) /\ tasks' = Tail(tasks)
        /\ worker' = "finalise" /\ UNCHANGED <<pt, results, outcome>>
    BY <1>4 DEF WorkerTake, platform, requests, history
  <2>2. /\ 1 \in DOMAIN tasks /\ Head(tasks) = tasks[1]
        /\ \A i \in DOMAIN Tail(tasks) :
             i + 1 \in DOMAIN tasks /\ i + 1 # 1 /\ Tail(tasks)[i] = tasks[i + 1]
        /\ \A i, j \in DOMAIN Tail(tasks) : i + 1 = j + 1 => i = j
    BY <1>0, <2>1, TailAt
  <2>3. QED
    BY <2>1, <2>2 DEF Live
<1>5. CASE WorkerFinalise
  <2>1. /\ worker = "finalise" /\ worker' = "dispatch" /\ job.call \in Calls
        /\ UNCHANGED <<pt, tasks, job, results>>
    BY <1>5 DEF WorkerFinalise, WorkerAt, platform, requests, state, AdapterInv,
       WorkInv, Tasks
  <2>2. PICK code \in Codes : outcome' = [outcome EXCEPT ![job.call] = code]
    BY <1>5 DEF WorkerFinalise
  <2>3. QED
    BY <1>0, <2>1, <2>2 DEF Live, Tasks
<1>6. CASE UNCHANGED <<tasks, outcome, results>>
  <2>1. ~CancelPendingFinaliseResults => (Live' => Live)
    BY LiveKept
  <2>2. worker' \in {"dispatch", "push"} /\ ~WorkerFinalise
          => worker \in {"dispatch", "push"} /\ UNCHANGED job
    BY DEF Next, Construct, Drain, Destruct, Run, Callback, vars,
       requests, platform, thread, flags, state, pending, history,
       WorkerAt, CreateManager, StartWorker, Abort, HandleMessage, DrainSwap,
       DrainAnswer, BeginDestructor, Invalidate, CancelPendingFinaliseResults,
       Finish, Finalise, WorkerDispatch, WorkerPush, WorkerPost, WorkerStop,
       WorkerDestroyed, PollDispatch, PollPush, PollPost, WorkerTake
  <2>3. worker' = "finalise" /\ ~WorkerTake
          => worker = "finalise" /\ UNCHANGED job
    BY DEF Next, Construct, Drain, Destruct, Run, Callback, vars,
       requests, platform, thread, flags, state, pending, history,
       WorkerAt, CreateManager, StartWorker, Abort, HandleMessage, DrainSwap,
       DrainAnswer, BeginDestructor, Invalidate, CancelPendingFinaliseResults,
       Finish, Finalise, WorkerDispatch, WorkerPush, WorkerPost, WorkerStop,
       WorkerDestroyed, PollDispatch, PollPush, PollPost,
       WorkerFinalise
  <2>4. QED
    BY <1>3, <1>4, <1>5, <1>6, <2>1, <2>2, <2>3, TaskFrame
<1>7. QED
  BY <1>1, <1>2, <1>3, <1>4, <1>5, <1>6
  DEF Next, Construct, Drain, Destruct, Run, Callback, vars, requests, platform,
     thread, flags, state, pending, history, CreateManager, StartWorker, Abort,
     HandleMessage, DrainSwap, BeginDestructor, Invalidate, Finish,
     WorkerDispatch, WorkerPush, WorkerPost, WorkerStop, WorkerDestroyed,
     PollDispatch, PollPush, PollPost

\* Steps that leave completions, outcomes and results alone.
LEMMA CompletionFrame ==
  ASSUME Inv, [Next]_vars,
         UNCHANGED <<completions, drained, outcome, results>>,
         Live' => Live, pt' # "answer" => pt # "answer" \/ drained = <<>>,
         worker' \in {"dispatch", "push"}
           => worker \in {"dispatch", "push"} /\ UNCHANGED job
  PROVE  CompletionInv'
  BY DEF Inv, LedgerInv, CompletionInv, Faithful, Once, Ids

\* CompletionInv is kept.
LEMMA CompletionKept == ASSUME Inv, [Next]_vars PROVE CompletionInv'
<1> USE DEF Inv, LedgerInv
<1>a. /\ completions \in Seq(Completions) /\ drained \in Seq(Completions)
      /\ results \in [Requests -> Calls \union {NoCall}]
      /\ outcome \in [Calls -> Codes \union {"none"}]
  BY DEF AdapterInv, TypeOK, QueueType, ResultType, HistoryType
<1>b. /\ \A i \in DOMAIN completions : completions[i] \in Completions
      /\ \A i \in DOMAIN drained : drained[i] \in Completions
  BY <1>a
<1>c. "none" \notin Codes /\ NoCall \notin Calls
  BY PluginAssumption
<1>0. /\ \A i \in DOMAIN completions : completions[i].id \in Requests
                                       /\ completions[i].code \in Codes
      /\ \A i \in DOMAIN drained : drained[i].id \in Requests
                                   /\ drained[i].code \in Codes
  BY <1>b DEF Completions
<1>1. ASSUME NEW c \in Calls, Finalise(c) PROVE CompletionInv'
  <2>1. CASE owns /\ workerStarted /\ ~shutdownRequested
    <3>1. PICK r \in Requests :
            /\ results[r] = NoCall /\ results' = [results EXCEPT ![r] = c]
            /\ UNCHANGED <<pt, outcome, worker, job, completions, drained>>
      BY <1>1, <2>1, AcceptSteps
    <3>2. Live
      BY <1>1 DEF Finalise, PtAt, Live
    <3>3. /\ \A i \in DOMAIN completions : completions[i].id # r
          /\ \A i \in DOMAIN drained : drained[i].id # r
      BY <3>1, <3>2 DEF CompletionInv, Faithful
    <3>4. Faithful(completions)' /\ Faithful(drained)'
      BY <1>a, <1>0, <3>1, <3>2, <3>3 DEF CompletionInv, Faithful
    <3>5. QED
      BY <3>1, <3>2, <3>4 DEF CompletionInv, Once, Ids
  <2>2. CASE ~(owns /\ workerStarted /\ ~shutdownRequested)
    BY <1>1, <2>2, RefuseSteps, CompletionFrame DEF Live
  <2>3. QED
    BY <2>1, <2>2
<1>2. CASE DrainSwap
  <2>1. /\ drained = <<>> /\ drained' = completions /\ completions' = <<>>
        /\ UNCHANGED <<results, outcome, worker, job>> /\ Live /\ Live'
        /\ pt' # "answer" => completions = <<>>
    BY <1>2 DEF DrainSwap, PtAt, PtGoto, Live, thread, history, CompletionInv
  <2>2. QED
    BY <2>1 DEF CompletionInv, Faithful, Once, Ids
<1>3. CASE DrainAnswer
  <2>1. /\ drained # <<>> /\ drained' = Tail(drained) /\ Live
        /\ UNCHANGED <<completions, outcome, worker, job>>
        /\ pt' # "answer" => drained' = <<>>
    BY <1>3
    DEF DrainAnswer, PtAt, PtGoto, Live, pending, thread, AdapterInv, WorkInv
  <2> DEFINE r == Head(drained).id
  <2>2. /\ 1 \in DOMAIN drained /\ r = drained[1].id
        /\ \A i \in DOMAIN Tail(drained) :
             i + 1 \in DOMAIN drained /\ i + 1 # 1
             /\ Tail(drained)[i] = drained[i + 1]
        /\ \A i, j \in DOMAIN Tail(drained) : i + 1 = j + 1 => i = j
    BY <1>a, <2>1, TailAt
  <2>3. /\ \A i \in DOMAIN completions : completions[i].id # r
        /\ \A i \in DOMAIN Tail(drained) : Tail(drained)[i].id # r
    BY <2>2 DEF CompletionInv, Once, Ids
  <2>4. results' = [results EXCEPT ![r] = NoCall]
    BY <1>3, <2>1, <2>2 DEF DrainAnswer, CompletionInv, Faithful
  <2>5. Faithful(completions)' /\ Faithful(drained)'
    BY <1>a, <1>0, <2>1, <2>2, <2>3, <2>4 DEF CompletionInv, Faithful
  <2>6. Once(completions)' /\ Once(drained)'
    BY <2>1, <2>2 DEF CompletionInv, Once
  <2>7. Ids(completions)' = Ids(completions) /\ Ids(drained)' \subseteq Ids(drained)
    BY <2>1, <2>2 DEF Ids
  <2>8. QED
    BY <2>1, <2>5, <2>6, <2>7 DEF CompletionInv
<1>4. CASE CancelPendingFinaliseResults
  BY <1>4 DEF CancelPendingFinaliseResults, PtAt, PtGoto, Live, CompletionInv,
     Once, Ids
<1>5. CASE Finish
  BY <1>5 DEF Finish, PtAt, PtGoto, Live, requests, CompletionInv, Once, Ids
<1>6. CASE WorkerFinalise
  <2>1. /\ worker = "finalise" /\ worker' = "dispatch" /\ job \in Tasks
        /\ UNCHANGED <<pt, job, results, completions, drained>>
    BY <1>6 DEF WorkerFinalise, WorkerAt, platform, requests, pending,
       AdapterInv, WorkInv
  <2>2. PICK code \in Codes : outcome' = [outcome EXCEPT ![job.call] = code]
    BY <1>6 DEF WorkerFinalise
  <2>3. outcome[job.call] = "none" /\ (Live => results[job.id] = job.call)
    BY <2>1 DEF TaskInv
  <2>4. Live => job.id \notin Ids(completions) \union Ids(drained)
    BY <1>c, <1>0, <2>3 DEF CompletionInv, Faithful, Ids
  <2>5. Live => Faithful(completions)' /\ Faithful(drained)'
    BY <1>a, <1>c, <1>0, <2>1, <2>2, <2>3
    DEF Tasks, CompletionInv, Faithful
  <2>6. /\ Live' = Live /\ Once(completions)' /\ Once(drained)'
        /\ Ids(completions)' = Ids(completions) /\ Ids(drained)' = Ids(drained)
    BY <2>1 DEF Live, CompletionInv, Once, Ids
  <2>7. QED
    BY <2>1, <2>4, <2>5, <2>6 DEF CompletionInv
<1>7. CASE WorkerPush
  <2> DEFINE e == [id |-> job.id, code |-> outcome[job.call]]
  <2>1. /\ worker = "push" /\ worker' = "post" /\ job \in Tasks
        /\ outcome[job.call] \in Codes /\ completions' = Append(completions, e)
        /\ UNCHANGED <<pt, results, drained, outcome>>
    BY <1>7 DEF WorkerPush, WorkerAt, platform, requests, history, AdapterInv,
       WorkInv
  <2>2. Live /\ results[job.id] = job.call
    BY <2>1 DEF AdapterInv, CallbackInv, TaskInv, Live
  <2>3. e \in Completions /\ e.id = job.id /\ e.code = outcome[job.call]
    BY <2>1 DEF Completions, Tasks
  <2>4. /\ DOMAIN completions' = DOMAIN completions \union {Len(completions) + 1}
        /\ Len(completions) + 1 \notin DOMAIN completions
        /\ \A i \in DOMAIN completions : completions'[i] = completions[i]
        /\ completions'[Len(completions) + 1] = e
    BY <1>a, <2>1, <2>3, AppendAt
  <2>5. job.call # NoCall /\ job.id \notin Ids(completions) \union Ids(drained)
    BY <1>c, <2>1, <2>2 DEF Tasks, CompletionInv
  <2>6. Faithful(completions)' /\ Faithful(drained)'
    BY <2>1, <2>2, <2>3, <2>4, <2>5 DEF CompletionInv, Faithful
  <2>7. Once(completions)' /\ Once(drained)'
    BY <2>1, <2>3, <2>4, <2>5 DEF CompletionInv, Once, Ids
  <2>8. /\ Ids(completions)' = Ids(completions) \union {job.id}
        /\ Ids(drained)' = Ids(drained)
    BY <2>1, <2>3, <2>4 DEF Ids
  <2>9. QED
    BY <2>1, <2>5, <2>6, <2>7, <2>8 DEF CompletionInv
<1>8. CASE UNCHANGED <<completions, drained, outcome, results>> /\ ~Finish
  <2>1. ~CancelPendingFinaliseResults => (Live' => Live)
    BY LiveKept
  <2>2. worker' \in {"dispatch", "push"} /\ ~WorkerFinalise
          => worker \in {"dispatch", "push"} /\ UNCHANGED job
    BY DEF Next, Construct, Drain, Destruct, Run, Callback, vars,
       requests, platform, thread, flags, state, pending, history,
       WorkerAt, CreateManager, StartWorker, Abort, HandleMessage, DrainSwap,
       DrainAnswer, BeginDestructor, Invalidate, CancelPendingFinaliseResults,
       Finish, Finalise, WorkerTake, WorkerDispatch, WorkerPush, WorkerPost,
       WorkerStop, WorkerDestroyed, PollDispatch, PollPush, PollPost
  <2>3. pt' # "answer" /\ ~DrainAnswer => pt # "answer"
    BY DEF Next, Construct, Drain, Destruct, Run, Callback, vars,
       requests, platform, thread, flags, state, pending, history, PtAt, PtGoto,
       WorkerAt, CreateManager, StartWorker, Abort, HandleMessage, DrainSwap,
       BeginDestructor, Invalidate, CancelPendingFinaliseResults,
       Finish, Finalise, WorkerTake, WorkerFinalise, WorkerDispatch, WorkerPush,
       WorkerPost, WorkerStop, WorkerDestroyed, PollDispatch, PollPush, PollPost
  <2>4. QED
    BY <1>3, <1>4, <1>6, <1>8, <2>1, <2>2, <2>3, CompletionFrame
<1>9. QED
  BY <1>1, <1>2, <1>3, <1>4, <1>5, <1>6, <1>7, <1>8
  DEF Next, Construct, Drain, Destruct, Run, Callback, vars, requests, platform,
     thread, flags, state, pending, history, CreateManager, StartWorker, Abort,
     HandleMessage, BeginDestructor, Invalidate, WorkerTake, WorkerDispatch,
     WorkerPost, WorkerStop, WorkerDestroyed, PollDispatch, PollPush, PollPost,
     Finish

\* The invariant holds at first and is kept.
LEMMA InvInit == Init => Inv
<1> SUFFICES ASSUME Init PROVE Inv
  OBVIOUS
<1>1. AdapterInv
  BY AdapterInit
<1>2. Taken = {}
  BY DEF Init, Taken
<1>3. ResultInv /\ TaskInv /\ OpenInv
  BY <1>2 DEF Init, ResultInv, TaskInv, OpenInv
<1>4. CompletionInv
  BY DEF Init, CompletionInv, Faithful, Once, Ids
<1>5. QED
  BY <1>1, <1>3, <1>4 DEF Inv, LedgerInv

LEMMA InvStep == Inv /\ [Next]_vars => Inv'
  BY AdapterStep, ResultKept, TaskKept, OpenKept, CompletionKept
  DEF Inv, LedgerInv

\* The ledger is right throughout.
THEOREM InvCorrect == Spec => []Inv
  BY InvInit, InvStep, PTL DEF Spec

(***************************************************************************)
(* What AcceptedIsAnswered and ManagerGoes rest on: nothing is left that   *)
(* no thread will come to                                                  *)
(***************************************************************************)

\* The result under request id r is on its way through the queues.
OnItsWay(r) ==
  \/ r \in Ids(tasks)
  \/ worker \in {"finalise", "dispatch", "push"} /\ job.id = r
  \/ r \in Ids(completions) \union Ids(drained)

\* An accepted call that is not answered waits under a request id, which is on
\* its way as long as the plugin may be called; a plugin that is gone has
\* answered all, and if it leaves a manager there is a worker told to stop.
NothingStranded ==
  /\ \A c \in Taken : answer[c] = "none" =>
       /\ Live
       /\ \E r \in Requests : results[r] = c /\ (plugin => OnItsWay(r))
  /\ pt = "gone" =>
       \/ manager \in {"none", "down"}
       \/ worker \notin {"none", "exited"} /\ shutdownRequested

WayInv ==
  plugin => \A r \in Requests : results[r] # NoCall => OnItsWay(r)

AnsweredInv == ~Live => \A c \in Taken : answer[c] # "none"

StopInv ==
  /\ worker \notin {"none", "exited"} => workerStarted
  /\ ~owns /\ worker \notin {"none", "exited"} => shutdownRequested
  /\ pt = "gone" => ~owns

\* The ids in a queue.
LEMMA IdsAppend ==
  ASSUME NEW S, NEW s \in Seq(S), NEW e \in S
  PROVE  Ids(Append(s, e)) = Ids(s) \union {e.id}
  BY AppendAt DEF Ids

LEMMA IdsTail ==
  ASSUME NEW S, NEW s \in Seq(S), s # <<>>
  PROVE  Ids(s) \subseteq {Head(s).id} \union Ids(Tail(s))
<1>1. /\ 1 \in DOMAIN s /\ Head(s) = s[1]
      /\ \A i \in DOMAIN s : i = 1 \/ \E j \in DOMAIN Tail(s) : Tail(s)[j] = s[i]
  BY TailAt
<1>2. QED
  BY <1>1 DEF Ids

\* WayInv is kept: whoever takes an id from one place puts it in the next.
LEMMA WayKept == ASSUME Inv, WayInv, [Next]_vars PROVE WayInv'
<1> USE DEF WayInv, OnItsWay
<1>0. /\ completions \in Seq(Completions) /\ drained \in Seq(Completions)
      /\ tasks \in Seq(Tasks) /\ NoCall \notin Calls
      /\ results \in [Requests -> Calls \union {NoCall}]
  BY PluginAssumption DEF Inv, AdapterInv, TypeOK, QueueType, ResultType
<1>1. ASSUME NEW c \in Calls, Finalise(c) PROVE WayInv'
  <2>0. UNCHANGED plugin
    BY <1>1 DEF Finalise
  <2>1. CASE owns /\ workerStarted /\ ~shutdownRequested
    <3>1. PICK r \in Requests :
            /\ results' = [results EXCEPT ![r] = c]
            /\ tasks' = Append(tasks, [id |-> r, call |-> c])
            /\ UNCHANGED <<worker, job, completions, drained>>
      BY <1>1, <2>1, AcceptSteps
    <3>2. [id |-> r, call |-> c] \in Tasks
      BY DEF Tasks
    <3>3. Ids(tasks') = Ids(tasks) \union {r}
      BY <1>0, <3>1, <3>2, IdsAppend
    <3>4. QED
      BY <1>0, <2>0, <3>1, <3>3
  <2>2. CASE ~(owns /\ workerStarted /\ ~shutdownRequested)
    <3>1. UNCHANGED <<results, tasks, worker, job, completions, drained>>
      BY <1>1, <2>2, RefuseSteps
    <3>2. QED
      BY <2>0, <3>1
  <2>3. QED
    BY <2>1, <2>2
<1>2. CASE DrainSwap
  <2>1. drained = <<>>
    BY <1>2 DEF DrainSwap, PtAt, Inv, LedgerInv, CompletionInv
  <2>2. Ids(drained) = {}
    BY <2>1 DEF Ids
  <2>3. /\ drained' = completions
        /\ UNCHANGED <<plugin, results, tasks, worker, job>>
    BY <1>2 DEF DrainSwap, state, thread
  <2>4. QED
    BY <2>2, <2>3
<1>3. CASE DrainAnswer
  <2>1. /\ drained # <<>> /\ drained' = Tail(drained)
        /\ UNCHANGED <<plugin, tasks, worker, job, completions>>
    BY <1>3 DEF DrainAnswer, PtAt, state, thread, pending, Inv, AdapterInv, WorkInv
  <2>2. Ids(drained) \subseteq {Head(drained).id} \union Ids(drained')
    BY <1>0, <2>1, IdsTail
  <2>3. \A q \in Requests :
          results'[q] # NoCall => results[q] # NoCall /\ q # Head(drained).id
    BY <1>0, <1>3 DEF DrainAnswer
  <2>4. QED
    BY <2>1, <2>2, <2>3
<1>4. CASE WorkerTake
  <2>1. /\ tasks # <<>> /\ job' = Head(tasks) /\ tasks' = Tail(tasks)
        /\ worker = "wait" /\ worker' = "finalise"
        /\ UNCHANGED <<plugin, results, completions, drained>>
    BY <1>4 DEF WorkerTake, WorkerAt, platform, requests, pending
  <2>2. Ids(tasks) \subseteq {job'.id} \union Ids(tasks')
    BY <1>0, <2>1, IdsTail
  <2>3. QED
    BY <2>1, <2>2
<1>5. CASE WorkerFinalise \/ WorkerDispatch
  BY <1>5 DEF WorkerFinalise, WorkerDispatch, WorkerAt, platform, requests,
     state, pending
<1>6. CASE WorkerPush
  <2> DEFINE e == [id |-> job.id, code |-> outcome[job.call]]
  <2>1. /\ worker' = "post" /\ completions' = Append(completions, e)
        /\ UNCHANGED <<plugin, results, tasks, job, drained>>
    BY <1>6 DEF WorkerPush, platform, requests, state
  <2>2. e \in Completions /\ e.id = job.id
    BY <1>6 DEF WorkerPush, WorkerAt, Inv, AdapterInv, WorkInv, Tasks, Completions
  <2>3. Ids(completions') = Ids(completions) \union {job.id}
    BY <1>0, <2>1, <2>2, IdsAppend
  <2>4. QED
    BY <2>1, <2>3
<1>7. CASE WorkerPost \/ WorkerStop \/ WorkerDestroyed \/ StartWorker
  BY <1>7 DEF WorkerPost, WorkerStop, WorkerDestroyed, StartWorker, PtAt,
     WorkerAt, platform, requests, state, pending, Inv, AdapterInv, OwnerInv
<1>8. CASE Abort \/ Invalidate
  BY <1>8 DEF Abort, Invalidate, InvalidatePlugin
<1>9. CASE CancelPendingFinaliseResults \/ Finish
  BY <1>9 DEF CancelPendingFinaliseResults, Finish, PtAt, state, Inv,
     AdapterInv, CallbackInv
<1>10. CASE UNCHANGED <<plugin, results, tasks, worker, job, completions, drained>>
  BY <1>10
<1>11. QED
  BY <1>1, <1>2, <1>3, <1>4, <1>5, <1>6, <1>7, <1>8, <1>9, <1>10
  DEF Next, Construct, Drain, Destruct, Run, Callback, vars, requests, platform,
     thread, flags, state, pending, history, CreateManager, HandleMessage,
     BeginDestructor, PollDispatch, PollPush, PollPost

\* AnsweredInv is kept: what waits is answered before the plugin finishes.
LEMMA AnsweredKept == ASSUME Inv, AnsweredInv, [Next]_vars PROVE AnsweredInv'
<1> USE DEF AnsweredInv
<1>1. CASE CancelPendingFinaliseResults
  <2>1. Taken' = Taken /\ Live
    BY <1>1, TakenKept DEF CancelPendingFinaliseResults, PtAt, Finalise, Live, Inv
  <2>2. \A c \in Taken : answer[c] # "none" \/ \E r \in Requests : results[r] = c
    BY <2>1 DEF Inv, LedgerInv, ResultInv
  <2>3. \A c \in Calls :
          answer'[c] = IF \E r \in Requests : results[r] = c THEN "unavailable"
                       ELSE answer[c]
    BY <1>1 DEF CancelPendingFinaliseResults
  <2>4. Taken \subseteq Calls
    BY DEF Taken
  <2>5. QED
    BY <2>1, <2>2, <2>3, <2>4
<1>2. CASE Live /\ ~CancelPendingFinaliseResults
  BY <1>2 DEF Live, Next, Construct, Drain, Destruct, Run, Callback, vars,
     requests, platform, thread, flags, state, pending, history, CreateManager,
     StartWorker, Abort, HandleMessage, DrainSwap, DrainAnswer, BeginDestructor,
     Invalidate, Finish, Finalise, WorkerTake, WorkerFinalise, WorkerDispatch,
     WorkerPush, WorkerPost, WorkerStop, WorkerDestroyed, PollDispatch,
     PollPush, PollPost, PtAt, PtGoto
<1>3. CASE ~Live
  <2>1. /\ \A c \in Calls : ~Finalise(c)
        /\ ~DrainAnswer /\ ~CancelPendingFinaliseResults
    BY <1>3 DEF Live, Finalise, DrainAnswer, CancelPendingFinaliseResults, PtAt
  <2>2. Taken' = Taken /\ UNCHANGED answer
    BY <2>1, TakenKept, QuietSteps DEF Inv
  <2>3. QED
    BY <1>3, <2>2
<1>4. QED
  BY <1>1, <1>2, <1>3

\* StopInv is kept.
LEMMA StopKept == ASSUME Inv, StopInv, [Next]_vars PROVE StopInv'
<1> USE DEF StopInv
<1>1. CASE Finish \/ Abort
  BY <1>1 DEF Finish, Shutdown, Abort, PtGoto, thread, flags
<1>2. CASE WorkerDestroyed
  BY <1>2 DEF WorkerDestroyed, platform
<1>3. CASE StartWorker
  BY <1>3 DEF StartWorker, PtAt, PtGoto, Inv, AdapterInv, OwnerInv
<1>4. CASE /\ UNCHANGED <<workerStarted, shutdownRequested, owns>>
           /\ pt' = "gone" => pt = "gone"
           /\ worker' \notin {"none", "exited"} => worker \notin {"none", "exited"}
  BY <1>4
<1>5. QED
  BY <1>1, <1>2, <1>3, <1>4
  DEF Next, Construct, Drain, Destruct, Run, Callback, vars, requests, platform,
     thread, flags, state, pending, history, CreateManager, HandleMessage,
     DrainSwap, DrainAnswer, BeginDestructor, Invalidate,
     CancelPendingFinaliseResults, Finalise, WorkerTake, WorkerFinalise,
     WorkerDispatch, WorkerPush, WorkerPost, WorkerStop, PollDispatch, PollPush,
     PollPost, PtGoto, WorkerAt

\* At every moment whatever is still owed has somebody to see to it: the answer
\* to an accepted call is in one of the queues of the adapter, or the destructor
\* that stopped them will give it; when the plugin is gone all are answered, and
\* the worker that has the manager was told to stop (EnqueueFinalise, Run,
\* DrainFinaliseCompletions, CancelPendingFinaliseResults, Shutdown).
THEOREM NothingStrandedCorrect == Spec => []NothingStranded
<1> DEFINE All == WayInv /\ AnsweredInv /\ StopInv
<1>1. Init => All
  BY DEF Init, WayInv, AnsweredInv, StopInv, Live
<1>2. Inv /\ All /\ [Next]_vars => All'
  BY WayKept, AnsweredKept, StopKept
<1>3. Inv /\ All => NothingStranded
  <2> SUFFICES ASSUME Inv, All PROVE NothingStranded
    OBVIOUS
  <2>1. ASSUME NEW c \in Taken, answer[c] = "none"
        PROVE  Live /\ \E r \in Requests : results[r] = c /\ (plugin => OnItsWay(r))
    <3>1. Live
      BY <2>1 DEF AnsweredInv
    <3>2. PICK r \in Requests : results[r] = c
      BY <2>1, <3>1 DEF Inv, LedgerInv, ResultInv
    <3>3. c # NoCall
      BY PluginAssumption DEF Taken
    <3>4. QED
      BY <3>1, <3>2, <3>3 DEF WayInv
  <2>2. pt = "gone" => \/ manager \in {"none", "down"}
                       \/ worker \notin {"none", "exited"} /\ shutdownRequested
    BY DEF StopInv, Inv, AdapterInv, OwnerInv, TypeOK, ControlType
  <2>3. QED
    BY <2>1, <2>2 DEF NothingStranded
<1>4. QED
  BY <1>1, <1>2, <1>3, InvCorrect, PTL DEF Spec

\* An accepted call is told what its own native finalise returned, and
\* "unavailable" only by the destructor.
ToldOwnCode ==
  \A c \in Taken : \/ answer[c] \in {"none", outcome[c]}
                  \/ (answer[c] = "unavailable" /\ ~Live)

LEMMA OwnCodeKept == ASSUME Inv, ToldOwnCode, [Next]_vars PROVE ToldOwnCode'
<1> USE DEF ToldOwnCode
<1>0. /\ results \in [Requests -> Calls \union {NoCall}] /\ Taken \subseteq Calls
      /\ answer \in [Calls -> Codes \union {"none", "unavailable"}]
      /\ outcome \in [Calls -> Codes \union {"none"}]
      /\ drained \in Seq(Completions)
  BY DEF Inv, AdapterInv, TypeOK, ResultType, HistoryType, QueueType, Taken
<1>1. ASSUME NEW c \in Calls, Finalise(c) PROVE ToldOwnCode'
  <2>1. CASE owns /\ workerStarted /\ ~shutdownRequested
    <3>1. /\ Taken' = Taken \union {c} /\ answer[c] = "none"
          /\ UNCHANGED <<pt, answer, outcome>>
      BY <1>1, <2>1, AcceptSteps
    <3>2. QED
      BY <3>1 DEF Live
  <2>2. CASE ~(owns /\ workerStarted /\ ~shutdownRequested)
    <3>1. /\ c \notin Taken /\ Taken' = Taken
          /\ answer' = [answer EXCEPT ![c] = "unavailable"]
          /\ UNCHANGED <<pt, outcome>>
      BY <1>1, <2>2, RefuseSteps
    <3>2. QED
      BY <1>0, <3>1 DEF Live
  <2>3. QED
    BY <2>1, <2>2
<1>2. CASE DrainAnswer
  <2>1. drained # <<>> /\ Live /\ Live' /\ Taken' = Taken /\ UNCHANGED outcome
    BY <1>2, TakenKept DEF DrainAnswer, PtAt, PtGoto, Live, Finalise, Inv,
       AdapterInv, WorkInv
  <2>2. 1 \in DOMAIN drained /\ Head(drained) = drained[1]
    BY <1>0, <2>1, TailAt
  <2> DEFINE d == results[Head(drained).id]
  <2>3. d # NoCall /\ outcome[d] = Head(drained).code
    BY <2>1, <2>2 DEF Inv, LedgerInv, CompletionInv, Faithful
  <2>4. answer' = [answer EXCEPT ![d] = outcome[d]]
    BY <1>2, <2>3 DEF DrainAnswer
  <2> HIDE DEF d
  <2>5. QED
    BY <1>0, <2>1, <2>4
<1>3. CASE CancelPendingFinaliseResults
  <2>1. Taken' = Taken /\ ~Live' /\ Live /\ UNCHANGED outcome
    BY <1>3, TakenKept
    DEF CancelPendingFinaliseResults, PtAt, PtGoto, Finalise, Live, Inv
  <2>2. \A c \in Calls : answer'[c] \in {answer[c], "unavailable"}
    BY <1>3 DEF CancelPendingFinaliseResults
  <2>3. QED
    BY <1>0, <2>1, <2>2
<1>4. CASE /\ \A c \in Calls : ~Finalise(c)
           /\ ~DrainAnswer /\ ~CancelPendingFinaliseResults
  <2>1. Taken' = Taken /\ UNCHANGED answer /\ (Live' => Live)
    BY <1>4, QuietSteps, TakenKept, LiveKept DEF Inv
  <2>2. CASE WorkerFinalise
    <3>1. /\ worker = "finalise" /\ job \in Tasks /\ Live' = Live
          /\ \A c \in Calls : c # job.call => outcome'[c] = outcome[c]
      BY <1>0, <2>2 DEF WorkerFinalise, WorkerAt, Live, platform, Inv, AdapterInv,
         WorkInv
    <3>2. outcome[job.call] = "none"
      BY <3>1 DEF Inv, LedgerInv, TaskInv
    <3>3. QED
      BY <1>0, <2>1, <3>1, <3>2
  <2>3. CASE ~WorkerFinalise
    <3>1. UNCHANGED outcome
      BY <1>4, <2>3 DEF Next, Construct, Drain, Destruct, Run, Callback, vars,
         requests, platform, thread, flags, state, pending, history,
         CreateManager, StartWorker, Abort, HandleMessage, DrainSwap,
         BeginDestructor, Invalidate, Finish, WorkerTake, WorkerDispatch,
         WorkerPush, WorkerPost, WorkerStop, WorkerDestroyed, PollDispatch,
         PollPush, PollPost
    <3>2. Live' = Live
      BY <1>4, <2>1 DEF Live, Next, Construct, Drain, Destruct, Run, Callback, vars,
         requests, platform, thread, flags, state, pending, history, PtAt, PtGoto,
         CreateManager, StartWorker, Abort, HandleMessage, DrainSwap,
         BeginDestructor, Invalidate, Finish, WorkerTake, WorkerFinalise,
         WorkerDispatch, WorkerPush, WorkerPost, WorkerStop, WorkerDestroyed,
         PollDispatch, PollPush, PollPost
    <3>3. QED
      BY <2>1, <3>1, <3>2
  <2>4. QED
    BY <2>2, <2>3
<1>5. QED
  BY <1>1, <1>2, <1>3, <1>4

\* Whatever ids are reused, the application is told the code of the finalise it
\* asked for; only the destructor answers for a call that has not come back
\* (DrainFinaliseCompletions, CancelPendingFinaliseResults).
THEOREM ToldOwnCodeCorrect == Spec => []ToldOwnCode
<1>1. Init => ToldOwnCode
  BY DEF Init, ToldOwnCode, Taken
<1>2. Inv /\ ToldOwnCode /\ [Next]_vars => ToldOwnCode'
  BY OwnCodeKept
<1>3. QED
  BY <1>1, <1>2, InvCorrect, PTL DEF Spec

(***************************************************************************)
(* An engine without a view                                                *)
(***************************************************************************)

\* Without a view no finalise is told its code: whatever it returned, its result
\* waits for the destructor, which cancels it.
HeadlessTellsNoCode ==
  ~HasView => \A c \in Calls : answer[c] \in {"none", "unavailable"}

\* No message is posted, so nothing is drained.
HeadlessInv ==
  ~HasView => /\ posted = 0 /\ pt \notin {"drain", "answer"}
              /\ HeadlessTellsNoCode

LEMMA HeadlessKept == ASSUME AdapterInv, HeadlessInv, [Next]_vars PROVE HeadlessInv'
<1> SUFFICES ASSUME ~HasView PROVE HeadlessInv'
  BY DEF HeadlessInv
<1>0. /\ posted = 0 /\ pt \notin {"drain", "answer"}
      /\ \A c \in Calls : answer[c] \in {"none", "unavailable"}
      /\ answer \in [Calls -> Codes \union {"none", "unavailable"}]
  BY DEF HeadlessInv, HeadlessTellsNoCode, AdapterInv, TypeOK, HistoryType
<1>1. posted' = 0
  BY <1>0 DEF Next, Construct, Drain, Destruct, Run, Callback, vars, requests,
     platform, thread, flags, state, pending, history, CreateManager,
     StartWorker, Abort, HandleMessage, DrainSwap, DrainAnswer, BeginDestructor,
     Invalidate, CancelPendingFinaliseResults, Finish, Finalise, WorkerTake,
     WorkerFinalise, WorkerDispatch, WorkerPush, WorkerPost, WorkerStop,
     WorkerDestroyed, PollDispatch, PollPush, PollPost, PostPlatformMessage
<1>2. pt' \notin {"drain", "answer"}
  BY <1>0 DEF Next, Construct, Drain, Destruct, Run, Callback, vars, requests,
     platform, thread, flags, state, pending, history, CreateManager,
     StartWorker, Abort, HandleMessage, DrainSwap, DrainAnswer, BeginDestructor,
     Invalidate, CancelPendingFinaliseResults, Finish, Finalise, WorkerTake,
     WorkerFinalise, WorkerDispatch, WorkerPush, WorkerPost, WorkerStop,
     WorkerDestroyed, PollDispatch, PollPush, PollPost, PtAt, PtGoto
<1>3. \A c \in Calls : answer'[c] \in {"none", "unavailable"}
  <2>1. ~DrainAnswer
    BY <1>0 DEF DrainAnswer, PtAt
  <2>2. ASSUME NEW c \in Calls, Finalise(c)
        PROVE  \A d \in Calls : answer'[d] \in {answer[d], "unavailable"}
    BY <1>0, <2>2 DEF Finalise
  <2>3. CancelPendingFinaliseResults
          => \A d \in Calls : answer'[d] \in {answer[d], "unavailable"}
    BY DEF CancelPendingFinaliseResults
  <2>4. QED
    BY <1>0, <2>1, <2>2, <2>3, QuietSteps
<1>4. QED
  BY <1>1, <1>2, <1>3 DEF HeadlessInv, HeadlessTellsNoCode

\* In an engine without a view an accepted finalise is not told its code, however
\* it ended: PostPlatformMessage has no window to post to, so the completion lies
\* in pending_finalise_completions_ until the destructor cancels it.
THEOREM HeadlessTellsNoCodeCorrect == Spec => []HeadlessTellsNoCode
<1>1. Init => HeadlessInv
  BY DEF Init, HeadlessInv, HeadlessTellsNoCode
<1>2. AdapterInv /\ HeadlessInv /\ [Next]_vars => HeadlessInv'
  BY HeadlessKept
<1>3. HeadlessInv => HeadlessTellsNoCode
  BY DEF HeadlessInv, HeadlessTellsNoCode
<1>4. QED
  BY <1>1, <1>2, <1>3, AdapterInvCorrect, PTL DEF Spec

(***************************************************************************)
(* Refinement                                                              *)
(***************************************************************************)

\* The abstract manager.
ManagerMap == IF manager \in {"none", "up"} THEN "up" ELSE "down"

LEMMA RefinesInit == Init => Abstract!AInit
<1> SUFFICES ASSUME Init PROVE Abstract!AInit
  OBVIOUS
<1>1. Taken = {}
  BY DEF Init, Taken
<1>2. QED
  BY <1>1 DEF Init, Abstract!AInit

\* What is neither visible to the application nor to the manager.
Silent == UNCHANGED <<Taken, outcome, answer, ManagerMap>>

\* Every step of the adapter is a step of AsyncFinalise or silent.
LEMMA RefinesNext == Inv /\ [Next]_vars => Abstract!ANext \/ Silent
<1> SUFFICES ASSUME Inv, [Next]_vars PROVE Abstract!ANext \/ Silent
  OBVIOUS
<1>0. Inv /\ AdapterInv
  BY DEF Inv
<1>a. Taken' = Taken \/ \E c \in Calls : Finalise(c)
  BY <1>0, TakenKept
<1>1. ASSUME NEW c \in Calls, Finalise(c) PROVE Abstract!ANext
  <2>1. UNCHANGED <<outcome, manager>>
    BY <1>1 DEF Finalise
  <2>2. CASE owns /\ workerStarted /\ ~shutdownRequested
    <3>1. /\ c \notin Taken /\ answer[c] = "none" /\ UNCHANGED answer
          /\ Taken' = Taken \union {c} /\ pt = "ready"
      BY <1>1, <2>2, AcceptSteps
    <3>2. manager = "up"
      BY <2>2, <3>1 DEF Inv, AdapterInv, OwnerInv, LedgerInv, OpenInv, TypeOK,
         ControlType, WorkerPcs
    <3>3. Abstract!Accept(c)
      BY <2>1, <3>1, <3>2 DEF Abstract!Accept, Abstract!Fresh
    <3>4. QED
      BY <3>3 DEF Abstract!ANext
  <2>3. CASE ~(owns /\ workerStarted /\ ~shutdownRequested)
    <3>1. Abstract!Refuse(c)
      BY <1>1, <2>1, <2>3, RefuseSteps DEF Abstract!Refuse, Abstract!Fresh
    <3>2. QED
      BY <3>1 DEF Abstract!ANext
  <2>4. QED
    BY <2>2, <2>3
<1>2. ASSUME WorkerFinalise, Taken' = Taken PROVE Abstract!ANext
  <2>1. /\ worker = "finalise" /\ job.call \in Calls /\ manager = "up"
        /\ UNCHANGED <<answer, manager>>
    BY <1>0, <1>2 DEF WorkerFinalise, WorkerAt, AdapterInv, WorkInv, OwnerInv,
       Tasks
  <2>3. job.call \in Taken /\ outcome[job.call] = "none"
    BY <2>1 DEF Taken, Inv, LedgerInv, TaskInv
  <2>4. \E code \in Codes : outcome' = [outcome EXCEPT ![job.call] = code]
    BY <1>2 DEF WorkerFinalise
  <2>5. Abstract!Execute(job.call)
    BY <1>2, <2>1, <2>3, <2>4 DEF Abstract!Execute
  <2>6. QED
    BY <2>1, <2>5 DEF Abstract!ANext
<1>3. ASSUME DrainAnswer, Taken' = Taken PROVE Abstract!ANext
  <2>1. /\ drained \in Seq(Completions) /\ drained # <<>> /\ Live
        /\ UNCHANGED <<outcome, manager>>
    BY <1>0, <1>3 DEF DrainAnswer, PtAt, Live, pending, AdapterInv, TypeOK,
       QueueType, WorkInv
  <2> DEFINE r == Head(drained).id
             c == results[r]
  <2>2. /\ 1 \in DOMAIN drained /\ Head(drained) = drained[1]
        /\ Head(drained) \in Completions
    BY <2>1, TailAt
  <2>3. r \in Requests /\ Head(drained).code \in Codes
    BY <2>2 DEF Completions
  <2>4. c # NoCall /\ outcome[c] = Head(drained).code
    BY <2>1, <2>2 DEF Inv, LedgerInv, CompletionInv, Faithful
  <2>5. c \in Calls /\ c \in Taken /\ answer[c] = "none"
    BY <2>3, <2>4 DEF Inv, LedgerInv, ResultInv, AdapterInv, TypeOK, ResultType
  <2>6. outcome[c] # "none"
    BY <2>3, <2>4, PluginAssumption
  <2>7. answer' = [answer EXCEPT ![c] = outcome[c]]
    BY <1>3, <2>4 DEF DrainAnswer
  <2>9. Abstract!Answer(c)
    BY <1>3, <2>1, <2>5, <2>6, <2>7 DEF Abstract!Answer
  <2>10. QED
    BY <2>5, <2>9 DEF Abstract!ANext
<1>4. ASSUME CancelPendingFinaliseResults, Taken' = Taken PROVE Abstract!ANext
  <2>1. /\ pt = "cancel" /\ Live /\ UNCHANGED <<outcome, manager>>
        /\ answer' = [c \in Calls |->
                        IF \E r \in Requests : results[r] = c THEN "unavailable"
                        ELSE answer[c]]
    BY <1>4 DEF CancelPendingFinaliseResults, PtAt, Live
  <2>2. ASSUME NEW c \in Calls
        PROVE  (\E r \in Requests : results[r] = c)
               <=> c \in Taken /\ answer[c] = "none"
    BY <2>1, PluginAssumption DEF Inv, LedgerInv, ResultInv
  <2>3. answer' = [c \in Calls |->
                     IF c \in Taken /\ answer[c] = "none" THEN "unavailable"
                     ELSE answer[c]]
    BY <2>1, <2>2
  <2>5. Abstract!Abandon
    BY <1>4, <2>1, <2>3 DEF Abstract!Abandon
  <2>6. QED
    BY <2>5 DEF Abstract!ANext
<1>5. ASSUME Abort \/ WorkerStop, Taken' = Taken
      PROVE  Abstract!ANext \/ Silent
  <2>1. UNCHANGED <<outcome, answer>>
    BY <1>5 DEF Abort, WorkerStop, history
  <2>3. tasks = <<>> /\ worker # "finalise"
    BY <1>5 DEF Abort, PtAt, WorkerStop, WorkerAt, StopRequested, Inv, LedgerInv,
       OpenInv
  <2>4. \A c \in Taken : outcome[c] # "none"
    BY <2>3 DEF Taken
  <2>5. \/ UNCHANGED ManagerMap
        \/ ManagerMap = "up" /\ ManagerMap' = "down"
    BY <1>0, <1>5 DEF ManagerMap, Abort, DestroyManager, WorkerStop, WorkerAt,
       AdapterInv, OwnerInv
  <2>6. QED
    <3>1. CASE UNCHANGED ManagerMap
      BY <1>5, <2>1, <3>1 DEF Silent
    <3>2. CASE ManagerMap = "up" /\ ManagerMap' = "down"
      BY <1>5, <2>1, <2>4, <3>2
      DEF Abstract!ANext, Abstract!Destroy, ManagerMap
    <3>3. QED
      BY <2>5, <3>1, <3>2
<1>6. ASSUME \/ CreateManager \/ StartWorker \/ HandleMessage \/ DrainSwap
             \/ BeginDestructor \/ Invalidate \/ Finish \/ WorkerTake
             \/ WorkerDispatch \/ WorkerPush \/ WorkerPost \/ WorkerDestroyed
             \/ PollDispatch \/ Callback \/ UNCHANGED vars,
             Taken' = Taken
      PROVE  Silent
  <2>1. UNCHANGED <<outcome, answer>>
    BY <1>6 DEF CreateManager, StartWorker, HandleMessage, DrainSwap,
       BeginDestructor, Invalidate, Finish, WorkerTake, WorkerDispatch,
       WorkerPush, WorkerPost, WorkerDestroyed, PollDispatch, Callback, PollPush,
       PollPost, vars, history
  <2>2. CASE CreateManager \/ WorkerDestroyed
    <3>1. ManagerMap' = ManagerMap
      BY <1>0, <2>2 DEF ManagerMap, CreateManager, WorkerDestroyed, PtAt,
         WorkerAt, AdapterInv, OwnerInv
    <3>2. QED
      BY <1>6, <2>1, <3>1 DEF Silent
  <2>3. CASE UNCHANGED manager
    BY <1>6, <2>1, <2>3 DEF Silent, ManagerMap
  <2>4. QED
    BY <1>6, <2>2, <2>3 DEF StartWorker, HandleMessage, DrainSwap,
       BeginDestructor, Invalidate, Finish, WorkerTake, WorkerDispatch,
       WorkerPush, WorkerPost, PollDispatch, Callback, PollPush, PollPost, vars
<1>7. QED
  BY <1>a, <1>1, <1>2, <1>3, <1>4, <1>5, <1>6
  DEF Next, Construct, Drain, Destruct, Run

\* However request ids are reused, messages are refused and the plugin goes,
\* the Windows adapter implements the abstract specification.
THEOREM Refinement == Spec => ImplementsAsyncFinalise
<1>1. Inv /\ [Next]_vars => [Abstract!ANext]_<<Taken, outcome, answer, ManagerMap>>
  BY RefinesNext DEF Silent
<1>2. Inv /\ [Next]_vars => [Abstract!ANext]_(Abstract!avars)
  BY <1>1 DEF Abstract!avars, ManagerMap
<1>3. QED
  BY <1>2, RefinesInit, InvCorrect, PTL
  DEF Spec, ImplementsAsyncFinalise, Abstract!ASpec
=============================================================================

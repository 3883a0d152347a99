--------------------------- MODULE AndroidPlugin ---------------------------
(***************************************************************************)
(* The Android adapter over several attachments of one plugin object.      *)
(* Every attachment has its own native manager, with a poll thread, and    *)
(* its own NativeFinaliseWorker, a single-thread executor.  Both outlive   *)
(* the attachment: destruction is queued behind the finalise calls, and    *)
(* what they have to say is posted to the one main looper, whose messages  *)
(* carry no attachment.                                                    *)
(*                                                                         *)
(* Code on the main thread is atomic here: no other thread touches what it *)
(* touches, except the executor's queue and the looper's.                  *)
(***************************************************************************)
EXTENDS Integers, FiniteSets, Sequences

CONSTANTS Calls,      \* finalise calls, each with its MethodChannel.Result
          Codes,      \* what nativeFinalise returns
          Ids,        \* torrent ids; every manager issues the same
          MaxGen,     \* bound on attachments
          MaxEvents,  \* bound on events posted
          BufferCap,  \* MAX_BUFFERED_EVENTS (10)
          DestroyTask \* the task that destroys the manager

ASSUME AndroidAssumption ==
  /\ MaxGen \in Nat /\ MaxEvents \in Nat /\ BufferCap \in Nat \ {0}
  /\ DestroyTask \notin Calls
  /\ Codes \intersect {"none", "unavailable"} = {}

VARIABLES
  attached,        \* as in the plugin
  generation,      \* number of attachments; while attached, the current one
  handle,          \* nativeHandle: the generation of the manager, or 0
  closed,          \* closed[g]: NativeFinaliseWorker::closed
  executor,        \* executor[g]: its tasks, the one under way first
  manager,         \* manager[g]: the native manager
  looper,          \* messages posted to the main thread
  progressSink, metadataSink,   \* a listener is there
  statsBuffer,     \* stats kept for a listener to come
  metadataBuffer,  \* metadataBuffer[id]: manager whose event is kept, or 0
  sent,            \* number of stats events posted, by any manager
  posted,          \* metadata events posted, as <<g, id>>
  seen,            \* history: number of the last stats event delivered
  announced,       \* history: metadata events delivered
  took,            \* history: attachment that accepted a call, or 0
  outcome, answer  \* history: what the native call returned, and was told

attachment == <<attached, generation, handle>>
worker     == <<closed, executor>>
sinks      == <<progressSink, metadataSink>>
buffers    == <<statsBuffer, metadataBuffer>>
sources    == <<manager, sent, posted>>
deliveries == <<seen, announced>>
calls      == <<took, outcome, answer>>
vars == <<attached, generation, handle, closed, executor, manager, looper,
          progressSink, metadataSink, statsBuffer, metadataBuffer, sent,
          posted, seen, announced, took, outcome, answer>>

Gens == 1..MaxGen

Stats    == [kind : {"stats"}, number : 1..MaxEvents]
Metadata == [kind : {"metadata"}, gen : Gens, id : Ids]
Answers  == [kind : {"answer"}, call : Calls]

TypeOK ==
  /\ attached \in BOOLEAN /\ generation \in 0..MaxGen
  /\ handle \in {0, generation}
  /\ closed \in [Gens -> BOOLEAN]
  /\ executor \in [Gens -> Seq(Calls \union {DestroyTask})]
  /\ manager \in [Gens -> {"none", "up", "down"}]
  /\ looper \in Seq(Stats \union Metadata \union Answers)
  /\ progressSink \in BOOLEAN /\ metadataSink \in BOOLEAN
  /\ statsBuffer \in Seq(Stats) /\ Len(statsBuffer) <= BufferCap
  /\ metadataBuffer \in [Ids -> 0..MaxGen]
  /\ sent \in 0..MaxEvents /\ seen \in 0..sent
  /\ posted \subseteq Gens \X Ids /\ announced \subseteq posted
  /\ took \in [Calls -> 0..MaxGen]
  /\ outcome \in [Calls -> Codes \union {"none"}]
  /\ answer \in [Calls -> Codes \union {"none", "unavailable"}]

NoMetadata == [id \in Ids |-> 0]

Init ==
  /\ attached = FALSE /\ generation = 0 /\ handle = 0
  /\ closed = [g \in Gens |-> FALSE] /\ executor = [g \in Gens |-> <<>>]
  /\ manager = [g \in Gens |-> "none"]
  /\ looper = <<>>
  /\ progressSink = FALSE /\ metadataSink = FALSE
  /\ statsBuffer = <<>> /\ metadataBuffer = NoMetadata
  /\ sent = 0 /\ posted = {}
  /\ seen = 0 /\ announced = {}
  /\ took = [c \in Calls |-> 0]
  /\ outcome = [c \in Calls |-> "none"] /\ answer = [c \in Calls |-> "none"]

-----------------------------------------------------------------------------
(* Attachment                                                              *)

\* onAttachedToEngine; nativeCreate may fail.
Attach ==
  /\ ~attached /\ generation < MaxGen
  /\ attached' = TRUE
  /\ generation' = generation + 1
  /\ \/ handle' = generation' /\ manager' = [manager EXCEPT ![generation'] = "up"]
     \/ handle' = 0 /\ UNCHANGED manager
  /\ UNCHANGED <<worker, looper, sinks, buffers, sent, posted, deliveries, calls>>

\* A worker whose close destroys the manager itself, or only shuts down.
CloseDestroying(g) ==
  /\ closed' = [closed EXCEPT ![g] = TRUE]
  /\ manager' = [manager EXCEPT ![g] = IF @ = "up" THEN "down" ELSE @]
  /\ UNCHANGED executor
CloseOnly(g) ==
  /\ closed' = [closed EXCEPT ![g] = TRUE]
  /\ UNCHANGED <<executor, manager>>

\* NativeFinaliseWorker.close.
Close(g) ==
  /\ closed' = [closed EXCEPT ![g] = TRUE]
  /\ executor' = IF closed[g] THEN executor
                 ELSE [executor EXCEPT ![g] = Append(@, DestroyTask)]
  /\ UNCHANGED manager

\* onDetachedFromEngine.
Detach ==
  /\ attached
  /\ attached' = FALSE
  /\ progressSink' = FALSE /\ metadataSink' = FALSE
  /\ statsBuffer' = <<>> /\ metadataBuffer' = NoMetadata
  /\ handle' = 0
  /\ Close(generation)
  /\ UNCHANGED <<generation, looper, sent, posted, deliveries, calls>>

-----------------------------------------------------------------------------
(* Finalise                                                                *)

Fresh(c) == took[c] = 0 /\ answer[c] = "none"

\* finalise, behind the test of nativeHandle in onMethodCall: a fresh call is
\* submitted to the worker of this attachment, or refused.
Finalise(c) ==
  /\ attached
  /\ Fresh(c)
  /\ IF handle # 0 /\ ~closed[generation]
     THEN /\ executor' = [executor EXCEPT ![generation] = Append(@, c)]
          /\ took' = [took EXCEPT ![c] = generation]
          /\ UNCHANGED answer
     ELSE /\ answer' = [answer EXCEPT ![c] = "unavailable"]
          /\ UNCHANGED <<executor, took>>
  /\ UNCHANGED <<attachment, closed, looper, sinks, buffers, sources,
                 deliveries, outcome>>

\* The task under way on an executor's thread.
Running(g, c) == executor[g] # <<>> /\ Head(executor[g]) = c

\* operation(): the native call, which blocks; what it throws becomes a code.
Operation(g, c) ==
  /\ Running(g, c) /\ outcome[c] = "none"
  /\ \E code \in Codes : outcome' = [outcome EXCEPT ![c] = code]
  /\ UNCHANGED <<attachment, worker, looper, sinks, buffers, sources,
                 deliveries, took, answer>>

\* postToPlatformThread.
PostCompletion(g, c) ==
  /\ Running(g, c) /\ outcome[c] # "none"
  /\ looper' = Append(looper, [kind |-> "answer", call |-> c])
  /\ executor' = [executor EXCEPT ![g] = Tail(@)]
  /\ UNCHANGED <<attachment, closed, sinks, buffers, sources, deliveries, calls>>

\* nativeDestroy, which joins the manager's poll thread.
DestroyManager(g) ==
  /\ Running(g, DestroyTask)
  /\ manager' = [manager EXCEPT ![g] = IF @ = "up" THEN "down" ELSE @]
  /\ executor' = [executor EXCEPT ![g] = Tail(@)]
  /\ UNCHANGED <<attachment, closed, looper, sinks, buffers, sent, posted,
                 deliveries, calls>>

-----------------------------------------------------------------------------
(* Events: the poll threads post, the main thread emits                    *)

MoreEvents == sent + Cardinality(posted) < MaxEvents

DispatchStats(g) ==
  /\ manager[g] = "up" /\ MoreEvents
  /\ sent' = sent + 1
  /\ looper' = Append(looper, [kind |-> "stats", number |-> sent'])
  /\ UNCHANGED <<attachment, worker, sinks, buffers, manager, posted,
                 deliveries, calls>>

\* The manager announces a torrent once.
DispatchMetadata(g, id) ==
  /\ manager[g] = "up" /\ MoreEvents
  /\ <<g, id>> \notin posted
  /\ posted' = posted \union {<<g, id>>}
  /\ looper' = Append(looper, [kind |-> "metadata", gen |-> g, id |-> id])
  /\ UNCHANGED <<attachment, worker, sinks, buffers, manager, sent,
                 deliveries, calls>>

\* A buffer without its bound.
KeepAll(events) == events

KeepLatest(events) ==
  SubSeq(events, IF Len(events) > BufferCap THEN Len(events) - BufferCap + 1 ELSE 1,
         Len(events))

Emit(event) ==
  IF progressSink
  THEN /\ seen' = event.number
       /\ UNCHANGED statsBuffer
  ELSE /\ statsBuffer' = KeepLatest(Append(statsBuffer, event))
       /\ UNCHANGED seen

\* Metadata that is lost on whoever listens too late.
EmitMetadataUnkept(event) ==
  /\ announced' = announced \union
       (IF metadataSink THEN {<<event.gen, event.id>>} ELSE {})
  /\ UNCHANGED metadataBuffer

EmitMetadata(event) ==
  IF metadataSink
  THEN /\ announced' = announced \union {<<event.gen, event.id>>}
       /\ UNCHANGED metadataBuffer
  ELSE /\ metadataBuffer' = [metadataBuffer EXCEPT ![event.id] = event.gen]
       /\ UNCHANGED announced

\* An emit whose caller forgot to ask.
EmitAnyway == TRUE

\* The test made on the main thread, when the message is handled.
MayEmit == attached

\* The main thread handles a message.
Handle(kind) ==
  /\ looper # <<>> /\ Head(looper).kind = kind
  /\ looper' = Tail(looper)

HandleStats ==
  /\ Handle("stats")
  /\ IF MayEmit THEN Emit(Head(looper)) ELSE UNCHANGED <<seen, statsBuffer>>
  /\ UNCHANGED <<attachment, worker, sinks, metadataBuffer, sources, announced,
                 calls>>

HandleMetadata ==
  /\ Handle("metadata")
  /\ IF MayEmit THEN EmitMetadata(Head(looper))
     ELSE UNCHANGED <<announced, metadataBuffer>>
  /\ UNCHANGED <<attachment, worker, sinks, statsBuffer, sources, seen, calls>>

\* complete on the main thread, asking whether anybody is attached.
HandleAnswerIfAttached ==
  /\ Handle("answer")
  /\ LET c == Head(looper).call IN
       answer' = IF attached THEN [answer EXCEPT ![c] = outcome[c]] ELSE answer
  /\ UNCHANGED <<attachment, worker, sinks, buffers, sources, deliveries, took,
                 outcome>>

\* complete, on the main thread, whether or not the plugin is still attached.
HandleAnswer ==
  /\ Handle("answer")
  /\ LET c == Head(looper).call IN answer' = [answer EXCEPT ![c] = outcome[c]]
  /\ UNCHANGED <<attachment, worker, sinks, buffers, sources, deliveries, took,
                 outcome>>

\* A listener that is given the buffer and leaves it there.
DrainStatsKeeping == UNCHANGED statsBuffer

DrainStats == statsBuffer' = <<>>

\* onListen of the progress channel: the buffer first, in its order.
ListenProgress ==
  /\ attached /\ ~progressSink
  /\ progressSink' = TRUE
  /\ seen' = IF statsBuffer = <<>> THEN seen ELSE statsBuffer[Len(statsBuffer)].number
  /\ DrainStats
  /\ UNCHANGED <<attachment, worker, looper, metadataSink, metadataBuffer,
                 sources, announced, calls>>

ListenMetadata ==
  /\ attached /\ ~metadataSink
  /\ metadataSink' = TRUE
  /\ announced' = announced \union
       {<<metadataBuffer[id], id>> : id \in {i \in Ids : metadataBuffer[i] # 0}}
  /\ metadataBuffer' = NoMetadata
  /\ UNCHANGED <<attachment, worker, looper, progressSink, statsBuffer,
                 sources, seen, calls>>

\* onCancel of either channel.
CancelProgress ==
  /\ progressSink
  /\ progressSink' = FALSE
  /\ UNCHANGED <<attachment, worker, looper, metadataSink, buffers, sources,
                 deliveries, calls>>

CancelMetadata ==
  /\ metadataSink
  /\ metadataSink' = FALSE
  /\ UNCHANGED <<attachment, worker, looper, progressSink, buffers, sources,
                 deliveries, calls>>

-----------------------------------------------------------------------------
Looper == HandleStats \/ HandleMetadata \/ HandleAnswer
Listeners == ListenProgress \/ ListenMetadata \/ CancelProgress \/ CancelMetadata
Complete(g) == \E c \in Calls : PostCompletion(g, c)

Next ==
  \/ Attach \/ Detach \/ Looper \/ Listeners
  \/ \E c \in Calls : Finalise(c)
  \/ \E g \in Gens :
       \/ \E c \in Calls : Operation(g, c)
       \/ Complete(g) \/ DestroyManager(g)
       \/ DispatchStats(g)
       \/ \E id \in Ids : DispatchMetadata(g, id)

Spec == Init /\ [][Next]_vars

\* The looper and the executors' threads run on, and a native finalise returns,
\* as it does within its deadlines.
FairSpec ==
  /\ Spec
  /\ WF_vars(Looper)
  /\ \A g \in Gens :
       WF_vars(\E c \in Calls : Operation(g, c))
       /\ WF_vars(Complete(g)) /\ WF_vars(DestroyManager(g))

-----------------------------------------------------------------------------
(* Properties                                                              *)

\* While detached there is no listener and nothing is kept for the next one,
\* although managers of earlier attachments still post.
DetachedIsQuiet ==
  ~attached => ~progressSink /\ ~metadataSink
               /\ statsBuffer = <<>> /\ metadataBuffer = NoMetadata

\* The stats still to be delivered, first those kept, then those posted, are in
\* the order they were sent, and newer than what a listener saw, as listeners
\* and attachments come and go.
IsStats(message) == message.kind = "stats"
Ascending(line) ==
  \A i, j \in DOMAIN line :
    i < j /\ IsStats(line[i]) /\ IsStats(line[j]) => line[i].number < line[j].number
StatsInOrder ==
  /\ Ascending(statsBuffer) /\ Ascending(looper)
  /\ \A i \in DOMAIN statsBuffer : seen < statsBuffer[i].number
  /\ \A j \in DOMAIN looper : IsStats(looper[j]) =>
       /\ seen < looper[j].number
       /\ \A i \in DOMAIN statsBuffer : statsBuffer[i].number < looper[j].number

\* Metadata is sent once, so while attached it is never lost, whether or not
\* somebody listens.  Only an earlier manager's event about the same id can
\* take its place in the buffer.
MetadataKept ==
  \A id \in Ids :
    attached /\ {g \in Gens : <<g, id>> \in posted} = {generation}
      => \/ <<generation, id>> \in announced
         \/ metadataBuffer[id] = generation
         \/ \E i \in DOMAIN looper :
              looper[i] = [kind |-> "metadata", gen |-> generation, id |-> id]

\* For each attachment: an accepted call runs once, on the manager of the
\* attachment that accepted it and before that is destroyed, and its result is
\* answered at most once and with its own code, also after detaching.
Abstract(g) == INSTANCE AsyncFinalise WITH
  accepted <- {c \in Calls : took[c] = g},
  outcome <- [c \in Calls |-> IF took[c] = g THEN outcome[c] ELSE "none"],
  answer <- [c \in Calls |-> IF took[c] \in {0, g} THEN answer[c] ELSE "none"],
  manager <- IF manager[g] = "down" THEN "down" ELSE "up"
ImplementsAsyncFinalise ==
  /\ \A g \in Gens : Abstract(g)!AInit
  /\ [][\A g \in Gens : Abstract(g)!ANext \/ UNCHANGED Abstract(g)!avars]_vars

\* Every accepted call is answered, also when its attachment is gone.
AcceptedIsAnswered == \A c \in Calls : took[c] # 0 ~> answer[c] # "none"

\* A manager does not outlive its attachment for ever.
ManagerGoes ==
  \A g \in Gens : closed[g] ~> manager[g] \in {"none", "down"}
=============================================================================

---------------------------- MODULE ApplePlugin ----------------------------
(***************************************************************************)
(* The iOS and macOS adapter, from registration to the release of all it   *)
(* owns.  Three threads meet: the main thread, the serial finaliseQueue    *)
(* and the manager's poll thread.  The engine holds the plugin; the native *)
(* manager knows it through a CallbackContext, which refers to it weakly,  *)
(* so that a callback makes the reference strong while it runs.  Whoever   *)
(* gives up the last strong reference runs deinit: the main thread, or     *)
(* the poll thread at the end of a callback.                               *)
(*                                                                         *)
(* Code on the main thread is atomic, but for the native calls.  Loading   *)
(* a weak reference and clearing it are atomic, as if they were ordered.   *)
(* What happens to the events once they are posted is not modelled.        *)
(***************************************************************************)
EXTENDS Naturals, Sequences

CONSTANTS Calls,      \* finalise calls, each with its FlutterResult
          Codes,      \* what nativeFinalise returns
          MaxEvents,  \* bound on callbacks
          DestroyJob  \* the block that deinit leaves in the queue

ASSUME AppleAssumption ==
  /\ MaxEvents \in Nat
  /\ DestroyJob \notin Calls
  /\ Codes \intersect {"none", "unavailable"} = {}

VARIABLES
  plugin,     \* the plugin object: "none", "alive" or "gone"
  engine,     \* the registrar and its handlers hold the plugin
  mainCall,   \* the main thread is in a native call, as pause or cancel
  answers,    \* calls whose answer waits on the main queue
  queue,      \* finaliseQueue, the block under way first
  at,         \* how far that block is
  manager,    \* the native manager: "none", "up", "joining" or "down"
  context,    \* the CallbackContext: "none", "retained" or "freed"
  callback,   \* the poll thread in statsCallback or metadataCallback
  events,     \* number of callbacks so far
  accepted,   \* history: the calls taken on
  outcome,    \* history: what nativeFinalise returned
  answer      \* history: what the FlutterResult was told

main    == <<engine, mainCall, answers>>
worker  == <<queue, at>>
native  == <<manager, context>>
poll    == <<callback, events>>
history == <<accepted, outcome, answer>>
vars == <<plugin, engine, mainCall, answers, queue, at, manager, context,
          callback, events, accepted, outcome, answer>>

TypeOK ==
  /\ plugin \in {"none", "alive", "gone"}
  /\ engine \in BOOLEAN /\ mainCall \in BOOLEAN
  /\ answers \in Seq(Calls)
  /\ queue \in Seq(Calls \union {DestroyJob})
  /\ at \in {"idle", "finalise", "post", "join", "release"}
  /\ manager \in {"none", "up", "joining", "down"}
  /\ context \in {"none", "retained", "freed"}
  /\ callback \in {"idle", "entered", "strong", "posted"}
  /\ events \in 0..MaxEvents
  /\ accepted \subseteq Calls
  /\ outcome \in [Calls -> Codes \union {"none"}]
  /\ answer \in [Calls -> Codes \union {"none", "unavailable"}]

Init ==
  /\ plugin = "none" /\ engine = FALSE /\ mainCall = FALSE
  /\ answers = <<>> /\ queue = <<>> /\ at = "idle"
  /\ manager = "none" /\ context = "none"
  /\ callback = "idle" /\ events = 0
  /\ accepted = {}
  /\ outcome = [c \in Calls |-> "none"] /\ answer = [c \in Calls |-> "none"]

-----------------------------------------------------------------------------
(* The life of the plugin                                                  *)

\* init and register.  Without a manager the context is released at once.
Register ==
  /\ plugin = "none"
  /\ plugin' = "alive" /\ engine' = TRUE
  /\ \/ manager' = "up" /\ context' = "retained"
     \/ UNCHANGED native
  /\ UNCHANGED <<mainCall, answers, worker, poll, history>>

\* A deinit that releases the context itself.
DeinitReleasing ==
  /\ plugin' = "gone"
  /\ context' = IF context = "retained" THEN "freed" ELSE context
  /\ queue' = Append(queue, DestroyJob)
  /\ UNCHANGED manager

\* A deinit that destroys the manager at once.
DeinitDestroying ==
  /\ plugin' = "gone"
  /\ manager' = IF manager = "up" THEN "down" ELSE manager
  /\ context' = IF context = "retained" THEN "freed" ELSE context
  /\ UNCHANGED queue

\* deinit: what is native goes to the queue, behind the calls it holds.
Deinit ==
  /\ plugin' = "gone"
  /\ queue' = Append(queue, DestroyJob)
  /\ UNCHANGED native

\* One strong reference is given up; others says whether one remains.
GiveUp(others) ==
  IF others THEN UNCHANGED <<plugin, queue, native>> ELSE Deinit

HoldsStrong == callback \in {"strong", "posted"}

\* The engine goes, on the main thread.
Detach ==
  /\ engine /\ ~mainCall
  /\ engine' = FALSE
  /\ GiveUp(HoldsStrong)
  /\ UNCHANGED <<mainCall, answers, at, poll, history>>

-----------------------------------------------------------------------------
(* The main thread                                                         *)

\* handle: a native call that blocks the main thread while it lasts.
BeginCall ==
  /\ engine /\ ~mainCall
  /\ manager # "none"
  /\ mainCall' = TRUE
  /\ UNCHANGED <<plugin, engine, answers, worker, native, poll, history>>

EndCall ==
  /\ mainCall
  /\ mainCall' = FALSE
  /\ UNCHANGED <<plugin, engine, answers, worker, native, poll, history>>

Fresh(c) == c \notin accepted /\ answer[c] = "none"

\* handle, finalise: refused without a manager, else put in the queue.
Finalise(c) ==
  /\ engine /\ ~mainCall
  /\ Fresh(c)
  /\ IF manager # "none"
     THEN /\ queue' = Append(queue, c)
          /\ accepted' = accepted \union {c}
          /\ UNCHANGED answer
     ELSE /\ answer' = [answer EXCEPT ![c] = "unavailable"]
          /\ UNCHANGED <<queue, accepted>>
  /\ UNCHANGED <<plugin, main, at, native, poll, outcome>>

\* A block that answers for the plugin only while it exists.
FinishIfAlive ==
  /\ answers # <<>> /\ ~mainCall
  /\ LET c == Head(answers) IN
       answer' = IF plugin = "alive" THEN [answer EXCEPT ![c] = outcome[c]] ELSE answer
  /\ answers' = Tail(answers)
  /\ UNCHANGED <<plugin, engine, mainCall, worker, native, poll, accepted, outcome>>

\* finish, on the main queue.
Finish ==
  /\ answers # <<>> /\ ~mainCall
  /\ LET c == Head(answers) IN answer' = [answer EXCEPT ![c] = outcome[c]]
  /\ answers' = Tail(answers)
  /\ UNCHANGED <<plugin, engine, mainCall, worker, native, poll, accepted, outcome>>

-----------------------------------------------------------------------------
(* The queue                                                               *)

BeginFinalise ==
  /\ at = "idle" /\ queue # <<>> /\ Head(queue) # DestroyJob
  /\ at' = "finalise"
  /\ UNCHANGED <<plugin, main, queue, native, poll, history>>

\* nativeFinalise returns.
Finalised ==
  /\ at = "finalise"
  /\ \E code \in Codes : outcome' = [outcome EXCEPT ![Head(queue)] = code]
  /\ at' = "post"
  /\ UNCHANGED <<plugin, main, queue, native, poll, accepted, answer>>

PostAnswer ==
  /\ at = "post"
  /\ answers' = Append(answers, Head(queue))
  /\ queue' = Tail(queue) /\ at' = "idle"
  /\ UNCHANGED <<plugin, engine, mainCall, native, poll, history>>

\* nativeDestroy, which stops the poll thread and waits for it.
BeginDestroy ==
  /\ at = "idle" /\ queue # <<>> /\ Head(queue) = DestroyJob
  /\ IF manager = "up" THEN manager' = "joining" /\ at' = "join"
     ELSE UNCHANGED manager /\ at' = "release"
  /\ UNCHANGED <<plugin, main, queue, context, poll, history>>

Joined ==
  /\ at = "join" /\ callback = "idle"
  /\ manager' = "down" /\ at' = "release"
  /\ UNCHANGED <<plugin, main, queue, context, poll, history>>

ReleaseContext ==
  /\ at = "release"
  /\ context' = IF context = "retained" THEN "freed" ELSE context
  /\ queue' = Tail(queue) /\ at' = "idle"
  /\ UNCHANGED <<plugin, main, manager, poll, history>>

-----------------------------------------------------------------------------
(* The poll thread                                                         *)

\* It may call back until it is joined.
Enter ==
  /\ callback = "idle" /\ manager \in {"up", "joining"}
  /\ events < MaxEvents
  /\ callback' = "entered" /\ events' = events + 1
  /\ UNCHANGED <<plugin, main, worker, native, history>>

\* guard let plugin = context.plugin.
LoadPlugin ==
  /\ callback = "entered"
  /\ callback' = IF plugin = "alive" THEN "strong" ELSE "idle"
  /\ UNCHANGED <<plugin, main, worker, native, events, history>>

\* DispatchQueue.main.async; the block holds the plugin weakly.
PostEvent ==
  /\ callback = "strong"
  /\ callback' = "posted"
  /\ UNCHANGED <<plugin, main, worker, native, events, history>>

Return ==
  /\ callback = "posted"
  /\ callback' = "idle"
  /\ GiveUp(engine)
  /\ UNCHANGED <<main, at, events, history>>

-----------------------------------------------------------------------------
Main   == Register \/ Detach \/ BeginCall \/ EndCall \/ Finish
Worker == BeginFinalise \/ Finalised \/ PostAnswer \/ BeginDestroy \/ Joined
            \/ ReleaseContext
Poll   == Enter \/ LoadPlugin \/ PostEvent \/ Return

Next == Main \/ (\E c \in Calls : Finalise(c)) \/ Worker \/ Poll

Spec == Init /\ [][Next]_vars

\* Threads run on, native calls return, and so does nativeFinalise, within
\* its deadlines.  The main queue is served in order: a posted block has its
\* turn among the method calls, however many follow, hence the strong fairness.
FairSpec ==
  /\ Spec
  /\ WF_vars(EndCall) /\ SF_vars(Finish)
  /\ WF_vars(Worker)
  /\ WF_vars(LoadPlugin \/ PostEvent \/ Return)

-----------------------------------------------------------------------------
(* Properties                                                              *)

\* Whichever thread gives up the plugin last: a callback finds its context,
\* which outlives the manager, and a manager that has not been destroyed;
\* no native call is under way when the manager goes; and the plugin is not
\* released under a callback that holds it.
CallbacksAreSafe ==
  /\ callback # "idle" => context = "retained" /\ manager \in {"up", "joining"}
  /\ manager \in {"up", "joining"} => context = "retained"
  /\ mainCall \/ at = "finalise" => manager = "up"
  /\ engine \/ HoldsStrong => plugin = "alive"

\* A finalise accepted before the plugin goes runs on a manager that is still
\* there, and is answered once, with its own code.
Abstract == INSTANCE AsyncFinalise WITH
  manager <- IF manager = "down" THEN "down" ELSE "up"
ImplementsAsyncFinalise == Abstract!ASpec

\* Every accepted call is answered, plugin or no plugin, and once the engine
\* is gone so are, in the end, the manager and the context.
Concluded ==
  /\ \A c \in Calls : c \in accepted ~> answer[c] # "none"
  /\ plugin # "none" /\ ~engine
       ~> manager \in {"none", "down"} /\ context # "retained"

\* simple_torrent_manager_destroy: "The caller must serialize lifecycle calls
\* and ensure no manager call is in flight before destroy begins."  The main
\* thread's calls are lifecycle calls as finalise is.
LifecycleSerialised == ~(mainCall /\ at = "finalise")
=============================================================================

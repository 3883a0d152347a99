------------------------ MODULE AndroidPluginProofs ------------------------
(***************************************************************************)
(* AndroidPlugin implements AsyncFinalise in each of its attachments, for  *)
(* any number of calls, attachments and events: what an executor and the   *)
(* looper still hold of a call is answered once, and the manager goes      *)
(* after the last of them.                                                 *)
(***************************************************************************)
EXTENDS AndroidPlugin, SequenceFacts, FiniteSetTheorems

Tasks == Calls \union {DestroyTask}
Messages ==
  [kind : {"stats"}, number : Int] \union Metadata \union Answers

\* The part of TypeOK that does not speak of events.
CallType ==
  /\ attached \in BOOLEAN /\ generation \in 0..MaxGen
  /\ handle \in {0, generation}
  /\ closed \in [Gens -> BOOLEAN]
  /\ executor \in [Gens -> Seq(Tasks)]
  /\ manager \in [Gens -> {"none", "up", "down"}]
  /\ looper \in Seq(Messages) /\ sent \in Int
  /\ took \in [Calls -> 0..MaxGen]
  /\ outcome \in [Calls -> Codes \union {"none"}]
  /\ answer \in [Calls -> Codes \union {"none", "unavailable"}]

\* An attachment that is still going on, or still to come, is open.
AttachInv ==
  /\ attached => /\ generation \in Gens /\ ~closed[generation]
                 /\ handle # 0 => manager[generation] = "up"
  /\ ~attached => handle = 0
  /\ \A g \in Gens : g > generation =>
       executor[g] = <<>> /\ ~closed[g] /\ manager[g] = "none"

\* The manager goes with the last task of a closed worker.
DestroyInv ==
  \A g \in Gens :
    /\ ~closed[g] => manager[g] # "down"
                     /\ \A i \in DOMAIN executor[g] : executor[g][i] # DestroyTask
    /\ \A i \in DOMAIN executor[g] :
         executor[g][i] = DestroyTask => i = Len(executor[g])
    /\ manager[g] = "down" => executor[g] = <<>>

\* A call that was taken on is in the executor of its attachment, once, until
\* it has run; only the task under way may have run.
TaskInv ==
  /\ \A g \in Gens : \A i \in DOMAIN executor[g] : executor[g][i] # DestroyTask =>
       /\ took[executor[g][i]] = g /\ answer[executor[g][i]] = "none"
       /\ i # 1 => outcome[executor[g][i]] = "none"
  /\ \A g \in Gens : \A i, j \in DOMAIN executor[g] :
       executor[g][i] = executor[g][j] => i = j
  /\ \A c \in Calls : took[c] # 0 /\ outcome[c] = "none" =>
       \E i \in DOMAIN executor[took[c]] : executor[took[c]][i] = c
  /\ \A c \in Calls : took[c] = 0 => outcome[c] = "none"

\* A posted answer is that of a call that ran and still waits.
AnswerInv ==
  /\ \A i \in DOMAIN looper : looper[i] \in Answers =>
       LET c == looper[i].call IN
         /\ took[c] # 0 /\ outcome[c] # "none" /\ answer[c] = "none"
         /\ \A g \in Gens : \A j \in DOMAIN executor[g] : executor[g][j] # c
  /\ \A i, j \in DOMAIN looper :
       looper[i] \in Answers /\ looper[i] = looper[j] => i = j

Inv == CallType /\ AttachInv /\ DestroyInv /\ TaskInv /\ AnswerInv

(***************************************************************************)
(* Frames                                                                  *)
(***************************************************************************)

\* Events and listeners leave the calls, the executors and the managers alone.
Events ==
  \/ HandleStats \/ HandleMetadata \/ Listeners
  \/ \E g \in Gens : DispatchStats(g) \/ \E id \in Ids : DispatchMetadata(g, id)
  \/ UNCHANGED vars

LEMMA EventFrame ==
  Events => UNCHANGED <<attached, generation, handle, closed, executor, manager,
                        took, outcome, answer>>
  BY DEF Events, Listeners, HandleStats, HandleMetadata, ListenProgress,
     ListenMetadata, CancelProgress, CancelMetadata, DispatchStats,
     DispatchMetadata, vars, attachment, worker, sources, calls

\* What an event step does to the looper: nothing, a message about no call at
\* the end, or the first message handled, which is about no call.
LEMMA EventLooper ==
  ASSUME CallType, Events
  PROVE  \/ looper' = looper
         \/ \E m \in Messages : m \notin Answers /\ looper' = Append(looper, m)
         \/ looper # <<>> /\ looper' = Tail(looper)
<1>1. ASSUME NEW g \in Gens, DispatchStats(g)
      PROVE  \E m \in Messages : m \notin Answers /\ looper' = Append(looper, m)
  <2> DEFINE m == [kind |-> "stats", number |-> sent + 1]
  <2>1. looper' = Append(looper, m)
    BY <1>1 DEF DispatchStats
  <2>2. m \in Messages /\ m \notin Answers
    BY DEF Messages, Answers, CallType
  <2>3. QED
    BY <2>1, <2>2
<1>2. ASSUME NEW g \in Gens, NEW id \in Ids, DispatchMetadata(g, id)
      PROVE  \E m \in Messages : m \notin Answers /\ looper' = Append(looper, m)
  <2> DEFINE m == [kind |-> "metadata", gen |-> g, id |-> id]
  <2>1. looper' = Append(looper, m)
    BY <1>2 DEF DispatchMetadata
  <2>2. m \in Messages /\ m \notin Answers
    BY DEF Messages, Metadata, Answers
  <2>3. QED
    BY <2>1, <2>2
<1>3. CASE HandleStats \/ HandleMetadata
  BY <1>3 DEF HandleStats, HandleMetadata, Handle
<1>4. CASE Listeners \/ UNCHANGED vars
  BY <1>4 DEF Listeners, ListenProgress, ListenMetadata, CancelProgress,
     CancelMetadata, vars
<1>5. QED
  BY <1>1, <1>2, <1>3, <1>4 DEF Events

\* The steps that are about calls or attachments.
LEMMA Cases ==
  [Next]_vars <=>
    \/ Events \/ Attach \/ Detach \/ HandleAnswer
    \/ \E c \in Calls : Finalise(c)
    \/ \E g \in Gens :
         \/ \E c \in Calls : Operation(g, c) \/ PostCompletion(g, c)
         \/ DestroyManager(g)
  BY DEF Next, Events, Looper, Complete

(***************************************************************************)
(* Types                                                                   *)
(***************************************************************************)

\* A task is added to one executor.
LEMMA ExecutorAppend ==
  ASSUME CallType, NEW x, NEW t \in Tasks,
         executor' = [executor EXCEPT ![x] = Append(executor[x], t)]
  PROVE  executor' \in [Gens -> Seq(Tasks)]
<1>1. CASE x \in Gens
  BY <1>1, AppendProperties DEF CallType
<1>2. CASE x \notin Gens
  BY <1>2 DEF CallType
<1>3. QED
  BY <1>1, <1>2

LEMMA CallTypeKept == ASSUME CallType, [Next]_vars PROVE CallType'
<1> USE AndroidAssumption DEF CallType
<1>1. CASE Events
  <2>1. looper' \in Seq(Messages)
    <3>1. ASSUME NEW m \in Messages, looper' = Append(looper, m)
          PROVE  looper' \in Seq(Messages)
      BY <3>1, AppendProperties
    <3>2. looper # <<>> => Tail(looper) \in Seq(Messages)
      BY HeadTailProperties
    <3>3. QED
      BY <1>1, <3>1, <3>2, EventLooper
  <2>2. sent' = sent \/ sent' = sent + 1
    BY <1>1 DEF Events, Listeners, HandleStats, HandleMetadata, ListenProgress,
       ListenMetadata, CancelProgress, CancelMetadata, DispatchStats,
       DispatchMetadata, vars, sources
  <2>3. QED
    BY <1>1, <2>1, <2>2, EventFrame
<1>2. CASE Attach
  <2>1. /\ attached' = TRUE /\ generation' = generation + 1
        /\ generation < MaxGen /\ handle' \in {0, generation'}
        /\ manager' = [manager EXCEPT ![generation'] = "up"] \/ UNCHANGED manager
        /\ UNCHANGED <<closed, executor, looper, sent, took, outcome, answer>>
    BY <1>2 DEF Attach, worker, calls
  <2>2. generation' \in 0..MaxGen
    BY <2>1
  <2>3. manager' \in [Gens -> {"none", "up", "down"}]
    BY <2>1
  <2>4. QED
    BY <2>1, <2>2, <2>3
<1>3. CASE Detach
  <2>1. \/ UNCHANGED executor
        \/ executor' = [executor EXCEPT ![generation] =
                          Append(executor[generation], DestroyTask)]
    BY <1>3 DEF Detach, Close
  <2>2. executor' \in [Gens -> Seq(Tasks)]
    <3>1. Calls \subseteq Tasks /\ DestroyTask \in Tasks
      BY DEF Tasks
    <3>2. QED
      BY <2>1, <3>1, ExecutorAppend
  <2>3. QED
    BY <1>3, <2>2 DEF Detach, Close, calls
<1>4. CASE HandleAnswer
  <2>1. looper # <<>> /\ looper' = Tail(looper) /\ Head(looper) \in Messages
    BY <1>4 DEF HandleAnswer, Handle
  <2>2. Head(looper).kind = "answer"
    BY <1>4 DEF HandleAnswer, Handle
  <2>3. Head(looper) \in Answers
    BY <2>1, <2>2 DEF Messages, Metadata, Answers
  <2>4. answer' \in [Calls -> Codes \union {"none", "unavailable"}]
    BY <1>4, <2>3 DEF HandleAnswer, Answers
  <2>5. QED
    BY <1>4, <2>1, <2>4 DEF HandleAnswer, attachment, worker, sources
<1>5. ASSUME NEW c \in Calls, Finalise(c) PROVE CallType'
  <2>1. \/ UNCHANGED executor
        \/ executor' = [executor EXCEPT ![generation] =
                          Append(executor[generation], c)]
    BY <1>5 DEF Finalise
  <2>2. executor' \in [Gens -> Seq(Tasks)]
    <3>1. Calls \subseteq Tasks /\ DestroyTask \in Tasks
      BY DEF Tasks
    <3>2. QED
      BY <2>1, <3>1, ExecutorAppend
  <2>3. took' \in [Calls -> 0..MaxGen] /\ answer' \in [Calls -> Codes \union {"none", "unavailable"}]
    BY <1>5 DEF Finalise
  <2>4. QED
    BY <1>5, <2>2, <2>3 DEF Finalise, attachment, sources
<1>6. ASSUME NEW g \in Gens, NEW c \in Calls, Operation(g, c) PROVE CallType'
  BY <1>6 DEF Operation, attachment, worker, sources
<1>7. ASSUME NEW g \in Gens, NEW c \in Calls, PostCompletion(g, c)
      PROVE  CallType'
  <2>1. executor' \in [Gens -> Seq(Tasks)]
    BY <1>7, HeadTailProperties DEF PostCompletion, Running
  <2>2. [kind |-> "answer", call |-> c] \in Messages
    BY DEF Messages, Answers
  <2>3. looper' \in Seq(Messages)
    BY <1>7, <2>2, AppendProperties DEF PostCompletion
  <2>4. QED
    BY <1>7, <2>1, <2>3 DEF PostCompletion, attachment, sources, calls
<1>8. ASSUME NEW g \in Gens, DestroyManager(g) PROVE CallType'
  <2>1. executor' \in [Gens -> Seq(Tasks)]
    BY <1>8, HeadTailProperties DEF DestroyManager, Running
  <2>2. QED
    BY <1>8, <2>1 DEF DestroyManager, attachment, calls
<1>9. QED
  BY <1>1, <1>2, <1>3, <1>4, <1>5, <1>6, <1>7, <1>8, Cases

(***************************************************************************)
(* Attachments and managers                                                *)
(***************************************************************************)

\* An executor that is given a task.
LEMMA Enqueued ==
  ASSUME CallType, NEW g \in Gens, NEW t \in Tasks,
         executor' = [executor EXCEPT ![g] = Append(executor[g], t)]
  PROVE  /\ \A h \in Gens : h # g => executor'[h] = executor[h]
         /\ DOMAIN executor'[g] = DOMAIN executor[g] \union {Len(executor[g]) + 1}
         /\ Len(executor[g]) + 1 \notin DOMAIN executor[g]
         /\ \A i \in DOMAIN executor[g] : executor'[g][i] = executor[g][i]
         /\ executor'[g][Len(executor[g]) + 1] = t
         /\ Len(executor'[g]) = Len(executor[g]) + 1
         /\ executor'[g] # <<>>
<1>1. executor[g] \in Seq(Tasks) /\ executor'[g] = Append(executor[g], t)
  BY DEF CallType
<1>2. \A h \in Gens : h # g => executor'[h] = executor[h]
  BY DEF CallType
<1>3. Len(executor'[g]) = Len(executor[g]) + 1 /\ executor'[g] # <<>>
  BY <1>1, AppendProperties
<1>4. QED
  BY <1>1, <1>2, <1>3, AppendAt

\* An executor that is done with its first task.
LEMMA Dequeued ==
  ASSUME CallType, NEW g \in Gens, executor[g] # <<>>,
         executor' = [executor EXCEPT ![g] = Tail(executor[g])]
  PROVE  /\ \A h \in Gens : h # g => executor'[h] = executor[h]
         /\ 1 \in DOMAIN executor[g] /\ Head(executor[g]) = executor[g][1]
         /\ \A i \in DOMAIN executor'[g] :
              i + 1 \in DOMAIN executor[g] /\ i + 1 # 1
              /\ executor'[g][i] = executor[g][i + 1]
         /\ \A i \in DOMAIN executor[g] :
              i = 1 \/ \E j \in DOMAIN executor'[g] : executor'[g][j] = executor[g][i]
         /\ \A i, j \in DOMAIN executor'[g] : i + 1 = j + 1 => i = j
         /\ \A i \in DOMAIN executor'[g] : i \in Int
         /\ Len(executor'[g]) = Len(executor[g]) - 1
         /\ Len(executor[g]) \in Nat
         /\ Len(executor[g]) = 1 => executor'[g] = <<>>
<1>1. executor[g] \in Seq(Tasks) /\ executor'[g] = Tail(executor[g])
  BY DEF CallType
<1>2. \A h \in Gens : h # g => executor'[h] = executor[h]
  BY DEF CallType
<1>3. /\ 1 \in DOMAIN executor[g] /\ Head(executor[g]) = executor[g][1]
      /\ \A i \in DOMAIN Tail(executor[g]) :
           i + 1 \in DOMAIN executor[g] /\ i + 1 # 1
           /\ Tail(executor[g])[i] = executor[g][i + 1]
      /\ \A i \in DOMAIN executor[g] :
           i = 1 \/ \E j \in DOMAIN Tail(executor[g]) :
                     Tail(executor[g])[j] = executor[g][i]
      /\ \A i, j \in DOMAIN Tail(executor[g]) : i + 1 = j + 1 => i = j
      /\ \A i \in DOMAIN Tail(executor[g]) : i \in Int
      /\ Len(Tail(executor[g])) = Len(executor[g]) - 1
      /\ Len(executor[g]) \in Nat
      /\ Len(executor[g]) = 1 => Tail(executor[g]) = <<>>
  BY <1>1, TailAt
<1>4. QED
  BY <1>1, <1>2, <1>3

\* AttachInv is kept.
LEMMA AttachKept == ASSUME Inv, [Next]_vars PROVE AttachInv'
<1> USE DEF AttachInv
<1>0. CallType /\ AttachInv /\ DestroyInv /\ MaxGen \in Nat
  BY AndroidAssumption DEF Inv
<1>1. CASE Events
  BY <1>0, <1>1, EventFrame
<1>2. CASE Attach
  <2>1. /\ attached' = TRUE /\ generation' = generation + 1
        /\ generation < MaxGen /\ generation \in 0..MaxGen
        /\ \/ manager' = [manager EXCEPT ![generation'] = "up"]
           \/ handle' = 0 /\ UNCHANGED manager
        /\ UNCHANGED <<closed, executor>>
    BY <1>0, <1>2 DEF Attach, worker, CallType
  <2>2. generation' \in Gens /\ generation' > generation
    BY <1>0, <2>1 DEF Gens
  <2>3. ~closed'[generation'] /\ (handle' # 0 => manager'[generation'] = "up")
    BY <1>0, <2>1, <2>2 DEF CallType
  <2>4. ASSUME NEW g \in Gens, g > generation'
        PROVE  executor'[g] = <<>> /\ ~closed'[g] /\ manager'[g] = "none"
    <3>1. g > generation /\ g # generation'
      BY <2>1, <2>4 DEF Gens
    <3>2. manager'[g] = manager[g]
      BY <1>0, <2>1, <3>1 DEF CallType
    <3>3. QED
      BY <1>0, <2>1, <3>1, <3>2
  <2>5. QED
    BY <2>1, <2>2, <2>3, <2>4
<1>3. CASE Detach
  <2>1. generation \in Gens /\ ~closed[generation] /\ UNCHANGED <<generation, manager>>
        /\ attached' = FALSE /\ handle' = 0
        /\ closed' = [closed EXCEPT ![generation] = TRUE]
        /\ executor' = [executor EXCEPT ![generation] =
                          Append(executor[generation], DestroyTask)]
    BY <1>0, <1>3 DEF Detach, Close
  <2>2. ASSUME NEW g \in Gens, g > generation
        PROVE  executor'[g] = executor[g] /\ closed'[g] = closed[g]
    <3>1. g # generation
      BY <1>0, <2>1, <2>2 DEF Gens
    <3>2. QED
      BY <1>0, <2>1, <3>1 DEF CallType
  <2>3. QED
    BY <1>0, <2>1, <2>2
<1>4. CASE HandleAnswer
  BY <1>0, <1>4 DEF HandleAnswer, attachment, worker, sources
<1>5. ASSUME NEW c \in Calls, Finalise(c) PROVE AttachInv'
  <2>1. generation \in Gens /\ UNCHANGED <<attached, generation, handle, closed, manager>>
        /\ \/ UNCHANGED executor
           \/ executor' = [executor EXCEPT ![generation] = Append(executor[generation], c)]
    BY <1>0, <1>5 DEF Finalise, attachment, sources
  <2>2. ASSUME NEW g \in Gens, g > generation PROVE executor'[g] = executor[g]
    <3>1. g # generation
      BY <1>0, <2>1, <2>2 DEF Gens
    <3>2. QED
      BY <1>0, <2>1, <3>1 DEF CallType
  <2>3. QED
    BY <1>0, <2>1, <2>2
<1>6. ASSUME NEW g \in Gens, NEW c \in Calls, Operation(g, c) PROVE AttachInv'
  BY <1>0, <1>6 DEF Operation, attachment, worker, sources
<1>7. ASSUME NEW g \in Gens, executor[g] # <<>>,
             executor' = [executor EXCEPT ![g] = Tail(executor[g])],
             UNCHANGED <<attached, generation, handle, closed>>,
             \A h \in Gens : h = g \/ manager'[h] = manager[h],
             manager'[g] = manager[g] \/ closed[g]
      PROVE  AttachInv'
  <2>1. ~(g > generation)
    BY <1>0, <1>7
  <2>2. \A h \in Gens : h # g => executor'[h] = executor[h]
    BY <1>0, <1>7 DEF CallType
  <2>3. attached => manager'[generation] = manager[generation]
    BY <1>0, <1>7
  <2>4. QED
    BY <1>0, <1>7, <2>1, <2>2, <2>3
<1>8. ASSUME NEW g \in Gens, NEW c \in Calls, PostCompletion(g, c)
      PROVE  AttachInv'
  BY <1>7, <1>8 DEF PostCompletion, Running, attachment, sources
<1>9. ASSUME NEW g \in Gens, DestroyManager(g) PROVE AttachInv'
  <2>1. executor[g] # <<>> /\ Head(executor[g]) = DestroyTask
        /\ executor' = [executor EXCEPT ![g] = Tail(executor[g])]
        /\ manager' = [manager EXCEPT ![g] = IF @ = "up" THEN "down" ELSE @]
        /\ UNCHANGED <<attached, generation, handle, closed>>
    BY <1>9 DEF DestroyManager, Running, attachment
  <2>2. 1 \in DOMAIN executor[g] /\ executor[g][1] = DestroyTask
    BY <1>0, <2>1, Dequeued
  <2>3. closed[g]
    BY <1>0, <2>2 DEF DestroyInv
  <2>4. QED
    BY <1>0, <1>7, <2>1, <2>3 DEF CallType
<1>10. QED
  BY <1>1, <1>2, <1>3, <1>4, <1>5, <1>6, <1>8, <1>9, Cases

\* DestroyInv is kept.
LEMMA DestroyKept == ASSUME Inv, [Next]_vars PROVE DestroyInv'
<1> USE DEF DestroyInv
<1>0. CallType /\ AttachInv /\ DestroyInv /\ DestroyTask \notin Calls
  BY AndroidAssumption DEF Inv
<1>1. CASE UNCHANGED <<executor, closed, manager>>
  BY <1>0, <1>1
<1>2. CASE Attach
  <2>1. \A g \in Gens : manager'[g] = manager[g] \/ manager'[g] = "up"
    BY <1>0, <1>2 DEF Attach, CallType
  <2>2. UNCHANGED <<executor, closed>>
    BY <1>2 DEF Attach, worker
  <2>3. QED
    BY <1>0, <2>1, <2>2
<1>3. CASE Detach
  <2>1. generation \in Gens /\ ~closed[generation] /\ UNCHANGED manager
        /\ closed' = [closed EXCEPT ![generation] = TRUE]
        /\ executor' = [executor EXCEPT ![generation] =
                          Append(executor[generation], DestroyTask)]
    BY <1>0, <1>3 DEF Detach, Close, AttachInv
  <2>2. DestroyTask \in Tasks
    BY DEF Tasks
  <2>3. /\ \A h \in Gens : h # generation
             => executor'[h] = executor[h] /\ closed'[h] = closed[h]
        /\ closed'[generation]
    BY <1>0, <2>1, <2>2, Enqueued DEF CallType
  <2>4. \A i \in DOMAIN executor'[generation] :
          executor'[generation][i] = DestroyTask => i = Len(executor'[generation])
    BY <1>0, <2>1, <2>2, Enqueued
  <2>5. manager[generation] # "down"
    BY <1>0, <2>1
  <2>6. QED
    BY <1>0, <2>1, <2>3, <2>4, <2>5
<1>4. ASSUME NEW c \in Calls, Finalise(c), ~UNCHANGED executor PROVE DestroyInv'
  <2>1. generation \in Gens /\ ~closed[generation] /\ UNCHANGED <<closed, manager>>
        /\ executor' = [executor EXCEPT ![generation] = Append(executor[generation], c)]
    BY <1>0, <1>4 DEF Finalise, AttachInv, sources
  <2>2. c \in Tasks /\ c # DestroyTask
    BY <1>0 DEF Tasks
  <2>3. \A i \in DOMAIN executor'[generation] : executor'[generation][i] # DestroyTask
    BY <1>0, <2>1, <2>2, Enqueued
  <2>4. \A h \in Gens : h # generation => executor'[h] = executor[h]
    BY <1>0, <2>1, <2>2, Enqueued
  <2>5. manager[generation] # "down"
    BY <1>0, <2>1
  <2>6. QED
    BY <1>0, <2>1, <2>3, <2>4, <2>5
<1>5. ASSUME NEW g \in Gens, executor[g] # <<>>,
             executor' = [executor EXCEPT ![g] = Tail(executor[g])],
             UNCHANGED closed,
             \A h \in Gens : h = g \/ manager'[h] = manager[h],
             manager'[g] = manager[g] \/ Head(executor[g]) = DestroyTask
      PROVE  DestroyInv'
  <2>1. \A h \in Gens : h # g => executor'[h] = executor[h] /\ manager'[h] = manager[h]
    BY <1>0, <1>5, Dequeued
  <2>2. \A i \in DOMAIN executor'[g] :
          executor'[g][i] = DestroyTask => i = Len(executor'[g])
    <3>1. ASSUME NEW i \in DOMAIN executor'[g], executor'[g][i] = DestroyTask
          PROVE  i = Len(executor'[g])
      <4>1. /\ i \in Int /\ i + 1 = Len(executor[g])
            /\ Len(executor'[g]) = Len(executor[g]) - 1
        BY <1>0, <1>5, <3>1, Dequeued
      <4>2. QED
        BY <4>1
    <3>2. QED
      BY <3>1
  <2>3. ~closed'[g] => \A i \in DOMAIN executor'[g] : executor'[g][i] # DestroyTask
    BY <1>0, <1>5, Dequeued
  <2>4. CASE Head(executor[g]) = DestroyTask
    <3>a. 1 \in DOMAIN executor[g] /\ executor[g][1] = DestroyTask
      BY <1>0, <1>5, <2>4, Dequeued
    <3>b. Len(executor[g]) = 1 /\ closed[g]
      BY <1>0, <3>a
    <3>1. executor'[g] = <<>> /\ closed[g]
      BY <1>0, <1>5, <3>b, Dequeued
    <3>2. QED
      BY <1>0, <1>5, <2>1, <2>2, <2>3, <3>1
  <2>5. CASE Head(executor[g]) # DestroyTask
    <3>1. manager'[g] = manager[g] /\ manager[g] # "down"
      BY <1>0, <1>5, <2>5
    <3>2. QED
      BY <1>0, <1>5, <2>1, <2>2, <2>3, <3>1
  <2>6. QED
    BY <2>4, <2>5
<1>6. ASSUME NEW g \in Gens, NEW c \in Calls, PostCompletion(g, c)
      PROVE  DestroyInv'
  BY <1>5, <1>6 DEF PostCompletion, Running, sources
<1>7. ASSUME NEW g \in Gens, DestroyManager(g) PROVE DestroyInv'
  <2>1. \A h \in Gens : h = g \/ manager'[h] = manager[h]
    BY <1>0, <1>7 DEF DestroyManager, CallType
  <2>2. QED
    BY <1>5, <1>7, <2>1 DEF DestroyManager, Running
<1>8. Events \/ HandleAnswer \/ (\E g \in Gens, c \in Calls : Operation(g, c))
        => UNCHANGED <<executor, closed, manager>>
  BY EventFrame DEF HandleAnswer, Operation, worker, sources
<1>9. \A c \in Calls : Finalise(c) => UNCHANGED <<closed, manager>>
  BY DEF Finalise, sources
<1>10. QED
  BY <1>1, <1>2, <1>3, <1>4, <1>6, <1>7, <1>8, <1>9, Cases

(***************************************************************************)
(* Tasks                                                                   *)
(***************************************************************************)

\* A task is done: every other one is still there, in its order.
LEMMA TaskDone ==
  ASSUME Inv, NEW g \in Gens, executor[g] # <<>>,
         executor' = [executor EXCEPT ![g] = Tail(executor[g])],
         Head(executor[g]) \in Calls => outcome[Head(executor[g])] # "none",
         UNCHANGED <<took, outcome, answer>>
  PROVE  TaskInv'
<1>0. CallType
  BY DEF Inv
<1>1. \A h \in Gens : h # g => executor'[h] = executor[h]
  BY <1>0, Dequeued
<1>2. \A i \in DOMAIN executor'[g] :
        /\ i \in Int /\ i + 1 \in DOMAIN executor[g] /\ i + 1 # 1
        /\ executor'[g][i] = executor[g][i + 1]
  BY <1>0, Dequeued
<1>3. \A i \in DOMAIN executor[g] :
        executor[g][i] = Head(executor[g])
        \/ \E j \in DOMAIN executor'[g] : executor'[g][j] = executor[g][i]
  <2>1. Head(executor[g]) = executor[g][1]
    BY <1>0, Dequeued
  <2>2. \A i \in DOMAIN executor[g] :
          i = 1 \/ \E j \in DOMAIN executor'[g] : executor'[g][j] = executor[g][i]
    BY <1>0, Dequeued
  <2>3. QED
    BY <2>1, <2>2
<1> USE DEF TaskInv
<1>a. TaskInv /\ DestroyTask \notin Calls
  BY AndroidAssumption DEF Inv
<1>4. ASSUME NEW h \in Gens, NEW i \in DOMAIN executor'[h], executor'[h][i] # DestroyTask
      PROVE  /\ took[executor'[h][i]] = h /\ answer[executor'[h][i]] = "none"
             /\ i # 1 => outcome[executor'[h][i]] = "none"
  <2>1. CASE h = g
    BY <1>0, <1>a, <1>2, <1>4, <2>1
  <2>2. CASE h # g
    BY <1>0, <1>a, <1>1, <1>4, <2>2
  <2>3. QED
    BY <2>1, <2>2
<1>5. ASSUME NEW h \in Gens, NEW i \in DOMAIN executor'[h],
             NEW j \in DOMAIN executor'[h], executor'[h][i] = executor'[h][j]
      PROVE  i = j
  <2>1. CASE h = g
    <3>1. i + 1 = j + 1 /\ i \in Int /\ j \in Int
      BY <1>0, <1>a, <1>2, <1>5, <2>1
    <3>2. QED
      BY <3>1
  <2>2. CASE h # g
    BY <1>0, <1>a, <1>1, <1>5, <2>2
  <2>3. QED
    BY <2>1, <2>2
<1>6. ASSUME NEW c \in Calls, took[c] # 0, outcome[c] = "none"
      PROVE  \E i \in DOMAIN executor'[took[c]] : executor'[took[c]][i] = c
  <2>1. took[c] \in Gens /\ \E i \in DOMAIN executor[took[c]] : executor[took[c]][i] = c
    BY <1>0, <1>a, <1>6, AndroidAssumption DEF CallType, Gens
  <2>2. CASE took[c] = g
    <3>1. c # Head(executor[g])
      BY <1>6
    <3>2. QED
      BY <1>3, <2>1, <2>2, <3>1
  <2>3. CASE took[c] # g
    BY <1>1, <2>1, <2>3
  <2>4. QED
    BY <2>2, <2>3
<1>7. QED
  BY <1>0, <1>a, <1>4, <1>5, <1>6

\* A task is added that no executor has.
LEMMA TaskAdded ==
  ASSUME Inv, CallType', NEW g \in Gens, NEW t \in Tasks,
         executor' = [executor EXCEPT ![g] = Append(executor[g], t)],
         \A i \in DOMAIN executor[g] : executor[g][i] # t,
         t # DestroyTask => /\ took' = [took EXCEPT ![t] = g]
                        /\ took[t] = 0 /\ answer[t] = "none",
         t = DestroyTask => UNCHANGED took,
         UNCHANGED <<outcome, answer>>
  PROVE  TaskInv'
<1> USE DEF TaskInv
<1>0. CallType /\ TaskInv /\ DestroyTask \notin Calls
  BY AndroidAssumption DEF Inv
<1> DEFINE last == Len(executor[g]) + 1
<1>1. \A h \in Gens : h # g => executor'[h] = executor[h]
  BY <1>0, Enqueued
<1>2. /\ DOMAIN executor'[g] = DOMAIN executor[g] \union {last}
      /\ \A i \in DOMAIN executor[g] : executor'[g][i] = executor[g][i]
      /\ executor'[g][last] = t
  BY <1>0, Enqueued
<1> HIDE DEF last
<1>3. t # DestroyTask => t \in Calls /\ outcome[t] = "none"
  BY <1>0 DEF Tasks
<1>4. \A c \in Calls : c # t => took'[c] = took[c]
  BY <1>0 DEF CallType
<1>5. t # DestroyTask => took'[t] = g
  BY <1>0, <1>3 DEF CallType
<1>6. \A h \in Gens : \A i \in DOMAIN executor[h] : executor[h][i] # DestroyTask =>
        executor[h][i] \in Calls
  BY <1>0 DEF CallType, Tasks
<1>7. \A h \in Gens : \A i \in DOMAIN executor[h] : executor[h][i] # DestroyTask =>
        executor[h][i] # t
  <2>1. 0 \notin Gens
    BY DEF Gens
  <2>2. QED
    BY <1>0, <2>1
<1>8. ASSUME NEW h \in Gens, NEW i \in DOMAIN executor'[h], executor'[h][i] # DestroyTask
      PROVE  /\ took'[executor'[h][i]] = h /\ answer[executor'[h][i]] = "none"
             /\ i # 1 => outcome[executor'[h][i]] = "none"
  <2>1. CASE i \in DOMAIN executor[h] /\ executor'[h][i] = executor[h][i]
    BY <1>0, <1>4, <1>6, <1>7, <1>8, <2>1
  <2>2. CASE h = g /\ i = last
    BY <1>2, <1>3, <1>5, <1>8, <2>2
  <2>3. QED
    BY <1>1, <1>2, <2>1, <2>2
<1>9. ASSUME NEW h \in Gens, NEW i \in DOMAIN executor'[h],
             NEW j \in DOMAIN executor'[h], executor'[h][i] = executor'[h][j]
      PROVE  i = j
  <2>1. CASE h = g
    BY <1>0, <1>2, <1>9, <2>1
  <2>2. CASE h # g
    BY <1>0, <1>1, <1>9, <2>2
  <2>3. QED
    BY <2>1, <2>2
<1>10. ASSUME NEW c \in Calls, took'[c] # 0, outcome[c] = "none"
       PROVE  \E i \in DOMAIN executor'[took'[c]] : executor'[took'[c]][i] = c
  <2>1. CASE c = t
    BY <1>0, <1>2, <1>5, <2>1
  <2>2. CASE c # t
    <3>1. took'[c] = took[c] /\ took[c] \in Gens
          /\ \E i \in DOMAIN executor[took[c]] : executor[took[c]][i] = c
      BY <1>0, <1>4, <1>10, <2>2, AndroidAssumption DEF CallType, Gens
    <3>2. QED
      BY <1>1, <1>2, <3>1
  <2>3. QED
    BY <2>1, <2>2
<1>11. ASSUME NEW c \in Calls, took'[c] = 0 PROVE outcome[c] = "none"
  BY <1>0, <1>3, <1>4, <1>11
<1>12. QED
  BY <1>8, <1>9, <1>10, <1>11

\* TaskInv is kept.
LEMMA TaskKept == ASSUME Inv, [Next]_vars PROVE TaskInv'
<1>0. /\ CallType /\ AttachInv /\ DestroyInv /\ TaskInv /\ AnswerInv
      /\ DestroyTask \notin Calls /\ CallType'
  BY AndroidAssumption, CallTypeKept DEF Inv
<1>1. CASE UNCHANGED <<executor, took, outcome, answer>>
  BY <1>0, <1>1 DEF TaskInv
<1>2. Events \/ Attach => UNCHANGED <<executor, took, outcome, answer>>
  BY EventFrame DEF Attach, worker, calls
<1>3. CASE Detach
  <2>1. /\ generation \in Gens /\ ~closed[generation] /\ DestroyTask \in Tasks
        /\ executor' = [executor EXCEPT ![generation] =
                          Append(executor[generation], DestroyTask)]
        /\ UNCHANGED <<took, outcome, answer>>
    BY <1>0, <1>3 DEF Detach, Close, AttachInv, Tasks, calls
  <2>2. \A i \in DOMAIN executor[generation] : executor[generation][i] # DestroyTask
    BY <1>0, <2>1 DEF DestroyInv
  <2>3. QED
    BY <1>0, <2>1, <2>2, TaskAdded
<1>4. CASE HandleAnswer
  <2>1. /\ looper # <<>> /\ Head(looper) \in Messages /\ Head(looper).kind = "answer"
        /\ answer' = [answer EXCEPT ![Head(looper).call] = outcome[Head(looper).call]]
        /\ UNCHANGED <<executor, took, outcome>>
    BY <1>0, <1>4 DEF HandleAnswer, Handle, worker, CallType
  <2>2. Head(looper) \in Answers
    BY <2>1 DEF Messages, Metadata, Answers
  <2>3. 1 \in DOMAIN looper /\ looper[1] = Head(looper)
    BY <1>0, <2>1, TailAt DEF CallType
  <2> DEFINE c == Head(looper).call
  <2>4. \A g \in Gens : \A j \in DOMAIN executor[g] : executor[g][j] # c
    BY <1>0, <2>2, <2>3 DEF AnswerInv
  <2>5. \A d : d # c => answer'[d] = answer[d]
    BY <1>0, <2>1 DEF CallType
  <2>6. QED
    BY <1>0, <2>1, <2>4, <2>5 DEF TaskInv
<1>5. ASSUME NEW c \in Calls, Finalise(c) PROVE TaskInv'
  <2>0. Fresh(c) /\ UNCHANGED outcome /\ c \in Tasks /\ c # DestroyTask
    BY <1>0, <1>5 DEF Finalise, Tasks
  <2>1. CASE UNCHANGED <<executor, took>>
            /\ answer' = [answer EXCEPT ![c] = "unavailable"]
    <3>1. 0 \notin Gens /\ took[c] = 0
      BY <2>0 DEF Gens, Fresh
    <3>2. \A g \in Gens : \A j \in DOMAIN executor[g] : executor[g][j] # c
      BY <1>0, <2>0, <3>1 DEF TaskInv
    <3>3. \A d : d # c => answer'[d] = answer[d]
      BY <1>0, <2>1 DEF CallType
    <3>4. QED
      BY <1>0, <2>0, <2>1, <3>2, <3>3 DEF TaskInv
  <2>2. CASE /\ generation \in Gens /\ UNCHANGED answer
             /\ executor' = [executor EXCEPT ![generation] =
                               Append(executor[generation], c)]
             /\ took' = [took EXCEPT ![c] = generation]
    <3>1. 0 \notin Gens /\ took[c] = 0 /\ answer[c] = "none"
      BY <2>0 DEF Gens, Fresh
    <3>2. \A j \in DOMAIN executor[generation] : executor[generation][j] # c
      BY <1>0, <2>0, <2>2, <3>1 DEF TaskInv
    <3>3. QED
      BY <1>0, <2>0, <2>2, <3>1, <3>2, TaskAdded
  <2>3. QED
    BY <1>0, <1>5, <2>1, <2>2 DEF Finalise, AttachInv
<1>6. ASSUME NEW g \in Gens, NEW c \in Calls, Operation(g, c) PROVE TaskInv'
  <2>1. /\ executor[g] # <<>> /\ Head(executor[g]) = c
        /\ UNCHANGED <<executor, took, answer>>
        /\ \A d : d # c => outcome'[d] = outcome[d]
    BY <1>0, <1>6 DEF Operation, Running, worker, CallType
  <2>2. 1 \in DOMAIN executor[g] /\ executor[g][1] = c
    BY <1>0, <2>1, TailAt DEF CallType
  <2>3. took[c] = g /\ g # 0
    BY <1>0, <2>2 DEF TaskInv, Gens
  <2>4. \A h \in Gens : \A i \in DOMAIN executor[h] : executor[h][i] = c => i = 1
    BY <1>0, <2>2, <2>3 DEF TaskInv
  <2>5. outcome'[c] # "none"
    <3>1. "none" \notin Codes
      BY AndroidAssumption
    <3>2. QED
      BY <1>0, <1>6, <3>1 DEF Operation, CallType
  <2>6. QED
    BY <1>0, <2>1, <2>3, <2>4, <2>5 DEF TaskInv
<1>7. ASSUME NEW g \in Gens, NEW c \in Calls, PostCompletion(g, c) PROVE TaskInv'
  BY <1>7, TaskDone DEF PostCompletion, Running, calls
<1>8. ASSUME NEW g \in Gens, DestroyManager(g) PROVE TaskInv'
  BY <1>0, <1>8, TaskDone DEF DestroyManager, Running, calls
<1>9. QED
  BY <1>1, <1>2, <1>3, <1>4, <1>5, <1>6, <1>7, <1>8, Cases

(***************************************************************************)
(* Answers                                                                 *)
(***************************************************************************)

\* A looper that handled its first message, or was posted one.
LEMMA LooperTail ==
  ASSUME CallType, looper # <<>>, looper' = Tail(looper)
  PROVE  /\ 1 \in DOMAIN looper /\ Head(looper) = looper[1]
         /\ \A i \in DOMAIN looper' :
              /\ i \in Int /\ i + 1 \in DOMAIN looper /\ i + 1 # 1
              /\ looper'[i] = looper[i + 1]
<1>1. looper \in Seq(Messages)
  BY DEF CallType
<1>2. /\ 1 \in DOMAIN looper /\ Head(looper) = looper[1]
      /\ \A i \in DOMAIN Tail(looper) :
           /\ i \in Int /\ i + 1 \in DOMAIN looper /\ i + 1 # 1
           /\ Tail(looper)[i] = looper[i + 1]
  BY <1>1, TailAt
<1>3. QED
  BY <1>2

LEMMA LooperAppend ==
  ASSUME CallType, NEW m \in Messages, looper' = Append(looper, m)
  PROVE  /\ DOMAIN looper' = DOMAIN looper \union {Len(looper) + 1}
         /\ Len(looper) + 1 \notin DOMAIN looper
         /\ \A i \in DOMAIN looper : looper'[i] = looper[i]
         /\ looper'[Len(looper) + 1] = m
  BY AppendAt DEF CallType

\* What AnswerInv says of each of the answers posted, and that they differ.
Waiting(c) ==
  /\ took[c] # 0 /\ outcome[c] # "none" /\ answer[c] = "none"
  /\ \A g \in Gens : \A j \in DOMAIN executor[g] : executor[g][j] # c
Waits == \A i \in DOMAIN looper : looper[i] \in Answers => Waiting(looper[i].call)
Differ == \A i, j \in DOMAIN looper :
            looper[i] \in Answers /\ looper[i] = looper[j] => i = j

LEMMA AnswerParts == AnswerInv <=> Waits /\ Differ
  BY DEF AnswerInv, Waits, Differ, Waiting

\* The answers posted are still to be given when nothing happens to their calls
\* and the looper gets no new answer.
LEMMA AnswersWait ==
  ASSUME CallType, AnswerInv,
         \A c \in Calls : Waiting(c) => Waiting(c)',
         \/ looper' = looper
         \/ \E m \in Messages : m \notin Answers /\ looper' = Append(looper, m)
         \/ looper # <<>> /\ looper' = Tail(looper)
  PROVE  AnswerInv'
<1> USE DEF Waits, Differ
<1>0. Waits /\ Differ
  BY AnswerParts
<1>1. \A a \in Answers : a.call \in Calls
  BY DEF Answers
<1>2. CASE looper' = looper
  <2>1. Waits' /\ Differ'
    BY <1>0, <1>1, <1>2
  <2>2. QED
    BY <2>1, AnswerParts DEF AnswerInv, Waiting
<1>3. ASSUME NEW m \in Messages, m \notin Answers, looper' = Append(looper, m)
      PROVE  AnswerInv'
  <2>1. Waits' /\ Differ'
    BY <1>0, <1>1, <1>3, LooperAppend
  <2>2. QED
    BY <2>1 DEF AnswerInv, Waiting
<1>4. CASE looper # <<>> /\ looper' = Tail(looper)
  <2>1. \A i \in DOMAIN looper' :
          /\ i \in Int /\ i + 1 \in DOMAIN looper /\ looper'[i] = looper[i + 1]
    BY <1>4, LooperTail
  <2>2. Waits'
    BY <1>0, <1>1, <2>1
  <2>3. ASSUME NEW i \in DOMAIN looper', NEW j \in DOMAIN looper',
               looper'[i] \in Answers, looper'[i] = looper'[j]
        PROVE  i = j
    <3>1. i + 1 = j + 1 /\ i \in Int /\ j \in Int
      BY <1>0, <2>1, <2>3
    <3>2. QED
      BY <3>1
  <2>4. QED
    BY <2>2, <2>3 DEF AnswerInv, Waiting
<1>5. QED
  BY <1>2, <1>3, <1>4

\* AnswerInv is kept.
LEMMA AnswerKept == ASSUME Inv, [Next]_vars PROVE AnswerInv'
<1> USE DEF Waiting
<1>0. /\ CallType /\ AttachInv /\ TaskInv /\ AnswerInv /\ DestroyTask \notin Calls
      /\ CallType'
  BY AndroidAssumption, CallTypeKept DEF Inv
<1>1. CASE Events
  <2>1. \A c \in Calls : Waiting(c) => Waiting(c)'
    BY <1>1, EventFrame
  <2>2. QED
    BY <1>0, <1>1, <2>1, EventLooper, AnswersWait
<1>2. CASE Attach
  BY <1>0, <1>2, AnswersWait DEF Attach, worker, calls
<1>3. CASE Detach
  <2>1. /\ generation \in Gens /\ DestroyTask \in Tasks
        /\ executor' = [executor EXCEPT ![generation] =
                          Append(executor[generation], DestroyTask)]
        /\ UNCHANGED <<looper, took, outcome, answer>>
    BY <1>0, <1>3 DEF Detach, Close, AttachInv, Tasks, calls
  <2>2. \A c \in Calls : Waiting(c) => Waiting(c)'
    BY <1>0, <2>1, Enqueued
  <2>3. QED
    BY <1>0, <2>1, <2>2, AnswersWait
<1>4. CASE HandleAnswer
  <2>1. /\ looper # <<>> /\ Head(looper) \in Messages /\ Head(looper).kind = "answer"
        /\ looper' = Tail(looper)
        /\ answer' = [answer EXCEPT ![Head(looper).call] = outcome[Head(looper).call]]
        /\ UNCHANGED <<executor, took, outcome>>
    BY <1>0, <1>4 DEF HandleAnswer, Handle, worker, CallType
  <2>2. Head(looper) \in Answers
    BY <2>1 DEF Messages, Metadata, Answers
  <2> DEFINE c == Head(looper).call
  <2>3. \A d : d # c => answer'[d] = answer[d]
    BY <1>0, <2>1 DEF CallType
  <2>4. /\ 1 \in DOMAIN looper /\ Head(looper) = looper[1]
        /\ \A i \in DOMAIN looper' :
             /\ i \in Int /\ i + 1 \in DOMAIN looper /\ i + 1 # 1
             /\ looper'[i] = looper[i + 1]
    BY <1>0, <2>1, LooperTail
  <2>5. \A a, b \in Answers : a.call = b.call => a = b
    BY DEF Answers
  <2>6. \A i \in DOMAIN looper' : looper'[i] \in Answers => looper'[i].call # c
    <3>1. ASSUME NEW i \in DOMAIN looper', looper'[i] \in Answers, looper'[i].call = c
          PROVE  FALSE
      <4>1. looper[i + 1] = looper[1]
        BY <2>2, <2>4, <2>5, <3>1
      <4>2. QED
        BY <1>0, <2>2, <2>4, <4>1 DEF AnswerInv
    <3>2. QED
      BY <3>1
  <2>7. Waits /\ Differ
    BY <1>0, AnswerParts
  <2>8. Waits'
    <3>1. \A d \in Calls : d # c /\ Waiting(d) => Waiting(d)'
      BY <2>1, <2>3
    <3>2. \A a \in Answers : a.call \in Calls
      BY DEF Answers
    <3>3. QED
      BY <2>4, <2>6, <2>7, <3>1, <3>2 DEF Waits
  <2>9. ASSUME NEW i \in DOMAIN looper', NEW j \in DOMAIN looper',
               looper'[i] \in Answers, looper'[i] = looper'[j]
        PROVE  i = j
    <3>1. i + 1 = j + 1 /\ i \in Int /\ j \in Int
      BY <2>4, <2>7, <2>9 DEF Differ
    <3>2. QED
      BY <3>1
  <2>10. QED
    BY <2>8, <2>9 DEF AnswerInv, Waits
<1>5. ASSUME NEW c \in Calls, Finalise(c) PROVE AnswerInv'
  <2>0. Fresh(c) /\ UNCHANGED <<outcome, looper>> /\ c \in Tasks /\ took[c] = 0
    BY <1>5 DEF Finalise, Tasks, Fresh
  <2>1. CASE UNCHANGED <<executor, took>>
            /\ answer' = [answer EXCEPT ![c] = "unavailable"]
    <3>1. \A d : d # c => answer'[d] = answer[d]
      BY <1>0, <2>1 DEF CallType
    <3>2. \A d \in Calls : Waiting(d) => Waiting(d)'
      BY <2>0, <2>1, <3>1
    <3>3. QED
      BY <1>0, <2>0, <3>2, AnswersWait
  <2>2. CASE /\ generation \in Gens /\ UNCHANGED answer
             /\ executor' = [executor EXCEPT ![generation] =
                               Append(executor[generation], c)]
             /\ took' = [took EXCEPT ![c] = generation]
    <3>1. \A d : d # c => took'[d] = took[d]
      BY <1>0, <2>2 DEF CallType
    <3>2. \A d \in Calls : Waiting(d) => Waiting(d)'
      BY <1>0, <2>0, <2>2, <3>1, Enqueued
    <3>3. QED
      BY <1>0, <2>0, <3>2, AnswersWait
  <2>3. QED
    BY <1>0, <1>5, <2>1, <2>2 DEF Finalise, AttachInv
<1>6. ASSUME NEW g \in Gens, NEW c \in Calls, Operation(g, c) PROVE AnswerInv'
  <2>1. /\ UNCHANGED <<executor, looper, took, answer>>
        /\ \A d : d # c => outcome'[d] = outcome[d]
        /\ outcome[c] = "none"
    BY <1>0, <1>6 DEF Operation, worker, CallType
  <2>2. \A d \in Calls : Waiting(d) => Waiting(d)'
    BY <2>1
  <2>3. QED
    BY <1>0, <2>1, <2>2, AnswersWait
<1>7. ASSUME NEW g \in Gens, NEW c \in Calls, PostCompletion(g, c) PROVE AnswerInv'
  <2> DEFINE m == [kind |-> "answer", call |-> c]
  <2>1. /\ executor[g] # <<>> /\ Head(executor[g]) = c /\ outcome[c] # "none"
        /\ executor' = [executor EXCEPT ![g] = Tail(executor[g])]
        /\ looper' = Append(looper, m)
        /\ UNCHANGED <<took, outcome, answer>>
    BY <1>7 DEF PostCompletion, Running, calls
  <2>2. /\ \A h \in Gens : h # g => executor'[h] = executor[h]
        /\ 1 \in DOMAIN executor[g] /\ executor[g][1] = c
        /\ \A i \in DOMAIN executor'[g] :
              i + 1 \in DOMAIN executor[g] /\ i + 1 # 1
              /\ executor'[g][i] = executor[g][i + 1]
    BY <1>0, <2>1, Dequeued
  <2>3. took[c] = g /\ answer[c] = "none" /\ c # DestroyTask /\ g # 0
    BY <1>0, <2>2 DEF TaskInv, Gens
  <2>4. \A h \in Gens : \A j \in DOMAIN executor'[h] : executor'[h][j] # c
    <3>1. \A h \in Gens : h # g => \A j \in DOMAIN executor[h] : executor[h][j] # c
      BY <1>0, <2>3 DEF TaskInv
    <3>2. \A j \in DOMAIN executor[g] : executor[g][j] = c => j = 1
      BY <1>0, <2>2 DEF TaskInv
    <3>3. QED
      BY <2>2, <3>1, <3>2
  <2>5. Waiting(c)'
    BY <2>1, <2>3, <2>4
  <2>6. \A d \in Calls : Waiting(d) => d # c /\ Waiting(d)'
    BY <2>1, <2>2
  <2>7. m \in Messages /\ m \in Answers /\ m.call = c
    BY DEF Messages, Answers
  <2>8. /\ DOMAIN looper' = DOMAIN looper \union {Len(looper) + 1}
        /\ \A i \in DOMAIN looper : looper'[i] = looper[i]
        /\ looper'[Len(looper) + 1] = m
    BY <1>0, <2>1, <2>7, LooperAppend
  <2>9. \A a \in Answers : a.call \in Calls
    BY DEF Answers
  <2>a. Waits
    BY <1>0, AnswerParts
  <2>b. \A i \in DOMAIN looper : looper[i] \in Answers =>
          looper[i].call \in Calls /\ Waiting(looper[i].call)
    BY <2>9, <2>a DEF Waits
  <2> HIDE DEF m
  <2>10. \A i \in DOMAIN looper : looper[i] # m
    BY <2>6, <2>7, <2>b
  <2>11. Waits'
    BY <2>5, <2>6, <2>7, <2>8, <2>b DEF Waits
  <2>12. \A i, j \in DOMAIN looper' :
           looper'[i] \in Answers /\ looper'[i] = looper'[j] => i = j
    BY <1>0, <2>8, <2>10 DEF AnswerInv
  <2>13. QED
    BY <2>11, <2>12 DEF AnswerInv, Waits
<1>8. ASSUME NEW g \in Gens, DestroyManager(g) PROVE AnswerInv'
  <2>1. /\ executor[g] # <<>>
        /\ executor' = [executor EXCEPT ![g] = Tail(executor[g])]
        /\ UNCHANGED <<looper, took, outcome, answer>>
    BY <1>8 DEF DestroyManager, Running, calls
  <2>2. /\ \A h \in Gens : h # g => executor'[h] = executor[h]
        /\ \A i \in DOMAIN executor'[g] :
              i + 1 \in DOMAIN executor[g] /\ executor'[g][i] = executor[g][i + 1]
    BY <1>0, <2>1, Dequeued
  <2>3. \A d \in Calls : Waiting(d) => Waiting(d)'
    BY <2>1, <2>2
  <2>4. QED
    BY <1>0, <2>1, <2>3, AnswersWait
<1>9. QED
  BY <1>1, <1>2, <1>3, <1>4, <1>5, <1>6, <1>7, <1>8, Cases

(***************************************************************************)
(* The invariant                                                           *)
(***************************************************************************)

LEMMA InvInit == Init => Inv
<1> SUFFICES ASSUME Init PROVE Inv
  OBVIOUS
<1> USE AndroidAssumption DEF Init
<1>1. CallType
  <2>1. <<>> \in Seq(Tasks) /\ <<>> \in Seq(Messages)
    BY EmptySeq
  <2>2. executor \in [Gens -> Seq(Tasks)] /\ looper \in Seq(Messages)
    BY <2>1
  <2>3. generation \in 0..MaxGen /\ took \in [Calls -> 0..MaxGen]
    OBVIOUS
  <2>4. /\ closed \in [Gens -> BOOLEAN]
        /\ manager \in [Gens -> {"none", "up", "down"}]
        /\ outcome \in [Calls -> Codes \union {"none"}]
        /\ answer \in [Calls -> Codes \union {"none", "unavailable"}]
    OBVIOUS
  <2>5. handle \in {0, generation} /\ sent \in Int
    OBVIOUS
  <2>6. attached \in BOOLEAN
    BY Zenon
  <2>7. QED
    BY <2>2, <2>3, <2>4, <2>5, <2>6 DEF CallType
<1>2. DOMAIN looper = {} /\ \A g \in Gens : executor[g] = <<>> /\ DOMAIN executor[g] = {}
  OBVIOUS
<1>3. AttachInv /\ DestroyInv
  BY <1>2 DEF AttachInv, DestroyInv
<1>4. TaskInv
  BY <1>2 DEF TaskInv
<1>5. AnswerInv
  BY <1>2 DEF AnswerInv
<1>6. QED
  BY <1>1, <1>3, <1>4, <1>5 DEF Inv

\* A call that was taken on is in one place at a time: in the executor of its
\* attachment, posted to the looper, or answered (NativeFinaliseWorker.submit,
\* close and complete of SimpleTorrentPlugin.kt).
THEOREM InvCorrect == Spec => []Inv
<1>1. Inv /\ [Next]_vars => Inv'
  BY CallTypeKept, AttachKept, DestroyKept, TaskKept, AnswerKept DEF Inv
<1>2. QED
  BY <1>1, InvInit, PTL DEF Spec

(***************************************************************************)
(* What AcceptedIsAnswered and ManagerGoes rest on: nothing is left that   *)
(* no thread will come to                                                  *)
(***************************************************************************)

AnswerTo(c) == [kind |-> "answer", call |-> c]

\* A call that was taken on and is not answered is in the executor of its
\* attachment or posted to the looper, and a manager that is up belongs to the
\* attachment going on or has its destruction queued.
NothingStranded ==
  /\ \A c \in Calls :
       took[c] # 0 /\ answer[c] = "none"
         => Holds(executor[took[c]], c) \/ Holds(looper, AnswerTo(c))
  /\ \A g \in Gens :
       manager[g] = "up" => (attached /\ g = generation) \/ Holds(executor[g], DestroyTask)

\* The queues by what happens to them.
LEMMA StillQueued ==
  ASSUME CallType, NEW g \in Gens, NEW t \in Tasks,
         executor' = [executor EXCEPT ![g] = Append(executor[g], t)]
  PROVE  /\ Holds(executor'[g], t)
         /\ \A h \in Gens : \A u : Holds(executor[h], u) => Holds(executor'[h], u)
<1>1. executor[g] \in Seq(Tasks)
  BY DEF CallType
<1>2. \A h \in Gens :
        executor'[h] = IF h = g THEN Append(executor[g], t) ELSE executor[h]
  BY DEF CallType
<1>3. QED
  BY <1>1, <1>2, HoldsAppend

LEMMA OthersQueued ==
  ASSUME CallType, NEW g \in Gens, executor[g] # <<>>,
         executor' = [executor EXCEPT ![g] = Tail(executor[g])]
  PROVE  \A h \in Gens : \A u : Holds(executor[h], u) =>
           Holds(executor'[h], u) \/ (h = g /\ u = Head(executor[g]))
<1>1. executor[g] \in Seq(Tasks)
  BY DEF CallType
<1>2. \A h \in Gens :
        executor'[h] = IF h = g THEN Tail(executor[g]) ELSE executor[h]
  BY DEF CallType
<1>3. \A u : Holds(executor[g], u) =>
        u = Head(executor[g]) \/ Holds(Tail(executor[g]), u)
  BY <1>1, HoldsTail
<1>4. ASSUME NEW h \in Gens, NEW u, Holds(executor[h], u)
      PROVE  Holds(executor'[h], u) \/ (h = g /\ u = Head(executor[g]))
  <2>1. CASE h = g
    <3>1. executor'[h] = Tail(executor[g])
      BY <1>2, <2>1
    <3>2. QED
      BY <1>3, <1>4, <2>1, <3>1
  <2>2. CASE h # g
    <3>1. executor'[h] = executor[h]
      BY <1>2, <2>2
    <3>2. QED
      BY <1>4, <3>1
  <2>3. QED
    BY <2>1, <2>2
<1>5. QED
  BY <1>4

LEMMA StillPosted ==
  ASSUME CallType, NEW m \in Messages, looper' = Append(looper, m)
  PROVE  Holds(looper', m) /\ \A x : Holds(looper, x) => Holds(looper', x)
  BY HoldsAppend DEF CallType

LEMMA OthersPosted ==
  ASSUME CallType, looper # <<>>, looper' = Tail(looper)
  PROVE  \A x : Holds(looper, x) => Holds(looper', x) \/ x = Head(looper)
  BY HoldsTail DEF CallType

LEMMA StrandedKept ==
  ASSUME Inv, NothingStranded, [Next]_vars PROVE NothingStranded'
<1> USE DEF NothingStranded
<1>0. /\ CallType /\ AttachInv /\ AnswerInv /\ TaskInv
      /\ DestroyTask \notin Calls /\ MaxGen \in Nat
  BY AndroidAssumption DEF Inv
<1>1. \A c \in Calls : took[c] # 0 => took[c] \in Gens
  BY <1>0 DEF CallType, Gens
<1>2. ASSUME Events PROVE NothingStranded'
  <2>1. UNCHANGED <<attached, generation, executor, manager, took, answer>>
    BY <1>2, EventFrame
  <2>2. ASSUME NEW c \in Calls, Holds(looper, AnswerTo(c))
        PROVE  Holds(looper', AnswerTo(c))
    <3>1. CASE looper' = looper
      BY <2>2, <3>1
    <3>2. ASSUME NEW m \in Messages, looper' = Append(looper, m)
          PROVE  Holds(looper', AnswerTo(c))
      BY <1>0, <2>2, <3>2, StillPosted
    <3>3. CASE HandleStats \/ HandleMetadata
      <4>1. looper # <<>> /\ looper' = Tail(looper) /\ Head(looper).kind # "answer"
        BY <3>3 DEF HandleStats, HandleMetadata, Handle
      <4>2. Head(looper) # AnswerTo(c)
        BY <4>1 DEF AnswerTo
      <4>3. QED
        BY <1>0, <2>2, <4>1, <4>2, OthersPosted
    <3>4. CASE Listeners \/ UNCHANGED vars
      BY <3>1, <3>4 DEF Listeners, ListenProgress, ListenMetadata,
         CancelProgress, CancelMetadata, vars
    <3>5. ASSUME NEW g \in Gens, DispatchStats(g) PROVE Holds(looper', AnswerTo(c))
      <4>1. looper' = Append(looper, [kind |-> "stats", number |-> sent + 1])
        BY <3>5 DEF DispatchStats
      <4>2. [kind |-> "stats", number |-> sent + 1] \in Messages
        BY <1>0 DEF Messages, CallType
      <4>3. QED
        BY <3>2, <4>1, <4>2
    <3>6. ASSUME NEW g \in Gens, NEW id \in Ids, DispatchMetadata(g, id)
          PROVE  Holds(looper', AnswerTo(c))
      <4>1. looper' = Append(looper, [kind |-> "metadata", gen |-> g, id |-> id])
        BY <3>6 DEF DispatchMetadata
      <4>2. [kind |-> "metadata", gen |-> g, id |-> id] \in Messages
        BY DEF Messages, Metadata
      <4>3. QED
        BY <3>2, <4>1, <4>2
    <3>7. QED
      BY <1>2, <3>3, <3>4, <3>5, <3>6 DEF Events
  <2>3. QED
    BY <2>1, <2>2
<1>3. CASE Attach
  <2>1. /\ ~attached /\ attached' /\ generation' = generation + 1
        /\ \/ manager' = [manager EXCEPT ![generation'] = "up"]
           \/ UNCHANGED manager
        /\ UNCHANGED <<executor, looper, took, answer>>
    BY <1>3 DEF Attach, worker, calls
  <2>2. \A g \in Gens : g # generation' => manager'[g] = manager[g]
    BY <1>0, <2>1 DEF CallType
  <2>3. \A g \in Gens : manager'[g] = "up" => g = generation' \/ Holds(executor[g], DestroyTask)
    BY <2>1, <2>2
  <2>4. QED
    BY <2>1, <2>3
<1>4. CASE Detach
  <2>1. /\ generation \in Gens /\ DestroyTask \in Tasks
        /\ executor' = [executor EXCEPT ![generation] =
                          Append(executor[generation], DestroyTask)]
        /\ UNCHANGED <<looper, took, answer, manager>>
    BY <1>0, <1>4 DEF Detach, Close, AttachInv, Tasks, calls
  <2>2. Holds(executor'[generation], DestroyTask)
        /\ \A h \in Gens : \A u : Holds(executor[h], u) => Holds(executor'[h], u)
    BY <1>0, <2>1, StillQueued
  <2>3. QED
    BY <1>1, <2>1, <2>2, <1>4 DEF Detach
<1>5. CASE HandleAnswer
  <2>1. /\ looper # <<>> /\ looper' = Tail(looper) /\ Head(looper) \in Messages
        /\ Head(looper).kind = "answer"
        /\ answer' = [answer EXCEPT ![Head(looper).call] = outcome[Head(looper).call]]
        /\ UNCHANGED <<attached, generation, executor, manager, took>>
    BY <1>0, <1>5 DEF HandleAnswer, Handle, attachment, worker, sources, CallType
  <2>2. Head(looper) \in Answers
    BY <2>1 DEF Messages, Metadata, Answers
  <2>3. 1 \in DOMAIN looper /\ looper[1] = Head(looper)
    BY <1>0, <2>1, LooperTail
  <2> DEFINE d == Head(looper).call
  <2>4. d \in Calls /\ outcome[d] # "none"
    BY <1>0, <2>2, <2>3 DEF AnswerInv, Answers
  <2>5. ASSUME NEW c \in Calls, answer'[c] = "none" PROVE c # d /\ answer[c] = "none"
    BY <1>0, <2>1, <2>4, <2>5 DEF CallType
  <2>6. ASSUME NEW c \in Calls, c # d, Holds(looper, AnswerTo(c))
        PROVE  Holds(looper', AnswerTo(c))
    <3>1. Head(looper) # AnswerTo(c)
      BY <2>6 DEF AnswerTo
    <3>2. QED
      BY <1>0, <2>1, <2>6, <3>1, OthersPosted
  <2> HIDE DEF d
  <2>7. QED
    BY <2>1, <2>5, <2>6
<1>6. ASSUME NEW c \in Calls, Finalise(c) PROVE NothingStranded'
  <2>0. took[c] = 0 /\ c \in Tasks
        /\ UNCHANGED <<attached, generation, manager, looper>>
    BY <1>6 DEF Finalise, Fresh, attachment, sources, Tasks
  <2>1. CASE UNCHANGED <<executor, took>>
             /\ answer' = [answer EXCEPT ![c] = "unavailable"]
    <3>1. \A d \in Calls : d # c => answer'[d] = answer[d]
      BY <1>0, <2>1 DEF CallType
    <3>2. QED
      BY <2>0, <2>1, <3>1
  <2>2. CASE /\ generation \in Gens /\ UNCHANGED answer
             /\ executor' = [executor EXCEPT ![generation] =
                               Append(executor[generation], c)]
             /\ took' = [took EXCEPT ![c] = generation]
    <3>1. Holds(executor'[generation], c)
          /\ \A h \in Gens : \A u : Holds(executor[h], u) => Holds(executor'[h], u)
      BY <1>0, <2>0, <2>2, StillQueued
    <3>2. took'[c] = generation /\ \A d \in Calls : d # c => took'[d] = took[d]
      BY <1>0, <2>2 DEF CallType
    <3>3. ASSUME NEW d \in Calls, took'[d] # 0, answer'[d] = "none"
          PROVE  Holds(executor'[took'[d]], d) \/ Holds(looper', AnswerTo(d)) \/ d = c
      BY <1>1, <2>0, <2>2, <3>1, <3>2, <3>3
    <3>4. \A d \in Calls : took'[d] # 0 /\ answer'[d] = "none"
            => Holds(executor'[took'[d]], d) \/ Holds(looper', AnswerTo(d))
      BY <3>1, <3>2, <3>3
    <3>5. QED
      BY <2>0, <3>1, <3>4
  <2>3. QED
    BY <1>0, <1>6, <2>1, <2>2 DEF Finalise, AttachInv
<1>7. ASSUME NEW g \in Gens, NEW c \in Calls, Operation(g, c) PROVE NothingStranded'
  BY <1>7 DEF Operation, attachment, worker, sources
<1>8. ASSUME NEW g \in Gens, NEW c \in Calls, PostCompletion(g, c)
      PROVE  NothingStranded'
  <2>1. /\ executor[g] # <<>> /\ Head(executor[g]) = c
        /\ executor' = [executor EXCEPT ![g] = Tail(executor[g])]
        /\ looper' = Append(looper, AnswerTo(c))
        /\ UNCHANGED <<attached, generation, manager, took, answer>>
    BY <1>8 DEF PostCompletion, Running, AnswerTo, attachment, sources, calls
  <2>2. AnswerTo(c) \in Messages
    BY DEF Messages, Answers, AnswerTo
  <2>3. /\ Holds(looper', AnswerTo(c))
        /\ \A d : Holds(looper, AnswerTo(d)) => Holds(looper', AnswerTo(d))
    BY <1>0, <2>1, <2>2, StillPosted
  <2>4. \A h \in Gens : \A u : Holds(executor[h], u) => Holds(executor'[h], u) \/ u = c
    BY <1>0, <2>1, OthersQueued
  <2>5. \A d \in Calls : took[d] # 0 /\ answer[d] = "none"
          => Holds(executor'[took'[d]], d) \/ Holds(looper', AnswerTo(d))
    BY <1>1, <2>1, <2>3, <2>4
  <2>6. QED
    BY <1>0, <2>1, <2>4, <2>5
<1>9. ASSUME NEW g \in Gens, DestroyManager(g) PROVE NothingStranded'
  <2>1. /\ executor[g] # <<>> /\ Head(executor[g]) = DestroyTask
        /\ executor' = [executor EXCEPT ![g] = Tail(executor[g])]
        /\ UNCHANGED <<attached, generation, looper, took, answer>>
    BY <1>9 DEF DestroyManager, Running, attachment, calls
  <2>2. manager'[g] # "up" /\ \A h \in Gens : h # g => manager'[h] = manager[h]
    BY <1>0, <1>9 DEF DestroyManager, CallType
  <2>3. \A h \in Gens : \A u :
          Holds(executor[h], u) => Holds(executor'[h], u) \/ (h = g /\ u = DestroyTask)
    BY <1>0, <2>1, OthersQueued
  <2>4. \A d \in Calls : took[d] # 0 /\ answer[d] = "none"
          => Holds(executor'[took'[d]], d) \/ Holds(looper', AnswerTo(d))
    BY <1>0, <1>1, <2>1, <2>3
  <2>5. QED
    BY <2>1, <2>2, <2>3, <2>4
<1>10. QED
  BY <1>2, <1>3, <1>4, <1>5, <1>6, <1>7, <1>8, <1>9, Cases

\* At every moment, over all attachments, whatever is still owed is in a queue
\* that some thread will serve: the answer to an accepted call, and the
\* destruction of a manager whose attachment is over (NativeFinaliseWorker,
\* onDetachedFromEngine).
THEOREM NothingStrandedCorrect == Spec => []NothingStranded
<1>1. Init => NothingStranded
  BY DEF Init, NothingStranded
<1>2. Inv /\ NothingStranded /\ [Next]_vars => NothingStranded'
  BY StrandedKept
<1>3. QED
  BY <1>1, <1>2, InvCorrect, PTL DEF Spec

\* A call that was taken on is told what its own native finalise returned, and
\* nothing else, also when its attachment is over.
ToldOwnCode == \A c \in Calls : took[c] # 0 => answer[c] \in {"none", outcome[c]}

LEMMA OwnCodeKept == ASSUME Inv, ToldOwnCode, [Next]_vars PROVE ToldOwnCode'
<1> USE DEF ToldOwnCode
<1>0. CallType /\ TaskInv /\ DestroyTask \notin Calls
  BY AndroidAssumption DEF Inv
<1>1. CASE UNCHANGED <<took, outcome, answer>>
  BY <1>1
<1>2. CASE HandleAnswer
  BY <1>0, <1>2 DEF HandleAnswer, CallType
<1>3. ASSUME NEW c \in Calls, Finalise(c) PROVE ToldOwnCode'
  BY <1>0, <1>3 DEF Finalise, Fresh, CallType
<1>4. ASSUME NEW g \in Gens, NEW c \in Calls, Operation(g, c) PROVE ToldOwnCode'
  <2>1. /\ executor[g] # <<>> /\ Head(executor[g]) = c
        /\ UNCHANGED <<took, answer>>
        /\ \A d \in Calls : d # c => outcome'[d] = outcome[d]
    BY <1>0, <1>4 DEF Operation, Running, CallType
  <2>2. 1 \in DOMAIN executor[g] /\ executor[g][1] = c
    BY <1>0, <2>1, TailAt DEF CallType
  <2>3. answer[c] = "none"
    BY <1>0, <2>2 DEF TaskInv
  <2>4. QED
    BY <2>1, <2>3
<1>5. Events \/ Attach \/ Detach => UNCHANGED <<took, outcome, answer>>
  BY EventFrame DEF Attach, Detach, calls
<1>6. \A g \in Gens :
        /\ DestroyManager(g) => UNCHANGED <<took, outcome, answer>>
        /\ \A c \in Calls : PostCompletion(g, c) => UNCHANGED <<took, outcome, answer>>
  BY DEF DestroyManager, PostCompletion, calls
<1>7. QED
  BY <1>1, <1>2, <1>3, <1>4, <1>5, <1>6, Cases

\* Whatever is attached and detached meanwhile, the application is told the code
\* of the finalise it asked for, or has still to wait for it (complete, in
\* finalise).
THEOREM ToldOwnCodeCorrect == Spec => []ToldOwnCode
<1>1. Init => ToldOwnCode
  BY DEF Init, ToldOwnCode
<1>2. Inv /\ ToldOwnCode /\ [Next]_vars => ToldOwnCode'
  BY OwnCodeKept
<1>3. QED
  BY <1>1, <1>2, InvCorrect, PTL DEF Spec

LEMMA InitMaps == Init => \A g \in Gens : Abstract(g)!AInit
<1> SUFFICES ASSUME Init, NEW g \in Gens PROVE Abstract(g)!AInit
  OBVIOUS
<1>1. g # 0
  BY DEF Gens
<1>2. QED
  BY <1>1 DEF Init, Abstract!AInit

\* An attachment sees of the steps those that are about its own calls and its
\* own manager, and every refusal.
LEMMA Stutter ==
  ASSUME NEW h \in Gens,
         (manager'[h] = "down") <=> (manager[h] = "down"),
         \A c \in Calls :
           /\ (took'[c] = h) <=> (took[c] = h)
           /\ took[c] = h => outcome'[c] = outcome[c]
           /\ (IF took'[c] \in {0, h} THEN answer'[c] ELSE "none")
              = (IF took[c] \in {0, h} THEN answer[c] ELSE "none")
  PROVE  UNCHANGED Abstract(h)!avars
<1>1. {c \in Calls : took'[c] = h} = {c \in Calls : took[c] = h}
  OBVIOUS
<1>2. [c \in Calls |-> IF took'[c] = h THEN outcome'[c] ELSE "none"]
      = [c \in Calls |-> IF took[c] = h THEN outcome[c] ELSE "none"]
  OBVIOUS
<1>3. [c \in Calls |-> IF took'[c] \in {0, h} THEN answer'[c] ELSE "none"]
      = [c \in Calls |-> IF took[c] \in {0, h} THEN answer[c] ELSE "none"]
  OBVIOUS
<1>4. QED
  BY <1>1, <1>2, <1>3 DEF Abstract!avars

LEMMA StepMaps ==
  ASSUME Inv, [Next]_vars, NEW h \in Gens
  PROVE  Abstract(h)!ANext \/ UNCHANGED Abstract(h)!avars
<1>0. /\ CallType /\ AttachInv /\ DestroyInv /\ TaskInv /\ AnswerInv
      /\ DestroyTask \notin Calls /\ h # 0
  BY AndroidAssumption DEF Inv, Gens
<1>1. CASE /\ (manager'[h] = "down") <=> (manager[h] = "down")
           /\ UNCHANGED <<took, outcome, answer>>
  BY <1>1, Stutter
<1>2. CASE Events
  BY <1>1, <1>2, EventFrame
<1>3. CASE Attach
  <2>1. generation + 1 \in Gens /\ manager[generation + 1] = "none"
    BY <1>0, <1>3, AndroidAssumption DEF Attach, CallType, AttachInv, Gens
  <2>2. PICK g \in Gens : g = generation + 1
    BY <2>1
  <2>3. manager' = manager \/ manager' = [manager EXCEPT ![g] = "up"]
    BY <1>3, <2>2 DEF Attach
  <2>4. manager'[h] = manager[h] \/ (manager[h] = "none" /\ manager'[h] = "up")
    <3>1. CASE manager' = manager
      BY <3>1
    <3>2. CASE manager' = [manager EXCEPT ![g] = "up"]
      BY <1>0, <2>1, <2>2, <3>2 DEF CallType
    <3>3. QED
      BY <2>3, <3>1, <3>2
  <2>5. QED
    BY <1>1, <1>3, <2>4 DEF Attach, calls
<1>4. CASE Detach
  BY <1>1, <1>4 DEF Detach, Close, calls
<1>5. ASSUME NEW g \in Gens, NEW c \in Calls, PostCompletion(g, c)
      PROVE  Abstract(h)!ANext \/ UNCHANGED Abstract(h)!avars
  BY <1>1, <1>5 DEF PostCompletion, sources, calls
<1>6. ASSUME NEW c \in Calls, Finalise(c)
      PROVE  Abstract(h)!ANext \/ UNCHANGED Abstract(h)!avars
  <2>0. took[c] = 0 /\ answer[c] = "none" /\ outcome[c] = "none"
        /\ UNCHANGED <<outcome, manager>>
    BY <1>0, <1>6 DEF Finalise, Fresh, TaskInv, sources
  <2>1. CASE UNCHANGED took /\ answer' = [answer EXCEPT ![c] = "unavailable"]
    <3>1. Abstract(h)!Refuse(c)
      BY <1>0, <2>0, <2>1 DEF CallType, Abstract!Refuse, Abstract!Fresh
    <3>2. QED
      BY <3>1 DEF Abstract!ANext
  <2>2. CASE /\ handle # 0 /\ attached /\ UNCHANGED answer
             /\ took' = [took EXCEPT ![c] = generation]
    <3>1. generation \in Gens /\ manager[generation] = "up"
          /\ took'[c] = generation /\ \A d : d # c => took'[d] = took[d]
      BY <1>0, <2>2 DEF AttachInv, CallType
    <3>2. CASE generation = h
      <4>1. {d \in Calls : took'[d] = h} = {d \in Calls : took[d] = h} \union {c}
        BY <3>1, <3>2
      <4>2. [d \in Calls |-> IF took'[d] = h THEN outcome'[d] ELSE "none"]
            = [d \in Calls |-> IF took[d] = h THEN outcome[d] ELSE "none"]
        BY <2>0, <3>1
      <4>3. [d \in Calls |-> IF took'[d] \in {0, h} THEN answer'[d] ELSE "none"]
            = [d \in Calls |-> IF took[d] \in {0, h} THEN answer[d] ELSE "none"]
        BY <2>0, <2>2, <3>1
      <4>4. Abstract(h)!Accept(c)
        BY <1>0, <2>0, <3>1, <3>2, <4>1, <4>2, <4>3
           DEF Abstract!Accept, Abstract!Fresh
      <4>5. QED
        BY <4>4 DEF Abstract!ANext
    <3>3. CASE generation # h
      <4>1. \A d \in Calls : (took'[d] = h) <=> (took[d] = h)
        BY <1>0, <2>0, <3>1, <3>3
      <4>2. \A d \in Calls :
              (IF took'[d] \in {0, h} THEN answer'[d] ELSE "none")
              = (IF took[d] \in {0, h} THEN answer[d] ELSE "none")
        BY <2>0, <2>2, <3>1
      <4>3. QED
        BY <2>0, <4>1, <4>2, Stutter
    <3>4. QED
      BY <3>2, <3>3
  <2>3. QED
    BY <1>6, <2>1, <2>2 DEF Finalise
<1>7. ASSUME NEW g \in Gens, NEW c \in Calls, Operation(g, c)
      PROVE  Abstract(h)!ANext \/ UNCHANGED Abstract(h)!avars
  <2>1. /\ executor[g] # <<>> /\ Head(executor[g]) = c /\ outcome[c] = "none"
        /\ UNCHANGED <<manager, took, answer>>
        /\ \A d : d # c => outcome'[d] = outcome[d]
    BY <1>0, <1>7 DEF Operation, Running, worker, sources, CallType
  <2>2. 1 \in DOMAIN executor[g] /\ executor[g][1] = c
    BY <1>0, <2>1, TailAt DEF CallType
  <2>3. took[c] = g /\ manager[g] # "down"
    BY <1>0, <2>1, <2>2 DEF TaskInv, DestroyInv
  <2>4. CASE g = h
    <3>1. PICK code \in Codes : outcome' = [outcome EXCEPT ![c] = code]
      BY <1>7 DEF Operation
    <3>2. [d \in Calls |-> IF took'[d] = h THEN outcome'[d] ELSE "none"]
          = [[d \in Calls |-> IF took[d] = h THEN outcome[d] ELSE "none"]
               EXCEPT ![c] = code]
      BY <1>0, <2>1, <2>3, <2>4, <3>1 DEF CallType
    <3>3. Abstract(h)!Execute(c)
      BY <2>1, <2>3, <2>4, <3>2 DEF Abstract!Execute
    <3>4. QED
      BY <3>3 DEF Abstract!ANext
  <2>5. CASE g # h
    BY <2>1, <2>3, <2>5, Stutter
  <2>6. QED
    BY <2>4, <2>5
<1>8. CASE HandleAnswer
  <2>1. /\ looper # <<>> /\ Head(looper) \in Messages /\ Head(looper).kind = "answer"
        /\ answer' = [answer EXCEPT ![Head(looper).call] = outcome[Head(looper).call]]
        /\ UNCHANGED <<manager, took, outcome>>
    BY <1>0, <1>8 DEF HandleAnswer, Handle, sources, CallType
  <2>2. Head(looper) \in Answers /\ Head(looper).call \in Calls
    BY <2>1 DEF Messages, Metadata, Answers
  <2>3. 1 \in DOMAIN looper /\ looper[1] = Head(looper)
    BY <1>0, <2>1, TailAt DEF CallType
  <2>a. PICK c \in Calls : c = Head(looper).call
    BY <2>2
  <2>4. took[c] # 0 /\ outcome[c] # "none" /\ answer[c] = "none"
    BY <1>0, <2>2, <2>3, <2>a DEF AnswerInv
  <2>5. \A d : d # c => answer'[d] = answer[d]
    BY <1>0, <2>1, <2>a DEF CallType
  <2>6. answer'[c] = outcome[c]
    BY <1>0, <2>1, <2>a DEF CallType
  <2>7. UNCHANGED <<manager, took, outcome>>
    BY <2>1
  <2>8. CASE took[c] = h
    <3>1. [d \in Calls |-> IF took'[d] \in {0, h} THEN answer'[d] ELSE "none"]
          = [[d \in Calls |-> IF took[d] \in {0, h} THEN answer[d] ELSE "none"]
               EXCEPT ![c] = outcome[c]]
      BY <2>5, <2>6, <2>7, <2>8
    <3>2. Abstract(h)!Answer(c)
      BY <2>4, <2>7, <2>8, <3>1 DEF Abstract!Answer
    <3>3. QED
      BY <3>2 DEF Abstract!ANext
  <2>9. CASE took[c] # h
    BY <2>4, <2>5, <2>7, <2>9, Stutter
  <2>10. QED
    BY <2>8, <2>9
<1>9. ASSUME NEW g \in Gens, DestroyManager(g)
      PROVE  Abstract(h)!ANext \/ UNCHANGED Abstract(h)!avars
  <2>1. /\ executor[g] # <<>> /\ Head(executor[g]) = DestroyTask
        /\ manager' = [manager EXCEPT ![g] = IF @ = "up" THEN "down" ELSE @]
        /\ UNCHANGED <<took, outcome, answer>>
    BY <1>9 DEF DestroyManager, Running, calls
  <2>2. 1 \in DOMAIN executor[g] /\ executor[g][1] = DestroyTask
    BY <1>0, <2>1, TailAt DEF CallType
  <2>3. Len(executor[g]) = 1 /\ executor[g] \in Seq(Tasks)
    BY <1>0, <2>2 DEF DestroyInv, CallType
  <2>4. DOMAIN executor[g] = {1}
    BY <2>3, LenProperties
  <2>5. CASE g = h /\ manager[h] = "up"
    <3>1. manager'[h] = "down"
      BY <1>0, <2>1, <2>5 DEF CallType
    <3>2. \A c \in Calls : took[c] = h => outcome[c] # "none"
      <4>1. ASSUME NEW c \in Calls, took[c] = h, outcome[c] = "none" PROVE FALSE
        <5>1. \E i \in DOMAIN executor[g] : executor[g][i] = c
          BY <1>0, <2>5, <4>1 DEF TaskInv
        <5>2. QED
          BY <1>0, <2>2, <2>4, <5>1
      <4>2. QED
        BY <4>1
    <3>3. Abstract(h)!Destroy
      BY <2>1, <2>5, <3>1, <3>2 DEF Abstract!Destroy
    <3>4. QED
      BY <3>3 DEF Abstract!ANext
  <2>6. CASE ~(g = h /\ manager[h] = "up")
    <3>1. manager'[h] = manager[h]
      BY <1>0, <2>1, <2>6 DEF CallType
    <3>2. QED
      BY <1>1, <2>1, <3>1
  <2>7. QED
    BY <2>5, <2>6
<1>10. QED
  BY <1>2, <1>3, <1>4, <1>5, <1>6, <1>7, <1>8, <1>9, Cases

\* In every attachment an accepted call runs once, on the manager of that
\* attachment and before it is destroyed, and its result is answered at most
\* once and with its own code, also when the plugin was detached meanwhile
\* (NativeFinaliseWorker and finalise of SimpleTorrentPlugin.kt).
THEOREM Refinement == Spec => ImplementsAsyncFinalise
<1>1. Inv /\ [Next]_vars
        => [\A g \in Gens : Abstract(g)!ANext \/ UNCHANGED Abstract(g)!avars]_vars
  BY StepMaps
<1>2. QED
  BY <1>1, InitMaps, InvCorrect, PTL DEF Spec, ImplementsAsyncFinalise

\* While detached there is no listener and nothing is kept for the next one,
\* whatever the managers of earlier attachments still post (MayEmit on the main
\* thread, and onDetachedFromEngine).
THEOREM DetachedIsQuietCorrect == Spec => []DetachedIsQuiet
<1>1. Init => DetachedIsQuiet
  BY DEF Init, DetachedIsQuiet
<1>2. ASSUME DetachedIsQuiet, [Next]_vars PROVE DetachedIsQuiet'
  <2> USE DEF DetachedIsQuiet
  <2>1. CASE UNCHANGED vars
    BY <1>2, <2>1 DEF vars
  <2>2. CASE Attach \/ Detach \/ Listeners
    BY <1>2, <2>2 DEF Attach, Detach, Listeners, ListenProgress, ListenMetadata,
       CancelProgress, CancelMetadata, attachment, sinks, buffers, NoMetadata
  <2>3. CASE Looper
    BY <1>2, <2>3 DEF Looper, HandleStats, HandleMetadata, HandleAnswer, MayEmit,
       attachment, sinks, buffers, NoMetadata
  <2>4. ASSUME NEW c \in Calls, Finalise(c) PROVE DetachedIsQuiet'
    BY <1>2, <2>4 DEF Finalise, attachment, sinks, buffers, NoMetadata
  <2>5. ASSUME NEW g \in Gens,
               \/ \E c \in Calls : Operation(g, c) \/ PostCompletion(g, c)
               \/ DestroyManager(g) \/ DispatchStats(g)
               \/ \E id \in Ids : DispatchMetadata(g, id)
        PROVE  DetachedIsQuiet'
    BY <1>2, <2>5 DEF Operation, PostCompletion, DestroyManager, DispatchStats,
       DispatchMetadata, attachment, sinks, buffers, NoMetadata
  <2>6. QED
    BY <1>2, <2>1, <2>2, <2>3, <2>4, <2>5 DEF Next, Complete
<1>3. QED
  BY <1>1, <1>2, PTL DEF Spec

(***************************************************************************)
(* Events                                                                  *)
(***************************************************************************)

Posts == Stats \union Metadata \union Answers

EventType ==
  /\ progressSink \in BOOLEAN /\ metadataSink \in BOOLEAN
  /\ looper \in Seq(Posts)
  /\ statsBuffer \in Seq(Stats) /\ Len(statsBuffer) <= BufferCap
  /\ metadataBuffer \in [Ids -> 0..MaxGen]
  /\ sent \in 0..MaxEvents /\ seen \in 0..sent
  /\ posted \subseteq Gens \X Ids /\ IsFiniteSet(posted)
  /\ announced \subseteq posted

\* What is posted or kept was sent, by an attachment that has begun, and a
\* listener leaves nothing in the buffer.
SourceInv ==
  /\ \A i \in DOMAIN looper : looper[i].kind = "stats" => looper[i].number <= sent
  /\ \A i \in DOMAIN looper : looper[i].kind = "metadata" =>
       <<looper[i].gen, looper[i].id>> \in posted
  /\ \A i \in DOMAIN statsBuffer : statsBuffer[i].number <= sent
  /\ progressSink => statsBuffer = <<>>
  /\ \A id \in Ids : metadataBuffer[id] # 0 => <<metadataBuffer[id], id>> \in posted
  /\ \A g \in Gens, id \in Ids : <<g, id>> \in posted => g <= generation

EventInv == EventType /\ SourceInv /\ StatsInOrder /\ MetadataKept

\* The message under way, and those behind it.
LEMMA FirstPost ==
  ASSUME EventType, looper # <<>>
  PROVE  /\ 1 \in DOMAIN looper /\ Head(looper) = looper[1] /\ Head(looper) \in Posts
         /\ Head(looper).kind = "stats" => Head(looper) \in Stats
         /\ Head(looper).kind = "metadata" => Head(looper) \in Metadata
         /\ Tail(looper) \in Seq(Posts)
         /\ \A i \in DOMAIN Tail(looper) :
              /\ i \in Int /\ i + 1 \in DOMAIN looper /\ i + 1 > 1
              /\ Tail(looper)[i] = looper[i + 1]
         /\ \A i \in DOMAIN looper :
              i = 1 \/ \E j \in DOMAIN Tail(looper) : Tail(looper)[j] = looper[i]
<1>1. looper \in Seq(Posts)
  BY DEF EventType
<1>2. /\ 1 \in DOMAIN looper /\ Head(looper) = looper[1] /\ Head(looper) \in Posts
      /\ Tail(looper) \in Seq(Posts)
      /\ \A i \in DOMAIN Tail(looper) :
           i \in Int /\ i + 1 \in DOMAIN looper /\ Tail(looper)[i] = looper[i + 1]
      /\ \A i \in DOMAIN looper :
           i = 1 \/ \E j \in DOMAIN Tail(looper) : Tail(looper)[j] = looper[i]
  BY <1>1, TailAt
<1>3. \A i \in DOMAIN Tail(looper) : i + 1 > 1
  BY <1>2
<1>4. /\ Head(looper).kind = "stats" => Head(looper) \in Stats
      /\ Head(looper).kind = "metadata" => Head(looper) \in Metadata
  BY <1>2 DEF Posts, Stats, Metadata, Answers
<1>5. QED
  BY <1>2, <1>3, <1>4

\* The buffer keeps its last events, in their order.
LEMMA KeptEvents ==
  ASSUME NEW events \in Seq(Stats)
  PROVE  /\ KeepLatest(events) \in Seq(Stats) /\ Len(KeepLatest(events)) <= BufferCap
         /\ \E n \in Nat : \A i \in DOMAIN KeepLatest(events) :
              /\ i \in Int /\ i + n \in DOMAIN events
              /\ KeepLatest(events)[i] = events[i + n]
<1> DEFINE first == IF Len(events) > BufferCap THEN Len(events) - BufferCap + 1 ELSE 1
<1>1. Len(events) \in Nat /\ BufferCap \in Nat \ {0} /\ DOMAIN events = 1..Len(events)
  BY AndroidAssumption
<1>2. first \in Nat /\ first >= 1 /\ Len(events) - first + 1 <= BufferCap
  BY <1>1
<1>3. \A i \in first..Len(events) : events[i] \in Stats
  BY <1>1, <1>2
<1>4. KeepLatest(events) = SubSeq(events, first, Len(events))
  BY DEF KeepLatest
<1>5. /\ KeepLatest(events) \in Seq(Stats)
      /\ Len(KeepLatest(events)) =
           IF first <= Len(events) THEN Len(events) - first + 1 ELSE 0
      /\ \A i \in 1..Len(events) - first + 1 :
           KeepLatest(events)[i] = events[first + i - 1]
  <2> HIDE DEF first
  <2>1. QED
    BY <1>1, <1>2, <1>3, <1>4, SubSeqProperties
<1>6. DOMAIN KeepLatest(events) = 1..Len(KeepLatest(events))
  BY <1>5
<1>7. Len(KeepLatest(events)) <= BufferCap
  <2> HIDE DEF first
  <2>1. QED
    BY <1>1, <1>2, <1>5
<1>8. \A i \in DOMAIN KeepLatest(events) :
        /\ i \in Int /\ i + (first - 1) \in DOMAIN events
        /\ KeepLatest(events)[i] = events[i + (first - 1)]
  <2> HIDE DEF first
  <2>1. ASSUME NEW i \in DOMAIN KeepLatest(events)
        PROVE  /\ i \in Int /\ i + (first - 1) \in DOMAIN events
               /\ KeepLatest(events)[i] = events[i + (first - 1)]
    <3>1. i \in 1..Len(events) - first + 1
      BY <1>1, <1>2, <1>5, <1>6
    <3>2. i \in Int /\ first + i - 1 = i + (first - 1)
      BY <1>1, <1>2, <3>1
    <3>3. i + (first - 1) \in DOMAIN events
      BY <1>1, <1>2, <3>1
    <3>4. KeepLatest(events)[i] = events[first + i - 1]
      BY <1>5, <3>1
    <3>5. QED
      BY <3>2, <3>3, <3>4
  <2>2. QED
    BY <2>1
<1>9. first - 1 \in Nat
  BY <1>2
<1>10. QED
  BY <1>5, <1>7, <1>8, <1>9

\* Steps that are not about events.
LEMMA OtherSteps ==
  ASSUME \/ Attach
         \/ \E c \in Calls : Finalise(c)
         \/ \E g \in Gens : DestroyManager(g) \/ \E c \in Calls : Operation(g, c)
         \/ UNCHANGED vars
  PROVE  UNCHANGED <<looper, sinks, buffers, sent, posted, deliveries>>
  BY DEF Attach, Finalise, DestroyManager, Operation, vars, sinks, buffers,
     deliveries, sources

LEMMA EventCases ==
  [Next]_vars =>
    \/ Attach \/ Detach \/ HandleStats \/ HandleMetadata \/ HandleAnswer
    \/ ListenProgress \/ ListenMetadata \/ CancelProgress \/ CancelMetadata
    \/ \E c \in Calls : Finalise(c)
    \/ \E g \in Gens : DestroyManager(g) \/ \E c \in Calls : Operation(g, c)
    \/ \E g \in Gens, c \in Calls : PostCompletion(g, c)
    \/ \E g \in Gens : DispatchStats(g)
    \/ \E g \in Gens, id \in Ids : DispatchMetadata(g, id)
    \/ UNCHANGED vars
  BY DEF Next, Looper, Listeners, Complete

LEMMA EventTypeKept == ASSUME EventInv, [Next]_vars PROVE EventType'
<1> USE AndroidAssumption DEF EventInv, EventType
<1>1. CASE UNCHANGED <<looper, sinks, buffers, sent, posted, deliveries>>
  BY <1>1 DEF sinks, buffers, deliveries
<1>2. CASE Detach
  <2>1. statsBuffer' = <<>> /\ Len(statsBuffer') = 0 /\ statsBuffer' \in Seq(Stats)
    BY <1>2 DEF Detach
  <2>2. metadataBuffer' \in [Ids -> 0..MaxGen]
    BY <1>2 DEF Detach, NoMetadata
  <2>3. /\ looper' = looper /\ sent' = sent /\ posted' = posted
        /\ seen' = seen /\ announced' = announced
        /\ progressSink' = FALSE /\ metadataSink' = FALSE
    BY <1>2 DEF Detach, deliveries
  <2>4. /\ IsFiniteSet(posted') /\ posted' \subseteq Gens \X Ids
        /\ announced' \subseteq posted'
    BY <2>3
  <2>5. /\ looper' \in Seq(Posts) /\ sent' \in 0..MaxEvents /\ seen' \in 0..sent'
    BY <2>3
  <2>6. /\ statsBuffer' \in Seq(Stats) /\ Len(statsBuffer') <= BufferCap
    BY <2>1
  <2>7. QED
    BY <2>2, <2>3, <2>4, <2>5, <2>6
<1>3. CASE HandleStats
  <2>1. looper # <<>> /\ looper' = Tail(looper) /\ Head(looper).kind = "stats"
    BY <1>3 DEF HandleStats, Handle
  <2>2. looper' \in Seq(Posts) /\ Head(looper) \in Stats
        /\ 1 \in DOMAIN looper /\ Head(looper) = looper[1]
    BY <2>1, FirstPost
  <2>3. Append(statsBuffer, Head(looper)) \in Seq(Stats)
    BY <2>2, AppendProperties
  <2>4. statsBuffer' \in Seq(Stats) /\ Len(statsBuffer') <= BufferCap
    BY <1>3, <2>3, KeptEvents DEF HandleStats, Emit
  <2>5. Head(looper).number \in 1..MaxEvents /\ Head(looper).number <= sent
    BY <2>1, <2>2 DEF Stats, SourceInv
  <2>6. seen' \in 0..sent
    BY <1>3, <2>5 DEF HandleStats, Emit
  <2>7. QED
    BY <1>3, <2>2, <2>4, <2>6 DEF HandleStats, sinks, sources
<1>4. CASE HandleMetadata
  <2>1. looper # <<>> /\ looper' = Tail(looper) /\ Head(looper).kind = "metadata"
    BY <1>4 DEF HandleMetadata, Handle
  <2>2. looper' \in Seq(Posts) /\ Head(looper) \in Metadata
        /\ 1 \in DOMAIN looper /\ Head(looper) = looper[1]
    BY <2>1, FirstPost
  <2>3. /\ Head(looper).gen \in 0..MaxGen /\ Head(looper).id \in Ids
        /\ <<Head(looper).gen, Head(looper).id>> \in posted
    BY <2>1, <2>2 DEF Metadata, Gens, SourceInv
  <2>4. metadataBuffer' \in [Ids -> 0..MaxGen] /\ announced' \subseteq posted
    BY <1>4, <2>3 DEF HandleMetadata, EmitMetadata
  <2>5. QED
    BY <1>4, <2>2, <2>4 DEF HandleMetadata, sinks, sources
<1>5. CASE HandleAnswer
  <2>1. looper # <<>> /\ looper' = Tail(looper)
    BY <1>5 DEF HandleAnswer, Handle
  <2>2. looper' \in Seq(Posts)
    BY <2>1, FirstPost
  <2>3. QED
    BY <1>5, <2>2 DEF HandleAnswer, sinks, buffers, sources, deliveries
<1>6. CASE ListenProgress
  <2>1. seen' \in 0..sent
    <3>1. CASE statsBuffer = <<>>
      BY <1>6, <3>1 DEF ListenProgress
    <3>2. CASE statsBuffer # <<>>
      <4>1. Len(statsBuffer) \in DOMAIN statsBuffer
        BY <3>2, EmptySeq
      <4>2. statsBuffer[Len(statsBuffer)] \in Stats
        BY <4>1
      <4>3. statsBuffer[Len(statsBuffer)].number \in 1..MaxEvents
        BY <4>2 DEF Stats
      <4>4. QED
        BY <1>6, <3>2, <4>1, <4>3 DEF ListenProgress, SourceInv
    <3>3. QED
      BY <3>1, <3>2
  <2>2. statsBuffer' = <<>> /\ Len(statsBuffer') = 0 /\ statsBuffer' \in Seq(Stats)
    BY <1>6 DEF ListenProgress, DrainStats
  <2>3. QED
    BY <1>6, <2>1, <2>2 DEF ListenProgress, sources
<1>7. CASE ListenMetadata
  <2>1. announced' \subseteq posted
    BY <1>7 DEF ListenMetadata, SourceInv
  <2>2. QED
    BY <1>7, <2>1 DEF ListenMetadata, NoMetadata, sources
<1>8. CASE CancelProgress \/ CancelMetadata
  BY <1>8 DEF CancelProgress, CancelMetadata, buffers, sources, deliveries
<1>9. ASSUME NEW g \in Gens, NEW c \in Calls, PostCompletion(g, c) PROVE EventType'
  <2>1. [kind |-> "answer", call |-> c] \in Posts
    BY DEF Posts, Answers
  <2>2. looper' \in Seq(Posts)
    BY <1>9, <2>1, AppendProperties DEF PostCompletion
  <2>3. QED
    BY <1>9, <2>2 DEF PostCompletion, sinks, buffers, sources, deliveries
<1>10. ASSUME NEW g \in Gens, DispatchStats(g) PROVE EventType'
  <2>1. Cardinality(posted) \in Nat
    BY FS_CardinalityType
  <2>2. sent' = sent + 1 /\ sent' \in 1..MaxEvents
    BY <1>10, <2>1 DEF DispatchStats, MoreEvents
  <2>3. [kind |-> "stats", number |-> sent'] \in Posts
    BY <2>2 DEF Posts, Stats
  <2>4. looper' \in Seq(Posts)
    BY <1>10, <2>3, AppendProperties DEF DispatchStats
  <2>5. QED
    BY <1>10, <2>2, <2>4 DEF DispatchStats, sinks, buffers, deliveries
<1>11. ASSUME NEW g \in Gens, NEW id \in Ids, DispatchMetadata(g, id) PROVE EventType'
  <2>1. [kind |-> "metadata", gen |-> g, id |-> id] \in Posts
    BY DEF Posts, Metadata
  <2>2. looper' \in Seq(Posts)
    BY <1>11, <2>1, AppendProperties DEF DispatchMetadata
  <2>3. IsFiniteSet(posted') /\ posted' = posted \union {<<g, id>>}
    BY <1>11, FS_AddElement DEF DispatchMetadata
  <2>4. QED
    BY <1>11, <2>2, <2>3 DEF DispatchMetadata, sinks, buffers, deliveries
<1>12. QED
  BY <1>1, <1>2, <1>3, <1>4, <1>5, <1>6, <1>7, <1>8, <1>9, <1>10, <1>11,
     EventCases, OtherSteps

LEMMA SourceKept == ASSUME Inv, EventInv, [Next]_vars PROVE SourceInv'
<1> USE DEF EventInv, EventType, SourceInv
<1>0. UNCHANGED generation \/ (Attach /\ generation' = generation + 1)
  BY DEF Next, Attach, Detach, Looper, Listeners, Complete, HandleStats,
     HandleMetadata, HandleAnswer, ListenProgress, ListenMetadata, CancelProgress,
     CancelMetadata, Finalise, Operation, PostCompletion, DestroyManager,
     DispatchStats, DispatchMetadata, attachment, vars
<1>a. generation \in Int
  BY DEF Inv, CallType
<1>1. CASE UNCHANGED <<looper, sinks, buffers, sent, posted, deliveries>>
  BY <1>0, <1>a, <1>1 DEF sinks, buffers, Gens
<1>2. CASE Detach
  BY <1>2 DEF Detach, NoMetadata
<1>3. CASE HandleStats
  <2>1. looper # <<>> /\ looper' = Tail(looper) /\ Head(looper).kind = "stats"
        /\ UNCHANGED <<progressSink, metadataBuffer, sent, posted, generation>>
    BY <1>3 DEF HandleStats, Handle, sinks, sources, attachment
  <2>2. /\ 1 \in DOMAIN looper /\ Head(looper) = looper[1] /\ Head(looper) \in Stats
        /\ \A i \in DOMAIN looper' :
             i + 1 \in DOMAIN looper /\ looper'[i] = looper[i + 1]
    BY <2>1, FirstPost
  <2>3. CASE UNCHANGED statsBuffer
    BY <2>1, <2>2, <2>3
  <2>4. CASE ~progressSink /\ statsBuffer' = KeepLatest(Append(statsBuffer, Head(looper)))
    <3> DEFINE s == Append(statsBuffer, Head(looper))
    <3>1. s \in Seq(Stats)
      BY <2>2, AppendProperties
    <3>2. \A i \in DOMAIN s : s[i].number <= sent
      BY <2>1, <2>2, AppendAt
    <3>3. \A i \in DOMAIN statsBuffer' : statsBuffer'[i].number <= sent
      <4> HIDE DEF s
      <4>1. PICK n \in Nat : \A i \in DOMAIN KeepLatest(s) :
              i + n \in DOMAIN s /\ KeepLatest(s)[i] = s[i + n]
        BY <3>1, KeptEvents
      <4>2. statsBuffer' = KeepLatest(s)
        BY <2>4 DEF s
      <4>3. QED
        BY <3>2, <4>1, <4>2
    <3>4. QED
      BY <2>1, <2>2, <2>4, <3>3
  <2>5. QED
    BY <1>3, <2>3, <2>4 DEF HandleStats, Emit
<1>4. CASE HandleMetadata
  <2>1. looper # <<>> /\ looper' = Tail(looper) /\ Head(looper).kind = "metadata"
        /\ UNCHANGED <<progressSink, statsBuffer, sent, posted, generation>>
    BY <1>4 DEF HandleMetadata, Handle, sinks, sources, attachment
  <2>2. /\ 1 \in DOMAIN looper /\ Head(looper) = looper[1] /\ Head(looper) \in Metadata
        /\ \A i \in DOMAIN looper' :
             i + 1 \in DOMAIN looper /\ looper'[i] = looper[i + 1]
    BY <2>1, FirstPost
  <2>3. Head(looper).id \in Ids /\ <<Head(looper).gen, Head(looper).id>> \in posted
    BY <2>1, <2>2 DEF Metadata
  <2>4. \A id \in Ids : \/ metadataBuffer'[id] = metadataBuffer[id]
                        \/ id = Head(looper).id /\ metadataBuffer'[id] = Head(looper).gen
    BY <1>4, <2>3 DEF HandleMetadata, EmitMetadata
  <2>5. \A id \in Ids : metadataBuffer'[id] # 0 => <<metadataBuffer'[id], id>> \in posted
    BY <2>3, <2>4
  <2>6. QED
    BY <2>1, <2>2, <2>5
<1>5. CASE HandleAnswer
  <2>1. looper # <<>> /\ looper' = Tail(looper)
        /\ UNCHANGED <<progressSink, statsBuffer, metadataBuffer, sent, posted, generation>>
    BY <1>5 DEF HandleAnswer, Handle, sinks, buffers, sources, attachment
  <2>2. \A i \in DOMAIN looper' : i + 1 \in DOMAIN looper /\ looper'[i] = looper[i + 1]
    BY <2>1, FirstPost
  <2>3. QED
    BY <2>1, <2>2
<1>6. CASE ListenProgress \/ ListenMetadata \/ CancelProgress \/ CancelMetadata
  <2>1. UNCHANGED <<looper, sent, posted, generation>>
    BY <1>6 DEF ListenProgress, ListenMetadata, CancelProgress, CancelMetadata,
       sources, attachment
  <2>2. /\ UNCHANGED statsBuffer \/ statsBuffer' = <<>>
        /\ progressSink' => statsBuffer' = <<>>
    BY <1>6 DEF ListenProgress, ListenMetadata, CancelProgress, CancelMetadata,
       DrainStats, buffers
  <2>3. UNCHANGED metadataBuffer \/ metadataBuffer' = NoMetadata
    BY <1>6 DEF ListenProgress, ListenMetadata, CancelProgress, CancelMetadata, buffers
  <2>4. QED
    BY <2>1, <2>2, <2>3 DEF NoMetadata
<1>7. ASSUME NEW g \in Gens, NEW c \in Calls, PostCompletion(g, c) PROVE SourceInv'
  <2>1. [kind |-> "answer", call |-> c] \in Posts
    BY DEF Posts, Answers
  <2>2. /\ looper' = Append(looper, [kind |-> "answer", call |-> c])
        /\ UNCHANGED <<progressSink, statsBuffer, metadataBuffer, sent, posted, generation>>
    BY <1>7 DEF PostCompletion, sinks, buffers, sources, attachment
  <2>3. QED
    BY <2>1, <2>2, AppendAt
<1>8. ASSUME NEW g \in Gens, DispatchStats(g) PROVE SourceInv'
  <2>1. /\ sent' = sent + 1
        /\ looper' = Append(looper, [kind |-> "stats", number |-> sent'])
        /\ UNCHANGED <<progressSink, statsBuffer, metadataBuffer, posted, generation>>
    BY <1>8 DEF DispatchStats, sinks, buffers, attachment
  <2>2. [kind |-> "stats", number |-> sent'] \in Posts
    <3>1. Cardinality(posted) \in Nat
      BY FS_CardinalityType
    <3>2. sent' \in 1..MaxEvents
      BY <1>8, <2>1, <3>1, AndroidAssumption DEF DispatchStats, MoreEvents
    <3>3. QED
      BY <3>2 DEF Posts, Stats
  <2>3. \A i \in DOMAIN looper : looper[i].kind = "stats" => looper[i].number <= sent'
    <3>1. \A i \in DOMAIN looper : looper[i] \in Posts
      BY DEF EventType
    <3>2. \A m \in Posts : m.kind = "stats" => m.number \in Int
      BY DEF Posts, Stats, Metadata, Answers
    <3>3. QED
      BY <2>1, <3>1, <3>2
  <2>4. \A i \in DOMAIN statsBuffer : statsBuffer[i].number <= sent'
    <3>1. \A i \in DOMAIN statsBuffer : statsBuffer[i] \in Stats
      OBVIOUS
    <3>2. \A i \in DOMAIN statsBuffer : statsBuffer[i].number \in Int
      BY <3>1 DEF Stats
    <3>3. QED
      BY <2>1, <3>2
  <2>5. QED
    BY <2>1, <2>2, <2>3, <2>4, AppendAt
<1>9. ASSUME NEW g \in Gens, NEW id \in Ids, DispatchMetadata(g, id) PROVE SourceInv'
  <2>1. /\ posted' = posted \union {<<g, id>>}
        /\ looper' = Append(looper, [kind |-> "metadata", gen |-> g, id |-> id])
        /\ UNCHANGED <<progressSink, statsBuffer, metadataBuffer, sent, generation>>
    BY <1>9 DEF DispatchMetadata, sinks, buffers, attachment
  <2>2. [kind |-> "metadata", gen |-> g, id |-> id] \in Posts
    BY DEF Posts, Metadata
  <2>3. g <= generation
    <3>1. manager[g] = "up"
      BY <1>9 DEF DispatchMetadata
    <3>2. QED
      BY <1>a, <3>1 DEF Inv, AttachInv, Gens
  <2>4. QED
    BY <2>1, <2>2, <2>3, AppendAt
<1>10. QED
  BY <1>1, <1>2, <1>3, <1>4, <1>5, <1>6, <1>7, <1>8, <1>9, EventCases, OtherSteps

\* A message is handled: those behind it are in order, and if it is a stats
\* event they are newer.
LEMMA RestInOrder ==
  ASSUME EventInv, looper # <<>>, looper' = Tail(looper)
  PROVE  /\ Ascending(looper')
         /\ \A j \in DOMAIN looper' : IsStats(looper'[j]) =>
              /\ seen < looper'[j].number
              /\ \A i \in DOMAIN statsBuffer : statsBuffer[i].number < looper'[j].number
              /\ IsStats(Head(looper)) => Head(looper).number < looper'[j].number
<1>1. /\ 1 \in DOMAIN looper /\ Head(looper) = looper[1]
      /\ \A i \in DOMAIN looper' :
           /\ i \in Int /\ i + 1 \in DOMAIN looper /\ i + 1 > 1
           /\ looper'[i] = looper[i + 1]
  BY FirstPost DEF EventInv
<1>2. ASSUME NEW i \in DOMAIN looper', NEW j \in DOMAIN looper', i < j,
             IsStats(looper'[i]), IsStats(looper'[j])
      PROVE  looper'[i].number < looper'[j].number
  <2>1. i + 1 < j + 1
    BY <1>1, <1>2
  <2>2. QED
    BY <1>1, <1>2, <2>1 DEF EventInv, StatsInOrder, Ascending
<1>3. ASSUME NEW j \in DOMAIN looper', IsStats(looper'[j])
      PROVE  /\ seen < looper'[j].number
             /\ \A i \in DOMAIN statsBuffer : statsBuffer[i].number < looper'[j].number
             /\ IsStats(Head(looper)) => Head(looper).number < looper'[j].number
  <2>1. j + 1 \in DOMAIN looper /\ 1 < j + 1 /\ looper'[j] = looper[j + 1]
    BY <1>1
  <2>2. QED
    BY <1>1, <1>3, <2>1 DEF EventInv, StatsInOrder, Ascending
<1>4. QED
  BY <1>2, <1>3 DEF Ascending

LEMMA OrderKept == ASSUME EventInv, [Next]_vars PROVE StatsInOrder'
<1> USE DEF EventInv, StatsInOrder
<1>1. CASE UNCHANGED <<looper, statsBuffer, seen>>
  BY <1>1 DEF Ascending
<1>2. CASE Detach
  <2>1. statsBuffer' = <<>> /\ DOMAIN statsBuffer' = {} /\ UNCHANGED <<looper, seen>>
    BY <1>2 DEF Detach, deliveries
  <2>2. QED
    BY <2>1 DEF Ascending
<1>3. CASE HandleStats
  <2>1. looper # <<>> /\ looper' = Tail(looper) /\ Head(looper).kind = "stats"
    BY <1>3 DEF HandleStats, Handle
  <2>2. /\ 1 \in DOMAIN looper /\ Head(looper) = looper[1] /\ Head(looper) \in Stats
        /\ IsStats(Head(looper))
    BY <2>1, FirstPost DEF IsStats
  <2>3. CASE UNCHANGED <<statsBuffer, seen>>
    BY <2>1, <2>3, RestInOrder DEF Ascending
  <2>4. CASE progressSink /\ seen' = Head(looper).number /\ UNCHANGED statsBuffer
    <3>1. statsBuffer' = <<>> /\ DOMAIN statsBuffer' = {}
      BY <2>4 DEF SourceInv
    <3>2. QED
      BY <2>1, <2>2, <2>4, <3>1, RestInOrder DEF Ascending
  <2>5. CASE /\ statsBuffer' = KeepLatest(Append(statsBuffer, Head(looper)))
             /\ UNCHANGED seen
    <3> DEFINE e == Head(looper)
               s == Append(statsBuffer, e)
    <3>1. /\ DOMAIN s = DOMAIN statsBuffer \union {Len(statsBuffer) + 1}
          /\ \A i \in DOMAIN statsBuffer : s[i] = statsBuffer[i]
          /\ s[Len(statsBuffer) + 1] = e
          /\ DOMAIN statsBuffer = 1..Len(statsBuffer) /\ Len(statsBuffer) \in Nat
      BY <2>2, AppendAt DEF EventType
    <3>2. s \in Seq(Stats)
      BY <2>2, AppendProperties DEF EventType
    <3>3. \A i \in DOMAIN statsBuffer : statsBuffer[i] \in Stats /\ IsStats(statsBuffer[i])
      <4>1. \A i \in DOMAIN statsBuffer : statsBuffer[i] \in Stats
        BY DEF EventType
      <4>2. \A x \in Stats : IsStats(x)
        BY DEF Stats, IsStats
      <4>3. QED
        BY <4>1, <4>2
    <3>4. \A i \in DOMAIN statsBuffer : statsBuffer[i].number < e.number
      BY <2>2
    <3>5. ASSUME NEW i \in DOMAIN s, NEW j \in DOMAIN s, i < j
          PROVE  s[i].number < s[j].number
      <4>1. i \in DOMAIN statsBuffer
        BY <3>1, <3>5
      <4>2. CASE j \in DOMAIN statsBuffer
        BY <3>1, <3>3, <3>5, <4>1, <4>2 DEF Ascending
      <4>3. CASE j = Len(statsBuffer) + 1
        BY <3>1, <3>4, <4>1, <4>3
      <4>4. QED
        BY <3>1, <4>2, <4>3
    <3>6. \A i \in DOMAIN s : seen < s[i].number
      BY <2>2, <3>1
    <3>7. \A i \in DOMAIN s, j \in DOMAIN looper' :
            IsStats(looper'[j]) => s[i].number < looper'[j].number
      BY <2>1, <2>2, <3>1, RestInOrder
    <3>8. /\ \A i, j \in DOMAIN statsBuffer' :
               i < j => statsBuffer'[i].number < statsBuffer'[j].number
          /\ \A i \in DOMAIN statsBuffer' :
               \E k \in DOMAIN s : statsBuffer'[i] = s[k]
      <4> HIDE DEF s
      <4>1. PICK n \in Nat : \A i \in DOMAIN KeepLatest(s) :
              /\ i \in Int /\ i + n \in DOMAIN s /\ KeepLatest(s)[i] = s[i + n]
        BY <3>2, KeptEvents
      <4>2. statsBuffer' = KeepLatest(s)
        BY <2>5 DEF s
      <4>3. ASSUME NEW i \in DOMAIN statsBuffer', NEW j \in DOMAIN statsBuffer', i < j
            PROVE  statsBuffer'[i].number < statsBuffer'[j].number
        <5>1. i + n < j + n
          BY <4>1, <4>2, <4>3
        <5>2. QED
          BY <3>5, <4>1, <4>2, <5>1
      <4>4. QED
        BY <4>1, <4>2, <4>3
    <3>9. Ascending(looper')
      BY <2>1, RestInOrder
    <3>10. \A j \in DOMAIN looper' : IsStats(looper'[j]) => seen < looper'[j].number
      BY <2>1, RestInOrder
    <3> HIDE DEF s
    <3>11. QED
      BY <2>5, <3>6, <3>7, <3>8, <3>9, <3>10 DEF Ascending
  <2>6. QED
    BY <1>3, <2>3, <2>4, <2>5 DEF HandleStats, Emit
<1>4. CASE HandleMetadata \/ HandleAnswer
  <2>1. looper # <<>> /\ looper' = Tail(looper) /\ UNCHANGED <<statsBuffer, seen>>
    BY <1>4 DEF HandleMetadata, HandleAnswer, Handle, buffers, deliveries
  <2>2. QED
    BY <2>1, RestInOrder DEF Ascending
<1>5. CASE ListenProgress
  <2>1. statsBuffer' = <<>> /\ DOMAIN statsBuffer' = {} /\ UNCHANGED looper
    BY <1>5 DEF ListenProgress, DrainStats
  <2>2. \/ seen' = seen
        \/ \E i \in DOMAIN statsBuffer : seen' = statsBuffer[i].number
    <3>1. statsBuffer # <<>> => Len(statsBuffer) \in DOMAIN statsBuffer
      BY EmptySeq DEF EventType
    <3>2. QED
      BY <1>5, <3>1 DEF ListenProgress
  <2>3. QED
    BY <2>1, <2>2 DEF Ascending
<1>6. CASE ListenMetadata \/ CancelProgress \/ CancelMetadata
  BY <1>1, <1>6 DEF ListenMetadata, CancelProgress, CancelMetadata, buffers, deliveries
<1>7. ASSUME NEW m \in Posts, ~IsStats(m), looper' = Append(looper, m),
             UNCHANGED <<statsBuffer, seen>>
      PROVE  StatsInOrder'
  <2>1. looper \in Seq(Posts)
    BY DEF EventType
  <2>2. QED
    BY <1>7, <2>1, AppendAt DEF Ascending
<1>8. ASSUME NEW g \in Gens, NEW c \in Calls, PostCompletion(g, c) PROVE StatsInOrder'
  <2> DEFINE m == [kind |-> "answer", call |-> c]
  <2>1. m \in Posts /\ ~IsStats(m)
    BY DEF Posts, Answers, IsStats
  <2>2. looper' = Append(looper, m) /\ UNCHANGED <<statsBuffer, seen>>
    BY <1>8 DEF PostCompletion, buffers, deliveries
  <2>3. QED
    BY <1>7, <2>1, <2>2
<1>9. ASSUME NEW g \in Gens, NEW id \in Ids, DispatchMetadata(g, id) PROVE StatsInOrder'
  <2> DEFINE m == [kind |-> "metadata", gen |-> g, id |-> id]
  <2>1. m \in Posts /\ ~IsStats(m)
    BY DEF Posts, Metadata, IsStats
  <2>2. looper' = Append(looper, m) /\ UNCHANGED <<statsBuffer, seen>>
    BY <1>9 DEF DispatchMetadata, buffers, deliveries
  <2>3. QED
    BY <1>7, <2>1, <2>2
<1>10. ASSUME NEW g \in Gens, DispatchStats(g) PROVE StatsInOrder'
  <2> DEFINE m == [kind |-> "stats", number |-> sent + 1]
  <2>1. looper' = Append(looper, m) /\ UNCHANGED <<statsBuffer, seen>>
    BY <1>10 DEF DispatchStats, buffers, deliveries
  <2>2. m \in Posts
    <3>1. Cardinality(posted) \in Nat
      BY FS_CardinalityType DEF EventType
    <3>2. sent + 1 \in 1..MaxEvents
      BY <1>10, <3>1, AndroidAssumption DEF DispatchStats, MoreEvents, EventType
    <3>3. QED
      BY <3>2 DEF Posts, Stats
  <2>3. /\ DOMAIN looper' = DOMAIN looper \union {Len(looper) + 1}
        /\ Len(looper) + 1 \notin DOMAIN looper
        /\ \A i \in DOMAIN looper : looper'[i] = looper[i] /\ i < Len(looper) + 1
        /\ looper'[Len(looper) + 1] = m
    <3>1. looper \in Seq(Posts)
      BY DEF EventType
    <3>2. \A i \in DOMAIN looper : i < Len(looper) + 1
      BY <3>1
    <3>3. QED
      BY <2>1, <2>2, <3>1, <3>2, AppendAt
  <2>4. \A i \in DOMAIN looper : IsStats(looper[i]) => looper[i].number < sent + 1
    <3>1. \A i \in DOMAIN looper : looper[i] \in Posts
      BY DEF EventType
    <3>2. \A x \in Posts : x.kind = "stats" => x.number \in Int
      BY DEF Posts, Stats, Metadata, Answers
    <3>3. QED
      BY <3>1, <3>2 DEF IsStats, SourceInv, EventType
  <2>5. seen < sent + 1 /\ \A i \in DOMAIN statsBuffer : statsBuffer[i].number < sent + 1
    <3>1. \A i \in DOMAIN statsBuffer : statsBuffer[i] \in Stats
      BY DEF EventType
    <3>2. \A i \in DOMAIN statsBuffer : statsBuffer[i].number \in Int
      BY <3>1 DEF Stats
    <3>3. QED
      BY <3>2 DEF SourceInv, EventType
  <2>6. \A i \in DOMAIN looper : ~(Len(looper) + 1 < i)
    <3>1. looper \in Seq(Posts)
      BY DEF EventType
    <3>2. QED
      BY <3>1
  <2>7. m.number = sent + 1 /\ ~(Len(looper) + 1 < Len(looper) + 1)
    BY DEF EventType
  <2> HIDE DEF m
  <2>8. Ascending(looper')
    BY <2>3, <2>4, <2>6, <2>7 DEF Ascending
  <2>9. QED
    BY <2>1, <2>3, <2>5, <2>7, <2>8 DEF Ascending
<1>11. CASE UNCHANGED <<looper, sinks, buffers, sent, posted, deliveries>>
  BY <1>1, <1>11 DEF buffers, deliveries
<1>12. QED
  BY <1>2, <1>3, <1>4, <1>5, <1>6, <1>8, <1>9, <1>10, <1>11, EventCases, OtherSteps

\* Announced, or kept, or on its way.
Stays(id) ==
  \/ <<generation, id>> \in announced
  \/ metadataBuffer[id] = generation
  \/ \E i \in DOMAIN looper :
       looper[i] = [kind |-> "metadata", gen |-> generation, id |-> id]

LEMMA MetadataIsKept == ASSUME Inv, EventInv, [Next]_vars PROVE MetadataKept'
<1> DEFINE Own(id) == attached /\ {g \in Gens : <<g, id>> \in posted} = {generation}
<1> USE DEF EventInv
<1>a. MetadataKept <=> \A id \in Ids : Own(id) => Stays(id)
  BY DEF MetadataKept, Stays
<1>b. MetadataKept' <=> \A id \in Ids : Own(id)' => Stays(id)'
  BY DEF MetadataKept, Stays
<1>c. \A id \in Ids : Own(id) => Stays(id)
  BY <1>a
<1>1. ASSUME UNCHANGED <<attached, generation, posted, announced, metadataBuffer>>,
             \A i \in DOMAIN looper : looper[i].kind = "metadata" =>
               \E j \in DOMAIN looper' : looper'[j] = looper[i]
      PROVE  MetadataKept'
  <2>1. ASSUME NEW id \in Ids, Stays(id) PROVE Stays(id)'
    BY <1>1, <2>1 DEF Stays
  <2>2. QED
    BY <1>1, <1>b, <1>c, <2>1
<1>2. CASE Attach
  <2>1. generation' = generation + 1 /\ generation \in Int /\ UNCHANGED posted
    BY <1>2 DEF Attach, Inv, CallType
  <2>2. \A id \in Ids : \A g \in Gens : <<g, id>> \in posted => g <= generation
    BY DEF SourceInv
  <2>3. ASSUME NEW id \in Ids, Own(id)' PROVE FALSE
    <3>1. {g \in Gens : <<g, id>> \in posted'} = {generation'}
      BY <2>3
    <3>2. generation' \in Gens /\ <<generation', id>> \in posted'
      BY <3>1
    <3>3. QED
      BY <2>1, <2>2, <3>2
  <2>4. QED
    BY <1>b, <2>3
<1>3. CASE Detach
  <2>1. ~attached'
    BY <1>3 DEF Detach
  <2>2. QED
    BY <1>b, <2>1
<1>4. CASE HandleStats \/ HandleAnswer
  <2>1. /\ looper # <<>> /\ looper' = Tail(looper) /\ Head(looper).kind # "metadata"
        /\ UNCHANGED <<attached, generation, posted, announced, metadataBuffer>>
    BY <1>4 DEF HandleStats, HandleAnswer, Handle, attachment, sources, buffers, deliveries
  <2>2. \A i \in DOMAIN looper : looper[i].kind = "metadata" =>
          \E j \in DOMAIN looper' : looper'[j] = looper[i]
    BY <2>1, FirstPost
  <2>3. QED
    BY <1>1, <2>1, <2>2
<1>5. CASE HandleMetadata
  <2> DEFINE e == Head(looper)
  <2>1. /\ looper # <<>> /\ looper' = Tail(looper) /\ e.kind = "metadata"
        /\ UNCHANGED <<attached, generation, metadataSink, posted>>
    BY <1>5 DEF HandleMetadata, Handle, attachment, sources, sinks
  <2>2. /\ 1 \in DOMAIN looper /\ e = looper[1] /\ e \in Metadata
        /\ \A i \in DOMAIN looper :
             i = 1 \/ \E j \in DOMAIN looper' : looper'[j] = looper[i]
    BY <2>1, FirstPost
  <2>3. e.id \in Ids /\ e.gen \in Gens /\ <<e.gen, e.id>> \in posted
    BY <2>1, <2>2 DEF Metadata, SourceInv
  <2>4. \/ announced \subseteq announced' /\ UNCHANGED metadataBuffer
        \/ /\ UNCHANGED announced
           /\ metadataBuffer' = [metadataBuffer EXCEPT ![e.id] = e.gen]
        \/ ~attached
    BY <1>5 DEF HandleMetadata, EmitMetadata, MayEmit
  <2>5. \/ ~attached
        \/ <<e.gen, e.id>> \in announced'
        \/ metadataBuffer' = [metadataBuffer EXCEPT ![e.id] = e.gen]
    BY <1>5 DEF HandleMetadata, EmitMetadata, MayEmit
  <2>6. metadataBuffer \in [Ids -> 0..MaxGen]
    BY DEF EventType
  <2> HIDE DEF e
  <2>7. ASSUME NEW id \in Ids, Own(id)' PROVE Stays(id)'
    <3>1. Own(id) /\ attached
      BY <2>1, <2>7
    <3>2. e.id = id => e.gen = generation
      BY <2>3, <3>1
    <3>3. CASE <<generation, id>> \in announced
      BY <2>1, <2>4, <3>1, <3>3 DEF Stays
    <3>4. CASE metadataBuffer[id] = generation
      <4>1. CASE e.id = id
        BY <2>1, <2>4, <2>6, <3>1, <3>2, <3>4, <4>1 DEF Stays
      <4>2. CASE e.id # id
        BY <2>1, <2>4, <2>6, <3>1, <3>4, <4>2 DEF Stays
      <4>3. QED
        BY <4>1, <4>2
    <3>5. CASE \E i \in DOMAIN looper :
                 looper[i] = [kind |-> "metadata", gen |-> generation, id |-> id]
      <4>1. PICK i \in DOMAIN looper :
              looper[i] = [kind |-> "metadata", gen |-> generation, id |-> id]
        BY <3>5
      <4>2. CASE i = 1
        <5>1. e.gen = generation /\ e.id = id
          BY <2>2, <4>1, <4>2
        <5>2. QED
          BY <2>1, <2>5, <2>6, <3>1, <5>1 DEF Stays
      <4>3. CASE i # 1
        BY <2>1, <2>2, <4>1, <4>3 DEF Stays
      <4>4. QED
        BY <4>2, <4>3
    <3>6. QED
      BY <1>c, <3>1, <3>3, <3>4, <3>5 DEF Stays
  <2>8. QED
    BY <1>b, <2>7
<1>6. CASE ListenMetadata
  <2>1. /\ UNCHANGED <<attached, generation, looper, posted>>
        /\ announced' = announced \union
             {<<metadataBuffer[id], id>> : id \in {i \in Ids : metadataBuffer[i] # 0}}
    BY <1>6 DEF ListenMetadata, attachment, sources
  <2>2. ASSUME NEW id \in Ids, Own(id)' PROVE Stays(id)'
    <3>0. Own(id)
      BY <2>1, <2>2
    <3>1. Own(id) /\ generation # 0
      <4>1. generation \in {g \in Gens : <<g, id>> \in posted}
        BY <3>0
      <4>2. generation \in Gens
        BY <4>1
      <4>3. QED
        BY <3>0, <4>2 DEF Gens
    <3>2. CASE metadataBuffer[id] = generation
      BY <2>1, <3>1, <3>2 DEF Stays
    <3>3. CASE metadataBuffer[id] # generation
      BY <1>c, <2>1, <3>1, <3>3 DEF Stays
    <3>4. QED
      BY <3>2, <3>3
  <2>3. QED
    BY <1>b, <2>2
<1>7. CASE ListenProgress \/ CancelProgress \/ CancelMetadata
  BY <1>1, <1>7 DEF ListenProgress, CancelProgress, CancelMetadata, attachment,
     sources, buffers, deliveries
<1>8. ASSUME NEW m \in Posts, looper' = Append(looper, m),
             UNCHANGED <<attached, generation, posted, announced, metadataBuffer>>
      PROVE  MetadataKept'
  <2>1. looper \in Seq(Posts)
    BY DEF EventType
  <2>2. QED
    BY <1>1, <1>8, <2>1, AppendAt
<1>9. ASSUME NEW g \in Gens, NEW c \in Calls, PostCompletion(g, c) PROVE MetadataKept'
  <2>1. [kind |-> "answer", call |-> c] \in Posts
    BY DEF Posts, Answers
  <2>2. QED
    BY <1>8, <1>9, <2>1 DEF PostCompletion, attachment, sources, buffers, deliveries
<1>10. ASSUME NEW g \in Gens, DispatchStats(g) PROVE MetadataKept'
  <2>1. Cardinality(posted) \in Nat
    BY FS_CardinalityType DEF EventType
  <2>2. sent' = sent + 1 /\ sent' \in 1..MaxEvents
    BY <1>10, <2>1, AndroidAssumption DEF DispatchStats, MoreEvents, EventType
  <2>3. [kind |-> "stats", number |-> sent'] \in Posts
    BY <2>2 DEF Posts, Stats
  <2>4. QED
    BY <1>8, <1>10, <2>3 DEF DispatchStats, attachment, buffers, deliveries
<1>11. ASSUME NEW g \in Gens, NEW x \in Ids, DispatchMetadata(g, x) PROVE MetadataKept'
  <2> DEFINE m == [kind |-> "metadata", gen |-> g, id |-> x]
  <2>1. /\ posted' = posted \union {<<g, x>>} /\ looper' = Append(looper, m)
        /\ UNCHANGED <<attached, generation, announced, metadataBuffer>>
    BY <1>11 DEF DispatchMetadata, attachment, buffers, deliveries
  <2>2. m \in Posts
    BY DEF Posts, Metadata
  <2>3. /\ \A i \in DOMAIN looper : i \in DOMAIN looper' /\ looper'[i] = looper[i]
        /\ \E i \in DOMAIN looper' : looper'[i] = m
    <3>1. looper \in Seq(Posts)
      BY DEF EventType
    <3>2. QED
      BY <2>1, <2>2, <3>1, AppendAt
  <2>4. ASSUME NEW id \in Ids, Own(id)' PROVE Stays(id)'
    <3>1. CASE id = x
      <4>1. g = generation
        BY <2>1, <2>4, <3>1
      <4>2. QED
        BY <2>1, <2>3, <3>1, <4>1 DEF Stays
    <3>2. CASE id # x
      <4>1. Own(id)
        BY <2>1, <2>4, <3>2
      <4>2. Stays(id)
        BY <1>c, <4>1
      <4>3. QED
        BY <2>1, <2>3, <4>2 DEF Stays
    <3>3. QED
      BY <3>1, <3>2
  <2>5. QED
    BY <1>b, <2>4
<1>12. CASE \/ \E c \in Calls : Finalise(c)
            \/ \E g \in Gens : DestroyManager(g) \/ \E c \in Calls : Operation(g, c)
            \/ UNCHANGED vars
  <2>1. UNCHANGED <<looper, sinks, buffers, sent, posted, deliveries>>
    BY <1>12, OtherSteps
  <2>2. UNCHANGED <<attached, generation>>
    BY <1>12 DEF Finalise, DestroyManager, Operation, attachment, vars
  <2>3. QED
    BY <1>1, <2>1, <2>2 DEF buffers, deliveries
<1>13. QED
  BY <1>2, <1>3, <1>4, <1>5, <1>6, <1>7, <1>9, <1>10, <1>11, <1>12, EventCases

LEMMA EventInvInit == Init => EventInv
<1> SUFFICES ASSUME Init PROVE EventInv
  OBVIOUS
<1>1. EventType
  <2>1. <<>> \in Seq(Posts) /\ <<>> \in Seq(Stats) /\ Len(<<>>) = 0
    OBVIOUS
  <2>2. metadataBuffer \in [Ids -> 0..MaxGen]
    BY AndroidAssumption DEF Init, NoMetadata
  <2>3. 0 \in 0..MaxEvents /\ 0 \in 0..0 /\ 0 <= BufferCap
    BY AndroidAssumption
  <2>4. IsFiniteSet(posted) /\ posted \subseteq Gens \X Ids /\ announced \subseteq posted
    BY FS_EmptySet DEF Init
  <2>5. QED
    BY <2>1, <2>2, <2>3, <2>4 DEF Init, EventType
<1>2. DOMAIN statsBuffer = {} /\ DOMAIN looper = {}
  BY DEF Init
<1>3. SourceInv
  BY <1>2 DEF Init, SourceInv, NoMetadata
<1>4. StatsInOrder /\ MetadataKept
  BY <1>2 DEF Init, StatsInOrder, Ascending, MetadataKept
<1>5. QED
  BY <1>1, <1>3, <1>4 DEF EventInv

\* Events keep their order and their listeners-to-be on the way from the poll
\* threads over the looper and the buffers.
THEOREM EventInvCorrect == Spec => []EventInv
<1>1. Inv /\ EventInv /\ [Next]_vars => EventInv'
  BY EventTypeKept, SourceKept, OrderKept, MetadataIsKept DEF EventInv
<1>2. QED
  BY EventInvInit, InvCorrect, <1>1, PTL DEF Spec

\* Stats are delivered in the order they were sent, over the buffer, listeners
\* that come and go, and attachments whose managers overlap.
THEOREM StatsInOrderCorrect == Spec => []StatsInOrder
<1>1. EventInv => StatsInOrder
  BY DEF EventInv
<1>2. QED
  BY EventInvCorrect, <1>1, PTL

\* While attached, metadata of this attachment's manager is announced, kept for
\* a listener or on its way to one of the two.
THEOREM MetadataKeptCorrect == Spec => []MetadataKept
<1>1. EventInv => MetadataKept
  BY DEF EventInv
<1>2. QED
  BY EventInvCorrect, <1>1, PTL

\* Every variable keeps its type: the executors hold calls and destruction, the
\* looper what was posted, and the stats buffer no more than its bound.
THEOREM TypeCorrect == Spec => []TypeOK
<1>1. Inv /\ EventInv => TypeOK
  BY DEF Inv, CallType, Tasks, EventInv, EventType, Posts, TypeOK
<1>2. QED
  BY InvCorrect, EventInvCorrect, <1>1, PTL
=============================================================================

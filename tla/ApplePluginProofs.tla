------------------------- MODULE ApplePluginProofs -------------------------
(***************************************************************************)
(* Proofs about ApplePlugin, for any number of calls, codes and callbacks: *)
(* whichever thread gives up the plugin last, callbacks are safe, and the  *)
(* adapter implements AsyncFinalise.                                       *)
(***************************************************************************)
EXTENDS ApplePlugin, SequenceFacts

(***************************************************************************)
(* The inductive invariant                                                 *)
(***************************************************************************)

\* The plugin exists exactly as long as someone holds it, and what is native
\* is untouched until it goes.
LifeInv ==
  /\ plugin = "none" => /\ manager = "none" /\ context = "none"
                        /\ queue = <<>> /\ answers = <<>>
  /\ plugin = "alive" <=> engine \/ HoldsStrong
  /\ plugin # "gone" => manager \in {"none", "up"}
  /\ mainCall => engine /\ manager = "up"

\* The block of deinit is the last of the queue, and comes once.
DestroyInv ==
  /\ \A i \in DOMAIN queue : queue[i] = DestroyJob =>
       i = Len(queue) /\ plugin = "gone"
  /\ at # "idle" => queue # <<>>
  /\ at \in {"finalise", "post"} => queue[1] # DestroyJob
  /\ at \in {"join", "release"} => queue[1] = DestroyJob

\* The manager outlives the calls in the queue, and the context the manager.
NativeInv ==
  /\ manager \in {"up", "joining"} => context = "retained"
  /\ callback # "idle" => manager \in {"up", "joining"}
  /\ manager = "joining" <=> at = "join"
  /\ at = "release" => manager \in {"none", "down"}
  /\ \A i \in DOMAIN queue : queue[i] # DestroyJob => manager = "up"

\* An accepted call is in the queue until it has been executed.
TaskInv ==
  /\ \A i \in DOMAIN queue : queue[i] # DestroyJob =>
       /\ queue[i] \in accepted /\ answer[queue[i]] = "none"
       /\ (i # 1 \/ at # "post") => outcome[queue[i]] = "none"
       /\ i = 1 /\ at = "post" => outcome[queue[i]] # "none"
  /\ \A i, j \in DOMAIN queue : queue[i] = queue[j] => i = j
  /\ \A c \in accepted : outcome[c] = "none" => \E i \in DOMAIN queue : queue[i] = c
  /\ \A c \in Calls \ accepted : outcome[c] = "none"

\* A posted answer is that of a call that ran and still waits.
AnswerInv ==
  /\ \A i \in DOMAIN answers :
       /\ answers[i] \in accepted
       /\ outcome[answers[i]] # "none" /\ answer[answers[i]] = "none"
       /\ \A j \in DOMAIN queue : queue[j] # answers[i]
  /\ \A i, j \in DOMAIN answers : answers[i] = answers[j] => i = j

Inv == TypeOK /\ LifeInv /\ DestroyInv /\ NativeInv /\ TaskInv /\ AnswerInv

(***************************************************************************)
(* Steps by what they do to the queue                                      *)
(***************************************************************************)

Blocks == Calls \union {DestroyJob}

\* The steps that leave the queue and the answers alone.
Quiet ==
  \/ Register \/ BeginCall \/ EndCall \/ BeginFinalise \/ BeginDestroy \/ Joined
  \/ Enter \/ LoadPlugin \/ PostEvent
  \/ (Detach /\ HoldsStrong) \/ (Return /\ engine)
  \/ UNCHANGED vars

\* The steps with which the plugin goes.
Gone == (Detach /\ ~HoldsStrong) \/ (Return /\ ~engine)

LEMMA Cases ==
  [Next]_vars =>
    \/ Quiet \/ Gone \/ Finish \/ Finalised \/ PostAnswer \/ ReleaseContext
    \/ \E c \in Calls : Finalise(c)
<1>1. Next => \/ Register \/ BeginCall \/ EndCall \/ BeginFinalise
              \/ BeginDestroy \/ Joined \/ Enter \/ LoadPlugin \/ PostEvent
              \/ Detach \/ Return \/ Finish \/ Finalised \/ PostAnswer
              \/ ReleaseContext \/ \E c \in Calls : Finalise(c)
  BY DEF Next, Main, Worker, Poll
<1>2. Detach => Quiet \/ Gone
  BY DEF Quiet, Gone
<1>3. Return => Quiet \/ Gone
  BY DEF Quiet, Gone
<1>4. QED
  BY <1>1, <1>2, <1>3 DEF Quiet

LEMMA QuietFrame ==
  Quiet => UNCHANGED <<queue, answers, history>>
  BY DEF Quiet, Register, Detach, BeginCall, EndCall, BeginFinalise,
     BeginDestroy, Joined, Enter, LoadPlugin, PostEvent, Return, GiveUp, vars,
     main, worker, native, poll, history

LEMMA GoneFrame ==
  ASSUME LifeInv, Gone
  PROVE  /\ plugin = "alive" /\ plugin' = "gone" /\ ~mainCall'
         /\ ~engine' /\ (callback' = "idle" \/ (callback' = callback /\ ~HoldsStrong))
         /\ queue' = Append(queue, DestroyJob)
         /\ UNCHANGED <<at, answers, native, history, events>>
  BY DEF Gone, Detach, Return, GiveUp, Deinit, HoldsStrong, LifeInv, poll, main, native

(***************************************************************************)
(* Types                                                                   *)
(***************************************************************************)

LEMMA TypeKept == ASSUME Inv, [Next]_vars PROVE TypeOK'
<1> USE AppleAssumption DEF Inv, TypeOK
<1>1. CASE Quiet
  <2>1. UNCHANGED <<queue, answers, history>>
    BY <1>1, QuietFrame
  <2>2. CASE Register
    BY <2>1, <2>2 DEF Register, worker, native, poll, history
  <2>8. CASE BeginCall \/ EndCall
    BY <2>1, <2>8 DEF BeginCall, EndCall, worker, native, poll, history
  <2>9. CASE UNCHANGED vars
    BY <2>9 DEF vars
  <2>3. CASE BeginFinalise \/ BeginDestroy \/ Joined
    BY <2>1, <2>3 DEF BeginFinalise, BeginDestroy, Joined, main, native, poll, history
  <2>4. CASE Enter \/ LoadPlugin \/ PostEvent
    BY <2>1, <2>4 DEF Enter, LoadPlugin, PostEvent, main, worker, native, history
  <2>5. CASE Detach /\ HoldsStrong
    BY <2>1, <2>5 DEF Detach, GiveUp, native, poll, history
  <2>6. CASE Return /\ engine
    BY <2>1, <2>6 DEF Return, GiveUp, main, native, history
  <2>7. QED
    BY <1>1, <2>2, <2>3, <2>4, <2>5, <2>6, <2>8, <2>9 DEF Quiet
<1>2. CASE Gone
  <2>1. Append(queue, DestroyJob) \in Seq(Blocks)
    BY AppendProperties DEF Blocks
  <2>2. QED
    BY <1>2, <2>1, GoneFrame DEF Gone, Detach, Return, Blocks, native, history, poll, main, GiveUp, Deinit
<1>3. CASE Finish
  <2>1. Head(answers) \in Calls /\ Tail(answers) \in Seq(Calls)
    BY <1>3, HeadTailProperties DEF Finish
  <2>2. QED
    BY <1>3, <2>1 DEF Finish, worker, native, poll
<1>4. CASE Finalised
  <2>1. Head(queue) \in Calls
    BY <1>4, HeadTailProperties DEF Finalised, DestroyInv
  <2>2. QED
    BY <1>4, <2>1 DEF Finalised, main, native, poll
<1>5. CASE PostAnswer
  <2>1. queue # <<>> /\ Head(queue) \in Calls /\ Tail(queue) \in Seq(Blocks)
    BY <1>5, HeadTailProperties DEF PostAnswer, DestroyInv, Blocks
  <2>2. Append(answers, Head(queue)) \in Seq(Calls)
    BY <2>1, AppendProperties
  <2>3. QED
    BY <1>5, <2>1, <2>2 DEF PostAnswer, native, poll, history, Blocks
<1>6. CASE ReleaseContext
  <2>1. Tail(queue) \in Seq(Blocks)
    BY <1>6, HeadTailProperties DEF ReleaseContext, DestroyInv, Blocks
  <2>2. QED
    BY <1>6, <2>1 DEF ReleaseContext, main, poll, history, Blocks
<1>7. ASSUME NEW c \in Calls, Finalise(c) PROVE TypeOK'
  <2>1. Append(queue, c) \in Seq(Blocks)
    BY AppendProperties DEF Blocks
  <2>2. QED
    BY <1>7, <2>1 DEF Finalise, main, native, poll, Blocks
<1>8. QED
  BY <1>1, <1>2, <1>3, <1>4, <1>5, <1>6, <1>7, Cases

(***************************************************************************)
(* Who holds what                                                          *)
(***************************************************************************)

LEMMA LifeKept == ASSUME Inv, [Next]_vars PROVE LifeInv'
<1> USE DEF Inv, TypeOK, LifeInv, HoldsStrong
<1>1. CASE Quiet
  <2>1. UNCHANGED <<queue, answers>>
    BY <1>1, QuietFrame
  <2>2. CASE Register
    BY <2>1, <2>2 DEF Register, native, poll
  <2>3. CASE Detach /\ HoldsStrong
    BY <2>1, <2>3 DEF Detach, GiveUp, native, poll
  <2>9. CASE Return /\ engine
    BY <2>1, <2>9 DEF Return, GiveUp, native, main
  <2>4. CASE BeginDestroy \/ Joined \/ BeginFinalise
    BY <2>1, <2>4 DEF BeginDestroy, Joined, BeginFinalise, main, native, poll, DestroyInv
  <2>5. CASE BeginCall \/ EndCall
    BY <2>1, <2>5 DEF BeginCall, EndCall, native, poll
  <2>6. CASE Enter \/ LoadPlugin \/ PostEvent
    BY <2>1, <2>6 DEF Enter, LoadPlugin, PostEvent, main, native
  <2>7. CASE UNCHANGED vars
    BY <2>7 DEF vars
  <2>8. QED
    BY <1>1, <2>2, <2>3, <2>4, <2>5, <2>6, <2>7, <2>9 DEF Quiet
<1>2. CASE Gone
  <2>1. /\ plugin' = "gone" /\ ~mainCall' /\ ~engine'
        /\ \/ callback' = "idle"
           \/ callback' = callback /\ ~HoldsStrong
    BY <1>2, GoneFrame
  <2>2. QED
    BY <2>1
<1>3. CASE Finish
  BY <1>3 DEF Finish, worker, native, poll
<1>4. CASE Finalised
  BY <1>4 DEF Finalised, main, native, poll
<1>5. CASE PostAnswer
  BY <1>5 DEF PostAnswer, native, poll, DestroyInv
<1>6. CASE ReleaseContext
  BY <1>6 DEF ReleaseContext, main, poll, DestroyInv
<1>7. ASSUME NEW c \in Calls, Finalise(c) PROVE LifeInv'
  BY <1>7 DEF Finalise, main, native, poll
<1>8. QED
  BY <1>1, <1>2, <1>3, <1>4, <1>5, <1>6, <1>7, Cases

(***************************************************************************)
(* The queue                                                               *)
(***************************************************************************)

LEMMA QueueAppend ==
  ASSUME TypeOK, NEW b \in Blocks, queue' = Append(queue, b)
  PROVE  /\ DOMAIN queue' = DOMAIN queue \union {Len(queue) + 1}
         /\ Len(queue) + 1 \notin DOMAIN queue
         /\ \A i \in DOMAIN queue : queue'[i] = queue[i] /\ i # Len(queue) + 1
         /\ queue'[Len(queue) + 1] = b
         /\ Len(queue') = Len(queue) + 1
         /\ queue # <<>> => 1 \in DOMAIN queue
         /\ queue = <<>> => Len(queue) + 1 = 1
         /\ queue' # <<>>
<1>1. queue \in Seq(Blocks)
  BY DEF TypeOK, Blocks
<1>2. queue # <<>> => 1 \in DOMAIN queue
  BY <1>1, TailAt
<1>3. QED
  BY <1>1, <1>2, AppendAt, AppendProperties, EmptySeq

LEMMA QueueTail ==
  ASSUME TypeOK, queue # <<>>, queue' = Tail(queue)
  PROVE  /\ 1 \in DOMAIN queue /\ Head(queue) = queue[1]
         /\ \A i \in DOMAIN queue' :
              /\ i + 1 \in DOMAIN queue /\ i + 1 # 1
              /\ queue'[i] = queue[i + 1] /\ i \in Int
         /\ \A i \in DOMAIN queue :
              i = 1 \/ \E j \in DOMAIN queue' : queue'[j] = queue[i]
         /\ \A i, j \in DOMAIN queue' : i + 1 = j + 1 => i = j
         /\ Len(queue') = Len(queue) - 1 /\ Len(queue) \in Nat
         /\ Len(queue) = 1 => queue' = <<>> /\ DOMAIN queue' = {}
<1>1. queue \in Seq(Blocks)
  BY DEF TypeOK, Blocks
<1>2. QED
  BY <1>1, TailAt, EmptySeq

LEMMA DestroyKept == ASSUME Inv, [Next]_vars PROVE DestroyInv'
<1> USE DEF Inv, DestroyInv
<1>1. CASE Quiet
  <2>1. UNCHANGED queue
    BY <1>1, QuietFrame
  <2>2. CASE Register
    BY <2>1, <2>2 DEF Register, LifeInv, worker
  <2>3. CASE BeginFinalise \/ BeginDestroy
    <3>1. queue # <<>> => Head(queue) = queue[1]
      BY TailAt DEF TypeOK
    <3>2. QED
      BY <2>1, <2>3, <3>1 DEF BeginFinalise, BeginDestroy
  <2>4. CASE Joined
    BY <2>1, <2>4 DEF Joined
  <2>5. CASE BeginCall \/ EndCall \/ Enter \/ LoadPlugin \/ PostEvent
    BY <2>1, <2>5 DEF BeginCall, EndCall, Enter, LoadPlugin, PostEvent, worker
  <2>6. CASE (Detach /\ HoldsStrong) \/ (Return /\ engine)
    BY <2>1, <2>6 DEF Detach, Return, GiveUp
  <2>7. CASE UNCHANGED vars
    BY <2>7 DEF vars
  <2>8. QED
    BY <1>1, <2>2, <2>3, <2>4, <2>5, <2>6, <2>7 DEF Quiet
<1>2. CASE Gone
  <2>1. /\ queue' = Append(queue, DestroyJob) /\ UNCHANGED at
        /\ plugin = "alive" /\ plugin' = "gone"
    BY <1>2, GoneFrame
  <2>2. DestroyJob \in Blocks
    BY DEF Blocks
  <2>3. QED
    BY <2>1, <2>2, QueueAppend
<1>3. CASE Finish \/ Finalised
  BY <1>3 DEF Finish, Finalised, worker
<1>4. CASE PostAnswer \/ ReleaseContext
  <2>1. /\ queue # <<>> /\ queue' = Tail(queue) /\ at' = "idle"
        /\ UNCHANGED plugin
    BY <1>4 DEF PostAnswer, ReleaseContext
  <2>2. ASSUME NEW i \in DOMAIN queue', queue'[i] = DestroyJob
        PROVE  i = Len(queue') /\ plugin' = "gone"
    BY <2>1, <2>2, QueueTail
  <2>3. QED
    BY <2>1, <2>2
<1>5. ASSUME NEW c \in Calls, Finalise(c) PROVE DestroyInv'
  <2>1. plugin = "alive" /\ UNCHANGED <<at, plugin>>
    BY <1>5 DEF Finalise, LifeInv
  <2>2. CASE queue' = Append(queue, c)
    <3>1. c \in Blocks /\ c # DestroyJob
      BY AppleAssumption DEF Blocks
    <3>2. QED
      BY <2>1, <2>2, <3>1, QueueAppend
  <2>3. CASE UNCHANGED queue
    BY <2>1, <2>3
  <2>4. QED
    BY <1>5, <2>2, <2>3 DEF Finalise
<1>6. QED
  BY <1>1, <1>2, <1>3, <1>4, <1>5, Cases

LEMMA NativeKept == ASSUME Inv, [Next]_vars PROVE NativeInv'
<1> USE DEF Inv, NativeInv
<1>1. CASE Quiet
  <2>1. UNCHANGED queue
    BY <1>1, QuietFrame
  <2>2. CASE Register
    <3>1. DOMAIN queue' = {}
      BY <2>1, <2>2 DEF Register, LifeInv
    <3>2. QED
      BY <2>2, <3>1 DEF Register, LifeInv, DestroyInv, worker, native, poll
  <2>3. CASE BeginFinalise
    BY <2>1, <2>3 DEF BeginFinalise, native, poll
  <2>4. CASE BeginDestroy
    <3>1. queue # <<>> => 1 \in DOMAIN queue /\ Head(queue) = queue[1]
                          /\ \A i \in DOMAIN queue : i \in 1..Len(queue)
      BY TailAt DEF TypeOK
    <3>2. queue[1] = DestroyJob /\ Len(queue) = 1
      BY <2>4, <3>1 DEF BeginDestroy, DestroyInv
    <3>3. \A i \in DOMAIN queue : queue[i] = DestroyJob
      BY <2>4, <3>1, <3>2 DEF BeginDestroy
    <3>4. QED
      BY <2>1, <2>4, <3>3 DEF BeginDestroy, poll, TypeOK
  <2>5. CASE Joined
    <3>1. 1 \in DOMAIN queue /\ queue[1] = DestroyJob
          /\ \A i \in DOMAIN queue : i \in 1..Len(queue)
      BY <2>5, TailAt DEF Joined, DestroyInv, TypeOK
    <3>2. \A i \in DOMAIN queue : queue[i] = DestroyJob
      BY <3>1 DEF DestroyInv
    <3>3. QED
      BY <2>1, <2>5, <3>2 DEF Joined, poll
  <2>6. CASE BeginCall \/ EndCall
    BY <2>1, <2>6 DEF BeginCall, EndCall, worker, native, poll
  <2>7. CASE Enter \/ LoadPlugin \/ PostEvent
    BY <2>1, <2>7 DEF Enter, LoadPlugin, PostEvent, worker, native
  <2>8. CASE (Detach /\ HoldsStrong) \/ (Return /\ engine)
    BY <2>1, <2>8 DEF Detach, Return, GiveUp, native, poll
  <2>9. CASE UNCHANGED vars
    BY <2>9 DEF vars
  <2>10. QED
    BY <1>1, <2>2, <2>3, <2>4, <2>5, <2>6, <2>7, <2>8, <2>9 DEF Quiet
<1>2. CASE Gone
  <2>1. /\ queue' = Append(queue, DestroyJob)
        /\ UNCHANGED <<at, manager, context>>
        /\ callback' \in {callback, "idle"}
    BY <1>2, GoneFrame DEF native
  <2>2. DestroyJob \in Blocks
    BY DEF Blocks
  <2>3. QED
    BY <2>1, <2>2, QueueAppend
<1>3. CASE Finish \/ Finalised
  BY <1>3 DEF Finish, Finalised, worker, native, poll
<1>4. CASE PostAnswer
  <2>1. queue # <<>> /\ queue' = Tail(queue)
    BY <1>4 DEF PostAnswer, DestroyInv
  <2>2. QED
    BY <1>4, <2>1, QueueTail DEF PostAnswer, native, poll
<1>5. CASE ReleaseContext
  <2>1. queue # <<>> /\ queue' = Tail(queue) /\ Len(queue) = 1
    <3>1. queue # <<>> /\ queue' = Tail(queue) /\ queue[1] = DestroyJob
      BY <1>5 DEF ReleaseContext, DestroyInv
    <3>2. QED
      BY <3>1, QueueTail DEF DestroyInv
  <2>2. DOMAIN queue' = {}
    BY <2>1, QueueTail
  <2>3. QED
    BY <1>5, <2>2 DEF ReleaseContext, poll
<1>6. ASSUME NEW c \in Calls, Finalise(c) PROVE NativeInv'
  <2>1. UNCHANGED <<at, manager, context, callback>>
    BY <1>6 DEF Finalise, native, poll
  <2>2. CASE manager # "none" /\ queue' = Append(queue, c)
    <3>1. c \in Blocks /\ manager = "up"
      BY <1>6, <2>2 DEF Blocks, Finalise, LifeInv
    <3>2. QED
      BY <2>1, <2>2, <3>1, QueueAppend
  <2>3. CASE UNCHANGED queue
    BY <2>1, <2>3
  <2>4. QED
    BY <1>6, <2>2, <2>3 DEF Finalise
<1>7. QED
  BY <1>1, <1>2, <1>3, <1>4, <1>5, <1>6, Cases

(***************************************************************************)
(* The calls                                                               *)
(***************************************************************************)

\* What PostAnswer and ReleaseContext take from the queue.
LEMMA Popped ==
  ASSUME Inv, PostAnswer \/ ReleaseContext
  PROVE  /\ queue # <<>> /\ queue' = Tail(queue) /\ at' = "idle"
         /\ PostAnswer => /\ queue[1] \in accepted /\ queue[1] \in Calls
                          /\ outcome[queue[1]] # "none" /\ answer[queue[1]] = "none"
                          /\ answers' = Append(answers, queue[1])
         /\ ReleaseContext => queue[1] = DestroyJob /\ UNCHANGED answers
         /\ UNCHANGED history
<1>1. queue # <<>> /\ queue' = Tail(queue) /\ at' = "idle" /\ UNCHANGED history
  BY DEF PostAnswer, ReleaseContext, Inv, DestroyInv
<1>2. 1 \in DOMAIN queue /\ Head(queue) = queue[1]
  BY <1>1, QueueTail DEF Inv
<1>3. QED
  BY <1>1, <1>2 DEF PostAnswer, ReleaseContext, Inv, DestroyInv, TaskInv, TypeOK, main

LEMMA TaskKept == ASSUME Inv, [Next]_vars PROVE TaskInv'
<1> USE DEF Inv, TaskInv
<1>1. CASE Quiet
  <2>1. UNCHANGED <<queue, accepted, outcome, answer>>
    BY <1>1, QuietFrame DEF history
  <2>2. at' = "post" <=> at = "post"
    BY <1>1 DEF Quiet, Register, BeginCall, EndCall, BeginFinalise, BeginDestroy,
       Joined, Enter, LoadPlugin, PostEvent, Detach, Return, vars, worker
  <2>3. QED
    BY <2>1, <2>2
<1>2. CASE Gone
  <2>1. /\ queue' = Append(queue, DestroyJob)
        /\ UNCHANGED <<at, accepted, outcome, answer>>
        /\ \A i \in DOMAIN queue : queue[i] # DestroyJob
    BY <1>2, GoneFrame DEF history, DestroyInv
  <2>2. DestroyJob \in Blocks
    BY DEF Blocks
  <2>3. QED
    BY <2>1, <2>2, QueueAppend
<1>3. CASE Finish
  <2>1. answers # <<>> /\ UNCHANGED <<queue, at, accepted, outcome>>
    BY <1>3 DEF Finish, worker
  <2>2. 1 \in DOMAIN answers /\ Head(answers) = answers[1] /\ Head(answers) \in Calls
    BY <2>1, TailAt DEF TypeOK
  <2>3. answer' = [answer EXCEPT ![answers[1]] = outcome[answers[1]]]
    BY <1>3, <2>2 DEF Finish
  <2>4. \A i \in DOMAIN queue : queue[i] # answers[1] /\ queue[i] \in Blocks
    BY <2>2 DEF AnswerInv, TypeOK, Blocks
  <2>5. \A i \in DOMAIN queue :
          queue[i] # DestroyJob => answer'[queue[i]] = answer[queue[i]]
    BY <2>3, <2>4 DEF TypeOK, Blocks
  <2>6. QED
    BY <2>1, <2>5
<1>4. CASE Finalised
  <2>1. /\ queue # <<>> /\ at = "finalise" /\ at' = "post"
        /\ UNCHANGED <<queue, accepted, answer>>
    BY <1>4 DEF Finalised, DestroyInv
  <2>2. 1 \in DOMAIN queue /\ Head(queue) = queue[1] /\ queue[1] # DestroyJob
    BY <2>1, TailAt DEF TypeOK, DestroyInv
  <2>3. PICK code \in Codes : outcome' = [outcome EXCEPT ![queue[1]] = code]
    BY <1>4, <2>2 DEF Finalised
  <2>4. queue[1] \in accepted /\ queue[1] \in Calls /\ code # "none"
    BY <2>2, AppleAssumption DEF TypeOK
  <2>5. \A c \in Calls : outcome'[c] = IF c = queue[1] THEN code ELSE outcome[c]
    BY <2>3 DEF TypeOK
  <2>6. accepted \subseteq Calls
    BY DEF TypeOK
  <2>7. QED
    BY <2>1, <2>2, <2>4, <2>5, <2>6
<1>5. CASE PostAnswer \/ ReleaseContext
  <2>1. /\ queue # <<>> /\ queue' = Tail(queue) /\ at' = "idle"
        /\ UNCHANGED <<accepted, outcome, answer>>
        /\ queue[1] # DestroyJob => outcome[queue[1]] # "none"
    BY <1>5, Popped DEF history
  <2>2. DestroyJob \notin accepted
    BY AppleAssumption DEF TypeOK
  <2>3. \A i \in DOMAIN queue' : queue'[i] # DestroyJob =>
          /\ queue'[i] \in accepted /\ answer[queue'[i]] = "none"
          /\ outcome[queue'[i]] = "none"
    BY <2>1, QueueTail
  <2>4. \A i, j \in DOMAIN queue' : queue'[i] = queue'[j] => i = j
    BY <2>1, QueueTail
  <2>5. \A c \in accepted : outcome[c] = "none" => \E i \in DOMAIN queue' : queue'[i] = c
    BY <2>1, <2>2, QueueTail
  <2>6. QED
    BY <2>1, <2>3, <2>4, <2>5
<1>6. ASSUME NEW c \in Calls, Finalise(c) PROVE TaskInv'
  <2>1. c \notin accepted /\ answer[c] = "none" /\ UNCHANGED <<at, outcome>>
    BY <1>6 DEF Finalise, Fresh
  <2>2. CASE /\ queue' = Append(queue, c) /\ accepted' = accepted \union {c}
             /\ UNCHANGED answer
    <3>1. c \in Blocks /\ c # DestroyJob /\ outcome[c] = "none"
      BY <2>1, AppleAssumption DEF Blocks
    <3>2. \A i \in DOMAIN queue : queue[i] # c
      BY <2>1, <3>1
    <3>3. at = "post" => queue # <<>>
      BY DEF DestroyInv
    <3>4. QED
      BY <2>1, <2>2, <3>1, <3>2, <3>3, QueueAppend
  <2>3. CASE /\ answer' = [answer EXCEPT ![c] = "unavailable"]
             /\ UNCHANGED <<queue, accepted>>
    <3>1. \A d \in accepted : answer'[d] = answer[d]
      BY <2>1, <2>3 DEF TypeOK
    <3>2. QED
      BY <2>1, <2>3, <3>1
  <2>4. QED
    BY <1>6, <2>2, <2>3 DEF Finalise
<1>7. QED
  BY <1>1, <1>2, <1>3, <1>4, <1>5, <1>6, Cases

LEMMA AnswerKept == ASSUME Inv, [Next]_vars PROVE AnswerInv'
<1> USE DEF Inv, AnswerInv
<1>1. CASE Quiet
  BY <1>1, QuietFrame DEF history
<1>2. CASE Gone
  <2>1. queue' = Append(queue, DestroyJob) /\ UNCHANGED <<answers, history>>
    BY <1>2, GoneFrame
  <2>2. DestroyJob \in Blocks /\ DestroyJob \notin accepted
    BY AppleAssumption DEF Blocks, TypeOK
  <2>3. QED
    BY <2>1, <2>2, QueueAppend DEF history
<1>3. CASE Finish
  <2>1. /\ answers # <<>> /\ answers' = Tail(answers) /\ answers \in Seq(Calls)
        /\ UNCHANGED <<queue, accepted, outcome>>
    BY <1>3 DEF Finish, worker, TypeOK
  <2>2. 1 \in DOMAIN answers /\ Head(answers) = answers[1] /\ Head(answers) \in Calls
    BY <2>1, TailAt
  <2>3. \A d \in Calls : d # answers[1] => answer'[d] = answer[d]
    BY <1>3, <2>2 DEF Finish, TypeOK
  <2>4. \A i \in DOMAIN answers' :
          /\ i + 1 \in DOMAIN answers /\ i + 1 # 1 /\ answers'[i] = answers[i + 1]
          /\ answers'[i] # answers[1]
    BY <2>1, <2>2, TailAt
  <2>5. \A i, j \in DOMAIN answers' : answers'[i] = answers'[j] => i = j
    BY <2>1, <2>4, TailAt
  <2>6. accepted \subseteq Calls
    BY DEF TypeOK
  <2>7. QED
    BY <2>1, <2>3, <2>4, <2>5, <2>6
<1>4. CASE Finalised
  <2>1. /\ queue # <<>> /\ UNCHANGED <<queue, answers, accepted, answer>>
    BY <1>4 DEF Finalised, DestroyInv, main
  <2>2. 1 \in DOMAIN queue /\ Head(queue) = queue[1]
    BY <2>1, TailAt DEF TypeOK
  <2>3. \A i \in DOMAIN answers : outcome'[answers[i]] = outcome[answers[i]]
    BY <1>4, <2>2 DEF Finalised, TypeOK
  <2>4. QED
    BY <2>1, <2>3
<1>5. CASE ReleaseContext
  <2>1. queue # <<>> /\ queue' = Tail(queue) /\ UNCHANGED <<answers, history>>
    BY <1>5, Popped
  <2>2. QED
    BY <2>1, QueueTail DEF history
<1>6. CASE PostAnswer
  <2>1. /\ queue # <<>> /\ queue' = Tail(queue) /\ UNCHANGED history
        /\ queue[1] \in accepted /\ queue[1] \in Calls
        /\ outcome[queue[1]] # "none" /\ answer[queue[1]] = "none"
        /\ answers' = Append(answers, queue[1]) /\ answers \in Seq(Calls)
    BY <1>6, Popped DEF TypeOK
  <2>2. \A j \in DOMAIN queue' :
          /\ queue'[j] # queue[1]
          /\ \A i \in DOMAIN answers : queue'[j] # answers[i]
    BY <2>1, QueueTail DEF TaskInv
  <2>3. \A i \in DOMAIN answers : answers[i] # queue[1]
    BY <2>1, QueueTail
  <2>4. QED
    BY <2>1, <2>2, <2>3, AppendAt DEF history
<1>7. ASSUME NEW c \in Calls, Finalise(c) PROVE AnswerInv'
  <2>1. c \notin accepted /\ answer[c] = "none" /\ UNCHANGED <<answers, outcome>>
    BY <1>7 DEF Finalise, Fresh, main
  <2>2. CASE /\ queue' = Append(queue, c) /\ accepted' = accepted \union {c}
             /\ UNCHANGED answer
    BY <2>1, <2>2, QueueAppend DEF Blocks
  <2>3. CASE /\ answer' = [answer EXCEPT ![c] = "unavailable"]
             /\ UNCHANGED <<queue, accepted>>
    <3>1. \A d \in accepted : answer'[d] = answer[d]
      BY <2>1, <2>3 DEF TypeOK
    <3>2. QED
      BY <2>1, <2>3, <3>1
  <2>4. QED
    BY <1>7, <2>2, <2>3 DEF Finalise
<1>8. QED
  BY <1>1, <1>2, <1>3, <1>4, <1>5, <1>6, <1>7, Cases

(***************************************************************************)
(* Results                                                                 *)
(***************************************************************************)

LEMMA InvInit == Init => Inv
<1> SUFFICES ASSUME Init PROVE Inv
  OBVIOUS
<1>1. TypeOK
  <2>1. queue \in Seq(Calls \union {DestroyJob}) /\ answers \in Seq(Calls)
    BY EmptySeq DEF Init
  <2>2. /\ outcome \in [Calls -> Codes \union {"none"}]
        /\ answer \in [Calls -> Codes \union {"none", "unavailable"}]
    BY DEF Init
  <2>3. events \in 0..MaxEvents
    BY AppleAssumption DEF Init
  <2>4. QED
    BY <2>1, <2>2, <2>3 DEF Init, TypeOK
<1>2. DOMAIN queue = {} /\ DOMAIN answers = {}
  BY DEF Init
<1>3. LifeInv
  BY DEF Init, LifeInv, HoldsStrong
<1>4. DestroyInv /\ NativeInv
  BY <1>2 DEF Init, DestroyInv, NativeInv
<1>5. TaskInv /\ AnswerInv
  BY <1>2 DEF Init, TaskInv, AnswerInv
<1>6. QED
  BY <1>1, <1>3, <1>4, <1>5 DEF Inv

\* What is held together at every moment by the reference counts, the order of
\* finaliseQueue and the join in nativeDestroy (init, deinit and handle).
THEOREM InvCorrect == Spec => []Inv
<1>1. Inv /\ [Next]_vars => Inv'
  BY TypeKept, LifeKept, DestroyKept, NativeKept, TaskKept, AnswerKept DEF Inv
<1>2. QED
  BY <1>1, InvInit, PTL DEF Spec

\* Whichever thread runs deinit, and whenever: callbacks and native calls never
\* meet a context, a manager or a plugin that is gone (deinit, statsCallback,
\* metadataCallback).
THEOREM CallbacksAreSafeCorrect == Spec => []CallbacksAreSafe
<1>1. Inv => CallbacksAreSafe
  <2> SUFFICES ASSUME Inv PROVE CallbacksAreSafe
    OBVIOUS
  <2>1. at = "finalise" => manager = "up"
    BY TailAt DEF Inv, TypeOK, DestroyInv, NativeInv
  <2>2. QED
    BY <2>1 DEF Inv, LifeInv, NativeInv, CallbacksAreSafe
<1>2. QED
  BY <1>1, InvCorrect, PTL

(***************************************************************************)
(* What Concluded rests on: nothing is left that no thread will come to    *)
(***************************************************************************)

\* An accepted call that is not answered is in the queue or on the main queue,
\* and as long as the manager or the context of a plugin that is gone is
\* there, the block that will dispose of them is in the queue.
NothingStranded ==
  /\ \A c \in accepted : answer[c] = "none" => Holds(queue, c) \/ Holds(answers, c)
  /\ \/ plugin # "gone"
     \/ Holds(queue, DestroyJob)
     \/ manager \in {"none", "down"} /\ context # "retained"

LEMMA StrandedKept ==
  ASSUME Inv, NothingStranded, [Next]_vars PROVE NothingStranded'
<1> USE DEF Inv, NothingStranded
<1>0. queue \in Seq(Blocks) /\ answers \in Seq(Calls)
  BY DEF TypeOK, Blocks
<1>1. CASE Quiet
  <2>1. UNCHANGED <<queue, answers, history>>
    BY <1>1, QuietFrame
  <2>2. CASE Register
    BY <2>1, <2>2 DEF Register, history
  <2>3. CASE BeginDestroy
    <3>1. Holds(queue, DestroyJob)
      BY <1>0, <2>3, HoldsTail DEF BeginDestroy
    <3>2. QED
      BY <2>1, <3>1 DEF history
  <2>4. CASE Joined
    BY <2>1, <2>4 DEF Joined, history
  <2>5. CASE BeginCall \/ EndCall \/ BeginFinalise \/ Enter \/ LoadPlugin \/ PostEvent
    BY <2>1, <2>5 DEF BeginCall, EndCall, BeginFinalise, Enter, LoadPlugin,
       PostEvent, native, history
  <2>6. CASE (Detach /\ HoldsStrong) \/ (Return /\ engine)
    BY <2>1, <2>6 DEF Detach, Return, GiveUp, native, history
  <2>7. CASE UNCHANGED vars
    BY <2>7 DEF vars
  <2>8. QED
    BY <1>1, <2>2, <2>3, <2>4, <2>5, <2>6, <2>7 DEF Quiet
<1>2. CASE Gone
  <2>1. queue' = Append(queue, DestroyJob) /\ UNCHANGED <<answers, history>>
    BY <1>2, GoneFrame
  <2>2. DestroyJob \in Blocks
    BY DEF Blocks
  <2>3. QED
    BY <1>0, <2>1, <2>2, HoldsAppend DEF history
<1>3. CASE Finish
  <2>1. /\ answers # <<>> /\ answers' = Tail(answers) /\ answers \in Seq(Calls)
        /\ UNCHANGED <<queue, plugin, manager, context, accepted, outcome>>
    BY <1>3 DEF Finish, worker, native, TypeOK
  <2>2. 1 \in DOMAIN answers /\ Head(answers) = answers[1] /\ Head(answers) \in Calls
    BY <2>1, TailAt
  <2>3. outcome[answers[1]] # "none"
    BY <2>2 DEF AnswerInv
  <2>4. \A c \in Calls : answer'[c] = IF c = answers[1] THEN outcome[c] ELSE answer[c]
    BY <1>3, <2>2 DEF Finish, TypeOK
  <2>5. \A c \in accepted :
          answer'[c] = "none" => c # Head(answers) /\ answer[c] = "none"
    BY <2>2, <2>3, <2>4 DEF TypeOK
  <2>6. \A c : Holds(answers, c) => c = Head(answers) \/ Holds(answers', c)
    BY <2>1, HoldsTail
  <2>7. QED
    BY <2>1, <2>5, <2>6
<1>4. CASE Finalised
  BY <1>4 DEF Finalised, main, native
<1>5. CASE PostAnswer
  <2>1. /\ queue # <<>> /\ queue' = Tail(queue) /\ queue[1] \in Calls
        /\ answers' = Append(answers, queue[1])
        /\ UNCHANGED <<plugin, manager, context, accepted, answer>>
    BY <1>5, Popped DEF PostAnswer, native, history
  <2>2. Head(queue) = queue[1] /\ queue[1] # DestroyJob
    BY <2>1, QueueTail, AppleAssumption
  <2>3. \A b : Holds(queue, b) => b = queue[1] \/ Holds(queue', b)
    BY <1>0, <2>1, <2>2, HoldsTail
  <2>4. /\ Holds(answers', queue[1])
        /\ \A c : Holds(answers, c) => Holds(answers', c)
    BY <1>0, <2>1, HoldsAppend
  <2>5. QED
    BY <2>1, <2>2, <2>3, <2>4
<1>6. CASE ReleaseContext
  <2>1. /\ queue # <<>> /\ queue' = Tail(queue) /\ queue[1] = DestroyJob
        /\ UNCHANGED <<answers, accepted, answer>>
    BY <1>6, Popped DEF history
  <2>2. DestroyJob \notin accepted
    BY AppleAssumption DEF TypeOK
  <2>3. manager' \in {"none", "down"} /\ context' # "retained"
    BY <1>6 DEF ReleaseContext, NativeInv
  <2>4. \A b : Holds(queue, b) => b = DestroyJob \/ Holds(queue', b)
    <3>1. Head(queue) = DestroyJob
      BY <2>1, QueueTail
    <3>2. QED
      BY <1>0, <2>1, <3>1, HoldsTail
  <2>5. QED
    BY <2>1, <2>2, <2>3, <2>4
<1>7. ASSUME NEW c \in Calls, Finalise(c) PROVE NothingStranded'
  <2>1. UNCHANGED <<plugin, manager, context, answers>>
    BY <1>7 DEF Finalise, main, native
  <2>2. CASE /\ queue' = Append(queue, c) /\ accepted' = accepted \union {c}
             /\ UNCHANGED answer
    BY <1>0, <2>1, <2>2, HoldsAppend DEF Blocks
  <2>3. CASE /\ answer' = [answer EXCEPT ![c] = "unavailable"]
             /\ UNCHANGED <<queue, accepted>>
    <3>1. \A d \in accepted : answer'[d] = answer[d]
      BY <1>7, <2>3 DEF Finalise, Fresh, TypeOK
    <3>2. QED
      BY <2>1, <2>3, <3>1
  <2>4. QED
    BY <1>7, <2>2, <2>3 DEF Finalise
<1>8. QED
  BY <1>1, <1>2, <1>3, <1>4, <1>5, <1>6, <1>7, Cases

\* At every moment whatever is still owed is in a queue that some thread will
\* serve: the answer to an accepted call, and after deinit the destruction of
\* the manager and the release of the context (deinit, finaliseQueue, finish).
THEOREM NothingStrandedCorrect == Spec => []NothingStranded
<1>1. Init => NothingStranded
  BY DEF Init, NothingStranded
<1>2. Inv /\ NothingStranded /\ [Next]_vars => NothingStranded'
  BY StrandedKept
<1>3. QED
  BY <1>1, <1>2, InvCorrect, PTL DEF Spec

\* An accepted call is told what its own native finalise returned, and nothing
\* else: not even deinit answers for it.
ToldOwnCode == \A c \in accepted : answer[c] \in {"none", outcome[c]}

LEMMA OwnCodeKept == ASSUME Inv, ToldOwnCode, [Next]_vars PROVE ToldOwnCode'
<1> USE DEF Inv, ToldOwnCode
<1>1. CASE Quiet \/ Gone \/ PostAnswer \/ ReleaseContext
  <2>1. UNCHANGED history
    BY <1>1, QuietFrame, GoneFrame, Popped
  <2>2. QED
    BY <2>1 DEF history
<1>2. CASE Finish
  BY <1>2 DEF Finish, TypeOK
<1>3. CASE Finalised
  <2>1. /\ queue # <<>> /\ at = "finalise" /\ UNCHANGED <<accepted, answer>>
        /\ \A c \in Calls : c # Head(queue) => outcome'[c] = outcome[c]
    BY <1>3 DEF Finalised, DestroyInv, TypeOK
  <2>2. 1 \in DOMAIN queue /\ Head(queue) = queue[1] /\ queue[1] # DestroyJob
    BY <2>1, TailAt DEF TypeOK, DestroyInv
  <2>3. answer[Head(queue)] = "none"
    BY <2>2 DEF TaskInv
  <2>4. QED
    BY <2>1, <2>3 DEF TypeOK
<1>4. ASSUME NEW c \in Calls, Finalise(c) PROVE ToldOwnCode'
  BY <1>4 DEF Finalise, Fresh, TypeOK
<1>5. QED
  BY <1>1, <1>2, <1>3, <1>4, Cases

\* Whoever gives up the plugin, and when: the application is told the code of the
\* finalise it asked for, or has still to wait for it (finish, in handle).
THEOREM ToldOwnCodeCorrect == Spec => []ToldOwnCode
<1>1. Init => ToldOwnCode
  BY DEF Init, ToldOwnCode
<1>2. Inv /\ ToldOwnCode /\ [Next]_vars => ToldOwnCode'
  BY OwnCodeKept
<1>3. QED
  BY <1>1, <1>2, InvCorrect, PTL DEF Spec

ManagerMap == IF manager = "down" THEN "down" ELSE "up"

LEMMA StepMaps == ASSUME Inv, [Next]_vars PROVE Abstract!ANext \/ UNCHANGED Abstract!avars
<1> USE DEF Inv
<1>1. CASE ManagerMap' = ManagerMap /\ UNCHANGED history
  BY <1>1 DEF ManagerMap, history, Abstract!avars
<1>2. CASE Quiet
  <2>1. UNCHANGED <<queue, history>>
    BY <1>2, QuietFrame
  <2>2. CASE Joined
    <3>1. 1 \in DOMAIN queue /\ queue[1] = DestroyJob
          /\ \A i \in DOMAIN queue : i \in 1..Len(queue)
      BY <2>2, TailAt DEF Joined, DestroyInv, TypeOK
    <3>2. \A i \in DOMAIN queue : queue[i] = DestroyJob
      BY <3>1 DEF DestroyInv
    <3>3. \A c \in accepted : outcome[c] # "none"
      BY <3>2, AppleAssumption DEF TaskInv, TypeOK
    <3>4. manager = "joining" /\ manager' = "down"
      BY <2>2 DEF Joined, NativeInv
    <3>5. Abstract!Destroy
      BY <2>1, <3>3, <3>4 DEF Abstract!Destroy, history
    <3>6. QED
      BY <3>5 DEF Abstract!ANext
  <2>3. CASE Register
    BY <1>1, <2>1, <2>3 DEF Register, LifeInv, ManagerMap, native
  <2>4. CASE BeginDestroy
    BY <1>1, <2>1, <2>4 DEF BeginDestroy, ManagerMap
  <2>5. CASE BeginCall \/ EndCall \/ BeginFinalise \/ Enter \/ LoadPlugin \/ PostEvent
    BY <1>1, <2>1, <2>5 DEF BeginCall, EndCall, BeginFinalise, Enter, LoadPlugin,
       PostEvent, ManagerMap, native
  <2>6. CASE (Detach /\ HoldsStrong) \/ (Return /\ engine)
    BY <1>1, <2>1, <2>6 DEF Detach, Return, GiveUp, ManagerMap, native
  <2>7. CASE UNCHANGED vars
    BY <1>1, <2>1, <2>7 DEF vars, ManagerMap
  <2>8. QED
    BY <1>2, <2>2, <2>3, <2>4, <2>5, <2>6, <2>7 DEF Quiet
<1>3. CASE Gone
  <2>1. UNCHANGED <<native, history>>
    BY <1>3, GoneFrame
  <2>2. QED
    BY <1>1, <2>1 DEF ManagerMap, native
<1>4. CASE PostAnswer \/ ReleaseContext
  BY <1>1, <1>4 DEF PostAnswer, ReleaseContext, ManagerMap, native
<1>5. CASE Finish
  <2>1. answers # <<>> /\ UNCHANGED <<accepted, outcome, manager>>
    BY <1>5 DEF Finish, native
  <2>2. /\ 1 \in DOMAIN answers /\ Head(answers) = answers[1]
        /\ Head(answers) \in Calls
    BY <2>1, TailAt DEF TypeOK
  <2>3. PICK c \in Calls : c = answers[1]
    BY <2>2
  <2>4. Abstract!Answer(c)
    BY <1>5, <2>1, <2>2, <2>3 DEF Finish, AnswerInv, Abstract!Answer
  <2>5. QED
    BY <2>4 DEF Abstract!ANext
<1>6. CASE Finalised
  <2>1. queue # <<>> /\ at = "finalise" /\ UNCHANGED <<accepted, answer, manager>>
    BY <1>6 DEF Finalised, DestroyInv, native
  <2>2. /\ 1 \in DOMAIN queue /\ Head(queue) = queue[1]
        /\ queue[1] # DestroyJob /\ queue[1] \in Calls
    BY <2>1, TailAt DEF TypeOK, DestroyInv, TaskInv
  <2>3. PICK c \in Calls : c = queue[1]
    BY <2>2
  <2>4. c \in accepted /\ outcome[c] = "none" /\ manager = "up"
    BY <2>1, <2>2, <2>3 DEF TaskInv, NativeInv
  <2>5. Abstract!Execute(c)
    BY <1>6, <2>1, <2>2, <2>3, <2>4 DEF Finalised, Abstract!Execute
  <2>6. QED
    BY <2>5 DEF Abstract!ANext
<1>7. ASSUME NEW c \in Calls, Finalise(c)
      PROVE  Abstract!ANext \/ UNCHANGED Abstract!avars
  <2>1. /\ engine /\ Fresh(c) /\ UNCHANGED <<outcome, manager>>
    BY <1>7 DEF Finalise, native
  <2>2. CASE /\ manager # "none" /\ accepted' = accepted \union {c}
             /\ UNCHANGED answer
    <3>1. Abstract!Accept(c)
      BY <2>1, <2>2 DEF LifeInv, Fresh, Abstract!Accept, Abstract!Fresh
    <3>2. QED
      BY <3>1 DEF Abstract!ANext
  <2>3. CASE answer' = [answer EXCEPT ![c] = "unavailable"] /\ UNCHANGED accepted
    <3>1. Abstract!Refuse(c)
      BY <2>1, <2>3 DEF Fresh, Abstract!Refuse, Abstract!Fresh
    <3>2. QED
      BY <3>1 DEF Abstract!ANext
  <2>4. QED
    BY <1>7, <2>2, <2>3 DEF Finalise
<1>8. QED
  BY <1>2, <1>3, <1>4, <1>5, <1>6, <1>7, Cases

\* A finalise accepted before the plugin goes runs once, on a manager that is
\* still there, and is answered at most once, with its own code, also after
\* deinit (finalise in handle, and deinit).
THEOREM Refinement == Spec => ImplementsAsyncFinalise
<1>1. Init => Abstract!AInit
  BY DEF Init, Abstract!AInit
<1>2. Inv /\ [Next]_vars => [Abstract!ANext]_(Abstract!avars)
  BY StepMaps
<1>3. QED
  BY <1>1, <1>2, InvCorrect, PTL DEF Spec, ImplementsAsyncFinalise, Abstract!ASpec
=============================================================================

------------------------ MODULE TorrentManagerProofs ------------------------
(***************************************************************************)
(* Proofs about TorrentManager for every set of threads and hashes, every  *)
(* bound on ids and alerts and every set of limits.                        *)
(***************************************************************************)
EXTENDS TorrentManager, TLAPS

(***************************************************************************)
(* Types                                                                   *)
(***************************************************************************)

\* A new manager's variables have their types.
LEMMA TypeInit == Init => TypeOK
  BY ManagerAssumption DEF Init, TypeOK, Ids, NoAlert, NoReply, Pcs

\* An answer built from its parts is an answer.
LEMMA ReplyType ==
  ASSUME NEW o \in Ops, NEW i \in 0..MaxId, NEW c \in Codes, Reply(o, i, c)
  PROVE  reply' \in Replies \union {NoReply}
  BY DEF Reply, Replies

\* What a returning call does to its thread's variables is well typed.
LEMMA ReturnType ==
  ASSUME TypeOK, NEW t \in Threads, NEW op \in Ops, NEW code \in Codes,
         Return(t, op, code)
  PROVE  /\ pc' \in [Threads -> Pcs]
         /\ arg' \in [Threads -> 0..MaxId]
         /\ \A u \in Threads : pc'[u] # "idle" => arg'[u] \in Ids
         /\ reply' \in Replies \union {NoReply}
<1>1. arg[t] \in 0..MaxId
  BY DEF TypeOK
<1>2. reply' \in Replies \union {NoReply}
  BY <1>1, ReplyType DEF Return
<1>3. QED
  BY <1>2, ManagerAssumption DEF Return, Goto, TypeOK, Pcs

\* Posting, or losing, an alert leaves a queue of alerts.
LEMMA PostType ==
  ASSUME TypeOK, NEW kind \in {"flushed", "removed"}, NEW i \in Ids,
         Post(kind, i)
  PROVE  alerts' \in Seq(Alerts)
<1>1. [kind |-> kind, id |-> i] \in Alerts
  BY DEF Alerts
<1>2. alerts \in Seq(Alerts)
  BY DEF TypeOK
<1>3. Append(alerts, [kind |-> kind, id |-> i]) \in Seq(Alerts)
  BY <1>1, <1>2
<1>4. QED
  BY <1>2, <1>3 DEF Post

\* Every handler, call and library step keeps the types.
LEMMA TypeNext == TypeOK /\ [Next]_vars => TypeOK'
<1> SUFFICES ASSUME TypeOK, [Next]_vars PROVE TypeOK'
  OBVIOUS
<1> USE ManagerAssumption
    DEF TypeOK, registry, barrier, threads, library, At
<1>1. ASSUME NEW t \in Threads, NEW h \in Hashes, StartRefused(t, h) PROVE TypeOK'
  BY <1>1 DEF StartRefused, Reply, Ops, Codes, Replies, Ids
<1>2. ASSUME NEW t \in Threads, NEW h \in Hashes, StartAccepted(t, h) PROVE TypeOK'
  BY <1>2 DEF StartAccepted, Reply, Ops, Codes, Replies, Ids
<1>3. ASSUME NEW t \in Threads, NEW limit \in Limits, UpdateConfig(t, limit) PROVE TypeOK'
  BY <1>3 DEF UpdateConfig, Reply, Ops, Codes, Replies, Ids
<1>4. ASSUME NEW t \in Threads, NEW op \in FoundPcs, NEW i \in Ids, FindEntry(t, op, i) PROVE TypeOK'
  <2>1. CASE i \in entries
    <3>1. op \in Pcs /\ i \in 0..MaxId
      BY DEF Pcs, Ids
    <3>2. /\ pc' \in [Threads -> Pcs]
          /\ arg' \in [Threads -> 0..MaxId]
          /\ \A u \in Threads : pc'[u] # "idle" => arg'[u] \in Ids
      BY <1>4, <2>1, <3>1 DEF FindEntry, Goto
    <3>3. QED
      BY <1>4, <2>1, <3>2 DEF FindEntry, NoReply
  <2>2. CASE i \notin entries
    <3>1. Reply(op, i, "NOT_FOUND") /\ op \in Ops /\ i \in 0..MaxId
      BY <1>4, <2>2 DEF FindEntry, Ops, FoundPcs, Ids
    <3>2. reply' \in Replies \union {NoReply}
      BY <3>1, ReplyType DEF Codes
    <3>3. QED
      BY <1>4, <2>2, <3>2 DEF FindEntry
  <2>3. QED
    BY <2>1, <2>2
<1>5. ASSUME NEW t \in Threads, PauseOrResume(t) PROVE TypeOK'
  <2>1. \E op \in Ops, code \in Codes : Return(t, op, code)
    BY <1>5 DEF PauseOrResume, Ops, Codes
  <2>2. QED
    BY <1>5, <2>1, ReturnType DEF PauseOrResume
<1>6. ASSUME NEW t \in Threads, ClaimRefused(t) PROVE TypeOK'
  <2>1. \E op \in Ops, code \in Codes : Return(t, op, code)
    BY <1>6 DEF ClaimRefused, Ops, Codes
  <2>2. QED
    BY <1>6, <2>1, ReturnType DEF ClaimRefused
<1>7. ASSUME NEW t \in Threads, CancelClaim(t) PROVE TypeOK'
  BY <1>7 DEF CancelClaim, Goto, Pcs, ClosingPcs, ClaimedPcs, RemovedPcs, NoReply
<1>8. ASSUME NEW t \in Threads, CancelRemove(t) PROVE TypeOK'
  BY <1>8 DEF CancelRemove, Goto, Pcs, ClosingPcs, ClaimedPcs, RemovedPcs, NoReply
<1>9. ASSUME NEW t \in Threads, CancelErase(t) PROVE TypeOK'
  <2>1. \E op \in Ops, code \in Codes : Return(t, op, code)
    BY <1>9 DEF CancelErase, Ops, Codes
  <2>2. QED
    BY <1>9, <2>1, ReturnType DEF CancelErase
<1>10. ASSUME NEW t \in Threads, CancelUndo(t) PROVE TypeOK'
  <2>1. \E op \in Ops, code \in Codes : Return(t, op, code)
    BY <1>10 DEF CancelUndo, Ops, Codes
  <2>2. QED
    BY <1>10, <2>1, ReturnType DEF CancelUndo
<1>11. ASSUME NEW t \in Threads, FinaliseClaim(t) PROVE TypeOK'
  BY <1>11 DEF FinaliseClaim, Goto, Pcs, ClosingPcs, ClaimedPcs, RemovedPcs, NoReply
<1>12. ASSUME NEW t \in Threads, FinaliseBarrier(t) PROVE TypeOK'
  <2>1. /\ pc' \in [Threads -> Pcs]
        /\ \A u \in Threads : pc'[u] # "idle" => arg'[u] \in Ids
    BY <1>12 DEF FinaliseBarrier, Goto, Pcs, ClosingPcs, ClaimedPcs
  <2>2. preRemove' \in [Ids -> BOOLEAN]
    BY <1>12 DEF FinaliseBarrier
  <2>3. flushing' \in SUBSET Ids
    BY <1>12 DEF FinaliseBarrier
  <2>4. QED
    BY <1>12, <2>1, <2>2, <2>3 DEF FinaliseBarrier, NoReply
<1>13. ASSUME NEW t \in Threads, FinaliseFlushed(t) PROVE TypeOK'
  BY <1>13 DEF FinaliseFlushed, Goto, Pcs, ClosingPcs, ClaimedPcs, RemovedPcs, NoReply
<1>14. ASSUME NEW t \in Threads, FinaliseFlushTimeout(t) PROVE TypeOK'
  <2>1. \E op \in Ops, code \in Codes : Return(t, op, code)
    BY <1>14 DEF FinaliseFlushTimeout, Ops, Codes
  <2>2. QED
    BY <1>14, <2>1, ReturnType DEF FinaliseFlushTimeout
<1>15. ASSUME NEW t \in Threads, FinaliseRemove(t) PROVE TypeOK'
  BY <1>15 DEF FinaliseRemove, Goto, Pcs, ClosingPcs, ClaimedPcs, RemovedPcs, NoReply
<1>16. ASSUME NEW t \in Threads, FinaliseRemoved(t) PROVE TypeOK'
  BY <1>16 DEF FinaliseRemoved, Goto, Pcs, ClosingPcs, ClaimedPcs, RemovedPcs, NoReply
<1>17. ASSUME NEW t \in Threads, FinaliseRemovedTimeout(t) PROVE TypeOK'
  BY <1>17 DEF FinaliseRemovedTimeout, Goto, Pcs, ClosingPcs, ClaimedPcs, RemovedPcs, NoReply
<1>18. ASSUME NEW t \in Threads, FinaliseErase(t) PROVE TypeOK'
  <2>1. \E op \in Ops, code \in Codes : Return(t, op, code)
    BY <1>18 DEF FinaliseErase, Ops, Codes
  <2>2. QED
    BY <1>18, <2>1, ReturnType DEF FinaliseErase
<1>19. ASSUME NEW t \in Threads, FinaliseUndo(t) PROVE TypeOK'
  <2>1. \E op \in Ops, code \in Codes : Return(t, op, code)
    BY <1>19 DEF FinaliseUndo, Ops, Codes
  <2>2. QED
    BY <1>19, <2>1, ReturnType DEF FinaliseUndo
<1>20. ASSUME PollTake PROVE TypeOK'
  <2>1. Head(alerts) \in Alerts /\ Tail(alerts) \in Seq(Alerts)
    BY <1>20 DEF PollTake
  <2>2. QED
    BY <1>20, <2>1 DEF PollTake, NoReply
<1>21. ASSUME PollFlushed PROVE TypeOK'
  BY <1>21 DEF PollFlushed, NoReply
<1>22. ASSUME PollRemoved PROVE TypeOK'
  BY <1>22 DEF PollRemoved, NoReply
<1>23. ASSUME NEW i \in Ids, PollRequestFlush(i) PROVE TypeOK'
  BY <1>23 DEF PollRequestFlush, NoReply
<1>24. ASSUME NEW i \in Ids, LibFlushDone(i) PROVE TypeOK'
  <2>1. alerts' \in Seq(Alerts)
    BY <1>24, PostType DEF LibFlushDone
  <2>2. QED
    BY <1>24, <2>1 DEF LibFlushDone, NoReply
<1>25. ASSUME NEW i \in Ids, LibClosed(i) PROVE TypeOK'
  <2>1. alerts' \in Seq(Alerts)
    BY <1>25, PostType DEF LibClosed
  <2>2. QED
    BY <1>25, <2>1 DEF LibClosed, NoReply
<1>26. ASSUME Destroy PROVE TypeOK'
  <2>1. alerts' \in Seq(Alerts)
    BY <1>26 DEF Destroy
  <2>2. QED
    BY <1>26, <2>1 DEF Destroy, NoReply
<1>27. ASSUME UNCHANGED vars PROVE TypeOK'
  BY <1>27 DEF vars
<1> QED
  BY <1>1, <1>2, <1>3, <1>4, <1>5, <1>6, <1>7, <1>8, <1>9, <1>10, <1>11, <1>12, <1>13, <1>14, <1>15, <1>16, <1>17, <1>18, <1>19, <1>20, <1>21, <1>22, <1>23, <1>24, <1>25, <1>26, <1>27
  DEF Next, Begin, Continue, CancelStep, FinaliseStep, Poll, Library

\* Every variable keeps its type.
THEOREM TypeCorrect == Spec => []TypeOK
  BY TypeInit, TypeNext, PTL DEF Spec

(***************************************************************************)
(* The inductive invariant                                                 *)
(***************************************************************************)

\* A manager with no torrents satisfies the invariant.
LEMMA LifecycleInit == Init => LifecycleInv
<1> SUFFICES ASSUME Init PROVE LifecycleInv
  OBVIOUS
<1>1. TypeOK
  BY TypeInit
<1>2. QED
  BY <1>1 DEF Init, LifecycleInv, RegistryInv, ClaimInv, ExclusiveInv,
     OwnedInv,
     HashInv, ClosedInv, ReplyInv, FinaliseOkMeansClosed, ControlOkMeansHeld,
     NoReply, NoAlert, Issued, Ids, ClaimedPcs, RemovedPcs, ClosingPcs

\* What each conjunct of the invariant depends on.
LEMMA Frame ==
  ASSUME LifecycleInv
  PROVE  /\ UNCHANGED <<entries, nextId, session, open, active>> => RegistryInv'
         /\ UNCHANGED <<pc, arg, nextId, entries, session, active>> => ClaimInv'
         /\ UNCHANGED <<pc, arg>> => ExclusiveInv'
         /\ UNCHANGED <<pc, arg, session, active>> => OwnedInv'
         /\ hash' = hash /\ session' \subseteq session => HashInv'
         /\ UNCHANGED <<alerts, poll, removed, nextId, open, pc, arg>> => ClosedInv'
         /\ UNCHANGED <<reply, open, session, active>> => ReplyInv'
         /\ reply'.code # "OK" => ReplyInv'
<1> USE DEF LifecycleInv
<1>1. UNCHANGED <<entries, nextId, session, open, active>> => RegistryInv'
  BY DEF RegistryInv, Issued
<1>2. UNCHANGED <<pc, arg, nextId, entries, session, active>> => ClaimInv'
  BY DEF ClaimInv, Issued
<1>3. UNCHANGED <<pc, arg>> => ExclusiveInv'
  BY DEF ExclusiveInv
<1>4. UNCHANGED <<pc, arg, session, active>> => OwnedInv'
  BY DEF OwnedInv
<1>5. hash' = hash /\ session' \subseteq session => HashInv'
  BY DEF HashInv
<1>6. UNCHANGED <<alerts, poll, removed, nextId, open, pc, arg>> => ClosedInv'
  BY DEF ClosedInv, Issued
<1>7. UNCHANGED <<reply, open, session, active>> => ReplyInv'
  BY DEF ReplyInv, FinaliseOkMeansClosed, ControlOkMeansHeld
<1>8. reply'.code # "OK" => ReplyInv'
  BY DEF ReplyInv, FinaliseOkMeansClosed, ControlOkMeansHeld
<1>9. QED
  BY <1>1, <1>2, <1>3, <1>4, <1>5, <1>6, <1>7, <1>8

\* A closing call that moves on within its call excludes the others as before.
LEMMA StillClosing ==
  ASSUME TypeOK, ExclusiveInv, NEW t \in Threads, NEW l \in ClosingPcs,
         pc[t] \in ClosingPcs, Goto(t, l), UNCHANGED arg
  PROVE  ExclusiveInv'
  BY DEF TypeOK, ExclusiveInv, Goto

\* A thread that owned nothing may move without orphaning anything.
LEMMA EnterOwned ==
  ASSUME TypeOK, OwnedInv, NEW t \in Threads, pc[t] \notin ClaimedPcs,
         NEW l \in Pcs, NEW x,
         pc' = [pc EXCEPT ![t] = l], arg' = [arg EXCEPT ![t] = x],
         UNCHANGED <<session, active>>
  PROVE  OwnedInv'
<1>1. SUFFICES ASSUME NEW i \in session, ~active[i]
               PROVE  \E u \in Threads : pc'[u] \in ClaimedPcs /\ arg'[u] = i
  BY DEF OwnedInv
<1>2. PICK u \in Threads : pc[u] \in ClaimedPcs /\ arg[u] = i
  BY <1>1 DEF OwnedInv
<1>3. u # t /\ pc'[u] = pc[u] /\ arg'[u] = arg[u]
  BY <1>2 DEF TypeOK
<1>4. QED
  BY <1>2, <1>3

\* What remove_torrent, or its failure, leaves to be owned.
LEMMA RemoveOwned ==
  ASSUME TypeOK, OwnedInv, NEW t \in Threads, NEW l \in Pcs,
         Goto(t, l), UNCHANGED <<arg, active>>,
         \/ session' = session \ {arg[t]}
         \/ session' = session /\ l \in ClaimedPcs
  PROVE  OwnedInv'
<1>1. SUFFICES ASSUME NEW i \in session', ~active[i]
               PROVE  \E u \in Threads : pc'[u] \in ClaimedPcs /\ arg[u] = i
  BY DEF OwnedInv
<1>2. PICK u \in Threads : pc[u] \in ClaimedPcs /\ arg[u] = i
  BY <1>1 DEF OwnedInv
<1>3. CASE u = t
  BY <1>2, <1>3 DEF Goto, TypeOK
<1>4. CASE u # t
  BY <1>2, <1>4 DEF Goto, TypeOK
<1>5. QED
  BY <1>3, <1>4

\* A posted alert is the last of the queue; the others stay where they were.
LEMMA PostedAlerts ==
  ASSUME TypeOK, NEW kind \in {"flushed", "removed"}, NEW i \in Ids,
         Post(kind, i), NEW k \in 1..Len(alerts')
  PROVE  \/ alerts'[k] = [kind |-> kind, id |-> i]
         \/ k \in 1..Len(alerts) /\ alerts'[k] = alerts[k]
<1>1. alerts \in Seq(Alerts)
  BY DEF TypeOK
<1>2. QED
  BY <1>1 DEF Post

\* Every step keeps the invariant: one step of the proof per action, and
\* under it one per conjunct that the action can disturb.
LEMMA LifecycleNext == LifecycleInv /\ [Next]_vars => LifecycleInv'
<1> SUFFICES ASSUME LifecycleInv, [Next]_vars PROVE LifecycleInv'
  OBVIOUS
<1>0. TypeOK'
  BY TypeNext DEF LifecycleInv
<1> USE <1>0, ManagerAssumption
    DEF LifecycleInv, TypeOK, Issued, Ids, At, Return, Goto, Reply, NoReply,
        registry, barrier, threads, library
<1>1. ASSUME NEW t \in Threads, NEW h \in Hashes, StartRefused(t, h) PROVE
   LifecycleInv'
  BY <1>1, Frame DEF StartRefused
<1>2. ASSUME NEW t \in Threads, NEW h \in Hashes, StartAccepted(t, h) PROVE
   LifecycleInv'
  <2>1. RegistryInv'
    BY <1>2 DEF StartAccepted, RegistryInv, ClaimInv, FoundPcs, ClaimedPcs,
       RemovedPcs, ClosingPcs
  <2>2. ClaimInv'
    BY <1>2 DEF StartAccepted, ClaimInv, RegistryInv, ExclusiveInv, FoundPcs,
       ClaimedPcs, RemovedPcs, ClosingPcs
  <2>3. OwnedInv'
    BY <1>2 DEF StartAccepted, OwnedInv, ClaimInv, ExclusiveInv, FoundPcs,
       ClaimedPcs, RemovedPcs, ClosingPcs
  <2>4. HashInv'
    BY <1>2 DEF StartAccepted, HashInv, RegistryInv, SessionDuplicate
  <2>5. ClosedInv'
    BY <1>2 DEF StartAccepted, ClosedInv, RegistryInv, ClaimInv, FoundPcs,
       ClaimedPcs, RemovedPcs, ClosingPcs
  <2>6. ReplyInv'
    BY <1>2 DEF StartAccepted, ReplyInv, RegistryInv, ClosedInv, ClaimInv,
       FinaliseOkMeansClosed, ControlOkMeansHeld, FoundPcs, ClaimedPcs,
       RemovedPcs, ClosingPcs
  <2>7. ExclusiveInv'
    BY <1>2, Frame DEF StartAccepted
  <2>8. QED
    BY <2>1, <2>2, <2>3, <2>4, <2>5, <2>6, <2>7
<1>3. ASSUME NEW t \in Threads, NEW limit \in Limits, UpdateConfig(t, limit)
      PROVE  LifecycleInv'
  <2>1. ReplyInv'
    BY <1>3 DEF UpdateConfig, ReplyInv, RegistryInv, ClosedInv, ClaimInv,
       FinaliseOkMeansClosed, ControlOkMeansHeld
  <2>2. RegistryInv' /\ ClaimInv' /\ ExclusiveInv' /\ OwnedInv' /\ HashInv' /\ ClosedInv'
    BY <1>3, Frame DEF UpdateConfig
  <2>3. QED
    BY <2>1, <2>2
<1>4. ASSUME NEW t \in Threads, NEW op \in FoundPcs, NEW i \in Ids, FindEntry(t, op, i)
      PROVE  LifecycleInv'
  <2>1. ClaimInv'
    <3>1. /\ op \notin ClaimedPcs /\ op \notin RemovedPcs
          /\ entries \subseteq 1..nextId - 1
      BY DEF FoundPcs, ClaimedPcs, RemovedPcs, RegistryInv
    <3>2. CASE i \in entries
      BY <1>4, <3>1, <3>2 DEF FindEntry, ClaimInv
    <3>3. CASE i \notin entries
      BY <1>4, <3>3, Frame DEF FindEntry
    <3>4. QED
      BY <3>2, <3>3
  <2>2. ExclusiveInv'
    BY <1>4 DEF FindEntry, ExclusiveInv, ClaimInv, RegistryInv, FoundPcs,
       ClaimedPcs, RemovedPcs, ClosingPcs
  <2>3. OwnedInv'
    <3>1. CASE i \in entries
      <4>1. pc[t] \notin ClaimedPcs /\ op \in Pcs
        BY <1>4 DEF FindEntry, ClaimedPcs, Pcs
      <4>2. QED
        BY <1>4, <3>1, <4>1, EnterOwned DEF FindEntry
    <3>2. CASE i \notin entries
      BY <1>4, <3>2, Frame DEF FindEntry
    <3>3. QED
      BY <3>1, <3>2
  <2>4. ClosedInv'
    BY <1>4 DEF FindEntry, ClosedInv, FoundPcs, ClaimedPcs, RemovedPcs,
       ClosingPcs
  <2>5. ReplyInv'
    BY <1>4 DEF FindEntry, ReplyInv, RegistryInv, ClosedInv, ClaimInv,
       FinaliseOkMeansClosed, ControlOkMeansHeld, FoundPcs, ClaimedPcs,
       RemovedPcs, ClosingPcs
  <2>6. RegistryInv' /\ HashInv'
    BY <1>4, Frame DEF FindEntry
  <2>7. QED
    BY <2>1, <2>2, <2>3, <2>4, <2>5, <2>6
<1>5. ASSUME NEW t \in Threads, PauseOrResume(t) PROVE LifecycleInv'
  <2>0. /\ pc' = [pc EXCEPT ![t] = "idle"] /\ arg' = [arg EXCEPT ![t] = 0]
        /\ pc[t] \notin ClosingPcs /\ "idle" \notin ClosingPcs
        /\ UNCHANGED <<nextId, entries, active, removed, session, open, alerts, poll>>
    BY <1>5 DEF PauseOrResume, ClaimedPcs, RemovedPcs, ClosingPcs
  <2>1. ClaimInv'
    BY <2>0 DEF ClaimInv, Issued, ClosingPcs
  <2>2. ExclusiveInv'
    BY <2>0 DEF ExclusiveInv
  <2>3. OwnedInv'
    BY <2>0, EnterOwned DEF ClosingPcs, Pcs
  <2>4. ClosedInv'
    BY <2>0 DEF ClosedInv, Issued
  <2>5. ReplyInv'
    BY <1>5 DEF PauseOrResume, ReplyInv, RegistryInv, ClosedInv, ClaimInv,
       FinaliseOkMeansClosed, ControlOkMeansHeld, Claimable, FoundPcs,
       ClaimedPcs, RemovedPcs, ClosingPcs
  <2>6. RegistryInv' /\ HashInv'
    BY <1>5, Frame DEF PauseOrResume
  <2>7. QED
    BY <2>1, <2>2, <2>3, <2>4, <2>5, <2>6
<1>6. ASSUME NEW t \in Threads, ClaimRefused(t) PROVE LifecycleInv'
  <2>1. ClaimInv'
    BY <1>6 DEF ClaimRefused, ClaimInv, RegistryInv, ExclusiveInv, FoundPcs,
       ClaimedPcs, RemovedPcs, ClosingPcs
  <2>2. ExclusiveInv'
    BY <1>6 DEF ClaimRefused, ExclusiveInv, ClaimInv, RegistryInv, FoundPcs,
       ClaimedPcs, RemovedPcs, ClosingPcs
  <2>3. OwnedInv'
    BY <1>6 DEF ClaimRefused, OwnedInv, ClaimInv, ExclusiveInv, FoundPcs,
       ClaimedPcs, RemovedPcs, ClosingPcs
  <2>4. ClosedInv'
    BY <1>6 DEF ClaimRefused, ClosedInv, RegistryInv, ClaimInv, FoundPcs,
       ClaimedPcs, RemovedPcs, ClosingPcs
  <2>5. RegistryInv' /\ HashInv' /\ ReplyInv'
    BY <1>6, Frame DEF ClaimRefused
  <2>6. QED
    BY <2>1, <2>2, <2>3, <2>4, <2>5
<1>7. ASSUME NEW t \in Threads, CancelClaim(t) PROVE LifecycleInv'
  <2>1. RegistryInv'
    BY <1>7 DEF CancelClaim, RegistryInv, ClaimInv, Claimable, FoundPcs,
       ClaimedPcs, RemovedPcs, ClosingPcs
  <2>2. ClaimInv'
    BY <1>7 DEF CancelClaim, ClaimInv, RegistryInv, ExclusiveInv, Claimable,
       FoundPcs, ClaimedPcs, RemovedPcs, ClosingPcs
  <2>3. ExclusiveInv'
    BY <1>7 DEF CancelClaim, ExclusiveInv, ClaimInv, RegistryInv, Claimable,
       FoundPcs, ClaimedPcs, RemovedPcs, ClosingPcs
  <2>4. OwnedInv'
    BY <1>7 DEF CancelClaim, OwnedInv, ClaimInv, ExclusiveInv, Claimable,
       FoundPcs, ClaimedPcs, RemovedPcs, ClosingPcs
  <2>5. ClosedInv'
    BY <1>7 DEF CancelClaim, ClosedInv, RegistryInv, ClaimInv, Claimable,
       FoundPcs, ClaimedPcs, RemovedPcs, ClosingPcs
  <2>6. HashInv' /\ ReplyInv'
    BY <1>7, Frame DEF CancelClaim
  <2>7. QED
    BY <2>1, <2>2, <2>3, <2>4, <2>5, <2>6
<1>8. ASSUME NEW t \in Threads, CancelRemove(t) PROVE LifecycleInv'
  <2>1. RegistryInv'
    BY <1>8 DEF CancelRemove, RegistryInv, ClaimInv, FoundPcs, ClaimedPcs,
       RemovedPcs, ClosingPcs
  <2>2. ClaimInv'
    BY <1>8 DEF CancelRemove, ClaimInv, RegistryInv, ExclusiveInv, FoundPcs,
       ClaimedPcs, RemovedPcs, ClosingPcs
  <2>3. ExclusiveInv'
    <3>1. \E l \in ClosingPcs : Goto(t, l) /\ pc[t] \in ClosingPcs
      BY <1>8 DEF CancelRemove, ClaimedPcs, RemovedPcs, ClosingPcs
    <3>2. QED
      BY <1>8, <3>1, StillClosing DEF CancelRemove
  <2>4. OwnedInv'
    <3>1. \E l \in Pcs : /\ Goto(t, l)
                         /\ \/ session' = session \ {arg[t]}
                            \/ session' = session /\ l \in ClaimedPcs
      BY <1>8 DEF CancelRemove, Pcs, ClaimedPcs, RemovedPcs, ClosingPcs
    <3>2. QED
      BY <1>8, <3>1, RemoveOwned DEF CancelRemove
  <2>5. HashInv'
    BY <1>8 DEF CancelRemove, HashInv, RegistryInv
  <2>6. ClosedInv'
    BY <1>8 DEF CancelRemove, ClosedInv, RegistryInv, ClaimInv, FoundPcs,
       ClaimedPcs, RemovedPcs, ClosingPcs
  <2>7. ReplyInv'
    BY <1>8, Frame DEF CancelRemove
  <2>8. QED
    BY <2>1, <2>2, <2>3, <2>4, <2>5, <2>6, <2>7
<1>9. ASSUME NEW t \in Threads, CancelErase(t) PROVE LifecycleInv'
  <2>1. RegistryInv'
    BY <1>9 DEF CancelErase, RegistryInv, ClaimInv, FoundPcs, ClaimedPcs,
       RemovedPcs, ClosingPcs
  <2>2. ClaimInv'
    BY <1>9 DEF CancelErase, ClaimInv, RegistryInv, ExclusiveInv, FoundPcs,
       ClaimedPcs, RemovedPcs, ClosingPcs
  <2>3. ExclusiveInv'
    BY <1>9 DEF CancelErase, ExclusiveInv, ClaimInv, RegistryInv, FoundPcs,
       ClaimedPcs, RemovedPcs, ClosingPcs
  <2>4. OwnedInv'
    BY <1>9 DEF CancelErase, OwnedInv, ClaimInv, ExclusiveInv, FoundPcs,
       ClaimedPcs, RemovedPcs, ClosingPcs
  <2>5. ClosedInv'
    BY <1>9 DEF CancelErase, ClosedInv, RegistryInv, ClaimInv, FoundPcs,
       ClaimedPcs, RemovedPcs, ClosingPcs
  <2>6. ReplyInv'
    BY <1>9 DEF CancelErase, ReplyInv, RegistryInv, ClosedInv, ClaimInv,
       FinaliseOkMeansClosed, ControlOkMeansHeld, FoundPcs, ClaimedPcs,
       RemovedPcs, ClosingPcs
  <2>7. HashInv'
    BY <1>9, Frame DEF CancelErase
  <2>8. QED
    BY <2>1, <2>2, <2>3, <2>4, <2>5, <2>6, <2>7
<1>10. ASSUME NEW t \in Threads, CancelUndo(t) PROVE LifecycleInv'
  <2>1. RegistryInv'
    BY <1>10 DEF CancelUndo, RegistryInv, ClaimInv, FoundPcs, ClaimedPcs,
       RemovedPcs, ClosingPcs
  <2>2. ClaimInv'
    BY <1>10 DEF CancelUndo, ClaimInv, RegistryInv, ExclusiveInv, FoundPcs,
       ClaimedPcs, RemovedPcs, ClosingPcs
  <2>3. ExclusiveInv'
    BY <1>10 DEF CancelUndo, ExclusiveInv, ClaimInv, RegistryInv, FoundPcs,
       ClaimedPcs, RemovedPcs, ClosingPcs
  <2>4. OwnedInv'
    BY <1>10 DEF CancelUndo, OwnedInv, ClaimInv, ExclusiveInv, FoundPcs,
       ClaimedPcs, RemovedPcs, ClosingPcs
  <2>5. ClosedInv'
    BY <1>10 DEF CancelUndo, ClosedInv, RegistryInv, ClaimInv, FoundPcs,
       ClaimedPcs, RemovedPcs, ClosingPcs
  <2>6. HashInv' /\ ReplyInv'
    BY <1>10, Frame DEF CancelUndo
  <2>7. QED
    BY <2>1, <2>2, <2>3, <2>4, <2>5, <2>6
<1>11. ASSUME NEW t \in Threads, FinaliseClaim(t) PROVE LifecycleInv'
  <2>1. RegistryInv'
    BY <1>11 DEF FinaliseClaim, RegistryInv, ClaimInv, Claimable, FoundPcs,
       ClaimedPcs, RemovedPcs, ClosingPcs
  <2>2. ClaimInv'
    BY <1>11 DEF FinaliseClaim, ClaimInv, RegistryInv, ExclusiveInv,
       Claimable, FoundPcs, ClaimedPcs, RemovedPcs, ClosingPcs
  <2>3. ExclusiveInv'
    BY <1>11 DEF FinaliseClaim, ExclusiveInv, ClaimInv, RegistryInv,
       Claimable, FoundPcs, ClaimedPcs, RemovedPcs, ClosingPcs
  <2>4. OwnedInv'
    BY <1>11 DEF FinaliseClaim, OwnedInv, ClaimInv, ExclusiveInv, Claimable,
       FoundPcs, ClaimedPcs, RemovedPcs, ClosingPcs
  <2>5. ClosedInv'
    BY <1>11 DEF FinaliseClaim, ClosedInv, RegistryInv, ClaimInv, Claimable,
       FoundPcs, ClaimedPcs, RemovedPcs, ClosingPcs
  <2>6. HashInv' /\ ReplyInv'
    BY <1>11, Frame DEF FinaliseClaim
  <2>7. QED
    BY <2>1, <2>2, <2>3, <2>4, <2>5, <2>6
<1>12. ASSUME NEW t \in Threads, FinaliseBarrier(t) PROVE LifecycleInv'
  <2>1. ClaimInv'
    BY <1>12 DEF FinaliseBarrier, ClaimInv, RegistryInv, ExclusiveInv,
       FoundPcs, ClaimedPcs, RemovedPcs, ClosingPcs
  <2>2. ExclusiveInv'
    <3>1. \E l \in ClosingPcs : Goto(t, l) /\ pc[t] \in ClosingPcs
      BY <1>12 DEF FinaliseBarrier, ClaimedPcs, RemovedPcs, ClosingPcs
    <3>2. QED
      BY <1>12, <3>1, StillClosing DEF FinaliseBarrier
  <2>3. OwnedInv'
    BY <1>12 DEF FinaliseBarrier, OwnedInv, ClaimInv, ExclusiveInv, FoundPcs,
       ClaimedPcs, RemovedPcs, ClosingPcs
  <2>4. ClosedInv'
    BY <1>12 DEF FinaliseBarrier, ClosedInv, RegistryInv, ClaimInv, FoundPcs,
       ClaimedPcs, RemovedPcs, ClosingPcs
  <2>5. RegistryInv' /\ HashInv' /\ ReplyInv'
    BY <1>12, Frame DEF FinaliseBarrier
  <2>6. QED
    BY <2>1, <2>2, <2>3, <2>4, <2>5
<1>13. ASSUME NEW t \in Threads, FinaliseFlushed(t) PROVE LifecycleInv'
  <2>1. ClaimInv'
    BY <1>13 DEF FinaliseFlushed, ClaimInv, RegistryInv, ExclusiveInv,
       FoundPcs, ClaimedPcs, RemovedPcs, ClosingPcs
  <2>2. ExclusiveInv'
    BY <1>13 DEF FinaliseFlushed, ExclusiveInv, ClaimInv, RegistryInv,
       FoundPcs, ClaimedPcs, RemovedPcs, ClosingPcs
  <2>3. OwnedInv'
    BY <1>13 DEF FinaliseFlushed, OwnedInv, ClaimInv, ExclusiveInv, FoundPcs,
       ClaimedPcs, RemovedPcs, ClosingPcs
  <2>4. ClosedInv'
    BY <1>13 DEF FinaliseFlushed, ClosedInv, RegistryInv, ClaimInv, FoundPcs,
       ClaimedPcs, RemovedPcs, ClosingPcs
  <2>5. RegistryInv' /\ HashInv' /\ ReplyInv'
    BY <1>13, Frame DEF FinaliseFlushed
  <2>6. QED
    BY <2>1, <2>2, <2>3, <2>4, <2>5
<1>14. ASSUME NEW t \in Threads, FinaliseFlushTimeout(t) PROVE LifecycleInv'
  <2>1. RegistryInv'
    BY <1>14 DEF FinaliseFlushTimeout, RegistryInv, ClaimInv, FoundPcs,
       ClaimedPcs, RemovedPcs, ClosingPcs
  <2>2. ClaimInv'
    BY <1>14 DEF FinaliseFlushTimeout, ClaimInv, RegistryInv, ExclusiveInv,
       FoundPcs, ClaimedPcs, RemovedPcs, ClosingPcs
  <2>3. ExclusiveInv'
    BY <1>14 DEF FinaliseFlushTimeout, ExclusiveInv, ClaimInv, RegistryInv,
       FoundPcs, ClaimedPcs, RemovedPcs, ClosingPcs
  <2>4. OwnedInv'
    BY <1>14 DEF FinaliseFlushTimeout, OwnedInv, ClaimInv, ExclusiveInv,
       FoundPcs, ClaimedPcs, RemovedPcs, ClosingPcs
  <2>5. ClosedInv'
    BY <1>14 DEF FinaliseFlushTimeout, ClosedInv, RegistryInv, ClaimInv,
       FoundPcs, ClaimedPcs, RemovedPcs, ClosingPcs
  <2>6. HashInv' /\ ReplyInv'
    BY <1>14, Frame DEF FinaliseFlushTimeout
  <2>7. QED
    BY <2>1, <2>2, <2>3, <2>4, <2>5, <2>6
<1>15. ASSUME NEW t \in Threads, FinaliseRemove(t) PROVE LifecycleInv'
  <2>1. RegistryInv'
    BY <1>15 DEF FinaliseRemove, RegistryInv, ClaimInv, FoundPcs, ClaimedPcs,
       RemovedPcs, ClosingPcs
  <2>2. ClaimInv'
    BY <1>15 DEF FinaliseRemove, ClaimInv, RegistryInv, ExclusiveInv,
       FoundPcs, ClaimedPcs, RemovedPcs, ClosingPcs
  <2>3. ExclusiveInv'
    <3>1. \E l \in ClosingPcs : Goto(t, l) /\ pc[t] \in ClosingPcs
      BY <1>15 DEF FinaliseRemove, ClaimedPcs, RemovedPcs, ClosingPcs
    <3>2. QED
      BY <1>15, <3>1, StillClosing DEF FinaliseRemove
  <2>4. OwnedInv'
    <3>1. \E l \in Pcs : /\ Goto(t, l)
                         /\ \/ session' = session \ {arg[t]}
                            \/ session' = session /\ l \in ClaimedPcs
      BY <1>15 DEF FinaliseRemove, Pcs, ClaimedPcs, RemovedPcs, ClosingPcs
    <3>2. QED
      BY <1>15, <3>1, RemoveOwned DEF FinaliseRemove
  <2>5. HashInv'
    BY <1>15 DEF FinaliseRemove, HashInv, RegistryInv
  <2>6. ClosedInv'
    BY <1>15 DEF FinaliseRemove, ClosedInv, RegistryInv, ClaimInv, FoundPcs,
       ClaimedPcs, RemovedPcs, ClosingPcs
  <2>7. ReplyInv'
    BY <1>15, Frame DEF FinaliseRemove
  <2>8. QED
    BY <2>1, <2>2, <2>3, <2>4, <2>5, <2>6, <2>7
<1>16. ASSUME NEW t \in Threads, FinaliseRemoved(t) PROVE LifecycleInv'
  <2>1. ClaimInv'
    BY <1>16 DEF FinaliseRemoved, ClaimInv, RegistryInv, ExclusiveInv,
       FoundPcs, ClaimedPcs, RemovedPcs, ClosingPcs
  <2>2. ExclusiveInv'
    BY <1>16 DEF FinaliseRemoved, ExclusiveInv, ClaimInv, RegistryInv,
       FoundPcs, ClaimedPcs, RemovedPcs, ClosingPcs
  <2>3. OwnedInv'
    BY <1>16 DEF FinaliseRemoved, OwnedInv, ClaimInv, ExclusiveInv, FoundPcs,
       ClaimedPcs, RemovedPcs, ClosingPcs
  <2>4. ClosedInv'
    BY <1>16 DEF FinaliseRemoved, ClosedInv, RegistryInv, ClaimInv, FoundPcs,
       ClaimedPcs, RemovedPcs, ClosingPcs
  <2>5. RegistryInv' /\ HashInv' /\ ReplyInv'
    BY <1>16, Frame DEF FinaliseRemoved
  <2>6. QED
    BY <2>1, <2>2, <2>3, <2>4, <2>5
<1>17. ASSUME NEW t \in Threads, FinaliseRemovedTimeout(t) PROVE LifecycleInv'
  <2>1. ClaimInv'
    BY <1>17 DEF FinaliseRemovedTimeout, ClaimInv, RegistryInv, ExclusiveInv,
       FoundPcs, ClaimedPcs, RemovedPcs, ClosingPcs
  <2>2. ExclusiveInv'
    BY <1>17 DEF FinaliseRemovedTimeout, ExclusiveInv, ClaimInv, RegistryInv,
       FoundPcs, ClaimedPcs, RemovedPcs, ClosingPcs
  <2>3. OwnedInv'
    BY <1>17 DEF FinaliseRemovedTimeout, OwnedInv, ClaimInv, ExclusiveInv,
       FoundPcs, ClaimedPcs, RemovedPcs, ClosingPcs
  <2>4. ClosedInv'
    BY <1>17 DEF FinaliseRemovedTimeout, ClosedInv, RegistryInv, ClaimInv,
       FoundPcs, ClaimedPcs, RemovedPcs, ClosingPcs
  <2>5. RegistryInv' /\ HashInv' /\ ReplyInv'
    BY <1>17, Frame DEF FinaliseRemovedTimeout
  <2>6. QED
    BY <2>1, <2>2, <2>3, <2>4, <2>5
<1>18. ASSUME NEW t \in Threads, FinaliseErase(t) PROVE LifecycleInv'
  <2>1. RegistryInv'
    BY <1>18 DEF FinaliseErase, RegistryInv, ClaimInv, FoundPcs, ClaimedPcs,
       RemovedPcs, ClosingPcs
  <2>2. ClaimInv'
    BY <1>18 DEF FinaliseErase, ClaimInv, RegistryInv, ExclusiveInv, FoundPcs,
       ClaimedPcs, RemovedPcs, ClosingPcs
  <2>3. ExclusiveInv'
    BY <1>18 DEF FinaliseErase, ExclusiveInv, ClaimInv, RegistryInv, FoundPcs,
       ClaimedPcs, RemovedPcs, ClosingPcs
  <2>4. OwnedInv'
    BY <1>18 DEF FinaliseErase, OwnedInv, ClaimInv, ExclusiveInv, FoundPcs,
       ClaimedPcs, RemovedPcs, ClosingPcs
  <2>5. ClosedInv'
    BY <1>18 DEF FinaliseErase, ClosedInv, RegistryInv, ClaimInv, FoundPcs,
       ClaimedPcs, RemovedPcs, ClosingPcs
  <2>6. ReplyInv'
    BY <1>18 DEF FinaliseErase, ReplyInv, RegistryInv, ClosedInv, ClaimInv,
       FinaliseOkMeansClosed, ControlOkMeansHeld, FoundPcs, ClaimedPcs,
       RemovedPcs, ClosingPcs
  <2>7. HashInv'
    BY <1>18, Frame DEF FinaliseErase
  <2>8. QED
    BY <2>1, <2>2, <2>3, <2>4, <2>5, <2>6, <2>7
<1>19. ASSUME NEW t \in Threads, FinaliseUndo(t) PROVE LifecycleInv'
  <2>1. RegistryInv'
    BY <1>19 DEF FinaliseUndo, RegistryInv, ClaimInv, FoundPcs, ClaimedPcs,
       RemovedPcs, ClosingPcs
  <2>2. ClaimInv'
    BY <1>19 DEF FinaliseUndo, ClaimInv, RegistryInv, ExclusiveInv, FoundPcs,
       ClaimedPcs, RemovedPcs, ClosingPcs
  <2>3. ExclusiveInv'
    BY <1>19 DEF FinaliseUndo, ExclusiveInv, ClaimInv, RegistryInv, FoundPcs,
       ClaimedPcs, RemovedPcs, ClosingPcs
  <2>4. OwnedInv'
    BY <1>19 DEF FinaliseUndo, OwnedInv, ClaimInv, ExclusiveInv, FoundPcs,
       ClaimedPcs, RemovedPcs, ClosingPcs
  <2>5. ClosedInv'
    BY <1>19 DEF FinaliseUndo, ClosedInv, RegistryInv, ClaimInv, FoundPcs,
       ClaimedPcs, RemovedPcs, ClosingPcs
  <2>6. HashInv' /\ ReplyInv'
    BY <1>19, Frame DEF FinaliseUndo
  <2>7. QED
    BY <2>1, <2>2, <2>3, <2>4, <2>5, <2>6
<1>20. ASSUME PollTake PROVE LifecycleInv'
  <2>1. ClosedInv'
    BY <1>20 DEF PollTake, ClosedInv, RegistryInv, ClaimInv, NoAlert
  <2>2. RegistryInv' /\ ClaimInv' /\ ExclusiveInv' /\ OwnedInv' /\ HashInv' /\ ReplyInv'
    BY <1>20, Frame DEF PollTake
  <2>3. QED
    BY <2>1, <2>2
<1>21. ASSUME PollFlushed PROVE LifecycleInv'
  <2>1. ClosedInv'
    BY <1>21 DEF PollFlushed, ClosedInv, RegistryInv, ClaimInv, NoAlert
  <2>2. RegistryInv' /\ ClaimInv' /\ ExclusiveInv' /\ OwnedInv' /\ HashInv' /\ ReplyInv'
    BY <1>21, Frame DEF PollFlushed
  <2>3. QED
    BY <2>1, <2>2
<1>22. ASSUME PollRemoved PROVE LifecycleInv'
  <2>1. ClosedInv'
    BY <1>22 DEF PollRemoved, ClosedInv, RegistryInv, ClaimInv, NoAlert
  <2>2. RegistryInv' /\ ClaimInv' /\ ExclusiveInv' /\ OwnedInv' /\ HashInv' /\ ReplyInv'
    BY <1>22, Frame DEF PollRemoved
  <2>3. QED
    BY <2>1, <2>2
<1>23. ASSUME NEW i \in Ids, PollRequestFlush(i) PROVE LifecycleInv'
  BY <1>23, Frame DEF PollRequestFlush
<1>24. ASSUME NEW i \in Ids, LibFlushDone(i) PROVE LifecycleInv'
  <2>1. ClosedInv'
    <3>1. \A k \in 1..Len(alerts') :
            \/ alerts'[k] = [kind |-> "flushed", id |-> i]
            \/ k \in 1..Len(alerts) /\ alerts'[k] = alerts[k]
      BY <1>24, PostedAlerts DEF LibFlushDone
    <3>2. Issued' = Issued /\ open' \subseteq open
      BY <1>24 DEF LibFlushDone, RegistryInv
    <3>3. ASSUME NEW k \in 1..Len(alerts'), alerts'[k].kind = "removed"
          PROVE  alerts'[k].id \in Issued' \ open'
      <4>1. CASE alerts'[k] = [kind |-> "flushed", id |-> i]
        BY <3>2, <3>3, <4>1
      <4>2. CASE k \in 1..Len(alerts) /\ alerts'[k] = alerts[k]
        <5>1. alerts[k].id \in Issued \ open
          BY <3>3, <4>2 DEF ClosedInv
        <5>2. QED
          BY <3>2, <4>2, <5>1
      <4>3. QED
        BY <3>1, <4>1, <4>2
    <3>4. QED
      BY <1>24, <3>2, <3>3 DEF LibFlushDone, ClosedInv
  <2>2. RegistryInv' /\ ClaimInv' /\ ExclusiveInv' /\ OwnedInv' /\ HashInv' /\ ReplyInv'
    BY <1>24, Frame DEF LibFlushDone
  <2>3. QED
    BY <2>1, <2>2
<1>25. ASSUME NEW i \in Ids, LibClosed(i) PROVE LifecycleInv'
  <2>1. RegistryInv'
    BY <1>25 DEF LibClosed, RegistryInv, ClaimInv
  <2>2. ClosedInv'
    <3>1. \A k \in 1..Len(alerts') :
            \/ alerts'[k] = [kind |-> "removed", id |-> i]
            \/ k \in 1..Len(alerts) /\ alerts'[k] = alerts[k]
      BY <1>25, PostedAlerts DEF LibClosed
    <3>2. Issued' = Issued /\ open' \subseteq open /\ i \in Issued \ open'
      BY <1>25 DEF LibClosed, RegistryInv
    <3>3. ASSUME NEW k \in 1..Len(alerts'), alerts'[k].kind = "removed"
          PROVE  alerts'[k].id \in Issued' \ open'
      <4>1. CASE alerts'[k] = [kind |-> "removed", id |-> i]
        BY <3>2, <3>3, <4>1
      <4>2. CASE k \in 1..Len(alerts) /\ alerts'[k] = alerts[k]
        <5>1. alerts[k].id \in Issued \ open
          BY <3>3, <4>2 DEF ClosedInv
        <5>2. QED
          BY <3>2, <4>2, <5>1
      <4>3. QED
        BY <3>1, <4>1, <4>2
    <3>4. QED
      BY <1>25, <3>2, <3>3 DEF LibClosed, ClosedInv
  <2>3. ClaimInv' /\ ExclusiveInv' /\ OwnedInv' /\ HashInv' /\ ReplyInv'
    BY <1>25, Frame DEF LibClosed
  <2>4. QED
    BY <2>1, <2>2, <2>3
<1>26. ASSUME Destroy PROVE LifecycleInv'
  <2>1. RegistryInv'
    BY <1>26 DEF Destroy, RegistryInv, ClaimInv, NoAlert, FoundPcs,
       ClaimedPcs, RemovedPcs, ClosingPcs
  <2>2. ClaimInv'
    BY <1>26 DEF Destroy, ClaimInv, RegistryInv, ExclusiveInv, NoAlert,
       FoundPcs, ClaimedPcs, RemovedPcs, ClosingPcs
  <2>3. OwnedInv'
    BY <1>26 DEF Destroy, OwnedInv, ClaimInv, ExclusiveInv, NoAlert, FoundPcs,
       ClaimedPcs, RemovedPcs, ClosingPcs
  <2>4. HashInv'
    BY <1>26 DEF Destroy, HashInv, RegistryInv, NoAlert, FoundPcs, ClaimedPcs,
       RemovedPcs, ClosingPcs
  <2>5. ClosedInv'
    BY <1>26 DEF Destroy, ClosedInv, RegistryInv, ClaimInv, NoAlert, FoundPcs,
       ClaimedPcs, RemovedPcs, ClosingPcs
  <2>6. ExclusiveInv' /\ ReplyInv'
    BY <1>26, Frame DEF Destroy
  <2>7. QED
    BY <2>1, <2>2, <2>3, <2>4, <2>5, <2>6
<1>27. ASSUME UNCHANGED vars PROVE LifecycleInv'
  BY <1>27, Frame DEF vars
<1> QED
  BY <1>1, <1>2, <1>3, <1>4, <1>5, <1>6, <1>7, <1>8, <1>9, <1>10, <1>11,
     <1>12, <1>13, <1>14, <1>15, <1>16, <1>17, <1>18, <1>19, <1>20, <1>21,
     <1>22, <1>23, <1>24, <1>25, <1>26, <1>27
  DEF Next, Begin, Continue, CancelStep, FinaliseStep, Poll, Library

\* The registry, the session, the claim flags and the alerts always agree as
\* LifecycleInv says; the safety properties below follow from it.
THEOREM Lifecycle == Spec => []LifecycleInv
  BY LifecycleInit, LifecycleNext, PTL DEF Spec

(***************************************************************************)
(* What closing calls let go of                                            *)
(***************************************************************************)

\* Nothing is left behind when the callers do not move.
LEMMA ReleaseFrame ==
  ASSUME ReleaseInv, UNCHANGED <<pc, arg, finalising>>,
         entries' \ session' \subseteq entries \ session
  PROVE  ReleaseInv'
BY DEF ReleaseInv

\* A thread may move if what it leaves is not behind it: a flag or an entry
\* that remains is its own at the new place, or another thread's.
LEMMA ReleaseMove ==
  ASSUME TypeOK, ReleaseInv, NEW t \in Threads, NEW l, NEW x,
         pc' = [pc EXCEPT ![t] = l], arg' = [arg EXCEPT ![t] = x],
         \A i \in Ids : finalising'[i] =>
           \/ l \in FinalisingPcs /\ x = i
           \/ finalising[i] /\ ~(pc[t] \in FinalisingPcs /\ arg[t] = i),
         \A i \in entries' \ session' :
           \/ l \in RemovedPcs /\ x = i
           \/ i \in entries \ session /\ ~(pc[t] \in RemovedPcs /\ arg[t] = i)
  PROVE  ReleaseInv'
<1>1. pc'[t] = l /\ arg'[t] = x
  BY DEF TypeOK
<1>2. ASSUME NEW S, NEW i, ~(pc[t] \in S /\ arg[t] = i),
             \E u \in Threads : pc[u] \in S /\ arg[u] = i
      PROVE  \E u \in Threads : pc'[u] \in S /\ arg'[u] = i
  <2>1. PICK u \in Threads : pc[u] \in S /\ arg[u] = i
    BY <1>2
  <2>2. u # t /\ pc'[u] = pc[u] /\ arg'[u] = arg[u]
    BY <1>2, <2>1 DEF TypeOK
  <2> QED
    BY <2>1, <2>2
<1>3. ASSUME NEW i \in Ids, finalising'[i]
      PROVE  \E u \in Threads : pc'[u] \in FinalisingPcs /\ arg'[u] = i
  BY <1>1, <1>2, <1>3 DEF ReleaseInv
<1>4. ASSUME NEW i \in entries' \ session'
      PROVE  \E u \in Threads : pc'[u] \in RemovedPcs /\ arg'[u] = i
  BY <1>1, <1>2, <1>4 DEF ReleaseInv
<1> QED
  BY <1>3, <1>4 DEF ReleaseInv

\* The flag and the entry go with the call that took them, whatever fails.
LEMMA ReleaseNext == LifecycleInv /\ ReleaseInv /\ [Next]_vars => ReleaseInv'
<1> SUFFICES ASSUME LifecycleInv, ReleaseInv, [Next]_vars PROVE ReleaseInv'
  OBVIOUS
<1>0. TypeOK
  BY DEF LifecycleInv
<1>1. ASSUME NEW t \in Threads, Begin(t) PROVE ReleaseInv'
  <2>1. CASE \E h \in Hashes : StartRefused(t, h) \/ StartAccepted(t, h)
    <3>1. entries' \ session' \subseteq entries \ session
          /\ UNCHANGED <<pc, arg, finalising>>
      BY <2>1 DEF StartRefused, StartAccepted, registry, barrier, threads, library
    <3> QED
      BY <3>1, ReleaseFrame
  <2>2. CASE \E limit \in Limits : UpdateConfig(t, limit)
    BY <2>2, ReleaseFrame DEF UpdateConfig, barrier, threads, library
  <2>3. ASSUME NEW op \in FoundPcs, NEW i \in Ids, FindEntry(t, op, i)
        PROVE  ReleaseInv'
    <3>1. CASE i \in entries
      <4>1. /\ pc' = [pc EXCEPT ![t] = op] /\ arg' = [arg EXCEPT ![t] = i]
            /\ UNCHANGED <<finalising, entries, session>>
            /\ pc[t] \notin FinalisingPcs \union RemovedPcs
        BY <2>3, <3>1 DEF FindEntry, At, Goto, registry, barrier, library,
           FinalisingPcs, RemovedPcs
      <4> QED
        BY <1>0, <4>1, ReleaseMove
    <3>2. CASE i \notin entries
      BY <2>3, <3>2, ReleaseFrame DEF FindEntry, registry, barrier, threads, library
    <3> QED
      BY <3>1, <3>2
  <2> QED
    BY <1>1, <2>1, <2>2, <2>3 DEF Begin
<1>2. ASSUME NEW t \in Threads,
             PauseOrResume(t) \/ ClaimRefused(t) \/ CancelClaim(t) \/ CancelUndo(t)
      PROVE  ReleaseInv'
  <2>1. /\ \E l, x : pc' = [pc EXCEPT ![t] = l] /\ arg' = [arg EXCEPT ![t] = x]
        /\ pc[t] \notin FinalisingPcs \union RemovedPcs
        /\ UNCHANGED <<finalising, entries, session>>
    <3>1. arg' = arg => arg' = [arg EXCEPT ![t] = arg[t]]
      BY <1>0 DEF TypeOK
    <3> QED
      BY <1>2, <3>1 DEF PauseOrResume, ClaimRefused, CancelClaim, CancelUndo,
         At, Return, Goto, registry, barrier, library, FinalisingPcs, RemovedPcs
  <2> QED
    BY <1>0, <2>1, ReleaseMove
<1>3. ASSUME NEW t \in Threads, CancelRemove(t) \/ FinaliseRemove(t)
      PROVE  ReleaseInv'
  <2>1. arg' = arg /\ arg' = [arg EXCEPT ![t] = arg[t]] /\ UNCHANGED <<finalising, entries>>
    BY <1>0, <1>3 DEF TypeOK, CancelRemove, FinaliseRemove, registry, barrier
  <2>2. pc[t] \in FinalisingPcs <=> pc[t] = "finRemove"
    BY <1>3 DEF CancelRemove, FinaliseRemove, At, FinalisingPcs
  <2>3. pc[t] \notin RemovedPcs
    BY <1>3 DEF CancelRemove, FinaliseRemove, At, RemovedPcs
  <2>4. PICK l : /\ pc' = [pc EXCEPT ![t] = l]
                 /\ pc[t] = "finRemove" => l \in FinalisingPcs
                 /\ \/ session' = session \ {arg[t]} /\ l \in RemovedPcs
                    \/ session' = session
    BY <1>3 DEF CancelRemove, FinaliseRemove, At, Goto, FinalisingPcs, RemovedPcs
  <2>5. \A i \in Ids : finalising'[i] =>
          \/ l \in FinalisingPcs /\ arg[t] = i
          \/ finalising[i] /\ ~(pc[t] \in FinalisingPcs /\ arg[t] = i)
    BY <2>1, <2>2, <2>4
  <2>6. \A i \in entries' \ session' :
          \/ l \in RemovedPcs /\ arg[t] = i
          \/ i \in entries \ session /\ ~(pc[t] \in RemovedPcs /\ arg[t] = i)
    BY <2>1, <2>3, <2>4
  <2> QED
    BY <1>0, <2>1, <2>4, <2>5, <2>6, ReleaseMove
<1>4. ASSUME NEW t \in Threads, CancelErase(t) \/ FinaliseErase(t)
      PROVE  ReleaseInv'
  <2>1. /\ pc' = [pc EXCEPT ![t] = "idle"] /\ arg' = [arg EXCEPT ![t] = 0]
        /\ pc[t] \notin FinalisingPcs
        /\ entries' = entries \ {arg[t]} /\ UNCHANGED <<finalising, session>>
    BY <1>4 DEF CancelErase, FinaliseErase, At, Return, Goto, barrier, library,
       FinalisingPcs
  <2> QED
    BY <1>0, <2>1, ReleaseMove
<1>5. ASSUME NEW t \in Threads, FinaliseClaim(t) \/ FinaliseBarrier(t) \/ FinaliseFlushed(t)
      PROVE  ReleaseInv'
  <2>1. arg' = arg /\ arg' = [arg EXCEPT ![t] = arg[t]] /\ UNCHANGED <<entries, session>>
    BY <1>0, <1>5 DEF TypeOK, FinaliseClaim, FinaliseBarrier, FinaliseFlushed,
       registry, library
  <2>2. pc[t] \notin RemovedPcs
    BY <1>5 DEF FinaliseClaim, FinaliseBarrier, FinaliseFlushed, At, RemovedPcs
  <2>3. PICK l \in FinalisingPcs : pc' = [pc EXCEPT ![t] = l]
    BY <1>5 DEF FinaliseClaim, FinaliseBarrier, FinaliseFlushed, Goto, FinalisingPcs
  <2>4. \A i \in Ids : finalising'[i] => finalising[i] \/ i = arg[t]
    BY <1>0, <1>5 DEF TypeOK, FinaliseClaim, FinaliseBarrier, FinaliseFlushed, barrier
  <2>5. \A i \in Ids : finalising'[i] =>
          \/ l \in FinalisingPcs /\ arg[t] = i
          \/ finalising[i] /\ ~(pc[t] \in FinalisingPcs /\ arg[t] = i)
    BY <2>3, <2>4
  <2>6. \A i \in entries' \ session' :
          i \in entries \ session /\ ~(pc[t] \in RemovedPcs /\ arg[t] = i)
    BY <2>1, <2>2
  <2> QED
    BY <1>0, <2>1, <2>3, <2>5, <2>6, ReleaseMove
<1>6. ASSUME NEW t \in Threads, FinaliseFlushTimeout(t) \/ FinaliseUndo(t)
      PROVE  ReleaseInv'
  <2>1. /\ pc' = [pc EXCEPT ![t] = "idle"] /\ arg' = [arg EXCEPT ![t] = 0]
        /\ pc[t] \notin RemovedPcs /\ UNCHANGED <<entries, session>>
        /\ finalising' = [finalising EXCEPT ![arg[t]] = FALSE]
    BY <1>6 DEF FinaliseFlushTimeout, FinaliseUndo, At, Return, Goto, registry,
       library, RemovedPcs
  <2>2. \A i \in Ids : finalising'[i] => finalising[i] /\ i # arg[t]
    BY <1>0, <2>1 DEF TypeOK
  <2> QED
    BY <1>0, <2>1, <2>2, ReleaseMove
<1>7. ASSUME NEW t \in Threads, FinaliseRemoved(t) \/ FinaliseRemovedTimeout(t)
      PROVE  ReleaseInv'
  <2>1. /\ arg' = [arg EXCEPT ![t] = arg[t]]
        /\ UNCHANGED <<entries, session>>
        /\ finalising' = [finalising EXCEPT ![arg[t]] = FALSE]
    BY <1>0, <1>7 DEF TypeOK, FinaliseRemoved, FinaliseRemovedTimeout, registry, library
  <2>2. PICK l \in RemovedPcs : pc' = [pc EXCEPT ![t] = l]
    BY <1>7 DEF FinaliseRemoved, FinaliseRemovedTimeout, Goto, RemovedPcs
  <2>3. \A i \in Ids : finalising'[i] => finalising[i] /\ i # arg[t]
    BY <1>0, <2>1 DEF TypeOK
  <2> QED
    BY <1>0, <2>1, <2>2, <2>3, ReleaseMove
<1>8. CASE Poll \/ Library \/ Destroy \/ UNCHANGED vars
  <2>1. /\ UNCHANGED <<pc, arg, finalising>>
        /\ entries' \ session' \subseteq entries \ session
    BY <1>8 DEF Poll, Library, Destroy, PollTake, PollFlushed, PollRemoved,
       PollRequestFlush, LibFlushDone, LibClosed, vars, registry, barrier,
       threads, library
  <2> QED
    BY <2>1, ReleaseFrame
<1> QED
  BY <1>1, <1>2, <1>3, <1>4, <1>5, <1>6, <1>7, <1>8
  DEF Next, Continue, CancelStep, FinaliseStep

(***************************************************************************)
(* What the invariant gives                                                *)
(***************************************************************************)

\* No two active torrents share an info hash.
THEOREM UniqueActiveHashCorrect == Spec => []UniqueActiveHash
<1>1. LifecycleInv => UniqueActiveHash
  BY DEF LifecycleInv, TypeOK, RegistryInv, HashInv, UniqueActiveHash, ActiveIds
<1>2. QED
  BY <1>1, Lifecycle, PTL

\* Whatever is registered is held and can be claimed, or inactive and in the
\* hands of exactly one closing call.
THEOREM NoOrphanCorrect == Spec => []NoOrphan
<1>1. Init => ReleaseInv
  BY DEF Init, ReleaseInv
<1>2. Spec => []ReleaseInv
  BY <1>1, ReleaseNext, Lifecycle, PTL DEF Spec
<1>3. ASSUME LifecycleInv, ReleaseInv, NEW i \in entries,
             ~(i \in session /\ Claimable(i))
      PROVE  ~active[i] /\ \E t \in Threads :
               /\ pc[t] \in (IF i \in session THEN ClaimedPcs ELSE RemovedPcs)
               /\ arg[t] = i
               /\ \A u \in Threads \ {t} : pc[u] \in ClosingPcs => arg[u] # i
  <2>1. i \in Ids
    BY <1>3 DEF LifecycleInv, TypeOK
  <2>2. \E t \in Threads : pc[t] \in ClosingPcs /\ arg[t] = i
    <3>1. CASE i \notin session
      BY <1>3, <3>1 DEF ReleaseInv, ClosingPcs
    <3>2. CASE finalising[i]
      BY <1>3, <2>1, <3>2 DEF ReleaseInv, FinalisingPcs, ClosingPcs, ClaimedPcs, RemovedPcs
    <3>3. CASE i \in session /\ ~active[i]
      BY <1>3, <3>3 DEF LifecycleInv, OwnedInv, ClosingPcs
    <3> QED
      BY <1>3, <3>1, <3>2, <3>3 DEF Claimable
  <2>3. PICK t \in Threads : pc[t] \in ClosingPcs /\ arg[t] = i
    BY <2>2
  <2>4. pc[t] \in (IF i \in session THEN ClaimedPcs ELSE RemovedPcs)
    BY <1>3, <2>3 DEF LifecycleInv, ClaimInv, ClosingPcs
  <2>5. \A u \in Threads \ {t} : pc[u] \in ClosingPcs => arg[u] # i
    BY <1>3, <2>3 DEF LifecycleInv, ExclusiveInv
  <2>6. ~active[i]
    BY <1>3, <2>1, <2>3 DEF LifecycleInv, RegistryInv, ClaimInv, ClosingPcs
  <2> QED
    BY <2>3, <2>4, <2>5, <2>6
<1>4. LifecycleInv /\ ReleaseInv => NoOrphan
  BY <1>3 DEF NoOrphan, LifecycleInv, RegistryInv
<1> QED
  BY <1>2, <1>4, Lifecycle, PTL

\* Finalise answers OK only when libtorrent has closed the files.
THEOREM FinaliseOkMeansClosedCorrect == Spec => []FinaliseOkMeansClosed
<1>1. LifecycleInv => FinaliseOkMeansClosed
  BY DEF LifecycleInv, ReplyInv
<1>2. QED
  BY <1>1, Lifecycle, PTL

\* Pause and Resume succeed only on a torrent that is held and not claimed.
THEOREM ControlOkMeansHeldCorrect == Spec => []ControlOkMeansHeld
<1>1. LifecycleInv => ControlOkMeansHeld
  BY DEF LifecycleInv, ReplyInv
<1>2. QED
  BY <1>1, Lifecycle, PTL

(***************************************************************************)
(* Action properties                                                       *)
(***************************************************************************)

\* A cancel or finalise is turned away at its claim only because another call is
\* closing the torrent, or has closed it: no failed or timed-out call leaves a
\* claim behind that would refuse all later ones.
RefusedOnlyIfClosing ==
  [][\A t \in Threads :
       pc[t] \in {"cancel", "finalise"} /\ pc'[t] = "idle" /\ reply'.code = "NATIVE_ERROR"
         => \/ arg[t] \notin entries
            \/ \E u \in Threads \ {t} : pc[u] \in ClosingPcs /\ arg[u] = arg[t]]_vars

\* From NoOrphan: only the step that tests the claim turns a call away.
THEOREM RefusedOnlyIfClosingCorrect == Spec => RefusedOnlyIfClosing
<1> DEFINE Justified(t) ==
      \/ arg[t] \notin entries
      \/ \E u \in Threads \ {t} : pc[u] \in ClosingPcs /\ arg[u] = arg[t]
    Refused(t) ==
      pc[t] \in {"cancel", "finalise"} /\ pc'[t] = "idle" /\ reply'.code = "NATIVE_ERROR"
<1>1. ASSUME TypeOK, NoOrphan, NEW t \in Threads, pc[t] \in FoundPcs,
             ~Claimable(arg[t])
      PROVE  Justified(t)
  <2>1. pc[t] \notin ClosingPcs
    BY <1>1 DEF FoundPcs, ClosingPcs, ClaimedPcs, RemovedPcs
  <2> QED
    BY <1>1, <2>1 DEF NoOrphan, ClosingPcs
<1>2. ASSUME TypeOK, NEW t \in Threads, Refused(t), [Next]_vars
      PROVE  ~Claimable(arg[t])
  <2>1. ASSUME NEW u \in Threads, u # t, NEW l, pc' = [pc EXCEPT ![u] = l]
        PROVE  FALSE
    BY <1>2, <2>1 DEF TypeOK, FoundPcs
  <2>2. pc' # pc
    BY <1>2 DEF FoundPcs
  <2>3. PICK u \in Threads : Begin(u) \/ Continue(u)
    BY <1>2, <2>2 DEF Next, Poll, Library, Destroy, PollTake, PollFlushed,
       PollRemoved, PollRequestFlush, LibFlushDone, LibClosed, vars, threads
  <2>4. \E l : pc' = [pc EXCEPT ![u] = l]
    BY <2>2, <2>3 DEF Begin, StartRefused, StartAccepted, UpdateConfig, FindEntry,
       Continue, PauseOrResume, ClaimRefused, CancelStep, CancelClaim,
       CancelRemove, CancelErase, CancelUndo, FinaliseStep, FinaliseClaim,
       FinaliseBarrier, FinaliseFlushed, FinaliseFlushTimeout, FinaliseRemove,
       FinaliseRemoved, FinaliseRemovedTimeout, FinaliseErase, FinaliseUndo,
       Return, Goto, threads
  <2>5. u = t
    BY <2>1, <2>4
  <2>6. ClaimRefused(t) \/ CancelClaim(t) \/ FinaliseClaim(t)
    BY <1>2, <2>2, <2>3, <2>5 DEF FoundPcs, Begin, StartRefused, StartAccepted,
       UpdateConfig, FindEntry, Continue, PauseOrResume, CancelStep,
       CancelRemove, CancelErase, CancelUndo, FinaliseStep, FinaliseBarrier,
       FinaliseFlushed, FinaliseFlushTimeout, FinaliseRemove, FinaliseRemoved,
       FinaliseRemovedTimeout, FinaliseErase, FinaliseUndo, At
  <2>7. pc'[t] = "idle" /\ t \in DOMAIN pc
    BY <1>2 DEF TypeOK
  <2> QED
    BY <1>2, <2>6, <2>7 DEF ClaimRefused, CancelClaim, FinaliseClaim,
       Return, Goto, Reply
<1>3. TypeOK /\ NoOrphan /\ [Next]_vars => [\A t \in Threads : Refused(t) => Justified(t)]_vars
  BY <1>1, <1>2 DEF FoundPcs
<1> QED
  BY <1>3, TypeCorrect, NoOrphanCorrect, PTL DEF Spec, RefusedOnlyIfClosing

\* Only the two erasing steps answer OK to Cancel or Finalise, and the id is
\* still registered when they run.
THEOREM OkOnlyOnceCorrect == Spec => OkOnlyOnce
<1> DEFINE Once == reply'.op \in {"cancel", "finalise"} /\ reply'.code = "OK"
                     => reply'.id \in entries \ entries'
<1>1. ASSUME LifecycleInv, [Next]_vars PROVE [Once]_vars
  <2> USE <1>1 DEF At, Return, Reply, NoReply
  <2>1. ASSUME NEW t \in Threads, Begin(t) PROVE Once
    BY <2>1 DEF Begin, StartRefused, StartAccepted, UpdateConfig, FindEntry
  <2>2. ASSUME NEW t \in Threads, PauseOrResume(t) \/ ClaimRefused(t) PROVE Once
    BY <2>2 DEF PauseOrResume, ClaimRefused
  <2>3. ASSUME NEW t \in Threads, CancelErase(t) \/ FinaliseErase(t) PROVE Once
    <3>1. reply'.id = arg[t] /\ entries' = entries \ {arg[t]}
      BY <2>3 DEF CancelErase, FinaliseErase
    <3>2. arg[t] \in entries
      BY <2>3 DEF LifecycleInv, ClaimInv, RemovedPcs, CancelErase, FinaliseErase
    <3>3. QED
      BY <3>1, <3>2
  <2>4. ASSUME NEW t \in Threads,
               CancelClaim(t) \/ CancelRemove(t) \/ CancelUndo(t)
        PROVE  Once
    BY <2>4 DEF CancelClaim, CancelRemove, CancelUndo
  <2>5. ASSUME NEW t \in Threads,
               \/ FinaliseClaim(t) \/ FinaliseBarrier(t) \/ FinaliseFlushed(t)
               \/ FinaliseFlushTimeout(t) \/ FinaliseRemove(t)
               \/ FinaliseRemoved(t) \/ FinaliseRemovedTimeout(t)
               \/ FinaliseUndo(t)
        PROVE  Once
    BY <2>5 DEF FinaliseClaim, FinaliseBarrier, FinaliseFlushed,
       FinaliseFlushTimeout, FinaliseRemove, FinaliseRemoved,
       FinaliseRemovedTimeout, FinaliseUndo
  <2>6. ASSUME Poll \/ Destroy \/ Library PROVE Once
    BY <2>6 DEF Poll, PollTake, PollFlushed, PollRemoved, PollRequestFlush,
       Destroy, Library, LibFlushDone, LibClosed
  <2>7. QED
    BY <2>1, <2>2, <2>3, <2>4, <2>5, <2>6
    DEF Next, Continue, CancelStep, FinaliseStep
<1>2. QED
  BY <1>1, Lifecycle, PTL DEF Spec, OkOnlyOnce

\* Only an accepted start adds to the registry or issues an id.
LEMMA OnlyStartsRegister ==
  ASSUME [Next]_vars
  PROVE  \/ \E t \in Threads, h \in Hashes : StartAccepted(t, h)
         \/ entries' \subseteq entries /\ nextId' = nextId
<1> DEFINE Shrinks == entries' \subseteq entries /\ nextId' = nextId
<1> USE DEF registry
<1>1. ASSUME NEW t \in Threads, NEW h \in Hashes, StartRefused(t, h)
      PROVE  Shrinks
  BY <1>1 DEF StartRefused
<1>2. ASSUME NEW t \in Threads,
             \/ \E limit \in Limits : UpdateConfig(t, limit)
             \/ \E op \in FoundPcs, i \in Ids : FindEntry(t, op, i)
      PROVE  Shrinks
  BY <1>2 DEF UpdateConfig, FindEntry
<1>3. ASSUME NEW t \in Threads, PauseOrResume(t) \/ ClaimRefused(t)
      PROVE  Shrinks
  BY <1>3 DEF PauseOrResume, ClaimRefused
<1>4. ASSUME NEW t \in Threads, CancelStep(t) PROVE Shrinks
  BY <1>4 DEF CancelStep, CancelClaim, CancelRemove, CancelErase, CancelUndo
<1>5. ASSUME NEW t \in Threads, FinaliseStep(t) PROVE Shrinks
  BY <1>5 DEF FinaliseStep, FinaliseClaim, FinaliseBarrier, FinaliseFlushed,
     FinaliseFlushTimeout, FinaliseRemove, FinaliseRemoved,
     FinaliseRemovedTimeout, FinaliseErase, FinaliseUndo
<1>6. ASSUME Poll \/ Destroy \/ Library PROVE Shrinks
  BY <1>6 DEF Poll, PollTake, PollFlushed, PollRemoved, PollRequestFlush,
     Destroy, Library, LibFlushDone, LibClosed
<1>7. CASE UNCHANGED vars
  BY <1>7 DEF vars
<1>8. QED
  BY <1>1, <1>2, <1>3, <1>4, <1>5, <1>6, <1>7 DEF Next, Begin, Continue

\* Whatever enters the registry was issued by that step; ids are not reissued.
THEOREM GoneForGoodCorrect == Spec => GoneForGood
<1> DEFINE Fresh == /\ nextId' >= nextId
                    /\ entries' \ entries \subseteq nextId..nextId' - 1
<1>1. ASSUME TypeOK, [Next]_vars PROVE [Fresh]_vars
  <2>1. nextId \in Int
    BY <1>1, ManagerAssumption DEF TypeOK
  <2>2. ASSUME NEW t \in Threads, NEW h \in Hashes, StartAccepted(t, h)
        PROVE  Fresh
    BY <2>1, <2>2 DEF StartAccepted
  <2>3. CASE entries' \subseteq entries /\ nextId' = nextId
    BY <2>1, <2>3
  <2>4. QED
    BY <1>1, <2>2, <2>3, OnlyStartsRegister
<1>2. QED
  BY <1>1, TypeCorrect, PTL DEF Spec, GoneForGood
=============================================================================

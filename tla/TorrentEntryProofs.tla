------------------------- MODULE TorrentEntryProofs -------------------------
(***************************************************************************)
(* Proofs about TorrentEntry, for every set of threads, every payload and  *)
(* whatever libtorrent loses; whichever closing calls fail, except where   *)
(* a theorem assumes ~CloseMayFail.                                        *)
(***************************************************************************)
EXTENDS TorrentEntry, TLAPS

(***************************************************************************)
(* Types                                                                   *)
(***************************************************************************)

\* A freshly added entry's variables have their types.
LEMMA TypeInit == Init => TypeOK
<1> SUFFICES ASSUME Init PROVE TypeOK
  OBVIOUS
<1>1. FlagType
  BY DEF Init, FlagType
<1>2. ReportType
  BY DEF Init, ReportType, States, Errors
<1>3. CallType
  BY EntryAssumption DEF Init, CallType, CallPcs
<1>4. PollType
  BY EntryAssumption
  DEF Init, PollType, PollIdle, PollState, PollPcs, Phases, States
<1>5. PayloadType
  BY EntryAssumption DEF Init, PayloadType, Phases
<1>6. QED
  BY <1>1, <1>2, <1>3, <1>4, <1>5 DEF TypeOK

\* A step of a call keeps the types.
LEMMA CallTypes ==
  ASSUME TypeOK, NEW t \in Threads, Begin(t) \/ Continue(t)
  PROVE  TypeOK'
<1> USE DEF Goto, claim, observer, metadata, flags, payload, library
<1>1. FlagType'
  <2>1. FlagType
    BY DEF TypeOK
  <2> USE <2>1 DEF FlagType
  <2>2. CASE Pause(t)
    BY <2>2 DEF Pause
  <2>3. CASE ResumeClear(t)
    BY <2>3 DEF ResumeClear
  <2>4. CASE CancelClaim(t)
    BY <2>4 DEF CancelClaim
  <2>5. CASE FinaliseClaim(t)
    BY <2>5 DEF FinaliseClaim
  <2>6. CASE AddMetadata(t)
    BY <2>6 DEF AddMetadata
  <2>7. CASE AddCallback(t)
    BY <2>7 DEF AddCallback
  <2>8. CASE ResumeApply(t)
    BY <2>8 DEF ResumeApply
  <2>9. CASE CancelRemove(t)
    BY ZenonT(30), <2>9 DEF CancelRemove
  <2>10. CASE CancelErase(t)
    BY <2>10 DEF CancelErase
  <2>11. CASE FinaliseBarrier(t)
    BY ZenonT(30), <2>11 DEF FinaliseBarrier
  <2>12. CASE FinaliseFlushed(t)
    BY <2>12 DEF FinaliseFlushed
  <2>13. CASE FinaliseFlushTimeout(t)
    BY <2>13 DEF FinaliseFlushTimeout
  <2>14. CASE FinaliseRemove(t)
    BY ZenonT(30), <2>14 DEF FinaliseRemove
  <2>15. CASE FinaliseRemoved(t)
    BY <2>15 DEF FinaliseRemoved
  <2>16. CASE FinaliseErase(t)
    BY <2>16 DEF FinaliseErase
  <2>17. CASE Undo(t)
    BY <2>17 DEF Undo
  <2>18. CASE FailedLatch(t)
    BY <2>18 DEF FailedLatch, Latch
  <2>19. CASE FailedState(t)
    BY <2>19 DEF FailedState
  <2>20. QED
    BY <2>2, <2>3, <2>4, <2>5, <2>6, <2>7, <2>8, <2>9, <2>10, <2>11, <2>12, <2>13, <2>14, <2>15, <2>16, <2>17, <2>18, <2>19
    DEF Begin, Continue
<1>2. ReportType'
  <2> USE DEF TypeOK, ReportType
  <2>1. CASE Begin(t)
    BY <2>1 DEF Begin, Pause, ResumeClear, CancelClaim, FinaliseClaim, States,
       Errors
  <2>2. CASE ResumeApply(t) \/ AddMetadata(t) \/ AddCallback(t)
    BY <2>2 DEF ResumeApply, AddMetadata, AddCallback, Deliver, States, Errors
  <2>3. CASE CancelRemove(t) \/ CancelErase(t)
    BY <2>3 DEF CancelRemove, CancelErase
  <2>4. CASE FinaliseBarrier(t) \/ FinaliseFlushed(t) \/ FinaliseFlushTimeout(t)
    BY <2>4 DEF FinaliseBarrier, FinaliseFlushed, FinaliseFlushTimeout
  <2>5. CASE FinaliseRemove(t) \/ FinaliseRemoved(t) \/ FinaliseErase(t)
    BY <2>5 DEF FinaliseRemove, FinaliseRemoved, FinaliseErase, States, Errors
  <2>6. CASE Undo(t) \/ FailedLatch(t) \/ FailedState(t)
    BY <2>6 DEF Undo, FailedLatch, FailedState, Latch, States, Errors
  <2>7. QED
    BY <2>1, <2>2, <2>3, <2>4, <2>5, <2>6 DEF Continue
<1>3. CallType'
  <2> USE DEF TypeOK, CallType, CallPcs, PayloadType
  <2>1. CASE Begin(t)
    BY <2>1, EntryAssumption
    DEF Begin, Pause, ResumeClear, CancelClaim, FinaliseClaim
  <2>2. CASE Continue(t)
    BY <2>2 DEF Continue, ResumeApply, AddMetadata, AddCallback, CancelRemove,
       CancelErase, FinaliseBarrier, FinaliseFlushed, FinaliseFlushTimeout,
       FinaliseRemove, FinaliseRemoved, FinaliseErase, Undo, FailedLatch,
       FailedState
  <2>3. QED
    BY <2>1, <2>2
<1>4. PollType'
  <2>1. poll' = poll /\ alerts' = alerts
    BY DEF Begin, Pause, ResumeClear, CancelClaim, FinaliseClaim, Continue,
       ResumeApply, AddMetadata, AddCallback, CancelRemove, CancelErase,
       FinaliseBarrier, FinaliseFlushed, FinaliseFlushTimeout, FinaliseRemove,
       FinaliseRemoved, FinaliseErase, Undo, FailedLatch, FailedState
  <2>2. QED
    BY <2>1 DEF TypeOK, PollType
<1>5. PayloadType'
  <2> USE DEF TypeOK, PayloadType
  <2>1. CASE Begin(t)
    BY <2>1 DEF Begin, Pause, ResumeClear, CancelClaim, FinaliseClaim
  <2>2. CASE FinaliseBarrier(t)
    <3>1. UNCHANGED <<phase, written, durable>>
      BY <2>2 DEF FinaliseBarrier
    <3>2. flushes' = flushes \/ FlushCache
      BY <2>2 DEF FinaliseBarrier
    <3>3. written \in 0..written
      BY EntryAssumption
    <3>4. flushes' \in SUBSET (0..written)
      BY <3>2, <3>3 DEF FlushCache
    <3>5. QED
      BY <3>1, <3>4
  <2>3. CASE \/ ResumeApply(t) \/ AddMetadata(t) \/ AddCallback(t)
             \/ CancelRemove(t) \/ CancelErase(t)
    BY <2>3 DEF ResumeApply, AddMetadata, AddCallback, CancelRemove, CancelErase
  <2>4. CASE \/ FinaliseFlushed(t) \/ FinaliseFlushTimeout(t)
             \/ FinaliseRemove(t) \/ FinaliseRemoved(t) \/ FinaliseErase(t)
             \/ Undo(t) \/ FailedLatch(t) \/ FailedState(t)
    BY <2>4 DEF FinaliseFlushed, FinaliseFlushTimeout, FinaliseRemove,
       FinaliseRemoved, FinaliseErase, Undo, FailedLatch, FailedState
  <2>5. QED
    BY <2>1, <2>2, <2>3, <2>4 DEF Continue
<1>6. QED
  BY <1>1, <1>2, <1>3, <1>4, <1>5 DEF TypeOK

\* What is left of the queue when the rest of a round is dropped.
LEMMA RoundDropped ==
  ASSUME TypeOK, alerts' = SubSeq(alerts, poll.left + 1, Len(alerts))
  PROVE  /\ alerts' \in Seq(Alerts) /\ Len(alerts') <= Len(alerts)
         /\ \A i \in DOMAIN alerts' :
              \E j \in DOMAIN alerts : alerts'[i] = alerts[j]
<1>1. alerts \in Seq(Alerts) /\ poll.left \in 0..Len(alerts)
  BY EntryAssumption DEF TypeOK, PollType, PollState
<1>2. Len(alerts) \in Nat /\ DOMAIN alerts = 1..Len(alerts)
  BY <1>1
<1>3. /\ alerts' \in Seq(Alerts) /\ Len(alerts') = Len(alerts) - poll.left
      /\ \A i \in 1..Len(alerts') : alerts'[i] = alerts[poll.left + i]
  BY <1>1, <1>2
<1>4. DOMAIN alerts' = 1..Len(alerts')
  BY <1>3
<1>5. ASSUME NEW i \in DOMAIN alerts'
      PROVE  \E j \in DOMAIN alerts : alerts'[i] = alerts[j]
  <2>1. poll.left + i \in DOMAIN alerts
    BY <1>1, <1>2, <1>3, <1>4, <1>5
  <2>2. QED
    BY <1>3, <1>4, <1>5, <2>1
<1>6. QED
  BY <1>1, <1>2, <1>3, <1>5

\* A step of the poll thread keeps the types.
LEMMA PollTypes ==
  ASSUME TypeOK, Poll
  PROVE  TypeOK'
<1> USE DEF claim, observer, metadata, flags, payload, library
<1>1. FlagType'
  <2>1. FlagType
    BY DEF TypeOK
  <2> USE <2>1 DEF FlagType
  <2>2. CASE PollPop
    BY ZenonT(30), <2>2 DEF PollPop
  <2>3. CASE PollMetadataAlert
    BY ZenonT(30), <2>3 DEF PollMetadataAlert
  <2>4. CASE PollErrorAlert
    BY ZenonT(30), <2>4 DEF PollErrorAlert
  <2>5. CASE PollFlushedAlert
    BY ZenonT(30), <2>5 DEF PollFlushedAlert
  <2>6. CASE PollRemovedAlert
    BY ZenonT(30), <2>6 DEF PollRemovedAlert
  <2>7. CASE PollAlertsDone
    BY ZenonT(30), <2>7 DEF PollAlertsDone
  <2>8. CASE PollStatus
    BY ZenonT(30), <2>8 DEF PollStatus
  <2>9. CASE PollErrc
    BY ZenonT(30), <2>9 DEF PollErrc
  <2>10. CASE PollCompute
    BY ZenonT(30), <2>10 DEF PollCompute
  <2>11. CASE PollStore
    BY ZenonT(30), <2>11 DEF PollStore
  <2>12. CASE PollMetadata
    BY ZenonT(30), <2>12 DEF PollMetadata
  <2>13. CASE PollLatch
    BY ZenonT(30), <2>13 DEF PollLatch, Latch
  <2>14. CASE PollErrorState
    BY ZenonT(30), <2>14 DEF PollErrorState
  <2>15. CASE PollDeliver
    BY ZenonT(30), <2>15 DEF PollDeliver
  <2>16. CASE PollCallback
    BY ZenonT(30), <2>16 DEF PollCallback
  <2>17. CASE PollMetadataGone
    BY ZenonT(30), <2>17 DEF PollMetadataGone
  <2>18. QED
    BY <2>2, <2>3, <2>4, <2>5, <2>6, <2>7, <2>8,
       <2>9, <2>10, <2>11, <2>12, <2>13, <2>14, <2>15, <2>16, <2>17
    DEF Poll, ProcessAlerts, UpdateStats, RecordError, DeliverMetadata
<1>2. ReportType'
  <2>1. ReportType /\ poll.computed \in States
    BY DEF TypeOK, ReportType, PollType, PollState
  <2> USE <2>1 DEF ReportType
  <2>2. CASE ProcessAlerts
    BY <2>2 DEF ProcessAlerts, PollPop, PollMetadataAlert, PollErrorAlert,
       PollFlushedAlert, PollRemovedAlert
  <2>3. CASE UpdateStats
    BY <2>3 DEF UpdateStats, PollAlertsDone, PollStatus, PollErrc, PollCompute,
       PollStore, PollMetadata
  <2>4. CASE RecordError
    BY <2>4 DEF RecordError, PollLatch, PollErrorState, Latch, States, Errors
  <2>5. CASE DeliverMetadata
    BY <2>5 DEF DeliverMetadata, PollDeliver, PollMetadataGone, PollCallback,
       Deliver, Errors
  <2>6. QED
    BY <2>2, <2>3, <2>4, <2>5 DEF Poll
<1>3. CallType'
  <2>1. pc' = pc /\ owed' = owed
    BY DEF Poll, ProcessAlerts, UpdateStats, RecordError, DeliverMetadata,
       PollPop, PollMetadataAlert, PollErrorAlert, PollFlushedAlert,
       PollRemovedAlert, PollAlertsDone, PollStatus, PollErrc, PollCompute,
       PollStore, PollMetadata, PollLatch, PollErrorState, PollDeliver,
       PollMetadataGone, PollCallback
  <2>2. QED
    BY <2>1 DEF TypeOK, CallType
<1>4. PollType'
  <2>1. PollType
    BY DEF TypeOK
  <2>2. PollIdle \in PollState /\ PollIdle.left = 0
    BY EntryAssumption DEF PollIdle, PollState, PollPcs, Phases, States
  <2> DEFINE Kept(q) == q \in PollState /\ q.left \in {0, poll.left}
  <2>3. \A l \in PollPcs : Kept([poll EXCEPT !.at = l])
    BY <2>1 DEF PollType, PollState
  <2>4. PollReturn => Kept(poll')
    <3>1. poll.back \in PollPcs
      BY <2>1 DEF PollType, PollState, PollPcs
    <3>2. QED
      BY <2>2, <2>3, <3>1 DEF PollReturn
  <2>5. PollThrow => Kept(poll')
    BY <2>1 DEF PollThrow, PollType, PollState, PollPcs
  <2>6. ASSUME alerts' = alerts, Kept(poll')
        PROVE  PollType'
    BY <2>1, <2>6 DEF PollType, PollState
  <2> HIDE DEF Kept
  <2>7. CASE PollPop
    <3>1. Len(alerts) \in 0..AlertCap
      BY <2>1, EntryAssumption DEF PollType
    <3>2. poll' \in PollState /\ poll'.left = Len(alerts)
      BY <2>2, <2>7, <3>1 DEF PollPop, PollState, PollPcs
    <3>3. QED
      BY <2>1, <2>7, <3>1, <3>2 DEF PollPop, PollType
  <2>8. ASSUME NEW kind, NEW l \in PollPcs, TakeAlert(kind, l)
        PROVE  PollType'
    <3>1. poll.left \in 1..AlertCap /\ alerts \in Seq(Alerts) /\ alerts # <<>>
      BY <2>1, <2>8, EntryAssumption DEF TakeAlert, PollType, PollState
    <3>2. poll' \in PollState /\ poll'.left = poll.left - 1
      <4>1. poll.left - 1 \in 0..AlertCap
        BY <3>1, EntryAssumption
      <4>2. poll' = [poll EXCEPT !.left = poll.left - 1, !.at = l]
        BY <2>8 DEF TakeAlert
      <4>3. QED
        BY <2>1, <4>1, <4>2 DEF PollType, PollState
    <3>3. alerts' \in Seq(Alerts) /\ Len(alerts') = Len(alerts) - 1
      BY <2>8, <3>1 DEF TakeAlert
    <3>4. QED
      BY <2>1, <3>1, <3>2, <3>3, EntryAssumption DEF PollType
  <2>9. CASE PollMetadataAlert \/ PollErrorAlert
    BY <2>8, <2>9 DEF PollMetadataAlert, PollErrorAlert, PollPcs
  <2>10. CASE PollFlushedAlert \/ PollRemovedAlert
    BY <2>8, <2>10 DEF PollFlushedAlert, PollRemovedAlert, PollPcs
  <2>11. CASE PollAlertsDone
    <3>1. Kept(poll')
      BY <2>2, <2>3, <2>11 DEF PollAlertsDone, PollGoto, PollPcs, Kept
    <3>2. QED
      BY <2>6, <2>11, <3>1 DEF PollAlertsDone
  <2>12. CASE PollStatus
    <3>1. phase \in Phases
      BY DEF TypeOK, PayloadType
    <3>2. Kept(poll')
      BY <2>1, <2>5, <2>12, <3>1
      DEF PollStatus, PollType, PollState, PollPcs, Kept
    <3>3. QED
      BY <2>6, <2>12, <3>2 DEF PollStatus
  <2>13. CASE PollErrc
    <3>1. Kept(poll')
      BY <2>1, <2>13 DEF PollErrc, PollType, PollState, PollPcs, Kept
    <3>2. QED
      BY <2>6, <2>13, <3>1 DEF PollErrc
  <2>14. CASE PollCompute
    <3>1. Reported(poll.seen) \in States
      BY <2>1 DEF PollType, PollState, Reported, StateFromLibtorrent, States,
         Phases
    <3>2. Kept(poll')
      BY <2>1, <2>5, <2>14, <3>1
      DEF PollCompute, PollType, PollState, PollPcs, Kept
    <3>3. QED
      BY <2>6, <2>14, <3>2 DEF PollCompute
  <2>15. CASE PollStore
    BY <2>3, <2>6, <2>15 DEF PollStore, PollGoto, PollPcs
  <2>16. CASE PollMetadata
    <3>1. Kept(poll')
      BY <2>1, <2>2, <2>5, <2>16
      DEF PollMetadata, PollType, PollState, PollPcs, Kept
    <3>2. QED
      BY <2>6, <2>16, <3>1 DEF PollMetadata
  <2>17. CASE RecordError
    BY <2>3, <2>4, <2>6, <2>17
    DEF RecordError, PollLatch, PollErrorState, PollGoto, PollPcs
  <2>18. CASE PollDeliver \/ PollCallback
    BY <2>3, <2>4, <2>6, <2>18
    DEF PollDeliver, PollCallback, PollGoto, PollPcs
  <2>19. CASE PollMetadataGone
    <3>1. CASE UNCHANGED alerts /\ PollReturn
      BY <2>4, <2>6, <3>1
    <3>2. CASE poll' = PollIdle /\ ~UNCHANGED alerts
      <4>1. alerts' \in Seq(Alerts) /\ Len(alerts') <= Len(alerts)
        BY <2>19, <3>2, RoundDropped DEF PollMetadataGone
      <4>2. Len(alerts') \in Nat /\ Len(alerts) \in Nat
        BY <2>1, <4>1 DEF PollType
      <4>3. QED
        BY <2>1, <2>2, <3>2, <4>1, <4>2, EntryAssumption DEF PollType
    <3>3. QED
      BY <2>2, <2>6, <2>19, <3>1, <3>2 DEF PollMetadataGone, Kept
  <2>20. QED
    BY <2>7, <2>9, <2>10, <2>11, <2>12, <2>13, <2>14, <2>15, <2>16, <2>17,
       <2>18, <2>19
    DEF Poll, ProcessAlerts, UpdateStats, DeliverMetadata
<1>5. PayloadType'
  <2>1. PayloadType
    BY DEF TypeOK
  <2>2. UNCHANGED <<phase, written, durable>>
    BY DEF Poll, ProcessAlerts, UpdateStats, RecordError, DeliverMetadata,
       PollPop, PollMetadataAlert, PollErrorAlert, PollFlushedAlert,
       PollRemovedAlert, PollAlertsDone, PollStatus, PollErrc, PollCompute,
       PollStore, PollMetadata, PollLatch, PollErrorState, PollDeliver,
       PollMetadataGone, PollCallback
  <2>3. flushes' = flushes \/ FlushCache
    BY DEF Poll, ProcessAlerts, UpdateStats, RecordError, DeliverMetadata,
       PollPop, PollMetadataAlert, PollErrorAlert, PollFlushedAlert,
       PollRemovedAlert, PollAlertsDone, PollStatus, PollErrc, PollCompute,
       PollStore, PollMetadata, PollLatch, PollErrorState, PollDeliver,
       PollMetadataGone, PollCallback
  <2>4. written \in 0..written
    BY <2>1, EntryAssumption DEF PayloadType
  <2>5. flushes' \in SUBSET (0..written)
    BY <2>1, <2>3, <2>4 DEF FlushCache, PayloadType
  <2>6. QED
    BY <2>1, <2>2, <2>5 DEF PayloadType
<1>6. QED
  BY <1>1, <1>2, <1>3, <1>4, <1>5 DEF TypeOK

\* A step of libtorrent keeps the types.
LEMMA LibraryTypes ==
  ASSUME TypeOK, Library
  PROVE  TypeOK'
<1> USE DEF claim, observer, metadata, flags, payload, library
<1>1. FlagType'
  <2>1. FlagType
    BY DEF TypeOK
  <2> USE <2>1 DEF FlagType
  <2>2. CASE LibDurable
    BY <2>2 DEF LibDurable
  <2>3. CASE LibFlushDone
    BY <2>3 DEF LibFlushDone
  <2>4. CASE LibMetadata
    BY <2>4 DEF LibMetadata
  <2>5. CASE LibChecked
    BY <2>5 DEF LibChecked
  <2>6. CASE LibPiece
    BY <2>6 DEF LibPiece
  <2>7. CASE LibTransient
    BY <2>7 DEF LibTransient
  <2>8. CASE LibError
    BY <2>8 DEF LibError
  <2>9. CASE LibClosed
    BY <2>9 DEF LibClosed
  <2>10. QED
    BY <2>2, <2>3, <2>4, <2>5, <2>6, <2>7, <2>8, <2>9 DEF Library, Disk
<1>2. ReportType' /\ CallType'
  <2>1. UNCHANGED <<state, lastError, deliveries, pc, owed>>
    BY DEF Library, Disk, LibDurable, LibFlushDone, LibMetadata, LibChecked, LibPiece,
       LibTransient, LibError, LibClosed
  <2>2. QED
    BY <2>1 DEF TypeOK, ReportType, CallType
<1>3. PollType'
  <2>1. poll' = poll
    BY DEF Library, Disk, LibDurable, LibFlushDone, LibMetadata, LibChecked, LibPiece,
       LibTransient, LibError, LibClosed
  <2>2. ASSUME NEW kind \in Alerts, Post(kind)
        PROVE  /\ alerts' \in Seq(Alerts)
               /\ Len(alerts) <= Len(alerts') /\ Len(alerts') <= AlertCap
    BY <2>2, EntryAssumption DEF Post, TypeOK, PollType
  <2>3. \/ alerts' = alerts
        \/ \E kind \in Alerts : Post(kind)
    BY DEF Library, Disk, Alerts, LibDurable, LibFlushDone, LibMetadata, LibChecked, LibPiece,
       LibTransient, LibError, LibClosed
  <2>4. poll.left \in Nat
    BY EntryAssumption DEF TypeOK, PollType, PollState
  <2>5. QED
    BY <2>1, <2>2, <2>3, <2>4 DEF TypeOK, PollType
<1>4. PayloadType'
  <2>1. PayloadType
    BY DEF TypeOK
  <2> USE <2>1, EntryAssumption DEF PayloadType, Phases
  <2>2. CASE LibDurable
    BY <2>2 DEF LibDurable
  <2>3. CASE LibFlushDone
    BY <2>3 DEF LibFlushDone
  <2>4. CASE LibMetadata
    BY <2>4 DEF LibMetadata
  <2>5. CASE LibChecked
    <3>1. /\ phase' \in Phases /\ (phase' # "finished" => written' < Pieces)
          /\ written' \in 0..Pieces /\ durable' \in 0..written'
      <4>1. CASE UNCHANGED <<written, durable>> /\ phase' = "downloading"
        BY <2>5, <4>1 DEF LibChecked
      <4>2. CASE phase' = "finished" /\ written' = Pieces /\ durable' = Pieces
        BY <4>2
      <4>3. QED
        BY <2>5, <4>1, <4>2 DEF LibChecked
    <3>2. flushes' = flushes /\ 0..written \subseteq 0..written'
      BY <2>5 DEF LibChecked
    <3>3. QED
      BY <3>1, <3>2
  <2>6. CASE LibPiece
    <3>1. written < Pieces
      BY <2>6 DEF LibPiece
    <3>2. 0..written \subseteq 0..(written + 1)
      OBVIOUS
    <3>3. QED
      BY <2>6, <3>1, <3>2 DEF LibPiece
  <2>7. CASE LibTransient \/ LibError \/ LibClosed
    BY <2>7 DEF LibTransient, LibError, LibClosed
  <2>8. QED
    BY <2>2, <2>3, <2>4, <2>5, <2>6, <2>7 DEF Library, Disk
<1>5. QED
  BY <1>1, <1>2, <1>3, <1>4 DEF TypeOK

\* Every reachable state has the declared types: among others, the poll
\* thread never takes an alert that is not there, its queue stays within its
\* bound, what is durable has been written, and a flush still unanswered
\* covers only pieces that were verified when it was asked for.
THEOREM TypeCorrect == Spec => []TypeOK
<1>1. ASSUME TypeOK, [Next]_vars
      PROVE  TypeOK'
  <2>1. CASE UNCHANGED vars
    BY <1>1, <2>1 DEF vars, TypeOK, FlagType, ReportType, CallType, PollType,
       PayloadType
  <2>2. QED
    BY <1>1, <2>1, CallTypes, PollTypes, LibraryTypes DEF Next
<1>2. QED
  BY TypeInit, <1>1, PTL DEF Spec

(***************************************************************************)
(* The diagnostic of a fatal error                                         *)
(***************************************************************************)

\* While the fatal latch is set last_error holds a fatal diagnostic: none of
\* its four writers (RecordError, Resume, a delivery, the removal timeout)
\* replaces it by a tracker error or clears it and leaves the latch set, on
\* whatever thread and in whatever order they run.
THEOREM FatalKeepsDiagnosticCorrect == Spec => []FatalKeepsDiagnostic
<1> USE DEF FatalKeepsDiagnostic, claim, observer, metadata, flags, payload,
        library
<1>1. Init => FatalKeepsDiagnostic
  BY DEF Init
<1>2. ASSUME FatalKeepsDiagnostic, [Next]_vars
      PROVE  FatalKeepsDiagnostic'
  <2>1. ASSUME NEW f \in BOOLEAN, Latch(f)
        PROVE  FatalKeepsDiagnostic'
    BY <1>2, <2>1 DEF Latch
  <2>2. ASSUME Deliver, fatal' = fatal
        PROVE  FatalKeepsDiagnostic'
    BY <1>2, <2>2 DEF Deliver
  <2>3. ASSUME UNCHANGED <<fatal, lastError>>
        PROVE  FatalKeepsDiagnostic'
    BY <1>2, <2>3
  <2>4. ASSUME NEW t \in Threads, Begin(t)
        PROVE  FatalKeepsDiagnostic'
    BY <2>3, <2>4 DEF Begin, Pause, ResumeClear, CancelClaim, FinaliseClaim
  <2>5. ASSUME NEW t \in Threads, Continue(t)
        PROVE  FatalKeepsDiagnostic'
    <3>1. CASE AddCallback(t) \/ FailedLatch(t)
      BY <2>1, <2>2, <3>1 DEF AddCallback, FailedLatch
    <3>2. CASE FinaliseRemoved(t)
      BY <1>2, <3>2 DEF FinaliseRemoved
    <3>3. CASE \/ AddMetadata(t) \/ ResumeApply(t)
               \/ CancelRemove(t) \/ CancelErase(t) \/ FinaliseBarrier(t)
               \/ FinaliseFlushed(t) \/ FinaliseFlushTimeout(t)
               \/ FinaliseRemove(t) \/ FinaliseErase(t) \/ Undo(t)
               \/ FailedState(t)
      BY <2>3, <3>3 DEF AddMetadata, ResumeApply, CancelRemove, CancelErase,
         FinaliseBarrier, FinaliseFlushed, FinaliseFlushTimeout,
         FinaliseRemove, FinaliseErase, Undo, FailedState
    <3>4. QED
      BY <2>5, <3>1, <3>2, <3>3 DEF Continue
  <2>6. CASE Poll
    <3>1. CASE PollLatch \/ PollCallback
      BY <2>1, <2>2, <3>1 DEF PollLatch, PollCallback
    <3>2. CASE ProcessAlerts \/ UpdateStats
      BY <2>3, <3>2 DEF ProcessAlerts, UpdateStats, PollPop, PollMetadataAlert,
         PollErrorAlert, PollFlushedAlert, PollRemovedAlert, PollAlertsDone,
         PollStatus, PollErrc, PollCompute, PollStore, PollMetadata
    <3>3. CASE PollErrorState \/ PollDeliver \/ PollMetadataGone
      BY <2>3, <3>3 DEF PollErrorState, PollDeliver, PollMetadataGone
    <3>4. QED
      BY <2>6, <3>1, <3>2, <3>3 DEF Poll, RecordError, DeliverMetadata
  <2>7. CASE Library
    BY <2>3, <2>7 DEF Library, Disk, LibDurable, LibFlushDone, LibMetadata, LibChecked, LibPiece,
       LibTransient, LibError, LibClosed
  <2>8. CASE UNCHANGED vars
    BY <2>3, <2>8 DEF vars
  <2>9. QED
    BY <1>2, <2>4, <2>5, <2>6, <2>7, <2>8 DEF Next
<1>3. QED
  BY <1>1, <1>2, PTL DEF Spec

(***************************************************************************)
(* One metadata event                                                      *)
(***************************************************************************)

\* MetadataOnce alone is not inductive: nobody announces before the exchange,
\* at most one of the adding thread and the poll thread got past it, and as
\* long as one is on its way no callback has been made.
OnceInv ==
  /\ deliveries <= 1
  /\ ~delivered => deliveries = 0 /\ ~PollAnnouncing
  /\ PollAnnouncing => deliveries = 0
  /\ \A t \in Threads : Announcing(t) =>
       /\ delivered /\ deliveries = 0 /\ ~PollAnnouncing
       /\ \A u \in Threads : Announcing(u) => u = t

\* A step that makes no callback, keeps the latch and starts no announcement.
LEMMA OnceFrame ==
  ASSUME OnceInv, UNCHANGED <<deliveries, delivered>>,
         PollAnnouncing' => PollAnnouncing,
         \A t \in Threads : Announcing(t)' => Announcing(t)
  PROVE  OnceInv'
BY DEF OnceInv

\* No step of a call but Add's delivery announces.
LEMMA OnceCalls ==
  ASSUME TypeOK, OnceInv, NEW t \in Threads, Begin(t) \/ Continue(t)
  PROVE  OnceInv'
<1> USE DEF claim, observer, metadata, flags, payload, library
<1>1. pc \in [Threads -> CallPcs] /\ deliveries \in 0..2
  BY DEF TypeOK, CallType, ReportType
<1>2. poll' = poll /\ (PollAnnouncing' <=> PollAnnouncing)
  BY DEF Begin, Pause, ResumeClear, CancelClaim, FinaliseClaim, Continue,
     ResumeApply, AddMetadata, AddCallback, CancelRemove, CancelErase,
     FinaliseBarrier, FinaliseFlushed, FinaliseFlushTimeout, FinaliseRemove,
     FinaliseRemoved, FinaliseErase, Undo, FailedLatch, FailedState,
     PollAnnouncing, PollAt
<1>3. ASSUME NEW l, l # "addCallback", Goto(t, l),
             UNCHANGED <<deliveries, delivered>>
      PROVE  OnceInv'
  <2>1. \A u \in Threads : Announcing(u)' => Announcing(u)
    BY <1>1, <1>3 DEF Goto, Announcing, At
  <2>2. QED
    BY <1>2, <1>3, <2>1, OnceFrame
<1>4. CASE AddMetadata(t)
  <2>1. CASE TakeDelivery
    <3>1. /\ deliveries' = 0 /\ delivered' /\ ~PollAnnouncing'
          /\ \A u \in Threads : ~Announcing(u)
      BY <1>2, <1>4, <2>1 DEF AddMetadata, TakeDelivery, OnceInv
    <3>2. \A u \in Threads : Announcing(u)' => u = t
      BY <1>1, <1>4, <2>1, <3>1 DEF AddMetadata, Goto, Announcing, At
    <3>3. QED
      BY <3>1, <3>2 DEF OnceInv
  <2>2. CASE ~TakeDelivery
    <3>1. \A u \in Threads : Announcing(u)' => Announcing(u)
      BY <1>1, <1>4, <2>2 DEF AddMetadata, Goto, Announcing, At
    <3>2. delivered' /\ deliveries' = deliveries
      BY <1>4 DEF AddMetadata
    <3>3. QED
      BY <1>2, <3>1, <3>2 DEF OnceInv
  <2>3. QED
    BY <2>1, <2>2
<1>5. CASE AddCallback(t)
  <2>1. Announcing(t) /\ delivered' = delivered /\ deliveries' \in {0, 1}
    BY <1>1, <1>5 DEF AddCallback, Announcing, Deliver, OnceInv
  <2>2. \A u \in Threads : ~Announcing(u)'
    BY <1>1, <1>5, <2>1 DEF AddCallback, Goto, Announcing, At, OnceInv
  <2>3. QED
    BY <1>2, <2>1, <2>2 DEF OnceInv
<1>6. CASE Begin(t)
  <2>1. CASE Pause(t)
    BY <1>2, <2>1, OnceFrame DEF Pause, Announcing, At
  <2>2. CASE ResumeClear(t) \/ CancelClaim(t) \/ FinaliseClaim(t)
    BY <1>3, <2>2 DEF ResumeClear, CancelClaim, FinaliseClaim
  <2>3. QED
    BY <1>6, <2>1, <2>2 DEF Begin
<1>7. CASE \/ ResumeApply(t) \/ CancelRemove(t) \/ CancelErase(t)
           \/ FinaliseBarrier(t) \/ FinaliseFlushed(t)
           \/ FinaliseFlushTimeout(t)
  BY <1>3, <1>7 DEF ResumeApply, CancelRemove, CancelErase, FinaliseBarrier,
     FinaliseFlushed, FinaliseFlushTimeout
<1>8. CASE \/ FinaliseRemove(t) \/ FinaliseRemoved(t) \/ FinaliseErase(t)
           \/ Undo(t) \/ FailedLatch(t) \/ FailedState(t)
  BY <1>3, <1>8 DEF FinaliseRemove, FinaliseRemoved, FinaliseErase, Undo,
     FailedLatch, FailedState
<1>9. QED
  BY <1>4, <1>5, <1>6, <1>7, <1>8 DEF Continue

\* No step of the poll thread but its delivery announces.
LEMMA OncePoll ==
  ASSUME TypeOK, OnceInv, Poll
  PROVE  OnceInv'
<1> USE DEF claim, observer, metadata, flags, payload, library
<1>1. poll \in PollState /\ deliveries \in 0..2
  BY DEF TypeOK, PollType, ReportType
<1>2. \A t \in Threads : Announcing(t)' <=> Announcing(t)
  BY DEF Poll, ProcessAlerts, UpdateStats, RecordError, DeliverMetadata,
     PollPop, PollMetadataAlert, PollErrorAlert, PollFlushedAlert,
     PollRemovedAlert, PollAlertsDone, PollStatus, PollErrc, PollCompute,
     PollStore, PollMetadata, PollLatch, PollErrorState, PollDeliver,
     PollMetadataGone, PollCallback, Announcing, At
<1>3. PollReturn => ~PollAnnouncing'
  BY <1>1 DEF PollReturn, PollAnnouncing, PollAt, PollIdle, PollState
<1>4. CASE PollDeliver
  <2>1. delivered' /\ deliveries' = deliveries
    BY <1>4 DEF PollDeliver
  <2>2. CASE TakeDelivery
    BY <1>2, <2>1, <2>2 DEF OnceInv, TakeDelivery
  <2>3. CASE ~TakeDelivery
    BY <1>2, <1>3, <1>4, <2>1, <2>3 DEF OnceInv, PollDeliver
  <2>4. QED
    BY <2>2, <2>3
<1>5. CASE PollCallback
  <2>1. PollAnnouncing /\ ~PollAnnouncing'
    BY <1>3, <1>5 DEF PollCallback, PollAnnouncing
  <2>2. delivered' = delivered /\ deliveries' \in {0, 1} /\ delivered
    BY <1>1, <1>5, <2>1 DEF PollCallback, Deliver, OnceInv
  <2>3. QED
    BY <1>2, <2>1, <2>2 DEF OnceInv
<1>6. ASSUME UNCHANGED <<deliveries, delivered>>, ~PollAnnouncing'
      PROVE  OnceInv'
  BY <1>2, <1>6, OnceFrame
<1>7. CASE RecordError
  <2>1. UNCHANGED <<deliveries, delivered>>
    BY <1>7 DEF RecordError, PollLatch, PollErrorState
  <2>2. ~PollAnnouncing'
    BY <1>1, <1>3, <1>7 DEF RecordError, PollLatch, PollErrorState, PollGoto,
       PollAnnouncing, PollAt, PollState
  <2>3. QED
    BY <1>6, <2>1, <2>2
<1>8. CASE ProcessAlerts
  <2>1. UNCHANGED <<deliveries, delivered>>
    BY <1>8 DEF ProcessAlerts, PollPop, PollMetadataAlert, PollErrorAlert,
       PollFlushedAlert, PollRemovedAlert
  <2>2. ~PollAnnouncing'
    BY <1>1, <1>8 DEF ProcessAlerts, PollPop, PollMetadataAlert, PollErrorAlert,
       PollFlushedAlert, PollRemovedAlert, TakeAlert, PollIdle, PollAnnouncing,
       PollAt, PollState
  <2>3. QED
    BY <1>6, <2>1, <2>2
<1>9. CASE UpdateStats
  <2>1. UNCHANGED <<deliveries, delivered>>
    BY <1>9 DEF UpdateStats, PollAlertsDone, PollStatus, PollErrc, PollCompute,
       PollStore, PollMetadata
  <2>2. ASSUME NEW l \in PollPcs \ {"callback"}, poll'.at = l
        PROVE  OnceInv'
    BY <1>6, <2>1, <2>2 DEF PollAnnouncing, PollAt
  <2>3. PollThrow => poll'.at = "latchFatal"
    BY <1>1 DEF PollThrow, PollState
  <2>4. PollIdle.at = "loop"
    BY DEF PollIdle
  <2> USE <1>1, <2>2, <2>3, <2>4 DEF PollState, PollPcs
  <2>5. CASE PollAlertsDone \/ PollStore
    BY <2>5 DEF PollAlertsDone, PollStore, PollGoto
  <2>6. CASE PollStatus \/ PollErrc
    BY <2>6 DEF PollStatus, PollErrc
  <2>7. CASE PollCompute \/ PollMetadata
    BY <2>7 DEF PollCompute, PollMetadata
  <2>8. QED
    BY <1>9, <2>5, <2>6, <2>7 DEF UpdateStats
<1>10. CASE PollMetadataGone
  <2>1. UNCHANGED <<deliveries, delivered>>
    BY <1>10 DEF PollMetadataGone
  <2>2. ~PollAnnouncing'
    BY <1>3, <1>10 DEF PollMetadataGone, PollIdle, PollAnnouncing, PollAt
  <2>3. QED
    BY <1>6, <2>1, <2>2
<1>11. QED
  BY <1>4, <1>5, <1>7, <1>8, <1>9, <1>10 DEF Poll, DeliverMetadata

\* The adapters hear of the metadata at most once, although the adding
\* thread, the metadata alert and the fallback of UpdateStats all try.
THEOREM MetadataOnceCorrect == Spec => []MetadataOnce
<1>1. Init => OnceInv
  <2> SUFFICES ASSUME Init PROVE OnceInv
    OBVIOUS
  <2>1. \A t \in Threads : ~Announcing(t)
    BY DEF Init, Announcing, At
  <2>2. QED
    BY <2>1 DEF Init, OnceInv, PollAnnouncing, PollAt, PollIdle
<1>2. ASSUME TypeOK, OnceInv, [Next]_vars
      PROVE  OnceInv'
  <2>1. CASE Library
    <3>1. UNCHANGED <<deliveries, delivered, pc, poll>>
      BY <2>1 DEF metadata, Library, Disk, LibDurable, LibFlushDone,
         LibMetadata, LibChecked, LibPiece, LibTransient, LibError, LibClosed
    <3>2. QED
      BY <1>2, <3>1, OnceFrame DEF PollAnnouncing, PollAt, Announcing, At
  <2>2. CASE UNCHANGED vars
    BY <1>2, <2>2, OnceFrame DEF vars, PollAnnouncing, PollAt, Announcing, At
  <2>3. QED
    BY <1>2, <2>1, <2>2, OnceCalls, OncePoll DEF Next
<1>3. OnceInv => MetadataOnce
  BY DEF OnceInv, MetadataOnce
<1>4. QED
  BY <1>1, <1>2, <1>3, TypeCorrect, PTL DEF Spec

(***************************************************************************)
(* Durable pieces, while no closing call gives up before the removal       *)
(***************************************************************************)

\* Where a Finalise is before the removal.
Barrier == {"finBarrier", "finFlushWait", "finRemove"}

\* A torrent that was claimed stays claimed.
ClosingInv ==
  \A t \in Threads : pc[t] # "undo" /\ (pc[t] \in Barrier => ~active)

\* The answer to a flush is on its way to the poll thread.
Answered == \E i \in DOMAIN alerts : alerts[i] = "flushed"

\* UpdateStats got past its test of active and has not computed a state yet.
PastTest == poll.at \in {"status", "errc", "compute"} \/ poll.back = "compute"

\* SeedingIsDurable alone is not inductive.  While the torrent is active the
\* only flushes are those that UpdateStats asks for, of all pieces; a flush
\* that Finalise asks for may cover fewer, but once it can be answered
\* UpdateStats no longer gets past its test of active.
SeedInv ==
  /\ poll.at = "alerts" => poll.back = "alerts"
  /\ phase = "finished" => written = Pieces
  /\ poll.seen = "finished" => phase = "finished"
  /\ active => \A f \in flushes : f = Pieces
  /\ active /\ Answered => durable = Pieces
  /\ (active \/ PastTest) /\ flushComplete => durable = Pieces
  /\ poll.computed = "SEEDING" => durable = Pieces
  /\ SeedingIsDurable

\* Every flush under way or answered covers what Finalise owes.
BarrierInv ==
  /\ owed <= written
  /\ \A f \in flushes : owed <= f
  /\ Answered \/ flushComplete \/ preRemove => owed <= durable
  /\ BarrierDurable

DurableInv == ClosingInv /\ SeedInv /\ BarrierInv

\* What a step may do: to the payload,
PayloadCautious ==
  /\ written <= written' /\ durable <= durable'
  /\ phase' = "finished" => written' = Pieces
  /\ phase = "finished" => phase' = "finished"
  /\ \A f \in flushes' : f \in flushes \/ (f = written /\ (active => f = Pieces))
  /\ Answered' => Answered \/ \E f \in flushes : f <= durable

\* to the flags,
FlagsCautious ==
  /\ owed' = owed /\ (active' => active)
  /\ flushComplete' => flushComplete \/ (Answered /\ ~PastTest')
  /\ preRemove' => preRemove \/ flushComplete \/ Answered

\* to what the poll thread knows and reports,
PollCautious ==
  /\ poll'.at = "alerts" => poll'.back = "alerts"
  /\ PastTest' => PastTest \/ active
  /\ poll'.seen = "finished" => poll.seen = "finished" \/ phase = "finished"
  /\ poll'.computed = "SEEDING" =>
       poll.computed = "SEEDING" \/ (PastTest /\ flushComplete)
  /\ state' = "SEEDING" => state = "SEEDING" \/ poll.computed = "SEEDING"

\* and with the calls.
CallsCautious ==
  \A t \in Threads :
    /\ pc'[t] # "undo"
    /\ pc'[t] \in Barrier => pc[t] \in Barrier
    /\ pc'[t] = "finRemove" => pc[t] = "finRemove" \/ flushComplete \/ preRemove

Cautious == PayloadCautious /\ FlagsCautious /\ PollCautious /\ CallsCautious

\* All steps but the claim of a Finalise are cautious, and that suffices.
LEMMA CautionSuffices ==
  ASSUME TypeOK, TypeOK', DurableInv, Cautious
  PROVE  DurableInv'
<1> USE EntryAssumption DEF Cautious
<1>1. /\ written \in 0..Pieces /\ durable \in 0..written /\ owed \in 0..Pieces
      /\ written' \in 0..Pieces /\ durable' \in 0..written' /\ flushes \subseteq 0..written
      /\ active \in BOOLEAN /\ active' \in BOOLEAN
  BY DEF TypeOK, PayloadType, CallType, FlagType
<1>2. durable = Pieces => durable' = Pieces
  BY <1>1 DEF PayloadCautious
<1>3. owed <= durable => owed' <= durable'
  BY <1>1 DEF PayloadCautious, FlagsCautious
<1>4. Answered' => Answered \/ \E f \in flushes : f <= durable
  BY DEF PayloadCautious
<1>5. ClosingInv'
  BY DEF DurableInv, ClosingInv, CallsCautious, FlagsCautious
<1>6. SeedInv'
  <2>1. /\ poll'.at = "alerts" => poll'.back = "alerts"
        /\ phase' = "finished" => written' = Pieces
        /\ poll'.seen = "finished" => phase' = "finished"
    BY DEF DurableInv, SeedInv, PayloadCautious, PollCautious
  <2>2. active' => \A f \in flushes' : f = Pieces
    BY DEF DurableInv, SeedInv, PayloadCautious, FlagsCautious
  <2>3. active /\ Answered' => durable = Pieces
    BY <1>1, <1>4 DEF DurableInv, SeedInv
  <2>4. active' /\ Answered' => durable' = Pieces
    BY <1>2, <2>3 DEF FlagsCautious
  <2>5. (active' \/ PastTest') /\ flushComplete' => durable' = Pieces
    <3>1. CASE flushComplete
      BY <1>2, <3>1 DEF DurableInv, SeedInv, FlagsCautious, PollCautious
    <3>2. CASE Answered /\ ~PastTest'
      BY <1>2, <3>2 DEF DurableInv, SeedInv, FlagsCautious
    <3>3. QED
      BY <3>1, <3>2 DEF FlagsCautious
  <2>6. poll'.computed = "SEEDING" => durable' = Pieces
    BY <1>2 DEF DurableInv, SeedInv, PollCautious
  <2>7. SeedingIsDurable'
    BY <1>2 DEF DurableInv, SeedInv, PollCautious, SeedingIsDurable
  <2>8. QED
    BY <2>1, <2>2, <2>4, <2>5, <2>6, <2>7 DEF SeedInv
<1>7. BarrierInv'
  <2>1. owed' <= written'
    BY <1>1 DEF DurableInv, BarrierInv, PayloadCautious, FlagsCautious
  <2>2. \A f \in flushes' : owed' <= f
    BY <1>1 DEF DurableInv, BarrierInv, PayloadCautious, FlagsCautious
  <2>3. Answered' => owed <= durable
    BY <1>1, <1>4 DEF DurableInv, BarrierInv
  <2>4. flushComplete' \/ preRemove' => owed <= durable
    BY DEF DurableInv, BarrierInv, FlagsCautious
  <2>5. BarrierDurable'
    <3>1. ASSUME NEW t \in Threads, pc'[t] = "finRemove" PROVE owed <= durable
      BY <3>1, <1>1 DEF DurableInv, BarrierInv, BarrierDurable, CallsCautious, At
    <3>2. QED
      BY <1>1, <1>3, <3>1 DEF BarrierDurable, At
  <2>6. QED
    BY <1>3, <2>1, <2>2, <2>3, <2>4, <2>5 DEF BarrierInv
<1>8. QED
  BY <1>5, <1>6, <1>7 DEF DurableInv

\* A claim finds every flush covering all pieces.
LEMMA DurableClaim ==
  ASSUME TypeOK, DurableInv, NEW t \in Threads, FinaliseClaim(t)
  PROVE  DurableInv'
<1>1. /\ active /\ ~active' /\ ~preRemove' /\ owed' = written
      /\ UNCHANGED <<state, flushComplete, poll, phase, written, durable, flushes, alerts>>
  BY DEF FinaliseClaim, Claimable, observer, flags, library, payload
<1>2. \A u \in Threads : pc'[u] = pc[u] \/ pc'[u] = "finBarrier"
  BY DEF FinaliseClaim, Goto, TypeOK, CallType
<1>3. (Answered' <=> Answered) /\ (PastTest' <=> PastTest)
  BY <1>1 DEF Answered, PastTest
<1>4. ClosingInv'
  BY <1>1, <1>2 DEF DurableInv, ClosingInv
<1>5. SeedInv'
  BY <1>1, <1>3 DEF DurableInv, SeedInv, SeedingIsDurable
<1>6. written \in 0..Pieces /\ durable \in 0..written
  BY DEF TypeOK, PayloadType
<1>7. \A u \in Threads : pc'[u] # "finRemove"
  BY <1>1, <1>2 DEF DurableInv, ClosingInv, Barrier
<1>8. BarrierInv'
  <2>1. owed' <= written' /\ \A f \in flushes' : owed' <= f
    BY <1>1, <1>6 DEF DurableInv, SeedInv
  <2>2. Answered' \/ flushComplete' \/ preRemove' => owed' <= durable'
    BY <1>1, <1>3, <1>6 DEF DurableInv, SeedInv
  <2>3. QED
    BY <1>7, <2>1, <2>2 DEF BarrierInv, BarrierDurable, At
<1>9. QED
  BY <1>4, <1>5, <1>8 DEF DurableInv

\* What most steps leave alone.
LEMMA PayloadFrame ==
  ASSUME TypeOK, DurableInv, UNCHANGED <<phase, written, durable, flushes>>,
         Answered' => Answered
  PROVE  PayloadCautious
<1>1. written <= written /\ durable <= durable
  BY EntryAssumption DEF TypeOK, PayloadType
<1>2. QED
  BY <1>1 DEF PayloadCautious, DurableInv, SeedInv

LEMMA CallsFrame ==
  ASSUME DurableInv, UNCHANGED pc
  PROVE  CallsCautious
BY DEF CallsCautious, DurableInv, ClosingInv

LEMMA CallGoesOn ==
  ASSUME TypeOK, DurableInv, NEW t \in Threads, NEW l, Goto(t, l), l # "undo",
         l \in Barrier => pc[t] \in Barrier,
         l = "finRemove" => flushComplete \/ preRemove
  PROVE  CallsCautious
<1>1. \A u \in Threads : pc'[u] = IF u = t THEN l ELSE pc[u]
  BY DEF Goto, TypeOK, CallType
<1>2. QED
  BY <1>1 DEF CallsCautious, DurableInv, ClosingInv

LEMMA CautiousCall ==
  ASSUME ~CloseMayFail, TypeOK, DurableInv, NEW t \in Threads,
         Begin(t) \/ Continue(t), ~FinaliseClaim(t)
  PROVE  Cautious
<1> USE DEF claim, observer, metadata, flags, payload, library, At
<1>1. ASSUME UNCHANGED <<alerts, poll, phase, written, durable, owed, flushComplete>>,
             \/ UNCHANGED flushes
             \/ ~active /\ flushes' = flushes \union {written},
             active' => active, UNCHANGED state \/ state' # "SEEDING",
             preRemove' => preRemove \/ flushComplete,
             CallsCautious
      PROVE  Cautious
  <2>1. (Answered' <=> Answered) /\ (PastTest' <=> PastTest)
    BY <1>1 DEF Answered, PastTest
  <2>2. written <= written /\ durable <= durable
    BY EntryAssumption DEF TypeOK, PayloadType
  <2>3. PayloadCautious
    BY <1>1, <2>1, <2>2 DEF PayloadCautious, DurableInv, SeedInv
  <2>4. FlagsCautious /\ PollCautious
    BY <1>1, <2>1 DEF FlagsCautious, PollCautious, DurableInv, SeedInv
  <2>5. QED
    BY <1>1, <2>3, <2>4 DEF Cautious
<1>2. ASSUME NEW l, Goto(t, l), l \notin Barrier \union {"undo"} PROVE CallsCautious
  BY <1>2, CallGoesOn DEF Barrier
<1>3. CASE AddMetadata(t) \/ AddCallback(t)
  <2>1. \E l \in {"addCallback", "idle"} : Goto(t, l)
    BY <1>3 DEF AddMetadata, AddCallback
  <2>2. CallsCautious
    BY <1>2, <2>1 DEF Barrier
  <2>3. QED
    BY <1>1, <1>3, <2>2 DEF AddMetadata, AddCallback
<1>4. CASE Pause(t)
  BY <1>1, <1>4, CallsFrame DEF Pause
<1>5. CASE ResumeClear(t) \/ ResumeApply(t)
  <2>1. \E l \in {"resuming", "idle"} : Goto(t, l)
    BY <1>5 DEF ResumeClear, ResumeApply
  <2>2. CallsCautious
    BY <1>2, <2>1 DEF Barrier
  <2>3. QED
    BY <1>1, <1>5, <2>2 DEF ResumeClear, ResumeApply
<1>6. CASE CancelClaim(t) \/ CancelRemove(t) \/ CancelErase(t)
  <2>1. \E l \in {"cancelRemove", "cancelErase", "idle"} : Goto(t, l)
    BY <1>6 DEF CancelClaim, CancelRemove, CancelErase
  <2>2. CallsCautious
    BY <1>2, <2>1 DEF Barrier
  <2>3. /\ UNCHANGED <<alerts, poll, phase, written, durable, owed, flushComplete,
                       flushes, state, preRemove>>
        /\ active' => active
    BY <1>6 DEF CancelClaim, CancelRemove, CancelErase
  <2>4. QED
    BY <1>1, <2>2, <2>3
<1>7. CASE FinaliseBarrier(t)
  <2>1. ~active /\ pc[t] \in Barrier
    BY <1>7 DEF FinaliseBarrier, DurableInv, ClosingInv, Barrier
  <2>2. /\ UNCHANGED <<alerts, poll, phase, written, durable, owed, flushComplete,
                       active, state>>
        /\ \/ flushComplete /\ Goto(t, "finRemove") /\ UNCHANGED flushes
           \/ /\ UNCHANGED preRemove /\ flushes' = flushes \union {written}
              /\ Goto(t, "finFlushWait")
    BY <1>7 DEF FinaliseBarrier, FlushCache
  <2>3. CallsCautious
    BY <2>1, <2>2, CallGoesOn DEF Barrier
  <2>4. QED
    BY <1>1, <2>1, <2>2, <2>3
<1>8. CASE FinaliseFlushed(t)
  <2>1. Goto(t, "finRemove") /\ preRemove /\ pc[t] \in Barrier
    BY <1>8 DEF FinaliseFlushed, Barrier
  <2>2. CallsCautious
    BY <2>1, CallGoesOn
  <2>3. QED
    BY <1>1, <1>8, <2>2 DEF FinaliseFlushed
<1>9. CASE FinaliseRemove(t) \/ FinaliseRemoved(t) \/ FinaliseErase(t)
  <2>1. \E l \in {"finRemovedWait", "finStop", "idle"} : Goto(t, l)
    BY <1>9 DEF FinaliseRemove, FinaliseRemoved, FinaliseErase
  <2>2. CallsCautious
    BY <1>2, <2>1 DEF Barrier
  <2>3. /\ UNCHANGED <<alerts, poll, phase, written, durable, owed, flushComplete,
                       flushes, active, preRemove>>
        /\ UNCHANGED state \/ state' # "SEEDING"
    BY <1>9 DEF FinaliseRemove, FinaliseRemoved, FinaliseErase
  <2>4. QED
    BY <1>1, <2>2, <2>3
<1>10. CASE FailedLatch(t) \/ FailedState(t)
  <2>1. \E l \in {"failedState", "idle"} : Goto(t, l)
    BY <1>10 DEF FailedLatch, FailedState
  <2>2. CallsCautious
    BY <1>2, <2>1 DEF Barrier
  <2>3. QED
    BY <1>1, <1>10, <2>2 DEF FailedLatch, FailedState
<1>11. ~Undo(t) /\ ~FinaliseFlushTimeout(t)
  BY DEF Undo, FinaliseFlushTimeout, DurableInv, ClosingInv
<1>12. QED
  BY <1>3, <1>4, <1>5, <1>6, <1>7, <1>8, <1>9, <1>10, <1>11 DEF Begin, Continue

\* An alert taken from the front of the queue.
LEMMA AlertTaken ==
  ASSUME TypeOK, NEW kind, NEW l, TakeAlert(kind, l)
  PROVE  /\ Answered' => Answered
         /\ kind = "flushed" => Answered
<1>1. alerts \in Seq(Alerts) /\ poll.left <= Len(alerts) /\ poll.left \in Nat
  BY EntryAssumption DEF TypeOK, PollType, PollState
<1>2. poll.left > 0 /\ alerts' = Tail(alerts) /\ Head(alerts) = kind
  BY DEF TakeAlert
<1>3. Len(alerts) \in Nat /\ Len(alerts) > 0
  BY <1>1, <1>2
<1>4. /\ 1 \in DOMAIN alerts /\ Head(alerts) = alerts[1]
      /\ \A i \in DOMAIN Tail(alerts) :
           i + 1 \in DOMAIN alerts /\ Tail(alerts)[i] = alerts[i + 1]
  BY <1>1, <1>3
<1>5. QED
  BY <1>2, <1>4 DEF Answered

LEMMA CautiousPoll ==
  ASSUME TypeOK, DurableInv, Poll
  PROVE  Cautious
<1> USE DEF claim, observer, metadata, flags, payload, library, PollAt
<1>a. poll \in PollState
  BY DEF TypeOK, PollType
<1>b. /\ PollIdle.at = "loop" /\ PollIdle.back = "loop"
      /\ PollIdle.seen = "metadata" /\ PollIdle.computed = "STARTING"
  BY DEF PollIdle
<1>c. SeedInv
  BY DEF DurableInv
<1>1. ASSUME UNCHANGED <<phase, written, durable, flushes, owed, active, pc,
                         flushComplete, preRemove>>,
             Answered' => Answered, PollCautious
      PROVE  Cautious
  BY <1>1, PayloadFrame, CallsFrame DEF Cautious, FlagsCautious
<1>2. ASSUME UNCHANGED alerts PROVE Answered' => Answered
  BY <1>2 DEF Answered
<1>3. ASSUME UNCHANGED state, poll'.at \in PollPcs, poll'.back = poll.back,
             poll'.seen = poll.seen, poll'.computed = poll.computed,
             poll'.at \notin {"status", "errc", "compute"} \/ PastTest \/ active,
             poll'.at = "alerts" => poll.at = "alerts"
      PROVE  PollCautious
  BY <1>3, <1>c DEF PollCautious, PastTest, SeedInv
<1>4. ASSUME UNCHANGED state \/ state' = "ERROR", PollReturn \/ PollThrow \/ poll' = PollIdle
      PROVE  PollCautious
  <2>1. CASE PollReturn \/ poll' = PollIdle
    BY <1>a, <1>b, <1>4, <2>1 DEF PollCautious, PastTest, PollReturn, PollState
  <2>2. CASE PollThrow
    BY <1>a, <1>4, <2>2 DEF PollCautious, PastTest, PollThrow, PollState
  <2>3. QED
    BY <1>4, <2>1, <2>2
<1>5. CASE PollPop
  <2>1. PollCautious
    BY <1>5 DEF PollPop, PollIdle, PollCautious, PastTest
  <2>2. QED
    BY <1>1, <1>2, <1>5, <2>1 DEF PollPop
<1>6. ASSUME NEW kind, NEW l \in PollPcs \ {"status", "errc", "compute"},
             TakeAlert(kind, l), UNCHANGED state
      PROVE  PollCautious /\ (Answered' => Answered)
  <2>1. /\ poll'.at = l /\ poll'.back = poll.back /\ poll'.seen = poll.seen
        /\ poll'.computed = poll.computed /\ poll.at = "alerts"
    BY <1>a, <1>6 DEF TakeAlert, PollState
  <2>2. QED
    BY <1>3, <1>6, <2>1, AlertTaken
<1>7. CASE PollMetadataAlert \/ PollErrorAlert \/ PollRemovedAlert
  <2>1. \E kind \in Alerts, l \in {"deliver", "alerts", "latchTransient", "latchFatal"} :
          TakeAlert(kind, l)
    BY <1>7 DEF PollMetadataAlert, PollErrorAlert, PollRemovedAlert, Alerts
  <2>2. /\ UNCHANGED <<phase, written, durable, flushes, owed, active, pc,
                       flushComplete, preRemove, state>>
    BY <1>7 DEF PollMetadataAlert, PollErrorAlert, PollRemovedAlert
  <2>3. PollCautious /\ (Answered' => Answered)
    BY <1>6, <2>1, <2>2 DEF PollPcs
  <2>4. QED
    BY <1>1, <2>2, <2>3
<1>8. CASE PollFlushedAlert
  <2>1. TakeAlert("flushed", "alerts")
    BY <1>8 DEF PollFlushedAlert
  <2>2. UNCHANGED <<phase, written, durable, flushes, owed, active, pc, state>>
    BY <1>8 DEF PollFlushedAlert
  <2>3. PollCautious /\ (Answered' => Answered) /\ Answered
    BY <1>6, <2>1, <2>2, AlertTaken DEF PollPcs
  <2>4. ~PastTest'
    <3>1. poll.back = "alerts" /\ poll'.at = "alerts" /\ poll'.back = poll.back
      BY <1>a, <1>c, <2>1 DEF TakeAlert, PollState, SeedInv
    <3>2. QED
      BY <3>1 DEF PastTest
  <2>5. FlagsCautious
    BY <2>2, <2>3, <2>4 DEF FlagsCautious
  <2>6. QED
    BY <2>2, <2>3, <2>5, PayloadFrame, CallsFrame DEF Cautious
<1>9. CASE RecordError
  <2>1. CASE PollLatch /\ PollReturn
    <3>1. PollCautious
      BY <1>4, <2>1 DEF PollLatch
    <3>2. QED
      BY <1>1, <1>2, <2>1, <3>1 DEF PollLatch
  <2>2. CASE PollLatch /\ PollGoto("errorState")
    <3>1. PollCautious
      BY <1>a, <1>3, <2>2 DEF PollLatch, PollGoto, PollState, PollPcs
    <3>2. QED
      BY <1>1, <1>2, <2>2, <3>1 DEF PollLatch
  <2>3. CASE PollErrorState
    <3>1. PollCautious
      BY <1>4, <2>3 DEF PollErrorState
    <3>2. QED
      BY <1>1, <1>2, <2>3, <3>1 DEF PollErrorState
  <2>4. PollLatch => PollReturn \/ PollGoto("errorState")
    BY DEF PollLatch
  <2>5. QED
    BY <1>9, <2>1, <2>2, <2>3, <2>4 DEF RecordError
<1>10. CASE DeliverMetadata
  <2>1. UNCHANGED state /\ (PollReturn \/ PollGoto("callback") \/ poll' = PollIdle)
    BY <1>10 DEF DeliverMetadata, PollDeliver, PollMetadataGone, PollCallback
  <2>2. PollGoto("callback") => PollCautious
    BY <1>a, <1>3, <2>1 DEF PollGoto, PollState, PollPcs
  <2>3. PollCautious
    BY <1>4, <2>1, <2>2
  <2>4. Answered' => Answered
    BY <1>2, <1>10, RoundDropped
    DEF DeliverMetadata, PollDeliver, PollMetadataGone, PollCallback, Answered
  <2>5. QED
    BY <1>1, <1>10, <2>3, <2>4
    DEF DeliverMetadata, PollDeliver, PollMetadataGone, PollCallback
<1>11. CASE PollAlertsDone
  <2>1. CASE active /\ PollGoto("status")
    <3>1. PollCautious
      BY <1>a, <1>3, <1>11, <2>1 DEF PollAlertsDone, PollGoto, PollState, PollPcs
    <3>2. QED
      BY <1>1, <1>2, <1>11, <3>1 DEF PollAlertsDone
  <2>2. CASE poll' = PollIdle
    <3>1. PollCautious
      BY <1>4, <1>11, <2>2 DEF PollAlertsDone
    <3>2. QED
      BY <1>1, <1>2, <1>11, <3>1 DEF PollAlertsDone
  <2>3. QED
    BY <1>11, <2>1, <2>2 DEF PollAlertsDone
<1>12. CASE PollStatus \/ PollErrc
  <2>1. /\ UNCHANGED <<phase, written, durable, flushes, owed, active, pc,
                       flushComplete, preRemove, state, alerts>>
        /\ PastTest
    BY <1>12 DEF PollStatus, PollErrc, PastTest
  <2>2. \/ PollThrow
        \/ /\ poll'.at \in {"errc", "compute", "latchFatal"}
           /\ poll'.seen \in {poll.seen, phase} /\ poll'.computed = poll.computed
    BY <1>a, <1>12 DEF PollStatus, PollErrc, PollState
  <2>3. PollCautious
    BY <1>4, <2>1, <2>2 DEF PollCautious
  <2>4. QED
    BY <1>1, <1>2, <2>1, <2>3
<1>13. CASE PollCompute
  <2>1. /\ UNCHANGED <<phase, written, durable, owed, active, pc, flushComplete,
                       preRemove, state, alerts>>
        /\ PastTest
    BY <1>13 DEF PollCompute, PastTest
  <2>2. \/ PollThrow
        \/ /\ poll'.at = "store" /\ poll'.seen = poll.seen /\ poll'.back = poll.back
           /\ poll'.computed = Reported(poll.seen)
    BY <1>a, <1>13 DEF PollCompute, PollState
  <2>3. Reported(poll.seen) = "SEEDING" => flushComplete
    BY <1>a DEF Reported, StateFromLibtorrent, PollState, Phases
  <2>4. PollCautious
    BY <1>4, <2>1, <2>2, <2>3 DEF PollCautious
  <2>5. \A f \in flushes' : f \in flushes \/ (f = written /\ f = Pieces)
    BY <1>c, <1>13 DEF PollCompute, AwaitsFlush, FlushCache, SeedInv
  <2>6. PayloadCautious
    <3>1. written <= written /\ durable <= durable
      BY EntryAssumption DEF TypeOK, PayloadType
    <3>2. QED
      BY <1>2, <1>c, <2>1, <2>5, <3>1 DEF PayloadCautious, SeedInv
  <2>7. QED
    BY <2>1, <2>4, <2>6, CallsFrame DEF Cautious, FlagsCautious
<1>14. CASE PollStore
  <2>1. state' = poll.computed /\ PollGoto("metadata")
    BY <1>14 DEF PollStore
  <2>2. PollCautious
    BY <1>a, <2>1 DEF PollGoto, PollState, PollCautious, PastTest
  <2>3. QED
    BY <1>1, <1>2, <1>14, <2>2 DEF PollStore
<1>15. CASE PollMetadata
  <2>1. UNCHANGED state
    BY <1>15 DEF PollMetadata
  <2>2. CASE poll' = PollIdle \/ PollThrow
    <3>1. PollCautious
      BY <1>4, <2>1, <2>2
    <3>2. QED
      BY <1>1, <1>2, <1>15, <3>1 DEF PollMetadata
  <2>3. CASE poll' = [poll EXCEPT !.at = "deliver", !.back = "loop"]
    <3>1. PollCautious
      BY <1>a, <2>1, <2>3 DEF PollState, PollCautious, PastTest
    <3>2. QED
      BY <1>1, <1>2, <1>15, <3>1 DEF PollMetadata
  <2>4. QED
    BY <1>15, <2>2, <2>3 DEF PollMetadata
<1>16. QED
  BY <1>5, <1>7, <1>8, <1>9, <1>10, <1>11, <1>12, <1>13, <1>14, <1>15
  DEF Poll, ProcessAlerts, UpdateStats

LEMMA CautiousLibrary ==
  ASSUME TypeOK, DurableInv, Library
  PROVE  Cautious
<1> USE DEF claim, observer, metadata, flags, payload, library
<1>a. alerts \in Seq(Alerts)
  BY DEF TypeOK, PollType
<1>b. SeedInv /\ written \in 0..Pieces /\ durable \in 0..written
  BY DEF DurableInv, TypeOK, PayloadType
<1>c. Pieces \in Nat \ {0}
  BY EntryAssumption
<1>1. UNCHANGED <<owed, active, pc, poll, state, flushComplete, preRemove>>
  BY DEF Library, Disk, LibDurable, LibFlushDone, LibMetadata, LibChecked,
     LibPiece, LibTransient, LibError, LibClosed
<1>2. FlagsCautious /\ PollCautious /\ CallsCautious
  BY <1>1, <1>b, CallsFrame DEF FlagsCautious, PollCautious, PastTest, SeedInv
<1>3. ASSUME NEW kind \in Alerts, Post(kind), Answered'
      PROVE  Answered \/ kind = "flushed"
  <2>1. CASE UNCHANGED alerts
    BY <1>3, <2>1 DEF Answered
  <2>2. CASE alerts' = Append(alerts, kind)
    <3>1. \A i \in DOMAIN Append(alerts, kind) :
            \/ Append(alerts, kind)[i] = kind
            \/ i \in DOMAIN alerts /\ Append(alerts, kind)[i] = alerts[i]
      BY <1>a, <1>3
    <3>2. QED
      BY <1>3, <2>2, <3>1 DEF Answered
  <2>3. QED
    BY <1>3, <2>1, <2>2 DEF Post
<1>4. PayloadCautious
  <2>1. ASSUME UNCHANGED <<alerts, flushes>>, written <= written', durable <= durable',
               phase' = "finished" => written' = Pieces,
               phase = "finished" => phase' = "finished"
        PROVE  PayloadCautious
    BY <2>1 DEF PayloadCautious, Answered
  <2>2. CASE LibMetadata
    <3>1. Answered' => Answered
      BY <1>3, <2>2 DEF LibMetadata, Alerts
    <3>2. QED
      BY <1>b, <1>c, <2>2, <3>1 DEF LibMetadata, PayloadCautious
  <2>3. CASE LibChecked
    BY <1>b, <1>c, <2>1, <2>3 DEF LibChecked
  <2>4. CASE LibPiece
    BY <1>b, <1>c, <2>1, <2>4 DEF LibPiece
  <2>5. CASE LibDurable
    BY <1>b, <1>c, <2>1, <2>5 DEF LibDurable, SeedInv
  <2>6. CASE LibFlushDone
    <3>1. PICK covered \in flushes : covered <= durable /\ flushes' = flushes \ {covered}
      BY <2>6 DEF LibFlushDone
    <3>2. UNCHANGED <<phase, written, durable>>
      BY <2>6 DEF LibFlushDone
    <3>3. QED
      BY <1>b, <1>c, <3>1, <3>2 DEF PayloadCautious, SeedInv
  <2>7. CASE LibTransient \/ LibError \/ LibClosed
    <3>1. UNCHANGED <<phase, written, durable, flushes>>
      BY <2>7 DEF LibTransient, LibError, LibClosed
    <3>2. Answered' => Answered
      BY <1>3, <2>7 DEF LibTransient, LibError, LibClosed, Alerts
    <3>3. QED
      BY <3>1, <3>2, PayloadFrame
  <2>8. QED
    BY <2>2, <2>3, <2>4, <2>5, <2>6, <2>7 DEF Library, Disk
<1>5. QED
  BY <1>2, <1>4 DEF Cautious

LEMMA DurableInit == Init => DurableInv
<1> SUFFICES ASSUME Init PROVE DurableInv
  OBVIOUS
<1>1. ~Answered /\ ~PastTest
  BY DEF Init, Answered, PastTest, PollIdle
<1>2. ClosingInv
  BY DEF Init, ClosingInv, Barrier
<1>3. SeedInv
  BY <1>1 DEF Init, SeedInv, SeedingIsDurable, PollIdle
<1>4. BarrierInv
  BY <1>1 DEF Init, BarrierInv, BarrierDurable, At
<1>5. QED
  BY <1>2, <1>3, <1>4 DEF DurableInv

\* As long as no closing call gives up before the removal, each flush that is
\* answered covers what is waited for.
THEOREM DurableInvCorrect ==
  ASSUME ~CloseMayFail
  PROVE  Spec => []DurableInv
<1>1. ASSUME TypeOK, TypeOK', DurableInv, [Next]_vars
      PROVE  DurableInv'
  <2>1. CASE UNCHANGED vars
    <3>1. UNCHANGED <<phase, written, durable, flushes, alerts, owed, active,
                      flushComplete, preRemove, poll, state, pc>>
      BY <2>1 DEF vars
    <3>2. QED
      BY <1>1, <3>1 DEF DurableInv, ClosingInv, SeedInv, BarrierInv, Answered,
         PastTest, SeedingIsDurable, BarrierDurable, At
  <2>2. CASE Next
    BY <1>1, <2>2, CautiousCall, CautiousPoll, CautiousLibrary, CautionSuffices,
       DurableClaim DEF Next
  <2>3. QED
    BY <1>1, <2>1, <2>2
<1>2. QED
  BY DurableInit, <1>1, TypeCorrect, PTL DEF Spec

\* SEEDING is reported only when all pieces are on disk (UpdateStats), unless
\* a Finalise gave up and left the answer to its flush behind.
THEOREM SeedingIsDurableCorrect ==
  ASSUME ~CloseMayFail
  PROVE  Spec => []SeedingIsDurable
<1>1. DurableInv => SeedingIsDurable
  BY DEF DurableInv, SeedInv
<1>2. QED
  BY DurableInvCorrect, <1>1, PTL

\* Finalise asks for the removal only when all that was verified when it
\* claimed the torrent is on disk (the first barrier of Finalise).
THEOREM BarrierDurableCorrect ==
  ASSUME ~CloseMayFail
  PROVE  Spec => []BarrierDurable
<1>1. DurableInv => BarrierDurable
  BY DEF DurableInv, BarrierInv
<1>2. QED
  BY DurableInvCorrect, <1>1, PTL

(***************************************************************************)
(* No metadata event swallowed                                             *)
(***************************************************************************)

\* Steps that neither deliver nor end an announcement.
LEMMA KeptFrame ==
  ASSUME MetadataNotSwallowed, UNCHANGED <<deliveries, delivered>>,
         active' => active, PollAnnouncing => PollAnnouncing',
         \A t \in Threads : Announcing(t) => Announcing(t)'
  PROVE  MetadataNotSwallowed'
BY DEF MetadataNotSwallowed

\* A step of a call swallows the event only by giving the torrent back.
LEMMA KeptCalls ==
  ASSUME TypeOK, MetadataNotSwallowed,
         NEW t \in Threads, Begin(t) \/ Continue(t), ~(~active /\ active')
  PROVE  MetadataNotSwallowed'
<1> USE DEF claim, observer, metadata, flags, payload, library
<1>1. pc \in [Threads -> CallPcs] /\ deliveries \in 0..2
  BY DEF TypeOK, CallType, ReportType
<1>2. ASSUME NEW l, NEW k, At(t, k), k # "addCallback", Goto(t, l)
      PROVE  \A u \in Threads : Announcing(u) => Announcing(u)'
  BY <1>1, <1>2 DEF Goto, Announcing, At
<1>3. ASSUME NEW l, NEW k, At(t, k), k # "addCallback", Goto(t, l),
             UNCHANGED <<deliveries, delivered, poll>>, active' => active
      PROVE  MetadataNotSwallowed'
  BY <1>2, <1>3, KeptFrame DEF PollAnnouncing, PollAt
<1>4. CASE AddMetadata(t)
  <2>1. CASE TakeDelivery
    BY <1>1, <1>4, <2>1 DEF AddMetadata, Goto, Announcing, At,
       MetadataNotSwallowed
  <2>2. CASE ~TakeDelivery
    <3>1. \A u \in Threads : Announcing(u) => Announcing(u)'
      BY <1>2, <1>4 DEF AddMetadata
    <3>2. /\ UNCHANGED <<active, deliveries, poll>>
          /\ active => delivered
      BY <1>4, <2>2 DEF AddMetadata, TakeDelivery
    <3>3. QED
      BY <3>1, <3>2 DEF MetadataNotSwallowed, PollAnnouncing, PollAt
  <2>3. QED
    BY <2>1, <2>2
<1>5. CASE AddCallback(t)
  BY <1>1, <1>5 DEF AddCallback, Deliver, MetadataNotSwallowed
<1>6. CASE Begin(t)
  <2>1. CASE Pause(t)
    BY <2>1, KeptFrame DEF Pause, PollAnnouncing, PollAt, Announcing, At
  <2>2. CASE ResumeClear(t) \/ CancelClaim(t) \/ FinaliseClaim(t)
    BY <1>3, <2>2 DEF ResumeClear, CancelClaim, FinaliseClaim
  <2>3. QED
    BY <1>6, <2>1, <2>2 DEF Begin
<1>7. CASE \/ ResumeApply(t) \/ CancelRemove(t) \/ CancelErase(t)
           \/ FinaliseBarrier(t) \/ FinaliseFlushed(t)
  BY <1>3, <1>7 DEF ResumeApply, CancelRemove, CancelErase, FinaliseBarrier,
     FinaliseFlushed
<1>8. CASE \/ FinaliseRemove(t) \/ FinaliseRemoved(t) \/ FinaliseErase(t)
           \/ FailedLatch(t) \/ FailedState(t)
  <2>1. CASE FinaliseRemove(t) \/ FinaliseRemoved(t) \/ FinaliseErase(t)
    BY <1>3, <2>1 DEF FinaliseRemove, FinaliseRemoved, FinaliseErase
  <2>2. CASE FailedLatch(t)
    BY <1>3, <2>2 DEF FailedLatch
  <2>3. CASE FailedState(t)
    BY <1>3, <2>3 DEF FailedState
  <2>4. QED
    BY <1>8, <2>1, <2>2, <2>3
<1>9. CASE Undo(t) \/ FinaliseFlushTimeout(t)
  BY <1>3, <1>9 DEF Undo, FinaliseFlushTimeout
<1>10. QED
  BY <1>4, <1>5, <1>6, <1>7, <1>8, <1>9 DEF Continue

\* No step of the poll thread swallows the event.
LEMMA KeptPoll ==
  ASSUME TypeOK, MetadataNotSwallowed, Poll
  PROVE  MetadataNotSwallowed'
<1> USE DEF claim, observer, metadata, flags, payload, library
<1>1. poll \in PollState /\ deliveries \in 0..2
  BY DEF TypeOK, PollType, ReportType
<1>2. /\ active' = active
      /\ \A t \in Threads : Announcing(t) => Announcing(t)'
  BY DEF Poll, ProcessAlerts, UpdateStats, RecordError, DeliverMetadata,
     PollPop, PollMetadataAlert, PollErrorAlert, PollFlushedAlert,
     PollRemovedAlert, PollAlertsDone, PollStatus, PollErrc, PollCompute,
     PollStore, PollMetadata, PollLatch, PollErrorState, PollDeliver,
     PollMetadataGone, PollCallback, Announcing, At
<1>3. CASE PollDeliver
  <2>1. ~PollAnnouncing /\ deliveries' = deliveries
    BY <1>3 DEF PollDeliver, PollAnnouncing, PollAt
  <2>2. CASE TakeDelivery
    BY <1>1, <1>3, <2>2 DEF PollDeliver, PollGoto, PollState, PollAnnouncing,
       PollAt, MetadataNotSwallowed
  <2>3. CASE ~TakeDelivery
    BY <1>2, <2>1, <2>3 DEF TakeDelivery, MetadataNotSwallowed
  <2>4. QED
    BY <2>2, <2>3
<1>4. CASE PollCallback
  BY <1>1, <1>2, <1>4 DEF PollCallback, Deliver, MetadataNotSwallowed
<1>5. CASE ~PollDeliver /\ ~PollCallback
  <2>1. UNCHANGED <<deliveries, delivered>> /\ ~PollAnnouncing
    BY <1>5 DEF Poll, ProcessAlerts, UpdateStats, RecordError, DeliverMetadata,
       PollPop, PollMetadataAlert, PollErrorAlert, PollFlushedAlert,
       PollRemovedAlert, TakeAlert, PollAlertsDone, PollStatus, PollErrc,
       PollCompute, PollStore, PollMetadata, PollLatch, PollErrorState,
       PollMetadataGone, PollAnnouncing, PollAt
  <2>2. QED
    BY <1>2, <2>1, KeptFrame
<1>6. QED
  BY <1>3, <1>4, <1>5

\* The event is lost in one way only: a delivery finds a torrent that a call is
\* closing (DeliverMetadata takes the latch and returns), and that call fails
\* and gives the torrent back.
THEOREM SwallowedOnlyByGivingBackCorrect == Spec => SwallowedOnlyByGivingBack
<1>1. ASSUME TypeOK, [Next]_vars, MetadataNotSwallowed, ~(~active /\ active')
      PROVE  MetadataNotSwallowed'
  <2>1. CASE Library \/ UNCHANGED vars
    <3>1. UNCHANGED <<deliveries, delivered, active, pc, poll>>
      BY <2>1 DEF claim, metadata, Library, Disk, LibDurable, LibFlushDone,
         LibMetadata, LibChecked, LibPiece, LibTransient, LibError, LibClosed,
         vars
    <3>2. QED
      BY <1>1, <3>1, KeptFrame DEF PollAnnouncing, PollAt, Announcing, At
  <2>2. QED
    BY <1>1, <2>1, KeptCalls, KeptPoll DEF Next
<1>2. TypeOK /\ [Next]_vars
        => [MetadataNotSwallowed /\ ~MetadataNotSwallowed' => ~active /\ active']_vars
  BY <1>1
<1>3. QED
  BY <1>2, TypeCorrect, PTL DEF Spec, SwallowedOnlyByGivingBack

(***************************************************************************)
(* The life of the torrent                                                 *)
(***************************************************************************)

RemovedPcs == {"cancelErase", "finRemovedWait", "finStop"}
ClosingPcs == ClaimedPcs \union RemovedPcs

\* One call at a time closes the torrent, and how far it is says whether the
\* library still holds it.
LifeInv ==
  /\ active => held
  /\ \A t \in Threads :
       /\ pc[t] \in ClosingPcs => ~active
       /\ pc[t] \in ClaimedPcs => held
       /\ pc[t] \in RemovedPcs => ~held
  /\ \A t, u \in Threads : pc[t] \in ClosingPcs /\ pc[u] \in ClosingPcs => t = u

Simulates == Abstract!LNext \/ UNCHANGED Abstract!lvars

\* A step that leaves the claim and the library's hold alone, and moves no
\* thread in or out of a closing call, leaves the life of the torrent alone.
LEMMA LifeFrame ==
  ASSUME LifeInv, UNCHANGED <<active, held>>,
         \A t \in Threads : pc'[t] = pc[t] \/
           (pc[t] \notin ClosingPcs /\ pc'[t] \notin ClosingPcs)
  PROVE  LifeInv' /\ Simulates
<1>1. LifeInv'
  BY DEF LifeInv, ClosingPcs
<1>2. Owners' = Owners /\ Phase' = Phase
  BY DEF Owners, Phase, ClosingPcs
<1>3. UNCHANGED Abstract!lvars
  BY <1>2 DEF Abstract!lvars
<1> QED
  BY <1>1, <1>3 DEF Simulates

\* A claim: no other call is closing the torrent, because it was active.
LEMMA LifeClaim ==
  ASSUME TypeOK, LifeInv, NEW t \in Threads, CancelClaim(t) \/ FinaliseClaim(t)
  PROVE  LifeInv' /\ Simulates
<1>1. PICK l \in ClaimedPcs : pc' = [pc EXCEPT ![t] = l]
  BY DEF CancelClaim, FinaliseClaim, Goto, ClaimedPcs
<1>2. active /\ held /\ ~active' /\ held' = held
  BY DEF CancelClaim, FinaliseClaim, Claimable, LifeInv, library
<1>3. \A u \in Threads : pc[u] \notin ClosingPcs
  BY <1>2 DEF LifeInv
<1>4. \A u \in Threads : pc'[u] = IF u = t THEN l ELSE pc[u]
  BY <1>1 DEF TypeOK, CallType
<1>5. l \notin RemovedPcs
  BY DEF ClaimedPcs, RemovedPcs
<1>6. LifeInv'
  BY <1>2, <1>3, <1>4, <1>5 DEF LifeInv, ClosingPcs
<1>7. Owners = {} /\ Owners' = {t}
  BY <1>3, <1>4 DEF Owners, ClosingPcs
<1>8. Phase = "live" /\ Phase' = "closing"
  BY <1>2 DEF Phase
<1>9. Abstract!Claim(t, 1)
  BY <1>7, <1>8 DEF Abstract!Claim
<1> QED
  BY <1>6, <1>9 DEF Simulates, Abstract!LNext

\* The removal, or its failure.
LEMMA LifeRemove ==
  ASSUME TypeOK, LifeInv, NEW t \in Threads, CancelRemove(t) \/ FinaliseRemove(t)
  PROVE  LifeInv' /\ Simulates
<1>1. PICK l : /\ pc' = [pc EXCEPT ![t] = l]
               /\ \/ ~held' /\ l \in RemovedPcs
                  \/ held' = held /\ l \in ClaimedPcs
  BY DEF CancelRemove, FinaliseRemove, Goto, RemovedPcs, ClaimedPcs
<1>2. pc[t] \in ClaimedPcs /\ active' = active
  BY DEF CancelRemove, FinaliseRemove, At, ClaimedPcs, claim
<1>3. held /\ ~active /\ \A u \in Threads : u # t => pc[u] \notin ClosingPcs
  BY <1>2 DEF LifeInv, ClosingPcs
<1>4. \A u \in Threads : pc'[u] = IF u = t THEN l ELSE pc[u]
  BY <1>1 DEF TypeOK, CallType
<1>5. ClaimedPcs \intersect RemovedPcs = {}
  BY DEF ClaimedPcs, RemovedPcs
<1>6. LifeInv'
  BY <1>1, <1>2, <1>3, <1>4, <1>5 DEF LifeInv, ClosingPcs
<1>7. Owners = {t} /\ Phase = "closing"
  BY <1>2, <1>3 DEF Owners, Phase, ClosingPcs
<1>8. CASE ~held' /\ l \in RemovedPcs
  <2>1. Owners' = {} /\ Phase' = "gone"
    BY <1>3, <1>4, <1>5, <1>8 DEF Owners, Phase, ClosingPcs
  <2>2. Abstract!Retire(t, 1)
    BY <1>7, <2>1 DEF Abstract!Retire
  <2> QED
    BY <1>6, <2>2 DEF Simulates, Abstract!LNext
<1>9. CASE held' = held /\ l \in ClaimedPcs
  <2>1. Owners' = Owners /\ Phase' = Phase
    BY <1>2, <1>3, <1>4, <1>7, <1>9 DEF Owners, Phase, ClosingPcs
  <2>2. UNCHANGED Abstract!lvars
    BY <2>1 DEF Abstract!lvars
  <2> QED
    BY <1>6, <2>2 DEF Simulates
<1> QED
  BY <1>1, <1>8, <1>9

\* A call that gives up gives the torrent back.
LEMMA LifeGiveBack ==
  ASSUME TypeOK, LifeInv, NEW t \in Threads, Undo(t) \/ FinaliseFlushTimeout(t)
  PROVE  LifeInv' /\ Simulates
<1>1. /\ pc' = [pc EXCEPT ![t] = "failed"] /\ active' /\ held' = held
      /\ pc[t] \in ClaimedPcs
  BY DEF Undo, FinaliseFlushTimeout, At, Goto, ClaimedPcs, library
<1>2. held /\ \A u \in Threads : u # t => pc[u] \notin ClosingPcs
  BY <1>1 DEF LifeInv, ClosingPcs
<1>3. \A u \in Threads : pc'[u] = IF u = t THEN "failed" ELSE pc[u]
  BY <1>1 DEF TypeOK, CallType
<1>4. "failed" \notin ClosingPcs
  BY DEF ClosingPcs, ClaimedPcs, RemovedPcs
<1>5. \A u \in Threads : pc'[u] \notin ClosingPcs
  BY <1>2, <1>3, <1>4
<1>6. LifeInv'
  BY <1>1, <1>2, <1>5 DEF LifeInv, ClosingPcs
<1>7. Owners = {t} /\ Owners' = {} /\ Phase' = "live"
  BY <1>1, <1>2, <1>5 DEF Owners, Phase, ClosingPcs
<1>8. Abstract!GiveBack(t, 1)
  BY <1>7 DEF Abstract!GiveBack
<1> QED
  BY <1>6, <1>8 DEF Simulates, Abstract!LNext

\* The steps of a closing call that go on in the library's sight or out of it.
LEMMA LifeGoesOn ==
  ASSUME TypeOK, LifeInv, NEW t \in Threads,
         \/ FinaliseBarrier(t) \/ FinaliseFlushed(t)
         \/ FinaliseRemoved(t) \/ FinaliseErase(t) \/ CancelErase(t)
  PROVE  LifeInv' /\ Simulates
<1>1. PICK l : /\ pc' = [pc EXCEPT ![t] = l]
               /\ \/ pc[t] \in ClaimedPcs /\ l \in ClaimedPcs
                  \/ pc[t] \in RemovedPcs /\ l \in RemovedPcs \union {"idle"}
  BY DEF FinaliseBarrier, FinaliseFlushed, FinaliseRemoved, FinaliseErase,
     CancelErase, At, Goto, ClaimedPcs, RemovedPcs
<1>2. UNCHANGED <<active, held>>
  BY DEF FinaliseBarrier, FinaliseFlushed, FinaliseRemoved, FinaliseErase,
     CancelErase, claim, library
<1>3. \A u \in Threads : pc'[u] = IF u = t THEN l ELSE pc[u]
  BY <1>1 DEF TypeOK, CallType
<1>4. ClaimedPcs \intersect (RemovedPcs \union {"idle"}) = {} /\ "idle" \notin ClosingPcs
  BY DEF ClosingPcs, ClaimedPcs, RemovedPcs
<1>5. LifeInv'
  BY <1>1, <1>2, <1>3, <1>4 DEF LifeInv, ClosingPcs
<1>6. Owners' = Owners /\ Phase' = Phase
  BY <1>1, <1>2, <1>3, <1>4 DEF Owners, Phase
<1>7. UNCHANGED Abstract!lvars
  BY <1>6 DEF Abstract!lvars
<1> QED
  BY <1>5, <1>7 DEF Simulates

\* Every step.
LEMMA LifeNext == ASSUME TypeOK, LifeInv, [Next]_vars PROVE LifeInv' /\ Simulates
<1>1. ASSUME NEW t \in Threads,
             \/ Pause(t) \/ ResumeClear(t) \/ ResumeApply(t) \/ AddMetadata(t)
             \/ AddCallback(t) \/ FailedLatch(t) \/ FailedState(t)
      PROVE  LifeInv' /\ Simulates
  <2>1. /\ UNCHANGED <<active, held>>
        /\ UNCHANGED pc \/ \E l : /\ pc' = [pc EXCEPT ![t] = l]
                                  /\ l \notin ClosingPcs /\ pc[t] \notin ClosingPcs
    BY <1>1 DEF Pause, ResumeClear, ResumeApply, AddMetadata, AddCallback,
       FailedLatch, FailedState, At, Goto, claim, library, ClosingPcs,
       ClaimedPcs, RemovedPcs
  <2>2. \A u \in Threads : pc'[u] = pc[u] \/
          (pc[u] \notin ClosingPcs /\ pc'[u] \notin ClosingPcs)
    BY <2>1 DEF TypeOK, CallType
  <2> QED
    BY <2>1, <2>2, LifeFrame
<1>2. CASE Poll \/ Library \/ UNCHANGED vars
  <2>1. UNCHANGED <<active, held, pc>>
    BY <1>2 DEF Poll, ProcessAlerts, UpdateStats, RecordError, DeliverMetadata,
       PollPop, PollMetadataAlert, PollErrorAlert, PollFlushedAlert,
       PollRemovedAlert, PollAlertsDone, PollStatus, PollErrc, PollCompute,
       PollStore, PollMetadata, PollLatch, PollErrorState, PollDeliver,
       PollMetadataGone, PollCallback, Library, Disk, LibDurable, LibFlushDone, LibMetadata,
       LibChecked, LibPiece, LibTransient, LibError, LibClosed, vars, claim, library
  <2> QED
    BY <2>1, LifeFrame
<1> QED
  BY <1>1, <1>2, LifeClaim, LifeRemove, LifeGiveBack, LifeGoesOn
  DEF Next, Begin, Continue

\* The entry follows the life cycle that TorrentManager implements, whoever
\* calls and whatever fails.
THEOREM FollowsLifecycleCorrect == Spec => FollowsLifecycle
<1>1. Init => LifeInv
  BY DEF Init, LifeInv, ClosingPcs, ClaimedPcs, RemovedPcs
<1>2. TypeOK /\ LifeInv /\ [Next]_vars => LifeInv' /\ [Abstract!LNext]_(Abstract!lvars)
  BY LifeNext DEF Simulates
<1> QED
  BY <1>1, <1>2, TypeCorrect, PTL DEF Spec, FollowsLifecycle
=============================================================================

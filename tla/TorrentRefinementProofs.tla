---------------------- MODULE TorrentRefinementProofs ----------------------
(***************************************************************************)
(* TorrentManager implements TorrentLifecycle: initial states map to       *)
(* initial states, and each step maps to one abstract step or to a         *)
(* stutter.  Only StartAccepted, the two claims, the two calls of          *)
(* remove_torrent, the three ways to give a claim back, and Destroy are    *)
(* visible.                                                                *)
(***************************************************************************)
EXTENDS TorrentManagerProofs

PhaseMap  == [i \in Ids |-> Phase(i)]
OwnersMap == [i \in Ids |-> Owners(i)]

\* The abstract state a step leaves alone.
Invisible == PhaseMap' = PhaseMap /\ OwnersMap' = OwnersMap /\ hash' = hash

\* The phase of a torrent depends on these variables only.
LEMMA PhaseFrame ==
  ASSUME UNCHANGED <<nextId, session, active>>
  PROVE  PhaseMap' = PhaseMap
  BY DEF PhaseMap, Phase

\* The owners of a torrent depend on the program points and ids of calls.
LEMMA OwnersFrame ==
  ASSUME UNCHANGED <<pc, arg>>
  PROVE  OwnersMap' = OwnersMap
  BY DEF OwnersMap, Owners

\* A thread outside the claimed points that stays outside owns nothing.
LEMMA OwnersOutside ==
  ASSUME TypeOK, NEW t \in Threads, NEW l, NEW x,
         pc' = [pc EXCEPT ![t] = l], arg' = [arg EXCEPT ![t] = x],
         pc[t] \notin ClaimedPcs, l \notin ClaimedPcs
  PROVE  OwnersMap' = OwnersMap
<1>1. ASSUME NEW i \in Ids PROVE Owners(i)' = Owners(i)
  BY <1>1 DEF Owners, TypeOK
<1>2. QED
  BY <1>1 DEF OwnersMap

\* A thread that stays inside them goes on owning the same torrent.
LEMMA OwnersInside ==
  ASSUME TypeOK, NEW t \in Threads, NEW l,
         Goto(t, l), UNCHANGED arg,
         pc[t] \in ClaimedPcs <=> l \in ClaimedPcs
  PROVE  OwnersMap' = OwnersMap
<1>1. ASSUME NEW i \in Ids PROVE Owners(i)' = Owners(i)
  BY <1>1 DEF Owners, TypeOK, Goto
<1>2. QED
  BY <1>1 DEF OwnersMap

\* An active torrent has no owner.
LEMMA ActiveUnowned ==
  ASSUME LifecycleInv, NEW i \in Ids, active[i]
  PROVE  Owners(i) = {}
  BY DEF LifecycleInv, ClaimInv, Owners

\* A thread at a claimed point is the only owner of its torrent.
LEMMA ClaimedSoleOwner ==
  ASSUME LifecycleInv, NEW t \in Threads, pc[t] \in ClaimedPcs
  PROVE  arg[t] \in Ids /\ Owners(arg[t]) = {t}
<1>1. arg[t] \in Ids
  BY DEF LifecycleInv, TypeOK, ClaimedPcs
<1>2. \A u \in Threads : u \in Owners(arg[t]) <=> u = t
  BY DEF LifecycleInv, ExclusiveInv, Owners, ClosingPcs
<1>3. QED
  BY <1>1, <1>2 DEF Owners

\* Entering the claimed points makes t the owner of its torrent.
LEMMA OwnersTaken ==
  ASSUME LifecycleInv, NEW t \in Threads, NEW l \in ClaimedPcs,
         pc[t] \notin ClaimedPcs, arg[t] \in Ids, active[arg[t]],
         Goto(t, l), UNCHANGED arg
  PROVE  OwnersMap' = [OwnersMap EXCEPT ![arg[t]] = {t}]
<1>1. Owners(arg[t]) = {}
  BY ActiveUnowned
<1>2. Owners(arg[t])' = {t}
  BY <1>1 DEF Owners, Goto, LifecycleInv, TypeOK
<1>3. ASSUME NEW i \in Ids, i # arg[t] PROVE Owners(i)' = Owners(i)
  BY <1>3 DEF Owners, Goto, LifecycleInv, TypeOK
<1>4. QED
  BY <1>2, <1>3 DEF OwnersMap

\* Leaving them leaves the torrent without owner.
LEMMA OwnersDropped ==
  ASSUME LifecycleInv, NEW t \in Threads, NEW l, NEW x,
         pc[t] \in ClaimedPcs, l \notin ClaimedPcs,
         pc' = [pc EXCEPT ![t] = l], arg' = [arg EXCEPT ![t] = x]
  PROVE  OwnersMap' = [OwnersMap EXCEPT ![arg[t]] = {}]
<1>1. PICK j \in Ids : j = arg[t] /\ Owners(j) = {t}
  BY ClaimedSoleOwner
<1>2. \A u \in Threads : ~(pc'[u] \in ClaimedPcs /\ arg'[u] = j)
  <2>1. ASSUME NEW u \in Threads, u # t
        PROVE  ~(pc'[u] \in ClaimedPcs /\ arg'[u] = j)
    BY <1>1, <2>1 DEF Owners, LifecycleInv, TypeOK
  <2>2. pc'[t] \notin ClaimedPcs
    BY DEF LifecycleInv, TypeOK
  <2>3. QED
    BY <2>1, <2>2
<1>3. Owners(j)' = {}
  BY <1>2 DEF Owners
<1>4. ASSUME NEW i \in Ids, i # j PROVE Owners(i)' = Owners(i)
  BY <1>1, <1>4 DEF Owners, LifecycleInv, TypeOK
<1>5. QED
  BY <1>1, <1>3, <1>4 DEF OwnersMap

(***************************************************************************)
(* The three kinds of visible step of a closing call                       *)
(***************************************************************************)

\* A claim by Cancel or Finalise is the abstract Claim.
LEMMA ClaimStep ==
  ASSUME LifecycleInv, NEW t \in Threads, NEW l \in ClaimedPcs,
         pc[t] \in FoundPcs, Claimable(arg[t]), Goto(t, l),
         active' = [active EXCEPT ![arg[t]] = FALSE],
         UNCHANGED <<arg, nextId, hash, session>>
  PROVE  Abstract!Claim(t, arg[t])
<1>1. /\ arg[t] \in Ids
      /\ active[arg[t]]
      /\ arg[t] \in session
      /\ ~(arg[t] >= nextId)
      /\ pc[t] \notin ClaimedPcs
  BY DEF LifecycleInv, TypeOK, RegistryInv, ClaimInv, Claimable, Issued, Ids,
     FoundPcs, ClaimedPcs
<1>2. PhaseMap[arg[t]] = "live" /\ OwnersMap[arg[t]] = {}
  BY <1>1, ActiveUnowned DEF PhaseMap, Phase, OwnersMap
<1>3. PhaseMap' = [PhaseMap EXCEPT ![arg[t]] = "closing"]
  BY <1>1 DEF PhaseMap, Phase, LifecycleInv, TypeOK
<1>4. OwnersMap' = [OwnersMap EXCEPT ![arg[t]] = {t}]
  BY <1>1, OwnersTaken
<1>5. QED
  BY <1>2, <1>3, <1>4 DEF Abstract!Claim, PhaseMap, OwnersMap

\* Undoing a claim is the abstract GiveBack.
LEMMA GiveBackStep ==
  ASSUME LifecycleInv, NEW t \in Threads, NEW op, NEW code,
         pc[t] \in ClaimedPcs, Return(t, op, code),
         active' = [active EXCEPT ![arg[t]] = TRUE],
         UNCHANGED <<nextId, hash, session>>
  PROVE  Abstract!GiveBack(t, arg[t])
<1>1. arg[t] \in Ids /\ arg[t] \in session /\ ~(arg[t] >= nextId)
  BY DEF LifecycleInv, TypeOK, ClaimInv, Issued, Ids, ClaimedPcs
<1>2. OwnersMap[arg[t]] = {t}
  BY ClaimedSoleOwner DEF OwnersMap
<1>3. PhaseMap' = [PhaseMap EXCEPT ![arg[t]] = "live"]
  BY <1>1 DEF PhaseMap, Phase, LifecycleInv, TypeOK
<1>4. "idle" \notin ClaimedPcs
  BY DEF ClaimedPcs
<1>5. OwnersMap' = [OwnersMap EXCEPT ![arg[t]] = {}]
  BY <1>4, OwnersDropped DEF Return, Goto
<1>6. QED
  BY <1>2, <1>3, <1>5 DEF Abstract!GiveBack, PhaseMap, OwnersMap

\* remove_torrent is the abstract Retire.
LEMMA RetireStep ==
  ASSUME LifecycleInv, NEW t \in Threads, NEW l,
         pc[t] \in ClaimedPcs, l \notin ClaimedPcs, Goto(t, l),
         session' = session \ {arg[t]},
         UNCHANGED <<arg, nextId, hash, active>>
  PROVE  Abstract!Retire(t, arg[t])
<1>1. arg[t] \in Ids /\ arg[t] \in session /\ ~(arg[t] >= nextId)
  BY DEF LifecycleInv, TypeOK, ClaimInv, Issued, Ids, ClaimedPcs
<1>2. OwnersMap[arg[t]] = {t}
  BY ClaimedSoleOwner DEF OwnersMap
<1>3. PhaseMap' = [PhaseMap EXCEPT ![arg[t]] = "gone"]
  BY <1>1 DEF PhaseMap, Phase, LifecycleInv, TypeOK
<1>4. arg' = [arg EXCEPT ![t] = arg[t]]
  BY DEF LifecycleInv, TypeOK
<1>5. OwnersMap' = [OwnersMap EXCEPT ![arg[t]] = {}]
  BY <1>4, OwnersDropped DEF Goto
<1>6. QED
  BY <1>2, <1>3, <1>5 DEF Abstract!Retire, PhaseMap, OwnersMap

(***************************************************************************)
(* Refinement                                                              *)
(***************************************************************************)

\* A manager with no torrents is an abstract initial state.
LEMMA RefinesInit == Init => Abstract!LInit
<1> SUFFICES ASSUME Init PROVE Abstract!LInit
  OBVIOUS
<1>1. PhaseMap = [i \in Ids |-> "unused"]
  BY ManagerAssumption DEF Init, PhaseMap, Phase, Ids
<1>2. OwnersMap = [i \in Ids |-> {}]
  BY DEF Init, OwnersMap, Owners, ClaimedPcs
<1>3. hash \in [Ids -> Hashes]
  BY TypeInit DEF TypeOK
<1>4. QED
  BY <1>1, <1>2, <1>3 DEF Abstract!LInit, PhaseMap, OwnersMap

\* A start that is accepted is the abstract Accept.
LEMMA AcceptStep ==
  ASSUME LifecycleInv, NEW t \in Threads, NEW h \in Hashes, StartAccepted(t, h)
  PROVE  nextId \in Ids /\ Abstract!Accept(nextId, h)
<1> USE DEF StartAccepted, threads
<1>1. nextId \in Ids
  BY DEF LifecycleInv, TypeOK, Ids
<1>2. PhaseMap[nextId] = "unused"
  <2>1. nextId >= nextId
    BY DEF LifecycleInv, TypeOK
  <2>2. QED
    BY <1>1, <2>1 DEF PhaseMap, Phase
<1>3. \A j \in Ids : PhaseMap[j] \in {"live", "closing"} => hash[j] # h
  BY DEF PhaseMap, Phase, SessionDuplicate
<1>4. PhaseMap' = [PhaseMap EXCEPT ![nextId] = "live"]
  <2>1. PICK n \in Ids : n = nextId
    BY <1>1
  <2>2. /\ nextId' = n + 1
        /\ session' = session \union {n}
        /\ active' = [active EXCEPT ![n] = TRUE]
    BY <2>1
  <2>3. Phase(n)' = "live"
    BY <2>2 DEF Phase, LifecycleInv, TypeOK, Ids
  <2>4. ASSUME NEW i \in Ids, i # n PROVE Phase(i)' = Phase(i)
    BY <2>1, <2>2, <2>4 DEF Phase, LifecycleInv, TypeOK, Ids
  <2>5. QED
    BY <2>1, <2>3, <2>4 DEF PhaseMap
<1>5. OwnersMap' = OwnersMap
  BY OwnersFrame
<1>6. QED
  BY <1>1, <1>2, <1>3, <1>4, <1>5
  DEF Abstract!Accept, Abstract!Held, PhaseMap, OwnersMap

\* Destroying the manager is the abstract Shutdown.
LEMMA ShutdownStep ==
  ASSUME LifecycleInv, Destroy
  PROVE  Abstract!Shutdown
<1> USE DEF Destroy, threads
<1>1. OwnersMap = [i \in Ids |-> {}]
  BY DEF OwnersMap, Owners, ClaimedPcs
<1>2. OwnersMap' = OwnersMap
  BY OwnersFrame
<1>3. PhaseMap' = [i \in Ids |->
        IF PhaseMap[i] = "unused" THEN "unused" ELSE "gone"]
  BY DEF PhaseMap, Phase
<1>4. QED
  BY <1>1, <1>2, <1>3 DEF Abstract!Shutdown, PhaseMap, OwnersMap

\* Every step is an abstract step or changes nothing abstract.
LEMMA RefinesNext ==
  ASSUME LifecycleInv, [Next]_vars
  PROVE  [Abstract!LNext]_<<PhaseMap, OwnersMap, hash>>
<1> DEFINE Visible ==
      \/ \E i \in Ids, h \in Hashes : Abstract!Accept(i, h)
      \/ \E t \in Threads, i \in Ids :
           Abstract!Claim(t, i) \/ Abstract!GiveBack(t, i) \/ Abstract!Retire(t, i)
      \/ Abstract!Shutdown
<1>1. Visible => Abstract!LNext
  BY DEF Abstract!LNext
<1> HIDE DEF Visible
<1>2. ASSUME NEW t \in Threads, Begin(t) PROVE Visible \/ Invisible
  <2>1. CASE \E h \in Hashes : StartAccepted(t, h)
    BY <2>1, AcceptStep DEF Visible
  <2>2. CASE \E h \in Hashes : StartRefused(t, h)
    BY <2>2, PhaseFrame, OwnersFrame
    DEF StartRefused, registry, threads, library, Invisible
  <2>3. CASE \E limit \in Limits : UpdateConfig(t, limit)
    BY <2>3, PhaseFrame, OwnersFrame
    DEF UpdateConfig, threads, library, Invisible
  <2>4. ASSUME NEW op \in FoundPcs, NEW i \in Ids, FindEntry(t, op, i)
        PROVE  Invisible
    <3>1. PhaseMap' = PhaseMap /\ hash' = hash
      BY <2>4, PhaseFrame DEF FindEntry, registry, library
    <3>2. CASE i \in entries
      <4>1. pc[t] \notin ClaimedPcs /\ op \notin ClaimedPcs
        BY <2>4 DEF FindEntry, At, FoundPcs, ClaimedPcs
      <4>2. OwnersMap' = OwnersMap
        BY <2>4, <3>2, <4>1, OwnersOutside DEF FindEntry, Goto, LifecycleInv
      <4>3. QED
        BY <3>1, <4>2 DEF Invisible
    <3>3. CASE i \notin entries
      BY <2>4, <3>1, <3>3, OwnersFrame DEF FindEntry, threads, Invisible
    <3>4. QED
      BY <3>2, <3>3
  <2>5. QED
    BY <1>2, <2>1, <2>2, <2>3, <2>4 DEF Begin
<1>3. ASSUME NEW t \in Threads,
             \/ PauseOrResume(t) \/ ClaimRefused(t)
             \/ CancelErase(t) \/ FinaliseErase(t)
      PROVE  Invisible
  <2>1. PhaseMap' = PhaseMap /\ hash' = hash
    BY <1>3, PhaseFrame DEF PauseOrResume, ClaimRefused, CancelErase,
       FinaliseErase, registry, library
  <2>2. pc[t] \notin ClaimedPcs /\ "idle" \notin ClaimedPcs
    BY <1>3 DEF PauseOrResume, ClaimRefused, CancelErase, FinaliseErase, At,
       ClaimedPcs
  <2>3. pc' = [pc EXCEPT ![t] = "idle"] /\ arg' = [arg EXCEPT ![t] = 0]
    BY <1>3 DEF PauseOrResume, ClaimRefused, CancelErase, FinaliseErase, Return,
       Goto
  <2>4. QED
    BY <2>1, <2>2, <2>3, OwnersOutside DEF Invisible, LifecycleInv
<1>4. ASSUME NEW t \in Threads, CancelClaim(t) \/ FinaliseClaim(t)
      PROVE  Visible
  <2>1. Abstract!Claim(t, arg[t])
    BY <1>4, ClaimStep DEF CancelClaim, FinaliseClaim, At, FoundPcs, ClaimedPcs,
       registry, library
  <2>2. arg[t] \in Ids
    BY <1>4 DEF CancelClaim, FinaliseClaim, At, LifecycleInv, TypeOK
  <2>3. QED
    BY <2>1, <2>2 DEF Visible
<1>5. ASSUME NEW t \in Threads,
             CancelUndo(t) \/ FinaliseFlushTimeout(t) \/ FinaliseUndo(t)
      PROVE  Visible
  <2>1. Abstract!GiveBack(t, arg[t])
    BY <1>5, GiveBackStep DEF CancelUndo, FinaliseFlushTimeout, FinaliseUndo, At,
       ClaimedPcs, registry, library
  <2>2. arg[t] \in Ids
    BY <1>5 DEF CancelUndo, FinaliseFlushTimeout, FinaliseUndo, At, LifecycleInv,
       TypeOK
  <2>3. QED
    BY <2>1, <2>2 DEF Visible
<1>6. ASSUME NEW t \in Threads, CancelRemove(t) \/ FinaliseRemove(t)
      PROVE  Visible \/ Invisible
  <2>1. CASE session' = session /\ \E l \in ClaimedPcs : Goto(t, l)
    <3>1. PhaseMap' = PhaseMap /\ hash' = hash
      BY <1>6, <2>1, PhaseFrame DEF CancelRemove, FinaliseRemove, registry
    <3>2. pc[t] \in ClaimedPcs /\ UNCHANGED arg
      BY <1>6 DEF CancelRemove, FinaliseRemove, At, ClaimedPcs
    <3>3. OwnersMap' = OwnersMap
      BY <2>1, <3>2, OwnersInside DEF LifecycleInv
    <3>4. QED
      BY <3>1, <3>3 DEF Invisible
  <2>2. CASE session' = session \ {arg[t]} /\ \E l \in RemovedPcs : Goto(t, l)
    <3>1. pc[t] \in ClaimedPcs /\ arg[t] \in Ids
      BY <1>6 DEF CancelRemove, FinaliseRemove, At, ClaimedPcs, LifecycleInv,
         TypeOK
    <3>2. UNCHANGED <<arg, nextId, hash, active>>
      BY <1>6 DEF CancelRemove, FinaliseRemove, registry
    <3>3. \A l \in RemovedPcs : l \notin ClaimedPcs
      BY DEF RemovedPcs, ClaimedPcs
    <3>4. Abstract!Retire(t, arg[t])
      BY <2>2, <3>1, <3>2, <3>3, RetireStep
    <3>5. QED
      BY <3>1, <3>4 DEF Visible
  <2>3. QED
    BY <1>6, <2>1, <2>2 DEF CancelRemove, FinaliseRemove, ClaimedPcs, RemovedPcs
<1>7. ASSUME NEW t \in Threads,
             \/ FinaliseBarrier(t) \/ FinaliseFlushed(t)
             \/ FinaliseRemoved(t) \/ FinaliseRemovedTimeout(t)
      PROVE  Invisible
  <2>1. PhaseMap' = PhaseMap /\ hash' = hash
    BY <1>7, PhaseFrame DEF FinaliseBarrier, FinaliseFlushed, FinaliseRemoved,
       FinaliseRemovedTimeout, registry, library
  <2>2. \E l \in Pcs : Goto(t, l) /\ (pc[t] \in ClaimedPcs <=> l \in ClaimedPcs)
    BY <1>7 DEF FinaliseBarrier, FinaliseFlushed, FinaliseRemoved,
       FinaliseRemovedTimeout, At, Pcs, ClosingPcs, RemovedPcs, ClaimedPcs
  <2>3. UNCHANGED arg
    BY <1>7 DEF FinaliseBarrier, FinaliseFlushed, FinaliseRemoved,
       FinaliseRemovedTimeout
  <2>4. QED
    BY <2>1, <2>2, <2>3, OwnersInside DEF Invisible, LifecycleInv
<1>8. ASSUME Poll \/ Library \/ UNCHANGED vars PROVE Invisible
  <2>1. UNCHANGED <<nextId, session, active, pc, arg, hash>>
    BY <1>8 DEF Poll, PollTake, PollFlushed, PollRemoved, PollRequestFlush,
       Library, LibFlushDone, LibClosed, vars, registry, threads, library
  <2>2. QED
    BY <2>1, PhaseFrame, OwnersFrame DEF Invisible
<1>9. ASSUME Destroy PROVE Visible
  BY <1>9, ShutdownStep DEF Visible
<1>10. Visible \/ Invisible
  BY <1>2, <1>3, <1>4, <1>5, <1>6, <1>7, <1>8, <1>9
  DEF Next, Continue, CancelStep, FinaliseStep
<1>11. QED
  BY <1>1, <1>10 DEF Invisible

\* The registry and lifecycle code implements its abstract specification.
THEOREM Refinement == Spec => ImplementsLifecycle
<1>1. LifecycleInv /\ [Next]_vars => [Abstract!LNext]_<<PhaseMap, OwnersMap, hash>>
  BY RefinesNext
<1>2. LifecycleInv /\ [Next]_vars => [Abstract!LNext]_(Abstract!lvars)
  BY <1>1 DEF Abstract!lvars, PhaseMap, OwnersMap
<1>3. QED
  BY <1>2, RefinesInit, Lifecycle, PTL DEF Spec, ImplementsLifecycle, Abstract!LSpec
=============================================================================

--------------------------- MODULE TorrentManager ---------------------------
(***************************************************************************)
(* The registry and the torrent lifecycle of native/src/torrent_manager    *)
(* (.cpp/.hpp): the map entries_, the claim that Cancel and Finalise take  *)
(* on an Entry, the two waits of Finalise, and the alert loop that wakes   *)
(* them.  One step is one critical section or one access to an atomic:     *)
(*   - a step under mutex_ (Find, Add, the erase at the end of a call),    *)
(*   - a step under Entry::lifecycle_mutex (claims, undo, alert handling), *)
(*   - a call into libtorrent made between locks.                          *)
(* lifecycle_mutex is held across two steps only by Cancel (claim, then    *)
(* remove_torrent); a condition-variable wait does not hold it.            *)
(*                                                                         *)
(* An Entry and its torrent_handle are named by the id next_id_ gave them: *)
(* a handle is created by the same Add that issues the id, and the lookups *)
(* by handle in ProcessAlerts are lookups by that id.                      *)
(*                                                                         *)
(* Left to module TorrentEntry: the observer side of an Entry (reported    *)
(* state, error latch, metadata and stats callbacks), which the lifecycle  *)
(* never reads.  The libtorrent session is external: it is modelled by     *)
(* what the manager relies on (see the section at the end).                *)
(***************************************************************************)
EXTENDS Integers, Sequences, FiniteSets

CONSTANTS Threads,    \* threads of the adapters that call the manager
          Hashes,     \* info hashes
          MaxId,      \* bound on next_id_ (an int32 in the code)
          Limits,     \* values UpdateConfig may be given for max_torrents
          InitialLimit, \* max_torrents the manager is created with
          AlertCap    \* bound on libtorrent's alert queue; later ones are lost

Ids == 1..MaxId

\* ValidateConfig, for the one field the registry reads.
ValidateConfig(limit) == limit > 0 /\ limit <= 10000

ASSUME ManagerAssumption ==
  /\ Hashes # {}
  /\ MaxId \in Nat
  /\ AlertCap \in Nat
  /\ Limits \subseteq Int
  /\ InitialLimit \in Int
  /\ ValidateConfig(InitialLimit)

VARIABLES
  alive,        \* the Manager has not been destroyed
  entries,      \* keys of entries_
  nextId,       \* next_id_
  maxTorrents,  \* config_.max_torrents
  hash,         \* Entry::info_hash_key
  active,       \* Entry::active
  finalising,   \* Entry::finalising
  preRemove,    \* Entry::pre_remove_flush_complete
  removed,      \* Entry::removed
  flushed,      \* Entry::completion_flush_complete
  pc,           \* where each calling thread is
  arg,          \* the id that thread was called with
  poll,         \* the alert the poll thread is handling
  reply,        \* the answer the latest step returned to its caller
  session,      \* external: torrents the libtorrent session holds
  open,         \* external: torrents whose files libtorrent may have open
  flushing,     \* external: torrents with a flush_cache not yet answered
  alerts        \* external: alerts posted and not yet popped, oldest first

registry  == <<entries, nextId, maxTorrents, hash>>
barrier   == <<finalising, preRemove, removed>>
threads   == <<pc, arg>>
library   == <<session, open, flushing, alerts>>
vars == <<alive, entries, nextId, maxTorrents, hash, active, finalising,
          preRemove, removed, flushed, pc, arg, poll, reply, session, open,
          flushing, alerts>>

Alerts  == [kind : {"flushed", "removed"}, id : Ids]
NoAlert == [kind |-> "none", id |-> 0]

Ops   == {"start", "control", "cancel", "finalise", "config"}
Codes == {"OK", "INVALID_ARGUMENT", "NOT_FOUND", "LIMIT_REACHED",
          "DUPLICATE_TORRENT", "NATIVE_ERROR"}
Replies == [op : Ops, id : 0..MaxId, code : Codes]
NoReply == [op |-> "none", id |-> 0, code |-> "none"]
Reply(o, i, c) == reply' = [op |-> o, id |-> i, code |-> c]

\* Program points of a call, by what the thread has done to the entry.
FoundPcs    == {"control", "cancel", "finalise"}
ClaimedPcs  == {"cancelRemove", "cancelUndo",
                "finBarrier", "finFlushWait", "finRemove", "finUndo"}
RemovedPcs  == {"cancelErase", "finRemovedWait", "finErase", "finErrorErase"}
ClosingPcs  == ClaimedPcs \union RemovedPcs
FinalisingPcs == {"finBarrier", "finFlushWait", "finRemove", "finUndo",
                  "finRemovedWait"}
Pcs         == {"idle"} \union FoundPcs \union ClosingPcs

Goto(t, l) == pc' = [pc EXCEPT ![t] = l]
At(t, l)   == alive /\ pc[t] = l

\* Entry::lifecycle_mutex of i is free: Cancel holds it over remove_torrent.
LifecycleFree(i) == \A t \in Threads : ~(pc[t] = "cancelRemove" /\ arg[t] = i)

\* A claim test that forgets the torrents Cancel has claimed.
ClaimableUnlessFinalising(i) == ~finalising[i]

\* The claim test shared by Pause, Resume, Cancel and Finalise.
Claimable(i) == ~finalising[i] /\ active[i]

\* Manager::ActiveIds.
ActiveIds == {i \in entries : active[i]}

TypeOK ==
  /\ alive \in BOOLEAN
  /\ entries \in SUBSET Ids
  /\ nextId \in 1..MaxId + 1
  /\ maxTorrents \in Int /\ ValidateConfig(maxTorrents)
  /\ hash \in [Ids -> Hashes]
  /\ active \in [Ids -> BOOLEAN]
  /\ finalising \in [Ids -> BOOLEAN]
  /\ preRemove \in [Ids -> BOOLEAN]
  /\ removed \in [Ids -> BOOLEAN]
  /\ flushed \in [Ids -> BOOLEAN]
  /\ pc \in [Threads -> Pcs]
  /\ arg \in [Threads -> 0..MaxId]
  /\ \A t \in Threads : pc[t] # "idle" => arg[t] \in Ids
  /\ poll \in Alerts \union {NoAlert}
  /\ reply \in Replies \union {NoReply}
  /\ session \in SUBSET Ids
  /\ open \in SUBSET Ids
  /\ flushing \in SUBSET Ids
  /\ alerts \in Seq(Alerts)

Init ==
  /\ alive = TRUE
  /\ entries = {}
  /\ nextId = 1
  /\ maxTorrents = InitialLimit
  /\ hash = [i \in Ids |-> CHOOSE h \in Hashes : TRUE]
  /\ active = [i \in Ids |-> FALSE]
  /\ finalising = [i \in Ids |-> FALSE]
  /\ preRemove = [i \in Ids |-> FALSE]
  /\ removed = [i \in Ids |-> FALSE]
  /\ flushed = [i \in Ids |-> FALSE]
  /\ pc = [t \in Threads |-> "idle"]
  /\ arg = [t \in Threads |-> 0]
  /\ poll = NoAlert
  /\ reply = NoReply
  /\ session = {}
  /\ open = {}
  /\ flushing = {}
  /\ alerts = <<>>

-----------------------------------------------------------------------------
(* Start, StartFromData, StartFromFile: all end in Add, one section under  *)
(* mutex_.  Input that does not parse is refused before it and changes     *)
(* nothing.  Between add_torrent and the end of Add nothing can throw but  *)
(* an allocation; memory is assumed to last there, as in RecordError.      *)

\* Add's test for a torrent that is already registered.
ActiveDuplicate(h) == \E i \in ActiveIds : hash[i] = h

\* Add without the duplicate_is_error flag.
NoSessionCheck(h) == FALSE

\* External: add_torrent with duplicate_is_error.
SessionDuplicate(h) == \E i \in session : hash[i] = h

\* Add's test of the limit.
HasRoom == Cardinality(entries) < maxTorrents

StartRefused(t, h) ==
  /\ At(t, "idle")
  /\ \/ /\ ~HasRoom
        /\ Reply("start", 0, "LIMIT_REACHED")
     \/ /\ HasRoom
        /\ ActiveDuplicate(h) \/ SessionDuplicate(h)
        /\ Reply("start", 0, "DUPLICATE_TORRENT")
     \/ /\ HasRoom
        /\ ~ActiveDuplicate(h)
        /\ Reply("start", 0, "NATIVE_ERROR")
  /\ UNCHANGED <<alive, registry, active, barrier, flushed, threads, poll,
                 library>>

StartAccepted(t, h) ==
  /\ At(t, "idle")
  /\ nextId <= MaxId
  /\ HasRoom
  /\ ~ActiveDuplicate(h)
  /\ ~SessionDuplicate(h)
  /\ entries' = entries \union {nextId}
  /\ hash' = [hash EXCEPT ![nextId] = h]
  /\ active' = [active EXCEPT ![nextId] = TRUE]
  /\ session' = session \union {nextId}
  /\ open' = open \union {nextId}
  /\ nextId' = nextId + 1
  /\ Reply("start", nextId, "OK")
  /\ UNCHANGED <<alive, maxTorrents, barrier, flushed, threads, poll,
                 flushing, alerts>>

\* An update that trusts the adapters to have validated.
UpdateConfigUnvalidated(t, limit) ==
  /\ At(t, "idle")
  /\ maxTorrents' = limit
  /\ Reply("config", 0, "OK")
  /\ UNCHANGED <<alive, entries, nextId, hash, active, barrier, flushed,
                 threads, poll, library>>

\* The library may refuse the settings; then config_ is left alone.
UpdateConfig(t, limit) ==
  /\ At(t, "idle")
  /\ \/ /\ ValidateConfig(limit)
        /\ maxTorrents' = limit
        /\ Reply("config", 0, "OK")
     \/ /\ UNCHANGED maxTorrents
        /\ Reply("config", 0, IF ValidateConfig(limit) THEN "NATIVE_ERROR"
                                                       ELSE "INVALID_ARGUMENT")
  /\ UNCHANGED <<alive, entries, nextId, hash, active, barrier, flushed,
                 threads, poll, library>>

-----------------------------------------------------------------------------
(* The calls that take an id begin with Find, under mutex_; afterwards the *)
(* thread holds the Entry by shared_ptr and the map may drop it meanwhile. *)

FindEntry(t, op, i) ==
  /\ At(t, "idle")
  /\ op \in FoundPcs
  /\ IF i \in entries
     THEN /\ Goto(t, op)
          /\ arg' = [arg EXCEPT ![t] = i]
          /\ reply' = NoReply
     ELSE /\ Reply(op, i, "NOT_FOUND")
          /\ UNCHANGED threads
  /\ UNCHANGED <<alive, registry, active, barrier, flushed, poll, library>>

\* Back to the adapter.
Return(t, op, code) ==
  /\ Goto(t, "idle")
  /\ arg' = [arg EXCEPT ![t] = 0]
  /\ Reply(op, arg[t], code)

\* Pause and Resume ("control"): the same claim test, then calls on the
\* handle inside the same lifecycle section, which may throw.
PauseOrResume(t) ==
  /\ At(t, "control")
  /\ LifecycleFree(arg[t])
  /\ \/ Claimable(arg[t]) /\ Return(t, "control", "OK")
     \/ Return(t, "control", "NATIVE_ERROR")
  /\ UNCHANGED <<alive, registry, active, barrier, flushed, poll, library>>

\* A claim that finds the torrent claimed already.
ClaimRefused(t) ==
  /\ At(t, "cancel") \/ At(t, "finalise")
  /\ LifecycleFree(arg[t])
  /\ ~Claimable(arg[t])
  /\ Return(t, pc[t], "NATIVE_ERROR")
  /\ UNCHANGED <<alive, registry, active, barrier, flushed, poll, library>>

-----------------------------------------------------------------------------
(* Cancel                                                                  *)

CancelClaim(t) ==
  /\ At(t, "cancel")
  /\ LifecycleFree(arg[t])
  /\ Claimable(arg[t])
  /\ active' = [active EXCEPT ![arg[t]] = FALSE]
  /\ Goto(t, "cancelRemove")
  /\ reply' = NoReply
  /\ UNCHANGED <<alive, registry, barrier, flushed, arg, poll, library>>

\* Reactivation after a removal that did happen.
CancelRemoveThenUndo(t) ==
  /\ At(t, "cancelRemove")
  /\ session' = session \ {arg[t]}
  /\ Goto(t, "cancelUndo")
  /\ reply' = NoReply
  /\ UNCHANGED <<alive, registry, active, barrier, flushed, arg, poll, open,
                 flushing, alerts>>

\* session_->remove_torrent, still under lifecycle_mutex; it may throw
\* before it has posted the removal.
CancelRemove(t) ==
  /\ At(t, "cancelRemove")
  /\ \/ session' = session \ {arg[t]} /\ Goto(t, "cancelErase")
     \/ UNCHANGED session /\ Goto(t, "cancelUndo")
  /\ reply' = NoReply
  /\ UNCHANGED <<alive, registry, active, barrier, flushed, arg, poll, open,
                 flushing, alerts>>

\* An erase that gives the id back to next_id_.
CancelEraseReusing(t) ==
  /\ At(t, "cancelErase")
  /\ entries' = entries \ {arg[t]}
  /\ nextId' = arg[t]
  /\ Return(t, "cancel", "OK")
  /\ UNCHANGED <<alive, maxTorrents, hash, active, barrier, flushed, poll,
                 library>>

CancelErase(t) ==
  /\ At(t, "cancelErase")
  /\ entries' = entries \ {arg[t]}
  /\ Return(t, "cancel", "OK")
  /\ UNCHANGED <<alive, nextId, maxTorrents, hash, active, barrier, flushed,
                 poll, library>>

\* The catch block of Cancel.
CancelUndo(t) ==
  /\ At(t, "cancelUndo")
  /\ LifecycleFree(arg[t])
  /\ active' = [active EXCEPT ![arg[t]] = TRUE]
  /\ Return(t, "cancel", "NATIVE_ERROR")
  /\ UNCHANGED <<alive, registry, barrier, flushed, poll, library>>

-----------------------------------------------------------------------------
(* Finalise                                                                *)

FinaliseClaim(t) ==
  /\ At(t, "finalise")
  /\ LifecycleFree(arg[t])
  /\ Claimable(arg[t])
  /\ finalising' = [finalising EXCEPT ![arg[t]] = TRUE]
  /\ preRemove' = [preRemove EXCEPT ![arg[t]] = FALSE]
  /\ removed' = [removed EXCEPT ![arg[t]] = FALSE]
  /\ active' = [active EXCEPT ![arg[t]] = FALSE]
  /\ Goto(t, "finBarrier")
  /\ reply' = NoReply
  /\ UNCHANGED <<alive, registry, flushed, arg, poll, library>>

\* The first barrier: skipped when the completion flush is already known
\* to be done, requested otherwise; flush_cache may throw.  Nothing resets
\* completion_flush_complete, so reading it and locking is one step.
FinaliseBarrier(t) ==
  /\ At(t, "finBarrier")
  /\ IF flushed[arg[t]]
     THEN /\ LifecycleFree(arg[t])
          /\ preRemove' = [preRemove EXCEPT ![arg[t]] = TRUE]
          /\ Goto(t, "finRemove")
          /\ UNCHANGED flushing
     ELSE /\ \/ /\ flushing' = flushing \union {arg[t]}
                /\ Goto(t, "finFlushWait")
             \/ /\ Goto(t, "finUndo")
                /\ UNCHANGED flushing
          /\ UNCHANGED preRemove
  /\ reply' = NoReply
  /\ UNCHANGED <<alive, registry, active, finalising, removed, flushed, arg,
                 poll, session, open, alerts>>

\* wait_for returns because its predicate holds ...
FinaliseFlushed(t) ==
  /\ At(t, "finFlushWait")
  /\ LifecycleFree(arg[t])
  /\ preRemove[arg[t]]
  /\ Goto(t, "finRemove")
  /\ reply' = NoReply
  /\ UNCHANGED <<alive, registry, active, barrier, flushed, arg, poll,
                 library>>

\* A wait without a deadline.
FinaliseNeverTimesOut(t) == FALSE

\* ... or because 30 s have passed and it still does not.
FinaliseFlushTimeout(t) ==
  /\ At(t, "finFlushWait")
  /\ LifecycleFree(arg[t])
  /\ ~preRemove[arg[t]]
  /\ finalising' = [finalising EXCEPT ![arg[t]] = FALSE]
  /\ active' = [active EXCEPT ![arg[t]] = TRUE]
  /\ Return(t, "finalise", "NATIVE_ERROR")
  /\ UNCHANGED <<alive, registry, preRemove, removed, flushed, poll, library>>

FinaliseRemove(t) ==
  /\ At(t, "finRemove")
  /\ \/ session' = session \ {arg[t]} /\ Goto(t, "finRemovedWait")
     \/ UNCHANGED session /\ Goto(t, "finUndo")
  /\ reply' = NoReply
  /\ UNCHANGED <<alive, registry, active, barrier, flushed, arg, poll, open,
                 flushing, alerts>>

FinaliseRemoved(t) ==
  /\ At(t, "finRemovedWait")
  /\ LifecycleFree(arg[t])
  /\ removed[arg[t]]
  /\ finalising' = [finalising EXCEPT ![arg[t]] = FALSE]
  /\ Goto(t, "finErase")
  /\ reply' = NoReply
  /\ UNCHANGED <<alive, registry, active, preRemove, removed, flushed, arg,
                 poll, library>>

FinaliseRemovedTimeout(t) ==
  /\ At(t, "finRemovedWait")
  /\ LifecycleFree(arg[t])
  /\ ~removed[arg[t]]
  /\ finalising' = [finalising EXCEPT ![arg[t]] = FALSE]
  /\ Goto(t, "finErrorErase")
  /\ reply' = NoReply
  /\ UNCHANGED <<alive, registry, active, preRemove, removed, flushed, arg,
                 poll, library>>

\* Success reported for a removal that was never confirmed.
FinaliseEraseAlwaysOk(t) ==
  /\ At(t, "finErase") \/ At(t, "finErrorErase")
  /\ entries' = entries \ {arg[t]}
  /\ Return(t, "finalise", "OK")
  /\ UNCHANGED <<alive, nextId, maxTorrents, hash, active, barrier, flushed,
                 poll, library>>

FinaliseErase(t) ==
  /\ At(t, "finErase") \/ At(t, "finErrorErase")
  /\ entries' = entries \ {arg[t]}
  /\ Return(t, "finalise", IF pc[t] = "finErase" THEN "OK" ELSE "NATIVE_ERROR")
  /\ UNCHANGED <<alive, nextId, maxTorrents, hash, active, barrier, flushed,
                 poll, library>>

\* The catch block of Finalise while removal_started is false.
FinaliseUndo(t) ==
  /\ At(t, "finUndo")
  /\ LifecycleFree(arg[t])
  /\ finalising' = [finalising EXCEPT ![arg[t]] = FALSE]
  /\ active' = [active EXCEPT ![arg[t]] = TRUE]
  /\ Return(t, "finalise", "NATIVE_ERROR")
  /\ UNCHANGED <<alive, registry, preRemove, removed, flushed, poll, library>>

-----------------------------------------------------------------------------
(* The poll thread                                                         *)

\* Pop an alert and look its handle up under mutex_.
PollTake ==
  /\ alive
  /\ poll = NoAlert
  /\ alerts # <<>>
  /\ alerts' = Tail(alerts)
  /\ poll' = IF Head(alerts).id \in entries THEN Head(alerts) ELSE NoAlert
  /\ reply' = NoReply
  /\ UNCHANGED <<alive, registry, active, barrier, flushed, threads, session,
                 open, flushing>>

PollFlushed ==
  /\ alive
  /\ poll.kind = "flushed"
  /\ LifecycleFree(poll.id)
  /\ flushed' = [flushed EXCEPT ![poll.id] = TRUE]
  /\ preRemove' = [preRemove EXCEPT ![poll.id] = @ \/ finalising[poll.id]]
  /\ poll' = NoAlert
  /\ reply' = NoReply
  /\ UNCHANGED <<alive, registry, active, finalising, removed, threads,
                 library>>

PollRemoved ==
  /\ alive
  /\ poll.kind = "removed"
  /\ LifecycleFree(poll.id)
  /\ removed' = [removed EXCEPT ![poll.id] = TRUE]
  /\ poll' = NoAlert
  /\ reply' = NoReply
  /\ UNCHANGED <<alive, registry, active, finalising, preRemove, flushed,
                 threads, library>>

\* UpdateStats asks for the flush that must precede SEEDING.
PollRequestFlush(i) ==
  /\ alive
  /\ poll = NoAlert
  /\ i \in ActiveIds
  /\ ~flushed[i]
  /\ i \notin flushing
  /\ flushing' = flushing \union {i}
  /\ reply' = NoReply
  /\ UNCHANGED <<alive, registry, active, barrier, flushed, threads, poll,
                 session, open, alerts>>

\* ~Manager: the header asks callers to have no call in flight; the poll
\* thread is joined first.
Destroy ==
  /\ alive
  /\ \A t \in Threads : pc[t] = "idle"
  /\ poll = NoAlert
  /\ alive' = FALSE
  /\ entries' = {}
  /\ active' = [i \in Ids |-> FALSE]
  /\ session' = {}
  /\ open' = {}
  /\ flushing' = {}
  /\ alerts' = <<>>
  /\ reply' = NoReply
  /\ UNCHANGED <<nextId, maxTorrents, hash, barrier, flushed, threads, poll>>

-----------------------------------------------------------------------------
(* External: libtorrent.  remove_torrent takes the torrent out of the      *)
(* session at once (later calls are ordered after it); its files are       *)
(* closed some time later and only then is torrent_removed_alert posted.   *)
(* flush_cache is answered by cache_flushed_alert.  The alert queue is     *)
(* bounded, and shared with every other kind of alert, so that any alert   *)
(* may be lost.  A second flush request before the first is answered adds  *)
(* nothing: the second alert would find completion_flush_complete set.     *)

Post(kind, i) ==
  \/ /\ Len(alerts) < AlertCap
     /\ alerts' = Append(alerts, [kind |-> kind, id |-> i])
  \/ UNCHANGED alerts

LibFlushDone(i) ==
  /\ alive
  /\ i \in flushing
  /\ flushing' = flushing \ {i}
  /\ Post("flushed", i)
  /\ reply' = NoReply
  /\ UNCHANGED <<alive, registry, active, barrier, flushed, threads, poll,
                 session, open>>

LibClosed(i) ==
  /\ alive
  /\ i \in open \ session
  /\ open' = open \ {i}
  /\ Post("removed", i)
  /\ reply' = NoReply
  /\ UNCHANGED <<alive, registry, active, barrier, flushed, threads, poll,
                 session, flushing>>

-----------------------------------------------------------------------------
Begin(t) ==
  \/ \E h \in Hashes : StartRefused(t, h) \/ StartAccepted(t, h)
  \/ \E limit \in Limits : UpdateConfig(t, limit)
  \/ \E op \in FoundPcs, i \in Ids : FindEntry(t, op, i)

CancelStep(t) ==
  CancelClaim(t) \/ CancelRemove(t) \/ CancelErase(t) \/ CancelUndo(t)

FinaliseStep(t) ==
  \/ FinaliseClaim(t) \/ FinaliseBarrier(t)
  \/ FinaliseFlushed(t) \/ FinaliseFlushTimeout(t)
  \/ FinaliseRemove(t)
  \/ FinaliseRemoved(t) \/ FinaliseRemovedTimeout(t)
  \/ FinaliseErase(t) \/ FinaliseUndo(t)

\* A step of a call that has begun.
Continue(t) ==
  PauseOrResume(t) \/ ClaimRefused(t) \/ CancelStep(t) \/ FinaliseStep(t)

Poll ==
  \/ PollTake \/ PollFlushed \/ PollRemoved
  \/ \E i \in Ids : PollRequestFlush(i)

Library == \E i \in Ids : LibFlushDone(i) \/ LibClosed(i)

Next ==
  \/ \E t \in Threads : Begin(t) \/ Continue(t)
  \/ Poll
  \/ Destroy
  \/ Library

Spec == Init /\ [][Next]_vars

\* A thread inside a call keeps running.  A step that needs lifecycle_mutex
\* can be disabled again and again by another Cancel, hence the strong form:
\* no mutex implementation in use starves a waiter for ever.
Fairness == \A t \in Threads : SF_vars(Continue(t))

FairSpec == Spec /\ Fairness

-----------------------------------------------------------------------------
(* Properties                                                              *)

\* No two active torrents have the same info hash, although Add tests only
\* active entries and a failed Cancel or Finalise reactivates its entry.
UniqueActiveHash ==
  \A i, j \in ActiveIds : hash[i] = hash[j] => i = j

\* Closing is exclusive and nothing is orphaned, neither in the library nor in
\* the registry, where it would count against the limit: whatever is registered
\* is held and can be claimed, or it is inactive and exactly one call is closing
\* it, which still has to remove it or give it back if it is held, and else to
\* erase it.  No error path revives what the library has let go of.  (That
\* memory lasts inside Add is assumed, see above.)
NoOrphan ==
  /\ session \subseteq entries
  /\ \A i \in entries :
       \/ i \in session /\ Claimable(i)
       \/ ~active[i] /\ \E t \in Threads :
            /\ pc[t] \in (IF i \in session THEN ClaimedPcs ELSE RemovedPcs)
            /\ arg[t] = i
            /\ \A u \in Threads \ {t} : pc[u] \in ClosingPcs => arg[u] # i

\* "callers may safely inspect or delete the destination afterward": when
\* Finalise answers OK, libtorrent has closed the torrent's files.
FinaliseOkMeansClosed ==
  reply.op = "finalise" /\ reply.code = "OK" => reply.id \notin open

\* Pause and Resume report success only for a torrent that the library
\* holds and that no call is closing.
ControlOkMeansHeld ==
  reply.op = "control" /\ reply.code = "OK"
    => reply.id \in session /\ active[reply.id]

\* Cancel and Finalise answer OK to at most one caller per torrent: the call
\* that answers OK is the one that takes the id out of the registry.
OkOnlyOnce ==
  [][reply'.op \in {"cancel", "finalise"} /\ reply'.code = "OK"
       => reply'.id \in entries \ entries']_vars

\* An id that has left the registry never comes back: whatever enters the
\* registry was issued by that very step, and issued ids are never reissued.
GoneForGood ==
  [][/\ nextId' >= nextId
     /\ entries' \ entries \subseteq nextId..nextId' - 1]_vars

\* Every call returns, whatever libtorrent answers or loses.
CallsReturn == \A t \in Threads : pc[t] # "idle" ~> pc[t] = "idle"

-----------------------------------------------------------------------------
(* The inductive invariant behind the safety properties.                   *)

Issued == 1..nextId - 1

\* What the registry, the session and the claim flags say of each other.
RegistryInv ==
  /\ entries \subseteq Issued
  /\ session \subseteq entries
  /\ session \subseteq open
  /\ open \subseteq Issued
  /\ \A i \in Ids : active[i] => i \in session

\* What a thread inside Cancel or Finalise may rely on.
ClaimInv ==
  \A t \in Threads :
    /\ pc[t] # "idle" => arg[t] \in Issued
    /\ pc[t] \in ClaimedPcs => arg[t] \in session /\ ~active[arg[t]]
    /\ pc[t] \in RemovedPcs => arg[t] \in entries \ session

\* No torrent is being closed by two calls.
ExclusiveInv ==
  \A t, u \in Threads :
    pc[t] \in ClosingPcs /\ pc[u] \in ClosingPcs /\ arg[t] = arg[u] => t = u

\* A held torrent is active or some call is responsible for it.
OwnedInv ==
  \A i \in session :
    active[i] \/ \E t \in Threads : pc[t] \in ClaimedPcs /\ arg[t] = i

\* Neither the flag of Finalise nor an entry outlives the call behind it.
ReleaseInv ==
  /\ \A i \in Ids : finalising[i] =>
       \E t \in Threads : pc[t] \in FinalisingPcs /\ arg[t] = i
  /\ \A i \in entries \ session :
       \E t \in Threads : pc[t] \in RemovedPcs /\ arg[t] = i

\* The library's guarantee, kept by Add.
HashInv == \A i, j \in session : hash[i] = hash[j] => i = j

\* Everything that reports "removed" is about an issued id with no open file.
ClosedInv ==
  /\ \A k \in 1..Len(alerts) :
       alerts[k].kind = "removed" => alerts[k].id \in Issued \ open
  /\ poll.kind = "removed" => poll.id \in Issued \ open
  /\ \A i \in Ids : removed[i] => i \in Issued \ open
  /\ \A t \in Threads : pc[t] = "finErase" => arg[t] \notin open

ReplyInv == FinaliseOkMeansClosed /\ ControlOkMeansHeld

LifecycleInv ==
  /\ TypeOK
  /\ RegistryInv
  /\ ClaimInv
  /\ ExclusiveInv
  /\ OwnedInv
  /\ HashInv
  /\ ClosedInv
  /\ ReplyInv

-----------------------------------------------------------------------------
\* The lifecycle implements its abstract specification.
Phase(i) ==
  IF i >= nextId THEN "unused"
  ELSE IF i \notin session THEN "gone"
  ELSE IF active[i] THEN "live" ELSE "closing"

Owners(i) == {t \in Threads : pc[t] \in ClaimedPcs /\ arg[t] = i}

Abstract == INSTANCE TorrentLifecycle
  WITH phase  <- [i \in Ids |-> Phase(i)],
       owners <- [i \in Ids |-> Owners(i)]

ImplementsLifecycle == Abstract!LSpec
=============================================================================

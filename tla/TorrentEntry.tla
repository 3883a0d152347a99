---------------------------- MODULE TorrentEntry ----------------------------
(***************************************************************************)
(* One Entry of native/src/torrent_manager and everything that writes it:  *)
(* the reported state, the fatal-error latch and last_error, the metadata  *)
(* event and the two flush flags, while the poll thread runs ProcessAlerts *)
(* and UpdateStats and the adapters call Pause, Resume, Cancel, Finalise.  *)
(*                                                                         *)
(* Granularity: UpdateStats is cut wherever it leaves and re-reads shared  *)
(* state (the active test, status(), RecordError, the computation of the   *)
(* state, its store, DeliverMetadata).  The computation is one step: what  *)
(* it reads (fatal_error, the paused flag, the flush flags) is only ever   *)
(* used for the state stored in the next step.  Find and the claim that follows it *)
(* are one step here; module TorrentManager separates them, and the        *)
(* registry of several torrents, duplicates and limits are there.          *)
(*                                                                         *)
(* Payload is counted in Pieces: `written` pieces are verified and handed  *)
(* to the disk, `durable` of them have reached it.  Stats callbacks carry  *)
(* what is computed here to the adapters and change nothing.               *)
(***************************************************************************)
EXTENDS Integers, Sequences

CONSTANTS Threads,       \* threads of the adapters
          Pieces,        \* pieces of the payload
          Calls,         \* the calls the adapters make
          Failures,      \* the failures libtorrent reports
          AlertCap,      \* bound on libtorrent's alert queue
          AlertsMayDrop, \* libtorrent drops alerts that do not fit
          CloseMayFail   \* Cancel/Finalise may fail before removal: a flush
                         \* that times out, a call that throws

ASSUME EntryAssumption ==
  /\ Threads # {}
  /\ Pieces \in Nat \ {0}
  /\ Calls \subseteq {"Pause", "Resume", "Cancel", "Finalise"}
  /\ Failures \subseteq {"transient", "fatal"}
  /\ AlertCap \in Nat
  /\ AlertsMayDrop \in BOOLEAN /\ CloseMayFail \in BOOLEAN

VARIABLES
  registered,   \* the Entry is in entries_
  active, finalising, preRemove, removed,     \* as in TorrentManager
  state,        \* Entry::state
  fatal,        \* Entry::fatal_error
  lastError,    \* which diagnostic Entry::last_error holds
  delivered,    \* Entry::metadata_delivered
  flushRequested, flushComplete,   \* Entry::completion_flush_*
  pc,           \* where each calling thread is
  poll,         \* the poll thread: program point and locals
  deliveries,   \* history: metadata callbacks made, counted to 2
  owed,         \* history: pieces written when Finalise claimed the entry
  held, open,   \* external: in the session; files may be open
  phase,        \* external: torrent_status::state
  paused, errc, \* external: the paused flag; torrent_status::errc
  written, durable,                \* external: pieces verified; on disk
  flushes,      \* external: flush_cache calls to answer, each the pieces it covers
  alerts        \* external: alert queue, oldest first

observer == <<state, fatal, lastError>>
metadata == <<delivered, deliveries>>
claim    == <<active, finalising, preRemove, removed>>
flags    == <<flushRequested, flushComplete>>
payload  == <<phase, written, durable>>
library  == <<held, open, paused, errc, payload, flushes>>
vars == <<registered, active, finalising, preRemove, removed, state, fatal,
          lastError, delivered, flushRequested, flushComplete, pc, poll,
          deliveries, owed, held, open, phase, paused, errc, written, durable,
          flushes, alerts>>

States == {"STARTING", "DOWNLOADING_METADATA", "DOWNLOADING", "SEEDING",
           "PAUSED", "ERROR", "STOPPED"}
Phases == {"metadata", "checking", "downloading", "finished"}
Alerts == {"metadata", "transient", "fatal", "flushed", "removed"}
Errors == {"none", "transient", "fatal", "removalTimeout"}

CallPcs == {"idle", "addMetadata", "addCallback", "resuming",
            "cancelRemove", "cancelErase",
            "finBarrier", "finFlushWait", "finRemove", "finRemovedWait",
            "finStop", "undo", "failed", "failedState"}
PollPcs == {"loop", "alerts", "latchTransient", "latchFatal", "errorState",
            "status", "errc", "compute", "store", "metadata",
            "deliver", "callback"}

\* The poll thread's locals: alerts of this round still to handle, where
\* RecordError or DeliverMetadata returns to, the status it took and the
\* state it computed.
PollState == [at : PollPcs, left : 0..AlertCap,
              back : {"alerts", "compute", "loop"},
              seen : Phases, computed : States]
PollIdle == [at |-> "loop", left |-> 0, back |-> "loop",
             seen |-> "metadata", computed |-> "STARTING"]

FlagType ==
  /\ registered \in BOOLEAN /\ active \in BOOLEAN
  /\ finalising \in BOOLEAN /\ preRemove \in BOOLEAN /\ removed \in BOOLEAN
  /\ fatal \in BOOLEAN /\ delivered \in BOOLEAN
  /\ flushRequested \in BOOLEAN /\ flushComplete \in BOOLEAN
  /\ held \in BOOLEAN /\ open \in BOOLEAN /\ paused \in BOOLEAN /\ errc \in BOOLEAN

ReportType == state \in States /\ lastError \in Errors /\ deliveries \in 0..2

CallType == pc \in [Threads -> CallPcs] /\ owed \in 0..Pieces

PollType ==
  /\ poll \in PollState
  /\ alerts \in Seq(Alerts)
  /\ poll.left <= Len(alerts) /\ Len(alerts) <= AlertCap

PayloadType ==
  /\ phase \in Phases
  /\ written \in 0..Pieces /\ durable \in 0..written
  /\ phase # "finished" => written < Pieces
  /\ flushes \in SUBSET (0..written)

TypeOK == FlagType /\ ReportType /\ CallType /\ PollType /\ PayloadType

\* Just after Add emplaced the entry: for a torrent whose metadata is known
\* the adding thread still has to deliver it.
Init ==
  /\ registered = TRUE /\ active = TRUE
  /\ finalising = FALSE /\ preRemove = FALSE /\ removed = FALSE
  /\ state = "STARTING" /\ fatal = FALSE /\ lastError = "none"
  /\ delivered = FALSE /\ deliveries = 0
  /\ flushRequested = FALSE /\ flushComplete = FALSE
  /\ phase \in {"metadata", "checking"}
  /\ \E adder \in Threads :
       pc = [t \in Threads |->
               IF t = adder /\ phase # "metadata" THEN "addMetadata" ELSE "idle"]
  /\ poll = PollIdle
  /\ owed = 0 /\ written = 0 /\ durable = 0 /\ flushes = {}
  /\ held = TRUE /\ open = TRUE /\ paused = FALSE /\ errc = FALSE
  /\ alerts = <<>>

-----------------------------------------------------------------------------
At(t, l)   == pc[t] = l
Goto(t, l) == pc' = [pc EXCEPT ![t] = l]

\* lifecycle_mutex: held across steps by Cancel and by Resume.
LifecycleFree == \A t \in Threads : pc[t] \notin {"cancelRemove", "resuming"}

\* A claim test that forgets the calls that have removed the torrent.
ClaimableUnlessFinalising == registered /\ LifecycleFree /\ ~finalising

\* A call that may act on the entry: found, unclaimed, lock taken.
Claimable == registered /\ LifecycleFree /\ ~finalising /\ active

\* flush_cache covers what is written when it is called.
FlushCache == flushes' = flushes \union {written}

\* A latch that a later, non-fatal error overwrites.
LatchAlways(isFatal) ==
  IF registered
  THEN /\ lastError' = IF isFatal THEN "fatal" ELSE "transient"
       /\ fatal' = (fatal \/ isFatal)
  ELSE UNCHANGED <<lastError, fatal>>

\* The critical section of RecordError, with the lookup before it.
Latch(isFatal) ==
  IF registered /\ (isFatal \/ ~fatal)
  THEN /\ lastError' = IF isFatal THEN "fatal" ELSE "transient"
       /\ fatal' = (fatal \/ isFatal)
  ELSE UNCHANGED <<lastError, fatal>>

\* An exchange whose result nobody reads.
TakeDeliveryAgain == active

\* No announcement for a torrent that has failed.
TakeDeliveryUnlessFailed == ~delivered /\ active /\ ~fatal

\* DeliverMetadata, first its exchange and test, then the section under the
\* entry mutex and the callback.
TakeDelivery == ~delivered /\ active

Deliver ==
  /\ lastError' = IF fatal THEN lastError ELSE "none"
  /\ deliveries' = IF active /\ deliveries < 2 THEN deliveries + 1 ELSE deliveries

-----------------------------------------------------------------------------
(* Calls                                                                   *)

\* Add's own DeliverMetadata races with the poll thread, which already sees
\* the entry.
AddMetadata(t) ==
  /\ At(t, "addMetadata")
  /\ Goto(t, IF TakeDelivery THEN "addCallback" ELSE "idle")
  /\ delivered' = TRUE
  /\ UNCHANGED <<registered, claim, observer, flags, poll, deliveries, owed,
                 library, alerts>>

AddCallback(t) ==
  /\ At(t, "addCallback")
  /\ Deliver
  /\ Goto(t, "idle")
  /\ UNCHANGED <<registered, claim, state, fatal, delivered, flags, poll, owed,
                 library, alerts>>

Pause(t) ==
  /\ At(t, "idle")
  /\ Claimable
  /\ paused' = TRUE
  /\ state' = "PAUSED"
  /\ UNCHANGED <<registered, claim, fatal, lastError, metadata, flags, pc, poll,
                 owed, held, open, errc, payload, flushes, alerts>>

\* Resume: first the section under the entry mutex ...
ResumeClear(t) ==
  /\ At(t, "idle")
  /\ Claimable
  /\ errc' = FALSE
  /\ fatal' = FALSE
  /\ lastError' = "none"
  /\ flushRequested' = (flushRequested /\ flushComplete)
  /\ Goto(t, "resuming")
  /\ UNCHANGED <<registered, claim, state, metadata, flushComplete, poll, owed,
                 held, open, paused, payload, flushes, alerts>>

\* ... then the handle and the reported state.
ResumeApply(t) ==
  /\ At(t, "resuming")
  /\ paused' = FALSE
  /\ state' = "STARTING"
  /\ Goto(t, "idle")
  /\ UNCHANGED <<registered, claim, fatal, lastError, metadata, flags, poll,
                 owed, held, open, errc, payload, flushes, alerts>>

CancelClaim(t) ==
  /\ At(t, "idle")
  /\ Claimable
  /\ active' = FALSE
  /\ Goto(t, "cancelRemove")
  /\ UNCHANGED <<registered, finalising, preRemove, removed, observer, metadata,
                 flags, poll, owed, library, alerts>>

CancelRemove(t) ==
  /\ At(t, "cancelRemove")
  /\ \/ held' = FALSE /\ Goto(t, "cancelErase")
     \/ CloseMayFail /\ UNCHANGED held /\ Goto(t, "undo")
  /\ UNCHANGED <<registered, claim, observer, metadata, flags, poll, owed, open,
                 paused, errc, payload, flushes, alerts>>

CancelErase(t) ==
  /\ At(t, "cancelErase")
  /\ registered' = FALSE
  /\ Goto(t, "idle")
  /\ UNCHANGED <<claim, observer, metadata, flags, poll, owed, library, alerts>>

FinaliseClaim(t) ==
  /\ At(t, "idle")
  /\ Claimable
  /\ finalising' = TRUE
  /\ preRemove' = FALSE
  /\ removed' = FALSE
  /\ active' = FALSE
  /\ owed' = written
  /\ Goto(t, "finBarrier")
  /\ UNCHANGED <<registered, observer, metadata, flags, poll, library, alerts>>

FinaliseBarrier(t) ==
  /\ At(t, "finBarrier")
  /\ IF flushComplete
     THEN preRemove' = TRUE /\ Goto(t, "finRemove") /\ UNCHANGED flushes
     ELSE /\ UNCHANGED preRemove
          /\ \/ FlushCache /\ Goto(t, "finFlushWait")
             \/ CloseMayFail /\ Goto(t, "undo") /\ UNCHANGED flushes
  /\ UNCHANGED <<registered, active, finalising, removed, observer, metadata,
                 flags, poll, owed, held, open, paused, errc, payload, alerts>>

\* A flush wait that does not wait.
FinaliseFlushUnawaited(t) ==
  /\ At(t, "finFlushWait")
  /\ Goto(t, "finRemove")
  /\ UNCHANGED <<registered, claim, observer, metadata, flags, poll, owed,
                 library, alerts>>

FinaliseFlushed(t) ==
  /\ At(t, "finFlushWait")
  /\ preRemove
  /\ Goto(t, "finRemove")
  /\ UNCHANGED <<registered, claim, observer, metadata, flags, poll, owed,
                 library, alerts>>

FinaliseFlushTimeout(t) ==
  /\ CloseMayFail
  /\ At(t, "finFlushWait")
  /\ ~preRemove
  /\ finalising' = FALSE
  /\ active' = TRUE
  /\ Goto(t, "failed")
  /\ UNCHANGED <<registered, preRemove, removed, observer, metadata, flags, poll,
                 owed, library, alerts>>

FinaliseRemove(t) ==
  /\ At(t, "finRemove")
  /\ \/ held' = FALSE /\ Goto(t, "finRemovedWait")
     \/ CloseMayFail /\ UNCHANGED held /\ Goto(t, "undo")
  /\ UNCHANGED <<registered, claim, observer, metadata, flags, poll, owed, open,
                 paused, errc, payload, flushes, alerts>>

\* The removal barrier, satisfied or timed out.
FinaliseRemoved(t) ==
  /\ At(t, "finRemovedWait")
  /\ finalising' = FALSE
  /\ IF removed THEN UNCHANGED lastError ELSE lastError' = "removalTimeout"
  /\ Goto(t, "finStop")
  /\ UNCHANGED <<registered, active, preRemove, removed, state, fatal, metadata,
                 flags, poll, owed, library, alerts>>

FinaliseErase(t) ==
  /\ At(t, "finStop")
  /\ state' = "STOPPED"
  /\ registered' = FALSE
  /\ Goto(t, "idle")
  /\ UNCHANGED <<claim, fatal, lastError, metadata, flags, poll, owed, library,
                 alerts>>

\* The catch blocks of Cancel and Finalise, up to their RecordError.
Undo(t) ==
  /\ At(t, "undo")
  /\ finalising' = FALSE
  /\ active' = TRUE
  /\ Goto(t, "failed")
  /\ UNCHANGED <<registered, preRemove, removed, observer, metadata, flags, poll,
                 owed, library, alerts>>

\* RecordError(..., true) on the calling thread: latch, then state.
FailedLatch(t) ==
  /\ At(t, "failed")
  /\ Latch(TRUE)
  /\ Goto(t, IF registered THEN "failedState" ELSE "idle")
  /\ UNCHANGED <<registered, claim, state, metadata, flags, poll, owed, library,
                 alerts>>

FailedState(t) ==
  /\ At(t, "failedState")
  /\ state' = "ERROR"
  /\ Goto(t, "idle")
  /\ UNCHANGED <<registered, claim, fatal, lastError, metadata, flags, poll, owed,
                 library, alerts>>

-----------------------------------------------------------------------------
(* The poll thread: ProcessAlerts                                          *)

PollAt(l) == poll.at = l
PollGoto(l) == poll' = [poll EXCEPT !.at = l]

\* Back from RecordError or DeliverMetadata.
PollReturn ==
  poll' = IF poll.back = "loop" THEN PollIdle ELSE [poll EXCEPT !.at = poll.back]

\* pop_alerts: this round handles the alerts posted so far.
PollPop ==
  /\ PollAt("loop")
  /\ poll' = [PollIdle EXCEPT !.at = "alerts", !.left = Len(alerts),
                              !.back = "alerts"]
  /\ UNCHANGED <<registered, claim, observer, metadata, flags, pc, owed, library,
                 alerts>>

\* Takes the next alert of the round and goes on at l.
TakeAlert(kind, l) ==
  /\ PollAt("alerts")
  /\ poll.left > 0
  /\ Head(alerts) = kind
  /\ alerts' = Tail(alerts)
  /\ poll' = [poll EXCEPT !.left = @ - 1, !.at = l]

PollMetadataAlert ==
  /\ TakeAlert("metadata", IF registered /\ active THEN "deliver" ELSE "alerts")
  /\ UNCHANGED <<registered, claim, observer, metadata, flags, pc, owed, library>>

PollErrorAlert ==
  /\ TakeAlert("transient", "latchTransient") \/ TakeAlert("fatal", "latchFatal")
  /\ UNCHANGED <<registered, claim, observer, metadata, flags, pc, owed, library>>

\* The flush that UpdateStats asked for is not recognised.
PollFlushedForFinalise ==
  /\ LifecycleFree
  /\ TakeAlert("flushed", "alerts")
  /\ flushComplete' = (flushComplete \/ (registered /\ finalising))
  /\ preRemove' = (preRemove \/ (registered /\ finalising))
  /\ UNCHANGED <<registered, active, finalising, removed, observer, metadata,
                 flushRequested, pc, owed, library>>

PollFlushedAlert ==
  /\ LifecycleFree
  /\ TakeAlert("flushed", "alerts")
  /\ flushComplete' = (flushComplete \/ registered)
  /\ preRemove' = (preRemove \/ (registered /\ finalising))
  /\ UNCHANGED <<registered, active, finalising, removed, observer, metadata,
                 flushRequested, pc, owed, library>>

PollRemovedAlert ==
  /\ LifecycleFree
  /\ TakeAlert("removed", "alerts")
  /\ removed' = (removed \/ registered)
  /\ UNCHANGED <<registered, active, finalising, preRemove, observer, metadata,
                 flags, pc, owed, library>>

\* RecordError: lookup and latch, then (fatal only) the reported state.
PollLatch ==
  /\ \/ PollAt("latchTransient") /\ Latch(FALSE) /\ PollReturn
     \/ /\ PollAt("latchFatal") /\ Latch(TRUE)
        /\ IF registered THEN PollGoto("errorState") ELSE PollReturn
  /\ UNCHANGED <<registered, claim, state, metadata, flags, pc, owed, library,
                 alerts>>

PollErrorState ==
  /\ PollAt("errorState")
  /\ state' = "ERROR"
  /\ PollReturn
  /\ UNCHANGED <<registered, claim, fatal, lastError, metadata, flags, pc, owed,
                 library, alerts>>

PollDeliver ==
  /\ PollAt("deliver")
  /\ IF TakeDelivery THEN PollGoto("callback") ELSE PollReturn
  /\ delivered' = TRUE
  /\ UNCHANGED <<registered, claim, observer, deliveries, flags, pc, owed,
                 library, alerts>>

\* torrent_file() for an alert whose torrent has left the session meanwhile:
\* there is no info to deliver, or the handle throws out of ProcessAlerts and
\* the rest of the round is lost.
PollMetadataGone ==
  /\ PollAt("deliver")
  /\ poll.back = "alerts"
  /\ ~held
  /\ \/ PollReturn /\ UNCHANGED alerts
     \/ /\ poll' = PollIdle
        /\ alerts' = SubSeq(alerts, poll.left + 1, Len(alerts))
  /\ UNCHANGED <<registered, claim, observer, metadata, flags, pc, owed, library>>

PollCallback ==
  /\ PollAt("callback")
  /\ Deliver
  /\ PollReturn
  /\ UNCHANGED <<registered, claim, state, fatal, delivered, flags, pc, owed,
                 library, alerts>>

-----------------------------------------------------------------------------
(* The poll thread: UpdateStats                                            *)

\* The catch blocks of UpdateStats: a fatal error, and the rest is skipped.
PollThrow == poll' = [poll EXCEPT !.at = "latchFatal", !.back = "loop"]

PollAlertsDone ==
  /\ PollAt("alerts")
  /\ poll.left = 0
  /\ IF registered /\ active THEN PollGoto("status") ELSE poll' = PollIdle
  /\ UNCHANGED <<registered, claim, observer, metadata, flags, pc, owed, library,
                 alerts>>

\* handle.status(): a torrent that has left the session may be gone.
PollStatus ==
  /\ PollAt("status")
  /\ \/ /\ held \/ open
        /\ poll' = [poll EXCEPT !.seen = phase,
                                !.at = IF errc THEN "errc" ELSE "compute"]
     \/ ~held /\ PollThrow
  /\ UNCHANGED <<registered, claim, observer, metadata, flags, pc, owed, library,
                 alerts>>

\* status.errc is recorded once.
PollErrc ==
  /\ PollAt("errc")
  /\ poll' = IF fatal THEN [poll EXCEPT !.at = "compute"]
             ELSE [poll EXCEPT !.at = "latchFatal", !.back = "compute"]
  /\ UNCHANGED <<registered, claim, observer, metadata, flags, pc, owed, library,
                 alerts>>

\* A library state handed on as it is.
StateUntranslated(p) == p

StateFromLibtorrent(p) ==
  CASE p = "checking"    -> "STARTING"
    [] p = "metadata"    -> "DOWNLOADING_METADATA"
    [] p = "downloading" -> "DOWNLOADING"
    [] p = "finished"    -> "SEEDING"

\* SEEDING as soon as every piece is verified.
ReportedAtOnce(p) ==
  IF fatal THEN "ERROR"
  ELSE IF paused THEN "PAUSED"
  ELSE StateFromLibtorrent(p)

\* The state UpdateStats reports for a status p.
Reported(p) ==
  IF fatal THEN "ERROR"
  ELSE IF paused THEN "PAUSED"
  ELSE IF p = "finished" /\ ~flushComplete THEN "DOWNLOADING"
  ELSE StateFromLibtorrent(p)

\* Verified but perhaps not durable: SEEDING must wait for a flush.
AwaitsFlush(p) == ~fatal /\ ~paused /\ p = "finished" /\ ~flushComplete

PollCompute ==
  /\ PollAt("compute")
  /\ \/ /\ held \/ open \/ fatal
        /\ poll' = [poll EXCEPT !.computed = Reported(poll.seen), !.at = "store"]
        /\ IF AwaitsFlush(poll.seen) /\ ~flushRequested
           THEN flushRequested' = TRUE /\ FlushCache
           ELSE UNCHANGED <<flushRequested, flushes>>
     \/ ~held /\ ~fatal /\ PollThrow /\ UNCHANGED <<flushRequested, flushes>>
  /\ UNCHANGED <<registered, claim, observer, metadata, flushComplete, pc, owed,
                 held, open, paused, errc, payload, alerts>>

\* An ERROR that no later round overwrites.
PollStoreUnlessError ==
  /\ PollAt("store")
  /\ state' = IF state = "ERROR" THEN state ELSE poll.computed
  /\ PollGoto("metadata")
  /\ UNCHANGED <<registered, claim, fatal, lastError, metadata, flags, pc, owed,
                 library, alerts>>

PollStore ==
  /\ PollAt("store")
  /\ state' = poll.computed
  /\ PollGoto("metadata")
  /\ UNCHANGED <<registered, claim, fatal, lastError, metadata, flags, pc, owed,
                 library, alerts>>

\* No delivery but the alert's.
PollNoFallback ==
  /\ PollAt("metadata")
  /\ \/ (held \/ open) /\ poll' = PollIdle
     \/ ~held /\ PollThrow
  /\ UNCHANGED <<registered, claim, observer, metadata, flags, pc, owed, library,
                 alerts>>

\* torrent_file() and the fallback delivery; then the stats callback.
PollMetadata ==
  /\ PollAt("metadata")
  /\ \/ /\ held \/ open
        /\ poll' = IF poll.seen # "metadata" /\ ~delivered
                   THEN [poll EXCEPT !.at = "deliver", !.back = "loop"]
                   ELSE PollIdle
     \/ ~held /\ PollThrow
  /\ UNCHANGED <<registered, claim, observer, metadata, flags, pc, owed, library,
                 alerts>>

-----------------------------------------------------------------------------
(* External: libtorrent.  It verifies pieces and writes them behind        *)
(* (written, then durable), answers flush_cache once everything written    *)
(* before that call is durable, and reports through a bounded queue.       *)
(* flush_cache calls that cover the same pieces are answered together.     *)

Post(kind) ==
  \/ Len(alerts) < AlertCap /\ alerts' = Append(alerts, kind)
  \/ AlertsMayDrop /\ UNCHANGED alerts

Running == held /\ ~paused /\ ~errc

LibMetadata ==
  /\ Running
  /\ phase = "metadata"
  /\ phase' = "checking"
  /\ Post("metadata")
  /\ UNCHANGED <<registered, claim, observer, metadata, flags, pc, poll, owed,
                 held, open, paused, errc, written, durable, flushes>>

\* Payload found on disk by the check was never in the cache.
LibChecked ==
  /\ Running
  /\ phase = "checking"
  /\ \/ phase' = "downloading" /\ UNCHANGED <<written, durable>>
     \/ phase' = "finished" /\ written' = Pieces /\ durable' = Pieces
  /\ UNCHANGED <<registered, claim, observer, metadata, flags, pc, poll, owed,
                 held, open, paused, errc, flushes, alerts>>

LibPiece ==
  /\ Running
  /\ phase = "downloading"
  /\ written' = written + 1
  /\ phase' = IF written' = Pieces THEN "finished" ELSE phase
  /\ UNCHANGED <<registered, claim, observer, metadata, flags, pc, poll, owed,
                 held, open, paused, errc, durable, flushes, alerts>>

LibDurable ==
  /\ durable < written
  /\ durable' = durable + 1
  /\ UNCHANGED <<registered, claim, observer, metadata, flags, pc, poll, owed,
                 held, open, paused, errc, phase, written, flushes, alerts>>

LibFlushDone ==
  \E covered \in flushes :
    /\ covered <= durable
    /\ flushes' = flushes \ {covered}
    /\ Post("flushed")
    /\ UNCHANGED <<registered, claim, observer, metadata, flags, pc, poll, owed,
                   held, open, paused, errc, payload>>

\* A tracker or web seed fails; the torrent goes on.
LibTransient ==
  /\ "transient" \in Failures
  /\ held
  /\ Post("transient")
  /\ UNCHANGED <<registered, claim, observer, metadata, flags, pc, poll, owed,
                 library>>

\* A file or torrent error stops the torrent; a grave one pauses it too.
LibError ==
  /\ "fatal" \in Failures
  /\ Running
  /\ errc' = TRUE
  /\ paused' \in BOOLEAN
  /\ Post("fatal")
  /\ UNCHANGED <<registered, claim, observer, metadata, flags, pc, poll, owed,
                 held, open, payload, flushes>>

LibClosed ==
  /\ ~held /\ open
  /\ open' = FALSE
  /\ Post("removed")
  /\ UNCHANGED <<registered, claim, observer, metadata, flags, pc, poll, owed,
                 held, paused, errc, payload, flushes>>

-----------------------------------------------------------------------------
\* The first step of a call.
Begin(t) ==
  \/ "Pause" \in Calls /\ Pause(t)
  \/ "Resume" \in Calls /\ ResumeClear(t)
  \/ "Cancel" \in Calls /\ CancelClaim(t)
  \/ "Finalise" \in Calls /\ FinaliseClaim(t)

\* A step of a call that has begun.
Continue(t) ==
  \/ AddMetadata(t) \/ AddCallback(t) \/ ResumeApply(t)
  \/ CancelRemove(t) \/ CancelErase(t)
  \/ FinaliseBarrier(t) \/ FinaliseFlushed(t) \/ FinaliseFlushTimeout(t)
  \/ FinaliseRemove(t) \/ FinaliseRemoved(t) \/ FinaliseErase(t)
  \/ Undo(t) \/ FailedLatch(t) \/ FailedState(t)

ProcessAlerts ==
  \/ PollPop \/ PollMetadataAlert \/ PollErrorAlert
  \/ PollFlushedAlert \/ PollRemovedAlert

UpdateStats ==
  \/ PollAlertsDone \/ PollStatus \/ PollErrc
  \/ PollCompute \/ PollStore \/ PollMetadata

RecordError == PollLatch \/ PollErrorState
DeliverMetadata == PollDeliver \/ PollMetadataGone \/ PollCallback

Poll == ProcessAlerts \/ UpdateStats \/ RecordError \/ DeliverMetadata

Disk == LibDurable \/ LibFlushDone

Library ==
  \/ Disk \/ LibMetadata \/ LibChecked \/ LibPiece
  \/ LibTransient \/ LibError \/ LibClosed

Next ==
  \/ \E t \in Threads : Begin(t) \/ Continue(t)
  \/ Poll
  \/ Library

Spec == Init /\ [][Next]_vars

\* The poll thread runs until the manager is destroyed, a thread inside a
\* call keeps running, and libtorrent writes behind and answers flushes.
FairSpec ==
  /\ Spec
  /\ WF_vars(Poll)
  /\ \A t \in Threads : SF_vars(Continue(t))
  /\ WF_vars(LibDurable) /\ WF_vars(LibFlushDone)

-----------------------------------------------------------------------------
(* Properties                                                              *)

\* "do not advertise seeding until the storage alert confirms outstanding
\* writes are durable" (UpdateStats).
SeedingIsDurable == state = "SEEDING" => durable = Pieces

\* "The first barrier makes all completed piece writes durable" (Finalise):
\* whatever was verified when Finalise claimed the torrent is on disk by the
\* time Finalise asks libtorrent to remove it.
BarrierDurable == \A t \in Threads : At(t, "finRemove") => durable >= owed

\* The adding thread, the metadata alert and the fallback of UpdateStats may
\* all deliver the metadata; the adapters hear of it at most once.
MetadataOnce == deliveries <= 1

\* While the fatal latch is set last_error explains it: no tracker error and
\* no metadata delivery overwrites or clears the diagnostic, in whatever
\* order the poll thread, a failing call and the adding thread write it.
FatalKeepsDiagnostic == fatal => lastError \in {"fatal", "removalTimeout"}

\* The life of this torrent is the one TorrentManager gives every id: it is
\* claimed by one call at a time, comes back to life only while the library
\* still holds it, and once removed is gone for good.
ClaimedPcs == {"cancelRemove", "finBarrier", "finFlushWait", "finRemove", "undo"}
Phase  == IF ~held THEN "gone" ELSE IF active THEN "live" ELSE "closing"
Owners == {t \in Threads : pc[t] \in ClaimedPcs}
Abstract == INSTANCE TorrentLifecycle
  WITH Ids <- {1}, Hashes <- {1}, hash <- [i \in {1} |-> 1],
       phase <- [i \in {1} |-> Phase], owners <- [i \in {1} |-> Owners]
FollowsLifecycle == [][Abstract!LNext]_(Abstract!lvars)

\* The torrent is active, no call is on its way, and s is what the next round
\* of UpdateStats would report.
Settled(s) ==
  /\ registered /\ active /\ held
  /\ \A t \in Threads : At(t, "idle")
  /\ ~errc \/ fatal
  /\ Reported(phase) = s

\* From some moment on nobody calls.
CallersStop == <>[][\A t \in Threads : ~Begin(t)]_vars

\* Pause, Resume, RecordError and UpdateStats store the state without a lock
\* and overwrite each other with values computed earlier; once callers and
\* library are quiet the report becomes right and stays so.
ReportConverges ==
  \A s \in States : CallersStop /\ <>[]Settled(s) => <>[](state = s)

\* A thread is about to make the callback.
Announcing(t)  == At(t, "addCallback")
PollAnnouncing == PollAt("callback")

\* DeliverMetadata sets metadata_delivered before it looks at active, and never
\* resets it: the callback of an active torrent has been made, or is coming.
MetadataNotSwallowed ==
  active /\ delivered =>
    deliveries > 0 \/ PollAnnouncing \/ \E t \in Threads : Announcing(t)

\* The one way to lose the event is a closing call that gives the torrent back
\* after a delivery has met it inactive: no race of the adding thread, the
\* metadata alert, the fallback and the failing calls swallows it.
SwallowedOnlyByGivingBack ==
  [][MetadataNotSwallowed /\ ~MetadataNotSwallowed' => ~active /\ active']_vars

\* A torrent whose metadata is known is announced although the metadata
\* alert may be lost, unless a call closes it.
MetadataReached == (phase # "metadata" /\ active) ~> (deliveries = 1 \/ ~active)

\* A torrent that stays complete, running and free of errors is in the end
\* reported as seeding for good, if the alert that answers its flush is not
\* lost: no Resume, failed Finalise or earlier flush, also of a torrent that was
\* SEEDING before, leaves it DOWNLOADING for ever.
SeedingReached ==
  <>[](/\ registered /\ active /\ Running /\ ~fatal /\ phase = "finished"
       /\ \A t \in Threads : At(t, "idle"))
    => <>[](state = "SEEDING")
=============================================================================

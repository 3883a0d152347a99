-------------------------- MODULE TorrentLifecycle --------------------------
(***************************************************************************)
(* What the native manager promises about the life of one torrent id,      *)
(* without threads, locks, alerts or waits.  An id is accepted once, may   *)
(* be claimed by exactly one closing call at a time, and either comes back *)
(* to life (the call failed before the library let go of the torrent) or   *)
(* is gone for good.  Two torrents that the library still holds never      *)
(* carry the same info hash.  TorrentManager is shown to implement this.   *)
(***************************************************************************)
EXTENDS Integers

CONSTANTS Ids,        \* torrent ids
          Threads,    \* callers of the manager
          Hashes      \* info hashes

VARIABLES phase,      \* phase[i]: where torrent i is in its life
          owners,     \* owners[i]: the calls that are closing torrent i
          hash        \* hash[i]: the info hash i was accepted with

lvars == <<phase, owners, hash>>

Phases == {"unused", "live", "closing", "gone"}

Held == {i \in Ids : phase[i] \in {"live", "closing"}}

LTypeOK ==
  /\ phase \in [Ids -> Phases]
  /\ owners \in [Ids -> SUBSET Threads]
  /\ hash \in [Ids -> Hashes]

LInit ==
  /\ phase = [i \in Ids |-> "unused"]
  /\ owners = [i \in Ids |-> {}]
  /\ hash \in [Ids -> Hashes]

Accept(i, h) ==
  /\ phase[i] = "unused"
  /\ \A j \in Held : hash[j] # h
  /\ phase' = [phase EXCEPT ![i] = "live"]
  /\ hash' = [hash EXCEPT ![i] = h]
  /\ UNCHANGED owners

Claim(t, i) ==
  /\ phase[i] = "live"
  /\ owners[i] = {}
  /\ phase' = [phase EXCEPT ![i] = "closing"]
  /\ owners' = [owners EXCEPT ![i] = {t}]
  /\ UNCHANGED hash

GiveBack(t, i) ==
  /\ owners[i] = {t}
  /\ phase' = [phase EXCEPT ![i] = "live"]
  /\ owners' = [owners EXCEPT ![i] = {}]
  /\ UNCHANGED hash

Retire(t, i) ==
  /\ owners[i] = {t}
  /\ phase' = [phase EXCEPT ![i] = "gone"]
  /\ owners' = [owners EXCEPT ![i] = {}]
  /\ UNCHANGED hash

\* Destruction of the manager: nothing is being closed, everything goes.
Shutdown ==
  /\ \A i \in Ids : owners[i] = {}
  /\ phase' = [i \in Ids |-> IF phase[i] = "unused" THEN "unused" ELSE "gone"]
  /\ UNCHANGED <<owners, hash>>

LNext ==
  \/ \E i \in Ids, h \in Hashes : Accept(i, h)
  \/ \E t \in Threads, i \in Ids : Claim(t, i) \/ GiveBack(t, i) \/ Retire(t, i)
  \/ Shutdown

LSpec == LInit /\ [][LNext]_lvars
=============================================================================

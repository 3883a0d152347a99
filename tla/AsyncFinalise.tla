--------------------------- MODULE AsyncFinalise ---------------------------
(***************************************************************************)
(* What every platform adapter promises about finalise, which blocks and   *)
(* therefore runs off the platform thread: a call is refused or accepted;  *)
(* an accepted call runs once, on a manager that is still there; its       *)
(* MethodResult is answered at most once, with what that very call         *)
(* returned or, when the plugin goes first, with "unavailable"; and the    *)
(* manager is destroyed once, after every accepted call has returned.      *)
(* WindowsPlugin and ApplePlugin implement this, and AndroidPlugin in each *)
(* attachment.                                                             *)
(***************************************************************************)
CONSTANTS Calls,    \* finalise calls of the application, each with its result
          Codes     \* what the native finalise returns

VARIABLES accepted,   \* the calls the adapter took on
          outcome,    \* outcome[c]: what the native call of c returned
          answer,     \* answer[c]: what the application was told
          manager     \* "up" until it is destroyed, then "down"

avars == <<accepted, outcome, answer, manager>>

ATypeOK ==
  /\ accepted \subseteq Calls
  /\ outcome \in [Calls -> Codes \union {"none"}]
  /\ answer \in [Calls -> Codes \union {"none", "unavailable"}]
  /\ manager \in {"up", "down"}

AInit ==
  /\ accepted = {}
  /\ outcome = [c \in Calls |-> "none"]
  /\ answer = [c \in Calls |-> "none"]
  /\ manager \in {"up", "down"}

Fresh(c) == c \notin accepted /\ answer[c] = "none"

Refuse(c) ==
  /\ Fresh(c)
  /\ answer' = [answer EXCEPT ![c] = "unavailable"]
  /\ UNCHANGED <<accepted, outcome, manager>>

Accept(c) ==
  /\ Fresh(c)
  /\ manager = "up"
  /\ accepted' = accepted \union {c}
  /\ UNCHANGED <<outcome, answer, manager>>

Execute(c) ==
  /\ c \in accepted
  /\ outcome[c] = "none"
  /\ manager = "up"
  /\ \E code \in Codes : outcome' = [outcome EXCEPT ![c] = code]
  /\ UNCHANGED <<accepted, answer, manager>>

Answer(c) ==
  /\ c \in accepted
  /\ answer[c] = "none" /\ outcome[c] # "none"
  /\ answer' = [answer EXCEPT ![c] = outcome[c]]
  /\ UNCHANGED <<accepted, outcome, manager>>

\* The plugin goes: whoever still waits is told so.
Abandon ==
  /\ answer' = [c \in Calls |->
                  IF c \in accepted /\ answer[c] = "none" THEN "unavailable"
                  ELSE answer[c]]
  /\ UNCHANGED <<accepted, outcome, manager>>

Destroy ==
  /\ manager = "up"
  /\ \A c \in accepted : outcome[c] # "none"
  /\ manager' = "down"
  /\ UNCHANGED <<accepted, outcome, answer>>

ANext ==
  \/ \E c \in Calls : Refuse(c) \/ Accept(c) \/ Execute(c) \/ Answer(c)
  \/ Abandon
  \/ Destroy

ASpec == AInit /\ [][ANext]_avars
=============================================================================

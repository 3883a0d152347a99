-------------------------- MODULE MethodCallsProofs --------------------------
(***************************************************************************)
(* About method calls with any arguments, on any platform: the decoder of  *)
(* the C ABI accepts exactly the well-formed texts, what reaches the       *)
(* manager is what the application passed, every block is freed once       *)
(* unless an exception loses it, and what the application is told fits     *)
(* what the manager answered.                                              *)
(***************************************************************************)
EXTENDS MethodCalls, SequenceFacts, TLAPS

-----------------------------------------------------------------------------
(* Characters                                                              *)

\* A continuation byte is one of the trailing bytes of the table.
LEMMA ContinuationIsTrail ==
  ASSUME NEW b \in Byte
  PROVE  IsContinuation(b) <=> b \in Trail
BY DEF Byte, IsContinuation, Trail

\* Its six payload bits.
LEMMA TrailPayload ==
  ASSUME NEW b \in Trail
  PROVE  b % 64 = b - 128
BY DEF Trail

\* The lead bytes, by how many continuation bytes they announce.
LEMMA LeadBytes ==
  ASSUME NEW b \in Byte
  PROVE  /\ Continuations(b) = 0 <=> b \in 0..127
         /\ Continuations(b) = 1 <=> b \in 192..223
         /\ Continuations(b) = 2 <=> b \in 224..239
         /\ Continuations(b) = 3 <=> b \in 240..247
BY DEF Byte, Continuations, NoLead

\* Two bytes: the overlong leads C0 and C1 are the ones refused.
LEMMA TwoBytes ==
  ASSUME NEW b \in 192..223, NEW c \in Byte
  PROVE  IsTwoByte(b, c) <=> b \in 194..223 /\ c \in Trail
<1>1. b % 32 = b - 192
  OBVIOUS
<1> QED
  BY <1>1, ContinuationIsTrail DEF IsTwoByte

\* Three bytes: overlong below E0 A0, surrogates from ED A0.
LEMMA ThreeBytes ==
  ASSUME NEW b \in 224..239, NEW c \in Byte, NEW d \in Byte
  PROVE  IsThreeByte(b, c, d) <=>
           \/ b = 224 /\ c \in 160..191 /\ d \in Trail
           \/ b \in (225..236 \union 238..239) /\ c \in Trail /\ d \in Trail
           \/ b = 237 /\ c \in 128..159 /\ d \in Trail
<1>1. CASE ~(c \in Trail /\ d \in Trail)
  BY <1>1, ContinuationIsTrail DEF IsThreeByte, Trail
<1>2. CASE c \in Trail /\ d \in Trail
  <2> DEFINE point == 4096 * (b - 224) + 64 * (c - 128) + (d - 128)
  <2>1. b % 16 = b - 224
    OBVIOUS
  <2>2. IsThreeByte(b, c, d) <=> point >= 2048 /\ point \notin 55296..57343
    BY <1>2, <2>1, ContinuationIsTrail, TrailPayload DEF IsThreeByte
  <2>3. point >= 2048 <=> b > 224 \/ c >= 160
    BY <1>2 DEF Trail
  <2>4. point \in 55296..57343 <=> b = 237 /\ c >= 160
    BY <1>2 DEF Trail
  <2> QED
    BY <1>2, <2>2, <2>3, <2>4 DEF Trail
<1> QED
  BY <1>1, <1>2

\* Four bytes: overlong below F0 90, beyond Unicode from F4 90.
LEMMA FourBytes ==
  ASSUME NEW b \in 240..247, NEW c \in Byte, NEW d \in Byte, NEW e \in Byte
  PROVE  IsFourByte(b, c, d, e) <=>
           \/ b = 240 /\ c \in 144..191 /\ d \in Trail /\ e \in Trail
           \/ b \in 241..243 /\ c \in Trail /\ d \in Trail /\ e \in Trail
           \/ b = 244 /\ c \in 128..143 /\ d \in Trail /\ e \in Trail
<1>1. CASE ~(c \in Trail /\ d \in Trail /\ e \in Trail)
  BY <1>1, ContinuationIsTrail DEF IsFourByte, Trail
<1>2. CASE c \in Trail /\ d \in Trail /\ e \in Trail
  <2> DEFINE point == 262144 * (b - 240) + 4096 * (c - 128)
                        + 64 * (d - 128) + (e - 128)
  <2>1. b % 8 = b - 240
    OBVIOUS
  <2>2. IsFourByte(b, c, d, e) <=> point >= 65536 /\ point <= 1114111
    BY <1>2, <2>1, ContinuationIsTrail, TrailPayload DEF IsFourByte
  <2>3. point >= 65536 <=> b > 240 \/ c >= 144
    BY <1>2 DEF Trail
  <2>4. point <= 1114111 <=> b < 244 \/ (b = 244 /\ c <= 143)
    BY <1>2 DEF Trail
  <2> QED
    BY <1>2, <2>2, <2>3, <2>4 DEF Trail
<1> QED
  BY <1>1, <1>2

\* Whatever four bytes stand at a place of a text, the decoder takes the
\* character there exactly when it is well-formed: no overlong form, no
\* surrogate and nothing beyond U+10FFFF passes, and nothing else is refused.
THEOREM DecoderAcceptsWellFormed ==
  ASSUME NEW b \in Byte, NEW c \in Byte, NEW d \in Byte, NEW e \in Byte
  PROVE  Accepts(b, c, d, e) <=> WellFormedCharacter(b, c, d, e)
<1>1. CASE b \in 0..127
  BY <1>1, LeadBytes DEF Accepts, WellFormedCharacter
<1>2. CASE b \in 192..223
  <2>1. Accepts(b, c, d, e) <=> IsTwoByte(b, c)
    BY <1>2, LeadBytes DEF Accepts
  <2> QED
    BY <1>2, <2>1, TwoBytes DEF WellFormedCharacter
<1>3. CASE b \in 224..239
  <2>1. Accepts(b, c, d, e) <=> IsThreeByte(b, c, d)
    BY <1>3, LeadBytes DEF Accepts
  <2> QED
    BY <1>3, <2>1, ThreeBytes DEF WellFormedCharacter
<1>4. CASE b \in 240..247
  <2>1. Accepts(b, c, d, e) <=> IsFourByte(b, c, d, e)
    BY <1>4, LeadBytes DEF Accepts
  <2> QED
    BY <1>4, <2>1, FourBytes DEF WellFormedCharacter
<1>5. CASE b \in 128..191 \union 248..255
  BY <1>5, LeadBytes DEF Accepts, WellFormedCharacter
<1> QED
  BY <1>1, <1>2, <1>3, <1>4, <1>5 DEF Byte

\* The decoder and the table step over an accepted character alike.
THEOREM DecoderStepsOverCharacter ==
  ASSUME NEW b \in Byte, NEW c \in Byte, NEW d \in Byte, NEW e \in Byte,
         Accepts(b, c, d, e)
  PROVE  1 + Continuations(b) = Width(b)
<1>1. WellFormedCharacter(b, c, d, e)
  BY DecoderAcceptsWellFormed
<1> QED
  BY <1>1, LeadBytes DEF WellFormedCharacter, Width, Byte

-----------------------------------------------------------------------------
(* Texts                                                                   *)

\* Which places of a text each definition passes, and how far they step.
Accepted(t) ==
  [i \in 1..Len(t) |-> Accepts(t[i], At(t, i + 1), At(t, i + 2), At(t, i + 3))]
Steps(t)  == [i \in 1..Len(t) |-> 1 + Continuations(t[i])]
Widths(t) == [i \in 1..Len(t) |-> Width(t[i])]

\* A byte of a text, or the terminating zero, is a byte.
LEMMA AtType ==
  ASSUME NEW t \in Seq(Byte), NEW i \in Nat
  PROVE  At(t, i) \in Byte /\ (At(t, i) # 0 => i \in 1..Len(t))
<1>1. CASE i \in 1..Len(t)
  BY <1>1 DEF At
<1>2. CASE i \notin 1..Len(t)
  BY <1>2 DEF At, Byte
<1> QED
  BY <1>1, <1>2

\* An accepted character does not run past the end of the text: the zero
\* there is no continuation byte.
LEMMA DecoderAdvances ==
  ASSUME NEW t \in Seq(Byte)
  PROVE  Advances(Len(t), Accepted(t), Steps(t))
<1> DEFINE n == Len(t)
<1>1. n \in Nat
  OBVIOUS
<1>2. \A i \in 1..n : Accepted(t)[i] \in BOOLEAN
  BY DEF Accepted, Accepts
<1>3. ASSUME NEW i \in 1..n, Accepted(t)[i]
      PROVE  Steps(t)[i] \in Nat \ {0} /\ i + Steps(t)[i] <= n + 1
  <2> DEFINE b == t[i]  c == At(t, i + 1)  d == At(t, i + 2)  e == At(t, i + 3)
  <2>1. i \in Nat /\ i <= n /\ b \in Byte
    OBVIOUS
  <2>2. /\ c \in Byte /\ (c # 0 => i + 1 <= n)
        /\ d \in Byte /\ (d # 0 => i + 2 <= n)
        /\ e \in Byte /\ (e # 0 => i + 3 <= n)
    BY <2>1, AtType
  <2>3. Steps(t)[i] = 1 + Continuations(b)
    BY DEF Steps
  <2> HIDE DEF b, c, d, e
  <2>4. Accepts(b, c, d, e)
    BY <1>3 DEF Accepted, b, c, d, e
  <2>5. \A x \in Byte : IsContinuation(x) => x # 0
    BY DEF IsContinuation
  <2>6. \/ Continuations(b) = 0
        \/ Continuations(b) = 1 /\ c # 0
        \/ Continuations(b) = 2 /\ d # 0
        \/ Continuations(b) = 3 /\ e # 0
    BY <2>2, <2>4, <2>5 DEF Accepts, IsTwoByte, IsThreeByte, IsFourByte
  <2> QED
    BY <1>1, <2>1, <2>2, <2>3, <2>6
<1> QED
  BY <1>1, <1>2, <1>3 DEF Advances

\* The recursive functions of the two definitions are scans.
LEMMA DecoderScans ==
  ASSUME NEW t \in Seq(Byte)
  PROVE  \E g : IsScan(g, Len(t), Accepted(t), Steps(t)) /\ IsUtf8(t) = g[1]
<1> DEFINE Rest(g) ==
      [i \in 1..Len(t) + 1 |->
         i <= Len(t) => /\ Accepts(t[i], At(t, i + 1), At(t, i + 2), At(t, i + 3))
                        /\ g[i + 1 + Continuations(t[i])]]
           f == CHOOSE g : g = Rest(g)
<1>1. ASSUME NEW g PROVE IsScan(g, Len(t), Accepted(t), Steps(t)) <=> g = Rest(g)
  <2>1. ASSUME NEW i \in 1..Len(t) + 1, i <= Len(t)
        PROVE  /\ Accepted(t)[i] = Accepts(t[i], At(t, i + 1), At(t, i + 2), At(t, i + 3))
               /\ i + Steps(t)[i] = i + 1 + Continuations(t[i])
    <3>1. i \in 1..Len(t)
      BY <2>1
    <3>2. Continuations(t[i]) \in Nat
      BY <3>1 DEF Continuations, NoLead
    <3> QED
      BY <3>1, <3>2 DEF Accepted, Steps
  <2> QED
    BY <2>1 DEF IsScan
<1>2. \E g : g = Rest(g)
  BY <1>1, DecoderAdvances, ScanExists
<1>3. f = Rest(f)
  <2> HIDE DEF Rest
  <2> QED
    BY <1>2
<1>4. IsUtf8(t) = f[1]
  BY DEF IsUtf8
<1> QED
  BY <1>1, <1>3, <1>4

\* The table passes the places that the decoder passes.
LEMMA TableScans ==
  ASSUME NEW t \in Seq(Byte)
  PROVE  \E g : IsScan(g, Len(t), Accepted(t), Widths(t)) /\ WellFormed(t) = g[1]
<1> DEFINE Rest(g) ==
      [i \in 1..Len(t) + 1 |->
         i <= Len(t) =>
           /\ WellFormedCharacter(t[i], At(t, i + 1), At(t, i + 2), At(t, i + 3))
           /\ g[i + Width(t[i])]]
           f == CHOOSE g : g = Rest(g)
<1>1. ASSUME NEW i \in 1..Len(t)
      PROVE  /\ Accepted(t)[i] = WellFormedCharacter(t[i], At(t, i + 1), At(t, i + 2),
                                                    At(t, i + 3))
             /\ Accepted(t)[i] => Widths(t)[i] = Steps(t)[i]
             /\ Widths(t)[i] = Width(t[i])
  <2> DEFINE b == t[i]  c == At(t, i + 1)  d == At(t, i + 2)  e == At(t, i + 3)
  <2>1. b \in Byte /\ c \in Byte /\ d \in Byte /\ e \in Byte
    BY AtType
  <2>2. /\ Accepted(t)[i] = Accepts(b, c, d, e)
        /\ Steps(t)[i] = 1 + Continuations(b)
        /\ Widths(t)[i] = Width(b)
    BY DEF Accepted, Steps, Widths
  <2> HIDE DEF b, c, d, e
  <2>3. Accepts(b, c, d, e) = WellFormedCharacter(b, c, d, e)
    <3>1. Accepts(b, c, d, e) <=> WellFormedCharacter(b, c, d, e)
      BY <2>1, DecoderAcceptsWellFormed
    <3>2. Accepts(b, c, d, e) \in BOOLEAN /\ WellFormedCharacter(b, c, d, e) \in BOOLEAN
      BY DEF Accepts, WellFormedCharacter
    <3> QED
      BY <3>1, <3>2
  <2>4. Accepts(b, c, d, e) => 1 + Continuations(b) = Width(b)
    BY <2>1, DecoderStepsOverCharacter
  <2> QED
    BY <2>2, <2>3, <2>4 DEF b, c, d, e
<1>2. ASSUME NEW g PROVE IsScan(g, Len(t), Accepted(t), Widths(t)) <=> g = Rest(g)
  <2>1. ASSUME NEW i \in 1..Len(t) + 1, i <= Len(t)
        PROVE  /\ Accepted(t)[i] = WellFormedCharacter(t[i], At(t, i + 1), At(t, i + 2),
                                                      At(t, i + 3))
               /\ i + Widths(t)[i] = i + Width(t[i])
    <3>1. i \in 1..Len(t)
      BY <2>1
    <3> QED
      BY <1>1, <3>1
  <2> QED
    BY <2>1 DEF IsScan
<1>3. Advances(Len(t), Accepted(t), Widths(t))
  BY <1>1, DecoderAdvances DEF Advances
<1>4. \E g : g = Rest(g)
  BY <1>2, <1>3, ScanExists
<1>5. f = Rest(f)
  <2> HIDE DEF Rest
  <2> QED
    BY <1>4
<1>6. WellFormed(t) = f[1]
  BY DEF WellFormed
<1> QED
  BY <1>2, <1>5, <1>6

\* The decoder of the C ABI accepts exactly the well-formed texts, of any
\* length: whatever it passes falls apart into characters of the table, and
\* no well-formed text is refused.
THEOREM DecoderDecides ==
  ASSUME NEW t \in Seq(Byte)
  PROVE  IsUtf8(t) <=> WellFormed(t)
<1>1. PICK g : IsScan(g, Len(t), Accepted(t), Steps(t)) /\ IsUtf8(t) = g[1]
  BY DecoderScans
<1>2. PICK h : IsScan(h, Len(t), Accepted(t), Widths(t)) /\ WellFormed(t) = h[1]
  BY TableScans
<1>3. ASSUME NEW i \in 1..Len(t), Accepted(t)[i]
      PROVE  Widths(t)[i] = Steps(t)[i]
  <2>1. /\ t[i] \in Byte /\ At(t, i + 1) \in Byte /\ At(t, i + 2) \in Byte
        /\ At(t, i + 3) \in Byte
    BY AtType
  <2>2. Accepts(t[i], At(t, i + 1), At(t, i + 2), At(t, i + 3))
    BY <1>3 DEF Accepted
  <2> QED
    BY <2>1, <2>2, DecoderStepsOverCharacter DEF Steps, Widths
<1>4. g[1] = h[1]
  BY <1>1, <1>2, <1>3, DecoderAdvances, ScansAgree
<1> QED
  BY <1>1, <1>2, <1>4

-----------------------------------------------------------------------------
(* Blocks                                                                  *)

\* OwnedOnce with what the steps between rely on: no block is held before an
\* answer is copied, on a failed call, or after the release.
Owned ==
  /\ out \subseteq heap
  /\ pc # "thrown" => heap = out
  /\ pc \in {"idle", "decode", "enter", "manage", "copy", "told", "released"}
       => heap = {}
  /\ pc = "copy" => code = Ok
  /\ pc = "returned" /\ code # Ok => heap = {}
  /\ pc = "returned" /\ code = Ok => BlocksOf(reply[2]) \subseteq out
  /\ manager = "none" => ~pluginRef
  /\ platform = "android" /\ manager = "up" => pluginRef
  /\ pluginRef => platform = "android" /\ manager \in {"up", "thrown"}

\* A creation keeps the reference only if an exception ends it.
LEMMA OnlyThrownKeeps == HoldReference \ ReleaseReference \subseteq Throws
BY DEF HoldReference, ReleaseReference, CreationFailures, Throws

LEMMA FreeLeavesNothing ==
  ASSUME heap = out, Free
  PROVE  heap' = {} /\ out' = {}
BY DEF Free

LEMMA OwnedInit == Init => Owned
BY DEF Init, Owned, Ok

\* No step of a call loses a block, frees one twice or leaves one dangling.
LEMMA OwnedStep ==
  ASSUME Owned, [Next]_vars
  PROVE  Owned'
<1> USE DEF Owned
<1>1. CASE Create
  BY <1>1, OnlyThrownKeeps DEF Create, sent, blocks, request
<1>2. ASSUME NEW r \in Requests, Send(r) PROVE Owned'
  BY <1>2 DEF Send, sent, blocks
<1>3. CASE Decode
  <2>1. CASE RefuseUninitialised \/ RefuseArguments \/ SucceedAtOnce
    BY <2>1 DEF RefuseUninitialised, RefuseArguments, SucceedAtOnce, Tell,
                request, sent, blocks
  <2>2. CASE CallNative
    <3>1. /\ pc = "decode" /\ UNCHANGED <<request, manager, pluginRef, reply, blocks>>
          /\ \/ code' = Invalid /\ pc' = "returned"
             \/ pc' = "enter"
      BY <2>2 DEF CallNative
    <3> QED
      BY <3>1 DEF request, blocks, Invalid, Ok
  <2> QED
    BY <1>3, <2>1, <2>2 DEF Decode
<1>4. CASE EnterAbi
  <2>1. /\ pc = "enter" /\ UNCHANGED <<request, manager, pluginRef, reply, blocks>>
        /\ \/ code' = Invalid /\ pc' = "returned"
           \/ pc' = "manage"
    BY <1>4 DEF EnterAbi
  <2> QED
    BY <2>1 DEF request, blocks, Invalid, Ok
<1>5. CASE Manage
  <2>1. /\ pc = "manage" /\ UNCHANGED <<request, manager, pluginRef, blocks>>
        /\ pc' = IF code' = Ok THEN "copy" ELSE "returned"
    BY <1>5 DEF Manage
  <2> QED
    BY <2>1 DEF request, blocks
<1>6. CASE Copy
  <2>1. PICK failed \in SUBSET BlocksOf(reply[2]) :
          /\ heap' = BlocksOf(reply[2]) \ failed
          /\ out' = heap'
          /\ pc' = IF failed = {} THEN "returned" ELSE "discard"
    BY <1>6 DEF Copy
  <2>2. pc = "copy" /\ UNCHANGED <<request, manager, pluginRef, reply, code>>
    BY <1>6 DEF Copy
  <2> QED
    BY <2>1, <2>2 DEF request
<1>7. CASE Discard
  BY <1>7, FreeLeavesNothing DEF Discard, request, NativeError, Ok
<1>8. CASE FailIntArray
  BY <1>8, FreeLeavesNothing DEF FailIntArray, request, NativeError, Ok
<1>9. CASE Read \/ EncodingThrows
  BY <1>9 DEF Read, EncodingThrows, request, blocks
<1>10. CASE Release
  BY <1>10, FreeLeavesNothing DEF Release, request
<1>11. CASE AnswerSuccess
  BY <1>11 DEF AnswerSuccess, request, blocks
<1>12. CASE AnswerError
  BY <1>12 DEF AnswerError, Tell, request, blocks
<1>13. CASE Forget
  BY <1>13 DEF Forget
<1>14. CASE UNCHANGED vars
  BY <1>14 DEF vars
<1> QED
  BY <1>1, <1>2, <1>3, <1>4, <1>5, <1>6, <1>7, <1>8, <1>9, <1>10, <1>11, <1>12,
     <1>13, <1>14 DEF Next, Abi, Finish

\* Whichever malloc of the C ABI or array of the JNI functions cannot be had,
\* in any order of calls: nothing is leaked, nothing freed twice, no pointer
\* dangles, and a failed creation gives the JNI reference back.  Exceptions
\* are the exception: a call that throws on Windows and a creation that throws
\* on Android may lose what they hold, and nothing else does.
THEOREM EveryBlockIsFreedOnce == Spec => []OwnedOnce
<1>1. Owned => OwnedOnce
  BY DEF Owned, OwnedOnce
<1> QED
  BY OwnedInit, OwnedStep, <1>1, PTL DEF Spec

-----------------------------------------------------------------------------
(* The session                                                             *)

Changing == call.method = "setTransfersSuspended"
Wanted   == Arg(call, "suspended")[2]

\* While the manager works on setTransfersSuspended and until its answer is
\* given, the session is as wanted if the call succeeds, and otherwise it is
\* as the application knows.
Informed ==
  /\ suspended \in BOOLEAN
  /\ call \in Requests \union {NoRequest}
  /\ pc \in {"enter", "manage", "copy", "discard", "returned", "read", "released"}
       /\ Changing => Wanted \in BOOLEAN
  /\ pc = "enter" /\ Changing => native = <<Wanted>>
  /\ pc = "manage" /\ Changing => received = <<Wanted>>
  /\ pc \in {"copy", "discard", "read", "released", "answered"} => code = Ok
  /\ pc \in {"copy", "discard", "returned", "read", "released"} /\ Changing /\ code = Ok
       => suspended = Wanted
  /\ \/ SessionKnown
     \/ Changing /\ pc \in {"copy", "discard", "returned", "read", "released"}

LEMMA InformedInit == Init => Informed
BY DEF Init, Informed, SessionKnown, Changing, NoRequest

\* What a call of setTransfersSuspended passes down, layer by layer.
LEMMA ChangePassedOn ==
  ASSUME Changing
  PROVE  /\ NativeArguments(platform, call) = <<Wanted>>
         /\ Forwarded(call.method, native) = native
         /\ ~JniRefuses(call.method, NativeArguments(platform, call))
<1>1. /\ call.method \notin ConfigMethods /\ call.method \notin Starts
      /\ call.method # "startFromData" /\ call.method \notin IdMethods
  BY DEF Changing, ConfigMethods, Starts, IdMethods, Changes
<1>2. NativeArguments(platform, call) = <<Wanted>>
  BY <1>1 DEF NativeArguments, Changing, Wanted
<1>3. Forwarded(call.method, native) = native
  BY <1>1 DEF Forwarded
<1>4. ~JniRefuses(call.method, NativeArguments(platform, call))
  BY <1>1 DEF JniRefuses
<1> QED
  BY <1>2, <1>3, <1>4

\* What the application knows stays true over every step.
LEMMA InformedStep ==
  ASSUME Informed, [Next]_vars
  PROVE  Informed'
<1> USE DEF Informed, Changing, Wanted, SessionKnown
<1>1. CASE Create
  BY <1>1 DEF Create, sent, request
<1>2. ASSUME NEW r \in Requests, Send(r) PROVE Informed'
  BY <1>2 DEF Send, sent
<1>3. CASE Decode
  <2>1. CASE RefuseUninitialised \/ RefuseArguments \/ SucceedAtOnce
    BY <2>1 DEF RefuseUninitialised, RefuseArguments, SucceedAtOnce, Tell,
                request, sent
  <2>2. CASE CallNative
    <3>1. /\ pc = "decode" /\ UNCHANGED <<platform, call, suspended, received, believed>>
          /\ \/ code' = Invalid /\ pc' = "returned" /\ ~Changing
             \/ native' = NativeArguments(platform, call) /\ pc' = "enter"
      BY <2>2, ChangePassedOn DEF CallNative, request
    <3>2. Changing => IsBool(Arg(call, "suspended"))
      BY <2>2 DEF CallNative, Refuses
    <3>3. Changing => Wanted \in BOOLEAN
      BY <3>2, RequestAssumption DEF NoRequest
    <3> QED
      BY <3>1, <3>3, ChangePassedOn
  <2> QED
    BY <1>3, <2>1, <2>2 DEF Decode
<1>4. CASE EnterAbi
  <2>1. /\ pc = "enter" /\ UNCHANGED <<call, suspended, native, believed>>
        /\ \/ code' = Invalid /\ pc' = "returned"
           \/ received' = Forwarded(call.method, native) /\ pc' = "manage"
    BY <1>4 DEF EnterAbi, request
  <2> QED
    BY <2>1, ChangePassedOn DEF Invalid, Ok
<1>5. CASE Manage
  <2>1. /\ pc = "manage" /\ UNCHANGED <<call, native, received, believed>>
        /\ code' = reply'[1]
        /\ pc' = IF code' = Ok THEN "copy" ELSE "returned"
    BY <1>5 DEF Manage, request, sent
  <2>2. CASE Changing
    <3>1. SetTransfersSuspended(received[1])
      BY <1>5, <2>2 DEF Manage
    <3>2. \/ suspended' = Wanted /\ reply' = <<Ok, Nothing>>
          \/ suspended' \in {suspended, Wanted} /\ reply' = <<NativeError, Nothing>>
      BY <2>1, <2>2, <3>1 DEF SetTransfersSuspended
    <3> QED
      BY <2>1, <2>2, <3>2 DEF Ok, NativeError
  <2>3. CASE ~Changing
    <3>1. UNCHANGED suspended
      BY <1>5, <2>3 DEF Manage, TransfersSuspended
    <3> QED
      BY <2>1, <2>3, <3>1
  <2> QED
    BY <2>2, <2>3
<1>6. CASE Copy
  <2>1. /\ pc = "copy" /\ pc' \in {"returned", "discard"}
        /\ UNCHANGED <<call, suspended, native, received, code, believed>>
    BY <1>6 DEF Copy, request, sent
  <2> QED
    BY <2>1
<1>7. CASE Discard
  BY <1>7 DEF Discard, request, sent, NativeError, Ok
<1>8. CASE FailIntArray
  BY <1>8 DEF FailIntArray, request, sent, NativeError, Ok
<1>9. CASE Read \/ EncodingThrows
  BY <1>9 DEF Read, EncodingThrows, request, sent
<1>10. CASE Release
  BY <1>10 DEF Release, request, sent
<1>11. CASE AnswerSuccess
  <2>1. /\ pc \in {"read", "released"} /\ pc' \in {"answered", "told"}
        /\ UNCHANGED <<call, suspended, native, received, code>>
    BY <1>11 DEF AnswerSuccess, request, sent
  <2>2. believed' = IF Changing THEN (IF Wanted THEN "suspended" ELSE "running")
                    ELSE believed
    BY <1>11 DEF AnswerSuccess, Learn
  <2> QED
    BY <2>1, <2>2
<1>12. CASE AnswerError
  <2>1. /\ pc = "returned" /\ pc' = "told" /\ code # Ok
        /\ UNCHANGED <<call, suspended, native, received, code>>
    BY <1>12 DEF AnswerError, Tell, request, sent
  <2>2. believed' = IF Changing THEN "unknown" ELSE believed
    BY <1>12 DEF AnswerError, Learn
  <2> QED
    BY <2>1, <2>2
<1>13. CASE Forget
  BY <1>13 DEF Forget, NoRequest
<1>14. CASE UNCHANGED vars
  BY <1>14 DEF vars
<1> QED
  BY <1>1, <1>2, <1>3, <1>4, <1>5, <1>6, <1>7, <1>8, <1>9, <1>10, <1>11, <1>12,
     <1>13, <1>14 DEF Next, Abi, Finish

\* Once a call is answered, the session is as the last setTransfersSuspended
\* was said to have left it, although the session may throw before or after
\* its change, and copying an answer may fail.
THEOREM SessionIsKnown == Spec => []SessionAsTold
<1>1. Informed => SessionAsTold
  BY DEF Informed, SessionAsTold
<1> QED
  BY InformedInit, InformedStep, <1>1, PTL DEF Spec

-----------------------------------------------------------------------------
(* Arguments                                                               *)

\* The cast changes no number that fits.
LEMMA NarrowKeeps ==
  ASSUME NEW n \in Int32
  PROVE  Narrow(n) = n
<1> DEFINE size == Int32Max + 1
           m == n + size
<1>1. size \in Int /\ m \in Int /\ 0 <= m /\ m < 2 * size /\ n \in Int
  BY CallAssumption DEF Int32
<1>2. m % (2 * size) = m
  <2> HIDE DEF size, m
  <2> QED
    BY <1>1
<1> QED
  BY <1>1, <1>2, CallAssumption DEF Narrow

LEMMA CStringKeeps ==
  ASSUME NEW t, ~HasNul(t)
  PROVE  CString(t) = t
BY DEF CString

\* A config that no adapter refuses is passed on as it was given.
LEMMA ConfigPassedOn ==
  ASSUME NEW m, ~NotConvertible(m)
  PROVE  [ConfigFromMap(m) EXCEPT !.userAgent = CString(@)] = Given(m)
<1> DEFINE c == ConfigFromMap(m)
<1>1. /\ c = [k \in DOMAIN DefaultConfig |->
                IF k \in NarrowFields THEN Narrow(Given(m)[k]) ELSE Given(m)[k]]
      /\ Given(m) = [k \in DOMAIN DefaultConfig |-> Given(m)[k]]
  BY DEF ConfigFromMap, Given
<1>2. \A k \in NarrowFields : Given(m)[k] \in Int32
  <2> SUFFICES ASSUME NEW k \in NarrowFields PROVE Given(m)[k] \in Int32
    OBVIOUS
  <2>1. k \in DOMAIN DefaultConfig
    BY DEF NarrowFields, DefaultConfig
  <2>2. CASE k \in DOMAIN m
    BY <2>1, <2>2 DEF Given, NotConvertible
  <2>3. CASE k \notin DOMAIN m
    <3>1. Given(m)[k] = DefaultConfig[k]
      BY <2>1, <2>3 DEF Given
    <3>2. DefaultConfig[k] \in {DefaultTorrents, DefaultConnections}
      BY DEF NarrowFields, DefaultConfig
    <3>3. DefaultTorrents \in Int32 /\ DefaultConnections \in Int32
      BY CallAssumption DEF Int32
    <3> QED
      BY <3>1, <3>2, <3>3
  <2> QED
    BY <2>2, <2>3
<1>3. CString(Given(m)["userAgent"]) = Given(m)["userAgent"]
  <2>1. Given(m)["userAgent"] = IF "userAgent" \in DOMAIN m THEN m["userAgent"][2]
                                ELSE DefaultAgent
    BY DEF Given, DefaultConfig
  <2>2. ~HasNul(Given(m)["userAgent"])
    BY <2>1, AgentAssumption DEF NotConvertible, IsConfigAgent
  <2> QED
    BY <2>2, CStringKeeps
<1>4. c = Given(m)
  BY <1>1, <1>2, NarrowKeeps
<1>5. [Given(m) EXCEPT !["userAgent"] = CString(@)] = Given(m)
  <2>1. "userAgent" \in DOMAIN DefaultConfig
    BY DEF DefaultConfig
  <2> QED
    BY <1>1, <1>3, <2>1
<1> QED
  BY <1>4, <1>5

\* A text that start accepts arrives whole.
LEMMA TextPassedOn ==
  ASSUME NEW p, NEW v, IsText(v),
         p # "windows" => WellFormed(v[2]),
         p = "android" \/ ~HasNul(v[2])
  PROVE  /\ Payload(p, v) = v[2]
         /\ ~HasNul(Payload(p, v)) => CString(Payload(p, v)) = v[2]
BY CStringKeeps DEF Payload, FromJavaString

\* What the adapter calls the C function with, and under which conditions.
Called(p, r, args) ==
  /\ ~Refuses(p, r) /\ ~NeedsNoCall(p, r) /\ Arrives(p, r)
  /\ args = NativeArguments(p, r)
  /\ p = "android" => ~JniRefuses(r.method, args)

LEMMA ConfigMeant ==
  ASSUME NEW p \in {"android", "windows", "apple"}, NEW r, NEW args,
         Called(p, r, args), r.method \in ConfigMethods
  PROVE  Forwarded(r.method, args) = Meant(r)
<1> DEFINE m == Arg(r, "config")[2]
<1>1. ~RefusesConfig(p, r)
  BY DEF Called, Refuses
<1>2. ~ConfigMissing(p, r) /\ IsMap(Arg(r, "config"))
  BY <1>1 DEF RefusesConfig, Called, NeedsNoCall, ConfigMethods
<1>3. ~NotConvertible(m)
  BY <1>1, <1>2 DEF RefusesConfig, AppleRefusesConfig, AndroidRefusesConfig
<1>4. r.method \notin Starts /\ r.method # "setTransfersSuspended"
      /\ r.method \notin IdMethods /\ r.method # "startFromData"
  BY DEF ConfigMethods, Starts, IdMethods, Changes
<1>5. args = <<ConfigFromMap(m)>>
  BY <1>4 DEF Called, NativeArguments
<1>6. Forwarded(r.method, args) = <<[ConfigFromMap(m) EXCEPT !.userAgent = CString(@)]>>
  BY <1>4, <1>5 DEF Forwarded
<1>7. Meant(r) = <<Given(m)>>
  BY <1>4 DEF Meant
<1> QED
  BY <1>3, <1>6, <1>7, ConfigPassedOn

LEMMA StartMeant ==
  ASSUME NEW p \in {"android", "windows", "apple"}, NEW r, NEW args,
         Called(p, r, args), r.method \in Starts
  PROVE  Forwarded(r.method, args) = Meant(r)
<1> DEFINE source == Arg(r, SourceKey(r.method))
           destination == Arg(r, "destination")
           name == Arg(r, "displayName")
           nameText == IF IsText(name) THEN name[2] ELSE <<>>
           namePayload == IF IsText(name) THEN Payload(p, name) ELSE <<>>
<1>1. ~RefusesStart(p, r)
  BY DEF Called, Refuses
<1>2. r.method \notin ConfigMethods /\ r.method # "setTransfersSuspended"
      /\ r.method \notin IdMethods
  BY DEF ConfigMethods, Starts, IdMethods, Changes
<1>3. args = <<Payload(p, source), Payload(p, destination), namePayload>>
  BY <1>2 DEF Called, NativeArguments
<1>4. Meant(r) = <<source[2], destination[2], nameText>>
  BY <1>2 DEF Meant
<1>5. ASSUME NEW v, IsRequired(p, v)
      PROVE  IsText(v) /\ (p = "android" \/ ~HasNul(v[2]))
  BY <1>5 DEF IsRequired, WindowsText, AndroidText, AppleText
<1>6. \A k \in {"magnet", "torrentFilePath", "destination", "displayName"} :
        IsText(Arg(r, k)) /\ p # "windows" => WellFormed(Arg(r, k)[2])
  BY DEF Called, Arrives, TextArguments
<1>7. \A i \in 1..3 : (p = "android" /\ ~(r.method = "startFromData" /\ i = 1))
                         => ~HasNul(args[i])
  BY DEF Called, JniRefuses
<1>8. CString(args[2]) = destination[2]
  <2>1. IsText(destination) /\ (p = "android" \/ ~HasNul(destination[2]))
    BY <1>1, <1>5 DEF RefusesStart
  <2>2. Payload(p, destination) = destination[2]
    BY <1>6, <2>1, TextPassedOn
  <2> QED
    BY <1>3, <1>7, <2>1, <2>2, CStringKeeps
<1>9. CString(args[3]) = nameText
  <2>1. CASE IsText(name)
    <3>1. p = "android" \/ ~HasNul(name[2])
      <4>1. name # Absent /\ name # Null
        BY <2>1 DEF IsText, Absent, Null
      <4>2. IsOptional(p, name)
        BY <1>1 DEF RefusesStart
      <4> QED
        BY <4>1, <4>2 DEF IsOptional, WindowsOptional, AppleText
    <3>2. Payload(p, name) = name[2]
      BY <1>6, <2>1, <3>1, TextPassedOn
    <3> QED
      BY <1>3, <1>7, <2>1, <3>1, <3>2, CStringKeeps
  <2>2. CASE ~IsText(name)
    <3>1. args[3] = <<>> /\ nameText = <<>>
      BY <1>3, <2>2
    <3>2. ~HasNul(<<>>)
      BY DEF HasNul
    <3> QED
      BY <3>1, <3>2, CStringKeeps
  <2> QED
    BY <2>1, <2>2
<1>10. CASE r.method = "startFromData"
  <2>1. SourceKey(r.method) = "data"
    BY <1>10 DEF SourceKey
  <2>2. ~IsText(source)
    BY <1>1, <1>10, <2>1 DEF RefusesStart, IsData, IsText
  <2>3. args[1] = source[2]
    BY <1>3, <2>2 DEF Payload
  <2>4. Forwarded(r.method, args) = <<args[1], CString(args[2]), CString(args[3])>>
    BY <1>2, <1>10 DEF Forwarded
  <2> QED
    BY <1>4, <1>8, <1>9, <2>3, <2>4
<1>11. CASE r.method # "startFromData"
  <2>1. SourceKey(r.method) \in {"magnet", "torrentFilePath"}
    BY <1>11 DEF SourceKey, Starts
  <2>2. IsText(source) /\ (p = "android" \/ ~HasNul(source[2]))
    BY <1>1, <1>5, <1>11 DEF RefusesStart
  <2>3. Payload(p, source) = source[2]
    BY <1>6, <2>1, <2>2, TextPassedOn
  <2>4. CString(args[1]) = source[2]
    BY <1>3, <1>7, <1>11, <2>2, <2>3, CStringKeeps
  <2>5. Forwarded(r.method, args) = [i \in 1..3 |-> CString(args[i])]
    BY <1>2, <1>11 DEF Forwarded
  <2>6. Forwarded(r.method, args) = <<CString(args[1]), CString(args[2]), CString(args[3])>>
    BY <2>5
  <2> QED
    BY <1>4, <1>8, <1>9, <2>4, <2>6
<1> QED
  BY <1>10, <1>11

LEMMA OtherMeant ==
  ASSUME NEW p \in {"android", "windows", "apple"}, NEW r, NEW args,
         Called(p, r, args), r.method \notin ConfigMethods, r.method \notin Starts
  PROVE  Forwarded(r.method, args) = Meant(r)
<1>1. Forwarded(r.method, args) = args
  BY DEF Forwarded, Starts
<1>2. CASE r.method = "setTransfersSuspended"
  BY <1>1, <1>2 DEF Called, NativeArguments, Meant, IdMethods, Changes
<1>3. CASE r.method \in IdMethods
  <2>1. IsId(Arg(r, "id"))
    BY <1>3 DEF Called, Refuses
  <2>2. Narrow(Arg(r, "id")[2]) = Arg(r, "id")[2]
    BY <2>1, NarrowKeeps, CallAssumption DEF IsId, Int32
  <2>3. r.method # "setTransfersSuspended"
    BY <1>3 DEF IdMethods, Changes
  <2> QED
    BY <1>1, <1>3, <2>2, <2>3 DEF Called, NativeArguments, Meant
<1>4. CASE r.method # "setTransfersSuspended" /\ r.method \notin IdMethods
  BY <1>1, <1>4 DEF Called, NativeArguments, Meant
<1> QED
  BY <1>2, <1>3, <1>4

\* The texts of a call that is passed on are bytes.
LEMMA TextsAreBytes ==
  ASSUME NEW p \in {"android", "windows", "apple"}, NEW r \in Requests, NEW args,
         Called(p, r, args)
  PROVE  \A t \in TextsOf(r.method, Meant(r)) : t \in Seq(Byte)
<1>1. \A v \in TextArguments(r) : IsText(v) => v[2] \in Seq(Byte)
  BY RequestAssumption
<1>2. CASE r.method \in ConfigMethods
  <2> DEFINE m == Arg(r, "config")[2]
  <2>0. r.method \notin Starts /\ r.method # "startFromData"
          /\ r.method # "setTransfersSuspended" /\ r.method \notin IdMethods
    BY <1>2 DEF ConfigMethods, Starts, IdMethods, Changes
  <2>1. ~RefusesConfig(p, r)
    BY <1>2 DEF Called, Refuses
  <2>2. IsMap(Arg(r, "config"))
    BY <1>2, <2>1 DEF RefusesConfig, Called, NeedsNoCall, ConfigMethods
  <2>3. ~NotConvertible(m)
    BY <2>1, <2>2 DEF RefusesConfig, AppleRefusesConfig, AndroidRefusesConfig
  <2>4. Given(m).userAgent = IF "userAgent" \in DOMAIN m THEN m["userAgent"][2]
                             ELSE DefaultAgent
    BY DEF Given, DefaultConfig
  <2>5. "userAgent" \in DOMAIN m => IsText(m["userAgent"]) /\ m["userAgent"] \in TextArguments(r)
    BY <2>2, <2>3 DEF NotConvertible, IsConfigAgent, TextArguments
  <2>6. Given(m).userAgent \in Seq(Byte)
    BY <1>1, <2>4, <2>5, AgentAssumption
  <2>7. TextsOf(r.method, Meant(r)) = {Given(m).userAgent}
    BY <1>2, <2>0 DEF TextsOf, Meant
  <2> QED
    BY <2>6, <2>7
<1>3. CASE r.method \in Starts
  <2> DEFINE name == Arg(r, "displayName")
             nameText == IF IsText(name) THEN name[2] ELSE <<>>
  <2>1. ~RefusesStart(p, r) /\ r.method \notin ConfigMethods
          /\ r.method # "setTransfersSuspended" /\ r.method \notin IdMethods
    BY <1>3 DEF Called, Refuses, ConfigMethods, Starts, IdMethods, Changes
  <2>2. Meant(r) = <<Arg(r, SourceKey(r.method))[2], Arg(r, "destination")[2], nameText>>
    BY <1>3, <2>1 DEF Meant
  <2>3. \A k \in {"magnet", "torrentFilePath", "destination", "displayName"} :
          IsText(Arg(r, k)) => Arg(r, k)[2] \in Seq(Byte)
    BY <1>1 DEF TextArguments
  <2>4. \A v : IsRequired(p, v) => IsText(v)
    BY DEF IsRequired, WindowsText, AndroidText, AppleText
  <2>5. Meant(r)[2] \in Seq(Byte) /\ Meant(r)[3] \in Seq(Byte)
    <3>1. IsText(Arg(r, "destination"))
      BY <2>1, <2>4 DEF RefusesStart
    <3>2. nameText \in Seq(Byte)
      BY <2>3
    <3> QED
      BY <2>2, <2>3, <3>1, <3>2
  <2>6. CASE r.method = "startFromData"
    BY <2>1, <2>5, <2>6 DEF TextsOf
  <2>7. CASE r.method # "startFromData"
    <3>1. SourceKey(r.method) \in {"magnet", "torrentFilePath"}
      BY <1>3, <2>7 DEF SourceKey, Starts
    <3>2. IsText(Arg(r, SourceKey(r.method)))
      BY <2>1, <2>4, <2>7 DEF RefusesStart
    <3>3. Meant(r)[1] \in Seq(Byte)
      BY <2>2, <2>3, <3>1, <3>2
    <3> QED
      BY <1>3, <2>1, <2>5, <2>7, <3>3 DEF TextsOf
  <2> QED
    BY <2>6, <2>7
<1>4. CASE r.method \notin ConfigMethods /\ r.method \notin Starts
  BY <1>4 DEF TextsOf, Starts
<1> QED
  BY <1>2, <1>3, <1>4

\* The manager sees the C strings of the texts that the C ABI has looked at.
LEMMA TextsForwarded ==
  ASSUME NEW p \in {"android", "windows", "apple"}, NEW r, NEW args,
         Called(p, r, args)
  PROVE  \A t \in TextsOf(r.method, Forwarded(r.method, args)) :
           \E u \in TextsOf(r.method, args) : t = CString(u)
<1>1. CASE r.method \in ConfigMethods
  <2> DEFINE c == ConfigFromMap(Arg(r, "config")[2])
  <2>0. r.method \notin Starts /\ r.method # "startFromData"
          /\ r.method # "setTransfersSuspended" /\ r.method \notin IdMethods
    BY <1>1 DEF ConfigMethods, Starts, IdMethods, Changes
  <2>1. args = <<c>>
    BY <1>1, <2>0 DEF Called, NativeArguments
  <2>2. Forwarded(r.method, args) = <<[c EXCEPT !.userAgent = CString(@)]>>
    BY <1>1, <2>0, <2>1 DEF Forwarded
  <2>3. c = [k \in DOMAIN DefaultConfig |-> c[k]] /\ "userAgent" \in DOMAIN DefaultConfig
    BY DEF ConfigFromMap, DefaultConfig
  <2>4. [c EXCEPT !.userAgent = CString(@)].userAgent = CString(c.userAgent)
    <3> HIDE DEF c
    <3> QED
      BY <2>3
  <2>5. TextsOf(r.method, args) = {c.userAgent}
    BY <1>1, <2>0, <2>1 DEF TextsOf
  <2>6. TextsOf(r.method, Forwarded(r.method, args)) = {CString(c.userAgent)}
    <3> DEFINE forwarded == [c EXCEPT !.userAgent = CString(@)]
    <3>1. TextsOf(r.method, <<forwarded>>) = {forwarded.userAgent}
      <4> HIDE DEF forwarded
      <4> QED
        BY <1>1, <2>0 DEF TextsOf
    <3> QED
      BY <2>2, <2>4, <3>1
  <2> QED
    BY <2>5, <2>6
<1>2. CASE r.method = "startFromData"
  BY <1>2 DEF TextsOf, Forwarded, ConfigMethods
<1>3. CASE r.method \in Starts \ {"startFromData"}
  BY <1>3 DEF TextsOf, Forwarded, ConfigMethods, Starts
<1>4. CASE r.method \notin ConfigMethods /\ r.method \notin Starts
  BY <1>4 DEF TextsOf, Starts
<1> QED
  BY <1>1, <1>2, <1>3, <1>4 DEF Starts

\* No value is changed between the call and the point at which it waits.
Carried ==
  /\ platform \in Platforms
  /\ pc \in {"decode", "enter"} => call \in Requests
  /\ pc \in {"idle", "decode", "enter"} => ~reached
  /\ pc = "decode" => Arrives(platform, call)
  /\ pc = "enter" => Called(platform, call, native)
  /\ Intact

LEMMA CarriedInit == Init => Carried
BY DEF Init, Carried, Intact, AsMeant

LEMMA CarriedStep ==
  ASSUME Carried, [Next]_vars
  PROVE  Carried'
<1> USE DEF Carried, Intact, AsMeant
<1>1. CASE Create
  BY <1>1 DEF Create, sent, request
<1>2. ASSUME NEW r \in Requests, Send(r) PROVE Carried'
  BY <1>2 DEF Send, sent
<1>3. CASE Decode
  <2>1. CASE RefuseUninitialised \/ RefuseArguments \/ SucceedAtOnce
    BY <2>1 DEF RefuseUninitialised, RefuseArguments, SucceedAtOnce, Tell,
                request, sent
  <2>2. CASE CallNative
    <3>1. /\ pc = "decode" /\ UNCHANGED <<platform, call, reached, received>>
          /\ ~Refuses(platform, call) /\ ~NeedsNoCall(platform, call)
          /\ \/ pc' = "returned"
             \/ /\ native' = NativeArguments(platform, call) /\ pc' = "enter"
                /\ platform = "android" => ~JniRefuses(call.method, native')
      BY <2>2 DEF CallNative, request
    <3> QED
      BY <3>1 DEF Called
  <2> QED
    BY <1>3, <2>1, <2>2 DEF Decode
<1>4. CASE EnterAbi
  <2>1. /\ pc = "enter" /\ UNCHANGED <<platform, call, native>>
        /\ \/ pc' = "returned" /\ UNCHANGED <<reached, received>>
           \/ /\ received' = Forwarded(call.method, native) /\ pc' = "manage"
              /\ ~AbiRefuses(call.method, native)
    BY <1>4 DEF EnterAbi, request
  <2>2. Forwarded(call.method, native) = Meant(call)
    BY <2>1, CallAssumption, ConfigMeant, StartMeant, OtherMeant
  <2>3. ASSUME ~AbiRefuses(call.method, native),
               NEW t \in TextsOf(call.method, Forwarded(call.method, native))
        PROVE  WellFormed(t)
    <3>1. t \in Seq(Byte)
      BY <2>1, <2>2, <2>3, CallAssumption, TextsAreBytes
    <3>2. \E u \in TextsOf(call.method, native) : t = CString(u)
      <4>1. platform \in {"android", "windows", "apple"}
            /\ Called(platform, call, native)
        BY <2>1, CallAssumption
      <4>2. \A x \in TextsOf(call.method, Forwarded(call.method, native)) :
              \E u \in TextsOf(call.method, native) : x = CString(u)
        BY ONLY <4>1, TextsForwarded
      <4> QED
        BY <2>3, <4>2
    <3>3. IsUtf8(t)
      BY <2>3, <3>2 DEF AbiRefuses
    <3> QED
      BY <3>1, <3>3, DecoderDecides
  <2> QED
    BY <2>1, <2>2, <2>3
<1>5. CASE Manage
  BY <1>5 DEF Manage, request, sent
<1>6. CASE Copy \/ Discard \/ FailIntArray \/ EncodingThrows \/ Read \/ Release
  BY <1>6 DEF Copy, Discard, FailIntArray, EncodingThrows, Read, Release, request, sent
<1>7. CASE AnswerSuccess
  BY <1>7 DEF AnswerSuccess, request, sent
<1>8. CASE AnswerError
  BY <1>8 DEF AnswerError, Tell, request, sent
<1>9. CASE Forget
  BY <1>9 DEF Forget
<1>10. CASE UNCHANGED vars
  BY <1>10 DEF vars
<1> QED
  BY <1>1, <1>2, <1>3, <1>4, <1>5, <1>6, <1>7, <1>8, <1>9, <1>10
     DEF Next, Abi, Finish

\* Whatever values a call carries and wherever it is made, what reaches the
\* manager is what the application passed, and every text in it is
\* well-formed: no cast, no NUL and no default changes it on the way.
THEOREM WhatArrivesIsIntact == Spec => []Intact
<1>1. Carried => Intact
  BY DEF Carried
<1> QED
  BY CarriedInit, CarriedStep, <1>1, PTL DEF Spec
-----------------------------------------------------------------------------
(* Answers                                                                 *)

Copying == {"copy", "discard", "returned", "read", "released", "answered"}
InBlocks(value) == value[1] \in {"ids", "info", "error"}

\* An answer of the manager: a code and a value, in blocks only with OK.
ReplyFits ==
  /\ reply = <<reply[1], reply[2]>>
  /\ reply[1] \in Ok..Duplicate
  /\ reply[1] = InvalidTorrent => call.method \in Starts
  /\ call.method = "getActiveTorrentIds" => InBlocks(reply[2])

\* The Apple adapters call every Invalid invalidArgument, so that none may be
\* about a config.
BlameFits == ~(platform = "apple" /\ call.method \in ConfigMethods)

\* How far a call has come decides which part of Truthful is still to come.
Fitting ==
  /\ manager \in {"none", "up", "failed", "thrown"}
  /\ pc # "idle" => call \in Requests /\ manager # "none"
  /\ pc \notin {"idle", "decode", "told"} => manager = "up"
  /\ pc \in {"idle", "decode", "enter"} => ~reached
  /\ pc \in (Copying \ {"returned"}) \union {"manage"} => reached
  /\ pc = "returned" /\ ~reached => code = Invalid /\ ~IsSound(call) /\ BlameFits
  /\ pc = "manage" /\ platform = "apple" /\ call.method \in ConfigMethods
       => IsValidConfig(received[1])
  /\ pc \in Copying /\ reached => ReplyFits
  /\ pc \in Copying \ {"returned"} => reply[1] = Ok
  /\ pc = "discard" => InBlocks(reply[2])
  /\ pc = "returned" /\ reached =>
       \/ code = reply[1] /\ (code = Invalid => BlameFits)
       \/ code = NativeError /\ reply[1] = Ok /\ InBlocks(reply[2])
  /\ pc \in {"read", "released", "answered"} => copied = ReadValue(platform, reply[2])
  /\ pc = "answered" => answer = Decoded(copied)
  /\ pc = "told" => AnswerFits

\* No method is of two kinds.
LEMMA MethodKinds ==
  ASSUME NEW m
  PROVE  /\ m \in ConfigMethods => m \notin Starts \union IdMethods
         /\ m \in Starts => m \notin ConfigMethods \union IdMethods
         /\ m = "setTransfersSuspended" =>
              m \notin ConfigMethods \union Starts \union IdMethods
         /\ "startFromData" \in Starts /\ "init" \in ConfigMethods
BY DEF ConfigMethods, Starts, IdMethods, Changes

\* A sound config has the values it gives converted.
LEMMA SoundConfig ==
  ASSUME NEW m, IsSoundConfig(m)
  PROVE  ~NotConvertible(m)
<1>1. ASSUME NEW k \in DOMAIN m \intersect NarrowFields
      PROVE  IsInt(m[k]) /\ m[k][2] \in Int32
  <2>1. IsInt(m[k])
    BY <1>1 DEF IsSoundConfig
  <2>2. Given(m)[k] = m[k][2]
    BY <1>1 DEF Given, DefaultConfig, NarrowFields
  <2>3. Given(m).maxTorrents \in 1..MaxTorrents
        /\ Given(m).connectionsLimit \in 1..MaxConnections
    BY DEF IsSoundConfig, IsValidConfig
  <2>4. Given(m)[k] \in 1..Int32Max
    BY <1>1, <2>3, CallAssumption DEF NarrowFields
  <2> QED
    BY <2>1, <2>2, <2>4, CallAssumption DEF Int32
<1> QED
  BY <1>1 DEF IsSoundConfig, NotConvertible, IsConfigAgent, IsSoundText

\* An adapter refuses no call that is in order, and the C ABI gets its texts.
LEMMA SoundConfigAccepted ==
  ASSUME NEW p \in {"android", "windows", "apple"}, NEW r,
         r.method \in ConfigMethods, IsSound(r)
  PROVE  /\ ~RefusesConfig(p, r)
         /\ ~NeedsNoCall(p, r) => IsMap(Arg(r, "config")) /\ IsSoundConfig(Arg(r, "config")[2])
<1>1. CASE IsMap(Arg(r, "config"))
  <2>1. IsSoundConfig(Arg(r, "config")[2])
    BY <1>1, MethodKinds DEF IsSound
  <2>2. /\ ~NotConvertible(Arg(r, "config")[2])
        /\ ~AppleRefusesConfig(Arg(r, "config")[2])
        /\ ~AndroidRefusesConfig(Arg(r, "config")[2])
    BY <2>1, SoundConfig DEF AppleRefusesConfig, AndroidRefusesConfig, IsSoundConfig
  <2>3. Arg(r, "config") # Absent /\ Arg(r, "config") # Null
    BY <1>1 DEF IsMap, Absent, Null
  <2>4. IsMap(r.arguments)
    BY <2>3 DEF Arg
  <2> QED
    BY <1>1, <2>1, <2>2, <2>3, <2>4 DEF RefusesConfig, ConfigMissing
<1>2. CASE ~IsMap(Arg(r, "config"))
  <2>1. r.method = "init" /\ r.arguments = <<"map", [k \in {} |-> Null]>>
    BY <1>2, MethodKinds DEF IsSound
  <2>2. IsMap(r.arguments) /\ Arg(r, "config") = Absent
    BY <2>1 DEF Arg, IsMap
  <2> QED
    BY <1>2, <2>1, <2>2 DEF RefusesConfig, ConfigMissing, NeedsNoCall
<1> QED
  BY <1>1, <1>2

LEMMA SoundStartAccepted ==
  ASSUME NEW p \in {"android", "windows", "apple"}, NEW r,
         r.method \in Starts, IsSoundStart(r)
  PROVE  ~RefusesStart(p, r)
<1>1. ASSUME NEW v, IsSoundText(v), ~IsBlank(v[2]) PROVE IsRequired(p, v)
  <2>1. v[2] # <<>>
    BY <1>1 DEF IsBlank
  <2> QED
    BY <1>1, <2>1 DEF IsSoundText, IsRequired, WindowsText, AndroidText, AppleText
<1>2. IsOptional(p, Arg(r, "displayName"))
  BY DEF IsSoundStart, IsSoundText, IsOptional, WindowsOptional, AppleText
<1> QED
  BY <1>1, <1>2 DEF IsSoundStart, RefusesStart, IsData

\* No adapter refuses a call that is in order.
LEMMA SoundAccepted ==
  ASSUME NEW p \in {"android", "windows", "apple"}, NEW r, IsSound(r)
  PROVE  ~Refuses(p, r)
<1>1. CASE r.method \in ConfigMethods
  BY <1>1, SoundConfigAccepted, MethodKinds DEF Refuses
<1>2. CASE r.method \in Starts
  <2>1. IsSoundStart(r)
    BY <1>2, MethodKinds DEF IsSound
  <2> QED
    BY <1>2, <2>1, SoundStartAccepted, MethodKinds DEF Refuses
<1>3. CASE r.method \in IdMethods
  BY <1>3, MethodKinds DEF Refuses, IsSound
<1>4. CASE r.method = "setTransfersSuspended"
  BY <1>4, MethodKinds DEF Refuses, IsSound
<1>5. CASE r.method \notin ConfigMethods \union Starts \union IdMethods
           /\ r.method # "setTransfersSuspended"
  BY <1>5 DEF Refuses
<1> QED
  BY <1>1, <1>2, <1>3, <1>4, <1>5

\* A sound text is handed on whole, and the decoder of the C ABI takes it.
LEMMA SoundTextTaken ==
  ASSUME NEW p, NEW v, IsSoundText(v), v[2] \in Seq(Byte)
  PROVE  /\ Payload(p, v) = v[2]
         /\ ~HasNul(v[2]) /\ IsUtf8(CString(v[2]))
<1>1. IsUtf8(v[2])
  BY DecoderDecides DEF IsSoundText
<1> QED
  BY <1>1, CStringKeeps DEF IsSoundText, Payload, FromJavaString

LEMMA EmptyTextTaken == ~HasNul(<<>>) /\ IsUtf8(CString(<<>>))
<1>1. <<>> \in Seq(Byte) /\ Len(<<>>) = 0
  OBVIOUS
<1>2. PICK g : IsScan(g, 0, Accepted(<<>>), Steps(<<>>)) /\ IsUtf8(<<>>) = g[1]
  BY <1>1, DecoderScans
<1>3. g[1] = TRUE
  <2> DEFINE found(i) == i <= 0 => Accepted(<<>>)[i] /\ g[i + Steps(<<>>)[i]]
  <2>1. g = [i \in 1..0 + 1 |-> found(i)]
    BY <1>2 DEF IsScan
  <2>2. 1 \in 1..0 + 1 /\ found(1) = TRUE
    OBVIOUS
  <2> HIDE DEF found
  <2> QED
    BY <2>1, <2>2
<1>4. ~HasNul(<<>>)
  BY DEF HasNul
<1> QED
  BY <1>2, <1>3, <1>4, CStringKeeps

\* Neither the JNI functions nor the C ABI refuse a call that is in order.
LEMMA SoundConfigTaken ==
  ASSUME NEW p, NEW r \in Requests, r.method \in ConfigMethods,
         IsMap(Arg(r, "config")), IsSoundConfig(Arg(r, "config")[2])
  PROVE  ~AbiRefuses(r.method, NativeArguments(p, r))
<1> DEFINE m == Arg(r, "config")[2]
           agent == Given(m).userAgent
<1>1. ConfigFromMap(m).userAgent = agent
  BY DEF ConfigFromMap, DefaultConfig, NarrowFields
<1>2. agent = IF "userAgent" \in DOMAIN m THEN m["userAgent"][2] ELSE DefaultAgent
  BY DEF Given, DefaultConfig
<1>3. TextsOf(r.method, NativeArguments(p, r)) = {agent}
  BY <1>1, MethodKinds DEF TextsOf, NativeArguments
<1>4. CASE "userAgent" \in DOMAIN m
  <2>1. IsSoundText(m["userAgent"]) /\ m["userAgent"] \in TextArguments(r)
    BY <1>4 DEF IsSoundConfig, TextArguments
  <2>2. m["userAgent"][2] \in Seq(Byte)
    BY <2>1, RequestAssumption DEF IsSoundText
  <2> QED
    BY <1>2, <1>3, <1>4, <2>1, <2>2, SoundTextTaken DEF AbiRefuses
<1>5. CASE "userAgent" \notin DOMAIN m
  BY <1>2, <1>3, <1>5, AgentAssumption, DecoderDecides, CStringKeeps DEF AbiRefuses
<1> QED
  BY <1>4, <1>5

LEMMA SoundStartTaken ==
  ASSUME NEW p, NEW r \in Requests, r.method \in Starts, IsSoundStart(r)
  PROVE  /\ ~JniRefuses(r.method, NativeArguments(p, r))
         /\ ~AbiRefuses(r.method, NativeArguments(p, r))
<1> DEFINE args == NativeArguments(p, r)
           Taken(t) == ~HasNul(t) /\ IsUtf8(CString(t))
           source == Arg(r, SourceKey(r.method))
           destination == Arg(r, "destination")
           name == Arg(r, "displayName")
           namePayload == IF IsText(name) THEN Payload(p, name) ELSE <<>>
<1>1. args = <<Payload(p, source), Payload(p, destination), namePayload>>
  BY MethodKinds DEF NativeArguments
<1>2. \A k \in {"magnet", "torrentFilePath", "destination", "displayName"} :
        IsText(Arg(r, k)) => Arg(r, k)[2] \in Seq(Byte)
  BY RequestAssumption DEF TextArguments
<1>3. Taken(args[2])
  <2>1. IsSoundText(destination)
    BY DEF IsSoundStart
  <2>2. destination[2] \in Seq(Byte)
    BY <1>2, <2>1 DEF IsSoundText
  <2> QED
    BY <1>1, <2>1, <2>2, SoundTextTaken
<1>4. Taken(args[3])
  <2>1. CASE IsText(name)
    <3>1. IsSoundText(name)
      BY <2>1 DEF IsSoundStart, IsText, Absent
    <3>2. name[2] \in Seq(Byte)
      BY <1>2, <2>1
    <3> QED
      BY <1>1, <2>1, <3>1, <3>2, SoundTextTaken
  <2>2. CASE ~IsText(name)
    BY <1>1, <2>2, EmptyTextTaken
  <2> QED
    BY <2>1, <2>2
<1>5. r.method # "startFromData" => Taken(args[1])
  <2> SUFFICES ASSUME r.method # "startFromData" PROVE Taken(args[1])
    OBVIOUS
  <2>1. IsSoundText(source) /\ SourceKey(r.method) \in {"magnet", "torrentFilePath"}
    BY DEF IsSoundStart, SourceKey, Starts
  <2>2. source[2] \in Seq(Byte)
    BY <1>2, <2>1 DEF IsSoundText
  <2> QED
    BY <1>1, <2>1, <2>2, SoundTextTaken
<1> HIDE DEF args
<1>6. ~JniRefuses(r.method, args)
  BY <1>3, <1>4, <1>5 DEF JniRefuses
<1>7. \A t \in TextsOf(r.method, args) : Taken(t)
  <2>1. CASE r.method = "startFromData"
    BY <1>3, <1>4, <2>1, MethodKinds DEF TextsOf
  <2>2. CASE r.method # "startFromData"
    BY <1>3, <1>4, <1>5, <2>2, MethodKinds DEF TextsOf
  <2> QED
    BY <2>1, <2>2
<1> QED
  BY <1>6, <1>7 DEF AbiRefuses, args

LEMMA SoundTaken ==
  ASSUME NEW p \in {"android", "windows", "apple"}, NEW r \in Requests, IsSound(r),
         ~NeedsNoCall(p, r)
  PROVE  /\ ~JniRefuses(r.method, NativeArguments(p, r))
         /\ ~AbiRefuses(r.method, NativeArguments(p, r))
<1>1. CASE r.method \in ConfigMethods
  BY <1>1, SoundConfigAccepted, SoundConfigTaken, MethodKinds DEF JniRefuses
<1>2. CASE r.method \in Starts
  <2>1. IsSoundStart(r)
    BY <1>2, MethodKinds DEF IsSound
  <2> QED
    BY <1>2, <2>1, SoundStartTaken
<1>3. CASE r.method \notin ConfigMethods \union Starts
  BY <1>3, MethodKinds DEF JniRefuses, AbiRefuses, TextsOf
<1> QED
  BY <1>1, <1>2, <1>3

\* What the manager returns is a code and a value.
LEMMA RepliesFit ==
  ASSUME NEW m \in Methods \ {"setTransfersSuspended", "areTransfersSuspended"},
         NEW args, NEW x \in Replies(m, args)
  PROVE  /\ x = <<x[1], x[2]>>
         /\ x[1] \in Ok..Duplicate
         /\ x[1] = InvalidTorrent => m \in Starts
         /\ m = "getActiveTorrentIds" => InBlocks(x[2])
<1> USE DEF Ok, Invalid, NotFound, LimitReached, InvalidTorrent, IoError, NativeError,
            Duplicate
<1>1. CASE m \in ConfigMethods
  <2>1. x \in {Ok, NativeError} \X {Nothing} \/ x = <<Invalid, Nothing>>
    BY <1>1, MethodKinds DEF Replies, ConfigMethods, Changes
  <2> QED
    BY <1>1, <2>1 DEF ConfigMethods
<1>2. CASE m \in Starts
  <2>1. \/ x = <<Invalid, Nothing>> \/ x = <<Ok, <<"int", 1>>>>
        \/ x \in StartFailures(m) \X {Nothing}
    BY <1>2, MethodKinds DEF Replies, Starts, Changes
  <2> QED
    BY <1>2, <2>1 DEF StartFailures, Starts
<1>3. CASE m \in Changes
  <2>1. x \in {Ok, NotFound, NativeError} \X {Nothing}
    BY <1>3, MethodKinds DEF Replies, ConfigMethods, Starts, Changes
  <2> QED
    BY <1>3, <2>1 DEF Changes
<1>4. CASE m \in {"getActiveTorrentIds", "exists", "getState", "getTorrentInfo",
                  "getLastError"}
  <2>1. m \notin ConfigMethods /\ m \notin Starts /\ m \notin Changes
    BY <1>4 DEF ConfigMethods, Starts, Changes
  <2>2. \/ \E ids \in Ids : x = <<Ok, <<"ids", ids>>>>
        \/ m # "getActiveTorrentIds" /\ \E v : x = <<Ok, v>>
        \/ m # "getActiveTorrentIds" /\ x = <<NotFound, Nothing>>
    <3>1. CASE m = "getActiveTorrentIds"
      BY <2>1, <3>1 DEF Replies
    <3>2. CASE m = "exists"
      BY <2>1, <3>2 DEF Replies
    <3>3. CASE m = "getState"
      BY <2>1, <3>3 DEF Replies
    <3>4. CASE m = "getTorrentInfo"
      BY <2>1, <3>4 DEF Replies
    <3>5. CASE m = "getLastError"
      BY <2>1, <3>5 DEF Replies
    <3> QED
      BY <1>4, <3>1, <3>2, <3>3, <3>4, <3>5
  <2> QED
    BY <2>2 DEF InBlocks
<1> QED
  BY <1>1, <1>2, <1>3, <1>4 DEF Methods, IdMethods

\* A config that an Apple adapter accepts, the C ABI and the manager accept.
LEMMA AppleConfigTaken ==
  ASSUME NEW r \in Requests, NEW args, Called("apple", r, args),
         r.method \in ConfigMethods
  PROVE  /\ ~AbiRefuses(r.method, args)
         /\ IsValidConfig(Forwarded(r.method, args)[1])
<1> DEFINE m == Arg(r, "config")[2]
           agent == Given(m).userAgent
<1>1. ~RefusesConfig("apple", r)
  BY DEF Called, Refuses
<1>2. ~ConfigMissing("apple", r) /\ IsMap(Arg(r, "config"))
  BY <1>1 DEF RefusesConfig, Called, NeedsNoCall, ConfigMethods
<1>3. ~NotConvertible(m) /\ IsValidConfig(Given(m))
  BY <1>1, <1>2 DEF RefusesConfig, AppleRefusesConfig
<1>4. args = <<ConfigFromMap(m)>>
  BY MethodKinds DEF Called, NativeArguments
<1>5. Forwarded(r.method, args) = <<Given(m)>>
  BY <1>3, <1>4, MethodKinds, ConfigPassedOn DEF Forwarded
<1>6. agent \in Seq(Byte) /\ ~HasNul(agent) /\ WellFormed(agent)
  <2>1. agent = IF "userAgent" \in DOMAIN m THEN m["userAgent"][2] ELSE DefaultAgent
    BY DEF Given, DefaultConfig
  <2>2. CASE "userAgent" \in DOMAIN m
    <3>1. IsText(m["userAgent"]) /\ ~HasNul(m["userAgent"][2])
      BY <1>3, <2>2 DEF NotConvertible, IsConfigAgent
    <3>2. m["userAgent"] \in TextArguments(r)
      BY <1>2, <2>2 DEF TextArguments
    <3> QED
      BY <2>1, <2>2, <3>1, <3>2, RequestAssumption DEF Called, Arrives
  <2>3. CASE "userAgent" \notin DOMAIN m
    BY <2>1, <2>3, AgentAssumption
  <2> QED
    BY <2>2, <2>3
<1>7. TextsOf(r.method, args) = {agent}
  <2>1. ConfigFromMap(m).userAgent = agent
    BY DEF ConfigFromMap, DefaultConfig, NarrowFields
  <2> QED
    BY <1>4, <2>1, MethodKinds DEF TextsOf
<1>8. ~AbiRefuses(r.method, args)
  BY <1>6, <1>7, DecoderDecides, CStringKeeps DEF AbiRefuses
<1> QED
  BY <1>3, <1>5, <1>8

\* The names of bad arguments are read as their categories.
LEMMA BlameNamed ==
  ASSUME NEW m
  PROVE  Category(InvalidName(m)) = Blame(m)
BY DEF InvalidName, Category, Blame, ConfigMethods

\* On every platform a code reaches the application as a category that the
\* code promises, whichever of the three spellings it travels in.
LEMMA ErrorFits ==
  ASSUME NEW p, NEW c \in Invalid..Duplicate, NEW m,
         c = InvalidTorrent => m \in Starts,
         c = Invalid /\ p = "apple" => m \notin ConfigMethods
  PROVE  Category(IF p = "apple" THEN AppleName(c, m) ELSE ErrorCode(c, m))
           \in Promised(c, m)
<1> DEFINE name == IF p = "apple" THEN AppleName(c, m) ELSE ErrorCode(c, m)
<1> USE DEF Ok, Invalid, NotFound, LimitReached, InvalidTorrent, IoError, NativeError,
            Duplicate
<1>1. CASE c = Invalid
  <2>1. CASE p = "apple"
    <3>1. name = "invalidArgument"
      BY <1>1, <2>1 DEF AppleName, ResultName
    <3> QED
      BY <1>1, <2>1, <3>1 DEF Category, Promised, Blames
  <2>2. CASE p # "apple"
    <3>1. name = InvalidName(m)
      BY <1>1, <2>2 DEF ErrorCode
    <3> QED
      BY <1>1, <3>1, BlameNamed DEF Promised, Blames
  <2> QED
    BY <2>1, <2>2
<1>2. CASE c = InvalidTorrent
  <2>1. name = InvalidName(m)
    BY <1>2 DEF AppleName, ErrorCode
  <2> QED
    BY <1>2, <2>1, BlameNamed DEF Promised
<1>3. CASE c = NotFound
  <2>1. name \in {"notFound", "torrent_not_found"}
    BY <1>3 DEF AppleName, ResultName, ErrorCode
  <2> QED
    BY <1>3, <2>1 DEF Category, Promised
<1>4. CASE c = LimitReached
  <2>1. name \in {"limitReached", "torrent_limit_reached"}
    BY <1>4 DEF AppleName, ResultName, ErrorCode
  <2> QED
    BY <1>4, <2>1 DEF Category, Promised
<1>5. CASE c = IoError
  <2>1. name \in {"ioError", "io_error"}
    BY <1>5 DEF AppleName, ResultName, ErrorCode
  <2> QED
    BY <1>5, <2>1 DEF Category, Promised
<1>6. CASE c = NativeError
  <2>1. name \in {"nativeError", "native_error"}
    BY <1>6 DEF AppleName, ResultName, ErrorCode
  <2> QED
    BY <1>6, <2>1 DEF Category, Promised
<1>7. CASE c = Duplicate
  <2>1. name \in {"duplicateTorrent", "duplicate_torrent"}
    BY <1>7 DEF AppleName, ResultName, ErrorCode
  <2> QED
    BY <1>7, <2>1 DEF Category, Promised
<1> QED
  BY <1>1, <1>2, <1>3, <1>4, <1>5, <1>6, <1>7

LEMMA FittingInit == Init => Fitting
BY DEF Init, Fitting, Copying

\* What the adapters put in the place of an ill-formed text is well-formed.
LEMMA SubstitutesWellFormed == WellFormed(<<>>) /\ WellFormed(Replaced)
<1>1. WellFormed(<<>>)
  <2>1. IsUtf8(<<>>) /\ <<>> \in Seq(Byte)
    BY EmptyTextTaken, CStringKeeps
  <2> QED
    BY <2>1, DecoderDecides
<1>2. Replaced \in Seq(Byte) /\ Len(Replaced) = 3
  BY DEF Replaced, Byte
<1>3. PICK g : IsScan(g, 3, Accepted(Replaced), Steps(Replaced)) /\ IsUtf8(Replaced) = g[1]
  BY <1>2, DecoderScans
<1>4. Accepted(Replaced)[1] = TRUE /\ Steps(Replaced)[1] = 3
  <2>1. /\ Replaced[1] = 239 /\ At(Replaced, 1 + 1) = 191 /\ At(Replaced, 1 + 2) = 189
        /\ At(Replaced, 1 + 3) = 0
    BY <1>2 DEF Replaced, At
  <2>2. Continuations(239) = 2
    BY DEF Continuations
  <2>3. Accepts(239, 191, 189, 0) = TRUE
    BY <2>2 DEF Accepts, IsThreeByte, IsContinuation
  <2> QED
    BY <1>2, <2>1, <2>2, <2>3 DEF Accepted, Steps
<1>5. g[1] = TRUE
  <2> DEFINE found(i) == i <= 3 => Accepted(Replaced)[i] /\ g[i + Steps(Replaced)[i]]
  <2>1. g = [i \in 1..3 + 1 |-> found(i)]
    BY <1>3 DEF IsScan
  <2>2. found(4) = TRUE
    OBVIOUS
  <2>3. g[4] = TRUE
    <3> HIDE DEF found
    <3> QED
      BY <2>1, <2>2
  <2>4. found(1) = TRUE
    BY <1>4, <2>3
  <2> HIDE DEF found
  <2> QED
    BY <2>1, <2>4
<1>6. WellFormed(Replaced)
  BY <1>2, <1>3, <1>5, DecoderDecides
<1> QED
  BY <1>1, <1>6

\* A text as the adapter reads it fits the one the manager gave, and only on
\* Windows may it be ill-formed.
LEMMA TextRead ==
  ASSUME NEW p, NEW t
  PROVE  /\ WellFormed(FromCString(p, t)) => TextFits(FromCString(p, t), t)
         /\ ~WellFormed(FromCString(p, t)) => p = "windows" /\ ~WellFormed(CString(t))
BY SubstitutesWellFormed DEF FromCString, TextFits

\* A value that Dart decodes fits the manager's.
LEMMA ValueRead ==
  ASSUME NEW p, NEW v,
         \A t \in ValueTexts(ReadValue(p, v)) : WellFormed(t)
  PROVE  ValueFits(ReadValue(p, v), v)
<1> DEFINE read == ReadValue(p, v)
<1>1. CASE v[1] \in {"text", "error"}
  <2>1. read = <<v[1], FromCString(p, v[2])>>
    BY <1>1 DEF ReadValue
  <2>2. WellFormed(FromCString(p, v[2]))
    BY <1>1, <2>1 DEF ValueTexts
  <2> QED
    BY <1>1, <2>1, <2>2, TextRead DEF ValueFits
<1>2. CASE v[1] = "info"
  <2>1. read = <<"info", [k \in InfoBlocks |-> FromCString(p, v[2][k])]>>
    BY <1>2 DEF ReadValue
  <2>2. ValueTexts(read) = {FromCString(p, v[2][k]) : k \in InfoBlocks}
    BY <2>1 DEF ValueTexts
  <2>3. \A k \in InfoBlocks : TextFits(FromCString(p, v[2][k]), v[2][k])
    BY <2>2, TextRead
  <2> QED
    BY <1>2, <2>1, <2>3 DEF ValueFits
<1>3. CASE v[1] \notin {"text", "error", "info"}
  BY <1>3 DEF ReadValue, ValueFits
<1> QED
  BY <1>1, <1>2, <1>3

\* One that Dart does not decode is from Windows and has an ill-formed text.
LEMMA ValueNotRead ==
  ASSUME NEW p, NEW v,
         ~ \A t \in ValueTexts(ReadValue(p, v)) : WellFormed(t)
  PROVE  p = "windows" /\ \E t \in ValueTexts(v) : ~WellFormed(CString(t))
<1> DEFINE read == ReadValue(p, v)
<1>1. CASE v[1] \in {"text", "error"}
  <2>1. read = <<v[1], FromCString(p, v[2])>>
    BY <1>1 DEF ReadValue
  <2>2. ~WellFormed(FromCString(p, v[2]))
    BY <1>1, <2>1 DEF ValueTexts
  <2> QED
    BY <1>1, <2>2, TextRead DEF ValueTexts
<1>2. CASE v[1] = "info"
  <2>1. read = <<"info", [k \in InfoBlocks |-> FromCString(p, v[2][k])]>>
    BY <1>2 DEF ReadValue
  <2>2. ValueTexts(read) = {FromCString(p, v[2][k]) : k \in InfoBlocks}
    BY <2>1 DEF ValueTexts
  <2>3. PICK k \in InfoBlocks : ~WellFormed(FromCString(p, v[2][k]))
    BY <2>2
  <2> QED
    BY <1>2, <2>3, TextRead DEF ValueTexts
<1>3. CASE v[1] \notin {"text", "error", "info"}
  BY <1>3 DEF ReadValue, ValueTexts
<1> QED
  BY <1>1, <1>2, <1>3

\* An answer carries what the manager returned, or says that it is lost.
LEMMA SuccessFits ==
  ASSUME NEW p, NEW v, NEW told, told = Decoded(ReadValue(p, v))
  PROVE  \/ told[1] = "success" /\ ValueFits(told[2], v)
         \/ /\ told = <<"error", "undecodable">> /\ p = "windows"
            /\ \E t \in ValueTexts(v) : ~WellFormed(CString(t))
<1>1. CASE \A t \in ValueTexts(ReadValue(p, v)) : WellFormed(t)
  BY <1>1, ValueRead DEF Decoded, Success
<1>2. CASE ~ \A t \in ValueTexts(ReadValue(p, v)) : WellFormed(t)
  BY <1>2, ValueNotRead DEF Decoded, Error
<1> QED
  BY <1>1, <1>2

\* Every answer fits what the manager returned, and only a call that is not
\* in order is blamed before it reaches the manager.
LEMMA FittingStep ==
  ASSUME Fitting, Carried, Owned, [Next]_vars
  PROVE  Fitting'
<1>1. CASE Create
  BY <1>1 DEF Fitting, Copying, ReplyFits, AnswerFits, Create, sent, request
<1>2. ASSUME NEW r \in Requests, Send(r) PROVE Fitting'
  BY <1>2 DEF Fitting, Copying, Send, sent
<1>3. platform \in {"android", "windows", "apple"}
  BY CallAssumption DEF Carried
<1>4. CASE RefuseUninitialised
  BY <1>4 DEF Fitting, Copying, RefuseUninitialised, Tell, request, sent, AnswerFits, Error
<1>5. CASE RefuseArguments
  <2>1. ~IsSound(call)
    BY <1>3, <1>5, SoundAccepted DEF RefuseArguments
  <2>2. AnswerFits'
    <3>1. /\ manager = "up" /\ ~reached /\ UNCHANGED <<call, manager, reached>>
          /\ answer' = <<"error", IF call.method \in ConfigMethods THEN "invalidConfig"
                                  ELSE "invalidArgument">>
      BY <1>5 DEF Fitting, RefuseArguments, Tell, request, sent, Error
    <3>2. answer'[2] \in Blames(call.method)
      <4>1. CASE call.method \in ConfigMethods
        <5>1. Blame(call.method) = "invalidConfig"
          BY <4>1 DEF Blame, ConfigMethods
        <5> QED
          BY <3>1, <4>1, <5>1 DEF Blames
      <4>2. CASE call.method \notin ConfigMethods
        BY <3>1, <4>2 DEF Blames
      <4> QED
        BY <4>1, <4>2
    <3> QED
      BY <2>1, <3>1, <3>2 DEF AnswerFits
  <2> QED
    BY <1>5, <2>2 DEF Fitting, Copying, RefuseArguments, Tell, request, sent
<1>6. CASE SucceedAtOnce
  <2>1. AnswerFits'
    BY <1>6 DEF Fitting, SucceedAtOnce, NeedsNoCall, Tell, request, sent, AnswerFits, Success
  <2> QED
    BY <1>6, <2>1 DEF Fitting, Copying, SucceedAtOnce, Tell, request, sent
<1>7. CASE CallNative
  <2>1. /\ pc = "decode"
        /\ UNCHANGED <<platform, call, manager, reached, reply, copied, answer>>
        /\ \/ /\ code' = Invalid /\ pc' = "returned" /\ platform = "android"
              /\ JniRefuses(call.method, NativeArguments(platform, call))
           \/ pc' = "enter"
        /\ manager = "up" /\ ~NeedsNoCall(platform, call)
    BY <1>7 DEF CallNative, request
  <2>2. pc' = "returned" => ~IsSound(call)
    BY <1>3, <2>1, SoundTaken DEF Fitting
  <2> QED
    BY <2>1, <2>2 DEF Fitting, Copying, BlameFits
<1>8. CASE EnterAbi
  <2>1. /\ pc = "enter" /\ UNCHANGED <<platform, call, manager, reply, copied, answer>>
        /\ \/ /\ code' = Invalid /\ pc' = "returned" /\ UNCHANGED reached
              /\ AbiRefuses(call.method, native)
           \/ /\ reached' = TRUE /\ pc' = "manage"
              /\ received' = Forwarded(call.method, native)
    BY <1>8 DEF EnterAbi, request
  <2>2. Called(platform, call, native) /\ call \in Requests
    BY <2>1 DEF Carried
  <2>3. pc' = "returned" => ~IsSound(call)
    <3>1. native = NativeArguments(platform, call) /\ ~NeedsNoCall(platform, call)
      BY <2>2 DEF Called
    <3> QED
      BY <1>3, <2>1, <2>2, <3>1, SoundTaken
  <2>4. platform = "apple" /\ call.method \in ConfigMethods =>
          /\ ~AbiRefuses(call.method, native)
          /\ IsValidConfig(Forwarded(call.method, native)[1])
    BY <2>2, AppleConfigTaken
  <2> QED
    BY <2>1, <2>3, <2>4 DEF Fitting, Copying, BlameFits
<1>9. CASE Manage
  <2>1. /\ pc = "manage" /\ UNCHANGED <<platform, call, manager, reached, copied, answer>>
        /\ code' = reply'[1]
        /\ pc' = IF code' = Ok THEN "copy" ELSE "returned"
    BY <1>9 DEF Manage, request, sent
  <2>2. call \in Requests /\ call.method \in Methods
    BY <2>1, RequestAssumption DEF Fitting
  <2>3. ReplyFits'
    <3>1. CASE call.method = "setTransfersSuspended"
      <4>1. reply' \in {<<Ok, Nothing>>, <<NativeError, Nothing>>}
        BY <1>9, <3>1 DEF Manage, SetTransfersSuspended
      <4> QED
        BY <2>1, <3>1, <4>1 DEF ReplyFits, Ok, NativeError, InvalidTorrent, Duplicate
    <3>2. CASE call.method = "areTransfersSuspended"
      <4>1. reply' \in {<<Ok, <<"bool", suspended>>>>, <<NativeError, Nothing>>}
        BY <1>9, <3>2 DEF Manage, TransfersSuspended
      <4> QED
        BY <2>1, <3>2, <4>1 DEF ReplyFits, Ok, NativeError, InvalidTorrent, Duplicate
    <3>3. CASE call.method \notin {"setTransfersSuspended", "areTransfersSuspended"}
      <4>1. reply' \in Replies(call.method, received)
        BY <1>9, <3>3 DEF Manage
      <4> QED
        BY <2>1, <2>2, <3>3, <4>1, RepliesFit DEF ReplyFits
    <3> QED
      BY <3>1, <3>2, <3>3
  <2>4. code' = Invalid => BlameFits
    <3>1. SUFFICES ASSUME platform = "apple", call.method \in ConfigMethods
                   PROVE  code' # Invalid
      BY DEF BlameFits
    <3>2. IsValidConfig(received[1])
      BY <2>1, <3>1 DEF Fitting
    <3>3. reply' \in {Ok, NativeError} \X {Nothing}
      <4>1. reply' \in Replies(call.method, received)
        BY <1>9, <3>1 DEF Manage, ConfigMethods
      <4> QED
        BY <3>1, <3>2, <4>1, MethodKinds DEF Replies, ConfigMethods, Changes
    <3> QED
      BY <2>1, <3>3 DEF Ok, NativeError, Invalid
  <2> QED
    BY <2>1, <2>3, <2>4 DEF Fitting, Copying, BlameFits
<1>10. CASE Copy
  <2>1. PICK failed \in SUBSET BlocksOf(reply[2]) :
          pc' = IF failed = {} THEN "returned" ELSE "discard"
    BY <1>10 DEF Copy
  <2>2. pc = "copy"
        /\ UNCHANGED <<platform, call, manager, reached, reply, code, copied, answer>>
    BY <1>10 DEF Copy, request, sent
  <2>3. code = Ok
    BY <2>2 DEF Owned
  <2>4. failed # {} => InBlocks(reply[2])
    BY DEF BlocksOf, InBlocks
  <2> QED
    BY <2>1, <2>2, <2>3, <2>4 DEF Fitting, Copying, ReplyFits, BlameFits, Ok, Invalid
<1>11. CASE Discard
  BY <1>11 DEF Fitting, Copying, ReplyFits, Discard, request, sent
<1>12. CASE FailIntArray
  <2>1. /\ pc = "returned" /\ UNCHANGED pc /\ code = Ok /\ code' = NativeError
        /\ call.method = "getActiveTorrentIds"
        /\ UNCHANGED <<platform, call, manager, reached, reply, copied, answer>>
    BY <1>12 DEF FailIntArray, request, sent
  <2>2. reached /\ reply[1] = Ok
    BY <2>1 DEF Fitting, Ok, Invalid, NativeError
  <2>3. InBlocks(reply[2])
    BY <2>1, <2>2 DEF Fitting, Copying, ReplyFits
  <2> QED
    BY <2>1, <2>2, <2>3 DEF Fitting, Copying, ReplyFits
<1>13. CASE Read
  <2>1. /\ pc = "returned" /\ pc' = "read" /\ code = Ok
        /\ UNCHANGED <<platform, call, manager, reached, reply, code, answer>>
        /\ copied' = IF BlocksOf(reply[2]) \subseteq out
                     THEN ReadValue(platform, reply[2]) ELSE Nothing
    BY <1>13 DEF Read, request, sent
  <2>2. reached /\ reply[1] = Ok
    BY <2>1 DEF Fitting, Ok, Invalid, NativeError
  <2>3. copied' = ReadValue(platform, reply[2])
    BY <2>1 DEF Owned
  <2> QED
    BY <2>1, <2>2, <2>3 DEF Fitting, Copying, ReplyFits
<1>14. CASE Release
  <2>1. /\ pc \in {"read", "answered"}
        /\ pc' = IF pc = "answered" THEN "told" ELSE "released"
        /\ UNCHANGED <<platform, call, manager, reached, reply, code, copied, answer>>
    BY <1>14 DEF Release, AnswersFirst, request, sent
  <2>2. pc = "answered" => AnswerFits'
    <3>1. pc = "answered" => AnswerFits
      BY SuccessFits DEF Fitting, Copying, AnswerFits, AnswerIsLost
    <3> QED
      BY <2>1, <3>1 DEF AnswerFits, AnswerIsLost
  <2> QED
    BY <2>1, <2>2 DEF Fitting, Copying, ReplyFits
<1>15. CASE AnswerSuccess
  <2>1. /\ pc \in {"read", "released"}
        /\ pc' = (IF AnswersFirst THEN "answered" ELSE "told")
        /\ answer' = Decoded(copied)
        /\ UNCHANGED <<platform, call, manager, reached, reply, code, copied>>
    BY <1>15 DEF AnswerSuccess, AnswersFirst, request, sent
  <2>2. /\ manager = "up" /\ reached /\ ReplyFits /\ reply[1] = Ok
        /\ answer' = Decoded(ReadValue(platform, reply[2]))
    BY <2>1 DEF Fitting, Copying
  <2>3. AnswerFits'
    <3>1. \/ answer'[1] = "success" /\ ValueFits(answer'[2], reply[2])
          \/ /\ answer' = <<"error", "undecodable">> /\ platform = "windows"
             /\ \E t \in ValueTexts(reply[2]) : ~WellFormed(CString(t))
      BY <2>2, SuccessFits
    <3> QED
      BY <2>1, <2>2, <3>1 DEF AnswerFits, AnswerIsLost
  <2> QED
    BY <2>1, <2>2, <2>3 DEF Fitting, Copying, ReplyFits
<1>16. CASE AnswerError
  <2> DEFINE category == Category(IF platform = "apple" THEN AppleName(code, call.method)
                                  ELSE ErrorCode(code, call.method))
  <2>1. /\ pc = "returned" /\ pc' = "told" /\ code # Ok /\ answer' = Error(category)
        /\ UNCHANGED <<platform, call, manager, reached, reply, code, copied>>
    BY <1>16 DEF AnswerError, Tell, request, sent
  <2> HIDE DEF category
  <2>2. manager = "up" /\ answer'[1] = "error" /\ answer'[2] = category
    BY <2>1 DEF Fitting, Error
  <2>3. CASE ~reached
    <3>1. code = Invalid /\ ~IsSound(call) /\ BlameFits
      BY <2>1, <2>3 DEF Fitting
    <3>2. category \in Promised(Invalid, call.method)
      BY <3>1, ErrorFits DEF category, Invalid, InvalidTorrent, Duplicate, BlameFits
    <3>3. category \in Blames(call.method)
      BY <3>2 DEF Promised, Invalid, InvalidTorrent, NotFound, LimitReached, IoError,
                  Duplicate
    <3>4. AnswerFits'
      BY <2>1, <2>2, <2>3, <3>1, <3>3 DEF AnswerFits
    <3> QED
      BY <2>1, <2>2, <3>4 DEF Fitting, Copying
  <2>4. CASE reached /\ reply[1] # Ok
    <3>1. code = reply[1] /\ ReplyFits /\ (code = Invalid => BlameFits)
      BY <2>1, <2>4 DEF Fitting, Copying
    <3>2. category \in Promised(reply[1], call.method)
      BY <2>4, <3>1, ErrorFits DEF category, ReplyFits, Ok, Invalid, Duplicate, BlameFits
    <3>3. AnswerFits'
      BY <2>1, <2>2, <2>4, <3>2 DEF AnswerFits
    <3> QED
      BY <2>1, <2>2, <3>3 DEF Fitting, Copying
  <2>5. CASE reached /\ reply[1] = Ok
    <3>1. code = NativeError /\ InBlocks(reply[2])
      BY <2>1, <2>5 DEF Fitting
    <3>2. category \in Promised(NativeError, call.method)
      BY <3>1, ErrorFits DEF category, Invalid, InvalidTorrent, NativeError, Duplicate
    <3>3. category = "nativeError"
      BY <3>2 DEF Promised, Invalid, InvalidTorrent, NotFound, LimitReached, IoError,
                  Duplicate, NativeError
    <3>4. AnswerFits'
      BY <2>1, <2>2, <2>5, <3>1, <3>3 DEF AnswerFits, AnswerIsLost, InBlocks
    <3> QED
      BY <2>1, <2>2, <3>4 DEF Fitting, Copying
  <2> QED
    BY <2>3, <2>4, <2>5
<1>17. CASE Forget
  BY <1>17 DEF Fitting, Copying, Forget
<1>18. CASE EncodingThrows
  BY <1>18 DEF Fitting, Copying, EncodingThrows, request, sent
<1>19. CASE UNCHANGED vars
  BY <1>19 DEF vars, Fitting, Copying, ReplyFits, BlameFits, AnswerFits, AnswerIsLost
<1> QED
  BY <1>1, <1>2, <1>4, <1>5, <1>6, <1>7, <1>8, <1>9, <1>10, <1>11, <1>12, <1>13, <1>14,
     <1>15, <1>16, <1>17, <1>18, <1>19 DEF Next, Decode, Abi, Finish

\* What the application is told of a call is true, on every platform and for
\* every request: a success is the manager's, with its value, each text whole
\* if it is well-formed and without NUL, and otherwise cut, emptied or marked;
\* an error has the category of the manager's code, or says that the answer
\* was lost; and no call in order is blamed.
THEOREM AnswersAreTruthful == Spec => []Truthful
<1>1. Fitting => Truthful
  BY DEF Fitting, Truthful
<1> QED
  BY FittingInit, FittingStep, CarriedInit, CarriedStep, OwnedInit, OwnedStep, <1>1,
     PTL DEF Spec
=============================================================================

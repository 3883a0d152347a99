----------------------------- MODULE MethodCalls -----------------------------
(***************************************************************************)
(* One method call from the application to the native manager and back:    *)
(* the adapter of the platform decodes what the channel brought, the C ABI *)
(* checks it, the manager answers, the C ABI copies the answer to blocks   *)
(* the adapter owns, and the adapter answers the application.              *)
(*                                                                         *)
(* A channel value is a tagged tuple, a text the sequence of its bytes.    *)
(* Channel input is not trusted, so a call may lack an argument or have    *)
(* one of another type.  The manager is here what its contract says: the   *)
(* other modules are about how it comes to its answers, and the modules of *)
(* the plugins about the queue that finalise takes on its way to it.       *)
(***************************************************************************)
EXTENDS Integers, Sequences, FiniteSets, Utf8

CONSTANTS
  Platforms,           \* among "android", "windows", "apple"
  Requests,            \* method calls, each [method, arguments]
  Int32Max,            \* INT32_MAX; the ranges below are scaled with it
  MaxTorrents,         \* largest maxTorrents (10000)
  MaxConnections,      \* largest connectionsLimit (100000)
  DefaultTorrents, DefaultConnections, DefaultAgent,  \* 20, 200, "simple_..."
  Ids,                 \* answers of ActiveIds
  LibraryTexts         \* names and messages that libtorrent makes

ASSUME CallAssumption ==
  /\ Platforms \subseteq {"android", "windows", "apple"}
  /\ Int32Max \in Nat \ {0}
  /\ MaxTorrents \in 1..Int32Max /\ MaxConnections \in 1..Int32Max
  /\ DefaultTorrents \in 1..MaxTorrents
  /\ DefaultConnections \in 1..MaxConnections
  /\ LibraryTexts \subseteq Seq(Byte)

VARIABLES
  platform,   \* where the application runs
  manager,    \* "none" until created, then "up", or no creation: "failed",
              \* or "thrown" by an exception
  pluginRef,  \* Android: the global reference to the plugin is held
  suspended,  \* the libtorrent session is paused
  call, pc,   \* the method call under way and how far it is
  native,     \* its arguments as passed to the C ABI
  reached, received,  \* history: the manager was called, and with what
  reply,      \* history: what the manager returned: <<code, value>>
  code,       \* what the C ABI returned
  heap,       \* blocks allocated for the call
  out,        \* blocks its out parameters point to
  copied,     \* what the adapter read from them
  answer,     \* what the application was told
  believed    \* what it knows of the session: suspended, running, unknown

request == <<platform, call>>
sent    == <<native, reached, received>>
blocks  == <<heap, out>>
vars == <<platform, manager, pluginRef, suspended, call, pc, native, reached,
          received, reply, code, heap, out, copied, answer, believed>>

ConfigMethods == {"init", "updateConfig"}
Starts        == {"start", "startFromData", "startFromFile"}
Changes       == {"pause", "resume", "cancel", "finalise"}
IdMethods     == Changes \union {"exists", "getState", "getTorrentInfo",
                                 "getLastError"}
Methods == ConfigMethods \union Starts \union IdMethods
             \union {"setTransfersSuspended", "areTransfersSuspended",
                     "getActiveTorrentIds"}
InfoBlocks    == {"magnetUri", "savePath", "displayName", "lastError"}

Ok == 0   Invalid == 1   NotFound == 2   LimitReached == 3
InvalidTorrent == 4   IoError == 5   NativeError == 6   Duplicate == 7

Nothing   == <<"nothing">>
NoRequest == [method |-> "none", arguments |-> <<"null">>]

Init ==
  /\ platform \in Platforms
  /\ manager = "none" /\ pluginRef = FALSE /\ suspended = FALSE
  /\ call = NoRequest /\ pc = "idle"
  /\ native = <<>> /\ reached = FALSE /\ received = <<>>
  /\ reply = <<Ok, Nothing>> /\ code = Ok
  /\ heap = {} /\ out = {} /\ copied = Nothing
  /\ answer = Nothing /\ believed = "unknown"

-----------------------------------------------------------------------------
(* Channel values                                                          *)

Absent == <<"absent">>
Null   == <<"null">>
IsText(v) == v[1] = "text"
IsInt(v)  == v[1] = "int"
IsBool(v) == v[1] = "bool"
IsMap(v)  == v[1] = "map"

\* Find: an argument of a call whose arguments are a map.
Arg(r, key) ==
  IF IsMap(r.arguments) /\ key \in DOMAIN r.arguments[2]
  THEN r.arguments[2][key] ELSE Absent

\* The arguments that may be texts.
TextArguments(r) ==
  LET config == Arg(r, "config")
      agent  == IF IsMap(config) /\ "userAgent" \in DOMAIN config[2]
                THEN config[2]["userAgent"] ELSE Absent
  IN  {agent} \union {Arg(r, k) : k \in {"magnet", "torrentFilePath",
                                        "destination", "displayName"}}

\* Channel booleans are booleans, and texts are bytes.
ASSUME RequestAssumption ==
  \A r \in Requests :
    /\ r.method \in Methods
    /\ IsBool(Arg(r, "suspended")) => Arg(r, "suspended")[2] \in BOOLEAN
    /\ \A v \in TextArguments(r) : IsText(v) => v[2] \in Seq(Byte)

HasNul(t) == \E i \in DOMAIN t : t[i] = 0

\* What a char* says of a text: all up to its first NUL.
CString(t) ==
  IF HasNul(t) THEN SubSeq(t, 1, CHOOSE n \in 0..Len(t) - 1 :
                                   t[n + 1] = 0 /\ ~HasNul(SubSeq(t, 1, n)))
  ELSE t

ASSUME AgentAssumption ==
  DefaultAgent \in Seq(Byte) /\ ~HasNul(DefaultAgent) /\ WellFormed(DefaultAgent)

\* isBlank: nothing but white space (space stands for it).
IsBlank(t) == \A i \in DOMAIN t : t[i] = 32

\* static_cast<int32_t>.
Narrow(n) == ((n + Int32Max + 1) % (2 * (Int32Max + 1))) - (Int32Max + 1)
Int32 == -(Int32Max + 1)..Int32Max

SourceKey(m) == CASE m = "start" -> "magnet"
                  [] m = "startFromData" -> "data"
                  [] m = "startFromFile" -> "torrentFilePath"

-----------------------------------------------------------------------------
(* Decoding in the adapters                                                *)

\* Numbers and texts with a member missing in a config map keep the default.
DefaultConfig ==
  [maxTorrents |-> DefaultTorrents, downloadRateLimit |-> 0,
   uploadRateLimit |-> 0, connectionsLimit |-> DefaultConnections,
   enableDht |-> TRUE, userAgent |-> DefaultAgent]

Given(m) == [k \in DOMAIN DefaultConfig |->
               IF k \in DOMAIN m THEN m[k][2] ELSE DefaultConfig[k]]

NarrowFields == {"maxTorrents", "connectionsLimit"}
RateFields   == {"downloadRateLimit", "uploadRateLimit"}

\* ConfigFromMap: the C struct, and what it refuses to convert.
ConfigFromMap(m) == [k \in DOMAIN DefaultConfig |->
                       IF k \in NarrowFields THEN Narrow(Given(m)[k])
                       ELSE Given(m)[k]]

IsConfigAgent(v)  == IsText(v) /\ ~HasNul(v[2])

\* A conversion that trusts the cast.
NotConvertibleUnchecked(m) ==
  \/ \E k \in DOMAIN m \intersect (NarrowFields \union RateFields) : ~IsInt(m[k])
  \/ "enableDht" \in DOMAIN m /\ ~IsBool(m["enableDht"])
  \/ "userAgent" \in DOMAIN m /\ ~IsConfigAgent(m["userAgent"])

NotConvertible(m) ==
  \/ \E k \in DOMAIN m \intersect NarrowFields : ~(IsInt(m[k]) /\ m[k][2] \in Int32)
  \/ \E k \in DOMAIN m \intersect RateFields : ~IsInt(m[k])
  \/ "enableDht" \in DOMAIN m /\ ~IsBool(m["enableDht"])
  \/ "userAgent" \in DOMAIN m /\ ~IsConfigAgent(m["userAgent"])

\* readConfig: all keys of a Kotlin config are texts, and no value is null.
NumberKey == "<number>"   \* stands for the keys that are no texts
AndroidRefusesConfig(m) ==
  \/ \E k \in DOMAIN m : k = NumberKey \/ m[k] = Null
  \/ NotConvertible(m)

\* ValidateConfig.
IsValidConfig(c) ==
  /\ c.maxTorrents \in 1..MaxTorrents
  /\ c.connectionsLimit \in 1..MaxConnections
  /\ c.downloadRateLimit \in 0..Int32Max /\ c.uploadRateLimit \in 0..Int32Max
  /\ c.userAgent # <<>>

\* validatedConfig: the Apple adapters test the ranges too, before the cast.
AppleRefusesConfig(m) == ~(~NotConvertible(m) /\ IsValidConfig(Given(m)))

\* Kotlin treats a null config like a missing one.
ConfigMissing(p, r) ==
  \/ Arg(r, "config") = Absent
  \/ p = "android" /\ Arg(r, "config") = Null

\* init without a config, or on Android with an empty one, does nothing.
NeedsNoCall(p, r) ==
  /\ r.method = "init"
  /\ IsMap(r.arguments) \/ r.arguments = Null
  /\ \/ ConfigMissing(p, r)
     \/ p = "android" /\ IsMap(Arg(r, "config")) /\ DOMAIN Arg(r, "config")[2] = {}

RefusesConfig(p, r) ==
  LET config == Arg(r, "config") IN
  \/ ~IsMap(r.arguments) /\ r.arguments # Null
  \/ ConfigMissing(p, r) /\ r.method = "updateConfig"
  \/ ~ConfigMissing(p, r) /\ ~IsMap(config)
  \/ IsMap(config) /\ CASE p = "apple" -> AppleRefusesConfig(config[2])
                        [] p = "android" -> AndroidRefusesConfig(config[2])
                        [] p = "windows" -> NotConvertible(config[2])

\* What start requires of its texts: each adapter's test.
WindowsText(v) == IsText(v) /\ v[2] # <<>> /\ ~HasNul(v[2])
AndroidText(v) == IsText(v) /\ ~IsBlank(v[2])
AppleText(v)   == IsText(v) /\ ~HasNul(v[2])
IsRequired(p, v) == CASE p = "windows" -> WindowsText(v)
                      [] p = "android" -> AndroidText(v)
                      [] p = "apple" -> AppleText(v)

WindowsOptional(v) == v = Absent \/ v = Null \/ (IsText(v) /\ ~HasNul(v[2]))
IsOptional(p, v) == CASE p = "windows" -> WindowsOptional(v)
                      [] p = "android" -> v = Absent \/ v = Null \/ IsText(v)
                      [] p = "apple" -> v = Absent \/ AppleText(v)

IsData(p, v) == v[1] = "bytes" /\ (v[2] # <<>> \/ p = "apple")

RefusesStart(p, r) ==
  \/ IF r.method = "startFromData" THEN ~IsData(p, Arg(r, "data"))
     ELSE ~IsRequired(p, Arg(r, SourceKey(r.method)))
  \/ ~IsRequired(p, Arg(r, "destination"))
  \/ ~IsOptional(p, Arg(r, "displayName"))

\* ReadId, withId and id(from:).
IsId(v) == IsInt(v) /\ v[2] \in 1..Int32Max

\* The method call the adapter answers without a native call.
Refuses(p, r) ==
  \/ r.method \in ConfigMethods /\ RefusesConfig(p, r)
  \/ r.method \in Starts /\ RefusesStart(p, r)
  \/ r.method = "setTransfersSuspended" /\ ~IsBool(Arg(r, "suspended"))
  \/ r.method \in IdMethods /\ ~IsId(Arg(r, "id"))

\* The Kotlin string a JNI function gets: UTF-16 that cannot be converted
\* becomes the empty string.
FromJavaString(t) == IF WellFormed(t) THEN t ELSE <<>>

Payload(p, v) == IF p = "android" /\ IsText(v) THEN FromJavaString(v[2]) ELSE v[2]

\* The arguments of the C function.  A text is still whole here.
NativeArguments(p, r) ==
  CASE r.method \in ConfigMethods -> <<ConfigFromMap(Arg(r, "config")[2])>>
    [] r.method \in Starts ->
         <<Payload(p, Arg(r, SourceKey(r.method))),
           Payload(p, Arg(r, "destination")),
           IF IsText(Arg(r, "displayName"))
           THEN Payload(p, Arg(r, "displayName")) ELSE <<>> >>
    [] r.method = "setTransfersSuspended" -> <<Arg(r, "suspended")[2]>>
    [] r.method \in IdMethods -> <<Narrow(Arg(r, "id")[2])>>
    [] OTHER -> <<>>

\* nativeStart and its like refuse what c_str() would cut off.
JniRefuses(m, args) ==
  \E i \in 1..3 : /\ m \in Starts /\ HasNul(args[i])
                  /\ ~(m = "startFromData" /\ i = 1)

-----------------------------------------------------------------------------
(* The C ABI                                                               *)

\* The arguments that are texts.
TextsOf(m, args) ==
  CASE m \in ConfigMethods -> {args[1].userAgent}
    [] m = "startFromData" -> {args[2], args[3]}
    [] m \in Starts \ {"startFromData"} -> {args[1], args[2], args[3]}
    [] OTHER -> {}

AbiRefuses(m, args) == \E t \in TextsOf(m, args) : ~IsUtf8(CString(t))

\* What the manager gets to see.
Forwarded(m, args) ==
  CASE m \in ConfigMethods -> <<[args[1] EXCEPT !.userAgent = CString(@)]>>
    [] m = "startFromData" -> <<args[1], CString(args[2]), CString(args[3])>>
    [] m \in Starts \ {"startFromData"} -> [i \in 1..3 |-> CString(args[i])]
    [] OTHER -> args

-----------------------------------------------------------------------------
(* The manager                                                             *)

\* The magnet link and the path are the application's; the name may come from
\* the metadata, and the error from an alert.
Infos == {[magnetUri |-> <<109>>, savePath |-> <<47>>, displayName |-> name,
           lastError |-> error] : name, error \in LibraryTexts}

StartFailures(m) ==
  {InvalidTorrent, LimitReached, Duplicate, NativeError}
    \union (IF m = "startFromFile" THEN {IoError} ELSE {})

\* What its operations may return, as <<code, value>>.
Replies(m, args) ==
  CASE m \in ConfigMethods ->
         IF IsValidConfig(args[1]) THEN {Ok, NativeError} \X {Nothing}
         ELSE {<<Invalid, Nothing>>}
    [] m \in Starts ->
         IF args[1] = <<>> \/ args[2] = <<>> THEN {<<Invalid, Nothing>>}
         ELSE {<<Ok, <<"int", 1>>>>} \union (StartFailures(m) \X {Nothing})
    [] m \in Changes -> {Ok, NotFound, NativeError} \X {Nothing}
    [] m = "getActiveTorrentIds" -> {<<Ok, <<"ids", ids>>>> : ids \in Ids}
    [] m = "exists" -> {<<Ok, <<"bool", b>>>> : b \in BOOLEAN}
    [] m = "getState" -> {<<Ok, <<"text", <<115>>>>>>, <<NotFound, Nothing>>}
    [] m = "getTorrentInfo" ->
         {<<Ok, <<"info", info>>>> : info \in Infos} \union {<<NotFound, Nothing>>}
    [] m = "getLastError" ->
         {<<Ok, <<"error", t>>>> : t \in LibraryTexts} \union {<<NotFound, Nothing>>}

\* One that takes the state it has for the state it wants.
SetTransfersSuspendedInverted(flag) ==
  /\ suspended' = IF suspended = flag THEN ~flag ELSE suspended
  /\ reply' = <<Ok, Nothing>>

\* SetTransfersSuspended: an exception may come before or after the change.
SetTransfersSuspended(flag) ==
  \/ suspended' = flag /\ reply' = <<Ok, Nothing>>
  \/ suspended' \in {suspended, flag} /\ reply' = <<NativeError, Nothing>>

TransfersSuspended ==
  /\ reply' \in {<<Ok, <<"bool", suspended>>>>, <<NativeError, Nothing>>}
  /\ UNCHANGED suspended

-----------------------------------------------------------------------------
(* Creation                                                                *)

\* Where nativeCreate gives up: an allocation may throw before it takes the
\* reference ("manager") or after it ("exception").
CreationFailures == {"manager", "vm", "reference", "methods", "caBundle",
                     "environment", "create", "exception"}
HoldReference == CreationFailures \ {"manager", "vm", "reference"}
\* The failures that end with DeleteGlobalRef; the catch has none.
ReleaseReference == {"methods", "caBundle", "environment", "create"}
Throws == {"manager", "exception"}

Create ==
  /\ manager = "none"
  /\ \/ manager' = "up" /\ pluginRef' = (platform = "android")
     \/ \E f \in (IF platform = "android" THEN CreationFailures ELSE {"create"}) :
          /\ manager' = IF f \in Throws THEN "thrown" ELSE "failed"
          /\ pluginRef' = (f \in HoldReference \ ReleaseReference
                             /\ platform = "android")
  /\ UNCHANGED <<request, suspended, pc, sent, reply, code, blocks, copied,
                 answer, believed>>

-----------------------------------------------------------------------------
(* A call                                                                  *)

\* Only Windows sees bytes: the Kotlin and Swift decoders make text of them.
Arrives(p, r) ==
  \A v \in TextArguments(r) : IsText(v) /\ p # "windows" => WellFormed(v[2])

Send(r) ==
  /\ pc = "idle" /\ manager # "none"
  /\ Arrives(platform, r)
  /\ call' = r /\ pc' = "decode"
  /\ UNCHANGED <<platform, manager, pluginRef, suspended, sent, reply, code,
                 blocks, copied, answer, believed>>

Tell(a) == answer' = a /\ pc' = "told"

Error(category)  == <<"error", category>>
Success(value)   == <<"success", value>>

RefuseUninitialised ==
  /\ pc = "decode" /\ manager \in {"failed", "thrown"}
  /\ Tell(Error("notInitialized"))
  /\ UNCHANGED <<request, manager, pluginRef, suspended, sent, reply, code,
                 blocks, copied, believed>>

RefuseArguments ==
  /\ pc = "decode" /\ manager = "up"
  /\ Refuses(platform, call)
  /\ Tell(Error(IF call.method \in ConfigMethods THEN "invalidConfig"
                ELSE "invalidArgument"))
  /\ UNCHANGED <<request, manager, pluginRef, suspended, sent, reply, code,
                 blocks, copied, believed>>

SucceedAtOnce ==
  /\ pc = "decode" /\ manager = "up"
  /\ NeedsNoCall(platform, call)
  /\ Tell(Success(Nothing))
  /\ UNCHANGED <<request, manager, pluginRef, suspended, sent, reply, code,
                 blocks, copied, believed>>

\* The adapter, with its JNI part, calls the C function or fails itself.
CallNative ==
  /\ pc = "decode" /\ manager = "up"
  /\ ~Refuses(platform, call) /\ ~NeedsNoCall(platform, call)
  /\ LET args == NativeArguments(platform, call) IN
       IF platform = "android" /\ JniRefuses(call.method, args)
       THEN code' = Invalid /\ pc' = "returned" /\ UNCHANGED native
       ELSE native' = args /\ pc' = "enter" /\ UNCHANGED code
  /\ UNCHANGED <<request, manager, pluginRef, suspended, reached, received,
                 reply, blocks, copied, answer, believed>>

EnterAbi ==
  /\ pc = "enter"
  /\ IF AbiRefuses(call.method, native)
     THEN code' = Invalid /\ pc' = "returned" /\ UNCHANGED <<reached, received>>
     ELSE /\ reached' = TRUE
          /\ received' = Forwarded(call.method, native)
          /\ pc' = "manage" /\ UNCHANGED code
  /\ UNCHANGED <<request, manager, pluginRef, suspended, native, reply, blocks,
                 copied, answer, believed>>

Manage ==
  /\ pc = "manage"
  /\ CASE call.method = "setTransfersSuspended" -> SetTransfersSuspended(received[1])
       [] call.method = "areTransfersSuspended" -> TransfersSuspended
       [] OTHER -> reply' \in Replies(call.method, received) /\ UNCHANGED suspended
  /\ code' = reply'[1]
  /\ pc' = IF code' = Ok THEN "copy" ELSE "returned"
  /\ UNCHANGED <<request, manager, pluginRef, sent, blocks, copied, answer,
                 believed>>

\* The blocks a value is returned in; an empty list needs none.
BlocksOf(value) ==
  CASE value[1] = "ids"   -> IF value[2] = <<>> THEN {} ELSE {"ids"}
    [] value[1] = "info"  -> InfoBlocks
    [] value[1] = "error" -> {"lastError"}
    [] OTHER -> {}

\* A release that forgets a block.
FreeButOne == heap' = heap \ (out \ {"displayName"}) /\ out' = {}

\* free() of what the out parameters point to, which are then reset.
Free == heap' = heap \ out /\ out' = {}

\* Each malloc of CopyString and its like may fail.
Copy ==
  /\ pc = "copy"
  /\ \E failed \in SUBSET BlocksOf(reply[2]) :
       /\ heap' = BlocksOf(reply[2]) \ failed
       /\ out' = heap'
       /\ pc' = IF failed = {} THEN "returned" ELSE "discard"
  /\ UNCHANGED <<request, manager, pluginRef, suspended, sent, reply, code,
                 copied, answer, believed>>

\* One block missing: the others go, and the call fails.
Discard ==
  /\ pc = "discard"
  /\ Free
  /\ code' = NativeError /\ pc' = "returned"
  /\ UNCHANGED <<request, manager, pluginRef, suspended, sent, reply, copied,
                 answer, believed>>

\* nativeActiveIds: the Java array cannot be made or filled.
FailIntArray ==
  /\ pc = "returned" /\ code = Ok
  /\ platform = "android" /\ call.method = "getActiveTorrentIds"
  /\ Free
  /\ code' = NativeError
  /\ UNCHANGED <<request, manager, pluginRef, suspended, pc, sent, reply,
                 copied, answer, believed>>

\* HandleMethodCall on Windows: encoding the value allocates while the call
\* holds its blocks, and the plugin catches nothing: the call ends without an
\* answer, and with its variables go the only pointers to the blocks.
EncodingThrows ==
  /\ pc = "returned" /\ code = Ok
  /\ platform = "windows"
  /\ call.method \in {"getActiveTorrentIds", "getTorrentInfo", "getLastError"}
  /\ out # {} /\ out' = {}
  /\ pc' = "thrown"
  /\ UNCHANGED <<request, manager, pluginRef, suspended, sent, reply, code,
                 heap, copied, answer, believed>>

\* A text with U+FFFD where its bytes were ill-formed; one stands for all.
Replaced == <<239, 191, 189>>

\* A char* as the adapter reads it.  ToJavaString makes an ill-formed text
\* empty, String(cString:) repairs it, and Windows takes bytes as they are.
FromCString(p, t) ==
  IF p = "windows" \/ WellFormed(CString(t)) THEN CString(t)
  ELSE IF p = "android" THEN <<>> ELSE Replaced

ReadValue(p, value) ==
  CASE value[1] \in {"text", "error"} -> <<value[1], FromCString(p, value[2])>>
    [] value[1] = "info" ->
         <<"info", [k \in InfoBlocks |-> FromCString(p, value[2][k])]>>
    [] OTHER -> value

Read ==
  /\ pc = "returned" /\ code = Ok
  /\ copied' = IF BlocksOf(reply[2]) \subseteq out THEN ReadValue(platform, reply[2])
               ELSE Nothing
  /\ pc' = "read"
  /\ UNCHANGED <<request, manager, pluginRef, suspended, sent, reply, code,
                 blocks, answer, believed>>

\* The Apple adapters answer before they release, the others after.
AnswersFirst == platform = "apple"

Release ==
  /\ pc = IF AnswersFirst THEN "answered" ELSE "read"
  /\ Free
  /\ pc' = IF AnswersFirst THEN "told" ELSE "released"
  /\ UNCHANGED <<request, manager, pluginRef, suspended, sent, reply, code,
                 copied, answer, believed>>

\* What an answer teaches of the session.
Learn(ok) ==
  believed' = CASE call.method = "setTransfersSuspended" /\ ~ok -> "unknown"
                [] call.method = "setTransfersSuspended" /\ ok ->
                     IF Arg(call, "suspended")[2] THEN "suspended" ELSE "running"
                [] OTHER -> believed

\* The texts of a value.
ValueTexts(value) ==
  CASE value[1] \in {"text", "error"} -> {value[2]}
    [] value[1] = "info" -> {value[2][k] : k \in InfoBlocks}
    [] OTHER -> {}

\* Dart's codec decodes no answer with an ill-formed text in it.
Decoded(value) ==
  IF \A t \in ValueTexts(value) : WellFormed(t) THEN Success(value)
  ELSE Error("undecodable")

AnswerSuccess ==
  /\ pc = IF AnswersFirst THEN "read" ELSE "released"
  /\ answer' = Decoded(copied)
  /\ pc' = IF AnswersFirst THEN "answered" ELSE "told"
  /\ Learn(TRUE)
  /\ UNCHANGED <<request, manager, pluginRef, suspended, sent, reply, code,
                 blocks, copied>>

-----------------------------------------------------------------------------
(* Errors on their way to the application                                  *)

InvalidName(m) == CASE m \in ConfigMethods -> "invalid_config"
                    [] m = "start" -> "invalid_magnet"
                    [] m = "startFromData" -> "invalid_torrent_data"
                    [] m = "startFromFile" -> "invalid_torrent_file"
                    [] OTHER -> "invalid_argument"

\* ErrorCode, and codeName on Android.
ErrorCode(c, m) == CASE c \in {Invalid, InvalidTorrent} -> InvalidName(m)
                     [] c = NotFound -> "torrent_not_found"
                     [] c = LimitReached -> "torrent_limit_reached"
                     [] c = IoError -> "io_error"
                     [] c = Duplicate -> "duplicate_torrent"
                     [] OTHER -> "native_error"

\* simple_torrent_result_name, which the Apple adapters send.
ResultName(c) == CASE c = Invalid -> "invalidArgument"
                   [] c = NotFound -> "notFound"
                   [] c = LimitReached -> "limitReached"
                   [] c = InvalidTorrent -> "invalidTorrent"
                   [] c = IoError -> "ioError"
                   [] c = NativeError -> "nativeError"
                   [] c = Duplicate -> "duplicateTorrent"
                   [] OTHER -> "unknown"

\* finishId without the name that a start gives.
AppleNameOfCode(c, m) == ResultName(c)

\* finishId and finish.
AppleName(c, m) == IF c = InvalidTorrent /\ m \in Starts THEN InvalidName(m)
                   ELSE ResultName(c)

\* _codeFromWireName, which knows both spellings.
Category(name) ==
  CASE name \in {"invalid_argument", "invalidArgument"} -> "invalidArgument"
    [] name = "invalid_config" -> "invalidConfig"
    [] name \in {"torrent_not_found", "notFound"} -> "torrentNotFound"
    [] name \in {"torrent_limit_reached", "limitReached"} -> "torrentLimitReached"
    [] name \in {"duplicate_torrent", "duplicateTorrent"} -> "duplicateTorrent"
    [] name = "invalid_magnet" -> "invalidMagnet"
    [] name = "invalidTorrent" -> "invalidTorrent"
    [] name = "invalid_torrent_data" -> "invalidTorrentData"
    [] name = "invalid_torrent_file" -> "invalidTorrentFile"
    [] name \in {"io_error", "ioError"} -> "io"
    [] name \in {"native_error", "nativeError"} -> "nativeError"
    [] OTHER -> "unknown"

AnswerError ==
  /\ pc = "returned" /\ code # Ok
  /\ Tell(Error(Category(IF platform = "apple" THEN AppleName(code, call.method)
                         ELSE ErrorCode(code, call.method))))
  /\ Learn(FALSE)
  /\ UNCHANGED <<request, manager, pluginRef, suspended, sent, reply, code,
                 blocks, copied>>

-----------------------------------------------------------------------------
\* The call is over; only the session and what is known of it remain.  The
\* blocks of a call that threw are lost.
Forget ==
  /\ pc \in {"told", "thrown"}
  /\ heap' = {} /\ out' = {}
  /\ call' = NoRequest /\ pc' = "idle"
  /\ native' = <<>> /\ reached' = FALSE /\ received' = <<>>
  /\ reply' = <<Ok, Nothing>> /\ code' = Ok
  /\ copied' = Nothing /\ answer' = Nothing
  /\ UNCHANGED <<platform, manager, pluginRef, suspended, believed>>

Decode == RefuseUninitialised \/ RefuseArguments \/ SucceedAtOnce \/ CallNative
Abi == EnterAbi \/ Manage \/ Copy \/ Discard
Finish == FailIntArray \/ EncodingThrows \/ Read \/ Release \/ AnswerSuccess
            \/ AnswerError \/ Forget

Next == Create \/ (\E r \in Requests : Send(r)) \/ Decode \/ Abi \/ Finish

Spec == Init /\ [][Next]_vars

-----------------------------------------------------------------------------
(* What the application means by a call, and when it is in order           *)

Meant(r) ==
  CASE r.method \in ConfigMethods -> <<Given(Arg(r, "config")[2])>>
    [] r.method \in Starts ->
         <<Arg(r, SourceKey(r.method))[2], Arg(r, "destination")[2],
           IF IsText(Arg(r, "displayName")) THEN Arg(r, "displayName")[2] ELSE <<>> >>
    [] r.method = "setTransfersSuspended" -> <<Arg(r, "suspended")[2]>>
    [] r.method \in IdMethods -> <<Arg(r, "id")[2]>>
    [] OTHER -> <<>>

IsSoundText(v) == IsText(v) /\ WellFormed(v[2]) /\ ~HasNul(v[2])

IsSoundStart(r) ==
  /\ IF r.method = "startFromData"
     THEN Arg(r, "data")[1] = "bytes" /\ Arg(r, "data")[2] # <<>>
     ELSE /\ IsSoundText(Arg(r, SourceKey(r.method)))
          /\ ~IsBlank(Arg(r, SourceKey(r.method))[2])
  /\ IsSoundText(Arg(r, "destination")) /\ ~IsBlank(Arg(r, "destination")[2])
  /\ (Arg(r, "displayName") = Absent \/ IsSoundText(Arg(r, "displayName")))

IsSoundConfig(m) ==
  /\ \A k \in DOMAIN m : k # NumberKey /\ m[k] # Null
  /\ \A k \in DOMAIN m \intersect (NarrowFields \union RateFields) : IsInt(m[k])
  /\ "enableDht" \in DOMAIN m => IsBool(m["enableDht"])
  /\ "userAgent" \in DOMAIN m => IsSoundText(m["userAgent"])
  /\ IsValidConfig(Given(m))

IsSound(r) ==
  CASE r.method \in ConfigMethods ->
         IF IsMap(Arg(r, "config")) THEN IsSoundConfig(Arg(r, "config")[2])
         ELSE r.method = "init" /\ r.arguments = <<"map", [k \in {} |-> Null]>>
    [] r.method \in Starts -> IsSoundStart(r)
    [] r.method = "setTransfersSuspended" -> IsBool(Arg(r, "suspended"))
    [] r.method \in IdMethods -> IsId(Arg(r, "id"))
    [] OTHER -> TRUE

-----------------------------------------------------------------------------
(* Properties                                                              *)

AsMeant == reached => received = Meant(call)

\* Whatever reaches the manager is what the application passed: no text cut
\* off at a NUL, no number changed by a narrowing cast, no default in the
\* place of a value that was given, and every text well-formed UTF-8.  The
\* checks that see to it are spread over three adapters, the JNI functions
\* and the C ABI.
Intact ==
  /\ AsMeant
  /\ reached => \A t \in TextsOf(call.method, received) : WellFormed(t)

\* The category that says the arguments of a method were not in order, and
\* what it may be replaced by outside the config methods.
Blame(m) == CASE m \in ConfigMethods -> "invalidConfig"
              [] m = "start" -> "invalidMagnet"
              [] m = "startFromData" -> "invalidTorrentData"
              [] m = "startFromFile" -> "invalidTorrentFile"
              [] OTHER -> "invalidArgument"
Blames(m) == {Blame(m)} \union (IF m \in ConfigMethods THEN {} ELSE {"invalidArgument"})

Promised(c, m) == CASE c = Invalid      -> Blames(m)
                    [] c = InvalidTorrent -> {Blame(m)}
                    [] c = NotFound     -> {"torrentNotFound"}
                    [] c = LimitReached -> {"torrentLimitReached"}
                    [] c = IoError      -> {"io"}
                    [] c = Duplicate    -> {"duplicateTorrent"}
                    [] OTHER            -> {"nativeError"}

\* A text is told up to its first NUL, or is ill-formed there and told as
\* the empty or as a repaired one; all other values are told as they are.
TextFits(told, t) ==
  IF WellFormed(CString(t)) THEN told = CString(t) ELSE told \in {<<>>, Replaced}

ValueFits(told, value) ==
  CASE value[1] \in {"text", "error"} ->
         told[1] = value[1] /\ TextFits(told[2], value[2])
    [] value[1] = "info" ->
         told[1] = "info" /\ \A k \in InfoBlocks : TextFits(told[2][k], value[2][k])
    [] OTHER -> told = value

\* The manager succeeded, and yet the application cannot be told its value:
\* the answer could not be copied, or Dart cannot decode a text of it.
AnswerIsLost(category) ==
  \/ category = "nativeError" /\ reply[2][1] \in {"ids", "info", "error"}
  \/ /\ category = "undecodable" /\ platform = "windows"
     /\ \E t \in ValueTexts(reply[2]) : ~WellFormed(CString(t))

\* Success is told only of what the manager did, with the value it gave, its
\* texts as TextFits says; an error has the one category that belongs to what
\* the manager returned, except that arguments which are not in order may be
\* called invalidArgument too, but not a config; or the answer was lost; and
\* a call is blamed before it reaches the manager only if it was not in order.
AnswerFits ==
  IF manager \in {"failed", "thrown"} THEN answer = Error("notInitialized")
  ELSE IF answer[1] = "success"
  THEN IF reached THEN reply[1] = Ok /\ ValueFits(answer[2], reply[2])
       ELSE call.method = "init" /\ answer[2] = Nothing
  ELSE IF ~reached THEN answer[2] \in Blames(call.method) /\ ~IsSound(call)
  ELSE IF reply[1] # Ok THEN answer[2] \in Promised(reply[1], call.method)
  ELSE AnswerIsLost(answer[2])

\* The session is as the application was last told.
SessionKnown == believed # "unknown" => suspended = (believed = "suspended")

\* What the application is told of a call fits what became of it, on every
\* platform and for every request.
Truthful == pc = "told" => AnswerFits

\* What the answers of setTransfersSuspended say of the session stays true
\* until the next one, although the session may throw before or after its
\* change.
SessionAsTold == pc = "told" => SessionKnown

\* Every block belongs to one pointer until it is freed, once: whatever
\* malloc of the C ABI fails, and whatever the JNI functions fail to make,
\* nothing is leaked on the way of a call, no pointer dangles, and a call that
\* returns OK has set all it promises.  Only a C++ exception loses anything:
\* the blocks of a call that throws on Windows, and the JNI reference of a
\* creation that throws; every other failed creation has given it back.
OwnedOnce ==
  /\ out \subseteq heap
  /\ pc # "thrown" => heap = out
  /\ pc \in {"idle", "decode", "enter", "manage", "told"} => heap = {}
  /\ pc = "returned" /\ code = Ok => BlocksOf(reply[2]) \subseteq out
  /\ platform = "android" /\ manager = "up" => pluginRef
  /\ pluginRef => platform = "android" /\ manager \in {"up", "thrown"}
=============================================================================

-------------------------------- MODULE Utf8 --------------------------------
(***************************************************************************)
(* The UTF-8 decoder of the C ABI, IsUtf8, and what it is to decide: the   *)
(* well-formed byte sequences of the Unicode standard (its table 3-7).     *)
(* A text is a sequence of bytes without NUL, the content of a C string.   *)
(***************************************************************************)
EXTENDS Integers, Sequences

Byte == 0..255

\* Byte i of the C string: past the end is the terminator.
At(t, i) == IF i \in 1..Len(t) THEN t[i] ELSE 0

-----------------------------------------------------------------------------
(* As the code decides: lead byte, continuation bytes, code point          *)

\* How many bytes follow a lead byte; NoLead when it is none.
NoLead == 4
Continuations(b) ==
  IF b \in 0..127 THEN 0
  ELSE IF b \div 32 = 6 THEN 1
  ELSE IF b \div 16 = 14 THEN 2
  ELSE IF b \div 8 = 30 THEN 3
  ELSE NoLead

IsContinuation(b) == b \div 64 = 2

\* One character of n continuation bytes: lead byte b, then c, d and e.
IsTwoByte(b, c) ==
  /\ b % 32 >= 2
  /\ IsContinuation(c)

IsThreeByte(b, c, d) ==
  /\ IsContinuation(c) /\ IsContinuation(d)
  /\ LET point == 4096 * (b % 16) + 64 * (c % 64) + (d % 64)
     IN  point >= 2048 /\ point \notin 55296..57343

IsFourByte(b, c, d, e) ==
  /\ IsContinuation(c) /\ IsContinuation(d) /\ IsContinuation(e)
  /\ LET point == 262144 * (b % 8) + 4096 * (c % 64) + 64 * (d % 64) + (e % 64)
     IN  point >= 65536 /\ point <= 1114111

Accepts(b, c, d, e) ==
  \/ Continuations(b) = 0
  \/ Continuations(b) = 1 /\ IsTwoByte(b, c)
  \/ Continuations(b) = 2 /\ IsThreeByte(b, c, d)
  \/ Continuations(b) = 3 /\ IsFourByte(b, c, d, e)

\* The loop over a text, one character a turn.
IsUtf8(t) ==
  LET rest[i \in 1..Len(t) + 1] ==
        i <= Len(t) => /\ Accepts(t[i], At(t, i + 1), At(t, i + 2), At(t, i + 3))
                       /\ rest[i + 1 + Continuations(t[i])]
  IN  rest[1]

-----------------------------------------------------------------------------
(* As the standard says: the rows of its table                             *)

Trail == 128..191

WellFormedCharacter(b, c, d, e) ==
  \/ b \in 0..127
  \/ b \in 194..223 /\ c \in Trail
  \/ b = 224 /\ c \in 160..191 /\ d \in Trail
  \/ b \in (225..236 \union 238..239) /\ c \in Trail /\ d \in Trail
  \/ b = 237 /\ c \in 128..159 /\ d \in Trail
  \/ b = 240 /\ c \in 144..191 /\ d \in Trail /\ e \in Trail
  \/ b \in 241..243 /\ c \in Trail /\ d \in Trail /\ e \in Trail
  \/ b = 244 /\ c \in 128..143 /\ d \in Trail /\ e \in Trail

Width(b) == IF b < 194 THEN 1 ELSE IF b < 224 THEN 2 ELSE IF b < 240 THEN 3 ELSE 4

\* A text that falls apart into well-formed characters.
WellFormed(t) ==
  LET rest[i \in 1..Len(t) + 1] ==
        i <= Len(t) =>
          /\ WellFormedCharacter(t[i], At(t, i + 1), At(t, i + 2), At(t, i + 3))
          /\ rest[i + Width(t[i])]
  IN  rest[1]
=============================================================================

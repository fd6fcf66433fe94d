------------------------------- MODULE WebText -------------------------------
(***************************************************************************)
(* The two conversions between a program's bytes and the browser           *)
(* (src/src/playground/http_server.cpp): appendJsonString() for what the   *)
(* program wrote, urlDecode() for what it is to read.  Text is a sequence  *)
(* of bytes.  Both loops skip a varying number of bytes; here they visit   *)
(* every byte and count down what is to be skipped.                        *)
(***************************************************************************)
EXTENDS Integers, Sequences

Byte  == 0 .. 255
Quote == 34
Plus  == 43
Backslash == 92
Percent == 37
Space == 32
Replacement == <<239, 191, 189>>     \* U+FFFD

-----------------------------------------------------------------------------
HexCharacter(n) == IF n < 10 THEN 48 + n ELSE 87 + n

\* The bytes that need an escape: '"', '\', newline, return, tab and the other
\* control characters.
Escaped(byte) ==
  CASE byte \in {Quote, Backslash} -> <<Backslash, byte>>
    [] byte = 10 -> <<Backslash, 110>>
    [] byte = 13 -> <<Backslash, 114>>
    [] byte = 9  -> <<Backslash, 116>>
    [] OTHER     -> <<Backslash, 117, 48, 48, HexCharacter(byte \div 16),
                      HexCharacter(byte % 16)>>

NeedsEscape(byte) == byte < 32 \/ byte \in {Quote, Backslash}

\* How many bytes the character has that begins with this byte, 0 if none does,
\* and between what the second byte must lie.
LeadByte(length, low, high) == [length |-> length, low |-> low, high |-> high]
LeadAnySecond(byte) ==
  CASE byte \in 194 .. 223 -> LeadByte(2, 128, 191)
    [] byte \in 224 .. 239 -> LeadByte(3, 128, 191)
    [] byte \in 240 .. 244 -> LeadByte(4, 128, 191)
    [] OTHER               -> LeadByte(0, 128, 191)

Lead(byte) ==
  CASE byte \in 194 .. 223 -> LeadByte(2, 128, 191)
    [] byte = 224          -> LeadByte(3, 160, 191)
    [] byte = 237          -> LeadByte(3, 128, 159)
    [] byte \in 225 .. 239 \ {237} -> LeadByte(3, 128, 191)
    [] byte = 240          -> LeadByte(4, 144, 191)
    [] byte \in 241 .. 243 -> LeadByte(4, 128, 191)
    [] byte = 244          -> LeadByte(4, 128, 143)
    [] OTHER               -> LeadByte(0, 128, 191)

MultiByteAt(text, i) ==
  LET lead == Lead(text[i]) IN
  /\ lead.length # 0 /\ i + lead.length - 1 <= Len(text)
  /\ text[i + 1] \in lead.low .. lead.high
  /\ \A k \in 2 .. lead.length - 1 : text[i + k] \in 128 .. 191

\* What the loop appends at i and how many bytes it goes on.
JsonAt(text, i) ==
  IF NeedsEscape(text[i]) THEN [bytes |-> Escaped(text[i]), length |-> 1]
  ELSE IF text[i] < 128 THEN [bytes |-> <<text[i]>>, length |-> 1]
  ELSE IF MultiByteAt(text, i)
    THEN LET n == Lead(text[i]).length IN
         [bytes |-> SubSeq(text, i, i + n - 1), length |-> n]
  ELSE [bytes |-> Replacement, length |-> 1]

\* The loop, which takes the step of each byte that it does not skip.
Visited(loop, step) ==
  IF loop.skip > 0 THEN [out |-> loop.out, skip |-> loop.skip - 1]
  ELSE [out |-> loop.out \o step.bytes, skip |-> step.length - 1]

Visiting(steps) ==
  LET loop[i \in 0 .. Len(steps)] ==
        IF i = 0 THEN [out |-> <<>>, skip |-> 0] ELSE Visited(loop[i - 1], steps[i])
  IN  loop

Visit(steps) == Visiting(steps)[Len(steps)].out

JsonSteps(text) == [i \in 1 .. Len(text) |-> JsonAt(text, i)]

\* Between the quotes that surround it.
appendJsonString(text) == Visit(JsonSteps(text))

-----------------------------------------------------------------------------
NotADigit == -1
hexDigit(c) ==
  CASE c \in 48 .. 57  -> c - 48
    [] c \in 97 .. 102 -> c - 87
    [] c \in 65 .. 70  -> c - 55
    [] OTHER           -> NotADigit

\* A malformed escape is kept as it is.
UrlAt(text, i) ==
  IF text[i] = Plus THEN [bytes |-> <<Space>>, length |-> 1]
  ELSE IF /\ text[i] = Percent /\ i + 2 <= Len(text)
          /\ hexDigit(text[i + 1]) >= 0 /\ hexDigit(text[i + 2]) >= 0
    THEN [bytes |-> <<16 * hexDigit(text[i + 1]) + hexDigit(text[i + 2])>>, length |-> 3]
  ELSE [bytes |-> <<text[i]>>, length |-> 1]

UrlSteps(text) == [i \in 1 .. Len(text) |-> UrlAt(text, i)]

urlDecode(text) == Visit(UrlSteps(text))

-----------------------------------------------------------------------------
(***************************************************************************)
(* What a browser makes of it, by what UTF-8 and JSON are: a character is  *)
(* a scalar value, and its bytes are the only ones that stand for it.      *)
(***************************************************************************)
Utf8(scalar) ==
  IF scalar < 128 THEN <<scalar>>
  ELSE IF scalar < 2048 THEN <<192 + scalar \div 64, 128 + (scalar % 64)>>
  ELSE IF scalar < 65536
    THEN <<224 + scalar \div 4096, 128 + ((scalar \div 64) % 64), 128 + (scalar % 64)>>
  ELSE <<240 + scalar \div 262144, 128 + ((scalar \div 4096) % 64),
         128 + ((scalar \div 64) % 64), 128 + (scalar % 64)>>

\* The number that n bytes from i on spell, good or bad.
Spelled(text, i, n) ==
  CASE n = 1 -> text[i]
    [] n = 2 -> 64 * (text[i] % 32) + (text[i + 1] % 64)
    [] n = 3 -> 4096 * (text[i] % 16) + 64 * (text[i + 1] % 64) + (text[i + 2] % 64)
    [] n = 4 -> 262144 * (text[i] % 8) + 4096 * (text[i + 1] % 64)
                  + 64 * (text[i + 2] % 64) + (text[i + 3] % 64)

\* The surrogates of UTF-16 are not characters.
IsScalar(value) == value < 1114112 /\ value \notin 55296 .. 57343

CharacterLengths(text, i) ==
  {n \in 1 .. 4 : /\ i + n - 1 <= Len(text)
                  /\ IsScalar(Spelled(text, i, n))
                  /\ Utf8(Spelled(text, i, n)) = SubSeq(text, i, i + n - 1)}

Unreadable == 65533      \* U+FFFD
CharacterAt(text, i) ==
  LET lengths == CharacterLengths(text, i) IN
  IF lengths = {} THEN [bytes |-> <<Unreadable>>, length |-> 1]
  ELSE LET n == CHOOSE n \in lengths : TRUE IN
       [bytes |-> <<Spelled(text, i, n)>>, length |-> n]

CharacterSteps(text) == [i \in 1 .. Len(text) |-> CharacterAt(text, i)]

\* The characters of a text, bytes that are none shown as U+FFFD.
Characters(text) == Visit(CharacterSteps(text))

Utf8Steps(characters) ==
  [i \in 1 .. Len(characters) |-> [bytes |-> Utf8(characters[i]), length |-> 1]]

IsUtf8(text) == Visit(Utf8Steps(Characters(text))) = text

\* What an escape at i stands for; nothing else may come after a backslash.
Refused == -1
HexAt(text, i) == IF i <= Len(text) THEN hexDigit(text[i]) ELSE NotADigit

Unescaped(text, i) ==
  LET next == IF i < Len(text) THEN text[i + 1] ELSE 0 IN
  CASE next \in {Quote, Backslash} -> [bytes |-> <<next>>, length |-> 2]
    [] next = 110 -> [bytes |-> <<10>>, length |-> 2]
    [] next = 114 -> [bytes |-> <<13>>, length |-> 2]
    [] next = 116 -> [bytes |-> <<9>>, length |-> 2]
    [] next = 117 /\ \A k \in 2 .. 5 : HexAt(text, i + k) >= 0 ->
         [bytes |-> <<4096 * HexAt(text, i + 2) + 256 * HexAt(text, i + 3)
                        + 16 * HexAt(text, i + 4) + HexAt(text, i + 5)>>, length |-> 6]
    [] OTHER -> [bytes |-> <<Refused>>, length |-> 1]

ParseAt(text, i) ==
  IF text[i] = Backslash THEN Unescaped(text, i)
  ELSE [bytes |-> <<IF text[i] < 32 \/ text[i] = Quote THEN Refused ELSE text[i]>>,
        length |-> 1]

ParseSteps(text) == [i \in 1 .. Len(text) |-> ParseAt(text, i)]

\* JSON.parse: a control character or a quote may not stand for itself.
JsonParse(text) == Visit(ParseSteps(Characters(text)))

=============================================================================

-------------------------- MODULE WavReader_proofs ---------------------------
(***************************************************************************)
(* Theorems about WavReader, for files of any length, chunks that declare  *)
(* any sizes, samples of any width and any block of the readers.           *)
(***************************************************************************)
EXTENDS WavReader, TLAPS

(***************************************************************************)
(* Arithmetic                                                              *)
(***************************************************************************)

LEMMA Quotient ==
    ASSUME NEW a \in Nat, NEW b \in Nat \ {0}
    PROVE  a \div b \in Nat /\ (a \div b) * b <= a /\ a < (a \div b) * b + b
OBVIOUS

LEMMA Scale ==
    ASSUME NEW a \in Nat, NEW b \in Nat, NEW c \in Nat, a <= b
    PROVE  a * c \in Nat /\ b * c \in Nat /\ a * c <= b * c
<1> DEFINE d == b - a
<1>1. d \in Nat /\ b = a + d
    OBVIOUS
<1> HIDE DEF d
<1>2. b * c = a * c + d * c /\ d * c \in Nat /\ a * c \in Nat
    BY <1>1
<1> QED BY <1>2

\* The quotient is the largest number of bs in a.
LEMMA QuotientLargest ==
    ASSUME NEW a \in Nat, NEW b \in Nat \ {0}, NEW x \in Nat
    PROVE  /\ x * b <= a => x <= a \div b
           /\ a <= x * b => a \div b <= x
<1> DEFINE q == a \div b
<1>1. q \in Nat /\ q * b <= a /\ a < q * b + b
    BY Quotient
<1> HIDE DEF q
<1>2. ASSUME x * b <= a, q < x PROVE FALSE
  <2>1. (q + 1) * b <= x * b
      BY <1>1, <1>2, Scale
  <2>2. (q + 1) * b = q * b + b
      BY <1>1
  <2>3. q * b \in Nat /\ x * b \in Nat
      BY <1>1
  <2> QED BY <1>1, <1>2, <2>1, <2>2, <2>3
<1>3. ASSUME a <= x * b, x < q PROVE FALSE
  <2>1. (x + 1) * b <= q * b
      BY <1>1, <1>3, Scale
  <2>2. (x + 1) * b = x * b + b
      OBVIOUS
  <2>3. q * b \in Nat /\ x * b \in Nat
      BY <1>1
  <2> QED BY <1>1, <1>3, <2>1, <2>2, <2>3
<1> QED BY <1>1, <1>2, <1>3 DEF q

(***************************************************************************)
(* Formats                                                                 *)
(***************************************************************************)

\* Samples of the buffer.
Room == NumSampleFrames * format.channels

LEMMA Widths ==
    ASSUME format \in Formats
    PROVE  /\ SampleBytes \in Nat \ {0} /\ format.channels \in Nat \ {0}
           /\ FrameBytes = SampleBytes * format.channels /\ FrameBytes \in Nat \ {0}
<1>1. format.bits \in Nat /\ format.bits >= 8 /\ format.channels \in Nat \ {0}
    BY WavReaderAssumption DEF Formats
<1> DEFINE b == format.bits
           c == format.channels
           s == b \div 8
<1>2. s \in Nat \ {0}
    BY <1>1
<1> HIDE DEF b, c, s
<1>3. s * c \in Nat \ {0}
    BY <1>1, <1>2 DEF c
<1> QED BY <1>1, <1>2, <1>3 DEF SampleBytes, FrameBytes, b, c, s

\* The buffer is no larger than the data chunk says.
LEMMA RoomFits ==
    ASSUME format \in Formats, dataSize \in Nat
    PROVE  /\ NumSampleFrames \in Nat /\ Room \in Nat
           /\ Room * SampleBytes <= dataSize
           /\ NumSampleFrames * FrameBytes = Room * SampleBytes
<1> DEFINE s == SampleBytes
           c == format.channels
           m == dataSize \div s
           n == m \div c
<1>1. s \in Nat \ {0} /\ c \in Nat \ {0} /\ FrameBytes = s * c
    BY Widths
<1>2. NumSampleFrames = n /\ Room = n * c
    BY DEF NumSampleFrames, Room
<1> HIDE DEF s, c
<1>3. m \in Nat /\ m * s <= dataSize
    BY <1>1, Quotient
<1> HIDE DEF m
<1>4. n \in Nat /\ n * c <= m
    BY <1>1, <1>3, Quotient
<1> HIDE DEF n
<1>5. n * c \in Nat
    BY <1>1, <1>4
<1>6. (n * c) * s <= m * s /\ (n * c) * s \in Nat /\ m * s \in Nat
    BY <1>1, <1>3, <1>4, <1>5, Scale
<1>7. n * (s * c) = (n * c) * s
    BY <1>1, <1>4
<1> QED BY <1>1, <1>2, <1>3, <1>4, <1>5, <1>6, <1>7 DEF s

(***************************************************************************)
(* The invariant                                                           *)
(***************************************************************************)

\* Once it is allocated the buffer has the samples the chunk declares, and what
\* was converted into it is inside and not uninitialized.
Allocated ==
    /\ format \in Formats /\ dataSize >= 0 /\ audioStart # -1
    /\ DOMAIN buffer = 0 .. Room - 1
    /\ written <= Room
    /\ \A k \in DOMAIN buffer : k < written => buffer[k] # "unset"

\* Between two blocks, what is converted is what was read, and the stream stands
\* at the byte of the next sample.
BetweenBlocks ==
    /\ read <= NumSampleFrames /\ written = read * format.channels
    /\ InBlocks \/ read = 0
    /\ audioStart < len => pos = audioStart + written * SampleBytes

\* What is said to be read has been converted.
ReadIsWritten == format.bits \in {8, 16, 32} => read * format.channels <= written

WavInv ==
    /\ TypeOK /\ written \in Nat /\ audioStart # 0
    /\ at \in {"parse", "load"} => read = 0 /\ written = 0 /\ buffer = <<>>
    /\ at \in {"convert", "zero", "done"} => Allocated
    /\ at = "convert" => BetweenBlocks
    /\ at = "zero" => ReadIsWritten
    /\ AudioOnly /\ NothingUnset

LEMMA WavInit == Init => WavInv
<1> SUFFICES ASSUME Init PROVE WavInv
    OBVIOUS
<1>1. len \in Nat \ {0} /\ len \in Lengths
    BY WavReaderAssumption DEF Init
<1>2. DOMAIN buffer = {}
    BY DEF Init
<1> QED BY <1>1, <1>2 DEF Init, WavInv, TypeOK, AudioOnly, NothingUnset

(***************************************************************************)
(* parse()                                                                 *)
(***************************************************************************)

LEMMA StreamInside ==
    ASSUME TypeOK
    PROVE  /\ len \in Nat \ {0} /\ pos \in 0 .. len /\ audioStart \in -1 .. len
           /\ \A bytes \in Nat : After(bytes) \in 0 .. len /\ pos <= After(bytes)
           /\ \A bytes \in Nat \ {0} : pos < len => After(bytes) > 0
           /\ \A p \in 0 .. len, bytes \in Int : Advance(p, bytes) \in 0 .. len
           /\ \A p \in -1 .. len : SetPos(p) \in 0 .. len
<1>1. len \in Nat \ {0} /\ pos \in 0 .. len /\ audioStart \in -1 .. len
    BY WavReaderAssumption DEF TypeOK
<1> QED BY <1>1 DEF After, Taken, Lesser, Advance, SetPos

\* While parsing nothing is converted, and the stream stays inside the file.
LEMMA ParseInv == WavInv /\ Parse => WavInv'
<1> SUFFICES ASSUME WavInv, Parse PROVE WavInv'
    OBVIOUS
<1>1. TypeOK /\ at = "parse" /\ UNCHANGED <<len, samples>>
    BY DEF WavInv, Parse, ParseRiff, ParseFmt, ParseData, ParseOther, ParseEnd, Peeked
<1>2. /\ read' = 0 /\ written' = 0 /\ buffer' = <<>> /\ len' = len
      /\ read = 0 /\ written = 0 /\ buffer = <<>>
    BY <1>1 DEF WavInv, samples
<1>3. DOMAIN buffer' = {}
    BY <1>2
<1>4. ASSUME pos' \in 0 .. len, at' \in {"parse", "load"}, format' \in Formats \cup {NoFormat},
             dataSize' \in Sizes \cup {0}, audioStart' \in -1 .. len, audioStart' # 0
      PROVE  WavInv'
  <2>1. TypeOK'
      BY <1>1, <1>2, <1>3, <1>4 DEF TypeOK
  <2> QED BY <1>2, <1>3, <1>4, <2>1 DEF WavInv, AudioOnly, NothingUnset
<1>5. /\ pos \in 0 .. len /\ format \in Formats \cup {NoFormat} /\ audioStart \in -1 .. len
      /\ dataSize \in Sizes \cup {0} /\ audioStart # 0 /\ Sizes \subseteq Int
    BY <1>1, WavReaderAssumption DEF WavInv, TypeOK
<1>6. CASE ParseRiff
    BY <1>1, <1>4, <1>5, <1>6, StreamInside DEF ParseRiff, chunks
<1>7. CASE ParseFmt
  <2>1. PICK f \in Formats :
            /\ pos' = After(IF f.encoding = "other" THEN 26 ELSE 24)
            /\ format' = IF pos + 23 <= len THEN f ELSE NoFormat
      BY <1>7 DEF ParseFmt
  <2>2. UNCHANGED <<at, dataSize, audioStart>>
      BY <1>7 DEF ParseFmt
  <2>3. pos' \in 0 .. len
      BY <1>1, <2>1, StreamInside
  <2> QED BY <1>1, <1>4, <1>5, <2>1, <2>2, <2>3
<1>8. CASE ParseData
  <2>1. PICK size \in Sizes : /\ dataSize' = size
                              /\ audioStart' = After(8)
                              /\ pos' = Advance(After(8), size)
      BY <1>8 DEF ParseData
  <2>2. UNCHANGED <<at, format>>
      BY <1>8 DEF ParseData
  <2>3. After(8) \in 1 .. len
      BY <1>1, <1>8, StreamInside DEF ParseData, Peeked
  <2>4. pos' \in 0 .. len
      BY <1>1, <1>5, <2>1, <2>3, StreamInside
  <2> QED BY <1>1, <1>4, <1>5, <2>1, <2>2, <2>3, <2>4
<1>9. CASE ParseOther
  <2>1. PICK size \in Sizes : pos' = Advance(After(8), size)
      BY <1>9 DEF ParseOther
  <2>2. UNCHANGED <<at, chunks>>
      BY <1>9 DEF ParseOther
  <2>3. pos' \in 0 .. len
      BY <1>1, <1>5, <2>1, StreamInside
  <2> QED BY <1>1, <1>4, <1>5, <2>2, <2>3 DEF chunks
<1>10. CASE ParseEnd
    BY <1>1, <1>4, <1>5, <1>10, StreamInside DEF ParseEnd, chunks
<1> QED BY <1>6, <1>7, <1>8, <1>9, <1>10 DEF Parse

(***************************************************************************)
(* loadSampleData()                                                        *)
(***************************************************************************)

\* The buffer is allocated; the stream stands at the first sample.
LEMMA LoadInv == WavInv /\ Load => WavInv'
<1> SUFFICES ASSUME WavInv, Load PROVE WavInv'
    OBVIOUS
<1>1. /\ TypeOK /\ read = 0 /\ written = 0 /\ audioStart # 0
      /\ format \in Formats /\ audioStart # -1 /\ dataSize >= 0
    BY DEF WavInv, Load, TypeOK
<1>2. /\ buffer' = [k \in 0 .. Room - 1 |-> "unset"] /\ pos' = SetPos(audioStart)
      /\ at' = "convert"
      /\ UNCHANGED <<len, format, dataSize, audioStart, written, read>>
    BY DEF Load, Room, chunks
<1>3. DOMAIN buffer' = 0 .. Room - 1 /\ \A k \in DOMAIN buffer' : buffer'[k] = "unset"
    BY <1>2
<1>4. dataSize \in Nat
    BY <1>1, WavReaderAssumption DEF TypeOK
<1>5. /\ Room \in Nat /\ NumSampleFrames \in Nat
      /\ SampleBytes \in Nat /\ format.channels \in Nat
    BY <1>1, <1>4, RoomFits, Widths
<1>6. Room' = Room /\ NumSampleFrames' = NumSampleFrames /\ SampleBytes' = SampleBytes
    BY <1>2 DEF Room, NumSampleFrames, SampleBytes
<1>7. TypeOK'
  <2>1. pos' \in 0 .. len
      BY <1>1, <1>2, StreamInside
  <2> QED BY <1>1, <1>2, <1>3, <2>1 DEF TypeOK
<1>8. Allocated'
    BY <1>1, <1>2, <1>3, <1>5, <1>6 DEF Allocated
<1>9. BetweenBlocks'
  <2>1. audioStart < len => pos' = audioStart
    <3>1. audioStart \in -1 .. len /\ len \in Nat
        BY <1>1, StreamInside
    <3> QED BY <1>1, <1>2, <3>1 DEF SetPos, Lesser
  <2>2. 0 * format.channels = 0 /\ 0 * SampleBytes = 0
      BY <1>5
  <2>3. audioStart \in Int
      BY <1>1, StreamInside
  <2> QED BY <1>1, <1>2, <1>5, <1>6, <2>1, <2>2, <2>3 DEF BetweenBlocks
<1>10. AudioOnly' /\ NothingUnset'
    BY <1>2, <1>3 DEF AudioOnly, NothingUnset
<1> QED BY <1>1, <1>2, <1>7, <1>8, <1>9, <1>10 DEF WavInv

(***************************************************************************)
(* getDataFloat()                                                          *)
(***************************************************************************)

\* The sizes a reader works with.
LEMMA ConvertFacts ==
    ASSUME WavInv, at = "convert"
    PROVE  /\ TypeOK /\ Allocated /\ BetweenBlocks
           /\ dataSize \in Nat /\ NumSampleFrames \in Nat /\ Room \in Nat
           /\ SampleBytes \in Nat \ {0} /\ format.channels \in Nat \ {0}
           /\ FrameBytes = SampleBytes * format.channels /\ FrameBytes \in Nat \ {0}
           /\ Room * SampleBytes <= dataSize
           /\ NumSampleFrames * FrameBytes = Room * SampleBytes
           /\ Room = NumSampleFrames * format.channels
           /\ written \in Nat /\ read \in Nat /\ audioStart \in 1 .. len
<1>1. TypeOK /\ Allocated /\ BetweenBlocks /\ written \in Nat /\ audioStart # 0
    BY DEF WavInv
<1>2. dataSize \in Nat
    BY <1>1, WavReaderAssumption DEF TypeOK, Allocated
<1>3. audioStart \in 1 .. len
  <2>1. audioStart \in -1 .. len /\ len \in Nat
      BY <1>1, StreamInside
  <2>2. audioStart # -1
      BY <1>1 DEF Allocated
  <2> QED BY <1>1, <2>1, <2>2
<1> QED BY <1>1, <1>2, <1>3, Widths, RoomFits DEF Allocated, TypeOK, Room

\* What is taken from the stream.
LEMMA TakenFits ==
    ASSUME TypeOK, NEW bytes \in Nat
    PROVE  Taken(bytes) \in Nat /\ Taken(bytes) <= bytes
<1>1. len \in Nat /\ pos \in 0 .. len
    BY StreamInside
<1> QED BY <1>1 DEF Taken, Lesser

\* Samples converted inside the buffer are audio.
LEMMA ConvertKeeps ==
    ASSUME WavInv, at = "convert", NEW count \in Nat, NEW bytes \in Nat,
           Convert(count, bytes), written + count <= Room,
           UNCHANGED <<len, chunks>>, at' \in {"convert", "zero"}, read' \in Nat
    PROVE  /\ TypeOK' /\ Allocated' /\ AudioOnly' /\ NothingUnset'
           /\ written' = written + count /\ written' \in Nat
           /\ UNCHANGED <<format, dataSize, audioStart, Room, NumSampleFrames, SampleBytes>>
<1>1. /\ written' = written + count
      /\ buffer' = [k \in DOMAIN buffer |->
                       IF k \in written .. written + count - 1
                         THEN Origin(pos + (k - written) * SampleBytes) ELSE buffer[k]]
      /\ pos' = After(bytes)
    BY DEF Convert
<1>2. UNCHANGED <<format, dataSize, audioStart, Room, NumSampleFrames, SampleBytes>>
    BY DEF chunks, Room, NumSampleFrames, SampleBytes
<1>3. DOMAIN buffer' = DOMAIN buffer /\ DOMAIN buffer = 0 .. Room - 1
    BY <1>1, ConvertFacts DEF Allocated
<1>4. \A k \in DOMAIN buffer :
          /\ buffer'[k] \in {"unset", "audio", "stray", "zero"}
          /\ k < written + count => buffer'[k] # "unset"
  <2> SUFFICES ASSUME NEW k \in DOMAIN buffer
               PROVE  /\ buffer'[k] \in {"unset", "audio", "stray", "zero"}
                      /\ k < written + count => buffer'[k] # "unset"
      OBVIOUS
  <2>1. /\ buffer[k] \in {"unset", "audio", "stray", "zero"}
        /\ k < written => buffer[k] # "unset"
      BY ConvertFacts DEF TypeOK, Allocated
  <2>2. k \in Int /\ written \in Int
      BY <1>3, ConvertFacts
  <2> QED BY <1>1, <2>1, <2>2 DEF Origin
<1>5. TypeOK'
  <2>1. pos' \in 0 .. len
      BY <1>1, ConvertFacts, StreamInside
  <2>2. UNCHANGED <<len, format, dataSize, audioStart>>
      BY DEF chunks
  <2> QED BY <1>3, <1>4, <2>1, <2>2, ConvertFacts DEF TypeOK
<1>6. Allocated'
  <2>1. Allocated /\ Room' = Room
      BY <1>2, ConvertFacts
  <2> QED BY <1>1, <1>2, <1>3, <1>4, <2>1 DEF Allocated
<1>7. AudioOnly'
  <2> SUFFICES ASSUME audioStart < len, NEW k \in DOMAIN buffer PROVE buffer'[k] # "stray"
      BY <1>2, <1>3 DEF AudioOnly
  <2>1. buffer[k] # "stray"
      BY DEF WavInv, AudioOnly
  <2>2. CASE k \in written .. written + count - 1
    <3> DEFINE s == SampleBytes
               p == pos + (k - written) * s
    <3>1. /\ s \in Nat \ {0} /\ written \in Nat /\ k \in Nat /\ k + 1 <= Room
          /\ Room \in Nat /\ Room * s <= dataSize /\ dataSize \in Nat
          /\ audioStart \in Nat /\ pos = audioStart + written * s
      <4>1. /\ s \in Nat \ {0} /\ written \in Nat /\ Room \in Nat /\ dataSize \in Nat
            /\ Room * s <= dataSize /\ audioStart \in Nat /\ BetweenBlocks
          BY ConvertFacts
      <4>2. pos = audioStart + written * s
          BY <4>1 DEF BetweenBlocks
      <4>3. k \in Nat /\ k + 1 <= Room
          BY <1>3, <4>1
      <4> QED BY <4>1, <4>2, <4>3
    <3>2. buffer'[k] = Origin(p)
        BY <1>1, <2>2
    <3> HIDE DEF s
    <3>3. (k + 1) * s <= Room * s /\ (k + 1) * s = k * s + s /\ k * s \in Nat /\ Room * s \in Nat
        BY <3>1, Scale
    <3>4. (k - written) * s = k * s - written * s /\ written * s \in Nat
        BY <3>1
    <3> HIDE DEF p
    <3>5. p = audioStart + k * s
        BY <3>1, <3>3, <3>4 DEF p
    <3>6. p >= audioStart /\ p < audioStart + dataSize
        BY <3>1, <3>3, <3>5
    <3> QED BY <3>2, <3>6 DEF Origin
  <2>3. CASE k \notin written .. written + count - 1
      BY <1>1, <2>1, <2>3
  <2> QED BY <2>2, <2>3
<1>8. NothingUnset'
    BY DEF NothingUnset
<1> QED BY <1>1, <1>2, <1>5, <1>6, <1>7, <1>8, ConvertFacts

\* A block of the readers of 8, 16 and 32 bits.
LEMMA ReadBlockInv == WavInv /\ ReadBlock => WavInv'
<1> SUFFICES ASSUME WavInv, ReadBlock PROVE WavInv'
    OBVIOUS
<1> DEFINE n == NumSampleFrames
           c == format.channels
           s == SampleBytes
           f == FrameBytes
           w == Wanted
           bytes == w * f
           taken == Taken(bytes)
           got == taken \div f
<1>1. /\ at = "convert" /\ InBlocks /\ Convert(got * c, bytes) /\ read' = read + got
      /\ at' = IF got < w \/ read + got >= n THEN "zero" ELSE "convert"
      /\ UNCHANGED <<len, chunks>>
    BY DEF ReadBlock
<1>2. /\ TypeOK /\ n \in Nat /\ c \in Nat \ {0} /\ s \in Nat \ {0} /\ f \in Nat \ {0}
      /\ f = s * c /\ Room = n * c /\ read \in Nat /\ read <= n
      /\ written = read * c /\ audioStart \in Nat
      /\ audioStart < len => pos = audioStart + written * s
    BY <1>1, ConvertFacts DEF BetweenBlocks
<1>3. w \in Nat /\ w <= n - read
    BY <1>2, WavReaderAssumption DEF Wanted, Lesser
<1> HIDE DEF n, c, s, f, w
<1>4. bytes \in Nat
    BY <1>2, <1>3
<1>5. taken \in Nat /\ taken <= bytes
    BY <1>2, <1>4, TakenFits
<1> HIDE DEF taken
<1>6. got \in Nat /\ got * f <= taken /\ got * f \in Nat /\ got <= w
  <2>1. got \in Nat /\ got * f <= taken
      BY <1>2, <1>5, Quotient
  <2>2. got <= w
      BY <1>2, <1>3, <1>5, QuotientLargest
  <2> HIDE DEF got
  <2> QED BY <1>2, <2>1, <2>2
<1> HIDE DEF got
<1>7. got * c \in Nat /\ (read + got) * c = written + got * c /\ (read + got) * c <= n * c
      /\ (read + got) * c \in Nat
    BY <1>2, <1>3, <1>6, Scale
<1>8. written + got * c <= Room
    BY <1>2, <1>7
<1>9. at' \in {"convert", "zero"} /\ read' \in Nat
    BY <1>1, <1>2, <1>6
<1> HIDE DEF bytes
<1>10. /\ TypeOK' /\ Allocated' /\ AudioOnly' /\ NothingUnset'
       /\ written' = written + got * c /\ written' \in Nat
       /\ UNCHANGED <<format, dataSize, audioStart, Room, NumSampleFrames, SampleBytes>>
    BY <1>1, <1>4, <1>7, <1>8, <1>9, ConvertKeeps
<1>11. written' = read' * format'.channels
  <2>1. format'.channels = c
      BY <1>10 DEF c
  <2> QED BY <1>1, <1>7, <1>10, <2>1
<1>12. at' = "convert" => BetweenBlocks'
  <2> SUFFICES ASSUME at' = "convert" PROVE BetweenBlocks'
      OBVIOUS
  <2>1. got = w /\ read + got < n
      BY <1>1, <1>2, <1>3, <1>6
  <2>2. taken = got * f
      BY <1>4, <1>5, <1>6, <2>1 DEF bytes
  <2>3. pos' = pos + got * f
      BY <1>1, <2>2 DEF Convert, After, taken
  <2>4. audioStart < len => pos' = audioStart + written' * s
    <3>1. (written + got * c) * s = written * s + got * f /\ written * s \in Nat
      <4>1. written \in Nat
          BY <1>2
      <4>2. (written + got * c) * s = written * s + (got * c) * s /\ written * s \in Nat
          BY <1>2, <1>7, <4>1
      <4>3. (got * c) * s = got * (s * c)
          BY <1>2, <1>6
      <4> QED BY <1>2, <4>2, <4>3
    <3> QED BY <1>2, <1>6, <1>10, <2>3, <3>1
  <2>5. InBlocks'
      BY <1>1, <1>10 DEF InBlocks
  <2>6. read' <= NumSampleFrames'
      BY <1>1, <1>2, <1>10, <2>1, <1>6 DEF n
  <2>7. audioStart' < len' => pos' = audioStart' + written' * SampleBytes'
      BY <1>1, <1>10, <2>4 DEF s
  <2> QED BY <1>11, <2>5, <2>6, <2>7 DEF BetweenBlocks
<1>13. ReadIsWritten'
  <2>1. written' \in Nat
      BY <1>10
  <2> QED BY <1>11, <2>1 DEF ReadIsWritten
<1>14. audioStart' # 0
    BY <1>10 DEF WavInv
<1> QED BY <1>9, <1>10, <1>12, <1>13, <1>14 DEF WavInv

\* The readers that ask for all frames at once write no more than there is room
\* for, and what the one of floats says is read is written.
LEMMA WholeFile ==
    ASSUME WavInv, at = "convert", ~InBlocks
    PROVE  LET bytes == NumSampleFrames * FrameBytes
           IN /\ bytes \in Nat /\ written = 0
              /\ Taken(bytes) \div SampleBytes \in Nat
              /\ Taken(bytes) \div SampleBytes <= Room
              /\ Taken(bytes) \div FrameBytes \in Nat
              /\ (Taken(bytes) \div FrameBytes) * format.channels
                    <= Taken(bytes) \div SampleBytes
<1> DEFINE c == format.channels
           s == SampleBytes
           f == FrameBytes
           bytes == NumSampleFrames * f
           taken == Taken(bytes)
           frames == taken \div f
           count == taken \div s
<1>1. /\ TypeOK /\ c \in Nat \ {0} /\ s \in Nat \ {0} /\ f \in Nat \ {0} /\ f = s * c
      /\ NumSampleFrames \in Nat /\ Room \in Nat /\ bytes = Room * s /\ BetweenBlocks
    BY ConvertFacts
<1>2. written = 0
    BY <1>1 DEF BetweenBlocks
<1>3. bytes \in Nat
    BY <1>1
<1> HIDE DEF c, s, f, bytes
<1>4. taken \in Nat /\ taken <= Room * s
    BY <1>1, <1>3, TakenFits
<1> HIDE DEF taken
<1>5. frames \in Nat /\ frames * f <= taken /\ count \in Nat
    BY <1>1, <1>4, Quotient
<1>6. count <= Room
    BY <1>1, <1>4, QuotientLargest
<1>7. frames * c <= count
  <2> HIDE DEF frames
  <2>1. frames * c \in Nat /\ (frames * c) * s = frames * (s * c)
      BY <1>1, <1>5
  <2>2. (frames * c) * s <= taken
      BY <1>1, <1>5, <2>1
  <2> QED BY <1>1, <1>4, <2>1, <2>2, QuotientLargest
<1> QED BY <1>2, <1>3, <1>5, <1>6, <1>7 DEF c, s, f, bytes, taken

LEMMA ReadFloat32Inv == WavInv /\ ReadFloat32 => WavInv'
<1> SUFFICES ASSUME WavInv, ReadFloat32 PROVE WavInv'
    OBVIOUS
<1> DEFINE bytes == NumSampleFrames * FrameBytes
           count == Taken(bytes) \div SampleBytes
           frames == Taken(bytes) \div FrameBytes
<1>1. /\ at = "convert" /\ ~InBlocks /\ Convert(count, bytes) /\ read' = frames
      /\ at' = "zero" /\ UNCHANGED <<len, chunks>>
    BY DEF ReadFloat32, InBlocks
<1>2. /\ bytes \in Nat /\ written = 0 /\ count \in Nat /\ count <= Room /\ frames \in Nat
      /\ frames * format.channels <= count
    BY <1>1, WholeFile
<1> HIDE DEF bytes, count, frames
<1>3. written + count <= Room
    BY <1>2
<1>4. /\ TypeOK' /\ Allocated' /\ AudioOnly' /\ NothingUnset'
      /\ written' = count /\ written' \in Nat
      /\ UNCHANGED <<format, dataSize, audioStart>>
    BY <1>1, <1>2, <1>3, ConvertKeeps
<1> QED BY <1>1, <1>2, <1>4 DEF WavInv, ReadIsWritten

LEMMA ReadPCM24Inv == WavInv /\ ReadPCM24 => WavInv'
<1> SUFFICES ASSUME WavInv, ReadPCM24 PROVE WavInv'
    OBVIOUS
<1> DEFINE bytes == NumSampleFrames * FrameBytes
           count == Taken(bytes) \div SampleBytes
<1>1. /\ at = "convert" /\ ~InBlocks /\ Convert(count, bytes) /\ read' = NumSampleFrames
      /\ at' = "zero" /\ UNCHANGED <<len, chunks>> /\ format.bits = 24
    BY DEF ReadPCM24, InBlocks
<1>2. /\ bytes \in Nat /\ written = 0 /\ count \in Nat /\ count <= Room
      /\ NumSampleFrames \in Nat
    BY <1>1, WholeFile, ConvertFacts
<1> HIDE DEF bytes, count
<1>3. written + count <= Room
    BY <1>2
<1>4. /\ TypeOK' /\ Allocated' /\ AudioOnly' /\ NothingUnset'
      /\ written' = count /\ written' \in Nat
      /\ UNCHANGED <<format, dataSize, audioStart>>
    BY <1>1, <1>2, <1>3, ConvertKeeps
<1> QED BY <1>1, <1>4 DEF WavInv, ReadIsWritten

\* A format no reader knows: nothing is converted.
LEMMA InvalidInv == WavInv /\ (InvalidEncoding \/ InvalidSize) => WavInv'
<1> SUFFICES ASSUME WavInv, InvalidEncoding \/ InvalidSize PROVE WavInv'
    OBVIOUS
<1>1. /\ at = "convert" /\ UNCHANGED <<len, pos, format, dataSize, audioStart>>
      /\ UNCHANGED <<buffer, written, read>> /\ at' \in {"zero", "done"}
      /\ at' = "done" => format.bits \notin {8, 16, 24, 32}
    BY DEF InvalidEncoding, InvalidSize, chunks, samples
<1>2. TypeOK /\ Allocated /\ BetweenBlocks /\ written \in Nat
    BY <1>1, ConvertFacts
<1>3. TypeOK'
    BY <1>1, <1>2 DEF TypeOK
<1>4. Allocated'
    BY <1>1, <1>2 DEF Allocated, Room, NumSampleFrames, SampleBytes
<1>5. ReadIsWritten'
    BY <1>1, <1>2 DEF ReadIsWritten, BetweenBlocks
<1>6. AudioOnly' /\ NothingUnset' /\ audioStart' # 0
    BY <1>1 DEF WavInv, AudioOnly, NothingUnset
<1> QED BY <1>1, <1>2, <1>3, <1>4, <1>5, <1>6 DEF WavInv

\* "Zero out any unread frames": with what is converted they are all.
LEMMA ZeroRestInv == WavInv /\ ZeroRest => WavInv'
<1> SUFFICES ASSUME WavInv, ZeroRest PROVE WavInv'
    OBVIOUS
<1>1. /\ at = "zero" /\ at' = "done"
      /\ buffer' = [k \in DOMAIN buffer |->
                       IF read < NumSampleFrames /\ k >= FirstUnread
                         THEN "zero" ELSE buffer[k]]
      /\ UNCHANGED <<len, pos, format, dataSize, audioStart, written, read>>
    BY DEF ZeroRest, chunks
<1>2. TypeOK /\ Allocated /\ ReadIsWritten /\ written \in Nat /\ read \in Nat
    BY <1>1 DEF WavInv, TypeOK
<1>3. /\ format \in Formats /\ dataSize \in Nat
    BY <1>2, WavReaderAssumption DEF Allocated, TypeOK
<1>4. /\ NumSampleFrames \in Nat /\ Room \in Nat /\ Room = NumSampleFrames * format.channels
      /\ format.channels \in Nat \ {0}
    BY <1>3, RoomFits, Widths DEF Room
<1>5. DOMAIN buffer' = DOMAIN buffer /\ DOMAIN buffer = 0 .. Room - 1
    BY <1>1, <1>2 DEF Allocated
<1>6. \A k \in DOMAIN buffer : buffer'[k] = "zero" \/ buffer'[k] = buffer[k]
    BY <1>1
<1>7. Room' = Room
    BY <1>1 DEF Room, NumSampleFrames, SampleBytes
<1>8. TypeOK'
    BY <1>1, <1>2, <1>5, <1>6 DEF TypeOK
<1>9. Allocated'
    BY <1>1, <1>2, <1>5, <1>6, <1>7 DEF Allocated
<1>10. AudioOnly'
  <2>1. AudioOnly
      BY DEF WavInv
  <2> QED BY <1>1, <1>5, <1>6, <2>1 DEF AudioOnly
<1>11. NothingUnset'
  <2> SUFFICES ASSUME format.bits \in {8, 16, 32}, NEW k \in DOMAIN buffer
               PROVE  buffer'[k] # "unset"
      BY <1>1, <1>5 DEF NothingUnset, Unset
  <2>1. /\ read * format.channels <= written /\ k \in Nat /\ k < Room
        /\ k < written => buffer[k] # "unset"
      BY <1>2, <1>4, <1>5 DEF ReadIsWritten, Allocated
  <2>2. read * format.channels \in Nat
      BY <1>2, <1>4
  <2>3. CASE read < NumSampleFrames
      BY <1>1, <1>2, <2>1, <2>2, <2>3 DEF FirstUnread
  <2>4. CASE read >= NumSampleFrames
    <3>1. Room <= read * format.channels
        BY <1>2, <1>4, <2>4, Scale
    <3>2. k < written
        BY <1>2, <1>4, <2>1, <2>2, <3>1
    <3> QED BY <1>6, <2>1, <3>2
  <2> QED BY <1>2, <1>4, <2>3, <2>4
<1>12. audioStart' # 0
    BY <1>1 DEF WavInv
<1> QED BY <1>1, <1>2, <1>8, <1>9, <1>10, <1>11, <1>12 DEF WavInv

LEMMA WavStep == WavInv /\ [Next]_vars => WavInv'
<1> SUFFICES ASSUME WavInv, [Next]_vars PROVE WavInv'
    OBVIOUS
<1>1. CASE Next
    BY <1>1, ParseInv, LoadInv, ReadBlockInv, ReadFloat32Inv, ReadPCM24Inv, InvalidInv,
       ZeroRestInv DEF Next
<1>2. CASE UNCHANGED vars
  <2>1. UNCHANGED <<len, pos, at, format, dataSize, audioStart, buffer, written, read>>
      BY <1>2 DEF vars
  <2>2. TypeOK' = TypeOK /\ Allocated' = Allocated /\ ReadIsWritten' = ReadIsWritten
      BY <2>1 DEF TypeOK, Allocated, Room, NumSampleFrames, SampleBytes, ReadIsWritten
  <2>3. BetweenBlocks' = BetweenBlocks
      BY <2>1 DEF BetweenBlocks, NumSampleFrames, SampleBytes, InBlocks
  <2>4. AudioOnly' = AudioOnly /\ NothingUnset' = NothingUnset
      BY <2>1 DEF AudioOnly, NothingUnset, Unset
  <2> QED BY <2>1, <2>2, <2>3, <2>4 DEF WavInv
<1> QED BY <1>1, <1>2

(***************************************************************************)
(* Theorems                                                                *)
(***************************************************************************)

\* Where parse() and the readers stand, what they have read and what they have
\* made of it stay in step: see WavInv.
THEOREM WavInvariant == Spec => []WavInv
BY WavInit, WavStep, PTL DEF Spec

\* MemInputStream stays inside the file whatever sizes its chunks declare.
THEOREM StreamStaysInside == Spec => []TypeOK
<1>1. WavInv => TypeOK
    BY DEF WavInv
<1> QED BY <1>1, WavInvariant, PTL

\* No reader writes more samples than loadSampleData() allocated.
THEOREM ReadersStayInside == Spec => []InsideBuffer
<1>1. WavInv => InsideBuffer
    BY DEF WavInv, InsideBuffer, Allocated, Room, TypeOK
<1> QED BY <1>1, WavInvariant, PTL

\* What is read comes from the data chunk.
THEOREM ReadersReadAudio == Spec => []AudioOnly
<1>1. WavInv => AudioOnly
    BY DEF WavInv
<1> QED BY <1>1, WavInvariant, PTL

\* No sample of a file of 8, 16 or 32 bits is left uninitialized, wherever the
\* file is cut off.
THEOREM ReadersSetAll == Spec => []NothingUnset
<1>1. WavInv => NothingUnset
    BY DEF WavInv
<1> QED BY <1>1, WavInvariant, PTL

=============================================================================

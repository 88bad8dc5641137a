----------------------------- MODULE WavReader ------------------------------
(***************************************************************************)
(* WavStreamReader over a MemInputStream, and SampleBuffer::               *)
(* loadSampleData(): the chunks of a WAV file in memory are parsed, the    *)
(* stream is positioned to the audio, and the samples are read into a      *)
(* buffer of uninitialized floats.                                         *)
(*                                                                         *)
(* Positions are bytes.  What the bytes say is a choice at each chunk, for *)
(* no header is read twice: any tag, any declared size, also a negative    *)
(* one, however many bytes there are.  Values of samples are left out.     *)
(***************************************************************************)
EXTENDS Integers

CONSTANTS Lengths,    \* mBufferLen
          Sizes,      \* sizes a chunk declares
          Bits,       \* mSampleSize
          Channels,   \* mNumChannels
          Block       \* kConversionBufferFrames, 16 in the code

ASSUME WavReaderAssumption ==
    /\ Lengths \subseteq Nat \ {0} /\ Sizes \subseteq Int
    /\ Bits \subseteq Nat /\ (\A b \in Bits : b >= 8) /\ Channels \subseteq Nat \ {0}
    /\ Block \in Nat \ {0}

VARIABLES
    len,          \* mBufferLen
    pos,          \* mPos of the stream
    at,           \* where the reader stands
    format,       \* mFmtChunk
    dataSize,     \* mDataChunk->mChunkSize
    audioStart,   \* mAudioDataStartPos
    buffer,       \* buffer[k]: what sample k of mSampleData is
    written,      \* samples converted into it
    read          \* numFramesRead

vars == <<len, pos, at, format, dataSize, audioStart, buffer, written, read>>
chunks == <<format, dataSize, audioStart>>
samples == <<buffer, written, read>>

Formats == [bits : Bits, channels : Channels, encoding : {"pcm", "float", "other"}]
NoFormat == [bits |-> 0, channels |-> 0, encoding |-> "other"]

Lesser(a, b) == IF a < b THEN a ELSE b

Init == /\ len \in Lengths
        /\ pos = 0
        /\ at = "parse"
        /\ format = NoFormat
        /\ dataSize = 0
        /\ audioStart = -1
        /\ buffer = <<>>
        /\ written = 0
        /\ read = 0

(***************************************************************************)
(* MemInputStream                                                          *)
(***************************************************************************)

\* read() takes no more than there is.
TakenUnchecked(bytes) == bytes
Taken(bytes) == Lesser(bytes, len - pos)
After(bytes) == pos + Taken(bytes)

AdvanceBoth(from, bytes) == IF from + bytes < 0 THEN 0 ELSE Lesser(from + bytes, len)
Advance(from, bytes) == IF bytes > 0 THEN Lesser(from + bytes, len) ELSE from

SetPos(p) == IF p <= 0 THEN pos ELSE Lesser(p, len - 1)

(***************************************************************************)
(* parse()                                                                 *)
(***************************************************************************)

\* peek() returns something.
Peeked == at = "parse" /\ pos < len

ParseRiff == /\ Peeked
             /\ pos' = After(12)
             /\ UNCHANGED <<len, at, chunks, samples>>

\* Only the high byte of the last field, a zero, may be missing: what else is
\* cut off leaves fields of zero.
ParseFmt == /\ Peeked
            /\ \E f \in Formats :
                  /\ pos' = After(IF f.encoding = "other" THEN 26 ELSE 24)
                  /\ format' = IF pos + 23 <= len THEN f ELSE NoFormat
            /\ UNCHANGED <<len, at, dataSize, audioStart, samples>>

ParseData == /\ Peeked
             /\ \E size \in Sizes :
                   /\ dataSize' = size
                   /\ audioStart' = After(8)
                   /\ pos' = Advance(After(8), size)
             /\ UNCHANGED <<len, at, format, samples>>

ParseOther == /\ Peeked
              /\ \E size \in Sizes : pos' = Advance(After(8), size)
              /\ UNCHANGED <<len, at, chunks, samples>>

ParseEnd == /\ at = "parse" /\ pos = len
            /\ at' = "load"
            /\ pos' = IF audioStart = -1 THEN pos ELSE SetPos(audioStart)
            /\ UNCHANGED <<len, chunks, samples>>

(***************************************************************************)
(* loadSampleData()                                                        *)
(***************************************************************************)

SampleBytes == format.bits \div 8
FrameBytes == SampleBytes * format.channels

NumSampleFramesOfOne == dataSize \div SampleBytes
NumSampleFrames == (dataSize \div SampleBytes) \div format.channels

\* Without a format or a data chunk, with fields of zero or a negative size,
\* the program dies.
Load == /\ at = "load"
        /\ format # NoFormat /\ audioStart # -1 /\ dataSize >= 0
        /\ pos' = SetPos(audioStart)
        /\ buffer' = [k \in 0 .. NumSampleFrames * format.channels - 1 |-> "unset"]
        /\ at' = "convert"
        /\ UNCHANGED <<len, chunks, written, read>>

(***************************************************************************)
(* getDataFloat()                                                          *)
(***************************************************************************)

\* A sample at byte p: from the data chunk, or stray.
Origin(p) == IF p >= audioStart /\ p < audioStart + dataSize THEN "audio" ELSE "stray"

\* The next count samples are converted, bytes having been asked for.
Convert(count, bytes) ==
    /\ written' = written + count
    /\ buffer' = [k \in DOMAIN buffer |->
                     IF k \in written .. written + count - 1
                       THEN Origin(pos + (k - written) * SampleBytes) ELSE buffer[k]]
    /\ pos' = After(bytes)

\* The readers of 8, 16 and 32 bits convert block by block, up to a short one.
InBlocks == format.bits \in {8, 16} \/ (format.bits = 32 /\ format.encoding = "pcm")

WantedWholeBlock == Block
Wanted == Lesser(NumSampleFrames - read, Block)

ReadBlock ==
    LET got == Taken(Wanted * FrameBytes) \div FrameBytes
    IN /\ at = "convert" /\ InBlocks
       /\ Convert(got * format.channels, Wanted * FrameBytes)
       /\ read' = read + got
       /\ at' = IF got < Wanted \/ read + got >= NumSampleFrames THEN "zero" ELSE "convert"
       /\ UNCHANGED <<len, chunks>>

ReadFloat32 ==
    LET bytes == NumSampleFrames * FrameBytes
    IN /\ at = "convert"
       /\ format.bits = 32 /\ format.encoding = "float"
       /\ Convert(Taken(bytes) \div SampleBytes, bytes)
       /\ read' = Taken(bytes) \div FrameBytes
       /\ at' = "zero"
       /\ UNCHANGED <<len, chunks>>

\* Whatever there was, all frames are said to be read.
ReadPCM24 ==
    LET bytes == NumSampleFrames * FrameBytes
    IN /\ at = "convert"
       /\ format.bits = 24 /\ format.encoding = "pcm"
       /\ Convert(Taken(bytes) \div SampleBytes, bytes)
       /\ read' = NumSampleFrames
       /\ at' = "zero"
       /\ UNCHANGED <<len, chunks>>

InvalidEncoding == /\ at = "convert"
                   /\ \/ format.bits = 24 /\ format.encoding # "pcm"
                      \/ format.bits = 32 /\ format.encoding = "other"
                   /\ at' = "zero"
                   /\ UNCHANGED <<len, pos, chunks, samples>>

\* ERR_INVALID_FORMAT, which loadSampleData() does not look at.
InvalidSize == /\ at = "convert"
               /\ format.bits \notin {8, 16, 24, 32}
               /\ at' = "done"
               /\ UNCHANGED <<len, pos, chunks, samples>>

\* "Zero out any unread frames"
FirstUnreadByte == read * FrameBytes
FirstUnread == read * format.channels
ZeroRest == /\ at = "zero"
            /\ buffer' = [k \in DOMAIN buffer |->
                             IF read < NumSampleFrames /\ k >= FirstUnread
                               THEN "zero" ELSE buffer[k]]
            /\ at' = "done"
            /\ UNCHANGED <<len, pos, chunks, written, read>>

Parse == ParseRiff \/ ParseFmt \/ ParseData \/ ParseOther \/ ParseEnd
Next == \/ Parse
        \/ Load
        \/ ReadBlock \/ ReadFloat32 \/ ReadPCM24 \/ InvalidEncoding \/ InvalidSize
        \/ ZeroRest

\* One thread runs it to its end.
Spec == Init /\ [][Next]_vars /\ WF_vars(Next)

(***************************************************************************)
(* Properties                                                              *)
(***************************************************************************)

\* Types; the stream stays inside the file whatever sizes it declares.
TypeOK == /\ len \in Lengths
          /\ pos \in 0 .. len
          /\ at \in {"parse", "load", "convert", "zero", "done"}
          /\ format \in Formats \cup {NoFormat}
          /\ dataSize \in Sizes \cup {0}
          /\ audioStart \in -1 .. len
          /\ \A k \in DOMAIN buffer : buffer[k] \in {"unset", "audio", "stray", "zero"}
          /\ read \in Nat

\* parse() ends on every file, also on one whose chunks declare sizes that are
\* negative or reach beyond its end.
ParseEnds == <>(at # "parse")

\* No reader writes more samples than loadSampleData() allocated.
InsideBuffer == at # "parse" /\ at # "load" => written <= NumSampleFrames * format.channels

\* Every sample that is read comes from the data chunk, unless its header is
\* the end of the file: setPos() then stops one byte early.
AudioOnly == audioStart < len => \A k \in DOMAIN buffer : buffer[k] # "stray"

Unset == {k \in DOMAIN buffer : buffer[k] = "unset"}

\* However short a file of 8, 16 or 32 bits is, no sample is left uninitialized.
NothingUnset == at = "done" /\ format.bits \in {8, 16, 32} => Unset = {}

\* "Zero out any unread frames": after a reader of any size, none is left
\* uninitialized.
UnreadIsZero == at = "done" /\ format.bits \in {8, 16, 24, 32} => Unset = {}

=============================================================================

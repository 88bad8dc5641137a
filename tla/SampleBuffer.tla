---------------------------- MODULE SampleBuffer ----------------------------
(***************************************************************************)
(* SampleBuffer::resampleData(): the loop that converts the samples of a   *)
(* track to the rate of the stream, driving oboe's MultiChannelResampler   *)
(* by its integer phase.  What the samples sound like is left out; counted *)
(* are the samples read and written, in the units of the code: samples,    *)
(* not frames.  The resampler reduces the two rates by their common        *)
(* factors, which changes no comparison of the phase, and is not modelled. *)
(***************************************************************************)
EXTENDS Integers

CONSTANTS MaxFrames,     \* bound on the length of a track
          ChannelCounts, \* channels a decoder reports
          Rates          \* sample rates of files and devices

ASSUME SampleBufferAssumption ==
    /\ MaxFrames \in Nat
    /\ ChannelCounts \subseteq 1 .. 7
    /\ Rates \subseteq Nat \ {0}

VARIABLES
    track,     \* the buffer: frames, channels and rate of the decoded file
    outRate,   \* mSampleRate of the player, 0 if no stream was ever opened
    phase,     \* mIntegerPhase of the resampler
    left,      \* inputSamplesLeft
    written    \* numOutputSamples

vars == <<track, outRate, phase, left, written>>

Buffers == [frames : 0 .. MaxFrames, channels : ChannelCounts, rate : Rates]

NumSamples == track.frames * track.channels

\* numOutFramesAllocated: the exact length rounded to the nearest sample, and
\* 8 for padding; the name says frames, the unit is samples.
RoundedLength(samples) == (2 * samples * outRate + track.rate) \div (2 * track.rate)
AllocatedFrames == RoundedLength(track.frames) + 8
AllocatedUnpadded == RoundedLength(NumSamples)
Allocated == RoundedLength(NumSamples) + 8

Looping == left > 0 /\ written < Allocated

\* Equal rates return early.
Init == /\ track \in Buffers
        /\ outRate \in (Rates \cup {0}) \ {track.rate}
        /\ phase = outRate
        /\ left = NumSamples
        /\ written = 0

IsWriteNeededLate == phase > outRate
IsWriteNeeded == phase >= outRate

WriteNextFrame ==
    /\ Looping
    /\ IsWriteNeeded
    /\ phase' = phase - outRate
    /\ left' = left - track.channels
    /\ UNCHANGED <<track, outRate, written>>

ReadNextFrame ==
    /\ Looping
    /\ ~IsWriteNeeded
    /\ phase' = phase + track.rate
    /\ written' = written + track.channels
    /\ UNCHANGED <<track, outRate, left>>

Next == WriteNextFrame \/ ReadNextFrame

Spec == Init /\ [][Next]_vars

(***************************************************************************)
(* Properties                                                              *)
(***************************************************************************)

\* The samples written fit the array that was allocated, also when the last
\* frame is written with the loop's guard only one sample below its length.
InsideBuffer == written <= Allocated

\* The loop ends because the input is used up, never because the output is
\* full: no track loses its end to the allocation.
WholeInputRead == ~Looping => left = 0

\* The number of output frames is that of the input scaled by the rates, the
\* last input frame not counted, rounded up; it does not depend on the number
\* of channels, so tracks of equal length stay equally long.
LengthKept ==
    ~Looping /\ track.frames > 0 =>
        LET out == written \div track.channels
            exact == (track.frames - 1) * outRate
        IN /\ written = out * track.channels
           /\ exact <= out * track.rate
           /\ out * track.rate < exact + track.rate

=============================================================================

------------------------------- MODULE Output -------------------------------
(***************************************************************************)
(* Mixed sound on its way to a device of another rate: the queue of the    *)
(* playback callback and fill in crates/boa-client/src/audio/pipeline.rs,  *)
(* and the Resampler of audio/resample.rs.  The device asks for buffers of *)
(* any size; each time, enough frames of the mix are converted to fill it. *)
(*                                                                         *)
(* Sound is told by how many frames of it there are, and its place between *)
(* two frames of the mix in parts of one, rate parts to each: the code's   *)
(* position and step are floating-point numbers, here without rounding.    *)
(***************************************************************************)
EXTENDS Integers

CONSTANTS
    MixRate,    \* VOICE_SAMPLE_RATE, in hundreds of hertz
    DeviceRates,\* rates devices run at, in the same
    Asked,      \* sizes of buffers devices ask for, in frames
    Slack,      \* frames mixed beyond what rounding needs: 8
    MaxCalls    \* bound on the callbacks

ASSUME OutputAssumption ==
    /\ MixRate \in Nat \ {0} /\ DeviceRates \subseteq Nat \ {0}
    /\ Asked \subseteq Nat \ {0} /\ \E n \in Asked : \A m \in Asked : m <= n
    /\ Slack \in Nat /\ MaxCalls \in Nat

VARIABLES
    rate,      \* the device's, and so how many parts a mix frame has
    position,  \* Resampler.position, in parts
    ready,     \* converted frames that wait
    taken,     \* frames of the mix taken so far
    made,      \* frames for the device made so far
    calls,     \* callbacks so far
    short      \* frames of silence, for want of others (history)

outputVars == <<rate, position, ready, taken, made, calls, short>>

CeilDiv(m, n) == (m + n - 1) \div n

\* Mistake: some is mixed whatever waits.
Never(wanted) == FALSE

\* fill returns early.
Enough(wanted) == ready >= wanted

\* Frames of the mix for this many of the device's, plus slack.
Needed(wanted) == CeilDiv(wanted * MixRate, rate) + Slack

\* Resampler::process: the frames that fall between the first of n and the
\* last, one every MixRate parts; each n takes Rate parts.
Emitted(n) == CeilDiv(n * rate - position, MixRate)

\* One callback: fill, and the buffer is written.
Callback(wanted) ==
    LET needed == IF Enough(wanted) THEN 0 ELSE Needed(wanted)
        emitted == IF rate = MixRate \/ needed = 0 THEN needed ELSE Emitted(needed)
        there == ready + emitted
    IN  /\ calls < MaxCalls /\ calls' = calls + 1
        /\ position' = position + emitted * MixRate - needed * rate
        /\ ready' = IF there < wanted THEN 0 ELSE there - wanted
        /\ short' = IF there < wanted THEN wanted - there ELSE 0
        /\ taken' = taken + needed
        /\ made' = made + emitted
        /\ UNCHANGED rate

OutputInit ==
    /\ rate \in DeviceRates
    /\ position = 0 /\ ready = 0 /\ taken = 0 /\ made = 0 /\ calls = 0 /\ short = 0

OutputNext == \E wanted \in Asked : Callback(wanted)

----------------------------------------------------------------------------

Largest == CHOOSE n \in Asked : \A m \in Asked : m <= n

\* The device is never short of a frame, for whatever buffers it asks; what
\* waits for it does not grow with time; and over any number of buffers the
\* frames it plays are the mix at its own rate, none twice and none left out,
\* to within one. (fill: "slack so rounding never leaves the queue one short";
\* resample.rs: "keeping its place between calls")
NeverShort ==
    /\ short = 0
    /\ ready <= Largest + CeilDiv((Slack + 1) * rate, MixRate) + 1
    /\ 0 <= position
    /\ (made - 1) * MixRate < taken * rate /\ taken * rate <= made * MixRate + rate

=============================================================================

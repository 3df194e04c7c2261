------------------------------- MODULE Packer -------------------------------
(***************************************************************************)
(* The sound of a share: crates/boa-client/src/screen/audio.rs.  ffmpeg    *)
(* writes samples of four bytes to a pipe, which delivers them in reads of *)
(* any length (pump); the packer puts whole frames of them into packets    *)
(* (Packer::feed).  A byte is known by its place in the stream.            *)
(***************************************************************************)
EXTENDS Integers, Sequences, SequencesExt

CONSTANTS
    FrameSamples,   \* FRAME_SAMPLES
    MaxRead,        \* bytes a read may return at most
    MaxBytes,       \* bound on the bytes read
    MaxBad          \* bound on the frames the encoder fails on

ASSUME PackerAssumption ==
    FrameSamples \in Nat \ {0} /\ MaxRead \in Nat \ {0} /\ MaxBytes \in Nat /\ MaxBad \in Nat

VARIABLES
    got,        \* bytes read
    odd,        \* bytes of a sample that has not arrived whole
    waiting,    \* Packer.pending
    number,     \* Packer.seq
    sound,      \* packets sent: their numbers and samples
    bad,        \* frames the encoder failed on (history)
    running     \* the thread has not been stopped

packerVars == <<got, odd, waiting, number, sound, bad, running>>

SampleBytes == 4

\* The bytes after the last whole sample, kept for the next read.
Rest(bytes) == SubSeq(bytes, (Len(bytes) \div SampleBytes) * SampleBytes + 1, Len(bytes))

\* The whole samples in a sequence of bytes.
Samples(bytes) ==
    [k \in 1 .. Len(bytes) \div SampleBytes |->
        SubSeq(bytes, (k - 1) * SampleBytes + 1, k * SampleBytes)]

\* Packer::feed: every whole frame is encoded and sent; the encoder fails on those
\* in fails, and they have no number.
Pack(all, fails) ==
    LET frames == Len(all) \div FrameSamples
        frame(k) == SubSeq(all, (k - 1) * FrameSamples + 1, k * FrameSamples)
        good == SelectSeq([k \in 1 .. frames |-> k], LAMBDA k : k \notin fails)
    IN
    /\ fails \subseteq 1 .. frames
    /\ sound' = sound \o [j \in DOMAIN good |-> [seq |-> number + j, samples |-> frame(good[j])]]
    /\ number' = number + Len(good)
    /\ bad' = bad \cup {frame(k) : k \in fails}
    /\ waiting' = SubSeq(all, frames * FrameSamples + 1, Len(all))

\* pump: one read.
PumpSound(n) ==
    LET bytes == odd \o [k \in 1 .. n |-> got + k]
        most == (Len(waiting) + Len(bytes)) \div FrameSamples
    IN
    /\ running /\ got + n <= MaxBytes
    /\ got' = got + n
    /\ odd' = Rest(bytes)
    /\ \E fails \in SUBSET (1 .. most) :
          /\ Len(SetToSeq(bad)) + Len(SetToSeq(fails)) <= MaxBad
          /\ Pack(waiting \o Samples(bytes), fails)
    /\ UNCHANGED running

\* DesktopAudio's Drop, or the end of the pipe.
StopSound == running /\ running' = FALSE /\ UNCHANGED <<got, odd, waiting, number, sound, bad>>

PackerInit ==
    /\ got = 0 /\ odd = <<>> /\ waiting = <<>> /\ number = 0 /\ sound = <<>> /\ bad = {}
    /\ running = TRUE

PackerNext == (\E n \in 1 .. MaxRead : PumpSound(n)) \/ StopSound

PackerSpec == PackerInit /\ [][PackerNext]_packerVars

(* No sample is a splice of two, none is lost and none sent twice, however *)
(* the pipe cuts the stream up: the packets, with the frames the encoder   *)
(* failed on, are the whole frames of what was read, numbered in order.    *)
NoSplice ==
    LET whole == got \div (SampleBytes * FrameSamples)
        frame(k) == [i \in 1 .. FrameSamples |-> [j \in 1 .. SampleBytes |->
                        (k - 1) * FrameSamples * SampleBytes + (i - 1) * SampleBytes + j]]
        good == SelectSeq([k \in 1 .. whole |-> frame(k)], LAMBDA f : f \notin bad)
    IN  sound = [n \in DOMAIN good |-> [seq |-> n, samples |-> good[n]]]

============================================================================

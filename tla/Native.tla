------------------------------- MODULE Native -------------------------------
(***************************************************************************)
(* What the macOS engine hands to the senders of a share: an encoded       *)
(* picture turned from lengths before its units to start codes (annexb in  *)
(* crates/boa-client/src/screen/mac/encode.rs), and the machine's sound    *)
(* turned from a buffer for each channel to alternating samples (did_hear  *)
(* in mac/capture.rs).                                                     *)
(*                                                                         *)
(* A length is two cells here rather than four, to base Base, and a sample *)
(* is known by its channel and its place.  Which buffers the system gives  *)
(* is not the program's choice.  Either a picture is followed or sound.    *)
(***************************************************************************)
EXTENDS Integers, Sequences, SequencesExt, FiniteSets

CONSTANTS
    Nals,         \* the units an encoder makes; the first cell tells the type
    ParameterSets,\* what a format description holds when it can be read
    MaxNals,      \* bound on the units of a picture
    Base,         \* what a cell of a length counts up to
    HeardDepth,   \* the sound channel's depth: 16
    MaxFramesHeard, \* bound on the frames of a buffer of sound
    MaxBuffers    \* bound on the buffers of sound

ASSUME NativeAssumption ==
    /\ \A n \in Nals : n # <<>> /\ Len(n) < Base * Base
    /\ ParameterSets # <<>>
    /\ {MaxNals, HeardDepth, MaxFramesHeard, MaxBuffers} \subseteq Nat /\ Base \in Nat \ {0, 1}

VARIABLES
    encoded,    \* the encoder's picture: its units, its cells, and its sets
    converted,  \* Picture, as a set of at most one
    buffers,    \* buffers of sound given so far
    channel,    \* the sound channel, capture to sender
    soundtrack  \* what the sender took out of it

nativeVars == <<encoded, converted, buffers, channel, soundtrack>>

StartCode == <<0, 0, 0, 1>>
Cells(n) == <<Len(n) \div Base, Len(n) % Base>>

----------------------------------------------------------------------------
(* Pictures.                                                               *)

\* From cell at on, start codes for lengths; nothing if a length is not one.
\* Fewer cells than a length has are left out.
Slices(cells) ==
    LET end == Len(cells) + 1
        size(at) == cells[at] * Base + cells[at + 1]
        walk[at \in 1 .. end] ==
            IF at + 2 > end THEN {<<>>}
            ELSE IF size(at) = 0 \/ at + 2 + size(at) > end THEN {}
            ELSE {StartCode \o SubSeq(cells, at + 2, at + 1 + size(at)) \o rest :
                     rest \in walk[at + 2 + size(at)]}
    IN  walk[1]

\* has_idr: read from the bytes, wherever a start code is.
HasIdr(data) == \E i \in 1 .. Len(data) - 4 : SubSeq(data, i, i + 3) = StartCode /\ data[i + 4] % 32 = 5

\* parameter_sets: those that can be had; none, if the first cannot.
Sets(format) == FlattenSeq([i \in DOMAIN format |-> StartCode \o format[i]])

\* annexb
Convert ==
    /\ encoded.cells # <<>>
    /\ converted' = {[data |-> IF HasIdr(slices) THEN Sets(encoded.format) \o slices ELSE slices,
                      keyframe |-> HasIdr(slices)] : slices \in Slices(encoded.cells)}
    /\ encoded' = [encoded EXCEPT !.cells = <<>>]
    /\ UNCHANGED <<buffers, channel, soundtrack>>

----------------------------------------------------------------------------
(* Sound.                                                                  *)

Sample(side, n) == <<side, n>>

\* Both channels, as far as the shorter goes.
Interleaved(left, right) ==
    FlattenSeq([n \in 1 .. (IF left < right THEN left ELSE right) |->
        <<Sample("left", n), Sample("right", n)>>])

\* did_hear: two buffers of a channel each; or one, of both channels already
\* alternating or of one, which then is doubled; and none of a full channel.
DidHear(samples) ==
    /\ encoded.units = <<>> /\ buffers < MaxBuffers /\ buffers' = buffers + 1
    /\ channel' = IF samples = <<>> \/ Len(channel) >= HeardDepth THEN channel ELSE Append(channel, samples)
    /\ UNCHANGED <<encoded, converted, soundtrack>>

HearTwo(left, right) == DidHear(Interleaved(left, right))
HearBoth(frames) == DidHear(Interleaved(frames, frames))
HearOne(frames) == DidHear(FlattenSeq([n \in 1 .. frames |-> <<Sample("only", n), Sample("only", n)>>]))

\* The sender's next turn.
TakeSound ==
    /\ channel # <<>>
    /\ soundtrack' = soundtrack \o Head(channel) /\ channel' = Tail(channel)
    /\ UNCHANGED <<encoded, converted, buffers>>

----------------------------------------------------------------------------

\* The encoder's picture, whole or not: cells too many or too few, a length of
\* nothing; and a description that can be read or not.
Encoded(units, mishap) ==
    LET cells == FlattenSeq([i \in DOMAIN units |-> Cells(units[i]) \o units[i]])
    IN  CASE mishap = "none"  -> cells
          [] mishap = "extra" -> Append(cells, 0)
          [] mishap = "empty" -> cells \o <<0, 0>>
          [] mishap = "short" -> Front(cells)

NativeInit ==
    /\ \E units \in SeqOf(Nals, MaxNals), mishap \in {"none", "extra", "empty", "short"},
          format \in {<<>>, <<Head(ParameterSets)>>, ParameterSets} :
          /\ units = <<>> => mishap = "none" /\ format = <<>>
          /\ encoded = [units |-> units, mishap |-> mishap, format |-> format,
                        cells |-> Encoded(units, mishap)]
    /\ converted = {} /\ buffers = 0 /\ channel = <<>> /\ soundtrack = <<>>

NativeNext ==
    \/ Convert \/ TakeSound
    \/ \E left, right \in 0 .. MaxFramesHeard : HearTwo(left, right)
    \/ \E frames \in 0 .. MaxFramesHeard : HearBoth(frames) \/ HearOne(frames)

----------------------------------------------------------------------------

IsIdr(n) == n[1] % 32 = 5

\* A picture is handed on with every unit whole behind a start code, or not at
\* all; what is called a keyframe is one, and has in front what it is decoded
\* against, as far as the system gave that. And whatever buffers sound comes in and
\* whichever are dropped, its two channels never change places.
\* (annexb, has_idr: "a picture containing one is a keyframe by definition";
\* did_hear: "left and right alternating")
HandedOver ==
    LET units == encoded.units
        keyframe == \E i \in DOMAIN units : IsIdr(units[i])
        units_sent == FlattenSeq([i \in DOMAIN units |-> StartCode \o units[i]])
    IN  /\ units # <<>> /\ encoded.cells = <<>> =>
              converted = IF encoded.mishap \in {"empty", "short"} THEN {}
                          ELSE {[data |-> IF keyframe THEN Sets(encoded.format) \o units_sent ELSE units_sent,
                                 keyframe |-> keyframe]}
        /\ \A k \in DOMAIN soundtrack : k % 2 = 1 =>
              /\ k < Len(soundtrack) /\ soundtrack[k][2] = soundtrack[k + 1][2]
              /\ <<soundtrack[k][1], soundtrack[k + 1][1]>> \in {<<"left", "right">>, <<"only", "only">>}

=============================================================================

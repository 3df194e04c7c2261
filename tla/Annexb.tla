------------------------------- MODULE Annexb -------------------------------
(***************************************************************************)
(* Annexb of crates/boa-client/src/screen/send.rs: an H.264 byte stream,   *)
(* as ffmpeg writes it to a pipe, split into pictures.  The pipe delivers  *)
(* it in reads of any length; the splitter keeps what a read leaves over.  *)
(*                                                                         *)
(* A byte is a small number: 0 and 1 make up start codes, and the low five *)
(* bits of the first byte of a unit are its type: 1 and 5 are slices, 7    *)
(* and 8 parameter sets.                                                   *)
(***************************************************************************)
EXTENDS Integers, Sequences, SequencesExt, FiniteSetsExt

CONSTANTS
    Pieces,         \* what ffmpeg writes next: byte sequences
    MaxPieces       \* bound on the pieces written

ASSUME AnnexbAssumption == MaxPieces \in Nat

VARIABLES
    written,    \* pieces written so far
    output,     \* all the bytes written
    taken,      \* how many of them have been read
    pending,    \* Annexb.pending
    inNal,      \* Annexb.in_nal
    prefix,     \* Annexb.prefix, as units
    parameters, \* Annexb.prefix_has_parameters
    made        \* the pictures that came out, each the units it consists of

annexbVars == <<written, output, taken, pending, inNal, prefix, parameters, made>>

----------------------------------------------------------------------------
\* start_codes: where a unit begins in data, just after 0 0 1.
StartCodes(data) ==
    {i \in 4 .. Len(data) + 1 : data[i - 3] = 0 /\ data[i - 2] = 0 /\ data[i - 1] = 1}

\* nal_end: where the unit before the one at next ends, without its padding.
NalEnd(data, next) ==
    Max({0} \cup {i \in 1 .. next - 4 : data[i] # 0})

\* nal_type, 0 for an empty unit.
NalType(nal) ==
    LET bytes == SelectSeq(nal, LAMBDA b : b # 0)
    IN  IF bytes = <<>> THEN 0 ELSE Head(bytes) % 32

Slice(kind) == kind \in {1, 5}
Parameters(kind) == kind \in {7, 8}

\* Mistake: what is left over is forgotten to be the middle of a unit.
AtStartCode(data) == StartCodes(data)

\* Where units begin, the one that was under way before this read first.
Boundaries(data) == StartCodes(data) \cup (IF inNal THEN {1} ELSE {})

\* What a unit does to the prefix and the pictures.
After(state, nal) ==
    LET kind == NalType(nal)
        with == Append(state.prefix, nal)
    IN  CASE kind = 0 -> state
          [] Slice(kind) ->
               [prefix |-> <<>>, parameters |-> FALSE,
                made |-> Append(state.made,
                    [units |-> with, key |-> kind = 5 \/ state.parameters])]
          [] OTHER ->
               [state EXCEPT !.prefix = with, !.parameters = @ \/ Parameters(kind)]

\* Annexb::feed
Split(bytes) ==
    LET data == pending \o bytes
        starts == SetToSortSeq(Boundaries(data), <)
        last == starts[Len(starts)]
        nals == [k \in 1 .. Len(starts) - 1 |->
                    SubSeq(data, starts[k], NalEnd(data, starts[k + 1]))]
        after == FoldLeft(After, [prefix |-> prefix, parameters |-> parameters,
                                  made |-> made], nals)
    IN
    IF Len(starts) < 2
    THEN /\ pending' = data
         /\ UNCHANGED <<inNal, prefix, parameters, made>>
    ELSE /\ prefix' = after.prefix
         /\ parameters' = after.parameters
         /\ made' = after.made
         /\ pending' = SubSeq(data, last, Len(data))
         /\ inNal' = TRUE

----------------------------------------------------------------------------
WritePiece(piece) ==
    /\ written < MaxPieces
    /\ written' = written + 1
    /\ output' = output \o piece
    /\ UNCHANGED <<taken, pending, inNal, prefix, parameters, made>>

\* pump: a read of n bytes.
ReadPipe(n) ==
    /\ taken + n <= Len(output)
    /\ taken' = taken + n
    /\ Split(SubSeq(output, taken + 1, taken + n))
    /\ UNCHANGED <<written, output>>

AnnexbInit ==
    /\ written = 0 /\ output = <<>> /\ taken = 0
    /\ pending = <<>> /\ inNal = FALSE /\ prefix = <<>> /\ parameters = FALSE
    /\ made = <<>>

AnnexbNext ==
    \/ \E piece \in Pieces : WritePiece(piece)
    \/ \E n \in 1 .. Len(output) - taken : ReadPipe(n)

AnnexbSpec == AnnexbInit /\ [][AnnexbNext]_annexbVars

----------------------------------------------------------------------------
(* What the stream means, whatever the reads: its units are what lies      *)
(* between one start code and the next, without the padding; a picture is  *)
(* a slice with the units since the slice before.                          *)

UnitsOf(data) ==
    LET starts == SetToSortSeq(StartCodes(data), <)
        unit(k) == SubSeq(data, starts[k], NalEnd(data, starts[k + 1]))
    IN  SelectSeq([k \in 1 .. Len(starts) - 1 |-> unit(k)], LAMBDA nal : NalType(nal) # 0)

PicturesOf(units) ==
    LET slices == SetToSortSeq({k \in DOMAIN units : Slice(NalType(units[k]))}, <)
        own(n) == SubSeq(units, IF n = 1 THEN 1 ELSE slices[n - 1] + 1, slices[n])
    IN  [n \in DOMAIN slices |->
            [units |-> own(n),
             key |-> \E k \in DOMAIN own(n) : NalType(own(n)[k]) \in {5, 7, 8}]]

(* The same pictures come out however the pipe cuts the stream up: all     *)
(* that are complete in what was read, none early and none twice. (the two *)
(* errors Annexb's comment tells of)                                       *)
SamePictures == made = PicturesOf(UnitsOf(SubSeq(output, 1, taken)))

============================================================================

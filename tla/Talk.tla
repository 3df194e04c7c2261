-------------------------------- MODULE Talk --------------------------------
(***************************************************************************)
(* The speaking half of a call: the send thread of                         *)
(* crates/boa-client/src/audio/pipeline.rs (run_tx) and the gate of        *)
(* audio/denoise.rs.  The thread takes the microphone's sound in frames of *)
(* 10 ms, decides for each whether it is speech, and puts two of them in a *)
(* packet; the interface changes what it goes by at any moment.            *)
(*                                                                         *)
(* A frame is as loud as the threshold, half as loud, or less; with noise  *)
(* suppression on, it may sound like a voice too.                          *)
(***************************************************************************)
EXTENDS Integers, Sequences, FiniteSets

CONSTANTS
    Hangs,          \* hang times, in frames, the settings may be set to
    FramesPerPacket,\* VOICE_FRAME_SAMPLES / FRAME
    MaxFrames,      \* bound on the frames of a session
    MaxChanges,     \* bound on what the interface changes
    MaxFailures     \* bound on the packets the encoder fails to make

ASSUME TalkAssumption ==
    /\ Hangs \subseteq Nat /\ Hangs # {}
    /\ FramesPerPacket \in Nat \ {0} /\ MaxFrames \in Nat /\ MaxChanges \in Nat
    /\ MaxFailures \in Nat

VARIABLES
    switches,   \* Shared: muted, deafened, push_to_talk, talk_key_held, suppress
    hang,       \* Shared.hang_ms, in frames
    changes,    \* changes of these so far
    remaining,  \* Gate.remaining
    closed,     \* sent_since_gate_closed
    seq,        \* packets numbered so far
    speaking,   \* Shared.speaking
    heard,      \* frames processed, oldest first (history),
    packets,    \* packets sent: the last frame in each and its number,
    failed      \* last frames of those that could not be encoded

tx == <<remaining, closed, seq, speaking, heard, packets, failed>>
talkVars == <<switches, hang, changes, tx>>

Switch == {"muted", "deafened", "push_to_talk", "talk_key_held", "suppress"}
Levels == {"loud", "half", "quiet"}

Transmitting == ~switches["muted"] /\ ~switches["deafened"]

----------------------------------------------------------------------------
(* The interface: set_muted, set_deafened, set_talk_key, apply.            *)

Flip(s) ==
    /\ changes < MaxChanges
    /\ switches' = [switches EXCEPT ![s] = ~@]
    /\ changes' = changes + 1
    /\ UNCHANGED <<hang, tx>>

SetHang(n) ==
    /\ changes < MaxChanges /\ n # hang
    /\ hang' = n
    /\ changes' = changes + 1
    /\ UNCHANGED <<switches, tx>>

----------------------------------------------------------------------------
(* Gate::step: opens at once, closes slowly.                               *)

\* The network's opinion widens the gate but cannot open it on its own.
Active(level, voiced) == level = "loud" \/ (voiced /\ level = "half")

Remaining(active) == IF active THEN hang ELSE IF remaining > 0 THEN remaining - 1 ELSE 0

StaysOpen(active) == active \/ remaining > 0

\* Cleanup::process: with push to talk the key decides, and the gate runs on.
GateAfter(active) == Remaining(active)

Open(active) ==
    IF switches["push_to_talk"] THEN switches["talk_key_held"] ELSE StaysOpen(active)

\* Mistake: nothing closes a spurt.
CutOff(open) == Transmitting /\ open

\* Whether a packet that ends with this frame is sent: one more after the gate
\* has closed, then nothing.
Sends(open) == Transmitting /\ (open \/ ~closed)

\* sent_since_gate_closed after a packet that ends with this frame.
ClosedAfter(open) == Transmitting /\ ~open

\* One turn of run_tx with a whole frame in the capture ring.  The frames that
\* wait for their packet to be full are the last of heard.  The encoder may fail;
\* then the packet has no number.
Frame(level, voiced) ==
    LET active == Active(level, voiced)
        open == Open(active)
        frame == [on |-> Transmitting, open |-> open, active |-> active,
                  key |-> switches["push_to_talk"], hang |-> hang]
        k == Len(heard) + 1
        full == k % FramesPerPacket = 0
    IN
    /\ k <= MaxFrames
    /\ voiced => switches["suppress"] /\ level = "half"
    /\ heard' = Append(heard, frame)
    /\ remaining' = GateAfter(active)
    /\ speaking' = (Transmitting /\ open)
    /\ closed' = IF full THEN ClosedAfter(open) ELSE closed
    /\ \/ /\ full /\ Sends(open)
          /\ seq' = seq + 1
          /\ packets' = packets \cup {[seq |-> seq + 1, last |-> k]}
          /\ UNCHANGED failed
       \/ /\ full /\ Sends(open) /\ Cardinality(failed) < MaxFailures
          /\ failed' = failed \cup {k}
          /\ UNCHANGED <<seq, packets>>
       \/ /\ full => ~Sends(open)
          /\ UNCHANGED <<seq, packets, failed>>
    /\ UNCHANGED <<switches, hang, changes>>

----------------------------------------------------------------------------
TalkInit ==
    /\ switches \in [Switch -> BOOLEAN]
    /\ ~switches["talk_key_held"]
    /\ hang \in Hangs
    /\ changes = 0
    /\ remaining = 0 /\ closed = FALSE /\ seq = 0 /\ speaking = FALSE
    /\ heard = <<>> /\ packets = {} /\ failed = {}

TalkNext ==
    \/ \E s \in Switch : Flip(s)
    \/ \E n \in Hangs : SetHang(n)
    \/ \E level \in Levels, voiced \in BOOLEAN : Frame(level, voiced)

TalkSpec == TalkInit /\ [][TalkNext]_talkVars

----------------------------------------------------------------------------
(* What is sent.                                                           *)

Frames == DOMAIN heard
Ends == {p.last : p \in packets}
\* The packet frame k belongs to ends with this one.
EndOf(k) == ((k + FramesPerPacket - 1) \div FramesPerPacket) * FramesPerPacket
WasSent(k) == EndOf(k) \in Ends

(* The gate as it is meant: open from each active frame until the hang     *)
(* time set then has passed, whatever push to talk did in between.         *)
(* (Gate::step, Cleanup::process)                                          *)
GateAsMeant ==
    \A k \in Frames : ~heard[k].key =>
        LET actives == {j \in 1 .. k : heard[j].active} IN
        heard[k].open <=>
            \E j \in actives : /\ \A i \in actives : i <= j
                               /\ k - j <= heard[j].hang

(* No sound from while the microphone was off is sent, but for the first   *)
(* part of the packet during which it went on. (run_tx)                    *)
MutedKeptBack ==
    \A k \in Frames : ~heard[k].on /\ WasSent(k) =>
        k # EndOf(k) /\ heard[EndOf(k)].on

(* Speech is sent whole: of two frames of speech in a row, neither is held *)
(* back, whatever the gate decides about the rest of their packets -- if   *)
(* the microphone is on until the packet is full.                          *)
SpeechSent ==
    \A k \in Frames :
        /\ k + 1 \in Frames /\ EndOf(k + 1) \in Frames
        /\ \A j \in k .. EndOf(k + 1) : heard[j].on
        /\ heard[k].open /\ heard[k + 1].open
        => {EndOf(k), EndOf(k + 1)} \subseteq Ends \cup failed

(* A pause costs one packet: of the packets that end with the gate shut,   *)
(* two are never sent without speech, or the microphone being off, between *)
(* them.                                                                   *)
OneToClose ==
    \A a, b \in Ends : (a < b /\ ~heard[a].open /\ ~heard[b].open) =>
        \E e \in (a + 1) .. (b - 1) : e % FramesPerPacket = 0 /\ (heard[e].open \/ ~heard[e].on)

(* What the microphone sends is what it was switched on for: the gate opens *)
(* as meant, speech goes out whole, silence and what was muted do not.      *)
(* (run_tx, Gate::step)                                                     *)
Microphone == GateAsMeant /\ MutedKeptBack /\ SpeechSent /\ OneToClose

=============================================================================

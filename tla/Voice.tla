------------------------------- MODULE Voice -------------------------------
(***************************************************************************)
(* crates/boa-client/src/audio/pipeline.rs, the hearing half of a call:    *)
(* the receive thread sorts packets into speaker slots, the playback       *)
(* callback empties them, and the interface says whose streams they are,   *)
(* how loud to play them and when somebody has left.  No lock is shared    *)
(* by the three: a slot changes hands by its stream id alone.              *)
(*                                                                         *)
(* A sample here is what one packet decodes to.  The ring of a slot is     *)
(* kept whole: everything ever pushed, and how far it has been read (Ring  *)
(* shows that the indices stand for this; that it can fill up is Ring's    *)
(* business too).  Each action is what one thread does between two points  *)
(* where another may get in; the callback's are the load of the ring's     *)
(* indices and the store of its read index.                                *)
(***************************************************************************)
EXTENDS Integers, Sequences, FiniteSets

CONSTANTS
    Users,
    Streams,        \* stream ids of the call
    Sounds,         \*   those that carry a share's sound: they can begin again
    Owner,          \* Owner[s]: whose stream s is
    Present,        \* streams that were in the call before this client
    Sent,           \* Sent[s]: packets s had sent by then
    SeqSpace,       \* sequence numbers before they wrap (2^32 in the code)
    MaxConceal,     \* MAX_CONCEAL
    Speakers,       \* MAX_SPEAKERS
    Prime,          \* prime_samples
    Take,           \* samples the callback asks a slot for
    Volumes,        \* "full" and what else people may be turned to
    Chosen,         \* Chosen[u]: how loud u was set before
    MaxPackets,     \* MaxPackets[s]: bound on those s sends after it began
    MaxShares,      \* bound on how often a stream begins
    MaxAdjusts,     \* bound on what the user changes: volumes, deafening
    MaxRepeats,     \* bound on the packets that arrive again
    Spoilt,         \* packets that do not decode: stream, share and number
    Nobody,         \* Id::NONE
    NoStream

ASSUME VoiceAssumption ==
    /\ Sounds \subseteq Streams /\ Present \subseteq Streams
    /\ Owner \in [Streams -> Users] /\ Sent \in [Streams -> Nat]
    /\ SeqSpace \in Nat /\ MaxConceal \in Nat /\ 2 * (MaxConceal + 1) < SeqSpace
    /\ Speakers \in Nat /\ Prime \in Nat /\ Take \in Nat \ {0}
    /\ MaxPackets \in [Streams -> Nat] /\ MaxShares \in Nat /\ MaxAdjusts \in Nat
    \* No stream sends half as many packets in a call as there are numbers.
    /\ \A s \in Streams :
          2 * (MaxPackets[s] + IF s \in Sounds THEN Sent[s] ELSE 0) <= SeqSpace
    /\ MaxRepeats \in Nat
    /\ "full" \in Volumes /\ Chosen \in [Users -> Volumes] /\ Nobody \notin Users /\ NoStream \notin Streams

VARIABLES
    stage,      \* stage[s]: "new", "in" or "out" of the call
    share,      \* share[s]: how often s has begun
    repeats,    \* packets that arrived again so far
    frames,     \* frames[s]: what the server has told about s, not yet read
    slots,      \* Shared.speakers
    owners,     \* Shared.owners
    deafened,   \* Shared.deafened
    chosen,     \* Settings.user_volume
    known,      \* the interface's mirror: streams it takes to be in the call
    adjusts,    \* changes of a volume so far
    ui,         \* what the interface is in the middle of
    decoders,   \* the receive thread's decoders: the number each expects next
    rx,         \* what the receive thread is in the middle of
    cb,         \* what the playback callback is in the middle of
    accepted,   \* packets that were not dropped (history),
    over,       \*   what streams had begun when they were forgotten,
    late,       \*   streams that claimed a slot after that,
    announced,  \*   streams the server told of in this call,
    raced,      \*   streams that claimed one amid their attribution,
    crossed     \*   slots that were cleared while the callback was in them

control == <<stage, share>>
interface == <<owners, chosen, known, adjusts, ui>>
history == <<accepted, over, late, announced, raced, crossed>>
voiceVars == <<control, repeats, frames, slots, deafened, interface, decoders, rx, cb, history>>

Slots == 1 .. Speakers

\* Speaker::free
FreeSlot == [ssrc |-> NoStream, user |-> Nobody, volume |-> "full", primed |-> FALSE,
             pushed |-> <<>>, read |-> 0]

Listening == [at |-> "recv", packet |-> NoStream, slot |-> NoStream, user |-> Nobody]
Between == [at |-> "idle", slot |-> NoStream, read |-> 0, n |-> 0]
AtRest == [at |-> "idle", stream |-> NoStream, slot |-> NoStream]

Waiting(slot) == Len(slot.pushed) - slot.read

\* Ring::clear, whoever calls it.
Cleared(slot) == [slot EXCEPT !.read = Len(slot.pushed)]

Crossing(S) == IF cb.at = "pop" THEN S \cap {cb.slot} ELSE {}

----------------------------------------------------------------------------
(* The call: streams come and go, send, and the server tells.              *)

\* Everything of S has what said of it.
Tell(S, what) ==
    frames' = [s \in Streams |-> IF s \in S THEN Append(frames[s], what[s])
                                 ELSE frames[s]]

InCallOf(u) == {s \in Streams : Owner[s] = u /\ stage[s] = "in"}

\* A voice is announced with VoiceState, a share's sound with ScreenStart.
\* A second share begins on the same stream id (Hub's screen_ssrc) with a new
\* Packer, whose numbers start again.
Begin(s) ==
    /\ \/ s \notin Sounds /\ stage[s] = "new"
       \/ s \in Sounds /\ stage[s] # "in" /\ InCallOf(Owner[s]) # {}
    /\ share[s] < MaxShares
    /\ stage' = [stage EXCEPT ![s] = "in"]
    /\ share' = [share EXCEPT ![s] = @ + 1]
    /\ Tell({s}, [t \in {s} |-> "start"])
    /\ UNCHANGED <<repeats, slots, deafened, interface, decoders, rx, cb, history>>

Cease(S, how) ==
    /\ S # {}
    /\ stage' = [s \in Streams |-> IF s \in S THEN "out" ELSE stage[s]]
    /\ Tell(S, [t \in S |-> IF t \in Sounds THEN how ELSE "stop"])
    /\ UNCHANGED <<share, repeats, slots, deafened, interface, decoders, rx, cb,
                   history>>

StopSound(s) == s \in Sounds /\ stage[s] = "in" /\ Cease({s}, "stop")
\* Left: ScreenStop for a sharer, then VoiceLeave.
HangUp(u) == Cease(InCallOf(u), "stop")
\* Joining another channel: VoiceLeave alone, which says nothing of the sound.
MoveAway(u) == Cease(InCallOf(u), "moved")

\* What s has sent, or will have before it stops: run_tx and Packer::feed number
\* their packets from one.  The network may lose them and let any overtake others.
OnTheWay(s) ==
    {[of |-> s, share |-> 0, n |-> Sent[s] + j] :
        j \in IF s \in Present THEN 1 .. MaxPackets[s] ELSE {}} \cup
    {[of |-> s, share |-> k, n |-> j] : k \in 1 .. share[s], j \in 1 .. MaxPackets[s]}

----------------------------------------------------------------------------
(* The receive thread: run_rx.                                             *)

Number(p) == p.n % SeqSpace

\* The decoder of a packet's stream.
HasDecoder(p) == p.of \in DOMAIN decoders

\* Transport::recv.  A packet may arrive again.
Arrive(p) ==
    /\ p \in accepted => repeats < MaxRepeats
    /\ repeats' = IF p \in accepted THEN repeats + 1 ELSE repeats

Held(s) == {i \in Slots : slots[i].ssrc = s}
Lowest(S) == CHOOSE i \in S : \A j \in S : i <= j

\* Mistake: the slot is handed on as it is.
Untouched(slot) == slot

\* What slot_for does to a free slot before it is anybody's.
Fresh(slot) == [Cleared(slot) EXCEPT !.primed = FALSE]

\* slot_for, a stream that has a slot.
Receive(p) ==
    /\ rx.at = "recv" /\ ~deafened
    /\ Arrive(p)
    /\ \E i \in Held(p.of) : rx' = [at |-> "decode", packet |-> p, slot |-> i, user |-> Nobody]
    /\ UNCHANGED <<control, frames, slots, deafened, interface, decoders, cb, history>>

\* slot_for, a new one: the first free slot is emptied and the owner looked up.
\* There may be none, and then the packet is dropped.
Claim(p) ==
    LET i == Lowest(Held(NoStream)) IN
    /\ rx.at = "recv" /\ ~deafened
    /\ Arrive(p)
    /\ Held(p.of) = {} /\ Held(NoStream) # {}
    /\ slots' = [slots EXCEPT ![i] = Fresh(@)]
    /\ rx' = [at |-> "publish", packet |-> p, slot |-> i,
              user |-> IF p.of \in DOMAIN owners THEN owners[p.of] ELSE Nobody]
    /\ crossed' = crossed \cup Crossing({i})
    /\ UNCHANGED <<control, frames, deafened, interface, decoders, cb, accepted,
                   over, late, announced, raced>>

\* Last: the callback takes a slot with a stream id to be ready.
PublishSlot ==
    LET s == rx.packet.of IN
    /\ rx.at = "publish"
    /\ slots' = [slots EXCEPT ![rx.slot] = [@ EXCEPT !.user = rx.user, !.ssrc = s]]
    /\ rx' = [rx EXCEPT !.at = "decode"]
    /\ late' = IF s \in known THEN late ELSE late \cup {s}
    /\ raced' = IF ui.at = "attribute" /\ ui.stream = s THEN raced \cup {s} ELSE raced
    /\ UNCHANGED <<control, repeats, frames, deafened, interface, decoders, cb, accepted,
                   over, announced, crossed>>

\* Mistake: the difference is not taken through the wrap.
Unsigned(expected, seq) == seq - expected
\* Mistake: the gap is closed up.
Abrupt(d) == 0

\* seq.wrapping_sub(expected) as i32
Distance(expected, seq) ==
    LET d == (seq - expected) % SeqSpace
    IN  IF 2 * d < SeqSpace THEN d ELSE d - SeqSpace

\* How many lost packets to make up for before playing one this far ahead.
Conceal(d) == IF d \in 0 .. MaxConceal THEN d ELSE 0

Sample(p, n, lost) == [of |-> p.of, share |-> p.share, n |-> n, lost |-> lost]

Ahead(p) == IF HasDecoder(p) THEN Distance(decoders[p.of], Number(p)) ELSE 0
\* A new decoder drives out those whose stream has no slot any more.
Expecting(p) ==
    LET others == IF HasDecoder(p) THEN DOMAIN decoders
                  ELSE {s \in DOMAIN decoders : Held(s) # {}}
    IN  [s \in others \cup {p.of} |->
            IF s = p.of THEN (Number(p) + 1) % SeqSpace ELSE decoders[s]]

\* Whether enough has arrived to start playing.
Primed(slot) == [slot EXCEPT !.primed = @ \/ Waiting(slot) >= Prime]

Decodes(p) == <<p.of, p.share, p.n>> \notin Spoilt

\* classify says Play: what was lost is made up for, what came is decoded.
Play ==
    LET p == rx.packet
        lost == Conceal(Ahead(p))
        made == [j \in 1 .. lost |-> Sample(p, p.n - lost + j - 1, TRUE)]
        push(slot, samples) == [slot EXCEPT !.pushed = @ \o samples]
    IN
    /\ rx.at = "decode" /\ Ahead(p) >= 0
    /\ slots' = [slots EXCEPT ![rx.slot] =
            IF Decodes(p) THEN Primed(push(@, Append(made, Sample(p, p.n, FALSE))))
                          ELSE push(@, made)]
    /\ decoders' = Expecting(p)
    /\ rx' = Listening
    /\ accepted' = accepted \cup {p}
    /\ UNCHANGED <<control, repeats, frames, deafened, interface, cb, over, late, announced,
                   raced, crossed>>

\* classify says Drop.
DropPacket ==
    /\ rx.at = "decode" /\ Ahead(rx.packet) < 0
    /\ rx' = Listening
    /\ UNCHANGED <<control, repeats, frames, slots, deafened, interface, decoders, cb, history>>

----------------------------------------------------------------------------
(* The playback callback: fill's visit to one slot.                        *)

Enter(i) ==
    /\ cb.at = "idle" /\ ~deafened
    /\ slots[i].ssrc # NoStream /\ slots[i].primed
    /\ cb' = [at |-> "pop", slot |-> i, read |-> slots[i].read,
              n |-> IF Waiting(slots[i]) < Take THEN Waiting(slots[i]) ELSE Take]
    /\ UNCHANGED <<control, repeats, frames, slots, deafened, interface, decoders, rx, history>>

\* Ring::pop's store of the read index, and re-priming after an underrun.
Popped(slot) == [slot EXCEPT !.read = cb.read + cb.n, !.primed = @ /\ cb.n = Take]

Mix ==
    /\ cb.at = "pop"
    /\ slots' = [slots EXCEPT ![cb.slot] = Popped(@)]
    /\ cb' = Between
    /\ UNCHANGED <<control, repeats, frames, deafened, interface, decoders, rx, history>>

----------------------------------------------------------------------------
(* The interface.                                                          *)

Read(s, what) ==
    /\ ui.at = "idle"
    /\ frames[s] # <<>> /\ Head(frames[s]) = what
    /\ frames' = [frames EXCEPT ![s] = Tail(@)]

\* VoiceSession::set_user_volume
Loudness(f, u, volume) ==
    [i \in Slots |-> IF f[i].user = u THEN [f[i] EXCEPT !.volume = volume] ELSE f[i]]

\* A stream's slot, if it has one, is its owner's.
Marked(s) ==
    [i \in Slots |-> IF i \in Held(s) THEN [slots[i] EXCEPT !.user = Owner[s]] ELSE slots[i]]

\* VoiceState and ScreenStart: VoiceSession::attribute, the slots ...
ReadStarted(s) ==
    /\ Read(s, "start")
    /\ slots' = Marked(s)
    /\ ui' = [at |-> "attribute", stream |-> s, slot |-> NoStream]
    /\ known' = known \cup {s}
    /\ late' = late \ {s}
    /\ UNCHANGED <<control, repeats, deafened, owners, chosen, adjusts, decoders, rx, cb, accepted,
                   over, announced, raced, crossed>>

\* Remembered even when no slot exists yet.
Remembered(s) == [t \in DOMAIN owners \cup {s} |-> IF t = s THEN Owner[s] ELSE owners[t]]

\* ... then the table, then the volume.
Attribute ==
    LET s == ui.stream IN
    /\ ui.at = "attribute"
    /\ owners' = Remembered(s)
    /\ slots' = Loudness(slots, Owner[s], chosen[Owner[s]])
    /\ ui' = AtRest
    /\ announced' = announced \cup {s}
    /\ raced' = IF rx.at = "publish" /\ rx.packet.of = s THEN raced \cup {s} ELSE raced
    /\ UNCHANGED <<control, repeats, frames, deafened, chosen, known, adjusts, decoders, rx, cb,
                   accepted, over, late, crossed>>

Retired(s) == Held(s)

Begun(s) == {s} \X (0 .. share[s])

\* VoiceLeave and ScreenStop: drop_speaker frees the slot of a stream ...
ReadStopped(s) ==
    /\ Read(s, "stop")
    /\ slots' = [i \in Slots |-> IF i \in Retired(s) THEN [slots[i] EXCEPT !.ssrc = NoStream]
                                 ELSE slots[i]]
    /\ ui' = IF Retired(s) = {} THEN ui
             ELSE [at |-> "clear", stream |-> s, slot |-> Lowest(Retired(s))]
    /\ known' = known \ {s}
    /\ over' = over \cup Begun(s)
    /\ UNCHANGED <<control, repeats, deafened, owners, chosen, adjusts, decoders, rx, cb, accepted,
                   late, announced, raced, crossed>>

\* ... and then empties its ring.
ClearRetired ==
    /\ ui.at = "clear"
    /\ slots' = [slots EXCEPT ![ui.slot] = Cleared(@)]
    /\ ui' = AtRest
    /\ crossed' = crossed \cup Crossing({ui.slot})
    /\ UNCHANGED <<control, repeats, frames, deafened, owners, chosen, known, adjusts, decoders,
                   rx, cb, accepted, over, late, announced, raced>>

\* VoiceLeave of a sharer: the mirror forgets the share, the mixer does not.
ReadMoved(s) ==
    /\ Read(s, "moved")
    /\ known' = known \ {s}
    /\ late' = late \cup {s}
    /\ over' = over \cup Begun(s)
    /\ UNCHANGED <<control, repeats, slots, deafened, owners, chosen, adjusts, ui, decoders, rx, cb,
                   accepted, announced, raced, crossed>>

\* apply_user_volumes, after the volume of u was moved.
Adjust(u) ==
    /\ ui.at = "idle" /\ adjusts < MaxAdjusts
    /\ \E volume \in Volumes \ {chosen[u]} :
        /\ chosen' = [chosen EXCEPT ![u] = volume]
        /\ slots' = IF \E s \in known : Owner[s] = u THEN Loudness(slots, u, volume) ELSE slots
    /\ adjusts' = adjusts + 1
    /\ UNCHANGED <<control, repeats, frames, deafened, owners, known, ui, decoders, rx, cb, history>>

\* set_deafened
Deafen ==
    /\ adjusts < MaxAdjusts
    /\ deafened' = ~deafened
    /\ adjusts' = adjusts + 1
    /\ UNCHANGED <<control, repeats, frames, slots, owners, chosen, known, ui, decoders, rx, cb, history>>

----------------------------------------------------------------------------
VoiceInit ==
    /\ stage = [s \in Streams |-> IF s \in Present THEN "in" ELSE "new"]
    /\ share = [s \in Streams |-> 0]
    /\ repeats = 0
    /\ frames = [s \in Streams |-> <<>>]
    /\ slots = [i \in Slots |-> FreeSlot]
    /\ owners = <<>>
    /\ deafened = FALSE
    /\ chosen = Chosen
    /\ known = Present
    /\ adjusts = 0
    /\ ui = AtRest
    /\ decoders = <<>>
    /\ rx = Listening
    /\ cb = Between
    /\ accepted = {} /\ over = {} /\ late = {} /\ announced = {}
    /\ raced = {}
    /\ crossed = {}

Call ==
    \/ \E s \in Streams : Begin(s) \/ StopSound(s)
    \/ \E u \in Users : HangUp(u) \/ MoveAway(u)
Receiver == (\E s \in Streams : \E p \in OnTheWay(s) : Receive(p) \/ Claim(p)) \/ PublishSlot \/ Play \/ DropPacket
Playback == (\E i \in Slots : Enter(i)) \/ Mix
Interface ==
    \/ \E s \in Streams : ReadStarted(s) \/ ReadStopped(s) \/ ReadMoved(s)
    \/ Attribute \/ ClearRetired \/ Deafen
    \/ \E u \in Users : Adjust(u)

VoiceNext == Call \/ Receiver \/ Playback \/ Interface

VoiceSpec == VoiceInit /\ [][VoiceNext]_voiceVars

----------------------------------------------------------------------------
(* What is heard.                                                          *)

VoiceTypes ==
    /\ rx.at \in {"recv", "publish", "decode"} /\ cb.at \in {"idle", "pop"}
    /\ ui.at \in {"idle", "attribute", "clear"}
    /\ DOMAIN owners \cup DOMAIN decoders \cup known \subseteq Streams
    /\ \A i \in Slots :
        /\ slots[i].ssrc \in Streams \cup {NoStream}
        /\ slots[i].user \in Users \cup {Nobody} /\ slots[i].volume \in Volumes
        /\ slots[i].read \in 0 .. Len(slots[i].pushed)

\* While a slot is being claimed it is still nobody's, and the stream has none.
Claiming == rx.at = "publish" => slots[rx.slot].ssrc = NoStream /\ Held(rx.packet.of) = {}

(* A stream has one slot at most, and types: claims and departures are not *)
(* under one lock, and both write a slot's stream id. (slot_for,           *)
(* drop_speaker)                                                           *)
VoiceInv ==
    /\ VoiceTypes /\ Claiming
    /\ \A s \in Streams : Cardinality(Held(s)) <= 1

(* Nobody is heard in another's slot: what waits in a slot's ring was sent *)
(* by the stream the slot is for, however it was handed on -- unless it    *)
(* was emptied by another thread while the callback was popping from it.   *)
OwnVoice ==
    \A i \in Slots \ crossed :
        slots[i].ssrc # NoStream /\ ~(rx.at = "decode" /\ rx.slot = i) =>
            \A k \in (slots[i].read + 1) .. Len(slots[i].pushed) :
                slots[i].pushed[k].of = slots[i].ssrc

\* A packet of s with this number does not decode.
Undecodable(s, n) == \E k \in 0 .. share[s] : <<s, k, n>> \in Spoilt

(* The past is never played into the present, and short gaps are closed:   *)
(* within a slot a stream's samples follow one another in the order they   *)
(* were sent, and what is missing between two of them is more than is      *)
(* worth making up for, or would not decode; a packet of another share may *)
(* stand for the one missing, since shares of one stream number alike.     *)
(* (classify, run_rx)                                                      *)
InOrder ==
    \A i \in Slots : \A k \in 1 .. Len(slots[i].pushed) - 1 :
        LET a == slots[i].pushed[k]
            b == slots[i].pushed[k + 1]
            gap == (a.n + 1) .. (b.n - 1)
        IN  (a.of = b.of /\ a.share = b.share /\ <<a.of, a.share>> \notin over) =>
                /\ a.n < b.n
                /\ \/ Cardinality(gap) > MaxConceal
                   \/ \A n \in gap : Undecodable(a.of, n)

(* A packet is only ever dropped as late because the stream was heard past *)
(* it, through the wrap of the numbers too -- unless the stream began      *)
(* again: its numbers do, and the decoder's expectation does not.          *)
OnlyPastDropped ==
    [][DropPacket =>
        \E p \in accepted :
            /\ p.of = rx.packet.of
            /\ p.share = rx.packet.share => p.n >= rx.packet.n]_voiceVars

(* A stream that the server announced in this call is heard as its owner's *)
(* from its first packet, whichever of the two came first -- unless the    *)
(* packet claimed its slot just then. (attribute, slot_for: the table is   *)
(* read before the slot is published, the slots before the table is set)   *)
Attributed ==
    \A i \in Slots : LET s == slots[i].ssrc IN
        s \in announced \ raced => slots[i].user = Owner[s]

(* Whoever left is not in the way of a later speaker: their slot is free,  *)
(* unless a packet of theirs arrived after the news, or they changed       *)
(* channels while sharing. (forget)                                        *)
SlotsFreed ==
    \A i \in Slots : LET s == slots[i].ssrc IN s # NoStream => s \in known \cup late

(* Slots pass from speaker to speaker without mixing them up: a stream has  *)
(* one at most, nobody is heard in another's, each is heard as its owner,   *)
(* and those who left make room -- each with its own exceptions above.      *)
OwnSlots == VoiceInv /\ OwnVoice /\ Attributed /\ SlotsFreed

============================================================================

----------------------------- MODULE VoiceProofs -----------------------------
(***************************************************************************)
(* Slots pass from speaker to speaker without mixing them up, for any      *)
(* number of people, streams and slots and whatever order the receive      *)
(* thread, the playback callback and the interface take their steps in.    *)
(*                                                                         *)
(* SlotsInv is inductive: it says of each thread in the middle of a step   *)
(* what the other two have left true of the slot it is about to write.     *)
(* OrderInv, on top of it, ties the last sample of each slot to the number *)
(* its stream's decoder expects next.                                      *)
(*                                                                         *)
(* The other parts of a call at a client follow: the ring, the devices     *)
(* held, what is played of the mix, the picture on the screen, who is      *)
(* shown as typing or speaking, and what the microphone sends.             *)
(***************************************************************************)
EXTENDS MCVoice, FiniteSetTheorems, WellFoundedInduction, TLAPS

Packets == [of : Streams, share : Nat, n : Nat]
Samples == [of : Streams, share : Nat, n : Int, lost : BOOLEAN]

SlotRecords == [ssrc : Streams \cup {NoStream}, user : Users \cup {Nobody}, volume : Volumes,
                primed : BOOLEAN, pushed : Seq(Samples), read : Nat]

\* What each variable holds, amid a step too.
HeldTypes ==
    /\ slots \in [Slots -> SlotRecords]
    /\ share \in [Streams -> Nat] /\ chosen \in [Users -> Volumes]
    /\ known \subseteq Streams /\ DOMAIN decoders \subseteq Streams
    /\ DOMAIN owners \subseteq Streams /\ \A s \in DOMAIN owners : owners[s] = Owner[s]
    /\ rx \in [at : {"recv", "publish", "decode"}, packet : Packets \cup {NoStream},
               slot : Slots \cup {NoStream}, user : Users \cup {Nobody}]
    /\ rx.at # "recv" => rx.packet \in Packets /\ rx.slot \in Slots
    /\ cb \in [at : {"idle", "pop"}, slot : Slots \cup {NoStream}, read : Nat, n : Nat]
    /\ cb.at = "pop" => cb.slot \in Slots
    /\ ui \in [at : {"idle", "attribute", "clear"}, stream : Streams \cup {NoStream},
               slot : Slots \cup {NoStream}]
    /\ ui.at = "attribute" => ui.stream \in Streams
    /\ ui.at = "clear" => ui.slot \in Slots

\* A stream has one slot; the one being claimed is nobody's, and the stream of
\* the packet being decoded has not been succeeded in its slot.
OneSlot ==
    /\ \A i, j \in Slots : slots[i].ssrc = slots[j].ssrc => i = j \/ slots[i].ssrc = NoStream
    /\ rx.at = "publish" => /\ slots[rx.slot].ssrc = NoStream
                            /\ \A i \in Slots : slots[i].ssrc # rx.packet.of
    /\ rx.at = "decode" => slots[rx.slot].ssrc \in {NoStream, rx.packet.of}

\* The callback pops what has been pushed, and what it loaded is still so unless
\* the slot was cleared since.
SlotIndices ==
    /\ \A i \in Slots : slots[i].read <= Len(slots[i].pushed)
    /\ cb.at = "pop" => /\ cb.read + cb.n <= Len(slots[cb.slot].pushed)
                        /\ cb.slot \notin crossed => slots[cb.slot].read = cb.read

\* What waits in a slot is its stream's, and nothing waits in one being claimed.
OwnSamples ==
    /\ \A i \in Slots \ crossed :
          slots[i].ssrc # NoStream =>
              \A k \in (slots[i].read + 1) .. Len(slots[i].pushed) :
                  slots[i].pushed[k].of = slots[i].ssrc
    /\ rx.at = "publish" /\ rx.slot \notin crossed =>
          slots[rx.slot].read = Len(slots[rx.slot].pushed)

\* The table knows whoever was announced, and so do their slots: those published,
\* the one about to be, and those of the stream being attributed.
Owned ==
    /\ announced \subseteq DOMAIN owners
    /\ \A i \in Slots : slots[i].ssrc \in announced \ raced =>
                            slots[i].user = Owner[slots[i].ssrc]
    /\ rx.at = "publish" /\ rx.packet.of \in announced \ raced =>
          rx.user = Owner[rx.packet.of]
    /\ ui.at = "attribute" /\ ui.stream \notin raced =>
          \A i \in Slots : slots[i].ssrc = ui.stream => slots[i].user = Owner[ui.stream]

SlotsInv == HeldTypes /\ OneSlot /\ SlotIndices /\ OwnSamples /\ Owned /\ SlotsFreed

----------------------------------------------------------------------------
(* Facts about slots.                                                      *)

(* The first of some slots is one of them. (slot_for's search)             *)
LEMMA LowestIsOne ==
    ASSUME NEW S \in SUBSET Slots, S # {} PROVE Lowest(S) \in S
<1>1. S \subseteq Nat
    BY VoiceAssumption DEF Slots
<1>2. PICK i \in S : \A j \in S : ~(<<j, i>> \in OpToRel(<, Nat))
    BY <1>1, WFMin, NatLessThanWellFounded
<1>3. ASSUME NEW j \in S PROVE ~(j < i)
    <2>1. <<j, i>> \in Nat \X Nat /\ <<j, i>>[1] = j /\ <<j, i>>[2] = i
        BY <1>1
    <2>2. ASSUME j < i PROVE <<j, i>> \in OpToRel(<, Nat)
        BY <2>1, <2>2, Zenon DEF OpToRel
    <2>. QED  BY <1>2, <2>2, Zenon
<1>4. \A j \in S : i <= j
    BY <1>1, <1>3
<1>. QED  BY <1>4 DEF Lowest

(* Lengths are numbers, and fields have their types.                       *)
LEMMA Fields ==
    ASSUME HeldTypes, NEW i \in Slots
    PROVE  /\ slots[i] \in SlotRecords /\ Len(slots[i].pushed) \in Nat
           /\ slots[i].read \in Nat /\ slots[i].pushed \in Seq(Samples)
           /\ slots[i].ssrc \in Streams \cup {NoStream}
           /\ slots[i].user \in Users \cup {Nobody} /\ slots[i].volume \in Volumes
<1>1. slots[i] \in SlotRecords
    BY DEF HeldTypes
<1>2. slots[i].pushed \in Seq(Samples)
    BY <1>1 DEF SlotRecords
<1>. QED  BY <1>1, <1>2 DEF SlotRecords

(* An emptied ring has nothing left to read.                               *)
LEMMA ClearedSlot ==
    ASSUME HeldTypes, NEW i \in Slots
    PROVE  /\ Cleared(slots[i]) \in SlotRecords
           /\ Cleared(slots[i]).ssrc = slots[i].ssrc /\ Cleared(slots[i]).user = slots[i].user
           /\ Cleared(slots[i]).pushed = slots[i].pushed
           /\ Cleared(slots[i]).read = Len(slots[i].pushed)
           /\ Fresh(slots[i]) \in SlotRecords
           /\ Fresh(slots[i]).ssrc = slots[i].ssrc /\ Fresh(slots[i]).user = slots[i].user
           /\ Fresh(slots[i]).pushed = slots[i].pushed
           /\ Fresh(slots[i]).read = Len(slots[i].pushed)
BY Fields DEF Cleared, Fresh, SlotRecords

(* Volumes are nothing to the invariant.                                   *)
LEMMA LoudnessOnly ==
    ASSUME NEW f \in [Slots -> SlotRecords], NEW u, NEW v \in Volumes
    PROVE  /\ Loudness(f, u, v) \in [Slots -> SlotRecords]
           /\ \A i \in Slots : /\ Loudness(f, u, v)[i].ssrc = f[i].ssrc
                               /\ Loudness(f, u, v)[i].user = f[i].user
                               /\ Loudness(f, u, v)[i].pushed = f[i].pushed
                               /\ Loudness(f, u, v)[i].read = f[i].read
<1>1. ASSUME NEW i \in Slots
      PROVE  /\ Loudness(f, u, v)[i] \in SlotRecords
             /\ Loudness(f, u, v)[i].ssrc = f[i].ssrc /\ Loudness(f, u, v)[i].user = f[i].user
             /\ Loudness(f, u, v)[i].pushed = f[i].pushed /\ Loudness(f, u, v)[i].read = f[i].read
    <2>1. f[i] \in SlotRecords
        OBVIOUS
    <2>. QED  BY <2>1 DEF Loudness, SlotRecords
<1>. QED  BY <1>1 DEF Loudness

(* A step of no slot's contents and no thread's progress.                  *)
LEMMA Aside ==
    ASSUME SlotsInv, HeldTypes',
           \A i \in Slots : /\ slots'[i].ssrc = slots[i].ssrc /\ slots'[i].user = slots[i].user
                            /\ slots'[i].pushed = slots[i].pushed
                            /\ slots'[i].read = slots[i].read,
           UNCHANGED <<rx, cb, ui, owners, announced, raced, crossed>>,
           known \cup late \subseteq (known \cup late)'
    PROVE  SlotsInv'
<1>1. OneSlot'
    BY DEF SlotsInv, OneSlot, HeldTypes
<1>2. SlotIndices'
    BY DEF SlotsInv, SlotIndices, HeldTypes
<1>3. OwnSamples'
    <2>1. ASSUME NEW i \in Slots \ crossed', slots'[i].ssrc # NoStream,
                 NEW k \in (slots'[i].read + 1) .. Len(slots'[i].pushed)
          PROVE  slots'[i].pushed[k].of = slots'[i].ssrc
        BY <2>1 DEF SlotsInv, OwnSamples
    <2>2. (rx.at = "publish" /\ rx.slot \notin crossed)' =>
              slots'[rx.slot].read = Len(slots'[rx.slot].pushed)
        BY DEF SlotsInv, OwnSamples, HeldTypes
    <2>. QED  BY <2>1, <2>2 DEF OwnSamples
<1>4. Owned'
    BY DEF SlotsInv, Owned, HeldTypes
<1>5. SlotsFreed'
    BY DEF SlotsInv, SlotsFreed
<1>. QED  BY <1>1, <1>2, <1>3, <1>4, <1>5 DEF SlotsInv

----------------------------------------------------------------------------
(* Steps that leave the slots to whom they are.                            *)

LEMMA CallKeeps ==
    ASSUME SlotsInv, Call PROVE SlotsInv'
<1>1. /\ share' \in [Streams -> Nat]
      /\ UNCHANGED <<slots, interface, decoders, rx, cb, history>>
    <2>1. ASSUME NEW s \in Streams, Begin(s)
          PROVE  /\ share' \in [Streams -> Nat]
                 /\ UNCHANGED <<slots, interface, decoders, rx, cb, history>>
        <3>1. share \in [Streams -> Nat]
            BY DEF SlotsInv, HeldTypes
        <3>. QED  BY <2>1, <3>1 DEF Begin
    <2>2. ASSUME NEW S, NEW how, Cease(S, how)
          PROVE  /\ share' \in [Streams -> Nat]
                 /\ UNCHANGED <<slots, interface, decoders, rx, cb, history>>
        BY <2>2 DEF Cease, SlotsInv, HeldTypes
    <2>. QED  BY <2>1, <2>2 DEF Call, StopSound, HangUp, MoveAway
<1>2. HeldTypes'
    BY <1>1 DEF SlotsInv, HeldTypes, interface
<1>. QED  BY <1>1, <1>2, Aside DEF interface, history

LEMMA AdjustKeeps ==
    ASSUME SlotsInv, NEW u \in Users, Adjust(u) PROVE SlotsInv'
<1>1. PICK volume \in Volumes :
        /\ chosen' = [chosen EXCEPT ![u] = volume]
        /\ slots' = IF \E s \in known : Owner[s] = u THEN Loudness(slots, u, volume) ELSE slots
    BY DEF Adjust
<1>2. UNCHANGED <<share, owners, known, ui, decoders, rx, cb, late, announced, raced, crossed>>
    BY DEF Adjust, control, history
<1>3. /\ slots' \in [Slots -> SlotRecords]
      /\ \A i \in Slots : /\ slots'[i].ssrc = slots[i].ssrc /\ slots'[i].user = slots[i].user
                          /\ slots'[i].pushed = slots[i].pushed
                          /\ slots'[i].read = slots[i].read
    <2>1. slots \in [Slots -> SlotRecords]
        BY DEF SlotsInv, HeldTypes
    <2>. QED  BY <1>1, <2>1, LoudnessOnly
<1>4. HeldTypes'
    BY <1>1, <1>2, <1>3 DEF SlotsInv, HeldTypes
<1>. QED  BY <1>2, <1>3, <1>4, Aside

LEMMA DeafenKeeps ==
    ASSUME SlotsInv, Deafen PROVE SlotsInv'
<1>1. UNCHANGED <<share, slots, owners, chosen, known, ui, decoders, rx, cb, late, announced,
                  raced, crossed>>
    BY DEF Deafen, control, history
<1>2. HeldTypes'
    BY <1>1 DEF SlotsInv, HeldTypes
<1>. QED  BY <1>1, <1>2, Aside

LEMMA ReadMovedKeeps ==
    ASSUME SlotsInv, NEW s \in Streams, ReadMoved(s) PROVE SlotsInv'
<1>1. /\ UNCHANGED <<share, slots, owners, chosen, ui, decoders, rx, cb, announced, raced,
                     crossed>>
      /\ known' = known \ {s} /\ late' = late \cup {s}
    BY DEF ReadMoved, control
<1>2. HeldTypes'
    BY <1>1 DEF SlotsInv, HeldTypes
<1>. QED  BY <1>1, <1>2, Aside

(* The receive thread takes a packet of a stream that has a slot.          *)
LEMMA ReceiveKeeps ==
    ASSUME SlotsInv, NEW p \in Packets, Receive(p) PROVE SlotsInv'
<1>1. PICK i \in Slots :
        /\ slots[i].ssrc = p.of
        /\ rx' = [at |-> "decode", packet |-> p, slot |-> i, user |-> Nobody]
    BY DEF Receive, Held
<1>2. UNCHANGED <<share, slots, owners, chosen, known, ui, decoders, cb, late, announced, raced,
                  crossed>>
    BY DEF Receive, control, interface, history
<1>3. HeldTypes'
    BY <1>1, <1>2 DEF SlotsInv, HeldTypes
<1>4. OneSlot' /\ SlotIndices' /\ Owned' /\ SlotsFreed'
    BY <1>1, <1>2 DEF SlotsInv, OneSlot, SlotIndices, Owned, SlotsFreed
<1>5. OwnSamples'
    BY <1>1, <1>2 DEF SlotsInv, OwnSamples
<1>. QED  BY <1>3, <1>4, <1>5 DEF SlotsInv

LEMMA DropKeeps ==
    ASSUME SlotsInv, DropPacket PROVE SlotsInv'
<1>1. /\ rx' = Listening
      /\ UNCHANGED <<share, slots, owners, chosen, known, ui, decoders, cb, late, announced,
                     raced, crossed>>
    BY DEF DropPacket, control, interface, history
<1>2. HeldTypes'
    BY <1>1 DEF SlotsInv, HeldTypes, Listening
<1>3. OneSlot' /\ SlotIndices' /\ Owned' /\ SlotsFreed'
    BY <1>1 DEF SlotsInv, OneSlot, SlotIndices, Owned, SlotsFreed, Listening
<1>4. OwnSamples'
    BY <1>1 DEF SlotsInv, OwnSamples, Listening
<1>. QED  BY <1>2, <1>3, <1>4 DEF SlotsInv

(* The callback loads the indices of a slot.                               *)
LEMMA EnterKeeps ==
    ASSUME SlotsInv, NEW i \in Slots, Enter(i) PROVE SlotsInv'
<1>1. /\ cb' = [at |-> "pop", slot |-> i, read |-> slots[i].read,
                n |-> IF Waiting(slots[i]) < Take THEN Waiting(slots[i]) ELSE Take]
      /\ UNCHANGED <<share, slots, owners, chosen, known, ui, decoders, rx, late, announced,
                     raced, crossed>>
    BY DEF Enter, control, interface, history
<1>2. /\ cb'.at = "pop" /\ cb'.slot = i /\ cb'.read = slots[i].read /\ cb'.n \in Nat
      /\ slots[i].read \in Nat /\ cb'.read + cb'.n <= Len(slots[i].pushed)
    <2>1. HeldTypes
        BY DEF SlotsInv
    <2>2. /\ Len(slots[i].pushed) \in Nat /\ slots[i].read \in Nat
          /\ slots[i].read <= Len(slots[i].pushed)
        BY <2>1, Fields DEF SlotsInv, SlotIndices
    <2>. QED  BY <1>1, <2>2, VoiceAssumption DEF Waiting
<1>3. HeldTypes'
    BY <1>1, <1>2 DEF SlotsInv, HeldTypes
<1>4. OneSlot' /\ SlotIndices' /\ Owned' /\ SlotsFreed'
    BY <1>1, <1>2 DEF SlotsInv, OneSlot, SlotIndices, Owned, SlotsFreed
<1>5. OwnSamples'
    BY <1>1 DEF SlotsInv, OwnSamples
<1>. QED  BY <1>3, <1>4, <1>5 DEF SlotsInv

----------------------------------------------------------------------------
(* Steps of the receive thread that write a slot.                          *)

(* The first free slot is emptied and set aside for a stream without one.  *)
LEMMA ClaimKeeps ==
    ASSUME SlotsInv, NEW p \in Packets, Claim(p) PROVE SlotsInv'
<1>. DEFINE i == Lowest(Held(NoStream))
<1>0. HeldTypes /\ OneSlot /\ SlotIndices /\ OwnSamples /\ Owned /\ SlotsFreed
    BY DEF SlotsInv
<1>1. i \in Slots /\ slots[i].ssrc = NoStream
    <2>1. Held(NoStream) # {} /\ Held(NoStream) \in SUBSET Slots
        BY DEF Claim, Held
    <2>2. i \in Held(NoStream)
        BY <2>1, LowestIsOne
    <2>. QED  BY <2>2 DEF Held
<1>2. /\ slots' = [slots EXCEPT ![i] = Fresh(slots[i])]
      /\ rx' = [at |-> "publish", packet |-> p, slot |-> i,
                user |-> IF p.of \in DOMAIN owners THEN owners[p.of] ELSE Nobody]
      /\ crossed' = crossed \cup Crossing({i})
      /\ \A j \in Slots : slots[j].ssrc # p.of
      /\ UNCHANGED <<share, owners, chosen, known, ui, decoders, cb, late, announced, raced>>
    BY DEF Claim, control, interface, Held
<1>. HIDE DEF i
<1>3. /\ slots' \in [Slots -> SlotRecords]
      /\ \A j \in Slots : /\ slots'[j].ssrc = slots[j].ssrc /\ slots'[j].user = slots[j].user
                          /\ slots'[j].pushed = slots[j].pushed
                          /\ j # i => slots'[j].read = slots[j].read
      /\ slots'[i].read = Len(slots[i].pushed)
    <2>1. slots \in [Slots -> SlotRecords]
        BY <1>0 DEF HeldTypes
    <2>. QED  BY <1>0, <1>1, <1>2, <2>1, ClearedSlot
<1>4. cb.at = "pop" /\ cb.slot = i => i \in crossed'
    BY <1>2 DEF Crossing
<1>5. HeldTypes'
    <2>1. rx'.user \in Users \cup {Nobody} /\ p.of \in Streams
        BY <1>0, <1>2, VoiceAssumption DEF HeldTypes, Packets
    <2>2. /\ rx'.at = "publish" /\ rx'.packet = p /\ rx'.slot = i
          /\ rx' = [at |-> rx'.at, packet |-> rx'.packet, slot |-> rx'.slot, user |-> rx'.user]
        BY <1>2
    <2>3. rx' \in [at : {"recv", "publish", "decode"}, packet : Packets \cup {NoStream},
                   slot : Slots \cup {NoStream}, user : Users \cup {Nobody}]
        BY <1>1, <2>1, <2>2
    <2>. QED  BY <1>0, <1>1, <1>2, <1>3, <2>2, <2>3 DEF HeldTypes
<1>6. OneSlot'
    BY <1>0, <1>1, <1>2, <1>3 DEF OneSlot
<1>7. SlotIndices'
    <2>1. \A j \in Slots : Len(slots[j].pushed) \in Nat
        BY <1>0, Fields
    <2>. QED  BY <1>0, <1>1, <1>2, <1>3, <1>4, <2>1 DEF SlotIndices, HeldTypes
<1>8. OwnSamples'
    <2>1. ASSUME NEW j \in Slots \ crossed', slots'[j].ssrc # NoStream,
                 NEW k \in (slots'[j].read + 1) .. Len(slots'[j].pushed)
          PROVE  slots'[j].pushed[k].of = slots'[j].ssrc
        <3>1. j # i
            BY <1>1, <1>3, <2>1
        <3>2. j \notin crossed
            BY <1>2, <2>1
        <3>. QED  BY <1>0, <1>3, <2>1, <3>1, <3>2 DEF OwnSamples
    <2>2. rx'.slot = i
        BY <1>2
    <2>. QED  BY <1>1, <1>3, <2>1, <2>2 DEF OwnSamples
<1>9. Owned'
    <2>1. p.of \in announced => rx'.user = Owner[p.of]
        BY <1>0, <1>2 DEF Owned, HeldTypes
    <2>. QED  BY <1>0, <1>2, <1>3, <2>1 DEF Owned
<1>10. SlotsFreed'
    BY <1>0, <1>2, <1>3 DEF SlotsFreed
<1>. QED  BY <1>5, <1>6, <1>7, <1>8, <1>9, <1>10 DEF SlotsInv

(* The slot set aside becomes the stream's.                                *)
LEMMA PublishKeeps ==
    ASSUME SlotsInv, PublishSlot PROVE SlotsInv'
<1>. DEFINE i == rx.slot
            s == rx.packet.of
<1>0. HeldTypes /\ OneSlot /\ SlotIndices /\ OwnSamples /\ Owned /\ SlotsFreed
    BY DEF SlotsInv
<1>1. /\ rx.at = "publish" /\ i \in Slots /\ s \in Streams /\ s # NoStream
      /\ rx.user \in Users \cup {Nobody} /\ rx.packet \in Packets
      /\ slots[i].ssrc = NoStream /\ \A j \in Slots : slots[j].ssrc # s
    BY <1>0, VoiceAssumption DEF PublishSlot, HeldTypes, OneSlot, Packets
<1>2. /\ slots' = [slots EXCEPT ![i] = [slots[i] EXCEPT !.user = rx.user, !.ssrc = s]]
      /\ rx' = [rx EXCEPT !.at = "decode"]
      /\ late' = IF s \in known THEN late ELSE late \cup {s}
      /\ raced' = IF ui.at = "attribute" /\ ui.stream = s THEN raced \cup {s} ELSE raced
      /\ UNCHANGED <<share, owners, chosen, known, ui, decoders, cb, announced, crossed>>
    BY DEF PublishSlot, control, interface
<1>3. /\ slots' \in [Slots -> SlotRecords]
      /\ slots'[i].ssrc = s /\ slots'[i].user = rx.user
      /\ \A j \in Slots : /\ j # i => slots'[j] = slots[j]
                          /\ slots'[j].pushed = slots[j].pushed
                          /\ slots'[j].read = slots[j].read
    <2>. DEFINE new == [slots[i] EXCEPT !.user = rx.user, !.ssrc = s]
    <2>1. slots[i] \in SlotRecords /\ slots \in [Slots -> SlotRecords]
        BY <1>0, <1>1 DEF HeldTypes
    <2>2. /\ new \in SlotRecords /\ new.ssrc = s /\ new.user = rx.user
          /\ new.pushed = slots[i].pushed /\ new.read = slots[i].read
        BY <1>1, <2>1 DEF SlotRecords
    <2>3. slots' = [slots EXCEPT ![i] = new]
        BY <1>2
    <2>. HIDE DEF new
    <2>. QED  BY <1>1, <2>1, <2>2, <2>3
<1>4. rx'.at = "decode" /\ rx'.slot = i /\ rx'.packet = rx.packet
    BY <1>0, <1>2 DEF HeldTypes
<1>5. HeldTypes'
    BY <1>0, <1>1, <1>2, <1>3, <1>4 DEF HeldTypes
<1>6. OneSlot'
    BY <1>0, <1>1, <1>3, <1>4 DEF OneSlot
<1>7. SlotIndices'
    BY <1>0, <1>2, <1>3 DEF SlotIndices, HeldTypes
<1>8. OwnSamples'
    <2>1. ASSUME NEW j \in Slots \ crossed', slots'[j].ssrc # NoStream,
                 NEW k \in (slots'[j].read + 1) .. Len(slots'[j].pushed)
          PROVE  slots'[j].pushed[k].of = slots'[j].ssrc
        <3>1. CASE j = i
            <4>1. slots[i].read = Len(slots[i].pushed) /\ Len(slots[i].pushed) \in Nat
                BY <1>0, <1>1, <1>2, <2>1, <3>1, Fields DEF OwnSamples
            <4>2. k \in (slots[i].read + 1) .. Len(slots[i].pushed)
                BY <1>1, <1>3, <2>1, <3>1
            <4>. QED  BY <4>1, <4>2
        <3>2. CASE j # i
            BY <1>0, <1>2, <1>3, <2>1, <3>2 DEF OwnSamples
        <3>. QED  BY <3>1, <3>2
    <2>. QED  BY <1>4, <2>1 DEF OwnSamples
<1>9. Owned'
    <2>1. s \in announced' \ raced' => rx.user = Owner[s]
        BY <1>0, <1>1, <1>2 DEF Owned
    <2>2. \A j \in Slots : slots'[j].ssrc \in announced' \ raced' =>
                               slots'[j].user = Owner[slots'[j].ssrc]
        BY <1>0, <1>2, <1>3, <2>1 DEF Owned
    <2>3. ASSUME (ui.at = "attribute" /\ ui.stream \notin raced)',
                 NEW j \in Slots, slots'[j].ssrc = ui'.stream
          PROVE  slots'[j].user = Owner[ui'.stream]
        <3>1. ui' = ui /\ s # ui.stream /\ ui.stream \notin raced
            BY <1>2, <2>3
        <3>. QED  BY <1>0, <1>3, <2>3, <3>1 DEF Owned
    <2>4. announced' \subseteq DOMAIN owners'
        BY <1>0, <1>2 DEF Owned
    <2>. QED  BY <1>4, <2>2, <2>3, <2>4 DEF Owned
<1>10. SlotsFreed'
    BY <1>0, <1>2, <1>3 DEF SlotsFreed
<1>. QED  BY <1>5, <1>6, <1>7, <1>8, <1>9, <1>10 DEF SlotsInv

(* Samples pushed behind those that wait are the only change to a slot.    *)
LEMMA Pushed ==
    ASSUME HeldTypes, NEW i \in Slots, NEW more \in Seq(Samples)
    PROVE  LET slot == [slots[i] EXCEPT !.pushed = @ \o more] IN
           /\ slot \in SlotRecords /\ Primed(slot) \in SlotRecords
           /\ slot.ssrc = slots[i].ssrc /\ slot.user = slots[i].user
           /\ slot.read = slots[i].read /\ slot.pushed = slots[i].pushed \o more
           /\ Primed(slot).ssrc = slots[i].ssrc /\ Primed(slot).user = slots[i].user
           /\ Primed(slot).read = slots[i].read
           /\ Primed(slot).pushed = slots[i].pushed \o more
<1>. DEFINE slot == [slots[i] EXCEPT !.pushed = slots[i].pushed \o more]
            filled == slot.primed \/ Waiting(slot) >= Prime
<1>1. slots[i] \in SlotRecords /\ slots[i].pushed \o more \in Seq(Samples)
    BY Fields
<1>2. /\ slot \in SlotRecords /\ slot.ssrc = slots[i].ssrc /\ slot.user = slots[i].user
      /\ slot.read = slots[i].read /\ slot.pushed = slots[i].pushed \o more
    BY <1>1 DEF SlotRecords
<1>. HIDE DEF slot
<1>3. Primed(slot) = [slot EXCEPT !.primed = filled]
    BY DEF Primed
<1>4. filled \in BOOLEAN
    OBVIOUS
<1>. HIDE DEF filled
<1>5. /\ Primed(slot) \in SlotRecords /\ Primed(slot).ssrc = slot.ssrc
      /\ Primed(slot).user = slot.user /\ Primed(slot).read = slot.read
      /\ Primed(slot).pushed = slot.pushed
    BY <1>2, <1>3, <1>4 DEF SlotRecords
<1>. QED  BY <1>2, <1>5 DEF slot

(* What is made up for and what is decoded is the stream's.                *)
LEMMA Made ==
    ASSUME NEW p \in Packets, NEW lost \in Nat
    PROVE  LET concealed == [j \in 1 .. lost |-> Sample(p, p.n - lost + j - 1, TRUE)]
               all == Append(concealed, Sample(p, p.n, FALSE))
           IN  /\ concealed \in Seq(Samples) /\ \A k \in 1 .. Len(concealed) : concealed[k].of = p.of
               /\ all \in Seq(Samples) /\ \A k \in 1 .. Len(all) : all[k].of = p.of
<1>. DEFINE concealed == [j \in 1 .. lost |-> Sample(p, p.n - lost + j - 1, TRUE)]
            last == Sample(p, p.n, FALSE)
<1>1. p.of \in Streams /\ p.share \in Nat /\ p.n \in Nat
    BY DEF Packets
<1>2. ASSUME NEW n \in Int
      PROVE  /\ Sample(p, n, TRUE) \in Samples /\ Sample(p, n, TRUE).of = p.of
             /\ Sample(p, n, FALSE) \in Samples /\ Sample(p, n, FALSE).of = p.of
    BY <1>1 DEF Sample, Samples
<1>3. last \in Samples /\ last.of = p.of
    BY <1>1 DEF Sample, Samples
<1>4. \A j \in 1 .. lost : p.n - lost + j - 1 \in Int
    BY <1>1
<1>5. \A j \in 1 .. lost : /\ Sample(p, p.n - lost + j - 1, TRUE) \in Samples
                           /\ Sample(p, p.n - lost + j - 1, TRUE).of = p.of
    BY <1>2, <1>4
<1>6. /\ concealed \in Seq(Samples) /\ Len(concealed) = lost
      /\ \A k \in 1 .. lost : concealed[k].of = p.of
    <2>1. concealed \in [1 .. lost -> Samples] /\ \A k \in 1 .. lost : concealed[k].of = p.of
        BY <1>5, Zenon
    <2>. HIDE DEF concealed
    <2>. QED  BY <2>1
<1>. HIDE DEF concealed, last
<1>7. /\ Append(concealed, last) \in Seq(Samples)
      /\ \A k \in 1 .. Len(Append(concealed, last)) : Append(concealed, last)[k].of = p.of
    BY <1>3, <1>6
<1>. QED  BY <1>6, <1>7 DEF concealed, last

(* A packet that is not late is made up for and decoded into its slot.     *)
LEMMA PlayKeeps ==
    ASSUME SlotsInv, Play PROVE SlotsInv'
<1>. DEFINE i == rx.slot
            p == rx.packet
            lost == Conceal(Ahead(p))
            concealed == [j \in 1 .. lost |-> Sample(p, p.n - lost + j - 1, TRUE)]
            more == IF Decodes(p) THEN Append(concealed, Sample(p, p.n, FALSE)) ELSE concealed
            before == slots[i].pushed
<1>0. HeldTypes /\ OneSlot /\ SlotIndices /\ OwnSamples /\ Owned /\ SlotsFreed
    BY DEF SlotsInv
<1>1. /\ rx.at = "decode" /\ i \in Slots /\ p \in Packets
      /\ slots[i].ssrc \in {NoStream, p.of}
    BY <1>0 DEF Play, HeldTypes, OneSlot
<1>2. /\ more \in Seq(Samples) /\ \A k \in 1 .. Len(more) : more[k].of = p.of
    <2>1. lost \in Nat
        BY VoiceAssumption DEF Conceal
    <2>. HIDE DEF lost, p
    <2>. QED  BY <1>1, <2>1, Made
<1>3. /\ slots' = [slots EXCEPT ![i] =
            IF Decodes(p) THEN Primed([slots[i] EXCEPT !.pushed = @ \o more])
                          ELSE [slots[i] EXCEPT !.pushed = @ \o more]]
      /\ rx' = Listening /\ decoders' = Expecting(p)
      /\ UNCHANGED <<share, owners, chosen, known, ui, cb, late, announced, raced, crossed>>
    <2>1. CASE Decodes(p)
        BY <2>1 DEF Play, control, interface
    <2>2. CASE ~Decodes(p)
        BY <2>2 DEF Play, control, interface
    <2>. QED  BY <2>1, <2>2
<1>. HIDE DEF i, p, more
<1>4. /\ slots' \in [Slots -> SlotRecords]
      /\ \A j \in Slots : /\ slots'[j].ssrc = slots[j].ssrc /\ slots'[j].user = slots[j].user
                          /\ slots'[j].read = slots[j].read
                          /\ j # i => slots'[j].pushed = slots[j].pushed
      /\ slots'[i].pushed = before \o more
    <2>1. slots \in [Slots -> SlotRecords]
        BY <1>0 DEF HeldTypes
    <2>. DEFINE slot == [slots[i] EXCEPT !.pushed = slots[i].pushed \o more]
                new == IF Decodes(p) THEN Primed(slot) ELSE slot
    <2>2. /\ new \in SlotRecords /\ new.ssrc = slots[i].ssrc /\ new.user = slots[i].user
          /\ new.read = slots[i].read /\ new.pushed = before \o more
        BY <1>0, <1>1, <1>2, Pushed
    <2>3. slots' = [slots EXCEPT ![i] = new]
        BY <1>3
    <2>. HIDE DEF new, before
    <2>. QED  BY <1>1, <2>1, <2>2, <2>3
<1>5. /\ before \in Seq(Samples) /\ Len(before) \in Nat
      /\ Len(before \o more) = Len(before) + Len(more) /\ Len(more) \in Nat
      /\ \A k \in 1 .. Len(before) : (before \o more)[k] = before[k]
      /\ \A k \in (Len(before) + 1) .. Len(before \o more) : (before \o more)[k].of = p.of
    <2>1. before \in Seq(Samples)
        BY <1>0, <1>1, Fields
    <2>. HIDE DEF before
    <2>2. /\ Len(before) \in Nat /\ Len(more) \in Nat
          /\ Len(before \o more) = Len(before) + Len(more)
          /\ \A k \in 1 .. Len(before) : (before \o more)[k] = before[k]
        BY <1>2, <2>1
    <2>3. ASSUME NEW k \in (Len(before) + 1) .. Len(before \o more)
          PROVE  (before \o more)[k].of = p.of
        <3>1. (before \o more)[k] = more[k - Len(before)] /\ k - Len(before) \in 1 .. Len(more)
            BY <1>2, <2>1, <2>2
        <3>. QED  BY <1>2, <3>1
    <2>. QED  BY <2>1, <2>2, <2>3
<1>6. HeldTypes'
    <2>1. DOMAIN decoders' \subseteq Streams
        BY <1>0, <1>1, <1>3 DEF Expecting, HeldTypes, Packets
    <2>. QED  BY <1>0, <1>3, <1>4, <2>1 DEF HeldTypes, Listening
<1>7. /\ rx'.at = "recv"
      /\ UNCHANGED <<owners, known, ui, cb, late, announced, raced, crossed>>
    BY <1>3 DEF Listening
<1>8. OneSlot' /\ Owned' /\ SlotsFreed'
    <2>1. OneSlot'
        BY <1>0, <1>4, <1>7 DEF OneSlot
    <2>2. Owned'
        BY <1>0, <1>4, <1>7 DEF Owned
    <2>. QED  BY <1>0, <1>4, <1>7, <2>1, <2>2 DEF SlotsFreed
<1>9. SlotIndices'
    <2>1. ASSUME NEW j \in Slots
          PROVE  /\ Len(slots[j].pushed) \in Nat /\ slots[j].read \in Nat
                 /\ Len(slots[j].pushed) <= Len(slots'[j].pushed)
                 /\ Len(slots'[j].pushed) \in Nat
        <3>1. Len(slots[j].pushed) \in Nat /\ slots[j].read \in Nat
            BY <1>0, Fields
        <3>2. CASE j = i
            <4>. HIDE DEF before
            <4>1. Len(slots'[j].pushed) = Len(before) + Len(more)
                BY <1>4, <1>5, <3>2
            <4>2. Len(slots[j].pushed) = Len(before)
                BY <3>2 DEF before
            <4>. QED  BY <1>5, <3>1, <4>1, <4>2
        <3>3. CASE j # i
            BY <1>4, <3>1, <3>3
        <3>. QED  BY <3>2, <3>3
    <2>2. \A j \in Slots : slots'[j].read <= Len(slots'[j].pushed)
        BY <1>0, <1>4, <2>1 DEF SlotIndices
    <2>3. ASSUME cb.at = "pop"
          PROVE  /\ cb.read + cb.n <= Len(slots'[cb.slot].pushed)
                 /\ cb.slot \notin crossed => slots'[cb.slot].read = cb.read
        <3>1. cb.slot \in Slots /\ cb.read \in Nat /\ cb.n \in Nat
            BY <1>0, <2>3 DEF HeldTypes
        <3>2. /\ cb.read + cb.n <= Len(slots[cb.slot].pushed)
              /\ cb.slot \notin crossed => slots[cb.slot].read = cb.read
            BY <1>0, <2>3 DEF SlotIndices
        <3>. QED  BY <1>4, <2>1, <3>1, <3>2
    <2>. QED  BY <1>3, <2>2, <2>3 DEF SlotIndices
<1>10. OwnSamples'
    <2>1. ASSUME NEW j \in Slots \ crossed', slots'[j].ssrc # NoStream,
                 NEW k \in (slots'[j].read + 1) .. Len(slots'[j].pushed)
          PROVE  slots'[j].pushed[k].of = slots'[j].ssrc
        <3>1. CASE j = i /\ k > Len(before)
            <4>1. k \in (Len(before) + 1) .. Len(before \o more)
                BY <1>1, <1>4, <1>5, <2>1, <3>1
            <4>. QED  BY <1>1, <1>4, <1>5, <2>1, <3>1, <4>1
        <3>2. CASE j = i /\ k <= Len(before)
            <4>1. /\ slots[j].read \in Nat /\ slots'[j].read = slots[j].read
                  /\ slots'[j].ssrc = slots[j].ssrc
                BY <1>0, <1>4, <2>1, Fields
            <4>2. /\ k \in (slots[j].read + 1) .. Len(slots[j].pushed)
                  /\ k \in 1 .. Len(before)
                <5>1. k \in Int /\ slots[j].read + 1 <= k
                    BY <2>1, <4>1
                <5>2. k <= Len(slots[j].pushed) /\ Len(slots[j].pushed) = Len(before)
                    BY <3>2
                <5>. HIDE DEF before
                <5>. QED  BY <1>5, <4>1, <5>1, <5>2
            <4>5. j \in Slots \ crossed /\ slots[j].ssrc # NoStream
                BY <1>3, <2>1, <4>1
            <4>3. slots[j].pushed[k].of = slots[j].ssrc
                BY <1>0, <4>2, <4>5 DEF OwnSamples
            <4>4. slots'[j].pushed[k] = slots[j].pushed[k]
                BY <1>4, <1>5, <3>2, <4>2
            <4>. QED  BY <1>4, <4>3, <4>4
        <3>3. CASE j # i
            BY <1>0, <1>3, <1>4, <2>1, <3>3 DEF OwnSamples
        <3>4. k \in Int /\ Len(before) \in Int
            BY <1>0, <1>4, <1>5, <2>1, Fields
        <3>. QED  BY <3>1, <3>2, <3>3, <3>4
    <2>. QED  BY <1>3, <2>1 DEF OwnSamples, Listening
<1>. QED  BY <1>6, <1>8, <1>9, <1>10 DEF SlotsInv

----------------------------------------------------------------------------
(* The callback and the interface.                                         *)

(* What the callback took is read -- or what another thread had cleared is *)
(* there again, which the invariant excepts from then on.                  *)
LEMMA MixKeeps ==
    ASSUME SlotsInv, Mix PROVE SlotsInv'
<1>. DEFINE i == cb.slot
<1>0. HeldTypes /\ OneSlot /\ SlotIndices /\ OwnSamples /\ Owned /\ SlotsFreed
    BY DEF SlotsInv
<1>1. /\ cb.at = "pop" /\ i \in Slots /\ cb.read \in Nat /\ cb.n \in Nat
      /\ cb.read + cb.n <= Len(slots[i].pushed)
      /\ i \notin crossed => slots[i].read = cb.read
    BY <1>0 DEF Mix, HeldTypes, SlotIndices
<1>2. /\ slots' = [slots EXCEPT ![i] = [slots[i] EXCEPT !.read = cb.read + cb.n,
                                           !.primed = slots[i].primed /\ cb.n = Take]]
      /\ cb' = Between
      /\ UNCHANGED <<share, owners, chosen, known, ui, decoders, rx, late, announced, raced,
                     crossed>>
    <2>1. slots' = [slots EXCEPT ![i] = [slots[i] EXCEPT !.read = cb.read + cb.n,
                                            !.primed = slots[i].primed /\ cb.n = Take]]
        BY DEF Mix, Popped
    <2>. QED  BY <2>1 DEF Mix, control, interface, history
<1>3. /\ slots' \in [Slots -> SlotRecords]
      /\ \A j \in Slots : /\ j # i => slots'[j] = slots[j]
                          /\ slots'[j].ssrc = slots[j].ssrc /\ slots'[j].user = slots[j].user
                          /\ slots'[j].pushed = slots[j].pushed
      /\ slots'[i].read = cb.read + cb.n
    <2>. DEFINE filled == slots[i].primed /\ cb.n = Take
                end == cb.read + cb.n
                new == [slots[i] EXCEPT !.read = end, !.primed = filled]
    <2>1. slots[i] \in SlotRecords /\ slots \in [Slots -> SlotRecords]
        BY <1>0, <1>1 DEF HeldTypes
    <2>2. slots' = [slots EXCEPT ![i] = new]
        BY <1>2, Zenon
    <2>3. filled \in BOOLEAN
        OBVIOUS
    <2>4. end \in Nat
        BY <1>1
    <2>. HIDE DEF filled, end
    <2>5. /\ new \in SlotRecords /\ new.ssrc = slots[i].ssrc /\ new.user = slots[i].user
          /\ new.pushed = slots[i].pushed /\ new.read = end
        BY <2>1, <2>3, <2>4 DEF SlotRecords
    <2>. HIDE DEF new
    <2>. QED  BY <1>1, <2>1, <2>2, <2>5 DEF end
<1>4. cb'.at = "idle" /\ cb' = Between
    BY <1>2 DEF Between
<1>. HIDE DEF i
<1>5. HeldTypes'
    BY <1>0, <1>2, <1>3, <1>4 DEF HeldTypes, Between
<1>6. OneSlot' /\ Owned' /\ SlotsFreed'
    <2>1. UNCHANGED <<owners, known, ui, rx, late, announced, raced>>
        BY <1>2
    <2>2. OneSlot'
        BY <1>0, <1>3, <2>1 DEF OneSlot, HeldTypes
    <2>3. Owned'
        BY <1>0, <1>3, <2>1 DEF Owned
    <2>. QED  BY <1>0, <1>3, <2>1, <2>2, <2>3 DEF SlotsFreed
<1>7. SlotIndices'
    <2>1. ASSUME NEW j \in Slots PROVE slots'[j].read <= Len(slots'[j].pushed)
        BY <1>0, <1>1, <1>3 DEF SlotIndices
    <2>. QED  BY <1>4, <2>1 DEF SlotIndices
<1>8. OwnSamples'
    <2>0. UNCHANGED <<rx, crossed>>
        BY <1>2
    <2>1. ASSUME NEW j \in Slots \ crossed', slots'[j].ssrc # NoStream,
                 NEW k \in (slots'[j].read + 1) .. Len(slots'[j].pushed)
          PROVE  slots'[j].pushed[k].of = slots'[j].ssrc
        <3>1. CASE j = i
            <4>1. /\ k \in (cb.read + cb.n + 1) .. Len(slots[i].pushed)
                  /\ slots[i].read = cb.read /\ slots[i].ssrc # NoStream
                  /\ i \in Slots \ crossed
                BY <1>1, <1>3, <2>0, <2>1, <3>1
            <4>2. k \in (slots[i].read + 1) .. Len(slots[i].pushed)
                BY <1>1, <4>1
            <4>3. slots[i].pushed[k].of = slots[i].ssrc
                BY <1>0, <4>1, <4>2 DEF OwnSamples
            <4>. QED  BY <1>1, <1>3, <3>1, <4>3
        <3>2. CASE j # i
            BY <1>0, <1>3, <2>0, <2>1, <3>2 DEF OwnSamples
        <3>. QED  BY <3>1, <3>2
    <2>2. ASSUME (rx.at = "publish" /\ rx.slot \notin crossed)'
          PROVE  slots'[rx'.slot].read = Len(slots'[rx'.slot].pushed)
        <3>1. rx.slot \in Slots /\ slots[rx.slot].read = Len(slots[rx.slot].pushed)
            BY <1>0, <2>0, <2>2 DEF HeldTypes, OwnSamples
        <3>2. CASE rx.slot = i
            BY <1>1, <1>3, <2>0, <2>2, <3>1, <3>2
        <3>3. CASE rx.slot # i
            BY <1>3, <2>0, <3>1, <3>3
        <3>. QED  BY <3>2, <3>3
    <2>. QED  BY <2>1, <2>2 DEF OwnSamples
<1>. QED  BY <1>5, <1>6, <1>7, <1>8 DEF SlotsInv

(* A stream is announced: its slot is its owner's from the next step on.   *)
LEMMA ReadStartedKeeps ==
    ASSUME SlotsInv, NEW s \in Streams, ReadStarted(s) PROVE SlotsInv'
<1>0. HeldTypes /\ OneSlot /\ SlotIndices /\ OwnSamples /\ Owned /\ SlotsFreed
    BY DEF SlotsInv
<1>1. /\ slots' = Marked(s)
      /\ ui' = [at |-> "attribute", stream |-> s, slot |-> NoStream]
      /\ known' = known \cup {s} /\ late' = late \ {s}
      /\ UNCHANGED <<share, owners, chosen, decoders, rx, cb, announced, raced, crossed>>
    BY DEF ReadStarted, control
<1>2. /\ slots' \in [Slots -> SlotRecords]
      /\ \A j \in Slots :
            /\ slots'[j].ssrc = slots[j].ssrc /\ slots'[j].pushed = slots[j].pushed
            /\ slots'[j].read = slots[j].read
            /\ slots'[j].user = IF slots[j].ssrc = s THEN Owner[s] ELSE slots[j].user
    <2>1. ASSUME NEW j \in Slots
          PROVE  /\ Marked(s)[j] \in SlotRecords
                 /\ Marked(s)[j].ssrc = slots[j].ssrc /\ Marked(s)[j].pushed = slots[j].pushed
                 /\ Marked(s)[j].read = slots[j].read
                 /\ Marked(s)[j].user = IF slots[j].ssrc = s THEN Owner[s] ELSE slots[j].user
        <3>1. slots[j] \in SlotRecords /\ Owner[s] \in Users
            BY <1>0, VoiceAssumption DEF HeldTypes
        <3>. QED  BY <3>1 DEF Marked, Held, SlotRecords
    <2>. QED  BY <1>1, <2>1 DEF Marked
<1>3. ui'.at = "attribute" /\ ui'.stream = s
    BY <1>1
<1>4. HeldTypes'
    <2>1. ui' \in [at : {"idle", "attribute", "clear"}, stream : Streams \cup {NoStream},
                   slot : Slots \cup {NoStream}]
        BY <1>1
    <2>. QED  BY <1>0, <1>1, <1>2, <1>3, <2>1 DEF HeldTypes
<1>5. UNCHANGED <<owners, rx, cb, announced, raced, crossed>>
    BY <1>1
<1>6. OneSlot' /\ SlotIndices'
    <2>1. OneSlot'
        BY <1>0, <1>2, <1>5 DEF OneSlot, HeldTypes
    <2>2. SlotIndices'
        BY <1>0, <1>2, <1>5 DEF SlotIndices, HeldTypes
    <2>. QED  BY <2>1, <2>2
<1>7. OwnSamples'
    <2>1. ASSUME NEW j \in Slots \ crossed', slots'[j].ssrc # NoStream,
                 NEW k \in (slots'[j].read + 1) .. Len(slots'[j].pushed)
          PROVE  slots'[j].pushed[k].of = slots'[j].ssrc
        BY <1>0, <1>2, <1>5, <2>1 DEF OwnSamples
    <2>2. (rx.at = "publish" /\ rx.slot \notin crossed)' =>
              slots'[rx'.slot].read = Len(slots'[rx'.slot].pushed)
        BY <1>0, <1>2, <1>5 DEF OwnSamples, HeldTypes
    <2>. QED  BY <2>1, <2>2 DEF OwnSamples
<1>8. Owned'
    BY <1>0, <1>2, <1>3, <1>5 DEF Owned
<1>9. SlotsFreed'
    BY <1>0, <1>1, <1>2 DEF SlotsFreed
<1>. QED  BY <1>4, <1>6, <1>7, <1>8, <1>9 DEF SlotsInv

(* The table learns of the stream, and whoever claimed a slot for it while *)
(* it did not know is excepted.                                            *)
LEMMA AttributeKeeps ==
    ASSUME SlotsInv, Attribute PROVE SlotsInv'
<1>. DEFINE s == ui.stream
<1>0. HeldTypes /\ OneSlot /\ SlotIndices /\ OwnSamples /\ Owned /\ SlotsFreed
    BY DEF SlotsInv
<1>1. /\ ui.at = "attribute" /\ s \in Streams /\ Owner[s] \in Users
      /\ chosen[Owner[s]] \in Volumes
    BY <1>0, VoiceAssumption DEF Attribute, HeldTypes
<1>2. /\ owners' = Remembered(s)
      /\ slots' = Loudness(slots, Owner[s], chosen[Owner[s]])
      /\ ui' = AtRest /\ announced' = announced \cup {s}
      /\ raced' = IF rx.at = "publish" /\ rx.packet.of = s THEN raced \cup {s} ELSE raced
      /\ UNCHANGED <<share, chosen, known, decoders, rx, cb, late, crossed>>
    BY DEF Attribute, control
<1>. HIDE DEF s
<1>3. /\ slots' \in [Slots -> SlotRecords]
      /\ \A i \in Slots : /\ slots'[i].ssrc = slots[i].ssrc /\ slots'[i].user = slots[i].user
                          /\ slots'[i].pushed = slots[i].pushed
                          /\ slots'[i].read = slots[i].read
    <2>1. slots \in [Slots -> SlotRecords]
        BY <1>0 DEF HeldTypes
    <2>. QED  BY <1>1, <1>2, <2>1, LoudnessOnly
<1>4. /\ DOMAIN owners' = DOMAIN owners \cup {s}
      /\ \A t \in DOMAIN owners' : owners'[t] = Owner[t]
    BY <1>0, <1>2 DEF Remembered, HeldTypes
<1>5. UNCHANGED <<rx, cb, known, late, crossed>> /\ ui'.at = "idle"
    BY <1>2 DEF AtRest
<1>6. HeldTypes'
    BY <1>0, <1>1, <1>2, <1>3, <1>4 DEF HeldTypes, AtRest
<1>7. OneSlot' /\ SlotIndices' /\ SlotsFreed'
    <2>1. OneSlot'
        BY <1>0, <1>3, <1>5 DEF OneSlot, HeldTypes
    <2>2. SlotIndices'
        BY <1>0, <1>3, <1>5 DEF SlotIndices, HeldTypes
    <2>. QED  BY <1>0, <1>3, <1>5, <2>1, <2>2 DEF SlotsFreed
<1>8. OwnSamples'
    <2>1. ASSUME NEW j \in Slots \ crossed', slots'[j].ssrc # NoStream,
                 NEW k \in (slots'[j].read + 1) .. Len(slots'[j].pushed)
          PROVE  slots'[j].pushed[k].of = slots'[j].ssrc
        BY <1>0, <1>3, <1>5, <2>1 DEF OwnSamples
    <2>2. (rx.at = "publish" /\ rx.slot \notin crossed)' =>
              slots'[rx'.slot].read = Len(slots'[rx'.slot].pushed)
        BY <1>0, <1>3, <1>5 DEF OwnSamples, HeldTypes
    <2>. QED  BY <2>1, <2>2 DEF OwnSamples
<1>9. Owned'
    <2>1. announced' \subseteq DOMAIN owners'
        BY <1>0, <1>2, <1>4 DEF Owned
    <2>2. ASSUME NEW j \in Slots, slots'[j].ssrc \in announced' \ raced'
          PROVE  slots'[j].user = Owner[slots'[j].ssrc]
        <3>1. slots[j].ssrc \in announced \cup {s} /\ slots[j].ssrc \notin raced
            BY <1>2, <1>3, <2>2
        <3>2. slots[j].user = Owner[slots[j].ssrc]
            BY <1>0, <1>1, <3>1 DEF Owned, s
        <3>. QED  BY <1>3, <3>2
    <2>3. (rx.at = "publish" /\ rx.packet.of \in announced \ raced)' =>
              rx'.user = Owner[rx'.packet.of]
        BY <1>0, <1>2, <1>5 DEF Owned
    <2>. QED  BY <1>5, <2>1, <2>2, <2>3 DEF Owned
<1>. QED  BY <1>6, <1>7, <1>8, <1>9 DEF SlotsInv

(* A stream is over: its slot is nobody's.                                 *)
LEMMA ReadStoppedKeeps ==
    ASSUME SlotsInv, NEW s \in Streams, ReadStopped(s) PROVE SlotsInv'
<1>0. HeldTypes /\ OneSlot /\ SlotIndices /\ OwnSamples /\ Owned /\ SlotsFreed
    BY DEF SlotsInv
<1>1. /\ slots' = [i \in Slots |-> IF slots[i].ssrc = s
                                   THEN [slots[i] EXCEPT !.ssrc = NoStream] ELSE slots[i]]
      /\ ui' = IF Held(s) = {} THEN ui
               ELSE [at |-> "clear", stream |-> s, slot |-> Lowest(Held(s))]
      /\ ui.at = "idle" /\ known' = known \ {s}
      /\ UNCHANGED <<share, owners, chosen, decoders, rx, cb, late, announced, raced, crossed>>
    BY DEF ReadStopped, Read, Retired, Held, control
<1>2. /\ slots' \in [Slots -> SlotRecords]
      /\ \A j \in Slots :
            /\ slots'[j].user = slots[j].user /\ slots'[j].pushed = slots[j].pushed
            /\ slots'[j].read = slots[j].read
            /\ slots'[j].ssrc = IF slots[j].ssrc = s THEN NoStream ELSE slots[j].ssrc
    <2>1. ASSUME NEW j \in Slots
          PROVE  LET new == [slots[j] EXCEPT !.ssrc = NoStream] IN
                 /\ slots[j] \in SlotRecords /\ new \in SlotRecords /\ new.ssrc = NoStream
                 /\ new.user = slots[j].user /\ new.pushed = slots[j].pushed
                 /\ new.read = slots[j].read
        <3>1. slots[j] \in SlotRecords
            BY <1>0 DEF HeldTypes
        <3>. QED  BY <3>1 DEF SlotRecords
    <2>. QED  BY <1>1, <2>1
<1>3. Held(s) # {} => Lowest(Held(s)) \in Slots
    <2>1. Held(s) \in SUBSET Slots
        BY DEF Held
    <2>. QED  BY <2>1, LowestIsOne
<1>4. UNCHANGED <<owners, rx, cb, late, announced, raced, crossed>> /\ ui'.at # "attribute"
    BY <1>1
<1>5. HeldTypes'
    <2>1. /\ ui' \in [at : {"idle", "attribute", "clear"}, stream : Streams \cup {NoStream},
                      slot : Slots \cup {NoStream}]
          /\ ui'.at = "clear" => ui'.slot \in Slots
        BY <1>0, <1>1, <1>3 DEF HeldTypes
    <2>. QED  BY <1>0, <1>1, <1>2, <1>4, <2>1 DEF HeldTypes
<1>6. OneSlot'
    <2>1. \A i, j \in Slots :
            slots'[i].ssrc = slots'[j].ssrc => i = j \/ slots'[i].ssrc = NoStream
        BY <1>0, <1>2 DEF OneSlot
    <2>2. rx.at # "recv" => rx.slot \in Slots /\ rx.packet.of \in Streams
        BY <1>0 DEF HeldTypes, Packets
    <2>3. (rx.at = "publish")' => /\ slots'[rx'.slot].ssrc = NoStream
                                  /\ \A i \in Slots : slots'[i].ssrc # rx'.packet.of
        BY <1>0, <1>2, <1>4, <2>2, VoiceAssumption DEF OneSlot
    <2>4. (rx.at = "decode")' => slots'[rx'.slot].ssrc \in {NoStream, rx'.packet.of}
        BY <1>0, <1>2, <1>4, <2>2 DEF OneSlot
    <2>. QED  BY <2>1, <2>3, <2>4 DEF OneSlot
<1>7. SlotIndices'
    BY <1>0, <1>2, <1>4 DEF SlotIndices, HeldTypes
<1>8. OwnSamples'
    <2>1. ASSUME NEW j \in Slots \ crossed', slots'[j].ssrc # NoStream,
                 NEW k \in (slots'[j].read + 1) .. Len(slots'[j].pushed)
          PROVE  slots'[j].pushed[k].of = slots'[j].ssrc
        <3>1. slots'[j].ssrc = slots[j].ssrc
            BY <1>2, <2>1
        <3>. QED  BY <1>0, <1>2, <1>4, <2>1, <3>1 DEF OwnSamples
    <2>2. (rx.at = "publish" /\ rx.slot \notin crossed)' =>
              slots'[rx'.slot].read = Len(slots'[rx'.slot].pushed)
        BY <1>0, <1>2, <1>4 DEF OwnSamples, HeldTypes
    <2>. QED  BY <2>1, <2>2 DEF OwnSamples
<1>9. Owned'
    <2>1. NoStream \notin announced
        BY <1>0, VoiceAssumption DEF Owned, HeldTypes
    <2>. QED  BY <1>0, <1>2, <1>4, <2>1 DEF Owned
<1>10. SlotsFreed'
    BY <1>0, <1>1, <1>2 DEF SlotsFreed
<1>. QED  BY <1>5, <1>6, <1>7, <1>8, <1>9, <1>10 DEF SlotsInv

(* The slot of a stream that is over is emptied, whoever has it by now.    *)
LEMMA ClearKeeps ==
    ASSUME SlotsInv, ClearRetired PROVE SlotsInv'
<1>. DEFINE i == ui.slot
<1>0. HeldTypes /\ OneSlot /\ SlotIndices /\ OwnSamples /\ Owned /\ SlotsFreed
    BY DEF SlotsInv
<1>1. ui.at = "clear" /\ i \in Slots
    BY <1>0 DEF ClearRetired, HeldTypes
<1>2. /\ slots' = [slots EXCEPT ![i] = Cleared(slots[i])]
      /\ ui' = AtRest /\ crossed' = crossed \cup Crossing({i})
      /\ UNCHANGED <<share, owners, chosen, known, decoders, rx, cb, late, announced, raced>>
    BY DEF ClearRetired, control
<1>. HIDE DEF i
<1>3. /\ slots' \in [Slots -> SlotRecords]
      /\ \A j \in Slots : /\ slots'[j].ssrc = slots[j].ssrc /\ slots'[j].user = slots[j].user
                          /\ slots'[j].pushed = slots[j].pushed
                          /\ j # i => slots'[j].read = slots[j].read
      /\ slots'[i].read = Len(slots[i].pushed)
    <2>1. slots \in [Slots -> SlotRecords]
        BY <1>0 DEF HeldTypes
    <2>. QED  BY <1>0, <1>1, <1>2, <2>1, ClearedSlot
<1>4. /\ cb.at = "pop" /\ cb.slot = i => i \in crossed'
      /\ crossed \subseteq crossed' /\ ui'.at = "idle"
      /\ UNCHANGED <<owners, known, rx, cb, late, announced, raced>>
    BY <1>2 DEF Crossing, AtRest
<1>5. HeldTypes'
    BY <1>0, <1>2, <1>3 DEF HeldTypes, AtRest
<1>6. OneSlot'
    <2>1. \A j, k \in Slots :
            slots'[j].ssrc = slots'[k].ssrc => j = k \/ slots'[j].ssrc = NoStream
        BY <1>0, <1>3 DEF OneSlot
    <2>2. rx.at # "recv" => rx.slot \in Slots
        BY <1>0 DEF HeldTypes
    <2>. QED  BY <1>0, <1>3, <1>4, <2>1, <2>2 DEF OneSlot
<1>7. SlotIndices'
    <2>1. \A j \in Slots : Len(slots[j].pushed) \in Nat
        BY <1>0, Fields
    <2>. QED  BY <1>0, <1>1, <1>3, <1>4, <2>1 DEF SlotIndices, HeldTypes
<1>8. OwnSamples'
    <2>1. ASSUME NEW j \in Slots \ crossed', slots'[j].ssrc # NoStream,
                 NEW k \in (slots'[j].read + 1) .. Len(slots'[j].pushed)
          PROVE  slots'[j].pushed[k].of = slots'[j].ssrc
        <3>1. CASE j = i
            <4>1. slots'[j].read = Len(slots'[j].pushed) /\ Len(slots'[j].pushed) \in Nat
                BY <1>0, <1>1, <1>3, <3>1, Fields
            <4>. QED  BY <2>1, <4>1
        <3>2. CASE j # i
            BY <1>0, <1>3, <1>4, <2>1, <3>2 DEF OwnSamples
        <3>. QED  BY <3>1, <3>2
    <2>2. (rx.at = "publish" /\ rx.slot \notin crossed)' =>
              slots'[rx'.slot].read = Len(slots'[rx'.slot].pushed)
        BY <1>0, <1>1, <1>3, <1>4 DEF OwnSamples, HeldTypes
    <2>. QED  BY <2>1, <2>2 DEF OwnSamples
<1>9. Owned'
    BY <1>0, <1>3, <1>4 DEF Owned
<1>10. SlotsFreed'
    BY <1>0, <1>3, <1>4 DEF SlotsFreed
<1>. QED  BY <1>5, <1>6, <1>7, <1>8, <1>9, <1>10 DEF SlotsInv

----------------------------------------------------------------------------
(* The theorems.                                                           *)

(* Packets on the way are packets.                                         *)
LEMMA WayIsTyped ==
    ASSUME HeldTypes, NEW s \in Streams, NEW p \in OnTheWay(s) PROVE p \in Packets
<1>1. /\ Sent[s] \in Nat /\ share[s] \in Nat /\ MaxPackets[s] \in Nat
    BY VoiceAssumption DEF HeldTypes
<1>2. \A j \in 1 .. MaxPackets[s] : j \in Nat /\ Sent[s] + j \in Nat
    BY <1>1
<1>3. \A k \in 1 .. share[s] : k \in Nat
    BY <1>1
<1>. QED  BY <1>2, <1>3 DEF OnTheWay, Packets

LEMMA SlotsStart == VoiceInit => SlotsInv
<1>. SUFFICES ASSUME VoiceInit PROVE SlotsInv
    OBVIOUS
<1>1. FreeSlot \in SlotRecords
    <2>1. <<>> \in Seq(Samples)
        OBVIOUS
    <2>. QED  BY <2>1, VoiceAssumption DEF FreeSlot, SlotRecords
<1>2. \A i \in Slots : slots[i] = FreeSlot
    BY DEF VoiceInit
<1>3. HeldTypes
    BY <1>1, VoiceAssumption DEF VoiceInit, HeldTypes, Listening, Between, AtRest
<1>4. /\ FreeSlot.ssrc = NoStream /\ FreeSlot.pushed = <<>> /\ FreeSlot.read = 0
      /\ rx.at = "recv" /\ cb.at = "idle" /\ ui.at = "idle"
      /\ announced = {}
    BY DEF FreeSlot, VoiceInit, Listening, Between, AtRest
<1>5. OneSlot /\ Owned /\ SlotsFreed
    BY <1>2, <1>4 DEF OneSlot, Owned, SlotsFreed
<1>6. SlotIndices /\ OwnSamples
    BY <1>2, <1>4 DEF SlotIndices, OwnSamples
<1>. QED  BY <1>3, <1>5, <1>6 DEF SlotsInv

LEMMA SlotsKept == SlotsInv /\ [VoiceNext]_voiceVars => SlotsInv'
<1>. SUFFICES ASSUME SlotsInv, [VoiceNext]_voiceVars PROVE SlotsInv'
    OBVIOUS
<1>1. CASE Call
    BY <1>1, CallKeeps
<1>2. CASE Receiver
    <2>1. ASSUME NEW s \in Streams, NEW p \in OnTheWay(s), Receive(p) \/ Claim(p)
          PROVE  SlotsInv'
        <3>1. p \in Packets
            BY WayIsTyped DEF SlotsInv
        <3>. QED  BY <2>1, <3>1, ReceiveKeeps, ClaimKeeps
    <2>. QED  BY <1>2, <2>1, PublishKeeps, PlayKeeps, DropKeeps DEF Receiver
<1>3. CASE Playback
    BY <1>3, EnterKeeps, MixKeeps DEF Playback
<1>4. CASE Interface
    BY <1>4, ReadStartedKeeps, ReadStoppedKeeps, ReadMovedKeeps, AttributeKeeps, ClearKeeps,
       DeafenKeeps, AdjustKeeps DEF Interface
<1>5. CASE UNCHANGED voiceVars
    <2>1. UNCHANGED <<share, slots, owners, chosen, known, ui, decoders, rx, cb, late,
                      announced, raced, crossed>>
        BY <1>5 DEF voiceVars, control, interface, history
    <2>2. HeldTypes'
        BY <2>1 DEF SlotsInv, HeldTypes
    <2>. QED  BY <2>1, <2>2, Aside
<1>. QED  BY <1>1, <1>2, <1>3, <1>4, <1>5 DEF VoiceNext

(* The invariant says what the run checks.                                 *)
LEMMA Promised == SlotsInv => OwnSlots
<1>. SUFFICES ASSUME SlotsInv PROVE OwnSlots
    OBVIOUS
<1>0. HeldTypes /\ OneSlot /\ SlotIndices /\ OwnSamples /\ Owned /\ SlotsFreed
    BY DEF SlotsInv
<1>1. VoiceTypes
    <2>1. \A i \in Slots :
            /\ slots[i].ssrc \in Streams \cup {NoStream}
            /\ slots[i].user \in Users \cup {Nobody} /\ slots[i].volume \in Volumes
            /\ slots[i].read \in 0 .. Len(slots[i].pushed)
        BY <1>0, Fields DEF SlotIndices
    <2>2. /\ rx.at \in {"recv", "publish", "decode"} /\ cb.at \in {"idle", "pop"}
          /\ ui.at \in {"idle", "attribute", "clear"}
          /\ DOMAIN owners \cup DOMAIN decoders \cup known \subseteq Streams
        BY <1>0 DEF HeldTypes
    <2>. QED  BY <2>1, <2>2 DEF VoiceTypes
<1>2. Claiming
    BY <1>0 DEF OneSlot, Claiming, Held
<1>3. ASSUME NEW s \in Streams PROVE Cardinality(Held(s)) <= 1
    <2>1. CASE Held(s) = {}
        BY <2>1, FS_EmptySet
    <2>2. CASE Held(s) # {}
        <3>1. PICK i \in Slots : slots[i].ssrc = s
            BY <2>2 DEF Held
        <3>2. \A j \in Slots : slots[j].ssrc = s => j = i
            BY <1>0, <3>1, VoiceAssumption DEF OneSlot
        <3>3. Held(s) = {i}
            BY <3>1, <3>2, Zenon DEF Held
        <3>. QED  BY <3>3, FS_Singleton
    <2>. QED  BY <2>1, <2>2
<1>4. OwnVoice
    BY <1>0 DEF OwnSamples, OwnVoice
<1>5. Attributed
    BY <1>0 DEF Owned, Attributed
<1>. QED  BY <1>0, <1>1, <1>2, <1>3, <1>4, <1>5 DEF OwnSlots, VoiceInv

(* Whatever the three threads do, and in whatever order, what each holds   *)
(* amid a step is as it was left for it. (run_rx, slot_for, fill,          *)
(* VoiceSession's attribute and drop_speaker)                              *)
THEOREM VoiceInvariant == VoiceSpec => []SlotsInv
<1>. QED  BY SlotsStart, SlotsKept, PTL DEF VoiceSpec

(* A stream has one slot at most, nobody is heard in another's slot, each  *)
(* is heard as its owner, and those who left make room -- each but for the *)
(* races its definition names. (slot_for, attribute, forget)               *)
THEOREM VoiceOwnSlots == VoiceSpec => []OwnSlots
<1>. QED  BY VoiceInvariant, Promised, PTL

----------------------------------------------------------------------------
(* The order of what is heard.                                             *)

\* The numbers of the packets s sends in a call, whatever it shares.
Numbered(s) ==
    IF s \in Sounds THEN 1 .. (Sent[s] + MaxPackets[s])
    ELSE IF s \in Present THEN (Sent[s] + 1) .. (Sent[s] + MaxPackets[s])
    ELSE 1 .. MaxPackets[s]

\* A voice begins once.
VoicesOnce ==
    /\ stage \in [Streams -> {"new", "in", "out"}]
    /\ \A s \in Present \ Sounds : stage[s] # "new" /\ share[s] = 0

\* What the stream of x has begun since is not over.
Current(x) == <<x.of, x.share>> \notin over

\* A packet in hand was sent, goes to the only slot its stream may have, and to
\* that of another only when its share is over.
InHand ==
    rx.at # "recv" =>
        /\ rx.packet.share <= share[rx.packet.of]
        /\ rx.packet.n \in Numbered(rx.packet.of)
        /\ rx.at = "decode" =>
              /\ \A i \in Slots : slots[i].ssrc = rx.packet.of => i = rx.slot
              /\ Current(rx.packet) => slots[rx.slot].ssrc = rx.packet.of

\* A decoder expects what follows a packet that was accepted.
Expected ==
    /\ accepted \subseteq Packets
    /\ \A p \in accepted : p.n \in Numbered(p.of)
    /\ \A s \in DOMAIN decoders :
          \E p \in accepted : p.of = s /\ decoders[s] = (p.n + 1) % SeqSpace

\* The decoder of l's stream has passed the number n, and nothing from after l up
\* to n was worth making up for.
Passed(l, n) ==
    /\ decoders[l.of] = (n + 1) % SeqSpace
    /\ l.n <= n
    /\ n - l.n > MaxConceal \/ \A k \in (l.n + 1) .. n : Undecodable(l.of, k)

\* The sample l is the last in slot i: while its share goes on, the slot is its
\* stream's and the stream's decoder expects what follows it.
FollowedFrom(i, l) ==
    /\ l.share <= share[l.of]
    /\ Current(l) => /\ slots[i].ssrc = l.of
                     /\ l.of \in DOMAIN decoders
                     /\ \E n \in Numbered(l.of) : Passed(l, n)

HeardSoFar ==
    \A i \in Slots :
        slots[i].pushed # <<>> => FollowedFrom(i, slots[i].pushed[Len(slots[i].pushed)])

OrderInv == VoicesOnce /\ InHand /\ Expected /\ HeardSoFar /\ InOrder

(* A number less than the modulus is its own remainder.                    *)
LEMMA Remainder ==
    ASSUME NEW x \in Int, -SeqSpace < x, x < SeqSpace
    PROVE  x % SeqSpace = IF x >= 0 THEN x ELSE x + SeqSpace
BY VoiceAssumption

(* The number after a packet's, wrapped once or twice.                     *)
LEMMA NextNumber ==
    ASSUME NEW n \in Nat PROVE ((n % SeqSpace) + 1) % SeqSpace = (n + 1) % SeqSpace
<1>. DEFINE a == n % SeqSpace
            b == (n + 1) % SeqSpace
            q == n \div SeqSpace
            r == (n + 1) \div SeqSpace
<1>1. /\ SeqSpace \in Nat /\ SeqSpace > 1
      /\ n = q * SeqSpace + a /\ n + 1 = r * SeqSpace + b
      /\ a \in 0 .. (SeqSpace - 1) /\ b \in 0 .. (SeqSpace - 1) /\ q \in Int /\ r \in Int
    BY VoiceAssumption
<1>. HIDE DEF a, b, q, r
<1>2. (r - q) * SeqSpace = a + 1 - b
    BY <1>1
<1>3. r - q \in {0, 1}
    <2>1. ASSUME r - q >= 2 PROVE FALSE
        <3>1. (r - q) * SeqSpace >= 2 * SeqSpace
            BY <1>1, <2>1
        <3>. QED  BY <1>1, <1>2, <3>1
    <2>2. ASSUME r - q <= -1 PROVE FALSE
        <3>1. (r - q) * SeqSpace <= -SeqSpace
            BY <1>1, <2>2
        <3>. QED  BY <1>1, <1>2, <3>1
    <2>. QED  BY <1>1, <2>1, <2>2
<1>4. CASE a + 1 < SeqSpace
    <2>1. b = a + 1
        BY <1>1, <1>2, <1>3, <1>4
    <2>2. (a + 1) % SeqSpace = a + 1
        BY <1>1, <1>4, Remainder
    <2>. QED  BY <2>1, <2>2 DEF a, b
<1>5. CASE a + 1 = SeqSpace
    <2>1. b = 0
        BY <1>1, <1>2, <1>3, <1>5
    <2>2. SeqSpace % SeqSpace = 0
        BY <1>1
    <2>. QED  BY <1>5, <2>1, <2>2 DEF a, b
<1>. QED  BY <1>1, <1>4, <1>5

(* Within what a stream numbers in a call, distance is difference: through *)
(* the wrap as well. (classify)                                            *)
LEMMA DistanceIsDifference ==
    ASSUME NEW s \in Streams, NEW n \in Numbered(s), NEW m \in Numbered(s)
    PROVE  /\ n \in Nat /\ m \in Nat
           /\ Distance((n + 1) % SeqSpace, m % SeqSpace) = m - (n + 1)
<1>1. /\ n \in Nat /\ m \in Nat /\ SeqSpace \in Nat /\ SeqSpace > 0
      /\ 2 * (m - (n + 1)) < SeqSpace /\ -SeqSpace <= 2 * (m - (n + 1))
    BY VoiceAssumption DEF Numbered
<1>. DEFINE a == (n + 1) % SeqSpace
            b == m % SeqSpace
            q == (n + 1) \div SeqSpace
            r == m \div SeqSpace
<1>2. /\ n + 1 = q * SeqSpace + a /\ m = r * SeqSpace + b
      /\ a \in 0 .. (SeqSpace - 1) /\ b \in 0 .. (SeqSpace - 1) /\ q \in Int /\ r \in Int
    BY <1>1
<1>. HIDE DEF a, b, q, r
<1>3. m - (n + 1) = (r - q) * SeqSpace + (b - a)
    BY <1>1, <1>2
<1>4. r - q \in {-1, 0, 1}
    <2>1. ASSUME r - q >= 2 PROVE FALSE
        <3>1. (r - q) * SeqSpace >= 2 * SeqSpace
            BY <1>1, <1>2, <2>1
        <3>. QED  BY <1>1, <1>2, <1>3, <3>1
    <2>2. ASSUME r - q <= -2 PROVE FALSE
        <3>1. (r - q) * SeqSpace <= -2 * SeqSpace
            BY <1>1, <1>2, <2>2
        <3>. QED  BY <1>1, <1>2, <1>3, <3>1
    <2>. QED  BY <1>2, <2>1, <2>2
<1>5. b - a \in {m - (n + 1), m - (n + 1) + SeqSpace, m - (n + 1) - SeqSpace}
    BY <1>1, <1>2, <1>3, <1>4
<1>6. (b - a) % SeqSpace = IF b - a >= 0 THEN b - a ELSE b - a + SeqSpace
    BY <1>1, <1>2, Remainder
<1>7. Distance(a, b) = m - (n + 1)
    BY <1>1, <1>2, <1>5, <1>6 DEF Distance
<1>. QED  BY <1>1, <1>7 DEF a, b

(* Steps that push nothing leave what was heard in order, if whoever loses *)
(* a slot is over.                                                         *)
LEMMA NothingPushed ==
    ASSUME SlotsInv, OrderInv,
           \A s \in Streams : share'[s] \in Nat /\ share[s] <= share'[s],
           over \subseteq over', UNCHANGED <<decoders, accepted>>,
           \A i \in Slots : /\ slots'[i].pushed = slots[i].pushed
                            /\ \/ slots'[i].ssrc = slots[i].ssrc
                               \/ slots[i].ssrc = NoStream
                               \/ Begun(slots[i].ssrc) \subseteq over'
    PROVE  Expected' /\ HeardSoFar' /\ InOrder'
<1>0. HeldTypes
    BY DEF SlotsInv
<1>1. Expected'
    BY DEF OrderInv, Expected
<1>2. ASSUME NEW s \in Streams, NEW n, Undecodable(s, n) PROVE Undecodable(s, n)'
    <2>1. share[s] \in Nat /\ share'[s] \in Nat /\ share[s] <= share'[s]
        BY <1>0 DEF HeldTypes
    <2>. QED  BY <1>2, <2>1 DEF Undecodable
<1>3. HeardSoFar'
    <2>. SUFFICES ASSUME NEW i \in Slots, slots'[i].pushed # <<>>, NEW l,
                         l = slots'[i].pushed[Len(slots'[i].pushed)]
                  PROVE  FollowedFrom(i, l)'
        BY DEF HeardSoFar, FollowedFrom, Current, Passed, Undecodable
    <2>2. l \in Samples /\ FollowedFrom(i, l)
        <3>1. slots[i].pushed \in Seq(Samples) /\ slots[i].pushed # <<>>
            BY <1>0, Fields
        <3>. QED  BY <3>1 DEF OrderInv, HeardSoFar
    <2>3. l.of \in Streams /\ l.share \in Nat /\ share[l.of] \in Nat /\ l.of # NoStream
        BY <1>0, <2>2, VoiceAssumption DEF Samples, HeldTypes
    <2>4. l.share <= share'[l.of]
        BY <2>2, <2>3 DEF FollowedFrom
    <2>5. ASSUME Current(l)'
          PROVE  /\ slots'[i].ssrc = l.of /\ l.of \in DOMAIN decoders'
                 /\ \E n \in Numbered(l.of) : Passed(l, n)'
        <3>1. Current(l)
            BY <2>5 DEF Current
        <3>2. slots[i].ssrc = l.of /\ l.of \in DOMAIN decoders
            BY <2>2, <3>1 DEF FollowedFrom
        <3>3. slots'[i].ssrc = l.of
            <4>1. <<l.of, l.share>> \in Begun(l.of)
                BY <2>2, <2>3 DEF Begun, FollowedFrom
            <4>. QED  BY <2>3, <2>5, <3>2, <4>1 DEF Current
        <3>4. PICK n \in Numbered(l.of) : Passed(l, n)
            BY <2>2, <3>1 DEF FollowedFrom
        <3>5. Passed(l, n)'
            BY <1>2, <2>3, <3>4 DEF Passed
        <3>. QED  BY <3>2, <3>3, <3>4, <3>5
    <2>. QED  BY <2>4, <2>5 DEF FollowedFrom
<1>4. InOrder'
    <2>. SUFFICES ASSUME NEW i \in Slots, NEW k \in 1 .. Len(slots[i].pushed) - 1,
                         NEW a, NEW b,
                         a = slots[i].pushed[k], b = slots[i].pushed[k + 1],
                         a.of = b.of /\ a.share = b.share /\ <<a.of, a.share>> \notin over'
                  PROVE  /\ a.n < b.n
                         /\ \/ Cardinality((a.n + 1) .. (b.n - 1)) > MaxConceal
                            \/ \A n \in (a.n + 1) .. (b.n - 1) : Undecodable(a.of, n)'
        BY DEF InOrder
    <2>1. a.of \in Streams
        <3>1. slots[i].pushed \in Seq(Samples) /\ Len(slots[i].pushed) \in Nat
            BY <1>0, Fields
        <3>2. a \in Samples
            BY <3>1
        <3>. QED  BY <3>2 DEF Samples
    <2>2. /\ a.n < b.n
          /\ \/ Cardinality((a.n + 1) .. (b.n - 1)) > MaxConceal
             \/ \A n \in (a.n + 1) .. (b.n - 1) : Undecodable(a.of, n)
        BY DEF OrderInv, InOrder
    <2>. QED  BY <1>2, <2>1, <2>2
<1>. QED  BY <1>1, <1>3, <1>4

(* Steps that push nothing, free no slot and leave the packet in hand.     *)
LEMMA OrderAside ==
    ASSUME SlotsInv, OrderInv, VoicesOnce',
           \A s \in Streams : share'[s] \in Nat /\ share[s] <= share'[s],
           over \subseteq over', UNCHANGED <<decoders, accepted>>,
           \A i \in Slots : /\ slots'[i].pushed = slots[i].pushed
                            /\ slots'[i].ssrc = slots[i].ssrc,
           rx' = rx \/ rx' = Listening
    PROVE  OrderInv'
<1>1. Expected' /\ HeardSoFar' /\ InOrder'
    BY NothingPushed
<1>2. InHand'
    <2>1. CASE rx' = Listening
        BY <2>1 DEF InHand, Listening
    <2>2. ASSUME rx' = rx, rx.at # "recv" PROVE InHand'
        <3>1. rx.packet \in Packets /\ rx.slot \in Slots
            BY <2>2 DEF SlotsInv, HeldTypes
        <3>2. rx.packet.of \in Streams /\ rx.packet.share \in Nat
            BY <3>1 DEF Packets
        <3>3. /\ rx.packet.share <= share[rx.packet.of]
              /\ share[rx.packet.of] \in Nat /\ rx.packet.n \in Numbered(rx.packet.of)
              /\ rx.at = "decode" =>
                    /\ \A i \in Slots : slots[i].ssrc = rx.packet.of => i = rx.slot
                    /\ Current(rx.packet) => slots[rx.slot].ssrc = rx.packet.of
            BY <2>2, <3>2 DEF OrderInv, InHand, SlotsInv, HeldTypes
        <3>4. rx.packet.share <= share'[rx.packet.of]
            BY <3>2, <3>3
        <3>. QED  BY <2>2, <3>1, <3>3, <3>4 DEF InHand, Current
    <2>. QED  BY <2>1, <2>2 DEF InHand
<1>. QED  BY <1>1, <1>2 DEF OrderInv

(* Streams begin and stop: what is on the way may only grow.               *)
LEMMA CallKeepsOrder ==
    ASSUME SlotsInv, OrderInv, Call PROVE OrderInv'
<1>0. VoicesOnce /\ share \in [Streams -> Nat]
    BY DEF OrderInv, SlotsInv, HeldTypes
<1>1. ASSUME NEW s \in Streams, Begin(s) PROVE OrderInv'
    <2>1. VoicesOnce'
        BY <1>0, <1>1 DEF Begin, VoicesOnce
    <2>2. /\ \A t \in Streams : share'[t] \in Nat /\ share[t] <= share'[t]
          /\ UNCHANGED <<slots, decoders, rx, accepted, over>>
        BY <1>0, <1>1 DEF Begin, history
    <2>. QED  BY <2>1, <2>2, OrderAside
<1>2. ASSUME NEW S, NEW how, Cease(S, how) PROVE OrderInv'
    <2>1. VoicesOnce'
        <3>1. /\ stage' = [s \in Streams |-> IF s \in S THEN "out" ELSE stage[s]]
              /\ share' = share
            BY <1>2 DEF Cease
        <3>2. \A s \in Streams : stage'[s] = "out" \/ stage'[s] = stage[s]
            BY <3>1
        <3>3. stage' \in [Streams -> {"new", "in", "out"}]
            BY <1>0, <3>1, <3>2 DEF VoicesOnce
        <3>. QED  BY <1>0, <3>1, <3>2, <3>3, VoiceAssumption DEF VoicesOnce
    <2>2. /\ \A t \in Streams : share'[t] \in Nat /\ share[t] <= share'[t]
          /\ UNCHANGED <<slots, decoders, rx, accepted, over>>
        BY <1>0, <1>2 DEF Cease, history
    <2>. QED  BY <2>1, <2>2, OrderAside
<1>. QED  BY <1>1, <1>2 DEF Call, StopSound, HangUp, MoveAway

(* Whatever arrives was sent.                                              *)
LEMMA OnTheWayIsSent ==
    ASSUME SlotsInv, OrderInv, NEW s \in Streams, NEW p \in OnTheWay(s)
    PROVE  p \in Packets /\ p.of = s /\ p.share <= share[s] /\ p.n \in Numbered(s)
<1>1. /\ share[s] \in Nat /\ MaxPackets[s] \in Nat /\ Sent[s] \in Nat
      /\ s \in Present \ Sounds => share[s] = 0
    BY VoiceAssumption DEF OrderInv, VoicesOnce, SlotsInv, HeldTypes
<1>2. CASE \E j \in IF s \in Present THEN 1 .. MaxPackets[s] ELSE {} :
                p = [of |-> s, share |-> 0, n |-> Sent[s] + j]
    BY <1>1, <1>2 DEF Packets, Numbered
<1>3. CASE \E k \in 1 .. share[s], j \in 1 .. MaxPackets[s] :
                p = [of |-> s, share |-> k, n |-> j]
    BY <1>1, <1>3 DEF Packets, Numbered
<1>. QED  BY <1>2, <1>3 DEF OnTheWay

LEMMA TakenKeepsOrder ==
    ASSUME SlotsInv, OrderInv, NEW s \in Streams, NEW p \in OnTheWay(s),
           Receive(p) \/ Claim(p)
    PROVE  OrderInv'
<1>0. HeldTypes /\ OneSlot /\ VoicesOnce
    BY DEF SlotsInv, OrderInv
<1>1. p \in Packets /\ p.of = s /\ p.share <= share[s] /\ p.n \in Numbered(s) /\ s # NoStream
    BY OnTheWayIsSent, VoiceAssumption
<1>2. /\ \A i \in Slots : slots'[i].pushed = slots[i].pushed /\ slots'[i].ssrc = slots[i].ssrc
      /\ UNCHANGED <<stage, share, decoders, accepted, over>>
    <2>1. CASE Receive(p)
        BY <2>1 DEF Receive, control, history
    <2>2. CASE Claim(p)
        <3>. DEFINE i == Lowest(Held(NoStream))
        <3>1. i \in Slots
            <4>1. Held(NoStream) # {} /\ Held(NoStream) \in SUBSET Slots
                BY <2>2 DEF Claim, Held
            <4>2. i \in Held(NoStream)
                BY <4>1, LowestIsOne
            <4>. QED  BY <4>2 DEF Held
        <3>2. slots' = [slots EXCEPT ![i] = Fresh(slots[i])]
            BY <2>2 DEF Claim
        <3>. HIDE DEF i
        <3>3. slots \in [Slots -> SlotRecords]
            BY <1>0 DEF HeldTypes
        <3>4. \A j \in Slots : slots'[j].pushed = slots[j].pushed /\ slots'[j].ssrc = slots[j].ssrc
            BY <1>0, <3>1, <3>2, <3>3, ClearedSlot
        <3>. QED  BY <2>2, <3>4 DEF Claim, control
    <2>. QED  BY <2>1, <2>2
<1>3. InHand'
    <2>1. CASE Receive(p)
        <3>1. PICK i \in Slots :
                /\ slots[i].ssrc = p.of
                /\ rx' = [at |-> "decode", packet |-> p, slot |-> i, user |-> Nobody]
            BY <2>1 DEF Receive, Held
        <3>2. \A j \in Slots : slots[j].ssrc = p.of => j = i
            BY <1>0, <1>1, <3>1 DEF OneSlot
        <3>. QED  BY <1>1, <1>2, <3>1, <3>2 DEF InHand
    <2>2. CASE Claim(p)
        <3>1. rx'.at = "publish" /\ rx'.packet = p
            BY <2>2 DEF Claim
        <3>. QED  BY <1>1, <1>2, <3>1 DEF InHand
    <2>. QED  BY <2>1, <2>2
<1>4. Expected' /\ HeardSoFar' /\ InOrder'
    <2>1. \A t \in Streams : share'[t] \in Nat /\ share[t] <= share'[t]
        BY <1>0, <1>2 DEF HeldTypes
    <2>. QED  BY <1>2, <2>1, NothingPushed
<1>5. VoicesOnce'
    BY <1>0, <1>2 DEF VoicesOnce
<1>. QED  BY <1>3, <1>4, <1>5 DEF OrderInv

(* The slot set aside for a stream without one becomes its only one.       *)
LEMMA PublishKeepsOrder ==
    ASSUME SlotsInv, OrderInv, PublishSlot PROVE OrderInv'
<1>. DEFINE i == rx.slot
            s == rx.packet.of
<1>0. HeldTypes /\ OneSlot /\ VoicesOnce /\ InHand
    BY DEF SlotsInv, OrderInv
<1>1. /\ rx.at = "publish" /\ i \in Slots /\ s \in Streams /\ s # NoStream
      /\ rx.user \in Users \cup {Nobody}
      /\ slots[i].ssrc = NoStream /\ \A j \in Slots : slots[j].ssrc # s
    BY <1>0, VoiceAssumption DEF PublishSlot, HeldTypes, OneSlot, Packets
<1>2. /\ slots' = [slots EXCEPT ![i] = [slots[i] EXCEPT !.user = rx.user, !.ssrc = s]]
      /\ rx' = [rx EXCEPT !.at = "decode"]
      /\ UNCHANGED <<stage, share, decoders, accepted, over>>
    BY DEF PublishSlot, control
<1>3. /\ slots'[i].ssrc = s /\ slots'[i].pushed = slots[i].pushed
      /\ \A j \in Slots : j # i => slots'[j] = slots[j]
    <2>1. slots[i] \in SlotRecords /\ slots \in [Slots -> SlotRecords]
        BY <1>0, <1>1 DEF HeldTypes
    <2>. QED  BY <1>1, <1>2, <2>1 DEF SlotRecords
<1>4. rx'.at = "decode" /\ rx'.slot = i /\ rx'.packet = rx.packet
    BY <1>0, <1>2 DEF HeldTypes
<1>5. InHand'
    BY <1>0, <1>1, <1>2, <1>3, <1>4 DEF InHand
<1>6. Expected' /\ HeardSoFar' /\ InOrder'
    <2>1. \A t \in Streams : share'[t] \in Nat /\ share[t] <= share'[t]
        BY <1>0, <1>2 DEF HeldTypes
    <2>2. \A j \in Slots : /\ slots'[j].pushed = slots[j].pushed
                           /\ slots'[j].ssrc = slots[j].ssrc \/ slots[j].ssrc = NoStream
        BY <1>1, <1>3
    <2>. QED  BY <1>2, <2>1, <2>2, NothingPushed
<1>7. VoicesOnce'
    BY <1>0, <1>2 DEF VoicesOnce
<1>. QED  BY <1>5, <1>6, <1>7 DEF OrderInv

\* What is made up for before a packet.
MadeUp(p, lost) == [j \in 1 .. lost |-> Sample(p, p.n - lost + j - 1, TRUE)]

\* What is made of it.
MadeOf(p, lost) ==
    IF Decodes(p) THEN Append(MadeUp(p, lost), Sample(p, p.n, FALSE)) ELSE MadeUp(p, lost)

(* What is made up for and what is decoded follow each other.              *)
LEMMA MadeInOrder ==
    ASSUME NEW p \in Packets, NEW lost \in Nat
    PROVE  /\ MadeOf(p, lost) \in Seq(Samples)
           /\ Len(MadeOf(p, lost)) = IF Decodes(p) THEN lost + 1 ELSE lost
           /\ \A k \in 1 .. Len(MadeOf(p, lost)) :
                  /\ MadeOf(p, lost)[k].of = p.of /\ MadeOf(p, lost)[k].share = p.share
                  /\ MadeOf(p, lost)[k].n = p.n - lost + k - 1
<1>. SUFFICES ASSUME NEW more, more = MadeOf(p, lost)
              PROVE  /\ more \in Seq(Samples)
                     /\ Len(more) = IF Decodes(p) THEN lost + 1 ELSE lost
                     /\ \A k \in 1 .. Len(more) :
                            /\ more[k].of = p.of /\ more[k].share = p.share
                            /\ more[k].n = p.n - lost + k - 1
    OBVIOUS
<1>1. p.n \in Nat
    BY DEF Packets
<1>2. /\ Len(MadeUp(p, lost)) = lost
      /\ \A k \in 1 .. lost : /\ MadeUp(p, lost)[k].share = p.share
                              /\ MadeUp(p, lost)[k].n = p.n - lost + k - 1
    BY DEF Sample, MadeUp
<1>3. /\ MadeUp(p, lost) \in Seq(Samples)
      /\ \A k \in 1 .. Len(MadeUp(p, lost)) : MadeUp(p, lost)[k].of = p.of
    BY Made DEF MadeUp
<1>4. PICK before, last : before = MadeUp(p, lost) /\ last = Sample(p, p.n, FALSE)
    OBVIOUS
<1>5. /\ last.of = p.of /\ last.share = p.share /\ last.n = p.n /\ last \in Samples
    BY <1>1, <1>4 DEF Sample, Samples, Packets
<1>10. last \in Samples
    BY <1>5
<1>11. last.of = p.of /\ last.share = p.share /\ last.n = p.n
    BY <1>5
<1>9. before \in Seq(Samples) /\ Len(before) = lost
    BY <1>2, <1>3, <1>4
<1>6. /\ \A k \in 1 .. lost : /\ before[k].of = p.of /\ before[k].share = p.share
                              /\ before[k].n = p.n - lost + k - 1
    BY <1>2, <1>3, <1>4
<1>7. CASE Decodes(p)
    <2>1. more = Append(before, last)
        BY <1>4, <1>7 DEF MadeOf
    <2>2. more \in Seq(Samples) /\ Len(more) = lost + 1
        BY <1>9, <1>10, <2>1
    <2>3. ASSUME NEW k \in 1 .. (lost + 1)
          PROVE  /\ more[k].of = p.of /\ more[k].share = p.share
                 /\ more[k].n = p.n - lost + k - 1
        <3>1. CASE k \in 1 .. lost
            <4>1. more[k] = before[k]
                BY <1>9, <1>10, <2>1, <3>1
            <4>. QED  BY <1>6, <3>1, <4>1
        <3>2. CASE k = lost + 1
            <4>1. more[k] = last
                BY <1>9, <1>10, <2>1, <3>2
            <4>. QED  BY <1>1, <1>11, <3>2, <4>1
        <3>3. k \in 1 .. lost \/ k = lost + 1
            OBVIOUS
        <3>. QED  BY <3>1, <3>2, <3>3
    <2>. QED  BY <1>7, <2>2, <2>3
<1>8. CASE ~Decodes(p)
    BY <1>4, <1>6, <1>8, <1>9 DEF MadeOf
<1>. QED  BY <1>7, <1>8

(* What playing a packet pushes, and where.                                *)
LEMMA PlayPushes ==
    ASSUME SlotsInv, Play, NEW p \in Packets, NEW i \in Slots, p = rx.packet, i = rx.slot,
           NEW lost \in Nat, lost = Conceal(Ahead(p))
    PROVE  /\ \E more \in Seq(Samples) :
                 /\ slots'[i].pushed = slots[i].pushed \o more
                 /\ Len(more) = IF Decodes(p) THEN lost + 1 ELSE lost
                 /\ \A k \in 1 .. Len(more) : /\ more[k].of = p.of /\ more[k].share = p.share
                                              /\ more[k].n = p.n - lost + k - 1
           /\ \A j \in Slots : /\ slots'[j].ssrc = slots[j].ssrc
                               /\ j # i => slots'[j].pushed = slots[j].pushed
<1>0. HeldTypes
    BY DEF SlotsInv
<1>1. PICK more \in Seq(Samples) : more = MadeOf(p, lost)
    BY MadeInOrder
<1>2. /\ Len(more) = IF Decodes(p) THEN lost + 1 ELSE lost
      /\ \A k \in 1 .. Len(more) : /\ more[k].of = p.of /\ more[k].share = p.share
                                   /\ more[k].n = p.n - lost + k - 1
    <2>1. /\ Len(MadeOf(p, lost)) = IF Decodes(p) THEN lost + 1 ELSE lost
          /\ \A k \in 1 .. Len(MadeOf(p, lost)) :
                 /\ MadeOf(p, lost)[k].of = p.of /\ MadeOf(p, lost)[k].share = p.share
                 /\ MadeOf(p, lost)[k].n = p.n - lost + k - 1
        BY MadeInOrder, Zenon
    <2>. QED  BY <1>1, <2>1, Zenon
<1>. DEFINE slot == [slots[i] EXCEPT !.pushed = slots[i].pushed \o more]
            new == IF Decodes(p) THEN Primed(slot) ELSE slot
<1>3. slots' = [slots EXCEPT ![i] = new]
    <2>1. CASE Decodes(p)
        BY <1>1, <2>1 DEF Play, MadeOf, MadeUp
    <2>2. CASE ~Decodes(p)
        BY <1>1, <2>2 DEF Play, MadeOf, MadeUp
    <2>. QED  BY <2>1, <2>2
<1>4. slots \in [Slots -> SlotRecords]
    BY <1>0 DEF HeldTypes
<1>5. new.ssrc = slots[i].ssrc /\ new.pushed = slots[i].pushed \o more
    BY <1>0, <1>2, Pushed
<1>. HIDE DEF new
<1>. QED  BY <1>2, <1>3, <1>4, <1>5

(* How far ahead a packet is, of the number its decoder has passed.        *)
LEMMA AheadOfPassed ==
    ASSUME SlotsInv, OrderInv, NEW p \in Packets, p.n \in Numbered(p.of)
    PROVE  /\ Ahead(p) \in Int
           /\ \A n \in Numbered(p.of) :
                  p.of \in DOMAIN decoders /\ decoders[p.of] = (n + 1) % SeqSpace =>
                      n \in Nat /\ Ahead(p) = p.n - (n + 1)
<1>1. p.of \in Streams /\ p.n \in Nat
    BY DEF Packets
<1>2. ASSUME NEW n \in Numbered(p.of), p.of \in DOMAIN decoders,
             decoders[p.of] = (n + 1) % SeqSpace
      PROVE  n \in Nat /\ Ahead(p) = p.n - (n + 1)
    BY <1>1, <1>2, DistanceIsDifference DEF Ahead, HasDecoder, Number
<1>3. CASE p.of \in DOMAIN decoders
    <2>1. PICK q \in accepted : q.of = p.of /\ decoders[p.of] = (q.n + 1) % SeqSpace
        BY <1>3 DEF OrderInv, Expected
    <2>2. q.n \in Numbered(p.of)
        BY <2>1 DEF OrderInv, Expected
    <2>. QED  BY <1>1, <1>2, <1>3, <2>1, <2>2
<1>4. CASE p.of \notin DOMAIN decoders
    BY <1>4 DEF Ahead, HasDecoder
<1>. QED  BY <1>2, <1>3, <1>4

(* Numbers between two: how many, when there are any.                      *)
LEMMA HowManyBetween ==
    ASSUME NEW a \in Int, NEW b \in Int, a <= b
    PROVE  Cardinality((a + 1) .. b) = b - a
<1>1. PICK c \in Int : c = a + 1
    OBVIOUS
<1>2. Cardinality(c .. b) = IF c > b THEN 0 ELSE b - c + 1
    BY <1>1, FS_Interval
<1>. QED  BY <1>1, <1>2

(* A packet is played behind what was played before it.                    *)
LEMMA PlayKeepsOrder ==
    ASSUME SlotsInv, OrderInv, Play PROVE OrderInv'
<1>0. HeldTypes /\ OneSlot /\ VoicesOnce /\ InHand /\ Expected /\ HeardSoFar /\ InOrder
    BY DEF SlotsInv, OrderInv
<1>1. PICK p \in Packets, i \in Slots : p = rx.packet /\ i = rx.slot
    BY <1>0 DEF Play, HeldTypes
<1>2. /\ rx.at = "decode" /\ slots[i].ssrc \in {NoStream, p.of}
      /\ p.of \in Streams /\ p.share \in Nat /\ p.n \in Nat /\ p.of # NoStream
      /\ p.share <= share[p.of] /\ p.n \in Numbered(p.of) /\ MaxConceal \in Nat
      /\ \A j \in Slots : slots[j].ssrc = p.of => j = i
      /\ Current(p) => slots[i].ssrc = p.of
    BY <1>0, <1>1, VoiceAssumption DEF Play, OneSlot, InHand, Packets
<1>3. PICK d \in Int : d = Ahead(p) /\ d >= 0
    BY <1>1, <1>2, AheadOfPassed DEF Play
<1>4. PICK lost \in Nat : /\ lost = Conceal(Ahead(p))
                          /\ lost = IF d <= MaxConceal THEN d ELSE 0
    BY <1>2, <1>3 DEF Conceal
<1>5. p.n \in Nat /\ MaxConceal \in Nat
    BY <1>2
<1>6. lost = IF d <= MaxConceal THEN d ELSE 0
    BY <1>4
<1>7. d >= 0
    BY <1>3
<1>8. /\ rx' = Listening /\ decoders' = Expecting(p) /\ accepted' = accepted \cup {p}
      /\ UNCHANGED <<stage, share, over>>
    BY <1>1 DEF Play, control
<1>9. PICK more \in Seq(Samples) :
        /\ slots'[i].pushed = slots[i].pushed \o more
        /\ Len(more) = IF Decodes(p) THEN lost + 1 ELSE lost
        /\ \A k \in 1 .. Len(more) : /\ more[k].of = p.of /\ more[k].share = p.share
                                     /\ more[k].n = p.n - lost + k - 1
    BY <1>1, <1>4, PlayPushes
<1>10. \A j \in Slots : /\ slots'[j].ssrc = slots[j].ssrc
                        /\ j # i => slots'[j].pushed = slots[j].pushed
    BY <1>1, <1>4, PlayPushes
<1>11. /\ p.of \in DOMAIN decoders' /\ decoders'[p.of] = (p.n + 1) % SeqSpace
       /\ \A s \in DOMAIN decoders' : s # p.of => s \in DOMAIN decoders /\ decoders'[s] = decoders[s]
       /\ \A s \in DOMAIN decoders : s # p.of /\ Held(s) # {} =>
              s \in DOMAIN decoders' /\ decoders'[s] = decoders[s]
    <2>1. PICK next : next = (Number(p) + 1) % SeqSpace
        OBVIOUS
    <2>2. PICK others : others = IF HasDecoder(p) THEN DOMAIN decoders
                                 ELSE {s \in DOMAIN decoders : Held(s) # {}}
        OBVIOUS
    <2>3. /\ decoders' = [s \in others \cup {p.of} |-> IF s = p.of THEN next ELSE decoders[s]]
          /\ others \subseteq DOMAIN decoders
          /\ \A s \in DOMAIN decoders : Held(s) # {} => s \in others
        BY <1>8, <2>1, <2>2 DEF Expecting
    <2>4. next = (p.n + 1) % SeqSpace
        BY <1>5, <2>1, NextNumber DEF Number
    <2>. QED  BY <2>3, <2>4
<1>12. ~Decodes(p) => Undecodable(p.of, p.n)
    <2>1. p.share \in 0 .. share[p.of]
        BY <1>0, <1>2 DEF HeldTypes
    <2>. QED  BY <2>1 DEF Decodes, Undecodable
<1>13. \A s, n : Undecodable(s, n)' <=> Undecodable(s, n)
    BY <1>8 DEF Undecodable
<1>14. PICK before \in Seq(Samples) : before = slots[i].pushed
    BY <1>0, Fields
<1>15. slots'[i].pushed = before \o more
    BY <1>9, <1>14
<1>16. /\ Len(before) \in Nat /\ Len(more) \in Nat
       /\ slots'[i].pushed = before \o more
       /\ Len(before \o more) = Len(before) + Len(more)
       /\ \A k \in 1 .. Len(before) : (before \o more)[k] = before[k]
       /\ \A k \in 1 .. Len(more) : (before \o more)[Len(before) + k] = more[k]
    BY <1>15
<1>17. Len(more) = IF Decodes(p) THEN lost + 1 ELSE lost
    BY <1>9
\* What the packet follows, if the last sample's share goes on.
<1>18. ASSUME before # <<>>, NEW l, l = before[Len(before)], Current(l)
       PROVE  /\ l.of = p.of /\ l.n \in Int
              /\ \E n \in Numbered(p.of) : Passed(l, n) /\ n \in Nat /\ d = p.n - (n + 1)
    <2>1. FollowedFrom(i, l) /\ l \in Samples
        BY <1>0, <1>14, <1>18 DEF HeardSoFar
    <2>2. l.of = p.of /\ l.of \in DOMAIN decoders /\ l.n \in Int
        BY <1>2, <1>18, <2>1, VoiceAssumption DEF FollowedFrom, Samples
    <2>3. PICK n \in Numbered(p.of) : Passed(l, n)
        BY <1>18, <2>1, <2>2 DEF FollowedFrom
    <2>4. n \in Nat /\ d = p.n - (n + 1)
        BY <1>2, <1>3, <2>2, <2>3, AheadOfPassed DEF Passed
    <2>. QED  BY <2>2, <2>3, <2>4
<1>19. Expected'
    BY <1>0, <1>2, <1>8, <1>11 DEF Expected
<1>20. HeardSoFar'
    <2>. SUFFICES ASSUME NEW j \in Slots, slots'[j].pushed # <<>>, NEW l,
                         l = slots'[j].pushed[Len(slots'[j].pushed)]
                  PROVE  FollowedFrom(j, l)'
        BY DEF HeardSoFar, FollowedFrom, Current, Passed, Undecodable
    <2>1. CASE j # i
        <3>1. FollowedFrom(j, l)
            BY <1>0, <1>10, <2>1 DEF HeardSoFar
        <3>2. ASSUME Current(l)
              PROVE  /\ slots'[j].ssrc = l.of /\ l.of \in DOMAIN decoders'
                     /\ \E n \in Numbered(l.of) : Passed(l, n)'
            <4>1. slots[j].ssrc = l.of /\ l.of \in DOMAIN decoders
                BY <3>1, <3>2 DEF FollowedFrom
            <4>2. l.of # p.of /\ Held(l.of) # {}
                BY <1>2, <2>1, <4>1 DEF Held
            <4>3. l.of \in DOMAIN decoders' /\ decoders'[l.of] = decoders[l.of]
                BY <1>11, <4>1, <4>2
            <4>4. PICK n \in Numbered(l.of) : Passed(l, n)
                BY <3>1, <3>2 DEF FollowedFrom
            <4>5. Passed(l, n)'
                BY <1>13, <4>3, <4>4 DEF Passed
            <4>. QED  BY <1>10, <4>1, <4>3, <4>5
        <3>. QED  BY <1>8, <3>1, <3>2 DEF FollowedFrom, Current
    <2>2. CASE j = i /\ Len(more) = 0
        <3>1. /\ before # <<>> /\ l = before[Len(before)]
            <4>1. before \o more = before
                BY <1>9, <1>14, <2>2
            <4>. QED  BY <1>16, <2>2, <4>1
        <3>2. FollowedFrom(i, l)
            BY <1>0, <1>14, <3>1 DEF HeardSoFar
        <3>3. ASSUME Current(l)
              PROVE  slots'[i].ssrc = l.of /\ l.of = p.of /\ Passed(l, p.n)'
            <4>1. PICK n \in Numbered(p.of) : /\ Passed(l, n) /\ n \in Nat
                                              /\ d = p.n - (n + 1)
                BY <1>18, <3>1, <3>3
            <4>2. l.of = p.of /\ l.n \in Int /\ slots'[i].ssrc = l.of
                BY <1>10, <1>18, <3>1, <3>2, <3>3 DEF FollowedFrom
            <4>3. lost = 0 /\ ~Decodes(p)
                BY <1>17, <2>2
            <4>4. PICK h \in Int : h = l.n /\ h <= n
                BY <4>1, <4>2 DEF Passed
            <4>5. h < p.n /\ (p.n = n + 1 \/ p.n - h > MaxConceal)
                <5>1. h <= n /\ n \in Int /\ p.n \in Int /\ d = p.n - (n + 1)
                    BY <1>5, <4>1, <4>4
                <5>2. d = 0 \/ d > MaxConceal
                    BY <1>5, <1>6, <4>3
                <5>3. CASE d = 0
                    BY <5>1, <5>3
                <5>4. CASE d > MaxConceal
                    BY <1>5, <1>7, <5>1, <5>4
                <5>. QED  BY <5>2, <5>3, <5>4
            <4>6. n - h > MaxConceal \/ \A g \in (h + 1) .. n : Undecodable(l.of, g)
                BY <4>1, <4>4 DEF Passed
            <4>7. p.n - h > MaxConceal \/ \A g \in (h + 1) .. p.n : Undecodable(l.of, g)
                <5>1. CASE p.n - h > MaxConceal
                    BY <5>1
                <5>2. CASE p.n = n + 1 /\ n - h > MaxConceal
                    <6>1. n \in Int
                        BY <4>1
                    <6>. QED  BY <1>5, <5>2, <6>1
                <5>3. ASSUME p.n = n + 1, \A g \in (h + 1) .. n : Undecodable(l.of, g),
                             NEW g \in (h + 1) .. p.n
                      PROVE  Undecodable(l.of, g)
                    <6>1. n \in Int
                        BY <4>1
                    <6>2. g \in (h + 1) .. n \/ g = p.n
                        BY <5>3, <6>1
                    <6>. QED  BY <1>12, <4>2, <4>3, <5>3, <6>2
                <5>. QED  BY <4>5, <4>6, <5>1, <5>2, <5>3
            <4>8. /\ decoders'[l.of] = (p.n + 1) % SeqSpace /\ l.n <= p.n
                  /\ p.n - l.n > MaxConceal \/ \A g \in (l.n + 1) .. p.n : Undecodable(l.of, g)'
                <5>1. l.n <= p.n
                    BY <1>5, <4>4, <4>5
                <5>. QED  BY <1>11, <1>13, <4>2, <4>4, <4>7, <5>1
            <4>. QED  BY <4>2, <4>8 DEF Passed
        <3>4. ASSUME Current(l)' PROVE Current(l)
            BY <1>8, <3>4 DEF Current
        <3>. QED  BY <1>2, <1>8, <1>11, <2>2, <3>2, <3>3, <3>4 DEF FollowedFrom
    <2>3. CASE j = i /\ Len(more) # 0
        <3>1. l = more[Len(more)] /\ Len(more) \in 1 .. Len(more)
            <4>1. Len(slots'[i].pushed) = Len(before) + Len(more) /\ Len(more) \in 1 .. Len(more)
                BY <1>15, <1>16, <2>3
            <4>. QED  BY <1>15, <1>16, <2>3, <4>1
        <3>2. l.of = p.of /\ l.share = p.share /\ l.n = p.n - lost + Len(more) - 1
            BY <1>9, <3>1
        <3>3. (l.n = p.n /\ Decodes(p)) \/ (l.n = p.n - 1 /\ ~Decodes(p))
            BY <1>2, <1>4, <1>9, <3>2
        <3>4. \A k \in (l.n + 1) .. p.n : Undecodable(l.of, k)
            <4>1. CASE l.n = p.n
                BY <1>2, <4>1
            <4>2. CASE l.n = p.n - 1 /\ ~Decodes(p)
                BY <1>2, <1>12, <3>2, <4>2
            <4>. QED  BY <3>3, <4>1, <4>2
        <3>5. Passed(l, p.n)'
            BY <1>2, <1>11, <1>13, <3>2, <3>3, <3>4 DEF Passed
        <3>6. ASSUME Current(l)' PROVE slots'[i].ssrc = l.of
            BY <1>2, <1>8, <1>10, <3>2, <3>6 DEF Current
        <3>. QED  BY <1>2, <1>8, <1>11, <2>3, <3>2, <3>5, <3>6 DEF FollowedFrom
    <2>. QED  BY <2>1, <2>2, <2>3
<1>21. InOrder'
    <2>. DEFINE Follows(a, b) ==
            /\ a.n < b.n
            /\ \/ Cardinality((a.n + 1) .. (b.n - 1)) > MaxConceal
               \/ \A n \in (a.n + 1) .. (b.n - 1) : Undecodable(a.of, n)
    <2>1. \A j \in Slots : \A k \in 1 .. Len(slots[j].pushed) - 1 :
              LET a == slots[j].pushed[k]
                  b == slots[j].pushed[k + 1]
              IN  a.of = b.of /\ a.share = b.share /\ Current(a) => Follows(a, b)
        BY <1>0 DEF InOrder, Current
    <2>. SUFFICES ASSUME NEW j \in Slots, NEW k \in 1 .. Len(slots'[j].pushed) - 1,
                         NEW a, NEW b,
                         a = slots'[j].pushed[k], b = slots'[j].pushed[k + 1],
                         a.of = b.of /\ a.share = b.share /\ Current(a)
                  PROVE  Follows(a, b)
        BY <1>8, <1>13 DEF InOrder, Current
    <2>2. CASE j # i
        BY <1>10, <2>1, <2>2
    <2>3. CASE j = i /\ k \in 1 .. Len(before) - 1
        <3>1. k \in 1 .. Len(before) /\ k + 1 \in 1 .. Len(before)
            BY <1>16, <2>3
        <3>2. a = slots[i].pushed[k] /\ b = slots[i].pushed[k + 1]
            BY <1>14, <1>16, <2>3, <3>1
        <3>. QED  BY <1>14, <2>1, <2>3, <3>2
    <2>4. CASE j = i /\ k = Len(before)
        <3>1. /\ before # <<>> /\ a = before[Len(before)] /\ b = more[1] /\ 1 \in 1 .. Len(more)
            <4>1. Len(before) \in 1 .. Len(before) /\ 1 \in 1 .. Len(more)
                BY <1>16, <2>4
            <4>. QED  BY <1>16, <2>4, <4>1
        <3>2. PICK n \in Numbered(p.of) : Passed(a, n) /\ n \in Nat /\ d = p.n - (n + 1)
            BY <1>18, <3>1
        <3>3. PICK h \in Int : h = a.n /\ h <= n
            BY <1>18, <3>1, <3>2 DEF Passed
        <3>4. n - h > MaxConceal \/ \A g \in (h + 1) .. n : Undecodable(a.of, g)
            BY <3>2, <3>3 DEF Passed
        <3>5. b.n = p.n - lost + 1 - 1
            BY <1>9, <3>1
        <3>6. PICK e \in Int : e = b.n /\ e = p.n - lost
            BY <1>5, <3>5
        <3>7. h < e /\ (e = n + 1 \/ (lost = 0 /\ p.n - 1 - h > MaxConceal))
            <4>1. h <= n /\ n \in Int /\ p.n \in Int /\ d = p.n - (n + 1) /\ e = p.n - lost
                BY <1>5, <3>2, <3>3, <3>6
            <4>2. CASE lost = d
                <5>1. e = n + 1
                    BY <4>1, <4>2
                <5>. QED  BY <4>1, <5>1
            <4>3. CASE lost = 0 /\ d > MaxConceal
                <5>1. e = n + 1 + d
                    BY <4>1, <4>3
                <5>2. p.n - 1 - h > MaxConceal
                    BY <1>5, <4>1, <4>3
                <5>3. h < e
                    BY <1>7, <4>1, <5>1
                <5>. QED  BY <4>3, <5>2, <5>3
            <4>4. lost = d \/ (lost = 0 /\ d > MaxConceal)
                BY <1>5, <1>6
            <4>. QED  BY <4>2, <4>3, <4>4
        <3>8. \/ Cardinality((h + 1) .. (e - 1)) > MaxConceal
              \/ \A g \in (h + 1) .. (e - 1) : Undecodable(a.of, g)
            <4>1. PICK c \in Int : c = e - 1 /\ h <= c
                BY <3>7
            <4>2. Cardinality((h + 1) .. c) = c - h
                BY <4>1, HowManyBetween
            <4>3. CASE e = n + 1
                <5>1. c = n
                    BY <3>2, <4>1, <4>3
                <5>. QED  BY <3>4, <4>1, <4>2, <5>1
            <4>4. CASE lost = 0 /\ p.n - 1 - h > MaxConceal
                <5>1. c = p.n - 1
                    BY <1>5, <3>6, <4>1, <4>4
                <5>. QED  BY <4>1, <4>2, <4>4, <5>1
            <4>. QED  BY <3>7, <4>3, <4>4
        <3>. QED  BY <3>3, <3>6, <3>7, <3>8
    <2>5. CASE j = i /\ k > Len(before)
        <3>1. PICK m \in 1 .. Len(more) : k = Len(before) + m /\ m + 1 \in 1 .. Len(more)
            <4>1. k - Len(before) \in 1 .. Len(more) /\ k - Len(before) + 1 \in 1 .. Len(more)
                BY <1>16, <2>5
            <4>2. k = Len(before) + (k - Len(before))
                BY <1>16, <2>5
            <4>. QED  BY <4>1, <4>2, Zenon
        <3>2. a = more[m] /\ b = more[m + 1]
            <4>1. k + 1 = Len(before) + (m + 1)
                BY <1>16, <3>1
            <4>. QED  BY <1>16, <2>5, <3>1, <4>1
        <3>3. a.n \in Int /\ b.n = a.n + 1
            <4>1. a.n = p.n - lost + m - 1 /\ b.n = p.n - lost + (m + 1) - 1
                BY <1>9, <3>1, <3>2
            <4>2. PICK g \in Int : g = p.n - lost
                BY <1>5
            <4>3. a.n = g + m - 1 /\ b.n = g + (m + 1) - 1
                BY <4>1, <4>2
            <4>. QED  BY <4>3
        <3>. QED  BY <3>3
    <2>6. k \in Int /\ k >= 1
        OBVIOUS
    <2>. QED  BY <1>16, <2>2, <2>3, <2>4, <2>5, <2>6
<1>22. VoicesOnce' /\ InHand'
    BY <1>0, <1>8 DEF VoicesOnce, InHand, Listening
<1>. QED  BY <1>19, <1>20, <1>21, <1>22 DEF OrderInv

(* A stream is over: its slot is nobody's, and what it has begun is past.  *)
LEMMA ReadStoppedKeepsOrder ==
    ASSUME SlotsInv, OrderInv, NEW s \in Streams, ReadStopped(s) PROVE OrderInv'
<1>0. HeldTypes /\ OneSlot /\ VoicesOnce /\ InHand
    BY DEF SlotsInv, OrderInv
<1>1. /\ slots' = [i \in Slots |-> IF slots[i].ssrc = s
                                   THEN [slots[i] EXCEPT !.ssrc = NoStream] ELSE slots[i]]
      /\ over' = over \cup Begun(s)
      /\ UNCHANGED <<stage, share, decoders, rx, accepted>>
    BY DEF ReadStopped, Read, Retired, Held, control
<1>2. \A j \in Slots : /\ slots'[j].pushed = slots[j].pushed
                       /\ slots'[j].ssrc = IF slots[j].ssrc = s THEN NoStream ELSE slots[j].ssrc
    <2>1. ASSUME NEW j \in Slots
          PROVE  /\ [slots[j] EXCEPT !.ssrc = NoStream].ssrc = NoStream
                 /\ [slots[j] EXCEPT !.ssrc = NoStream].pushed = slots[j].pushed
        <3>1. slots[j] \in SlotRecords
            BY <1>0 DEF HeldTypes
        <3>. QED  BY <3>1 DEF SlotRecords
    <2>. QED  BY <1>1, <2>1
<1>3. Expected' /\ HeardSoFar' /\ InOrder'
    <2>1. \A t \in Streams : share'[t] \in Nat /\ share[t] <= share'[t]
        BY <1>0, <1>1 DEF HeldTypes
    <2>2. \A j \in Slots : slots'[j].ssrc = slots[j].ssrc \/ Begun(slots[j].ssrc) \subseteq over'
        BY <1>1, <1>2
    <2>. QED  BY <1>1, <1>2, <2>1, <2>2, NothingPushed
<1>4. VoicesOnce'
    BY <1>0, <1>1 DEF VoicesOnce
<1>5. ASSUME rx.at # "recv" PROVE InHand'
    <2>1. PICK p \in Packets, i \in Slots : p = rx.packet /\ i = rx.slot
        BY <1>0, <1>5 DEF HeldTypes
    <2>2. /\ p.share <= share[p.of] /\ p.n \in Numbered(p.of)
          /\ p.share \in Nat /\ p.of \in Streams /\ p.of # NoStream /\ share[p.of] \in Nat
        BY <1>0, <1>5, <2>1, VoiceAssumption DEF InHand, Packets, HeldTypes
    <2>3. rx.at = "decode" => /\ \A j \in Slots : slots[j].ssrc = p.of => j = i
                              /\ Current(p) => slots[i].ssrc = p.of
        BY <1>0, <2>1 DEF InHand
    <2>4. ASSUME Current(p)' PROVE Current(p) /\ p.of # s
        <3>1. Current(p) /\ <<p.of, p.share>> \notin Begun(s)
            BY <1>1, <2>4 DEF Current
        <3>2. p.of = s => <<p.of, p.share>> \in Begun(s)
            BY <2>2 DEF Begun
        <3>. QED  BY <3>1, <3>2
    <2>5. rx.at = "decode" => /\ \A j \in Slots : slots'[j].ssrc = p.of => j = i
                              /\ Current(p)' => slots'[i].ssrc = p.of
        BY <1>2, <2>2, <2>3, <2>4
    <2>. QED  BY <1>1, <2>1, <2>2, <2>5 DEF InHand, Current
<1>6. InHand'
    BY <1>1, <1>5 DEF InHand
<1>. QED  BY <1>3, <1>4, <1>6 DEF OrderInv

(* The callback, and what the interface does besides.                      *)
LEMMA RestKeepsOrder ==
    ASSUME SlotsInv, OrderInv,
           \/ Playback \/ DropPacket \/ Attribute \/ ClearRetired \/ Deafen
           \/ \E s \in Streams : ReadStarted(s) \/ ReadMoved(s)
           \/ \E u \in Users : Adjust(u)
           \/ UNCHANGED voiceVars
    PROVE  OrderInv'
<1>0. HeldTypes /\ VoicesOnce /\ slots \in [Slots -> SlotRecords]
    BY DEF SlotsInv, OrderInv, HeldTypes
<1>. DEFINE Same == \A i \in Slots : /\ slots'[i].pushed = slots[i].pushed
                                      /\ slots'[i].ssrc = slots[i].ssrc
            Rest == /\ UNCHANGED <<stage, share, decoders, accepted>>
                    /\ over \subseteq over' /\ (rx' = rx \/ rx' = Listening)
<1>1. Rest
    BY DEF Playback, Enter, Mix, DropPacket, Attribute, ClearRetired, Deafen, ReadStarted,
           ReadMoved, Adjust, voiceVars, control, history
<1>2. ASSUME \/ DropPacket \/ Deafen \/ UNCHANGED voiceVars
             \/ \E i \in Slots : Enter(i)
             \/ \E s \in Streams : ReadMoved(s)
      PROVE  Same
    BY <1>2 DEF DropPacket, Deafen, voiceVars, Enter, ReadMoved
<1>3. ASSUME Mix PROVE Same
    <2>1. cb.slot \in Slots
        BY <1>0, <1>3 DEF Mix, HeldTypes
    <2>2. slots[cb.slot] \in SlotRecords
        BY <1>0, <2>1
    <2>3. slots' = [slots EXCEPT ![cb.slot] = Popped(slots[cb.slot])]
        BY <1>3 DEF Mix
    <2>4. /\ Popped(slots[cb.slot]).pushed = slots[cb.slot].pushed
          /\ Popped(slots[cb.slot]).ssrc = slots[cb.slot].ssrc
        BY <2>2 DEF Popped, SlotRecords
    <2>. QED  BY <1>0, <2>1, <2>3, <2>4
<1>4. ASSUME ClearRetired PROVE Same
    <2>1. ui.slot \in Slots
        BY <1>0, <1>4 DEF ClearRetired, HeldTypes
    <2>2. slots' = [slots EXCEPT ![ui.slot] = Cleared(slots[ui.slot])]
        BY <1>4 DEF ClearRetired
    <2>3. /\ Cleared(slots[ui.slot]).pushed = slots[ui.slot].pushed
          /\ Cleared(slots[ui.slot]).ssrc = slots[ui.slot].ssrc
        BY <1>0, <2>1, ClearedSlot
    <2>. QED  BY <1>0, <2>1, <2>2, <2>3
<1>5. ASSUME Attribute PROVE Same
    <2>1. chosen[Owner[ui.stream]] \in Volumes
        BY <1>0, <1>5, VoiceAssumption DEF Attribute, HeldTypes
    <2>2. slots' = Loudness(slots, Owner[ui.stream], chosen[Owner[ui.stream]])
        BY <1>5 DEF Attribute
    <2>. QED  BY <1>0, <2>1, <2>2, LoudnessOnly
<1>6. ASSUME NEW u \in Users, Adjust(u) PROVE Same
    <2>1. PICK volume \in Volumes :
            slots' = IF \E s \in known : Owner[s] = u THEN Loudness(slots, u, volume) ELSE slots
        BY <1>6 DEF Adjust
    <2>. QED  BY <1>0, <2>1, LoudnessOnly
<1>7. ASSUME NEW s \in Streams, ReadStarted(s) PROVE Same
    <2>1. slots' = [i \in Slots |-> IF i \in Held(s) THEN [slots[i] EXCEPT !.user = Owner[s]]
                                                    ELSE slots[i]]
        BY <1>7 DEF ReadStarted, Marked
    <2>2. ASSUME NEW i \in Slots
          PROVE  /\ [slots[i] EXCEPT !.user = Owner[s]].pushed = slots[i].pushed
                 /\ [slots[i] EXCEPT !.user = Owner[s]].ssrc = slots[i].ssrc
        <3>1. slots[i] \in SlotRecords
            BY <1>0
        <3>. QED  BY <3>1 DEF SlotRecords
    <2>. QED  BY <2>1, <2>2
<1>8. Same
    BY <1>2, <1>3, <1>4, <1>5, <1>6, <1>7 DEF Playback
<1>9. VoicesOnce' /\ \A t \in Streams : share'[t] \in Nat /\ share[t] <= share'[t]
    BY <1>0, <1>1 DEF VoicesOnce, HeldTypes
<1>. QED  BY <1>1, <1>8, <1>9, OrderAside

LEMMA OrderStart == VoiceInit => OrderInv
<1>. SUFFICES ASSUME VoiceInit PROVE OrderInv
    OBVIOUS
<1>1. /\ \A i \in Slots : slots[i].pushed = <<>>
      /\ rx.at = "recv" /\ accepted = {} /\ decoders = <<>>
    BY DEF VoiceInit, FreeSlot, Listening
<1>2. VoicesOnce
    BY VoiceAssumption DEF VoiceInit, VoicesOnce
<1>3. InHand /\ Expected /\ HeardSoFar
    BY <1>1 DEF InHand, Expected, HeardSoFar
<1>4. InOrder
    BY <1>1 DEF InOrder
<1>. QED  BY <1>2, <1>3, <1>4 DEF OrderInv

LEMMA OrderKept == SlotsInv /\ OrderInv /\ [VoiceNext]_voiceVars => OrderInv'
<1>. SUFFICES ASSUME SlotsInv, OrderInv, [VoiceNext]_voiceVars PROVE OrderInv'
    OBVIOUS
<1>1. CASE Call
    BY <1>1, CallKeepsOrder
<1>2. CASE Receiver
    BY <1>2, TakenKeepsOrder, PublishKeepsOrder, PlayKeepsOrder, RestKeepsOrder DEF Receiver
<1>3. CASE Interface
    BY <1>3, ReadStoppedKeepsOrder, RestKeepsOrder DEF Interface
<1>4. CASE Playback \/ UNCHANGED voiceVars
    BY <1>4, RestKeepsOrder
<1>. QED  BY <1>1, <1>2, <1>3, <1>4 DEF VoiceNext

(* Through losses, repeats, packets that overtake each other, the wrap of  *)
(* the numbers and the handing on of slots: what is heard of a share is in *)
(* the order it was sent, and a gap in it was not worth making up for or   *)
(* did not decode. (run_rx, classify, slot_for, drop_speaker)              *)
THEOREM VoiceInOrder == VoiceSpec => []InOrder
<1>1. OrderInv => InOrder
    BY DEF OrderInv
<1>. QED  BY VoiceInvariant, OrderStart, OrderKept, <1>1, PTL DEF VoiceSpec

(* Nothing is dropped as late that the stream was not heard past: how far  *)
(* a number is from another is read off their remainders. (classify)       *)
THEOREM VoiceOnlyPastDropped == VoiceSpec => OnlyPastDropped
<1>1. ASSUME SlotsInv, OrderInv, DropPacket
      PROVE  \E p \in accepted :
                /\ p.of = rx.packet.of
                /\ p.share = rx.packet.share => p.n >= rx.packet.n
    <2>1. PICK p \in Packets : p = rx.packet
        BY <1>1 DEF DropPacket, SlotsInv, HeldTypes
    <2>2. rx.at = "decode" /\ Ahead(p) < 0 /\ p.n \in Numbered(p.of) /\ p.n \in Nat
        BY <1>1, <2>1 DEF DropPacket, OrderInv, InHand, Packets
    <2>3. p.of \in DOMAIN decoders
        BY <2>2 DEF Ahead, HasDecoder
    <2>4. PICK q \in accepted : q.of = p.of /\ decoders[p.of] = (q.n + 1) % SeqSpace
        BY <1>1, <2>3 DEF OrderInv, Expected
    <2>5. q.n \in Numbered(p.of)
        BY <1>1, <2>4 DEF OrderInv, Expected
    <2>6. q.n \in Nat /\ Ahead(p) = p.n - (q.n + 1)
        BY <1>1, <2>2, <2>3, <2>4, <2>5, AheadOfPassed
    <2>7. q.n >= p.n
        BY <2>2, <2>6
    <2>. QED  BY <2>1, <2>4, <2>7
<1>2. SlotsInv /\ OrderInv =>
        [DropPacket => \E p \in accepted :
            /\ p.of = rx.packet.of
            /\ p.share = rx.packet.share => p.n >= rx.packet.n]_voiceVars
    BY <1>1
<1>. QED
    BY VoiceInvariant, OrderStart, OrderKept, <1>2, PTL DEF VoiceSpec, OnlyPastDropped

-----------------------------------------------------------------------------

(* Indices within one window: an index counts samples, distances between   *)
(* indices are numbers of samples, and no two samples share a cell.        *)
LEMMA Window ==
    ASSUME NEW r \in Cells, NEW f \in Nat,
           NEW a \in f .. (f + Capacity), NEW b \in f .. (f + Capacity)
    PROVE  /\ Wrap(r + (a - f)) \in Cells
           /\ a <= b => /\ Dist(Wrap(r + (b - f)), Wrap(r + (a - f))) = b - a
                        /\ Wrap(Wrap(r + (a - f)) + (b - a)) = Wrap(r + (b - f))
           /\ a # b => Wrap(r + (a - f)) # Wrap(r + (b - f))
BY RingAssumption DEF Cells, Capacity, Wrap, Dist

(* A window that starts n samples later: the samples of both windows keep  *)
(* their cells, and the new ones take those of the samples left behind.    *)
LEMMA Moved ==
    ASSUME NEW r \in Cells, NEW f \in Nat, NEW g \in f .. (f + Capacity),
           NEW k \in g .. (g + Capacity)
    PROVE  Wrap(Wrap(r + (g - f)) + (k - g)) =
              IF k <= f + Capacity THEN Wrap(r + (k - f))
                                   ELSE Wrap(r + ((k - Size) - f))
BY RingAssumption DEF Cells, Capacity, Wrap

(* The same, of a state in which the invariant holds: what the counters    *)
(* say of the indices the two threads use.                                 *)
LEMMA Counted ==
    ASSUME RingInv
    PROVE  /\ \A k \in freed .. (freed + Capacity) : Position(k) \in Cells
           /\ \A k, l \in freed .. (freed + Capacity) :
                k # l => Position(k) # Position(l)
           /\ Dist(prod.index, read) = prod.count - freed
           /\ Dist(write, cons.index) = published - cons.count
           /\ \A j \in 0 .. prod.taken :
                Wrap(prod.index + j) = Position(prod.count + j)
           /\ \A j \in 0 .. cons.taken :
                Wrap(cons.index + j) = Position(cons.count + j)
<1>1. /\ read \in Cells /\ freed \in Nat /\ Capacity \in Nat
      /\ freed \in freed .. (freed + Capacity)
      /\ prod.count \in freed .. (freed + Capacity)
      /\ cons.count \in freed .. (freed + Capacity)
      /\ published \in freed .. (freed + Capacity)
      /\ cons.count <= published /\ freed <= prod.count
      /\ \A j \in 0 .. prod.taken : prod.count + j \in freed .. (freed + Capacity)
      /\ \A j \in 0 .. cons.taken : cons.count + j \in freed .. (freed + Capacity)
    BY RingAssumption DEF Capacity, RingInv, Types, Order
<1>2. /\ read = Position(freed) /\ write = Position(published)
      /\ prod.index = Position(prod.count) /\ cons.index = Position(cons.count)
    BY <1>1, RingAssumption DEF Position, Wrap, Cells, RingInv, Indices
<1>3. \A k \in freed .. (freed + Capacity) : Position(k) \in Cells
    BY <1>1, Window DEF Position
<1>4. ASSUME NEW k \in freed .. (freed + Capacity),
             NEW l \in freed .. (freed + Capacity)
      PROVE  /\ k # l => Position(k) # Position(l)
             /\ k <= l => /\ Dist(Position(l), Position(k)) = l - k
                          /\ Wrap(Position(k) + (l - k)) = Position(l)
    <2>1. read \in Cells /\ freed \in Nat
        BY <1>1
    <2>. QED  BY <2>1, Window DEF Position
<1>5. /\ Dist(prod.index, read) = prod.count - freed
      /\ Dist(write, cons.index) = published - cons.count
    BY <1>1, <1>2, <1>4
<1>6. ASSUME NEW j \in 0 .. prod.taken
      PROVE  Wrap(prod.index + j) = Position(prod.count + j)
    <2>1. /\ prod.count \in Int /\ j \in Int /\ prod.count <= prod.count + j
          /\ (prod.count + j) - prod.count = j
        BY <1>1
    <2>. QED  BY <1>1, <1>2, <1>4, <2>1
<1>7. ASSUME NEW j \in 0 .. cons.taken
      PROVE  Wrap(cons.index + j) = Position(cons.count + j)
    <2>1. /\ cons.count \in Int /\ j \in Int /\ cons.count <= cons.count + j
          /\ (cons.count + j) - cons.count = j
        BY <1>1
    <2>. QED  BY <1>1, <1>2, <1>4, <2>1
<1>. QED  BY <1>3, <1>4, <1>5, <1>6, <1>7

(* What push and pop take fits.                                            *)
LEMMA Taken ==
    ASSUME RingInv, NEW n \in Nat
    PROVE  /\ prod.at = "idle" =>
                /\ AtMost(n, Free(prod.index, read)) \in 0 .. Capacity
                /\ prod.count + AtMost(n, Free(prod.index, read)) <= freed + Capacity
           /\ AtMost(n, Dist(write, cons.index)) \in 0 .. Capacity
           /\ cons.count + AtMost(n, Dist(write, cons.index)) <= published
BY Counted, RingAssumption DEF AtMost, Free, Capacity, RingInv, Types, Order

LEMMA RingStart == Init => RingInv
<1>. SUFFICES ASSUME Init PROVE RingInv
    OBVIOUS
<1>1. Types /\ Order /\ Copying /\ Promise
    BY RingAssumption DEF Init, Types, Order, Copying, Promise, Cells, Capacity
<1>2. Indices
    BY RingAssumption DEF Init, Indices, Position, Wrap
<1>3. Contents
    <2>1. \A k \in 0 .. Capacity : Position(k) \in Cells
        BY RingAssumption DEF Init, Position, Wrap, Cells, Capacity
    <2>. QED  BY <2>1, RingAssumption
              DEF Init, Contents, Kept, Settled, Stored, Cells, Capacity
<1>. QED  BY <1>1, <1>2, <1>3 DEF RingInv

(* A step that neither stores nor moves the window disturbs no sample.     *)
LEMMA SameContents ==
    ASSUME RingInv, UNCHANGED <<cells, pending, published, read, freed>>,
           Stored' = Stored
    PROVE  Contents'
<1>1. \A k : (Kept(k)' <=> Kept(k)) /\ (Settled(k)' <=> Settled(k))
    BY DEF Kept, Settled, Position
<1>2. freed' = freed
    OBVIOUS
<1>. QED  BY <1>1, <1>2 DEF RingInv, Contents, Capacity

LEMMA PushStartKeeps ==
    ASSUME RingInv, NEW n \in 0 .. Size, PushStart(n) PROVE RingInv'
<1>. USE DEF RingInv, PushStart
<1>. DEFINE batch == AtMost(n, Free(prod.index, read))
<1>1. Types' /\ Order'
    <2>1. /\ batch \in 0 .. Capacity /\ prod.count + batch <= freed + Capacity
          /\ prod.count \in Nat /\ published <= prod.count /\ 0 \in 0 .. Capacity
        BY Taken, RingAssumption DEF Types, Order, Capacity
    <2>. HIDE DEF batch
    <2>2. /\ prod' \in [at : {"idle", "store"}, index : Cells, count : Nat,
                         taken : 0 .. Capacity, stored : 0 .. Capacity]
          /\ prod'.count = prod.count /\ prod'.taken = batch /\ prod'.stored = 0
          /\ prod'.at = "store"
        <3>1. prod' = [prod EXCEPT !.at = "store", !.taken = batch, !.stored = 0]
            BY DEF batch
        <3>. QED  BY <2>1, <3>1 DEF Types
    <2>. QED  BY <2>1, <2>2 DEF Types, Order
<1>2. Indices'
    BY DEF Indices, Position
<1>3. Contents'
    <2>1. Stored' = Stored
        BY DEF Types, Order, Stored
    <2>. QED  BY <2>1, SameContents
<1>4. Copying' /\ Promise'
    BY DEF Copying, Promise
<1>. QED  BY <1>1, <1>2, <1>3, <1>4

LEMMA StoreKeeps == ASSUME RingInv, Store PROVE RingInv'
<1>. DEFINE new == prod.count + prod.stored
<1>. USE DEF RingInv, Store
<1>1. /\ new \in freed .. (freed + Capacity) /\ new \in Nat
      /\ published <= new /\ Position(new) \in Cells
      /\ prod'.count + prod'.stored = new + 1
      /\ pending' = [pending EXCEPT ![Position(new)] = new]
    <2>1. /\ new \in freed .. (freed + Capacity) /\ new \in Nat
          /\ published <= new /\ prod.stored \in 0 .. prod.taken
          /\ prod'.count + prod'.stored = new + 1
        BY RingAssumption DEF Types, Order, Capacity
    <2>. QED  BY <2>1, Counted
<1>2. Types' /\ Order'
    <2>1. pending' \in [Cells -> Nat \cup {None}]
        BY <1>1 DEF Types
    <2>2. /\ prod' \in [at : {"idle", "store"}, index : Cells, count : Nat,
                         taken : 0 .. Capacity, stored : 0 .. Capacity]
          /\ prod'.count = prod.count /\ prod'.taken = prod.taken
          /\ prod'.stored <= prod'.taken /\ prod'.at = "store"
        BY RingAssumption DEF Types, Order, Capacity
    <2>. QED  BY <2>1, <2>2 DEF Types, Order
<1>3. Indices'
    BY DEF Indices, Position
<1>4. Contents'
    <2>1. Stored' = new + 1 /\ Stored = new
        BY <1>1 DEF Stored
    <2>2. /\ pending \in [Cells -> Nat \cup {None}] /\ freed' = freed
          /\ \A k : Position(k)' = Position(k)
        BY DEF Types, Position
    <2>3. ASSUME NEW k, k = new PROVE Kept(k)'
        <3>1. pending'[Position(k)] = k /\ k # None /\ published' = published
            BY <1>1, <2>2, <2>3, RingAssumption
        <3>. QED  BY <3>1, <1>1, <2>2, <2>3 DEF Kept
    <2>4. ASSUME NEW k \in freed .. (freed + Capacity), k # new
          PROVE  (Kept(k)' <=> Kept(k)) /\ (Settled(k)' <=> Settled(k))
        <3>1. Position(k) \in Cells /\ Position(k) # Position(new)
            BY <2>4, <1>1, Counted
        <3>2. pending'[Position(k)] = pending[Position(k)]
            BY <3>1, <1>1, <2>2
        <3>. QED  BY <3>2, <2>2 DEF Kept, Settled
    <2>5. ASSUME NEW k \in freed .. new PROVE Kept(k)'
        <3>1. CASE k = new
            BY <3>1, <2>3
        <3>2. CASE k # new
            <4>1. k \in freed .. (new - 1) /\ k \in freed .. (freed + Capacity)
                BY <3>2, <1>1, RingAssumption DEF Types, Capacity
            <4>. QED  BY <3>2, <4>1, <2>1, <2>4 DEF Contents
        <3>. QED  BY <3>1, <3>2
    <2>6. ASSUME NEW k \in (new + 1) .. (freed + Capacity) PROVE Settled(k)'
        <3>1. /\ k \in new .. (freed + Capacity) /\ k # new
              /\ k \in freed .. (freed + Capacity)
            BY <1>1, RingAssumption DEF Types, Capacity
        <3>. QED  BY <3>1, <2>1, <2>4 DEF Contents
    <2>7. (new + 1) - 1 = new
        BY <1>1
    <2>. QED  BY <2>1, <2>2, <2>5, <2>6, <2>7 DEF Contents, Capacity
<1>5. Copying' /\ Promise'
    BY DEF Copying, Promise
<1>. QED  BY <1>2, <1>3, <1>4, <1>5

LEMMA PushPublishKeeps == ASSUME RingInv, Publish PROVE RingInv'
<1>. USE DEF RingInv, Publish
<1>1. /\ prod.taken \in 0 .. prod.taken
      /\ prod.count + prod.taken \in freed .. (freed + Capacity)
    BY RingAssumption DEF Types, Order, Capacity
<1>2. /\ prod'.index = Position(prod.count + prod.taken) /\ prod'.index \in Cells
      /\ prod'.count = prod.count + prod.taken /\ prod'.taken = 0
      /\ prod'.stored = 0 /\ prod'.at = "idle"
      /\ writes' = writes \cup {[index |-> prod'.index, count |-> prod'.count]}
      /\ prod' = [at |-> "idle", index |-> prod'.index, count |-> prod'.count,
                  taken |-> 0, stored |-> 0]
    BY <1>1, Counted
<1>3. Types' /\ Order'
    BY <1>2, RingAssumption DEF Types, Order, Capacity
<1>4. Indices'
    <2>1. prod'.count >= prod.count /\ published <= prod'.count
        BY <1>2 DEF Types, Order
    <2>2. ASSUME NEW r \in writes'
          PROVE  published <= r.count /\ r.count <= prod'.count
                 /\ r.index = Position(r.count)
        <3>1. CASE r \in writes
            BY <3>1, <1>2, <2>1 DEF Indices, Types
        <3>2. CASE r = [index |-> prod'.index, count |-> prod'.count]
            BY <3>2, <1>2, <2>1, <1>3 DEF Types
        <3>. QED  BY <3>1, <3>2, <1>2
    <2>. QED  BY <1>2, <2>2 DEF Indices, Position
<1>5. Contents'
    <2>1. Stored' = Stored
        <3>1. prod.count \in Nat /\ prod.taken \in Int /\ prod.stored = prod.taken
            BY DEF Types
        <3>2. prod'.count = prod.count + prod.stored /\ prod'.stored = 0
            BY <3>1, <1>2
        <3>. HIDE DEF Publish
        <3>. QED  BY <3>1, <3>2 DEF Stored
    <2>. QED  BY <2>1, SameContents
<1>6. Copying' /\ Promise'
    BY DEF Copying, Promise
<1>. QED  BY <1>3, <1>4, <1>5, <1>6

LEMMA PopStartKeeps ==
    ASSUME RingInv, NEW n \in 0 .. Size, PopStart(n) PROVE RingInv'
<1>. DEFINE batch == AtMost(n, Dist(write, cons.index))
<1>1. batch \in 0 .. Capacity /\ cons.count + batch <= published
    BY Taken, RingAssumption
<1>. USE DEF RingInv, PopStart
<1>. HIDE DEF batch
<1>2. /\ cons' = [cons EXCEPT !.at = "copy", !.copied = 0, !.taken = batch]
      /\ out' = [j \in 1 .. batch |-> None] /\ promised' = 0
    BY DEF batch
<1>3. Types' /\ Order'
    <2>1. /\ cons' \in [at : {"idle", "copy", "skip"}, index : Cells, count : Nat,
                         taken : 0 .. Capacity, copied : 0 .. Capacity]
          /\ cons'.count = cons.count /\ cons'.taken = batch /\ cons'.copied = 0
        <3>1. /\ batch \in 0 .. Capacity /\ 0 \in 0 .. Capacity
              /\ cons \in [at : {"idle", "copy", "skip"}, index : Cells, count : Nat,
                           taken : 0 .. Capacity, copied : 0 .. Capacity]
            BY <1>1, RingAssumption DEF Types, Capacity
        <3>. HIDE DEF PopStart, RingInv
        <3>. QED  BY <1>2, <3>1
    <2>2. cons'.count + cons'.taken <= published /\ cons'.copied <= cons'.taken
        BY <1>1, <2>1
    <2>3. /\ UNCHANGED <<cells, pending, write, published, writes, read, freed,
                         reads, prod>>
          /\ promised' = 0 /\ 0 \in 0 .. Capacity
        BY RingAssumption DEF Capacity
    <2>. HIDE DEF PopStart
    <2>. QED  BY <2>1, <2>2, <2>3 DEF Types, Order, Capacity
<1>4. Indices'
    BY DEF Indices, Position, Types
<1>5. Contents'
    BY SameContents DEF Stored
<1>6. Copying' /\ Promise'
    BY <1>1, <1>2 DEF Copying, Promise, Types
<1>. QED  BY <1>3, <1>4, <1>5, <1>6

(* The cell a pop reads holds the sample it is there for: it was published *)
(* to the consumer, so its store has arrived, and it has not been let go.  *)
LEMMA Reads ==
    ASSUME RingInv, cons.copied < cons.taken
    PROVE  cells[Wrap(cons.index + cons.copied)] = cons.count + cons.copied
<1>. DEFINE k == cons.count + cons.copied
<1>1. /\ k \in freed .. (Stored - 1) /\ k < published /\ k \in Int
      /\ cons.copied \in 0 .. cons.taken /\ published \in Int
    BY RingAssumption DEF RingInv, Types, Order, Stored, Capacity
<1>2. Wrap(cons.index + cons.copied) = Position(k)
    BY <1>1, Counted
<1>. HIDE DEF k
<1>3. Kept(k)
    BY <1>1 DEF RingInv, Contents
<1>4. cells[Position(k)] = k
    BY <1>1, <1>3 DEF Kept
<1>. QED  BY <1>2, <1>4 DEF k

LEMMA CopyKeeps == ASSUME RingInv, Copy PROVE RingInv'
<1>. USE DEF RingInv, Copy
<1>1. /\ cons' = [cons EXCEPT !.copied = cons.copied + 1]
      /\ out' = [out EXCEPT ![cons.copied + 1] = cons.count + cons.copied]
      /\ cons.at = "copy" /\ cons.copied < cons.taken
    BY Reads
<1>2. /\ cons' \in [at : {"idle", "copy", "skip"}, index : Cells, count : Nat,
                     taken : 0 .. Capacity, copied : 0 .. Capacity]
      /\ cons'.at = "copy" /\ cons'.count = cons.count /\ cons'.taken = cons.taken
      /\ cons'.index = cons.index /\ cons'.copied = cons.copied + 1
    BY <1>1, RingAssumption DEF Types, Capacity
<1>3. Types' /\ Order'
    BY <1>1, <1>2 DEF Types, Order
<1>4. Indices'
    BY <1>2 DEF Indices, Position
<1>5. Contents'
    BY SameContents DEF Stored
<1>6. Copying'
    <2>1. /\ out = [j \in 1 .. cons.taken |-> out[j]]
          /\ \A j \in 1 .. cons.copied : out[j] = cons.count + j - 1
          /\ cons.copied \in Nat /\ cons.taken \in Nat /\ cons.count \in Nat
        BY <1>1, RingAssumption DEF Copying, Types, Capacity
    <2>2. cons.copied + 1 \in 1 .. cons.taken
        BY <2>1, <1>1
    <2>3. /\ DOMAIN out' = 1 .. cons.taken
          /\ out' = [j \in 1 .. cons.taken |-> out'[j]]
        BY <1>1, <2>1
    <2>4. ASSUME NEW j \in 1 .. (cons.copied + 1)
          PROVE  out'[j] = cons.count + j - 1
        <3>1. CASE j = cons.copied + 1
            BY <3>1, <2>1, <2>2, <1>1
        <3>2. CASE j # cons.copied + 1
            <4>1. j \in 1 .. cons.copied /\ j \in 1 .. cons.taken
                BY <3>2, <2>1, <2>2
            <4>. QED  BY <4>1, <3>2, <2>1, <1>1
        <3>. QED  BY <3>1, <3>2
    <2>. QED  BY <1>2, <2>3, <2>4 DEF Copying
<1>7. Promise'
    BY <1>2 DEF Promise
<1>. QED  BY <1>3, <1>4, <1>5, <1>6, <1>7

LEMMA ClearStartKeeps == ASSUME RingInv, ClearStart PROVE RingInv'
<1>1. Dist(write, cons.index) = published - cons.count
    BY Counted
<1>. USE DEF RingInv, ClearStart
<1>2. /\ cons' \in [at : {"idle", "copy", "skip"}, index : Cells, count : Nat,
                     taken : 0 .. Capacity, copied : 0 .. Capacity]
      /\ cons'.at = "skip" /\ cons'.count = cons.count /\ cons'.index = cons.index
      /\ cons'.count + cons'.taken = published /\ cons'.copied = 0
      /\ cons'.copied <= cons'.taken
    <2>. DEFINE skipped == published - cons.count
    <2>1. /\ skipped \in 0 .. Capacity /\ 0 \in 0 .. Capacity /\ 0 <= skipped
          /\ cons.count + skipped = published
          /\ cons \in [at : {"idle", "copy", "skip"}, index : Cells, count : Nat,
                       taken : 0 .. Capacity, copied : 0 .. Capacity]
          /\ cons' = [cons EXCEPT !.at = "skip", !.copied = 0, !.taken = skipped]
        BY <1>1, RingAssumption DEF Types, Order, Capacity
    <2>. HIDE DEF skipped, ClearStart, RingInv
    <2>. QED  BY <2>1
<1>3. Types' /\ Order'
    BY <1>2, RingAssumption DEF Types, Order, Capacity
<1>4. Indices'
    BY <1>2 DEF Indices, Position
<1>5. Contents'
    BY SameContents DEF Stored
<1>6. Copying' /\ Promise'
    BY <1>2 DEF Copying, Promise
<1>. QED  BY <1>3, <1>4, <1>5, <1>6

LEMMA ReleaseKeeps == ASSUME RingInv, Release PROVE RingInv'
<1>. USE DEF RingInv, Release
<1>1. cons.taken \in 0 .. cons.taken /\ cons.count + cons.taken \in
            freed .. (freed + Capacity)
    BY RingAssumption DEF Types, Order, Capacity
<1>2. /\ cons'.index = Position(cons.count + cons.taken) /\ cons'.index \in Cells
      /\ cons'.count = cons.count + cons.taken /\ cons'.taken = 0
      /\ cons'.copied = 0 /\ cons'.at = "idle"
      /\ reads' = reads \cup {[index |-> cons'.index, count |-> cons'.count]}
      /\ cons' = [at |-> "idle", index |-> cons'.index, count |-> cons'.count,
                  taken |-> 0, copied |-> 0]
    BY <1>1, Counted
<1>3. Types' /\ Order'
    BY <1>2, RingAssumption DEF Types, Order, Capacity
<1>4. Indices'
    <2>1. cons.count <= cons'.count /\ freed <= cons'.count
        BY <1>2, RingAssumption DEF Types, Order, Capacity
    <2>2. ASSUME NEW r \in reads'
          PROVE  freed <= r.count /\ r.count <= cons'.count
                 /\ r.index = Position(r.count)
        <3>1. CASE r \in reads
            BY <3>1, <1>2, <2>1 DEF Indices, Types
        <3>2. CASE r = [index |-> cons'.index, count |-> cons'.count]
            BY <3>2, <1>2, <2>1, <1>3 DEF Types
        <3>. QED  BY <3>1, <3>2, <1>2
    <2>. QED  BY <1>2, <2>2 DEF Indices, Position
<1>5. Contents'
    BY SameContents DEF Stored
<1>6. Copying' /\ Promise'
    <2>1. promised' = promised /\ published' = published
        OBVIOUS
    <2>. QED  BY <1>2, <2>1 DEF Copying, Promise
<1>. QED  BY <1>3, <1>4, <1>5, <1>6

LEMMA CheckLenKeeps == ASSUME RingInv, CheckLen PROVE RingInv'
<1>1. Dist(write, cons.index) = published - cons.count
    BY Counted
<1>. USE DEF RingInv, CheckLen
<1>2. promised' \in 0 .. Capacity /\ cons.count + promised' <= published
    BY <1>1, RingAssumption DEF Types, Order, Capacity
<1>3. Types' /\ Order' /\ Copying' /\ Promise'
    BY <1>2 DEF Types, Order, Copying, Promise
<1>4. Indices'
    BY DEF Indices, Position
<1>5. Contents'
    BY SameContents DEF Stored
<1>. QED  BY <1>3, <1>4, <1>5

LEMMA ShowCellKeeps ==
    ASSUME RingInv, NEW c \in Cells, ShowCell(c) PROVE RingInv'
<1>. USE DEF RingInv, ShowCell
<1>1. Types' /\ Order' /\ Copying' /\ Promise'
    BY DEF Types, Order, Copying, Promise
<1>2. Indices'
    BY DEF Indices, Position
<1>3. Contents'
    <2>1. /\ pending \in [Cells -> Nat \cup {None}] /\ cells \in [Cells -> Nat]
          /\ freed' = freed /\ Stored' = Stored /\ \A k : Position(k)' = Position(k)
          /\ Stored \in Nat /\ Stored <= freed + Capacity
        BY RingAssumption DEF Types, Order, Position, Stored, Capacity
    <2>2. \A k \in freed .. (freed + Capacity) : Position(k) \in Cells
        BY Counted
    <2>3. ASSUME NEW k \in freed .. (Stored - 1) PROVE Kept(k)'
        <3>1. Kept(k) /\ Position(k) \in Cells
            BY <2>1, <2>2, RingAssumption DEF Contents, Types, Capacity
        <3>. QED  BY <3>1, <2>1 DEF Kept
    <2>4. ASSUME NEW k \in Stored .. (freed + Capacity) PROVE Settled(k)'
        <3>1. Settled(k) /\ Position(k) \in Cells
            <4>1. k \in freed .. (freed + Capacity)
                BY <2>1, RingAssumption DEF Types, Order, Stored, Capacity
            <4>. QED  BY <2>2, <4>1 DEF Contents
        <3>. QED  BY <3>1, <2>1 DEF Settled
    <2>. QED  BY <2>1, <2>3, <2>4 DEF Contents, Capacity
<1>. QED  BY <1>1, <1>2, <1>3

LEMMA ShowWriteKeeps ==
    ASSUME RingInv, NEW r \in writes, ShowWrite(r) PROVE RingInv'
<1>. USE DEF RingInv, ShowWrite
<1>1. /\ published <= r.count /\ r.count <= prod.count
      /\ r.index = Position(r.count) /\ r.index \in Cells /\ r.count \in Nat
      /\ \A s \in writes' : s \in writes /\ r.count <= s.count
    BY DEF Indices, Types, First
<1>2. Types' /\ Order' /\ Copying'
    <2>1. /\ write' = r.index /\ published' = r.count /\ writes' \subseteq writes
          /\ UNCHANGED <<cells, pending, read, freed, reads, prod, cons, promised, out>>
        OBVIOUS
    <2>2. cons.count + cons.taken <= r.count
        BY <1>1, RingAssumption DEF Types, Order, Capacity
    <2>. HIDE DEF ShowWrite
    <2>3. Types'
        BY <1>1, <2>1 DEF Types
    <2>. QED  BY <1>1, <2>1, <2>2, <2>3 DEF Order, Copying
<1>3. Indices'
    BY <1>1 DEF Indices, Position
<1>4. Promise'
    BY <1>1, RingAssumption DEF Promise, Types, Capacity
<1>5. Contents'
    <2>1. /\ pending \in [Cells -> Nat \cup {None}]
          /\ freed' = freed /\ Stored' = Stored /\ \A k : Position(k)' = Position(k)
          /\ Stored \in Nat /\ Stored <= freed + Capacity /\ freed \in Nat
        BY RingAssumption DEF Types, Order, Position, Stored, Capacity
    <2>2. ASSUME NEW k \in freed .. (Stored - 1) PROVE Kept(k)'
        <3>1. Kept(k) /\ Position(k) \in Cells
            <4>1. k \in freed .. (freed + Capacity)
                BY <2>1, RingAssumption DEF Capacity
            <4>. QED  BY <4>1, Counted DEF Contents
        <3>2. pending[Position(k)] # None => r.count <= k
            BY <3>1, <2>1, <1>1 DEF Kept, Ordered
        <3>. QED  BY <3>1, <3>2, <2>1 DEF Kept
    <2>3. ASSUME NEW k \in Stored .. (freed + Capacity) PROVE Settled(k)'
        BY <2>1 DEF Settled, Contents
    <2>. QED  BY <2>1, <2>2, <2>3 DEF Contents, Capacity
<1>. QED  BY <1>2, <1>3, <1>4, <1>5

(* The window moves.  Its new samples get the cells of those left behind,  *)
(* which the consumer has let go: their stores have long arrived.          *)
LEMMA ShowReadKeeps ==
    ASSUME RingInv, NEW r \in reads, ShowRead(r) PROVE RingInv'
<1>. USE DEF RingInv, ShowRead
<1>1. /\ freed <= r.count /\ r.count <= cons.count
      /\ r.index = Position(r.count) /\ r.index \in Cells /\ r.count \in Nat
      /\ \A s \in reads' : s \in reads /\ r.count <= s.count
      /\ freed' = r.count /\ read' = r.index
    BY DEF Indices, Types, First
<1>2. Types' /\ Order' /\ Copying' /\ Promise'
    <2>1. /\ reads' \subseteq reads
          /\ UNCHANGED <<cells, pending, write, published, writes, prod, cons,
                         promised, out>>
        OBVIOUS
    <2>2. prod.count + prod.taken <= r.count + Capacity
        BY <1>1, RingAssumption DEF Types, Order, Capacity
    <2>. HIDE DEF ShowRead
    <2>3. Types'
        BY <1>1, <2>1 DEF Types
    <2>4. Order'
        BY <1>1, <2>1, <2>2 DEF Order, Capacity
    <2>. QED  BY <1>1, <2>1, <2>3, <2>4 DEF Copying, Promise
<1>3. /\ freed \in Nat /\ Capacity \in Nat /\ Size = Capacity + 1
      /\ r.count \in freed .. (freed + Capacity) /\ read \in Cells
      /\ r.count <= published /\ published <= prod.count
      /\ prod.count <= Stored /\ Stored <= freed + Capacity
      /\ Stored' = Stored /\ Stored \in Nat
      /\ prod.count \in Nat /\ published \in Nat /\ cons.count \in Nat
    BY <1>1, RingAssumption DEF Types, Order, Capacity, Stored
<1>4. ASSUME NEW k \in r.count .. (r.count + Capacity)
      PROVE  Position(k)' = IF k <= freed + Capacity THEN Position(k)
                                                     ELSE Position(k - Size)
    <2>1. /\ Position(k)' = Wrap(Wrap(read + (r.count - freed)) + (k - r.count))
          /\ Wrap(Wrap(read + (r.count - freed)) + (k - r.count)) =
                IF k <= freed + Capacity THEN Wrap(read + (k - freed))
                                         ELSE Wrap(read + ((k - Size) - freed))
        BY <1>1, <1>3, Moved DEF Position
    <2>. QED  BY <2>1 DEF Position
<1>5. ASSUME NEW k \in r.count .. (freed + Capacity)
      PROVE  Position(k)' = Position(k)
    <2>1. k \in r.count .. (r.count + Capacity) /\ k <= freed + Capacity
        BY <1>3, <1>1
    <2>. QED  BY <2>1, <1>4
<1>6. Indices'
    <2>1. /\ published \in r.count .. (freed + Capacity)
          /\ prod.count \in r.count .. (freed + Capacity)
          /\ cons.count \in r.count .. (freed + Capacity)
        BY <1>1, <1>3 DEF Order, Types
    <2>2. /\ write' = Position(published)' /\ prod'.index = Position(prod.count)'
          /\ cons'.index = Position(cons.count)'
        BY <2>1, <1>5 DEF Indices
    <2>3. ASSUME NEW s \in writes'
          PROVE  published <= s.count /\ s.count <= prod.count
                 /\ s.index = Position(s.count)'
        <3>1. /\ published <= s.count /\ s.count <= prod.count
              /\ s.index = Position(s.count) /\ s.count \in Nat
            BY DEF Indices, Types
        <3>2. s.count \in r.count .. (freed + Capacity)
            BY <3>1, <1>1, <1>3
        <3>. QED  BY <3>1, <3>2, <1>5
    <2>4. ASSUME NEW s \in reads'
          PROVE  r.count <= s.count /\ s.count <= cons.count
                 /\ s.index = Position(s.count)'
        <3>1. /\ r.count <= s.count /\ s.count <= cons.count
              /\ s.index = Position(s.count) /\ s.count \in Nat
            BY <1>1 DEF Indices, Types
        <3>2. s.count \in r.count .. (freed + Capacity)
            BY <3>1, <2>1, <1>1, <1>3
        <3>. QED  BY <3>1, <3>2, <1>5
    <2>. QED  BY <1>1, <2>2, <2>3, <2>4 DEF Indices
<1>7. Contents'
    <2>1. ASSUME NEW k \in r.count .. (Stored - 1) PROVE Kept(k)'
        <3>1. k \in freed .. (Stored - 1) /\ k \in r.count .. (freed + Capacity)
            BY <1>3, <1>1
        <3>2. Kept(k) /\ Position(k)' = Position(k)
            BY <3>1, <1>5 DEF Contents
        <3>. QED  BY <3>2 DEF Kept
    <2>2. ASSUME NEW k \in Stored .. (r.count + Capacity) PROVE Settled(k)'
        <3>1. CASE k <= freed + Capacity
            <4>1. k \in Stored .. (freed + Capacity) /\ k \in r.count .. (freed + Capacity)
                BY <3>1, <1>3, <1>1
            <4>2. Settled(k) /\ Position(k)' = Position(k)
                BY <4>1, <1>5 DEF Contents
            <4>. QED  BY <4>2 DEF Settled
        <3>2. CASE ~(k <= freed + Capacity)
            <4>1. /\ k \in r.count .. (r.count + Capacity) /\ k - Size \in Int
                  /\ k - Size \in freed .. (Stored - 1) /\ k - Size < published
                BY <3>2, <1>3, <1>1
            <4>2. Kept(k - Size) /\ Position(k)' = Position(k - Size)
                BY <4>1, <3>2, <1>4 DEF Contents
            <4>3. pending[Position(k - Size)] = None
                BY <4>1, <4>2, <1>3 DEF Kept
            <4>. QED  BY <4>2, <4>3 DEF Settled
        <3>. QED  BY <3>1, <3>2
    <2>. QED  BY <1>1, <1>3, <2>1, <2>2 DEF Contents, Capacity
<1>. QED  BY <1>2, <1>6, <1>7

LEMMA StepKeeps == ASSUME RingInv, [Next]_vars PROVE RingInv'
<1>1. CASE Producer
    BY <1>1, PushStartKeeps, StoreKeeps, PushPublishKeeps DEF Producer
<1>2. CASE Consumer
    BY <1>2, PopStartKeeps, CopyKeeps, ClearStartKeeps, ReleaseKeeps, CheckLenKeeps
       DEF Consumer
<1>3. CASE Memory
    BY <1>3, ShowCellKeeps, ShowWriteKeeps, ShowReadKeeps DEF Memory
<1>4. CASE UNCHANGED vars
    <2>1. Stored' = Stored
        BY <1>4 DEF vars, Stored
    <2>2. Contents'
        BY <1>4, <2>1, SameContents DEF vars
    <2>3. Types' /\ Order' /\ Indices'
        BY <1>4 DEF vars, RingInv, Types, Order, Indices, Position
    <2>4. Copying' /\ Promise'
        BY <1>4 DEF vars, RingInv, Copying, Promise
    <2>. QED  BY <2>2, <2>3, <2>4 DEF RingInv
<1>. QED  BY <1>1, <1>2, <1>3, <1>4 DEF Next

(* Every index stands for as many samples as its thread has dealt with,    *)
(* and every sample in the ring is in its cell or on its way there, for    *)
(* the whole of push, pop, clear and len (ring.rs:57-108).                 *)
THEOREM RingSafe == Spec => []RingInv
<1>. QED  BY RingStart, StepKeeps, PTL DEF Spec

----------------------------------------------------------------------------
(* The ring implements Queue.                                              *)

LEMMA QueueStart == Init => Q!QueueInit
BY DEF Init, Q!QueueInit

LEMMA QueueStep == RingInv /\ [Next]_vars => [Q!QueueNext]_(Q!queueVars)
<1>. SUFFICES ASSUME RingInv, [Next]_vars PROVE [Q!QueueNext]_(Q!queueVars)
    OBVIOUS
<1>. USE DEF Q!QueueNext, Q!queueVars
<1>1. CASE Producer
    BY <1>1 DEF Producer, PushStart, Store, Publish
<1>2. ASSUME NEW n \in 0 .. Size, PopStart(n) PROVE [Q!QueueNext]_(Q!queueVars)
    <2>1. cons'.count = cons.count
        BY <1>2 DEF PopStart, RingInv, Types
    <2>. QED  BY <1>2, <2>1 DEF PopStart
<1>3. CASE Copy
    <2>1. cons'.count = cons.count
        BY <1>3 DEF Copy, RingInv, Types
    <2>. QED  BY <1>3, <2>1 DEF Copy
<1>4. CASE ClearStart
    <2>1. cons'.count = cons.count
        BY <1>4 DEF ClearStart, RingInv, Types
    <2>. QED  BY <1>4, <2>1 DEF ClearStart
<1>5. CASE Release
    <2>1. /\ cons'.count = cons.count + cons.taken /\ published' = published
          /\ cons.taken \in 0 .. (published - cons.count)
        BY <1>5, RingAssumption DEF Release, RingInv, Types, Order, Capacity
    <2>2. CASE cons.at = "copy"
        <3>1. /\ delivered' = out /\ cons.copied = cons.taken
              /\ out = [j \in 1 .. cons.taken |-> out[j]]
              /\ \A j \in 1 .. cons.taken : out[j] = cons.count + j - 1
            BY <1>5, <2>2 DEF Release, RingInv, Copying
        <3>2. delivered' = [j \in 1 .. cons.taken |-> cons.count + j - 1]
            BY <3>1
        <3>3. Q!Deliver
            BY <2>1, <3>2 DEF Q!Deliver
        <3>. QED  BY <3>3
    <2>3. CASE cons.at = "skip"
        <3>1. delivered' = delivered
            BY <1>5, <2>3 DEF Release
        <3>2. Q!Discard
            BY <2>1, <3>1 DEF Q!Discard
        <3>. QED  BY <3>2
    <2>. QED  BY <1>5, <2>2, <2>3 DEF Release
<1>6. CASE CheckLen
    BY <1>6 DEF CheckLen
<1>7. ASSUME NEW c \in Cells, ShowCell(c) PROVE [Q!QueueNext]_(Q!queueVars)
    BY <1>7 DEF ShowCell
<1>8. ASSUME NEW r \in writes, ShowWrite(r) PROVE [Q!QueueNext]_(Q!queueVars)
    <2>1. r.count \in published .. (cons.count + Capacity)
        BY RingAssumption DEF RingInv, Types, Order, Indices, Capacity
    <2>2. Q!Enter
        BY <1>8, <2>1 DEF ShowWrite, Q!Enter
    <2>. QED  BY <2>2
<1>9. ASSUME NEW r \in reads, ShowRead(r) PROVE [Q!QueueNext]_(Q!queueVars)
    BY <1>9 DEF ShowRead
<1>10. CASE UNCHANGED vars
    BY <1>10 DEF vars
<1>. QED  BY <1>1, <1>2, <1>3, <1>4, <1>5, <1>6, <1>7, <1>8, <1>9, <1>10
          DEF Next, Consumer, Memory

(* However the stores of the two threads are reordered, what comes out of  *)
(* the ring is what went in, in order, each sample once; the ring never    *)
(* holds more than it has room for, and what clear skips is gone.          *)
THEOREM RingImplementsQueue == Spec => Queueing
<1>. QED
    BY RingStart, StepKeeps, QueueStart, QueueStep, PTL DEF Spec, Queueing, Q!QueueSpec

(* A pop of no more than the consumer's last len() said is never short.    *)
THEOREM FramesAreWhole == Spec => FramesWhole
<1>1. ASSUME RingInv, [Next]_vars, NEW n \in 0 .. Size, PopStart(n)
      PROVE  cons'.taken >= AtMost(n, promised)
    <2>1. /\ cons'.taken = AtMost(n, Dist(write, cons.index))
          /\ Dist(write, cons.index) = published - cons.count
        BY <1>1, Counted DEF PopStart, RingInv, Types
    <2>2. promised <= published - cons.count
        BY <1>1 DEF RingInv, Promise, Types, Order
    <2>. QED  BY <2>1, <2>2, <1>1, RingAssumption DEF AtMost, RingInv, Types, Capacity
<1>2. RingInv /\ [Next]_vars =>
        [\A n \in 0 .. Size : PopStart(n) => cons'.taken >= AtMost(n, promised)]_vars
    BY <1>1
<1>. QED  BY RingStart, StepKeeps, <1>2, PTL DEF Spec, FramesWhole

----------------------------------------------------------------------------
(* What a client holds of the devices.                                     *)

Starting == {"open", "capture", "playback", "send", "spare", "receive"}
Stopping == {"stop", "close", "join"}

\* The session whose threads may run.
InUse ==
    IF doing = "nothing" THEN voice
    ELSE IF doing \in Stopping THEN going
    ELSE IF doing \in {"spare", "receive"} THEN begun ELSE 0

\* The session whose streams are open, while it starts or stops too.
Opened == IF doing = "nothing" THEN voice
          ELSE IF doing \in {"stop", "close"} THEN going
          ELSE IF doing \in {"playback", "send", "spare", "receive"} THEN begun ELSE 0

LineTypes ==
    /\ begun \in Nat /\ voice \in 0 .. begun /\ going \in 0 .. begun
    /\ doing \in {"nothing"} \cup Starting \cup Stopping
    /\ after \in {"nothing", "open"}
    /\ listeners \subseteq 1 .. begun
    /\ running \subseteq {"tx", "rx"} \X (1 .. begun)

\* One session at a time: being dropped, being started or in use.  The one to be
\* started next has no microphone to do without yet.
OneSession ==
    /\ doing # "nothing" => voice = 0
    /\ (going # 0) = (doing \in Stopping)
    /\ doing \in Starting => begun # 0
    /\ doing \in Stopping /\ after = "open" => going < begun
    /\ doing \in {"open", "capture"} \/ (doing \in Stopping /\ after = "open") =>
          begun \notin listeners

Devices ==
    /\ mic = IF Opened \in listeners THEN 0 ELSE Opened
    /\ speakers = IF doing = "playback" THEN 0 ELSE Opened

\* Of sessions that are not in use only senders are left, abandoned.
LeftRunning ==
    /\ \A t \in {"tx", "rx"}, n \in 1 .. begun :
          <<t, n>> \in running => n = InUse \/ (n \in abandoned /\ <<"rx", n>> \notin running)
    /\ doing \in {"spare", "receive"} => <<"rx", begun>> \notin running

LineInv == LineTypes /\ OneSession /\ Devices /\ LeftRunning

LEMMA LineStart == LineInit => LineInv
BY LineAssumption
   DEF LineInit, LineInv, LineTypes, OneSession, Devices, LeftRunning, InUse, Opened,
       Starting, Stopping, held

\* Every step of a start or a stop hands the devices and threads on as it should.
LEMMA LineStep == ASSUME LineInv, [LineNext]_lineVars PROVE LineInv'
<1>. USE DEF LineTypes, OneSession, Devices, InUse, Opened, Starting, Stopping, Goes
<1>1. CASE StartVoice
    <2>1. LineTypes' /\ OneSession' /\ Devices'
        BY <1>1 DEF LineInv, StartVoice, FirstOfStart, held
    <2>2. LeftRunning'
        BY <1>1 DEF LineInv, LeftRunning, StartVoice, FirstOfStart, held
    <2>. QED  BY <2>1, <2>2 DEF LineInv
<1>2. CASE EndVoice
    <2>1. LineTypes' /\ OneSession' /\ Devices'
        BY <1>2 DEF LineInv, EndVoice, held
    <2>2. LeftRunning'
        BY <1>2 DEF LineInv, LeftRunning, EndVoice, held
    <2>. QED  BY <2>1, <2>2 DEF LineInv
<1>3. CASE SetStop
    BY <1>3 DEF LineInv, LeftRunning, SetStop, held
<1>4. CASE CloseStreams
    <2>1. LineTypes' /\ OneSession' /\ Devices'
        BY <1>4 DEF LineInv, CloseStreams, Released
    <2>2. LeftRunning'
        BY <1>4 DEF LineInv, LeftRunning, CloseStreams
    <2>. QED  BY <2>1, <2>2 DEF LineInv
<1>5. CASE Join
    <2>1. LineTypes' /\ OneSession' /\ Devices'
        BY <1>5 DEF LineInv, Join, held
    <2>2. \A t \in {"tx", "rx"}, n \in 1 .. begun : <<t, n>> \in running => n # going
        BY <1>5 DEF LineInv, Join
    <2>3. LeftRunning'
        BY <1>5, <2>2 DEF LineInv, LeftRunning, Join
    <2>. QED  BY <2>1, <2>3 DEF LineInv
<1>6. CASE OpenTransport
    <2>1. LineTypes' /\ OneSession' /\ Devices'
        BY <1>6 DEF LineInv, OpenTransport, GiveUp, Failing, Step, Released, held
    <2>2. LeftRunning'
        BY <1>6 DEF LineInv, LeftRunning, OpenTransport, GiveUp, Failing, Step
    <2>. QED  BY <2>1, <2>2 DEF LineInv
<1>7. CASE StartCapture
    <2>0. mic = 0 /\ speakers = 0 /\ begun \in 1 .. begun /\ begun \notin listeners
        BY <1>7 DEF LineInv, StartCapture
    <2>1. LineTypes' /\ OneSession' /\ Devices'
        <3>1. CASE mic' = begun /\ listeners' = listeners
            BY <1>7, <2>0, <3>1 DEF LineInv, StartCapture
        <3>2. CASE mic' = 0 /\ listeners' = listeners \cup {begun}
            BY <1>7, <2>0, <3>2 DEF LineInv, StartCapture
        <3>. QED  BY <1>7, <2>0, <3>1, <3>2 DEF StartCapture
    <2>2. LeftRunning'
        BY <1>7 DEF LineInv, LeftRunning, StartCapture
    <2>. QED  BY <2>1, <2>2 DEF LineInv
<1>8. CASE StartPlayback
    <2>1. LineTypes' /\ OneSession' /\ Devices'
        BY <1>8 DEF LineInv, StartPlayback, GiveUp, Failing, Step, Released
    <2>2. LeftRunning'
        BY <1>8 DEF LineInv, LeftRunning, StartPlayback, GiveUp, Step
    <2>. QED  BY <2>1, <2>2 DEF LineInv
<1>9. CASE SpawnTx
    <2>1. LineTypes' /\ OneSession' /\ Devices'
        BY <1>9 DEF LineInv, SpawnTx, GiveUp, Failing, Step, Released, held
    <2>2. LeftRunning'
        BY <1>9 DEF LineInv, LeftRunning, SpawnTx, GiveUp, Step
    <2>. QED  BY <2>1, <2>2 DEF LineInv
<1>10. CASE CloneSpare
    <2>1. LineTypes' /\ OneSession' /\ Devices'
        BY <1>10 DEF LineInv, CloneSpare, GiveUp, Failing, Step, Released, held
    <2>2. LeftRunning'
        <3>1. CASE Step("spare", "receive") /\ UNCHANGED abandoned
            BY <1>10, <3>1 DEF LineInv, LeftRunning, CloneSpare, Step
        <3>2. CASE abandoned' = abandoned \cup {begun} /\ doing' = "nothing"
            <4>1. running' = running /\ begun' = begun /\ doing = "spare"
                BY <1>10, <3>2 DEF CloneSpare, Step
            <4>2. ASSUME NEW t \in {"tx", "rx"}, NEW n \in 1 .. begun, <<t, n>> \in running
                  PROVE  n \in abandoned' /\ <<"rx", n>> \notin running
                BY <3>2, <4>1, <4>2 DEF LineInv, LeftRunning
            <4>. QED  BY <3>2, <4>1, <4>2 DEF LeftRunning
        <3>. QED  BY <1>10, <3>1, <3>2 DEF CloneSpare, GiveUp
    <2>. QED  BY <2>1, <2>2 DEF LineInv
<1>11. CASE SpawnRx
    <2>1. LineTypes' /\ OneSession' /\ Devices'
        BY <1>11 DEF LineInv, SpawnRx, Step, held
    <2>2. LeftRunning'
        BY <1>11 DEF LineInv, LeftRunning, SpawnRx, Step
    <2>. QED  BY <2>1, <2>2 DEF LineInv
<1>12. ASSUME NEW thread \in {"tx", "rx"}, NEW n \in 1 .. begun, Return(thread, n)
       PROVE  LineInv'
    <2>1. LineTypes' /\ OneSession' /\ Devices'
        BY <1>12 DEF LineInv, Return, held
    <2>2. LeftRunning'
        BY <1>12 DEF LineInv, LeftRunning, Return
    <2>. QED  BY <2>1, <2>2 DEF LineInv
<1>13. CASE UNCHANGED lineVars
    BY <1>13 DEF LineInv, LeftRunning, lineVars, held
<1>. QED
    BY <1>1, <1>2, <1>3, <1>4, <1>5, <1>6, <1>7, <1>8, <1>9, <1>10, <1>11, <1>12, <1>13
       DEF LineNext

LEMMA OneLineHeld == LineInv => OneLine
<1>. SUFFICES ASSUME LineInv PROVE OneLine
    OBVIOUS
<1>. USE DEF LineInv, LineTypes, OneSession, Devices, InUse, Opened, Starting, Stopping
<1>1. doing = "nothing" => mic = (IF voice \in listeners THEN 0 ELSE voice) /\ speakers = voice
    OBVIOUS
<1>2. doing = "join" => mic # going /\ speakers # going
    OBVIOUS
<1>. DEFINE Left(n) == n \in abandoned /\ <<"rx", n>> \notin running
<1>3. ASSUME NEW one \in running PROVE one[2] = InUse \/ Left(one[2])
    <2>1. PICK t \in {"tx", "rx"}, n \in 1 .. begun : one = <<t, n>>
        OBVIOUS
    <2>. QED  BY <2>1 DEF LeftRunning
<1>. HIDE DEF Left
<1>4. ASSUME NEW one \in running, NEW other \in running, one[2] # other[2]
      PROVE  \E n \in {one[2], other[2]} : n \in abandoned /\ <<"rx", n>> \notin running
    BY <1>3, <1>4 DEF Left
<1>5. voice = 0 /\ doing = "nothing" => \A one \in running : one[2] \in abandoned
    <2>1. SUFFICES ASSUME voice = 0, doing = "nothing", NEW one \in running
                   PROVE  one[2] \in abandoned
        OBVIOUS
    <2>2. one[2] \in 1 .. begun /\ begun \in Nat
        OBVIOUS
    <2>3. one[2] # InUse
        BY <2>1, <2>2
    <2>. QED  BY <2>3, <1>3 DEF Left
<1>. QED  BY <1>1, <1>2, <1>4, <1>5 DEF OneLine

----------------------------------------------------------------------------
(* What is played, at the device's rate.                                   *)

(* What dividing and rounding up does.                                     *)
LEMMA RoundedUp ==
    ASSUME NEW m \in Int, NEW n \in Nat \ {0}
    PROVE  /\ CeilDiv(m, n) \in Int
           /\ m <= CeilDiv(m, n) * n /\ CeilDiv(m, n) * n < m + n
<1>. DEFINE q == (m + n - 1) \div n
<1>1. q \in Int /\ m + n - 1 = q * n + ((m + n - 1) % n) /\ (m + n - 1) % n \in 0 .. (n - 1)
    OBVIOUS
<1>. HIDE DEF q
<1>2. q * n \in Int
    BY <1>1
<1>3. CeilDiv(m, n) = q
    BY DEF CeilDiv, q
<1>. QED  BY <1>1, <1>2, <1>3

(* A factor is cancelled from both sides of a comparison.                  *)
LEMMA Cancelled ==
    ASSUME NEW a \in Int, NEW b \in Int, NEW n \in Nat \ {0}, a * n < (b + 1) * n
    PROVE  a <= b
<1>1. SUFFICES ASSUME a >= b + 1 PROVE FALSE
    OBVIOUS
<1>2. (a - b - 1) * n >= 0
    BY <1>1
<1>. QED  BY <1>2

\* The place between two wanted of the mix is what has been taken and not made.
OutputInv ==
    /\ rate \in Nat \ {0} /\ ready \in Nat /\ taken \in Nat /\ made \in Int
    /\ position = made * MixRate - taken * rate
    /\ 0 <= position /\ position < MixRate
    /\ short = 0
    /\ ready <= Largest + CeilDiv((Slack + 1) * rate, MixRate) + 1

LEMMA LargestIsOne == Largest \in Asked /\ \A m \in Asked : m <= Largest
BY OutputAssumption DEF Largest

LEMMA OutputStart == OutputInit => OutputInv
<1>. SUFFICES ASSUME OutputInit PROVE OutputInv
    OBVIOUS
<1>1. rate \in Nat \ {0} /\ Slack \in Nat /\ MixRate \in Nat \ {0} /\ Largest \in Nat
    BY OutputAssumption, LargestIsOne DEF OutputInit
<1>. DEFINE room == (Slack + 1) * rate
            c == CeilDiv(room, MixRate)
<1>2. room \in Nat
    BY <1>1
<1>3. c \in Int /\ room <= c * MixRate
    BY <1>1, <1>2, RoundedUp
<1>4. c >= 0
    <2>1. SUFFICES ASSUME c <= -1 PROVE FALSE
        BY <1>3
    <2>2. (-1 - c) * MixRate >= 0
        BY <1>1, <1>3, <2>1
    <2>. HIDE DEF c, room
    <2>. QED  BY <1>1, <1>2, <1>3, <2>2
<1>. HIDE DEF c
<1>5. ready <= Largest + c + 1
    BY <1>1, <1>3, <1>4 DEF OutputInit
<1>. QED  BY <1>1, <1>5 DEF OutputInv, OutputInit, c

(* What is converted keeps its place, is as much as was asked for, and     *)
(* little more.                                                            *)
LEMMA Converted ==
    ASSUME OutputInv, NEW wanted \in Nat \ {0},
           NEW emitted \in Int,
           emitted = IF rate = MixRate THEN Needed(wanted) ELSE Emitted(Needed(wanted))
    PROVE  LET there == position + emitted * MixRate - Needed(wanted) * rate
           IN  /\ Needed(wanted) \in Nat
               /\ 0 <= there /\ there < MixRate
               /\ emitted >= wanted
               /\ emitted <= wanted + CeilDiv((Slack + 1) * rate, MixRate)
<1>. DEFINE M == MixRate
            D == rate
            room == (Slack + 1) * D
            c == CeilDiv(room, M)
            k == CeilDiv(wanted * M, D)
            needed == Needed(wanted)
<1>1. /\ M \in Nat \ {0} /\ D \in Nat \ {0} /\ Slack \in Nat
      /\ position \in Int /\ 0 <= position /\ position < M
    BY OutputAssumption DEF OutputInv
<1>2. room \in Nat /\ room = Slack * D + D /\ Slack * D \in Nat /\ wanted * M \in Nat
    BY <1>1
<1>. HIDE DEF M, D, room
<1>3. c \in Int /\ room <= c * M /\ c * M < room + M
    <2>1. PICK w \in Int : w = room
        BY <1>2
    <2>. QED  BY <1>1, <2>1, RoundedUp
<1>4. k \in Int /\ wanted * M <= k * D /\ k * D < wanted * M + D
    <2>1. PICK w \in Int : w = wanted * M
        BY <1>2
    <2>. QED  BY <1>1, <2>1, RoundedUp
<1>5. k >= 0
    <2>1. SUFFICES ASSUME k <= -1 PROVE FALSE
        BY <1>4
    <2>2. (-1 - k) * D >= 0
        BY <1>1, <1>4, <2>1
    <2>. HIDE DEF k
    <2>. QED  BY <1>1, <1>2, <1>4, <2>2
<1>6. needed = k + Slack /\ needed \in Nat
    BY <1>1, <1>4, <1>5 DEF Needed, M, D
<1>. HIDE DEF k, c
<1>7. needed * D = k * D + Slack * D
    BY <1>1, <1>4, <1>6
<1>. HIDE DEF needed
<1>8. needed * D \in Int /\ wanted * M + Slack * D <= needed * D /\ needed * D < wanted * M + room
    BY <1>2, <1>1, <1>4, <1>7
<1>. HIDE DEF room
<1>9. /\ emitted * M >= needed * D - position
      /\ emitted * M < needed * D - position + M
      /\ emitted * M \in Int
    <2>1. CASE D = M
        <3>1. emitted = needed
            BY <2>1 DEF needed, M, D
        <3>2. position = 0
            <4>1. made \in Int /\ taken \in Int /\ position = made * M - taken * M
                BY <2>1 DEF OutputInv, M, D
            <4>2. PICK d \in Int : d = made - taken
                BY <4>1
            <4>3. position = d * M
                BY <4>1, <4>2, <1>1
            <4>4. d <= 0
                BY <4>3, <1>1, Cancelled
            <4>5. d >= 0
                <5>1. (-d) * M < (0 + 1) * M
                    BY <4>3, <1>1
                <5>. QED  BY <5>1, <1>1, Cancelled
            <4>. QED  BY <4>3, <4>4, <4>5, <1>1
        <3>3. emitted * M = needed * D
            BY <2>1, <3>1
        <3>. QED  BY <3>2, <3>3, <1>1, <1>8
    <2>2. CASE D # M
        <3>1. emitted = CeilDiv(needed * D - position, M)
            BY <2>2 DEF needed, Emitted, M, D
        <3>2. PICK w \in Int : w = needed * D - position
            BY <1>1, <1>8
        <3>3. w <= emitted * M /\ emitted * M < w + M
            BY <3>1, <3>2, <1>1, RoundedUp
        <3>4. emitted * M \in Int
            BY <1>1
        <3>. QED  BY <3>2, <3>3, <3>4
    <2>. QED  BY <2>1, <2>2
<1>10. wanted <= emitted
    <2>1. wanted * M < emitted * M + M
        BY <1>1, <1>2, <1>8, <1>9
    <2>2. wanted * M < (emitted + 1) * M
        BY <2>1, <1>1
    <2>. QED  BY <2>2, <1>1, Cancelled
<1>11. emitted <= wanted + c
    <2>1. emitted * M < wanted * M + c * M + M
        BY <1>1, <1>2, <1>3, <1>8, <1>9
    <2>2. emitted * M < (wanted + c + 1) * M
        BY <2>1, <1>1, <1>3
    <2>. QED  BY <2>2, <1>1, <1>3, Cancelled
<1>12. needed \in Nat /\ 0 <= position + emitted * M - needed * D
       /\ position + emitted * M - needed * D < M
    BY <1>1, <1>6, <1>8, <1>9
<1>. QED  BY <1>10, <1>11, <1>12 DEF needed, c, room, M, D

\* A callback that mixes nothing, and one that mixes n frames.
LEMMA CalledIdle ==
    ASSUME NEW wanted \in Nat, Callback(wanted), Enough(wanted), ready \in Nat,
           MixRate \in Nat, rate \in Nat, position \in Int, taken \in Int, made \in Int
    PROVE  /\ UNCHANGED <<taken, made, rate, position>>
           /\ ready' = IF ready + 0 < wanted THEN 0 ELSE ready + 0 - wanted
           /\ short' = IF ready + 0 < wanted THEN wanted - (ready + 0) ELSE 0
<1>1. position' = position + 0 * MixRate - 0 * rate
    BY Zenon DEF Callback
<1>2. taken' = taken + 0 /\ made' = made + 0 /\ rate' = rate
    BY DEF Callback
<1>3. ready' = IF ready + 0 < wanted THEN 0 ELSE ready + 0 - wanted
    BY DEF Callback
<1>4. short' = IF ready + 0 < wanted THEN wanted - (ready + 0) ELSE 0
    BY Zenon DEF Callback
<1>. QED  BY <1>1, <1>2, <1>3, <1>4

LEMMA OutputStep == ASSUME OutputInv, [OutputNext]_outputVars PROVE OutputInv'
<1>1. ASSUME NEW wanted \in Asked, Callback(wanted) PROVE OutputInv'
    <2>. DEFINE c == CeilDiv((Slack + 1) * rate, MixRate)
    <2>0. /\ wanted \in Nat \ {0} /\ wanted <= Largest /\ Largest \in Nat
          /\ MixRate \in Nat \ {0} /\ Slack \in Nat
        BY <1>1, LargestIsOne, OutputAssumption
    <2>1. /\ rate \in Nat \ {0} /\ ready \in Nat /\ taken \in Nat /\ made \in Int
          /\ position \in Int /\ 0 <= position /\ position < MixRate /\ short = 0
          /\ position = made * MixRate - taken * rate
          /\ ready <= Largest + c + 1
        BY <2>0 DEF OutputInv
    <2>2. CASE ready >= wanted
        <3>1. Enough(wanted)
            BY <2>2 DEF Enough
        <3>2. /\ taken' = taken /\ made' = made /\ rate' = rate /\ position' = position
              /\ ready' = ready - wanted /\ short' = 0
            <4>1. /\ ready' = IF ready + 0 < wanted THEN 0 ELSE ready + 0 - wanted
                  /\ short' = IF ready + 0 < wanted THEN wanted - (ready + 0) ELSE 0
                  /\ UNCHANGED <<taken, made, rate, position>>
                BY <1>1, <2>0, <2>1, <3>1, CalledIdle
            <4>. QED  BY <4>1, <2>0, <2>1, <2>2
        <3>3. c' = c
            BY <3>2
        <3>4. c \in Int
            BY <2>0, <2>1, RoundedUp
        <3>. HIDE DEF c
        <3>5. ready' \in Nat /\ ready' <= Largest + c + 1
            BY <3>2, <3>4, <2>0, <2>1, <2>2
        <3>. QED  BY <2>1, <3>2, <3>3, <3>5 DEF OutputInv, c
    <2>3. CASE ready < wanted
        <3>. DEFINE n == Needed(wanted)
                    e == IF rate = MixRate THEN n ELSE Emitted(n)
        <3>1. n \in Int
            <4>1. PICK w \in Int : w = wanted * MixRate
                BY <2>0
            <4>2. CeilDiv(w, rate) \in Int
                BY <2>1, RoundedUp
            <4>. QED  BY <4>1, <4>2, <2>0 DEF Needed
        <3>2. e \in Int
            <4>1. PICK w \in Int : w = n * rate - position
                BY <2>0, <2>1, <3>1
            <4>2. CeilDiv(w, MixRate) \in Int
                BY <2>0, RoundedUp
            <4>. QED  BY <4>1, <4>2, <3>1 DEF Emitted
        <3>3. PICK emitted \in Int : emitted = e
            BY <3>2
        <3>4. PICK there \in Int : there = position + emitted * MixRate - n * rate
            BY <2>0, <2>1, <3>1, <3>3
        <3>5. /\ n \in Nat /\ 0 <= there /\ there < MixRate
              /\ emitted >= wanted /\ emitted <= wanted + c
            BY <2>0, <3>3, <3>4, Converted
        <3>6. /\ taken' = taken + n /\ made' = made + emitted /\ rate' = rate
              /\ position' = there
              /\ ready' = IF ready + emitted < wanted THEN 0 ELSE ready + emitted - wanted
              /\ short' = IF ready + emitted < wanted THEN wanted - (ready + emitted) ELSE 0
            <4>1. n # 0
                <5>1. emitted = n \/ rate # MixRate
                    BY <3>3
                <5>2. CASE n = 0
                    <6>1. n * rate = 0
                        BY <5>2, <2>1
                    <6>2. PICK w \in Int : w = emitted * MixRate
                        BY <2>0
                    <6>3. there = position + w - 0
                        BY <3>4, <6>1, <6>2
                    <6>4. there < MixRate /\ 0 <= position /\ there \in Int /\ position \in Int
                        BY <2>1, <3>4, <3>5
                    <6>5. w < MixRate
                        BY <2>0, <6>2, <6>3, <6>4
                    <6>6. emitted * MixRate < (0 + 1) * MixRate
                        BY <6>2, <6>5, <2>0
                    <6>7. emitted <= 0
                        BY <6>6, <2>0, Cancelled
                    <6>. QED  BY <6>7, <3>5, <2>0
                <5>. QED  BY <5>2
            <4>2. ~Enough(wanted)
                BY <2>0, <2>1, <2>3 DEF Enough
            <4>3. emitted = IF rate = MixRate \/ n = 0 THEN n ELSE Emitted(n)
                BY <3>3, <4>1
            <4>4. PICK m \in Int : m = n
                BY <3>1
            <4>. HIDE DEF n, e
            <4>5. /\ taken' = taken + m /\ made' = made + emitted /\ rate' = rate
                  /\ position' = position + emitted * MixRate - m * rate
                  /\ ready' = IF ready + emitted < wanted THEN 0 ELSE ready + emitted - wanted
                  /\ short' = IF ready + emitted < wanted THEN wanted - (ready + emitted) ELSE 0
                <5>1. m = Needed(wanted)
                    BY <4>4 DEF n
                <5>2. emitted = IF rate = MixRate \/ m = 0 THEN m ELSE Emitted(m)
                    BY <4>3, <4>4
                <5>3. position' = position + emitted * MixRate - m * rate
                    BY <1>1, <4>2, <5>1, <5>2, Zenon DEF Callback
                <5>4. wanted \in Nat /\ ready \in Nat
                    BY <2>0, <2>1
                <5>5. /\ ready' = IF ready + emitted < wanted THEN 0 ELSE ready + emitted - wanted
                      /\ short' = IF ready + emitted < wanted THEN wanted - (ready + emitted) ELSE 0
                    BY <1>1, <4>2, <5>1, <5>2, <5>4 DEF Callback
                <5>6. taken' = taken + m /\ made' = made + emitted /\ rate' = rate
                    BY <1>1, <4>2, <5>1, <5>2 DEF Callback
                <5>. QED  BY <5>3, <5>5, <5>6
            <4>. QED  BY <3>4, <4>4, <4>5
        <3>7. ready' = ready + emitted - wanted /\ short' = 0 /\ ready' \in Nat
            BY <3>5, <3>6, <2>0, <2>1
        <3>8. c' = c /\ c \in Int
            BY <3>6, <2>0, <2>1, RoundedUp
        <3>9. there = (made + emitted) * MixRate - (taken + n) * rate
            <4>1. /\ (made + emitted) * MixRate = made * MixRate + emitted * MixRate
                  /\ (taken + n) * rate = taken * rate + n * rate
                BY <2>0, <2>1, <3>1
            <4>. QED  BY <4>1, <2>0, <2>1, <3>1, <3>4
        <3>. HIDE DEF c, n, e
        <3>10. ready' <= Largest + c + 1
            BY <2>0, <2>1, <2>3, <3>5, <3>7, <3>8
        <3>11. taken' \in Nat /\ made' \in Int
            BY <2>1, <3>5, <3>6
        <3>. QED  BY <2>1, <3>5, <3>6, <3>7, <3>8, <3>9, <3>10, <3>11 DEF OutputInv, c
    <2>. QED  BY <2>0, <2>1, <2>2, <2>3
<1>2. CASE UNCHANGED outputVars
    BY <1>2 DEF OutputInv, outputVars
<1>. QED  BY <1>1, <1>2 DEF OutputNext

LEMMA NeverShortHeld == OutputInv => NeverShort
<1>. SUFFICES ASSUME OutputInv PROVE NeverShort
    OBVIOUS
<1>1. MixRate \in Nat \ {0} /\ rate \in Nat \ {0} /\ taken \in Nat /\ made \in Int
    BY OutputAssumption DEF OutputInv
<1>2. (made - 1) * MixRate = made * MixRate - MixRate /\ taken * rate \in Nat /\ made * MixRate \in Int
    BY <1>1
<1>. QED  BY <1>1, <1>2 DEF OutputInv, NeverShort

----------------------------------------------------------------------------
(* Whose picture is drawn.                                                 *)

Decoders == DOMAIN owner
PictureSet == [of : Nat, generation : Nat]
NoneOr(n) == n = 0 \/ n \in Decoders

ViewTypes ==
    /\ owner \in Seq(People) /\ latest \in Seq(Nat) /\ decoded \in Seq(Nat)
    /\ Len(latest) = Len(owner) /\ Len(decoded) = Len(owner)
    /\ NoneOr(watcher) /\ NoneOr(preview)
    /\ texture \in PictureSet /\ NoneOr(texture.of)
    /\ popout \in [open : BOOLEAN, up : BOOLEAN, whose : SUBSET People, picture : PictureSet]
    /\ NoneOr(popout.picture.of)
    /\ NoneOr(drawn.picture.of)
    /\ ended \subseteq Decoders
    /\ view \subseteq People /\ \A u \in view : view = {u}

\* A picture that waits is newer than the one taken.
NewerWaits ==
    /\ texture.of = 0 => texture = NoPicture
    /\ \A n \in Decoders : latest[n] <= decoded[n]
    /\ texture.of # 0 =>
          /\ latest[texture.of] = 0 \/ latest[texture.of] > texture.generation
          /\ texture.generation <= decoded[texture.of]

\* The texture is of whom the view names, and of the decoder at work when it
\* was kept for this view.
Theirs ==
    /\ preview # 0 => owner[preview] = Me
    /\ view # {} /\ texture.of # 0 => view = {owner[texture.of]}
    /\ texture.of # 0 /\ Source # 0 /\ texture_for = view => texture.of = Source
    /\ clicking /\ popout.up => popout.whose = view

\* A share that is over is watched only when nobody said so.
OverUnsaid ==
    /\ view # {} /\ texture.of \in ended => owner[texture.of] \in silently \cup {Me}
    /\ watcher \in ended /\ view = {owner[watcher]} => owner[watcher] \in silently \cup {Me}

ViewInv == ViewTypes /\ NewerWaits /\ Theirs /\ OverUnsaid /\ NamedRightly

\* What the types say, in the form the proofs use.
LEMMA ViewTyped ==
    ASSUME ViewTypes
    PROVE  /\ Decoders = 1 .. Len(owner) /\ Len(owner) \in Nat /\ 0 \notin Decoders
           /\ DOMAIN latest = Decoders /\ DOMAIN decoded = Decoders
           /\ \A n \in Decoders : owner[n] \in People /\ latest[n] \in Nat /\ decoded[n] \in Nat
<1>1. /\ owner \in Seq(People) /\ latest \in Seq(Nat) /\ decoded \in Seq(Nat)
      /\ Len(latest) = Len(owner) /\ Len(decoded) = Len(owner)
    BY DEF ViewTypes
<1>2. /\ Decoders = 1 .. Len(owner) /\ Len(owner) \in Nat
      /\ DOMAIN latest = Decoders /\ DOMAIN decoded = Decoders
    BY <1>1 DEF Decoders
<1>3. \A n \in 1 .. Len(owner) : owner[n] \in People
    BY <1>1
<1>4. \A n \in 1 .. Len(latest) : latest[n] \in Nat
    BY <1>1
<1>5. \A n \in 1 .. Len(decoded) : decoded[n] \in Nat
    BY <1>1
<1>6. 0 \notin Decoders
    BY <1>2
<1>. QED  BY <1>1, <1>2, <1>3, <1>4, <1>5, <1>6

LEMMA ViewStart == ViewInit => ViewInv
<1>. SUFFICES ASSUME ViewInit PROVE ViewInv
    OBVIOUS
<1>1. /\ owner = <<>> /\ latest = <<>> /\ decoded = <<>> /\ Len(owner) = 0 /\ DOMAIN owner = {}
      /\ view = {} /\ watcher = 0 /\ preview = 0 /\ texture = NoPicture /\ ended = {}
      /\ popout = Closed /\ drawn = Blank /\ clicking = FALSE
    BY DEF ViewInit
<1>2. ViewTypes
    <2>1. NoPicture \in PictureSet /\ NoPicture.of = 0
        BY DEF NoPicture, PictureSet
    <2>2. Closed \in [open : BOOLEAN, up : BOOLEAN, whose : SUBSET People, picture : PictureSet]
        BY <2>1 DEF Closed
    <2>3. popout.picture.of = 0 /\ drawn.picture.of = 0
        BY <1>1, <2>1 DEF Closed, Blank
    <2>4. owner \in Seq(People) /\ latest \in Seq(Nat) /\ decoded \in Seq(Nat)
        BY <1>1
    <2>5. Len(latest) = Len(owner) /\ Len(decoded) = Len(owner)
        BY <1>1
    <2>. QED  BY <1>1, <2>1, <2>2, <2>3, <2>4, <2>5 DEF ViewTypes, NoneOr, Decoders
<1>3. NewerWaits /\ Theirs /\ OverUnsaid
    BY <1>1 DEF NewerWaits, Theirs, OverUnsaid, NoPicture, Closed, Decoders
<1>4. NamedRightly
    BY <1>1 DEF NamedRightly, Blank, Closed, NoPicture
<1>. QED  BY <1>2, <1>3, <1>4 DEF ViewInv

\* A decoder that is made is a new one.
LEMMA AfterMake ==
    ASSUME ViewTypes, NEW u \in People, Make(u)
    PROVE  /\ owner' \in Seq(People) /\ latest' \in Seq(Nat) /\ decoded' \in Seq(Nat)
           /\ Len(latest') = Len(owner') /\ Len(decoded') = Len(owner')
           /\ Decoders' = Decoders \cup {Len(owner')}
           /\ Len(owner') \notin Decoders /\ Len(owner') # 0
           /\ owner'[Len(owner')] = u /\ latest'[Len(owner')] = 0 /\ decoded'[Len(owner')] = 0
           /\ \A n \in Decoders : owner'[n] = owner[n] /\ latest'[n] = latest[n] /\ decoded'[n] = decoded[n]
<1>1. /\ owner \in Seq(People) /\ latest \in Seq(Nat) /\ decoded \in Seq(Nat)
      /\ Len(latest) = Len(owner) /\ Len(decoded) = Len(owner)
    BY DEF ViewTypes
<1>2. owner' = Append(owner, u) /\ latest' = Append(latest, 0) /\ decoded' = Append(decoded, 0)
    BY DEF Make
<1>3. /\ owner' \in Seq(People) /\ Len(owner') = Len(owner) + 1 /\ owner'[Len(owner) + 1] = u
      /\ \A n \in 1 .. Len(owner) : owner'[n] = owner[n]
    BY <1>1, <1>2
<1>4. /\ latest' \in Seq(Nat) /\ Len(latest') = Len(latest) + 1 /\ latest'[Len(latest) + 1] = 0
      /\ \A n \in 1 .. Len(latest) : latest'[n] = latest[n]
    BY <1>1, <1>2
<1>5. /\ decoded' \in Seq(Nat) /\ Len(decoded') = Len(decoded) + 1 /\ decoded'[Len(decoded) + 1] = 0
      /\ \A n \in 1 .. Len(decoded) : decoded'[n] = decoded[n]
    BY <1>1, <1>2
<1>6. Decoders' = 1 .. Len(owner') /\ Decoders = 1 .. Len(owner) /\ Len(owner) \in Nat
    BY <1>1, <1>3 DEF Decoders
<1>7. Decoders' = Decoders \cup {Len(owner')} /\ Len(owner') \notin Decoders /\ Len(owner') # 0
    BY <1>3, <1>6
<1>. QED  BY <1>1, <1>3, <1>4, <1>5, <1>6, <1>7

\* What was drawn stays right as decoders are made and shares end.
LEMMA DrawnStays ==
    ASSUME ViewInv, drawn' = drawn, popout' = popout, silently \subseteq silently',
           \A n \in Decoders : owner'[n] = owner[n]
    PROVE  NamedRightly'
<1>1. NoneOr(drawn.picture.of) /\ NoneOr(popout.picture.of) /\ NamedRightly
    BY DEF ViewInv, ViewTypes
<1>. QED  BY <1>1 DEF NamedRightly, NoneOr

LEMMA DecodeKeeps == ASSUME ViewInv, NEW n \in DOMAIN owner, Decode(n) PROVE ViewInv'
<1>1. /\ decoded' = [decoded EXCEPT ![n] = decoded[n] + 1]
      /\ latest' = [latest EXCEPT ![n] = decoded'[n]]
      /\ UNCHANGED <<owner, view, watcher, preview, texture, texture_for, popout, clicking, drawn, ended, silently>>
    BY DEF Decode, shown
<1>2. /\ ViewTypes /\ n \in Decoders
      /\ DOMAIN latest = Decoders /\ DOMAIN decoded = Decoders /\ 0 \notin Decoders
      /\ \A m \in Decoders : latest[m] \in Nat /\ decoded[m] \in Nat
    BY ViewTyped DEF ViewInv, Decoders
<1>3. /\ decoded'[n] = decoded[n] + 1 /\ latest'[n] = decoded[n] + 1
      /\ \A m \in Decoders \ {n} : decoded'[m] = decoded[m] /\ latest'[m] = latest[m]
    BY <1>1, <1>2
<1>4. ViewTypes'
    <2>1. /\ latest \in Seq(Nat) /\ decoded \in Seq(Nat)
          /\ Len(latest) = Len(owner) /\ Len(decoded) = Len(owner)
        BY <1>2 DEF ViewTypes
    <2>2. decoded[n] + 1 \in Nat
        BY <1>2
    <2>3. /\ decoded' \in Seq(Nat) /\ Len(decoded') = Len(decoded)
          /\ latest' \in Seq(Nat) /\ Len(latest') = Len(latest)
        BY <1>1, <1>3, <2>1, <2>2
    <2>. QED  BY <1>1, <1>2, <2>1, <2>3 DEF ViewTypes, NoneOr, Decoders
<1>5. NewerWaits'
    <2>1. \A m \in Decoders : latest'[m] <= decoded'[m]
        BY <1>2, <1>3 DEF ViewInv, NewerWaits
    <2>2. ASSUME texture.of # 0
          PROVE  /\ latest'[texture.of] = 0 \/ latest'[texture.of] > texture.generation
                 /\ texture.generation <= decoded'[texture.of]
        <3>1. /\ texture.of \in Decoders /\ texture.generation \in Nat
              /\ latest[texture.of] = 0 \/ latest[texture.of] > texture.generation
              /\ texture.generation <= decoded[texture.of]
            BY <1>2, <2>2 DEF ViewInv, NewerWaits, ViewTypes, NoneOr, PictureSet
        <3>2. CASE texture.of = n
            BY <1>2, <1>3, <3>1, <3>2
        <3>3. CASE texture.of # n
            BY <1>3, <3>1, <3>3
        <3>. QED  BY <3>2, <3>3
    <2>. QED  BY <1>1, <2>1, <2>2 DEF ViewInv, NewerWaits, Decoders
<1>6. Theirs' /\ OverUnsaid'
    BY <1>1 DEF ViewInv, Theirs, OverUnsaid, Source
<1>7. NamedRightly'
    BY <1>1 DEF ViewInv, NamedRightly
<1>. QED  BY <1>4, <1>5, <1>6, <1>7 DEF ViewInv

LEMMA DrawFrameKeeps == ASSUME ViewInv, DrawFrame PROVE ViewInv'
<1>. DEFINE n == Source
            uploads == n # 0 /\ Newer(n, StillTheirs)
            picture == IF n = 0 THEN texture
                       ELSE IF uploads THEN [of |-> n, generation |-> latest[n]] ELSE StillTheirs
<1>1. /\ texture' = picture
      /\ texture_for' = IF n = 0 THEN texture_for ELSE view
      /\ latest' = IF uploads THEN [latest EXCEPT ![n] = 0] ELSE latest
      /\ popout' = IF popout.open /\ view # {}
                   THEN [open |-> TRUE, up |-> TRUE, whose |-> view, picture |-> picture]
                   ELSE [popout EXCEPT !.open = FALSE, !.up = FALSE]
      /\ drawn' = IF view = {} THEN Blank
                  ELSE [whose |-> view, picture |-> picture, current |-> n,
                        waiting |-> IF n = 0 \/ uploads THEN 0 ELSE latest[n],
                        over |-> picture.of \in ended]
      /\ UNCHANGED <<owner, decoded, view, watcher, preview, ended, silently>>
    BY DEF DrawFrame
<1>2. /\ ViewTypes /\ NewerWaits /\ Theirs /\ OverUnsaid /\ NamedRightly
      /\ DOMAIN latest = Decoders /\ DOMAIN decoded = Decoders /\ 0 \notin Decoders
      /\ \A m \in Decoders : latest[m] \in Nat /\ decoded[m] \in Nat
    BY ViewTyped DEF ViewInv
<1>3. NoneOr(n) /\ (n # 0 => n \in Decoders /\ view = {owner[n]})
    BY <1>2 DEF Source, ViewTypes, NoneOr, Theirs
<1>4. texture \in PictureSet /\ NoneOr(texture.of) /\ (texture.of = 0 => texture = NoPicture)
    BY <1>2 DEF ViewTypes, NewerWaits
<1>5. NoPicture \in PictureSet /\ NoPicture.of = 0 /\ NoPicture.generation = 0
    BY DEF NoPicture, PictureSet
<1>6. Source' = n
    BY <1>1 DEF Source
<1>7. PICK p : p = picture
    OBVIOUS
<1>8. \/ n = 0 /\ p = texture /\ latest' = latest
      \/ n # 0 /\ p = [of |-> n, generation |-> latest[n]] /\ latest' = [latest EXCEPT ![n] = 0]
      \/ n # 0 /\ p = StillTheirs /\ latest' = latest /\ ~(latest[n] > StillTheirs.generation)
    BY <1>1, <1>7 DEF Newer
<1>9. \/ StillTheirs = NoPicture
      \/ StillTheirs = texture /\ texture_for = view
    BY DEF StillTheirs
<1>10. \/ p = texture /\ latest' = latest /\ (n # 0 => texture_for = view)
       \/ p = NoPicture /\ latest' = latest
       \/ n # 0 /\ p = [of |-> n, generation |-> latest[n]] /\ latest' = [latest EXCEPT ![n] = 0]
    BY <1>8, <1>9
<1>. HIDE DEF picture
<1>11. /\ p \in PictureSet /\ NoneOr(p.of) /\ (p.of = 0 => p = NoPicture)
       /\ (view # {} /\ p.of # 0 => view = {owner[p.of]})
    <2>1. CASE p = texture
        BY <1>2, <1>4, <2>1 DEF Theirs
    <2>2. CASE p = NoPicture
        BY <1>5, <2>2 DEF NoneOr
    <2>3. CASE n # 0 /\ p = [of |-> n, generation |-> latest[n]]
        <3>1. n \in Decoders /\ view = {owner[n]} /\ latest[n] \in Nat /\ n \in Nat /\ p.of = n
            BY <1>2, <1>3, <2>3, ViewTyped
        <3>2. p \in PictureSet
            BY <2>3, <3>1 DEF PictureSet
        <3>. QED  BY <2>3, <3>1, <3>2 DEF NoneOr
    <2>. QED  BY <1>10, <2>1, <2>2, <2>3
<1>12. n # 0 /\ p.of # 0 => p.of = n
    BY <1>2, <1>5, <1>10 DEF Theirs
<1>13. view # {} /\ p.of \in ended => owner[p.of] \in silently \cup {Me}
    <2>1. CASE p = texture
        BY <1>2, <2>1 DEF OverUnsaid
    <2>2. CASE p = NoPicture
        BY <1>2, <1>5, <2>2 DEF ViewTypes
    <2>3. CASE n # 0 /\ p.of = n
        BY <1>2, <1>3, <2>3 DEF OverUnsaid, Source, Theirs
    <2>. QED  BY <1>10, <2>1, <2>2, <2>3
<1>14. /\ latest' \in Seq(Nat) /\ Len(latest') = Len(latest)
       /\ \A m \in Decoders : latest'[m] <= decoded[m]
       /\ (p.of # 0 => latest'[p.of] = 0 \/ latest'[p.of] > p.generation)
       /\ (p.of # 0 => p.generation <= decoded[p.of])
    <2>1. latest \in Seq(Nat) /\ \A m \in Decoders : latest[m] <= decoded[m]
        BY <1>2 DEF ViewTypes, NewerWaits
    <2>2. CASE p = texture /\ latest' = latest
        BY <1>2, <2>1, <2>2 DEF NewerWaits
    <2>3. CASE p = NoPicture /\ latest' = latest
        BY <1>5, <2>1, <2>3
    <2>4. CASE n # 0 /\ p = [of |-> n, generation |-> latest[n]] /\ latest' = [latest EXCEPT ![n] = 0]
        <3>1. n \in Decoders /\ p.of = n /\ p.generation = latest[n]
            BY <1>3, <2>4
        <3>2. /\ latest'[n] = 0 /\ latest[n] <= decoded[n] /\ decoded[n] \in Nat
              /\ \A m \in Decoders \ {n} : latest'[m] = latest[m]
            BY <1>2, <2>1, <2>4, <3>1
        <3>3. latest' \in Seq(Nat) /\ Len(latest') = Len(latest)
            <4>1. PICK m \in DOMAIN latest : m = n
                BY <1>2, <3>1
            <4>2. latest' = [latest EXCEPT ![m] = 0]
                BY <2>4, <4>1
            <4>. QED  BY <2>1, <4>2
        <3>4. \A m \in Decoders : latest'[m] <= decoded[m]
            BY <2>1, <3>2
        <3>. QED  BY <3>1, <3>2, <3>3, <3>4
    <2>. QED  BY <1>10, <2>2, <2>3, <2>4
<1>15. n = 0 \/ uploads \/ latest[n] = 0
    <2>. SUFFICES ASSUME n # 0, ~uploads PROVE latest[n] = 0
        OBVIOUS
    <2>1. n \in Decoders /\ latest[n] \in Nat /\ ~(latest[n] > StillTheirs.generation)
        BY <1>2, <1>3 DEF Newer
    <2>2. CASE StillTheirs.of = 0
        BY <1>4, <1>5, <1>9, <2>1, <2>2
    <2>3. CASE StillTheirs.of # 0
        <3>1. StillTheirs = texture /\ texture_for = view /\ texture.of = n
            BY <1>2, <1>5, <1>9, <2>3 DEF Theirs
        <3>. QED  BY <1>2, <2>1, <3>1 DEF NewerWaits
    <2>. QED  BY <2>2, <2>3
<1>16. /\ texture' = p
       /\ \/ popout' = [open |-> TRUE, up |-> TRUE, whose |-> view, picture |-> p] /\ view # {}
          \/ popout' = [popout EXCEPT !.open = FALSE, !.up = FALSE]
       /\ \/ drawn' = Blank
          \/ /\ view # {}
             /\ drawn' = [whose |-> view, picture |-> p, current |-> n, waiting |-> 0,
                          over |-> p.of \in ended]
    BY <1>1, <1>7, <1>15
<1>. HIDE DEF n, uploads
<1>17. /\ popout \in [open : BOOLEAN, up : BOOLEAN, whose : SUBSET People, picture : PictureSet]
       /\ NoneOr(popout.picture.of) /\ view \subseteq People
    BY <1>2 DEF ViewTypes
<1>18. /\ popout' \in [open : BOOLEAN, up : BOOLEAN, whose : SUBSET People, picture : PictureSet]
       /\ NoneOr(popout'.picture.of)
       /\ (popout'.up => popout'.whose = view)
       /\ (popout'.up /\ popout'.picture.of # 0 => popout'.whose = {owner[popout'.picture.of]})
    <2>1. CASE popout' = [open |-> TRUE, up |-> TRUE, whose |-> view, picture |-> p] /\ view # {}
        BY <1>11, <1>17, <2>1
    <2>2. CASE popout' = [popout EXCEPT !.open = FALSE, !.up = FALSE]
        BY <1>17, <2>2
    <2>. QED  BY <1>16, <2>1, <2>2
<1>19. NoneOr(drawn'.picture.of)
    BY <1>5, <1>11, <1>16 DEF Blank, NoneOr
<1>20. ViewTypes'
    BY <1>1, <1>2, <1>11, <1>14, <1>16, <1>18, <1>19 DEF ViewTypes, NoneOr, Decoders
<1>21. NewerWaits'
    BY <1>1, <1>11, <1>14, <1>16 DEF NewerWaits, Decoders
<1>22. Theirs'
    BY <1>1, <1>2, <1>6, <1>11, <1>12, <1>16, <1>18 DEF Theirs
<1>23. OverUnsaid'
    BY <1>1, <1>2, <1>13, <1>16 DEF OverUnsaid
<1>24. NamedRightly'
    <2>1. popout'.up /\ popout'.picture.of # 0 => popout'.whose = {owner'[popout'.picture.of]}
        BY <1>1, <1>18
    <2>2. CASE drawn' = Blank
        BY <1>5, <2>1, <2>2 DEF NamedRightly, Blank
    <2>3. CASE /\ view # {}
               /\ drawn' = [whose |-> view, picture |-> p, current |-> n, waiting |-> 0,
                            over |-> p.of \in ended]
        <3>1. /\ drawn'.picture.of = p.of /\ drawn'.whose = view /\ drawn'.current = n
              /\ drawn'.waiting = 0 /\ drawn'.over = (p.of \in ended)
            BY <2>3
        <3>2. p.of \in ended => p.of # 0
            BY <1>2 DEF ViewTypes
        <3>3. p.of # 0 => drawn'.whose = {owner'[p.of]}
            BY <1>1, <1>11, <2>3, <3>1
        <3>4. drawn'.over => drawn'.whose \subseteq silently' \cup {Me}
            BY <1>1, <1>11, <1>13, <2>3, <3>1, <3>2
        <3>. QED  BY <1>12, <2>1, <3>1, <3>3, <3>4 DEF NamedRightly
    <2>. QED  BY <1>16, <2>2, <2>3
<1>. QED  BY <1>20, <1>21, <1>22, <1>23, <1>24 DEF ViewInv

LEMMA WatchKeeps == ASSUME ViewInv, NEW u \in People, Watch(u) PROVE ViewInv'
<1>1. /\ clicking' = FALSE /\ Make(u) /\ texture' = NoPicture /\ watcher' = Len(owner') /\ view' = {u}
      /\ UNCHANGED <<preview, texture_for, popout, drawn, ended, silently>>
    BY DEF Watch, Click
<1>2. ViewTypes /\ NewerWaits /\ Theirs /\ OverUnsaid /\ NamedRightly
    BY DEF ViewInv
<1>3. /\ owner' \in Seq(People) /\ latest' \in Seq(Nat) /\ decoded' \in Seq(Nat)
      /\ Len(latest') = Len(owner') /\ Len(decoded') = Len(owner')
      /\ Decoders' = Decoders \cup {Len(owner')}
      /\ Len(owner') \notin Decoders /\ Len(owner') # 0
      /\ owner'[Len(owner')] = u /\ latest'[Len(owner')] = 0 /\ decoded'[Len(owner')] = 0
      /\ \A n \in Decoders : owner'[n] = owner[n] /\ latest'[n] = latest[n] /\ decoded'[n] = decoded[n]
    BY <1>1, <1>2, AfterMake
<1>4. NoPicture \in PictureSet /\ NoPicture.of = 0
    BY DEF NoPicture, PictureSet
<1>5. ViewTypes'
    BY <1>1, <1>2, <1>3, <1>4 DEF ViewTypes, NoneOr
<1>6. NewerWaits'
    BY <1>1, <1>2, <1>3, <1>4 DEF NewerWaits
<1>7. Theirs'
    BY <1>1, <1>2, <1>3, <1>4 DEF Theirs, ViewTypes, NoneOr
<1>8. OverUnsaid'
    BY <1>1, <1>2, <1>3, <1>4, ViewTyped DEF OverUnsaid, ViewTypes
<1>9. NamedRightly'
    BY <1>1, <1>3, DrawnStays
<1>. QED  BY <1>5, <1>6, <1>7, <1>8, <1>9 DEF ViewInv

LEMMA UnwatchKeeps == ASSUME ViewInv, Unwatch PROVE ViewInv'
<1>1. /\ clicking' = FALSE /\ view' = {}
      /\ (watcher' = 0 /\ texture' = NoPicture) \/ (watcher' = watcher /\ texture' = texture)
      /\ UNCHANGED <<owner, latest, decoded, preview, texture_for, popout, drawn, ended, silently>>
    BY DEF Unwatch, Click, decoderVars
<1>2. ViewTypes /\ NewerWaits /\ Theirs /\ OverUnsaid /\ NamedRightly
    BY DEF ViewInv
<1>3. NoPicture \in PictureSet /\ NoPicture.of = 0
    BY DEF NoPicture, PictureSet
<1>4. ViewTypes'
    BY <1>1, <1>2, <1>3 DEF ViewTypes, NoneOr, Decoders
<1>5. NewerWaits'
    BY <1>1, <1>2, <1>3 DEF NewerWaits, Decoders
<1>6. Source' = 0
    BY <1>1 DEF Source
<1>7. Theirs' /\ OverUnsaid'
    BY <1>1, <1>2, <1>6 DEF Theirs, OverUnsaid
<1>8. NamedRightly'
    BY <1>1, DrawnStays
<1>. QED  BY <1>4, <1>5, <1>7, <1>8 DEF ViewInv

LEMMA PopOutKeeps == ASSUME ViewInv, TogglePopOut \/ ClosePopOut PROVE ViewInv'
<1>1. /\ \/ popout' = [popout EXCEPT !.open = FALSE]
         \/ popout' = [popout EXCEPT !.open = TRUE, !.whose = view] /\ clicking
      /\ clicking' = FALSE \/ (clicking' = clicking /\ popout' = [popout EXCEPT !.open = FALSE])
      /\ UNCHANGED <<owner, latest, decoded, view, watcher, preview, texture, texture_for, drawn, ended, silently>>
    BY DEF TogglePopOut, ClosePopOut, Click, decoderVars
<1>2. ViewTypes /\ NewerWaits /\ Theirs /\ OverUnsaid /\ NamedRightly
    BY DEF ViewInv
<1>3. /\ popout \in [open : BOOLEAN, up : BOOLEAN, whose : SUBSET People, picture : PictureSet]
      /\ view \subseteq People
    BY <1>2 DEF ViewTypes
<1>4. /\ popout' \in [open : BOOLEAN, up : BOOLEAN, whose : SUBSET People, picture : PictureSet]
      /\ popout'.picture = popout.picture /\ popout'.up = popout.up
    BY <1>1, <1>3
<1>5. popout.up => popout'.whose = popout.whose
    BY <1>1, <1>2, <1>3 DEF Theirs
<1>6. ViewTypes'
    BY <1>1, <1>2, <1>4 DEF ViewTypes, NoneOr, Decoders
<1>7. NewerWaits' /\ OverUnsaid' /\ Source' = Source
    BY <1>1, <1>2 DEF NewerWaits, OverUnsaid, Decoders, Source
<1>8. Theirs'
    BY <1>1, <1>2, <1>4, <1>5, <1>7 DEF Theirs
<1>9. NamedRightly'
    BY <1>1, <1>2, <1>4, <1>5 DEF NamedRightly
<1>. QED  BY <1>6, <1>7, <1>8, <1>9 DEF ViewInv

LEMMA BeginsShareKeeps == ASSUME ViewInv, NEW u \in People, BeginsShare(u) PROVE ViewInv'
<1>1. /\ clicking' = FALSE
      /\ UNCHANGED <<view, watcher, texture, popout, drawn, ended, silently>>
      /\ \/ u = Me /\ Make(u) /\ preview' = Len(owner') /\ texture_for' = {}
         \/ UNCHANGED <<owner, latest, decoded, preview, texture_for>>
    BY DEF BeginsShare, BeforeFrame, decoderVars
<1>2. ViewTypes /\ NewerWaits /\ Theirs /\ OverUnsaid /\ NamedRightly
    BY DEF ViewInv
<1>3. CASE u = Me /\ Make(u) /\ preview' = Len(owner') /\ texture_for' = {}
    <2>1. /\ owner' \in Seq(People) /\ latest' \in Seq(Nat) /\ decoded' \in Seq(Nat)
          /\ Len(latest') = Len(owner') /\ Len(decoded') = Len(owner')
          /\ Decoders' = Decoders \cup {Len(owner')}
          /\ Len(owner') \notin Decoders /\ Len(owner') # 0
          /\ owner'[Len(owner')] = u /\ latest'[Len(owner')] = 0 /\ decoded'[Len(owner')] = 0
          /\ \A n \in Decoders : owner'[n] = owner[n] /\ latest'[n] = latest[n] /\ decoded'[n] = decoded[n]
        BY <1>2, <1>3, AfterMake
    <2>2. NoneOr(texture.of) /\ NoneOr(watcher) /\ ended \subseteq Decoders
        BY <1>2 DEF ViewTypes
    <2>3. ViewTypes'
        BY <1>1, <1>2, <1>3, <2>1 DEF ViewTypes, NoneOr
    <2>4. NewerWaits'
        <3>1. \A n \in Decoders' : latest'[n] <= decoded'[n]
            BY <1>2, <2>1 DEF NewerWaits
        <3>2. texture.of # 0 => texture.of \in Decoders
            BY <2>2 DEF NoneOr
        <3>. QED  BY <1>1, <1>2, <2>1, <3>1, <3>2 DEF NewerWaits
    <2>5. texture_for' = view' => Source' = 0
        BY <1>1, <1>3 DEF Source
    <2>6. Theirs'
        BY <1>1, <1>2, <1>3, <2>1, <2>2, <2>5 DEF Theirs, NoneOr
    <2>7. OverUnsaid'
        BY <1>1, <1>2, <2>1, <2>2 DEF OverUnsaid
    <2>8. NamedRightly'
        BY <1>1, <2>1, DrawnStays
    <2>. QED  BY <2>3, <2>4, <2>6, <2>7, <2>8 DEF ViewInv
<1>4. CASE UNCHANGED <<owner, latest, decoded, preview, texture_for>>
    <2>1. ViewTypes' /\ NewerWaits' /\ OverUnsaid' /\ Source' = Source
        BY <1>1, <1>2, <1>4 DEF ViewTypes, NewerWaits, OverUnsaid, Source, NoneOr, Decoders
    <2>2. Theirs'
        BY <1>1, <1>2, <1>4, <2>1 DEF Theirs
    <2>3. NamedRightly'
        BY <1>1, <1>4, DrawnStays
    <2>. QED  BY <2>1, <2>2, <2>3 DEF ViewInv
<1>. QED  BY <1>1, <1>3, <1>4

LEMMA EndsShareKeeps == ASSUME ViewInv, NEW u \in People, EndsShare(u) PROVE ViewInv'
<1>1. /\ clicking' = FALSE
      /\ preview' = IF u = Me THEN 0 ELSE preview
      /\ \/ watcher # 0 /\ owner[watcher] = u /\ watcher' = 0 /\ texture' = NoPicture
         \/ ~(watcher # 0 /\ owner[watcher] = u) /\ watcher' = watcher /\ texture' = texture
      /\ view' = view \ {u}
      /\ ended' = ended \cup {n \in Decoders : owner[n] = u}
      /\ UNCHANGED <<owner, latest, decoded, texture_for, popout, drawn, silently>>
    BY DEF EndsShare, BeforeFrame, Over, decoderVars, Decoders
<1>2. ViewTypes /\ NewerWaits /\ Theirs /\ OverUnsaid /\ NamedRightly /\ 0 \notin Decoders
    BY ViewTyped DEF ViewInv
<1>3. NoPicture \in PictureSet /\ NoPicture.of = 0
    BY DEF NoPicture, PictureSet
<1>4. ViewTypes'
    BY <1>1, <1>2, <1>3 DEF ViewTypes, NoneOr, Decoders
<1>5. NewerWaits'
    BY <1>1, <1>2, <1>3 DEF NewerWaits, Decoders
<1>6. (texture'.of # 0 => texture' = texture) /\ (watcher' # 0 => watcher' = watcher /\ owner[watcher] # u)
    BY <1>1, <1>3
<1>7. view' = view \/ view' \subseteq view \ {u}
    BY <1>1
<1>8. Theirs'
    <2>1. preview' # 0 => owner'[preview'] = Me
        BY <1>1, <1>2 DEF Theirs
    <2>2. view' # {} /\ texture'.of # 0 => view' = {owner'[texture'.of]}
        BY <1>1, <1>2, <1>6 DEF Theirs
    <2>3. ASSUME texture'.of # 0, Source' # 0, texture_for' = view'
          PROVE  texture'.of = Source'
        <3>1. view' # {}
            BY <2>3 DEF Source
        <3>2. view' = view /\ u \notin view /\ texture' = texture /\ watcher' = watcher
            BY <1>1, <1>2, <1>3, <2>3, <3>1 DEF Theirs
        <3>3. view = {Me} => preview' = preview
            BY <1>1, <3>2
        <3>4. Source' = Source
            BY <1>1, <3>2, <3>3 DEF Source
        <3>. QED  BY <1>1, <1>2, <2>3, <3>2, <3>4 DEF Theirs
    <2>4. ~clicking'
        BY <1>1
    <2>. QED  BY <2>1, <2>2, <2>3, <2>4 DEF Theirs
<1>9. OverUnsaid'
    <2>1. ASSUME view' # {}, texture'.of \in ended'
          PROVE  owner[texture.of] \in silently \cup {Me} /\ texture' = texture
        <3>1. texture'.of # 0 /\ texture' = texture
            <4>1. ended' \subseteq Decoders
                BY <1>1, <1>2 DEF ViewTypes
            <4>. QED  BY <1>2, <1>6, <2>1, <4>1
        <3>2. view = {owner[texture.of]} /\ view' = view /\ owner[texture.of] # u
            BY <1>1, <1>2, <2>1, <3>1 DEF Theirs
        <3>. QED  BY <1>1, <1>2, <2>1, <3>1, <3>2 DEF OverUnsaid
    <2>2. ASSUME watcher' \in ended', view' = {owner[watcher']}
          PROVE  owner[watcher'] \in silently \cup {Me}
        <3>1. watcher' # 0
            BY <1>1, <1>2, <2>2 DEF ViewTypes
        <3>2. watcher' = watcher /\ owner[watcher] # u
            BY <1>6, <3>1
        <3>3. watcher \in ended /\ view = {owner[watcher]}
            BY <1>1, <1>2, <2>2, <3>2 DEF ViewTypes
        <3>. QED  BY <1>2, <3>2, <3>3 DEF OverUnsaid
    <2>. QED  BY <1>1, <2>1, <2>2 DEF OverUnsaid
<1>10. NamedRightly'
    BY <1>1, DrawnStays
<1>. QED  BY <1>4, <1>5, <1>8, <1>9, <1>10 DEF ViewInv

LEMMA LeavesKeeps == ASSUME ViewInv, NEW u \in People, Leaves(u) PROVE ViewInv'
<1>1. /\ clicking' = FALSE
      /\ silently' = silently \cup {u}
      /\ ended' = ended \cup {n \in Decoders : owner[n] = u}
      /\ UNCHANGED <<owner, latest, decoded, view, watcher, preview, texture, texture_for, popout, drawn>>
    BY DEF Leaves, BeforeFrame, Over, decoderVars, shown, Decoders
<1>2. ViewTypes /\ NewerWaits /\ Theirs /\ OverUnsaid
    BY DEF ViewInv
<1>3. ViewTypes' /\ NewerWaits' /\ Source' = Source
    BY <1>1, <1>2 DEF ViewTypes, NewerWaits, Source, NoneOr, Decoders
<1>4. Theirs' /\ OverUnsaid'
    BY <1>1, <1>2, <1>3 DEF Theirs, OverUnsaid
<1>5. NamedRightly'
    BY <1>1, DrawnStays
<1>. QED  BY <1>3, <1>4, <1>5 DEF ViewInv

LEMMA ResetKeeps == ASSUME ViewInv, StopShare \/ Reset PROVE ViewInv'
<1>1. /\ clicking' = FALSE /\ preview' = 0
      /\ (watcher' = 0 /\ texture' = NoPicture) \/ (watcher' = watcher /\ texture' = texture)
      /\ UNCHANGED <<owner, latest, decoded, view, texture_for, popout, drawn, ended, silently>>
    BY DEF StopShare, Reset, BeforeFrame, decoderVars
<1>2. ViewTypes /\ NewerWaits /\ Theirs /\ OverUnsaid /\ 0 \notin Decoders
    BY ViewTyped DEF ViewInv
<1>3. NoPicture \in PictureSet /\ NoPicture.of = 0
    BY DEF NoPicture, PictureSet
<1>4. ViewTypes'
    BY <1>1, <1>2, <1>3 DEF ViewTypes, NoneOr, Decoders
<1>5. NewerWaits'
    BY <1>1, <1>2, <1>3 DEF NewerWaits, Decoders
<1>6. texture'.of # 0 /\ Source' # 0 => Source' = Source /\ texture' = texture
    BY <1>1, <1>3 DEF Source
<1>7. Theirs'
    BY <1>1, <1>2, <1>3, <1>6 DEF Theirs
<1>8. OverUnsaid'
    BY <1>1, <1>2, <1>3 DEF OverUnsaid, ViewTypes
<1>9. NamedRightly'
    BY <1>1, DrawnStays
<1>. QED  BY <1>4, <1>5, <1>7, <1>8, <1>9 DEF ViewInv

LEMMA ViewStep == ViewInv /\ [ViewNext]_viewVars => ViewInv'
<1>. SUFFICES ASSUME ViewInv, [ViewNext]_viewVars PROVE ViewInv'
    OBVIOUS
<1>1. ASSUME NEW n \in DOMAIN owner, Decode(n) PROVE ViewInv'
    BY <1>1, DecodeKeeps
<1>2. CASE DrawFrame
    BY <1>2, DrawFrameKeeps
<1>3. ASSUME NEW u \in People, Watch(u) PROVE ViewInv'
    BY <1>3, WatchKeeps
<1>4. CASE Unwatch
    BY <1>4, UnwatchKeeps
<1>5. CASE TogglePopOut \/ ClosePopOut
    BY <1>5, PopOutKeeps
<1>6. ASSUME NEW u \in People, BeginsShare(u) PROVE ViewInv'
    BY <1>6, BeginsShareKeeps
<1>7. ASSUME NEW u \in People, EndsShare(u) PROVE ViewInv'
    BY <1>7, EndsShareKeeps
<1>8. ASSUME NEW u \in People, Leaves(u) PROVE ViewInv'
    BY <1>8, LeavesKeeps
<1>9. CASE StopShare \/ Reset
    BY <1>9, ResetKeeps
<1>10. CASE UNCHANGED viewVars
    <2>1. UNCHANGED <<owner, latest, decoded, view, watcher, preview, texture, texture_for, popout,
                      clicking, drawn, ended, silently>>
        BY <1>10 DEF viewVars, decoderVars, shown
    <2>. QED  BY <2>1 DEF ViewInv, ViewTypes, NewerWaits, Theirs, OverUnsaid, NamedRightly, Source,
                          NoneOr, Decoders
<1>. QED  BY <1>1, <1>2, <1>3, <1>4, <1>5, <1>6, <1>7, <1>8, <1>9, <1>10 DEF ViewNext

LEMMA NamedRightlyHeld == ViewInv => NamedRightly
BY DEF ViewInv

----------------------------------------------------------------------------
(* Who is shown as typing and speaking.                                    *)

Notices == [says : {"typing", "speaking", "stopped"}, for : Nat]
Tells(i, what) == i \in DOMAIN wire /\ wire[i].says = what

IndicatorTypes ==
    /\ wire \in Seq(Notices) /\ linked \in BOOLEAN /\ throttled \in BOOLEAN
    /\ talking \in BOOLEAN /\ announced_speaking \in BOOLEAN
    /\ typing \in 0 .. Long /\ quiet \in 0 .. Long /\ last_typing \in 0 .. Long
    /\ forwarded \in 0 .. Long /\ typer \in 0 .. Long
    /\ silent \in 0 .. Long /\ speaker \in 0 .. Long
    /\ \A i \in DOMAIN wire : wire[i].for <= MaxDelay
    /\ ~linked => wire = <<>>

\* Whoever is shown, or about to be, did so no longer ago than their notice is old.
Recent ==
    /\ quiet <= typer + MaxDelay
    /\ \A i \in DOMAIN wire : wire[i].says = "typing" => quiet <= wire[i].for
    /\ talking => silent = 0
    /\ silent <= speaker + MaxDelay
    /\ \A i \in DOMAIN wire : wire[i].says = "speaking" => silent <= wire[i].for

\* A person who types says so in time.
SaysSo ==
    typing > 0 => quiet <= 1 /\ last_typing <= ClientEvery /\ (quiet = 0 => last_typing < ClientEvery)

\* With no notice on the way the last one was heard.  One that is on the way is the
\* person's first since they paused, or follows one that was heard or will be.
KeptUp ==
    linked /\ ~throttled =>
        /\ (\A i \in DOMAIN wire : wire[i].says # "typing") => typer <= last_typing
        /\ \A i \in DOMAIN wire : wire[i].says = "typing" =>
              \/ typing <= wire[i].for + 1
              \/ typer <= wire[i].for + ClientEvery
              \/ \E j \in DOMAIN wire : j < i /\ wire[j].says = "typing"

IndicatorsInv == IndicatorTypes /\ Recent /\ SaysSo /\ KeptUp

LEMMA Longer ==
    /\ Long \in Nat /\ Long > 0
    /\ MaxDelay \in Nat /\ ClientEvery \in Nat /\ ClientEvery > 0
    /\ TypingTtl \in Nat /\ SpeakingTtl \in Nat /\ ClientEvery + MaxDelay < TypingTtl
<1>1. /\ MaxDelay \in Nat /\ ClientEvery \in Nat \ {0} /\ TypingTtl \in Nat \ {0}
      /\ SpeakingTtl \in Nat \ {0} /\ ClientEvery + MaxDelay < TypingTtl
    BY IndicatorsAssumption
<1>. QED  BY <1>1 DEF Long

\* A counter goes on by one at most, and no further than Long.
LEMMA CountsOn ==
    ASSUME NEW t \in 0 .. Long
    PROVE  /\ More(t) \in 0 .. Long /\ t <= More(t) /\ More(t) <= t + 1
BY Longer DEF More

\* What the types say, in the form the proofs use.
LEMMA WireTyped ==
    ASSUME IndicatorTypes
    PROVE  /\ DOMAIN wire = 1 .. Len(wire) /\ Len(wire) \in Nat
           /\ \A i \in DOMAIN wire : /\ wire[i] \in Notices
                                     /\ wire[i].for \in Nat /\ wire[i].for <= MaxDelay
<1>1. wire \in Seq(Notices)
    BY DEF IndicatorTypes
<1>2. DOMAIN wire = 1 .. Len(wire) /\ Len(wire) \in Nat /\ \A i \in DOMAIN wire : wire[i] \in Notices
    BY <1>1
<1>3. \A i \in DOMAIN wire : wire[i].for \in Nat
    BY <1>2 DEF Notices
<1>. QED  BY <1>2, <1>3 DEF IndicatorTypes

LEMMA IndicatorsStart == IndicatorsInit => IndicatorsInv
<1>. SUFFICES ASSUME IndicatorsInit PROVE IndicatorsInv
    OBVIOUS
<1>1. wire \in Seq(Notices) /\ DOMAIN wire = {} /\ linked = TRUE /\ throttled = FALSE
      /\ talking = FALSE /\ announced_speaking = FALSE
    BY DEF IndicatorsInit
<1>2. IndicatorTypes
    <2>1. /\ typing = 0 /\ quiet = Long /\ last_typing = Long /\ forwarded = Long
          /\ typer = Long /\ silent = Long /\ speaker = Long
        BY DEF IndicatorsInit
    <2>2. 0 \in 0 .. Long /\ Long \in 0 .. Long
        BY Longer
    <2>3. \A i \in DOMAIN wire : wire[i].for <= MaxDelay
        BY <1>1
    <2>. QED  BY <1>1, <2>1, <2>2, <2>3 DEF IndicatorTypes
<1>3. Recent
    BY <1>1, Longer DEF IndicatorsInit, Recent
<1>4. SaysSo /\ KeptUp
    BY <1>1, Longer DEF IndicatorsInit, SaysSo, KeptUp
<1>. QED  BY <1>2, <1>3, <1>4 DEF IndicatorsInv

LEMMA KeyKeeps == ASSUME IndicatorsInv, Key PROVE IndicatorsInv'
<1>. USE Longer
<1>0. /\ wire \in Seq(Notices) /\ linked \in BOOLEAN
      /\ ~linked => wire = <<>>
      /\ typing \in 0 .. Long /\ quiet \in 0 .. Long /\ last_typing \in 0 .. Long /\ typer \in 0 .. Long
      /\ DOMAIN wire = 1 .. Len(wire) /\ Len(wire) \in Nat
      /\ \A i \in DOMAIN wire : wire[i].for \in Nat /\ wire[i].for <= MaxDelay
    BY WireTyped DEF IndicatorsInv, IndicatorTypes
<1>1. /\ typing' = IF typing = 0 THEN 1 ELSE typing
      /\ quiet' = 0 /\ (typing = 0 \/ quiet > 0)
      /\ UNCHANGED <<linked, forwarded, typer, throttled, talking, announced_speaking, silent, speaker>>
    BY DEF Key, talked
<1>2. CASE last_typing >= ClientEvery /\ linked
    <2>1. /\ last_typing' = 0 /\ wire' \in Seq(Notices) /\ linked'
          /\ DOMAIN wire' = 1 .. (Len(wire) + 1)
          /\ \A i \in DOMAIN wire : wire'[i] = wire[i]
          /\ wire'[Len(wire) + 1] = [says |-> "typing", for |-> 0]
        <3>1. wire' = Append(wire, [says |-> "typing", for |-> 0]) /\ last_typing' = 0
            BY <1>2 DEF Key, Say
        <3>2. /\ wire' \in Seq(Notices)
              /\ DOMAIN wire' = 1 .. (Len(wire) + 1)
              /\ \A i \in DOMAIN wire : wire'[i] = wire[i]
              /\ wire'[Len(wire) + 1] = [says |-> "typing", for |-> 0]
            <4>1. PICK x \in Notices : x = [says |-> "typing", for |-> 0]
                BY DEF Notices
            <4>2. wire' = Append(wire, x)
                BY <3>1, <4>1
            <4>3. /\ wire' \in Seq(Notices) /\ DOMAIN wire' = 1 .. (Len(wire) + 1)
                  /\ \A i \in DOMAIN wire : wire'[i] = wire[i]
                  /\ wire'[Len(wire) + 1] = x
                <5>1. wire \in Seq(Notices)
                    BY <1>0
                <5>2. wire' \in Seq(Notices) /\ Len(wire') = Len(wire) + 1
                    BY <5>1, <4>2
                <5>3. DOMAIN wire' = 1 .. (Len(wire) + 1)
                    BY <5>2
                <5>. QED  BY <5>1, <5>2, <5>3, <4>2
            <4>. QED  BY <4>1, <4>3
        <3>. QED  BY <1>1, <1>2, <3>1, <3>2
    <2>2. \A i \in DOMAIN wire' : i \in DOMAIN wire \/ i = Len(wire) + 1
        BY <1>0, <2>1
    <2>3. IndicatorTypes'
        BY <1>0, <1>1, <2>1, <2>2 DEF IndicatorsInv, IndicatorTypes
    <2>4. Recent'
        <3>1. /\ talking => silent = 0
              /\ silent <= speaker + MaxDelay
              /\ \A i \in DOMAIN wire : wire[i].says = "speaking" => silent <= wire[i].for
            BY DEF IndicatorsInv, Recent
        <3>2. \A i \in DOMAIN wire' : wire'[i].says = "speaking" => silent <= wire'[i].for
            BY <2>1, <2>2, <3>1
        <3>3. \A i \in DOMAIN wire' : wire'[i].for >= 0
            BY <1>0, <2>1, <2>2
        <3>4. quiet' <= typer' + MaxDelay
            BY <1>0, <1>1
        <3>5. \A i \in DOMAIN wire' : quiet' <= wire'[i].for
            BY <1>1, <3>3
        <3>6. talking' => silent' = 0
            BY <1>1, <3>1
        <3>7. silent' <= speaker' + MaxDelay
            BY <1>1, <3>1
        <3>8. \A i \in DOMAIN wire' : wire'[i].says = "speaking" => silent' <= wire'[i].for
            BY <1>1, <3>2
        <3>. QED  BY <3>4, <3>5, <3>6, <3>7, <3>8 DEF Recent
    <2>5. SaysSo'
        BY <1>0, <1>1, <2>1 DEF SaysSo
    <2>6. KeptUp'
        <3>1. SUFFICES ASSUME ~throttled PROVE KeptUp'
            BY <1>1 DEF KeptUp
        <3>2. ~(\A i \in DOMAIN wire' : wire'[i].says # "typing")
            BY <1>0, <2>1
        <3>3. ASSUME NEW i \in DOMAIN wire', wire'[i].says = "typing"
              PROVE  \/ typing' <= wire'[i].for + 1
                     \/ typer' <= wire'[i].for + ClientEvery
                     \/ \E j \in DOMAIN wire' : j < i /\ wire'[j].says = "typing"
            <4>1. CASE typing = 0
                <5>1. wire'[i].for \in Nat
                    BY <1>0, <2>1, <2>2
                <5>. QED  BY <4>1, <5>1, <1>1
            <4>2. CASE typing # 0 /\ i \in DOMAIN wire
                <5>1. /\ wire'[i] = wire[i] /\ typing' = typing /\ typer' = typer
                      /\ DOMAIN wire \subseteq DOMAIN wire'
                    BY <4>2, <1>0, <1>1, <2>1
                <5>2. \/ typing <= wire[i].for + 1
                      \/ typer <= wire[i].for + ClientEvery
                      \/ \E j \in DOMAIN wire : j < i /\ wire[j].says = "typing"
                    BY <1>2, <3>1, <3>3, <4>2, <5>1 DEF IndicatorsInv, KeptUp
                <5>. QED  BY <5>1, <5>2, <2>1
            <4>3. CASE typing # 0 /\ i = Len(wire) + 1
                <5>1. last_typing <= ClientEvery
                    BY <4>3, <1>0 DEF IndicatorsInv, SaysSo
                <5>2. wire'[i].for = 0
                    BY <4>3, <2>1
                <5>3. CASE \A j \in DOMAIN wire : wire[j].says # "typing"
                    <6>1. typer <= last_typing
                        BY <5>3, <1>2, <3>1 DEF IndicatorsInv, KeptUp
                    <6>. QED  BY <6>1, <5>1, <5>2, <1>0, <1>1
                <5>4. ASSUME NEW j \in DOMAIN wire, wire[j].says = "typing"
                      PROVE  \E k \in DOMAIN wire' : k < i /\ wire'[k].says = "typing"
                    BY <5>4, <4>3, <1>0, <2>1
                <5>. QED  BY <5>3, <5>4
            <4>. QED  BY <4>1, <4>2, <4>3, <2>2, <3>3
        <3>. QED  BY <3>2, <3>3 DEF KeptUp
    <2>. QED  BY <2>3, <2>4, <2>5, <2>6 DEF IndicatorsInv
<1>3. CASE last_typing >= ClientEvery /\ ~linked
    <2>1. last_typing' = 0 /\ wire' = wire /\ ~linked'
        BY <1>0, <1>1, <1>3 DEF Key, Say
    <2>. QED  BY <1>0, <1>1, <2>1 DEF IndicatorsInv, IndicatorTypes, Recent, SaysSo, KeptUp
<1>4. CASE last_typing < ClientEvery
    <2>1. last_typing' = last_typing /\ wire' = wire
        BY <1>0, <1>4 DEF Key
    <2>2. IndicatorTypes' /\ Recent'
        BY <1>0, <1>1, <2>1 DEF IndicatorsInv, IndicatorTypes, Recent
    <2>3. SaysSo'
        BY <1>0, <1>1, <1>4, <2>1 DEF IndicatorsInv, SaysSo
    <2>4. KeptUp'
        <3>1. CASE typing = 0
            BY <3>1, <1>0, <1>1, <2>1 DEF IndicatorsInv, KeptUp
        <3>2. CASE typing # 0
            BY <3>2, <1>0, <1>1, <2>1 DEF IndicatorsInv, KeptUp
        <3>. QED  BY <3>1, <3>2
    <2>. QED  BY <2>2, <2>3, <2>4 DEF IndicatorsInv
<1>. QED  BY <1>0, <1>2, <1>3, <1>4

LEMMA AnnounceKeeps == ASSUME IndicatorsInv, Announce PROVE IndicatorsInv'
<1>. USE Longer
<1>0. /\ wire \in Seq(Notices) /\ linked \in BOOLEAN
      /\ ~linked => wire = <<>>
      /\ DOMAIN wire = 1 .. Len(wire) /\ Len(wire) \in Nat
      /\ \A i \in DOMAIN wire : wire[i].for \in Nat /\ wire[i].for <= MaxDelay
    BY WireTyped DEF IndicatorsInv, IndicatorTypes
<1>1. /\ announced_speaking' = talking
      /\ UNCHANGED <<linked, typing, quiet, last_typing, forwarded, typer, throttled, talking, silent, speaker>>
    BY DEF Announce, typed
<1>2. PICK what \in {"speaking", "stopped"} : Say(what) /\ (what = "speaking" => talking)
    BY DEF Announce
<1>3. CASE ~linked
    <2>1. wire' = wire
        BY <1>2, <1>3 DEF Say
    <2>. QED  BY <1>1, <2>1 DEF IndicatorsInv, IndicatorTypes, Recent, SaysSo, KeptUp
<1>4. CASE linked
    <2>1. /\ wire' \in Seq(Notices)
          /\ DOMAIN wire' = 1 .. (Len(wire) + 1)
          /\ \A i \in DOMAIN wire : wire'[i] = wire[i]
          /\ wire'[Len(wire) + 1] = [says |-> what, for |-> 0]
        <3>1. what \in {"typing", "speaking", "stopped"}
            BY <1>2
        <3>2. wire' = Append(wire, [says |-> what, for |-> 0])
            BY <1>2, <1>4 DEF Say
        <3>3. PICK x \in Notices : x = [says |-> what, for |-> 0]
            BY <3>1 DEF Notices
        <3>4. wire' = Append(wire, x)
            BY <3>2, <3>3
        <3>5. /\ wire' \in Seq(Notices) /\ DOMAIN wire' = 1 .. (Len(wire) + 1)
              /\ \A i \in DOMAIN wire : wire'[i] = wire[i]
              /\ wire'[Len(wire) + 1] = x
            <4>1. wire \in Seq(Notices)
                BY <1>0
            <4>2. wire' \in Seq(Notices) /\ Len(wire') = Len(wire) + 1
                BY <4>1, <3>4
            <4>3. DOMAIN wire' = 1 .. (Len(wire) + 1)
                BY <4>2
            <4>. QED  BY <4>1, <4>2, <4>3, <3>4
        <3>. QED  BY <3>3, <3>5
    <2>2. \A i \in DOMAIN wire' : i \in DOMAIN wire \/ i = Len(wire) + 1
        BY <1>0, <2>1
    <2>3. IndicatorTypes'
        <3>1. \A i \in DOMAIN wire' : wire'[i].for <= MaxDelay
            BY <1>0, <2>1, <2>2
        <3>2. talking \in BOOLEAN
            BY DEF IndicatorsInv, IndicatorTypes
        <3>. QED  BY <1>1, <1>4, <2>1, <3>1, <3>2 DEF IndicatorsInv, IndicatorTypes
    <2>4. Recent'
        BY <1>0, <1>1, <1>2, <2>1, <2>2 DEF IndicatorsInv, Recent
    <2>5. SaysSo'
        BY <1>1 DEF IndicatorsInv, SaysSo
    <2>6. KeptUp'
        <3>1. SUFFICES ASSUME ~throttled PROVE KeptUp'
            BY <1>1 DEF KeptUp
        <3>2. ASSUME \A i \in DOMAIN wire' : wire'[i].says # "typing" PROVE typer' <= last_typing'
            <4>1. \A i \in DOMAIN wire : wire[i].says # "typing"
                BY <3>2, <1>0, <2>1
            <4>. QED  BY <4>1, <3>1, <1>4, <1>1 DEF IndicatorsInv, KeptUp
        <3>3. ASSUME NEW i \in DOMAIN wire', wire'[i].says = "typing"
              PROVE  \/ typing' <= wire'[i].for + 1
                     \/ typer' <= wire'[i].for + ClientEvery
                     \/ \E j \in DOMAIN wire' : j < i /\ wire'[j].says = "typing"
            <4>1. i \in DOMAIN wire /\ wire'[i] = wire[i] /\ DOMAIN wire \subseteq DOMAIN wire'
                BY <3>3, <1>0, <2>1, <2>2
            <4>2. \/ typing <= wire[i].for + 1
                  \/ typer <= wire[i].for + ClientEvery
                  \/ \E j \in DOMAIN wire : j < i /\ wire[j].says = "typing"
                BY <1>4, <3>1, <3>3, <4>1 DEF IndicatorsInv, KeptUp
            <4>. QED  BY <4>1, <4>2, <1>1, <2>1
        <3>. QED  BY <3>2, <3>3 DEF KeptUp
    <2>. QED  BY <2>3, <2>4, <2>5, <2>6 DEF IndicatorsInv
<1>. QED  BY <1>0, <1>3, <1>4

LEMMA DeliverKeeps == ASSUME IndicatorsInv, Deliver PROVE IndicatorsInv'
<1>. USE Longer
<1>0. /\ wire \in Seq(Notices) /\ wire # <<>> /\ linked
      /\ DOMAIN wire = 1 .. Len(wire) /\ Len(wire) \in Nat /\ Len(wire) > 0
      /\ typing \in 0 .. Long /\ quiet \in 0 .. Long /\ last_typing \in 0 .. Long
      /\ forwarded \in 0 .. Long /\ typer \in 0 .. Long
      /\ silent \in 0 .. Long /\ speaker \in 0 .. Long
      /\ \A i \in DOMAIN wire : wire[i].for \in Nat /\ wire[i].for <= MaxDelay
    <2>1. wire # <<>> /\ linked
        BY DEF Deliver
    <2>2. DOMAIN wire = 1 .. Len(wire) /\ Len(wire) \in Nat /\ wire \in Seq(Notices)
        BY WireTyped DEF IndicatorsInv, IndicatorTypes
    <2>3. Len(wire) > 0
        BY <2>1, <2>2
    <2>. QED  BY <2>1, <2>2, <2>3, WireTyped DEF IndicatorsInv, IndicatorTypes
<1>1. /\ wire' \in Seq(Notices)
      /\ DOMAIN wire' = 1 .. (Len(wire) - 1)
      /\ \A i \in DOMAIN wire' : i + 1 \in DOMAIN wire /\ wire'[i] = wire[i + 1]
    <2>1. wire \in Seq(Notices) /\ wire # <<>> /\ wire' = Tail(wire)
        BY <1>0 DEF Deliver
    <2>2. /\ wire' \in Seq(Notices) /\ Len(wire') = Len(wire) - 1
          /\ \A i \in 1 .. Len(wire') : wire'[i] = wire[i + 1]
        BY <2>1
    <2>3. DOMAIN wire' = 1 .. (Len(wire) - 1)
        BY <2>2
    <2>4. \A i \in 1 .. (Len(wire) - 1) : i + 1 \in 1 .. Len(wire)
        BY <1>0
    <2>. QED  BY <1>0, <2>2, <2>3, <2>4
<1>. DEFINE says == wire[1].says
            types == says = "typing" /\ Forwards
<1>2. /\ typer' = IF types THEN 0 ELSE typer
      /\ forwarded' = IF types THEN 0 ELSE forwarded
      /\ throttled' = (throttled \/ (says = "typing" /\ ~Forwards))
      /\ speaker' = CASE says = "speaking" -> 0
                      [] says = "stopped"  -> Long
                      [] OTHER             -> speaker
      /\ UNCHANGED <<linked, typing, quiet, last_typing, talking, announced_speaking, silent>>
      /\ 1 \in DOMAIN wire
    BY <1>0 DEF Deliver
<1>3. IndicatorTypes'
    <2>1. throttled' \in BOOLEAN
        BY <1>2
    <2>2. typer' \in 0 .. Long /\ forwarded' \in 0 .. Long /\ speaker' \in 0 .. Long
        BY <1>0, <1>2
    <2>3. \A i \in DOMAIN wire' : wire'[i].for <= MaxDelay
        BY <1>0, <1>1
    <2>. QED  BY <1>0, <1>1, <1>2, <2>1, <2>2, <2>3 DEF IndicatorsInv, IndicatorTypes
<1>4. Recent'
    <2>1. quiet <= typer' + MaxDelay
        <3>1. CASE types
            <4>1. typer' = 0 /\ quiet <= wire[1].for
                BY <3>1, <1>2 DEF IndicatorsInv, Recent
            <4>2. quiet \in Nat /\ wire[1].for \in Nat /\ wire[1].for <= MaxDelay
                BY <1>0, <1>2
            <4>. QED  BY <4>1, <4>2
        <3>2. CASE ~types
            BY <3>2, <1>0, <1>2 DEF IndicatorsInv, Recent
        <3>. QED  BY <3>1, <3>2
    <2>2. silent <= speaker' + MaxDelay
        <3>1. CASE says = "speaking"
            <4>1. speaker' = 0 /\ silent <= wire[1].for
                BY <3>1, <1>2 DEF IndicatorsInv, Recent
            <4>2. silent \in Nat /\ wire[1].for \in Nat /\ wire[1].for <= MaxDelay
                BY <1>0, <1>2
            <4>. QED  BY <4>1, <4>2
        <3>2. CASE says = "stopped"
            <4>1. speaker' = Long
                BY <3>2, <1>2
            <4>. QED  BY <4>1, <1>0
        <3>3. CASE says \notin {"speaking", "stopped"}
            BY <3>3, <1>0, <1>2 DEF IndicatorsInv, Recent
        <3>. QED  BY <3>1, <3>2, <3>3
    <2>3. \A i \in DOMAIN wire' : /\ wire'[i].says = "typing" => quiet <= wire'[i].for
                                  /\ wire'[i].says = "speaking" => silent <= wire'[i].for
        BY <1>1 DEF IndicatorsInv, Recent
    <2>. QED  BY <2>1, <2>2, <2>3, <1>2 DEF IndicatorsInv, Recent
<1>5. SaysSo'
    BY <1>2 DEF IndicatorsInv, SaysSo
<1>6. KeptUp'
    <2>1. SUFFICES ASSUME ~throttled, says = "typing" => Forwards PROVE KeptUp'
        BY <1>2 DEF KeptUp
    <2>2. CASE says = "typing"
        <3>1. typer' = 0
            BY <1>2, <2>1, <2>2
        <3>2. last_typing' \in Nat
            BY <1>0, <1>2
        <3>3. \A i \in DOMAIN wire' : wire'[i].for \in Nat
            BY <1>0, <1>1
        <3>4. \A i \in DOMAIN wire' : typer' <= wire'[i].for + ClientEvery
            BY <3>1, <3>3
        <3>5. typer' <= last_typing'
            BY <3>1, <3>2
        <3>. QED  BY <3>4, <3>5 DEF KeptUp
    <2>3. CASE says # "typing"
        <3>1. typer' = typer
            BY <1>2, <2>3
        <3>2. ASSUME \A i \in DOMAIN wire' : wire'[i].says # "typing" PROVE typer' <= last_typing'
            <4>1. ASSUME NEW i \in DOMAIN wire PROVE wire[i].says # "typing"
                <5>1. CASE i = 1
                    BY <5>1, <2>3
                <5>2. CASE i # 1
                    <6>1. i - 1 \in DOMAIN wire' /\ (i - 1) + 1 = i
                        BY <5>2, <1>0, <1>1
                    <6>. QED  BY <6>1, <3>2, <1>1
                <5>. QED  BY <5>1, <5>2
            <4>. QED  BY <4>1, <3>1, <2>1, <1>0, <1>2 DEF IndicatorsInv, KeptUp
        <3>3. ASSUME NEW i \in DOMAIN wire', wire'[i].says = "typing"
              PROVE  \/ typing' <= wire'[i].for + 1
                     \/ typer' <= wire'[i].for + ClientEvery
                     \/ \E j \in DOMAIN wire' : j < i /\ wire'[j].says = "typing"
            <4>1. i + 1 \in DOMAIN wire /\ wire'[i] = wire[i + 1]
                BY <1>1
            <4>2. \/ typing <= wire[i + 1].for + 1
                  \/ typer <= wire[i + 1].for + ClientEvery
                  \/ \E j \in DOMAIN wire : j < i + 1 /\ wire[j].says = "typing"
                BY <4>1, <3>3, <2>1, <1>0 DEF IndicatorsInv, KeptUp
            <4>3. ASSUME NEW j \in DOMAIN wire, j < i + 1, wire[j].says = "typing"
                  PROVE  \E k \in DOMAIN wire' : k < i /\ wire'[k].says = "typing"
                <5>1. j # 1
                    BY <4>3, <2>3
                <5>2. j - 1 \in DOMAIN wire' /\ (j - 1) + 1 = j /\ j - 1 < i
                    BY <5>1, <4>3, <1>0, <1>1
                <5>. QED  BY <5>2, <4>3, <1>1
            <4>. QED  BY <4>1, <4>2, <4>3, <3>1, <1>2
        <3>. QED  BY <3>2, <3>3 DEF KeptUp
    <2>. QED  BY <2>2, <2>3
<1>. QED  BY <1>3, <1>4, <1>5, <1>6 DEF IndicatorsInv

LEMMA TickKeeps == ASSUME IndicatorsInv, Tick PROVE IndicatorsInv'
<1>. USE Longer
<1>0. /\ wire \in Seq(Notices) /\ linked \in BOOLEAN
      /\ DOMAIN wire = 1 .. Len(wire) /\ Len(wire) \in Nat
      /\ typing \in 0 .. Long /\ quiet \in 0 .. Long /\ last_typing \in 0 .. Long
      /\ forwarded \in 0 .. Long /\ typer \in 0 .. Long
      /\ silent \in 0 .. Long /\ speaker \in 0 .. Long
      /\ \A i \in DOMAIN wire : wire[i] \in Notices /\ wire[i].for \in Nat /\ wire[i].for < MaxDelay
    BY WireTyped DEF IndicatorsInv, IndicatorTypes, Tick
<1>1. /\ DOMAIN wire' = DOMAIN wire
      /\ \A i \in DOMAIN wire : wire'[i].says = wire[i].says /\ wire'[i].for = wire[i].for + 1
      /\ \A i \in DOMAIN wire : wire'[i] \in Notices
      /\ wire' \in Seq(Notices)
    <2>1. wire' = [n \in DOMAIN wire |-> [wire[n] EXCEPT !.for = @ + 1]]
        BY DEF Tick
    <2>2. \A i \in DOMAIN wire : /\ wire'[i].says = wire[i].says /\ wire'[i].for = wire[i].for + 1
                                 /\ wire'[i] \in Notices
        <3>1. SUFFICES ASSUME NEW i \in DOMAIN wire
                       PROVE  /\ wire'[i].says = wire[i].says /\ wire'[i].for = wire[i].for + 1
                              /\ wire'[i] \in Notices
            OBVIOUS
        <3>2. wire'[i] = [wire[i] EXCEPT !.for = wire[i].for + 1]
            BY <2>1
        <3>3. wire[i] \in Notices
            BY <1>0
        <3>. QED  BY <3>2, <3>3 DEF Notices
    <2>3. DOMAIN wire' = 1 .. Len(wire) /\ wire' \in [1 .. Len(wire) -> Notices]
        BY <2>1, <2>2, <1>0
    <2>4. wire' \in Seq(Notices)
        BY <2>3, <1>0
    <2>. QED  BY <2>2, <2>3, <2>4, <1>0
<1>2. /\ typing' = IF typing = 0 \/ quiet > 0 THEN 0 ELSE More(typing)
      /\ quiet' = More(quiet) /\ last_typing' = More(last_typing)
      /\ forwarded' = More(forwarded) /\ typer' = More(typer)
      /\ silent' = IF talking THEN 0 ELSE More(silent)
      /\ speaker' = More(speaker)
      /\ UNCHANGED <<linked, talking, announced_speaking, throttled>>
    BY DEF Tick
<1>3. /\ quiet' \in 0 .. Long /\ quiet' <= quiet + 1
      /\ last_typing' \in 0 .. Long /\ last_typing' <= last_typing + 1 /\ last_typing' >= last_typing
      /\ forwarded' \in 0 .. Long
      /\ typer' \in 0 .. Long /\ typer' <= typer + 1 /\ typer' >= typer
      /\ speaker' \in 0 .. Long /\ speaker' >= speaker
      /\ silent' \in 0 .. Long /\ silent' <= silent + 1
      /\ typing' \in 0 .. Long /\ typing' <= typing + 1
    <2>1. quiet' \in 0 .. Long /\ quiet' <= quiet + 1
        BY <1>0, <1>2, CountsOn
    <2>2. last_typing' \in 0 .. Long /\ last_typing' <= last_typing + 1 /\ last_typing' >= last_typing
        BY <1>0, <1>2, CountsOn
    <2>3. forwarded' \in 0 .. Long
        BY <1>0, <1>2, CountsOn
    <2>4. typer' \in 0 .. Long /\ typer' <= typer + 1 /\ typer' >= typer
        BY <1>0, <1>2, CountsOn
    <2>5. speaker' \in 0 .. Long /\ speaker' >= speaker
        BY <1>0, <1>2, CountsOn
    <2>6. silent' \in 0 .. Long /\ silent' <= silent + 1
        <3>1. More(silent) \in 0 .. Long /\ More(silent) <= silent + 1
            BY <1>0, CountsOn
        <3>. QED  BY <1>0, <1>2, <3>1
    <2>7. typing' \in 0 .. Long /\ typing' <= typing + 1
        <3>1. More(typing) \in 0 .. Long /\ More(typing) <= typing + 1
            BY <1>0, CountsOn
        <3>. QED  BY <1>0, <1>2, <3>1
    <2>. QED  BY <2>1, <2>2, <2>3, <2>4, <2>5, <2>6, <2>7
<1>30. /\ typing \in Nat /\ typing' \in Nat /\ typing' <= typing + 1
       /\ typer \in Nat /\ typer' \in Nat /\ typer' <= typer + 1
       /\ last_typing \in Nat /\ last_typing' \in Nat /\ last_typing' <= last_typing + 1
    BY <1>0, <1>3
<1>31. /\ quiet \in Nat /\ quiet' \in Nat /\ quiet' <= quiet + 1
       /\ silent \in Nat /\ silent' \in Nat /\ silent' <= silent + 1
    BY <1>0, <1>3
<1>4. /\ typer' = IF typer < Long THEN typer + 1 ELSE Long
      /\ speaker' = IF speaker < Long THEN speaker + 1 ELSE Long
      /\ last_typing' = IF last_typing < Long THEN last_typing + 1 ELSE Long
    BY <1>2 DEF More
<1>5. IndicatorTypes'
    <2>1. ASSUME NEW i \in DOMAIN wire' PROVE wire'[i].for <= MaxDelay
        <3>1. i \in DOMAIN wire
            BY <1>1
        <3>2. wire[i].for \in Nat /\ wire[i].for < MaxDelay
            BY <1>0, <3>1
        <3>3. wire'[i].for = wire[i].for + 1
            BY <1>1, <3>1
        <3>. QED  BY <3>2, <3>3
    <2>2. ~linked => wire' = <<>>
        <3>1. ~linked => wire = <<>>
            BY DEF IndicatorsInv, IndicatorTypes
        <3>. QED  BY <3>1, <1>1, <1>0
    <2>. QED  BY <1>1, <1>2, <1>3, <2>1, <2>2 DEF IndicatorsInv, IndicatorTypes
<1>6. Recent'
    <2>1. quiet' <= typer' + MaxDelay
        BY <1>0, <1>3, <1>4 DEF IndicatorsInv, Recent
    <2>2. silent' <= speaker' + MaxDelay
        BY <1>0, <1>3, <1>4 DEF IndicatorsInv, Recent
    <2>3. ASSUME NEW i \in DOMAIN wire'
          PROVE  /\ wire'[i].says = "typing" => quiet' <= wire'[i].for
                 /\ wire'[i].says = "speaking" => silent' <= wire'[i].for
        <3>1. /\ wire[i].says = "typing" => quiet <= wire[i].for
              /\ wire[i].says = "speaking" => silent <= wire[i].for
              /\ i \in DOMAIN wire
            BY <1>1 DEF IndicatorsInv, Recent
        <3>2. wire[i].for \in Nat
            BY <3>1, <1>0
        <3>3. PICK f \in Nat : f = wire[i].for
            BY <3>2
        <3>4. wire'[i].says = wire[i].says /\ wire'[i].for = f + 1
            BY <3>1, <3>3, <1>1
        <3>5. wire[i].says = "typing" => quiet' <= f + 1
            <4>1. wire[i].says = "typing" => quiet <= f
                BY <3>1, <3>3
            <4>. QED  BY <4>1, <1>31
        <3>6. wire[i].says = "speaking" => silent' <= f + 1
            <4>1. wire[i].says = "speaking" => silent <= f
                BY <3>1, <3>3
            <4>. QED  BY <4>1, <1>31
        <3>. QED  BY <3>4, <3>5, <3>6
    <2>4. talking' => silent' = 0
        BY <1>2
    <2>. QED  BY <2>1, <2>2, <2>3, <2>4 DEF Recent
<1>7. SaysSo'
    <2>1. SUFFICES ASSUME typing' > 0 PROVE quiet' = 1 /\ last_typing' <= ClientEvery
        BY DEF SaysSo
    <2>2. typing > 0 /\ quiet = 0
        BY <2>1, <1>0, <1>2
    <2>3. last_typing < ClientEvery
        BY <2>2 DEF IndicatorsInv, SaysSo
    <2>4. quiet' = 1
        BY <2>2, <1>0, <1>2 DEF More
    <2>5. last_typing' <= ClientEvery
        BY <2>3, <1>30
    <2>. QED  BY <2>4, <2>5
<1>8. KeptUp'
    <2>1. SUFFICES ASSUME linked, ~throttled PROVE KeptUp'
        BY <1>2 DEF KeptUp
    <2>2. ASSUME \A i \in DOMAIN wire' : wire'[i].says # "typing" PROVE typer' <= last_typing'
        <3>1. \A i \in DOMAIN wire : wire[i].says # "typing"
            BY <2>2, <1>1
        <3>2. typer <= last_typing
            BY <3>1, <2>1 DEF IndicatorsInv, KeptUp
        <3>3. typer <= Long /\ last_typing <= Long /\ Long \in Nat
            BY <1>0
        <3>. QED  BY <3>2, <3>3, <1>30, <1>4
    <2>3. ASSUME NEW i \in DOMAIN wire', wire'[i].says = "typing"
          PROVE  \/ typing' <= wire'[i].for + 1
                 \/ typer' <= wire'[i].for + ClientEvery
                 \/ \E j \in DOMAIN wire' : j < i /\ wire'[j].says = "typing"
        <3>1. /\ i \in DOMAIN wire /\ wire[i].says = "typing" /\ wire'[i].for = wire[i].for + 1
              /\ wire[i].for \in Nat
            BY <2>3, <1>0, <1>1
        <3>2. \/ typing <= wire[i].for + 1
              \/ typer <= wire[i].for + ClientEvery
              \/ \E j \in DOMAIN wire : j < i /\ wire[j].says = "typing"
            BY <3>1, <2>1 DEF IndicatorsInv, KeptUp
        <3>6. PICK f \in Nat : f = wire[i].for
            BY <3>1
        <3>3. CASE typing <= wire[i].for + 1
            <4>1. typing' <= (f + 1) + 1
                BY <3>3, <3>6, <1>30
            <4>. QED  BY <4>1, <3>1, <3>6
        <3>4. CASE typer <= wire[i].for + ClientEvery
            <4>1. typer' <= (f + 1) + ClientEvery
                BY <3>4, <3>6, <1>30
            <4>. QED  BY <4>1, <3>1, <3>6
        <3>5. CASE \E j \in DOMAIN wire : j < i /\ wire[j].says = "typing"
            BY <3>5, <1>1
        <3>. QED  BY <3>2, <3>3, <3>4, <3>5
    <2>. QED  BY <2>2, <2>3 DEF KeptUp
<1>. QED  BY <1>5, <1>6, <1>7, <1>8 DEF IndicatorsInv

LEMMA IndicatorsStep ==
    ASSUME IndicatorsInv, [IndicatorsNext]_indicatorVars PROVE IndicatorsInv'
<1>1. CASE Talk
    <2>1. talking' = ~talking /\ silent' = 0
          /\ UNCHANGED <<wire, linked, typing, quiet, last_typing, forwarded, typer, throttled,
                         announced_speaking, speaker>>
        BY <1>1 DEF Talk, typed
    <2>2. \A i \in DOMAIN wire : wire[i].for \in Nat
        BY WireTyped DEF IndicatorsInv
    <2>3. IndicatorTypes'
        BY <2>1, Longer DEF IndicatorsInv, IndicatorTypes
    <2>4. Recent'
        BY <2>1, <2>2, Longer DEF IndicatorsInv, IndicatorTypes, Recent
    <2>5. SaysSo' /\ KeptUp'
        BY <2>1 DEF IndicatorsInv, SaysSo, KeptUp
    <2>. QED  BY <2>3, <2>4, <2>5 DEF IndicatorsInv
<1>2. CASE Cut
    <2>1. /\ wire' = <<>> /\ linked' = FALSE /\ DOMAIN wire' = {} /\ wire' \in Seq(Notices)
          /\ UNCHANGED <<typing, quiet, last_typing, forwarded, typer, throttled,
                         talking, announced_speaking, silent, speaker>>
        BY <1>2 DEF Cut, typed, talked
    <2>2. IndicatorTypes'
        BY <2>1 DEF IndicatorsInv, IndicatorTypes
    <2>3. Recent' /\ SaysSo' /\ KeptUp'
        BY <2>1 DEF IndicatorsInv, Recent, SaysSo, KeptUp
    <2>. QED  BY <2>2, <2>3 DEF IndicatorsInv
<1>3. CASE UNCHANGED indicatorVars
    BY <1>3 DEF indicatorVars, typed, talked, IndicatorsInv, IndicatorTypes, Recent, SaysSo, KeptUp
<1>. QED
    BY <1>1, <1>2, <1>3, KeyKeeps, AnnounceKeeps, DeliverKeeps, TickKeeps DEF IndicatorsNext

LEMMA ShownInTimeHeld == IndicatorsInv => ShownInTime
<1>. SUFFICES ASSUME IndicatorsInv PROVE ShownInTime
    OBVIOUS
<1>. USE Longer
<1>0. /\ DOMAIN wire = 1 .. Len(wire) /\ Len(wire) \in Nat
      /\ typing \in 0 .. Long /\ quiet \in 0 .. Long /\ last_typing \in 0 .. Long
      /\ typer \in 0 .. Long /\ silent \in 0 .. Long /\ speaker \in 0 .. Long
      /\ \A i \in DOMAIN wire : wire[i].for \in Nat /\ wire[i].for <= MaxDelay
    BY WireTyped DEF IndicatorsInv, IndicatorTypes
<1>1. ShownTyping => quiet <= TypingTtl + MaxDelay
    BY <1>0 DEF ShownTyping, Shows, IndicatorsInv, Recent
<1>2. ShownSpeaking => silent <= SpeakingTtl + MaxDelay
    BY <1>0 DEF ShownSpeaking, Shows, IndicatorsInv, Recent
<1>3. ASSUME typing > MaxDelay + 1, linked, ~throttled PROVE ShownTyping
    <2>1. last_typing <= ClientEvery
        BY <1>0, <1>3 DEF IndicatorsInv, SaysSo
    <2>2. CASE \A i \in DOMAIN wire : wire[i].says # "typing"
        <3>1. typer <= last_typing
            BY <2>2, <1>3 DEF IndicatorsInv, KeptUp
        <3>. QED  BY <3>1, <2>1, <1>0 DEF ShownTyping, Shows
    <2>3. CASE \E i \in DOMAIN wire : wire[i].says = "typing"
        <3>. DEFINE told == {i \in DOMAIN wire : wire[i].says = "typing"}
        <3>1. told \subseteq Nat /\ told # {}
            BY <2>3, <1>0
        <3>2. PICK i \in told : \A j \in told : <<j, i>> \notin OpToRel(<, Nat)
            BY <3>1, NatLessThanWellFounded, WFMin
        <3>3. \A j \in DOMAIN wire : j < i => wire[j].says # "typing"
            BY <3>1, <3>2, <1>0 DEF OpToRel
        <3>4. i \in DOMAIN wire /\ wire[i].says = "typing"
            BY <3>2
        <3>5. typing <= wire[i].for + 1 \/ typer <= wire[i].for + ClientEvery
            BY <3>3, <3>4, <1>3 DEF IndicatorsInv, KeptUp
        <3>. QED  BY <3>4, <3>5, <1>0, <1>3 DEF ShownTyping, Shows
    <2>. QED  BY <2>2, <2>3
<1>. QED  BY <1>1, <1>2, <1>3 DEF ShownInTime

----------------------------------------------------------------------------
(* What the microphone sends.                                              *)

HeardRecords == [on : BOOLEAN, open : BOOLEAN, active : BOOLEAN, key : BOOLEAN, hang : Nat]

TalkTypes ==
    /\ switches \in [Switch -> BOOLEAN] /\ hang \in Nat
    /\ remaining \in Nat /\ closed \in BOOLEAN /\ heard \in Seq(HeardRecords)

\* The gate has as long to run as the last active frame gave it, less what has
\* passed since.
LastActive(j) == heard[j].active /\ \A i \in DOMAIN heard : i > j => ~heard[i].active
Left(time) == IF time > 0 THEN time ELSE 0
GateRuns ==
    \/ remaining = 0 /\ \A i \in DOMAIN heard : ~heard[i].active
    \/ \E j \in DOMAIN heard : LastActive(j) /\ remaining = Left(heard[j].hang - (Len(heard) - j))

\* A packet ends with this frame; and with the gate shut.
Full(e) == e \in DOMAIN heard /\ e % FramesPerPacket = 0
Shut(e) == Full(e) /\ heard[e].on /\ ~heard[e].open

\* What the thread remembers of the packet before: whether it ended shut.
ClosedSo == closed <=> \E e \in DOMAIN heard : Shut(e) /\ Len(heard) - e < FramesPerPacket

\* A packet is sent, or cannot be encoded, exactly if it is speech or the one
\* that closes a spurt.
ToSend(e) == heard[e].on /\ (heard[e].open \/ ~Shut(e - FramesPerPacket))
SentSo ==
    /\ \A e \in Ends \cup failed : Full(e) /\ ToSend(e)
    /\ \A e \in DOMAIN heard : Full(e) /\ ToSend(e) => e \in Ends \cup failed

TalkInv == TalkTypes /\ GateRuns /\ GateAsMeant /\ ClosedSo /\ SentSo

(* With at most two frames to a packet: which frames end one.              *)
LEMMA PacketEnds ==
    ASSUME FramesPerPacket <= 2, NEW k \in Nat \ {0}
    PROVE  /\ FramesPerPacket \in {1, 2}
           /\ EndOf(k) = (IF k % FramesPerPacket = 0 THEN k ELSE k + 1)
           /\ EndOf(k) % FramesPerPacket = 0
<1>1. FramesPerPacket \in {1, 2}
    BY TalkAssumption
<1>2. CASE FramesPerPacket = 1
    BY <1>2 DEF EndOf
<1>3. CASE FramesPerPacket = 2
    BY <1>3 DEF EndOf
<1>. QED  BY <1>1, <1>2, <1>3

(* Which of those up to a frame its packet, or the one before, ends with.   *)
LEMMA PacketEndsBefore ==
    ASSUME FramesPerPacket <= 2, NEW k \in Nat \ {0}, NEW e \in Int, e % FramesPerPacket = 0
    PROVE  /\ k % FramesPerPacket = 0 =>
                 /\ e <= k /\ k - e < FramesPerPacket <=> e = k
                 /\ e < k /\ k - 1 - e < FramesPerPacket <=> e = k - FramesPerPacket
           /\ k % FramesPerPacket # 0 =>
                 (e <= k /\ k - e < FramesPerPacket <=> e < k /\ k - 1 - e < FramesPerPacket)
<1>1. FramesPerPacket \in {1, 2}
    BY PacketEnds
<1>2. CASE FramesPerPacket = 1
    BY <1>2
<1>3. CASE FramesPerPacket = 2
    BY <1>3
<1>. QED  BY <1>1, <1>2, <1>3

\* The gate is open from each active frame until its time has passed.
Meant(k) ==
    ~heard[k].key =>
        (heard[k].open <=>
            \E j \in 1 .. k : /\ heard[j].active /\ \A i \in 1 .. k : heard[i].active => i <= j
                              /\ k - j <= heard[j].hang)

(* The gate is as meant if it was so at each frame.                        *)
LEMMA MeantAll == GateAsMeant <=> \A k \in DOMAIN heard : Meant(k)
BY DEF GateAsMeant, Meant, Frames

(* Nothing is heard yet.                                                   *)
LEMMA TalkStart == TalkInit => TalkInv
<1>. SUFFICES ASSUME TalkInit PROVE TalkInv
    OBVIOUS
<1>1. heard \in Seq(HeardRecords) /\ DOMAIN heard = {} /\ hang \in Nat
    BY TalkAssumption DEF TalkInit
<1>2. TalkTypes
    BY <1>1 DEF TalkInit, TalkTypes
<1>3. Ends \cup failed = {}
    BY DEF TalkInit, Ends
<1>. QED  BY <1>1, <1>2, <1>3
          DEF TalkInit, TalkInv, GateRuns, GateAsMeant, ClosedSo, SentSo, Shut, Full, Frames

(* One frame more.                                                         *)
LEMMA FrameHeard ==
    ASSUME TalkTypes, NEW level \in Levels, NEW voiced \in BOOLEAN, Frame(level, voiced)
    PROVE  LET k == Len(heard) + 1 IN
           /\ k \in Nat \ {0} /\ DOMAIN heard = 1 .. (k - 1) /\ DOMAIN heard' = 1 .. k
           /\ \A i \in DOMAIN heard : heard'[i] = heard[i] /\ heard[i] \in HeardRecords
           /\ heard' \in Seq(HeardRecords) /\ Len(heard') = k
           /\ heard'[k] \in HeardRecords /\ heard'[k].on = Transmitting
           /\ heard'[k].active = Active(level, voiced) /\ heard'[k].open = Open(Active(level, voiced))
           /\ (heard'[k].active <=> Active(level, voiced))
           /\ ~heard'[k].key => (heard'[k].open <=> Active(level, voiced) \/ remaining > 0)
           /\ heard'[k].hang = hang
<1>. DEFINE k == Len(heard) + 1
            active == Active(level, voiced)
            frame == [on |-> Transmitting, open |-> Open(active), active |-> active,
                      key |-> switches["push_to_talk"], hang |-> hang]
<1>1. /\ Transmitting \in BOOLEAN /\ active \in BOOLEAN /\ switches["push_to_talk"] \in BOOLEAN
      /\ switches["talk_key_held"] \in BOOLEAN
    BY DEF Transmitting, Active, TalkTypes, Switch
<1>2. Open(active) \in BOOLEAN
    BY <1>1 DEF Open, StaysOpen
<1>3. frame \in HeardRecords /\ frame.on = Transmitting /\ frame.open = Open(active)
      /\ frame.active = active /\ frame.key = switches["push_to_talk"] /\ frame.hang = hang
    BY <1>1, <1>2 DEF HeardRecords, TalkTypes
<1>4. heard' = Append(heard, frame)
    BY DEF Frame
<1>. HIDE DEF frame
<1>5. /\ heard \in Seq(HeardRecords) /\ Len(heard) \in Nat /\ DOMAIN heard = 1 .. Len(heard)
      /\ heard' \in Seq(HeardRecords) /\ Len(heard') = k /\ DOMAIN heard' = 1 .. k /\ heard'[k] = frame
      /\ \A i \in DOMAIN heard : heard'[i] = heard[i] /\ heard[i] \in HeardRecords
    BY <1>3, <1>4 DEF TalkTypes
<1>6. ~heard'[k].key => Open(active) = StaysOpen(active)
    BY <1>3, <1>5 DEF Open
<1>7. ~heard'[k].key => (heard'[k].open <=> active \/ remaining > 0)
    <2>1. CASE heard'[k].key
        BY <2>1
    <2>2. CASE ~heard'[k].key
        <3>1. heard'[k].open = StaysOpen(active)
            BY <1>3, <1>5, <1>6, <2>2
        <3>. QED  BY <3>1 DEF StaysOpen
    <2>. QED  BY <2>1, <2>2
<1>8. heard'[k].active = active /\ heard'[k].open = Open(active) /\ heard'[k].on = Transmitting
      /\ heard'[k].hang = hang /\ heard'[k] \in HeardRecords
    BY <1>3, <1>5
<1>. HIDE DEF active
<1>9. heard'[k].active <=> active
    BY <1>8
<1>. QED  BY <1>5, <1>7, <1>8, <1>9 DEF active

(* The gate runs on, and is open as it is meant to be.                     *)
LEMMA GateStep ==
    ASSUME TalkInv, NEW level \in Levels, NEW voiced \in BOOLEAN, Frame(level, voiced)
    PROVE  TalkTypes' /\ GateRuns' /\ GateAsMeant'
<1>. DEFINE active == Active(level, voiced)
<1>0. TalkTypes
    BY DEF TalkInv
<1>1. PICK k : k = Len(heard) + 1
    OBVIOUS
<1>2. /\ k \in Nat \ {0} /\ DOMAIN heard = 1 .. (k - 1) /\ DOMAIN heard' = 1 .. k
      /\ \A i \in DOMAIN heard : heard'[i] = heard[i] /\ heard[i] \in HeardRecords
      /\ heard' \in Seq(HeardRecords) /\ Len(heard') = k
      /\ heard'[k] \in HeardRecords /\ heard'[k].on = Transmitting
      /\ (heard'[k].active <=> active) /\ heard'[k].hang = hang
      /\ ~heard'[k].key => (heard'[k].open <=> active \/ remaining > 0)
    BY <1>0, <1>1, FrameHeard
<1>3. /\ remaining \in Nat /\ hang \in Nat /\ closed \in BOOLEAN /\ switches \in [Switch -> BOOLEAN]
      /\ remaining' = (IF active THEN hang ELSE IF remaining > 0 THEN remaining - 1 ELSE 0)
      /\ UNCHANGED <<switches, hang>>
    BY <1>0 DEF TalkTypes, Frame, GateAfter, Remaining
<1>4. TalkTypes'
    <2>1. closed' \in BOOLEAN
        BY <1>3 DEF Frame, ClosedAfter
    <2>2. remaining' \in Nat
        BY <1>3
    <2>. QED  BY <1>2, <1>3, <2>1, <2>2 DEF TalkTypes
<1>. HIDE DEF active
<1>7. Meant(k)' => GateAsMeant'
    <2>1. ASSUME NEW m \in DOMAIN heard, Meant(m) PROVE Meant(m)'
        <3>1. m \in Nat /\ \A j \in 1 .. m : heard'[j] = heard[j]
            BY <1>2
        <3>2. heard'[m] = heard[m]
            BY <1>2
        <3>. QED  BY <2>1, <3>1, <3>2 DEF Meant
    <2>2. \A m \in DOMAIN heard' : m = k \/ m \in DOMAIN heard
        BY <1>2
    <2>3. \A m \in DOMAIN heard : Meant(m)
        BY MeantAll DEF TalkInv
    <2>4. ASSUME Meant(k)', NEW m \in DOMAIN heard' PROVE Meant(m)'
        BY <2>1, <2>2, <2>3, <2>4
    <2>. QED  BY <2>4 DEF GateAsMeant, Meant, Frames
<1>5. CASE active
    <2>1. LastActive(k)'
        BY <1>2, <1>5 DEF LastActive
    <2>2. remaining' = Left(heard'[k].hang - (Len(heard') - k))
        BY <1>2, <1>3, <1>5 DEF Left
    <2>3. GateRuns'
        BY <1>2, <2>1, <2>2 DEF GateRuns, Left
    <2>. HIDE DEF GateRuns
    <2>4. Meant(k)'
        <3>1. k - k <= hang /\ k \in 1 .. k /\ \A i \in 1 .. k : i <= k
            BY <1>2, <1>3
        <3>2. ~heard'[k].key => heard'[k].open
            BY <1>2, <1>5
        <3>. QED  BY <1>2, <1>5, <3>1, <3>2 DEF Meant
    <2>. QED  BY <1>4, <1>7, <2>3, <2>4
<1>6. CASE ~active
    <2>1. CASE remaining = 0 /\ \A i \in DOMAIN heard : ~heard[i].active
        <3>1. \A i \in DOMAIN heard' : ~heard'[i].active
            BY <1>2, <1>6, <2>1
        <3>2. GateRuns'
            BY <1>3, <1>6, <2>1, <3>1 DEF GateRuns
        <3>3. Meant(k)'
            BY <1>2, <1>3, <1>6, <2>1, <3>1 DEF Meant
        <3>. QED  BY <1>4, <1>7, <3>2, <3>3
    <2>2. ASSUME NEW j \in DOMAIN heard, LastActive(j),
                 remaining = Left(heard[j].hang - (Len(heard) - j))
          PROVE  GateRuns' /\ Meant(k)'
        <3>0. j \in Int /\ j > 0 /\ j < k /\ heard[j].hang \in Nat /\ heard'[j] = heard[j] /\ heard[j].active
              /\ \A i \in 1 .. k : i > j => ~heard'[i].active
            <4>1. j \in Int /\ j > 0 /\ j < k /\ heard'[j] = heard[j] /\ heard[j] \in HeardRecords
                BY <1>2, <2>2
            <4>2. heard[j].hang \in Nat
                BY <4>1 DEF HeardRecords
            <4>3. heard[j].active /\ \A i \in DOMAIN heard : i > j => ~heard[i].active
                BY <2>2 DEF LastActive
            <4>4. ~heard'[k].active
                BY <1>2, <1>6
            <4>5. ASSUME NEW i \in 1 .. k, i > j PROVE ~heard'[i].active
                <5>1. CASE i = k
                    BY <4>4, <5>1
                <5>2. CASE i # k
                    <6>1. i \in DOMAIN heard
                        BY <1>2, <5>2
                    <6>2. heard'[i] = heard[i] /\ ~heard[i].active
                        BY <1>2, <4>3, <4>5, <6>1
                    <6>. QED  BY <6>2
                <5>. QED  BY <5>1, <5>2
            <4>. QED  BY <4>1, <4>2, <4>3, <4>5
        <3>1. remaining' = Left(heard'[j].hang - (Len(heard') - j))
            BY <1>1, <1>2, <1>3, <1>6, <2>2, <3>0 DEF Left
        <3>2. GateRuns'
            BY <1>2, <3>0, <3>1 DEF GateRuns, LastActive, Left
        <3>3. remaining > 0 <=> k - j <= heard[j].hang
            BY <1>1, <1>2, <2>2, <3>0 DEF Left
        <3>4. \A l \in 1 .. k : heard'[l].active /\ (\A i \in 1 .. k : heard'[i].active => i <= l)
                    <=> l = j
            BY <1>2, <3>0
        <3>5. Meant(k)'
            BY <1>2, <1>6, <3>0, <3>3, <3>4 DEF Meant
        <3>. QED  BY <3>2, <3>5
    <2>. QED  BY <1>4, <1>7, <2>1, <2>2 DEF TalkInv, GateRuns
<1>. QED  BY <1>5, <1>6

(* What is sent stays as it is meant to be.                                *)
LEMMA SentStep ==
    ASSUME FramesPerPacket <= 2, TalkInv,
           NEW level \in Levels, NEW voiced \in BOOLEAN, Frame(level, voiced)
    PROVE  ClosedSo' /\ SentSo'
<1>. DEFINE open == Open(Active(level, voiced))
            F == FramesPerPacket
<1>0. TalkTypes
    BY DEF TalkInv
<1>1. PICK k : k = Len(heard) + 1
    OBVIOUS
<1>2. /\ k \in Nat \ {0} /\ DOMAIN heard = 1 .. (k - 1) /\ DOMAIN heard' = 1 .. k
      /\ \A i \in DOMAIN heard : heard'[i] = heard[i]
      /\ Len(heard') = k /\ Len(heard) = k - 1
      /\ heard'[k].on = Transmitting /\ heard'[k].open = open
    BY <1>0, <1>1, FrameHeard
<1>3. F \in {1, 2}
    BY PacketEnds
<1>4. /\ \A e \in DOMAIN heard : Full(e)' <=> Full(e)
      /\ \A e \in Int : e < k => (Shut(e)' <=> Shut(e))
      /\ \A e \in DOMAIN heard : ToSend(e)' <=> ToSend(e)
    <2>1. \A e \in Int : e < k => (e \in DOMAIN heard' <=> e \in DOMAIN heard)
        BY <1>2
    <2>2. \A e \in Int : e < k => (Shut(e)' <=> Shut(e))
        BY <1>2, <2>1 DEF Shut, Full
    <2>3. \A e \in DOMAIN heard : e \in Int /\ e < k /\ e - F \in Int /\ e - F < k
        BY <1>2, <1>3
    <2>4. \A e \in DOMAIN heard : ToSend(e)' <=> ToSend(e)
        BY <1>2, <2>2, <2>3 DEF ToSend
    <2>. QED  BY <1>2, <2>1, <2>2, <2>3, <2>4 DEF Full
<1>5. CASE k % F # 0
    <2>1. closed' = closed /\ packets' = packets /\ failed' = failed
        BY <1>1, <1>5 DEF Frame
    <2>2. ~Full(k)'
        BY <1>5 DEF Full
    <2>3. SentSo'
        <3>1. Ends' = Ends
            BY <2>1 DEF Ends
        <3>2. \A e \in Ends \cup failed : e \in DOMAIN heard
            BY DEF TalkInv, SentSo, Full
        <3>3. \A e \in DOMAIN heard' : e = k \/ e \in DOMAIN heard
            BY <1>2
        <3>. QED  BY <1>4, <2>1, <2>2, <3>1, <3>2, <3>3 DEF TalkInv, SentSo
    <2>4. ClosedSo'
        <3>1. ASSUME NEW e \in Int
              PROVE  Shut(e)' /\ k - e < F <=> Shut(e) /\ k - 1 - e < F
            <4>1. CASE e < k
                <5>1. Shut(e) => e % F = 0
                    BY DEF Shut, Full
                <5>2. e % F = 0 => (e <= k /\ k - e < F <=> e < k /\ k - 1 - e < F)
                    BY <1>2, <1>5, PacketEndsBefore
                <5>. QED  BY <1>2, <1>4, <4>1, <5>1, <5>2
            <4>2. CASE e >= k
                <5>1. ~Shut(e)
                    BY <1>2, <4>2 DEF Shut, Full
                <5>2. ~Shut(e)'
                    BY <1>2, <2>2, <4>2 DEF Shut, Full
                <5>. QED  BY <5>1, <5>2
            <4>. QED  BY <1>2, <4>1, <4>2
        <3>2. (\E e \in DOMAIN heard' : Shut(e)' /\ k - e < F) <=> \E e \in DOMAIN heard : Shut(e) /\ k - 1 - e < F
            <4>1. \A e : (Shut(e) => e \in DOMAIN heard) /\ (Shut(e)' => e \in DOMAIN heard')
                BY DEF Shut, Full
            <4>2. DOMAIN heard \subseteq Int /\ DOMAIN heard' \subseteq Int
                BY <1>2
            <4>. QED  BY <3>1, <4>1, <4>2
        <3>. QED  BY <1>2, <2>1, <3>2 DEF TalkInv, ClosedSo
    <2>. QED  BY <2>3, <2>4
<1>6. CASE k % F = 0
    <2>1. /\ closed' = ClosedAfter(open)
          /\ \/ /\ Sends(open) /\ packets' = packets \cup {[seq |-> seq + 1, last |-> k]} /\ failed' = failed
             \/ /\ Sends(open) /\ failed' = failed \cup {k} /\ packets' = packets
             \/ ~Sends(open) /\ packets' = packets /\ failed' = failed
        BY <1>1, <1>6 DEF Frame
    <2>2. Full(k)' /\ (Shut(k)' <=> ClosedAfter(open))
        BY <1>2, <1>6 DEF Full, Shut, ClosedAfter
    <2>3. closed <=> Shut(k - F)
        <3>1. \A e \in DOMAIN heard : e \in Int /\ e < k
            BY <1>2
        <3>2. \A e \in Int : e % F = 0 => (e < k /\ k - 1 - e < F <=> e = k - F)
            BY <1>2, <1>6, PacketEndsBefore
        <3>3. \A e \in DOMAIN heard : Shut(e) /\ k - 1 - e < F <=> Shut(e) /\ e = k - F
            BY <3>1, <3>2 DEF Shut, Full
        <3>4. Shut(k - F) => k - F \in DOMAIN heard
            BY DEF Shut, Full
        <3>. QED  BY <1>2, <3>3, <3>4 DEF TalkInv, ClosedSo
    <2>4. ToSend(k)' <=> Sends(open)
        <3>1. Shut(k - F)' <=> Shut(k - F)
            BY <1>2, <1>3, <1>4
        <3>. QED  BY <1>2, <2>3, <3>1 DEF ToSend, Sends
    <2>5. (Ends \cup failed)' = IF Sends(open) THEN Ends \cup failed \cup {k} ELSE Ends \cup failed
        <3>1. ASSUME packets' = packets \cup {[seq |-> seq + 1, last |-> k]} PROVE Ends' = Ends \cup {k}
            <4>. DEFINE p == [seq |-> seq + 1, last |-> k]
            <4>1. p.last = k /\ packets' = packets \cup {p}
                BY <3>1
            <4>. HIDE DEF p
            <4>. QED  BY <4>1 DEF Ends
        <3>2. packets' = packets => Ends' = Ends
            BY DEF Ends
        <3>. QED  BY <2>1, <3>1, <3>2
    <2>6. SentSo'
        <3>1. \A e \in Ends \cup failed : e \in DOMAIN heard
            BY DEF TalkInv, SentSo, Full
        <3>2. \A e \in DOMAIN heard' : e = k \/ e \in DOMAIN heard
            BY <1>2
        <3>3. ASSUME NEW e \in (Ends \cup failed)' PROVE Full(e)' /\ ToSend(e)'
            <4>1. (e = k /\ Sends(open)) \/ e \in Ends \cup failed
                BY <2>5, <3>3
            <4>. QED  BY <1>4, <2>2, <2>4, <3>1, <4>1 DEF TalkInv, SentSo
        <3>4. ASSUME NEW e \in DOMAIN heard', Full(e)', ToSend(e)' PROVE e \in (Ends \cup failed)'
            <4>1. CASE e = k
                BY <2>4, <2>5, <3>4, <4>1
            <4>2. CASE e \in DOMAIN heard
                BY <1>4, <2>5, <3>4, <4>2 DEF TalkInv, SentSo
            <4>. QED  BY <3>2, <4>1, <4>2
        <3>. QED  BY <3>3, <3>4 DEF SentSo
    <2>7. ClosedSo'
        <3>1. \A e \in Int : e % F = 0 => (e <= k /\ k - e < F <=> e = k)
            BY <1>2, <1>6, PacketEndsBefore
        <3>2. \A e \in DOMAIN heard' : e \in Int /\ e <= k
            BY <1>2
        <3>3. \A e \in DOMAIN heard' : Shut(e)' /\ k - e < F <=> Shut(e)' /\ e = k
            BY <3>1, <3>2 DEF Shut, Full
        <3>. QED  BY <1>2, <2>1, <2>2, <3>3 DEF ClosedSo
    <2>. QED  BY <2>6, <2>7
<1>. QED  BY <1>5, <1>6

(* The interface disturbs nothing of it, whatever it changes.              *)
LEMMA TalkStep ==
    ASSUME FramesPerPacket <= 2, TalkInv, [TalkNext]_talkVars PROVE TalkInv'
<1>1. ASSUME UNCHANGED tx, hang' \in Nat, switches' \in [Switch -> BOOLEAN] PROVE TalkInv'
    <2>1. UNCHANGED <<remaining, closed, seq, speaking, heard, packets, failed>>
        BY <1>1 DEF tx
    <2>2. TalkTypes'
        BY <1>1, <2>1 DEF TalkInv, TalkTypes
    <2>3. GateRuns' /\ GateAsMeant'
        BY <2>1 DEF TalkInv, GateRuns, LastActive, Left, GateAsMeant, Frames
    <2>4. ClosedSo' /\ SentSo'
        BY <2>1 DEF TalkInv, ClosedSo, SentSo, ToSend, Shut, Full, Ends
    <2>. QED  BY <2>2, <2>3, <2>4 DEF TalkInv
<1>2. hang \in Nat /\ switches \in [Switch -> BOOLEAN] /\ Hangs \subseteq Nat
    BY TalkAssumption DEF TalkInv, TalkTypes
<1>3. ASSUME NEW s \in Switch, Flip(s) PROVE TalkInv'
    BY <1>1, <1>2, <1>3 DEF Flip
<1>4. ASSUME NEW n \in Hangs, SetHang(n) PROVE TalkInv'
    BY <1>1, <1>2, <1>4 DEF SetHang
<1>5. ASSUME NEW level \in Levels, NEW voiced \in BOOLEAN, Frame(level, voiced) PROVE TalkInv'
    BY <1>5, GateStep, SentStep DEF TalkInv
<1>6. CASE UNCHANGED talkVars
    BY <1>1, <1>2, <1>6 DEF talkVars
<1>. QED  BY <1>3, <1>4, <1>5, <1>6 DEF TalkNext

(* What the code means by it follows.                                      *)
LEMMA MicrophoneHeld ==
    ASSUME FramesPerPacket <= 2, TalkInv PROVE Microphone
<1>0. /\ DOMAIN heard = 1 .. Len(heard) /\ Len(heard) \in Nat /\ FramesPerPacket \in {1, 2}
      /\ \A i \in DOMAIN heard : heard[i] \in HeardRecords
    BY PacketEnds DEF TalkInv, TalkTypes
<1>1. GateAsMeant
    BY DEF TalkInv
<1>2. MutedKeptBack
    <2>1. \A e \in Ends : heard[e].on
        BY DEF TalkInv, SentSo, ToSend
    <2>. QED  BY <2>1 DEF MutedKeptBack, WasSent
<1>3. SpeechSent
    <2>1. ASSUME NEW k \in Frames, k + 1 \in Frames, EndOf(k + 1) \in Frames,
                 \A j \in k .. EndOf(k + 1) : heard[j].on, heard[k].open, heard[k + 1].open
          PROVE  {EndOf(k), EndOf(k + 1)} \subseteq Ends \cup failed
        <3>1. k \in Nat \ {0} /\ k + 1 \in Nat \ {0} /\ k <= Len(heard) /\ k + 1 <= Len(heard)
              /\ EndOf(k + 1) <= Len(heard)
            BY <1>0, <2>1 DEF Frames
        <3>2. /\ EndOf(k) = (IF k % FramesPerPacket = 0 THEN k ELSE k + 1)
              /\ EndOf(k + 1) = (IF (k + 1) % FramesPerPacket = 0 THEN k + 1 ELSE k + 2)
              /\ EndOf(k) % FramesPerPacket = 0 /\ EndOf(k + 1) % FramesPerPacket = 0
            <4>1. k + 1 + 1 = k + 2
                BY <3>1
            <4>. QED  BY <3>1, <4>1, PacketEnds
        <3>3. Full(EndOf(k)) /\ Full(EndOf(k + 1))
            BY <1>0, <2>1, <3>1, <3>2 DEF Full, Frames
        <3>4. ToSend(EndOf(k))
            BY <1>0, <2>1, <3>1, <3>2 DEF ToSend
        <3>5. ToSend(EndOf(k + 1))
            <4>1. CASE EndOf(k + 1) = k + 1
                BY <1>0, <2>1, <3>1, <4>1 DEF ToSend
            <4>2. CASE EndOf(k + 1) = k + 2
                <5>1. FramesPerPacket = 2
                    <6>1. FramesPerPacket = 1 => (k + 1) % FramesPerPacket = 0
                        BY <3>1
                    <6>2. k + 1 # k + 2
                        BY <3>1
                    <6>. QED  BY <1>0, <3>2, <4>2, <6>1, <6>2
                <5>2. EndOf(k + 1) - FramesPerPacket = k
                    BY <3>1, <4>2, <5>1
                <5>3. heard[EndOf(k + 1)].on
                    BY <2>1, <3>1, <4>2
                <5>. QED  BY <2>1, <5>2, <5>3 DEF ToSend, Shut
            <4>. QED  BY <3>2, <4>1, <4>2
        <3>. QED  BY <3>3, <3>4, <3>5 DEF TalkInv, SentSo, Full
    <2>. QED  BY <2>1 DEF SpeechSent
<1>4. OneToClose
    <2>1. ASSUME NEW a \in Ends, NEW b \in Ends, a < b, ~heard[a].open, ~heard[b].open
          PROVE  \E e \in (a + 1) .. (b - 1) :
                    e % FramesPerPacket = 0 /\ (heard[e].open \/ ~heard[e].on)
        <3>1. Full(a) /\ Full(b) /\ heard[a].on /\ ~Shut(b - FramesPerPacket)
            BY <2>1 DEF TalkInv, SentSo, ToSend
        <3>2. a \in Nat \ {0} /\ b \in Nat /\ b <= Len(heard) /\ a % FramesPerPacket = 0 /\ b % FramesPerPacket = 0
            BY <1>0, <3>1 DEF Full
        <3>3. a <= b - FramesPerPacket /\ (b - FramesPerPacket) % FramesPerPacket = 0
            <4>1. CASE FramesPerPacket = 1
                BY <2>1, <3>2, <4>1
            <4>2. CASE FramesPerPacket = 2
                BY <2>1, <3>2, <4>2
            <4>. QED  BY <1>0, <4>1, <4>2
        <3>4. a # b - FramesPerPacket
            BY <2>1, <3>1 DEF Shut
        <3>. DEFINE e == b - FramesPerPacket
        <3>5. e \in (a + 1) .. (b - 1) /\ e \in DOMAIN heard
            BY <1>0, <3>2, <3>3, <3>4
        <3>6. heard[e].open \/ ~heard[e].on
            BY <3>1, <3>3, <3>5 DEF Shut, Full
        <3>. QED  BY <3>3, <3>5, <3>6
    <2>. QED  BY <2>1 DEF OneToClose
<1>. QED  BY <1>1, <1>2, <1>3, <1>4 DEF Microphone

(* The gate is open from each active frame until the hang time set then    *)
(* has passed; nothing from while the microphone was off is sent but the   *)
(* first part of the packet during which it went on; speech is sent whole; *)
(* and a pause costs one packet.  With more than two frames to a packet    *)
(* the third would not hold: speech in the first of a packet that ends     *)
(* with the gate shut, after another that did, is kept back.               *)
(* (run_tx, Gate::step, VOICE_FRAME_SAMPLES)                               *)
THEOREM VoiceMicrophone ==
    ASSUME FramesPerPacket <= 2
    PROVE  MCSpec => []Microphone
<1>1. MCInit => TalkInv
    BY TalkStart DEF MCInit
<1>2. TalkInv /\ [MCNext]_allVars => TalkInv'
    <2>1. [MCNext]_allVars => [TalkNext]_talkVars
        BY DEF MCNext, allVars
    <2>. QED  BY <2>1, TalkStep
<1>3. TalkInv => Microphone
    BY MicrophoneHeld
<1>. QED  BY <1>1, <1>2, <1>3, PTL DEF MCSpec

----------------------------------------------------------------------------
(* Together.                                                               *)

LEMMA HeldStart == MCInit => LineInv /\ OutputInv /\ ViewInv /\ IndicatorsInv
BY LineStart, OutputStart, ViewStart, IndicatorsStart DEF MCInit

\* One part runs and the others rest.
LEMMA HeldStep ==
    ASSUME LineInv, OutputInv, ViewInv, IndicatorsInv, [MCNext]_allVars
    PROVE  LineInv' /\ OutputInv' /\ ViewInv' /\ IndicatorsInv'
<1>1. /\ [LineNext]_lineVars /\ [OutputNext]_outputVars
      /\ [ViewNext]_viewVars /\ [IndicatorsNext]_indicatorVars
    BY DEF MCNext, allVars
<1>. QED  BY <1>1, LineStep, OutputStep, ViewStep, IndicatorsStep

(* The devices and threads a client holds are those of one session; the    *)
(* device is never short of a frame, whatever its rate and the buffers it  *)
(* asks; a picture on the screen is that person's and of the share that    *)
(* goes on; and who is shown as typing or speaking did so just now, and    *)
(* who types is shown. (VoiceSession, fill, poll_screen, State)            *)
THEOREM VoiceHeldAndShown == MCSpec => []HeldAndShown
<1>1. MCInit => LineInv /\ OutputInv /\ ViewInv /\ IndicatorsInv
    BY HeldStart
<1>2. LineInv /\ OutputInv /\ ViewInv /\ IndicatorsInv /\ [MCNext]_allVars =>
        (LineInv /\ OutputInv /\ ViewInv /\ IndicatorsInv)'
    BY HeldStep
<1>3. LineInv /\ OutputInv /\ ViewInv /\ IndicatorsInv => HeldAndShown
    BY OneLineHeld, NeverShortHeld, NamedRightlyHeld, ShownInTimeHeld DEF HeldAndShown
<1>. QED  BY <1>1, <1>2, <1>3, PTL DEF MCSpec

=============================================================================

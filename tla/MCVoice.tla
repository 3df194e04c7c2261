------------------------------ MODULE MCVoice ------------------------------
(* Small instances, for TLC, of the parts of a call at one client.  They   *)
(* share no state: in each behaviour one of them runs and the others rest. *)
EXTENDS Voice, Talk, Ring, Line, Output, View, Indicators

CONSTANTS bob, bobTalks, bobShows, me

VARIABLE part

\* Bob's voice and the sound of his share, both there before this client.
MCOwner == [s \in Streams |-> bob]
\* The numbers of the voice are about to wrap.
MCSent == [s \in Streams |-> IF s = bobTalks THEN 13 ELSE 2]
MCPackets == [s \in Streams |-> IF s = bobTalks THEN 3 ELSE 1]
MCChosen == [u \in Users |-> "low"]
\* One packet is broken.
MCSpoilt == {<<bobShows, 0, 3>>}

Unused == (\A s \in Switch : ~switches[s]) /\ \A n \in Hangs : hang <= n

Parted == {"hear", "speak", "ring", "line", "output", "view", "indicators"}

MCInit ==
    /\ VoiceInit /\ TalkInit /\ Init /\ LineInit /\ OutputInit /\ ViewInit /\ IndicatorsInit
    /\ part \in Parted
    /\ part # "speak" => Unused
    /\ part # "output" => rate = MixRate

MCNext ==
    \/ /\ part = "hear" /\ VoiceNext
       /\ UNCHANGED <<part, talkVars, vars, lineVars, outputVars, viewVars, indicatorVars>>
    \/ /\ part = "speak" /\ TalkNext
       /\ UNCHANGED <<part, voiceVars, vars, lineVars, outputVars, viewVars, indicatorVars>>
    \/ /\ part = "ring" /\ Next
       /\ UNCHANGED <<part, voiceVars, talkVars, lineVars, outputVars, viewVars, indicatorVars>>
    \/ /\ part = "line" /\ LineNext
       /\ UNCHANGED <<part, voiceVars, talkVars, vars, outputVars, viewVars, indicatorVars>>
    \/ /\ part = "output" /\ OutputNext
       /\ UNCHANGED <<part, voiceVars, talkVars, vars, lineVars, viewVars, indicatorVars>>
    \/ /\ part = "view" /\ ViewNext
       /\ UNCHANGED <<part, voiceVars, talkVars, vars, lineVars, outputVars, indicatorVars>>
    \/ /\ part = "indicators" /\ IndicatorsNext
       /\ UNCHANGED <<part, voiceVars, talkVars, vars, lineVars, outputVars, viewVars>>

allVars == <<part, voiceVars, talkVars, vars, lineVars, outputVars, viewVars, indicatorVars>>

MCSpec == MCInit /\ [][MCNext]_allVars

(* What a client holds of the devices is one session's; what it plays has  *)
(* no gap; and what it shows of others is theirs and of now.               *)
(* (VoiceSession, fill, poll_screen, State)                                *)
HeldAndShown == OneLine /\ NeverShort /\ NamedRightly /\ ShownInTime

============================================================================

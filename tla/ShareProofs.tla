----------------------------- MODULE ShareProofs -----------------------------
(***************************************************************************)
(* What holds of the parts of a share, for any sizes, rates, depths and    *)
(* bounds: nothing of a share outlives it, no burst goes out, the rate     *)
(* follows the governor, what is decoded is accounted for, and the oldest  *)
(* picture is the one given up.                                            *)
(*                                                                         *)
(* Each part has an inductive invariant of its own.  PicturesInv says what *)
(* may lie in the assembler and in the queue; ClockInv, beside it, that    *)
(* there is a time at which each picture was sent, from which its wrapped  *)
(* timestamp comes, and that no picture that builds is later than the      *)
(* newest seen.                                                            *)
(***************************************************************************)
EXTENDS MCShare, FiniteSetTheorems, WellFoundedInduction, TLAPS

----------------------------------------------------------------------------
(* What is left of a share.                                                *)

Phases == {"idle", "capture", "capture with sound", "start sound", "start picture", "on",
           "end sound", "join sound", "end picture", "join picture", "end heart",
           "end sound after failing", "join sound after failing"}

EngineTypes ==
    /\ engine \in {"ffmpeg", "native"} /\ phase \in Phases
    /\ child \in [Parts -> {"none", "runs", "dead"}]
    /\ thread \in [Parts -> {"none", "waits", "works", "ended"}]
    /\ stop \in [Parts -> BOOLEAN]

\* The child of part p is dead, and its thread over too.
PartDead(p) == child[p] = "runs" => p \in unspawned
PartOver(p) == PartDead(p) /\ thread[p] \in {"none", "ended"}

\* How far the interface's thread has got with starting and ending.
Staged ==
    /\ phase = "idle" => heartbeat # "works" /\ (capture = "runs" => "heart" \in unspawned)
    /\ phase \in {"capture", "capture with sound"} =>
          engine = "native" /\ capture = "none" /\ heartbeat = "none"
    /\ phase = "end heart" => engine = "native"
    /\ phase \in {"idle", "capture", "capture with sound", "start sound", "end heart"} =>
          PartOver("sound") /\ PartOver("picture")
    /\ phase \in {"start picture", "end sound after failing", "join sound after failing"} =>
          PartOver("picture")
    /\ phase \in {"join sound", "join sound after failing"} => PartDead("sound")
    /\ phase \in {"end picture", "join picture"} => PartOver("sound")
    /\ phase = "join picture" => PartDead("picture")

\* Only the native engine has a stream.
OwnStream == engine = "ffmpeg" => capture # "runs" /\ heartbeat # "works"

EngineInv == EngineTypes /\ Staged /\ OwnStream

(* Nothing runs at first.                                                  *)
LEMMA EngineStart == EngineInit => EngineInv
BY DEF EngineInit, EngineInv, EngineTypes, Staged, OwnStream, Phases, PartOver, PartDead, Parts, Without

(* The interface's thread goes a step on in starting a share.              *)
LEMMA StartingKeeps ==
    ASSUME EngineInv, Starting \/ \E e \in {"ffmpeg", "native"}, aloud \in BOOLEAN : StartShare(e, aloud)
    PROVE  EngineInv'
<1>1. ASSUME NEW e \in {"ffmpeg", "native"}, NEW aloud \in BOOLEAN, StartShare(e, aloud)
      PROVE  EngineInv'
    BY <1>1 DEF StartShare, EngineInv, EngineTypes, Staged, OwnStream, Phases, PartOver, PartDead, Parts, Without
<1>2. CASE StartCapture
    BY <1>2 DEF StartCapture, EngineInv, EngineTypes, Staged, OwnStream, Phases, PartOver, PartDead, Parts
<1>3. CASE StartSound
    BY <1>3 DEF StartSound, Spawned, ThreadFails, NothingSpawned, EngineInv, EngineTypes, Staged, OwnStream,
                Phases, PartOver, PartDead, Parts
<1>4. CASE StartPicture
    BY <1>4 DEF StartPicture, Spawned, ThreadFails, NothingSpawned, EngineInv, EngineTypes, Staged, OwnStream,
                Phases, PartOver, PartDead, Parts
<1>. QED  BY <1>1, <1>2, <1>3, <1>4 DEF Starting

(* And in ending one.                                                      *)
LEMMA EndingKeeps == ASSUME EngineInv, Ending \/ DropShare PROVE EngineInv'
<1>1. CASE DropShare
    BY <1>1 DEF DropShare, EngineInv, EngineTypes, Staged, OwnStream, Phases, PartOver, PartDead, Parts
<1>2. CASE EndSound
    BY <1>2 DEF EndSound, Killed, EngineInv, EngineTypes, Staged, OwnStream, Phases, PartOver, PartDead, Parts
<1>3. CASE JoinSound
    BY <1>3 DEF JoinSound, Joined, EngineInv, EngineTypes, Staged, OwnStream, Phases, PartOver, PartDead, Parts
<1>4. CASE EndPicture
    BY <1>4 DEF EndPicture, Killed, EngineInv, EngineTypes, Staged, OwnStream, Phases, PartOver, PartDead, Parts
<1>5. CASE JoinPicture
    BY <1>5 DEF JoinPicture, Joined, EngineInv, EngineTypes, Staged, OwnStream, Phases, PartOver, PartDead, Parts
<1>6. CASE EndHeart
    BY <1>6 DEF EndHeart, EngineInv, EngineTypes, Staged, OwnStream, Phases, PartOver, PartDead, Parts
<1>7. CASE StopStream
    BY <1>7 DEF StopStream, EngineInv, EngineTypes, Staged, OwnStream, Phases, PartOver, PartDead, Parts
<1>. QED  BY <1>1, <1>2, <1>3, <1>4, <1>5, <1>6, <1>7 DEF Ending

(* What children and threads do takes nothing back.                        *)
LEMMA RunningKeeps ==
    ASSUME EngineInv, NEW p \in Parts, Produce(p) \/ ChildDies(p) \/ Receive(p) \/ Work(p)
    PROVE  EngineInv'
<1>1. CASE Produce(p)
    BY <1>1 DEF Produce, EngineInv, EngineTypes, Staged, OwnStream, PartOver, PartDead, Parts
<1>2. CASE ChildDies(p)
    BY <1>2 DEF ChildDies, EngineInv, EngineTypes, Staged, OwnStream, PartOver, PartDead, Parts
<1>3. CASE Receive(p)
    <2>1. PICK then \in {"works", "ended"} : thread' = [thread EXCEPT ![p] = then]
        BY <1>3 DEF Receive
    <2>2. thread[p] = "waits" /\ UNCHANGED <<engine, phase, child, stop, capture, heartbeat, unspawned>>
        BY <1>3 DEF Receive
    <2>. QED  BY <2>1, <2>2 DEF EngineInv, EngineTypes, Staged, OwnStream, PartOver, PartDead, Parts
<1>4. CASE Work(p)
    BY <1>4 DEF Work, EngineInv, EngineTypes, Staged, OwnStream, PartOver, PartDead, Parts
<1>. QED  BY <1>1, <1>2, <1>3, <1>4

(* Every step keeps it.                                                    *)
LEMMA EngineStep == ASSUME EngineInv, [EngineNext]_engineVars PROVE EngineInv'
<1>1. CASE UNCHANGED engineVars
    BY <1>1 DEF engineVars, EngineInv, EngineTypes, Staged, OwnStream, PartOver, PartDead
<1>. QED  BY <1>1, StartingKeeps, EndingKeeps, RunningKeeps DEF EngineNext

(* And it says what NothingRunsOn asks.                                    *)
LEMMA NothingLeft == EngineInv => NothingRunsOn
BY DEF EngineInv, EngineTypes, Staged, NothingRunsOn, PartOver, PartDead, Parts

----------------------------------------------------------------------------
(* What leaves in a burst.                                                 *)

Ahead == IF due > 0 THEN due ELSE 0

\* What lies in the buffer is what the pacer still means to wait for, but for the
\* last sleep, which may have taken longer than asked.
PacerInv ==
    /\ due \in Int /\ perByte \in Nat /\ charge \in Nat /\ backlog \in Nat
    /\ backlog <= Ahead + MaxLate
    /\ NoBurst

(* MaxLate is the longest of the late sleeps.                              *)
LEMMA LongestLate == MaxLate \in Nat /\ \A late \in Lates : late \in Nat /\ late <= MaxLate
<1>1. \E late \in Lates : \A other \in Lates : other <= late
    BY PacerAssumption
<1>2. MaxLate \in Lates /\ \A other \in Lates : other <= MaxLate
    BY <1>1 DEF MaxLate
<1>. QED  BY <1>2, PacerAssumption

(* The time of a byte is a number, at any rate.                            *)
LEMMA BytesCost == ASSUME NEW k \in Nat PROVE PerByte(k) \in Nat
<1>1. Larger(k * 3, 6000) \in Nat \ {0}
    BY DEF Larger
<1>2. ASSUME NEW m \in Nat \ {0} PROVE 16000000 \div m \in Nat
    OBVIOUS
<1>. QED  BY <1>1, <1>2 DEF PerByte, Larger

(* What is left in the buffer before a datagram bounds what is in it after. *)
LEMMA Charged ==
    ASSUME NEW left \in Nat, NEW c \in Nat, NEW ahead \in Nat, NEW slept \in Nat,
           NEW skipped \in Nat, NEW late \in Nat,
           left <= skipped + late, left <= ahead - slept + late
    PROVE  /\ left + c <= c + skipped + late /\ left + c <= (ahead + c - slept) + late
           /\ ahead + c - slept \in Int /\ left + c \in Nat
OBVIOUS

(* What is waited for is never less than nothing.                          *)
LEMMA Overdue ==
    ASSUME NEW b \in Nat, NEW d \in Int, NEW late \in Nat, b <= d + late
    PROVE  b <= (IF d > 0 THEN d ELSE 0) + late
OBVIOUS

(* The pacer starts with nothing ahead.                                    *)
LEMMA PacerStart == PacerInit => PacerInv
BY LongestLate, BytesCost, PacerAssumption DEF PacerInit, PacerInv, NoBurst, Skipped, Ahead

(* A pause drains the buffer no less than it uses up the wait; a datagram  *)
(* adds as much to both.                                                   *)
LEMMA PacerStep == ASSUME PacerInv, [PacerNext]_pacerVars PROVE PacerInv'
<1>0. due \in Int /\ perByte \in Nat /\ charge \in Nat /\ backlog \in Nat
      /\ backlog <= Ahead + MaxLate /\ backlog <= charge + Skipped + MaxLate
      /\ MaxLate \in Nat /\ Skipped \in Nat /\ Ahead = (IF due > 0 THEN due ELSE 0)
    BY LongestLate DEF PacerInv, NoBurst, Ahead, Skipped
<1>00. Ahead \in Nat /\ (due > 0 => Ahead = due) /\ (~(due > 0) => Ahead = 0)
    BY <1>0
<1>1. ASSUME NEW d \in Pauses, NEW k \in Rates, NextPicture(d, k) PROVE PacerInv'
    <2>1. d \in Nat /\ k \in Nat /\ MaxIdle \in Nat
        BY PacerAssumption
    <2>2. /\ perByte' \in Nat /\ charge' = charge
          /\ due' = (IF due - d < -MaxIdle THEN -MaxIdle ELSE due - d)
          /\ backlog' = (IF backlog - d < 0 THEN 0 ELSE backlog - d)
        BY <1>1, <2>1, BytesCost DEF NextPicture, Larger
    <2>. QED  BY <1>0, <2>1, <2>2 DEF PacerInv, NoBurst, Ahead
<1>2. ASSUME NEW bytes \in Datagrams, TakeTurn(bytes) PROVE PacerInv'
    <2>1. PICK late \in Lates :
            LET slept == IF due > Skipped THEN due + late ELSE 0 IN
            /\ charge' = perByte * bytes
            /\ due' = StartFrom(due) + charge' - slept
            /\ backlog' = Larger(backlog - slept, 0) + charge'
            /\ UNCHANGED perByte
        BY <1>2 DEF TakeTurn
    <2>2. late \in Nat /\ late <= MaxLate /\ bytes \in Nat
        BY LongestLate, PacerAssumption
    <2>3. charge' \in Nat
        <3>1. \A a, b \in Nat : a * b \in Nat
            OBVIOUS
        <3>. QED  BY <1>0, <2>1, <2>2, <3>1
    <2>4. StartFrom(due) = Ahead
        BY <1>0 DEF StartFrom, Larger
    <2>5. PICK slept : /\ slept \in Nat /\ slept = (IF due > Skipped THEN due + late ELSE 0)
                       /\ due' = Ahead + charge' - slept
                       /\ backlog' = Larger(backlog - slept, 0) + charge'
        <3>1. (IF due > Skipped THEN due + late ELSE 0) \in Nat
            BY <1>0, <2>2
        <3>. QED  BY <2>1, <2>4, <3>1
    <2>6. PICK left : /\ left \in Nat /\ (left = 0 \/ left = backlog - slept)
                      /\ backlog' = left + charge'
        <3>1. Larger(backlog - slept, 0) \in Nat
              /\ (Larger(backlog - slept, 0) = 0 \/ Larger(backlog - slept, 0) = backlog - slept)
            BY <1>0, <2>5 DEF Larger
        <3>. QED  BY <2>5, <3>1
    <2>7. left <= Skipped + MaxLate /\ left <= Ahead - slept + MaxLate
        BY <1>0, <1>00, <2>2, <2>5, <2>6
    <2>8. PICK c : c \in Nat /\ c = charge'
        BY <2>3
    <2>9. /\ due' \in Int /\ backlog' \in Nat /\ backlog' <= c + Skipped + MaxLate
          /\ backlog' <= due' + MaxLate
        <3>1. due' = Ahead + c - slept /\ backlog' = left + c
            BY <2>5, <2>6, <2>8
        <3>2. left + c <= c + Skipped + MaxLate /\ left + c <= Ahead + c - slept + MaxLate
              /\ Ahead + c - slept \in Int /\ left + c \in Nat
            <4>1. left \in Nat /\ c \in Nat /\ Ahead \in Nat /\ slept \in Nat /\ Skipped \in Nat /\ MaxLate \in Nat
                BY <1>0, <1>00, <2>5, <2>6, <2>8
            <4>. QED  BY <2>7, <4>1, Charged
        <3>. QED  BY <3>1, <3>2
    <2>10. backlog' <= Ahead' + MaxLate
        <3>1. Ahead' = (IF due' > 0 THEN due' ELSE 0)
            BY DEF Ahead
        <3>2. backlog' <= (IF due' > 0 THEN due' ELSE 0) + MaxLate
            BY <1>0, <2>9, Overdue
        <3>. QED  BY <3>1, <3>2
    <2>. QED  BY <1>0, <2>1, <2>3, <2>8, <2>9, <2>10 DEF PacerInv, NoBurst
<1>3. CASE UNCHANGED pacerVars
    BY <1>3 DEF pacerVars, PacerInv, NoBurst, Ahead
<1>. QED  BY <1>1, <1>2, <1>3 DEF PacerNext

----------------------------------------------------------------------------
(* The rate.                                                               *)

Governors == [ceiling : Nat, target : Nat, worst : Nat, key : BOOLEAN]
Reports == [received : Nat, lost : Nat, want_keyframe : BOOLEAN]

Watches == [who : {"none", "this", "other"}, frames : Nat, incomplete : Nat, started : BOOLEAN]

SteerTypes ==
    /\ governor \in Governors /\ kbps \in Nat /\ rate \in Nat /\ turns \in Nat
    /\ watch \in [Viewers -> Watches] /\ at \in [Viewers -> Nat \X Nat]
    /\ mail \in [Viewers -> Reports \cup {None}]

\* The governor has heard of the worst.
WorstHeard == \A loss \in heard : loss \in Nat /\ loss <= governor.worst

\* What the encoder runs at, t being settled on and c the most: t itself, or what
\* it was before the last step up to c; or t is the floor, and was close to it.
NotWorth(t, r, c) ==
    \/ r = t
    \/ t = c /\ r <= c /\ (c - r) * 20 <= r
    \/ t = Floor /\ Floor <= r /\ (r - Floor) * 20 <= r

Settled ==
    IF kbps >= Floor
    THEN /\ governor.ceiling = kbps /\ Floor <= governor.target /\ governor.target <= kbps
         /\ Floor <= rate /\ rate <= kbps
         /\ NotWorth(governor.target, rate, kbps)
    ELSE governor.ceiling = Floor /\ governor.target = Floor /\ rate = kbps

SteerInv == SteerTypes /\ WorstHeard /\ Settled

(* A share begins at what the user asked for.                              *)
LEMMA AskedFor ==
    ASSUME NEW k \in Nat, kbps' = k, governor' = NewGovernor(k), rate' = k PROVE Settled'
<1>1. governor'.ceiling = AtLeast(k, Floor) /\ governor'.target = AtLeast(k, Floor)
    BY DEF NewGovernor
<1>2. AtLeast(k, Floor) = IF k >= Floor THEN k ELSE Floor
    BY DEF AtLeast, Floor
<1>. QED  BY <1>1, <1>2 DEF Settled, NotWorth

\* A step of the governor, of t as the rate settled on and c as the most.
Steered(worst, t, c) ==
    CASE worst >= TooMuch -> AtLeast((t * 7) \div 10, Floor)
      [] worst <= Comfortable -> AtMost(t + t \div 20 + 1, c)
      [] OTHER -> t

(* The governor stays between the floor and the most; and a step not worth *)
(* telling of is one that ends at one of them, or none.                    *)
LEMMA StepOf ==
    ASSUME NEW worst \in Nat, NEW t \in Nat, NEW c \in Nat, Floor <= t, t <= c
    PROVE  LET u == Steered(worst, t, c) IN
           /\ u \in Nat /\ Floor <= u /\ u <= c
           /\ ~Changed(t, u) => \/ u = t
                                \/ u = c /\ t <= c /\ (c - t) * 20 <= t
                                \/ u = Floor /\ (t - Floor) * 20 <= t
           /\ worst >= TooMuch => u = Floor \/ (u * 10 <= t * 7)
<1>. DEFINE u == Steered(worst, t, c)
<1>1. CASE worst >= TooMuch
    <2>1. u = IF (t * 7) \div 10 < Floor THEN Floor ELSE (t * 7) \div 10
        BY <1>1 DEF Steered, AtLeast, TooMuch, Comfortable
    <2>2. (t * 7) \div 10 \in Nat /\ ((t * 7) \div 10) * 10 <= t * 7
        OBVIOUS
    <2>3. u \in Nat /\ Floor <= u /\ u <= c /\ (u = Floor \/ u * 10 <= t * 7) /\ u <= t
        BY <2>1, <2>2 DEF Floor
    <2>4. ~Changed(t, u) => (t - u) * 20 <= t
        BY <2>3 DEF Changed, AtLeast
    <2>5. ~Changed(t, u) => u = Floor /\ (t - Floor) * 20 <= t
        BY <2>3, <2>4 DEF Floor
    <2>. QED  BY <2>3, <2>5
<1>2. CASE worst <= Comfortable
    <2>1. u = IF t + t \div 20 + 1 < c THEN t + t \div 20 + 1 ELSE c
        BY <1>2 DEF Steered, AtMost, TooMuch, Comfortable
    <2>2. t \div 20 \in Nat /\ (t \div 20 + 1) * 20 > t
        OBVIOUS
    <2>3. u \in Nat /\ Floor <= u /\ u <= c /\ t <= u
        BY <2>1, <2>2 DEF Floor
    <2>4. ~Changed(t, u) => (u - t) * 20 <= t
        BY <2>3 DEF Changed, AtLeast
    <2>5. ~Changed(t, u) => u = c /\ (c - t) * 20 <= t
        BY <2>1, <2>2, <2>4
    <2>6. ~(worst >= TooMuch)
        BY <1>2 DEF TooMuch, Comfortable
    <2>. QED  BY <2>3, <2>5, <2>6
<1>3. CASE ~(worst >= TooMuch) /\ ~(worst <= Comfortable)
    <2>1. u = t
        BY <1>3 DEF Steered
    <2>. QED  BY <1>3, <2>1
<1>. QED  BY <1>1, <1>2, <1>3

(* Whatever steps too small to tell of follow one another.                 *)
LEMMA NeverWorth ==
    ASSUME NEW t \in Nat, NEW u \in Nat, NEW r \in Nat, NEW c \in Nat,
           Floor <= t, t <= c, Floor <= r, r <= c, NotWorth(t, r, c),
           \/ u = t
           \/ u = c /\ (c - t) * 20 <= t
           \/ u = Floor /\ (t - Floor) * 20 <= t
    PROVE  NotWorth(u, r, c)
<1>1. CASE u = t
    BY <1>1
<1>2. CASE u = c /\ (c - t) * 20 <= t
    BY <1>2 DEF NotWorth, Floor
<1>3. CASE u = Floor /\ (t - Floor) * 20 <= t
    BY <1>3 DEF NotWorth, Floor
<1>. QED  BY <1>1, <1>2, <1>3

(* A decision.                                                             *)
LEMMA DecideKeeps ==
    ASSUME SteerInv, Decide
    PROVE  /\ SteerInv'
           /\ governor.worst >= TooMuch => rate' < rate \/ (rate' - Floor) * 20 <= rate'
<1>. DEFINE t == governor.target
            c == governor.ceiling
            u == Target(governor)
<1>0. governor \in Governors /\ kbps \in Nat /\ rate \in Nat /\ t \in Nat /\ c \in Nat
      /\ governor.worst \in Nat /\ Floor = 400 /\ Floor <= t /\ t <= c
    BY DEF SteerInv, SteerTypes, Settled, Governors, Floor
<1>1. u = Steered(governor.worst, t, c)
    BY DEF Target, Steered
<1>2. /\ u \in Nat /\ Floor <= u /\ u <= c
      /\ ~Changed(t, u) => \/ u = t
                           \/ u = c /\ t <= c /\ (c - t) * 20 <= t
                           \/ u = Floor /\ (t - Floor) * 20 <= t
      /\ governor.worst >= TooMuch => u = Floor \/ (u * 10 <= t * 7)
    <2>1. Floor <= t /\ t <= c /\ t \in Nat /\ c \in Nat /\ governor.worst \in Nat
        BY <1>0
    <2>. HIDE DEF t, c, u
    <2>2. u = Steered(governor.worst, t, c)
        BY <1>1
    <2>. QED  BY <2>1, <2>2, StepOf
<1>3. /\ rate' = IF Changed(t, u) THEN u ELSE rate
      /\ governor' = [governor EXCEPT !.target = u, !.worst = 0, !.key = FALSE]
      /\ heard' = {} /\ kbps' = kbps /\ UNCHANGED <<viewer, mail, turns>>
    BY DEF Decide
<1>. HIDE DEF u
<1>4. governor' \in Governors /\ governor'.target = u /\ governor'.ceiling = c /\ governor'.worst = 0
    <2>1. governor \in Governors /\ u \in Nat /\ c = governor.ceiling
        BY <1>0, <1>2
    <2>2. governor' = [governor EXCEPT !.target = u, !.worst = 0, !.key = FALSE]
        BY <1>3
    <2>. HIDE DEF c
    <2>. QED  BY <2>1, <2>2 DEF Governors
<1>5. SteerTypes' /\ WorstHeard'
    <2>0. rate' = u \/ rate' = rate
        BY <1>3
    <2>1. governor' \in Governors /\ rate' \in Nat /\ kbps' \in Nat
        BY <1>0, <1>2, <1>3, <1>4, <2>0
    <2>2. turns' = turns /\ watch' = watch /\ at' = at /\ mail' = mail
        BY <1>3 DEF viewer
    <2>3. SteerTypes'
        BY <2>1, <2>2 DEF SteerInv, SteerTypes
    <2>. QED  BY <1>3, <2>3 DEF WorstHeard
<1>6. CASE kbps >= Floor
    <2>1. c = kbps /\ t <= kbps /\ Floor <= rate /\ rate <= kbps /\ NotWorth(t, rate, kbps)
        BY <1>6 DEF SteerInv, Settled
    <2>2. CASE Changed(t, u)
        <3>1. rate' = u
            BY <1>3, <2>2
        <3>2. Settled'
            BY <1>2, <1>3, <1>4, <1>6, <2>1, <3>1 DEF Settled, NotWorth
        <3>3. u * 10 <= t * 7 => u < rate
            BY <1>0, <1>2, <2>1 DEF NotWorth
        <3>4. u = Floor => (u - Floor) * 20 <= u
            BY <1>0
        <3>. QED  BY <1>2, <1>5, <3>1, <3>2, <3>3, <3>4 DEF SteerInv
    <2>3. CASE ~Changed(t, u)
        <3>1. rate' = rate
            BY <1>3, <2>3
        <3>2. NotWorth(u, rate, kbps)
            BY <1>0, <1>2, <2>1, <2>3, NeverWorth
        <3>3. Settled'
            BY <1>2, <1>3, <1>4, <1>6, <2>1, <3>1, <3>2 DEF Settled
        <3>4. governor.worst >= TooMuch => u = Floor
            BY <1>0, <1>2, <2>3
        <3>5. governor.worst >= TooMuch => (t - Floor) * 20 <= t
            BY <1>0, <1>2, <2>3, <3>4
        <3>6. governor.worst >= TooMuch => (rate - Floor) * 20 <= rate
            BY <1>0, <2>1, <3>5 DEF NotWorth
        <3>. QED  BY <1>5, <3>1, <3>3, <3>6 DEF SteerInv
    <2>. QED  BY <2>2, <2>3
<1>7. CASE ~(kbps >= Floor)
    <2>1. c = Floor /\ t = Floor /\ rate = kbps
        BY <1>7 DEF SteerInv, Settled
    <2>2. u = Floor
        BY <1>0, <1>2, <2>1
    <2>3. rate' = rate
        BY <1>0, <1>3, <2>1, <2>2 DEF Changed, AtLeast
    <2>4. Settled'
        BY <1>3, <1>4, <1>7, <2>1, <2>2, <2>3 DEF Settled
    <2>5. (rate - Floor) * 20 <= rate
        BY <1>0, <1>7, <2>1
    <2>. QED  BY <1>5, <2>3, <2>4, <2>5 DEF SteerInv
<1>. QED  BY <1>6, <1>7

(* A report makes nothing better.                                          *)
LEMMA ReportedWorst ==
    ASSUME NEW g \in Governors, NEW r \in Reports
    PROVE  /\ Reported(g, r) \in Governors
           /\ Reported(g, r).target = g.target /\ Reported(g, r).ceiling = g.ceiling
           /\ Loss(r.received, r.lost) \in Nat
           /\ Loss(r.received, r.lost) <= Reported(g, r).worst /\ g.worst <= Reported(g, r).worst
<1>1. r.received \in Nat /\ r.lost \in Nat /\ r.want_keyframe \in BOOLEAN
    BY DEF Reports
<1>2. Loss(r.received, r.lost) \in Nat
    <2>1. ASSUME NEW a \in Nat, NEW b \in Nat \ {0} PROVE a \div b \in Nat
        BY <2>1
    <2>2. r.received + r.lost >= 5 => (r.lost * 100) \div (r.received + r.lost) \in Nat
        <3>1. r.lost * 100 \in Nat /\ r.received + r.lost \in Nat
            BY <1>1
        <3>2. r.received + r.lost >= 5 => r.received + r.lost \in Nat \ {0}
            BY <3>1
        <3>. QED  BY <2>1, <3>1, <3>2
    <2>. QED  BY <2>2 DEF Loss
<1>3. g.worst \in Nat /\ g.target \in Nat /\ g.ceiling \in Nat /\ g.key \in BOOLEAN
    BY DEF Governors
<1>. DEFINE w == Worst(g, Loss(r.received, r.lost))
<1>4. w \in Nat /\ Loss(r.received, r.lost) <= w /\ g.worst <= w
    BY <1>2, <1>3 DEF Worst, AtLeast
<1>5. Reported(g, r) = [g EXCEPT !.worst = w, !.key = g.key \/ r.want_keyframe]
    BY DEF Reported
<1>. HIDE DEF w
<1>. QED  BY <1>2, <1>3, <1>4, <1>5 DEF Governors

(* A share starts at what the user asked for, with nothing lost.           *)
LEMMA SteerStart == SteerInit => SteerInv
<1>. SUFFICES ASSUME SteerInit PROVE SteerInv
    OBVIOUS
<1>1. kbps \in Nat /\ governor = NewGovernor(kbps) /\ rate = kbps /\ heard = {}
    BY SteerAssumption DEF SteerInit
<1>2. governor.ceiling = AtLeast(kbps, Floor) /\ governor.target = AtLeast(kbps, Floor)
      /\ AtLeast(kbps, Floor) = (IF kbps >= Floor THEN kbps ELSE Floor)
      /\ AtLeast(kbps, Floor) \in Nat /\ governor \in Governors
    BY <1>1 DEF NewGovernor, AtLeast, Floor, Governors
<1>3. Settled
    BY <1>1, <1>2 DEF Settled, NotWorth
<1>4. SteerTypes
    <2>1. Unstarted("none") \in Watches
        BY DEF Unstarted, Watches
    <2>2. watch \in [Viewers -> Watches] /\ at \in [Viewers -> Nat \X Nat]
        BY <2>1 DEF SteerInit
    <2>. QED  BY <1>1, <1>2, <2>2 DEF SteerInit, SteerTypes
<1>. QED  BY <1>1, <1>3, <1>4 DEF SteerInv, WorstHeard

\* A step that leaves the governor, the rate and what it goes by alone.
Undisturbed == UNCHANGED <<governor, kbps, rate, heard>>

(* Reports, decisions, keyframes and changes of the setting keep it.       *)
LEMMA SteerStep == ASSUME SteerInv, [SteerNext]_steerVars PROVE SteerInv'
<1>0. SteerTypes /\ WorstHeard /\ Settled
    BY DEF SteerInv
<1>1. ASSUME Undisturbed, SteerTypes' PROVE SteerInv'
    BY <1>0, <1>1 DEF Undisturbed, SteerInv, WorstHeard, Settled
<1>2. CASE Decide
    BY <1>2, DecideKeeps
<1>3. ASSUME NEW k \in Settings, SettingsChanged(k) PROVE SteerInv'
    <2>1. k \in Nat
        BY SteerAssumption
    <2>2. kbps' = k /\ governor' = NewGovernor(k) /\ rate' = k /\ heard' = {}
          /\ turns' = turns + 1 /\ UNCHANGED <<viewer, mail>>
        BY <1>3 DEF SettingsChanged
    <2>3. NewGovernor(k) \in Governors
        BY <2>1 DEF NewGovernor, AtLeast, Floor, Governors
    <2>4. SteerTypes'
        BY <1>0, <2>1, <2>2, <2>3 DEF SteerTypes, viewer
    <2>. QED  BY <2>1, <2>2, <2>4, AskedFor DEF SteerInv, WorstHeard
<1>4. CASE Keyframe
    <2>1. Undisturbed /\ UNCHANGED <<at, mail, turns>>
        BY <1>4 DEF Keyframe, Undisturbed
    <2>2. PICK S : watch' = [v \in Viewers |-> IF v \in S THEN [watch[v] EXCEPT !.started = TRUE] ELSE watch[v]]
        BY <1>4 DEF Keyframe
    <2>3. ASSUME NEW v \in Viewers PROVE [watch[v] EXCEPT !.started = TRUE] \in Watches
        BY <1>0 DEF SteerTypes, Watches
    <2>4. watch' \in [Viewers -> Watches]
        BY <1>0, <2>2, <2>3 DEF SteerTypes
    <2>5. SteerTypes'
        BY <1>0, <2>1, <2>4 DEF SteerTypes, Undisturbed
    <2>. QED  BY <1>1, <2>1, <2>5
<1>5. ASSUME NEW v \in Viewers, NEW who \in {"this", "other"}, Watch(v, who) PROVE SteerInv'
    <2>1. Unstarted(who) \in Watches
        BY DEF Unstarted, Watches
    <2>2. SteerTypes'
        BY <1>0, <1>5, <2>1 DEF Watch, SteerTypes
    <2>. QED  BY <1>1, <1>5, <2>2 DEF Watch, Undisturbed
<1>6. ASSUME NEW v \in Viewers, Unwatch(v) PROVE SteerInv'
    <2>1. Unstarted("none") \in Watches
        BY DEF Unstarted, Watches
    <2>2. SteerTypes'
        BY <1>0, <1>6, <2>1 DEF Unwatch, SteerTypes
    <2>. QED  BY <1>1, <1>6, <2>2 DEF Unwatch, Undisturbed
<1>7. ASSUME NEW v \in Viewers, Break(v) PROVE SteerInv'
    <2>1. [watch[v] EXCEPT !.started = FALSE] \in Watches
        BY <1>0 DEF SteerTypes, Watches
    <2>2. watch' = [watch EXCEPT ![v] = [watch[v] EXCEPT !.started = FALSE]]
        BY <1>7 DEF Break
    <2>3. SteerTypes'
        BY <1>0, <1>7, <2>1, <2>2 DEF Break, SteerTypes
    <2>. QED  BY <1>1, <1>7, <2>3 DEF Break, Undisturbed
<1>8. ASSUME NEW v \in Viewers, ReportQuality(v) PROVE SteerInv'
    <2>. DEFINE w == watch[v]
                report == [received |-> Beyond(w.frames, at[v][1]), lost |-> Beyond(w.incomplete, at[v][2]),
                           want_keyframe |-> ~w.started]
    <2>1. w \in Watches /\ at[v] \in Nat \X Nat
        BY <1>0 DEF SteerTypes
    <2>2. report \in Reports /\ <<w.frames, w.incomplete>> \in Nat \X Nat
        BY <2>1 DEF Watches, Reports, Beyond, AtLeast
    <2>3. /\ at' = [at EXCEPT ![v] = <<w.frames, w.incomplete>>]
          /\ mail' = mail \/ mail' = [mail EXCEPT ![v] = report]
        BY <1>8 DEF ReportQuality
    <2>. HIDE DEF report, w
    <2>4. SteerTypes'
        BY <1>0, <1>8, <2>2, <2>3 DEF ReportQuality, SteerTypes
    <2>. QED  BY <1>1, <1>8, <2>4 DEF ReportQuality, Undisturbed
<1>9. ASSUME NEW v \in Viewers, NEW s \in Seconds, Arrive(v, s) PROVE SteerInv'
    <2>. DEFINE w == [watch[v] EXCEPT !.frames = watch[v].frames + s[1],
                                      !.incomplete = watch[v].incomplete + s[2]]
    <2>1. s[1] \in Nat /\ s[2] \in Nat
        BY SteerAssumption
    <2>2. watch[v] \in Watches
        BY <1>0 DEF SteerTypes
    <2>3. w \in Watches
        <3>1. ASSUME NEW x \in Watches, NEW a \in Nat, NEW b \in Nat
              PROVE  [x EXCEPT !.frames = x.frames + a, !.incomplete = x.incomplete + b] \in Watches
            <4>1. x.frames + a \in Nat /\ x.incomplete + b \in Nat
                BY DEF Watches
            <4>2. ASSUME NEW m \in Nat, NEW n \in Nat
                  PROVE  [x EXCEPT !.frames = m, !.incomplete = n] \in Watches
                BY DEF Watches
            <4>. QED  BY <4>1, <4>2
        <3>. QED  BY <2>1, <2>2, <3>1
    <2>4. watch' = [watch EXCEPT ![v] = w]
        BY <1>0, <1>9 DEF Arrive, SteerTypes
    <2>. HIDE DEF w
    <2>5. SteerTypes'
        BY <1>0, <1>9, <2>3, <2>4 DEF Arrive, SteerTypes
    <2>. QED  BY <1>1, <1>9, <2>5 DEF Arrive, Undisturbed
<1>10. ASSUME NEW v \in Viewers, Forward(v) PROVE SteerInv'
    <2>1. mail[v] \in Reports /\ governor \in Governors
        BY <1>0, <1>10 DEF Forward, SteerTypes
    <2>. DEFINE loss == Loss(mail[v].received, mail[v].lost)
    <2>2. /\ Reported(governor, mail[v]) \in Governors
          /\ Reported(governor, mail[v]).target = governor.target
          /\ Reported(governor, mail[v]).ceiling = governor.ceiling
          /\ loss \in Nat /\ loss <= Reported(governor, mail[v]).worst
          /\ governor.worst <= Reported(governor, mail[v]).worst
        BY <2>1, ReportedWorst
    <2>3. /\ mail' = [mail EXCEPT ![v] = None] /\ UNCHANGED <<kbps, rate, turns, viewer>>
          /\ \/ governor' = governor /\ heard' = heard
             \/ governor' = Reported(governor, mail[v]) /\ heard' = heard \cup {loss}
        BY <1>10 DEF Forward
    <2>. HIDE DEF loss
    <2>4. governor' \in Governors /\ governor'.target = governor.target
          /\ governor'.ceiling = governor.ceiling
        BY <2>1, <2>2, <2>3
    <2>5. governor.worst \in Nat /\ governor'.worst \in Nat
        BY <2>1, <2>4 DEF Governors
    <2>6. WorstHeard'
        BY <1>0, <2>2, <2>3, <2>5 DEF WorstHeard
    <2>7. SteerTypes'
        BY <1>0, <2>3, <2>4 DEF SteerTypes, viewer
    <2>8. Settled'
        BY <1>0, <2>3, <2>4 DEF Settled
    <2>. QED  BY <2>6, <2>7, <2>8 DEF SteerInv
<1>11. CASE UNCHANGED steerVars
    BY <1>0, <1>1, <1>11 DEF steerVars, viewer, Undisturbed, SteerTypes
<1>. QED  BY <1>2, <1>3, <1>4, <1>5, <1>6, <1>7, <1>8, <1>9, <1>10, <1>11 DEF SteerNext

(* What is settled on bounds the rate.                                     *)
LEMMA RateHeld == SteerInv => RateFollows
<1>. SUFFICES ASSUME SteerInv, kbps >= Floor
              PROVE  /\ Floor <= governor.target /\ governor.target <= kbps
                     /\ Floor <= rate /\ rate <= kbps
                     /\ AtLeast(rate - governor.target, governor.target - rate) * 20 <= rate
    BY DEF RateFollows
<1>1. /\ governor.target \in Nat /\ rate \in Nat /\ kbps \in Nat
      /\ Floor <= governor.target /\ governor.target <= kbps /\ Floor <= rate /\ rate <= kbps
      /\ NotWorth(governor.target, rate, kbps)
    BY DEF SteerInv, SteerTypes, Settled, Governors
<1>. QED  BY <1>1 DEF NotWorth, AtLeast, Floor

(* Only a decision empties what was heard, and it heeds the worst.         *)
LEMMA YieldsHeld ==
    ASSUME SteerInv, [SteerNext]_steerVars, heard' = {}, turns' = turns,
           NEW loss \in heard, loss >= TooMuch
    PROVE  rate' < rate \/ (rate' - Floor) * 20 <= rate'
<1>1. CASE Decide
    <2>1. governor.worst >= TooMuch
        <3>1. loss \in Nat /\ loss <= governor.worst /\ governor.worst \in Nat
            BY DEF SteerInv, WorstHeard, SteerTypes, Governors
        <3>. QED  BY <3>1 DEF TooMuch
    <2>. QED  BY <1>1, <2>1, DecideKeeps
<1>2. CASE ~Decide
    <2>1. heard' = heard \/ (\E k \in Settings : SettingsChanged(k))
          \/ \E v \in Viewers : Forward(v)
        BY <1>2 DEF SteerNext, steerVars, Keyframe, Watch, Unwatch, Break, ReportQuality, Arrive
    <2>2. ASSUME NEW k \in Settings, SettingsChanged(k) PROVE FALSE
        BY <2>2 DEF SettingsChanged, SteerInv, SteerTypes
    <2>3. ASSUME NEW v \in Viewers, Forward(v) PROVE FALSE
        BY <2>3 DEF Forward
    <2>. QED  BY <2>1, <2>2, <2>3
<1>. QED  BY <1>1, <1>2

----------------------------------------------------------------------------
(* What is put together.                                                   *)

PictureRecords == [key : BOOLEAN, size : Nat \ {0}, ts : Int]
Pairs == Nat \X Nat
Queued == [key : BOOLEAN, pieces : Seq(Pairs)]

\* A fragment of a picture that was sent; and one in its place among n of t.
IsFragment(f) == \E k \in DOMAIN pictures : \E i \in 1 .. pictures[k].size : f = <<k, i>>
InPlace(f, i, t, n) ==
    \E k \in DOMAIN pictures : f = <<k, i>> /\ pictures[k].ts = t /\ pictures[k].size = n

\* What is building under t: pieces in their places, of pictures of that time and
\* as many fragments.
Part(t, pieces) ==
    /\ pieces \in Seq(Pairs) /\ pieces # <<>>
    /\ \A i \in DOMAIN pieces : pieces[i] = Nothing \/ InPlace(pieces[i], i, t, Len(pieces))

PictureTypes ==
    /\ pictures \in Seq(PictureRecords) /\ queue \in Seq(Queued)
    /\ tap.fragment = Nothing \/ IsFragment(tap.fragment)
    /\ tap.before \in Int
    /\ IsFiniteSet(DOMAIN building)
    /\ dropped \in Int /\ refused \in Int /\ why.incomplete \in Int /\ why.no_room \in Int

Built == \A t \in DOMAIN building : Part(t, building[t])

\* What the decoder may be given.
Sound(q) ==
    LET k == q.pieces[1][1] IN
    /\ k \in DOMAIN pictures
    /\ \/ Whole(q.pieces) /\ q.key = pictures[k].key
       \/ \E j \in DOMAIN pictures : Twins(j, k)
QueueSound == \A n \in DOMAIN queue : Sound(queue[n])

\* The tap has missed nothing since it looked at the counter.
Counted ==
    ~raced => /\ why.incomplete + why.no_room + refused = dropped
              /\ tap.fragment # Nothing => tap.before = dropped

PicturesInv == PictureTypes /\ Built /\ QueueSound /\ Counted

(* A fragment tells of its picture.                                        *)
LEMMA FragmentOf ==
    ASSUME PictureTypes, NEW f, IsFragment(f)
    PROVE  /\ f[1] \in DOMAIN pictures /\ f[2] \in 1 .. pictures[f[1]].size /\ f = <<f[1], f[2]>>
           /\ pictures[f[1]] \in PictureRecords /\ pictures[f[1]].size \in Nat \ {0}
           /\ f \in Pairs /\ InPlace(f, f[2], pictures[f[1]].ts, pictures[f[1]].size)
<1>0. PICK k \in DOMAIN pictures : \E i \in 1 .. pictures[k].size : f = <<k, i>>
    BY DEF IsFragment
<1>1. PICK i \in 1 .. pictures[k].size : f = <<k, i>>
    BY <1>0
<1>2. f[1] = k /\ f[2] = i
    BY <1>1
<1>3. pictures[k] \in PictureRecords /\ k \in Nat
    BY <1>1 DEF PictureTypes
<1>4. pictures[k].size \in Nat \ {0}
    BY <1>3 DEF PictureRecords
<1>5. i \in Nat
    BY <1>1, <1>4
<1>. QED  BY <1>1, <1>2, <1>3, <1>4, <1>5 DEF InPlace, Pairs

(* A piece more is in its place, and nothing else is moved.                *)
LEMMA PieceAdded ==
    ASSUME PictureTypes, NEW f, IsFragment(f), NEW pieces, NEW t,
           t = pictures[f[1]].ts, Part(t, pieces), Len(pieces) = pictures[f[1]].size
    PROVE  /\ Part(t, WithPiece(pieces, f)) /\ Len(WithPiece(pieces, f)) = Len(pieces)
           /\ f[2] \in DOMAIN WithPiece(pieces, f)
<1>1. /\ f[2] \in 1 .. Len(pieces) /\ f \in Pairs /\ InPlace(f, f[2], t, Len(pieces))
      /\ pieces \in Seq(Pairs) /\ DOMAIN pieces = 1 .. Len(pieces) /\ pieces # <<>>
    BY FragmentOf DEF Part
<1>2. CASE pieces[f[2]] = Nothing
    <2>. DEFINE q == [pieces EXCEPT ![f[2]] = f]
    <2>1. WithPiece(pieces, f) = q
        BY <1>2 DEF WithPiece
    <2>2. q \in Seq(Pairs) /\ Len(q) = Len(pieces) /\ DOMAIN q = DOMAIN pieces
        BY <1>1
    <2>3. \A i \in DOMAIN q : q[i] = Nothing \/ InPlace(q[i], i, t, Len(q))
        BY <1>1, <2>2 DEF Part
    <2>4. q # <<>>
        BY <1>1, <2>2
    <2>. QED  BY <1>1, <2>1, <2>2, <2>3, <2>4 DEF Part
<1>3. CASE pieces[f[2]] # Nothing
    <2>1. WithPiece(pieces, f) = pieces
        BY <1>3 DEF WithPiece
    <2>. QED  BY <1>1, <2>1
<1>. QED  BY <1>2, <1>3

\* What a fragment may do to what is building, of S what is left.
Handled(f, S) ==
    LET p == pictures[f[1]]
        a == Assembled(f)
    IN
    \/ /\ p.size = 1 /\ S = Latest(DOMAIN building, Newer(p.ts, newest))
       /\ a = [building |-> Restrict(building, S), newest |-> Newer(p.ts, newest),
               picture |-> <<f>>, lost |-> Cardinality(DOMAIN building) - Cardinality(S)]
    \/ /\ p.ts \in DOMAIN building /\ S = DOMAIN building \ {p.ts}
       /\ a = [building |-> Restrict(building, S), newest |-> newest, picture |-> <<>>, lost |-> 1]
    \/ \E pieces :
          /\ Part(p.ts, pieces) /\ Len(pieces) = p.size /\ f[2] \in DOMAIN pieces
          /\ S = Latest(DOMAIN building \cup {p.ts}, Newer(p.ts, newest))
          /\ \E done \in BOOLEAN :
                /\ done => Complete(pieces)
                /\ a = [building |-> [t \in S \ (IF done THEN {p.ts} ELSE {}) |->
                                         IF t = p.ts THEN pieces ELSE building[t]],
                        newest |-> Newer(p.ts, newest),
                        picture |-> IF done THEN pieces ELSE <<>>,
                        lost |-> Cardinality(DOMAIN building \cup {p.ts}) - Cardinality(S)]

(* A fragment is handled in one of these ways.                             *)
LEMMA FragmentHandled ==
    ASSUME PictureTypes, Built, NEW f, IsFragment(f) PROVE \E S : Handled(f, S)
<1>. DEFINE p == pictures[f[1]]
            ts == p.ts
            latest == Newer(ts, newest)
            known == ts \in DOMAIN building
            was == IF known THEN building[ts] ELSE [i \in 1 .. p.size |-> Nothing]
            pieces == WithPiece(was, f)
            all == DOMAIN building \cup {ts}
            done == Complete(pieces) /\ ts \in Latest(all, latest)
<1>1. p.size \in Nat \ {0}
    BY FragmentOf
<1>2. CASE p.size = 1
    <2>1. Assembled(f) = [building |-> Restrict(building, Latest(DOMAIN building, latest)), newest |-> latest,
                          picture |-> <<f>>,
                          lost |-> Cardinality(DOMAIN building) - Cardinality(Latest(DOMAIN building, latest))]
        BY <1>2 DEF Assembled
    <2>2. Handled(f, Latest(DOMAIN building, latest))
        BY <1>2, <2>1 DEF Handled
    <2>. QED  BY <2>2
<1>3. CASE p.size # 1 /\ known /\ Len(building[ts]) # p.size
    <2>1. Assembled(f) = [building |-> Restrict(building, DOMAIN building \ {ts}), newest |-> newest,
                          picture |-> <<>>, lost |-> 1]
        BY <1>3 DEF Assembled
    <2>2. Handled(f, DOMAIN building \ {ts})
        BY <1>3, <2>1 DEF Handled
    <2>. QED  BY <2>2
<1>4. CASE p.size # 1 /\ ~(known /\ Len(building[ts]) # p.size)
    <2>1. Assembled(f) =
            [building |-> [t \in Latest(all, latest) \ (IF done THEN {ts} ELSE {}) |->
                              IF t = ts THEN pieces ELSE building[t]],
             newest |-> latest,
             picture |-> IF done THEN pieces ELSE <<>>,
             lost |-> Cardinality(all) - Cardinality(Latest(all, latest))]
        BY <1>4 DEF Assembled
    <2>2. Part(ts, was) /\ Len(was) = p.size
        <3>1. CASE known
            BY <1>4, <3>1 DEF Built
        <3>2. CASE ~known
            <4>1. was = [i \in 1 .. p.size |-> Nothing]
                BY <3>2
            <4>2. was \in Seq(Pairs) /\ Len(was) = p.size /\ was # <<>> /\ DOMAIN was = 1 .. p.size
                BY <1>1, <4>1 DEF Nothing, Pairs
            <4>. QED  BY <4>1, <4>2 DEF Part
        <3>. QED  BY <3>1, <3>2
    <2>. HIDE DEF was
    <2>3. Part(ts, pieces) /\ Len(pieces) = p.size /\ f[2] \in DOMAIN pieces
        BY <2>2, PieceAdded
    <2>4. done \in BOOLEAN /\ (done => Complete(pieces))
        OBVIOUS
    <2>. HIDE DEF pieces, done
    <2>5. Handled(f, Latest(all, latest))
        BY <2>1, <2>3, <2>4 DEF Handled
    <2>. QED  BY <2>5
<1>. QED  BY <1>2, <1>3, <1>4

(* What is complete is one picture, or there are two of its time.          *)
LEMMA PictureSound ==
    ASSUME PictureTypes, NEW f, IsFragment(f), NEW pieces,
           Part(pictures[f[1]].ts, pieces), Len(pieces) = pictures[f[1]].size,
           f[2] \in DOMAIN pieces, Complete(pieces)
    PROVE  /\ [key |-> pictures[f[1]].key, pieces |-> pieces] \in Queued
           /\ Sound([key |-> pictures[f[1]].key, pieces |-> pieces])
<1>. DEFINE p == pictures[f[1]]
            k == pieces[1][1]
            q == [key |-> p.key, pieces |-> pieces]
<1>1. /\ pieces \in Seq(Pairs) /\ DOMAIN pieces = 1 .. p.size /\ p.size \in Nat \ {0}
      /\ f[1] \in DOMAIN pictures /\ p \in PictureRecords
      /\ \A i \in DOMAIN pieces : InPlace(pieces[i], i, p.ts, p.size)
    BY FragmentOf DEF Part, Complete
<1>2. \A i \in DOMAIN pieces : /\ pieces[i] = <<pieces[i][1], i>> /\ pieces[i][1] \in DOMAIN pictures
                              /\ pictures[pieces[i][1]].ts = p.ts /\ pictures[pieces[i][1]].size = p.size
    BY <1>1 DEF InPlace
<1>3. 1 \in DOMAIN pieces
    BY <1>1
<1>4. k \in DOMAIN pictures /\ pictures[k].ts = p.ts /\ pictures[k].size = p.size
    BY <1>2, <1>3
<1>5. q \in Queued
    BY <1>1 DEF Queued, PictureRecords
<1>6. CASE f[1] # k
    <2>1. Twins(f[1], k)
        BY <1>4, <1>6 DEF Twins
    <2>. QED  BY <1>1, <1>4, <1>5, <2>1 DEF Sound
<1>7. CASE \E i \in DOMAIN pieces : pieces[i][1] # k
    <2>1. PICK i \in DOMAIN pieces : pieces[i][1] # k
        BY <1>7
    <2>2. Twins(pieces[i][1], k) /\ pieces[i][1] \in DOMAIN pictures
        BY <1>2, <1>4, <2>1 DEF Twins
    <2>. QED  BY <1>4, <1>5, <2>2 DEF Sound
<1>8. CASE f[1] = k /\ \A i \in DOMAIN pieces : pieces[i][1] = k
    <2>1. \A i \in DOMAIN pieces : pieces[i] = <<k, i>>
        BY <1>2, <1>8
    <2>2. pieces = [i \in 1 .. pictures[k].size |-> <<k, i>>]
        <3>1. pieces = [i \in 1 .. p.size |-> pieces[i]]
            BY <1>1
        <3>2. \A i \in 1 .. p.size : pieces[i] = <<k, i>>
            BY <1>1, <2>1
        <3>3. p.size = pictures[k].size
            BY <1>4
        <3>. HIDE DEF k, p
        <3>4. [i \in 1 .. p.size |-> pieces[i]] = [i \in 1 .. p.size |-> <<k, i>>]
            BY <3>2
        <3>. QED  BY <3>1, <3>3, <3>4
    <2>3. Whole(pieces)
        BY <2>2 DEF Whole
    <2>. QED  BY <1>4, <1>5, <1>8, <2>3 DEF Sound
<1>. QED  BY <1>6, <1>7, <1>8

(* Nothing is put together at first.                                       *)
LEMMA PicturesStart == PicturesInit => PicturesInv
<1>. SUFFICES ASSUME PicturesInit PROVE PicturesInv
    OBVIOUS
<1>1. DOMAIN building = {} /\ IsFiniteSet(DOMAIN building) /\ DOMAIN queue = {}
    BY FS_EmptySet DEF PicturesInit
<1>. QED  BY <1>1 DEF PicturesInit, PicturesInv, PictureTypes, Built, QueueSound, Counted

(* A picture more takes nothing from those before it.                      *)
LEMMA SentBefore ==
    ASSUME PictureTypes, PictureTypes', DOMAIN pictures \subseteq DOMAIN pictures',
           \A k \in DOMAIN pictures : pictures'[k] = pictures[k]
    PROVE  /\ \A f : IsFragment(f) => IsFragment(f)'
           /\ \A t, pieces : Part(t, pieces) => Part(t, pieces)'
           /\ \A q : Sound(q) => Sound(q)'
<1>1. \A f : IsFragment(f) => IsFragment(f)'
    BY DEF IsFragment
<1>2. \A f, i, t, n : InPlace(f, i, t, n) => InPlace(f, i, t, n)'
    BY DEF InPlace
<1>3. \A t, pieces : Part(t, pieces) => Part(t, pieces)'
    BY <1>2 DEF Part
<1>4. ASSUME NEW q, Sound(q) PROVE Sound(q)'
    <2>. DEFINE k == q.pieces[1][1]
    <2>1. k \in DOMAIN pictures /\ k \in DOMAIN pictures' /\ pictures'[k] = pictures[k]
        BY <1>4 DEF Sound
    <2>2. Whole(q.pieces) => Whole(q.pieces)'
        BY <2>1 DEF Whole
    <2>3. \A j \in DOMAIN pictures : Twins(j, k) => Twins(j, k)'
        BY <2>1 DEF Twins
    <2>. QED  BY <1>4, <2>1, <2>2, <2>3 DEF Sound
<1>. QED  BY <1>1, <1>3, <1>4

(* A picture sent leaves what was sent before it as it is.                 *)
LEMMA PutKeeps == ASSUME PicturesInv, Put PROVE PicturesInv'
<1>0. PictureTypes /\ PicturesAssumption
    BY PicturesAssumption DEF PicturesInv
<1>. DEFINE k == Len(pictures) + 1
<1>1. PICK n \in Sizes, pause \in {0, 1} :
        pictures' = Append(pictures,
              [key |-> k \in Keyframes, size |-> n,
               ts |-> IF k = 1 THEN FirstTs ELSE (pictures[k - 1].ts + pause) % TsSpace])
    BY DEF Put
<1>2. [key |-> k \in Keyframes, size |-> n,
       ts |-> IF k = 1 THEN FirstTs ELSE (pictures[k - 1].ts + pause) % TsSpace] \in PictureRecords
    <2>1. k # 1 => pictures[k - 1] \in PictureRecords
        BY <1>0 DEF PictureTypes
    <2>2. k # 1 => (pictures[k - 1].ts + pause) % TsSpace \in Int
        BY <1>0, <2>1 DEF PictureRecords, PicturesAssumption
    <2>3. FirstTs \in Int /\ n \in Nat \ {0}
        BY <1>0 DEF PicturesAssumption
    <2>. QED  BY <2>2, <2>3 DEF PictureRecords
<1>3. /\ pictures' \in Seq(PictureRecords) /\ DOMAIN pictures \subseteq DOMAIN pictures'
      /\ \A j \in DOMAIN pictures : pictures'[j] = pictures[j]
    BY <1>0, <1>1, <1>2 DEF PictureTypes
<1>4. UNCHANGED <<assembler, tap, queue, dropped, why, past>>
    BY DEF Put
<1>5. \A f : IsFragment(f) => IsFragment(f)'
    BY <1>3 DEF IsFragment
<1>6. PictureTypes'
    BY <1>0, <1>3, <1>4, <1>5 DEF PictureTypes, assembler, past
<1>7. Built' /\ QueueSound'
    BY <1>0, <1>3, <1>4, <1>6, SentBefore DEF PicturesInv, Built, QueueSound, assembler
<1>. QED  BY <1>4, <1>6, <1>7 DEF PicturesInv, Counted, past

(* What the tap takes is a fragment that was sent.                         *)
LEMMA TakeKeeps == ASSUME PicturesInv, NEW f \in Fragments, Take(f) PROVE PicturesInv'
<1>1. IsFragment(f)
    BY DEF Fragments, IsFragment
<1>2. /\ tap' = [fragment |-> f, before |-> dropped]
      /\ UNCHANGED <<pictures, assembler, queue, dropped, why, past>>
    BY DEF Take
<1>3. PictureTypes'
    BY <1>1, <1>2 DEF PicturesInv, PictureTypes, IsFragment, assembler, past
<1>4. Built' /\ QueueSound'
    BY <1>2 DEF PicturesInv, Built, QueueSound, Part, InPlace, Sound, Whole, Twins, assembler
<1>5. Counted'
    BY <1>2 DEF PicturesInv, Counted, past
<1>. QED  BY <1>3, <1>4, <1>5 DEF PicturesInv

(* The decoder takes from the head of the queue; what it refuses is        *)
(* counted twice alike.                                                    *)
LEMMA DecodeKeeps == ASSUME PicturesInv, Decode PROVE PicturesInv'
<1>1. /\ queue # <<>> /\ queue' = Tail(queue)
      /\ UNCHANGED <<pictures, assembler, tap, why>>
      /\ \/ UNCHANGED <<dropped, past>>
         \/ /\ dropped' = dropped + 1 /\ refused' = refused + 1
            /\ raced' = (raced \/ tap.fragment # Nothing)
    BY DEF Decode
<1>2. queue' \in Seq(Queued) /\ \A n \in DOMAIN queue' : n + 1 \in DOMAIN queue /\ queue'[n] = queue[n + 1]
    BY <1>1 DEF PicturesInv, PictureTypes
<1>3. PictureTypes'
    BY <1>1, <1>2 DEF PicturesInv, PictureTypes, IsFragment, assembler, past
<1>4. Built'
    BY <1>1 DEF PicturesInv, Built, Part, InPlace, assembler
<1>5. QueueSound'
    <2>1. \A q : Sound(q) => Sound(q)'
        BY <1>1 DEF Sound, Whole, Twins
    <2>2. \A n \in DOMAIN queue : Sound(queue[n])
        BY DEF PicturesInv, QueueSound
    <2>. QED  BY <1>2, <2>1, <2>2 DEF QueueSound
<1>6. Counted'
    <2>1. CASE UNCHANGED <<dropped, past>>
        BY <1>1, <2>1 DEF PicturesInv, Counted, past
    <2>2. CASE dropped' = dropped + 1 /\ refused' = refused + 1 /\ raced' = (raced \/ tap.fragment # Nothing)
        <3>1. ~raced' => ~raced /\ tap.fragment = Nothing
            BY <2>2
        <3>2. ~raced' => why.incomplete + why.no_room + refused = dropped
            BY <3>1 DEF PicturesInv, Counted
        <3>3. /\ why.incomplete \in Int /\ why.no_room \in Int /\ refused \in Int /\ dropped \in Int
              /\ why' = why /\ tap' = tap
            BY <1>1 DEF PicturesInv, PictureTypes
        <3>4. ~raced' => why'.incomplete + why'.no_room + refused' = dropped'
            BY <2>2, <3>2, <3>3
        <3>. QED  BY <3>1, <3>3, <3>4 DEF Counted
    <2>. QED  BY <1>1, <2>1, <2>2
<1>. QED  BY <1>3, <1>4, <1>5, <1>6 DEF PicturesInv

(* What the assembler makes of a fragment.                                 *)
LEMMA AssembledWell ==
    ASSUME PictureTypes, Built, NEW f, IsFragment(f), NEW S, Handled(f, S)
    PROVE  LET a == Assembled(f) IN
           /\ IsFiniteSet(DOMAIN a.building) /\ a.lost \in Int
           /\ \A t \in DOMAIN a.building : Part(t, a.building[t])
           /\ a.picture # <<>> =>
                /\ [key |-> pictures[f[1]].key, pieces |-> a.picture] \in Queued
                /\ Sound([key |-> pictures[f[1]].key, pieces |-> a.picture])
<1>. DEFINE p == pictures[f[1]]
            a == Assembled(f)
            latest == Newer(p.ts, newest)
            all == DOMAIN building \cup {p.ts}
<1>0. IsFiniteSet(DOMAIN building) /\ IsFiniteSet(all)
      /\ Cardinality(DOMAIN building) \in Nat /\ Cardinality(all) \in Nat
    BY FS_AddElement, FS_CardinalityType DEF PictureTypes
<1>1. \A T : Latest(T, latest) \subseteq T
    BY DEF Latest
<1>2. S \subseteq all /\ IsFiniteSet(S) /\ Cardinality(S) \in Nat
    <2>1. S \subseteq all
        BY <1>1 DEF Handled
    <2>. QED  BY <1>0, <2>1, FS_Subset, FS_CardinalityType
<1>3. CASE /\ p.size = 1 /\ S = Latest(DOMAIN building, latest)
           /\ a = [building |-> Restrict(building, S), newest |-> latest,
                   picture |-> <<f>>, lost |-> Cardinality(DOMAIN building) - Cardinality(S)]
    <2>1. S \subseteq DOMAIN building
        BY <1>1, <1>3
    <2>2. a.building = [t \in S |-> building[t]] /\ a.lost \in Int /\ a.picture = <<f>>
        BY <1>0, <1>2, <1>3 DEF Restrict
    <2>3. Part(p.ts, <<f>>) /\ Complete(<<f>>) /\ Len(<<f>>) = p.size /\ f[2] \in DOMAIN <<f>>
        <3>1. f \in Pairs /\ f[2] = 1 /\ InPlace(f, 1, p.ts, 1) /\ f # Nothing
            <4>1. f \in Pairs /\ f[2] = 1 /\ InPlace(f, f[2], p.ts, p.size)
                BY <1>3, FragmentOf
            <4>2. f # Nothing
                BY <4>1 DEF Nothing
            <4>. QED  BY <1>3, <4>1, <4>2
        <3>. QED  BY <1>3, <3>1 DEF Part, Complete
    <2>4. \A t \in DOMAIN a.building : Part(t, a.building[t])
        BY <2>1, <2>2 DEF Built
    <2>5. /\ [key |-> p.key, pieces |-> <<f>>] \in Queued
          /\ Sound([key |-> p.key, pieces |-> <<f>>])
        BY <2>3, PictureSound
    <2>6. DOMAIN a.building = S
        BY <2>2
    <2>. HIDE DEF a
    <2>7. QED  BY <1>2, <2>2, <2>4, <2>5, <2>6 DEF a
<1>4. CASE /\ p.ts \in DOMAIN building /\ S = DOMAIN building \ {p.ts}
           /\ a = [building |-> Restrict(building, S), newest |-> newest, picture |-> <<>>, lost |-> 1]
    <2>1. a.building = [t \in S |-> building[t]] /\ a.lost = 1 /\ a.picture = <<>>
        BY <1>4 DEF Restrict
    <2>2. \A t \in DOMAIN a.building : Part(t, a.building[t])
        BY <1>4, <2>1 DEF Built
    <2>3. DOMAIN a.building = S
        BY <2>1
    <2>. HIDE DEF a
    <2>4. QED  BY <1>2, <2>1, <2>2, <2>3 DEF a
<1>5. ASSUME NEW pieces, NEW done \in BOOLEAN,
             Part(p.ts, pieces), Len(pieces) = p.size, f[2] \in DOMAIN pieces, S = Latest(all, latest),
             done => Complete(pieces),
             a = [building |-> [t \in S \ (IF done THEN {p.ts} ELSE {}) |->
                                   IF t = p.ts THEN pieces ELSE building[t]],
                  newest |-> latest, picture |-> IF done THEN pieces ELSE <<>>,
                  lost |-> Cardinality(all) - Cardinality(S)]
      PROVE  /\ IsFiniteSet(DOMAIN a.building) /\ a.lost \in Int
             /\ \A t \in DOMAIN a.building : Part(t, a.building[t])
             /\ a.picture # <<>> =>
                  /\ [key |-> p.key, pieces |-> a.picture] \in Queued
                  /\ Sound([key |-> p.key, pieces |-> a.picture])
    <2>. DEFINE left == S \ (IF done THEN {p.ts} ELSE {})
    <2>1. a.building = [t \in left |-> IF t = p.ts THEN pieces ELSE building[t]]
          /\ a.lost \in Int /\ a.picture = (IF done THEN pieces ELSE <<>>)
        BY <1>0, <1>2, <1>5
    <2>2. left \subseteq S /\ IsFiniteSet(left)
        BY <1>2, FS_Subset
    <2>. HIDE DEF left
    <2>3. DOMAIN a.building = left
        BY <2>1
    <2>4. \A t \in left : Part(t, a.building[t])
        BY <1>2, <1>5, <2>1, <2>2 DEF Built
    <2>5. done => /\ [key |-> p.key, pieces |-> pieces] \in Queued
                  /\ Sound([key |-> p.key, pieces |-> pieces])
        BY <1>5, PictureSound
    <2>. HIDE DEF a
    <2>6. a.picture # <<>> => done /\ a.picture = pieces
        BY <2>1
    <2>7. QED  BY <2>1, <2>2, <2>3, <2>4, <2>5, <2>6
<1>. QED  BY <1>3, <1>4, <1>5 DEF Handled

(* What the tap feeds ends up in its place, in the queue, or among the     *)
(* dropped.                                                                *)
LEMMA FeedKeeps == ASSUME PicturesInv, Feed PROVE PicturesInv'
<1>. DEFINE f == tap.fragment
            a == Assembled(f)
            key == pictures[f[1]].key
            lost == dropped + a.lost - tap.before
            full == a.picture # <<>> /\ Len(queue) = QueueDepth
            one == IF full THEN 1 ELSE 0
            q == [key |-> key, pieces |-> a.picture]
<1>0. PictureTypes /\ Built /\ QueueSound /\ Counted
    BY DEF PicturesInv
<1>1. f # Nothing /\ IsFragment(f)
    BY <1>0 DEF Feed, PictureTypes
<1>2. /\ building' = a.building
      /\ queue' = IF a.picture # <<>> /\ ~full THEN Append(queue, q) ELSE queue
      /\ dropped' = (IF full THEN dropped + a.lost + 1 ELSE dropped + a.lost)
      /\ why'.incomplete = why.incomplete + lost /\ why'.no_room = why.no_room + one
      /\ tap' = [fragment |-> Nothing, before |-> 0]
      /\ UNCHANGED <<pictures, past>>
    BY DEF Feed, Overflowed
<1>3. /\ IsFiniteSet(DOMAIN a.building) /\ a.lost \in Int
      /\ \A t \in DOMAIN a.building : Part(t, a.building[t])
      /\ a.picture # <<>> => q \in Queued /\ Sound(q)
    BY <1>0, <1>1, FragmentHandled, AssembledWell
<1>4. dropped \in Int /\ refused \in Int /\ why.incomplete \in Int /\ why.no_room \in Int
      /\ one \in Int /\ queue \in Seq(Queued)
    BY <1>0 DEF PictureTypes
<1>. HIDE DEF a, q, full, key
<1>5. /\ queue' \in Seq(Queued)
      /\ \A n \in DOMAIN queue' : (n \in DOMAIN queue /\ queue'[n] = queue[n])
                                \/ (queue'[n] = q /\ a.picture # <<>>)
    <2>1. CASE a.picture # <<>> /\ ~full
        <3>1. queue' = Append(queue, q) /\ q \in Queued
            BY <1>2, <1>3, <2>1
        <3>. QED  BY <1>4, <2>1, <3>1
    <2>2. CASE ~(a.picture # <<>> /\ ~full)
        BY <1>2, <1>4, <2>2
    <2>. QED  BY <2>1, <2>2
<1>6. QueueSound'
    <2>1. \A x : Sound(x) => Sound(x)'
        BY <1>2 DEF Sound, Whole, Twins
    <2>. QED  BY <1>0, <1>3, <1>5, <2>1 DEF QueueSound
<1>7. Built'
    <2>1. \A t, pieces : Part(t, pieces) => Part(t, pieces)'
        BY <1>2 DEF Part, InPlace
    <2>. QED  BY <1>2, <1>3, <2>1 DEF Built
<1>8. Counted'
    <2>1. ASSUME ~raced' PROVE why'.incomplete + why'.no_room + refused' = dropped'
        <3>1. ~raced /\ refused' = refused
            BY <1>2, <2>1 DEF past
        <3>2. why.incomplete + why.no_room + refused = dropped /\ tap.before = dropped
            BY <1>0, <1>1, <3>1 DEF Counted
        <3>3. lost = a.lost
            BY <1>3, <1>4, <3>2
        <3>4. dropped' = dropped + a.lost + one
            <4>1. CASE full
                BY <1>2, <4>1
            <4>2. CASE ~full
                <5>1. dropped' = dropped + a.lost /\ one = 0
                    BY <1>2, <4>2
                <5>2. \A x, y \in Int : x + y = x + y + 0
                    OBVIOUS
                <5>. QED  BY <1>3, <1>4, <5>1, <5>2
            <4>. QED  BY <4>1, <4>2
        <3>5. why'.incomplete = why.incomplete + a.lost /\ why'.no_room = why.no_room + one
            BY <1>2, <3>3
        <3>6. PICK l \in Int : l = a.lost
            BY <1>3
        <3>7. PICK o \in Int : o = one
            BY <1>4
        <3>. HIDE DEF lost, one
        <3>8. (why.incomplete + l) + (why.no_room + o) + refused
                = (why.incomplete + why.no_room + refused) + l + o
            BY <1>4
        <3>9. why'.incomplete = why.incomplete + l /\ why'.no_room = why.no_room + o
              /\ refused' = refused /\ dropped' = dropped + l + o
            <4>1. dropped' = dropped + l + o
                BY <3>4, <3>6, <3>7, Zenon
            <4>2. why'.incomplete = why.incomplete + l /\ why'.no_room = why.no_room + o
                BY <3>5, <3>6, <3>7, Zenon
            <4>. QED  BY <3>1, <4>1, <4>2
        <3>. QED  BY <3>2, <3>8, <3>9
    <2>. QED  BY <1>2, <2>1 DEF Counted
<1>9. PictureTypes'
    <2>1. tap.before \in Int
        BY <1>0 DEF PictureTypes
    <2>2. why'.incomplete \in Int /\ why'.no_room \in Int /\ dropped' \in Int
        <3>1. lost \in Int /\ one \in Int /\ why.incomplete \in Int /\ why.no_room \in Int
            BY <1>3, <1>4, <2>1
        <3>2. dropped + a.lost + 1 \in Int /\ dropped + a.lost \in Int
            BY <1>3, <1>4
        <3>3. dropped' \in Int
            BY <1>2, <3>2
        <3>. HIDE DEF lost, one
        <3>4. why'.incomplete = why.incomplete + lost /\ why'.no_room = why.no_room + one
            BY <1>2
        <3>. QED  BY <3>1, <3>3, <3>4
    <2>3. IsFiniteSet(DOMAIN building') /\ refused' \in Int /\ pictures' \in Seq(PictureRecords)
        BY <1>0, <1>2, <1>3 DEF PictureTypes, past
    <2>4. tap'.fragment = Nothing /\ tap'.before \in Int
        BY <1>2
    <2>. QED  BY <1>5, <2>2, <2>3, <2>4 DEF PictureTypes
<1>. QED  BY <1>6, <1>7, <1>8, <1>9 DEF PicturesInv

(* Every step keeps it.                                                    *)
LEMMA PicturesStep == ASSUME PicturesInv, [PicturesNext]_pictureVars PROVE PicturesInv'
<1>1. CASE UNCHANGED pictureVars
    BY <1>1 DEF pictureVars, assembler, past, PicturesInv, PictureTypes, IsFragment, Built, Part, InPlace,
                QueueSound, Sound, Whole, Twins, Counted
<1>. QED  BY <1>1, PutKeeps, TakeKeeps, FeedKeeps, DecodeKeeps DEF PicturesNext

(* And it says what Accounted asks.                                        *)
LEMMA AccountedHeld == PicturesInv => Accounted
BY DEF PicturesInv, QueueSound, Sound, Counted, Accounted, OnlyWhole, CausesAddUp

----------------------------------------------------------------------------
(* Which pictures are given up.                                            *)

\* The timestamp n milliseconds after the first picture's.
Wrapped(n) == IF FirstTs + n < TsSpace THEN FirstTs + n ELSE FirstTs + n - TsSpace

\* d tells how many milliseconds after the first each picture was sent.
OnTime(d) ==
    /\ d \in [DOMAIN pictures -> Nat]
    /\ \A k \in DOMAIN pictures : d[k] < k /\ pictures[k].ts = Wrapped(d[k])
    /\ \A j, k \in DOMAIN pictures : j <= k => d[j] <= d[k]

\* The newest timestamp seen belongs to a picture no earlier than any that builds.
NewestSeen(d) ==
    /\ \A t \in DOMAIN building : \E k \in DOMAIN pictures : t = pictures[k].ts
    /\ \/ newest = -1 /\ DOMAIN building = {}
       \/ \E m \in DOMAIN pictures :
             /\ newest = pictures[m].ts
             /\ \A k \in DOMAIN pictures : pictures[k].ts \in DOMAIN building => d[k] <= d[m]

ClockInv ==
    /\ Len(pictures) <= MaxPictures /\ copies \in Nat
    /\ \E d : OnTime(d) /\ NewestSeen(d)

(* Within what is sent, wrapped timestamps tell earlier from later.        *)
LEMMA WrappedApart ==
    ASSUME NEW a \in Nat, NEW b \in Nat, a < MaxPictures, b < MaxPictures
    PROVE  /\ Wrapped(a) \in Nat /\ Wrapped(b) \in Nat
           /\ (Wrapped(b) - Wrapped(a)) % TsSpace = IF a <= b THEN b - a ELSE b - a + TsSpace
           /\ Wrapped(a) = Wrapped(b) => a = b
<1>1. /\ TsSpace \in Nat /\ TsSpace > 0 /\ FirstTs \in Nat /\ FirstTs < TsSpace
      /\ MaxPictures \in Nat /\ 2 * MaxPictures < TsSpace - 1
    BY PicturesAssumption
<1>2. /\ Wrapped(a) \in Nat /\ Wrapped(a) < TsSpace /\ Wrapped(b) \in Nat /\ Wrapped(b) < TsSpace
      /\ Wrapped(b) - Wrapped(a) \in {b - a, b - a + TsSpace, b - a - TsSpace}
    BY <1>1 DEF Wrapped
<1>3. ASSUME NEW x \in Int, -TsSpace < x, x < TsSpace
      PROVE  x % TsSpace = IF x >= 0 THEN x ELSE x + TsSpace
    BY <1>1, <1>3
<1>4. (Wrapped(b) - Wrapped(a)) % TsSpace
        = IF Wrapped(b) - Wrapped(a) >= 0 THEN Wrapped(b) - Wrapped(a) ELSE Wrapped(b) - Wrapped(a) + TsSpace
    BY <1>1, <1>2, <1>3
<1>. QED  BY <1>1, <1>2, <1>4

(* A picture in the next millisecond has the next timestamp, wrapped.      *)
LEMMA WrappedNext ==
    ASSUME NEW n \in Nat, NEW pause \in {0, 1}, n + pause < MaxPictures
    PROVE  (Wrapped(n) + pause) % TsSpace = Wrapped(n + pause)
<1>1. /\ TsSpace \in Nat /\ TsSpace > 0 /\ FirstTs \in Nat /\ FirstTs < TsSpace
      /\ MaxPictures \in Nat /\ 2 * MaxPictures < TsSpace - 1
    BY PicturesAssumption
<1>2. Wrapped(n) \in Nat /\ Wrapped(n) < TsSpace
    BY <1>1 DEF Wrapped
<1>3. ASSUME NEW x \in Nat, x < TsSpace PROVE x % TsSpace = x
    BY <1>1, <1>3
<1>4. TsSpace % TsSpace = 0
    BY <1>1
<1>5. CASE Wrapped(n) + pause < TsSpace
    <2>1. (Wrapped(n) + pause) % TsSpace = Wrapped(n) + pause
        BY <1>2, <1>3, <1>5
    <2>2. Wrapped(n + pause) = Wrapped(n) + pause
        BY <1>1, <1>5 DEF Wrapped
    <2>. QED  BY <2>1, <2>2
<1>6. CASE ~(Wrapped(n) + pause < TsSpace)
    <2>1. Wrapped(n) + pause = TsSpace /\ Wrapped(n + pause) = 0
        BY <1>1, <1>2, <1>6 DEF Wrapped
    <2>. QED  BY <1>4, <2>1
<1>. QED  BY <1>5, <1>6

(* How old a picture is, and which of two is newer.                        *)
LEMMA AgesApart ==
    ASSUME PictureTypes, Len(pictures) <= MaxPictures, NEW d, OnTime(d),
           NEW j \in DOMAIN pictures, NEW m \in DOMAIN pictures
    PROVE  /\ d[j] \in Nat /\ d[m] \in Nat /\ d[j] < j /\ j \in Nat
           /\ pictures[j].ts \in Nat /\ pictures[m].ts \in Nat
           /\ d[j] <= d[m] => Age(pictures[j].ts, pictures[m].ts) = d[m] - d[j]
           /\ Newer(pictures[j].ts, pictures[m].ts) =
                IF d[m] <= d[j] THEN pictures[j].ts ELSE pictures[m].ts
           /\ pictures[j].ts = pictures[m].ts => d[j] = d[m]
<1>0. MaxPictures \in Nat /\ TsSpace \in Nat /\ 2 * MaxPictures < TsSpace - 1
    BY PicturesAssumption
<1>1. /\ j \in Nat /\ m \in Nat /\ j <= MaxPictures /\ m <= MaxPictures
      /\ d[j] \in Nat /\ d[m] \in Nat /\ d[j] < j /\ d[m] < m
      /\ pictures[j].ts = Wrapped(d[j]) /\ pictures[m].ts = Wrapped(d[m])
    BY <1>0 DEF PictureTypes, OnTime
<1>2. d[j] < MaxPictures /\ d[m] < MaxPictures
    BY <1>0, <1>1
<1>3. /\ Wrapped(d[j]) \in Nat /\ Wrapped(d[m]) \in Nat
      /\ (Wrapped(d[m]) - Wrapped(d[j])) % TsSpace = IF d[j] <= d[m] THEN d[m] - d[j] ELSE d[m] - d[j] + TsSpace
      /\ (Wrapped(d[j]) - Wrapped(d[m])) % TsSpace = IF d[m] <= d[j] THEN d[j] - d[m] ELSE d[j] - d[m] + TsSpace
      /\ Wrapped(d[j]) = Wrapped(d[m]) => d[j] = d[m]
    BY <1>1, <1>2, WrappedApart
<1>4. d[j] <= d[m] => Age(pictures[j].ts, pictures[m].ts) = d[m] - d[j]
    BY <1>1, <1>3 DEF Age
<1>5. Newer(pictures[j].ts, pictures[m].ts) = IF d[m] <= d[j] THEN pictures[j].ts ELSE pictures[m].ts
    <2>1. Newer(pictures[j].ts, pictures[m].ts) =
            IF (Wrapped(d[j]) - Wrapped(d[m])) % TsSpace < (TsSpace - 1) \div 2
            THEN pictures[j].ts ELSE pictures[m].ts
        BY <1>1, <1>3 DEF Newer
    <2>2. ASSUME NEW x \in Nat, x < MaxPictures
          PROVE  x < (TsSpace - 1) \div 2 /\ ~(TsSpace - x < (TsSpace - 1) \div 2)
        BY <1>0, <2>2
    <2>3. CASE d[m] <= d[j]
        <3>1. d[j] - d[m] \in Nat /\ d[j] - d[m] < MaxPictures
            BY <1>0, <1>1, <1>2, <2>3
        <3>2. (Wrapped(d[j]) - Wrapped(d[m])) % TsSpace = d[j] - d[m]
            BY <1>3, <2>3
        <3>. QED  BY <2>1, <2>2, <2>3, <3>1, <3>2
    <2>4. CASE ~(d[m] <= d[j])
        <3>1. d[m] - d[j] \in Nat /\ d[m] - d[j] < MaxPictures
            BY <1>0, <1>1, <1>2, <2>4
        <3>2. (Wrapped(d[j]) - Wrapped(d[m])) % TsSpace = TsSpace - (d[m] - d[j])
            <4>1. (Wrapped(d[j]) - Wrapped(d[m])) % TsSpace = d[j] - d[m] + TsSpace
                BY <1>3, <2>4
            <4>2. \A x, y, z \in Nat : x - y + z = z - (y - x)
                OBVIOUS
            <4>. QED  BY <1>0, <1>1, <4>1, <4>2
        <3>. QED  BY <2>1, <2>2, <2>4, <3>1, <3>2
    <2>. QED  BY <2>3, <2>4
<1>. QED  BY <1>1, <1>3, <1>4, <1>5

(* Of what is building or was just fed, none is later than the newest.     *)
LEMMA NewestStays ==
    ASSUME PictureTypes, Len(pictures) <= MaxPictures, NEW d, OnTime(d), NewestSeen(d),
           NEW j \in DOMAIN pictures
    PROVE  \E m \in DOMAIN pictures :
              /\ Newer(pictures[j].ts, newest) = pictures[m].ts
              /\ \A k \in DOMAIN pictures :
                    pictures[k].ts \in DOMAIN building \cup {pictures[j].ts} => d[k] <= d[m]
<1>1. CASE newest = -1 /\ DOMAIN building = {}
    <2>1. Newer(pictures[j].ts, newest) = pictures[j].ts
        BY <1>1 DEF Newer
    <2>2. ASSUME NEW k \in DOMAIN pictures, pictures[k].ts \in DOMAIN building \cup {pictures[j].ts}
          PROVE  d[k] <= d[j]
        <3>1. d[k] = d[j] /\ d[k] \in Nat
            BY <1>1, <2>2, AgesApart
        <3>. QED  BY <3>1
    <2>. QED  BY <2>1, <2>2
<1>2. ASSUME NEW m \in DOMAIN pictures, newest = pictures[m].ts,
             \A k \in DOMAIN pictures : pictures[k].ts \in DOMAIN building => d[k] <= d[m]
      PROVE  \E n \in DOMAIN pictures :
                /\ Newer(pictures[j].ts, newest) = pictures[n].ts
                /\ \A k \in DOMAIN pictures :
                      pictures[k].ts \in DOMAIN building \cup {pictures[j].ts} => d[k] <= d[n]
    <2>1. /\ d[j] \in Nat /\ d[m] \in Nat
          /\ Newer(pictures[j].ts, newest) = IF d[m] <= d[j] THEN pictures[j].ts ELSE pictures[m].ts
        BY <1>2, AgesApart
    <2>2. ASSUME NEW n \in {j, m}, d[j] <= d[n], d[m] <= d[n],
                 NEW k \in DOMAIN pictures, pictures[k].ts \in DOMAIN building \cup {pictures[j].ts}
          PROVE  d[k] <= d[n]
        <3>1. d[k] \in Nat /\ (pictures[k].ts = pictures[j].ts => d[k] = d[j])
            BY AgesApart
        <3>2. d[k] <= d[m] \/ d[k] = d[j]
            BY <1>2, <2>2, <3>1
        <3>. QED  BY <2>1, <2>2, <3>1, <3>2
    <2>3. CASE d[m] <= d[j]
        BY <2>1, <2>2, <2>3
    <2>4. CASE ~(d[m] <= d[j])
        BY <2>1, <2>2, <2>4
    <2>. QED  BY <2>3, <2>4
<1>. QED  BY <1>1, <1>2 DEF NewestSeen

(* No picture is sent at first.                                            *)
LEMMA ClockStart == PicturesInit => ClockInv
<1>. SUFFICES ASSUME PicturesInit PROVE ClockInv
    OBVIOUS
<1>. DEFINE d == [k \in {} |-> 0]
<1>1. DOMAIN pictures = {} /\ DOMAIN building = {} /\ Len(pictures) = 0 /\ newest = -1 /\ copies = 0
    BY DEF PicturesInit
<1>2. OnTime(d) /\ NewestSeen(d)
    BY <1>1 DEF OnTime, NewestSeen
<1>3. MaxPictures \in Nat
    BY PicturesAssumption
<1>. QED  BY <1>1, <1>2, <1>3 DEF ClockInv

(* A picture is sent no earlier than the one before it.                    *)
LEMMA PutKeepsTime == ASSUME PictureTypes, ClockInv, Put PROVE ClockInv'
<1>. DEFINE k == Len(pictures) + 1
<1>0. MaxPictures \in Nat /\ pictures \in Seq(PictureRecords) /\ Len(pictures) \in Nat /\ copies \in Nat
    BY PicturesAssumption DEF PictureTypes, ClockInv
<1>1. PICK d : OnTime(d) /\ NewestSeen(d)
    BY DEF ClockInv
<1>2. PICK n \in Sizes, pause \in {0, 1} :
        /\ k = 1 => pause = 0
        /\ pictures' = Append(pictures,
              [key |-> k \in Keyframes, size |-> n,
               ts |-> IF k = 1 THEN FirstTs ELSE (pictures[k - 1].ts + pause) % TsSpace])
    BY DEF Put
<1>. DEFINE t == IF k = 1 THEN FirstTs ELSE (pictures[k - 1].ts + pause) % TsSpace
            e == IF k = 1 THEN 0 ELSE d[k - 1] + pause
<1>3. k <= MaxPictures /\ UNCHANGED <<copies, building, newest>>
    BY <1>0 DEF Put, assembler
<1>4. /\ DOMAIN pictures = 1 .. k - 1 /\ DOMAIN pictures' = 1 .. k /\ Len(pictures') = k
      /\ pictures'[k].ts = t /\ \A j \in 1 .. k - 1 : pictures'[j] = pictures[j]
    BY <1>0, <1>2
<1>5. /\ d \in [1 .. k - 1 -> Nat]
      /\ \A j \in 1 .. k - 1 : d[j] \in Nat /\ d[j] < j /\ pictures[j].ts = Wrapped(d[j])
      /\ \A i, j \in 1 .. k - 1 : i <= j => d[i] <= d[j]
    BY <1>1, <1>4 DEF OnTime
<1>6. e \in Nat /\ e < k /\ t = Wrapped(e) /\ \A j \in 1 .. k - 1 : d[j] <= e
    <2>1. CASE k = 1
        <3>1. Wrapped(0) = FirstTs
            BY PicturesAssumption DEF Wrapped
        <3>. QED  BY <2>1, <3>1
    <2>2. CASE k # 1
        <3>1. k - 1 \in 1 .. k - 1 /\ k \in Nat
            BY <1>0, <2>2
        <3>2. d[k - 1] \in Nat /\ d[k - 1] < k - 1 /\ pictures[k - 1].ts = Wrapped(d[k - 1])
            BY <1>5, <3>1
        <3>3. d[k - 1] + pause < MaxPictures
            BY <1>0, <1>3, <3>1, <3>2
        <3>4. (Wrapped(d[k - 1]) + pause) % TsSpace = Wrapped(d[k - 1] + pause)
            BY <3>2, <3>3, WrappedNext
        <3>5. \A j \in 1 .. k - 1 : d[j] <= d[k - 1] /\ d[j] \in Nat
            BY <1>5, <3>1
        <3>6. e = d[k - 1] + pause /\ t = (pictures[k - 1].ts + pause) % TsSpace
            BY <2>2
        <3>. HIDE DEF e, t
        <3>. QED  BY <3>1, <3>2, <3>4, <3>5, <3>6
    <2>. QED  BY <2>1, <2>2
<1>. HIDE DEF e, t
<1>7. k \in Nat
    BY <1>0
<1>. HIDE DEF k
<1>a. PICK g : g = [j \in 1 .. k |-> IF j = k THEN e ELSE d[j]]
    OBVIOUS
<1>8. /\ g \in [1 .. k -> Nat] /\ g[k] = e /\ \A j \in 1 .. k - 1 : g[j] = d[j]
    BY <1>5, <1>6, <1>7, <1>a
<1>9. OnTime(g)'
    <2>1. \A j \in 1 .. k : g[j] < j /\ pictures'[j].ts = Wrapped(g[j])
        BY <1>4, <1>5, <1>6, <1>7, <1>8
    <2>2. \A i, j \in 1 .. k : i <= j => g[i] <= g[j]
        <3>. SUFFICES ASSUME NEW i \in 1 .. k, NEW j \in 1 .. k, i <= j PROVE g[i] <= g[j]
            OBVIOUS
        <3>1. CASE j = k
            BY <1>6, <1>7, <1>8, <3>1
        <3>2. CASE j # k
            <4>1. i \in 1 .. k - 1 /\ j \in 1 .. k - 1
                BY <1>7, <3>2
            <4>. QED  BY <1>5, <1>8, <4>1
        <3>. QED  BY <3>1, <3>2
    <2>. QED  BY <1>4, <1>8, <2>1, <2>2 DEF OnTime, Wrapped
<1>10. NewestSeen(g)'
    <2>1. \A u \in DOMAIN building' : \E j \in DOMAIN pictures' : u = pictures'[j].ts
        <3>. SUFFICES ASSUME NEW u \in DOMAIN building PROVE \E j \in 1 .. k : u = pictures'[j].ts
            BY <1>3, <1>4
        <3>1. PICK j \in 1 .. k - 1 : u = pictures[j].ts
            BY <1>1, <1>4 DEF NewestSeen
        <3>2. j \in 1 .. k /\ u = pictures'[j].ts
            BY <1>4, <1>7, <3>1
        <3>. QED  BY <3>2
    <2>2. CASE newest = -1 /\ DOMAIN building = {}
        BY <1>3, <2>1, <2>2 DEF NewestSeen
    <2>3. ASSUME NEW m \in DOMAIN pictures, newest = pictures[m].ts,
                 \A j \in DOMAIN pictures : pictures[j].ts \in DOMAIN building => d[j] <= d[m]
          PROVE  \E x \in DOMAIN pictures' :
                    /\ newest' = pictures'[x].ts
                    /\ \A j \in DOMAIN pictures' : pictures'[j].ts \in DOMAIN building' => g[j] <= g[x]
        <3>1. m \in 1 .. k - 1 /\ m \in 1 .. k /\ newest' = pictures'[m].ts
            BY <1>3, <1>4, <1>7, <2>3
        <3>2. ASSUME NEW j \in 1 .. k - 1, pictures'[j].ts \in DOMAIN building PROVE g[j] <= g[m]
            BY <1>4, <1>8, <2>3, <3>1, <3>2
        <3>3. CASE ~(pictures'[k].ts \in DOMAIN building)
            <4>1. \A j \in 1 .. k : pictures'[j].ts \in DOMAIN building => g[j] <= g[m]
                BY <1>7, <3>2, <3>3
            <4>. QED  BY <1>3, <1>4, <3>1, <4>1
        <3>4. CASE pictures'[k].ts \in DOMAIN building
            \* Then it is of the time of one that builds already.
            <4>1. PICK i \in 1 .. k - 1 : pictures[i].ts = t
                BY <1>1, <1>4, <3>4 DEF NewestSeen
            <4>2. d[i] <= d[m]
                BY <1>4, <2>3, <3>4, <4>1
            <4>3. d[i] = e
                <5>1. d[i] \in Nat /\ d[i] < MaxPictures /\ e < MaxPictures
                    BY <1>0, <1>3, <1>5, <1>6, <1>7
                <5>2. Wrapped(d[i]) = Wrapped(e)
                    BY <1>5, <1>6, <4>1
                <5>. QED  BY <1>6, <5>1, <5>2, WrappedApart
            <4>4. \A j \in 1 .. k : pictures'[j].ts \in DOMAIN building => g[j] <= g[m]
                <5>1. g[k] <= g[m]
                    BY <1>8, <3>1, <4>2, <4>3
                <5>2. \A j \in 1 .. k : j = k \/ j \in 1 .. k - 1
                    BY <1>7
                <5>. QED  BY <3>2, <5>1, <5>2
            <4>. QED  BY <1>3, <1>4, <3>1, <4>4
        <3>. QED  BY <3>3, <3>4
    <2>. QED  BY <1>1, <2>1, <2>2, <2>3 DEF NewestSeen
<1>. QED  BY <1>0, <1>3, <1>4, <1>9, <1>10 DEF ClockInv

\* What a fragment of time ts leaves of what is building, when it is kept; and when
\* it contradicts what came before it.
Trimmed(ts, left, latest) ==
    /\ latest = Newer(ts, newest)
    /\ \E all \in {DOMAIN building, DOMAIN building \cup {ts}} :
          left \in {Latest(all, latest), Latest(all, latest) \ {ts}}
Dismissed(ts, left, latest) ==
    ts \in DOMAIN building /\ left = DOMAIN building \ {ts} /\ latest = newest

(* What a fragment leaves is one of these.                                 *)
LEMMA LeftOver ==
    ASSUME PictureTypes, Built, NEW f, IsFragment(f)
    PROVE  LET ts == pictures[f[1]].ts
               a == Assembled(f)
           IN  Trimmed(ts, DOMAIN a.building, a.newest) \/ Dismissed(ts, DOMAIN a.building, a.newest)
<1>. DEFINE p == pictures[f[1]]
            a == Assembled(f)
<1>1. PICK S : Handled(f, S)
    BY FragmentHandled
<1>2. CASE /\ p.size = 1 /\ S = Latest(DOMAIN building, Newer(p.ts, newest))
           /\ a = [building |-> Restrict(building, S), newest |-> Newer(p.ts, newest),
                   picture |-> <<f>>, lost |-> Cardinality(DOMAIN building) - Cardinality(S)]
    <2>1. S \subseteq DOMAIN building
        BY <1>2 DEF Latest
    <2>2. DOMAIN a.building = S /\ a.newest = Newer(p.ts, newest)
        BY <1>2, <2>1 DEF Restrict
    <2>. HIDE DEF a
    <2>3. Trimmed(p.ts, DOMAIN a.building, a.newest)
        BY <1>2, <2>2 DEF Trimmed
    <2>. QED  BY <2>3 DEF a
<1>3. CASE /\ p.ts \in DOMAIN building /\ S = DOMAIN building \ {p.ts}
           /\ a = [building |-> Restrict(building, S), newest |-> newest, picture |-> <<>>, lost |-> 1]
    <2>1. DOMAIN a.building = S /\ a.newest = newest
        BY <1>3 DEF Restrict
    <2>. HIDE DEF a
    <2>2. Dismissed(p.ts, DOMAIN a.building, a.newest)
        BY <1>3, <2>1 DEF Dismissed
    <2>. QED  BY <2>2 DEF a
<1>4. ASSUME NEW pieces, NEW done \in BOOLEAN,
             S = Latest(DOMAIN building \cup {p.ts}, Newer(p.ts, newest)),
             a = [building |-> [t \in S \ (IF done THEN {p.ts} ELSE {}) |->
                                   IF t = p.ts THEN pieces ELSE building[t]],
                  newest |-> Newer(p.ts, newest),
                  picture |-> IF done THEN pieces ELSE <<>>,
                  lost |-> Cardinality(DOMAIN building \cup {p.ts}) - Cardinality(S)]
      PROVE  Trimmed(p.ts, DOMAIN a.building, a.newest)
    <2>1. DOMAIN a.building = S \ (IF done THEN {p.ts} ELSE {}) /\ a.newest = Newer(p.ts, newest)
        BY <1>4
    <2>. HIDE DEF a
    <2>2. DOMAIN a.building \in {S, S \ {p.ts}}
        BY <2>1
    <2>. QED  BY <1>4, <2>1, <2>2 DEF Trimmed
<1>. QED  BY <1>1, <1>2, <1>3, <1>4 DEF Handled

(* The newest timestamp seen stays that of the latest.                     *)
LEMMA FeedKeepsTime == ASSUME PictureTypes, Built, ClockInv, Feed PROVE ClockInv'
<1>. DEFINE f == tap.fragment
            ts == pictures[f[1]].ts
<1>1. IsFragment(f) /\ f[1] \in DOMAIN pictures
    BY FragmentOf DEF Feed, PictureTypes
<1>2. /\ building' = Assembled(f).building /\ newest' = Assembled(f).newest
      /\ UNCHANGED <<pictures, copies>>
    BY DEF Feed
<1>3. Trimmed(ts, DOMAIN building', newest') \/ Dismissed(ts, DOMAIN building', newest')
    BY <1>1, <1>2, LeftOver
<1>4. PICK d : OnTime(d) /\ NewestSeen(d)
    BY DEF ClockInv
<1>5. OnTime(d)'
    BY <1>2, <1>4 DEF OnTime, Wrapped
<1>6. DOMAIN building' \subseteq DOMAIN building \cup {ts}
    BY <1>3 DEF Trimmed, Dismissed, Latest
<1>7. \A t \in DOMAIN building' : \E k \in DOMAIN pictures' : t = pictures'[k].ts
    BY <1>1, <1>2, <1>4, <1>6 DEF NewestSeen
<1>8. CASE Trimmed(ts, DOMAIN building', newest')
    <2>1. PICK m \in DOMAIN pictures :
              /\ Newer(ts, newest) = pictures[m].ts
              /\ \A k \in DOMAIN pictures : pictures[k].ts \in DOMAIN building \cup {ts} => d[k] <= d[m]
        BY <1>1, <1>4, NewestStays DEF ClockInv
    <2>2. newest' = pictures'[m].ts /\ m \in DOMAIN pictures'
        BY <1>2, <1>8, <2>1 DEF Trimmed
    <2>3. \A k \in DOMAIN pictures' : pictures'[k].ts \in DOMAIN building' => d[k] <= d[m]
        BY <1>2, <1>6, <2>1
    <2>4. NewestSeen(d)'
        BY <1>7, <2>2, <2>3 DEF NewestSeen
    <2>. QED  BY <1>2, <1>5, <2>4 DEF ClockInv
<1>9. CASE Dismissed(ts, DOMAIN building', newest')
    <2>1. PICK m \in DOMAIN pictures :
              /\ newest = pictures[m].ts
              /\ \A k \in DOMAIN pictures : pictures[k].ts \in DOMAIN building => d[k] <= d[m]
        BY <1>4, <1>9 DEF Dismissed, NewestSeen
    <2>2. newest' = pictures'[m].ts /\ m \in DOMAIN pictures'
        BY <1>2, <1>9, <2>1 DEF Dismissed
    <2>3. \A k \in DOMAIN pictures' : pictures'[k].ts \in DOMAIN building' => d[k] <= d[m]
        BY <1>2, <1>9, <2>1 DEF Dismissed
    <2>4. NewestSeen(d)'
        BY <1>7, <2>2, <2>3 DEF NewestSeen
    <2>. QED  BY <1>2, <1>5, <2>4 DEF ClockInv
<1>. QED  BY <1>3, <1>8, <1>9

(* Every step keeps it.                                                    *)
LEMMA ClockStep == ASSUME PicturesInv, ClockInv, [PicturesNext]_pictureVars PROVE ClockInv'
<1>0. PictureTypes /\ Built
    BY DEF PicturesInv
<1>1. CASE UNCHANGED <<pictures, building, newest>> /\ copies' \in {copies, copies + 1}
    BY <1>1 DEF ClockInv, OnTime, Wrapped, NewestSeen
<1>2. CASE Put
    BY <1>0, <1>2, PutKeepsTime
<1>3. ASSUME NEW f \in Fragments, Take(f) PROVE ClockInv'
    BY <1>1, <1>3 DEF Take, assembler
<1>4. CASE Feed
    BY <1>0, <1>4, FeedKeepsTime
<1>5. CASE Decode
    BY <1>1, <1>5 DEF Decode, assembler
<1>6. CASE UNCHANGED pictureVars
    BY <1>1, <1>6 DEF pictureVars, assembler
<1>. QED  BY <1>2, <1>3, <1>4, <1>5, <1>6 DEF PicturesNext

(* A set of numbers that is not empty has a least one.                     *)
LEMMA LeastNumber ==
    ASSUME NEW N \in SUBSET Nat, N # {} PROVE \E n \in N : \A m \in N : n <= m
<1>1. PICK n \in N : \A m \in N : ~(<<m, n>> \in OpToRel(<, Nat))
    BY WFMin, NatLessThanWellFounded
<1>2. ASSUME NEW m \in N PROVE n <= m
    <2>1. <<m, n>> \in Nat \X Nat /\ <<m, n>>[1] = m /\ <<m, n>>[2] = n
        OBVIOUS
    <2>2. m < n => <<m, n>> \in OpToRel(<, Nat)
        BY <2>1, Zenon DEF OpToRel
    <2>3. ~(m < n)
        BY <1>1, <2>2, Zenon
    <2>. QED  BY <2>3
<1>. QED  BY <1>2

(* One that is given up leaves as many younger ones as may be in flight.   *)
LEMMA GivenUp ==
    ASSUME NEW all, IsFiniteSet(all), NEW latest, \A u \in all : Age(u, latest) \in Nat,
           NEW t \in all, t \notin Latest(all, latest)
    PROVE  /\ IsFiniteSet(Latest(all, latest)) /\ Cardinality(Latest(all, latest)) >= InFlight
           /\ \A u \in Latest(all, latest) : Age(u, latest) < Age(t, latest)
<1>. DEFINE Younger(x) == {u \in all : Age(u, latest) < Age(x, latest)}
            left == Latest(all, latest)
<1>0. InFlight \in Nat /\ \A S \in SUBSET all : IsFiniteSet(S) /\ Cardinality(S) \in Nat
    BY PicturesAssumption, FS_Subset, FS_CardinalityType
<1>1. left = {u \in all : Cardinality(Younger(u)) < InFlight}
    BY DEF Latest
<1>2. left \subseteq all /\ \A u \in all : u \in left <=> Cardinality(Younger(u)) < InFlight
    BY <1>1
<1>3. \A u, x \in all : Age(x, latest) <= Age(u, latest) => Cardinality(Younger(x)) <= Cardinality(Younger(u))
    <2>. SUFFICES ASSUME NEW u \in all, NEW x \in all, Age(x, latest) <= Age(u, latest)
                  PROVE  Cardinality(Younger(x)) <= Cardinality(Younger(u))
        OBVIOUS
    <2>1. Younger(x) \subseteq Younger(u) /\ Younger(u) \in SUBSET all
        OBVIOUS
    <2>. QED  BY <1>0, <2>1, FS_Subset
<1>4. \A S \in SUBSET all : S # {} => \E x \in S : \A u \in S : Age(x, latest) <= Age(u, latest)
    <2>. SUFFICES ASSUME NEW S \in SUBSET all, S # {}
                  PROVE  \E x \in S : \A u \in S : Age(x, latest) <= Age(u, latest)
        OBVIOUS
    <2>. DEFINE ages == {Age(u, latest) : u \in S}
    <2>1. ages \in SUBSET Nat /\ ages # {}
        OBVIOUS
    <2>2. PICK n \in ages : \A m \in ages : n <= m
        BY <2>1, LeastNumber
    <2>. QED  BY <2>2
<1>5. PICK x \in all \ left : \A u \in all \ left : Age(x, latest) <= Age(u, latest)
    BY <1>4
<1>. HIDE DEF Younger, left
<1>6. Younger(x) \subseteq left /\ ~(Cardinality(Younger(x)) < InFlight) /\ Younger(x) \in SUBSET all
    BY <1>2, <1>5 DEF Younger
<1>7. Cardinality(left) >= InFlight
    <2>1. Cardinality(Younger(x)) <= Cardinality(left)
        BY <1>0, <1>2, <1>6, FS_Subset
    <2>. QED  BY <1>0, <1>2, <1>6, <2>1
<1>8. ASSUME NEW u \in left PROVE Age(u, latest) < Age(t, latest)
    <2>1. u \in all /\ t \in all \ left
        BY <1>2 DEF left
    <2>2. Cardinality(Younger(u)) < InFlight /\ ~(Cardinality(Younger(t)) < InFlight)
        BY <1>2, <2>1
    <2>3. Younger(u) \in SUBSET all /\ Younger(t) \in SUBSET all
        BY DEF Younger
    <2>4. ~(Age(t, latest) <= Age(u, latest))
        BY <1>0, <1>3, <2>1, <2>2, <2>3
    <2>. QED  BY <2>1, <2>4
<1>. QED  BY <1>0, <1>2, <1>7, <1>8 DEF left

(* The place of a timestamp is that of a picture of it.                    *)
LEMMA PlaceOf ==
    ASSUME PictureTypes, NEW k \in DOMAIN pictures
    PROVE  Place(pictures[k].ts) \in DOMAIN pictures /\ pictures[Place(pictures[k].ts)].ts = pictures[k].ts
<1>. DEFINE places == {j \in DOMAIN pictures : pictures[j].ts = pictures[k].ts}
<1>1. places \in SUBSET Nat /\ places # {}
    BY DEF PictureTypes
<1>2. PICK n \in places : \A m \in places : n <= m
    BY <1>1, LeastNumber
<1>3. n \in DOMAIN pictures /\ pictures[n].ts = pictures[k].ts
      /\ \A j \in DOMAIN pictures : pictures[j].ts = pictures[k].ts => n <= j
    BY <1>2
<1>. QED  BY <1>3 DEF Place

\* What OldestGivenUp says of a step.
GivenUpInOrder ==
    \A t \in DOMAIN building \ DOMAIN building' :
        t # pictures[tap.fragment[1]].ts =>
            /\ Cardinality(DOMAIN building') >= InFlight - 1
            /\ \A u \in DOMAIN building' : Place(u) > Place(t)

(* What a fragment makes the assembler give up is older than all it keeps. *)
LEMMA FeedGivesUpInOrder == ASSUME PictureTypes, Built, ClockInv, Feed PROVE GivenUpInOrder
<1>. DEFINE f == tap.fragment
            ts == pictures[f[1]].ts
            left == DOMAIN building'
<1>1. IsFragment(f) /\ f[1] \in DOMAIN pictures
    BY FragmentOf DEF Feed, PictureTypes
<1>2. building' = Assembled(f).building /\ newest' = Assembled(f).newest
    BY DEF Feed
<1>3. Trimmed(ts, left, newest') \/ Dismissed(ts, left, newest')
    BY <1>1, <1>2, LeftOver
<1>4. PICK d : OnTime(d) /\ NewestSeen(d)
    BY DEF ClockInv
<1>5. Len(pictures) <= MaxPictures /\ IsFiniteSet(DOMAIN building)
      /\ InFlight \in Nat /\ \A j, k \in DOMAIN pictures : j <= k => d[j] <= d[k]
    BY <1>4, PicturesAssumption DEF ClockInv, OnTime, PictureTypes
<1>. SUFFICES ASSUME NEW t \in DOMAIN building \ left, t # ts
              PROVE  Cardinality(left) >= InFlight - 1 /\ \A u \in left : Place(u) > Place(t)
    BY DEF GivenUpInOrder
<1>6. PICK all \in {DOMAIN building, DOMAIN building \cup {ts}} :
          left \in {Latest(all, newest'), Latest(all, newest') \ {ts}} /\ newest' = Newer(ts, newest)
    BY <1>3 DEF Trimmed, Dismissed
<1>7. PICK m \in DOMAIN pictures :
          /\ newest' = pictures[m].ts
          /\ \A k \in DOMAIN pictures : pictures[k].ts \in all => d[k] <= d[m]
    <2>1. \E m \in DOMAIN pictures :
              /\ Newer(ts, newest) = pictures[m].ts
              /\ \A k \in DOMAIN pictures : pictures[k].ts \in DOMAIN building \cup {ts} => d[k] <= d[m]
        BY <1>1, <1>4, <1>5, NewestStays
    <2>. QED  BY <1>6, <2>1
<1>8. ASSUME NEW u \in all
      PROVE  /\ Place(u) \in DOMAIN pictures /\ Place(u) \in Nat
             /\ d[Place(u)] \in Nat /\ d[m] \in Nat /\ d[Place(u)] <= d[m]
             /\ Age(u, newest') = d[m] - d[Place(u)]
    <2>1. PICK k \in DOMAIN pictures : u = pictures[k].ts
        BY <1>1, <1>4, <1>6, <1>8 DEF NewestSeen
    <2>2. Place(u) \in DOMAIN pictures /\ pictures[Place(u)].ts = u
        BY <2>1, PlaceOf
    <2>3. d[Place(u)] <= d[m]
        BY <1>7, <1>8, <2>2
    <2>4. Place(u) \in Nat /\ d[Place(u)] \in Nat /\ d[m] \in Nat
          /\ Age(pictures[Place(u)].ts, pictures[m].ts) = d[m] - d[Place(u)]
        BY <1>4, <1>5, <2>2, <2>3, AgesApart
    <2>. QED  BY <1>7, <2>2, <2>3, <2>4
<1>9. IsFiniteSet(all) /\ t \in all /\ t \notin Latest(all, newest')
    <2>1. IsFiniteSet(DOMAIN building \cup {ts})
        BY <1>5, FS_AddElement
    <2>. QED  BY <1>5, <1>6, <2>1
<1>10. \A u \in all : Age(u, newest') \in Nat
    BY <1>8
<1>11. PICK latest : latest = newest'
    OBVIOUS
<1>12. /\ IsFiniteSet(Latest(all, latest)) /\ Cardinality(Latest(all, latest)) >= InFlight
       /\ \A u \in Latest(all, latest) : Age(u, latest) < Age(t, latest)
    BY <1>9, <1>10, <1>11, GivenUp
<1>. HIDE DEF left
<1>13. left \in {Latest(all, latest), Latest(all, latest) \ {ts}}
    BY <1>6, <1>11 DEF left
<1>14. Cardinality(left) >= InFlight - 1
    <2>. DEFINE kept == Latest(all, latest)
    <2>1. Cardinality(kept) \in Nat
        BY <1>12, FS_CardinalityType
    <2>. HIDE DEF kept
    <2>2. ASSUME ts \in kept PROVE Cardinality(kept \ {ts}) = Cardinality(kept) - 1
        BY <1>12, <2>2, FS_RemoveElement DEF kept
    <2>3. ts \notin kept => kept \ {ts} = kept
        OBVIOUS
    <2>4. left \in {kept, kept \ {ts}}
        BY <1>13 DEF kept
    <2>5. Cardinality(kept) >= InFlight
        BY <1>12 DEF kept
    <2>6. Cardinality(left) = Cardinality(kept) \/ Cardinality(left) = Cardinality(kept) - 1
        <3>1. CASE left = kept
            BY <3>1
        <3>2. CASE left = kept \ {ts} /\ ts \in kept
            BY <2>2, <3>2
        <3>3. CASE left = kept \ {ts} /\ ts \notin kept
            BY <2>3, <3>3
        <3>. QED  BY <2>4, <3>1, <3>2, <3>3
    <2>7. InFlight \in Nat
        BY <1>5
    <2>. QED  BY <2>1, <2>5, <2>6, <2>7
<1>15. ASSUME NEW u \in left PROVE Place(u) > Place(t)
    <2>1. u \in Latest(all, latest) /\ u \in all
        BY <1>13 DEF Latest
    <2>2. Age(u, latest) < Age(t, latest)
        BY <1>12, <2>1
    <2>3. /\ Place(u) \in DOMAIN pictures /\ Place(u) \in Nat /\ d[Place(u)] \in Nat
          /\ d[m] \in Nat /\ Age(u, latest) = d[m] - d[Place(u)]
        BY <1>8, <1>11, <2>1
    <2>4. /\ Place(t) \in DOMAIN pictures /\ Place(t) \in Nat /\ d[Place(t)] \in Nat
          /\ Age(t, latest) = d[m] - d[Place(t)]
        BY <1>8, <1>9, <1>11
    <2>5. d[Place(t)] < d[Place(u)]
        BY <2>2, <2>3, <2>4
    <2>6. ~(Place(u) <= Place(t))
        BY <1>5, <2>3, <2>4, <2>5
    <2>. QED  BY <2>3, <2>4, <2>6
<1>. QED  BY <1>14, <1>15 DEF left

(* And nothing else gives any up.                                          *)
LEMMA GivesUpInOrder ==
    ASSUME PicturesInv, ClockInv, [PicturesNext]_pictureVars PROVE [GivenUpInOrder]_pictureVars
<1>0. PictureTypes /\ Built
    BY DEF PicturesInv
<1>1. UNCHANGED building => GivenUpInOrder
    BY DEF GivenUpInOrder
<1>2. CASE Put
    BY <1>1, <1>2 DEF Put, assembler
<1>3. ASSUME NEW f \in Fragments, Take(f) PROVE GivenUpInOrder
    BY <1>1, <1>3 DEF Take, assembler
<1>4. CASE Feed
    BY <1>0, <1>4, FeedGivesUpInOrder
<1>5. CASE Decode
    BY <1>1, <1>5 DEF Decode, assembler
<1>6. CASE UNCHANGED pictureVars
    BY <1>6
<1>. QED  BY <1>2, <1>3, <1>4, <1>5, <1>6 DEF PicturesNext

----------------------------------------------------------------------------
(* Together.                                                               *)

(* One part runs and the others rest.                                      *)
LEMMA PartsSteps ==
    ASSUME [MCNext]_allVars
    PROVE  /\ [PicturesNext]_pictureVars /\ [SteerNext]_steerVars
           /\ [PacerNext]_pacerVars /\ [EngineNext]_engineVars
BY DEF MCNext, allVars

(* No more than one datagram's time, with what is skipped and the longest  *)
(* a sleep is late, ever goes out at once, at any rate: what the pacer     *)
(* means to wait for bounds what lies in the buffer. (Pacer::take)         *)
THEOREM SharePaced == MCSpec => []NoBurst
<1>1. MCInit => PacerInv
    BY PacerStart DEF MCInit
<1>2. PacerInv /\ [MCNext]_allVars => PacerInv'
    BY PartsSteps, PacerStep
<1>3. PacerInv => NoBurst
    BY DEF PacerInv
<1>. QED  BY <1>1, <1>2, <1>3, PTL DEF MCSpec

(* However fragments are lost, repeated and reordered, the decoder is only *)
(* given whole pictures that are what they are said to be, unless two of   *)
(* one millisecond were cut alike; and what was dropped adds up by its     *)
(* causes, but for what is refused while the tap counts. (Reassembler::feed, *)
(* Tap::feed, decode_loop)                                                 *)
THEOREM ShareAccounted == MCSpec => []Accounted
<1>1. MCInit => PicturesInv
    BY PicturesStart DEF MCInit
<1>2. PicturesInv /\ [MCNext]_allVars => PicturesInv'
    BY PartsSteps, PicturesStep
<1>3. PicturesInv => Accounted
    BY AccountedHeld
<1>. QED  BY <1>1, <1>2, <1>3, PTL DEF MCSpec

(* A picture is only given up for as many later ones as may be in flight,  *)
(* wherever in the timestamps' range a share begins, as long as it sends   *)
(* fewer pictures than half the range. (note_newest)                       *)
THEOREM ShareGivesUpOldest == MCSpec => OldestGivenUp
<1>1. MCInit => PicturesInv /\ ClockInv
    BY PicturesStart, ClockStart DEF MCInit
<1>2. PicturesInv /\ ClockInv /\ [MCNext]_allVars =>
        /\ PicturesInv' /\ ClockInv'
        /\ [\A t \in DOMAIN building \ DOMAIN building' :
                t # pictures[tap.fragment[1]].ts =>
                    /\ Cardinality(DOMAIN building') >= InFlight - 1
                    /\ \A u \in DOMAIN building' : Place(u) > Place(t)]_pictureVars
    BY PartsSteps, PicturesStep, ClockStep, GivesUpInOrder DEF GivenUpInOrder
<1>. QED  BY <1>1, <1>2, PTL DEF MCSpec, OldestGivenUp

(* The encoder runs between the floor and what the user asked for, within  *)
(* the twentieth that is not worth a restart of what the governor settled  *)
(* on, whatever the setting and whatever viewers report. (steer_share,     *)
(* Governor::step, worth_changing)                                         *)
THEOREM ShareRateFollows == MCSpec => []RateFollows
<1>1. MCInit => SteerInv
    BY SteerStart DEF MCInit
<1>2. SteerInv /\ [MCNext]_allVars => SteerInv'
    BY PartsSteps, SteerStep
<1>3. SteerInv => RateFollows
    BY RateHeld
<1>. QED  BY <1>1, <1>2, <1>3, PTL DEF MCSpec

(* A loss one viewer reported takes the rate down at the governor's next   *)
(* step, or the rate is within a twentieth of the floor: no better report  *)
(* of another viewer hides it. (Governor::report, Governor::step)          *)
THEOREM ShareYields == MCSpec => Yields
<1>1. MCInit => SteerInv
    BY SteerStart DEF MCInit
<1>2. SteerInv /\ [MCNext]_allVars =>
        /\ SteerInv'
        /\ [(heard' = {} /\ turns' = turns /\ \E loss \in heard : loss >= TooMuch) =>
                rate' < rate \/ (rate' - Floor) * 20 <= rate']_steerVars
    BY PartsSteps, SteerStep, YieldsHeld
<1>. QED  BY <1>1, <1>2, PTL DEF MCSpec, Yields

(* Whenever a share has been dropped, or has failed to start at any of its *)
(* steps, no child process and no thread of it is left, but for one that   *)
(* could not be given its work. (Drop for Share, start_share)              *)
THEOREM ShareLeavesNothing == MCSpec => []NothingRunsOn
<1>1. MCInit => EngineInv
    BY EngineStart DEF MCInit
<1>2. EngineInv /\ [MCNext]_allVars => EngineInv'
    BY PartsSteps, EngineStep
<1>3. EngineInv => NothingRunsOn
    BY NothingLeft
<1>. QED  BY <1>1, <1>2, <1>3, PTL DEF MCSpec

=============================================================================

------------------------------- MODULE Capture -------------------------------
(***************************************************************************)
(* The pictures of a share on macOS: ScreenCaptureKit delivers a frame     *)
(* when the screen changes, on a queue of its own; the heartbeat's thread  *)
(* sends the last one again while nothing changes                          *)
(* (crates/boa-client/src/screen/mac/capture.rs); VideoToolbox encodes     *)
(* what either hands over and calls back with the picture (mac/encode.rs); *)
(* and the sending thread puts it on the wire (screen/send.rs).            *)
(*                                                                         *)
(* Time goes by in steps of HEARTBEAT, half a second.  A thread with       *)
(* something to do does it within one, except for MaxStalls times.         *)
(***************************************************************************)
EXTENDS Integers, Sequences

CONSTANTS
    Room,           \* QUEUE: pictures that may wait for the sender
    KeyEvery,       \* MaxKeyFrameIntervalDuration, in steps
    MaxFrames,      \* bound on the frames the screen delivers
    MaxRejects,     \* bound on the frames the encoder rejects
    MaxWants,       \* bound on the keyframes asked for
    MaxStalls       \* bound on the steps of time that overtake a thread

ASSUME CaptureAssumption ==
    /\ Room \in Nat \ {0} /\ KeyEvery \in Nat \ {0} /\ MaxFrames \in Nat
    /\ MaxRejects \in Nat /\ MaxWants \in Nat /\ MaxStalls \in Nat

VARIABLES
    frames,     \* Heartbeat.frames; a frame is known by its number
    last,       \* Heartbeat.last, 0 for None
    fed,        \* how long ago something was fed, at most one step
    keyframe,   \* Heartbeat.keyframe
    screen,     \* the capture's queue: the frame it has to feed, and whether
                \*   as a keyframe; or the one it has to store
    heart,      \* the heartbeat's thread: the frame it is about to send again
    encoding,   \* frames in VideoToolbox
    sinceKey,   \* how long ago the encoder made a keyframe, at most KeyEvery
    ready,      \* the channel: pictures that wait for the sender
    shown,      \* the frame in the picture sent last
    keySent,    \* the picture sent last was a keyframe
    used        \* what was used up of the bounds

captureVars ==
    <<frames, last, fed, keyframe, screen, heart, encoding, sinceKey, ready, shown, keySent, used>>

Idle == [do |-> "nothing", frame |-> 0, force |-> FALSE]

----------------------------------------------------------------------------
(* VideoToolbox.                                                           *)

\* A keyframe when one is asked for and when the last is too long ago.
MakesKey(force) == force \/ sinceKey = KeyEvery

\* Heartbeat::feed with Encoder::encode: the encoder takes a frame, or rejects it.
FeedFrame(frame, force) ==
    \/ /\ encoding' = Append(encoding, [frame |-> frame, key |-> MakesKey(force)])
       /\ sinceKey' = IF MakesKey(force) THEN 0 ELSE sinceKey
       /\ fed' = 0
       /\ UNCHANGED used
    \/ /\ used.rejects < MaxRejects
       /\ used' = [used EXCEPT !.rejects = @ + 1]
       /\ UNCHANGED <<encoding, sinceKey, fed>>

\* on_encoded: the picture goes to the sender, unless too many wait for it.
OnEncoded ==
    /\ encoding # <<>>
    /\ encoding' = Tail(encoding)
    /\ ready' = IF Len(ready) < Room THEN Append(ready, Head(encoding)) ELSE ready
    /\ UNCHANGED <<frames, last, fed, keyframe, screen, heart, sinceKey, shown, keySent, used>>

----------------------------------------------------------------------------
(* The capture's queue: did_output.                                        *)

\* A frame arrives; whether it is to be a keyframe is taken from the flag.
DidOutput ==
    /\ screen.do = "nothing" /\ frames < MaxFrames
    /\ frames' = frames + 1
    /\ screen' = [do |-> "feed", frame |-> frames + 1, force |-> keyframe]
    /\ keyframe' = FALSE
    /\ UNCHANGED <<last, fed, heart, encoding, sinceKey, ready, shown, keySent, used>>

FeedOutput ==
    /\ screen.do = "feed"
    /\ FeedFrame(screen.frame, screen.force)
    /\ screen' = [screen EXCEPT !.do = "store"]
    /\ UNCHANGED <<frames, last, keyframe, heart, ready, shown, keySent>>

\* Mistake: only the first frame is kept.
FirstOnly(frame) == IF last = 0 THEN frame ELSE last

\* What is kept for the heartbeat.
Kept(frame) == frame

StoreOutput ==
    /\ screen.do = "store"
    /\ last' = Kept(screen.frame)
    /\ screen' = Idle
    /\ UNCHANGED <<frames, fed, keyframe, heart, encoding, sinceKey, ready, shown, keySent, used>>

----------------------------------------------------------------------------
(* The heartbeat's thread: keep_alive.                                     *)

\* Nothing was fed for a while; the last frame is copied out of the lock.
Beat ==
    /\ heart = 0 /\ fed = 1 /\ last # 0
    /\ heart' = last
    /\ UNCHANGED <<frames, last, fed, keyframe, screen, encoding, sinceKey, ready, shown, keySent, used>>

FeedAgain ==
    /\ heart # 0
    /\ FeedFrame(heart, FALSE)
    /\ heart' = 0
    /\ UNCHANGED <<frames, last, keyframe, screen, ready, shown, keySent>>

----------------------------------------------------------------------------
\* The sending thread, pump_pictures: the next picture goes on the wire.
SendPicture ==
    /\ ready # <<>>
    /\ ready' = Tail(ready)
    /\ shown' = Head(ready).frame
    /\ keySent' = Head(ready).key
    /\ UNCHANGED <<frames, last, fed, keyframe, screen, heart, encoding, sinceKey, used>>

\* Capture::want_keyframe
WantKeyframe ==
    /\ used.wants < MaxWants
    /\ used' = [used EXCEPT !.wants = @ + 1]
    /\ keyframe' = TRUE
    /\ UNCHANGED <<frames, last, fed, screen, heart, encoding, sinceKey, ready, shown, keySent>>

\* Half a second goes by.
Tick ==
    LET busy == \/ screen # Idle \/ heart # 0 \/ encoding # <<>> \/ ready # <<>>
                \/ fed = 1 /\ last # 0
    IN
    /\ busy => used.stalls < MaxStalls
    /\ used' = IF busy THEN [used EXCEPT !.stalls = @ + 1] ELSE used
    /\ fed' = 1
    /\ sinceKey' = IF sinceKey < KeyEvery THEN sinceKey + 1 ELSE sinceKey
    \* What was sent last is news no longer.
    /\ keySent' = FALSE
    /\ UNCHANGED <<frames, last, keyframe, screen, heart, encoding, ready, shown>>

CaptureInit ==
    /\ frames = 0 /\ last = 0 /\ fed = 0 /\ keyframe = TRUE
    /\ screen = Idle /\ heart = 0
    /\ encoding = <<>> /\ sinceKey = KeyEvery /\ ready = <<>>
    /\ shown = 0 /\ keySent = FALSE
    /\ used = [rejects |-> 0, wants |-> 0, stalls |-> 0]

CaptureNext ==
    \/ DidOutput \/ FeedOutput \/ StoreOutput
    \/ Beat \/ FeedAgain
    \/ OnEncoded \/ SendPicture
    \/ WantKeyframe \/ Tick

\* Every thread goes on, and so does time; the screen need not change.
CaptureFairness ==
    /\ WF_captureVars(FeedOutput) /\ WF_captureVars(StoreOutput)
    /\ WF_captureVars(Beat) /\ WF_captureVars(FeedAgain)
    /\ WF_captureVars(OnEncoded) /\ WF_captureVars(SendPicture) /\ WF_captureVars(Tick)

CaptureSpec == CaptureInit /\ [][CaptureNext]_captureVars /\ CaptureFairness

----------------------------------------------------------------------------
(* When the screen comes to rest, what it shows then is what is sent last, *)
(* whatever was rejected, dropped for want of room or sent again late.     *)
(* (keep_alive, did_output, on_encoded)                                    *)
LastFrameShown == <>[](shown = frames)

(* Keyframes keep coming however still the screen is, so that who starts   *)
(* to watch sees something -- once it has shown anything. (keep_alive,     *)
(* Encoder::encode)                                                        *)
KeyframesKeepComing == (frames > 0) ~> []<>keySent

(* A share comes through for who watches now and who will: LastFrameShown  *)
(* and KeyframesKeepComing.                                                *)
Recovers == LastFrameShown /\ KeyframesKeepComing

=============================================================================

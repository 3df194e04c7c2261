-------------------------------- MODULE Line --------------------------------
(***************************************************************************)
(* What a voice session holds, and how it comes and goes: the devices and  *)
(* threads of VoiceSession in crates/boa-client/src/audio/pipeline.rs      *)
(* (start, Drop) and the interface that replaces one session by another    *)
(* (ui/mod.rs, start_voice).  Starting and dropping are sequences of steps *)
(* of the interface's thread, any of which may fail; a session's own two   *)
(* threads run beside them and may end by an error of their own.           *)
(*                                                                         *)
(* Sessions are numbered as they are started.  A microphone can be open    *)
(* once only.                                                              *)
(***************************************************************************)
EXTENDS Integers, FiniteSets

CONSTANTS
    MaxSessions,  \* bound on the sessions started
    MaxMishaps    \* bound on what fails

ASSUME LineAssumption == MaxSessions \in Nat /\ MaxMishaps \in Nat

VARIABLES
    begun,      \* sessions started so far
    voice,      \* App.voice: the session in use, 0 for none
    going,      \* the session being dropped, 0 for none
    doing,      \* what the interface does next, "nothing" between its handlers,
    after,      \*   and once a session is dropped
    mic,        \* the session whose input stream is open, 0 for none
    speakers,   \* the session whose output stream is open, 0 for none
    stops,      \* sessions whose Shared.stop is set
    running,    \* the threads that run, as pairs of a name and a session
    mishaps,    \* failures so far
    listeners,  \* sessions whose microphone was refused (history)
    abandoned   \* sessions that failed to start with a thread running (history)

held == <<mic, speakers>>
lineVars == <<begun, voice, going, doing, after, held, stops, running, mishaps, listeners, abandoned>>

Failing == mishaps < MaxMishaps /\ mishaps' = mishaps + 1

Goes(step) == doing = step

----------------------------------------------------------------------------
(* Dropping a session: VoiceSession::drop.                                 *)

\* Mistake: a new session starts while the old one is still there.
BesideTheOld == "open"

\* start_voice: the previous session goes first, so its devices are released
\* before the new ones open.
FirstOfStart == IF voice # 0 THEN "stop" ELSE "open"

StartVoice ==
    /\ Goes("nothing") /\ begun < MaxSessions
    /\ begun' = begun + 1
    /\ going' = voice /\ voice' = 0
    /\ doing' = FirstOfStart /\ after' = "open"
    /\ UNCHANGED <<held, stops, running, mishaps, listeners, abandoned>>

\* Whatever else sets App.voice to None.
EndVoice ==
    /\ Goes("nothing") /\ voice # 0
    /\ going' = voice /\ voice' = 0
    /\ doing' = "stop" /\ after' = "nothing"
    /\ UNCHANGED <<begun, held, stops, running, mishaps, listeners, abandoned>>

SetStop ==
    /\ Goes("stop") /\ doing' = "close"
    /\ stops' = stops \cup {going}
    /\ UNCHANGED <<begun, voice, going, after, held, running, mishaps, listeners, abandoned>>

Released(device, n) == IF device = n THEN 0 ELSE device

\* The streams go before the threads are waited for.
CloseStreams ==
    /\ Goes("close") /\ doing' = "join"
    /\ mic' = Released(mic, going) /\ speakers' = Released(speakers, going)
    /\ UNCHANGED <<begun, voice, going, after, stops, running, mishaps, listeners, abandoned>>

Join ==
    /\ Goes("join") /\ doing' = after
    /\ \A thread \in {"tx", "rx"} : <<thread, going>> \notin running
    /\ going' = 0
    /\ UNCHANGED <<begun, voice, after, held, stops, running, mishaps, listeners, abandoned>>

----------------------------------------------------------------------------
(* Starting one: VoiceSession::start. What it made is dropped if it fails. *)

GiveUp ==
    /\ Failing
    /\ mic' = Released(mic, begun) /\ speakers' = Released(speakers, begun)
    /\ doing' = "nothing"

Step(from, to) == Goes(from) /\ doing' = to /\ UNCHANGED mishaps

OpenTransport ==
    /\ \/ /\ Step("open", "capture") /\ UNCHANGED held
       \/ /\ Goes("open") /\ GiveUp
    /\ UNCHANGED <<begun, voice, going, after, stops, running, listeners, abandoned>>

\* start_capture: a session without a microphone can listen.
StartCapture ==
    /\ Goes("capture")
    /\ \/ /\ mic' = IF mic = 0 THEN begun ELSE mic
          /\ UNCHANGED <<mishaps, listeners>>
       \/ /\ Failing /\ listeners' = listeners \cup {begun}
          /\ UNCHANGED mic
    /\ doing' = "playback"
    /\ UNCHANGED <<begun, voice, going, after, speakers, stops, running, abandoned>>

StartPlayback ==
    /\ \/ Step("playback", "send") /\ speakers' = begun /\ UNCHANGED mic
       \/ Goes("playback") /\ GiveUp
    /\ UNCHANGED <<begun, voice, going, after, stops, running, listeners, abandoned>>

\* spawn_tx, with a clone of the transport
SpawnTx ==
    /\ \/ Step("send", "spare") /\ running' = running \cup {<<"tx", begun>>} /\ UNCHANGED held
       \/ Goes("send") /\ GiveUp /\ UNCHANGED running
    /\ UNCHANGED <<begun, voice, going, after, stops, listeners, abandoned>>

\* The spare handle: if it cannot be had, nothing stops the thread that
\* already sends.
CloneSpare ==
    /\ \/ Step("spare", "receive") /\ UNCHANGED <<held, abandoned>>
       \/ Goes("spare") /\ GiveUp /\ abandoned' = abandoned \cup {begun}
    /\ UNCHANGED <<begun, voice, going, after, stops, running, listeners>>

SpawnRx ==
    /\ Step("receive", "nothing")
    /\ running' = running \cup {<<"rx", begun>>}
    /\ voice' = begun
    /\ UNCHANGED <<begun, going, after, held, stops, listeners, abandoned>>

----------------------------------------------------------------------------
(* The threads.                                                            *)

\* run_tx and run_rx end within one read timeout of the flag, or by an error.
Return(thread, n) ==
    /\ <<thread, n>> \in running
    /\ IF n \in stops THEN UNCHANGED mishaps ELSE Failing
    /\ running' = running \ {<<thread, n>>}
    /\ UNCHANGED <<begun, voice, going, doing, after, held, stops, listeners, abandoned>>

LineInit ==
    /\ begun = 0 /\ voice = 0 /\ going = 0 /\ doing = "nothing" /\ after = "nothing"
    /\ mic = 0 /\ speakers = 0 /\ stops = {} /\ running = {}
    /\ mishaps = 0 /\ listeners = {} /\ abandoned = {}

LineNext ==
    \/ StartVoice \/ EndVoice \/ SetStop \/ CloseStreams \/ Join
    \/ OpenTransport \/ StartCapture \/ StartPlayback \/ SpawnTx \/ CloneSpare \/ SpawnRx
    \/ \E thread \in {"tx", "rx"}, n \in 1 .. begun : Return(thread, n)

----------------------------------------------------------------------------

\* A session has the microphone unless the system refused it, and the
\* speakers; with no session, nothing is open. The microphone is free while
\* the threads of its session are waited for. And one session's threads run
\* at a time, so one thread writes a stream: of the others only a sender that
\* was abandoned while starting. (VoiceSession::start and drop; start_voice:
\* "on a machine with one microphone, opening it twice fails")
OneLine ==
    /\ doing = "nothing" =>
          /\ mic = IF voice \in listeners THEN 0 ELSE voice
          /\ speakers = voice
    /\ doing = "join" => mic # going /\ speakers # going
    /\ \A one, other \in running :
          one[2] # other[2] => \E n \in {one[2], other[2]} : n \in abandoned /\ <<"rx", n>> \notin running
    /\ voice = 0 /\ doing = "nothing" => \A one \in running : one[2] \in abandoned

=============================================================================

------------------------------- MODULE Engine -------------------------------
(***************************************************************************)
(* What runs while a screen is shared, and what is left when it is not:    *)
(* Share::start and Share's Drop of crates/boa-client/src/screen/send.rs,  *)
(* with DesktopAudio of screen/audio.rs and Capture of                     *)
(* screen/mac/capture.rs.  The interface's thread starts and ends all of   *)
(* it, and waits for what it ends.                                         *)
(*                                                                         *)
(* A share has two parts, the sound and the picture, each with a thread    *)
(* that sends it.  With ffmpeg each thread reads what a child process      *)
(* writes to a pipe, and a read has no timeout; the native engine has one  *)
(* stream for both, a thread for its heartbeat, and channels whose         *)
(* receivers wait for 200 ms at most.                                      *)
(***************************************************************************)
EXTENDS Integers

CONSTANT MaxStarts      \* bound on the shares started

ASSUME EngineAssumption == MaxStarts \in Nat

VARIABLES
    engine,     \* "ffmpeg" or "native"
    phase,      \* where the interface's thread is
    child,      \* child[p]: the ffmpeg of part p: none, runs or dead
    pipe,       \* pipe[p]: there is something to read for the thread of p
    thread,     \* thread[p]: none, waits, works or ended
    stop,       \* stop[p]: the flag the thread looks at
    capture,    \* the SCStream: none, runs or dead
    heartbeat,  \* the heartbeat's thread: none, works or ended
    unspawned,  \* the threads that could not be started (history)
    starts      \* shares started so far

engineVars == <<engine, phase, child, pipe, thread, stop, capture, heartbeat, unspawned, starts>>

Parts == {"sound", "picture"}

Without(f) == [p \in Parts |-> f]

----------------------------------------------------------------------------
(* Starting: each step may fail.                                           *)

StartShare(e, sound) ==
    /\ phase = "idle" /\ starts < MaxStarts
    /\ starts' = starts + 1
    /\ engine' = e
    /\ phase' = CASE e = "native" /\ sound -> "capture with sound"
               [] e = "native" /\ ~sound -> "capture"
               [] e = "ffmpeg" /\ sound -> "start sound"
               [] OTHER -> "start picture"
    /\ child' = Without("none") /\ pipe' = Without(FALSE) /\ thread' = Without("none")
    /\ stop' = Without(FALSE)
    /\ capture' = "none" /\ heartbeat' = "none" /\ unspawned' = {}

\* Capture::start: the stream may be refused, or start and its heartbeat not.
StartCapture ==
    /\ phase \in {"capture", "capture with sound"}
    /\ \/ /\ phase' = "idle"
          /\ UNCHANGED <<capture, heartbeat, unspawned>>
       \/ /\ phase' = "idle" /\ capture' = "runs"
          /\ unspawned' = unspawned \cup {"heart"}
          /\ UNCHANGED heartbeat
       \/ /\ phase' = IF phase = "capture" THEN "start picture" ELSE "start sound"
          /\ capture' = "runs" /\ heartbeat' = "works"
          /\ UNCHANGED unspawned
    /\ UNCHANGED <<engine, child, pipe, thread, stop, starts>>

\* Part p's child and its thread; the pipe of a child whose thread could not be
\* started is closed.
Spawned(p) ==
    /\ child' = IF engine = "ffmpeg" THEN [child EXCEPT ![p] = "runs"] ELSE child
    /\ thread' = [thread EXCEPT ![p] = "waits"]
    /\ UNCHANGED unspawned
ThreadFails(p) ==
    /\ child' = IF engine = "ffmpeg" THEN [child EXCEPT ![p] = "runs"] ELSE child
    /\ unspawned' = unspawned \cup {p}
    /\ UNCHANGED thread
NothingSpawned == UNCHANGED <<child, thread, unspawned>>

\* DesktopAudio::start, or ::from_stream: a share without its sound goes on.
StartSound ==
    /\ phase = "start sound"
    /\ phase' = "start picture"
    /\ Spawned("sound") \/ ThreadFails("sound") \/ NothingSpawned
    /\ UNCHANGED <<engine, pipe, stop, capture, heartbeat, starts>>

\* spawn_ffmpeg, or the end of native: what was started is dropped when it fails.
StartPicture ==
    /\ phase = "start picture"
    /\ \/ phase' = "on" /\ Spawned("picture")
       \/ phase' = "end sound after failing" /\ (ThreadFails("picture") \/ NothingSpawned)
    /\ UNCHANGED <<engine, pipe, stop, capture, heartbeat, starts>>

----------------------------------------------------------------------------
(* Ending: Share's Drop and those it calls.                                *)

\* Mistake: the child is left to notice that nobody reads any more.
Politely(p) == child[p]

\* kill and wait, before the thread is waited for.
Killed(p) == IF child[p] = "runs" /\ p \notin unspawned THEN "dead" ELSE child[p]

\* join
Joined(p) == thread[p] \in {"none", "ended"}

DropShare ==
    /\ phase = "on"
    /\ phase' = "end sound"
    /\ stop' = [stop EXCEPT !["picture"] = TRUE]
    /\ UNCHANGED <<engine, child, pipe, thread, capture, heartbeat, unspawned, starts>>

\* DesktopAudio's Drop, as far as the join.
EndSound ==
    /\ phase \in {"end sound", "end sound after failing"}
    /\ phase' = IF phase = "end sound" THEN "join sound" ELSE "join sound after failing"
    /\ stop' = [stop EXCEPT !["sound"] = TRUE]
    /\ child' = [child EXCEPT !["sound"] = Killed("sound")]
    /\ UNCHANGED <<engine, pipe, thread, capture, heartbeat, unspawned, starts>>

JoinSound ==
    /\ phase \in {"join sound", "join sound after failing"} /\ Joined("sound")
    /\ phase' = CASE phase = "join sound" -> "end picture"
               [] phase # "join sound" /\ engine = "native" -> "end heart"
               [] OTHER -> "idle"
    /\ UNCHANGED <<engine, child, pipe, thread, stop, capture, heartbeat, unspawned, starts>>

EndPicture ==
    /\ phase = "end picture"
    /\ phase' = "join picture"
    /\ child' = [child EXCEPT !["picture"] = Killed("picture")]
    /\ UNCHANGED <<engine, pipe, thread, stop, capture, heartbeat, unspawned, starts>>

JoinPicture ==
    /\ phase = "join picture" /\ Joined("picture")
    /\ phase' = IF engine = "native" THEN "end heart" ELSE "idle"
    /\ UNCHANGED <<engine, child, pipe, thread, stop, capture, heartbeat, unspawned, starts>>

\* Capture's Drop: the heartbeat looks at its flag within an eighth of a second.
EndHeart ==
    /\ phase = "end heart" /\ heartbeat # "ended"
    /\ heartbeat' = "ended"
    /\ UNCHANGED <<engine, phase, child, pipe, thread, stop, capture, unspawned, starts>>

\* The stream is waited for too, for two seconds.
StopStream ==
    /\ phase = "end heart" /\ heartbeat = "ended"
    /\ capture' = "dead"
    /\ phase' = "idle"
    /\ UNCHANGED <<engine, child, pipe, thread, stop, heartbeat, unspawned, starts>>

----------------------------------------------------------------------------
(* The children and the threads.                                           *)

\* A child writes, or dies of it when nobody reads; the stream delivers.
Produce(p) ==
    /\ IF engine = "ffmpeg" THEN child[p] = "runs" ELSE capture = "runs"
    /\ IF engine = "native" \/ thread[p] \in {"waits", "works"}
       THEN pipe' = [pipe EXCEPT ![p] = TRUE] /\ UNCHANGED child
       ELSE child' = [child EXCEPT ![p] = "dead"] /\ UNCHANGED pipe
    /\ UNCHANGED <<engine, phase, thread, stop, capture, heartbeat, unspawned, starts>>

ChildDies(p) ==
    /\ child[p] = "runs"
    /\ child' = [child EXCEPT ![p] = "dead"]
    /\ UNCHANGED <<engine, phase, pipe, thread, stop, capture, heartbeat, unspawned, starts>>

\* The read or the receive returns: with something, at the end of what a dead child
\* wrote, or after 200 ms.
Receive(p) ==
    /\ thread[p] = "waits"
    /\ \/ /\ pipe[p]
          /\ pipe' = [pipe EXCEPT ![p] = FALSE]
          /\ thread' = [thread EXCEPT ![p] = "works"]
       \/ /\ ~pipe[p] /\ engine = "ffmpeg" /\ child[p] = "dead"
          /\ thread' = [thread EXCEPT ![p] = "ended"]
          /\ UNCHANGED pipe
       \/ /\ ~pipe[p] /\ engine = "native"
          /\ thread' = [thread EXCEPT ![p] = "works"]
          /\ UNCHANGED pipe
    /\ UNCHANGED <<engine, phase, child, stop, capture, heartbeat, unspawned, starts>>

\* What was received is sent, and the flag looked at: pump, pump_pictures.
Work(p) ==
    /\ thread[p] = "works"
    /\ thread' = [thread EXCEPT ![p] = IF stop[p] THEN "ended" ELSE "waits"]
    /\ UNCHANGED <<engine, phase, child, pipe, stop, capture, heartbeat, unspawned, starts>>

----------------------------------------------------------------------------
EngineInit ==
    /\ engine = "ffmpeg" /\ phase = "idle" /\ child = Without("none") /\ pipe = Without(FALSE)
    /\ thread = Without("none") /\ stop = Without(FALSE) /\ capture = "none" /\ heartbeat = "none"
    /\ unspawned = {} /\ starts = 0

Starting == StartCapture \/ StartSound \/ StartPicture
Ending == EndSound \/ JoinSound \/ EndPicture \/ JoinPicture \/ EndHeart \/ StopStream

EngineNext ==
    \/ \E e \in {"ffmpeg", "native"}, sound \in BOOLEAN : StartShare(e, sound)
    \/ Starting \/ DropShare \/ Ending
    \/ \E p \in Parts : Produce(p) \/ ChildDies(p) \/ Receive(p) \/ Work(p)

\* Threads run; a child need not ever write.
EngineFairness ==
    /\ WF_engineVars(Starting) /\ WF_engineVars(Ending)
    /\ \A p \in Parts : WF_engineVars(Receive(p)) /\ WF_engineVars(Work(p))

EngineSpec == EngineInit /\ [][EngineNext]_engineVars /\ EngineFairness

(* When no share is on, nothing of one runs: no thread that would go on    *)
(* sending under the stream id of the next, no capture that keeps a device *)
(* or the recording indicator -- but for what was started just before its  *)
(* own thread could not be. (Share::start, Drop)                           *)
NothingRunsOn ==
    phase = "idle" =>
        /\ heartbeat # "works" /\ (capture = "runs" => "heart" \in unspawned)
        /\ \A p \in Parts :
              thread[p] \in {"none", "ended"} /\ (child[p] = "runs" => p \in unspawned)

(* Ending a share ends, though a capture that has nothing to write never   *)
(* notices that it is not read: the interface is not left hanging.         *)
(* (Drop for Share)                                                        *)
DropEnds == (phase \notin {"idle", "on"}) ~> (phase \in {"idle", "on"})

=============================================================================

-------------------------------- MODULE Call --------------------------------
(***************************************************************************)
(* crates/boa-client/src/ui/mod.rs: the life of a call, as one client and  *)
(* its server see it.                                                      *)
(*                                                                         *)
(* The interface keeps the call it wants (in_call), the audio session it   *)
(* runs (voice), its screen share and the saved microphone setting; the    *)
(* server keeps the account's membership.  Between them are connections,   *)
(* each with a FIFO of requests and one of frames, that are lost and       *)
(* replaced (Net.tla has how).  What the client sends without a connection *)
(* is dropped; what it sends while one is being dialed waits for it.       *)
(*                                                                         *)
(* Environment: a server that accepts the client again has handled what    *)
(* the old connection delivered, but may not have noticed its end.         *)
(***************************************************************************)
EXTENDS Integers, Sequences

CONSTANTS
    Channels,  \* voice channels
    FirstMics, \* settings the microphone may have at first
    MaxActs,   \* bound on what the user does
    MaxFaults, \* bound on lost connections and rejoins for want of media
    None, Nobody

ASSUME CallAssumption ==
    /\ FirstMics \subseteq {"open", "muted", "deafened"}
    /\ MaxActs \in Nat /\ MaxFaults \in Nat
    /\ {None, Nobody} \cap (Channels \cup Nat) = {} /\ None # Nobody
    /\ Nobody \notin [c : Channels, sharing : BOOLEAN]
    /\ None \notin [c : Channels, s : Nat, mic : {"open", "muted", "deafened"}, sharing : BOOLEAN]

VARIABLES
    inCall,    \* the channel the client believes it belongs in, or None
    voice,     \* the stream of the running audio session, or None
    since,     \* whether voice_since is set
    share,     \* the stream of the running capture, or None
    pending,   \* whether a source has been chosen
    picking,   \* whether the source picker is open
    mic,       \* the saved setting: open, muted or deafened (and so muted)
    mirror,    \* own entry of the roster, None, or Nobody before Ready
    connected, \* the status is Connected
    signedIn,  \* the network thread has somewhere to connect to
    link,      \* number of its connection, or None
    at,        \* at[g]: unopened, dialing, open, stale (lost, the server has
               \*   not noticed) or closed
    reqs,      \* reqs[g]: requests on their way to the server
    inbox,     \* frames and status events the interface has not read
    member,    \* the server's membership of the account, or None
    next,      \* the next stream
    untold,    \* what the client gave up without the server hearing of it:
               \*   "voice", "share", "flags", "capture" (history)
    acts, faults \* what the bounds count

wish == <<inCall, mic, picking, pending>>
media == <<voice, since, share>>
net == <<signedIn, link, at>>
server == <<member, next>>
counts == <<acts, faults>>
vars == <<wish, media, mirror, connected, net, reqs, inbox, server, untold, counts>>

Conns == 1 .. (1 + MaxFaults + MaxActs)
Known == mirror # Nobody

\* send_msg: nothing without a link.
Say(requests) ==
    reqs' = IF link = None THEN reqs ELSE [reqs EXCEPT ![link] = @ \o requests]

Leave == [op |-> "leave"]
Start == [op |-> "start"]
Stop == [op |-> "stop"]

\* "The server starts everybody unmuted", so a join says what is wanted.
Joining(c) == <<[op |-> "join", c |-> c], [op |-> "flags", mic |-> mic]>>

----------------------------------------------------------------------------
(* What the user does.                                                     *)

Act == acts < MaxActs /\ acts' = acts + 1 /\ UNCHANGED faults

\* The row of the call one is in only opens its chat.
JoinVoice(c) ==
    /\ Act /\ Known /\ (mirror # None => mirror.c # c)
    /\ inCall' = c
    /\ Say(Joining(c))
    /\ untold' = untold \ {"flags"}
    /\ UNCHANGED <<mic, picking, pending, media, mirror, connected, net, inbox, server>>

\* "The devices should stop the moment the button is pressed."
Released == None

\* The button is there while the roster shows the call.
LeaveVoice ==
    /\ Act /\ Known /\ mirror # None
    /\ inCall' = None /\ voice' = Released /\ share' = None
    /\ Say(<<Leave>>)
    /\ untold' = untold \ {"capture"}
    /\ UNCHANGED <<since, mic, picking, pending, mirror, connected, net, inbox, server>>

\* set_voice_flags: saved at once, and sent if the roster shows a call.
SetVoiceFlags(new) ==
    /\ Act /\ Known
    /\ mic' = new
    /\ IF mirror # None
       THEN Say(<<[op |-> "flags", mic |-> new]>>) /\ untold' = untold \ {"flags"}
       ELSE untold' = untold \cup {"flags"} /\ UNCHANGED reqs
    /\ UNCHANGED <<inCall, picking, pending, media, mirror, connected, net, inbox, server>>

\* While deafened the button undoes both.
ToggleMute == SetVoiceFlags(IF mic = "open" THEN "muted" ELSE "open")
ToggleDeafen == SetVoiceFlags(IF mic = "deafened" THEN "muted" ELSE "deafened")

StartScreen ==
    /\ Known /\ mirror # None /\ ~mirror.sharing
    /\ ~picking /\ picking' = TRUE
    /\ UNCHANGED <<inCall, mic, pending, media, mirror, connected, net, reqs, inbox,
                   server, untold, counts>>

CancelSharePicker ==
    /\ picking /\ picking' = FALSE
    /\ UNCHANGED <<inCall, mic, pending, media, mirror, connected, net, reqs, inbox,
                   server, untold, counts>>

ShareSource ==
    /\ Act /\ picking
    /\ picking' = FALSE /\ pending' = TRUE
    /\ Say(<<Start>>)
    /\ UNCHANGED <<inCall, mic, media, mirror, connected, net, inbox, server, untold>>

\* The user's button, and check_share for a capture that failed.
EndShare ==
    /\ share' = None
    /\ Say(<<Stop>>)
    /\ untold' = untold \ {"capture"}
    /\ UNCHANGED <<wish, voice, since, mirror, connected, net, inbox, server>>

StopScreen == Act /\ Known /\ mirror # None /\ mirror.sharing /\ EndShare
CheckShare == Act /\ share # None /\ EndShare

----------------------------------------------------------------------------
(* The connection.                                                         *)

Fault == faults < MaxFaults /\ faults' = faults + 1 /\ UNCHANGED acts

Marker(frame) == frame.t \in {"lost", "offline"}

\* The frames that had arrived when the connection ended: all that are older
\* than it, and a part of its own.
Arrived == {k \in 0 .. Len(inbox) : \A i \in DOMAIN inbox : Marker(inbox[i]) => i <= k}

\* The interface is told that g is over; the server may not know yet.
End(g, why, delivered) ==
    /\ link' = None
    /\ at' = [at EXCEPT ![g] = IF @ = "open" THEN "stale" ELSE "closed"]
    /\ reqs' = [reqs EXCEPT ![g] = IF at[g] = "open" THEN SubSeq(@, 1, delivered) ELSE <<>>]
    /\ \E k \in Arrived : inbox' = Append(SubSeq(inbox, 1, k), [t |-> why])

Drop ==
    /\ Fault /\ link # None
    /\ \E n \in 0 .. Len(reqs[link]) : End(link, "lost", n)
    /\ UNCHANGED <<wish, media, mirror, connected, signedIn, server, untold>>

Dial(g) ==
    /\ link' = g /\ at[g] = "unopened"
    /\ \A h \in Conns : h < g => at[h] # "unopened"
    /\ at' = [at EXCEPT ![g] = "dialing"]

Redial ==
    /\ signedIn /\ link = None
    /\ \E g \in Conns : Dial(g)
    /\ UNCHANGED <<wish, media, mirror, connected, signedIn, reqs, inbox, server, untold,
                   counts>>

\* The call, its devices and the share go on.
LogOut ==
    /\ Act /\ signedIn /\ Known
    /\ signedIn' = FALSE /\ mirror' = Nobody
    /\ IF link = None
       THEN inbox' = Append(inbox, [t |-> "offline"]) /\ UNCHANGED <<link, at, reqs>>
       ELSE End(link, "offline", Len(reqs[link]))
    /\ UNCHANGED <<wish, media, connected, server, untold>>

LogIn ==
    /\ Act /\ ~signedIn /\ signedIn' = TRUE
    /\ \E g \in Conns : Dial(g)
    /\ UNCHANGED <<wish, media, mirror, connected, reqs, inbox, server, untold>>

----------------------------------------------------------------------------
(* The server: session.rs over hub.rs, for this account.                   *)

Shown == IF member = None THEN None ELSE [c |-> member.c, sharing |-> member.sharing]

Accept(g) ==
    /\ at[g] = "dialing"
    /\ \A h \in Conns : at[h] = "stale" => reqs[h] = <<>>
    /\ at' = [at EXCEPT ![g] = "open"]
    /\ inbox' = Append(inbox, [t |-> "ready", call |-> Shown])
    /\ UNCHANGED <<wish, media, mirror, connected, signedIn, link, reqs, server, untold,
                   counts>>

\* broadcast, as far as this client hears it.
Tell(frames) == inbox' = IF link # None /\ at[link] = "open" THEN inbox \o frames ELSE inbox

StateOf(m) == [t |-> "state", call |-> [c |-> m.c, sharing |-> m.sharing]]
LeaveOf(m) == IF m = None THEN <<>> ELSE <<[t |-> "leave", c |-> m.c]>>
StopOf(m) == IF m.sharing THEN <<[t |-> "stop"]>> ELSE <<>>

Joined(g, c) ==
    LET m == [c |-> c, s |-> next, mic |-> "open", sharing |-> FALSE]
        ready == IF g = link THEN <<[t |-> "voice", c |-> c, s |-> next]>> ELSE <<>>
    IN /\ member' = m /\ next' = next + 1
       /\ Tell(LeaveOf(member) \o ready \o <<StateOf(m)>>)

Left ==
    /\ member' = None /\ UNCHANGED next
    /\ IF member = None THEN UNCHANGED inbox ELSE Tell(StopOf(member) \o LeaveOf(member))

Changed(m, frame) == member' = m /\ UNCHANGED next /\ Tell(<<frame>>)

\* Without a membership these are answered with an error, or not at all.
Flagged(new) ==
    LET m == [member EXCEPT !.mic = new]
    IN IF member = None THEN UNCHANGED <<server, inbox>> ELSE Changed(m, StateOf(m))

Started ==
    IF member = None THEN UNCHANGED <<server, inbox>>
    ELSE Changed([member EXCEPT !.sharing = TRUE], [t |-> "start", s |-> member.s])

Stopped ==
    IF member = None THEN UNCHANGED <<server, inbox>>
    ELSE Changed([member EXCEPT !.sharing = FALSE], [t |-> "stop"])

Serve(g) ==
    /\ at[g] \in {"open", "stale"} /\ reqs[g] # <<>>
    /\ LET r == Head(reqs[g]) IN
       \/ r.op = "join" /\ Joined(g, r.c)
       \/ r.op = "leave" /\ Left
       \/ r.op = "flags" /\ Flagged(r.mic)
       \/ r.op = "start" /\ Started
       \/ r.op = "stop" /\ Stopped
    /\ reqs' = [reqs EXCEPT ![g] = Tail(@)]
    /\ UNCHANGED <<wish, media, mirror, connected, net, untold, counts>>

\* The last connection takes the membership with it.
EndStale(g) ==
    /\ at[g] = "stale" /\ reqs[g] = <<>>
    /\ at' = [at EXCEPT ![g] = "closed"]
    /\ member' = IF \E h \in Conns \ {g} : at[h] \in {"open", "stale"} THEN member ELSE None
    /\ UNCHANGED <<wish, media, mirror, connected, signedIn, link, reqs, inbox, next,
                   untold, counts>>

----------------------------------------------------------------------------
(* The interface reads its events.                                         *)

Read(type) == inbox # <<>> /\ Head(inbox).t = type /\ inbox' = Tail(inbox)
Frame == Head(inbox)

\* rejoin_voice: everything is built again, and a share cannot follow.
RejoinVoice(c) ==
    /\ voice' = None /\ since' = FALSE /\ share' = None
    /\ Say(Joining(c))
    /\ untold' = {}

\* Mistake: only a client that lost its audio session rejoins.
Unheard == inCall # None /\ voice = None

\* A session that knows nothing of the last one.
Wanted == inCall # None

\* Status(Connected) and Ready.
ReadReady ==
    /\ Read("ready")
    /\ connected' = TRUE /\ mirror' = Frame.call
    /\ IF Wanted THEN RejoinVoice(inCall) ELSE UNCHANGED <<media, reqs, untold>>
    /\ UNCHANGED <<wish, net, server, counts>>

\* start_voice: the session starts, ...
StartVoice ==
    /\ Read("voice")
    /\ voice' = Frame.s /\ since' = TRUE /\ inCall' = Frame.c
    /\ untold' = untold \ {"voice"}
    /\ UNCHANGED <<mic, picking, pending, share, mirror, connected, net, reqs, server, counts>>

Withdrawal == <<Leave>>

\* The call is over, its capture is not.
Orphaned == IF share = None THEN {} ELSE {"capture"}

\* ... its devices do not open, ...
StartVoiceFails ==
    /\ Read("voice")
    /\ voice' = None /\ inCall' = None
    /\ Say(Withdrawal)
    /\ untold' = (untold \ {"voice"}) \cup Orphaned
    /\ UNCHANGED <<mic, picking, pending, since, share, mirror, connected, net, server, counts>>

\* ... or the key cannot be read or the relay's address not be resolved.
StartVoiceUnresolved ==
    /\ Read("voice")
    /\ untold' = untold \cup {"voice"}
    /\ UNCHANGED <<wish, media, mirror, connected, net, reqs, server, counts>>

ReadState ==
    /\ Read("state")
    /\ mirror' = IF Known THEN Frame.call ELSE mirror
    /\ UNCHANGED <<wish, media, connected, net, reqs, server, untold, counts>>

\* The client's own departure, if it knows who it is.
ReadLeave ==
    /\ Read("leave")
    /\ IF Known
       THEN /\ inCall' = None /\ voice' = None /\ since' = FALSE
            /\ mirror' = IF mirror # None /\ mirror.c = Frame.c THEN None ELSE mirror
            /\ untold' = untold \cup Orphaned
       ELSE UNCHANGED <<inCall, voice, since, mirror, untold>>
    /\ UNCHANGED <<mic, picking, pending, share, connected, net, reqs, server, counts>>

\* state.apply
Sharing(yes) ==
    mirror' = IF Known /\ mirror # None THEN [mirror EXCEPT !.sharing = yes] ELSE mirror

\* begin_capture: no session, no source or no transport: silently nothing, ...
ReadStart ==
    /\ Read("start")
    /\ untold' = IF Known THEN untold \cup {"share"} ELSE untold
    /\ Sharing(TRUE)
    /\ UNCHANGED <<wish, media, connected, net, reqs, server, counts>>

Capturing == Known /\ voice # None /\ pending

\* ... a capture, ...
BeginCapture ==
    /\ Read("start") /\ Capturing
    /\ share' = Frame.s /\ untold' = untold \ {"share", "capture"}
    /\ Sharing(TRUE)
    /\ UNCHANGED <<wish, voice, since, connected, net, reqs, server, counts>>

\* Mistake: a capture that failed is nobody's business.
SilentFailure == <<>>

CaptureFailed == <<Stop>>

\* ... or one that does not start.
BeginCaptureFails ==
    /\ Read("start") /\ Capturing
    /\ Say(CaptureFailed)
    /\ Sharing(TRUE)
    /\ UNCHANGED <<wish, media, connected, net, server, untold, counts>>

ReadStop ==
    /\ Read("stop")
    /\ IF Known
       THEN share' = None /\ untold' = untold \ {"share", "capture"}
       ELSE UNCHANGED <<share, untold>>
    /\ Sharing(FALSE)
    /\ UNCHANGED <<wish, voice, since, connected, net, reqs, server, counts>>

ReadLost ==
    /\ Read("lost")
    /\ connected' = FALSE
    /\ UNCHANGED <<wish, media, mirror, net, reqs, server, untold, counts>>

ReadOffline ==
    /\ Read("offline")
    /\ connected' = FALSE /\ mirror' = Nobody
    /\ UNCHANGED <<wish, media, net, reqs, server, untold, counts>>

\* heal_voice: no media has arrived for a while, or there is no session to
\* receive any (the meter's default).
HealVoice ==
    /\ Fault /\ inCall # None /\ connected /\ since
    /\ RejoinVoice(inCall)
    /\ UNCHANGED <<wish, mirror, connected, net, inbox, server>>

----------------------------------------------------------------------------

Init ==
    /\ inCall = None /\ voice = None /\ since = FALSE /\ share = None
    /\ pending = FALSE /\ picking = FALSE
    /\ mic \in FirstMics
    /\ mirror = Nobody /\ connected = FALSE
    /\ signedIn = TRUE /\ link = 1
    /\ at = [g \in Conns |-> IF g = 1 THEN "dialing" ELSE "unopened"]
    /\ reqs = [g \in Conns |-> <<>>] /\ inbox = <<>>
    /\ member = None /\ next = 1
    /\ untold = {}
    /\ acts = 0 /\ faults = 0

User ==
    \/ \E c \in Channels : JoinVoice(c)
    \/ LeaveVoice \/ ToggleMute \/ ToggleDeafen
    \/ StartScreen \/ CancelSharePicker \/ ShareSource \/ StopScreen \/ CheckShare
    \/ LogOut \/ LogIn

Starts == StartVoice \/ StartVoiceFails \/ StartVoiceUnresolved
Captures == ReadStart \/ BeginCapture \/ BeginCaptureFails
Interface ==
    \/ ReadReady \/ Starts \/ ReadState \/ ReadLeave \/ Captures \/ ReadStop
    \/ ReadLost \/ ReadOffline

Next ==
    \/ User \/ Interface \/ HealVoice \/ Drop \/ Redial
    \/ \E g \in Conns : Accept(g) \/ Serve(g) \/ EndStale(g)

Spec == Init /\ [][Next]_vars

\* Events are drained every frame, the network thread redials and the server
\* accepts and serves.  Nobody is obliged to act, to fail or to notice an end
\* at once, though every lost connection is noticed in the end.
FairSpec ==
    /\ Spec
    /\ WF_vars(Interface) /\ WF_vars(Redial)
    /\ \A g \in Conns : WF_vars(Accept(g)) /\ WF_vars(Serve(g)) /\ WF_vars(EndStale(g))

----------------------------------------------------------------------------
(* What a client in a call may rely on.                                    *)

Streams == 1 .. (next - 1)
Mics == {"open", "muted", "deafened"}
Entries == [c : Channels, sharing : BOOLEAN]
Members == [c : Channels, s : Streams, mic : Mics, sharing : BOOLEAN]
Requests ==
    [op : {"join"}, c : Channels] \cup [op : {"flags"}, mic : Mics]
        \cup [op : {"leave", "start", "stop"}]
Frames ==
    [t : {"ready"}, call : Entries \cup {None}] \cup [t : {"state"}, call : Entries]
        \cup [t : {"voice"}, c : Channels, s : Streams] \cup [t : {"leave"}, c : Channels]
        \cup [t : {"start"}, s : Streams] \cup [t : {"stop", "lost", "offline"}]

Types ==
    /\ inCall \in Channels \cup {None} /\ voice \in Streams \cup {None}
    /\ since \in BOOLEAN /\ share \in Streams \cup {None}
    /\ pending \in BOOLEAN /\ picking \in BOOLEAN /\ mic \in Mics
    /\ mirror \in Entries \cup {None, Nobody} /\ connected \in BOOLEAN
    /\ signedIn \in BOOLEAN /\ link \in Conns \cup {None}
    /\ at \in [Conns -> {"unopened", "dialing", "open", "stale", "closed"}]
    /\ reqs \in [Conns -> Seq(Requests)] /\ inbox \in Seq(Frames)
    /\ next \in Nat \ {0} /\ member \in Members \cup {None}
    /\ untold \subseteq {"voice", "share", "flags", "capture"}
    /\ acts \in 0 .. MaxActs /\ faults \in 0 .. MaxFaults

(* An audio session runs only in a call the client wants to be in: what is *)
(* left without the server is never a microphone (ui/mod.rs:529-538).      *)
VoiceIsWanted == voice # None => inCall # None

(* One connection at a time leads anywhere, and a membership needs one.    *)
OneLink ==
    /\ \A g \in Conns : at[g] \in {"dialing", "open"} <=> link = g
    /\ link # None => signedIn
    /\ member # None => \E g \in Conns : at[g] \in {"open", "stale"}

CallInv == Types /\ VoiceIsWanted /\ OneLink

(* Nothing is on its way in either direction.                              *)
Quiet ==
    /\ signedIn /\ link # None /\ at[link] = "open" /\ connected
    /\ inbox = <<>> /\ \A g \in Conns : reqs[g] = <<>>

(* Once everything is read and answered, an audio session has the stream   *)
(* the server relays ("media keeps going out and the relay drops every     *)
(* packet of it", ui/mod.rs:207-214) in the call the client wants, and a   *)
(* call that is wanted is heard; until a connection is lost, somebody      *)
(* shown in the call hears it too.  Except for a key or an address the     *)
(* client could not use, of which the server is not told.                  *)
CallAgrees ==
    Quiet =>
        /\ voice # None => member # None /\ voice = member.s /\ inCall = member.c
        /\ inCall # None => voice # None \/ "voice" \in untold
        /\ link = 1 /\ member # None => voice # None \/ "voice" \in untold

(* Everybody sees the microphone as it is, unless it was switched between  *)
(* the press of "join" and the answer.                                     *)
MicAgrees ==
    Quiet /\ member # None /\ voice = member.s /\ "flags" \notin untold => member.mic = mic

(* Everybody sees a share exactly if it captures.  Except one that could   *)
(* not begin for want of a transport, and one that a move to another call  *)
(* or the end of the session it ran in left running.                       *)
ShareAgrees ==
    Quiet =>
        /\ member # None /\ member.sharing /\ voice # None /\ "share" \notin untold =>
                share = voice
        /\ share # None /\ "capture" \notin untold =>
                share = voice /\ member # None /\ member.sharing

(* A call is sound: no microphone without a call that is wanted, one        *)
(* connection at a time, and what is wanted, heard and held agree.          *)
CallSound == CallInv /\ CallAgrees

(* What others are shown of this client is so: its microphone, its share.   *)
ShownAgrees == MicAgrees /\ ShareAgrees

(* A call that is wanted is heard again in the end: across any losses of   *)
(* the connection and any rejoins, unless the user or a failing device     *)
(* ends it.                                                                *)
Rejoins ==
    \A c \in Channels :
        (inCall = c /\ signedIn) ~>
            \/ voice # None /\ member # None /\ voice = member.s
            \/ inCall # c \/ ~signedIn \/ "voice" \in untold

============================================================================

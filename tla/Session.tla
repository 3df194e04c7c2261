------------------------------ MODULE Session ------------------------------
(***************************************************************************)
(* Control connections over the hub, and what the clients at their far end *)
(* believe:                                                                *)
(*   crates/boa-server/src/session.rs  one task per connection             *)
(*   crates/boa-server/src/hub.rs      connections, broadcasts             *)
(*   crates/boa-client/src/state.rs    the mirror a client keeps           *)
(*                                                                         *)
(* A handler takes the hub's mutex several times, and other connections'   *)
(* handlers run in between.  So a connection has a list of the calls its   *)
(* handler has still to make, each of which is one step.                   *)
(*                                                                         *)
(* The frames produced for a connection reach its client in order and      *)
(* without loss while it lasts (one unbounded channel, one writer task,    *)
(* one socket), and nothing the server does depends on when.  So a frame   *)
(* is applied to the client's mirror as it is produced: the mirror is what *)
(* the client believes once it has caught up, and what it asks for in the  *)
(* meantime is whatever a client may ask for at all.                       *)
(*                                                                         *)
(* Chat, typing and file offers do not touch this state and are left out,  *)
(* as are error replies: a refused request is a request not made.          *)
(***************************************************************************)
EXTENDS Hub, Sequences

CONSTANTS
    Conns,       \* control connections that may ever be opened
    UserOf,      \* UserOf[c]: the account connection c identifies as
    Newcomers,   \* accounts that are not registered yet at the start
    Overlapping, \* whether an account may have two connections at once
    MaxAsks,     \* bound on the requests in a behaviour
    NoCreds      \* no voice session

ASSUME SessionAssumption ==
    /\ UserOf \in [Conns -> Users]
    /\ Newcomers \subseteq Users
    /\ Overlapping \in BOOLEAN
    /\ MaxAsks \in Nat

VARIABLES
    accounts, \* db.users()
    conns,    \* State::conns: the connections that broadcasts reach
    at,       \* at[c]: unopened, open, closing or closed
    todo,     \* todo[c]: the calls c's handler has still to make
    snap,     \* snap[c]: what send_ready has read so far
    mirror,   \* mirror[c]: the client's State and voice credentials, once it has
              \* applied every frame produced for it so far
    missed,   \* missed[c]: accounts whose frames c's Ready overtook (history)
    asked     \* requests so far

sessionVars ==
    <<accounts, conns, at, todo, snap, mirror, missed, asked>>
vars        == <<hubVars, sessionVars>>

----------------------------------------------------------------------------
(* Frames and the calls a handler has to make.                             *)

Ready(known, online, voice) ==
    [t |-> "ready", known |-> known, online |-> online, voice |-> voice]
Presence(u, online) == [t |-> "presence", user |-> u, online |-> online]
UserUpdate(u)       == [t |-> "user_update", user |-> u]
VoiceReady(cred)    == [t |-> "voice_ready", cred |-> cred]
VoiceState(u, s)    == [t |-> "voice_state", user |-> u, state |-> s]
VoiceLeave(u, ch)   == [t |-> "voice_leave", user |-> u, channel |-> ch]
ScreenStart(u)      == [t |-> "screen_start", user |-> u]
ScreenStop(u)       == [t |-> "screen_stop", user |-> u]

\* What a VoiceState frame says of a member.
Public(m) == [channel |-> m.channel, ssrc |-> m.voice, flags |-> m.flags,
              sharing |-> m.sharing]
VoiceStates == [u \in InCall |-> Public(members[u])]

Call(op)         == [op |-> op]
Broadcast(frame) == [op |-> "broadcast", frame |-> frame]
ToOthers(frame)  == [op |-> "to_others", frame |-> frame]
ToSelf(frame)    == [op |-> "to_self", frame |-> frame]

Online   == {UserOf[c] : c \in conns}
Own(u)   == {c \in Conns : UserOf[c] = u}
Open(c)  == at[c] = "open"
Idling(c) == Open(c) /\ todo[c] = <<>>

Doing(c, op) == todo[c] # <<>> /\ Head(todo[c]).op = op

\* c has made the call at the head of its list and has these to make first.
Done(c, more) ==
    todo' = [todo EXCEPT ![c] = more \o Tail(@)]

----------------------------------------------------------------------------
Empty  == [x \in {} |-> 0]
NoSnap == [known |-> {}, online |-> {}, voice |-> Empty]
Blank  == [known |-> {}, online |-> {}, voice |-> Empty, creds |-> NoCreds]
NothingMissed == [voice |-> {}, presence |-> {}]

(* The client: State::apply, and the part of App::handle_server that takes *)
(* up and drops voice credentials.                                         *)

Without(f, x) == [y \in DOMAIN f \ {x} |-> f[y]]
With(f, x, e) == [y \in DOMAIN f \cup {x} |-> IF y = x THEN e ELSE f[y]]

Applied(u, m, f) ==
    CASE f.t = "ready" ->
            [m EXCEPT !.known = f.known, !.online = f.online,
                      !.voice = f.voice]
      [] f.t = "presence" /\ f.user \in m.known ->
            [m EXCEPT !.online = IF f.online THEN @ \cup {f.user}
                                             ELSE @ \ {f.user}]
      [] f.t = "user_update" ->
            [m EXCEPT !.known = @ \cup {f.user}, !.online = @ \cup {f.user}]
      [] f.t = "voice_ready" -> [m EXCEPT !.creds = f.cred]
      [] f.t = "voice_state" -> [m EXCEPT !.voice = With(@, f.user, f.state)]
      [] f.t = "voice_leave" ->
            [m EXCEPT
                !.voice = IF f.user \in DOMAIN @ /\ @[f.user].channel = f.channel
                          THEN Without(@, f.user) ELSE @,
                !.creds = IF f.user = u THEN NoCreds ELSE @]
      [] f.t \in {"screen_start", "screen_stop"} /\ f.user \in DOMAIN m.voice ->
            [m EXCEPT !.voice[f.user].sharing = (f.t = "screen_start")]
      [] OTHER -> m

----------------------------------------------------------------------------
(* Frames on their way.  A client that has hung up reads nothing more.     *)

\* Accounts whose frame a connection's snapshot is too old to include and
\* its Ready will nevertheless follow.  A later VoiceState is complete.
MissedBy(d, f) ==
    LET voiceRead  == Doing(d, "ready")
        onlineRead == Doing(d, "ready") \/ Doing(d, "read_voice")
    IN  CASE f.t = "presence" /\ onlineRead ->
                [missed[d] EXCEPT !.presence = @ \cup {f.user}]
          [] f.t = "presence" /\ ~onlineRead ->
                [missed[d] EXCEPT !.presence = @ \ {f.user}]
          [] f.t \in {"voice_state", "voice_leave", "screen_start",
                      "screen_stop"} /\ voiceRead ->
                [missed[d] EXCEPT !.voice = @ \cup {f.user}]
          [] f.t = "voice_state" /\ ~voiceRead ->
                [missed[d] EXCEPT !.voice = @ \ {f.user}]
          [] OTHER -> missed[d]

Deliver(f, to) ==
    LET reads(d) == d \in to /\ Open(d) IN
    /\ mirror' = [d \in Conns |->
            IF reads(d) THEN Applied(UserOf[d], mirror[d], f) ELSE mirror[d]]
    /\ missed' = [d \in Conns |->
            IF reads(d) THEN MissedBy(d, f) ELSE missed[d]]

DoBroadcast(c) ==
    /\ Doing(c, "broadcast")
    /\ Deliver(Head(todo[c]).frame, conns)
    /\ Done(c, <<>>)
    /\ UNCHANGED <<hubVars, accounts, conns, asked, at, snap>>

DoToOthers(c) ==
    /\ Doing(c, "to_others")
    /\ Deliver(Head(todo[c]).frame, conns \ {c})
    /\ Done(c, <<>>)
    /\ UNCHANGED <<hubVars, accounts, conns, asked, at, snap>>

DoToSelf(c) ==
    /\ Doing(c, "to_self")
    /\ Deliver(Head(todo[c]).frame, conns \cap {c})
    /\ Done(c, <<>>)
    /\ UNCHANGED <<hubVars, accounts, conns, asked, at, snap>>

----------------------------------------------------------------------------
(* Opening a connection, and the snapshot that is its first frame.  The    *)
(* four calls of send_ready take the database's lock once and the hub's    *)
(* three times; frames of other handlers may be queued in between.         *)

IsFirst(u) == u \notin Online

Register(u) ==
    /\ u \notin accounts
    /\ accounts' = accounts \cup {u}
    /\ UNCHANGED <<hubVars, conns, at, todo, snap, mirror, missed, asked>>

Connect(c) ==
    LET u == UserOf[c] IN
    /\ at[c] = "unopened"
    /\ u \in accounts
    /\ Overlapping \/ \A d \in Own(u) : at[d] \in {"unopened", "closed"}
    /\ conns' = conns \cup {c}
    /\ at' = [at EXCEPT ![c] = "open"]
    /\ todo' = [todo EXCEPT ![c] =
            <<Call("read_users"), Call("read_online"), Call("read_voice"),
              Call("ready")>>
            \o (IF IsFirst(u) THEN <<ToOthers(Presence(u, TRUE))>> ELSE <<>>)]
    /\ UNCHANGED <<hubVars, accounts, snap, mirror, missed, asked>>

ReadUsers(c) ==
    /\ Doing(c, "read_users")
    /\ snap' = [snap EXCEPT ![c].known = accounts]
    /\ Done(c, <<>>)
    /\ UNCHANGED <<hubVars, accounts, conns, at, mirror, missed, asked>>

ReadOnline(c) ==
    /\ Doing(c, "read_online")
    /\ snap' = [snap EXCEPT ![c].online = Online]
    /\ Done(c, <<>>)
    /\ UNCHANGED <<hubVars, accounts, conns, at, mirror, missed, asked>>

ReadVoice(c) ==
    /\ Doing(c, "read_voice")
    /\ snap' = [snap EXCEPT ![c].voice = VoiceStates]
    /\ Done(c, <<>>)
    /\ UNCHANGED <<hubVars, accounts, conns, at, mirror, missed, asked>>

SendReady(c) ==
    /\ Doing(c, "ready")
    /\ LET s == snap[c]
       IN  Deliver(Ready(s.known, s.known \cap s.online, s.voice), {c})
    /\ snap' = [snap EXCEPT ![c] = NoSnap]
    /\ Done(c, <<>>)
    /\ UNCHANGED <<hubVars, accounts, conns, at, asked>>

----------------------------------------------------------------------------
(* Requests.                                                               *)

\* Between two requests.
MayAsk(c) == Idling(c) /\ asked < MaxAsks

\* c's client asks for something, and the handler has these calls to make
\* after the one it makes at once.
Asks(c, calls) ==
    /\ MayAsk(c)
    /\ asked' = asked + 1
    /\ todo' = [todo EXCEPT ![c] = calls]
    /\ UNCHANGED <<accounts, conns, at, snap, mirror, missed>>

\* The credentials of the membership that a join begins.
NewCredential(u) ==
    [voice |-> members'[u].voice, key |-> keys'[members'[u].channel]]

Announcements(u) ==
    <<ToSelf(VoiceReady(NewCredential(u))),
      Broadcast(VoiceState(u, Public(members'[u])))>>
Farewell(u) ==
    IF u \in InCall THEN <<Broadcast(VoiceLeave(u, members[u].channel))>>
                    ELSE <<>>

\* Mistake: the call that was left is announced after the one that was joined.
FarewellLast(u) == Announcements(u) \o Farewell(u)

\* u was moved: out of the old call, into the new one.
JoinCalls(u) == Farewell(u) \o Announcements(u)

AskJoinVoice(c, ch) ==
    MayAsk(c) /\ JoinVoice(UserOf[c], ch) /\ Asks(c, JoinCalls(UserOf[c]))

AskLeaveVoice(c) ==
    Asks(c, <<Call("stop_screen")>>) /\ UNCHANGED hubVars

AskVoiceFlags(c, f) ==
    LET u == UserOf[c] IN
    /\ SetVoiceFlags(u, f)
    /\ Asks(c, <<Broadcast(VoiceState(u, Public(members'[u])))>>)

AskStartScreen(c) ==
    /\ StartScreen(UserOf[c])
    /\ Asks(c, <<Broadcast(ScreenStart(UserOf[c]))>>)

AskStopScreen(c) ==
    /\ StopScreen(UserOf[c])
    /\ Asks(c, <<Broadcast(ScreenStop(UserOf[c]))>>)

AskWatch(c, target) ==
    Watch(UserOf[c], target) /\ Asks(c, <<>>)

AskUnwatch(c, target) ==
    Unwatch(UserOf[c], target) /\ Asks(c, <<>>)

AskDisplayName(c) ==
    Asks(c, <<Broadcast(UserUpdate(UserOf[c]))>>) /\ UNCHANGED hubVars

----------------------------------------------------------------------------
(* Leaving a call, on request or because the account's last connection is  *)
(* gone, and the end of a connection.                                      *)

\* `sharing` is true of everybody who is in a call, sharing or not.
DoStopScreen(c) ==
    LET u == UserOf[c] IN
    /\ Doing(c, "stop_screen")
    /\ IF u \in InCall THEN StopScreen(u) ELSE UNCHANGED hubVars
    /\ Done(c, <<[op |-> "leave_voice", sharing |-> u \in InCall]>>)
    /\ UNCHANGED <<accounts, conns, mirror, missed, asked, at, snap>>

DoLeaveVoice(c) ==
    LET u == UserOf[c] IN
    /\ Doing(c, "leave_voice")
    /\ IF u \in InCall
       THEN /\ LeaveVoice(u)
            /\ Done(c, (IF Head(todo[c]).sharing
                        THEN <<Broadcast(ScreenStop(u))>> ELSE <<>>)
                       \o <<Broadcast(VoiceLeave(u, members[u].channel))>>)
       ELSE UNCHANGED hubVars /\ Done(c, <<>>)
    /\ UNCHANGED <<accounts, conns, mirror, missed, asked, at, snap>>

\* The socket closes or fails, or the client identifies a second time.  The
\* client forgets what it knew (State::reset).
HangUp(c) ==
    /\ Idling(c)
    /\ at' = [at EXCEPT ![c] = "closing"]
    /\ todo' = [todo EXCEPT ![c] = <<Call("disconnect")>>]
    /\ mirror' = [mirror EXCEPT ![c] = Blank]
    /\ missed' = [missed EXCEPT ![c] = NothingMissed]
    /\ UNCHANGED <<hubVars, accounts, conns, snap, asked>>

\* Mistake: the connection itself still counts as one of the account's.
NeverLast(c) == ~\E d \in conns : UserOf[d] = UserOf[c]

IsLast(c) == ~\E d \in conns \ {c} : UserOf[d] = UserOf[c]

\* Hub::disconnect and, for the last connection, what follows from it.
Disconnect(c) ==
    /\ at[c] = "closing"
    /\ Doing(c, "disconnect")
    /\ conns' = conns \ {c}
    /\ Done(c, IF IsLast(c)
               THEN <<Call("check_voice"), Broadcast(Presence(UserOf[c], FALSE))>>
               ELSE <<>>)
    /\ UNCHANGED <<hubVars, accounts, mirror, missed, asked, at, snap>>

CheckVoice(c) ==
    /\ at[c] = "closing"
    /\ Doing(c, "check_voice")
    /\ Done(c, IF UserOf[c] \in InCall THEN <<Call("stop_screen")>> ELSE <<>>)
    /\ UNCHANGED <<hubVars, accounts, conns, mirror, missed, asked, at, snap>>

Close(c) ==
    /\ at[c] = "closing" /\ todo[c] = <<>>
    /\ at' = [at EXCEPT ![c] = "closed"]
    /\ UNCHANGED <<hubVars, accounts, conns, todo, snap, mirror, missed, asked>>

----------------------------------------------------------------------------

SessionInit ==
    /\ HubInit
    /\ accounts = Users \ Newcomers
    /\ conns = {}
    /\ at = [c \in Conns |-> "unopened"]
    /\ todo = [c \in Conns |-> <<>>]
    /\ snap = [c \in Conns |-> NoSnap]
    /\ mirror = [c \in Conns |-> Blank]
    /\ missed = [c \in Conns |-> NothingMissed]
    /\ asked = 0

Request(c) ==
    \/ \E ch \in Channels : AskJoinVoice(c, ch)
    \/ AskLeaveVoice(c)
    \/ \E f \in VoiceFlags : AskVoiceFlags(c, f)
    \/ AskStartScreen(c)
    \/ AskStopScreen(c)
    \/ \E v \in Users : AskWatch(c, v) \/ AskUnwatch(c, v)
    \/ AskDisplayName(c)

\* The rest of a handler, and of a teardown.
Proceed(c) ==
    \/ DoBroadcast(c) \/ DoToOthers(c) \/ DoToSelf(c)
    \/ ReadUsers(c) \/ ReadOnline(c) \/ ReadVoice(c) \/ SendReady(c)
    \/ DoStopScreen(c) \/ DoLeaveVoice(c)
    \/ Disconnect(c) \/ CheckVoice(c) \/ Close(c)

SessionNext ==
    \/ \E u \in Users : Register(u)
    \/ \E c \in Conns : Connect(c) \/ Request(c) \/ HangUp(c) \/ Proceed(c)

SessionSpec == SessionInit /\ [][SessionNext]_vars

\* The runtime keeps running every task.  Nobody is obliged to connect, to
\* ask for anything or to hang up.
FairSessionSpec ==
    /\ SessionSpec
    /\ \A c \in Conns : WF_vars(Proceed(c))

----------------------------------------------------------------------------
(* What the server and its clients promise each other.                     *)

SessionTypeOK ==
    /\ asked \in 0 .. MaxAsks
    /\ accounts \subseteq Users /\ conns \subseteq Conns
    /\ DOMAIN todo = Conns
    /\ \A c \in Conns :
        /\ at[c] \in {"unopened", "open", "closing", "closed"}
        /\ c \in conns => at[c] \in {"open", "closing"}
        /\ Open(c) => c \in conns
        /\ mirror[c].known \subseteq accounts /\ mirror[c].online \subseteq Users
        /\ DOMAIN mirror[c].voice \subseteq Users

\* c will yet look whether its account has to leave a call.
Leaving(c) ==
    \E op \in {"disconnect", "check_voice", "stop_screen", "leave_voice"} :
        Doing(c, op)

(* Nobody is left behind in a call: while an account is in one, it has a   *)
(* connection that is open or one whose teardown has yet to take it out,   *)
(* however many connections it opens and closes and in whatever order.     *)
(* (run's teardown, Hub::disconnect)                                       *)
NobodyLeftBehind ==
    \A u \in InCall : \E c \in Own(u) : Open(c) \/ Leaving(c)

\* No handler of u's is part way through.
Quiet(u) == \A c \in Own(u) : todo[c] = <<>>
\* c's client has had its Ready.
Settled(c) ==
    /\ Open(c)
    /\ \A op \in {"read_users", "read_online", "read_voice", "ready"} : ~Doing(c, op)

SeesVoice(c, u) ==
    IF u \in InCall
    THEN u \in DOMAIN mirror[c].voice /\ mirror[c].voice[u] = Public(members[u])
    ELSE u \notin DOMAIN mirror[c].voice

(* Applying frames blindly is enough: once frames have drained, a client   *)
(* sees every account in exactly the call, with exactly the flags, stream  *)
(* id and share, that the hub has it in -- unless a frame about it slipped *)
(* in ahead of the client's Ready.                                         *)
RosterAgrees ==
    \A c \in Conns : \A u \in Users \ missed[c].voice :
        Settled(c) /\ Quiet(u) => SeesVoice(c, u)

(* The same for who is online, among the accounts the client knows.        *)
PresenceAgrees ==
    \A c \in Conns : \A u \in mirror[c].known \ missed[c].presence :
        Settled(c) /\ Quiet(u) => (u \in mirror[c].online <=> u \in Online)

(* Whatever a client shows of others is what the server holds.             *)
ClientsAgree == SessionTypeOK /\ RosterAgrees /\ PresenceAgrees

(* A client holds credentials exactly while its account is in a call, and  *)
(* they are the ones of that membership: a switch of channels never leaves *)
(* it with the old stream id or the old key, or with none.                 *)
CredentialsCurrent ==
    \A c \in Conns : LET u == UserOf[c] IN
        Settled(c) /\ Quiet(u) =>
            mirror[c].creds =
                IF u \in InCall
                THEN [voice |-> members[u].voice, key |-> keys[members[u].channel]]
                ELSE NoCreds

Gone(u) == Own(u) \cap conns = {}

(* An account whose last connection is gone leaves its call, and clients   *)
(* are told, unless it comes back.                                         *)
DeparturesTold ==
    \A u \in Users : \A c \in Conns \ Own(u) :
        (Gone(u) /\ u \in DOMAIN mirror[c].voice) ~>
            (u \notin DOMAIN mirror[c].voice \/ ~Gone(u) \/ ~Open(c)
                \/ u \in missed[c].voice)

(* "frames arrive in the order they were produced, which is what lets the  *)
(* client apply them blindly instead of reconciling" (session.rs:11-13):   *)
(* RosterAgrees without its exception.                                     *)
BlindlyApplied ==
    \A c \in Conns : \A u \in Users :
        Settled(c) /\ Quiet(u) => SeesVoice(c, u)

============================================================================

-------------------------------- MODULE Hub --------------------------------
(***************************************************************************)
(* The server's voice state and its media relay:                           *)
(*   crates/boa-server/src/hub.rs    who is in which call, whose screen is *)
(*                                   watched, which stream id is whose     *)
(*   crates/boa-server/src/relay.rs  the loop that reads one datagram at a *)
(*                                   time and asks the hub where it goes   *)
(*                                                                         *)
(* Every method of Hub runs under one mutex and never awaits, so each is   *)
(* one action.  The relay's handling of a registration is two: the hub is  *)
(* asked (Route), the lock is released while the packet is authenticated,  *)
(* and the hub is called again (bind_media_address).                       *)
(*                                                                         *)
(* Arguments are whatever a connection may ask for in its own name; the    *)
(* order in which connections ask is Session's business, not this          *)
(* module's.                                                               *)
(***************************************************************************)
EXTENDS Integers, FiniteSets

CONSTANTS
    Users,      \* accounts
    Channels,   \* voice channels
    Addrs,      \* UDP source addresses
    AddrsOf,    \* AddrsOf[u]: the addresses u's clients send media from
    VoiceFlags, \* the [muted, deafened] records a client may report
    SsrcSpace,  \* size of the stream id space: 2^32 in the code
    MaxJoins,   \* bound on the number of joins in a behaviour
    NoAddr,     \* Member::addr = None
    Idle        \* the relay is between datagrams

ASSUME HubAssumption ==
    /\ IsFiniteSet(Users)
    /\ AddrsOf \in [Users -> SUBSET Addrs]
    /\ NoAddr \notin Addrs
    /\ VoiceFlags \subseteq [muted : BOOLEAN, deafened : BOOLEAN]
    /\ MaxJoins \in Nat
    \* Room for two ids per account beside the reserved zero.
    /\ SsrcSpace \in Nat /\ SsrcSpace > 1
    /\ SsrcSpace > 2 * Cardinality(Users)
    /\ Idle \notin [user : Users, key : Nat, sealed : Nat, ssrc : Nat,
                    from : Addrs]

VARIABLES
    members,   \* user |-> Member, for the users who are in a call
    bySsrc,    \* stream id |-> user
    keys,      \* channel |-> session key, for the occupied channels
    nextSsrc,  \* State::next_ssrc
    joins,     \* joins so far; also the source of fresh key values
    relay,     \* Idle, or the registration the relay is authenticating
    handed     \* handed[u]: every credential ever issued to u (history)

hubVars == <<members, bySsrc, keys, nextSsrc, joins, relay, handed>>

SsrcIds == 1 .. (SsrcSpace - 1)
Kinds   == {"voice", "screen", "keepalive"}

Member ==
    [channel : Channels, voice : SsrcIds, screen : SsrcIds, flags : VoiceFlags
        \cup {[muted |-> FALSE, deafened |-> FALSE]},
     sharing : BOOLEAN, watching : SUBSET Users, addr : Addrs \cup {NoAddr}]

\* What a joiner learns: VoiceReady carries the voice id and the key, and
\* ScreenStart later names the screen id taken in the same join.
Credential == [voice : SsrcIds, screen : SsrcIds, key : Nat]

Registration ==
    [user : Users, key : Nat, sealed : Nat, ssrc : SsrcIds, from : Addrs]

----------------------------------------------------------------------------
(* Voice membership.                                                       *)

InCall == DOMAIN members
Occupants(c) == {u \in InCall : members[u].channel = c}
Others(u, c) == Occupants(c) \ {u}

\* The ids still indexed once u's own two are gone.
KeptSsrcs(u) == {s \in DOMAIN bySsrc : bySsrc[s] # u}

\* Mistake: a departure leaves the subscriptions to whoever left.
StillWatching(u) == [v \in InCall \ {u} |-> members[v]]

\* u ceases to be a member: nobody else watches u any more.
MembersWithout(u) ==
    [v \in InCall \ {u} |->
        [members[v] EXCEPT !.watching = @ \ {u}]]

\* Mistake: no departure ends the channel's key.
KeyNeverEnded(u) == keys

\* A key lives exactly as long as somebody is in its channel.
KeysWithout(u) ==
    [c \in {d \in DOMAIN keys :
                u \in Occupants(d) => Others(u, d) # {}} |-> keys[c]]

(* take_ssrc: the first id from the counter on, wrapping, that is neither  *)
(* zero nor in use; the counter ends one past it.                          *)
\* Mistakes: the counter overflows; the lowest free id is taken.
Overflowing(s) == s + 1
LowestFree(from, free, s) == s \in free /\ \A t \in free : s <= t

Successor(s) == IF s = SsrcSpace - 1 THEN 0 ELSE s + 1
PassedOver(from, s) ==
    IF from <= s THEN from .. (s - 1)
                 ELSE (from .. (SsrcSpace - 1)) \cup (0 .. (s - 1))
Takes(from, free, s) == s \in free /\ PassedOver(from, s) \cap free = {}

JoinVoice(u, c) ==
    LET free == SsrcIds \ KeptSsrcs(u)
        kept == KeysWithout(u)
        key  == IF c \in DOMAIN kept THEN kept[c] ELSE joins
    IN
    /\ joins < MaxJoins
    /\ \E v \in free : Takes(nextSsrc, free, v) /\ \E s \in free :
        /\ Takes(Successor(v), free, s)
        /\ nextSsrc' = Successor(s)
        /\ bySsrc' = [t \in KeptSsrcs(u) \cup {v, s} |->
                        IF t \in {v, s} THEN u ELSE bySsrc[t]]
        /\ members' = [w \in InCall \cup {u} |->
                        IF w = u
                        THEN [channel |-> c, voice |-> v, screen |-> s,
                              flags |-> [muted |-> FALSE, deafened |-> FALSE],
                              sharing |-> FALSE, watching |-> {},
                              addr |-> NoAddr]
                        ELSE MembersWithout(u)[w]]
        /\ handed' = [handed EXCEPT ![u] =
                        @ \cup {[voice |-> v, screen |-> s, key |-> key]}]
    /\ keys' = [d \in DOMAIN kept \cup {c} |->
                    IF d = c THEN key ELSE kept[d]]
    /\ joins' = joins + 1
    /\ UNCHANGED relay

LeaveVoice(u) ==
    /\ u \in InCall
    /\ members' = MembersWithout(u)
    /\ bySsrc' = [s \in KeptSsrcs(u) |-> bySsrc[s]]
    /\ keys' = KeysWithout(u)
    /\ UNCHANGED <<nextSsrc, joins, relay, handed>>

SetVoiceFlags(u, f) ==
    /\ u \in InCall
    /\ members' = [members EXCEPT ![u].flags = f]
    /\ UNCHANGED <<bySsrc, keys, nextSsrc, joins, relay, handed>>

----------------------------------------------------------------------------
(* Screen sharing.  Starting again while sharing replaces the share and    *)
(* keeps its watchers; stopping forgets every watcher, whether or not      *)
(* there was a share to stop.                                              *)

StartScreen(u) ==
    /\ u \in InCall
    /\ members' = [members EXCEPT ![u].sharing = TRUE]
    /\ UNCHANGED <<bySsrc, keys, nextSsrc, joins, relay, handed>>

StopScreen(u) ==
    /\ u \in InCall
    /\ members' = [v \in InCall |->
                    [members[v] EXCEPT
                        !.sharing  = @ /\ v # u,
                        !.watching = @ \ {u}]]
    /\ UNCHANGED <<bySsrc, keys, nextSsrc, joins, relay, handed>>

SameCall(u, v) ==
    u \in InCall /\ v \in InCall /\ members[u].channel = members[v].channel

\* Only the channel is compared: the target need not be sharing.
Watch(viewer, target) ==
    /\ SameCall(viewer, target)
    /\ members' = [members EXCEPT ![viewer].watching = @ \cup {target}]
    /\ UNCHANGED <<bySsrc, keys, nextSsrc, joins, relay, handed>>

Unwatch(viewer, target) ==
    /\ viewer \in InCall
    /\ members' = [members EXCEPT ![viewer].watching = @ \ {target}]
    /\ UNCHANGED <<bySsrc, keys, nextSsrc, joins, relay, handed>>

----------------------------------------------------------------------------
(* The relay.  A datagram is its header's kind and ssrc, the key its       *)
(* payload is sealed under and the address it came from.                   *)

Datagram(kind, ssrc, sealed, from) ==
    [kind |-> kind, ssrc |-> ssrc, sealed |-> sealed, from |-> from]

\* Everything u's clients may have on the network: packets under any
\* credential u was ever given, so arbitrarily late or repeated ones too.
\* Registrations are sent for the voice id only.
SentBy(u) ==
    {Datagram(kind, IF kind = "screen" THEN cred.screen ELSE cred.voice,
              cred.key, from) :
        kind \in Kinds, cred \in handed[u], from \in AddrsOf[u]}

Known(d) == d.ssrc \in DOMAIN bySsrc /\ bySsrc[d.ssrc] \in InCall
Sender(d) == bySsrc[d.ssrc]

\* Route::Register.  A known stream in a channel that has a key.
Registers(d) ==
    /\ d.kind = "keepalive"
    /\ Known(d)
    /\ members[Sender(d)].channel \in DOMAIN keys

\* Route::Forward.  From the bound address, on the stream meant for the kind.
Forwards(d) ==
    /\ d.kind # "keepalive"
    /\ Known(d)
    /\ members[Sender(d)].addr = d.from
    /\ d.ssrc = IF d.kind = "screen" THEN members[Sender(d)].screen
                                     ELSE members[Sender(d)].voice

\* Who a forwarded datagram is sent to.
Listeners(d) ==
    {v \in Others(Sender(d), members[Sender(d)].channel) :
        /\ IF d.kind = "screen" THEN Sender(d) \in members[v].watching
                                ELSE ~members[v].flags.deafened
        /\ members[v].addr # NoAddr}

RelayRoute(d) ==
    /\ relay = Idle
    /\ Registers(d)
    /\ relay' = [user |-> Sender(d), sealed |-> d.sealed, ssrc |-> d.ssrc,
                 from |-> d.from, key |-> keys[members[Sender(d)].channel]]
    /\ UNCHANGED <<members, bySsrc, keys, nextSsrc, joins, handed>>

\* verify_registration, then bind_media_address: by account, whatever has
\* happened to the account's membership since the packet was routed.
RelayBind ==
    /\ relay # Idle
    /\ relay' = Idle
    /\ members' =
        IF relay.sealed = relay.key /\ relay.user \in InCall
        THEN [members EXCEPT ![relay.user].addr = relay.from]
        ELSE members
    /\ UNCHANGED <<bySsrc, keys, nextSsrc, joins, handed>>

----------------------------------------------------------------------------

HubInit ==
    /\ members = [u \in {} |-> 0]
    /\ bySsrc = [s \in {} |-> 0]
    /\ keys = [c \in {} |-> 0]
    /\ nextSsrc = 1
    /\ joins = 0
    /\ relay = Idle
    /\ handed = [u \in Users |-> {}]

MemberNext(u) ==
    \/ \E c \in Channels : JoinVoice(u, c)
    \/ LeaveVoice(u)
    \/ \E f \in VoiceFlags : SetVoiceFlags(u, f)
    \/ StartScreen(u)
    \/ StopScreen(u)
    \/ \E v \in Users : Watch(u, v) \/ Unwatch(u, v)

RelayNext ==
    \/ \E u \in Users : \E d \in SentBy(u) : RelayRoute(d)
    \/ RelayBind

HubNext == (\E u \in Users : MemberNext(u)) \/ RelayNext

HubSpec == HubInit /\ [][HubNext]_hubVars

----------------------------------------------------------------------------
(* What the hub promises.                                                  *)

HubTypeOK ==
    /\ InCall \subseteq Users
    /\ members \in [InCall -> Member]
    /\ bySsrc \in [DOMAIN bySsrc -> Users] /\ DOMAIN bySsrc \subseteq SsrcIds
    /\ keys \in [DOMAIN keys -> Nat] /\ DOMAIN keys \subseteq Channels
    /\ nextSsrc \in 0 .. (SsrcSpace - 1)
    /\ joins \in Nat
    /\ relay \in Registration \cup {Idle}
    /\ handed \in [Users -> SUBSET Credential]

(* A stream id leads to the one member who holds it, and to nobody once    *)
(* that membership is over, however often the id counter has wrapped.      *)
(* (join_voice, remove_member, take_ssrc)                                  *)
IndexExact ==
    /\ \A u \in InCall :
        /\ {members[u].voice, members[u].screen} \subseteq DOMAIN bySsrc
        /\ bySsrc[members[u].voice] = u /\ bySsrc[members[u].screen] = u
        /\ members[u].voice # members[u].screen
    /\ \A s \in DOMAIN bySsrc :
        /\ bySsrc[s] \in InCall
        /\ s \in {members[bySsrc[s]].voice, members[bySsrc[s]].screen}

(* Everybody in a call was handed the key that call is using now: no      *)
(* departure or rejoin of another member changes it under them.            *)
(* (remove_member's key drop, join_voice's get-or-create)                  *)
KeyHolders ==
    \A u \in InCall :
        /\ members[u].channel \in DOMAIN keys
        /\ [voice |-> members[u].voice, screen |-> members[u].screen,
            key |-> keys[members[u].channel]] \in handed[u]

(* An empty channel keeps no key.                                          *)
KeysExact == DOMAIN keys = {members[u].channel : u \in InCall}

(* A subscription never crosses calls: whoever is watched is in the same   *)
(* channel as the watcher, through every join, switch and departure.       *)
WatchingWithinCall ==
    \A u \in InCall : \A v \in members[u].watching : SameCall(u, v)

(* A packet that the relay forwards, however old, opens under the key of   *)
(* the people it is sent to.  (route; needs stream ids not to be reused    *)
(* within the life of a packet)                                            *)
ForwardedOpens ==
    \A u \in Users : \A d \in SentBy(u) :
        Forwards(d) => \A v \in Listeners(d) :
                            \E cred \in handed[v] : cred.key = d.sealed

(* Media is only ever sent to an address of the account it is meant for,   *)
(* even when registrations arrive late or twice.  (bind_media_address)     *)
MediaAddrIsOwn ==
    \A u \in InCall : members[u].addr \in AddrsOf[u] \cup {NoAddr}

\* Keys are numbered as they are made: an old one is below the counter.
KeysIssued ==
    /\ \A c \in DOMAIN keys : keys[c] < joins
    /\ \A u \in Users : \A cred \in handed[u] : cred.key < joins

\* The inductive invariant behind the promises about the control plane.
HubInv == HubTypeOK /\ IndexExact /\ KeyHolders /\ KeysExact
            /\ WatchingWithinCall /\ KeysIssued

Stays(u, c) ==
    /\ u \in Occupants(c)
    /\ u \in DOMAIN members'
    /\ members'[u].channel = c /\ members'[u].voice = members[u].voice

(* A call that nobody of the previous one is still in uses a key that      *)
(* nobody has ever been given, so who left cannot decrypt it.              *)
NextCallNewKey ==
    [][\A c \in DOMAIN keys' :
        (\A u \in InCall : ~Stays(u, c)) =>
            \A u \in Users : \A cred \in handed[u] : cred.key # keys'[c]
      ]_hubVars

(* Nobody starts a membership already watched: a subscription to an        *)
(* earlier session of the same account does not survive into this one.     *)
JoinsUnwatched ==
    [][\A u \in DOMAIN members' :
        (u \notin InCall \/ members'[u].voice # members[u].voice) =>
            \A v \in DOMAIN members' : u \notin members'[v].watching
      ]_hubVars

============================================================================

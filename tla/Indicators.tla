----------------------------- MODULE Indicators -----------------------------
(***************************************************************************)
(* Who is typing and who is speaking, as another client shows it: notices  *)
(* from crates/boa-client/src/ui/mod.rs (Action::Typing, poll_voice),      *)
(* forwarded by crates/boa-server/src/session.rs and kept for a while by   *)
(* crates/boa-client/src/state.rs.  One person types in one channel and    *)
(* talks in one call, and one watches.                                     *)
(*                                                                         *)
(* Time goes in ticks.  Notices go in order and take MaxDelay at most, or  *)
(* are lost with the connection, which is never restored here.             *)
(***************************************************************************)
EXTENDS Integers, Sequences

CONSTANTS
    ClientEvery,  \* a client sends a notice of typing no more often than this,
    ServerEvery,  \* TYPING_INTERVAL: and the server forwards none more often
    TypingTtl,    \* TYPING_TTL
    SpeakingTtl,  \* SPEAKING_TTL
    MaxDelay,     \* bound on what a notice takes to the server,
    MaxWire       \* and on how many are on the way when somebody talks

\* A notice is shown until the next can have come.
ASSUME IndicatorsAssumption ==
    /\ {ClientEvery, ServerEvery, TypingTtl, SpeakingTtl} \subseteq Nat \ {0}
    /\ {MaxDelay, MaxWire} \subseteq Nat
    /\ ClientEvery + MaxDelay < TypingTtl

VARIABLES
    wire,       \* notices on their way: what each says, and for how long now
    linked,     \* whether the connection is there
    typing,     \* ticks the person has typed without a pause, 0 for not typing
    quiet,      \* ticks since they typed last
    last_typing,\* App.last_typing: ticks since
    forwarded,  \* Session.last_typing: ticks since
    typer,      \* State.typing: ticks since
    talking,    \* Status.speaking
    announced_speaking, \* App.announced_speaking
    silent,     \* ticks since they talked last
    speaker,    \* State.speaking: ticks since
    throttled   \* whether the server dropped a notice (history)

typed == <<typing, quiet, last_typing, forwarded, typer, throttled>>
talked == <<talking, announced_speaking, silent, speaker>>
indicatorVars == <<wire, linked, typed, talked>>

\* Ticks are counted up to Long, which is longer than anything asked about.
Long == 2 * (TypingTtl + MaxDelay + 1)
More(ticks) == IF ticks < Long THEN ticks + 1 ELSE Long

Say(what) == wire' = IF linked THEN Append(wire, [says |-> what, for |-> 0]) ELSE wire

----------------------------------------------------------------------------
(* The one who types and talks.                                            *)

\* A key is pressed: Action::Typing, throttled here as well as on the server.
Key ==
    /\ typing' = IF typing = 0 THEN 1 ELSE typing
    /\ quiet' = 0
    /\ typing = 0 \/ quiet > 0
    /\ IF last_typing >= ClientEvery
       THEN Say("typing") /\ last_typing' = 0
       ELSE UNCHANGED <<wire, last_typing>>
    /\ UNCHANGED <<linked, forwarded, typer, throttled, talked>>

\* The gate opens or closes.
Talk ==
    /\ Len(wire) < MaxWire
    /\ talking' = ~talking
    /\ silent' = 0
    /\ UNCHANGED <<wire, linked, typed, announced_speaking, speaker>>

\* poll_voice: one notice at each change.
Announce ==
    /\ talking # announced_speaking
    /\ announced_speaking' = talking
    /\ Say(IF talking THEN "speaking" ELSE "stopped")
    /\ UNCHANGED <<linked, typed, talking, silent, speaker>>

----------------------------------------------------------------------------
(* The server and the one who watches.                                     *)

\* Forwarded if the last was not too recently: the timer is told one notice
\* at a time.
Forwards == forwarded >= ServerEvery

\* Mistake: an indicator is for a person who said so once.
Forever(ticks, ttl) == ticks < Long

\* State::typers, is_speaking and expire
Shows(ticks, ttl) == ticks < ttl

Deliver ==
    /\ wire # <<>> /\ linked
    /\ LET says == Head(wire).says
           types == says = "typing" /\ Forwards
       IN  /\ typer' = IF types THEN 0 ELSE typer
           /\ forwarded' = IF types THEN 0 ELSE forwarded
           /\ throttled' = (throttled \/ (says = "typing" /\ ~Forwards))
           /\ speaker' = CASE says = "speaking" -> 0
                           [] says = "stopped"  -> Long
                           [] OTHER             -> speaker
    /\ wire' = Tail(wire)
    /\ UNCHANGED <<linked, typing, quiet, last_typing, talking, announced_speaking, silent>>

----------------------------------------------------------------------------

\* A tick passes: a person who types has pressed a key in each; what is late
\* has arrived, and changes have been announced.
Tick ==
    /\ \A n \in DOMAIN wire : wire[n].for < MaxDelay
    /\ talking = announced_speaking
    /\ wire' = [n \in DOMAIN wire |-> [wire[n] EXCEPT !.for = @ + 1]]
    /\ typing' = IF typing = 0 \/ quiet > 0 THEN 0 ELSE More(typing)
    /\ quiet' = More(quiet)
    /\ last_typing' = More(last_typing)
    /\ forwarded' = More(forwarded)
    /\ typer' = More(typer)
    /\ silent' = IF talking THEN 0 ELSE More(silent)
    /\ speaker' = More(speaker)
    /\ UNCHANGED <<linked, talking, announced_speaking, throttled>>

\* The connection is lost, and what was on its way with it.
Cut == linked /\ linked' = FALSE /\ wire' = <<>> /\ UNCHANGED <<typed, talked>>

IndicatorsInit ==
    /\ wire = <<>> /\ linked = TRUE
    /\ typing = 0 /\ quiet = Long /\ last_typing = Long /\ forwarded = Long /\ typer = Long
    /\ talking = FALSE /\ announced_speaking = FALSE /\ silent = Long /\ speaker = Long
    /\ throttled = FALSE

IndicatorsNext == Key \/ Talk \/ Announce \/ Deliver \/ Tick \/ Cut

----------------------------------------------------------------------------

ShownTyping == Shows(typer, TypingTtl)
ShownSpeaking == Shows(speaker, SpeakingTtl)

\* Nobody is shown as typing or speaking for long after they did, whatever was
\* lost; and whoever goes on typing is shown as long as they do, from when the
\* first notice arrives, unless the server takes a notice for too early.
\* (state.rs, TYPING_TTL: "or the indicator would flicker"; SPEAKING_TTL)
ShownInTime ==
    /\ ShownTyping => quiet <= TypingTtl + MaxDelay
    /\ ShownSpeaking => silent <= SpeakingTtl + MaxDelay
    /\ typing > MaxDelay + 1 /\ linked /\ ~throttled => ShownTyping

=============================================================================

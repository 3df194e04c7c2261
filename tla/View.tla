-------------------------------- MODULE View --------------------------------
(***************************************************************************)
(* Whose picture the client shows: the view, the decoder of the share      *)
(* being watched and the preview of one's own, and the one texture that    *)
(* the window and the popped-out window draw, in                           *)
(* crates/boa-client/src/ui/mod.rs (poll_screen, feed_popout, the          *)
(* handlers) and ui/popout.rs.  Messages and clicks are handled between    *)
(* two frames of the interface; decoders work at any moment.               *)
(*                                                                         *)
(* Decoders (Watcher) are numbered as they are made.                       *)
(***************************************************************************)
EXTENDS Integers, Sequences, FiniteSets

CONSTANTS
    People,      \* who may share a screen
    Me,          \* the user of this client
    MaxDecoders, \* bound on decoders made
    MaxDecoded   \* bound on the pictures of each

ASSUME ViewAssumption == Me \in People /\ {MaxDecoders, MaxDecoded} \subseteq Nat

VARIABLES
    sharing,     \* State.voice: who is sharing, as far as this client knows
    view,        \* App.view: whose screen, if any: a set of at most one
    owner,       \* owner[n]: whose pictures decoder n decodes
    latest,      \* latest[n]: generation of the picture to be taken, 0 for none
    decoded,     \* decoded[n]: pictures so far
    watcher,     \* App.watcher, 0 for none
    preview,     \* App.preview, 0 for none
    texture,     \* App.screen_texture: the decoder and generation of its picture
    texture_for, \* App.texture_for: a set of at most one
    popout,      \* Shown: whether it is open, its title and its picture;
                 \* and whether the window is up
    clicking,    \* whether the last frame may still be clicked at
    drawn,       \* what the last frame drew (history)
    ended,       \* decoders whose share is over (history)
    silently     \* people whose share ended without a ScreenStop (history)

decoderVars == <<owner, latest, decoded>>
shown == <<view, watcher, preview, texture, texture_for, popout>>
viewVars == <<sharing, decoderVars, shown, clicking, drawn, ended, silently>>

NoPicture == [of |-> 0, generation |-> 0]
Closed == [open |-> FALSE, up |-> FALSE, whose |-> {}, picture |-> NoPicture]
Blank == [whose |-> {}, picture |-> NoPicture, current |-> 0, waiting |-> 0, over |-> FALSE]

\* Watcher::feed: a decoder of u's pictures is made.
Make(u) ==
    /\ Len(owner) < MaxDecoders
    /\ owner' = Append(owner, u)
    /\ latest' = Append(latest, 0)
    /\ decoded' = Append(decoded, 0)

----------------------------------------------------------------------------
(* The decoders, and the interface's own steps.                            *)

\* decode_loop: a picture replaces one that was not taken.
Decode(n) ==
    /\ n \notin ended /\ decoded[n] < MaxDecoded
    /\ decoded' = [decoded EXCEPT ![n] = @ + 1]
    /\ latest' = [latest EXCEPT ![n] = decoded'[n]]
    /\ UNCHANGED <<sharing, owner, shown, clicking, drawn, ended, silently>>

\* The decoder whose pictures belong on the screen.
Source ==
    IF view = {Me} THEN preview
    ELSE IF watcher # 0 /\ view = {owner[watcher]} THEN watcher ELSE 0

\* What poll_screen starts from: a texture with somebody else's last frame
\* must not appear under this person's name.
StillTheirs == IF texture_for = view THEN texture ELSE NoPicture

\* take_frame: the latest picture, if there is one newer than the one shown.
Newer(n, than) == latest[n] > than.generation

\* poll_screen, drawing, and feed_popout.
DrawFrame ==
    LET n == Source
        uploads == n # 0 /\ Newer(n, StillTheirs)
        picture == IF n = 0 THEN texture
                   ELSE IF uploads THEN [of |-> n, generation |-> latest[n]] ELSE StillTheirs
        popped == popout.open /\ view # {}
        waiting == IF n = 0 \/ uploads THEN 0 ELSE latest[n]
    IN  /\ texture' = picture
        /\ texture_for' = IF n = 0 THEN texture_for ELSE view
        /\ latest' = IF uploads THEN [latest EXCEPT ![n] = 0] ELSE latest
        /\ popout' = IF popped THEN [open |-> TRUE, up |-> TRUE, whose |-> view, picture |-> picture]
                     ELSE [popout EXCEPT !.open = FALSE, !.up = FALSE]
        /\ drawn' = IF view = {} THEN Blank
                    ELSE [whose |-> view, picture |-> picture, current |-> n, waiting |-> waiting,
                          over |-> picture.of \in ended]
        /\ clicking' = TRUE
        /\ UNCHANGED <<sharing, owner, decoded, view, watcher, preview, ended, silently>>

----------------------------------------------------------------------------
(* What is clicked, and what arrives.                                      *)

\* One click at what a frame drew, before the next begins; messages come as
\* it begins.
Click == clicking /\ clicking' = FALSE
BeforeFrame == clicking' = FALSE

\* Mistake: a new decoder goes on with the picture of the old one.
WatchOn(u) ==
    /\ Click /\ u \in sharing
    /\ Make(u)
    /\ watcher' = Len(owner')
    /\ view' = {u}
    /\ UNCHANGED <<sharing, preview, texture, texture_for, popout, drawn, ended, silently>>

\* Action::Watch
Watch(u) ==
    /\ Click /\ u \in sharing
    /\ Make(u)
    /\ texture' = NoPicture
    /\ watcher' = Len(owner')
    /\ view' = {u}
    /\ UNCHANGED <<sharing, preview, texture_for, popout, drawn, ended, silently>>

\* Action::Unwatch, and leaving for a channel or the settings
Unwatch ==
    /\ Click /\ view # {}
    /\ view' = {}
    /\ \/ watcher' = 0 /\ texture' = NoPicture
       \/ UNCHANGED <<watcher, texture>>
    /\ UNCHANGED <<sharing, decoderVars, preview, texture_for, popout, drawn, ended, silently>>

\* Action::TogglePopOut
TogglePopOut ==
    /\ Click
    /\ popout.open \/ view # {}
    /\ popout' = IF popout.open THEN [popout EXCEPT !.open = FALSE]
                 ELSE [popout EXCEPT !.open = TRUE, !.whose = view]
    /\ UNCHANGED <<sharing, decoderVars, view, watcher, preview, texture, texture_for, drawn, ended, silently>>

\* The popped-out window's own close button
ClosePopOut ==
    /\ popout.open
    /\ popout' = [popout EXCEPT !.open = FALSE]
    /\ UNCHANGED <<sharing, decoderVars, view, watcher, preview, texture, texture_for, clicking, drawn, ended, silently>>

\* ScreenStart; one's own begins the capture and its preview, or fails to.
BeginsShare(u) ==
    /\ BeforeFrame /\ u \notin sharing
    /\ sharing' = sharing \cup {u}
    /\ \/ u = Me /\ Make(u) /\ preview' = Len(owner') /\ texture_for' = {}
       \/ UNCHANGED <<decoderVars, preview, texture_for>>
    /\ UNCHANGED <<view, watcher, texture, popout, drawn, ended, silently>>

Over(u) == ended' = ended \cup {n \in DOMAIN owner : owner[n] = u}

\* ScreenStop
EndsShare(u) ==
    LET watched == watcher # 0 /\ owner[watcher] = u
    IN  /\ BeforeFrame /\ u \in sharing
        /\ sharing' = sharing \ {u}
        /\ preview' = IF u = Me THEN 0 ELSE preview
        /\ watcher' = IF watched THEN 0 ELSE watcher
        /\ texture' = IF watched THEN NoPicture ELSE texture
        /\ view' = view \ {u}
        /\ Over(u)
        /\ UNCHANGED <<decoderVars, texture_for, popout, drawn, silently>>

\* VoiceLeave of somebody who moves to another call while sharing: the share
\* is over too, and no ScreenStop says so.
Leaves(u) ==
    /\ BeforeFrame /\ u \in sharing \ {Me}
    /\ sharing' = sharing \ {u}
    /\ silently' = silently \cup {u}
    /\ Over(u)
    /\ UNCHANGED <<decoderVars, shown, drawn>>

\* Action::StopScreen and check_share: locally first.
StopShare ==
    /\ BeforeFrame /\ preview # 0
    /\ preview' = 0
    /\ UNCHANGED <<sharing, decoderVars, view, watcher, texture, texture_for, popout, drawn, ended, silently>>

\* rejoin_voice, and Action::LeaveVoice
Reset ==
    /\ BeforeFrame
    /\ watcher # 0 \/ preview # 0
    /\ preview' = 0 /\ watcher' = 0 /\ texture' = NoPicture
    /\ UNCHANGED <<sharing, decoderVars, view, texture_for, popout, drawn, ended, silently>>

ViewInit ==
    /\ sharing = {} /\ view = {}
    /\ owner = <<>> /\ latest = <<>> /\ decoded = <<>>
    /\ watcher = 0 /\ preview = 0 /\ texture = NoPicture /\ texture_for = {}
    /\ popout = Closed /\ clicking = FALSE /\ drawn = Blank /\ ended = {} /\ silently = {}

ViewNext ==
    \/ \E n \in DOMAIN owner : Decode(n)
    \/ DrawFrame \/ Unwatch \/ TogglePopOut \/ ClosePopOut \/ StopShare \/ Reset
    \/ \E u \in People : Watch(u) \/ BeginsShare(u) \/ EndsShare(u) \/ Leaves(u)

----------------------------------------------------------------------------

\* What is drawn under a name is that person's, in either window, and comes
\* from the decoder at work: no picture of an earlier share is kept and none
\* of the present one held back. It is of a share that goes on, unless that
\* ended without a word. (poll_screen: "A texture holding somebody else's last
\* frame must not appear under this person's name")
NamedRightly ==
    LET shows == drawn.picture.of
    IN  /\ shows # 0 => drawn.whose = {owner[shows]}
        /\ shows # 0 /\ drawn.current # 0 => shows = drawn.current
        /\ drawn.waiting = 0
        /\ drawn.over => drawn.whose \subseteq silently \cup {Me}
        /\ popout.up /\ popout.picture.of # 0 => popout.whose = {owner[popout.picture.of]}

=============================================================================

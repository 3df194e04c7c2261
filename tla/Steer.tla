------------------------------- MODULE Steer -------------------------------
(***************************************************************************)
(* Finding the bitrate a connection can carry: whoever watches a share     *)
(* reports once a second how much of it arrives (report_quality of         *)
(* crates/boa-client/src/ui/mod.rs), the server passes that on to the      *)
(* sharer (session.rs of boa-server), and once a second the sharer's       *)
(* governor (screen/governor.rs) decides, for the encoder and the pacer    *)
(* (steer_share).                                                          *)
(*                                                                         *)
(* One share is followed; those who watch it may turn to another.  The     *)
(* seconds of the viewers and of the sharer pass in any order.             *)
(***************************************************************************)
EXTENDS Integers, FiniteSets

CONSTANTS
    Viewers,
    Settings,       \* bitrates the user may ask for, in kbit/s
    Seconds,        \* what a second may bring: pictures decoded and lost
    MaxSeconds,     \* bound on such seconds, for each viewer
    MaxTurns,       \* bound on what people do: watch, turn away, set
    None

ASSUME SteerAssumption ==
    /\ Settings \subseteq Nat \ {0} /\ Seconds \subseteq Nat \X Nat
    /\ MaxSeconds \in Nat /\ MaxTurns \in Nat

VARIABLES
    governor,   \* App.governor
    kbps,       \* Settings.screen.kbps
    rate,       \* Share.rate, and what the encoder was told
    forced,     \* the encoder was asked for a keyframe it has not made yet
    watch,      \* watch[v]: what v's Watcher is for and what it has counted
    at,         \* at[v]: App.reported_at
    subscribed, \* those the server has as watching this share
    mail,       \* mail[v]: v's report on its way to the server
    seconds,    \* seconds[v]: seconds that brought v anything so far
    turns,      \* what people did so far
    heard       \* losses reported since the governor decided (history)

viewer == <<watch, at, seconds>>
steerVars == <<governor, kbps, rate, forced, viewer, subscribed, mail, turns, heard>>

TooMuch == 10       \* TOO_MUCH
Comfortable == 2    \* COMFORTABLE
Floor == 400        \* FLOOR

AtLeast(a, b) == IF a < b THEN b ELSE a
AtMost(a, b) == IF a < b THEN a ELSE b
\* saturating_sub
Beyond(a, b) == AtLeast(a - b, 0)

----------------------------------------------------------------------------
(* The governor.                                                           *)

\* Governor::new
NewGovernor(k) ==
    [ceiling |-> AtLeast(k, Floor), target |-> AtLeast(k, Floor), worst |-> 0, key |-> FALSE]

\* Mistake: the last report counts, not the worst.
LastOne(g, loss) == loss

Worst(g, loss) == AtLeast(g.worst, loss)

\* Percent of the pictures that were lost; under five are not a measurement.
Loss(received, lost) ==
    IF received + lost >= 5 THEN (lost * 100) \div (received + lost) ELSE 0

\* Governor::report
Reported(g, r) ==
    [g EXCEPT !.worst = Worst(g, Loss(r.received, r.lost)), !.key = @ \/ r.want_keyframe]

\* Down to seven tenths at once, up by a twentieth at a time.
Target(g) ==
    CASE g.worst >= TooMuch -> AtLeast((g.target * 7) \div 10, Floor)
      [] g.worst <= Comfortable -> AtMost(g.target + g.target \div 20 + 1, g.ceiling)
      [] OTHER -> g.target

\* Whether a change is worth telling the encoder about.
Changed(old, new) == AtLeast(old - new, new - old) * 20 > old

\* Mistake: who asked for a keyframe is forgotten with the round.
KeyForgotten(g) == FALSE

WantsKey(g) == g.key

\* steer_share with Governor::decide.
Decide ==
    LET target == Target(governor) IN
    /\ forced' = (forced \/ WantsKey(governor))
    /\ rate' = IF Changed(governor.target, target) THEN target ELSE rate
    /\ governor' = [governor EXCEPT !.target = target, !.worst = 0, !.key = FALSE]
    /\ heard' = {}
    /\ UNCHANGED <<kbps, viewer, subscribed, mail, turns>>

\* Action::SettingsChanged, whichever setting it was.
SettingsChanged(k) ==
    /\ turns < MaxTurns
    /\ kbps' = k
    /\ governor' = NewGovernor(k)
    /\ rate' = k
    /\ turns' = turns + 1
    /\ heard' = {}
    /\ UNCHANGED <<forced, viewer, subscribed, mail>>

----------------------------------------------------------------------------
(* Those who watch.                                                        *)

Unstarted(who) == [who |-> who, frames |-> 0, incomplete |-> 0, started |-> FALSE]

\* Action::Watch.  Turning to another share leaves the subscription to this one.
Watch(v, who) ==
    /\ turns < MaxTurns
    /\ watch' = [watch EXCEPT ![v] = Unstarted(who)]
    /\ subscribed' = IF who = "this" THEN subscribed \cup {v} ELSE subscribed
    /\ turns' = turns + 1
    /\ UNCHANGED <<governor, kbps, rate, forced, at, mail, seconds, heard>>

\* stop_watching
Unwatch(v) ==
    /\ turns < MaxTurns
    /\ watch[v].who # "none"
    /\ watch' = [watch EXCEPT ![v] = Unstarted("none")]
    /\ subscribed' = IF watch[v].who = "this" THEN subscribed \ {v} ELSE subscribed
    /\ turns' = turns + 1
    /\ UNCHANGED <<governor, kbps, rate, forced, at, mail, seconds, heard>>

\* Pictures come and go missing.
Arrive(v, s) ==
    /\ watch[v].who # "none" /\ seconds[v] < MaxSeconds
    /\ s[1] > 0 => watch[v].started
    /\ watch' = [watch EXCEPT ![v].frames = @ + s[1], ![v].incomplete = @ + s[2]]
    /\ seconds' = [seconds EXCEPT ![v] = @ + 1]
    /\ UNCHANGED <<governor, kbps, rate, forced, at, subscribed, mail, turns, heard>>

\* The decoder refuses a picture.
Break(v) ==
    /\ watch[v].started /\ turns < MaxTurns
    /\ watch' = [watch EXCEPT ![v].started = FALSE]
    /\ turns' = turns + 1
    /\ UNCHANGED <<governor, kbps, rate, forced, at, subscribed, mail, seconds, heard>>

\* The encoder makes a keyframe, and it arrives at some.
Keyframe ==
    /\ forced
    /\ forced' = FALSE
    /\ \E S \in SUBSET {v \in subscribed : watch[v].who = "this"} :
          watch' = [v \in Viewers |-> IF v \in S THEN [watch[v] EXCEPT !.started = TRUE]
                                      ELSE watch[v]]
    /\ UNCHANGED <<governor, kbps, rate, at, subscribed, mail, seconds, turns, heard>>

\* Whether there is nothing to report.
Silent(report) == report.received = 0 /\ report.lost = 0 /\ ~report.want_keyframe

\* report_quality: what has changed since the last report.
ReportQuality(v) ==
    LET w == watch[v]
        report == [received |-> Beyond(w.frames, at[v][1]), lost |-> Beyond(w.incomplete, at[v][2]),
                   want_keyframe |-> ~w.started]
    IN
    /\ mail[v] = None
    /\ at' = [at EXCEPT ![v] = <<w.frames, w.incomplete>>]
    /\ mail' = IF w.who = "this" /\ ~Silent(report) THEN [mail EXCEPT ![v] = report] ELSE mail
    /\ UNCHANGED <<governor, kbps, rate, forced, watch, seconds, subscribed, turns, heard>>

\* The server passes a report on, unless the subscription is gone.
Forward(v) ==
    LET r == mail[v]
        passed == v \in subscribed
    IN
    /\ r # None
    /\ mail' = [mail EXCEPT ![v] = None]
    /\ governor' = IF passed THEN Reported(governor, r) ELSE governor
    /\ heard' = IF passed THEN heard \cup {Loss(r.received, r.lost)} ELSE heard
    /\ UNCHANGED <<kbps, rate, forced, viewer, subscribed, turns>>

----------------------------------------------------------------------------
SteerInit ==
    /\ kbps \in Settings
    /\ governor = NewGovernor(kbps) /\ rate = kbps /\ forced = FALSE
    /\ watch = [v \in Viewers |-> Unstarted("none")]
    /\ at = [v \in Viewers |-> <<0, 0>>]
    /\ subscribed = {} /\ mail = [v \in Viewers |-> None]
    /\ seconds = [v \in Viewers |-> 0] /\ turns = 0
    /\ heard = {}

SteerNext ==
    \/ Decide \/ Keyframe
    \/ \E k \in Settings : SettingsChanged(k)
    \/ \E v \in Viewers :
        \/ Watch(v, "this") \/ Watch(v, "other") \/ Unwatch(v)
        \/ Break(v) \/ ReportQuality(v) \/ Forward(v)
        \/ \E s \in Seconds : Arrive(v, s)

\* The interface draws on and on, the server serves and the encoder encodes.
SteerFairness ==
    /\ WF_steerVars(Decide) /\ WF_steerVars(Keyframe)
    /\ \A v \in Viewers : WF_steerVars(ReportQuality(v)) /\ WF_steerVars(Forward(v))

SteerSpec == SteerInit /\ [][SteerNext]_steerVars /\ SteerFairness

----------------------------------------------------------------------------
(* The rate, and whoever waits for a picture.                              *)

(* The encoder runs at what the governor has settled on, but for the       *)
(* twentieth that is not worth telling it about, however the changes too   *)
(* small to mention follow one another; and neither leaves the range from  *)
(* the floor to what the user asked for -- unless that is below the floor. *)
(* (Governor::decide, steer_share)                                         *)
RateFollows ==
    kbps >= Floor =>
        /\ Floor <= governor.target /\ governor.target <= kbps
        /\ Floor <= rate /\ rate <= kbps
        /\ AtLeast(rate - governor.target, governor.target - rate) * 20 <= rate

(* When anybody who watches reports that a tenth of the pictures is lost,  *)
(* the sharer sends less after the next decision, whatever the others say, *)
(* or is as near the floor as is not worth telling the encoder about.      *)
(* (Governor::report, Governor::decide, steer_share)                       *)
Yields ==
    [][(heard' = {} /\ turns' = turns /\ \E loss \in heard : loss >= TooMuch) =>
          rate' < rate \/ (rate' - Floor) * 20 <= rate']_steerVars

(* Whoever watches and has nothing to show is sent a keyframe, again and   *)
(* again until they have. (report_quality, steer_share)                    *)
KeyframeComes ==
    \A v \in Viewers :
        (watch[v].who = "this" /\ ~watch[v].started) ~>
            (forced \/ watch[v].who # "this" \/ watch[v].started)

============================================================================

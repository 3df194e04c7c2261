------------------------------ MODULE Settings ------------------------------
(***************************************************************************)
(* The settings of crates/boa-client/src/settings.rs: read once when the   *)
(* client starts, put in order, and written whole on every change.  The    *)
(* client may be killed between any two steps; a step may fail; and the    *)
(* file may be edited by hand while the client is not running.             *)
(*                                                                         *)
(* Settings are told by the change they come from, 0 being the defaults.   *)
(* A file holds settings in order, settings with a value out of range, or  *)
(* text that is not settings at all.                                       *)
(***************************************************************************)
EXTENDS Integers, FiniteSets

CONSTANTS
    MaxSaves,   \* bound on changes of the settings
    MaxFaults   \* bound on kills, failures and edits

ASSUME SettingsAssumption == MaxSaves \in Nat /\ MaxFaults \in Nat

VARIABLES
    file,      \* settings.json: a set of at most one content
    tempfile,  \* settings.json.tmp: likewise
    broken,    \* settings.json.broken: likewise
    memory,    \* App.settings, while the client runs: likewise
    saving,    \* what save does next
    changed,   \* changes so far
    faulty,    \* faults so far
    last_saved,\* the last change that was saved (history)
    edited,    \* contents somebody put into the file by hand (history)
    unread,    \* whether a file could not be read when the client started,
    discarded, \*   and what another edit or broken file replaced (history)
    unmoved    \* broken files that could not be moved aside (history)

settingsVars == <<file, tempfile, broken, memory, saving, changed, faulty, last_saved, edited,
                  unread, discarded, unmoved>>

Content(n, kind) == [change |-> n, kind |-> kind]

Defaults == Content(0, "fine")

Fault == faulty < MaxFaults /\ faulty' = faulty + 1

Up == memory # {}

----------------------------------------------------------------------------
(* Starting: Settings::load, then sanitise.                                *)

\* Everything is clamped into range.
Sanitised(content) == [content EXCEPT !.kind = "fine"]

\* A file that is no settings is moved aside; if that fails it stays where it
\* is, and nobody is told.
LoadFile ==
    /\ ~Up
    /\ \/ /\ memory' = IF file = {} THEN {Defaults} ELSE {Sanitised(c) : c \in file}
          /\ \A c \in file : c.kind # "text"
          /\ UNCHANGED <<file, broken, faulty, unread, discarded, unmoved>>
       \/ /\ file # {} /\ Fault
          /\ memory' = {Defaults} /\ unread' = TRUE
          /\ UNCHANGED <<file, broken, discarded, unmoved>>
       \/ /\ \E c \in file : c.kind = "text"
          /\ memory' = {Defaults}
          /\ \/ /\ broken' = file /\ file' = {}
                /\ discarded' = discarded \cup broken
                /\ UNCHANGED <<faulty, unmoved>>
             \/ /\ Fault /\ unmoved' = unmoved \cup file
                /\ UNCHANGED <<file, broken, discarded>>
          /\ UNCHANGED unread
    /\ saving' = "nothing"
    /\ UNCHANGED <<tempfile, changed, last_saved, edited>>

----------------------------------------------------------------------------
(* A change: save_quietly, after the interface changed what it holds.      *)

Change ==
    /\ Up /\ saving = "nothing" /\ changed < MaxSaves
    /\ changed' = changed + 1
    /\ memory' = {Content(changed', "fine")}
    /\ saving' = "write"
    /\ UNCHANGED <<file, tempfile, broken, faulty, last_saved, edited, unread, discarded, unmoved>>

\* Mistake: the settings are written over the file itself.
Straight(half) == file' = half /\ UNCHANGED tempfile

\* The new contents go to a temporary file.
Aside(half) == tempfile' = half /\ UNCHANGED file

\* fs::write, which empties the file and then fills it.
EmptyFile ==
    /\ saving = "write"
    /\ Aside({Content(n.change, "text") : n \in memory})
    /\ saving' = "fill"
    /\ UNCHANGED <<broken, memory, changed, faulty, last_saved, edited, unread, discarded, unmoved>>

FillFile ==
    /\ saving = "fill"
    /\ Aside(memory)
    /\ saving' = "rename"
    /\ UNCHANGED <<broken, memory, changed, faulty, last_saved, edited, unread, discarded, unmoved>>

RenameFile ==
    /\ saving = "rename"
    /\ file' = tempfile /\ tempfile' = {}
    /\ last_saved' = CHOOSE n \in {c.change : c \in memory} : TRUE
    /\ saving' = "nothing"
    /\ UNCHANGED <<broken, memory, changed, faulty, edited, unread, discarded, unmoved>>

\* A step of save fails, and the rest is left out.
SaveFails ==
    /\ saving # "nothing" /\ Fault
    /\ saving' = "nothing"
    /\ UNCHANGED <<file, tempfile, broken, memory, changed, last_saved, edited, unread, discarded, unmoved>>

----------------------------------------------------------------------------

\* The client ends, or is killed.
Quit ==
    /\ Up /\ Fault
    /\ memory' = {} /\ saving' = "nothing"
    /\ UNCHANGED <<file, tempfile, broken, changed, last_saved, edited, unread, discarded, unmoved>>

\* The file is edited by hand.
Edit(kind) ==
    /\ ~Up /\ Fault
    /\ file' = {Content(last_saved, kind)}
    /\ edited' = edited \cup file'
    /\ discarded' = discarded \cup file
    /\ UNCHANGED <<tempfile, broken, memory, saving, changed, last_saved, unread, unmoved>>

SettingsInit ==
    /\ file = {} /\ tempfile = {} /\ broken = {} /\ memory = {} /\ saving = "nothing"
    /\ changed = 0 /\ faulty = 0 /\ last_saved = 0 /\ edited = {} /\ unread = FALSE
    /\ discarded = {} /\ unmoved = {}

SettingsNext ==
    \/ LoadFile \/ Change \/ EmptyFile \/ FillFile \/ RenameFile \/ SaveFails \/ Quit
    \/ \E kind \in {"wild", "text"} : Edit(kind)

----------------------------------------------------------------------------

\* What the client goes by is in range and, until it is changed again, what
\* was last saved, through kills, failed saves and edits: only a file that was
\* made unreadable costs the settings. The text of such a file is never thrown
\* away, but for another, or if it could not be read, or if it could not be
\* moved aside: the next save then replaces it. (load, save: "an interrupted
\* write cannot leave a half-written settings file")
SettingsKept ==
    /\ \A c \in memory : c.kind = "fine"
    /\ \A c \in file : c.kind = "text" => c \in edited
    /\ \A c \in memory :
          c.change >= last_saved \/ unread \/ \E e \in edited : e.kind = "text"
    /\ \A e \in edited : e.kind = "text" =>
          e \in file \cup broken \cup discarded \cup unmoved \/ unread

=============================================================================

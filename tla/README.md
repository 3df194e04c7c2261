# BoaVoice: verification development

BoaVoice is a self-hosted voice, screen-sharing and chat server with a desktop
client, in Rust. This directory holds TLA+ models of its concurrent and
stateful parts, the TLC configurations that check them on small instances, and
theorems about them whose proofs TLAPS checks for every value of the constants.
Paths below are relative to `src/crates/`.

Run from this directory: `tlc -config hub.cfg MCHub` checks a run,
`tlapm SessionProofs.tla` checks proofs. `PROJECT.json` lists the components, the
runs, for each checked property a plausible mistake in the code that breaks it
(the operators commented "Mistake:" in the modules), the source lines of every
definition, the findings, the hazards and the theorems.

## The system

The server is one process. `main.rs` opens the database and the attachment
store and starts an HTTP listener, a UDP relay and a janitor. Everything
shared is in one `Hub` behind one mutex that is never held across an await.

| Component | State | Operations | Hard behaviour | What must be right |
|---|---|---|---|---|
| **Hub** `boa-server/src/hub.rs` | who is in which call, two stream ids per member, a key per occupied channel, shares, subscriptions, bound UDP addresses, live connections | join, leave, flags, start/stop share, watch/unwatch, route, bind, connect/disconnect, broadcasts | the id counter wraps; a departure must undo everything in three maps | ids lead to their holder; everybody in a call has its key, nobody else does; subscriptions stay within a call |
| **Relay** `boa-server/src/relay.rs` | the registration being verified | one datagram at a time: route, verify, bind | late and repeated datagrams; the hub changes between route and bind | media goes only to its audience, to an address of theirs, and opens there |
| **Sessions** `boa-server/src/session.rs` | one task per control connection | identify, Ready snapshot, one handler per request, teardown | a handler takes the mutex several times; several devices per account; teardown races reconnection | clients that apply frames blindly agree with the hub; nobody stays in a call without a connection |
| **Client mirror** `boa-client/src/state.rs` | accounts, presence, calls, messages | `apply` per frame, `reset` | frames about unknown accounts; snapshot against live frames | as for sessions |
| **Attachments** `boa-server/src/blobs.rs`, parts of `http.rs`, `db.rs` | files named by content hash, rows for ever, marked when the bytes are gone | upload, download, janitor's sweep | awaits between file and row; crashes; shared files | bytes stay three days, whole; then go |
| **Database** `boa-server/src/db.rs` | accounts, tokens, channels, messages | one mutex, one statement or transaction at a time | resends with a nonce; edits against deletes | a message is posted once, seen by all |
| **HTTP** `boa-server/src/http.rs`, `auth.rs` | none of its own | register, log in, upload, download | awaits between a check and its use | the first account, starter channels |
| **Client network task** `boa-client/src/net/mod.rs` | link, target, attempt, generation, retry time | commands, reports of ended connections, a timer | replaced connections go on talking; uploads hold connections open | one live connection, reconnects for ever, truthful status |
| **Client calls** `boa-client/src/ui/mod.rs` | call wanted, voice session, share, watcher, saved mute flags | user actions, frames, watchdogs | rejoin after reconnect or silence, against the user's own actions | what the user wants and what the server has converge |
| **Audio pipeline** `boa-client/src/audio/` | lock-free rings, jitter buffers, mixer slots | real-time callbacks and worker threads | two threads without locks; loss, reordering, pauses | samples in order, none twice |
| **Screen share** `boa-client/src/screen/` | packet numbering, bitrate, reassembly | send, pace, report, reassemble | loss, reordering, feedback | a picture is shown whole or not at all |
| **Transfers** `boa-client/src/transfer/` | offers, cancel flags | offer, accept, decline, cancel | two clients and a library between them | an offer ends once |
| **Settings, cache** `boa-client/src/settings.rs`, `cache.rs` | a JSON file, cached attachments | load, save, sanitise; store, find, prune | crashes while writing; two writers | what was saved is read again; what is stored is whole |
| **UI, themes, platform glue** `boa-client/src/ui/` | what is drawn | | textures and workers that outlive what they show | what is drawn under a name is theirs; no picture loads for ever while there is a thread to decode it |

The parts interact so: a client's network task holds one WebSocket to a session
task; the session calls the hub and the database; the hub puts frames in every
connection's unbounded queue, whose writer task sends them in order; the
client applies them to its mirror. Media goes beside this over UDP: the client
seals packets under the call's key, the relay forwards them by stream id to
the addresses bound by registrations. Attachments go over HTTP, and messages
carry only their description.

## Modules

`MCx.tla` extends `x.tla` with what TLC needs (functions over model values,
symmetry sets); `xProofs.tla` holds the theorems about `x` or `MCx`
(`SessionProofs.tla` those about `Hub` too). `MCServer`,
`MCVoice`, `MCShare` and `MCServices` extend several modules that share no state: a
variable `part` says which one runs in a behaviour while the others rest in an
initial state, so that one run asks the questions of all of them without
multiplying their states. The parts do not interact within such a run; where
components do interact, one module holds both sides (`Session` and the hub,
`Call` and its server, `Steer` and viewers, server and sharer, `Chat` and
clients and table). A conjunction such as `ShareSound` or `HeldAndShown` is only the
name under which a run checks the named parts of several modules.

All exceptions that the properties make (`raced`, `late`, `untold`, `torn`, ...)
are history variables that name the circumstance, and each is explained under
"Disagreements": without it TLC finds the behaviour described there.

### Hub (`Hub.tla`, `MCHub.tla`; proofs in `SessionProofs.tla`)

One variable per field of `hub.rs`'s `State`: `members`, `bySsrc`, `keys`,
`nextSsrc`. A method that holds the mutex for its whole length is one action:
`JoinVoice`, `LeaveVoice`, `SetVoiceFlags`, `StartScreen`, `StopScreen`,
`Watch`, `Unwatch`. `take_ssrc` searches from a counter that wraps; the model
states its result (`Takes`: the first free id in counting order) in place of
its loop, with the size of the id space a constant. The relay's handling of a
registration is two actions, `RelayRoute` and `RelayBind`, because the lock is
released between them. `handed` is a history variable: every credential issued
to an account, from which come all packets that can be on the network, in any
order and number.

Left out: statistics, the share's encoder settings (never read on the server),
the texts of errors. Packets sealed under keys nobody was given are dropped by
`verify_registration` or do not open, and are not enumerated.

| Run | Instance | Shows |
|---|---|---|
| `hub` | 3 accounts, one address each, 2 channels, 3 joins, 9 ids, relay | keys, subscriptions and forwarding stay within a call, for every order of joins, switches, departures and datagrams; media goes to its listeners' own addresses and opens there |

Three joins are enough for a switch of channels beside another member, and for
a departure and return; three accounts are needed for "some others stay".
The counter wraps in `session_live`, whose id space has room for exactly the ids in
use, which makes every wrap and skip happen.
`ForwardedOpens` and `MediaAddrIsOwn` need ids not to be reused while an old
packet is about, which `SsrcSpace` 9 gives for three joins and 2^32 gives for 2^31;
they are proved for `SsrcSpace > 2 * MaxJoins`, the others at any size.

### Session (`Session.tla`, `MCSession.tla`, `MCServer.tla`, `SessionProofs.tla`)

Extends Hub. A connection `c` has `at[c]` (unopened, open, closing, closed) and
`todo[c]`, the hub calls its handler has still to make; each is a step, so
handlers of different connections interleave exactly where the code releases
the mutex. `Ask...` actions are the arms of `handle`; `ReadUsers`,
`ReadOnline`, `ReadVoice`, `SendReady` are `send_ready`; `HangUp`,
`Disconnect`, `CheckVoice`, `DoStopScreen`, `DoLeaveVoice`, `Close` are `run`
after its loop. The queue of a connection is ordered and lossless while it
lasts and nothing on the server depends on when the client reads it, so a
frame is applied to `mirror[c]` (`Applied` is `State::apply`) as it is produced.
`missed[c]` records the accounts whose frames slipped in ahead of `c`'s Ready.

| Run | Instance | Shows |
|---|---|---|
| `server` (its calls) | 2 accounts, 3 connections (one account hangs up and returns, the other registers late), 2 channels, 2 joins, 3 requests | clients agree with the hub on who is online, on calls, flags and shares (`ClientsAgree`), hold their own membership's credentials, and nobody is left in a call without a connection |
| `session_live` | 2 accounts, 1 channel, 3 joins with ids for exactly the 4 in use, 4 requests, fairness | a departed account disappears from the others' calls; the hub's inductive invariant holds while the id counter wraps and skips |
| `session_ready_race` | violation | a frame overtaken by the Ready snapshot is lost |

A mirror and the hub are compared when no handler is half way. The constant
`Overlapping` says whether an account may open a connection before its last one
is torn down: with it the presence of an account can be wrong (see
"Disagreements"), so the runs are without it. `NobodyLeftBehind` holds with
overlapping connections too: that is the theorem `SessionNobodyLeftBehind`, which
makes no assumption on the constant.
Three requests are a join, a share or a switch, and a departure.

`FairSessionSpec` has weak fairness of `Proceed(c)`, each task's next hub
call: the tokio runtime keeps polling runnable tasks and the hub's mutex is
held only briefly. Nobody is obliged to connect, to ask or to hang up.

Left out here: chat, typing, screen reports and file offers, which do not touch
this state and are in `Chat`, `Indicators`, `Steer` and `Transfer`; the identify
handshake, which ends before the connection is registered and is in `Accounts`;
error replies, which change nothing; failing database reads.

### Blobs (`Blobs.tla`, `MCBlobs.tla`, `BlobsProofs.tla`)

`blob[s]` and `part[s]` are the file named by hash `s` and its temporary
`.part`, each absent, partial or whole; `rows` are the attachment rows; `job[i]`
is an upload's handler, one step per await (`Begin`, `Probe`, `Create`,
`Write`, `Rename`, `Insert`, or `Abandon` when the client hangs up). `fd` says
what an open file is called by now, since writing goes on to the same inode
after somebody renamed it. The janitor's `pass` goes through `Ask`,
`RemoveExpired`, `MarkDeleted`, `List`, `AskOrphans`, `RemoveOrphan`, `Sleep`.
The client's side is `Want`, `Lookup`, `Fetch`. `Crash` keeps files and rows
and drops everything in flight.

| Run | Instance | Shows |
|---|---|---|
| `blobs` | 1 content, 2 uploads, a client shown one of them, 2 ticks, 1 crash, 1 failing delete or insert, fairness | bytes of live attachments stay and are whole; "gone" is said only of what is over; files no row needs go in the end and broken rows are mended (`JanitorCatchesUp`) |
| `blobs_upload_race` | violation | an upload that overlaps a pass loses its bytes |

The passing properties except uploads that overlapped a pass (`exposed`) and
contents that two uploads stored at once (`raced`); `blobs_upload_race` shows
that the first exception is needed, "Disagreements" says why the second is. A
lifetime of one tick in two ticks lets a row expire while a newer one of the
same content lives. `FairSpec` has weak fairness of the janitor (its loop never
ends), of time, and of the steps of uploads other than starting one.

Abstractions: `fs::write` is creating or emptying the file and then one write;
listing the directory is one step; of database errors only a failing insert
(`Abandon`) is modelled; a hash is its content.

### Ring (`Queue.tla`, `Ring.tla`; proofs in `VoiceProofs.tla`)

`Queue` is what the audio threads want: samples enter and leave in order, a
bounded number between them. `Ring` is the code: two indices and cells, the
loop of `push` and of `pop` one sample per step, `clear` and `len`. The threads
do not see each other's stores at once. A relaxed store of a sample waits in
`pending` and becomes visible at any time; a release store of an index waits in
`writes` or `reads` until everything its thread stored before it is visible
(`Ordered`); what an acquire load sees is what is visible when it is made. So the
model has the executions of the code's `Relaxed`, `Release` and `Acquire`, not
only interleavings, and with the release order dropped (`Relaxed`) the ring
delivers samples that were never stored. The counters beside the indices are not
in the code; they say how many samples an index stands for.

Checked in the run `voice` with 4 cells and 9 samples: `Queueing` (the ring
implements the queue) and `FramesWhole` (a pop of no more than `len()` said is
never short).

Nine samples go round four cells twice, with every split into pushes, pops and
clears. One producer and one consumer, as `ring.rs` asks of its callers.

### Net (`Net.tla`, `MCNet.tla`, `NetProofs.tla`)

The loop of `net/mod.rs` takes a command (`Connect`, `Disconnect`,
`StartUpload`), a report of an ended connection (`IgnoreReport`,
`TakeRejection`, `TakeDrop`) or the retry moment (`Retry`); its variables are
`target`, `attempt`, `retry`, `link`, `generation`. Every connection is a task
of its own, `conn[g]` for generation `g`: `Dialed`, `Greeted`, `Shown`, and then
`Drop`, `Refused` or, when nobody holds a sender of its queue any more, `Stop`.
`uploads[g]` counts the uploads that hold one. `status` and `mirror` are what the
interface shows after draining its events; `late` records that a replaced
connection spoke last.

| Run | Instance | Shows |
|---|---|---|
| `net` | 3 commands, 2 failures, 1 upload, fairness | never stranded, never a retry over a live link, truthful status, connects in the end, replaced connections end |

Three commands are connect, disconnect and connect again while the first
connection's report is on its way; two failures make a retry fail. `FairSpec` has
weak fairness of the loop's branches (the loop never ends), of dialing, which
succeeds or fails, of a server's Ready, of an abandoned connection's end, and of
uploads, which have a time limit. Nobody has to command, to fail or to refuse.

Left out: probing, registering and logging in, which are in `Accounts`; the
content of frames; the delay of a retry, which only says how late it is.

### Call (`Call.tla`, `CallProofs.tla`, `MCCall.tla`)

The life of a call, as one client and its server see it. The client keeps what
the user wants (`inCall`, `mic`, `pending`, `picking`), what runs (`voice`,
`since`, `share`) and its mirror of its own membership; the server keeps
`member`. Between them are numbered connections, each with a FIFO of requests
and a common inbox of frames and status events. The user's actions are the arms
of `App::apply` (`JoinVoice`, `LeaveVoice`, `ToggleMute`, `ToggleDeafen`,
`ShareSource`, `StopScreen`, `LogOut`, `LogIn`, ...); `Read...`, `StartVoice...` and
`BeginCapture...` are `pump_network` and `handle_server` with what they call, each
of `start_voice` and `begin_capture` succeeding or failing in each of its ways;
`HealVoice` is the watchdog; `Drop`, `Redial`, `Accept`, `EndStale` are the
connection's; `Serve` is the server's handler.

| Run | Instance | Shows |
|---|---|---|
| `call` | 2 channels, 3 acts of the user, 1 lost connection or silence, the microphone muted at first, fairness | no microphone without a call that is wanted, and once everything is answered the client wants, hears and holds one call (`CallSound`); the microphone and the share the others see are as they are (`ShownAgrees`); a call that is wanted is heard again in the end (`Rejoins`) |

Three acts are a join, a switch or a share, and one more on top of it; a fault
falls at every point between them. `FairSpec` has weak fairness of reading an
event (the interface drains them in every frame), of dialing (the network task
retries for ever), and of the server's accepting, serving and noticing an end.
Nobody has to act, and a device that does not open ends the promise.

`untold` names what the client gave up without the server's hearing of it; the
properties except those cases, each of which is listed under "Disagreements".

### Hearing and speaking (`Voice.tla`, `VoiceProofs.tla`, `Talk.tla`, `Line.tla`, `Output.tla`, `View.tla`, `Indicators.tla`, `MCVoice.tla`)

*Voice* is the hearing half of `audio/pipeline.rs`: the receive thread (`rx`),
the playback callback (`cb`) and the interface (`ui`) share an array of speaker
slots and a table of owners without a common lock. An action is what one thread
does between two points where another may get in; in `rx`, finding a slot and
publishing it are apart; in `cb`, the load of a ring's indices and the store of
its read index. *Talk* is the sending thread: frames of the microphone, the
gate with its hang time, and packets of two frames. *Line* is what a session
holds - devices, threads, stop flags - as sessions replace each other and steps
of starting fail. *Output* is the conversion of the mix to a device's rate, in
whole parts of a frame. *View* is whose picture is drawn under whose name, in
the window and the popped-out window. *Indicators* is how long somebody is shown
as typing or speaking.

| Run | Instance | Shows |
|---|---|---|
| `voice` | Voice: 1 person with a voice whose numbers wrap and a share's sound, 1 slot, lost, repeated, overtaken and undecodable packets. Talk: 6 frames of 3 loudnesses, 2 changes of 5 switches and a hang time, 1 encoder failure. Ring: see above. Line: 3 sessions, 2 failures. Output: 8 callbacks of 3 sizes at 4 rates. View: 2 people, 3 decoders. Indicators: the code's intervals in seconds, 1 second of delay | `OwnSlots`: a stream has one slot, nobody is heard in another's, each is heard as its owner, and who left makes room. `InOrder`, `OnlyPastDropped`: order through loss, concealment and the wrap. `Microphone`: the gate opens as meant, what was muted is kept back, speech goes out. `HeldAndShown`: one session's devices at a time (`OneLine`), a device is never short of a frame and none is played twice (`NeverShort`), what is drawn under a name is theirs (`NamedRightly`), nobody is shown as typing or speaking for long after they did (`ShownInTime`) |

One slot is what makes a slot pass from stream to stream in every run of the
small instance; two streams of one person are a voice and the sound of a share,
which begins again. What a sample sounds like, the codec, noise suppression
and the gain are numeric and left out; a sample is its packet's number.
These parts state no fairness: all their properties are safety.

### A share (`Pictures.tla`, `Steer.tla`, `Annexb.tla`, `Packer.tla`, `Pacer.tla`, `Capture.tla`, `Engine.tla`, `Native.tla`, `MCShare.tla`, `ShareProofs.tla`)

From one screen to another: *Capture* (the system's frames, the heartbeat, the
encoder's callback, the sender's queue on macOS), *Native* (pictures and sound
as the system hands them over), *Annexb* and *Packer* (ffmpeg's byte streams cut
into pictures and packets of samples), *Pictures* (fragments on the network,
`Tap`, `Reassembler`, the decoder's queue and thread), *Pacer* (when datagrams
leave), *Steer* (viewers' reports, the server's forwarding, the governor, the
encoder's rate and keyframes), *Engine* (starting and ending a share, with its
threads, child processes and capture, each step of which may fail).

| Run | Instance | Shows |
|---|---|---|
| `share` | Pictures: 3 of 1 or 2 fragments, lost, repeated, reordered, timestamps wrapping. Steer: 2 viewers, 3 bitrates (one below the governor's floor, one just above), 3 turns. Annexb: 6 pieces of 5 kinds, cut anywhere. Packer: 35 bytes in reads of up to 9. Pacer: 4 datagrams, idle times, late sleeps, 2 rates. Capture: 3 frames, 1 rejected, 1 request, 1 stall. Engine: 2 shares. Native: pictures of up to 3 units, 3 buffers of sound | `ShareSound`: the same pictures (`SamePictures`) and samples (`NoSplice`) come out however a pipe cuts its bytes, units and channels are handed over whole (`HandedOver`), no burst goes out (`NoBurst`), a picture is put together from its own pieces and each one given up is counted (`Accounted`), the encoder runs at what the governor settled on (`RateFollows`), and nothing of a share that is over runs on (`NothingRunsOn`). `OldestGivenUp`: pictures are given up oldest first, and only for as many later ones as may be in flight. `Yields`: the sender gives way to whoever fares worst. `KeyframeComes`: who watches and has nothing is sent a keyframe. `Recovers`: what a screen at rest shows is sent last, and keyframes keep coming. `DropEnds`: ending a share ends |

The start codes' ends, a split inside a sample, two pictures in one timestamp
and a wrap all happen within these sizes. Fairness: *Steer* needs that the
interface draws (it reports and decides once a second from there), that the
server serves and that the encoder makes a keyframe it was told to make -
which is the native engine's way; with ffmpeg `want_keyframe` does nothing and
keyframes come by the clock. *Capture* needs that its threads run and that time
goes on; `Tick` overtakes a thread that has something to do `MaxStalls` times
only, because a half second is long. The screen need not change. *Engine* needs
that threads run; a child process need not ever write.

### What a server offers besides calls (`Chat.tla`, `MCServer.tla`, `ChatProofs.tla`; `Accounts.tla`, `Transfer.tla`, `Images.tla`, `Settings.tla`, `MCServices.tla`, `ServicesProofs.tla`)

*Chat*: one channel's table, the sessions' handlers, each of which changes or
reads the table under the database's lock and speaks after letting go of it
(`handling`), and each client's log, pages and unconfirmed messages. *Accounts*:
requests in progress at two servers, one of them open to everybody, which let go of
the database between checking and writing, and one client's connect screen, saved
token and identify handshake. *Transfer*: jobs, offers, rows, flags and the
folder of two clients. *Images*: one picture that two attachments carry, from
the request to the texture, through the disk store. *Settings*: the settings
file with its temporary and its broken copy. What an error of the disk or the
database does is an alternative of the step that meets it.

| Run | Instance | Shows |
|---|---|---|
| `server` (its messages) | 2 old messages, pages of 1, two devices of one account, 3 of: send (2), resend, edit, delete, lost connection, log-out, database failure | `MessagesAgree`: a message is in the table once and the logs have what the table has. `PageOwed`: a log that waits for a page is owed one |
| `services` | Accounts: 2 servers, 2 requests at once, 2 passwords, 2 tokens, 1 trouble (a changed address, a crash, a database or a hashing that fails, a starter channel that cannot be made, a restart, a lost connection). Transfer: 2 clients, 2 jobs each, files of one name, 1 lost connection, 1 cancellation. Images: 3 downloads, 1 kill, with and without a worker; any read of the store, and any step of storing, may fail. Settings: 3 changes, 4 kills, failures or edits | `TokenOfItsServer`, `FirstSeeds`, `BusyMeansWaiting`: a token goes to the server it came from; whoever has an account finds those starter channels that could be made; the connect screen is busy only while something will answer. `TransfersShown`: rows are the transfers that go on (`RowsFollowJobs`), saved files stay (`FilesKept`). `Stored`: no picture loads for ever if there is a worker, and none that can be decoded and read is shown as broken (`PicturesAppear`); settings survive kills, failures and edits (`SettingsKept`); what a failed read and a failed rename cost is named (`misread`, `unmoved`) |
| `transfer_cancel` | violation | giving up a transfer does not stop it |

A page of one message makes a log of two pages; three things in one channel
are enough for an edit or a deletion of what another session just sent while
its answer is under way. Two of the three may be new messages: the handlers that
insert them can speak in the other order, and a reader who was away then may hear
only of the older. A log that begins with it is not whole from there on, so its
`floor` moves only when the message was the newest as it was told (`newest`, which
the server does not send; the frame carries it for the property alone). Nothing is assumed fair: nothing here is promised
when a connection is gone, and the properties say what is left behind.

## Disagreements

Where the code and what it says of itself part. The first three are the
violation runs, listed under `findings`; the others were met while modelling.

* `session_ready_race`, `blobs_upload_race`, `transfer_cancel`: see the tables.
* The teardown of an old connection announces its account as offline even if a
  new connection of it has come in between (`session.rs:154`), though a
  connection is counted so that "a user with two devices" stays online
  (`hub.rs:32-34`). Clients show who is back as away until they come again.
* A registration is routed and bound with the lock released in between
  (`relay.rs:91-98`). If the account leaves and joins in between, the new stream
  is bound to the address that registered the old one, and the relay says "a
  stream is bound to the address that registered it" (`relay.rs:13-14`).
  `MediaAddrIsOwn` is the weaker promise that holds: it is an address of the
  same account.
* `Hub::watch` does not ask whether there is a share (`hub.rs:320-332`), so a
  subscription made before a share starts is in force when it does, while
  `stop_screen` clears subscriptions so that nobody is "already watching" the
  next share (`hub.rs:302-305`) and the test at `hub.rs:766` says that a viewer
  has to opt in again.
* A Presence frame of an account the client has not heard of is dropped
  (`state.rs:254-258`). Nothing else introduces an account that registered after
  Ready, until it changes its display name: it is never shown. `PresenceAgrees`
  speaks of known accounts.
* Two uploads of one content write the same `.part` file (`blobs.rs:78-81`). The
  second empties what the first is about to rename, so that a partial file
  stands under the final name until the second is done, and for ever if the
  server dies; `blobs.rs:74-77` says that the temporary name prevents this.
* `orphaned_blobs` offers hashes with no row "left at all" (`db.rs:563`) and
  `expired_blobs` only hashes with an unmarked row. A content uploaded again
  after its rows were marked deleted, whose insert fails, leaves a file that
  neither offers. `Reclaimed` excepts it.
* A download that fails for another reason than expiry (`net/mod.rs:592`) does
  not clear the client's record of having asked: the picture is `Loading` for the
  rest of the session.
* `draw_attachment` says "once per attachment per session" (`ui/chat.rs:185`), but
  the answer that an attachment is gone clears the record (`ui/mod.rs:408`), and
  the next frame drawn asks again.
* `attempt` is "how many times in a row it has failed" (`net/mod.rs:204`), but a
  connection that succeeds does not reset it, so who is dropped once a day waits
  half a minute from the fourth day on.
* A connection that is replaced while it dials, or while an upload holds its
  sender, goes on to report Connected and its Ready after the loop has reported
  Offline, and Ready sets the view (`ui/mod.rs:478-486`): who has just logged out
  is shown the server again until the connection ends. `StatusTruthful` excepts
  it (`late`).
* A database error while a token is looked up is sent as fatal
  (`session.rs:242-246`), and a client that is refused forgets its token
  (`ui/mod.rs:352-357`), as if it were not valid.
* `Ring::new` promises "at least `wanted` samples" (`ring.rs:37`) and holds one
  less when `wanted` is a power of two. `push` says that the newest audio is
  what matters (`ring.rs:69-70`), and drops the newest.

Calls (`ui/mod.rs`):

* Logging out keeps the call, its microphone and the share (1140-1148; what a
  departure does is at 529-538).
* Deafening saves the mute it is meant to restore, so un-deafening never
  restores an open microphone (1314-1320).
* A mute toggled between the press of "join" and its echo is not sent (1084,
  1298-1302): the others see the old setting.
* Switching channels keeps the local capture (1272-1282), which goes on sending
  into a call where nobody is told of a share. So does a departure, and a session
  that does not start (529-538, 643-656): after a log-out, which clears the roster
  but not the capture, such a start leaves a capture without a call (`Orphaned`).
* In a switch the own `VoiceLeave` clears `in_call`, so that a connection lost
  before `VoiceReady` loses the call (529-538, 207-214).
* `LeaveVoice` without a connection is dropped, and the membership stays until the
  server notices the end.
* `start_voice` returns early without leaving (615-635) where the code for
  failing devices says that staying in the roster is worse (643-656);
  `begin_capture` returns on a transport error without `StopScreen` (676-682).
* A `voice_since` left behind lets `heal_voice` rejoin before the answer to a join.

Audio (`audio/pipeline.rs`, `screen/`):

* A second share of one membership has the same stream id (`hub.rs:283-300`) and
  its packets are numbered from the start (`screen/audio.rs`, `send.rs:753`),
  though a sequence is "never reset within a session" (`media.rs:169-170`).
  Receivers' decoders keep their expectation, and drop its sound as late
  until the numbers catch up (`OnlyPastDropped` excepts it).
* "Exactly one thread ever writes an ssrc" is said of a slot's stream id, but
  `drop_speaker`, on the interface's thread, writes it too; `Ring::clear` is
  "consumer side" (`ring.rs:103`) and called from the receive thread and the
  interface. If it comes between the callback's load and store, a slot's next
  speaker is heard with the last one's samples (`crossed`).
* A packet that claims a slot while its owner is being announced may stay
  unattributed (`raced`); chosen volumes are not applied to slots claimed later;
  a slot claimed by a packet that comes after the departure is not freed
  (`late`), nor is that of a share's sound when the sharer switches channels.
* The frame in which the microphone is switched on shares a packet with the one
  before it, which holds what was muted; a spurt of one frame without hang time,
  in the first half of a packet, is not sent.
* `VoiceSession::start` leaves its sending thread running if the second clone of
  the transport fails; a receive thread that ends by an error leaves `media_ok`
  set, so that the watchdog does not act.

Who is shown (`state.rs`, `ui/mod.rs`):

* `SPEAKING_TTL` is "a safety net, not the mechanism" (`state.rs:32`), but only
  changes are announced (1065-1070): who speaks for more than two seconds without
  a pause goes dark.
* A typing notice that arrives a moment early is dropped by the server
  (`session.rs:46-51`), and the next is three seconds later, after the indicator
  has run out. The client counts its notices for all channels together.
* A sharer who switches calls or rejoins is announced by `VoiceLeave` alone, and a
  viewer keeps "a frozen last frame with no indication", which 571-572 means to
  prevent (`silently`).

Shares (`screen/`, `ui/mod.rs`):

* The decoder's thread is handed the counter of drops where it asks for failures
  (`recv.rs:240-250`, 213-217), and a refusal between the tap's two reads of it is
  counted as incomplete (176-187; `raced`). A lost keyframe is charged to the kind
  of the current packet (180-187).
* Two pictures in one millisecond with equally many fragments share a place in
  the reassembler and are mixed (`recv.rs:383`). A fragment repeated after its
  picture was finished starts a ghost that counts as lost later. Pictures of one
  fragment may be handed on out of order, which 52-53 excludes.
* Turning from one share to another keeps the first one's subscription and its
  last report's numbers (926-947, 1389-1402). The loss that is logged after a
  decision is always zero (975-982). Any changed setting restarts the governor at
  the ceiling (1436-1443). Bitrates below 400 are under its floor
  (`settings.rs:260`; `RateFollows` excepts them).
* A thread that cannot be spawned leaves the ffmpeg child or the native stream
  it was for (`unspawned` in Engine).
* A keyframe asked for on a still screen waits for the next heartbeat that is
  due by the clock (`capture.rs`; "Ask for a keyframe now", `send.rs:495`), and is
  lost if the encoder rejects that frame or the queue is full.
* Pictures dropped for want of room in `on_encoded` break those that build on
  them. A keyframe whose parameter sets cannot be read goes out without, though
  `Picture` says "with its parameter sets in front" (`encode.rs`).

Chat (`state.rs`, `db.rs`, `session.rs`):

* What was missed while a connection was down never "comes back from history": the
  channel counts as visited and is not asked for again (`stale`); `loading` stays
  set if the answer was lost or the database failed (`lost`).
* An edit of a message the log has not loaded puts it there, and the next page is
  asked for before it: the hole between is never filled (`torn`).
* Ids "are monotonic", but a table without AUTOINCREMENT uses the last id again
  after a deletion; a late `MessageDelete` then removes the new message. A page
  read before a deletion and sent after it brings the message back; two edits
  may be told in the other order than they were made (`raced`).
* The answer to a message sent again carries no nonce (`db.rs:296-303`), so that
  its unconfirmed row stays, as it does after an error.

Accounts (`ui/mod.rs`, `http.rs`):

* The address can be changed while a log-in is out, and the token is then saved
  for, and sent to, that other address (383-394; `strayed`).
* Two first accounts requested at once on a closed server are both accepted and
  both seed channels.
* A starter channel that cannot be made is only logged (206-210): the account and
  its token are made all the same, and the first user finds a server without that
  channel (`unseeded`), although the two are there so that nobody finds "an empty
  sidebar" (203-204). A token that cannot be written refuses the registration
  after the account was made: asked again, the name is taken.
* Started with a saved token and a server that does not answer, the connect
  screen stays busy with no way out (367).

Transfers, pictures, settings:

* Declining "stops their wormhole waiting" (`ui/mod.rs:1495`) only in the comment: the
  sender's client edits its own incoming offers. An offer to who is offline, or
  lost with a reconnect, keeps its sender waiting; a sender who fails or gives
  up does not withdraw it.
* Two files of one name received at once take the same place (`clashed`).
* Two attachments of one picture stored at once share one `.part`
  (`cache.rs`: "an interrupted write cannot leave a truncated file"; `overlapped`).
  A picture drawn between being stored and being announced is decoded twice.
* A picture whose file is there but cannot be read is shown as one that cannot be
  decoded (`images.rs:114-116`), and nothing tries again, since nothing that is
  in the store is fetched (`misread`). Without a thread for the worker, which is
  only logged (63-73), what is drawn is `Loading` for ever: the bytes go to a
  channel nobody reads, and the error of sending is dropped (112; `worker`).
* A settings file that cannot be read is replaced by the defaults at the next
  save; a second broken file overwrites the first one's copy (`discarded`). One
  that cannot be parsed is "moved aside" (`settings.rs:156`), but the result of the
  rename is dropped (174): if it fails the file stays, the client goes by the
  defaults, and the next save replaces the text that was to be kept (`unmoved`).

## What is proved

For all accounts, channels, addresses and bounds, from the named assumptions
`HubAssumption` (finitely many accounts and room for two ids each),
`SessionAssumption`, `BlobsAssumption`, `RingAssumption` (at least two cells),
`NetAssumption` (bounds are numbers), `VoiceAssumption` (no stream sends half as many packets in a call as there are numbers, streams have owners,
`NoStream` is none), `AccountsAssumption` (the sets lie within one another, bounds are
numbers, `None` is no server), `OutputAssumption` (rates and buffers are not zero, one
buffer asked is the largest), `ViewAssumption` (the user is one of the people),
`IndicatorsAssumption` (a notice is shown until the person's next can have arrived,
which is why state.rs gives `TYPING_TTL` its length), `ChatAssumption` (finitely many clients,
a page has room for a message, the first messages have numbers), `TransferAssumption` and `CallAssumption` (bounds are numbers, `None` and
`Nobody` are no channel, no number and no entry of a roster), `TalkAssumption`,
`PacerAssumption` (there is a longest late sleep), `SteerAssumption`,
`PicturesAssumption` (pictures and queues are not empty; a share sends fewer
pictures than half the range of timestamps) and `EngineAssumption` (bounds are numbers).

* **Hub.** `HubInv` is inductive (`HubInvariant`): the index is exact, everybody
  in a call holds its key, keys exist exactly for occupied channels,
  subscriptions stay within calls, keys issued are below the counter. The last
  one is what makes the keys of new calls new: `NextCallNewKey` is an action
  property and follows from `HubInv` before the step. `KeysExact` is needed
  because a key that outlived its call would be handed to the next. That
  `take_ssrc` finds two ids (`TwoFreeSsrcs`, `TakesTwo`) is a counting argument
  with the library's facts on finite sets; it is what makes a join always
  possible and `HubTypeCorrect` more than a formality. `JoinsUnwatched` uses that
  subscriptions refer to people in the same call, all of which a departure clears.
  `HubForwardedOpens` and `HubMediaAddrIsOwn` assume fewer joins than half the ids.
  Then ids are given out in order, two per join (`IdsInOrder`), none twice, so a
  packet names one credential for ever, however late it comes (`OneCredential`), and
  what the relay read before it bound an address is still of that account (`RelayOwn`);
  with `HubInv` these are inductive (`NetworkInv`).
* **Session.** `SessionImplementsHub`: every step of any connection's handler
  is a step of the hub or leaves it alone, so everything proved of the hub
  holds under any interleaving of handlers (`SessionHubInvariant`).
  `SessionNobodyLeftBehind` needs `TeardownInv`: while an account is in a call,
  an own connection is open or has a teardown step ahead that will look again,
  and a teardown that has passed its check had another connection to rely on.
  `SessionClientsAgree` and `SessionCredentialsCurrent` are proved for
  `~Overlapping`, with which the run is made too: with overlapping connections
  presence is wrong in the code itself. A run looks at quiet accounts; the
  invariant (`AgreeInv`) says what is owed at every other moment. A client shows a
  set `E` of at most one public state of an account, the hub has `T`, and the calls
  its handler has still to make are one of a few lists, each of which says how
  `E` and `T` may differ: a join may show anything until its VoiceState, a share
  differs in `sharing` alone, a leave in everything but the channel (`OpenDue`,
  `ClosingDue`). The difference between `E` and `T` is thus a function of that list,
  the same for every client, for a snapshot and for a mirror (`Due`), and each frame
  turns what is owed before it into what is owed by the rest (`FrameStep`); the
  hub's steps leave to do what they make owed (`WorkStep`, `RequestDue`).
* **Blobs.** `BlobsInv` strengthens the three promises with what uploads and
  passes have decided so far: one writer per content that is not raced, whose
  file is its own until renamed; an upload no pass overlaps finds its file when
  it inserts its row; what a pass is going to remove has no live row except
  those of overlapping uploads. One lemma per action.
* **Ring.** `RingInv` is inductive (`RingSafe`): every index stands for a number
  of samples, these are in order and at most the capacity apart, and every
  sample between them is in its cell, or on its way there if the consumer cannot
  read it yet. From it `RingImplementsQueue`, the refinement of `Queue`, and
  `FramesAreWhole`. The reason a cell has at most one store under way is that a
  producer reuses a cell only when it has seen a read index past it.
* **Net.** `NetInv` with `StatusTruthful` is inductive (`NetSafe`,
  `StatusIsTruthful`). Its core is `EndsReported`: the link is the newest
  connection, and when it is over its report is among those on the way; so a
  report that bears the link's generation is believed rightly (`LinksAreKept`).
  `Counted` charges every connection to a command or a failure, which keeps
  generations within the bounds.
* **Voice.** `SlotsInv` is inductive (`VoiceInvariant`) and implies the run's
  `OwnSlots` (`VoiceOwnSlots`). `OwnSlots` alone is not: it speaks of slots
  between steps, and each of the three threads is amid one most of the time. So
  `OneSlot` and `OwnSamples` also say that the slot being claimed is nobody's and
  empty until it is published, and that a decoded packet's slot has at worst
  been freed, never passed on; `SlotIndices` that what the callback loaded is still
  so unless the slot was cleared since (`crossed`); `Owned` that the name a
  claim has looked up, and the slots an attribution has marked, are right unless
  the two met (`raced`). One lemma per step of a thread; that the first free slot
  is free is the library's fact on least elements. `VoiceInOrder` and
  `VoiceOnlyPastDropped` add `OrderInv`: the number a stream expects is the
  remainder of one that no packet made of it has reached, the last sample of a slot
  still in use is what its decoder last pushed, and decoder, slot and play-out agree
  on how far that is. While a call's numbers of a stream stay within half the
  modulus, the signed difference of two remainders is the difference of the numbers
  (`DistanceIsDifference`): the wrap does no harm. The proof found that an earlier
  form of `InOrder` is false where a stream's packets can be delayed past a share's
  end: a packet of the share before, which the new decoder refuses, leaves a gap that is
  concealed by nothing (`Undecodable`).
  `VoiceHeldAndShown`, of the run's own `MCSpec`, has an invariant for each part.
  `LineInv` says which threads and streams a session has at every step of a start, a
  stop and a start that fails. `OutputInv` keeps the resampler's place exact
  (`position = made * MixRate - taken * rate`), from which rounding up twice leaves
  no buffer short and no more over than the slack makes (`Converted`). `ViewInv` says
  of the texture, between frames too, that it is of whom the view names and that what
  waits is newer; a watched share that ended unseen is one nobody announced the end of.
  `IndicatorsInv` bounds how long ago a person typed by the age of their notices,
  and says that a notice on the way is the first since a pause or follows another in time.
  `VoiceMicrophone` needs `TalkInv`: what the gate still has to run is the hang time
  set with the last active frame, less the time since; a packet counts as closed
  when the one before it ended shut; and what is sent is exactly the packets with
  speech and the one that closes them. It assumes at most two frames per packet, as the code has
  (`VOICE_FRAME_SAMPLES` over `FRAME`): with three, TLC finds speech that is held back in
  the first frame of a packet that ends with the gate shut after another that did.
* **Accounts.** `AccountsInv` is inductive (`AccountsInvariant`) and implies the three
  properties of the run that are about accounts. What makes it inductive is `Phase`:
  the connect screen's probe, request, answer and connection take turns, so each of
  the events that clear `busy` clears it for the only thing under way. `Ours` says of
  requests and answers what `TokenOfItsServer` says of the saved token. `Seeds` says
  why the lock may be let go of between checking and inserting: while a server has
  no account, everybody who hashes for it was told to be the first, so whoever
  inserts first makes the channels, or notes the one it could not make
  (`unseeded`); several may, and the places they count (`Lists`) are what keeps their channels apart.
* **Chat.** `ChatInv` is inductive and implies `MessagesAgree` and `PageOwed`
  (`ChatMessagesAgree`, `ChatPageOwed`). The property speaks of quiet moments; the
  invariant of all others, and follows a change from the table to the logs: what a
  handler is about to say is so (`HandlersRight`), the last word on its way about a
  message is so once every handler has spoken (`WordsRight`), and so is a log on
  which no word is on its way (`LogRight`). A change another handler makes in
  between marks the message (`raced`). That a log misses nothing needs more: a page
  may be old when it is applied, but what it lacks within its reach was told of
  since (`PagesCover`), and what is newer than a message that was the newest when
  it was told is told of later (`NewestLast`); pages are asked for from the whole
  part of a log that nothing tore (`LogWhole`). The proof found a fault of an earlier
  form of the model, in which every first message set `floor`: with two new
  messages that cross, the smaller run had no room to show it.
* **Services.** `ServicesStored` and `ServicesTransfersShown` are theorems of the
  run's own `MCSpec`; the other parts stutter. `SettingsInv` adds to `SettingsKept`
  that the temporary copy is what the client holds when it is renamed, and that
  what lies in the file is no older than what was saved. `ImagesInv` follows one
  task per attachment (`OneTask`) from the request to the event the interface
  hears, and says of the store that whoever has the temporary file open has it
  alone (`OneStore`), unless two tasks overlapped: a write that fails, or is killed,
  leaves only that file cut short. `TransferInv` says of every
  report on its way whether a later one ends its job (`RowsInv`: a row is taken
  away after its job, never before it is shown), and of every name in a folder which
  job chose it (`FilesInv`), unless two chose at once (`clashed`).
* **Call.** `CallInv`, the part of `CallSound` that holds at every moment and not only
  when all is answered, is inductive as it stands (`CallInvariant`). `CallAgrees`,
  `MicAgrees` and `ShareAgrees` speak of quiet moments only; `CallIsSound` and
  `ShownIsSo` rest on `Agreed`, which says at every other moment what the frames and
  requests under way have still to settle. The last of the frames "voice", "leave" and
  "ready" is as the server has it, and if none is under way what was read is
  (`SessionAgrees`); on one connection a session is announced only after the last has
  ended (`VoiceFollows`) and a share only in its session (`StartFollows`, `StartHolds`,
  `StartLast`), so what is read is never of another; a join carries its flags right
  behind it (`FlagsLast`), so a membership with the microphone as the server starts it
  never lasts (`MicTold`). The steps are of five kinds (`Steps`): an event takes the
  first frame, a request adds to the queue, a service adds frames, and a connection is
  accepted or ends; one lemma for each part of `Agreed` goes through them. TLC, given
  `Agreed` before it was proved, found the capture that outlives its call after a
  log-out, which an earlier `untold` had missed.

* **Shares.** Four of the parts of `ShareSound` and both action properties of the run
  are theorems of its `MCSpec`; each part of the module has an invariant and the others
  stutter. `PacerInv` (`SharePaced`): what lies in a buffer on the way is at most what the pacer
  means to wait for and one late sleep; a pause takes as much from one as from the
  other. `PicturesInv` (`ShareAccounted`): what builds under a timestamp has in
  each place nothing or that fragment of a picture of that time and length, so what
  is complete is one picture or there are two alike (`PictureSound`); and the tap's
  difference of the counter is exact unless the decoder counted meanwhile. `ClockInv`
  (`ShareGivesUpOldest`): there is a time at which each picture was sent, in order,
  whose remainder is its timestamp, and the newest seen is of one no earlier than any that
  builds; ages are then differences of times (`AgesApart`), and whoever is given up
  leaves enough younger ones (`GivenUp`: the youngest of those given up already has
  them). `SteerInv` (`ShareRateFollows`, `ShareYields`): the encoder's rate is what
  is settled on, or what it was before steps not worth telling, which end at the
  ceiling or the floor (`StepOf`, `NotWorth`); and the governor has heard of the worst. `EngineInv`
  (`ShareLeavesNothing`) says for each step of a start, an end and a start that
  failed which child and thread may be left.
  The proofs corrected the model thrice: `Yields` held at the bitrates tried but not at 421,
  where the twentieth is of the rate and not of the floor; two CASEs of `Engine` had guards that
  overlap, which leaves open which holds; and a set of late sleeps with no longest
  bounds no burst.

Only model-checked: `SamePictures`, `NoSplice` and `HandedOver`, the other three parts
of `ShareSound` (what a fold, a selection or a concatenation over a whole stream
yields is induction over data), and all liveness (`DeparturesTold`, `JanitorCatchesUp`, `Reconnects`, `ReplacedStop`, `Rejoins`,
`KeyframeComes`, `Recovers`, `DropEnds`). Liveness under fairness, ENABLED, induction
over data and RECURSIVE operators are beyond the prover; no module with theorems uses RECURSIVE.

Deadlock is not checked in these runs: the bounds on joins, requests, uploads,
samples, commands, time and crashes stop every behaviour in the end, and a
server with no clients has nothing to do.

## Not modelled

* Libraries: the cipher, Opus, H.264, noise suppression, argon2, SQLite, the
  wormhole, the system's capture frameworks. What the code relies on them for is
  in the module that uses them (a packet opens under its key or not, a decoder
  refuses or not, a mailbox is claimed once).
* Numeric signal processing (gain, mixing amplitudes, the resampler's
  interpolation): floating point, and no state beyond what Output keeps.
* Drawing: layout, colours, themes, icons, scrolling. What drawing decides is in
  Images, View and Accounts.
* Listing and choosing devices, permissions and pickers of the system, argument
  lists of ffmpeg, start-up, logs.
* The byte layout of packets and of control messages (derived by a library), apart
  from the fields the properties tell apart.
* On the server: claiming attachments by a message, display names beyond their
  broadcast, CreateChannel's broadcast, the read-only endpoints.

## Plan

Done, in the order of what is lost when it goes wrong: Hub, Session, Blobs,
Ring, Net, Call, hearing and speaking, shares, services. What is left:

1. Abstract specifications beside `Queue`: an exactly-once log for Chat, a stream of
   whole pictures for Pictures, "one call, one key" for Hub.
2. Claims of attachments by messages, and the composition of Chat with Blobs.

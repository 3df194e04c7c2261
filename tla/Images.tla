------------------------------- MODULE Images -------------------------------
(***************************************************************************)
(* A picture in the conversation, from the message that carries it to the  *)
(* texture that is drawn, in crates/boa-client/src:                        *)
(*   ui/chat.rs, ui/mod.rs  asking for what is not here                    *)
(*   net/mod.rs             fetching it, one task to each attachment       *)
(*   cache.rs               keeping it: a temporary file, then a rename    *)
(*   ui/images.rs           decoding it once, on a worker                  *)
(* Only one picture is followed. Several attachments may carry it, since   *)
(* the store knows a picture by its hash, and the tasks that fetch them    *)
(* run beside each other.  The client may be killed at any moment, and any *)
(* use of its disk may fail.                                               *)
(*                                                                         *)
(* Files are numbered as they are created: a task writes on to the file it *)
(* opened, wherever that has been renamed to.                              *)
(***************************************************************************)
EXTENDS Integers, Sequences, FiniteSets

CONSTANTS
    Attached,    \* attachments that carry the picture
    MaxFetches,  \* bound on downloads
    MaxKills     \* bound on restarts of the client

ASSUME ImagesAssumption == MaxFetches \in Nat /\ MaxKills \in Nat

VARIABLES
    sound,      \* whether the picture can be decoded at all
    files,      \* files created so far
    kept,       \* the file under the picture's name: a set of at most one
    temp,       \* the file under the temporary name: likewise
    opened,     \* opened[i]: the file the task of i writes to: likewise
    writing,    \* pairs of a file and the task that still has to fill it
    cut,        \* files left as they were when the client was killed
    fetching,   \* fetching[i]: what the task of i does next
    events,     \* events on their way to the interface
    requested,  \* App.requested
    slot,       \* Images.slots, for this picture
    worker,     \* whether the thread that decodes could be started
    decode_requests, \* Images.requests: whether the bytes read were whole
    results,    \* Images.results: whether they could be decoded
    fetches,    \* downloads so far
    kills,      \* restarts so far
    unfetched,   \* attachments whose fetch failed (history)
    overlapped, \* whether two tasks stored the picture at one time (history)
    misread     \* whether the slot is the outcome of a failed read (history)

disk == <<files, kept, temp, opened, writing, cut, overlapped>>
tasks == <<fetching, events, fetches, unfetched>>
screen == <<requested, slot, worker, decode_requests, results, misread>>
imageVars == <<sound, disk, tasks, screen, kills>>

Tell(kind, i) == events' = Append(events, <<kind, i>>)

Does(i, step) == fetching' = [fetching EXCEPT ![i] = step]

Have == kept # {}

\* The bytes in the file are all there.
Whole(file) == file \notin cut /\ \A w \in writing : w[1] # file

----------------------------------------------------------------------------
(* Drawing: draw_attachment, and Images::get.                              *)

\* Action::WantAttachment, which the network thread drops when signed out
Want(i) ==
    /\ ~Have /\ i \notin requested /\ fetches < MaxFetches
    /\ requested' = requested \cup {i}
    /\ fetches' = fetches + 1
    /\ \/ Does(i, "look") /\ UNCHANGED unfetched
       \/ unfetched' = unfetched \cup {i} /\ UNCHANGED fetching
    /\ UNCHANGED <<sound, disk, events, slot, worker, decode_requests, results, misread, kills>>

\* The bytes are on disk and nothing has started yet: what is read is queued
\* for the worker, if there is one.  A read that fails settles the slot at once.
Get ==
    /\ Have /\ slot = "none"
    /\ \/ /\ slot' = "loading"
          /\ decode_requests' = IF worker THEN Append(decode_requests, \A file \in kept : Whole(file))
                                         ELSE decode_requests
          /\ UNCHANGED misread
       \/ /\ slot' = "undecodable" /\ misread' = TRUE
          /\ UNCHANGED decode_requests
    /\ UNCHANGED <<sound, disk, tasks, requested, worker, results, kills>>

\* The worker.
WorkOn ==
    /\ worker /\ decode_requests # <<>>
    /\ results' = Append(results, Head(decode_requests) /\ sound)
    /\ decode_requests' = Tail(decode_requests)
    /\ UNCHANGED <<sound, disk, tasks, requested, slot, worker, misread, kills>>

\* Images::collect
Collect ==
    /\ results # <<>>
    /\ slot' = IF results[Len(results)] THEN "ready" ELSE "undecodable"
    /\ misread' = FALSE
    /\ results' = <<>>
    /\ UNCHANGED <<sound, disk, tasks, requested, worker, decode_requests, kills>>

----------------------------------------------------------------------------
(* Fetching: fetch_attachment.                                             *)

\* The local store first, then the server.
Look(i) ==
    /\ fetching[i] = "look"
    /\ IF Have THEN Tell("ready", i) /\ Does(i, "idle")
       ELSE Does(i, "download") /\ UNCHANGED events
    /\ UNCHANGED <<sound, disk, screen, fetches, unfetched, kills>>

\* api::download: the bytes; or 410; or anything else, which is trouble.
DownloadAnswers == {"bytes", "gone", "trouble"}

\* Bytes of another hash are trouble too.
Download(i) ==
    /\ fetching[i] = "download"
    /\ \E answer \in DownloadAnswers :
          /\ Does(i, IF answer = "bytes" THEN "store" ELSE "idle")
          /\ IF answer = "gone" THEN Tell("gone", i) ELSE UNCHANGED events
          /\ unfetched' = IF answer = "trouble" THEN unfetched \cup {i} ELSE unfetched
    /\ UNCHANGED <<sound, disk, screen, fetches, kills>>

\* The file of this number, or one that is there already, is opened.
OpenFile(i, there) ==
    /\ opened' = [opened EXCEPT ![i] = IF there = {} THEN {files + 1} ELSE there]
    /\ files' = IF there = {} THEN files + 1 ELSE files

\* Mistake: the bytes are written under the picture's own name.
InPlace(i) == OpenFile(i, kept) /\ kept' = opened'[i] /\ UNCHANGED temp

\* The temporary name.
IntoTemp(i) == OpenFile(i, temp) /\ temp' = opened'[i] /\ UNCHANGED kept

\* cache::store writes: the file is emptied first,
WriteFile(i) ==
    /\ fetching[i] = "store"
    /\ IntoTemp(i)
    /\ writing' = {w \in writing : w[1] \notin opened'[i]} \cup (opened'[i] \X {i})
    /\ cut' = cut \ opened'[i]
    /\ overlapped' = (overlapped \/ \E j \in Attached : fetching[j] \in {"fill", "rename"})
    /\ Does(i, "fill")
    /\ UNCHANGED <<sound, screen, events, fetches, unfetched, kills>>

\* then filled,
Fill(i) ==
    /\ fetching[i] = "fill"
    /\ writing' = {w \in writing : w[2] # i}
    /\ Does(i, "rename")
    /\ UNCHANGED <<sound, files, kept, temp, opened, cut, overlapped, screen, events, fetches,
                   unfetched, kills>>

\* and renamed into place, if it is still there.
Rename(i) ==
    /\ fetching[i] = "rename"
    /\ kept' = IF temp = {} THEN kept ELSE temp
    /\ temp' = {}
    /\ opened' = [opened EXCEPT ![i] = {}]
    /\ IF temp = {} THEN unfetched' = unfetched \cup {i} /\ UNCHANGED events
                    ELSE Tell("ready", i) /\ UNCHANGED unfetched
    /\ Does(i, "idle")
    /\ UNCHANGED <<sound, files, writing, cut, overlapped, screen, fetches, kills>>

\* One of these fails: the directory cannot be made or the file not opened;
\* not all of it is written; or it cannot be renamed.  What is there stays.
StoreFails(i) ==
    /\ fetching[i] \in {"store", "fill", "rename"}
    /\ cut' = cut \cup {w[1] : w \in {v \in writing : v[2] = i}}
    /\ writing' = {w \in writing : w[2] # i}
    /\ opened' = [opened EXCEPT ![i] = {}]
    /\ unfetched' = unfetched \cup {i}
    /\ Does(i, "idle")
    /\ UNCHANGED <<sound, files, kept, temp, overlapped, screen, events, fetches, kills>>

\* Images::forget
ForgetSlot == slot' = "none" /\ misread' = FALSE

\* The interface hears: AttachmentReady makes it forget what it decoded.
Hear ==
    /\ events # <<>>
    /\ IF Head(events)[1] = "ready" THEN ForgetSlot ELSE UNCHANGED <<slot, misread>>
    /\ requested' = requested \ {Head(events)[2]}
    /\ events' = Tail(events)
    /\ UNCHANGED <<sound, disk, fetching, fetches, unfetched, worker, decode_requests, results, kills>>

----------------------------------------------------------------------------

\* The client is killed and started again, with a worker or, if the system has
\* no thread for it, without; and it may delete what is old.
Kill ==
    /\ kills < MaxKills /\ kills' = kills + 1
    /\ cut' = cut \cup {w[1] : w \in writing}
    /\ writing' = {}
    /\ kept' \in {kept, {}}
    /\ opened' = [i \in Attached |-> {}] /\ fetching' = [i \in Attached |-> "idle"]
    /\ events' = <<>> /\ decode_requests' = <<>> /\ results' = <<>>
    /\ requested' = {} /\ ForgetSlot /\ worker' \in BOOLEAN
    /\ UNCHANGED <<sound, files, temp, fetches, unfetched, overlapped>>

ImagesInit ==
    /\ sound \in BOOLEAN /\ worker \in BOOLEAN
    /\ files = 0 /\ kept = {} /\ temp = {} /\ writing = {} /\ cut = {} /\ overlapped = FALSE
    /\ opened = [i \in Attached |-> {}] /\ fetching = [i \in Attached |-> "idle"]
    /\ events = <<>> /\ requested = {} /\ slot = "none" /\ decode_requests = <<>> /\ results = <<>>
    /\ fetches = 0 /\ kills = 0 /\ unfetched = {} /\ misread = FALSE

ImagesNext ==
    \/ Get \/ WorkOn \/ Collect \/ Hear \/ Kill
    \/ \E i \in Attached :
          \/ Want(i) \/ Look(i) \/ Download(i)
          \/ WriteFile(i) \/ Fill(i) \/ Rename(i) \/ StoreFails(i)

----------------------------------------------------------------------------

\* A picture never loads forever: what is shown as loading is being decoded,
\* unless the client has no worker, and what was asked for is being fetched,
\* unless that failed. What is in the store is whole, after a kill and after a
\* write that failed too, and so a picture that can be decoded is never found
\* undecodable; unless two tasks stored it at one time, or its file, which is
\* there, could not be read. (cache.rs: "an interrupted write cannot leave a
\* truncated file"; images.rs)
PicturesAppear ==
    /\ slot = "loading" /\ worker => decode_requests # <<>> \/ results # <<>>
    /\ \A i \in requested \ unfetched :
          fetching[i] # "idle" \/ \E n \in DOMAIN events : events[n][2] = i
    /\ overlapped \/ kept \cap cut = {}
    /\ slot = "undecodable" => overlapped \/ ~sound \/ misread

=============================================================================

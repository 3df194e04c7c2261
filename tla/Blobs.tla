-------------------------------- MODULE Blobs --------------------------------
(***************************************************************************)
(* Attachments, from upload to the client's own copy:                      *)
(*   crates/boa-server/src/http.rs   upload and download                   *)
(*   crates/boa-server/src/blobs.rs  the files, and the janitor            *)
(*   crates/boa-server/src/db.rs     the rows that describe them           *)
(*   crates/boa-client/src/net/mod.rs, cache.rs  fetching and keeping      *)
(*                                                                         *)
(* A row is kept for ever; the bytes are a file named by their hash, which *)
(* rows with the same content share.  Uploads, the janitor's pass and      *)
(* downloads await between their steps, and the process may die at any     *)
(* moment, leaving rows and files as they are.                             *)
(*                                                                         *)
(* A file being written is one inode whatever it is called: an upload that *)
(* has it open goes on writing to it after another has renamed it.         *)
(***************************************************************************)
EXTENDS Integers, FiniteSets

CONSTANTS
    Contents,   \* file contents, standing for their hashes
    Uploads,    \* upload requests; each leads to at most one row
    Shown,      \* the uploads whose messages the client shows
    Ttl,        \* ATTACHMENT_TTL_SECS
    MaxTime,    \* bound on the clock
    MaxCrashes, \* bound on crashes of the server
    MaxFailures \* bound on failures to delete a file

ASSUME BlobsAssumption ==
    /\ Shown \subseteq Uploads
    /\ Ttl \in Nat \ {0}
    /\ MaxTime \in Nat /\ MaxCrashes \in Nat /\ MaxFailures \in Nat

VARIABLES
    blob,     \* blob[s]: the file named s: absent, partial or whole
    part,     \* part[s]: the file s.part
    rows,     \* attachments: upload |-> [sha, expires, deleted]
    job,      \* job[i]: an upload's handler: [at, sha, fd]
    pass,     \* the janitor: [at, todo, sha]
    clock,
    crashes, failures,
    cached,   \* hashes in the client's own store
    asking,   \* attachments the client has asked for and not heard of (requested)
    fetch,    \* fetch[i]: what the server has yet to read for the client: row or bytes
    exposed,  \* uploads that overlapped a janitor's pass (history)
    raced,    \* contents that two uploads were storing at once (history)
    told      \* attachments the client was told are gone (history)

files == <<blob, part>>
client == <<cached, asking, fetch, told>>
vars == <<blob, part, rows, job, pass, clock, crashes, failures, cached,
          asking, fetch, exposed, raced, told>>

NoJob   == [at |-> "new", sha |-> "none", fd |-> "none"]
Asleep  == [at |-> "asleep", todo |-> {}, sha |-> "none"]

Recorded == DOMAIN rows
InFlight(i) == job[i].at \in {"probe", "create", "write", "rename", "insert"}
Storing(s)  == {i \in Uploads : InFlight(i) /\ job[i].sha = s}
Sweeping    == pass.at # "asleep"

Live(i)  == rows[i].expires > clock
RowsOf(s) == {i \in Recorded : rows[i].sha = s}

\* j's handle on the file s that is deleted or replaced, or that s.part becomes.
Unlinked(j, s) ==
    IF job[j].sha = s /\ job[j].fd = "blob"
    THEN [job[j] EXCEPT !.fd = "unlinked"] ELSE job[j]
Renamed(j, s) ==
    IF job[j].sha = s /\ job[j].fd = "part"
    THEN [job[j] EXCEPT !.fd = "blob"] ELSE Unlinked(j, s)

----------------------------------------------------------------------------
(* upload: Blobs::store, then Db::insert_attachment.                       *)

Begin(i, s) ==
    /\ job[i].at = "new"
    /\ job' = [job EXCEPT ![i] = [at |-> "probe", sha |-> s, fd |-> "none"]]
    /\ exposed' = IF Sweeping THEN exposed \cup {i} ELSE exposed
    /\ raced' = IF Storing(s) # {} THEN raced \cup {s} ELSE raced
    /\ UNCHANGED <<files, rows, pass, clock, crashes, failures, client>>

\* The same content is stored once.
Probe(i) ==
    /\ job[i].at = "probe"
    /\ job' = [job EXCEPT ![i].at =
                IF blob[job[i].sha] # "absent" THEN "insert" ELSE "create"]
    /\ UNCHANGED <<files, rows, pass, clock, crashes, failures, client,
                   exposed, raced>>

\* Mistake: the bytes are written under the final name.
InPlace(i) ==
    /\ job[i].at = "create"
    /\ blob' = [blob EXCEPT ![job[i].sha] = "partial"]
    /\ job' = [job EXCEPT ![i] = [at |-> "write", sha |-> @.sha, fd |-> "blob"]]
    /\ UNCHANGED <<part, rows, pass, clock, crashes, failures, client,
                   exposed, raced>>

\* tokio::fs::write creates the file, or empties the one that is there, ...
Create(i) ==
    /\ job[i].at = "create"
    /\ part' = [part EXCEPT ![job[i].sha] = "partial"]
    /\ job' = [job EXCEPT ![i] = [at |-> "write", sha |-> @.sha, fd |-> "part"]]
    /\ UNCHANGED <<blob, rows, pass, clock, crashes, failures, client,
                   exposed, raced>>

\* ... and writes to it, whatever it is called by then.
Write(i) ==
    LET s == job[i].sha IN
    /\ job[i].at = "write"
    /\ blob' = [blob EXCEPT ![s] = IF job[i].fd = "blob" THEN "whole" ELSE @]
    /\ part' = [part EXCEPT ![s] = IF job[i].fd = "part" THEN "whole" ELSE @]
    /\ job' = [job EXCEPT ![i].at = "rename"]
    /\ UNCHANGED <<rows, pass, clock, crashes, failures, client, exposed, raced>>

Rename(i) ==
    LET s == job[i].sha IN
    /\ job[i].at = "rename"
    /\ IF part[s] = "absent"
       THEN job' = [job EXCEPT ![i].at = "failed"] /\ UNCHANGED files
       ELSE /\ blob' = [blob EXCEPT ![s] = part[s]]
            /\ part' = [part EXCEPT ![s] = "absent"]
            /\ job' = [[j \in Uploads |-> Renamed(j, s)]
                        EXCEPT ![i].at = "insert"]
    /\ UNCHANGED <<rows, pass, clock, crashes, failures, client, exposed, raced>>

Insert(i) ==
    /\ job[i].at = "insert"
    /\ rows' = [j \in Recorded \cup {i} |->
                    IF j = i THEN [sha |-> job[i].sha, expires |-> clock + Ttl,
                                   deleted |-> FALSE]
                    ELSE rows[j]]
    /\ job' = [job EXCEPT ![i].at = "done"]
    /\ UNCHANGED <<files, pass, clock, crashes, failures, client, exposed, raced>>

\* The uploader hangs up, or the row cannot be inserted.
Abandon(i) ==
    /\ InFlight(i) /\ job[i].at # "write"
    /\ job' = [job EXCEPT ![i].at = "failed"]
    /\ UNCHANGED <<files, rows, pass, clock, crashes, failures, client,
                   exposed, raced>>

\* A message is deleted, and the rows of its attachments with it.
DeleteMessage(i) ==
    /\ i \in Recorded
    /\ rows' = [j \in Recorded \ {i} |-> rows[j]]
    /\ UNCHANGED <<files, job, pass, clock, crashes, failures, client,
                   exposed, raced>>

----------------------------------------------------------------------------
(* The janitor.                                                            *)

\* Mistake: hashes a newer attachment still needs are offered too.
ExpiredAtAll(now) ==
    {s \in Contents :
        \E i \in RowsOf(s) : rows[i].expires <= now /\ ~rows[i].deleted}

ExpiredBlobs(now) ==
    {s \in Contents :
        /\ \E i \in RowsOf(s) : rows[i].expires <= now /\ ~rows[i].deleted
        /\ \A i \in RowsOf(s) : rows[i].expires <= now}

\* Mistake: the test is the wrong way round.
Referenced(found) == {s \in found : RowsOf(s) # {}}

OrphanedBlobs(found) == {s \in found : RowsOf(s) = {}}

Ask ==
    /\ pass.at = "asleep"
    /\ pass' = [at |-> "expired", todo |-> ExpiredBlobs(clock), sha |-> "none"]
    /\ exposed' = exposed \cup {i \in Uploads : InFlight(i)}
    /\ UNCHANGED <<files, rows, job, clock, crashes, failures, client, raced>>

Removed(s) ==
    /\ blob' = [blob EXCEPT ![s] = "absent"]
    /\ job' = [j \in Uploads |-> Unlinked(j, s)]
    /\ UNCHANGED part

RemoveExpired(s) ==
    /\ pass.at = "expired" /\ s \in pass.todo
    /\ Removed(s)
    /\ pass' = [pass EXCEPT !.at = "mark", !.sha = s]
    /\ UNCHANGED <<rows, clock, crashes, failures, client, exposed, raced>>

MarkDeleted ==
    /\ pass.at = "mark"
    /\ rows' = [i \in Recorded |->
                    IF rows[i].sha = pass.sha
                    THEN [rows[i] EXCEPT !.deleted = TRUE] ELSE rows[i]]
    /\ pass' = [pass EXCEPT !.at = "expired", !.todo = @ \ {pass.sha},
                            !.sha = "none"]
    /\ UNCHANGED <<files, job, clock, crashes, failures, client, exposed, raced>>

List ==
    /\ pass.at = "expired" /\ pass.todo = {}
    /\ pass' = [pass EXCEPT !.at = "listed",
                            !.todo = {s \in Contents : blob[s] # "absent"}]
    /\ UNCHANGED <<files, rows, job, clock, crashes, failures, client,
                   exposed, raced>>

AskOrphans ==
    /\ pass.at = "listed"
    /\ pass' = [pass EXCEPT !.at = "orphans", !.todo = OrphanedBlobs(@)]
    /\ UNCHANGED <<files, rows, job, clock, crashes, failures, client,
                   exposed, raced>>

RemoveOrphan(s) ==
    /\ pass.at = "orphans" /\ s \in pass.todo
    /\ Removed(s)
    /\ pass' = [pass EXCEPT !.todo = @ \ {s}]
    /\ UNCHANGED <<rows, clock, crashes, failures, client, exposed, raced>>

\* A file cannot be deleted; the pass goes on with the next.
RemoveFails(s) ==
    /\ pass.at \in {"expired", "orphans"} /\ s \in pass.todo
    /\ failures < MaxFailures
    /\ failures' = failures + 1
    /\ pass' = [pass EXCEPT !.todo = @ \ {s}]
    /\ UNCHANGED <<files, rows, job, clock, crashes, client, exposed, raced>>

Sleep ==
    /\ pass.at = "orphans" /\ pass.todo = {}
    /\ pass' = Asleep
    /\ UNCHANGED <<files, rows, job, clock, crashes, failures, client,
                   exposed, raced>>

Sweep ==
    \/ Ask \/ MarkDeleted \/ List \/ AskOrphans \/ Sleep
    \/ \E s \in Contents : RemoveExpired(s) \/ RemoveOrphan(s)

----------------------------------------------------------------------------
(* A client that is shown the attachment, frame after frame.               *)

Want(i) ==
    /\ job[i].at = "done" /\ job[i].sha \notin cached
    /\ i \notin asking
    /\ asking' = asking \cup {i}
    /\ fetch' = [fetch EXCEPT ![i] = "row"]
    /\ UNCHANGED <<files, rows, job, pass, clock, crashes, failures, cached,
                   told, exposed, raced>>

Gone(i) == told' = told \cup {i} /\ asking' = asking \ {i}

\* The row: 404 when there is none, which is Trouble, and 410 when it is marked.
Lookup(i) ==
    /\ fetch[i] = "row"
    /\ fetch' = [fetch EXCEPT ![i] =
            IF i \in Recorded /\ ~rows[i].deleted THEN "bytes" ELSE "none"]
    /\ IF i \in Recorded /\ rows[i].deleted THEN Gone(i)
                                           ELSE UNCHANGED <<told, asking>>
    /\ UNCHANGED <<files, rows, job, pass, clock, crashes, failures, cached,
                   exposed, raced>>

\* The bytes: kept if they hash to what the message says, or else Trouble.
Fetch(i) ==
    LET s == job[i].sha IN
    /\ fetch[i] = "bytes"
    /\ fetch' = [fetch EXCEPT ![i] = "none"]
    /\ cached' = IF blob[s] = "whole" THEN cached \cup {s} ELSE cached
    /\ CASE blob[s] = "absent"  -> Gone(i)
         [] blob[s] = "whole"   -> asking' = asking \ {i} /\ UNCHANGED told
         [] blob[s] = "partial" -> UNCHANGED <<told, asking>>
    /\ UNCHANGED <<files, rows, job, pass, clock, crashes, failures, exposed,
                   raced>>

----------------------------------------------------------------------------

Tick ==
    /\ clock < MaxTime
    /\ clock' = clock + 1
    /\ UNCHANGED <<files, rows, job, pass, crashes, failures, client, exposed,
                   raced>>

\* The server dies and is started again.  Downloads in progress are Trouble.
Crash ==
    /\ crashes < MaxCrashes
    /\ crashes' = crashes + 1
    /\ job' = [i \in Uploads |->
                IF InFlight(i) THEN [job[i] EXCEPT !.at = "failed", !.fd = "none"]
                               ELSE job[i]]
    /\ pass' = Asleep
    /\ fetch' = [i \in Uploads |-> "none"]
    /\ UNCHANGED <<files, rows, clock, failures, cached, asking, told, exposed,
                   raced>>

Init ==
    /\ blob = [s \in Contents |-> "absent"] /\ part = blob
    /\ rows = [i \in {} |-> NoJob]
    /\ job = [i \in Uploads |-> NoJob]
    /\ pass = Asleep
    /\ clock = 0 /\ crashes = 0 /\ failures = 0
    /\ cached = {} /\ asking = {}
    /\ fetch = [i \in Uploads |-> "none"]
    /\ exposed = {} /\ raced = {} /\ told = {}

Upload(i) ==
    \/ \E s \in Contents : Begin(i, s)
    \/ Probe(i) \/ Create(i) \/ Write(i) \/ Rename(i) \/ Insert(i) \/ Abandon(i)

Next ==
    \/ \E i \in Uploads : Upload(i) \/ DeleteMessage(i)
    \/ \E i \in Shown : Want(i) \/ Lookup(i) \/ Fetch(i)
    \/ Sweep
    \/ \E s \in Contents : RemoveFails(s)
    \/ Tick \/ Crash

Spec == Init /\ [][Next]_vars

\* The janitor never stops, and time passes.  Handlers finish by themselves.
FairSpec ==
    /\ Spec
    /\ WF_vars(Sweep) /\ WF_vars(Tick)
    /\ \A i \in Uploads :
        WF_vars(Probe(i) \/ Create(i) \/ Write(i) \/ Rename(i) \/ Insert(i))

----------------------------------------------------------------------------

(* The bytes of an attachment stay for three days: nothing the janitor     *)
(* does, before or after a crash, with however many other rows sharing the *)
(* file, takes or marks a file that a live row needs -- unless the upload  *)
(* was in the middle of a pass.  (db.rs expired_blobs, blobs.rs sweep)     *)
KeptForThreeDays ==
    \A i \in Recorded \ exposed :
        Live(i) => blob[rows[i].sha] # "absent" /\ ~rows[i].deleted

(* A file under its final name is whole, through crashes and interrupted   *)
(* uploads, unless two uploads were storing it at once.  (blobs.rs store)  *)
StoredWhole == \A s \in Contents \ raced : blob[s] # "partial"

(* A client is told that an attachment is gone only when its time is up.   *)
GoneIsOver ==
    \A i \in (told \cap Recorded) \ exposed : ~Live(i)

(* Once no row needs a file it goes, also when the server died half way,   *)
(* unless it is uploaded again.  Files that were uploaded again after they *)
(* expired once are excepted.  (blobs.rs sweep)                            *)
Unneeded(s) ==
    /\ blob[s] # "absent" /\ Storing(s) = {}
    /\ \A i \in RowsOf(s) : ~Live(i)
Uploaded(s) == Storing(s) # {} \/ \E i \in RowsOf(s) : Live(i)

Reclaimed ==
    \A s \in Contents :
        Unneeded(s) ~> \/ blob[s] = "absent" \/ Uploaded(s)
                       \/ \E i \in RowsOf(s) : rows[i].deleted

(* A row whose file was removed by a pass that died before marking it is   *)
(* marked by a later one: "one broken image and is fixed by the next       *)
(* pass" (blobs.rs:180-182).                                               *)
Mended ==
    \A i \in Uploads :
        (i \in Recorded /\ ~rows[i].deleted /\ blob[rows[i].sha] = "absent") ~>
            (i \notin Recorded \/ rows[i].deleted \/ blob[rows[i].sha] # "absent"
                \/ Uploaded(rows[i].sha))

(* In the end the disk and the table agree again, whatever a pass left      *)
(* undone: files no row needs are gone, rows without a file are marked.     *)
JanitorCatchesUp == Reclaimed /\ Mended

(* Why: the inductive invariant behind KeptForThreeDays, StoredWhole and   *)
(* GoneIsOver.  A content that is not raced has one writer, whose file is  *)
(* its own until it is renamed; an upload that no pass has overlapped      *)
(* finds its file there when it inserts its row; and what a pass has       *)
(* decided to remove has no live row but those of overlapping uploads.     *)
Stages == {"new", "probe", "create", "write", "rename", "insert", "done", "failed"}
Names  == {"none", "part", "blob", "unlinked"}
FileState == {"absent", "partial", "whole"}

Types ==
    /\ blob \in [Contents -> FileState] /\ part \in [Contents -> FileState]
    /\ job \in [Uploads -> [at : Stages, sha : Contents \cup {"none"}, fd : Names]]
    /\ rows \in [Recorded -> [sha : Contents, expires : Nat, deleted : BOOLEAN]]
    /\ Recorded \subseteq Uploads /\ told \subseteq Uploads
    /\ pass \in [at : {"asleep", "expired", "mark", "listed", "orphans"},
                 todo : SUBSET Contents, sha : Contents \cup {"none"}]
    /\ fetch \in [Uploads -> {"none", "row", "bytes"}]
    /\ clock \in Nat

Finished(i) == job[i].at = "done" /\ job[i].sha \in Contents
RowsFinished ==
    /\ \A i \in Recorded : Finished(i) /\ job[i].sha = rows[i].sha
    /\ \A i \in Uploads : InFlight(i) \/ job[i].at = "done" => job[i].sha \in Contents
    /\ \A i \in Uploads : i \in told \/ fetch[i] # "none" => Finished(i)

OneWriter ==
    \A i, j \in Uploads :
        InFlight(i) /\ InFlight(j) /\ job[i].sha = job[j].sha
            /\ job[i].sha \notin raced => i = j
OwnFile ==
    \A i \in Uploads :
        job[i].sha \notin raced =>
            /\ job[i].at = "write" => job[i].fd = "part"
            /\ job[i].at = "rename" => part[job[i].sha] = "whole"
InsertReady ==
    \A i \in Uploads \ exposed :
        /\ InFlight(i) => ~Sweeping
        /\ job[i].at = "insert" => blob[job[i].sha] # "absent"
SweepSpares ==
    /\ pass.at = "mark" => pass.sha \in pass.todo
    /\ pass.at \in {"expired", "mark"} =>
            \A i \in Recorded \ exposed : rows[i].sha \in pass.todo => ~Live(i)
    /\ pass.at = "orphans" =>
            \A i \in Recorded \ exposed : rows[i].sha \notin pass.todo

BlobsInv ==
    /\ Types /\ RowsFinished
    /\ OneWriter /\ OwnFile /\ StoredWhole
    /\ InsertReady /\ SweepSpares /\ KeptForThreeDays
    /\ GoneIsOver

(* "It will not offer a hash whose bytes some newer attachment still       *)
(* needs" (blobs.rs:17-18): KeptForThreeDays without its exception.        *)
NewerKept ==
    \A i \in Recorded : Live(i) => blob[rows[i].sha] # "absent" /\ ~rows[i].deleted

============================================================================

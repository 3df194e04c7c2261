------------------------------ MODULE Transfer ------------------------------
(* Files sent straight from one client to another: the jobs of a client's   *)
(* transfer thread, the rows and offers its window shows, the frames the    *)
(* server relays, and the folder received files go to.  A job runs on a     *)
(* thread of its own and reports to the window, so a row may be gone while  *)
(* its job runs and an offer may outlive the job it came from.  The         *)
(* wormhole is not the program's: a mailbox is claimed once, and then       *)
(* either side may fail.                                                    *)
EXTENDS Integers, FiniteSets, Sequences, FiniteSetsExt

CONSTANTS
    Peers,       \* who may receive files
    Senders,     \* and who sends them
    FileNames,   \* what files are called
    MaxCopies,   \* bound: files of one name in a folder
    MaxJobs,     \* bound: jobs of a client
    MaxAways,    \* bound: how often connections are lost
    MaxCancels,  \* bound: how often a person gives up
    NoOne

ASSUME TransferAssumption ==
    Senders \subseteq Peers /\ IsFiniteSet(FileNames) /\ {MaxCopies, MaxJobs, MaxAways, MaxCancels} \subseteq Nat

VARIABLES
    jobs,        \* job -> its stage, the other side's job, the file it writes
    flagged,     \* the jobs whose cancellation flag is set
    taskFlags,   \* client -> the jobs the thread's map has a flag for
    paneFlags,   \* client -> the jobs the window's map has a flag for
    reports,     \* client -> what the thread has told the window
    rows,        \* client -> active_transfers
    offers,      \* client -> offers nobody answered yet
    mail,        \* client -> frames the server relayed to it
    present,     \* client -> is it connected to the server
    folder,      \* client -> file -> whose contents, and are they whole
    saved,       \* files a person was told were saved (observes only)
    cancelled,   \* jobs a person gave up (observes only)
    clashed,     \* files two jobs chose (observes only)
    aways, cancels

threadVars == <<jobs, taskFlags, folder, saved, clashed>>
windowVars == <<rows, offers, paneFlags, cancelled, cancels>>
serverSide == <<mail, present, aways>>
transferVars == <<threadVars, windowVars, serverSide, reports, flagged>>

JobIds == Peers \X (1..MaxJobs)
Files == FileNames \X (1..MaxCopies)
NoJob == [stage |-> "none", to |-> NoOne, name |-> NoOne, with |-> NoOne, file |-> NoOne]

\* A job is at work until it has reported its end.
Running(j) == jobs[j].stage \notin {"none", "ended"}

TransferInit ==
    /\ jobs = [j \in JobIds |-> NoJob]
    /\ flagged = {} /\ saved = {} /\ cancelled = {} /\ clashed = {}
    /\ taskFlags = [c \in Peers |-> {}] /\ paneFlags = [c \in Peers |-> {}]
    /\ reports = [c \in Peers |-> <<>>] /\ mail = [c \in Peers |-> <<>>]
    /\ rows = [c \in Peers |-> {}] /\ offers = [c \in Peers |-> {}]
    /\ present = [c \in Peers |-> TRUE]
    /\ folder = [c \in Peers |-> [f \in {} |-> NoOne]]
    /\ aways = 0 /\ cancels = 0

-----------------------------------------------------------------------------
(* What the person does.                                                    *)

NextJob(c) == Min({n \in 1..MaxJobs : jobs[<<c, n>>] = NoJob} \cup {MaxJobs + 1})

Queue(c, job) ==
    /\ NextJob(c) <= MaxJobs
    /\ jobs' = [jobs EXCEPT ![<<c, NextJob(c)>>] = job]

\* The row comes with the wormhole, not before.
SendFileDirect(c) ==
    /\ \E d \in Peers \ {c}, n \in FileNames :
          Queue(c, [NoJob EXCEPT !.stage = "queued", !.to = d, !.name = n])
    /\ UNCHANGED <<windowVars, serverSide, reports, flagged, taskFlags, folder, saved, clashed>>

AcceptOffer(c, o) ==
    /\ Queue(c, [NoJob EXCEPT !.stage = "queued", !.with = o.job, !.name = jobs[o.job].name])
    /\ rows' = [rows EXCEPT ![c] = @ \cup {<<c, NextJob(c)>>}]
    /\ offers' = [offers EXCEPT ![c] = @ \ {o}]
    /\ UNCHANGED <<paneFlags, cancelled, cancels, serverSide, reports, flagged, taskFlags, folder, saved, clashed>>

\* The server relays a frame to whoever is there.
Relay(d, frame) == mail' = IF present[d] THEN [mail EXCEPT ![d] = Append(@, frame)] ELSE mail

DeclineOffer(c, o) ==
    /\ offers' = [offers EXCEPT ![c] = @ \ {o}]
    /\ IF present[c]
       THEN Relay(o.from, [kind |-> "cancelled", from |-> c, job |-> o.job])
       ELSE UNCHANGED mail
    /\ UNCHANGED <<threadVars, rows, paneFlags, cancelled, cancels, present, aways, reports, flagged>>

\* The window looks the flag up in a map of its own, which nothing fills.
CancelTransfer(c, j) ==
    /\ cancels < MaxCancels /\ cancels' = cancels + 1
    /\ rows' = [rows EXCEPT ![c] = @ \ {j}]
    /\ flagged' = flagged \cup ({j} \cap paneFlags[c])
    /\ paneFlags' = [paneFlags EXCEPT ![c] = @ \ {j}]
    /\ cancelled' = cancelled \cup {j}
    /\ UNCHANGED <<threadVars, offers, serverSide, reports>>

-----------------------------------------------------------------------------
(* The transfer thread: one task for a job.                                 *)

Reports(c, report) == reports' = [reports EXCEPT ![c] = Append(@, report)]

Stage(j, stage) == jobs' = [jobs EXCEPT ![j].stage = stage]

\* The flag is there before the work starts.
Run(j) ==
    /\ jobs[j].stage = "queued"
    /\ Stage(j, IF jobs[j].with = NoOne THEN "opening" ELSE "claiming")
    /\ taskFlags' = [taskFlags EXCEPT ![j[1]] = @ \cup {j}]
    /\ UNCHANGED <<windowVars, serverSide, reports, flagged, folder, saved, clashed>>

\* The task's flag goes, and the window is told how it ended.
Ends(j, report) ==
    /\ taskFlags' = [taskFlags EXCEPT ![j[1]] = @ \ {j}]
    /\ Reports(j[1], [kind |-> report, job |-> j])

\* A mailbox is open: the window is told before anybody is waited for.
Open(j) ==
    /\ jobs[j].stage = "opening"
    /\ Stage(j, "waiting")
    /\ Reports(j[1], [kind |-> "offered", job |-> j])
    /\ UNCHANGED <<windowVars, serverSide, flagged, taskFlags, folder, saved, clashed>>

\* The first to use the code gets the mailbox, and both sides go on.
Claim(j) ==
    LET s == jobs[j].with
    IN  /\ jobs[j].stage = "claiming" /\ jobs[s].stage = "waiting"
        /\ jobs' = [jobs EXCEPT ![j].stage = "asking", ![s].stage = "sending", ![s].with = j]
        /\ UNCHANGED <<windowVars, serverSide, reports, flagged, taskFlags, folder, saved, clashed>>

\* A mistake: the name is taken as it came.
AnyFile(c, name) == {<<name, 1>>}

\* What the folder does not have yet: report, report (2), ...
Free(c, name) == {f \in Files : f[1] = name /\ f \notin DOMAIN folder[c]}

\* Where it goes is looked up here, and the file is made after an await.
Choose(j) ==
    LET c == j[1]  free == Free(c, jobs[j].name)
        f == <<jobs[j].name, Min({g[2] : g \in free})>>
    IN  /\ jobs[j].stage = "asking" /\ free # {}
        /\ jobs' = [jobs EXCEPT ![j].stage = "chosen", ![j].file = f]
        /\ clashed' = IF \E k \in JobIds \ {j} : k[1] = c /\ jobs[k].file = f /\ Running(k)
                      THEN clashed \cup {<<c, f>>} ELSE clashed
        /\ UNCHANGED <<windowVars, serverSide, reports, flagged, taskFlags, folder, saved>>

Put(c, f, what) ==
    folder' = [folder EXCEPT ![c] = [g \in DOMAIN @ \cup {f} |-> IF g = f THEN what ELSE @[g]]]

Without(c, f) == folder' = [folder EXCEPT ![c] = [g \in DOMAIN @ \ {f} |-> @[g]]]

\* File::create empties what is there.
CreateFile(j) ==
    /\ jobs[j].stage = "chosen"
    /\ Stage(j, "writing")
    /\ Put(j[1], jobs[j].file, [of |-> j, whole |-> FALSE])
    /\ UNCHANGED <<windowVars, serverSide, reports, flagged, taskFlags, saved, clashed>>

Received(j) ==
    /\ jobs[j].stage = "writing" /\ jobs[jobs[j].with].stage = "sending"
    /\ jobs' = [jobs EXCEPT ![j].stage = "ended", ![jobs[j].with].stage = "delivered"]
    /\ Put(j[1], jobs[j].file, [of |-> j, whole |-> TRUE])
    /\ saved' = saved \cup {<<j, jobs[j].file>>}
    /\ Ends(j, "done")
    /\ UNCHANGED <<windowVars, serverSide, flagged, clashed>>

Sent(j) ==
    /\ jobs[j].stage = "delivered"
    /\ Stage(j, "ended")
    /\ Ends(j, "done")
    /\ UNCHANGED <<windowVars, serverSide, flagged, folder, saved, clashed>>

\* A job may fail wherever it awaits something outside; no flag is ever set that
\* would end one.  A half-written file is removed.
Fail(j) ==
    /\ jobs[j].stage \in {"opening", "waiting", "sending", "delivered", "claiming", "asking", "chosen", "writing"}
    /\ IF jobs[j].stage = "writing" THEN Without(j[1], jobs[j].file) ELSE UNCHANGED folder
    /\ Stage(j, "ended")
    /\ Ends(j, "failed")
    /\ UNCHANGED <<windowVars, serverSide, flagged, saved, clashed>>

-----------------------------------------------------------------------------
(* The window hears from the thread and from the server.                    *)

Heard(c, kind) ==
    /\ reports[c] # <<>> /\ Head(reports[c]).kind = kind
    /\ reports' = [reports EXCEPT ![c] = Tail(@)]

\* The code goes to the other side if both are there; the row comes either way.
Offered(c) ==
    LET j == Head(reports[c]).job
    IN  /\ Heard(c, "offered")
        /\ IF present[c]
           THEN Relay(jobs[j].to, [kind |-> "offer", from |-> c, job |-> j])
           ELSE UNCHANGED mail
        /\ rows' = [rows EXCEPT ![c] = @ \cup {j}]
        /\ UNCHANGED <<threadVars, offers, paneFlags, cancelled, cancels, present, aways, flagged>>

\* A mistake: the row of a job that failed stays.
KeepRow(c) ==
    /\ \E kind \in {"done", "failed"} : Heard(c, kind)
    /\ rows' = [rows EXCEPT ![c] = IF Head(reports[c]).kind = "failed" THEN @ ELSE @ \ {Head(reports[c]).job}]
    /\ UNCHANGED <<threadVars, offers, paneFlags, cancelled, cancels, serverSide, flagged>>

TakeRow(c) ==
    /\ \E kind \in {"done", "failed"} : Heard(c, kind)
    /\ rows' = [rows EXCEPT ![c] = @ \ {Head(reports[c]).job}]
    /\ UNCHANGED <<threadVars, offers, paneFlags, cancelled, cancels, serverSide, flagged>>

\* An offer is kept under its code; one called off concerns what was offered
\* to this client, so a refusal of what it offered itself changes nothing.
Frame(c) ==
    LET m == Head(mail[c])
    IN  /\ mail[c] # <<>>
        /\ mail' = [mail EXCEPT ![c] = Tail(@)]
        /\ offers' = [offers EXCEPT ![c] =
              IF m.kind = "offer" THEN {o \in @ : o.job # m.job} \cup {[from |-> m.from, job |-> m.job]}
                                  ELSE @ \ {[from |-> m.from, job |-> m.job]}]
        /\ UNCHANGED <<threadVars, rows, paneFlags, cancelled, cancels, present, aways, reports, flagged>>

\* The thread has a connection of its own to the wormhole's servers.
Away(c) ==
    /\ present[c] /\ aways < MaxAways /\ aways' = aways + 1
    /\ present' = [present EXCEPT ![c] = FALSE]
    /\ mail' = [mail EXCEPT ![c] = <<>>]
    /\ UNCHANGED <<threadVars, windowVars, reports, flagged>>

\* Ready replaces the offers with nothing, and no one makes them again.
Back(c) ==
    /\ ~present[c]
    /\ present' = [present EXCEPT ![c] = TRUE]
    /\ offers' = [offers EXCEPT ![c] = {}]
    /\ UNCHANGED <<threadVars, rows, paneFlags, cancelled, cancels, mail, aways, reports, flagged>>

-----------------------------------------------------------------------------
Working(j) ==
    \/ Run(j) \/ Open(j) \/ Claim(j) \/ Choose(j) \/ CreateFile(j) \/ Received(j) \/ Sent(j) \/ Fail(j)

TransferNext ==
    \/ \E j \in JobIds : Working(j)
    \/ \E c \in Peers :
          \/ c \in Senders /\ SendFileDirect(c)
          \/ Offered(c) \/ TakeRow(c) \/ Frame(c) \/ Away(c) \/ Back(c)
          \/ \E o \in offers[c] : AcceptOffer(c, o) \/ DeclineOffer(c, o)
          \/ \E j \in rows[c] : CancelTransfer(c, j)

TransferSpec == TransferInit /\ [][TransferNext]_transferVars

-----------------------------------------------------------------------------
Ending(j) == \E n \in DOMAIN reports[j[1]] : reports[j[1]][n] \in [kind : {"done", "failed"}, job : {j}]
Announced(j) == \E n \in DOMAIN reports[j[1]] : reports[j[1]][n] = [kind |-> "offered", job |-> j]

(* The window shows a row for exactly the transfers under way: none stays   *)
(* when its job has ended and said so, and none is missing that a person    *)
(* has not given up, but for a sender whose wormhole is not open yet.       *)
(* (pump_transfers, take_transfer, AcceptOffer, CancelTransfer)             *)
RowsFollowJobs ==
    \A c \in Peers, n \in 1..MaxJobs :
        LET j == <<c, n>>
        IN  /\ j \in rows[c] => Running(j) \/ Ending(j)
            /\ Running(j) => \/ j \in rows[c] \cup cancelled
                             \/ jobs[j].stage \in {"queued", "opening"} \/ Announced(j)

(* A file a person was told is saved stays as it was received, whatever is  *)
(* received after it under the same name, and nothing half-written is left  *)
(* behind: all but for two jobs that looked for a free name at once.        *)
(* (destination_for, receive_file)                                          *)
FilesKept ==
    /\ \A s \in saved :
          LET c == s[1][1]
          IN  <<c, s[2]>> \notin clashed =>
                  s[2] \in DOMAIN folder[c] /\ folder[c][s[2]] = [of |-> s[1], whole |-> TRUE]
    /\ \A c \in Peers : \A f \in DOMAIN folder[c] :
          <<c, f>> \notin clashed => folder[c][f].whole \/ Running(folder[c][f].of)

(* A person who gives up a transfer stops it: the flag its task watches is  *)
(* set.  (transfer/mod.rs: "Cancellation flags, one per job, shared with    *)
(* the task doing it.")                                                     *)
CancelHeard == \A j \in cancelled : Running(j) => j \in flagged

=============================================================================

-------------------------------- MODULE Net --------------------------------
(***************************************************************************)
(* crates/boa-client/src/net/mod.rs: the client's network thread.          *)
(*                                                                         *)
(* A loop takes one thing at a time: a command of the interface, the       *)
(* report of a connection that ended, or the retry moment.  Connections    *)
(* are tasks of their own, numbered by generation.  Nothing cancels one: a *)
(* replaced connection finds out that it is when every sender of its queue *)
(* is gone, and an upload in flight holds one of them.  Until then it goes *)
(* on telling the interface what it hears.                                 *)
(*                                                                         *)
(* Events reach the interface in the order they are sent, so status and    *)
(* mirror are what it shows once it has drained them.                      *)
(***************************************************************************)
EXTENDS Integers, Sequences

CONSTANTS
    MaxCommands, \* bound on Connect and Disconnect
    MaxFailures, \* bound on connections that end by themselves
    MaxUploads,  \* bound on messages with files
    NoLink

ASSUME NetAssumption ==
    /\ MaxCommands \in Nat /\ MaxFailures \in Nat /\ MaxUploads \in Nat
    /\ NoLink \notin Nat

VARIABLES
    target,     \* whether there is somewhere to connect to
    attempt,
    retry,      \* whether retry_at is set
    link,       \* generation of the connection commands go to, or NoLink
    generation,
    conn,       \* conn[g]: unopened, dialing, waiting (identified, no Ready yet),
                \*   greeted (has reported Connected), ready or over
    uploads,    \* uploads[g]: uploads that hold a sender of connection g
    ends,       \* reports of ended connections the loop has not read
    status,     \* the interface's status,
    mirror,     \*   and the connection whose Ready it shows, or NoLink
    commands, failures, started, \* what the bounds count
    late        \* status or mirror are a replaced connection's (history)

loop == <<target, attempt, retry, link, generation>>
counts == <<commands, failures, started>>
vars == <<loop, conn, uploads, ends, status, mirror, counts, late>>

Generations == 1 .. (MaxCommands + MaxFailures)
Up == {"greeted", "ready"}

\* Nobody can put a frame into g's queue any more.
Abandoned(g) == link # g /\ uploads[g] = 0

----------------------------------------------------------------------------
(* The loop: commands.                                                     *)

\* Mistake: a command leaves the retry scheduled.
StillScheduled(scheduled) == scheduled

\* A command makes a scheduled retry pointless.
Cancelled(scheduled) == FALSE

\* open: a new task, and its sender as the link.
Open(g) ==
    /\ generation' = g /\ link' = g
    /\ conn' = [conn EXCEPT ![g] = "dialing"]
    /\ status' = "connecting" /\ late' = FALSE

Connect ==
    /\ commands < MaxCommands /\ commands' = commands + 1
    /\ target' = TRUE /\ attempt' = 1 /\ retry' = Cancelled(retry)
    /\ Open(generation + 1)
    /\ UNCHANGED <<uploads, ends, mirror, failures, started>>

Disconnect ==
    /\ commands < MaxCommands /\ commands' = commands + 1
    /\ target' = FALSE /\ attempt' = 0 /\ retry' = Cancelled(retry)
    /\ generation' = generation + 1 /\ link' = NoLink
    /\ status' = "offline" /\ mirror' = NoLink /\ late' = FALSE
    /\ UNCHANGED <<conn, uploads, ends, failures, started>>

\* SendWithFiles: a task that uploads, and then sends on the connection that
\* was the link when it began.
StartUpload ==
    /\ target /\ link # NoLink
    /\ started < MaxUploads /\ started' = started + 1
    /\ uploads' = [uploads EXCEPT ![link] = @ + 1]
    /\ UNCHANGED <<loop, conn, ends, status, mirror, commands, failures,
                   late>>

FinishUpload(g) ==
    /\ uploads[g] > 0
    /\ uploads' = [uploads EXCEPT ![g] = @ - 1]
    /\ UNCHANGED <<loop, conn, ends, status, mirror, counts, late>>

----------------------------------------------------------------------------
(* The loop: reports and the timer.                                        *)

\* Mistake: a report is believed whichever connection it is from.
FromAnyone(report) == TRUE

FromTheLink(report) == link = report.from

IgnoreReport ==
    /\ ends # <<>> /\ ~FromTheLink(Head(ends))
    /\ ends' = Tail(ends)
    /\ UNCHANGED <<loop, conn, uploads, status, mirror, counts, late>>

TakeRejection ==
    /\ ends # <<>> /\ FromTheLink(Head(ends)) /\ Head(ends).why = "rejected"
    /\ ends' = Tail(ends)
    /\ link' = NoLink /\ target' = FALSE /\ attempt' = 0 /\ retry' = FALSE
    /\ status' = "rejected" /\ mirror' = NoLink /\ late' = FALSE
    /\ UNCHANGED <<generation, conn, uploads, counts>>

\* Mistake: there is a last attempt.
UpToTwo(attempts) == attempts <= 2

\* For ever, at longer and longer intervals.
Again(attempts) == TRUE

TakeDrop ==
    /\ ends # <<>> /\ FromTheLink(Head(ends)) /\ Head(ends).why = "dropped"
    /\ ends' = Tail(ends)
    /\ link' = NoLink /\ attempt' = attempt + 1 /\ retry' = Again(attempt')
    /\ status' = "reconnecting" /\ late' = FALSE
    /\ UNCHANGED <<target, generation, conn, uploads, mirror, counts>>

Retry ==
    /\ retry /\ retry' = FALSE
    /\ IF target
       THEN Open(generation + 1)
       ELSE UNCHANGED <<generation, link, conn, status, late>>
    /\ UNCHANGED <<target, attempt, uploads, ends, mirror, counts>>

----------------------------------------------------------------------------
(* A connection's task.                                                    *)

\* connect_async, the version question, Identify.
Dialed(g) ==
    /\ conn[g] = "dialing"
    /\ conn' = [conn EXCEPT ![g] = "waiting"]
    /\ UNCHANGED <<loop, uploads, ends, status, mirror, counts, late>>

Tell(g) == late' = (late \/ link # g)

\* The first Ready: Status(Connected), ...
Greeted(g) ==
    /\ conn[g] = "waiting"
    /\ conn' = [conn EXCEPT ![g] = "greeted"]
    /\ status' = "connected" /\ Tell(g)
    /\ UNCHANGED <<loop, uploads, ends, mirror, counts>>

\* ... and the frame itself.
Shown(g) ==
    /\ conn[g] = "greeted"
    /\ conn' = [conn EXCEPT ![g] = "ready"]
    /\ mirror' = g /\ Tell(g)
    /\ UNCHANGED <<loop, uploads, ends, status, counts>>

Over(g, why) ==
    /\ conn' = [conn EXCEPT ![g] = "over"]
    /\ ends' = Append(ends, [from |-> g, why |-> why])

\* The network fails or the server hangs up, at any await.
Drop(g) ==
    /\ conn[g] \notin {"unopened", "greeted", "over"}
    /\ failures < MaxFailures /\ failures' = failures + 1
    /\ Over(g, "dropped")
    /\ UNCHANGED <<loop, uploads, status, mirror, commands, started, late>>

\* The server refuses to identify the client.
Refused(g) ==
    /\ conn[g] = "waiting"
    /\ Over(g, "rejected")
    /\ UNCHANGED <<loop, uploads, status, mirror, counts, late>>

\* Mistake: the task holds a sender of its own queue.
HeldByItself(g) == FALSE

Replaced(g) == Abandoned(g)

\* outbound.recv() has no more senders.
Stop(g) ==
    /\ conn[g] \in {"waiting", "ready"} /\ Replaced(g)
    /\ Over(g, "dropped")
    /\ UNCHANGED <<loop, uploads, status, mirror, counts, late>>

----------------------------------------------------------------------------

Init ==
    /\ target = FALSE /\ attempt = 0 /\ retry = FALSE
    /\ link = NoLink /\ generation = 0
    /\ conn = [g \in Generations |-> "unopened"]
    /\ uploads = [g \in Generations |-> 0]
    /\ ends = <<>>
    /\ status = "offline" /\ mirror = NoLink
    /\ commands = 0 /\ failures = 0 /\ started = 0
    /\ late = FALSE

Commands == Connect \/ Disconnect \/ StartUpload
Reports == IgnoreReport \/ TakeRejection \/ TakeDrop
Progress(g) == Dialed(g) \/ Greeted(g) \/ Shown(g)
Task(g) == Progress(g) \/ Drop(g) \/ Refused(g) \/ Stop(g) \/ FinishUpload(g)

Next == Commands \/ Reports \/ Retry \/ \E g \in Generations : Task(g)

Spec == Init /\ [][Next]_vars

\* The loop keeps taking what is there and the timer fires; dialing ends one
\* way or the other, a server that accepts the client sends Ready, and uploads
\* finish.  Nobody is obliged to command, to fail or to refuse.
FairSpec ==
    /\ Spec
    /\ WF_vars(Reports) /\ WF_vars(Retry)
    /\ \A g \in Generations :
        WF_vars(Progress(g)) /\ WF_vars(Stop(g)) /\ WF_vars(FinishUpload(g))

----------------------------------------------------------------------------
(* What the network thread promises.                                       *)

Types ==
    /\ target \in BOOLEAN /\ attempt \in Nat /\ retry \in BOOLEAN
    /\ link \in Generations \cup {NoLink} /\ generation \in Nat
    /\ conn \in [Generations ->
                    {"unopened", "dialing", "waiting", "greeted", "ready", "over"}]
    /\ uploads \in [Generations -> Nat]
    /\ ends \in Seq([from : Generations, why : {"dropped", "rejected"}])
    /\ status \in {"offline", "connecting", "connected", "reconnecting", "rejected"}
    /\ mirror \in Generations \cup {NoLink}
    /\ commands \in 0 .. MaxCommands /\ failures \in 0 .. MaxFailures
    /\ started \in 0 .. MaxUploads /\ late \in BOOLEAN

(* Who has somewhere to connect to is never stranded: there is a link, or  *)
(* a retry is scheduled -- and never both, which would "schedule a         *)
(* reconnect on top of a live link" (net/mod.rs:324-325).                  *)
NeverStranded == IF target THEN retry <=> link = NoLink ELSE ~retry /\ link = NoLink

Unread == {ends[i] : i \in DOMAIN ends}

(* The link is the newest connection, and the end of it will be heard of:  *)
(* it is running or its report is on its way.                              *)
EndsReported ==
    /\ link # NoLink => link = generation /\ conn[link] # "unopened"
    /\ \A g \in Generations : g > generation => conn[g] = "unopened"
    /\ link # NoLink /\ conn[link] = "over" => \E r \in Unread : r.from = link
    /\ \A r \in Unread : conn[r.from] = "over"

(* Unless the last word was a replaced connection's, the interface shows   *)
(* what the loop is doing: connected only while the link's connection has  *)
(* been up, a retry only while one is scheduled, and somebody's server     *)
(* only while there is one.                                                *)
StatusTruthful ==
    ~late =>
        /\ status = "connected" => link # NoLink /\ conn[link] \in Up \cup {"over"}
        /\ status = "connecting" => link # NoLink
        /\ status = "reconnecting" <=> retry
        /\ status \in {"offline", "rejected"} => ~target /\ mirror = NoLink

\* No more generations than commands and failures: a connection is opened to
\* answer one of them.
Due == retry \/ [from |-> link, why |-> "dropped"] \in Unread
Counted ==
    /\ generation <= commands + failures
    /\ Due => generation < commands + failures

NetInv == Types /\ NeverStranded /\ EndsReported /\ Counted

(* "A report from a connection we have already replaced says nothing about *)
(* the current one" (net/mod.rs:323-324): but for the user's commands, a   *)
(* link is given up only when its own connection is over.                  *)
LinkKept ==
    [][(link # NoLink /\ link' # link) =>
            conn[link] = "over" \/ commands' # commands]_vars

(* A client that wants to be connected gets there, once the network stops  *)
(* failing, unless the user or the server ends it.                         *)
Reconnects ==
    target ~> (link # NoLink /\ conn[link] = "ready") \/ ~target

(* "Dropping the link drops its outbound sender, which is how the          *)
(* connection task learns to stop" (net/mod.rs:258-259).                   *)
ReplacedStop ==
    \A g \in Generations :
        (conn[g] # "unopened" /\ link # g) ~> conn[g] = "over"

============================================================================

------------------------------ MODULE NetProofs ------------------------------
(***************************************************************************)
(* Whatever the user, the server and the network do, and in whatever order *)
(* the loop hears of it: the client is never stranded, never schedules a   *)
(* retry over a link, gives up a link only when that connection is over,   *)
(* and shows what it is doing unless a replaced connection spoke last.     *)
(***************************************************************************)
EXTENDS Net, SequenceTheorems, TLAPS

\* What the interface is told, and what makes it inductive.
Truth == NetInv /\ StatusTruthful

Report == [from : Generations, why : {"dropped", "rejected"}]

(* What the queue of reports holds when one is taken, and when one is      *)
(* added.                                                                  *)
LEMMA Taken ==
    ASSUME ends \in Seq(Report), ends # <<>>, ends' = Tail(ends)
    PROVE  /\ Head(ends) \in Unread /\ Head(ends) \in Report
           /\ ends' \in Seq(Report) /\ Unread' \subseteq Unread
           /\ \A r \in Unread : r = Head(ends) \/ r \in Unread'
<1>1. /\ Head(ends) \in Report /\ Head(ends) = ends[1] /\ 1 \in DOMAIN ends
      /\ Tail(ends) \in Seq(Report)
      /\ \A i \in DOMAIN Tail(ends) :
            i + 1 \in DOMAIN ends /\ Tail(ends)[i] = ends[i + 1]
      /\ \A j \in DOMAIN ends : j # 1 => /\ j - 1 \in DOMAIN Tail(ends)
                                        /\ j \in Int /\ (j - 1) + 1 = j
    BY HeadTailProperties
<1>2. ASSUME NEW r \in Unread PROVE r = Head(ends) \/ r \in Unread'
    <2>1. PICK j \in DOMAIN ends : r = ends[j]
        BY DEF Unread
    <2>2. CASE j = 1
        BY <1>1, <2>1, <2>2
    <2>3. CASE j # 1
        <3>1. j - 1 \in DOMAIN ends' /\ ends'[j - 1] = r
            BY <1>1, <2>1, <2>3
        <3>. QED  BY <3>1 DEF Unread
    <2>. QED  BY <2>2, <2>3
<1>. QED  BY <1>1, <1>2 DEF Unread

LEMMA Added ==
    ASSUME ends \in Seq(Report), NEW e \in Report, ends' = Append(ends, e)
    PROVE  ends' \in Seq(Report) /\ Unread' = Unread \cup {e}
<1>1. /\ ends' \in Seq(Report)
      /\ Len(ends) + 1 \in DOMAIN ends' /\ ends'[Len(ends) + 1] = e
      /\ \A i \in DOMAIN ends : i \in DOMAIN ends' /\ ends'[i] = ends[i]
      /\ \A i \in DOMAIN ends' : i \in DOMAIN ends \/ i = Len(ends) + 1
    BY AppendProperties
<1>. QED  BY <1>1 DEF Unread

LEMMA Start == Init => Truth
<1>. SUFFICES ASSUME Init PROVE Truth
    OBVIOUS
<1>. USE NetAssumption DEF Init
<1>1. Types
    <2>1. ends \in Seq([from : Generations, why : {"dropped", "rejected"}])
        BY EmptySeq
    <2>2. conn \in [Generations ->
                {"unopened", "dialing", "waiting", "greeted", "ready", "over"}]
        <3>1. conn = [g \in Generations |-> "unopened"]
            OBVIOUS
        <3>. QED  BY ONLY <3>1
    <2>3. uploads \in [Generations -> Nat]
        <3>1. uploads = [g \in Generations |-> 0]
            OBVIOUS
        <3>. QED  BY ONLY <3>1
    <2>4. /\ commands \in 0 .. MaxCommands /\ failures \in 0 .. MaxFailures
          /\ started \in 0 .. MaxUploads
        OBVIOUS
    <2>5. /\ target \in BOOLEAN /\ attempt \in Nat /\ retry \in BOOLEAN
          /\ link \in Generations \cup {NoLink} /\ generation \in Nat
          /\ mirror \in Generations \cup {NoLink}  /\ late \in BOOLEAN
          /\ status \in {"offline", "connecting", "connected", "reconnecting", "rejected"}
        OBVIOUS
    <2>. HIDE DEF Init
    <2>. QED  BY <2>1, <2>2, <2>3, <2>4, <2>5, Zenon DEF Types
<1>2. Unread = {}
    BY DEF Unread
<1>3. NeverStranded /\ StatusTruthful
    BY DEF NeverStranded, StatusTruthful
<1>4. EndsReported /\ Counted
    BY <1>2 DEF EndsReported, Counted, Due
<1>. QED  BY <1>1, <1>3, <1>4 DEF Truth, NetInv

(* A step that leaves the loop and the reports alone, and neither opens a  *)
(* connection nor ends one.                                                *)
LEMMA Undisturbed ==
    ASSUME Truth, UNCHANGED <<loop, ends, commands, failures>>,
           \A g \in Generations : /\ conn'[g] = "unopened" <=> conn[g] = "unopened"
                                  /\ conn'[g] = "over" <=> conn[g] = "over",
           \A r \in Unread : r.from \in Generations, link \in Generations \cup {NoLink}
    PROVE  NeverStranded' /\ EndsReported' /\ Counted'
<1>1. Unread' = Unread /\ link' = link /\ generation' = generation
    BY DEF Unread, loop
<1>2. NeverStranded'
    BY DEF Truth, NetInv, NeverStranded, loop
<1>3. EndsReported'
    <2>1. /\ link # NoLink => link = generation /\ conn'[link] # "unopened"
          /\ \A g \in Generations : g > generation => conn'[g] = "unopened"
          /\ link # NoLink /\ conn'[link] = "over" => \E r \in Unread : r.from = link
          /\ \A r \in Unread : conn'[r.from] = "over"
        BY DEF Truth, NetInv, EndsReported
    <2>. QED  BY <1>1, <2>1 DEF EndsReported
<1>4. Counted'
    BY <1>1 DEF Truth, NetInv, Counted, Due, loop
<1>. QED  BY <1>2, <1>3, <1>4

(* Reports are of connections that were opened.                            *)
LEMMA Typed ==
    ASSUME Truth
    PROVE  /\ \A r \in Unread : r \in Report /\ r.from \in Generations
           /\ link \in Generations \cup {NoLink} /\ ends \in Seq(Report)
           /\ generation \in Nat /\ NoLink \notin Generations
           /\ \A g \in Generations : g \in Nat
<1>1. /\ ends \in Seq(Report) /\ link \in Generations \cup {NoLink} /\ generation \in Nat
    BY DEF Truth, NetInv, Types, Report
<1>2. ASSUME NEW r \in Unread PROVE r \in Report /\ r.from \in Generations
    <2>1. PICK i \in DOMAIN ends : r = ends[i]
        BY DEF Unread
    <2>2. r \in Report
        BY <1>1, <2>1, ElementOfSeq
    <2>. QED  BY <2>2 DEF Report
<1>3. NoLink \notin Generations /\ \A g \in Generations : g \in Nat
    BY NetAssumption DEF Generations
<1>. QED  BY <1>1, <1>2, <1>3

LEMMA DialedKeeps == ASSUME Truth, NEW g \in Generations, Dialed(g) PROVE Truth'
<1>1. Types' /\ StatusTruthful'
    BY Typed DEF Truth, NetInv, Types, StatusTruthful, Dialed, Up, loop, counts
<1>2. NeverStranded' /\ EndsReported' /\ Counted'
    BY Undisturbed, Typed DEF Truth, NetInv, Types, Dialed, counts
<1>. QED  BY <1>1, <1>2 DEF Truth, NetInv

LEMMA GreetedKeeps == ASSUME Truth, NEW g \in Generations, Greeted(g) PROVE Truth'
<1>1. Types'
    BY DEF Truth, NetInv, Types, Greeted, Tell, loop, counts
<1>2. StatusTruthful'
    BY Typed DEF Truth, NetInv, Types, NeverStranded, StatusTruthful, Greeted, Tell, Up, loop
<1>3. NeverStranded' /\ EndsReported' /\ Counted'
    BY Undisturbed, Typed DEF Truth, NetInv, Types, Greeted, counts
<1>. QED  BY <1>1, <1>2, <1>3 DEF Truth, NetInv

LEMMA ShownKeeps == ASSUME Truth, NEW g \in Generations, Shown(g) PROVE Truth'
<1>1. Types'
    BY DEF Truth, NetInv, Types, Shown, Tell, loop, counts
<1>2. StatusTruthful'
    BY Typed DEF Truth, NetInv, Types, NeverStranded, StatusTruthful, Shown, Tell, Up, loop
<1>3. NeverStranded' /\ EndsReported' /\ Counted'
    BY Undisturbed, Typed DEF Truth, NetInv, Types, Shown, counts
<1>. QED  BY <1>1, <1>2, <1>3 DEF Truth, NetInv

LEMMA StartUploadKeeps == ASSUME Truth, StartUpload PROVE Truth'
<1>1. Types' /\ StatusTruthful'
    BY Typed, NetAssumption
       DEF Truth, NetInv, Types, StatusTruthful, StartUpload, Up, loop
<1>2. NeverStranded' /\ EndsReported' /\ Counted'
    BY Undisturbed, Typed DEF StartUpload
<1>. QED  BY <1>1, <1>2 DEF Truth, NetInv

LEMMA FinishUploadKeeps ==
    ASSUME Truth, NEW g \in Generations, FinishUpload(g) PROVE Truth'
<1>1. Types' /\ StatusTruthful'
    BY Typed DEF Truth, NetInv, Types, StatusTruthful, FinishUpload, Up, loop, counts
<1>2. NeverStranded' /\ EndsReported' /\ Counted'
    BY Undisturbed, Typed DEF FinishUpload, counts
<1>. QED  BY <1>1, <1>2 DEF Truth, NetInv

LEMMA MoreRoom ==
    ASSUME NEW n \in Nat, NEW m \in Nat, NEW k \in Nat, NEW l \in Nat, k <= l
    PROVE  /\ n <= m + k => n <= m + l
           /\ n < m + k => n < m + l
           /\ l = k + 1 /\ n <= m + k => n < m + l
    OBVIOUS

(* A connection ends: its report is on its way, and if it was the link's   *)
(* and failed, that failure is the reason of the retry to come.            *)
LEMMA Ended ==
    ASSUME Truth, NEW g \in Generations, NEW why \in {"dropped", "rejected"},
           Over(g, why), conn[g] \notin {"unopened", "over"},
           commands' = commands, failures' \in 0 .. MaxFailures,
           failures <= failures',
           (link = g /\ why = "dropped") => failures' = failures + 1,
           UNCHANGED <<loop, uploads, status, mirror, started, late>>
    PROVE  NetInv'
<1>. DEFINE e == [from |-> g, why |-> why]
<1>1. e \in Report /\ ends' \in Seq(Report) /\ Unread' = Unread \cup {e}
    <2>1. e \in Report /\ ends' = Append(ends, e)
        BY DEF Over, Report
    <2>. HIDE DEF e
    <2>. QED  BY <2>1, Added, Typed
<1>2. conn' = [conn EXCEPT ![g] = "over"] /\ conn \in [Generations ->
            {"unopened", "dialing", "waiting", "greeted", "ready", "over"}]
    BY DEF Over, Truth, NetInv, Types
<1>3. Types'
    BY <1>1, <1>2 DEF Truth, NetInv, Types, Report, loop
<1>4. NeverStranded'
    BY DEF Truth, NetInv, NeverStranded, loop
<1>5. EndsReported'
    <2>1. link' = link /\ generation' = generation
        BY DEF loop
    <2>2. link # NoLink => link = generation /\ conn'[link] # "unopened"
        BY <1>2, Typed DEF Truth, NetInv, EndsReported
    <2>3. \A h \in Generations : h > generation => conn'[h] = "unopened"
        BY <1>2, Typed DEF Truth, NetInv, EndsReported
    <2>4. link # NoLink /\ conn'[link] = "over" => \E r \in Unread' : r.from = link
        <3>1. CASE link = g
            BY <3>1, <1>1
        <3>2. CASE link # g
            BY <3>2, <1>1, <1>2, Typed DEF Truth, NetInv, EndsReported
        <3>. QED  BY <3>1, <3>2
    <2>5. \A r \in Unread' : conn'[r.from] = "over"
        BY <1>1, <1>2, Typed DEF Truth, NetInv, EndsReported
    <2>. QED  BY <2>1, <2>2, <2>3, <2>4, <2>5 DEF EndsReported
<1>6. Counted'
    <2>1. /\ link' = link /\ generation' = generation /\ retry' = retry
          /\ generation \in Nat /\ commands \in Nat /\ failures \in Nat /\ failures' \in Nat
        BY DEF loop, Truth, NetInv, Types
    <2>2. Due' => Due \/ failures' = failures + 1
        BY <1>1, <2>1 DEF Due
    <2>3. /\ generation <= commands + failures
          /\ Due => generation < commands + failures
        BY DEF Truth, NetInv, Counted
    <2>4. failures <= failures'
        BY <2>1
    <2>5. /\ generation <= commands + failures'
          /\ Due' => generation < commands + failures'
        BY <2>1, <2>2, <2>3, <2>4, MoreRoom
    <2>. QED  BY <2>1, <2>5 DEF Counted
<1>. QED  BY <1>3, <1>4, <1>5, <1>6 DEF NetInv

LEMMA EndKeeps ==
    ASSUME Truth, NEW g \in Generations, Drop(g) \/ Refused(g) \/ Stop(g) PROVE Truth'
<1>1. CASE Drop(g)
    <2>1. NetInv'
        <3>1. /\ Over(g, "dropped") /\ conn[g] \notin {"unopened", "over"}
              /\ commands' = commands /\ failures' \in 0 .. MaxFailures
              /\ failures <= failures'
              /\ (link = g /\ "dropped" = "dropped") => failures' = failures + 1
              /\ UNCHANGED <<loop, uploads, status, mirror, started, late>>
            BY <1>1, NetAssumption DEF Drop, Truth, NetInv, Types
        <3>. QED  BY <3>1, Ended
    <2>2. StatusTruthful'
        BY <1>1, Typed DEF Drop, Over, Truth, NetInv, Types, StatusTruthful, Up, loop
    <2>. QED  BY <2>1, <2>2 DEF Truth
<1>2. CASE Refused(g)
    <2>1. NetInv'
        <3>1. /\ Over(g, "rejected") /\ conn[g] \notin {"unopened", "over"}
              /\ commands' = commands /\ failures' \in 0 .. MaxFailures
              /\ failures <= failures'
              /\ (link = g /\ "rejected" = "dropped") => failures' = failures + 1
              /\ UNCHANGED <<loop, uploads, status, mirror, started, late>>
            BY <1>2, NetAssumption DEF Refused, Truth, NetInv, Types, counts
        <3>. QED  BY <3>1, Ended
    <2>2. StatusTruthful'
        BY <1>2, Typed DEF Refused, Over, Truth, NetInv, Types, StatusTruthful, Up, loop
    <2>. QED  BY <2>1, <2>2 DEF Truth
<1>3. CASE Stop(g)
    <2>1. NetInv'
        <3>1. /\ Over(g, "dropped") /\ conn[g] \notin {"unopened", "over"}
              /\ commands' = commands /\ failures' \in 0 .. MaxFailures
              /\ failures <= failures'
              /\ (link = g /\ "dropped" = "dropped") => failures' = failures + 1
              /\ UNCHANGED <<loop, uploads, status, mirror, started, late>>
            BY <1>3, NetAssumption DEF Stop, Truth, NetInv, Types, Replaced, Abandoned, counts
        <3>. QED  BY <3>1, Ended
    <2>2. StatusTruthful'
        BY <1>3, Typed DEF Stop, Over, Truth, NetInv, Types, StatusTruthful, Up, loop
    <2>. QED  BY <2>1, <2>2 DEF Truth
<1>. QED  BY <1>1, <1>2, <1>3

LEMMA Fits ==
    ASSUME NEW n \in Nat, NEW m \in 0 .. MaxCommands, NEW k \in 0 .. MaxFailures,
           n + 1 <= m + k
    PROVE  n + 1 \in Generations
    BY NetAssumption DEF Generations

(* The loop opens a connection that some command or failure accounts for.  *)
LEMMA OpenKeeps ==
    ASSUME Truth, Open(generation + 1), target', ~retry',
           commands' \in 0 .. MaxCommands, failures' = failures,
           generation + 1 <= commands' + failures, attempt' \in Nat,
           UNCHANGED <<uploads, ends, mirror, started>>, retry' \in BOOLEAN, target' \in BOOLEAN
    PROVE  Truth'
<1>. DEFINE g == generation + 1
<1>1. /\ g \in Generations /\ g # NoLink /\ g > generation /\ conn[g] = "unopened"
      /\ generation \in Nat /\ commands' \in Nat /\ failures \in Nat
    <2>1. generation \in Nat /\ failures \in 0 .. MaxFailures
        BY DEF Truth, NetInv, Types
    <2>2. g \in Generations
        BY <2>1, Fits
    <2>. QED  BY <2>1, <2>2, NetAssumption, Typed DEF Truth, NetInv, EndsReported
<1>2. /\ generation' = g /\ link' = g /\ conn' = [conn EXCEPT ![g] = "dialing"]
      /\ status' = "connecting" /\ late' = FALSE /\ Unread' = Unread
      /\ conn \in [Generations ->
            {"unopened", "dialing", "waiting", "greeted", "ready", "over"}]
    BY DEF Open, Unread, Truth, NetInv, Types
<1>. HIDE DEF g
<1>3. Types'
    <2>1. /\ conn' \in [Generations ->
                {"unopened", "dialing", "waiting", "greeted", "ready", "over"}]
          /\ generation' \in Nat /\ link' \in Generations \cup {NoLink}
          /\ failures' \in 0 .. MaxFailures
        BY <1>1, <1>2 DEF g, Truth, NetInv, Types
    <2>2. /\ uploads' \in [Generations -> Nat] /\ mirror' \in Generations \cup {NoLink}
          /\ ends' \in Seq([from : Generations, why : {"dropped", "rejected"}])
          /\ started' \in 0 .. MaxUploads
        BY DEF Truth, NetInv, Types
    <2>. QED  BY <2>1, <2>2, <1>2 DEF Types
<1>4. NeverStranded' /\ StatusTruthful'
    BY <1>1, <1>2 DEF NeverStranded, StatusTruthful
<1>5. \A r \in Unread : r.from # g /\ conn[r.from] = "over" /\ r.from \in Generations
    BY <1>1, Typed DEF Truth, NetInv, EndsReported
<1>6. EndsReported'
    <2>1. link' # NoLink /\ link' = generation' /\ conn'[link'] = "dialing"
        BY <1>1, <1>2
    <2>2. \A h \in Generations : h > g => conn'[h] = "unopened"
        <3>1. \A h \in Generations : h > g => h # g /\ h > generation
            BY <1>1, Typed DEF g
        <3>. QED  BY <3>1, <1>2 DEF Truth, NetInv, EndsReported
    <2>3. \A r \in Unread' : conn'[r.from] = "over"
        BY <1>2, <1>5
    <2>. QED  BY <2>1, <2>2, <2>3, <1>2 DEF EndsReported
<1>7. Counted'
    <2>1. ~Due'
        BY <1>2, <1>5 DEF Due
    <2>. QED  BY <2>1, <1>1, <1>2 DEF Counted, g
<1>. QED  BY <1>3, <1>4, <1>6, <1>7 DEF Truth, NetInv

LEMMA ConnectKeeps == ASSUME Truth, Connect PROVE Truth'
<1>1. /\ generation \in Nat /\ commands \in 0 .. MaxCommands
      /\ failures \in 0 .. MaxFailures /\ generation <= commands + failures
    BY DEF Truth, NetInv, Types, Counted
<1>2. /\ commands' \in 0 .. MaxCommands /\ generation + 1 <= commands' + failures
    BY <1>1, NetAssumption DEF Connect
<1>. QED  BY <1>2, OpenKeeps DEF Connect, Cancelled

LEMMA DisconnectKeeps == ASSUME Truth, Disconnect PROVE Truth'
<1>1. /\ generation \in Nat /\ commands \in 0 .. MaxCommands
      /\ failures \in 0 .. MaxFailures /\ generation <= commands + failures
    BY DEF Truth, NetInv, Types, Counted
<1>2. /\ commands' \in 0 .. MaxCommands /\ generation' \in Nat
      /\ generation' <= commands' + failures'
    BY <1>1, NetAssumption DEF Disconnect
<1>3. Types'
    <2>1. /\ target' \in BOOLEAN /\ attempt' \in Nat /\ retry' \in BOOLEAN
          /\ link' \in Generations \cup {NoLink} /\ mirror' \in Generations \cup {NoLink}
          /\ status' \in {"offline", "connecting", "connected", "reconnecting", "rejected"}
          /\ late' \in BOOLEAN
        BY DEF Disconnect, Cancelled
    <2>. QED  BY <2>1, <1>2 DEF Disconnect, Truth, NetInv, Types
<1>4. NeverStranded' /\ StatusTruthful'
    BY Typed DEF Disconnect, Cancelled, NeverStranded, StatusTruthful
<1>5. EndsReported'
    <2>1. \A h \in Generations : h > generation' => h > generation
        BY Typed DEF Disconnect
    <2>. QED  BY <2>1 DEF Disconnect, Unread, Truth, NetInv, EndsReported
<1>6. Counted'
    <2>1. ~Due'
        BY Typed DEF Disconnect, Cancelled, Due, Unread
    <2>. QED  BY <1>2, <2>1 DEF Counted
<1>. QED  BY <1>3, <1>4, <1>5, <1>6 DEF Truth, NetInv

LEMMA IgnoreReportKeeps == ASSUME Truth, IgnoreReport PROVE Truth'
<1>1. /\ ends' \in Seq(Report) /\ Unread' \subseteq Unread
      /\ \A r \in Unread : r = Head(ends) \/ r \in Unread'
    BY Taken, Typed DEF IgnoreReport
<1>2. Types' /\ StatusTruthful'
    BY <1>1 DEF IgnoreReport, Truth, NetInv, Types, Report, StatusTruthful, loop, counts
<1>3. NeverStranded'
    BY DEF IgnoreReport, Truth, NetInv, NeverStranded, loop
<1>4. EndsReported'
    BY <1>1 DEF IgnoreReport, FromTheLink, Truth, NetInv, EndsReported, loop
<1>5. Due' => Due
    BY <1>1 DEF IgnoreReport, Due, loop
<1>6. Counted'
    BY <1>5 DEF IgnoreReport, Truth, NetInv, Counted, loop, counts
<1>. QED  BY <1>2, <1>3, <1>4, <1>6 DEF Truth, NetInv

LEMMA TakeRejectionKeeps == ASSUME Truth, TakeRejection PROVE Truth'
<1>1. ends' \in Seq(Report) /\ Unread' \subseteq Unread
    BY Taken, Typed DEF TakeRejection
<1>2. Types'
    BY <1>1 DEF TakeRejection, Truth, NetInv, Types, Report, counts
<1>3. NeverStranded' /\ StatusTruthful'
    BY DEF TakeRejection, NeverStranded, StatusTruthful
<1>4. EndsReported'
    BY <1>1 DEF TakeRejection, Truth, NetInv, EndsReported
<1>5. ~Due'
    BY <1>1, Typed DEF TakeRejection, Due, Report
<1>6. Counted'
    BY <1>5 DEF TakeRejection, Truth, NetInv, Counted, counts
<1>. QED  BY <1>2, <1>3, <1>4, <1>6 DEF Truth, NetInv

(* The report of a drop pays for the retry it causes.                      *)
LEMMA TakeDropKeeps == ASSUME Truth, TakeDrop PROVE Truth'
<1>1. /\ Head(ends) \in Unread /\ Head(ends) \in Report
      /\ ends' \in Seq(Report) /\ Unread' \subseteq Unread
    BY Taken, Typed DEF TakeDrop
<1>2. Types'
    <2>1. attempt + 1 \in Nat
        BY DEF Truth, NetInv, Types
    <2>2. /\ attempt' \in Nat /\ retry' \in BOOLEAN
          /\ link' \in Generations \cup {NoLink} /\ late' \in BOOLEAN
          /\ status' \in {"offline", "connecting", "connected", "reconnecting", "rejected"}
        BY <2>1 DEF TakeDrop, Again
    <2>. QED  BY <2>2, <1>1 DEF TakeDrop, Truth, NetInv, Types, Report, counts
<1>3. link # NoLink
    BY <1>1, Typed DEF TakeDrop, FromTheLink
<1>4. NeverStranded' /\ StatusTruthful'
    BY <1>3 DEF TakeDrop, Again, Truth, NetInv, NeverStranded, StatusTruthful
<1>5. EndsReported'
    BY <1>1 DEF TakeDrop, Truth, NetInv, EndsReported
<1>6. Due
    BY <1>1 DEF TakeDrop, FromTheLink, Report, Due
<1>7. Counted'
    BY <1>6 DEF TakeDrop, Truth, NetInv, Counted, counts
<1>. QED  BY <1>2, <1>4, <1>5, <1>7 DEF Truth, NetInv

LEMMA RetryKeeps == ASSUME Truth, Retry PROVE Truth'
<1>1. /\ generation \in Nat /\ commands \in 0 .. MaxCommands
      /\ failures \in 0 .. MaxFailures /\ generation < commands + failures
      /\ target
    BY DEF Retry, Due, Truth, NetInv, Types, Counted, NeverStranded
<1>2. generation + 1 <= commands + failures
    BY <1>1
<1>. QED  BY <1>1, <1>2, OpenKeeps DEF Retry, counts, Truth, NetInv, Types

LEMMA StepKeeps == Truth /\ [Next]_vars => Truth'
<1>. SUFFICES ASSUME Truth, [Next]_vars PROVE Truth'
    OBVIOUS
<1>1. CASE Commands
    BY <1>1, ConnectKeeps, DisconnectKeeps, StartUploadKeeps DEF Commands
<1>2. CASE Reports
    BY <1>2, IgnoreReportKeeps, TakeRejectionKeeps, TakeDropKeeps DEF Reports
<1>3. CASE Retry
    BY <1>3, RetryKeeps
<1>4. ASSUME NEW g \in Generations, Task(g) PROVE Truth'
    BY <1>4, DialedKeeps, GreetedKeeps, ShownKeeps, EndKeeps, FinishUploadKeeps
       DEF Task, Progress
<1>5. CASE UNCHANGED vars
    BY <1>5 DEF vars, loop, counts, Truth, NetInv, Types, NeverStranded, EndsReported,
                Counted, Due, Unread, StatusTruthful
<1>. QED  BY <1>1, <1>2, <1>3, <1>4, <1>5 DEF Next

(* The client is never stranded and never retries over a live link.        *)
THEOREM NetSafe == Spec => []NetInv
<1>1. Truth => NetInv
    BY DEF Truth
<1>. QED  BY <1>1, Start, StepKeeps, PTL DEF Spec

(* The interface shows what the loop is doing, unless a replaced           *)
(* connection spoke last.                                                  *)
THEOREM StatusIsTruthful == Spec => []StatusTruthful
<1>1. Truth => StatusTruthful
    BY DEF Truth
<1>. QED  BY <1>1, Start, StepKeeps, PTL DEF Spec

(* But for the user's commands, a link is given up only when its own       *)
(* connection is over, however late the reports of older ones arrive.      *)
THEOREM LinksAreKept == Spec => LinkKept
<1>1. ASSUME Truth, [Next]_vars
      PROVE  [(link # NoLink /\ link' # link) =>
                  conn[link] = "over" \/ commands' # commands]_vars
    <2>. SUFFICES ASSUME link # NoLink, link' # link
                  PROVE  conn[link] = "over" \/ commands' # commands
        OBVIOUS
    <2>1. CASE Commands
        <3>1. commands' = commands + 1 \/ link' = link
            BY <2>1 DEF Commands, Connect, Disconnect, StartUpload, loop
        <3>2. commands \in Nat
            BY <1>1, NetAssumption DEF Truth, NetInv, Types
        <3>3. commands + 1 # commands
            BY <3>2
        <3>. QED  BY <3>1, <3>3
    <2>2. CASE Reports
        <3>1. ends # <<>> /\ FromTheLink(Head(ends)) /\ ends' = Tail(ends)
            BY <2>2 DEF Reports, IgnoreReport, TakeRejection, TakeDrop, loop
        <3>2. Head(ends) \in Unread
            BY <1>1, <3>1, Taken, Typed
        <3>. QED  BY <1>1, <3>1, <3>2 DEF FromTheLink, Truth, NetInv, EndsReported
    <2>3. CASE Retry
        <3>1. retry /\ (target => link = NoLink) /\ (~target => ~retry)
            BY <1>1, <2>3 DEF Retry, Truth, NetInv, NeverStranded
        <3>. QED  BY <3>1
    <2>4. ASSUME NEW g \in Generations, Task(g) PROVE link' = link
        BY <2>4 DEF Task, Progress, Dialed, Greeted, Shown, Drop, Refused, Stop,
                    FinishUpload, loop
    <2>5. CASE UNCHANGED vars
        BY <2>5 DEF vars, loop
    <2>6. Commands \/ Reports \/ Retry \/ (\E g \in Generations : Task(g))
          \/ UNCHANGED vars
        BY <1>1 DEF Next
    <2>. QED  BY <2>1, <2>2, <2>3, <2>4, <2>5, <2>6
<1>. QED  BY <1>1, Start, StepKeeps, PTL DEF Spec, LinkKept

============================================================================

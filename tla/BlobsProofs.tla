---------------------------- MODULE BlobsProofs ----------------------------
(* Proofs of what Blobs promises, for every value of its constants.        *)
EXTENDS Blobs, TLAPS

LEMMA BlobsStart == Init => BlobsInv
<1> QED
  BY BlobsAssumption DEF Init, BlobsInv, Types, RowsFinished, OneWriter, OwnFile, StoredWhole,
     InsertReady, SweepSpares, KeptForThreeDays, GoneIsOver, NoJob, Asleep,
     Stages, Names, FileState, Recorded, InFlight, Sweeping

LEMMA BeginKeeps ==
    ASSUME BlobsInv, NEW i \in Uploads, NEW s \in Contents, Begin(i, s) PROVE BlobsInv'
<1> USE DEF BlobsInv, Begin, Recorded, InFlight, Sweeping, Live, files, client, Storing
<1>1. Types'
  BY DEF Types, Stages, Names, FileState
<1>2. RowsFinished'
  BY DEF RowsFinished, Finished
<1>3. OneWriter'
  BY DEF OneWriter
<1>4. OwnFile'
  BY DEF OwnFile
<1>5. StoredWhole'
  BY DEF StoredWhole
<1>6. InsertReady'
  BY DEF InsertReady
<1>7. SweepSpares'
  BY DEF SweepSpares
<1>8. KeptForThreeDays'
  BY DEF KeptForThreeDays
<1>9. GoneIsOver'
  BY DEF GoneIsOver
<1> QED
  BY <1>1, <1>2, <1>3, <1>4, <1>5, <1>6, <1>7, <1>8, <1>9

LEMMA ProbeKeeps ==
    ASSUME BlobsInv, NEW i \in Uploads, Probe(i) PROVE BlobsInv'
<1> USE DEF BlobsInv, Probe, Recorded, InFlight, Sweeping, Live, files, client
<1>1. Types'
  BY DEF Types, Stages, Names, FileState
<1>2. RowsFinished'
  BY DEF RowsFinished, Finished
<1>3. OneWriter'
  BY DEF OneWriter
<1>4. OwnFile'
  BY DEF OwnFile
<1>6. InsertReady'
  BY DEF InsertReady
<1>10. StoredWhole' /\ SweepSpares' /\ KeptForThreeDays' /\ GoneIsOver'
  BY DEF StoredWhole, SweepSpares, KeptForThreeDays, GoneIsOver
<1> QED
  BY <1>1, <1>2, <1>3, <1>4, <1>6, <1>10

LEMMA CreateKeeps ==
    ASSUME BlobsInv, NEW i \in Uploads, Create(i) PROVE BlobsInv'
<1> USE DEF BlobsInv, Create, Recorded, InFlight, Sweeping, Live, files, client
<1>1. Types'
  <2> USE DEF Types, Stages, Names, FileState
  <2>1. blob' \in [Contents -> FileState] /\ part' \in [Contents -> FileState]
    BY DEF RowsFinished
  <2>2. job' \in [Uploads -> [at : Stages, sha : Contents \cup {"none"}, fd : Names]]
    OBVIOUS
  <2>3. rows' \in [Recorded' -> [sha : Contents, expires : Nat, deleted : BOOLEAN]]
    BY BlobsAssumption DEF RowsFinished
  <2>4. Recorded' \subseteq Uploads /\ told' \subseteq Uploads /\ clock' \in Nat
    OBVIOUS
  <2>5. /\ pass' \in [at : {"asleep", "expired", "mark", "listed", "orphans"},
                     todo : SUBSET Contents, sha : Contents \cup {"none"}]
        /\ fetch' \in [Uploads -> {"none", "row", "bytes"}]
    OBVIOUS
  <2> QED
    BY <2>1, <2>2, <2>3, <2>4, <2>5
<1>2. RowsFinished'
  BY DEF RowsFinished, Finished
<1>3. OneWriter'
  BY DEF OneWriter
<1>4. OwnFile'
  BY DEF OwnFile, OneWriter
<1>6. InsertReady'
  BY DEF InsertReady
<1>10. StoredWhole' /\ SweepSpares' /\ KeptForThreeDays' /\ GoneIsOver'
  BY DEF StoredWhole, SweepSpares, KeptForThreeDays, GoneIsOver
<1> QED
  BY <1>1, <1>2, <1>3, <1>4, <1>6, <1>10

LEMMA WriteKeeps ==
    ASSUME BlobsInv, NEW i \in Uploads, Write(i) PROVE BlobsInv'
<1> USE DEF BlobsInv, Write, Recorded, InFlight, Sweeping, Live, files, client
<1>1. Types'
  <2> USE DEF Types, Stages, Names, FileState
  <2>1. blob' \in [Contents -> FileState] /\ part' \in [Contents -> FileState]
    BY DEF RowsFinished
  <2>2. job' \in [Uploads -> [at : Stages, sha : Contents \cup {"none"}, fd : Names]]
    OBVIOUS
  <2>3. rows' \in [Recorded' -> [sha : Contents, expires : Nat, deleted : BOOLEAN]]
    BY BlobsAssumption DEF RowsFinished
  <2>4. Recorded' \subseteq Uploads /\ told' \subseteq Uploads /\ clock' \in Nat
    OBVIOUS
  <2>5. /\ pass' \in [at : {"asleep", "expired", "mark", "listed", "orphans"},
                     todo : SUBSET Contents, sha : Contents \cup {"none"}]
        /\ fetch' \in [Uploads -> {"none", "row", "bytes"}]
    OBVIOUS
  <2> QED
    BY <2>1, <2>2, <2>3, <2>4, <2>5
<1>2. RowsFinished'
  BY DEF RowsFinished, Finished
<1>3. OneWriter'
  BY DEF OneWriter
<1>4. OwnFile'
  BY DEF OwnFile, Types, RowsFinished
<1>5. StoredWhole'
  BY DEF StoredWhole
<1>6. InsertReady'
  BY DEF InsertReady
<1>8. KeptForThreeDays'
  BY DEF KeptForThreeDays
<1>10. SweepSpares' /\ GoneIsOver'
  BY DEF SweepSpares, GoneIsOver
<1> QED
  BY <1>1, <1>2, <1>3, <1>4, <1>5, <1>6, <1>8, <1>10

LEMMA RenameKeeps ==
    ASSUME BlobsInv, NEW i \in Uploads, Rename(i) PROVE BlobsInv'
<1> USE DEF BlobsInv, Rename, Recorded, InFlight, Sweeping, Live, files, client, Unlinked, Renamed
<1>a. ASSUME NEW j \in Uploads
      PROVE  /\ job'[j] \in [at : Stages, sha : Contents \cup {"none"}, fd : Names]
             /\ job'[j].sha = job[j].sha
             /\ job'[j].at = IF j # i THEN job[j].at
                            ELSE IF part[job[i].sha] = "absent" THEN "failed"
                            ELSE "insert"
             /\ job'[j].fd # job[j].fd => job[j].sha = job[i].sha
  <2> DEFINE Job == [at : Stages, sha : Contents \cup {"none"}, fd : Names]
             s == job[i].sha
  <2>1. job \in [Uploads -> Job] /\ job[j] \in Job /\ job[i] \in Job
    BY DEF Types
  <2>2. CASE part[s] = "absent"
    BY <2>1, <2>2 DEF Stages
  <2>3. CASE part[s] # "absent"
    <3>1. /\ Renamed(j, s) \in Job
          /\ Renamed(j, s).sha = job[j].sha /\ Renamed(j, s).at = job[j].at
          /\ Renamed(j, s).fd # job[j].fd => job[j].sha = s
      BY <2>1 DEF Names
    <3>2. job'[j] = IF j = i THEN [Renamed(i, s) EXCEPT !.at = "insert"]
                             ELSE Renamed(j, s)
      BY <2>3
    <3> QED
      BY <2>3, <3>1, <3>2 DEF Stages
  <2> QED
    BY <2>2, <2>3
<1>b. DOMAIN job' = Uploads /\ job' = [j \in Uploads |-> job'[j]]
  BY DEF Types
<1>1. Types'
  <2> USE DEF Types, Stages, Names, FileState
  <2>1. blob' \in [Contents -> FileState] /\ part' \in [Contents -> FileState]
    BY DEF RowsFinished
  <2>2. job' \in [Uploads -> [at : Stages, sha : Contents \cup {"none"}, fd : Names]]
    BY <1>a, <1>b
  <2>3. rows' \in [Recorded' -> [sha : Contents, expires : Nat, deleted : BOOLEAN]]
    BY BlobsAssumption DEF RowsFinished
  <2>4. Recorded' \subseteq Uploads /\ told' \subseteq Uploads /\ clock' \in Nat
    OBVIOUS
  <2>5. /\ pass' \in [at : {"asleep", "expired", "mark", "listed", "orphans"},
                     todo : SUBSET Contents, sha : Contents \cup {"none"}]
        /\ fetch' \in [Uploads -> {"none", "row", "bytes"}]
    OBVIOUS
  <2> QED
    BY <2>1, <2>2, <2>3, <2>4, <2>5
<1>2. RowsFinished'
  <2>1. \A j \in Recorded : Finished(j)' /\ job'[j].sha = rows'[j].sha
    BY <1>a DEF RowsFinished, Types, Finished
  <2>2. \A j \in Uploads : InFlight(j)' \/ job'[j].at = "done" => job'[j].sha \in Contents
    BY <1>a DEF RowsFinished, Types
  <2>3. \A j \in Uploads : (j \in told \/ fetch[j] # "none") => Finished(j)'
    BY <1>a DEF RowsFinished, Types, Finished
  <2> QED
    BY <2>1, <2>2, <2>3 DEF RowsFinished
<1>3. OneWriter'
  BY <1>a DEF OneWriter, Types
<1>4. OwnFile'
  BY <1>a DEF OwnFile, Types, OneWriter, RowsFinished
<1>5. StoredWhole'
  BY DEF StoredWhole, Types, OwnFile
<1>6. InsertReady'
  BY <1>a DEF InsertReady, Types, RowsFinished
<1>8. KeptForThreeDays'
  BY DEF KeptForThreeDays, Types
<1>10. SweepSpares' /\ GoneIsOver'
  BY DEF SweepSpares, GoneIsOver
<1> QED
  BY <1>1, <1>2, <1>3, <1>4, <1>5, <1>6, <1>8, <1>10

LEMMA InsertKeeps ==
    ASSUME BlobsInv, NEW i \in Uploads, Insert(i) PROVE BlobsInv'
<1> USE DEF BlobsInv, Insert, Recorded, InFlight, Sweeping, Live, files, client
<1>1. Types'
  <2> USE DEF Types, Stages, Names, FileState
  <2>1. blob' \in [Contents -> FileState] /\ part' \in [Contents -> FileState]
    BY DEF RowsFinished
  <2>2. job' \in [Uploads -> [at : Stages, sha : Contents \cup {"none"}, fd : Names]]
    OBVIOUS
  <2>3. rows' \in [Recorded' -> [sha : Contents, expires : Nat, deleted : BOOLEAN]]
    BY BlobsAssumption DEF RowsFinished
  <2>4. Recorded' \subseteq Uploads /\ told' \subseteq Uploads /\ clock' \in Nat
    OBVIOUS
  <2>5. /\ pass' \in [at : {"asleep", "expired", "mark", "listed", "orphans"},
                     todo : SUBSET Contents, sha : Contents \cup {"none"}]
        /\ fetch' \in [Uploads -> {"none", "row", "bytes"}]
    OBVIOUS
  <2> QED
    BY <2>1, <2>2, <2>3, <2>4, <2>5
<1>2. RowsFinished'
  BY DEF RowsFinished, Finished, Types
<1>3. OneWriter'
  BY DEF OneWriter
<1>4. OwnFile'
  BY DEF OwnFile
<1>6. InsertReady'
  BY DEF InsertReady
<1>7. SweepSpares'
  BY DEF SweepSpares, InsertReady
<1>8. KeptForThreeDays'
  BY DEF KeptForThreeDays, InsertReady
<1>9. GoneIsOver'
  BY DEF GoneIsOver, RowsFinished, Finished
<1>10. StoredWhole'
  BY DEF StoredWhole
<1> QED
  BY <1>1, <1>2, <1>3, <1>4, <1>6, <1>7, <1>8, <1>9, <1>10

LEMMA AbandonKeeps ==
    ASSUME BlobsInv, NEW i \in Uploads, Abandon(i) PROVE BlobsInv'
<1> USE DEF BlobsInv, Abandon, Recorded, InFlight, Sweeping, Live, files, client
<1>1. Types'
  BY DEF Types, Stages, Names, FileState
<1>2. RowsFinished'
  BY DEF RowsFinished, Finished
<1>3. OneWriter'
  BY DEF OneWriter
<1>4. OwnFile'
  BY DEF OwnFile
<1>6. InsertReady'
  BY DEF InsertReady
<1>10. StoredWhole' /\ SweepSpares' /\ KeptForThreeDays' /\ GoneIsOver'
  BY DEF StoredWhole, SweepSpares, KeptForThreeDays, GoneIsOver
<1> QED
  BY <1>1, <1>2, <1>3, <1>4, <1>6, <1>10

LEMMA DeleteMessageKeeps ==
    ASSUME BlobsInv, NEW i \in Uploads, DeleteMessage(i) PROVE BlobsInv'
<1> USE DEF BlobsInv, DeleteMessage, Recorded, InFlight, Sweeping, Live, files, client
<1>1. Types'
  BY DEF Types, Stages, Names, FileState
<1>2. RowsFinished'
  BY DEF RowsFinished, Finished
<1>7. SweepSpares'
  BY DEF SweepSpares
<1>8. KeptForThreeDays'
  BY DEF KeptForThreeDays
<1>9. GoneIsOver'
  BY DEF GoneIsOver
<1>10. OneWriter' /\ OwnFile' /\ StoredWhole' /\ InsertReady'
  BY DEF OneWriter, OwnFile, StoredWhole, InsertReady
<1> QED
  BY <1>1, <1>2, <1>7, <1>8, <1>9, <1>10

LEMMA AskKeeps ==
    ASSUME BlobsInv, Ask PROVE BlobsInv'
<1> USE DEF BlobsInv, Ask, Recorded, InFlight, Sweeping, Live, files, client, ExpiredBlobs, RowsOf
<1>1. Types'
  BY DEF Types, Stages, Names, FileState
<1>6. InsertReady'
  BY DEF InsertReady
<1>7. SweepSpares'
  BY DEF SweepSpares, Types
<1>8. KeptForThreeDays'
  BY DEF KeptForThreeDays
<1>9. GoneIsOver'
  BY DEF GoneIsOver
<1>10. RowsFinished' /\ OneWriter' /\ OwnFile' /\ StoredWhole'
  BY DEF RowsFinished, OneWriter, OwnFile, StoredWhole, Finished
<1> QED
  BY <1>1, <1>6, <1>7, <1>8, <1>9, <1>10

LEMMA RemoveExpiredKeeps ==
    ASSUME BlobsInv, NEW s \in Contents, RemoveExpired(s) PROVE BlobsInv'
<1> USE DEF BlobsInv, RemoveExpired, Recorded, InFlight, Sweeping, Live, files, client, Removed, Unlinked
<1>1. Types'
  <2> USE DEF Types, Stages, Names, FileState
  <2>1. blob' \in [Contents -> FileState] /\ part' \in [Contents -> FileState]
    BY DEF RowsFinished
  <2>2. job' \in [Uploads -> [at : Stages, sha : Contents \cup {"none"}, fd : Names]]
    OBVIOUS
  <2>3. rows' \in [Recorded' -> [sha : Contents, expires : Nat, deleted : BOOLEAN]]
    BY BlobsAssumption DEF RowsFinished
  <2>4. Recorded' \subseteq Uploads /\ told' \subseteq Uploads /\ clock' \in Nat
    OBVIOUS
  <2>5. /\ pass' \in [at : {"asleep", "expired", "mark", "listed", "orphans"},
                     todo : SUBSET Contents, sha : Contents \cup {"none"}]
        /\ fetch' \in [Uploads -> {"none", "row", "bytes"}]
    OBVIOUS
  <2> QED
    BY <2>1, <2>2, <2>3, <2>4, <2>5
<1>2. RowsFinished'
  BY DEF RowsFinished, Finished, Types
<1>3. OneWriter'
  BY DEF OneWriter
<1>4. OwnFile'
  BY DEF OwnFile
<1>5. StoredWhole'
  BY DEF StoredWhole
<1>6. InsertReady'
  BY DEF InsertReady
<1>7. SweepSpares'
  BY DEF SweepSpares
<1>8. KeptForThreeDays'
  BY DEF KeptForThreeDays, SweepSpares
<1>10. GoneIsOver'
  BY DEF GoneIsOver
<1> QED
  BY <1>1, <1>2, <1>3, <1>4, <1>5, <1>6, <1>7, <1>8, <1>10

LEMMA MarkDeletedKeeps ==
    ASSUME BlobsInv, MarkDeleted PROVE BlobsInv'
<1> USE DEF BlobsInv, MarkDeleted, Recorded, InFlight, Sweeping, Live, files, client
<1>1. Types'
  <2> USE DEF Types, Stages, Names, FileState
  <2>1. blob' \in [Contents -> FileState] /\ part' \in [Contents -> FileState]
    BY DEF RowsFinished
  <2>2. job' \in [Uploads -> [at : Stages, sha : Contents \cup {"none"}, fd : Names]]
    OBVIOUS
  <2>3. rows' \in [Recorded' -> [sha : Contents, expires : Nat, deleted : BOOLEAN]]
    <3>. DEFINE marked(i) == IF rows[i].sha = pass.sha
                             THEN [rows[i] EXCEPT !.deleted = TRUE] ELSE rows[i]
    <3>1. rows' = [i \in DOMAIN rows |-> marked(i)]
      OBVIOUS
    <3>2. ASSUME NEW i \in DOMAIN rows
          PROVE  marked(i) \in [sha : Contents, expires : Nat, deleted : BOOLEAN]
      <4>1. rows[i] \in [sha : Contents, expires : Nat, deleted : BOOLEAN]
        OBVIOUS
      <4> HIDE DEF BlobsInv, MarkDeleted, Types
      <4> QED
        BY <4>1
    <3>. HIDE DEF marked
    <3>3. DOMAIN rows' = DOMAIN rows
      BY <3>1
    <3>. HIDE DEF BlobsInv, MarkDeleted, Types
    <3> QED
      BY <3>1, <3>2, <3>3
  <2>4. Recorded' \subseteq Uploads /\ told' \subseteq Uploads /\ clock' \in Nat
    OBVIOUS
  <2>5. /\ pass' \in [at : {"asleep", "expired", "mark", "listed", "orphans"},
                     todo : SUBSET Contents, sha : Contents \cup {"none"}]
        /\ fetch' \in [Uploads -> {"none", "row", "bytes"}]
    OBVIOUS
  <2> QED
    BY <2>1, <2>2, <2>3, <2>4, <2>5
<1>2. RowsFinished'
  BY DEF RowsFinished, Finished
<1>6. InsertReady'
  BY DEF InsertReady
<1>7. SweepSpares'
  BY DEF SweepSpares
<1>8. KeptForThreeDays'
  BY DEF KeptForThreeDays, SweepSpares
<1>9. GoneIsOver'
  BY DEF GoneIsOver
<1>10. OneWriter' /\ OwnFile' /\ StoredWhole'
  BY DEF OneWriter, OwnFile, StoredWhole
<1> QED
  BY <1>1, <1>2, <1>6, <1>7, <1>8, <1>9, <1>10

LEMMA ListKeeps ==
    ASSUME BlobsInv, List PROVE BlobsInv'
<1> USE DEF BlobsInv, List, Recorded, InFlight, Sweeping, Live, files, client
<1>1. Types'
  BY DEF Types, Stages, Names, FileState
<1>6. InsertReady'
  BY DEF InsertReady
<1>7. SweepSpares'
  BY DEF SweepSpares
<1>10. RowsFinished' /\ OneWriter' /\ OwnFile' /\ StoredWhole' /\ KeptForThreeDays' /\ GoneIsOver'
  BY DEF RowsFinished, OneWriter, OwnFile, StoredWhole, KeptForThreeDays, GoneIsOver, Finished
<1> QED
  BY <1>1, <1>6, <1>7, <1>10

LEMMA AskOrphansKeeps ==
    ASSUME BlobsInv, AskOrphans PROVE BlobsInv'
<1> USE DEF BlobsInv, AskOrphans, Recorded, InFlight, Sweeping, Live, files, client, OrphanedBlobs, RowsOf
<1>1. Types'
  BY DEF Types, Stages, Names, FileState
<1>6. InsertReady'
  BY DEF InsertReady
<1>7. SweepSpares'
  BY DEF SweepSpares
<1>10. RowsFinished' /\ OneWriter' /\ OwnFile' /\ StoredWhole' /\ KeptForThreeDays' /\ GoneIsOver'
  BY DEF RowsFinished, OneWriter, OwnFile, StoredWhole, KeptForThreeDays, GoneIsOver, Finished
<1> QED
  BY <1>1, <1>6, <1>7, <1>10

LEMMA RemoveOrphanKeeps ==
    ASSUME BlobsInv, NEW s \in Contents, RemoveOrphan(s) PROVE BlobsInv'
<1> USE DEF BlobsInv, RemoveOrphan, Recorded, InFlight, Sweeping, Live, files, client, Removed, Unlinked
<1>1. Types'
  BY DEF Types, Stages, Names, FileState
<1>2. RowsFinished'
  BY DEF RowsFinished, Finished, Types
<1>3. OneWriter'
  BY DEF OneWriter
<1>4. OwnFile'
  BY DEF OwnFile
<1>5. StoredWhole'
  BY DEF StoredWhole
<1>6. InsertReady'
  BY DEF InsertReady
<1>7. SweepSpares'
  BY DEF SweepSpares
<1>8. KeptForThreeDays'
  BY DEF KeptForThreeDays, SweepSpares
<1>10. GoneIsOver'
  BY DEF GoneIsOver
<1> QED
  BY <1>1, <1>2, <1>3, <1>4, <1>5, <1>6, <1>7, <1>8, <1>10

LEMMA RemoveFailsKeeps ==
    ASSUME BlobsInv, NEW s \in Contents, RemoveFails(s) PROVE BlobsInv'
<1> USE DEF BlobsInv, RemoveFails, Recorded, InFlight, Sweeping, Live, files, client
<1>1. Types'
  BY DEF Types, Stages, Names, FileState
<1>6. InsertReady'
  BY DEF InsertReady
<1>7. SweepSpares'
  BY DEF SweepSpares
<1>10. RowsFinished' /\ OneWriter' /\ OwnFile' /\ StoredWhole' /\ KeptForThreeDays' /\ GoneIsOver'
  BY DEF RowsFinished, OneWriter, OwnFile, StoredWhole, KeptForThreeDays, GoneIsOver, Finished
<1> QED
  BY <1>1, <1>6, <1>7, <1>10

LEMMA SleepKeeps ==
    ASSUME BlobsInv, Sleep PROVE BlobsInv'
<1> USE DEF BlobsInv, Sleep, Recorded, InFlight, Sweeping, Live, files, client, Asleep
<1>1. Types'
  BY DEF Types, Stages, Names, FileState
<1>6. InsertReady'
  BY DEF InsertReady
<1>7. SweepSpares'
  BY DEF SweepSpares
<1>10. RowsFinished' /\ OneWriter' /\ OwnFile' /\ StoredWhole' /\ KeptForThreeDays' /\ GoneIsOver'
  BY DEF RowsFinished, OneWriter, OwnFile, StoredWhole, KeptForThreeDays, GoneIsOver, Finished
<1> QED
  BY <1>1, <1>6, <1>7, <1>10

LEMMA WantKeeps ==
    ASSUME BlobsInv, NEW i \in Uploads, Want(i) PROVE BlobsInv'
<1> USE DEF BlobsInv, Want, Recorded, InFlight, Sweeping, Live, files, client
<1>1. Types'
  BY DEF Types, Stages, Names, FileState
<1>2. RowsFinished'
  <2>1. \A j \in Uploads : j # i => fetch'[j] = fetch[j]
    BY DEF Types
  <2>2. Finished(i)
    BY DEF Types, RowsFinished, Finished
  <2> QED
    BY <2>1, <2>2 DEF RowsFinished, Types, Finished
<1>10. OneWriter' /\ OwnFile' /\ StoredWhole' /\ InsertReady' /\ SweepSpares' /\ KeptForThreeDays' /\ GoneIsOver'
  BY DEF OneWriter, OwnFile, StoredWhole, InsertReady, SweepSpares, KeptForThreeDays, GoneIsOver
<1> QED
  BY <1>1, <1>2, <1>10

LEMMA LookupKeeps ==
    ASSUME BlobsInv, NEW i \in Uploads, Lookup(i) PROVE BlobsInv'
<1> USE DEF BlobsInv, Lookup, Recorded, InFlight, Sweeping, Live, files, client, Gone
<1>1. Types'
  BY DEF Types, Stages, Names, FileState
<1>2. RowsFinished'
  BY DEF RowsFinished, Finished
<1>9. GoneIsOver'
  BY DEF GoneIsOver, KeptForThreeDays
<1>10. OneWriter' /\ OwnFile' /\ StoredWhole' /\ InsertReady' /\ SweepSpares' /\ KeptForThreeDays'
  BY DEF OneWriter, OwnFile, StoredWhole, InsertReady, SweepSpares, KeptForThreeDays
<1> QED
  BY <1>1, <1>2, <1>9, <1>10

LEMMA FetchKeeps ==
    ASSUME BlobsInv, NEW i \in Uploads, Fetch(i) PROVE BlobsInv'
<1> USE DEF BlobsInv, Fetch, Recorded, InFlight, Sweeping, Live, files, client, Gone
<1>a. /\ told' \subseteq told \cup {i}
      /\ told' # told => blob[job[i].sha] = "absent"
  <2>1. blob[job[i].sha] \in FileState
    BY DEF Types, RowsFinished, Finished
  <2> QED
    BY <2>1 DEF FileState
<1>b. Finished(i)
  BY DEF RowsFinished
<1>c. \A j \in Uploads : j # i => fetch'[j] = fetch[j]
  BY DEF Types
<1>1. Types'
  <2> USE DEF Types, Stages, Names, FileState
  <2>1. blob' \in [Contents -> FileState] /\ part' \in [Contents -> FileState]
    BY DEF RowsFinished
  <2>2. job' \in [Uploads -> [at : Stages, sha : Contents \cup {"none"}, fd : Names]]
    OBVIOUS
  <2>3. rows' \in [Recorded' -> [sha : Contents, expires : Nat, deleted : BOOLEAN]]
    BY BlobsAssumption DEF RowsFinished
  <2>4. Recorded' \subseteq Uploads /\ told' \subseteq Uploads /\ clock' \in Nat
    BY <1>a
  <2>5. /\ pass' \in [at : {"asleep", "expired", "mark", "listed", "orphans"},
                     todo : SUBSET Contents, sha : Contents \cup {"none"}]
        /\ fetch' \in [Uploads -> {"none", "row", "bytes"}]
    OBVIOUS
  <2> QED
    BY <2>1, <2>2, <2>3, <2>4, <2>5
<1>2. RowsFinished'
  BY <1>a, <1>b, <1>c DEF RowsFinished, Types, Finished
<1>9. GoneIsOver'
  BY <1>a, <1>b DEF GoneIsOver, Types, KeptForThreeDays, RowsFinished, Finished
<1>10. OneWriter' /\ OwnFile' /\ StoredWhole' /\ InsertReady' /\ SweepSpares' /\ KeptForThreeDays'
  BY DEF OneWriter, OwnFile, StoredWhole, InsertReady, SweepSpares, KeptForThreeDays
<1> QED
  BY <1>1, <1>2, <1>9, <1>10

LEMMA TickKeeps ==
    ASSUME BlobsInv, Tick PROVE BlobsInv'
<1> USE DEF BlobsInv, Tick, Recorded, InFlight, Sweeping, Live, files, client
<1>1. Types'
  BY DEF Types, Stages, Names, FileState
<1>7. SweepSpares'
  BY DEF SweepSpares, Types
<1>8. KeptForThreeDays'
  BY DEF KeptForThreeDays, Types
<1>9. GoneIsOver'
  BY DEF GoneIsOver, Types
<1>10. RowsFinished' /\ OneWriter' /\ OwnFile' /\ StoredWhole' /\ InsertReady'
  BY DEF RowsFinished, OneWriter, OwnFile, StoredWhole, InsertReady, Finished
<1> QED
  BY <1>1, <1>7, <1>8, <1>9, <1>10

LEMMA CrashKeeps ==
    ASSUME BlobsInv, Crash PROVE BlobsInv'
<1> USE DEF BlobsInv, Crash, Recorded, InFlight, Sweeping, Live, files, client, Asleep
<1>a. ASSUME NEW j \in Uploads
      PROVE  /\ job'[j] \in [at : Stages, sha : Contents \cup {"none"}, fd : Names]
             /\ job'[j].sha = job[j].sha
             /\ job'[j].at = IF InFlight(j) THEN "failed" ELSE job[j].at
             /\ job'[j].at \notin {"probe", "create", "write", "rename", "insert"}
  <2>1. job[j] \in [at : Stages, sha : Contents \cup {"none"}, fd : Names]
    BY DEF Types
  <2>2. CASE InFlight(j)
    <3>1. job'[j] = [at |-> "failed", sha |-> job[j].sha, fd |-> "none"]
      BY <2>1, <2>2
    <3> QED
      BY <2>1, <2>2, <3>1 DEF Stages, Names
  <2>3. CASE ~InFlight(j)
    BY <2>1, <2>3
  <2> QED
    BY <2>2, <2>3
<1>b. job' = [j \in Uploads |-> job'[j]]
  OBVIOUS
<1>1. Types'
  <2> USE DEF Types, Stages, Names, FileState
  <2>1. blob' \in [Contents -> FileState] /\ part' \in [Contents -> FileState]
    BY DEF RowsFinished
  <2>2. job' \in [Uploads -> [at : Stages, sha : Contents \cup {"none"}, fd : Names]]
    BY <1>a, <1>b
  <2>3. rows' \in [Recorded' -> [sha : Contents, expires : Nat, deleted : BOOLEAN]]
    BY BlobsAssumption DEF RowsFinished
  <2>4. Recorded' \subseteq Uploads /\ told' \subseteq Uploads /\ clock' \in Nat
    OBVIOUS
  <2>5. /\ pass' \in [at : {"asleep", "expired", "mark", "listed", "orphans"},
                     todo : SUBSET Contents, sha : Contents \cup {"none"}]
        /\ fetch' \in [Uploads -> {"none", "row", "bytes"}]
    OBVIOUS
  <2> QED
    BY <2>1, <2>2, <2>3, <2>4, <2>5
<1>2. RowsFinished'
  BY <1>a DEF RowsFinished, Types, Finished
<1>3. OneWriter'
  BY <1>a DEF OneWriter, Types
<1>4. OwnFile'
  BY <1>a DEF OwnFile, Types, OneWriter, RowsFinished
<1>6. InsertReady'
  BY <1>a DEF InsertReady, Types, RowsFinished
<1>7. SweepSpares'
  BY DEF SweepSpares
<1>10. StoredWhole' /\ KeptForThreeDays' /\ GoneIsOver'
  BY DEF StoredWhole, KeptForThreeDays, GoneIsOver
<1> QED
  BY <1>1, <1>2, <1>3, <1>4, <1>6, <1>7, <1>10

LEMMA BlobsStep == ASSUME BlobsInv, [Next]_vars PROVE BlobsInv'
<1>1. CASE UNCHANGED vars
  BY <1>1 DEF vars, BlobsInv, Types, RowsFinished, OneWriter, OwnFile, StoredWhole,
     InsertReady, SweepSpares, KeptForThreeDays, GoneIsOver, Recorded, InFlight,
     Sweeping, Live, Finished
<1>2. ASSUME NEW i \in Uploads, Upload(i) PROVE BlobsInv'
  BY <1>2, BeginKeeps, ProbeKeeps, CreateKeeps, WriteKeeps, RenameKeeps,
     InsertKeeps, AbandonKeeps DEF Upload
<1>3. ASSUME Sweep PROVE BlobsInv'
  BY <1>3, AskKeeps, MarkDeletedKeeps, ListKeeps, AskOrphansKeeps, SleepKeeps,
     RemoveExpiredKeeps, RemoveOrphanKeeps DEF Sweep
<1>4. ASSUME NEW i \in Shown, Want(i) \/ Lookup(i) \/ Fetch(i) PROVE BlobsInv'
  <2>1. i \in Uploads
    BY BlobsAssumption
  <2> QED
    BY <1>4, <2>1, WantKeeps, LookupKeeps, FetchKeeps
<1> QED
  BY <1>1, <1>2, <1>3, <1>4, DeleteMessageKeeps, RemoveFailsKeeps, TickKeeps,
     CrashKeeps DEF Next

THEOREM BlobsInvariant == Spec => []BlobsInv
<1> QED
  BY BlobsStart, BlobsStep, PTL DEF Spec

(* The bytes and the row of an attachment are left alone for three days,   *)
(* through crashes, failed deletions and shared files (db.rs:538-547).     *)
THEOREM BlobsKeptForThreeDays == Spec => []KeptForThreeDays
<1>1. BlobsInv => KeptForThreeDays
  BY DEF BlobsInv
<1> QED
  BY <1>1, BlobsInvariant, PTL

(* A file is never seen half written under its final name, as long as no   *)
(* two uploads store the same content at once (blobs.rs:74-85).            *)
THEOREM BlobsStoredWhole == Spec => []StoredWhole
<1>1. BlobsInv => StoredWhole
  BY DEF BlobsInv
<1> QED
  BY <1>1, BlobsInvariant, PTL

(* "Gone" means that the three days are over (http.rs:369-381).            *)
THEOREM BlobsGoneIsOver == Spec => []GoneIsOver
<1>1. BlobsInv => GoneIsOver
  BY DEF BlobsInv
<1> QED
  BY <1>1, BlobsInvariant, PTL

============================================================================

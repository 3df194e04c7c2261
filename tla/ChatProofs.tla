----------------------------- MODULE ChatProofs -----------------------------
(***************************************************************************)
(* The logs of a channel and its table agree, for any number of clients,   *)
(* messages and pages, whatever handlers cross each other and whoever      *)
(* comes and goes; and a log that waits for a page is owed one.            *)
(*                                                                         *)
(* ChatInv is inductive.  LogInv follows a message from the table to the   *)
(* logs: what a handler is about to say is so (HandlersRight), the last    *)
(* word on its way about a message is so (WordsRight), and so is the log   *)
(* where nothing is on its way (LogRight).  That nothing is missing takes  *)
(* what pages reach (PagesCover) and what follows a newest message         *)
(* (NewestLast).  A message whose words crossed is in raced, one a client  *)
(* missed something about in its stale: the invariant says nothing of them.*)
(***************************************************************************)
EXTENDS Chat, FiniteSetTheorems, WellFoundedInduction, TLAPS

(* A set of numbers that is not empty has a least one.                     *)
LEMMA LeastOf ==
    ASSUME NEW S \in SUBSET Nat, S # {}
    PROVE  Min(S) \in S /\ \A m \in S : Min(S) <= m
<1>1. PICK n \in S : \A m \in S : ~(<<m, n>> \in OpToRel(<, Nat))
  BY WFMin, NatLessThanWellFounded
<1>2. ASSUME NEW m \in S PROVE n <= m
  <2>1. <<m, n>> \in Nat \X Nat /\ <<m, n>>[1] = m /\ <<m, n>>[2] = n
    OBVIOUS
  <2>2. ASSUME m < n PROVE <<m, n>> \in OpToRel(<, Nat)
    BY <2>1, <2>2, Zenon DEF OpToRel
  <2>3. ~(m < n)
    BY <1>1, <2>2, Zenon
  <2> QED
    BY <2>3
<1>3. \A m \in S : n <= m
  BY <1>2
<1> QED
  BY <1>3 DEF Min

(* The rest of a sequence.                                                 *)
LEMMA Rest ==
    ASSUME NEW S, NEW s \in Seq(S), s # <<>>
    PROVE  /\ Tail(s) \in Seq(S) /\ Head(s) \in S /\ Head(s) = s[1]
           /\ \A n \in DOMAIN Tail(s) : n + 1 \in DOMAIN s /\ Tail(s)[n] = s[n + 1]
           /\ \A n \in DOMAIN s : n # 1 => n - 1 \in DOMAIN Tail(s)
                                           /\ Tail(s)[n - 1] = s[n]
<1> QED
  OBVIOUS

-----------------------------------------------------------------------------
(* Types and the invariant.                                                *)

Nonces == (Clients \X Nat) \cup {NoNonce}
Authors == {AccountOf[c] : c \in Clients} \cup {Before[i] : i \in DOMAIN Before}
TableRows == [author : Authors, text : Nat, nonce : Nonces]
Logs == UNION {[S -> Nat] : S \in SUBSET Ids}

Requests ==
    [op : {"history"}, before : 1 .. Top]
      \cup [op : {"send"}, nonce : Clients \X Nat, text : Nat, fine : BOOLEAN]
      \cup [op : {"edit"}, id : Ids, text : Nat]
      \cup [op : {"delete"}, id : Ids]

\* A page that does not reach the beginning is not empty.
Pages == {p \in [kind : {"page"}, before : 1 .. Top, rows : Logs, complete : BOOLEAN] :
             p.complete \/ DOMAIN p.rows # {}}
Changes == [kind : {"update"}, id : Ids, text : Nat] \cup [kind : {"delete"}, id : Ids]
Said == [kind : {"idle", "error"}] \cup Pages \cup Changes
          \cup [kind : {"create"}, id : Ids, text : Nat, nonce : Nonces]
Frames == [kind : {"error"}] \cup Pages \cup Changes
          \cup [kind : {"create"}, id : Ids, text : Nat, nonce : Nonces, newest : BOOLEAN]

ChatTyped ==
    /\ DOMAIN messages \subseteq Ids /\ messages \in [DOMAIN messages -> TableRows]
    /\ link \in [Clients -> BOOLEAN]
    /\ up \in [Clients -> Seq(Requests)] /\ down \in [Clients -> Seq(Frames)]
    /\ handling \in [Clients -> Said]
    /\ log \in [Clients -> Logs]
    /\ {visited, loading, complete, torn, lost} \subseteq [Clients -> BOOLEAN]
    /\ pending \in [Clients -> SUBSET (Clients \X Nat)]
    /\ spent \in [Things -> Nat]
    /\ floor \in [Clients -> 0 .. Top]
    /\ stale \in [Clients -> SUBSET Ids]
    /\ \A c \in Clients : ~link[c] => up[c] = <<>> /\ down[c] = <<>>

\* The frame f tells of a change of the message i.
About(f, i) == f.kind \in {"create", "update", "delete"} /\ f.id = i

\* Nobody has yet to tell of a change of it.
Settled(i) == \A d \in Clients : ~About(handling[d], i)

\* After the first n frames on their way to c there is one about it.
Later(c, n, i) == \E m \in DOMAIN down[c] : m > n /\ About(down[c][m], i)

Shows(i, text) == i \in DOMAIN messages /\ messages[i].text = text

\* What the frame f says of i is so.
Right(f, i) ==
    /\ f.kind \in {"create", "update"} /\ f.id = i => Shows(i, f.text)
    /\ f.kind = "delete" /\ f.id = i => i \notin DOMAIN messages
    /\ f.kind = "page" => (i \in DOMAIN f.rows => Shows(i, f.rows[i]))

HandlersRight == \A d \in Clients : \A i \in Ids \ raced : Right(handling[d], i)

\* The last word on a message is right, once everybody has spoken.
WordsRight ==
    \A c \in Clients : \A i \in Ids \ raced : Settled(i) =>
        \A n \in DOMAIN down[c] : Later(c, n, i) \/ Right(down[c][n], i)

LogRight ==
    \A c \in Clients : \A i \in Ids \ (raced \cup stale[c]) : Settled(i) /\ ~Later(c, 0, i) =>
        /\ i \in DOMAIN log[c] => Shows(i, log[c][i])
        /\ i >= floor[c] /\ i \in DOMAIN messages => i \in DOMAIN log[c]

\* What is newer than a message that was the newest is yet to be told of.
NewestLast ==
    \A c \in Clients : \A n \in DOMAIN down[c] :
        down[c][n].kind = "create" => (down[c][n].newest =>
            \A j \in DOMAIN messages : j > down[c][n].id => ~Settled(j) \/ Later(c, n, j))

Reached(f) == IF f.complete THEN 0 ELSE Min(DOMAIN f.rows)

\* What the page f does not have, though it lies in its reach, c has or will.
Covered(c, f) ==
    \A j \in DOMAIN messages \ raced :
        Reached(f) <= j /\ j < f.before /\ j \notin DOMAIN f.rows =>
            ~Settled(j) \/ Later(c, 0, j) \/ j \in DOMAIN log[c]

PagesCover ==
    \A c \in Clients :
        /\ link[c] /\ handling[c].kind = "page" => Covered(c, handling[c])
        /\ \A n \in DOMAIN down[c] : down[c][n].kind = "page" => Covered(c, down[c][n])

\* Unless something tore it, the log begins with its whole part, and no page
\* was asked for from below that.
LogWhole ==
    \A c \in Clients : ~torn[c] =>
        /\ \A i \in DOMAIN log[c] : i >= floor[c]
        /\ \A n \in DOMAIN up[c] : up[c][n].op = "history" => up[c][n].before >= floor[c]
        /\ link[c] /\ handling[c].kind = "page" => handling[c].before >= floor[c]
        /\ \A n \in DOMAIN down[c] : down[c][n].kind = "page" => down[c][n].before >= floor[c]
        /\ complete[c] => floor[c] = 0

\* A page nobody is going to answer was lost with the connection.
PagesLost == \A c \in Clients : loading[c] => link[c] \/ lost[c]

LogInv == HandlersRight /\ WordsRight /\ LogRight /\ NewestLast /\ PagesCover
ChatInv == ChatTyped /\ LogInv /\ LogWhole /\ OncePosted /\ PagesLost /\ PageOwed

(* A set of message ids that is not empty has a greatest one.              *)
LEMMA GreatestOf ==
    ASSUME NEW S \in SUBSET Ids, S # {}
    PROVE  Max(S) \in S /\ \A m \in S : m <= Max(S)
<1> DEFINE T == {Top - i : i \in S}
<1>1. MaxId \in Nat
  BY ChatAssumption
<1>2. T \in SUBSET Nat /\ T # {}
  BY <1>1 DEF Ids, Top
<1>3. Min(T) \in T /\ \A m \in T : Min(T) <= m
  <2> HIDE DEF T
  <2> QED
    BY <1>2, LeastOf
<1>4. PICK i \in S : Min(T) = Top - i
  BY <1>3
<1>5. \A m \in S : m <= i
  <2> TAKE m \in S
  <2>1. Min(T) <= Top - m
    BY <1>3
  <2> QED
    BY <2>1, <1>1, <1>4 DEF Ids, Top
<1> QED
  BY <1>1, <1>5 DEF Max, Ids

(* What is shown is some text for some messages.                           *)
LEMMA LogsAre ==
    ASSUME NEW f
    PROVE  f \in Logs <=> DOMAIN f \subseteq Ids /\ f \in [DOMAIN f -> Nat]
<1> QED
  BY DEF Logs

(* A page has the newest messages from below where it was asked for, with  *)
(* no gap, and says rightly whether there are more.                        *)
LEMMA PageHasAll ==
    ASSUME ChatTyped, NEW b \in 1 .. Top, NEW p, p = HistoryPage(b, Limit)
    PROVE  /\ p \in Pages /\ p.kind = "page" /\ p.before = b
           /\ \A i \in DOMAIN p.rows : Shows(i, p.rows[i])
           /\ \A j \in DOMAIN messages : Reached(p) <= j /\ j < b => j \in DOMAIN p.rows
<1> DEFINE older == {i \in DOMAIN messages : i < b}
           above(i) == {j \in older : j > i}
           rows == {i \in older : Cardinality(above(i)) < Limit}
<1>1. MaxId \in Nat /\ Limit \in Nat \ {0}
  BY ChatAssumption
<1>2. older \in SUBSET Ids /\ rows \in SUBSET Ids /\ rows \in SUBSET Nat
  BY <1>1 DEF ChatTyped, Ids
<1>3. IsFiniteSet(older) /\ Cardinality(older) \in Nat
  <2>1. IsFiniteSet(Ids)
    BY <1>1, FS_Interval DEF Ids
  <2> QED
    BY <1>2, <2>1, FS_Subset, FS_CardinalityType, Zenon
<1>4. ASSUME NEW i \in older
      PROVE  IsFiniteSet(above(i)) /\ Cardinality(above(i)) \in Nat /\ Cardinality(above(i)) < Cardinality(older)
  <2>1. above(i) \in SUBSET older
    OBVIOUS
  <2>2. IsFiniteSet(above(i)) /\ Cardinality(above(i)) <= Cardinality(older)
        /\ (Cardinality(older) = Cardinality(above(i)) => older = above(i))
    BY <1>3, <2>1, FS_Subset, Zenon
  <2>3. i \notin above(i)
    BY <1>1, <1>2 DEF Ids
  <2>4. Cardinality(above(i)) \in Nat
    BY <2>2, FS_CardinalityType, Zenon
  <2>5. older # above(i)
    BY <2>3
  <2> HIDE DEF older, above
  <2> QED
    BY <1>3, <2>2, <2>4, <2>5
<1>5. p = [kind |-> "page", before |-> b, rows |-> Texts(rows), complete |-> Cardinality(older) <= Limit]
  BY DEF HistoryPage
<1>6. /\ p.kind = "page" /\ p.before = b /\ p.rows = Texts(rows)
      /\ p.complete = (Cardinality(older) <= Limit)
  <2> HIDE DEF older, rows
  <2> QED
    BY <1>5
<1>7. DOMAIN p.rows = rows /\ p.rows \in [rows -> Nat] /\ \A i \in rows : p.rows[i] = messages[i].text
  <2>1. rows \subseteq DOMAIN messages
    OBVIOUS
  <2>2. \A i \in DOMAIN messages : messages[i].text \in Nat
    BY DEF ChatTyped, TableRows
  <2> HIDE DEF rows
  <2> QED
    BY <1>6, <2>1, <2>2 DEF Texts
<1>8. p.complete => rows = older
  <2>1. ASSUME p.complete, NEW i \in older PROVE i \in rows
    <3>1. Cardinality(older) <= Limit
      BY <1>6, <2>1
    <3>2. Cardinality(above(i)) < Limit
      <4> HIDE DEF older, above
      <4> QED
        BY <1>1, <1>3, <1>4, <3>1
    <3> QED
      BY <3>2
  <2> QED
    BY <2>1
<1>9. ~p.complete => rows # {}
  <2>1. ASSUME ~p.complete PROVE older # {}
    <3>1. ~(Cardinality(older) <= Limit)
      BY <1>6, <2>1
    <3>2. Cardinality({}) = 0
      BY FS_EmptySet
    <3> HIDE DEF older
    <3> QED
      BY <1>1, <3>1, <3>2
  <2>2. ASSUME older # {} PROVE Max(older) \in rows
    <3>1. Max(older) \in older /\ \A m \in older : m <= Max(older)
      <4> HIDE DEF older
      <4> QED
        BY <1>2, <2>2, GreatestOf
    <3>2. above(Max(older)) = {}
      BY <1>1, <1>2, <3>1 DEF Ids
    <3>3. Cardinality(above(Max(older))) = 0
      BY <3>2, FS_EmptySet, Zenon
    <3>4. Cardinality(above(Max(older))) < Limit
      <4> HIDE DEF above, older
      <4> QED
        BY <1>1, <3>3
    <3> QED
      BY <3>1, <3>4
  <2> QED
    BY <2>1, <2>2
<1>10. \A i \in rows, j \in older : j > i => j \in rows
  <2> SUFFICES ASSUME NEW i \in rows, NEW j \in older, j > i PROVE j \in rows
    OBVIOUS
  <2>1. i \in older /\ Cardinality(above(i)) < Limit
    OBVIOUS
  <2>2. above(j) \in SUBSET above(i)
    BY <1>1, <1>2 DEF Ids
  <2>3. Cardinality(above(j)) <= Cardinality(above(i))
    <3> HIDE DEF above, older, rows
    <3> QED
      BY <1>4, <2>1, <2>2, FS_Subset
  <2>4. Cardinality(above(j)) < Limit
    <3> HIDE DEF above, older, rows
    <3> QED
      BY <1>1, <1>4, <2>1, <2>3
  <2> QED
    BY <2>4
<1>11. \A j \in DOMAIN messages : Reached(p) <= j /\ j < b => j \in DOMAIN p.rows
  <2> SUFFICES ASSUME NEW j \in older, Reached(p) <= j PROVE j \in rows
    BY <1>7
  <2>1. CASE p.complete
    BY <1>8, <2>1
  <2>2. CASE ~p.complete
    <3>1. Reached(p) = Min(rows)
      BY <1>7, <2>2 DEF Reached
    <3>2. Min(rows) \in rows
      <4> HIDE DEF rows
      <4> QED
        BY <1>2, <1>9, <2>2, LeastOf
    <3>3. j = Min(rows) \/ j > Min(rows)
      <4>1. j \in Int /\ Min(rows) \in Int /\ Min(rows) <= j
        BY <1>1, <1>2, <3>1, <3>2 DEF Ids
      <4> HIDE DEF rows
      <4> QED
        BY <4>1
    <3> QED
      BY <1>10, <3>2, <3>3
  <2> QED
    BY <2>1, <2>2
<1>12. p.rows \in Logs
  BY <1>2, <1>7 DEF Logs
<1>13. p \in Pages
  <2>1. p.complete \in BOOLEAN
    BY <1>6
  <2>2. p \in [kind : {"page"}, before : 1 .. Top, rows : Logs, complete : BOOLEAN]
    <3> HIDE DEF older, rows
    <3> QED
      BY <1>5, <1>6, <1>12, <2>1
  <2> QED
    BY <1>7, <1>9, <2>2 DEF Pages
<1> QED
  BY <1>2, <1>6, <1>7, <1>11, <1>13 DEF Shows

-----------------------------------------------------------------------------
(* Asking.                                                                 *)

(* A text nobody wrote before is a text, and what was done is counted.     *)
LEMMA Spending ==
    ASSUME ChatTyped, NEW t \in Things, Spend(t)
    PROVE  spent' \in [Things -> Nat]
<1> QED
  BY DEF Spend, ChatTyped

(* The text of a new message is a text.                                    *)
LEMMA NewTexts == ASSUME ChatTyped PROVE NewText \in Nat
<1>1. Len(Before) \in Nat
  BY ChatAssumption
<1>2. spent["send"] \in Nat /\ spent["resend"] \in Nat /\ spent["edit"] \in Nat
  BY DEF ChatTyped, Things
<1> QED
  BY <1>1, <1>2 DEF NewText

\* c asks for something, and nothing the log or the table is made of changes.
Asks(c, f) ==
    /\ f \in Requests /\ Ask(c, f)
    /\ f.op = "history" => \/ f.before = Top
                           \/ DOMAIN log[c] # {} /\ f.before = Min(DOMAIN log[c])
    /\ UNCHANGED <<messages, handling, raced, log, complete, floor, torn, link, down, stale>>

Asking(c) ==
    \/ SendComposer(c) \/ Resend(c) \/ AskEdit(c) \/ AskDelete(c)
    \/ EnsureHistory(c) \/ LoadOlder(c)

(* What a person does makes a frame.                                       *)
LEMMA AskingAsks ==
    ASSUME ChatTyped, NEW c \in Clients, Asking(c)
    PROVE  \E f : Asks(c, f)
<1>1. MaxId \in Nat /\ Top = MaxId + 1 /\ Ids = 1 .. MaxId
  BY ChatAssumption DEF Top, Ids
<1>2. NewText \in Nat
  BY NewTexts
<1>3. CASE SendComposer(c)
  <2>1. PICK fine \in BOOLEAN :
          Ask(c, [op |-> "send", nonce |-> <<c, NewText>>, text |-> NewText, fine |-> fine])
    BY <1>3 DEF SendComposer
  <2> DEFINE f == [op |-> "send", nonce |-> <<c, NewText>>, text |-> NewText, fine |-> fine]
  <2>2. f \in Requests /\ f.op = "send"
    BY <1>2 DEF Requests
  <2>3. UNCHANGED <<messages, handling, raced, log, complete, floor, torn, link, down, stale>>
    BY <1>3 DEF SendComposer, serverVars
  <2>4. Asks(c, f)
    BY <2>1, <2>2, <2>3 DEF Asks
  <2> QED
    BY <2>4
<1>4. CASE Resend(c)
  <2>1. PICK nonce \in pending[c] :
          Ask(c, [op |-> "send", nonce |-> nonce, text |-> NewText, fine |-> TRUE])
    BY <1>4 DEF Resend
  <2> DEFINE f == [op |-> "send", nonce |-> nonce, text |-> NewText, fine |-> TRUE]
  <2>2. nonce \in Clients \X Nat
    BY DEF ChatTyped
  <2>3. f \in Requests /\ f.op = "send"
    BY <1>2, <2>2 DEF Requests
  <2>4. UNCHANGED <<messages, handling, raced, log, complete, floor, torn, link, down, stale>>
    BY <1>4 DEF Resend, serverVars, clientVars
  <2>5. Asks(c, f)
    BY <2>1, <2>3, <2>4 DEF Asks
  <2> QED
    BY <2>5
<1>5. CASE AskEdit(c)
  <2>1. PICK i \in DOMAIN messages : Ask(c, [op |-> "edit", id |-> i, text |-> NewText])
    BY <1>5 DEF AskEdit
  <2> DEFINE f == [op |-> "edit", id |-> i, text |-> NewText]
  <2>2. i \in Ids
    BY DEF ChatTyped
  <2>3. f \in Requests /\ f.op = "edit"
    BY <1>2, <2>2 DEF Requests
  <2>4. UNCHANGED <<messages, handling, raced, log, complete, floor, torn, link, down, stale>>
    BY <1>5 DEF AskEdit, serverVars, clientVars
  <2>5. Asks(c, f)
    BY <2>1, <2>3, <2>4 DEF Asks
  <2> QED
    BY <2>5
<1>6. CASE AskDelete(c)
  <2>1. PICK i \in DOMAIN messages : Ask(c, [op |-> "delete", id |-> i])
    BY <1>6 DEF AskDelete
  <2> DEFINE f == [op |-> "delete", id |-> i]
  <2>2. i \in Ids
    BY DEF ChatTyped
  <2>3. f \in Requests /\ f.op = "delete"
    BY <2>2 DEF Requests
  <2>4. UNCHANGED <<messages, handling, raced, log, complete, floor, torn, link, down, stale>>
    BY <1>6 DEF AskDelete, serverVars, clientVars
  <2>5. Asks(c, f)
    BY <2>1, <2>3, <2>4 DEF Asks
  <2> QED
    BY <2>5
<1>7. CASE EnsureHistory(c)
  <2> DEFINE f == [op |-> "history", before |-> Top]
  <2>1. f \in Requests /\ f.op = "history" /\ f.before = Top
    BY <1>1 DEF Requests
  <2>2. UNCHANGED <<messages, handling, raced, log, complete, floor, torn, link, down, stale>> /\ Ask(c, f)
    BY <1>7 DEF EnsureHistory, serverVars
  <2>3. Asks(c, f)
    BY <2>1, <2>2 DEF Asks
  <2> QED
    BY <2>3
<1>8. CASE LoadOlder(c)
  <2> DEFINE f == [op |-> "history", before |-> Min(DOMAIN log[c])]
  <2>1. DOMAIN log[c] # {} /\ Ask(c, f)
    BY <1>8 DEF LoadOlder
  <2>2. log[c] \in Logs
    BY DEF ChatTyped
  <2>3. DOMAIN log[c] \in SUBSET Ids /\ DOMAIN log[c] \in SUBSET Nat
    BY <1>1, <2>2, LogsAre
  <2>4. Min(DOMAIN log[c]) \in Ids
    BY <2>1, <2>3, LeastOf
  <2>5. f \in Requests /\ f.op = "history" /\ f.before = Min(DOMAIN log[c])
    BY <1>1, <2>4 DEF Requests
  <2>6. UNCHANGED <<messages, handling, raced, log, complete, floor, torn, link, down, stale>>
    BY <1>8 DEF LoadOlder, serverVars
  <2>7. Asks(c, f)
    BY <2>1, <2>5, <2>6 DEF Asks
  <2> QED
    BY <2>7
<1> QED
  BY <1>3, <1>4, <1>5, <1>6, <1>7, <1>8 DEF Asking

(* A frame that is asked with goes to the end of the line, if there is one. *)
LEMMA AskedLast ==
    ASSUME ChatTyped, NEW c \in Clients, NEW f, Asks(c, f)
    PROVE  /\ up' \in [Clients -> Seq(Requests)]
           /\ \A d \in Clients : up'[d] = up[d] \/ (d = c /\ link[c] /\ up'[d] = Append(up[d], f))
           /\ link[c] => up'[c] = Append(up[c], f)
<1>1. f \in Requests /\ up \in [Clients -> Seq(Requests)]
  BY DEF Asks, ChatTyped
<1>2. up' = IF link[c] THEN [up EXCEPT ![c] = Append(@, f)] ELSE up
  BY DEF Asks, Ask
<1>3. CASE link[c]
  <2>1. up' = [up EXCEPT ![c] = Append(up[c], f)]
    BY <1>2, <1>3
  <2>2. Append(up[c], f) \in Seq(Requests)
    BY <1>1
  <2> QED
    BY <1>1, <1>3, <2>1, <2>2
<1>4. CASE ~link[c]
  BY <1>1, <1>2, <1>4
<1> QED
  BY <1>3, <1>4

(* Asking keeps the types.                                                 *)
LEMMA AskingTyped ==
    ASSUME ChatTyped, NEW c \in Clients, Asking(c)
    PROVE  ChatTyped'
<1>1. PICK f : Asks(c, f)
  BY AskingAsks
<1>2. UNCHANGED <<messages, handling, raced, log, complete, floor, torn, link, down, stale>>
  BY <1>1 DEF Asks
<1>3. up' \in [Clients -> Seq(Requests)] /\ \A d \in Clients : ~link[d] => up'[d] = <<>>
  BY <1>1, AskedLast DEF ChatTyped
<1>4. visited' \in [Clients -> BOOLEAN] /\ loading' \in [Clients -> BOOLEAN] /\ lost' \in [Clients -> BOOLEAN]
  <2>1. visited \in [Clients -> BOOLEAN] /\ loading \in [Clients -> BOOLEAN] /\ lost \in [Clients -> BOOLEAN]
        /\ link \in [Clients -> BOOLEAN]
    BY DEF ChatTyped
  <2>2. CASE EnsureHistory(c)
    BY <2>1, <2>2 DEF EnsureHistory
  <2>3. CASE LoadOlder(c)
    BY <2>1, <2>3 DEF LoadOlder
  <2>4. CASE SendComposer(c) \/ Resend(c) \/ AskEdit(c) \/ AskDelete(c)
    BY <2>1, <2>4 DEF SendComposer, Resend, AskEdit, AskDelete, clientVars
  <2> QED
    BY <2>2, <2>3, <2>4 DEF Asking
<1>5. spent' \in [Things -> Nat]
  BY Spending DEF Asking, SendComposer, Resend, AskEdit, AskDelete, EnsureHistory, LoadOlder, ChatTyped, Things
<1>6. pending' \in [Clients -> SUBSET (Clients \X Nat)]
  <2>1. CASE SendComposer(c)
    <3>1. <<c, NewText>> \in Clients \X Nat
      BY NewTexts
    <3> QED
      BY <2>1, <3>1 DEF SendComposer, ChatTyped
  <2>2. CASE ~SendComposer(c)
    BY <2>2 DEF Asking, Resend, AskEdit, AskDelete, EnsureHistory, LoadOlder, clientVars, ChatTyped
  <2> QED
    BY <2>1, <2>2
<1> QED
  BY <1>2, <1>3, <1>4, <1>5, <1>6 DEF ChatTyped

-----------------------------------------------------------------------------
(* Handling.                                                               *)

\* The handler of c's session takes a request, and no log changes.
Taking(c) ==
    /\ handling[c] = Silent /\ up[c] # <<>>
    /\ up' = [up EXCEPT ![c] = Tail(@)]
    /\ UNCHANGED <<clientVars, link, down, stale>>

\* It will say what is so already.
Tells(c, f) ==
    /\ UNCHANGED <<messages, raced>>
    /\ \A i \in Ids : Right(f, i)
    /\ f.kind = "page" =>
          /\ Head(up[c]).op = "history" /\ f.before = Head(up[c]).before
          /\ \A j \in DOMAIN messages : Reached(f) <= j /\ j < f.before => j \in DOMAIN f.rows

\* It makes what it will say so, and changes nothing else.
Alters(c, f) ==
    \E i \in Ids :
        /\ Touches(c, i) /\ About(f, i) /\ Right(f, i)'
        /\ \A j \in Ids \ {i} : /\ j \in DOMAIN messages' <=> j \in DOMAIN messages
                                /\ j \in DOMAIN messages => messages'[j] = messages[j]

Replies(c, f) ==
    /\ f \in Said /\ handling' = [handling EXCEPT ![c] = f]
    /\ Tells(c, f) \/ Alters(c, f)

TableTyped == DOMAIN messages \subseteq Ids /\ messages \in [DOMAIN messages -> TableRows]

(* The request a handler takes is one.                                     *)
LEMMA HeadAsked ==
    ASSUME ChatTyped, NEW c \in Clients, up[c] # <<>>
    PROVE  Head(up[c]) \in Requests /\ Tail(up[c]) \in Seq(Requests)
<1> QED
  BY DEF ChatTyped

\* What each request carries.
LEMMA Carried ==
    ASSUME NEW f \in Requests
    PROVE  /\ f.op = "history" => f.before \in 1 .. Top
           /\ f.op = "send" => f.nonce \in Clients \X Nat /\ f.text \in Nat
           /\ f.op = "edit" => f.id \in Ids /\ f.text \in Nat
           /\ f.op = "delete" => f.id \in Ids
<1> QED
  BY DEF Requests

(* What is told about one message.                                         *)
LEMMA SaidOfOne ==
    ASSUME NEW i \in Ids, NEW t \in Nat, NEW nonce \in Nonces
    PROVE  /\ [kind |-> "create", id |-> i, text |-> t, nonce |-> nonce] \in Said
           /\ [kind |-> "update", id |-> i, text |-> t] \in Said
           /\ [kind |-> "delete", id |-> i] \in Said
           /\ [kind |-> "error"] \in Said
<1> QED
  BY DEF Said, Changes

(* What each handler does to the table and what it will say: a page.       *)
LEMMA RepliesHistory ==
    ASSUME ChatTyped, NEW c \in Clients, HandleHistory(c)
    PROVE  Taking(c) /\ TableTyped' /\ \E f : Replies(c, f)
<1>1. Taking(c) /\ UNCHANGED <<messages, raced>> /\ Head(up[c]).op = "history" /\ up[c] # <<>>
  BY DEF HandleHistory, Handle, Taking
<1>2. PICK b \in 1 .. Top : b = Head(up[c]).before
  BY <1>1, HeadAsked, Carried
<1>3. PICK f : f = HistoryPage(b, Limit)
  OBVIOUS
<1>4. /\ f \in Pages /\ f.kind = "page" /\ f.before = b
      /\ \A i \in DOMAIN f.rows : Shows(i, f.rows[i])
      /\ \A j \in DOMAIN messages : Reached(f) <= j /\ j < b => j \in DOMAIN f.rows
  BY <1>3, PageHasAll
<1>5. handling' = [handling EXCEPT ![c] = f]
  BY <1>2, <1>3 DEF HandleHistory, Answers
<1>6. \A i \in Ids : Right(f, i)
  BY <1>4 DEF Right
<1>7. f \in Said
  BY <1>4 DEF Said
<1>8. Tells(c, f)
  BY <1>1, <1>2, <1>4, <1>6 DEF Tells
<1>9. Replies(c, f)
  BY <1>5, <1>7, <1>8 DEF Replies
<1> QED
  BY <1>1, <1>9 DEF ChatTyped, TableTyped

(* A refusal says nothing of any message.                                  *)
LEMMA RepliesRefusal ==
    ASSUME ChatTyped, NEW c \in Clients, RefuseMessage(c) \/ NotYours(c) \/ Internal(c)
    PROVE  Taking(c) /\ TableTyped' /\ \E f : Replies(c, f)
<1>1. Taking(c) /\ UNCHANGED <<messages, raced>> /\ handling' = [handling EXCEPT ![c] = [kind |-> "error"]]
  BY DEF RefuseMessage, NotYours, Internal, Handle, Answers, Taking
<1>2. PICK f : f = [kind |-> "error"]
  OBVIOUS
<1>3. f \in Said /\ f.kind = "error"
  BY <1>2 DEF Said
<1>4. Tells(c, f)
  BY <1>1, <1>3 DEF Tells, Right
<1>5. Replies(c, f)
  BY <1>1, <1>2, <1>3, <1>4 DEF Replies
<1> QED
  BY <1>1, <1>5 DEF ChatTyped, TableTyped

(* What was posted before is told as it stands.                            *)
LEMMA RepliesPosted ==
    ASSUME ChatTyped, NEW c \in Clients, AlreadyPosted(c)
    PROVE  Taking(c) /\ TableTyped' /\ \E f : Replies(c, f)
<1>1. Taking(c) /\ UNCHANGED <<messages, raced>>
  BY DEF AlreadyPosted, Handle, Taking
<1>2. PICK i \in Posted(AccountOf[c], Head(up[c]).nonce) :
        handling' = [handling EXCEPT ![c] =
            [kind |-> "create", id |-> i, text |-> messages[i].text, nonce |-> NoNonce]]
  BY DEF AlreadyPosted, Answers
<1>3. i \in DOMAIN messages /\ i \in Ids /\ messages[i].text \in Nat
  BY DEF Posted, ChatTyped, TableRows
<1>4. PICK f : f = [kind |-> "create", id |-> i, text |-> messages[i].text, nonce |-> NoNonce]
  OBVIOUS
<1>5. f \in Said
  BY <1>3, <1>4, SaidOfOne DEF Nonces
<1>6. \A k \in Ids : Right(f, k)
  BY <1>3, <1>4 DEF Right, Shows
<1>7. Tells(c, f)
  BY <1>1, <1>4, <1>6 DEF Tells
<1>8. Replies(c, f)
  BY <1>2, <1>4, <1>5, <1>7 DEF Replies
<1> QED
  BY <1>1, <1>8 DEF ChatTyped, TableTyped

(* A new row, and its message.                                             *)
LEMMA RepliesInsert ==
    ASSUME ChatTyped, NEW c \in Clients, InsertMessage(c)
    PROVE  Taking(c) /\ TableTyped' /\ \E f : Replies(c, f)
<1>1. Taking(c) /\ up[c] # <<>> /\ Head(up[c]).op = "send"
  BY DEF InsertMessage, Handle, Taking
<1>2. PICK m : m = Head(up[c])
  OBVIOUS
<1>3. m.nonce \in Clients \X Nat /\ m.nonce \in Nonces /\ m.text \in Nat
  BY <1>1, <1>2, HeadAsked, Carried DEF Nonces
<1>4. PICK i : i = NewRow
  OBVIOUS
<1>5. PICK row : row = [author |-> AccountOf[c], text |-> m.text, nonce |-> m.nonce]
  OBVIOUS
<1>6. /\ i <= MaxId /\ Touches(c, i)
      /\ messages' = [j \in DOMAIN messages \cup {i} |-> IF j = i THEN row ELSE messages[j]]
      /\ handling' = [handling EXCEPT ![c] = [kind |-> "create", id |-> i, text |-> m.text, nonce |-> m.nonce]]
  BY <1>2, <1>4, <1>5 DEF InsertMessage, Answers
<1>7. i \in Ids
  <2>1. MaxId \in Nat /\ DOMAIN messages \in SUBSET Ids
    BY ChatAssumption DEF ChatTyped
  <2>2. CASE DOMAIN messages = {}
    BY <1>4, <1>6, <2>1, <2>2 DEF NewRow, Ids
  <2>3. CASE DOMAIN messages # {}
    BY <1>4, <1>6, <2>1, <2>3, GreatestOf DEF NewRow, Ids
  <2> QED
    BY <2>2, <2>3
<1>8. row \in TableRows
  BY <1>3, <1>5 DEF TableRows, Authors
<1>9. TableTyped'
  BY <1>6, <1>7, <1>8 DEF ChatTyped, TableTyped
<1>10. PICK f : f = [kind |-> "create", id |-> i, text |-> m.text, nonce |-> m.nonce]
  OBVIOUS
<1>11. f \in Said /\ About(f, i)
  BY <1>3, <1>7, <1>10, SaidOfOne DEF About
<1>12. Right(f, i)'
  BY <1>5, <1>6, <1>10 DEF Right, Shows
<1>13. \A j \in Ids \ {i} : /\ j \in DOMAIN messages' <=> j \in DOMAIN messages
                            /\ j \in DOMAIN messages => messages'[j] = messages[j]
  BY <1>6
<1>14. Alters(c, f)
  BY <1>6, <1>7, <1>11, <1>12, <1>13 DEF Alters
<1> QED
  BY <1>1, <1>6, <1>9, <1>10, <1>11, <1>14 DEF Replies

(* A row with a new text.                                                  *)
LEMMA RepliesEdit ==
    ASSUME ChatTyped, NEW c \in Clients, EditMessage(c)
    PROVE  Taking(c) /\ TableTyped' /\ \E f : Replies(c, f)
<1>1. Taking(c) /\ up[c] # <<>> /\ Head(up[c]).op = "edit"
  BY DEF EditMessage, Handle, Taking
<1>2. PICK m : m = Head(up[c])
  OBVIOUS
<1>3. PICK i : i = m.id
  OBVIOUS
<1>4. i \in Ids /\ m.text \in Nat
  BY <1>1, <1>2, <1>3, HeadAsked, Carried
<1>5. /\ i \in DOMAIN messages /\ Touches(c, i)
      /\ messages' = [messages EXCEPT ![i].text = m.text]
      /\ handling' = [handling EXCEPT ![c] = [kind |-> "update", id |-> i, text |-> m.text]]
  BY <1>2, <1>3 DEF EditMessage, Answers, OwnMessage
<1>6. messages[i] \in TableRows
  BY <1>5 DEF ChatTyped
<1>7. [messages[i] EXCEPT !.text = m.text] \in TableRows
      /\ [messages[i] EXCEPT !.text = m.text].text = m.text
  BY <1>4, <1>6 DEF TableRows
<1>8. /\ DOMAIN messages' = DOMAIN messages
      /\ messages'[i] = [messages[i] EXCEPT !.text = m.text]
      /\ \A j \in DOMAIN messages : j # i => messages'[j] = messages[j]
  BY <1>5
<1>9. TableTyped'
  BY <1>5, <1>7 DEF ChatTyped, TableTyped
<1>10. PICK f : f = [kind |-> "update", id |-> i, text |-> m.text]
  OBVIOUS
<1>11. f \in Said /\ About(f, i)
  BY <1>4, <1>10 DEF About, Said, Changes
<1>12. Right(f, i)'
  BY <1>5, <1>7, <1>8, <1>10 DEF Right, Shows
<1>13. Alters(c, f)
  BY <1>4, <1>5, <1>8, <1>11, <1>12 DEF Alters
<1> QED
  BY <1>1, <1>5, <1>9, <1>10, <1>11, <1>13 DEF Replies

(* A row less.                                                             *)
LEMMA RepliesDelete ==
    ASSUME ChatTyped, NEW c \in Clients, DeleteMessage(c)
    PROVE  Taking(c) /\ TableTyped' /\ \E f : Replies(c, f)
<1>1. Taking(c) /\ up[c] # <<>> /\ Head(up[c]).op = "delete"
  BY DEF DeleteMessage, Handle, Taking
<1>2. PICK i : i = Head(up[c]).id
  OBVIOUS
<1>3. i \in Ids
  BY <1>1, <1>2, HeadAsked, Carried
<1>4. /\ Touches(c, i)
      /\ messages' = [j \in DOMAIN messages \ {i} |-> messages[j]]
      /\ handling' = [handling EXCEPT ![c] = [kind |-> "delete", id |-> i]]
  BY <1>2 DEF DeleteMessage, Answers
<1>5. TableTyped'
  BY <1>4 DEF ChatTyped, TableTyped
<1>6. PICK f : f = [kind |-> "delete", id |-> i]
  OBVIOUS
<1>7. f \in Said /\ About(f, i)
  BY <1>3, <1>6 DEF About, Said, Changes
<1>8. Right(f, i)'
  BY <1>4, <1>6 DEF Right
<1>9. \A j \in Ids \ {i} : /\ j \in DOMAIN messages' <=> j \in DOMAIN messages
                           /\ j \in DOMAIN messages => messages'[j] = messages[j]
  BY <1>4
<1>10. Alters(c, f)
  BY <1>3, <1>4, <1>7, <1>8, <1>9 DEF Alters
<1> QED
  BY <1>1, <1>4, <1>5, <1>6, <1>7, <1>10 DEF Replies

(* Every handler replies.                                                  *)
LEMMA ServingReplies ==
    ASSUME ChatTyped, NEW c \in Clients, Serve(c)
    PROVE  Taking(c) /\ TableTyped' /\ \E f : Replies(c, f)
<1> QED
  BY RepliesHistory, RepliesRefusal, RepliesPosted, RepliesInsert, RepliesEdit, RepliesDelete DEF Serve

(* Serving keeps the types.                                                *)
LEMMA ServingTyped ==
    ASSUME ChatTyped, NEW c \in Clients, Serve(c)
    PROVE  ChatTyped'
<1>1. Taking(c) /\ TableTyped'
  BY ServingReplies
<1>2. PICK f : f \in Said /\ handling' = [handling EXCEPT ![c] = f]
  BY ServingReplies DEF Replies
<1>3. up' \in [Clients -> Seq(Requests)] /\ \A d \in Clients : ~link[d] => up'[d] = <<>>
  <2>1. Tail(up[c]) \in Seq(Requests) /\ link[c]
    BY <1>1, HeadAsked DEF Taking, ChatTyped
  <2> QED
    BY <1>1, <2>1 DEF Taking, ChatTyped
<1>4. handling' \in [Clients -> Said]
  BY <1>2 DEF ChatTyped
<1>5. spent' \in [Things -> Nat]
  BY Spending DEF Serve, HandleHistory, RefuseMessage, AlreadyPosted, InsertMessage, EditMessage, DeleteMessage,
      NotYours, Internal, ChatTyped, Things
<1>6. lost' \in [Clients -> BOOLEAN]
  BY DEF Serve, HandleHistory, RefuseMessage, AlreadyPosted, InsertMessage, EditMessage, DeleteMessage,
      NotYours, Internal, ChatTyped
<1>7. UNCHANGED <<clientVars, link, down, stale>>
  BY <1>1 DEF Taking
<1> QED
  BY <1>1, <1>3, <1>4, <1>5, <1>6, <1>7 DEF ChatTyped, TableTyped, clientVars

-----------------------------------------------------------------------------
(* Logs and frames.                                                        *)

(* One log over another.                                                   *)
LEMMA WithIs ==
    ASSUME NEW old \in Logs, NEW new \in Logs
    PROVE  /\ Merged(old, new) \in Logs
           /\ DOMAIN Merged(old, new) = DOMAIN old \cup DOMAIN new
           /\ \A i \in DOMAIN new : Merged(old, new)[i] = new[i]
           /\ \A i \in DOMAIN old \ DOMAIN new : Merged(old, new)[i] = old[i]
<1>1. /\ DOMAIN old \subseteq Ids /\ old \in [DOMAIN old -> Nat]
      /\ DOMAIN new \subseteq Ids /\ new \in [DOMAIN new -> Nat]
  BY LogsAre
<1>2. /\ DOMAIN Merged(old, new) = DOMAIN old \cup DOMAIN new
      /\ \A i \in DOMAIN new : Merged(old, new)[i] = new[i]
      /\ \A i \in DOMAIN old \ DOMAIN new : Merged(old, new)[i] = old[i]
  BY DEF Merged
<1>3. Merged(old, new) \in [DOMAIN old \cup DOMAIN new -> Nat]
  BY <1>1 DEF Merged
<1> QED
  BY <1>1, <1>2, <1>3, LogsAre

(* A log of one message.                                                   *)
LEMMA OneIs ==
    ASSUME NEW i \in Ids, NEW t \in Nat
    PROVE  One(i, t) \in Logs /\ DOMAIN One(i, t) = {i} /\ One(i, t)[i] = t
<1>1. DOMAIN One(i, t) = {i} /\ One(i, t)[i] = t /\ One(i, t) \in [{i} -> Nat]
  BY DEF One
<1> QED
  BY <1>1, LogsAre

(* The empty log.                                                          *)
LEMMA NothingIs == Nothing \in Logs /\ DOMAIN Nothing = {}
<1>1. DOMAIN Nothing = {} /\ Nothing \in [{} -> Nat]
  BY DEF Nothing
<1>2. DOMAIN Nothing \subseteq Ids /\ Nothing \in [DOMAIN Nothing -> Nat]
  BY <1>1
<1> QED
  BY <1>1, <1>2, LogsAre, Zenon

(* What each thing a handler says carries.                                 *)
LEMMA SaidFields ==
    ASSUME NEW f \in Said
    PROVE  /\ f.kind \in {"idle", "error", "page", "create", "update", "delete"}
           /\ f.kind = "idle" => f = Silent
           /\ f.kind = "error" => f = [kind |-> "error"]
           /\ f.kind = "page" => f \in Pages
           /\ f.kind \in {"update", "delete"} => f \in Changes
           /\ f.kind \in {"create", "update"} => f.text \in Nat
           /\ f.kind \in {"create", "update", "delete"} => f.id \in Ids
           /\ f.kind = "create" => f.nonce \in Nonces
<1>1. CASE f \in [kind : {"idle", "error"}]
  BY <1>1 DEF Silent
<1>2. CASE f \in Pages
  BY <1>2 DEF Pages
<1>3. CASE f \in Changes
  BY <1>3 DEF Changes
<1>4. CASE f \in [kind : {"create"}, id : Ids, text : Nat, nonce : Nonces]
  BY <1>4
<1> QED
  BY <1>1, <1>2, <1>3, <1>4 DEF Said

(* What each frame to a client carries.                                    *)
LEMMA FrameFields ==
    ASSUME NEW f \in Frames
    PROVE  /\ f.kind \in {"error", "page", "create", "update", "delete"}
           /\ f.kind = "page" => f \in Pages
           /\ f.kind \in {"create", "update"} => f.text \in Nat
           /\ f.kind \in {"create", "update", "delete"} => f.id \in Ids
           /\ f.kind = "create" => f.nonce \in Nonces /\ f.newest \in BOOLEAN
<1>1. CASE f \in [kind : {"error"}]
  BY <1>1
<1>2. CASE f \in Pages
  BY <1>2 DEF Pages
<1>3. CASE f \in Changes
  BY <1>3 DEF Changes
<1>4. CASE f \in [kind : {"create"}, id : Ids, text : Nat, nonce : Nonces, newest : BOOLEAN]
  BY <1>4
<1> QED
  BY <1>1, <1>2, <1>3, <1>4 DEF Frames

(* A page reaches no further up than its rows.                             *)
LEMMA PageFields ==
    ASSUME NEW f \in Pages
    PROVE  /\ f.kind = "page" /\ f.before \in 1 .. Top /\ f.rows \in Logs /\ f.complete \in BOOLEAN
           /\ f.complete \/ DOMAIN f.rows # {}
           /\ Reached(f) \in 0 .. Top
           /\ \A i \in DOMAIN f.rows : Reached(f) <= i
<1>1. /\ f.kind = "page" /\ f.before \in 1 .. Top /\ f.rows \in Logs /\ f.complete \in BOOLEAN
      /\ f.complete \/ DOMAIN f.rows # {}
  BY DEF Pages
<1>2. MaxId \in Nat /\ Top = MaxId + 1 /\ Ids = 1 .. MaxId
  BY ChatAssumption DEF Top, Ids
<1>3. DOMAIN f.rows \in SUBSET Ids /\ DOMAIN f.rows \in SUBSET Nat
  BY <1>1, <1>2, LogsAre
<1>4. CASE f.complete
  BY <1>1, <1>2, <1>3, <1>4 DEF Reached
<1>5. CASE ~f.complete
  <2>1. Min(DOMAIN f.rows) \in DOMAIN f.rows /\ \A i \in DOMAIN f.rows : Min(DOMAIN f.rows) <= i
    BY <1>1, <1>3, <1>5, LeastOf
  <2>2. Reached(f) = Min(DOMAIN f.rows)
    BY <1>5 DEF Reached
  <2> QED
    BY <1>1, <1>2, <1>3, <2>1, <2>2
<1> QED
  BY <1>1, <1>4, <1>5

\* What d hears of the answer f is what f says.
SaysAs(g, f) ==
    /\ g \in Frames /\ g.kind = f.kind
    /\ f.kind \in {"create", "update", "delete"} => g.id = f.id
    /\ f.kind \in {"create", "update"} => g.text = f.text
    /\ f.kind # "create" => g = f
    /\ f.kind = "create" => (g.newest => \A j \in DOMAIN messages : j <= f.id)

(* Everybody hears what the handler says.                                  *)
LEMMA ForSays ==
    ASSUME ChatTyped, NEW c \in Clients, NEW d \in Clients, handling[c] # Silent
    PROVE  SaysAs(For(d, c), handling[c])
<1>1. PICK f \in Said : f = handling[c]
  BY DEF ChatTyped
<1>2. f.kind # "idle"
  BY <1>1, SaidFields
<1>3. CASE f.kind = "create"
  <2>1. PICK n \in BOOLEAN : n = (\A j \in DOMAIN messages : j <= f.id)
    OBVIOUS
  <2>2. PICK nonce \in Nonces : nonce = IF d = c THEN f.nonce ELSE NoNonce
    BY <1>3, SaidFields DEF Nonces
  <2>3. For(d, c) = [kind |-> "create", id |-> f.id, text |-> f.text, nonce |-> nonce, newest |-> n]
    BY <1>1, <1>3, <2>1, <2>2 DEF For
  <2>4. f.id \in Ids /\ f.text \in Nat
    BY <1>3, SaidFields
  <2>5. For(d, c) \in Frames
    BY <2>3, <2>4 DEF Frames
  <2>6. For(d, c).kind = "create" /\ For(d, c).id = f.id /\ For(d, c).text = f.text /\ For(d, c).newest = n
    BY <2>3
  <2> QED
    BY <1>1, <1>3, <2>1, <2>5, <2>6 DEF SaysAs
<1>4. CASE f.kind # "create"
  <2>1. For(d, c) = f
    BY <1>1, <1>4 DEF For
  <2>2. f \in Frames
    BY <1>2, <1>4, SaidFields DEF Frames
  <2> QED
    BY <1>1, <1>4, <2>1, <2>2 DEF SaysAs
<1> QED
  BY <1>3, <1>4

(* What says the same is right together.                                   *)
LEMMA SaysRight ==
    ASSUME NEW f, NEW g, SaysAs(g, f), NEW i
    PROVE  (About(g, i) <=> About(f, i)) /\ (Right(g, i) <=> Right(f, i))
<1> QED
  BY DEF SaysAs, About, Right

(* What a handler has to say goes to the end of the line to everybody who  *)
(* is there and is to hear it.                                             *)
LEMMA EmitSends ==
    ASSUME ChatTyped, NEW c \in Clients, Emit(c)
    PROVE  /\ handling[c] # Silent /\ handling' = [handling EXCEPT ![c] = Silent]
           /\ UNCHANGED <<messages, raced, clientVars, link, up, spent, lost>>
           /\ down' \in [Clients -> Seq(Frames)]
           /\ \A d \in Clients :
                 \/ ~(link[d] /\ d \in HeardBy(c)) /\ down'[d] = down[d]
                 \/ link[d] /\ d \in HeardBy(c) /\ down'[d] = Append(down[d], For(d, c))
           /\ stale' = [d \in Clients |-> IF link[d] \/ handling[c].kind \notin {"create", "update", "delete"}
                                          THEN stale[d]
                                          ELSE stale[d] \cup {i \in {handling[c].id} : Holds(d, i)}]
<1>1. /\ handling[c] # Silent /\ handling' = [handling EXCEPT ![c] = Silent]
      /\ UNCHANGED <<messages, raced, clientVars, link, up, spent, lost>>
      /\ down' = [d \in Clients |-> IF link[d] /\ d \in HeardBy(c) THEN Append(down[d], For(d, c)) ELSE down[d]]
      /\ stale' = [d \in Clients |-> IF link[d] \/ handling[c].kind \notin {"create", "update", "delete"}
                                     THEN stale[d]
                                     ELSE stale[d] \cup {i \in {handling[c].id} : Holds(d, i)}]
  BY DEF Emit, clientVars
<1>2. ASSUME NEW d \in Clients PROVE Append(down[d], For(d, c)) \in Seq(Frames)
  BY <1>1, ForSays DEF SaysAs, ChatTyped
<1>3. down' \in [Clients -> Seq(Frames)]
  BY <1>1, <1>2 DEF ChatTyped
<1> QED
  BY <1>1, <1>3

(* Sending keeps the types.                                                *)
LEMMA EmitTyped ==
    ASSUME ChatTyped, NEW c \in Clients, Emit(c)
    PROVE  ChatTyped'
<1>1. /\ handling' = [handling EXCEPT ![c] = Silent]
      /\ UNCHANGED <<messages, raced, clientVars, link, up, spent, lost>>
      /\ down' \in [Clients -> Seq(Frames)]
      /\ \A d \in Clients : ~link[d] => down'[d] = down[d]
  BY EmitSends
<1>2. handling' \in [Clients -> Said]
  <2>1. Silent \in Said
    BY DEF Silent, Said
  <2> QED
    BY <1>1, <2>1 DEF ChatTyped
<1>3. stale' \in [Clients -> SUBSET Ids]
  <2>1. handling[c] \in Said
    BY DEF ChatTyped
  <2>2. handling[c].kind \in {"create", "update", "delete"} => handling[c].id \in Ids
    BY <2>1, SaidFields
  <2>3. ASSUME NEW d \in Clients PROVE stale'[d] \in SUBSET Ids
    BY <2>2, EmitSends DEF ChatTyped
  <2>4. stale' = [d \in Clients |-> stale'[d]]
    BY EmitSends
  <2> QED
    BY <2>3, <2>4
<1> QED
  BY <1>1, <1>2, <1>3 DEF ChatTyped, clientVars

-----------------------------------------------------------------------------
(* Applying.                                                               *)

\* c applies the frame f.
Hears(c, f) ==
    /\ link[c] /\ down[c] # <<>> /\ f = Head(down[c]) /\ f \in Frames
    /\ down' = [down EXCEPT ![c] = Tail(@)]
    /\ UNCHANGED <<serverVars, link, up, stale, spent, lost, visited>>

(* The frame a client applies, and those behind it.                        *)
LEMMA HeadHeard ==
    ASSUME ChatTyped, NEW c \in Clients, down[c] # <<>>
    PROVE  /\ Head(down[c]) \in Frames /\ Head(down[c]) = down[c][1] /\ 1 \in DOMAIN down[c]
           /\ Tail(down[c]) \in Seq(Frames)
           /\ \A n \in DOMAIN Tail(down[c]) : n \in Nat \ {0} /\ n + 1 \in DOMAIN down[c]
                                              /\ Tail(down[c])[n] = down[c][n + 1]
           /\ \A n \in DOMAIN down[c] : n \in Nat \ {0} /\ (n # 1 => n - 1 \in DOMAIN Tail(down[c])
                                              /\ Tail(down[c])[n - 1] = down[c][n])
<1>1. down[c] \in Seq(Frames)
  BY DEF ChatTyped
<1> QED
  BY <1>1, Rest

(* Applying applies the first frame.                                       *)
LEMMA ApplyHears ==
    ASSUME ChatTyped, NEW c \in Clients, Apply(c)
    PROVE  \E f : Hears(c, f)
<1>1. PICK kind : Next1(c, kind)
  BY DEF Apply, Create, Update, Delete, Page, Refusal
<1>2. PICK f : f = Head(down[c])
  OBVIOUS
<1>3. link[c] /\ down[c] # <<>> /\ down' = [down EXCEPT ![c] = Tail(@)]
      /\ UNCHANGED <<serverVars, link, up, stale, spent, lost, visited>>
  BY <1>1 DEF Next1
<1>4. f \in Frames
  BY <1>2, <1>3, HeadHeard
<1>5. Hears(c, f)
  BY <1>2, <1>3, <1>4 DEF Hears
<1> QED
  BY <1>5

(* What becomes of the log: a word about one message puts it in or takes   *)
(* it out, a page brings its rows.                                         *)
LEMMA CreateIs ==
    ASSUME ChatTyped, NEW c \in Clients, Create(c), NEW f, Hears(c, f)
    PROVE  /\ f.kind = "create" /\ f.id \in Ids /\ f.text \in Nat
           /\ log' = [log EXCEPT ![c] = Merged(log[c], One(f.id, f.text))]
           /\ log'[c] \in Logs /\ DOMAIN log'[c] = DOMAIN log[c] \cup {f.id}
           /\ log'[c][f.id] = f.text /\ \A i \in DOMAIN log[c] \ {f.id} : log'[c][i] = log[c][i]
           /\ floor' = [floor EXCEPT ![c] = floor'[c]]
           /\ floor'[c] = IF floor[c] = Top /\ f.newest THEN f.id ELSE floor[c]
           /\ torn' = [torn EXCEPT ![c] = torn'[c]] /\ torn'[c] \in BOOLEAN
           /\ torn'[c] <=> torn[c] \/ (f.id < floor'[c] /\ f.id \notin DOMAIN log[c])
           /\ UNCHANGED <<loading, complete>>
<1>1. f = Head(down[c]) /\ f \in Frames
  BY DEF Hears
<1>2. /\ f.kind = "create"
      /\ log' = [log EXCEPT ![c] = Merged(@, One(f.id, f.text))]
      /\ floor' = [floor EXCEPT ![c] = IF @ = Top /\ f.newest THEN f.id ELSE @]
      /\ torn' = [torn EXCEPT ![c] = @ \/ (f.id < floor'[c] /\ f.id \notin DOMAIN log[c])]
      /\ UNCHANGED <<loading, complete>>
  BY <1>1 DEF Create, Next1, Tears
<1>3. f.id \in Ids /\ f.text \in Nat
  BY <1>1, <1>2, FrameFields
<1>4. log[c] \in Logs /\ log \in [Clients -> Logs] /\ floor \in [Clients -> 0 .. Top] /\ torn \in [Clients -> BOOLEAN]
  BY DEF ChatTyped
<1>5. One(f.id, f.text) \in Logs /\ DOMAIN One(f.id, f.text) = {f.id} /\ One(f.id, f.text)[f.id] = f.text
  BY <1>3, OneIs
<1>6. log'[c] = Merged(log[c], One(f.id, f.text))
  BY <1>2, <1>4
<1>7. /\ log'[c] \in Logs /\ DOMAIN log'[c] = DOMAIN log[c] \cup {f.id}
      /\ log'[c][f.id] = f.text /\ \A i \in DOMAIN log[c] \ {f.id} : log'[c][i] = log[c][i]
  <2> DEFINE l == Merged(log[c], One(f.id, f.text))
  <2>1. /\ l \in Logs /\ DOMAIN l = DOMAIN log[c] \cup DOMAIN One(f.id, f.text)
        /\ \A i \in DOMAIN One(f.id, f.text) : l[i] = One(f.id, f.text)[i]
        /\ \A i \in DOMAIN log[c] \ DOMAIN One(f.id, f.text) : l[i] = log[c][i]
    BY <1>4, <1>5, WithIs
  <2>2. log'[c] = l
    BY <1>6
  <2> HIDE DEF l
  <2> QED
    BY <1>5, <2>1, <2>2
<1>8. log' = [log EXCEPT ![c] = Merged(log[c], One(f.id, f.text))]
  BY <1>2
<1>9. /\ floor' = [floor EXCEPT ![c] = floor'[c]]
      /\ floor'[c] = IF floor[c] = Top /\ f.newest THEN f.id ELSE floor[c]
  BY <1>2, <1>4
<1>10. /\ torn' = [torn EXCEPT ![c] = torn'[c]] /\ torn'[c] \in BOOLEAN
       /\ torn'[c] <=> torn[c] \/ (f.id < floor'[c] /\ f.id \notin DOMAIN log[c])
  BY <1>2, <1>4
<1> QED
  BY <1>2, <1>3, <1>7, <1>8, <1>9, <1>10

(* An edit puts its message into the log.                                  *)
LEMMA UpdateIs ==
    ASSUME ChatTyped, NEW c \in Clients, Update(c), NEW f, Hears(c, f)
    PROVE  /\ f.kind = "update" /\ f.id \in Ids /\ f.text \in Nat
           /\ log' = [log EXCEPT ![c] = Merged(log[c], One(f.id, f.text))]
           /\ log'[c] \in Logs /\ DOMAIN log'[c] = DOMAIN log[c] \cup {f.id}
           /\ log'[c][f.id] = f.text /\ \A i \in DOMAIN log[c] \ {f.id} : log'[c][i] = log[c][i]
           /\ torn' = [torn EXCEPT ![c] = torn'[c]] /\ torn'[c] \in BOOLEAN
           /\ torn'[c] <=> torn[c] \/ (f.id < floor[c] /\ f.id \notin DOMAIN log[c])
           /\ UNCHANGED <<floor, loading, complete, pending>>
<1>1. f = Head(down[c]) /\ f \in Frames
  BY DEF Hears
<1>2. /\ f.kind = "update"
      /\ log' = [log EXCEPT ![c] = Merged(@, One(f.id, f.text))]
      /\ torn' = [torn EXCEPT ![c] = @ \/ (f.id < floor'[c] /\ f.id \notin DOMAIN log[c])]
      /\ UNCHANGED <<floor, loading, complete, pending>>
  BY <1>1 DEF Update, Next1, Tears
<1>3. f.id \in Ids /\ f.text \in Nat
  BY <1>1, <1>2, FrameFields
<1>4. log[c] \in Logs /\ log \in [Clients -> Logs] /\ torn \in [Clients -> BOOLEAN]
  BY DEF ChatTyped
<1>5. One(f.id, f.text) \in Logs /\ DOMAIN One(f.id, f.text) = {f.id} /\ One(f.id, f.text)[f.id] = f.text
  BY <1>3, OneIs
<1>6. log'[c] = Merged(log[c], One(f.id, f.text))
  BY <1>2, <1>4
<1>7. /\ log'[c] \in Logs /\ DOMAIN log'[c] = DOMAIN log[c] \cup {f.id}
      /\ log'[c][f.id] = f.text /\ \A i \in DOMAIN log[c] \ {f.id} : log'[c][i] = log[c][i]
  <2> DEFINE l == Merged(log[c], One(f.id, f.text))
  <2>1. /\ l \in Logs /\ DOMAIN l = DOMAIN log[c] \cup DOMAIN One(f.id, f.text)
        /\ \A i \in DOMAIN One(f.id, f.text) : l[i] = One(f.id, f.text)[i]
        /\ \A i \in DOMAIN log[c] \ DOMAIN One(f.id, f.text) : l[i] = log[c][i]
    BY <1>4, <1>5, WithIs
  <2>2. log'[c] = l
    BY <1>6
  <2> HIDE DEF l
  <2> QED
    BY <1>5, <2>1, <2>2
<1>8. log' = [log EXCEPT ![c] = Merged(log[c], One(f.id, f.text))]
  BY <1>2
<1>9. /\ torn' = [torn EXCEPT ![c] = torn'[c]] /\ torn'[c] \in BOOLEAN
      /\ torn'[c] <=> torn[c] \/ (f.id < floor[c] /\ f.id \notin DOMAIN log[c])
  BY <1>2, <1>4
<1> QED
  BY <1>2, <1>3, <1>7, <1>8, <1>9

(* A deletion takes its message out.                                       *)
LEMMA DeleteIs ==
    ASSUME ChatTyped, NEW c \in Clients, Delete(c), NEW f, Hears(c, f)
    PROVE  /\ f.kind = "delete" /\ f.id \in Ids
           /\ log' = [log EXCEPT ![c] = log'[c]]
           /\ log'[c] \in Logs /\ DOMAIN log'[c] = DOMAIN log[c] \ {f.id}
           /\ \A i \in DOMAIN log[c] \ {f.id} : log'[c][i] = log[c][i]
           /\ UNCHANGED <<floor, loading, complete, pending, torn>>
<1>1. f = Head(down[c]) /\ f \in Frames
  BY DEF Hears
<1>2. /\ f.kind = "delete"
      /\ log' = [log EXCEPT ![c] = [i \in DOMAIN @ \ {f.id} |-> @[i]]]
      /\ UNCHANGED <<floor, loading, complete, pending, torn>>
  BY <1>1 DEF Delete, Next1
<1>3. f.id \in Ids
  BY <1>1, <1>2, FrameFields
<1>4. log[c] \in Logs /\ log \in [Clients -> Logs]
  BY DEF ChatTyped
<1>5. log'[c] = [i \in DOMAIN log[c] \ {f.id} |-> log[c][i]] /\ log' = [log EXCEPT ![c] = log'[c]]
  BY <1>2, <1>4
<1>6. DOMAIN log'[c] = DOMAIN log[c] \ {f.id} /\ \A i \in DOMAIN log[c] \ {f.id} : log'[c][i] = log[c][i]
  BY <1>5
<1>7. log'[c] \in Logs
  <2>1. DOMAIN log[c] \subseteq Ids /\ log[c] \in [DOMAIN log[c] -> Nat]
    BY <1>4, LogsAre
  <2>2. log'[c] \in [DOMAIN log[c] \ {f.id} -> Nat]
    BY <1>5, <2>1
  <2> QED
    BY <1>6, <2>1, <2>2, LogsAre
<1> QED
  BY <1>2, <1>3, <1>5, <1>6, <1>7

(* A page puts its rows in, and the whole part may reach down to it.       *)
LEMMA PageIs ==
    ASSUME ChatTyped, NEW c \in Clients, Page(c), NEW f, Hears(c, f)
    PROVE  /\ f \in Pages
           /\ log' = [log EXCEPT ![c] = Merged(log[c], f.rows)]
           /\ log'[c] \in Logs /\ DOMAIN log'[c] = DOMAIN log[c] \cup DOMAIN f.rows
           /\ \A i \in DOMAIN f.rows : log'[c][i] = f.rows[i]
           /\ \A i \in DOMAIN log[c] \ DOMAIN f.rows : log'[c][i] = log[c][i]
           /\ floor' = [floor EXCEPT ![c] = floor'[c]] /\ floor'[c] \in 0 .. Top
           /\ f.before < floor[c] => floor'[c] = floor[c]
           /\ f.before >= floor[c] => /\ floor'[c] <= floor[c] /\ floor'[c] <= Reached(f)
                                      /\ floor'[c] \in {floor[c], Reached(f)}
           /\ complete' = [complete EXCEPT ![c] = complete'[c]] /\ complete'[c] \in BOOLEAN
           /\ complete'[c] <=> complete[c] \/ f.complete
           /\ loading' = [loading EXCEPT ![c] = FALSE]
           /\ UNCHANGED <<pending, torn>>
<1>1. f = Head(down[c]) /\ f \in Frames
  BY DEF Hears
<1>2. /\ f.kind = "page"
      /\ log' = [log EXCEPT ![c] = Merged(@, f.rows)]
      /\ complete' = [complete EXCEPT ![c] = @ \/ f.complete]
      /\ floor' = [floor EXCEPT ![c] = IF f.before >= @ THEN Min({@, Reached(f)}) ELSE @]
      /\ loading' = [loading EXCEPT ![c] = FALSE]
      /\ UNCHANGED <<pending, torn>>
  BY <1>1 DEF Page, Next1, Reached
<1>3. f \in Pages
  BY <1>1, <1>2, FrameFields
<1>4. f.before \in 1 .. Top /\ f.rows \in Logs /\ Reached(f) \in 0 .. Top
  BY <1>3, PageFields
<1>5. /\ log[c] \in Logs /\ log \in [Clients -> Logs] /\ floor \in [Clients -> 0 .. Top]
      /\ complete \in [Clients -> BOOLEAN] /\ MaxId \in Nat /\ Top = MaxId + 1
  BY ChatAssumption DEF ChatTyped, Top
<1>6. log'[c] = Merged(log[c], f.rows) /\ log' = [log EXCEPT ![c] = Merged(log[c], f.rows)]
  BY <1>2, <1>5
<1>7. /\ log'[c] \in Logs /\ DOMAIN log'[c] = DOMAIN log[c] \cup DOMAIN f.rows
      /\ \A i \in DOMAIN f.rows : log'[c][i] = f.rows[i]
      /\ \A i \in DOMAIN log[c] \ DOMAIN f.rows : log'[c][i] = log[c][i]
  <2> DEFINE l == Merged(log[c], f.rows)
  <2>1. /\ l \in Logs /\ DOMAIN l = DOMAIN log[c] \cup DOMAIN f.rows
        /\ \A i \in DOMAIN f.rows : l[i] = f.rows[i]
        /\ \A i \in DOMAIN log[c] \ DOMAIN f.rows : l[i] = log[c][i]
    BY <1>4, <1>5, WithIs
  <2>2. log'[c] = l
    BY <1>6
  <2> HIDE DEF l
  <2> QED
    BY <1>5, <2>1, <2>2
<1>8. floor' = [floor EXCEPT ![c] = floor'[c]]
      /\ floor'[c] = IF f.before >= floor[c] THEN Min({floor[c], Reached(f)}) ELSE floor[c]
  BY <1>2, <1>5
<1>9. /\ Min({floor[c], Reached(f)}) \in {floor[c], Reached(f)}
      /\ Min({floor[c], Reached(f)}) <= floor[c] /\ Min({floor[c], Reached(f)}) <= Reached(f)
  <2>1. {floor[c], Reached(f)} \in SUBSET Nat /\ {floor[c], Reached(f)} # {}
    BY <1>4, <1>5
  <2> QED
    BY <2>1, LeastOf
<1>10. /\ floor'[c] \in 0 .. Top
       /\ f.before < floor[c] => floor'[c] = floor[c]
       /\ f.before >= floor[c] => /\ floor'[c] <= floor[c] /\ floor'[c] <= Reached(f)
                                  /\ floor'[c] \in {floor[c], Reached(f)}
  <2>1. floor[c] \in 0 .. Top
    BY <1>5
  <2>2. CASE f.before >= floor[c]
    BY <1>4, <1>5, <1>8, <1>9, <2>1, <2>2
  <2>3. CASE ~(f.before >= floor[c])
    BY <1>4, <1>5, <1>8, <2>1, <2>3
  <2> QED
    BY <2>2, <2>3
<1>11. /\ complete' = [complete EXCEPT ![c] = complete'[c]] /\ complete'[c] \in BOOLEAN
       /\ complete'[c] <=> complete[c] \/ f.complete
  BY <1>2, <1>5
<1> QED
  BY <1>2, <1>3, <1>6, <1>7, <1>8, <1>10, <1>11

(* Applying keeps the types.                                               *)
LEMMA ApplyTyped ==
    ASSUME ChatTyped, NEW c \in Clients, Apply(c)
    PROVE  ChatTyped'
<1>1. PICK f : Hears(c, f)
  BY ApplyHears
<1>2. /\ UNCHANGED <<serverVars, link, up, stale, spent, lost, visited>>
      /\ link[c] /\ down' = [down EXCEPT ![c] = Tail(@)] /\ Tail(down[c]) \in Seq(Frames)
      /\ f = Head(down[c])
  BY <1>1, HeadHeard DEF Hears
<1>3. down' \in [Clients -> Seq(Frames)] /\ \A d \in Clients : ~link[d] => down'[d] = <<>>
  BY <1>2 DEF ChatTyped
<1>4. MaxId \in Nat /\ Top = MaxId + 1 /\ Ids = 1 .. MaxId
  BY ChatAssumption DEF Top, Ids
<1>5. ASSUME /\ log' \in [Clients -> Logs] /\ floor' \in [Clients -> 0 .. Top]
             /\ torn' \in [Clients -> BOOLEAN] /\ complete' \in [Clients -> BOOLEAN]
             /\ loading' \in [Clients -> BOOLEAN] /\ pending' \in [Clients -> SUBSET (Clients \X Nat)]
      PROVE  ChatTyped'
  BY <1>2, <1>3, <1>5 DEF ChatTyped, serverVars
<1>6. CASE Create(c)
  <2>1. /\ log' = [log EXCEPT ![c] = log'[c]] /\ log'[c] \in Logs
        /\ floor' = [floor EXCEPT ![c] = floor'[c]]
        /\ floor'[c] = IF floor[c] = Top /\ f.newest THEN f.id ELSE floor[c]
        /\ torn' = [torn EXCEPT ![c] = torn'[c]] /\ torn'[c] \in BOOLEAN
        /\ f.id \in Ids
        /\ UNCHANGED <<loading, complete>>
    BY <1>1, <1>6, CreateIs DEF ChatTyped
  <2>2. floor'[c] \in 0 .. Top
    BY <1>4, <2>1 DEF ChatTyped
  <2>3. pending' \in [Clients -> SUBSET (Clients \X Nat)]
    BY <1>6 DEF Create, ChatTyped
  <2> QED
    BY <1>5, <2>1, <2>2, <2>3 DEF ChatTyped
<1>7. CASE Update(c)
  <2>1. /\ log' = [log EXCEPT ![c] = log'[c]] /\ log'[c] \in Logs
        /\ torn' = [torn EXCEPT ![c] = torn'[c]] /\ torn'[c] \in BOOLEAN
        /\ UNCHANGED <<floor, loading, complete, pending>>
    BY <1>1, <1>7, UpdateIs DEF ChatTyped
  <2> QED
    BY <1>5, <2>1 DEF ChatTyped
<1>8. CASE Delete(c)
  <2>1. /\ log' = [log EXCEPT ![c] = log'[c]] /\ log'[c] \in Logs
        /\ UNCHANGED <<floor, loading, complete, pending, torn>>
    BY <1>1, <1>8, DeleteIs
  <2> QED
    BY <1>5, <2>1 DEF ChatTyped
<1>9. CASE Page(c)
  <2>1. /\ log' = [log EXCEPT ![c] = log'[c]] /\ log'[c] \in Logs
        /\ floor' = [floor EXCEPT ![c] = floor'[c]] /\ floor'[c] \in 0 .. Top
        /\ complete' = [complete EXCEPT ![c] = complete'[c]] /\ complete'[c] \in BOOLEAN
        /\ loading' = [loading EXCEPT ![c] = FALSE]
        /\ UNCHANGED <<pending, torn>>
    BY <1>1, <1>9, PageIs DEF ChatTyped
  <2> QED
    BY <1>5, <2>1 DEF ChatTyped
<1>10. CASE Refusal(c)
  BY <1>5, <1>10 DEF Refusal, ChatTyped
<1> QED
  BY <1>6, <1>7, <1>8, <1>9, <1>10 DEF Apply

-----------------------------------------------------------------------------
(* Coming and going, and the start.                                        *)

(* What a message that is on its way is about.                             *)
LEMMA AboutMessagesAre ==
    ASSUME ChatTyped, NEW c \in Clients
    PROVE  AboutMessages(down[c]) = {i \in Ids : Later(c, 0, i)}
<1>1. down[c] \in Seq(Frames)
  BY DEF ChatTyped
<1>2. ASSUME NEW n \in DOMAIN down[c], down[c][n].kind \in {"create", "update", "delete"}
      PROVE  down[c][n].id \in Ids /\ n > 0
  BY <1>1, <1>2, FrameFields
<1> QED
  BY <1>2 DEF AboutMessages, Later, About

\* What coming and going changes.
Coming(c) == Drop(c) \/ Return(c) \/ LogOut(c)

(* Coming and going keep the types.                                        *)
LEMMA ComingTyped ==
    ASSUME ChatTyped, NEW c \in Clients, Coming(c)
    PROVE  ChatTyped'
<1>1. <<>> \in Seq(Requests) /\ <<>> \in Seq(Frames)
  OBVIOUS
<1>2. Nothing \in Logs /\ Top \in 0 .. Top
  BY NothingIs, ChatAssumption DEF Top
<1>3. CASE Drop(c)
  <2>1. spent' \in [Things -> Nat]
    BY <1>3, Spending DEF Drop, Things
  <2>2. stale' \in [Clients -> SUBSET Ids]
    <3>1. AboutMessages(down[c]) \subseteq Ids
      BY AboutMessagesAre
    <3> QED
      BY <1>3, <3>1 DEF Drop, ChatTyped
  <2>3. /\ link' \in [Clients -> BOOLEAN]
        /\ up' \in [Clients -> Seq(Requests)] /\ down' \in [Clients -> Seq(Frames)]
        /\ lost' \in [Clients -> BOOLEAN] /\ UNCHANGED <<serverVars, clientVars>>
        /\ \A d \in Clients : ~link'[d] => up'[d] = <<>> /\ down'[d] = <<>>
    BY <1>1, <1>3 DEF Drop, ChatTyped
  <2> QED
    BY <2>1, <2>2, <2>3 DEF ChatTyped, serverVars, clientVars
<1>4. CASE Return(c)
  <2>1. /\ link' \in [Clients -> BOOLEAN] /\ UNCHANGED <<serverVars, clientVars, up, down, spent, stale, lost>>
        /\ \A d \in Clients : ~link'[d] => up'[d] = <<>> /\ down'[d] = <<>>
    BY <1>4 DEF Return, ChatTyped
  <2> QED
    BY <2>1 DEF ChatTyped, serverVars, clientVars
<1>5. CASE LogOut(c)
  <2>1. spent' \in [Things -> Nat]
    BY <1>5, Spending DEF LogOut, Things
  <2>2. /\ link' \in [Clients -> BOOLEAN]
        /\ up' \in [Clients -> Seq(Requests)] /\ down' \in [Clients -> Seq(Frames)]
        /\ \A d \in Clients : ~link'[d] => up'[d] = <<>> /\ down'[d] = <<>>
    BY <1>1, <1>5 DEF LogOut, ChatTyped
  <2>3. /\ lost' \in [Clients -> BOOLEAN] /\ visited' \in [Clients -> BOOLEAN]
        /\ loading' \in [Clients -> BOOLEAN] /\ complete' \in [Clients -> BOOLEAN]
        /\ torn' \in [Clients -> BOOLEAN]
    BY <1>5 DEF LogOut, ChatTyped
  <2>4. /\ log' \in [Clients -> Logs] /\ floor' \in [Clients -> 0 .. Top]
        /\ stale' \in [Clients -> SUBSET Ids] /\ pending' \in [Clients -> SUBSET (Clients \X Nat)]
    BY <1>2, <1>5 DEF LogOut, ChatTyped
  <2>5. UNCHANGED serverVars
    BY <1>5 DEF LogOut
  <2> QED
    BY <2>1, <2>2, <2>3, <2>4, <2>5 DEF ChatTyped, serverVars
<1> QED
  BY <1>3, <1>4, <1>5 DEF Coming

(* The types hold at the start.                                            *)
LEMMA ChatStartTyped == ChatInit => ChatTyped
<1> SUFFICES ASSUME ChatInit PROVE ChatTyped
  OBVIOUS
<1>1. MaxId \in Nat /\ Top = MaxId + 1 /\ Ids = 1 .. MaxId
      /\ DOMAIN Before = 1 .. Len(Before) /\ Len(Before) \in 0 .. MaxId
  BY ChatAssumption DEF Top, Ids
<1>2. messages = [i \in DOMAIN Before |-> [author |-> Before[i], text |-> i, nonce |-> NoNonce]]
  BY DEF ChatInit
<1>3. DOMAIN messages \subseteq Ids /\ messages \in [DOMAIN messages -> TableRows]
  <2>1. ASSUME NEW i \in DOMAIN Before
        PROVE  [author |-> Before[i], text |-> i, nonce |-> NoNonce] \in TableRows
    <3>1. i \in Nat /\ Before[i] \in Authors /\ NoNonce \in Nonces
      BY <1>1 DEF Authors, Nonces
    <3> QED
      BY <3>1 DEF TableRows
  <2> QED
    BY <1>1, <1>2, <2>1
<1>4. Nothing \in Logs /\ Top \in 0 .. Top
  BY <1>1, NothingIs
<1>5. Silent \in Said
  BY DEF Silent, Said
<1>6. /\ link = [c \in Clients |-> TRUE]
      /\ up = [c \in Clients |-> <<>>] /\ down = [c \in Clients |-> <<>>]
      /\ handling = [c \in Clients |-> Silent]
      /\ log = [c \in Clients |-> Nothing]
      /\ visited = [c \in Clients |-> FALSE] /\ loading = [c \in Clients |-> FALSE]
      /\ complete = [c \in Clients |-> FALSE]
      /\ pending = [c \in Clients |-> {}]
      /\ spent = [t \in Things |-> 0]
      /\ floor = [c \in Clients |-> Top] /\ torn = [c \in Clients |-> FALSE]
      /\ stale = [c \in Clients |-> {}]
      /\ lost = [c \in Clients |-> FALSE]
  BY DEF ChatInit
<1>7. /\ link \in [Clients -> BOOLEAN] /\ visited \in [Clients -> BOOLEAN] /\ loading \in [Clients -> BOOLEAN]
      /\ complete \in [Clients -> BOOLEAN] /\ torn \in [Clients -> BOOLEAN] /\ lost \in [Clients -> BOOLEAN]
  BY <1>6
<1>8. up \in [Clients -> Seq(Requests)] /\ down \in [Clients -> Seq(Frames)]
  BY <1>6
<1>9. \A c \in Clients : ~link[c] => up[c] = <<>> /\ down[c] = <<>>
  BY <1>6
<1>10. /\ handling \in [Clients -> Said] /\ log \in [Clients -> Logs] /\ floor \in [Clients -> 0 .. Top]
       /\ stale \in [Clients -> SUBSET Ids] /\ pending \in [Clients -> SUBSET (Clients \X Nat)]
       /\ spent \in [Things -> Nat]
  BY <1>4, <1>5, <1>6
<1> QED
  BY <1>3, <1>7, <1>8, <1>9, <1>10 DEF ChatTyped

-----------------------------------------------------------------------------
(* The logs and the table.                                                 *)

\* The step leaves the message i as it is.
Alike(i) == /\ i \in DOMAIN messages' <=> i \in DOMAIN messages
            /\ i \in DOMAIN messages => messages'[i] = messages[i]

(* A frame about a message that is left alone stays as right as it was.    *)
LEMMA AlikeShows ==
    ASSUME NEW i, Alike(i), NEW f
    PROVE  Right(f, i)' <=> Right(f, i)
<1> QED
  BY DEF Alike, Right, Shows

(* Asking disturbs no log.                                                 *)
LEMMA AskingLog ==
    ASSUME ChatTyped, LogInv, NEW c \in Clients, Asking(c)
    PROVE  LogInv'
<1>1. UNCHANGED <<messages, handling, raced, log, floor, link, down, stale>>
  BY AskingAsks DEF Asks
<1> QED
  BY <1>1 DEF LogInv, HandlersRight, WordsRight, LogRight, NewestLast, PagesCover, Covered,
              Settled, Later, About, Right, Shows, Reached

(* A message everybody is done with after a handler's step was that before *)
(* it too, and is left alone.                                              *)
LEMMA ServingKeeps ==
    ASSUME ChatTyped, NEW c \in Clients, Taking(c), NEW f, Replies(c, f), NEW i \in Ids, Settled(i)'
    PROVE  Settled(i) /\ Alike(i) /\ ~About(f, i)
<1>1. handling' = [handling EXCEPT ![c] = f] /\ handling \in [Clients -> Said] /\ handling[c] = Silent
  BY DEF Replies, ChatTyped, Taking
<1>2. ~About(f, i)
  BY <1>1 DEF Settled
<1>3. ASSUME NEW d \in Clients PROVE ~About(handling[d], i)
  <2>1. CASE d = c
    BY <1>1, <2>1 DEF Silent, About
  <2>2. CASE d # c
    <3>1. handling'[d] = handling[d]
      BY <1>1, <2>2
    <3> QED
      BY <3>1 DEF Settled
  <2> QED
    BY <2>1, <2>2
<1>4. Alike(i)
  <2>1. CASE Tells(c, f)
    BY <2>1 DEF Tells, Alike
  <2>2. CASE Alters(c, f)
    <3>1. PICK k \in Ids : /\ About(f, k)
                           /\ \A j \in Ids \ {k} : /\ j \in DOMAIN messages' <=> j \in DOMAIN messages
                                                   /\ j \in DOMAIN messages => messages'[j] = messages[j]
      BY <2>2 DEF Alters
    <3>2. i # k
      BY <1>2, <3>1
    <3> QED
      BY <3>1, <3>2 DEF Alike
  <2> QED
    BY <2>1, <2>2 DEF Replies
<1> QED
  BY <1>2, <1>3, <1>4 DEF Settled

(* A handler makes no other handler wrong, but of messages that raced.     *)
LEMMA ServingHandlers ==
    ASSUME ChatTyped, HandlersRight, NEW c \in Clients, Taking(c), NEW f, Replies(c, f)
    PROVE  HandlersRight' /\ raced \subseteq raced'
<1>1. handling' = [handling EXCEPT ![c] = f] /\ handling \in [Clients -> Said] /\ handling[c] = Silent /\ f \in Said
  BY DEF Replies, ChatTyped, Taking
<1>2. CASE Tells(c, f)
  <2>1. UNCHANGED <<messages, raced>> /\ \A i \in Ids : Right(f, i)
    BY <1>2 DEF Tells
  <2>2. ASSUME NEW d \in Clients, NEW i \in Ids \ raced' PROVE Right(handling[d], i)' 
    <3>1. Alike(i) /\ i \in Ids \ raced
      BY <2>1 DEF Alike
    <3>2. PICK g : g = handling'[d]
      OBVIOUS
    <3>3. Right(g, i)
      <4>1. CASE d = c
        BY <1>1, <2>1, <3>2, <4>1
      <4>2. CASE d # c
        BY <1>1, <3>1, <3>2, <4>2 DEF HandlersRight
      <4> QED
        BY <4>1, <4>2
    <3>4. Right(g, i)'
      BY <3>1, <3>3, AlikeShows
    <3> QED
      BY <3>2, <3>4 DEF Right, Shows
  <2> QED
    BY <2>1, <2>2 DEF HandlersRight
<1>3. CASE Alters(c, f)
  <2>1. PICK k \in Ids : /\ Touches(c, k) /\ About(f, k) /\ Right(f, k)'
                         /\ \A j \in Ids \ {k} : /\ j \in DOMAIN messages' <=> j \in DOMAIN messages
                                                 /\ j \in DOMAIN messages => messages'[j] = messages[j]
    BY <1>3 DEF Alters
  <2>2. /\ raced' \in {raced, raced \cup {k}}
        /\ \A d \in Clients \ {c} : k \in SpokenOf(d) => k \in raced'
    BY <2>1 DEF Touches
  <2>3. ASSUME NEW d \in Clients, NEW i \in Ids \ raced', NEW g, g = handling'[d] PROVE Right(g, i)'
    <3>1. CASE d = c /\ i = k
      BY <1>1, <2>1, <2>3, <3>1
    <3>2. CASE d = c /\ i # k
      <4>1. g = f
        BY <1>1, <2>3, <3>2
      <4>2. g.kind \in {"create", "update", "delete"} /\ g.id # i
        BY <2>1, <3>2, <4>1 DEF About
      <4> QED
        BY <4>2 DEF Right
    <3>3. CASE d # c
      <4>1. g = handling[d] /\ Right(g, i)
        BY <1>1, <2>2, <2>3, <3>3 DEF HandlersRight
      <4>2. CASE i # k
        <5>1. Alike(i)
          BY <2>1, <4>2 DEF Alike
        <5> QED
          BY <4>1, <5>1, AlikeShows
      <4>3. CASE i = k
        <5>1. i \notin SpokenOf(d)
          BY <2>2, <3>3, <4>3
        <5>2. /\ g.kind \in {"create", "update", "delete"} => g.id # i
              /\ g.kind = "page" => i \notin DOMAIN g.rows
          BY <4>1, <5>1 DEF SpokenOf
        <5> QED
          BY <5>2 DEF Right
      <4> QED
        BY <4>2, <4>3
    <3> QED
      BY <3>1, <3>2, <3>3
  <2>4. ASSUME NEW d \in Clients, NEW i \in Ids \ raced' PROVE Right(handling[d], i)'
    <3>1. PICK g : g = handling'[d]
      OBVIOUS
    <3>2. Right(g, i)'
      BY <2>3, <3>1
    <3> QED
      BY <3>1, <3>2 DEF Right, Shows
  <2> QED
    BY <2>2, <2>4 DEF HandlersRight
<1> QED
  BY <1>2, <1>3 DEF Replies

(* Serving keeps LogInv: what it changes is yet to be told of.             *)
LEMMA ServingLog ==
    ASSUME ChatTyped, LogInv, NEW c \in Clients, Serve(c)
    PROVE  LogInv'
<1>1. PICK f : Replies(c, f)
  BY ServingReplies
<1>2. Taking(c) /\ UNCHANGED <<log, floor, link, down, stale>> /\ DOMAIN messages' \subseteq Ids
  BY ServingReplies DEF Taking, clientVars, TableTyped
<1>3. HandlersRight' /\ raced \subseteq raced'
  BY <1>1, <1>2, ServingHandlers DEF LogInv
<1>4. ASSUME NEW i \in Ids, Settled(i)' PROVE Settled(i) /\ Alike(i) /\ ~About(f, i)
  BY <1>1, <1>2, <1>4, ServingKeeps
<1>5. \A d, n, i : Later(d, n, i)' <=> Later(d, n, i)
  BY <1>2 DEF Later, About
<1>6. WordsRight'
  <2> SUFFICES ASSUME NEW d \in Clients, NEW i \in Ids \ raced', Settled(i)', NEW n \in DOMAIN down[d]
               PROVE  Later(d, n, i)' \/ Right(down[d][n], i)'
    BY <1>2 DEF WordsRight
  <2>1. PICK g : g = down[d][n]
    OBVIOUS
  <2>2. Settled(i) /\ Alike(i) /\ i \in Ids \ raced
    BY <1>3, <1>4
  <2>3. Later(d, n, i) \/ Right(g, i)
    BY <2>1, <2>2 DEF LogInv, WordsRight
  <2>4. Later(d, n, i)' \/ Right(g, i)'
    BY <1>5, <2>2, <2>3, AlikeShows
  <2>5. g = down'[d][n]
    BY <1>2, <2>1
  <2> QED
    BY <2>4, <2>5 DEF Right, Shows
<1>7. LogRight'
  <2> SUFFICES ASSUME NEW d \in Clients, NEW i \in Ids \ (raced' \cup stale[d]), Settled(i)', ~Later(d, 0, i)'
               PROVE  /\ i \in DOMAIN log[d] => i \in DOMAIN messages' /\ messages'[i].text = log[d][i]
                      /\ i >= floor[d] /\ i \in DOMAIN messages' => i \in DOMAIN log[d]
    BY <1>2 DEF LogRight, Shows
  <2>1. Settled(i) /\ Alike(i) /\ i \in Ids \ (raced \cup stale[d]) /\ ~Later(d, 0, i)
    BY <1>3, <1>4, <1>5
  <2>2. /\ i \in DOMAIN log[d] => Shows(i, log[d][i])
        /\ i >= floor[d] /\ i \in DOMAIN messages => i \in DOMAIN log[d]
    BY <2>1 DEF LogInv, LogRight
  <2> QED
    BY <2>1, <2>2 DEF Alike, Shows
<1>8. NewestLast'
  <2> SUFFICES ASSUME NEW d \in Clients, NEW n \in DOMAIN down[d], down[d][n].kind = "create", down[d][n].newest,
                      NEW j \in DOMAIN messages', j > down[d][n].id, Settled(j)'
               PROVE  Later(d, n, j)'
    BY <1>2 DEF NewestLast
  <2>1. Settled(j) /\ j \in DOMAIN messages
    BY <1>2, <1>4 DEF Alike
  <2> QED
    BY <1>5, <2>1 DEF LogInv, NewestLast
<1>9. PagesCover'
  <2>1. ASSUME NEW d \in Clients, NEW g, Covered(d, g) PROVE Covered(d, g)'
    <3> SUFFICES ASSUME NEW j \in DOMAIN messages' \ raced', Reached(g) <= j, j < g.before, j \notin DOMAIN g.rows,
                        Settled(j)'
                 PROVE  Later(d, 0, j)' \/ j \in DOMAIN log'[d]
      BY DEF Covered, Reached
    <3>1. Settled(j) /\ j \in DOMAIN messages \ raced
      BY <1>2, <1>3, <1>4 DEF Alike
    <3> QED
      BY <1>2, <1>5, <2>1, <3>1 DEF Covered
  <2>2. handling' = [handling EXCEPT ![c] = f]
    BY <1>1 DEF Replies
  <2>3. ASSUME NEW d \in Clients, link[d], NEW g, g = handling'[d], g.kind = "page" PROVE Covered(d, g)'
    <3>1. CASE d # c
      BY <2>1, <2>2, <2>3, <3>1 DEF LogInv, PagesCover, ChatTyped
    <3>2. CASE d = c
      <4>1. g = f
        BY <2>2, <2>3, <3>2 DEF ChatTyped
      <4>2. ~Alters(c, f)
        BY <2>3, <4>1 DEF Alters, About
      <4>3. messages' = messages /\ \A j \in DOMAIN messages : Reached(f) <= j /\ j < f.before => j \in DOMAIN f.rows
        BY <1>1, <2>3, <4>1, <4>2 DEF Replies, Tells
      <4> QED
        BY <4>1, <4>3 DEF Covered, Reached
    <3> QED
      BY <3>1, <3>2
  <2>4. ASSUME NEW d \in Clients, NEW n \in DOMAIN down[d], NEW g, g = down[d][n], g.kind = "page"
        PROVE  Covered(d, g)'
    BY <2>1, <2>4 DEF LogInv, PagesCover
  <2>5. ASSUME NEW d \in Clients, link'[d], handling'[d].kind = "page" PROVE Covered(d, handling[d])'
    <3>1. PICK g : g = handling'[d]
      OBVIOUS
    <3>2. Covered(d, g)'
      BY <1>2, <2>3, <2>5, <3>1
    <3> QED
      BY <3>1, <3>2 DEF Covered, Reached
  <2>6. ASSUME NEW d \in Clients, NEW n \in DOMAIN down'[d], down'[d][n].kind = "page"
        PROVE  Covered(d, down[d][n])'
    <3>1. PICK g : g = down'[d][n]
      OBVIOUS
    <3>2. Covered(d, g)'
      BY <1>2, <2>4, <2>6, <3>1
    <3> QED
      BY <3>1, <3>2 DEF Covered, Reached
  <2> QED
    BY <2>5, <2>6 DEF PagesCover
<1> QED
  BY <1>3, <1>6, <1>7, <1>8, <1>9 DEF LogInv

(* Everybody hears of a change.                                            *)
LEMMA HeardByAll ==
    ASSUME ChatTyped, NEW c \in Clients, NEW i, About(handling[c], i), NEW d \in Clients
    PROVE  d \in HeardBy(c)
<1> QED
  BY DEF About, HeardBy

(* After a handler's words went out: what was on its way is still before   *)
(* them, and they are last.                                                *)
LEMMA EmitAppends ==
    ASSUME ChatTyped, NEW c \in Clients, Emit(c), NEW d \in Clients
    PROVE  /\ \A n \in DOMAIN down[d] : n \in DOMAIN down'[d] /\ down'[d][n] = down[d][n]
           /\ \A n \in DOMAIN down'[d] :
                 \/ n \in DOMAIN down[d]
                 \/ /\ link[d] /\ d \in HeardBy(c) /\ down'[d][n] = For(d, c)
                    /\ \A m \in DOMAIN down'[d] : m <= n
           /\ link[d] /\ d \in HeardBy(c) =>
                 \E m \in DOMAIN down'[d] : /\ down'[d][m] = For(d, c)
                                            /\ \A n \in DOMAIN down[d] : m > n
                                            /\ m > 0
           /\ \A n \in DOMAIN down'[d] : n \in Nat
<1>1. down[d] \in Seq(Frames) /\ down'[d] \in Seq(Frames)
  BY EmitSends DEF ChatTyped
<1>2. CASE down'[d] = down[d] /\ ~(link[d] /\ d \in HeardBy(c))
  BY <1>1, <1>2
<1>3. CASE link[d] /\ d \in HeardBy(c) /\ down'[d] = Append(down[d], For(d, c))
  <2> DEFINE m == Len(down[d]) + 1
  <2>1. /\ DOMAIN down'[d] = 1 .. m /\ DOMAIN down[d] = 1 .. (m - 1) /\ m \in Nat \ {0}
        /\ down'[d][m] = For(d, c)
        /\ \A n \in 1 .. (m - 1) : down'[d][n] = down[d][n]
    BY <1>1, <1>3
  <2>2. \A n \in DOMAIN down[d] : n \in DOMAIN down'[d] /\ down'[d][n] = down[d][n] /\ m > n
    BY <2>1
  <2>3. \A n \in DOMAIN down'[d] : n \in Nat /\ (n \in DOMAIN down[d] \/ n = m) /\ n <= m
    BY <2>1
  <2>4. m \in DOMAIN down'[d] /\ m > 0
    BY <2>1
  <2> HIDE DEF m
  <2> QED
    BY <1>3, <2>1, <2>2, <2>3, <2>4
<1> QED
  BY <1>2, <1>3, EmitSends

(* What is yet to come stays so; and what the handler told about a message *)
(* is yet to come to everybody there.                                      *)
LEMMA EmitLater ==
    ASSUME ChatTyped, NEW c \in Clients, Emit(c), NEW d \in Clients, NEW i
    PROVE  /\ \A n : Later(d, n, i) => Later(d, n, i)'
           /\ link[d] /\ About(handling[c], i) =>
                Later(d, 0, i)' /\ \A n \in DOMAIN down[d] : Later(d, n, i)'
<1>1. \A n : Later(d, n, i) => Later(d, n, i)'
  BY EmitAppends DEF Later, About
<1>2. ASSUME link[d], About(handling[c], i)
      PROVE  Later(d, 0, i)' /\ \A n \in DOMAIN down[d] : Later(d, n, i)'
  <2>1. d \in HeardBy(c)
    BY <1>2, HeardByAll
  <2>2. PICK m \in DOMAIN down'[d] : /\ down'[d][m] = For(d, c)
                                     /\ \A n \in DOMAIN down[d] : m > n
                                     /\ m > 0
    BY <1>2, <2>1, EmitAppends
  <2>3. PICK g : g = For(d, c)
    OBVIOUS
  <2>4. SaysAs(g, handling[c])
    BY <2>3, EmitSends, ForSays
  <2>5. About(g, i)
    BY <1>2, <2>4, SaysRight
  <2>6. About(down'[d][m], i)
    BY <2>2, <2>3, <2>5
  <2> QED
    BY <2>2, <2>6 DEF Later, About
<1> QED
  BY <1>1, <1>2

\* Whoever still has to tell of i is c, if anybody was and nobody is any more.
LEMMA EmitSettles ==
    ASSUME ChatTyped, NEW c \in Clients, Emit(c), NEW i
    PROVE  /\ Settled(i)' => Settled(i) \/ About(handling[c], i)
           /\ \A d \in Clients : ~link[d] => down'[d] = <<>> /\ ~\E n : Later(d, n, i)'
<1>1. handling' = [handling EXCEPT ![c] = Silent] /\ handling \in [Clients -> Said]
  BY EmitSends DEF ChatTyped
<1>2. Settled(i)' => Settled(i) \/ About(handling[c], i)
  <2> SUFFICES ASSUME Settled(i)', ~About(handling[c], i), NEW d \in Clients PROVE ~About(handling[d], i)
    BY DEF Settled
  <2>1. CASE d = c
    BY <2>1
  <2>2. CASE d # c
    <3>1. handling'[d] = handling[d]
      BY <1>1, <2>2
    <3> QED
      BY <3>1 DEF Settled, About
  <2> QED
    BY <2>1, <2>2
<1>3. \A d \in Clients : ~link[d] => down'[d] = <<>>
  BY EmitSends DEF ChatTyped
<1> QED
  BY <1>2, <1>3 DEF Later

(* Sending keeps LogInv: who is away misses it.                            *)
LEMMA EmitLog ==
    ASSUME ChatTyped, LogInv, NEW c \in Clients, Emit(c)
    PROVE  LogInv'
<1>1. /\ handling' = [handling EXCEPT ![c] = Silent] /\ handling \in [Clients -> Said]
      /\ UNCHANGED <<messages, raced, log, floor, link>> /\ handling[c] # Silent
  BY EmitSends DEF ChatTyped, clientVars
<1>2. \A i : Alike(i)
  BY <1>1 DEF Alike
<1>3. HandlersRight'
  <2> SUFFICES ASSUME NEW d \in Clients, NEW i \in Ids \ raced PROVE Right(handling[d], i)'
    BY <1>1 DEF HandlersRight
  <2>1. PICK g : g = handling'[d]
    OBVIOUS
  <2>2. Right(g, i)
    <3>1. CASE d = c
      BY <1>1, <2>1, <3>1 DEF Silent, Right
    <3>2. CASE d # c
      BY <1>1, <2>1, <3>2 DEF LogInv, HandlersRight
    <3> QED
      BY <3>1, <3>2
  <2>3. Right(g, i)'
    BY <1>2, <2>2, AlikeShows
  <2> QED
    BY <2>1, <2>3 DEF Right, Shows
<1>4. WordsRight'
  <2> SUFFICES ASSUME NEW d \in Clients, NEW i \in Ids \ raced, Settled(i)', NEW n \in DOMAIN down'[d],
                      ~Later(d, n, i)', NEW g, g = down'[d][n]
               PROVE  Right(g, i)
    <3>1. \A d \in Clients : \A i \in Ids \ raced : Settled(i)' => \A n \in DOMAIN down'[d] :
              Later(d, n, i)' \/ Right(down'[d][n], i)
      OBVIOUS
    <3>2. \A d \in Clients : \A i : \A n \in DOMAIN down'[d] : Right(down[d][n], i)' <=> Right(down'[d][n], i)
      BY <1>1 DEF Right, Shows
    <3> QED
      BY <1>1, <3>1, <3>2 DEF WordsRight
  <2>1. link[d]
    BY EmitSettles
  <2>2. CASE n \in DOMAIN down[d]
    <3>1. ~About(handling[c], i) /\ ~Later(d, n, i)
      BY <2>1, <2>2, EmitLater
    <3>2. Settled(i) /\ g = down[d][n]
      BY <2>2, <3>1, EmitSettles, EmitAppends
    <3> QED
      BY <2>2, <3>1, <3>2 DEF LogInv, WordsRight
  <2>3. CASE n \notin DOMAIN down[d]
    <3>1. g = For(d, c) 
      BY <2>3, EmitAppends
    <3>2. SaysAs(g, handling[c])
      BY <1>1, <3>1, ForSays
    <3>3. Right(handling[c], i)
      BY DEF LogInv, HandlersRight
    <3> QED
      BY <3>2, <3>3, SaysRight
  <2> QED
    BY <2>2, <2>3
<1>5. LogRight'
  <2> SUFFICES ASSUME NEW d \in Clients, NEW i \in Ids \ (raced \cup stale'[d]), Settled(i)', ~Later(d, 0, i)'
               PROVE  /\ i \in DOMAIN log[d] => Shows(i, log[d][i])
                      /\ i >= floor[d] /\ i \in DOMAIN messages => i \in DOMAIN log[d]
    BY <1>1 DEF LogRight, Shows
  <2>1. ~Later(d, 0, i)
    BY EmitLater
  <2>2. stale[d] \subseteq stale'[d]
    BY EmitSends
  <2>3. CASE Settled(i)
    BY <2>1, <2>2, <2>3 DEF LogInv, LogRight
  <2>4. CASE About(handling[c], i)
    <3>1. ~link[d]
      BY <2>4, EmitLater
    <3>2. handling[c].kind \in {"create", "update", "delete"} /\ handling[c].id = i
      BY <2>4 DEF About
    <3>3. ~Holds(d, i)
      BY <3>1, <3>2, EmitSends
    <3> QED
      BY <3>3 DEF Holds
  <2> QED
    BY <2>3, <2>4, EmitSettles
<1>6. NewestLast'
  <2> SUFFICES ASSUME NEW d \in Clients, NEW n \in DOMAIN down'[d], NEW g, g = down'[d][n],
                      g.kind = "create", g.newest,
                      NEW j \in DOMAIN messages, j > g.id, Settled(j)'
               PROVE  Later(d, n, j)'
    BY <1>1 DEF NewestLast
  <2>1. link[d]
    BY EmitSettles
  <2>2. CASE n \in DOMAIN down[d]
    <3>1. g = down[d][n]
      BY <2>2, EmitAppends
    <3>2. ~Settled(j) \/ Later(d, n, j)
      BY <2>2, <3>1 DEF LogInv, NewestLast
    <3> QED
      BY <2>1, <2>2, <3>2, EmitLater, EmitSettles
  <2>3. CASE n \notin DOMAIN down[d]
    <3>1. g = For(d, c)
      BY <2>3, EmitAppends
    <3>2. SaysAs(g, handling[c])
      BY <1>1, <3>1, ForSays
    <3>3. j <= g.id /\ g.id \in Ids /\ j \in Ids
      BY <3>2, FrameFields DEF SaysAs, ChatTyped
    <3> QED
      BY <3>3, ChatAssumption DEF Ids
  <2> QED
    BY <2>2, <2>3
<1>7. PagesCover'
  <2>1. ASSUME NEW d \in Clients, link[d], NEW g, Covered(d, g) PROVE Covered(d, g)'
    <3> SUFFICES ASSUME NEW j \in DOMAIN messages \ raced, Reached(g) <= j, j < g.before, j \notin DOMAIN g.rows,
                        Settled(j)'
                 PROVE  Later(d, 0, j)' \/ j \in DOMAIN log[d]
      BY <1>1 DEF Covered, Reached
    <3>1. ~Settled(j) \/ Later(d, 0, j) \/ j \in DOMAIN log[d]
      BY <2>1 DEF Covered
    <3> QED
      BY <2>1, <3>1, EmitLater, EmitSettles
  <2>2. ASSUME NEW d \in Clients, link[d], NEW g, g = handling'[d], g.kind = "page" PROVE Covered(d, g)'
    <3>1. d # c
      BY <1>1, <2>2 DEF Silent
    <3>2. g = handling[d]
      BY <1>1, <2>2, <3>1
    <3> QED
      BY <2>1, <2>2, <3>2 DEF LogInv, PagesCover
  <2>3. ASSUME NEW d \in Clients, NEW n \in DOMAIN down'[d], NEW g, g = down'[d][n], g.kind = "page"
        PROVE  Covered(d, g)'
    <3>1. link[d]
      BY EmitSettles
    <3>2. CASE n \in DOMAIN down[d]
      <4>1. g = down[d][n]
        BY <2>3, <3>2, EmitAppends
      <4> QED
        BY <2>1, <2>3, <3>1, <3>2, <4>1 DEF LogInv, PagesCover
    <3>3. CASE n \notin DOMAIN down[d]
      <4>1. g = For(d, c) /\ d \in HeardBy(c)
        BY <2>3, <3>3, EmitAppends
      <4>2. SaysAs(g, handling[c])
        BY <1>1, <4>1, ForSays
      <4>3. g = handling[c] /\ d = c
        BY <2>3, <4>1, <4>2 DEF SaysAs, HeardBy
      <4> QED
        BY <2>1, <2>3, <3>1, <4>3 DEF LogInv, PagesCover
    <3> QED
      BY <3>2, <3>3
  <2>4. ASSUME NEW d \in Clients, link'[d], handling'[d].kind = "page" PROVE Covered(d, handling[d])'
    <3>1. PICK g : g = handling'[d]
      OBVIOUS
    <3>2. Covered(d, g)'
      BY <1>1, <2>2, <2>4, <3>1
    <3> QED
      BY <3>1, <3>2 DEF Covered, Reached
  <2>5. ASSUME NEW d \in Clients, NEW n \in DOMAIN down'[d], down'[d][n].kind = "page"
        PROVE  Covered(d, down[d][n])'
    <3>1. PICK g : g = down'[d][n]
      OBVIOUS
    <3>2. Covered(d, g)'
      BY <2>3, <2>5, <3>1
    <3> QED
      BY <3>1, <3>2 DEF Covered, Reached
  <2> QED
    BY <2>4, <2>5 DEF PagesCover
<1> QED
  BY <1>3, <1>4, <1>5, <1>6, <1>7 DEF LogInv

(* The rest of the line moves up by one.                                   *)
LEMMA HearsLater ==
    ASSUME ChatTyped, NEW c \in Clients, NEW f, Hears(c, f), NEW i
    PROVE  /\ \A d \in Clients \ {c} : down'[d] = down[d] /\ \A n : Later(d, n, i)' <=> Later(d, n, i)
           /\ \A n \in Nat : Later(c, n, i)' <=> Later(c, n + 1, i)
           /\ Later(c, 0, i) <=> About(f, i) \/ Later(c, 1, i)
           /\ f = down[c][1] /\ 1 \in DOMAIN down[c]
           /\ \A n \in DOMAIN down'[c] : n \in Nat /\ n + 1 \in DOMAIN down[c] /\ down'[c][n] = down[c][n + 1]
<1>1. /\ link[c] /\ down[c] # <<>> /\ f = Head(down[c])
      /\ down' = [down EXCEPT ![c] = Tail(@)] /\ down \in [Clients -> Seq(Frames)]
  BY DEF Hears, ChatTyped
<1>2. down'[c] = Tail(down[c]) /\ \A d \in Clients \ {c} : down'[d] = down[d]
  BY <1>1
<1>3. \A d \in Clients \ {c} : \A n : Later(d, n, i)' <=> Later(d, n, i)
  BY <1>2 DEF Later, About
<1>4. /\ f = down[c][1] /\ 1 \in DOMAIN down[c]
      /\ \A n \in DOMAIN down'[c] : n \in Nat /\ n + 1 \in DOMAIN down[c] /\ down'[c][n] = down[c][n + 1]
      /\ \A n \in DOMAIN down[c] : n \in Nat \ {0} /\ (n # 1 => n - 1 \in DOMAIN down'[c] /\ down'[c][n - 1] = down[c][n])
  BY <1>1, <1>2, HeadHeard
<1>5. ASSUME NEW n \in Nat PROVE Later(c, n, i)' <=> Later(c, n + 1, i)
  <2>1. ASSUME NEW m \in DOMAIN down'[c], m > n, About(down'[c][m], i)
        PROVE  Later(c, n + 1, i)
    <3>1. m + 1 \in DOMAIN down[c] /\ m + 1 > n + 1 /\ About(down[c][m + 1], i)
      BY <1>4, <2>1
    <3> QED
      BY <3>1 DEF Later
  <2>2. ASSUME NEW m \in DOMAIN down[c], m > n + 1, About(down[c][m], i)
        PROVE  \E k \in DOMAIN down'[c] : k > n /\ About(down'[c][k], i)
    <3>1. m - 1 \in DOMAIN down'[c] /\ m - 1 > n /\ About(down'[c][m - 1], i)
      BY <1>4, <2>2
    <3> QED
      BY <3>1
  <2> QED
    BY <2>1, <2>2 DEF Later, About
<1>6. Later(c, 0, i) <=> About(f, i) \/ Later(c, 1, i)
  BY <1>4 DEF Later
<1> QED
  BY <1>2, <1>3, <1>4, <1>5, <1>6

(* The log after a frame, for a message with nothing more to come about it. *)
LEMMA HeardRight ==
    ASSUME ChatTyped, LogInv, NEW c \in Clients, Apply(c), NEW f, Hears(c, f),
           NEW i \in Ids \ raced, Settled(i), ~Later(c, 1, i)
    PROVE  /\ About(f, i) => /\ i \in DOMAIN messages => i \in DOMAIN log'[c]
                             /\ i \in DOMAIN log'[c] => Shows(i, log'[c][i])
           /\ ~About(f, i) => /\ i \in DOMAIN log[c] => i \in DOMAIN log'[c]
                              /\ i \in DOMAIN log'[c] => \/ Shows(i, log'[c][i])
                                                         \/ i \in DOMAIN log[c] /\ log'[c][i] = log[c][i]
<1>1. Right(f, i)
  BY HearsLater DEF LogInv, WordsRight
<1>2. CASE Create(c)
  <2>1. /\ f.kind = "create" /\ DOMAIN log'[c] = DOMAIN log[c] \cup {f.id}
        /\ log'[c][f.id] = f.text /\ \A k \in DOMAIN log[c] \ {f.id} : log'[c][k] = log[c][k]
    BY <1>2, CreateIs
  <2> QED
    BY <1>1, <2>1 DEF About, Right
<1>3. CASE Update(c)
  <2>1. /\ f.kind = "update" /\ DOMAIN log'[c] = DOMAIN log[c] \cup {f.id}
        /\ log'[c][f.id] = f.text /\ \A k \in DOMAIN log[c] \ {f.id} : log'[c][k] = log[c][k]
    BY <1>3, UpdateIs
  <2> QED
    BY <1>1, <2>1 DEF About, Right
<1>4. CASE Delete(c)
  <2>1. /\ f.kind = "delete" /\ DOMAIN log'[c] = DOMAIN log[c] \ {f.id}
        /\ \A k \in DOMAIN log[c] \ {f.id} : log'[c][k] = log[c][k]
    BY <1>4, DeleteIs
  <2> QED
    BY <1>1, <2>1 DEF About, Right
<1>5. CASE Page(c)
  <2>1. /\ f \in Pages /\ DOMAIN log'[c] = DOMAIN log[c] \cup DOMAIN f.rows
        /\ \A k \in DOMAIN f.rows : log'[c][k] = f.rows[k]
        /\ \A k \in DOMAIN log[c] \ DOMAIN f.rows : log'[c][k] = log[c][k]
    BY <1>5, PageIs
  <2>2. f.kind = "page"
    BY <2>1, PageFields
  <2> QED
    BY <1>1, <2>1, <2>2 DEF About, Right
<1>6. CASE Refusal(c)
  <2>1. f.kind = "error" /\ log' = log
    BY <1>6 DEF Refusal, Next1, Hears
  <2> QED
    BY <2>1 DEF About
<1> QED
  BY <1>2, <1>3, <1>4, <1>5, <1>6 DEF Apply

(* Nobody else's log changes when a client applies a frame.                *)
LEMMA HeardOthers ==
    ASSUME ChatTyped, NEW c \in Clients, Apply(c), NEW f, Hears(c, f), NEW d \in Clients \ {c}
    PROVE  log'[d] = log[d] /\ floor'[d] = floor[d] /\ torn'[d] = torn[d] /\ complete'[d] = complete[d]
<1>1. /\ log \in [Clients -> Logs] /\ floor \in [Clients -> 0 .. Top]
      /\ torn \in [Clients -> BOOLEAN] /\ complete \in [Clients -> BOOLEAN]
  BY DEF ChatTyped
<1>2. CASE Create(c)
  <2>1. /\ log' = [log EXCEPT ![c] = Merged(log[c], One(f.id, f.text))]
        /\ floor' = [floor EXCEPT ![c] = floor'[c]] /\ torn' = [torn EXCEPT ![c] = torn'[c]]
        /\ complete' = complete
    BY <1>2, CreateIs
  <2> QED
    BY <1>1, <2>1
<1>3. CASE Update(c)
  <2>1. /\ log' = [log EXCEPT ![c] = Merged(log[c], One(f.id, f.text))]
        /\ torn' = [torn EXCEPT ![c] = torn'[c]] /\ UNCHANGED <<floor, complete>>
    BY <1>3, UpdateIs
  <2> QED
    BY <1>1, <2>1
<1>4. CASE Delete(c)
  <2>1. log' = [log EXCEPT ![c] = log'[c]] /\ UNCHANGED <<floor, complete, torn>>
    BY <1>4, DeleteIs
  <2> QED
    BY <1>1, <2>1
<1>5. CASE Page(c)
  <2>1. /\ log' = [log EXCEPT ![c] = Merged(log[c], f.rows)]
        /\ floor' = [floor EXCEPT ![c] = floor'[c]] /\ complete' = [complete EXCEPT ![c] = complete'[c]]
        /\ torn' = torn
    BY <1>5, PageIs
  <2> QED
    BY <1>1, <2>1
<1>6. CASE Refusal(c)
  BY <1>6 DEF Refusal
<1> QED
  BY <1>2, <1>3, <1>4, <1>5, <1>6 DEF Apply

(* The whole part of the log stays whole when it grows.                    *)
LEMMA HeardWhole ==
    ASSUME ChatTyped, LogInv, NEW c \in Clients, Apply(c), NEW f, Hears(c, f),
           NEW i \in Ids \ (raced \cup stale[c]), Settled(i), ~Later(c, 1, i), ~About(f, i),
           i >= floor'[c], i \in DOMAIN messages
    PROVE  i \in DOMAIN log'[c]
<1>1. ~Later(c, 0, i)
  BY HearsLater
<1>2. i \in DOMAIN log[c] => i \in DOMAIN log'[c]
  BY HeardRight
<1>3. CASE i >= floor[c]
  BY <1>1, <1>2, <1>3 DEF LogInv, LogRight
<1>4. CASE ~(i >= floor[c])
  <2>1. CASE Create(c)
    <3>1. f.kind = "create" /\ f.id \in Ids /\ f.newest /\ floor'[c] = f.id
      BY <1>4, <2>1, CreateIs
    <3>2. i # f.id
      BY <3>1 DEF About
    <3>3. i > f.id
      BY <3>1, <3>2, ChatAssumption DEF Ids
    <3>4. Later(c, 1, i)
      <4>1. f = down[c][1] /\ 1 \in DOMAIN down[c]
        BY HearsLater
      <4> QED
        BY <3>1, <3>3, <4>1 DEF LogInv, NewestLast
    <3> QED
      BY <3>4
  <2>2. CASE Update(c) \/ Delete(c) \/ Refusal(c)
    <3>1. floor' = floor
      BY <2>2, UpdateIs, DeleteIs DEF Refusal
    <3> QED
      BY <1>4, <3>1
  <2>3. CASE Page(c)
    <3>1. /\ f \in Pages /\ DOMAIN log'[c] = DOMAIN log[c] \cup DOMAIN f.rows
          /\ f.before < floor[c] => floor'[c] = floor[c]
          /\ f.before >= floor[c] => floor'[c] \in {floor[c], Reached(f)}
      BY <2>3, PageIs
    <3>2. f.kind = "page" /\ f.before \in 1 .. Top /\ Reached(f) \in 0 .. Top
      BY <3>1, PageFields
    <3>3. floor[c] \in 0 .. Top /\ MaxId \in Nat /\ Top = MaxId + 1 /\ i \in 1 .. MaxId
      BY ChatAssumption DEF ChatTyped, Top, Ids
    <3>4. f.before >= floor[c] /\ floor'[c] = Reached(f)
      BY <1>4, <3>1, <3>2, <3>3
    <3>5. Reached(f) <= i /\ i < f.before
      BY <1>4, <3>2, <3>3, <3>4
    <3>6. Covered(c, f)
      <4>1. f = down[c][1] /\ 1 \in DOMAIN down[c]
        BY HearsLater
      <4> QED
        BY <3>2, <4>1 DEF LogInv, PagesCover
    <3>7. i \in DOMAIN f.rows \/ i \in DOMAIN log[c]
      BY <1>1, <3>5, <3>6 DEF Covered
    <3> QED
      BY <3>1, <3>7
  <2> QED
    BY <2>1, <2>2, <2>3 DEF Apply
<1> QED
  BY <1>3, <1>4

(* Applying keeps LogInv.                                                  *)
LEMMA ApplyLog ==
    ASSUME ChatTyped, LogInv, NEW c \in Clients, Apply(c)
    PROVE  LogInv'
<1>1. PICK f : Hears(c, f)
  BY ApplyHears
<1>2. UNCHANGED <<messages, handling, raced, link, stale>>
  BY <1>1 DEF Hears, serverVars
<1>3. \A i, g : (Right(g, i)' <=> Right(g, i)) /\ (Settled(i)' <=> Settled(i))
  BY <1>2 DEF Right, Shows, Settled, About
<1>4. HandlersRight'
  BY <1>2 DEF LogInv, HandlersRight, Right, Shows
<1>5. WordsRight'
  <2>1. ASSUME NEW d \in Clients, NEW i \in Ids \ raced, Settled(i), NEW n \in DOMAIN down'[d],
               NEW g, g = down'[d][n]
        PROVE  Later(d, n, i)' \/ Right(g, i)
    <3>1. CASE d = c
      <4>1. /\ n \in Nat /\ n + 1 \in DOMAIN down[c] /\ g = down[c][n + 1]
            /\ Later(c, n, i)' <=> Later(c, n + 1, i)
        BY <1>1, <2>1, <3>1, HearsLater
      <4> QED
        BY <2>1, <3>1, <4>1 DEF LogInv, WordsRight
    <3>2. CASE d # c
      <4>1. down'[d] = down[d] /\ (Later(d, n, i)' <=> Later(d, n, i))
        BY <1>1, <3>2, HearsLater
      <4> QED
        BY <2>1, <4>1 DEF LogInv, WordsRight
    <3> QED
      BY <3>1, <3>2
  <2>2. ASSUME NEW d \in Clients, NEW i \in Ids \ raced, Settled(i), NEW n \in DOMAIN down'[d]
        PROVE  Later(d, n, i)' \/ Right(down[d][n], i)'
    <3>1. PICK g : g = down'[d][n]
      OBVIOUS
    <3>2. Later(d, n, i)' \/ Right(g, i)'
      BY <1>3, <2>1, <2>2, <3>1
    <3> QED
      BY <3>1, <3>2 DEF Right, Shows
  <2> QED
    BY <1>2, <1>3, <2>2 DEF WordsRight
<1>6. LogRight'
  <2> SUFFICES ASSUME NEW d \in Clients, NEW i \in Ids \ (raced \cup stale[d]), Settled(i), ~Later(d, 0, i)'
               PROVE  /\ i \in DOMAIN log'[d] => Shows(i, log'[d][i])
                      /\ i >= floor'[d] /\ i \in DOMAIN messages => i \in DOMAIN log'[d]
    BY <1>2, <1>3 DEF LogRight, Shows
  <2>1. CASE d # c
    <3>1. log'[d] = log[d] /\ floor'[d] = floor[d] /\ ~Later(d, 0, i)
      BY <1>1, <2>1, HeardOthers, HearsLater
    <3> QED
      BY <3>1 DEF LogInv, LogRight
  <2>2. CASE d = c
    <3>1. ~Later(c, 1, i)
      <4>1. 0 \in Nat /\ 0 + 1 = 1
        OBVIOUS
      <4> QED
        BY <1>1, <2>2, <4>1, HearsLater
    <3>2. CASE About(f, i)
      BY <1>1, <2>2, <3>1, <3>2, HeardRight
    <3>3. CASE ~About(f, i)
      <4>1. /\ i \in DOMAIN log'[c] => \/ Shows(i, log'[c][i])
                                       \/ i \in DOMAIN log[c] /\ log'[c][i] = log[c][i]
            /\ ~Later(c, 0, i)
        BY <1>1, <3>1, <3>3, HeardRight, HearsLater
      <4>2. i \in DOMAIN log[c] => Shows(i, log[c][i])
        BY <2>2, <4>1 DEF LogInv, LogRight
      <4>3. i >= floor'[c] /\ i \in DOMAIN messages => i \in DOMAIN log'[c]
        BY <1>1, <2>2, <3>1, <3>3, HeardWhole
      <4> QED
        BY <2>2, <4>1, <4>2, <4>3
    <3> QED
      BY <3>2, <3>3
  <2> QED
    BY <2>1, <2>2
<1>7. NewestLast'
  <2> SUFFICES ASSUME NEW d \in Clients, NEW n \in DOMAIN down'[d], NEW g, g = down'[d][n],
                      g.kind = "create", g.newest,
                      NEW j \in DOMAIN messages, j > g.id, Settled(j)
               PROVE  Later(d, n, j)'
    BY <1>2, <1>3 DEF NewestLast
  <2>1. CASE d = c
    <3>1. /\ n \in Nat /\ n + 1 \in DOMAIN down[c] /\ g = down[c][n + 1]
          /\ Later(c, n, j)' <=> Later(c, n + 1, j)
      BY <1>1, <2>1, HearsLater
    <3> QED
      BY <2>1, <3>1 DEF LogInv, NewestLast
  <2>2. CASE d # c
    <3>1. down'[d] = down[d] /\ (Later(d, n, j)' <=> Later(d, n, j))
      BY <1>1, <2>2, HearsLater
    <3> QED
      BY <3>1 DEF LogInv, NewestLast
  <2> QED
    BY <2>1, <2>2
<1>8. PagesCover'
  <2>1. ASSUME NEW d \in Clients, NEW g, Covered(d, g) PROVE Covered(d, g)'
    <3> SUFFICES ASSUME NEW j \in DOMAIN messages \ raced, Reached(g) <= j, j < g.before, j \notin DOMAIN g.rows,
                        Settled(j), ~Later(d, 0, j)'
                 PROVE  j \in DOMAIN log'[d]
      BY <1>2, <1>3 DEF Covered, Reached
    <3>1. Later(d, 0, j) \/ j \in DOMAIN log[d]
      BY <2>1 DEF Covered
    <3>2. j \in Ids
      BY DEF ChatTyped
    <3>3. CASE d # c
      BY <1>1, <3>1, <3>3, HeardOthers, HearsLater
    <3>4. CASE d = c
      <4>1. ~Later(c, 1, j)
        <5>1. 0 \in Nat /\ 0 + 1 = 1
          OBVIOUS
        <5> QED
          BY <1>1, <3>4, <5>1, HearsLater
      <4>2. CASE About(f, j)
        BY <1>1, <3>2, <3>4, <4>1, <4>2, HeardRight
      <4>3. CASE ~About(f, j)
        <5>1. j \in DOMAIN log[c]
          BY <1>1, <3>1, <3>4, <4>1, <4>3, HearsLater
        <5> QED
          BY <1>1, <3>2, <3>4, <4>1, <4>3, <5>1, HeardRight
      <4> QED
        BY <4>2, <4>3
    <3> QED
      BY <3>3, <3>4
  <2>2. ASSUME NEW d \in Clients, link[d], NEW g, g = handling[d], g.kind = "page" PROVE Covered(d, g)'
    BY <2>1, <2>2 DEF LogInv, PagesCover
  <2>3. ASSUME NEW d \in Clients, NEW n \in DOMAIN down'[d], NEW g, g = down'[d][n], g.kind = "page"
        PROVE  Covered(d, g)'
    <3>1. \E m \in DOMAIN down[d] : g = down[d][m]
      BY <1>1, <2>3, HearsLater
    <3> QED
      BY <2>1, <2>3, <3>1 DEF LogInv, PagesCover
  <2>4. ASSUME NEW d \in Clients, link'[d], handling'[d].kind = "page" PROVE Covered(d, handling[d])'
    <3>1. PICK g : g = handling'[d]
      OBVIOUS
    <3>2. Covered(d, g)'
      BY <1>2, <2>2, <2>4, <3>1
    <3> QED
      BY <3>1, <3>2 DEF Covered, Reached
  <2>5. ASSUME NEW d \in Clients, NEW n \in DOMAIN down'[d], down'[d][n].kind = "page"
        PROVE  Covered(d, down[d][n])'
    <3>1. PICK g : g = down'[d][n]
      OBVIOUS
    <3>2. Covered(d, g)'
      BY <2>3, <2>5, <3>1
    <3> QED
      BY <3>1, <3>2 DEF Covered, Reached
  <2> QED
    BY <2>4, <2>5 DEF PagesCover
<1> QED
  BY <1>4, <1>5, <1>6, <1>7, <1>8 DEF LogInv

(* Coming and going keep LogInv: what is lost on the way is stale.         *)
LEMMA ComingLog ==
    ASSUME ChatTyped, LogInv, NEW c \in Clients, Coming(c)
    PROVE  LogInv'
<1>1. /\ UNCHANGED <<messages, handling, raced>>
      /\ \A d \in Clients \ {c} : down'[d] = down[d] /\ log'[d] = log[d] /\ floor'[d] = floor[d]
                                  /\ link'[d] = link[d] /\ stale'[d] = stale[d]
      /\ down'[c] = <<>>
  BY DEF Coming, Drop, Return, LogOut, serverVars, clientVars, ChatTyped
<1>2. \A i, g : (Right(g, i)' <=> Right(g, i)) /\ (Settled(i)' <=> Settled(i))
  BY <1>1 DEF Right, Shows, Settled, About
<1>3. \A d \in Clients \ {c} : \A n, i : Later(d, n, i)' <=> Later(d, n, i)
  BY <1>1 DEF Later, About
<1>4. HandlersRight'
  BY <1>1 DEF LogInv, HandlersRight, Right, Shows
<1>5. WordsRight'
  <2> SUFFICES ASSUME NEW d \in Clients, NEW i \in Ids \ raced, Settled(i), NEW n \in DOMAIN down'[d]
               PROVE  Later(d, n, i)' \/ Right(down[d][n], i)'
    BY <1>1, <1>2 DEF WordsRight
  <2>1. d # c
    BY <1>1
  <2>2. Later(d, n, i) \/ Right(down[d][n], i)
    BY <1>1, <2>1 DEF LogInv, WordsRight
  <2> QED
    BY <1>1, <1>3, <2>1, <2>2 DEF Right, Shows
<1>6. LogRight'
  <2> SUFFICES ASSUME NEW d \in Clients, NEW i \in Ids \ (raced \cup stale'[d]), Settled(i), ~Later(d, 0, i)'
               PROVE  /\ i \in DOMAIN log'[d] => Shows(i, log'[d][i])
                      /\ i >= floor'[d] /\ i \in DOMAIN messages => i \in DOMAIN log'[d]
    BY <1>1, <1>2 DEF LogRight, Shows
  <2>1. CASE d # c
    BY <1>1, <1>3, <2>1 DEF LogInv, LogRight
  <2>2. CASE d = c /\ Drop(c)
    <3>1. log' = log /\ floor' = floor
          /\ stale' = [stale EXCEPT ![c] = @ \cup {k \in AboutMessages(down[c]) : Holds(c, k)}]
      BY <2>2 DEF Drop, clientVars
    <3>2. i \notin stale[c] /\ ~(i \in AboutMessages(down[c]) /\ Holds(c, i))
      BY <2>2, <3>1 DEF ChatTyped
    <3>3. CASE Later(c, 0, i)
      <4>1. ~Holds(c, i)
        BY <3>2, <3>3, AboutMessagesAre
      <4> QED
        BY <2>2, <3>1, <4>1 DEF Holds
    <3>4. CASE ~Later(c, 0, i)
      BY <2>2, <3>1, <3>2, <3>4 DEF LogInv, LogRight
    <3> QED
      BY <3>3, <3>4
  <2>3. CASE d = c /\ Return(c)
    <3>1. log' = log /\ floor' = floor /\ stale' = stale /\ down' = down
      BY <2>3 DEF Return, clientVars
    <3>2. ~Later(c, 0, i)
      BY <2>3, <3>1 DEF Later, About
    <3> QED
      BY <2>3, <3>1, <3>2 DEF LogInv, LogRight
  <2>4. CASE d = c /\ LogOut(c)
    <3>1. log'[c] = Nothing /\ floor'[c] = Top
      BY <2>4 DEF LogOut, ChatTyped
    <3>2. ~(i >= Top)
      BY ChatAssumption DEF Top, Ids
    <3> QED
      BY <2>4, <3>1, <3>2, NothingIs
  <2> QED
    BY <2>1, <2>2, <2>3, <2>4 DEF Coming
<1>7. NewestLast'
  <2> SUFFICES ASSUME NEW d \in Clients, NEW n \in DOMAIN down'[d], NEW g, g = down'[d][n],
                      g.kind = "create", g.newest,
                      NEW j \in DOMAIN messages, j > g.id, Settled(j)
               PROVE  Later(d, n, j)'
    BY <1>1, <1>2 DEF NewestLast
  <2>1. d # c
    BY <1>1
  <2> QED
    BY <1>1, <1>3, <2>1 DEF LogInv, NewestLast
<1>8. PagesCover'
  <2>1. ASSUME NEW d \in Clients \ {c}, NEW g, Covered(d, g) PROVE Covered(d, g)'
    BY <1>1, <1>2, <1>3, <2>1 DEF Covered, Reached
  <2>2. ASSUME link'[c], handling[c].kind = "page" PROVE FALSE
    <3>1. CASE Return(c)
      BY <2>2, <3>1 DEF Return, Silent
    <3>2. CASE ~Return(c)
      BY <2>2, <3>2 DEF Coming, Drop, LogOut, ChatTyped
    <3> QED
      BY <3>1, <3>2
  <2>3. ASSUME NEW d \in Clients, link'[d], handling'[d].kind = "page" PROVE Covered(d, handling[d])'
    <3>1. d # c
      BY <1>1, <2>2, <2>3
    <3>2. PICK g : g = handling'[d]
      OBVIOUS
    <3>3. Covered(d, g)'
      BY <1>1, <2>1, <2>3, <3>1, <3>2 DEF LogInv, PagesCover
    <3> QED
      BY <3>2, <3>3 DEF Covered, Reached
  <2>4. ASSUME NEW d \in Clients, NEW n \in DOMAIN down'[d], down'[d][n].kind = "page"
        PROVE  Covered(d, down[d][n])'
    <3>1. d # c
      BY <1>1
    <3>2. PICK g : g = down'[d][n]
      OBVIOUS
    <3>3. Covered(d, g)'
      BY <1>1, <2>1, <2>4, <3>1, <3>2 DEF LogInv, PagesCover
    <3> QED
      BY <3>2, <3>3 DEF Covered, Reached
  <2> QED
    BY <2>3, <2>4 DEF PagesCover
<1> QED
  BY <1>4, <1>5, <1>6, <1>7, <1>8 DEF LogInv

(* LogInv holds at the start.                                              *)
LEMMA ChatStartLog == ChatInit => LogInv
<1> SUFFICES ASSUME ChatInit PROVE LogInv
  OBVIOUS
<1>1. /\ \A c \in Clients : down[c] = <<>> /\ handling[c] = Silent /\ log[c] = Nothing /\ floor[c] = Top
      /\ DOMAIN messages \subseteq Ids
  BY ChatStartTyped DEF ChatInit, ChatTyped
<1>2. MaxId \in Nat /\ Top = MaxId + 1 /\ Ids = 1 .. MaxId
  BY ChatAssumption DEF Top, Ids
<1>3. HandlersRight
  BY <1>1 DEF HandlersRight, Right, Silent
<1>4. WordsRight /\ NewestLast
  BY <1>1 DEF WordsRight, NewestLast
<1>5. LogRight
  BY <1>1, <1>2, NothingIs DEF LogRight
<1>6. PagesCover
  BY <1>1 DEF PagesCover, Silent
<1> QED
  BY <1>3, <1>4, <1>5, <1>6 DEF LogInv

-----------------------------------------------------------------------------
(* The whole part of a log.                                                *)

\* What LogWhole says of one client.
Whole(c) ==
    /\ \A i \in DOMAIN log[c] : i >= floor[c]
    /\ \A n \in DOMAIN up[c] : up[c][n].op = "history" => up[c][n].before >= floor[c]
    /\ link[c] /\ handling[c].kind = "page" => handling[c].before >= floor[c]
    /\ \A n \in DOMAIN down[c] : down[c][n].kind = "page" => down[c][n].before >= floor[c]
    /\ complete[c] => floor[c] = 0

(* LogWhole is about each client.                                          *)
LEMMA WholeEach ==
    (LogWhole <=> \A c \in Clients : ~torn[c] => Whole(c))
<1> QED
  BY DEF LogWhole, Whole

(* It is kept where nothing changes.                                       *)
LEMMA WholeSame ==
    ASSUME NEW c, Whole(c), log'[c] = log[c], floor'[c] = floor[c], up'[c] = up[c], link'[c] = link[c],
           handling'[c] = handling[c], down'[c] = down[c], complete'[c] = complete[c]
    PROVE  Whole(c)'
<1> QED
  BY DEF Whole

(* Older messages are asked for from the least of the log.                 *)
LEMMA AskingWhole ==
    ASSUME ChatTyped, LogWhole, NEW c \in Clients, Asking(c)
    PROVE  LogWhole'
<1>1. PICK f : Asks(c, f)
  BY AskingAsks
<1>2. UNCHANGED <<handling, log, complete, floor, torn, link, down>>
  BY <1>1 DEF Asks
<1>3. ASSUME NEW d \in Clients, ~torn[d] PROVE Whole(d)'
  <2>1. Whole(d)
    BY <1>3, WholeEach
  <2>2. CASE up'[d] = up[d]
    BY <1>2, <2>1, <2>2, WholeSame
  <2>3. CASE d = c /\ link[c] /\ up'[d] = Append(up[d], f)
    <3>1. f.op = "history" => f.before >= floor[c]
      <4>1. CASE f.before = Top
        BY <4>1, ChatAssumption DEF ChatTyped, Top
      <4>2. CASE DOMAIN log[c] # {} /\ f.before = Min(DOMAIN log[c])
        <5>1. DOMAIN log[c] \in SUBSET Nat
          BY LogsAre, ChatAssumption DEF ChatTyped, Ids
        <5>2. Min(DOMAIN log[c]) \in DOMAIN log[c]
          BY <4>2, <5>1, LeastOf
        <5> QED
          BY <2>1, <2>3, <4>2, <5>2 DEF Whole
      <4> QED
        BY <1>1, <4>1, <4>2 DEF Asks
    <3>2. up[d] \in Seq(Requests) /\ f \in Requests
      BY <1>1 DEF ChatTyped, Asks
    <3>3. \A n \in DOMAIN up'[d] : up'[d][n] = f \/ (n \in DOMAIN up[d] /\ up'[d][n] = up[d][n])
      BY <2>3, <3>2
    <3>4. \A n \in DOMAIN up'[d] : up'[d][n].op = "history" => up'[d][n].before >= floor[d]
      BY <2>1, <2>3, <3>1, <3>3 DEF Whole
    <3> QED
      BY <1>2, <2>1, <3>4 DEF Whole
  <2> QED
    BY <1>1, <2>2, <2>3, AskedLast
<1> QED
  BY <1>2, <1>3, WholeEach DEF LogWhole, Whole

(* The page is from where it was asked for.                                *)
LEMMA ServingWhole ==
    ASSUME ChatTyped, LogWhole, NEW c \in Clients, Serve(c)
    PROVE  LogWhole'
<1>1. PICK f : Replies(c, f)
  BY ServingReplies
<1>2. /\ UNCHANGED <<log, complete, floor, torn, link, down>>
      /\ up' = [up EXCEPT ![c] = Tail(@)] /\ up[c] # <<>>
      /\ handling' = [handling EXCEPT ![c] = f]
  BY <1>1, ServingReplies DEF Taking, clientVars, Replies
<1>3. ASSUME NEW d \in Clients, ~torn[d] PROVE Whole(d)'
  <2>1. Whole(d)
    BY <1>3, WholeEach
  <2>2. CASE d # c
    <3>1. up'[d] = up[d] /\ handling'[d] = handling[d]
      BY <1>2, <2>2
    <3> QED
      BY <1>2, <2>1, <3>1, WholeSame
  <2>3. CASE d = c
    <3>1. up[c] \in Seq(Requests) /\ up'[c] = Tail(up[c]) /\ handling'[c] = f
      BY <1>2 DEF ChatTyped
    <3>2. /\ \A n \in DOMAIN up'[c] : \E m \in DOMAIN up[c] : up'[c][n] = up[c][m]
          /\ 1 \in DOMAIN up[c] /\ Head(up[c]) = up[c][1]
      BY <1>2, <3>1, Rest
    <3>3. f.kind = "page" => f.before >= floor[c]
      <4>1. f.kind = "page" => Head(up[c]).op = "history" /\ f.before = Head(up[c]).before
        BY <1>1 DEF Replies, Tells, Alters, About
      <4> QED
        BY <2>1, <2>3, <3>2, <4>1 DEF Whole
    <3>4. \A n \in DOMAIN up'[c] : up'[c][n].op = "history" => up'[c][n].before >= floor[c]
      BY <2>1, <2>3, <3>2 DEF Whole
    <3> QED
      BY <1>2, <2>1, <2>3, <3>1, <3>3, <3>4 DEF Whole
  <2> QED
    BY <2>2, <2>3
<1> QED
  BY <1>2, <1>3, WholeEach DEF LogWhole, Whole

(* And it is sent as it is.                                                *)
LEMMA EmitWhole ==
    ASSUME ChatTyped, LogWhole, NEW c \in Clients, Emit(c)
    PROVE  LogWhole'
<1>1. /\ handling' = [handling EXCEPT ![c] = Silent] /\ handling \in [Clients -> Said] /\ handling[c] # Silent
      /\ UNCHANGED <<log, complete, floor, torn, link, up>>
  BY EmitSends DEF ChatTyped, clientVars
<1>2. ASSUME NEW d \in Clients, ~torn[d] PROVE Whole(d)'
  <2>1. Whole(d)
    BY <1>2, WholeEach
  <2>2. ASSUME NEW n \in DOMAIN down'[d], NEW g, g = down'[d][n], g.kind = "page" PROVE g.before >= floor[d]
    <3>1. CASE n \in DOMAIN down[d]
      <4>1. g = down[d][n]
        BY <2>2, <3>1, EmitAppends
      <4> QED
        BY <2>1, <2>2, <3>1, <4>1 DEF Whole
    <3>2. CASE n \notin DOMAIN down[d]
      <4>1. g = For(d, c) /\ d \in HeardBy(c) /\ link[d]
        BY <2>2, <3>2, EmitAppends
      <4>2. SaysAs(g, handling[c])
        BY <1>1, <4>1, ForSays
      <4>3. g = handling[c] /\ d = c
        BY <2>2, <4>1, <4>2 DEF SaysAs, HeardBy
      <4> QED
        BY <2>1, <2>2, <4>1, <4>3 DEF Whole
    <3> QED
      BY <3>1, <3>2
  <2>3. handling'[d].kind = "page" => handling'[d] = handling[d]
    BY <1>1 DEF Silent
  <2> QED
    BY <1>1, <2>1, <2>2, <2>3 DEF Whole
<1> QED
  BY <1>1, <1>2, WholeEach DEF LogWhole, Whole

(* The whole part grows down to what the page reaches.                     *)
LEMMA ApplyWhole ==
    ASSUME ChatTyped, LogWhole, NEW c \in Clients, Apply(c)
    PROVE  LogWhole'
<1>1. PICK f : Hears(c, f)
  BY ApplyHears
<1>2. UNCHANGED <<handling, link, up>>
  BY <1>1 DEF Hears, serverVars
<1>3. ASSUME NEW d \in Clients \ {c}, ~torn'[d] PROVE Whole(d)'
  <2>1. log'[d] = log[d] /\ floor'[d] = floor[d] /\ torn'[d] = torn[d] /\ complete'[d] = complete[d]
    BY <1>1, HeardOthers
  <2>2. down'[d] = down[d]
    BY <1>1, HearsLater
  <2>3. Whole(d)
    BY <1>3, <2>1, WholeEach
  <2> QED
    BY <1>2, <2>1, <2>2, <2>3, WholeSame
<1>4. /\ \A n \in DOMAIN down'[c] : n + 1 \in DOMAIN down[c] /\ down'[c][n] = down[c][n + 1]
      /\ f = down[c][1] /\ 1 \in DOMAIN down[c]
  BY <1>1, HearsLater
<1>5. /\ MaxId \in Nat /\ Top = MaxId + 1 /\ Ids = 1 .. MaxId /\ floor[c] \in 0 .. Top
      /\ DOMAIN log[c] \subseteq Ids
  BY ChatAssumption, LogsAre DEF Top, Ids, ChatTyped
<1>6. \A n \in DOMAIN up[c] : up[c][n].op = "history" => up[c][n].before \in 1 .. Top
  <2>1. \A n \in DOMAIN up[c] : up[c][n] \in Requests
    BY DEF ChatTyped
  <2> QED
    BY <2>1, Carried
<1>7. handling[c].kind = "page" => handling[c].before \in 1 .. Top
  BY SaidFields, PageFields DEF ChatTyped
<1>8. \A n \in DOMAIN down[c] : down[c][n].kind = "page" => down[c][n].before \in 1 .. Top
  <2>1. \A n \in DOMAIN down[c] : down[c][n] \in Frames
    BY DEF ChatTyped
  <2> QED
    BY <2>1, FrameFields, PageFields
<1>9. ASSUME Whole(c), floor'[c] \in 0 .. Top, floor'[c] <= floor[c],
             \A i \in DOMAIN log'[c] : i >= floor'[c],
             complete'[c] => floor'[c] = 0
      PROVE  Whole(c)'
  <2>1. \A n \in DOMAIN up[c] : up[c][n].op = "history" => up[c][n].before >= floor'[c]
    BY <1>5, <1>6, <1>9 DEF Whole
  <2>2. link[c] /\ handling[c].kind = "page" => handling[c].before >= floor'[c]
    BY <1>5, <1>7, <1>9 DEF Whole
  <2>3. \A n \in DOMAIN down[c] : down[c][n].kind = "page" => down[c][n].before >= floor'[c]
    BY <1>5, <1>8, <1>9 DEF Whole
  <2>4. \A n \in DOMAIN down'[c] : down'[c][n].kind = "page" => down'[c][n].before >= floor'[c]
    BY <1>4, <2>3
  <2> QED
    BY <1>2, <1>9, <2>1, <2>2, <2>4 DEF Whole
<1>10. ASSUME ~torn'[c] PROVE Whole(c)'
  <2>1. CASE Create(c)
    <3>1. /\ f.id \in Ids /\ DOMAIN log'[c] = DOMAIN log[c] \cup {f.id}
          /\ floor'[c] = IF floor[c] = Top /\ f.newest THEN f.id ELSE floor[c]
          /\ torn'[c] <=> torn[c] \/ (f.id < floor'[c] /\ f.id \notin DOMAIN log[c])
          /\ complete' = complete
      BY <1>1, <2>1, CreateIs
    <3>2. Whole(c)
      BY <1>10, <3>1, WholeEach
    <3>3. \A i \in DOMAIN log[c] : i >= floor[c]
      BY <3>2 DEF Whole
    <3>4. floor'[c] \in 0 .. Top /\ floor'[c] <= floor[c]
      BY <1>5, <3>1
    <3>5. \A i \in DOMAIN log'[c] : i >= floor'[c]
      BY <1>5, <1>10, <3>1, <3>3, <3>4
    <3>6. complete'[c] => floor'[c] = 0
      BY <1>5, <3>1, <3>2 DEF Whole
    <3> QED
      BY <1>9, <3>2, <3>4, <3>5, <3>6
  <2>2. CASE Update(c)
    <3>1. /\ f.id \in Ids /\ DOMAIN log'[c] = DOMAIN log[c] \cup {f.id}
          /\ torn'[c] <=> torn[c] \/ (f.id < floor[c] /\ f.id \notin DOMAIN log[c])
          /\ UNCHANGED <<floor, complete>>
      BY <1>1, <2>2, UpdateIs
    <3>2. Whole(c)
      BY <1>10, <3>1, WholeEach
    <3>3. \A i \in DOMAIN log'[c] : i >= floor[c]
      BY <1>5, <1>10, <3>1, <3>2 DEF Whole
    <3> QED
      BY <1>5, <1>9, <3>1, <3>2, <3>3 DEF Whole
  <2>3. CASE Delete(c)
    <3>1. DOMAIN log'[c] = DOMAIN log[c] \ {f.id} /\ UNCHANGED <<floor, complete, torn>>
      BY <1>1, <2>3, DeleteIs
    <3>2. Whole(c)
      BY <1>10, <3>1, WholeEach
    <3>3. floor'[c] <= floor[c] /\ floor'[c] \in 0 .. Top /\ (complete'[c] => floor'[c] = 0)
          /\ \A i \in DOMAIN log'[c] : i >= floor'[c]
      BY <1>5, <3>1, <3>2 DEF Whole
    <3> QED
      BY <1>9, <3>2, <3>3
  <2>4. CASE Page(c)
    <3>1. /\ f \in Pages /\ DOMAIN log'[c] = DOMAIN log[c] \cup DOMAIN f.rows
          /\ floor'[c] \in 0 .. Top
          /\ f.before >= floor[c] => floor'[c] <= floor[c] /\ floor'[c] <= Reached(f)
          /\ complete'[c] <=> complete[c] \/ f.complete
          /\ torn' = torn
      BY <1>1, <2>4, PageIs
    <3>2. Whole(c)
      BY <1>10, <3>1, WholeEach
    <3>3. f.kind = "page" /\ Reached(f) \in 0 .. Top /\ (\A i \in DOMAIN f.rows : Reached(f) <= i)
          /\ DOMAIN f.rows \subseteq Ids
      BY <3>1, PageFields, LogsAre
    <3>4. f.before >= floor[c]
      BY <1>4, <3>2, <3>3 DEF Whole
    <3>5. floor'[c] <= floor[c] /\ floor'[c] <= Reached(f)
      BY <3>1, <3>4
    <3>6. \A i \in DOMAIN log'[c] : i >= floor'[c]
      <4>1. \A i \in DOMAIN log[c] : i >= floor[c]
        BY <3>2 DEF Whole
      <4> QED
        BY <1>5, <3>1, <3>3, <3>5, <4>1
    <3>7. complete'[c] => floor'[c] = 0
      <4>1. f.complete => Reached(f) = 0
        BY DEF Reached
      <4>2. complete[c] => floor[c] = 0
        BY <3>2 DEF Whole
      <4> QED
        BY <3>1, <3>5, <4>1, <4>2
    <3> QED
      BY <1>9, <3>1, <3>2, <3>5, <3>6, <3>7
  <2>5. CASE Refusal(c)
    <3>1. UNCHANGED <<log, floor, complete, torn>>
      BY <2>5 DEF Refusal
    <3>2. Whole(c)
      BY <1>10, <3>1, WholeEach
    <3>3. floor'[c] <= floor[c] /\ floor'[c] \in 0 .. Top /\ (complete'[c] => floor'[c] = 0)
          /\ \A i \in DOMAIN log'[c] : i >= floor'[c]
      BY <1>5, <3>1, <3>2 DEF Whole
    <3> QED
      BY <1>9, <3>2, <3>3
  <2> QED
    BY <2>1, <2>2, <2>3, <2>4, <2>5 DEF Apply
<1> QED
  BY <1>3, <1>10 DEF LogWhole, Whole

(* Who goes leaves nothing on the way.                                     *)
LEMMA ComingWhole ==
    ASSUME ChatTyped, LogWhole, NEW c \in Clients, Coming(c)
    PROVE  LogWhole'
<1>1. ASSUME NEW d \in Clients \ {c}, ~torn'[d] PROVE Whole(d)'
  <2>1. /\ log'[d] = log[d] /\ floor'[d] = floor[d] /\ torn'[d] = torn[d] /\ complete'[d] = complete[d]
        /\ up'[d] = up[d] /\ down'[d] = down[d] /\ link'[d] = link[d] /\ handling'[d] = handling[d]
    BY DEF Coming, Drop, Return, LogOut, serverVars, clientVars, ChatTyped
  <2>2. Whole(d)
    BY <1>1, <2>1, WholeEach
  <2> QED
    BY <2>1, <2>2, WholeSame
<1>2. ASSUME ~torn'[c] PROVE Whole(c)'
  <2>1. up'[c] = <<>> /\ down'[c] = <<>>
    BY DEF Coming, Drop, Return, LogOut, ChatTyped
  <2>2. link'[c] => handling'[c].kind # "page"
    BY DEF Coming, Drop, Return, LogOut, ChatTyped, Silent, serverVars
  <2>3. CASE Drop(c) \/ Return(c)
    <3>1. log' = log /\ floor' = floor /\ torn' = torn /\ complete' = complete
      BY <2>3 DEF Drop, Return, clientVars
    <3>2. Whole(c)
      BY <1>2, <3>1, WholeEach
    <3> QED
      BY <2>1, <2>2, <3>1, <3>2 DEF Whole
  <2>4. CASE LogOut(c)
    <3>1. log'[c] = Nothing /\ ~complete'[c]
      BY <2>4 DEF LogOut, ChatTyped
    <3> QED
      BY <2>1, <2>2, <3>1, NothingIs DEF Whole
  <2> QED
    BY <2>3, <2>4 DEF Coming
<1> QED
  BY <1>1, <1>2 DEF LogWhole, Whole

(* LogWhole holds at the start.                                            *)
LEMMA ChatStartWhole == ChatInit => LogWhole
<1> SUFFICES ASSUME ChatInit, NEW c \in Clients PROVE Whole(c)
  BY WholeEach
<1>1. up[c] = <<>> /\ down[c] = <<>> /\ handling[c] = Silent /\ log[c] = Nothing /\ ~complete[c]
  BY DEF ChatInit
<1> QED
  BY <1>1, NothingIs DEF Whole, Silent

-----------------------------------------------------------------------------
(* The table has a message once.                                           *)

(* A message that is sent again while the first is in the table is not put *)
(* there once more.                                                        *)
LEMMA ServingOnce ==
    ASSUME ChatTyped, OncePosted, NEW c \in Clients, Serve(c)
    PROVE  OncePosted'
<1>1. CASE InsertMessage(c)
  <2>1. PICK i : i = NewRow
    OBVIOUS
  <2>2. PICK nonce : nonce = Head(up[c]).nonce
    OBVIOUS
  <2>3. PICK row : row = [author |-> AccountOf[c], text |-> Head(up[c]).text, nonce |-> nonce]
    OBVIOUS
  <2>4. /\ messages' = [j \in DOMAIN messages \cup {i} |-> IF j = i THEN row ELSE messages[j]]
        /\ Posted(AccountOf[c], nonce) = {}
        /\ row.author = AccountOf[c] /\ row.nonce = nonce
    BY <1>1, <2>1, <2>2, <2>3 DEF InsertMessage
  <2>5. \A j \in DOMAIN messages : ~(messages[j].author = row.author /\ messages[j].nonce = row.nonce)
    BY <2>4 DEF Posted
  <2> SUFFICES ASSUME NEW j \in DOMAIN messages', NEW k \in DOMAIN messages', j # k,
                      messages'[j].nonce # NoNonce, messages'[j].author = messages'[k].author,
                      messages'[j].nonce = messages'[k].nonce
               PROVE  FALSE
    BY DEF OncePosted
  <2>6. CASE j = i
    BY <2>4, <2>5, <2>6
  <2>7. CASE k = i
    BY <2>4, <2>5, <2>7
  <2>8. CASE j # i /\ k # i
    BY <2>4, <2>8 DEF OncePosted
  <2> QED
    BY <2>6, <2>7, <2>8
<1>2. CASE EditMessage(c)
  <2>1. PICK i, t : i \in DOMAIN messages /\ messages' = [messages EXCEPT ![i].text = t]
    BY <1>2 DEF EditMessage, OwnMessage
  <2>2. /\ DOMAIN messages' = DOMAIN messages
        /\ \A j \in DOMAIN messages : /\ messages'[j].author = messages[j].author
                                      /\ messages'[j].nonce = messages[j].nonce
    <3>1. \A j \in DOMAIN messages : messages[j] \in TableRows
      BY DEF ChatTyped
    <3>2. messages'[i] = [messages[i] EXCEPT !.text = t]
      BY <2>1
    <3>3. messages'[i].author = messages[i].author /\ messages'[i].nonce = messages[i].nonce
      BY <2>1, <3>1, <3>2 DEF TableRows
    <3> QED
      BY <2>1, <3>3
  <2> QED
    BY <2>2 DEF OncePosted
<1>3. CASE DeleteMessage(c)
  <2>1. PICK i : messages' = [j \in DOMAIN messages \ {i} |-> messages[j]]
    BY <1>3 DEF DeleteMessage
  <2> QED
    BY <2>1 DEF OncePosted
<1>4. CASE HandleHistory(c) \/ RefuseMessage(c) \/ AlreadyPosted(c) \/ NotYours(c) \/ Internal(c)
  BY <1>4 DEF HandleHistory, RefuseMessage, AlreadyPosted, NotYours, Internal, OncePosted
<1> QED
  BY <1>1, <1>2, <1>3, <1>4 DEF Serve

-----------------------------------------------------------------------------
(* Pages that are waited for.                                              *)

\* Where the page of c is, or that it will not come.
Owed(c) ==
    \/ lost[c]
    \/ \E n \in DOMAIN up[c] : up[c][n].op = "history"
    \/ handling[c].kind = "page"
    \/ \E n \in DOMAIN down[c] : down[c][n].kind = "page"

OwedInv == \A c \in Clients : loading[c] => Owed(c) /\ (link[c] \/ lost[c])

(* Both about pages together.                                              *)
LEMMA OwedIs == OwedInv <=> PagesLost /\ PageOwed
<1> QED
  BY DEF OwedInv, Owed, PagesLost, PageOwed

(* A page that is waited for was asked for, or that was lost.              *)
LEMMA AskingOwed ==
    ASSUME ChatTyped, OwedInv, NEW c \in Clients, Asking(c)
    PROVE  OwedInv'
<1>1. PICK f : Asks(c, f)
  BY AskingAsks
<1>2. UNCHANGED <<handling, link, down>>
  BY <1>1 DEF Asks
<1>3. \A d \in Clients : \A n \in DOMAIN up[d] : n \in DOMAIN up'[d] /\ up'[d][n] = up[d][n]
  <2>1. \A d \in Clients : up[d] \in Seq(Requests)
    BY DEF ChatTyped
  <2>2. f \in Requests
    BY <1>1 DEF Asks
  <2>3. ASSUME NEW d \in Clients, NEW n \in DOMAIN up[d] PROVE n \in DOMAIN up'[d] /\ up'[d][n] = up[d][n]
    <3>1. up'[d] = up[d] \/ up'[d] = Append(up[d], f)
      BY <1>1, AskedLast
    <3>2. up[d] \in Seq(Requests)
      BY <2>1
    <3> QED
      BY <2>2, <3>1, <3>2
  <2> QED
    BY <2>3
<1>4. CASE EnsureHistory(c) \/ LoadOlder(c)
  <2>1. /\ loading' = [loading EXCEPT ![c] = TRUE] /\ lost' = [lost EXCEPT ![c] = ~link[c]]
        /\ \E b : Ask(c, [op |-> "history", before |-> b])
    BY <1>4 DEF EnsureHistory, LoadOlder
  <2>2. loading \in [Clients -> BOOLEAN] /\ lost \in [Clients -> BOOLEAN] /\ up \in [Clients -> Seq(Requests)]
    BY DEF ChatTyped
  <2>3. CASE link[c]
    <3>10. PICK b : Ask(c, [op |-> "history", before |-> b])
      BY <2>1
    <3>11. PICK g : g = [op |-> "history", before |-> b]
      OBVIOUS
    <3>1. up' = [up EXCEPT ![c] = Append(@, g)] /\ g.op = "history"
      BY <2>3, <3>10, <3>11 DEF Ask
    <3>2. up'[c] = Append(up[c], g) /\ up[c] \in Seq(Requests)
      BY <2>2, <3>1
    <3>3. up'[c][Len(up[c]) + 1] = g /\ Len(up[c]) + 1 \in DOMAIN up'[c]
      BY <3>2
    <3>4. Owed(c)'
      BY <3>1, <3>3 DEF Owed
    <3>5. ASSUME NEW d \in Clients \ {c}, loading'[d] PROVE Owed(d)' /\ (link[d] \/ lost'[d])
      <4>1. loading[d] /\ lost'[d] = lost[d]
        BY <2>1, <2>2, <3>5
      <4> QED
        BY <1>2, <1>3, <4>1 DEF OwedInv, Owed
    <3> QED
      BY <1>2, <2>3, <3>4, <3>5 DEF OwedInv
  <2>4. CASE ~link[c]
    <3>1. lost'[c]
      BY <2>1, <2>2, <2>4
    <3>2. ASSUME NEW d \in Clients \ {c}, loading'[d] PROVE Owed(d)' /\ (link[d] \/ lost'[d])
      <4>1. loading[d] /\ lost'[d] = lost[d]
        BY <2>1, <2>2, <3>2
      <4> QED
        BY <1>2, <1>3, <4>1 DEF OwedInv, Owed
    <3> QED
      BY <1>2, <3>1, <3>2 DEF OwedInv, Owed
  <2> QED
    BY <2>3, <2>4
<1>5. CASE SendComposer(c) \/ Resend(c) \/ AskEdit(c) \/ AskDelete(c)
  <2>1. UNCHANGED <<loading, lost>>
    BY <1>5 DEF SendComposer, Resend, AskEdit, AskDelete, clientVars
  <2> QED
    BY <1>2, <1>3, <2>1 DEF OwedInv, Owed
<1> QED
  BY <1>4, <1>5 DEF Asking

(* The request is answered, or the database failed.                        *)
LEMMA ServingOwed ==
    ASSUME ChatTyped, OwedInv, NEW c \in Clients, Serve(c)
    PROVE  OwedInv'
<1>1. PICK f : handling' = [handling EXCEPT ![c] = f]
  BY ServingReplies DEF Replies
<1>2. /\ UNCHANGED <<loading, link, down>> /\ up[c] # <<>> /\ handling[c] = Silent
      /\ up' = [up EXCEPT ![c] = Tail(@)]
      /\ up \in [Clients -> Seq(Requests)] /\ handling \in [Clients -> Said]
  BY ServingReplies DEF Taking, clientVars, ChatTyped
<1>3. \A d \in Clients : lost[d] => lost'[d]
  BY DEF Serve, HandleHistory, RefuseMessage, AlreadyPosted, InsertMessage, EditMessage, DeleteMessage,
         NotYours, Internal, ChatTyped
<1>4. ASSUME NEW d \in Clients \ {c}, loading[d] PROVE Owed(d)'
  <2>1. up'[d] = up[d] /\ handling'[d] = handling[d]
    BY <1>1, <1>2
  <2> QED
    BY <1>2, <1>3, <1>4, <2>1 DEF OwedInv, Owed
<1>5. ASSUME loading[c] PROVE Owed(c)'
  <2>1. Owed(c)
    BY <1>5 DEF OwedInv
  <2>2. CASE lost[c] \/ \E n \in DOMAIN down[c] : down[c][n].kind = "page"
    BY <1>2, <1>3, <2>2 DEF Owed
  <2>3. CASE \E n \in DOMAIN up[c] : up[c][n].op = "history"
    <3>1. PICK n \in DOMAIN up[c] : up[c][n].op = "history"
      BY <2>3
    <3>2. up'[c] = Tail(up[c]) /\ up[c] \in Seq(Requests)
      BY <1>2
    <3>3. CASE n # 1
      <4>1. n - 1 \in DOMAIN up'[c] /\ up'[c][n - 1] = up[c][n]
        BY <1>2, <3>2, <3>3, Rest
      <4> QED
        BY <3>1, <4>1 DEF Owed
    <3>4. CASE n = 1
      <4>1. Head(up[c]).op = "history"
        BY <1>2, <3>1, <3>2, <3>4, Rest
      <4>2. CASE HandleHistory(c)
        <5>1. handling' = [handling EXCEPT ![c] = HistoryPage(Head(up[c]).before, Limit)]
          BY <4>2 DEF HandleHistory, Answers
        <5>2. handling'[c].kind = "page"
          BY <1>2, <5>1 DEF HistoryPage
        <5> QED
          BY <5>2 DEF Owed
      <4>3. CASE Internal(c)
        <5>1. lost'[c]
          BY <4>1, <4>3 DEF Internal, ChatTyped
        <5> QED
          BY <5>1 DEF Owed
      <4>4. ~(RefuseMessage(c) \/ AlreadyPosted(c) \/ InsertMessage(c) \/ EditMessage(c) \/ DeleteMessage(c) \/ NotYours(c))
        BY <4>1 DEF RefuseMessage, AlreadyPosted, InsertMessage, EditMessage, DeleteMessage, NotYours, Handle
      <4> QED
        BY <4>2, <4>3, <4>4 DEF Serve
    <3> QED
      BY <3>3, <3>4
  <2>4. handling[c].kind # "page"
    BY <1>2 DEF Silent
  <2> QED
    BY <2>1, <2>2, <2>3, <2>4 DEF Owed
<1> QED
  BY <1>2, <1>3, <1>4, <1>5 DEF OwedInv

(* The answer is sent.                                                     *)
LEMMA EmitOwed ==
    ASSUME ChatTyped, OwedInv, NEW c \in Clients, Emit(c)
    PROVE  OwedInv'
<1>1. /\ handling' = [handling EXCEPT ![c] = Silent] /\ handling \in [Clients -> Said] /\ handling[c] # Silent
      /\ UNCHANGED <<loading, link, up, lost>>
  BY EmitSends DEF ChatTyped, clientVars
<1>2. ASSUME NEW d \in Clients, loading[d] PROVE Owed(d)'
  <2>1. Owed(d) /\ (link[d] \/ lost[d])
    BY <1>2 DEF OwedInv
  <2>2. \A n \in DOMAIN down[d] : n \in DOMAIN down'[d] /\ down'[d][n] = down[d][n]
    BY EmitAppends
  <2>3. CASE d = c /\ handling[c].kind = "page" /\ link[c]
    <3>1. c \in HeardBy(c) /\ SaysAs(For(c, c), handling[c])
      BY <1>1, <2>3, ForSays DEF HeardBy
    <3>2. PICK m \in DOMAIN down'[c] : down'[c][m] = For(c, c)
      BY <2>3, <3>1, EmitAppends
    <3>3. down'[c][m].kind = "page"
      BY <2>3, <3>1, <3>2 DEF SaysAs
    <3> QED
      BY <2>3, <3>3 DEF Owed
  <2>4. CASE d # c
    <3>1. handling'[d] = handling[d]
      BY <1>1, <2>4
    <3> QED
      BY <1>1, <2>1, <2>2, <3>1 DEF Owed
  <2> QED
    BY <1>1, <2>1, <2>2, <2>3, <2>4 DEF Owed
<1> QED
  BY <1>1, <1>2 DEF OwedInv

(* A page ends the waiting, an empty one too.                              *)
LEMMA ApplyOwed ==
    ASSUME ChatTyped, OwedInv, NEW c \in Clients, Apply(c)
    PROVE  OwedInv'
<1>1. PICK f : Hears(c, f)
  BY ApplyHears
<1>2. UNCHANGED <<handling, link, up, lost>> /\ down[c] # <<>> /\ down' = [down EXCEPT ![c] = Tail(@)]
  BY <1>1 DEF Hears, serverVars
<1>3. \A d \in Clients \ {c} : down'[d] = down[d]
  BY <1>1, HearsLater
<1>4. loading \in [Clients -> BOOLEAN]
  BY DEF ChatTyped
<1>5. CASE Page(c)
  <2>1. loading' = [loading EXCEPT ![c] = FALSE]
    BY <1>1, <1>5, PageIs
  <2> QED
    BY <1>2, <1>3, <1>4, <2>1 DEF OwedInv, Owed
<1>6. CASE Create(c) \/ Update(c) \/ Delete(c) \/ Refusal(c)
  <2>1. loading' = loading /\ Head(down[c]).kind # "page"
    BY <1>6 DEF Create, Update, Delete, Refusal, Next1
  <2>2. \A n \in DOMAIN down[c] : down[c][n].kind = "page" => \E m \in DOMAIN down'[c] : down'[c][m] = down[c][n]
    <3>1. down[c] \in Seq(Frames) /\ down'[c] = Tail(down[c])
      BY <1>2 DEF ChatTyped
    <3>2. ASSUME NEW n \in DOMAIN down[c], down[c][n].kind = "page"
          PROVE  n - 1 \in DOMAIN down'[c] /\ down'[c][n - 1] = down[c][n]
      <4>1. Head(down[c]) = down[c][1]
        BY <1>2, <3>1, Rest
      <4>2. n # 1
        BY <2>1, <3>2, <4>1
      <4> QED
        BY <1>2, <3>1, <4>2, Rest
    <3> QED
      BY <3>2
  <2> QED
    BY <1>2, <1>3, <2>1, <2>2 DEF OwedInv, Owed
<1> QED
  BY <1>5, <1>6 DEF Apply

(* With the connection goes what was asked.                                *)
LEMMA ComingOwed ==
    ASSUME ChatTyped, OwedInv, NEW c \in Clients, Coming(c)
    PROVE  OwedInv'
<1>1. ASSUME NEW d \in Clients \ {c}, loading'[d] PROVE Owed(d)' /\ (link'[d] \/ lost'[d])
  <2>1. /\ up'[d] = up[d] /\ down'[d] = down[d] /\ link'[d] = link[d] /\ handling'[d] = handling[d]
        /\ lost'[d] = lost[d] /\ loading'[d] = loading[d]
    BY DEF Coming, Drop, Return, LogOut, serverVars, clientVars, ChatTyped
  <2> QED
    BY <1>1, <2>1 DEF OwedInv, Owed
<1>2. ASSUME loading'[c] PROVE lost'[c]
  <2>1. CASE Drop(c)
    BY <1>2, <2>1 DEF Drop, clientVars, ChatTyped
  <2>2. CASE Return(c)
    BY <1>2, <2>2 DEF Return, clientVars, OwedInv
  <2>3. CASE LogOut(c)
    BY <1>2, <2>3 DEF LogOut, ChatTyped
  <2> QED
    BY <2>1, <2>2, <2>3 DEF Coming
<1> QED
  BY <1>1, <1>2 DEF OwedInv, Owed

-----------------------------------------------------------------------------
(* Together.                                                               *)

(* Together: ChatInv holds at the start,                                   *)
LEMMA ChatStart == ChatInit => ChatInv
<1> SUFFICES ASSUME ChatInit PROVE ChatInv
  OBVIOUS
<1>1. OncePosted
  BY DEF ChatInit, OncePosted
<1>2. OwedInv
  BY DEF ChatInit, OwedInv
<1> QED
  BY <1>1, <1>2, OwedIs, ChatStartTyped, ChatStartLog, ChatStartWhole DEF ChatInv

(* and every step keeps it.                                                *)
LEMMA ChatStep ==
    ASSUME ChatInv, [ChatNext]_chatVars PROVE ChatInv'
<1> USE DEF ChatInv
<1>1. ASSUME UNCHANGED chatVars PROVE ChatInv'
  <2>1. UNCHANGED <<messages, link, up, handling, down, log, visited, loading, complete, pending, spent,
                    floor, torn, stale, raced, lost>>
    BY <1>1 DEF chatVars, serverVars, clientVars
  <2>2. ChatTyped'
    BY <2>1 DEF ChatTyped
  <2>3. LogInv'
    BY <2>1 DEF LogInv, HandlersRight, WordsRight, LogRight, NewestLast, PagesCover, Covered,
                Settled, Later, About, Right, Shows, Reached
  <2>4. LogWhole' /\ OncePosted' /\ PagesLost' /\ PageOwed'
    BY <2>1 DEF LogWhole, OncePosted, PagesLost, PageOwed
  <2> QED
    BY <2>2, <2>3, <2>4
<1>2. ASSUME NEW c \in Clients, Asking(c) PROVE ChatInv'
  <2>1. OncePosted'
    BY <1>2, AskingAsks DEF Asks, OncePosted
  <2> QED
    BY <1>2, <2>1, OwedIs, AskingTyped, AskingLog, AskingWhole, AskingOwed DEF OwedInv, Owed, PagesLost, PageOwed
<1>3. ASSUME NEW c \in Clients, Serve(c) PROVE ChatInv'
  BY <1>3, OwedIs, ServingTyped, ServingLog, ServingWhole, ServingOnce, ServingOwed DEF OwedInv, Owed, PagesLost, PageOwed
<1>4. ASSUME NEW c \in Clients, Emit(c) PROVE ChatInv'
  <2>1. OncePosted'
    BY <1>4, EmitSends DEF OncePosted
  <2> QED
    BY <1>4, <2>1, OwedIs, EmitTyped, EmitLog, EmitWhole, EmitOwed DEF OwedInv, Owed, PagesLost, PageOwed
<1>5. ASSUME NEW c \in Clients, Apply(c) PROVE ChatInv'
  <2>1. OncePosted'
    BY <1>5, ApplyHears DEF Hears, serverVars, OncePosted
  <2> QED
    BY <1>5, <2>1, OwedIs, ApplyTyped, ApplyLog, ApplyWhole, ApplyOwed DEF OwedInv, Owed, PagesLost, PageOwed
<1>6. ASSUME NEW c \in Clients, Coming(c) PROVE ChatInv'
  <2>1. OncePosted'
    BY <1>6 DEF Coming, Drop, Return, LogOut, serverVars, OncePosted
  <2> QED
    BY <1>6, <2>1, OwedIs, ComingTyped, ComingLog, ComingWhole, ComingOwed DEF OwedInv, Owed, PagesLost, PageOwed
<1> QED
  BY <1>1, <1>2, <1>3, <1>4, <1>5, <1>6 DEF ChatNext, Asking, Coming

(* Between the words a client has yet to hear, its log is the table.       *)
LEMMA QuietAgrees == ChatInv => MessagesAgree
<1> SUFFICES ASSUME ChatInv, NEW c \in Clients, AllHeard(c)
             PROVE  /\ \A i \in Ids \ (stale[c] \cup raced) :
                          /\ i \in DOMAIN log[c] => /\ i \in DOMAIN messages
                                                    /\ log[c][i] = messages[i].text
                          /\ i >= floor[c] /\ i \in DOMAIN messages => i \in DOMAIN log[c]
                    /\ complete[c] /\ ~torn[c] => floor[c] = 0
  BY DEF MessagesAgree, LogAgrees, ChatInv
<1>1. \A i : Settled(i) /\ ~Later(c, 0, i)
  <2>1. down[c] = <<>> /\ \A d \in Clients : handling[d] = Silent
    BY DEF AllHeard
  <2> QED
    BY <2>1 DEF Settled, Later, About, Silent
<1> QED
  BY <1>1 DEF ChatInv, LogInv, LogRight, Shows, LogWhole

(* A message is in the table once, however often it is sent, and a log has *)
(* what the table has when nothing is on its way, whatever handlers cross  *)
(* each other, however long frames take, and whoever comes and goes.       *)
(* (State::apply, insert_into, Db::history, the handlers' broadcasts)      *)
THEOREM ChatMessagesAgree == ChatSpec => []MessagesAgree
<1>1. ChatInit => ChatInv
  BY ChatStart
<1>2. ChatInv /\ [ChatNext]_chatVars => ChatInv'
  BY ChatStep
<1>3. ChatInv => MessagesAgree
  BY QuietAgrees
<1> QED
  BY <1>1, <1>2, <1>3, PTL DEF ChatSpec

(* A log that waits for a page is owed one, or the connection or the       *)
(* database failed it. (ensure_history, LoadOlder, ChannelLog::loading)    *)
THEOREM ChatPageOwed == ChatSpec => []PageOwed
<1>1. ChatInit => ChatInv
  BY ChatStart
<1>2. ChatInv /\ [ChatNext]_chatVars => ChatInv'
  BY ChatStep
<1>3. ChatInv => PageOwed
  BY DEF ChatInv
<1> QED
  BY <1>1, <1>2, <1>3, PTL DEF ChatSpec

=============================================================================

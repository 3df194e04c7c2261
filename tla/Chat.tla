-------------------------------- MODULE Chat --------------------------------
(* The messages of one channel: the server's table, the handlers of its     *)
(* sessions, and the log each client keeps.  A handler reads or changes the *)
(* table under the database's lock and sends what it has to say after       *)
(* letting go of it, so two sessions may be heard in another order than     *)
(* they wrote.  A client keeps its log and its unconfirmed messages over a  *)
(* lost connection, and asks for the first page of a channel once.          *)
(* A text is a number of its own; the contents are not looked at.           *)
EXTENDS Integers, FiniteSets, Sequences, FiniteSetsExt

CONSTANTS
    Clients,     \* the connections' client programs
    Readers,     \* those whose person opens the channel, and comes and goes
    AccountOf,   \* whose they are
    Before,      \* the authors of the messages that were there before
    Limit,       \* how many rows a page holds
    MaxId,       \* bound: message ids
    Budget,      \* bound: how often a thing is done, by its name
    MaxThings,   \* bound: how many such things are done in all
    NoNonce      \* no nonce

Things == {"send", "resend", "edit", "delete", "drop", "logout", "failure"}

ASSUME ChatAssumption ==
    /\ IsFiniteSet(Clients) /\ Readers \subseteq Clients
    /\ Limit \in Nat \ {0}
    /\ MaxId \in Nat /\ Len(Before) \in 0..MaxId /\ DOMAIN Before = 1..Len(Before)
    /\ DOMAIN Budget = Things

VARIABLES
    messages,    \* the table: id -> author, text, nonce
    link,        \* client -> is its connection up
    up,          \* client -> frames on their way to its session
    handling,    \* client -> what the handler of its session has yet to send
    down,        \* client -> frames on their way to it
    log,         \* client -> id -> text
    visited, loading, complete,     \* of the client's log
    pending,     \* client -> the nonces of what it drew before the server answered
    spent,       \* how often each thing was done
    floor,       \* client -> from this id on its log is whole (observes only)
    torn,        \* client -> a message came in from below that (observes only)
    stale,       \* client -> ids it missed something about (observes only)
    raced,       \* ids changed before an older word on them was sent (observes only)
    lost         \* client -> the answer to its page will not come (observes only)

serverVars == <<messages, handling, raced>>
clientVars == <<log, visited, loading, complete, pending, floor, torn>>
chatVars == <<serverVars, clientVars, link, up, down, spent, stale, lost>>

Ids == 1..MaxId
Top == MaxId + 1                 \* before nothing: i64::MAX
Nothing == [n \in {} |-> 0]
Silent == [kind |-> "idle"]

ChatInit ==
    /\ messages = [i \in DOMAIN Before |-> [author |-> Before[i], text |-> i, nonce |-> NoNonce]]
    /\ link = [c \in Clients |-> TRUE]
    /\ up = [c \in Clients |-> <<>>] /\ down = [c \in Clients |-> <<>>]
    /\ handling = [c \in Clients |-> Silent]
    /\ log = [c \in Clients |-> Nothing]
    /\ visited = [c \in Clients |-> FALSE] /\ loading = [c \in Clients |-> FALSE]
    /\ complete = [c \in Clients |-> FALSE]
    /\ pending = [c \in Clients |-> {}]
    /\ spent = [t \in Things |-> 0]
    /\ floor = [c \in Clients |-> Top] /\ torn = [c \in Clients |-> FALSE]
    /\ stale = [c \in Clients |-> {}] /\ raced = {}
    /\ lost = [c \in Clients |-> FALSE]

InAll == spent["send"] + spent["resend"] + spent["edit"] + spent["delete"]
          + spent["drop"] + spent["logout"] + spent["failure"]

Spend(t) ==
    /\ spent[t] < Budget[t] /\ InAll < MaxThings
    /\ spent' = [spent EXCEPT ![t] = @ + 1]

\* A text nobody wrote before: the table starts with the first of them.
NewText == Len(Before) + spent["send"] + spent["resend"] + spent["edit"] + 1

-----------------------------------------------------------------------------
(* What a person does, and what the client sends for it.  While the         *)
(* connection is down a frame is dropped, not queued.                       *)

Ask(c, frame) == up' = IF link[c] THEN [up EXCEPT ![c] = Append(@, frame)] ELSE up

\* The first page is asked for once; a frame that goes nowhere is not asked for again.
EnsureHistory(c) ==
    /\ ~visited[c]
    /\ visited' = [visited EXCEPT ![c] = TRUE]
    /\ loading' = [loading EXCEPT ![c] = TRUE]
    /\ lost' = [lost EXCEPT ![c] = ~link[c]]
    /\ Ask(c, [op |-> "history", before |-> Top])
    /\ UNCHANGED <<serverVars, log, complete, pending, floor, torn, link, down, spent, stale>>

\* The button is drawn over a log that has messages.
LoadOlder(c) ==
    /\ DOMAIN log[c] # {} /\ ~loading[c] /\ ~complete[c]
    /\ loading' = [loading EXCEPT ![c] = TRUE]
    /\ lost' = [lost EXCEPT ![c] = ~link[c]]
    /\ Ask(c, [op |-> "history", before |-> Min(DOMAIN log[c])])
    /\ UNCHANGED <<serverVars, log, visited, complete, pending, floor, torn, link, down, spent, stale>>

\* What is typed may be longer than the server takes.
SendComposer(c) ==
    /\ Spend("send")
    /\ pending' = [pending EXCEPT ![c] = @ \cup {<<c, NewText>>}]
    /\ \E fine \in BOOLEAN :
          Ask(c, [op |-> "send", nonce |-> <<c, NewText>>, text |-> NewText, fine |-> fine])
    /\ UNCHANGED <<serverVars, log, visited, loading, complete, floor, torn, link, down, stale, lost>>

\* This client never sends a message again; the protocol allows it (insert_message).
Resend(c) ==
    /\ Spend("resend")
    /\ \E nonce \in pending[c] :
          Ask(c, [op |-> "send", nonce |-> nonce, text |-> NewText, fine |-> TRUE])
    /\ UNCHANGED <<serverVars, clientVars, link, down, stale, lost>>

\* Editing and deleting are in the protocol and not in this client's interface.
AskEdit(c) ==
    /\ Spend("edit")
    /\ \E i \in DOMAIN messages : Ask(c, [op |-> "edit", id |-> i, text |-> NewText])
    /\ UNCHANGED <<serverVars, clientVars, link, down, stale, lost>>

AskDelete(c) ==
    /\ Spend("delete")
    /\ \E i \in DOMAIN messages : Ask(c, [op |-> "delete", id |-> i])
    /\ UNCHANGED <<serverVars, clientVars, link, down, stale, lost>>

-----------------------------------------------------------------------------
(* The table.                                                               *)

Texts(is) == [i \in is |-> messages[i].text]

\* One row more than asked for tells whether there are any left.
HistoryPage(before, limit) ==
    LET older == {i \in DOMAIN messages : i < before}
        rows == {i \in older : Cardinality({j \in older : j > i}) < limit}
    IN  [kind |-> "page", before |-> before, rows |-> Texts(rows),
         complete |-> Cardinality(older) <= limit]

\* SQLite hands the number of a deleted last row out again.
NewRow == IF DOMAIN messages = {} THEN 1 ELSE Max(DOMAIN messages) + 1

Posted(user, nonce) == {i \in DOMAIN messages : messages[i].author = user /\ messages[i].nonce = nonce}

\* The answers not sent yet speak of these messages.
SpokenOf(d) ==
    CASE handling[d].kind \in {"create", "update", "delete"} -> {handling[d].id}
      [] handling[d].kind = "page" -> DOMAIN handling[d].rows
      [] OTHER -> {}

Touches(c, i) ==
    raced' = IF \E d \in Clients \ {c} : i \in SpokenOf(d) THEN raced \cup {i} ELSE raced

Answers(c, answer) == handling' = [handling EXCEPT ![c] = answer]

-----------------------------------------------------------------------------
(* The handlers: what each does under the database's lock.                  *)

Handle(c, op) ==
    /\ handling[c] = Silent /\ up[c] # <<>> /\ Head(up[c]).op = op
    /\ up' = [up EXCEPT ![c] = Tail(@)]

HandleHistory(c) ==
    /\ Handle(c, "history")
    /\ Answers(c, HistoryPage(Head(up[c]).before, Limit))
    /\ UNCHANGED <<messages, raced, clientVars, link, down, spent, stale, lost>>

RefuseMessage(c) ==
    /\ Handle(c, "send") /\ ~Head(up[c]).fine
    /\ Answers(c, [kind |-> "error"])
    /\ UNCHANGED <<messages, raced, clientVars, link, down, spent, stale, lost>>

\* What was posted before is answered as it stands, without its nonce.
AlreadyPosted(c) ==
    /\ Handle(c, "send") /\ Head(up[c]).fine
    /\ \E i \in Posted(AccountOf[c], Head(up[c]).nonce) :
          Answers(c, [kind |-> "create", id |-> i, text |-> messages[i].text, nonce |-> NoNonce])
    /\ UNCHANGED <<messages, raced, clientVars, link, down, spent, stale, lost>>

InsertMessage(c) ==
    LET m == Head(up[c])  i == NewRow
        row == [author |-> AccountOf[c], text |-> m.text, nonce |-> m.nonce]
    IN  /\ Handle(c, "send") /\ m.fine /\ i <= MaxId
        /\ Posted(AccountOf[c], m.nonce) = {}
        /\ messages' = [j \in DOMAIN messages \cup {i} |-> IF j = i THEN row ELSE messages[j]]
        /\ Touches(c, i)
        /\ Answers(c, [kind |-> "create", id |-> i, text |-> m.text, nonce |-> m.nonce])
        /\ UNCHANGED <<clientVars, link, down, spent, stale, lost>>

OwnMessage(c, i) == i \in DOMAIN messages /\ messages[i].author = AccountOf[c]

\* The message is read again after the lock was let go of; nothing is lost by
\* taking the two together, since another session's change marks it as raced.
EditMessage(c) ==
    LET m == Head(up[c])
    IN  /\ Handle(c, "edit") /\ OwnMessage(c, m.id)
        /\ messages' = [messages EXCEPT ![m.id].text = m.text]
        /\ Touches(c, m.id)
        /\ Answers(c, [kind |-> "update", id |-> m.id, text |-> m.text])
        /\ UNCHANGED <<clientVars, link, down, spent, stale, lost>>

DeleteMessage(c) ==
    LET m == Head(up[c])
    IN  /\ Handle(c, "delete") /\ OwnMessage(c, m.id)
        /\ messages' = [i \in DOMAIN messages \ {m.id} |-> messages[i]]
        /\ Touches(c, m.id)
        /\ Answers(c, [kind |-> "delete", id |-> m.id])
        /\ UNCHANGED <<clientVars, link, down, spent, stale, lost>>

NotYours(c) ==
    /\ \E op \in {"edit", "delete"} : Handle(c, op)
    /\ ~OwnMessage(c, Head(up[c]).id)
    /\ Answers(c, [kind |-> "error"])
    /\ UNCHANGED <<messages, raced, clientVars, link, down, spent, stale, lost>>

\* The database fails: the client is told so, and not what the answer was to.
Internal(c) ==
    /\ \E op \in {"history", "send", "edit", "delete"} : Handle(c, op)
    /\ Spend("failure")
    /\ Answers(c, [kind |-> "error"])
    /\ lost' = [lost EXCEPT ![c] = @ \/ Head(up[c]).op = "history"]
    /\ UNCHANGED <<messages, raced, clientVars, link, down, stale>>

-----------------------------------------------------------------------------
(* Sending what the handler has to say.                                     *)

\* Who hears it, and whether only the asking connection sees the nonce.
\* (The mistake: telling everybody but the one who asked.)
HeardByOthers(c) ==
    LET answer == handling[c]
    IN  CASE answer.kind \in {"create", "update"} -> Clients
          [] answer.kind = "delete" -> Clients \ {c}
          [] OTHER -> {c}

HeardBy(c) ==
    IF handling[c].kind \in {"create", "update", "delete"} THEN Clients ELSE {c}

\* Whether a message is the newest when its word is sent is observed only.
For(d, c) ==
    LET answer == handling[c]
    IN  IF answer.kind = "create"
        THEN [kind |-> "create", id |-> answer.id, text |-> answer.text,
              nonce |-> IF d = c THEN answer.nonce ELSE NoNonce,
              newest |-> \A j \in DOMAIN messages : j <= answer.id]
        ELSE answer

\* The log has, or answers for, a message.
Holds(d, i) == i >= floor[d] \/ i \in DOMAIN log[d]

Emit(c) ==
    /\ handling[c] # Silent
    /\ down' = [d \in Clients |-> IF link[d] /\ d \in HeardBy(c) THEN Append(down[d], For(d, c)) ELSE down[d]]
    /\ stale' = [d \in Clients |-> IF link[d] \/ handling[c].kind \notin {"create", "update", "delete"}
                                  THEN stale[d]
                                  ELSE stale[d] \cup {i \in {handling[c].id} : Holds(d, i)}]
    /\ handling' = [handling EXCEPT ![c] = Silent]
    /\ UNCHANGED <<messages, raced, clientVars, link, up, spent, lost>>

-----------------------------------------------------------------------------
(* State::apply, for the frames about messages.                             *)

Merged(old, new) == [i \in DOMAIN old \cup DOMAIN new |-> IF i \in DOMAIN new THEN new[i] ELSE old[i]]

One(i, text) == [k \in {i} |-> text]

Next1(c, kind) ==
    /\ link[c] /\ down[c] # <<>> /\ Head(down[c]).kind = kind
    /\ down' = [down EXCEPT ![c] = Tail(@)]
    /\ UNCHANGED <<serverVars, link, up, spent, stale, lost, visited>>

\* A message may come into the log from below its whole part.
Tears(c, i) == torn' = [torn EXCEPT ![c] = @ \/ (i < floor'[c] /\ i \notin DOMAIN log[c])]

\* An older message may arrive after a newer one: their handlers crossed.
Create(c) ==
    LET m == Head(down[c])
    IN  /\ Next1(c, "create")
        /\ pending' = [pending EXCEPT ![c] = @ \ {m.nonce}]
        /\ log' = [log EXCEPT ![c] = Merged(@, One(m.id, m.text))]
        /\ floor' = [floor EXCEPT ![c] = IF @ = Top /\ m.newest THEN m.id ELSE @]
        /\ Tears(c, m.id)
        /\ UNCHANGED <<loading, complete>>

\* An edit of a message this client never had puts it into the log.
Update(c) ==
    LET m == Head(down[c])
    IN  /\ Next1(c, "update")
        /\ log' = [log EXCEPT ![c] = Merged(@, One(m.id, m.text))]
        /\ UNCHANGED floor
        /\ Tears(c, m.id)
        /\ UNCHANGED <<loading, complete, pending>>

Delete(c) ==
    /\ Next1(c, "delete")
    /\ log' = [log EXCEPT ![c] = [i \in DOMAIN @ \ {Head(down[c]).id} |-> @[i]]]
    /\ UNCHANGED <<loading, complete, pending, floor, torn>>

\* A mistake: an empty page looks as if there were nothing to apply.
PageNotEmpty(c) ==
    LET m == Head(down[c])
    IN  /\ Next1(c, "page")
        /\ loading' = [loading EXCEPT ![c] = @ /\ DOMAIN m.rows = {}]
        /\ complete' = [complete EXCEPT ![c] = @ \/ m.complete]
        /\ log' = [log EXCEPT ![c] = Merged(@, m.rows)]
        /\ UNCHANGED <<pending, torn, floor>>

Page(c) ==
    LET m == Head(down[c])
        reached == IF m.complete THEN 0 ELSE Min(DOMAIN m.rows)
    IN  /\ Next1(c, "page")
        /\ loading' = [loading EXCEPT ![c] = FALSE]
        /\ complete' = [complete EXCEPT ![c] = @ \/ m.complete]
        /\ log' = [log EXCEPT ![c] = Merged(@, m.rows)]
        /\ floor' = [floor EXCEPT ![c] = IF m.before >= @ THEN Min({@, reached}) ELSE @]
        /\ UNCHANGED <<pending, torn>>

\* A failed request is shown to the person, and nothing else comes of it.
Refusal(c) == Next1(c, "error") /\ UNCHANGED <<log, loading, complete, pending, floor, torn>>

-----------------------------------------------------------------------------
(* The connection.                                                          *)

AboutMessages(frames) ==
    {frames[n].id : n \in {k \in DOMAIN frames : frames[k].kind \in {"create", "update", "delete"}}}

\* What is on its way is lost; a handler that runs finishes.
Drop(c) ==
    /\ link[c] /\ Spend("drop")
    /\ link' = [link EXCEPT ![c] = FALSE]
    /\ up' = [up EXCEPT ![c] = <<>>] /\ down' = [down EXCEPT ![c] = <<>>]
    /\ stale' = [stale EXCEPT ![c] = @ \cup {i \in AboutMessages(down[c]) : Holds(c, i)}]
    /\ lost' = [lost EXCEPT ![c] = @ \/ loading[c]]
    /\ UNCHANGED <<serverVars, clientVars>>

\* Ready replaces all the client knows but its logs and what it has pending.
Return(c) ==
    /\ ~link[c] /\ handling[c] = Silent
    /\ link' = [link EXCEPT ![c] = TRUE]
    /\ UNCHANGED <<serverVars, clientVars, up, down, spent, stale, lost>>

\* Logging out forgets everything.
LogOut(c) ==
    /\ link[c] /\ Spend("logout")
    /\ link' = [link EXCEPT ![c] = FALSE]
    /\ up' = [up EXCEPT ![c] = <<>>] /\ down' = [down EXCEPT ![c] = <<>>]
    /\ log' = [log EXCEPT ![c] = Nothing]
    /\ visited' = [visited EXCEPT ![c] = FALSE] /\ loading' = [loading EXCEPT ![c] = FALSE]
    /\ complete' = [complete EXCEPT ![c] = FALSE] /\ pending' = [pending EXCEPT ![c] = {}]
    /\ floor' = [floor EXCEPT ![c] = Top] /\ torn' = [torn EXCEPT ![c] = FALSE]
    /\ stale' = [stale EXCEPT ![c] = {}] /\ lost' = [lost EXCEPT ![c] = FALSE]
    /\ UNCHANGED serverVars

-----------------------------------------------------------------------------
Serve(c) ==
    \/ HandleHistory(c) \/ RefuseMessage(c) \/ AlreadyPosted(c) \/ InsertMessage(c)
    \/ EditMessage(c) \/ DeleteMessage(c) \/ NotYours(c) \/ Internal(c)

Apply(c) == Create(c) \/ Update(c) \/ Delete(c) \/ Page(c) \/ Refusal(c)

ChatNext ==
    \E c \in Clients :
        \/ SendComposer(c) \/ Resend(c) \/ AskEdit(c) \/ AskDelete(c)
        \/ Serve(c) \/ Emit(c) \/ Apply(c)
        \/ c \in Readers /\ (EnsureHistory(c) \/ LoadOlder(c) \/ Drop(c) \/ Return(c) \/ LogOut(c))

ChatSpec == ChatInit /\ [][ChatNext]_chatVars

-----------------------------------------------------------------------------
AllHeard(c) == link[c] /\ down[c] = <<>> /\ \A d \in Clients : handling[d] = Silent

(* Once everything sent has been applied, a log shows only messages that    *)
(* are in the table and shows them as they are there, and the part of it    *)
(* that pages and live messages have built without a gap misses none; and a *)
(* log that says it has reached the beginning has.  Left out are messages   *)
(* the client missed something about while it was away, and those two       *)
(* sessions changed so close together that the words about them crossed.    *)
(* (State::apply, insert_into, Db::history, the handlers' broadcasts)       *)
LogAgrees ==
    \A c \in Clients :
        AllHeard(c) =>
            /\ \A i \in Ids \ (stale[c] \cup raced) :
                  /\ i \in DOMAIN log[c] => /\ i \in DOMAIN messages
                                           /\ log[c][i] = messages[i].text
                  /\ i >= floor[c] /\ i \in DOMAIN messages => i \in DOMAIN log[c]
            /\ complete[c] /\ ~torn[c] => floor[c] = 0

(* However often a message is sent again, it is in the table once.          *)
(* (Db::insert_message, the unique index on author and nonce)               *)
OncePosted ==
    \A i, j \in DOMAIN messages :
        i # j /\ messages[i].nonce # NoNonce =>
            ~(messages[i].author = messages[j].author /\ messages[i].nonce = messages[j].nonce)

(* The table has each message once, and the logs have what the table has.   *)
MessagesAgree == OncePosted /\ LogAgrees

(* A log that waits for a page is owed one: the request or the answer is on *)
(* its way, or the connection or the database failed it.  An empty page     *)
(* ends the waiting too. (ensure_history, LoadOlder, ChannelLog::loading)   *)
PageOwed ==
    \A c \in Clients :
        loading[c] => \/ lost[c]
                      \/ \E n \in DOMAIN up[c] : up[c][n].op = "history"
                      \/ handling[c].kind = "page"
                      \/ \E n \in DOMAIN down[c] : down[c][n].kind = "page"

=============================================================================

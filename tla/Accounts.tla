------------------------------ MODULE Accounts ------------------------------
(* Accounts, log-in tokens and the first channels: the requests a server    *)
(* is working on, each of which lets go of the database between its steps,  *)
(* and the connect screen of one client, which asks a server and is         *)
(* answered later, when another address may have been typed.                *)
EXTENDS Integers, FiniteSets, Sequences, FiniteSetsExt

CONSTANTS
    Servers,      \* the addresses one can type
    OpenServers,  \* those with open registration
    Names,        \* log-in names, as auth.rs folds them
    Others,       \* the accounts somebody else asks for: server and name
    Passwords,    \* what may be typed for a password
    Acceptable,   \* those long enough for a new account
    MaxRequests,  \* bound: requests at a time
    MaxTokens,    \* bound: tokens issued
    MaxTroubles,  \* bound: how often an address is changed, a machine, a request or a
                  \* channel fails, the client is started again, or its connection is lost
    None

ASSUME AccountsAssumption ==
    /\ OpenServers \subseteq Servers /\ Others \subseteq Servers \X Names /\ Acceptable \subseteq Passwords
    /\ {MaxRequests, MaxTokens, MaxTroubles} \subseteq Nat
    /\ None \notin Servers

VARIABLES
    db,           \* server -> accounts, tokens, channels
    before,       \* server -> the same before the last write, which a power cut may undo
    requests,     \* what the servers are working on
    issued,       \* how many tokens there ever were
    url, probe, mode, busy,      \* the connect screen
    token, serverUrl,            \* the settings file
    view,         \* is the connect screen shown
    probing,      \* the server a probe was sent to
    answers,      \* log-ins answered, not looked at yet
    net,          \* the network thread: is it off, trying or up
    strayed,      \* the address was changed while a log-in was out (observes only)
    failed,       \* servers that failed with a first account at work (observes only)
    unseeded,     \* first channels a server could not make: server and kind (observes only)
    troubles

serverState == <<db, before, requests, issued, failed, unseeded>>
screenState == <<url, probe, mode, busy>>
clientState == <<token, serverUrl, view, probing, answers, net, strayed>>
accountVars == <<serverState, screenState, clientState, troubles>>

Empty == [users |-> {}, tokens |-> {}, channels |-> <<>>]
NoRequest == [stage |-> "none", kind |-> None, server |-> None, name |-> None,
              password |-> None, first |-> FALSE, mine |-> FALSE]

AccountsInit ==
    /\ db = [s \in Servers |-> Empty] /\ before = db
    /\ requests = [r \in 1..MaxRequests |-> NoRequest]
    /\ issued = 0 /\ failed = {} /\ unseeded = {}
    /\ url \in Servers /\ probe = None /\ mode = None /\ busy = FALSE
    /\ token = None /\ serverUrl = None /\ view = "connect"
    /\ probing = None /\ answers = {} /\ net = "off" /\ strayed = FALSE
    /\ troubles = 0

-----------------------------------------------------------------------------
(* The server.  Each step below holds the database's lock once.             *)

Known(s, name) == \E u \in db[s].users : u.name = name
IsEmpty(s) == db[s].users = {}
Trouble == troubles < MaxTroubles /\ troubles' = troubles + 1

RegistrationAllowed(s, first) == first \/ s \in OpenServers

Write(s, new) == db' = [db EXCEPT ![s] = new] /\ before' = [before EXCEPT ![s] = db[s]]

Forget(r) == requests' = [requests EXCEPT ![r] = NoRequest]

\* What a refused request tells whoever asked: only this client is looked at.
Refuse(r) ==
    /\ Forget(r)
    /\ answers' = IF requests[r].mine THEN answers \cup {[token |-> None]} ELSE answers

Arrive(kind, s, name, password, mine) ==
    \E r \in 1..MaxRequests :
        /\ requests[r] = NoRequest /\ \A q \in 1..(r - 1) : requests[q] # NoRequest
        /\ requests' = [requests EXCEPT ![r] =
              [stage |-> "asked", kind |-> kind, server |-> s, name |-> name,
               password |-> password, first |-> FALSE, mine |-> mine]]

\* Somebody else asks for an account.
Another ==
    /\ \E other \in Others, p \in Acceptable : Arrive("register", other[1], other[2], p, FALSE)
    /\ UNCHANGED <<db, before, issued, failed, unseeded, screenState, clientState, troubles>>

\* Is this the first account, and may it be made?  The hashing that follows
\* takes long and holds nothing.
Check(r) ==
    LET q == requests[r]  first == IsEmpty(q.server)
    IN  /\ q.stage = "asked" /\ q.kind = "register"
        /\ IF RegistrationAllowed(q.server, first) /\ q.password \in Acceptable
           THEN /\ requests' = [requests EXCEPT ![r].stage = "hashing", ![r].first = first]
                /\ UNCHANGED answers
           ELSE Refuse(r)
        /\ UNCHANGED <<db, before, issued, failed, unseeded, screenState, troubles,
                       token, serverUrl, view, probing, net, strayed>>

\* A mistake: whether it is the first is asked again once it is made.
LateFirst(r) == FALSE

FirstOf(r) == requests[r].first

CreateUser(r) ==
    LET q == requests[r]  s == q.server
    IN  /\ q.stage = "hashing"
        /\ IF Known(s, q.name)
           THEN Refuse(r) /\ UNCHANGED <<db, before>>
           ELSE /\ Write(s, [db[s] EXCEPT !.users = @ \cup {[name |-> q.name, password |-> q.password]}])
                /\ requests' = [requests EXCEPT ![r].stage = IF FirstOf(r) THEN "text" ELSE "token"]
                /\ UNCHANGED answers
        /\ UNCHANGED <<issued, failed, unseeded, screenState, troubles,
                       token, serverUrl, view, probing, net, strayed>>

\* A new channel goes to the end of its kind's run.
Position(s, kind) ==
    LET run == {db[s].channels[n].position : n \in {k \in DOMAIN db[s].channels : db[s].channels[k].kind = kind}}
    IN  IF run = {} THEN 0 ELSE Max(run) + 1

\* The first channels, one after the other: one that cannot be made is only
\* logged, and the account has its token all the same.
CreateChannel(r) ==
    LET q == requests[r]  s == q.server
    IN  /\ q.stage \in {"text", "voice"}
        /\ \/ /\ Write(s, [db[s] EXCEPT !.channels =
                       Append(@, [kind |-> q.stage, position |-> Position(s, q.stage)])])
              /\ UNCHANGED <<unseeded, troubles>>
           \/ /\ Trouble
              /\ unseeded' = unseeded \cup {<<s, q.stage>>}
              /\ UNCHANGED <<db, before>>
        /\ requests' = [requests EXCEPT ![r].stage = IF @ = "text" THEN "voice" ELSE "token"]
        /\ UNCHANGED <<issued, failed, screenState, clientState>>

\* Looking the name up and verifying the password: the same answer for no such name.
LookUp(r) ==
    LET q == requests[r]
    IN  /\ q.stage = "asked" /\ q.kind = "login"
        /\ IF [name |-> q.name, password |-> q.password] \in db[q.server].users
           THEN requests' = [requests EXCEPT ![r].stage = "token"] /\ UNCHANGED answers
           ELSE Refuse(r)
        /\ UNCHANGED <<db, before, issued, failed, unseeded, screenState, troubles,
                       token, serverUrl, view, probing, net, strayed>>

IssueToken(r) ==
    LET q == requests[r]  s == q.server  new == [server |-> s, user |-> q.name, number |-> issued + 1]
    IN  /\ q.stage = "token" /\ issued < MaxTokens
        /\ issued' = issued + 1
        /\ Write(s, [db[s] EXCEPT !.tokens = @ \cup {new}])
        /\ Forget(r)
        /\ answers' = IF q.mine THEN answers \cup {[token |-> new]} ELSE answers
        /\ UNCHANGED <<failed, unseeded, screenState, troubles,
                       token, serverUrl, view, probing, net, strayed>>

\* A database that cannot answer, or a hash that cannot be made, refuses the
\* request where it stands: before the account, or after it, when the token
\* cannot be written.
Fails(r) ==
    /\ requests[r].stage \in {"asked", "hashing", "token"} /\ Trouble
    /\ Refuse(r)
    /\ UNCHANGED <<db, before, issued, failed, unseeded, screenState,
                   token, serverUrl, view, probing, net, strayed>>

\* A power cut may undo what was written last; the requests are gone, and the
\* client is told its one failed.
Crash(s) ==
    LET hit == {r \in 1..MaxRequests : requests[r].server = s}
    IN  /\ Trouble
        /\ \E kept \in {db[s], before[s]} :
              db' = [db EXCEPT ![s] = kept] /\ before' = [before EXCEPT ![s] = kept]
        /\ requests' = [r \in 1..MaxRequests |-> IF r \in hit THEN NoRequest ELSE requests[r]]
        /\ answers' = IF \E r \in hit : requests[r].mine THEN answers \cup {[token |-> None]} ELSE answers
        /\ failed' = failed \cup {s}
        /\ UNCHANGED <<issued, unseeded, screenState, token, serverUrl, view, probing, net, strayed>>

\* A request that takes too long has failed for the client; the server works on.
TimeOut(r) ==
    /\ requests[r].mine
    /\ requests' = [requests EXCEPT ![r].mine = FALSE]
    /\ answers' = answers \cup {[token |-> None]}
    /\ UNCHANGED <<db, before, issued, failed, unseeded, screenState, troubles,
                   token, serverUrl, view, probing, net, strayed>>

-----------------------------------------------------------------------------
(* The connect screen.                                                      *)

\* The address field stays open whatever is under way.
UrlChanged(u) ==
    /\ view = "connect" /\ Trouble
    /\ url' = u /\ probe' = None /\ mode' = None
    /\ strayed' = (strayed \/ answers # {} \/ \E r \in DOMAIN requests : requests[r].mine)
    /\ UNCHANGED <<busy, serverState, token, serverUrl, view, probing, answers, net>>

Probe ==
    /\ view = "connect" /\ probe = None /\ ~busy
    /\ busy' = TRUE /\ probing' = url
    /\ UNCHANGED <<url, probe, mode, serverState, token, serverUrl, view, answers, net, strayed,
                   troubles>>

\* It may have been sent to another address than the one now typed.
Probed ==
    /\ probing # None /\ probing' = None /\ busy' = FALSE
    /\ \/ probe' = [open |-> RegistrationAllowed(probing, IsEmpty(probing))]
       \/ probe' = None
    /\ UNCHANGED <<url, mode, serverState, token, serverUrl, view, answers, net, strayed,
                   troubles>>

\* Logging in is the default; a new account is offered where the server said so.
ChooseMode(m) ==
    /\ view = "connect" /\ probe # None /\ mode # m
    /\ m = "register" => probe.open /\ mode = "login"
    /\ mode' = m
    /\ UNCHANGED <<url, probe, busy, serverState, clientState, troubles>>

\* Goes to the address typed now.
SignIn(name, password) ==
    /\ view = "connect" /\ probe # None /\ ~busy /\ mode # None
    /\ mode = "register" => password \in Acceptable
    /\ Arrive(mode, url, name, password, TRUE)
    /\ busy' = TRUE /\ strayed' = FALSE
    /\ UNCHANGED <<url, probe, mode, db, before, issued, failed, unseeded, token, serverUrl, view,
                   probing, answers, net, troubles>>

\* A mistake: the address is saved when it is typed in the settings only.
KeepUrl(u) == IF serverUrl = None THEN u ELSE serverUrl

SavedUrl(u) == u

\* The token is saved with the address typed now, and used there.
Authenticated(a) ==
    /\ a \in answers /\ a.token # None
    /\ answers' = answers \ {a}
    /\ token' = a.token /\ serverUrl' = SavedUrl(url)
    /\ busy' = TRUE /\ net' = "trying"
    /\ UNCHANGED <<url, probe, mode, serverState, view, probing, strayed, troubles>>

NotAuthenticated(a) ==
    /\ a \in answers /\ a.token = None
    /\ answers' = answers \ {a}
    /\ busy' = FALSE
    /\ UNCHANGED <<url, probe, mode, serverState, token, serverUrl, view, probing, net, strayed,
                   troubles>>

-----------------------------------------------------------------------------
(* The network thread, as far as the screen is told of it.                  *)

\* What a server answers the first frame of a connection: it must know the
\* token.  A database that cannot say refuses it in the same words.
Identifies(answer) ==
    \/ /\ answer = IF token \in db[serverUrl].tokens THEN "welcome" ELSE "refused"
       /\ UNCHANGED troubles
    \/ answer = "refused" /\ Trouble

Connected ==
    /\ net = "trying" /\ Identifies("welcome")
    /\ net' = "up" /\ busy' = FALSE /\ view' = "in"
    /\ UNCHANGED <<url, probe, mode, serverState, token, serverUrl, probing, answers, strayed>>

\* A mistake: the screen is not told that nothing is under way any more.
StillBusy == busy

NotBusy == FALSE

\* A token that is refused, for whatever reason, is forgotten.
Rejected ==
    /\ net = "trying" /\ Identifies("refused")
    /\ net' = "off" /\ token' = None /\ view' = "connect" /\ busy' = NotBusy
    /\ UNCHANGED <<url, probe, mode, serverState, serverUrl, probing, answers, strayed>>

Reconnecting ==
    /\ net = "up" /\ Trouble
    /\ net' = "trying"
    /\ UNCHANGED <<screenState, serverState, token, serverUrl, view, probing, answers, strayed>>

SignOut ==
    /\ view = "in"
    /\ token' = None /\ net' = "off" /\ view' = "connect" /\ probe' = None /\ busy' = FALSE
    /\ UNCHANGED <<url, mode, serverState, serverUrl, probing, answers, strayed, troubles>>

\* Started again, it goes straight in with a token it has.
Start ==
    /\ Trouble
    /\ view' = "connect" /\ probe' = None /\ mode' = None
    /\ url' \in IF serverUrl = None THEN Servers ELSE {serverUrl}
    /\ busy' = (token # None) /\ net' = (IF token # None THEN "trying" ELSE "off")
    /\ probing' = None /\ answers' = {} /\ strayed' = (strayed /\ token # None)
    /\ requests' = [r \in DOMAIN requests |-> [requests[r] EXCEPT !.mine = FALSE]]
    /\ UNCHANGED <<db, before, issued, failed, unseeded, token, serverUrl>>

-----------------------------------------------------------------------------
Serving(r) ==
    \/ Check(r) \/ CreateUser(r) \/ CreateChannel(r) \/ LookUp(r) \/ IssueToken(r)
    \/ Fails(r) \/ TimeOut(r)

Signing ==
    \/ Probe \/ Probed \/ SignOut
    \/ \E u \in Servers \ {url} : UrlChanged(u)
    \/ \E m \in {"login", "register"} : ChooseMode(m)
    \/ \E n \in Names, p \in Passwords : SignIn(n, p)
    \/ \E a \in answers : Authenticated(a) \/ NotAuthenticated(a)

AccountsNext ==
    \/ Another \/ Signing
    \/ \E r \in 1..MaxRequests : Serving(r)
    \/ \E s \in Servers : Crash(s)
    \/ Connected \/ Rejected \/ Reconnecting \/ Start

AccountsSpec == AccountsInit /\ [][AccountsNext]_accountVars

-----------------------------------------------------------------------------
Outstanding == \E r \in DOMAIN requests : requests[r].mine

(* The token a client keeps was issued by the server it takes it to, unless *)
(* another address was typed while the log-in was out; and a server that    *)
(* lost nothing knows it. (pump_network's Authenticated, App::new)          *)
TokenOfItsServer ==
    token # None /\ ~strayed =>
        /\ token.server = serverUrl
        /\ serverUrl \notin failed => token \in db[serverUrl].tokens

(* Whoever has an account finds the two channels a server starts with, and  *)
(* no two channels of a kind claim one place, however many first accounts   *)
(* were asked for at once: all but for a channel that could not be made,    *)
(* for a server that failed meanwhile, or while the first account is still  *)
(* being made. (register, create_channel)                                   *)
FirstSeeds ==
    \A s \in Servers \ failed :
        /\ ~IsEmpty(s) /\ (\A r \in DOMAIN requests : requests[r].server # s) =>
              \A kind \in {"text", "voice"} :
                  \/ \E n \in DOMAIN db[s].channels : db[s].channels[n].kind = kind
                  \/ <<s, kind>> \in unseeded
        /\ \A m, n \in DOMAIN db[s].channels : m # n => db[s].channels[m] # db[s].channels[n]

(* The connect screen says it is busy, and so takes no other request, only  *)
(* while there is something that will tell it the outcome.                  *)
(* (Form::busy, pump_network)                                               *)
BusyMeansWaiting == busy => probing # None \/ Outstanding \/ answers # {} \/ net = "trying"

=============================================================================

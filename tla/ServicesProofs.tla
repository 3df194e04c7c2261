--------------------------- MODULE ServicesProofs ---------------------------
(***************************************************************************)
(* What a client keeps of a log-in is right and the connect screen is not  *)
(* left waiting, whatever addresses are typed and whatever is lost while   *)
(* requests are out; the first account brings the first channels, however  *)
(* many first accounts are being made at once; the transfers shown are     *)
(* those that go on, and what one wrote stays; and what a client keeps on  *)
(* its own disk survives its being killed.                                 *)
(*                                                                         *)
(* The parts share no state, and each has an inductive invariant of its    *)
(* own.  The heart of AccountsInv is Phase: the screen, its probe, its     *)
(* request, its answer and its connection take turns.                      *)
(***************************************************************************)
EXTENDS MCServices, WellFoundedInduction, TLAPS

Slots == 1 .. MaxRequests
People == [name : Names, password : Passwords]
Tokens == [server : Servers, user : Names, number : Nat]
Places == [kind : {"text", "voice"}, position : Nat]
At(c, kind) == {c[n].position : n \in {k \in DOMAIN c : c[k].kind = kind}}

\* The places of a kind count from zero, and no two channels are alike.
Lists == {c \in Seq(Places) : /\ \A kind \in {"text", "voice"} : \E k \in Nat : At(c, kind) = 0 .. (k - 1)
                              /\ \A m, n \in DOMAIN c : m # n => c[m] # c[n]}

Stores == [users : SUBSET People, tokens : SUBSET Tokens, channels : Lists]
Jobs == [stage : {"none", "asked", "hashing", "text", "voice", "token"},
         kind : {"register", "login", None}, server : Servers \cup {None},
         name : Names \cup {None}, password : Passwords \cup {None},
         first : BOOLEAN, mine : BOOLEAN]

Typed ==
    /\ db \in [Servers -> Stores] /\ before \in [Servers -> Stores]
    /\ issued \in Nat
    /\ requests \in [Slots -> Jobs]
    /\ \A r \in Slots : requests[r].stage # "none" =>
          /\ requests[r].server \in Servers
          /\ requests[r].name \in Names /\ requests[r].password \in Passwords
    /\ url \in Servers /\ mode \in {"login", "register", None}
    /\ serverUrl \in Servers \cup {None}

Mine(r) == requests[r].mine
Off == net = "off" /\ probing = None

\* The screen's own affairs take turns: one request, then one answer, or a
\* probe, or a connection for a token that was saved.
Phase ==
    /\ \A r, q \in Slots : Mine(r) /\ Mine(q) => r = q
    /\ \A r \in Slots : Mine(r) => busy /\ Off /\ answers = {}
    /\ \A ans \in answers : busy /\ Off /\ answers = {ans}
    /\ probing # None => busy /\ net = "off"
    /\ net \in {"off", "trying", "up"}
    /\ net = "off" => token = None /\ view = "connect"
    /\ net = "trying" => view = "in" \/ busy
    /\ net = "up" => view = "in"
    /\ view \in {"connect", "in"}

\* Whoever issued a token knows it, unless it failed since.
Kept(t) == t.server \in Servers /\ (t.server \notin failed => t \in db[t.server].tokens)

\* Requests, answers and the token saved are for the address typed, unless that
\* was changed meanwhile.
Ours ==
    /\ \A r \in Slots : Mine(r) => requests[r].server = url \/ strayed
    /\ \A ans \in answers : ans.token # None => Kept(ans.token) /\ (ans.token.server = url \/ strayed)
    /\ token # None => Kept(token) /\ (token.server = serverUrl \/ strayed)

Has(s, kind) == \E n \in DOMAIN db[s].channels : db[s].channels[n].kind = kind
Given(s, kind) == Has(s, kind) \/ <<s, kind>> \in unseeded
Makes(s, stage) == \E r \in Slots : requests[r].server = s /\ requests[r].stage = stage

\* As long as a server has no account whoever is making one is first, and from
\* then on the channels are there, or could not be made, or somebody is making them.
Seeded(s) ==
    /\ \A r \in Slots : requests[r].server = s /\ requests[r].stage = "hashing" =>
          (IsEmpty(s) => requests[r].first)
    /\ ~IsEmpty(s) => \/ Makes(s, "text")
                      \/ Given(s, "text") /\ (Makes(s, "voice") \/ Given(s, "voice"))

Seeds == \A s \in Servers \ failed : Seeded(s)

AccountsInv == Typed /\ Phase /\ BusyMeansWaiting /\ Ours /\ Seeds

----------------------------------------------------------------------------
(* What the steps of servers have in common.                               *)

(* Servers tell the client of its own request only.                        *)
LEMMA ServerPhase ==
    ASSUME Typed, Typed', Phase, BusyMeansWaiting,
           UNCHANGED <<busy, probing, net, token, view>>,
           \A q \in Slots : Mine(q)' => Mine(q),
           \/ answers' = answers /\ \A q \in Slots : Mine(q) => Mine(q)'
           \/ /\ \E r \in Slots : Mine(r) /\ ~Mine(r)'
              /\ \E ans : answers' = answers \cup {ans}
    PROVE  Phase' /\ BusyMeansWaiting'
<1>. DOMAIN requests = Slots /\ DOMAIN requests' = Slots
    BY DEF Typed
<1>1. CASE answers' = answers /\ \A q \in Slots : Mine(q) => Mine(q)'
    <2>1. Outstanding => Outstanding'
        BY <1>1 DEF Outstanding, Mine
    <2>2. BusyMeansWaiting'
        BY <1>1, <2>1 DEF BusyMeansWaiting
    <2>. QED  BY <1>1, <2>2 DEF Phase, Off
<1>2. ASSUME NEW r \in Slots, Mine(r), ~Mine(r)', NEW ans, answers' = answers \cup {ans}
      PROVE  Phase' /\ BusyMeansWaiting'
    <2>1. busy /\ Off /\ answers' = {ans}
        BY <1>2 DEF Phase
    <2>2. \A q \in Slots : ~Mine(q)'
        BY <1>2 DEF Phase
    <2>3. BusyMeansWaiting'
        BY <2>1 DEF BusyMeansWaiting
    <2>. QED  BY <2>1, <2>2, <2>3 DEF Phase, Off
<1>. QED  BY <1>1, <1>2

(* What a server forgets it forgets by failing, and what it answers with is *)
(* its own.                                                                *)
LEMMA ServerOwn ==
    ASSUME Ours, UNCHANGED <<url, strayed, token, serverUrl>>,
           failed \subseteq failed',
           \A s \in Servers \ failed' : db[s].tokens \subseteq db'[s].tokens,
           \A q \in Slots : Mine(q)' => Mine(q) /\ requests'[q].server = requests[q].server,
           \A ans \in answers' \ answers :
              ans.token # None => Kept(ans.token)' /\ (ans.token.server = url \/ strayed)
    PROVE  Ours'
<1>1. ASSUME NEW t, Kept(t) PROVE Kept(t)'
    BY <1>1 DEF Kept
<1>. QED  BY <1>1 DEF Ours

(* Nobody but those who make accounts and channels is of account to Seeds. *)
LEMMA ServerSeeds ==
    ASSUME Seeds, failed \subseteq failed', unseeded \subseteq unseeded',
           \A s \in Servers \ failed' : /\ db'[s].users = db[s].users
                                        /\ db'[s].channels = db[s].channels,
           \A r \in Slots : requests[r].stage \in {"text", "voice"} =>
              \/ /\ requests'[r].stage = requests[r].stage
                 /\ requests'[r].server = requests[r].server
              \/ requests[r].server \in failed',
           \A r \in Slots : requests'[r].stage = "hashing" =>
              \/ /\ requests[r].stage = "hashing"
                 /\ requests'[r].server = requests[r].server
                 /\ requests'[r].first = requests[r].first
              \/ IsEmpty(requests'[r].server) => requests'[r].first
    PROVE  Seeds'
<1>. SUFFICES ASSUME NEW s \in Servers \ failed' PROVE Seeded(s)'
    BY DEF Seeds
<1>1. s \in Servers \ failed /\ Seeded(s)
    BY DEF Seeds
<1>2. db'[s].users = db[s].users /\ db'[s].channels = db[s].channels
    OBVIOUS
<1>3. /\ (IsEmpty(s))' <=> IsEmpty(s)
      /\ \A kind : Given(s, kind) => Given(s, kind)'
    BY <1>2 DEF IsEmpty, Given, Has
<1>4. \A stage \in {"text", "voice"} : Makes(s, stage) => Makes(s, stage)'
    BY DEF Makes
<1>5. \A r \in Slots : requests'[r].server = s /\ requests'[r].stage = "hashing" =>
          ((IsEmpty(s))' => requests'[r].first)
    BY <1>1, <1>3 DEF Seeded
<1>6. (~IsEmpty(s))' => \/ Makes(s, "text")'
                        \/ Given(s, "text")' /\ (Makes(s, "voice")' \/ Given(s, "voice")')
    BY <1>1, <1>3, <1>4 DEF Seeded
<1>. QED  BY <1>5, <1>6 DEF Seeded

----------------------------------------------------------------------------
(* Requests.                                                               *)

\* What is new of a request: its stage.
Moved(r, stage) ==
    /\ requests' \in [Slots -> Jobs]
    /\ requests'[r].stage = stage
    /\ \A q \in Slots : /\ q # r => requests'[q] = requests[q]
                        /\ requests'[q].server = requests[q].server
                        /\ requests'[q].name = requests[q].name
                        /\ requests'[q].password = requests[q].password
                        /\ requests'[q].first = requests[q].first
                        /\ requests'[q].mine = requests[q].mine

Stages == {"asked", "hashing", "text", "voice", "token"}

(* A request whose stage is written changes in nothing else.               *)
LEMMA Moves ==
    ASSUME Typed, NEW r \in Slots, NEW stage \in Stages,
           requests' = [requests EXCEPT ![r].stage = stage]
    PROVE  Moved(r, stage)
<1>. DEFINE new == [requests[r] EXCEPT !.stage = stage]
<1>1. requests \in [Slots -> Jobs] /\ requests[r] \in Jobs
    BY DEF Typed
<1>2. /\ new \in Jobs /\ new.stage = stage /\ new.server = requests[r].server
      /\ new.name = requests[r].name /\ new.password = requests[r].password
      /\ new.first = requests[r].first /\ new.mine = requests[r].mine
    BY <1>1 DEF Jobs, Stages
<1>3. requests' = [requests EXCEPT ![r] = new]
    OBVIOUS
<1>. HIDE DEF new
<1>. QED  BY <1>1, <1>2, <1>3 DEF Moved

(* A request that is forgotten is nobody's.                                *)
LEMMA Forgets ==
    ASSUME Typed, NEW r \in Slots, Forget(r)
    PROVE  /\ requests' \in [Slots -> Jobs] /\ requests'[r].stage = "none" /\ ~requests'[r].mine
           /\ \A q \in Slots : q # r => requests'[q] = requests[q]
<1>1. requests \in [Slots -> Jobs] /\ requests' = [requests EXCEPT ![r] = NoRequest]
    BY DEF Typed, Forget
<1>2. NoRequest \in Jobs /\ NoRequest.stage = "none" /\ ~NoRequest.mine
    BY DEF NoRequest, Jobs
<1>. QED  BY <1>1, <1>2

(* A new request takes a free place.                                       *)
Arrived(r, s, name, password, mine) ==
    /\ requests' \in [Slots -> Jobs] /\ requests'[r].stage = "asked"
    /\ requests[r].stage = "none" /\ ~requests[r].mine
    /\ requests'[r].server = s /\ requests'[r].name = name
    /\ requests'[r].password = password /\ (requests'[r].mine <=> mine)
    /\ \A q \in Slots : q # r => requests'[q] = requests[q]

LEMMA Arrives ==
    ASSUME Typed, NEW kind \in {"register", "login"}, NEW s \in Servers, NEW name \in Names,
           NEW password \in Passwords, NEW mine \in BOOLEAN,
           Arrive(kind, s, name, password, mine)
    PROVE  \E r \in Slots : Arrived(r, s, name, password, mine)
<1>. DEFINE new == [stage |-> "asked", kind |-> kind, server |-> s, name |-> name,
                    password |-> password, first |-> FALSE, mine |-> mine]
<1>1. PICK r \in Slots : requests[r] = NoRequest /\ requests' = [requests EXCEPT ![r] = new]
    BY DEF Arrive, Slots
<1>2. /\ new \in Jobs /\ new.stage = "asked" /\ new.server = s /\ new.name = name
      /\ new.password = password /\ (new.mine <=> mine)
    BY DEF Jobs
<1>3. NoRequest.stage = "none" /\ ~NoRequest.mine
    BY DEF NoRequest
<1>4. requests \in [Slots -> Jobs]
    BY DEF Typed
<1>. HIDE DEF new
<1>. QED  BY <1>1, <1>2, <1>3, <1>4 DEF Arrived

(* A request that is refused is answered, if it was the client's.          *)
LEMMA Refused ==
    ASSUME AccountsInv, NEW r \in Slots, Refuse(r),
           requests[r].stage \notin {"text", "voice"},
           UNCHANGED <<db, before, issued, failed, unseeded, screenState, token, serverUrl, view, probing,
                       net, strayed>>
    PROVE  AccountsInv'
<1>0. Typed /\ Phase /\ BusyMeansWaiting /\ Ours /\ Seeds
    BY DEF AccountsInv
<1>1. /\ requests' \in [Slots -> Jobs] /\ requests'[r].stage = "none" /\ ~Mine(r)'
      /\ \A q \in Slots : q # r => requests'[q] = requests[q]
    BY <1>0, Forgets DEF Refuse, Mine
<1>2. answers' = IF Mine(r) THEN answers \cup {[token |-> None]} ELSE answers
    BY DEF Refuse, Mine
<1>3. Typed'
    BY <1>0, <1>1 DEF Typed, screenState
<1>4. \A q \in Slots : Mine(q)' => Mine(q) /\ requests'[q].server = requests[q].server
    BY <1>1 DEF Mine
<1>5. Phase' /\ BusyMeansWaiting'
    <2>1. \A q \in Slots : q # r => (Mine(q)' <=> Mine(q))
        BY <1>1 DEF Mine
    <2>2. CASE Mine(r)
        BY <1>0, <1>1, <1>2, <1>3, <1>4, <2>2, ServerPhase DEF screenState
    <2>3. CASE ~Mine(r)
        <3>1. answers' = answers /\ \A q \in Slots : Mine(q) => Mine(q)'
            BY <1>2, <2>1, <2>3
        <3>. QED  BY <1>0, <1>3, <1>4, <3>1, ServerPhase DEF screenState
    <2>. QED  BY <2>2, <2>3
<1>6. Ours'
    <2>1. \A ans \in answers' \ answers : ans.token = None
        BY <1>2
    <2>. QED  BY <1>0, <1>4, <2>1, ServerOwn DEF screenState
<1>7. Seeds'
    BY <1>0, <1>1, ServerSeeds
<1>. QED  BY <1>3, <1>5, <1>6, <1>7 DEF AccountsInv

(* Somebody else's request is nothing to the client.                       *)
LEMMA Anothers ==
    ASSUME AccountsInv, Another PROVE AccountsInv'
<1>0. Typed /\ Phase /\ BusyMeansWaiting /\ Ours /\ Seeds
    BY DEF AccountsInv
<1>1. PICK s \in Servers, name \in Names, p \in Passwords : Arrive("register", s, name, p, FALSE)
    BY AccountsAssumption DEF Another
<1>2. UNCHANGED <<db, before, issued, failed, unseeded, screenState, clientState>>
    BY DEF Another
<1>3. PICK r \in Slots : Arrived(r, s, name, p, FALSE)
    <2>1. "register" \in {"register", "login"} /\ FALSE \in BOOLEAN
        OBVIOUS
    <2>. QED  BY <1>0, <1>1, <2>1, Arrives, Zenon
<1>4. Typed'
    BY <1>0, <1>2, <1>3 DEF Typed, Arrived, screenState, clientState
<1>5. \A q \in Slots : (Mine(q)' <=> Mine(q)) /\ (Mine(q) => requests'[q] = requests[q])
    BY <1>3 DEF Mine, Arrived
<1>6. Phase' /\ BusyMeansWaiting'
    BY <1>0, <1>2, <1>4, <1>5, ServerPhase DEF screenState, clientState
<1>7. Ours'
    BY <1>0, <1>2, <1>5, ServerOwn DEF screenState, clientState
<1>8. Seeds'
    BY <1>0, <1>2, <1>3, ServerSeeds DEF Arrived
<1>. QED  BY <1>4, <1>6, <1>7, <1>8 DEF AccountsInv

(* A stage that changes is no affair of the client's.                      *)
LEMMA MovedOn ==
    ASSUME Typed, Phase, BusyMeansWaiting, Ours, NEW r \in Slots, NEW stage \in Stages,
           Moved(r, stage), Typed', failed' = failed,
           UNCHANGED <<screenState, clientState>>,
           \A s \in Servers : db[s].tokens \subseteq db'[s].tokens
    PROVE  Phase' /\ BusyMeansWaiting' /\ Ours'
<1>1. \A q \in Slots : (Mine(q)' <=> Mine(q)) /\ requests'[q].server = requests[q].server
    BY DEF Moved, Mine
<1>2. Phase' /\ BusyMeansWaiting'
    BY <1>1, ServerPhase DEF screenState, clientState
<1>3. Ours'
    BY <1>1, ServerOwn DEF screenState, clientState
<1>. QED  BY <1>2, <1>3

(* Whoever checks an empty server is the first there.                      *)
LEMMA Checks ==
    ASSUME AccountsInv, NEW r \in Slots, Check(r) PROVE AccountsInv'
<1>0. Typed /\ Phase /\ BusyMeansWaiting /\ Ours /\ Seeds
    BY DEF AccountsInv
<1>. DEFINE first == IsEmpty(requests[r].server)
<1>1. /\ requests[r].stage = "asked"
      /\ UNCHANGED <<db, before, issued, failed, unseeded, screenState, token, serverUrl, view, probing,
                     net, strayed>>
    BY DEF Check
<1>2. CASE Refuse(r)
    BY <1>1, <1>2, Refused
<1>3. CASE /\ requests' = [requests EXCEPT ![r].stage = "hashing", ![r].first = first]
           /\ UNCHANGED answers
    <2>. DEFINE new == [requests[r] EXCEPT !.stage = "hashing", !.first = first]
    <2>1. requests \in [Slots -> Jobs] /\ requests[r] \in Jobs
        BY <1>0 DEF Typed
    <2>2. first \in BOOLEAN
        BY DEF IsEmpty
    <2>3. requests' = [requests EXCEPT ![r] = new]
        BY <1>3, <2>1 DEF Jobs
    <2>. HIDE DEF first
    <2>4. /\ new \in Jobs /\ new.stage = "hashing" /\ new.server = requests[r].server
          /\ new.name = requests[r].name /\ new.password = requests[r].password
          /\ new.first = first /\ new.mine = requests[r].mine
        BY <2>1, <2>2 DEF Jobs
    <2>. HIDE DEF new
    <2>5. /\ requests' \in [Slots -> Jobs] /\ requests'[r] = new
          /\ \A q \in Slots : q # r => requests'[q] = requests[q]
        BY <2>1, <2>3, <2>4
    <2>6. Typed'
        BY <1>0, <1>1, <2>4, <2>5 DEF Typed, screenState
    <2>7. \A q \in Slots : (Mine(q)' <=> Mine(q)) /\ requests'[q].server = requests[q].server
        BY <2>4, <2>5 DEF Mine
    <2>8. Phase' /\ BusyMeansWaiting'
        BY <1>0, <1>1, <1>3, <2>6, <2>7, ServerPhase DEF screenState
    <2>9. Ours'
        BY <1>0, <1>1, <1>3, <2>7, ServerOwn DEF screenState
    <2>10. IsEmpty(requests'[r].server) => requests'[r].first
        BY <2>4, <2>5 DEF first
    <2>11. Seeds'
        BY <1>0, <1>1, <2>4, <2>5, <2>10, ServerSeeds
    <2>. QED  BY <2>6, <2>8, <2>9, <2>11 DEF AccountsInv
<1>. QED  BY <1>2, <1>3 DEF Check

(* A log-in changes no account and no channel.                             *)
LEMMA LooksUp ==
    ASSUME AccountsInv, NEW r \in Slots, LookUp(r) PROVE AccountsInv'
<1>0. Typed /\ Phase /\ BusyMeansWaiting /\ Ours /\ Seeds
    BY DEF AccountsInv
<1>1. /\ requests[r].stage = "asked"
      /\ UNCHANGED <<db, before, issued, failed, unseeded, screenState, token, serverUrl, view, probing,
                     net, strayed>>
    BY DEF LookUp
<1>2. CASE Refuse(r)
    BY <1>1, <1>2, Refused
<1>3. CASE requests' = [requests EXCEPT ![r].stage = "token"] /\ UNCHANGED answers
    <2>1. "token" \in Stages /\ Moved(r, "token")
        BY <1>0, <1>3, Moves DEF Stages
    <2>2. Typed'
        BY <1>0, <1>1, <2>1 DEF Typed, Moved, screenState
    <2>3. Phase' /\ BusyMeansWaiting' /\ Ours'
        BY <1>0, <1>1, <1>3, <2>1, <2>2, MovedOn DEF clientState
    <2>4. Seeds'
        BY <1>0, <1>1, <2>1, ServerSeeds DEF Moved
    <2>. QED  BY <2>2, <2>3, <2>4 DEF AccountsInv
<1>. QED  BY <1>2, <1>3 DEF LookUp

(* The client's request is answered once, be it by the clock.              *)
LEMMA TimesOut ==
    ASSUME AccountsInv, NEW r \in Slots, TimeOut(r) PROVE AccountsInv'
<1>0. Typed /\ Phase /\ BusyMeansWaiting /\ Ours /\ Seeds
    BY DEF AccountsInv
<1>. DEFINE new == [requests[r] EXCEPT !.mine = FALSE]
<1>1. requests \in [Slots -> Jobs] /\ requests[r] \in Jobs
    BY <1>0 DEF Typed
<1>2. requests' = [requests EXCEPT ![r] = new]
    BY <1>1 DEF TimeOut, Jobs
<1>3. /\ new \in Jobs /\ new.stage = requests[r].stage /\ new.server = requests[r].server
      /\ new.name = requests[r].name /\ new.password = requests[r].password
      /\ new.first = requests[r].first /\ ~new.mine
    BY <1>1 DEF Jobs
<1>4. /\ UNCHANGED <<db, before, issued, failed, unseeded, screenState, token, serverUrl, view, probing,
                     net, strayed>>
      /\ Mine(r) /\ answers' = answers \cup {[token |-> None]}
    BY DEF TimeOut, Mine
<1>. HIDE DEF new
<1>5. /\ requests' \in [Slots -> Jobs] /\ requests'[r] = new
      /\ \A q \in Slots : q # r => requests'[q] = requests[q]
    BY <1>1, <1>2, <1>3
<1>6. Typed'
    BY <1>0, <1>3, <1>4, <1>5 DEF Typed, screenState
<1>7. ~Mine(r)' /\ \A q \in Slots : Mine(q)' => Mine(q) /\ requests'[q].server = requests[q].server
    BY <1>3, <1>5 DEF Mine
<1>8. Phase' /\ BusyMeansWaiting'
    BY <1>0, <1>4, <1>6, <1>7, ServerPhase DEF screenState
<1>9. Ours'
    <2>1. \A ans \in answers' \ answers : ans.token = None
        BY <1>4
    <2>. QED  BY <1>0, <1>4, <1>7, <2>1, ServerOwn DEF screenState
<1>10. Seeds'
    BY <1>0, <1>3, <1>4, <1>5, ServerSeeds
<1>. QED  BY <1>6, <1>8, <1>9, <1>10 DEF AccountsInv

(* A request that fails is refused.                                        *)
LEMMA FailsThen ==
    ASSUME AccountsInv, NEW r \in Slots, Fails(r) PROVE AccountsInv'
BY Refused DEF Fails

(* What a server writes it wrote there only.                               *)
LEMMA Writes ==
    ASSUME Typed, NEW s \in Servers, NEW new \in Stores, Write(s, new)
    PROVE  /\ db' \in [Servers -> Stores] /\ before' \in [Servers -> Stores]
           /\ db'[s] = new
           /\ \A t \in Servers : t # s => db'[t] = db[t]
BY DEF Typed, Write

(* A token is written before it is given away.                             *)
LEMMA IssuesToken ==
    ASSUME AccountsInv, NEW r \in Slots, IssueToken(r) PROVE AccountsInv'
<1>0. Typed /\ Phase /\ BusyMeansWaiting /\ Ours /\ Seeds
    BY DEF AccountsInv
<1>. DEFINE s == requests[r].server
            new == [server |-> s, user |-> requests[r].name, number |-> issued + 1]
            store == [db[s] EXCEPT !.tokens = @ \cup {new}]
<1>1. /\ requests[r].stage = "token" /\ issued' = issued + 1
      /\ Write(s, store) /\ Forget(r)
      /\ answers' = IF Mine(r) THEN answers \cup {[token |-> new]} ELSE answers
      /\ UNCHANGED <<failed, unseeded, screenState, token, serverUrl, view, probing, net, strayed>>
    BY DEF IssueToken, Mine
<1>2. s \in Servers /\ requests[r].name \in Names /\ issued \in Nat /\ db[s] \in Stores
    BY <1>0, <1>1 DEF Typed
<1>3. new \in Tokens /\ new.server = s
    BY <1>2 DEF Tokens
<1>. HIDE DEF new
<1>4. /\ store \in Stores /\ store.users = db[s].users /\ store.channels = db[s].channels
      /\ store.tokens = db[s].tokens \cup {new}
    BY <1>2, <1>3 DEF Stores
<1>. HIDE DEF store
<1>5. /\ db' \in [Servers -> Stores] /\ before' \in [Servers -> Stores]
      /\ db'[s] = store /\ \A t \in Servers : t # s => db'[t] = db[t]
    BY <1>0, <1>1, <1>2, <1>4, Writes
<1>6. /\ requests' \in [Slots -> Jobs] /\ requests'[r].stage = "none" /\ ~Mine(r)'
      /\ \A q \in Slots : q # r => requests'[q] = requests[q]
    BY <1>0, <1>1, Forgets DEF Mine
<1>7. Typed'
    <2>1. issued' \in Nat /\ UNCHANGED <<url, mode, serverUrl>>
        BY <1>1, <1>2 DEF screenState
    <2>. QED  BY <1>0, <1>5, <1>6, <2>1 DEF Typed
<1>8. /\ \A q \in Slots : Mine(q)' => Mine(q) /\ requests'[q].server = requests[q].server
      /\ \A q \in Slots : q # r => (Mine(q)' <=> Mine(q))
    BY <1>6 DEF Mine
<1>9. Phase' /\ BusyMeansWaiting'
    <2>1. CASE Mine(r)
        <3>1. \E ans : answers' = answers \cup {ans}
            BY <1>1, <2>1
        <3>. QED  BY <1>0, <1>1, <1>6, <1>7, <1>8, <2>1, <3>1, ServerPhase DEF screenState
    <2>2. CASE ~Mine(r)
        <3>1. answers' = answers /\ \A q \in Slots : Mine(q) => Mine(q)'
            BY <1>1, <1>8, <2>2
        <3>. QED  BY <1>0, <1>1, <1>7, <1>8, <3>1, ServerPhase DEF screenState
    <2>. QED  BY <2>1, <2>2
<1>10. Ours'
    <2>1. new \in db'[s].tokens
        BY <1>4, <1>5
    <2>2. ASSUME NEW ans \in answers' \ answers
          PROVE  Kept(ans.token)' /\ (ans.token.server = url \/ strayed)
        <3>1. Mine(r) /\ ans = [token |-> new]
            BY <1>1, <2>2
        <3>2. ans.token = new
            BY <3>1
        <3>3. s = url \/ strayed
            BY <1>0, <3>1 DEF Ours
        <3>4. Kept(ans.token)'
            BY <1>2, <1>3, <2>1, <3>2 DEF Kept
        <3>. QED  BY <1>3, <3>2, <3>3, <3>4
    <2>3. \A t \in Servers : db[t].tokens \subseteq db'[t].tokens
        BY <1>2, <1>4, <1>5
    <2>. QED  BY <1>0, <1>1, <1>8, <2>2, <2>3, ServerOwn DEF screenState
<1>11. Seeds'
    <2>1. \A t \in Servers : db'[t].users = db[t].users /\ db'[t].channels = db[t].channels
        BY <1>2, <1>4, <1>5
    <2>. QED  BY <1>0, <1>1, <1>6, <2>1, ServerSeeds
<1>. QED  BY <1>7, <1>9, <1>10, <1>11 DEF AccountsInv

(* A server that fails takes its own requests and its last write with it.  *)
LEMMA Crashes ==
    ASSUME AccountsInv, NEW s \in Servers, Crash(s) PROVE AccountsInv'
<1>0. Typed /\ Phase /\ BusyMeansWaiting /\ Ours /\ Seeds
    BY DEF AccountsInv
<1>. DEFINE Hit(r) == requests[r].server = s
<1>1. /\ UNCHANGED <<issued, unseeded, screenState, token, serverUrl, view, probing, net, strayed>>
      /\ failed' = failed \cup {s}
    BY DEF Crash
<1>2. requests' = [r \in Slots |-> IF Hit(r) THEN NoRequest ELSE requests[r]]
    BY DEF Crash, Slots
<1>3. answers' = IF \E r \in Slots : Hit(r) /\ Mine(r) THEN answers \cup {[token |-> None]} ELSE answers
    BY DEF Crash, Slots, Mine
<1>4. /\ db' \in [Servers -> Stores] /\ before' \in [Servers -> Stores]
      /\ \A t \in Servers : t # s => db'[t] = db[t]
    BY <1>0 DEF Crash, Typed
<1>5. NoRequest \in Jobs /\ NoRequest.stage = "none" /\ ~NoRequest.mine
    BY DEF NoRequest, Jobs
<1>6. /\ requests' \in [Slots -> Jobs]
      /\ \A r \in Slots : requests'[r] = IF Hit(r) THEN NoRequest ELSE requests[r]
    BY <1>0, <1>2, <1>5 DEF Typed
<1>. HIDE DEF Hit
<1>7. Typed'
    BY <1>0, <1>1, <1>4, <1>5, <1>6 DEF Typed, screenState
<1>8. \A q \in Slots : Mine(q)' <=> Mine(q) /\ ~Hit(q)
    BY <1>5, <1>6 DEF Mine
<1>9. \A q \in Slots : Mine(q)' => Mine(q) /\ requests'[q].server = requests[q].server
    BY <1>6, <1>8
<1>10. Phase' /\ BusyMeansWaiting'
    <2>1. CASE \E r \in Slots : Hit(r) /\ Mine(r)
        <3>1. \E ans : answers' = answers \cup {ans}
            BY <1>3, <2>1
        <3>2. \E r \in Slots : Mine(r) /\ ~Mine(r)'
            BY <1>8, <2>1
        <3>. QED  BY <1>0, <1>1, <1>7, <1>9, <3>1, <3>2, ServerPhase DEF screenState
    <2>2. CASE ~ \E r \in Slots : Hit(r) /\ Mine(r)
        <3>1. answers' = answers /\ \A q \in Slots : Mine(q) => Mine(q)'
            BY <1>3, <1>8, <2>2
        <3>. QED  BY <1>0, <1>1, <1>7, <1>9, <3>1, ServerPhase DEF screenState
    <2>. QED  BY <2>1, <2>2
<1>11. \A t \in Servers \ failed' : db'[t] = db[t]
    BY <1>1, <1>4
<1>12. Ours'
    <2>1. \A ans \in answers' \ answers : ans.token = None
        BY <1>3
    <2>. QED  BY <1>0, <1>1, <1>9, <1>11, <2>1, ServerOwn DEF screenState
<1>13. Seeds'
    BY <1>0, <1>1, <1>5, <1>6, <1>11, ServerSeeds DEF Hit
<1>. QED  BY <1>7, <1>10, <1>12, <1>13 DEF AccountsInv

----------------------------------------------------------------------------
(* The first account and the first channels.                               *)

(* A server nothing happens at is none the worse.                          *)
LEMMA Elsewhere ==
    ASSUME NEW s, Seeded(s), db'[s] = db[s], unseeded \subseteq unseeded',
           \A r \in Slots : requests'[r].server = requests[r].server,
           \A r \in Slots : requests[r].server = s => requests'[r] = requests[r]
    PROVE  Seeded(s)'
<1>1. /\ (IsEmpty(s))' <=> IsEmpty(s)
      /\ \A kind : Given(s, kind) => Given(s, kind)'
    BY DEF IsEmpty, Given, Has
<1>2. \A stage : Makes(s, stage) => Makes(s, stage)'
    BY DEF Makes
<1>3. \A r \in Slots : requests'[r].server = s /\ requests'[r].stage = "hashing" =>
          ((IsEmpty(s))' => requests'[r].first)
    BY <1>1 DEF Seeded
<1>4. (~IsEmpty(s))' => \/ Makes(s, "text")'
                        \/ Given(s, "text")' /\ (Makes(s, "voice")' \/ Given(s, "voice")')
    BY <1>1, <1>2 DEF Seeded
<1>. QED  BY <1>3, <1>4 DEF Seeded

(* The first account has its channels made, and no other is the first.     *)
LEMMA Populated ==
    ASSUME NEW s, NEW r \in Slots, NEW stage \in {"text", "token"}, Seeded(s),
           requests[r].server = s, requests[r].stage = "hashing", Moved(r, stage),
           stage = "text" <=> requests[r].first,
           db'[s].users # {}, db'[s].channels = db[s].channels, unseeded \subseteq unseeded'
    PROVE  Seeded(s)'
<1>1. (~IsEmpty(s))' /\ \A kind : Given(s, kind) => Given(s, kind)'
    BY DEF IsEmpty, Given, Has
<1>2. \A made \in {"text", "voice"} : Makes(s, made) => Makes(s, made)'
    BY DEF Makes, Moved
<1>3. \/ Makes(s, "text")'
      \/ Given(s, "text")' /\ (Makes(s, "voice")' \/ Given(s, "voice")')
    <2>1. CASE stage = "text"
        BY <2>1 DEF Makes, Moved
    <2>2. CASE stage # "text"
        <3>1. ~IsEmpty(s)
            BY <2>2 DEF Seeded
        <3>. QED  BY <1>1, <1>2, <3>1 DEF Seeded
    <2>. QED  BY <2>1, <2>2
<1>4. \A q \in Slots : requests'[q].server = s /\ requests'[q].stage = "hashing" =>
          ((IsEmpty(s))' => requests'[q].first)
    BY <1>1
<1>. QED  BY <1>3, <1>4 DEF Seeded

(* An account, refused if its name is taken.                               *)
LEMMA CreatesUser ==
    ASSUME AccountsInv, NEW r \in Slots, CreateUser(r) PROVE AccountsInv'
<1>0. Typed /\ Phase /\ BusyMeansWaiting /\ Ours /\ Seeds
    BY DEF AccountsInv
<1>. DEFINE s == requests[r].server
            user == [name |-> requests[r].name, password |-> requests[r].password]
            store == [db[s] EXCEPT !.users = @ \cup {user}]
            stage == IF FirstOf(r) THEN "text" ELSE "token"
<1>1. /\ requests[r].stage = "hashing"
      /\ UNCHANGED <<issued, failed, unseeded, screenState, token, serverUrl, view, probing, net, strayed>>
    BY DEF CreateUser
<1>2. CASE Refuse(r) /\ UNCHANGED <<db, before>>
    BY <1>1, <1>2, Refused
<1>3. CASE /\ Write(s, store) /\ requests' = [requests EXCEPT ![r].stage = stage]
           /\ UNCHANGED answers
    <2>1. s \in Servers /\ db[s] \in Stores /\ user \in People
        BY <1>0, <1>1 DEF Typed, People
    <2>. HIDE DEF user
    <2>2. /\ store \in Stores /\ store.users = db[s].users \cup {user}
          /\ store.channels = db[s].channels /\ store.tokens = db[s].tokens
        BY <2>1 DEF Stores
    <2>. HIDE DEF store
    <2>3. /\ db' \in [Servers -> Stores] /\ before' \in [Servers -> Stores]
          /\ db'[s] = store /\ \A t \in Servers : t # s => db'[t] = db[t]
        BY <1>0, <1>3, <2>1, <2>2, Writes
    <2>4. stage \in {"text", "token"} /\ (stage = "text" <=> requests[r].first)
        BY DEF FirstOf
    <2>. HIDE DEF stage
    <2>5. stage \in Stages /\ Moved(r, stage)
        BY <1>0, <1>3, <2>4, Moves DEF Stages
    <2>6. Typed'
        <3>1. UNCHANGED <<issued, url, mode, serverUrl>>
            BY <1>1 DEF screenState
        <3>. QED  BY <1>0, <1>1, <2>3, <2>5, <3>1 DEF Typed, Moved
    <2>7. Phase' /\ BusyMeansWaiting' /\ Ours'
        <3>1. \A t \in Servers : db[t].tokens \subseteq db'[t].tokens
            BY <2>1, <2>2, <2>3
        <3>. QED  BY <1>0, <1>1, <1>3, <2>5, <2>6, <3>1, MovedOn DEF clientState
    <2>8. ASSUME NEW t \in Servers \ failed PROVE Seeded(t)'
        <3>1. Seeded(t)
            BY <1>0 DEF Seeds
        <3>2. CASE t # s
            BY <1>1, <2>3, <2>5, <3>1, <3>2, Elsewhere DEF Moved
        <3>3. CASE t = s
            <4>1. /\ db'[t].users = db[t].users \cup {user}
                  /\ db'[t].channels = db[t].channels
                BY <2>2, <2>3, <3>3
            <4>2. db'[t].users # {}
                BY <4>1
            <4>. QED  BY <1>1, <2>4, <2>5, <3>1, <3>3, <4>1, <4>2, Populated
        <3>. QED  BY <3>2, <3>3
    <2>9. Seeds'
        <3>1. failed' = failed
            BY <1>1
        <3>. QED  BY <2>8, <3>1 DEF Seeds
    <2>. QED  BY <2>6, <2>7, <2>9 DEF AccountsInv
<1>. QED  BY <1>2, <1>3 DEF CreateUser

(* A new channel comes after those of its kind, and is like no other.      *)
LEMMA Grown ==
    ASSUME NEW old \in Lists, NEW kind \in {"text", "voice"}, NEW place,
           place = [kind |-> kind,
                    position |-> IF At(old, kind) = {} THEN 0 ELSE Max(At(old, kind)) + 1]
    PROVE  Append(old, place) \in Lists
<1>0. old \in Seq(Places) /\ \A m, n \in DOMAIN old : m # n => old[m] # old[n]
    BY DEF Lists
<1>1. PICK k \in Nat : At(old, kind) = 0 .. (k - 1)
    BY DEF Lists
<1>2. place = [kind |-> kind, position |-> k]
    <2>1. CASE k = 0
        <3>1. At(old, kind) = {}
            BY <1>1, <2>1
        <3>. QED  BY <2>1, <3>1
    <2>2. CASE k > 0
        <3>1. k - 1 \in At(old, kind) /\ \A y \in At(old, kind) : k - 1 >= y
            BY <1>1, <2>2
        <3>2. ASSUME NEW x \in At(old, kind), \A y \in At(old, kind) : x >= y PROVE x = k - 1
            <4>1. x \in 0 .. (k - 1) /\ x >= k - 1
                BY <1>1, <3>1, <3>2
            <4>. QED  BY <4>1
        <3>3. Max(At(old, kind)) = k - 1
            BY <3>1, <3>2 DEF Max
        <3>. QED  BY <3>1, <3>3
    <2>. QED  BY <2>1, <2>2
<1>3. place.kind = kind /\ place.position = k /\ place \in Places
    BY <1>2 DEF Places
<1>. DEFINE new == Append(old, place)
<1>4. /\ DOMAIN new = DOMAIN old \cup {Len(old) + 1} /\ new \in Seq(Places)
      /\ new[Len(old) + 1] = place /\ \A n \in DOMAIN old : new[n] = old[n]
    BY <1>0, <1>3
<1>. HIDE DEF new
<1>5. At(new, kind) = At(old, kind) \cup {k}
    <2>. DEFINE Of(c) == {n \in DOMAIN c : c[n].kind = kind}
    <2>1. Of(new) = Of(old) \cup {Len(old) + 1}
        BY <1>3, <1>4
    <2>2. \A n \in Of(old) : new[n].position = old[n].position
        BY <1>4
    <2>3. new[Len(old) + 1].position = k
        BY <1>3, <1>4
    <2>4. At(old, kind) = {old[n].position : n \in Of(old)} /\ At(new, kind) = {new[n].position : n \in Of(new)}
        BY DEF At
    <2>. HIDE DEF Of
    <2>. QED  BY <2>1, <2>2, <2>3, <2>4
<1>6. \A other : other # kind => At(new, other) = At(old, other)
    BY <1>3, <1>4 DEF At
<1>7. 0 .. ((k + 1) - 1) = 0 .. (k - 1) \cup {k} /\ k + 1 \in Nat
    OBVIOUS
<1>8. ASSUME NEW other \in {"text", "voice"} PROVE \E j \in Nat : At(new, other) = 0 .. (j - 1)
    <2>1. CASE other = kind
        BY <1>1, <1>5, <1>7, <2>1
    <2>2. CASE other # kind
        BY <1>6, <2>2 DEF Lists
    <2>. QED  BY <2>1, <2>2
<1>9. ASSUME NEW n \in DOMAIN old, old[n] = place PROVE FALSE
    <2>1. k \in At(old, kind)
        BY <1>3, <1>9 DEF At
    <2>. QED  BY <1>1, <2>1
<1>10. \A m, n \in DOMAIN new : m # n => new[m] # new[n]
    BY <1>0, <1>4, <1>9
<1>. QED  BY <1>4, <1>8, <1>10 DEF Lists, new

(* A channel that is added is there, and those that were stay.             *)
LEMMA OneMore ==
    ASSUME NEW s, NEW kind, NEW place, place.kind = kind, db[s].channels \in Lists,
           db'[s].channels = Append(db[s].channels, place)
    PROVE  Has(s, kind)' /\ \A other : Has(s, other) => Has(s, other)'
<1>. DEFINE old == db[s].channels  new == db'[s].channels
<1>1. old \in Seq(Places)
    BY DEF Lists
<1>2. /\ DOMAIN new = DOMAIN old \cup {Len(old) + 1}
      /\ new[Len(old) + 1] = place /\ \A n \in DOMAIN old : new[n] = old[n]
    BY <1>1
<1>. QED  BY <1>2 DEF Has

(* The text channel comes first, and is followed by the voice channel,     *)
(* made or not.                                                            *)
LEMMA Furnished ==
    ASSUME NEW s, NEW r \in Slots, NEW kind \in {"text", "voice"}, NEW stage, Seeded(s),
           requests[r].server = s, requests[r].stage = kind, Moved(r, stage),
           kind = "text" => stage = "voice", stage \notin {"hashing", "text"},
           db'[s].users = db[s].users,
           Given(s, kind)', \A other : Given(s, other) => Given(s, other)'
    PROVE  Seeded(s)'
<1>1. (IsEmpty(s))' <=> IsEmpty(s)
    BY DEF IsEmpty
<1>2. \A q \in Slots : requests'[q].server = s /\ requests'[q].stage = "hashing" =>
          ((IsEmpty(s))' => requests'[q].first)
    BY <1>1 DEF Seeded, Moved
<1>3. ASSUME (~IsEmpty(s))'
      PROVE  \/ Makes(s, "text")'
             \/ Given(s, "text")' /\ (Makes(s, "voice")' \/ Given(s, "voice")')
    <2>1. CASE kind = "text"
        <3>1. Makes(s, "voice")'
            BY <2>1 DEF Makes, Moved
        <3>. QED  BY <2>1, <3>1
    <2>2. CASE kind = "voice"
        <3>1. Makes(s, "text") => Makes(s, "text")'
            BY <2>2 DEF Makes, Moved
        <3>2. Makes(s, "text") \/ Given(s, "text")
            BY <1>1, <1>3 DEF Seeded
        <3>. QED  BY <2>2, <3>1, <3>2
    <2>. QED  BY <2>1, <2>2
<1>. QED  BY <1>2, <1>3 DEF Seeded

(* A first channel, or none.                                               *)
LEMMA CreatesChannel ==
    ASSUME AccountsInv, NEW r \in Slots, CreateChannel(r) PROVE AccountsInv'
<1>0. Typed /\ Phase /\ BusyMeansWaiting /\ Ours /\ Seeds
    BY DEF AccountsInv
<1>1. PICK kind \in {"text", "voice"} : requests[r].stage = kind
    BY DEF CreateChannel
<1>2. PICK s \in Servers : requests[r].server = s
    BY <1>0, <1>1 DEF Typed
<1>. DEFINE place == [kind |-> kind, position |-> Position(s, kind)]
            store == [db[s] EXCEPT !.channels = Append(@, place)]
            stage == IF kind = "text" THEN "voice" ELSE "token"
<1>3. /\ requests' = [requests EXCEPT ![r].stage = stage]
      /\ UNCHANGED <<issued, failed, screenState, clientState>>
    BY <1>1, <1>2 DEF CreateChannel
<1>4. \/ Write(s, store) /\ unseeded' = unseeded
      \/ unseeded' = unseeded \cup {<<s, kind>>} /\ UNCHANGED <<db, before>>
    BY <1>1, <1>2 DEF CreateChannel
<1>5. db[s] \in Stores /\ db[s].channels \in Lists
    BY <1>0 DEF Typed, Stores
<1>6. stage \in Stages /\ (kind = "text" => stage = "voice") /\ stage \notin {"hashing", "text"}
    BY DEF Stages
<1>. HIDE DEF stage
<1>7. Moved(r, stage)
    BY <1>0, <1>3, <1>6, Moves
<1>8. Append(db[s].channels, place) \in Lists
    BY <1>5, Grown DEF Position, At
<1>9. place.kind = kind
    OBVIOUS
<1>. HIDE DEF place
<1>10. /\ store \in Stores /\ store.users = db[s].users /\ store.tokens = db[s].tokens
      /\ store.channels = Append(db[s].channels, place)
    BY <1>5, <1>8 DEF Stores
<1>. HIDE DEF store
<1>11. /\ db' \in [Servers -> Stores] /\ before' \in [Servers -> Stores]
       /\ unseeded \subseteq unseeded'
    <2>1. CASE Write(s, store) /\ unseeded' = unseeded
        BY <1>0, <1>5, <1>10, <2>1, Writes
    <2>2. CASE unseeded' = unseeded \cup {<<s, kind>>} /\ UNCHANGED <<db, before>>
        BY <1>0, <2>2 DEF Typed
    <2>. QED  BY <1>4, <2>1, <2>2
<1>12. /\ \A t \in Servers : t # s => db'[t] = db[t]
       /\ db'[s].users = db[s].users
       /\ db'[s].tokens = db[s].tokens
    <2>1. CASE Write(s, store)
        <3>1. db'[s] = store /\ \A t \in Servers : t # s => db'[t] = db[t]
            BY <1>0, <1>5, <1>10, <2>1, Writes
        <3>. QED  BY <1>10, <3>1
    <2>2. CASE UNCHANGED <<db, before>>
        BY <2>2
    <2>. QED  BY <1>4, <2>1, <2>2
<1>13. Given(s, kind)' /\ \A other : Given(s, other) => Given(s, other)'
    <2>1. CASE Write(s, store) /\ unseeded' = unseeded
        <3>1. db'[s] = store
            BY <1>0, <1>5, <1>10, <2>1, Writes
        <3>2. db'[s].channels = Append(db[s].channels, place)
            BY <1>10, <3>1
        <3>3. Has(s, kind)' /\ \A other : Has(s, other) => Has(s, other)'
            BY <1>5, <1>9, <3>2, OneMore
        <3>. QED  BY <2>1, <3>3 DEF Given
    <2>2. CASE unseeded' = unseeded \cup {<<s, kind>>} /\ UNCHANGED <<db, before>>
        BY <2>2 DEF Given, Has
    <2>. QED  BY <1>4, <2>1, <2>2
<1>14. Typed'
    <2>1. UNCHANGED <<issued, url, mode, serverUrl>>
        BY <1>3 DEF screenState, clientState
    <2>. QED  BY <1>0, <1>1, <1>2, <1>7, <1>11, <2>1 DEF Typed, Moved
<1>15. Phase' /\ BusyMeansWaiting' /\ Ours'
    <2>1. \A t \in Servers : db[t].tokens \subseteq db'[t].tokens
        BY <1>12
    <2>. QED  BY <1>0, <1>3, <1>6, <1>7, <1>14, <2>1, MovedOn
<1>16. ASSUME NEW t \in Servers \ failed PROVE Seeded(t)'
    <2>1. Seeded(t)
        BY <1>0 DEF Seeds
    <2>2. CASE t # s
        BY <1>2, <1>7, <1>11, <1>12, <2>1, <2>2, Elsewhere DEF Moved
    <2>3. CASE t = s
        <3>1. Seeded(s)'
            BY <1>1, <1>2, <1>6, <1>7, <1>12, <1>13, <2>1, <2>3, Furnished
        <3>. QED  BY <2>3, <3>1
    <2>. QED  BY <2>2, <2>3
<1>17. Seeds'
    <2>1. failed' = failed
        BY <1>3
    <2>. QED  BY <1>16, <2>1 DEF Seeds
<1>. QED  BY <1>14, <1>15, <1>17 DEF AccountsInv

----------------------------------------------------------------------------
(* The connect screen and the network thread.                              *)

\* Requests and what the servers know are as they were.
Undisturbed ==
    /\ \A q \in Slots : (Mine(q)' <=> Mine(q)) /\ requests'[q].server = requests[q].server
    /\ Outstanding' <=> Outstanding
    /\ Outstanding <=> \E q \in Slots : Mine(q)
    /\ \A t : Kept(t)' <=> Kept(t)

(* What the screen does changes nothing of a server.                       *)
LEMMA ScreenOnly ==
    ASSUME Typed, Seeds, UNCHANGED serverState, url' \in Servers,
           mode' \in {"login", "register", None}, serverUrl' \in Servers \cup {None}
    PROVE  Typed' /\ Seeds' /\ Undisturbed
<1>1. Typed'
    BY DEF Typed, serverState
<1>2. Seeds'
    BY ServerSeeds DEF serverState
<1>3. Undisturbed
    <2>1. UNCHANGED <<requests, db, failed>> /\ DOMAIN requests = Slots
        BY DEF serverState, Typed
    <2>. QED  BY <2>1 DEF Undisturbed, Mine, Outstanding, Kept
<1>. QED  BY <1>1, <1>2, <1>3

(* A probe, when nothing else is under way.                                *)
LEMMA Probes ==
    ASSUME AccountsInv, Probe PROVE AccountsInv'
<1>0. Typed /\ Phase /\ BusyMeansWaiting /\ Ours /\ Seeds
    BY DEF AccountsInv
<1>1. UNCHANGED serverState /\ url' \in Servers /\ mode' \in {"login", "register", None}
      /\ serverUrl' \in Servers \cup {None}
    BY <1>0 DEF Probe, Typed, screenState
<1>2. Typed' /\ Seeds' /\ Undisturbed
    BY <1>0, <1>1, ScreenOnly
<1>3. Phase'
    BY <1>0, <1>2 DEF Probe, Phase, Off, Undisturbed, screenState
<1>4. BusyMeansWaiting'
    BY <1>0, <1>2, AccountsAssumption DEF Probe, Typed, BusyMeansWaiting
<1>5. Ours'
    BY <1>0, <1>2 DEF Probe, Ours, Phase, Off, Undisturbed, screenState
<1>. QED  BY <1>2, <1>3, <1>4, <1>5 DEF AccountsInv

(* Its answer.                                                             *)
LEMMA ProbedThen ==
    ASSUME AccountsInv, Probed PROVE AccountsInv'
<1>0. Typed /\ Phase /\ BusyMeansWaiting /\ Ours /\ Seeds
    BY DEF AccountsInv
<1>1. UNCHANGED serverState /\ url' \in Servers /\ mode' \in {"login", "register", None}
      /\ serverUrl' \in Servers \cup {None}
    BY <1>0 DEF Probed, Typed, screenState
<1>2. Typed' /\ Seeds' /\ Undisturbed
    BY <1>0, <1>1, ScreenOnly
<1>3. Phase'
    BY <1>0, <1>2 DEF Probed, Phase, Off, Undisturbed, screenState
<1>4. BusyMeansWaiting'
    BY <1>0, <1>2, AccountsAssumption DEF Probed, BusyMeansWaiting, Phase, Off, Undisturbed, screenState
<1>5. Ours'
    BY <1>0, <1>2 DEF Probed, Ours, Phase, Off, Undisturbed, screenState
<1>. QED  BY <1>2, <1>3, <1>4, <1>5 DEF AccountsInv

(* Another address makes what is under way stray.                          *)
LEMMA UrlChanges ==
    ASSUME AccountsInv, NEW u \in Servers, UrlChanged(u) PROVE AccountsInv'
<1>0. Typed /\ Phase /\ BusyMeansWaiting /\ Ours /\ Seeds
    BY DEF AccountsInv
<1>1. UNCHANGED serverState /\ url' \in Servers /\ mode' \in {"login", "register", None}
      /\ serverUrl' \in Servers \cup {None}
    BY <1>0 DEF UrlChanged, Typed, screenState
<1>2. Typed' /\ Seeds' /\ Undisturbed
    BY <1>0, <1>1, ScreenOnly
<1>3. Phase'
    BY <1>0, <1>2 DEF UrlChanged, Phase, Off, Undisturbed, screenState
<1>4. BusyMeansWaiting'
    BY <1>0, <1>2, AccountsAssumption DEF UrlChanged, BusyMeansWaiting, Phase, Off, Undisturbed, screenState
<1>5. Ours'
    <2>1. strayed' <=> strayed \/ answers # {} \/ \E q \in Slots : Mine(q)
        BY <1>0 DEF UrlChanged, Typed, Mine
    <2>2. UNCHANGED <<answers, token, serverUrl>>
        BY DEF UrlChanged
    <2>. QED  BY <1>0, <1>2, <2>1, <2>2 DEF Ours, Undisturbed
<1>. QED  BY <1>2, <1>3, <1>4, <1>5 DEF AccountsInv

(* Logging in, or a new account.                                           *)
LEMMA ChoosesMode ==
    ASSUME AccountsInv, NEW m \in {"login", "register"}, ChooseMode(m) PROVE AccountsInv'
<1>0. Typed /\ Phase /\ BusyMeansWaiting /\ Ours /\ Seeds
    BY DEF AccountsInv
<1>1. UNCHANGED serverState /\ url' \in Servers /\ mode' \in {"login", "register", None}
      /\ serverUrl' \in Servers \cup {None}
    BY <1>0 DEF ChooseMode, Typed, clientState
<1>2. Typed' /\ Seeds' /\ Undisturbed
    BY <1>0, <1>1, ScreenOnly
<1>3. Phase'
    BY <1>0, <1>2 DEF ChooseMode, Phase, Off, Undisturbed, clientState
<1>4. BusyMeansWaiting'
    BY <1>0, <1>2, AccountsAssumption DEF ChooseMode, BusyMeansWaiting, Phase, Off, Undisturbed, clientState
<1>5. Ours'
    BY <1>0, <1>2 DEF ChooseMode, Ours, Phase, Off, Undisturbed, clientState
<1>. QED  BY <1>2, <1>3, <1>4, <1>5 DEF AccountsInv

(* A token, the only answer there is, and a connection for it.             *)
LEMMA Authenticates ==
    ASSUME AccountsInv, NEW ans \in answers, Authenticated(ans) PROVE AccountsInv'
<1>0. Typed /\ Phase /\ BusyMeansWaiting /\ Ours /\ Seeds
    BY DEF AccountsInv
<1>1. UNCHANGED serverState /\ url' \in Servers /\ mode' \in {"login", "register", None}
      /\ serverUrl' \in Servers \cup {None}
    BY <1>0 DEF Authenticated, Typed, SavedUrl
<1>2. Typed' /\ Seeds' /\ Undisturbed
    BY <1>0, <1>1, ScreenOnly
<1>3. Phase'
    BY <1>0, <1>2 DEF Authenticated, Phase, Off, Undisturbed, SavedUrl
<1>4. BusyMeansWaiting'
    BY <1>0, <1>2, AccountsAssumption DEF Authenticated, BusyMeansWaiting, Phase, Off, Undisturbed, SavedUrl
<1>5. Ours'
    BY <1>0, <1>2 DEF Authenticated, Ours, Phase, Off, Undisturbed, SavedUrl
<1>. QED  BY <1>2, <1>3, <1>4, <1>5 DEF AccountsInv

(* An error, the only answer there is.                                     *)
LEMMA DoesNotAuthenticate ==
    ASSUME AccountsInv, NEW ans \in answers, NotAuthenticated(ans) PROVE AccountsInv'
<1>0. Typed /\ Phase /\ BusyMeansWaiting /\ Ours /\ Seeds
    BY DEF AccountsInv
<1>1. UNCHANGED serverState /\ url' \in Servers /\ mode' \in {"login", "register", None}
      /\ serverUrl' \in Servers \cup {None}
    BY <1>0 DEF NotAuthenticated, Typed, screenState
<1>2. Typed' /\ Seeds' /\ Undisturbed
    BY <1>0, <1>1, ScreenOnly
<1>3. Phase'
    BY <1>0, <1>2 DEF NotAuthenticated, Phase, Off, Undisturbed, screenState
<1>4. BusyMeansWaiting'
    BY <1>0, <1>2, AccountsAssumption DEF NotAuthenticated, BusyMeansWaiting, Phase, Off, Undisturbed, screenState
<1>5. Ours'
    BY <1>0, <1>2 DEF NotAuthenticated, Ours, Phase, Off, Undisturbed, screenState
<1>. QED  BY <1>2, <1>3, <1>4, <1>5 DEF AccountsInv

(* The connection is up: only its own report is under way.                 *)
LEMMA Connects ==
    ASSUME AccountsInv, Connected PROVE AccountsInv'
<1>0. Typed /\ Phase /\ BusyMeansWaiting /\ Ours /\ Seeds
    BY DEF AccountsInv
<1>1. UNCHANGED serverState /\ url' \in Servers /\ mode' \in {"login", "register", None}
      /\ serverUrl' \in Servers \cup {None}
    BY <1>0 DEF Connected, Typed, screenState
<1>2. Typed' /\ Seeds' /\ Undisturbed
    BY <1>0, <1>1, ScreenOnly
<1>3. Phase'
    BY <1>0, <1>2 DEF Connected, Phase, Off, Undisturbed, screenState
<1>4. BusyMeansWaiting'
    BY <1>0, <1>2, AccountsAssumption DEF Connected, BusyMeansWaiting, Phase, Off, Undisturbed, screenState
<1>5. Ours'
    BY <1>0, <1>2 DEF Connected, Ours, Phase, Off, Undisturbed, screenState
<1>. QED  BY <1>2, <1>3, <1>4, <1>5 DEF AccountsInv

(* The connection is refused, and its token forgotten.                     *)
LEMMA Rejects ==
    ASSUME AccountsInv, Rejected PROVE AccountsInv'
<1>0. Typed /\ Phase /\ BusyMeansWaiting /\ Ours /\ Seeds
    BY DEF AccountsInv
<1>1. UNCHANGED serverState /\ url' \in Servers /\ mode' \in {"login", "register", None}
      /\ serverUrl' \in Servers \cup {None}
    BY <1>0 DEF Rejected, Typed, NotBusy
<1>2. Typed' /\ Seeds' /\ Undisturbed
    BY <1>0, <1>1, ScreenOnly
<1>3. Phase'
    BY <1>0, <1>2 DEF Rejected, Phase, Off, Undisturbed, NotBusy
<1>4. BusyMeansWaiting'
    BY <1>0, <1>2, AccountsAssumption DEF Rejected, BusyMeansWaiting, Phase, Off, Undisturbed, NotBusy
<1>5. Ours'
    BY <1>0, <1>2 DEF Rejected, Ours, Phase, Off, Undisturbed, NotBusy
<1>. QED  BY <1>2, <1>3, <1>4, <1>5 DEF AccountsInv

(* The connection is lost, and tried again.                                *)
LEMMA Reconnects ==
    ASSUME AccountsInv, Reconnecting PROVE AccountsInv'
<1>0. Typed /\ Phase /\ BusyMeansWaiting /\ Ours /\ Seeds
    BY DEF AccountsInv
<1>1. UNCHANGED serverState /\ url' \in Servers /\ mode' \in {"login", "register", None}
      /\ serverUrl' \in Servers \cup {None}
    BY <1>0 DEF Reconnecting, Typed, screenState
<1>2. Typed' /\ Seeds' /\ Undisturbed
    BY <1>0, <1>1, ScreenOnly
<1>3. Phase'
    BY <1>0, <1>2 DEF Reconnecting, Phase, Off, Undisturbed, screenState
<1>4. BusyMeansWaiting'
    BY <1>0, <1>2, AccountsAssumption DEF Reconnecting, BusyMeansWaiting, Phase, Off, Undisturbed, screenState
<1>5. Ours'
    BY <1>0, <1>2 DEF Reconnecting, Ours, Phase, Off, Undisturbed, screenState
<1>. QED  BY <1>2, <1>3, <1>4, <1>5 DEF AccountsInv

(* Nothing is under way when there is something to sign out of.            *)
LEMMA SignsOut ==
    ASSUME AccountsInv, SignOut PROVE AccountsInv'
<1>0. Typed /\ Phase /\ BusyMeansWaiting /\ Ours /\ Seeds
    BY DEF AccountsInv
<1>1. UNCHANGED serverState /\ url' \in Servers /\ mode' \in {"login", "register", None}
      /\ serverUrl' \in Servers \cup {None}
    BY <1>0 DEF SignOut, Typed, screenState
<1>2. Typed' /\ Seeds' /\ Undisturbed
    BY <1>0, <1>1, ScreenOnly
<1>3. Phase'
    BY <1>0, <1>2 DEF SignOut, Phase, Off, Undisturbed, screenState
<1>4. BusyMeansWaiting'
    BY <1>0, <1>2, AccountsAssumption DEF SignOut, BusyMeansWaiting, Phase, Off, Undisturbed, screenState
<1>5. Ours'
    BY <1>0, <1>2 DEF SignOut, Ours, Phase, Off, Undisturbed, screenState
<1>. QED  BY <1>2, <1>3, <1>4, <1>5 DEF AccountsInv

(* A request, when nothing else is under way.                              *)
LEMMA SignsIn ==
    ASSUME AccountsInv, NEW n \in Names, NEW p \in Passwords, SignIn(n, p) PROVE AccountsInv'
<1>0. Typed /\ Phase /\ BusyMeansWaiting /\ Ours /\ Seeds
    BY DEF AccountsInv
<1>1. /\ Arrive(mode, url, n, p, TRUE)
      /\ view = "connect" /\ ~busy /\ mode # None /\ busy' /\ ~strayed'
      /\ UNCHANGED <<url, mode, db, before, issued, failed, unseeded, token, serverUrl, view, probing,
                     answers, net>>
    BY DEF SignIn
<1>2. PICK r \in Slots : Arrived(r, url, n, p, TRUE)
    <2>1. mode \in {"register", "login"} /\ url \in Servers /\ TRUE \in BOOLEAN
        BY <1>0, <1>1 DEF Typed
    <2>. QED  BY <1>0, <1>1, <2>1, Arrives, Zenon
<1>3. /\ requests' \in [Slots -> Jobs] /\ requests'[r].stage = "asked"
      /\ requests[r].stage = "none" /\ requests'[r].server = url
      /\ requests'[r].name = n /\ requests'[r].password = p
      /\ \A q \in Slots : q # r => requests'[q] = requests[q]
      /\ Mine(r)'
    BY <1>2 DEF Arrived, Mine
<1>4. /\ net = "off" /\ token = None /\ probing = None /\ answers = {}
      /\ \A q \in Slots : ~Mine(q)
    BY <1>0, <1>1 DEF Phase
<1>5. \A q \in Slots : Mine(q)' <=> q = r
    BY <1>3, <1>4 DEF Mine
<1>6. Typed'
    BY <1>0, <1>1, <1>3 DEF Typed
<1>7. Phase'
    BY <1>0, <1>1, <1>4, <1>5 DEF Phase, Off
<1>8. BusyMeansWaiting'
    <2>1. Outstanding'
        BY <1>3 DEF Outstanding, Mine
    <2>. QED  BY <2>1 DEF BusyMeansWaiting
<1>9. Ours'
    BY <1>1, <1>3, <1>4, <1>5 DEF Ours
<1>10. Seeds'
    BY <1>0, <1>1, <1>3, ServerSeeds
<1>. QED  BY <1>6, <1>7, <1>8, <1>9, <1>10 DEF AccountsInv

(* Started again, it has the token and the address of the settings file,   *)
(* and nobody waits for what it had asked.                                 *)
LEMMA Starts ==
    ASSUME AccountsInv, Start PROVE AccountsInv'
<1>0. Typed /\ Phase /\ BusyMeansWaiting /\ Ours /\ Seeds
    BY DEF AccountsInv
<1>. DEFINE Left(r) == [requests[r] EXCEPT !.mine = FALSE]
<1>1. /\ view' = "connect" /\ mode' = None /\ probing' = None /\ answers' = {}
      /\ url' \in IF serverUrl = None THEN Servers ELSE {serverUrl}
      /\ busy' <=> token # None
      /\ net' = IF token # None THEN "trying" ELSE "off"
      /\ strayed' <=> strayed /\ token # None
      /\ UNCHANGED <<db, before, issued, failed, unseeded, token, serverUrl>>
    BY DEF Start
<1>2. requests' = [r \in Slots |-> Left(r)]
    BY <1>0 DEF Start, Typed
<1>3. \A r \in Slots : /\ Left(r) \in Jobs /\ ~Left(r).mine
                       /\ Left(r).stage = requests[r].stage /\ Left(r).server = requests[r].server
                       /\ Left(r).name = requests[r].name /\ Left(r).first = requests[r].first
                       /\ Left(r).password = requests[r].password
    BY <1>0 DEF Typed, Jobs
<1>. HIDE DEF Left
<1>4. requests' \in [Slots -> Jobs] /\ \A r \in Slots : requests'[r] = Left(r)
    BY <1>2, <1>3
<1>5. \A q \in Slots : ~Mine(q)'
    BY <1>3, <1>4 DEF Mine
<1>6. Typed'
    BY <1>0, <1>1, <1>3, <1>4 DEF Typed
<1>7. Phase'
    BY <1>1, <1>5 DEF Phase, Off
<1>8. BusyMeansWaiting'
    BY <1>1 DEF BusyMeansWaiting
<1>9. Ours'
    BY <1>0, <1>1, <1>5 DEF Ours, Kept
<1>10. Seeds'
    BY <1>0, <1>1, <1>3, <1>4, ServerSeeds
<1>. QED  BY <1>6, <1>7, <1>8, <1>9, <1>10 DEF AccountsInv

(* A stutter.                                                              *)
LEMMA AtRest ==
    ASSUME AccountsInv, UNCHANGED accountVars PROVE AccountsInv'
<1>0. Typed /\ Phase /\ BusyMeansWaiting /\ Ours /\ Seeds
    BY DEF AccountsInv
<1>1. UNCHANGED serverState /\ UNCHANGED screenState /\ UNCHANGED clientState
    BY DEF accountVars
<1>2. Typed' /\ Seeds' /\ Undisturbed
    <2>1. url' \in Servers /\ mode' \in {"login", "register", None} /\ serverUrl' \in Servers \cup {None}
        BY <1>0, <1>1 DEF Typed, screenState, clientState
    <2>. QED  BY <1>0, <1>1, <2>1, ScreenOnly
<1>3. Phase'
    BY <1>0, <1>1, <1>2 DEF Phase, Off, Undisturbed, screenState, clientState
<1>4. BusyMeansWaiting'
    BY <1>0, <1>1, <1>2 DEF BusyMeansWaiting, Undisturbed, screenState, clientState
<1>5. Ours'
    BY <1>0, <1>1, <1>2 DEF Ours, Undisturbed, screenState, clientState
<1>. QED  BY <1>2, <1>3, <1>4, <1>5 DEF AccountsInv

----------------------------------------------------------------------------
(* The invariant, and what follows from it.                                *)

(* AccountsInv holds at the start,                                         *)
LEMMA AccountsStart ==
    ASSUME AccountsInit PROVE AccountsInv
<1>1. NoRequest \in Jobs /\ NoRequest.stage = "none" /\ ~NoRequest.mine
    BY DEF NoRequest, Jobs
<1>2. \A r \in Slots : requests[r] = NoRequest
    BY DEF AccountsInit, Slots
<1>3. Empty \in Stores /\ Empty.users = {} /\ Empty.channels = <<>>
    <2>1. \A kind : At(<<>>, kind) = 0 .. (0 - 1)
        BY DEF At
    <2>2. \A kind : \E k \in Nat : At(<<>>, kind) = 0 .. (k - 1)
        BY <2>1, 0 \in Nat
    <2>3. <<>> \in Seq(Places) /\ DOMAIN <<>> = {}
        OBVIOUS
    <2>4. <<>> \in Lists
        BY <2>2, <2>3 DEF Lists
    <2>. QED  BY <2>4 DEF Empty, Stores
<1>4. Typed
    BY <1>1, <1>2, <1>3 DEF AccountsInit, Typed, Slots
<1>5. Phase /\ BusyMeansWaiting
    BY <1>1, <1>2 DEF AccountsInit, Phase, Off, Mine, BusyMeansWaiting
<1>6. Ours
    BY <1>1, <1>2 DEF AccountsInit, Ours, Mine
<1>7. Seeds
    BY <1>1, <1>2, <1>3 DEF AccountsInit, Seeds, Seeded, IsEmpty
<1>. QED  BY <1>4, <1>5, <1>6, <1>7 DEF AccountsInv

(* and after every step.                                                   *)
LEMMA AccountsKept ==
    ASSUME AccountsInv, [AccountsNext]_accountVars PROVE AccountsInv'
<1>1. CASE Another
    BY <1>1, Anothers
<1>2. CASE Signing
    <2>1. CASE Probe \/ Probed \/ SignOut
        BY <2>1, Probes, ProbedThen, SignsOut
    <2>2. CASE \E u \in Servers \ {url} : UrlChanged(u)
        BY <2>2, UrlChanges
    <2>3. CASE \E m \in {"login", "register"} : ChooseMode(m)
        BY <2>3, ChoosesMode
    <2>4. CASE \E n \in Names, p \in Passwords : SignIn(n, p)
        BY <2>4, SignsIn
    <2>5. CASE \E ans \in answers : Authenticated(ans) \/ NotAuthenticated(ans)
        BY <2>5, Authenticates, DoesNotAuthenticate
    <2>. QED  BY <1>2, <2>1, <2>2, <2>3, <2>4, <2>5 DEF Signing
<1>3. ASSUME NEW r \in Slots, Serving(r) PROVE AccountsInv'
    BY <1>3, Checks, CreatesUser, CreatesChannel, LooksUp, IssuesToken, FailsThen, TimesOut
    DEF Serving
<1>4. CASE \E s \in Servers : Crash(s)
    BY <1>4, Crashes
<1>5. CASE Connected \/ Rejected \/ Reconnecting \/ Start
    BY <1>5, Connects, Rejects, Reconnects, Starts
<1>6. CASE UNCHANGED accountVars
    BY <1>6, AtRest
<1>. QED  BY <1>1, <1>2, <1>3, <1>4, <1>5, <1>6 DEF AccountsNext, Slots

(* However many accounts are asked for at once, whatever addresses are     *)
(* typed and whatever fails, AccountsInv holds. (auth.rs, connect.rs,      *)
(* pump_network)                                                           *)
THEOREM AccountsInvariant == AccountsSpec => []AccountsInv
<1>1. AccountsInit => AccountsInv
    BY AccountsStart
<1>2. AccountsInv /\ [AccountsNext]_accountVars => AccountsInv'
    BY AccountsKept
<1>. QED  BY <1>1, <1>2, PTL DEF AccountsSpec

(* The token a client keeps is of the server it takes it to, and known     *)
(* there, unless another address was typed while the log-in was out or the *)
(* server failed. (pump_network's Authenticated)                           *)
THEOREM AccountsTokenOfItsServer == AccountsSpec => []TokenOfItsServer
<1>1. AccountsInv => TokenOfItsServer
    BY DEF AccountsInv, Ours, Kept, TokenOfItsServer
<1>. QED  BY <1>1, AccountsInvariant, PTL

(* Whoever has an account finds a text and a voice channel, unless that    *)
(* one could not be made, and no two channels alike, on a server that did  *)
(* not fail. (register)                                                    *)
THEOREM AccountsFirstSeeds == AccountsSpec => []FirstSeeds
<1>1. ASSUME AccountsInv, NEW s \in Servers \ failed
      PROVE  /\ ~IsEmpty(s) /\ (\A r \in DOMAIN requests : requests[r].server # s) =>
                   \A kind \in {"text", "voice"} : Given(s, kind)
             /\ \A m, n \in DOMAIN db[s].channels : m # n => db[s].channels[m] # db[s].channels[n]
    <2>1. Seeded(s) /\ DOMAIN requests = Slots /\ db[s].channels \in Lists
        BY <1>1 DEF AccountsInv, Seeds, Typed, Stores
    <2>2. ASSUME ~IsEmpty(s), \A r \in DOMAIN requests : requests[r].server # s
          PROVE  Given(s, "text") /\ Given(s, "voice")
        BY <2>1, <2>2 DEF Seeded, Makes
    <2>. QED  BY <2>1, <2>2 DEF Lists
<1>2. AccountsInv => FirstSeeds
    BY <1>1 DEF FirstSeeds, Given, Has
<1>. QED  BY <1>2, AccountsInvariant, PTL

(* The connect screen says it is busy only while there is something that   *)
(* will tell it the outcome. (Form::busy, pump_network)                    *)
THEOREM AccountsBusyMeansWaiting == AccountsSpec => []BusyMeansWaiting
<1>1. AccountsInv => BusyMeansWaiting
    BY DEF AccountsInv
<1>. QED  BY <1>1, AccountsInvariant, PTL

----------------------------------------------------------------------------
(* Settings.                                                               *)

Contents == [change : Nat, kind : {"fine", "wild", "text"}]
Texted == \E e \in edited : e.kind = "text"

\* A save writes what the client holds, and holds one thing at a time.
SettingsTyped ==
    /\ file = {} \/ \E c \in Contents : file = {c}
    /\ edited \subseteq Contents
    /\ memory = {} \/ \E c \in Contents : memory = {c}
    /\ saving \in {"nothing", "write", "fill", "rename"}
    /\ changed \in Nat /\ last_saved \in Nat /\ last_saved <= changed
    /\ unread \in BOOLEAN

SettingsInv ==
    /\ SettingsTyped
    /\ saving # "nothing" => Up
    /\ saving = "rename" => tempfile = memory
    /\ \A c \in file : c.change >= last_saved
    /\ \A c \in file \cup memory : c.change <= changed
    /\ file = {} => last_saved = 0 \/ Texted
    /\ Up => unread \/ \A c \in file : c.kind = "text" => c \in unmoved
    /\ SettingsKept

(* Every step keeps it: a client that runs has either put text aside when  *)
(* it started or could not read or move it, so a save replaces nothing else. *)
LEMMA SettingsStep ==
    ASSUME SettingsInv, [SettingsNext]_settingsVars PROVE SettingsInv'
<1> USE DEF SettingsInv, SettingsTyped, SettingsKept, Up, Texted
<1>1. ASSUME LoadFile PROVE SettingsInv'
  <2>0. /\ memory = {} /\ saving' = "nothing"
        /\ UNCHANGED <<tempfile, changed, last_saved, edited>>
    BY <1>1 DEF LoadFile
  <2>d. Defaults \in Contents /\ Defaults.change = 0 /\ Defaults.kind = "fine"
    BY DEF Defaults, Content, Contents
  <2>1. CASE /\ memory' = IF file = {} THEN {Defaults} ELSE {Sanitised(c) : c \in file}
             /\ \A c \in file : c.kind # "text"
             /\ UNCHANGED <<file, broken, faulty, unread, discarded, unmoved>>
    <3>1. CASE file = {}
      BY <2>0, <2>1, <2>d, <3>1
    <3>2. CASE file # {}
      <4>1. PICK c \in Contents : file = {c}
        BY <3>2
      <4>2. Sanitised(c) = [c EXCEPT !.kind = "fine"]
        BY DEF Sanitised
      <4>3. /\ Sanitised(c) \in Contents /\ Sanitised(c).kind = "fine"
            /\ Sanitised(c).change = c.change
        BY <4>2 DEF Contents
      <4>4. memory' = {Sanitised(c)}
        BY <2>1, <3>2, <4>1
      <4>5. c.kind # "text" /\ c.change >= last_saved /\ c.change \in Nat
        BY <2>1, <4>1 DEF Contents
      <4>6. c.change <= changed
        BY <4>1
      <4> HIDE DEF SettingsInv
      <4>7. SettingsInv
        OBVIOUS
      <4> QED
        BY <2>0, <2>1, <4>1, <4>3, <4>4, <4>5, <4>6, <4>7 DEF SettingsInv
    <3> QED
      BY <3>1, <3>2
  <2>2. CASE /\ file # {} /\ memory' = {Defaults} /\ unread' = TRUE
             /\ UNCHANGED <<file, broken, discarded, unmoved>>
    BY <2>0, <2>2, <2>d
  <2>3. CASE /\ \E c \in file : c.kind = "text"
             /\ memory' = {Defaults}
             /\ broken' = file /\ file' = {}
             /\ discarded' = discarded \cup broken
             /\ UNCHANGED <<unread, unmoved>>
    BY <2>0, <2>3, <2>d
  <2>4. CASE /\ \E c \in file : c.kind = "text"
             /\ memory' = {Defaults}
             /\ unmoved' = unmoved \cup file
             /\ UNCHANGED <<file, broken, discarded, unread>>
    BY <2>0, <2>4, <2>d
  <2> QED
    BY <1>1, <2>1, <2>2, <2>3, <2>4 DEF LoadFile
<1>2. ASSUME Change PROVE SettingsInv'
  <2>1. Content(changed + 1, "fine") \in Contents
        /\ Content(changed + 1, "fine").change = changed + 1
        /\ Content(changed + 1, "fine").kind = "fine"
    BY DEF Content, Contents
  <2>2. memory' = {Content(changed + 1, "fine")} /\ changed' = changed + 1
        /\ saving' = "write"
        /\ UNCHANGED <<file, tempfile, broken, last_saved, edited, unread, discarded, unmoved>>
    BY <1>2 DEF Change
  <2>3. SettingsTyped'
    BY <2>1, <2>2
  <2>4. \A c \in file : c.change \in Nat
    BY DEF Contents
  <2>5. SettingsKept'
    BY <2>1, <2>2
  <2> QED
    BY <1>2, <2>1, <2>2, <2>3, <2>4, <2>5 DEF Change
<1>3. ASSUME EmptyFile PROVE SettingsInv'
  BY <1>3 DEF EmptyFile, Aside
<1>4. ASSUME FillFile PROVE SettingsInv'
  BY <1>4 DEF FillFile, Aside
<1>5. ASSUME RenameFile PROVE SettingsInv'
  <2>1. PICK c \in Contents : memory = {c}
    BY <1>5 DEF RenameFile
  <2>2. {d.change : d \in memory} = {c.change}
    BY <2>1
  <2>3. last_saved' = c.change /\ c.change \in Nat /\ file' = {c} /\ memory' = {c}
    BY <1>5, <2>1, <2>2 DEF RenameFile, Contents
  <2>4. c.change <= changed /\ c.kind = "fine"
    BY <2>1
  <2> QED
    BY <1>5, <2>3, <2>4 DEF RenameFile
<1>6. ASSUME SaveFails PROVE SettingsInv'
  BY <1>6 DEF SaveFails
<1>7. ASSUME Quit PROVE SettingsInv'
  BY <1>7 DEF Quit
<1>8. ASSUME NEW kind \in {"wild", "text"}, Edit(kind) PROVE SettingsInv'
  <2>1. /\ Content(last_saved, kind) \in Contents
        /\ Content(last_saved, kind).change = last_saved
        /\ Content(last_saved, kind).kind = kind
    BY DEF Content, Contents
  <2> QED
    BY <1>8, <2>1 DEF Edit
<1>9. ASSUME UNCHANGED settingsVars PROVE SettingsInv'
  BY <1>9 DEF settingsVars
<1> QED
  BY <1>1, <1>2, <1>3, <1>4, <1>5, <1>6, <1>7, <1>8, <1>9 DEF SettingsNext

(* It holds when the client was never started.                             *)
LEMMA SettingsStart == SettingsInit => SettingsInv
<1> SUFFICES ASSUME SettingsInit PROVE SettingsInv
  OBVIOUS
<1>1. /\ file = {} /\ memory = {} /\ saving = "nothing" /\ changed = 0
      /\ last_saved = 0 /\ edited = {} /\ unread = FALSE
  BY DEF SettingsInit
<1>2. SettingsTyped
  <2>1. saving \in {"nothing", "write", "fill", "rename"} /\ edited \subseteq Contents
    BY <1>1
  <2>2. changed \in Nat /\ last_saved \in Nat /\ last_saved <= changed
    BY <1>1
  <2>3. unread \in BOOLEAN
    BY <1>1
  <2> QED
    BY <1>1, <2>1, <2>2, <2>3 DEF SettingsTyped
<1>3. SettingsKept
  BY <1>1 DEF SettingsKept
<1> QED
  BY <1>1, <1>2, <1>3 DEF SettingsInv, Up

----------------------------------------------------------------------------
(* Pictures.                                                               *)

Steps == {"idle", "look", "download", "store", "fill", "rename"}
Numbered == 1 .. files

\* i has the temporary file open.
Storing(i) == fetching[i] \in {"fill", "rename"}

ImagesTyped ==
    /\ sound \in BOOLEAN /\ overlapped \in BOOLEAN /\ files \in Nat
    /\ worker \in BOOLEAN /\ misread \in BOOLEAN
    /\ kept \subseteq Numbered /\ cut \subseteq Numbered
    /\ temp = {} \/ \E n \in Numbered : temp = {n}
    /\ fetching \in [Attached -> Steps]
    /\ opened \in [Attached -> SUBSET Numbered]
    /\ writing \subseteq Numbered \X Attached
    /\ requested \subseteq Attached /\ unfetched \subseteq Attached
    /\ events \in Seq({"ready", "gone"} \X Attached)
    /\ decode_requests \in Seq(BOOLEAN) /\ results \in Seq(BOOLEAN)

\* Unless two tasks stored the picture at one time.
OneStore ==
    /\ \A i, j \in Attached : Storing(i) /\ Storing(j) => i = j
    /\ \A i \in Attached : Storing(i) => temp # {} /\ temp \cap cut = {}
    /\ \A w \in writing : fetching[w[2]] = "fill" /\ w[1] \in temp
    /\ kept \cap temp = {} /\ kept \cap cut = {}

\* What was read from the store, and how it could be decoded.
Decoded ==
    /\ \A n \in DOMAIN decode_requests : decode_requests[n] \/ overlapped
    /\ \A n \in DOMAIN results : results[n] \/ overlapped \/ ~sound

\* What was asked for is on its way.
Awaited ==
    \A i \in requested \ unfetched :
        fetching[i] # "idle" \/ \E n \in DOMAIN events : events[n][2] = i

\* One task to each attachment, until the interface has heard of it.
OneTask ==
    /\ \A i \in Attached : fetching[i] # "idle" =>
           i \in requested /\ \A n \in DOMAIN events : events[n][2] # i
    /\ \A n \in DOMAIN events : events[n][2] \in requested
    /\ \A m, n \in DOMAIN events : events[m][2] = events[n][2] => m = n

ImagesInv ==
    /\ ImagesTyped
    /\ OneTask
    /\ overlapped \/ OneStore
    /\ Decoded /\ Awaited
    /\ slot = "loading" /\ worker => decode_requests # <<>> \/ results # <<>>
    /\ slot = "undecodable" => overlapped \/ ~sound \/ misread

(* Adding an event, and taking the first one away.                         *)
LEMMA Told ==
    ASSUME NEW kind \in {"ready", "gone"}, NEW i \in Attached,
           events \in Seq({"ready", "gone"} \X Attached), Tell(kind, i)
    PROVE  /\ events' \in Seq({"ready", "gone"} \X Attached)
           /\ \A n \in DOMAIN events : n \in DOMAIN events' /\ events'[n] = events[n]
           /\ \E l \in DOMAIN events' :
                 /\ events'[l][2] = i
                 /\ \A n \in DOMAIN events' : n # l => n \in DOMAIN events
<1>1. /\ events' = Append(events, <<kind, i>>) /\ <<kind, i>>[2] = i
      /\ <<kind, i>> \in {"ready", "gone"} \X Attached
  BY DEF Tell
<1> DEFINE e == <<kind, i>>
<1> HIDE DEF e
<1>2. /\ events' \in Seq({"ready", "gone"} \X Attached)
      /\ DOMAIN events' = 1 .. Len(events) + 1 /\ DOMAIN events = 1 .. Len(events)
      /\ Len(events) \in Nat
      /\ events'[Len(events) + 1] = e
      /\ \A n \in 1 .. Len(events) : events'[n] = events[n]
  BY <1>1 DEF e
<1>3. events'[Len(events) + 1][2] = i
  BY <1>1, <1>2 DEF e
<1>4. \A n \in DOMAIN events' : n # Len(events) + 1 => n \in DOMAIN events
  BY <1>2
<1>5. Len(events) + 1 \in DOMAIN events'
  BY <1>2
<1>6. \A n \in DOMAIN events : n \in DOMAIN events' /\ events'[n] = events[n]
  BY <1>2
<1> QED
  BY <1>2, <1>3, <1>4, <1>5, <1>6

(* The rest of a sequence.                                                 *)
LEMMA Rest ==
    ASSUME NEW S, NEW s \in Seq(S), s # <<>>
    PROVE  /\ Tail(s) \in Seq(S) /\ Head(s) \in S /\ Head(s) = s[1]
           /\ \A n \in DOMAIN Tail(s) : n + 1 \in DOMAIN s /\ Tail(s)[n] = s[n + 1]
           /\ \A n \in DOMAIN s : n # 1 => n - 1 \in DOMAIN Tail(s)
                                           /\ Tail(s)[n - 1] = s[n]
<1> QED
  OBVIOUS

(* A sequence that became longer.                                          *)
LEMMA Added ==
    ASSUME NEW S, NEW s \in Seq(S), NEW x \in S, NEW t, t = Append(s, x)
    PROVE  /\ t \in Seq(S) /\ t # <<>>
           /\ \A n \in DOMAIN t : t[n] = x \/ (n \in DOMAIN s /\ t[n] = s[n])
<1>1. /\ t \in Seq(S) /\ Len(t) = Len(s) + 1 /\ Len(s) \in Nat
      /\ DOMAIN t = 1 .. Len(t) /\ DOMAIN s = 1 .. Len(s)
      /\ t[Len(s) + 1] = x
      /\ \A n \in 1 .. Len(s) : t[n] = s[n]
  OBVIOUS
<1>2. t # <<>>
  BY <1>1
<1>3. \A n \in DOMAIN t : n = Len(s) + 1 \/ n \in DOMAIN s
  BY <1>1
<1> QED
  BY <1>1, <1>2, <1>3

(* What is asked for stays on its way when a task takes a step, and goes to *)
(* rest only with an event or a failure.                                   *)
LEMMA TaskStep ==
    ASSUME ImagesTyped, OneTask, Awaited,
           NEW i \in Attached, fetching[i] # "idle",
           NEW step \in Steps, fetching' = [fetching EXCEPT ![i] = step],
           \/ \E kind \in {"ready", "gone"} :
                 Tell(kind, i) /\ unfetched' = unfetched /\ step = "idle"
           \/ events' = events /\ unfetched' = unfetched \cup {i}
           \/ events' = events /\ unfetched' = unfetched /\ step # "idle",
           requested' = requested
    PROVE  /\ events' \in Seq({"ready", "gone"} \X Attached)
           /\ fetching' \in [Attached -> Steps]
           /\ unfetched' \subseteq Attached
           /\ OneTask' /\ Awaited'
<1>1. /\ fetching' \in [Attached -> Steps] /\ fetching'[i] = step
      /\ \A j \in Attached : j # i => fetching'[j] = fetching[j]
  BY DEF ImagesTyped
<1>2. unfetched' \subseteq Attached /\ unfetched \subseteq unfetched'
  BY DEF ImagesTyped
<1>3. i \in requested /\ \A n \in DOMAIN events : events[n][2] # i
  BY DEF OneTask
<1>4. CASE events' = events
  <2>1. OneTask'
    BY <1>1, <1>3, <1>4 DEF OneTask
  <2>2. i \in unfetched' \/ step # "idle"
    <3>1. ASSUME NEW kind \in {"ready", "gone"}, Tell(kind, i) PROVE FALSE
      <4>1. PICK l \in DOMAIN events' : events'[l][2] = i
        BY <3>1, Told DEF ImagesTyped
      <4> QED
        BY <1>3, <1>4, <4>1
    <3> QED
      BY <3>1
  <2>3. Awaited'
    BY <1>1, <1>2, <1>4, <2>2 DEF Awaited, ImagesTyped
  <2> QED
    BY <1>1, <1>2, <1>4, <2>1, <2>3 DEF ImagesTyped
<1>5. CASE \E kind \in {"ready", "gone"} : Tell(kind, i) /\ step = "idle"
  <2>1. PICK kind \in {"ready", "gone"} : Tell(kind, i) /\ step = "idle"
    BY <1>5
  <2>2. /\ events' \in Seq({"ready", "gone"} \X Attached)
        /\ \A n \in DOMAIN events : n \in DOMAIN events' /\ events'[n] = events[n]
        /\ \E l \in DOMAIN events' :
              /\ events'[l][2] = i
              /\ \A n \in DOMAIN events' : n # l => n \in DOMAIN events
    BY <2>1, Told DEF ImagesTyped
  <2>3. PICK l \in DOMAIN events' :
              /\ events'[l][2] = i
              /\ \A n \in DOMAIN events' : n # l => n \in DOMAIN events
    BY <2>2
  <2>4. l \notin DOMAIN events
    BY <1>3, <2>2, <2>3
  <2>5. \A n \in DOMAIN events' : n # l => events'[n] = events[n] /\ n \in DOMAIN events
    BY <2>2, <2>3
  <2>6. OneTask'
    <3>1. \A j \in Attached : fetching'[j] # "idle" =>
              j \in requested' /\ \A n \in DOMAIN events' : events'[n][2] # j
      BY <1>1, <2>1, <2>3, <2>5 DEF OneTask
    <3>2. \A n \in DOMAIN events' : events'[n][2] \in requested'
      BY <1>3, <2>3, <2>5 DEF OneTask
    <3>3. \A m, n \in DOMAIN events' : events'[m][2] = events'[n][2] => m = n
      BY <1>3, <2>3, <2>5 DEF OneTask
    <3> QED
      BY <3>1, <3>2, <3>3 DEF OneTask
  <2>7. Awaited'
    <3> SUFFICES ASSUME NEW j \in requested' \ unfetched', fetching'[j] = "idle"
                 PROVE  \E n \in DOMAIN events' : events'[n][2] = j
      BY DEF Awaited
    <3>1. j \in Attached /\ j \in requested \ unfetched
      BY <1>2 DEF ImagesTyped
    <3>2. CASE j = i
      BY <2>3, <3>2
    <3>3. CASE j # i
      BY <1>1, <2>2, <3>1, <3>3 DEF Awaited
    <3> QED
      BY <3>2, <3>3
  <2> QED
    BY <1>1, <1>2, <2>2, <2>6, <2>7
<1> QED
  BY <1>4, <1>5

(* What is drawn asks for pictures, decodes them and shows them.           *)
LEMMA ScreenStep ==
    ASSUME ImagesInv, \/ \E i \in Attached : Want(i)
                      \/ Get \/ WorkOn \/ Collect \/ Hear
    PROVE  ImagesInv'
<1> USE DEF ImagesInv
<1>1. ASSUME NEW i \in Attached, Want(i) PROVE ImagesInv'
  <2>1. /\ requested' = requested \cup {i}
        /\ \/ fetching' = [fetching EXCEPT ![i] = "look"] /\ unfetched' = unfetched
           \/ fetching' = fetching /\ unfetched' = unfetched \cup {i}
        /\ UNCHANGED <<sound, disk, events, slot, worker, decode_requests, results, misread>>
    BY <1>1 DEF Want, Does
  <2>2. ImagesTyped'
    BY <2>1 DEF ImagesTyped, Steps, disk, Numbered
  <2>3. /\ fetching[i] = "idle" /\ fetching'[i] \in {"idle", "look"}
        /\ \A j \in Attached : j # i => fetching'[j] = fetching[j]
        /\ \A n \in DOMAIN events : events[n][2] # i
    BY <1>1, <2>1 DEF ImagesTyped, OneTask, Want
  <2>4. overlapped' \/ OneStore'
    <3>1. \A j \in Attached : Storing(j)' <=> Storing(j)
      BY <2>3 DEF Storing
    <3>2. \A w \in writing : w[2] \in Attached
      BY DEF ImagesTyped
    <3>3. \A w \in writing : fetching[w[2]] = "fill" => fetching'[w[2]] = "fill"
      BY <2>3, <3>2
    <3> QED
      BY <2>1, <3>1, <3>3 DEF OneStore, disk
  <2>5. Awaited'
    BY <2>1, <2>3 DEF Awaited, ImagesTyped
  <2>6. OneTask'
    BY <2>1, <2>3 DEF OneTask
  <2> QED
    BY <2>1, <2>2, <2>4, <2>5, <2>6 DEF Decoded, disk
<1>2. ASSUME UNCHANGED <<sound, disk, fetching>>
      PROVE  /\ overlapped' = overlapped /\ sound' = sound /\ OneStore' = OneStore
             /\ UNCHANGED <<events, requested>> => OneTask'
  BY <1>2 DEF OneStore, OneTask, Storing, disk
<1>3. ASSUME Get PROVE ImagesInv'
  <2>1. /\ UNCHANGED <<sound, disk, tasks, requested, worker, results>>
        /\ \/ /\ slot' = "loading" /\ misread' = misread /\ worker
              /\ decode_requests' = Append(decode_requests, \A n \in kept : Whole(n))
           \/ /\ slot' = "loading" /\ misread' = misread /\ ~worker
              /\ decode_requests' = decode_requests
           \/ /\ slot' = "undecodable" /\ misread' = TRUE
              /\ decode_requests' = decode_requests
    BY <1>3 DEF Get
  <2>2. overlapped \/ \A n \in kept : Whole(n)
    BY DEF OneStore, Whole
  <2>3. (\A n \in kept : Whole(n)) \in BOOLEAN
    OBVIOUS
  <2>4. /\ decode_requests' \in Seq(BOOLEAN)
        /\ slot' = "loading" /\ worker => decode_requests' # <<>>
        /\ \A n \in DOMAIN decode_requests' : decode_requests'[n] \/ overlapped
    <3>1. CASE decode_requests' = decode_requests /\ (slot' = "undecodable" \/ ~worker)
      BY <3>1 DEF ImagesTyped, Decoded
    <3>2. CASE decode_requests' = Append(decode_requests, \A n \in kept : Whole(n))
      <4> DEFINE read == \A n \in kept : Whole(n)
      <4>1. read \in BOOLEAN /\ (overlapped \/ read)
        BY <2>2, <2>3
      <4> HIDE DEF read
      <4>2. decode_requests' = Append(decode_requests, read)
        BY <3>2 DEF read
      <4> QED
        BY <4>1, <4>2, Added DEF ImagesTyped, Decoded
    <3> QED
      BY <2>1, <3>1, <3>2
  <2>5. ImagesTyped'
    BY <2>1, <2>4 DEF ImagesTyped, disk, tasks, Numbered
  <2>6. Awaited' /\ Decoded'
    BY <2>1, <2>4 DEF Awaited, Decoded, disk, tasks
  <2>7. slot' = "undecodable" => misread'
    BY <2>1
  <2> QED
    BY <1>2, <2>1, <2>4, <2>5, <2>6, <2>7 DEF tasks
<1>4. ASSUME WorkOn PROVE ImagesInv'
  <2>1. /\ UNCHANGED <<sound, disk, tasks, requested, slot, worker, misread>>
        /\ decode_requests # <<>>
        /\ results' = Append(results, Head(decode_requests) /\ sound)
        /\ decode_requests' = Tail(decode_requests)
    BY <1>4 DEF WorkOn
  <2>2. /\ decode_requests' \in Seq(BOOLEAN) /\ Head(decode_requests) \in BOOLEAN
        /\ (Head(decode_requests) \/ overlapped)
        /\ \A n \in DOMAIN decode_requests' : decode_requests'[n] \/ overlapped
    <3> DEFINE t == Tail(decode_requests)
    <3>1. decode_requests \in Seq(BOOLEAN)
      BY DEF ImagesTyped
    <3>0. decode_requests # <<>>
      BY <2>1
    <3>2. /\ t \in Seq(BOOLEAN) /\ Head(decode_requests) \in BOOLEAN
          /\ Head(decode_requests) = decode_requests[1]
          /\ \A n \in DOMAIN t : n + 1 \in DOMAIN decode_requests
                                   /\ t[n] = decode_requests[n + 1]
      BY <3>0, <3>1, Rest
    <3>3. 1 \in DOMAIN decode_requests
      BY <3>0, <3>1
    <3>4. decode_requests' = t
      BY <2>1
    <3> HIDE DEF t
    <3>5. decode_requests[1] \/ overlapped
      BY <3>3 DEF Decoded
    <3>6. \A n \in DOMAIN t : decode_requests[n + 1] \/ overlapped
      BY <3>2 DEF Decoded
    <3>7. \A n \in DOMAIN t : t[n] \/ overlapped
      BY <3>2, <3>6
    <3> QED
      BY <3>2, <3>4, <3>5, <3>7
  <2>3. /\ results' \in Seq(BOOLEAN) /\ results' # <<>>
        /\ \A n \in DOMAIN results' : results'[n] \/ overlapped \/ ~sound
    <3> DEFINE read == Head(decode_requests) /\ sound
    <3>1. read \in BOOLEAN /\ (read \/ overlapped \/ ~sound)
      BY <2>2 DEF ImagesTyped
    <3> HIDE DEF read
    <3>2. results' = Append(results, read)
      BY <2>1 DEF read
    <3> QED
      BY <3>1, <3>2, Added DEF ImagesTyped, Decoded
  <2>4. ImagesTyped'
    BY <2>1, <2>2, <2>3 DEF ImagesTyped, disk, tasks, Numbered
  <2>5. Awaited' /\ Decoded'
    BY <2>1, <2>2, <2>3 DEF Awaited, Decoded, disk, tasks
  <2> QED
    BY <1>2, <2>1, <2>3, <2>4, <2>5 DEF tasks
<1>5. ASSUME Collect PROVE ImagesInv'
  <2>1. /\ UNCHANGED <<sound, disk, tasks, requested, worker, decode_requests>>
        /\ results # <<>> /\ results' = <<>> /\ misread' = FALSE
        /\ slot' = IF results[Len(results)] THEN "ready" ELSE "undecodable"
    BY <1>5 DEF Collect
  <2>2. Len(results) \in DOMAIN results /\ results' \in Seq(BOOLEAN)
    BY <2>1 DEF ImagesTyped
  <2>3. slot' # "loading" /\ (slot' = "undecodable" => overlapped \/ ~sound)
    BY <2>1, <2>2 DEF Decoded
  <2>4. ImagesTyped'
    BY <2>1, <2>2 DEF ImagesTyped, disk, tasks, Numbered
  <2>5. Awaited' /\ Decoded'
    BY <2>1, <2>2 DEF Awaited, Decoded, disk, tasks
  <2> QED
    BY <1>2, <2>1, <2>3, <2>4, <2>5 DEF tasks
<1>6. ASSUME Hear PROVE ImagesInv'
  <2>1. /\ UNCHANGED <<sound, disk, fetching, unfetched, worker, decode_requests, results>>
        /\ events # <<>> /\ events' = Tail(events)
        /\ requested' = requested \ {Head(events)[2]}
        /\ \/ slot' = slot /\ misread' = misread
           \/ slot' = "none" /\ misread' = FALSE
    BY <1>6 DEF Hear, ForgetSlot
  <2>2. /\ events' \in Seq({"ready", "gone"} \X Attached)
        /\ \A n \in DOMAIN events : n # 1 => /\ n - 1 \in DOMAIN events'
                                             /\ events'[n - 1] = events[n]
        /\ Head(events) = events[1]
    BY <2>1, Rest DEF ImagesTyped
  <2>3. ImagesTyped'
    BY <2>1, <2>2 DEF ImagesTyped, disk, Numbered
  <2>4. Awaited'
    <3> SUFFICES ASSUME NEW j \in requested' \ unfetched', fetching'[j] = "idle"
                 PROVE  \E n \in DOMAIN events' : events'[n][2] = j
      BY DEF Awaited
    <3>1. PICK n \in DOMAIN events : events[n][2] = j
      BY <2>1 DEF Awaited
    <3>2. n # 1
      BY <2>1, <2>2, <3>1
    <3> QED
      BY <2>2, <3>1, <3>2
  <2>5. Decoded'
    BY <2>1 DEF Decoded, disk
  <2>6. OneTask'
    <3> DEFINE t == Tail(events)
    <3>1. events \in Seq({"ready", "gone"} \X Attached)
      BY DEF ImagesTyped
    <3>2. /\ Head(events) = events[1] /\ 1 \in DOMAIN events
          /\ \A n \in DOMAIN t : n + 1 \in DOMAIN events /\ t[n] = events[n + 1]
          /\ \A n \in DOMAIN t : n \in Nat /\ n + 1 # 1
      BY <2>1, <3>1, Rest
    <3>3. events' = t
      BY <2>1
    <3> HIDE DEF t
    <3>4. \A n \in DOMAIN t : t[n][2] # events[1][2]
      BY <3>2 DEF OneTask
    <3>5. \A n \in DOMAIN t : t[n][2] \in requested
      BY <3>2 DEF OneTask
    <3>6. requested' = requested \ {events[1][2]}
      BY <2>1, <3>2
    <3>7. \A j \in Attached : fetching'[j] # "idle" =>
             j \in requested' /\ \A n \in DOMAIN events' : events'[n][2] # j
      BY <2>1, <3>2, <3>3, <3>6 DEF OneTask
    <3>8. \A m, n \in DOMAIN t : t[m][2] = t[n][2] => m = n
      BY <3>2 DEF OneTask
    <3> QED
      BY <3>3, <3>4, <3>5, <3>6, <3>7, <3>8 DEF OneTask
  <2> QED
    BY <1>2, <2>1, <2>3, <2>4, <2>5, <2>6
<1> QED
  BY <1>1, <1>3, <1>4, <1>5, <1>6

(* The task that fetches a picture, up to its bytes.                       *)
LEMMA FetchStep ==
    ASSUME ImagesInv, NEW i \in Attached, Look(i) \/ Download(i)
    PROVE  ImagesInv'
<1> USE DEF ImagesInv
<1>1. /\ UNCHANGED <<sound, disk, screen>>
      /\ fetching[i] \in {"look", "download"}
      /\ \E step \in {"idle", "download", "store"} :
            /\ fetching' = [fetching EXCEPT ![i] = step]
            /\ \/ \E kind \in {"ready", "gone"} :
                     Tell(kind, i) /\ unfetched' = unfetched /\ step = "idle"
               \/ events' = events /\ unfetched' = unfetched \cup {i}
               \/ events' = events /\ unfetched' = unfetched /\ step # "idle"
  BY DEF Look, Download, DownloadAnswers, Does
<1>2. PICK step \in {"idle", "download", "store"} :
            /\ fetching' = [fetching EXCEPT ![i] = step]
            /\ \/ \E kind \in {"ready", "gone"} :
                     Tell(kind, i) /\ unfetched' = unfetched /\ step = "idle"
               \/ events' = events /\ unfetched' = unfetched \cup {i}
               \/ events' = events /\ unfetched' = unfetched /\ step # "idle"
  BY <1>1
<1>3. /\ events' \in Seq({"ready", "gone"} \X Attached)
      /\ fetching' \in [Attached -> Steps]
      /\ unfetched' \subseteq Attached
      /\ OneTask' /\ Awaited'
  <2>1. step \in Steps /\ fetching[i] # "idle" /\ requested' = requested
    BY <1>1 DEF Steps, screen
  <2> QED
    BY <1>2, <2>1, TaskStep
<1>5. /\ fetching'[i] = step
      /\ \A j \in Attached : j # i => fetching'[j] = fetching[j]
  BY <1>2 DEF ImagesTyped
<1>6. ImagesTyped'
  BY <1>1, <1>3 DEF ImagesTyped, disk, screen, Numbered
<1>7. overlapped' \/ OneStore'
  <2>1. \A j \in Attached : Storing(j)' <=> Storing(j)
    BY <1>1, <1>2, <1>5 DEF Storing
  <2>2. \A w \in writing : w[2] \in Attached
    BY DEF ImagesTyped
  <2>3. \A w \in writing : fetching[w[2]] = "fill" => fetching'[w[2]] = "fill"
    BY <1>1, <1>5, <2>2
  <2> QED
    BY <1>1, <2>1, <2>3 DEF OneStore, disk
<1>9. Decoded'
  BY <1>1 DEF Decoded, disk, screen
<1> QED
  BY <1>1, <1>3, <1>6, <1>7, <1>9 DEF disk, screen

(* The task stores its bytes: the file is emptied,                         *)
LEMMA WriteStep ==
    ASSUME ImagesInv, NEW i \in Attached, WriteFile(i)
    PROVE  ImagesInv'
<1> USE DEF ImagesInv
<1>1. /\ UNCHANGED <<sound, kept, screen, events, unfetched>>
      /\ fetching[i] = "store" /\ fetching' = [fetching EXCEPT ![i] = "fill"]
      /\ overlapped' = (overlapped \/ \E j \in Attached : fetching[j] \in {"fill", "rename"})
      /\ opened' = [opened EXCEPT ![i] = temp']
      /\ writing' = {w \in writing : w[1] \notin opened'[i]} \cup (opened'[i] \X {i})
      /\ cut' = cut \ opened'[i]
      /\ \/ temp = {} /\ temp' = {files + 1} /\ files' = files + 1
         \/ temp # {} /\ temp' = temp /\ files' = files
  BY DEF WriteFile, IntoTemp, OpenFile, Does, ImagesTyped
<1>2. opened'[i] = temp'
  BY <1>1 DEF ImagesTyped
<1>3. /\ events' \in Seq({"ready", "gone"} \X Attached)
      /\ fetching' \in [Attached -> Steps]
      /\ unfetched' \subseteq Attached
      /\ OneTask' /\ Awaited'
  <2>1. "fill" \in Steps /\ fetching[i] # "idle" /\ requested' = requested
    BY <1>1 DEF Steps, screen
  <2> QED
    BY <1>1, <2>1, TaskStep
<1>4. files' \in Nat /\ Numbered \subseteq Numbered'
  BY <1>1 DEF ImagesTyped, Numbered
<1>5. PICK n \in Numbered' : temp' = {n} /\ (n \notin kept \/ temp = {n})
  <2>1. CASE temp = {}
    <3>1. files + 1 \in Numbered' /\ files + 1 \notin Numbered
      BY <1>1, <2>1 DEF Numbered, ImagesTyped
    <3> QED
      BY <1>1, <2>1, <3>1 DEF ImagesTyped
  <2>2. CASE temp # {}
    BY <1>1, <1>4, <2>2 DEF ImagesTyped
  <2> QED
    BY <2>1, <2>2
<1>6. ImagesTyped'
  <2>1. kept' \subseteq Numbered' /\ cut' \subseteq Numbered'
    BY <1>1, <1>4 DEF ImagesTyped
  <2>2. opened' \in [Attached -> SUBSET Numbered']
    <3>1. opened \in [Attached -> SUBSET Numbered']
      BY <1>4 DEF ImagesTyped
    <3> QED
      BY <1>1, <1>5, <3>1
  <2>3. writing' \subseteq Numbered' \X Attached
    <3>1. writing \subseteq Numbered' \X Attached
      BY <1>4 DEF ImagesTyped
    <3>2. temp' \X {i} \subseteq Numbered' \X Attached
      BY <1>5
    <3> QED
      BY <1>1, <1>2, <3>1, <3>2
  <2>4. overlapped' \in BOOLEAN
    BY <1>1
  <2> QED
    BY <1>1, <1>3, <1>4, <1>5, <2>1, <2>2, <2>3, <2>4 DEF ImagesTyped, screen
<1>7. ASSUME ~overlapped' PROVE OneStore'
  <2>1. ~overlapped /\ \A j \in Attached : ~Storing(j)
    BY <1>1, <1>7 DEF Storing
  <2>2. writing = {}
    <3>1. \A w \in writing : w[2] \in Attached /\ fetching[w[2]] = "fill"
      BY <2>1 DEF OneStore, ImagesTyped
    <3> QED
      BY <2>1, <3>1 DEF Storing
  <2>3. /\ fetching'[i] = "fill"
        /\ \A j \in Attached : Storing(j)' => j = i
    BY <1>1, <2>1 DEF Storing, ImagesTyped
  <2>4. \A w \in writing' : w[2] = i /\ w[1] \in temp'
    BY <1>1, <1>2, <2>2
  <2>5. temp' # {} /\ temp' \cap cut' = {} /\ kept' \cap temp' = {} /\ kept' \cap cut' = {}
    BY <1>1, <1>2, <1>5, <2>1 DEF OneStore
  <2> QED
    BY <2>3, <2>4, <2>5 DEF OneStore
<1>8. Decoded' /\ (slot' = "undecodable" => overlapped' \/ ~sound' \/ misread')
  BY <1>1 DEF Decoded, screen
<1> QED
  BY <1>1, <1>3, <1>6, <1>7, <1>8 DEF screen

(* filled,                                                                 *)
LEMMA FillStep ==
    ASSUME ImagesInv, NEW i \in Attached, Fill(i)
    PROVE  ImagesInv'
<1> USE DEF ImagesInv
<1>1. /\ UNCHANGED <<sound, files, kept, temp, opened, cut, overlapped, screen, events, unfetched>>
      /\ fetching[i] = "fill" /\ fetching' = [fetching EXCEPT ![i] = "rename"]
      /\ writing' = {w \in writing : w[2] # i}
  BY DEF Fill, Does
<1>2. /\ events' \in Seq({"ready", "gone"} \X Attached)
      /\ fetching' \in [Attached -> Steps]
      /\ unfetched' \subseteq Attached
      /\ OneTask' /\ Awaited'
  <2>1. "rename" \in Steps /\ fetching[i] # "idle" /\ requested' = requested
    BY <1>1 DEF Steps, screen
  <2> QED
    BY <1>1, <2>1, TaskStep
<1>3. ImagesTyped'
  BY <1>1, <1>2 DEF ImagesTyped, Numbered, screen
<1>4. ASSUME ~overlapped' PROVE OneStore'
  <2>1. /\ fetching'[i] = "rename"
        /\ \A j \in Attached : j # i => fetching'[j] = fetching[j]
    BY <1>1 DEF ImagesTyped
  <2>2. \A j \in Attached : Storing(j)' <=> Storing(j)
    BY <1>1, <2>1 DEF Storing
  <2>3. \A w \in writing' : w \in writing /\ w[2] \in Attached /\ w[2] # i
    BY <1>1 DEF ImagesTyped
  <2> QED
    BY <1>1, <1>4, <2>1, <2>2, <2>3 DEF OneStore
<1>5. Decoded'
  BY <1>1 DEF Decoded, screen
<1> QED
  BY <1>1, <1>2, <1>3, <1>4, <1>5 DEF screen

(* and renamed.                                                            *)
LEMMA RenameStep ==
    ASSUME ImagesInv, NEW i \in Attached, Rename(i)
    PROVE  ImagesInv'
<1> USE DEF ImagesInv
<1>1. /\ UNCHANGED <<sound, files, writing, cut, overlapped, screen>>
      /\ fetching[i] = "rename" /\ fetching' = [fetching EXCEPT ![i] = "idle"]
      /\ kept' \in {kept, temp} /\ (temp # {} => kept' = temp) /\ temp' = {}
      /\ opened' = [opened EXCEPT ![i] = {}]
      /\ \/ Tell("ready", i) /\ unfetched' = unfetched
         \/ events' = events /\ unfetched' = unfetched \cup {i}
  BY DEF Rename, Does
<1>2. /\ events' \in Seq({"ready", "gone"} \X Attached)
      /\ fetching' \in [Attached -> Steps]
      /\ unfetched' \subseteq Attached
      /\ OneTask' /\ Awaited'
  <2>1. "idle" \in Steps /\ fetching[i] # "idle" /\ requested' = requested
    BY <1>1 DEF Steps, screen
  <2> QED
    BY <1>1, <2>1, TaskStep
<1>3. ImagesTyped'
  BY <1>1, <1>2 DEF ImagesTyped, Numbered, screen
<1>4. ASSUME ~overlapped' PROVE OneStore'
  <2>1. /\ fetching'[i] = "idle"
        /\ \A j \in Attached : j # i => fetching'[j] = fetching[j]
    BY <1>1 DEF ImagesTyped
  <2>2. OneStore /\ Storing(i)
    BY <1>1, <1>4 DEF Storing
  <2>3. \A j \in Attached : ~Storing(j)'
    BY <2>1, <2>2 DEF OneStore, Storing
  <2>4. writing = {}
    <3>1. \A w \in writing : w[2] \in Attached /\ fetching[w[2]] = "fill"
      BY <2>2 DEF OneStore, ImagesTyped
    <3>2. \A w \in writing : w[2] = i
      BY <2>2, <3>1 DEF OneStore, Storing
    <3> QED
      BY <1>1, <3>1, <3>2
  <2>5. kept' = temp /\ temp \cap cut = {}
    BY <1>1, <2>2 DEF OneStore
  <2> QED
    BY <1>1, <2>3, <2>4, <2>5 DEF OneStore
<1>5. Decoded'
  BY <1>1 DEF Decoded, screen
<1> QED
  BY <1>1, <1>2, <1>3, <1>4, <1>5 DEF screen

(* A task that fails at any of these leaves what is in the store whole:    *)
(* only the temporary file was being written.                              *)
LEMMA StoreFailsStep ==
    ASSUME ImagesInv, NEW i \in Attached, StoreFails(i)
    PROVE  ImagesInv'
<1> USE DEF ImagesInv
<1>1. /\ UNCHANGED <<sound, files, kept, temp, overlapped, screen, events>>
      /\ fetching[i] # "idle" /\ fetching' = [fetching EXCEPT ![i] = "idle"]
      /\ cut' = cut \cup {w[1] : w \in {v \in writing : v[2] = i}}
      /\ writing' = {w \in writing : w[2] # i}
      /\ opened' = [opened EXCEPT ![i] = {}]
      /\ unfetched' = unfetched \cup {i}
  BY DEF StoreFails, Does
<1>2. /\ events' \in Seq({"ready", "gone"} \X Attached)
      /\ fetching' \in [Attached -> Steps]
      /\ unfetched' \subseteq Attached
      /\ OneTask' /\ Awaited'
  <2>1. "idle" \in Steps /\ requested' = requested
    BY <1>1 DEF Steps, screen
  <2> QED
    BY <1>1, <2>1, TaskStep
<1>3. ImagesTyped'
  <2>1. cut' \subseteq Numbered /\ writing' \subseteq Numbered \X Attached
    BY <1>1 DEF ImagesTyped
  <2>2. opened' \in [Attached -> SUBSET Numbered]
    BY <1>1 DEF ImagesTyped
  <2> QED
    BY <1>1, <1>2, <2>1, <2>2 DEF ImagesTyped, Numbered, screen
<1>4. ASSUME ~overlapped' PROVE OneStore'
  <2>1. /\ fetching'[i] = "idle"
        /\ \A j \in Attached : j # i => fetching'[j] = fetching[j]
    BY <1>1 DEF ImagesTyped
  <2>2. OneStore
    BY <1>1, <1>4
  <2>3. CASE writing' = writing /\ cut' = cut
    <3>1. \A j \in Attached : Storing(j)' => Storing(j)
      BY <2>1 DEF Storing
    <3>2. \A w \in writing : w[2] \in Attached /\ w[2] # i
      BY <1>1, <2>3 DEF ImagesTyped
    <3> QED
      BY <1>1, <2>1, <2>2, <2>3, <3>1, <3>2 DEF OneStore
  <2>4. CASE ~(writing' = writing /\ cut' = cut)
    <3>1. Storing(i)
      <4>1. \E w \in writing : w[2] = i
        BY <1>1, <2>4
      <4> QED
        BY <2>2, <4>1 DEF OneStore, Storing
    <3>2. \A j \in Attached : ~Storing(j)'
      BY <2>1, <2>2, <3>1 DEF OneStore, Storing
    <3>3. \A w \in writing : w[2] \in Attached /\ fetching[w[2]] = "fill" /\ w[1] \in temp
      BY <2>2 DEF OneStore, ImagesTyped
    <3>4. writing' = {}
      <4>1. \A w \in writing : w[2] = i
        BY <2>2, <3>1, <3>3 DEF OneStore, Storing
      <4> QED
        BY <1>1, <4>1
    <3>5. cut' \subseteq cut \cup temp
      BY <1>1, <3>3
    <3> QED
      BY <1>1, <2>2, <3>2, <3>4, <3>5 DEF OneStore
  <2> QED
    BY <2>3, <2>4
<1>5. Decoded'
  BY <1>1 DEF Decoded, screen
<1> QED
  BY <1>1, <1>2, <1>3, <1>4, <1>5 DEF screen

(* A kill leaves what is in the store whole: only the temporary file was   *)
(* being written.                                                          *)
LEMMA KillStep ==
    ASSUME ImagesInv, Kill
    PROVE  ImagesInv'
<1> USE DEF ImagesInv
<1>1. /\ UNCHANGED <<sound, files, temp, unfetched, overlapped>>
      /\ cut' = cut \cup {w[1] : w \in writing} /\ writing' = {}
      /\ kept' \in {kept, {}}
      /\ opened' = [i \in Attached |-> {}] /\ fetching' = [i \in Attached |-> "idle"]
      /\ events' = <<>> /\ decode_requests' = <<>> /\ results' = <<>>
      /\ requested' = {} /\ slot' = "none"
      /\ misread' = FALSE /\ worker' \in BOOLEAN
  BY DEF Kill, ForgetSlot
<1>2. ImagesTyped'
  <2>1. cut' \subseteq Numbered
    BY <1>1 DEF ImagesTyped
  <2>2. fetching' \in [Attached -> Steps] /\ opened' \in [Attached -> SUBSET Numbered]
    BY <1>1 DEF Steps
  <2>3. worker' \in BOOLEAN /\ misread' \in BOOLEAN
    BY <1>1
  <2> QED
    BY <1>1, <2>1, <2>2, <2>3 DEF ImagesTyped, Numbered
<1>3. ASSUME ~overlapped' PROVE OneStore'
  <2>1. \A i \in Attached : ~Storing(i)'
    BY <1>1 DEF Storing
  <2>2. \A w \in writing : w[1] \in temp
    BY <1>1, <1>3 DEF OneStore
  <2> QED
    BY <1>1, <1>3, <2>1, <2>2 DEF OneStore
<1>4. OneTask' /\ Awaited' /\ Decoded'
  BY <1>1 DEF OneTask, Awaited, Decoded
<1> QED
  BY <1>1, <1>2, <1>3, <1>4

(* It holds when nothing was fetched, every step keeps it,                 *)
LEMMA ImagesStart == ImagesInit => ImagesInv
<1> SUFFICES ASSUME ImagesInit PROVE ImagesInv
  OBVIOUS
<1>1. /\ sound \in BOOLEAN /\ files = 0 /\ kept = {} /\ temp = {} /\ writing = {}
      /\ cut = {} /\ overlapped = FALSE
      /\ opened = [i \in Attached |-> {}] /\ fetching = [i \in Attached |-> "idle"]
      /\ events = <<>> /\ requested = {} /\ slot = "none"
      /\ decode_requests = <<>> /\ results = <<>> /\ unfetched = {}
      /\ worker \in BOOLEAN /\ misread = FALSE
  BY DEF ImagesInit
<1>2. ImagesTyped
  <2>1. fetching \in [Attached -> Steps] /\ opened \in [Attached -> SUBSET Numbered]
    BY <1>1 DEF Steps
  <2>2. overlapped \in BOOLEAN /\ misread \in BOOLEAN
    BY <1>1
  <2> QED
    BY <1>1, <2>1, <2>2 DEF ImagesTyped, Numbered
<1>3. OneStore /\ OneTask /\ Awaited /\ Decoded
  BY <1>1 DEF OneStore, OneTask, Awaited, Decoded, Storing
<1> QED
  BY <1>1, <1>2, <1>3 DEF ImagesInv

LEMMA ImagesStep ==
    ASSUME ImagesInv, [ImagesNext]_imageVars PROVE ImagesInv'
<1>1. ASSUME UNCHANGED imageVars PROVE ImagesInv'
  <2>1. UNCHANGED <<sound, disk, screen, events, fetching, unfetched>>
    BY <1>1 DEF imageVars, tasks
  <2>2. ImagesTyped'
    BY <2>1 DEF ImagesInv, ImagesTyped, Numbered, disk, screen
  <2>3. /\ OneStore' = OneStore /\ OneTask' = OneTask
        /\ Awaited' = Awaited /\ Decoded' = Decoded
    BY <2>1 DEF OneStore, OneTask, Awaited, Decoded, Storing, disk, screen
  <2> QED
    BY <2>1, <2>2, <2>3 DEF ImagesInv, disk, screen
<1> QED
  BY <1>1, ScreenStep, FetchStep, WriteStep, FillStep, RenameStep,
     StoreFailsStep, KillStep
  DEF ImagesNext

(* and it gives what is promised of pictures.                              *)
LEMMA ImagesShown == ImagesInv => PicturesAppear
<1> QED
  BY DEF ImagesInv, OneStore, Awaited, PicturesAppear

----------------------------------------------------------------------------
(* Together.                                                               *)

(* Pictures and settings are kept whatever else a client does.             *)
LEMMA StoredStart == MCInit => ImagesInv /\ SettingsInv
<1> QED
  BY ImagesStart, SettingsStart DEF MCInit

LEMMA StoredStep ==
    ASSUME ImagesInv, SettingsInv, [MCNext]_allVars PROVE ImagesInv' /\ SettingsInv'
<1>1. [ImagesNext]_imageVars /\ [SettingsNext]_settingsVars
  BY DEF MCNext, allVars
<1> QED
  BY <1>1, ImagesStep, SettingsStep

(* A picture never loads forever in a client that could start its worker,  *)
(* what is in the store is whole after a kill and a failed write too, and  *)
(* settings that were saved are the ones gone by again; what a failed read *)
(* or a failed rename costs is named. (ui/images.rs, cache.rs, settings.rs)*)
THEOREM ServicesStored == MCSpec => []Stored
<1>1. MCInit => ImagesInv /\ SettingsInv
  BY StoredStart
<1>2. ImagesInv /\ SettingsInv /\ [MCNext]_allVars => (ImagesInv /\ SettingsInv)'
  BY StoredStep
<1>3. ImagesInv /\ SettingsInv => Stored
  BY ImagesShown DEF SettingsInv, Stored
<1> QED
  BY <1>1, <1>2, <1>3, PTL DEF MCSpec

----------------------------------------------------------------------------
(* Transfers.                                                              *)

JobStages == {"none", "queued", "opening", "waiting", "sending", "delivered",
              "claiming", "asking", "chosen", "writing", "ended"}
Transfers == [stage : JobStages, to : Peers \cup {NoOne}, name : FileNames \cup {NoOne},
              with : JobIds \cup {NoOne}, file : Files \cup {NoOne}]
Reported == [kind : {"offered", "done", "failed"}, job : JobIds]
Offer == [from : Peers, job : JobIds]
Endings == {"done", "failed"}

\* j receives, and has been let into the mailbox of another job.
Receiving(j) == jobs[j].stage \in {"claiming", "asking", "chosen", "writing"}
Placing(j) == jobs[j].stage \in {"chosen", "writing"}

TransferTyped ==
    /\ jobs \in [JobIds -> Transfers]
    /\ \A j \in JobIds : Receiving(j) => jobs[j].with \in JobIds
    /\ \A j \in JobIds : Placing(j) => jobs[j].file \in Files
    /\ reports \in [Peers -> Seq(Reported)]
    /\ rows \in [Peers -> SUBSET JobIds]
    /\ offers \in [Peers -> SUBSET Offer]
    /\ mail \in [Peers -> Seq([kind : {"offer", "cancelled"}, from : Peers, job : JobIds])]

\* What the window was told last of j is that it ended, or will be.
ToldOfEnd(c, j, after) ==
    \E n \in DOMAIN reports[c] :
        n > after /\ reports[c][n].job = j /\ reports[c][n].kind \in Endings

\* Nobody has to know of j yet.
Early(j) == jobs[j].stage = "opening" \/ (jobs[j].stage = "queued" /\ jobs[j].with = NoOne)

Noticed(j) ==
    \/ j \in rows[j[1]] \/ j \in cancelled
    \/ \E n \in DOMAIN reports[j[1]] :
          reports[j[1]][n].job = j /\ reports[j[1]][n].kind = "offered"

RowsInv ==
    /\ \A j \in JobIds : j \in rows[j[1]] => Running(j) \/ ToldOfEnd(j[1], j, 0)
    /\ \A j \in JobIds : Running(j) => Early(j) \/ Noticed(j)
    /\ \A c \in Peers : \A n \in DOMAIN reports[c] : \A k \in JobIds :
          reports[c][n].job = k =>
              /\ k[1] = c
              /\ reports[c][n].kind = "offered" => Running(k) \/ ToldOfEnd(c, k, n)
              /\ reports[c][n].kind \in Endings => jobs[k].stage = "ended"

Inside == [of : JobIds, whole : BOOLEAN]

\* What is in a folder under a name that two jobs never chose at once.
FilesInv ==
    /\ \A c \in Peers : folder[c] \in [DOMAIN folder[c] -> Inside]
    /\ DOMAIN folder = Peers
    /\ saved \subseteq JobIds \X Files
    /\ \A j, k \in JobIds :
          j # k /\ j[1] = k[1] /\ Placing(j) /\ Placing(k) /\ jobs[j].file = jobs[k].file =>
              <<j[1], jobs[j].file>> \in clashed
    /\ \A j \in JobIds : Placing(j) /\ <<j[1], jobs[j].file>> \notin clashed =>
          IF jobs[j].stage = "chosen" THEN jobs[j].file \notin DOMAIN folder[j[1]]
          ELSE /\ jobs[j].file \in DOMAIN folder[j[1]]
               /\ folder[j[1]][jobs[j].file] = [of |-> j, whole |-> FALSE]
    /\ \A c \in Peers : \A f \in DOMAIN folder[c] : <<c, f>> \notin clashed =>
          LET what == folder[c][f]
          IN  what.whole \/ (jobs[what.of].stage = "writing" /\ what.of[1] = c /\ jobs[what.of].file = f)
    /\ \A s \in saved : <<s[1][1], s[2]>> \notin clashed =>
          s[2] \in DOMAIN folder[s[1][1]] /\ folder[s[1][1]][s[2]] = [of |-> s[1], whole |-> TRUE]

TransferInv == TransferTyped /\ RowsInv /\ FilesInv

(* A set of numbers that is not empty has a least one.                     *)
LEMMA LeastOf ==
    ASSUME NEW S \in SUBSET Nat, S # {}
    PROVE  Min(S) \in S
<1>1. PICK n \in S : \A m \in S : ~(<<m, n>> \in OpToRel(<, Nat))
  BY WFMin, NatLessThanWellFounded
<1>2. ASSUME NEW m \in S PROVE n <= m
  <2>1. <<m, n>> \in Nat \X Nat /\ <<m, n>>[1] = m /\ <<m, n>>[2] = n
    OBVIOUS
  <2>2. ASSUME m < n PROVE <<m, n>> \in OpToRel(<, Nat)
    BY <2>1, <2>2, Zenon DEF OpToRel
  <2>3. ~(m < n)
    BY <1>1, <2>2, Zenon
  <2> QED
    BY <2>3
<1>3. \A m \in S : n <= m
  BY <1>2
<1> QED
  BY <1>3 DEF Min

(* The next job is one that is not used.                                   *)
LEMMA NextIsFree ==
    ASSUME NEW c \in Peers, NextJob(c) <= MaxJobs
    PROVE  /\ <<c, NextJob(c)>> \in JobIds
           /\ jobs[<<c, NextJob(c)>>] = NoJob
<1> DEFINE S == {n \in 1..MaxJobs : jobs[<<c, n>>] = NoJob} \cup {MaxJobs + 1}
<1>0. MaxJobs \in Nat
  BY TransferAssumption
<1>1. S \in SUBSET Nat /\ S # {}
  BY <1>0
<1>2. NextJob(c) = Min(S)
  BY DEF NextJob
<1>3. NextJob(c) \in S
  BY <1>1, <1>2, LeastOf
<1>4. NextJob(c) \in {n \in 1..MaxJobs : jobs[<<c, n>>] = NoJob}
  BY <1>0, <1>3
<1> QED
  BY <1>4 DEF JobIds

(* The name chosen is one the folder does not have.                        *)
LEMMA ChosenIsFree ==
    ASSUME NEW c, NEW name, Free(c, name) # {}
    PROVE  <<name, Min({g[2] : g \in Free(c, name)})>> \in Free(c, name)
<1> DEFINE S == {g[2] : g \in Free(c, name)}
<1>0. MaxCopies \in Nat
  BY TransferAssumption
<1>1. \A g \in Free(c, name) : g \in FileNames \X (1..MaxCopies) /\ g[1] = name
  BY DEF Free, Files
<1>2. S \in SUBSET Nat /\ S # {}
  BY <1>0, <1>1
<1>3. Min(S) \in S
  BY <1>2, LeastOf
<1>4. PICK g \in Free(c, name) : g[2] = Min(S)
  BY <1>3
<1> HIDE DEF S
<1>5. g = <<name, Min(S)>>
  BY <1>1, <1>4
<1> QED
  BY <1>5 DEF S

(* What a thread reports comes after what it reported before.              *)
LEMMA ReportAdded ==
    ASSUME TransferTyped, NEW c \in Peers, NEW kind \in {"offered", "done", "failed"},
           NEW j \in JobIds, Reports(c, [kind |-> kind, job |-> j])
    PROVE  /\ reports' \in [Peers -> Seq(Reported)]
           /\ \A d \in Peers : d # c => reports'[d] = reports[d]
           /\ \A n \in DOMAIN reports[c] : n \in DOMAIN reports'[c] /\ reports'[c][n] = reports[c][n]
           /\ \E l \in DOMAIN reports'[c] :
                 /\ l > 0 /\ reports'[c][l].kind = kind /\ reports'[c][l].job = j
                 /\ \A n \in DOMAIN reports[c] : n < l
                 /\ \A n \in DOMAIN reports'[c] : n # l => n \in DOMAIN reports[c]
<1> DEFINE r == [kind |-> kind, job |-> j]  s == reports[c]  t == Append(s, r)
<1>1. r \in Reported /\ r.kind = kind /\ r.job = j
  BY DEF Reported
<1>2. s \in Seq(Reported) /\ reports \in [Peers -> Seq(Reported)]
  BY DEF TransferTyped
<1>3. reports' = [reports EXCEPT ![c] = t]
  BY DEF Reports
<1> HIDE DEF r, s
<1>4. /\ t \in Seq(Reported) /\ Len(s) \in Nat
      /\ DOMAIN t = 1 .. Len(s) + 1 /\ DOMAIN s = 1 .. Len(s)
      /\ t[Len(s) + 1] = r
      /\ \A n \in 1 .. Len(s) : t[n] = s[n]
  BY <1>1, <1>2
<1> HIDE DEF t
<1>5. /\ \A n \in DOMAIN s : n \in DOMAIN t /\ t[n] = s[n] /\ n < Len(s) + 1
      /\ \A n \in DOMAIN t : n # Len(s) + 1 => n \in DOMAIN s
      /\ Len(s) + 1 \in DOMAIN t /\ Len(s) + 1 > 0
  BY <1>4
<1>6. reports'[c] = t /\ reports' \in [Peers -> Seq(Reported)]
      /\ \A d \in Peers : d # c => reports'[d] = reports[d]
  BY <1>2, <1>3, <1>4
<1> QED
  BY <1>1, <1>4, <1>5, <1>6 DEF s

(* Rows follow the jobs while the window hears nothing.                    *)
LEMMA RowsStep ==
    ASSUME TransferTyped, TransferTyped', RowsInv, cancelled \subseteq cancelled',
           \A k \in JobIds : jobs[k].stage = "ended" => jobs'[k].stage = "ended",
           \A k \in JobIds : Running(k) =>
              \/ Running(k)'
              \/ \E l \in DOMAIN reports'[k[1]] :
                    /\ l > 0 /\ \A n \in DOMAIN reports[k[1]] : n < l
                    /\ reports'[k[1]][l].job = k /\ reports'[k[1]][l].kind \in Endings,
           \A k \in JobIds : k \in rows'[k[1]] => k \in rows[k[1]] \/ Running(k)',
           \A k \in JobIds : k \in rows[k[1]] => k \in rows'[k[1]] \/ k \in cancelled',
           \A k \in JobIds : Running(k)' => \/ Running(k) /\ ~Early(k)
                                            \/ Early(k)' \/ Noticed(k)',
           \A d \in Peers : \A n \in DOMAIN reports[d] :
              n \in DOMAIN reports'[d] /\ reports'[d][n] = reports[d][n],
           \A d \in Peers : \A n \in DOMAIN reports'[d] \ DOMAIN reports[d] :
              \A k \in JobIds : reports'[d][n].job = k =>
                 /\ k[1] = d
                 /\ reports'[d][n].kind = "offered" => Running(k)'
                 /\ reports'[d][n].kind \in Endings => jobs'[k].stage = "ended"
    PROVE  RowsInv'
<1>0. \A k \in JobIds : k[1] \in Peers
  BY DEF JobIds
<1>1. \A d \in Peers : \A k, n : ToldOfEnd(d, k, n) => ToldOfEnd(d, k, n)'
  BY DEF ToldOfEnd
<1>2. ASSUME NEW d \in Peers, NEW n \in DOMAIN reports[d] PROVE n \in Nat /\ n > 0
  <2>1. reports[d] \in Seq(Reported)
    BY DEF TransferTyped
  <2> QED
    BY <2>1
<1>3. ASSUME NEW k \in JobIds, k \in rows'[k[1]]
      PROVE  Running(k)' \/ ToldOfEnd(k[1], k, 0)'
  <2>1. CASE Running(k)'
    BY <2>1
  <2>2. CASE ~Running(k)' /\ Running(k)
    BY <2>2 DEF ToldOfEnd
  <2>3. CASE ~Running(k)' /\ ~Running(k)
    BY <1>0, <1>1, <1>3, <2>3 DEF RowsInv
  <2> QED
    BY <2>1, <2>2, <2>3
<1>4. ASSUME NEW k \in JobIds, Running(k)'
      PROVE  Early(k)' \/ Noticed(k)'
  <2>1. CASE Running(k) /\ ~Early(k)
    <3>1. Noticed(k)
      BY <2>1 DEF RowsInv
    <3> QED
      BY <1>0, <3>1 DEF Noticed
  <2> QED
    BY <1>4, <2>1
<1>5. ASSUME NEW d \in Peers, NEW n \in DOMAIN reports'[d],
             NEW k \in JobIds, reports'[d][n].job = k
      PROVE  /\ k[1] = d
             /\ reports'[d][n].kind = "offered" => Running(k)' \/ ToldOfEnd(d, k, n)'
             /\ reports'[d][n].kind \in Endings => jobs'[k].stage = "ended"
  <2>1. CASE n \notin DOMAIN reports[d]
    BY <1>5, <2>1
  <2>2. CASE n \in DOMAIN reports[d]
    <3>1. /\ reports'[d][n] = reports[d][n] /\ reports[d][n].job = k
          /\ k[1] = d
          /\ reports[d][n].kind = "offered" => Running(k) \/ ToldOfEnd(d, k, n)
          /\ reports[d][n].kind \in Endings => jobs[k].stage = "ended"
      BY <1>5, <2>2 DEF RowsInv
    <3>2. ASSUME Running(k) PROVE Running(k)' \/ ToldOfEnd(d, k, n)'
      BY <1>2, <2>2, <3>1, <3>2 DEF ToldOfEnd
    <3>3. ToldOfEnd(d, k, n) => ToldOfEnd(d, k, n)'
      BY <1>1
    <3> QED
      BY <3>1, <3>2, <3>3
  <2> QED
    BY <2>1, <2>2
<1> QED
  BY <1>3, <1>4, <1>5 DEF RowsInv

(* They follow when the window hears what the thread reported first.       *)
LEMMA RowsHeard ==
    ASSUME TransferTyped, RowsInv, NEW c \in Peers, reports[c] # <<>>,
           UNCHANGED <<jobs, cancelled>>, reports' = [reports EXCEPT ![c] = Tail(@)],
           rows' = [rows EXCEPT ![c] = IF Head(reports[c]).kind = "offered"
                                       THEN @ \cup {Head(reports[c]).job}
                                       ELSE @ \ {Head(reports[c]).job}]
    PROVE  /\ RowsInv'
           /\ reports' \in [Peers -> Seq(Reported)] /\ rows' \in [Peers -> SUBSET JobIds]
<1> DEFINE s == reports[c]  t == Tail(s)  h == Head(s)
<1>1. /\ s \in Seq(Reported) /\ s # <<>> /\ DOMAIN rows = Peers /\ DOMAIN reports = Peers
  BY DEF TransferTyped
<1>2. /\ reports'[c] = t /\ \A d \in Peers : d # c => reports'[d] = reports[d]
      /\ rows'[c] = IF h.kind = "offered" THEN rows[c] \cup {h.job} ELSE rows[c] \ {h.job}
      /\ \A d \in Peers : d # c => rows'[d] = rows[d]
  BY <1>1
<1> HIDE DEF s
<1>3. /\ t \in Seq(Reported) /\ h \in Reported /\ h = s[1] /\ 1 \in DOMAIN s
      /\ \A n \in DOMAIN t : n \in Nat /\ n > 0 /\ n + 1 \in DOMAIN s /\ t[n] = s[n + 1]
      /\ \A n \in DOMAIN s : n \in Nat /\ n > 0
      /\ \A n \in DOMAIN s : n # 1 => n - 1 \in DOMAIN t /\ t[n - 1] = s[n]
  BY <1>1, Rest
<1> HIDE DEF t, h
<1>4. h.job \in JobIds /\ (h.kind = "offered" \/ h.kind \in Endings)
  BY <1>3 DEF Reported, Endings
<1>5. /\ h.job[1] = c
      /\ h.kind = "offered" => Running(h.job) \/ ToldOfEnd(c, h.job, 1)
      /\ h.kind \in Endings => jobs[h.job].stage = "ended"
  <2>1. h = reports[c][1] /\ 1 \in DOMAIN reports[c]
    BY <1>3 DEF s
  <2> QED
    BY <1>4, <2>1 DEF RowsInv
<1>6. \A k \in JobIds : /\ k[1] \in Peers /\ (Running(k)' <=> Running(k))
                        /\ (Early(k)' <=> Early(k))
  BY DEF JobIds, Running, Early
<1>7. \A k, n : n \in Nat /\ ToldOfEnd(c, k, n + 1) => ToldOfEnd(c, k, n)'
  <2> SUFFICES ASSUME NEW k, NEW n \in Nat, ToldOfEnd(c, k, n + 1) PROVE ToldOfEnd(c, k, n)'
    OBVIOUS
  <2>1. PICK m \in DOMAIN s : m > n + 1 /\ s[m].job = k /\ s[m].kind \in Endings
    BY DEF ToldOfEnd, s
  <2>2. m \in Nat /\ m # 1 /\ m - 1 \in DOMAIN t /\ t[m - 1] = s[m] /\ m - 1 > n
    BY <1>3, <2>1
  <2> QED
    BY <1>2, <2>1, <2>2 DEF ToldOfEnd
<1>8. \A d \in Peers : \A k, n : d # c /\ ToldOfEnd(d, k, n) => ToldOfEnd(d, k, n)'
  BY <1>2 DEF ToldOfEnd
<1>9. ASSUME NEW k \in JobIds, k \in rows'[k[1]]
      PROVE  Running(k)' \/ ToldOfEnd(k[1], k, 0)'
  <2>1. CASE k[1] # c
    BY <1>2, <1>6, <1>8, <1>9, <2>1 DEF RowsInv
  <2>2. CASE k[1] = c /\ k = h.job
    <3>1. h.kind = "offered"
      BY <1>2, <1>9, <2>2
    <3> QED
      BY <1>5, <1>6, <1>7, <2>2, <3>1
  <2>3. CASE k[1] = c /\ k # h.job
    <3>1. k \in rows[c]
      <4>1. k \in rows'[c]
        BY <1>9, <2>3
      <4>2. rows'[c] = rows[c] \cup {h.job} \/ rows'[c] = rows[c] \ {h.job}
        BY <1>2
      <4> QED
        BY <2>3, <4>1, <4>2
    <3>2. CASE Running(k)
      BY <1>6, <3>2
    <3>3. CASE ToldOfEnd(c, k, 0)
      <4>1. PICK m \in DOMAIN s : m > 0 /\ s[m].job = k /\ s[m].kind \in Endings
        BY <3>3 DEF ToldOfEnd, s
      <4>2. m # 1
        BY <1>3, <2>3, <4>1
      <4>3. m - 1 \in DOMAIN t /\ t[m - 1] = s[m] /\ m - 1 > 0
        BY <1>3, <4>1, <4>2
      <4> QED
        BY <1>2, <2>3, <4>1, <4>3 DEF ToldOfEnd
    <3> QED
      BY <2>3, <3>1, <3>2, <3>3 DEF RowsInv
  <2> QED
    BY <2>1, <2>2, <2>3
<1>10. ASSUME NEW k \in JobIds, Running(k)'
      PROVE  Early(k)' \/ Noticed(k)'
  <2>1. Running(k) /\ (Early(k) \/ Noticed(k))
    BY <1>6, <1>10 DEF RowsInv
  <2>2. CASE Early(k)
    BY <1>6, <2>2
  <2>3. CASE k[1] # c /\ Noticed(k)
    BY <1>2, <1>6, <2>3 DEF Noticed
  <2>4. CASE k[1] = c /\ (k \in rows[c] \/ k \in cancelled)
    <3>1. k = h.job => h.kind = "offered"
      BY <1>4, <1>5, <2>1 DEF Running
    <3> QED
      BY <1>2, <2>4, <3>1 DEF Noticed
  <2>5. ASSUME NEW n \in DOMAIN s, k[1] = c, s[n].job = k, s[n].kind = "offered"
        PROVE  Noticed(k)'
    <3>1. CASE n = 1
      BY <1>2, <1>3, <2>5, <3>1 DEF Noticed
    <3>2. CASE n # 1
      <4>1. n - 1 \in DOMAIN t /\ t[n - 1] = s[n]
        BY <1>3, <3>2
      <4> QED
        BY <1>2, <2>5, <4>1 DEF Noticed
    <3> QED
      BY <3>1, <3>2
  <2> QED
    BY <2>1, <2>2, <2>3, <2>4, <2>5 DEF Noticed, s
<1>11. ASSUME NEW d \in Peers, NEW n \in DOMAIN reports'[d],
              NEW k \in JobIds, reports'[d][n].job = k
       PROVE  /\ k[1] = d
              /\ reports'[d][n].kind = "offered" => Running(k)' \/ ToldOfEnd(d, k, n)'
              /\ reports'[d][n].kind \in Endings => jobs'[k].stage = "ended"
  <2>1. CASE d # c
    <3>0. n \in DOMAIN reports[d] /\ reports'[d][n] = reports[d][n]
      BY <1>2, <1>11, <2>1
    <3>2. /\ k[1] = d
          /\ reports[d][n].kind = "offered" => Running(k) \/ ToldOfEnd(d, k, n)
          /\ reports[d][n].kind \in Endings => jobs[k].stage = "ended"
      BY <1>11, <3>0 DEF RowsInv
    <3> QED
      BY <1>6, <1>8, <2>1, <3>0, <3>2
  <2>2. CASE d = c
    <3>0. n \in DOMAIN t /\ n + 1 \in DOMAIN s /\ reports'[d][n] = s[n + 1] /\ n \in Nat
      BY <1>2, <1>3, <1>11, <2>2
    <3>2. /\ k[1] = d
          /\ s[n + 1].kind = "offered" => Running(k) \/ ToldOfEnd(c, k, n + 1)
          /\ s[n + 1].kind \in Endings => jobs[k].stage = "ended"
      BY <1>11, <2>2, <3>0 DEF RowsInv, s
    <3> QED
      BY <1>6, <1>7, <2>2, <3>0, <3>2
  <2> QED
    BY <2>1, <2>2
<1>12. RowsInv'
  BY <1>9, <1>10, <1>11 DEF RowsInv
<1>13. reports' \in [Peers -> Seq(Reported)]
  BY <1>1, <1>2, <1>3 DEF TransferTyped
<1>14. rows' \in [Peers -> SUBSET JobIds]
  BY <1>4 DEF TransferTyped, h, s
<1> QED
  BY <1>12, <1>13, <1>14

(* Rows follow a job that goes on, is offered, or ends.                    *)
LEMMA RowsWork ==
    ASSUME TransferTyped, TransferTyped', RowsInv, UNCHANGED <<rows, cancelled>>,
           NEW j \in JobIds, Running(j),
           \A k \in JobIds \ {j} : /\ Running(k)' <=> Running(k)
                                   /\ Early(k) => Early(k)'
                                   /\ jobs[k].stage = "ended" => jobs'[k].stage = "ended",
           \/ reports' = reports /\ Running(j)' /\ (Early(j) => Early(j)')
           \/ Reports(j[1], [kind |-> "offered", job |-> j]) /\ Running(j)'
           \/ /\ \E kind \in Endings : Reports(j[1], [kind |-> kind, job |-> j])
              /\ jobs'[j].stage = "ended"
    PROVE  RowsInv'
<1>0. j[1] \in Peers
  BY DEF JobIds
<1>1. \A k \in JobIds : jobs[k].stage = "ended" => jobs'[k].stage = "ended"
  BY DEF Running
<1>2. \A k \in JobIds : k \in rows'[k[1]] <=> k \in rows[k[1]]
  OBVIOUS
<1>3. \A k \in JobIds : k # j /\ Running(k)' => (Running(k) /\ ~Early(k)) \/ Early(k)'
  OBVIOUS
<1>4. CASE reports' = reports /\ Running(j)' /\ (Early(j) => Early(j)')
  <2>1. \A k \in JobIds : Running(k) => Running(k)'
    BY <1>4
  <2>2. \A k \in JobIds : Running(k)' => (Running(k) /\ ~Early(k)) \/ Early(k)'
    BY <1>3, <1>4
  <2> QED
    BY <1>1, <1>2, <1>4, <2>1, <2>2, RowsStep
<1>5. ASSUME NEW kind \in {"offered", "done", "failed"},
             Reports(j[1], [kind |-> kind, job |-> j]),
             kind = "offered" => Running(j)',
             kind \in Endings => jobs'[j].stage = "ended"
      PROVE  RowsInv'
  <2>1. /\ \A d \in Peers : d # j[1] => reports'[d] = reports[d]
        /\ \A n \in DOMAIN reports[j[1]] :
              n \in DOMAIN reports'[j[1]] /\ reports'[j[1]][n] = reports[j[1]][n]
        /\ \E l \in DOMAIN reports'[j[1]] :
              /\ l > 0 /\ reports'[j[1]][l].kind = kind /\ reports'[j[1]][l].job = j
              /\ \A n \in DOMAIN reports[j[1]] : n < l
              /\ \A n \in DOMAIN reports'[j[1]] : n # l => n \in DOMAIN reports[j[1]]
    BY <1>0, <1>5, ReportAdded
  <2>2. PICK l \in DOMAIN reports'[j[1]] :
              /\ l > 0 /\ reports'[j[1]][l].kind = kind /\ reports'[j[1]][l].job = j
              /\ \A n \in DOMAIN reports[j[1]] : n < l
              /\ \A n \in DOMAIN reports'[j[1]] : n # l => n \in DOMAIN reports[j[1]]
    BY <2>1
  <2>3. \A k \in JobIds : Running(k) =>
              \/ Running(k)'
              \/ \E n \in DOMAIN reports'[k[1]] :
                    /\ n > 0 /\ \A m \in DOMAIN reports[k[1]] : m < n
                    /\ reports'[k[1]][n].job = k /\ reports'[k[1]][n].kind \in Endings
    BY <1>5, <2>2 DEF Endings
  <2>4. \A d \in Peers : \A n \in DOMAIN reports[d] :
              n \in DOMAIN reports'[d] /\ reports'[d][n] = reports[d][n]
    BY <2>1
  <2>5. \A d \in Peers : \A n \in DOMAIN reports'[d] \ DOMAIN reports[d] :
              \A k \in JobIds : reports'[d][n].job = k =>
                 /\ k[1] = d
                 /\ reports'[d][n].kind = "offered" => Running(k)'
                 /\ reports'[d][n].kind \in Endings => jobs'[k].stage = "ended"
    <3> SUFFICES ASSUME NEW d \in Peers, NEW n \in DOMAIN reports'[d] \ DOMAIN reports[d]
                 PROVE  \A k \in JobIds : reports'[d][n].job = k =>
                           /\ k[1] = d
                           /\ reports'[d][n].kind = "offered" => Running(k)'
                           /\ reports'[d][n].kind \in Endings => jobs'[k].stage = "ended"
      OBVIOUS
    <3>1. d = j[1]
      BY <2>1
    <3>2. n = l
      BY <2>2, <3>1
    <3> QED
      BY <1>5, <2>2, <3>1, <3>2
  <2>6. kind = "offered" => Noticed(j)'
    BY <2>2 DEF Noticed
  <2>7. Running(j)' => kind = "offered"
    BY <1>5 DEF Running, Endings
  <2>8. \A k \in JobIds : Running(k)' => (Running(k) /\ ~Early(k)) \/ Early(k)' \/ Noticed(k)'
    BY <1>3, <2>6, <2>7
  <2> QED
    BY <1>1, <1>2, <2>3, <2>4, <2>5, <2>8, RowsStep
<1> QED
  BY <1>4, <1>5 DEF Endings, Running

(* Folders stay as they are while no job goes where one is placed.         *)
LEMMA FilesSame ==
    ASSUME FilesInv, UNCHANGED <<folder, saved, clashed>>,
           \A k \in JobIds :
              /\ Placing(k)' => Placing(k)
              /\ Placing(k)' => jobs'[k].file = jobs[k].file /\ jobs'[k].stage = jobs[k].stage
              /\ jobs[k].stage = "writing" => jobs'[k].stage = "writing"
    PROVE  FilesInv'
<1>1. \A k \in JobIds : jobs[k].stage = "writing" => jobs'[k].file = jobs[k].file
  BY DEF Placing
<1>2. \A c \in Peers : \A f \in DOMAIN folder[c] : folder[c][f].of \in JobIds
  BY DEF FilesInv, Inside
<1>3. \A c \in Peers : \A f \in DOMAIN folder'[c] : <<c, f>> \notin clashed' =>
          LET what == folder'[c][f]
          IN  what.whole \/ (jobs'[what.of].stage = "writing" /\ what.of[1] = c /\ jobs'[what.of].file = f)
  BY <1>1, <1>2 DEF FilesInv
<1>4. \A j, k \in JobIds :
          j # k /\ j[1] = k[1] /\ Placing(j)' /\ Placing(k)' /\ jobs'[j].file = jobs'[k].file =>
              <<j[1], jobs'[j].file>> \in clashed'
  BY DEF FilesInv
<1>5. \A j \in JobIds : Placing(j)' /\ <<j[1], jobs'[j].file>> \notin clashed' =>
          IF jobs'[j].stage = "chosen" THEN jobs'[j].file \notin DOMAIN folder'[j[1]]
          ELSE /\ jobs'[j].file \in DOMAIN folder'[j[1]]
               /\ folder'[j[1]][jobs'[j].file] = [of |-> j, whole |-> FALSE]
  BY DEF FilesInv
<1> QED
  BY <1>3, <1>4, <1>5 DEF FilesInv

(* A job takes its next stage.                                             *)
LEMMA StageTaken ==
    ASSUME TransferTyped, NEW j \in JobIds, NEW stage \in JobStages, Stage(j, stage)
    PROVE  /\ jobs' \in [JobIds -> Transfers]
           /\ \A k \in JobIds : k # j => jobs'[k] = jobs[k]
           /\ jobs'[j].stage = stage /\ jobs'[j].with = jobs[j].with /\ jobs'[j].file = jobs[j].file
<1>1. jobs[j] \in Transfers /\ jobs \in [JobIds -> Transfers]
  BY DEF TransferTyped
<1> DEFINE new == [jobs[j] EXCEPT !.stage = stage]
<1>2. /\ new \in Transfers /\ new.stage = stage
      /\ new.with = jobs[j].with /\ new.file = jobs[j].file
  BY <1>1 DEF Transfers
<1>3. jobs' = [jobs EXCEPT ![j] = new]
  BY DEF Stage
<1> HIDE DEF new
<1> QED
  BY <1>1, <1>2, <1>3

(* A job starts, opens a mailbox, or has sent its file.                    *)
LEMMA SimpleStep ==
    ASSUME TransferInv, NEW j \in JobIds, Run(j) \/ Open(j) \/ Sent(j)
    PROVE  TransferInv'
<1> USE DEF TransferInv
<1>1. PICK stage \in {"opening", "claiming", "waiting", "ended"} :
        /\ Stage(j, stage)
        /\ \/ jobs[j].stage = "queued" /\ reports' = reports
              /\ stage = IF jobs[j].with = NoOne THEN "opening" ELSE "claiming"
           \/ jobs[j].stage = "opening" /\ stage = "waiting"
              /\ Reports(j[1], [kind |-> "offered", job |-> j])
           \/ jobs[j].stage = "delivered" /\ stage = "ended"
              /\ Reports(j[1], [kind |-> "done", job |-> j])
  BY DEF Run, Open, Sent, Ends
<1>2. UNCHANGED <<rows, cancelled, offers, mail, folder, saved, clashed>>
  BY DEF Run, Open, Sent, windowVars, serverSide
<1>3. /\ jobs' \in [JobIds -> Transfers]
      /\ \A k \in JobIds : k # j => jobs'[k] = jobs[k]
      /\ jobs'[j].stage = stage /\ jobs'[j].with = jobs[j].with /\ jobs'[j].file = jobs[j].file
  BY <1>1, StageTaken DEF JobStages
<1>4. TransferTyped'
  <2>1. reports' \in [Peers -> Seq(Reported)]
    <3>1. j[1] \in Peers
      BY DEF JobIds
    <3> QED
      BY <1>1, <3>1, ReportAdded DEF TransferTyped
  <2>2. stage = "claiming" => jobs[j].with \in JobIds
    BY <1>1 DEF TransferTyped, Transfers
  <2>3. \A k \in JobIds : Receiving(k)' => jobs'[k].with \in JobIds
    BY <1>1, <1>3, <2>2 DEF TransferTyped, Receiving
  <2>4. \A k \in JobIds : Placing(k)' => jobs'[k].file \in Files
    BY <1>1, <1>3 DEF TransferTyped, Placing
  <2> QED
    BY <1>2, <1>3, <2>1, <2>3, <2>4 DEF TransferTyped
<1>5. RowsInv'
  <2>1. \A k \in JobIds \ {j} : /\ Running(k)' <=> Running(k)
                                /\ Early(k) => Early(k)'
                                /\ jobs[k].stage = "ended" => jobs'[k].stage = "ended"
    BY <1>3 DEF Running, Early
  <2>2. Running(j)
    BY <1>1 DEF Running
  <2>3. stage # "ended" => Running(j)'
    BY <1>1, <1>3 DEF Running
  <2>4. reports' = reports => (Early(j) => Early(j)') \/ jobs[j].stage # "queued"
    BY <1>1, <1>3 DEF Early
  <2> QED
    BY <1>1, <1>2, <1>3, <1>4, <2>1, <2>2, <2>3, <2>4, RowsWork DEF Endings
<1>6. FilesInv'
  BY <1>1, <1>2, <1>3, FilesSame DEF Placing
<1> QED
  BY <1>4, <1>5, <1>6

(* A mailbox is claimed: both sides go on.                                 *)
LEMMA ClaimStep ==
    ASSUME TransferInv, NEW j \in JobIds, Claim(j)
    PROVE  TransferInv'
<1> USE DEF TransferInv
<1> DEFINE s == jobs[j].with
<1>1. /\ jobs[j].stage = "claiming" /\ jobs[s].stage = "waiting"
      /\ jobs' = [jobs EXCEPT ![j].stage = "asking", ![s].stage = "sending", ![s].with = j]
      /\ UNCHANGED <<rows, cancelled, offers, mail, folder, saved, clashed, reports>>
  BY DEF Claim, windowVars, serverSide
<1>2. s \in JobIds /\ s # j
  BY <1>1 DEF TransferTyped, Receiving
<1> HIDE DEF s
<1> DEFINE new == [jobs[j] EXCEPT !.stage = "asking"]
           other == [[jobs[s] EXCEPT !.stage = "sending"] EXCEPT !.with = j]
<1>3. /\ new \in Transfers /\ new.stage = "asking" /\ new.with = s
      /\ other \in Transfers /\ other.stage = "sending"
  <2>1. jobs[j] \in Transfers /\ jobs[s] \in Transfers /\ jobs[j].with = s
    BY <1>2 DEF TransferTyped, s
  <2>2. new \in Transfers /\ new.stage = "asking" /\ new.with = s
    BY <2>1 DEF Transfers, JobStages
  <2>3. other \in Transfers /\ other.stage = "sending"
    BY <2>1 DEF Transfers, JobStages
  <2> QED
    BY <2>2, <2>3
<1>4. /\ jobs'[j] = new /\ jobs'[s] = other /\ jobs' \in [JobIds -> Transfers]
      /\ \A k \in JobIds : k # j /\ k # s => jobs'[k] = jobs[k]
  <2>1. jobs' = [[jobs EXCEPT ![j] = new] EXCEPT ![s] = other]
    BY <1>1, <1>2 DEF TransferTyped
  <2> HIDE DEF new, other
  <2> QED
    BY <1>2, <1>3, <2>1 DEF TransferTyped
<1> HIDE DEF new, other
<1>5. TransferTyped'
  <2>1. \A k \in JobIds : Receiving(k)' => jobs'[k].with \in JobIds
    BY <1>2, <1>3, <1>4 DEF TransferTyped, Receiving
  <2>2. \A k \in JobIds : Placing(k)' => jobs'[k].file \in Files
    BY <1>2, <1>3, <1>4 DEF TransferTyped, Placing
  <2> QED
    BY <1>1, <1>4, <2>1, <2>2 DEF TransferTyped
<1>6. RowsInv'
  <2>1. \A k \in JobIds \ {j} : /\ Running(k)' <=> Running(k)
                                /\ Early(k) => Early(k)'
                                /\ jobs[k].stage = "ended" => jobs'[k].stage = "ended"
    BY <1>1, <1>2, <1>3, <1>4 DEF Running, Early
  <2>2. Running(j) /\ Running(j)' /\ ~Early(j)
    BY <1>1, <1>3, <1>4 DEF Running, Early
  <2> QED
    BY <1>1, <1>5, <2>1, <2>2, RowsWork
<1>7. FilesInv'
  <2>1. \A k \in JobIds :
              /\ Placing(k)' => Placing(k)
              /\ Placing(k)' => jobs'[k].file = jobs[k].file /\ jobs'[k].stage = jobs[k].stage
              /\ jobs[k].stage = "writing" => jobs'[k].stage = "writing"
    BY <1>1, <1>2, <1>3, <1>4 DEF Placing
  <2> QED
    BY <1>1, <2>1, FilesSame
<1> QED
  BY <1>5, <1>6, <1>7

(* A free name is chosen.                                                  *)
LEMMA ChooseStep ==
    ASSUME TransferInv, NEW j \in JobIds, Choose(j)
    PROVE  TransferInv'
<1> USE DEF TransferInv
<1> DEFINE f == <<jobs[j].name, Min({g[2] : g \in Free(j[1], jobs[j].name)})>>
           new == [[jobs[j] EXCEPT !.stage = "chosen"] EXCEPT !.file = f]
<1>1. /\ jobs[j].stage = "asking" /\ Free(j[1], jobs[j].name) # {}
      /\ jobs' = [jobs EXCEPT ![j].stage = "chosen", ![j].file = f]
      /\ clashed' = IF \E k \in JobIds \ {j} : k[1] = j[1] /\ jobs[k].file = f /\ Running(k)
                    THEN clashed \cup {<<j[1], f>>} ELSE clashed
      /\ UNCHANGED <<rows, cancelled, offers, mail, folder, saved, reports>>
  BY DEF Choose, windowVars, serverSide
<1>2. f \in Files /\ f \notin DOMAIN folder[j[1]]
  <2>1. f \in Free(j[1], jobs[j].name)
    BY <1>1, ChosenIsFree
  <2> HIDE DEF f
  <2> QED
    BY <2>1 DEF Free
<1>3. jobs' = [jobs EXCEPT ![j] = new]
  BY <1>1 DEF TransferTyped
<1> HIDE DEF f
<1>4. /\ new \in Transfers /\ new.stage = "chosen" /\ new.file = f /\ new.with = jobs[j].with
  <2>1. jobs[j] \in Transfers
    BY DEF TransferTyped
  <2> QED
    BY <1>2, <2>1 DEF Transfers, JobStages
<1> HIDE DEF new
<1>5. /\ jobs'[j] = new /\ jobs' \in [JobIds -> Transfers]
      /\ \A k \in JobIds : k # j => jobs'[k] = jobs[k]
  BY <1>3, <1>4 DEF TransferTyped
<1>6. TransferTyped'
  <2>1. \A k \in JobIds : Receiving(k)' => jobs'[k].with \in JobIds
    BY <1>1, <1>4, <1>5 DEF TransferTyped, Receiving
  <2>2. \A k \in JobIds : Placing(k)' => jobs'[k].file \in Files
    BY <1>2, <1>4, <1>5 DEF TransferTyped, Placing
  <2> QED
    BY <1>1, <1>5, <2>1, <2>2 DEF TransferTyped
<1>7. RowsInv'
  <2>1. \A k \in JobIds \ {j} : /\ Running(k)' <=> Running(k)
                                /\ Early(k) => Early(k)'
                                /\ jobs[k].stage = "ended" => jobs'[k].stage = "ended"
    BY <1>5 DEF Running, Early
  <2>2. Running(j) /\ Running(j)' /\ ~Early(j)
    BY <1>1, <1>4, <1>5 DEF Running, Early
  <2> QED
    BY <1>1, <1>6, <2>1, <2>2, RowsWork
<1>8. FilesInv'
  <2>1. /\ clashed \subseteq clashed'
        /\ \A k \in JobIds \ {j} : k[1] = j[1] /\ jobs[k].file = f /\ Running(k) => <<j[1], f>> \in clashed'
    BY <1>1
  <2>2. /\ Placing(j)' /\ ~Placing(j) /\ jobs'[j].stage = "chosen" /\ jobs'[j].file = f
        /\ \A k \in JobIds \ {j} : /\ Placing(k)' <=> Placing(k)
                                   /\ jobs'[k] = jobs[k]
                                   /\ Placing(k) => Running(k)
    BY <1>1, <1>4, <1>5 DEF Placing, Running
  <2>3. \A i, k \in JobIds :
          i # k /\ i[1] = k[1] /\ Placing(i)' /\ Placing(k)' /\ jobs'[i].file = jobs'[k].file =>
              <<i[1], jobs'[i].file>> \in clashed'
    <3> SUFFICES ASSUME NEW i \in JobIds, NEW k \in JobIds, i # k, i[1] = k[1],
                        Placing(i)', Placing(k)', jobs'[i].file = jobs'[k].file
                 PROVE  <<i[1], jobs'[i].file>> \in clashed'
      OBVIOUS
    <3>1. CASE i = j
      BY <2>1, <2>2, <3>1
    <3>2. CASE k = j
      BY <2>1, <2>2, <3>2
    <3>3. CASE i # j /\ k # j
      BY <2>1, <2>2, <3>3 DEF FilesInv
    <3> QED
      BY <3>1, <3>2, <3>3
  <2>4. \A k \in JobIds : Placing(k)' /\ <<k[1], jobs'[k].file>> \notin clashed' =>
          IF jobs'[k].stage = "chosen" THEN jobs'[k].file \notin DOMAIN folder'[k[1]]
          ELSE /\ jobs'[k].file \in DOMAIN folder'[k[1]]
               /\ folder'[k[1]][jobs'[k].file] = [of |-> k, whole |-> FALSE]
    <3> SUFFICES ASSUME NEW k \in JobIds, Placing(k)', <<k[1], jobs'[k].file>> \notin clashed'
                 PROVE IF jobs'[k].stage = "chosen" THEN jobs'[k].file \notin DOMAIN folder'[k[1]]
                       ELSE /\ jobs'[k].file \in DOMAIN folder'[k[1]]
                            /\ folder'[k[1]][jobs'[k].file] = [of |-> k, whole |-> FALSE]
      OBVIOUS
    <3>1. CASE k = j
      BY <1>1, <1>2, <2>2, <3>1
    <3>2. CASE k # j
      <4>1. Placing(k) /\ jobs'[k] = jobs[k] /\ <<k[1], jobs[k].file>> \notin clashed
        BY <2>1, <2>2, <3>2
      <4>2. folder' = folder
        BY <1>1
      <4> QED
        BY <4>1, <4>2 DEF FilesInv
    <3> QED
      BY <3>1, <3>2
  <2>5. ASSUME NEW c \in Peers, NEW g \in DOMAIN folder'[c], <<c, g>> \notin clashed'
        PROVE  LET what == folder'[c][g]
               IN  what.whole \/ (jobs'[what.of].stage = "writing" /\ what.of[1] = c /\ jobs'[what.of].file = g)
    <3>0. folder' = folder /\ g \in DOMAIN folder[c] /\ <<c, g>> \notin clashed
      BY <1>1, <2>1, <2>5
    <3>1. /\ folder[c][g].of \in JobIds
          /\ \/ folder[c][g].whole
             \/ /\ jobs[folder[c][g].of].stage = "writing"
                /\ folder[c][g].of[1] = c /\ jobs[folder[c][g].of].file = g
      BY <3>0 DEF FilesInv, Inside
    <3>2. CASE folder[c][g].of = j
      BY <1>1, <3>0, <3>1, <3>2
    <3>3. CASE folder[c][g].of # j
      BY <2>2, <3>0, <3>1, <3>3
    <3> QED
      BY <3>2, <3>3
  <2>6. \A w \in saved' : <<w[1][1], w[2]>> \notin clashed' =>
          w[2] \in DOMAIN folder'[w[1][1]] /\ folder'[w[1][1]][w[2]] = [of |-> w[1], whole |-> TRUE]
    BY <1>1, <2>1 DEF FilesInv
  <2> QED
    BY <1>1, <2>3, <2>4, <2>5, <2>6 DEF FilesInv
<1> QED
  BY <1>6, <1>7, <1>8

(* What a folder holds after a file was put into it.                       *)
LEMMA FilePut ==
    ASSUME FilesInv, NEW c \in Peers, NEW f \in Files, NEW what \in Inside, Put(c, f, what)
    PROVE  /\ \A d \in Peers : folder'[d] \in [DOMAIN folder'[d] -> Inside]
           /\ DOMAIN folder' = Peers
           /\ \A d \in Peers : d # c => folder'[d] = folder[d]
           /\ DOMAIN folder'[c] = DOMAIN folder[c] \cup {f} /\ folder'[c][f] = what
           /\ \A g \in DOMAIN folder[c] : g # f => folder'[c][g] = folder[c][g]
<1> DEFINE old == folder[c]
           new == [g \in DOMAIN old \cup {f} |-> IF g = f THEN what ELSE old[g]]
<1>1. old \in [DOMAIN old -> Inside] /\ DOMAIN folder = Peers
  BY DEF FilesInv
<1>2. folder' = [folder EXCEPT ![c] = new]
  BY DEF Put
<1> HIDE DEF old
<1>3. /\ new \in [DOMAIN old \cup {f} -> Inside] /\ DOMAIN new = DOMAIN old \cup {f}
      /\ new[f] = what /\ \A g \in DOMAIN old : g # f => new[g] = old[g]
  BY <1>1
<1> HIDE DEF new
<1>4. /\ DOMAIN folder' = Peers /\ folder'[c] = new
      /\ \A d \in Peers : d # c => folder'[d] = folder[d]
  BY <1>1, <1>2
<1>5. \A d \in Peers : folder'[d] \in [DOMAIN folder'[d] -> Inside]
  BY <1>3, <1>4 DEF FilesInv
<1> QED
  BY <1>3, <1>4, <1>5 DEF old

(* The file is made where there was none, unless two chose it.             *)
LEMMA CreateStep ==
    ASSUME TransferInv, NEW j \in JobIds, CreateFile(j)
    PROVE  TransferInv'
<1> USE DEF TransferInv
<1> DEFINE c == j[1]  f == jobs[j].file  what == [of |-> j, whole |-> FALSE]
<1>1. /\ jobs[j].stage = "chosen" /\ Stage(j, "writing") /\ Put(c, f, what)
      /\ UNCHANGED <<rows, cancelled, offers, mail, reports, saved, clashed>>
  BY DEF CreateFile, windowVars, serverSide
<1>2. c \in Peers /\ f \in Files /\ what \in Inside
  BY <1>1 DEF JobIds, TransferTyped, Placing, Inside
<1>3. /\ jobs' \in [JobIds -> Transfers]
      /\ \A k \in JobIds : k # j => jobs'[k] = jobs[k]
      /\ jobs'[j].stage = "writing" /\ jobs'[j].with = jobs[j].with /\ jobs'[j].file = f
  BY <1>1, StageTaken DEF JobStages
<1>4. TransferTyped'
  <2>1. \A k \in JobIds : Receiving(k)' => jobs'[k].with \in JobIds
    BY <1>1, <1>3 DEF TransferTyped, Receiving
  <2>2. \A k \in JobIds : Placing(k)' => jobs'[k].file \in Files
    BY <1>2, <1>3 DEF TransferTyped, Placing
  <2> QED
    BY <1>1, <1>3, <2>1, <2>2 DEF TransferTyped
<1>5. RowsInv'
  <2>1. \A k \in JobIds \ {j} : /\ Running(k)' <=> Running(k)
                                /\ Early(k) => Early(k)'
                                /\ jobs[k].stage = "ended" => jobs'[k].stage = "ended"
    BY <1>3 DEF Running, Early
  <2>2. Running(j) /\ Running(j)' /\ ~Early(j)
    BY <1>1, <1>3 DEF Running, Early
  <2> QED
    BY <1>1, <1>4, <2>1, <2>2, RowsWork
<1>6. FilesInv'
  <2>1. /\ \A d \in Peers : folder'[d] \in [DOMAIN folder'[d] -> Inside]
        /\ DOMAIN folder' = Peers
        /\ \A d \in Peers : d # c => folder'[d] = folder[d]
        /\ DOMAIN folder'[c] = DOMAIN folder[c] \cup {f} /\ folder'[c][f] = what
        /\ \A g \in DOMAIN folder[c] : g # f => folder'[c][g] = folder[c][g]
    BY <1>1, <1>2, FilePut
  <2>2. what.of = j /\ what.whole = FALSE
    OBVIOUS
  <2>3. /\ \A k \in JobIds : /\ Placing(k)' <=> Placing(k)
                             /\ jobs'[k].file = jobs[k].file
        /\ \A k \in JobIds \ {j} : jobs'[k] = jobs[k]
        /\ Placing(j)
    BY <1>1, <1>3 DEF Placing
  <2>4. <<c, f>> \notin clashed => f \notin DOMAIN folder[c]
    BY <1>1, <2>3 DEF FilesInv
  <2>5. \A k \in JobIds \ {j} : Placing(k) /\ k[1] = c /\ jobs[k].file = f => <<c, f>> \in clashed
    BY <2>3 DEF FilesInv
  <2> HIDE DEF c, f, what
  <2>6. \A i, k \in JobIds :
          i # k /\ i[1] = k[1] /\ Placing(i)' /\ Placing(k)' /\ jobs'[i].file = jobs'[k].file =>
              <<i[1], jobs'[i].file>> \in clashed'
    BY <1>1, <2>3 DEF FilesInv
  <2>7. ASSUME NEW k \in JobIds, Placing(k)', <<k[1], jobs'[k].file>> \notin clashed'
        PROVE  IF jobs'[k].stage = "chosen" THEN jobs'[k].file \notin DOMAIN folder'[k[1]]
               ELSE /\ jobs'[k].file \in DOMAIN folder'[k[1]]
                    /\ folder'[k[1]][jobs'[k].file] = [of |-> k, whole |-> FALSE]
    <3>1. CASE k = j
      BY <1>3, <2>1, <3>1 DEF c, what
    <3>2. CASE k # j
      <4>1. /\ Placing(k) /\ jobs'[k] = jobs[k] /\ <<k[1], jobs[k].file>> \notin clashed
            /\ k[1] \in Peers
        BY <1>1, <2>3, <2>7, <3>2 DEF JobIds
      <4>2. k[1] = c => jobs[k].file # f
        BY <2>5, <3>2, <4>1
      <4> QED
        BY <2>1, <4>1, <4>2 DEF FilesInv
    <3> QED
      BY <3>1, <3>2
  <2>8. ASSUME NEW d \in Peers, NEW g \in DOMAIN folder'[d], <<d, g>> \notin clashed'
        PROVE  LET it == folder'[d][g]
               IN  it.whole \/ (jobs'[it.of].stage = "writing" /\ it.of[1] = d /\ jobs'[it.of].file = g)
    <3>1. CASE d = c /\ g = f
      BY <1>3, <2>1, <2>2, <3>1 DEF c
    <3>2. CASE ~(d = c /\ g = f)
      <4>1. g \in DOMAIN folder[d] /\ folder'[d][g] = folder[d][g] /\ <<d, g>> \notin clashed
        BY <1>1, <2>1, <2>8, <3>2
      <4>2. /\ folder[d][g].of \in JobIds
            /\ \/ folder[d][g].whole
               \/ /\ jobs[folder[d][g].of].stage = "writing"
                  /\ folder[d][g].of[1] = d /\ jobs[folder[d][g].of].file = g
        BY <4>1 DEF FilesInv, Inside
      <4> QED
        BY <1>1, <2>3, <4>1, <4>2
    <3> QED
      BY <3>1, <3>2
  <2>9. ASSUME NEW w \in saved', <<w[1][1], w[2]>> \notin clashed'
        PROVE  /\ w[2] \in DOMAIN folder'[w[1][1]]
               /\ folder'[w[1][1]][w[2]] = [of |-> w[1], whole |-> TRUE]
    <3>1. /\ w[2] \in DOMAIN folder[w[1][1]]
          /\ folder[w[1][1]][w[2]] = [of |-> w[1], whole |-> TRUE]
          /\ w[1][1] \in Peers /\ <<w[1][1], w[2]>> \notin clashed
      BY <1>1, <2>9 DEF FilesInv, JobIds
    <3>2. ~(w[1][1] = c /\ w[2] = f)
      BY <2>4, <3>1
    <3> QED
      BY <2>1, <3>1, <3>2
  <2> QED
    BY <1>1, <2>1, <2>6, <2>7, <2>8, <2>9 DEF FilesInv
<1> QED
  BY <1>4, <1>5, <1>6

(* The whole file came: the thread of the one and of the other go on.      *)
LEMMA ReceivedStep ==
    ASSUME TransferInv, NEW j \in JobIds, Received(j)
    PROVE  TransferInv'
<1> USE DEF TransferInv
<1> DEFINE c == j[1]  f == jobs[j].file  s == jobs[j].with  what == [of |-> j, whole |-> TRUE]
<1>1. /\ jobs[j].stage = "writing" /\ jobs[s].stage = "sending"
      /\ jobs' = [jobs EXCEPT ![j].stage = "ended", ![s].stage = "delivered"]
      /\ Put(c, f, what) /\ saved' = saved \cup {<<j, f>>}
      /\ Reports(c, [kind |-> "done", job |-> j])
      /\ UNCHANGED <<rows, cancelled, offers, mail, clashed>>
  BY DEF Received, Ends, windowVars, serverSide
<1>2. /\ c \in Peers /\ f \in Files /\ what \in Inside /\ s \in JobIds /\ s # j
  BY <1>1 DEF JobIds, TransferTyped, Placing, Receiving, Inside
<1> DEFINE new == [jobs[j] EXCEPT !.stage = "ended"]
           other == [jobs[s] EXCEPT !.stage = "delivered"]
<1>3. /\ new \in Transfers /\ new.stage = "ended"
      /\ other \in Transfers /\ other.stage = "delivered"
  <2>1. jobs[j] \in Transfers /\ jobs[s] \in Transfers
    BY <1>2 DEF TransferTyped
  <2> QED
    BY <2>1 DEF Transfers, JobStages
<1>4. /\ jobs'[j] = new /\ jobs'[s] = other /\ jobs' \in [JobIds -> Transfers]
      /\ \A k \in JobIds : k # j /\ k # s => jobs'[k] = jobs[k]
  <2>1. jobs' = [[jobs EXCEPT ![j] = new] EXCEPT ![s] = other]
    BY <1>1, <1>2 DEF TransferTyped
  <2> HIDE DEF new, other, s
  <2> QED
    BY <1>2, <1>3, <2>1 DEF TransferTyped
<1>5. what.of = j /\ what.whole = TRUE
  OBVIOUS
<1>6. Placing(j) /\ Running(j) /\ ~Early(j)
  BY <1>1 DEF Placing, Running, Early
<1> HIDE DEF new, other, s, f, c, what
<1>7. TransferTyped'
  <2>1. \A k \in JobIds : Receiving(k)' => jobs'[k].with \in JobIds
    BY <1>2, <1>3, <1>4 DEF TransferTyped, Receiving
  <2>2. \A k \in JobIds : Placing(k)' => jobs'[k].file \in Files
    BY <1>2, <1>3, <1>4 DEF TransferTyped, Placing
  <2>3. reports' \in [Peers -> Seq(Reported)]
    BY <1>1, <1>2, ReportAdded
  <2> QED
    BY <1>1, <1>4, <2>1, <2>2, <2>3 DEF TransferTyped
<1>8. RowsInv'
  <2>1. \A k \in JobIds \ {j} : /\ Running(k)' <=> Running(k)
                                /\ Early(k) => Early(k)'
                                /\ jobs[k].stage = "ended" => jobs'[k].stage = "ended"
    BY <1>1, <1>2, <1>3, <1>4 DEF Running, Early
  <2>2. \E kind \in Endings : Reports(j[1], [kind |-> kind, job |-> j])
    BY <1>1 DEF Endings, c
  <2>3. jobs'[j].stage = "ended"
    BY <1>3, <1>4
  <2> QED
    BY <1>1, <1>6, <1>7, <2>1, <2>2, <2>3, RowsWork
<1>9. FilesInv'
  <2>1. /\ \A d \in Peers : folder'[d] \in [DOMAIN folder'[d] -> Inside]
        /\ DOMAIN folder' = Peers
        /\ \A d \in Peers : d # c => folder'[d] = folder[d]
        /\ DOMAIN folder'[c] = DOMAIN folder[c] \cup {f} /\ folder'[c][f] = what
        /\ \A g \in DOMAIN folder[c] : g # f => folder'[c][g] = folder[c][g]
    BY <1>1, <1>2, FilePut
  <2>2. /\ ~Placing(j)'
        /\ \A k \in JobIds \ {j} : /\ Placing(k)' <=> Placing(k)
                                   /\ Placing(k) => jobs'[k] = jobs[k]
    BY <1>1, <1>2, <1>3, <1>4 DEF Placing
  <2>10. ASSUME NEW k \in JobIds, Placing(k)'
         PROVE  k # j /\ Placing(k) /\ jobs'[k] = jobs[k]
    <3>1. k # j
      BY <2>2, <2>10
    <3>2. Placing(k)
      BY <2>2, <2>10, <3>1
    <3> QED
      BY <2>2, <3>1, <3>2
  <2>3. <<c, f>> \notin clashed => folder[c][f] = [of |-> j, whole |-> FALSE]
    BY <1>1, <1>6 DEF FilesInv, c, f
  <2>4. \A k \in JobIds \ {j} : Placing(k) /\ k[1] = c /\ jobs[k].file = f => <<c, f>> \in clashed
    BY <1>6 DEF FilesInv, c, f
  <2>5. saved' \subseteq JobIds \X Files
    BY <1>1, <1>2 DEF FilesInv
  <2>6. \A i, k \in JobIds :
          i # k /\ i[1] = k[1] /\ Placing(i)' /\ Placing(k)' /\ jobs'[i].file = jobs'[k].file =>
              <<i[1], jobs'[i].file>> \in clashed'
    <3> SUFFICES ASSUME NEW i \in JobIds, NEW k \in JobIds, i # k, i[1] = k[1],
                        Placing(i)', Placing(k)', jobs'[i].file = jobs'[k].file
                 PROVE  <<i[1], jobs'[i].file>> \in clashed'
      OBVIOUS
    <3>1. /\ Placing(i) /\ jobs'[i] = jobs[i] /\ Placing(k) /\ jobs'[k] = jobs[k]
          /\ clashed' = clashed
      BY <1>1, <2>10
    <3> QED
      BY <3>1 DEF FilesInv
  <2>7. ASSUME NEW k \in JobIds, Placing(k)', <<k[1], jobs'[k].file>> \notin clashed'
        PROVE  IF jobs'[k].stage = "chosen" THEN jobs'[k].file \notin DOMAIN folder'[k[1]]
               ELSE /\ jobs'[k].file \in DOMAIN folder'[k[1]]
                    /\ folder'[k[1]][jobs'[k].file] = [of |-> k, whole |-> FALSE]
    <3>0. k # j /\ Placing(k) /\ jobs'[k] = jobs[k]
      BY <2>7, <2>10
    <3>1. <<k[1], jobs[k].file>> \notin clashed /\ k[1] \in Peers
      <4>1. clashed' = clashed
        BY <1>1
      <4> QED
        BY <2>7, <3>0, <4>1 DEF JobIds
    <3>2. k[1] = c => jobs[k].file # f
      BY <2>4, <3>0, <3>1
    <3> QED
      BY <2>1, <3>0, <3>1, <3>2 DEF FilesInv
  <2>8. ASSUME NEW d \in Peers, NEW g \in DOMAIN folder'[d], <<d, g>> \notin clashed'
        PROVE  LET it == folder'[d][g]
               IN  it.whole \/ (jobs'[it.of].stage = "writing" /\ it.of[1] = d /\ jobs'[it.of].file = g)
    <3>1. CASE d = c /\ g = f
      BY <1>5, <2>1, <3>1
    <3>2. CASE ~(d = c /\ g = f)
      <4>1. g \in DOMAIN folder[d] /\ folder'[d][g] = folder[d][g] /\ <<d, g>> \notin clashed
        BY <1>1, <2>1, <2>8, <3>2
      <4>2. /\ folder[d][g].of \in JobIds
            /\ \/ folder[d][g].whole
               \/ /\ jobs[folder[d][g].of].stage = "writing"
                  /\ folder[d][g].of[1] = d /\ jobs[folder[d][g].of].file = g
        BY <4>1 DEF FilesInv, Inside
      <4>3. CASE folder[d][g].whole
        BY <4>1, <4>3
      <4>4. CASE /\ jobs[folder[d][g].of].stage = "writing"
                 /\ folder[d][g].of[1] = d /\ jobs[folder[d][g].of].file = g
        <5>1. folder[d][g].of # j
          BY <3>2, <4>4 DEF c, f
        <5>2. jobs'[folder[d][g].of] = jobs[folder[d][g].of]
          BY <2>2, <4>2, <4>4, <5>1 DEF Placing
        <5> QED
          BY <4>1, <4>4, <5>2
      <4> QED
        BY <4>2, <4>3, <4>4
    <3> QED
      BY <3>1, <3>2
  <2>9. ASSUME NEW w \in saved', <<w[1][1], w[2]>> \notin clashed'
        PROVE  /\ w[2] \in DOMAIN folder'[w[1][1]]
               /\ folder'[w[1][1]][w[2]] = [of |-> w[1], whole |-> TRUE]
    <3>1. CASE w = <<j, f>>
      BY <2>1, <3>1 DEF c, what
    <3>2. CASE w # <<j, f>>
      <4>1. /\ w[2] \in DOMAIN folder[w[1][1]]
            /\ folder[w[1][1]][w[2]] = [of |-> w[1], whole |-> TRUE]
            /\ w[1][1] \in Peers /\ <<w[1][1], w[2]>> \notin clashed
        BY <1>1, <2>9, <3>2 DEF FilesInv, JobIds
      <4>2. [of |-> j, whole |-> FALSE] # [of |-> w[1], whole |-> TRUE]
        OBVIOUS
      <4>3. ~(w[1][1] = c /\ w[2] = f)
        BY <2>3, <4>1, <4>2
      <4> QED
        BY <2>1, <4>1, <4>3
    <3> QED
      BY <3>1, <3>2
  <2>11. /\ \A d \in Peers : folder'[d] \in [DOMAIN folder'[d] -> Inside]
         /\ DOMAIN folder' = Peers
    BY <2>1
  <2> HIDE DEF TransferInv
  <2> QED
    BY <2>5, <2>6, <2>7, <2>8, <2>9, <2>11 DEF FilesInv
<1> QED
  BY <1>7, <1>8, <1>9

(* What a folder holds after a file was taken out.                         *)
LEMMA FileGone ==
    ASSUME FilesInv, NEW c \in Peers, NEW f, Without(c, f)
    PROVE  /\ \A d \in Peers : folder'[d] \in [DOMAIN folder'[d] -> Inside]
           /\ DOMAIN folder' = Peers
           /\ \A d \in Peers : d # c => folder'[d] = folder[d]
           /\ DOMAIN folder'[c] = DOMAIN folder[c] \ {f}
           /\ \A g \in DOMAIN folder[c] : g # f => folder'[c][g] = folder[c][g]
<1> DEFINE old == folder[c]
           new == [g \in DOMAIN old \ {f} |-> old[g]]
<1>1. old \in [DOMAIN old -> Inside] /\ DOMAIN folder = Peers
  BY DEF FilesInv
<1>2. folder' = [folder EXCEPT ![c] = new]
  BY DEF Without
<1> HIDE DEF old
<1>3. /\ new \in [DOMAIN old \ {f} -> Inside] /\ DOMAIN new = DOMAIN old \ {f}
      /\ \A g \in DOMAIN old : g # f => new[g] = old[g]
  BY <1>1
<1> HIDE DEF new
<1>4. /\ DOMAIN folder' = Peers /\ folder'[c] = new
      /\ \A d \in Peers : d # c => folder'[d] = folder[d]
  BY <1>1, <1>2
<1>5. \A d \in Peers : folder'[d] \in [DOMAIN folder'[d] -> Inside]
  BY <1>3, <1>4 DEF FilesInv
<1> QED
  BY <1>3, <1>4, <1>5 DEF old

(* A job fails: what it was writing is taken away, and nothing else.       *)
LEMMA FailStep ==
    ASSUME TransferInv, NEW j \in JobIds, Fail(j)
    PROVE  TransferInv'
<1> USE DEF TransferInv
<1> DEFINE c == j[1]  f == jobs[j].file
<1>1. /\ jobs[j].stage \in {"opening", "waiting", "sending", "delivered", "claiming", "asking", "chosen", "writing"}
      /\ IF jobs[j].stage = "writing" THEN Without(c, f) ELSE folder' = folder
      /\ Stage(j, "ended") /\ Reports(c, [kind |-> "failed", job |-> j])
      /\ UNCHANGED <<rows, cancelled, offers, mail, saved, clashed>>
  BY DEF Fail, Ends, windowVars, serverSide
<1>2. c \in Peers
  BY DEF JobIds
<1>3. /\ jobs' \in [JobIds -> Transfers]
      /\ \A k \in JobIds : k # j => jobs'[k] = jobs[k]
      /\ jobs'[j].stage = "ended" /\ jobs'[j].with = jobs[j].with /\ jobs'[j].file = f
  BY <1>1, StageTaken DEF JobStages
<1>4. TransferTyped'
  <2>1. \A k \in JobIds : Receiving(k)' => jobs'[k].with \in JobIds
    BY <1>3 DEF TransferTyped, Receiving
  <2>2. \A k \in JobIds : Placing(k)' => jobs'[k].file \in Files
    BY <1>3 DEF TransferTyped, Placing
  <2>3. reports' \in [Peers -> Seq(Reported)]
    BY <1>1, <1>2, ReportAdded
  <2> QED
    BY <1>1, <1>3, <2>1, <2>2, <2>3 DEF TransferTyped
<1>5. RowsInv'
  <2>1. \A k \in JobIds \ {j} : /\ Running(k)' <=> Running(k)
                                /\ Early(k) => Early(k)'
                                /\ jobs[k].stage = "ended" => jobs'[k].stage = "ended"
    BY <1>3 DEF Running, Early
  <2>2. Running(j) /\ \E kind \in Endings : Reports(j[1], [kind |-> kind, job |-> j])
    BY <1>1 DEF Running, Endings
  <2> QED
    BY <1>1, <1>3, <1>4, <2>1, <2>2, RowsWork
<1>6. CASE jobs[j].stage # "writing"
  <2>1. \A k \in JobIds :
              /\ Placing(k)' => Placing(k)
              /\ Placing(k)' => jobs'[k].file = jobs[k].file /\ jobs'[k].stage = jobs[k].stage
              /\ jobs[k].stage = "writing" => jobs'[k].stage = "writing"
    BY <1>3, <1>6 DEF Placing
  <2>2. FilesInv'
    BY <1>1, <1>6, <2>1, FilesSame
  <2> QED
    BY <1>4, <1>5, <2>2
<1>7. CASE jobs[j].stage = "writing"
  <2> HIDE DEF c, f
  <2>1. /\ \A d \in Peers : folder'[d] \in [DOMAIN folder'[d] -> Inside]
        /\ DOMAIN folder' = Peers
        /\ \A d \in Peers : d # c => folder'[d] = folder[d]
        /\ DOMAIN folder'[c] = DOMAIN folder[c] \ {f}
        /\ \A g \in DOMAIN folder[c] : g # f => folder'[c][g] = folder[c][g]
    BY <1>1, <1>2, <1>7, FileGone
  <2>2. /\ ~Placing(j)' /\ Placing(j)
        /\ \A k \in JobIds \ {j} : /\ Placing(k)' <=> Placing(k)
                                   /\ jobs'[k] = jobs[k]
    BY <1>3, <1>7 DEF Placing
  <2>3. <<c, f>> \notin clashed => folder[c][f] = [of |-> j, whole |-> FALSE]
    BY <1>7, <2>2 DEF FilesInv, c, f
  <2>4. \A k \in JobIds \ {j} : Placing(k) /\ k[1] = c /\ jobs[k].file = f => <<c, f>> \in clashed
    BY <2>2 DEF FilesInv, c, f
  <2>6. \A i, k \in JobIds :
          i # k /\ i[1] = k[1] /\ Placing(i)' /\ Placing(k)' /\ jobs'[i].file = jobs'[k].file =>
              <<i[1], jobs'[i].file>> \in clashed'
    BY <1>1, <2>2 DEF FilesInv
  <2>7. ASSUME NEW k \in JobIds, Placing(k)', <<k[1], jobs'[k].file>> \notin clashed'
        PROVE  IF jobs'[k].stage = "chosen" THEN jobs'[k].file \notin DOMAIN folder'[k[1]]
               ELSE /\ jobs'[k].file \in DOMAIN folder'[k[1]]
                    /\ folder'[k[1]][jobs'[k].file] = [of |-> k, whole |-> FALSE]
    <3>0. k # j
      BY <2>2, <2>7
    <3>1. /\ Placing(k) /\ jobs'[k] = jobs[k] /\ <<k[1], jobs[k].file>> \notin clashed
          /\ k[1] \in Peers
      BY <1>1, <2>2, <2>7, <3>0 DEF JobIds
    <3>2. k[1] = c => jobs[k].file # f
      BY <2>4, <3>0, <3>1
    <3> QED
      BY <2>1, <3>1, <3>2 DEF FilesInv
  <2>8. ASSUME NEW d \in Peers, NEW g \in DOMAIN folder'[d], <<d, g>> \notin clashed'
        PROVE  LET it == folder'[d][g]
               IN  it.whole \/ (jobs'[it.of].stage = "writing" /\ it.of[1] = d /\ jobs'[it.of].file = g)
    <3>1. g \in DOMAIN folder[d] /\ folder'[d][g] = folder[d][g] /\ <<d, g>> \notin clashed
          /\ ~(d = c /\ g = f)
      BY <1>1, <2>1, <2>8
    <3>2. /\ folder[d][g].of \in JobIds
          /\ \/ folder[d][g].whole
             \/ /\ jobs[folder[d][g].of].stage = "writing"
                /\ folder[d][g].of[1] = d /\ jobs[folder[d][g].of].file = g
      BY <3>1 DEF FilesInv, Inside
    <3>3. CASE folder[d][g].whole
      BY <3>1, <3>3
    <3>4. CASE /\ jobs[folder[d][g].of].stage = "writing"
               /\ folder[d][g].of[1] = d /\ jobs[folder[d][g].of].file = g
      <4>1. folder[d][g].of # j
        BY <3>1, <3>4 DEF c, f
      <4>2. jobs'[folder[d][g].of] = jobs[folder[d][g].of]
        BY <2>2, <3>2, <4>1
      <4> QED
        BY <3>1, <3>4, <4>2
    <3> QED
      BY <3>2, <3>3, <3>4
  <2>9. ASSUME NEW w \in saved', <<w[1][1], w[2]>> \notin clashed'
        PROVE  /\ w[2] \in DOMAIN folder'[w[1][1]]
               /\ folder'[w[1][1]][w[2]] = [of |-> w[1], whole |-> TRUE]
    <3>1. /\ w[2] \in DOMAIN folder[w[1][1]]
          /\ folder[w[1][1]][w[2]] = [of |-> w[1], whole |-> TRUE]
          /\ w[1][1] \in Peers /\ <<w[1][1], w[2]>> \notin clashed
      BY <1>1, <2>9 DEF FilesInv, JobIds
    <3>2. [of |-> j, whole |-> FALSE] # [of |-> w[1], whole |-> TRUE]
      OBVIOUS
    <3>3. ~(w[1][1] = c /\ w[2] = f)
      BY <2>3, <3>1, <3>2
    <3> QED
      BY <2>1, <3>1, <3>3
  <2>10. FilesInv'
    BY <1>1, <2>1, <2>6, <2>7, <2>8, <2>9 DEF FilesInv
  <2> QED
    BY <1>4, <1>5, <2>10
<1> QED
  BY <1>6, <1>7

(* A job is queued where none was.                                         *)
LEMMA Queued ==
    ASSUME TransferInv, NEW c \in Peers, NEW job \in Transfers, job.stage = "queued",
           Queue(c, job), UNCHANGED <<cancelled, mail, reports, folder, saved, clashed>>,
           \/ rows' = rows /\ job.with = NoOne
           \/ rows' = [rows EXCEPT ![c] = @ \cup {<<c, NextJob(c)>>}],
           offers' \in [Peers -> SUBSET Offer]
    PROVE  TransferInv'
<1> USE DEF TransferInv
<1>1. PICK j \in JobIds : j = <<c, NextJob(c)>>
  BY NextIsFree DEF Queue
<1>2. jobs[j].stage = "none" /\ j[1] = c /\ jobs' = [jobs EXCEPT ![j] = job]
  BY <1>1, NextIsFree DEF Queue, NoJob
<1>3. /\ jobs'[j] = job /\ jobs' \in [JobIds -> Transfers]
      /\ \A k \in JobIds : k # j => jobs'[k] = jobs[k]
  BY <1>1, <1>2 DEF TransferTyped
<1>4. /\ rows' \in [Peers -> SUBSET JobIds]
      /\ \A k \in JobIds : k \in rows'[k[1]] => k \in rows[k[1]] \/ k = j
      /\ \A k \in JobIds : k \in rows[k[1]] => k \in rows'[k[1]]
      /\ job.with = NoOne \/ j \in rows'[c]
  <2>1. \A k \in JobIds : k[1] \in Peers
    BY DEF JobIds
  <2>2. CASE rows' = rows /\ job.with = NoOne
    BY <2>2 DEF TransferTyped
  <2>3. CASE rows' = [rows EXCEPT ![c] = @ \cup {j}]
    <3>1. /\ rows'[c] = rows[c] \cup {j}
          /\ \A d \in Peers : d # c => rows'[d] = rows[d]
      BY <2>3 DEF TransferTyped
    <3>2. rows' \in [Peers -> SUBSET JobIds]
      BY <2>3 DEF TransferTyped
    <3> QED
      BY <1>2, <2>1, <3>1, <3>2
  <2> QED
    BY <1>1, <2>2, <2>3
<1>5. TransferTyped'
  <2>1. \A k \in JobIds : Receiving(k)' => jobs'[k].with \in JobIds
    BY <1>2, <1>3 DEF TransferTyped, Receiving
  <2>2. \A k \in JobIds : Placing(k)' => jobs'[k].file \in Files
    BY <1>2, <1>3 DEF TransferTyped, Placing
  <2> QED
    BY <1>3, <1>4, <2>1, <2>2 DEF TransferTyped
<1>6. RowsInv'
  <2>1. \A k \in JobIds : jobs[k].stage = "ended" => jobs'[k].stage = "ended"
    BY <1>2, <1>3
  <2>2. Running(j)' /\ \A k \in JobIds : Running(k) => Running(k)'
    <3>1. Running(j)'
      BY <1>2, <1>3 DEF Running
    <3>2. \A k \in JobIds : k # j => (Running(k) <=> Running(k)')
      BY <1>3 DEF Running
    <3> QED
      BY <3>1, <3>2
  <2>3. \A k \in JobIds : Running(k)' => (Running(k) /\ ~Early(k)) \/ Early(k)' \/ Noticed(k)'
    <3> SUFFICES ASSUME NEW k \in JobIds, Running(k)'
                 PROVE  (Running(k) /\ ~Early(k)) \/ Early(k)' \/ Noticed(k)'
      OBVIOUS
    <3>1. CASE k = j
      BY <1>2, <1>3, <1>4, <3>1 DEF Early, Noticed
    <3>2. CASE k # j
      BY <1>3, <3>2 DEF Early, Running
    <3> QED
      BY <3>1, <3>2
  <2>4. \A k \in JobIds : k \in rows'[k[1]] => k \in rows[k[1]] \/ Running(k)'
    <3> SUFFICES ASSUME NEW k \in JobIds, k \in rows'[k[1]] PROVE k \in rows[k[1]] \/ Running(k)'
      OBVIOUS
    <3>1. k \in rows[k[1]] \/ k = j
      BY <1>4
    <3> QED
      BY <2>2, <3>1
  <2> QED
    BY <1>4, <1>5, <2>1, <2>2, <2>3, <2>4, RowsStep
<1>7. FilesInv'
  BY <1>2, <1>3, FilesSame DEF Placing
<1> QED
  BY <1>5, <1>6, <1>7

(* A file is offered, or an offer taken.                                   *)
LEMMA AskStep ==
    ASSUME TransferInv, NEW c \in Peers,
           SendFileDirect(c) \/ \E o \in offers[c] : AcceptOffer(c, o)
    PROVE  TransferInv'
<1>0. TransferTyped
  BY DEF TransferInv
<1>1. ASSUME SendFileDirect(c) PROVE TransferInv'
  <2>1. PICK d \in Peers, n \in FileNames :
           Queue(c, [NoJob EXCEPT !.stage = "queued", !.to = d, !.name = n])
    BY <1>1 DEF SendFileDirect
  <2> DEFINE job == [NoJob EXCEPT !.stage = "queued", !.to = d, !.name = n]
  <2>2. job \in Transfers /\ job.stage = "queued" /\ job.with = NoOne
    BY DEF NoJob, Transfers, JobStages
  <2>3. UNCHANGED <<rows, offers, cancelled, mail, reports, folder, saved, clashed>>
    BY <1>1 DEF SendFileDirect, windowVars, serverSide
  <2>4. offers' \in [Peers -> SUBSET Offer]
    BY <1>0, <2>3 DEF TransferTyped
  <2>5. Queue(c, job)
    BY <2>1
  <2> HIDE DEF job
  <2> QED
    BY <2>2, <2>3, <2>4, <2>5, Queued
<1>2. ASSUME NEW o \in offers[c], AcceptOffer(c, o) PROVE TransferInv'
  <2> DEFINE job == [NoJob EXCEPT !.stage = "queued", !.with = o.job, !.name = jobs[o.job].name]
  <2>1. o.job \in JobIds /\ jobs[o.job].name \in FileNames \cup {NoOne}
    BY <1>0 DEF TransferTyped, Offer, Transfers
  <2>2. job \in Transfers /\ job.stage = "queued"
    BY <2>1 DEF NoJob, Transfers, JobStages
  <2>3. /\ Queue(c, job)
        /\ rows' = [rows EXCEPT ![c] = @ \cup {<<c, NextJob(c)>>}]
        /\ offers' = [offers EXCEPT ![c] = @ \ {o}]
        /\ UNCHANGED <<cancelled, mail, reports, folder, saved, clashed>>
    BY <1>2 DEF AcceptOffer, serverSide
  <2>4. offers' \in [Peers -> SUBSET Offer]
    BY <1>0, <2>3 DEF TransferTyped
  <2> HIDE DEF job
  <2> QED
    BY <2>1, <2>2, <2>3, <2>4, Queued
<1> QED
  BY <1>1, <1>2

(* What the server relays has its type.                                    *)
LEMMA Relayed ==
    ASSUME TransferTyped, NEW d,
           NEW m \in [kind : {"offer", "cancelled"}, from : Peers, job : JobIds],
           Relay(d, m) \/ UNCHANGED mail
    PROVE  mail' \in [Peers -> Seq([kind : {"offer", "cancelled"}, from : Peers, job : JobIds])]
<1> DEFINE M == [kind : {"offer", "cancelled"}, from : Peers, job : JobIds]
<1>1. mail \in [Peers -> Seq(M)] /\ m \in M
  BY DEF TransferTyped
<1>2. mail' = mail \/ mail' = [mail EXCEPT ![d] = Append(mail[d], m)]
  BY DEF Relay
<1> HIDE DEF M
<1> DEFINE q == Append(mail[d], m)
<1>3. d \in Peers => q \in Seq(M)
  BY <1>1
<1> HIDE DEF q
<1>4. CASE mail' = [mail EXCEPT ![d] = q]
  <2> DEFINE F(e) == IF e = d THEN q ELSE mail[e]
  <2>1. mail' = [e \in Peers |-> F(e)]
    BY <1>1, <1>4
  <2>2. \A e \in Peers : F(e) \in Seq(M)
    BY <1>1, <1>3
  <2> HIDE DEF F
  <2>3. mail' \in [Peers -> Seq(M)]
    BY <2>1, <2>2
  <2> QED
    BY <2>3 DEF M
<1> QED
  BY <1>1, <1>2, <1>4 DEF M, q

(* What only the window and the server do leaves the rows of running jobs, *)
(* but for those given up.                                                 *)
LEMMA QuietStep ==
    ASSUME TransferInv, UNCHANGED <<jobs, reports, folder, saved, clashed>>,
           rows' \in [Peers -> SUBSET JobIds], cancelled \subseteq cancelled',
           \A d \in Peers : rows'[d] \subseteq rows[d] /\ rows[d] \subseteq rows'[d] \cup cancelled',
           offers' \in [Peers -> SUBSET Offer],
           mail' \in [Peers -> Seq([kind : {"offer", "cancelled"}, from : Peers, job : JobIds])]
    PROVE  TransferInv'
<1> USE DEF TransferInv
<1>1. TransferTyped'
  BY DEF TransferTyped, Receiving, Placing
<1>2. \A k \in JobIds : /\ k[1] \in Peers /\ (Running(k)' <=> Running(k))
                        /\ (Early(k)' <=> Early(k))
  BY DEF JobIds, Running, Early
<1>3. RowsInv'
  <2>1. \A k \in JobIds : Running(k)' => (Running(k) /\ ~Early(k)) \/ Early(k)' \/ Noticed(k)'
    BY <1>2
  <2>2. \A k \in JobIds : /\ k \in rows'[k[1]] => k \in rows[k[1]]
                          /\ k \in rows[k[1]] => k \in rows'[k[1]] \/ k \in cancelled'
    BY <1>2
  <2> QED
    BY <1>1, <1>2, <2>1, <2>2, RowsStep
<1>4. FilesInv'
  BY FilesSame DEF Placing
<1> QED
  BY <1>1, <1>3, <1>4

(* An offer refused or heard of, a transfer given up, and a connection     *)
(* lost and made again.                                                    *)
LEMMA WindowStep ==
    ASSUME TransferInv, NEW c \in Peers,
           \/ \E o \in offers[c] : DeclineOffer(c, o)
           \/ \E j \in rows[c] : CancelTransfer(c, j)
           \/ Frame(c) \/ Away(c) \/ Back(c)
    PROVE  TransferInv'
<1> DEFINE M == [kind : {"offer", "cancelled"}, from : Peers, job : JobIds]
<1>0. /\ TransferTyped /\ mail \in [Peers -> Seq(M)] /\ offers \in [Peers -> SUBSET Offer]
      /\ rows \in [Peers -> SUBSET JobIds]
  BY DEF TransferInv, TransferTyped
<1>1. ASSUME NEW o \in offers[c], DeclineOffer(c, o) PROVE TransferInv'
  <2>1. /\ offers' = [offers EXCEPT ![c] = @ \ {o}]
        /\ Relay(o.from, [kind |-> "cancelled", from |-> c, job |-> o.job]) \/ UNCHANGED mail
        /\ UNCHANGED <<jobs, reports, folder, saved, clashed, rows, cancelled>>
    BY <1>1 DEF DeclineOffer, threadVars
  <2>2. o.job \in JobIds
    BY <1>0 DEF Offer
  <2>3. mail' \in [Peers -> Seq(M)]
    <3>1. [kind |-> "cancelled", from |-> c, job |-> o.job] \in M
      BY <2>2
    <3> QED
      BY <1>0, <2>1, <3>1, Relayed
  <2>4. offers' \in [Peers -> SUBSET Offer]
    BY <1>0, <2>1
  <2> HIDE DEF TransferInv
  <2> QED
    BY <1>0, <2>1, <2>3, <2>4, QuietStep
<1>2. ASSUME NEW j \in rows[c], CancelTransfer(c, j) PROVE TransferInv'
  <2>1. /\ rows' = [rows EXCEPT ![c] = @ \ {j}] /\ cancelled' = cancelled \cup {j}
        /\ UNCHANGED <<jobs, reports, folder, saved, clashed, offers, mail>>
    BY <1>2 DEF CancelTransfer, threadVars, serverSide
  <2>2. /\ rows' \in [Peers -> SUBSET JobIds]
        /\ \A d \in Peers : rows'[d] \subseteq rows[d] /\ rows[d] \subseteq rows'[d] \cup cancelled'
    BY <1>0, <2>1
  <2> QED
    BY <1>0, <2>1, <2>2, QuietStep
<1>3. ASSUME Frame(c) PROVE TransferInv'
  <2> DEFINE m == Head(mail[c])
             new == IF m.kind = "offer" THEN {o \in offers[c] : o.job # m.job} \cup {[from |-> m.from, job |-> m.job]}
                    ELSE offers[c] \ {[from |-> m.from, job |-> m.job]}
  <2>1. /\ mail[c] # <<>> /\ mail' = [mail EXCEPT ![c] = Tail(@)]
        /\ offers' = [offers EXCEPT ![c] = new]
        /\ UNCHANGED <<jobs, reports, folder, saved, clashed, rows, cancelled>>
    BY <1>3 DEF Frame, threadVars
  <2>2. mail[c] \in Seq(M) /\ mail[c] # <<>>
    BY <1>0, <2>1
  <2>3. m \in M /\ Tail(mail[c]) \in Seq(M)
    <3> HIDE DEF M
    <3> QED
      BY <2>2
  <2> HIDE DEF m
  <2>4. new \subseteq Offer
    BY <1>0, <2>3 DEF Offer
  <2> HIDE DEF new
  <2>5. offers' \in [Peers -> SUBSET Offer]
    BY <1>0, <2>1, <2>4
  <2>6. mail' \in [Peers -> Seq(M)]
    BY <1>0, <2>1, <2>3
  <2> QED
    BY <1>0, <2>1, <2>5, <2>6, QuietStep
<1>4. ASSUME Away(c) PROVE TransferInv'
  <2>1. /\ mail' = [mail EXCEPT ![c] = <<>>]
        /\ UNCHANGED <<jobs, reports, folder, saved, clashed, rows, cancelled, offers>>
    BY <1>4 DEF Away, threadVars, windowVars
  <2>2. mail' \in [Peers -> Seq(M)]
    <3> HIDE DEF M
    <3>1. <<>> \in Seq(M)
      OBVIOUS
    <3> QED
      BY <1>0, <2>1, <3>1
  <2> QED
    BY <1>0, <2>1, <2>2, QuietStep
<1>5. ASSUME Back(c) PROVE TransferInv'
  <2>1. /\ offers' = [offers EXCEPT ![c] = {}]
        /\ UNCHANGED <<jobs, reports, folder, saved, clashed, rows, cancelled, mail>>
    BY <1>5 DEF Back, threadVars
  <2>2. offers' \in [Peers -> SUBSET Offer]
    BY <1>0, <2>1
  <2> QED
    BY <1>0, <2>1, <2>2, QuietStep
<1> QED
  BY <1>1, <1>2, <1>3, <1>4, <1>5

(* The window hears of a mailbox, or of an end.                            *)
LEMMA HeardStep ==
    ASSUME TransferInv, NEW c \in Peers, Offered(c) \/ TakeRow(c)
    PROVE  TransferInv'
<1>0. TransferTyped /\ RowsInv /\ FilesInv
  BY DEF TransferInv
<1> DEFINE h == Head(reports[c])
<1>1. /\ reports[c] # <<>> /\ reports' = [reports EXCEPT ![c] = Tail(@)]
      /\ UNCHANGED <<jobs, folder, saved, clashed, cancelled, offers>>
      /\ \/ h.kind = "offered" /\ rows' = [rows EXCEPT ![c] = @ \cup {h.job}]
         \/ h.kind # "offered" /\ rows' = [rows EXCEPT ![c] = @ \ {h.job}]
      /\ \/ UNCHANGED mail
         \/ Relay(jobs[h.job].to, [kind |-> "offer", from |-> c, job |-> h.job])
  BY DEF Offered, TakeRow, Heard, threadVars, serverSide
<1>2. h \in Reported
  <2>1. reports[c] \in Seq(Reported)
    BY <1>0 DEF TransferTyped
  <2> QED
    BY <1>1, <2>1
<1>3. RowsInv' /\ reports' \in [Peers -> Seq(Reported)] /\ rows' \in [Peers -> SUBSET JobIds]
  <2>1. rows' = [rows EXCEPT ![c] = IF h.kind = "offered" THEN @ \cup {h.job} ELSE @ \ {h.job}]
    BY <1>1
  <2> QED
    BY <1>0, <1>1, <2>1, RowsHeard
<1>4. mail' \in [Peers -> Seq([kind : {"offer", "cancelled"}, from : Peers, job : JobIds])]
  <2>1. [kind |-> "offer", from |-> c, job |-> h.job]
            \in [kind : {"offer", "cancelled"}, from : Peers, job : JobIds]
    BY <1>2 DEF Reported
  <2> HIDE DEF h
  <2> QED
    BY <1>0, <1>1, <2>1, Relayed
<1>5. TransferTyped'
  BY <1>0, <1>1, <1>3, <1>4 DEF TransferTyped, Receiving, Placing
<1>6. FilesInv'
  BY <1>0, <1>1, FilesSame DEF Placing
<1> QED
  BY <1>3, <1>5, <1>6 DEF TransferInv

(* It holds when nothing was sent, every step keeps it,                    *)
LEMMA TransferStart == TransferInit => TransferInv
<1> SUFFICES ASSUME TransferInit PROVE TransferInv
  OBVIOUS
<1>1. /\ jobs = [j \in JobIds |-> NoJob] /\ saved = {} /\ clashed = {}
      /\ reports = [c \in Peers |-> <<>>] /\ mail = [c \in Peers |-> <<>>]
      /\ rows = [c \in Peers |-> {}] /\ offers = [c \in Peers |-> {}]
      /\ folder = [c \in Peers |-> [f \in {} |-> NoOne]]
  BY DEF TransferInit
<1>2. NoJob \in Transfers /\ NoJob.stage = "none"
  BY DEF NoJob, Transfers, JobStages
<1>3. \A j \in JobIds : jobs[j].stage = "none" /\ j[1] \in Peers
  BY <1>1, <1>2 DEF JobIds
<1>4. TransferTyped
  <2>1. jobs \in [JobIds -> Transfers]
    BY <1>1, <1>2
  <2>2. \A S : <<>> \in Seq(S)
    OBVIOUS
  <2>3. reports \in [Peers -> Seq(Reported)]
    BY <1>1, <2>2
  <2>4. mail \in [Peers -> Seq([kind : {"offer", "cancelled"}, from : Peers, job : JobIds])]
    BY <1>1, <2>2
  <2>5. rows \in [Peers -> SUBSET JobIds] /\ offers \in [Peers -> SUBSET Offer]
    BY <1>1
  <2> QED
    BY <1>3, <2>1, <2>3, <2>4, <2>5 DEF TransferTyped, Receiving, Placing
<1>5. RowsInv
  BY <1>1, <1>3 DEF RowsInv, Running
<1>6. FilesInv
  <2>1. \A c \in Peers : folder[c] \in [DOMAIN folder[c] -> Inside] /\ DOMAIN folder[c] = {}
    BY <1>1
  <2> QED
    BY <1>1, <1>3, <2>1 DEF FilesInv, Placing
<1> QED
  BY <1>4, <1>5, <1>6 DEF TransferInv

LEMMA TransferStep ==
    ASSUME TransferInv, [TransferNext]_transferVars PROVE TransferInv'
<1>1. ASSUME UNCHANGED transferVars PROVE TransferInv'
  <2>1. /\ UNCHANGED <<jobs, reports, folder, saved, clashed, rows, cancelled, offers, mail>>
        /\ TransferTyped
    BY <1>1 DEF transferVars, threadVars, windowVars, serverSide, TransferInv
  <2> QED
    BY <2>1, QuietStep DEF TransferTyped
<1>2. ASSUME NEW j \in JobIds, Working(j) PROVE TransferInv'
  BY <1>2, SimpleStep, ClaimStep, ChooseStep, CreateStep, ReceivedStep, FailStep DEF Working
<1> QED
  BY <1>1, <1>2, AskStep, WindowStep, HeardStep DEF TransferNext

(* and it gives what is promised of transfers.                             *)
LEMMA RowsShown == TransferInv => RowsFollowJobs
<1> SUFFICES ASSUME TransferInv, NEW c \in Peers, NEW n \in 1 .. MaxJobs
             PROVE  /\ <<c, n>> \in rows[c] => Running(<<c, n>>) \/ Ending(<<c, n>>)
                    /\ Running(<<c, n>>) =>
                          \/ <<c, n>> \in rows[c] \cup cancelled
                          \/ jobs[<<c, n>>].stage \in {"queued", "opening"} \/ Announced(<<c, n>>)
  BY DEF RowsFollowJobs
<1> DEFINE j == <<c, n>>
<1>1. j \in JobIds /\ j[1] = c
  BY DEF JobIds
<1> HIDE DEF j
<1>2. ASSUME NEW m \in DOMAIN reports[c], reports[c][m].job = j
      PROVE  /\ reports[c][m].kind \in Endings => Ending(j)
             /\ reports[c][m].kind = "offered" => Announced(j)
  <2>1. reports[c] \in Seq(Reported)
    BY DEF TransferInv, TransferTyped
  <2>2. reports[c][m] \in Reported
    BY <2>1
  <2> QED
    BY <1>1, <1>2, <2>2 DEF Reported, Endings, Ending, Announced
<1>3. j \in rows[c] => Running(j) \/ Ending(j)
  BY <1>1, <1>2 DEF TransferInv, RowsInv, ToldOfEnd
<1>4. Running(j) => \/ j \in rows[c] \cup cancelled
                    \/ jobs[j].stage \in {"queued", "opening"} \/ Announced(j)
  BY <1>1, <1>2 DEF TransferInv, RowsInv, Early, Noticed
<1> QED
  BY <1>3, <1>4 DEF j

LEMMA FilesAreKept == TransferInv => FilesKept
<1> SUFFICES ASSUME FilesInv PROVE FilesKept
  BY DEF TransferInv
<1>1. \A c \in Peers : \A f \in DOMAIN folder[c] :
          <<c, f>> \notin clashed => folder[c][f].whole \/ Running(folder[c][f].of)
  BY DEF FilesInv, Running
<1>2. \A s \in saved : <<s[1][1], s[2]>> \notin clashed =>
          s[2] \in DOMAIN folder[s[1][1]] /\ folder[s[1][1]][s[2]] = [of |-> s[1], whole |-> TRUE]
  BY DEF FilesInv
<1> QED
  BY <1>1, <1>2 DEF FilesKept


LEMMA TransferMoves ==
    ASSUME TransferInv, [MCNext]_allVars PROVE TransferInv'
<1>1. [TransferNext]_transferVars
  BY DEF MCNext, allVars
<1> QED
  BY <1>1, TransferStep

(* A row stands for a job that goes on or whose end the window is about to *)
(* be told, no job goes on unseen, and a file that was saved is whole and  *)
(* of the job that saved it, unless two jobs chose its name at once.       *)
(* (ui/transfers.rs, transfer/mod.rs)                                      *)
THEOREM ServicesTransfersShown == MCSpec => []TransfersShown
<1>1. MCInit => TransferInv
  BY TransferStart DEF MCInit
<1>2. TransferInv /\ [MCNext]_allVars => TransferInv'
  BY TransferMoves
<1>3. TransferInv => TransfersShown
  BY RowsShown, FilesAreKept DEF TransfersShown
<1> QED
  BY <1>1, <1>2, <1>3, PTL DEF MCSpec

=============================================================================

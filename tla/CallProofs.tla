----------------------------- MODULE CallProofs -----------------------------
(***************************************************************************)
(* No microphone runs without a call that is wanted, and one connection at *)
(* a time leads to the server, whatever is lost, in whatever order         *)
(* requests and frames are read (CallInv).  And client and server agree on *)
(* the call, the microphone and the share as soon as nothing is on its way *)
(* (CallAgrees, MicAgrees, ShareAgrees).                                   *)
(*                                                                         *)
(* That is a property of the quiet moments; what makes it inductive is to  *)
(* say at every moment what the frames and requests on their way have yet  *)
(* to settle (Agreed): the last word about the membership among the frames *)
(* is as the server has it, a session is announced only after the end of   *)
(* the last, a share only in its session.  A step that reads takes the     *)
(* first frame of that and must do what it says; a step that serves adds   *)
(* frames and must leave the last word right.                              *)
(***************************************************************************)
EXTENDS Call, TLAPS, SequenceTheorems

----------------------------------------------------------------------------
(* Requests and frames.                                                    *)

(* While no stream is given out, the types that name streams are the same. *)
LEMMA SameNext ==
    ASSUME next' = next
    PROVE  Streams' = Streams /\ Members' = Members /\ Frames' = Frames
BY DEF Streams, Members, Frames

(* A new stream is a stream, and the old ones still are.                   *)
LEMMA NextGrows ==
    ASSUME next \in Nat, next' = next + 1
    PROVE  Streams \subseteq Streams' /\ Members \subseteq Members' /\ Frames \subseteq Frames'
<1>1. Streams \subseteq Streams'
    BY DEF Streams
<1>. QED  BY <1>1 DEF Members, Frames

(* What a client says is a request.                                        *)
LEMMA Says ==
    ASSUME Types, NEW rs \in Seq(Requests), Say(rs)
    PROVE  reqs' \in [Conns -> Seq(Requests)]
BY DEF Types, Say

(* What a client ever says.                                                *)
LEMMA Phrases ==
    /\ <<Leave>> \in Seq(Requests) /\ <<Start>> \in Seq(Requests) /\ <<Stop>> \in Seq(Requests)
    /\ \A m \in Mics : <<[op |-> "flags", mic |-> m]>> \in Seq(Requests)
    /\ \A c \in Channels, m \in Mics :
          <<[op |-> "join", c |-> c], [op |-> "flags", mic |-> m]>> \in Seq(Requests)
<1>1. Leave \in Requests /\ Start \in Requests /\ Stop \in Requests
    BY DEF Leave, Start, Stop, Requests
<1>2. \A m \in Mics : [op |-> "flags", mic |-> m] \in Requests
    BY DEF Requests
<1>3. \A c \in Channels : [op |-> "join", c |-> c] \in Requests
    BY DEF Requests
<1>. QED  BY <1>1, <1>2, <1>3

(* What is read is a frame of its kind.                                    *)
LEMMA Reads ==
    ASSUME Types, NEW type, Read(type)
    PROVE  /\ inbox' \in Seq(Frames) /\ Frame.t = type
           /\ type = "ready" => Frame.call \in Entries \cup {None}
           /\ type = "state" => Frame.call \in Entries
           /\ type = "voice" => Frame.c \in Channels /\ Frame.s \in Streams
           /\ type = "leave" => Frame.c \in Channels
           /\ type = "start" => Frame.s \in Streams
<1>1. Frame \in Frames /\ Frame.t = type /\ inbox' \in Seq(Frames)
    BY DEF Types, Read, Frame
<1>. QED  BY <1>1 DEF Frames

(* What a server is asked is a request of its kind.                        *)
LEMMA Asked ==
    ASSUME Types, NEW g \in Conns, reqs[g] # <<>>
    PROVE  LET r == Head(reqs[g])
           IN  /\ Tail(reqs[g]) \in Seq(Requests)
               /\ r.op = "join" => r.c \in Channels
               /\ r.op = "flags" => r.mic \in Mics
<1>. DEFINE r == Head(reqs[g])
<1>1. r \in Requests /\ Tail(reqs[g]) \in Seq(Requests)
    BY DEF Types
<1>. QED  BY <1>1 DEF Requests

(* The frames and requests that got through.                               *)
LEMMA Parts ==
    ASSUME NEW S, NEW s \in Seq(S), NEW k \in 0 .. Len(s) PROVE SubSeq(s, 1, k) \in Seq(S)
BY SubSeqProperties

(* The bounds.                                                             *)
LEMMA Counts ==
    ASSUME Types, Act \/ Fault PROVE acts' \in 0 .. MaxActs /\ faults' \in 0 .. MaxFaults
BY CallAssumption DEF Types, Act, Fault

(* The roster keeps its form when a share begins or ends.                  *)
LEMMA Shares ==
    ASSUME Types, NEW yes \in BOOLEAN, Sharing(yes)
    PROVE  mirror' \in Entries \cup {None, Nobody}
<1>. DEFINE new == [mirror EXCEPT !.sharing = yes]
<1>1. ASSUME mirror \in Entries PROVE new \in Entries
    BY <1>1 DEF Entries
<1>. HIDE DEF new
<1>. QED  BY <1>1 DEF Types, Sharing, Known, new

----------------------------------------------------------------------------
(* The user.                                                               *)

(* A call is wanted before it is joined.                                   *)
LEMMA JoinsVoice ==
    ASSUME CallInv, NEW c \in Channels, JoinVoice(c) PROVE CallInv'
<1>0. Types /\ next' = next
    BY DEF CallInv, JoinVoice, wish, media, net, server, counts, Act
<1>1. Streams' = Streams /\ Members' = Members /\ Frames' = Frames
    BY <1>0, SameNext
<1>2. reqs' \in [Conns -> Seq(Requests)]
    BY <1>0, Says, Phrases DEF Types, JoinVoice, Joining
<1>3. Types'
    BY <1>0, <1>1, <1>2, CallAssumption DEF Types, JoinVoice, wish, media, net, server, counts, Act
<1>4. VoiceIsWanted' /\ OneLink'
    BY <1>0, <1>1, <1>2, CallAssumption
       DEF CallInv, VoiceIsWanted, OneLink, JoinVoice, wish, media, net, server, counts, Act
<1>. QED  BY <1>3, <1>4 DEF CallInv

(* The microphone stops with the wish for the call.                        *)
LEMMA LeavesVoice ==
    ASSUME CallInv, LeaveVoice PROVE CallInv'
<1>0. Types /\ next' = next
    BY DEF CallInv, LeaveVoice, wish, media, net, server, counts, Act, Released
<1>1. Streams' = Streams /\ Members' = Members /\ Frames' = Frames
    BY <1>0, SameNext
<1>2. reqs' \in [Conns -> Seq(Requests)]
    BY <1>0, Says, Phrases DEF Types, LeaveVoice
<1>3. Types'
    BY <1>0, <1>1, <1>2, CallAssumption
       DEF Types, LeaveVoice, wish, media, net, server, counts, Act, Released
<1>4. VoiceIsWanted' /\ OneLink'
    BY <1>0, <1>1, <1>2, CallAssumption
       DEF CallInv, VoiceIsWanted, OneLink, LeaveVoice, wish, media, net, server, counts, Act,
           Released
<1>. QED  BY <1>3, <1>4 DEF CallInv

(* The microphone's setting.                                               *)
LEMMA SetsVoiceFlags ==
    ASSUME CallInv, NEW new \in Mics, SetVoiceFlags(new) PROVE CallInv'
<1>0. Types /\ next' = next
    BY DEF CallInv, SetVoiceFlags, wish, media, net, server, counts, Act
<1>1. Streams' = Streams /\ Members' = Members /\ Frames' = Frames
    BY <1>0, SameNext
<1>2. reqs' \in [Conns -> Seq(Requests)]
    BY <1>0, Says, Phrases DEF Types, SetVoiceFlags
<1>3. acts' \in 0 .. MaxActs /\ faults' \in 0 .. MaxFaults
    BY <1>0, Counts DEF SetVoiceFlags
<1>4. /\ mic' = new /\ untold' \subseteq {"voice", "share", "flags", "capture"}
      /\ UNCHANGED <<inCall, picking, pending, media, mirror, connected, net, inbox, server>>
    BY <1>0 DEF Types, SetVoiceFlags
<1>5. Types'
    BY <1>0, <1>1, <1>2, <1>3, <1>4 DEF Types, media, net, server
<1>6. VoiceIsWanted' /\ OneLink'
    BY <1>0, <1>1, <1>2, <1>3, CallAssumption
       DEF CallInv, VoiceIsWanted, OneLink, SetVoiceFlags, wish, media, net, server, counts,
           Act
<1>. QED  BY <1>5, <1>6 DEF CallInv

(* The picker opens,                                                       *)
LEMMA StartsScreen ==
    ASSUME CallInv, StartScreen PROVE CallInv'
<1>0. Types /\ next' = next
    BY DEF CallInv, StartScreen, wish, media, net, server, counts
<1>1. Streams' = Streams /\ Members' = Members /\ Frames' = Frames
    BY <1>0, SameNext
<1>2. Types'
    BY <1>0, <1>1, CallAssumption DEF Types, StartScreen, wish, media, net, server, counts
<1>3. VoiceIsWanted' /\ OneLink'
    BY <1>0, <1>1, CallAssumption
       DEF CallInv, VoiceIsWanted, OneLink, StartScreen, wish, media, net, server, counts
<1>. QED  BY <1>2, <1>3 DEF CallInv

(* is closed,                                                              *)
LEMMA CancelsSharePicker ==
    ASSUME CallInv, CancelSharePicker PROVE CallInv'
<1>0. Types /\ next' = next
    BY DEF CallInv, CancelSharePicker, wish, media, net, server, counts
<1>1. Streams' = Streams /\ Members' = Members /\ Frames' = Frames
    BY <1>0, SameNext
<1>2. Types'
    BY <1>0, <1>1, CallAssumption DEF Types, CancelSharePicker, wish, media, net, server, counts
<1>3. VoiceIsWanted' /\ OneLink'
    BY <1>0, <1>1, CallAssumption
       DEF CallInv, VoiceIsWanted, OneLink, CancelSharePicker, wish, media, net, server, counts
<1>. QED  BY <1>2, <1>3 DEF CallInv

(* or a source is chosen.                                                  *)
LEMMA SharesSource ==
    ASSUME CallInv, ShareSource PROVE CallInv'
<1>0. Types /\ next' = next
    BY DEF CallInv, ShareSource, wish, media, net, server, counts, Act
<1>1. Streams' = Streams /\ Members' = Members /\ Frames' = Frames
    BY <1>0, SameNext
<1>2. reqs' \in [Conns -> Seq(Requests)]
    BY <1>0, Says, Phrases DEF Types, ShareSource
<1>3. acts' \in 0 .. MaxActs /\ faults' \in 0 .. MaxFaults
    BY <1>0, Counts DEF ShareSource
<1>4. Types'
    BY <1>0, <1>1, <1>2, <1>3, CallAssumption
       DEF Types, ShareSource, wish, media, net, server, counts, Act
<1>5. VoiceIsWanted' /\ OneLink'
    BY <1>0, <1>1, <1>2, <1>3, CallAssumption
       DEF CallInv, VoiceIsWanted, OneLink, ShareSource, wish, media, net, server, counts, Act
<1>. QED  BY <1>4, <1>5 DEF CallInv

(* A share ends, by the user's button                                      *)
LEMMA StopsScreen ==
    ASSUME CallInv, StopScreen PROVE CallInv'
<1>0. Types /\ next' = next
    BY DEF CallInv, StopScreen, wish, media, net, server, counts, Act, EndShare
<1>1. Streams' = Streams /\ Members' = Members /\ Frames' = Frames
    BY <1>0, SameNext
<1>2. reqs' \in [Conns -> Seq(Requests)]
    BY <1>0, Says, Phrases DEF Types, StopScreen, EndShare
<1>3. Types'
    BY <1>0, <1>1, <1>2, CallAssumption
       DEF Types, StopScreen, wish, media, net, server, counts, Act, EndShare
<1>4. VoiceIsWanted' /\ OneLink'
    BY <1>0, <1>1, <1>2, CallAssumption
       DEF CallInv, VoiceIsWanted, OneLink, StopScreen, wish, media, net, server, counts, Act,
           EndShare
<1>. QED  BY <1>3, <1>4 DEF CallInv

(* or by itself.                                                           *)
LEMMA ChecksShare ==
    ASSUME CallInv, CheckShare PROVE CallInv'
<1>0. Types /\ next' = next
    BY DEF CallInv, CheckShare, wish, media, net, server, counts, Act, EndShare
<1>1. Streams' = Streams /\ Members' = Members /\ Frames' = Frames
    BY <1>0, SameNext
<1>2. reqs' \in [Conns -> Seq(Requests)]
    BY <1>0, Says, Phrases DEF Types, CheckShare, EndShare
<1>3. Types'
    BY <1>0, <1>1, <1>2, CallAssumption
       DEF Types, CheckShare, wish, media, net, server, counts, Act, EndShare
<1>4. VoiceIsWanted' /\ OneLink'
    BY <1>0, <1>1, <1>2, CallAssumption
       DEF CallInv, VoiceIsWanted, OneLink, CheckShare, wish, media, net, server, counts, Act,
           EndShare
<1>. QED  BY <1>3, <1>4 DEF CallInv

----------------------------------------------------------------------------
(* What the interface reads.                                               *)

(* A new session builds again what was wanted.                             *)
LEMMA ReadsReady ==
    ASSUME CallInv, ReadReady PROVE CallInv'
<1>0. Types /\ next' = next
    BY DEF CallInv, ReadReady, wish, media, net, server, counts, Wanted, RejoinVoice
<1>1. Streams' = Streams /\ Members' = Members /\ Frames' = Frames
    BY <1>0, SameNext
<1>2. reqs' \in [Conns -> Seq(Requests)]
    BY <1>0, Says, Phrases DEF Types, ReadReady, Wanted, RejoinVoice, Joining
<1>3. inbox' \in Seq(Frames) /\ Frame.t = "ready" /\ Frame.call \in Entries \cup {None}
    BY <1>0, Reads DEF ReadReady, Wanted, RejoinVoice
<1>4. Types'
    BY <1>0, <1>1, <1>2, <1>3, CallAssumption
       DEF Types, ReadReady, wish, media, net, server, counts, Wanted, RejoinVoice
<1>5. VoiceIsWanted' /\ OneLink'
    BY <1>0, <1>1, <1>2, <1>3, CallAssumption
       DEF CallInv, VoiceIsWanted, OneLink, ReadReady, wish, media, net, server, counts,
           Wanted, RejoinVoice
<1>. QED  BY <1>4, <1>5 DEF CallInv

(* A microphone is started for a call that is wanted from then on,         *)
LEMMA StartsVoice ==
    ASSUME CallInv, StartVoice PROVE CallInv'
<1>0. Types /\ next' = next
    BY DEF CallInv, StartVoice, wish, media, net, server, counts
<1>1. Streams' = Streams /\ Members' = Members /\ Frames' = Frames
    BY <1>0, SameNext
<1>2. inbox' \in Seq(Frames) /\ Frame.t = "voice" /\ Frame.c \in Channels /\ Frame.s \in Streams
    BY <1>0, Reads DEF StartVoice
<1>3. Types'
    BY <1>0, <1>1, <1>2, CallAssumption DEF Types, StartVoice, wish, media, net, server, counts
<1>4. VoiceIsWanted' /\ OneLink'
    BY <1>0, <1>1, <1>2, CallAssumption
       DEF CallInv, VoiceIsWanted, OneLink, StartVoice, wish, media, net, server, counts
<1>. QED  BY <1>3, <1>4 DEF CallInv

(* or it is not, and the call is not wanted,                               *)
LEMMA FailsToStartVoice ==
    ASSUME CallInv, StartVoiceFails PROVE CallInv'
<1>0. Types /\ next' = next
    BY DEF CallInv, StartVoiceFails, wish, media, net, server, counts
<1>1. Streams' = Streams /\ Members' = Members /\ Frames' = Frames
    BY <1>0, SameNext
<1>2. reqs' \in [Conns -> Seq(Requests)]
    BY <1>0, Says, Phrases DEF Types, StartVoiceFails, Withdrawal
<1>3. inbox' \in Seq(Frames) /\ Frame.t = "voice" /\ Frame.c \in Channels /\ Frame.s \in Streams
    BY <1>0, Reads DEF StartVoiceFails
<1>4. Types'
    BY <1>0, <1>1, <1>2, <1>3, CallAssumption
       DEF Types, StartVoiceFails, Orphaned, wish, media, net, server, counts
<1>5. VoiceIsWanted' /\ OneLink'
    BY <1>0, <1>1, <1>2, <1>3, CallAssumption
       DEF CallInv, VoiceIsWanted, OneLink, StartVoiceFails, wish, media, net, server, counts
<1>. QED  BY <1>4, <1>5 DEF CallInv

(* or nothing comes of it.                                                 *)
LEMMA CannotStartVoice ==
    ASSUME CallInv, StartVoiceUnresolved PROVE CallInv'
<1>0. Types /\ next' = next
    BY DEF CallInv, StartVoiceUnresolved, wish, media, net, server, counts
<1>1. Streams' = Streams /\ Members' = Members /\ Frames' = Frames
    BY <1>0, SameNext
<1>2. inbox' \in Seq(Frames) /\ Frame.t = "voice" /\ Frame.c \in Channels /\ Frame.s \in Streams
    BY <1>0, Reads DEF StartVoiceUnresolved
<1>3. Types'
    BY <1>0, <1>1, <1>2, CallAssumption
       DEF Types, StartVoiceUnresolved, wish, media, net, server, counts
<1>4. VoiceIsWanted' /\ OneLink'
    BY <1>0, <1>1, <1>2, CallAssumption
       DEF CallInv, VoiceIsWanted, OneLink, StartVoiceUnresolved, wish, media, net, server,
           counts
<1>. QED  BY <1>3, <1>4 DEF CallInv

(* The roster.                                                             *)
LEMMA ReadsState ==
    ASSUME CallInv, ReadState PROVE CallInv'
<1>0. Types /\ next' = next
    BY DEF CallInv, ReadState, wish, media, net, server, counts
<1>1. Streams' = Streams /\ Members' = Members /\ Frames' = Frames
    BY <1>0, SameNext
<1>2. inbox' \in Seq(Frames) /\ Frame.t = "state" /\ Frame.call \in Entries
    BY <1>0, Reads DEF ReadState
<1>3. Types'
    BY <1>0, <1>1, <1>2, CallAssumption DEF Types, ReadState, wish, media, net, server, counts
<1>4. VoiceIsWanted' /\ OneLink'
    BY <1>0, <1>1, <1>2, CallAssumption
       DEF CallInv, VoiceIsWanted, OneLink, ReadState, wish, media, net, server, counts
<1>. QED  BY <1>3, <1>4 DEF CallInv

(* Whoever is put out of a call stops its microphone.                      *)
LEMMA ReadsLeave ==
    ASSUME CallInv, ReadLeave PROVE CallInv'
<1>0. Types /\ next' = next
    BY DEF CallInv, ReadLeave, wish, media, net, server, counts
<1>1. Streams' = Streams /\ Members' = Members /\ Frames' = Frames
    BY <1>0, SameNext
<1>2. inbox' \in Seq(Frames) /\ Frame.t = "leave" /\ Frame.c \in Channels
    BY <1>0, Reads DEF ReadLeave
<1>3. Types'
    BY <1>0, <1>1, <1>2, CallAssumption
       DEF Types, ReadLeave, Orphaned, wish, media, net, server, counts
<1>4. VoiceIsWanted' /\ OneLink'
    BY <1>0, <1>1, <1>2, CallAssumption
       DEF CallInv, VoiceIsWanted, OneLink, ReadLeave, wish, media, net, server, counts
<1>. QED  BY <1>3, <1>4 DEF CallInv

(* A share begins, for the others,                                         *)
LEMMA ReadsStart ==
    ASSUME CallInv, ReadStart PROVE CallInv'
<1>0. Types /\ next' = next
    BY DEF CallInv, ReadStart, wish, media, net, server, counts
<1>1. Streams' = Streams /\ Members' = Members /\ Frames' = Frames
    BY <1>0, SameNext
<1>2. inbox' \in Seq(Frames) /\ Frame.t = "start" /\ Frame.s \in Streams
    BY <1>0, Reads DEF ReadStart
<1>3. mirror' \in Entries \cup {None, Nobody}
    BY <1>0, Shares DEF ReadStart
<1>4. Types'
    BY <1>0, <1>1, <1>2, <1>3, CallAssumption DEF Types, ReadStart, wish, media, net, server, counts
<1>5. VoiceIsWanted' /\ OneLink'
    BY <1>0, <1>1, <1>2, <1>3, CallAssumption
       DEF CallInv, VoiceIsWanted, OneLink, ReadStart, wish, media, net, server, counts
<1>. QED  BY <1>4, <1>5 DEF CallInv

(* with a capture,                                                         *)
LEMMA BeginsCapture ==
    ASSUME CallInv, BeginCapture PROVE CallInv'
<1>0. Types /\ next' = next
    BY DEF CallInv, BeginCapture, wish, media, net, server, counts
<1>1. Streams' = Streams /\ Members' = Members /\ Frames' = Frames
    BY <1>0, SameNext
<1>2. inbox' \in Seq(Frames) /\ Frame.t = "start" /\ Frame.s \in Streams
    BY <1>0, Reads DEF BeginCapture
<1>3. mirror' \in Entries \cup {None, Nobody}
    BY <1>0, Shares DEF BeginCapture
<1>4. Types'
    BY <1>0, <1>1, <1>2, <1>3, CallAssumption
       DEF Types, BeginCapture, wish, media, net, server, counts
<1>5. VoiceIsWanted' /\ OneLink'
    BY <1>0, <1>1, <1>2, <1>3, CallAssumption
       DEF CallInv, VoiceIsWanted, OneLink, BeginCapture, wish, media, net, server, counts
<1>. QED  BY <1>4, <1>5 DEF CallInv

(* or with one that does not start.                                        *)
LEMMA FailsToCapture ==
    ASSUME CallInv, BeginCaptureFails PROVE CallInv'
<1>0. Types /\ next' = next
    BY DEF CallInv, BeginCaptureFails, wish, media, net, server, counts
<1>1. Streams' = Streams /\ Members' = Members /\ Frames' = Frames
    BY <1>0, SameNext
<1>2. reqs' \in [Conns -> Seq(Requests)]
    BY <1>0, Says, Phrases DEF Types, BeginCaptureFails, CaptureFailed
<1>3. inbox' \in Seq(Frames) /\ Frame.t = "start" /\ Frame.s \in Streams
    BY <1>0, Reads DEF BeginCaptureFails
<1>4. mirror' \in Entries \cup {None, Nobody}
    BY <1>0, Shares DEF BeginCaptureFails
<1>5. Types'
    BY <1>0, <1>1, <1>2, <1>3, <1>4, CallAssumption
       DEF Types, BeginCaptureFails, wish, media, net, server, counts
<1>6. VoiceIsWanted' /\ OneLink'
    BY <1>0, <1>1, <1>2, <1>3, <1>4, CallAssumption
       DEF CallInv, VoiceIsWanted, OneLink, BeginCaptureFails, wish, media, net, server, counts
<1>. QED  BY <1>5, <1>6 DEF CallInv

(* It ends.                                                                *)
LEMMA ReadsStop ==
    ASSUME CallInv, ReadStop PROVE CallInv'
<1>0. Types /\ next' = next
    BY DEF CallInv, ReadStop, wish, media, net, server, counts
<1>1. Streams' = Streams /\ Members' = Members /\ Frames' = Frames
    BY <1>0, SameNext
<1>2. inbox' \in Seq(Frames) /\ Frame.t = "stop"
    BY <1>0, Reads DEF ReadStop
<1>3. mirror' \in Entries \cup {None, Nobody}
    BY <1>0, Shares DEF ReadStop
<1>4. Types'
    BY <1>0, <1>1, <1>2, <1>3, CallAssumption DEF Types, ReadStop, wish, media, net, server, counts
<1>5. VoiceIsWanted' /\ OneLink'
    BY <1>0, <1>1, <1>2, <1>3, CallAssumption
       DEF CallInv, VoiceIsWanted, OneLink, ReadStop, wish, media, net, server, counts
<1>. QED  BY <1>4, <1>5 DEF CallInv

(* The connection is lost,                                                 *)
LEMMA ReadsLost ==
    ASSUME CallInv, ReadLost PROVE CallInv'
<1>0. Types /\ next' = next
    BY DEF CallInv, ReadLost, wish, media, net, server, counts
<1>1. Streams' = Streams /\ Members' = Members /\ Frames' = Frames
    BY <1>0, SameNext
<1>2. inbox' \in Seq(Frames) /\ Frame.t = "lost"
    BY <1>0, Reads DEF ReadLost
<1>3. Types'
    BY <1>0, <1>1, <1>2, CallAssumption DEF Types, ReadLost, wish, media, net, server, counts
<1>4. VoiceIsWanted' /\ OneLink'
    BY <1>0, <1>1, <1>2, CallAssumption
       DEF CallInv, VoiceIsWanted, OneLink, ReadLost, wish, media, net, server, counts
<1>. QED  BY <1>3, <1>4 DEF CallInv

(* or given up.                                                            *)
LEMMA ReadsOffline ==
    ASSUME CallInv, ReadOffline PROVE CallInv'
<1>0. Types /\ next' = next
    BY DEF CallInv, ReadOffline, wish, media, net, server, counts
<1>1. Streams' = Streams /\ Members' = Members /\ Frames' = Frames
    BY <1>0, SameNext
<1>2. inbox' \in Seq(Frames) /\ Frame.t = "offline"
    BY <1>0, Reads DEF ReadOffline
<1>3. Types'
    BY <1>0, <1>1, <1>2, CallAssumption DEF Types, ReadOffline, wish, media, net, server, counts
<1>4. VoiceIsWanted' /\ OneLink'
    BY <1>0, <1>1, <1>2, CallAssumption
       DEF CallInv, VoiceIsWanted, OneLink, ReadOffline, wish, media, net, server, counts
<1>. QED  BY <1>3, <1>4 DEF CallInv

(* A silent call is built again.                                           *)
LEMMA HealsVoice ==
    ASSUME CallInv, HealVoice PROVE CallInv'
<1>0. Types /\ next' = next
    BY DEF CallInv, HealVoice, wish, media, net, server, counts, Fault, RejoinVoice
<1>1. Streams' = Streams /\ Members' = Members /\ Frames' = Frames
    BY <1>0, SameNext
<1>2. reqs' \in [Conns -> Seq(Requests)]
    BY <1>0, Says, Phrases DEF Types, HealVoice, RejoinVoice, Joining
<1>3. acts' \in 0 .. MaxActs /\ faults' \in 0 .. MaxFaults
    BY <1>0, Counts DEF HealVoice
<1>4. Types'
    BY <1>0, <1>1, <1>2, <1>3, CallAssumption
       DEF Types, HealVoice, wish, media, net, server, counts, Fault, RejoinVoice
<1>5. VoiceIsWanted' /\ OneLink'
    BY <1>0, <1>1, <1>2, <1>3, CallAssumption
       DEF CallInv, VoiceIsWanted, OneLink, HealVoice, wish, media, net, server, counts, Fault,
           RejoinVoice
<1>. QED  BY <1>4, <1>5 DEF CallInv

----------------------------------------------------------------------------
(* Connections and the server.                                             *)

(* A connection that ends leaves no link behind, and may leave the server  *)
(* with one it takes to be open.                                           *)
LEMMA Ends ==
    ASSUME CallInv, NEW g \in Conns, link = g, NEW why \in {"lost", "offline"},
           NEW delivered \in 0 .. Len(reqs[g]), End(g, why, delivered), UNCHANGED server
    PROVE  /\ reqs' \in [Conns -> Seq(Requests)] /\ inbox' \in Seq(Frames')
           /\ at' \in [Conns -> {"unopened", "dialing", "open", "stale", "closed"}]
           /\ link' = None /\ OneLink'
<1>0. Types /\ OneLink /\ next' = next /\ member' = member
    BY DEF CallInv, server
<1>1. Frames' = Frames
    BY <1>0, SameNext
<1>2. reqs' \in [Conns -> Seq(Requests)]
    <2>1. reqs[g] \in Seq(Requests) /\ reqs \in [Conns -> Seq(Requests)]
        BY <1>0 DEF Types
    <2>2. SubSeq(reqs[g], 1, delivered) \in Seq(Requests)
        BY <2>1, Parts
    <2>. QED  BY <2>1, <2>2 DEF End
<1>3. inbox' \in Seq(Frames)
    <2>1. PICK k \in 0 .. Len(inbox) : inbox' = Append(SubSeq(inbox, 1, k), [t |-> why])
        BY DEF End, Arrived
    <2>2. SubSeq(inbox, 1, k) \in Seq(Frames)
        BY <1>0, Parts DEF Types
    <2>3. [t |-> why] \in Frames
        BY DEF Frames
    <2>. QED  BY <2>1, <2>2, <2>3
<1>4. /\ at' \in [Conns -> {"unopened", "dialing", "open", "stale", "closed"}]
      /\ at'[g] = IF at[g] = "open" THEN "stale" ELSE "closed"
      /\ \A h \in Conns : h # g => at'[h] = at[h]
    BY <1>0 DEF Types, End
<1>5. link' = None /\ None \notin Conns
    BY CallAssumption DEF End, Conns
<1>6. OneLink'
    <2>1. \A h \in Conns : at'[h] \notin {"dialing", "open"}
        BY <1>0, <1>4 DEF OneLink
    <2>2. member' # None => \E h \in Conns : at'[h] \in {"open", "stale"}
        BY <1>0, <1>4 DEF OneLink
    <2>. QED  BY <1>5, <2>1, <2>2 DEF OneLink
<1>. QED  BY <1>1, <1>2, <1>3, <1>4, <1>5, <1>6

(* A connection is lost,                                                   *)
LEMMA Drops ==
    ASSUME CallInv, Drop PROVE CallInv'
<1>0. Types /\ UNCHANGED <<wish, media, mirror, connected, signedIn, server, untold>>
    BY DEF CallInv, Drop
<1>1. Streams' = Streams /\ Members' = Members /\ Frames' = Frames
    BY <1>0, SameNext DEF server
<1>2. acts' \in 0 .. MaxActs /\ faults' \in 0 .. MaxFaults
    BY <1>0, Counts DEF Drop
<1>3. /\ reqs' \in [Conns -> Seq(Requests)] /\ inbox' \in Seq(Frames')
      /\ at' \in [Conns -> {"unopened", "dialing", "open", "stale", "closed"}]
      /\ link' = None /\ OneLink'
    <2>1. link \in Conns
        BY <1>0 DEF Drop, Types
    <2>. QED  BY <1>0, <2>1, Ends DEF Drop
<1>4. Types'
    BY <1>0, <1>1, <1>2, <1>3 DEF Types, wish, media, server
<1>5. VoiceIsWanted'
    BY <1>0 DEF CallInv, VoiceIsWanted, wish, media
<1>. QED  BY <1>3, <1>4, <1>5 DEF CallInv

(* or given up by the user,                                                *)
LEMMA LogsOut ==
    ASSUME CallInv, LogOut PROVE CallInv'
<1>0. Types /\ OneLink /\ UNCHANGED <<wish, media, connected, server, untold>>
    BY DEF CallInv, LogOut
<1>1. Streams' = Streams /\ Members' = Members /\ Frames' = Frames
    BY <1>0, SameNext DEF server
<1>2. acts' \in 0 .. MaxActs /\ faults' \in 0 .. MaxFaults
    BY <1>0, Counts DEF LogOut
<1>3. /\ reqs' \in [Conns -> Seq(Requests)] /\ inbox' \in Seq(Frames)
      /\ at' \in [Conns -> {"unopened", "dialing", "open", "stale", "closed"}]
      /\ link' = None /\ OneLink'
    <2>1. CASE link = None
        <3>1. [t |-> "offline"] \in Frames
            BY DEF Frames
        <3>2. inbox' = Append(inbox, [t |-> "offline"]) /\ UNCHANGED <<link, at, reqs, member>>
            BY <1>0, <2>1 DEF LogOut, server
        <3>. QED  BY <1>0, <2>1, <3>1, <3>2 DEF Types, OneLink
    <2>2. CASE link # None
        <3>1. link \in Conns /\ Len(reqs[link]) \in 0 .. Len(reqs[link])
            BY <1>0, <2>2 DEF Types
        <3>. QED  BY <1>0, <1>1, <2>2, <3>1, Ends DEF LogOut
    <2>. QED  BY <2>1, <2>2
<1>4. Types'
    BY <1>0, <1>1, <1>2, <1>3 DEF Types, LogOut, wish, media, server
<1>5. VoiceIsWanted'
    BY <1>0 DEF CallInv, VoiceIsWanted, wish, media
<1>. QED  BY <1>3, <1>4, <1>5 DEF CallInv

(* A connection is dialed when there is none.                              *)
LEMMA Dials ==
    ASSUME CallInv, link = None, NEW g \in Conns, Dial(g), signedIn', UNCHANGED server
    PROVE  /\ at' \in [Conns -> {"unopened", "dialing", "open", "stale", "closed"}]
           /\ link' = g /\ OneLink'
<1>0. Types /\ OneLink /\ member' = member
    BY DEF CallInv, server
<1>1. /\ at' \in [Conns -> {"unopened", "dialing", "open", "stale", "closed"}] /\ at[g] = "unopened"
      /\ link' = g /\ at'[g] = "dialing" /\ \A h \in Conns : h # g => at'[h] = at[h]
    BY <1>0 DEF Dial, Types
<1>2. None \notin Conns
    BY CallAssumption DEF Conns
<1>. QED  BY <1>0, <1>1, <1>2 DEF OneLink

(* by the network thread                                                   *)
LEMMA Redials ==
    ASSUME CallInv, Redial PROVE CallInv'
<1>0. Types /\ UNCHANGED <<wish, media, mirror, connected, signedIn, reqs, inbox, server, untold, counts>>
    BY DEF CallInv, Redial
<1>1. Streams' = Streams /\ Members' = Members /\ Frames' = Frames
    BY <1>0, SameNext DEF server
<1>2. /\ at' \in [Conns -> {"unopened", "dialing", "open", "stale", "closed"}]
      /\ link' \in Conns /\ OneLink'
    BY <1>0, Dials DEF Redial
<1>3. Types'
    BY <1>0, <1>1, <1>2 DEF Types, wish, media, server, counts
<1>4. VoiceIsWanted'
    BY <1>0 DEF CallInv, VoiceIsWanted, wish, media
<1>. QED  BY <1>2, <1>3, <1>4 DEF CallInv

(* or by the user.                                                         *)
LEMMA LogsIn ==
    ASSUME CallInv, LogIn PROVE CallInv'
<1>0. /\ Types /\ signedIn' /\ signedIn' \in BOOLEAN
      /\ UNCHANGED <<wish, media, mirror, connected, reqs, inbox, server, untold>>
    BY DEF CallInv, LogIn
<1>1. Streams' = Streams /\ Members' = Members /\ Frames' = Frames
    BY <1>0, SameNext DEF server
<1>2. acts' \in 0 .. MaxActs /\ faults' \in 0 .. MaxFaults
    BY <1>0, Counts DEF LogIn
<1>3. /\ at' \in [Conns -> {"unopened", "dialing", "open", "stale", "closed"}]
      /\ link' \in Conns /\ OneLink'
    <2>1. link = None
        BY DEF LogIn, CallInv, OneLink
    <2>. QED  BY <1>0, <2>1, Dials DEF LogIn
<1>4. Types'
    BY <1>0, <1>1, <1>2, <1>3 DEF Types, wish, media, server
<1>5. VoiceIsWanted'
    BY <1>0 DEF CallInv, VoiceIsWanted, wish, media
<1>. QED  BY <1>3, <1>4, <1>5 DEF CallInv

(* The server accepts the connection that is being dialed.                 *)
LEMMA Accepts ==
    ASSUME CallInv, NEW g \in Conns, Accept(g) PROVE CallInv'
<1>0. Types /\ OneLink /\ UNCHANGED <<wish, media, mirror, connected, signedIn, link, reqs, server, untold, counts>>
    BY DEF CallInv, Accept
<1>1. Streams' = Streams /\ Members' = Members /\ Frames' = Frames
    BY <1>0, SameNext DEF server
<1>2. inbox' \in Seq(Frames)
    <2>1. Shown \in Entries \cup {None}
        BY <1>0 DEF Shown, Types, Members, Entries
    <2>2. [t |-> "ready", call |-> Shown] \in Frames
        BY <2>1 DEF Frames
    <2>. QED  BY <1>0, <2>2 DEF Accept, Types
<1>3. /\ at' \in [Conns -> {"unopened", "dialing", "open", "stale", "closed"}]
      /\ at[g] = "dialing" /\ at'[g] = "open" /\ \A h \in Conns : h # g => at'[h] = at[h]
    BY <1>0 DEF Accept, Types
<1>4. Types'
    BY <1>0, <1>1, <1>2, <1>3 DEF Types, wish, media, server, counts
<1>5. OneLink'
    BY <1>0, <1>3 DEF OneLink, server
<1>6. VoiceIsWanted'
    BY <1>0 DEF CallInv, VoiceIsWanted, wish, media
<1>. QED  BY <1>4, <1>5, <1>6 DEF CallInv

(* The last connection takes the membership with it.                       *)
LEMMA EndsStale ==
    ASSUME CallInv, NEW g \in Conns, EndStale(g) PROVE CallInv'
<1>0. /\ Types /\ OneLink /\ next' = next
      /\ UNCHANGED <<wish, media, mirror, connected, signedIn, link, reqs, inbox, untold, counts>>
    BY DEF CallInv, EndStale
<1>1. Streams' = Streams /\ Members' = Members /\ Frames' = Frames
    BY <1>0, SameNext
<1>2. /\ at' \in [Conns -> {"unopened", "dialing", "open", "stale", "closed"}]
      /\ at[g] = "stale" /\ at'[g] = "closed" /\ \A h \in Conns : h # g => at'[h] = at[h]
      /\ member' = IF \E h \in Conns \ {g} : at[h] \in {"open", "stale"} THEN member ELSE None
    BY <1>0 DEF EndStale, Types
<1>3. Types'
    BY <1>0, <1>1, <1>2 DEF Types, wish, media, counts
<1>4. OneLink'
    BY <1>0, <1>2 DEF OneLink
<1>5. VoiceIsWanted'
    BY <1>0 DEF CallInv, VoiceIsWanted, wish, media
<1>. QED  BY <1>3, <1>4, <1>5 DEF CallInv

----------------------------------------------------------------------------
(* What the server answers.                                                *)

(* What it tells is frames.                                                *)
LEMMA Tells ==
    ASSUME inbox \in Seq(Frames), Frames \subseteq Frames', NEW fs \in Seq(Frames'), Tell(fs)
    PROVE  inbox' \in Seq(Frames')
<1>1. inbox \in Seq(Frames')
    OBVIOUS
<1>. QED  BY <1>1 DEF Tell

(* What the server has to tell.                                            *)
LEMMA Forms ==
    ASSUME NEW m \in Members
    PROVE  StateOf(m) \in Frames /\ [t |-> "leave", c |-> m.c] \in Frames
           /\ [t |-> "start", s |-> m.s] \in Frames /\ [t |-> "stop"] \in Frames
BY DEF Members, StateOf, Entries, Frames

(* Whatever a request, the membership and the frames keep their forms.     *)
LEMMA Answers ==
    ASSUME Types, NEW g \in Conns, NEW r,
           r.op = "join" => r.c \in Channels, r.op = "flags" => r.mic \in Mics,
           \/ r.op = "join" /\ Joined(g, r.c)
           \/ r.op = "leave" /\ Left
           \/ r.op = "flags" /\ Flagged(r.mic)
           \/ r.op = "start" /\ Started
           \/ r.op = "stop" /\ Stopped
    PROVE  /\ next' \in Nat \ {0} /\ member' \in Members' \cup {None}
           /\ Streams \subseteq Streams' /\ Members \subseteq Members' /\ Frames \subseteq Frames'
           /\ inbox' \in Seq(Frames')
<1>0. /\ next \in Nat \ {0} /\ member \in Members \cup {None} /\ inbox \in Seq(Frames)
    BY DEF Types
<1>. DEFINE Goal == /\ next' \in Nat \ {0} /\ member' \in Members' \cup {None}
                    /\ Streams \subseteq Streams' /\ Members \subseteq Members'
                    /\ Frames \subseteq Frames' /\ inbox' \in Seq(Frames')
<1>1. ASSUME NEW c \in Channels, Joined(g, c) PROVE Goal
    <2>. DEFINE m == [c |-> c, s |-> next, mic |-> "open", sharing |-> FALSE]
                ready == IF g = link THEN <<[t |-> "voice", c |-> c, s |-> next]>> ELSE <<>>
    <2>1. member' = m /\ next' = next + 1 /\ Tell(LeaveOf(member) \o ready \o <<StateOf(m)>>)
        BY <1>1 DEF Joined
    <2>2. Streams \subseteq Streams' /\ Members \subseteq Members' /\ Frames \subseteq Frames'
        BY <1>0, <2>1, NextGrows
    <2>3. next \in Streams' /\ next' \in Nat \ {0}
        BY <1>0, <2>1 DEF Streams
    <2>4. m \in Members'
        BY <1>1, <2>3 DEF Members, Mics
    <2>5. StateOf(m) \in Frames' /\ [t |-> "voice", c |-> c, s |-> next] \in Frames'
        BY <1>1, <2>3 DEF StateOf, Entries, Frames
    <2>6. LeaveOf(member) \in Seq(Frames')
        <3>1. CASE member = None
            BY <3>1 DEF LeaveOf
        <3>2. CASE member # None
            <4>1. [t |-> "leave", c |-> member.c] \in Frames'
                BY <1>0, <2>2, <3>2, Forms
            <4>. QED  BY <3>2, <4>1 DEF LeaveOf
        <3>. QED  BY <3>1, <3>2
    <2>7. LeaveOf(member) \o ready \o <<StateOf(m)>> \in Seq(Frames')
        BY <2>5, <2>6
    <2>. HIDE DEF m, ready
    <2>. QED  BY <1>0, <2>1, <2>2, <2>3, <2>4, <2>7, Tells
<1>2. ASSUME next' = next, member' \in Members \cup {None},
             \/ inbox' = inbox
             \/ \E fs \in Seq(Frames) : Tell(fs)
      PROVE  Goal
    <2>1. Streams' = Streams /\ Members' = Members /\ Frames' = Frames
        BY <1>2, SameNext
    <2>2. inbox' \in Seq(Frames')
        BY <1>0, <1>2, <2>1, Tells
    <2>. QED  BY <1>0, <1>2, <2>1, <2>2
<1>3. ASSUME Left PROVE Goal
    <2>1. ASSUME member # None PROVE StopOf(member) \o LeaveOf(member) \in Seq(Frames)
        <3>1. [t |-> "leave", c |-> member.c] \in Frames /\ [t |-> "stop"] \in Frames
            BY <1>0, <2>1, Forms
        <3>. QED  BY <2>1, <3>1 DEF StopOf, LeaveOf
    <2>. QED  BY <1>2, <1>3, <2>1 DEF Left
<1>4. ASSUME NEW m \in Members, NEW frame \in Frames, Changed(m, frame) PROVE Goal
    <2>1. <<frame>> \in Seq(Frames)
        OBVIOUS
    <2>. QED  BY <1>2, <1>4, <2>1 DEF Changed
<1>5. ASSUME UNCHANGED <<server, inbox>> PROVE Goal
    BY <1>0, <1>2, <1>5 DEF server
<1>6. ASSUME member \in Members
      PROVE  /\ \A new \in Mics : [member EXCEPT !.mic = new] \in Members
             /\ \A yes \in BOOLEAN : [member EXCEPT !.sharing = yes] \in Members
    BY <1>6 DEF Members
<1>7. ASSUME NEW new \in Mics, Flagged(new) PROVE Goal
    <2>1. CASE member = None
        BY <1>5, <1>7, <2>1 DEF Flagged
    <2>2. CASE member # None
        <3>. DEFINE m == [member EXCEPT !.mic = new]
        <3>1. m \in Members
            BY <1>0, <1>6, <2>2
        <3>2. Changed(m, StateOf(m))
            BY <1>7, <2>2 DEF Flagged
        <3>. HIDE DEF m
        <3>. QED  BY <1>4, <3>1, <3>2, Forms
    <2>. QED  BY <2>1, <2>2
<1>8. ASSUME Started PROVE Goal
    <2>1. CASE member = None
        BY <1>5, <1>8, <2>1 DEF Started
    <2>2. CASE member # None
        <3>1. [member EXCEPT !.sharing = TRUE] \in Members /\ [t |-> "start", s |-> member.s] \in Frames
            BY <1>0, <1>6, <2>2, Forms
        <3>2. Changed([member EXCEPT !.sharing = TRUE], [t |-> "start", s |-> member.s])
            BY <1>8, <2>2 DEF Started
        <3>. QED  BY <1>4, <3>1, <3>2
    <2>. QED  BY <2>1, <2>2
<1>9. ASSUME Stopped PROVE Goal
    <2>1. CASE member = None
        BY <1>5, <1>9, <2>1 DEF Stopped
    <2>2. CASE member # None
        <3>1. [member EXCEPT !.sharing = FALSE] \in Members /\ [t |-> "stop"] \in Frames
            BY <1>0, <1>6, <2>2, Forms
        <3>2. Changed([member EXCEPT !.sharing = FALSE], [t |-> "stop"])
            BY <1>9, <2>2 DEF Stopped
        <3>. QED  BY <1>4, <3>1, <3>2
    <2>. QED  BY <2>1, <2>2
<1>. HIDE DEF Goal
<1>10. Goal
    <2>1. CASE r.op = "join" /\ Joined(g, r.c)
        BY <1>1, <2>1
    <2>2. CASE r.op = "flags" /\ Flagged(r.mic)
        BY <1>7, <2>2
    <2>3. CASE r.op = "leave" /\ Left
        BY <1>3, <2>3
    <2>4. CASE r.op = "start" /\ Started
        BY <1>8, <2>4
    <2>5. CASE r.op = "stop" /\ Stopped
        BY <1>9, <2>5
    <2>. QED  BY <2>1, <2>2, <2>3, <2>4, <2>5
<1>. QED  BY <1>10 DEF Goal

(* So a request served keeps everything.                                   *)
LEMMA Serves ==
    ASSUME CallInv, NEW g \in Conns, Serve(g) PROVE CallInv'
<1>. DEFINE r == Head(reqs[g])
<1>0. /\ Types /\ OneLink /\ at[g] \in {"open", "stale"} /\ reqs[g] # <<>>
      /\ reqs' = [reqs EXCEPT ![g] = Tail(@)]
      /\ UNCHANGED <<wish, media, mirror, connected, net, untold, counts>>
    BY DEF CallInv, Serve
<1>1. /\ Tail(reqs[g]) \in Seq(Requests)
      /\ r.op = "join" => r.c \in Channels
      /\ r.op = "flags" => r.mic \in Mics
    BY <1>0, Asked
<1>2. \/ r.op = "join" /\ Joined(g, r.c)
      \/ r.op = "leave" /\ Left
      \/ r.op = "flags" /\ Flagged(r.mic)
      \/ r.op = "start" /\ Started
      \/ r.op = "stop" /\ Stopped
    BY DEF Serve
<1>. HIDE DEF r
<1>3. /\ next' \in Nat \ {0} /\ member' \in Members' \cup {None}
      /\ Streams \subseteq Streams' /\ inbox' \in Seq(Frames')
    BY <1>0, <1>1, <1>2, Answers
<1>4. reqs' \in [Conns -> Seq(Requests)]
    BY <1>0, <1>1 DEF Types
<1>5. Types'
    BY <1>0, <1>3, <1>4 DEF Types, wish, media, net, counts
<1>6. OneLink'
    BY <1>0 DEF OneLink, net
<1>7. VoiceIsWanted'
    BY <1>0 DEF CallInv, VoiceIsWanted, wish, media
<1>. QED  BY <1>5, <1>6, <1>7 DEF CallInv

----------------------------------------------------------------------------
(* The invariant.                                                          *)

(* CallInv holds at the start,                                             *)
LEMMA CallStart ==
    ASSUME Init PROVE CallInv
<1>1. 1 \in Conns /\ None \notin Conns
    BY CallAssumption DEF Conns
<1>2. Types
    <2>1. reqs \in [Conns -> Seq(Requests)] /\ inbox \in Seq(Frames)
        BY DEF Init
    <2>2. at \in [Conns -> {"unopened", "dialing", "open", "stale", "closed"}]
        BY DEF Init
    <2>3. acts \in 0 .. MaxActs /\ faults \in 0 .. MaxFaults /\ mic \in Mics
        BY CallAssumption DEF Init, Mics
    <2>4. /\ inCall = None /\ voice = None /\ share = None /\ mirror = Nobody /\ member = None
          /\ since = FALSE /\ pending = FALSE /\ picking = FALSE /\ connected = FALSE
          /\ signedIn = TRUE /\ link = 1 /\ untold = {} /\ next = 1
        BY DEF Init
    <2>5. 1 \in Nat \ {0}
        OBVIOUS
    <2>. QED  BY <1>1, <2>1, <2>2, <2>3, <2>4, <2>5 DEF Types
<1>3. OneLink /\ VoiceIsWanted
    BY <1>1 DEF Init, OneLink, VoiceIsWanted
<1>. QED  BY <1>2, <1>3 DEF CallInv

(* and after every step.                                                   *)
LEMMA CallKept ==
    ASSUME CallInv, [Next]_vars PROVE CallInv'
<1>1. CASE User
    <2>1. mic \in Mics /\ {"open", "muted", "deafened"} = Mics
        BY DEF CallInv, Types, Mics
    <2>2. CASE ToggleMute \/ ToggleDeafen
        BY <2>1, <2>2, SetsVoiceFlags DEF ToggleMute, ToggleDeafen
    <2>. QED  BY <1>1, <2>2, JoinsVoice, LeavesVoice, StartsScreen, CancelsSharePicker, SharesSource,
                 StopsScreen, ChecksShare, LogsOut, LogsIn DEF User
<1>2. CASE Interface
    BY <1>2, ReadsReady, StartsVoice, FailsToStartVoice, CannotStartVoice, ReadsState, ReadsLeave,
       ReadsStart, BeginsCapture, FailsToCapture, ReadsStop, ReadsLost, ReadsOffline
       DEF Interface, Starts, Captures
<1>3. CASE HealVoice \/ Drop \/ Redial
    BY <1>3, HealsVoice, Drops, Redials
<1>4. CASE \E g \in Conns : Accept(g) \/ Serve(g) \/ EndStale(g)
    BY <1>4, Accepts, Serves, EndsStale
<1>5. CASE UNCHANGED vars
    <2>1. Streams' = Streams /\ Members' = Members /\ Frames' = Frames
        BY <1>5, SameNext DEF vars, server
    <2>. QED  BY <1>5, <2>1 DEF CallInv, Types, VoiceIsWanted, OneLink, vars, wish, media, net, server, counts
<1>. QED  BY <1>1, <1>2, <1>3, <1>4, <1>5 DEF Next

(* An audio session runs only in a call the client wants, one connection   *)
(* at a time leads anywhere and a membership has one, however connections  *)
(* end and whatever is read in whatever order. (leave_voice, handle_server *)
(* and rejoin_voice in ui/mod.rs, handle_join_voice in session.rs)         *)
THEOREM CallInvariant == Spec => []CallInv
<1>1. Init => CallInv
    BY CallStart
<1>2. CallInv /\ [Next]_vars => CallInv'
    BY CallKept
<1>. QED  BY <1>1, <1>2, PTL DEF Spec

----------------------------------------------------------------------------
(* What client and server agree on, at every moment.                       *)

\* The server serves the client's connection; the client has read that it does.
Open == link # None /\ at[link] = "open"
\* No word that it does is on its way.
Caught == \A i \in DOMAIN inbox : inbox[i].t # "ready"

\* After the k-th frame, and still to come, frames of these types.
NoneAfter(k, types) == \A i \in DOMAIN inbox : i > k => inbox[i].t \notin types
\* Of this connection.
Recent(i) == NoneAfter(i, {"ready"})
Comes(types) == \E i \in DOMAIN inbox : inbox[i].t \in types

\* Something on its way to the server.
Asks(ops) == \E i \in DOMAIN reqs[link] : reqs[link][i].op \in ops

\* A server serves one connection at a time, its first word is "ready",
\* and the first connection brings it once.
Links ==
    /\ at[1] # "unopened"
    /\ \A g \in Conns : at[g] = "unopened" => reqs[g] = <<>>
    /\ Open => \A g \in Conns : at[g] = "stale" => reqs[g] = <<>>
    /\ link = 1 => \A g \in Conns \ {1} : at[g] = "unopened"
    /\ link = 1 /\ ~Open => inbox = <<>> /\ member = None
    /\ link = 1 => \A i \in DOMAIN inbox : i > 1 => inbox[i].t # "ready"
    /\ Open => \A i \in DOMAIN inbox : Marker(inbox[i]) => ~Recent(i)
    /\ Open /\ Caught => Known

\* The last word about the membership is as it is.
Turning == {"voice", "leave", "ready"}
Settles(f) ==
    \/ f.t = "ready"
    \/ f.t = "leave" /\ member = None
    \/ f.t = "voice" /\ member # None /\ f.c = member.c /\ f.s = member.s

\* What was read last, or will be, is the membership as it is.
SessionAgrees ==
    Open =>
        \/ \E k \in DOMAIN inbox : NoneAfter(k, Turning) /\ Settles(inbox[k])
        \/ /\ NoneAfter(0, Turning)
           /\ voice # None => /\ member # None /\ voice = member.s
                              /\ inCall = member.c \/ Asks({"join"})

\* A session begins where the last has ended.
VoiceFollows ==
    Open => \A i \in DOMAIN inbox : inbox[i].t = "voice" /\ Recent(i) =>
        \/ \E j \in DOMAIN inbox :
              /\ j < i /\ inbox[j].t \in {"leave", "ready"}
              /\ \A m \in DOMAIN inbox : j < m /\ m < i => inbox[m].t # "voice"
        \/ voice = None /\ \A j \in DOMAIN inbox : j < i => inbox[j].t # "voice"

\* A share is of the session it began in, ...
StartFollows ==
    Open => \A i \in DOMAIN inbox : inbox[i].t = "start" /\ Recent(i) =>
        \/ \E j \in DOMAIN inbox :
              /\ j < i
              /\ inbox[j].t = "ready" \/ (inbox[j].t = "voice" /\ inbox[j].s = inbox[i].s)
              /\ \A m \in DOMAIN inbox : j < m /\ m < i => inbox[m].t # "voice"
        \/ /\ voice \in {None, inbox[i].s}
           /\ \A j \in DOMAIN inbox : j < i => inbox[j].t # "voice"

\* ... goes on unless something says it does not, ...
StartHolds ==
    Open => \A i \in DOMAIN inbox : inbox[i].t = "start" /\ Recent(i) =>
        \/ ~NoneAfter(i, {"stop", "leave"})
        \/ member # None /\ member.s = inbox[i].s /\ member.sharing

Starting(s) == \E i \in DOMAIN inbox : inbox[i].t = "start" /\ inbox[i].s = s /\ Recent(i)

\* ... and is told of after what says that it does not.
StartLast ==
    Open /\ member # None /\ member.sharing =>
        \A i \in DOMAIN inbox :
            Recent(i) /\ (inbox[i].t = "stop" \/ (inbox[i].t = "start" /\ inbox[i].s # member.s)) =>
                \E j \in DOMAIN inbox : j > i /\ inbox[j].t = "start" /\ inbox[j].s = member.s

\* The membership was asked for on this connection.
Mine ==
    /\ member # None
    /\ \/ Caught /\ voice = member.s
       \/ \E i \in DOMAIN inbox : inbox[i].t = "voice" /\ inbox[i].s = member.s /\ Recent(i)

\* The microphone of that membership is as set, or the setting is on its
\* way.
MicTold == Open /\ Mine /\ "flags" \notin untold => member.mic = mic \/ Asks({"flags"})

\* The last setting on its way is the present one, and every join brings one.
FlagsLast ==
    link # None =>
        /\ "flags" \notin untold =>
              \A i \in DOMAIN reqs[link] :
                 /\ reqs[link][i].op = "flags"
                 /\ \A j \in DOMAIN reqs[link] : j > i => reqs[link][j].op # "flags"
                 => reqs[link][i].mic = mic
        /\ \A i \in DOMAIN reqs[link] :
              reqs[link][i].op = "join" =>
                 i + 1 \in DOMAIN reqs[link] /\ reqs[link][i + 1].op = "flags"

\* A share that is shown captures, will, or is about to be taken back.
ShareTold ==
    Open /\ Mine /\ member.sharing /\ ("share" \notin untold \/ ~Caught) =>
        \/ Caught /\ share = member.s
        \/ Starting(member.s)
        \/ Asks({"stop", "leave", "join"})

\* What captures is shown, unless the end of it is still to be read.
CaptureHeld ==
    Open /\ Caught /\ share # None /\ "capture" \notin untold =>
        /\ share = voice
        /\ Comes({"stop", "leave"}) \/ (member # None /\ member.s = share /\ member.sharing)

\* A capture is of a call that is wanted.
CaptureWanted == share # None /\ "capture" \notin untold => inCall # None

\* A call that is wanted is heard, or about to be.
WantedHeard ==
    Open /\ inCall # None =>
        voice # None \/ "voice" \in untold \/ Comes({"voice", "ready"}) \/ Asks({"join"})

\* Somebody shown in a call hears it, or is about to, or to leave it.
ShownHeard ==
    link = 1 /\ member # None =>
        voice # None \/ "voice" \in untold \/ Comes({"voice"}) \/ Asks({"join", "leave"})

\* The inductive invariant.
Agreed ==
    /\ CallInv
    /\ Links /\ SessionAgrees /\ VoiceFollows
    /\ StartFollows /\ StartHolds /\ StartLast
    /\ MicTold /\ FlagsLast
    /\ ShareTold /\ CaptureHeld /\ CaptureWanted
    /\ WantedHeard /\ ShownHeard

----------------------------------------------------------------------------
(* Queues, as their indices tell.                                          *)

\* The first frame is gone.
Shifted ==
    /\ 1 \in DOMAIN inbox
    /\ \A i \in DOMAIN inbox' : i \in Int /\ i > 0 /\ i + 1 \in DOMAIN inbox /\ inbox'[i] = inbox[i + 1]
    /\ \A i \in DOMAIN inbox :
          i \in Int /\ i > 0 /\ (i > 1 => i - 1 \in DOMAIN inbox' /\ inbox'[i - 1] = inbox[i])

\* Frames of these types have come.
New == DOMAIN inbox' \ DOMAIN inbox
Grown(types) ==
    /\ \A i \in DOMAIN inbox : i \in Int /\ i > 0 /\ i \in DOMAIN inbox' /\ inbox'[i] = inbox[i]
    /\ \A i \in New : i \in Int /\ inbox'[i].t \in types /\ \A j \in DOMAIN inbox : j < i

\* Requests have been added.
Longer ==
    \A i \in DOMAIN reqs[link] : i \in Int /\ i \in DOMAIN reqs'[link] /\ reqs'[link][i] = reqs[link][i]

\* Other connections are not concerned.
Apart == \A g \in Conns : g # link => reqs'[g] = reqs[g]

\* The first request has been served.
Shorter ==
    /\ 1 \in DOMAIN reqs[link]
    /\ \A i \in DOMAIN reqs'[link] :
          i \in Int /\ i > 0 /\ i + 1 \in DOMAIN reqs[link] /\ reqs'[link][i] = reqs[link][i + 1]
    /\ \A i \in DOMAIN reqs[link] :
          i \in Int /\ i > 0
          /\ (i > 1 => i - 1 \in DOMAIN reqs'[link] /\ reqs'[link][i - 1] = reqs[link][i])

(* Without its first, a queue is its others.                               *)
LEMMA TailShifts ==
    ASSUME NEW S, NEW s \in Seq(S), s # <<>>, NEW t, t = Tail(s)
    PROVE  /\ 1 \in DOMAIN s /\ Head(s) = s[1]
           /\ \A i \in DOMAIN t : i \in Int /\ i > 0 /\ i + 1 \in DOMAIN s /\ t[i] = s[i + 1]
           /\ \A i \in DOMAIN s :
                 i \in Int /\ i > 0 /\ (i > 1 => i - 1 \in DOMAIN t /\ t[i - 1] = s[i])
<1>1. /\ Len(s) \in Nat /\ Len(s) # 0 /\ DOMAIN s = 1 .. Len(s) /\ Head(s) = s[1]
      /\ t \in Seq(S) /\ Len(t) = Len(s) - 1 /\ DOMAIN t = 1 .. Len(t)
    BY EmptySeq, HeadTailProperties
<1>2. \A i \in 1 .. Len(t) : t[i] = s[i + 1]
    BY HeadTailProperties
<1>. QED  BY <1>1, <1>2

(* With more at its end, a queue is what it was and then those.            *)
LEMMA ConcatGrows ==
    ASSUME NEW S, NEW s \in Seq(S), NEW e \in Seq(S), NEW t, t = s \o e
    PROVE  /\ \A i \in DOMAIN s : i \in Int /\ i > 0 /\ i \in DOMAIN t /\ t[i] = s[i]
           /\ \A i \in DOMAIN t \ DOMAIN s :
                 /\ i \in Int /\ i - Len(s) \in DOMAIN e /\ t[i] = e[i - Len(s)]
                 /\ \A j \in DOMAIN s : j < i
           /\ \A k \in DOMAIN e :
                 /\ k + Len(s) \in DOMAIN t \ DOMAIN s /\ t[k + Len(s)] = e[k]
<1>1. /\ Len(s) \in Nat /\ DOMAIN s = 1 .. Len(s) /\ Len(e) \in Nat /\ DOMAIN e = 1 .. Len(e)
      /\ t \in Seq(S) /\ Len(t) = Len(s) + Len(e) /\ DOMAIN t = 1 .. Len(t)
    BY ConcatProperties
<1>2. \A i \in 1 .. Len(t) : t[i] = IF i <= Len(s) THEN s[i] ELSE e[i - Len(s)]
    BY ConcatProperties
<1>. QED  BY <1>1, <1>2

(* The frames of a join are what they are however they are put together.   *)
LEMMA Concats ==
    ASSUME NEW S, NEW a \in S, NEW b \in S, NEW c \in S
    PROVE  /\ <<>> \o <<b>> \o <<c>> = <<b, c>>
           /\ <<a>> \o <<b>> \o <<c>> = <<a, b, c>>
<1>1. /\ <<>> \in Seq(S) /\ <<a>> \in Seq(S) /\ <<b>> \in Seq(S) /\ <<c>> \in Seq(S)
      /\ <<a, b>> \in Seq(S) /\ <<b, c>> \in Seq(S) /\ <<a, b, c>> \in Seq(S)
    OBVIOUS
<1>2. <<>> \o <<b>> = <<b>>
    BY <1>1, ConcatEmptySeq
<1>3. ASSUME NEW x \in S, NEW y \in S PROVE <<x>> \o <<y>> = <<x, y>>
    <2>1. /\ <<x>> \in Seq(S) /\ <<y>> \in Seq(S) /\ <<x, y>> \in Seq(S)
          /\ Len(<<x>>) = 1 /\ Len(<<y>>) = 1 /\ Len(<<x, y>>) = 2
        OBVIOUS
    <2>2. /\ <<x>> \o <<y>> \in Seq(S) /\ Len(<<x>> \o <<y>>) = 2
          /\ (<<x>> \o <<y>>)[1] = x /\ (<<x>> \o <<y>>)[2] = y
        BY <2>1, ConcatProperties
    <2>3. \A i \in 1 .. 2 : (<<x>> \o <<y>>)[i] = <<x, y>>[i]
        BY <2>2
    <2>. QED  BY <2>1, <2>2, <2>3, SeqEqual
<1>4. <<a, b>> \o <<c>> = <<a, b, c>>
    <2>1. Len(<<a, b>>) = 2 /\ Len(<<c>>) = 1 /\ Len(<<a, b, c>>) = 3
        OBVIOUS
    <2>2. /\ <<a, b>> \o <<c>> \in Seq(S) /\ Len(<<a, b>> \o <<c>>) = 3
          /\ (<<a, b>> \o <<c>>)[1] = a /\ (<<a, b>> \o <<c>>)[2] = b /\ (<<a, b>> \o <<c>>)[3] = c
        BY <1>1, <2>1, ConcatProperties
    <2>3. \A i \in 1 .. 3 : (<<a, b>> \o <<c>>)[i] = <<a, b, c>>[i]
        BY <2>2
    <2>. QED  BY <1>1, <2>1, <2>2, <2>3, SeqEqual
<1>. QED  BY <1>2, <1>3, <1>4

----------------------------------------------------------------------------
(* What each kind of step does to what the invariant speaks of.            *)

(* The interface has read a frame or an event.                             *)
Passes ==
    /\ inbox[1].t \in {"state", "lost", "offline"}
    /\ UNCHANGED <<voice, inCall, share, untold, reqs>>
    /\ Known /\ inbox[1].t # "offline" => mirror' # Nobody

\* The first frame of a connection,
TakesReady ==
    /\ inbox[1].t = "ready" /\ mirror' # Nobody /\ inCall' = inCall
    /\ \/ /\ inCall # None /\ voice' = None /\ share' = None /\ untold' = {}
          /\ Say(Joining(inCall))
       \/ inCall = None /\ UNCHANGED <<voice, share, untold, reqs>>

\* a session to begin,
TakesVoice ==
    /\ inbox[1].t = "voice" /\ UNCHANGED <<share, mirror>>
    /\ \/ /\ voice' = inbox[1].s /\ inCall' = inbox[1].c /\ voice' # None /\ inCall' # None
          /\ untold' = untold \ {"voice"} /\ reqs' = reqs
       \/ /\ voice' = None /\ inCall' = None /\ untold' = (untold \ {"voice"}) \cup Orphaned
          /\ Say(<<Leave>>)
       \/ UNCHANGED <<voice, inCall, reqs>> /\ untold' = untold \cup {"voice"}

\* a departure,
TakesLeave ==
    /\ inbox[1].t = "leave" /\ UNCHANGED <<share, reqs>>
    /\ \/ /\ Known /\ mirror' # Nobody /\ voice' = None /\ inCall' = None
          /\ untold' = untold \cup Orphaned
       \/ ~Known /\ UNCHANGED <<voice, inCall, untold, mirror>>

\* a share to begin,
TakesStart ==
    /\ inbox[1].t = "start" /\ UNCHANGED <<voice, inCall>> /\ (Known => mirror' # Nobody)
    /\ \/ /\ UNCHANGED <<share, reqs>>
          /\ untold' = IF Known THEN untold \cup {"share"} ELSE untold
       \/ /\ voice # None /\ share' = inbox[1].s /\ untold' = untold \ {"share", "capture"}
          /\ reqs' = reqs
       \/ UNCHANGED <<share, untold>> /\ Say(<<Stop>>)

\* and its end.
TakesStop ==
    /\ inbox[1].t = "stop" /\ UNCHANGED <<voice, inCall, reqs>> /\ (Known => mirror' # Nobody)
    /\ \/ Known /\ share' = None /\ untold' = untold \ {"share", "capture"}
       \/ ~Known /\ UNCHANGED <<share, untold>>

\* Whatever was read, it is gone, and what was said is added.
Event ==
    /\ Shifted /\ (link # None => Longer) /\ Apart /\ UNCHANGED <<member, link, at, mic>>
    /\ Passes \/ TakesReady \/ TakesVoice \/ TakesLeave \/ TakesStart \/ TakesStop

(* What is said is on its way, after everything said before.               *)
LEMMA Said ==
    ASSUME Types, link # None, NEW rs \in Seq(Requests), Say(rs)
    PROVE  /\ Longer
           /\ \A i \in DOMAIN reqs'[link] \ DOMAIN reqs[link] :
                 /\ i \in Int /\ i - Len(reqs[link]) \in DOMAIN rs
                 /\ reqs'[link][i] = rs[i - Len(reqs[link])]
                 /\ \A j \in DOMAIN reqs[link] : j < i
           /\ \A k \in DOMAIN rs :
                 /\ k + Len(reqs[link]) \in DOMAIN reqs'[link] \ DOMAIN reqs[link]
                 /\ reqs'[link][k + Len(reqs[link])] = rs[k]
<1>1. link \in Conns /\ reqs[link] \in Seq(Requests) /\ reqs'[link] = reqs[link] \o rs
    BY DEF Types, Say
<1>. QED  BY <1>1, ConcatGrows DEF Longer

(* Nothing said, nothing changes.                                          *)
LEMMA Unsaid ==
    ASSUME Types, link # None, reqs' = reqs
    PROVE  Longer
<1>1. reqs[link] \in Seq(Requests)
    BY DEF Types
<1>. QED  BY <1>1, LenProperties DEF Longer

(* Every event is read in one of these ways.                               *)
LEMMA Events ==
    ASSUME CallInv, Interface
    PROVE  Event
<1>0. Types /\ inbox \in Seq(Frames)
    BY DEF CallInv, Types
<1>1. /\ inbox # <<>> /\ inbox' = Tail(inbox) /\ UNCHANGED <<member, link, at, mic>>
    BY DEF Interface, Starts, Captures, ReadReady, StartVoice, StartVoiceFails, StartVoiceUnresolved,
           ReadState, ReadLeave, ReadStart, BeginCapture, BeginCaptureFails, ReadStop, ReadLost,
           ReadOffline, Read, wish, net, server
<1>2. Shifted /\ Frame = inbox[1]
    BY <1>0, <1>1, TailShifts DEF Shifted, Frame
<1>3. None \notin Streams /\ None \notin Channels /\ Nobody \notin Entries \cup {None}
    BY <1>0, CallAssumption DEF Streams, Types, Entries
<1>4. reqs' = reqs => (link # None => Longer) /\ Apart
    BY <1>0, Unsaid DEF Apart
<1>5. ASSUME NEW rs \in Seq(Requests), Say(rs) PROVE (link # None => Longer) /\ Apart
    BY <1>0, <1>5, Said DEF Apart, Say, Types
<1>6. CASE ReadReady
    <2>1. Frame.t = "ready" /\ mirror' # Nobody
        BY <1>0, <1>3, <1>6, Reads DEF ReadReady
    <2>2. mic \in Mics /\ inCall \in Channels \cup {None}
        BY <1>0 DEF Types
    <2>3. CASE Wanted
        <3>1. Joining(inCall) \in Seq(Requests)
            BY <2>2, <2>3, Phrases DEF Joining, Wanted
        <3>2. Say(Joining(inCall)) /\ voice' = None /\ share' = None /\ untold' = {}
            BY <1>6, <2>3 DEF ReadReady, RejoinVoice
        <3>. QED  BY <1>1, <1>2, <1>5, <1>6, <2>1, <2>3, <3>1, <3>2
                  DEF ReadReady, Event, TakesReady, Wanted, wish
    <2>4. CASE ~Wanted
        BY <1>1, <1>2, <1>4, <1>6, <2>1, <2>4 DEF ReadReady, Event, TakesReady, Wanted, wish, media
    <2>. QED  BY <2>3, <2>4
<1>7. CASE Starts
    <2>1. Frame.t = "voice" /\ Frame.s # None /\ Frame.c # None
        BY <1>0, <1>3, <1>7, Reads DEF Starts, StartVoice, StartVoiceFails, StartVoiceUnresolved
    <2>2. CASE StartVoice
        BY <1>1, <1>2, <1>4, <2>1, <2>2 DEF StartVoice, Event, TakesVoice
    <2>3. CASE StartVoiceFails
        BY <1>1, <1>2, <1>5, <2>1, <2>3, Phrases DEF StartVoiceFails, Withdrawal, Event, TakesVoice
    <2>4. CASE StartVoiceUnresolved
        BY <1>1, <1>2, <1>4, <2>1, <2>4 DEF StartVoiceUnresolved, Event, TakesVoice, wish, media
    <2>. QED  BY <1>7, <2>2, <2>3, <2>4 DEF Starts
<1>8. CASE ReadLeave
    BY <1>1, <1>2, <1>3, <1>4, <1>8 DEF ReadLeave, Read, Frame, Event, TakesLeave, Known
<1>9. ASSUME NEW yes \in BOOLEAN, Sharing(yes), Known PROVE mirror' # Nobody
    <2>1. CASE mirror = None
        BY <1>9, <2>1 DEF Sharing, Known
    <2>2. CASE mirror # None
        <3>1. mirror \in Entries
            BY <1>0, <1>9, <2>2 DEF Types, Known
        <3>. DEFINE new == [mirror EXCEPT !.sharing = yes]
        <3>2. new \in Entries
            BY <3>1 DEF Entries
        <3>3. mirror' = new
            BY <1>9, <2>2 DEF Sharing
        <3>. QED  BY <1>3, <3>2, <3>3
    <2>. QED  BY <2>1, <2>2
<1>10. CASE Captures
    <2>1. Frame.t = "start" /\ Sharing(TRUE)
        BY <1>10 DEF Captures, ReadStart, BeginCapture, BeginCaptureFails, Read, Frame
    <2>2. CASE ReadStart
        BY <1>1, <1>2, <1>4, <1>9, <2>1, <2>2 DEF ReadStart, Event, TakesStart, wish, media
    <2>3. CASE BeginCapture
        BY <1>1, <1>2, <1>4, <1>9, <2>1, <2>3 DEF BeginCapture, Capturing, Event, TakesStart, wish
    <2>4. CASE BeginCaptureFails
        BY <1>1, <1>2, <1>5, <1>9, <2>1, <2>4, Phrases
        DEF BeginCaptureFails, CaptureFailed, Event, TakesStart, wish, media
    <2>. QED  BY <1>10, <2>2, <2>3, <2>4 DEF Captures
<1>11. CASE ReadStop
    BY <1>1, <1>2, <1>4, <1>9, <1>11 DEF ReadStop, Read, Frame, Event, TakesStop, wish
<1>12. CASE ReadState
    <2>1. Known => mirror' # Nobody
        BY <1>0, <1>3, <1>12, Reads DEF ReadState
    <2>. QED  BY <1>1, <1>2, <1>4, <1>12, <2>1 DEF ReadState, Read, Frame, Event, Passes, wish, media
<1>13. CASE ReadLost \/ ReadOffline
    BY <1>1, <1>2, <1>4, <1>13 DEF ReadLost, ReadOffline, Read, Frame, Event, Passes, Known, wish, media
<1>. QED  BY <1>6, <1>7, <1>8, <1>10, <1>11, <1>12, <1>13 DEF Interface

(* The client has asked for something.                                     *)
Request ==
    /\ UNCHANGED <<inbox, member, link, at, mirror>> /\ (link # None => Longer) /\ Apart
    /\ \/ /\ inCall' # None /\ UNCHANGED <<voice, share, mic>> /\ untold' = untold \ {"flags"}
          /\ \E c \in Channels : Say(Joining(c))
       \/ /\ inCall' = None /\ voice' = None /\ share' = None /\ mic' = mic
          /\ untold' = untold \ {"capture"} /\ Say(<<Leave>>)
       \/ /\ UNCHANGED <<inCall, voice, share>>
          /\ \/ untold' = untold \ {"flags"} /\ mic' \in Mics /\ Say(<<[op |-> "flags", mic |-> mic']>>)
             \/ untold' = untold \cup {"flags"} /\ reqs' = reqs
       \/ UNCHANGED <<inCall, voice, share, mic, untold>> /\ (reqs' = reqs \/ Say(<<Start>>))
       \/ /\ UNCHANGED <<inCall, voice, mic>> /\ share' = None /\ untold' = untold \ {"capture"}
          /\ Say(<<Stop>>)
       \/ /\ inCall' = inCall /\ voice' = None /\ share' = None /\ mic' = mic /\ untold' = {}
          /\ \E c \in Channels : Say(Joining(c))

(* Whatever the user does, and a rejoin for want of media, asks like that. *)
LEMMA Asking ==
    ASSUME CallInv,
           \/ \E c \in Channels : JoinVoice(c)
           \/ LeaveVoice \/ ToggleMute \/ ToggleDeafen \/ StartScreen \/ CancelSharePicker
           \/ ShareSource \/ StopScreen \/ CheckShare \/ HealVoice
    PROVE  Request
<1>0. Types
    BY DEF CallInv
<1>1. UNCHANGED <<inbox, member, link, at, mirror>>
    BY DEF JoinVoice, LeaveVoice, ToggleMute, ToggleDeafen, SetVoiceFlags, StartScreen,
           CancelSharePicker, ShareSource, StopScreen, CheckShare, EndShare, HealVoice, net, server
<1>2. reqs' = reqs => (link # None => Longer) /\ Apart
    BY <1>0, Unsaid DEF Apart
<1>3. ASSUME NEW rs \in Seq(Requests), Say(rs) PROVE (link # None => Longer) /\ Apart
    BY <1>0, <1>3, Said DEF Apart, Say, Types
<1>4. \A c \in Channels : Joining(c) \in Seq(Requests)
    BY <1>0, Phrases DEF Joining, Types
<1>5. ASSUME NEW c \in Channels, JoinVoice(c) PROVE Request
    <2>1. c # None
        BY CallAssumption
    <2>. QED  BY <1>1, <1>3, <1>4, <1>5, <2>1 DEF JoinVoice, Request, media
<1>6. CASE LeaveVoice
    BY <1>1, <1>3, <1>6, Phrases DEF LeaveVoice, Released, Request
<1>7. CASE ToggleMute \/ ToggleDeafen
    <2>1. PICK new \in Mics : SetVoiceFlags(new)
        BY <1>7 DEF ToggleMute, ToggleDeafen, Mics
    <2>2. CASE mirror # None
        BY <1>1, <1>3, <2>1, <2>2, Phrases DEF SetVoiceFlags, Request, media
    <2>3. CASE mirror = None
        BY <1>1, <1>2, <2>1, <2>3 DEF SetVoiceFlags, Request, media
    <2>. QED  BY <2>2, <2>3
<1>8. CASE StartScreen \/ CancelSharePicker
    BY <1>1, <1>2, <1>8 DEF StartScreen, CancelSharePicker, Request, media
<1>9. CASE ShareSource
    BY <1>1, <1>3, <1>9, Phrases DEF ShareSource, Request, media
<1>10. CASE StopScreen \/ CheckShare
    BY <1>1, <1>3, <1>10, Phrases DEF StopScreen, CheckShare, EndShare, Request, wish
<1>11. CASE HealVoice
    <2>1. inCall \in Channels
        BY <1>0, <1>11 DEF HealVoice, Types
    <2>. QED  BY <1>1, <1>3, <1>4, <1>11, <2>1 DEF HealVoice, RejoinVoice, Request, wish
<1>. QED  BY <1>5, <1>6, <1>7, <1>8, <1>9, <1>10, <1>11

(* The server has served a request of the connection the client has.       *)
Same == UNCHANGED <<member, inbox>>
\* The same membership.
Stays == member # None /\ member' # None /\ member'.s = member.s /\ member'.c = member.c

\* A join ends the old membership and tells of the new,
ServesJoin ==
    /\ reqs[link][1].op = "join"
    /\ member' # None /\ member'.mic = "open" /\ ~member'.sharing
    /\ Grown({"leave", "voice", "state"})
    /\ \E v \in New :
          /\ inbox'[v].t = "voice" /\ inbox'[v].c = member'.c /\ inbox'[v].s = member'.s
          /\ \A i \in New : (i < v => inbox'[i].t = "leave") /\ (i > v => inbox'[i].t = "state")
          /\ IF member = None THEN \A i \in New : i >= v ELSE \E i \in New : i < v

\* a leave tells of the share's end and then of the departure,
ServesLeave ==
    /\ reqs[link][1].op = "leave" /\ member' = None
    /\ member # None => Grown({"stop", "leave"})
    /\ member # None => \E k \in New : inbox'[k].t = "leave" /\ \A i \in New : i <= k
    /\ member = None => inbox' = inbox

\* flags tell of themselves,
ServesFlags ==
    /\ reqs[link][1].op = "flags"
    /\ \/ Same /\ member = None
       \/ /\ Stays /\ member'.sharing = member.sharing /\ member'.mic = reqs[link][1].mic
          /\ Grown({"state"})

\* a share of its start
ServesStart ==
    /\ reqs[link][1].op = "start"
    /\ \/ Same /\ member = None
       \/ /\ Stays /\ member'.sharing /\ member'.mic = member.mic
          /\ Grown({"start"}) /\ New # {} /\ \A i \in New : inbox'[i].s = member.s

\* and of its end.
ServesStop ==
    /\ reqs[link][1].op = "stop"
    /\ \/ Same /\ member = None
       \/ /\ Stays /\ ~member'.sharing /\ member'.mic = member.mic
          /\ Grown({"stop"}) /\ New # {}

\* One of these, for the first request.
Service ==
    /\ UNCHANGED <<link, at, inCall, voice, share, mic, mirror, untold>> /\ Shorter
    /\ ServesJoin \/ ServesLeave \/ ServesFlags \/ ServesStart \/ ServesStop

(* What is told comes after everything told before.                        *)
LEMMA Comings ==
    ASSUME Types, Open, NEW S, Frames \subseteq S, NEW fs \in Seq(S), Tell(fs)
    PROVE  /\ \A i \in DOMAIN inbox : i \in Int /\ i > 0 /\ i \in DOMAIN inbox' /\ inbox'[i] = inbox[i]
           /\ \A i \in New :
                 /\ i \in Int /\ i - Len(inbox) \in DOMAIN fs /\ inbox'[i] = fs[i - Len(inbox)]
                 /\ \A j \in DOMAIN inbox : j < i
           /\ \A k \in DOMAIN fs :
                 k + Len(inbox) \in New /\ inbox'[k + Len(inbox)] = fs[k]
<1>1. inbox \in Seq(S)
    BY DEF Types
<1>2. inbox' = inbox \o fs
    BY DEF Tell, Open
<1>. QED  BY <1>1, <1>2, ConcatGrows DEF New

(* What a join sends,                                                      *)
LEMMA JoinsCome ==
    ASSUME Types, Open, NEW c \in Channels, Joined(link, c), reqs[link][1].op = "join"
    PROVE  ServesJoin
<1>. DEFINE m == [c |-> c, s |-> next, mic |-> "open", sharing |-> FALSE]
            v == [t |-> "voice", c |-> c, s |-> next]
            l == [t |-> "leave", c |-> member.c]
            S == Frames \cup {l, v, StateOf(m)}
<1>1. member' = m /\ Tell(LeaveOf(member) \o <<v>> \o <<StateOf(m)>>)
    BY DEF Joined
<1>2. m \in [c : Channels, s : Nat, mic : {"open", "muted", "deafened"}, sharing : BOOLEAN]
    BY DEF Types
<1>3. member' # None /\ member'.mic = "open" /\ ~member'.sharing
    BY <1>1, <1>2, CallAssumption
<1>4. /\ v.t = "voice" /\ v.c = member'.c /\ v.s = member'.s /\ l.t = "leave"
      /\ StateOf(m).t = "state"
    BY <1>1 DEF StateOf
<1>5. /\ v \in S /\ l \in S /\ StateOf(m) \in S /\ Frames \subseteq S
      /\ <<v, StateOf(m)>> \in Seq(S) /\ <<l, v, StateOf(m)>> \in Seq(S)
    OBVIOUS
<1>6. Len(inbox) \in Nat
    BY DEF Types
<1>. HIDE DEF m, v, l, S
<1>7. CASE member = None
    <2>1. Tell(<<v, StateOf(m)>>)
        BY <1>1, <1>5, <1>7, Concats DEF LeaveOf
    <2>2. DOMAIN <<v, StateOf(m)>> = 1 .. 2 /\ <<v, StateOf(m)>>[1] = v /\ <<v, StateOf(m)>>[2] = StateOf(m)
        OBVIOUS
    <2>3. /\ \A i \in DOMAIN inbox : i \in Int /\ i > 0 /\ i \in DOMAIN inbox' /\ inbox'[i] = inbox[i]
          /\ \A i \in New :
                /\ i \in Int /\ i - Len(inbox) \in 1 .. 2
                /\ inbox'[i] = IF i = 1 + Len(inbox) THEN v ELSE StateOf(m)
                /\ \A j \in DOMAIN inbox : j < i
          /\ 1 + Len(inbox) \in New /\ inbox'[1 + Len(inbox)] = v
        <3>1. /\ \A i \in DOMAIN inbox : i \in Int /\ i > 0 /\ i \in DOMAIN inbox' /\ inbox'[i] = inbox[i]
              /\ \A i \in New :
                    /\ i \in Int /\ i - Len(inbox) \in 1 .. 2
                    /\ inbox'[i] = <<v, StateOf(m)>>[i - Len(inbox)]
                    /\ \A j \in DOMAIN inbox : j < i
              /\ \A k \in 1 .. 2 :
                    k + Len(inbox) \in New /\ inbox'[k + Len(inbox)] = <<v, StateOf(m)>>[k]
            BY <1>5, <2>1, <2>2, Comings
        <3>. QED  BY <1>6, <2>2, <3>1
    <2>. QED  BY <1>3, <1>4, <1>6, <1>7, <2>3 DEF ServesJoin, Grown
<1>8. CASE member # None
    <2>1. Tell(<<l, v, StateOf(m)>>)
        BY <1>1, <1>5, <1>8, Concats DEF LeaveOf, l
    <2>2. /\ DOMAIN <<l, v, StateOf(m)>> = 1 .. 3 /\ <<l, v, StateOf(m)>>[1] = l
          /\ <<l, v, StateOf(m)>>[2] = v /\ <<l, v, StateOf(m)>>[3] = StateOf(m)
        OBVIOUS
    <2>3. /\ \A i \in DOMAIN inbox : i \in Int /\ i > 0 /\ i \in DOMAIN inbox' /\ inbox'[i] = inbox[i]
          /\ \A i \in New :
                /\ i \in Int /\ i - Len(inbox) \in 1 .. 3
                /\ inbox'[i] = IF i = 1 + Len(inbox) THEN l
                               ELSE IF i = 2 + Len(inbox) THEN v ELSE StateOf(m)
                /\ \A j \in DOMAIN inbox : j < i
          /\ 1 + Len(inbox) \in New /\ inbox'[1 + Len(inbox)] = l
          /\ 2 + Len(inbox) \in New /\ inbox'[2 + Len(inbox)] = v
        <3>1. /\ \A i \in DOMAIN inbox : i \in Int /\ i > 0 /\ i \in DOMAIN inbox' /\ inbox'[i] = inbox[i]
              /\ \A i \in New :
                    /\ i \in Int /\ i - Len(inbox) \in 1 .. 3
                    /\ inbox'[i] = <<l, v, StateOf(m)>>[i - Len(inbox)]
                    /\ \A j \in DOMAIN inbox : j < i
              /\ \A k \in 1 .. 3 :
                    k + Len(inbox) \in New /\ inbox'[k + Len(inbox)] = <<l, v, StateOf(m)>>[k]
            BY <1>5, <2>1, <2>2, Comings
        <3>. QED  BY <1>6, <2>2, <3>1
    <2>. QED  BY <1>3, <1>4, <1>6, <1>8, <2>3 DEF ServesJoin, Grown
<1>. QED  BY <1>7, <1>8

(* what a leave sends,                                                     *)
LEMMA LeavesCome ==
    ASSUME Types, Open, Left, reqs[link][1].op = "leave"
    PROVE  ServesLeave
<1>1. CASE member = None
    BY <1>1 DEF Left, ServesLeave
<1>2. CASE member # None
    <2>. DEFINE l == [t |-> "leave", c |-> member.c]
                p == [t |-> "stop"]
                S == Frames \cup {l, p}
    <2>1. member' = None /\ Tell(StopOf(member) \o <<l>>)
        BY <1>2 DEF Left, LeaveOf
    <2>2. l.t = "leave" /\ p.t = "stop" /\ Len(inbox) \in Nat
        BY DEF Types
    <2>3. /\ l \in S /\ p \in S /\ Frames \subseteq S
          /\ <<l>> \in Seq(S) /\ <<p, l>> \in Seq(S) /\ StopOf(member) = IF member.sharing THEN <<p>> ELSE <<>>
        BY DEF StopOf
    <2>. HIDE DEF l, p, S
    <2>4. CASE member.sharing
        <3>1. Tell(<<p, l>>)
            <4>1. <<p>> \o <<l>> = <<p, l>>
                BY <2>3, Concats
            <4>. QED  BY <2>1, <2>3, <2>4, <4>1
        <3>2. DOMAIN <<p, l>> = 1 .. 2 /\ <<p, l>>[1] = p /\ <<p, l>>[2] = l
            OBVIOUS
        <3>3. /\ \A i \in DOMAIN inbox : i \in Int /\ i > 0 /\ i \in DOMAIN inbox' /\ inbox'[i] = inbox[i]
              /\ \A i \in New :
                    /\ i \in Int /\ i - Len(inbox) \in 1 .. 2 /\ inbox'[i] = <<p, l>>[i - Len(inbox)]
                    /\ \A j \in DOMAIN inbox : j < i
              /\ \A k \in 1 .. 2 : k + Len(inbox) \in New /\ inbox'[k + Len(inbox)] = <<p, l>>[k]
            BY <2>3, <3>1, <3>2, Comings
        <3>4. \A i \in New : inbox'[i] \in {p, l} /\ i <= 2 + Len(inbox)
            BY <2>2, <3>2, <3>3
        <3>5. 2 + Len(inbox) \in New /\ inbox'[2 + Len(inbox)] = l
            BY <2>2, <3>2, <3>3
        <3>6. Grown({"stop", "leave"})
            BY <2>2, <3>3, <3>4 DEF Grown
        <3>. QED  BY <1>2, <2>1, <2>2, <3>4, <3>5, <3>6 DEF ServesLeave
    <2>5. CASE ~member.sharing
        <3>1. Tell(<<l>>)
            <4>1. <<>> \o <<l>> = <<l>>
                BY <2>3, ConcatEmptySeq
            <4>. QED  BY <2>1, <2>3, <2>5, <4>1
        <3>2. DOMAIN <<l>> = 1 .. 1 /\ <<l>>[1] = l
            OBVIOUS
        <3>3. /\ \A i \in DOMAIN inbox : i \in Int /\ i > 0 /\ i \in DOMAIN inbox' /\ inbox'[i] = inbox[i]
              /\ \A i \in New :
                    /\ i \in Int /\ i - Len(inbox) \in 1 .. 1 /\ inbox'[i] = <<l>>[i - Len(inbox)]
                    /\ \A j \in DOMAIN inbox : j < i
              /\ \A k \in 1 .. 1 : k + Len(inbox) \in New /\ inbox'[k + Len(inbox)] = <<l>>[k]
            BY <2>3, <3>1, <3>2, Comings
        <3>4. \A i \in New : inbox'[i] = l /\ i <= 1 + Len(inbox)
            BY <2>2, <3>2, <3>3
        <3>5. 1 + Len(inbox) \in New /\ inbox'[1 + Len(inbox)] = l
            BY <2>2, <3>2, <3>3
        <3>6. Grown({"stop", "leave"})
            BY <2>2, <3>3, <3>4 DEF Grown
        <3>. QED  BY <1>2, <2>1, <2>2, <3>4, <3>5, <3>6 DEF ServesLeave
    <2>. QED  BY <2>4, <2>5
<1>. QED  BY <1>1, <1>2

(* and what a change of the membership sends.                              *)
LEMMA ChangeComes ==
    ASSUME Types, Open, NEW m, NEW frame, Changed(m, frame)
    PROVE  Grown({frame.t}) /\ New # {} /\ \A i \in New : inbox'[i] = frame
<1>. DEFINE S == Frames \cup {frame}
<1>1. Frames \subseteq S /\ <<frame>> \in Seq(S) /\ Tell(<<frame>>) /\ Len(inbox) \in Nat
    BY DEF Changed, Types
<1>2. DOMAIN <<frame>> = 1 .. 1 /\ <<frame>>[1] = frame
    OBVIOUS
<1>. HIDE DEF S
<1>3. /\ \A i \in DOMAIN inbox : i \in Int /\ i > 0 /\ i \in DOMAIN inbox' /\ inbox'[i] = inbox[i]
      /\ \A i \in New :
            /\ i \in Int /\ i - Len(inbox) \in 1 .. 1 /\ inbox'[i] = <<frame>>[i - Len(inbox)]
            /\ \A j \in DOMAIN inbox : j < i
      /\ \A k \in 1 .. 1 : k + Len(inbox) \in New /\ inbox'[k + Len(inbox)] = <<frame>>[k]
    BY <1>1, <1>2, Comings
<1>4. \A i \in New : inbox'[i] = frame
    BY <1>1, <1>2, <1>3
<1>. QED  BY <1>3, <1>4 DEF Grown

(* A served request is one of the connection the client has: the others    *)
(* have none left.                                                         *)
LEMMA Serving ==
    ASSUME CallInv, Links, Open, NEW g \in Conns, Serve(g)
    PROVE  Service
<1>0. Types /\ OneLink /\ link \in Conns
    BY DEF CallInv, Types, Open
<1>1. /\ at[g] \in {"open", "stale"} /\ reqs[g] # <<>> /\ reqs' = [reqs EXCEPT ![g] = Tail(@)]
      /\ UNCHANGED <<link, at, inCall, voice, share, mic, mirror, untold>>
    BY DEF Serve, wish, media, net
<1>2. g = link
    BY <1>0, <1>1 DEF Links, OneLink
<1>3. reqs[link] \in Seq(Requests) /\ reqs'[link] = Tail(reqs[link])
    BY <1>0, <1>1, <1>2 DEF Types
<1>4. Shorter /\ Head(reqs[link]) = reqs[link][1]
    <2>1. reqs[link] # <<>>
        BY <1>1, <1>2
    <2>. QED  BY <1>3, <2>1, TailShifts DEF Shorter
<1>. DEFINE r == reqs[link][1]
<1>5. /\ r.op = "join" => r.c \in Channels
      /\ r.op = "flags" => r.mic \in Mics
    BY <1>0, <1>1, <1>2, <1>4, Asked
<1>6. \/ r.op = "join" /\ Joined(link, r.c)
      \/ r.op = "leave" /\ Left
      \/ r.op = "flags" /\ Flagged(r.mic)
      \/ r.op = "start" /\ Started
      \/ r.op = "stop" /\ Stopped
    BY <1>2, <1>4 DEF Serve
<1>. HIDE DEF r
<1>7. CASE r.op = "join" /\ Joined(link, r.c)
    BY <1>0, <1>1, <1>4, <1>5, <1>7, JoinsCome DEF Service, r
<1>8. CASE r.op = "leave" /\ Left
    BY <1>0, <1>1, <1>4, <1>8, LeavesCome DEF Service, r
<1>9. member # None =>
        member \in [c : Channels, s : Nat, mic : {"open", "muted", "deafened"}, sharing : BOOLEAN]
    <2>1. Streams \subseteq Nat /\ (member # None => member \in Members)
        BY <1>0 DEF Types, Streams
    <2>. QED  BY <2>1 DEF Members, Mics
<1>10. ASSUME member # None, NEW new \in Mics
       PROVE  LET m == [member EXCEPT !.mic = new]
              IN  m # None /\ m.s = member.s /\ m.c = member.c /\ m.sharing = member.sharing /\ m.mic = new
    <2>. DEFINE m == [member EXCEPT !.mic = new]
    <2>1. m \in [c : Channels, s : Nat, mic : {"open", "muted", "deafened"}, sharing : BOOLEAN]
        BY <1>9, <1>10 DEF Mics
    <2>. QED  BY <1>9, <1>10, <2>1, CallAssumption
<1>11. ASSUME member # None, NEW yes \in BOOLEAN
       PROVE  LET m == [member EXCEPT !.sharing = yes]
              IN  m # None /\ m.s = member.s /\ m.c = member.c /\ m.sharing = yes /\ m.mic = member.mic
    <2>. DEFINE m == [member EXCEPT !.sharing = yes]
    <2>1. m \in [c : Channels, s : Nat, mic : {"open", "muted", "deafened"}, sharing : BOOLEAN]
        BY <1>9, <1>11 DEF Mics
    <2>. QED  BY <1>9, <1>11, <2>1, CallAssumption
<1>12. CASE r.op = "flags" /\ Flagged(r.mic)
    <2>1. CASE member = None
        BY <1>1, <1>4, <1>12, <2>1 DEF Flagged, Service, ServesFlags, Same, server, r
    <2>2. CASE member # None
        <3>. DEFINE m == [member EXCEPT !.mic = r.mic]
        <3>1. Changed(m, StateOf(m))
            BY <1>12, <2>2 DEF Flagged
        <3>2. m # None /\ m.s = member.s /\ m.c = member.c /\ m.sharing = member.sharing /\ m.mic = r.mic
            BY <1>5, <1>10, <1>12, <2>2
        <3>. HIDE DEF m
        <3>3. Grown({"state"})
            <4>1. StateOf(m).t = "state"
                BY DEF StateOf
            <4>. QED  BY <1>0, <3>1, <4>1, ChangeComes
        <3>4. member' = m
            BY <3>1 DEF Changed
        <3>. QED  BY <1>1, <1>4, <1>12, <2>2, <3>2, <3>3, <3>4 DEF Service, ServesFlags, Stays, r
    <2>. QED  BY <2>1, <2>2
<1>13. CASE r.op = "start" /\ Started
    <2>1. CASE member = None
        BY <1>1, <1>4, <1>13, <2>1 DEF Started, Service, ServesStart, Same, server, r
    <2>2. CASE member # None
        <3>. DEFINE m == [member EXCEPT !.sharing = TRUE]
                    f == [t |-> "start", s |-> member.s]
        <3>1. Changed(m, f) /\ f.t = "start" /\ f.s = member.s
            BY <1>13, <2>2 DEF Started
        <3>2. m # None /\ m.s = member.s /\ m.c = member.c /\ m.sharing /\ m.mic = member.mic
            BY <1>11, <2>2
        <3>. HIDE DEF m, f
        <3>3. Grown({"start"}) /\ New # {} /\ \A i \in New : inbox'[i].s = member.s
            BY <1>0, <3>1, ChangeComes
        <3>4. member' = m
            BY <3>1 DEF Changed
        <3>. QED  BY <1>1, <1>4, <1>13, <2>2, <3>2, <3>3, <3>4 DEF Service, ServesStart, Stays, r
    <2>. QED  BY <2>1, <2>2
<1>14. CASE r.op = "stop" /\ Stopped
    <2>1. CASE member = None
        BY <1>1, <1>4, <1>14, <2>1 DEF Stopped, Service, ServesStop, Same, server, r
    <2>2. CASE member # None
        <3>. DEFINE m == [member EXCEPT !.sharing = FALSE]
                    f == [t |-> "stop"]
        <3>1. Changed(m, f) /\ f.t = "stop"
            BY <1>14, <2>2 DEF Stopped
        <3>2. m # None /\ m.s = member.s /\ m.c = member.c /\ ~m.sharing /\ m.mic = member.mic
            BY <1>11, <2>2
        <3>. HIDE DEF m, f
        <3>3. Grown({"stop"}) /\ New # {}
            BY <1>0, <3>1, ChangeComes
        <3>4. member' = m
            BY <3>1 DEF Changed
        <3>. QED  BY <1>1, <1>4, <1>14, <2>2, <3>2, <3>3, <3>4 DEF Service, ServesStop, Stays, r
    <2>. QED  BY <2>1, <2>2
<1>. QED  BY <1>6, <1>7, <1>8, <1>12, <1>13, <1>14

(* A server has accepted the connection.                                   *)
Acceptance ==
    /\ UNCHANGED <<member, link, reqs, inCall, voice, share, mic, untold, mirror>>
    /\ ~Open /\ (inbox = <<>> => New \subseteq {1})
    /\ Grown({"ready"}) /\ New # {} /\ \A i \in New : \A j \in DOMAIN inbox' : j <= i

(* An accepted connection is the one the client dialed.                    *)
LEMMA Accepting ==
    ASSUME CallInv, NEW g \in Conns, Accept(g)
    PROVE  Acceptance /\ g = link
<1>0. Types /\ inbox \in Seq(Frames) /\ OneLink
    BY DEF CallInv, Types
<1>. DEFINE f == [t |-> "ready", call |-> Shown]
            S == Frames \cup {f}
<1>1. inbox \in Seq(S) /\ <<f>> \in Seq(S) /\ inbox' = inbox \o <<f>> /\ f.t = "ready" /\ Len(inbox) \in Nat
    <2>1. inbox \in Seq(S) /\ inbox' = Append(inbox, f)
        BY <1>0 DEF Accept
    <2>. QED  BY <1>0, <2>1
<1>2. DOMAIN <<f>> = 1 .. 1 /\ <<f>>[1] = f
    OBVIOUS
<1>. HIDE DEF f, S
<1>3. /\ \A i \in DOMAIN inbox : i \in Int /\ i > 0 /\ i \in DOMAIN inbox' /\ inbox'[i] = inbox[i]
      /\ \A i \in New :
            /\ i \in Int /\ i - Len(inbox) \in 1 .. 1 /\ inbox'[i] = <<f>>[i - Len(inbox)]
            /\ \A j \in DOMAIN inbox : j < i
      /\ \A k \in 1 .. 1 : k + Len(inbox) \in New /\ inbox'[k + Len(inbox)] = <<f>>[k]
    BY <1>1, <1>2, ConcatGrows DEF New
<1>4. \A i \in New : inbox'[i] = f /\ i = 1 + Len(inbox)
    BY <1>1, <1>2, <1>3
<1>5. New # {} /\ Grown({"ready"})
    BY <1>1, <1>3, <1>4 DEF Grown
<1>6. \A i \in New : \A j \in DOMAIN inbox' : j <= i
    BY <1>3, <1>4 DEF New
<1>7. g = link
    BY <1>0 DEF Accept, OneLink
<1>8. ~Open /\ (inbox = <<>> => New \subseteq {1})
    <2>1. ~Open
        BY <1>7 DEF Accept, Open
    <2>2. inbox = <<>> => Len(inbox) = 0
        BY <1>0, EmptySeq
    <2>. QED  BY <1>1, <1>4, <2>1, <2>2
<1>. QED  BY <1>5, <1>6, <1>7, <1>8 DEF Acceptance, Accept, wish, media, server

(* Nothing, or an old connection has ended, without the membership.       *)
Ended ==
    /\ UNCHANGED <<inbox, member, link, reqs, inCall, voice, share, mic, untold, mirror>>
    /\ at[link] = "open" /\ at'[link] = "open"

(* All that happens to a connection that a server serves.                  *)
LEMMA Steps ==
    ASSUME CallInv, Links, [Next]_vars, Open'
    PROVE  \/ Open /\ Event
           \/ Open /\ Request
           \/ Open /\ Service
           \/ Acceptance
           \/ Open /\ Ended
<1>0. Types /\ OneLink /\ None \notin Conns
    BY CallAssumption DEF CallInv, Conns
<1>1. CASE Interface
    <2>1. Event
        BY <1>1, Events
    <2>. QED  BY <2>1 DEF Open, Event
<1>2. CASE \/ \E c \in Channels : JoinVoice(c)
           \/ LeaveVoice \/ ToggleMute \/ ToggleDeafen \/ StartScreen \/ CancelSharePicker
           \/ ShareSource \/ StopScreen \/ CheckShare \/ HealVoice
    <2>1. Request
        BY <1>2, Asking
    <2>. QED  BY <2>1 DEF Open, Request
<1>3. ~LogOut /\ ~Drop
    <2>1. ASSUME NEW g, NEW why, NEW n, End(g, why, n) PROVE FALSE
        BY <2>1 DEF End, Open
    <2>. QED  BY <2>1 DEF LogOut, Drop, Open
<1>4. ~Redial /\ ~LogIn
    <2>1. ASSUME NEW g \in Conns, Dial(g) PROVE FALSE
        BY <1>0, <2>1 DEF Dial, Open, Types
    <2>. QED  BY <2>1 DEF Redial, LogIn
<1>5. ASSUME NEW g \in Conns, Accept(g) PROVE Acceptance
    BY <1>5, Accepting
<1>6. ASSUME NEW g \in Conns, Serve(g) PROVE Open /\ Service
    <2>1. Open
        BY <1>6 DEF Open, Serve, net
    <2>. QED  BY <1>6, <2>1, Serving
<1>7. ASSUME NEW g \in Conns, EndStale(g) PROVE Open /\ Ended
    <2>1. link \in Conns /\ g # link /\ at[link] = "open" /\ at'[link] = "open"
        BY <1>0, <1>7 DEF EndStale, OneLink, Types, Open
    <2>2. member' = member
        BY <1>7, <2>1 DEF EndStale
    <2>. QED  BY <1>0, <1>7, <2>1, <2>2 DEF EndStale, Open, Ended, wish, media
<1>8. CASE UNCHANGED vars
    BY <1>8 DEF vars, wish, media, net, server, Open, Ended
<1>. QED  BY <1>1, <1>2, <1>3, <1>4, <1>5, <1>6, <1>7, <1>8 DEF Next, User

----------------------------------------------------------------------------
(* Connections.                                                            *)

(* What has come that is not a "ready" takes nothing's place.              *)
LEMMA Unready ==
    ASSUME NEW types, Grown(types), "ready" \notin types
    PROVE  /\ Caught' <=> Caught
           /\ \A i \in DOMAIN inbox : Recent(i)' <=> Recent(i)
           /\ \A i \in New : Recent(i)'
<1>1. \A i \in DOMAIN inbox' : i \in DOMAIN inbox \/ i \in New
    BY DEF New
<1>2. \A i \in New : inbox'[i].t # "ready" /\ i \in Int /\ \A j \in DOMAIN inbox : j < i
    BY DEF Grown
<1>3. \A i \in DOMAIN inbox : i \in Int /\ i \in DOMAIN inbox' /\ inbox'[i] = inbox[i]
    BY DEF Grown
<1>4. Caught' <=> Caught
    BY <1>1, <1>2, <1>3 DEF Caught
<1>5. \A i \in DOMAIN inbox : Recent(i)' <=> Recent(i)
    BY <1>1, <1>2, <1>3 DEF Recent, NoneAfter
<1>6. \A i \in New : Recent(i)'
    BY <1>1, <1>2, <1>3 DEF Recent, NoneAfter
<1>. QED  BY <1>4, <1>5, <1>6

(* Reading on.                                                             *)
LEMMA ReadOn ==
    ASSUME Shifted
    PROVE  /\ \A i \in DOMAIN inbox' : Recent(i)' <=> Recent(i + 1)
           /\ inbox[1].t # "ready" => (Caught' <=> Caught)
           /\ Caught' <=> Recent(1)
<1>1. \A i \in DOMAIN inbox' : Recent(i)' <=> Recent(i + 1)
    BY DEF Shifted, Recent, NoneAfter
<1>2. Caught' <=> Recent(1)
    BY DEF Shifted, Recent, NoneAfter, Caught
<1>3. inbox[1].t # "ready" => (Caught <=> Recent(1))
    BY DEF Shifted, Recent, NoneAfter, Caught
<1>. QED  BY <1>1, <1>2, <1>3

(* The frames that come when a request is served.                          *)
LEMMA ComesServed ==
    ASSUME Service
    PROVE  inbox' = inbox \/ Grown({"leave", "voice", "state", "start", "stop"})
<1>1. ASSUME NEW types \in SUBSET {"leave", "voice", "state", "start", "stop"}, Grown(types)
      PROVE  Grown({"leave", "voice", "state", "start", "stop"})
    BY <1>1 DEF Grown
<1>2. CASE ServesJoin
    BY <1>1, <1>2 DEF ServesJoin
<1>3. CASE ServesLeave
    BY <1>1, <1>3 DEF ServesLeave
<1>4. CASE ServesFlags
    BY <1>1, <1>4 DEF ServesFlags, Same
<1>5. CASE ServesStart
    BY <1>1, <1>5 DEF ServesStart, Same
<1>6. CASE ServesStop
    BY <1>1, <1>6 DEF ServesStop, Same
<1>. QED  BY <1>2, <1>3, <1>4, <1>5, <1>6 DEF Service

\* The parts of Links: where connections are, ...
Dialed ==
    /\ at[1] # "unopened"
    /\ \A g \in Conns : at[g] = "unopened" => reqs[g] = <<>>
    /\ Open => \A g \in Conns : at[g] = "stale" => reqs[g] = <<>>
    /\ link = 1 => \A g \in Conns \ {1} : at[g] = "unopened"

\* ... and what the first ...
First ==
    /\ link = 1 /\ ~Open => inbox = <<>> /\ member = None
    /\ link = 1 => \A i \in DOMAIN inbox : i > 1 => inbox[i].t # "ready"

\* ... and each has brought.
Marked ==
    /\ Open => \A i \in DOMAIN inbox : Marker(inbox[i]) => ~Recent(i)
    /\ Open /\ Caught => Known

(* Links is these three.                                                   *)
LEMMA LinksParts == Links <=> Dialed /\ First /\ Marked
BY DEF Links, Dialed, First, Marked

(* The frames of a connection that has ended precede its successor's.      *)
LEMMA MarkedKept ==
    ASSUME CallInv, Links, [Next]_vars PROVE Marked'
<1>. SUFFICES ASSUME Open' PROVE Marked'
    BY DEF Marked
<1>0. Marked
    BY LinksParts
<1>1. CASE Open /\ Event
    <2>1. Shifted /\ \A i \in DOMAIN inbox : Marker(inbox[i]) => ~Recent(i)
        BY <1>0, <1>1 DEF Event, Marked
    <2>2. \A i \in DOMAIN inbox' : Marker(inbox'[i]) => ~Recent(i)'
        BY <2>1, ReadOn DEF Shifted, Marker
    <2>3. ASSUME Caught' PROVE Known'
        <3>1. 1 \in DOMAIN inbox /\ Recent(1)
            BY <2>1, <2>3, ReadOn DEF Shifted
        <3>2. inbox[1].t \notin {"lost", "offline"}
            BY <2>1, <3>1 DEF Marker
        <3>3. CASE inbox[1].t = "ready"
            BY <1>1, <3>3 DEF Event, Passes, TakesReady, TakesVoice, TakesLeave, TakesStart, TakesStop,
                            Known
        <3>4. CASE inbox[1].t # "ready"
            <4>1. Known
                BY <1>0, <1>1, <2>1, <2>3, <3>4, ReadOn DEF Marked
            <4>. QED  BY <1>1, <3>2, <3>4, <4>1 DEF Event, Passes, TakesReady, TakesVoice, TakesLeave,
                            TakesStart, TakesStop, Known
        <3>. QED  BY <3>3, <3>4
    <2>. QED  BY <2>2, <2>3 DEF Marked, Marker
<1>2. CASE Open /\ Request
    BY <1>0, <1>2 DEF Request, Marked, Marker, Recent, NoneAfter, Caught, Known
<1>3. CASE Open /\ Service
    <2>1. mirror' = mirror
        BY <1>3 DEF Service
    <2>2. CASE inbox' = inbox
        BY <1>0, <1>3, <2>1, <2>2 DEF Marked, Marker, Recent, NoneAfter, Caught, Known
    <2>3. CASE Grown({"leave", "voice", "state", "start", "stop"})
        <3>1. /\ Caught' <=> Caught
              /\ \A i \in DOMAIN inbox : Recent(i)' <=> Recent(i)
            BY <2>3, Unready
        <3>2. \A i \in New : ~Marker(inbox'[i])
            BY <2>3 DEF Grown, Marker
        <3>3. \A i \in DOMAIN inbox' : Marker(inbox'[i]) => ~Recent(i)'
            <4>1. \A i \in DOMAIN inbox : inbox'[i] = inbox[i] /\ (Marker(inbox[i]) => ~Recent(i))
                BY <1>0, <1>3, <2>3 DEF Marked, Grown
            <4>2. ASSUME NEW i \in DOMAIN inbox', Marker(inbox'[i]) PROVE ~Recent(i)'
                <5>1. i \in DOMAIN inbox
                    BY <3>2, <4>2 DEF New
                <5>2. Marker(inbox[i])
                    BY <4>1, <4>2, <5>1
                <5>. QED  BY <3>1, <4>1, <5>1, <5>2
            <4>. QED  BY <4>2
        <3>4. Caught' => Known'
            BY <1>0, <1>3, <2>1, <3>1 DEF Marked, Known
        <3>. QED  BY <3>3, <3>4 DEF Marked, Marker
    <2>. QED  BY <1>3, <2>2, <2>3, ComesServed
<1>4. CASE Acceptance
    <2>1. PICK k \in New : inbox'[k].t = "ready" /\ \A j \in DOMAIN inbox : j < k
        BY <1>4 DEF Acceptance, Grown
    <2>2. \A i \in DOMAIN inbox : ~Recent(i)' /\ inbox'[i] = inbox[i]
        BY <1>4, <2>1 DEF Acceptance, Grown, Recent, NoneAfter, New
    <2>3. ~Caught'
        BY <2>1 DEF Caught, New
    <2>4. \A i \in New : ~Marker(inbox'[i])
        BY <1>4 DEF Acceptance, Grown, Marker
    <2>. QED  BY <2>2, <2>3, <2>4 DEF Marked, Marker, New
<1>5. CASE Open /\ Ended
    BY <1>0, <1>5 DEF Ended, Marked, Marker, Recent, NoneAfter, Caught, Known
<1>. QED  BY <1>1, <1>2, <1>3, <1>4, <1>5, Steps

(* The first connection has nothing to read before it is open.             *)
LEMMA LinkStays ==
    ASSUME CallInv, Links, [Next]_vars, link' = 1
    PROVE  /\ link = 1
           /\ Open => Open'
           /\ ~Open /\ ~Open' => inbox' = inbox /\ member' = member
<1>0. /\ Types /\ OneLink /\ Dialed /\ First /\ 1 \in Conns /\ None # 1
    BY LinksParts, CallAssumption DEF CallInv, Conns
<1>1. CASE Interface
    <2>1. Event
        BY <1>1, Events
    <2>2. link = 1 /\ (Open <=> Open')
        BY <2>1 DEF Event, Open
    <2>3. Open
        BY <1>0, <2>1, <2>2 DEF First, Event, Shifted
    <2>. QED  BY <2>2, <2>3
<1>2. CASE \/ \E c \in Channels : JoinVoice(c)
           \/ LeaveVoice \/ ToggleMute \/ ToggleDeafen \/ StartScreen \/ CancelSharePicker
           \/ ShareSource \/ StopScreen \/ CheckShare \/ HealVoice
    <2>1. Request
        BY <1>2, Asking
    <2>. QED  BY <2>1 DEF Open, Request
<1>3. ~Drop
    BY <1>0 DEF Drop, End
<1>4. ~LogOut
    BY <1>0 DEF LogOut, End
<1>5. ~Redial /\ ~LogIn
    <2>1. ASSUME NEW g \in Conns, Dial(g) PROVE FALSE
        BY <1>0, <2>1 DEF Dial, Dialed
    <2>. QED  BY <2>1 DEF Redial, LogIn
<1>6. ASSUME NEW g \in Conns, Accept(g) PROVE link = 1 /\ ~Open /\ Open'
    <2>1. g = link /\ at'[g] = "open" /\ link' = link /\ at[g] = "dialing"
        BY <1>0, <1>6, Accepting DEF Accept, Types
    <2>. QED  BY <1>0, <2>1 DEF Open
<1>7. ASSUME NEW g \in Conns, Serve(g) PROVE link = 1 /\ Open /\ Open'
    <2>1. link = 1 /\ at' = at /\ at[g] \in {"open", "stale"}
        BY <1>7 DEF Serve, net
    <2>2. g = 1 /\ at[1] = "open"
        BY <1>0, <2>1 DEF Dialed, OneLink
    <2>. QED  BY <1>0, <2>1, <2>2 DEF Open
<1>8. ASSUME NEW g \in Conns, EndStale(g) PROVE FALSE
    <2>1. link = 1 /\ at[g] = "stale"
        BY <1>8 DEF EndStale
    <2>. QED  BY <1>0, <2>1 DEF Dialed, OneLink
<1>9. CASE UNCHANGED vars
    BY <1>9 DEF vars, net, server, Open
<1>. QED  BY <1>1, <1>2, <1>3, <1>4, <1>5, <1>6, <1>7, <1>8, <1>9 DEF Next, User

(* The first connection is told once that it is served.                    *)
LEMMA FirstKept ==
    ASSUME CallInv, Links, [Next]_vars PROVE First'
<1>. SUFFICES ASSUME link' = 1 PROVE First'
    BY DEF First
<1>0. First /\ link = 1 /\ (Open => Open')
    BY LinksParts, LinkStays
<1>1. ~Open' => inbox' = <<>> /\ member' = None
    BY <1>0, LinkStays DEF First
<1>2. \A i \in DOMAIN inbox' : i > 1 => inbox'[i].t # "ready"
    <2>1. CASE ~Open'
        BY <1>1, <2>1
    <2>2. CASE Open /\ Event
        BY <1>0, <2>2 DEF First, Event, Shifted
    <2>3. CASE Open /\ (Request \/ Ended)
        BY <1>0, <2>3 DEF First, Request, Ended
    <2>4. CASE Open /\ Service
        <3>1. CASE inbox' = inbox
            BY <1>0, <3>1 DEF First
        <3>2. CASE Grown({"leave", "voice", "state", "start", "stop"})
            BY <1>0, <3>2 DEF First, Grown, New
        <3>. QED  BY <2>4, <3>1, <3>2, ComesServed
    <2>5. CASE Acceptance
        <3>1. New \subseteq {1} /\ DOMAIN inbox = {}
            BY <1>0, <2>5 DEF Acceptance, First
        <3>. QED  BY <3>1 DEF New
    <2>. QED  BY <1>0, <2>1, <2>2, <2>3, <2>4, <2>5, Steps
<1>. QED  BY <1>1, <1>2 DEF First

(* Connections are used in order, and the old are served before the new.   *)
LEMMA DialedKept ==
    ASSUME CallInv, Links, [Next]_vars PROVE Dialed'
<1>0. /\ Types /\ OneLink /\ Dialed /\ 1 \in Conns /\ None # 1 /\ None \notin Conns
    BY LinksParts, CallAssumption DEF CallInv, Conns
<1>1. ASSUME UNCHANGED <<link, at>>, Apart PROVE Dialed'
    <2>1. Open' <=> Open
        BY <1>1 DEF Open
    <2>2. \A g \in Conns : at[g] \in {"unopened", "stale"} => reqs'[g] = reqs[g]
        BY <1>0, <1>1 DEF Apart, OneLink
    <2>. QED  BY <1>0, <1>1, <2>1, <2>2 DEF Dialed
<1>2. CASE Interface
    <2>1. Event
        BY <1>2, Events
    <2>. QED  BY <1>1, <2>1 DEF Event
<1>3. CASE \/ \E c \in Channels : JoinVoice(c)
           \/ LeaveVoice \/ ToggleMute \/ ToggleDeafen \/ StartScreen \/ CancelSharePicker
           \/ ShareSource \/ StopScreen \/ CheckShare \/ HealVoice
    <2>1. Request
        BY <1>3, Asking
    <2>. QED  BY <1>1, <2>1 DEF Request
<1>4. ASSUME NEW g \in Conns, NEW why, NEW n, End(g, why, n), link = g PROVE Dialed'
    <2>1. link' = None /\ ~Open'
        BY <1>4 DEF End, Open
    <2>2. \A h \in Conns : at'[h] = "unopened" => at[h] = "unopened" /\ reqs'[h] = reqs[h]
        BY <1>0, <1>4 DEF End, Types
    <2>. QED  BY <1>0, <2>1, <2>2 DEF Dialed
<1>5. CASE Drop
    <2>1. link \in Conns
        BY <1>0, <1>5 DEF Drop, Types
    <2>. QED  BY <1>4, <1>5, <2>1 DEF Drop
<1>6. CASE LogOut
    <2>1. CASE link = None
        BY <1>1, <1>6, <2>1 DEF LogOut, Apart
    <2>2. CASE link # None
        <3>1. link \in Conns
            BY <1>0, <2>2 DEF Types
        <3>. QED  BY <1>4, <1>6, <2>2, <3>1 DEF LogOut
    <2>. QED  BY <2>1, <2>2
<1>7. CASE Redial \/ LogIn
    <2>1. PICK g \in Conns : Dial(g)
        BY <1>7 DEF Redial, LogIn
    <2>2. g # 1 /\ link' = g /\ at'[g] = "dialing" /\ \A h \in Conns : h # g => at'[h] = at[h]
        BY <1>0, <2>1 DEF Dial, Dialed, Types
    <2>3. reqs' = reqs
        BY <1>7 DEF Redial, LogIn
    <2>. QED  BY <1>0, <2>2, <2>3 DEF Dialed, Open
<1>8. ASSUME NEW g \in Conns, Accept(g) PROVE Dialed'
    <2>1. /\ at[g] = "dialing" /\ at'[g] = "open" /\ \A h \in Conns : h # g => at'[h] = at[h]
          /\ \A h \in Conns : at[h] = "stale" => reqs[h] = <<>>
          /\ UNCHANGED <<link, reqs>>
        BY <1>0, <1>8 DEF Accept, Types
    <2>2. g = link
        BY <1>0, <1>8, Accepting
    <2>. QED  BY <1>0, <2>1, <2>2 DEF Dialed
<1>9. ASSUME NEW g \in Conns, Serve(g) PROVE Dialed'
    <2>1. /\ UNCHANGED <<link, at>> /\ at[g] \in {"open", "stale"} /\ reqs[g] # <<>>
          /\ \A h \in Conns : h # g => reqs'[h] = reqs[h]
        BY <1>0, <1>9 DEF Serve, net, Types
    <2>2. Open' <=> Open
        BY <2>1 DEF Open
    <2>3. Open => at[g] # "stale"
        BY <1>0, <2>1 DEF Dialed
    <2>. QED  BY <1>0, <2>1, <2>2, <2>3 DEF Dialed
<1>10. ASSUME NEW g \in Conns, EndStale(g) PROVE Dialed'
    <2>1. /\ at[g] = "stale" /\ at'[g] = "closed" /\ \A h \in Conns : h # g => at'[h] = at[h]
          /\ UNCHANGED <<link, reqs>>
        BY <1>0, <1>10 DEF EndStale, Types
    <2>2. link # g /\ (Open' <=> Open)
        BY <1>0, <2>1 DEF OneLink, Open, Types
    <2>. QED  BY <1>0, <2>1, <2>2 DEF Dialed
<1>11. CASE UNCHANGED vars
    BY <1>1, <1>11 DEF vars, net, Apart
<1>. QED  BY <1>2, <1>3, <1>5, <1>6, <1>7, <1>8, <1>9, <1>10, <1>11 DEF Next, User

(* Links holds after every step.                                           *)
LEMMA LinksKept ==
    ASSUME CallInv, Links, [Next]_vars PROVE Links'
BY DialedKept, FirstKept, MarkedKept DEF Links, Dialed, First, Marked

----------------------------------------------------------------------------
(* Which session is heard.                                                 *)

\* The last word about the membership is the k-th frame, ...
Word(k) == k \in DOMAIN inbox /\ NoneAfter(k, Turning) /\ Settles(inbox[k])

\* ... or has been read.
Heard ==
    /\ NoneAfter(0, Turning)
    /\ voice # None => /\ member # None /\ voice = member.s
                       /\ inCall = member.c \/ Asks({"join"})

(* The word about the membership has been read or is to be.                *)
LEMMA SessionParts == SessionAgrees <=> (Open => Heard \/ \E k \in DOMAIN inbox : Word(k))
BY DEF SessionAgrees, Heard, Word

(* What is on its way stays on its way when more is said,                  *)
LEMMA AsksOn ==
    ASSUME Longer, link' = link, NEW ops, Asks(ops) PROVE Asks(ops)'
BY DEF Asks, Longer

(* as what is said is,                                                     *)
LEMMA AskedNow ==
    ASSUME Types, link # None, link' = link, NEW rs \in Seq(Requests), Say(rs),
           NEW ops, NEW k \in DOMAIN rs, rs[k].op \in ops
    PROVE  Asks(ops)'
BY Said DEF Asks

\* A session begins where the last has ended: after that, ...
Clears(j, i) ==
    /\ j < i /\ inbox[j].t \in {"leave", "ready"}
    /\ \A m \in DOMAIN inbox : j < m /\ m < i => inbox[m].t # "voice"

\* ... or at once.
Free(i) == voice = None /\ \A j \in DOMAIN inbox : j < i => inbox[j].t # "voice"

(* A session begins after an end, or free.                                 *)
LEMMA FollowsParts ==
    VoiceFollows <=>
        (Open => \A i \in DOMAIN inbox : inbox[i].t = "voice" /\ Recent(i) =>
                    Free(i) \/ \E j \in DOMAIN inbox : Clears(j, i))
BY DEF VoiceFollows, Free, Clears

(* What the first frame does to the session.                               *)
LEMMA FirstFrame ==
    ASSUME CallInv, Links, Open, Event
    PROVE  /\ inbox[1].t = "ready" => voice' = None
           /\ inbox[1].t = "leave" /\ Caught => voice' = None
           /\ inbox[1].t # "voice" => voice' \in {voice, None}
           /\ inbox[1].t \notin Turning => voice' = voice /\ inCall' = inCall
           /\ inbox[1].t = "voice" =>
                 \/ voice' = inbox[1].s /\ inCall' = inbox[1].c
                 \/ voice' = None
                 \/ voice' = voice
<1>1. Caught => Known
    BY DEF Links
<1>2. inCall = None => voice = None
    BY DEF CallInv, VoiceIsWanted
<1>. QED  BY <1>1, <1>2 DEF Event, Passes, TakesReady, TakesVoice, TakesLeave, TakesStart, TakesStop, Turning

(* The last word is still the last when a frame is read,                   *)
LEMMA WordRead ==
    ASSUME CallInv, Links, SessionAgrees, VoiceFollows, Open, Event, Open'
    PROVE  Heard' \/ \E k \in DOMAIN inbox' : Word(k)'
<1>0. Shifted /\ member' = member /\ Longer /\ link' = link
    BY DEF Event, Open
<1>1. CASE Heard
    <2>1. NoneAfter(0, Turning)' /\ inbox[1].t \notin Turning
        BY <1>0, <1>1 DEF Heard, NoneAfter, Shifted, Turning
    <2>2. voice' = voice /\ inCall' = inCall
        BY <2>1, FirstFrame
    <2>. QED  BY <1>0, <1>1, <2>1, <2>2, AsksOn DEF Heard
<1>2. ASSUME NEW k \in DOMAIN inbox, Word(k), k > 1
      PROVE  \E j \in DOMAIN inbox' : Word(j)'
    <2>1. k - 1 \in DOMAIN inbox' /\ inbox'[k - 1] = inbox[k]
        BY <1>0, <1>2 DEF Shifted
    <2>2. NoneAfter(k - 1, Turning)'
        BY <1>0, <1>2 DEF Word, NoneAfter, Shifted, Turning
    <2>3. Settles(inbox[k - 1])'
        BY <1>0, <1>2, <2>1 DEF Word, Settles
    <2>. QED  BY <2>1, <2>2, <2>3 DEF Word
<1>3. ASSUME Word(1) PROVE Heard'
    <2>1. NoneAfter(0, Turning)'
        BY <1>0, <1>3 DEF Word, NoneAfter, Shifted, Turning
    <2>2. inbox[1].t # "ready" => Caught
        BY <1>0, <1>3 DEF Word, NoneAfter, Shifted, Turning, Caught
    <2>3. CASE inbox[1].t \in {"ready", "leave"}
        BY <2>1, <2>2, <2>3, FirstFrame DEF Heard
    <2>4. CASE inbox[1].t \notin {"ready", "leave"}
        <3>1. inbox[1].t = "voice" /\ member # None /\ inbox[1].c = member.c /\ inbox[1].s = member.s
            BY <1>3, <2>4 DEF Word, Settles
        <3>2. Recent(1) /\ 1 \in DOMAIN inbox
            BY <1>0, <1>3 DEF Word, NoneAfter, Recent, Turning, Shifted
        <3>3. voice = None
            <4>1. \A j \in DOMAIN inbox : ~Clears(j, 1)
                BY <1>0 DEF Clears, Shifted
            <4>. QED  BY <3>1, <3>2, <4>1, FollowsParts DEF Free
        <3>. QED  BY <1>0, <2>1, <3>1, <3>3, FirstFrame DEF Heard
    <2>. QED  BY <2>3, <2>4
<1>4. \A k \in DOMAIN inbox : k = 1 \/ k > 1
    BY <1>0 DEF Shifted
<1>. QED  BY <1>1, <1>2, <1>3, <1>4, SessionParts

(* when something is asked for,                                            *)
LEMMA WordAsked ==
    ASSUME CallInv, SessionAgrees, Open, Request, Open'
    PROVE  Heard' \/ \E k \in DOMAIN inbox' : Word(k)'
<1>0. Types /\ link # None /\ UNCHANGED <<inbox, member, link>> /\ Longer
    BY DEF CallInv, Request, Open
<1>1. ASSUME NEW k \in DOMAIN inbox, Word(k) PROVE Word(k)'
    BY <1>0, <1>1 DEF Word, NoneAfter, Settles
<1>2. CASE Heard
    <2>1. NoneAfter(0, Turning)'
        BY <1>0, <1>2 DEF Heard, NoneAfter
    <2>2. ASSUME NEW c \in Channels, Say(Joining(c)) PROVE Asks({"join"})'
        <3>1. /\ Joining(c) \in Seq(Requests)
              /\ 1 \in DOMAIN Joining(c) /\ Joining(c)[1].op = "join"
            BY <1>0, Phrases DEF Joining, Types
        <3>. QED  BY <1>0, <2>2, <3>1, AskedNow
    <2>3. voice' = None \/ (voice' = voice /\ (inCall' = inCall \/ Asks({"join"})'))
        BY <2>2 DEF Request
    <2>. QED  BY <1>0, <1>2, <2>1, <2>3, AsksOn DEF Heard
<1>. QED  BY <1>0, <1>1, <1>2, SessionParts

(* and when something else is served.                                      *)
LEMMA AskedStill ==
    ASSUME Shorter, link' = link, NEW ops, Asks(ops), reqs[link][1].op \notin ops PROVE Asks(ops)'
<1>1. PICK i \in DOMAIN reqs[link] : reqs[link][i].op \in ops
    BY DEF Asks
<1>2. i # 1
    BY <1>1
<1>3. i - 1 \in DOMAIN reqs'[link] /\ reqs'[link][i - 1] = reqs[link][i]
    BY <1>1, <1>2 DEF Shorter
<1>. QED  BY <1>1, <1>3 DEF Asks

(* and it is a new one when something is served.                           *)
LEMMA WordServed ==
    ASSUME CallInv, SessionAgrees, Open, Service, Open'
    PROVE  Heard' \/ \E k \in DOMAIN inbox' : Word(k)'
<1>0. UNCHANGED <<link, inCall, voice>> /\ Shorter
    BY DEF Service
<1>1. CASE ServesJoin
    <2>1. PICK v \in New :
              /\ inbox'[v].t = "voice" /\ inbox'[v].c = member'.c /\ inbox'[v].s = member'.s
              /\ \A i \in New : i > v => inbox'[i].t = "state"
        BY <1>1 DEF ServesJoin
    <2>2. member' # None /\ Grown({"leave", "voice", "state"})
        BY <1>1 DEF ServesJoin
    <2>3. NoneAfter(v, Turning)'
        BY <2>1, <2>2 DEF NoneAfter, Turning, Grown, New
    <2>. QED  BY <2>1, <2>2, <2>3 DEF Word, Settles, New
<1>2. CASE ServesLeave /\ member # None
    <2>1. PICK k \in New : inbox'[k].t = "leave" /\ \A i \in New : i <= k
        BY <1>2 DEF ServesLeave
    <2>2. member' = None /\ Grown({"stop", "leave"})
        BY <1>2 DEF ServesLeave
    <2>3. NoneAfter(k, Turning)'
        <3>1. \A i \in DOMAIN inbox' : i \in Int /\ i <= k
            BY <2>1, <2>2 DEF Grown, New
        <3>2. k \in Int
            BY <2>1, <2>2 DEF Grown
        <3>. QED  BY <3>1, <3>2 DEF NoneAfter
    <2>. QED  BY <2>1, <2>2, <2>3 DEF Word, Settles, New
<1>3. CASE member = None /\ Same
    <2>1. CASE Heard
        BY <1>0, <1>3, <2>1 DEF Heard, Same, NoneAfter
    <2>2. ASSUME NEW k \in DOMAIN inbox, Word(k) PROVE Word(k)'
        BY <1>3, <2>2 DEF Word, NoneAfter, Settles, Same
    <2>. QED  BY <1>3, <2>1, <2>2, SessionParts DEF Same
<1>4. CASE Stays /\ Grown({"state", "start", "stop"}) /\ reqs[link][1].op # "join"
    <2>1. ASSUME NEW k, NoneAfter(k, Turning) PROVE NoneAfter(k, Turning)'
        BY <1>4, <2>1 DEF NoneAfter, Grown, New, Turning
    <2>2. CASE Heard
        <3>1. Asks({"join"}) => Asks({"join"})'
            BY <1>0, <1>4, AskedStill
        <3>. QED  BY <1>0, <1>4, <2>1, <2>2, <3>1 DEF Heard, Stays
    <2>3. ASSUME NEW k \in DOMAIN inbox, Word(k) PROVE Word(k)' /\ k \in DOMAIN inbox'
        BY <1>4, <2>1, <2>3 DEF Word, Settles, Stays, Grown
    <2>. QED  BY <2>2, <2>3, SessionParts
<1>5. ASSUME NEW types \in SUBSET {"state", "start", "stop"}, Grown(types)
      PROVE  Grown({"state", "start", "stop"})
    BY <1>5 DEF Grown
<1>6. CASE ServesLeave /\ member = None
    BY <1>3, <1>6 DEF ServesLeave, Same
<1>7. CASE ServesFlags \/ ServesStart \/ ServesStop
    BY <1>3, <1>4, <1>5, <1>7 DEF ServesFlags, ServesStart, ServesStop
<1>. QED  BY <1>1, <1>2, <1>6, <1>7 DEF Service

(* Client and server agree on the session after every step,                *)
LEMMA SessionAgreesKept ==
    ASSUME CallInv, Links, SessionAgrees, VoiceFollows, [Next]_vars PROVE SessionAgrees'
<1>. SUFFICES ASSUME Open' PROVE Heard' \/ \E k \in DOMAIN inbox' : Word(k)'
    BY SessionParts DEF SessionAgrees, Heard, Word
<1>1. CASE Acceptance
    <2>1. PICK k \in New : inbox'[k].t = "ready" /\ k \in Int /\ \A j \in DOMAIN inbox' : j <= k
        BY <1>1 DEF Acceptance, Grown
    <2>2. \A j \in DOMAIN inbox' : j \in Int
        BY <1>1 DEF Acceptance, Grown, New
    <2>. QED  BY <2>1, <2>2 DEF Word, NoneAfter, Settles, New
<1>2. CASE Open /\ Ended
    BY <1>2, SessionParts DEF Ended, Heard, Word, NoneAfter, Settles, Asks
<1>. QED  BY <1>1, <1>2, WordRead, WordAsked, WordServed, Steps

(* A session begins where the last has ended.                              *)
LEMMA VoiceFollowsKept ==
    ASSUME CallInv, Links, SessionAgrees, VoiceFollows, [Next]_vars PROVE VoiceFollows'
<1>. DEFINE Right(i) == Free(i) \/ \E j \in DOMAIN inbox : Clears(j, i)
<1>. SUFFICES ASSUME Open', NEW i \in DOMAIN inbox', inbox'[i].t = "voice", Recent(i)'
              PROVE  Right(i)'
    BY DEF VoiceFollows, Free, Clears
<1>1. CASE Open /\ Event
    <2>0. /\ Shifted /\ i \in Int /\ i > 0 /\ i + 1 \in DOMAIN inbox /\ 1 \in DOMAIN inbox
          /\ inbox'[i] = inbox[i + 1] /\ Recent(i + 1)
        BY <1>1, ReadOn DEF Event, Shifted
    <2>1. Right(i + 1)
        BY <1>1, <2>0, FollowsParts
    <2>2. CASE Free(i + 1)
        <3>1. inbox[1].t # "voice" /\ voice' = None
            BY <1>1, <2>0, <2>2, FirstFrame DEF Free
        <3>. QED  BY <2>0, <2>2, <3>1 DEF Free, Shifted
    <2>3. ASSUME NEW j \in DOMAIN inbox, Clears(j, i + 1), j > 1 PROVE Right(i)'
        <3>1. j - 1 \in DOMAIN inbox' /\ inbox'[j - 1] = inbox[j]
            BY <2>0, <2>3 DEF Shifted
        <3>2. Clears(j - 1, i)'
            BY <2>0, <2>3, <3>1 DEF Clears, Shifted
        <3>. QED  BY <3>1, <3>2
    <2>4. ASSUME Clears(1, i + 1) PROVE Right(i)'
        <3>1. \A m \in DOMAIN inbox' : m < i => inbox'[m].t # "voice"
            BY <2>0, <2>4 DEF Clears, Shifted
        <3>2. CASE voice' = None
            BY <3>1, <3>2 DEF Free
        <3>3. CASE voice' # None
            <4>1. inbox[1].t = "leave" /\ ~Caught
                BY <1>1, <2>4, <3>3, FirstFrame DEF Clears
            <4>2. PICK p \in DOMAIN inbox : inbox[p].t = "ready"
                BY <4>1 DEF Caught
            <4>3. p > 1 /\ p <= i + 1 /\ p # i + 1
                BY <2>0, <4>1, <4>2 DEF Shifted, Recent, NoneAfter
            <4>4. p - 1 \in DOMAIN inbox' /\ inbox'[p - 1] = inbox[p] /\ p - 1 < i
                BY <2>0, <4>2, <4>3 DEF Shifted
            <4>. QED  BY <3>1, <4>2, <4>4 DEF Clears
        <3>. QED  BY <3>2, <3>3
    <2>5. \A j \in DOMAIN inbox : j = 1 \/ j > 1
        BY <2>0 DEF Shifted
    <2>. QED  BY <2>1, <2>2, <2>3, <2>4, <2>5
<1>2. CASE Open /\ Request
    <2>1. inbox' = inbox /\ voice' \in {voice, None}
        BY <1>2 DEF Request
    <2>2. Recent(i)
        BY <2>1 DEF Recent, NoneAfter
    <2>3. Right(i)
        BY <1>2, <2>1, <2>2, FollowsParts
    <2>. QED  BY <2>1, <2>3 DEF Free, Clears
<1>3. CASE Open /\ Service
    <2>0. voice' = voice
        BY <1>3 DEF Service
    <2>1. ASSUME i \in DOMAIN inbox PROVE Right(i)'
        <3>1. CASE inbox' = inbox
            <4>1. Recent(i) /\ inbox[i].t = "voice"
                BY <3>1 DEF Recent, NoneAfter
            <4>. QED  BY <1>3, <2>0, <2>1, <3>1, <4>1, FollowsParts DEF Free, Clears
        <3>2. CASE Grown({"leave", "voice", "state", "start", "stop"})
            <4>1. Recent(i) /\ inbox[i].t = "voice"
                BY <2>1, <3>2, Unready DEF Grown
            <4>2. \A j \in New : ~(j < i)
                BY <2>1, <3>2 DEF Grown
            <4>3. Right(i)
                BY <1>3, <2>1, <4>1, FollowsParts
            <4>. QED  BY <2>0, <2>1, <3>2, <4>2, <4>3 DEF Free, Clears, Grown, New
        <3>. QED  BY <1>3, <3>1, <3>2, ComesServed
    <2>2. ASSUME i \in New PROVE Right(i)'
        <3>1. ServesJoin
            <4>1. i \in New
                BY <2>2
            <4>. QED  BY <1>3, <4>1 DEF Service, ServesLeave, ServesFlags, ServesStart, ServesStop, Same, Grown, New
        <3>2. PICK v \in New :
                  /\ \A k \in New : (k < v => inbox'[k].t = "leave") /\ (k > v => inbox'[k].t = "state")
                  /\ IF member = None THEN \A k \in New : k >= v ELSE \E k \in New : k < v
            BY <3>1 DEF ServesJoin
        <3>3. Grown({"leave", "voice", "state"}) /\ i = v
            BY <2>2, <3>1, <3>2 DEF ServesJoin, Grown
        <3>4. \A j \in DOMAIN inbox : j \in Int /\ j > 0 /\ j < i /\ j \in DOMAIN inbox' /\ inbox'[j] = inbox[j]
            BY <2>2, <3>3 DEF Grown
        <3>5. \A j \in DOMAIN inbox' : j \in DOMAIN inbox \/ j \in New
            BY DEF New
        <3>6. CASE member # None
            <4>1. PICK k \in New : k < v /\ inbox'[k].t = "leave"
                BY <3>2, <3>6
            <4>2. Clears(k, i)'
                BY <3>2, <3>3, <3>5, <4>1 DEF Clears, Grown
            <4>. QED  BY <4>1, <4>2 DEF New
        <3>7. CASE member = None
            <4>1. \A j \in DOMAIN inbox' : j < i => j \in DOMAIN inbox
                BY <3>2, <3>3, <3>5, <3>7 DEF Grown
            <4>2. CASE Heard
                <5>1. voice' = None /\ \A j \in DOMAIN inbox : inbox[j].t # "voice"
                    BY <2>0, <3>4, <3>7, <4>2 DEF Heard, NoneAfter, Turning
                <5>. QED  BY <3>4, <4>1, <5>1 DEF Free
            <4>3. ASSUME NEW k \in DOMAIN inbox, Word(k) PROVE Right(i)'
                <5>1. inbox'[k].t \in {"leave", "ready"}
                    BY <3>4, <3>7, <4>3 DEF Word, Settles
                <5>2. Clears(k, i)'
                    BY <3>4, <4>1, <4>3, <5>1 DEF Clears, Word, NoneAfter, Turning
                <5>. QED  BY <3>4, <5>2
            <4>. QED  BY <1>3, <4>2, <4>3, SessionParts
        <3>. QED  BY <3>6, <3>7
    <2>. QED  BY <2>1, <2>2 DEF New
<1>4. CASE Acceptance
    <2>1. PICK k \in New : inbox'[k].t = "ready" /\ \A j \in DOMAIN inbox' : j <= k
        BY <1>4 DEF Acceptance, Grown
    <2>. QED  BY <1>4, <2>1 DEF Acceptance, Grown, Recent, NoneAfter, New
<1>5. CASE Open /\ Ended
    BY <1>5, FollowsParts DEF Ended, Free, Clears, Recent, NoneAfter
<1>. QED  BY <1>1, <1>2, <1>3, <1>4, <1>5, Steps

----------------------------------------------------------------------------
(* A call that is wanted.                                                  *)

(* What is to come stays to come when something else is read,              *)
LEMMA ComesOn ==
    ASSUME Shifted, NEW types, Comes(types), inbox[1].t \notin types PROVE Comes(types)'
<1>1. PICK i \in DOMAIN inbox : inbox[i].t \in types
    BY DEF Comes
<1>2. i - 1 \in DOMAIN inbox' /\ inbox'[i - 1] = inbox[i]
    BY <1>1 DEF Shifted
<1>. QED  BY <1>1, <1>2 DEF Comes

(* when more is told,                                                      *)
LEMMA ComesStill ==
    ASSUME NEW new, Grown(new), NEW types, Comes(types) PROVE Comes(types)'
BY DEF Comes, Grown

(* and when anything is served.                                            *)
LEMMA ServedComes ==
    ASSUME Service, NEW types, Comes(types) PROVE Comes(types)'
BY ComesStill, ComesServed DEF Comes

(* The client's words.                                                     *)
LEMMA JoiningSays ==
    ASSUME Types, NEW c \in Channels
    PROVE  /\ Joining(c) \in Seq(Requests) /\ DOMAIN Joining(c) = {1, 2}
           /\ Joining(c)[1].op = "join" /\ Joining(c)[2].op = "flags"
<1>1. Joining(c) \in Seq(Requests)
    BY Phrases DEF Joining, Types
<1>. QED  BY <1>1 DEF Joining

(* Having said something, the client asks for it.                          *)
LEMMA Words ==
    ASSUME Types, link # None, link' = link
    PROVE  /\ \A c \in Channels : Say(Joining(c)) => Asks({"join"})' /\ Asks({"flags"})'
                                                     /\ Asks({"stop", "leave", "join"})'
                                                     /\ Asks({"join", "leave"})'
           /\ Say(<<Leave>>) => Asks({"join", "leave"})' /\ Asks({"stop", "leave", "join"})'
           /\ Say(<<Stop>>) => Asks({"stop", "leave", "join"})'
           /\ \A m \in Mics : Say(<<[op |-> "flags", mic |-> m]>>) => Asks({"flags"})'
<1>1. ASSUME NEW c \in Channels, Say(Joining(c))
      PROVE  /\ Asks({"join"})' /\ Asks({"flags"})'
             /\ Asks({"stop", "leave", "join"})' /\ Asks({"join", "leave"})'
    BY <1>1, JoiningSays, AskedNow
<1>2. ASSUME NEW r, <<r>> \in Seq(Requests), Say(<<r>>), NEW ops, r.op \in ops PROVE Asks(ops)'
    <2>1. 1 \in DOMAIN <<r>> /\ <<r>>[1] = r
        OBVIOUS
    <2>. QED  BY <1>2, <2>1, AskedNow
<1>3. Leave.op = "leave" /\ Stop.op = "stop"
    BY DEF Leave, Stop
<1>. QED  BY <1>1, <1>2, <1>3, Phrases

(* A call that is wanted is still heard or about to be. A rejoin asks for  *)
(* it before its session ends.                                             *)
LEMMA WantedHeardKept ==
    ASSUME CallInv, Links, WantedHeard, [Next]_vars PROVE WantedHeard'
<1>. DEFINE Goal == voice # None \/ "voice" \in untold \/ Comes({"voice", "ready"}) \/ Asks({"join"})
<1>. SUFFICES ASSUME Open', inCall' # None PROVE Goal'
    BY DEF WantedHeard
<1>0. Types /\ (Open => link # None)
    BY DEF CallInv, Open
<1>1. CASE Open /\ Event
    <2>0. Shifted /\ Longer /\ link' = link /\ link # None
        BY <1>1 DEF Event, Open
    <2>1. Asks({"join"}) => Asks({"join"})'
        BY <2>0, AsksOn
    <2>2. inbox[1].t \notin {"voice", "ready"} /\ Comes({"voice", "ready"}) => Comes({"voice", "ready"})'
        BY <2>0, ComesOn
    <2>3. CASE TakesReady
        <3>1. inCall \in Channels
            BY <1>0, <2>3 DEF Types, TakesReady
        <3>. QED  BY <1>0, <2>0, <2>3, <3>1, Words DEF TakesReady
    <2>4. CASE TakesVoice
        BY <2>4 DEF TakesVoice
    <2>5. CASE TakesLeave
        BY <1>1, <2>1, <2>2, <2>5 DEF TakesLeave, WantedHeard
    <2>6. CASE Passes \/ TakesStart \/ TakesStop
        BY <1>1, <2>1, <2>2, <2>6 DEF Passes, TakesStart, TakesStop, WantedHeard
    <2>. QED  BY <1>1, <2>3, <2>4, <2>5, <2>6 DEF Event
<1>2. CASE Open /\ Request
    <2>0. inbox' = inbox /\ Longer /\ link' = link /\ link # None
        BY <1>2 DEF Request, Open
    <2>1. Asks({"join"}) => Asks({"join"})'
        BY <2>0, AsksOn
    <2>2. Comes({"voice", "ready"}) => Comes({"voice", "ready"})'
        BY <2>0 DEF Comes
    <2>3. \A c \in Channels : Say(Joining(c)) => Asks({"join"})'
        BY <1>0, <2>0, Words
    <2>4. \/ inCall' = None \/ Asks({"join"})'
          \/ UNCHANGED <<inCall, voice>> /\ ("voice" \in untold => "voice" \in untold')
        BY <1>2, <2>3 DEF Request
    <2>. QED  BY <1>2, <2>1, <2>2, <2>4 DEF WantedHeard
<1>3. CASE Open /\ Service
    <2>1. UNCHANGED <<link, voice, inCall, untold>> /\ Shorter
        BY <1>3 DEF Service
    <2>2. Comes({"voice", "ready"}) => Comes({"voice", "ready"})'
        BY <1>3, ServedComes
    <2>3. CASE reqs[link][1].op # "join"
        BY <1>3, <2>1, <2>2, <2>3, AskedStill DEF WantedHeard
    <2>4. CASE reqs[link][1].op = "join"
        <3>1. ServesJoin
            BY <1>3, <2>4 DEF Service, ServesLeave, ServesFlags, ServesStart, ServesStop
        <3>. QED  BY <3>1 DEF ServesJoin, Comes, New
    <2>. QED  BY <2>3, <2>4
<1>4. CASE Acceptance
    BY <1>4 DEF Acceptance, Grown, Comes, New
<1>5. CASE Open /\ Ended
    BY <1>5 DEF Ended, WantedHeard, Comes, Asks
<1>. QED  BY <1>1, <1>2, <1>3, <1>4, <1>5, Steps

(* On the first connection, who is shown in a call still hears it.         *)
LEMMA ShownHeardKept ==
    ASSUME CallInv, Links, SessionAgrees, ShownHeard, [Next]_vars PROVE ShownHeard'
<1>. DEFINE Goal == voice # None \/ "voice" \in untold \/ Comes({"voice"}) \/ Asks({"join", "leave"})
<1>. SUFFICES ASSUME link' = 1, member' # None PROVE Goal'
    BY DEF ShownHeard
<1>0. /\ Types /\ link = 1 /\ link # None /\ (Open => Open')
      /\ member # None => Open
      /\ \A i \in DOMAIN inbox : i > 1 => inbox[i].t # "ready"
    BY LinkStays, CallAssumption DEF CallInv, Links
<1>1. Open'
    BY <1>0, LinkStays
<1>2. CASE Open /\ Event
    <2>0. Shifted /\ Longer /\ link' = link /\ member' = member
        BY <1>2 DEF Event, Open
    <2>1. Asks({"join", "leave"}) => Asks({"join", "leave"})'
        BY <2>0, AsksOn
    <2>2. inbox[1].t # "voice" /\ Comes({"voice"}) => Comes({"voice"})'
        BY <2>0, ComesOn
    <2>3. CASE TakesReady
        <3>1. inCall \in Channels \cup {None}
            BY <1>0 DEF Types
        <3>2. CASE inCall # None
            BY <1>0, <2>0, <2>3, <3>1, <3>2, Words DEF TakesReady
        <3>3. CASE inCall = None
            BY <1>0, <2>0, <2>1, <2>2, <2>3, <3>3 DEF TakesReady, ShownHeard
        <3>. QED  BY <3>2, <3>3
    <2>4. CASE TakesVoice
        BY <1>0, <2>0, <2>4, Words DEF TakesVoice
    <2>5. CASE TakesLeave
        <3>1. Caught
            BY <1>0, <2>0, <2>5 DEF Caught, TakesLeave, Shifted
        <3>2. 1 \in DOMAIN inbox /\ inbox[1].t = "leave" /\ \A i \in DOMAIN inbox : i = 1 \/ i > 1
            BY <2>0, <2>5 DEF TakesLeave, Shifted
        <3>3. ~Heard
            BY <3>2 DEF Heard, NoneAfter, Turning
        <3>4. PICK k \in DOMAIN inbox : Word(k)
            BY <1>2, <3>3, SessionParts
        <3>5. inbox[k].t = "voice"
            BY <2>0, <3>1, <3>4 DEF Word, Settles, Caught
        <3>. QED  BY <2>0, <2>2, <3>2, <3>5 DEF Comes
    <2>6. CASE Passes \/ TakesStart \/ TakesStop
        BY <1>0, <2>0, <2>1, <2>2, <2>6 DEF Passes, TakesStart, TakesStop, ShownHeard
    <2>. QED  BY <1>2, <2>3, <2>4, <2>5, <2>6 DEF Event
<1>3. CASE Open /\ Request
    <2>0. inbox' = inbox /\ Longer /\ link' = link /\ member' = member
        BY <1>3 DEF Request, Open
    <2>1. Asks({"join", "leave"}) => Asks({"join", "leave"})'
        BY <2>0, AsksOn
    <2>2. Comes({"voice"}) => Comes({"voice"})'
        BY <2>0 DEF Comes
    <2>3. /\ \A c \in Channels : Say(Joining(c)) => Asks({"join", "leave"})'
          /\ Say(<<Leave>>) => Asks({"join", "leave"})'
        BY <1>0, <2>0, Words
    <2>4. \/ Asks({"join", "leave"})'
          \/ voice' = voice /\ ("voice" \in untold => "voice" \in untold')
        BY <1>3, <2>3 DEF Request
    <2>. QED  BY <1>0, <2>0, <2>1, <2>2, <2>4 DEF ShownHeard
<1>4. CASE Open /\ Service
    <2>1. UNCHANGED <<link, voice, inCall, untold>> /\ Shorter
        BY <1>4 DEF Service
    <2>2. Comes({"voice"}) => Comes({"voice"})'
        BY <1>4, ServedComes
    <2>3. CASE ServesFlags \/ ServesStart \/ ServesStop
        <3>1. member # None /\ reqs[link][1].op \notin {"join", "leave"}
            BY <2>3 DEF ServesFlags, ServesStart, ServesStop, Same, Stays
        <3>. QED  BY <1>0, <2>1, <2>2, <3>1, AskedStill DEF ShownHeard
    <2>4. CASE ServesJoin
        BY <2>4 DEF ServesJoin, Comes, New
    <2>. QED  BY <1>4, <2>3, <2>4 DEF Service, ServesLeave
<1>5. CASE Acceptance
    BY <1>0, <1>5 DEF Acceptance
<1>6. CASE Open /\ Ended
    BY <1>0, <1>6 DEF Ended, ShownHeard, Comes, Asks
<1>. QED  BY <1>1, <1>2, <1>3, <1>4, <1>5, <1>6, Steps

----------------------------------------------------------------------------
(* What is shown of the microphone.                                        *)

\* The last setting on its way is the present one, ...
LastTold ==
    \A i \in DOMAIN reqs[link] :
        /\ reqs[link][i].op = "flags"
        /\ \A j \in DOMAIN reqs[link] : j > i => reqs[link][j].op # "flags"
        => reqs[link][i].mic = mic

\* ... and a join brings one.
Paired ==
    \A i \in DOMAIN reqs[link] :
        reqs[link][i].op = "join" => i + 1 \in DOMAIN reqs[link] /\ reqs[link][i + 1].op = "flags"

(* The last setting told is the present one, and a join brings one.        *)
LEMMA FlagsParts == FlagsLast <=> (link # None => ("flags" \notin untold => LastTold) /\ Paired)
BY DEF FlagsLast, LastTold, Paired

(* That is so when something is said,                                      *)
LEMMA FlagsSaid ==
    ASSUME Types, FlagsLast, link # None, link' = link,
           \/ /\ mic' = mic /\ ("flags" \in untold => "flags" \in untold')
              /\ \/ reqs' = reqs
                 \/ Say(<<Leave>>) \/ Say(<<Start>>) \/ Say(<<Stop>>)
           \/ reqs' = reqs /\ "flags" \in untold'
           \/ mic' = mic /\ \E c \in Channels : Say(Joining(c))
           \/ mic' \in Mics /\ Say(<<[op |-> "flags", mic |-> mic']>>)
    PROVE  FlagsLast'
<1>. DEFINE q == reqs[link]
            p == reqs'[link]
            n == Len(reqs[link])
<1>0. Paired /\ ("flags" \notin untold => LastTold) /\ n \in Nat
    BY FlagsParts DEF Types
<1>. HIDE DEF n
<1>1. ASSUME reqs' = reqs,
             \/ mic' = mic /\ ("flags" \in untold => "flags" \in untold')
             \/ "flags" \in untold'
      PROVE  FlagsLast'
    BY <1>0, <1>1 DEF FlagsLast, LastTold, Paired
<1>2. ASSUME NEW r, <<r>> \in Seq(Requests), Say(<<r>>)
      PROVE  /\ \A i \in DOMAIN q : i \in Int /\ i \in DOMAIN p /\ p[i] = q[i]
             /\ \A i \in DOMAIN p \ DOMAIN q : i \in Int /\ p[i] = r /\ \A j \in DOMAIN q : j < i
             /\ n + 1 \in DOMAIN p \ DOMAIN q
             /\ \A i \in DOMAIN p \ DOMAIN q : i = n + 1
    <2>1. DOMAIN <<r>> = 1 .. 1 /\ <<r>>[1] = r
        OBVIOUS
    <2>2. /\ \A i \in DOMAIN q : i \in Int /\ i \in DOMAIN p /\ p[i] = q[i]
          /\ \A i \in DOMAIN p \ DOMAIN q :
                i \in Int /\ i - n \in 1 .. 1 /\ p[i] = <<r>>[i - n] /\ \A j \in DOMAIN q : j < i
          /\ \A k \in 1 .. 1 : k + n \in DOMAIN p \ DOMAIN q
        BY <1>2, <2>1, Said DEF Longer, n
    <2>3. \A i \in DOMAIN p \ DOMAIN q : i = n + 1 /\ p[i] = r
        BY <1>0, <2>1, <2>2
    <2>. QED  BY <1>0, <2>2, <2>3
<1>3. ASSUME NEW r, <<r>> \in Seq(Requests), Say(<<r>>), r.op \notin {"join", "flags"}, mic' = mic,
             "flags" \in untold => "flags" \in untold'
      PROVE  FlagsLast'
    <2>1. /\ \A i \in DOMAIN q : i \in Int /\ i \in DOMAIN p /\ p[i] = q[i]
          /\ \A i \in DOMAIN p \ DOMAIN q : p[i].op \notin {"join", "flags"}
        BY <1>2, <1>3
    <2>2. Paired'
        BY <1>0, <2>1 DEF Paired
    <2>3. LastTold => LastTold'
        BY <1>3, <2>1 DEF LastTold
    <2>. QED  BY <1>0, <1>3, <2>2, <2>3, FlagsParts DEF FlagsLast, LastTold, Paired
<1>4. ASSUME NEW m \in Mics, Say(<<[op |-> "flags", mic |-> m]>>), mic' = m
      PROVE  FlagsLast'
    <2>. DEFINE r == [op |-> "flags", mic |-> m]
    <2>1. r.op = "flags" /\ r.mic = m /\ <<r>> \in Seq(Requests) /\ Say(<<r>>)
        BY <1>4, Phrases
    <2>. HIDE DEF r
    <2>2. /\ \A i \in DOMAIN q : i \in Int /\ i \in DOMAIN p /\ p[i] = q[i]
          /\ \A i \in DOMAIN p \ DOMAIN q : p[i].op = "flags" /\ p[i].mic = mic'
          /\ n + 1 \in DOMAIN p \ DOMAIN q /\ \A j \in DOMAIN q : j < n + 1
        BY <1>2, <1>4, <2>1
    <2>3. Paired'
        BY <1>0, <2>2 DEF Paired
    <2>4. LastTold'
        BY <2>2 DEF LastTold
    <2>. QED  BY <2>3, <2>4 DEF FlagsLast, LastTold, Paired
<1>5. ASSUME NEW c \in Channels, Say(Joining(c)), mic' = mic PROVE FlagsLast'
    <2>1. /\ Joining(c) \in Seq(Requests) /\ DOMAIN Joining(c) = {1, 2}
          /\ Joining(c)[1].op = "join" /\ Joining(c)[2].op = "flags" /\ Joining(c)[2].mic = mic
        BY JoiningSays DEF Joining
    <2>2. /\ \A i \in DOMAIN q : i \in Int /\ i \in DOMAIN p /\ p[i] = q[i]
          /\ \A i \in DOMAIN p \ DOMAIN q :
                /\ i \in Int /\ i - n \in {1, 2} /\ p[i] = Joining(c)[i - n]
                /\ \A j \in DOMAIN q : j < i
          /\ 1 + n \in DOMAIN p \ DOMAIN q /\ p[1 + n] = Joining(c)[1]
          /\ 2 + n \in DOMAIN p \ DOMAIN q /\ p[2 + n] = Joining(c)[2]
        <3>1. /\ \A i \in DOMAIN q : i \in Int /\ i \in DOMAIN p /\ p[i] = q[i]
              /\ \A i \in DOMAIN p \ DOMAIN q :
                    /\ i \in Int /\ i - n \in DOMAIN Joining(c) /\ p[i] = Joining(c)[i - n]
                    /\ \A j \in DOMAIN q : j < i
              /\ \A k \in DOMAIN Joining(c) :
                    k + n \in DOMAIN p \ DOMAIN q /\ p[k + n] = Joining(c)[k]
            BY <1>5, <2>1, Said DEF Longer, n
        <3>. QED  BY <2>1, <3>1
    <2>3. \A i \in DOMAIN p \ DOMAIN q : i = 1 + n \/ i = 2 + n
        BY <1>0, <2>2
    <2>4. Paired'
        <3>1. 1 + n + 1 = 2 + n
            BY <1>0
        <3>2. ASSUME NEW i \in DOMAIN p, p[i].op = "join"
              PROVE  i + 1 \in DOMAIN p /\ p[i + 1].op = "flags"
            <4>1. CASE i \in DOMAIN q
                BY <1>0, <2>2, <3>2, <4>1 DEF Paired
            <4>2. CASE i \notin DOMAIN q
                BY <2>1, <2>2, <2>3, <3>1, <3>2, <4>2
            <4>. QED  BY <4>1, <4>2
        <3>. QED  BY <3>2 DEF Paired
    <2>5. LastTold'
        BY <1>0, <1>5, <2>1, <2>2, <2>3 DEF LastTold
    <2>. QED  BY <2>4, <2>5 DEF FlagsLast, LastTold, Paired
<1>6. Leave.op = "leave" /\ Start.op = "start" /\ Stop.op = "stop"
    BY DEF Leave, Start, Stop
<1>7. ASSUME Say(<<Leave>>) \/ Say(<<Start>>) \/ Say(<<Stop>>), mic' = mic,
             "flags" \in untold => "flags" \in untold'
      PROVE  FlagsLast'
    BY <1>3, <1>6, <1>7, Phrases
<1>. QED  BY <1>1, <1>4, <1>5, <1>7

(* and after every step.                                                   *)
LEMMA FlagsLastKept ==
    ASSUME CallInv, Links, FlagsLast, [Next]_vars PROVE FlagsLast'
<1>. SUFFICES ASSUME link' # None PROVE FlagsLast'
    BY DEF FlagsLast
<1>0. Types /\ OneLink /\ Dialed
    BY LinksParts DEF CallInv
<1>1. ASSUME UNCHANGED <<link, mic, untold>>, link # None => reqs'[link] = reqs[link] PROVE FlagsLast'
    BY <1>1 DEF FlagsLast
<1>2. CASE Interface
    <2>1. Event /\ link # None
        BY <1>2, Events DEF Event
    <2>2. inCall \in Channels \cup {None}
        BY <1>0 DEF Types
    <2>. QED  BY <1>0, <2>1, <2>2, FlagsSaid DEF Event, Passes, TakesReady, TakesVoice, TakesLeave, TakesStart,
                    TakesStop, Orphaned
<1>3. CASE \/ \E c \in Channels : JoinVoice(c)
           \/ LeaveVoice \/ ToggleMute \/ ToggleDeafen \/ StartScreen \/ CancelSharePicker
           \/ ShareSource \/ StopScreen \/ CheckShare \/ HealVoice
    <2>1. Request /\ link # None
        BY <1>3, Asking DEF Request
    <2>. QED  BY <1>0, <2>1, FlagsSaid DEF Request
<1>4. ~Drop /\ ~LogOut
    BY DEF Drop, LogOut, End
<1>5. CASE Redial \/ LogIn
    <2>1. PICK g \in Conns : Dial(g)
        BY <1>5 DEF Redial, LogIn
    <2>2. link' = g /\ reqs'[g] = <<>>
        BY <1>0, <1>5, <2>1 DEF Dial, Dialed, Redial, LogIn
    <2>. QED  BY <2>2 DEF FlagsLast
<1>6. ASSUME NEW g \in Conns, Accept(g) \/ EndStale(g) PROVE FlagsLast'
    BY <1>1, <1>6 DEF Accept, EndStale, wish
<1>7. ASSUME NEW g \in Conns, Serve(g) PROVE FlagsLast'
    <2>1. UNCHANGED <<link, mic, untold, at>> /\ reqs' = [reqs EXCEPT ![g] = Tail(@)] /\ reqs[g] # <<>>
        BY <1>7 DEF Serve, wish, net
    <2>2. CASE g # link
        BY <1>0, <1>1, <2>1, <2>2 DEF Types
    <2>3. CASE g = link
        <3>1. reqs[link] \in Seq(Requests) /\ reqs'[link] = Tail(reqs[link])
            BY <1>0, <2>1, <2>3 DEF Types
        <3>2. Shorter
            <4>1. reqs[link] # <<>>
                BY <2>1, <2>3
            <4>. QED  BY <3>1, <4>1, TailShifts DEF Shorter
        <3>3. link # None /\ (FlagsLast => Paired /\ ("flags" \notin untold => LastTold))
            BY <2>1, FlagsParts
        <3>4. Paired'
            BY <2>1, <3>2, <3>3 DEF Paired, Shorter
        <3>5. LastTold => LastTold'
            <4>1. ASSUME LastTold, NEW i \in DOMAIN reqs'[link], reqs'[link][i].op = "flags",
                         \A j \in DOMAIN reqs'[link] : j > i => reqs'[link][j].op # "flags"
                  PROVE  reqs'[link][i].mic = mic
                <5>1. i + 1 \in DOMAIN reqs[link] /\ reqs'[link][i] = reqs[link][i + 1] /\ i \in Int /\ i > 0
                    BY <3>2 DEF Shorter
                <5>2. ASSUME NEW j \in DOMAIN reqs[link], j > i + 1 PROVE reqs[link][j].op # "flags"
                    <6>1. j \in Int
                        BY <3>2 DEF Shorter
                    <6>2. j - 1 \in DOMAIN reqs'[link] /\ reqs'[link][j - 1] = reqs[link][j] /\ j - 1 > i
                        BY <3>2, <5>1, <5>2, <6>1 DEF Shorter
                    <6>. QED  BY <4>1, <6>2
                <5>. QED  BY <4>1, <5>1, <5>2 DEF LastTold
            <4>. QED  BY <2>1, <4>1 DEF LastTold
        <3>. QED  BY <2>1, <3>3, <3>4, <3>5 DEF FlagsLast, LastTold, Paired
    <2>. QED  BY <2>2, <2>3
<1>8. CASE UNCHANGED vars
    BY <1>1, <1>8 DEF vars, wish, net
<1>. QED  BY <1>2, <1>3, <1>4, <1>5, <1>6, <1>7, <1>8 DEF Next, User

(* A membership has a stream.                                              *)
LEMMA MemberStream ==
    ASSUME Types, member # None PROVE member.s # None /\ member.s \in Nat
<1>1. member \in Members /\ next \in Nat
    BY DEF Types
<1>. QED  BY <1>1, CallAssumption DEF Members, Streams

(* What has been read was there before.                                    *)
LEMMA MineRead ==
    ASSUME CallInv, Links, Open, Event, Mine'
    PROVE  /\ Mine
           /\ inbox[1].t = "ready" =>
                 \E i \in DOMAIN inbox' : inbox'[i].t = "voice" /\ inbox'[i].s = member.s /\ Recent(i)'
<1>0. Shifted /\ member' = member /\ member # None
    BY DEF Event, Mine
<1>1. CASE \E i \in DOMAIN inbox' : inbox'[i].t = "voice" /\ inbox'[i].s = member.s /\ Recent(i)'
    <2>1. PICK i \in DOMAIN inbox' : inbox'[i].t = "voice" /\ inbox'[i].s = member.s /\ Recent(i)'
        BY <1>1
    <2>2. i + 1 \in DOMAIN inbox /\ inbox[i + 1] = inbox'[i] /\ Recent(i + 1)
        BY <1>0, <2>1, ReadOn DEF Shifted
    <2>. QED  BY <1>0, <1>1, <2>1, <2>2 DEF Mine
<1>2. CASE Caught' /\ voice' = member.s
    <2>1. voice' # None
        BY <1>0, <1>2, MemberStream DEF CallInv
    <2>2. inbox[1].t # "ready" /\ Recent(1) /\ 1 \in DOMAIN inbox
        BY <1>0, <1>2, <2>1, FirstFrame, ReadOn DEF Shifted
    <2>3. Caught
        BY <1>0, <1>2, <2>2, ReadOn
    <2>4. voice' = voice \/ (inbox[1].t = "voice" /\ inbox[1].s = member.s)
        BY <1>2, <2>1, FirstFrame
    <2>. QED  BY <1>0, <1>2, <2>2, <2>3, <2>4 DEF Mine
<1>. QED  BY <1>0, <1>1, <1>2 DEF Mine

(* What asking leaves of it was there before,                              *)
LEMMA MineAsked ==
    ASSUME CallInv, Open, Request, Mine' PROVE Mine
<1>1. inbox' = inbox /\ member' = member /\ voice' \in {voice, None}
    BY DEF Request
<1>2. member # None => member.s # None
    BY MemberStream DEF CallInv
<1>. QED  BY <1>1, <1>2 DEF Mine, Caught, Recent, NoneAfter

(* and what serving leaves, unless it is a new one.                        *)
LEMMA MineServed ==
    ASSUME Service, ~ServesJoin, Mine' PROVE Mine /\ (Same \/ Stays)
<1>1. voice' = voice
    BY DEF Service
<1>2. CASE Same
    BY <1>1, <1>2 DEF Mine, Same, Caught, Recent, NoneAfter
<1>3. ASSUME NEW types, "voice" \notin types, "ready" \notin types, Grown(types), Stays
      PROVE  Mine
    <2>1. Caught' => Caught
        BY <1>3, Unready
    <2>2. \A i \in DOMAIN inbox' : inbox'[i].t = "voice" =>
              i \in DOMAIN inbox /\ inbox'[i] = inbox[i] /\ (Recent(i)' => Recent(i))
        <3>1. \A i \in New : inbox'[i].t # "voice"
            BY <1>3 DEF Grown
        <3>2. \A i \in DOMAIN inbox : inbox'[i] = inbox[i] /\ (Recent(i)' => Recent(i))
            BY <1>3, Unready DEF Grown
        <3>. QED  BY <3>1, <3>2 DEF New
    <2>. QED  BY <1>1, <1>3, <2>1, <2>2 DEF Mine, Stays
<1>4. ~ServesLeave
    BY DEF Mine, ServesLeave
<1>. QED  BY <1>2, <1>3, <1>4 DEF Service, ServesFlags, ServesStart, ServesStop

(* On a new connection nothing has been asked for yet.                     *)
LEMMA NotMine ==
    ASSUME Acceptance PROVE ~Mine'
<1>1. PICK k \in New : inbox'[k].t = "ready" /\ \A j \in DOMAIN inbox : j < k
    BY DEF Acceptance, Grown
<1>2. ~Caught' /\ k \in DOMAIN inbox'
    BY <1>1 DEF Caught, New
<1>3. \A i \in DOMAIN inbox' : inbox'[i].t = "voice" => ~Recent(i)'
    BY <1>1 DEF Acceptance, Grown, New, Recent, NoneAfter
<1>. QED  BY <1>2, <1>3 DEF Mine

(* The microphone is still shown as it is, or will be: the flags of a join *)
(* are served after it.                                                    *)
LEMMA MicToldKept ==
    ASSUME CallInv, Links, FlagsLast, MicTold, [Next]_vars PROVE MicTold'
<1>. SUFFICES ASSUME Open', Mine', "flags" \notin untold', ~Asks({"flags"})'
              PROVE  member'.mic = mic'
    BY DEF MicTold
<1>0. Types /\ (Open => link # None)
    BY DEF CallInv, Open
<1>1. CASE Open /\ Event
    <2>0. Longer /\ link' = link /\ UNCHANGED <<member, mic>>
        BY <1>0, <1>1 DEF Event
    <2>1. ~Asks({"flags"})
        BY <2>0, AsksOn
    <2>2. Mine
        BY <1>1, MineRead
    <2>3. "flags" \notin untold
        <3>1. ~(TakesReady /\ inCall # None)
            <4>1. ASSUME inCall # None, TakesReady PROVE FALSE
                <5>1. inCall \in Channels /\ Say(Joining(inCall))
                    BY <1>0, <4>1 DEF Types, TakesReady
                <5>. QED  BY <1>0, <1>1, <2>0, <5>1, Words
            <4>. QED  BY <4>1
        <3>. QED  BY <1>1, <3>1 DEF Event, Passes, TakesReady, TakesVoice, TakesLeave, TakesStart, TakesStop,
                        Orphaned
    <2>. QED  BY <1>1, <2>0, <2>1, <2>2, <2>3 DEF MicTold
<1>2. CASE Open /\ Request
    <2>0. Longer /\ link' = link /\ member' = member
        BY <1>0, <1>2 DEF Request
    <2>1. ~Asks({"flags"})
        BY <2>0, AsksOn
    <2>2. Mine
        BY <1>2, MineAsked
    <2>3. /\ \A c \in Channels : ~Say(Joining(c))
          /\ mic' \in Mics => ~Say(<<[op |-> "flags", mic |-> mic']>>)
        BY <1>0, <1>2, <2>0, Words
    <2>4. mic' = mic /\ "flags" \notin untold
        <3>1. \A c \in Channels : Say(Joining(c)) => FALSE
            BY <2>3
        <3>2. mic' \in Mics /\ Say(<<[op |-> "flags", mic |-> mic']>>) => FALSE
            BY <2>3
        <3>3. \/ mic' = mic /\ untold' = untold \ {"capture"}
              \/ mic' = mic /\ untold' = untold
            BY <1>2, <3>1, <3>2 DEF Request
        <3>. QED  BY <3>3
    <2>. QED  BY <1>2, <2>0, <2>1, <2>2, <2>4 DEF MicTold
<1>3. CASE Open /\ Service
    <2>0. Shorter /\ UNCHANGED <<link, mic, untold>>
        BY <1>3 DEF Service
    <2>1. \A j \in DOMAIN reqs[link] : j > 1 => reqs[link][j].op # "flags"
        BY <2>0 DEF Asks, Shorter
    <2>2. ~ServesJoin
        <3>1. ASSUME ServesJoin PROVE FALSE
            <4>1. 2 \in DOMAIN reqs[link] /\ reqs[link][2].op = "flags"
                <5>1. 1 \in DOMAIN reqs[link] /\ reqs[link][1].op = "join" /\ 1 + 1 = 2
                    BY <2>0, <3>1 DEF Shorter, ServesJoin
                <5>2. Paired
                    BY <1>0, <1>3, FlagsParts
                <5>. QED  BY <5>1, <5>2 DEF Paired
            <4>. QED  BY <2>1, <4>1
        <3>. QED  BY <3>1
    <2>3. Mine /\ (Same \/ Stays)
        BY <1>3, <2>2, MineServed
    <2>4. CASE ServesFlags /\ Stays
        <3>1. LastTold /\ 1 \in DOMAIN reqs[link]
            BY <1>0, <1>3, <2>0, FlagsParts DEF Shorter
        <3>2. reqs[link][1].mic = mic
            BY <2>1, <2>4, <3>1 DEF LastTold, ServesFlags
        <3>. QED  BY <2>0, <2>4, <3>2 DEF ServesFlags, Same, Stays
    <2>5. CASE ServesStart \/ ServesStop
        <3>1. member # None /\ ~Same => member'.mic = member.mic
            BY <2>5 DEF ServesStart, ServesStop
        <3>2. reqs[link][1].op # "flags"
            BY <2>5 DEF ServesStart, ServesStop
        <3>3. ~Asks({"flags"})
            BY <2>0, <2>1, <3>2 DEF Asks, Shorter
        <3>4. member.mic = mic
            BY <1>3, <2>0, <2>3, <3>3 DEF MicTold
        <3>. QED  BY <2>0, <2>3, <3>1, <3>4 DEF Same, Mine
    <2>6. ~ServesLeave /\ (ServesFlags => Stays)
        BY <2>3 DEF ServesLeave, ServesFlags, Mine, Same
    <2>. QED  BY <1>3, <2>2, <2>4, <2>5, <2>6 DEF Service
<1>4. CASE Acceptance
    BY <1>4, NotMine
<1>5. CASE Open /\ Ended
    BY <1>5 DEF Ended, MicTold, Mine, Caught, Recent, NoneAfter, Asks
<1>. QED  BY <1>1, <1>2, <1>3, <1>4, <1>5, Steps

----------------------------------------------------------------------------
(* What is shown of the share.                                             *)

\* A share is of the session it began in: of one that comes before it, ...
Begins(j, i) ==
    /\ j < i
    /\ inbox[j].t = "ready" \/ (inbox[j].t = "voice" /\ inbox[j].s = inbox[i].s)
    /\ \A m \in DOMAIN inbox : j < m /\ m < i => inbox[m].t # "voice"

\* ... or of the present one.
Present(i) ==
    voice \in {None, inbox[i].s} /\ \A j \in DOMAIN inbox : j < i => inbox[j].t # "voice"

(* A share begins in its session.                                          *)
LEMMA StartParts ==
    StartFollows <=>
        (Open => \A i \in DOMAIN inbox : inbox[i].t = "start" /\ Recent(i) =>
                    Present(i) \/ \E j \in DOMAIN inbox : Begins(j, i))
BY DEF StartFollows, Present, Begins

(* A share to begin is still of the session it will be read in,            *)
LEMMA StartFollowsKept ==
    ASSUME CallInv, Links, SessionAgrees, VoiceFollows, StartFollows, [Next]_vars PROVE StartFollows'
<1>. DEFINE Right(i) == Present(i) \/ \E j \in DOMAIN inbox : Begins(j, i)
<1>. SUFFICES ASSUME Open', NEW i \in DOMAIN inbox', inbox'[i].t = "start", Recent(i)'
              PROVE  Right(i)'
    BY DEF StartFollows, Present, Begins
<1>1. CASE Open /\ Event
    <2>0. /\ Shifted /\ i \in Int /\ i > 0 /\ i + 1 \in DOMAIN inbox /\ 1 \in DOMAIN inbox
          /\ inbox'[i] = inbox[i + 1] /\ Recent(i + 1)
        BY <1>1, ReadOn DEF Event, Shifted
    <2>1. Right(i + 1)
        BY <1>1, <2>0, StartParts
    <2>2. CASE Present(i + 1)
        <3>1. inbox[1].t # "voice" /\ voice' \in {voice, None}
            BY <1>1, <2>0, <2>2, FirstFrame DEF Present
        <3>. QED  BY <2>0, <2>2, <3>1 DEF Present, Shifted
    <2>3. ASSUME NEW j \in DOMAIN inbox, Begins(j, i + 1), j > 1 PROVE Right(i)'
        <3>1. j - 1 \in DOMAIN inbox' /\ inbox'[j - 1] = inbox[j]
            BY <2>0, <2>3 DEF Shifted
        <3>2. Begins(j - 1, i)'
            BY <2>0, <2>3, <3>1 DEF Begins, Shifted
        <3>. QED  BY <3>1, <3>2
    <2>4. ASSUME Begins(1, i + 1) PROVE Right(i)'
        <3>1. \A m \in DOMAIN inbox' : m < i => inbox'[m].t # "voice"
            BY <2>0, <2>4 DEF Begins, Shifted
        <3>2. CASE voice' \in {None, inbox'[i].s}
            BY <3>1, <3>2 DEF Present
        <3>3. CASE voice' \notin {None, inbox'[i].s}
            <4>1. inbox[1].t = "voice" /\ voice # None
                BY <1>1, <2>0, <2>4, <3>3, FirstFrame DEF Begins
            <4>2. \A j \in DOMAIN inbox : ~Clears(j, 1)
                BY <2>0 DEF Clears, Shifted
            <4>3. ~Recent(1)
                BY <1>1, <2>0, <4>1, <4>2, FollowsParts DEF Free
            <4>4. PICK p \in DOMAIN inbox : p > 1 /\ inbox[p].t = "ready"
                BY <4>3 DEF Recent, NoneAfter
            <4>5. p <= i + 1 /\ p # i + 1
                BY <2>0, <4>4 DEF Shifted, Recent, NoneAfter
            <4>6. p - 1 \in DOMAIN inbox' /\ inbox'[p - 1] = inbox[p] /\ p - 1 < i
                BY <2>0, <4>4, <4>5 DEF Shifted
            <4>. QED  BY <3>1, <4>4, <4>6 DEF Begins
        <3>. QED  BY <3>2, <3>3
    <2>5. \A j \in DOMAIN inbox : j = 1 \/ j > 1
        BY <2>0 DEF Shifted
    <2>. QED  BY <2>1, <2>2, <2>3, <2>4, <2>5
<1>2. CASE Open /\ Request
    <2>1. inbox' = inbox /\ voice' \in {voice, None}
        BY <1>2 DEF Request
    <2>2. Recent(i)
        BY <2>1 DEF Recent, NoneAfter
    <2>3. Right(i)
        BY <1>2, <2>1, <2>2, StartParts
    <2>. QED  BY <2>1, <2>3 DEF Present, Begins
<1>3. CASE Open /\ Service
    <2>0. voice' = voice
        BY <1>3 DEF Service
    <2>1. ASSUME i \in DOMAIN inbox PROVE Right(i)'
        <3>1. CASE inbox' = inbox
            <4>1. Recent(i) /\ inbox[i].t = "start"
                BY <3>1 DEF Recent, NoneAfter
            <4>. QED  BY <1>3, <2>0, <2>1, <3>1, <4>1, StartParts DEF Present, Begins
        <3>2. CASE Grown({"leave", "voice", "state", "start", "stop"})
            <4>1. Recent(i) /\ inbox[i].t = "start"
                BY <2>1, <3>2, Unready DEF Grown
            <4>2. \A j \in New : ~(j < i)
                BY <2>1, <3>2 DEF Grown
            <4>3. Right(i)
                BY <1>3, <2>1, <4>1, StartParts
            <4>. QED  BY <2>0, <2>1, <3>2, <4>2, <4>3 DEF Present, Begins, Grown, New
        <3>. QED  BY <1>3, <3>1, <3>2, ComesServed
    <2>2. ASSUME i \in New PROVE Right(i)'
        <3>1. ServesStart /\ Stays
            <4>1. i \in New
                BY <2>2
            <4>2. ~Same
                BY <4>1 DEF Same, New
            <4>. QED  BY <1>3, <4>1, <4>2
                      DEF Service, ServesJoin, ServesLeave, ServesFlags, ServesStart, ServesStop, Same, Grown, New
        <3>2. inbox'[i].s = member.s /\ Grown({"start"})
            BY <2>2, <3>1 DEF ServesStart, Same, New
        <3>3. \A j \in DOMAIN inbox : j \in Int /\ j > 0 /\ j < i /\ j \in DOMAIN inbox' /\ inbox'[j] = inbox[j]
            BY <2>2, <3>2 DEF Grown
        <3>4. \A j \in DOMAIN inbox' : j \in DOMAIN inbox \/ inbox'[j].t = "start"
            BY <3>2 DEF New, Grown
        <3>5. CASE Heard
            BY <2>0, <3>1, <3>2, <3>3, <3>4, <3>5 DEF Heard, NoneAfter, Turning, Present, Stays
        <3>6. ASSUME NEW k \in DOMAIN inbox, Word(k) PROVE Right(i)'
            <4>1. inbox[k].t = "ready" \/ (inbox[k].t = "voice" /\ inbox[k].s = member.s)
                BY <3>1, <3>6 DEF Word, Settles, Stays
            <4>2. Begins(k, i)'
                BY <3>2, <3>3, <3>4, <3>6, <4>1 DEF Begins, Word, NoneAfter, Turning
            <4>. QED  BY <3>3, <4>2
        <3>. QED  BY <1>3, <3>5, <3>6, SessionParts
    <2>. QED  BY <2>1, <2>2 DEF New
<1>4. CASE Acceptance
    <2>1. PICK k \in New : inbox'[k].t = "ready" /\ \A j \in DOMAIN inbox' : j <= k
        BY <1>4 DEF Acceptance, Grown
    <2>. QED  BY <1>4, <2>1 DEF Acceptance, Grown, Recent, NoneAfter, New
<1>5. CASE Open /\ Ended
    BY <1>5, StartParts DEF Ended, Present, Begins, Recent, NoneAfter
<1>. QED  BY <1>1, <1>2, <1>3, <1>4, <1>5, Steps

(* A frame that has come does not precede one that was there.              *)
LEMMA NoneAfterStill ==
    ASSUME NEW new, Grown(new), NEW i, NEW types, ~NoneAfter(i, types) PROVE ~NoneAfter(i, types)'
BY DEF NoneAfter, Grown

(* and still goes on unless it is told that it does not,                   *)
LEMMA StartHoldsKept ==
    ASSUME CallInv, Links, StartHolds, [Next]_vars PROVE StartHolds'
<1>. DEFINE Right(i) ==
        \/ ~NoneAfter(i, {"stop", "leave"})
        \/ member # None /\ member.s = inbox[i].s /\ member.sharing
<1>. SUFFICES ASSUME Open', NEW i \in DOMAIN inbox', inbox'[i].t = "start", Recent(i)'
              PROVE  Right(i)'
    BY DEF StartHolds
<1>1. CASE Open /\ Event
    <2>0. /\ Shifted /\ i \in Int /\ i > 0 /\ i + 1 \in DOMAIN inbox /\ 1 \in DOMAIN inbox
          /\ inbox'[i] = inbox[i + 1] /\ Recent(i + 1) /\ member' = member
        BY <1>1, ReadOn DEF Event, Shifted
    <2>1. Right(i + 1)
        BY <1>1, <2>0 DEF StartHolds
    <2>2. ASSUME ~NoneAfter(i + 1, {"stop", "leave"}) PROVE ~NoneAfter(i, {"stop", "leave"})'
        <3>1. PICK j \in DOMAIN inbox : j > i + 1 /\ inbox[j].t \in {"stop", "leave"}
            BY <2>2 DEF NoneAfter
        <3>2. j - 1 \in DOMAIN inbox' /\ inbox'[j - 1] = inbox[j] /\ j - 1 > i
            BY <2>0, <3>1 DEF Shifted
        <3>. QED  BY <3>1, <3>2 DEF NoneAfter
    <2>. QED  BY <2>0, <2>1, <2>2
<1>2. CASE Open /\ (Request \/ Ended)
    <2>1. inbox' = inbox /\ member' = member
        BY <1>2 DEF Request, Ended
    <2>. QED  BY <1>2, <2>1 DEF StartHolds, Recent, NoneAfter
<1>3. CASE Open /\ Service
    <2>1. ASSUME Same PROVE Right(i)'
        BY <1>3, <2>1 DEF Same, StartHolds, Recent, NoneAfter
    <2>2. ASSUME i \in DOMAIN inbox, NEW new, Grown(new), "ready" \notin new PROVE Right(i)
        BY <1>3, <2>2, Unready DEF StartHolds, Grown
    <2>3. CASE ServesJoin
        <3>1. Grown({"leave", "voice", "state"}) /\ i \in DOMAIN inbox
            BY <2>3 DEF ServesJoin, Grown, New
        <3>2. Right(i)
            BY <2>2, <3>1
        <3>3. CASE member = None
            BY <3>1, <3>2, <3>3, NoneAfterStill
        <3>4. CASE member # None
            <4>1. PICK k \in New : inbox'[k].t = "leave"
                BY <2>3, <3>4 DEF ServesJoin
            <4>2. i < k
                BY <3>1, <4>1 DEF Grown
            <4>. QED  BY <3>1, <4>1, <4>2 DEF NoneAfter, New, Grown
        <3>. QED  BY <3>3, <3>4
    <2>4. CASE ServesLeave
        <3>1. CASE member = None
            BY <2>1, <2>4, <3>1 DEF ServesLeave, Same
        <3>2. CASE member # None
            <4>1. Grown({"stop", "leave"}) /\ i \in DOMAIN inbox
                BY <2>4, <3>2 DEF ServesLeave, Grown, New
            <4>2. PICK k \in New : inbox'[k].t = "leave"
                BY <2>4, <3>2 DEF ServesLeave
            <4>3. i < k
                BY <4>1, <4>2 DEF Grown
            <4>. QED  BY <4>1, <4>2, <4>3 DEF NoneAfter, New, Grown
        <3>. QED  BY <3>1, <3>2
    <2>5. CASE ServesFlags /\ Stays
        <3>1. CASE Same
            BY <2>1, <3>1
        <3>2. CASE ~Same
            <4>1. Grown({"state"}) /\ i \in DOMAIN inbox /\ member'.sharing = member.sharing
                BY <2>5, <3>2 DEF ServesFlags, Grown, New
            <4>2. Right(i) /\ inbox'[i] = inbox[i]
                BY <2>2, <4>1 DEF Grown
            <4>. QED  BY <2>5, <4>1, <4>2, NoneAfterStill DEF Stays
        <3>. QED  BY <3>1, <3>2
    <2>6. CASE ServesStart /\ Stays /\ ~Same
        <3>1. Grown({"start"}) /\ member'.sharing /\ \A j \in New : inbox'[j].s = member.s
            BY <2>6 DEF ServesStart
        <3>2. CASE i \in New
            BY <2>6, <3>1, <3>2 DEF Stays
        <3>3. CASE i \in DOMAIN inbox
            <4>1. Right(i) /\ inbox'[i] = inbox[i]
                BY <2>2, <3>1, <3>3 DEF Grown
            <4>. QED  BY <2>6, <3>1, <4>1, NoneAfterStill DEF Stays
        <3>. QED  BY <3>2, <3>3 DEF New
    <2>7. CASE ServesStop /\ Stays /\ ~Same
        <3>1. Grown({"stop"}) /\ New # {} /\ i \in DOMAIN inbox
            BY <2>7 DEF ServesStop, Grown, New
        <3>2. PICK k \in New : inbox'[k].t = "stop" /\ i < k
            BY <3>1 DEF Grown
        <3>. QED  BY <3>1, <3>2 DEF NoneAfter, New
    <2>8. ServesFlags \/ ServesStart \/ ServesStop => Same \/ Stays
        BY DEF ServesFlags, ServesStart, ServesStop
    <2>. QED  BY <1>3, <2>1, <2>3, <2>4, <2>5, <2>6, <2>7, <2>8 DEF Service
<1>4. CASE Acceptance
    <2>1. PICK k \in New : inbox'[k].t = "ready" /\ \A j \in DOMAIN inbox' : j <= k
        BY <1>4 DEF Acceptance, Grown
    <2>. QED  BY <1>4, <2>1 DEF Acceptance, Grown, Recent, NoneAfter, New
<1>. QED  BY <1>1, <1>2, <1>3, <1>4, Steps

(* and the last word about it is its start.                                *)
LEMMA StartLastKept ==
    ASSUME CallInv, Links, StartLast, [Next]_vars PROVE StartLast'
<1>. DEFINE Over(i) ==
        Recent(i) /\ (inbox[i].t = "stop" \/ (inbox[i].t = "start" /\ inbox[i].s # member.s))
            After(j, i) == j > i /\ inbox[j].t = "start" /\ inbox[j].s = member.s
<1>. SUFFICES ASSUME Open', member' # None, member'.sharing, NEW i \in DOMAIN inbox', Over(i)'
              PROVE  \E j \in DOMAIN inbox' : After(j, i)'
    BY DEF StartLast
<1>1. CASE Open /\ Event
    <2>0. /\ Shifted /\ i \in Int /\ i > 0 /\ i + 1 \in DOMAIN inbox
          /\ inbox'[i] = inbox[i + 1] /\ Recent(i + 1) /\ member' = member
        BY <1>1, ReadOn DEF Event, Shifted
    <2>1. PICK j \in DOMAIN inbox : After(j, i + 1)
        BY <1>1, <2>0 DEF StartLast
    <2>2. j - 1 \in DOMAIN inbox' /\ inbox'[j - 1] = inbox[j] /\ j - 1 > i
        BY <2>0, <2>1 DEF Shifted
    <2>. QED  BY <2>0, <2>1, <2>2
<1>2. CASE Open /\ (Request \/ Ended)
    <2>1. inbox' = inbox /\ member' = member
        BY <1>2 DEF Request, Ended
    <2>. QED  BY <1>2, <2>1 DEF StartLast, Recent, NoneAfter
<1>3. CASE Open /\ Service
    <2>1. CASE Same
        BY <1>3, <2>1 DEF Same, StartLast, Recent, NoneAfter
    <2>2. ~ServesJoin /\ ~ServesLeave
        BY DEF ServesJoin, ServesLeave
    <2>3. CASE ServesFlags /\ ~Same
        <3>1. Grown({"state"}) /\ Stays /\ member'.sharing = member.sharing
            BY <2>3 DEF ServesFlags
        <3>2. i \in DOMAIN inbox /\ inbox'[i] = inbox[i] /\ Recent(i)
            <4>1. i \notin New
                BY <3>1 DEF Grown
            <4>. QED  BY <3>1, <4>1, Unready DEF Grown, New
        <3>3. PICK j \in DOMAIN inbox : After(j, i)
            BY <1>3, <3>1, <3>2 DEF StartLast, Stays
        <3>. QED  BY <3>1, <3>3 DEF Grown, Stays
    <2>4. CASE ServesStart /\ ~Same
        <3>1. Grown({"start"}) /\ New # {} /\ Stays /\ \A j \in New : inbox'[j].s = member.s
            BY <2>4 DEF ServesStart
        <3>2. PICK j \in New : inbox'[j].t = "start" /\ inbox'[j].s = member'.s
            BY <3>1 DEF Grown, Stays
        <3>3. i \notin New
            BY <3>1 DEF Grown, Stays
        <3>. QED  BY <3>1, <3>2, <3>3 DEF Grown, New
    <2>5. ~(ServesStop /\ ~Same)
        BY DEF ServesStop
    <2>. QED  BY <1>3, <2>1, <2>2, <2>3, <2>4, <2>5 DEF Service
<1>4. CASE Acceptance
    <2>1. PICK k \in New : inbox'[k].t = "ready" /\ \A j \in DOMAIN inbox' : j <= k
        BY <1>4 DEF Acceptance, Grown
    <2>. QED  BY <1>4, <2>1 DEF Acceptance, Grown, Recent, NoneAfter, New
<1>. QED  BY <1>1, <1>2, <1>3, <1>4, Steps

(* A start that is to come stays to come when something else is read.      *)
LEMMA StartingOn ==
    ASSUME Shifted, NEW s, Starting(s), inbox[1].t # "start" \/ ~Recent(1) PROVE Starting(s)'
<1>1. PICK i \in DOMAIN inbox : inbox[i].t = "start" /\ inbox[i].s = s /\ Recent(i)
    BY DEF Starting
<1>2. i \in Int /\ i > 1
    BY <1>1 DEF Shifted
<1>3. i - 1 \in DOMAIN inbox' /\ inbox'[i - 1] = inbox[i] /\ i - 1 + 1 = i
    BY <1>1, <1>2 DEF Shifted
<1>4. Recent(i - 1)'
    BY <1>1, <1>3, ReadOn
<1>. QED  BY <1>1, <1>3, <1>4 DEF Starting

(* A share that is shown still captures or will, when a frame is read,     *)
LEMMA ShareToldRead ==
    ASSUME CallInv, Links, StartLast, ShareTold, Open, Event, Mine', member.sharing, NEW s, s = member.s,
           "share" \notin untold' \/ ~Caught', ~Asks({"stop", "leave", "join"})'
    PROVE  (Caught' /\ share' = s) \/ Starting(s)'
<1>0. Types /\ link # None /\ Shifted /\ Longer /\ link' = link /\ member' = member
    BY DEF CallInv, Open, Event
<1>1. Mine /\ ~Asks({"stop", "leave", "join"}) /\ 1 \in DOMAIN inbox
    BY <1>0, MineRead, AsksOn DEF Shifted
<1>2. /\ \A c \in Channels : ~Say(Joining(c))
      /\ ~Say(<<Leave>>) /\ ~Say(<<Stop>>)
    BY <1>0, Words
<1>3. Caught => Known
    BY LinksParts DEF Marked
<1>4. ~Caught => Starting(s)
    BY <1>1 DEF ShareTold, Starting
<1>5. "share" \notin untold => (Caught /\ share = s) \/ Starting(s)
    BY <1>1 DEF ShareTold, Starting
<1>6. CASE TakesReady
    <2>1. ~Caught /\ inbox[1].t # "start"
        BY <1>1, <1>6 DEF TakesReady, Caught
    <2>. QED  BY <1>0, <1>4, <2>1, StartingOn
<1>7. ASSUME inbox[1].t \in {"state", "lost", "offline", "voice", "leave"}, share' = share,
             "share" \in untold <=> "share" \in untold'
      PROVE  (Caught' /\ share' = s) \/ Starting(s)'
    <2>1. (Caught' <=> Caught) /\ inbox[1].t # "start"
        BY <1>0, <1>7, ReadOn
    <2>. QED  BY <1>0, <1>4, <1>5, <1>7, <2>1, StartingOn
<1>8. CASE Passes
    BY <1>7, <1>8 DEF Passes
<1>9. CASE TakesVoice
    BY <1>2, <1>7, <1>9 DEF TakesVoice
<1>10. CASE TakesLeave
    BY <1>7, <1>10 DEF TakesLeave, Orphaned
<1>11. CASE TakesStart \/ TakesStop
    <2>1. (Caught' <=> Caught) /\ (Caught' <=> Recent(1))
        BY <1>0, <1>11, ReadOn DEF TakesStart, TakesStop
    <2>2. CASE ~Caught'
        BY <1>0, <1>4, <2>1, <2>2, StartingOn
    <2>3. CASE Caught'
        <3>1. Known /\ Recent(1) /\ "share" \notin untold'
            BY <1>3, <2>1, <2>3
        <3>2. ASSUME inbox[1].t = "stop" \/ (inbox[1].t = "start" /\ inbox[1].s # s)
              PROVE  Starting(s)'
            <4>1. PICK j \in DOMAIN inbox : j > 1 /\ inbox[j].t = "start" /\ inbox[j].s = s
                BY <1>1, <3>1, <3>2 DEF StartLast, Mine
            <4>2. j \in Int /\ j - 1 \in DOMAIN inbox' /\ inbox'[j - 1] = inbox[j] /\ j - 1 + 1 = j
                BY <1>0, <4>1 DEF Shifted
            <4>3. Recent(j)
                BY <1>0, <3>1, <4>1, <4>2 DEF Recent, NoneAfter, Shifted
            <4>4. Recent(j - 1)'
                BY <1>0, <4>2, <4>3, ReadOn
            <4>. QED  BY <4>1, <4>2, <4>4 DEF Starting
        <3>3. CASE TakesStart
            <4>1. share' = inbox[1].s
                BY <1>2, <3>1, <3>3 DEF TakesStart
            <4>. QED  BY <2>3, <3>2, <3>3, <4>1 DEF TakesStart
        <3>4. CASE TakesStop
            BY <3>2, <3>4 DEF TakesStop
        <3>. QED  BY <1>11, <3>3, <3>4
    <2>. QED  BY <2>2, <2>3
<1>. QED  BY <1>6, <1>8, <1>9, <1>10, <1>11 DEF Event

(* and after every step.                                                   *)
LEMMA ShareToldKept ==
    ASSUME CallInv, Links, StartLast, ShareTold, [Next]_vars PROVE ShareTold'
<1>. SUFFICES ASSUME Open', Mine', member'.sharing, "share" \notin untold' \/ ~Caught',
                     ~Asks({"stop", "leave", "join"})', NEW s, s = member'.s
              PROVE  (Caught' /\ share' = s) \/ Starting(s)'
    BY DEF ShareTold, Starting
<1>0. Types /\ (Open => link # None)
    BY DEF CallInv, Open
<1>1. CASE Open /\ Event
    <2>1. member' = member
        BY <1>1 DEF Event
    <2>. QED  BY <1>1, <2>1, ShareToldRead
<1>2. CASE Open /\ Request
    <2>0. Longer /\ link' = link /\ member' = member /\ inbox' = inbox
        BY <1>0, <1>2 DEF Request
    <2>1. Mine /\ ~Asks({"stop", "leave", "join"})
        BY <1>2, <2>0, MineAsked, AsksOn
    <2>2. /\ \A c \in Channels : ~Say(Joining(c))
          /\ ~Say(<<Leave>>) /\ ~Say(<<Stop>>)
        BY <1>0, <1>2, <2>0, Words
    <2>3. share' = share /\ ("share" \in untold <=> "share" \in untold')
        BY <1>2, <2>2 DEF Request
    <2>4. (Caught' <=> Caught) /\ (Starting(s) => Starting(s)')
        BY <2>0 DEF Starting, Caught, Recent, NoneAfter
    <2>5. (Caught /\ share = s) \/ Starting(s)
        BY <1>2, <2>0, <2>1, <2>3, <2>4 DEF ShareTold, Starting
    <2>. QED  BY <2>3, <2>4, <2>5
<1>3. CASE Open /\ Service
    <2>0. Shorter /\ UNCHANGED <<link, share, untold>>
        BY <1>3 DEF Service
    <2>1. ~ServesJoin
        BY DEF ServesJoin
    <2>2. Mine /\ (Same \/ Stays) /\ member # None
        BY <1>3, <2>1, MineServed DEF Mine
    <2>3. CASE ServesFlags /\ (Same \/ Stays)
        <3>1. ~Asks({"stop", "leave", "join"})
            BY <2>0, <2>3, AskedStill DEF ServesFlags
        <3>2. Stays /\ member'.sharing = member.sharing /\ Grown({"state"})
            BY <2>2, <2>3 DEF ServesFlags
        <3>3. (Caught' <=> Caught) /\ \A i \in DOMAIN inbox : (Recent(i)' <=> Recent(i)) /\ inbox'[i] = inbox[i]
            BY <3>2, Unready DEF Grown
        <3>4. (Caught /\ share = s) \/ Starting(s)
            BY <1>3, <2>0, <2>2, <3>1, <3>2, <3>3 DEF ShareTold, Starting, Stays
        <3>. QED  BY <2>0, <3>2, <3>3, <3>4 DEF Starting, Stays, Grown
    <2>4. CASE ServesStart
        <3>1. Stays /\ Grown({"start"}) /\ New # {} /\ \A i \in New : inbox'[i].s = member.s
            BY <2>2, <2>4 DEF ServesStart
        <3>2. PICK i \in New : inbox'[i].t = "start" /\ inbox'[i].s = s
            BY <3>1 DEF Grown, Stays
        <3>3. Recent(i)'
            BY <3>1, Unready
        <3>. QED  BY <3>2, <3>3 DEF Starting, New
    <2>5. ~ServesStop /\ ~ServesLeave
        BY <2>2 DEF ServesStop, ServesLeave, Mine
    <2>. QED  BY <1>3, <2>1, <2>2, <2>3, <2>4, <2>5 DEF Service
<1>4. CASE Acceptance
    BY <1>4, NotMine
<1>5. CASE Open /\ Ended
    <2>1. UNCHANGED <<inbox, member, share, untold, voice, link, reqs>>
        BY <1>5 DEF Ended
    <2>2. (Mine' <=> Mine) /\ (Caught' <=> Caught) /\ (Starting(s) => Starting(s)')
        BY <2>1 DEF Starting, Mine, Caught, Recent, NoneAfter
    <2>3. ~Asks({"stop", "leave", "join"})
        BY <2>1 DEF Asks
    <2>. QED  BY <1>5, <2>1, <2>2, <2>3 DEF ShareTold, Starting
<1>. QED  BY <1>1, <1>2, <1>3, <1>4, <1>5, Steps

(* What captures is still shown when a frame is read,                      *)
LEMMA CaptureRead ==
    ASSUME CallInv, Links, VoiceFollows, StartFollows, StartHolds, CaptureWanted, CaptureHeld,
           Open, Event, Caught', share' # None, "capture" \notin untold'
    PROVE  /\ share' = voice'
           /\ Comes({"stop", "leave"})' \/ (member # None /\ member.s = share' /\ member.sharing)
<1>. DEFINE Held == Comes({"stop", "leave"}) \/ (member # None /\ member.s = share /\ member.sharing)
<1>0. Shifted /\ member' = member /\ 1 \in DOMAIN inbox /\ \A j \in DOMAIN inbox : ~(j < 1)
    BY DEF Event, Shifted
<1>1. ~TakesReady
    BY DEF TakesReady, CaptureWanted
<1>2. Caught /\ Known /\ Recent(1)
    <2>1. inbox[1].t # "ready"
        BY <1>1 DEF Event, Passes, TakesVoice, TakesLeave, TakesStart, TakesStop
    <2>. QED  BY <1>0, <2>1, ReadOn, LinksParts DEF Marked
<1>3. ASSUME share' = share, voice' = voice, inbox[1].t \notin {"stop", "leave"},
             "capture" \notin untold
      PROVE  /\ share' = voice'
             /\ Comes({"stop", "leave"})' \/ (member # None /\ member.s = share' /\ member.sharing)
    <2>1. share = voice /\ Held
        BY <1>2, <1>3 DEF CaptureHeld
    <2>. QED  BY <1>0, <1>3, <2>1, ComesOn
<1>4. CASE Passes
    BY <1>3, <1>4 DEF Passes
<1>5. ~TakesVoice
    <2>1. ASSUME TakesVoice PROVE FALSE
        <3>1. share # None /\ "capture" \notin untold
            BY <2>1 DEF TakesVoice
        <3>2. voice = share
            BY <1>2, <3>1 DEF CaptureHeld
        <3>3. voice = None
            BY <1>0, <1>2, <2>1, FollowsParts DEF TakesVoice, Free, Clears
        <3>. QED  BY <3>1, <3>2, <3>3
    <2>. QED  BY <2>1
<1>6. ~TakesLeave /\ ~TakesStop
    BY <1>2 DEF TakesLeave, TakesStop, Orphaned
<1>7. CASE TakesStart
    <2>1. CASE share' = share /\ "capture" \notin untold
        BY <1>3, <1>7, <2>1 DEF TakesStart
    <2>2. CASE voice # None /\ share' = inbox[1].s
        <3>1. voice' = voice /\ voice = inbox[1].s
            BY <1>0, <1>2, <1>7, <2>2, StartParts DEF TakesStart, Present, Begins
        <3>2. ~NoneAfter(1, {"stop", "leave"}) \/ (member # None /\ member.s = share' /\ member.sharing)
            BY <1>0, <1>2, <1>7, <2>2 DEF TakesStart, StartHolds
        <3>3. ~NoneAfter(1, {"stop", "leave"}) => Comes({"stop", "leave"})'
            <4>1. ASSUME NEW j \in DOMAIN inbox, j > 1, inbox[j].t \in {"stop", "leave"}
                  PROVE  Comes({"stop", "leave"})'
                BY <1>0, <4>1 DEF Shifted, Comes
            <4>. QED  BY <4>1 DEF NoneAfter
        <3>. QED  BY <2>2, <3>1, <3>2, <3>3
    <2>. QED  BY <1>7, <2>1, <2>2 DEF TakesStart
<1>. QED  BY <1>1, <1>4, <1>5, <1>6, <1>7 DEF Event

(* and after every step.                                                   *)
LEMMA CaptureHeldKept ==
    ASSUME CallInv, Links, VoiceFollows, StartFollows, StartHolds, CaptureWanted, CaptureHeld,
           [Next]_vars
    PROVE  CaptureHeld'
<1>. SUFFICES ASSUME Open', Caught', share' # None, "capture" \notin untold'
              PROVE  /\ share' = voice'
                     /\ Comes({"stop", "leave"})' \/ (member' # None /\ member'.s = share' /\ member'.sharing)
    BY DEF CaptureHeld, Comes
<1>1. CASE Open /\ Event
    <2>1. member' = member
        BY <1>1 DEF Event
    <2>. QED  BY <1>1, <2>1, CaptureRead
<1>2. CASE Open /\ (Request \/ Ended)
    <2>1. inbox' = inbox /\ member' = member /\ share' = share /\ voice' = voice /\ "capture" \notin untold
        BY <1>2 DEF Request, Ended
    <2>. QED  BY <1>2, <2>1 DEF CaptureHeld, Caught, Comes
<1>3. CASE Open /\ Service
    <2>0. UNCHANGED <<share, voice, untold>>
        BY <1>3 DEF Service
    <2>1. Caught
        <3>1. inbox' = inbox => Caught
            BY DEF Caught
        <3>. QED  BY <1>3, <3>1, ComesServed, Unready
    <2>2. share = voice
        BY <1>3, <2>0, <2>1 DEF CaptureHeld
    <2>3. CASE Comes({"stop", "leave"})
        BY <1>3, <2>0, <2>2, <2>3, ServedComes
    <2>4. CASE ~Comes({"stop", "leave"})
        <3>1. member # None /\ member.s = share /\ member.sharing
            BY <1>3, <2>0, <2>1, <2>4 DEF CaptureHeld
        <3>2. CASE ServesJoin
            <4>1. PICK k \in New : inbox'[k].t = "leave"
                BY <3>1, <3>2 DEF ServesJoin
            <4>. QED  BY <2>0, <2>2, <4>1 DEF Comes, New
        <3>3. CASE ServesLeave
            <4>1. PICK k \in New : inbox'[k].t = "leave"
                BY <3>1, <3>3 DEF ServesLeave
            <4>. QED  BY <2>0, <2>2, <4>1 DEF Comes, New
        <3>4. CASE ServesFlags \/ ServesStart
            BY <2>0, <2>2, <3>1, <3>4 DEF ServesFlags, ServesStart, Stays
        <3>5. CASE ServesStop
            <4>1. PICK k \in New : inbox'[k].t = "stop"
                BY <3>1, <3>5 DEF ServesStop, Grown
            <4>. QED  BY <2>0, <2>2, <4>1 DEF Comes, New
        <3>. QED  BY <1>3, <3>2, <3>3, <3>4, <3>5 DEF Service
    <2>. QED  BY <2>3, <2>4
<1>4. ~Acceptance
    BY DEF Acceptance, Grown, Caught, New
<1>. QED  BY <1>1, <1>2, <1>3, <1>4, Steps

(* A capture is still of a call that is wanted.                            *)
LEMMA CaptureWantedKept ==
    ASSUME CallInv, CaptureWanted, [Next]_vars PROVE CaptureWanted'
<1>1. CASE Interface
    <2>1. Event
        BY <1>1, Events
    <2>2. voice # None => inCall # None
        BY DEF CallInv, VoiceIsWanted
    <2>. QED  BY <2>1, <2>2 DEF Event, Passes, TakesReady, TakesVoice, TakesLeave, TakesStart, TakesStop,
                 Orphaned, CaptureWanted
<1>2. CASE \/ \E c \in Channels : JoinVoice(c)
           \/ LeaveVoice \/ ToggleMute \/ ToggleDeafen \/ StartScreen \/ CancelSharePicker
           \/ ShareSource \/ StopScreen \/ CheckShare \/ HealVoice
    <2>1. Request
        BY <1>2, Asking
    <2>. QED  BY <2>1 DEF Request, CaptureWanted
<1>3. ASSUME UNCHANGED <<inCall, share, untold>> PROVE CaptureWanted'
    BY <1>3 DEF CaptureWanted
<1>4. CASE Drop \/ Redial \/ LogOut \/ LogIn
    BY <1>3, <1>4 DEF Drop, Redial, LogOut, LogIn, wish, media
<1>5. ASSUME NEW g \in Conns, Accept(g) \/ Serve(g) \/ EndStale(g) PROVE CaptureWanted'
    BY <1>3, <1>5 DEF Accept, Serve, EndStale, wish, media
<1>6. CASE UNCHANGED vars
    BY <1>3, <1>6 DEF vars, wish, media
<1>. QED  BY <1>1, <1>2, <1>4, <1>5, <1>6 DEF Next, User

----------------------------------------------------------------------------
(* All of it, at every moment.                                             *)

(* Agreed holds at the start,                                              *)
LEMMA AgreedStart == Init => Agreed
<1>. SUFFICES ASSUME Init PROVE Agreed
    OBVIOUS
<1>1. CallInv
    BY CallStart
<1>2. ~Open /\ 1 \in Conns /\ None \notin Conns
    BY CallAssumption DEF Init, Open, Conns
<1>3. DOMAIN inbox = {} /\ \A g \in Conns : DOMAIN reqs[g] = {}
    BY DEF Init
<1>4. Links
    BY <1>2, <1>3 DEF Init, Links
<1>. QED  BY <1>1, <1>2, <1>3, <1>4
          DEF Init, Agreed, SessionAgrees, VoiceFollows, StartFollows, StartHolds, StartLast, MicTold,
              FlagsLast, ShareTold, CaptureHeld, CaptureWanted, WantedHeard, ShownHeard

(* and after every step.                                                   *)
LEMMA AgreedKept == Agreed /\ [Next]_vars => Agreed'
<1>. SUFFICES ASSUME Agreed, [Next]_vars PROVE Agreed'
    OBVIOUS
<1>1. /\ CallInv /\ Links /\ SessionAgrees /\ VoiceFollows /\ StartFollows /\ StartHolds /\ StartLast
      /\ MicTold /\ FlagsLast /\ ShareTold /\ CaptureHeld /\ CaptureWanted /\ WantedHeard /\ ShownHeard
    BY DEF Agreed
<1>2. CallInv'
    BY <1>1, CallKept
<1>3. Links' /\ SessionAgrees' /\ VoiceFollows'
    BY <1>1, LinksKept, SessionAgreesKept, VoiceFollowsKept
<1>4. StartFollows' /\ StartHolds' /\ StartLast'
    BY <1>1, StartFollowsKept, StartHoldsKept, StartLastKept
<1>5. MicTold' /\ FlagsLast'
    BY <1>1, MicToldKept, FlagsLastKept
<1>6. ShareTold' /\ CaptureHeld' /\ CaptureWanted'
    BY <1>1, ShareToldKept, CaptureHeldKept, CaptureWantedKept
<1>7. WantedHeard' /\ ShownHeard'
    BY <1>1, WantedHeardKept, ShownHeardKept
<1>. QED  BY <1>2, <1>3, <1>4, <1>5, <1>6, <1>7 DEF Agreed

(* With nothing on its way, that is what a client may rely on.             *)
LEMMA AgreedSound == Agreed => CallSound /\ ShownAgrees
<1>. SUFFICES ASSUME Agreed PROVE CallSound /\ ShownAgrees
    OBVIOUS
<1>0. CallInv /\ Types
    BY DEF Agreed, CallInv
<1>1. ASSUME Quiet
      PROVE  Open /\ Caught /\ (\A types : ~Comes(types)) /\ (\A ops : ~Asks(ops)) /\ DOMAIN inbox = {}
    <2>1. Open /\ inbox = <<>> /\ reqs[link] = <<>>
        BY <1>0, <1>1 DEF Quiet, Open, Types
    <2>. QED  BY <2>1 DEF Caught, Comes, Asks
<1>2. CallAgrees
    <2>1. ASSUME Quiet
          PROVE  /\ voice # None => member # None /\ voice = member.s /\ inCall = member.c
                 /\ inCall # None => voice # None \/ "voice" \in untold
                 /\ link = 1 /\ member # None => voice # None \/ "voice" \in untold
        BY <1>1, <2>1 DEF Agreed, SessionAgrees, WantedHeard, ShownHeard
    <2>. QED  BY <2>1 DEF CallAgrees
<1>3. MicAgrees
    BY <1>1 DEF Agreed, MicAgrees, MicTold, Mine
<1>4. ShareAgrees
    <2>1. ASSUME Quiet, member # None, member.sharing, voice # None, "share" \notin untold
          PROVE  share = voice
        <3>1. voice = member.s
            BY <1>2, <2>1 DEF CallAgrees
        <3>2. Mine
            BY <1>1, <2>1, <3>1 DEF Mine
        <3>. QED  BY <1>1, <2>1, <3>1, <3>2 DEF Agreed, ShareTold, Starting
    <2>2. ASSUME Quiet, share # None, "capture" \notin untold
          PROVE  share = voice /\ member # None /\ member.sharing
        BY <1>1, <2>2 DEF Agreed, CaptureHeld
    <2>. QED  BY <2>1, <2>2 DEF ShareAgrees
<1>. QED  BY <1>0, <1>2, <1>3, <1>4 DEF CallSound, ShownAgrees

(* What client and server make of a call agrees once everything is read    *)
(* and answered: an audio session has the stream the server relays, in the *)
(* call the client wants, a wanted call is heard, and so is one somebody   *)
(* is shown in until a connection is lost, whatever was lost, rejoined or  *)
(* moved before (handle_server, rejoin_voice and start_voice in ui/mod.rs, *)
(* session.rs over hub.rs).                                                *)
THEOREM CallIsSound == Spec => []CallSound
<1>1. Init => Agreed
    BY AgreedStart
<1>2. Agreed /\ [Next]_vars => Agreed'
    BY AgreedKept
<1>3. Agreed => CallSound
    BY AgreedSound
<1>. QED  BY <1>1, <1>2, <1>3, PTL DEF Spec

(* Others are then shown the microphone as it is set, and a share exactly  *)
(* if it captures, but for what the client gave up without telling the     *)
(* server (set_voice_flags, begin_capture and check_share in ui/mod.rs,    *)
(* set_voice_flags and start_screen in hub.rs).                            *)
THEOREM ShownIsSo == Spec => []ShownAgrees
<1>1. Init => Agreed
    BY AgreedStart
<1>2. Agreed /\ [Next]_vars => Agreed'
    BY AgreedKept
<1>3. Agreed => ShownAgrees
    BY AgreedSound
<1>. QED  BY <1>1, <1>2, <1>3, PTL DEF Spec

=============================================================================

------------------------------ MODULE Pictures ------------------------------
(***************************************************************************)
(* A picture on its way from one screen to another.  The sending thread of *)
(* crates/boa-client/src/screen/send.rs cuts it into fragments             *)
(* (boa-proto/src/media.rs), the network loses, repeats and reorders them, *)
(* and the watcher of screen/recv.rs puts them together again: the tap on  *)
(* the network thread, then a bounded queue, then the decoder's thread.    *)
(*                                                                         *)
(* A picture is known by its place in the stream.  A picture that is not a *)
(* keyframe builds on the one before it; what the H.264 library makes of   *)
(* one whose foundation it does not have is open: an error or a smear.     *)
(***************************************************************************)
EXTENDS Integers, Sequences, FiniteSets, Functions, SequencesExt

CONSTANTS
    Sizes,          \* fragments a picture may have
    TsSpace,        \* milliseconds before a timestamp wraps (2^32 in the code)
    FirstTs,        \* timestamp of the first picture
    InFlight,       \* IN_FLIGHT
    QueueDepth,     \* QUEUE
    Keyframes,      \* places in the stream where the encoder makes a keyframe
    MaxPictures     \* bound on the pictures sent and the fragments that come twice

ASSUME PicturesAssumption ==
    /\ Sizes \subseteq Nat \ {0} /\ TsSpace \in Nat \ {0} /\ FirstTs \in 0 .. TsSpace - 1
    /\ InFlight \in Nat \ {0} /\ QueueDepth \in Nat \ {0}
    /\ 1 \in Keyframes /\ MaxPictures \in Nat /\ 2 * MaxPictures < TsSpace - 1

VARIABLES
    pictures,   \* what the sender put on the wire: keyframe, size, timestamp
    arrived,    \* fragments that have arrived
    copies,     \* those that arrived again so far
    building,   \* Reassembler.building: by timestamp, the pieces in their
                \*   places, Nothing where none has arrived
    newest,     \* Reassembler.newest, -1 for None
    tap,        \* the fragment in the tap's hands, and dropped as it read it
    queue,      \* pictures that wait for the decoder
    decoder,    \* started, and the picture it has decoded last
    dropped,    \* Tap.dropped, the same counter as Watcher.dropped
    why,        \* Loss
    refused,    \* pictures the decoder refused (history);
    raced       \*   it refused one while the tap was counting

assembler == <<building, newest>>
past == <<refused, raced>>
pictureVars == <<pictures, arrived, copies, assembler, tap, queue, decoder, dropped, why, past>>

Nothing == <<0, 0>>

----------------------------------------------------------------------------
(* The sender: Wire::put.                                                  *)

\* A picture of n fragments, in the same millisecond as the one before it or in
\* the next.
Put ==
    LET k == Len(pictures) + 1 IN
    /\ k + copies <= MaxPictures
    /\ \E n \in Sizes, pause \in {0, 1} :
        /\ k = 1 => pause = 0
        /\ pictures' = Append(pictures,
              [key |-> k \in Keyframes, size |-> n,
               ts |-> IF k = 1 THEN FirstTs ELSE (pictures[k - 1].ts + pause) % TsSpace])
    /\ UNCHANGED <<arrived, copies, assembler, tap, queue, decoder, dropped, why, past>>

\* fragment: the pieces of the pictures sent so far.
Fragments == UNION {{k} \X (1 .. pictures[k].size) : k \in DOMAIN pictures}

----------------------------------------------------------------------------
(* The network thread: Tap::feed on what arrives.                          *)

\* The tap takes a fragment and looks at the counter.
Take(f) ==
    /\ tap.fragment = Nothing
    /\ f \in arrived => Len(pictures) + copies < MaxPictures
    /\ copies' = IF f \in arrived THEN copies + 1 ELSE copies
    /\ arrived' = arrived \cup {f}
    /\ tap' = [fragment |-> f, before |-> dropped]
    /\ UNCHANGED <<pictures, assembler, queue, decoder, dropped, why, past>>

\* Mistake: a fragment that came before counts again.
AnyPiece(pieces, f) ==
    LET gaps == {i \in DOMAIN pieces : pieces[i] = Nothing}
    IN  IF gaps = {} THEN pieces ELSE [pieces EXCEPT ![CHOOSE i \in gaps : TRUE] = f]

\* A piece is put in its place, unless that is taken.
WithPiece(pieces, f) ==
    IF pieces[f[2]] = Nothing THEN [pieces EXCEPT ![f[2]] = f] ELSE pieces

Complete(pieces) == \A i \in DOMAIN pieces : pieces[i] # Nothing

\* newest.wrapping_sub(t)
Age(t, latest) == (latest - t) % TsSpace

\* Mistake: the greater timestamp is the newer one, though they wrap.
Greater(t, n) == IF n = -1 \/ t > n THEN t ELSE n

\* The newest timestamp, if t is seen after n.
Newer(t, n) == IF n = -1 \/ (t - n) % TsSpace < (TsSpace - 1) \div 2 THEN t ELSE n

\* note_newest: what is left of S when only the IN_FLIGHT latest are kept.
Latest(S, latest) ==
    IF Cardinality(S) <= InFlight THEN S
    ELSE {t \in S : Cardinality({u \in S : Age(u, latest) < Age(t, latest)}) < InFlight}

\* Reassembler::feed: what is building then, the picture that came of it, and how
\* many were given up.
Assembled(f) ==
    LET p == pictures[f[1]]
        ts == p.ts
        latest == Newer(ts, newest)
        known == ts \in DOMAIN building
        was == IF known THEN building[ts] ELSE [i \in 1 .. p.size |-> Nothing]
        pieces == WithPiece(was, f)
        \* What note_newest leaves of what is building.
        kept(S) == Latest(S, latest)
        all == DOMAIN building \cup {ts}
        gone(S) == Cardinality(S) - Cardinality(kept(S))
    IN
    IF p.size = 1
    THEN [building |-> Restrict(building, kept(DOMAIN building)), newest |-> latest,
          picture |-> <<f>>, lost |-> gone(DOMAIN building)]
    ELSE IF known /\ Len(building[ts]) # p.size
    THEN [building |-> Restrict(building, DOMAIN building \ {ts}), newest |-> newest,
          picture |-> <<>>, lost |-> 1]
    ELSE LET done == Complete(pieces) /\ ts \in kept(all) IN
         [building |-> [t \in kept(all) \ (IF done THEN {ts} ELSE {}) |->
                            IF t = ts THEN pieces ELSE building[t]],
          newest |-> latest,
          picture |-> IF done THEN pieces ELSE <<>>,
          lost |-> gone(all)]

\* What dropped is when the queue was full.
Overflowed(lost) == dropped + lost + 1

\* Tap::feed: the assembler counts what it gave up in dropped; the tap takes the
\* difference for what the network lost, and charges it to this fragment's kind.
Feed ==
    LET f == tap.fragment
        key == pictures[f[1]].key
        a == Assembled(f)
        lost == dropped + a.lost - tap.before
        full == a.picture # <<>> /\ Len(queue) = QueueDepth
        keys == (IF key THEN lost ELSE 0) + (IF key /\ full THEN 1 ELSE 0)
    IN
    /\ f # Nothing
    /\ building' = a.building
    /\ newest' = a.newest
    /\ queue' = IF a.picture # <<>> /\ ~full
                THEN Append(queue, [key |-> key, pieces |-> a.picture]) ELSE queue
    /\ dropped' = IF full THEN Overflowed(a.lost) ELSE dropped + a.lost
    /\ why' = [incomplete |-> why.incomplete + lost,
               no_room |-> why.no_room + (IF full THEN 1 ELSE 0),
               keyframes_lost |-> why.keyframes_lost + keys]
    /\ tap' = [fragment |-> Nothing, before |-> 0]
    /\ UNCHANGED <<pictures, arrived, copies, decoder, past>>

----------------------------------------------------------------------------
(* The decoder's thread: decode_loop.                                      *)

\* All the fragments of one picture, each in its place.
Whole(pieces) ==
    LET k == pieces[1][1] IN pieces = [i \in 1 .. pictures[k].size |-> <<k, i>>]

\* Whether the decoder has what a picture builds on.
Founded(k) == pictures[k].key \/ decoder.last = k - 1

Decode ==
    LET next == Head(queue)
        k == next.pieces[1][1]
        sound == Whole(next.pieces) /\ Founded(k)
    IN
    /\ queue # <<>>
    /\ queue' = Tail(queue)
    /\ \/ /\ ~decoder.started /\ ~next.key
          /\ UNCHANGED <<decoder, dropped, past>>
       \/ /\ decoder.started \/ next.key
          /\ \/ /\ decoder' = [started |-> TRUE, last |-> IF sound THEN k ELSE 0]
                /\ UNCHANGED <<dropped, past>>
             \/ /\ ~sound
                /\ decoder' = [started |-> FALSE, last |-> 0]
                \* The thread is handed dropped where it asks for failed.
                /\ dropped' = dropped + 1
                /\ refused' = refused + 1
                /\ raced' = (raced \/ tap.fragment # Nothing)
    /\ UNCHANGED <<pictures, arrived, copies, assembler, tap, why>>

----------------------------------------------------------------------------
PicturesInit ==
    /\ pictures = <<>> /\ arrived = {} /\ copies = 0
    /\ building = <<>> /\ newest = -1
    /\ tap = [fragment |-> Nothing, before |-> 0]
    /\ queue = <<>>
    /\ decoder = [started |-> FALSE, last |-> 0]
    /\ dropped = 0
    /\ why = [incomplete |-> 0, no_room |-> 0, keyframes_lost |-> 0]
    /\ refused = 0 /\ raced = FALSE

PicturesNext ==
    \/ Put
    \/ \E f \in Fragments : Take(f)
    \/ Feed
    \/ Decode

PicturesSpec == PicturesInit /\ [][PicturesNext]_pictureVars

----------------------------------------------------------------------------
(* What the decoder is given, and what is said of the rest.                *)

Twins(i, j) == i # j /\ pictures[i].ts = pictures[j].ts /\ pictures[i].size = pictures[j].size

(* The decoder is only ever given whole pictures that are what they are    *)
(* said to be, keyframe or not, however their fragments arrive -- unless   *)
(* two pictures of one millisecond were cut into as many fragments.        *)
(* (Reassembler::feed, Tap::feed)                                          *)
OnlyWhole ==
    \A n \in DOMAIN queue :
        LET pieces == queue[n].pieces
            k == pieces[1][1]
        IN  \/ Whole(pieces) /\ queue[n].key = pictures[k].key
            \/ \E j \in DOMAIN pictures : Twins(j, k)

(* Every picture that never came to be seen is counted, once and for its   *)
(* own reason: lost on the way, no room for it, or refused -- but for what *)
(* the decoder refuses while the tap is counting. (Tap::feed, decode_loop) *)
CausesAddUp ==
    tap.fragment = Nothing /\ ~raced => why.incomplete + why.no_room + refused = dropped

(* What the decoder is given is whole, and what it never sees is accounted *)
(* for: OnlyWhole and CausesAddUp.                                         *)
Accounted == OnlyWhole /\ CausesAddUp

Place(t) == CHOOSE k \in DOMAIN pictures :
    pictures[k].ts = t /\ \A j \in DOMAIN pictures : pictures[j].ts = t => k <= j

(* A picture is only given up for as many later ones as may be in flight,  *)
(* through the wrap of the timestamps too. (note_newest)                   *)
OldestGivenUp ==
    [][\A t \in DOMAIN building \ DOMAIN building' :
          t # pictures[tap.fragment[1]].ts =>
              /\ Cardinality(DOMAIN building') >= InFlight - 1
              /\ \A u \in DOMAIN building' : Place(u) > Place(t)]_pictureVars

============================================================================

--------------------------- MODULE SessionProofs ---------------------------
(***************************************************************************)
(* Proofs of what Hub and Session promise, for every value of their        *)
(* constants.  First the hub by itself: a theorem of it is one of HubSpec, *)
(* whoever calls its operations.  Then the sessions that call them, which  *)
(* are shown to do so only as Hub allows.                                  *)
(***************************************************************************)
EXTENDS Session, FiniteSetTheorems, SequenceTheorems, TLAPS

USE DEF SsrcIds

----------------------------------------------------------------------------
(* Stream ids.                                                             *)

(* At least two ids are free when u joins: the others hold two each.  The  *)
(* loop of take_ssrc therefore ends, and its second id is not its first.   *)
LEMMA TwoFreeSsrcs ==
    ASSUME HubTypeOK, IndexExact, NEW u \in Users
    PROVE  \A v : SsrcIds \ KeptSsrcs(u) # {v}
<1> DEFINE others == InCall \ {u}
           voices == {members[w].voice : w \in others}
           screens == {members[w].screen : w \in others}
           free == SsrcIds \ KeptSsrcs(u)
<1>1. IsFiniteSet(others) /\ Cardinality(others) <= Cardinality(Users) - 1
      /\ Cardinality(Users) \in Nat /\ Cardinality(others) \in Nat
  <2>1. IsFiniteSet(Users) /\ IsFiniteSet(Users \ {u})
        /\ Cardinality(Users \ {u}) = Cardinality(Users) - 1
    BY HubAssumption, FS_RemoveElement
  <2>2. others \subseteq Users \ {u}
    BY DEF HubTypeOK
  <2> QED
    BY <2>1, <2>2, FS_Subset, FS_CardinalityType
<1>2. IsFiniteSet(voices) /\ Cardinality(voices) <= Cardinality(others)
  <2> DEFINE f == [w \in others |-> members[w].voice]
  <2>1. f \in Surjection(others, voices)
    BY DEF Surjection
  <2> QED
    BY <2>1, <1>1, FS_Surjection
<1>3. IsFiniteSet(screens) /\ Cardinality(screens) <= Cardinality(others)
  <2> DEFINE f == [w \in others |-> members[w].screen]
  <2>1. f \in Surjection(others, screens)
    BY DEF Surjection
  <2> QED
    BY <2>1, <1>1, FS_Surjection
<1>4. IsFiniteSet(voices \cup screens)
      /\ Cardinality(voices \cup screens) <= 2 * (Cardinality(Users) - 1)
  <2> HIDE DEF voices, screens, others
  <2>1. /\ Cardinality(voices) \in Nat /\ Cardinality(screens) \in Nat
        /\ Cardinality(voices \cap screens) \in Nat
    BY <1>2, <1>3, FS_CardinalityType, FS_Intersection
  <2>2. IsFiniteSet(voices \cup screens)
    BY <1>2, <1>3, FS_Union
  <2>3. Cardinality(voices \cup screens) = Cardinality(voices)
            + Cardinality(screens) - Cardinality(voices \cap screens)
    BY <1>2, <1>3, FS_Union
  <2> QED
    BY <1>1, <1>2, <1>3, <2>1, <2>2, <2>3
<1>5. KeptSsrcs(u) \subseteq voices \cup screens
  BY DEF KeptSsrcs, IndexExact
<1>6. IsFiniteSet(KeptSsrcs(u)) /\ Cardinality(KeptSsrcs(u)) \in Nat
      /\ Cardinality(KeptSsrcs(u)) <= 2 * (Cardinality(Users) - 1)
  <2> HIDE DEF voices, screens
  <2>1. KeptSsrcs(u) \in SUBSET (voices \cup screens)
    BY <1>5
  <2>2. Cardinality(voices \cup screens) \in Nat
    BY <1>4, FS_CardinalityType
  <2> QED
    BY <1>4, <1>1, <2>1, <2>2, FS_Subset, FS_CardinalityType
<1>7. IsFiniteSet(SsrcIds) /\ Cardinality(SsrcIds) = SsrcSpace - 1
  <2>1. SsrcSpace \in Nat /\ SsrcSpace > 0
    BY <1>1, HubAssumption
  <2> QED
    BY <2>1, FS_Interval
<1>8. Cardinality(free) >= 2
  <2>1. Cardinality(SsrcIds \cap KeptSsrcs(u)) <= Cardinality(KeptSsrcs(u))
        /\ Cardinality(SsrcIds \cap KeptSsrcs(u)) \in Nat
    BY <1>6, FS_Intersection, FS_CardinalityType
  <2>2. Cardinality(free)
            = Cardinality(SsrcIds) - Cardinality(SsrcIds \cap KeptSsrcs(u))
    BY <1>7, FS_Difference
  <2> QED
    BY <1>1, <1>6, <1>7, <2>1, <2>2, HubAssumption
<1>9. \A v : Cardinality({v}) = 1
  BY FS_Singleton
<1> QED
  <2> SUFFICES ASSUME NEW v, free = {v} PROVE FALSE
    OBVIOUS
  <2>1. Cardinality(free) = 1
    BY <1>9
  <2> HIDE DEF free
  <2> QED
    BY <2>1, <1>8

(* take_ssrc called twice returns two different ids.                       *)
LEMMA TakesTwo ==
    ASSUME NEW from \in 0 .. (SsrcSpace - 1), NEW free \in SUBSET SsrcIds,
           \A x : free # {x}, SsrcSpace \in Nat,
           NEW v \in free, NEW s \in free,
           Takes(Successor(v), free, s)
    PROVE  v # s
<1> SUFFICES ASSUME v = s PROVE FALSE
  OBVIOUS
<1>1. \A t \in SsrcIds : t # v => t \in PassedOver(Successor(v), v)
  BY DEF PassedOver, Successor
<1>2. free = {v}
  BY <1>1 DEF Takes
<1> QED
  BY <1>2

----------------------------------------------------------------------------
(* Steps that change fields of members without touching who they are.      *)

LEMMA FieldsOnly ==
    ASSUME HubInv,
           InCall' = InCall, members' \in [InCall -> Member],
           \A u \in InCall : /\ members'[u].channel = members[u].channel
                             /\ members'[u].voice = members[u].voice
                             /\ members'[u].screen = members[u].screen
                             /\ \A v \in members'[u].watching : SameCall(u, v),
           UNCHANGED <<bySsrc, keys, nextSsrc, joins, handed>>,
           relay' \in Registration \cup {Idle}
    PROVE  HubInv'
<1>0. /\ HubTypeOK /\ IndexExact /\ KeyHolders
      /\ KeysExact /\ WatchingWithinCall /\ KeysIssued
  BY DEF HubInv
<1>1. HubTypeOK'
  BY <1>0 DEF HubTypeOK
<1>2. IndexExact'
  BY <1>0 DEF IndexExact
<1>3. KeyHolders'
  BY <1>0 DEF KeyHolders
<1>4. KeysExact'
  BY <1>0 DEF KeysExact
<1>5. WatchingWithinCall'
  BY <1>0 DEF WatchingWithinCall, SameCall
<1>6. KeysIssued'
  BY <1>0 DEF KeysIssued
<1> QED
  BY <1>1, <1>2, <1>3, <1>4, <1>5, <1>6 DEF HubInv

LEMMA SetVoiceFlagsInv ==
    ASSUME HubInv, NEW u \in Users, NEW f \in VoiceFlags, SetVoiceFlags(u, f)
    PROVE  HubInv'
<1>1. members \in [InCall -> Member] /\ relay \in Registration \cup {Idle}
  BY DEF HubInv, HubTypeOK
<1>2. members' \in [InCall -> Member] /\ InCall' = InCall
  BY <1>1 DEF SetVoiceFlags, Member, InCall
<1>3. \A w \in InCall : \A v \in members[w].watching : SameCall(w, v)
  BY DEF HubInv, WatchingWithinCall
<1> QED
  BY <1>1, <1>2, <1>3, FieldsOnly DEF SetVoiceFlags, Member

LEMMA StartScreenInv ==
    ASSUME HubInv, NEW u \in Users, StartScreen(u)
    PROVE  HubInv'
<1>1. members \in [InCall -> Member] /\ relay \in Registration \cup {Idle}
  BY DEF HubInv, HubTypeOK
<1>2. members' \in [InCall -> Member] /\ InCall' = InCall
  BY <1>1 DEF StartScreen, Member, InCall
<1>3. \A w \in InCall : \A v \in members[w].watching : SameCall(w, v)
  BY DEF HubInv, WatchingWithinCall
<1> QED
  BY <1>1, <1>2, <1>3, FieldsOnly DEF StartScreen, Member

LEMMA StopScreenInv ==
    ASSUME HubInv, NEW u \in Users, StopScreen(u)
    PROVE  HubInv'
<1>1. members \in [InCall -> Member] /\ relay \in Registration \cup {Idle}
  BY DEF HubInv, HubTypeOK
<1>2. members' \in [InCall -> Member] /\ InCall' = InCall
  <2>1. members' = [v \in InCall |-> [members[v] EXCEPT !.sharing = @ /\ v # u, !.watching = @ \ {u}]]
    BY DEF StopScreen
  <2>2. ASSUME NEW v \in InCall
        PROVE  [members[v] EXCEPT !.sharing = @ /\ v # u, !.watching = @ \ {u}] \in Member
    BY <1>1 DEF Member
  <2> QED
    BY <2>1, <2>2 DEF InCall
<1>3. \A w \in InCall : \A v \in members[w].watching : SameCall(w, v)
  BY DEF HubInv, WatchingWithinCall
<1> QED
  BY <1>1, <1>2, <1>3, FieldsOnly DEF StopScreen, Member

LEMMA WatchInv ==
    ASSUME HubInv, NEW u \in Users, NEW v \in Users, Watch(u, v)
    PROVE  HubInv'
<1>1. members \in [InCall -> Member] /\ relay \in Registration \cup {Idle}
  BY DEF HubInv, HubTypeOK
<1>2. members' \in [InCall -> Member] /\ InCall' = InCall
  BY <1>1 DEF Watch, Member, InCall, SameCall
<1>3. \A w \in InCall : \A x \in members[w].watching : SameCall(w, x)
  BY DEF HubInv, WatchingWithinCall
<1>4. \A w \in InCall : \A x \in members'[w].watching : SameCall(w, x)
  BY <1>1, <1>3 DEF Watch, Member, SameCall
<1> QED
  BY <1>1, <1>2, <1>4, FieldsOnly DEF Watch, Member

LEMMA UnwatchInv ==
    ASSUME HubInv, NEW u \in Users, NEW v \in Users, Unwatch(u, v)
    PROVE  HubInv'
<1>1. members \in [InCall -> Member] /\ relay \in Registration \cup {Idle}
  BY DEF HubInv, HubTypeOK
<1>2. members' \in [InCall -> Member] /\ InCall' = InCall
  BY <1>1 DEF Unwatch, Member, InCall
<1>3. \A w \in InCall : \A x \in members[w].watching : SameCall(w, x)
  BY DEF HubInv, WatchingWithinCall
<1> QED
  BY <1>1, <1>2, <1>3, FieldsOnly DEF Unwatch, Member

(* Routing a registration reads the hub and remembers what it read.        *)
LEMMA RelayRouteInv ==
    ASSUME HubInv, NEW u \in Users, NEW d \in SentBy(u), RelayRoute(d)
    PROVE  HubInv'
<1>1. members \in [InCall -> Member] /\ InCall' = InCall
  BY DEF HubInv, HubTypeOK, RelayRoute, InCall
<1>2. \A w \in InCall : \A x \in members[w].watching : SameCall(w, x)
  BY DEF HubInv, WatchingWithinCall
<1>3. relay' \in Registration
  <2>1. d.sealed \in Nat /\ d.from \in Addrs
    BY HubAssumption
    DEF HubInv, HubTypeOK, SentBy, Datagram, Credential
  <2>2. d.ssrc \in SsrcIds /\ Sender(d) \in Users
    BY DEF HubInv, HubTypeOK, RelayRoute, Registers, Known, Sender
  <2>3. keys[members[Sender(d)].channel] \in Nat
    BY DEF HubInv, HubTypeOK, RelayRoute, Registers
  <2> QED
    BY <2>1, <2>2, <2>3 DEF RelayRoute, Registration
<1> QED
  BY <1>1, <1>2, <1>3, FieldsOnly DEF RelayRoute

LEMMA RelayBindInv ==
    ASSUME HubInv, RelayBind
    PROVE  HubInv'
<1>1. members \in [InCall -> Member] /\ relay \in Registration
  BY DEF HubInv, HubTypeOK, RelayBind
<1>2. members' \in [InCall -> Member] /\ InCall' = InCall
  <2>1. CASE members' = members
    BY <1>1, <2>1 DEF InCall
  <2>2. CASE relay.user \in InCall /\ members' = [members EXCEPT ![relay.user].addr = relay.from]
    <3>1. relay.from \in Addrs
      BY <1>1 DEF Registration
    <3>2. [members[relay.user] EXCEPT !.addr = relay.from] \in Member
      BY <1>1, <2>2, <3>1 DEF Member
    <3> QED
      BY <1>1, <2>2, <3>2 DEF InCall
  <2> QED
    BY <2>1, <2>2 DEF RelayBind
<1>3. \A w \in InCall : \A x \in members[w].watching : SameCall(w, x)
  BY DEF HubInv, WatchingWithinCall
<1> QED
  BY <1>1, <1>2, <1>3, FieldsOnly DEF RelayBind, Member

----------------------------------------------------------------------------
(* Departures.  The first three lemmas serve joins too, which begin by     *)
(* taking the joiner out of whatever call they were in.                    *)

LEMMA RemainingMembers ==
    ASSUME HubTypeOK, NEW u \in Users, NEW w \in InCall \ {u}
    PROVE  /\ MembersWithout(u)[w] \in Member
           /\ MembersWithout(u)[w].channel = members[w].channel
           /\ MembersWithout(u)[w].voice = members[w].voice
           /\ MembersWithout(u)[w].screen = members[w].screen
           /\ MembersWithout(u)[w].watching = members[w].watching \ {u}
<1>1. members[w] \in Member
  BY DEF HubTypeOK
<1> QED
  BY <1>1 DEF MembersWithout, Member

(* The ids that stay indexed are exactly the remaining members'.           *)
LEMMA RemainingSsrcs ==
    ASSUME IndexExact, NEW u
    PROVE  /\ \A w \in InCall \ {u} :
                /\ members[w].voice \in KeptSsrcs(u)
                /\ members[w].screen \in KeptSsrcs(u)
           /\ \A s \in KeptSsrcs(u) : bySsrc[s] \in InCall \ {u}
BY DEF IndexExact, KeptSsrcs

(* The keys that stay are those of the channels that stay occupied.        *)
LEMMA RemainingKeys ==
    ASSUME KeysExact, NEW u
    PROVE  /\ DOMAIN KeysWithout(u)
                    = {members[w].channel : w \in InCall \ {u}}
           /\ \A c \in DOMAIN KeysWithout(u) :
                    c \in DOMAIN keys /\ KeysWithout(u)[c] = keys[c]
<1> DEFINE kept == {d \in DOMAIN keys : u \in Occupants(d) => Others(u, d) # {}}
<1>1. DOMAIN KeysWithout(u) = kept /\ \A c \in kept : KeysWithout(u)[c] = keys[c]
  BY DEF KeysWithout
<1>2. kept \subseteq {members[w].channel : w \in InCall \ {u}}
  BY DEF KeysExact, Occupants, Others
<1>3. {members[w].channel : w \in InCall \ {u}} \subseteq kept
  BY DEF KeysExact, Occupants, Others
<1> QED
  BY <1>1, <1>2, <1>3

LEMMA LeaveVoiceInv ==
    ASSUME HubInv, NEW u \in Users, LeaveVoice(u)
    PROVE  HubInv'
<1> USE DEF HubInv
<1>1. /\ InCall' = InCall \ {u}
      /\ members' = MembersWithout(u)
      /\ DOMAIN bySsrc' = KeptSsrcs(u)
      /\ \A s \in KeptSsrcs(u) : bySsrc'[s] = bySsrc[s]
      /\ keys' = KeysWithout(u)
  BY DEF LeaveVoice, MembersWithout, InCall
<1>2. \A w \in InCall' :
        /\ members'[w] \in Member
        /\ members'[w].channel = members[w].channel
        /\ members'[w].voice = members[w].voice
        /\ members'[w].screen = members[w].screen
        /\ members'[w].watching = members[w].watching \ {u}
  BY <1>1, RemainingMembers
<1>kept. /\ DOMAIN keys' = {members[w].channel : w \in InCall \ {u}}
      /\ \A c \in DOMAIN keys' : c \in DOMAIN keys /\ keys'[c] = keys[c]
  <2>1. KeysExact
    OBVIOUS
  <2> QED
    BY <1>1, <2>1, RemainingKeys
<1>3. HubTypeOK'
  <2>1. members' \in [InCall' -> Member] /\ InCall' \subseteq Users
    BY <1>1, <1>2 DEF HubTypeOK, MembersWithout
  <2>2. bySsrc' \in [DOMAIN bySsrc' -> Users]
        /\ DOMAIN bySsrc' \subseteq SsrcIds
    BY DEF HubTypeOK, LeaveVoice, KeptSsrcs
  <2>3. keys' \in [DOMAIN keys' -> Nat] /\ DOMAIN keys' \subseteq Channels
    BY DEF HubTypeOK, LeaveVoice, KeysWithout
  <2> QED
    BY <2>1, <2>2, <2>3 DEF HubTypeOK, LeaveVoice
<1>4. IndexExact'
  BY <1>1, <1>2, RemainingSsrcs DEF IndexExact, KeptSsrcs
<1>5. KeyHolders'
  BY <1>1, <1>2, <1>kept DEF KeyHolders, LeaveVoice, HubTypeOK
<1>6. KeysExact'
  BY <1>1, <1>2, <1>kept DEF KeysExact
<1>7. WatchingWithinCall'
  BY <1>1, <1>2 DEF WatchingWithinCall, SameCall
<1>8. KeysIssued'
  BY <1>1, <1>kept DEF KeysIssued, LeaveVoice
<1> QED
  BY <1>3, <1>4, <1>5, <1>6, <1>7, <1>8

----------------------------------------------------------------------------
(* Joins.                                                                  *)

LEMMA JoinVoiceInv ==
    ASSUME HubInv, NEW u \in Users, NEW c \in Channels, JoinVoice(u, c)
    PROVE  HubInv'
<1> USE DEF HubInv
<1> DEFINE free == SsrcIds \ KeptSsrcs(u)
           kept == KeysWithout(u)
           key  == IF c \in DOMAIN kept THEN kept[c] ELSE joins
           silent == [muted |-> FALSE, deafened |-> FALSE]
<1>1. PICK v \in free, s \in free :
        /\ Takes(Successor(v), free, s)
        /\ nextSsrc' = Successor(s)
        /\ bySsrc' = [t \in KeptSsrcs(u) \cup {v, s} |->
                        IF t \in {v, s} THEN u ELSE bySsrc[t]]
        /\ members' = [w \in InCall \cup {u} |->
                        IF w = u
                        THEN [channel |-> c, voice |-> v, screen |-> s,
                              flags |-> silent, sharing |-> FALSE,
                              watching |-> {}, addr |-> NoAddr]
                        ELSE MembersWithout(u)[w]]
        /\ handed' = [handed EXCEPT ![u] =
                        @ \cup {[voice |-> v, screen |-> s, key |-> key]}]
  BY DEF JoinVoice
<1>2. /\ keys' = [d \in DOMAIN kept \cup {c} |->
                    IF d = c THEN key ELSE kept[d]]
      /\ joins' = joins + 1
      /\ relay' = relay
  BY DEF JoinVoice
<1>3. v # s
  <2>1. SsrcSpace \in Nat /\ SsrcSpace > 0
    <3>1. Cardinality(Users) \in Nat
      BY HubAssumption, FS_CardinalityType
    <3> QED
      BY <3>1, HubAssumption
  <2>2. Successor(v) \in 0 .. (SsrcSpace - 1)
    BY <2>1 DEF Successor
  <2> QED
    BY <1>1, <2>1, <2>2, TwoFreeSsrcs, TakesTwo
<1>4. /\ InCall' = InCall \cup {u}
      /\ members'[u] \in Member
      /\ members'[u].channel = c /\ members'[u].watching = {}
      /\ members'[u].voice = v /\ members'[u].screen = s
  BY <1>1 DEF Member, InCall
<1>5. \A w \in InCall \ {u} :
        /\ members'[w] \in Member
        /\ members'[w].channel = members[w].channel
        /\ members'[w].voice = members[w].voice
        /\ members'[w].screen = members[w].screen
        /\ members'[w].watching = members[w].watching \ {u}
  <2>1. \A w \in InCall \ {u} : members'[w] = MembersWithout(u)[w]
    BY <1>1
  <2> QED
    BY <2>1, RemainingMembers
<1>6. /\ DOMAIN kept = {members[w].channel : w \in InCall \ {u}}
      /\ \A d \in DOMAIN kept : d \in DOMAIN keys /\ kept[d] = keys[d]
  BY RemainingKeys
<1>7. key \in Nat /\ key < joins'
  BY <1>2, <1>6 DEF HubTypeOK, KeysIssued
<1>8. /\ DOMAIN keys' = DOMAIN kept \cup {c}
      /\ keys'[c] = key
      /\ \A d \in DOMAIN kept : keys'[d] = keys[d]
  BY <1>2, <1>6
<1> HIDE DEF key, kept
<1>9. HubTypeOK'
  <2>1. members' \in [InCall' -> Member] /\ InCall' \subseteq Users
    BY <1>1, <1>4, <1>5 DEF HubTypeOK, InCall
  <2>2. bySsrc' \in [DOMAIN bySsrc' -> Users]
        /\ DOMAIN bySsrc' \subseteq SsrcIds
    BY <1>1 DEF HubTypeOK, KeptSsrcs
  <2>3. keys' \in [DOMAIN keys' -> Nat] /\ DOMAIN keys' \subseteq Channels
    BY <1>2, <1>6, <1>7 DEF HubTypeOK
  <2>4. nextSsrc' \in 0 .. (SsrcSpace - 1)
    BY <1>1, HubAssumption DEF Successor
  <2>5. handed' \in [Users -> SUBSET Credential]
    BY <1>1, <1>7 DEF HubTypeOK, Credential
  <2> QED
    BY <1>2, <2>1, <2>2, <2>3, <2>4, <2>5 DEF HubTypeOK
<1>10. IndexExact'
  <2>1. \A w \in InCall \ {u} :
            /\ members[w].voice \in KeptSsrcs(u)
            /\ members[w].screen \in KeptSsrcs(u)
    BY RemainingSsrcs
  <2>2. \A t \in KeptSsrcs(u) : bySsrc'[t] = bySsrc[t]
    BY <1>1
  <2>3. bySsrc'[v] = u /\ bySsrc'[s] = u
        /\ DOMAIN bySsrc' = KeptSsrcs(u) \cup {v, s}
    BY <1>1
  <2>4. \A t \in KeptSsrcs(u) : /\ bySsrc[t] \in InCall \ {u}
                                /\ t \in {members[bySsrc[t]].voice,
                                          members[bySsrc[t]].screen}
    BY RemainingSsrcs DEF IndexExact, KeptSsrcs
  <2> QED
    BY <1>3, <1>4, <1>5, <2>1, <2>2, <2>3, <2>4 DEF IndexExact, KeptSsrcs
<1>11. KeyHolders'
  <2>1. [voice |-> v, screen |-> s, key |-> key] \in handed'[u]
    BY <1>1 DEF HubTypeOK
  <2>2. \A w \in Users : handed[w] \subseteq handed'[w]
    BY <1>1 DEF HubTypeOK
  <2>3. \A w \in InCall \ {u} : members'[w].channel \in DOMAIN kept
    BY <1>5, <1>6
  <2>4. \A w \in InCall \ {u} :
            [voice |-> members[w].voice, screen |-> members[w].screen,
             key |-> keys[members[w].channel]] \in handed[w] /\ w \in Users
    BY DEF KeyHolders, HubTypeOK
  <2>5. \A w \in InCall \ {u} :
            keys'[members'[w].channel] = keys[members[w].channel]
    BY <1>5, <1>8, <2>3
  <2> QED
    BY <1>4, <1>5, <1>8, <2>1, <2>2, <2>3, <2>4, <2>5 DEF KeyHolders
<1>12. KeysExact'
  BY <1>4, <1>5, <1>6, <1>8 DEF KeysExact
<1>13. WatchingWithinCall'
  BY <1>4, <1>5 DEF WatchingWithinCall, SameCall
<1>14. KeysIssued'
  <2>1. \A d \in DOMAIN keys' : keys'[d] < joins'
    BY <1>2, <1>6, <1>7, <1>8 DEF KeysIssued, HubTypeOK
  <2>2. \A w \in Users : \A cred \in handed'[w] : cred.key < joins'
    BY <1>1, <1>2, <1>7 DEF KeysIssued, HubTypeOK, Credential
  <2> QED
    BY <2>1, <2>2 DEF KeysIssued
<1> QED
  BY <1>9, <1>10, <1>11, <1>12, <1>13, <1>14

----------------------------------------------------------------------------
(* The promises.                                                           *)

LEMMA HubInitInv == HubInit => HubInv
<1> SUFFICES ASSUME HubInit PROVE HubInv
  OBVIOUS
<1>1. InCall = {} /\ DOMAIN bySsrc = {} /\ DOMAIN keys = {}
  BY DEF HubInit, InCall
<1>2. SsrcSpace \in Nat /\ SsrcSpace > 1
  BY HubAssumption
<1>3. HubTypeOK
  BY <1>1, <1>2 DEF HubInit, HubTypeOK
<1>4. IndexExact /\ KeyHolders /\ KeysExact /\ WatchingWithinCall
  BY <1>1 DEF IndexExact, KeyHolders, KeysExact, WatchingWithinCall
<1>5. KeysIssued
  BY <1>1 DEF HubInit, KeysIssued
<1> QED
  BY <1>3, <1>4, <1>5 DEF HubInv

LEMMA HubNextInv == HubInv /\ [HubNext]_hubVars => HubInv'
<1> SUFFICES ASSUME HubInv, [HubNext]_hubVars PROVE HubInv'
  OBVIOUS
<1>1. ASSUME NEW u \in Users, NEW c \in Channels, JoinVoice(u, c)
      PROVE  HubInv'
  BY <1>1, JoinVoiceInv
<1>2. ASSUME NEW u \in Users, LeaveVoice(u) PROVE HubInv'
  BY <1>2, LeaveVoiceInv
<1>3. ASSUME NEW u \in Users, NEW f \in VoiceFlags, SetVoiceFlags(u, f)
      PROVE  HubInv'
  BY <1>3, SetVoiceFlagsInv
<1>4. ASSUME NEW u \in Users, StartScreen(u) PROVE HubInv'
  BY <1>4, StartScreenInv
<1>5. ASSUME NEW u \in Users, StopScreen(u) PROVE HubInv'
  BY <1>5, StopScreenInv
<1>6. ASSUME NEW u \in Users, NEW v \in Users, Watch(u, v) PROVE HubInv'
  BY <1>6, WatchInv
<1>7. ASSUME NEW u \in Users, NEW v \in Users, Unwatch(u, v) PROVE HubInv'
  BY <1>7, UnwatchInv
<1>8. ASSUME NEW u \in Users, NEW d \in SentBy(u), RelayRoute(d) PROVE HubInv'
  BY <1>8, RelayRouteInv
<1>9. ASSUME RelayBind PROVE HubInv'
  BY <1>9, RelayBindInv
<1>10. ASSUME UNCHANGED hubVars PROVE HubInv'
  <2>1. UNCHANGED <<members, bySsrc, keys, nextSsrc, joins, relay, handed>>
    BY <1>10 DEF hubVars
  <2> QED
    BY <2>1 DEF HubInv, HubTypeOK, IndexExact, KeyHolders, KeysExact,
        WatchingWithinCall, KeysIssued, InCall, SameCall
<1> QED
  BY <1>1, <1>2, <1>3, <1>4, <1>5, <1>6, <1>7, <1>8, <1>9, <1>10
  DEF HubNext, MemberNext, RelayNext

(* Every reachable state of the hub satisfies the inductive invariant.     *)
THEOREM HubInvariant == HubSpec => []HubInv
<1> QED
  BY HubInitInv, HubNextInv, PTL DEF HubSpec

(* Everything the hub keeps has its type (hub.rs:58-88).                   *)
THEOREM HubTypeCorrect == HubSpec => []HubTypeOK
<1>1. HubInv => HubTypeOK
  BY DEF HubInv
<1> QED
  BY <1>1, HubInvariant, PTL

(* A stream id always leads to the one member who holds it (hub.rs:228-267 *)
(* and 466-498), so the relay attributes no packet to a former member.     *)
THEOREM HubIndexExact == HubSpec => []IndexExact
<1>1. HubInv => IndexExact
  BY DEF HubInv
<1> QED
  BY <1>1, HubInvariant, PTL

(* Whoever is in a call was handed the key it uses (hub.rs:228-267,        *)
(* 481-498): no join or departure of another member changes it.            *)
THEOREM HubKeyHolders == HubSpec => []KeyHolders
<1>1. HubInv => KeyHolders
  BY DEF HubInv
<1> QED
  BY <1>1, HubInvariant, PTL

(* A key exists exactly for the occupied channels (hub.rs:488-497).        *)
THEOREM HubKeysExact == HubSpec => []KeysExact
<1>1. HubInv => KeysExact
  BY DEF HubInv
<1> QED
  BY <1>1, HubInvariant, PTL

(* Nobody watches across calls (hub.rs:320-332, 481-498).                  *)
THEOREM HubWatchingWithinCall == HubSpec => []WatchingWithinCall
<1>1. HubInv => WatchingWithinCall
  BY DEF HubInv
<1> QED
  BY <1>1, HubInvariant, PTL

----------------------------------------------------------------------------
(* What a step may never do.  Both properties are trivial for a step that  *)
(* leaves the call, the voice id and the key of every member alone and     *)
(* whose keys are not new; that leaves departures and joins.               *)

LEMMA QuietSteps ==
    ASSUME HubInv, [HubNext]_hubVars,
           ~\E u \in Users : LeaveVoice(u) \/ \E c \in Channels : JoinVoice(u, c)
    PROVE  /\ InCall' = InCall /\ keys' = keys
           /\ \A u \in InCall : /\ members'[u].channel = members[u].channel
                               /\ members'[u].voice = members[u].voice
<1>1. members \in [InCall -> Member]
  BY DEF HubInv, HubTypeOK
<1>2. ASSUME NEW u \in Users, NEW f \in VoiceFlags, SetVoiceFlags(u, f)
      PROVE  /\ InCall' = InCall /\ keys' = keys
             /\ \A w \in InCall : /\ members'[w].channel = members[w].channel
                                 /\ members'[w].voice = members[w].voice
  BY <1>1, <1>2 DEF SetVoiceFlags, Member, InCall
<1>3. ASSUME NEW u \in Users, StartScreen(u) \/ StopScreen(u)
      PROVE  /\ InCall' = InCall /\ keys' = keys
             /\ \A w \in InCall : /\ members'[w].channel = members[w].channel
                                 /\ members'[w].voice = members[w].voice
  <2>1. CASE StartScreen(u)
    BY <1>1, <2>1 DEF StartScreen, Member, InCall
  <2>2. CASE StopScreen(u)
    BY <1>1, <2>2 DEF StopScreen, Member, InCall
  <2> QED
    BY <1>3, <2>1, <2>2
<1>4. ASSUME NEW u \in Users, NEW v \in Users, Watch(u, v) \/ Unwatch(u, v)
      PROVE  /\ InCall' = InCall /\ keys' = keys
             /\ \A w \in InCall : /\ members'[w].channel = members[w].channel
                                 /\ members'[w].voice = members[w].voice
  <2>1. CASE Watch(u, v)
    BY <1>1, <2>1 DEF Watch, Member, InCall
  <2>2. CASE Unwatch(u, v)
    BY <1>1, <2>2 DEF Unwatch, Member, InCall
  <2> QED
    BY <1>4, <2>1, <2>2
<1>5. ASSUME RelayNext
      PROVE  /\ InCall' = InCall /\ keys' = keys
             /\ \A w \in InCall : /\ members'[w].channel = members[w].channel
                                 /\ members'[w].voice = members[w].voice
  <2>1. ASSUME NEW u \in Users, NEW d \in SentBy(u), RelayRoute(d)
        PROVE  members' = members /\ keys' = keys
    BY <2>1 DEF RelayRoute
  <2>2. CASE RelayBind
    BY <1>1, <2>2 DEF RelayBind, Member, InCall
  <2> QED
    BY <1>5, <2>1, <2>2 DEF RelayNext, InCall
<1>6. ASSUME UNCHANGED hubVars
      PROVE  members' = members /\ keys' = keys
  BY <1>6 DEF hubVars
<1> QED
  BY <1>2, <1>3, <1>4, <1>5, <1>6 DEF HubNext, MemberNext, InCall

(* A call that no participant of the previous one is still in is given a   *)
(* key that was never handed out (hub.rs:488-497 drops the key of an       *)
(* emptied channel, 255-258 makes one), so who left cannot decrypt it.     *)
THEOREM HubNextCallNewKey == HubSpec => NextCallNewKey
<1> DEFINE NewKey(c) == \A u \in Users : \A cred \in handed[u] :
                            cred.key # keys'[c]
<1>1. ASSUME HubInv, [HubNext]_hubVars, NEW c \in DOMAIN keys',
             \A u \in InCall : ~Stays(u, c)
      PROVE  NewKey(c)
  <2>1. CASE \E u \in Users, d \in Channels : JoinVoice(u, d)
    <3>1. PICK u \in Users, d \in Channels : JoinVoice(u, d)
      BY <2>1
    <3> DEFINE kept == KeysWithout(u)
    <3>2. DOMAIN kept = {members[w].channel : w \in InCall \ {u}}
      BY <1>1, RemainingKeys DEF HubInv
    <3>3. \A w \in InCall \ {u} : Stays(w, members[w].channel)
      <4>1. \A w \in InCall \ {u} : w \in DOMAIN members'
                                   /\ members'[w] = MembersWithout(u)[w]
        BY <3>1 DEF JoinVoice
      <4> QED
        BY <1>1, <4>1, RemainingMembers DEF Stays, Occupants, HubInv
    <3>4. c \notin DOMAIN kept
      BY <1>1, <3>2, <3>3
    <3>5. keys' = [e \in DOMAIN kept \cup {d} |->
                    IF e = d THEN IF d \in DOMAIN kept THEN kept[d] ELSE joins
                             ELSE kept[e]]
      BY <3>1 DEF JoinVoice
    <3>6. keys'[c] = joins
      <4> HIDE DEF kept
      <4> QED
        BY <1>1, <3>4, <3>5
    <3> QED
      BY <1>1, <3>6 DEF HubInv, HubTypeOK, KeysIssued, Credential
  <2>2. CASE \E u \in Users : LeaveVoice(u)
    <3>1. PICK u \in Users : LeaveVoice(u)
      BY <2>2
    <3>2. DOMAIN keys' = {members[w].channel : w \in InCall \ {u}}
      BY <1>1, <3>1, RemainingKeys DEF HubInv, LeaveVoice
    <3>3. \A w \in InCall \ {u} : Stays(w, members[w].channel)
      <4>1. members' = MembersWithout(u) /\ DOMAIN members' = InCall \ {u}
        BY <3>1 DEF LeaveVoice, MembersWithout
      <4> QED
        BY <1>1, <4>1, RemainingMembers DEF Stays, Occupants, HubInv
    <3> QED
      BY <1>1, <3>2, <3>3
  <2>3. CASE ~\E u \in Users : LeaveVoice(u)
                            \/ \E d \in Channels : JoinVoice(u, d)
    BY <1>1, <2>3, QuietSteps DEF HubInv, KeysExact, Stays, Occupants, InCall
  <2> QED
    BY <2>1, <2>2, <2>3
<1>2. HubInv /\ [HubNext]_hubVars =>
        [\A c \in DOMAIN keys' :
            (\A u \in InCall : ~Stays(u, c)) =>
                \A u \in Users : \A cred \in handed[u] : cred.key # keys'[c]
        ]_hubVars
  BY <1>1
<1> QED
  BY <1>2, HubInvariant, PTL DEF HubSpec, NextCallNewKey

(* A membership begins unwatched: joining removes the account from every   *)
(* watching set (hub.rs:481-498), so an earlier opt-in does not carry over. *)
THEOREM HubJoinsUnwatched == HubSpec => JoinsUnwatched
<1>1. ASSUME HubInv, [HubNext]_hubVars, NEW u \in DOMAIN members',
             u \notin InCall \/ members'[u].voice # members[u].voice,
             NEW v \in DOMAIN members'
      PROVE  u \notin members'[v].watching
  <2>1. CASE \E w \in Users, c \in Channels : JoinVoice(w, c)
    <3>1. PICK w \in Users, c \in Channels : JoinVoice(w, c)
      BY <2>1
    <3>2. /\ DOMAIN members' = InCall \cup {w}
          /\ members'[w].watching = {}
          /\ \A x \in InCall \ {w} : members'[x] = MembersWithout(w)[x]
      BY <3>1 DEF JoinVoice
    <3>3. u = w
      BY <1>1, <3>2, RemainingMembers DEF HubInv
    <3> QED
      BY <1>1, <3>2, <3>3, RemainingMembers DEF HubInv
  <2>2. CASE \E w \in Users : LeaveVoice(w)
    <3>1. PICK w \in Users : LeaveVoice(w)
      BY <2>2
    <3>2. members' = MembersWithout(w) /\ DOMAIN members' = InCall \ {w}
      BY <3>1 DEF LeaveVoice, MembersWithout
    <3> QED
      BY <1>1, <3>2, RemainingMembers DEF HubInv
  <2>3. CASE ~\E w \in Users : LeaveVoice(w)
                            \/ \E c \in Channels : JoinVoice(w, c)
    BY <1>1, <2>3, QuietSteps DEF InCall
  <2> QED
    BY <2>1, <2>2, <2>3
<1>2. HubInv /\ [HubNext]_hubVars =>
        [\A u \in DOMAIN members' :
            (u \notin InCall \/ members'[u].voice # members[u].voice) =>
                \A v \in DOMAIN members' : u \notin members'[v].watching
        ]_hubVars
  BY <1>1
<1> QED
  BY <1>2, HubInvariant, PTL DEF HubSpec, JoinsUnwatched

----------------------------------------------------------------------------
(* What reaches whom on the network.  In the life of a server that makes   *)
(* fewer joins than half the ids there are, no id is given out twice, so a *)
(* packet however late still leads to the account that sent it.            *)

Ids(cred) == {cred.voice, cred.screen}

\* Ids are taken in order, two by each join.
IdsInOrder ==
    /\ joins <= MaxJoins
    /\ nextSsrc = IF 2 * joins + 1 = SsrcSpace THEN 0 ELSE 2 * joins + 1
    /\ \A s \in DOMAIN bySsrc : s <= 2 * joins
    /\ \A u \in Users : \A cred \in handed[u] : \A s \in Ids(cred) : s <= 2 * joins

\* An id was given out in one credential.
OneCredential ==
    \A u, v \in Users : \A one \in handed[u], other \in handed[v] :
        Ids(one) \cap Ids(other) # {} => u = v /\ one = other

\* What the relay is about to bind is an address of the account's.
RelayOwn == relay # Idle => relay.from \in AddrsOf[relay.user]

NetworkInv == HubInv /\ IdsInOrder /\ OneCredential /\ RelayOwn /\ MediaAddrIsOwn

\* What a packet names: the credential of whoever holds its id now.
LEMMA SentByHolder ==
    ASSUME HubInv, OneCredential, NEW u \in Users, NEW d \in SentBy(u), Known(d)
    PROVE  /\ Sender(d) = u /\ u \in InCall
           /\ d.sealed = keys[members[u].channel]
           /\ d.from \in AddrsOf[u]
<1> DEFINE w == Sender(d)
           mine == [voice |-> members[w].voice, screen |-> members[w].screen,
                    key |-> keys[members[w].channel]]
<1>1. PICK cred \in handed[u] : d.ssrc \in Ids(cred) /\ d.sealed = cred.key /\ d.from \in AddrsOf[u]
  BY DEF SentBy, Datagram, Ids
<1>2. w \in InCall /\ w \in Users /\ d.ssrc \in {members[w].voice, members[w].screen}
  BY DEF HubInv, HubTypeOK, IndexExact, Known, Sender
<1>3. mine \in handed[w] /\ d.ssrc \in Ids(mine)
  BY <1>2 DEF HubInv, KeyHolders, Ids
<1>4. u = w /\ cred = mine
  BY <1>1, <1>2, <1>3 DEF OneCredential
<1> QED
  BY <1>1, <1>2, <1>4

\* The first id from the counter on is the counter, if that is free.
LEMMA TakesNext ==
    ASSUME NEW from \in SsrcIds, NEW free \in SUBSET SsrcIds, from \in free,
           NEW s, Takes(from, free, s), SsrcSpace \in Nat
    PROVE  s = from
<1> SUFFICES ASSUME s # from PROVE FALSE
  OBVIOUS
<1>1. s \in SsrcIds
  BY DEF Takes
<1>2. from \in PassedOver(from, s)
  BY <1>1 DEF PassedOver
<1> QED
  BY <1>2 DEF Takes

LEMMA JoinInOrder ==
    ASSUME SsrcSpace > 2 * MaxJoins, NetworkInv,
           NEW u \in Users, NEW c \in Channels, JoinVoice(u, c)
    PROVE  IdsInOrder' /\ OneCredential' /\ RelayOwn' /\ MediaAddrIsOwn'
<1> DEFINE free == SsrcIds \ KeptSsrcs(u)
           kept == KeysWithout(u)
           key  == IF c \in DOMAIN kept THEN kept[c] ELSE joins
           new(v, s) == [voice |-> v, screen |-> s, key |-> key]
<1>1. PICK v \in free, s \in free :
        /\ Takes(nextSsrc, free, v) /\ Takes(Successor(v), free, s)
        /\ nextSsrc' = Successor(s)
        /\ bySsrc' = [t \in KeptSsrcs(u) \cup {v, s} |->
                        IF t \in {v, s} THEN u ELSE bySsrc[t]]
        /\ members' = [w \in InCall \cup {u} |->
                        IF w = u
                        THEN [channel |-> c, voice |-> v, screen |-> s,
                              flags |-> [muted |-> FALSE, deafened |-> FALSE],
                              sharing |-> FALSE, watching |-> {},
                              addr |-> NoAddr]
                        ELSE MembersWithout(u)[w]]
        /\ handed' = [handed EXCEPT ![u] = @ \cup {new(v, s)}]
  BY DEF JoinVoice
<1>2. joins < MaxJoins /\ joins' = joins + 1 /\ relay' = relay
  BY DEF JoinVoice
<1>3. joins \in Nat /\ MaxJoins \in Nat /\ SsrcSpace \in Nat /\ 2 * joins + 2 < SsrcSpace
  BY <1>2, HubAssumption DEF NetworkInv, HubInv, HubTypeOK
<1>4. \A t \in KeptSsrcs(u) : t <= 2 * joins
  BY DEF NetworkInv, IdsInOrder, KeptSsrcs
<1>5. nextSsrc = 2 * joins + 1
  BY <1>3 DEF NetworkInv, IdsInOrder
<1>6. 2 * joins + 1 \in free /\ 2 * joins + 2 \in free
  BY <1>3, <1>4
<1>7. v = 2 * joins + 1
  BY <1>1, <1>3, <1>5, <1>6, TakesNext
<1>8. Successor(v) = 2 * joins + 2
  BY <1>3, <1>7 DEF Successor
<1>9. s = 2 * joins + 2
  BY <1>1, <1>3, <1>6, <1>8, TakesNext
<1>10. Ids(new(v, s)) = {2 * joins + 1, 2 * joins + 2}
  BY <1>7, <1>9 DEF Ids
<1>11. \A w \in Users : \A cred \in handed[w] : \A t \in Ids(cred) : t \in Nat /\ t <= 2 * joins
  BY <1>3 DEF NetworkInv, HubInv, HubTypeOK, Credential, IdsInOrder, Ids
<1>12. handed \in [Users -> SUBSET Credential]
  BY DEF NetworkInv, HubInv, HubTypeOK
<1> HIDE DEF key, free, kept, new
<1>13. \A w \in Users : \A cred \in handed'[w] :
          cred \in handed[w] \/ (w = u /\ cred = new(v, s))
  BY <1>1, <1>12
<1>14. IdsInOrder'
  <2>1. joins' <= MaxJoins
    BY <1>2, <1>3
  <2>2. nextSsrc' = IF 2 * joins' + 1 = SsrcSpace THEN 0 ELSE 2 * joins' + 1
    BY <1>1, <1>2, <1>3, <1>9 DEF Successor
  <2>3. \A t \in DOMAIN bySsrc' : t <= 2 * joins'
    <3>1. DOMAIN bySsrc' = KeptSsrcs(u) \cup {v, s}
      BY <1>1
    <3>2. \A t \in KeptSsrcs(u) : t \in Nat
      BY <1>3 DEF KeptSsrcs, NetworkInv, HubInv, HubTypeOK
    <3> QED
      BY <3>1, <3>2, <1>2, <1>3, <1>4, <1>7, <1>9
  <2>4. ASSUME NEW w \in Users, NEW cred \in handed'[w], NEW t \in Ids(cred)
        PROVE  t <= 2 * joins'
    <3>1. CASE cred \in handed[w]
      BY <3>1, <1>2, <1>3, <1>11
    <3>2. CASE cred = new(v, s)
      BY <3>2, <1>2, <1>3, <1>10
    <3> QED
      BY <1>13, <3>1, <3>2
  <2> QED
    BY <2>1, <2>2, <2>3, <2>4 DEF IdsInOrder
<1>15. OneCredential'
  <2> SUFFICES ASSUME NEW x \in Users, NEW y \in Users,
                      NEW one \in handed'[x], NEW other \in handed'[y],
                      Ids(one) \cap Ids(other) # {}
               PROVE  x = y /\ one = other
    BY DEF OneCredential
  <2>1. \A w \in Users : \A cred \in handed[w] : Ids(cred) \cap Ids(new(v, s)) = {}
    BY <1>3, <1>10, <1>11
  <2>2. CASE one \in handed[x] /\ other \in handed[y]
    BY <2>2 DEF NetworkInv, OneCredential
  <2>3. CASE one \in handed[x] /\ other = new(v, s)
    BY <2>1, <2>3
  <2>4. CASE one = new(v, s) /\ other \in handed[y]
    BY <2>1, <2>4
  <2>5. CASE x = u /\ y = u /\ one = new(v, s) /\ other = new(v, s)
    BY <2>5
  <2> QED
    BY <1>13, <2>2, <2>3, <2>4, <2>5
<1>16. RelayOwn'
  BY <1>2 DEF NetworkInv, RelayOwn
<1>17. MediaAddrIsOwn'
  <2>1. InCall' = InCall \cup {u}
    BY <1>1 DEF InCall
  <2>2. \A w \in InCall' : \/ w = u /\ members'[w].addr = NoAddr
                           \/ w \in InCall /\ members'[w].addr = members[w].addr
    <3>1. members \in [InCall -> Member]
      BY DEF NetworkInv, HubInv, HubTypeOK
    <3> QED
      BY <1>1, <2>1, <3>1 DEF MembersWithout, Member
  <2> QED
    BY <2>2 DEF NetworkInv, MediaAddrIsOwn
<1> QED
  BY <1>14, <1>15, <1>16, <1>17

LEMMA RelayRouteOwn ==
    ASSUME NetworkInv, NEW u \in Users, NEW d \in SentBy(u), RelayRoute(d)
    PROVE  RelayOwn'
<1>1. Known(d)
  BY DEF RelayRoute, Registers
<1>2. Sender(d) = u /\ d.from \in AddrsOf[u]
  BY <1>1, SentByHolder DEF NetworkInv
<1> QED
  BY <1>2 DEF RelayRoute, RelayOwn

LEMMA RelayBindOwn ==
    ASSUME NetworkInv, RelayBind
    PROVE  RelayOwn' /\ MediaAddrIsOwn'
<1>1. relay # Idle /\ relay' = Idle /\ relay.from \in AddrsOf[relay.user]
  BY DEF RelayBind, NetworkInv, RelayOwn
<1>2. members \in [InCall -> Member] /\ relay \in Registration
  BY <1>1 DEF NetworkInv, HubInv, HubTypeOK
<1>3. /\ InCall' = InCall
      /\ \A w \in InCall : \/ members'[w].addr = members[w].addr
                           \/ w = relay.user /\ members'[w].addr = relay.from
  BY <1>2 DEF RelayBind, InCall, Member
<1>4. MediaAddrIsOwn'
  BY <1>1, <1>3 DEF MediaAddrIsOwn, NetworkInv
<1> QED
  BY <1>1, <1>4 DEF RelayOwn

\* What is neither a join nor the relay's keeps every id and address.
LEMMA MemberStepOwn ==
    ASSUME NetworkInv, NEW u \in Users,
           \/ LeaveVoice(u)
           \/ \E f \in VoiceFlags : SetVoiceFlags(u, f)
           \/ StartScreen(u) \/ StopScreen(u)
           \/ \E v \in Users : Watch(u, v) \/ Unwatch(u, v)
    PROVE  IdsInOrder' /\ OneCredential' /\ RelayOwn' /\ MediaAddrIsOwn'
<1>1. members \in [InCall -> Member]
  BY DEF NetworkInv, HubInv, HubTypeOK
<1>2. /\ UNCHANGED <<joins, nextSsrc, handed, relay>>
      /\ DOMAIN bySsrc' \subseteq DOMAIN bySsrc
  BY DEF LeaveVoice, SetVoiceFlags, StartScreen, StopScreen, Watch, Unwatch, KeptSsrcs
<1>3. InCall' \subseteq InCall /\ \A w \in InCall' : members'[w].addr = members[w].addr
  <2>1. CASE LeaveVoice(u)
    BY <1>1, <2>1 DEF LeaveVoice, MembersWithout, InCall, Member
  <2>2. ASSUME NEW f \in VoiceFlags, SetVoiceFlags(u, f)
        PROVE  InCall' \subseteq InCall /\ \A w \in InCall' : members'[w].addr = members[w].addr
    BY <1>1, <2>2 DEF SetVoiceFlags, InCall, Member
  <2>3. CASE StartScreen(u)
    BY <1>1, <2>3 DEF StartScreen, InCall, Member
  <2>4. CASE StopScreen(u)
    BY <1>1, <2>4 DEF StopScreen, InCall, Member
  <2>5. ASSUME NEW v \in Users, Watch(u, v)
        PROVE  InCall' \subseteq InCall /\ \A w \in InCall' : members'[w].addr = members[w].addr
    BY <1>1, <2>5 DEF Watch, InCall, Member
  <2>6. ASSUME NEW v \in Users, Unwatch(u, v)
        PROVE  InCall' \subseteq InCall /\ \A w \in InCall' : members'[w].addr = members[w].addr
    BY <1>1, <2>6 DEF Unwatch, InCall, Member
  <2> QED
    BY <2>1, <2>2, <2>3, <2>4, <2>5, <2>6
<1> QED
  BY <1>2, <1>3 DEF NetworkInv, IdsInOrder, OneCredential, RelayOwn, MediaAddrIsOwn

LEMMA NetworkStart == HubInit => NetworkInv
<1> SUFFICES ASSUME HubInit PROVE NetworkInv
  OBVIOUS
<1>1. HubInv
  BY HubInitInv
<1>2. /\ InCall = {} /\ DOMAIN bySsrc = {} /\ \A u \in Users : handed[u] = {}
      /\ joins = 0 /\ nextSsrc = 1 /\ relay = Idle
  BY DEF HubInit, InCall
<1>3. MaxJoins \in Nat /\ SsrcSpace \in Nat /\ SsrcSpace > 1
  BY HubAssumption
<1> QED
  BY <1>1, <1>2, <1>3 DEF NetworkInv, IdsInOrder, OneCredential, RelayOwn, MediaAddrIsOwn

LEMMA NetworkStep ==
    ASSUME SsrcSpace > 2 * MaxJoins, NetworkInv, [HubNext]_hubVars
    PROVE  NetworkInv'
<1>1. HubInv'
  BY HubNextInv DEF NetworkInv
<1>2. CASE \E u \in Users : \E c \in Channels : JoinVoice(u, c)
  BY <1>1, <1>2, JoinInOrder DEF NetworkInv
<1>3. ASSUME NEW u \in Users,
             \/ LeaveVoice(u)
             \/ \E f \in VoiceFlags : SetVoiceFlags(u, f)
             \/ StartScreen(u) \/ StopScreen(u)
             \/ \E v \in Users : Watch(u, v) \/ Unwatch(u, v)
      PROVE  NetworkInv'
  BY <1>1, <1>3, MemberStepOwn DEF NetworkInv
<1>4. ASSUME NEW u \in Users, NEW d \in SentBy(u), RelayRoute(d) PROVE NetworkInv'
  <2>1. UNCHANGED <<members, bySsrc, nextSsrc, joins, handed>>
    BY <1>4 DEF RelayRoute
  <2> QED
    BY <1>1, <1>4, <2>1, RelayRouteOwn
    DEF NetworkInv, IdsInOrder, OneCredential, MediaAddrIsOwn, InCall
<1>5. CASE RelayBind
  <2>1. UNCHANGED <<bySsrc, nextSsrc, joins, handed>>
    BY <1>5 DEF RelayBind
  <2> QED
    BY <1>1, <1>5, <2>1, RelayBindOwn DEF NetworkInv, IdsInOrder, OneCredential
<1>6. CASE UNCHANGED hubVars
  <2>1. UNCHANGED <<members, bySsrc, nextSsrc, joins, handed, relay>>
    BY <1>6 DEF hubVars
  <2> QED
    BY <1>1, <2>1 DEF NetworkInv, IdsInOrder, OneCredential, RelayOwn, MediaAddrIsOwn, InCall
<1> QED
  BY <1>2, <1>3, <1>4, <1>5, <1>6 DEF HubNext, MemberNext, RelayNext

(* Whatever a client sent and however late it arrives: where the relay     *)
(* forwards it, it opens (route, relay.rs). For servers that make fewer    *)
(* joins than half the ids there are, 2^31 in the code: with an id given   *)
(* out again a packet of its last holder would go to other people's call.  *)
THEOREM HubForwardedOpens ==
    ASSUME SsrcSpace > 2 * MaxJoins
    PROVE  HubSpec => []ForwardedOpens
<1>1. NetworkInv => ForwardedOpens
  <2> SUFFICES ASSUME NetworkInv, NEW u \in Users, NEW d \in SentBy(u), Forwards(d),
                      NEW v \in Listeners(d)
               PROVE  \E cred \in handed[v] : cred.key = d.sealed
    BY DEF ForwardedOpens
  <2>1. Sender(d) = u /\ d.sealed = keys[members[u].channel]
    BY SentByHolder DEF NetworkInv, Forwards
  <2>2. v \in InCall /\ members[v].channel = members[u].channel
    BY <2>1 DEF Listeners, Others, Occupants
  <2> QED
    BY <2>1, <2>2 DEF NetworkInv, HubInv, KeyHolders
<1> QED
  BY <1>1, NetworkStart, NetworkStep, PTL DEF HubSpec

(* A member's media address is one of the account's own, however late and  *)
(* often registrations arrive (bind_media_address), for the same servers.  *)
THEOREM HubMediaAddrIsOwn ==
    ASSUME SsrcSpace > 2 * MaxJoins
    PROVE  HubSpec => []MediaAddrIsOwn
<1>1. NetworkInv => MediaAddrIsOwn
  BY DEF NetworkInv
<1> QED
  BY <1>1, NetworkStart, NetworkStep, PTL DEF HubSpec

HIDE DEF SsrcIds


----------------------------------------------------------------------------
(* Whatever the connections' handlers do, in whatever order, they drive    *)
(* the hub only as Hub allows: Session implements Hub.                     *)

(* A step of the sessions is a step of the hub, or none of its business.   *)
LEMMA SessionStep == [SessionNext]_vars => [HubNext]_hubVars
<1> SUFFICES ASSUME [SessionNext]_vars PROVE [HubNext]_hubVars
  OBVIOUS
<1>1. ASSUME NEW c \in Conns PROVE UserOf[c] \in Users
  BY SessionAssumption
<1>2. ASSUME NEW c \in Conns, Request(c) PROVE [HubNext]_hubVars
  <2>1. ASSUME NEW ch \in Channels, AskJoinVoice(c, ch) PROVE HubNext
    BY <1>1, <2>1 DEF AskJoinVoice, HubNext, MemberNext
  <2>2. ASSUME AskLeaveVoice(c) PROVE UNCHANGED hubVars
    BY <2>2 DEF AskLeaveVoice
  <2>3. ASSUME NEW f \in VoiceFlags, AskVoiceFlags(c, f) PROVE HubNext
    BY <1>1, <2>3 DEF AskVoiceFlags, HubNext, MemberNext
  <2>4. ASSUME AskStartScreen(c) \/ AskStopScreen(c) PROVE HubNext
    BY <1>1, <2>4 DEF AskStartScreen, AskStopScreen, HubNext, MemberNext
  <2>5. ASSUME NEW v \in Users, AskWatch(c, v) \/ AskUnwatch(c, v) PROVE HubNext
    BY <1>1, <2>5 DEF AskWatch, AskUnwatch, HubNext, MemberNext
  <2>6. ASSUME AskDisplayName(c) PROVE UNCHANGED hubVars
    BY <2>6 DEF AskDisplayName
  <2> QED
    BY <1>2, <2>1, <2>2, <2>3, <2>4, <2>5, <2>6 DEF Request
<1>3. ASSUME NEW c \in Conns, DoStopScreen(c) PROVE [HubNext]_hubVars
  BY <1>1, <1>3 DEF DoStopScreen, HubNext, MemberNext
<1>4. ASSUME NEW c \in Conns, DoLeaveVoice(c) PROVE [HubNext]_hubVars
  BY <1>1, <1>4 DEF DoLeaveVoice, HubNext, MemberNext
<1>5. ASSUME NEW c \in Conns, Proceed(c) PROVE [HubNext]_hubVars
  BY <1>3, <1>4, <1>5 DEF Proceed, DoBroadcast, DoToOthers, DoToSelf,
     ReadUsers, ReadOnline, ReadVoice, SendReady, Disconnect, CheckVoice, Close
<1>6. ASSUME NEW c \in Conns, Connect(c) \/ HangUp(c) PROVE UNCHANGED hubVars
  BY <1>6 DEF Connect, HangUp
<1>7. ASSUME NEW u \in Users, Register(u) PROVE UNCHANGED hubVars
  BY <1>7 DEF Register
<1>8. ASSUME UNCHANGED vars PROVE UNCHANGED hubVars
  BY <1>8 DEF vars
<1> QED
  BY <1>2, <1>5, <1>6, <1>7, <1>8 DEF SessionNext

(* Every behaviour of the sessions is, seen from the hub, a behaviour of   *)
(* the hub (session.rs:303-547 calls only what hub.rs offers).             *)
THEOREM SessionImplementsHub == SessionSpec => HubSpec
<1>1. SessionInit => HubInit
  BY DEF SessionInit
<1> QED
  BY <1>1, SessionStep, PTL DEF SessionSpec, HubSpec

(* So the hub's invariant holds under them.                                *)
THEOREM SessionHubInvariant == SessionSpec => []HubInv
<1> QED
  BY SessionImplementsHub, HubInvariant, PTL

----------------------------------------------------------------------------
(* Nobody is left behind in a call.  A connection that is closing has one  *)
(* of a few lists of calls left to make, and a connection that broadcasts  *)
(* still reach is open or has not begun its teardown.                      *)

Bye(u) == Broadcast(Presence(u, FALSE))

ClosingList(u, list) ==
    \/ list = <<>>
    \/ list = <<Call("disconnect")>>
    \/ list = <<Call("check_voice"), Bye(u)>>
    \/ list = <<Call("stop_screen"), Bye(u)>>
    \/ \E b \in BOOLEAN :
            list = <<[op |-> "leave_voice", sharing |-> b], Bye(u)>>
    \/ \E f, g : list = <<Broadcast(f), Broadcast(g), Bye(u)>>
    \/ \E f : list = <<Broadcast(f), Bye(u)>>
    \/ list = <<Bye(u)>>

TeardownInv ==
    /\ DOMAIN at = Conns /\ DOMAIN todo = Conns
    /\ at = [c \in Conns |-> at[c]] /\ todo = [c \in Conns |-> todo[c]]
    /\ conns \subseteq Conns
    /\ InCall \subseteq Users
    /\ \A c \in Conns : at[c] \in {"open", "closing"} \/ todo[c] = <<>>
    /\ \A c \in Conns : at[c] = "closing" => ClosingList(UserOf[c], todo[c])
    /\ \A c \in conns : \/ Open(c)
                        \/ at[c] = "closing" /\ todo[c] = <<Call("disconnect")>>
    /\ NobodyLeftBehind

(* A step of an open connection that stays open, whatever it leaves to do, *)
(* and that puts nobody but its own account into a call.                   *)
LEMMA OpenStep ==
    ASSUME TeardownInv, NEW c \in Conns, Open(c), NEW calls,
           at' = at, todo' = [todo EXCEPT ![c] = calls], conns' = conns,
           InCall' \subseteq InCall \cup {UserOf[c]}
    PROVE  TeardownInv'
<1> USE DEF TeardownInv
<1>1. InCall' \subseteq Users
  BY SessionAssumption
<1>2. \A d \in Conns : d # c => todo'[d] = todo[d]
  OBVIOUS
<1>3. \A d \in Conns : at'[d] = "closing" => ClosingList(UserOf[d], todo'[d])
  BY <1>2 DEF Open
<1>6. \A d \in Conns : at'[d] \in {"open", "closing"} \/ todo'[d] = <<>>
  BY <1>2 DEF Open
<1>4. \A d \in conns' : \/ Open(d)'
                        \/ at'[d] = "closing" /\ todo'[d] = <<Call("disconnect")>>
  BY <1>2 DEF Open
<1>5. NobodyLeftBehind'
  <2> SUFFICES ASSUME NEW u \in InCall'
               PROVE  \E d \in Own(u) : Open(d)' \/ Leaving(d)'
    BY DEF NobodyLeftBehind, Own
  <2>1. CASE u = UserOf[c]
    BY <2>1 DEF Own, Open
  <2>2. CASE u # UserOf[c]
    <3>1. PICK d \in Own(u) : Open(d) \/ Leaving(d)
      BY <2>2 DEF NobodyLeftBehind
    <3>2. d \in Conns /\ d # c
      BY <2>2, <3>1 DEF Own
    <3> QED
      BY <1>2, <3>1, <3>2 DEF Leaving, Doing, Open
  <2> QED
    BY <2>1, <2>2
<1> QED
  BY <1>1, <1>3, <1>4, <1>5, <1>6

(* A step of a closing connection that keeps to its list, and after which  *)
(* its account is out of any call, or it has still to take it out, or has  *)
(* another connection that is open or has that to do.                      *)
LEMMA ClosingStep ==
    ASSUME TeardownInv, NEW c \in Conns, at[c] = "closing", NEW calls,
           at' = at, todo' = [todo EXCEPT ![c] = calls],
           conns' \subseteq conns, c \in conns' => calls = <<Call("disconnect")>>,
           ClosingList(UserOf[c], calls),
           InCall' \subseteq InCall,
           \/ UserOf[c] \notin InCall'
           \/ Leaving(c)'
           \/ ~Leaving(c)
           \/ \E d \in Own(UserOf[c]) \ {c} : Open(d) \/ Leaving(d)
    PROVE  TeardownInv'
<1> USE DEF TeardownInv
<1>2. \A d \in Conns : d # c => todo'[d] = todo[d]
  OBVIOUS
<1>3. \A d \in Conns : at'[d] = "closing" => ClosingList(UserOf[d], todo'[d])
  BY <1>2
<1>6. \A d \in Conns : at'[d] \in {"open", "closing"} \/ todo'[d] = <<>>
  BY <1>2 DEF Open
<1>4. \A d \in conns' : \/ Open(d)'
                        \/ at'[d] = "closing" /\ todo'[d] = <<Call("disconnect")>>
  BY <1>2 DEF Open
<1>5. NobodyLeftBehind'
  <2> SUFFICES ASSUME NEW u \in InCall'
               PROVE  \E d \in Own(u) : Open(d)' \/ Leaving(d)'
    BY DEF NobodyLeftBehind, Own
  <2>1. PICK d \in Own(u) : Open(d) \/ Leaving(d)
    BY DEF NobodyLeftBehind
  <2>2. d \in Conns
    BY <2>1 DEF Own
  <2>3. CASE d # c
    BY <1>2, <2>1, <2>2, <2>3 DEF Leaving, Doing, Open
  <2>4. CASE d = c
    <3>1. u = UserOf[c] /\ Leaving(c)
      BY <2>1, <2>4 DEF Own, Open
    <3>2. CASE Leaving(c)'
      BY <2>1, <2>4, <3>2 DEF Leaving, Doing, Open
    <3>3. CASE \E e \in Own(u) \ {c} : Open(e) \/ Leaving(e)
      <4>1. PICK e \in Own(u) \ {c} : Open(e) \/ Leaving(e)
        BY <3>3
      <4>2. e \in Conns /\ e # c
        BY <4>1 DEF Own
      <4> QED
        BY <1>2, <4>1, <4>2 DEF Leaving, Doing, Open
    <3> QED
      BY <3>1, <3>2, <3>3
  <2> QED
    BY <2>3, <2>4
<1> QED
  BY <1>3, <1>4, <1>5, <1>6

(* Steps that leave the hub's members alone, or only their fields.         *)
LEMMA SameMembers ==
    ASSUME HubInv, NEW u \in Users,
           \/ \E f \in VoiceFlags : SetVoiceFlags(u, f)
           \/ StartScreen(u) \/ StopScreen(u)
           \/ \E v \in Users : Watch(u, v) \/ Unwatch(u, v)
    PROVE  InCall' = InCall
<1>1. members \in [InCall -> Member]
  BY DEF HubInv, HubTypeOK
<1> QED
  BY <1>1 DEF SetVoiceFlags, StartScreen, StopScreen, Watch, Unwatch, InCall

(* A request keeps the teardown invariant.                                 *)
LEMMA RequestTeardown ==
    ASSUME HubInv, TeardownInv, NEW c \in Conns, Request(c)
    PROVE  TeardownInv'
<1> DEFINE u == UserOf[c]
<1>1. u \in Users
  BY SessionAssumption
<1>2. ASSUME NEW calls, Asks(c, calls), InCall' \subseteq InCall \cup {u}
      PROVE  TeardownInv'
  BY <1>2, OpenStep DEF Asks, MayAsk, Idling
<1>3. ASSUME NEW ch \in Channels, AskJoinVoice(c, ch) PROVE TeardownInv'
  <2>1. InCall' = InCall \cup {u}
    BY <1>3 DEF AskJoinVoice, JoinVoice, InCall
  <2> QED
    BY <1>2, <1>3, <2>1 DEF AskJoinVoice
<1>4. ASSUME AskLeaveVoice(c) \/ AskDisplayName(c) PROVE TeardownInv'
  <2>1. InCall' = InCall
    BY <1>4 DEF AskLeaveVoice, AskDisplayName, hubVars, InCall
  <2> QED
    BY <1>2, <1>4, <2>1 DEF AskLeaveVoice, AskDisplayName
<1>5. ASSUME NEW f \in VoiceFlags, AskVoiceFlags(c, f) PROVE TeardownInv'
  <2>1. InCall' = InCall
    BY <1>1, <1>5, SameMembers DEF AskVoiceFlags
  <2> QED
    BY <1>2, <1>5, <2>1 DEF AskVoiceFlags
<1>6. ASSUME AskStartScreen(c) PROVE TeardownInv'
  <2>1. InCall' = InCall
    BY <1>1, <1>6, SameMembers DEF AskStartScreen
  <2> QED
    BY <1>2, <1>6, <2>1 DEF AskStartScreen
<1>7. ASSUME AskStopScreen(c) PROVE TeardownInv'
  <2>1. InCall' = InCall
    BY <1>1, <1>7, SameMembers DEF AskStopScreen
  <2> QED
    BY <1>2, <1>7, <2>1 DEF AskStopScreen
<1>8. ASSUME NEW v \in Users, AskWatch(c, v) \/ AskUnwatch(c, v) PROVE TeardownInv'
  <2>1. InCall' = InCall
    BY <1>1, <1>8, SameMembers DEF AskWatch, AskUnwatch
  <2> QED
    BY <1>2, <1>8, <2>1 DEF AskWatch, AskUnwatch
<1> QED
  BY <1>3, <1>4, <1>5, <1>6, <1>7, <1>8 DEF Request

(* Short lists of calls.                                                   *)
LEMMA Lists ==
    ASSUME NEW x, NEW y, NEW z
    PROVE  /\ <<>> \o <<>> = <<>> /\ <<>> \o <<y>> = <<y>>
           /\ Tail(<<x>>) = <<>> /\ Tail(<<x, y>>) = <<y>>
           /\ Tail(<<x, y, z>>) = <<y, z>>
           /\ Head(<<x>>) = x /\ Head(<<x, y>>) = x /\ Head(<<x, y, z>>) = x
           /\ <<x>> # <<>> /\ <<x, y>> # <<>> /\ <<x, y, z>> # <<>>
<1>1. <<>> \o <<>> = <<>>
  <2>1. <<>> \in Seq({x})
    OBVIOUS
  <2> QED
    BY <2>1, ConcatEmptySeq
<1>2. <<>> \o <<y>> = <<y>>
  <2>1. <<y>> \in Seq({y})
    OBVIOUS
  <2> QED
    BY <2>1, ConcatEmptySeq
<1>5. Tail(<<x>>) = <<>>
  OBVIOUS
<1>6. Tail(<<x, y>>) = <<y>>
  OBVIOUS
<1>7. Tail(<<x, y, z>>) = <<y, z>>
  OBVIOUS
<1>8. Head(<<x>>) = x /\ Head(<<x, y>>) = x /\ Head(<<x, y, z>>) = x
  OBVIOUS
<1>9. <<x>> # <<>> /\ <<x, y>> # <<>> /\ <<x, y, z>> # <<>>
  OBVIOUS
<1> QED
  BY <1>1, <1>2, <1>5, <1>6, <1>7, <1>8, <1>9

(* Two lists of one call, one after the other.                             *)
LEMMA Joined ==
    ASSUME NEW x, NEW y PROVE <<x>> \o <<y>> = <<x, y>>
<1> DEFINE a == <<x>> \o <<y>>
<1>1. <<x>> \in Seq({x, y}) /\ <<y>> \in Seq({x, y})
  OBVIOUS
<1>2. a \in Seq({x, y}) /\ Len(a) = 2 /\ a[1] = x /\ a[2] = y
  BY <1>1, ConcatProperties
<1> HIDE DEF a
<1>3. a = <<x, y>>
  BY <1>2
<1> QED
  BY <1>3 DEF a

(* A call after two others.                                                *)
LEMMA JoinedThree ==
    ASSUME NEW x, NEW y, NEW z PROVE <<x, y>> \o <<z>> = <<x, y, z>>
<1> DEFINE a == <<x, y>> \o <<z>>
<1>1. <<x, y>> \in Seq({x, y, z}) /\ <<z>> \in Seq({x, y, z})
  OBVIOUS
<1>2. a \in Seq({x, y, z}) /\ Len(a) = 3 /\ a[1] = x /\ a[2] = y /\ a[3] = z
  BY <1>1, ConcatProperties
<1> HIDE DEF a
<1>3. a = <<x, y, z>>
  BY <1>2
<1> QED
  BY <1>3 DEF a

(* Nothing put before what a closing connection has left to do.            *)
LEMMA NothingMore ==
    ASSUME NEW u, NEW list, ClosingList(u, list) PROVE <<>> \o list = list
<1>1. ASSUME NEW S, list \in Seq(S) PROVE <<>> \o list = list
  BY <1>1, ConcatEmptySeq
<1>2. ASSUME NEW x, list = <<x>> PROVE list \in Seq({x})
  BY <1>2
<1>3. ASSUME NEW x, NEW y, list = <<x, y>> PROVE list \in Seq({x, y})
  BY <1>3
<1>4. ASSUME NEW x, NEW y, NEW z, list = <<x, y, z>> PROVE list \in Seq({x, y, z})
  BY <1>4
<1>5. CASE list = <<>>
  BY <1>5, Lists
<1> QED
  BY <1>1, <1>2, <1>3, <1>4, <1>5 DEF ClosingList

(* What a closing connection is doing says what it has left.               *)
LEMMA ClosingHeads ==
    ASSUME NEW u, NEW list, ClosingList(u, list), list # <<>>
    PROVE  /\ Head(list).op \in {"disconnect", "check_voice", "stop_screen",
                                 "leave_voice", "broadcast"}
           /\ Head(list).op = "disconnect" => list = <<Call("disconnect")>>
           /\ Head(list).op \in {"check_voice", "stop_screen", "leave_voice"} =>
                    Tail(list) = <<Bye(u)>>
           /\ Head(list).op = "leave_voice" => Head(list).sharing \in BOOLEAN
           /\ Head(list).op = "broadcast" => ClosingList(u, Tail(list))
<1>1. CASE list = <<Call("disconnect")>>
  BY <1>1, Lists DEF Call
<1>2. CASE list = <<Call("check_voice"), Bye(u)>>
  BY <1>2, Lists DEF Call
<1>3. CASE list = <<Call("stop_screen"), Bye(u)>>
  BY <1>3, Lists DEF Call
<1>4. CASE \E b \in BOOLEAN :
            list = <<[op |-> "leave_voice", sharing |-> b], Bye(u)>>
  BY <1>4, Lists
<1>5. CASE \E f, g : list = <<Broadcast(f), Broadcast(g), Bye(u)>>
  <2>1. PICK f, g : list = <<Broadcast(f), Broadcast(g), Bye(u)>>
    BY <1>5
  <2>2. Head(list).op = "broadcast" /\ Tail(list) = <<Broadcast(g), Bye(u)>>
    BY <2>1, Lists DEF Broadcast
  <2> QED
    BY <2>2 DEF ClosingList
<1>6. CASE \E f : list = <<Broadcast(f), Bye(u)>>
  <2>1. PICK f : list = <<Broadcast(f), Bye(u)>>
    BY <1>6
  <2>2. Head(list).op = "broadcast" /\ Tail(list) = <<Bye(u)>>
    BY <2>1, Lists DEF Broadcast
  <2> QED
    BY <2>2 DEF ClosingList
<1>7. CASE list = <<Bye(u)>>
  <2>1. Head(list).op = "broadcast" /\ Tail(list) = <<>>
    BY <1>7, Lists DEF Bye, Broadcast
  <2> QED
    BY <2>1 DEF ClosingList
<1> QED
  BY <1>1, <1>2, <1>3, <1>4, <1>5, <1>6, <1>7 DEF ClosingList

(* A connection with nothing left to do, and no longer open, changes.      *)
LEMMA IdleChange ==
    ASSUME TeardownInv, NEW c \in Conns, at[c] = "closing", todo[c] = <<>>,
           at' = [at EXCEPT ![c] = "closed"],
           UNCHANGED <<hubVars, conns, todo>>
    PROVE  TeardownInv'
<1> USE DEF TeardownInv
<1>1. InCall' = InCall
  BY DEF hubVars, InCall
<1>2. \A d \in Conns : d # c => at'[d] = at[d]
  OBVIOUS
<1>3. at'[c] = "closed"
  OBVIOUS
<1>4. c \notin conns /\ ~Open(c) /\ ~Leaving(c)
  BY Lists DEF Open, Leaving, Doing
<1>5. \A d \in conns' : \/ Open(d)'
                        \/ at'[d] = "closing" /\ todo'[d] = <<Call("disconnect")>>
  BY <1>2, <1>4 DEF Open
<1>6. NobodyLeftBehind'
  <2> SUFFICES ASSUME NEW u \in InCall'
               PROVE  \E d \in Own(u) : Open(d)' \/ Leaving(d)'
    BY DEF NobodyLeftBehind, Own
  <2>1. PICK d \in Own(u) : Open(d) \/ Leaving(d)
    BY <1>1 DEF NobodyLeftBehind
  <2>2. d \in Conns /\ d # c
    BY <1>4, <2>1 DEF Own
  <2> QED
    BY <1>2, <2>1, <2>2 DEF Leaving, Doing, Open
<1>7. \A d \in Conns : at'[d] = "closing" => ClosingList(UserOf[d], todo'[d])
  BY <1>2, <1>3
<1>8. \A d \in Conns : at'[d] \in {"open", "closing"} \/ todo'[d] = <<>>
  BY <1>2
<1> QED
  BY <1>1, <1>5, <1>6, <1>7, <1>8

(* Every further call of a handler keeps the teardown invariant.           *)
LEMMA ProceedTeardown ==
    ASSUME HubInv, TeardownInv, NEW c \in Conns, Proceed(c)
    PROVE  TeardownInv'
<1> DEFINE u == UserOf[c]
<1>1. u \in Users
  BY SessionAssumption
<1>2. ASSUME DoBroadcast(c) \/ DoToOthers(c) \/ DoToSelf(c) \/ ReadUsers(c)
                \/ ReadOnline(c) \/ ReadVoice(c) \/ SendReady(c)
      PROVE  /\ InCall' = InCall /\ at' = at /\ conns' = conns
             /\ todo' = [todo EXCEPT ![c] = <<>> \o Tail(@)]
             /\ \E op \in {"broadcast", "to_others", "to_self", "read_users",
                           "read_online", "read_voice", "ready"} : Doing(c, op)
  BY <1>2 DEF DoBroadcast, DoToOthers, DoToSelf, ReadUsers, ReadOnline,
     ReadVoice, SendReady, Done, hubVars, InCall
<1>3. ASSUME DoStopScreen(c) PROVE InCall' = InCall
  <2>1. CASE u \in InCall
    BY <1>1, <1>3, <2>1, SameMembers DEF DoStopScreen
  <2>2. CASE u \notin InCall
    BY <1>3, <2>2 DEF DoStopScreen, hubVars, InCall
  <2> QED
    BY <2>1, <2>2
<1>4. ASSUME DoLeaveVoice(c) PROVE InCall' = InCall \ {u}
  <2>1. CASE u \in InCall
    BY <1>4, <2>1 DEF DoLeaveVoice, LeaveVoice, MembersWithout, InCall
  <2>2. CASE u \notin InCall
    BY <1>4, <2>2 DEF DoLeaveVoice, hubVars, InCall
  <2> QED
    BY <2>1, <2>2
<1>5. CASE Open(c)
  <2>1. ASSUME DoStopScreen(c) PROVE TeardownInv'
    BY <1>3, <1>5, <2>1, OpenStep DEF DoStopScreen, Done
  <2>2. ASSUME DoLeaveVoice(c) PROVE TeardownInv'
    BY <1>4, <1>5, <2>2, OpenStep DEF DoLeaveVoice, Done
  <2>3. ~(Disconnect(c) \/ CheckVoice(c) \/ Close(c))
    BY <1>5 DEF Open, Disconnect, CheckVoice, Close
  <2>4. ASSUME DoBroadcast(c) \/ DoToOthers(c) \/ DoToSelf(c) \/ ReadUsers(c)
                \/ ReadOnline(c) \/ ReadVoice(c) \/ SendReady(c)
        PROVE  TeardownInv'
    BY <1>2, <1>5, <2>4, OpenStep
  <2> QED
    BY <2>1, <2>2, <2>3, <2>4 DEF Proceed
<1>6. CASE at[c] = "closing"
  <2> DEFINE list == todo[c]
  <2>0. ClosingList(u, list) /\ DOMAIN todo = Conns
    BY <1>6 DEF TeardownInv
  <2>1. ASSUME NEW op, Doing(c, op)
        PROVE  list # <<>> /\ Head(list).op = op
    BY <2>1 DEF Doing
  <2>8. ASSUME c \in conns PROVE Head(list).op = "disconnect"
    <3>1. list = <<Call("disconnect")>>
      BY <1>6, <2>8 DEF TeardownInv, Open
    <3>2. Head(<<Call("disconnect")>>) = Call("disconnect")
      OBVIOUS
    <3> QED
      BY <3>1, <3>2 DEF Call
  <2>2. ASSUME DoBroadcast(c) \/ DoToOthers(c) \/ DoToSelf(c) \/ ReadUsers(c)
                \/ ReadOnline(c) \/ ReadVoice(c) \/ SendReady(c)
        PROVE  TeardownInv'
    <3>1. list # <<>> /\ Head(list).op = "broadcast"
      BY <1>2, <2>0, <2>1, <2>2, ClosingHeads
    <3>2. ClosingList(u, Tail(list)) /\ ~Leaving(c)
      BY <2>0, <3>1, ClosingHeads DEF Leaving, Doing
    <3>3. ClosingList(u, <<>> \o Tail(list))
      <4> DEFINE rest == Tail(list)
      <4>1. ClosingList(u, rest)
        BY <3>2
      <4> HIDE DEF rest, list, u
      <4>2. <<>> \o rest = rest
        BY <4>1, NothingMore
      <4> QED
        BY <4>1, <4>2 DEF rest
    <3>4. c \notin conns
      BY <2>8, <3>1
    <3> QED
      BY <1>2, <1>6, <2>2, <3>2, <3>3, <3>4, ClosingStep
  <2>3. ASSUME DoStopScreen(c) PROVE TeardownInv'
    <3>1. Tail(list) = <<Bye(u)>> /\ list # <<>> /\ Head(list).op = "stop_screen"
      BY <2>0, <2>1, <2>3, ClosingHeads DEF DoStopScreen
    <3> DEFINE first == [op |-> "leave_voice", sharing |-> u \in InCall]
    <3>2. todo' = [todo EXCEPT ![c] = <<first, Bye(u)>>]
      <4>1. <<first>> \o <<Bye(u)>> = <<first, Bye(u)>>
        BY Joined
      <4> QED
        BY <2>3, <3>1, <4>1 DEF DoStopScreen, Done
    <3>3. ClosingList(u, <<first, Bye(u)>>)
      <4>1. CASE u \in InCall
        <5>1. first = [op |-> "leave_voice", sharing |-> TRUE]
          BY <4>1, Zenon
        <5> QED
          BY <5>1 DEF ClosingList
      <4>2. CASE u \notin InCall
        <5>1. first = [op |-> "leave_voice", sharing |-> FALSE]
          <6>1. (u \in InCall) = FALSE
            BY <4>2
          <6> QED
            BY <6>1, Zenon
        <5> QED
          BY <5>1 DEF ClosingList
      <4> QED
        BY <4>1, <4>2
    <3>4. Leaving(c)'
      BY <2>0, <3>2, Lists DEF Leaving, Doing
    <3>5. c \notin conns
      BY <2>8, <3>1
    <3>6. at' = at /\ conns' = conns
      BY <2>3 DEF DoStopScreen
    <3> QED
      BY <1>3, <1>6, <2>3, <3>2, <3>3, <3>4, <3>5, <3>6, ClosingStep
  <2>4. ASSUME DoLeaveVoice(c) PROVE TeardownInv'
    <3>1. Tail(list) = <<Bye(u)>> /\ list # <<>> /\ Head(list).op = "leave_voice"
      BY <2>0, <2>1, <2>4, ClosingHeads DEF DoLeaveVoice
    <3>2. PICK calls : /\ todo' = [todo EXCEPT ![c] = calls]
                       /\ ClosingList(u, calls)
      <4> DEFINE gone == Broadcast(VoiceLeave(u, members[u].channel))
      <4>1. CASE u \notin InCall
        BY <2>4, <3>1, <4>1, Lists DEF DoLeaveVoice, Done, ClosingList
      <4>2. CASE u \in InCall /\ Head(list).sharing
        <5>2. <<Broadcast(ScreenStop(u))>> \o <<gone>>
                = <<Broadcast(ScreenStop(u)), gone>>
          BY Joined
        <5>3. <<Broadcast(ScreenStop(u)), gone>> \o <<Bye(u)>>
                = <<Broadcast(ScreenStop(u)), gone, Bye(u)>>
          BY JoinedThree
        <5>1. (<<Broadcast(ScreenStop(u))>> \o <<gone>>) \o <<Bye(u)>>
                = <<Broadcast(ScreenStop(u)), gone, Bye(u)>>
          BY <5>2, <5>3
        <5> QED
          BY <2>4, <3>1, <4>2, <5>1 DEF DoLeaveVoice, Done, ClosingList
      <4>3. CASE u \in InCall /\ ~Head(list).sharing
        <5>1. (<<>> \o <<gone>>) \o <<Bye(u)>> = <<gone, Bye(u)>>
          <6>1. <<>> \o <<gone>> = <<gone>>
            BY Lists
          <6> QED
            BY <6>1, Joined
        <5> QED
          BY <2>4, <3>1, <4>3, <5>1 DEF DoLeaveVoice, Done, ClosingList
      <4> QED
        BY <4>1, <4>2, <4>3
    <3>3. c \notin conns
      BY <2>8, <3>1
    <3>4. at' = at /\ conns' = conns
      BY <2>4 DEF DoLeaveVoice
    <3> QED
      BY <1>4, <1>6, <2>4, <3>2, <3>3, <3>4, ClosingStep
  <2>5. ASSUME Disconnect(c) PROVE TeardownInv'
    <3>1. list = <<Call("disconnect")>> /\ Tail(list) = <<>>
      BY <2>0, <2>1, <2>5, ClosingHeads, Lists, ZenonT(60) DEF Disconnect
    <3>2. /\ InCall' = InCall /\ at' = at
          /\ conns' \subseteq conns /\ c \notin conns'
      BY <2>5 DEF Disconnect, hubVars, InCall
    <3>3. CASE IsLast(c)
      <4> DEFINE calls == <<Call("check_voice"), Bye(u)>>
      <4>1. todo' = [todo EXCEPT ![c] = calls]
        <5>1. calls \o <<>> = calls
          BY ConcatEmptySeq, calls \in Seq({Call("check_voice"), Bye(u)})
        <5> QED
          BY <2>5, <3>1, <3>3, <5>1 DEF Disconnect, Done, Bye
      <4>2. ClosingList(u, calls)
        BY DEF ClosingList
      <4>3. Leaving(c)'
        BY <2>0, <4>1, Lists DEF Leaving, Doing, Call
      <4> QED
        BY <1>6, <3>2, <4>1, <4>2, <4>3, ClosingStep
    <3>4. CASE ~IsLast(c)
      <4>1. todo' = [todo EXCEPT ![c] = <<>>]
        BY <2>5, <3>1, <3>4, Lists DEF Disconnect, Done
      <4>2. PICK d \in conns \ {c} : UserOf[d] = u
        BY <3>4 DEF IsLast
      <4>3. d \in Own(u) \ {c}
        BY <4>2 DEF TeardownInv, Own
      <4>4. Open(d) \/ Leaving(d)
        <5>1. CASE todo[d] = <<Call("disconnect")>>
          BY <5>1, Lists DEF Leaving, Doing, Call
        <5> QED
          BY <4>2, <5>1 DEF TeardownInv
      <4>5. ClosingList(u, <<>>)
        BY DEF ClosingList
      <4> QED
        BY <1>6, <3>2, <4>1, <4>3, <4>4, <4>5, ClosingStep
    <3> QED
      BY <3>3, <3>4
  <2>6. ASSUME CheckVoice(c) PROVE TeardownInv'
    <3>1. Tail(list) = <<Bye(u)>> /\ list # <<>> /\ Head(list).op = "check_voice"
      BY <2>0, <2>1, <2>6, ClosingHeads DEF CheckVoice
    <3>2. c \notin conns
      BY <2>8, <3>1
    <3>3. InCall' = InCall /\ at' = at /\ conns' = conns
      BY <2>6 DEF CheckVoice, hubVars, InCall
    <3>4. CASE u \in InCall
      <4> DEFINE calls == <<Call("stop_screen"), Bye(u)>>
      <4>1. todo' = [todo EXCEPT ![c] = calls]
        <5>1. <<Call("stop_screen")>> \o <<Bye(u)>> = calls
          BY Joined
        <5> QED
          BY <2>6, <3>1, <3>4, <5>1 DEF CheckVoice, Done
      <4>2. ClosingList(u, calls)
        BY DEF ClosingList
      <4>3. Leaving(c)'
        BY <2>0, <4>1, Lists DEF Leaving, Doing, Call
      <4> QED
        BY <1>6, <3>2, <3>3, <4>1, <4>2, <4>3, ClosingStep
    <3>5. CASE u \notin InCall
      <4>1. todo' = [todo EXCEPT ![c] = <<Bye(u)>>]
        BY <2>6, <3>1, <3>5, Lists DEF CheckVoice, Done
      <4>2. ClosingList(u, <<Bye(u)>>)
        BY DEF ClosingList
      <4> QED
        BY <1>6, <3>2, <3>3, <3>5, <4>1, <4>2, ClosingStep
    <3> QED
      BY <3>4, <3>5
  <2>7. ASSUME Close(c) PROVE TeardownInv'
    BY <1>6, <2>7, IdleChange DEF Close
  <2> QED
    BY <2>2, <2>3, <2>4, <2>5, <2>6, <2>7 DEF Proceed
<1>7. CASE at[c] \notin {"open", "closing"}
  <2>1. todo[c] = <<>>
    BY <1>7 DEF TeardownInv
  <2> QED
    BY <1>2, <1>7, <2>1 DEF Proceed, Doing, Disconnect, CheckVoice, Close,
       DoStopScreen, DoLeaveVoice
<1> QED
  BY <1>5, <1>6, <1>7 DEF Open

(* The invariant at the start and over every step.                         *)
LEMMA TeardownStep ==
    ASSUME HubInv, TeardownInv, [SessionNext]_vars PROVE TeardownInv'
<1>1. ASSUME NEW u \in Users, Register(u) PROVE TeardownInv'
  BY <1>1 DEF Register, TeardownInv, NobodyLeftBehind, Leaving, Doing, Open,
     hubVars, InCall
<1>2. ASSUME NEW c \in Conns, Connect(c) PROVE TeardownInv'
  <2> USE DEF TeardownInv
  <2>1. InCall' = InCall /\ conns' = conns \cup {c}
    BY <1>2 DEF Connect, hubVars, InCall
  <2>2. \A d \in Conns : d # c => at'[d] = at[d] /\ todo'[d] = todo[d]
    BY <1>2 DEF Connect
  <2>3. at'[c] = "open" /\ DOMAIN at' = Conns /\ DOMAIN todo' = Conns
    BY <1>2 DEF Connect
  <2>4. at' = [d \in Conns |-> at'[d]] /\ todo' = [d \in Conns |-> todo'[d]]
    BY <1>2 DEF Connect
  <2>5. \A d \in Conns : at'[d] \in {"open", "closing"} \/ todo'[d] = <<>>
    BY <2>2, <2>3
  <2>6. \A d \in Conns : at'[d] = "closing" => ClosingList(UserOf[d], todo'[d])
    BY <2>2, <2>3
  <2>7. ASSUME NEW d \in conns'
        PROVE  Open(d)' \/ (at'[d] = "closing" /\ todo'[d] = <<Call("disconnect")>>)
    <3>1. CASE d = c
      BY <2>3, <3>1 DEF Open
    <3>2. CASE d # c
      <4>1. d \in conns /\ d \in Conns
        BY <2>1, <3>2
      <4>2. Open(d) \/ (at[d] = "closing" /\ todo[d] = <<Call("disconnect")>>)
        BY <4>1
      <4> QED
        BY <2>2, <3>2, <4>1, <4>2 DEF Open
    <3> QED
      BY <3>1, <3>2
  <2>8. NobodyLeftBehind'
    <3> SUFFICES ASSUME NEW u \in InCall'
                 PROVE  \E d \in Own(u) : Open(d)' \/ Leaving(d)'
      BY DEF NobodyLeftBehind, Own
    <3>1. PICK d \in Own(u) : Open(d) \/ Leaving(d)
      BY <2>1 DEF NobodyLeftBehind
    <3>2. d \in Conns
      BY <3>1 DEF Own
    <3> QED
      BY <2>2, <2>3, <3>1, <3>2 DEF Leaving, Doing, Open
  <2> QED
    BY <2>1, <2>3, <2>4, <2>5, <2>6, <2>7, <2>8
<1>3. ASSUME NEW c \in Conns, HangUp(c) PROVE TeardownInv'
  <2> USE DEF TeardownInv
  <2>1. InCall' = InCall /\ conns' = conns
    BY <1>3 DEF HangUp, hubVars, InCall
  <2>2. \A d \in Conns : d # c => at'[d] = at[d] /\ todo'[d] = todo[d]
    BY <1>3 DEF HangUp
  <2>3. /\ at'[c] = "closing" /\ todo'[c] = <<Call("disconnect")>>
        /\ DOMAIN at' = Conns /\ DOMAIN todo' = Conns
    BY <1>3 DEF HangUp
  <2>4. at' = [d \in Conns |-> at'[d]] /\ todo' = [d \in Conns |-> todo'[d]]
    BY <1>3 DEF HangUp
  <2>5. \A d \in Conns : at'[d] \in {"open", "closing"} \/ todo'[d] = <<>>
    BY <2>2, <2>3
  <2>6. \A d \in Conns : at'[d] = "closing" => ClosingList(UserOf[d], todo'[d])
    BY <2>2, <2>3 DEF ClosingList
  <2>7. ASSUME NEW d \in conns'
        PROVE  Open(d)' \/ (at'[d] = "closing" /\ todo'[d] = <<Call("disconnect")>>)
    <3>1. CASE d = c
      BY <2>3, <3>1 DEF Open
    <3>2. CASE d # c
      <4>1. d \in conns /\ d \in Conns
        BY <2>1, <3>2
      <4>2. Open(d) \/ (at[d] = "closing" /\ todo[d] = <<Call("disconnect")>>)
        BY <4>1
      <4> QED
        BY <2>2, <3>2, <4>1, <4>2 DEF Open
    <3> QED
      BY <3>1, <3>2
  <2>8. Leaving(c)'
    BY <2>3, Lists DEF Leaving, Doing, Call
  <2>9. NobodyLeftBehind'
    <3> SUFFICES ASSUME NEW u \in InCall'
                 PROVE  \E d \in Own(u) : Open(d)' \/ Leaving(d)'
      BY DEF NobodyLeftBehind, Own
    <3>1. PICK d \in Own(u) : Open(d) \/ Leaving(d)
      BY <2>1 DEF NobodyLeftBehind
    <3>2. d \in Conns
      BY <3>1 DEF Own
    <3> QED
      BY <2>2, <2>8, <3>1, <3>2 DEF Leaving, Doing, Open
  <2> QED
    BY <2>1, <2>3, <2>4, <2>5, <2>6, <2>7, <2>9
<1>4. ASSUME UNCHANGED vars PROVE TeardownInv'
  BY <1>4 DEF vars, sessionVars, hubVars, TeardownInv, NobodyLeftBehind,
     Leaving, Doing, Open, InCall
<1> QED
  BY <1>1, <1>2, <1>3, <1>4, RequestTeardown, ProceedTeardown DEF SessionNext

(* Nobody is in a call at the start.                                       *)
LEMMA TeardownStart == SessionInit => TeardownInv
<1> QED
  BY DEF SessionInit, HubInit, TeardownInv, NobodyLeftBehind, InCall, ClosingList

(* However an account's connections open, close and overlap, it is never   *)
(* in a call without one of them to take it out (session.rs:154-167).      *)
THEOREM SessionNobodyLeftBehind == SessionSpec => []NobodyLeftBehind
<1>1. SessionSpec => []TeardownInv
  BY SessionHubInvariant, TeardownStart, TeardownStep, PTL DEF SessionSpec
<1>2. TeardownInv => NobodyLeftBehind
  BY DEF TeardownInv
<1> QED
  BY <1>1, <1>2, PTL

----------------------------------------------------------------------------
(* What is owed about an account, by the calls its handler has still to    *)
(* make.  What a client shows of an account in calls, and what the hub has *)
(* of it, are each a set of at most one public state.                      *)

Entry(voice, u) == IF u \in DOMAIN voice THEN {voice[u]} ELSE {}
Truth(u) == IF u \in InCall THEN {Public(members[u])} ELSE {}
Current(u) ==
    IF u \in InCall
    THEN [voice |-> members[u].voice, key |-> keys[members[u].channel]]
    ELSE NoCreds

Publics == [channel : Channels, ssrc : SsrcIds,
            flags : VoiceFlags \cup {[muted |-> FALSE, deafened |-> FALSE]},
            sharing : BOOLEAN]

\* The same with the share started or stopped.
Shared(E, b) == {[e EXCEPT !.sharing = b] : e \in E}

Hi(u)     == ToOthers(Presence(u, TRUE))
Left(u, ch) == Broadcast(VoiceLeave(u, ch))
Stopped(u)  == Broadcast(ScreenStop(u))
Leave(b)  == [op |-> "leave_voice", sharing |-> b]

Opening(u) ==
    {<<Call("read_users"), Call("read_online"), Call("read_voice"),
       Call("ready"), Hi(u)>>,
     <<Call("read_online"), Call("read_voice"), Call("ready"), Hi(u)>>,
     <<Call("read_voice"), Call("ready"), Hi(u)>>,
     <<Call("ready"), Hi(u)>>,
     <<Hi(u)>>}

TakingUp(u, s, K) ==
    {<<ToSelf(VoiceReady(K)), Broadcast(VoiceState(u, s))>>}
    \cup {<<Left(u, ch), ToSelf(VoiceReady(K)), Broadcast(VoiceState(u, s))>> :
            ch \in Channels}

Parting(u, ch) == {<<Stopped(u), Left(u, ch)>>, <<Left(u, ch)>>}
PartingBye(u, ch) ==
    {<<Stopped(u), Left(u, ch), Bye(u)>>, <<Left(u, ch), Bye(u)>>}

\* A client shows E of account u, the hub has T of it and the credential K.
OpenDue(u, E, T, K, list) ==
    \/ /\ list \in Opening(u)
                    \cup {<<>>, <<Broadcast(UserUpdate(u))>>,
                          <<Call("stop_screen")>>}
       /\ E = T
    \/ \E s \in T :
        /\ T = {s}
        /\ list \in {<<Broadcast(VoiceState(u, s))>>} \cup TakingUp(u, s, K)
    \/ list = <<Broadcast(ScreenStart(u))>> /\ T = Shared(E, TRUE)
    \/ list = <<Stopped(u)>> /\ T = Shared(E, FALSE)
    \/ \E b \in BOOLEAN :
        list = <<Leave(b)>> /\ T = Shared(E, FALSE) /\ (T # {} => b)
    \/ \E ch \in Channels :
        list \in Parting(u, ch) /\ T = {} /\ \A e \in E : e.channel = ch

ClosingDue(u, E, T, list) ==
    \/ /\ list \in {<<>>, <<Call("disconnect")>>, <<Call("check_voice"), Bye(u)>>,
                    <<Call("stop_screen"), Bye(u)>>, <<Bye(u)>>}
       /\ E = T
    \/ \E b \in BOOLEAN :
        list = <<Leave(b), Bye(u)>> /\ T = Shared(E, FALSE) /\ (T # {} => b)
    \/ \E ch \in Channels :
        list \in PartingBye(u, ch) /\ T = {} /\ \A e \in E : e.channel = ch

Active(c) == at[c] \in {"open", "closing"}

Due(u, E) ==
    /\ E \subseteq Publics
    /\ \A c \in Own(u) :
        /\ Open(c) => OpenDue(u, E, Truth(u), Current(u), todo[c])
        /\ at[c] = "closing" => ClosingDue(u, E, Truth(u), todo[c])
    /\ (\A c \in Own(u) : ~Active(c)) => E = Truth(u)

\* What d shows of calls, or will once it has the Ready it is being sent.
VoiceRead(d) ==
    Open(d) /\ \A op \in {"read_users", "read_online", "read_voice"} : ~Doing(d, op)
Shows(d) == IF Doing(d, "ready") THEN snap[d].voice ELSE mirror[d].voice

VoiceOwed ==
    /\ \A u \in Users : Due(u, Truth(u))
    /\ \A d \in Conns : \A u \in Users :
        VoiceRead(d) /\ u \notin missed[d].voice => Due(u, Entry(Shows(d), u))

CredsOwed ==
    \A c \in Conns : LET u == UserOf[c] IN
        Open(c) =>
            \/ mirror[c].creds = Current(u)
            \/ \E s \in Truth(u) : todo[c] \in TakingUp(u, s, Current(u))
            \/ \E ch \in Channels : todo[c] \in Parting(u, ch)

\* The same for presence.
OnlineRead(d) ==
    Open(d) /\ \A op \in {"read_users", "read_online"} : ~Doing(d, op)
Reading(d) == Doing(d, "read_voice") \/ Doing(d, "ready")
Knows(d)  == IF Reading(d) THEN snap[d].known ELSE mirror[d].known
Onliners(d) == IF Reading(d) THEN snap[d].online ELSE mirror[d].online

Coming(c) == Open(c) /\ todo[c] \in Opening(UserOf[c])
Going(c)  == at[c] = "closing" /\ c \notin conns /\ todo[c] # <<>>

PresenceOwed ==
    \A d \in Conns : OnlineRead(d) =>
        /\ UserOf[d] \in Onliners(d)
        /\ UserOf[d] \in Knows(d)
        /\ \A u \in Knows(d) \ missed[d].presence :
            (\A c \in Own(u) : ~Coming(c) /\ ~Going(c)) =>
                (u \in Onliners(d) <=> u \in Online)

\* One connection of an account at a time, and what the rest needs of types.
Shapes ==
    /\ \A c, d \in Conns :
        Active(c) /\ Active(d) /\ UserOf[c] = UserOf[d] => c = d
    /\ \A c \in Conns :
        /\ at[c] \in {"unopened", "open", "closing", "closed"}
        /\ Open(c) => c \in conns
        /\ at[c] = "closing" /\ todo[c] = <<Call("disconnect")>> => c \in conns
        /\ at[c] = "unopened" => mirror[c] = Blank
        /\ Active(c) => UserOf[c] \in accounts
        /\ Doing(c, "read_online") => UserOf[c] \in snap[c].known
        /\ mirror[c] = [known |-> mirror[c].known, online |-> mirror[c].online,
                        voice |-> mirror[c].voice, creds |-> mirror[c].creds]
        /\ mirror[c].known \subseteq accounts
        /\ mirror[c].online \subseteq Users
        /\ DOMAIN mirror[c].voice \subseteq Users
        /\ missed[c] = [voice |-> missed[c].voice, presence |-> missed[c].presence]
        /\ snap[c] = [known |-> snap[c].known, online |-> snap[c].online,
                      voice |-> snap[c].voice]
        /\ snap[c].known \subseteq accounts
        /\ snap[c].online \subseteq Users
        /\ DOMAIN snap[c].voice \subseteq Users
    /\ accounts \subseteq Users
    /\ asked \in 0 .. MaxAsks
    /\ todo = [c \in Conns |-> todo[c]] /\ at = [c \in Conns |-> at[c]]
    /\ snap = [c \in Conns |-> snap[c]]

AgreeInv == Shapes /\ VoiceOwed /\ CredsOwed /\ PresenceOwed

----------------------------------------------------------------------------
(* What one frame does to a client's mirror.                               *)

IsMirror(m) ==
    m = [known |-> m.known, online |-> m.online, voice |-> m.voice,
         creds |-> m.creds]

\* n shows E of account u, and what m shows of the others.
Turned(m, n, u, E) ==
    /\ IsMirror(n)
    /\ DOMAIN n.voice \subseteq DOMAIN m.voice \cup {u}
    /\ \A w : Entry(n.voice, w) = IF w = u THEN E ELSE Entry(m.voice, w)

(* A VoiceState frame replaces the entry of its account.                   *)
LEMMA AppliedState ==
    ASSUME NEW x, NEW m, IsMirror(m), NEW u, NEW s,
           NEW n, n = Applied(x, m, VoiceState(u, s))
    PROVE  /\ Turned(m, n, u, {s})
           /\ n.known = m.known /\ n.online = m.online /\ n.creds = m.creds
<1> DEFINE f == VoiceState(u, s)
           v == With(m.voice, u, s)
<1>1. f.t = "voice_state" /\ f.user = u /\ f.state = s
  BY DEF VoiceState
<1>0. n = Applied(x, m, f)
  OBVIOUS
<1> HIDE DEF f
<1>2. n = [m EXCEPT !.voice = v]
  BY <1>0, <1>1 DEF Applied
<1>3. /\ DOMAIN v = DOMAIN m.voice \cup {u}
      /\ \A w \in DOMAIN v : v[w] = IF w = u THEN s ELSE m.voice[w]
  BY DEF With
<1> HIDE DEF v
<1>4. n = [known |-> m.known, online |-> m.online, voice |-> v, creds |-> m.creds]
  BY <1>2 DEF IsMirror
<1>5. \A w : Entry(v, w) = IF w = u THEN {s} ELSE Entry(m.voice, w)
  BY <1>3 DEF Entry
<1> QED
  BY <1>3, <1>4, <1>5 DEF f, IsMirror, Turned

(* A VoiceLeave frame removes the entry if it is of the same channel.      *)
LEMMA AppliedLeave ==
    ASSUME NEW x, NEW m, IsMirror(m), NEW u, NEW ch,
           NEW n, n = Applied(x, m, VoiceLeave(u, ch))
    PROVE  /\ Turned(m, n, u, {e \in Entry(m.voice, u) : e.channel # ch})
           /\ n.known = m.known /\ n.online = m.online
           /\ u = x => n.creds = NoCreds
           /\ u # x => n.creds = m.creds
<1> DEFINE f == VoiceLeave(u, ch)
           v == IF u \in DOMAIN m.voice /\ m.voice[u].channel = ch
                THEN Without(m.voice, u) ELSE m.voice
<1>1. f.t = "voice_leave" /\ f.user = u /\ f.channel = ch
  BY DEF VoiceLeave
<1>0. n = Applied(x, m, f)
  OBVIOUS
<1> HIDE DEF f
<1>2. n = [m EXCEPT !.voice = v, !.creds = IF u = x THEN NoCreds ELSE @]
  BY <1>0, <1>1 DEF Applied
<1>3. /\ DOMAIN v \subseteq DOMAIN m.voice
      /\ \A w : Entry(v, w) =
                IF w = u THEN {e \in Entry(m.voice, w) : e.channel # ch}
                         ELSE Entry(m.voice, w)
  <2>1. CASE u \in DOMAIN m.voice /\ m.voice[u].channel = ch
    <3>1. v = [y \in DOMAIN m.voice \ {u} |-> m.voice[y]]
      BY <2>1 DEF Without
    <3> QED
      BY <2>1, <3>1 DEF Entry
  <2>2. CASE ~(u \in DOMAIN m.voice /\ m.voice[u].channel = ch)
    BY <2>2 DEF Entry
  <2> QED
    BY <2>1, <2>2
<1> HIDE DEF v
<1>4. n = [known |-> m.known, online |-> m.online, voice |-> v,
           creds |-> IF u = x THEN NoCreds ELSE m.creds]
  BY <1>2 DEF IsMirror
<1> QED
  BY <1>3, <1>4 DEF f, IsMirror, Turned

(* ScreenStart and ScreenStop set the share of an entry there is.          *)
LEMMA AppliedShare ==
    ASSUME NEW x, NEW m, IsMirror(m), NEW u, NEW f, NEW b \in BOOLEAN,
           f = IF b THEN ScreenStart(u) ELSE ScreenStop(u),
           NEW n, n = Applied(x, m, f)
    PROVE  /\ Turned(m, n, u, Shared(Entry(m.voice, u), b))
           /\ n.known = m.known /\ n.online = m.online /\ n.creds = m.creds
<1> DEFINE v == [m.voice EXCEPT ![u].sharing = b]
<1>1. f.t \in {"screen_start", "screen_stop"} /\ f.user = u
  BY DEF ScreenStart, ScreenStop
<1>2. (f.t = "screen_start") = b
  BY DEF ScreenStart, ScreenStop
<1>3. CASE u \in DOMAIN m.voice
  <2>1. n = [m EXCEPT !.voice[u].sharing = (f.t = "screen_start")]
    BY <1>1, <1>3 DEF Applied
  <2>2. n = [m EXCEPT !.voice[u].sharing = b]
    BY <1>2, <2>1, Zenon
  <2>3. n = [known |-> m.known, online |-> m.online, voice |-> v, creds |-> m.creds]
    BY <2>2 DEF IsMirror
  <2>4. /\ DOMAIN v = DOMAIN m.voice
        /\ \A w \in DOMAIN v : v[w] = IF w = u THEN [m.voice[w] EXCEPT !.sharing = b]
                                               ELSE m.voice[w]
    BY <1>3
  <2> HIDE DEF v
  <2>5. \A w : Entry(v, w) = IF w = u THEN Shared(Entry(m.voice, w), b)
                                      ELSE Entry(m.voice, w)
    BY <1>3, <2>4 DEF Entry, Shared
  <2> QED
    BY <2>3, <2>4, <2>5 DEF IsMirror, Turned
<1>4. CASE u \notin DOMAIN m.voice
  <2>1. n = m
    BY <1>1, <1>4 DEF Applied
  <2>2. Shared({}, b) = {}
    BY DEF Shared
  <2> QED
    BY <1>4, <2>1, <2>2 DEF Entry, Turned
<1> QED
  BY <1>3, <1>4

(* The frames that are not about calls leave what is shown of them alone.  *)
LEMMA AppliedReady ==
    ASSUME NEW x, NEW m, IsMirror(m), NEW k,
           NEW n, n = Applied(x, m, VoiceReady(k))
    PROVE  n = [known |-> m.known, online |-> m.online, voice |-> m.voice,
                creds |-> k]
<1> QED
  BY DEF Applied, VoiceReady, IsMirror

(* A UserUpdate frame makes its account known and online.                  *)
LEMMA AppliedUpdate ==
    ASSUME NEW x, NEW m, IsMirror(m), NEW u,
           NEW n, n = Applied(x, m, UserUpdate(u))
    PROVE  n = [known |-> m.known \cup {u}, online |-> m.online \cup {u},
                voice |-> m.voice, creds |-> m.creds]
<1> QED
  BY DEF Applied, UserUpdate, IsMirror

(* A Presence frame counts if the client knows the account.                *)
LEMMA AppliedPresence ==
    ASSUME NEW x, NEW m, IsMirror(m), NEW u, NEW b \in BOOLEAN,
           NEW n, n = Applied(x, m, Presence(u, b))
    PROVE  /\ Turned(m, n, u, Entry(m.voice, u))
           /\ n.known = m.known /\ n.creds = m.creds
           /\ \A w : w # u => (w \in n.online <=> w \in m.online)
           /\ u \in m.known => (u \in n.online <=> b)
<1>1. n = [known |-> m.known,
           online |-> IF u \notin m.known THEN m.online
                      ELSE IF b THEN m.online \cup {u} ELSE m.online \ {u},
           voice |-> m.voice, creds |-> m.creds]
  BY DEF Applied, Presence, IsMirror
<1> QED
  BY <1>1 DEF Turned, IsMirror

----------------------------------------------------------------------------
(* What a hub call made for one account does to what is true of accounts.  *)

\* StopScreen(u)'s new record of member w.
StoppedOf(m, u, w) == [m EXCEPT !.sharing = @ /\ w # u, !.watching = @ \ {u}]

(* It differs from the old one in the share and the subscriptions only.    *)
LEMMA StoppedMember ==
    ASSUME NEW m \in Member, NEW u, NEW w, NEW n,
           n = StoppedOf(m, u, w)
    PROVE  /\ n.channel = m.channel /\ n.voice = m.voice /\ n.flags = m.flags
           /\ w # u => n.sharing = m.sharing
           /\ w = u => ~n.sharing
           /\ n.sharing \in BOOLEAN
<1> USE DEF StoppedOf
<1>1. n.channel = m.channel /\ n.voice = m.voice /\ n.flags = m.flags
  BY DEF Member
<1>2. m.sharing \in BOOLEAN
  BY DEF Member
<1>3. n.sharing = (m.sharing /\ w # u)
  BY Zenon DEF Member
<1>4. CASE w # u
  <2>1. (m.sharing /\ w # u) = m.sharing
    BY <1>2, <1>4
  <2>2. n.sharing = m.sharing
    BY <1>3, <2>1, Zenon
  <2> QED
    BY <1>1, <1>2, <1>4, <2>2, Zenon
<1>5. CASE w = u
  <2>1. (m.sharing /\ w # u) = FALSE
    BY <1>2, <1>5
  <2>2. n.sharing = FALSE
    BY <1>3, <2>1, Zenon
  <2> QED
    BY <1>1, <1>5, <2>2, Zenon
<1> QED
  BY <1>4, <1>5

(* Nothing, as far as the others are concerned.                            *)
LEMMA OthersKept ==
    ASSUME HubInv, NEW u \in Users, MemberNext(u), NEW w \in Users, w # u
    PROVE  /\ (w \in InCall)' <=> w \in InCall
           /\ Truth(w)' = Truth(w) /\ Current(w)' = Current(w)
<1>1. members \in [InCall -> Member]
  BY DEF HubInv, HubTypeOK
<1>2. w \in InCall => members[w].channel \in DOMAIN keys
  BY DEF HubInv, KeyHolders
<1> DEFINE Kept(m, k) ==
             /\ w \in DOMAIN m <=> w \in InCall
             /\ w \in InCall =>
                 /\ m[w].channel = members[w].channel
                 /\ m[w].voice = members[w].voice
                 /\ m[w].flags = members[w].flags
                 /\ m[w].sharing = members[w].sharing
                 /\ k[m[w].channel] = keys[members[w].channel]
<1>3. ASSUME Kept(members', keys')
      PROVE  /\ (w \in InCall)' <=> w \in InCall
             /\ Truth(w)' = Truth(w) /\ Current(w)' = Current(w)
  BY <1>3 DEF Truth, Current, Public, InCall
<1>4. ASSUME (\E f \in VoiceFlags : SetVoiceFlags(u, f))
                \/ StartScreen(u) \/ \E v \in Users : Watch(u, v) \/ Unwatch(u, v)
      PROVE  Kept(members', keys')
  BY <1>1, <1>4 DEF SetVoiceFlags, StartScreen, Watch, Unwatch, InCall, Member
<1>10. ASSUME StopScreen(u) PROVE Kept(members', keys')
  <2>1. DOMAIN members' = InCall /\ keys' = keys
    BY <1>10 DEF StopScreen
  <2>2. ASSUME w \in InCall
        PROVE  members'[w] = StoppedOf(members[w], u, w)
    BY <1>10, <2>2, Zenon DEF StopScreen, StoppedOf
  <2>3. w \in InCall => members[w] \in Member
    BY <1>1 DEF InCall
  <2> QED
    BY <2>1, <2>2, <2>3, StoppedMember
<1>5. w \in DOMAIN MembersWithout(u) <=> w \in InCall
  BY DEF MembersWithout
<1>6. ASSUME w \in InCall
      PROVE  LET m == MembersWithout(u)[w] IN
             /\ m.channel = members[w].channel /\ m.voice = members[w].voice
             /\ m.flags = members[w].flags /\ m.sharing = members[w].sharing
  BY <1>1, <1>6 DEF MembersWithout, InCall, Member
<1>7. ASSUME w \in InCall
      PROVE  /\ members[w].channel \in DOMAIN KeysWithout(u)
             /\ KeysWithout(u)[members[w].channel] = keys[members[w].channel]
  BY <1>2, <1>7 DEF KeysWithout, Others, Occupants
<1>8. ASSUME LeaveVoice(u) PROVE Kept(members', keys')
  BY <1>5, <1>6, <1>7, <1>8 DEF LeaveVoice
<1>9. ASSUME NEW c \in Channels, JoinVoice(u, c) PROVE Kept(members', keys')
  <2>1. w \in DOMAIN members' <=> w \in InCall
    BY <1>9 DEF JoinVoice
  <2>2. ASSUME w \in InCall PROVE members'[w] = MembersWithout(u)[w]
    BY <1>9, <2>2 DEF JoinVoice
  <2>3. ASSUME w \in InCall PROVE keys'[members[w].channel] = keys[members[w].channel]
    BY <1>7, <1>9, <2>3 DEF JoinVoice
  <2> QED
    BY <1>6, <2>1, <2>2, <2>3
<1> QED
  BY <1>3, <1>4, <1>8, <1>9, <1>10 DEF MemberNext

(* What the account itself is and has afterwards.                          *)
LEMMA TruthTyped ==
    ASSUME HubInv, NEW u \in Users PROVE Truth(u) \subseteq Publics
<1>1. members \in [InCall -> Member]
  BY DEF HubInv, HubTypeOK
<1> QED
  BY <1>1 DEF Truth, Public, Publics, Member

(* An account that joins is in the call, with the credential it is told.   *)
LEMMA OwnJoin ==
    ASSUME HubInv, NEW u \in Users, NEW c \in Channels, JoinVoice(u, c)
    PROVE  /\ (u \in InCall)'
           /\ Truth(u)' = {Public(members'[u])}
           /\ Current(u)' = NewCredential(u)
<1>1. u \in DOMAIN members'
  BY DEF JoinVoice
<1> QED
  BY <1>1 DEF Truth, Current, NewCredential, InCall, Public

(* An account that leaves is in no call.                                   *)
LEMMA OwnLeave ==
    ASSUME HubInv, NEW u \in Users, LeaveVoice(u)
    PROVE  (u \notin InCall)' /\ Truth(u)' = {} /\ Current(u)' = NoCreds
<1>1. u \notin DOMAIN members'
  BY DEF LeaveVoice, MembersWithout
<1> QED
  BY <1>1 DEF Truth, Current, InCall

(* Flags change what is shown of an account, not its credentials.          *)
LEMMA OwnFlags ==
    ASSUME HubInv, NEW u \in Users, NEW f \in VoiceFlags, SetVoiceFlags(u, f)
    PROVE  Truth(u)' = {Public(members'[u])} /\ Current(u)' = Current(u)
<1>1. members \in [InCall -> Member]
  BY DEF HubInv, HubTypeOK
<1> QED
  BY <1>1 DEF SetVoiceFlags, Truth, Current, InCall, Public, Member

(* Starting and stopping a share changes nothing else that is shown.       *)
LEMMA OwnShare ==
    ASSUME HubInv, NEW u \in Users, NEW b \in BOOLEAN,
           IF b THEN StartScreen(u) ELSE StopScreen(u)
    PROVE  /\ u \in InCall
           /\ Truth(u)' = Shared(Truth(u), b) /\ Current(u)' = Current(u)
<1>1. members \in [InCall -> Member]
  BY DEF HubInv, HubTypeOK
<1>2. u \in InCall
  BY DEF StartScreen, StopScreen
<1>3. /\ members'[u].sharing = b /\ u \in DOMAIN members'
      /\ members'[u].channel = members[u].channel
      /\ members'[u].voice = members[u].voice
      /\ members'[u].flags = members[u].flags
      /\ keys' = keys
  <2>1. CASE b = TRUE
    BY <1>1, <1>2, <2>1 DEF StartScreen, InCall, Member
  <2>2. CASE b = FALSE
    <3>1. members'[u] = StoppedOf(members[u], u, u)
      BY <1>2, <2>2, Zenon DEF StopScreen, StoppedOf
    <3>2. members[u] \in Member
      BY <1>1, <1>2 DEF InCall
    <3>3. DOMAIN members' = InCall /\ keys' = keys
      BY <2>2 DEF StopScreen
    <3>4. /\ members'[u].channel = members[u].channel
          /\ members'[u].voice = members[u].voice
          /\ members'[u].flags = members[u].flags
          /\ ~members'[u].sharing /\ members'[u].sharing \in BOOLEAN
      BY <3>1, <3>2, StoppedMember
    <3>5. members'[u].sharing = b
      BY <2>2, <3>4, Zenon
    <3> QED
      BY <1>2, <2>2, <3>3, <3>4, <3>5, Zenon DEF InCall
  <2> QED
    BY <2>1, <2>2
<1>4. Shared(Truth(u), b) = {[Public(members[u]) EXCEPT !.sharing = b]}
  BY <1>2 DEF Shared, Truth
<1>5. [Public(members[u]) EXCEPT !.sharing = b] = Public(members'[u])
  <2> DEFINE p == Public(members[u])
  <2>1. p = [channel |-> members[u].channel, ssrc |-> members[u].voice,
             flags |-> members[u].flags, sharing |-> members[u].sharing]
    BY DEF Public
  <2> HIDE DEF p
  <2>2. [p EXCEPT !.sharing = b] = [channel |-> members[u].channel,
            ssrc |-> members[u].voice, flags |-> members[u].flags, sharing |-> b]
    BY <2>1
  <2>3. Public(members'[u]) = [channel |-> members[u].channel,
            ssrc |-> members[u].voice, flags |-> members[u].flags, sharing |-> b]
    BY <1>3, Zenon DEF Public
  <2> QED
    BY <2>2, <2>3 DEF p
<1> QED
  BY <1>2, <1>3, <1>4, <1>5 DEF Truth, Current, InCall

(* Watching changes nothing that is shown of the watcher.                  *)
LEMMA OwnWatch ==
    ASSUME HubInv, NEW u \in Users, NEW v \in Users, Watch(u, v) \/ Unwatch(u, v)
    PROVE  Truth(u)' = Truth(u) /\ Current(u)' = Current(u)
<1>1. members \in [InCall -> Member]
  BY DEF HubInv, HubTypeOK
<1> QED
  BY <1>1 DEF Watch, Unwatch, Truth, Current, InCall, Public, Member

(* What the hub has of an account stays while nobody changes it.           *)
LEMMA HubStill ==
    ASSUME UNCHANGED hubVars, NEW u
    PROVE  Truth(u)' = Truth(u) /\ Current(u)' = Current(u) /\ InCall' = InCall
<1> QED
  BY DEF hubVars, Truth, Current, InCall, Public

----------------------------------------------------------------------------
(* The lists of calls, by what is at their head.                           *)

(* Lists of one to five calls.                                             *)
LEMMA OneCall ==
    ASSUME NEW x, NEW list, list = <<x>>
    PROVE  Head(list) = x /\ Tail(list) = <<>> /\ list # <<>>
<1> QED
  OBVIOUS

(* Two calls.                                                              *)
LEMMA TwoCalls ==
    ASSUME NEW x, NEW y, NEW list, list = <<x, y>>
    PROVE  Head(list) = x /\ Tail(list) = <<y>> /\ list # <<>>
<1> QED
  OBVIOUS

(* Three calls.                                                            *)
LEMMA ThreeCalls ==
    ASSUME NEW x, NEW y, NEW z, NEW list, list = <<x, y, z>>
    PROVE  Head(list) = x /\ Tail(list) = <<y, z>> /\ list # <<>>
<1> QED
  OBVIOUS

(* Four calls.                                                             *)
LEMMA FourCalls ==
    ASSUME NEW w, NEW x, NEW y, NEW z, NEW list, list = <<w, x, y, z>>
    PROVE  Head(list) = w /\ Tail(list) = <<x, y, z>> /\ list # <<>>
<1> QED
  OBVIOUS

(* Five calls.                                                             *)
LEMMA FiveCalls ==
    ASSUME NEW v, NEW w, NEW x, NEW y, NEW z, NEW list, list = <<v, w, x, y, z>>
    PROVE  Head(list) = v /\ Tail(list) = <<w, x, y, z>> /\ list # <<>>
<1> QED
  OBVIOUS

(* The share of a state.                                                   *)
LEMMA SharedFacts ==
    ASSUME NEW E, E \subseteq Publics, NEW b \in BOOLEAN
    PROVE  /\ Shared(E, b) \subseteq Publics
           /\ Shared(Shared(E, b), b) = Shared(E, b)
           /\ Shared({}, b) = {}
           /\ E = {} <=> Shared(E, b) = {}
           /\ \A e \in Shared(E, b) : \E o \in E : e.channel = o.channel
           /\ \A o \in E : \E e \in Shared(E, b) : e.channel = o.channel
<1>1. \A e \in E : /\ [e EXCEPT !.sharing = b] \in Publics
                   /\ [e EXCEPT !.sharing = b].channel = e.channel
                   /\ [[e EXCEPT !.sharing = b] EXCEPT !.sharing = b]
                        = [e EXCEPT !.sharing = b]
  BY DEF Publics
<1>2. \A x : x \in Shared(E, b) <=> \E e \in E : x = [e EXCEPT !.sharing = b]
  BY DEF Shared
<1>3. \A x : x \in Shared(Shared(E, b), b)
                <=> \E e \in Shared(E, b) : x = [e EXCEPT !.sharing = b]
  BY DEF Shared
<1>4. Shared(Shared(E, b), b) = Shared(E, b)
  <2>1. ASSUME NEW x \in Shared(Shared(E, b), b) PROVE x \in Shared(E, b)
    <3>1. PICK e \in Shared(E, b) : x = [e EXCEPT !.sharing = b]
      BY <1>3
    <3>2. PICK o \in E : e = [o EXCEPT !.sharing = b]
      BY <1>2
    <3> QED
      BY <1>1, <1>2, <3>1, <3>2
  <2>2. ASSUME NEW x \in Shared(E, b) PROVE x \in Shared(Shared(E, b), b)
    <3>1. PICK o \in E : x = [o EXCEPT !.sharing = b]
      BY <1>2
    <3>2. x = [x EXCEPT !.sharing = b]
      BY <1>1, <3>1
    <3> QED
      BY <1>3, <3>2
  <2> QED
    BY <2>1, <2>2
<1>5. Shared({}, b) = {}
  BY DEF Shared
<1>6. E = {} <=> Shared(E, b) = {}
  BY <1>2
<1>8. \A e \in E : [e EXCEPT !.sharing = b] \in Publics
  BY <1>1
<1>7. /\ Shared(E, b) \subseteq Publics
      /\ \A e \in Shared(E, b) : \E o \in E : e.channel = o.channel
      /\ \A o \in E : \E e \in Shared(E, b) : e.channel = o.channel
  <2>1. Shared(E, b) \subseteq Publics
    <3> SUFFICES ASSUME NEW x \in Shared(E, b) PROVE x \in Publics
      OBVIOUS
    <3>1. PICK o \in E : x = [o EXCEPT !.sharing = b]
      BY <1>2
    <3> QED
      BY <1>8, <3>1
  <2>2. ASSUME NEW e \in Shared(E, b) PROVE \E o \in E : e.channel = o.channel
    <3>1. PICK o \in E : e = [o EXCEPT !.sharing = b]
      BY <1>2
    <3> QED
      BY <1>1, <3>1
  <2>3. ASSUME NEW o \in E PROVE \E e \in Shared(E, b) : e.channel = o.channel
    <3>1. [o EXCEPT !.sharing = b] \in Shared(E, b)
      BY <1>2
    <3> QED
      BY <1>1, <3>1
  <2> QED
    BY <2>1, <2>2, <2>3
<1> QED
  BY <1>4, <1>5, <1>6, <1>7

(* What an open connection has at the head of its list.                    *)
StillHead(u, list) ==
    \/ /\ Head(list) = Call("read_users")
       /\ Tail(list) = <<Call("read_online"), Call("read_voice"), Call("ready"), Hi(u)>>
    \/ /\ Head(list) = Call("read_online")
       /\ Tail(list) = <<Call("read_voice"), Call("ready"), Hi(u)>>
    \/ Head(list) = Call("read_voice") /\ Tail(list) = <<Call("ready"), Hi(u)>>
    \/ Head(list) = Call("ready") /\ Tail(list) = <<Hi(u)>>
    \/ Head(list) = Hi(u) /\ Tail(list) = <<>>
    \/ Head(list) = Broadcast(UserUpdate(u)) /\ Tail(list) = <<>>
    \/ Head(list) = Call("stop_screen") /\ Tail(list) = <<>>
ToldHead(u, s, K, list) ==
    \/ Head(list) = Broadcast(VoiceState(u, s)) /\ Tail(list) = <<>>
    \/ /\ Head(list) = ToSelf(VoiceReady(K))
       /\ Tail(list) = <<Broadcast(VoiceState(u, s))>>
    \/ \E ch \in Channels :
        /\ Head(list) = Left(u, ch)
        /\ Tail(list) = <<ToSelf(VoiceReady(K)), Broadcast(VoiceState(u, s))>>
PartingHead(u, ch, list) ==
    \/ Head(list) = Stopped(u) /\ Tail(list) = <<Left(u, ch)>>
    \/ Head(list) = Left(u, ch) /\ Tail(list) = <<>>

OpenHead(u, E, T, K, list) ==
    \/ E = T /\ StillHead(u, list)
    \/ \E s \in T : T = {s} /\ ToldHead(u, s, K, list)
    \/ /\ Head(list) = Broadcast(ScreenStart(u)) /\ Tail(list) = <<>>
       /\ T = Shared(E, TRUE)
    \/ /\ Head(list) = Stopped(u) /\ Tail(list) = <<>>
       /\ T = Shared(E, FALSE)
    \/ \E b \in BOOLEAN :
        /\ Head(list) = Leave(b) /\ Tail(list) = <<>>
        /\ T = Shared(E, FALSE) /\ (T # {} => b)
    \/ \E ch \in Channels :
        /\ T = {} /\ \A e \in E : e.channel = ch
        /\ PartingHead(u, ch, list)

(* What an open connection owes, by the call it makes next.                *)
LEMMA OpenHeads ==
    ASSUME NEW u, NEW E, NEW T, NEW K, NEW list, list # <<>>,
           OpenDue(u, E, T, K, list)
    PROVE  OpenHead(u, E, T, K, list)
<1> USE DEF OpenHead
<1> USE DEF StillHead, ToldHead, PartingHead
<1>1. CASE /\ E = T
           /\ list \in Opening(u)
                    \cup {<<>>, <<Broadcast(UserUpdate(u))>>, <<Call("stop_screen")>>}
  <2>1. CASE list = <<Call("read_users"), Call("read_online"), Call("read_voice"),
                      Call("ready"), Hi(u)>>
    BY <1>1, <2>1, FiveCalls
  <2>2. CASE list = <<Call("read_online"), Call("read_voice"), Call("ready"), Hi(u)>>
    BY <1>1, <2>2, FourCalls
  <2>3. CASE list = <<Call("read_voice"), Call("ready"), Hi(u)>>
    BY <1>1, <2>3, ThreeCalls
  <2>4. CASE list = <<Call("ready"), Hi(u)>>
    BY <1>1, <2>4, TwoCalls
  <2>5. CASE list = <<Hi(u)>>
    BY <1>1, <2>5, OneCall
  <2>6. CASE list = <<Broadcast(UserUpdate(u))>>
    BY <1>1, <2>6, OneCall
  <2>7. CASE list = <<Call("stop_screen")>>
    BY <1>1, <2>7, OneCall
  <2> QED
    BY <1>1, <2>1, <2>2, <2>3, <2>4, <2>5, <2>6, <2>7 DEF Opening
<1>2. CASE \E s \in T :
            /\ T = {s}
            /\ list \in {<<Broadcast(VoiceState(u, s))>>} \cup TakingUp(u, s, K)
  <2>1. PICK s \in T :
            /\ T = {s}
            /\ list \in {<<Broadcast(VoiceState(u, s))>>} \cup TakingUp(u, s, K)
    BY <1>2
  <2>2. CASE list = <<Broadcast(VoiceState(u, s))>>
    BY <2>1, <2>2, OneCall
  <2>3. CASE list = <<ToSelf(VoiceReady(K)), Broadcast(VoiceState(u, s))>>
    BY <2>1, <2>3, TwoCalls
  <2>4. CASE \E ch \in Channels :
                list = <<Left(u, ch), ToSelf(VoiceReady(K)),
                         Broadcast(VoiceState(u, s))>>
    BY <2>1, <2>4, ThreeCalls
  <2> QED
    BY <2>1, <2>2, <2>3, <2>4 DEF TakingUp
<1>3. CASE list = <<Broadcast(ScreenStart(u))>> /\ T = Shared(E, TRUE)
  BY <1>3, OneCall
<1>4. CASE list = <<Stopped(u)>> /\ T = Shared(E, FALSE)
  BY <1>4, OneCall
<1>5. CASE \E b \in BOOLEAN :
            list = <<Leave(b)>> /\ T = Shared(E, FALSE) /\ (T # {} => b)
  BY <1>5, OneCall
<1>6. CASE \E ch \in Channels :
            list \in Parting(u, ch) /\ T = {} /\ \A e \in E : e.channel = ch
  <2>1. PICK ch \in Channels :
            list \in Parting(u, ch) /\ T = {} /\ \A e \in E : e.channel = ch
    BY <1>6
  <2>2. CASE list = <<Stopped(u), Left(u, ch)>>
    BY <2>1, <2>2, TwoCalls
  <2>3. CASE list = <<Left(u, ch)>>
    BY <2>1, <2>3, OneCall
  <2> QED
    BY <2>1, <2>2, <2>3 DEF Parting
<1> QED
  BY <1>1, <1>2, <1>3, <1>4, <1>5, <1>6 DEF OpenDue

(* What a closing connection has at the head of its list.                  *)
StillClosing(u, list) ==
    \/ /\ list = <<Call("disconnect")>>
       /\ Head(list) = Call("disconnect") /\ Tail(list) = <<>>
    \/ Head(list) = Call("check_voice") /\ Tail(list) = <<Bye(u)>>
    \/ Head(list) = Call("stop_screen") /\ Tail(list) = <<Bye(u)>>
    \/ Head(list) = Bye(u) /\ Tail(list) = <<>>
ClosingParts(u, ch, list) ==
    \/ Head(list) = Stopped(u) /\ Tail(list) = <<Left(u, ch), Bye(u)>>
    \/ Head(list) = Left(u, ch) /\ Tail(list) = <<Bye(u)>>

ClosingHead(u, E, T, list) ==
    \/ E = T /\ StillClosing(u, list)
    \/ \E b \in BOOLEAN :
        /\ Head(list) = Leave(b) /\ Tail(list) = <<Bye(u)>>
        /\ T = Shared(E, FALSE) /\ (T # {} => b)
    \/ \E ch \in Channels :
        /\ T = {} /\ \A e \in E : e.channel = ch
        /\ ClosingParts(u, ch, list)

(* What a closing connection owes, by the call it makes next.              *)
LEMMA ClosingDueHeads ==
    ASSUME NEW u, NEW E, NEW T, NEW list, list # <<>>, ClosingDue(u, E, T, list)
    PROVE  ClosingHead(u, E, T, list)
<1> USE DEF ClosingHead
<1> USE DEF StillClosing, ClosingParts
<1>1. CASE /\ E = T
           /\ list \in {<<>>, <<Call("disconnect")>>, <<Call("check_voice"), Bye(u)>>,
                        <<Call("stop_screen"), Bye(u)>>, <<Bye(u)>>}
  <2>1. CASE list = <<Call("disconnect")>>
    BY <1>1, <2>1, OneCall
  <2>2. CASE list = <<Call("check_voice"), Bye(u)>>
    BY <1>1, <2>2, TwoCalls
  <2>3. CASE list = <<Call("stop_screen"), Bye(u)>>
    BY <1>1, <2>3, TwoCalls
  <2>4. CASE list = <<Bye(u)>>
    BY <1>1, <2>4, OneCall
  <2> QED
    BY <1>1, <2>1, <2>2, <2>3, <2>4
<1>2. CASE \E b \in BOOLEAN :
            list = <<Leave(b), Bye(u)>> /\ T = Shared(E, FALSE) /\ (T # {} => b)
  <2>1. PICK b \in BOOLEAN :
            list = <<Leave(b), Bye(u)>> /\ T = Shared(E, FALSE) /\ (T # {} => b)
    BY <1>2
  <2>2. Head(list) = Leave(b) /\ Tail(list) = <<Bye(u)>>
    BY <2>1, TwoCalls
  <2> QED
    BY <2>1, <2>2
<1>3. CASE \E ch \in Channels :
            list \in PartingBye(u, ch) /\ T = {} /\ \A e \in E : e.channel = ch
  <2>1. PICK ch \in Channels :
            list \in PartingBye(u, ch) /\ T = {} /\ \A e \in E : e.channel = ch
    BY <1>3
  <2>2. CASE list = <<Stopped(u), Left(u, ch), Bye(u)>>
    <3>1. Head(list) = Stopped(u) /\ Tail(list) = <<Left(u, ch), Bye(u)>>
      BY <2>2, ThreeCalls
    <3> QED
      BY <2>1, <3>1
  <2>3. CASE list = <<Left(u, ch), Bye(u)>>
    <3>1. Head(list) = Left(u, ch) /\ Tail(list) = <<Bye(u)>>
      BY <2>3, TwoCalls
    <3> QED
      BY <2>1, <3>1
  <2> QED
    BY <2>1, <2>2, <2>3 DEF PartingBye
<1> QED
  BY <1>1, <1>2, <1>3 DEF ClosingDue

(* A frame about u and what it makes of what is shown of u.                *)
AboutFrame(u, f) ==
    \/ f = UserUpdate(u)
    \/ \E b \in BOOLEAN : f = Presence(u, b)
    \/ \E k : f = VoiceReady(k)
    \/ \E s \in Publics : f = VoiceState(u, s)
    \/ \E ch \in Channels : f = VoiceLeave(u, ch)
    \/ f = ScreenStart(u) \/ f = ScreenStop(u)

Effect(f, E) ==
    CASE f.t = "voice_state"  -> {f.state}
      [] f.t = "voice_leave"  -> {e \in E : e.channel # f.channel}
      [] f.t = "screen_start" -> Shared(E, TRUE)
      [] f.t = "screen_stop"  -> Shared(E, FALSE)
      [] OTHER -> E

Sends(call, f) == call \in {Broadcast(f), ToOthers(f), ToSelf(f)}

(* The calls told apart by what they are.                                  *)
LEMMA SendsOnly ==
    ASSUME NEW f, NEW call, Sends(call, f), NEW g, NEW op, NEW b
    PROVE  /\ call = Broadcast(g) => f = g
           /\ call = ToOthers(g) => f = g
           /\ call = ToSelf(g) => f = g
           /\ op \notin {"broadcast", "to_others", "to_self"} => call # Call(op)
           /\ call # Leave(b)
<1> QED
  BY DEF Sends, Broadcast, ToOthers, ToSelf, Call, Leave

(* What is owed by an open connection stays owed over a frame it sends:    *)
(* by what is shown once the frame is applied, and, where the hub was read *)
(* just before, by what the hub has.                                       *)
LEMMA OpenFrame ==
    ASSUME NEW u, NEW E, NEW T, NEW K, NEW list, list # <<>>,
           E \subseteq Publics, T \subseteq Publics,
           OpenDue(u, E, T, K, list), NEW f, Sends(Head(list), f)
    PROVE  /\ OpenDue(u, Effect(f, E), T, K, Tail(list))
           /\ E = T => OpenDue(u, T, T, K, Tail(list))
           /\ Effect(f, E) \subseteq Publics
           /\ AboutFrame(u, f)
<1> DEFINE Goal == /\ OpenDue(u, Effect(f, E), T, K, Tail(list))
                   /\ E = T => OpenDue(u, T, T, K, Tail(list))
                   /\ Effect(f, E) \subseteq Publics
                   /\ AboutFrame(u, f)
<1>0. Head(list) \notin {Call("read_users"), Call("read_online"),
        Call("read_voice"), Call("ready"), Call("stop_screen"),
        Call("disconnect"), Call("check_voice")}
  BY DEF Sends, Broadcast, ToOthers, ToSelf, Call
<1>1. ASSUME Head(list) = Hi(u), Tail(list) = <<>>, E = T PROVE Goal
  <2>1. f = Presence(u, TRUE)
    BY <1>1, SendsOnly DEF Hi
  <2>2. Effect(f, E) = E
    BY <2>1 DEF Effect, Presence
  <2> QED
    BY <1>1, <2>1, <2>2 DEF OpenDue, AboutFrame
<1>2. ASSUME Head(list) = Broadcast(UserUpdate(u)), Tail(list) = <<>>, E = T PROVE Goal
  <2>1. f = UserUpdate(u)
    BY <1>2, SendsOnly
  <2>2. Effect(f, E) = E
    BY <2>1 DEF Effect, UserUpdate
  <2> QED
    BY <1>2, <2>1, <2>2 DEF OpenDue, AboutFrame
<1>3. ASSUME NEW s \in T, T = {s}, Head(list) = Broadcast(VoiceState(u, s)),
             Tail(list) = <<>> PROVE Goal
  <2>1. f = VoiceState(u, s)
    BY <1>3, SendsOnly
  <2>2. Effect(f, E) = {s}
    BY <2>1 DEF Effect, VoiceState
  <2> QED
    BY <1>3, <2>1, <2>2 DEF OpenDue, AboutFrame
<1>4. ASSUME NEW s \in T, T = {s}, Head(list) = ToSelf(VoiceReady(K)),
             Tail(list) = <<Broadcast(VoiceState(u, s))>> PROVE Goal
  <2>1. f = VoiceReady(K)
    BY <1>4, SendsOnly
  <2>2. Effect(f, E) = E
    BY <2>1 DEF Effect, VoiceReady
  <2> QED
    BY <1>4, <2>1, <2>2 DEF OpenDue, AboutFrame
<1>5. ASSUME NEW s \in T, T = {s}, NEW ch \in Channels, Head(list) = Left(u, ch),
             Tail(list) = <<ToSelf(VoiceReady(K)), Broadcast(VoiceState(u, s))>>
      PROVE  Goal
  <2>1. f = VoiceLeave(u, ch)
    BY <1>5, SendsOnly DEF Left
  <2>4. Effect(f, E) = {e \in E : e.channel # ch}
    BY <2>1 DEF Effect, VoiceLeave
  <2>2. Effect(f, E) \subseteq E
    BY <2>4
  <2>3. Tail(list) \in TakingUp(u, s, K)
    BY <1>5 DEF TakingUp
  <2> QED
    BY <1>5, <2>1, <2>2, <2>3 DEF OpenDue, AboutFrame
<1>6. ASSUME Head(list) = Broadcast(ScreenStart(u)), Tail(list) = <<>>,
             T = Shared(E, TRUE) PROVE Goal
  <2>1. f = ScreenStart(u)
    BY <1>6, SendsOnly
  <2>2. Effect(f, E) = T
    BY <1>6, <2>1 DEF Effect, ScreenStart
  <2> QED
    BY <1>6, <2>1, <2>2 DEF OpenDue, AboutFrame
<1>7. ASSUME Head(list) = Stopped(u), Tail(list) = <<>>,
             T = Shared(E, FALSE) PROVE Goal
  <2>1. f = ScreenStop(u)
    BY <1>7, SendsOnly DEF Stopped
  <2>2. Effect(f, E) = T
    BY <1>7, <2>1 DEF Effect, ScreenStop
  <2> QED
    BY <1>7, <2>1, <2>2 DEF OpenDue, AboutFrame
<1>8. ASSUME NEW b \in BOOLEAN, Head(list) = Leave(b) PROVE FALSE
  BY <1>8, SendsOnly
<1>9. ASSUME NEW ch \in Channels, T = {}, \A e \in E : e.channel = ch,
             Head(list) = Stopped(u), Tail(list) = <<Left(u, ch)>> PROVE Goal
  <2>1. f = ScreenStop(u)
    BY <1>9, SendsOnly DEF Stopped
  <2>2. Effect(f, E) = Shared(E, FALSE)
    BY <2>1 DEF Effect, ScreenStop
  <2>3. /\ Effect(f, E) \subseteq Publics
        /\ \A e \in Effect(f, E) : e.channel = ch
    <3>1. /\ Shared(E, FALSE) \subseteq Publics
          /\ \A e \in Shared(E, FALSE) : \E o \in E : e.channel = o.channel
      BY SharedFacts, Zenon
    <3> QED
      BY <1>9, <2>2, <3>1
  <2>4. Tail(list) \in Parting(u, ch)
    BY <1>9 DEF Parting
  <2> QED
    BY <1>9, <2>1, <2>3, <2>4 DEF OpenDue, AboutFrame
<1>10. ASSUME NEW ch \in Channels, T = {}, \A e \in E : e.channel = ch,
              Head(list) = Left(u, ch), Tail(list) = <<>> PROVE Goal
  <2>1. f = VoiceLeave(u, ch)
    BY <1>10, SendsOnly DEF Left
  <2>3. Effect(f, E) = {e \in E : e.channel # ch}
    BY <2>1 DEF Effect, VoiceLeave
  <2>2. Effect(f, E) = {}
    BY <1>10, <2>3
  <2> QED
    BY <1>10, <2>1, <2>2 DEF OpenDue, AboutFrame
<1> HIDE DEF Goal
<1>11. ASSUME E = T, StillHead(u, list) PROVE Goal
  BY <1>0, <1>1, <1>2, <1>11 DEF StillHead
<1>12. ASSUME NEW s \in T, T = {s}, ToldHead(u, s, K, list) PROVE Goal
  BY <1>3, <1>4, <1>5, <1>12, Zenon DEF ToldHead
<1>13. ASSUME NEW ch \in Channels, T = {}, \A e \in E : e.channel = ch,
              PartingHead(u, ch, list) PROVE Goal
  BY <1>9, <1>10, <1>13, Zenon DEF PartingHead
<1>14. OpenHead(u, E, T, K, list)
  BY OpenHeads
<1>15. Goal
  BY <1>6, <1>7, <1>8, <1>11, <1>12, <1>13, <1>14, Zenon DEF OpenHead
<1> QED
  BY <1>15 DEF Goal

(* And by a closing one.                                                   *)
LEMMA ClosingFrame ==
    ASSUME NEW u, NEW E, NEW T, NEW list, list # <<>>,
           E \subseteq Publics, T \subseteq Publics,
           ClosingDue(u, E, T, list), NEW f, Sends(Head(list), f)
    PROVE  /\ ClosingDue(u, Effect(f, E), T, Tail(list))
           /\ E = T => ClosingDue(u, T, T, Tail(list))
           /\ Effect(f, E) \subseteq Publics
           /\ AboutFrame(u, f)
<1> DEFINE Goal == /\ ClosingDue(u, Effect(f, E), T, Tail(list))
                   /\ E = T => ClosingDue(u, T, T, Tail(list))
                   /\ Effect(f, E) \subseteq Publics
                   /\ AboutFrame(u, f)
<1>0. Head(list) \notin {Call("read_users"), Call("read_online"),
        Call("read_voice"), Call("ready"), Call("stop_screen"),
        Call("disconnect"), Call("check_voice")}
  BY DEF Sends, Broadcast, ToOthers, ToSelf, Call
<1>1. ASSUME Head(list) = Bye(u), Tail(list) = <<>>, E = T PROVE Goal
  <2>1. f = Presence(u, FALSE)
    BY <1>1, SendsOnly DEF Bye
  <2>2. Effect(f, E) = E
    BY <2>1 DEF Effect, Presence
  <2> QED
    BY <1>1, <2>1, <2>2 DEF ClosingDue, AboutFrame
<1>2. ASSUME NEW b \in BOOLEAN, Head(list) = Leave(b) PROVE FALSE
  BY <1>2, SendsOnly
<1>3. ASSUME NEW ch \in Channels, T = {}, \A e \in E : e.channel = ch,
             Head(list) = Stopped(u), Tail(list) = <<Left(u, ch), Bye(u)>> PROVE Goal
  <2>1. f = ScreenStop(u)
    BY <1>3, SendsOnly DEF Stopped
  <2>2. Effect(f, E) = Shared(E, FALSE)
    BY <2>1 DEF Effect, ScreenStop
  <2>3. /\ Effect(f, E) \subseteq Publics
        /\ \A e \in Effect(f, E) : e.channel = ch
    <3>1. /\ Shared(E, FALSE) \subseteq Publics
          /\ \A e \in Shared(E, FALSE) : \E o \in E : e.channel = o.channel
      BY SharedFacts, Zenon
    <3> QED
      BY <1>3, <2>2, <3>1
  <2>4. Tail(list) \in PartingBye(u, ch)
    BY <1>3 DEF PartingBye
  <2> QED
    BY <1>3, <2>1, <2>3, <2>4 DEF ClosingDue, AboutFrame
<1>4. ASSUME NEW ch \in Channels, T = {}, \A e \in E : e.channel = ch,
             Head(list) = Left(u, ch), Tail(list) = <<Bye(u)>> PROVE Goal
  <2>1. f = VoiceLeave(u, ch)
    BY <1>4, SendsOnly DEF Left
  <2>3. Effect(f, E) = {e \in E : e.channel # ch}
    BY <2>1 DEF Effect, VoiceLeave
  <2>2. Effect(f, E) = {}
    BY <1>4, <2>3
  <2> QED
    BY <1>4, <2>1, <2>2 DEF ClosingDue, AboutFrame
<1> HIDE DEF Goal
<1>5. ASSUME E = T, StillClosing(u, list) PROVE Goal
  BY <1>0, <1>1, <1>5 DEF StillClosing
<1>6. ASSUME NEW ch \in Channels, T = {}, \A e \in E : e.channel = ch,
             ClosingParts(u, ch, list) PROVE Goal
  BY <1>3, <1>4, <1>6, Zenon DEF ClosingParts
<1>8. ClosingHead(u, E, T, list)
  BY ClosingDueHeads
<1>7. Goal
  BY <1>2, <1>5, <1>6, <1>8, Zenon DEF ClosingHead
<1> QED
  BY <1>7 DEF Goal

----------------------------------------------------------------------------
(* One step of one connection's handler.                                   *)

ReadingList(list) ==
    /\ list # <<>>
    /\ Head(list).op \in {"read_users", "read_online", "read_voice", "ready"}

CredDue(u, creds, T, K, list) ==
    \/ creds = K
    \/ \E s \in T : list \in TakingUp(u, s, K)
    \/ \E ch \in Channels : list \in Parting(u, ch)

(* Only one connection of an account has anything to do, and what is owed  *)
(* about the account is what that one owes.                                *)
LEMMA DueByOne ==
    ASSUME Shapes, NEW c \in Conns, Active(c), NEW E
    PROVE  Due(UserOf[c], E) <=>
              /\ E \subseteq Publics
              /\ Open(c) => OpenDue(UserOf[c], E, Truth(UserOf[c]),
                                    Current(UserOf[c]), todo[c])
              /\ at[c] = "closing" =>
                    ClosingDue(UserOf[c], E, Truth(UserOf[c]), todo[c])
<1>1. c \in Own(UserOf[c])
  BY DEF Own
<1>2. \A d \in Own(UserOf[c]) : Active(d) => d = c
  BY DEF Shapes, Own
<1> QED
  BY <1>1, <1>2 DEF Due, Active, Open

(* A step that neither sends nor reads anything.                           *)
LEMMA WorkStep ==
    ASSUME AgreeInv, NEW c \in Conns, Active(c), NEW calls,
           UNCHANGED <<accounts, conns, at, snap, mirror, missed>>,
           asked' \in 0 .. MaxAsks,
           todo' = [todo EXCEPT ![c] = calls],
           NEW u, u = UserOf[c],
           NEW T, T = Truth(u)', T \subseteq Publics, NEW K, K = Current(u)',
           \A w \in Users \ {u} : Truth(w)' = Truth(w) /\ Current(w)' = Current(w),
           ~ReadingList(todo[c]), ~ReadingList(calls),
           Open(c) =>
              /\ \A E \in SUBSET Publics :
                    OpenDue(u, E, Truth(u), Current(u), todo[c]) =>
                        OpenDue(u, E, T, K, calls)
              /\ OpenDue(u, T, T, K, calls)
              /\ CredDue(u, mirror[c].creds, Truth(u), Current(u), todo[c]) =>
                    CredDue(u, mirror[c].creds, T, K, calls)
              /\ todo[c] \notin Opening(u),
           at[c] = "closing" =>
              /\ \A E \in SUBSET Publics :
                    ClosingDue(u, E, Truth(u), todo[c]) => ClosingDue(u, E, T, calls)
              /\ ClosingDue(u, T, T, calls)
              /\ calls # <<Call("disconnect")>>
              /\ c \notin conns => todo[c] # <<>> /\ calls # <<>>
    PROVE  AgreeInv'
<1> USE DEF AgreeInv
<1>1. /\ \A d \in Conns : d # c => todo'[d] = todo[d]
      /\ todo'[c] = calls /\ todo' = [d \in Conns |-> todo'[d]]
  BY DEF Shapes
<1>2. /\ \A d \in Conns : Open(d)' <=> Open(d)
      /\ \A d \in Conns : Active(d)' <=> Active(d)
      /\ Online' = Online
  BY DEF Open, Active, Online
<1>3. \A d \in Conns : \A op \in {"read_users", "read_online", "read_voice", "ready"} :
            Doing(d, op)' <=> Doing(d, op)
  BY <1>1 DEF Doing, ReadingList
<1>4. Shapes'
  <2>1. \A d \in Conns : at'[d] = "closing" /\ todo'[d] = <<Call("disconnect")>>
                            => d \in conns'
    BY <1>1 DEF Shapes
  <2> QED
    BY <1>1, <1>2, <1>3, <2>1 DEF Shapes
<1>5. u \in Users /\ \A w : \A d \in Own(w) : d \in Conns /\ UserOf[d] = w
  BY SessionAssumption DEF Own
<1>6. \A w \in Users \ {u} : \A E : Due(w, E)' <=> Due(w, E)
  <2> SUFFICES ASSUME NEW w \in Users \ {u}, NEW E PROVE Due(w, E)' <=> Due(w, E)
    OBVIOUS
  <2>1. \A d \in Own(w) : d # c /\ d \in Conns
    BY <1>5
  <2>2. Truth(w)' = Truth(w) /\ Current(w)' = Current(w)
    OBVIOUS
  <2> QED
    BY <1>1, <1>2, <2>1, <2>2 DEF Due
<1>7. ASSUME NEW E, Due(u, E) PROVE Due(u, E)'
  <2>1. /\ E \subseteq Publics
        /\ Open(c) => OpenDue(u, E, Truth(u), Current(u), todo[c])
        /\ at[c] = "closing" => ClosingDue(u, E, Truth(u), todo[c])
    BY <1>7, DueByOne
  <2>2. /\ Open(c) => OpenDue(u, E, T, K, calls)
        /\ at[c] = "closing" => ClosingDue(u, E, T, calls)
    BY <2>1
  <2>3. \A d \in Own(u) : Active(d) => d = c
    BY <1>5 DEF Shapes
  <2> QED
    BY <1>1, <1>2, <2>1, <2>2, <2>3 DEF Due, Active, Open, Own
<1>8. Due(u, T)'
  <2>3. \A d \in Own(u) : Active(d) => d = c
    BY <1>5 DEF Shapes
  <2> QED
    BY <1>1, <1>2, <2>3 DEF Due, Active, Open, Own
<1>9. VoiceOwed'
  <2>1. ASSUME NEW w \in Users PROVE Due(w, Truth(w))'
    <3>1. CASE w = u
      BY <1>8, <3>1 DEF Due
    <3>2. CASE w # u
      <4>1. Due(w, Truth(w)) /\ Truth(w)' = Truth(w)
        BY <3>2 DEF VoiceOwed
      <4>2. \A E : E = Truth(w) => Due(w, E)'
        BY <1>6, <3>2, <4>1
      <4> QED
        BY <4>1, <4>2 DEF Due
    <3> QED
      BY <3>1, <3>2
  <2>2. ASSUME NEW d \in Conns, NEW w \in Users, VoiceRead(d)', w \notin missed'[d].voice
        PROVE  Due(w, Entry(Shows(d), w))'
    <3>1. VoiceRead(d) /\ Shows(d)' = Shows(d)
      BY <1>2, <1>3, <2>2 DEF VoiceRead, Shows
    <3>2. Due(w, Entry(Shows(d), w))
      BY <2>2, <3>1 DEF VoiceOwed
    <3>3. \A E : E = Entry(Shows(d), w) => Due(w, E)'
      BY <1>6, <1>7, <3>2
    <3> QED
      BY <3>1, <3>3 DEF Due, Entry
  <2> QED
    BY <2>1, <2>2 DEF VoiceOwed
<1>10. CredsOwed'
  <2> SUFFICES ASSUME NEW d \in Conns, Open(d)
               PROVE  CredDue(UserOf[d], mirror[d].creds, Truth(UserOf[d])',
                              Current(UserOf[d])', todo'[d])
    BY <1>2 DEF CredsOwed, CredDue
  <2>1. CredDue(UserOf[d], mirror[d].creds, Truth(UserOf[d]),
                              Current(UserOf[d]), todo[d])
    BY DEF CredsOwed, CredDue
  <2>2. CASE d = c
    BY <1>1, <2>1, <2>2
  <2>3. CASE d # c
    <3>1. UserOf[d] \in Users \ {u}
      BY <2>3, SessionAssumption DEF Shapes, Active, Open
    <3> QED
      BY <1>1, <2>1, <2>3, <3>1 DEF CredDue
  <2> QED
    BY <2>2, <2>3
<1>11. PresenceOwed'
  <2>1. \A d \in Conns : Coming(d)' /\ d # c => Coming(d)
    BY <1>1, <1>2 DEF Coming
  <2>2. \A d \in Conns : Coming(d) => d # c
    BY DEF Coming
  <2>3. \A d \in Conns : Coming(d) => Coming(d)'
    BY <1>1, <1>2, <2>2 DEF Coming
  <2>4. \A d \in Conns : Going(d) => Going(d)'
    BY <1>1 DEF Going
  <2> SUFFICES ASSUME NEW d \in Conns, OnlineRead(d)'
               PROVE  /\ UserOf[d] \in Onliners(d)'
                      /\ UserOf[d] \in Knows(d)'
                      /\ \A w \in Knows(d)' \ missed'[d].presence :
                            (\A b \in Own(w) : ~Coming(b)' /\ ~Going(b)') =>
                                (w \in Onliners(d)' <=> w \in Online')
    BY DEF PresenceOwed, Own
  <2>5. /\ OnlineRead(d) /\ Onliners(d)' = Onliners(d)
        /\ Knows(d)' = Knows(d)
    BY <1>2, <1>3 DEF OnlineRead, Onliners, Knows, Reading
  <2> QED
    BY <1>2, <1>5, <2>3, <2>4, <2>5 DEF PresenceOwed
<1> QED
  BY <1>4, <1>9, <1>10, <1>11

----------------------------------------------------------------------------
(* One frame on its way to the clients.                                    *)

\* Mirror m of a client of x's, and mirror n that frame f about u makes of it.
FrameShown(x, m, u, f, n) ==
    /\ Turned(m, n, u, Effect(f, Entry(m.voice, u)))
    /\ \A w : w # u => /\ w \in n.known <=> w \in m.known
                       /\ w \in n.online <=> w \in m.online
    /\ f.t # "user_update" => n.known = m.known
    /\ f.t \notin {"user_update", "presence"} => n.online = m.online
    /\ f.t = "user_update" => u \in n.known /\ u \in n.online
    /\ \A b \in BOOLEAN :
         f = Presence(u, b) /\ u \in m.known => (u \in n.online <=> b)
    /\ f.t \notin {"voice_ready", "voice_leave"} => n.creds = m.creds
    /\ u # x /\ f.t = "voice_leave" => n.creds = m.creds
    /\ u = x /\ f.t = "voice_leave" => n.creds = NoCreds
    /\ \A k : f = VoiceReady(k) => n.creds = k

(* What a frame about u does to a mirror, whatever the frame.              *)
LEMMA AppliedFrame ==
    ASSUME NEW x, NEW m, IsMirror(m), NEW u, NEW f, AboutFrame(u, f),
           NEW n, n = Applied(x, m, f)
    PROVE  FrameShown(x, m, u, f, n)
<1> DEFINE Goal == FrameShown(x, m, u, f, n)
<1> USE DEF FrameShown
<1>0. /\ \A b : f = Presence(u, b) => f.t = "presence"
      /\ \A k : f = VoiceReady(k) => f.t = "voice_ready" /\ f.cred = k
  BY DEF Presence, VoiceReady
<1>1. CASE f = UserUpdate(u)
  <2>1. n = [known |-> m.known \cup {u}, online |-> m.online \cup {u},
             voice |-> m.voice, creds |-> m.creds]
    BY <1>1, AppliedUpdate
  <2>2. f.t = "user_update"
    BY <1>1 DEF UserUpdate
  <2>3. Effect(f, Entry(m.voice, u)) = Entry(m.voice, u)
    BY <2>2 DEF Effect
  <2> QED
    BY <1>0, <2>1, <2>2, <2>3 DEF IsMirror, Turned
<1>2. ASSUME NEW b \in BOOLEAN, f = Presence(u, b) PROVE Goal
  <2>1. f.t = "presence" /\ \A a \in BOOLEAN : f = Presence(u, a) => (a <=> b)
    BY <1>2 DEF Presence
  <2>2. /\ Turned(m, n, u, Entry(m.voice, u))
        /\ n.known = m.known /\ n.creds = m.creds
        /\ \A w : w # u => (w \in n.online <=> w \in m.online)
        /\ u \in m.known => (u \in n.online <=> b)
    BY <1>2, AppliedPresence
  <2>3. Effect(f, Entry(m.voice, u)) = Entry(m.voice, u)
    BY <2>1 DEF Effect
  <2> QED
    BY <1>0, <2>1, <2>2, <2>3
<1>3. ASSUME NEW k, f = VoiceReady(k) PROVE Goal
  <2>1. n = [known |-> m.known, online |-> m.online, voice |-> m.voice, creds |-> k]
    BY <1>3, AppliedReady
  <2>2. f.t = "voice_ready" /\ \A l : f = VoiceReady(l) => l = k
    BY <1>3 DEF VoiceReady
  <2>3. Effect(f, Entry(m.voice, u)) = Entry(m.voice, u)
    BY <2>2 DEF Effect
  <2> QED
    BY <1>0, <2>1, <2>2, <2>3 DEF IsMirror, Turned
<1>4. ASSUME NEW s \in Publics, f = VoiceState(u, s) PROVE Goal
  <2>1. /\ Turned(m, n, u, {s})
        /\ n.known = m.known /\ n.online = m.online /\ n.creds = m.creds
    BY <1>4, AppliedState
  <2>2. f.t = "voice_state" /\ f.state = s
    BY <1>4 DEF VoiceState
  <2>3. Effect(f, Entry(m.voice, u)) = {s}
    BY <2>2 DEF Effect
  <2> QED
    BY <1>0, <2>1, <2>2, <2>3
<1>5. ASSUME NEW ch \in Channels, f = VoiceLeave(u, ch) PROVE Goal
  <2>1. /\ Turned(m, n, u, {e \in Entry(m.voice, u) : e.channel # ch})
        /\ n.known = m.known /\ n.online = m.online
        /\ u = x => n.creds = NoCreds
        /\ u # x => n.creds = m.creds
    BY <1>5, AppliedLeave
  <2>2. f.t = "voice_leave" /\ f.channel = ch
    BY <1>5 DEF VoiceLeave
  <2>3. Effect(f, Entry(m.voice, u)) = {e \in Entry(m.voice, u) : e.channel # ch}
    BY <2>2 DEF Effect
  <2> QED
    BY <1>0, <2>1, <2>2, <2>3
<1>6. ASSUME NEW b \in BOOLEAN, f = IF b THEN ScreenStart(u) ELSE ScreenStop(u)
      PROVE  Goal
  <2>1. /\ Turned(m, n, u, Shared(Entry(m.voice, u), b))
        /\ n.known = m.known /\ n.online = m.online /\ n.creds = m.creds
    BY <1>6, AppliedShare
  <2>2. f.t = IF b THEN "screen_start" ELSE "screen_stop"
    BY <1>6 DEF ScreenStart, ScreenStop
  <2>3. Effect(f, Entry(m.voice, u)) = Shared(Entry(m.voice, u), b)
    <3>1. CASE b = TRUE
      <4>1. f.t = "screen_start"
        BY <2>2, <3>1
      <4>2. Effect(f, Entry(m.voice, u)) = Shared(Entry(m.voice, u), TRUE)
        BY <4>1 DEF Effect
      <4> QED
        BY <3>1, <4>2, Zenon
    <3>2. CASE b = FALSE
      <4>1. f.t = "screen_stop"
        BY <2>2, <3>2
      <4>2. Effect(f, Entry(m.voice, u)) = Shared(Entry(m.voice, u), FALSE)
        BY <4>1 DEF Effect
      <4> QED
        BY <3>2, <4>2, Zenon
    <3> QED
      BY <3>1, <3>2
  <2>5. f.t \in {"screen_start", "screen_stop"}
    BY <2>2
  <2> QED
    BY <1>0, <2>1, <2>3, <2>5
<1>7. CASE f = ScreenStart(u)
  BY <1>6, <1>7
<1>8. CASE f = ScreenStop(u)
  BY <1>6, <1>8
<1> QED
  BY <1>1, <1>2, <1>3, <1>4, <1>5, <1>7, <1>8 DEF AboutFrame

\* What is recorded of d when it is sent frame f about u becomes n.
FrameMissed(d, u, f, n) ==
    /\ n = [voice |-> n.voice, presence |-> n.presence]
    /\ \A w : w # u => /\ w \in n.voice <=> w \in missed[d].voice
                       /\ w \in n.presence <=> w \in missed[d].presence
    /\ u \notin n.voice /\ Doing(d, "ready") =>
         u \notin missed[d].voice /\ \A E : Effect(f, E) = E
    /\ u \notin n.voice /\ ~Doing(d, "ready") =>
         u \notin missed[d].voice \/ f.t = "voice_state"
    /\ u \notin n.presence /\ Reading(d) =>
         u \notin missed[d].presence /\ f.t # "presence"
    /\ u \notin n.presence /\ ~Reading(d) =>
         u \notin missed[d].presence \/ f.t = "presence"

(* What is recorded of frames that a client's Ready overtakes.             *)
LEMMA MissedFrame ==
    ASSUME NEW d \in Conns, NEW u, NEW f, AboutFrame(u, f),
           missed[d] = [voice |-> missed[d].voice, presence |-> missed[d].presence],
           NEW n, n = MissedBy(d, f)
    PROVE  FrameMissed(d, u, f, n)
<1> USE DEF FrameMissed
<1> DEFINE voiceKinds == {"voice_state", "voice_leave", "screen_start", "screen_stop"}
<1>1. f.user = u \/ f.t = "voice_ready"
  BY DEF AboutFrame, UserUpdate, Presence, VoiceReady, VoiceState, VoiceLeave,
     ScreenStart, ScreenStop
<1>2. f.t \notin voiceKinds => \A E : Effect(f, E) = E
  BY DEF Effect
<1>3. CASE f.t = "presence"
  <2>1. CASE Reading(d)
    <3>1. n = [missed[d] EXCEPT !.presence = @ \cup {f.user}]
      BY <1>3, <2>1 DEF MissedBy, Reading
    <3> QED
      BY <1>1, <1>2, <1>3, <2>1, <3>1
  <2>2. CASE ~Reading(d)
    <3>1. n = [missed[d] EXCEPT !.presence = @ \ {f.user}]
      BY <1>3, <2>2 DEF MissedBy, Reading
    <3>2. ~Doing(d, "ready")
      BY <2>2 DEF Reading
    <3> QED
      BY <1>1, <1>3, <2>2, <3>1, <3>2
  <2> QED
    BY <2>1, <2>2
<1>4. CASE f.t \in voiceKinds
  <2>1. CASE Doing(d, "ready")
    <3>1. n = [missed[d] EXCEPT !.voice = @ \cup {f.user}]
      BY <1>4, <2>1 DEF MissedBy
    <3> QED
      BY <1>1, <1>4, <2>1, <3>1
  <2>2. CASE ~Doing(d, "ready") /\ f.t = "voice_state"
    <3>1. n = [missed[d] EXCEPT !.voice = @ \ {f.user}]
      BY <1>4, <2>2 DEF MissedBy
    <3> QED
      BY <1>1, <1>4, <2>2, <3>1
  <2>3. CASE ~Doing(d, "ready") /\ f.t # "voice_state"
    <3>1. n = missed[d]
      BY <1>4, <2>3 DEF MissedBy
    <3> QED
      BY <1>1, <1>4, <2>3, <3>1
  <2> QED
    BY <2>1, <2>2, <2>3
<1>5. CASE f.t \notin voiceKinds \cup {"presence"}
  <2>1. n = missed[d]
    BY <1>5 DEF MissedBy
  <2> QED
    BY <1>2, <1>5, <2>1
<1> QED
  BY <1>3, <1>4, <1>5

\* The next call of a list is a frame to send.
Sending(list) == Head(list).op \in {"broadcast", "to_others", "to_self"}

\* f is what the head of u's list sends.
OpenKind(u, f, list) ==
    /\ f.t = "presence" => f = Presence(u, TRUE) /\ Head(list) = Hi(u)
    /\ f.t # "presence" => list \notin Opening(u)
    /\ f.t = "voice_ready" => Head(list) = ToSelf(f)
    /\ f.t \notin {"presence", "voice_ready"} => Head(list) = Broadcast(f)
    /\ Tail(list) = <<>> \/ Sending(Tail(list))

(* What kind of frame an open connection sends, and what it has to do      *)
(* after it: nothing, or more to send.                                     *)
LEMMA OpenKinds ==
    ASSUME NEW u, NEW E, NEW T, NEW K, NEW list, list # <<>>,
           OpenDue(u, E, T, K, list), NEW f, Sends(Head(list), f)
    PROVE  OpenKind(u, f, list)
<1>0. Head(list) \notin {Call("read_users"), Call("read_online"),
        Call("read_voice"), Call("ready"), Call("stop_screen"),
        Call("disconnect"), Call("check_voice")}
  BY DEF Sends, Broadcast, ToOthers, ToSelf, Call
<1>1. ASSUME Head(list) # Hi(u) PROVE list \notin Opening(u)
  <2> SUFFICES ASSUME list \in Opening(u) PROVE FALSE
    OBVIOUS
  <2>1. CASE list = <<Call("read_users"), Call("read_online"), Call("read_voice"),
                      Call("ready"), Hi(u)>>
    BY <1>0, <2>1, FiveCalls
  <2>2. CASE list = <<Call("read_online"), Call("read_voice"), Call("ready"), Hi(u)>>
    BY <1>0, <2>2, FourCalls
  <2>3. CASE list = <<Call("read_voice"), Call("ready"), Hi(u)>>
    BY <1>0, <2>3, ThreeCalls
  <2>4. CASE list = <<Call("ready"), Hi(u)>>
    BY <1>0, <2>4, TwoCalls
  <2>5. CASE list = <<Hi(u)>>
    BY <1>1, <2>5, OneCall
  <2> QED
    BY <2>1, <2>2, <2>3, <2>4, <2>5 DEF Opening
<1>2. ASSUME Head(list) = Hi(u), Tail(list) = <<>> PROVE OpenKind(u, f, list)
  <2>1. f = Presence(u, TRUE)
    BY <1>2, SendsOnly DEF Hi
  <2>2. f.t = "presence"
    BY <2>1 DEF Presence
  <2> QED
    BY <1>2, <2>1, <2>2 DEF OpenKind
<1> DEFINE More == Tail(list) = <<>> \/ Sending(Tail(list))
<1>3. ASSUME NEW g, g.t \notin {"presence", "voice_ready"},
             Head(list) = Broadcast(g), More
      PROVE  OpenKind(u, f, list)
  <2>1. f = g
    BY <1>3, SendsOnly
  <2>2. Head(list) # Hi(u)
    BY <1>3 DEF Hi, Broadcast, ToOthers
  <2> QED
    BY <1>1, <1>3, <2>1, <2>2 DEF OpenKind
<1>4. ASSUME NEW k, Head(list) = ToSelf(VoiceReady(k)), More
      PROVE  OpenKind(u, f, list)
  <2>1. f = VoiceReady(k)
    BY <1>4, SendsOnly
  <2>2. f.t = "voice_ready"
    BY <2>1 DEF VoiceReady
  <2>3. Head(list) # Hi(u)
    BY <1>4 DEF Hi, ToOthers, ToSelf
  <2> QED
    BY <1>1, <1>4, <2>1, <2>2, <2>3 DEF OpenKind
<1>5. \A s, ch : /\ VoiceState(u, s).t = "voice_state"
                 /\ VoiceLeave(u, ch).t = "voice_leave"
                 /\ ScreenStart(u).t = "screen_start"
                 /\ ScreenStop(u).t = "screen_stop"
                 /\ UserUpdate(u).t = "user_update"
  BY DEF VoiceState, VoiceLeave, ScreenStart, ScreenStop, UserUpdate
<1>6. /\ \A k, g : Sending(<<ToSelf(k), Broadcast(g)>>)
      /\ \A g : Sending(<<Broadcast(g)>>)
  BY OneCall, TwoCalls DEF Sending, ToSelf, Broadcast
<1> HIDE DEF More
<1>7. ASSUME StillHead(u, list) PROVE OpenKind(u, f, list)
  <2>1. CASE Head(list) = Hi(u) /\ Tail(list) = <<>>
    BY <1>2, <2>1
  <2>2. CASE Head(list) = Broadcast(UserUpdate(u)) /\ Tail(list) = <<>>
    BY <1>3, <1>5, <2>2 DEF More
  <2> QED
    BY <1>0, <1>7, <2>1, <2>2 DEF StillHead
<1>8. ASSUME NEW s, ToldHead(u, s, K, list) PROVE OpenKind(u, f, list)
  <2>1. CASE Head(list) = Broadcast(VoiceState(u, s)) /\ Tail(list) = <<>>
    BY <1>3, <1>5, <2>1 DEF More
  <2>2. CASE /\ Head(list) = ToSelf(VoiceReady(K))
             /\ Tail(list) = <<Broadcast(VoiceState(u, s))>>
    BY <1>4, <1>6, <2>2 DEF More
  <2>3. ASSUME NEW ch, Head(list) = Left(u, ch),
               Tail(list) = <<ToSelf(VoiceReady(K)), Broadcast(VoiceState(u, s))>>
        PROVE  OpenKind(u, f, list)
    BY <1>3, <1>5, <1>6, <2>3 DEF More, Left
  <2> QED
    BY <1>8, <2>1, <2>2, <2>3, Zenon DEF ToldHead
<1>9. ASSUME NEW ch, PartingHead(u, ch, list) PROVE OpenKind(u, f, list)
  <2>1. CASE Head(list) = Stopped(u) /\ Tail(list) = <<Left(u, ch)>>
    BY <1>3, <1>5, <1>6, <2>1 DEF More, Left, Stopped
  <2>2. CASE Head(list) = Left(u, ch) /\ Tail(list) = <<>>
    BY <1>3, <1>5, <2>2 DEF More, Left
  <2> QED
    BY <1>9, <2>1, <2>2 DEF PartingHead
<1>10. ASSUME Head(list) \in {Broadcast(ScreenStart(u)), Stopped(u)}, Tail(list) = <<>>
       PROVE  OpenKind(u, f, list)
  BY <1>3, <1>5, <1>10 DEF More, Stopped
<1>11. ASSUME NEW b \in BOOLEAN, Head(list) = Leave(b) PROVE FALSE
  BY <1>11, SendsOnly
<1>12. OpenHead(u, E, T, K, list)
  BY OpenHeads
<1> DEFINE Goal == OpenKind(u, f, list)
<1>13. ASSUME Head(list) = Broadcast(ScreenStart(u)), Tail(list) = <<>> PROVE Goal
  BY <1>10, <1>13
<1>14. ASSUME Head(list) = Stopped(u), Tail(list) = <<>> PROVE Goal
  BY <1>10, <1>14
<1> QED
  BY <1>7, <1>8, <1>9, <1>11, <1>12, <1>13, <1>14, Zenon DEF OpenHead

\* The same for a closing connection.
ClosingKind(u, f, list) ==
    /\ Head(list) = Broadcast(f)
    /\ list # <<Call("disconnect")>>
    /\ f.t = "presence" => f = Presence(u, FALSE)
    /\ f.t # "presence" => Tail(list) # <<>>
    /\ f.t \notin {"user_update", "voice_ready"}
    /\ Tail(list) = <<>> \/ Sending(Tail(list))

(* What kind of frame a closing connection sends.                          *)
LEMMA ClosingKinds ==
    ASSUME NEW u, NEW E, NEW T, NEW list, list # <<>>,
           ClosingDue(u, E, T, list), NEW f, Sends(Head(list), f)
    PROVE  ClosingKind(u, f, list)
<1>0. Head(list) \notin {Call("read_users"), Call("read_online"),
        Call("read_voice"), Call("ready"), Call("stop_screen"),
        Call("disconnect"), Call("check_voice")}
  BY DEF Sends, Broadcast, ToOthers, ToSelf, Call
<1>1. list # <<Call("disconnect")>>
  BY <1>0, OneCall
<1>2. ASSUME Head(list) = Bye(u), Tail(list) = <<>> PROVE ClosingKind(u, f, list)
  <2>1. f = Presence(u, FALSE)
    BY <1>2, SendsOnly DEF Bye
  <2>2. f.t = "presence"
    BY <2>1 DEF Presence
  <2> QED
    BY <1>1, <1>2, <2>1, <2>2 DEF ClosingKind, Bye
<1>3. ASSUME NEW g, g.t \notin {"presence", "user_update", "voice_ready"},
             Head(list) = Broadcast(g), Tail(list) # <<>>, Sending(Tail(list))
      PROVE  ClosingKind(u, f, list)
  <2>1. f = g
    BY <1>3, SendsOnly
  <2> QED
    BY <1>1, <1>3, <2>1 DEF ClosingKind
<1>4. \A ch : /\ VoiceLeave(u, ch).t = "voice_leave"
              /\ ScreenStop(u).t = "screen_stop"
  BY DEF VoiceLeave, ScreenStop
<1>5. /\ \A g, h : Sending(<<Broadcast(g), Broadcast(h)>>)
      /\ \A g : Sending(<<Broadcast(g)>>)
      /\ \A g, h : <<g, h>> # <<>>
      /\ \A g : <<g>> # <<>>
  BY OneCall, TwoCalls DEF Sending, Broadcast
<1>6. ASSUME NEW ch, ClosingParts(u, ch, list) PROVE ClosingKind(u, f, list)
  <2>1. CASE Head(list) = Stopped(u) /\ Tail(list) = <<Left(u, ch), Bye(u)>>
    BY <1>3, <1>4, <1>5, <2>1 DEF Stopped, Left, Bye
  <2>2. CASE Head(list) = Left(u, ch) /\ Tail(list) = <<Bye(u)>>
    BY <1>3, <1>4, <1>5, <2>2 DEF Left, Bye
  <2> QED
    BY <1>6, <2>1, <2>2 DEF ClosingParts
<1>7. ASSUME StillClosing(u, list) PROVE ClosingKind(u, f, list)
  BY <1>0, <1>2, <1>7 DEF StillClosing
<1>8. ASSUME NEW b \in BOOLEAN, Head(list) = Leave(b) PROVE FALSE
  BY <1>8, SendsOnly
<1>9. ClosingHead(u, E, T, list)
  BY ClosingDueHeads
<1> QED
  BY <1>6, <1>7, <1>8, <1>9, Zenon DEF ClosingHead

(* A connection's own credentials after a frame about its account.         *)
LEMMA OpenCreds ==
    ASSUME NEW u, NEW E, NEW T, NEW K, NEW list, list # <<>>,
           OpenDue(u, E, T, K, list), NEW f, Sends(Head(list), f),
           NEW creds, CredDue(u, creds, T, K, list), T = {} => K = NoCreds,
           NEW n,
           f.t \notin {"voice_ready", "voice_leave"} => n = creds,
           f.t = "voice_leave" => n = NoCreds,
           \A k : f = VoiceReady(k) => n = k
    PROVE  CredDue(u, n, T, K, Tail(list))
<1> DEFINE Goal == CredDue(u, n, T, K, Tail(list))
<1>0. Head(list) \notin {Call("read_users"), Call("read_online"),
        Call("read_voice"), Call("ready"), Call("stop_screen"),
        Call("disconnect"), Call("check_voice")}
  BY DEF Sends, Broadcast, ToOthers, ToSelf, Call
<1>1. ASSUME NEW s \in T, Head(list) = ToSelf(VoiceReady(K)) PROVE Goal
  BY <1>1, SendsOnly DEF CredDue
<1>2. ASSUME NEW s \in T, NEW ch \in Channels, Head(list) = Left(u, ch),
             Tail(list) = <<ToSelf(VoiceReady(K)), Broadcast(VoiceState(u, s))>>
      PROVE  Goal
  BY <1>2 DEF CredDue, TakingUp
<1>3. ASSUME NEW ch \in Channels, Head(list) = Left(u, ch), T = {} PROVE Goal
  <2>1. f = VoiceLeave(u, ch)
    BY <1>3, SendsOnly DEF Left
  <2>2. f.t = "voice_leave"
    BY <2>1 DEF VoiceLeave
  <2> QED
    BY <1>3, <2>2 DEF CredDue
<1>4. ASSUME NEW ch \in Channels, Tail(list) = <<Left(u, ch)>> PROVE Goal
  BY <1>4 DEF CredDue, Parting
<1>5. ASSUME creds = K, f.t \notin {"voice_ready", "voice_leave"} PROVE Goal
  BY <1>5 DEF CredDue
<1>6. ASSUME NEW g, g.t \notin {"voice_ready", "voice_leave"}, Tail(list) = <<>>,
             Head(list) = Broadcast(g) \/ Head(list) = ToOthers(g)
      PROVE  Goal
  <2>1. f = g
    BY <1>6, SendsOnly
  <2>2. ASSUME NEW s, list \in TakingUp(u, s, K) PROVE FALSE
    <3>1. \/ Tail(list) = <<Broadcast(VoiceState(u, s))>>
          \/ Tail(list) = <<ToSelf(VoiceReady(K)), Broadcast(VoiceState(u, s))>>
      BY <2>2, TwoCalls, ThreeCalls DEF TakingUp
    <3> QED
      BY <1>6, <3>1
  <2>3. ASSUME NEW ch, list \in Parting(u, ch) PROVE FALSE
    <3>1. Tail(list) = <<Left(u, ch)>> \/ Head(list) = Left(u, ch)
      BY <2>3, OneCall, TwoCalls DEF Parting
    <3>2. ASSUME Head(list) = Left(u, ch) PROVE FALSE
      <4>1. f = VoiceLeave(u, ch)
        BY <3>2, SendsOnly DEF Left
      <4> QED
        BY <1>6, <2>1, <4>1 DEF VoiceLeave
    <3> QED
      BY <1>6, <3>1, <3>2
  <2> QED
    BY <1>5, <1>6, <2>1, <2>2, <2>3 DEF CredDue
<1>13. /\ Presence(u, TRUE).t = "presence" /\ UserUpdate(u).t = "user_update"
       /\ ScreenStart(u).t = "screen_start" /\ ScreenStop(u).t = "screen_stop"
       /\ \A s : VoiceState(u, s).t = "voice_state"
  BY DEF Presence, UserUpdate, ScreenStart, ScreenStop, VoiceState
<1>14. ASSUME Head(list) = Hi(u), Tail(list) = <<>> PROVE Goal
  BY <1>6, <1>13, <1>14 DEF Hi
<1>15. ASSUME Head(list) = Broadcast(UserUpdate(u)), Tail(list) = <<>> PROVE Goal
  BY <1>6, <1>13, <1>15
<1>16. ASSUME Head(list) = Broadcast(ScreenStart(u)), Tail(list) = <<>> PROVE Goal
  BY <1>6, <1>13, <1>16
<1>17. ASSUME Head(list) = Stopped(u), Tail(list) = <<>> PROVE Goal
  BY <1>6, <1>13, <1>17 DEF Stopped
<1>18. ASSUME NEW s, Head(list) = Broadcast(VoiceState(u, s)), Tail(list) = <<>>
       PROVE  Goal
  BY <1>6, <1>13, <1>18
<1> HIDE DEF Goal
<1>7. ASSUME StillHead(u, list) PROVE Goal
  BY <1>0, <1>7, <1>14, <1>15 DEF StillHead
<1>8. ASSUME NEW s \in T, ToldHead(u, s, K, list) PROVE Goal
  BY <1>1, <1>2, <1>8, <1>18, Zenon DEF ToldHead
<1>9. ASSUME NEW ch \in Channels, T = {}, PartingHead(u, ch, list) PROVE Goal
  BY <1>3, <1>4, <1>9, Zenon DEF PartingHead
<1>10. ASSUME NEW b \in BOOLEAN, Head(list) = Leave(b) PROVE FALSE
  BY <1>10, SendsOnly
<1>11. OpenHead(u, E, T, K, list)
  BY OpenHeads
<1>12. Goal
  BY <1>7, <1>8, <1>9, <1>10, <1>11, <1>16, <1>17, Zenon DEF OpenHead
<1> QED
  BY <1>12 DEF Goal

\* Whom the call at the head of c's list sends its frame to.
SentTo(c, f, to) ==
    \/ Head(todo[c]) = Broadcast(f) /\ to = conns
    \/ Head(todo[c]) = ToOthers(f) /\ to = conns \ {c}
    \/ Head(todo[c]) = ToSelf(f) /\ to = conns \cap {c}

Reads(d, to) == d \in to /\ Open(d)

\* What d shows of u after frame f about it: what f makes of what it showed, or,
\* if that was not to be relied on, the state that f gives.
Caught(d, u, f, shown) ==
    \/ u \notin missed[d].voice /\ Entry(shown, u) = Effect(f, Entry(Shows(d), u))
    \/ f.t = "voice_state" /\ Entry(shown, u) = {f.state}

(* What d shows of the account a frame is about: what the frame makes of   *)
(* it, if d has it yet to apply or the frame changes nothing; and if d     *)
(* missed one before, only a VoiceState repairs that.                      *)
LEMMA ShownAfter ==
    ASSUME NEW d \in Conns, NEW u, NEW f, NEW to, AboutFrame(u, f),
           IsMirror(mirror[d]),
           missed[d] = [voice |-> missed[d].voice, presence |-> missed[d].presence],
           NEW n, n = (IF Reads(d, to) THEN Applied(UserOf[d], mirror[d], f)
                                       ELSE mirror[d]),
           NEW l, l = (IF Reads(d, to) THEN MissedBy(d, f) ELSE missed[d]),
           u \notin l.voice,
           Reads(d, to) \/ f.t \in {"presence", "voice_ready"},
           NEW shown, shown = (IF Doing(d, "ready") THEN snap[d].voice ELSE n.voice)
    PROVE  Caught(d, u, f, shown)
<1> USE DEF Caught
<1>0. ~Reads(d, to) => (\A E : Effect(f, E) = E)
  BY DEF Effect
<1>1. CASE Doing(d, "ready")
  <2>1. u \notin missed[d].voice /\ Effect(f, Entry(Shows(d), u)) = Entry(Shows(d), u)
    <3>1. CASE Reads(d, to)
      <4>1. FrameMissed(d, u, f, l)
        BY <3>1, MissedFrame
      <4> QED
        BY <1>1, <4>1 DEF FrameMissed
    <3>2. CASE ~Reads(d, to)
      BY <1>0, <3>2
    <3> QED
      BY <3>1, <3>2
  <2> QED
    BY <1>1, <2>1 DEF Shows
<1>2. CASE ~Doing(d, "ready") /\ Reads(d, to)
  <2>1. Turned(mirror[d], n, u, Effect(f, Entry(mirror[d].voice, u)))
    <3>1. FrameShown(UserOf[d], mirror[d], u, f, n)
      BY <1>2, AppliedFrame
    <3> QED
      BY <3>1 DEF FrameShown
  <2>2. Entry(n.voice, u) = Effect(f, Entry(mirror[d].voice, u))
    BY <2>1 DEF Turned
  <2>3. u \notin missed[d].voice \/ f.t = "voice_state"
    BY <1>2, MissedFrame DEF FrameMissed
  <2>4. f.t = "voice_state" => \A E : Effect(f, E) = {f.state}
    BY DEF Effect
  <2> QED
    BY <1>2, <2>2, <2>3, <2>4 DEF Shows
<1>3. CASE ~Doing(d, "ready") /\ ~Reads(d, to)
  BY <1>0, <1>3 DEF Shows
<1> QED
  BY <1>1, <1>2, <1>3

(* A list of at most four calls, with nothing put before it.               *)
Short(list) ==
    \/ list = <<>>
    \/ \E w : list = <<w>>
    \/ \E w, x : list = <<w, x>>
    \/ \E w, x, y : list = <<w, x, y>>
    \/ \E w, x, y, z : list = <<w, x, y, z>>

(* Nothing before it leaves it as it is.                                   *)
LEMMA NothingBefore ==
    ASSUME NEW list, Short(list) PROVE <<>> \o list = list
<1>1. ASSUME NEW S, list \in Seq(S) PROVE <<>> \o list = list
  BY <1>1, ConcatEmptySeq
<1>2. ASSUME NEW w, list = <<w>> PROVE list \in Seq({w})
  BY <1>2
<1>3. ASSUME NEW w, NEW x, list = <<w, x>> PROVE list \in Seq({w, x})
  BY <1>3
<1>4. ASSUME NEW w, NEW x, NEW y, list = <<w, x, y>> PROVE list \in Seq({w, x, y})
  BY <1>4
<1>5. ASSUME NEW w, NEW x, NEW y, NEW z, list = <<w, x, y, z>>
      PROVE  list \in Seq({w, x, y, z})
  BY <1>5
<1>6. CASE list = <<>>
  BY <1>6, Lists
<1> QED
  BY <1>1, <1>2, <1>3, <1>4, <1>5, <1>6 DEF Short

(* What an open connection has left after the call at its head.            *)
LEMMA OpenRest ==
    ASSUME NEW u, NEW E, NEW T, NEW K, NEW list, list # <<>>,
           OpenDue(u, E, T, K, list)
    PROVE  Short(Tail(list))
<1>1. ASSUME StillHead(u, list) PROVE Short(Tail(list))
  BY <1>1 DEF StillHead, Short
<1>2. ASSUME NEW s, ToldHead(u, s, K, list) PROVE Short(Tail(list))
  BY <1>2 DEF ToldHead, Short
<1>3. ASSUME NEW ch, PartingHead(u, ch, list) PROVE Short(Tail(list))
  BY <1>3 DEF PartingHead, Short
<1>4. ASSUME Tail(list) = <<>> PROVE Short(Tail(list))
  BY <1>4 DEF Short
<1>5. OpenHead(u, E, T, K, list)
  BY OpenHeads
<1> QED
  BY <1>1, <1>2, <1>3, <1>4, <1>5, Zenon DEF OpenHead

(* And a closing one.                                                      *)
LEMMA ClosingRest ==
    ASSUME NEW u, NEW E, NEW T, NEW list, list # <<>>, ClosingDue(u, E, T, list)
    PROVE  Short(Tail(list))
<1>1. ASSUME StillClosing(u, list) PROVE Short(Tail(list))
  BY <1>1 DEF StillClosing, Short
<1>2. ASSUME NEW ch, ClosingParts(u, ch, list) PROVE Short(Tail(list))
  BY <1>2 DEF ClosingParts, Short
<1>3. ASSUME Tail(list) = <<Bye(u)>> PROVE Short(Tail(list))
  BY <1>3 DEF Short
<1>4. ClosingHead(u, E, T, list)
  BY ClosingDueHeads
<1> QED
  BY <1>1, <1>2, <1>3, <1>4, Zenon DEF ClosingHead

(* A frame that a handler sends.                                           *)
LEMMA FrameStep ==
    ASSUME AgreeInv, TeardownInv, HubInv, NEW c \in Conns, todo[c] # <<>>,
           NEW f, NEW to, SentTo(c, f, to), Deliver(f, to), Done(c, <<>>),
           UNCHANGED <<hubVars, accounts, conns, asked, at, snap>>
    PROVE  AgreeInv'
<1> DEFINE u == UserOf[c]
           T == Truth(u)
           K == Current(u)
           list == todo[c]
<1> USE DEF AgreeInv
<1>1. /\ u \in Users /\ c \in Own(u)
      /\ \A w : \A d \in Own(w) : d \in Conns /\ UserOf[d] = w
  BY SessionAssumption DEF Own
<1>2. Active(c) /\ \A d \in Own(u) : Active(d) => d = c
  BY <1>1 DEF TeardownInv, Active, Shapes
<1>3. Sends(Head(list), f)
  BY DEF SentTo, Sends
<1>4. /\ \A w : Truth(w)' = Truth(w) /\ Current(w)' = Current(w)
      /\ T \subseteq Publics /\ (T = {} => K = NoCreds)
  BY <1>1, HubStill, TruthTyped DEF Truth, Current
<1>5. \A E : Due(u, E) => /\ E \subseteq Publics
                          /\ Open(c) => OpenDue(u, E, T, K, list)
                          /\ at[c] = "closing" => ClosingDue(u, E, T, list)
  BY <1>2, DueByOne
<1>6. Due(u, T)
  BY <1>1 DEF VoiceOwed
<1>7. Open(c) => OpenKind(u, f, list)
  BY <1>3, <1>5, <1>6, OpenKinds
<1>8. at[c] = "closing" => ClosingKind(u, f, list)
  BY <1>3, <1>5, <1>6, ClosingKinds
<1>9. AboutFrame(u, f)
  BY <1>2, <1>3, <1>4, <1>5, <1>6, OpenFrame, ClosingFrame DEF Active, Open
<1>10. Short(Tail(list))
  BY <1>2, <1>5, <1>6, OpenRest, ClosingRest DEF Active, Open
<1>11. /\ todo' = [d \in Conns |-> todo'[d]]
       /\ \A d \in Conns : d # c => todo'[d] = todo[d]
       /\ todo'[c] = Tail(list)
  BY <1>10, NothingBefore DEF Done, Shapes
<1>12. Sending(list) /\ (Tail(list) = <<>> \/ Sending(Tail(list)))
  <2>1. Sending(list)
    BY <1>3 DEF Sending, Sends, Broadcast, ToOthers, ToSelf
  <2> QED
    BY <1>2, <1>7, <1>8, <2>1 DEF Active, Open, OpenKind, ClosingKind
<1>13. /\ \A d \in Conns : \A op \in {"read_users", "read_online", "read_voice", "ready"} :
                (Doing(d, op)' <=> Doing(d, op)) /\ (Doing(d, op) => d # c)
       /\ \A d \in Conns : /\ Open(d)' <=> Open(d)
                           /\ Active(d)' <=> Active(d)
       /\ Online' = Online
  BY <1>11, <1>12 DEF Doing, Sending, Open, Active, Online
<1>14. \A d \in Conns :
        /\ mirror'[d] = IF Reads(d, to) THEN Applied(UserOf[d], mirror[d], f)
                                        ELSE mirror[d]
        /\ missed'[d] = IF Reads(d, to) THEN MissedBy(d, f) ELSE missed[d]
        /\ IsMirror(mirror[d])
        /\ missed[d] = [voice |-> missed[d].voice, presence |-> missed[d].presence]
  BY DEF Deliver, Reads, Shapes, IsMirror
<1>15. ASSUME NEW d \in Conns, Open(d)
       PROVE  /\ ~Reads(d, to) =>
                    /\ f.t \in {"presence", "voice_ready"}
                    /\ f.t = "presence" => d = c
              /\ Reads(d, to) => /\ f.t = "voice_ready" => d = c
                                 /\ f.t = "presence" => d # c
  <2>1. d \in conns
    BY <1>15 DEF Shapes
  <2>2. \A g, h : /\ Broadcast(g) # ToOthers(h) /\ Broadcast(g) # ToSelf(h)
                  /\ ToOthers(g) # ToSelf(h)
    BY DEF Broadcast, ToOthers, ToSelf
  <2>3. CASE Open(c)
    BY <1>7, <1>15, <2>1, <2>2, <2>3 DEF OpenKind, SentTo, Reads, Hi
  <2>4. CASE at[c] = "closing"
    BY <1>8, <1>15, <2>1, <2>2, <2>4 DEF ClosingKind, SentTo, Reads, Open
  <2> QED
    BY <1>2, <2>3, <2>4 DEF Active, Open
<1>16. \A d \in Conns : Reads(d, to) =>
            FrameShown(UserOf[d], mirror[d], u, f, mirror'[d])
  BY <1>9, <1>14, AppliedFrame
<1>17. Shapes'
  <2>1. ASSUME NEW d \in Conns
        PROVE  /\ IsMirror(mirror'[d])
               /\ mirror'[d].known \subseteq accounts
               /\ mirror'[d].online \subseteq Users
               /\ DOMAIN mirror'[d].voice \subseteq Users
    <3>1. CASE Reads(d, to)
      <4>1. FrameShown(UserOf[d], mirror[d], u, f, mirror'[d])
        BY <1>16, <3>1
      <4>2. u \in accounts
        BY <1>2 DEF Shapes
      <4>3. /\ mirror[d].known \subseteq accounts
            /\ mirror[d].online \subseteq Users
            /\ DOMAIN mirror[d].voice \subseteq Users
        BY DEF Shapes
      <4> QED
        BY <1>1, <4>1, <4>2, <4>3 DEF FrameShown, Turned
    <3>2. CASE ~Reads(d, to)
      BY <1>14, <3>2 DEF Shapes
    <3> QED
      BY <3>1, <3>2
  <2>2. ASSUME NEW d \in Conns
        PROVE  missed'[d] = [voice |-> missed'[d].voice, presence |-> missed'[d].presence]
    <3>1. CASE Reads(d, to)
      <4>1. FrameMissed(d, u, f, missed'[d])
        BY <1>9, <1>14, <3>1, MissedFrame
      <4> QED
        BY <4>1 DEF FrameMissed
    <3>2. CASE ~Reads(d, to)
      BY <1>14, <3>2
    <3> QED
      BY <3>1, <3>2
  <2>3. \A d \in Conns : at[d] = "unopened" => mirror'[d] = Blank
    BY <1>14 DEF Shapes, Reads, Open
  <2>4. \A d \in Conns : at[d] = "closing" /\ todo'[d] = <<Call("disconnect")>>
                            => d \in conns
    <3>1. ASSUME Tail(list) = <<Call("disconnect")>> PROVE FALSE
      <4>1. Tail(list) # <<>> /\ Head(Tail(list)) = Call("disconnect")
        BY <3>1, OneCall, Lists
      <4> QED
        BY <1>12, <4>1 DEF Sending, Call
    <3> QED
      BY <1>11, <3>1 DEF Shapes
  <2>5. \A d \in Conns : Doing(d, "read_online")' => UserOf[d] \in snap[d].known
    BY <1>13 DEF Shapes
  <2> QED
    BY <1>11, <1>13, <2>1, <2>2, <2>3, <2>4, <2>5 DEF Shapes, IsMirror
<1>18. \A w \in Users \ {u} : \A E : Due(w, E)' <=> Due(w, E)
  <2> SUFFICES ASSUME NEW w \in Users \ {u}, NEW E PROVE Due(w, E)' <=> Due(w, E)
    OBVIOUS
  <2>1. \A d \in Own(w) : d # c /\ d \in Conns
    BY <1>1
  <2> QED
    BY <1>4, <1>11, <1>13, <2>1 DEF Due
<1>19. ASSUME NEW E, Due(u, E)
       PROVE  Due(u, Effect(f, E))' /\ (E = T => Due(u, E)')
  <2>1. /\ E \subseteq Publics
        /\ Open(c) => OpenDue(u, E, T, K, list)
        /\ at[c] = "closing" => ClosingDue(u, E, T, list)
    BY <1>5, <1>19
  <2>2. Open(c) => /\ OpenDue(u, Effect(f, E), T, K, Tail(list))
                   /\ E = T => OpenDue(u, E, T, K, Tail(list))
                   /\ Effect(f, E) \subseteq Publics
    BY <1>3, <1>4, <2>1, OpenFrame
  <2>3. at[c] = "closing" =>
            /\ ClosingDue(u, Effect(f, E), T, Tail(list))
            /\ E = T => ClosingDue(u, E, T, Tail(list))
            /\ Effect(f, E) \subseteq Publics
    BY <1>3, <1>4, <2>1, ClosingFrame
  <2>4. Effect(f, E) \subseteq Publics
    BY <1>2, <2>2, <2>3 DEF Active, Open
  <2> QED
    BY <1>1, <1>2, <1>4, <1>11, <1>13, <2>1, <2>2, <2>3, <2>4 DEF Due, Active, Open
<1>20. VoiceOwed'
  <2>1. ASSUME NEW w \in Users PROVE Due(w, Truth(w))'
    <3>1. Due(w, Truth(w))
      BY DEF VoiceOwed
    <3>2. \A E : E = Truth(w) => Due(w, E)'
      BY <1>18, <1>19, <3>1
    <3> QED
      BY <1>4, <3>2 DEF Due
  <2>2. ASSUME NEW d \in Conns, NEW w \in Users, VoiceRead(d)', w \notin missed'[d].voice
        PROVE  Due(w, Entry(Shows(d), w))'
    <3> DEFINE shown == IF Doing(d, "ready") THEN snap[d].voice ELSE mirror'[d].voice
    <3>1. VoiceRead(d) /\ Open(d) /\ Shows(d)' = shown
      BY <1>13, <2>2 DEF VoiceRead, Shows
    <3> HIDE DEF shown
    <3>2. \E E : Entry(shown, w) = E /\ Due(w, E)'
      <4>1. CASE w # u
        <5>1. w \notin missed[d].voice
          <6>1. CASE Reads(d, to)
            <7>1. FrameMissed(d, u, f, missed'[d])
              BY <1>9, <1>14, <6>1, MissedFrame
            <7> QED
              BY <2>2, <4>1, <7>1 DEF FrameMissed
          <6>2. CASE ~Reads(d, to)
            BY <1>14, <2>2, <6>2
          <6> QED
            BY <6>1, <6>2
        <5>2. Entry(shown, w) = Entry(Shows(d), w)
          <6>1. CASE Reads(d, to)
            <7>1. FrameShown(UserOf[d], mirror[d], u, f, mirror'[d])
              BY <1>16, <6>1
            <7> QED
              BY <4>1, <7>1 DEF FrameShown, Turned, Shows, shown
          <6>2. CASE ~Reads(d, to)
            BY <1>14, <6>2 DEF Shows, shown
          <6> QED
            BY <6>1, <6>2
        <5> QED
          BY <1>18, <3>1, <4>1, <5>1, <5>2 DEF VoiceOwed
      <4>2. CASE w = u
        <5>2. \/ u \notin missed[d].voice
                 /\ Entry(shown, u) = Effect(f, Entry(Shows(d), u))
              \/ f.t = "voice_state" /\ Entry(shown, u) = {f.state}
          <6>1. /\ mirror'[d] = (IF Reads(d, to) THEN Applied(UserOf[d], mirror[d], f)
                                                 ELSE mirror[d])
                /\ missed'[d] = (IF Reads(d, to) THEN MissedBy(d, f) ELSE missed[d])
                /\ u \notin missed'[d].voice
                /\ shown = (IF Doing(d, "ready") THEN snap[d].voice ELSE mirror'[d].voice)
            BY <1>14, <2>2, <4>2 DEF shown
          <6>2. Reads(d, to) \/ f.t \in {"presence", "voice_ready"}
            BY <1>15, <3>1
          <6>3. /\ IsMirror(mirror[d])
                /\ missed[d] = [voice |-> missed[d].voice,
                                presence |-> missed[d].presence]
            BY <1>14
          <6>4. Caught(d, u, f, shown)
            BY <1>9, <6>1, <6>2, <6>3, ShownAfter
          <6> QED
            BY <6>4 DEF Caught
        <5>3. CASE /\ u \notin missed[d].voice
                   /\ Entry(shown, u) = Effect(f, Entry(Shows(d), u))
          <6>1. Due(u, Entry(Shows(d), u))
            BY <1>1, <3>1, <5>3 DEF VoiceOwed
          <6> QED
            BY <1>19, <4>2, <5>3, <6>1
        <5>4. CASE f.t = "voice_state" /\ Entry(shown, u) = {f.state}
          <6>1. Effect(f, T) = {f.state}
            BY <5>4 DEF Effect
          <6> QED
            BY <1>6, <1>19, <4>2, <5>4, <6>1
        <5> QED
          BY <5>2, <5>3, <5>4
      <4> QED
        BY <4>1, <4>2
    <3>3. PICK E : Entry(shown, w) = E /\ Due(w, E)'
      BY <3>2
    <3> QED
      BY <3>1, <3>3 DEF Due, Entry
  <2> QED
    BY <2>1, <2>2 DEF VoiceOwed
<1>21. CredsOwed'
  <2> SUFFICES ASSUME NEW d \in Conns, Open(d)
               PROVE  CredDue(UserOf[d], mirror'[d].creds, Truth(UserOf[d]),
                              Current(UserOf[d]), todo'[d])
    BY <1>4, <1>13 DEF CredsOwed, CredDue
  <2>1. CredDue(UserOf[d], mirror[d].creds, Truth(UserOf[d]),
                              Current(UserOf[d]), todo[d])
    BY DEF CredsOwed, CredDue
  <2>2. Reads(d, to) =>
            /\ f.t \notin {"voice_ready", "voice_leave"} =>
                    mirror'[d].creds = mirror[d].creds
            /\ u # UserOf[d] /\ f.t = "voice_leave" =>
                    mirror'[d].creds = mirror[d].creds
            /\ u = UserOf[d] /\ f.t = "voice_leave" => mirror'[d].creds = NoCreds
            /\ \A k : f = VoiceReady(k) => mirror'[d].creds = k
    BY <1>16 DEF FrameShown
  <2>3. CASE d # c
    <3>1. UserOf[d] # u
      BY <1>2, <2>3 DEF Own, Active, Open
    <3>2. mirror'[d].creds = mirror[d].creds
      BY <1>14, <1>15, <2>2, <2>3, <3>1
    <3> QED
      BY <1>11, <2>1, <2>3, <3>2
  <2>4. CASE d = c
    <3>1. OpenDue(u, T, T, K, list)
      BY <1>5, <1>6, <2>4
    <3>2. ~Reads(d, to) => f.t = "presence"
      <4>1. ASSUME ~Reads(d, to), f.t = "voice_ready" PROVE FALSE
        <5>1. Head(list) = ToSelf(f)
          BY <1>7, <2>4, <4>1 DEF OpenKind
        <5>2. Head(list) # Broadcast(f) /\ Head(list) # ToOthers(f)
          BY <5>1 DEF Broadcast, ToOthers, ToSelf
        <5>3. c \in conns
          BY <2>4 DEF Shapes
        <5> QED
          BY <2>4, <4>1, <5>2, <5>3 DEF SentTo, Reads
      <4> QED
        BY <1>15, <4>1
    <3>3. /\ f.t \notin {"voice_ready", "voice_leave"} =>
                    mirror'[c].creds = mirror[c].creds
          /\ f.t = "voice_leave" => mirror'[c].creds = NoCreds
          /\ \A k : f = VoiceReady(k) => mirror'[c].creds = k
      <4>1. \A k : f = VoiceReady(k) => f.t = "voice_ready"
        BY DEF VoiceReady
      <4> QED
        BY <1>14, <2>2, <2>4, <3>2, <4>1
    <3>4. CredDue(u, mirror'[c].creds, T, K, Tail(list))
      BY <1>3, <1>4, <2>1, <2>4, <3>1, <3>3, OpenCreds
    <3> QED
      BY <1>11, <2>4, <3>4
  <2> QED
    BY <2>3, <2>4
<1>22. at[c] = "closing" /\ f.t = "presence" => u \notin Online
  <2> SUFFICES ASSUME at[c] = "closing", f.t = "presence", NEW d \in conns, UserOf[d] = u
               PROVE  FALSE
    BY DEF Online
  <2>1. d \in Own(u) /\ Active(d)
    BY DEF TeardownInv, Own, Active, Open
  <2>2. d = c /\ todo[c] = <<Call("disconnect")>>
    BY <1>2, <2>1 DEF TeardownInv, Open
  <2> QED
    BY <1>8, <2>2 DEF ClosingKind
<1>23. Open(c) => u \in Online
  BY DEF Online, Shapes
<1>24. ASSUME NEW d \in Conns, Open(d), u = UserOf[d], u \in mirror[d].online
       PROVE  u \in mirror'[d].online
  <2>1. d = c
    BY <1>2, <1>24 DEF Own, Active, Open
  <2>2. Reads(d, to) => f.t # "presence"
    BY <1>15, <1>24, <2>1
  <2> QED
    BY <1>14, <1>16, <1>24, <2>2 DEF FrameShown
<1>25. ASSUME \A b \in Own(u) : ~Coming(b)' /\ ~Going(b)', f.t # "presence"
       PROVE  \A b \in Own(u) : ~Coming(b) /\ ~Going(b)
  <2>1. ASSUME NEW b \in Own(u), b # c PROVE ~Coming(b) /\ ~Going(b)
    BY <1>1, <1>2, <2>1 DEF Coming, Going, Active, Open
  <2>2. ~Coming(c)
    BY <1>7, <1>25 DEF Coming, OpenKind
  <2>3. ~Going(c)
    BY <1>1, <1>8, <1>11, <1>25 DEF Going, ClosingKind
  <2> QED
    BY <2>1, <2>2, <2>3
<1>26. ASSUME NEW d \in Conns, OnlineRead(d)',
              NEW w, w \in Knows(d)', w \notin missed'[d].presence,
              \A b \in Own(w) : ~Coming(b)' /\ ~Going(b)'
       PROVE  w \in Onliners(d)' <=> w \in Online
  <2>1. OnlineRead(d) /\ Open(d) /\ (Reading(d)' <=> Reading(d))
    BY <1>13, <1>26 DEF OnlineRead, Reading
  <2>2. Reads(d, to) => /\ FrameShown(UserOf[d], mirror[d], u, f, mirror'[d])
                        /\ FrameMissed(d, u, f, missed'[d])
    BY <1>9, <1>14, <1>16, MissedFrame
  <2>3. /\ Knows(d)' = IF Reading(d) THEN snap[d].known ELSE mirror'[d].known
        /\ Onliners(d)' = IF Reading(d) THEN snap[d].online ELSE mirror'[d].online
    BY <2>1 DEF Knows, Onliners
  <2>4. CASE w # u
    <3>1. /\ w \in Knows(d) /\ w \notin missed[d].presence
          /\ w \in Onliners(d)' <=> w \in Onliners(d)
      BY <1>14, <1>26, <2>2, <2>3, <2>4 DEF FrameShown, FrameMissed, Knows, Onliners
    <3>2. \A b \in Own(w) : ~Coming(b) /\ ~Going(b)
      <4>1. \A b \in Own(w) : b # c /\ b \in Conns
        BY <1>1, <2>4
      <4> QED
        BY <1>11, <1>13, <1>26, <4>1 DEF Coming, Going
    <3> QED
      BY <2>1, <3>1, <3>2 DEF PresenceOwed
  <2>5. CASE w = u /\ Reading(d)
    <3>1. d # c
      BY <1>13, <2>5 DEF Reading
    <3>2. f.t # "presence"
      BY <1>15, <1>26, <2>1, <2>2, <2>5, <3>1 DEF FrameMissed
    <3>3. w \in Knows(d) /\ w \notin missed[d].presence
      BY <1>14, <1>26, <2>2, <2>3, <2>5 DEF FrameMissed, Knows
    <3>4. \A b \in Own(u) : ~Coming(b) /\ ~Going(b)
      BY <1>25, <1>26, <2>5, <3>2
    <3> QED
      BY <2>1, <2>3, <2>5, <3>3, <3>4 DEF PresenceOwed, Onliners
  <2>6. CASE w = u /\ ~Reading(d) /\ f.t = "presence"
    <3>1. Reads(d, to) => w \in mirror[d].known
      BY <1>26, <2>2, <2>3, <2>6 DEF FrameShown
    <3>2. CASE Open(c) /\ Reads(d, to)
      <4>1. f = Presence(u, TRUE)
        BY <1>7, <2>6, <3>2 DEF OpenKind
      <4>2. w \in mirror'[d].online
        BY <2>2, <2>6, <3>1, <3>2, <4>1 DEF FrameShown
      <4> QED
        BY <1>23, <2>3, <2>6, <3>2, <4>2
    <3>3. CASE at[c] = "closing" /\ Reads(d, to)
      <4>1. f = Presence(u, FALSE)
        BY <1>8, <2>6, <3>3 DEF ClosingKind
      <4>2. w \notin mirror'[d].online
        BY <2>2, <2>6, <3>1, <3>3, <4>1 DEF FrameShown
      <4> QED
        BY <1>22, <2>3, <2>6, <3>3, <4>2
    <3>4. CASE ~Reads(d, to)
      <4>1. d = c
        BY <1>15, <2>1, <2>6, <3>4
      <4>2. u \in Onliners(d)
        BY <2>1, <4>1 DEF PresenceOwed
      <4> QED
        BY <1>14, <1>23, <2>1, <2>3, <2>6, <3>4, <4>1, <4>2 DEF Onliners
    <3> QED
      BY <1>2, <3>2, <3>3, <3>4 DEF Active, Open
  <2>7. CASE w = u /\ ~Reading(d) /\ f.t = "user_update"
    <3>1. Reads(d, to)
      BY <1>15, <2>1, <2>7
    <3>2. w \in mirror'[d].online
      BY <2>2, <2>7, <3>1 DEF FrameShown
    <3>3. Open(c)
      BY <1>2, <1>8, <2>7 DEF ClosingKind, Active, Open
    <3> QED
      BY <1>23, <2>3, <2>7, <3>2, <3>3
  <2>8. CASE w = u /\ ~Reading(d) /\ f.t \notin {"presence", "user_update"}
    <3>1. mirror'[d].known = mirror[d].known /\ mirror'[d].online = mirror[d].online
      BY <1>14, <2>2, <2>8 DEF FrameShown
    <3>2. w \in Knows(d) /\ w \notin missed[d].presence
      BY <1>14, <1>26, <2>2, <2>3, <2>8, <3>1 DEF FrameMissed, Knows
    <3>3. \A b \in Own(u) : ~Coming(b) /\ ~Going(b)
      BY <1>25, <1>26, <2>8
    <3> QED
      BY <2>1, <2>3, <2>8, <3>1, <3>2, <3>3 DEF PresenceOwed, Onliners
  <2> QED
    BY <2>4, <2>5, <2>6, <2>7, <2>8
<1>27. ASSUME NEW d \in Conns, OnlineRead(d)'
       PROVE  UserOf[d] \in Onliners(d)' /\ UserOf[d] \in Knows(d)'
  <2>1. OnlineRead(d) /\ Open(d) /\ (Reading(d)' <=> Reading(d))
    BY <1>13, <1>27 DEF OnlineRead, Reading
  <2>2. UserOf[d] \in Onliners(d) /\ UserOf[d] \in Knows(d)
    BY <2>1 DEF PresenceOwed
  <2>3. CASE Reading(d)
    BY <2>1, <2>2, <2>3 DEF Onliners, Knows
  <2>4. CASE ~Reading(d)
    <3>1. UserOf[d] \in mirror[d].online /\ UserOf[d] \in mirror[d].known
      BY <2>2, <2>4 DEF Onliners, Knows
    <3>2. UserOf[d] \in mirror'[d].known
      BY <1>14, <1>16, <3>1 DEF FrameShown
    <3>3. UserOf[d] \in mirror'[d].online
      BY <1>14, <1>16, <1>24, <2>1, <3>1 DEF FrameShown
    <3> QED
      BY <2>1, <2>4, <3>2, <3>3 DEF Onliners, Knows
  <2> QED
    BY <2>3, <2>4
<1>28. PresenceOwed'
  BY <1>13, <1>26, <1>27 DEF PresenceOwed, Own
<1> QED
  BY <1>17, <1>20, <1>21, <1>28

(* What an open connection still opening has to do after the call it makes.*)
ReadingHead(u, list) ==
    \/ /\ Head(list) = Call("read_users")
       /\ Tail(list) = <<Call("read_online"), Call("read_voice"), Call("ready"), Hi(u)>>
    \/ /\ Head(list) = Call("read_online")
       /\ Tail(list) = <<Call("read_voice"), Call("ready"), Hi(u)>>
    \/ Head(list) = Call("read_voice") /\ Tail(list) = <<Call("ready"), Hi(u)>>
    \/ Head(list) = Call("ready") /\ Tail(list) = <<Hi(u)>>

(* The calls of send_ready are made while nothing is owed.                 *)
LEMMA ReadingHeads ==
    ASSUME NEW u, NEW E, NEW T, NEW K, NEW list, ReadingList(list),
           OpenDue(u, E, T, K, list)
    PROVE  E = T /\ ReadingHead(u, list)
<1> DEFINE Goal == E = T /\ ReadingHead(u, list)
<1>0. list # <<>> /\ Head(list).op \in {"read_users", "read_online", "read_voice", "ready"}
  BY DEF ReadingList
<1>1. /\ \A g : /\ Broadcast(g).op = "broadcast" /\ ToOthers(g).op = "to_others"
                /\ ToSelf(g).op = "to_self"
      /\ \A b : Leave(b).op = "leave_voice"
      /\ Call("stop_screen").op = "stop_screen"
  BY DEF Broadcast, ToOthers, ToSelf, Leave, Call
<1>2. ASSUME E = T, StillHead(u, list) PROVE Goal
  BY <1>0, <1>1, <1>2 DEF StillHead, ReadingHead, Hi
<1>3. ASSUME NEW s, ToldHead(u, s, K, list) PROVE FALSE
  BY <1>0, <1>1, <1>3 DEF ToldHead, Left
<1>4. ASSUME NEW ch, PartingHead(u, ch, list) PROVE FALSE
  BY <1>0, <1>1, <1>4 DEF PartingHead, Left, Stopped
<1>5. ASSUME \/ Head(list) = Broadcast(ScreenStart(u)) \/ Head(list) = Stopped(u)
             \/ \E b : Head(list) = Leave(b)
      PROVE  FALSE
  BY <1>0, <1>1, <1>5 DEF Stopped
<1>6. OpenHead(u, E, T, K, list)
  BY <1>0, OpenHeads
<1> HIDE DEF Goal
<1>7. Goal
  BY <1>2, <1>3, <1>4, <1>5, <1>6, Zenon DEF OpenHead
<1> QED
  BY <1>7 DEF Goal

(* A closing connection makes none of them.                                *)
LEMMA ClosingReadsNot ==
    ASSUME NEW u, NEW E, NEW T, NEW list, ReadingList(list),
           ClosingDue(u, E, T, list)
    PROVE  FALSE
<1>0. list # <<>> /\ Head(list).op \in {"read_users", "read_online", "read_voice", "ready"}
  BY DEF ReadingList
<1>1. /\ \A g : Broadcast(g).op = "broadcast"
      /\ \A b : Leave(b).op = "leave_voice"
      /\ \A op : Call(op).op = op
  BY DEF Broadcast, Leave, Call
<1>2. ASSUME StillClosing(u, list) PROVE FALSE
  BY <1>0, <1>1, <1>2 DEF StillClosing, Bye
<1>3. ASSUME NEW ch, ClosingParts(u, ch, list) PROVE FALSE
  BY <1>0, <1>1, <1>3 DEF ClosingParts, Left, Stopped
<1>4. ASSUME NEW b \in BOOLEAN, Head(list) = Leave(b) PROVE FALSE
  BY <1>0, <1>1, <1>4
<1>5. ClosingHead(u, E, T, list)
  BY <1>0, ClosingDueHeads
<1> QED
  BY <1>2, <1>3, <1>4, <1>5, Zenon DEF ClosingHead

\* The shape of a mirror and of a snapshot.
MirrorTyped(m) ==
    /\ IsMirror(m)
    /\ m.known \subseteq accounts /\ m.online \subseteq Users
    /\ DOMAIN m.voice \subseteq Users
SnapTyped(s) ==
    /\ s = [known |-> s.known, online |-> s.online, voice |-> s.voice]
    /\ s.known \subseteq accounts /\ s.online \subseteq Users
    /\ DOMAIN s.voice \subseteq Users

\* What c has of a thing afterwards: its snapshot's, until its Ready is sent.
Then(c, ofSnap, ofMirror) ==
    IF Head(todo[c]) = Call("ready") THEN ofMirror ELSE ofSnap

(* One of the four calls of send_ready, if what it reads or shows is owed. *)
LEMMA ReadStep ==
    ASSUME AgreeInv, HubInv, NEW c \in Conns, Active(c), ReadingList(todo[c]),
           Done(c, <<>>), UNCHANGED <<hubVars, accounts, conns, asked, at>>,
           \A d \in Conns : missed'[d] = missed[d],
           snap' = [d \in Conns |-> snap'[d]],
           \A d \in Conns \ {c} : snap'[d] = snap[d] /\ mirror'[d] = mirror[d],
           MirrorTyped(mirror'[c]), SnapTyped(snap'[c]),
           mirror'[c].creds = mirror[c].creds,
           Head(todo[c]) = Call("read_users") => UserOf[c] \in snap'[c].known,
           NEW shown, shown = Then(c, snap'[c].voice, mirror'[c].voice),
           NEW onliners, onliners = Then(c, snap'[c].online, mirror'[c].online),
           NEW knows, knows = Then(c, snap'[c].known, mirror'[c].known),
           Head(todo[c]) \in {Call("read_voice"), Call("ready")} =>
              \A w \in Users \ missed[c].voice : Due(w, Entry(shown, w)),
           Head(todo[c]) \in {Call("read_online"), Call("read_voice"), Call("ready")} =>
              /\ UserOf[c] \in onliners /\ UserOf[c] \in knows
              /\ \A w \in knows \ missed[c].presence :
                    (\A b \in Own(w) : ~Coming(b) /\ ~Going(b)) =>
                        (w \in onliners <=> w \in Online)
    PROVE  AgreeInv'
<1> DEFINE u == UserOf[c]
           T == Truth(u)
           K == Current(u)
           list == todo[c]
<1> USE DEF AgreeInv
<1>1. /\ u \in Users /\ c \in Own(u)
      /\ \A w : \A d \in Own(w) : d \in Conns /\ UserOf[d] = w
  BY SessionAssumption DEF Own
<1>2. \A d \in Own(u) : Active(d) => d = c
  BY <1>1 DEF Active, Shapes
<1>3. \A E : Due(u, E) => /\ E \subseteq Publics
                          /\ Open(c) => OpenDue(u, E, T, K, list)
                          /\ at[c] = "closing" => ClosingDue(u, E, T, list)
  BY DueByOne
<1>4. Open(c) /\ (\A E : Due(u, E) => E = T) /\ ReadingHead(u, list)
  <2>1. Due(u, T)
    BY <1>1 DEF VoiceOwed
  <2>2. Open(c)
    BY <1>3, <2>1, ClosingReadsNot DEF Active, Open
  <2> QED
    BY <1>3, <2>1, <2>2, ReadingHeads
<1>5. /\ Tail(list) \in Opening(u)
      /\ list # <<>> /\ Short(Tail(list))
      /\ Head(list).op \in {"read_users", "read_online", "read_voice", "ready"}
  <2>1. ReadingHead(u, list)
    BY <1>4
  <2> QED
    BY <2>1 DEF ReadingList, ReadingHead, Opening, Short
<1>6. /\ todo' = [d \in Conns |-> todo'[d]]
      /\ \A d \in Conns : d # c => todo'[d] = todo[d]
      /\ todo'[c] = Tail(list)
  BY <1>5, NothingBefore DEF Done, Shapes
<1>7. /\ \A d \in Conns : Open(d)' <=> Open(d)
      /\ \A d \in Conns : Active(d)' <=> Active(d)
      /\ Online' = Online
      /\ \A w : Truth(w)' = Truth(w) /\ Current(w)' = Current(w)
  BY HubStill DEF Open, Active, Online
<1>8. /\ \A d \in Conns \ {c} : \A op : Doing(d, op)' <=> Doing(d, op)
      /\ \A d \in Conns \ {c} : /\ Coming(d)' <=> Coming(d)
                                /\ Going(d)' <=> Going(d)
      /\ Coming(c)'
  BY <1>4, <1>5, <1>6, <1>7 DEF Doing, Coming, Going
<1>9. /\ Tail(list) # <<>>
      /\ Head(list) = Call("read_users") => Head(Tail(list)) = Call("read_online")
      /\ Head(list) = Call("read_online") => Head(Tail(list)) = Call("read_voice")
      /\ Head(list) = Call("read_voice") => Head(Tail(list)) = Call("ready")
      /\ Head(list) = Call("ready") => Head(Tail(list)) = Hi(u)
      /\ Head(list) \in {Call("read_users"), Call("read_online"), Call("read_voice"),
                         Call("ready")}
  <2>1. \A op : Call(op).op = op
    BY DEF Call
  <2> DEFINE rest == Tail(list)
  <2> HIDE DEF rest
  <2>2. ASSUME rest = <<Call("read_online"), Call("read_voice"), Call("ready"), Hi(u)>>
        PROVE  rest # <<>> /\ Head(rest) = Call("read_online")
    BY <2>2, FourCalls
  <2>3. ASSUME rest = <<Call("read_voice"), Call("ready"), Hi(u)>>
        PROVE  rest # <<>> /\ Head(rest) = Call("read_voice")
    BY <2>3, ThreeCalls
  <2>4. ASSUME rest = <<Call("ready"), Hi(u)>>
        PROVE  rest # <<>> /\ Head(rest) = Call("ready")
    BY <2>4, TwoCalls
  <2>5. ASSUME rest = <<Hi(u)>>
        PROVE  rest # <<>> /\ Head(rest) = Hi(u)
    BY <2>5, OneCall
  <2>6. Call("read_users") # Call("read_online") /\ Call("read_users") # Call("read_voice")
        /\ Call("read_users") # Call("ready") /\ Call("read_online") # Call("read_voice")
        /\ Call("read_online") # Call("ready") /\ Call("read_voice") # Call("ready")
    BY <2>1
  <2> QED
    BY <1>4, <2>2, <2>3, <2>4, <2>5, <2>6 DEF ReadingHead, rest
<1>10. \A op : Doing(c, op)' <=> Head(Tail(list)).op = op
  BY <1>6, <1>9 DEF Doing
<1>11. \A op : /\ Call(op).op = op /\ Hi(u).op = "to_others"
  BY DEF Call, Hi, ToOthers
<1>12. Shapes'
  <2>1. todo'[c] # <<Call("disconnect")>>
    <3>1. ASSUME Tail(list) = <<Call("disconnect")>> PROVE FALSE
      <4>1. Head(Tail(list)) = Call("disconnect")
        BY <3>1, OneCall
      <4> QED
        BY <1>9, <1>11, <4>1
    <3> QED
      BY <1>6, <3>1
  <2>2. ASSUME Doing(c, "read_online")' PROVE UserOf[c] \in snap'[c].known
    BY <1>9, <1>10, <1>11, <2>2
  <2>3. \A d \in Conns : MirrorTyped(mirror'[d]) /\ SnapTyped(snap'[d])
    BY DEF Shapes, MirrorTyped, SnapTyped, IsMirror
  <2>4. \A d \in Conns :
            /\ at'[d] \in {"unopened", "open", "closing", "closed"}
            /\ Open(d)' => d \in conns'
            /\ at'[d] = "closing" /\ todo'[d] = <<Call("disconnect")>> => d \in conns'
            /\ at'[d] = "unopened" => mirror'[d] = Blank
            /\ Active(d)' => UserOf[d] \in accounts'
    BY <1>4, <1>6, <1>7, <2>1 DEF Shapes, Open
  <2>5. \A d \in Conns : Doing(d, "read_online")' => UserOf[d] \in snap'[d].known
    BY <1>8, <2>2 DEF Shapes
  <2>6. \A d \in Conns :
            missed'[d] = [voice |-> missed'[d].voice, presence |-> missed'[d].presence]
    BY DEF Shapes
  <2>7. /\ \A d, e \in Conns :
                Active(d)' /\ Active(e)' /\ UserOf[d] = UserOf[e] => d = e
        /\ accounts' \subseteq Users /\ asked' \in 0 .. MaxAsks
        /\ todo' = [d \in Conns |-> todo'[d]] /\ at' = [d \in Conns |-> at'[d]]
        /\ snap' = [d \in Conns |-> snap'[d]]
    BY <1>6, <1>7 DEF Shapes
  <2> HIDE DEF AgreeInv
  <2> QED
    BY <2>3, <2>4, <2>5, <2>6, <2>7 DEF Shapes, MirrorTyped, SnapTyped, IsMirror
<1>13. ASSUME NEW w \in Users, NEW E, Due(w, E) PROVE Due(w, E)'
  <2>1. ASSUME w # u PROVE Due(w, E)'
    <3>1. \A d \in Own(w) : d # c /\ d \in Conns
      BY <1>1, <2>1
    <3> QED
      BY <1>6, <1>7, <1>13, <3>1 DEF Due
  <2>2. ASSUME w = u PROVE Due(w, E)'
    <3>1. E = T /\ E \subseteq Publics
      BY <1>3, <1>4, <1>13, <2>2
    <3>2. OpenDue(u, E, T, K, Tail(list))
      BY <1>5, <3>1 DEF OpenDue
    <3>3. \A d \in Own(u) : d # c => ~Open(d) /\ at[d] # "closing" /\ ~Active(d)
      BY <1>2 DEF Active, Open
    <3>4. at[c] # "closing" /\ Active(c) /\ Truth(w)' = T /\ Current(w)' = K
      BY <1>4, <1>7, <2>2 DEF Open
    <3>5. \A d \in Own(u) :
            /\ Open(d)' => OpenDue(u, E, T, K, todo'[d])
            /\ at'[d] # "closing"
            /\ Active(d)' => d = c
      BY <1>1, <1>6, <1>7, <3>2, <3>3, <3>4, ZenonT(60)
    <3>6. Active(c)'
      BY <1>7, <3>4
    <3> QED
      BY <1>1, <2>2, <3>1, <3>4, <3>5, <3>6 DEF Due
  <2> QED
    BY <2>1, <2>2
<1>14. VoiceOwed'
  <2>1. ASSUME NEW w \in Users PROVE Due(w, Truth(w))'
    <3>1. \A E : E = Truth(w) => Due(w, E)'
      BY <1>13 DEF VoiceOwed
    <3> QED
      BY <1>7, <3>1 DEF Due
  <2>2. ASSUME NEW d \in Conns, NEW w \in Users, VoiceRead(d)', w \notin missed'[d].voice
        PROVE  Due(w, Entry(Shows(d), w))'
    <3>1. \E E : E = Entry(Shows(d)', w) /\ Due(w, E)
      <4>1. CASE d # c
        <5>1. VoiceRead(d) /\ Shows(d)' = Shows(d)
          BY <1>7, <1>8, <2>2, <4>1 DEF VoiceRead, Shows
        <5> QED
          BY <2>2, <5>1 DEF VoiceOwed
      <4>2. CASE d = c
        <5>1. Head(list) \in {Call("read_voice"), Call("ready")}
          BY <1>9, <1>10, <1>11, <2>2, <4>2 DEF VoiceRead
        <5>2. Shows(c)' = shown
          BY <1>9, <1>10, <1>11, <5>1 DEF Shows, Then
        <5> QED
          BY <2>2, <4>2, <5>1, <5>2
      <4> QED
        BY <4>1, <4>2
    <3>2. PICK E : E = Entry(Shows(d)', w) /\ Due(w, E)
      BY <3>1
    <3>3. Due(w, E)'
      BY <1>13, <3>2
    <3> QED
      BY <3>2, <3>3 DEF Due, Entry
  <2> QED
    BY <2>1, <2>2 DEF VoiceOwed
<1>15. CredsOwed'
  <2> SUFFICES ASSUME NEW d \in Conns, Open(d)
               PROVE  CredDue(UserOf[d], mirror'[d].creds, Truth(UserOf[d]),
                              Current(UserOf[d]), todo'[d])
    BY <1>7 DEF CredsOwed, CredDue
  <2>1. CredDue(UserOf[d], mirror[d].creds, Truth(UserOf[d]),
                              Current(UserOf[d]), todo[d])
    BY DEF CredsOwed, CredDue
  <2>2. CASE d # c
    BY <1>6, <2>1, <2>2
  <2>3. CASE d = c
    <3>1. ASSUME NEW s, list \in TakingUp(u, s, K) PROVE FALSE
      <4>1. \/ Head(list) = ToSelf(VoiceReady(K))
            \/ \E ch \in Channels : Head(list) = Left(u, ch)
        BY <3>1, TwoCalls, ThreeCalls DEF TakingUp
      <4>2. \A g : Broadcast(g).op = "broadcast" /\ ToSelf(g).op = "to_self"
        BY DEF Broadcast, ToSelf
      <4> QED
        BY <1>5, <4>1, <4>2 DEF Left
    <3>2. ASSUME NEW ch, list \in Parting(u, ch) PROVE FALSE
      <4>1. Head(list) = Stopped(u) \/ Head(list) = Left(u, ch)
        BY <3>2, OneCall, TwoCalls DEF Parting
      <4> QED
        BY <1>5, <4>1 DEF Left, Stopped, Broadcast
    <3> QED
      BY <2>1, <2>3, <3>1, <3>2 DEF CredDue
  <2> QED
    BY <2>2, <2>3
<1>16. ASSUME NEW d \in Conns, OnlineRead(d)'
       PROVE  /\ UserOf[d] \in Onliners(d)' /\ UserOf[d] \in Knows(d)'
              /\ \A w \in Knows(d)' \ missed[d].presence :
                    (\A b \in Own(w) : ~Coming(b)' /\ ~Going(b)') =>
                        (w \in Onliners(d)' <=> w \in Online)
  <2>1. ASSUME NEW w, \A b \in Own(w) : ~Coming(b)' /\ ~Going(b)'
        PROVE  \A b \in Own(w) : ~Coming(b) /\ ~Going(b)
    BY <1>1, <1>8, <2>1
  <2>2. CASE d # c
    <3>1. OnlineRead(d) /\ Onliners(d)' = Onliners(d) /\ Knows(d)' = Knows(d)
      BY <1>7, <1>8, <1>16, <2>2 DEF OnlineRead, Onliners, Knows, Reading
    <3> QED
      BY <2>1, <3>1 DEF PresenceOwed
  <2>3. CASE d = c
    <3>1. Head(list) \in {Call("read_online"), Call("read_voice"), Call("ready")}
      BY <1>9, <1>10, <1>11, <1>16, <2>3 DEF OnlineRead
    <3>2. Onliners(c)' = onliners /\ Knows(c)' = knows
      BY <1>9, <1>10, <1>11, <3>1 DEF Onliners, Knows, Reading, Then
    <3> QED
      BY <2>1, <2>3, <3>1, <3>2
  <2> QED
    BY <2>2, <2>3
<1>17. PresenceOwed'
  BY <1>7, <1>16 DEF PresenceOwed, Own
<1> QED
  BY <1>12, <1>14, <1>15, <1>17

(* A call at the head of a list that says it sends does send its frame.    *)
LEMMA HeadSends ==
    ASSUME AgreeInv, TeardownInv, NEW c \in Conns, todo[c] # <<>>,
           Head(todo[c]).op \in {"broadcast", "to_others", "to_self"}
    PROVE  LET g == Head(todo[c]).frame IN
           Head(todo[c]) \in {Broadcast(g), ToOthers(g), ToSelf(g)}
<1> DEFINE u == UserOf[c]
           T == Truth(u)
           list == todo[c]
           Form(call) == call \in {Broadcast(call.frame), ToOthers(call.frame),
                                   ToSelf(call.frame)}
<1>1. \A g : Form(Broadcast(g)) /\ Form(ToOthers(g)) /\ Form(ToSelf(g))
  BY DEF Broadcast, ToOthers, ToSelf
<1> HIDE DEF Form
<1>2. /\ \A op : Call(op).op = op
      /\ \A b : Leave(b).op = "leave_voice"
  BY DEF Call, Leave
<1>3. Active(c) /\ Due(u, T)
  BY SessionAssumption DEF AgreeInv, VoiceOwed, TeardownInv, Active
<1>4. ASSUME StillHead(u, list) PROVE Form(Head(list))
  BY <1>1, <1>2, <1>4 DEF StillHead, Hi
<1>5. ASSUME NEW s, NEW K, ToldHead(u, s, K, list) PROVE Form(Head(list))
  BY <1>1, <1>5 DEF ToldHead, Left
<1>6. ASSUME NEW ch, PartingHead(u, ch, list) PROVE Form(Head(list))
  BY <1>1, <1>6 DEF PartingHead, Left, Stopped
<1>7. ASSUME NEW b, Head(list) = Leave(b) PROVE Form(Head(list))
  BY <1>2, <1>7
<1>8. ASSUME StillClosing(u, list) PROVE Form(Head(list))
  BY <1>1, <1>2, <1>8 DEF StillClosing, Bye
<1>9. ASSUME NEW ch, ClosingParts(u, ch, list) PROVE Form(Head(list))
  BY <1>1, <1>9 DEF ClosingParts, Left, Stopped
<1>10. CASE Open(c)
  <2>1. OpenHead(u, T, T, Current(u), list)
    BY <1>3, <1>10, DueByOne, OpenHeads DEF AgreeInv
  <2>2. ASSUME \/ Head(list) = Broadcast(ScreenStart(u)) \/ Head(list) = Stopped(u)
        PROVE  Form(Head(list))
    BY <1>1, <2>2 DEF Stopped
  <2>3. Form(Head(list))
    BY <1>4, <1>5, <1>6, <1>7, <2>1, <2>2, Zenon DEF OpenHead
  <2> QED
    BY <2>3 DEF Form
<1>11. CASE at[c] = "closing"
  <2>1. ClosingHead(u, T, T, list)
    BY <1>3, <1>11, DueByOne, ClosingDueHeads DEF AgreeInv
  <2>2. Form(Head(list))
    BY <1>7, <1>8, <1>9, <2>1, Zenon DEF ClosingHead
  <2> QED
    BY <2>2 DEF Form
<1> QED
  BY <1>3, <1>10, <1>11 DEF Active, Open

(* Sending keeps what is owed.                                             *)
LEMMA SendStep ==
    ASSUME AgreeInv, TeardownInv, HubInv, NEW c \in Conns,
           DoBroadcast(c) \/ DoToOthers(c) \/ DoToSelf(c)
    PROVE  AgreeInv'
<1> DEFINE g == Head(todo[c]).frame
<1>1. /\ todo[c] # <<>> /\ Done(c, <<>>)
      /\ UNCHANGED <<hubVars, accounts, conns, asked, at, snap>>
      /\ Head(todo[c]).op \in {"broadcast", "to_others", "to_self"}
  BY DEF DoBroadcast, DoToOthers, DoToSelf, Doing
<1>2. Head(todo[c]) \in {Broadcast(g), ToOthers(g), ToSelf(g)}
  BY <1>1, HeadSends
<1>3. \E to : SentTo(c, g, to) /\ Deliver(g, to)
  <2>1. CASE DoBroadcast(c)
    BY <1>2, <2>1 DEF DoBroadcast, Doing, SentTo, Broadcast, ToOthers, ToSelf
  <2>2. CASE DoToOthers(c)
    BY <1>2, <2>2 DEF DoToOthers, Doing, SentTo, Broadcast, ToOthers, ToSelf
  <2>3. CASE DoToSelf(c)
    BY <1>2, <2>3 DEF DoToSelf, Doing, SentTo, Broadcast, ToOthers, ToSelf
  <2> QED
    BY <2>1, <2>2, <2>3
<1> HIDE DEF g
<1> QED
  BY <1>1, <1>3, FrameStep

(* Reading a part of the snapshot, and sending it, keep what is owed.      *)
LEMMA SnapshotStep ==
    ASSUME AgreeInv, TeardownInv, HubInv, NEW c \in Conns,
           ReadUsers(c) \/ ReadOnline(c) \/ ReadVoice(c) \/ SendReady(c)
    PROVE  AgreeInv'
<1> DEFINE head == Head(todo[c])
<1> USE DEF AgreeInv
<1>1. /\ todo[c] # <<>> /\ Active(c) /\ Done(c, <<>>)
      /\ head.op \in {"read_users", "read_online", "read_voice", "ready"}
      /\ UNCHANGED <<hubVars, accounts, conns, asked, at>>
  BY DEF ReadUsers, ReadOnline, ReadVoice, SendReady, Doing, TeardownInv, Active
<1>2. ReadingList(todo[c]) /\ \A op : Call(op).op = op
  BY <1>1 DEF ReadingList, Call
<1>3. /\ MirrorTyped(mirror[c]) /\ SnapTyped(snap[c])
      /\ UserOf[c] \in accounts /\ accounts \subseteq Users
      /\ \A d \in Conns : Open(d) => d \in conns
      /\ conns \subseteq Conns
  BY <1>1 DEF Shapes, MirrorTyped, SnapTyped, IsMirror, TeardownInv
<1>4. Online \subseteq Users
  BY <1>3, SessionAssumption DEF Online
<1>5. /\ OpenDue(UserOf[c], Truth(UserOf[c]), Truth(UserOf[c]), Current(UserOf[c]), todo[c])
      /\ Open(c)
  <2>1. Due(UserOf[c], Truth(UserOf[c]))
    BY SessionAssumption DEF VoiceOwed
  <2> QED
    BY <1>1, <1>2, <2>1, DueByOne, ClosingReadsNot DEF Active, Open
<1>6. ReadingHead(UserOf[c], todo[c])
  BY <1>2, <1>5, ReadingHeads
<1>7. head = Call(head.op)
  BY <1>2, <1>6 DEF ReadingHead
<1> DEFINE shown    == Then(c, snap'[c].voice, mirror'[c].voice)
           onliners == Then(c, snap'[c].online, mirror'[c].online)
           knows    == Then(c, snap'[c].known, mirror'[c].known)
<1>8. /\ shown    = Then(c, snap'[c].voice, mirror'[c].voice)
      /\ onliners = Then(c, snap'[c].online, mirror'[c].online)
      /\ knows    = Then(c, snap'[c].known, mirror'[c].known)
  OBVIOUS
<1>9. head # Call("ready") => /\ shown = snap'[c].voice
                              /\ onliners = snap'[c].online
                              /\ knows = snap'[c].known
  BY DEF Then
<1>10. head = Call("ready") => /\ shown = mirror'[c].voice
                               /\ onliners = mirror'[c].online
                               /\ knows = mirror'[c].known
  BY DEF Then
<1> HIDE DEF shown, onliners, knows
<1>11. ASSUME ReadUsers(c) PROVE AgreeInv'
  <2>1. head = Call("read_users") /\ UNCHANGED <<mirror, missed>>
    BY <1>7, <1>11 DEF ReadUsers, Doing
  <2>2. /\ snap'[c] = [known |-> accounts, online |-> snap[c].online,
                       voice |-> snap[c].voice]
        /\ snap' = [d \in Conns |-> snap'[d]]
        /\ \A d \in Conns \ {c} : snap'[d] = snap[d]
    BY <1>3, <1>11 DEF ReadUsers, Shapes, SnapTyped
  <2>3. SnapTyped(snap'[c]) /\ UserOf[c] \in snap'[c].known
    BY <1>3, <2>2 DEF SnapTyped
  <2>4. head \notin {Call("read_online"), Call("read_voice"), Call("ready")}
    BY <1>2, <2>1
  <2> QED
    BY <1>1, <1>2, <1>3, <1>8, <2>1, <2>2, <2>3, <2>4, ReadStep
<1>12. ASSUME ReadOnline(c) PROVE AgreeInv'
  <2>1. head = Call("read_online") /\ UNCHANGED <<mirror, missed>>
    BY <1>7, <1>12 DEF ReadOnline, Doing
  <2>2. /\ snap'[c] = [known |-> snap[c].known, online |-> Online,
                       voice |-> snap[c].voice]
        /\ snap' = [d \in Conns |-> snap'[d]]
        /\ \A d \in Conns \ {c} : snap'[d] = snap[d]
    BY <1>3, <1>12 DEF ReadOnline, Shapes, SnapTyped
  <2>3. SnapTyped(snap'[c])
    BY <1>3, <1>4, <2>2 DEF SnapTyped
  <2>4. head \notin {Call("read_users"), Call("read_voice"), Call("ready")}
    BY <1>2, <2>1
  <2>5. onliners = Online /\ knows = snap[c].known
    BY <1>9, <2>2, <2>4
  <2>6. UserOf[c] \in snap[c].known
    BY <1>1, <1>12 DEF Shapes, ReadOnline
  <2>7. UserOf[c] \in Online
    BY <1>3, <1>5 DEF Online
  <2>8. /\ UserOf[c] \in onliners /\ UserOf[c] \in knows
        /\ \A w : w \in onliners <=> w \in Online
    BY <2>5, <2>6, <2>7
  <2> QED
    BY <1>1, <1>2, <1>3, <1>8, <2>1, <2>2, <2>3, <2>4, <2>8, ReadStep
<1>13. ASSUME ReadVoice(c) PROVE AgreeInv'
  <2>1. head = Call("read_voice") /\ UNCHANGED <<mirror, missed>>
    BY <1>7, <1>13 DEF ReadVoice, Doing
  <2>2. /\ snap'[c] = [known |-> snap[c].known, online |-> snap[c].online,
                       voice |-> VoiceStates]
        /\ snap' = [d \in Conns |-> snap'[d]]
        /\ \A d \in Conns \ {c} : snap'[d] = snap[d]
    BY <1>3, <1>13 DEF ReadVoice, Shapes, SnapTyped
  <2>3. SnapTyped(snap'[c])
    BY <1>3, <2>2 DEF SnapTyped, VoiceStates, TeardownInv
  <2>4. head \notin {Call("read_users"), Call("read_online"), Call("ready")}
    BY <1>2, <2>1
  <2>5. /\ onliners = snap[c].online /\ knows = snap[c].known
        /\ shown = VoiceStates
    BY <1>9, <2>2, <2>4
  <2>6. ASSUME NEW w \in Users PROVE Due(w, Entry(shown, w))
    <3>1. Entry(shown, w) = Truth(w)
      BY <2>5 DEF VoiceStates, Entry, Truth
    <3> QED
      BY <3>1 DEF VoiceOwed
  <2>7. /\ OnlineRead(c) /\ Onliners(c) = onliners /\ Knows(c) = knows
    BY <1>1, <1>2, <1>5, <2>1, <2>5 DEF OnlineRead, Onliners, Knows, Reading, Doing
  <2>8. /\ UserOf[c] \in onliners /\ UserOf[c] \in knows
        /\ \A w \in knows \ missed[c].presence :
                (\A b \in Own(w) : ~Coming(b) /\ ~Going(b)) =>
                    (w \in onliners <=> w \in Online)
    BY <2>7 DEF PresenceOwed
  <2> QED
    BY <1>1, <1>2, <1>3, <1>8, <2>1, <2>2, <2>3, <2>4, <2>6, <2>8, ReadStep
<1>14. ASSUME SendReady(c) PROVE AgreeInv'
  <2> DEFINE s == snap[c]
             f == Ready(s.known, s.known \cap s.online, s.voice)
             m == mirror'[c]
  <2>1. head = Call("ready") /\ Deliver(f, {c}) /\ snap' = [snap EXCEPT ![c] = NoSnap]
    BY <1>7, <1>14 DEF SendReady, Doing
  <2>2. /\ snap'[c] = NoSnap
        /\ snap' = [d \in Conns |-> snap'[d]]
        /\ \A d \in Conns \ {c} : snap'[d] = snap[d]
    BY <2>1 DEF Shapes
  <2>3. SnapTyped(snap'[c])
    BY <2>2 DEF SnapTyped, NoSnap, Empty
  <2>4. /\ m = Applied(UserOf[c], mirror[c], f)
        /\ \A d \in Conns \ {c} : mirror'[d] = mirror[d]
    BY <1>5, <2>1 DEF Deliver
  <2>5. m = [known |-> s.known, online |-> s.known \cap s.online,
             voice |-> s.voice, creds |-> mirror[c].creds]
    <3> HIDE DEF m
    <3>1. IsMirror(mirror[c])
      BY <1>3 DEF MirrorTyped
    <3> QED
      BY <2>4, <3>1 DEF Applied, Ready, IsMirror
  <2>6. MirrorTyped(m) /\ m.creds = mirror[c].creds
    BY <1>3, <2>5 DEF MirrorTyped, SnapTyped, IsMirror
  <2>7. \A d \in Conns : missed'[d] = missed[d]
    <3>1. f.t = "ready"
      BY DEF Ready
    <3>2. \A d \in Conns : MissedBy(d, f) = missed[d]
      BY <3>1 DEF MissedBy
    <3> QED
      BY <2>1, <3>2 DEF Deliver
  <2>8. /\ onliners = s.known \cap s.online /\ knows = s.known /\ shown = s.voice
    BY <1>10, <2>1, <2>5
  <2>9. /\ OnlineRead(c) /\ Onliners(c) = s.online /\ Knows(c) = s.known
        /\ VoiceRead(c) /\ Shows(c) = s.voice
    BY <1>1, <1>2, <1>5, <2>1
    DEF OnlineRead, Onliners, Knows, Reading, Doing, VoiceRead, Shows
  <2>10. \A w \in Users \ missed[c].voice : Due(w, Entry(shown, w))
    BY <2>8, <2>9 DEF VoiceOwed
  <2>11. /\ UserOf[c] \in onliners /\ UserOf[c] \in knows
         /\ \A w \in knows \ missed[c].presence :
                (\A b \in Own(w) : ~Coming(b) /\ ~Going(b)) =>
                    (w \in onliners <=> w \in Online)
    BY <2>8, <2>9 DEF PresenceOwed
  <2>12. head # Call("read_users")
    BY <1>2, <2>1
  <2> QED
    BY <1>1, <1>2, <1>8, <2>2, <2>3, <2>4, <2>6, <2>7, <2>10, <2>11, <2>12, ReadStep
<1> QED
  BY <1>11, <1>12, <1>13, <1>14

----------------------------------------------------------------------------
(* What a client asks for.                                                 *)

(* An account whose handler has nothing to do is shown as it is, and its   *)
(* client has the credentials it should.                                   *)
LEMMA NothingOwed ==
    ASSUME NEW u, NEW E, NEW T, NEW K, NEW creds
    PROVE  /\ OpenDue(u, E, T, K, <<>>) => E = T
           /\ ClosingDue(u, E, T, <<>>) => E = T
           /\ CredDue(u, creds, T, K, <<>>) => creds = K
           /\ <<>> \notin Opening(u)
<1>1. \A v, w, x, y, z : /\ <<v>> # <<>> /\ <<v, w>> # <<>> /\ <<v, w, x>> # <<>>
                         /\ <<v, w, x, y>> # <<>> /\ <<v, w, x, y, z>> # <<>>
  OBVIOUS
<1>2. \A s : <<>> \notin TakingUp(u, s, K)
  BY <1>1 DEF TakingUp
<1>3. \A ch : <<>> \notin Parting(u, ch) /\ <<>> \notin PartingBye(u, ch)
  BY <1>1 DEF Parting, PartingBye
<1>4. <<>> \notin Opening(u)
  BY <1>1 DEF Opening
<1>5. OpenDue(u, E, T, K, <<>>) => E = T
  BY <1>1, <1>2, <1>3, Zenon DEF OpenDue
<1>6. ClosingDue(u, E, T, <<>>) => E = T
  BY <1>1, <1>3, Zenon DEF ClosingDue
<1> QED
  BY <1>2, <1>3, <1>4, <1>5, <1>6, Zenon DEF CredDue

(* A request keeps what is owed if the calls that follow it make up for    *)
(* what it changes.                                                        *)
LEMMA RequestDue ==
    ASSUME AgreeInv, NEW c \in Conns, NEW calls, Asks(c, calls),
           NEW u, u = UserOf[c],
           NEW T, T = Truth(u)', T \subseteq Publics, NEW K, K = Current(u)',
           \A w \in Users \ {u} : Truth(w)' = Truth(w) /\ Current(w)' = Current(w),
           ~ReadingList(calls),
           OpenDue(u, Truth(u), T, K, calls), OpenDue(u, T, T, K, calls),
           CredDue(u, Current(u), T, K, calls)
    PROVE  AgreeInv'
<1>1. /\ Open(c) /\ todo[c] = <<>> /\ Active(c) /\ at[c] # "closing"
      /\ todo' = [todo EXCEPT ![c] = calls]
      /\ UNCHANGED <<accounts, conns, at, snap, mirror, missed>>
  BY DEF Asks, MayAsk, Idling, Open, Active
<1>2. asked' \in 0 .. MaxAsks
  BY SessionAssumption DEF Asks, MayAsk, AgreeInv, Shapes
<1>3. ~ReadingList(todo[c])
  BY <1>1 DEF ReadingList
<1>4. /\ \A E \in SUBSET Publics :
            OpenDue(u, E, Truth(u), Current(u), todo[c]) => OpenDue(u, E, T, K, calls)
      /\ CredDue(u, mirror[c].creds, Truth(u), Current(u), todo[c]) =>
            CredDue(u, mirror[c].creds, T, K, calls)
      /\ todo[c] \notin Opening(u)
  BY <1>1, NothingOwed
<1> QED
  BY <1>1, <1>2, <1>3, <1>4, WorkStep

(* The calls that follow the request to join a call.                       *)
LEMMA JoinList ==
    ASSUME HubInv, NEW u \in Users, NEW c \in Channels, JoinVoice(u, c)
    PROVE  JoinCalls(u) \in TakingUp(u, Public(members'[u]), NewCredential(u))
<1> DEFINE x == ToSelf(VoiceReady(NewCredential(u)))
           y == Broadcast(VoiceState(u, Public(members'[u])))
<1>1. Announcements(u) = <<x, y>>
  BY DEF Announcements
<1> HIDE DEF x, y
<1>2. CASE u \in InCall
  <2> DEFINE z == Broadcast(VoiceLeave(u, members[u].channel))
  <2>1. Farewell(u) = <<z>>
    BY <1>2 DEF Farewell
  <2>2. z = Left(u, members[u].channel) /\ members[u].channel \in Channels
    BY <1>2 DEF Left, HubInv, HubTypeOK, InCall, Member
  <2> HIDE DEF z
  <2>3. <<z>> \o <<x, y>> = <<z, x, y>>
    <3> DEFINE a == <<z>> \o <<x, y>>
    <3>1. <<z>> \in Seq({x, y, z}) /\ <<x, y>> \in Seq({x, y, z})
      OBVIOUS
    <3>2. a \in Seq({x, y, z}) /\ Len(a) = 3 /\ a[1] = z /\ a[2] = x /\ a[3] = y
      BY <3>1, ConcatProperties
    <3> HIDE DEF a
    <3>3. a = <<z, x, y>>
      BY <3>2
    <3> QED
      BY <3>3 DEF a
  <2>4. JoinCalls(u) = <<Left(u, members[u].channel), x, y>>
    BY <1>1, <2>1, <2>2, <2>3, Zenon DEF JoinCalls
  <2> QED
    BY <2>2, <2>4 DEF TakingUp, x, y
<1>3. CASE u \notin InCall
  <2>1. Short(<<x, y>>)
    BY DEF Short
  <2>2. JoinCalls(u) = <<x, y>>
    BY <1>1, <1>3, <2>1, NothingBefore DEF JoinCalls, Farewell
  <2> QED
    BY <2>2 DEF TakingUp, x, y
<1> QED
  BY <1>2, <1>3

(* Every request keeps what is owed.                                       *)
LEMMA RequestStep ==
    ASSUME AgreeInv, HubInv, HubInv', NEW c \in Conns, Request(c)
    PROVE  AgreeInv'
<1> DEFINE u == UserOf[c]
<1>1. u \in Users
  BY SessionAssumption
<1> HIDE DEF u
<1>2. Truth(u)' \subseteq Publics /\ Truth(u) \subseteq Publics
  <2>1. Truth(u) \subseteq Publics
    BY <1>1, TruthTyped
  <2>2. members' \in [InCall' -> Member]
    BY DEF HubInv, HubTypeOK
  <2>3. Truth(u)' \subseteq Publics
    BY <2>2 DEF Truth, Public, Publics, Member
  <2> QED
    BY <2>1, <2>3
<1>3. ASSUME MemberNext(u)
      PROVE  \A w \in Users \ {u} : Truth(w)' = Truth(w) /\ Current(w)' = Current(w)
  BY <1>1, <1>3, OthersKept
<1>4. ASSUME UNCHANGED hubVars
      PROVE  \A w : Truth(w)' = Truth(w) /\ Current(w)' = Current(w)
  BY <1>4, HubStill
<1>5. \A call : call.op \in {"broadcast", "stop_screen"} => ~ReadingList(<<call>>)
  BY OneCall DEF ReadingList
<1>6. ~ReadingList(<<>>)
  BY DEF ReadingList
<1>7. \A g : Broadcast(g).op = "broadcast"
  BY DEF Broadcast
<1>8. ASSUME NEW ch \in Channels, AskJoinVoice(c, ch) PROVE AgreeInv'
  <2> DEFINE s == Public(members'[u])
             K == NewCredential(u)
             calls == JoinCalls(u)
  <2>1. JoinVoice(u, ch) /\ Asks(c, calls)
    BY <1>8 DEF AskJoinVoice, u
  <2>2. Truth(u)' = {s} /\ Current(u)' = K
    BY <1>1, <2>1, OwnJoin
  <2>3. calls \in TakingUp(u, s, K)
    BY <1>1, <2>1, JoinList
  <2> HIDE DEF s, K, calls
  <2>4. ~ReadingList(calls)
    <3>1. \/ Head(calls) = ToSelf(VoiceReady(K))
          \/ \E h \in Channels : Head(calls) = Left(u, h)
      BY <2>3, TwoCalls, ThreeCalls DEF TakingUp
    <3>2. \A g : ToSelf(g).op = "to_self"
      BY DEF ToSelf
    <3> QED
      BY <1>7, <3>1, <3>2 DEF ReadingList, Left
  <2>5. \A E : OpenDue(u, E, {s}, K, calls)
    BY <2>3 DEF OpenDue
  <2>6. \A k : CredDue(u, k, {s}, K, calls)
    BY <2>3 DEF CredDue
  <2>7. MemberNext(u)
    BY <2>1 DEF MemberNext
  <2> QED
    BY <1>2, <1>3, <2>1, <2>2, <2>4, <2>5, <2>6, <2>7, RequestDue DEF u
<1>9. ASSUME AskLeaveVoice(c) PROVE AgreeInv'
  <2>1. Asks(c, <<Call("stop_screen")>>) /\ UNCHANGED hubVars
    BY <1>9 DEF AskLeaveVoice
  <2>2. ~ReadingList(<<Call("stop_screen")>>)
    BY <1>5 DEF Call
  <2>3. /\ \A T, K : OpenDue(u, T, T, K, <<Call("stop_screen")>>)
        /\ \A T, K : CredDue(u, K, T, K, <<Call("stop_screen")>>)
    BY DEF OpenDue, CredDue
  <2> QED
    BY <1>2, <1>4, <2>1, <2>2, <2>3, RequestDue DEF u
<1>10. ASSUME NEW f \in VoiceFlags, AskVoiceFlags(c, f) PROVE AgreeInv'
  <2> DEFINE s == Public(members'[u])
             calls == <<Broadcast(VoiceState(u, s))>>
  <2>1. SetVoiceFlags(u, f) /\ Asks(c, calls)
    BY <1>10 DEF AskVoiceFlags, u
  <2>2. Truth(u)' = {s} /\ Current(u)' = Current(u)
    BY <1>1, <2>1, OwnFlags
  <2>3. ~ReadingList(calls)
    BY <1>5, <1>7
  <2> HIDE DEF s
  <2>4. \A E, K : OpenDue(u, E, {s}, K, calls)
    BY DEF OpenDue
  <2>5. \A K, T : CredDue(u, K, T, K, calls)
    BY DEF CredDue
  <2> HIDE DEF calls
  <2>6. MemberNext(u)
    BY <2>1 DEF MemberNext
  <2> QED
    BY <1>2, <1>3, <2>1, <2>2, <2>3, <2>4, <2>5, <2>6, RequestDue DEF u
<1>11. ASSUME AskStartScreen(c) PROVE AgreeInv'
  <2> DEFINE calls == <<Broadcast(ScreenStart(u))>>
  <2>1. StartScreen(u) /\ Asks(c, calls)
    BY <1>11 DEF AskStartScreen, u
  <2>2. Truth(u)' = Shared(Truth(u), TRUE) /\ Current(u)' = Current(u)
    BY <1>1, <2>1, OwnShare
  <2>3. Truth(u)' = Shared(Truth(u)', TRUE)
    BY <1>2, <2>2, SharedFacts, ZenonT(60)
  <2>4. ~ReadingList(calls)
    BY <1>5, <1>7
  <2>5. /\ OpenDue(u, Truth(u), Truth(u)', Current(u), calls)
        /\ OpenDue(u, Truth(u)', Truth(u)', Current(u), calls)
    BY <2>2, <2>3 DEF OpenDue
  <2>6. \A K, T : CredDue(u, K, T, K, calls)
    BY DEF CredDue
  <2> HIDE DEF calls
  <2>7. MemberNext(u)
    BY <2>1 DEF MemberNext
  <2> QED
    BY <1>2, <1>3, <2>1, <2>2, <2>4, <2>5, <2>6, <2>7, RequestDue DEF u
<1>12. ASSUME AskStopScreen(c) PROVE AgreeInv'
  <2> DEFINE calls == <<Broadcast(ScreenStop(u))>>
  <2>1. StopScreen(u) /\ Asks(c, calls)
    BY <1>12 DEF AskStopScreen, u
  <2>2. Truth(u)' = Shared(Truth(u), FALSE) /\ Current(u)' = Current(u)
    BY <1>1, <2>1, OwnShare
  <2>3. Truth(u)' = Shared(Truth(u)', FALSE)
    BY <1>2, <2>2, SharedFacts
  <2>4. ~ReadingList(calls)
    BY <1>5, <1>7
  <2>5. /\ OpenDue(u, Truth(u), Truth(u)', Current(u), calls)
        /\ OpenDue(u, Truth(u)', Truth(u)', Current(u), calls)
    BY <2>2, <2>3 DEF OpenDue, Stopped
  <2>6. \A K, T : CredDue(u, K, T, K, calls)
    BY DEF CredDue
  <2> HIDE DEF calls
  <2>7. MemberNext(u)
    BY <2>1 DEF MemberNext
  <2> QED
    BY <1>2, <1>3, <2>1, <2>2, <2>4, <2>5, <2>6, <2>7, RequestDue DEF u
<1>13. ASSUME NEW v \in Users, AskWatch(c, v) \/ AskUnwatch(c, v) PROVE AgreeInv'
  <2>1. (Watch(u, v) \/ Unwatch(u, v)) /\ Asks(c, <<>>)
    BY <1>13 DEF AskWatch, AskUnwatch, u
  <2>2. Truth(u)' = Truth(u) /\ Current(u)' = Current(u)
    BY <1>1, <2>1, OwnWatch
  <2>3. /\ \A T, K : OpenDue(u, T, T, K, <<>>)
        /\ \A T, K : CredDue(u, K, T, K, <<>>)
    BY DEF OpenDue, CredDue
  <2>4. MemberNext(u)
    BY <2>1 DEF MemberNext
  <2> QED
    BY <1>2, <1>3, <1>6, <2>1, <2>2, <2>3, <2>4, RequestDue DEF u
<1>14. ASSUME AskDisplayName(c) PROVE AgreeInv'
  <2> DEFINE calls == <<Broadcast(UserUpdate(u))>>
  <2>1. Asks(c, calls) /\ UNCHANGED hubVars
    BY <1>14 DEF AskDisplayName, u
  <2>2. ~ReadingList(calls)
    BY <1>5, <1>7
  <2>3. /\ \A T, K : OpenDue(u, T, T, K, calls)
        /\ \A T, K : CredDue(u, K, T, K, calls)
    BY DEF OpenDue, CredDue
  <2> HIDE DEF calls
  <2> QED
    BY <1>2, <1>4, <2>1, <2>2, <2>3, RequestDue DEF u
<1> QED
  BY <1>8, <1>9, <1>10, <1>11, <1>12, <1>13, <1>14 DEF Request

----------------------------------------------------------------------------
(* Leaving a call.                                                         *)

(* Where there is a stop_screen to make, or a check_voice, nothing is owed,*)
(* and a closing connection has its Bye to send after it.                  *)
LEMMA StopHeads ==
    ASSUME NEW u, NEW E, NEW T, NEW K, NEW list, list # <<>>,
           Head(list).op \in {"stop_screen", "check_voice"}
    PROVE  /\ OpenDue(u, E, T, K, list) => E = T /\ Tail(list) = <<>>
           /\ ClosingDue(u, E, T, list) => E = T /\ Tail(list) = <<Bye(u)>>
<1>1. /\ \A g : /\ Broadcast(g).op = "broadcast" /\ ToOthers(g).op = "to_others"
                /\ ToSelf(g).op = "to_self"
      /\ \A b : Leave(b).op = "leave_voice"
      /\ \A op : Call(op).op = op
  BY DEF Broadcast, ToOthers, ToSelf, Leave, Call
<1> DEFINE Goal == E = T /\ Tail(list) = <<>>
<1>2. ASSUME E = T, StillHead(u, list) PROVE Goal
  BY <1>1, <1>2 DEF StillHead, Hi
<1>3. ASSUME NEW s, ToldHead(u, s, K, list) PROVE FALSE
  BY <1>1, <1>3 DEF ToldHead, Left
<1>4. ASSUME NEW ch, PartingHead(u, ch, list) PROVE FALSE
  BY <1>1, <1>4 DEF PartingHead, Left, Stopped
<1>5. ASSUME \/ Head(list) = Broadcast(ScreenStart(u)) \/ Head(list) = Stopped(u)
             \/ \E b : Head(list) = Leave(b)
      PROVE  FALSE
  BY <1>1, <1>5 DEF Stopped
<1>6. ASSUME E = T, StillClosing(u, list) PROVE E = T /\ Tail(list) = <<Bye(u)>>
  BY <1>1, <1>6 DEF StillClosing, Bye
<1>7. ASSUME NEW ch, ClosingParts(u, ch, list) PROVE FALSE
  BY <1>1, <1>7 DEF ClosingParts, Left, Stopped
<1> HIDE DEF Goal
<1>8. OpenHead(u, E, T, K, list) => Goal
  BY <1>2, <1>3, <1>4, <1>5, Zenon DEF OpenHead
<1>9. ClosingHead(u, E, T, list) => E = T /\ Tail(list) = <<Bye(u)>>
  BY <1>5, <1>6, <1>7, Zenon DEF ClosingHead
<1> QED
  BY <1>8, <1>9, OpenHeads, ClosingDueHeads DEF Goal

(* Where there is a leave_voice to make, no share is owed any more.        *)
LEMMA LeaveHeads ==
    ASSUME NEW u, NEW E, NEW T, NEW K, NEW list, list # <<>>,
           Head(list).op = "leave_voice"
    PROVE  /\ OpenDue(u, E, T, K, list) =>
                /\ Tail(list) = <<>> /\ T = Shared(E, FALSE)
                /\ T # {} => Head(list).sharing
           /\ ClosingDue(u, E, T, list) =>
                /\ Tail(list) = <<Bye(u)>> /\ T = Shared(E, FALSE)
                /\ T # {} => Head(list).sharing
<1>1. /\ \A g : /\ Broadcast(g).op = "broadcast" /\ ToOthers(g).op = "to_others"
                /\ ToSelf(g).op = "to_self"
      /\ \A op : Call(op).op = op
  BY DEF Broadcast, ToOthers, ToSelf, Call
<1> DEFINE Goal(rest) == /\ Tail(list) = rest /\ T = Shared(E, FALSE)
                         /\ T # {} => Head(list).sharing
<1>2. ASSUME StillHead(u, list) PROVE FALSE
  BY <1>1, <1>2 DEF StillHead, Hi
<1>3. ASSUME NEW s, ToldHead(u, s, K, list) PROVE FALSE
  BY <1>1, <1>3 DEF ToldHead, Left
<1>4. ASSUME NEW ch, PartingHead(u, ch, list) PROVE FALSE
  BY <1>1, <1>4 DEF PartingHead, Left, Stopped
<1>5. ASSUME Head(list) = Broadcast(ScreenStart(u)) \/ Head(list) = Stopped(u)
      PROVE  FALSE
  BY <1>1, <1>5 DEF Stopped
<1>6. ASSUME NEW b \in BOOLEAN, Head(list) = Leave(b), NEW rest, Tail(list) = rest,
             T = Shared(E, FALSE), T # {} => b
      PROVE  Goal(rest)
  <2>1. Leave(b).sharing = b
    BY DEF Leave
  <2>2. Head(list).sharing = b
    BY <1>6, <2>1, Zenon
  <2> QED
    BY <1>6, <2>2, Zenon
<1>7. ASSUME StillClosing(u, list) PROVE FALSE
  BY <1>1, <1>7 DEF StillClosing, Bye
<1>8. ASSUME NEW ch, ClosingParts(u, ch, list) PROVE FALSE
  BY <1>1, <1>8 DEF ClosingParts, Left, Stopped
<1> HIDE DEF Goal
<1>9. OpenHead(u, E, T, K, list) => Goal(<<>>)
  BY <1>2, <1>3, <1>4, <1>5, <1>6, Zenon DEF OpenHead
<1>10. ClosingHead(u, E, T, list) => Goal(<<Bye(u)>>)
  BY <1>6, <1>7, <1>8, Zenon DEF ClosingHead
<1> QED
  BY <1>9, <1>10, OpenHeads, ClosingDueHeads DEF Goal

(* The credentials of a list that neither takes up a call nor ends one.    *)
LEMMA CredsElse ==
    ASSUME NEW u, NEW creds, NEW T, NEW K, NEW list, list # <<>>,
           Head(list).op \in {"stop_screen", "leave_voice"},
           CredDue(u, creds, T, K, list)
    PROVE  creds = K
<1>1. \A g : Broadcast(g).op = "broadcast" /\ ToSelf(g).op = "to_self"
  BY DEF Broadcast, ToSelf
<1>2. ASSUME NEW s, list \in TakingUp(u, s, K) PROVE FALSE
  <2>1. \/ Head(list) = ToSelf(VoiceReady(K))
        \/ \E ch \in Channels : Head(list) = Left(u, ch)
    BY <1>2, TwoCalls, ThreeCalls DEF TakingUp
  <2> QED
    BY <1>1, <2>1 DEF Left
<1>3. ASSUME NEW ch, list \in Parting(u, ch) PROVE FALSE
  <2>1. Head(list) = Stopped(u) \/ Head(list) = Left(u, ch)
    BY <1>3, OneCall, TwoCalls DEF Parting
  <2> QED
    BY <1>1, <2>1 DEF Left, Stopped
<1> QED
  BY <1>2, <1>3 DEF CredDue

(* The calls of send_ready come before all others.                         *)
LEMMA OpeningHeads ==
    ASSUME NEW u, NEW list \in Opening(u)
    PROVE  list # <<>> /\ (Head(list) = Hi(u) \/ ReadingList(list))
<1>1. \A op : Call(op).op = op
  BY DEF Call
<1>2. CASE list = <<Call("read_users"), Call("read_online"), Call("read_voice"),
                    Call("ready"), Hi(u)>>
  BY <1>1, <1>2, FiveCalls DEF ReadingList
<1>3. CASE list = <<Call("read_online"), Call("read_voice"), Call("ready"), Hi(u)>>
  BY <1>1, <1>3, FourCalls DEF ReadingList
<1>4. CASE list = <<Call("read_voice"), Call("ready"), Hi(u)>>
  BY <1>1, <1>4, ThreeCalls DEF ReadingList
<1>5. CASE list = <<Call("ready"), Hi(u)>>
  BY <1>1, <1>5, TwoCalls DEF ReadingList
<1>6. CASE list = <<Hi(u)>>
  BY <1>6, OneCall
<1> QED
  BY <1>2, <1>3, <1>4, <1>5, <1>6 DEF Opening

(* Giving up the share on the way out of a call.                           *)
LEMMA StopStep ==
    ASSUME AgreeInv, TeardownInv, HubInv, HubInv', NEW c \in Conns, DoStopScreen(c)
    PROVE  AgreeInv'
<1> DEFINE u == UserOf[c]
           list == todo[c]
           T == Truth(u)'
           K == Current(u)'
           calls == todo'[c]
<1> USE DEF AgreeInv
<1>1. u \in Users
  BY SessionAssumption
<1>2. /\ list # <<>> /\ Head(list).op = "stop_screen" /\ Active(c)
      /\ UNCHANGED <<accounts, conns, mirror, missed, asked, at, snap>>
  BY DEF DoStopScreen, Doing, TeardownInv, Active
<1>3. PICK b \in BOOLEAN :
        /\ b <=> u \in InCall
        /\ todo' = [todo EXCEPT ![c] = <<Leave(b)>> \o Tail(@)]
  <2>1. todo' = [todo EXCEPT ![c] = <<Leave(u \in InCall)>> \o Tail(@)]
    BY DEF DoStopScreen, Done, Leave
  <2>2. (u \in InCall) \in BOOLEAN
    OBVIOUS
  <2> QED
    BY <2>1, <2>2, Zenon
<1>4. /\ Truth(u) \subseteq Publics /\ T \subseteq Publics
      /\ T = Shared(Truth(u), FALSE) /\ K = Current(u)
      /\ \A w \in Users \ {u} : Truth(w)' = Truth(w) /\ Current(w)' = Current(w)
      /\ T # {} => b
  <2>1. Truth(u) \subseteq Publics
    BY <1>1, TruthTyped
  <2>2. CASE u \in InCall
    <3>1. StopScreen(u) /\ MemberNext(u)
      BY <2>2 DEF DoStopScreen, MemberNext
    <3>2. T = Shared(Truth(u), FALSE) /\ K = Current(u)
      BY <1>1, <3>1, OwnShare
    <3>3. \A w \in Users \ {u} : Truth(w)' = Truth(w) /\ Current(w)' = Current(w)
      BY <1>1, <3>1, OthersKept
    <3>4. Shared(Truth(u), FALSE) \subseteq Publics
      BY <2>1, SharedFacts
    <3> QED
      BY <1>3, <2>1, <2>2, <3>2, <3>3, <3>4
  <2>3. CASE u \notin InCall
    <3>1. UNCHANGED hubVars
      BY <2>3 DEF DoStopScreen
    <3>2. \A w : Truth(w)' = Truth(w) /\ Current(w)' = Current(w)
      BY <3>1, HubStill
    <3>3. Truth(u) = {}
      BY <2>3 DEF Truth
    <3> QED
      BY <2>1, <3>2, <3>3, SharedFacts
  <2> QED
    BY <2>2, <2>3
<1>5. T = Shared(T, FALSE)
  BY <1>4, SharedFacts, ZenonT(60)
<1>6. Due(u, Truth(u))
  BY <1>1 DEF VoiceOwed
<1>7. /\ Open(c) => OpenDue(u, Truth(u), Truth(u), Current(u), list)
      /\ at[c] = "closing" => ClosingDue(u, Truth(u), Truth(u), list)
  BY <1>2, <1>6, DueByOne
<1>8. /\ Open(c) => Tail(list) = <<>>
      /\ at[c] = "closing" => Tail(list) = <<Bye(u)>>
  BY <1>2, <1>7, StopHeads, ZenonT(60)
<1>9. /\ Open(c) => calls = <<Leave(b)>>
      /\ at[c] = "closing" => calls = <<Leave(b), Bye(u)>>
      /\ todo' = [todo EXCEPT ![c] = calls]
  <2>1. \A x : <<x>> \o <<>> = <<x>>
    <3>1. \A x : <<x>> \in Seq({x})
      OBVIOUS
    <3> QED
      BY <3>1, ConcatEmptySeq
  <2>2. \A x, y : <<x>> \o <<y>> = <<x, y>>
    BY Joined
  <2>3. calls = <<Leave(b)>> \o Tail(list)
    BY <1>3 DEF Shapes
  <2>4. todo' = [todo EXCEPT ![c] = calls]
    BY <1>3, <2>3 DEF Shapes
  <2>5. Open(c) => calls = <<Leave(b)>>
    BY <1>8, <2>1, <2>3
  <2>6. at[c] = "closing" => calls = <<Leave(b), Bye(u)>>
    BY <1>8, <2>2, <2>3
  <2> QED
    BY <2>4, <2>5, <2>6
<1> HIDE DEF calls, T, K
<1>10. calls # <<>> /\ Head(calls) = Leave(b)
  BY <1>2, <1>9, OneCall, TwoCalls DEF Active, Open
<1>11. ~ReadingList(calls) /\ ~ReadingList(list) /\ calls # <<Call("disconnect")>>
  <2>1. Head(calls).op = "leave_voice" /\ Head(list).op = "stop_screen"
    BY <1>2, <1>10 DEF Leave
  <2>2. calls # <<Call("disconnect")>>
    BY <2>1, OneCall DEF Call
  <2> QED
    BY <2>1, <2>2 DEF ReadingList
<1>12. asked' \in 0 .. MaxAsks
  BY <1>2 DEF Shapes
<1>13. ASSUME Open(c)
       PROVE  /\ \A E \in SUBSET Publics :
                    OpenDue(u, E, Truth(u), Current(u), list) => OpenDue(u, E, T, K, calls)
              /\ OpenDue(u, T, T, K, calls)
              /\ CredDue(u, mirror[c].creds, Truth(u), Current(u), list) =>
                    CredDue(u, mirror[c].creds, T, K, calls)
              /\ list \notin Opening(u)
  <2>1. ASSUME NEW E, T = Shared(E, FALSE) PROVE OpenDue(u, E, T, K, calls)
    BY <1>4, <1>9, <1>13, <2>1 DEF OpenDue
  <2>2. \A E : OpenDue(u, E, Truth(u), Current(u), list) => E = Truth(u)
    BY <1>2, StopHeads
  <2>3. list \notin Opening(u)
    <3>1. Hi(u).op = "to_others"
      BY DEF Hi, ToOthers
    <3> QED
      BY <1>2, <1>11, <3>1, OpeningHeads
  <2>4. CredDue(u, mirror[c].creds, Truth(u), Current(u), list) =>
            mirror[c].creds = Current(u)
    BY <1>2, CredsElse
  <2>5. \A E : OpenDue(u, E, Truth(u), Current(u), list) => OpenDue(u, E, T, K, calls)
    BY <1>4, <2>1, <2>2
  <2> QED
    BY <1>4, <1>5, <2>1, <2>3, <2>4, <2>5 DEF CredDue
<1>14. ASSUME at[c] = "closing"
       PROVE  /\ \A E \in SUBSET Publics :
                    ClosingDue(u, E, Truth(u), list) => ClosingDue(u, E, T, calls)
              /\ ClosingDue(u, T, T, calls)
  <2>1. ASSUME NEW E, T = Shared(E, FALSE) PROVE ClosingDue(u, E, T, calls)
    BY <1>4, <1>9, <1>14, <2>1 DEF ClosingDue
  <2>2. \A E : ClosingDue(u, E, Truth(u), list) => E = Truth(u)
    BY <1>2, StopHeads
  <2> QED
    BY <1>4, <1>5, <2>1, <2>2
<1> QED
  BY <1>2, <1>4, <1>9, <1>10, <1>11, <1>12, <1>13, <1>14, WorkStep DEF T, K

(* Leaving the call, if the account is still in one.                       *)
LEMMA LeaveStep ==
    ASSUME AgreeInv, TeardownInv, HubInv, NEW c \in Conns, DoLeaveVoice(c)
    PROVE  AgreeInv'
<1> DEFINE u == UserOf[c]
           list == todo[c]
           ch == members[u].channel
           T == Truth(u)'
           K == Current(u)'
           calls == todo'[c]
<1> USE DEF AgreeInv
<1>1. u \in Users
  BY SessionAssumption
<1>2. /\ list # <<>> /\ Head(list).op = "leave_voice" /\ Active(c)
      /\ UNCHANGED <<accounts, conns, mirror, missed, asked, at, snap>>
  BY DEF DoLeaveVoice, Doing, TeardownInv, Active
<1>3. /\ Due(u, Truth(u)) /\ Truth(u) \subseteq Publics
      /\ asked' \in 0 .. MaxAsks
  BY <1>1, <1>2, TruthTyped DEF VoiceOwed, Shapes
<1>4. /\ Open(c) => OpenDue(u, Truth(u), Truth(u), Current(u), list)
      /\ at[c] = "closing" => ClosingDue(u, Truth(u), Truth(u), list)
  BY <1>2, <1>3, DueByOne
<1>5. /\ Open(c) => Tail(list) = <<>>
      /\ at[c] = "closing" => Tail(list) = <<Bye(u)>>
      /\ Truth(u) # {} => Head(list).sharing
  BY <1>2, <1>4, LeaveHeads DEF Active, Open
<1>6. /\ \A E : OpenDue(u, E, Truth(u), Current(u), list) => Truth(u) = Shared(E, FALSE)
      /\ \A E : ClosingDue(u, E, Truth(u), list) => Truth(u) = Shared(E, FALSE)
  BY <1>2, LeaveHeads
<1>7. Shared({}, FALSE) = {}
  BY DEF Shared
<1>8. ~ReadingList(list) /\ list \notin Opening(u)
  <2>1. ~ReadingList(list) /\ Hi(u).op = "to_others"
    BY <1>2 DEF ReadingList, Hi, ToOthers
  <2> QED
    BY <1>2, <2>1, OpeningHeads
<1>9. CredDue(u, mirror[c].creds, Truth(u), Current(u), list) =>
            mirror[c].creds = Current(u)
  BY <1>2, CredsElse
<1>10. CASE u \in InCall
  <2>1. LeaveVoice(u) /\ MemberNext(u)
    BY <1>10 DEF DoLeaveVoice, MemberNext
  <2>2. T = {} /\ K = NoCreds
    BY <1>1, <2>1, OwnLeave
  <2>3. \A w \in Users \ {u} : Truth(w)' = Truth(w) /\ Current(w)' = Current(w)
    BY <1>1, <2>1, OthersKept
  <2>4. /\ Truth(u) = {Public(members[u])} /\ Public(members[u]).channel = ch
        /\ ch \in Channels
    BY <1>10 DEF Truth, Public, HubInv, HubTypeOK, InCall, Member
  <2>5. Head(list).sharing
    BY <1>5, <2>4
  <2>6. todo' = [todo EXCEPT ![c] = (<<Stopped(u)>> \o <<Left(u, ch)>>) \o Tail(@)]
    BY <1>10, <2>5 DEF DoLeaveVoice, Done, Stopped, Left
  <2>7. <<Stopped(u)>> \o <<Left(u, ch)>> = <<Stopped(u), Left(u, ch)>>
    BY Joined
  <2>8. calls = <<Stopped(u), Left(u, ch)>> \o Tail(list) /\ todo' = [todo EXCEPT ![c] = calls]
    BY <2>6, <2>7 DEF Shapes
  <2>9. Open(c) => calls = <<Stopped(u), Left(u, ch)>>
    <3>1. \A x, y : <<x, y>> \o <<>> = <<x, y>>
      <4>1. \A x, y : <<x, y>> \in Seq({x, y})
        OBVIOUS
      <4> QED
        BY <4>1, ConcatEmptySeq
    <3> QED
      BY <1>5, <2>8, <3>1
  <2>10. at[c] = "closing" => calls = <<Stopped(u), Left(u, ch), Bye(u)>>
    BY <1>5, <2>8, JoinedThree
  <2> HIDE DEF T, K, calls, ch
  <2>11. calls # <<>> /\ Head(calls) = Stopped(u)
    BY <1>2, <2>9, <2>10, TwoCalls, ThreeCalls DEF Active, Open
  <2>12. ~ReadingList(calls) /\ calls # <<Call("disconnect")>>
    <3>1. Head(calls).op = "broadcast"
      BY <2>11 DEF Stopped, Broadcast
    <3>2. calls # <<Call("disconnect")>>
      BY <3>1, OneCall DEF Call
    <3> QED
      BY <3>1, <3>2 DEF ReadingList
  <2>13. ASSUME NEW E \in SUBSET Publics, Truth(u) = Shared(E, FALSE)
         PROVE  \A e \in E : e.channel = ch
    <3>1. \A o \in E : \E e \in Shared(E, FALSE) : e.channel = o.channel
      BY SharedFacts, Zenon
    <3> QED
      BY <2>4, <2>13, <3>1
  <2>14. ASSUME Open(c), NEW E, \A e \in E : e.channel = ch
         PROVE  OpenDue(u, E, T, K, calls)
    BY <2>2, <2>4, <2>9, <2>14 DEF OpenDue, Parting
  <2>15. ASSUME at[c] = "closing", NEW E, \A e \in E : e.channel = ch
         PROVE  ClosingDue(u, E, T, calls)
    BY <2>2, <2>4, <2>10, <2>15 DEF ClosingDue, PartingBye
  <2>16. Open(c) => \A k : CredDue(u, k, T, K, calls)
    BY <2>4, <2>9 DEF CredDue, Parting
  <2>17. Open(c) =>
            /\ \A E \in SUBSET Publics :
                    OpenDue(u, E, Truth(u), Current(u), list) => OpenDue(u, E, T, K, calls)
            /\ OpenDue(u, T, T, K, calls)
    BY <1>6, <2>2, <2>13, <2>14
  <2>18. at[c] = "closing" =>
            /\ \A E \in SUBSET Publics :
                    ClosingDue(u, E, Truth(u), list) => ClosingDue(u, E, T, calls)
            /\ ClosingDue(u, T, T, calls)
    BY <1>6, <2>2, <2>13, <2>15
  <2> QED
    BY <1>2, <1>3, <1>8, <2>2, <2>3, <2>8, <2>11, <2>12, <2>16, <2>17, <2>18,
       WorkStep DEF T, K
<1>11. CASE u \notin InCall
  <2>1. UNCHANGED hubVars /\ Done(c, <<>>)
    BY <1>11 DEF DoLeaveVoice
  <2>2. \A w : Truth(w)' = Truth(w) /\ Current(w)' = Current(w)
    BY <2>1, HubStill
  <2>3. Truth(u) = {}
    BY <1>11 DEF Truth
  <2>4. Short(Tail(list))
    BY <1>2, <1>5 DEF Short, Active, Open
  <2>5. calls = Tail(list) /\ todo' = [todo EXCEPT ![c] = calls]
    BY <2>1, <2>4, NothingBefore DEF Done, Shapes
  <2> HIDE DEF calls
  <2>6. ASSUME NEW E \in SUBSET Publics, Truth(u) = Shared(E, FALSE) PROVE E = {}
    BY <2>3, <2>6 DEF Shared
  <2>7. ~ReadingList(calls) /\ calls # <<Call("disconnect")>>
        /\ (at[c] = "closing" => calls # <<>>)
    <3>1. CASE Open(c)
      BY <1>5, <2>5, <3>1, OneCall DEF ReadingList, Open
    <3>2. CASE at[c] = "closing"
      <4>1. calls = <<Bye(u)>>
        BY <1>5, <2>5, <3>2
      <4>2. Head(calls) = Bye(u) /\ calls # <<>> /\ Bye(u).op = "broadcast"
        BY <4>1, OneCall DEF Bye, Broadcast
      <4>3. calls # <<Call("disconnect")>>
        BY <4>2, OneCall DEF Call
      <4> QED
        BY <4>2, <4>3 DEF ReadingList
    <3> QED
      BY <1>2, <3>1, <3>2 DEF Active, Open
  <2>8. Open(c) => \A K0 : OpenDue(u, {}, {}, K0, calls)
    BY <1>5, <2>5 DEF OpenDue
  <2>9. at[c] = "closing" => ClosingDue(u, {}, {}, calls)
    BY <1>5, <2>5 DEF ClosingDue
  <2>10. Open(c) =>
            /\ \A E \in SUBSET Publics :
                    OpenDue(u, E, Truth(u), Current(u), list) => OpenDue(u, E, T, K, calls)
            /\ OpenDue(u, T, T, K, calls)
    BY <1>6, <2>2, <2>3, <2>6, <2>8
  <2>11. at[c] = "closing" =>
            /\ \A E \in SUBSET Publics :
                    ClosingDue(u, E, Truth(u), list) => ClosingDue(u, E, T, calls)
            /\ ClosingDue(u, T, T, calls)
    BY <1>6, <2>2, <2>3, <2>6, <2>9
  <2>12. CredDue(u, mirror[c].creds, Truth(u), Current(u), list) =>
            CredDue(u, mirror[c].creds, T, K, calls)
    BY <1>9, <2>2 DEF CredDue
  <2> HIDE DEF T, K
  <2> QED
    BY <1>2, <1>3, <1>8, <2>2, <2>5, <2>7, <2>10, <2>11, <2>12, WorkStep DEF T, K
<1> QED
  BY <1>10, <1>11

(* Looking whether the account has to leave a call.                        *)
LEMMA CheckStep ==
    ASSUME AgreeInv, TeardownInv, HubInv, NEW c \in Conns, CheckVoice(c)
    PROVE  AgreeInv'
<1> DEFINE u == UserOf[c]
           list == todo[c]
           calls == todo'[c]
<1> USE DEF AgreeInv
<1>1. u \in Users
  BY SessionAssumption
<1>2. /\ list # <<>> /\ Head(list).op = "check_voice" /\ Active(c)
      /\ at[c] = "closing" /\ ~Open(c)
      /\ UNCHANGED <<hubVars, accounts, conns, mirror, missed, asked, at, snap>>
  BY DEF CheckVoice, Doing, Active, Open
<1>3. /\ Due(u, Truth(u)) /\ Truth(u) \subseteq Publics
      /\ asked' \in 0 .. MaxAsks
  BY <1>1, <1>2, TruthTyped DEF VoiceOwed, Shapes
<1>4. ClosingDue(u, Truth(u), Truth(u), list)
  BY <1>2, <1>3, DueByOne
<1>5. Tail(list) = <<Bye(u)>> /\ \A E : ClosingDue(u, E, Truth(u), list) => E = Truth(u)
  BY <1>2, <1>4, StopHeads, ZenonT(60)
<1>6. \A w : Truth(w)' = Truth(w) /\ Current(w)' = Current(w)
  BY <1>2, HubStill
<1>7. /\ calls \in {<<Call("stop_screen"), Bye(u)>>, <<Bye(u)>>}
      /\ todo' = [todo EXCEPT ![c] = calls]
  <2>1. CASE u \in InCall
    <3>1. todo' = [todo EXCEPT ![c] = <<Call("stop_screen")>> \o Tail(@)]
      BY <2>1 DEF CheckVoice, Done
    <3>2. <<Call("stop_screen")>> \o <<Bye(u)>> = <<Call("stop_screen"), Bye(u)>>
      BY Joined
    <3> QED
      BY <1>5, <3>1, <3>2 DEF Shapes
  <2>2. CASE u \notin InCall
    <3>1. todo' = [todo EXCEPT ![c] = <<>> \o Tail(@)]
      BY <2>2 DEF CheckVoice, Done
    <3>2. <<>> \o <<Bye(u)>> = <<Bye(u)>>
      BY Lists
    <3> QED
      BY <1>5, <3>1, <3>2 DEF Shapes
  <2> QED
    BY <2>1, <2>2
<1> HIDE DEF calls
<1>8. calls # <<>> /\ Head(calls).op \in {"stop_screen", "broadcast"}
  <2>1. Call("stop_screen").op = "stop_screen" /\ Bye(u).op = "broadcast"
    BY DEF Call, Bye, Broadcast
  <2>2. CASE calls = <<Call("stop_screen"), Bye(u)>>
    BY <2>1, <2>2, TwoCalls
  <2>3. CASE calls = <<Bye(u)>>
    BY <2>1, <2>3, OneCall
  <2> QED
    BY <1>7, <2>2, <2>3
<1>9. calls # <<Call("disconnect")>> /\ ~ReadingList(calls) /\ ~ReadingList(list)
  <2>1. calls # <<Call("disconnect")>>
    BY <1>8, OneCall DEF Call
  <2> QED
    BY <1>2, <1>8, <2>1 DEF ReadingList
<1>10. \A E : E = Truth(u) => ClosingDue(u, E, Truth(u), calls)
  BY <1>7 DEF ClosingDue
<1> QED
  BY <1>2, <1>3, <1>5, <1>6, <1>7, <1>8, <1>9, <1>10, WorkStep

----------------------------------------------------------------------------
(* Opening and closing.                                                    *)

(* A step in the life of an account's only connection.                     *)
LEMMA LifeStep ==
    ASSUME AgreeInv, NEW c \in Conns, NEW u, u = UserOf[c],
           UNCHANGED <<hubVars, accounts, snap, asked>>,
           at' = [at EXCEPT ![c] = at'[c]], todo' = [todo EXCEPT ![c] = todo'[c]],
           \A d \in Conns \ {c} : /\ mirror'[d] = mirror[d] /\ missed'[d] = missed[d]
                                  /\ d \in conns' <=> d \in conns,
           conns \subseteq Conns, conns' \subseteq Conns,
           \A d \in Own(u) : Active(d) => d = c,
           at'[c] \in {"open", "closing", "closed"}, Open(c)' => c \in conns',
           at'[c] = "closing" /\ todo'[c] = <<Call("disconnect")>> => c \in conns',
           Active(c)' => u \in accounts, ~Doing(c, "read_online")',
           MirrorTyped(mirror'[c]),
           missed'[c] = [voice |-> missed'[c].voice, presence |-> missed'[c].presence],
           \A E : Due(u, E) => E = Truth(u),
           Open(c)' => /\ OpenDue(u, Truth(u), Truth(u), Current(u), todo'[c])
                       /\ Doing(c, "read_users")' /\ mirror'[c].creds = Current(u),
           at'[c] = "closing" => ClosingDue(u, Truth(u), Truth(u), todo'[c]),
           \/ Coming(c)' \/ Going(c)'
           \/ (c \in conns' <=> c \in conns) /\ ~Coming(c) /\ ~Going(c)
    PROVE  AgreeInv'
<1> USE DEF AgreeInv
<1>1. /\ u \in Users /\ c \in Own(u)
      /\ \A w : \A d \in Own(w) : d \in Conns /\ UserOf[d] = w
  BY SessionAssumption DEF Own
<1>2. /\ \A d \in Conns \ {c} : /\ at'[d] = at[d] /\ todo'[d] = todo[d]
                                /\ Open(d)' <=> Open(d)
                                /\ Active(d)' <=> Active(d)
                                /\ Coming(d)' <=> Coming(d)
                                /\ Going(d)' <=> Going(d)
                                /\ \A op : Doing(d, op)' <=> Doing(d, op)
      /\ at' = [d \in Conns |-> at'[d]] /\ todo' = [d \in Conns |-> todo'[d]]
  BY DEF Shapes, Open, Active, Coming, Going, Doing
<1>3. \A w : Truth(w)' = Truth(w) /\ Current(w)' = Current(w)
  BY HubStill
<1>4. Shapes'
  <2>1. \A d \in Conns : MirrorTyped(mirror'[d])
    BY DEF Shapes, MirrorTyped, IsMirror
  <2>2. \A d, e \in Conns :
            Active(d)' /\ Active(e)' /\ UserOf[d] = UserOf[e] => d = e
    BY <1>1, <1>2 DEF Shapes, Own
  <2>3. ASSUME NEW d \in Conns
        PROVE  /\ at'[d] \in {"unopened", "open", "closing", "closed"}
               /\ Open(d)' => d \in conns'
               /\ at'[d] = "closing" /\ todo'[d] = <<Call("disconnect")>>
                    => d \in conns'
               /\ at'[d] = "unopened" => mirror'[d] = Blank
               /\ Active(d)' => UserOf[d] \in accounts'
               /\ Doing(d, "read_online")' => UserOf[d] \in snap'[d].known
               /\ missed'[d] = [voice |-> missed'[d].voice,
                                presence |-> missed'[d].presence]
    <3>1. CASE d = c
      BY <3>1
    <3>2. CASE d # c
      BY <1>2, <3>2, ZenonT(60) DEF Shapes
    <3> QED
      BY <3>1, <3>2
  <2>4. \A d \in Conns :
            /\ mirror'[d] = [known |-> mirror'[d].known, online |-> mirror'[d].online,
                             voice |-> mirror'[d].voice, creds |-> mirror'[d].creds]
            /\ mirror'[d].known \subseteq accounts'
            /\ mirror'[d].online \subseteq Users
            /\ DOMAIN mirror'[d].voice \subseteq Users
    BY <2>1 DEF MirrorTyped, IsMirror
  <2>5. /\ \A d \in Conns :
                /\ snap'[d] = [known |-> snap'[d].known, online |-> snap'[d].online,
                               voice |-> snap'[d].voice]
                /\ snap'[d].known \subseteq accounts'
                /\ snap'[d].online \subseteq Users
                /\ DOMAIN snap'[d].voice \subseteq Users
        /\ accounts' \subseteq Users /\ asked' \in 0 .. MaxAsks
        /\ snap' = [d \in Conns |-> snap'[d]]
    BY DEF Shapes
  <2> HIDE DEF AgreeInv
  <2> QED
    BY <1>2, <2>2, <2>3, <2>4, <2>5 DEF Shapes
<1>5. ASSUME NEW w \in Users, NEW E, Due(w, E) PROVE Due(w, E)'
  <2>1. ASSUME w # u PROVE Due(w, E)'
    <3>1. \A d \in Own(w) : d # c /\ d \in Conns
      BY <1>1, <2>1
    <3> QED
      BY <1>2, <1>3, <1>5, <3>1 DEF Due
  <2>2. ASSUME w = u PROVE Due(w, E)'
    <3>1. E = Truth(u) /\ E \subseteq Publics
      BY <1>5, <2>2 DEF Due
    <3>2. \A d \in Own(u) : d # c => ~Open(d)' /\ at'[d] # "closing" /\ ~Active(d)'
      BY <1>1, <1>2 DEF Active, Open
    <3> QED
      BY <1>3, <2>2, <3>1, <3>2 DEF Due
  <2> QED
    BY <2>1, <2>2
<1>6. VoiceOwed'
  <2>1. ASSUME NEW w \in Users PROVE Due(w, Truth(w))'
    <3>1. \A E : E = Truth(w) => Due(w, E)'
      BY <1>5 DEF VoiceOwed
    <3> QED
      BY <1>3, <3>1 DEF Due
  <2>2. ASSUME NEW d \in Conns, NEW w \in Users, VoiceRead(d)', w \notin missed'[d].voice
        PROVE  Due(w, Entry(Shows(d), w))'
    <3>1. d # c
      BY <2>2 DEF VoiceRead
    <3>2. VoiceRead(d) /\ Shows(d)' = Shows(d) /\ missed'[d] = missed[d]
      BY <1>2, <2>2, <3>1 DEF VoiceRead, Shows
    <3>3. Due(w, Entry(Shows(d), w))
      BY <2>2, <3>2 DEF VoiceOwed
    <3>4. \A E : E = Entry(Shows(d), w) => Due(w, E)'
      BY <1>5, <3>3
    <3> QED
      BY <3>2, <3>4 DEF Due, Entry
  <2> QED
    BY <2>1, <2>2 DEF VoiceOwed
<1>7. CredsOwed'
  <2> SUFFICES ASSUME NEW d \in Conns, Open(d)'
               PROVE  CredDue(UserOf[d], mirror'[d].creds, Truth(UserOf[d]),
                              Current(UserOf[d]), todo'[d])
    BY <1>3 DEF CredsOwed, CredDue
  <2>1. CASE d = c
    BY <2>1 DEF CredDue
  <2>2. CASE d # c
    <3>1. CredDue(UserOf[d], mirror[d].creds, Truth(UserOf[d]),
                              Current(UserOf[d]), todo[d])
      BY <1>2, <2>2 DEF CredsOwed, CredDue
    <3> QED
      BY <1>2, <2>2, <3>1
  <2> QED
    BY <2>1, <2>2
<1>8. ASSUME NEW d \in Conns, OnlineRead(d)'
      PROVE  /\ UserOf[d] \in Onliners(d)' /\ UserOf[d] \in Knows(d)'
             /\ \A w \in Knows(d)' \ missed'[d].presence :
                    (\A b \in Own(w) : ~Coming(b)' /\ ~Going(b)') =>
                        (w \in Onliners(d)' <=> w \in Online')
  <2>1. d # c
    BY <1>8 DEF OnlineRead
  <2>2. /\ OnlineRead(d) /\ Onliners(d)' = Onliners(d) /\ Knows(d)' = Knows(d)
        /\ missed'[d] = missed[d]
    BY <1>2, <1>8, <2>1 DEF OnlineRead, Onliners, Knows, Reading
  <2>3. ASSUME NEW w, \A b \in Own(w) : ~Coming(b)' /\ ~Going(b)'
        PROVE  /\ \A b \in Own(w) : ~Coming(b) /\ ~Going(b)
               /\ w \in Online' <=> w \in Online
    <3>1. CASE w = u
      <4>1. (c \in conns' <=> c \in conns) /\ ~Coming(c) /\ ~Going(c)
        BY <1>1, <2>3, <3>1
      <4> QED
        BY <1>1, <1>2, <2>3, <3>1, <4>1 DEF Online
    <3>2. CASE w # u
      <4>1. \A b \in Own(w) : b # c /\ b \in Conns
        BY <1>1, <3>2
      <4> QED
        BY <1>1, <1>2, <2>3, <3>2, <4>1 DEF Online
    <3> QED
      BY <3>1, <3>2
  <2> QED
    BY <2>2, <2>3 DEF PresenceOwed
<1>9. PresenceOwed'
  BY <1>8 DEF PresenceOwed, Own
<1> QED
  BY <1>4, <1>6, <1>7, <1>9

(* The calls a new connection starts with.                                 *)
LEMMA OpeningList ==
    ASSUME NEW v, NEW w, NEW x, NEW y, NEW z
    PROVE  <<v, w, x, y>> \o <<z>> = <<v, w, x, y, z>>
<1> DEFINE a == <<v, w, x, y>> \o <<z>>
           S == {v, w, x, y, z}
<1>1. <<v, w, x, y>> \in Seq(S) /\ <<z>> \in Seq(S)
  OBVIOUS
<1>2. /\ a \in Seq(S) /\ Len(a) = 5
      /\ a[1] = v /\ a[2] = w /\ a[3] = x /\ a[4] = y /\ a[5] = z
  BY <1>1, ConcatProperties
<1> HIDE DEF a
<1>3. a = <<v, w, x, y, z>>
  BY <1>2
<1> QED
  BY <1>3 DEF a

(* An account without a connection is neither in a call nor online.        *)
LEMMA NobodyThere ==
    ASSUME TeardownInv, NEW u, \A d \in Own(u) : at[d] \in {"unopened", "closed"}
    PROVE  u \notin InCall /\ u \notin Online /\ \A d \in Own(u) : ~Active(d)
<1>1. \A d \in Own(u) : d \in Conns /\ UserOf[d] = u
  BY DEF Own
<1>2. \A d \in Own(u) : todo[d] = <<>> /\ ~Open(d) /\ d \notin conns
  BY <1>1 DEF TeardownInv, Open
<1>3. u \notin InCall
  BY <1>2 DEF TeardownInv, NobodyLeftBehind, Leaving, Doing
<1>4. u \notin Online
  BY <1>2 DEF TeardownInv, Online, Own
<1> QED
  BY <1>3, <1>4 DEF Active

(* A connection opens: its account is offline, in no call and shown in     *)
(* none, and Ready is what comes next.                                     *)
LEMMA ConnectStep ==
    ASSUME ~Overlapping, AgreeInv, TeardownInv, HubInv, NEW c \in Conns, Connect(c)
    PROVE  AgreeInv'
<1> USE DEF AgreeInv
<1> DEFINE u == UserOf[c]
           calls == todo'[c]
<1>1. /\ u \in Users /\ u \in accounts /\ at[c] = "unopened"
      /\ \A d \in Own(u) : at[d] \in {"unopened", "closed"}
      /\ UNCHANGED <<hubVars, accounts, snap, mirror, missed, asked>>
      /\ conns' = conns \cup {c}
  BY SessionAssumption DEF Connect
<1>2. u \notin InCall /\ u \notin Online /\ \A d \in Own(u) : ~Active(d)
  BY <1>1, NobodyThere
<1>3. todo' = [todo EXCEPT ![c] =
            <<Call("read_users"), Call("read_online"), Call("read_voice"),
              Call("ready")>> \o <<Hi(u)>>]
  BY <1>2 DEF Connect, IsFirst, Hi
<1>4. /\ calls = <<Call("read_users"), Call("read_online"), Call("read_voice"),
                   Call("ready"), Hi(u)>>
      /\ todo' = [todo EXCEPT ![c] = calls]
      /\ at'[c] = "open" /\ at' = [at EXCEPT ![c] = at'[c]]
  <2>1. \A x : [todo EXCEPT ![c] = x][c] = x
    BY DEF Shapes
  <2>2. /\ todo' = [todo EXCEPT ![c] = <<Call("read_users"), Call("read_online"),
                                         Call("read_voice"), Call("ready"), Hi(u)>>]
        /\ at' = [at EXCEPT ![c] = "open"]
    <3>1. \A v, w, x, y, z : <<v, w, x, y>> \o <<z>> = <<v, w, x, y, z>>
      BY OpeningList
    <3>2. at' = [at EXCEPT ![c] = "open"]
      BY DEF Connect
    <3> QED
      BY <1>3, <3>1, <3>2, Zenon
  <2>3. /\ at'[c] = "open" /\ at' = [at EXCEPT ![c] = at'[c]]
    BY <2>2 DEF Shapes
  <2> QED
    BY <2>1, <2>2, <2>3
<1> HIDE DEF calls
<1>5. /\ calls \in Opening(u) /\ calls # <<>> /\ Head(calls).op = "read_users"
  BY <1>4, FiveCalls DEF Opening, Call
<1>6. Truth(u) = {} /\ Current(u) = NoCreds
  BY <1>2 DEF Truth, Current
<1>7. OpenDue(u, Truth(u), Truth(u), Current(u), calls)
  BY <1>5 DEF OpenDue
<1>8. ~Coming(c) /\ Coming(c)' /\ Open(c)' /\ Active(c)'
  BY <1>1, <1>4, <1>5 DEF Coming, Open, Active, calls
<1>9. Doing(c, "read_users")' /\ ~Doing(c, "read_online")'
  BY <1>4, <1>5 DEF Doing, calls
<1>10. mirror'[c] = Blank /\ MirrorTyped(mirror'[c]) /\ mirror'[c].creds = NoCreds
  <2>1. mirror'[c] = Blank
    BY <1>1 DEF Shapes
  <2>2. IsMirror(mirror'[c]) /\ mirror'[c].known = {} /\ mirror'[c].online = {}
        /\ DOMAIN mirror'[c].voice = {} /\ mirror'[c].creds = NoCreds
    BY <2>1 DEF IsMirror, Blank, Empty
  <2> QED
    BY <2>1, <2>2 DEF MirrorTyped
<1>11. /\ conns \subseteq Conns /\ conns' \subseteq Conns /\ c \in conns'
       /\ \A d \in Conns \ {c} : d \in conns' <=> d \in conns
  BY <1>1 DEF TeardownInv
<1>12. \A E : Due(u, E) => E = Truth(u)
  BY <1>2 DEF Due
<1>13. missed'[c] = [voice |-> missed'[c].voice, presence |-> missed'[c].presence]
  BY <1>1 DEF Shapes
<1> HIDE DEF u, AgreeInv
<1>14. AgreeInv
  OBVIOUS
<1> QED
  BY <1>1, <1>2, <1>4, <1>6, <1>7, <1>8, <1>9, <1>10, <1>11, <1>12, <1>13, <1>14,
     LifeStep DEF u, calls

\* There is a mirror for each connection.
Tables == DOMAIN mirror = Conns /\ DOMAIN missed = Conns

(* A client hangs up, with nothing owed to it, and forgets what it knew.   *)
LEMMA HangUpStep ==
    ASSUME AgreeInv, TeardownInv, HubInv, Tables, NEW c \in Conns, HangUp(c)
    PROVE  AgreeInv'
<1> USE DEF AgreeInv
<1> DEFINE u == UserOf[c]
<1>1. /\ Open(c) /\ todo[c] = <<>> /\ Active(c) /\ u \in Users
      /\ at'[c] = "closing" /\ at' = [at EXCEPT ![c] = at'[c]]
      /\ todo'[c] = <<Call("disconnect")>> /\ todo' = [todo EXCEPT ![c] = todo'[c]]
      /\ UNCHANGED <<hubVars, accounts, conns, snap, asked>>
  BY SessionAssumption DEF HangUp, Idling, Open, Active, Shapes
<1>2. /\ \A d \in Conns \ {c} : mirror'[d] = mirror[d] /\ missed'[d] = missed[d]
      /\ conns \subseteq Conns /\ c \in conns /\ u \in accounts
      /\ \A d \in Own(u) : Active(d) => d = c
  BY <1>1, SessionAssumption DEF HangUp, Shapes, TeardownInv, Own, Tables
<1>3. /\ MirrorTyped(mirror'[c])
      /\ missed'[c] = [voice |-> missed'[c].voice, presence |-> missed'[c].presence]
  <2>1. mirror'[c] = Blank /\ missed'[c] = NothingMissed
    BY DEF HangUp, Tables
  <2>5. IsMirror(Blank) /\ Blank.known = {} /\ Blank.online = {}
        /\ DOMAIN Blank.voice = {}
    BY DEF IsMirror, Blank, Empty
  <2>6. MirrorTyped(Blank)
    BY <2>5 DEF MirrorTyped
  <2>7. NothingMissed = [voice |-> NothingMissed.voice,
                         presence |-> NothingMissed.presence]
    BY DEF NothingMissed
  <2> QED
    BY <2>1, <2>6, <2>7
<1>4. ClosingDue(u, Truth(u), Truth(u), todo'[c])
  BY <1>1 DEF ClosingDue
<1>5. \A E : Due(u, E) => E = Truth(u)
  BY <1>1, DueByOne, NothingOwed
<1>6. ~Coming(c) /\ ~Going(c) /\ ~Open(c)' /\ ~Doing(c, "read_online")'
  <2>1. ~Coming(c) /\ ~Going(c) /\ ~Open(c)'
    BY <1>1, NothingOwed DEF Coming, Going, Open
  <2> QED
    BY <1>1, <2>1, OneCall DEF Doing, Call
<1> HIDE DEF u, AgreeInv
<1>7. AgreeInv
  OBVIOUS
<1> QED
  BY <1>1, <1>2, <1>3, <1>4, <1>5, <1>6, <1>7, LifeStep DEF u

(* What is owed before a disconnect: nothing.                              *)
LEMMA DisconnectHeads ==
    ASSUME NEW u, NEW E, NEW T, ClosingDue(u, E, T, <<Call("disconnect")>>)
    PROVE  E = T
<1> DEFINE list == <<Call("disconnect")>>
<1>1. list # <<>> /\ Head(list).op = "disconnect"
  BY OneCall DEF Call
<1> HIDE DEF list
<1>2. /\ \A g : Broadcast(g).op = "broadcast"
      /\ \A b : Leave(b).op = "leave_voice"
  BY DEF Broadcast, Leave
<1>3. ASSUME NEW ch, ClosingParts(u, ch, list) PROVE FALSE
  BY <1>1, <1>2, <1>3 DEF ClosingParts, Left, Stopped
<1>4. ASSUME \E b : Head(list) = Leave(b) PROVE FALSE
  BY <1>1, <1>2, <1>4
<1>5. ClosingHead(u, E, T, list)
  BY <1>1, ClosingDueHeads DEF list
<1> QED
  BY <1>3, <1>4, <1>5, Zenon DEF ClosingHead

(* The hub forgets the connection: it was its account's last.              *)
LEMMA DisconnectStep ==
    ASSUME AgreeInv, TeardownInv, HubInv, NEW c \in Conns, Disconnect(c)
    PROVE  AgreeInv'
<1> USE DEF AgreeInv
<1> DEFINE u == UserOf[c]
           calls == todo'[c]
<1>1. /\ at[c] = "closing" /\ Active(c) /\ u \in Users /\ ~Open(c)
      /\ todo[c] # <<>> /\ Head(todo[c]).op = "disconnect"
      /\ conns' = conns \ {c}
      /\ UNCHANGED <<hubVars, accounts, mirror, missed, asked, at, snap>>
  BY SessionAssumption DEF Disconnect, Doing, Active, Open
<1>2. todo[c] = <<Call("disconnect")>>
  BY <1>1, ClosingHeads DEF TeardownInv
<1>3. /\ c \in conns /\ conns \subseteq Conns /\ u \in accounts
      /\ \A d \in Own(u) : Active(d) => d = c
  BY <1>1, <1>2, SessionAssumption DEF Shapes, TeardownInv, Own
<1>4. IsLast(c)
  <2>1. ASSUME NEW d \in conns \ {c}, UserOf[d] = UserOf[c] PROVE FALSE
    BY <1>3, <2>1 DEF TeardownInv, Own, Active, Open
  <2> QED
    BY <2>1 DEF IsLast
<1>5. todo' = [todo EXCEPT ![c] = <<Call("check_voice"), Bye(u)>> \o Tail(@)]
  BY <1>4 DEF Disconnect, Done, Bye
<1>6. <<Call("check_voice"), Bye(u)>> \o <<>> = <<Call("check_voice"), Bye(u)>>
  <2>1. \A x, y : <<x, y>> \in Seq({x, y})
    OBVIOUS
  <2> QED
    BY <2>1, ConcatEmptySeq
<1>7. /\ calls = <<Call("check_voice"), Bye(u)>> /\ todo' = [todo EXCEPT ![c] = calls]
      /\ at' = [at EXCEPT ![c] = at'[c]]
  BY <1>1, <1>2, <1>5, <1>6, OneCall, ZenonT(60) DEF Shapes
<1> HIDE DEF calls
<1>8. calls # <<>> /\ Head(calls).op = "check_voice" /\ calls # <<Call("disconnect")>>
  <2>1. calls # <<>> /\ Head(calls).op = "check_voice"
    BY <1>7, TwoCalls DEF Call
  <2> QED
    BY <2>1, OneCall DEF Call
<1>9. ClosingDue(u, Truth(u), Truth(u), calls)
  BY <1>7 DEF ClosingDue
<1>10. Going(c)' /\ ~Open(c)' /\ ~Doing(c, "read_online")'
  BY <1>1, <1>8 DEF Going, Open, Doing, calls
<1>11. \A E : Due(u, E) => E = Truth(u)
  BY <1>1, <1>2, DueByOne, DisconnectHeads
<1>12. /\ MirrorTyped(mirror'[c])
       /\ missed'[c] = [voice |-> missed'[c].voice, presence |-> missed'[c].presence]
  BY <1>1 DEF Shapes, MirrorTyped, IsMirror
<1> HIDE DEF u, AgreeInv
<1>13. AgreeInv
  OBVIOUS
<1> QED
  BY <1>1, <1>3, <1>7, <1>8, <1>9, <1>10, <1>11, <1>12, <1>13, LifeStep DEF u, calls

(* The teardown is over.                                                   *)
LEMMA CloseStep ==
    ASSUME AgreeInv, TeardownInv, HubInv, NEW c \in Conns, Close(c)
    PROVE  AgreeInv'
<1> USE DEF AgreeInv
<1> DEFINE u == UserOf[c]
<1>1. /\ at[c] = "closing" /\ Active(c) /\ u \in Users /\ ~Open(c)
      /\ todo[c] = <<>> /\ at'[c] = "closed"
      /\ at' = [at EXCEPT ![c] = at'[c]] /\ todo' = [todo EXCEPT ![c] = todo'[c]]
      /\ UNCHANGED <<hubVars, accounts, conns, todo, snap, mirror, missed, asked>>
  BY SessionAssumption DEF Close, Active, Open, Shapes
<1>2. /\ conns \subseteq Conns /\ \A d \in Own(u) : Active(d) => d = c
  BY <1>1, SessionAssumption DEF Shapes, TeardownInv, Own
<1>3. ~Open(c)' /\ ~Active(c)' /\ ~Doing(c, "read_online")'
  BY <1>1 DEF Open, Active, Doing
<1>4. ~Coming(c) /\ ~Going(c)
  BY <1>1 DEF Coming, Going
<1>5. \A E : Due(u, E) => E = Truth(u)
  BY <1>1, DueByOne, NothingOwed
<1>6. /\ MirrorTyped(mirror'[c])
      /\ missed'[c] = [voice |-> missed'[c].voice, presence |-> missed'[c].presence]
  BY <1>1 DEF Shapes, MirrorTyped, IsMirror
<1> HIDE DEF u, AgreeInv
<1>7. AgreeInv
  OBVIOUS
<1> QED
  BY <1>1, <1>2, <1>3, <1>4, <1>5, <1>6, <1>7, LifeStep DEF u

(* Somebody registers, and is nowhere yet.                                 *)
LEMMA RegisterStep ==
    ASSUME AgreeInv, NEW w \in Users, Register(w)
    PROVE  AgreeInv'
<1> USE DEF AgreeInv
<1>1. /\ accounts' = accounts \cup {w}
      /\ UNCHANGED <<hubVars, conns, at, todo, snap, mirror, missed, asked>>
  BY DEF Register
<1>2. \A v : Truth(v)' = Truth(v) /\ Current(v)' = Current(v)
  BY <1>1, HubStill
<1>3. Shapes'
  BY <1>1 DEF Shapes, Active, Open, Doing
<1>4. ASSUME NEW v \in Users, NEW E, Due(v, E) PROVE Due(v, E)'
  BY <1>1, <1>2, <1>4 DEF Due, Own, Open, Active
<1>5. VoiceOwed'
  <2>1. ASSUME NEW v \in Users PROVE Due(v, Truth(v))'
    <3>1. \A E : E = Truth(v) => Due(v, E)'
      BY <1>4 DEF VoiceOwed
    <3> QED
      BY <1>2, <3>1 DEF Due
  <2>2. ASSUME NEW d \in Conns, NEW v \in Users, VoiceRead(d)', v \notin missed'[d].voice
        PROVE  Due(v, Entry(Shows(d), v))'
    <3>1. VoiceRead(d) /\ Shows(d)' = Shows(d) /\ missed'[d] = missed[d]
      BY <1>1, <2>2 DEF VoiceRead, Shows, Open, Doing
    <3>2. Due(v, Entry(Shows(d), v))
      BY <2>2, <3>1 DEF VoiceOwed
    <3>3. \A E : E = Entry(Shows(d), v) => Due(v, E)'
      BY <1>4, <3>2
    <3> QED
      BY <3>1, <3>3 DEF Due, Entry
  <2> QED
    BY <2>1, <2>2 DEF VoiceOwed
<1>6. CredsOwed'
  BY <1>1, <1>2 DEF CredsOwed, Open
<1>7. PresenceOwed'
  BY <1>1 DEF PresenceOwed, OnlineRead, Onliners, Knows, Reading, Coming, Going,
     Open, Doing, Online, Own
<1> QED
  BY <1>3, <1>5, <1>6, <1>7

----------------------------------------------------------------------------
(* What clients show is what the server holds.                             *)

(* Every step keeps what is owed, while accounts have one connection at a  *)
(* time.                                                                   *)
LEMMA AgreeStep ==
    ASSUME ~Overlapping, AgreeInv, TeardownInv, HubInv, HubInv', Tables,
           [SessionNext]_vars
    PROVE  AgreeInv'
<1>1. ASSUME NEW c \in Conns, Proceed(c) PROVE AgreeInv'
  <2>1. ASSUME DoBroadcast(c) \/ DoToOthers(c) \/ DoToSelf(c) PROVE AgreeInv'
    BY <2>1, SendStep
  <2>2. ASSUME ReadUsers(c) \/ ReadOnline(c) \/ ReadVoice(c) \/ SendReady(c)
        PROVE  AgreeInv'
    BY <2>2, SnapshotStep
  <2>3. ASSUME DoStopScreen(c) PROVE AgreeInv'
    BY <2>3, StopStep
  <2>4. ASSUME DoLeaveVoice(c) PROVE AgreeInv'
    BY <2>4, LeaveStep
  <2>5. ASSUME Disconnect(c) PROVE AgreeInv'
    BY <2>5, DisconnectStep
  <2>6. ASSUME CheckVoice(c) PROVE AgreeInv'
    BY <2>6, CheckStep
  <2>7. ASSUME Close(c) PROVE AgreeInv'
    BY <2>7, CloseStep
  <2> QED
    BY <1>1, <2>1, <2>2, <2>3, <2>4, <2>5, <2>6, <2>7 DEF Proceed
<1>2. ASSUME NEW c \in Conns, Connect(c) PROVE AgreeInv'
  BY <1>2, ConnectStep
<1>3. ASSUME NEW c \in Conns, Request(c) PROVE AgreeInv'
  BY <1>3, RequestStep
<1>4. ASSUME NEW c \in Conns, HangUp(c) PROVE AgreeInv'
  BY <1>4, HangUpStep
<1>5. ASSUME NEW u \in Users, Register(u) PROVE AgreeInv'
  BY <1>5, RegisterStep
<1>6. ASSUME UNCHANGED vars PROVE AgreeInv'
  <2>1. \A v : Truth(v)' = Truth(v) /\ Current(v)' = Current(v)
    BY <1>6, HubStill DEF vars
  <2>2. Shapes' /\ CredsOwed' /\ PresenceOwed'
    BY <1>6, <2>1, ZenonT(60) DEF vars, sessionVars, AgreeInv, Shapes, CredsOwed, PresenceOwed,
       Active, Open, Doing, OnlineRead, Onliners, Knows, Reading, Coming, Going, Online
  <2>3. \A v, E : Due(v, E) => Due(v, E)'
    BY <1>6, <2>1 DEF vars, sessionVars, Due, Active, Open
  <2>4. VoiceOwed'
    <3>1. ASSUME NEW v \in Users PROVE Due(v, Truth(v))'
      <4>1. \A E : E = Truth(v) => Due(v, E)'
        BY <2>3 DEF AgreeInv, VoiceOwed
      <4> QED
        BY <2>1, <4>1 DEF Due
    <3>2. ASSUME NEW d \in Conns, NEW v \in Users, VoiceRead(d)',
                 v \notin missed'[d].voice
          PROVE  Due(v, Entry(Shows(d), v))'
      <4>1. VoiceRead(d) /\ Shows(d)' = Shows(d) /\ missed'[d] = missed[d]
        BY <1>6, <3>2 DEF vars, sessionVars, VoiceRead, Shows, Open, Doing
      <4>2. Due(v, Entry(Shows(d), v))
        BY <3>2, <4>1 DEF AgreeInv, VoiceOwed
      <4>3. \A E : E = Entry(Shows(d), v) => Due(v, E)'
        BY <2>3, <4>2
      <4> QED
        BY <4>1, <4>3 DEF Due, Entry
    <3> QED
      BY <3>1, <3>2 DEF VoiceOwed
  <2> QED
    BY <2>2, <2>4 DEF AgreeInv
<1> QED
  BY <1>1, <1>2, <1>3, <1>4, <1>5, <1>6 DEF SessionNext

(* There is a mirror for each connection after every step.                 *)
LEMMA TablesStep == Tables /\ [SessionNext]_vars => Tables'
<1> SUFFICES ASSUME Tables, [SessionNext]_vars PROVE Tables'
  OBVIOUS
<1> USE DEF Tables
<1>1. ASSUME NEW c \in Conns, Proceed(c) PROVE Tables'
  <2>1. ASSUME DoBroadcast(c) \/ DoToOthers(c) \/ DoToSelf(c) \/ SendReady(c)
        PROVE  Tables'
    BY <2>1 DEF DoBroadcast, DoToOthers, DoToSelf, SendReady, Deliver
  <2>2. ASSUME UNCHANGED <<mirror, missed>> PROVE Tables'
    BY <2>2
  <2> QED
    BY <1>1, <2>1, <2>2 DEF Proceed, ReadUsers, ReadOnline, ReadVoice, DoStopScreen,
       DoLeaveVoice, Disconnect, CheckVoice, Close
<1>2. ASSUME NEW c \in Conns, Connect(c) \/ Request(c) PROVE Tables'
  BY <1>2 DEF Connect, Request, AskJoinVoice, AskLeaveVoice, AskVoiceFlags,
     AskStartScreen, AskStopScreen, AskWatch, AskUnwatch, AskDisplayName, Asks
<1>3. ASSUME NEW c \in Conns, HangUp(c) PROVE Tables'
  BY <1>3 DEF HangUp
<1>4. ASSUME (\E u \in Users : Register(u)) \/ UNCHANGED vars PROVE Tables'
  BY <1>4 DEF Register, vars, sessionVars
<1> QED
  BY <1>1, <1>2, <1>3, <1>4 DEF SessionNext

(* Nothing is owed at the start.                                           *)
LEMMA AgreeStart == SessionInit => AgreeInv /\ Tables
<1> SUFFICES ASSUME SessionInit PROVE AgreeInv /\ Tables
  OBVIOUS
<1>1. /\ InCall = {} /\ accounts \subseteq Users /\ conns = {} /\ asked = 0
      /\ at = [c \in Conns |-> "unopened"] /\ todo = [c \in Conns |-> <<>>]
      /\ snap = [c \in Conns |-> NoSnap] /\ mirror = [c \in Conns |-> Blank]
      /\ missed = [c \in Conns |-> NothingMissed]
  BY DEF SessionInit, HubInit, InCall
<1>2. \A c \in Conns : /\ at[c] = "unopened" /\ ~Open(c) /\ ~Active(c)
                       /\ \A op : ~Doing(c, op)
  BY <1>1 DEF Open, Active, Doing
<1>3. /\ Blank = [known |-> Blank.known, online |-> Blank.online,
                  voice |-> Blank.voice, creds |-> Blank.creds]
      /\ Blank.known = {} /\ Blank.online = {} /\ DOMAIN Blank.voice = {}
      /\ NothingMissed = [voice |-> NothingMissed.voice,
                          presence |-> NothingMissed.presence]
      /\ NoSnap = [known |-> NoSnap.known, online |-> NoSnap.online,
                   voice |-> NoSnap.voice]
      /\ NoSnap.known = {} /\ NoSnap.online = {} /\ DOMAIN NoSnap.voice = {}
  BY DEF Blank, NothingMissed, NoSnap, Empty
<1>4. \A c \in Conns : mirror[c] = Blank /\ missed[c] = NothingMissed /\ snap[c] = NoSnap
  BY <1>1
<1>5. Shapes
  BY <1>1, <1>2, <1>3, <1>4, SessionAssumption DEF Shapes
<1>6. \A u \in Users : Truth(u) = {}
  BY <1>1 DEF Truth
<1>7. VoiceOwed
  BY <1>2, <1>6 DEF VoiceOwed, Due, VoiceRead, Own
<1>8. CredsOwed /\ PresenceOwed
  BY <1>2 DEF CredsOwed, PresenceOwed, OnlineRead
<1> QED
  BY <1>1, <1>5, <1>7, <1>8 DEF AgreeInv, Tables

(* What clients show is owed in every reachable state.                     *)
LEMMA AgreeAlways == ~Overlapping => (SessionSpec => [](AgreeInv /\ TeardownInv))
<1> SUFFICES ASSUME ~Overlapping PROVE SessionSpec => [](AgreeInv /\ TeardownInv)
  OBVIOUS
<1>1. SessionSpec => []TeardownInv
  BY SessionHubInvariant, TeardownStart, TeardownStep, PTL DEF SessionSpec
<1>2. SessionSpec => []Tables
  BY AgreeStart, TablesStep, PTL DEF SessionSpec
<1>3. /\ AgreeInv /\ TeardownInv /\ HubInv /\ HubInv' /\ Tables /\ [SessionNext]_vars
      => AgreeInv'
  BY AgreeStep
<1> QED
  BY <1>1, <1>2, <1>3, AgreeStart, SessionHubInvariant, PTL DEF SessionSpec

(* An account whose handlers are quiet is shown as it is.                  *)
LEMMA QuietOwed ==
    ASSUME AgreeInv, NEW u \in Users, Quiet(u), NEW E, Due(u, E)
    PROVE  E = Truth(u)
<1>1. CASE \A c \in Own(u) : ~Active(c)
  BY <1>1 DEF Due
<1>2. ASSUME NEW c \in Own(u), Active(c) PROVE E = Truth(u)
  <2>1. todo[c] = <<>>
    BY <1>2 DEF Quiet
  <2>2. /\ Open(c) => OpenDue(u, E, Truth(u), Current(u), <<>>)
        /\ at[c] = "closing" => ClosingDue(u, E, Truth(u), <<>>)
    BY <1>2, <2>1 DEF Due
  <2> QED
    BY <1>2, <2>2, NothingOwed DEF Active, Open
<1> QED
  BY <1>1, <1>2

(* When nothing is owed clients agree with the server.                     *)
LEMMA OwedAgrees ==
    ASSUME AgreeInv, TeardownInv PROVE ClientsAgree /\ CredentialsCurrent
<1> USE DEF AgreeInv
<1>1. SessionTypeOK
  BY DEF Shapes, TeardownInv, SessionTypeOK, Open
<1>2. \A d \in Conns : Settled(d) =>
            /\ VoiceRead(d) /\ OnlineRead(d) /\ ~Reading(d) /\ ~Doing(d, "ready")
  BY DEF Settled, VoiceRead, OnlineRead, Reading
<1>3. RosterAgrees
  <2> SUFFICES ASSUME NEW d \in Conns, NEW u \in Users \ missed[d].voice,
                      Settled(d), Quiet(u)
               PROVE  SeesVoice(d, u)
    BY DEF RosterAgrees
  <2>1. Shows(d) = mirror[d].voice
    BY <1>2 DEF Shows
  <2>2. Due(u, Entry(Shows(d), u))
    BY <1>2 DEF VoiceOwed
  <2>3. Entry(mirror[d].voice, u) = Truth(u)
    BY <2>1, <2>2, QuietOwed
  <2> QED
    BY <2>3 DEF Entry, Truth, SeesVoice
<1>4. PresenceAgrees
  <2> SUFFICES ASSUME NEW d \in Conns, NEW u \in mirror[d].known \ missed[d].presence,
                      Settled(d), Quiet(u)
               PROVE  u \in mirror[d].online <=> u \in Online
    BY DEF PresenceAgrees
  <2>1. Knows(d) = mirror[d].known /\ Onliners(d) = mirror[d].online
    BY <1>2 DEF Knows, Onliners
  <2>2. \A c \in Own(u) : ~Coming(c) /\ ~Going(c)
    BY NothingOwed DEF Quiet, Coming, Going
  <2> QED
    BY <1>2, <2>1, <2>2 DEF PresenceOwed
<1>5. CredentialsCurrent
  <2> SUFFICES ASSUME NEW c \in Conns, Settled(c), Quiet(UserOf[c])
               PROVE  mirror[c].creds = Current(UserOf[c])
    BY DEF CredentialsCurrent, Current
  <2>1. Open(c) /\ todo[c] = <<>>
    BY DEF Settled, Quiet, Own
  <2>2. CredDue(UserOf[c], mirror[c].creds, Truth(UserOf[c]), Current(UserOf[c]), <<>>)
    BY <2>1 DEF CredsOwed, CredDue
  <2> QED
    BY <2>2, NothingOwed
<1> QED
  BY <1>1, <1>3, <1>4, <1>5 DEF ClientsAgree

(* Applying frames blindly is enough: while accounts have one connection   *)
(* at a time, every client shows of each account, once its handlers are    *)
(* quiet, what the server holds, but for frames its Ready overtook.        *)
THEOREM SessionClientsAgree == ~Overlapping => (SessionSpec => []ClientsAgree)
<1>1. AgreeInv /\ TeardownInv => ClientsAgree
  BY OwedAgrees
<1> QED
  BY <1>1, AgreeAlways, PTL

(* A client whose account joins, switches or leaves a call holds exactly   *)
(* the credentials of the membership it ends up with.                      *)
THEOREM SessionCredentialsCurrent ==
    ~Overlapping => (SessionSpec => []CredentialsCurrent)
<1>1. AgreeInv /\ TeardownInv => CredentialsCurrent
  BY OwedAgrees
<1> QED
  BY <1>1, AgreeAlways, PTL

============================================================================

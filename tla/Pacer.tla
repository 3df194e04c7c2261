-------------------------------- MODULE Pacer --------------------------------
(***************************************************************************)
(* Pacer of crates/boa-client/src/screen/send.rs: a picture's datagrams    *)
(* leave at half again the bitrate aimed at rather than in one burst.      *)
(* Times are nanoseconds, and only how far apart they are is kept.         *)
(***************************************************************************)
EXTENDS Integers

CONSTANTS
    Rates,          \* bitrates aimed at, in kbit/s
    Datagrams,      \* sizes of datagrams, in bytes
    Pauses,         \* how long encoding the next picture may take
    Lates,          \* how much longer than asked a sleep may take
    MaxDatagrams,   \* bound on the datagrams sent
    MaxIdle         \* an idle time longer than this is as good as this

ASSUME PacerAssumption ==
    /\ Rates \subseteq Nat /\ Datagrams \subseteq Nat /\ Pauses \subseteq Nat
    /\ Lates \subseteq Nat /\ MaxDatagrams \in Nat /\ MaxIdle \in Nat
    /\ \E late \in Lates : \A other \in Lates : other <= late

VARIABLES
    due,        \* Pacer.next, from now on; not after now when it is negative
    perByte,    \* Pacer.per_byte
    datagrams,  \* datagrams sent so far
    charge,     \* what the last one cost
    backlog     \* what lies in a buffer on the way that drains at the pacer's
                \*   rate, as the time it takes to drain (history)

pacerVars == <<due, perByte, datagrams, charge, backlog>>

Larger(a, b) == IF a < b THEN b ELSE a

\* Pacer::per_byte: 8 * 10^9 over the bits a second, which are 1500 kbps or the
\* floor of three million.
PerByte(kbps) == Larger(16000000 \div Larger(kbps * 3, 6000), 1)

\* Waits shorter than this are not worth a sleep: a hundred microseconds.
Skipped == 100000

MaxLate == CHOOSE late \in Lates : \A other \in Lates : other <= late

\* The next picture, d later, at what the rate is by then: aim_at.
NextPicture(d, kbps) ==
    /\ perByte' = PerByte(kbps)
    /\ due' = Larger(due - d, -MaxIdle)
    /\ backlog' = Larger(backlog - d, 0)
    /\ UNCHANGED <<datagrams, charge>>

\* Behind schedule, it starts again from now.
StartFrom(ahead) == Larger(ahead, 0)

\* Pacer::take, and the datagram is sent.
TakeTurn(bytes) ==
    \E late \in Lates :
        LET slept == IF due > Skipped THEN due + late ELSE 0 IN
        /\ datagrams < MaxDatagrams
        /\ datagrams' = datagrams + 1
        /\ charge' = perByte * bytes
        /\ due' = StartFrom(due) + charge' - slept
        /\ backlog' = Larger(backlog - slept, 0) + charge'
        /\ UNCHANGED perByte

PacerInit ==
    /\ due = 0 /\ datagrams = 0 /\ charge = 0 /\ backlog = 0
    /\ perByte \in {PerByte(kbps) : kbps \in Rates}

PacerNext ==
    \/ \E d \in Pauses, kbps \in Rates : NextPicture(d, kbps)
    \/ \E bytes \in Datagrams : TakeTurn(bytes)

PacerSpec == PacerInit /\ [][PacerNext]_pacerVars

(* A buffer on the way that drains at the pacer's rate never holds more    *)
(* than the last datagram and what a skipped wait and one late sleep let   *)
(* through: no idle time and no change of the rate makes a burst.          *)
(* (Pacer::take)                                                           *)
NoBurst == backlog <= charge + Skipped + MaxLate

=============================================================================

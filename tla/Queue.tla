------------------------------- MODULE Queue -------------------------------
(***************************************************************************)
(* What the audio threads want of crates/boa-client/src/audio/ring.rs: a   *)
(* bounded queue of samples between two threads.  Samples are numbered in  *)
(* the order they are accepted, so what is in the queue is told by two     *)
(* counters, and the order and number of what comes out by its values.     *)
(***************************************************************************)
EXTENDS Integers

CONSTANT Room  \* samples the queue holds at most

VARIABLES
    entered,   \* samples that have entered the queue
    left,      \* samples that have left it, delivered or discarded
    delivered  \* what the last pop handed to its caller

queueVars == <<entered, left, delivered>>

QueueInit == entered = 0 /\ left = 0 /\ delivered = <<>>

\* Samples enter, and never more than there is room for.
Enter ==
    /\ entered' \in entered .. (left + Room)
    /\ UNCHANGED <<left, delivered>>

\* The oldest samples are delivered, each once and in order.
Deliver ==
    \E n \in 0 .. (entered - left) :
        /\ delivered' = [j \in 1 .. n |-> left + j - 1]
        /\ left' = left + n
        /\ UNCHANGED entered

\* The oldest samples are discarded.
Discard ==
    \E n \in 0 .. (entered - left) :
        /\ left' = left + n
        /\ UNCHANGED <<entered, delivered>>

QueueNext == Enter \/ Deliver \/ Discard

QueueSpec == QueueInit /\ [][QueueNext]_queueVars

============================================================================

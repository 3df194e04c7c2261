------------------------------ MODULE MCServer ------------------------------
(* Small instances, for TLC, of what connections bring about: who is where  *)
(* (Session), and the messages of a channel with the logs that clients keep *)
(* of them (Chat).  They share no state: in each behaviour one runs and the *)
(* other rests.                                                             *)
EXTENDS MCSession, Chat

CONSTANTS a, b, ada, eve

VARIABLE part

\* Two devices of one account.
MCAccountOf == [c \in Clients |-> ada]
\* Another account wrote the newer of the two messages there were before.
MCBefore == <<ada, eve>>
\* Two new messages can cross: the handler of the older may be the later to speak.
MCBudget == [thing \in Things |-> IF thing = "send" THEN 2 ELSE 1]

MCInit == SessionInit /\ ChatInit /\ part \in {"session", "chat"}

MCNext ==
    \/ /\ part = "session" /\ SessionNext
       /\ UNCHANGED <<part, chatVars>>
    \/ /\ part = "chat" /\ ChatNext
       /\ UNCHANGED <<part, vars>>

MCSpec == MCInit /\ [][MCNext]_<<part, vars, chatVars>>

=============================================================================

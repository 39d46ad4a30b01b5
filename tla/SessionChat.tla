---------------------------- MODULE SessionChat -----------------------------
(* What the daemon promises of a chat session: a run hears everything said   *)
(* in the session so far and, when it speaks, it speaks directly after what  *)
(* it heard: nobody spoke in between and nothing was forgotten.  Summaries   *)
(* are invisible here: a summary says what it was made from.                 *)
CONSTANTS Sessions, Runs

VARIABLES
    chats,  \* the sessions that exist
    said,   \* what was said in each
    heard   \* what a run in progress was given: {} or one set of messages

chatVars == <<chats, said, heard>>

Init ==
    /\ chats = {}
    /\ said = [s \in Sessions |-> {}]
    /\ heard = [r \in Runs |-> {}]

Open(s) ==
    /\ chats' = chats \cup {s}
    /\ said' = [said EXCEPT ![s] = {}]
    /\ UNCHANGED heard

Forget(s) ==
    /\ chats' = chats \ {s}
    /\ said' = [said EXCEPT ![s] = {}]
    /\ UNCHANGED heard

Hear(r, s) ==
    /\ s \in chats
    /\ heard[r] = {}
    /\ heard' = [heard EXCEPT ![r] = {said[s]}]
    /\ UNCHANGED <<chats, said>>

\* The run adds something new to what it heard, and is done.
Speak(r, s) ==
    /\ s \in chats
    /\ heard[r] = {said[s]}
    /\ said[s] \subseteq said'[s]
    /\ said' = [said EXCEPT ![s] = said'[s]]
    /\ heard' = [heard EXCEPT ![r] = {}]
    /\ UNCHANGED chats

\* Runs end without a word: nothing to keep, the session was deleted, or the
\* daemon died.
Leave(gone) ==
    /\ heard' = [r \in Runs |-> IF r \in gone THEN {} ELSE heard[r]]
    /\ UNCHANGED <<chats, said>>

Next ==
    \/ \E s \in Sessions : Open(s) \/ Forget(s)
    \/ \E r \in Runs, s \in Sessions : Hear(r, s) \/ Speak(r, s)
    \/ \E gone \in SUBSET Runs : Leave(gone)

Spec == Init /\ [][Next]_chatVars
=============================================================================

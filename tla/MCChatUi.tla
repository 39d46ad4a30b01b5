----------------------------- MODULE MCChatUi -----------------------------
(* Instances of ChatUi for TLC. *)
EXTENDS ChatUi, TLC

\* Every frame function makes the last node blink.
MCDraws == [at \in (1..MaxScripts) \X (0..MaxNow + Lead) |->
                <<MaxNodes, (at[1] + at[2]) % Cardinality(Values)>>]

\* Either an event or a reload comes, and with a reload one step less; time and
\* handlers wait until the chat is open.
EventOrReload ==
    /\ events = 0 \/ installed = 1
    /\ steps + installed <= 4
    /\ sub # "open" => now = 0 /\ steps = 0
=============================================================================

---------------------------- MODULE SessionStore ----------------------------
(* The daemon's session store: three tables of one redb file, the chat       *)
(* sessions, their turns and the labels callers find them by.  Every         *)
(* operation is one write transaction, hence one action here.                *)
(*                                                                           *)
(* A session's fields are its owner, its label, the number of turns it       *)
(* stores and the next sequence number.  The rest of SessionMeta (times,     *)
(* tokens used, the approval setting, the folder) is carried, not computed   *)
(* with.  A message is its kind and what it holds: itself, or for a summary  *)
(* all the messages it was made from.                                        *)
EXTENDS Integers, Sequences, FiniteSets

CONSTANTS
    Sessions,   \* session ids; the daemon mints a fresh uuid for each session
    Owners,     \* interfaces and services that own sessions
    Labels,     \* the caller's own names for sessions
    Messages    \* identities of the messages ever sent in a chat

CONSTANTS NoLabel, NoSession

ASSUME LabelAssumption == NoLabel \notin Labels /\ NoSession \notin Sessions

VARIABLES
    stored,     \* the ids in the sessions table
    minted,     \* the ids ever given out
    meta,       \* a session's fields
    turns,      \* the turns table: sequence number -> turn, per session
    labels      \* the label index, keyed by owner and label

storeVars == <<stored, minted, meta, turns, labels>>

Kinds == {"user", "calls", "result", "reply", "summary"}

Turn == [kind : Kinds, holds : SUBSET Messages]

Meta == [owner : Owners, label : Labels \cup {NoLabel},
         turn_count : Nat, next_seq : Nat]

NoTurns == [k \in {} |-> 0]

StoreTypeOK ==
    /\ stored \subseteq minted
    /\ minted \subseteq Sessions
    /\ meta \in [stored -> Meta]
    /\ DOMAIN turns = stored
    /\ \A s \in stored :
           /\ DOMAIN turns[s] \in SUBSET Nat
           /\ \A k \in DOMAIN turns[s] : turns[s][k] \in Turn
    /\ labels \in [Owners \X Labels -> Sessions \cup {NoSession}]

StoreInit ==
    /\ stored = {}
    /\ minted = {}
    /\ meta = [s \in {} |-> 0]
    /\ turns = [s \in {} |-> NoTurns]
    /\ labels = [key \in Owners \X Labels |-> NoSession]

-----------------------------------------------------------------------------
(* The turns of one session, oldest first: the key order of the table.       *)

Before(table, k) == {j \in DOMAIN table : j < k}

\* The sequence number at a position, counting from 0.
SeqAt(table, p) ==
    CHOOSE k \in DOMAIN table : Cardinality(Before(table, k)) = p

\* The sequence numbers of the n oldest turns.
Oldest(table, n) ==
    {k \in DOMAIN table : Cardinality(Before(table, k)) < n}

First(seqs) == CHOOSE k \in seqs : \A j \in seqs : k <= j

\* Everything the turns say, in full or in summary.
Said(table) == UNION {table[k].holds : k \in DOMAIN table}

\* Mutant: the sequence starts again at the number of turns after a compaction.
AddedFromCount(table, next, new) ==
    LET at == Cardinality(DOMAIN table)
        fresh == at .. at + Len(new) - 1
    IN  [k \in DOMAIN table \cup fresh |->
            IF k \in fresh THEN new[k - at + 1] ELSE table[k]]

\* A table with the messages of a sequence inserted from number next on.
Added(table, next, new) ==
    LET fresh == next .. next + Len(new) - 1
    IN  [k \in DOMAIN table \cup fresh |->
            IF k \in fresh THEN new[k - next + 1] ELSE table[k]]

\* A table whose n oldest turns give way to one summary, at the first of
\* their numbers.
Folded(table, n, summary) ==
    LET seqs == Oldest(table, n)
    IN  [k \in (DOMAIN table \ seqs) \cup {First(seqs)} |->
            IF k = First(seqs) THEN summary ELSE table[k]]

-----------------------------------------------------------------------------
(* The write transactions.                                                   *)

Key(s) == <<meta[s].owner, meta[s].label>>

\* The entries a session's removal or relabelling takes out of the index.
Unindexed(s) ==
    IF meta[s].label = NoLabel THEN labels
    ELSE [labels EXCEPT ![Key(s)] = NoSession]

Create(s, owner, label) ==
    /\ s \notin minted
    /\ label # NoLabel => labels[<<owner, label>>] = NoSession
    /\ stored' = stored \cup {s}
    /\ minted' = minted \cup {s}
    /\ meta' = [t \in stored \cup {s} |->
                   IF t = s THEN [owner |-> owner, label |-> label,
                                  turn_count |-> 0, next_seq |-> 0]
                   ELSE meta[t]]
    /\ turns' = [t \in stored \cup {s} |-> IF t = s THEN NoTurns ELSE turns[t]]
    /\ labels' = IF label = NoLabel THEN labels
                 ELSE [labels EXCEPT ![<<owner, label>>] = s]

AppendTurns(s, new) ==
    /\ s \in stored
    /\ turns' = [turns EXCEPT ![s] = Added(@, meta[s].next_seq, new)]
    /\ meta' = [meta EXCEPT ![s].next_seq = @ + Len(new),
                            ![s].turn_count = @ + Len(new)]
    /\ UNCHANGED <<stored, minted, labels>>

\* Mutant: the count forgets the summary.
CompactMiscounts(s, n, summary) ==
    /\ s \in stored
    /\ Oldest(turns[s], n) # {}
    /\ turns' = [turns EXCEPT ![s] = Folded(@, n, summary)]
    /\ meta' = [meta EXCEPT ![s].turn_count =
                   @ - Cardinality(Oldest(turns[s], n))]
    /\ UNCHANGED <<stored, minted, labels>>

Compact(s, n, summary) ==
    /\ s \in stored
    /\ Oldest(turns[s], n) # {}
    /\ turns' = [turns EXCEPT ![s] = Folded(@, n, summary)]
    /\ meta' = [meta EXCEPT ![s].turn_count =
                   @ - Cardinality(Oldest(turns[s], n)) + 1]
    /\ UNCHANGED <<stored, minted, labels>>

Relabel(s, label) ==
    /\ s \in stored
    /\ label # NoLabel => labels[<<meta[s].owner, label>>] \in {s, NoSession}
    /\ labels' = IF label = NoLabel THEN Unindexed(s)
                 ELSE [Unindexed(s) EXCEPT ![<<meta[s].owner, label>>] = s]
    /\ meta' = [meta EXCEPT ![s].label = label]
    /\ UNCHANGED <<stored, minted, turns>>

\* Mutant: the turns stay behind.
DeleteLeavesTurns(s) ==
    /\ s \in stored
    /\ stored' = stored \ {s}
    /\ meta' = [t \in stored \ {s} |-> meta[t]]
    /\ labels' = Unindexed(s)
    /\ UNCHANGED <<minted, turns>>

Delete(s) ==
    /\ s \in stored
    /\ stored' = stored \ {s}
    /\ meta' = [t \in stored \ {s} |-> meta[t]]
    /\ turns' = [t \in stored \ {s} |-> turns[t]]
    /\ labels' = Unindexed(s)
    /\ UNCHANGED minted

-----------------------------------------------------------------------------
(* Properties of the tables.                                                 *)

\* The counter kept in the session row is the number of its turns (it decides
\* when to compact), and no number at or past next_seq is taken, so an append
\* never writes over a turn.
CountsAgree ==
    \A s \in stored :
        /\ meta[s].turn_count = Cardinality(DOMAIN turns[s])
        /\ \A k \in DOMAIN turns[s] : k < meta[s].next_seq

\* The index and the rows agree: a label leads to the session that carries
\* it, every labelled session is found, and deleted ones leave nothing.
LabelsAgree ==
    /\ \A s \in stored : meta[s].label # NoLabel => labels[Key(s)] = s
    /\ \A key \in Owners \X Labels :
           labels[key] # NoSession => labels[key] \in stored /\ Key(labels[key]) = key

\* The three tables agree with each other, whatever runs, compactions and
\* management calls did to them and wherever the daemon died.
TablesAgree == CountsAgree /\ LabelsAgree

\* What may directly follow what in a conversation a provider accepts.
Follows ==
    {<<"summary", "user">>, <<"user", "calls">>, <<"user", "reply">>,
     <<"calls", "result">>, <<"result", "calls">>, <<"result", "reply">>,
     <<"reply", "user">>}

\* The stored turns are a conversation every provider accepts: it opens with
\* the user (or a summary in the user's name), no tool call is without its
\* result nor a result without its call, and it ends with a reply, so the
\* next prompt may follow.
HistoryIsValid ==
    \A s \in stored :
        LET table == turns[s]
            size == Cardinality(DOMAIN table)
            kind(p) == table[SeqAt(table, p)].kind
        IN  size > 0 =>
                /\ kind(0) \in {"user", "summary"}
                /\ kind(size - 1) = "reply"
                /\ \A p \in 1 .. size - 1 : <<kind(p - 1), kind(p)>> \in Follows
=============================================================================

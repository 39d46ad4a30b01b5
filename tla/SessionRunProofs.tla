-------------------------- MODULE SessionRunProofs --------------------------
(***************************************************************************)
(* Theorems about SessionRun, for any number of sessions, runs, owners,    *)
(* labels and policies and, where it is not said otherwise, executors.     *)
(***************************************************************************)
EXTENDS SessionRun, FiniteSetTheorems, WellFoundedInduction, TLAPS

(* Tables of turns. *)

IsTable(table) ==
    /\ DOMAIN table \in SUBSET Nat
    /\ IsFiniteSet(DOMAIN table)
    /\ \A k \in DOMAIN table : table[k] \in Turn

LEMMA LeastNumber ==
  ASSUME NEW S \in SUBSET Nat, S # {}
  PROVE  \E k \in S : \A j \in S : k <= j
<1>1. \E k \in S : \A j \in S : ~ (<<j, k>> \in OpToRel(<, Nat))
  BY NatLessThanWellFounded, WFMin
<1>2. PICK k \in S : \A j \in S : ~ (<<j, k>> \in OpToRel(<, Nat))
  BY <1>1
<1>3. ASSUME NEW j \in S, j < k PROVE FALSE
  <2>1. <<j, k>> \in Nat \X Nat /\ <<j, k>>[1] < <<j, k>>[2]
    BY <1>3
  <2>2. <<j, k>> \in OpToRel(<, Nat)
    BY <2>1 DEF OpToRel
  <2>3. QED
    BY <1>2, <2>2
<1>4. QED
  BY <1>3

LEMMA DisjointUnion ==
  ASSUME NEW S, NEW T, IsFiniteSet(S), IsFiniteSet(T), S \cap T = {}
  PROVE  /\ IsFiniteSet(S \cup T)
         /\ Cardinality(S) \in Nat
         /\ Cardinality(T) \in Nat
         /\ Cardinality(S \cup T) = Cardinality(S) + Cardinality(T)
<1>1. /\ IsFiniteSet(S \cup T)
      /\ Cardinality(S \cup T) = Cardinality(S) + Cardinality(T) - Cardinality(S \cap T)
  BY FS_Union
<1>2. Cardinality(S \cap T) = 0
  BY FS_EmptySet
<1>3. Cardinality(S) \in Nat /\ Cardinality(T) \in Nat
  BY FS_CardinalityType
<1>4. QED
  BY <1>1, <1>2, <1>3

LEMMA FirstIsMember ==
  ASSUME NEW S \in SUBSET Nat, S # {}
  PROVE  First(S) \in S
  BY LeastNumber DEF First

LEMMA EmptyTable == IsTable(NoTurns) /\ Said(NoTurns) = {}
  BY FS_EmptySet DEF IsTable, NoTurns, Said

\* An append past the last number keeps every turn, adds its own and says
\* nothing less.
LEMMA AddedTable ==
  ASSUME NEW table, IsTable(table), NEW next \in Nat, NEW new \in Seq(Turn),
         \A k \in DOMAIN table : k < next
  PROVE  /\ IsTable(Added(table, next, new))
         /\ \A k \in DOMAIN Added(table, next, new) : k < next + Len(new)
         /\ Cardinality(DOMAIN Added(table, next, new))
                = Cardinality(DOMAIN table) + Len(new)
         /\ Said(table) \subseteq Said(Added(table, next, new))
<1> DEFINE fresh == next .. next + Len(new) - 1
           longer == Added(table, next, new)
<1>1. Len(new) \in Nat /\ DOMAIN new = 1 .. Len(new)
  OBVIOUS
<1>2. DOMAIN longer = DOMAIN table \cup fresh
  BY DEF Added
<1>3. IsFiniteSet(fresh) /\ Cardinality(fresh) = Len(new)
  <2>1. next + Len(new) - 1 \in Int /\ next \in Int
    BY <1>1
  <2>2. /\ IsFiniteSet(fresh)
        /\ Cardinality(fresh) = IF next > next + Len(new) - 1 THEN 0
                                ELSE next + Len(new) - 1 - next + 1
    BY <2>1, FS_Interval
  <2>3. QED
    BY <1>1, <2>2
<1>4. DOMAIN table \cap fresh = {}
  BY <1>1 DEF IsTable
<1>5. IsFiniteSet(DOMAIN longer)
      /\ Cardinality(DOMAIN longer) = Cardinality(DOMAIN table) + Len(new)
  BY <1>2, <1>3, <1>4, DisjointUnion DEF IsTable
<1>6. \A k \in DOMAIN longer :
          longer[k] = IF k \in fresh THEN new[k - next + 1] ELSE table[k]
  BY DEF Added
<1>7. \A k \in fresh : new[k - next + 1] \in Turn
  BY <1>1
<1>8. \A k \in DOMAIN longer : longer[k] \in Turn
  BY <1>2, <1>6, <1>7 DEF IsTable
<1>9. DOMAIN longer \in SUBSET Nat /\ \A k \in DOMAIN longer : k < next + Len(new)
  BY <1>1, <1>2 DEF IsTable
<1>10. \A k \in DOMAIN table : k \in DOMAIN longer /\ longer[k] = table[k]
  BY <1>2, <1>4, <1>6
<1>11. Said(table) \subseteq Said(longer)
  BY <1>10 DEF Said
<1>12. QED
  BY <1>5, <1>8, <1>9, <1>11 DEF IsTable

LEMMA OldestTable ==
  ASSUME NEW table, IsTable(table), NEW n
  PROVE  /\ Oldest(table, n) \subseteq DOMAIN table
         /\ Oldest(table, n) \in SUBSET Nat
         /\ IsFiniteSet(Oldest(table, n))
         /\ Cardinality(Oldest(table, n)) \in Nat
         /\ Cardinality(Oldest(table, n)) <= Cardinality(DOMAIN table)
<1>1. Oldest(table, n) \in SUBSET (DOMAIN table)
  BY DEF Oldest
<1>2. QED
  BY <1>1, FS_Subset, FS_CardinalityType DEF IsTable

\* A fold leaves the turns it does not drop, takes no new number, and says
\* what was said before when its summary says what it drops.
LEMMA FoldedTable ==
  ASSUME NEW table, IsTable(table), NEW n, Oldest(table, n) # {},
         NEW summary \in Turn
  PROVE  /\ IsTable(Folded(table, n, summary))
         /\ DOMAIN Folded(table, n, summary) \subseteq DOMAIN table
         /\ Cardinality(DOMAIN Folded(table, n, summary))
                = Cardinality(DOMAIN table) - Cardinality(Oldest(table, n)) + 1
         /\ summary.holds = UNION {table[k].holds : k \in Oldest(table, n)}
                => Said(Folded(table, n, summary)) = Said(table)
<1> DEFINE seqs == Oldest(table, n)
           kept == DOMAIN table \ seqs
           folded == Folded(table, n, summary)
<1>1. /\ seqs \subseteq DOMAIN table
      /\ seqs \in SUBSET Nat
      /\ IsFiniteSet(seqs)
      /\ Cardinality(seqs) \in Nat
  BY OldestTable
<1>2. First(seqs) \in seqs
  BY <1>1, FirstIsMember
<1>3. DOMAIN folded = kept \cup {First(seqs)}
  BY DEF Folded
<1>4. First(seqs) \notin kept
  BY <1>2
<1>5. IsFiniteSet(kept) /\ Cardinality(kept) \in Nat
  BY FS_Subset, FS_CardinalityType DEF IsTable
<1>6. Cardinality(kept) = Cardinality(DOMAIN table) - Cardinality(seqs)
  <2>1. DOMAIN table = kept \cup seqs /\ kept \cap seqs = {}
    BY <1>1
  <2>2. QED
    BY <2>1, <1>1, <1>5, DisjointUnion
<1>7. IsFiniteSet(DOMAIN folded) /\ Cardinality(DOMAIN folded) = Cardinality(kept) + 1
  <2>1. /\ IsFiniteSet(kept \cup {First(seqs)})
        /\ Cardinality(kept \cup {First(seqs)}) = Cardinality(kept) + 1
    BY <1>4, <1>5, FS_AddElement
  <2>2. QED
    BY <2>1, <1>3
<1>8. \A k \in DOMAIN folded :
          folded[k] = IF k = First(seqs) THEN summary ELSE table[k]
  BY DEF Folded
<1>9. IsTable(folded) /\ DOMAIN folded \subseteq DOMAIN table
  BY <1>1, <1>2, <1>3, <1>7, <1>8 DEF IsTable
<1>10. ASSUME summary.holds = UNION {table[k].holds : k \in seqs}
       PROVE  Said(folded) = Said(table)
  <2>1. \A k \in kept : k \in DOMAIN folded /\ folded[k] = table[k]
    BY <1>3, <1>4, <1>8
  <2>2. First(seqs) \in DOMAIN folded /\ folded[First(seqs)] = summary
    BY <1>3, <1>8
  <2>3. ASSUME NEW x \in Said(table) PROVE x \in Said(folded)
    <3>1. PICK k \in DOMAIN table : x \in table[k].holds
      BY <2>3 DEF Said
    <3>2. CASE k \in seqs
      <4>1. x \in summary.holds
        BY <1>10, <3>1, <3>2
      <4>2. QED
        BY <4>1, <2>2 DEF Said
    <3>3. CASE k \notin seqs
      <4>1. k \in DOMAIN folded /\ x \in folded[k].holds
        BY <2>1, <3>1, <3>3
      <4>2. QED
        BY <4>1 DEF Said
    <3>4. QED
      BY <3>2, <3>3
  <2>4. ASSUME NEW x \in Said(folded) PROVE x \in Said(table)
    <3>1. PICK k \in DOMAIN folded : x \in folded[k].holds
      BY <2>4 DEF Said
    <3>2. CASE k = First(seqs)
      <4>1. PICK j \in seqs : x \in table[j].holds
        BY <1>10, <2>2, <3>1, <3>2
      <4>2. QED
        BY <4>1, <1>1 DEF Said
    <3>3. CASE k # First(seqs)
      <4>1. k \in DOMAIN table /\ x \in table[k].holds
        BY <1>3, <1>8, <3>1, <3>3
      <4>2. QED
        BY <4>1 DEF Said
    <3>4. QED
      BY <3>2, <3>3
  <2>5. QED
    BY <2>3, <2>4
<1>11. QED
  BY <1>6, <1>7, <1>9, <1>10

-----------------------------------------------------------------------------
(* The store: every transaction keeps its tables well formed. *)

StoreInv ==
    /\ StoreTypeOK
    /\ CountsAgree
    /\ \A s \in stored : IsTable(turns[s])

LEMMA InitStoreInv == StoreInit => StoreInv
  BY DEF StoreInit, StoreInv, StoreTypeOK, CountsAgree

LEMMA UnchangedStoreInv == StoreInv /\ UNCHANGED storeVars => StoreInv'
  BY DEF StoreInv, StoreTypeOK, CountsAgree, storeVars, IsTable

LEMMA CreateStoreInv ==
  ASSUME StoreInv, NEW s \in Sessions, NEW o \in Owners,
         NEW l \in Labels \cup {NoLabel}, Create(s, o, l)
  PROVE  StoreInv'
<1> USE DEF Create
<1>1. meta'[s].turn_count = 0 /\ meta'[s].next_seq = 0 /\ turns'[s] = NoTurns
  OBVIOUS
<1>2. IsTable(NoTurns) /\ Cardinality(DOMAIN NoTurns) = 0 /\ DOMAIN NoTurns = {}
  BY EmptyTable, FS_EmptySet DEF NoTurns
<1>3. \A t \in stored' : t # s => t \in stored /\ meta'[t] = meta[t] /\ turns'[t] = turns[t]
  OBVIOUS
<1>4. StoreTypeOK'
  <2>1. stored' \subseteq minted' /\ minted' \subseteq Sessions /\ DOMAIN turns' = stored'
    BY DEF StoreInv, StoreTypeOK
  <2>2. meta' \in [stored' -> Meta]
    BY DEF StoreInv, StoreTypeOK, Meta
  <2>3. labels' \in [Owners \X Labels -> Sessions \cup {NoSession}]
    BY DEF StoreInv, StoreTypeOK
  <2>4. \A t \in stored' : IsTable(turns'[t])
    BY <1>1, <1>2, <1>3 DEF StoreInv
  <2>5. QED
    BY <2>1, <2>2, <2>3, <2>4 DEF StoreTypeOK, IsTable
<1>5. CountsAgree'
  BY <1>1, <1>2, <1>3 DEF StoreInv, CountsAgree
<1>6. QED
  BY <1>1, <1>2, <1>3, <1>4, <1>5 DEF StoreInv, IsTable

LEMMA AppendStoreInv ==
  ASSUME StoreInv, NEW s, NEW new \in Seq(Turn), AppendTurns(s, new)
  PROVE  /\ StoreInv'
         /\ Said(turns[s]) \subseteq Said(turns'[s])
         /\ \A t \in stored : t # s => turns'[t] = turns[t]
<1> DEFINE next == meta[s].next_seq
           longer == Added(turns[s], next, new)
<1>1. s \in stored /\ next \in Nat /\ meta[s].turn_count \in Nat /\ Len(new) \in Nat
  BY DEF AppendTurns, StoreInv, StoreTypeOK, Meta
<1>2. IsTable(turns[s]) /\ \A k \in DOMAIN turns[s] : k < next
  BY <1>1 DEF StoreInv, CountsAgree
<1>3. /\ IsTable(longer)
      /\ \A k \in DOMAIN longer : k < next + Len(new)
      /\ Cardinality(DOMAIN longer) = Cardinality(DOMAIN turns[s]) + Len(new)
      /\ Said(turns[s]) \subseteq Said(longer)
  BY <1>1, <1>2, AddedTable
<1>4. /\ stored' = stored /\ minted' = minted /\ labels' = labels
      /\ turns'[s] = longer /\ DOMAIN turns' = stored
      /\ \A t \in stored : t # s => turns'[t] = turns[t] /\ meta'[t] = meta[t]
  BY <1>1 DEF AppendTurns, StoreInv, StoreTypeOK
<1>5. /\ meta' \in [stored -> Meta]
      /\ meta'[s].next_seq = next + Len(new)
      /\ meta'[s].turn_count = meta[s].turn_count + Len(new)
  <2> DEFINE seq == next + Len(new)
             size == meta[s].turn_count + Len(new)
             row == [meta[s] EXCEPT !.next_seq = seq, !.turn_count = size]
  <2>1. meta \in [stored -> Meta] /\ meta[s] \in Meta
    BY <1>1 DEF StoreInv, StoreTypeOK
  <2>2. seq \in Nat /\ size \in Nat
    BY <1>1
  <2>3. meta' = [meta EXCEPT ![s] = row]
    BY <1>1, <2>1 DEF AppendTurns, Meta
  <2> HIDE DEF seq, size
  <2>4. row \in Meta /\ row.next_seq = seq /\ row.turn_count = size
    BY <2>1, <2>2 DEF Meta
  <2>5. meta' \in [stored -> Meta] /\ meta'[s].next_seq = seq /\ meta'[s].turn_count = size
    BY <1>1, <2>1, <2>3, <2>4
  <2>6. QED
    BY <2>5 DEF seq, size
<1>6. \A t \in stored' : IsTable(turns'[t])
  BY <1>3, <1>4 DEF StoreInv
<1>7. StoreTypeOK'
  BY <1>4, <1>5, <1>6 DEF StoreInv, StoreTypeOK, IsTable
<1>8. CountsAgree'
  BY <1>1, <1>3, <1>4, <1>5 DEF StoreInv, CountsAgree
<1>9. StoreInv'
  BY <1>6, <1>7, <1>8 DEF StoreInv, IsTable
<1>10. QED
  BY <1>3, <1>4, <1>9

LEMMA CompactStoreInv ==
  ASSUME StoreInv, NEW s, NEW n, NEW summary \in Turn, Compact(s, n, summary)
  PROVE  /\ StoreInv'
         /\ turns'[s] = Folded(turns[s], n, summary)
         /\ \A t \in stored : t # s => turns'[t] = turns[t]
<1> DEFINE seqs == Oldest(turns[s], n)
           folded == Folded(turns[s], n, summary)
<1>1. s \in stored /\ seqs # {} /\ meta[s].turn_count \in Nat /\ meta[s].next_seq \in Nat
  BY DEF Compact, StoreInv, StoreTypeOK, Meta
<1>2. /\ IsTable(turns[s])
      /\ \A k \in DOMAIN turns[s] : k < meta[s].next_seq
      /\ meta[s].turn_count = Cardinality(DOMAIN turns[s])
  BY <1>1 DEF StoreInv, CountsAgree
<1>3. /\ IsTable(folded)
      /\ DOMAIN folded \subseteq DOMAIN turns[s]
      /\ Cardinality(DOMAIN folded) = Cardinality(DOMAIN turns[s]) - Cardinality(seqs) + 1
  BY <1>1, <1>2, FoldedTable
<1>4. Cardinality(seqs) \in Nat /\ Cardinality(seqs) <= Cardinality(DOMAIN turns[s])
  BY <1>2, OldestTable
<1>5. /\ stored' = stored /\ minted' = minted /\ labels' = labels
      /\ turns'[s] = folded /\ DOMAIN turns' = stored
      /\ \A t \in stored : t # s => turns'[t] = turns[t] /\ meta'[t] = meta[t]
  BY <1>1 DEF Compact, StoreInv, StoreTypeOK
<1>6. meta[s].turn_count - Cardinality(seqs) + 1 \in Nat
  BY <1>2, <1>4, <1>1
<1>7. /\ meta' \in [stored -> Meta]
      /\ meta'[s].next_seq = meta[s].next_seq
      /\ meta'[s].turn_count = meta[s].turn_count - Cardinality(seqs) + 1
  BY <1>1, <1>6 DEF Compact, StoreInv, StoreTypeOK, Meta
<1>8. \A t \in stored' : IsTable(turns'[t])
  BY <1>3, <1>5 DEF StoreInv
<1>9. StoreTypeOK'
  BY <1>5, <1>7, <1>8 DEF StoreInv, StoreTypeOK, IsTable
<1>10. CountsAgree'
  BY <1>2, <1>3, <1>5, <1>7 DEF StoreInv, CountsAgree
<1>11. QED
  BY <1>5, <1>8, <1>9, <1>10 DEF StoreInv, IsTable

LEMMA RelabelStoreInv ==
  ASSUME StoreInv, NEW s \in Sessions, NEW l \in Labels \cup {NoLabel}, Relabel(s, l)
  PROVE  StoreInv'
<1>1. /\ stored' = stored /\ minted' = minted /\ turns' = turns
      /\ meta' \in [stored -> Meta]
      /\ \A t \in stored : /\ meta'[t].turn_count = meta[t].turn_count
                           /\ meta'[t].next_seq = meta[t].next_seq
  BY DEF Relabel, StoreInv, StoreTypeOK, Meta
<1>2. Unindexed(s) \in [Owners \X Labels -> Sessions \cup {NoSession}]
  BY DEF Unindexed, StoreInv, StoreTypeOK
<1>3. labels' \in [Owners \X Labels -> Sessions \cup {NoSession}]
  BY <1>2 DEF Relabel
<1>4. QED
  BY <1>1, <1>3 DEF StoreInv, StoreTypeOK, CountsAgree, IsTable

LEMMA DeleteStoreInv ==
  ASSUME StoreInv, NEW s \in Sessions, Delete(s)
  PROVE  StoreInv'
<1>1. labels' \in [Owners \X Labels -> Sessions \cup {NoSession}]
  BY DEF Delete, Unindexed, StoreInv, StoreTypeOK
<1>2. /\ stored' \subseteq stored /\ minted' = minted
      /\ DOMAIN turns' = stored' /\ meta' \in [stored' -> Meta]
      /\ \A t \in stored' : meta'[t] = meta[t] /\ turns'[t] = turns[t]
  BY DEF Delete, StoreInv, StoreTypeOK
<1>3. \A t \in stored' : IsTable(turns'[t])
  BY <1>2 DEF StoreInv
<1>4. StoreTypeOK'
  BY <1>1, <1>2, <1>3 DEF StoreInv, StoreTypeOK, IsTable
<1>5. CountsAgree'
  BY <1>2 DEF StoreInv, CountsAgree
<1>6. QED
  BY <1>3, <1>4, <1>5 DEF StoreInv, IsTable

LEMMA ManageStoreInv == StoreInv /\ Manage => StoreInv'
  BY CreateStoreInv, RelabelStoreInv, DeleteStoreInv DEF Manage

-----------------------------------------------------------------------------
(* Type correctness. *)

RunInv ==
    /\ active_sessions \in [Executors -> SUBSET Sessions]
    /\ stage \in [Runs -> Stages]
    /\ on \in [Runs -> Executors]
    /\ of \in [Runs -> Sessions]
    /\ policy \in [Runs -> Policies]
    /\ count \in [Runs -> Nat]
    /\ DOMAIN history = Runs
    /\ \A r \in Runs : IsTable(history[r])
    /\ progress \in [Runs -> Seq(Turn)]
    /\ \A r \in Runs : Len(progress[r]) <= 2 * MaxSteps + 1

Inv == StoreInv /\ RunInv

LEMMA InvTypeOK == Inv => TypeOK
  BY DEF Inv, StoreInv, RunInv, TypeOK, IsTable

LEMMA UnsetTypes ==
    /\ Unset.on \in Executors
    /\ Unset.of \in Sessions
    /\ Unset.policy \in Policies
  BY NonEmptyAssumption DEF Unset

LEMMA MessageType ==
  ASSUME NEW r \in Runs, NEW kind \in Kinds, NEW n \in 1 .. 2 * MaxSteps + 2
  PROVE  Message(r, kind, n) \in Turn
  BY MessageAssumption DEF Message, Turn

LEMMA ClosedType ==
  ASSUME RunInv, NEW r \in Runs
  PROVE  Closed(r) \in Seq(Turn)
<1>1. progress[r] \in Seq(Turn) /\ Len(progress[r]) \in Nat
      /\ Len(progress[r]) <= 2 * MaxSteps + 1
  BY DEF RunInv
<1>2. Len(progress[r]) + 1 \in 1 .. 2 * MaxSteps + 2
  BY <1>1, StepsAssumption
<1>3. Message(r, "reply", Len(progress[r]) + 1) \in Turn
  BY <1>2, MessageType DEF Kinds
<1>4. QED
  BY <1>1, <1>3 DEF Closed

LEMMA SummaryType ==
  ASSUME NEW table, IsTable(table), NEW n
  PROVE  /\ Summary(table, n) \in Turn
         /\ Summary(table, n).holds = UNION {table[k].holds : k \in Oldest(table, n)}
<1>1. \A k \in Oldest(table, n) : table[k].holds \subseteq Messages
  BY OldestTable DEF IsTable, Turn
<1>2. UNION {table[k].holds : k \in Oldest(table, n)} \subseteq Messages
  BY <1>1
<1>3. QED
  BY <1>2 DEF Summary, Turn, Kinds

LEMMA EndedRunInv ==
  ASSUME RunInv, NEW runs, Ended(runs),
         active_sessions' \in [Executors -> SUBSET Sessions]
  PROVE  RunInv'
<1>1. \A r \in Runs : IsTable(history'[r])
  BY EmptyTable DEF Ended, RunInv
<1>2. \A r \in Runs : progress'[r] \in Seq(Turn) /\ Len(progress'[r]) <= 2 * MaxSteps + 1
  <2>1. <<>> \in Seq(Turn) /\ Len(<<>>) = 0
    OBVIOUS
  <2>2. 0 <= 2 * MaxSteps + 1
    BY StepsAssumption
  <2>3. QED
    BY <2>1, <2>2 DEF Ended, RunInv
<1>3. /\ stage' \in [Runs -> Stages]
      /\ on' \in [Runs -> Executors]
      /\ of' \in [Runs -> Sessions]
      /\ policy' \in [Runs -> Policies]
      /\ count' \in [Runs -> Nat]
  BY UnsetTypes DEF Ended, RunInv, Stages
<1>4. DOMAIN history' = Runs /\ progress' \in [Runs -> Seq(Turn)]
  BY <1>2 DEF Ended
<1>5. QED
  BY <1>1, <1>2, <1>3, <1>4 DEF RunInv, IsTable

LEMMA InitInv == Init => Inv
<1> SUFFICES ASSUME Init PROVE Inv
  OBVIOUS
<1>1. StoreInv
  BY InitStoreInv DEF Init
<1>2. /\ active_sessions \in [Executors -> SUBSET Sessions]
      /\ stage \in [Runs -> Stages]
      /\ on \in [Runs -> Executors]
      /\ of \in [Runs -> Sessions]
      /\ policy \in [Runs -> Policies]
      /\ count \in [Runs -> Nat]
  BY UnsetTypes DEF Init, Stages
<1>3. DOMAIN history = Runs /\ \A r \in Runs : IsTable(history[r])
  BY EmptyTable DEF Init
<1>4. progress \in [Runs -> Seq(Turn)] /\ \A r \in Runs : Len(progress[r]) = 0
  BY DEF Init
<1>5. \A r \in Runs : Len(progress[r]) <= 2 * MaxSteps + 1
  BY <1>4, StepsAssumption
<1>6. QED
  BY <1>1, <1>2, <1>3, <1>4, <1>5 DEF Inv, RunInv

LEMMA StepInv == Inv /\ [Next]_vars => Inv'
<1> SUFFICES ASSUME Inv, [Next]_vars PROVE Inv'
  OBVIOUS
<1>0. StoreInv /\ RunInv
  BY DEF Inv
<1>1. CASE UNCHANGED vars
  <2>1. StoreInv'
    BY <1>0, <1>1, UnchangedStoreInv DEF vars
  <2>2. RunInv'
    BY <1>0, <1>1 DEF vars, runVars, RunInv, IsTable
  <2>3. QED
    BY <2>1, <2>2 DEF Inv
<1>2. ASSUME NEW r \in Runs, NEW e \in Executors, NEW s \in Sessions, NEW p \in Policies,
             Start(r, e, s, p)
      PROVE Inv'
  <2>1. StoreInv'
    BY <1>0, <1>2, UnchangedStoreInv DEF Start
  <2>2. meta[s].turn_count \in Nat
    BY <1>0, <1>2 DEF Start, StoreInv, StoreTypeOK, Meta
  <2>3. RunInv'
    BY <1>0, <1>2, <2>2 DEF Start, RunInv, Stages, IsTable
  <2>4. QED
    BY <2>1, <2>3 DEF Inv
<1>3. ASSUME NEW r \in Runs, Refuse(r) PROVE Inv'
  <2>1. StoreInv'
    BY <1>0, <1>3, UnchangedStoreInv DEF Refuse
  <2>2. Ended({r}) /\ active_sessions' = active_sessions
    BY <1>3 DEF Refuse
  <2>3. RunInv'
    BY <1>0, <2>2, EndedRunInv DEF RunInv
  <2>4. QED
    BY <2>1, <2>3 DEF Inv
<1>4. ASSUME NEW r \in Runs, Take(r) PROVE Inv'
  <2>1. StoreInv'
    BY <1>0, <1>4, UnchangedStoreInv DEF Take
  <2>2. RunInv'
    BY <1>0, <1>4 DEF Take, RunInv, Stages, IsTable
  <2>3. QED
    BY <2>1, <2>2 DEF Inv
<1>5. ASSUME NEW r \in Runs, Load(r) PROVE Inv'
  <2>1. StoreInv'
    BY <1>0, <1>5, UnchangedStoreInv DEF Load
  <2>2. AfterLoad(r) \in Stages
    BY DEF AfterLoad, Stages
  <2>3. DOMAIN history' = Runs /\ \A q \in Runs : IsTable(history'[q])
    BY <1>0, <1>5 DEF Load, RunInv, StoreInv
  <2>4. stage' \in [Runs -> Stages]
    BY <1>0, <1>5, <2>2 DEF Load, RunInv, Stages
  <2>5. RunInv'
    BY <1>0, <1>5, <2>3, <2>4 DEF Load, RunInv, IsTable
  <2>6. QED
    BY <2>1, <2>5 DEF Inv
<1>6. ASSUME NEW r \in Runs, StoreSummary(r) PROVE Inv'
  <2>1. PICK n \in LastCut(history[r], policy[r].keep_recent) :
            /\ Compact(of[r], n, Summary(history[r], n))
            /\ history' = [history EXCEPT ![r] = Folded(@, n, Summary(history[r], n))]
    BY <1>6 DEF StoreSummary
  <2>2. Summary(history[r], n) \in Turn /\ IsTable(history[r])
    BY <1>0, SummaryType DEF RunInv
  <2>3. StoreInv'
    BY <1>0, <2>1, <2>2, CompactStoreInv
  <2>4. Oldest(history[r], n) # {} => IsTable(history'[r])
    BY <1>0, <2>1, <2>2, FoldedTable DEF RunInv
  <2>5. IsTable(history'[r])
    <3>1. CASE Oldest(history[r], n) = {}
      <4>1. policy[r].keep_recent \in Nat /\ Cardinality(DOMAIN history[r]) \in Nat
        BY <1>0, <2>2, PolicyAssumption, FS_CardinalityType DEF RunInv, IsTable
      <4>2. n \in 1 .. Cardinality(DOMAIN history[r]) - policy[r].keep_recent
        BY <2>1 DEF LastCut, Cuts
      <4>3. n \in Int /\ n >= 1 /\ Cardinality(DOMAIN history[r]) >= 1
        BY <4>1, <4>2
      <4>4. DOMAIN history[r] # {}
        BY <4>3, FS_EmptySet
      <4>5. PICK k \in DOMAIN history[r] : \A j \in DOMAIN history[r] : k <= j
        BY <2>2, <4>4, LeastNumber DEF IsTable
      <4>6. Before(history[r], k) = {}
        BY <2>2, <4>5 DEF Before, IsTable
      <4>7. Cardinality(Before(history[r], k)) < n
        BY <4>3, <4>6, FS_EmptySet
      <4>8. QED
        BY <3>1, <4>5, <4>7 DEF Oldest
    <3>2. QED
      BY <3>1, <2>4
  <2>6. DOMAIN history' = Runs /\ \A q \in Runs : IsTable(history'[q])
    BY <1>0, <2>1, <2>5 DEF RunInv
  <2>7. RunInv'
    BY <1>0, <1>6, <2>6 DEF StoreSummary, RunInv, Stages, IsTable
  <2>8. QED
    BY <2>3, <2>7 DEF Inv
<1>7. ASSUME NEW r \in Runs, SummaryFails(r) \/ GiveUp(r) PROVE Inv'
  <2>1. StoreInv'
    BY <1>0, <1>7, UnchangedStoreInv DEF SummaryFails, GiveUp
  <2>2. RunInv'
    BY <1>0, <1>7 DEF SummaryFails, GiveUp, RunInv, Stages, IsTable
  <2>3. QED
    BY <2>1, <2>2 DEF Inv
<1>8. ASSUME NEW r \in Runs, Prompt(r) PROVE Inv'
  <2>1. StoreInv'
    BY <1>0, <1>8, UnchangedStoreInv DEF Prompt
  <2>2. 1 \in 1 .. 2 * MaxSteps + 2 /\ 1 <= 2 * MaxSteps + 1
    BY StepsAssumption
  <2>3. Message(r, "user", 1) \in Turn
    BY <2>2, MessageType DEF Kinds
  <2>4. <<Message(r, "user", 1)>> \in Seq(Turn) /\ Len(<<Message(r, "user", 1)>>) = 1
    BY <2>3
  <2>5. progress' \in [Runs -> Seq(Turn)] /\ \A q \in Runs : Len(progress'[q]) <= 2 * MaxSteps + 1
    BY <1>0, <1>8, <2>2, <2>4 DEF Prompt, RunInv
  <2>6. RunInv'
    BY <1>0, <1>8, <2>5 DEF Prompt, RunInv, Stages, IsTable
  <2>7. QED
    BY <2>1, <2>6 DEF Inv
<1>9. ASSUME NEW r \in Runs, Step(r) PROVE Inv'
  <2> DEFINE calls == Message(r, "calls", Len(progress[r]) + 1)
             result == Message(r, "result", Len(progress[r]) + 2)
  <2>1. StoreInv'
    BY <1>0, <1>9, UnchangedStoreInv DEF Step
  <2>2. Len(progress[r]) \in Nat /\ Len(progress[r]) < 2 * MaxSteps /\ progress[r] \in Seq(Turn)
    BY <1>0, <1>9 DEF Step, RunInv
  <2>3. /\ Len(progress[r]) + 1 \in 1 .. 2 * MaxSteps + 2
        /\ Len(progress[r]) + 2 \in 1 .. 2 * MaxSteps + 2
        /\ Len(progress[r]) + 2 <= 2 * MaxSteps + 1
    BY <2>2, StepsAssumption
  <2>4. calls \in Turn /\ result \in Turn
    BY <2>3, MessageType DEF Kinds
  <2> HIDE DEF calls, result
  <2>5. /\ progress[r] \o <<calls, result>> \in Seq(Turn)
        /\ Len(progress[r] \o <<calls, result>>) = Len(progress[r]) + 2
    BY <2>2, <2>4
  <2>6. progress' = [progress EXCEPT ![r] = progress[r] \o <<calls, result>>]
    BY <1>9 DEF Step, calls, result
  <2>7. progress' \in [Runs -> Seq(Turn)] /\ \A q \in Runs : Len(progress'[q]) <= 2 * MaxSteps + 1
    BY <1>0, <2>3, <2>5, <2>6 DEF RunInv
  <2>8. RunInv'
    BY <1>0, <1>9, <2>7 DEF Step, RunInv, IsTable
  <2>9. QED
    BY <2>1, <2>8 DEF Inv
<1>10. ASSUME NEW r \in Runs, Close(r) PROVE Inv'
  <2>1. Closed(r) \in Seq(Turn)
    BY <1>0, ClosedType
  <2>2. StoreInv'
    BY <1>0, <1>10, <2>1, AppendStoreInv, UnchangedStoreInv DEF Close
  <2>3. RunInv'
    BY <1>0, <1>10 DEF Close, RunInv, Stages, IsTable
  <2>4. QED
    BY <2>2, <2>3 DEF Inv
<1>11. ASSUME NEW r \in Runs, Release(r) PROVE Inv'
  <2>1. StoreInv'
    BY <1>0, <1>11, UnchangedStoreInv DEF Release
  <2>2. Ended({r}) /\ active_sessions' \in [Executors -> SUBSET Sessions]
    BY <1>0, <1>11 DEF Release, RunInv
  <2>3. RunInv'
    BY <1>0, <2>2, EndedRunInv
  <2>4. QED
    BY <2>1, <2>3 DEF Inv
<1>12. CASE Crash
  <2>1. StoreInv'
    BY <1>0, <1>12, UnchangedStoreInv DEF Crash
  <2>2. RunInv'
    BY <1>0, <1>12, EndedRunInv DEF Crash
  <2>3. QED
    BY <2>1, <2>2 DEF Inv
<1>13. CASE Manage
  <2>1. StoreInv'
    BY <1>0, <1>13, ManageStoreInv
  <2>2. RunInv'
    BY <1>0, <1>13 DEF Manage, runVars, RunInv, IsTable
  <2>3. QED
    BY <2>1, <2>2 DEF Inv
<1>14. QED
  BY <1>1, <1>2, <1>3, <1>4, <1>5, <1>6, <1>7, <1>8, <1>9, <1>10, <1>11, <1>12, <1>13
     DEF Next, Advance

LEMMA InvHolds == Spec => []Inv
  BY InitInv, StepInv, PTL DEF Spec

\* Every reachable state is well typed: in particular no turn count ever goes
\* below zero, whatever is compacted.
THEOREM TypeCorrect == Spec => []TypeOK
  BY InvHolds, InvTypeOK, PTL

\* The counters of the session rows agree with the turns table, for any number
\* of executors: an append never writes over a turn.
THEOREM CountsCorrect == Spec => []CountsAgree
<1>1. Inv => CountsAgree
  BY DEF Inv, StoreInv
<1>2. QED
  BY <1>1, InvHolds, PTL

-----------------------------------------------------------------------------
(* The label index. *)

\* A session's key after the step.
NextKey(s) == <<meta'[s].owner, meta'[s].label>>

LEMMA SameLabels ==
  ASSUME LabelsAgree, stored' = stored, labels' = labels,
         \A s \in stored : /\ meta'[s].owner = meta[s].owner
                           /\ meta'[s].label = meta[s].label
  PROVE  LabelsAgree'
  BY DEF LabelsAgree, Key, NextKey

LEMMA KeyType ==
  ASSUME StoreInv, NEW s \in stored, meta[s].label # NoLabel
  PROVE  Key(s) \in Owners \X Labels
  BY DEF StoreInv, StoreTypeOK, Meta, Key, NextKey

LEMMA CreateLabels ==
  ASSUME StoreInv, LabelsAgree, NEW s \in Sessions, NEW o \in Owners,
         NEW l \in Labels \cup {NoLabel}, Create(s, o, l)
  PROVE  LabelsAgree'
<1>1. /\ s \notin stored /\ stored' = stored \cup {s}
      /\ meta'[s].owner = o /\ meta'[s].label = l
      /\ \A t \in stored : meta'[t] = meta[t]
  BY DEF Create, StoreInv, StoreTypeOK
<1>2. labels \in [Owners \X Labels -> Sessions \cup {NoSession}] /\ s # NoSession
  BY LabelAssumption DEF StoreInv, StoreTypeOK
<1>3. CASE l = NoLabel
  BY <1>1, <1>3 DEF Create, LabelsAgree, Key, NextKey
<1>4. CASE l # NoLabel
  <2>1. /\ <<o, l>> \in Owners \X Labels /\ labels[<<o, l>>] = NoSession
        /\ labels' = [labels EXCEPT ![<<o, l>>] = s]
    BY <1>4 DEF Create
  <2>2. ASSUME NEW t \in stored, meta[t].label # NoLabel
        PROVE Key(t) # <<o, l>> /\ labels'[Key(t)] = t
    <3>1. labels[Key(t)] = t /\ t # NoSession /\ Key(t) \in Owners \X Labels
      BY <2>2, LabelAssumption, KeyType DEF LabelsAgree, StoreInv, StoreTypeOK
    <3>2. QED
      BY <1>2, <2>1, <3>1
  <2>3. \A t \in stored' : meta'[t].label # NoLabel => labels'[NextKey(t)] = t
    BY <1>1, <1>2, <2>1, <2>2 DEF Key, NextKey
  <2>4. ASSUME NEW key \in Owners \X Labels, labels'[key] # NoSession
        PROVE labels'[key] \in stored' /\ NextKey(labels'[key]) = key
    <3>1. CASE key = <<o, l>>
      BY <1>1, <1>2, <2>1, <3>1 DEF Key, NextKey
    <3>2. CASE key # <<o, l>>
      <4>1. labels'[key] = labels[key]
        BY <1>2, <2>1, <2>4, <3>2
      <4>2. labels[key] \in stored /\ Key(labels[key]) = key
        BY <2>4, <4>1 DEF LabelsAgree, Key, NextKey
      <4>3. QED
        BY <1>1, <4>1, <4>2 DEF Key, NextKey
    <3>3. QED
      BY <3>1, <3>2
  <2>5. QED
    BY <2>3, <2>4 DEF LabelsAgree, Key, NextKey
<1>5. QED
  BY <1>3, <1>4

\* What taking a session's label out of the index leaves.
LEMMA UnindexedLabels ==
  ASSUME StoreInv, LabelsAgree, NEW s \in stored
  PROVE  /\ Unindexed(s) \in [Owners \X Labels -> Sessions \cup {NoSession}]
         /\ \A key \in Owners \X Labels :
                /\ Unindexed(s)[key] # s
                /\ Unindexed(s)[key] # NoSession => Unindexed(s)[key] = labels[key]
                /\ labels[key] # s => Unindexed(s)[key] = labels[key]
<1>1. labels \in [Owners \X Labels -> Sessions \cup {NoSession}]
      /\ s \in Sessions /\ s # NoSession
  BY LabelAssumption DEF StoreInv, StoreTypeOK
<1>2. \A key \in Owners \X Labels : labels[key] = s => key = Key(s) /\ meta[s].label # NoLabel
  <2>1. ASSUME NEW key \in Owners \X Labels, labels[key] = s
        PROVE key = Key(s) /\ meta[s].label # NoLabel
    <3>1. key = Key(s)
      BY <1>1, <2>1 DEF LabelsAgree, Key, NextKey
    <3>2. meta[s].label \in Labels
      BY <2>1, <3>1 DEF Key, NextKey
    <3>3. QED
      BY <3>1, <3>2, LabelAssumption
  <2>2. QED
    BY <2>1
<1>3. meta[s].label # NoLabel => Key(s) \in Owners \X Labels /\ labels[Key(s)] = s
  BY KeyType DEF LabelsAgree, Key, NextKey
<1>4. QED
  BY <1>1, <1>2, <1>3 DEF Unindexed

LEMMA RelabelLabels ==
  ASSUME StoreInv, LabelsAgree, NEW s \in Sessions, NEW l \in Labels \cup {NoLabel},
         Relabel(s, l)
  PROVE  LabelsAgree'
<1> DEFINE rest == Unindexed(s)
<1>1. /\ s \in stored /\ stored' = stored
      /\ meta'[s].owner = meta[s].owner /\ meta'[s].label = l /\ meta[s].owner \in Owners
      /\ \A t \in stored : t # s => meta'[t] = meta[t]
  BY DEF Relabel, StoreInv, StoreTypeOK, Meta
<1>2. /\ rest \in [Owners \X Labels -> Sessions \cup {NoSession}]
      /\ \A key \in Owners \X Labels :
             /\ rest[key] # s
             /\ rest[key] # NoSession => rest[key] = labels[key]
             /\ labels[key] # s => rest[key] = labels[key]
  BY <1>1, UnindexedLabels
<1>3. s # NoSession
  BY LabelAssumption
<1>4. ASSUME NEW t \in stored, t # s, meta[t].label # NoLabel
      PROVE  /\ Key(t) \in Owners \X Labels /\ NextKey(t) = Key(t)
             /\ labels[Key(t)] = t /\ rest[Key(t)] = t
  <2>1. Key(t) \in Owners \X Labels /\ labels[Key(t)] = t
    BY <1>4, KeyType DEF LabelsAgree, Key, NextKey
  <2>2. QED
    BY <1>1, <1>2, <1>4, <2>1 DEF Key, NextKey
<1>5. ASSUME NEW key \in Owners \X Labels, rest[key] # NoSession
      PROVE rest[key] \in stored /\ rest[key] # s /\ NextKey(rest[key]) = key
  <2>1. rest[key] = labels[key] /\ rest[key] # s
    BY <1>2, <1>5
  <2>2. labels[key] \in stored /\ Key(labels[key]) = key
    BY <1>5, <2>1 DEF LabelsAgree, Key, NextKey
  <2>3. QED
    BY <1>1, <2>1, <2>2 DEF Key, NextKey
<1> HIDE DEF rest
<1>6. CASE l = NoLabel
  <2>1. labels' = rest
    BY <1>6 DEF Relabel, rest
  <2>2. \A t \in stored' : meta'[t].label # NoLabel => labels'[NextKey(t)] = t
    BY <1>1, <1>4, <1>6, <2>1
  <2>3. \A key \in Owners \X Labels :
            labels'[key] # NoSession => labels'[key] \in stored' /\ NextKey(labels'[key]) = key
    BY <1>1, <1>5, <2>1
  <2>4. QED
    BY <2>2, <2>3 DEF LabelsAgree, Key, NextKey
<1>7. CASE l # NoLabel
  <2> DEFINE new == <<meta[s].owner, l>>
  <2>1. /\ labels' = [rest EXCEPT ![new] = s]
        /\ labels[new] \in {s, NoSession}
        /\ new \in Owners \X Labels /\ NextKey(s) = new
    BY <1>1, <1>7 DEF Relabel, rest, Key, NextKey
  <2> HIDE DEF new
  <2>2. ASSUME NEW t \in stored, t # s, meta[t].label # NoLabel
        PROVE labels'[NextKey(t)] = t
    <3>1. Key(t) # new
      BY <1>3, <1>4, <2>1, <2>2, LabelAssumption DEF StoreInv, StoreTypeOK
    <3>2. QED
      BY <1>2, <1>4, <2>1, <2>2, <3>1
  <2>3. labels'[NextKey(s)] = s
    BY <1>2, <2>1
  <2>4. ASSUME NEW key \in Owners \X Labels, labels'[key] # NoSession
        PROVE labels'[key] \in stored' /\ NextKey(labels'[key]) = key
    <3>1. CASE key = new
      <4>1. labels'[key] = s
        BY <1>2, <2>1, <3>1
      <4>2. QED
        BY <1>1, <2>1, <3>1, <4>1
    <3>2. CASE key # new
      <4>1. labels'[key] = rest[key]
        BY <1>2, <2>1, <3>2
      <4>2. QED
        BY <1>1, <1>5, <2>4, <4>1
    <3>3. QED
      BY <3>1, <3>2
  <2>5. QED
    BY <1>1, <2>2, <2>3, <2>4 DEF LabelsAgree, Key, NextKey
<1>8. QED
  BY <1>6, <1>7

LEMMA DeleteLabels ==
  ASSUME StoreInv, LabelsAgree, NEW s \in Sessions, Delete(s)
  PROVE  LabelsAgree'
<1>1. /\ s \in stored /\ stored' = stored \ {s} /\ labels' = Unindexed(s)
      /\ \A t \in stored' : meta'[t] = meta[t]
  BY DEF Delete
<1>2. /\ Unindexed(s) \in [Owners \X Labels -> Sessions \cup {NoSession}]
      /\ \A key \in Owners \X Labels :
             /\ Unindexed(s)[key] # s
             /\ Unindexed(s)[key] # NoSession => Unindexed(s)[key] = labels[key]
             /\ labels[key] # s => Unindexed(s)[key] = labels[key]
  BY <1>1, UnindexedLabels
<1>3. ASSUME NEW t \in stored', meta'[t].label # NoLabel
      PROVE labels'[NextKey(t)] = t
  <2>1. NextKey(t) = Key(t) /\ Key(t) \in Owners \X Labels /\ labels[Key(t)] = t /\ t # s
    BY <1>1, <1>3, KeyType DEF Key, NextKey, LabelsAgree
  <2>2. QED
    BY <1>1, <1>2, <2>1
<1>4. ASSUME NEW key \in Owners \X Labels, labels'[key] # NoSession
      PROVE labels'[key] \in stored' /\ NextKey(labels'[key]) = key
  <2>1. labels'[key] = labels[key] /\ labels'[key] # s
    BY <1>1, <1>2, <1>4
  <2>2. labels[key] \in stored /\ Key(labels[key]) = key
    BY <1>4, <2>1 DEF LabelsAgree, Key, NextKey
  <2>3. QED
    BY <1>1, <2>1, <2>2 DEF Key, NextKey
<1>5. QED
  BY <1>3, <1>4 DEF LabelsAgree, Key, NextKey

LEMMA StepLabels == Inv /\ LabelsAgree /\ [Next]_vars => LabelsAgree'
<1> SUFFICES ASSUME Inv, LabelsAgree, [Next]_vars PROVE LabelsAgree'
  OBVIOUS
<1>0. StoreInv /\ StoreTypeOK
  BY DEF Inv, StoreInv
<1>1. CASE UNCHANGED storeVars
  BY <1>1, SameLabels DEF storeVars
<1>2. ASSUME NEW s, NEW new, AppendTurns(s, new) PROVE LabelsAgree'
  <2>1. \A t \in stored : meta'[t].owner = meta[t].owner /\ meta'[t].label = meta[t].label
    BY <1>0, <1>2 DEF AppendTurns, StoreTypeOK, Meta
  <2>2. QED
    BY <1>2, <2>1, SameLabels DEF AppendTurns
<1>3. ASSUME NEW s, NEW n, NEW summary, Compact(s, n, summary) PROVE LabelsAgree'
  <2>1. \A t \in stored : meta'[t].owner = meta[t].owner /\ meta'[t].label = meta[t].label
    BY <1>0, <1>3 DEF Compact, StoreTypeOK, Meta
  <2>2. QED
    BY <1>3, <2>1, SameLabels DEF Compact
<1>4. CASE Manage
  BY <1>0, <1>4, CreateLabels, RelabelLabels, DeleteLabels DEF Manage
<1>5. ASSUME NEW r \in Runs, Close(r) \/ StoreSummary(r) PROVE LabelsAgree'
  BY <1>1, <1>2, <1>3, <1>5 DEF Close, StoreSummary
<1>6. CASE UNCHANGED vars
  BY <1>1, <1>6 DEF vars
<1>7. QED
  BY <1>1, <1>4, <1>5, <1>6 DEF Next, Advance, Start, Refuse, Take, Load, SummaryFails,
     GiveUp, Prompt, Step, Release, Crash

\* The label index and the session rows never disagree, for any number of
\* executors.
THEOREM LabelsCorrect == Spec => []LabelsAgree
<1>1. Init => LabelsAgree
  BY DEF Init, StoreInit, LabelsAgree
<1>2. QED
  BY <1>1, InvHolds, StepLabels, PTL DEF Spec

\* Turns, session rows and label index agree, for any number of executors.
THEOREM TablesCorrect == Spec => []TablesAgree
<1>1. CountsAgree /\ LabelsAgree => TablesAgree
  BY DEF TablesAgree
<1>2. QED
  BY <1>1, CountsCorrect, LabelsCorrect, PTL

-----------------------------------------------------------------------------
(* One run at a time. *)

HoldInv ==
    /\ \A r \in Runs : stage[r] \in Holding => of[r] \in active_sessions[on[r]]
    /\ \A r, q \in Runs :
           /\ stage[r] \in Holding /\ stage[q] \in Holding
           /\ on[r] = on[q] /\ of[r] = of[q]
           => r = q
    /\ \A r \in Runs : stage[r] \in Holding \cup {"started"} => of[r] \in minted

LEMMA InitHoldInv == Init => HoldInv
  BY DEF Init, HoldInv, Holding

\* A step that moves a run within Holding and leaves the busy sets alone.
LEMMA StayingHoldInv ==
  ASSUME Inv, HoldInv, NEW r \in Runs, stage[r] \in Holding,
         NEW to \in Holding, stage' = [stage EXCEPT ![r] = to],
         minted' = minted, UNCHANGED <<active_sessions, on, of>>
  PROVE  HoldInv'
  BY DEF Inv, RunInv, HoldInv, Holding

LEMMA StepHoldInv == Inv /\ HoldInv /\ [Next]_vars => HoldInv'
<1> SUFFICES ASSUME Inv, HoldInv, [Next]_vars PROVE HoldInv'
  OBVIOUS
<1>0. RunInv /\ StoreInv
  BY DEF Inv
<1>1. CASE UNCHANGED vars
  BY <1>1 DEF vars, runVars, storeVars, HoldInv
<1>2. ASSUME NEW r \in Runs, NEW e \in Executors, NEW s \in Sessions, NEW p \in Policies,
             Start(r, e, s, p)
      PROVE HoldInv'
  <2>1. s \in minted
    BY <1>0, <1>2 DEF Start, StoreInv, StoreTypeOK
  <2>2. QED
    BY <1>0, <1>2, <2>1 DEF Start, RunInv, HoldInv, Holding, storeVars
<1>3. ASSUME NEW r \in Runs, Refuse(r) PROVE HoldInv'
  BY <1>0, <1>3 DEF Refuse, Ended, RunInv, HoldInv, Holding, storeVars
<1>4. ASSUME NEW r \in Runs, Take(r) PROVE HoldInv'
  <2>1. \A q \in Runs : stage'[q] \in Holding => q = r \/ stage[q] \in Holding
    BY <1>0, <1>4 DEF Take, RunInv
  <2>2. \A q \in Runs : of[q] \in active_sessions[on[q]] => of[q] \in active_sessions'[on[q]]
    BY <1>0, <1>4 DEF Take, RunInv
  <2>3. of[r] \in active_sessions'[on[r]] /\ of[r] \notin active_sessions[on[r]]
    BY <1>0, <1>4 DEF Take, Busy, RunInv
  <2>4. on' = on /\ of' = of /\ minted' = minted /\ of[r] \in minted
    BY <1>4 DEF Take, HoldInv, storeVars
  <2>5. ASSUME NEW q \in Runs, NEW t \in Runs, stage'[q] \in Holding, stage'[t] \in Holding,
               on[q] = on[t], of[q] = of[t]
        PROVE q = t
    BY <2>1, <2>3, <2>5 DEF HoldInv
  <2>6. \A q \in Runs : stage'[q] \in Holding \cup {"started"} => of[q] \in minted
    BY <2>1, <2>4, <1>0, <1>4 DEF Take, RunInv, HoldInv
  <2>7. \A q \in Runs : stage'[q] \in Holding => of[q] \in active_sessions'[on[q]]
    BY <2>1, <2>2, <2>3 DEF HoldInv
  <2>8. QED
    BY <2>4, <2>5, <2>6, <2>7 DEF HoldInv
<1>5. ASSUME NEW r \in Runs, Load(r) PROVE HoldInv'
  <2>1. AfterLoad(r) \in Holding
    BY DEF AfterLoad, Holding
  <2>2. \E to \in Holding : stage' = [stage EXCEPT ![r] = to]
    BY <1>5, <2>1 DEF Load, Holding
  <2>3. QED
    BY <1>5, <2>2, StayingHoldInv DEF Load, Holding, storeVars
<1>6. ASSUME NEW r \in Runs,
             StoreSummary(r) \/ SummaryFails(r) \/ GiveUp(r) \/ Prompt(r) \/ Step(r) \/ Close(r)
      PROVE HoldInv'
  <2>1. minted' = minted /\ UNCHANGED <<active_sessions, on, of>>
    BY <1>6 DEF StoreSummary, SummaryFails, GiveUp, Prompt, Step, Close, Compact,
                AppendTurns, storeVars
  <2>2. stage[r] \in Holding
    BY <1>6 DEF StoreSummary, SummaryFails, GiveUp, Prompt, Step, Close, Holding
  <2>3. \E to \in Holding : stage' = [stage EXCEPT ![r] = to]
    BY <1>0, <1>6 DEF StoreSummary, SummaryFails, GiveUp, Prompt, Step, Close, Holding, RunInv
  <2>4. QED
    BY <2>1, <2>2, <2>3, StayingHoldInv
<1>7. ASSUME NEW r \in Runs, Release(r) PROVE HoldInv'
  <2>1. \A q \in Runs : stage'[q] \in Holding \cup {"started"} =>
            /\ q # r /\ stage'[q] = stage[q] /\ on'[q] = on[q] /\ of'[q] = of[q]
    BY <1>7 DEF Release, Ended, Holding
  <2>2. stage[r] \in Holding /\ minted' = minted
    BY <1>7 DEF Release, Holding, storeVars
  <2>3. ASSUME NEW q \in Runs, stage'[q] \in Holding
        PROVE of'[q] \in active_sessions'[on'[q]]
    <3>1. /\ q # r /\ stage[q] \in Holding /\ on'[q] = on[q] /\ of'[q] = of[q]
          /\ of[q] \in active_sessions[on[q]]
      BY <2>1, <2>3 DEF HoldInv
    <3>2. on[q] # on[r] \/ of[q] # of[r]
      BY <2>2, <3>1 DEF HoldInv
    <3>3. QED
      BY <1>0, <1>7, <3>1, <3>2 DEF Release, RunInv
  <2>4. QED
    BY <2>1, <2>2, <2>3 DEF HoldInv
<1>8. CASE Crash
  <2>1. \A r \in Runs : stage'[r] \in {"idle", "done"}
    BY <1>8 DEF Crash, Ended
  <2>2. QED
    BY <2>1 DEF HoldInv, Holding
<1>9. CASE Manage
  <2>1. minted \subseteq minted'
    BY <1>9 DEF Manage, Create, Relabel, Delete
  <2>2. QED
    BY <1>9, <2>1 DEF Manage, runVars, HoldInv
<1>10. QED
  BY <1>1, <1>2, <1>3, <1>4, <1>5, <1>6, <1>7, <1>8, <1>9 DEF Next, Advance

\* With one executor a session has one run at a time.
THEOREM OneRun ==
  ASSUME \A e, f \in Executors : e = f
  PROVE  Spec => []OneRunPerSession
<1>1. Inv /\ HoldInv => OneRunPerSession
  BY DEF Inv, RunInv, HoldInv, OneRunPerSession
<1>2. Init => Inv /\ HoldInv
  BY InitInv, InitHoldInv
<1>3. Inv /\ HoldInv /\ [Next]_vars => (Inv /\ HoldInv)'
  BY StepInv, StepHoldInv
<1>4. QED
  BY <1>1, <1>2, <1>3, PTL DEF Spec

-----------------------------------------------------------------------------
(* Sessions are chats. *)

Knowing == {"summarizing", "ready", "running"}

\* What a run was given is what its session still says.
ChatInv ==
    \A r \in Runs :
        of[r] \in stored =>
            /\ stage[r] = "summarizing" => history[r] = turns[of[r]]
            /\ stage[r] \in Knowing => Said(history[r]) = Said(turns[of[r]])

OneExecutor == \A e, f \in Executors : e = f

\* The session of a run that knows it is touched by no other run.
LEMMA NobodyElse ==
  ASSUME OneExecutor, Inv, HoldInv, NEW r \in Runs, NEW q \in Runs,
         stage[r] \in Holding, stage[q] \in Holding, of[r] = of[q]
  PROVE  r = q
  BY DEF OneExecutor, Inv, RunInv, HoldInv

LEMMA InitChatInv == Init => ChatInv
  BY DEF Init, ChatInv, Knowing

\* What StoreSummary does to the two tables it folds: the same.
LEMMA SummaryStored ==
  ASSUME Inv, ChatInv, NEW r \in Runs, StoreSummary(r)
  PROVE  /\ of[r] \in stored
         /\ history'[r] = turns'[of[r]]
         /\ Said(turns'[of[r]]) = Said(turns[of[r]])
         /\ Said(turns[of[r]]) = Said(history[r])
         /\ stored' = stored
         /\ \A t \in stored : t # of[r] => turns'[t] = turns[t]
         /\ \A q \in Runs : q # r => history'[q] = history[q]
<1>1. PICK n \in LastCut(history[r], policy[r].keep_recent) :
          /\ Compact(of[r], n, Summary(history[r], n))
          /\ history' = [history EXCEPT ![r] = Folded(@, n, Summary(history[r], n))]
  BY DEF StoreSummary
<1> DEFINE summary == Summary(history[r], n)
<1>2. of[r] \in stored /\ stored' = stored /\ stage[r] = "summarizing"
  BY <1>1 DEF Compact, StoreSummary
<1>3. history[r] = turns[of[r]] /\ IsTable(history[r])
  BY <1>2 DEF ChatInv, Inv, RunInv
<1>4. /\ summary \in Turn
      /\ summary.holds = UNION {history[r][k].holds : k \in Oldest(history[r], n)}
  BY <1>3, SummaryType
<1>5. Oldest(turns[of[r]], n) # {}
  BY <1>1 DEF Compact
<1>6. /\ turns'[of[r]] = Folded(turns[of[r]], n, summary)
      /\ \A t \in stored : t # of[r] => turns'[t] = turns[t]
  BY <1>1, <1>4, CompactStoreInv DEF Inv
<1>7. Said(Folded(turns[of[r]], n, summary)) = Said(turns[of[r]])
  BY <1>3, <1>4, <1>5, FoldedTable
<1>8. /\ history'[r] = Folded(turns[of[r]], n, summary)
      /\ \A q \in Runs : q # r => history'[q] = history[q]
  BY <1>1, <1>3 DEF Inv, RunInv
<1>9. QED
  BY <1>2, <1>3, <1>6, <1>7, <1>8

LEMMA StepChatInv ==
  ASSUME OneExecutor
  PROVE  Inv /\ HoldInv /\ ChatInv /\ [Next]_vars => ChatInv'
<1> SUFFICES ASSUME Inv, HoldInv, ChatInv, [Next]_vars PROVE ChatInv'
  OBVIOUS
<1>0. RunInv /\ StoreInv
  BY DEF Inv
<1>1. CASE UNCHANGED vars
  BY <1>1 DEF vars, runVars, storeVars, ChatInv
<1>2. ASSUME NEW r \in Runs, NEW e \in Executors, NEW s \in Sessions, NEW p \in Policies,
             Start(r, e, s, p)
      PROVE ChatInv'
  BY <1>0, <1>2 DEF Start, RunInv, ChatInv, Knowing, storeVars
<1>3. ASSUME NEW r \in Runs, Refuse(r) \/ Release(r) PROVE ChatInv'
  BY <1>3 DEF Refuse, Release, Ended, ChatInv, Knowing, storeVars
<1>4. ASSUME NEW r \in Runs, Take(r) PROVE ChatInv'
  BY <1>0, <1>4 DEF Take, RunInv, ChatInv, Knowing, storeVars
<1>5. ASSUME NEW r \in Runs, Load(r) PROVE ChatInv'
  <2>1. /\ of' = of /\ stored' = stored /\ turns' = turns
        /\ \A q \in Runs : q # r => stage'[q] = stage[q] /\ history'[q] = history[q]
    BY <1>0, <1>5 DEF Load, RunInv, storeVars
  <2>2. of[r] \in stored => history'[r] = turns[of[r]]
    BY <1>0, <1>5 DEF Load, RunInv
  <2>3. QED
    BY <2>1, <2>2 DEF ChatInv
<1>6. ASSUME NEW r \in Runs, StoreSummary(r) PROVE ChatInv'
  <2>1. /\ history'[r] = turns'[of[r]]
        /\ stored' = stored
        /\ \A t \in stored : t # of[r] => turns'[t] = turns[t]
        /\ \A q \in Runs : q # r => history'[q] = history[q]
    BY <1>6, SummaryStored
  <2>2. of' = of /\ stage' = [stage EXCEPT ![r] = "ready"] /\ stage[r] \in Holding
    BY <1>6 DEF StoreSummary, Holding
  <2>3. ASSUME NEW q \in Runs, q # r, of[q] \in stored, stage[q] \in Knowing
        PROVE of[q] # of[r]
    BY <2>2, <2>3, NobodyElse DEF Knowing, Holding
  <2>4. QED
    BY <1>0, <2>1, <2>2, <2>3 DEF RunInv, ChatInv, Knowing
<1>7. ASSUME NEW r \in Runs, SummaryFails(r) \/ GiveUp(r) \/ Prompt(r) \/ Step(r)
      PROVE ChatInv'
  BY <1>0, <1>7 DEF SummaryFails, GiveUp, Prompt, Step, RunInv, ChatInv, Knowing, storeVars
<1>8. ASSUME NEW r \in Runs, Close(r) PROVE ChatInv'
  <2>1. /\ of' = of /\ history' = history /\ stage' = [stage EXCEPT ![r] = "closing"]
        /\ stage[r] \in Holding
    BY <1>8 DEF Close, Holding
  <2>2. stored' = stored /\ \A t \in stored : t # of[r] => turns'[t] = turns[t]
    BY <1>0, <1>8 DEF Close, AppendTurns, StoreInv, StoreTypeOK, storeVars
  <2>3. ASSUME NEW q \in Runs, q # r, of[q] \in stored, stage[q] \in Knowing
        PROVE of[q] # of[r]
    BY <2>1, <2>3, NobodyElse DEF Knowing, Holding
  <2>4. QED
    BY <1>0, <2>1, <2>2, <2>3 DEF RunInv, ChatInv, Knowing
<1>9. CASE Crash
  BY <1>9 DEF Crash, Ended, ChatInv, Knowing
<1>10. CASE Manage
  <2>1. UNCHANGED runVars
    BY <1>10 DEF Manage
  <2>2. ASSUME NEW r \in Runs, of[r] \in stored', stage[r] \in Knowing
        PROVE of[r] \in stored /\ turns'[of[r]] = turns[of[r]]
    <3>1. of[r] \in minted
      BY <2>2 DEF HoldInv, Knowing, Holding
    <3>2. QED
      BY <1>10, <2>2, <3>1 DEF Manage, Create, Relabel, Delete
  <2>3. QED
    BY <2>1, <2>2 DEF runVars, ChatInv, Knowing
<1>11. QED
  BY <1>1, <1>2, <1>3, <1>4, <1>5, <1>6, <1>7, <1>8, <1>9, <1>10 DEF Next, Advance

ChatSaid == [s \in Sessions |-> IF s \in stored THEN Said(turns[s]) ELSE {}]

ChatHeard == [r \in Runs |-> Heard(r)]

LEMMA InitChat == Init => Chat!Init
  BY DEF Init, StoreInit, Chat!Init, Heard

LEMMA StepChat ==
  ASSUME OneExecutor
  PROVE  Inv /\ HoldInv /\ ChatInv /\ [Next]_vars => [Chat!Next]_(Chat!chatVars)
<1> SUFFICES ASSUME Inv, HoldInv, ChatInv, [Next]_vars
             PROVE  Chat!Next \/ UNCHANGED Chat!chatVars
  BY DEF Chat!Next
<1>0. RunInv /\ StoreInv /\ stored \subseteq Sessions
  BY DEF Inv, StoreInv, StoreTypeOK
<1>a. ASSUME stored' = stored, ChatSaid' = ChatSaid, ChatHeard' = ChatHeard
      PROVE  UNCHANGED Chat!chatVars
  BY <1>a DEF Chat!chatVars, ChatSaid, ChatHeard
<1>b. ASSUME UNCHANGED storeVars
      PROVE  stored' = stored /\ ChatSaid' = ChatSaid
  BY <1>b DEF storeVars, ChatSaid
<1>c. ASSUME NEW gone \in SUBSET Runs, UNCHANGED storeVars,
             ChatHeard' = [r \in Runs |-> IF r \in gone THEN {} ELSE Heard(r)]
      PROVE  Chat!Next
  <2>1. Chat!Leave(gone)
    BY <1>b, <1>c DEF Chat!Leave, ChatSaid, ChatHeard
  <2>2. QED
    BY <2>1 DEF Chat!Next
<1>1. CASE UNCHANGED vars
  <2>1. ChatHeard' = ChatHeard
    BY <1>1 DEF vars, runVars, ChatHeard, Heard
  <2>2. QED
    BY <1>1, <2>1, <1>a, <1>b DEF vars
<1>2. ASSUME NEW r \in Runs, NEW e \in Executors, NEW s \in Sessions, NEW p \in Policies,
             Start(r, e, s, p)
      PROVE UNCHANGED Chat!chatVars
  <2>1. ChatHeard' = ChatHeard
    BY <1>0, <1>2 DEF Start, RunInv, ChatHeard, Heard
  <2>2. QED
    BY <1>2, <2>1, <1>a, <1>b DEF Start
<1>3. ASSUME NEW r \in Runs, Refuse(r) \/ Release(r) PROVE UNCHANGED Chat!chatVars
  <2>1. ChatHeard' = ChatHeard
    BY <1>0, <1>3 DEF Refuse, Release, Ended, RunInv, ChatHeard, Heard
  <2>2. QED
    BY <1>3, <2>1, <1>a, <1>b DEF Refuse, Release
<1>4. ASSUME NEW r \in Runs, Take(r) \/ SummaryFails(r) \/ Prompt(r) \/ Step(r)
      PROVE UNCHANGED Chat!chatVars
  <2>1. ChatHeard' = ChatHeard
    BY <1>0, <1>4 DEF Take, SummaryFails, Prompt, Step, RunInv, ChatHeard, Heard
  <2>2. QED
    BY <1>4, <2>1, <1>a, <1>b DEF Take, SummaryFails, Prompt, Step
<1>5. ASSUME NEW r \in Runs, Load(r) PROVE Chat!Next \/ UNCHANGED Chat!chatVars
  <2>1. stored' = stored /\ ChatSaid' = ChatSaid
    BY <1>5, <1>b DEF Load
  <2>2. CASE stage'[r] \in Knowing
    <3>1. of[r] \in stored /\ history' = [history EXCEPT ![r] = turns[of[r]]]
          /\ stage[r] = "holding"
      BY <1>0, <1>5, <2>2 DEF Load, RunInv, Knowing
    <3>2. Heard(r) = {} /\ Heard(r)' = {Said(turns[of[r]])}
      BY <1>0, <2>2, <3>1 DEF Heard, Knowing, RunInv
    <3>3. ChatHeard' = [ChatHeard EXCEPT ![r] = {ChatSaid[of[r]]}]
      BY <1>0, <1>5, <3>1, <3>2 DEF Load, RunInv, ChatHeard, ChatSaid, Heard
    <3>4. Chat!Hear(r, of[r])
      BY <1>0, <2>1, <3>1, <3>2, <3>3 DEF Chat!Hear, ChatHeard, ChatSaid, RunInv
    <3>5. QED
      BY <1>0, <3>4 DEF Chat!Next, RunInv
  <2>3. CASE stage'[r] \notin Knowing
    <3>1. ChatHeard' = ChatHeard
      BY <1>0, <1>5, <2>3 DEF Load, RunInv, ChatHeard, Heard, Knowing
    <3>2. QED
      BY <2>1, <3>1, <1>a
  <2>4. QED
    BY <2>2, <2>3
<1>6. ASSUME NEW r \in Runs, StoreSummary(r) PROVE UNCHANGED Chat!chatVars
  <2>1. /\ of[r] \in stored
        /\ history'[r] = turns'[of[r]]
        /\ Said(turns'[of[r]]) = Said(turns[of[r]])
        /\ Said(turns[of[r]]) = Said(history[r])
        /\ stored' = stored
        /\ \A t \in stored : t # of[r] => turns'[t] = turns[t]
        /\ \A q \in Runs : q # r => history'[q] = history[q]
    BY <1>6, SummaryStored
  <2>2. ChatSaid' = ChatSaid
    BY <2>1 DEF ChatSaid
  <2>3. stage' = [stage EXCEPT ![r] = "ready"] /\ stage[r] = "summarizing"
    BY <1>6 DEF StoreSummary
  <2>4. \A q \in Runs : Heard(q)' = Heard(q)
    BY <1>0, <2>1, <2>3 DEF Heard, RunInv
  <2>5. ChatHeard' = ChatHeard
    BY <2>4 DEF ChatHeard
  <2>6. QED
    BY <2>1, <2>2, <2>5, <1>a
<1>7. ASSUME NEW r \in Runs, GiveUp(r) PROVE Chat!Next
  <2>1. UNCHANGED storeVars
    BY <1>7 DEF GiveUp
  <2>2. ChatHeard' = [q \in Runs |-> IF q \in {r} THEN {} ELSE Heard(q)]
    BY <1>0, <1>7 DEF GiveUp, RunInv, ChatHeard, Heard
  <2>3. QED
    BY <2>1, <2>2, <1>c
<1>8. ASSUME NEW r \in Runs, Close(r) PROVE Chat!Next
  <2>1. ChatHeard' = [q \in Runs |-> IF q \in {r} THEN {} ELSE Heard(q)]
    BY <1>0, <1>8 DEF Close, RunInv, ChatHeard, Heard
  <2>2. CASE UNCHANGED storeVars
    BY <2>1, <2>2, <1>c
  <2>3. CASE AppendTurns(of[r], Closed(r))
    <3>1. of[r] \in stored /\ stored' = stored /\ stage[r] = "running" /\ of[r] \in Sessions
      BY <1>0, <1>8, <2>3 DEF AppendTurns, Close, RunInv
    <3>2. /\ Said(turns[of[r]]) \subseteq Said(turns'[of[r]])
          /\ \A t \in stored : t # of[r] => turns'[t] = turns[t]
      BY <1>0, <2>3, ClosedType, AppendStoreInv
    <3>3. Heard(r) = {Said(turns[of[r]])}
      BY <3>1 DEF ChatInv, Heard, Knowing
    <3>4. ChatSaid' = [ChatSaid EXCEPT ![of[r]] = ChatSaid'[of[r]]]
      BY <3>1, <3>2 DEF ChatSaid
    <3>5. ChatHeard' = [ChatHeard EXCEPT ![r] = {}]
      BY <2>1 DEF ChatHeard
    <3>6. /\ ChatHeard[r] = {ChatSaid[of[r]]}
          /\ ChatSaid[of[r]] \subseteq ChatSaid'[of[r]]
      BY <3>1, <3>2, <3>3 DEF ChatHeard, ChatSaid
    <3>7. PICK s \in Sessions : s = of[r]
      BY <3>1
    <3>8. Chat!Speak(r, s)
      BY <3>1, <3>4, <3>5, <3>6, <3>7 DEF Chat!Speak, ChatHeard, ChatSaid
    <3>9. QED
      BY <3>8 DEF Chat!Next
  <2>4. QED
    BY <1>8, <2>2, <2>3 DEF Close
<1>9. CASE Crash
  <2>1. UNCHANGED storeVars
    BY <1>9 DEF Crash
  <2>2. \A r \in Runs : Heard(r)' = {}
    BY <1>9 DEF Crash, Ended, Heard
  <2>3. ChatHeard' = [r \in Runs |-> IF r \in Runs THEN {} ELSE Heard(r)]
    BY <2>2 DEF ChatHeard
  <2>4. QED
    BY <2>1, <2>3, <1>c
<1>10. CASE Manage
  <2>1. ChatHeard' = ChatHeard
    BY <1>10 DEF Manage, runVars, ChatHeard, Heard
  <2>2. ASSUME NEW s \in Sessions, NEW o \in Owners, NEW l \in Labels \cup {NoLabel},
               Create(s, o, l)
        PROVE Chat!Next
    <3>1. stored' = stored \cup {s} /\ s \notin stored
          /\ turns'[s] = NoTurns /\ \A t \in stored : turns'[t] = turns[t]
      BY <1>0, <2>2 DEF Create, StoreInv, StoreTypeOK
    <3>2. ChatSaid' = [ChatSaid EXCEPT ![s] = {}]
      BY <3>1, EmptyTable DEF ChatSaid
    <3>3. Chat!Open(s)
      BY <2>1, <3>1, <3>2 DEF Chat!Open, ChatSaid, ChatHeard
    <3>4. QED
      BY <3>3 DEF Chat!Next
  <2>3. ASSUME NEW s \in Sessions, NEW l \in Labels \cup {NoLabel}, Relabel(s, l)
        PROVE UNCHANGED Chat!chatVars
    <3>1. stored' = stored /\ ChatSaid' = ChatSaid
      BY <2>3 DEF Relabel, ChatSaid
    <3>2. QED
      BY <2>1, <3>1, <1>a
  <2>4. ASSUME NEW s \in Sessions, Delete(s) PROVE Chat!Next
    <3>1. stored' = stored \ {s} /\ \A t \in stored' : turns'[t] = turns[t]
      BY <2>4 DEF Delete
    <3>2. ChatSaid' = [ChatSaid EXCEPT ![s] = {}]
      BY <3>1 DEF ChatSaid
    <3>3. Chat!Forget(s)
      BY <2>1, <3>1, <3>2 DEF Chat!Forget, ChatSaid, ChatHeard
    <3>4. QED
      BY <3>3 DEF Chat!Next
  <2>5. QED
    BY <1>10, <2>2, <2>3, <2>4 DEF Manage
<1>11. QED
  BY <1>1, <1>2, <1>3, <1>4, <1>5, <1>6, <1>7, <1>8, <1>9, <1>10 DEF Next, Advance

\* With one executor sessions keep SessionChat's promise: every run hears all
\* that was said, in full or in summary, and speaks directly after it.
THEOREM RunsImplementChat ==
  ASSUME OneExecutor
  PROVE  Spec => ImplementsChat
<1>1. Init => Inv /\ HoldInv /\ ChatInv
  BY InitInv, InitHoldInv, InitChatInv
<1>2. Inv /\ HoldInv /\ ChatInv /\ [Next]_vars => (Inv /\ HoldInv /\ ChatInv)'
  BY StepInv, StepHoldInv, StepChatInv
<1>3. Spec => [](Inv /\ HoldInv /\ ChatInv)
  BY <1>1, <1>2, PTL DEF Spec
<1>4. Init => Chat!Init
  BY InitChat
<1>5. Inv /\ HoldInv /\ ChatInv /\ [Next]_vars => [Chat!Next]_(Chat!chatVars)
  BY StepChat
<1>6. QED
  BY <1>3, <1>4, <1>5, PTL DEF Spec, ImplementsChat, Chat!Spec

-----------------------------------------------------------------------------
(* Conversations a provider accepts. *)

\* Nothing of the table lies between two of its numbers.
Adjacent(table, j, k) == j < k /\ \A i \in DOMAIN table : i <= j \/ k <= i

\* HistoryIsValid of one table, said without counting its turns.
Valid(table) ==
    /\ \A k \in DOMAIN table :
           /\ Before(table, k) = {} => table[k].kind \in {"user", "summary"}
           /\ (\A j \in DOMAIN table : j <= k) => table[k].kind = "reply"
    /\ \A j, k \in DOMAIN table :
           Adjacent(table, j, k) => <<table[j].kind, table[k].kind>> \in Follows

\* What a run says: its prompt, and then one message after the other.
Speech(new) ==
    /\ Len(new) > 0
    /\ new[1].kind = "user"
    /\ \A i \in 1 .. Len(new) - 1 : <<new[i].kind, new[i + 1].kind>> \in Follows

\* Each turn has fewer turns before it than the next ones have.
LEMMA BeforeGrows ==
  ASSUME NEW table, IsTable(table), NEW k \in DOMAIN table
  PROVE  /\ IsFiniteSet(Before(table, k)) /\ Cardinality(Before(table, k)) \in Nat
         /\ \A j \in DOMAIN table :
              j < k => Cardinality(Before(table, j)) < Cardinality(Before(table, k))
<1>1. \A j \in DOMAIN table :
        /\ IsFiniteSet(Before(table, j)) /\ Cardinality(Before(table, j)) \in Nat
        /\ j \notin Before(table, j)
  BY FS_Subset, FS_CardinalityType DEF IsTable, Before
<1>2. ASSUME NEW j \in DOMAIN table, j < k
      PROVE  Cardinality(Before(table, j)) < Cardinality(Before(table, k))
  <2>1. Before(table, j) \cup {j} \subseteq Before(table, k)
    BY <1>2 DEF IsTable, Before
  <2>2. /\ IsFiniteSet(Before(table, j) \cup {j})
        /\ Cardinality(Before(table, j) \cup {j}) = Cardinality(Before(table, j)) + 1
    BY <1>1, FS_AddElement
  <2>3. Cardinality(Before(table, j) \cup {j}) <= Cardinality(Before(table, k))
    BY <1>1, <2>1, FS_Subset
  <2>4. QED
    BY <1>1, <2>2, <2>3
<1>3. QED
  BY <1>1, <1>2

\* Every position below the number of turns is taken.
LEMMA PositionTaken ==
  ASSUME NEW table, IsTable(table), NEW p \in 0 .. Cardinality(DOMAIN table) - 1
  PROVE  \E k \in DOMAIN table : Cardinality(Before(table, k)) = p
<1> DEFINE size == Cardinality(DOMAIN table)
           free == {q \in 0 .. size - 1 :
                      \A k \in DOMAIN table : Cardinality(Before(table, k)) # q}
<1>0. size \in Nat /\ DOMAIN table \in SUBSET Nat /\ IsFiniteSet(DOMAIN table)
  BY FS_CardinalityType DEF IsTable
<1>1. SUFFICES ASSUME free # {} PROVE FALSE
  <2>1. p \notin free
    BY <1>1
  <2>2. QED
    BY <2>1
<1>2. PICK q \in free : \A t \in free : q <= t
  <2>1. free \in SUBSET Nat
    BY <1>0
  <2> HIDE DEF free
  <2>2. QED
    BY <1>1, <2>1, LeastNumber
<1>3. q \in 0 .. size - 1 /\ \A k \in DOMAIN table : Cardinality(Before(table, k)) # q
  OBVIOUS
<1>4. CASE q = 0
  <2>1. DOMAIN table # {}
    BY <1>0, <1>3, FS_EmptySet
  <2>2. PICK k \in DOMAIN table : \A j \in DOMAIN table : k <= j
    BY <1>0, <2>1, LeastNumber
  <2>3. Before(table, k) = {}
    BY <1>0, <2>2 DEF Before
  <2>4. QED
    BY <1>3, <1>4, <2>3, FS_EmptySet
<1>5. CASE q # 0
  <2>1. q - 1 \in 0 .. size - 1 /\ ~ (q <= q - 1)
    BY <1>0, <1>3, <1>5
  <2>2. q - 1 \notin free
    BY <1>2, <2>1
  <2>3. PICK k \in DOMAIN table : Cardinality(Before(table, k)) = q - 1
    BY <2>1, <2>2
  <2> DEFINE rest == {j \in DOMAIN table : k < j}
             upTo == Before(table, k) \cup {k}
  <2>4. IsFiniteSet(upTo) /\ Cardinality(upTo) = q
    <3>1. IsFiniteSet(Before(table, k)) /\ k \notin Before(table, k)
      BY <1>0, BeforeGrows DEF Before
    <3>2. Cardinality(upTo) = Cardinality(Before(table, k)) + 1 /\ IsFiniteSet(upTo)
      BY <3>1, FS_AddElement
    <3>3. QED
      BY <1>0, <1>3, <2>3, <3>2
  <2>5. rest # {}
    <3>1. SUFFICES ASSUME rest = {} PROVE FALSE
      OBVIOUS
    <3>2. DOMAIN table = upTo
      BY <1>0, <3>1 DEF Before
    <3>3. QED
      BY <1>0, <1>3, <2>4, <3>2
  <2>6. PICK j \in rest : \A i \in rest : j <= i
    BY <1>0, <2>5, LeastNumber
  <2>7. Before(table, j) = upTo
    BY <1>0, <2>6 DEF Before
  <2>8. QED
    BY <1>3, <2>4, <2>6, <2>7
<1>6. QED
  BY <1>4, <1>5

LEMMA AtPosition ==
  ASSUME NEW table, IsTable(table), NEW p \in 0 .. Cardinality(DOMAIN table) - 1
  PROVE  /\ SeqAt(table, p) \in DOMAIN table
         /\ Cardinality(Before(table, SeqAt(table, p))) = p
  BY PositionTaken DEF SeqAt

\* Turns at consecutive positions are adjacent.
LEMMA NextPosition ==
  ASSUME NEW table, IsTable(table), NEW p \in 1 .. Cardinality(DOMAIN table) - 1
  PROVE  Adjacent(table, SeqAt(table, p - 1), SeqAt(table, p))
<1> DEFINE j == SeqAt(table, p - 1)
           k == SeqAt(table, p)
<1>1. Cardinality(DOMAIN table) \in Nat /\ DOMAIN table \in SUBSET Nat
  BY FS_CardinalityType DEF IsTable
<1>2. /\ p \in 0 .. Cardinality(DOMAIN table) - 1
      /\ p - 1 \in 0 .. Cardinality(DOMAIN table) - 1
  BY <1>1
<1>3. /\ j \in DOMAIN table /\ Cardinality(Before(table, j)) = p - 1
      /\ k \in DOMAIN table /\ Cardinality(Before(table, k)) = p
  BY <1>2, AtPosition
<1> HIDE DEF j, k
<1>4. j < k
  <2>1. ~ (k < j) /\ k # j
    BY <1>1, <1>2, <1>3, BeforeGrows
  <2>2. QED
    BY <1>1, <1>3, <2>1
<1>5. ASSUME NEW i \in DOMAIN table, j < i, i < k PROVE FALSE
  <2>1. /\ Cardinality(Before(table, j)) < Cardinality(Before(table, i))
        /\ Cardinality(Before(table, i)) < Cardinality(Before(table, k))
        /\ Cardinality(Before(table, i)) \in Nat
    BY <1>3, <1>5, BeforeGrows
  <2>2. QED
    BY <1>1, <1>3, <2>1
<1>6. \A i \in DOMAIN table : i <= j \/ k <= i
  BY <1>1, <1>3, <1>5
<1>7. Adjacent(table, j, k)
  BY <1>4, <1>6 DEF Adjacent
<1>8. QED
  BY <1>7 DEF j, k


LEMMA ValidPositions ==
  ASSUME NEW table, IsTable(table), Valid(table), Cardinality(DOMAIN table) > 0
  PROVE  /\ table[SeqAt(table, 0)].kind \in {"user", "summary"}
         /\ table[SeqAt(table, Cardinality(DOMAIN table) - 1)].kind = "reply"
         /\ \A p \in 1 .. Cardinality(DOMAIN table) - 1 :
              <<table[SeqAt(table, p - 1)].kind, table[SeqAt(table, p)].kind>> \in Follows
<1> DEFINE size == Cardinality(DOMAIN table)
<1>1. size \in Nat /\ DOMAIN table \in SUBSET Nat /\ IsFiniteSet(DOMAIN table)
  BY FS_CardinalityType DEF IsTable
<1>2. \A p \in 0 .. size - 1 : /\ SeqAt(table, p) \in DOMAIN table
                               /\ Cardinality(Before(table, SeqAt(table, p))) = p
  BY AtPosition
<1>3. table[SeqAt(table, 0)].kind \in {"user", "summary"}
  <2>1. 0 \in 0 .. size - 1
    BY <1>1
  <2> DEFINE k == SeqAt(table, 0)
  <2>2. k \in DOMAIN table /\ Cardinality(Before(table, k)) = 0
    BY <1>2, <2>1
  <2> HIDE DEF k
  <2>3. Before(table, k) = {}
    BY <2>2, BeforeGrows, FS_EmptySet
  <2>4. table[k].kind \in {"user", "summary"}
    BY <2>2, <2>3 DEF Valid
  <2>5. QED
    BY <2>4 DEF k
<1>4. table[SeqAt(table, size - 1)].kind = "reply"
  <2>1. size - 1 \in 0 .. size - 1
    BY <1>1
  <2> DEFINE k == SeqAt(table, size - 1)
  <2>2. k \in DOMAIN table /\ Cardinality(Before(table, k)) = size - 1
    BY <1>2, <2>1
  <2> HIDE DEF k
  <2>3. ASSUME NEW j \in DOMAIN table, k < j PROVE FALSE
    <3>1. j \notin Before(table, j) /\ Before(table, j) \cup {j} \subseteq DOMAIN table
      BY <1>1 DEF Before
    <3>2. /\ Cardinality(Before(table, k)) < Cardinality(Before(table, j))
          /\ IsFiniteSet(Before(table, j)) /\ Cardinality(Before(table, j)) \in Nat
      BY <2>2, <2>3, BeforeGrows
    <3>3. Cardinality(Before(table, j) \cup {j}) = Cardinality(Before(table, j)) + 1
      BY <3>1, <3>2, FS_AddElement
    <3>4. Cardinality(Before(table, j) \cup {j}) <= size
      BY <1>1, <3>1, FS_Subset
    <3>5. QED
      BY <1>1, <2>2, <3>2, <3>3, <3>4
  <2>4. \A j \in DOMAIN table : j <= k
    BY <1>1, <2>2, <2>3
  <2>5. table[k].kind = "reply"
    BY <2>2, <2>4 DEF Valid
  <2>6. QED
    BY <2>5 DEF k
<1>5. ASSUME NEW p \in 1 .. size - 1
      PROVE  <<table[SeqAt(table, p - 1)].kind, table[SeqAt(table, p)].kind>> \in Follows
  <2>1. p \in 0 .. size - 1 /\ p - 1 \in 0 .. size - 1
    BY <1>1
  <2>2. QED
    BY <1>2, <2>1, NextPosition DEF Valid
<1>6. QED
  BY <1>3, <1>4, <1>5

\* A speech that ends with a reply may follow a conversation.
LEMMA AddedValid ==
  ASSUME NEW table, IsTable(table), Valid(table), NEW next \in Nat,
         \A k \in DOMAIN table : k < next,
         NEW new \in Seq(Turn), Speech(new), new[Len(new)].kind = "reply"
  PROVE  Valid(Added(table, next, new))
<1> DEFINE fresh == next .. next + Len(new) - 1
           longer == Added(table, next, new)
<1>0. Len(new) \in Nat /\ Len(new) > 0 /\ DOMAIN table \in SUBSET Nat
  BY DEF Speech, IsTable
<1>1. /\ DOMAIN longer = DOMAIN table \cup fresh
      /\ next \in fresh /\ next + Len(new) - 1 \in fresh
      /\ \A k \in fresh : k \in Nat /\ k \notin DOMAIN table /\ next <= k
      /\ \A k \in fresh : longer[k] = new[k - next + 1]
      /\ \A k \in DOMAIN table : longer[k] = table[k] /\ k \in Nat
  BY <1>0 DEF Added
<1>a. \A k : k \in fresh <=> k \in Nat /\ next <= k /\ k < next + Len(new)
  BY <1>0
<1>2. longer[next].kind = "user"
  <2>1. longer[next] = new[1]
    BY <1>0, <1>1
  <2>2. QED
    BY <2>1 DEF Speech
<1>3. longer[next + Len(new) - 1].kind = "reply"
  <2>1. longer[next + Len(new) - 1] = new[Len(new)]
    BY <1>0, <1>1
  <2>2. QED
    BY <2>1
<1> HIDE DEF longer
<1>4. ASSUME NEW k \in DOMAIN longer, Before(longer, k) = {}
      PROVE  longer[k].kind \in {"user", "summary"}
  <2>1. CASE k \in DOMAIN table
    <3>1. Before(table, k) = {}
      BY <1>1, <1>4 DEF Before
    <3>2. QED
      BY <1>1, <2>1, <3>1 DEF Valid
  <2>2. CASE k \in fresh
    <3>1. ~ (next < k)
      BY <1>1, <1>4 DEF Before
    <3>2. k = next
      BY <1>1, <2>2, <3>1
    <3>3. QED
      BY <1>2, <3>2
  <2>3. QED
    BY <1>1, <2>1, <2>2
<1>5. ASSUME NEW k \in DOMAIN longer, \A j \in DOMAIN longer : j <= k
      PROVE  longer[k].kind = "reply"
  <2>1. next + Len(new) - 1 <= k
    BY <1>1, <1>5
  <2>2. k = next + Len(new) - 1
    BY <1>0, <1>1, <2>1
  <2>3. QED
    BY <1>3, <2>2
<1>6. ASSUME NEW j \in DOMAIN longer, NEW k \in DOMAIN longer, Adjacent(longer, j, k)
      PROVE  <<longer[j].kind, longer[k].kind>> \in Follows
  <2>0. j < k /\ \A i \in DOMAIN longer : i <= j \/ k <= i
    BY <1>6 DEF Adjacent
  <2>1. CASE j \in DOMAIN table /\ k \in DOMAIN table
    <3>1. Adjacent(table, j, k)
      BY <1>1, <2>0 DEF Adjacent
    <3>2. QED
      BY <1>1, <2>1, <3>1 DEF Valid
  <2>2. CASE j \in DOMAIN table /\ k \in fresh
    <3>1. k = next
      <4>1. j < next /\ next \in DOMAIN longer /\ j \in Nat
        BY <1>1, <2>2
      <4>2. next <= j \/ k <= next
        BY <2>0, <4>1
      <4>3. k \in Nat /\ next <= k
        BY <1>a, <2>2
      <4>4. QED
        BY <4>1, <4>2, <4>3
    <3>2. \A i \in DOMAIN table : i <= j
      BY <1>0, <1>1, <2>0, <3>1
    <3>3. longer[j].kind = "reply" /\ longer[k].kind = "user"
      BY <1>1, <1>2, <2>2, <3>1, <3>2 DEF Valid
    <3>4. QED
      BY <3>3 DEF Follows
  <2>3. CASE j \in fresh /\ k \in fresh
    <3>0. /\ j \in Nat /\ next <= j /\ j < k
          /\ k \in Nat /\ k < next + Len(new)
      BY <1>a, <2>0, <2>3
    <3>1. j + 1 \in fresh
      BY <1>0, <1>a, <3>0
    <3>2. k = j + 1
      <4>1. j + 1 <= j \/ k <= j + 1
        BY <1>1, <2>0, <3>1
      <4>2. QED
        BY <3>0, <4>1
    <3> DEFINE i == j - next + 1
    <3>3. i \in 1 .. Len(new) - 1 /\ longer[j] = new[i] /\ longer[k] = new[i + 1]
      BY <1>0, <1>1, <2>3, <3>1, <3>2
    <3> HIDE DEF i
    <3>4. QED
      BY <3>3 DEF Speech
  <2>4. CASE j \in fresh /\ k \in DOMAIN table
    BY <1>0, <1>1, <2>0, <2>4
  <2>5. QED
    BY <1>1, <2>1, <2>2, <2>3, <2>4
<1>7. Valid(longer)
  BY <1>4, <1>5, <1>6 DEF Valid
<1>8. QED
  BY <1>7 DEF longer

\* A summary may take the place of all that was said before a message of the
\* user.
LEMMA FoldedValid ==
  ASSUME NEW table, IsTable(table), Valid(table),
         NEW n \in 1 .. Cardinality(DOMAIN table) - 1,
         table[SeqAt(table, n)].kind \in {"user", "summary"},
         NEW summary, summary.kind = "summary"
  PROVE  Valid(Folded(table, n, summary))
<1> DEFINE m == SeqAt(table, n)
           i == SeqAt(table, n - 1)
           f == First(Oldest(table, n))
           folded == Folded(table, n, summary)
<1>1. Cardinality(DOMAIN table) \in Nat /\ DOMAIN table \in SUBSET Nat
  BY FS_CardinalityType DEF IsTable
<1>2. n \in 0 .. Cardinality(DOMAIN table) - 1 /\ n - 1 \in 0 .. Cardinality(DOMAIN table) - 1
  BY <1>1
<1>3. /\ m \in DOMAIN table /\ Cardinality(Before(table, m)) = n
      /\ i \in DOMAIN table /\ Cardinality(Before(table, i)) = n - 1
      /\ Adjacent(table, i, m) /\ table[m].kind \in {"user", "summary"}
  BY <1>2, AtPosition, NextPosition
<1> HIDE DEF m, i
<1>4. table[m].kind = "user"
  <2>1. <<table[i].kind, table[m].kind>> \in Follows
    BY <1>3 DEF Valid
  <2>2. QED
    BY <1>3, <2>1 DEF Follows
<1>5. Oldest(table, n) = {k \in DOMAIN table : k < m}
  <2>1. ASSUME NEW k \in DOMAIN table PROVE Cardinality(Before(table, k)) < n <=> k < m
    <3>1. k < m => Cardinality(Before(table, k)) < n
      BY <1>3, BeforeGrows
    <3>2. m < k => n < Cardinality(Before(table, k))
      BY <1>3, BeforeGrows
    <3>3. Cardinality(Before(table, k)) \in Nat
      BY BeforeGrows
    <3>4. QED
      BY <1>1, <1>3, <3>1, <3>2, <3>3
  <2>2. QED
    BY <2>1 DEF Oldest
<1>6. f \in DOMAIN table /\ f < m
  <2>1. i \in Oldest(table, n) /\ Oldest(table, n) \in SUBSET Nat
    BY <1>1, <1>3, <1>5 DEF Adjacent
  <2>2. f \in Oldest(table, n)
    BY <2>1, FirstIsMember
  <2>3. QED
    BY <1>5, <2>2
<1>7. /\ DOMAIN folded = {k \in DOMAIN table : m <= k} \cup {f}
      /\ folded[f] = summary
      /\ \A k \in DOMAIN table : m <= k => folded[k] = table[k]
  BY <1>1, <1>3, <1>5, <1>6 DEF Folded
<1> HIDE DEF f, folded
<1>8. /\ m \in DOMAIN folded /\ f \in DOMAIN folded
      /\ \A k \in DOMAIN folded : k = f \/ (k \in DOMAIN table /\ m <= k /\ f < k)
  BY <1>1, <1>3, <1>6, <1>7
<1>9. ASSUME NEW k \in DOMAIN folded, Before(folded, k) = {}
      PROVE  folded[k].kind \in {"user", "summary"}
  BY <1>7, <1>8, <1>9 DEF Before
<1>10. ASSUME NEW k \in DOMAIN folded, \A j \in DOMAIN folded : j <= k
       PROVE  folded[k].kind = "reply"
  <2>1. k # f /\ k \in DOMAIN table /\ m <= k
    BY <1>1, <1>6, <1>8, <1>10
  <2>2. \A j \in DOMAIN table : j <= k
    BY <1>1, <1>3, <1>7, <1>10, <2>1
  <2>3. QED
    BY <1>7, <2>1, <2>2 DEF Valid
<1>11. ASSUME NEW j \in DOMAIN folded, NEW k \in DOMAIN folded, Adjacent(folded, j, k)
       PROVE  <<folded[j].kind, folded[k].kind>> \in Follows
  <2>0. j < k /\ \A l \in DOMAIN folded : l <= j \/ k <= l
    BY <1>11 DEF Adjacent
  <2>1. k # f /\ k \in DOMAIN table /\ m <= k /\ f < k
    BY <1>1, <1>6, <1>8, <2>0
  <2>2. CASE j = f
    <3>1. k = m
      BY <1>1, <1>3, <1>6, <1>8, <2>0, <2>1, <2>2
    <3>2. folded[j].kind = "summary" /\ folded[k].kind = "user"
      BY <1>1, <1>3, <1>4, <1>7, <2>2, <3>1
    <3>3. QED
      BY <3>2 DEF Follows
  <2>3. CASE j # f
    <3>1. j \in DOMAIN table /\ m <= j
      BY <1>8, <2>3
    <3>2. Adjacent(table, j, k)
      BY <1>1, <1>3, <1>7, <2>0, <2>1, <3>1 DEF Adjacent
    <3>3. QED
      BY <1>7, <2>1, <3>1, <3>2 DEF Valid
  <2>4. QED
    BY <2>2, <2>3
<1>12. Valid(folded)
  BY <1>9, <1>10, <1>11 DEF Valid
<1>13. QED
  BY <1>12 DEF folded


\* What is stored is a conversation, what a run has said so far can be closed
\* with a reply, and a run that summarizes keeps at least one turn.
TalkInv ==
    /\ \A s \in stored : Valid(turns[s])
    /\ \A r \in Runs :
           /\ stage[r] = "running" =>
                Speech(progress[r])
                /\ progress[r][Len(progress[r])].kind \in {"user", "result"}
           /\ stage[r] = "summarizing" => policy[r].keep_recent # 0

LEMMA InitTalkInv == Init => TalkInv
  BY DEF Init, StoreInit, TalkInv

\* A step at one session's turns.
LEMMA StoredValid ==
  ASSUME TalkInv, NEW s \in stored, Valid(turns'[s]), stored' = stored,
         \A t \in stored : t # s => turns'[t] = turns[t]
  PROVE  \A t \in stored' : Valid(turns'[t])
  BY DEF TalkInv

\* What is said last fits to what was said before.
LEMMA SaidNext ==
  ASSUME NEW new \in Seq(Turn), NEW said \in Turn, Speech(new),
         <<new[Len(new)].kind, said.kind>> \in Follows
  PROVE  /\ Append(new, said) \in Seq(Turn) /\ Speech(Append(new, said))
         /\ Append(new, said)[Len(Append(new, said))] = said
<1> DEFINE longer == Append(new, said)
<1>1. /\ Len(new) \in Nat /\ Len(new) > 0
      /\ longer \in Seq(Turn) /\ Len(longer) = Len(new) + 1
      /\ longer[Len(new) + 1] = said
      /\ \A i \in 1 .. Len(new) : longer[i] = new[i]
  BY DEF Speech
<1> HIDE DEF longer
<1>2. ASSUME NEW i \in 1 .. Len(longer) - 1
      PROVE  <<longer[i].kind, longer[i + 1].kind>> \in Follows
  <2>1. CASE i = Len(new)
    BY <1>1, <2>1
  <2>2. CASE i # Len(new)
    <3>1. i \in 1 .. Len(new) - 1 /\ i \in 1 .. Len(new) /\ i + 1 \in 1 .. Len(new)
      BY <1>1, <2>2
    <3>2. QED
      BY <1>1, <3>1 DEF Speech
  <2>3. QED
    BY <2>1, <2>2
<1>3. longer[1].kind = "user"
  <2>1. 1 \in 1 .. Len(new)
    BY <1>1
  <2>2. QED
    BY <1>1, <2>1 DEF Speech
<1>4. Speech(longer) /\ longer[Len(longer)] = said
  BY <1>1, <1>2, <1>3 DEF Speech
<1>5. QED
  BY <1>1, <1>4 DEF longer

LEMMA StepTalkInv ==
  ASSUME OneExecutor
  PROVE  Inv /\ HoldInv /\ ChatInv /\ TalkInv /\ [Next]_vars => TalkInv'
<1> SUFFICES ASSUME Inv, HoldInv, ChatInv, TalkInv, [Next]_vars PROVE TalkInv'
  OBVIOUS
<1>0. RunInv /\ StoreInv
  BY DEF Inv
<1>1. CASE UNCHANGED vars
  BY <1>1 DEF vars, runVars, storeVars, TalkInv
<1>2. ASSUME NEW r \in Runs, NEW e \in Executors, NEW s \in Sessions, NEW p \in Policies,
             Start(r, e, s, p)
      PROVE TalkInv'
  BY <1>0, <1>2 DEF Start, RunInv, TalkInv, storeVars
<1>3. ASSUME NEW r \in Runs, Refuse(r) \/ Release(r) PROVE TalkInv'
  BY <1>3 DEF Refuse, Release, Ended, TalkInv, storeVars
<1>4. ASSUME NEW r \in Runs, Take(r) \/ SummaryFails(r) \/ GiveUp(r) PROVE TalkInv'
  BY <1>0, <1>4 DEF Take, SummaryFails, GiveUp, RunInv, TalkInv, storeVars
<1>5. ASSUME NEW r \in Runs, Load(r) PROVE TalkInv'
  <2>1. AfterLoad(r) # "running"
        /\ (AfterLoad(r) = "summarizing" => policy[r].keep_recent # 0)
    <3>1. ASSUME AfterLoad(r) = "summarizing", policy[r].keep_recent = 0 PROVE FALSE
      <4>1. /\ ~CutPanics(turns[of[r]], 0)
            /\ Cuts(turns[of[r]], 0) # {}
        BY <3>1 DEF AfterLoad
      <4>2. DOMAIN turns[of[r]] = {}
        BY <4>1 DEF CutPanics
      <4>3. Cardinality(DOMAIN turns[of[r]]) = 0
        BY <4>2, FS_EmptySet
      <4>4. QED
        BY <4>1, <4>3 DEF Cuts
    <3>2. QED
      BY <3>1 DEF AfterLoad
  <2>2. QED
    BY <1>0, <1>5, <2>1 DEF Load, RunInv, TalkInv, storeVars
<1>6. ASSUME NEW r \in Runs, StoreSummary(r) PROVE TalkInv'
  <2>1. PICK n \in LastCut(history[r], policy[r].keep_recent) :
            Compact(of[r], n, Summary(history[r], n))
    BY <1>6 DEF StoreSummary
  <2> DEFINE table == turns[of[r]]
             summary == Summary(table, n)
  <2>2. /\ of[r] \in stored /\ stored' = stored /\ stage[r] = "summarizing"
        /\ history[r] = table /\ IsTable(table) /\ Valid(table)
    BY <1>0, <1>6, <2>1 DEF Compact, StoreSummary, ChatInv, StoreInv, TalkInv
  <2>3. /\ n \in 1 .. Cardinality(DOMAIN table) - policy[r].keep_recent
        /\ table[SeqAt(table, n)].kind \in {"user", "summary"}
    BY <2>1, <2>2 DEF LastCut, Cuts
  <2>4. n \in 1 .. Cardinality(DOMAIN table) - 1
    <3>1. policy[r].keep_recent \in Nat /\ policy[r].keep_recent # 0
      BY <1>0, <2>2, PolicyAssumption DEF RunInv, TalkInv
    <3>2. Cardinality(DOMAIN table) \in Nat
      BY <2>2, FS_CardinalityType DEF IsTable
    <3>3. QED
      BY <2>3, <3>1, <3>2
  <2>5. summary \in Turn /\ summary.kind = "summary"
    BY <2>2, SummaryType DEF Summary
  <2>6. /\ turns'[of[r]] = Folded(table, n, summary)
        /\ \A t \in stored : t # of[r] => turns'[t] = turns[t]
    BY <1>0, <2>1, <2>2, <2>5, CompactStoreInv
  <2>7. Valid(turns'[of[r]])
    BY <2>2, <2>3, <2>4, <2>5, <2>6, FoldedValid
  <2>8. \A t \in stored' : Valid(turns'[t])
    BY <2>2, <2>6, <2>7, StoredValid
  <2>9. QED
    BY <1>0, <1>6, <2>8 DEF StoreSummary, RunInv, TalkInv
<1>7. ASSUME NEW r \in Runs, Prompt(r) PROVE TalkInv'
  <2> DEFINE new == <<Message(r, "user", 1)>>
  <2>1. Speech(new) /\ new[Len(new)].kind = "user"
    BY DEF Speech, Message
  <2> HIDE DEF new
  <2>2. progress'[r] = new /\ \A q \in Runs : q # r => progress'[q] = progress[q]
    BY <1>0, <1>7 DEF Prompt, RunInv, new
  <2>3. QED
    BY <1>0, <1>7, <2>1, <2>2 DEF Prompt, RunInv, TalkInv, storeVars
<1>8. ASSUME NEW r \in Runs, Step(r) PROVE TalkInv'
  <2> DEFINE said == progress[r]
             calls == Message(r, "calls", Len(said) + 1)
             result == Message(r, "result", Len(said) + 2)
  <2>1. /\ said \in Seq(Turn) /\ Len(said) \in Nat /\ Len(said) < 2 * MaxSteps
        /\ Speech(said) /\ said[Len(said)].kind \in {"user", "result"}
    BY <1>0, <1>8 DEF Step, RunInv, TalkInv
  <2>2. Len(said) + 1 \in 1 .. 2 * MaxSteps + 2 /\ Len(said) + 2 \in 1 .. 2 * MaxSteps + 2
    BY <2>1, StepsAssumption
  <2>3. /\ calls \in Turn /\ calls.kind = "calls"
        /\ result \in Turn /\ result.kind = "result"
    <3>1. calls \in Turn /\ result \in Turn
      BY <2>2, MessageType DEF Kinds
    <3>2. QED
      BY <3>1 DEF Message
  <2>4. progress' = [progress EXCEPT ![r] = said \o <<calls, result>>]
    BY <1>8 DEF Step
  <2> HIDE DEF said, calls, result
  <2>5. /\ Append(said, calls) \in Seq(Turn) /\ Speech(Append(said, calls))
        /\ Append(said, calls)[Len(Append(said, calls))] = calls
    <3>1. <<said[Len(said)].kind, calls.kind>> \in Follows
      BY <2>1, <2>3 DEF Follows
    <3>2. QED
      BY <2>1, <2>3, <3>1, SaidNext
  <2>6. /\ Speech(Append(Append(said, calls), result))
        /\ Append(Append(said, calls), result)[Len(Append(Append(said, calls), result))]
             = result
    <3>1. <<Append(said, calls)[Len(Append(said, calls))].kind, result.kind>> \in Follows
      BY <2>3, <2>5 DEF Follows
    <3>2. QED
      BY <2>3, <2>5, <3>1, SaidNext
  <2>7. said \o <<calls, result>> = Append(Append(said, calls), result)
    BY <2>1, <2>3
  <2>8. /\ Speech(progress'[r])
        /\ progress'[r][Len(progress'[r])].kind = "result"
        /\ \A q \in Runs : q # r => progress'[q] = progress[q]
    BY <1>0, <2>3, <2>4, <2>6, <2>7 DEF RunInv
  <2>9. QED
    BY <1>8, <2>8 DEF Step, TalkInv, storeVars
<1>9. ASSUME NEW r \in Runs, Close(r) PROVE TalkInv'
  <2>1. \A t \in stored' : Valid(turns'[t])
    <3>1. CASE UNCHANGED storeVars
      BY <3>1 DEF storeVars, TalkInv
    <3>2. CASE AppendTurns(of[r], Closed(r))
      <4> DEFINE s == of[r]
                 next == meta[s].next_seq
                 said == progress[r]
                 reply == Message(r, "reply", Len(said) + 1)
      <4>1. /\ said \in Seq(Turn) /\ Len(said) \in Nat /\ Len(said) <= 2 * MaxSteps + 1
            /\ Speech(said) /\ said[Len(said)].kind \in {"user", "result"}
        BY <1>0, <1>9 DEF Close, RunInv, TalkInv
      <4>2. reply \in Turn /\ reply.kind = "reply"
        <5>1. Len(said) + 1 \in 1 .. 2 * MaxSteps + 2
          BY <4>1, StepsAssumption
        <5>2. QED
          BY <5>1, MessageType DEF Kinds, Message
      <4>3. Closed(r) = Append(said, reply)
        BY DEF Closed
      <4> HIDE DEF said, reply
      <4>4. <<said[Len(said)].kind, reply.kind>> \in Follows
        BY <4>1, <4>2 DEF Follows
      <4>5. /\ Closed(r) \in Seq(Turn) /\ Speech(Closed(r))
            /\ Closed(r)[Len(Closed(r))].kind = "reply"
        BY <4>1, <4>2, <4>3, <4>4, SaidNext
      <4>6. /\ s \in stored /\ stored' = stored /\ next \in Nat
            /\ IsTable(turns[s]) /\ Valid(turns[s])
            /\ \A k \in DOMAIN turns[s] : k < next
        BY <1>0, <3>2 DEF AppendTurns, StoreInv, StoreTypeOK, CountsAgree, Meta, TalkInv
      <4>7. /\ turns'[s] = Added(turns[s], next, Closed(r))
            /\ \A t \in stored : t # s => turns'[t] = turns[t]
        BY <1>0, <3>2, <4>6 DEF AppendTurns, StoreInv, StoreTypeOK
      <4>8. Valid(turns'[s])
        BY <4>5, <4>6, <4>7, AddedValid
      <4>9. QED
        BY <4>6, <4>7, <4>8, StoredValid
    <3>3. QED
      BY <1>9, <3>1, <3>2 DEF Close
  <2>2. QED
    BY <1>0, <1>9, <2>1 DEF Close, RunInv, TalkInv
<1>10. CASE Crash
  BY <1>10 DEF Crash, Ended, TalkInv, storeVars
<1>11. CASE Manage
  <2>1. Valid(NoTurns)
    BY DEF Valid, NoTurns
  <2>2. ASSUME NEW s \in stored' PROVE turns'[s] = NoTurns \/ (s \in stored /\ turns'[s] = turns[s])
    BY <1>11, <2>2 DEF Manage, Create, Relabel, Delete
  <2>3. QED
    BY <1>11, <2>1, <2>2 DEF Manage, runVars, TalkInv
<1>12. QED
  BY <1>1, <1>2, <1>3, <1>4, <1>5, <1>6, <1>7, <1>8, <1>9, <1>10, <1>11 DEF Next, Advance

\* With one executor the turns of a session are at all times a conversation a
\* provider accepts: a stopped run is closed with a reply, a compaction cuts
\* before a message of the user, and both see all turns the session has.
THEOREM HistoryCorrect ==
  ASSUME OneExecutor
  PROVE  Spec => []HistoryIsValid
<1> DEFINE All == Inv /\ HoldInv /\ ChatInv /\ TalkInv
<1>1. Init => All
  BY InitInv, InitHoldInv, InitChatInv, InitTalkInv
<1>2. All /\ [Next]_vars => All'
  BY StepInv, StepHoldInv, StepChatInv, StepTalkInv
<1>3. All => HistoryIsValid
  BY ValidPositions DEF Inv, StoreInv, TalkInv, HistoryIsValid
<1> HIDE DEF All
<1>4. QED
  BY <1>1, <1>2, <1>3, PTL DEF Spec

=============================================================================

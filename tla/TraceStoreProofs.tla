--------------------------- MODULE TraceStoreProofs ---------------------------
(***************************************************************************)
(* Proofs about TraceStore, for any set of transitions and processes and   *)
(* any number of faults.  IndInv is inductive: its parts are proved one    *)
(* after the other, each from the ones before.                             *)
(***************************************************************************)
EXTENDS TraceStore, Sequences, FiniteSetTheorems, FunctionTheorems, SequenceTheorems,
        WellFoundedInduction, TLAPS

(* The actions, without the quantifiers of Next.                           *)
LEMMA NextCases ==
  ASSUME [Next]_vars
  PROVE  \/ UNCHANGED vars
         \/ \E w \in Writes :
              \/ \E e \in Entries : TransitionEnds(w, e)
              \/ AllocationFails(w) \/ Allocate(w) \/ InsertRow(w)
              \/ SequenceCollides(w) \/ Reallocate(w) \/ FindSummary(w)
              \/ SaveSummary(w) \/ Commit(w) \/ Abort(w) \/ CommitUnconfirmed(w)
         \/ \E p \in Processes : Crash(p)
  BY DEF Next, Continue

-----------------------------------------------------------------------------
(* The sequences taken are bounded, so they are finite and have a maximum. *)
Bounded ==
  /\ TypeInv
  /\ \E b \in Nat : \A s \in Taken : s <= b

LEMMA TakenIsFinite ==
  ASSUME Bounded
  PROVE  /\ Taken \subseteq Nat
         /\ IsFiniteSet(Taken)
         /\ Cardinality(Taken) \in Nat
<1>1. Taken \subseteq Nat
  BY DEF Bounded, TypeInv, TypeOK, Taken
<1>2. PICK b \in Nat : \A s \in Taken : s <= b
  BY DEF Bounded
<1>3. IsFiniteSet(Taken)
  BY <1>1, <1>2, FS_BoundedSetOfNaturals
<1> QED
  BY <1>1, <1>3, FS_CardinalityType

LEMMA MinimumExists ==
  ASSUME NEW S \in SUBSET Nat, S # {}
  PROVE  \E m \in S : \A s \in S : m <= s
<1> DEFINE R == OpToRel(<, Nat)
<1>1. \E m \in S : \A s \in S : <<s, m>> \notin R
  <2> HIDE DEF R
  <2> QED
    BY NatLessThanWellFounded, WFMin DEF R
<1>2. \A s, m \in Nat : <<s, m>> \notin R => ~ (s < m)
  BY DEF OpToRel
<1>3. PICK m \in S : \A s \in S : <<s, m>> \notin R
  BY <1>1
<1>4. \A s \in S : ~ (s < m)
  <2> HIDE DEF R
  <2> QED
    BY <1>2, <1>3
<1> QED
  BY <1>4

LEMMA MaximumExists ==
  ASSUME NEW S \in SUBSET Nat, S # {}, NEW b \in Nat, \A s \in S : s <= b
  PROVE  Max(S) \in S /\ \A s \in S : s <= Max(S)
<1> DEFINE U == {u \in Nat : \A s \in S : s <= u}
<1>1. PICK m \in U : \A u \in U : m <= u
  <2>1. U \in SUBSET Nat /\ b \in U
    OBVIOUS
  <2> HIDE DEF U
  <2> QED
    BY <2>1, MinimumExists
<1>2. m \in S
  <2>1. SUFFICES ASSUME m \notin S PROVE FALSE
    OBVIOUS
  <2>2. m \in Nat /\ \A s \in S : s \in Nat /\ s <= m /\ s # m
    BY <1>1, <2>1
  <2>3. m - 1 \in Nat /\ \A s \in S : s <= m - 1
    <3>1. \A s, n \in Nat : s <= n /\ s # n => s <= n - 1 /\ n - 1 \in Nat
      OBVIOUS
    <3>2. PICK s \in S : TRUE
      OBVIOUS
    <3> HIDE DEF U
    <3> QED
      BY <2>2, <3>1, <3>2
  <2>4. m - 1 \in U
    BY <2>3
  <2> QED
    BY <1>1, <2>2, <2>4
<1>3. m \in S /\ \A s \in S : m >= s
  BY <1>1, <1>2
<1>4. Max(S) \in S /\ \A s \in S : Max(S) >= s
  <2>1. \E x \in S : \A y \in S : x >= y
    BY <1>3
  <2> QED
    BY <2>1 DEF Max
<1> QED
  BY <1>4

LEMMA NextSequenceIsNew ==
  ASSUME Bounded
  PROVE  /\ NextSequence \in Nat
         /\ \A s \in Taken : s < NextSequence
         /\ Taken # {} => NextSequence - 1 \in Taken
<1>1. CASE Taken = {}
  BY <1>1 DEF NextSequence, Taken
<1>2. CASE Taken # {}
  <2>1. Max(Taken) \in Taken /\ \A s \in Taken : s <= Max(Taken)
    BY <1>2, TakenIsFinite, MaximumExists DEF Bounded
  <2>2. NextSequence = Max(Taken) + 1
    BY <1>2 DEF NextSequence, Taken
  <2> QED
    BY <2>1, <2>2, TakenIsFinite
<1> QED
  BY <1>1, <1>2

(* A committed row adds one sequence.                                      *)
LEMMA CommittedTaken ==
  ASSUME NEW w \in Writes, Committed(w)
  PROVE  /\ Taken' = Taken \cup {seq[w]}
         /\ \A s \in Taken : s # seq[w] => trace'[s] = trace[s]
         /\ trace'[seq[w]] = RowOf(w)
  BY DEF Committed, Taken

-----------------------------------------------------------------------------
(* Types.                                                                  *)

LEMMA SavedSummaryType ==
  ASSUME Bounded, NEW w \in Writes, pc[w] = "commit", TransactionsInv
  PROVE  SavedSummary(w) \in Summary /\ RowOf(w) \in Row
<1>1. /\ entry[w] \in [blocked: BOOLEAN, governed: BOOLEAN]
      /\ found[w] \in Summary \cup {NoSummary}
      /\ summary \in Summary \cup {NoSummary}
      /\ found[w] # NoSummary => summary \in Summary /\ found[w] \in Summary
  BY DEF Bounded, TypeInv, TypeOK, TransactionsInv
<1>2. One(entry[w].blocked) \in Nat
  BY DEF One
<1> QED
  BY <1>1, <1>2 DEF SavedSummary, RowOf, Row, Summary

LEMMA CommittedTypes ==
  ASSUME Bounded, TransactionsInv, NEW w \in Writes, pc[w] = "commit", Committed(w)
  PROVE  /\ DOMAIN trace' \subseteq Nat /\ \A s \in DOMAIN trace' : trace'[s] \in Row
         /\ summary' \in Summary \cup {NoSummary}
         /\ \E b \in Nat : \A s \in Taken' : s <= b
<1>1. seq[w] \in Nat /\ Taken \subseteq Nat
  BY TakenIsFinite DEF Bounded, TypeInv, TypeOK
<1>2. PICK b \in Nat : \A s \in Taken : s <= b
  BY DEF Bounded
<1>3. \E d \in Nat : b <= d /\ seq[w] <= d
  BY <1>1
<1>4. \E d \in Nat : \A s \in Taken \cup {seq[w]} : s <= d
  BY <1>1, <1>2, <1>3
<1>5. ASSUME NEW s \in Taken' PROVE trace'[s] \in Row
  <2>1. CASE s = seq[w]
    BY <2>1, CommittedTaken, SavedSummaryType
  <2>2. CASE s # seq[w]
    <3>1. s \in Taken /\ trace'[s] = trace[s]
      BY <2>2, CommittedTaken
    <3> QED
      BY <3>1 DEF Bounded, TypeInv, TypeOK, Taken
  <2> QED
    BY <2>1, <2>2
<1> QED
  BY <1>1, <1>4, <1>5, CommittedTaken, SavedSummaryType DEF Committed, Taken

LEMMA NextTypes ==
  ASSUME Bounded, TransactionsInv, [Next]_vars
  PROVE  Bounded'
<1> USE TraceAssumption DEF Bounded, TypeInv, TypeOK, Locations, Ended
<1>1. CASE UNCHANGED vars
  BY <1>1 DEF vars, Taken
<1>2. ASSUME NEW w \in Writes, NEW e \in Entries, TransitionEnds(w, e)
      PROVE  Bounded'
  BY <1>2, TakenIsFinite DEF TransitionEnds, Steps, database, Taken
<1>3. ASSUME NEW w \in Writes, AllocationFails(w)
      PROVE  Bounded'
  BY <1>3 DEF AllocationFails, Steps, database, Taken
<1>4. ASSUME NEW w \in Writes, Allocate(w) \/ Reallocate(w)
      PROVE  Bounded'
  <2>1. /\ \E to \in Locations : pc' = [pc EXCEPT ![w] = to] /\ to \notin {"idle", "allocate"}
        /\ pc[w] \in {"allocate", "retry"} /\ pc'[w] = "insert"
        /\ seq' = [seq EXCEPT ![w] = NextSequence] /\ NextSequence \in Nat
        /\ UNCHANGED <<trace, summary, counter, entry, found, attempts, seen, faults, fallbacks>>
    BY <1>4, NextSequenceIsNew DEF Allocate, Reallocate, Steps, database
  <2>2. TypeInv'
    BY <2>1
  <2> QED
    BY <2>1, <2>2 DEF Taken
<1>5. ASSUME NEW w \in Writes, InsertRow(w)
      PROVE  Bounded'
  BY <1>5 DEF InsertRow, Steps, database, locals, request, Taken
<1>6. ASSUME NEW w \in Writes, SequenceCollides(w)
      PROVE  Bounded'
  BY <1>6 DEF SequenceCollides, Steps, MaxAttempts, database, Taken
<1>7. ASSUME NEW w \in Writes, FindSummary(w)
      PROVE  Bounded'
  BY <1>7 DEF FindSummary, Steps, database, Taken
<1>8. ASSUME NEW w \in Writes, SaveSummary(w)
      PROVE  Bounded'
  BY <1>8 DEF SaveSummary, Leaves, Steps, database, request, Taken
<1>9. ASSUME NEW w \in Writes, Commit(w) \/ CommitUnconfirmed(w)
      PROVE  Bounded'
  <2>1. pc[w] = "commit" /\ Committed(w)
    BY <1>9 DEF Commit, CommitUnconfirmed, Leaves, Steps
  <2>2. \E b \in Nat : \A s \in Taken' : s <= b
    BY <2>1, CommittedTypes
  <2>3. /\ DOMAIN trace' \subseteq Nat /\ \A s \in DOMAIN trace' : trace'[s] \in Row
        /\ summary' \in Summary \cup {NoSummary}
    BY <2>1, CommittedTypes
  <2>4. /\ \E to \in {"written", "failed"} : pc' = [pc EXCEPT ![w] = to]
        /\ found' = [found EXCEPT ![w] = NoSummary]
        /\ faults' \in 0 .. MaxFaults
        /\ UNCHANGED <<counter, request, fallbacks>>
    BY <1>9 DEF Commit, CommitUnconfirmed, Leaves, Steps
  <2>5. TypeInv'
    BY <2>3, <2>4 DEF request
  <2> QED
    BY <2>2, <2>5
<1>10. ASSUME NEW w \in Writes, Abort(w)
       PROVE  Bounded'
  BY <1>10 DEF Abort, Leaves, Steps, database, request, Taken
<1>11. ASSUME NEW p \in Processes, Crash(p)
       PROVE  Bounded'
  BY <1>11 DEF Crash, database, request, Taken
<1> QED
  BY <1>1, <1>2, <1>3, <1>4, <1>5, <1>6, <1>7, <1>8, <1>9, <1>10, <1>11, NextCases

-----------------------------------------------------------------------------
(* Locks and rows.                                                         *)

(* Commit and CommitUnconfirmed end the transaction of w in `to`, and make *)
(* its row and the summary visible.                                        *)
LEMMA CommitCases ==
  ASSUME NEW w \in Writes, Commit(w) \/ CommitUnconfirmed(w)
  PROVE  /\ pc[w] = "commit" /\ Committed(w)
         /\ \E to \in {"written", "failed"} : pc' = [pc EXCEPT ![w] = to]
         /\ found' = [found EXCEPT ![w] = NoSummary]
         /\ UNCHANGED <<entry, seq, attempts, seen, fallbacks>>
  BY DEF Commit, CommitUnconfirmed, Leaves, Steps, request

LEMMA CommitAddsRow ==
  ASSUME Bounded, TransactionsInv,
         NEW w \in Writes, Commit(w) \/ CommitUnconfirmed(w)
  PROVE  /\ seq[w] \in Nat /\ seq[w] \notin Taken
         /\ Taken' = Taken \cup {seq[w]}
         /\ \A s \in Taken : trace'[s] = trace[s]
         /\ trace'[seq[w]] = RowOf(w)
<1>1. pc[w] = "commit" /\ Committed(w)
  BY CommitCases
<1>2. seq[w] \in Nat /\ seq[w] \notin Taken
  BY <1>1 DEF TransactionsInv, InTransaction, Bounded, TypeInv, TypeOK
<1> QED
  BY <1>1, <1>2, CommittedTaken

LEMMA CommitSavesSummary ==
  ASSUME Bounded, TransactionsInv,
         NEW w \in Writes, Commit(w) \/ CommitUnconfirmed(w)
  PROVE  summary' = SavedSummary(w) /\ summary' # NoSummary
<1>1. pc[w] = "commit" /\ summary' = SavedSummary(w)
  BY CommitCases DEF Committed
<1>2. SavedSummary(w) \in Summary
  BY <1>1, SavedSummaryType
<1> QED
  BY <1>1, <1>2, TraceAssumption DEF Summary

LEMMA NextTransactions ==
  ASSUME Bounded, TransactionsInv, [Next]_vars
  PROVE  TransactionsInv'
<1> USE TraceAssumption DEF Bounded, TypeInv, TypeOK, Locations, Ended,
        TransactionsInv, InTransaction, SummaryHolders
<1>1. CASE UNCHANGED vars
  BY <1>1 DEF vars, Taken
<1>2. ASSUME NEW w \in Writes, NEW e \in Entries, TransitionEnds(w, e)
      PROVE  TransactionsInv'
  BY <1>2 DEF TransitionEnds, Steps, database, Taken
<1>3. ASSUME NEW w \in Writes, AllocationFails(w)
      PROVE  TransactionsInv'
  BY <1>3 DEF AllocationFails, Steps, database, Taken
<1>4. ASSUME NEW w \in Writes, Allocate(w) \/ Reallocate(w)
      PROVE  TransactionsInv'
  <2>1. /\ pc[w] \in {"allocate", "retry"} /\ pc' = [pc EXCEPT ![w] = "insert"]
        /\ \A v \in Writes : v # w => seq'[v] = seq[v]
        /\ UNCHANGED <<trace, summary, found>>
    BY <1>4 DEF Allocate, Reallocate, Steps, database
  <2> QED
    BY <2>1 DEF Taken
<1>5. ASSUME NEW w \in Writes, InsertRow(w)
      PROVE  TransactionsInv'
  BY <1>5 DEF InsertRow, RowHolders, Steps, database, locals, request, Taken
<1>6. ASSUME NEW w \in Writes, SequenceCollides(w)
      PROVE  TransactionsInv'
  BY <1>6 DEF SequenceCollides, Steps, MaxAttempts, database, Taken
<1>7. ASSUME NEW w \in Writes, FindSummary(w)
      PROVE  TransactionsInv'
  BY <1>7 DEF FindSummary, Steps, database, Taken
<1>8. ASSUME NEW w \in Writes, SaveSummary(w)
      PROVE  TransactionsInv'
  BY <1>8 DEF SaveSummary, Leaves, Steps, database, request, Taken
<1>9. ASSUME NEW w \in Writes, Commit(w) \/ CommitUnconfirmed(w)
      PROVE  TransactionsInv'
  <2>1. PICK to \in {"written", "failed"} : pc' = [pc EXCEPT ![w] = to]
    BY <1>9, CommitCases
  <2>2. pc[w] = "commit" /\ found' = [found EXCEPT ![w] = NoSummary] /\ seq' = seq
    BY <1>9, CommitCases
  <2>3. Taken' = Taken \cup {seq[w]} /\ summary' # NoSummary
    <3>1. Bounded /\ TransactionsInv
      OBVIOUS
    <3> QED
      BY ONLY <1>9, <3>1, CommitAddsRow, CommitSavesSummary
  <2> QED
    BY <2>1, <2>2, <2>3
<1>10. ASSUME NEW w \in Writes, Abort(w)
       PROVE  TransactionsInv'
  BY <1>10 DEF Abort, Leaves, Steps, database, request, Taken
<1>11. ASSUME NEW p \in Processes, Crash(p)
       PROVE  TransactionsInv'
  BY <1>11 DEF Crash, database, request, Taken
<1> QED
  BY <1>1, <1>2, <1>3, <1>4, <1>5, <1>6, <1>7, <1>8, <1>9, <1>10, <1>11, NextCases

(* A step that commits nothing changes neither table, and ends no write    *)
(* but as gaveUp or failed.                                                *)
LEMMA OtherSteps ==
  ASSUME Bounded, [Next]_vars,
         ~ \E w \in Writes : Commit(w) \/ CommitUnconfirmed(w)
  PROVE  /\ trace' = trace /\ summary' = summary
         /\ \A w \in Writes : /\ pc[w] = "written" <=> pc'[w] = "written"
                              /\ pc[w] = "failed" => pc'[w] = "failed"
<1> USE DEF Bounded, TypeInv, TypeOK, Ended, Steps, Leaves, database
<1>1. CASE UNCHANGED vars
  BY <1>1 DEF vars
<1>2. ASSUME NEW w \in Writes,
             \/ \E e \in Entries : TransitionEnds(w, e)
             \/ AllocationFails(w) \/ Allocate(w) \/ InsertRow(w)
             \/ SequenceCollides(w) \/ Reallocate(w) \/ FindSummary(w)
             \/ SaveSummary(w) \/ Abort(w)
      PROVE  /\ trace' = trace /\ summary' = summary
             /\ \A v \in Writes : /\ pc[v] = "written" <=> pc'[v] = "written"
                                  /\ pc[v] = "failed" => pc'[v] = "failed"
  BY <1>2 DEF TransitionEnds, AllocationFails, Allocate, InsertRow, SequenceCollides,
             Reallocate, FindSummary, SaveSummary, Abort
<1>3. ASSUME NEW p \in Processes, Crash(p)
      PROVE  /\ trace' = trace /\ summary' = summary
             /\ \A v \in Writes : /\ pc[v] = "written" <=> pc'[v] = "written"
                                  /\ pc[v] = "failed" => pc'[v] = "failed"
  BY <1>3 DEF Crash
<1> QED
  BY <1>1, <1>2, <1>3, NextCases

(* Every row is of a write that has ended, each write has at most one, and *)
(* a written one has it.                                                   *)
LEMMA NextTraces ==
  ASSUME Bounded, TransactionsInv, TracesInv, [Next]_vars
  PROVE  TracesInv'
<1>1. CASE \E w \in Writes : Commit(w) \/ CommitUnconfirmed(w)
  <2>1. PICK w \in Writes : Commit(w) \/ CommitUnconfirmed(w)
    BY <1>1
  <2>2. PICK to \in {"written", "failed"} : pc' = [pc EXCEPT ![w] = to]
    BY <2>1, CommitCases
  <2>3. /\ pc[w] = "commit" /\ seq[w] \notin Taken /\ pc \in [Writes -> Locations]
        /\ Taken' = Taken \cup {seq[w]}
        /\ \A s \in Taken : trace'[s] = trace[s]
        /\ trace'[seq[w]].write = w
    <3>1. pc \in [Writes -> Locations]
      BY DEF Bounded, TypeInv, TypeOK
    <3>2. RowOf(w).write = w
      BY DEF RowOf
    <3> QED
      BY <2>1, <3>1, <3>2, CommitCases, CommitAddsRow
  <2>4. \A s \in Taken : trace[s].write \in Writes /\ trace[s].write # w
    BY <2>3 DEF TracesInv, Bounded, TypeInv, TypeOK, Row, Taken
  <2>5. \A s \in Taken' : pc'[trace'[s].write] \in {"written", "failed"}
    BY <2>2, <2>3, <2>4 DEF TracesInv
  <2>6. \A s, t \in Taken' : trace'[s].write = trace'[t].write => s = t
    BY <2>3, <2>4 DEF TracesInv
  <2>7. ASSUME NEW v \in Writes, pc'[v] = "written" PROVE RowsOf(v)' # {}
    BY <2>2, <2>3, <2>7 DEF TracesInv, RowsOf
  <2> QED
    BY <2>5, <2>6, <2>7 DEF TracesInv
<1>2. CASE ~ \E w \in Writes : Commit(w) \/ CommitUnconfirmed(w)
  <2>1. \A s \in Taken : trace[s].write \in Writes
    BY DEF Bounded, TypeInv, TypeOK, Row, Taken
  <2> QED
    BY <1>2, <2>1, OtherSteps DEF TracesInv, Taken, RowsOf
<1> QED
  BY <1>1, <1>2

(* The counts are incremented together with the rows.                      *)
LEMMA NextCounts ==
  ASSUME Bounded, TransactionsInv, CountsInv, [Next]_vars
  PROVE  CountsInv'
<1>1. CASE \E w \in Writes : Commit(w) \/ CommitUnconfirmed(w)
  <2> DEFINE B == {s \in Taken : trace[s].blocked}
  <2>1. PICK w \in Writes : Commit(w) \/ CommitUnconfirmed(w)
    BY <1>1
  <2>2. /\ pc[w] = "commit" /\ summary' = SavedSummary(w)
        /\ (found[w] = NoSummary <=> Taken = {})
        /\ seq[w] \notin Taken /\ Taken' = Taken \cup {seq[w]}
        /\ \A s \in Taken : trace'[s] = trace[s]
        /\ trace'[seq[w]].blocked = entry[w].blocked
    <3>1. pc[w] = "commit" /\ summary' = SavedSummary(w)
      BY <2>1, CommitCases, CommitSavesSummary
    <3>2. found[w] = NoSummary <=> Taken = {}
      BY <3>1 DEF TransactionsInv, CountsInv
    <3>3. RowOf(w).blocked = entry[w].blocked
      BY DEF RowOf
    <3> QED
      BY <2>1, <3>1, <3>2, <3>3, CommitAddsRow
  <2>3. entry[w].blocked \in BOOLEAN
    BY DEF Bounded, TypeInv, TypeOK
  <2>4. IsFiniteSet(B) /\ Cardinality(B) \in Nat
    BY TakenIsFinite, FS_Subset, FS_CardinalityType
  <2>5. {s \in Taken' : trace'[s].blocked} =
          IF entry[w].blocked THEN B \cup {seq[w]} ELSE B
    BY <2>2, <2>3
  <2>6. Cardinality({s \in Taken' : trace'[s].blocked}) =
          Cardinality(B) + One(entry[w].blocked)
    <3>1. seq[w] \notin B
      BY <2>2
    <3>2. Cardinality(B \cup {seq[w]}) = Cardinality(B) + 1
      BY <2>4, <3>1, FS_AddElement
    <3> HIDE DEF B
    <3>3. CASE entry[w].blocked = TRUE
      BY <2>5, <3>2, <3>3 DEF One
    <3>4. CASE entry[w].blocked = FALSE
      <4>1. One(entry[w].blocked) = 0 /\ {s \in Taken' : trace'[s].blocked} = B
        BY <2>5, <3>4 DEF One
      <4>2. Cardinality(B) + 0 = Cardinality(B)
        BY <2>4
      <4> QED
        BY <4>1, <4>2
    <3> QED
      BY <2>3, <3>3, <3>4
  <2>7. Cardinality(Taken') = Cardinality(Taken) + 1
    BY <2>2, TakenIsFinite, FS_AddElement
  <2>8. Taken = {} => Cardinality(Taken) = 0 /\ Cardinality(B) = 0
    BY FS_EmptySet
  <2>9. summary' # NoSummary /\ Taken' # {}
    BY <2>2, SavedSummaryType, TraceAssumption DEF Summary
  <2>10. One(entry[w].blocked) \in Nat
    BY DEF One
  <2>11. found[w] # NoSummary => summary # NoSummary
    BY <2>2 DEF CountsInv
  <2> HIDE DEF B
  <2> QED
    BY <2>2, <2>4, <2>6, <2>7, <2>8, <2>9, <2>10, <2>11 DEF CountsInv, SavedSummary, B
<1>2. CASE ~ \E w \in Writes : Commit(w) \/ CommitUnconfirmed(w)
  BY <1>2, OtherSteps DEF CountsInv, Taken
<1> QED
  BY <1>1, <1>2
-----------------------------------------------------------------------------
(* Without fallbacks the sequences taken have no gap.                      *)

LEMMA NextSequenceIsCardinality ==
  ASSUME Bounded, DenseInv
  PROVE  NextSequence = Cardinality(Taken)
<1> DEFINE n == Cardinality(Taken)
<1>1. n \in Nat /\ Taken = 0 .. n - 1
  BY TakenIsFinite DEF DenseInv
<1>2. CASE Taken = {}
  BY <1>2, FS_EmptySet DEF NextSequence, Taken
<1>3. CASE Taken # {}
  <2> HIDE DEF n
  <2>1. n - 1 \in Taken
    BY <1>1, <1>3
  <2>2. n - 1 < NextSequence /\ NextSequence - 1 \in 0 .. n - 1 /\ NextSequence \in Nat
    BY <1>1, <1>3, <2>1, NextSequenceIsNew
  <2>3. NextSequence = n
    BY <1>1, <2>2
  <2> QED
    BY <2>3 DEF n
<1> QED
  BY <1>2, <1>3

(* So a transaction that is past its insertion is alone.                   *)
LEMMA TransactionIsAlone ==
  ASSUME Bounded, TransactionsInv, DenseInv, NEW w \in Writes, InTransaction(w)
  PROVE  /\ seq[w] = Cardinality(Taken)
         /\ \A v \in Writes : InTransaction(v) => v = w
<1> DEFINE n == Cardinality(Taken)
<1>1. n \in Nat /\ Taken = 0 .. n - 1
  BY TakenIsFinite DEF DenseInv
<1>2. ASSUME NEW v \in Writes, InTransaction(v) PROVE seq[v] = n
  <2>1. seq[v] \in Nat /\ seq[v] \notin Taken /\ seq[v] <= n
    BY <1>2 DEF TransactionsInv, DenseInv, Bounded, TypeInv, TypeOK
  <2> HIDE DEF n
  <2> QED
    BY <1>1, <2>1
<1> QED
  BY <1>2 DEF TransactionsInv

(* What a commit adds is the next sequence, and what the transaction read  *)
(* of the summary is still so.                                             *)
LEMMA CommitIsNext ==
  ASSUME Bounded, TransactionsInv, CountsInv, DenseInv,
         NEW w \in Writes, Commit(w) \/ CommitUnconfirmed(w)
  PROVE  /\ seq[w] = Cardinality(Taken)
         /\ Cardinality(Taken') = Cardinality(Taken) + 1
         /\ Taken' = 0 .. Cardinality(Taken)
         /\ GovernedAgrees'
<1> DEFINE n == Cardinality(Taken)
<1>1. /\ pc[w] = "commit" /\ InTransaction(w) /\ found[w] = summary
  BY CommitCases DEF InTransaction, DenseInv
<1>2. n \in Nat /\ Taken = 0 .. n - 1 /\ seq[w] = n
  BY <1>1, TakenIsFinite, TransactionIsAlone DEF DenseInv
<1>3. Cardinality(Taken') = n + 1
  BY CommitAddsRow, TakenIsFinite, FS_AddElement
<1>4. Taken' = 0 .. n
  <2>1. Taken' = Taken \cup {n}
    BY <1>2, CommitAddsRow
  <2> HIDE DEF n
  <2> QED
    BY <1>2, <2>1
<1>5. GovernedAgrees'
  <2>1. /\ entry[w].governed \in BOOLEAN
        /\ summary # NoSummary =>
             summary.governed \in BOOLEAN /\ summary.governed = \E s \in Taken : trace[s].governed
        /\ summary = NoSummary => Taken = {}
    BY DEF Bounded, TypeInv, TypeOK, Summary, DenseInv, GovernedAgrees, CountsInv
  <2>2. (\E s \in Taken' : trace'[s].governed) <=>
          (\E s \in Taken : trace[s].governed) \/ entry[w].governed
    <3>1. RowOf(w).governed = entry[w].governed
      BY DEF RowOf
    <3>2. /\ Taken' = Taken \cup {seq[w]}
          /\ \A s \in Taken : trace'[s] = trace[s]
          /\ trace'[seq[w]].governed = entry[w].governed
      BY <3>1, CommitAddsRow
    <3> QED
      BY ONLY <3>2
  <2>3. /\ summary' = SavedSummary(w)
        /\ summary = NoSummary => summary'.governed = entry[w].governed
        /\ summary # NoSummary => summary'.governed = (summary.governed \/ entry[w].governed)
    BY <1>1, CommitSavesSummary DEF SavedSummary
  <2>4. summary'.governed \in BOOLEAN
    BY <2>1, <2>3
  <2>5. summary'.governed <=> \E s \in Taken' : trace'[s].governed
    BY <2>1, <2>2, <2>3
  <2> QED
    BY <2>4, <2>5 DEF GovernedAgrees
<1> QED
  BY <1>2, <1>3, <1>4, <1>5

LEMMA NextDense ==
  ASSUME Bounded, TransactionsInv, CountsInv, DenseInv, [Next]_vars,
         fallbacks = 0, fallbacks' = 0
  PROVE  DenseInv'
<1> USE DEF Steps, Leaves, database
<1>1. CASE \E w \in Writes : Commit(w) \/ CommitUnconfirmed(w)
  <2> DEFINE n == Cardinality(Taken)
  <2>1. PICK w \in Writes : Commit(w) \/ CommitUnconfirmed(w)
    BY <1>1
  <2>2. PICK to \in {"written", "failed"} : pc' = [pc EXCEPT ![w] = to]
    BY <2>1, CommitCases
  <2>3. n \in Nat /\ Cardinality(Taken') = n + 1 /\ Taken' = 0 .. n /\ GovernedAgrees'
    BY <2>1, CommitIsNext, TakenIsFinite
  <2>4. /\ pc \in [Writes -> Locations] /\ seq \in [Writes -> Nat] /\ seq' = seq
        /\ \A v \in Writes : pc[v] = "insert" \/ InTransaction(v) => seq[v] <= n
        /\ \A v \in Writes : InTransaction(v) => v = w
    <3>1. pc[w] = "commit" /\ InTransaction(w) /\ seq' = seq
      BY <2>1, CommitCases DEF InTransaction
    <3>2. \A v \in Writes : InTransaction(v) => v = w
      BY <3>1, TransactionIsAlone
    <3> QED
      BY <3>1, <3>2 DEF Bounded, TypeInv, TypeOK, DenseInv
  <2>5. \A v \in Writes : pc'[v] = "insert" \/ InTransaction(v)' => seq'[v] <= n + 1
    <3> HIDE DEF n
    <3> QED
      BY <2>2, <2>3, <2>4 DEF InTransaction
  <2>6. \A v \in Writes : pc'[v] \notin {"save", "commit"}
    BY <2>2, <2>4 DEF InTransaction
  <2>7. Taken' = 0 .. (n + 1) - 1
    <3> HIDE DEF n
    <3> QED
      BY <2>3
  <2> QED
    BY <2>3, <2>5, <2>6, <2>7 DEF DenseInv
<1>2. CASE ~ \E w \in Writes : Commit(w) \/ CommitUnconfirmed(w)
  <2> DEFINE n == Cardinality(Taken)
             P == /\ \A v \in Writes : pc'[v] = "insert" \/ InTransaction(v)' => seq'[v] <= n
                  /\ \A v \in Writes : pc'[v] \in {"save", "commit"} => found'[v] = summary'
  <2>1. /\ UNCHANGED database /\ Taken' = Taken
        /\ n \in Nat /\ NextSequence = n
    BY <1>2, OtherSteps, TakenIsFinite, NextSequenceIsCardinality DEF Taken
  <2>2. /\ pc \in [Writes -> Locations] /\ seq \in [Writes -> Nat]
        /\ found \in [Writes -> Summary \cup {NoSummary}]
        /\ \A v \in Writes : pc[v] = "insert" \/ InTransaction(v) => seq[v] <= n
        /\ \A v \in Writes : pc[v] \in {"save", "commit"} => found[v] = summary
    BY DEF Bounded, TypeInv, TypeOK, DenseInv
  <2>3. P
    <3> HIDE DEF n
    <3> USE <2>1, <2>2 DEF InTransaction, Ended
    <3>1. CASE UNCHANGED vars
      BY <3>1 DEF vars
    <3>2. ASSUME NEW w \in Writes, NEW e \in Entries, TransitionEnds(w, e) PROVE P
      BY <3>2 DEF TransitionEnds
    <3>3. ASSUME NEW w \in Writes, AllocationFails(w) PROVE P
      BY <3>3 DEF AllocationFails
    <3>4. ASSUME NEW w \in Writes, Allocate(w) \/ Reallocate(w) PROVE P
      BY <3>4 DEF Allocate, Reallocate
    <3>5. ASSUME NEW w \in Writes, InsertRow(w) \/ SequenceCollides(w) PROVE P
      BY <3>5 DEF InsertRow, SequenceCollides, locals, request
    <3>6. ASSUME NEW w \in Writes, FindSummary(w) \/ SaveSummary(w) PROVE P
      BY <3>6 DEF FindSummary, SaveSummary, request
    <3>7. ASSUME NEW w \in Writes, Abort(w) PROVE P
      BY <3>7 DEF Abort, request
    <3>8. ASSUME NEW p \in Processes, Crash(p) PROVE P
      BY <3>8 DEF Crash, request
    <3> HIDE DEF P
    <3> QED
      BY <1>2, <3>1, <3>2, <3>3, <3>4, <3>5, <3>6, <3>7, <3>8, NextCases
  <2> QED
    BY <2>1, <2>3 DEF DenseInv, GovernedAgrees
<1> QED
  BY <1>1, <1>2

(* Each collision of a write is a row committed since its last allocation. *)
LEMMA NextRivals ==
  ASSUME Bounded, TransactionsInv, CountsInv, DenseInv, RivalsInv, [Next]_vars,
         fallbacks = 0, fallbacks' = 0
  PROVE  RivalsInv'
<1> DEFINE n == Cardinality(Taken)
<1> USE DEF Steps, Leaves
<1>1. /\ n \in Nat /\ Taken = 0 .. n - 1 /\ NextSequence = n
      /\ pc \in [Writes -> Locations] /\ seq \in [Writes -> Nat]
      /\ seen \in [Writes -> Nat] /\ attempts \in [Writes -> 0 .. 3]
      /\ \A w \in Writes : pc[w] \in {"idle", "allocate"} => attempts[w] = 0
  BY TakenIsFinite, NextSequenceIsCardinality DEF DenseInv, Bounded, TypeInv, TypeOK
<1>2. /\ \A w \in Writes : pc[w] = "insert" => seen[w] + attempts[w] <= seq[w]
      /\ \A w \in Writes : pc[w] \in {"allocate", "retry"} => seen[w] + attempts[w] <= n
      /\ \A w \in Writes : pc[w] = "gaveUp" => seen[w] + 3 <= n
  BY DEF RivalsInv
<1>3. CASE \E w \in Writes : Commit(w) \/ CommitUnconfirmed(w)
  <2>1. PICK w \in Writes : Commit(w) \/ CommitUnconfirmed(w)
    BY <1>3
  <2>2. PICK to \in {"written", "failed"} : pc' = [pc EXCEPT ![w] = to]
    BY <2>1, CommitCases
  <2>3. Cardinality(Taken') = n + 1 /\ UNCHANGED <<seq, attempts, seen>>
    BY <2>1, CommitIsNext, CommitCases
  <2> HIDE DEF n
  <2>4. ASSUME NEW v \in Writes, v # w
        PROVE  /\ pc'[v] = pc[v] /\ seq'[v] = seq[v]
               /\ seen'[v] = seen[v] /\ attempts'[v] = attempts[v]
               /\ seen[v] \in Nat /\ attempts[v] \in Nat
    BY <1>1, <2>2, <2>3, <2>4
  <2>5. pc'[w] \in {"written", "failed"}
    BY <1>1, <2>2
  <2>6. \A k, m \in Nat : k + m <= n => k + m <= n + 1
    BY <1>1
  <2> QED
    BY <1>2, <2>3, <2>4, <2>5, <2>6 DEF RivalsInv
<1>4. CASE ~ \E w \in Writes : Commit(w) \/ CommitUnconfirmed(w)
  <2>1. Cardinality(Taken') = n
    BY <1>4, OtherSteps DEF Taken
  <2> HIDE DEF n
  <2> USE <1>1, <1>2, <2>1 DEF RivalsInv
  <2>2. CASE UNCHANGED vars
    BY <2>2 DEF vars
  <2>3. ASSUME NEW w \in Writes, NEW e \in Entries, TransitionEnds(w, e) PROVE RivalsInv'
    <3>1. seen' = [seen EXCEPT ![w] = n] /\ UNCHANGED <<seq, attempts>>
      BY <2>3 DEF TransitionEnds, n, Taken
    <3> QED
      BY <2>3, <3>1 DEF TransitionEnds
  <2>4. ASSUME NEW w \in Writes, AllocationFails(w) PROVE RivalsInv'
    BY <2>4 DEF AllocationFails
  <2>5. ASSUME NEW w \in Writes, Allocate(w) \/ Reallocate(w) PROVE RivalsInv'
    BY <2>5 DEF Allocate, Reallocate
  <2>6. ASSUME NEW w \in Writes, InsertRow(w) PROVE RivalsInv'
    BY <2>6 DEF InsertRow, locals, request
  <2>7. ASSUME NEW w \in Writes, SequenceCollides(w) PROVE RivalsInv'
    <3>1. seq[w] + 1 <= n
      BY <2>7 DEF SequenceCollides, Taken
    <3>2. /\ pc[w] = "insert" /\ seen[w] + attempts[w] + 1 <= n
          /\ pc' = [pc EXCEPT ![w] = IF attempts[w] + 1 = 3 THEN "gaveUp" ELSE "retry"]
          /\ attempts' = [attempts EXCEPT ![w] = @ + 1]
          /\ UNCHANGED <<seq, seen>>
      <4>1. /\ pc[w] = "insert"
            /\ pc' = [pc EXCEPT ![w] = IF attempts[w] + 1 = 3 THEN "gaveUp" ELSE "retry"]
            /\ attempts' = [attempts EXCEPT ![w] = @ + 1]
            /\ UNCHANGED <<seq, seen>>
        BY ONLY <2>7 DEF SequenceCollides, MaxAttempts, Steps
      <4>2. seen[w] + attempts[w] <= seq[w]
        BY <4>1
      <4> QED
        BY <4>1, <4>2, <3>1
    <3>3. ASSUME NEW v \in Writes, v # w
          PROVE  /\ pc'[v] = pc[v] /\ seq'[v] = seq[v]
                 /\ seen'[v] = seen[v] /\ attempts'[v] = attempts[v]
      BY <3>2, <3>3
    <3>4. /\ seen'[w] = seen[w] /\ attempts'[w] = attempts[w] + 1
          /\ pc'[w] \in {"gaveUp", "retry"}
          /\ pc'[w] = "gaveUp" => attempts[w] + 1 = 3
      BY <3>2
    <3>5. pc'[w] = "retry" => seen'[w] + attempts'[w] <= n
      BY <3>2, <3>4
    <3>6. pc'[w] = "gaveUp" => seen'[w] + 3 <= n
      <4>1. \A k, m \in Nat : k + m + 1 <= n /\ m + 1 = 3 => k + 3 <= n
        OBVIOUS
      <4>2. seen[w] \in Nat /\ attempts[w] \in Nat
        <5>1. attempts[w] \in 0 .. 3 /\ seen[w] \in Nat
          OBVIOUS
        <5> QED
          BY ONLY <5>1
      <4> QED
        BY <3>2, <3>4, <4>1, <4>2
    <3> QED
      BY <3>3, <3>4, <3>5, <3>6
  <2>8. ASSUME NEW w \in Writes, FindSummary(w) PROVE RivalsInv'
    BY <2>8 DEF FindSummary
  <2>9. ASSUME NEW w \in Writes, SaveSummary(w) PROVE RivalsInv'
    <3>1. pc[w] = "save" => found[w] = summary
      BY DEF DenseInv
    <3> QED
      BY <2>9, <3>1 DEF SaveSummary, request
  <2>10. ASSUME NEW w \in Writes, Abort(w) PROVE RivalsInv'
    BY <2>10 DEF Abort, request
  <2>11. ASSUME NEW p \in Processes, Crash(p) PROVE RivalsInv'
    BY <2>11 DEF Crash, request, Ended
  <2> HIDE DEF RivalsInv
  <2> QED
    BY <1>4, <2>2, <2>3, <2>4, <2>5, <2>6, <2>7, <2>8, <2>9, <2>10, <2>11, NextCases
<1> QED
  BY <1>3, <1>4

-----------------------------------------------------------------------------
(* The theorems.                                                           *)

ProofInv == IndInv /\ Bounded

LEMMA InitProofInv == Init => ProofInv
<1> SUFFICES ASSUME Init PROVE ProofInv
  OBVIOUS
<1>1. Taken = {} /\ Cardinality(Taken) = 0
  BY FS_EmptySet DEF Init, Taken
<1>2. TypeInv
  BY TraceAssumption DEF Init, TypeInv, TypeOK, Locations, Ended
<1>3. Bounded
  BY <1>1, <1>2 DEF Bounded
<1>4. TransactionsInv /\ TracesInv
  BY <1>1 DEF Init, TransactionsInv, InTransaction, SummaryHolders, TracesInv
<1>5. CountsInv /\ DenseInv
  BY <1>1 DEF Init, CountsInv, DenseInv, GovernedAgrees, InTransaction
<1>6. RivalsInv
  BY DEF Init, RivalsInv
<1> QED
  BY <1>2, <1>3, <1>4, <1>5, <1>6 DEF ProofInv, IndInv

LEMMA NextProofInv == ProofInv /\ [Next]_vars => ProofInv'
<1> SUFFICES ASSUME ProofInv, [Next]_vars PROVE ProofInv'
  OBVIOUS
<1>1. Bounded /\ TransactionsInv /\ TracesInv /\ CountsInv
  BY DEF ProofInv, IndInv
<1>2. Bounded' /\ TransactionsInv' /\ TracesInv' /\ CountsInv'
  BY <1>1, NextTypes, NextTransactions, NextTraces, NextCounts
<1>3. fallbacks' = 0 => fallbacks = 0
  <2>1. fallbacks \in Nat
    BY <1>1, TraceAssumption DEF Bounded, TypeInv, TypeOK
  <2>2. fallbacks' \in {fallbacks, fallbacks + 1}
    BY DEF Next, Continue, vars, TransitionEnds, AllocationFails, Allocate, InsertRow,
           SequenceCollides, Reallocate, FindSummary, SaveSummary, Commit, Abort,
           CommitUnconfirmed, Crash
  <2> QED
    BY <2>1, <2>2
<1>4. fallbacks' = 0 => DenseInv' /\ RivalsInv'
  <2> SUFFICES ASSUME fallbacks' = 0 PROVE DenseInv' /\ RivalsInv'
    OBVIOUS
  <2>1. fallbacks = 0 /\ DenseInv /\ RivalsInv
    BY <1>3 DEF ProofInv, IndInv
  <2> QED
    BY <1>1, <2>1, NextDense, NextRivals
<1> QED
  BY <1>2, <1>4 DEF ProofInv, IndInv, Bounded

LEMMA AlwaysProofInv == Spec => []ProofInv
  BY InitProofInv, NextProofInv, PTL DEF Spec

(* Every variable keeps its type: a sequence is a number also when its     *)
(* allocation failed, no write collides more than three times, and the     *)
(* summary is a whole row or absent.                                       *)
THEOREM TraceTypesCorrect == Spec => []TypeOK
<1>1. ProofInv => TypeOK
  BY DEF ProofInv, IndInv, TypeInv
<1> QED
  BY <1>1, AlwaysProofInv, PTL

(* However many transitions of a run are traced at once, by however many   *)
(* processes, with any number of collisions, crashes and lost COMMITs: its *)
(* rows are numbered from 0 without gaps, unless an allocation fell back on*)
(* a process's counter.                                                    *)
THEOREM RunSequencesAreValid == Spec => []SequenceValid
<1>1. ProofInv => SequenceValid
  BY DEF ProofInv, IndInv, DenseInv, SequenceValid
<1> QED
  BY <1>1, AlwaysProofInv, PTL

(* The summary counts the rows, and says that the run is governed exactly  *)
(* when one of them does.                                                  *)
THEOREM SummaryIsOfItsRows == Spec => []SummaryAgrees
<1>1. ProofInv => SummaryAgrees
  BY DEF ProofInv, IndInv, CountsInv, DenseInv, GovernedAgrees, SummaryAgrees
<1> QED
  BY <1>1, AlwaysProofInv, PTL

(* A transition has at most one row, also when the outcome of its COMMIT   *)
(* is unknown, and it has one if its write resolved.                       *)
THEOREM TracedAtMostOnce == Spec => []TracedOnce
<1>1. ASSUME ProofInv PROVE TracedOnce
  <2>1. TracesInv /\ Bounded
    BY <1>1 DEF ProofInv, IndInv
  <2>2. ASSUME NEW w \in Writes PROVE Cardinality(RowsOf(w)) <= 1
    <3>1. CASE RowsOf(w) = {}
      BY <3>1, FS_EmptySet
    <3>2. CASE RowsOf(w) # {}
      <4>1. PICK s : s \in RowsOf(w)
        BY <3>2
      <4>2. RowsOf(w) = {s}
        BY <2>1, <4>1 DEF RowsOf, TracesInv
      <4>3. Cardinality({s}) = 1
        BY FS_Singleton
      <4> QED
        BY <4>2, <4>3
    <3> QED
      BY <3>1, <3>2
  <2> QED
    BY <2>1, <2>2 DEF TracesInv, TracedOnce
<1>2. ProofInv => TracedOnce
  BY <1>1
<1> QED
  BY <1>2, AlwaysProofInv, PTL

(* A write is given up only if three rows were committed since its         *)
(* transition ended: no trace is lost to one rival.                        *)
THEOREM GivingUpTakesThreeRivals == Spec => []GivingUpIsExplained
<1>1. ASSUME ProofInv PROVE GivingUpIsExplained
  <2> SUFFICES ASSUME NEW w \in Writes, pc[w] = "gaveUp", fallbacks = 0
               PROVE  Cardinality(Taken) >= seen[w] + 3
    BY DEF GivingUpIsExplained
  <2>1. seen[w] + 3 <= Cardinality(Taken) /\ seen[w] \in Nat /\ Cardinality(Taken) \in Nat
    BY <1>1, TakenIsFinite DEF ProofInv, IndInv, RivalsInv, Bounded, TypeInv, TypeOK
  <2> QED
    BY <2>1
<1>2. ProofInv => GivingUpIsExplained
  BY <1>1
<1> QED
  BY <1>2, AlwaysProofInv, PTL

-----------------------------------------------------------------------------
(* The abstract log.                                                       *)

(* Without fallbacks, Log lists the rows in sequence order.                *)
LEMMA LogIsRows ==
  ASSUME ProofInv, fallbacks = 0
  PROVE  /\ Cardinality(Taken) \in Nat
         /\ \A i \in 1 .. Cardinality(Taken) : i - 1 \in Taken
         /\ \A s \in Taken : s + 1 \in 1 .. Cardinality(Taken) /\ (s + 1) - 1 = s
         /\ Log \in Seq(Row) /\ Len(Log) = Cardinality(Taken)
         /\ \A i \in 1 .. Cardinality(Taken) : Log[i] = trace[i - 1]
<1> DEFINE n == Cardinality(Taken)
<1>1. /\ n \in Nat /\ Taken = 0 .. n - 1
      /\ \A s \in Taken : trace[s] \in Row
  BY TakenIsFinite DEF ProofInv, IndInv, DenseInv, Bounded, TypeInv, TypeOK, Taken
<1>2. Log = [i \in 1 .. n |-> trace[i - 1]]
  BY DEF Log
<1> HIDE DEF n
<1>3. \A i \in 1 .. n : i - 1 \in Taken
  BY <1>1
<1>4. \A s \in Taken : s + 1 \in 1 .. n /\ (s + 1) - 1 = s
  BY <1>1
<1>5. Log \in [1 .. n -> Row] /\ \A i \in 1 .. n : Log[i] = trace[i - 1]
  BY <1>1, <1>2, <1>3
<1>6. Log \in Seq(Row) /\ Len(Log) = n
  BY <1>1, <1>5
<1> QED
  BY <1>1, <1>3, <1>4, <1>5, <1>6 DEF n

(* The summary is that of the log.                                         *)
LEMMA SummaryIsOfTheLog ==
  ASSUME ProofInv, fallbacks = 0
  PROVE  summary = TraceLog!Summarised(Log)
<1> DEFINE n == Cardinality(Taken)
           B == {s \in Taken : trace[s].blocked}
           L == TraceLog!BlockedSteps(Log)
<1>1. /\ n \in Nat
      /\ \A i \in 1 .. n : i - 1 \in Taken
      /\ \A s \in Taken : s + 1 \in 1 .. n /\ (s + 1) - 1 = s
      /\ Log \in Seq(Row) /\ Len(Log) = n
      /\ \A i \in 1 .. n : Log[i] = trace[i - 1]
  BY LogIsRows
<1>2. DOMAIN Log = 1 .. n
  BY <1>1
<1>3. CASE Taken = {}
  <2>1. n = 0 /\ summary = NoSummary
    BY <1>3, FS_EmptySet DEF ProofInv, IndInv, CountsInv
  <2>2. Log = <<>>
    BY <1>1, <2>1
  <2> QED
    BY <2>1, <2>2 DEF TraceLog!Summarised
<1>4. CASE Taken # {}
  <2>1. Log # <<>>
    <3> HIDE DEF n
    <3> QED
      BY <1>1, <1>4
  <2>2. Cardinality(L) = Cardinality(B)
    <3> DEFINE f == [s \in B |-> s + 1]
    <3>1. L = {i \in 1 .. n : trace[i - 1].blocked}
      BY <1>1, <1>2 DEF TraceLog!BlockedSteps
    <3>2. IsFiniteSet(B)
      BY TakenIsFinite, FS_Subset DEF ProofInv
    <3>3. f \in Bijection(B, L)
      <4>1. \A s \in B : s \in Taken /\ s \in Nat /\ trace[s].blocked
        BY TakenIsFinite DEF ProofInv
      <4>2. f \in [B -> L]
        <5> HIDE DEF n, L
        <5> QED
          BY <1>1, <3>1, <4>1
      <4>3. \A s, t \in B : f[s] = f[t] => s = t
        BY <4>1
      <4>4. \A i \in L : \E s \in B : f[s] = i
        <5>1. \A i \in L : i \in 1 .. n /\ i - 1 \in B
          BY <1>1, <3>1
        <5>2. \A i \in 1 .. n : (i - 1) + 1 = i
          OBVIOUS
        <5>3. \A i \in L : f[i - 1] = i
          BY <5>1, <5>2
        <5> HIDE DEF f, B, L
        <5> QED
          BY <5>1, <5>3
      <4> HIDE DEF f, B, L
      <4> QED
        BY <4>2, <4>3, <4>4, Fun_IsBij
    <3> HIDE DEF f, B, L
    <3> QED
      BY <3>2, <3>3, FS_Bijection DEF ExistsBijection
  <2>3. /\ summary \in Summary
        /\ summary.stepCount = n /\ summary.blockedCount = Cardinality(B)
        /\ summary.governed = \E s \in Taken : trace[s].governed
    BY <1>4 DEF ProofInv, IndInv, CountsInv, DenseInv, GovernedAgrees, TypeInv, TypeOK
  <2>4. (\E s \in Taken : trace[s].governed) <=> (\E i \in DOMAIN Log : Log[i].governed)
    <3> HIDE DEF n
    <3> QED
      BY <1>1, <1>2
  <2>5. summary.governed = \E i \in DOMAIN Log : Log[i].governed
    BY <2>3, <2>4
  <2> HIDE DEF n, B, L
  <2>6. summary = [stepCount |-> n, blockedCount |-> Cardinality(L),
                   governed |-> \E i \in DOMAIN Log : Log[i].governed]
    BY <2>2, <2>3, <2>5 DEF Summary
  <2>7. TraceLog!Summarised(Log) =
          [stepCount |-> Len(Log), blockedCount |-> Cardinality(L),
           governed |-> \E i \in DOMAIN Log : Log[i].governed]
    <3>1. TraceLog!Cardinality(L) = Cardinality(L)
      BY DEF TraceLog!Cardinality, Cardinality
    <3> QED
      BY <2>1, <3>1 DEF TraceLog!Summarised, L
  <2>8. Len(Log) = n
    BY <1>1
  <2> QED
    BY ONLY <2>6, <2>7, <2>8
<1> QED
  BY <1>3, <1>4

(* A commit appends its row.                                               *)
LEMMA CommitAppends ==
  ASSUME ProofInv, fallbacks = 0, ProofInv', fallbacks' = 0,
         NEW w \in Writes, Commit(w) \/ CommitUnconfirmed(w)
  PROVE  /\ RowOf(w) \in TraceLog!Rows
         /\ \A i \in DOMAIN Log : Log[i].write # w
         /\ Log' = Append(Log, RowOf(w))
<1> DEFINE n == Cardinality(Taken)
<1>1. /\ Bounded /\ TransactionsInv /\ TracesInv /\ CountsInv /\ DenseInv
      /\ pc[w] = "commit"
  BY CommitCases DEF ProofInv, IndInv
<1>2. /\ n \in Nat /\ DOMAIN Log = 1 .. n
      /\ \A i \in 1 .. n : i - 1 \in Taken /\ Log[i] = trace[i - 1]
      /\ Log \in Seq(Row) /\ Len(Log) = n
  BY LogIsRows
<1>3. RowOf(w) \in Row
  BY <1>1, SavedSummaryType
<1>4. \A i \in DOMAIN Log : Log[i].write # w
  BY <1>1, <1>2 DEF TracesInv
<1>5. /\ seq[w] = n /\ Cardinality(Taken') = n + 1
      /\ trace'[n] = RowOf(w) /\ \A s \in Taken : trace'[s] = trace[s]
  BY <1>1, CommitIsNext, CommitAddsRow
<1>6. Log' = [i \in 1 .. n + 1 |-> trace'[i - 1]]
  BY <1>5 DEF Log
<1>7. \A i \in 1 .. n + 1 : trace'[i - 1] = IF i = n + 1 THEN RowOf(w) ELSE Log[i]
  <2> HIDE DEF n
  <2>1. (n + 1) - 1 = n
    BY <1>2
  <2>2. \A i \in 1 .. n + 1 : i # n + 1 => i \in 1 .. n
    BY <1>2
  <2> QED
    BY <1>2, <1>5, <2>1, <2>2
<1>8. /\ DOMAIN Append(Log, RowOf(w)) = 1 .. n + 1
      /\ \A i \in 1 .. n + 1 :
           Append(Log, RowOf(w))[i] = IF i = n + 1 THEN RowOf(w) ELSE Log[i]
  <2> HIDE DEF n
  <2> QED
    BY <1>2, <1>3, AppendProperties
<1>9. Log' = Append(Log, RowOf(w))
  <2> HIDE DEF n
  <2> DEFINE a == Append(Log, RowOf(w))
  <2>1. a \in Seq(Row) /\ Len(a) = n + 1
    BY <1>2, <1>3, AppendProperties
  <2>2. Log' \in Seq(Row) /\ Len(Log') = n + 1
    <3>1. \A i \in 1 .. n + 1 : trace'[i - 1] \in Row
      BY <1>2, <1>3, <1>7, SMTT(30)
    <3>2. Log' \in [1 .. n + 1 -> Row] /\ n + 1 \in Nat
      BY <1>2, <1>6, <3>1
    <3> QED
      BY <3>2
  <2>3. \A i \in 1 .. n + 1 : Log'[i] = a[i]
    BY <1>6, <1>7, <1>8
  <2> HIDE DEF a
  <2>4. Log' = a
    BY <2>1, <2>2, <2>3, SeqEqual
  <2> QED
    BY <2>4 DEF a
<1> QED
  BY <1>3, <1>4, <1>9 DEF TraceLog!Rows, Row

(* As long as the sequences come from the database, a reader of the run    *)
(* cannot tell the store from a log to which each traced transition is     *)
(* appended in one step together with its summary: overlapping             *)
(* transactions, retries and lost COMMITs are invisible.                   *)
THEOREM StoreIsALog == MaxFallbacks = 0 => (Spec => ImplementsTraceLog)
<1> DEFINE Agrees == summary = TraceLog!Summarised(Log)
           NoFallback == fallbacks = 0
<1> SUFFICES ASSUME MaxFallbacks = 0 PROVE Spec => ImplementsTraceLog
  OBVIOUS
<1>1. ProofInv => NoFallback
  BY DEF ProofInv, IndInv, TypeInv, TypeOK
<1>2. ProofInv /\ NoFallback => Agrees
  BY SummaryIsOfTheLog
<1>3. Init => TraceLog!Init
  <2> SUFFICES ASSUME Init PROVE TraceLog!Init
    OBVIOUS
  <2>1. ProofInv /\ fallbacks = 0 /\ Taken = {} /\ Cardinality(Taken) = 0
    BY InitProofInv, FS_EmptySet DEF Init, Taken
  <2>2. Log = <<>>
    BY <2>1, LogIsRows
  <2> QED
    BY <2>2 DEF Init, TraceLog!Init
<1>4. ProofInv /\ NoFallback /\ ProofInv' /\ NoFallback' /\ Agrees' /\ [Next]_vars
        => [TraceLog!Next]_TraceLog!vars
  <2> SUFFICES ASSUME ProofInv, NoFallback, ProofInv', NoFallback', Agrees', [Next]_vars
               PROVE  [TraceLog!Next]_TraceLog!vars
    OBVIOUS
  <2>1. CASE \E w \in Writes : Commit(w) \/ CommitUnconfirmed(w)
    <3>1. PICK w \in Writes : Commit(w) \/ CommitUnconfirmed(w)
      BY <2>1
    <3>2. /\ RowOf(w) \in TraceLog!Rows /\ RowOf(w).write = w
          /\ \A i \in DOMAIN Log : Log[i].write # w
          /\ Log' = Append(Log, RowOf(w))
      BY <3>1, CommitAppends DEF RowOf
    <3>3. TraceLog!Trace(RowOf(w))
      BY <3>2 DEF TraceLog!Trace
    <3> QED
      BY <3>2, <3>3 DEF TraceLog!Next
  <2>2. CASE ~ \E w \in Writes : Commit(w) \/ CommitUnconfirmed(w)
    <3>1. UNCHANGED <<trace, summary>>
      BY <2>2, OtherSteps DEF ProofInv
    <3> QED
      BY <3>1 DEF TraceLog!vars, Log, Taken
  <2> QED
    BY <2>1, <2>2
<1> HIDE DEF Agrees, NoFallback
<1> QED
  BY <1>1, <1>2, <1>3, <1>4, AlwaysProofInv, PTL DEF Spec, ImplementsTraceLog, TraceLog!Spec
=============================================================================

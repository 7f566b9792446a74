-------------------------- MODULE AuditChainProofs --------------------------
(***************************************************************************)
(* Proofs about AuditChain, for every value of its constants.              *)
(***************************************************************************)
EXTENDS AuditChain, TLAPS

\* The writers that the sequence has given an id.
Numbered == {w \in Writers : pc[w] \notin {"idle", "skipped"}}

\* No two rows have the same id.
IdsDistinct ==
  /\ \A w \in Numbered : id[w] >= 1
  /\ \A v, w \in Numbered : id[v] = id[w] => v = w

\* One transaction at most holds the advisory lock, and the previous_hash it has
\* put into its row is still that of the last committed row.
LockHeld ==
  \A w \in Writers : pc[w] \in {"open", "aborted"} => LockFree(w) /\ IsLast(prev[w])

\* Where a committed row hangs in the chain.  A late row follows a row with a greater
\* id.  A row that is not late follows the last row before it, apart from late ones.
Linked ==
  \A w \in Done :
    IF w \in late
      THEN prev[w] \in Done /\ id[prev[w]] > id[w]
      ELSE /\ prev[w] # None => prev[w] \in Done /\ id[prev[w]] < id[w]
           /\ \A v \in Done :
                (prev[w] # None => id[v] > id[prev[w]]) /\ id[v] < id[w] => v \in late

\* The inductive invariant of the chain.
ChainInv == TypeOK /\ IdsDistinct /\ LockHeld /\ Linked

\* Every step keeps the types.
LEMMA TypeStep ==
  ASSUME TypeOK, [Next]_vars
  PROVE  TypeOK'
<1> USE DEF TypeOK, Points
<1>1. ASSUME NEW w \in Writers, Begin(w)
      PROVE  TypeOK'
  BY <1>1 DEF Begin, Done
<1>2. ASSUME NEW w \in Writers, HashAndInsert(w)
      PROVE  TypeOK'
  BY <1>2 DEF HashAndInsert, Done
<1>3. ASSUME NEW w \in Writers, Commit(w)
      PROVE  TypeOK'
  BY <1>3 DEF Commit, Done
<1>4. ASSUME NEW w \in Writers, Rollback(w)
      PROVE  TypeOK'
  BY <1>4 DEF Rollback, Done
<1>5. CASE UNCHANGED vars
  BY <1>5 DEF vars, Done
<1> QED BY <1>1, <1>2, <1>3, <1>4, <1>5 DEF Next, Step

\* A sequence gives out every id once.
LEMMA DistinctStep ==
  ASSUME TypeOK, IdsDistinct, [Next]_vars
  PROVE  IdsDistinct'
<1> USE DEF TypeOK, IdsDistinct, Numbered
<1>1. ASSUME NEW w \in Writers, Begin(w)
      PROVE  IdsDistinct'
  BY <1>1 DEF Begin
<1>2. ASSUME NEW w \in Writers, HashAndInsert(w) \/ Commit(w) \/ Rollback(w)
      PROVE  IdsDistinct'
  BY <1>2 DEF HashAndInsert, Commit, Rollback
<1>3. CASE UNCHANGED vars
  BY <1>3 DEF vars
<1> QED BY <1>1, <1>2, <1>3 DEF Next, Step

\* The lock keeps the last committed row in place while a transaction is open.
LEMMA LockStep ==
  ASSUME TypeOK, LockHeld, [Next]_vars
  PROVE  LockHeld'
<1> USE DEF TypeOK, LockHeld, LockFree, IsLast, Done
<1>1. ASSUME NEW w \in Writers, Begin(w)
      PROVE  LockHeld'
  BY <1>1 DEF Begin
<1>2. ASSUME NEW w \in Writers, HashAndInsert(w)
      PROVE  LockHeld'
  BY <1>2 DEF HashAndInsert
<1>3. ASSUME NEW w \in Writers, Commit(w)
      PROVE  LockHeld'
  BY <1>3 DEF Commit
<1>4. ASSUME NEW w \in Writers, Rollback(w)
      PROVE  LockHeld'
  BY <1>4 DEF Rollback
<1>5. CASE UNCHANGED vars
  BY <1>5 DEF vars
<1> QED BY <1>1, <1>2, <1>3, <1>4, <1>5 DEF Next, Step

\* A commit hangs its row where Linked says, and moves no other.
LEMMA LinkedStep ==
  ASSUME TypeOK, IdsDistinct, LockHeld, Linked, [Next]_vars
  PROVE  Linked'
<1> USE AuditChainAssumption DEF TypeOK
<1>1. ASSUME Done' = Done, late' = late,
             \A w \in Done : id'[w] = id[w] /\ prev'[w] = prev[w]
      PROVE  Linked'
  BY <1>1 DEF Linked
<1>2. ASSUME NEW w \in Writers, Begin(w)
      PROVE  Linked'
  BY <1>1, <1>2 DEF Begin, Done
<1>3. ASSUME NEW w \in Writers, HashAndInsert(w)
      PROVE  Linked'
  BY <1>1, <1>3 DEF HashAndInsert, Done
<1>4. ASSUME NEW w \in Writers, Rollback(w)
      PROVE  Linked'
  BY <1>1, <1>4 DEF Rollback, Done
<1>5. ASSUME NEW w \in Writers, Commit(w)
      PROVE  Linked'
  <2>1. Done' = Done \cup {w} /\ w \notin Done /\ id' = id /\ prev' = prev
    BY <1>5 DEF Commit, Done
  <2>2. late' = IF \E v \in Done : id[v] > id[w] THEN late \cup {w} ELSE late
    BY <1>5 DEF Commit
  <2>3. IsLast(prev[w])
    BY <1>5 DEF Commit, LockHeld
  <2>4. \A v \in Done : id[v] # id[w]
    BY <1>5 DEF Commit, IdsDistinct, Numbered, Done
  <2>5. w \notin late
    BY <2>1
  <2> SUFFICES ASSUME NEW x \in Done \cup {w}
               PROVE  IF x \in late'
                        THEN prev[x] \in Done \cup {w} /\ id[prev[x]] > id[x]
                        ELSE /\ prev[x] # None => prev[x] \in Done \cup {w} /\ id[prev[x]] < id[x]
                             /\ \A v \in Done \cup {w} :
                                  (prev[x] # None => id[v] > id[prev[x]]) /\ id[v] < id[x]
                                    => v \in late'
    BY <2>1 DEF Linked
  <2>6. CASE x \in Done
    BY <2>1, <2>2, <2>4, <2>5, <2>6 DEF Linked, Done
  <2>7. CASE x = w
    BY <2>1, <2>2, <2>3, <2>4, <2>5, <2>7 DEF IsLast, Done
  <2> QED BY <2>6, <2>7
<1>6. CASE UNCHANGED vars
  BY <1>6 DEF vars, Linked, Done
<1> QED BY <1>2, <1>3, <1>4, <1>5, <1>6 DEF Next, Step

\* The chain invariant holds for any number of writers.
THEOREM ChainHolds == Spec => []ChainInv
<1>1. Init => ChainInv
  BY DEF Init, ChainInv, TypeOK, Points, IdsDistinct, Numbered, LockHeld, Linked, Done
<1>2. ChainInv /\ [Next]_vars => ChainInv'
  BY TypeStep, DistinctStep, LockStep, LinkedStep DEF ChainInv
<1> QED BY <1>1, <1>2, PTL DEF Spec

\* Every variable keeps its type and no row has an id the sequence did not give out, for
\* any number of inserts.
THEOREM TypeCorrect == Spec => []TypeOK
<1>1. ChainInv => TypeOK
  BY DEF ChainInv
<1> QED BY ChainHolds, <1>1, PTL

\* A late row breaks the chain.
LEMMA LateIsBroken ==
  ASSUME ChainInv, NEW w \in late
  PROVE  w \in Done /\ Broken(w)
  BY AuditChainAssumption DEF ChainInv, TypeOK, Linked, Broken, Precedes, Done

\* A row that breaks the chain is late or comes after a late row.
LEMMA BrokenIsBehindLate ==
  ASSUME ChainInv, NEW w \in Done, Broken(w), w \notin late
  PROVE  \E v \in late : id[v] < id[w]
<1>1. prev[w] \in Writers \cup {None} /\ w \in Writers
  BY DEF ChainInv, TypeOK, Done
<1>2. CASE prev[w] = None
  BY <1>2 DEF ChainInv, TypeOK, Linked, Broken, Precedes, Done
<1>3. CASE prev[w] # None
  BY <1>1, <1>3 DEF ChainInv, TypeOK, Linked, Broken, Precedes, Done
<1> QED BY <1>2, <1>3

\* The verification of the chain reports the first row that was committed out of the
\* order of the ids, and reports nothing else, for any number of concurrent inserts.
THEOREM VerdictHolds == Spec => []FirstInvalidIsLate
<1>1. ASSUME ChainInv PROVE FirstInvalidIsLate
  <2> USE DEF Done
  <2>1. \A w \in Writers : id[w] \in Nat
    BY <1>1 DEF ChainInv, TypeOK
  <2>2. ASSUME NEW e \in Done, IsValid(e), NEW w \in late
        PROVE  id[w] > id[e]
    BY <1>1, <2>1, <2>2, LateIsBroken DEF IsValid
  <2>3. ASSUME NEW e \in Done, \A w \in late : id[w] > id[e]
        PROVE  IsValid(e)
    <3> SUFFICES ASSUME NEW w \in Done, id[w] <= id[e], Broken(w)
                 PROVE  FALSE
      BY DEF IsValid
    <3>1. w \notin late
      BY <2>1, <2>3
    <3>2. PICK v \in late : id[v] < id[w]
      BY <1>1, <3>1, BrokenIsBehindLate
    <3>3. v \in Writers /\ id[v] > id[e]
      BY <1>1, <2>3, LateIsBroken
    <3> QED BY <2>1, <3>2, <3>3
  <2>4. ASSUME NEW e \in Done, NEW w \in Done, FirstInvalid(e, w)
        PROVE  w \in late
    <3> SUFFICES ASSUME w \notin late
                 PROVE  FALSE
      OBVIOUS
    <3>1. PICK v \in late : id[v] < id[w]
      BY <1>1, <2>4, BrokenIsBehindLate DEF FirstInvalid
    <3>2. v \in Done /\ Broken(v)
      BY <1>1, LateIsBroken
    <3> QED BY <2>1, <2>4, <3>1, <3>2 DEF FirstInvalid
  <2> QED BY <2>2, <2>3, <2>4 DEF FirstInvalidIsLate
<1> QED BY <1>1, ChainHolds, PTL

\* A transaction whose row is inserted and not yet committed is the only one with
\* its resource.
Exclusive == \A w \in Writers : pc[w] = "open" => ~Stored(w)

LEMMA ExclusiveHolds == Spec => [](Exclusive /\ OneEventPerValidation)
<1>1. Init => Exclusive /\ OneEventPerValidation
  BY DEF Init, Exclusive, OneEventPerValidation, Done
<1>2. ChainInv /\ Exclusive /\ OneEventPerValidation /\ [Next]_vars
        => Exclusive' /\ OneEventPerValidation'
  <2> SUFFICES ASSUME ChainInv, Exclusive, OneEventPerValidation, [Next]_vars
               PROVE  Exclusive' /\ OneEventPerValidation'
    OBVIOUS
  <2> USE DEF ChainInv, TypeOK, Exclusive, OneEventPerValidation, Stored, Done
  <2>1. ASSUME NEW w \in Writers, Begin(w)
        PROVE  Exclusive' /\ OneEventPerValidation'
    BY <2>1 DEF Begin
  <2>2. ASSUME NEW w \in Writers, HashAndInsert(w)
        PROVE  Exclusive' /\ OneEventPerValidation'
    BY <2>2 DEF HashAndInsert, DuplicateKey
  <2>3. ASSUME NEW w \in Writers, Commit(w)
        PROVE  Exclusive' /\ OneEventPerValidation'
    BY <2>3 DEF Commit, LockHeld, LockFree
  <2>4. ASSUME NEW w \in Writers, Rollback(w)
        PROVE  Exclusive' /\ OneEventPerValidation'
    BY <2>4 DEF Rollback
  <2>5. CASE UNCHANGED vars
    BY <2>5 DEF vars
  <2> QED BY <2>1, <2>2, <2>3, <2>4, <2>5 DEF Next, Step
<1> QED BY <1>1, <1>2, ChainHolds, PTL DEF Spec

\* OneEventPerValidation holds for any number of writers and resources.
THEOREM DedupHolds == Spec => []OneEventPerValidation
BY ExclusiveHolds, PTL
-----------------------------------------------------------------------------
(* AuditChain implements EventChain.                                       *)

\* The head of the chain, and what the committed rows were hashed onto.
Head == CHOOSE p \in LastRows : TRUE
Follows == [w \in Writers |-> IF w \in Done THEN prev[w] ELSE None]

\* There is one last row at most, so what the trigger found is the head.
LEMMA OneLastRow ==
  ASSUME ChainInv, NEW p \in LastRows, NEW q \in LastRows
  PROVE  p = q
<1>1. None \notin Done /\ \A v \in Done : id[v] \in Nat
  BY AuditChainAssumption DEF ChainInv, TypeOK, Done
<1>2. CASE p = None \/ q = None
  BY <1>1, <1>2 DEF LastRows, IsLast
<1>3. CASE p \in Done /\ q \in Done
  <2>1. id[p] = id[q]
    BY <1>1, <1>3 DEF LastRows, IsLast
  <2> QED BY <1>3, <2>1 DEF ChainInv, IdsDistinct, Numbered, Done
<1> QED BY <1>2, <1>3 DEF LastRows

LEMMA HeadIsLast ==
  ASSUME ChainInv, NEW p \in LastRows
  PROVE  Head = p
<1>1. Head \in LastRows
  BY DEF Head
<1> QED BY <1>1, OneLastRow

\* After the commit of its row the head is the new row or the old head.
LEMMA CommitMovesHead ==
  ASSUME ChainInv, ChainInv', NEW w \in Writers, Commit(w)
  PROVE  Head' = w \/ (Done # {} /\ Head' = Head)
<1>1. Done' = Done \cup {w} /\ id' = id /\ w \notin Done
  BY DEF Commit, ChainInv, TypeOK, Done
<1>2. prev[w] \in LastRows /\ id[w] \in Nat /\ \A v \in Done : id[v] \in Nat
  BY DEF Commit, ChainInv, TypeOK, LockHeld, IsLast, Done, LastRows
<1>3. Head = prev[w]
  BY <1>2, HeadIsLast
<1>4. CASE \E v \in Done : id[v] > id[w]
  <2>1. LastRows' = LastRows
    BY <1>1, <1>2, <1>4 DEF LastRows, IsLast
  <2> QED BY <1>4, <2>1 DEF Head
<1>5. CASE ~\E v \in Done : id[v] > id[w]
  <2>1. \A v \in Done : id[v] < id[w]
    BY <1>1, <1>2, <1>5 DEF Commit, ChainInv, IdsDistinct, Numbered, Done
  <2>2. LastRows' = {w}
    BY <1>1, <1>2, <2>1 DEF LastRows, IsLast
  <2> QED BY <2>2 DEF Head
<1> QED BY <1>4, <1>5

\* A commit adds the event of its row behind the head.
LEMMA CommitAppends ==
  ASSUME ChainInv, ChainInv', Exclusive, NEW w \in Writers, Commit(w)
  PROVE  Chain!Append(w)
<1>1. Done' = Done \cup {w} /\ w \notin Done
  BY DEF Commit, ChainInv, TypeOK, Done
<1>2. ~Chain!Told(w)
  BY DEF Commit, Exclusive, Stored, Chain!Told
<1>3. Head = prev[w]
  <2>1. prev[w] \in LastRows
    BY DEF Commit, ChainInv, TypeOK, LockHeld, IsLast, Done, LastRows
  <2> QED BY <2>1, HeadIsLast
<1>4. Follows' = [Follows EXCEPT ![w] = Head]
  <2>1. prev' = prev
    BY DEF Commit
  <2> QED BY <1>1, <1>3, <2>1 DEF Follows
<1>5. Head' = w \/ (Done # {} /\ Head' = Head)
  BY CommitMovesHead
<1> QED BY <1>1, <1>2, <1>4, <1>5 DEF Chain!Append, Head, Follows

\* No other step is seen in the chain.
LEMMA OthersStutter ==
  ASSUME ChainInv, [Next]_vars, ~\E w \in Writers : Commit(w)
  PROVE  UNCHANGED <<Done, Follows, Head>>
<1>1. /\ Done' = Done
      /\ \A w \in Done : prev'[w] = prev[w] /\ id'[w] = id[w]
  BY DEF Next, Step, Begin, HashAndInsert, Rollback, vars, ChainInv, TypeOK, Done
<1>2. Follows' = Follows
  BY <1>1 DEF Follows
<1>3. LastRows' = LastRows
  BY <1>1 DEF LastRows, IsLast
<1>4. Head' = Head
  BY <1>3 DEF Head
<1> QED BY <1>1, <1>2, <1>4

\* The audit trail implements the chain: an event that overlaps with others is hashed onto
\* the head of the instant it becomes visible in, and no event moves or goes away.
THEOREM ChainRefined == Spec => ImplementsChain
<1>1. Init => Chain!ChainInit
  <2> SUFFICES ASSUME Init PROVE Chain!ChainInit
    OBVIOUS
  <2>1. Done = {} /\ LastRows = {None}
    BY DEF Init, Done, LastRows, IsLast
  <2> QED BY <2>1 DEF Chain!ChainInit
<1>2. ChainInv /\ ChainInv' /\ Exclusive /\ [Next]_vars => [Chain!ChainNext]_(Chain!chainVars)
  <2> SUFFICES ASSUME ChainInv, ChainInv', Exclusive, [Next]_vars
               PROVE  [Chain!ChainNext]_(Chain!chainVars)
    OBVIOUS
  <2>1. CASE \E w \in Writers : Commit(w)
    BY <2>1, CommitAppends DEF Chain!ChainNext
  <2>2. CASE ~\E w \in Writers : Commit(w)
    BY <2>2, OthersStutter DEF Chain!chainVars, Head, Follows
  <2> QED BY <2>1, <2>2
<1> QED BY <1>1, <1>2, ChainHolds, ExclusiveHolds, PTL DEF Spec, ImplementsChain, Chain!ChainSpec
=============================================================================

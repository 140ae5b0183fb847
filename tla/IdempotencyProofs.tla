------------------------- MODULE IdempotencyProofs -------------------------
(***************************************************************************)
(* The safety of Idempotency for any number of calls and bodies and any    *)
(* StaleAfter < Ttl.  One inductive invariant carries all of it: as long   *)
(* as no request has overstayed, a call that executes owns the row, and    *)
(* the row is too young to be reclaimed or swept.                          *)
(***************************************************************************)
EXTENDS Idempotency, TLAPS

\* An id that some request has decided to reclaim names a row past saving.
SeenIsStale ==
  \A c \in Calls : row # NoRow /\ seen[c] = row.id => Stale \/ row.status = "COMPLETED"

\* Only a running request ages, and none has overstayed.
AgesFit ==
  \A c \in Calls : /\ ~Running(c) => age[c] = 0
                   /\ ~late => age[c] <= StaleAfter

Owns(c) ==
  /\ row # NoRow /\ row.by = c /\ row.status = "IN_PROGRESS"
  /\ row.age <= age[c] /\ row.left >= Ttl - age[c]

HoldersOwn == ~late => \A c \in Calls : Executing(c) => Owns(c)

StoredFits ==
  /\ row # NoRow => row.body = Body[row.by]
  /\ ~late /\ row.status = "COMPLETED" =>
       row.author \in Calls /\ Body[row.author] = row.body

IInv ==
  /\ TypeOK /\ SeenIsStale /\ AgesFit /\ HoldersOwn /\ StoredFits
  /\ ReplayFitsTheBody

LEMMA InitInv == Init => IInv
<1> SUFFICES ASSUME Init PROVE IInv
  OBVIOUS
<1>1. TypeOK
  <2>1. faults \in 0..MaxFaults /\ age \in [Calls -> 0..Ttl]
    BY IdempotencyAssumption DEF Init
  <2>2. answer \in [Calls -> [kind : {"none", "ok", "failed", "reuse", "replay"},
                              of : Calls \cup {NoCall}]]
    BY DEF Init
  <2> QED
    BY <2>1, <2>2 DEF Init, TypeOK
<1>2. SeenIsStale /\ StoredFits
  BY DEF Init, SeenIsStale, StoredFits, NoRow
<1>3. AgesFit /\ HoldersOwn /\ ReplayFitsTheBody
  BY IdempotencyAssumption
  DEF Init, AgesFit, HoldersOwn, ReplayFitsTheBody, Running, Executing
<1> QED
  BY <1>1, <1>2, <1>3 DEF IInv

\* What the types say of the row, in the form the steps use.
LEMMA RowType ==
  ASSUME TypeOK
  PROVE  /\ row # NoRow => /\ row \in Row /\ row.id # NoId
         /\ row.status = "COMPLETED" => row # NoRow
         /\ row.status = "IN_PROGRESS" => row # NoRow
         /\ NoRow \notin Row
<1>1. \A r \in Row : r.id # NoId
  BY DEF Row, Ids, NoId
<1>2. NoRow.id = NoId /\ NoRow.status = "none"
  BY DEF NoRow
<1> QED
  BY <1>1, <1>2 DEF TypeOK

LEMMA LookupInv ==
  ASSUME IInv, NEW c \in Calls, Lookup(c) PROVE IInv'
<1> USE DEF IInv
<1>0. UNCHANGED <<row, late, faults>>
  BY DEF Lookup
<1>1. TypeOK'
  <2>1. CASE row = NoRow /\ Goto(c, "creating") /\ UNCHANGED <<seen, age, answer>>
    BY <1>0, <2>1 DEF TypeOK, Goto
  <2>2. CASE Answer(c, "reuse", NoCall)
    BY <1>0, <2>2, IdempotencyAssumption DEF TypeOK, Answer, Goto
  <2>3. CASE row # NoRow /\ Answer(c, "replay", row.author)
    <3>1. row.author \in Calls \cup {NoCall}
      BY <2>3, RowType DEF Row
    <3> QED
      BY <1>0, <2>3, <3>1, IdempotencyAssumption DEF TypeOK, Answer, Goto
  <2>4. CASE /\ row # NoRow /\ Goto(c, "reclaiming")
             /\ seen' = [seen EXCEPT ![c] = row.id] /\ UNCHANGED <<age, answer>>
    <3>1. row.id \in Ids
      BY <2>4, RowType DEF Row
    <3> QED
      BY <1>0, <2>4, <3>1 DEF TypeOK, Goto
  <2> QED
    BY <2>1, <2>2, <2>3, <2>4 DEF Lookup
<1>2. SeenIsStale'
  <2>1. CASE UNCHANGED seen
    BY <1>0, <2>1 DEF SeenIsStale, Stale
  <2>2. CASE seen' = [seen EXCEPT ![c] = NoId]
    BY <1>0, <2>2, RowType DEF SeenIsStale, Stale, TypeOK
  <2>3. CASE Stale /\ seen' = [seen EXCEPT ![c] = row.id]
    BY <1>0, <2>3 DEF SeenIsStale, Stale, TypeOK
  <2> QED
    BY <2>1, <2>2, <2>3 DEF Lookup, Answer
<1>3. AgesFit'
  BY <1>0, IdempotencyAssumption
  DEF AgesFit, Lookup, Answer, Goto, Running, TypeOK
<1>4. HoldersOwn'
  BY <1>0 DEF HoldersOwn, Owns, Executing, Lookup, Answer, Goto, TypeOK
<1>5. StoredFits'
  BY <1>0 DEF StoredFits
<1>6. ReplayFitsTheBody'
  <2>1. CASE UNCHANGED answer
    BY <1>0, <2>1 DEF ReplayFitsTheBody
  <2>2. CASE Answer(c, "reuse", NoCall)
    BY <1>0, <2>2 DEF ReplayFitsTheBody, Answer, TypeOK
  <2>3. CASE /\ SameRequest(c) /\ row.status = "COMPLETED"
             /\ Answer(c, "replay", row.author)
    BY <1>0, <2>3 DEF ReplayFitsTheBody, Answer, SameRequest, StoredFits, TypeOK
  <2> QED
    BY <2>1, <2>2, <2>3 DEF Lookup
<1> QED
  BY <1>1, <1>2, <1>3, <1>4, <1>5, <1>6

LEMMA ReclaimInv ==
  ASSUME IInv, NEW c \in Calls, Reclaim(c) PROVE IInv'
<1> USE DEF IInv
<1>0. UNCHANGED <<age, answer, late, faults>> /\ (row' = row \/ row' = NoRow)
  BY DEF Reclaim
<1>1. TypeOK'
  BY <1>0 DEF TypeOK, Reclaim, Goto
<1>2. SeenIsStale'
  BY <1>0, RowType DEF SeenIsStale, Stale, Reclaim, TypeOK
<1>3. AgesFit'
  BY <1>0 DEF AgesFit, Reclaim, Goto, Running, TypeOK
<1>4. HoldersOwn'
  <2> SUFFICES ASSUME ~late, NEW d \in Calls, Executing(d)' PROVE Owns(d)'
    BY <1>0 DEF HoldersOwn
  <2>1. Executing(d) /\ d # c
    BY DEF Executing, Reclaim, Goto, TypeOK
  <2>2. Owns(d) /\ age[d] <= StaleAfter
    BY <2>1 DEF HoldersOwn, AgesFit
  <2>3. row' = row
    <3>1. CASE row.id = seen[c]
      <4>1. Stale
        BY <3>1, <2>2 DEF SeenIsStale, Owns
      <4>2. row.age \in Nat /\ age[d] \in Nat
        BY <2>2 DEF TypeOK, Owns, Row
      <4> QED
        BY <4>1, <4>2, <2>2, IdempotencyAssumption DEF Stale, Owns
    <3>2. CASE row.id # seen[c]
      BY <3>2 DEF Reclaim
    <3> QED
      BY <3>1, <3>2
  <2> QED
    BY <2>2, <2>3, <1>0 DEF Owns
<1>5. StoredFits'
  BY <1>0, RowType DEF StoredFits, NoRow
<1>6. ReplayFitsTheBody'
  BY <1>0 DEF ReplayFitsTheBody
<1> QED
  BY <1>1, <1>2, <1>3, <1>4, <1>5, <1>6

LEMMA CreateInv ==
  ASSUME IInv, NEW c \in Calls, Create(c) PROVE IInv'
<1> USE DEF IInv
<1>0. UNCHANGED <<seen, answer, late, faults>>
  BY DEF Create
<1>1. CASE /\ row = NoRow /\ Ids \ Remembered # {}
           /\ row' = NewRow(c, CHOOSE id \in Ids \ Remembered : TRUE)
           /\ Goto(c, "handling") /\ UNCHANGED age
  <2> DEFINE new == CHOOSE id \in Ids \ Remembered : TRUE
  <2>1. new \in Ids /\ new \notin Remembered
    BY <1>1
  <2> HIDE DEF new
  <2>2. /\ row' = NewRow(c, new) /\ row'.id = new /\ row'.age = 0
        /\ row'.left = Ttl - age[c] /\ row'.by = c
        /\ row'.status = "IN_PROGRESS" /\ row'.body = Body[c]
    BY <1>1 DEF new, NewRow
  <2>3. age[c] \in Nat /\ age[c] <= Ttl
    BY IdempotencyAssumption DEF TypeOK
  <2>4. row' \in Row
    BY <2>1, <2>2, <2>3, IdempotencyAssumption DEF NewRow, Row
  <2>5. TypeOK'
    BY <1>0, <1>1, <2>4 DEF TypeOK, Goto
  <2>6. SeenIsStale'
    BY <1>0, <2>1, <2>2 DEF SeenIsStale, Remembered
  <2>7. AgesFit'
    BY <1>0, <1>1 DEF AgesFit, Goto, Running, TypeOK
  <2>8. \A d \in Calls : ~late /\ Executing(d)' => d = c
    BY <1>1 DEF HoldersOwn, Owns, Executing, Goto, TypeOK
  <2>9. row' # NoRow
    BY <2>4, RowType
  <2>10. Owns(c)'
    BY <1>1, <2>2, <2>3, <2>9, IdempotencyAssumption DEF Owns
  <2>11. HoldersOwn'
    BY <1>0, <2>8, <2>10 DEF HoldersOwn
  <2>12. StoredFits' /\ ReplayFitsTheBody'
    BY <1>0, <2>2 DEF StoredFits, ReplayFitsTheBody
  <2> QED
    BY <2>5, <2>6, <2>7, <2>11, <2>12
<1>2. CASE /\ Goto(c, "idle") /\ age' = [age EXCEPT ![c] = 0] /\ UNCHANGED row
  <2>1. TypeOK'
    BY <1>0, <1>2, IdempotencyAssumption DEF TypeOK, Goto
  <2>2. SeenIsStale' /\ StoredFits' /\ ReplayFitsTheBody'
    BY <1>0, <1>2 DEF SeenIsStale, Stale, StoredFits, ReplayFitsTheBody
  <2>3. AgesFit'
    BY <1>0, <1>2, IdempotencyAssumption DEF AgesFit, Goto, Running, TypeOK
  <2>4. HoldersOwn'
    BY <1>0, <1>2 DEF HoldersOwn, Owns, Executing, Goto, TypeOK
  <2> QED
    BY <2>1, <2>2, <2>3, <2>4
<1> QED
  BY <1>1, <1>2 DEF Create

\* A call that leaves without touching the row disturbs nobody else.
LEMMA LeaveInv ==
  ASSUME IInv, NEW c \in Calls, UNCHANGED <<row, late>>, faults' \in 0..MaxFaults,
         NEW label \in {"idle", "answered"}, Goto(c, label),
         age' = [age EXCEPT ![c] = 0], seen' = [seen EXCEPT ![c] = NoId],
         \/ UNCHANGED answer
         \/ \E kind \in {"ok", "failed"} :
              answer' = [answer EXCEPT ![c] = [kind |-> kind, of |-> NoCall]]
  PROVE  IInv'
<1> USE DEF IInv
<1>1. TypeOK'
  BY IdempotencyAssumption DEF TypeOK, Goto
<1>2. SeenIsStale'
  BY RowType DEF SeenIsStale, Stale, TypeOK
<1>3. StoredFits' /\ ReplayFitsTheBody'
  BY DEF StoredFits, ReplayFitsTheBody, TypeOK
<1>4. AgesFit'
  BY IdempotencyAssumption DEF AgesFit, Goto, Running, TypeOK
<1>5. HoldersOwn'
  BY DEF HoldersOwn, Owns, Executing, Goto, TypeOK
<1> QED
  BY <1>1, <1>2, <1>3, <1>4, <1>5

LEMMA HandleInv ==
  ASSUME IInv, NEW c \in Calls, Handle(c) PROVE IInv'
<1> USE DEF IInv
<1>0. UNCHANGED <<row, seen, age, answer, late, faults>>
  BY DEF Handle
<1>1. TypeOK'
  BY <1>0 DEF Handle, TypeOK, Goto
<1>2. SeenIsStale' /\ StoredFits' /\ ReplayFitsTheBody'
  BY <1>0 DEF SeenIsStale, Stale, StoredFits, ReplayFitsTheBody
<1>3. AgesFit'
  BY <1>0 DEF AgesFit, Handle, Goto, Running, TypeOK
<1>4. HoldersOwn'
  BY <1>0 DEF HoldersOwn, Owns, Executing, Handle, Goto, TypeOK
<1> QED
  BY <1>1, <1>2, <1>3, <1>4

\* The holder writes or deletes the row the key has: while nobody has
\* overstayed, its own.
LEMMA FinishInv ==
  ASSUME IInv, NEW c \in Calls, Complete(c) \/ Release(c) PROVE IInv'
<1> USE DEF IInv
<1>0. /\ UNCHANGED <<late, faults>> /\ Executing(c)
      /\ Goto(c, "answered") /\ age' = [age EXCEPT ![c] = 0]
      /\ seen' = [seen EXCEPT ![c] = NoId]
      /\ \E kind \in {"ok", "failed"} :
           answer' = [answer EXCEPT ![c] = [kind |-> kind, of |-> NoCall]]
  BY DEF Complete, Release, Answer, Executing
<1>1. CASE row' = row \/ row' = NoRow
  <2>1. TypeOK'
    BY <1>0, <1>1, IdempotencyAssumption DEF TypeOK, Goto
  <2>2. SeenIsStale'
    BY <1>0, <1>1, RowType DEF SeenIsStale, Stale, TypeOK
  <2>3. StoredFits'
    BY <1>0, <1>1, RowType DEF StoredFits, NoRow
  <2> QED
    <3>1. ReplayFitsTheBody'
      BY <1>0 DEF ReplayFitsTheBody, TypeOK
    <3>2. AgesFit'
      BY <1>0, IdempotencyAssumption DEF AgesFit, Goto, Running, TypeOK
    <3>3. \A d \in Calls : ~late /\ Executing(d)' => d # c /\ Executing(d) /\ Owns(c) /\ Owns(d)
      BY <1>0 DEF HoldersOwn, Executing, Goto, TypeOK
    <3>4. HoldersOwn'
      BY <1>0, <3>3 DEF HoldersOwn, Owns
    <3> QED
      BY <2>1, <2>2, <2>3, <3>1, <3>2, <3>4
<1>2. CASE row # NoRow /\ row' = [row EXCEPT !.status = "COMPLETED", !.author = c]
  <2>0. row \in Row /\ row' \in Row
    BY <1>2 DEF TypeOK, Row
  <2>1. /\ row'.status = "COMPLETED" /\ row'.author = c /\ row'.by = row.by
        /\ row'.body = row.body
    BY <1>2, <2>0 DEF Row
  <2>2. TypeOK'
    BY <1>0, <2>0, IdempotencyAssumption DEF TypeOK, Goto
  <2>3. SeenIsStale'
    BY <2>1 DEF SeenIsStale
  <2>4. StoredFits'
    BY <1>0, <1>2, <2>1 DEF StoredFits, HoldersOwn, Owns
  <2>5. ReplayFitsTheBody'
    BY <1>0 DEF ReplayFitsTheBody, TypeOK
  <2>6. AgesFit'
    BY <1>0, IdempotencyAssumption DEF AgesFit, Goto, Running, TypeOK
  <2>7. \A d \in Calls : ~late /\ Executing(d)' => d # c /\ Executing(d) /\ Owns(c) /\ Owns(d)
    BY <1>0 DEF HoldersOwn, Executing, Goto, TypeOK
  <2>8. HoldersOwn'
    BY <1>0, <2>7 DEF HoldersOwn, Owns
  <2> QED
    BY <2>2, <2>3, <2>4, <2>5, <2>6, <2>8
<1> QED
  BY <1>1, <1>2 DEF Complete, Release

LEMMA FaultInv ==
  ASSUME IInv, NEW c \in Calls, StatementFails(c) \/ Crash(c) PROVE IInv'
<1>0. faults' \in 0..MaxFaults /\ UNCHANGED <<row, late>>
  BY IdempotencyAssumption DEF IInv, TypeOK, StatementFails, Crash
<1>1. CASE /\ pc[c] = "reclaiming" /\ Goto(c, "creating")
           /\ seen' = [seen EXCEPT ![c] = NoId] /\ UNCHANGED <<age, answer>>
  <2> USE DEF IInv
  <2>1. TypeOK'
    BY <1>0, <1>1 DEF TypeOK, Goto
  <2>2. SeenIsStale'
    BY <1>0, <1>1, RowType DEF SeenIsStale, Stale, TypeOK
  <2>3. StoredFits' /\ ReplayFitsTheBody'
    BY <1>0, <1>1 DEF StoredFits, ReplayFitsTheBody
  <2>4. AgesFit'
    BY <1>0, <1>1 DEF AgesFit, Goto, Running, TypeOK
  <2>5. HoldersOwn'
    BY <1>0, <1>1 DEF HoldersOwn, Owns, Executing, Goto, TypeOK
  <2> QED
    BY <2>1, <2>2, <2>3, <2>4, <2>5
<1>2. CASE Answer(c, "ok", NoCall) \/ Answer(c, "failed", NoCall)
  BY <1>0, <1>2, LeaveInv DEF Answer
<1>3. CASE Crash(c)
  BY <1>0, <1>3, LeaveInv DEF Crash
<1> QED
  BY <1>1, <1>2, <1>3 DEF StatementFails

LEMMA TickInv == ASSUME IInv, Tick PROVE IInv'
<1> USE DEF IInv
<1>0. UNCHANGED <<pc, seen, answer, faults>>
  BY DEF Tick
<1>1. \A c \in Calls : /\ age[c] \in Nat /\ age[c] <= Ttl /\ age'[c] \in 0..Ttl
                       /\ age'[c] = IF Running(c) THEN Sooner(age[c] + 1, Ttl) ELSE age[c]
  BY IdempotencyAssumption DEF TypeOK, Tick, Sooner
<1>2. ~late' => ~late /\ \A c \in Calls : Running(c) => ~(age[c] >= StaleAfter)
  BY DEF Tick, TypeOK
<1>3. ASSUME NEW c \in Calls PROVE ~late' /\ Running(c) => /\ ~late /\ age[c] < StaleAfter
                                                        /\ age'[c] = age[c] + 1
  <2> SUFFICES ASSUME ~late', Running(c)
               PROVE  ~late /\ age[c] < StaleAfter /\ age'[c] = age[c] + 1
    OBVIOUS
  <2>1. ~late /\ ~(age[c] >= StaleAfter)
    BY <1>2
  <2> QED
    BY <1>1, <2>1, IdempotencyAssumption DEF Sooner
<1>4. AgesFit'
  <2> SUFFICES ASSUME NEW c \in Calls
               PROVE  (~Running(c) => age'[c] = 0) /\ (~late' => age'[c] <= StaleAfter)
    BY <1>0 DEF AgesFit, Running
  <2>1. CASE Running(c)
    BY <1>1, <1>3, <2>1, IdempotencyAssumption
  <2>2. CASE ~Running(c)
    BY <1>1, <2>2, IdempotencyAssumption DEF AgesFit
  <2> QED
    BY <2>1, <2>2
<1>5. CASE row = NoRow
  <2>1. row' = NoRow
    BY <1>5 DEF Tick
  <2>2. SeenIsStale' /\ StoredFits'
    BY <1>0, <1>5, <2>1, RowType DEF SeenIsStale, StoredFits, NoRow
  <2>3. TypeOK'
    BY <1>0, <1>1, <2>1 DEF TypeOK, Tick
  <2> QED
    <3>1. late' \/ \A c \in Calls : ~Executing(c)
      BY <1>5 DEF HoldersOwn, Owns, Tick
    <3>2. HoldersOwn'
      BY <1>0, <3>1 DEF HoldersOwn, Executing
    <3>4. ReplayFitsTheBody'
      BY <1>0 DEF ReplayFitsTheBody, Tick
    <3> QED
      BY <1>4, <2>2, <2>3, <3>2, <3>4
<1>6. CASE row # NoRow
  <2>0. row \in Row /\ row.age \in Nat /\ row.age <= StaleAfter + 1 /\ row.left \in Nat
    BY <1>6, IdempotencyAssumption DEF TypeOK, Row
  <2>1. row' = [row EXCEPT !.age = Sooner(@ + 1, StaleAfter + 1),
                           !.left = IF @ = 0 THEN 0 ELSE @ - 1]
    BY <1>6 DEF Tick
  <2>2. row' \in Row
    <3> DEFINE older == Sooner(row.age + 1, StaleAfter + 1)
               left == IF row.left = 0 THEN 0 ELSE row.left - 1
    <3>1. older \in 0..(StaleAfter + 1) /\ left \in 0..Ttl
      BY <1>6, <2>0, IdempotencyAssumption DEF TypeOK, Row, Sooner
    <3>2. row' = [row EXCEPT !.age = older, !.left = left]
      BY <2>1
    <3> HIDE DEF older, left
    <3> QED
      BY <2>0, <3>1, <3>2 DEF Row
  <2>3. /\ row'.id = row.id /\ row'.body = row.body /\ row'.by = row.by
        /\ row'.status = row.status /\ row'.author = row.author
        /\ row'.age >= row.age /\ row'.age <= row.age + 1
        /\ row'.left = IF row.left = 0 THEN 0 ELSE row.left - 1
    BY <2>0, <2>1, IdempotencyAssumption DEF Row, Sooner
  <2>4. TypeOK'
    BY <1>0, <1>1, <2>2 DEF TypeOK, Tick
  <2>5. SeenIsStale'
    BY <1>0, <1>6, <2>0, <2>2, <2>3, IdempotencyAssumption DEF SeenIsStale, Stale, Row
  <2>6. StoredFits'
    BY <1>6, <2>3 DEF StoredFits, Tick
  <2>8. ReplayFitsTheBody'
    BY <1>0 DEF ReplayFitsTheBody, Tick
  <2>9. HoldersOwn'
    <3> SUFFICES ASSUME ~late', NEW c \in Calls, Executing(c)' PROVE Owns(c)'
      BY DEF HoldersOwn
    <3>1. Executing(c) /\ Running(c)
      BY <1>0 DEF Executing, Running
    <3>2. ~late /\ age[c] < StaleAfter /\ age'[c] = age[c] + 1
      BY <1>3, <3>1
    <3>3. Owns(c)
      BY <3>1, <3>2 DEF HoldersOwn
    <3>4. row' # NoRow /\ row'.age \in Nat
      BY <2>2, RowType, IdempotencyAssumption DEF Row
    <3> QED
      BY <1>1, <2>0, <2>3, <3>1, <3>2, <3>3, <3>4, IdempotencyAssumption DEF Owns
  <2> QED
    BY <1>4, <2>4, <2>5, <2>6, <2>8, <2>9
<1> QED
  BY <1>5, <1>6

LEMMA SweepInv == ASSUME IInv, Sweep PROVE IInv'
<1> USE DEF IInv
<1>0. row' = NoRow /\ row.left = 0 /\ UNCHANGED <<pc, seen, age, answer, late, faults>>
  BY DEF Sweep
<1>1. TypeOK' /\ ReplayFitsTheBody'
  BY <1>0 DEF TypeOK, ReplayFitsTheBody
<1>2. SeenIsStale' /\ StoredFits'
  BY <1>0 DEF SeenIsStale, StoredFits, NoRow
<1>3. AgesFit'
  BY <1>0 DEF AgesFit, Running
<1>4. ~late => \A c \in Calls : ~Executing(c)
  BY <1>0, IdempotencyAssumption DEF HoldersOwn, Owns, AgesFit, TypeOK
<1>5. HoldersOwn'
  BY <1>0, <1>4 DEF HoldersOwn, Executing
<1> QED
  BY <1>1, <1>2, <1>3, <1>5

LEMMA StepInv == ASSUME IInv, [Next]_vars PROVE IInv'
<1>1. CASE UNCHANGED vars
  BY <1>1 DEF vars, IInv, TypeOK, SeenIsStale, Stale, AgesFit, Running, HoldersOwn,
              Executing, Owns, StoredFits, ReplayFitsTheBody
<1>2. ASSUME NEW c \in Calls, Step(c) PROVE IInv'
  BY <1>2, LookupInv, ReclaimInv, CreateInv, HandleInv, FinishInv DEF Step
<1>3. ASSUME NEW c \in Calls, StatementFails(c) \/ Crash(c) PROVE IInv'
  BY <1>3, FaultInv
<1> QED
  BY <1>1, <1>2, <1>3, TickInv, SweepInv DEF Next

LEMMA Invariance == Spec => []IInv
  BY InitInv, StepInv, PTL DEF Spec

-----------------------------------------------------------------------------

\* The row, and what every request knows of it, keep their types.
THEOREM TypeCorrect == Spec => []TypeOK
<1>1. IInv => TypeOK
  BY DEF IInv
<1> QED
  BY <1>1, Invariance, PTL

\* One call at a time moves money under a key, as long as no request outlives
\* the time after which withIdempotency takes it for dead.
THEOREM KeyIsExclusive == Spec => []OneHolderAtATime
<1>1. IInv => OneHolderAtATime
  BY DEF IInv, HoldersOwn, Owns, OneHolderAtATime
<1> QED
  BY <1>1, Invariance, PTL

\* Under the same proviso a replay is the answer to the body that asked.
THEOREM ReplaysAreFaithful == Spec => []ReplayFitsTheBody
<1>1. IInv => ReplayFitsTheBody
  BY DEF IInv
<1> QED
  BY <1>1, Invariance, PTL

\* A recorded response outlives reclaims, releases and late completions, with no
\* proviso at all: only the sweep removes it, and only once it has expired.
THEOREM ResponsesAreKept == Spec => CompletedIsKept
<1> DEFINE Kept == row.status = "COMPLETED" /\ row.left > 0 =>
                     row'.id = row.id /\ row'.status = "COMPLETED"
<1>1. ASSUME TypeOK, [Next]_vars PROVE [Kept]_vars
  <2> SUFFICES ASSUME Next, row.status = "COMPLETED", row.left > 0
               PROVE  row'.id = row.id /\ row'.status = "COMPLETED"
    BY <1>1
  <2>0. row # NoRow /\ row \in Row
    BY <1>1, RowType
  <2>1. ASSUME NEW c \in Calls, Step(c)
        PROVE  row'.id = row.id /\ row'.status = "COMPLETED"
    <3>1. row' = row \/ row' = [row EXCEPT !.status = "COMPLETED", !.author = c]
      BY <2>0, <2>1 DEF Step, Lookup, Reclaim, Create, Handle, Complete, Release
    <3> QED
      BY <2>0, <3>1 DEF Row
  <2>2. ASSUME NEW c \in Calls, StatementFails(c) \/ Crash(c) PROVE row' = row
    BY <2>2 DEF StatementFails, Crash
  <2>3. CASE Tick
    BY <2>0, <2>3 DEF Tick, Row
  <2>4. CASE Sweep
    BY <2>4 DEF Sweep
  <2> QED
    BY <2>1, <2>2, <2>3, <2>4 DEF Next
<1>2. TypeOK /\ [Next]_vars => [Kept]_vars
  BY <1>1
<1> QED
  BY <1>2, TypeCorrect, PTL DEF Spec, CompletedIsKept

=============================================================================

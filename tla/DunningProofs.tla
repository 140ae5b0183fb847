--------------------------- MODULE DunningProofs ---------------------------
(***************************************************************************)
(* The safety of Dunning for any policy, any number of attempts, sweeps    *)
(* and notifications jobs.  What carries it: a FAILED attempt stays one,   *)
(* so what a failure's transaction counted is still there when it writes;  *)
(* and as long as nothing puts a message in doubt, one run at most is past *)
(* its look at the row.                                                    *)
(***************************************************************************)
EXTENDS Dunning, FiniteSetTheorems, WellFoundedInduction, TLAPS

\* The FAILED attempts there will be once a's transaction, or rollback, is over.
Counted(a) == IF attempt[a].state = "canceling" THEN Failed ELSE Failed \cup {a}

\* What a transaction that has read is going to write.
DecisionsCount ==
  \A a \in Attempts : InFailure(a) => attempt[a].count <= Cardinality(Counted(a))

DecisionsSchedule ==
  \A a \in Attempts :
    InFailure(a) /\ attempt[a].count > MaxRetryAttempts => attempt[a].retryAt = Never

Unmade == \A a \in Attempts : a > made => attempt[a] = NoAttempt

Past == {"passed", "sending", "accepted", "refused"}
IsAt(m, k, pcs) == mailer[m] # Idle /\ mailer[m].key = k /\ mailer[m].pc \in pcs

\* A message nothing has put in doubt.
Sure(k) ==
  /\ \A m, n \in Mailers : IsAt(m, k, Past \ {"passed"}) /\ IsAt(n, k, Past) => m = n
  /\ \A m \in Mailers :
       /\ IsAt(m, k, {"passed", "sending", "refused"}) => inbox[k] = 0
       /\ IsAt(m, k, {"sending", "accepted", "refused"}) => mail[k].status = "PENDING"
  /\ inbox[k] <= 1
  /\ inbox[k] = 1 => mail[k].status \in {"PENDING", "SENT"}

OutboxIsSure == \A k \in Keys : k \notin unsure => Sure(k)

\* The ladder's part.
LadderInv ==
  /\ CountsOnlyFailures /\ DecisionsCount
  /\ NothingScheduledPastTheLimit /\ DecisionsSchedule
  /\ Unmade

IInv == TypeOK /\ LadderInv /\ OutboxIsSure

-----------------------------------------------------------------------------
(* Helpers *)

LEMMA MinNat ==
  ASSUME NEW T \in SUBSET Nat, T # {}
  PROVE  Min(T) \in T
<1>1. PICK x \in T : \A y \in T : ~ (<<y, x>> \in OpToRel(<, Nat))
  BY WFMin, NatLessThanWellFounded
<1>2. \A y \in T : ~ (y < x)
  BY <1>1 DEF OpToRel
<1>3. \A y \in T : x <= y
  BY <1>2
<1> QED
  BY <1>3 DEF Min

LEMMA ChargesFinite ==
  /\ IsFiniteSet(Attempts) /\ Cardinality(Attempts) = MaxCharges
  BY FS_Interval, DunningAssumption DEF Attempts

LEMMA Counting ==
  ASSUME NEW S \in SUBSET Attempts
  PROVE  /\ IsFiniteSet(S) /\ Cardinality(S) \in 0..MaxCharges
         /\ \A T \in SUBSET S : Cardinality(T) <= Cardinality(S)
<1>1. IsFiniteSet(S) /\ Cardinality(S) <= MaxCharges /\ Cardinality(S) \in Nat
  BY ChargesFinite, FS_Subset, FS_CardinalityType
<1>2. \A T \in SUBSET S : Cardinality(T) <= Cardinality(S)
  BY <1>1, FS_Subset
<1> QED
  BY <1>1, <1>2, DunningAssumption

LEMMA Rows ==
  /\ NoAttempt \in AttemptRow /\ NoAttempt.state = "none"
  /\ \A row \in AttemptRow :
       \A h \in BOOLEAN : [row EXCEPT !.state = "handling", !.hopeless = h] \in AttemptRow
  /\ \A s \in AttemptState, t \in Nat :
       /\ [NoAttempt EXCEPT !.state = s, !.at = t] \in AttemptRow
       /\ [NoAttempt EXCEPT !.state = s] \in AttemptRow
       /\ [NoAttempt EXCEPT !.state = s].state = s
<1>1. NoAttempt \in AttemptRow /\ NoAttempt.state = "none"
  BY DunningAssumption DEF NoAttempt, AttemptRow, AttemptState
<1>2. "handling" \in AttemptState
  BY DEF AttemptState
<1>3. \A row \in AttemptRow, s \in AttemptState :
        [row EXCEPT !.state = s] \in AttemptRow /\ [row EXCEPT !.state = s].state = s
  BY DEF AttemptRow
<1>4. \A row \in AttemptRow, s \in AttemptState, h \in BOOLEAN :
        [row EXCEPT !.state = s, !.hopeless = h] \in AttemptRow
  BY DEF AttemptRow
<1>5. \A row \in AttemptRow, s \in AttemptState, t \in Nat :
        [row EXCEPT !.state = s, !.at = t] \in AttemptRow
  BY DEF AttemptRow
<1> QED
  BY <1>1, <1>2, <1>3, <1>4, <1>5

LEMMA BecomingFacts ==
  ASSUME NEW a, attempt[a] \in AttemptRow, NEW s \in AttemptState
  PROVE  Becoming(a, s) \in AttemptRow /\ Becoming(a, s).state = s
<1> DEFINE Is(row) == row \in AttemptRow /\ row.state = s
<1>1. \A row \in AttemptRow, t \in Nat, h \in BOOLEAN :
        Is([row EXCEPT !.state = s, !.at = t, !.hopeless = h])
  BY DEF AttemptRow
<1>2. attempt[a].at \in Nat /\ (s = "failed" /\ attempt[a].hopeless) \in BOOLEAN
      /\ NoAttempt \in AttemptRow
  BY Rows DEF AttemptRow
<1> HIDE DEF Is
<1>3. Is(Becoming(a, s))
  BY <1>1, <1>2 DEF Becoming
<1> QED
  BY <1>3 DEF Is

LEMMA StateSet ==
  \A row \in AttemptRow, s \in AttemptState :
    [row EXCEPT !.state = s] \in AttemptRow /\ [row EXCEPT !.state = s].state = s
  BY DEF AttemptRow

-----------------------------------------------------------------------------
(* failInvoiceInTransaction *)

LEMMA NextRetryFacts ==
  ASSUME NEW first \in Nat, NEW failed \in Nat
  PROVE  /\ NextRetryAt(first, failed) \in Nat
         /\ failed >= MaxRetryAttempts => NextRetryAt(first, failed) = Never
<1> DEFINE i == IF failed < Len(RetryIntervals) THEN failed + 1 ELSE Len(RetryIntervals)
<1>1. Len(RetryIntervals) \in Nat \ {0}
  BY DunningAssumption
<1>2. i \in 1..Len(RetryIntervals)
  BY <1>1
<1>3. RetryIntervals[i] \in Nat
  BY <1>2, DunningAssumption
<1> QED
  BY <1>3, DunningAssumption DEF NextRetryAt, Never

\* What a transaction that has read has decided: n failures, and no date past the limit.
Decided(row, n) ==
  row.count = n /\ (row.count > MaxRetryAttempts => row.retryAt = Never)

\* The row of an attempt whose transaction has counted n failures.
HasRead(row, state, n) == row \in AttemptRow /\ row.state = state /\ Decided(row, n)

LEMMA DecisionFacts ==
  ASSUME TypeOK, NEW a \in Attempts, NEW h \in BOOLEAN, NEW failed \in SUBSET Attempts
  PROVE  \A s \in AttemptState, w \in {"none", "call", "charging", "unknown", "checkout"} :
           /\ HasRead([Decision(a, failed, h) EXCEPT !.state = s], s, Cardinality(failed))
           /\ HasRead([Decision(a, failed, h) EXCEPT !.state = s, !.was = w], s,
                      Cardinality(failed))
<1> DEFINE days == {attempt[b].at : b \in failed}
           count == CountFailed(failed)
           giveUp == failed # {} /\ IF Max(failed) = a THEN h ELSE attempt[Max(failed)].hopeless
           first == IF failed = {} THEN now ELSE Min(days)
           date == IF giveUp THEN Never
                   ELSE NextRetryAt(first, IF count = 0 THEN 0 ELSE count - 1)
<1>1. count = Cardinality(failed) /\ count \in 0..MaxCharges
  BY Counting DEF CountFailed
<1>2. first \in Nat
  <2>1. CASE failed = {}
    BY <2>1 DEF TypeOK
  <2>2. CASE failed # {}
    <3>1. days \in SUBSET Nat /\ days # {}
      BY <2>2 DEF TypeOK, AttemptRow
    <3> QED
      BY <2>2, <3>1, MinNat
  <2> QED
    BY <2>1, <2>2
<1> HIDE DEF first, count
<1>3. (IF count = 0 THEN 0 ELSE count - 1) \in Nat
  BY <1>1, DunningAssumption
<1>4. date \in Nat /\ (count > MaxRetryAttempts => date = Never)
  <2> DEFINE n == IF count = 0 THEN 0 ELSE count - 1
  <2>1. Never \in Nat
    BY DunningAssumption DEF Never
  <2>2. count > MaxRetryAttempts => n >= MaxRetryAttempts
    BY <1>1, DunningAssumption
  <2>3. NextRetryAt(first, n) \in Nat /\ (n >= MaxRetryAttempts => NextRetryAt(first, n) = Never)
    <3>1. n \in Nat
      BY <1>3
    <3> HIDE DEF n
    <3> QED
      BY <1>2, <3>1, NextRetryFacts
  <2> HIDE DEF n
  <2>4. date = IF giveUp THEN Never ELSE NextRetryAt(first, n)
    BY DEF n
  <2> HIDE DEF date, giveUp
  <2>5. CASE giveUp
    BY <2>1, <2>4, <2>5
  <2>6. CASE ~giveUp
    BY <2>2, <2>3, <2>4, <2>6
  <2> QED
    BY <2>5, <2>6
<1>5. PICK b \in BOOLEAN :
        Decision(a, failed, h) = [attempt[a] EXCEPT !.hopeless = h, !.count = count,
                                                    !.retryAt = date, !.lapses = b]
  BY DEF Decision, first, count
<1> HIDE DEF date
<1> DEFINE Made(row) == row \in AttemptRow /\ row.count = count /\ row.retryAt = date
<1>6. \A row \in AttemptRow, c \in BOOLEAN :
        Made([row EXCEPT !.hopeless = h, !.count = count, !.retryAt = date, !.lapses = c])
  BY <1>1, <1>4 DEF AttemptRow
<1>7. Made(Decision(a, failed, h))
  <2>1. attempt[a] \in AttemptRow
    BY DEF TypeOK
  <2> QED
    BY <1>5, <1>6, <2>1
<1>8. \A row \in AttemptRow, s \in AttemptState :
        Made(row) => Made([row EXCEPT !.state = s]) /\ [row EXCEPT !.state = s].state = s
  BY DEF AttemptRow
<1>9. \A row \in AttemptRow, s \in AttemptState,
         w \in {"none", "call", "charging", "unknown", "checkout"} :
        Made(row) => /\ Made([row EXCEPT !.state = s, !.was = w])
                     /\ [row EXCEPT !.state = s, !.was = w].state = s
  BY DEF AttemptRow
<1>10. \A row, s : Made(row) /\ row.state = s => HasRead(row, s, Cardinality(failed))
  BY <1>1, <1>4 DEF HasRead, Decided
<1>11. Decision(a, failed, h) \in AttemptRow
  BY <1>7
<1> HIDE DEF Made
<1> QED
  BY <1>7, <1>8, <1>9, <1>10, <1>11

-----------------------------------------------------------------------------
(* The invariant *)

LEMMA InitInv == ASSUME Init PROVE IInv
<1>1. TypeOK
  <2>1. Never \in Nat
    BY DunningAssumption DEF Never
  <2>2. NoticesTypeOK
    BY NoticesAssumption DEF Init, NoticesInit, NoticesTypeOK, MessageRow, NoMessage
  <2>3. invoice \in [status : {"OPEN", "PAID", "VOID"}, dunningAttempts : 0..MaxCharges,
                     nextRetryAt : Nat]
    BY <2>1, DunningAssumption DEF Init
  <2>4. attempt \in [Attempts -> AttemptRow] /\ made \in 0..MaxCharges
    <3>1. NoAttempt \in AttemptRow
      BY Rows
    <3> QED
      BY <3>1, DunningAssumption DEF Init
  <2>5. sweep \in [Sweeps -> [pc : {"idle", "selected"}, dunningAttempts : 0..MaxCharges]]
    BY DunningAssumption DEF Init
  <2>6. now \in Nat /\ card \in BOOLEAN
    BY DunningAssumption DEF Init
  <2>7. sub \in [status : {"INCOMPLETE", "ACTIVE", "GRACE_PERIOD", "CANCELED", "EXPIRED"} \cup FinalStatuses,
                 graceEnd : Nat]
    BY DunningAssumption DEF Init
  <2> QED
    BY <2>2, <2>3, <2>4, <2>5, <2>6, <2>7 DEF TypeOK
<1>2. \A a \in Attempts : ~InFailure(a)
  BY DEF Init, InFailure, NoAttempt
<1>3. CountsOnlyFailures
  <2>1. Failed \in SUBSET Attempts
    BY DEF Failed
  <2> QED
    BY <2>1, Counting, DunningAssumption DEF Init, CountsOnlyFailures
<1>4. NothingScheduledPastTheLimit
  BY DEF Init, NothingScheduledPastTheLimit
<1>5. OutboxIsSure
  BY DEF Init, NoticesInit, OutboxIsSure, Sure, IsAt
<1>6. Unmade
  BY DEF Init, Unmade
<1> QED
  BY <1>1, <1>2, <1>3, <1>4, <1>5, <1>6 DEF IInv, LadderInv, DecisionsCount, DecisionsSchedule

\* Failed attempts only become more, so counts that were right stay right.
LEMMA Growing ==
  ASSUME TypeOK, LadderInv, attempt' \in [Attempts -> AttemptRow],
         Failed \subseteq Failed', Unmade',
         \A a \in Attempts : InFailure(a)' =>
           \/ attempt'[a] = attempt[a]
           \/ \E S \in SUBSET Counted(a)' : Decided(attempt'[a], Cardinality(S)),
         \/ invoice'.dunningAttempts = invoice.dunningAttempts
            /\ invoice'.nextRetryAt \in {invoice.nextRetryAt, Never}
         \/ \E a \in Attempts : /\ InFailure(a) /\ Counted(a) \subseteq Failed'
                                /\ invoice'.dunningAttempts = attempt[a].count
                                /\ invoice'.nextRetryAt = attempt[a].retryAt
  PROVE  LadderInv'
<1>1. Failed' \in SUBSET Attempts /\ \A a \in Attempts : Counted(a) \in SUBSET Attempts
                                                     /\ Counted(a)' \in SUBSET Attempts
  BY DEF Failed, Counted
<1>2. \A a \in Attempts : attempt'[a] = attempt[a] => Counted(a) \subseteq Counted(a)'
  BY DEF Counted
<1>3. \A a \in Attempts : attempt[a].count \in Nat /\ attempt'[a].count \in Nat
  BY DunningAssumption DEF TypeOK, AttemptRow
<1>4. Never' = Never
  BY DEF Never
<1>5. DecisionsCount' /\ DecisionsSchedule'
  <2> SUFFICES ASSUME NEW a \in Attempts, InFailure(a)'
               PROVE  /\ attempt'[a].count <= Cardinality(Counted(a)')
                      /\ attempt'[a].count > MaxRetryAttempts => attempt'[a].retryAt = Never
    BY <1>4 DEF DecisionsCount, DecisionsSchedule
  <2>1. Cardinality(Counted(a)') \in Nat
        /\ \A T \in SUBSET (Counted(a)') : Cardinality(T) \in Nat
                                        /\ Cardinality(T) <= Cardinality(Counted(a)')
    <3>1. \A T \in SUBSET (Counted(a)') : T \in SUBSET Attempts
      BY <1>1
    <3> QED
      BY <1>1, <3>1, Counting
  <2>2. CASE attempt'[a] = attempt[a]
    <3>1. InFailure(a)
      BY <2>2 DEF InFailure
    <3>2. attempt[a].count <= Cardinality(Counted(a))
      BY <3>1 DEF LadderInv, DecisionsCount
    <3>3. attempt[a].count <= Cardinality(Counted(a)')
      BY <1>2, <1>3, <2>1, <2>2, <3>2
    <3> QED
      BY <2>2, <3>1, <3>3 DEF LadderInv, DecisionsSchedule
  <2>3. ASSUME NEW S \in SUBSET Counted(a)', Decided(attempt'[a], Cardinality(S))
        PROVE  /\ attempt'[a].count <= Cardinality(Counted(a)')
               /\ attempt'[a].count > MaxRetryAttempts => attempt'[a].retryAt = Never
    BY <2>1, <2>3 DEF Decided
  <2> QED
    BY <2>2, <2>3
<1>6. \A T \in SUBSET Failed' : /\ Cardinality(T) \in Nat /\ Cardinality(Failed') \in Nat
                               /\ Cardinality(T) <= Cardinality(Failed')
  <2>1. \A T \in SUBSET Failed' : T \in SUBSET Attempts
    BY <1>1
  <2> QED
    BY <1>1, <2>1, Counting
<1>7. CountsOnlyFailures' /\ NothingScheduledPastTheLimit'
  <2>1. CASE /\ invoice'.dunningAttempts = invoice.dunningAttempts
             /\ invoice'.nextRetryAt \in {invoice.nextRetryAt, Never}
    <3>1. invoice.dunningAttempts \in Nat
      BY DunningAssumption DEF TypeOK
    <3> QED
      BY <1>4, <1>6, <2>1, <3>1 DEF LadderInv, CountsOnlyFailures, NothingScheduledPastTheLimit
  <2>2. ASSUME NEW a \in Attempts, InFailure(a), Counted(a) \subseteq Failed',
               invoice'.dunningAttempts = attempt[a].count,
               invoice'.nextRetryAt = attempt[a].retryAt
        PROVE  CountsOnlyFailures' /\ NothingScheduledPastTheLimit'
    <3>1. attempt[a].count <= Cardinality(Counted(a))
      BY <2>2 DEF LadderInv, DecisionsCount
    <3>2. attempt[a].count <= Cardinality(Failed')
      BY <1>3, <1>6, <2>2, <3>1
    <3>3. attempt[a].count > MaxRetryAttempts => attempt[a].retryAt = Never
      BY <2>2 DEF LadderInv, DecisionsSchedule
    <3> QED
      BY <1>4, <2>2, <3>2, <3>3 DEF CountsOnlyFailures, NothingScheduledPastTheLimit
  <2> QED
    BY <2>1, <2>2
<1> QED
  BY <1>5, <1>7 DEF LadderInv

\* A new attempt.
LEMMA Starting ==
  ASSUME TypeOK, LadderInv, made < MaxCharges,
         NEW s \in {"charging", "checkout", "unknown", "handling"},
         attempt' = [attempt EXCEPT ![made + 1] = [NoAttempt EXCEPT !.state = s, !.at = now]],
         made' = made + 1, invoice' = invoice
  PROVE  /\ attempt' \in [Attempts -> AttemptRow] /\ made' \in 0..MaxCharges
         /\ LadderInv'
<1> DEFINE row == [NoAttempt EXCEPT !.state = s, !.at = now]
<1>1. row \in AttemptRow /\ row.state = s
  BY Rows DEF TypeOK, AttemptState, NoAttempt
<1>2. made \in 0..MaxCharges /\ made + 1 \in Attempts /\ made' \in 0..MaxCharges
  BY DunningAssumption DEF TypeOK, Attempts
<1>3. attempt' \in [Attempts -> AttemptRow]
  BY <1>1 DEF TypeOK
<1>4. attempt[made + 1].state = "none"
  BY <1>2 DEF LadderInv, Unmade, NoAttempt
<1> HIDE DEF row
<1>5. \A a \in Attempts : a # made + 1 => attempt'[a] = attempt[a]
  BY DEF TypeOK
<1>6. attempt'[made + 1].state = s
  BY <1>1, <1>2 DEF TypeOK, row
<1>7. Failed \subseteq Failed'
  BY <1>4, <1>5 DEF Failed
<1>8. Unmade'
  BY <1>2, <1>5 DEF LadderInv, Unmade, Attempts, NoAttempt
<1>9. \A a \in Attempts : InFailure(a)' => attempt'[a] = attempt[a]
  BY <1>5, <1>6 DEF InFailure
<1> QED
  BY <1>2, <1>3, <1>7, <1>8, <1>9, Growing

\* A row that moves on.
LEMMA Moving ==
  ASSUME TypeOK, LadderInv, NEW a \in Attempts, NEW row \in AttemptRow,
         attempt' = [attempt EXCEPT ![a] = row],
         attempt[a].state # "none", made' = made,
         attempt[a].state \in {"handling", "failing", "failed"} =>
           row.state \in {"handling", "failing", "failed"},
         row.state \in {"declining", "failing"} => Decided(row, Cardinality(Failed \cup {a})),
         row.state = "canceling" => Decided(row, Cardinality(Failed)),
         \/ /\ invoice'.dunningAttempts = invoice.dunningAttempts
            /\ invoice'.nextRetryAt \in {invoice.nextRetryAt, Never}
         \/ /\ InFailure(a) /\ (row.state = "failed" \/ attempt[a].state = "canceling")
            /\ invoice'.dunningAttempts = attempt[a].count
            /\ invoice'.nextRetryAt = attempt[a].retryAt
  PROVE  attempt' \in [Attempts -> AttemptRow] /\ LadderInv'
<1>1. attempt' \in [Attempts -> AttemptRow]
  BY DEF TypeOK
<1>2. attempt'[a] = row /\ \A b \in Attempts : b # a => attempt'[b] = attempt[b]
  BY DEF TypeOK
<1>3. Failed \subseteq Failed'
  BY <1>2 DEF Failed
<1>4. Unmade'
  BY <1>2 DEF LadderInv, Unmade, NoAttempt
<1>5. InFailure(a)' => \E S \in SUBSET Counted(a)' : Decided(attempt'[a], Cardinality(S))
  <2>1. CASE row.state = "canceling"
    <3>1. Failed \subseteq Counted(a)'
      BY <1>3 DEF Counted
    <3> QED
      BY <1>2, <2>1, <3>1
  <2>2. CASE row.state \in {"declining", "failing"}
    <3>1. Failed \cup {a} \subseteq Counted(a)'
      BY <1>2, <1>3, <2>2 DEF Counted
    <3> QED
      BY <1>2, <2>2, <3>1
  <2> QED
    BY <1>2, <2>1, <2>2 DEF InFailure
<1>6. \A b \in Attempts : InFailure(b)' =>
        \/ attempt'[b] = attempt[b]
        \/ \E S \in SUBSET Counted(b)' : Decided(attempt'[b], Cardinality(S))
  BY <1>2, <1>5
<1>7. row.state = "failed" \/ attempt[a].state = "canceling" => Counted(a) \subseteq Failed'
  <2>1. CASE row.state = "failed"
    <3>1. a \in Failed'
      BY <1>2, <2>1 DEF Failed
    <3> QED
      BY <1>3, <3>1 DEF Counted
  <2>2. CASE attempt[a].state = "canceling"
    BY <1>3, <2>2 DEF Counted
  <2> QED
    BY <2>1, <2>2
<1>8. attempt[a].state = "canceling" => InFailure(a)
  BY DEF InFailure
<1> QED
  BY <1>1, <1>3, <1>4, <1>6, <1>7, <1>8, Growing

LEMMA LadderKept ==
  ASSUME TypeOK, LadderInv, UNCHANGED <<attempt, made>>,
         invoice'.dunningAttempts = invoice.dunningAttempts,
         invoice'.nextRetryAt \in {invoice.nextRetryAt, Never}
  PROVE  LadderInv'
<1>1. attempt' \in [Attempts -> AttemptRow] /\ Failed' = Failed
  BY DEF TypeOK, Failed
<1>2. Unmade'
  BY DEF LadderInv, Unmade
<1>3. \A a \in Attempts : InFailure(a)' => attempt'[a] = attempt[a]
  BY DEF TypeOK
<1> QED
  BY <1>1, <1>2, <1>3, Growing

-----------------------------------------------------------------------------
(* sendOnce *)

OutboxInv == NoticesTypeOK /\ OutboxIsSure

LEMMA OutboxKept ==
  ASSUME OutboxInv, UNCHANGED noticeVars
  PROVE  OutboxInv'
  BY DEF OutboxInv, noticeVars, NoticesTypeOK, OutboxIsSure, Sure, IsAt

\* A run m goes from one place to the next with message k; nothing of the other
\* messages changes.
OnlyAt(m, k, pc) ==
  /\ mailer' = [mailer EXCEPT ![m] = [pc |-> pc, key |-> k]]
  /\ mailer[m] # Idle => mailer[m].key = k
  /\ \A j \in Keys \ {k} : mail'[j] = mail[j] /\ inbox'[j] = inbox[j]
  /\ unsure \subseteq unsure' /\ unsure' \subseteq unsure \cup {k}

OnlyStops(m, k) ==
  /\ mailer' = [mailer EXCEPT ![m] = Idle]
  /\ mailer[m] # Idle => mailer[m].key = k
  /\ \A j \in Keys \ {k} : mail'[j] = mail[j] /\ inbox'[j] = inbox[j]
  /\ unsure \subseteq unsure' /\ unsure' \subseteq unsure \cup {k}

\* What is sure of the others stays so.
LEMMA Others ==
  ASSUME OutboxInv, NEW m \in Mailers, NEW k \in Keys,
         \/ \E pc \in Working : OnlyAt(m, k, pc)
         \/ OnlyStops(m, k),
         k \notin unsure' => Sure(k)'
  PROVE  OutboxIsSure'
<1> SUFFICES ASSUME NEW j \in Keys, j \notin unsure', j # k
             PROVE  Sure(j)'
  BY DEF OutboxIsSure
<1>1. j \notin unsure /\ mail'[j] = mail[j] /\ inbox'[j] = inbox[j]
  BY DEF OnlyAt, OnlyStops
<1>2. Sure(j)
  BY <1>1 DEF OutboxInv, OutboxIsSure
<1>3. \A n \in Mailers : n # m => mailer'[n] = mailer[n]
  BY DEF OnlyAt, OnlyStops, OutboxInv, NoticesTypeOK
<1>4. mailer'[m] = Idle \/ mailer'[m].key = k
  BY DEF OnlyAt, OnlyStops, OutboxInv, NoticesTypeOK
<1>5. \A n \in Mailers : \A pcs : IsAt(n, j, pcs)' => IsAt(n, j, pcs)
  BY <1>3, <1>4 DEF IsAt
<1> QED
  BY <1>1, <1>2, <1>5 DEF Sure

LEMMA MailerTypes ==
  ASSUME NoticesTypeOK, NEW m \in Mailers, NEW k \in Keys, NEW pc \in Working
  PROVE  /\ [mailer EXCEPT ![m] = [pc |-> pc, key |-> k]] \in [Mailers -> MailerState \cup {Idle}]
         /\ [mailer EXCEPT ![m] = Idle] \in [Mailers -> MailerState \cup {Idle}]
         /\ mailer[m] # Idle => mailer[m] \in MailerState
  BY DEF NoticesTypeOK, MailerState

LEMMA Prepares ==
  ASSUME OutboxInv, NEW m \in Mailers, NEW k \in Keys, Prepare(m, k)
  PROVE  OutboxInv'
<1>1. OnlyAt(m, k, "preparing") /\ "preparing" \in Working
  BY DEF Prepare, OnlyAt, Working
<1>2. k \notin unsure' => Sure(k)'
  <2>1. \A n \in Mailers : IsAt(n, k, Past)' => IsAt(n, k, Past) /\ mailer'[n] = mailer[n]
    BY <1>1 DEF OnlyAt, OutboxInv, NoticesTypeOK, IsAt, Past
  <2> QED
    BY <2>1 DEF Prepare, Sure, IsAt, Past, OutboxInv, OutboxIsSure
<1>3. OutboxIsSure'
  BY <1>1, <1>2, Others
<1>4. NoticesTypeOK'
  BY <1>1, MailerTypes DEF OutboxInv, NoticesTypeOK, Prepare
<1> QED
  BY <1>3, <1>4 DEF OutboxInv

LEMMA Renders ==
  ASSUME OutboxInv, NEW m \in Mailers, At(m, "preparing"), Becomes(m, "rendered"),
         UNCHANGED <<mail, inbox, unsure, deaths>>
  PROVE  OutboxInv'
<1>1. PICK k \in Keys : k = mailer[m].key
  BY DEF At, Idle, OutboxInv, NoticesTypeOK, MailerState
<1>2. OnlyAt(m, k, "rendered") /\ "rendered" \in Working
  BY <1>1 DEF Becomes, OnlyAt, Working, At
<1>3. k \notin unsure' => Sure(k)'
  <2>1. \A n \in Mailers : IsAt(n, k, Past)' => IsAt(n, k, Past) /\ mailer'[n] = mailer[n]
    BY <1>2 DEF OnlyAt, OutboxInv, NoticesTypeOK, IsAt, Past
  <2> QED
    BY <2>1, <1>1 DEF Sure, IsAt, Past, OutboxInv, OutboxIsSure
<1>4. OutboxIsSure'
  BY <1>1, <1>2, <1>3, Others
<1>5. NoticesTypeOK'
  BY <1>1, <1>2, MailerTypes DEF OutboxInv, NoticesTypeOK, OnlyAt
<1> QED
  BY <1>4, <1>5 DEF OutboxInv

\* A run lets go of its message without having written anything.
LEMMA LetsGo ==
  ASSUME OutboxInv, NEW m \in Mailers, mailer[m] # Idle, Stops(m),
         UNCHANGED <<mail, inbox>>, unsure \subseteq unsure', unsure' \subseteq unsure \cup {mailer[m].key}
  PROVE  OutboxIsSure' /\ mailer' \in [Mailers -> MailerState \cup {Idle}]
<1>1. PICK k \in Keys : k = mailer[m].key
  BY DEF OutboxInv, NoticesTypeOK, MailerState
<1>2. OnlyStops(m, k)
  BY <1>1 DEF Stops, OnlyStops
<1>3. k \notin unsure' => Sure(k)'
  <2>1. \A n \in Mailers : \A pcs : IsAt(n, k, pcs)' => IsAt(n, k, pcs) /\ mailer'[n] = mailer[n]
    BY <1>2 DEF OnlyStops, OutboxInv, NoticesTypeOK, IsAt
  <2> QED
    BY <2>1, <1>1 DEF Sure, OutboxInv, OutboxIsSure
<1>4. mailer' \in [Mailers -> MailerState \cup {Idle}]
  BY DEF Stops, OutboxInv, NoticesTypeOK
<1> QED
  BY <1>1, <1>2, <1>3, <1>4, Others

LEMMA Reads ==
  ASSUME OutboxInv, NEW m \in Mailers, ReadMessage(m)
  PROVE  OutboxInv'
<1>1. PICK k \in Keys : k = mailer[m].key /\ mailer[m] # Idle /\ mailer[m].pc = "rendered"
  BY DEF ReadMessage, At, Idle, OutboxInv, NoticesTypeOK, MailerState
<1>2. unsure \subseteq unsure' /\ unsure' \subseteq unsure \cup {k} /\ unsure' \subseteq Keys
  BY <1>1 DEF ReadMessage, OutboxInv, NoticesTypeOK
<1>3. CASE Settled(mail[k])
  <2>1. Stops(m) /\ UNCHANGED <<mail, inbox, deaths>>
    BY <1>1, <1>3 DEF ReadMessage
  <2> QED
    BY <1>1, <1>2, <2>1, LetsGo DEF OutboxInv, NoticesTypeOK
<1>4. CASE ~Settled(mail[k])
  <2>1. OnlyAt(m, k, "passed") /\ "passed" \in Working
    BY <1>1, <1>2, <1>4 DEF ReadMessage, Becomes, OnlyAt, Working
  <2>2. mailer' \in [Mailers -> MailerState \cup {Idle}]
    BY <2>1, <1>1, MailerTypes DEF OutboxInv, NoticesTypeOK, OnlyAt
  <2>3. ASSUME k \notin unsure' PROVE Sure(k)'
    <3>1. k \notin unsure /\ Sure(k)
      BY <2>3, <1>1, <1>2 DEF OutboxInv, OutboxIsSure
    <3>2. mail[k].status \in {"NONE", "FAILED"}
      BY <2>3, <1>1, <1>4 DEF ReadMessage, Settled, OutboxInv, NoticesTypeOK, MessageRow
    <3>3. \A n \in Mailers : ~IsAt(n, k, {"sending", "accepted", "refused"})
      BY <3>1, <3>2 DEF Sure
    <3>4. inbox[k] = 0
      BY <3>1, <3>2, <1>1 DEF Sure, OutboxInv, NoticesTypeOK
    <3>5. \A n \in Mailers : ~IsAt(n, k, {"sending", "accepted", "refused"})'
      BY <3>3, <2>1, <2>2 DEF OnlyAt, IsAt, OutboxInv, NoticesTypeOK
    <3> QED
      BY <3>1, <3>4, <3>5, <1>1 DEF ReadMessage, Sure, IsAt, Past
  <2>4. OutboxIsSure'
    BY <1>1, <2>1, <2>3, Others
  <2> QED
    BY <1>2, <2>2, <2>4 DEF OutboxInv, NoticesTypeOK, ReadMessage
<1> QED
  BY <1>3, <1>4

\* The other runs are where they were.
LEMMA Elsewhere ==
  ASSUME OutboxInv, NEW m \in Mailers, NEW k \in Keys,
         (\E pc \in Working : OnlyAt(m, k, pc)) \/ OnlyStops(m, k)
  PROVE  \A n \in Mailers \ {m} : mailer'[n] = mailer[n]
  BY DEF OnlyAt, OnlyStops, OutboxInv, NoticesTypeOK

LEMMA Suppresses ==
  ASSUME OutboxInv, NEW m \in Mailers, Suppress(m)
  PROVE  OutboxInv'
<1>1. PICK k \in Keys : k = mailer[m].key /\ mailer[m] # Idle /\ mailer[m].pc = "passed"
  BY DEF Suppress, At, Idle, OutboxInv, NoticesTypeOK, MailerState
<1>2. OnlyStops(m, k)
  BY <1>1 DEF Suppress, Stops, OnlyStops, OutboxInv, NoticesTypeOK
<1>3. NoticesTypeOK'
  BY <1>1 DEF Suppress, Stops, OutboxInv, NoticesTypeOK, MessageRow
<1>4. mail'[k].status = "SUPPRESSED" /\ inbox'[k] = inbox[k] /\ unsure' = unsure
  BY <1>1 DEF Suppress, OutboxInv, NoticesTypeOK, MessageRow
<1>5. ASSUME k \notin unsure' PROVE Sure(k)'
  <2>1. Sure(k)
    BY <1>4, <1>5 DEF OutboxInv, OutboxIsSure
  <2>2. \A n \in Mailers \ {m} : mailer'[n] = mailer[n]
    BY <1>2, Elsewhere
  <2>3. mailer'[m] = Idle
    BY DEF Suppress, Stops, OutboxInv, NoticesTypeOK
  <2>4. \A n \in Mailers : ~IsAt(n, k, Past \ {"passed"})'
    BY <1>1, <2>1, <2>2, <2>3 DEF Sure, IsAt, Past
  <2>5. inbox[k] = 0
    BY <1>1, <2>1 DEF Sure, IsAt
  <2> QED
    BY <1>4, <2>4, <2>5 DEF Sure, IsAt, Past
<1> QED
  BY <1>1, <1>2, <1>3, <1>5, Others DEF OutboxInv

LEMMA RecordsSent ==
  ASSUME OutboxInv, NEW m \in Mailers, RecordSent(m)
  PROVE  OutboxInv'
<1>1. PICK k \in Keys : k = mailer[m].key /\ mailer[m] # Idle /\ mailer[m].pc = "accepted"
  BY DEF RecordSent, At, Idle, OutboxInv, NoticesTypeOK, MailerState
<1>2. OnlyStops(m, k)
  BY <1>1 DEF RecordSent, Stops, OnlyStops, OutboxInv, NoticesTypeOK
<1>3. NoticesTypeOK'
  BY <1>1 DEF RecordSent, Stops, OutboxInv, NoticesTypeOK, MessageRow
<1>4. mail'[k].status = "SENT" /\ inbox'[k] = inbox[k] /\ unsure' = unsure
  BY <1>1 DEF RecordSent, OutboxInv, NoticesTypeOK, MessageRow
<1>5. ASSUME k \notin unsure' PROVE Sure(k)'
  <2>1. Sure(k)
    BY <1>4, <1>5 DEF OutboxInv, OutboxIsSure
  <2>2. \A n \in Mailers \ {m} : mailer'[n] = mailer[n]
    BY <1>2, Elsewhere
  <2>3. mailer'[m] = Idle
    BY DEF RecordSent, Stops, OutboxInv, NoticesTypeOK
  <2>4. \A n \in Mailers : ~IsAt(n, k, Past)'
    BY <1>1, <2>1, <2>2, <2>3 DEF Sure, IsAt, Past
  <2> QED
    BY <1>1, <1>4, <2>1, <2>4 DEF Sure, IsAt, Past
<1> QED
  BY <1>1, <1>2, <1>3, <1>5, Others DEF OutboxInv

LEMMA RecordsFailed ==
  ASSUME OutboxInv, NEW m \in Mailers, RecordFailed(m)
  PROVE  OutboxInv'
<1>1. PICK k \in Keys : k = mailer[m].key /\ mailer[m] # Idle /\ mailer[m].pc = "refused"
  BY DEF RecordFailed, At, Idle, OutboxInv, NoticesTypeOK, MailerState
<1>2. OnlyStops(m, k)
  BY <1>1 DEF RecordFailed, Stops, OnlyStops, OutboxInv, NoticesTypeOK
<1>3. NoticesTypeOK'
  BY <1>1 DEF RecordFailed, Stops, OutboxInv, NoticesTypeOK, MessageRow
<1>4. mail'[k].status = "FAILED" /\ inbox'[k] = inbox[k] /\ unsure' = unsure
  BY <1>1 DEF RecordFailed, OutboxInv, NoticesTypeOK, MessageRow
<1>5. ASSUME k \notin unsure' PROVE Sure(k)'
  <2>1. Sure(k)
    BY <1>4, <1>5 DEF OutboxInv, OutboxIsSure
  <2>2. \A n \in Mailers \ {m} : mailer'[n] = mailer[n]
    BY <1>2, Elsewhere
  <2>3. mailer'[m] = Idle
    BY DEF RecordFailed, Stops, OutboxInv, NoticesTypeOK
  <2>4. \A n \in Mailers : ~IsAt(n, k, Past)'
    BY <1>1, <2>1, <2>2, <2>3 DEF Sure, IsAt, Past
  <2> QED
    BY <1>1, <1>4, <2>1, <2>4 DEF Sure, IsAt, Past
<1> QED
  BY <1>1, <1>2, <1>3, <1>5, Others DEF OutboxInv

LEMMA Claims ==
  ASSUME OutboxInv, NEW m \in Mailers, Claim(m)
  PROVE  OutboxInv'
<1>1. PICK k \in Keys : k = mailer[m].key /\ mailer[m] # Idle /\ mailer[m].pc = "passed"
  BY DEF Claim, At, Idle, OutboxInv, NoticesTypeOK, MailerState
<1>2. unsure \subseteq unsure' /\ unsure' \subseteq unsure \cup {k} /\ unsure' \subseteq Keys
  BY <1>1 DEF Claim, OutboxInv, NoticesTypeOK
<1>3. OnlyAt(m, k, "sending") /\ "sending" \in Working
  BY <1>1, <1>2 DEF Claim, Becomes, OnlyAt, Working, OutboxInv, NoticesTypeOK
<1>4. mail' \in [Keys -> MessageRow] /\ mail'[k].status = "PENDING"
  BY <1>1, NoticesAssumption DEF Claim, OutboxInv, NoticesTypeOK, MessageRow
<1>5. NoticesTypeOK'
  BY <1>1, <1>2, <1>3, <1>4, MailerTypes DEF Claim, OnlyAt, OutboxInv, NoticesTypeOK
<1>6. ASSUME k \notin unsure' PROVE Sure(k)'
  <2>1. k \notin unsure /\ Sure(k) /\ ~Contended(m, k)
    BY <1>1, <1>2, <1>6 DEF Claim, OutboxInv, OutboxIsSure
  <2>2. \A n \in Mailers \ {m} : mailer'[n] = mailer[n] /\ ~IsAt(n, k, Past)
    BY <1>3, <2>1, Elsewhere DEF Contended, IsAt, Past
  <2>3. \A n \in Mailers \ {m} : ~IsAt(n, k, Past)'
    BY <2>2 DEF IsAt
  <2>4. inbox[k] = 0 /\ inbox'[k] = 0
    BY <1>1, <2>1 DEF Sure, IsAt, Claim
  <2> QED
    BY <1>4, <2>3, <2>4 DEF Sure, IsAt, Past
<1> QED
  BY <1>3, <1>5, <1>6, Others DEF OutboxInv

LEMMA Accepts ==
  ASSUME OutboxInv, NEW m \in Mailers, Accepted(m)
  PROVE  OutboxInv'
<1>1. PICK k \in Keys : k = mailer[m].key /\ mailer[m] # Idle /\ mailer[m].pc = "sending"
  BY DEF Accepted, At, Idle, OutboxInv, NoticesTypeOK, MailerState
<1>2. unsure \subseteq unsure' /\ unsure' \subseteq unsure \cup {k} /\ unsure' \subseteq Keys
  BY <1>1 DEF Accepted, OutboxInv, NoticesTypeOK
<1>3. OnlyAt(m, k, "accepted") /\ "accepted" \in Working
  BY <1>1, <1>2 DEF Accepted, Becomes, OnlyAt, Working, OutboxInv, NoticesTypeOK
<1>4. mail' = mail /\ inbox' \in [Keys -> Nat] /\ inbox'[k] = inbox[k] + 1 /\ deaths' = deaths
  BY <1>1 DEF Accepted, OutboxInv, NoticesTypeOK
<1>5. NoticesTypeOK'
  BY <1>1, <1>2, <1>3, <1>4, MailerTypes DEF OnlyAt, OutboxInv, NoticesTypeOK
<1>6. ASSUME k \notin unsure' PROVE Sure(k)'
  <2>1. k \notin unsure /\ Sure(k)
    BY <1>2, <1>6 DEF OutboxInv, OutboxIsSure
  <2>2. \A n \in Mailers \ {m} : mailer'[n] = mailer[n] /\ ~IsAt(n, k, Past)
    BY <1>1, <1>3, <2>1, Elsewhere DEF Sure, IsAt, Past
  <2>3. \A n \in Mailers \ {m} : ~IsAt(n, k, Past)'
    BY <2>2 DEF IsAt
  <2>4. mailer'[m].pc = "accepted"
    BY <1>3 DEF OnlyAt, OutboxInv, NoticesTypeOK
  <2>5. inbox[k] = 0 /\ mail[k].status = "PENDING"
    BY <1>1, <2>1 DEF Sure, IsAt
  <2> QED
    BY <1>4, <2>3, <2>4, <2>5 DEF Sure, IsAt, Past
<1> QED
  BY <1>3, <1>5, <1>6, Others DEF OutboxInv

LEMMA Refuses ==
  ASSUME OutboxInv, NEW m \in Mailers, Refused(m)
  PROVE  OutboxInv'
<1>1. PICK k \in Keys : k = mailer[m].key /\ mailer[m] # Idle /\ mailer[m].pc = "sending"
  BY DEF Refused, At, Idle, OutboxInv, NoticesTypeOK, MailerState
<1>2. unsure \subseteq unsure' /\ unsure' \subseteq unsure \cup {k} /\ unsure' \subseteq Keys
  BY <1>1 DEF Refused, OutboxInv, NoticesTypeOK
<1>3. OnlyAt(m, k, "refused") /\ "refused" \in Working
  BY <1>1, <1>2 DEF Refused, Becomes, OnlyAt, Working, OutboxInv, NoticesTypeOK
<1>4. mail' = mail /\ inbox' \in [Keys -> Nat] /\ inbox'[k] = inbox[k] /\ deaths' = deaths
  BY <1>1 DEF Refused, OutboxInv, NoticesTypeOK
<1>5. NoticesTypeOK'
  BY <1>1, <1>2, <1>3, <1>4, MailerTypes DEF OnlyAt, OutboxInv, NoticesTypeOK
<1>6. ASSUME k \notin unsure' PROVE Sure(k)'
  <2>1. k \notin unsure /\ Sure(k)
    BY <1>2, <1>6 DEF OutboxInv, OutboxIsSure
  <2>2. \A n \in Mailers \ {m} : mailer'[n] = mailer[n] /\ ~IsAt(n, k, Past)
    BY <1>1, <1>3, <2>1, Elsewhere DEF Sure, IsAt, Past
  <2>3. \A n \in Mailers \ {m} : ~IsAt(n, k, Past)'
    BY <2>2 DEF IsAt
  <2>4. mailer'[m].pc = "refused"
    BY <1>3 DEF OnlyAt, OutboxInv, NoticesTypeOK
  <2>5. inbox[k] = 0 /\ mail[k].status = "PENDING"
    BY <1>1, <2>1 DEF Sure, IsAt
  <2> QED
    BY <1>4, <2>3, <2>4, <2>5 DEF Sure, IsAt, Past
<1> QED
  BY <1>3, <1>5, <1>6, Others DEF OutboxInv

LEMMA LosesAnswer ==
  ASSUME OutboxInv, NEW m \in Mailers, AnswerLost(m)
  PROVE  OutboxInv'
<1>1. PICK k \in Keys : k = mailer[m].key /\ mailer[m] # Idle /\ mailer[m].pc = "sending"
  BY DEF AnswerLost, At, Idle, OutboxInv, NoticesTypeOK, MailerState
<1>2. unsure \subseteq unsure' /\ unsure' \subseteq unsure \cup {k} /\ unsure' \subseteq Keys
  BY <1>1 DEF AnswerLost, OutboxInv, NoticesTypeOK
<1>3. OnlyAt(m, k, "refused") /\ "refused" \in Working
  BY <1>1, <1>2 DEF AnswerLost, Becomes, OnlyAt, Working, OutboxInv, NoticesTypeOK
<1>4. mail' = mail /\ inbox' \in [Keys -> Nat] /\ inbox'[k] = inbox[k] + 1 /\ deaths' = deaths
  BY <1>1 DEF AnswerLost, OutboxInv, NoticesTypeOK
<1>5. NoticesTypeOK'
  BY <1>1, <1>2, <1>3, <1>4, MailerTypes DEF OnlyAt, OutboxInv, NoticesTypeOK
<1>6. ASSUME k \notin unsure' PROVE Sure(k)'
  BY <1>1, <1>6 DEF AnswerLost
<1> QED
  BY <1>3, <1>5, <1>6, Others DEF OutboxInv

LEMMA Death ==
  ASSUME OutboxInv, NEW m \in Mailers, Die(m)
  PROVE  OutboxInv'
<1>1. OutboxIsSure' /\ mailer' \in [Mailers -> MailerState \cup {Idle}]
  BY LetsGo DEF Die
<1>2. deaths' \in 0..MaxDeaths
  BY NoticesAssumption DEF Die, OutboxInv, NoticesTypeOK
<1> QED
  BY <1>1, <1>2 DEF Die, OutboxInv, NoticesTypeOK

LEMMA GrowingStale ==
  ASSUME OutboxInv, NEW k \in Keys, ClaimGrowsStale(k)
  PROVE  OutboxInv'
<1>1. mail' \in [Keys -> MessageRow] /\ \A j \in Keys : mail'[j].status = mail[j].status
  BY DEF ClaimGrowsStale, OutboxInv, NoticesTypeOK, MessageRow
<1> QED
  BY <1>1 DEF ClaimGrowsStale, OutboxInv, NoticesTypeOK, OutboxIsSure, Sure, IsAt

LEMMA SendingKeepsOutbox ==
  ASSUME OutboxInv, NEW m \in Mailers, SendOnce(m)
  PROVE  OutboxInv'
  BY Reads, Suppresses, Claims, Accepts, Refuses, LosesAnswer, RecordsSent, RecordsFailed
  DEF SendOnce

-----------------------------------------------------------------------------
(* Every step *)

\* The attempts, the invoice and the mail are dealt with above; what is left of a
\* step is its types.
RestTypeOK ==
  /\ now \in Nat
  /\ sub \in [status : {"INCOMPLETE", "ACTIVE", "GRACE_PERIOD", "CANCELED", "EXPIRED"} \cup FinalStatuses,
              graceEnd : Nat]
  /\ invoice \in [status : {"OPEN", "PAID", "VOID"}, dunningAttempts : 0..MaxCharges,
                  nextRetryAt : Nat]
  /\ made \in 0..MaxCharges
  /\ sweep \in [Sweeps -> [pc : {"idle", "selected"}, dunningAttempts : 0..MaxCharges]]
  /\ card \in BOOLEAN

Parts == RestTypeOK /\ attempt \in [Attempts -> AttemptRow] /\ LadderInv /\ OutboxInv

LEMMA InvIsParts == IInv <=> Parts
  BY DEF IInv, Parts, TypeOK, RestTypeOK, OutboxInv

LEMMA SweepTypes ==
  ASSUME RestTypeOK, NEW w \in Sweeps
  PROVE  /\ SweepDone(w) => sweep' \in [Sweeps -> [pc : {"idle", "selected"},
                                                  dunningAttempts : 0..MaxCharges]]
         /\ \A n \in 0..MaxCharges :
              [sweep EXCEPT ![w] = [pc |-> "selected", dunningAttempts |-> n]]
                \in [Sweeps -> [pc : {"idle", "selected"}, dunningAttempts : 0..MaxCharges]]
<1>1. [pc |-> "idle", dunningAttempts |-> 0] \in [pc : {"idle", "selected"},
                                                  dunningAttempts : 0..MaxCharges]
  BY DunningAssumption
<1>2. \A n \in 0..MaxCharges : [pc |-> "selected", dunningAttempts |-> n] \in
        [pc : {"idle", "selected"}, dunningAttempts : 0..MaxCharges]
  OBVIOUS
<1> QED
  BY <1>1, <1>2 DEF RestTypeOK, SweepDone

LEMMA InvoiceTypes ==
  ASSUME RestTypeOK
  PROVE  /\ [invoice EXCEPT !.nextRetryAt = Never] \in
              [status : {"OPEN", "PAID", "VOID"}, dunningAttempts : 0..MaxCharges, nextRetryAt : Nat]
         /\ \A s \in {"PAID", "VOID"} :
              LET new == [invoice EXCEPT !.status = s, !.nextRetryAt = Never] IN
              /\ new \in [status : {"OPEN", "PAID", "VOID"}, dunningAttempts : 0..MaxCharges,
                          nextRetryAt : Nat]
              /\ new.dunningAttempts = invoice.dunningAttempts /\ new.nextRetryAt = Never
         /\ \A n \in 0..MaxCharges, t \in Nat :
              LET new == [invoice EXCEPT !.dunningAttempts = n, !.nextRetryAt = t] IN
              /\ new \in [status : {"OPEN", "PAID", "VOID"}, dunningAttempts : 0..MaxCharges,
                          nextRetryAt : Nat]
              /\ new.dunningAttempts = n /\ new.nextRetryAt = t
<1>1. Never \in Nat
  BY DunningAssumption DEF Never
<1> QED
  BY <1>1 DEF RestTypeOK

\* Steps that leave the attempts alone.
LEMMA QuietSteps ==
  ASSUME Parts,
         \/ \E w \in Sweeps : Select(w) \/ GiveUp(w) \/ RetryRefused(w)
         \/ ExpireGracePeriod \/ ExpireIncomplete \/ Cancel \/ Tick
  PROVE  Parts'
<1>1. TypeOK
  BY DEF Parts, TypeOK, RestTypeOK, OutboxInv
<1>2. UNCHANGED noticeVars /\ UNCHANGED <<attempt, made, card>>
  BY DEF Select, GiveUp, RetryRefused, ExpireGracePeriod, ExpireIncomplete, Cancel, Tick
<1>3. OutboxInv'
  BY <1>2, OutboxKept DEF Parts
<1>4. RestTypeOK'
  <2>1. ASSUME NEW w \in Sweeps, Select(w) \/ GiveUp(w) \/ RetryRefused(w) PROVE RestTypeOK'
    <3>1. RestTypeOK /\ invoice.dunningAttempts \in 0..MaxCharges
      BY DEF Parts, RestTypeOK
    <3>2. sweep' \in [Sweeps -> [pc : {"idle", "selected"}, dunningAttempts : 0..MaxCharges]]
      BY <2>1, <3>1, SweepTypes DEF Select, GiveUp, RetryRefused
    <3>3. invoice' \in [status : {"OPEN", "PAID", "VOID"}, dunningAttempts : 0..MaxCharges,
                       nextRetryAt : Nat]
      <4>1. invoice' = invoice \/ invoice' = [invoice EXCEPT !.nextRetryAt = Never]
        BY <2>1 DEF Select, GiveUp, RetryRefused
      <4> QED
        BY <3>1, <4>1, InvoiceTypes DEF RestTypeOK
    <3> QED
      BY <1>2, <2>1, <3>1, <3>2, <3>3 DEF RestTypeOK, Select, GiveUp, RetryRefused
  <2>2. CASE ExpireGracePeriod
    BY <1>2, <2>2, DunningAssumption DEF Parts, RestTypeOK, ExpireGracePeriod
  <2>3. CASE ExpireIncomplete
    <3>1. RestTypeOK /\ invoice' = [invoice EXCEPT !.status = "VOID", !.nextRetryAt = Never]
      BY <2>3 DEF Parts, ExpireIncomplete
    <3>2. invoice' \in [status : {"OPEN", "PAID", "VOID"}, dunningAttempts : 0..MaxCharges,
                       nextRetryAt : Nat]
      BY <3>1, InvoiceTypes
    <3> QED
      BY <1>2, <2>3, <3>1, <3>2 DEF RestTypeOK, ExpireIncomplete
  <2>4. CASE Cancel
    BY <1>2, <2>4 DEF Parts, RestTypeOK, Cancel
  <2>5. CASE Tick
    BY <1>2, <2>5 DEF Parts, RestTypeOK, Tick
  <2> QED
    BY <2>1, <2>2, <2>3, <2>4, <2>5
<1>5. /\ invoice'.dunningAttempts = invoice.dunningAttempts
      /\ invoice'.nextRetryAt \in {invoice.nextRetryAt, Never}
  BY InvoiceTypes
  DEF Parts, RestTypeOK, Select, GiveUp, RetryRefused, ExpireGracePeriod, ExpireIncomplete,
      Cancel, Tick
<1>6. LadderInv'
  BY <1>1, <1>2, <1>5, LadderKept DEF Parts
<1> QED
  BY <1>2, <1>3, <1>4, <1>6 DEF Parts

\* Steps that start an attempt.
LEMMA StartingSteps ==
  ASSUME Parts, Charge \/ \E w \in Sweeps : Retry(w)
  PROVE  Parts'
<1>1. TypeOK
  BY DEF Parts, TypeOK, RestTypeOK, OutboxInv
<1>2. /\ Payable /\ StartAttempt /\ UNCHANGED noticeVars /\ UNCHANGED <<now, sub, invoice, card>>
  BY DEF Charge, Retry
<1>3. OutboxInv'
  BY <1>2, OutboxKept DEF Parts
<1>4. attempt' \in [Attempts -> AttemptRow] /\ made' \in 0..MaxCharges /\ LadderInv'
  BY <1>1, <1>2, Starting DEF Parts, Payable, StartAttempt
<1>5. sweep' \in [Sweeps -> [pc : {"idle", "selected"}, dunningAttempts : 0..MaxCharges]]
  BY SweepTypes DEF Parts, RestTypeOK, Charge, Retry
<1> QED
  BY <1>2, <1>3, <1>4, <1>5 DEF Parts, RestTypeOK

\* Steps of an attempt.
LEMMA AttemptSteps ==
  ASSUME Parts, NEW a \in Attempts, Answer(a) \/ Resolve(a) \/ RecordFailure(a)
  PROVE  Parts'
<1>1. TypeOK
  BY DEF Parts, TypeOK, RestTypeOK, OutboxInv
<1>2. UNCHANGED noticeVars /\ UNCHANGED <<now, made, sweep, card>>
  BY DEF Answer, Resolve, RecordFailure, CheckoutOpened, TimedOut, Paid, Throws, Declined, Canceled,
         HandleFailure, CommitFailure, FailureLost, Turns
<1>3. OutboxInv'
  BY <1>2, OutboxKept DEF Parts
<1>4. attempt[a] \in AttemptRow /\ Failed \cup {a} \in SUBSET Attempts /\ Failed \in SUBSET Attempts
  BY DEF Parts, Failed
<1> DEFINE Ladder == attempt' \in [Attempts -> AttemptRow] /\ LadderInv'
           Rest == sub' \in [status : {"INCOMPLETE", "ACTIVE", "GRACE_PERIOD", "CANCELED", "EXPIRED"}
                                        \cup FinalStatuses, graceEnd : Nat]
                     /\ invoice' \in [status : {"OPEN", "PAID", "VOID"},
                                      dunningAttempts : 0..MaxCharges, nextRetryAt : Nat]
<1>5. CASE CheckoutOpened(a) \/ TimedOut(a)
  <2>1. PICK s \in {"checkout", "unknown"} : attempt' = [attempt EXCEPT ![a].state = s]
    BY <1>5 DEF CheckoutOpened, TimedOut, Turns
  <2> DEFINE row == [attempt[a] EXCEPT !.state = s]
  <2>2. row \in AttemptRow /\ row.state = s
    <3>1. s \in AttemptState
      BY DEF AttemptState
    <3> QED
      BY <1>4, <3>1, StateSet
  <2>3. attempt' = [attempt EXCEPT ![a] = row]
    BY <2>1
  <2>4. attempt[a].state = "charging" /\ UNCHANGED <<sub, invoice>>
    BY <1>5 DEF CheckoutOpened, TimedOut
  <2> HIDE DEF row
  <2>5. Ladder
    BY <1>1, <1>2, <2>2, <2>3, <2>4, Moving DEF Parts
  <2> QED
    BY <1>2, <1>3, <2>4, <2>5 DEF Parts, RestTypeOK
<1>6. CASE Paid(a)
  <2> DEFINE row == [NoAttempt EXCEPT !.state = "paid"]
  <2>1. row \in AttemptRow /\ row.state = "paid"
    BY Rows DEF AttemptState
  <2>2. attempt' = [attempt EXCEPT ![a] = row]
    BY <1>6 DEF Paid
  <2>3. attempt[a].state \in {"charging", "unknown", "checkout"}
    BY <1>6 DEF Paid, Unresolved
  <2>4. /\ invoice'.dunningAttempts = invoice.dunningAttempts
        /\ invoice'.nextRetryAt \in {invoice.nextRetryAt, Never}
        /\ Rest
    BY <1>6, InvoiceTypes DEF Paid, Parts, RestTypeOK
  <2> HIDE DEF row
  <2>5. Ladder
    BY <1>1, <1>2, <2>1, <2>2, <2>3, <2>4, Moving DEF Parts
  <2> QED
    BY <1>2, <1>3, <2>4, <2>5 DEF Parts, RestTypeOK
<1>7. ASSUME NEW h \in BOOLEAN, Throws(a, h) PROVE Parts'
  <2> DEFINE row == [attempt[a] EXCEPT !.state = "handling", !.hopeless = h]
  <2>1. row \in AttemptRow /\ row.state = "handling"
    BY <1>4, Rows DEF AttemptRow
  <2>2. /\ attempt' = [attempt EXCEPT ![a] = row] /\ attempt[a].state = "charging"
        /\ UNCHANGED <<sub, invoice>>
    BY <1>7 DEF Throws
  <2> HIDE DEF row
  <2>3. Ladder
    BY <1>1, <1>2, <2>1, <2>2, Moving DEF Parts
  <2> QED
    BY <1>2, <1>3, <2>2, <2>3 DEF Parts, RestTypeOK
<1>8. ASSUME NEW h \in BOOLEAN, NEW w \in {"call", attempt[a].state}, Declined(a, w, h)
      PROVE  Parts'
  <2> DEFINE row == [Decision(a, Failed \cup {a}, h) EXCEPT !.state = "declining", !.was = w]
  <2>1. /\ attempt' = [attempt EXCEPT ![a] = row]
        /\ attempt[a].state \in {"charging", "unknown", "checkout"} /\ UNCHANGED <<sub, invoice>>
    BY <1>8 DEF Declined, Unresolved
  <2>2. HasRead(row, "declining", Cardinality(Failed \cup {a}))
    <3>1. "declining" \in AttemptState /\ w \in {"none", "call", "charging", "unknown", "checkout"}
      BY <2>1 DEF AttemptState
    <3> QED
      BY <1>1, <1>4, <3>1, DecisionFacts
  <2> HIDE DEF row
  <2>3. Ladder
    BY <1>1, <1>2, <2>1, <2>2, Moving DEF Parts, HasRead
  <2> QED
    BY <1>2, <1>3, <2>1, <2>3 DEF Parts, RestTypeOK
<1>9. ASSUME NEW w \in {"call", attempt[a].state}, Canceled(a, w) PROVE Parts'
  <2> DEFINE row == [Decision(a, Failed, FALSE) EXCEPT !.state = "canceling", !.was = w]
  <2>1. /\ attempt' = [attempt EXCEPT ![a] = row]
        /\ attempt[a].state \in {"charging", "unknown", "checkout"} /\ UNCHANGED <<sub, invoice>>
    BY <1>9 DEF Canceled, Unresolved
  <2>2. HasRead(row, "canceling", Cardinality(Failed))
    <3>1. "canceling" \in AttemptState /\ w \in {"none", "call", "charging", "unknown", "checkout"}
      BY <2>1 DEF AttemptState
    <3> QED
      BY <1>1, <1>4, <3>1, DecisionFacts
  <2> HIDE DEF row
  <2>3. Ladder
    BY <1>1, <1>2, <2>1, <2>2, Moving DEF Parts, HasRead
  <2> QED
    BY <1>2, <1>3, <2>1, <2>3 DEF Parts, RestTypeOK
<1>10. CASE HandleFailure(a)
  <2> DEFINE h == attempt[a].hopeless
             row == [Decision(a, Failed, h) EXCEPT !.state = "failing"]
  <2>1. /\ attempt' = [attempt EXCEPT ![a] = row] /\ attempt[a].state = "handling"
        /\ UNCHANGED <<sub, invoice>>
    BY <1>10 DEF HandleFailure
  <2>2. Failed \cup {a} = Failed
    BY <2>1 DEF Failed
  <2>3. HasRead(row, "failing", Cardinality(Failed \cup {a}))
    <3>1. h \in BOOLEAN /\ "failing" \in AttemptState
      BY <1>4 DEF AttemptRow, AttemptState
    <3> HIDE DEF h
    <3>2. HasRead(row, "failing", Cardinality(Failed))
      BY <1>1, <1>4, <3>1, DecisionFacts
    <3> QED
      BY <2>2, <3>2
  <2> HIDE DEF row
  <2>4. Ladder
    BY <1>1, <1>2, <2>1, <2>3, Moving DEF Parts, HasRead
  <2> QED
    BY <1>2, <1>3, <2>1, <2>4 DEF Parts, RestTypeOK
<1>11. CASE CommitFailure(a)
  <2> DEFINE row == IF attempt[a].state = "canceling" THEN [NoAttempt EXCEPT !.state = "canceled"]
                    ELSE Becoming(a, "failed")
  <2>1. /\ InFailure(a) /\ attempt' = [attempt EXCEPT ![a] = row]
        /\ invoice' = [invoice EXCEPT !.dunningAttempts = attempt[a].count,
                                      !.nextRetryAt = attempt[a].retryAt]
    BY <1>11 DEF CommitFailure
  <2>2. attempt[a].count \in 0..MaxCharges /\ attempt[a].retryAt \in Nat
    BY <1>4 DEF AttemptRow
  <2>3. /\ invoice'.dunningAttempts = attempt[a].count /\ invoice'.nextRetryAt = attempt[a].retryAt
        /\ invoice' \in [status : {"OPEN", "PAID", "VOID"}, dunningAttempts : 0..MaxCharges,
                         nextRetryAt : Nat]
    BY <2>1, <2>2, InvoiceTypes DEF Parts
  <2>4. sub' \in [status : {"INCOMPLETE", "ACTIVE", "GRACE_PERIOD", "CANCELED", "EXPIRED"} \cup FinalStatuses,
                  graceEnd : Nat]
    BY <1>11, DunningAssumption DEF CommitFailure, Parts, RestTypeOK
  <2>5. attempt[a].state \in {"declining", "canceling", "failing"}
    BY <2>1 DEF InFailure
  <2>6. /\ row \in AttemptRow
        /\ row.state = IF attempt[a].state = "canceling" THEN "canceled" ELSE "failed"
    <3>1. {"canceled", "failed"} \subseteq AttemptState
      BY DEF AttemptState
    <3> QED
      BY <1>4, <3>1, BecomingFacts, Rows
  <2> HIDE DEF row
  <2>7. Ladder
    BY <1>1, <1>2, <2>1, <2>3, <2>5, <2>6, Moving DEF Parts
  <2> QED
    BY <1>2, <1>3, <2>3, <2>4, <2>7 DEF Parts, RestTypeOK
<1>12. CASE FailureLost(a)
  <2> DEFINE s == IF attempt[a].state = "failing" THEN "failed"
                  ELSE IF attempt[a].was = "call" THEN "handling" ELSE attempt[a].was
             row == Becoming(a, s)
  <2>1. attempt' = [attempt EXCEPT ![a] = row] /\ UNCHANGED <<sub, invoice>>
    BY <1>12 DEF FailureLost
  <2>2. attempt[a].state \in {"declining", "canceling", "failing"}
    BY <1>12 DEF FailureLost, InFailure
  <2>3. /\ s \in AttemptState /\ s \notin {"declining", "canceling", "failing"}
        /\ attempt[a].state = "failing" => s = "failed"
    <3>1. attempt[a].was \in {"none", "call", "charging", "unknown", "checkout"}
      BY <1>4 DEF AttemptRow
    <3>2. CASE attempt[a].state = "failing"
      BY <3>2 DEF AttemptState
    <3>3. CASE attempt[a].state # "failing" /\ attempt[a].was = "call"
      BY <3>3 DEF AttemptState
    <3>4. CASE attempt[a].state # "failing" /\ attempt[a].was # "call"
      BY <3>1, <3>4 DEF AttemptState
    <3> QED
      BY <3>2, <3>3, <3>4
  <2> HIDE DEF s
  <2>4. row \in AttemptRow /\ row.state = s
    BY <1>4, <2>3, BecomingFacts
  <2> HIDE DEF row
  <2>5. Ladder
    BY <1>1, <1>2, <2>1, <2>2, <2>3, <2>4, Moving DEF Parts
  <2> QED
    BY <1>2, <1>3, <2>1, <2>5 DEF Parts, RestTypeOK
<1> QED
  BY <1>5, <1>6, <1>7, <1>8, <1>9, <1>10, <1>11, <1>12 DEF Answer, Resolve, RecordFailure

\* A process that dies with the failure of a charge on its hands.
LEMMA AbandonedSteps ==
  ASSUME Parts, NEW a \in Attempts, FailureAbandoned(a)
  PROVE  Parts'
<1> DEFINE s == IF attempt[a].state \in {"handling", "failing"} THEN "failed" ELSE "unknown"
           row == Becoming(a, s)
<1>1. TypeOK
  BY DEF Parts, TypeOK, RestTypeOK, OutboxInv
<1>2. /\ attempt' = [attempt EXCEPT ![a] = row] /\ deaths < MaxDeaths /\ deaths' = deaths + 1
      /\ UNCHANGED <<now, sub, invoice, made, sweep, card, mail, mailer, inbox, unsure>>
  BY DEF FailureAbandoned
<1>3. OutboxInv'
  BY <1>2, NoticesAssumption DEF Parts, OutboxInv, NoticesTypeOK, OutboxIsSure, Sure, IsAt
<1>4. row \in AttemptRow /\ row.state = s
  <2>1. s \in AttemptState /\ attempt[a] \in AttemptRow
    BY DEF AttemptState, Parts
  <2> HIDE DEF s
  <2> QED
    BY <2>1, BecomingFacts
<1>5. attempt[a].state # "none" /\ attempt[a].state # "failed"
  BY DEF FailureAbandoned, InFailure, Parts
<1> HIDE DEF row
<1>6. attempt' \in [Attempts -> AttemptRow] /\ LadderInv'
  BY <1>1, <1>2, <1>4, <1>5, Moving DEF Parts
<1> QED
  BY <1>2, <1>3, <1>6 DEF Parts, RestTypeOK

\* Steps of a notifications job.
LEMMA MailSteps ==
  ASSUME Parts,
         \/ \E m \in Mailers : Notify(m) \/ Dies(m)
         \/ GrowsStale
  PROVE  Parts'
<1>1. TypeOK
  BY DEF Parts, TypeOK, RestTypeOK, OutboxInv
<1>2. ASSUME UNCHANGED ladderVars, OutboxInv' PROVE Parts'
  <2>1. LadderInv'
    BY <1>1, <1>2, LadderKept DEF Parts, ladderVars
  <2> QED
    BY <1>2, <2>1 DEF ladderVars, Parts, RestTypeOK
<1>3. ASSUME NEW m \in Mailers, FindExhausted(m) PROVE Parts'
  <2>1. "dunning_exhausted" \in Keys
    BY DunningAssumption
  <2> QED
    BY <1>2, <1>3, <2>1, Prepares DEF FindExhausted, Parts
<1>4. ASSUME NEW m \in Mailers, Render(m) PROVE Parts'
  BY <1>2, <1>4, Renders DEF Render, Parts
<1>5. ASSUME NEW m \in Mailers, Send(m) PROVE Parts'
  BY <1>2, <1>5, SendingKeepsOutbox DEF Send, Parts
<1>6. ASSUME NEW m \in Mailers, Dies(m) PROVE Parts'
  BY <1>2, <1>6, Death DEF Dies, Parts
<1>7. CASE GrowsStale
  BY <1>2, <1>7, GrowingStale DEF GrowsStale, Parts
<1>8. ASSUME NEW m \in Mailers, OpenPayLink(m) PROVE Parts'
  <2>1. OutboxInv'
    BY <1>8, Renders DEF OpenPayLink, Parts
  <2>2. PICK s \in {"checkout", "unknown", "handling"} :
          attempt' = [attempt EXCEPT ![made + 1] = [NoAttempt EXCEPT !.state = s, !.at = now]]
    BY <1>8 DEF OpenPayLink
  <2>3. made < MaxCharges /\ made' = made + 1 /\ UNCHANGED <<now, sub, invoice, sweep, card>>
    BY <1>8 DEF OpenPayLink, Payable
  <2>4. attempt' \in [Attempts -> AttemptRow] /\ made' \in 0..MaxCharges /\ LadderInv'
    BY <1>1, <2>2, <2>3, Starting DEF Parts
  <2> QED
    BY <2>1, <2>3, <2>4 DEF Parts, RestTypeOK
<1> QED
  BY <1>3, <1>4, <1>5, <1>6, <1>7, <1>8 DEF Notify

LEMMA Stuttering == ASSUME Parts, UNCHANGED vars PROVE Parts'
<1>1. UNCHANGED noticeVars /\ UNCHANGED ladderVars
  BY DEF vars, noticeVars, ladderVars
<1>2. OutboxInv'
  BY <1>1, OutboxKept DEF Parts
<1>3. TypeOK
  BY DEF Parts, TypeOK, RestTypeOK, OutboxInv
<1>4. LadderInv'
  BY <1>1, <1>3, LadderKept DEF Parts, ladderVars
<1> QED
  BY <1>1, <1>2, <1>4 DEF ladderVars, Parts, RestTypeOK

LEMMA StepInv == ASSUME IInv, [Next]_vars PROVE IInv'
<1>1. Parts
  BY InvIsParts
<1>2. Parts'
  BY <1>1, QuietSteps, StartingSteps, AttemptSteps, AbandonedSteps, MailSteps, Stuttering DEF Next, Climb
<1> QED
  BY <1>2 DEF IInv, Parts, TypeOK, RestTypeOK, OutboxInv

LEMMA Invariance == Spec => []IInv
<1>1. Init => IInv
  BY InitInv
<1>2. IInv /\ [Next]_vars => IInv'
  BY StepInv
<1> QED
  BY <1>1, <1>2, PTL DEF Spec

\* Every variable of the ladder and of the outbox keeps its type.
THEOREM TypeCorrect == Spec => []TypeOK
<1>1. IInv => TypeOK
  BY DEF IInv
<1> QED
  BY <1>1, Invariance, PTL

\* However many failures are being recorded at once, and whatever each of them had
\* read, dunningAttempts never counts a failure that did not happen.
THEOREM FailuresAreReal == Spec => []CountsOnlyFailures
<1>1. IInv => CountsOnlyFailures
  BY DEF IInv, LadderInv
<1> QED
  BY <1>1, Invariance, PTL

\* Under any policy no retry is scheduled once there were more failures than it has
\* attempts.
THEOREM LimitHolds == Spec => []NothingScheduledPastTheLimit
<1>1. IInv => NothingScheduledPastTheLimit
  BY DEF IInv, LadderInv
<1> QED
  BY <1>1, Invariance, PTL

\* With any number of notifications jobs, a customer is sent a message again only
\* after something put in doubt that it had gone out.
THEOREM SentOnceUnlessInDoubt == Spec => []SentAgainOnlyInDoubt
<1>1. IInv => SentAgainOnlyInDoubt
  <2> SUFFICES ASSUME IInv, NEW k \in Keys, k \notin unsure
               PROVE  inbox[k] <= 1
    BY DEF SentAgainOnlyInDoubt, IInv, TypeOK, NoticesTypeOK
  <2> QED
    BY DEF IInv, OutboxIsSure, Sure
<1> QED
  BY <1>1, Invariance, PTL

=============================================================================

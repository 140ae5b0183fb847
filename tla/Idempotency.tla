---------------------------- MODULE Idempotency ----------------------------
(***************************************************************************)
(* One Idempotency-Key of one organization on one endpoint: the row that   *)
(* withIdempotency and releaseIdempotency keep for it                      *)
(* (apps/api/src/plugins/idempotency.ts), the money-moving handlers that   *)
(* run between them, and the hourly sweep of expired rows.                 *)
(*                                                                         *)
(* A call is a client's request and its repetitions: it is sent again, with *)
(* the same body, while it is told that the key is in use, or when its     *)
(* connection breaks.  Calls run in any number of API processes.           *)
(***************************************************************************)
EXTENDS Naturals, FiniteSets

CONSTANTS
  Calls,        \* the calls that ever use the key
  NoCall,
  Bodies,       \* request bodies, as far as their canonical hash tells them apart
  Body,         \* the body each call carries
  StaleAfter,   \* STALE_IN_PROGRESS_MS, in ticks
  Ttl,          \* ttlHours, in ticks
  MaxFaults     \* bound: process deaths and failed statements

ASSUME IdempotencyAssumption ==
  /\ NoCall \notin Calls
  /\ IsFiniteSet(Calls)
  /\ Body \in [Calls -> Bodies]
  /\ StaleAfter \in Nat /\ Ttl \in Nat /\ StaleAfter < Ttl
  /\ MaxFaults \in Nat

VARIABLES
  row,     \* the IdempotencyKey row, or NoRow
  pc,      \* where each call's current request is
  seen,    \* the id of the row the request decided to reclaim
  age,     \* ticks since the request entered withIdempotency
  answer,  \* what the call was finally told
  late,    \* whether some request has ever run for longer than StaleAfter
  faults   \* process deaths and failed statements so far

vars == <<row, pc, seen, age, answer, late, faults>>

\* Enough ids that one is always unused: newId never repeats.
Ids == 1..(Cardinality(Calls) + 1)
NoId == 0

NoRow == [id |-> NoId, body |-> "none", status |-> "none", age |-> 0, left |-> 0,
          by |-> NoCall, author |-> NoCall]

\* by, which the table does not record, is the call that inserted the row;
\* author is the call whose response is stored.  age stops counting when the
\* row has become stale, left when it has expired.
Row ==
  [id : Ids, body : Bodies, status : {"IN_PROGRESS", "COMPLETED"},
   age : 0..(StaleAfter + 1), left : 0..Ttl, by : Calls, author : Calls \cup {NoCall}]

TypeOK ==
  /\ row \in Row \cup {NoRow}
  /\ pc \in [Calls -> {"idle", "reclaiming", "creating", "handling", "completing",
                       "releasing", "answered"}]
  /\ seen \in [Calls -> Ids \cup {NoId}]
  /\ age \in [Calls -> 0..Ttl]
  /\ answer \in [Calls -> [kind : {"none", "ok", "failed", "reuse", "replay"},
                           of : Calls \cup {NoCall}]]
  /\ late \in BOOLEAN
  /\ faults \in 0..MaxFaults

Init ==
  /\ row = NoRow
  /\ pc = [c \in Calls |-> "idle"]
  /\ seen = [c \in Calls |-> NoId]
  /\ age = [c \in Calls |-> 0]
  /\ answer = [c \in Calls |-> [kind |-> "none", of |-> NoCall]]
  /\ late = FALSE
  /\ faults = 0

Running(c) == pc[c] \notin {"idle", "answered"}

\* The call is past withIdempotency and may be moving money.
Executing(c) == pc[c] \in {"handling", "completing", "releasing"}

-----------------------------------------------------------------------------
(* Steps of a request *)

Goto(c, label) == pc' = [pc EXCEPT ![c] = label]

\* The response leaves the server, and with it everything the request knew.
Answer(c, kind, of) ==
  /\ Goto(c, "answered")
  /\ answer' = [answer EXCEPT ![c] = [kind |-> kind, of |-> of]]
  /\ age' = [age EXCEPT ![c] = 0]
  /\ seen' = [seen EXCEPT ![c] = NoId]

\* MUTANT of Stale: a key in progress is never taken over.
StaleNever == FALSE

Stale == row.age > StaleAfter

\* MUTANT of SameRequest: the request's hash is not compared.
AnyRequest(c) == TRUE

SameRequest(c) == row.body = Body[c]

\* The findUnique.  A row in progress that is not yet stale changes nothing: the
\* call is refused with IDEMPOTENCY_REQUEST_IN_PROGRESS and sent again later.
Lookup(c) ==
  /\ pc[c] = "idle"
  /\ \/ /\ row = NoRow
        /\ Goto(c, "creating")
        /\ UNCHANGED <<seen, age, answer>>
     \/ /\ row # NoRow /\ ~SameRequest(c)
        /\ Answer(c, "reuse", NoCall)
     \/ /\ row # NoRow /\ SameRequest(c) /\ row.status = "COMPLETED"
        /\ Answer(c, "replay", row.author)
     \/ /\ row # NoRow /\ SameRequest(c) /\ row.status = "IN_PROGRESS" /\ Stale
        /\ Goto(c, "reclaiming")
        /\ seen' = [seen EXCEPT ![c] = row.id]
        /\ UNCHANGED <<age, answer>>
  /\ UNCHANGED <<row, late, faults>>

\* MUTANT of Reclaim: the reclaim deletes by key.
ReclaimAnyRow(c) ==
  /\ pc[c] = "reclaiming"
  /\ row' = IF row.status = "IN_PROGRESS" THEN NoRow ELSE row
  /\ Goto(c, "creating")
  /\ seen' = [seen EXCEPT ![c] = NoId]
  /\ UNCHANGED <<age, answer, late, faults>>

\* deleteMany by the id that was read, if still in progress.
Reclaim(c) ==
  /\ pc[c] = "reclaiming"
  /\ row' = IF row.id = seen[c] /\ row.status = "IN_PROGRESS" THEN NoRow ELSE row
  /\ Goto(c, "creating")
  /\ seen' = [seen EXCEPT ![c] = NoId]
  /\ UNCHANGED <<age, answer, late, faults>>

Remembered == {row.id} \cup {seen[c] : c \in Calls}

\* MUTANT of NewRow: the row's life is counted one tick short.
NewRowShort(c, id) ==
  [id |-> id, body |-> Body[c], status |-> "IN_PROGRESS", age |-> 0,
   left |-> Ttl - age[c] - 1, by |-> c, author |-> NoCall]

NewRow(c, id) ==
  [id |-> id, body |-> Body[c], status |-> "IN_PROGRESS", age |-> 0,
   left |-> Ttl - age[c], by |-> c, author |-> NoCall]

\* The insert.  The unique index lets one of two racing requests through; the
\* other is refused like one that found the key in use.
Create(c) ==
  /\ pc[c] = "creating"
  /\ \/ /\ row = NoRow
        /\ Ids \ Remembered # {}
        /\ row' = NewRow(c, CHOOSE id \in Ids \ Remembered : TRUE)
        /\ Goto(c, "handling")
        /\ UNCHANGED age
     \/ /\ row # NoRow
        /\ Goto(c, "idle")
        /\ age' = [age EXCEPT ![c] = 0]
        /\ UNCHANGED row
  /\ UNCHANGED <<seen, answer, late, faults>>

\* The route's handler: it returns a payload, or throws, before or after some
\* of its effects have been committed.
Handle(c) ==
  /\ pc[c] = "handling"
  /\ Goto(c, "completing") \/ Goto(c, "releasing")
  /\ UNCHANGED <<row, seen, age, answer, late, faults>>

\* complete(): an update by key, whichever row the key now has; none is no error.
Complete(c) ==
  /\ pc[c] = "completing"
  /\ row' = IF row = NoRow THEN NoRow
            ELSE [row EXCEPT !.status = "COMPLETED", !.author = c]
  /\ Answer(c, "ok", NoCall)
  /\ UNCHANGED <<late, faults>>

\* MUTANT of Release: the release deletes a completed row as well.
ReleaseCompleted(c) ==
  /\ pc[c] = "releasing"
  /\ row' = NoRow
  /\ Answer(c, "failed", NoCall)
  /\ UNCHANGED <<late, faults>>

\* releaseIdempotency: a deleteMany by key.
Release(c) ==
  /\ pc[c] = "releasing"
  /\ row' = IF row.status = "IN_PROGRESS" THEN NoRow ELSE row
  /\ Answer(c, "failed", NoCall)
  /\ UNCHANGED <<late, faults>>

\* The statement of one of these steps fails.  complete(), releaseIdempotency
\* and the reclaim swallow the error; a failed insert is thrown to the client.
StatementFails(c) ==
  /\ faults < MaxFaults
  /\ faults' = faults + 1
  /\ \/ /\ pc[c] = "reclaiming"
        /\ Goto(c, "creating")
        /\ seen' = [seen EXCEPT ![c] = NoId]
        /\ UNCHANGED <<age, answer>>
     \/ pc[c] = "creating" /\ Answer(c, "failed", NoCall)
     \/ pc[c] = "completing" /\ Answer(c, "ok", NoCall)
     \/ pc[c] = "releasing" /\ Answer(c, "failed", NoCall)
  /\ UNCHANGED <<row, late>>

\* The process dies; the client's connection breaks and it sends the call again.
Crash(c) ==
  /\ Running(c)
  /\ faults < MaxFaults
  /\ faults' = faults + 1
  /\ Goto(c, "idle")
  /\ seen' = [seen EXCEPT ![c] = NoId]
  /\ age' = [age EXCEPT ![c] = 0]
  /\ UNCHANGED <<row, answer, late>>

-----------------------------------------------------------------------------
(* Time and the hourly sweep *)

Sooner(a, b) == IF a < b THEN a ELSE b

Tick ==
  /\ row' = IF row = NoRow THEN NoRow
            ELSE [row EXCEPT !.age = Sooner(@ + 1, StaleAfter + 1),
                             !.left = IF @ = 0 THEN 0 ELSE @ - 1]
  /\ age' = [c \in Calls |-> IF Running(c) THEN Sooner(age[c] + 1, Ttl) ELSE age[c]]
  /\ late' = (late \/ \E c \in Calls : Running(c) /\ age[c] >= StaleAfter)
  /\ UNCHANGED <<pc, seen, answer, faults>>

\* runIdempotencySweep.
Sweep ==
  /\ row # NoRow /\ row.left = 0
  /\ row' = NoRow
  /\ UNCHANGED <<pc, seen, age, answer, late, faults>>

-----------------------------------------------------------------------------

Step(c) == Lookup(c) \/ Reclaim(c) \/ Create(c) \/ Handle(c) \/ Complete(c) \/ Release(c)

Next ==
  \/ \E c \in Calls : Step(c) \/ StatementFails(c) \/ Crash(c)
  \/ Tick
  \/ Sweep

Spec == Init /\ [][Next]_vars

\* A live process runs its handlers on, a refused client tries again, and time
\* passes.  Nothing is assumed of the sweep.
FairSpec == Spec /\ WF_vars(Tick) /\ \A c \in Calls : WF_vars(Step(c))

-----------------------------------------------------------------------------
(* Properties *)

\* Two calls never move money under one key at the same time, whatever crashes,
\* fails or is swept, provided no request outlives the time after which others
\* take it for dead (withIdempotency, the reclaim racing the insert).
OneHolderAtATime ==
  ~late => \A c, d \in Calls : Executing(c) /\ Executing(d) => c = d

\* A stored response is replayed only to a call with the body it was computed
\* for, under the same proviso: complete() and releaseIdempotency go by the key
\* and would otherwise reach a successor's row.
ReplayFitsTheBody ==
  ~late => \A c \in Calls :
    answer[c].kind = "replay" => /\ answer[c].of \in Calls
                                 /\ Body[answer[c].of] = Body[c]

\* A recorded response stays until it expires: neither a reclaim decided on an
\* older reading, nor a slow handler that fails after its successor succeeded,
\* reopens the key.
CompletedIsKept ==
  [][row.status = "COMPLETED" /\ row.left > 0 =>
       row'.id = row.id /\ row'.status = "COMPLETED"]_vars

\* A key wedged by a dead process is taken over, without waiting for the sweep:
\* every call that keeps asking is answered.
EveryCallIsAnswered == \A c \in Calls : <>(pc[c] = "answered")

=============================================================================

------------------------------ MODULE Notices ------------------------------
(***************************************************************************)
(* Customer email: the EmailMessage rows and sendOnce, as a running        *)
(* notifications job goes through it.                                      *)
(*                                                                         *)
(* A message is named by its dedupeKey.  A run reads the row, claims it    *)
(* with an upsert that has no condition, calls the provider and writes the *)
(* outcome by id, each a step of its own: two runs, or a run and the claim *)
(* a dead run left, may meet anywhere in between.  What makes a message    *)
(* due, and what a run does before sendOnce, is the caller's (Dunning).    *)
(***************************************************************************)
EXTENDS Naturals

CONSTANTS
  Keys,              \* dedupe keys
  Mailers,           \* notifications jobs that may be running at the same time
  MaxEmailAttempts,  \* MAX_EMAIL_ATTEMPTS
  MaxClaims,         \* bound: claims of one message
  MaxDeaths          \* bound: runs that die

ASSUME NoticesAssumption ==
  /\ MaxEmailAttempts \in Nat \ {0} /\ MaxClaims \in Nat /\ MaxDeaths \in Nat

VARIABLES
  mail,     \* the EmailMessage rows
  mailer,   \* the message each run is at
  inbox,    \* messages the customer has received, by key
  unsure,   \* keys of messages that may have gone out without the row saying so
  deaths    \* runs that have died

noticeVars == <<mail, mailer, inbox, unsure, deaths>>

\* stale: STALE_CLAIM_MS have passed since the claim.
MessageRow == [status : {"NONE", "PENDING", "SENT", "FAILED", "SUPPRESSED"},
               attempts : 0..MaxClaims, stale : BOOLEAN]

NoMessage == [status |-> "NONE", attempts |-> 0, stale |-> FALSE]

\* preparing: the job has found the message due; rendered: it calls sendOnce;
\* passed: sendOnce has read the row; accepted and refused: the provider answered.
Working == {"preparing", "rendered", "passed", "sending", "accepted", "refused"}
MailerState == [pc : Working, key : Keys]
Idle == [pc |-> "idle"]

NoticesTypeOK ==
  /\ mail \in [Keys -> MessageRow]
  /\ mailer \in [Mailers -> MailerState \cup {Idle}]
  /\ inbox \in [Keys -> Nat]
  /\ unsure \subseteq Keys
  /\ deaths \in 0..MaxDeaths

NoticesInit ==
  /\ mail = [k \in Keys |-> NoMessage]
  /\ mailer = [m \in Mailers |-> Idle]
  /\ inbox = [k \in Keys |-> 0]
  /\ unsure = {}
  /\ deaths = 0

At(m, pc) == mailer[m].pc = pc

Becomes(m, pc) == mailer' = [mailer EXCEPT ![m] = [pc |-> pc, key |-> @.key]]

Stops(m) == mailer' = [mailer EXCEPT ![m] = Idle]

-----------------------------------------------------------------------------

\* A mutant: a message that has been sent is not told from one that has not.
SettledUnlessTried(row) == row.status = "FAILED" /\ row.attempts >= MaxEmailAttempts

\* A mutant: a claim is respected for ever.
SettledOnceClaimed(row) ==
  \/ row.status \in {"SENT", "SUPPRESSED", "PENDING"}
  \/ row.status = "FAILED" /\ row.attempts >= MaxEmailAttempts

\* alreadySettled, and the same test at the top of sendOnce.
Settled(row) ==
  \/ row.status \in {"SENT", "SUPPRESSED"}
  \/ row.status = "PENDING" /\ ~row.stale
  \/ row.status = "FAILED" /\ row.attempts >= MaxEmailAttempts

\* The job comes to a message that its list says is due.
Prepare(m, k) ==
  /\ mailer[m] = Idle /\ ~Settled(mail[k])
  /\ mailer' = [mailer EXCEPT ![m] = [pc |-> "preparing", key |-> k]]
  /\ UNCHANGED <<mail, inbox, unsure, deaths>>

\* A claim that has gone stale is taken over, whether or not its message went out.
ReadMessage(m) ==
  LET k == mailer[m].key IN
  /\ At(m, "rendered")
  /\ IF Settled(mail[k]) THEN Stops(m) ELSE Becomes(m, "passed")
  /\ unsure' = IF mail[k].status = "PENDING" /\ mail[k].stale THEN unsure \cup {k} ELSE unsure
  /\ UNCHANGED <<mail, inbox, deaths>>

\* The organization has email switched off: the decision alone is recorded.
Suppress(m) ==
  /\ At(m, "passed")
  /\ mail' = [mail EXCEPT ![mailer[m].key] = [@ EXCEPT !.status = "SUPPRESSED", !.stale = FALSE]]
  /\ Stops(m)
  /\ UNCHANGED <<inbox, unsure, deaths>>

\* Some other run is between its own look at the row and its last write.
Contended(m, k) ==
  \E n \in Mailers \ {m} : mailer[n] # Idle /\ mailer[n].key = k
                           /\ mailer[n].pc \in {"passed", "sending", "accepted", "refused"}

\* upsertClaim.
Claim(m) ==
  LET k == mailer[m].key IN
  /\ At(m, "passed") /\ mail[k].attempts < MaxClaims
  /\ mail' = [mail EXCEPT ![k] = [status |-> "PENDING", attempts |-> @.attempts + 1,
                                  stale |-> FALSE]]
  /\ unsure' = IF Contended(m, k) THEN unsure \cup {k} ELSE unsure
  /\ Becomes(m, "sending")
  /\ UNCHANGED <<inbox, deaths>>

\* transport.send: the provider takes the message, turns it away, or takes it
\* and the answer, or the row's update to SENT, is lost.
Accepted(m) ==
  /\ At(m, "sending")
  /\ inbox' = [inbox EXCEPT ![mailer[m].key] = @ + 1]
  /\ Becomes(m, "accepted")
  /\ UNCHANGED <<mail, unsure, deaths>>

Refused(m) ==
  /\ At(m, "sending")
  /\ Becomes(m, "refused")
  /\ UNCHANGED <<mail, inbox, unsure, deaths>>

AnswerLost(m) ==
  /\ At(m, "sending")
  /\ inbox' = [inbox EXCEPT ![mailer[m].key] = @ + 1]
  /\ unsure' = unsure \cup {mailer[m].key}
  /\ Becomes(m, "refused")
  /\ UNCHANGED <<mail, deaths>>

RecordSent(m) ==
  /\ At(m, "accepted")
  /\ mail' = [mail EXCEPT ![mailer[m].key] = [@ EXCEPT !.status = "SENT", !.stale = FALSE]]
  /\ Stops(m)
  /\ UNCHANGED <<inbox, unsure, deaths>>

\* The catch block writes FAILED by id, over whatever the row says by now.
RecordFailed(m) ==
  /\ At(m, "refused")
  /\ mail' = [mail EXCEPT ![mailer[m].key] = [@ EXCEPT !.status = "FAILED", !.stale = FALSE]]
  /\ Stops(m)
  /\ UNCHANGED <<inbox, unsure, deaths>>

\* The process dies; the row stays as it is.
Die(m) ==
  /\ mailer[m] # Idle /\ deaths < MaxDeaths
  /\ Stops(m)
  /\ deaths' = deaths + 1
  /\ UNCHANGED <<mail, inbox, unsure>>

ClaimGrowsStale(k) ==
  /\ mail[k].status = "PENDING" /\ ~mail[k].stale
  /\ mail' = [mail EXCEPT ![k].stale = TRUE]
  /\ UNCHANGED <<mailer, inbox, unsure, deaths>>

SendOnce(m) ==
  \/ ReadMessage(m) \/ Suppress(m) \/ Claim(m)
  \/ Accepted(m) \/ Refused(m) \/ AnswerLost(m)
  \/ RecordSent(m) \/ RecordFailed(m)

-----------------------------------------------------------------------------

\* "it can only ever be sent once": a customer receives a message again only if
\* two runs were at it at once, a claim was taken over from a run that had not
\* written its outcome, or the provider's answer to an earlier send was lost.
SentAgainOnlyInDoubt == \A k \in Keys : inbox[k] > 1 => k \in unsure

=============================================================================

------------------------- MODULE EntitlementsProofs -------------------------
(***************************************************************************)
(* The safety of Entitlements for any number of checks, rules, changes and *)
(* faults and any lifetime of an entry.  The invariant dates what a check  *)
(* holds and what the entry says: facts that are out of date were replaced *)
(* no earlier than they were read, and are dropped a lifetime later.  Then *)
(* what resolveEntitlement answers, for any definitions and consumption.   *)
(***************************************************************************)
EXTENDS Entitlements, TLAPS

Answered == [given : {TRUE}, access : BOOLEAN, expiresAt : Nat \cup {never}, at : Nat, epoch : Nat]

Writing == [stage : {"written", "announced"}, to : Statuses, by : {"api", "worker"}]
Loading == [stage : {"reading", "loaded"}, copy : Entry, since : 0..Horizon]

\* The shape of the state, in the form the steps use.
Shape ==
  /\ now \in 0..Horizon /\ epoch \in 0..MaxChanges /\ faults \in 0..MaxFaults
  /\ facts \in Facts /\ edit \in BOOLEAN
  /\ replaced \in [1..epoch -> 0..Horizon] /\ dropped \in 0..epoch
  /\ tx.stage = "idle" \/ tx \in Writing
  /\ entry = NoEntry \/ entry \in Entry
  /\ DOMAIN check = Checks
  /\ \A c \in Checks : check[c].stage \in {"idle", "missed"} \/ check[c] \in Loading
  /\ answer = NoAnswer \/ answer \in Answered

\* What a check has read was true when it read it, no longer ago than a request lasts.
ReadInTime ==
  \A c \in Checks : Holds(c) =>
    /\ check[c].since <= now /\ now <= check[c].since + 1
    /\ check[c].copy.epoch <= epoch
    /\ check[c].copy.epoch < epoch => check[c].since <= replaced[check[c].copy.epoch + 1]
    /\ check[c].copy.epoch < dropped => check[c].copy.raced

EntryInTime ==
  entry.stored =>
    /\ entry.expires <= now + TTL
    /\ entry.epoch <= epoch
    /\ entry.epoch < epoch => entry.expires <= replaced[entry.epoch + 1] + TTL + 1
    /\ entry.epoch < dropped => entry.raced

AnswerInTime ==
  answer.given => /\ answer.at <= now /\ answer.epoch <= epoch
                  /\ answer.expiresAt # never => answer.expiresAt > answer.at

IInv == Shape /\ ReadInTime /\ EntryInTime /\ AnswerInTime /\ StaleOnlyForAWhile

-----------------------------------------------------------------------------
(* The rules. *)

LEMMA EntryType ==
  ASSUME NEW e \in Entry
  PROVE  /\ e.stored /\ e.definitions \subseteq Definition /\ e.epoch \in 0..MaxChanges
         /\ e.context \in [status : Statuses, access : Access] /\ e.raced \in BOOLEAN
         /\ e.expires \in Nat
  BY DEF Entry

\* An answer is a Boolean, and rests on no definition that is over.
LEMMA AnswersInForce ==
  ASSUME NEW definitions \in SUBSET Definition, NEW context, NEW used \in Nat, NEW at \in Nat,
         NEW a \in Answers(definitions, context, used, 1, at)
  PROVE  /\ a.access \in BOOLEAN /\ a.expiresAt \in Nat \cup {never}
         /\ a.expiresAt # never => a.expiresAt > at
<1>1. CASE InForce(definitions, at) = {}
  <2>1. a = NotFound
    BY <1>1 DEF Answers
  <2> QED
    BY <2>1 DEF NotFound
<1>2. CASE InForce(definitions, at) # {}
  <2>1. PICK d \in MostSpecific(InForce(definitions, at)) :
          LET override == d.source = "CUSTOMER_OVERRIDE"
          IN a = [access |-> (Allowed(context) \/ override)
                               /\ Grants(d, Restricted(context) /\ ~override, used, 1),
                  source |-> d.source, expiresAt |-> d.expiresAt]
    BY <1>2 DEF Answers, Resolve
  <2>2. d \in definitions /\ (d.expiresAt = never \/ d.expiresAt > at)
    BY DEF MostSpecific, InForce
  <2>3. d.expiresAt \in Nat \cup {never} /\ d.type \in {"BOOLEAN", "LIMIT", "UNLIMITED", "USAGE"}
    BY <2>2 DEF Definition
  <2>4. \A restricted \in BOOLEAN : Grants(d, restricted, used, 1) \in BOOLEAN
    <3>1. CASE d.type = "BOOLEAN"
      BY <3>1 DEF Grants
    <3>2. CASE d.type = "UNLIMITED"
      BY <3>2 DEF Grants
    <3>3. CASE d.type = "LIMIT"
      BY <3>3 DEF Grants, WithinLimit
    <3>4. CASE d.type = "USAGE"
      BY <3>4 DEF Grants, WithinLimit
    <3> QED
      BY <2>3, <3>1, <3>2, <3>3, <3>4
  <2>5. a.access \in BOOLEAN /\ a.expiresAt = d.expiresAt
    BY <2>1, <2>4
  <2> QED
    BY <2>2, <2>3, <2>5
<1> QED
  BY <1>1, <1>2

LEMMA ReadType ==
  ASSUME Shape
  PROVE  Read \in Entry /\ Read.epoch = epoch /\ Rows(facts) \subseteq Definition
<1>1. /\ facts \in Facts /\ facts.status \in Statuses /\ facts.setting \in Settings
      /\ facts.frozen \in Access \cup {"unset"} /\ facts.plan \in PlanRules
      /\ facts.override \in Overrides \cup {None}
  BY DEF Shape, Facts
<1>2. {facts.plan} \subseteq Definition /\ Rows(facts) \subseteq Definition
  BY <1>1, EntitlementsAssumption DEF Rows
<1>3. AccessInForce(facts) \in Access
  BY <1>1, EntitlementsAssumption DEF AccessInForce, Access
<1>4. [status |-> facts.status, access |-> AccessInForce(facts)] \in [status : Statuses, access : Access]
  BY <1>1, <1>3
<1>5. epoch \in 0..MaxChanges
  BY DEF Shape
<1> QED
  BY <1>2, <1>4, <1>5 DEF Read, Entry

LEMMA InitInv == Init => IInv
<1> SUFFICES ASSUME Init PROVE IInv
  OBVIOUS
<1>1. now = 0 /\ epoch = 0 /\ dropped = 0 /\ faults = 0 /\ edit = FALSE
  BY DEF Init
<1>2. replaced \in [1..epoch -> 0..Horizon]
  BY <1>1 DEF Init
<1>3. facts \in Facts
  BY DEF Init, Facts
<1>4. /\ tx.stage = "idle" /\ entry = NoEntry /\ answer = NoAnswer
      /\ DOMAIN check = Checks /\ \A c \in Checks : check[c].stage = "idle"
  BY DEF Init
<1>5. Shape
  <2>1. 0 \in 0..Horizon /\ 0 \in 0..MaxChanges /\ 0 \in 0..MaxFaults /\ 0 \in 0..0
    BY EntitlementsAssumption
  <2> QED
    BY <1>1, <1>2, <1>3, <1>4, <2>1 DEF Shape
<1>6. ReadInTime /\ EntryInTime /\ AnswerInTime /\ StaleOnlyForAWhile
  BY <1>4 DEF ReadInTime, Holds, EntryInTime, AnswerInTime, StaleOnlyForAWhile, NoEntry, NoAnswer
<1> QED
  BY <1>5, <1>6 DEF IInv

-----------------------------------------------------------------------------
(* What an answer rests on changes. *)

LEMMA BecomesInv ==
  ASSUME IInv, NEW f \in Facts, Becomes(f), edit' \in BOOLEAN,
         tx'.stage = "idle" \/ tx' \in Writing,
         UNCHANGED <<now, entry, check, answer, dropped, faults>>
  PROVE  IInv'
<1>1. /\ epoch \in Nat /\ epoch < MaxChanges /\ epoch' = epoch + 1 /\ facts' = f
      /\ now \in 0..Horizon /\ now \in Nat /\ MaxChanges \in Nat
      /\ replaced \in [1..epoch -> 0..Horizon] /\ dropped \in 0..epoch
      /\ replaced' = [e \in 1..epoch + 1 |-> IF e <= epoch THEN replaced[e] ELSE now]
  BY EntitlementsAssumption DEF IInv, Shape, Becomes
<1>2. /\ replaced' \in [1..epoch' -> 0..Horizon] /\ replaced'[epoch + 1] = now
      /\ \A e \in 1..epoch : replaced'[e] = replaced[e]
  BY <1>1
<1>3. epoch' \in 0..MaxChanges /\ dropped' \in 0..epoch'
  BY <1>1
<1>4. Shape'
  BY <1>1, <1>2, <1>3 DEF IInv, Shape
<1>5. \A e \in Nat : e < epoch => replaced'[e + 1] = replaced[e + 1]
  BY <1>1, <1>2
<1>6. ReadInTime'
  <2> SUFFICES ASSUME NEW c \in Checks, Holds(c)
               PROVE  /\ check[c].since <= now /\ now <= check[c].since + 1
                      /\ check[c].copy.epoch <= epoch'
                      /\ check[c].copy.epoch < epoch' => check[c].since <= replaced'[check[c].copy.epoch + 1]
                      /\ check[c].copy.epoch < dropped => check[c].copy.raced
    BY DEF ReadInTime, Holds
  <2>1. check[c].copy.epoch \in Nat
    BY EntryType, EntitlementsAssumption DEF IInv, Shape, Loading, Holds
  <2>2. /\ check[c].since <= now /\ now <= check[c].since + 1
        /\ check[c].copy.epoch <= epoch
        /\ check[c].copy.epoch < epoch => check[c].since <= replaced[check[c].copy.epoch + 1]
        /\ check[c].copy.epoch < dropped => check[c].copy.raced
    BY DEF IInv, ReadInTime
  <2>3. CASE check[c].copy.epoch < epoch
    BY <1>1, <1>5, <2>1, <2>2, <2>3
  <2>4. CASE check[c].copy.epoch = epoch
    BY <1>1, <1>2, <2>1, <2>2, <2>4
  <2> QED
    BY <1>1, <2>1, <2>2, <2>3, <2>4
<1>7. EntryInTime'
  <2> SUFFICES ASSUME entry.stored
               PROVE  /\ entry.expires <= now + TTL /\ entry.epoch <= epoch'
                      /\ entry.epoch < epoch' => entry.expires <= replaced'[entry.epoch + 1] + TTL + 1
                      /\ entry.epoch < dropped => entry.raced
    BY DEF EntryInTime
  <2>1. entry.epoch \in Nat /\ entry.expires \in Nat /\ TTL \in Nat
    BY EntryType, EntitlementsAssumption DEF IInv, Shape, NoEntry
  <2>2. /\ entry.expires <= now + TTL /\ entry.epoch <= epoch
        /\ entry.epoch < epoch => entry.expires <= replaced[entry.epoch + 1] + TTL + 1
        /\ entry.epoch < dropped => entry.raced
    BY DEF IInv, EntryInTime
  <2>3. CASE entry.epoch < epoch
    BY <1>1, <1>5, <2>1, <2>2, <2>3
  <2>4. CASE entry.epoch = epoch
    BY <1>1, <1>2, <2>1, <2>2, <2>4
  <2> QED
    BY <1>1, <2>1, <2>2, <2>3, <2>4
<1>8. ASSUME answer.given PROVE answer \in Answered
  BY <1>8 DEF IInv, Shape, NoAnswer
<1>9. AnswerInTime'
  BY <1>1, <1>8 DEF IInv, AnswerInTime, Answered
<1>10. StaleOnlyForAWhile'
  <2> SUFFICES ASSUME answer.given, answer.epoch < epoch'
               PROVE  answer.at <= replaced'[answer.epoch + 1] + TTL + 1
    BY DEF StaleOnlyForAWhile
  <2>1. answer.epoch \in Nat /\ answer.at \in Nat /\ TTL \in Nat
    BY <1>8, EntitlementsAssumption DEF Answered
  <2>2. /\ answer.at <= now /\ answer.epoch <= epoch
        /\ answer.epoch < epoch => answer.at <= replaced[answer.epoch + 1] + TTL + 1
    BY DEF IInv, AnswerInTime, StaleOnlyForAWhile
  <2>3. CASE answer.epoch < epoch
    BY <1>5, <2>1, <2>2, <2>3
  <2>4. CASE answer.epoch = epoch
    BY <1>1, <1>2, <2>1, <2>2, <2>4
  <2> QED
    BY <1>1, <2>1, <2>2, <2>3, <2>4
<1> QED
  BY <1>4, <1>6, <1>7, <1>9, <1>10 DEF IInv

LEMMA FactsChange ==
  ASSUME IInv
  PROVE  /\ \A s \in Statuses : [facts EXCEPT !.status = s, !.frozen = Snapshot(s)] \in Facts
         /\ \A d \in Overrides \cup {None} : [facts EXCEPT !.override = d] \in Facts
         /\ \A d \in PlanRules : [facts EXCEPT !.plan = d] \in Facts
         /\ \A a \in Settings : [facts EXCEPT !.setting = a] \in Facts
<1>1. facts \in Facts
  BY DEF IInv, Shape
<1>2. \A s \in Statuses : Snapshot(s) \in Access \cup {"unset"}
  BY <1>1, EntitlementsAssumption DEF Snapshot, Facts, Access
<1>3. \A s \in Statuses, z \in Access \cup {"unset"} : [facts EXCEPT !.status = s, !.frozen = z] \in Facts
  BY <1>1 DEF Facts
<1>4. /\ \A d \in Overrides \cup {None} : [facts EXCEPT !.override = d] \in Facts
      /\ \A d \in PlanRules : [facts EXCEPT !.plan = d] \in Facts
      /\ \A a \in Settings : [facts EXCEPT !.setting = a] \in Facts
  BY <1>1 DEF Facts
<1> QED
  BY <1>2, <1>3, <1>4

LEMMA ChangeInv ==
  ASSUME IInv, CommitStatus \/ Edit \/ ChangePlan PROVE IInv'
<1>1. CASE CommitStatus
  <2>1. tx.to \in Statuses
    BY <1>1 DEF CommitStatus, IInv, Shape, Writing
  <2>2. [facts EXCEPT !.status = tx.to, !.frozen = Snapshot(tx.to)] \in Facts
    BY <2>1, FactsChange
  <2>3. edit' \in BOOLEAN /\ tx'.stage = "idle"
    BY <1>1 DEF CommitStatus, IInv, Shape
  <2> QED
    BY <1>1, <2>2, <2>3, BecomesInv DEF CommitStatus
<1>2. CASE Edit
  <2>1. PICK f \in Facts : Becomes(f)
    BY <1>2, FactsChange DEF Edit
  <2>2. /\ edit' \in BOOLEAN /\ tx' = tx
        /\ UNCHANGED <<now, entry, check, answer, dropped, faults>>
    BY <1>2 DEF Edit
  <2> QED
    BY <2>1, <2>2, BecomesInv DEF IInv, Shape
<1>3. CASE ChangePlan
  <2>1. PICK f \in Facts : Becomes(f)
    BY <1>3, FactsChange DEF ChangePlan
  <2>2. /\ edit' \in BOOLEAN /\ tx' = tx
        /\ UNCHANGED <<now, entry, check, answer, dropped, faults>>
    BY <1>3 DEF ChangePlan, IInv, Shape
  <2> QED
    BY <2>1, <2>2, BecomesInv DEF IInv, Shape
<1> QED
  BY <1>1, <1>2, <1>3

-----------------------------------------------------------------------------
(* The copy is dropped, or is not. *)

\* Nothing is read, nothing answered; the entry stays or goes.
LEMMA FrameInv ==
  ASSUME IInv, UNCHANGED <<now, facts, epoch, replaced, check, answer, dropped>>,
         entry' = entry \/ entry' = NoEntry, faults' \in 0..MaxFaults, edit' \in BOOLEAN,
         tx'.stage = "idle" \/ tx' \in Writing
  PROVE  IInv'
<1>1. Shape'
  BY DEF IInv, Shape
<1>2. ReadInTime' /\ AnswerInTime' /\ StaleOnlyForAWhile'
  BY DEF IInv, ReadInTime, Holds, AnswerInTime, StaleOnlyForAWhile
<1>3. EntryInTime'
  BY DEF IInv, EntryInTime, NoEntry
<1> QED
  BY <1>1, <1>2, <1>3 DEF IInv

LEMMA TransactionInv ==
  ASSUME IInv, WriteStatus \/ Announce \/ RollBack \/ DropLost PROVE IInv'
<1>0. faults \in 0..MaxFaults /\ edit \in BOOLEAN
  BY DEF IInv, Shape
<1>1. CASE WriteStatus
  <2>1. tx' \in Writing
    BY <1>1 DEF WriteStatus, Writing
  <2> QED
    BY <1>0, <1>1, <2>1, FrameInv DEF WriteStatus
<1>2. CASE Announce
  <2>1. tx' = [tx EXCEPT !.stage = "announced"] /\ tx \in Writing
    BY <1>2 DEF Announce, IInv, Shape
  <2>2. \A x \in Writing : [x EXCEPT !.stage = "announced"] \in Writing
    BY DEF Writing
  <2>3. tx' \in Writing
    BY <2>1, <2>2
  <2>4. faults' \in 0..MaxFaults /\ (entry' = entry \/ entry' = NoEntry)
    BY <1>0, <1>2, EntitlementsAssumption DEF Announce
  <2> QED
    BY <1>0, <1>2, <2>3, <2>4, FrameInv DEF Announce
<1>3. CASE RollBack
  <2>1. tx'.stage = "idle"
    BY <1>3 DEF RollBack
  <2> QED
    BY <1>0, <1>3, <2>1, FrameInv DEF RollBack
<1>4. CASE DropLost
  <2>1. edit' \in BOOLEAN /\ tx' = tx
    BY <1>4 DEF DropLost
  <2>2. faults' \in 0..MaxFaults
    BY <1>0, <1>4, EntitlementsAssumption DEF DropLost
  <2> QED
    BY <1>4, <2>1, <2>2, FrameInv DEF DropLost, IInv, Shape
<1> QED
  BY <1>1, <1>2, <1>3, <1>4

LEMMA DropCopyInv ==
  ASSUME IInv, DropCopy PROVE IInv'
<1>1. /\ entry' = NoEntry /\ edit' = FALSE /\ dropped' = epoch /\ DOMAIN check' = Checks
      /\ UNCHANGED <<now, facts, epoch, replaced, tx, answer, faults>>
  BY DEF DropCopy, Dropped
<1>2. \A e \in Entry : /\ [e EXCEPT !.raced = TRUE] \in Entry
                       /\ [e EXCEPT !.raced = TRUE].epoch = e.epoch
                       /\ [e EXCEPT !.raced = TRUE].raced
  BY DEF Entry
<1>3. \A l \in Loading :
        LET n == [l EXCEPT !.copy.raced = TRUE]
        IN /\ n \in Loading /\ n.stage = l.stage /\ n.copy.epoch = l.copy.epoch
           /\ n.copy.raced /\ n.since = l.since
  <2> SUFFICES ASSUME NEW l \in Loading, NEW m \in Entry, m = [l.copy EXCEPT !.raced = TRUE]
               PROVE  LET n == [l EXCEPT !.copy = m]
                      IN /\ n \in Loading /\ n.stage = l.stage /\ n.copy = m
                         /\ n.since = l.since
    BY <1>2 DEF Loading
  <2> QED
    BY DEF Loading
<1>4. \A c \in Checks :
        /\ check'[c].stage = check[c].stage
        /\ check[c].stage \notin {"idle", "missed"} => check'[c] \in Loading
        /\ Holds(c) =>
             /\ check'[c].copy.epoch = check[c].copy.epoch
             /\ check'[c].copy.raced /\ check'[c].since = check[c].since
  <2> SUFFICES ASSUME NEW c \in Checks
               PROVE  /\ check'[c].stage = check[c].stage
                      /\ check[c].stage \notin {"idle", "missed"} => check'[c] \in Loading
                      /\ Holds(c) =>
                           /\ check'[c].copy.epoch = check[c].copy.epoch
                           /\ check'[c].copy.raced /\ check'[c].since = check[c].since
    OBVIOUS
  <2>1. CASE check[c].stage \in {"idle", "missed"}
    BY <2>1 DEF DropCopy, Holds
  <2>2. CASE check[c] \in Loading
    <3>1. check'[c] = [check[c] EXCEPT !.copy.raced = TRUE] /\ Holds(c)
      BY <2>2 DEF DropCopy, Loading, Holds
    <3> QED
      BY <1>3, <2>2, <3>1
  <2> QED
    BY <2>1, <2>2 DEF IInv, Shape
<1>5. Shape'
  <2>1. epoch \in 0..epoch
    BY EntitlementsAssumption DEF IInv, Shape
  <2> QED
    BY <1>1, <1>4, <2>1 DEF IInv, Shape
<1>6. ReadInTime'
  BY <1>1, <1>4 DEF IInv, ReadInTime, Holds
<1>7. EntryInTime' /\ AnswerInTime' /\ StaleOnlyForAWhile'
  BY <1>1 DEF IInv, EntryInTime, AnswerInTime, StaleOnlyForAWhile, NoEntry
<1> QED
  BY <1>5, <1>6, <1>7 DEF IInv

-----------------------------------------------------------------------------
(* checkEntitlement *)

\* What is answered from a copy is dated now.
LEMMA AnswerType ==
  ASSUME IInv, NEW copy \in Entry, Answer(copy)
  PROVE  /\ answer' \in Answered /\ answer'.given /\ answer'.at = now
         /\ answer'.epoch = copy.epoch
         /\ answer'.expiresAt # never => answer'.expiresAt > now
<1>1. now \in Nat /\ Used \subseteq Nat /\ copy.definitions \in SUBSET Definition /\ copy.epoch \in Nat
  BY EntryType, EntitlementsAssumption DEF IInv, Shape
<1>2. PICK used \in Used : \E a \in Answers(copy.definitions, copy.context, used, 1, now) :
        answer' = [given |-> TRUE, access |-> a.access, expiresAt |-> a.expiresAt, at |-> now,
                   epoch |-> copy.epoch]
  BY DEF Answer
<1>3. PICK a \in Answers(copy.definitions, copy.context, used, 1, now) :
        answer' = [given |-> TRUE, access |-> a.access, expiresAt |-> a.expiresAt, at |-> now,
                   epoch |-> copy.epoch]
  BY <1>2
<1>4. /\ a.access \in BOOLEAN /\ a.expiresAt \in Nat \cup {never}
      /\ a.expiresAt # never => a.expiresAt > now
  BY <1>1, <1>2, AnswersInForce
<1> QED
  BY <1>1, <1>3, <1>4 DEF Answered

LEMMA HitInv ==
  ASSUME IInv, NEW c \in Checks, Hit(c) PROVE IInv'
<1>1. entry \in Entry /\ entry.stored /\ now < entry.expires /\ Answer(entry)
      /\ UNCHANGED <<now, facts, epoch, replaced, tx, edit, entry, check, dropped, faults>>
  BY DEF Hit, Fresh, IInv, Shape, NoEntry
<1>2. /\ answer' \in Answered /\ answer'.at = now /\ answer'.epoch = entry.epoch
      /\ answer'.expiresAt # never => answer'.expiresAt > now
  BY <1>1, AnswerType
<1>3. now \in Nat /\ entry.epoch \in Nat /\ epoch \in Nat /\ TTL \in Nat /\ entry.expires \in Nat
      /\ replaced \in [1..epoch -> 0..Horizon]
  BY <1>1, EntryType, EntitlementsAssumption DEF IInv, Shape
<1>4. /\ entry.epoch <= epoch
      /\ entry.epoch < epoch => entry.expires <= replaced[entry.epoch + 1] + TTL + 1
  BY <1>1 DEF IInv, EntryInTime
<1>5. Shape' /\ ReadInTime' /\ EntryInTime'
  BY <1>1, <1>2 DEF IInv, Shape, ReadInTime, Holds, EntryInTime
<1>6. AnswerInTime'
  BY <1>1, <1>2, <1>3, <1>4 DEF AnswerInTime
<1>7. StaleOnlyForAWhile'
  <2>1. entry.epoch < epoch => replaced[entry.epoch + 1] \in Nat
    BY <1>3
  <2> QED
    BY <1>1, <1>2, <1>3, <1>4, <2>1 DEF StaleOnlyForAWhile
<1> QED
  BY <1>5, <1>6, <1>7 DEF IInv

LEMMA MissInv ==
  ASSUME IInv, NEW c \in Checks, Miss(c) PROVE IInv'
<1>1. /\ check' = [check EXCEPT ![c] = [stage |-> "missed"]] /\ faults' \in 0..MaxFaults
      /\ UNCHANGED <<now, facts, epoch, replaced, tx, edit, entry, answer, dropped>>
  BY EntitlementsAssumption DEF Miss, IInv, Shape
<1>2. /\ DOMAIN check' = Checks /\ check'[c].stage = "missed"
      /\ \A d \in Checks \ {c} : check'[d] = check[d]
  BY <1>1 DEF IInv, Shape
<1>3. Shape'
  BY <1>1, <1>2 DEF IInv, Shape
<1>4. ReadInTime'
  BY <1>1, <1>2 DEF IInv, ReadInTime, Holds
<1>5. EntryInTime' /\ AnswerInTime' /\ StaleOnlyForAWhile'
  BY <1>1 DEF IInv, EntryInTime, AnswerInTime, StaleOnlyForAWhile
<1> QED
  BY <1>3, <1>4, <1>5 DEF IInv

\* A check goes on to hold what was true when it began to read.
LEMMA HoldInv ==
  ASSUME IInv, NEW c \in Checks, NEW held \in Loading, check' = [check EXCEPT ![c] = held],
         UNCHANGED <<now, facts, epoch, replaced, tx, edit, entry, answer, dropped, faults>>,
         held.since <= now /\ now <= held.since + 1 /\ held.copy.epoch <= epoch,
         held.copy.epoch < epoch => held.since <= replaced[held.copy.epoch + 1],
         held.copy.epoch < dropped => held.copy.raced
  PROVE  IInv'
<1>1. /\ DOMAIN check' = Checks /\ check'[c] = held
      /\ \A d \in Checks \ {c} : check'[d] = check[d]
  BY DEF IInv, Shape
<1>2. Shape'
  BY <1>1 DEF IInv, Shape
<1>3. ReadInTime'
  <2> SUFFICES ASSUME NEW d \in Checks, Holds(d)'
               PROVE  /\ check'[d].since <= now /\ now <= check'[d].since + 1
                      /\ check'[d].copy.epoch <= epoch
                      /\ check'[d].copy.epoch < epoch => check'[d].since <= replaced[check'[d].copy.epoch + 1]
                      /\ check'[d].copy.epoch < dropped => check'[d].copy.raced
    BY DEF ReadInTime
  <2>1. CASE d = c
    BY <1>1, <2>1
  <2>2. CASE d # c
    BY <1>1, <2>2 DEF IInv, ReadInTime, Holds
  <2> QED
    BY <2>1, <2>2
<1>4. EntryInTime' /\ AnswerInTime' /\ StaleOnlyForAWhile'
  BY DEF IInv, EntryInTime, AnswerInTime, StaleOnlyForAWhile
<1> QED
  BY <1>2, <1>3, <1>4 DEF IInv

LEMMA LoadContextInv ==
  ASSUME IInv, NEW c \in Checks, LoadContext(c) PROVE IInv'
<1>0. Read \in Entry /\ Read.epoch = epoch
  BY ReadType DEF IInv
<1> DEFINE held == [stage |-> "reading", copy |-> Read, since |-> now]
<1>1. /\ check' = [check EXCEPT ![c] = held]
      /\ UNCHANGED <<now, facts, epoch, replaced, tx, edit, entry, answer, dropped, faults>>
  BY DEF LoadContext
<1>2. now \in 0..Horizon /\ now \in Nat /\ epoch \in Nat /\ dropped \in 0..epoch
  BY EntitlementsAssumption DEF IInv, Shape
<1>3. held \in Loading /\ held.since = now /\ held.copy.epoch = epoch
  BY <1>0, <1>2 DEF Loading
<1> HIDE DEF held
<1>4. /\ held \in Loading /\ held.since <= now /\ now <= held.since + 1 /\ held.copy.epoch <= epoch
      /\ held.copy.epoch < epoch => held.since <= replaced[held.copy.epoch + 1]
      /\ held.copy.epoch < dropped => held.copy.raced
  BY <1>2, <1>3
<1> QED
  BY <1>1, <1>4, HoldInv

LEMMA LoadRowsInv ==
  ASSUME IInv, NEW c \in Checks, LoadRows(c) PROVE IInv'
<1>1. check[c] \in Loading /\ Holds(c) /\ Rows(facts) \subseteq Definition
  BY ReadType DEF LoadRows, IInv, Shape, Loading, Holds
<1>2. PICK l \in Loading : l = check[c]
  BY <1>1
<1> DEFINE copy == [l.copy EXCEPT !.definitions = @ \cup Rows(facts)]
           held == [l EXCEPT !.stage = "loaded", !.copy = copy]
<1>3. /\ check' = [check EXCEPT ![c] = held]
      /\ UNCHANGED <<now, facts, epoch, replaced, tx, edit, entry, answer, dropped, faults>>
  BY <1>2 DEF LoadRows
<1>4. copy \in Entry /\ copy.epoch = l.copy.epoch /\ copy.raced = l.copy.raced
  <2>1. \A e \in Entry, rows \in SUBSET Definition :
          /\ [e EXCEPT !.definitions = @ \cup rows] \in Entry
          /\ [e EXCEPT !.definitions = @ \cup rows].epoch = e.epoch
          /\ [e EXCEPT !.definitions = @ \cup rows].raced = e.raced
    BY DEF Entry
  <2> QED
    BY <1>1, <2>1 DEF Loading
<1> HIDE DEF copy
<1>5. held \in Loading /\ held.since = l.since /\ held.copy = copy
  BY <1>4 DEF Loading
<1>6. /\ l.since <= now /\ now <= l.since + 1 /\ l.copy.epoch <= epoch
      /\ l.copy.epoch < epoch => l.since <= replaced[l.copy.epoch + 1]
      /\ l.copy.epoch < dropped => l.copy.raced
  BY <1>1, <1>2 DEF IInv, ReadInTime
<1> HIDE DEF held
<1> QED
  BY <1>3, <1>4, <1>5, <1>6, HoldInv

LEMMA StoreInv ==
  ASSUME IInv, NEW c \in Checks, Store(c) PROVE IInv'
<1> DEFINE copy == check[c].copy
<1>1. /\ check[c].stage = "loaded" /\ copy \in Entry /\ check[c].since \in Nat
      /\ Answer(copy) /\ check' = [check EXCEPT ![c] = [stage |-> "idle"]]
      /\ faults' \in 0..MaxFaults
      /\ UNCHANGED <<now, facts, epoch, replaced, tx, edit, dropped>>
      /\ entry' = entry \/ entry' = [copy EXCEPT !.expires = now + TTL]
  BY EntitlementsAssumption DEF Store, IInv, Shape, Loading
<1>2. /\ check[c].since <= now /\ now <= check[c].since + 1 /\ copy.epoch <= epoch
      /\ copy.epoch < epoch => check[c].since <= replaced[copy.epoch + 1]
      /\ copy.epoch < dropped => copy.raced
  BY <1>1 DEF IInv, ReadInTime, Holds
<1>3. PICK e \in Entry : e = copy
  BY <1>1
<1> HIDE DEF copy
<1>4. /\ answer' \in Answered /\ answer'.at = now /\ answer'.epoch = e.epoch
      /\ answer'.expiresAt # never => answer'.expiresAt > now
  BY <1>1, <1>3, AnswerType
<1>5. /\ now \in Nat /\ e.epoch \in Nat /\ epoch \in Nat /\ TTL \in Nat
      /\ replaced \in [1..epoch -> 0..Horizon]
      /\ e.epoch < epoch => replaced[e.epoch + 1] \in Nat
  BY EntryType, EntitlementsAssumption DEF IInv, Shape
<1>6. LET n == [e EXCEPT !.expires = now + TTL]
      IN n \in Entry /\ n.expires = now + TTL /\ n.epoch = e.epoch /\ n.raced = e.raced
  <2>1. now + TTL \in Nat
    BY <1>5
  <2> QED
    BY <2>1 DEF Entry
<1>7. /\ DOMAIN check' = Checks /\ check'[c].stage = "idle"
      /\ \A d \in Checks \ {c} : check'[d] = check[d]
  BY <1>1 DEF IInv, Shape
<1>8. Shape'
  BY <1>1, <1>3, <1>4, <1>6, <1>7 DEF IInv, Shape
<1>9. ReadInTime'
  BY <1>1, <1>7 DEF IInv, ReadInTime, Holds
<1>10. EntryInTime'
  <2>1. CASE entry' = entry
    BY <1>1, <2>1 DEF IInv, EntryInTime
  <2>2. CASE entry' = [e EXCEPT !.expires = now + TTL]
    BY <1>1, <1>2, <1>3, <1>5, <1>6, <2>2 DEF EntryInTime
  <2> QED
    BY <1>1, <1>3, <2>1, <2>2
<1>11. AnswerInTime' /\ StaleOnlyForAWhile'
  BY <1>1, <1>2, <1>3, <1>4, <1>5 DEF AnswerInTime, StaleOnlyForAWhile
<1> QED
  BY <1>8, <1>9, <1>10, <1>11 DEF IInv

LEMMA TickInv ==
  ASSUME IInv, Tick PROVE IInv'
<1>1. /\ now < Horizon /\ now' = now + 1 /\ now \in Nat /\ Horizon \in Nat /\ TTL \in Nat
      /\ \A c \in Checks : Holds(c) => check[c].since = now
      /\ UNCHANGED <<facts, epoch, replaced, tx, edit, entry, check, answer, dropped, faults>>
  BY EntitlementsAssumption DEF Tick, IInv, Shape
<1>2. Shape'
  BY <1>1 DEF IInv, Shape
<1>3. ReadInTime'
  BY <1>1 DEF IInv, ReadInTime, Holds
<1>4. EntryInTime'
  <2>1. entry.stored => entry.expires \in Nat
    BY EntryType DEF IInv, Shape, NoEntry
  <2> QED
    BY <1>1, <2>1 DEF IInv, EntryInTime
<1>5. AnswerInTime' /\ StaleOnlyForAWhile'
  <2>1. answer.given => answer.at \in Nat
    <3>1. ~NoAnswer.given
      BY DEF NoAnswer
    <3> QED
      BY <3>1 DEF IInv, Shape, Answered
  <2> QED
    BY <1>1, <2>1 DEF IInv, AnswerInTime, StaleOnlyForAWhile
<1> QED
  BY <1>2, <1>3, <1>4, <1>5 DEF IInv

LEMMA StepInv == IInv /\ [Next]_vars => IInv'
<1> SUFFICES ASSUME IInv, [Next]_vars PROVE IInv'
  OBVIOUS
<1>1. CASE UNCHANGED vars
  BY <1>1, FrameInv DEF vars, IInv, Shape
<1> QED
  BY <1>1, TransactionInv, ChangeInv, DropCopyInv, HitInv, MissInv, LoadContextInv, LoadRowsInv, StoreInv, TickInv
  DEF Next

LEMMA Invariance == Spec => []IInv
<1> QED
  BY InitInv, StepInv, PTL DEF Spec

-----------------------------------------------------------------------------

\* Every reachable state has its types.
THEOREM TypeCorrect == Spec => []TypeOK
<1>1. IInv => TypeOK
  <2> SUFFICES ASSUME IInv PROVE TypeOK
    OBVIOUS
  <2>1. answer.given => answer.epoch \in 0..epoch /\ answer.access \in BOOLEAN
    <3>1. ~NoAnswer.given
      BY DEF NoAnswer
    <3>2. epoch \in Nat
      BY EntitlementsAssumption DEF IInv, Shape
    <3>3. answer.given => answer \in Answered
      BY <3>1 DEF IInv, Shape
    <3>4. answer \in Answered => answer.epoch \in Nat /\ answer.access \in BOOLEAN
      BY DEF Answered
    <3>5. answer.given => answer.epoch <= epoch
      BY DEF IInv, AnswerInTime
    <3>6. answer.given => answer.epoch \in 0..epoch
      BY <3>2, <3>3, <3>4, <3>5
    <3> QED
      BY <3>3, <3>4, <3>6
  <2>2. tx.stage \in {"idle", "written", "announced"}
    BY DEF IInv, Shape, Writing
  <2>3. \A c \in Checks : /\ check[c].stage \in {"idle", "missed", "reading", "loaded"}
                          /\ check[c].stage \in {"reading", "loaded"} => check[c].copy \in Entry
    BY DEF IInv, Shape, Loading
  <2> QED
    BY <2>1, <2>2, <2>3 DEF IInv, Shape, TypeOK
<1> QED
  BY <1>1, Invariance, PTL

\* However many checks, changes and failures there are: an answer is out of date by no
\* more than the lifetime of an entry and of the request that stored it.
THEOREM StalenessIsBounded == Spec => []StaleOnlyForAWhile
<1>1. IInv => StaleOnlyForAWhile
  BY DEF IInv
<1> QED
  BY <1>1, Invariance, PTL

\* What an edit has dropped stays dropped, but for a check that was under way.
THEOREM EditsHold == Spec => []EditsTakeEffect
<1>1. IInv => EditsTakeEffect
  BY DEF IInv, EntryInTime, EditsTakeEffect, Fresh
<1> QED
  BY <1>1, Invariance, PTL

\* No answer rests on an override that is over.
THEOREM OverridesEnd == Spec => []ExpiredIsNotHonoured
<1>1. IInv => ExpiredIsNotHonoured
  BY DEF IInv, AnswerInTime, ExpiredIsNotHonoured
<1> QED
  BY <1>1, Invariance, PTL
-----------------------------------------------------------------------------
(* What resolveEntitlement answers, for any definitions and consumption.   *)

\* What one definition answers.
AnswerOf(d, context, used, requested) ==
  LET override == d.source = "CUSTOMER_OVERRIDE"
  IN [access |-> (Allowed(context) \/ override)
                   /\ Grants(d, Restricted(context) /\ ~override, used, requested),
      source |-> d.source, expiresAt |-> d.expiresAt]

LEMMA AnswersAreOfTheWinners ==
  ASSUME NEW definitions, NEW context, NEW used, NEW requested, NEW t,
         InForce(definitions, t) # {}
  PROVE  Answers(definitions, context, used, requested, t)
           = {AnswerOf(d, context, used, requested) : d \in MostSpecific(InForce(definitions, t))}
  BY DEF Answers, Resolve, AnswerOf

\* Sources have a rank, and every set of definitions a highest-ranked one.
LEMMA SourcesAreRanked ==
  ASSUME NEW definitions \in SUBSET Definition, definitions # {}
  PROVE  MostSpecific(definitions) # {}
<1> DEFINE Rank(d) == Specificity[d.source]
           Has(n) == \E d \in definitions : Rank(d) = n
<1>1. \A d \in definitions : Rank(d) \in 1..4
  BY DEF Definition, Source, Specificity
<1>2. ASSUME NEW n \in 1..4, Has(n), \A d \in definitions : Rank(d) <= n
      PROVE  MostSpecific(definitions) # {}
  BY <1>2 DEF MostSpecific
<1>3. Has(1) \/ Has(2) \/ Has(3) \/ Has(4)
  <2>1. PICK d \in definitions : TRUE
    OBVIOUS
  <2>2. Rank(d) = 1 \/ Rank(d) = 2 \/ Rank(d) = 3 \/ Rank(d) = 4
    <3> HIDE DEF Rank
    <3> QED BY <1>1
  <2> QED BY <2>2
<1> HIDE DEF Rank
<1>4. CASE Has(4)
  BY <1>1, <1>2, <1>4
<1>5. CASE Has(3) /\ ~Has(4)
  <2>1. \A d \in definitions : Rank(d) <= 3
    BY <1>1, <1>5
  <2> QED BY <1>2, <1>5, <2>1
<1>6. CASE Has(2) /\ ~Has(3) /\ ~Has(4)
  <2>1. \A d \in definitions : Rank(d) <= 2
    BY <1>1, <1>6
  <2> QED BY <1>2, <1>6, <2>1
<1>7. CASE Has(1) /\ ~Has(2) /\ ~Has(3) /\ ~Has(4)
  <2>1. \A d \in definitions : Rank(d) <= 1
    BY <1>1, <1>7
  <2> QED BY <1>2, <1>7, <2>1
<1> QED BY <1>3, <1>4, <1>5, <1>6, <1>7

\* No two sources have the same rank.
LEMMA RanksDiffer ==
  \A s, t \in Source : Specificity[s] = Specificity[t] => s = t
  BY DEF Source, Specificity

\* With a definition per source at most there is one answer, in whatever order the
\* query returns the rows; a second row of one source is what can make it depend on
\* that order (pickMostSpecific).
THEOREM OneAnswer ==
  ASSUME NEW definitions \in SUBSET Definition,
         \A d, e \in definitions : d.source = e.source => d = e,
         NEW context, NEW used, NEW requested, NEW t \in Nat
  PROVE  \E a : Answers(definitions, context, used, requested, t) = {a}
<1> DEFINE live == InForce(definitions, t)
<1>1. CASE live = {}
  BY <1>1 DEF Answers
<1>2. CASE live # {}
  <2>1. live \subseteq definitions /\ live \in SUBSET Definition
    BY DEF InForce
  <2>2. PICK d \in MostSpecific(live) : TRUE
    BY <1>2, <2>1, SourcesAreRanked
  <2>3. ASSUME NEW e \in MostSpecific(live) PROVE e = d
    <3>1. d \in live /\ e \in live
      BY <2>2 DEF MostSpecific
    <3>2. d.source \in Source /\ e.source \in Source
      BY <2>1, <3>1 DEF Definition
    <3>3. Specificity[d.source] <= Specificity[e.source] /\ Specificity[e.source] <= Specificity[d.source]
      BY <2>2, <2>3, <3>1 DEF MostSpecific
    <3>4. Specificity[d.source] = Specificity[e.source]
      BY <3>2, <3>3 DEF Source, Specificity
    <3> QED BY <2>1, <3>1, <3>2, <3>4, RanksDiffer
  <2>4. MostSpecific(live) = {d}
    BY <2>2, <2>3
  <2>5. Answers(definitions, context, used, requested, t)
          = {AnswerOf(e, context, used, requested) : e \in MostSpecific(live)}
    BY <1>2, AnswersAreOfTheWinners
  <2>6. {AnswerOf(e, context, used, requested) : e \in {d}} = {AnswerOf(d, context, used, requested)}
    OBVIOUS
  <2> QED BY <2>4, <2>5, <2>6
<1> QED BY <1>1, <1>2

\* While a customer's override is in force neither the plan's definitions nor the
\* subscription's standing matter: overrides alone are answered from, whatever the
\* status and the settings (resolveEntitlement).
THEOREM OverridesOutrankStanding ==
  ASSUME NEW definitions \in SUBSET Definition, NEW t \in Nat,
         NEW o \in InForce(definitions, t), o.source = "CUSTOMER_OVERRIDE",
         NEW context, NEW other, NEW used, NEW requested
  PROVE  LET overrides == {d \in definitions : d.source = "CUSTOMER_OVERRIDE"}
         IN Answers(definitions, context, used, requested, t)
              = Answers(overrides, other, used, requested, t)
<1> DEFINE overrides == {d \in definitions : d.source = "CUSTOMER_OVERRIDE"}
           winners == {d \in InForce(definitions, t) : d.source = "CUSTOMER_OVERRIDE"}
<1>1. o \in InForce(overrides, t) /\ InForce(overrides, t) = winners
  BY DEF InForce
<1>2. \A d \in InForce(definitions, t) : d.source \in Source
  BY DEF InForce, Definition
<1>3. Specificity["CUSTOMER_OVERRIDE"] = 4
      /\ \A s \in Source : Specificity[s] <= 4 /\ (4 <= Specificity[s] => s = "CUSTOMER_OVERRIDE")
  BY DEF Source, Specificity
<1>4. MostSpecific(InForce(definitions, t)) = winners
  <2>1. ASSUME NEW d \in MostSpecific(InForce(definitions, t)) PROVE d \in winners
    BY <1>2, <1>3 DEF MostSpecific
  <2>2. ASSUME NEW d \in winners PROVE d \in MostSpecific(InForce(definitions, t))
    BY <1>2, <1>3 DEF MostSpecific
  <2> QED BY <2>1, <2>2
<1>5. MostSpecific(winners) = winners
  BY <1>3 DEF MostSpecific
<1>6. \A d \in winners : d.source = "CUSTOMER_OVERRIDE"
  OBVIOUS
<1>7. Resolve(definitions, context, used, requested, t) = Resolve(overrides, other, used, requested, t)
  <2> HIDE DEF overrides, winners
  <2>1. MostSpecific(InForce(definitions, t)) = winners /\ MostSpecific(InForce(overrides, t)) = winners
    BY <1>1, <1>4, <1>5
  <2> QED BY <1>6, <2>1 DEF Resolve
<1> QED BY <1>1, <1>7 DEF Answers

\* One standing admits at least what another does.
Better(c, d) ==
  /\ Allowed(d) => Allowed(c)
  /\ Allowed(d) /\ Restricted(c) => Restricted(d)

\* A standing that admits less, a larger consumption and a larger request never open
\* what was closed: whoever has access in the worse case has it in the better one
\* (evaluateSubscriptionAccess, resolveEntitlement).
THEOREM AccessIsMonotone ==
  ASSUME NEW definitions \in SUBSET Definition, NEW t \in Nat,
         NEW better, NEW worse, Better(better, worse),
         NEW used \in Nat, NEW more \in Nat, used <= more,
         NEW requested \in Nat, NEW larger \in Nat, requested <= larger,
         \E a \in Answers(definitions, worse, more, larger, t) : a.access
  PROVE  \E a \in Answers(definitions, better, used, requested, t) : a.access
<1> DEFINE Override(d) == d.source = "CUSTOMER_OVERRIDE"
           Admits(c, d, u, r) == (Allowed(c) \/ Override(d)) /\ Grants(d, Restricted(c) /\ ~Override(d), u, r)
<1>1. InForce(definitions, t) # {}
  BY DEF Answers, NotFound
<1> HIDE DEF Admits
<1>8. ASSUME NEW c, NEW d, NEW u, NEW r
      PROVE  AnswerOf(d, c, u, r).access = Admits(c, d, u, r)
  BY DEF AnswerOf, Admits
<1>2. PICK d \in MostSpecific(InForce(definitions, t)) : Admits(worse, d, more, larger)
  <2>1. PICK a \in Answers(definitions, worse, more, larger, t) : a.access
    OBVIOUS
  <2>2. PICK d \in MostSpecific(InForce(definitions, t)) : a = AnswerOf(d, worse, more, larger)
    BY <1>1, AnswersAreOfTheWinners
  <2> QED BY <1>8, <2>1, <2>2
<1> USE DEF Admits
<1>3. d \in Definition
  BY <1>2 DEF MostSpecific, InForce
<1>4. d.limit \in Int /\ d.type \in {"BOOLEAN", "LIMIT", "UNLIMITED", "USAGE"}
  BY <1>3 DEF Definition
<1>5. \A limit \in Int : WithinLimit(limit, more, larger) => WithinLimit(limit, used, requested)
  BY DEF WithinLimit
<1>6. ~Override(d) /\ Restricted(better) => Restricted(worse)
  BY <1>2 DEF Better
<1>7. Admits(better, d, used, requested)
  <2>1. Allowed(better) \/ Override(d)
    BY <1>2 DEF Better
  <2>2. ASSUME NEW r1 \in BOOLEAN, NEW r2 \in BOOLEAN, r1 => r2, Grants(d, r2, more, larger)
        PROVE  Grants(d, r1, used, requested)
    <3>1. d.type = "LIMIT" => (IF d.limit = -1 THEN 0 ELSE d.limit) \in Int
      BY <1>4
    <3>2. CASE d.type = "LIMIT"
      BY <1>5, <2>2, <3>1, <3>2 DEF Grants
    <3>3. CASE d.type = "USAGE"
      BY <1>4, <1>5, <2>2, <3>3 DEF Grants
    <3>4. CASE d.type \in {"BOOLEAN", "UNLIMITED"}
      BY <2>2, <3>4 DEF Grants
    <3> QED BY <1>4, <3>2, <3>3, <3>4
  <2>3. Grants(d, Restricted(better) /\ ~Override(d), used, requested)
    <3>1. (Restricted(better) /\ ~Override(d)) \in BOOLEAN /\ (Restricted(worse) /\ ~Override(d)) \in BOOLEAN
      OBVIOUS
    <3> HIDE DEF Override
    <3> QED BY <1>2, <1>6, <2>2, <3>1
  <2> QED BY <2>1, <2>3
<1> HIDE DEF Admits
<1>9. AnswerOf(d, better, used, requested) \in Answers(definitions, better, used, requested, t)
  BY <1>1, AnswersAreOfTheWinners
<1> QED BY <1>7, <1>8, <1>9

\* A subscription that is paid for answers at least what it would in any other
\* standing, whatever the setting for grace periods: falling behind opens nothing.
THEOREM FallingBehindOpensNothing ==
  ASSUME NEW definitions \in SUBSET Definition, NEW t \in Nat, NEW used \in Nat,
         NEW requested \in Nat, NEW paid, NEW behind,
         paid.status \in {"ACTIVE", "TRIALING"},
         \E a \in Answers(definitions, behind, used, requested, t) : a.access
  PROVE  \E a \in Answers(definitions, paid, used, requested, t) : a.access
<1>1. Better(paid, behind)
  BY DEF Better, Allowed, Restricted, Lapsed
<1> QED BY <1>1, AccessIsMonotone
=============================================================================

---------------------------- MODULE Entitlements ----------------------------
(***************************************************************************)
(* The answers of checkEntitlement for one feature of one customer: what   *)
(* it rests on in PostgreSQL, the copy of that in Redis, the checks that   *)
(* read through the copy and fill it, and the changes that drop it.        *)
(*                                                                         *)
(* A status change announces itself inside its transaction, before the     *)
(* commit, and only in an API process (the workers register no             *)
(* invalidator); the routes that edit entitlements, plans and settings     *)
(* drop the copy after their commit; a change of plan and a renewal drop   *)
(* nothing.  A Redis call that fails is swallowed.                         *)
(*                                                                         *)
(* A tick of the clock is half a minute; a request lasts less than one.    *)
(***************************************************************************)
EXTENDS EntitlementRules, FiniteSets

CONSTANTS
  Checks,        \* calls of checkEntitlement
  Statuses,      \* the statuses the subscription goes through
  Settings,      \* what accessDuringGracePeriod may be set to, or "unset"
  PlanRules,     \* the definitions a plan may hold for the feature
  Overrides,     \* the customer's entitlement rows there may be
  Used,          \* the consumption a check may find
  TTL,           \* ticks an entry is kept
  Horizon,       \* bound: where the clock stops
  MaxChanges,    \* bound: changes to what an answer rests on
  MaxFaults      \* bound: failed Redis calls and processes that die

ASSUME EntitlementsAssumption ==
  /\ Statuses \subseteq Status /\ Settings \subseteq Access \cup {"unset"}
  /\ PlanRules \subseteq Definition /\ Overrides \subseteq Definition
  /\ \A d \in Overrides : d.source = "CUSTOMER_OVERRIDE"
  /\ Used \subseteq Nat /\ TTL \in Nat /\ Horizon \in Nat
  /\ MaxChanges \in Nat /\ MaxFaults \in Nat

VARIABLES
  now,
  facts,       \* the committed rows an answer rests on
  epoch,       \* how many times they have changed
  replaced,    \* when each epoch's facts were replaced by the next
  tx,          \* a status change in flight
  edit,        \* a route's edit, committed, that has still to drop the copy
  entry,       \* the copy in Redis
  check,       \* the checks in flight
  answer,      \* the last answer given
  dropped,     \* the newest epoch whose edit has dropped the copy
  faults

vars == <<now, facts, epoch, replaced, tx, edit, entry, check, answer, dropped, faults>>

None == [source |-> "none"]
Facts == [status : Statuses, frozen : Access \cup {"unset"}, setting : Settings,
          plan : PlanRules, override : Overrides \cup {None}]

\* epoch is how old the facts of a copy are; raced, whether an edit dropped the copy
\* while the check that stored it held facts it had already read.
NoEntry == [stored |-> FALSE]
Entry == [stored : {TRUE}, definitions : SUBSET Definition,
          context : [status : Statuses, access : Access], epoch : 0..MaxChanges,
          raced : BOOLEAN, expires : Nat]

NoAnswer == [given |-> FALSE]

TypeOK ==
  /\ now \in 0..Horizon /\ epoch \in 0..MaxChanges /\ faults \in 0..MaxFaults
  /\ facts \in Facts
  /\ replaced \in [1..epoch -> 0..Horizon] /\ dropped \in 0..epoch
  /\ tx.stage \in {"idle", "written", "announced"} /\ edit \in BOOLEAN
  /\ entry = NoEntry \/ entry \in Entry
  /\ \A c \in Checks :
       /\ check[c].stage \in {"idle", "missed", "reading", "loaded"}
       /\ check[c].stage \in {"reading", "loaded"} => check[c].copy \in Entry
  /\ answer.given => answer.epoch \in 0..epoch /\ answer.access \in BOOLEAN

---------------------------------------------------------------------------
(* loadEntitlementContext *)

\* A grace period runs on the policy it started with.
AccessOrNull(f) ==
  IF f.status = "GRACE_PERIOD" /\ f.frozen # "unset" THEN f.frozen ELSE f.setting
AccessInForce(f) ==
  CASE f.status = "GRACE_PERIOD" /\ f.frozen # "unset" -> f.frozen
    [] f.setting # "unset" -> f.setting
    [] OTHER -> "FULL_ACCESS"

\* The plan's own definition comes with the subscription; the rows, from a query of their
\* own.
Rows(f) == IF f.override = None THEN {} ELSE {f.override}
Holds(c) == check[c].stage \in {"reading", "loaded"}

Read ==
  [stored |-> TRUE, definitions |-> {facts.plan},
   context |-> [status |-> facts.status, access |-> AccessInForce(facts)],
   epoch |-> epoch, raced |-> FALSE, expires |-> 0]

Init ==
  /\ now = 0 /\ epoch = 0 /\ replaced = <<>> /\ dropped = 0 /\ faults = 0
  /\ facts \in [status : Statuses \ {"GRACE_PERIOD"}, frozen : {"unset"}, setting : Settings,
                plan : PlanRules, override : {None}]
  /\ tx = [stage |-> "idle"] /\ edit = FALSE
  /\ entry = NoEntry /\ answer = NoAnswer
  /\ check = [c \in Checks |-> [stage |-> "idle"]]

---------------------------------------------------------------------------
(* What an answer rests on changes. *)

Becomes(f) ==
  /\ epoch < MaxChanges
  /\ facts' = f /\ f # facts
  /\ epoch' = epoch + 1
  /\ replaced' = [e \in 1..epoch + 1 |-> IF e <= epoch THEN replaced[e] ELSE now]

\* applyTransition writes the row and announces; the transaction commits later, or
\* rolls back.
WriteStatus ==
  /\ tx.stage = "idle"
  /\ \E s \in Statuses \ {facts.status}, by \in {"api", "worker"} :
       tx' = [stage |-> "written", to |-> s, by |-> by]
  /\ UNCHANGED <<now, facts, epoch, replaced, edit, entry, check, answer, dropped, faults>>

Announce ==
  /\ tx.stage = "written"
  /\ tx' = [tx EXCEPT !.stage = "announced"]
  /\ \/ tx.by = "api" /\ entry' = NoEntry /\ UNCHANGED faults
     \/ tx.by = "api" /\ faults < MaxFaults /\ faults' = faults + 1 /\ UNCHANGED entry
     \/ tx.by = "worker" /\ UNCHANGED <<entry, faults>>
  /\ UNCHANGED <<now, facts, epoch, replaced, edit, check, answer, dropped>>

\* openGracePeriod freezes the settings, which are those by default if there are none.
Snapshot(status) ==
  CASE status # "GRACE_PERIOD" -> "unset"
    [] facts.setting = "unset" -> "FULL_ACCESS"
    [] OTHER -> facts.setting

CommitStatus ==
  /\ tx.stage = "announced"
  /\ Becomes([facts EXCEPT !.status = tx.to, !.frozen = Snapshot(tx.to)])
  /\ tx' = [stage |-> "idle"]
  /\ UNCHANGED <<now, edit, entry, check, answer, dropped, faults>>

RollBack ==
  /\ tx.stage # "idle"
  /\ tx' = [stage |-> "idle"]
  /\ UNCHANGED <<now, facts, epoch, replaced, edit, entry, check, answer, dropped, faults>>

\* upsertEntitlement and the deletion of a row, an edit of the plan, the settings.
Edit ==
  /\ ~edit /\ edit' = TRUE
  /\ \/ \E d \in Overrides \cup {None} : Becomes([facts EXCEPT !.override = d])
     \/ \E d \in PlanRules : Becomes([facts EXCEPT !.plan = d])
     \/ \E a \in Settings \ {"unset"} : Becomes([facts EXCEPT !.setting = a])
  /\ UNCHANGED <<now, tx, entry, check, answer, dropped, faults>>

KeyWithoutVersion(copy) == copy
Dropped(copy) == NoEntry

\* invalidateCustomer deletes the key and invalidateOrganization retires every key of
\* the version; to one customer's checks they are the same.
DropCopy ==
  /\ edit /\ edit' = FALSE
  /\ entry' = Dropped(entry)
  /\ dropped' = epoch
  /\ check' = [c \in Checks |-> IF Holds(c) THEN [check[c] EXCEPT !.copy.raced = TRUE] ELSE check[c]]
  /\ UNCHANGED <<now, facts, epoch, replaced, tx, answer, faults>>

\* The process dies first, or Redis fails.
DropLost ==
  /\ edit /\ edit' = FALSE
  /\ faults < MaxFaults /\ faults' = faults + 1
  /\ UNCHANGED <<now, facts, epoch, replaced, tx, entry, check, answer, dropped>>

\* changePlan
ChangePlan ==
  /\ \E d \in PlanRules : Becomes([facts EXCEPT !.plan = d])
  /\ UNCHANGED <<now, tx, edit, entry, check, answer, dropped, faults>>

---------------------------------------------------------------------------
(* checkEntitlement *)

\* Consumption is read live, whatever the definitions came from.
Answer(copy) ==
  \E used \in Used :
    \E a \in Answers(copy.definitions, copy.context, used, 1, now) :
      answer' = [given |-> TRUE, access |-> a.access, expiresAt |-> a.expiresAt, at |-> now,
                 epoch |-> copy.epoch]

NeverExpires(e) == e.stored
Fresh(e) == e.stored /\ now < e.expires

Hit(c) ==
  /\ check[c].stage = "idle" /\ Fresh(entry)
  /\ Answer(entry)
  /\ UNCHANGED <<now, facts, epoch, replaced, tx, edit, entry, check, dropped, faults>>

Miss(c) ==
  /\ check[c].stage = "idle"
  /\ \/ ~Fresh(entry) /\ UNCHANGED faults
     \/ Fresh(entry) /\ faults < MaxFaults /\ faults' = faults + 1
  /\ check' = [check EXCEPT ![c] = [stage |-> "missed"]]
  /\ UNCHANGED <<now, facts, epoch, replaced, tx, edit, entry, answer, dropped>>

LoadContext(c) ==
  /\ check[c].stage = "missed"
  /\ check' = [check EXCEPT ![c] = [stage |-> "reading", copy |-> Read, since |-> now]]
  /\ UNCHANGED <<now, facts, epoch, replaced, tx, edit, entry, answer, dropped, faults>>

\* What changed in between, the copy holds half of, and counts as the older.
LoadRows(c) ==
  /\ check[c].stage = "reading"
  /\ check' = [check EXCEPT ![c].stage = "loaded", ![c].copy.definitions = @ \cup Rows(facts)]
  /\ UNCHANGED <<now, facts, epoch, replaced, tx, edit, entry, answer, dropped, faults>>

\* The copy is stored under the version of the moment, then answered from.
Store(c) ==
  /\ check[c].stage = "loaded"
  /\ \/ entry' = [check[c].copy EXCEPT !.expires = now + TTL] /\ UNCHANGED faults
     \/ faults < MaxFaults /\ faults' = faults + 1 /\ UNCHANGED entry
  /\ Answer(check[c].copy)
  /\ check' = [check EXCEPT ![c] = [stage |-> "idle"]]
  /\ UNCHANGED <<now, facts, epoch, replaced, tx, edit, dropped>>

Tick ==
  /\ now < Horizon
  /\ \A c \in Checks : Holds(c) => check[c].since = now
  /\ now' = now + 1
  /\ UNCHANGED <<facts, epoch, replaced, tx, edit, entry, check, answer, dropped, faults>>

---------------------------------------------------------------------------

Next ==
  \/ WriteStatus \/ Announce \/ CommitStatus \/ RollBack
  \/ Edit \/ DropCopy \/ DropLost \/ ChangePlan
  \/ \E c \in Checks : Hit(c) \/ Miss(c) \/ LoadContext(c) \/ LoadRows(c) \/ Store(c)
  \/ Tick

Spec == Init /\ [][Next]_vars

---------------------------------------------------------------------------

\* Whatever is lost, not announced or stored too late, no answer rests on facts that
\* stopped being true longer ago than an entry lives and the request that stored it
\* lasted: access that was withdrawn is gone, and a customer who paid is served, by then.
StaleOnlyForAWhile ==
  answer.given /\ answer.epoch < epoch =>
    answer.at <= replaced[answer.epoch + 1] + TTL + 1

\* entitlements.ts:164-170: once an edit has dropped the copy, no answer rests on what
\* was there before it, unless the check that stored it had read it when the copy was
\* dropped, or a Redis call or a process failed.
EditsTakeEffect ==
  Fresh(entry) /\ entry.epoch < dropped => entry.raced \/ faults > 0

\* cache.ts:90-105: an override is over when it expires, also for an answer out of the
\* cache that was stored while it was in force.
ExpiredIsNotHonoured ==
  answer.given /\ answer.expiresAt # never => answer.expiresAt > answer.at
=============================================================================

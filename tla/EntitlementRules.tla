-------------------------- MODULE EntitlementRules --------------------------
(***************************************************************************)
(* resolveEntitlement: what one feature's definitions, the subscription's  *)
(* standing and the live consumption answer.                               *)
(***************************************************************************)
EXTENDS Integers

Status == {"INCOMPLETE", "TRIALING", "ACTIVE", "PAST_DUE", "GRACE_PERIOD", "PAUSED",
           "UNPAID", "CANCELED", "EXPIRED"}
Access == {"FULL_ACCESS", "RESTRICTED_ACCESS", "NO_ACCESS"}

\* SPECIFICITY, by where a definition comes from.
Specificity == [PLAN_FEATURE |-> 1, PLAN_ENTITLEMENT |-> 2, SUBSCRIPTION_ENTITLEMENT |-> 3,
                CUSTOMER_OVERRIDE |-> 4]
Source == DOMAIN Specificity

\* limit is -1 for none set, and 0 or 1 for the value of a BOOLEAN; never is the expiry
\* of a definition that has none.
CONSTANT never
Definition == [source : Source, type : {"BOOLEAN", "LIMIT", "UNLIMITED", "USAGE"},
               limit : Int, expiresAt : Nat \cup {never}]

InForceAsStored(definitions, now) == definitions
InForce(definitions, now) ==
  {d \in definitions : d.expiresAt = never \/ d.expiresAt > now}

\* pickMostSpecific; of equals it keeps the one the query returned first.
MostSpecific(definitions) ==
  {d \in definitions : \A e \in definitions : Specificity[e.source] <= Specificity[d.source]}

\* evaluateSubscriptionAccess
Lapsed(status) == status \in {"PAST_DUE", "GRACE_PERIOD"}
Allowed(context) ==
  \/ context.status \in {"ACTIVE", "TRIALING"}
  \/ Lapsed(context.status) /\ context.access # "NO_ACCESS"
Restricted(context) == Lapsed(context.status) /\ context.access = "RESTRICTED_ACCESS"

\* The switch over the definition's type; a LIMIT without a value is 0.
WithinLimit(limit, used, requested) == used + requested <= limit
Grants(d, restricted, used, requested) ==
  CASE d.type = "BOOLEAN" -> d.limit # 0
    [] d.type = "UNLIMITED" -> TRUE
    [] d.type = "LIMIT" -> WithinLimit(IF d.limit = -1 THEN 0 ELSE d.limit, used, requested)
    [] d.type = "USAGE" -> ~restricted /\ (d.limit = -1 \/ WithinLimit(d.limit, used, requested))

Resolve(definitions, context, used, requested, now) ==
  {LET override == d.source = "CUSTOMER_OVERRIDE"
   IN [access |-> (Allowed(context) \/ override)
                    /\ Grants(d, Restricted(context) /\ ~override, used, requested),
       source |-> d.source, expiresAt |-> d.expiresAt]
   : d \in MostSpecific(InForce(definitions, now))}

\* No definition: FEATURE_NOT_FOUND or ENTITLEMENT_EXPIRED.
NotFound == [access |-> FALSE, source |-> "none", expiresAt |-> never]
Answers(definitions, context, used, requested, now) ==
  IF InForce(definitions, now) = {} THEN {NotFound}
  ELSE Resolve(definitions, context, used, requested, now)
=============================================================================

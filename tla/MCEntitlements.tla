--------------------------- MODULE MCEntitlements ---------------------------
EXTENDS Entitlements

CONSTANTS k1

Rule(source, type, limit, expiresAt) ==
  [source |-> source, type |-> type, limit |-> limit, expiresAt |-> expiresAt]

MCPlanRules == {Rule("PLAN_FEATURE", "BOOLEAN", 0, never), Rule("PLAN_ENTITLEMENT", "USAGE", 1, never)}
MCOverrides == {Rule("CUSTOMER_OVERRIDE", "UNLIMITED", -1, 2)}
=============================================================================

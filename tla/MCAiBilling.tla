----------------------------- MODULE MCAiBilling -----------------------------
(* Policies of AiBilling for TLC: a minimum fee on failures too; a cap that the *)
(* rounding does not divide, with failures and user keys free; no pricing.      *)
EXTENDS AiBilling

MCPolicy(enabled, markup, rounding, cap, failed, userKey) ==
  [enabled |-> enabled, markup |-> markup, minimumFee |-> 2, rounding |-> rounding,
   maxCharge |-> cap, failed |-> failed, userKey |-> userKey]

MCPolicies ==
  {MCPolicy(TRUE, 100, 1, NoCap, "minimum_fee", "platform_fee_only"),
   MCPolicy(TRUE, 50, 3, 7, "never", "never"),
   MCPolicy(FALSE, 50, 1, NoCap, "minimum_fee", "full_price")}

MCCosts == {0, 2, 6}
=============================================================================

----------------------------- MODULE MCLanding -----------------------------
(***************************************************************************)
(* The models of the code: both facts, the aggregate, the dimensions and   *)
(* the vendors.  Everything joins and names dim_cost_center as it does     *)
(* dim_account, which stands for it here.                                  *)
(***************************************************************************)
EXTENDS Landing

entry      == "fct_gl_entry"
adjustment == "fct_gl_adjustment"
balance    == "agg_monthly_balance"
account    == "dim_account"
rate       == "dim_fx_rate"
vendor     == "dim_vendor"

MCDims == {account, rate}
MCFacts == {entry, adjustment}

MCRefs == [m \in MCDims \cup MCFacts \cup {balance, vendor} |->
  CASE m \in MCFacts -> {account, vendor}
    [] m = balance   -> {account}
    [] OTHER         -> {}]

MCKeyed == [f \in MCFacts |-> IF f = entry THEN MCDims \cup {vendor} ELSE MCDims]
=============================================================================

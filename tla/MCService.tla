----------------------------- MODULE MCService ------------------------------
(***************************************************************************)
(* An instance of Service for TLC: three requests at a time.                *)
(***************************************************************************)
EXTENDS Service, TLC

CONSTANTS r1, r2, r3

MCRequests == {r1, r2, r3}

Who_(ts, all, none, policies, metrics) ==
    [tenants |-> ts, allTenants |-> all, allowTenantless |-> none,
     policyReader |-> policies, metricsReader |-> metrics]

\* A gateway for one tenant, an operator for all of them but not for none, and
\* a batch job that has no tenant.
MCByToken ==
    ("gateway" :> Who_({"acme"}, FALSE, FALSE, FALSE, FALSE))
    @@ ("operator" :> Who_({}, TRUE, FALSE, TRUE, TRUE))
    @@ ("batch" :> Who_({}, FALSE, TRUE, FALSE, TRUE))

Get(route, token) == [route |-> route, token |-> token, tenant |-> "", valid |-> TRUE]
Post(token, tenant) ==
    [route |-> "evaluations", token |-> token, tenant |-> tenant, valid |-> TRUE]
Malformed == [Post("gateway", "acme") EXCEPT !.valid = FALSE]

Asks(a, b, c) == (r1 :> a) @@ (r2 :> b) @@ (r3 :> c)

MCWorkloads ==
    { Asks(Post("gateway", "acme"), Post("operator", ""), Get("metrics", "operator")),
      Asks(Malformed, Post("gateway", "other"), Get("metrics", "batch")),
      Asks(Post("batch", ""), Get("metrics", "operator"), Get("metrics", "gateway")),
      Asks(Post("stolen", "acme"), Post("operator", "acme"), Get("metrics", "")),
      Asks(Get("policies", "operator"), Get("policies", "batch"), Get("policies", "")),
      Asks(Get("health", ""), Get("unmatched", "operator"), Post("gateway", "acme")) }
=============================================================================

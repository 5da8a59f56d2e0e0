-------------------------- MODULE MCPolicyResolver --------------------------
EXTENDS PolicyResolver, TLC

Stages == {"pre_model", "post_model"}
KnownPolicies == ("a@1" :> {"pre_model"}) @@ ("b@1" :> Stages) @@ ("c@1" :> {"post_model"})

Lists == { <<>>, <<"a@1">>, <<"b@1">>, <<"b@1", "a@1">>, <<"c@1", "c@1">>, <<"x@1">>,
           <<"a@1", "x@1">> }

MCConfigs ==
    { [policies |-> KnownPolicies, platform |-> pl,
       tenants |-> ("acme" :> t), profiles |-> ("strict@1" :> f)] :
        pl \in Lists, t \in Lists, f \in {<<"b@1">>, <<"c@1", "a@1">>, <<"x@1">>} }

MCRequests ==
    [tenant : {"acme", "other"}, profile : {"", "strict@1", "gone@1"},
     selected : Lists, stage : Stages \cup {"ingestion"}]
=============================================================================

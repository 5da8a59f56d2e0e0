----------------------------- MODULE MCStartup ------------------------------
(***************************************************************************)
(* An instance of Startup for TLC: configurations that vary in their        *)
(* detectors and deadlines, or in their policies and the platform's list,   *)
(* or in their principals.                                                  *)
(***************************************************************************)
EXTENDS Startup

MCDefaultTimeout == 3
MCNames == {"a", "b", "acme", "*"}
MCStrongTokens == {"long-a", "long-b"}

Det(id, timeout, kinds, settings) ==
    [id |-> id, timeout |-> timeout, kinds |-> kinds, settings |-> settings]

Set(numbers, values, selects, compiles) ==
    [numbers |-> numbers, values |-> values, selects |-> selects, compiles |-> compiles]

\* Settings that pass for every kind but one, or none.
Plain == Set({0, 2}, {"known_token"}, "target", TRUE)
Broken == Set({0, 2}, {"known_token"}, "target", FALSE)

\* Sound ones, then one for each reason to refuse a detector.
MCDetectors ==
    {Det("d", t, {"regex"}, Plain) : t \in {Absent, 2, 3, 4, 0, -1, Garbage}}
    \cup {Det("d", Absent, k, Plain) : k \in {{"jsonSchema"}, {}, {"secrets", "regex"}}}
    \cup {Det("", Absent, {"regex"}, Plain), Det("d", 1, {"keywords"}, Broken)}

\* Every kind with settings at the edge of what passes.
MCSettings ==
    { Set(numbers, values, selects, compiles) :
        numbers \in {{}, {0}, {-1}, {0, 2}, {-1, 2}},
        values \in {{}, {"known_token"}, {"known_token", "token"}},
        selects \in {"", "target", "target.model", "content.data"}, compiles \in BOOLEAN }

Pol(id, version, action, mode, timeout, detectors) ==
    [id |-> id, version |-> version, action |-> action, mode |-> mode,
     timeout |-> timeout, detectors |-> detectors]

\* Sound ones, the same id with another content, and one for each reason to
\* refuse a policy.
MCPolicies ==
    { Pol("p", 1, "block", "", Absent, <<>>), Pol("p", 1, "allow", "open", 2, <<>>),
      Pol("p", 2, "monitor", "monitor", 1, <<Det("d", Absent, {"requestLimits"}, Plain)>>),
      Pol("q", 1, "redact", "closed", 4, <<Det("d", 4, {"secrets"}, Plain)>>),
      Pol("", 1, "block", "", 1, <<>>), Pol("p", 0, "block", "", 1, <<>>),
      Pol("p", 1, "deny", "", 1, <<>>), Pol("p", 1, "block", "ajar", 1, <<>>),
      Pol("p", 1, "block", "", 0, <<>>) }

Who(id, token, tenants) ==
    [id |-> id, token |-> token, tenants |-> tenants,
     allowTenantless |-> id = "a", policyReader |-> id = "b", metricsReader |-> FALSE]

MCPrincipals ==
    { Who("a", "long-a", {"acme"}), Who("a", "long-b", {}), Who("b", "long-a", {"*"}),
      Who("b", "long-b", {"*", "acme"}), Who("b", "short", {}), Who("b", "", {}),
      Who(" c", "long-b", {}), Who("b", "long-b", {"acme", ""}) }

Profile(id, version, list) == [id |-> id, version |-> version, policies |-> list]

\* Two with one id, and two versions of one.
MCProfiles ==
    { <<>>, <<Profile("b", 1, <<"p@1">>)>>,
      <<Profile("b", 1, <<"p@1">>), Profile("b", 2, <<>>), Profile("b", 1, <<"none@1">>)>> }

File(ps, auth, who, platform) ==
    [policies |-> ps, auth |-> auth, principals |-> who, platform |-> platform,
     profiles |-> <<>>]

MCSources ==
    { File(<<Pol("p", 1, action, "", timeout, <<d, e>>)>>, FALSE, <<>>, {}) :
        action \in {"block", "redact"}, timeout \in {Absent, 2, Garbage},
        d \in MCDetectors, e \in MCDetectors }
    \cup
    { File(<<Pol("p", 1, "block", "", 2, <<Det("d", Absent, {k}, s)>>)>>, FALSE, <<>>, {}) :
        k \in Kind, s \in MCSettings }
    \cup
    { [File(<<p, q>>, FALSE, <<>>, platform) EXCEPT !.profiles = ps] :
        p \in MCPolicies, q \in MCPolicies, ps \in MCProfiles,
        platform \in {{}, {<<"p", 1>>}, {<<"q", 1>>, <<"p", 2>>}} }
    \cup
    { File(<<>>, TRUE, s, {}) :
        s \in {<<>>} \cup {<<a>> : a \in MCPrincipals}
              \cup {<<a, b>> : a \in MCPrincipals, b \in MCPrincipals} }
=============================================================================

------------------------------ MODULE Startup -------------------------------
(***************************************************************************)
(* How the service starts (cmd/thinkpixelgr/main.go): Load reads the        *)
(* timeouts (internal/config/config.go), NewStaticBearer the principals     *)
(* (internal/auth/auth.go), NewResolver compiles the policies               *)
(* (internal/policy/resolver.go).  Each refuses the whole configuration, or *)
(* hands its result to the next; the last one starts the server.            *)
(*                                                                          *)
(* A definition commented "Fault" is a plausible bug in the one after it.   *)
(***************************************************************************)
EXTENDS Domain, Functions

CONSTANTS
    Sources,         \* configuration files, with the environment
    Names,           \* strings neither empty nor padded with spaces, "*" among them
    StrongTokens,    \* tokens of 32 bytes or more, not padded either
    Absent, Garbage, \* a timeout left out, and one ParseDuration refuses
    DefaultTimeout   \* 100 ms, in the unit of the timeouts

Kind == {"regex", "keywords", "requestLimits", "allowDeny", "jsonSchema", "secrets"}

\* The kinds whose findings come with a replacement.
Replacing == {"regex", "keywords", "secrets"}

Written == Int \cup {Absent, Garbage}

Selectors == { "target.model", "target.provider", "target.data_region", "subject.roles",
               "content.tools", "content.domains", "content.file_types" }
SchemaTargets == {"content", "content.data", "metadata", "subject", "target"}
SecretTypes == { "pem_private_key", "authorization", "connection_string", "known_token",
                 "contextual_high_entropy" }

\* The settings of a detector: its limits or entropy bounds, the values it lists
\* (MIME types, allowed and denied ones, types of secrets), its selector or
\* target, and whether the library compiles its pattern or schema.
Settings == [numbers : SUBSET Int, values : SUBSET STRING, selects : STRING,
             compiles : BOOLEAN]

SourceDetector == [id : STRING, timeout : Written, kinds : SUBSET Kind, settings : Settings]

SourcePolicy == [id : STRING, version : Int, action : STRING, mode : STRING,
                 timeout : Written, detectors : Seq(SourceDetector)]

\* "token" is the value of the environment variable, empty when there is none or
\* its name is refused.
SourcePrincipal == [id : STRING, token : STRING, tenants : SUBSET STRING,
                    allowTenantless : BOOLEAN, policyReader : BOOLEAN,
                    metricsReader : BOOLEAN]

SourceProfile == [id : STRING, version : Int, policies : Seq(STRING)]

Source == [policies : Seq(SourcePolicy), auth : BOOLEAN, principals : Seq(SourcePrincipal),
           platform : SUBSET (STRING \X Int), profiles : Seq(SourceProfile)]

ASSUME SourcesAssumption == Sources \subseteq Source
ASSUME NamesAssumption == Names \subseteq STRING /\ "" \notin Names
ASSUME TokensAssumption == StrongTokens \subseteq STRING /\ "" \notin StrongTokens
ASSUME TimeoutAssumption ==
    /\ DefaultTimeout \in Nat \ {0}
    /\ Absent \notin Int /\ Garbage \notin Int /\ Absent # Garbage

VARIABLES
    source,
    pc,
    i, j,       \* loop indices: policy or principal, and detector
    loaded,     \* cfg.Policies, with their timeouts
    byToken,    \* the principals, by (the digest of) their token
    building,   \* compiled, the policy being compiled
    policies,   \* the resolver's policies, by canonical id
    profiles    \* the policies of its profiles, by canonical id

vars == <<source, pc, i, j, loaded, byToken, building, policies, profiles>>

\* Nothing reads "building" before BeginPolicy has set it.
NoPolicy == [id |-> "", action |-> "allow", mode |-> "closed",
             timeout |-> DefaultTimeout, detectors |-> <<>>]

Init ==
    /\ source \in Sources
    /\ pc = "load" /\ i = 1 /\ j = 1
    /\ loaded = <<>> /\ byToken = <<>>
    /\ building = NoPolicy /\ policies = <<>> /\ profiles = <<>>

\* main logs the error and exits: no server is started.
Refuse ==
    /\ pc' = "exited"
    /\ UNCHANGED <<source, i, j, loaded, byToken, building, policies, profiles>>

-----------------------------------------------------------------------------
(* Load. *)

\* Fault: zero is taken for a timeout.
NotNegative(t) == t = Absent \/ t \in Nat

Readable(t) == t = Absent \/ t \in Nat \ {0}

Timeout(t, default) == IF t = Absent THEN default ELSE t

AllReadable(p) ==
    /\ Readable(p.timeout)
    /\ \A d \in Range(p.detectors) : Readable(d.timeout)

\* A detector without a timeout is left at zero for NewResolver.
LoadPolicy ==
    /\ pc = "load" /\ i <= Len(source.policies) /\ AllReadable(source.policies[i])
    /\ LET p == source.policies[i]
           detector(d) == [d EXCEPT !.timeout = Timeout(@, 0)]
       IN  loaded' = Append(loaded,
               [p EXCEPT !.timeout = Timeout(@, DefaultTimeout),
                         !.detectors = [n \in DOMAIN @ |-> detector(@[n])]])
    /\ i' = i + 1
    /\ UNCHANGED <<source, pc, j, byToken, building, policies, profiles>>

RefuseToLoad ==
    /\ pc = "load" /\ i <= Len(source.policies) /\ ~AllReadable(source.policies[i])
    /\ Refuse

Loaded ==
    /\ pc = "load" /\ i > Len(source.policies)
    /\ pc' = (IF source.auth THEN "authenticate" ELSE "compile")
    /\ i' = 1
    /\ UNCHANGED <<source, j, loaded, byToken, building, policies, profiles>>

-----------------------------------------------------------------------------
(* NewStaticBearer. *)

\* Fault: a token given to two principals.
SharedTokensPass(n) ==
    LET s == source.principals[n] IN
    /\ s.id \in Names /\ \A m \in 1..(n - 1) : source.principals[m].id # s.id
    /\ s.token \in StrongTokens
    /\ s.tenants \subseteq Names

PrincipalPasses(n) ==
    LET s == source.principals[n] IN
    /\ s.id \in Names /\ \A m \in 1..(n - 1) : source.principals[m].id # s.id
    /\ s.token \in StrongTokens \ DOMAIN byToken
    /\ s.tenants \subseteq Names

\* "*" stands for every tenant, the other ones for themselves.
AddPrincipal ==
    /\ pc = "authenticate" /\ i <= Len(source.principals) /\ PrincipalPasses(i)
    /\ LET s == source.principals[i]
           principal == [id |-> s.id, tenants |-> s.tenants \ {"*"},
                         allTenants |-> "*" \in s.tenants,
                         allowTenantless |-> s.allowTenantless,
                         policyReader |-> s.policyReader,
                         metricsReader |-> s.metricsReader]
       IN  byToken' = [t \in DOMAIN byToken \cup {s.token} |->
                          IF t = s.token THEN principal ELSE byToken[t]]
    /\ i' = i + 1
    /\ UNCHANGED <<source, pc, j, loaded, building, policies, profiles>>

RefusePrincipals ==
    /\ pc = "authenticate"
    /\ \/ source.principals = <<>>
       \/ i <= Len(source.principals) /\ ~PrincipalPasses(i)
    /\ Refuse

PrincipalsAdded ==
    /\ pc = "authenticate" /\ source.principals # <<>> /\ i > Len(source.principals)
    /\ pc' = "compile" /\ i' = 1
    /\ UNCHANGED <<source, j, loaded, byToken, building, policies, profiles>>

-----------------------------------------------------------------------------
(* NewResolver. *)

PolicyPasses(p) ==
    /\ p.id # "" /\ p.version >= 1
    /\ p.action \in Action
    /\ p.timeout >= 0
    /\ p.mode \in FailureMode \cup {""}

EffectiveMode(mode) == IF mode = "" THEN "closed" ELSE mode

BeginPolicy ==
    /\ pc = "compile" /\ i <= Len(loaded) /\ PolicyPasses(loaded[i])
    /\ LET p == loaded[i] IN
       building' = [id |-> p.id, action |-> p.action, mode |-> EffectiveMode(p.mode),
                    timeout |-> IF p.timeout = 0 THEN DefaultTimeout ELSE p.timeout,
                    detectors |-> <<>>]
    /\ pc' = "detectors" /\ j' = 1
    /\ UNCHANGED <<source, i, loaded, byToken, policies, profiles>>

RefusePolicy == pc = "compile" /\ i <= Len(loaded) /\ ~PolicyPasses(loaded[i]) /\ Refuse

Detectors == loaded[i].detectors

EffectiveTimeout(d) == IF d.timeout = 0 THEN building.timeout ELSE d.timeout

ValidateRequestLimits(s) ==
    s.numbers \subseteq Nat /\ (s.values # {} \/ \E limit \in s.numbers : limit > 0)

ValidateAllowDeny(s) == s.selects \in Selectors /\ s.values # {}

ValidateSecrets(s) == s.numbers \subseteq Nat /\ s.values \subseteq SecretTypes

\* Keywords are taken as they are.
SettingsPass(d) ==
    /\ d.kinds = {"regex"} => d.settings.compiles
    /\ d.kinds = {"requestLimits"} => ValidateRequestLimits(d.settings)
    /\ d.kinds = {"allowDeny"} => ValidateAllowDeny(d.settings)
    /\ d.kinds = {"jsonSchema"} => d.settings.selects \in SchemaTargets /\ d.settings.compiles
    /\ d.kinds = {"secrets"} => ValidateSecrets(d.settings)

\* Fault: a detector may be given more time than its policy.
AnyDeadlinePasses(d) ==
    /\ d.id # "" /\ \E kind \in Kind : d.kinds = {kind}
    /\ building.action = "redact" => d.kinds \subseteq Replacing
    /\ EffectiveTimeout(d) > 0
    /\ SettingsPass(d)

DetectorPasses(d) ==
    /\ d.id # "" /\ \E kind \in Kind : d.kinds = {kind}
    /\ building.action = "redact" => d.kinds \subseteq Replacing
    /\ EffectiveTimeout(d) > 0 /\ EffectiveTimeout(d) <= building.timeout
    /\ SettingsPass(d)

CompileDetector ==
    /\ pc = "detectors" /\ j <= Len(Detectors) /\ DetectorPasses(Detectors[j])
    /\ LET compiled == [timeout |-> EffectiveTimeout(Detectors[j]),
                        replaces |-> Detectors[j].kinds \subseteq Replacing]
       IN  building' = [building EXCEPT !.detectors = Append(@, compiled)]
    /\ j' = j + 1
    /\ UNCHANGED <<source, pc, i, loaded, byToken, policies, profiles>>

RefuseDetector ==
    /\ pc = "detectors" /\ j <= Len(Detectors) /\ ~DetectorPasses(Detectors[j])
    /\ Refuse

CanonicalID(p) == <<p.id, p.version>>

\* Fault: a policy replaces an earlier one with its id.
NeverKnown(id) == FALSE

Known(id) == id \in DOMAIN policies

EndPolicy ==
    /\ pc = "detectors" /\ j > Len(Detectors)
    /\ LET id == CanonicalID(loaded[i]) IN
       /\ ~Known(id)
       /\ policies' = [c \in DOMAIN policies \cup {id} |->
                          IF c = id THEN building ELSE policies[c]]
    /\ pc' = "compile" /\ i' = i + 1
    /\ UNCHANGED <<source, j, loaded, byToken, building, profiles>>

RefuseDuplicate ==
    /\ pc = "detectors" /\ j > Len(Detectors) /\ Known(CanonicalID(loaded[i]))
    /\ Refuse

PoliciesCompiled ==
    /\ pc = "compile" /\ i > Len(loaded)
    /\ pc' = "profiles" /\ i' = 1
    /\ UNCHANGED <<source, j, loaded, byToken, building, policies, profiles>>

\* A profile replaces an earlier one with its id; its policies are not looked up.
FileProfile ==
    /\ pc = "profiles" /\ i <= Len(source.profiles)
    /\ LET p == source.profiles[i] IN
       profiles' = [c \in DOMAIN profiles \cup {CanonicalID(p)} |->
                       IF c = CanonicalID(p) THEN p.policies ELSE profiles[c]]
    /\ i' = i + 1
    /\ UNCHANGED <<source, pc, j, loaded, byToken, building, policies>>

\* The platform's policies are looked up here; a tenant's, and those of a
\* profile, only when a request asks for them.
Listen ==
    /\ pc = "profiles" /\ i > Len(source.profiles)
    /\ source.platform \subseteq DOMAIN policies
    /\ pc' = "listening"
    /\ UNCHANGED <<source, i, j, loaded, byToken, building, policies, profiles>>

RefusePlatform ==
    /\ pc = "profiles" /\ i > Len(source.profiles)
    /\ ~(source.platform \subseteq DOMAIN policies)
    /\ Refuse

-----------------------------------------------------------------------------

Terminated == pc \in {"listening", "exited"} /\ UNCHANGED vars

Next ==
    \/ LoadPolicy \/ RefuseToLoad \/ Loaded
    \/ AddPrincipal \/ RefusePrincipals \/ PrincipalsAdded
    \/ BeginPolicy \/ RefusePolicy
    \/ CompileDetector \/ RefuseDetector \/ EndPolicy \/ RefuseDuplicate
    \/ PoliciesCompiled \/ FileProfile \/ Listen \/ RefusePlatform
    \/ Terminated

Spec == Init /\ [][Next]_vars
-----------------------------------------------------------------------------
(* Properties. *)

\* What the other modules assume: every policy the resolver may hand out has
\* deadlines that fit, a known action and failure mode, and can do what its
\* action asks for; the platform's policies exist (Domain!PolicyConfig,
\* PolicyResolver!PlatformKnown; evaluator.go:121-143 and resolver.go:226 do
\* not look again).
AcceptedIsSound ==
    /\ Range(policies) \subseteq PolicyConfig
    /\ pc = "listening" => source.platform \subseteq DOMAIN policies

ProfilesAreAsConfigured ==
    /\ DOMAIN profiles = {CanonicalID(p) : p \in Range(source.profiles)}
    /\ \A n \in DOMAIN source.profiles :
          LET id == CanonicalID(source.profiles[n]) IN
          \/ \E m \in DOMAIN source.profiles : m > n /\ CanonicalID(source.profiles[m]) = id
          \/ profiles[id] = source.profiles[n].policies

\* Through two normalisations and two loops no policy and no detector is lost,
\* replaced or reordered; a deadline that was written is kept, one that was not
\* is the policy's, and a policy that names no failure mode fails closed.  Of
\* the profiles with one id the last one counts, and the others not at all
\* (evaluation-api-v1.md:72-79; config.go:146-175, resolver.go:45-132).
CompiledAsConfigured ==
    pc = "listening" =>
        /\ ProfilesAreAsConfigured
        /\ \A n \in DOMAIN source.policies :
              LET s == source.policies[n]
                  c == policies[CanonicalID(s)]
              IN  /\ CanonicalID(s) \in DOMAIN policies
                  /\ c.action = s.action
                  /\ c.mode = (IF s.mode = "" THEN "closed" ELSE s.mode)
                  /\ c.timeout = (IF s.timeout = Absent THEN DefaultTimeout ELSE s.timeout)
                  /\ Len(c.detectors) = Len(s.detectors)
                  /\ \A m \in DOMAIN s.detectors :
                        c.detectors[m] =
                           [timeout |-> IF s.detectors[m].timeout = Absent THEN c.timeout
                                        ELSE s.detectors[m].timeout,
                            replaces |-> s.detectors[m].kinds \subseteq Replacing]

\* A credential tells who presents it: every principal has a token of its own,
\* for exactly the tenants and capabilities configured, and there are no others
\* (docs/security/authentication.md:26-29, 44-49; auth.go:61-98).
CredentialsAreAsConfigured ==
    pc = "listening" /\ source.auth =>
        /\ source.principals # <<>>
        /\ DOMAIN byToken = {s.token : s \in Range(source.principals)}
        /\ \A s \in Range(source.principals) :
              LET who == byToken[s.token] IN
              /\ who.id = s.id
              /\ who.allTenants = ("*" \in s.tenants) /\ who.tenants = s.tenants \ {"*"}
              /\ <<who.allowTenantless, who.policyReader, who.metricsReader>>
                     = <<s.allowTenantless, s.policyReader, s.metricsReader>>

\* The rules of a configuration file, each over the file as a whole.
Distinct(s, key(_)) == \A m, n \in DOMAIN s : key(s[m]) = key(s[n]) => m = n

Positive(t) == t # Absent => t \in Nat /\ t > 0

\* At least one limit, none negative; a known selector, target or type of
\* secret; something to allow or deny; a pattern and a schema that compile.
ValidSettings(kind, s) ==
    CASE kind = "requestLimits" ->
           (\A v \in s.numbers : v >= 0) /\ (s.numbers \ {0} # {} \/ s.values # {})
      [] kind = "allowDeny" -> s.selects \in Selectors /\ s.values # {}
      [] kind = "jsonSchema" -> s.selects \in SchemaTargets /\ s.compiles
      [] kind = "secrets" -> ~(\E v \in s.numbers : v < 0) /\ s.values \ SecretTypes = {}
      [] kind = "regex" -> s.compiles
      [] kind = "keywords" -> TRUE

ValidDetector(d, p) ==
    /\ d.id # "" /\ Positive(d.timeout)
    /\ \E kind \in Kind : /\ d.kinds = {kind} /\ ValidSettings(kind, d.settings)
                          /\ p.action = "redact" => kind \in Replacing
    /\ d.timeout # Absent =>
          d.timeout <= (IF p.timeout = Absent THEN DefaultTimeout ELSE p.timeout)

ValidPolicy(p) ==
    /\ p.id # "" /\ p.version >= 1 /\ Positive(p.timeout)
    /\ p.action \in Action /\ p.mode \in FailureMode \cup {""}
    /\ \A d \in Range(p.detectors) : ValidDetector(d, p)

ValidPrincipals(ps) ==
    LET id(s) == s.id   token(s) == s.token IN
    /\ ps # <<>> /\ Distinct(ps, id) /\ Distinct(ps, token)
    /\ \A s \in Range(ps) :
          s.id \in Names /\ s.token \in StrongTokens /\ s.tenants \subseteq Names

ValidSource(s) ==
    /\ \A p \in Range(s.policies) : ValidPolicy(p)
    /\ Distinct(s.policies, CanonicalID)
    /\ s.platform \subseteq {CanonicalID(p) : p \in Range(s.policies)}
    /\ s.auth => ValidPrincipals(s.principals)

\* The service starts with exactly the configurations that follow every rule,
\* whichever of the three stages each rule is looked at in, and in whatever
\* order they are met (evaluation-api-v1.md:72-79, deterministic-detectors-v1.md:3-7).
ExactlyTheValidStart ==
    /\ pc = "listening" => ValidSource(source)
    /\ pc = "exited" => ~ValidSource(source)
=============================================================================

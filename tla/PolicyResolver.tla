--------------------------- MODULE PolicyResolver ---------------------------
(***************************************************************************)
(* One call of Resolver.Resolve (internal/policy/resolver.go): the ids of   *)
(* the platform's, the tenant's, the profile's and the request's policies   *)
(* are put in a row, and then looked up one by one.  Policies are known by  *)
(* their canonical id; a profile or tenant is a sequence of ids.            *)
(*                                                                          *)
(* A definition commented "Fault" is a plausible bug in the one after it.   *)
(***************************************************************************)
EXTENDS Integers, Sequences, Functions

CONSTANTS
    Configs,   \* loaded configurations, the ones NewResolver refuses included
    Requests   \* what a request may select

\* A configuration and a request, as far as Resolve looks at them.
ASSUME ConfigsAssumption ==
    \A c \in Configs :
        /\ c.platform \in Seq(STRING)
        /\ \A t \in DOMAIN c.tenants : c.tenants[t] \in Seq(STRING)
        /\ \A f \in DOMAIN c.profiles : c.profiles[f] \in Seq(STRING)
ASSUME RequestsAssumption ==
    \A r \in Requests : r.selected \in Seq(STRING)

VARIABLES
    config,    \* the resolver's maps
    request,   \* tenant, profile, selected, stage
    pc,
    ids,       \* the ids collected
    k,         \* the index of the loop over ids
    seen,      \* ids already looked up
    resolved,  \* the ids of the policies to apply, in order
    outcome    \* "none", "ok", "unknown profile" or "unknown policy"

vars == <<config, request, pc, ids, k, seen, resolved, outcome>>
call == <<config, request>>

\* Fault: the platform's references are not looked at when the service starts.
AnyPlatform(c) == TRUE

\* NewResolver refuses a platform that names an unknown policy.
PlatformKnown(c) == Range(c.platform) \subseteq DOMAIN c.policies

Init ==
    /\ config \in {c \in Configs : PlatformKnown(c)}
    /\ request \in Requests
    /\ pc = "platform"
    /\ ids = <<>> /\ k = 1 /\ seen = {} /\ resolved = <<>>
    /\ outcome = "none"

Collect(more, next) ==
    /\ ids' = ids \o more
    /\ pc' = next
    /\ UNCHANGED <<call, k, seen, resolved, outcome>>

\* Fault: what the request selects comes first.
CollectSelectedFirst == pc = "platform" /\ Collect(request.selected \o config.platform, "tenant")

CollectPlatform == pc = "platform" /\ Collect(config.platform, "tenant")

\* A tenant the configuration does not know has no policies of its own.
CollectTenant ==
    /\ pc = "tenant"
    /\ Collect(IF request.tenant \in DOMAIN config.tenants
               THEN config.tenants[request.tenant] ELSE <<>>, "profile")

NoProfile == ""

CollectProfile ==
    /\ pc = "profile"
    /\ request.profile \in DOMAIN config.profiles \cup {NoProfile}
    /\ Collect(IF request.profile = NoProfile THEN <<>>
               ELSE config.profiles[request.profile], "selected")

Fail(why) ==
    /\ pc' = "done" /\ outcome' = why
    /\ UNCHANGED <<call, ids, k, seen, resolved>>

UnknownProfile ==
    /\ pc = "profile"
    /\ request.profile \notin DOMAIN config.profiles \cup {NoProfile}
    /\ Fail("unknown profile")

CollectSelected == pc = "selected" /\ Collect(request.selected, "lookup")

Id == ids[k]
Looking == pc = "lookup" /\ k <= Len(ids)

\* Every id is looked at once.
SkipSeen ==
    /\ Looking /\ Id \in seen
    /\ k' = k + 1
    /\ UNCHANGED <<call, pc, ids, seen, resolved, outcome>>

\* Fault: an id nobody defined is passed over.
PassOverUnknown ==
    /\ Looking /\ Id \notin seen /\ Id \notin DOMAIN config.policies
    /\ k' = k + 1
    /\ UNCHANGED <<call, pc, ids, seen, resolved, outcome>>

UnknownPolicy ==
    /\ Looking /\ Id \notin seen /\ Id \notin DOMAIN config.policies
    /\ Fail("unknown policy")

SupportsStage(id) == request.stage \in config.policies[id]

\* Fault: an id is not remembered once it was looked up.
LookUpForgetting ==
    /\ Looking /\ Id \notin seen /\ Id \in DOMAIN config.policies
    /\ resolved' = IF SupportsStage(Id) THEN Append(resolved, Id) ELSE resolved
    /\ k' = k + 1
    /\ UNCHANGED <<call, pc, ids, seen, outcome>>

LookUp ==
    /\ Looking /\ Id \notin seen /\ Id \in DOMAIN config.policies
    /\ seen' = seen \cup {Id}
    /\ resolved' = IF SupportsStage(Id) THEN Append(resolved, Id) ELSE resolved
    /\ k' = k + 1
    /\ UNCHANGED <<call, pc, ids, outcome>>

Return ==
    /\ pc = "lookup" /\ k > Len(ids)
    /\ pc' = "done" /\ outcome' = "ok"
    /\ UNCHANGED <<call, ids, k, seen, resolved>>

Terminated == pc = "done" /\ UNCHANGED vars

Next ==
    \/ CollectPlatform \/ CollectTenant \/ CollectProfile \/ UnknownProfile
    \/ CollectSelected \/ SkipSeen \/ UnknownPolicy \/ LookUp \/ Return
    \/ Terminated

Spec == Init /\ [][Next]_vars

-----------------------------------------------------------------------------
(* Properties. *)

TypeOK ==
    /\ config \in Configs /\ request \in Requests
    /\ pc \in {"platform", "tenant", "profile", "selected", "lookup", "done"}
    /\ ids \in Seq(STRING) /\ k \in Nat \ {0}
    /\ seen \subseteq STRING /\ resolved \in Seq(STRING)
    /\ outcome \in {"none", "ok", "unknown profile", "unknown policy"}

TenantPolicies ==
    IF request.tenant \in DOMAIN config.tenants
    THEN config.tenants[request.tenant] ELSE <<>>

Mandatory == config.platform \o TenantPolicies

Supported(s) ==
    {id \in Range(s) : id \in DOMAIN config.policies /\ SupportsStage(id)}

\* Whatever the request selects, and however often it names a mandatory policy,
\* the mandatory policies of its stage come first in the result: no id that is
\* not mandatory stands before one that is (resolver.go:208-219).
MandatoryFirst ==
    outcome = "ok" =>
        /\ Supported(Mandatory) \subseteq Range(resolved)
        /\ \A i, j \in DOMAIN resolved :
             resolved[j] \in Range(Mandatory) /\ i < j => resolved[i] \in Range(Mandatory)

\* No policy is applied twice, though the four lists may overlap
\* (resolver.go:220-225): the evaluator's policy loop, and its timings by policy
\* id, rely on it.
NoPolicyTwice == IsInjective(resolved)

\* A successful answer means every id in every list is known, and each one that
\* supports the stage will be applied: nothing is dropped in silence
\* (resolver.go:226-233).
NothingIgnored ==
    outcome = "ok" =>
        /\ Range(ids) \subseteq DOMAIN config.policies
        /\ Range(resolved) = Supported(ids)

\* The check NewResolver makes of the platform's policies (resolver.go:133-137)
\* is enough: at request time only the tenant, the profile or the request can
\* name an unknown policy.
PlatformNeverRejects ==
    outcome = "unknown policy" => k > Len(config.platform)
=============================================================================

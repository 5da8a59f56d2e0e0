------------------------ MODULE PolicyResolverProofs ------------------------
(***************************************************************************)
(* Theorems about PolicyResolver for every configuration and request.       *)
(***************************************************************************)
EXTENDS PolicyResolver, SequenceTheorems, TLAPS

Before == pc \in {"platform", "tenant", "profile", "selected"}

\* What the loop has done so far: it has looked at the ids before k, knows them
\* all, and has kept the ones of the stage.
Progress ==
    /\ Before => k = 1
    /\ k <= Len(ids) + 1
    /\ seen = {ids[i] : i \in 1 .. (k - 1)}
    /\ seen \subseteq DOMAIN config.policies
    /\ Range(resolved) = {id \in seen : SupportsStage(id)}
    /\ outcome = "ok" => k = Len(ids) + 1
    /\ pc # "done" => outcome = "none"

Inv == TypeOK /\ Progress /\ NoPolicyTwice

\* Appending a new element adds it to the range, and keeps a sequence injective.
LEMMA AppendNew ==
    ASSUME NEW S, NEW s \in Seq(S), NEW e \in S
    PROVE  /\ Append(s, e) \in Seq(S)
           /\ Range(Append(s, e)) = Range(s) \cup {e}
           /\ IsInjective(s) /\ e \notin Range(s) => IsInjective(Append(s, e))
<1>1. /\ Append(s, e) \in Seq(S)
      /\ Len(Append(s, e)) = Len(s) + 1
      /\ DOMAIN Append(s, e) = 1 .. (Len(s) + 1)
      /\ \A i \in 1 .. Len(s) : Append(s, e)[i] = s[i]
      /\ Append(s, e)[Len(s) + 1] = e
      /\ DOMAIN s = 1 .. Len(s) /\ Len(s) \in Nat
  <2>1. /\ Append(s, e) \in Seq(S)
        /\ Len(Append(s, e)) = Len(s) + 1
        /\ \A i \in 1 .. Len(s) : Append(s, e)[i] = s[i]
        /\ Append(s, e)[Len(s) + 1] = e
    BY AppendProperties
  <2>2. /\ DOMAIN s = 1 .. Len(s) /\ Len(s) \in Nat
        /\ DOMAIN Append(s, e) = 1 .. Len(Append(s, e))
    BY <2>1, LenProperties
  <2> QED
    BY <2>1, <2>2
<1>2. Range(Append(s, e)) = Range(s) \cup {e}
  <2>1. \A i \in DOMAIN s : i \in DOMAIN Append(s, e) /\ Append(s, e)[i] = s[i]
    BY <1>1
  <2>2. \A i \in DOMAIN Append(s, e) : i \in DOMAIN s \/ i = Len(s) + 1
    BY <1>1
  <2>3. Len(s) + 1 \in DOMAIN Append(s, e)
    BY <1>1
  <2> QED
    BY <1>1, <2>1, <2>2, <2>3 DEF Range
<1>3. ASSUME IsInjective(s), e \notin Range(s)
      PROVE  IsInjective(Append(s, e))
  <2> SUFFICES ASSUME NEW a \in 1 .. (Len(s) + 1), NEW b \in 1 .. (Len(s) + 1),
                      Append(s, e)[a] = Append(s, e)[b]
               PROVE  a = b
    BY <1>1 DEF IsInjective
  <2>1. CASE a \in 1 .. Len(s) /\ b \in 1 .. Len(s)
    BY <1>1, <1>3, <2>1 DEF IsInjective
  <2>2. CASE a = Len(s) + 1 /\ b \in 1 .. Len(s)
    BY <1>1, <1>3, <2>2 DEF Range
  <2>3. CASE b = Len(s) + 1 /\ a \in 1 .. Len(s)
    BY <1>1, <1>3, <2>3 DEF Range
  <2> QED
    BY <1>1, <2>1, <2>2, <2>3
<1> QED
  BY <1>1, <1>2, <1>3

LEMMA InvInit == Init => Inv
<1> SUFFICES ASSUME Init PROVE Inv
  OBVIOUS
<1>1. <<>> \in Seq(STRING) /\ Range(<<>>) = {} /\ IsInjective(<<>>) /\ Len(<<>>) = 0
  BY DEF Range, IsInjective
<1>2. TypeOK
  BY <1>1 DEF Init, TypeOK
<1>3. {ids[i] : i \in 1 .. (1 - 1)} = {}
  OBVIOUS
<1>4. Progress
  BY <1>1, <1>3 DEF Init, Progress, Before
<1>5. NoPolicyTwice
  BY <1>1 DEF Init, NoPolicyTwice
<1> QED
  BY <1>2, <1>4, <1>5 DEF Inv

\* The lists that are collected are sequences of ids.
LEMMA CollectStep ==
    ASSUME Inv, NEW more \in Seq(STRING),
           NEW next \in {"tenant", "profile", "selected", "lookup"},
           Before, Collect(more, next)
    PROVE  Inv'
<1>1. ids' \in Seq(STRING) /\ Len(ids') \in Nat
  <2>1. ids \in Seq(STRING) /\ ids' = ids \o more
    BY DEF Inv, TypeOK, Collect
  <2> QED
    BY <2>1, ConcatProperties, LenProperties
<1>2. k = 1 /\ k' = 1 /\ outcome = "none" /\ outcome' = "none"
  BY DEF Inv, Progress, Collect, Before
<1>3. {ids[i] : i \in 1 .. (k - 1)} = {} /\ {ids'[i] : i \in 1 .. (k' - 1)} = {}
  BY <1>2
<1>4. TypeOK'
  BY <1>1 DEF Inv, TypeOK, Collect, call
<1>5. Progress'
  BY <1>1, <1>2, <1>3 DEF Inv, Progress, Collect, call, SupportsStage
<1>6. NoPolicyTwice'
  BY DEF Inv, NoPolicyTwice, Collect
<1> QED
  BY <1>4, <1>5, <1>6 DEF Inv

\* One more id is behind k.
LEMMA NextId ==
    ASSUME Inv, Looking, k' = k + 1, UNCHANGED ids
    PROVE  /\ k \in 1 .. Len(ids) /\ Id \in STRING
           /\ k' \in Nat \ {0} /\ k' <= Len(ids) + 1
           /\ {ids'[i] : i \in 1 .. (k' - 1)} = {ids[i] : i \in 1 .. (k - 1)} \cup {Id}
<1>1. k \in 1 .. Len(ids) /\ ids \in Seq(STRING) /\ Len(ids) \in Nat
  <2>1. ids \in Seq(STRING) /\ k \in Nat \ {0} /\ k <= Len(ids)
    BY DEF Inv, TypeOK, Looking
  <2>2. Len(ids) \in Nat
    BY <2>1
  <2> QED
    BY <2>1, <2>2
<1>2. 1 .. (k' - 1) = (1 .. (k - 1)) \cup {k}
  BY <1>1
<1> QED
  BY <1>1, <1>2 DEF Id

LEMMA InvStep == Inv /\ [Next]_vars => Inv'
<1> SUFFICES ASSUME Inv, [Next]_vars PROVE Inv'
  OBVIOUS
<1>1. CASE CollectPlatform
  BY <1>1, CollectStep, ConfigsAssumption
  DEF CollectPlatform, Inv, TypeOK, Before
<1>2. CASE CollectTenant
  <2> DEFINE more == IF request.tenant \in DOMAIN config.tenants
                     THEN config.tenants[request.tenant] ELSE <<>>
  <2>1. more \in Seq(STRING)
    BY EmptySeq, ConfigsAssumption DEF Inv, TypeOK
  <2>2. Before /\ Collect(more, "profile")
    BY <1>2 DEF CollectTenant, Before
  <2> HIDE DEF more
  <2> QED
    BY <2>1, <2>2, CollectStep
<1>3. CASE CollectProfile
  <2> DEFINE more == IF request.profile = NoProfile THEN <<>>
                     ELSE config.profiles[request.profile]
  <2>1. more \in Seq(STRING)
    BY <1>3, EmptySeq, ConfigsAssumption DEF CollectProfile, Inv, TypeOK
  <2>2. Before /\ Collect(more, "selected")
    BY <1>3 DEF CollectProfile, Before
  <2> HIDE DEF more
  <2> QED
    BY <2>1, <2>2, CollectStep
<1>4. CASE CollectSelected
  BY <1>4, CollectStep, RequestsAssumption
  DEF CollectSelected, Inv, TypeOK, Before
<1>5. CASE UnknownProfile
  BY <1>5 DEF UnknownProfile, Fail, call, Inv, TypeOK, Progress, Before,
              SupportsStage, NoPolicyTwice
<1>6. CASE UnknownPolicy
  BY <1>6 DEF UnknownPolicy, Looking, Fail, call, Inv, TypeOK, Progress, Before,
              SupportsStage, NoPolicyTwice
<1>7. CASE SkipSeen
  <2>1. /\ {ids'[i] : i \in 1 .. (k' - 1)} = seen
        /\ k' \in Nat \ {0} /\ k' <= Len(ids) + 1
    BY <1>7, NextId DEF SkipSeen, Inv, Progress
  <2> QED
    BY <1>7, <2>1
    DEF SkipSeen, Looking, call, Inv, TypeOK, Progress, Before, SupportsStage,
        NoPolicyTwice
<1>8. CASE LookUp
  <2>1. /\ {ids'[i] : i \in 1 .. (k' - 1)} = seen' /\ Id \in STRING
        /\ k' \in Nat \ {0} /\ k' <= Len(ids) + 1
    BY <1>8, NextId DEF LookUp, Inv, Progress
  <2>2. /\ resolved \in Seq(STRING) /\ IsInjective(resolved)
        /\ Range(resolved) = {id \in seen : SupportsStage(id)}
        /\ Id \notin Range(resolved)
    BY <1>8 DEF LookUp, Inv, TypeOK, Progress, NoPolicyTwice
  <2>3. /\ resolved' \in Seq(STRING) /\ IsInjective(resolved')
        /\ Range(resolved') = {id \in seen' : SupportsStage(id)}
    <3>1. CASE SupportsStage(Id)
      <4>1. resolved' = Append(resolved, Id) /\ seen' = seen \cup {Id}
        BY <1>8, <3>1 DEF LookUp
      <4>2. /\ Append(resolved, Id) \in Seq(STRING)
            /\ Range(Append(resolved, Id)) = Range(resolved) \cup {Id}
            /\ IsInjective(Append(resolved, Id))
        BY <2>1, <2>2, AppendNew
      <4> QED
        BY <2>2, <3>1, <4>1, <4>2
    <3>2. CASE ~SupportsStage(Id)
      BY <1>8, <2>2, <3>2 DEF LookUp
    <3> QED
      BY <3>1, <3>2
  <2>4. UNCHANGED <<config, request, ids, outcome, pc>> /\ pc = "lookup"
    BY <1>8 DEF LookUp, Looking, call
  <2>5. \A id : SupportsStage(id)' = SupportsStage(id)
    BY <2>4 DEF SupportsStage
  <2>6. TypeOK'
    BY <1>8, <2>1, <2>3, <2>4 DEF LookUp, Inv, TypeOK
  <2>7. Progress'
    <3>1. seen' \subseteq DOMAIN config'.policies
      BY <1>8, <2>4 DEF LookUp, Inv, Progress
    <3>2. Range(resolved') = {id \in seen' : SupportsStage(id)'}
      BY <2>3, <2>5
    <3>3. outcome' = "none"
      BY <2>4 DEF Inv, Progress
    <3> QED
      BY <2>1, <2>4, <3>1, <3>2, <3>3 DEF Progress, Before
  <2> QED
    BY <2>3, <2>6, <2>7 DEF Inv, NoPolicyTwice
<1>9. CASE Return
  <2>1. k = Len(ids) + 1
    BY <1>9 DEF Return, Inv, TypeOK, Progress
  <2> QED
    BY <1>9, <2>1 DEF Return, call, Inv, TypeOK, Progress, Before, SupportsStage,
                      NoPolicyTwice
<1>10. CASE UNCHANGED vars
  BY <1>10 DEF vars, Inv, TypeOK, Progress, Before, SupportsStage, NoPolicyTwice
<1> QED
  BY <1>1, <1>2, <1>3, <1>4, <1>5, <1>6, <1>7, <1>8, <1>9, <1>10 DEF Next, Terminated

\* No policy is resolved twice, for every configuration and request.
THEOREM PoliciesAreDistinct == Spec => []NoPolicyTwice
<1>1. Inv => NoPolicyTwice
  BY DEF Inv
<1> QED
  BY <1>1, InvInit, InvStep, PTL DEF Spec

\* What is resolved is all that was asked for and supports the stage, for every
\* configuration and request.
THEOREM ResolutionIsComplete == Spec => []NothingIgnored
<1>1. Inv => NothingIgnored
  <2> SUFFICES ASSUME Inv, outcome = "ok"
               PROVE  /\ Range(ids) \subseteq DOMAIN config.policies
                      /\ Range(resolved) = Supported(ids)
    BY DEF NothingIgnored
  <2>1. ids \in Seq(STRING) /\ Len(ids) \in Nat /\ k = Len(ids) + 1
    BY DEF Inv, TypeOK, Progress
  <2>2. 1 .. (k - 1) = DOMAIN ids
    BY <2>1
  <2>3. seen = Range(ids)
    BY <2>2 DEF Inv, Progress, Range
  <2> QED
    BY <2>3 DEF Inv, Progress, Supported
<1> QED
  BY <1>1, InvInit, InvStep, PTL DEF Spec

-----------------------------------------------------------------------------
(* The order of the result. *)

Begins(s, t) == Len(s) <= Len(t) /\ \A n \in 1 .. Len(s) : t[n] = s[n]

\* What is collected begins with the platform's policies, and then the tenant's.
Collected ==
    /\ PlatformKnown(config)
    /\ pc = "platform" => ids = <<>>
    /\ pc = "tenant" => ids = config.platform
    /\ pc \notin {"platform", "tenant"} => Begins(Mandatory, ids)

MandatoryBeforeOthers ==
    \A a, b \in DOMAIN resolved :
        resolved[b] \in Range(Mandatory) /\ a < b => resolved[a] \in Range(Mandatory)

OrderInv ==
    /\ Inv /\ Collected /\ MandatoryBeforeOthers
    /\ PlatformNeverRejects

LEMMA MandatoryType ==
    ASSUME Inv
    PROVE  /\ config.platform \in Seq(STRING) /\ TenantPolicies \in Seq(STRING)
           /\ Mandatory \in Seq(STRING)
           /\ Len(config.platform) \in Nat /\ Len(Mandatory) \in Nat
           /\ Begins(config.platform, Mandatory)
<1>1. config.platform \in Seq(STRING) /\ TenantPolicies \in Seq(STRING)
  BY EmptySeq, ConfigsAssumption DEF Inv, TypeOK, TenantPolicies
<1> QED
  BY <1>1, ConcatProperties, LenProperties DEF Mandatory, Begins

\* Appending a list keeps the beginning.
LEMMA BeginsAppended ==
    ASSUME NEW s \in Seq(STRING), NEW t \in Seq(STRING), NEW more \in Seq(STRING),
           Begins(s, t)
    PROVE  Begins(s, t \o more)
BY ConcatProperties, LenProperties DEF Begins

\* Only a mandatory id can stand at an index of the mandatory list.
LEMMA IndexIsMandatory ==
    ASSUME Inv, Begins(Mandatory, ids), NEW n \in Nat \ {0}, n <= Len(Mandatory)
    PROVE  /\ ids[n] \in Range(Mandatory)
           /\ n <= Len(config.platform) => ids[n] \in Range(config.platform)
<1>1. /\ Mandatory \in Seq(STRING) /\ config.platform \in Seq(STRING)
      /\ Len(config.platform) \in Nat /\ Len(Mandatory) \in Nat
      /\ Begins(config.platform, Mandatory)
  BY MandatoryType
<1>2. ids[n] = Mandatory[n] /\ n \in DOMAIN Mandatory
  BY <1>1 DEF Begins
<1>3. n <= Len(config.platform) => ids[n] = config.platform[n] /\ n \in DOMAIN config.platform
  BY <1>1, <1>2 DEF Begins
<1> QED
  BY <1>2, <1>3 DEF Range

\* A mandatory id that was not looked at yet comes before every other one.
LEMMA NothingElseYet ==
    ASSUME Inv, Begins(Mandatory, ids), Looking, Id \in Range(Mandatory), Id \notin seen
    PROVE  seen \subseteq Range(Mandatory)
<1>1. /\ Mandatory \in Seq(STRING) /\ Len(Mandatory) \in Nat
      /\ ids \in Seq(STRING) /\ k \in Nat \ {0} /\ Len(Mandatory) <= Len(ids)
      /\ seen = {ids[n] : n \in 1 .. (k - 1)}
  BY MandatoryType DEF Inv, TypeOK, Progress, Begins
<1>2. PICK m \in 1 .. Len(Mandatory) : Id = Mandatory[m]
  BY <1>1 DEF Range
<1>3. Id = ids[m]
  BY <1>2 DEF Begins
<1>4. ~(m \in 1 .. (k - 1))
  BY <1>1, <1>3
<1>5. k <= Len(Mandatory)
  BY <1>1, <1>2, <1>4
<1> SUFFICES ASSUME NEW n \in 1 .. (k - 1) PROVE ids[n] \in Range(Mandatory)
  BY <1>1
<1> QED
  BY <1>1, <1>5, IndexIsMandatory

LEMMA OrderInit == Init => OrderInv
<1> SUFFICES ASSUME Init PROVE OrderInv
  OBVIOUS
<1>1. Inv
  BY InvInit
<1>2. DOMAIN resolved = {}
  BY DEF Init
<1> QED
  BY <1>1, <1>2 DEF Init, OrderInv, Collected, MandatoryBeforeOthers, PlatformNeverRejects

\* The steps that collect leave the result alone.
LEMMA OrderCollect ==
    ASSUME OrderInv, CollectPlatform \/ CollectTenant \/ CollectProfile \/ CollectSelected
    PROVE  Collected' /\ MandatoryBeforeOthers' /\ PlatformNeverRejects'
<1>1. /\ UNCHANGED <<config, request, resolved, outcome>> /\ outcome = "none"
      /\ Mandatory' = Mandatory /\ PlatformKnown(config)
  BY DEF OrderInv, Inv, Progress, Collected, CollectPlatform, CollectTenant, CollectProfile,
         CollectSelected, Collect, call, Mandatory, TenantPolicies
<1>2. /\ config.platform \in Seq(STRING) /\ TenantPolicies \in Seq(STRING)
      /\ Mandatory \in Seq(STRING) /\ Len(Mandatory) \in Nat
  BY MandatoryType DEF OrderInv
<1>3. MandatoryBeforeOthers' /\ PlatformNeverRejects'
  BY <1>1 DEF OrderInv, MandatoryBeforeOthers, PlatformNeverRejects
<1>4. CASE CollectPlatform
  <2>1. ids' = config.platform
    BY <1>2, <1>4, ConcatEmptySeq DEF CollectPlatform, Collect, OrderInv, Collected
  <2> QED
    BY <1>1, <1>3, <1>4, <2>1 DEF CollectPlatform, Collect, Collected
<1>5. CASE CollectTenant
  <2>1. ids' = Mandatory
    BY <1>5 DEF CollectTenant, Collect, OrderInv, Collected, Mandatory, TenantPolicies
  <2>2. Begins(Mandatory, ids')
    BY <1>2, <2>1 DEF Begins
  <2> QED
    BY <1>1, <1>3, <1>5, <2>2 DEF CollectTenant, Collect, Collected, Begins
<1>6. CASE CollectProfile \/ CollectSelected
  <2>1. PICK more \in Seq(STRING) : ids' = ids \o more
    <3>1. CASE CollectSelected
      BY <3>1, RequestsAssumption DEF CollectSelected, Collect, OrderInv, Inv, TypeOK
    <3>2. CASE CollectProfile
      <4> DEFINE more == IF request.profile = NoProfile THEN <<>>
                         ELSE config.profiles[request.profile]
      <4>1. more \in Seq(STRING)
        BY <3>2, EmptySeq, ConfigsAssumption DEF CollectProfile, OrderInv, Inv, TypeOK
      <4>2. ids' = ids \o more
        BY <3>2 DEF CollectProfile, Collect
      <4> QED
        BY <4>1, <4>2
    <3> QED
      BY <1>6, <3>1, <3>2
  <2>2. ids \in Seq(STRING) /\ Begins(Mandatory, ids)
    BY <1>6 DEF CollectProfile, CollectSelected, OrderInv, Inv, TypeOK, Collected
  <2>3. Begins(Mandatory, ids')
    BY <1>2, <2>1, <2>2, BeginsAppended
  <2>4. pc' \in {"selected", "lookup"}
    BY <1>6 DEF CollectProfile, CollectSelected, Collect
  <2> QED
    BY <1>1, <1>3, <2>3, <2>4 DEF Collected, Begins
<1> QED
  BY <1>4, <1>5, <1>6

LEMMA OrderLookUp ==
    ASSUME OrderInv, LookUp
    PROVE  MandatoryBeforeOthers'
<1>1. /\ Looking /\ Id \notin seen /\ UNCHANGED <<config, request, ids>>
      /\ Begins(Mandatory, ids) /\ Mandatory' = Mandatory
  BY DEF LookUp, Looking, call, OrderInv, Collected, Mandatory, TenantPolicies
<1>2. resolved \in Seq(STRING) /\ Range(resolved) \subseteq seen
  BY DEF OrderInv, Inv, TypeOK, Progress
<1>3. CASE resolved' = resolved
  BY <1>1, <1>3 DEF OrderInv, MandatoryBeforeOthers
<1>4. CASE resolved' = Append(resolved, Id)
  <2>1. /\ DOMAIN resolved' = 1 .. (Len(resolved) + 1) /\ Len(resolved) \in Nat
        /\ \A n \in 1 .. Len(resolved) : resolved'[n] = resolved[n] /\ resolved[n] \in Range(resolved)
        /\ resolved'[Len(resolved) + 1] = Id
    BY <1>2, <1>4 DEF Range
  <2> SUFFICES ASSUME NEW a \in 1 .. (Len(resolved) + 1), NEW b \in 1 .. (Len(resolved) + 1),
                      resolved'[b] \in Range(Mandatory), a < b
               PROVE  resolved'[a] \in Range(Mandatory)
    BY <1>1, <2>1 DEF MandatoryBeforeOthers
  <2>2. CASE b = Len(resolved) + 1
    <3>1. seen \subseteq Range(Mandatory)
      BY <1>1, <2>1, <2>2, NothingElseYet DEF OrderInv
    <3> QED
      BY <1>2, <2>1, <2>2, <3>1
  <2>3. CASE b \in 1 .. Len(resolved)
    <3>1. a \in DOMAIN resolved /\ b \in DOMAIN resolved
      BY <1>2, <2>1, <2>3
    <3> QED
      BY <2>1, <2>3, <3>1 DEF OrderInv, MandatoryBeforeOthers
  <2> QED
    BY <2>1, <2>2, <2>3
<1> QED
  BY <1>3, <1>4 DEF LookUp

LEMMA OrderStep == OrderInv /\ [Next]_vars => OrderInv'
<1> SUFFICES ASSUME OrderInv, [Next]_vars PROVE OrderInv'
  OBVIOUS
<1>1. Inv'
  BY InvStep DEF OrderInv
<1>2. CASE CollectPlatform \/ CollectTenant \/ CollectProfile \/ CollectSelected
  BY <1>1, <1>2, OrderCollect DEF OrderInv
<1>3. ASSUME UNCHANGED <<config, request, ids>>,
             pc' = pc \/ {pc, pc'} \cap {"platform", "tenant"} = {}
      PROVE  Collected' /\ Mandatory' = Mandatory
  BY <1>3 DEF OrderInv, Collected, Begins, Mandatory, TenantPolicies
<1>4. CASE LookUp
  <2>1. MandatoryBeforeOthers'
    BY <1>4, OrderLookUp
  <2>2. outcome' = "none"
    BY <1>4 DEF LookUp, Looking, OrderInv, Inv, Progress
  <2> QED
    BY <1>1, <1>3, <1>4, <2>1, <2>2 DEF LookUp, call, OrderInv, PlatformNeverRejects
<1>5. CASE UnknownPolicy
  <2>1. /\ UNCHANGED <<config, request, ids, k, resolved>> /\ pc = "lookup" /\ pc' = "done"
        /\ Begins(Mandatory, ids) /\ k \in Nat \ {0} /\ PlatformKnown(config)
        /\ ids[k] \notin DOMAIN config.policies
    BY <1>5 DEF UnknownPolicy, Looking, Fail, call, Id, OrderInv, Inv, TypeOK, Collected
  <2>2. Len(config.platform) \in Nat /\ Len(Mandatory) \in Nat
        /\ Len(config.platform) <= Len(Mandatory)
    BY MandatoryType DEF OrderInv, Begins
  <2>3. ~(k <= Len(config.platform))
    <3> SUFFICES ASSUME k <= Len(config.platform) PROVE FALSE
      OBVIOUS
    <3>1. k <= Len(Mandatory)
      BY <2>1, <2>2
    <3>2. ids[k] \in Range(config.platform)
      BY <2>1, <3>1, IndexIsMandatory DEF OrderInv
    <3> QED
      BY <2>1, <3>2 DEF PlatformKnown
  <2>4. k' > Len(config'.platform)
    BY <2>1, <2>2, <2>3
  <2>5. Collected' /\ Mandatory' = Mandatory
    BY <1>3, <2>1
  <2> QED
    BY <1>1, <2>1, <2>4, <2>5 DEF OrderInv, MandatoryBeforeOthers, PlatformNeverRejects
<1>6. CASE UnknownProfile
  <2>1. /\ UNCHANGED <<config, request, ids, k, resolved>> /\ pc = "profile" /\ pc' = "done"
        /\ outcome' = "unknown profile"
    BY <1>6 DEF UnknownProfile, Fail, call
  <2> QED
    BY <1>1, <1>3, <2>1 DEF OrderInv, MandatoryBeforeOthers, PlatformNeverRejects
<1>7. CASE SkipSeen \/ Return
  <2>1. /\ UNCHANGED <<config, request, ids, resolved>> /\ pc = "lookup" /\ pc' \in {"lookup", "done"}
        /\ outcome' \in {"none", "ok"}
    BY <1>7 DEF SkipSeen, Return, Looking, call, OrderInv, Inv, Progress
  <2> QED
    BY <1>1, <1>3, <2>1 DEF OrderInv, MandatoryBeforeOthers, PlatformNeverRejects
<1>8. CASE UNCHANGED vars
  BY <1>1, <1>3, <1>8 DEF vars, OrderInv, MandatoryBeforeOthers, PlatformNeverRejects
<1> QED
  BY <1>2, <1>4, <1>5, <1>6, <1>7, <1>8 DEF Next, Terminated

\* No request can put a policy of its own before a mandatory one, or suppress a
\* mandatory one of its stage, for every configuration and request.
THEOREM MandatoryComeFirst == Spec => []MandatoryFirst
<1>1. OrderInv => MandatoryFirst
  <2> SUFFICES ASSUME OrderInv, outcome = "ok"
               PROVE  Supported(Mandatory) \subseteq Range(resolved)
    BY DEF OrderInv, MandatoryBeforeOthers, MandatoryFirst
  <2>1. /\ ids \in Seq(STRING) /\ Len(ids) \in Nat /\ k = Len(ids) + 1
        /\ Mandatory \in Seq(STRING) /\ Len(Mandatory) \in Nat
    BY MandatoryType DEF OrderInv, Inv, TypeOK, Progress
  <2>2. seen = {ids[n] : n \in 1 .. Len(ids)}
    BY <2>1 DEF OrderInv, Inv, Progress
  <2>3. Begins(Mandatory, ids)
    BY DEF OrderInv, Collected, Inv, Progress
  <2>4. Range(Mandatory) \subseteq seen
    <3> SUFFICES ASSUME NEW n \in 1 .. Len(Mandatory) PROVE Mandatory[n] \in seen
      BY <2>1 DEF Range
    <3> QED
      BY <2>1, <2>2, <2>3 DEF Begins
  <2> QED
    BY <2>4 DEF OrderInv, Inv, Progress, Supported
<1> QED
  BY <1>1, OrderInit, OrderStep, PTL DEF Spec

\* What NewResolver checked of the platform's policies is never missed by a
\* request, for every configuration and request.
THEOREM PlatformIsAlwaysKnown == Spec => []PlatformNeverRejects
<1>1. OrderInv => PlatformNeverRejects
  BY DEF OrderInv
<1> QED
  BY <1>1, OrderInit, OrderStep, PTL DEF Spec

=============================================================================

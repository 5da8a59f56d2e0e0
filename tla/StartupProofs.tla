--------------------------- MODULE StartupProofs ----------------------------
(***************************************************************************)
(* Theorems about Startup, for any configuration file.  The service starts  *)
(* with exactly the valid files; what the other modules assume of the       *)
(* compiled policies is what NewResolver leaves; each policy is compiled as *)
(* it was written, and each token opens what its principal was given.       *)
(***************************************************************************)
EXTENDS Startup, TLAPS

\* What Load leaves: timeouts are numbers.
LoadedDetector == [id : STRING, timeout : Int, kinds : SUBSET Kind, settings : Settings]
LoadedPolicy == [id : STRING, version : Int, action : STRING, mode : STRING,
                 timeout : Int, detectors : Seq(LoadedDetector)]

Indices ==
    /\ i \in Nat \ {0} /\ j \in Nat \ {0}
    /\ pc = "detectors" => i <= Len(loaded)

\* The policies accepted so far are sound, and so is the one that is being
\* compiled, with the detectors it has by now.
Inv ==
    /\ source \in Sources
    /\ loaded \in Seq(LoadedPolicy)
    /\ Indices
    /\ pc = "detectors" => building \in PolicyConfig
    /\ AcceptedIsSound

\* A timeout Load can read becomes a number.
LEMMA TimeoutType ==
    ASSUME NEW t \in Written, Readable(t), NEW default \in Int
    PROVE  Timeout(t, default) \in Int
BY DEF Readable, Timeout, Written

\* Load leaves a policy whose timeouts are numbers.
LEMMA LoadedType == Inv /\ LoadPolicy => loaded' \in Seq(LoadedPolicy)
<1> SUFFICES ASSUME Inv, LoadPolicy PROVE loaded' \in Seq(LoadedPolicy)
  OBVIOUS
<1> DEFINE p == source.policies[i]
           detector(d) == [d EXCEPT !.timeout = Timeout(@, 0)]
           q == [p EXCEPT !.timeout = Timeout(@, DefaultTimeout),
                          !.detectors = [n \in DOMAIN @ |-> detector(@[n])]]
<1>1. p \in SourcePolicy /\ AllReadable(p)
  BY SourcesAssumption DEF Inv, Indices, Source, LoadPolicy
<1>2. Timeout(p.timeout, DefaultTimeout) \in Int
  BY <1>1, TimeoutType, TimeoutAssumption DEF AllReadable, SourcePolicy
<1>3. ASSUME NEW n \in DOMAIN p.detectors
      PROVE  detector(p.detectors[n]) \in LoadedDetector
  <2>1. p.detectors[n] \in SourceDetector /\ Readable(p.detectors[n].timeout)
    BY <1>1 DEF SourcePolicy, AllReadable, Range
  <2>2. Timeout(p.detectors[n].timeout, 0) \in Int
    BY <2>1, TimeoutType DEF SourceDetector
  <2> QED
    BY <2>1, <2>2 DEF SourceDetector, LoadedDetector
<1>4. [n \in DOMAIN p.detectors |-> detector(p.detectors[n])] \in Seq(LoadedDetector)
  <2>1. p.detectors \in Seq(SourceDetector)
    BY <1>1 DEF SourcePolicy
  <2> HIDE DEF p, detector
  <2> QED
    BY <2>1, <1>3
<1>5. q \in LoadedPolicy
  <2> HIDE DEF detector
  <2> QED
    BY <1>1, <1>2, <1>4 DEF SourcePolicy, LoadedPolicy
<1>6. loaded' = Append(loaded, q)
  BY DEF LoadPolicy
<1> QED
  BY <1>5, <1>6 DEF Inv

\* A policy without detectors is sound.
LEMMA EmptyIsSound ==
    ASSUME NEW id \in STRING, NEW action \in Action, NEW mode \in FailureMode,
           NEW timeout \in Nat \ {0}
    PROVE  [id |-> id, action |-> action, mode |-> mode, timeout |-> timeout,
            detectors |-> <<>>] \in PolicyConfig
<1> DEFINE q == [id |-> id, action |-> action, mode |-> mode, timeout |-> timeout,
                 detectors |-> <<>>]
<1>1. <<>> \in Seq(DetectorConfig) /\ DOMAIN <<>> = {}
  OBVIOUS
<1>2. q \in [id : STRING, action : Action, mode : FailureMode,
             timeout : Nat \ {0}, detectors : Seq(DetectorConfig)]
  BY <1>1
<1>3. DOMAIN q.detectors = {}
  BY <1>1
<1> HIDE DEF q
<1>4. q \in PolicyConfig
  BY <1>2, <1>3 DEF PolicyConfig
<1> QED
  BY <1>4 DEF q

\* A policy without detectors that passes is sound.
LEMMA BeginIsSound == Inv /\ BeginPolicy => building' \in PolicyConfig
<1> SUFFICES ASSUME Inv, BeginPolicy PROVE building' \in PolicyConfig
  OBVIOUS
<1>1. loaded[i] \in LoadedPolicy /\ PolicyPasses(loaded[i])
  BY DEF Inv, Indices, BeginPolicy
<1>2. EffectiveMode(loaded[i].mode) \in FailureMode
  BY <1>1 DEF PolicyPasses, EffectiveMode, FailureMode
<1> DEFINE timeout == IF loaded[i].timeout = 0 THEN DefaultTimeout ELSE loaded[i].timeout
<1>3. loaded[i].id \in STRING /\ loaded[i].action \in Action /\ timeout \in Nat \ {0}
  <2>1. DefaultTimeout \in Nat \ {0}
    BY ZenonT(30), TimeoutAssumption
  <2>2. loaded[i].timeout \in Int /\ loaded[i].timeout >= 0
    BY <1>1 DEF PolicyPasses, LoadedPolicy
  <2>3. timeout \in Nat \ {0}
    BY <2>1, <2>2
  <2> QED
    BY <1>1, <2>3 DEF PolicyPasses, LoadedPolicy
<1> HIDE DEF timeout
<1>4. building' = [id |-> loaded[i].id, action |-> loaded[i].action,
                   mode |-> EffectiveMode(loaded[i].mode), timeout |-> timeout,
                   detectors |-> <<>>]
  BY DEF BeginPolicy, timeout
<1> QED
  BY <1>2, <1>3, <1>4, EmptyIsSound

\* A detector that passes keeps the policy sound.
LEMMA DetectorIsSound == Inv /\ CompileDetector => building' \in PolicyConfig
<1> SUFFICES ASSUME Inv, CompileDetector PROVE building' \in PolicyConfig
  OBVIOUS
<1> DEFINE d == Detectors[j]
           compiled == [timeout |-> EffectiveTimeout(d), replaces |-> d.kinds \subseteq Replacing]
<1>1. loaded[i] \in LoadedPolicy
  BY DEF Inv, Indices, CompileDetector
<1>2. d \in LoadedDetector /\ DetectorPasses(d)
  BY <1>1 DEF LoadedPolicy, Detectors, CompileDetector, Inv, Indices
<1>3. building \in PolicyConfig
  BY DEF Inv, CompileDetector
<1>4. EffectiveTimeout(d) \in Nat \ {0} /\ EffectiveTimeout(d) <= building.timeout
  <2>1. d.timeout \in Int /\ building.timeout \in Nat
    BY <1>2, <1>3 DEF LoadedDetector, PolicyConfig
  <2>2. EffectiveTimeout(d) \in Int
    BY <2>1 DEF EffectiveTimeout
  <2>3. EffectiveTimeout(d) > 0 /\ EffectiveTimeout(d) <= building.timeout
    BY <1>2 DEF DetectorPasses
  <2> QED
    BY <2>2, <2>3
<1>5. (d.kinds \subseteq Replacing) \in BOOLEAN
  OBVIOUS
<1>6. compiled \in DetectorConfig
  BY <1>4, <1>5 DEF DetectorConfig
<1>7. building' = [building EXCEPT !.detectors = Append(@, compiled)]
  BY DEF CompileDetector
<1>8. building.action = "redact" => compiled.replaces
  BY <1>2 DEF DetectorPasses
<1>9. compiled.timeout <= building.timeout
  BY <1>4
<1> HIDE DEF compiled
<1> DEFINE ds == Append(building.detectors, compiled)
<1>10. building.detectors \in Seq(DetectorConfig)
  BY <1>3 DEF PolicyConfig
<1>11. ds \in Seq(DetectorConfig)
  BY <1>6, <1>10
<1>12. \A n \in DOMAIN ds : /\ ds[n].timeout <= building.timeout
                            /\ building.action = "redact" => ds[n].replaces
  BY <1>3, <1>8, <1>9, <1>10, <1>6 DEF PolicyConfig
<1> HIDE DEF ds
<1>13. building' = [building EXCEPT !.detectors = ds]
  BY <1>7 DEF ds
<1> QED
  BY <1>3, <1>11, <1>12, <1>13 DEF PolicyConfig

\* A sound policy joins the sound ones.
LEMMA EndIsSound == Inv /\ EndPolicy => Range(policies') \subseteq PolicyConfig
<1> SUFFICES ASSUME Inv, EndPolicy, NEW c \in Range(policies') PROVE c \in PolicyConfig
  OBVIOUS
<1> DEFINE id == CanonicalID(loaded[i])
<1>1. policies' = [x \in DOMAIN policies \cup {id} |-> IF x = id THEN building ELSE policies[x]]
  BY DEF EndPolicy
<1>2. PICK x \in DOMAIN policies' : c = policies'[x]
  BY DEF Range
<1>3. c = building \/ c \in Range(policies)
  BY <1>1, <1>2 DEF Range
<1> QED
  BY <1>3 DEF Inv, AcceptedIsSound, EndPolicy

\* The invariant holds before anything is read.
LEMMA InvInit == Init => Inv
<1> SUFFICES ASSUME Init PROVE Inv
  OBVIOUS
<1>1. Range(policies) = {}
  BY DEF Init, Range
<1> QED
  BY <1>1 DEF Init, Inv, Indices, AcceptedIsSound

\* Every step preserves the invariant.
LEMMA InvStep == Inv /\ [Next]_vars => Inv'
<1> SUFFICES ASSUME Inv, [Next]_vars PROVE Inv'
  OBVIOUS
<1>1. CASE LoadPolicy
  BY <1>1, LoadedType DEF Inv, Indices, AcceptedIsSound, LoadPolicy
<1>2. CASE Loaded \/ AddPrincipal \/ PrincipalsAdded \/ PoliciesCompiled \/ FileProfile
  BY <1>2 DEF Inv, Indices, AcceptedIsSound, Loaded, AddPrincipal, PrincipalsAdded,
              PoliciesCompiled, FileProfile
<1>3. CASE BeginPolicy
  BY <1>3, BeginIsSound DEF Inv, Indices, AcceptedIsSound, BeginPolicy
<1>4. CASE CompileDetector
  BY <1>4, DetectorIsSound DEF Inv, Indices, AcceptedIsSound, CompileDetector
<1>5. CASE EndPolicy
  <2>1. Range(policies') \subseteq PolicyConfig
    BY <1>5, EndIsSound
  <2>2. /\ pc' = "compile" /\ i' = i + 1
        /\ UNCHANGED <<source, j, loaded, building>>
    BY <1>5 DEF EndPolicy
  <2> QED
    BY <2>1, <2>2 DEF Inv, Indices, AcceptedIsSound
<1>6. CASE Listen
  BY <1>6 DEF Inv, Indices, AcceptedIsSound, Listen
<1>7. CASE RefuseToLoad \/ RefusePrincipals \/ RefusePolicy \/ RefuseDetector
           \/ RefuseDuplicate \/ RefusePlatform
  BY <1>7 DEF Inv, Indices, AcceptedIsSound, Refuse, RefuseToLoad, RefusePrincipals,
              RefusePolicy, RefuseDetector, RefuseDuplicate, RefusePlatform
<1>8. CASE Terminated \/ UNCHANGED vars
  BY <1>8 DEF Inv, Indices, AcceptedIsSound, Terminated, vars
<1> QED
  BY <1>1, <1>2, <1>3, <1>4, <1>5, <1>6, <1>7, <1>8 DEF Next

\* Whatever the configuration file, every policy the resolver may hand out is
\* one the evaluator can rely on, and the platform's policies exist once the
\* service listens (resolver.go:36-138).
THEOREM AcceptedPoliciesAreSound == Spec => []AcceptedIsSound
<1>1. Inv => AcceptedIsSound
  BY DEF Inv
<1> QED
  BY <1>1, InvInit, InvStep, PTL DEF Spec

-----------------------------------------------------------------------------
(* The credentials. *)

Matches(s, who) ==
    /\ who.id = s.id
    /\ who.allTenants = ("*" \in s.tenants) /\ who.tenants = s.tenants \ {"*"}
    /\ <<who.allowTenantless, who.policyReader, who.metricsReader>>
           = <<s.allowTenantless, s.policyReader, s.metricsReader>>

\* The first n principals, and nobody else, are known by their tokens.
Registered(n) ==
    /\ DOMAIN byToken = {source.principals[m].token : m \in 1 .. n}
    /\ \A m \in 1 .. n : Matches(source.principals[m], byToken[source.principals[m].token])

Registration ==
    /\ pc = "load" => byToken = <<>>
    /\ pc = "authenticate" => i <= Len(source.principals) + 1 /\ Registered(i - 1)
    /\ pc \in {"compile", "detectors", "profiles", "listening"} /\ source.auth =>
          source.principals # <<>> /\ Registered(Len(source.principals))

LEMMA PrincipalsType ==
    ASSUME Inv
    PROVE  /\ source.principals \in Seq(SourcePrincipal)
           /\ Len(source.principals) \in Nat /\ i \in Nat \ {0}
BY SourcesAssumption DEF Inv, Source, Indices

\* A token that is new takes nothing from the principals that have one.
LEMMA AddKeeps == Inv /\ Registration /\ AddPrincipal => Registration'
<1> SUFFICES ASSUME Inv, Registration, AddPrincipal PROVE Registration'
  OBVIOUS
<1> DEFINE s == source.principals[i]
           principal == [id |-> s.id, tenants |-> s.tenants \ {"*"},
                         allTenants |-> "*" \in s.tenants,
                         allowTenantless |-> s.allowTenantless,
                         policyReader |-> s.policyReader,
                         metricsReader |-> s.metricsReader]
<1>1. /\ Len(source.principals) \in Nat /\ i \in Nat \ {0} /\ i <= Len(source.principals)
      /\ pc = "authenticate" /\ pc' = pc /\ i' = i + 1 /\ source' = source
      /\ s.token \notin DOMAIN byToken
      /\ byToken' = [t \in DOMAIN byToken \cup {s.token} |->
                        IF t = s.token THEN principal ELSE byToken[t]]
  BY PrincipalsType DEF AddPrincipal, PrincipalPasses
<1>2. Matches(s, principal)
  BY DEF Matches
<1>3. 1 .. (i' - 1) = (1 .. (i - 1)) \cup {i}
  BY <1>1
<1>4. Registered(i - 1)
  BY <1>1 DEF Registration
<1>5. DOMAIN byToken' = {source.principals[m].token : m \in 1 .. (i' - 1)}
  BY <1>1, <1>3, <1>4 DEF Registered
<1> HIDE DEF principal
<1>6. ASSUME NEW m \in 1 .. (i' - 1)
      PROVE  Matches(source.principals[m], byToken'[source.principals[m].token])
  <2>1. CASE m = i
    BY <1>1, <1>2, <2>1
  <2>2. CASE m \in 1 .. (i - 1)
    <3>1. source.principals[m].token \in DOMAIN byToken
      BY <1>4, <2>2 DEF Registered
    <3>2. byToken'[source.principals[m].token] = byToken[source.principals[m].token]
      BY <1>1, <3>1
    <3> QED
      BY <1>4, <2>2, <3>2 DEF Registered
  <2> QED
    BY <1>3, <2>1, <2>2
<1>7. Registered(i - 1)'
  BY <1>1, <1>5, <1>6 DEF Registered
<1> QED
  BY <1>1, <1>7 DEF Registration

LEMMA RegistrationStep == Inv /\ Registration /\ [Next]_vars => Registration'
<1> SUFFICES ASSUME Inv, Registration, [Next]_vars PROVE Registration'
  OBVIOUS
<1>1. CASE AddPrincipal
  BY <1>1, AddKeeps
<1>2. CASE Loaded
  <2>1. i' = 1 /\ byToken' = <<>> /\ source' = source /\ Len(source.principals) \in Nat
    BY <1>2, PrincipalsType DEF Loaded, Registration
  <2>2. 1 .. (i' - 1) = {} /\ DOMAIN byToken' = {}
    BY <2>1
  <2>3. Registered(i - 1)'
    BY <2>1, <2>2 DEF Registered
  <2>4. pc' = IF source.auth THEN "authenticate" ELSE "compile"
    BY <1>2 DEF Loaded
  <2> QED
    BY <2>1, <2>3, <2>4 DEF Registration
<1>3. CASE PrincipalsAdded
  <2>1. /\ i <= Len(source.principals) + 1 /\ i > Len(source.principals)
        /\ Registered(i - 1) /\ source.principals # <<>>
        /\ pc' = "compile" /\ UNCHANGED <<source, byToken>>
    BY <1>3 DEF PrincipalsAdded, Registration
  <2>2. i - 1 = Len(source.principals)
    BY <2>1, PrincipalsType
  <2>3. Registered(Len(source.principals))'
    BY <2>1, <2>2 DEF Registered
  <2> QED
    BY <2>1, <2>3 DEF Registration
<1>4. CASE BeginPolicy \/ CompileDetector \/ EndPolicy \/ PoliciesCompiled \/ FileProfile \/ Listen
  <2>1. /\ {pc, pc'} \subseteq {"compile", "detectors", "profiles", "listening"}
        /\ UNCHANGED <<source, byToken>>
    BY <1>4 DEF BeginPolicy, CompileDetector, EndPolicy, PoliciesCompiled, FileProfile, Listen
  <2> QED
    BY <2>1 DEF Registration, Registered
<1>5. CASE LoadPolicy
  BY <1>5 DEF LoadPolicy, Registration
<1>6. CASE RefuseToLoad \/ RefusePrincipals \/ RefusePolicy \/ RefuseDetector
           \/ RefuseDuplicate \/ RefusePlatform
  BY <1>6 DEF Registration, Refuse, RefuseToLoad, RefusePrincipals, RefusePolicy,
              RefuseDetector, RefuseDuplicate, RefusePlatform
<1>7. CASE Terminated \/ UNCHANGED vars
  BY <1>7 DEF Terminated, vars, Registration, Registered
<1> QED
  BY <1>1, <1>2, <1>3, <1>4, <1>5, <1>6, <1>7 DEF Next

\* Whatever the configuration file, a service that listens with authentication
\* knows exactly the configured principals, each by a token of its own and with
\* the tenants and capabilities it was given (auth.go:61-98).
THEOREM CredentialsAreTheirOwn == Spec => []CredentialsAreAsConfigured
<1>1. Init => Registration
  BY DEF Init, Registration
<1>2. Inv /\ Registration => CredentialsAreAsConfigured
  <2> SUFFICES ASSUME Inv, Registration, pc = "listening", source.auth
               PROVE  /\ source.principals # <<>>
                      /\ DOMAIN byToken = {s.token : s \in Range(source.principals)}
                      /\ \A s \in Range(source.principals) : Matches(s, byToken[s.token])
    BY DEF CredentialsAreAsConfigured, Matches
  <2>1. source.principals # <<>> /\ Registered(Len(source.principals))
    BY DEF Registration
  <2>2. DOMAIN source.principals = 1 .. Len(source.principals)
    BY PrincipalsType
  <2> QED
    BY <2>1, <2>2 DEF Registered, Range
<1> QED
  BY <1>1, <1>2, InvInit, InvStep, RegistrationStep, PTL DEF Spec

-----------------------------------------------------------------------------
(* The policies. *)

\* What Load makes of a policy: zero stands for a detector's timeout left out.
LoadsTo(s, l) ==
    /\ l.id = s.id /\ l.version = s.version /\ l.action = s.action /\ l.mode = s.mode
    /\ l.timeout = Timeout(s.timeout, DefaultTimeout) /\ l.timeout \in Nat \ {0}
    /\ Len(l.detectors) = Len(s.detectors)
    /\ \A m \in DOMAIN s.detectors :
          /\ l.detectors[m].id = s.detectors[m].id
          /\ l.detectors[m].kinds = s.detectors[m].kinds
          /\ l.detectors[m].settings = s.detectors[m].settings
          /\ l.detectors[m].timeout = Timeout(s.detectors[m].timeout, 0)
          /\ Readable(s.detectors[m].timeout)

\* The detector a policy with this deadline gets.
DetectorOf(d, timeout) ==
    [timeout |-> IF d.timeout = 0 THEN timeout ELSE d.timeout,
     replaces |-> d.kinds \subseteq Replacing]

\* What NewResolver makes of a loaded policy, with its first n detectors.
CompilesTo(l, c, n) ==
    /\ c.action = l.action /\ c.mode = EffectiveMode(l.mode) /\ c.timeout = l.timeout
    /\ Len(c.detectors) = n
    /\ \A m \in 1 .. n : c.detectors[m] = DetectorOf(l.detectors[m], c.timeout)

\* The first n policies are in the resolver, each whole and under its own id.
Filed(n) ==
    \A m \in 1 .. n :
        LET id == CanonicalID(loaded[m]) IN
        id \in DOMAIN policies /\ CompilesTo(loaded[m], policies[id], Len(loaded[m].detectors))

Compilation ==
    /\ pc = "load" => Len(loaded) = i - 1 /\ i <= Len(source.policies) + 1
    /\ pc \in {"authenticate", "compile", "detectors", "profiles", "listening"} =>
          Len(loaded) = Len(source.policies)
    /\ Len(loaded) <= Len(source.policies)
    /\ \A n \in 1 .. Len(loaded) : LoadsTo(source.policies[n], loaded[n])
    /\ pc \in {"compile", "detectors"} => i <= Len(loaded) + 1 /\ Filed(i - 1)
    /\ pc = "detectors" =>
          j <= Len(Detectors) + 1 /\ CompilesTo(loaded[i], building, j - 1)
    /\ pc \in {"profiles", "listening"} => Filed(Len(loaded))

LEMMA PoliciesType ==
    ASSUME Inv
    PROVE  /\ source.policies \in Seq(SourcePolicy) /\ Len(source.policies) \in Nat
           /\ loaded \in Seq(LoadedPolicy) /\ Len(loaded) \in Nat
           /\ i \in Nat \ {0} /\ j \in Nat \ {0}
BY SourcesAssumption DEF Inv, Source, Indices

\* Load loses nothing of the policy it reads, and leaves those before it alone.
LEMMA LoadKeeps == Inv /\ Compilation /\ LoadPolicy => Compilation'
<1> SUFFICES ASSUME Inv, Compilation, LoadPolicy PROVE Compilation'
  OBVIOUS
<1> DEFINE s == source.policies[i]
           detector(d) == [d EXCEPT !.timeout = Timeout(@, 0)]
           l == [s EXCEPT !.timeout = Timeout(@, DefaultTimeout),
                          !.detectors = [n \in DOMAIN @ |-> detector(@[n])]]
<1>1. /\ pc = "load" /\ pc' = "load" /\ i' = i + 1 /\ i <= Len(source.policies)
      /\ source' = source /\ loaded' = Append(loaded, l) /\ AllReadable(s)
  BY DEF LoadPolicy
<1>2. s \in SourcePolicy /\ s.detectors \in Seq(SourceDetector)
  <2>1. s \in SourcePolicy
    BY <1>1, PoliciesType
  <2> QED
    BY <2>1 DEF SourcePolicy
<1>3. l.timeout = Timeout(s.timeout, DefaultTimeout) /\ l.timeout \in Nat \ {0}
  <2>1. l.timeout = Timeout(s.timeout, DefaultTimeout)
    BY <1>2 DEF SourcePolicy
  <2>2. Readable(s.timeout)
    BY <1>1 DEF AllReadable
  <2>3. DefaultTimeout \in Nat \ {0}
    BY ZenonT(30), TimeoutAssumption
  <2> HIDE DEF l
  <2> QED
    BY <2>1, <2>2, <2>3 DEF Readable, Timeout
<1>4. l.detectors = [n \in DOMAIN s.detectors |-> detector(s.detectors[n])]
  BY <1>2 DEF SourcePolicy
<1>5. Len(l.detectors) = Len(s.detectors)
  <2> HIDE DEF l, detector
  <2> QED
    BY <1>2, <1>4
<1>6. ASSUME NEW m \in DOMAIN s.detectors
      PROVE  /\ l.detectors[m].id = s.detectors[m].id
             /\ l.detectors[m].kinds = s.detectors[m].kinds
             /\ l.detectors[m].settings = s.detectors[m].settings
             /\ l.detectors[m].timeout = Timeout(s.detectors[m].timeout, 0)
             /\ Readable(s.detectors[m].timeout)
  <2>1. s.detectors[m] \in SourceDetector
    BY <1>2
  <2>2. l.detectors[m] = detector(s.detectors[m])
    BY <1>4
  <2>3. Readable(s.detectors[m].timeout)
    BY <1>1 DEF AllReadable, Range
  <2> HIDE DEF l
  <2> QED
    BY <2>1, <2>2, <2>3 DEF SourceDetector
<1>7. /\ l.id = s.id /\ l.version = s.version /\ l.action = s.action /\ l.mode = s.mode
  BY <1>2 DEF SourcePolicy
<1> HIDE DEF l
<1>8. LoadsTo(s, l)
  BY <1>3, <1>5, <1>6, <1>7 DEF LoadsTo
<1> HIDE DEF s
<1>9. Len(loaded) = i - 1 /\ \A n \in 1 .. Len(loaded) : LoadsTo(source.policies[n], loaded[n])
  BY <1>1 DEF Compilation
<1>10. Len(loaded') = i /\ loaded'[i] = l /\ \A n \in 1 .. (i - 1) : loaded'[n] = loaded[n]
  BY <1>1, <1>9, PoliciesType
<1>11. \A n \in 1 .. Len(loaded') : LoadsTo(source'.policies[n], loaded'[n])
  <2> SUFFICES ASSUME NEW n \in 1 .. i PROVE LoadsTo(source.policies[n], loaded'[n])
    BY <1>1, <1>10
  <2>1. CASE n = i
    BY <2>1, <1>8, <1>10 DEF s
  <2>2. CASE n \in 1 .. (i - 1)
    BY <2>2, <1>9, <1>10
  <2> QED
    BY <2>1, <2>2, PoliciesType
<1> QED
  BY <1>1, <1>10, <1>11, PoliciesType DEF Compilation

\* A policy begins with the deadline and the failure mode it was loaded with.
LEMMA BeginKeeps == Inv /\ Compilation /\ BeginPolicy => Compilation'
<1> SUFFICES ASSUME Inv, Compilation, BeginPolicy PROVE Compilation'
  OBVIOUS
<1>1. /\ pc = "compile" /\ pc' = "detectors" /\ j' = 1 /\ i <= Len(loaded)
      /\ UNCHANGED <<source, i, loaded, policies>>
  BY DEF BeginPolicy
<1>2. LoadsTo(source.policies[i], loaded[i])
  BY <1>1, PoliciesType DEF Compilation
<1>3. CompilesTo(loaded[i], building', 0)
  <2>1. loaded[i].timeout # 0
    BY <1>2 DEF LoadsTo
  <2>2. building' = [id |-> loaded[i].id, action |-> loaded[i].action,
                     mode |-> EffectiveMode(loaded[i].mode),
                     timeout |-> loaded[i].timeout, detectors |-> <<>>]
    BY <2>1 DEF BeginPolicy
  <2>3. Len(building'.detectors) = 0 /\ 1 .. 0 = {}
    BY <2>2
  <2> QED
    BY <2>2, <2>3 DEF CompilesTo
<1>4. CompilesTo(loaded[i], building, j - 1)'
  BY <1>1, <1>3
<1>5. loaded[i] \in LoadedPolicy
  BY <1>1, PoliciesType
<1>6. (j <= Len(Detectors) + 1)'
  BY <1>1, <1>5 DEF Detectors, LoadedPolicy
<1>7. Filed(i - 1)'
  BY <1>1 DEF Compilation, Filed
<1> QED
  BY <1>1, <1>4, <1>6, <1>7 DEF Compilation

\* A detector takes its place after those before it.
LEMMA DetectorKeeps == Inv /\ Compilation /\ CompileDetector => Compilation'
<1> SUFFICES ASSUME Inv, Compilation, CompileDetector PROVE Compilation'
  OBVIOUS
<1> DEFINE d == Detectors[j]
           compiled == [timeout |-> EffectiveTimeout(d), replaces |-> d.kinds \subseteq Replacing]
<1>1. /\ pc = "detectors" /\ pc' = "detectors" /\ j <= Len(Detectors) /\ j' = j + 1
      /\ UNCHANGED <<source, i, loaded, policies>>
      /\ building' = [building EXCEPT !.detectors = Append(@, compiled)]
  BY DEF CompileDetector
<1>2. building \in PolicyConfig /\ i <= Len(loaded)
  BY <1>1 DEF Inv, Indices
<1>3. building.detectors \in Seq(DetectorConfig) /\ CompilesTo(loaded[i], building, j - 1)
  BY <1>1, <1>2 DEF PolicyConfig, Compilation
<1>4. compiled = DetectorOf(loaded[i].detectors[j], building.timeout)
  BY DEF EffectiveTimeout, DetectorOf, Detectors
<1> HIDE DEF compiled
<1> DEFINE ds == Append(building.detectors, compiled)
<1>5. /\ building'.action = building.action /\ building'.mode = building.mode
      /\ building'.timeout = building.timeout /\ building'.detectors = ds
  BY <1>1, <1>2 DEF PolicyConfig
<1>6. /\ Len(ds) = j /\ ds[j] = compiled
      /\ \A m \in 1 .. (j - 1) : ds[m] = building.detectors[m]
  BY <1>3, PoliciesType DEF CompilesTo
<1> HIDE DEF ds
<1>7. CompilesTo(loaded[i], building', j)
  <2>1. ASSUME NEW m \in 1 .. j
        PROVE  building'.detectors[m] = DetectorOf(loaded[i].detectors[m], building'.timeout)
    <3>1. CASE m = j
      BY <3>1, <1>4, <1>5, <1>6
    <3>2. CASE m \in 1 .. (j - 1)
      BY <3>2, <1>3, <1>5, <1>6 DEF CompilesTo
    <3> QED
      BY <3>1, <3>2, PoliciesType
  <2> QED
    BY <2>1, <1>3, <1>5, <1>6 DEF CompilesTo
<1>8. CompilesTo(loaded[i], building, j - 1)'
  BY <1>1, <1>7, PoliciesType
<1>9. (j <= Len(Detectors) + 1)'
  <2>1. Len(Detectors) \in Nat
    BY <1>2, PoliciesType DEF Detectors, LoadedPolicy
  <2>2. Detectors' = Detectors
    BY <1>1 DEF Detectors
  <2> QED
    BY <1>1, <2>1, <2>2, PoliciesType
<1>10. Filed(i - 1)'
  BY <1>1 DEF Compilation, Filed
<1> QED
  BY <1>1, <1>8, <1>9, <1>10 DEF Compilation

\* A policy is filed with all its detectors, and takes no other one's place.
LEMMA EndKeeps == Inv /\ Compilation /\ EndPolicy => Compilation'
<1> SUFFICES ASSUME Inv, Compilation, EndPolicy PROVE Compilation'
  OBVIOUS
<1> DEFINE id(m) == CanonicalID(loaded[m])
<1>1. /\ pc = "detectors" /\ j > Len(Detectors) /\ id(i) \notin DOMAIN policies
      /\ pc' = "compile" /\ i' = i + 1 /\ UNCHANGED <<source, loaded>>
      /\ policies' = [c \in DOMAIN policies \cup {id(i)} |->
                         IF c = id(i) THEN building ELSE policies[c]]
  BY DEF EndPolicy, Known
<1>2. /\ i <= Len(loaded) /\ j <= Len(Detectors) + 1 /\ Filed(i - 1)
      /\ CompilesTo(loaded[i], building, j - 1)
  BY <1>1 DEF Compilation, Inv, Indices
<1>3. j - 1 = Len(loaded[i].detectors)
  <2>1. Len(Detectors) \in Nat
    BY <1>2, PoliciesType DEF Detectors, LoadedPolicy
  <2> QED
    BY <1>1, <1>2, <2>1, PoliciesType DEF Detectors
<1> HIDE DEF id
<1>4. ASSUME NEW m \in 1 .. i
      PROVE  /\ id(m) \in DOMAIN policies'
             /\ CompilesTo(loaded[m], policies'[id(m)], Len(loaded[m].detectors))
  <2>1. CASE m = i
    BY <2>1, <1>1, <1>2, <1>3
  <2>2. CASE m \in 1 .. (i - 1)
    <3>1. /\ id(m) \in DOMAIN policies
          /\ CompilesTo(loaded[m], policies[id(m)], Len(loaded[m].detectors))
      BY <1>2, <2>2 DEF Filed, id
    <3>2. policies'[id(m)] = policies[id(m)]
      BY <1>1, <3>1
    <3> QED
      BY <1>1, <3>1, <3>2
  <2> QED
    BY <2>1, <2>2, PoliciesType
<1>5. Filed(i - 1)'
  <2>1. i' - 1 = i
    BY <1>1, PoliciesType
  <2>2. \A m \in 1 .. (i' - 1) : CanonicalID(loaded'[m]) = id(m) /\ loaded'[m] = loaded[m]
    BY <1>1 DEF id
  <2> QED
    BY <1>4, <2>1, <2>2 DEF Filed
<1> QED
  BY <1>1, <1>2, <1>5, PoliciesType DEF Compilation

LEMMA CompilationStep == Inv /\ Compilation /\ [Next]_vars => Compilation'
<1> SUFFICES ASSUME Inv, Compilation, [Next]_vars PROVE Compilation'
  OBVIOUS
<1>1. CASE LoadPolicy
  BY <1>1, LoadKeeps
<1>2. CASE BeginPolicy
  BY <1>2, BeginKeeps
<1>3. CASE CompileDetector
  BY <1>3, DetectorKeeps
<1>4. CASE EndPolicy
  BY <1>4, EndKeeps
<1>5. CASE Loaded
  <2>1. /\ pc = "load" /\ i' = 1 /\ pc' \in {"authenticate", "compile"}
        /\ i > Len(source.policies) /\ UNCHANGED <<source, loaded, policies>>
    BY <1>5 DEF Loaded
  <2>2. Len(loaded) = Len(source.policies) /\ 1 .. (i' - 1) = {}
    BY <2>1, PoliciesType DEF Compilation
  <2>3. Filed(i - 1)'
    BY <2>2 DEF Filed
  <2> QED
    BY <2>1, <2>2, <2>3, PoliciesType DEF Compilation
<1>6. CASE AddPrincipal
  BY <1>6 DEF AddPrincipal, Compilation
<1>7. CASE PrincipalsAdded
  <2>1. /\ pc = "authenticate" /\ i' = 1 /\ pc' = "compile"
        /\ UNCHANGED <<source, loaded, policies>> /\ 1 .. (i' - 1) = {}
    BY <1>7 DEF PrincipalsAdded
  <2>2. Filed(i - 1)'
    BY <2>1 DEF Filed
  <2> QED
    BY <2>1, <2>2, PoliciesType DEF Compilation
<1>8. CASE PoliciesCompiled
  <2>1. /\ pc = "compile" /\ pc' = "profiles" /\ i > Len(loaded)
        /\ UNCHANGED <<source, loaded, policies>>
    BY <1>8 DEF PoliciesCompiled
  <2>2. i - 1 = Len(loaded)
    BY <2>1, PoliciesType DEF Compilation
  <2>3. Filed(Len(loaded))'
    BY <2>1, <2>2 DEF Compilation, Filed
  <2> QED
    BY <2>1, <2>3 DEF Compilation
<1>9. CASE FileProfile \/ Listen
  <2>1. /\ pc = "profiles" /\ pc' \in {"profiles", "listening"}
        /\ UNCHANGED <<source, loaded, policies>>
    BY <1>9 DEF FileProfile, Listen
  <2> QED
    BY <2>1 DEF Compilation, Filed
<1>10. CASE RefuseToLoad \/ RefusePrincipals \/ RefusePolicy \/ RefuseDetector
            \/ RefuseDuplicate \/ RefusePlatform
  <2>1. pc' = "exited" /\ UNCHANGED <<source, loaded>>
    BY <1>10 DEF Refuse, RefuseToLoad, RefusePrincipals, RefusePolicy, RefuseDetector,
                 RefuseDuplicate, RefusePlatform
  <2> QED
    BY <2>1 DEF Compilation
<1>11. CASE Terminated \/ UNCHANGED vars
  BY <1>11 DEF Terminated, vars, Compilation, Filed, Detectors
<1> QED
  BY <1>1, <1>2, <1>3, <1>4, <1>5, <1>6, <1>7, <1>8, <1>9, <1>10, <1>11 DEF Next

\* Of the first n profiles the last with each id is known, and no other id is.
ProfilesRead(n) ==
    /\ DOMAIN profiles = {CanonicalID(source.profiles[m]) : m \in 1 .. n}
    /\ \A m \in 1 .. n :
          \/ \E k \in 1 .. n : k > m /\ CanonicalID(source.profiles[k])
                                        = CanonicalID(source.profiles[m])
          \/ profiles[CanonicalID(source.profiles[m])] = source.profiles[m].policies

Profiling ==
    /\ pc \in {"load", "authenticate", "compile", "detectors"} => profiles = <<>>
    /\ pc = "profiles" => i <= Len(source.profiles) + 1 /\ ProfilesRead(i - 1)
    /\ pc = "listening" => ProfilesRead(Len(source.profiles))

LEMMA ProfilesType ==
    ASSUME Inv
    PROVE  /\ source.profiles \in Seq(SourceProfile)
           /\ Len(source.profiles) \in Nat /\ i \in Nat \ {0}
BY SourcesAssumption DEF Inv, Source, Indices

\* A profile takes the place of those with its id, and of no other.
LEMMA FileKeeps == Inv /\ Profiling /\ FileProfile => Profiling'
<1> SUFFICES ASSUME Inv, Profiling, FileProfile PROVE Profiling'
  OBVIOUS
<1> DEFINE id(m) == CanonicalID(source.profiles[m])
           value(m) == source.profiles[m].policies
<1>1. /\ pc = "profiles" /\ pc' = "profiles" /\ i <= Len(source.profiles)
      /\ i' = i + 1 /\ source' = source
      /\ profiles' = [c \in DOMAIN profiles \cup {id(i)} |->
                         IF c = id(i) THEN value(i) ELSE profiles[c]]
  BY DEF FileProfile
<1>2. /\ DOMAIN profiles = {id(m) : m \in 1 .. (i - 1)}
      /\ \A m \in 1 .. (i - 1) : \/ \E k \in 1 .. (i - 1) : k > m /\ id(k) = id(m)
                                 \/ profiles[id(m)] = value(m)
  BY <1>1 DEF Profiling, ProfilesRead
<1>3. \A m : CanonicalID(source'.profiles[m]) = id(m) /\ source'.profiles[m].policies = value(m)
  BY <1>1 DEF CanonicalID
<1> HIDE DEF id, value
<1>4. 1 .. i = (1 .. (i - 1)) \cup {i} /\ i' - 1 = i
  BY <1>1, ProfilesType
<1>5. DOMAIN profiles' = {id(m) : m \in 1 .. i}
  BY <1>1, <1>2, <1>4
<1>6. ASSUME NEW m \in 1 .. i
      PROVE  (\E k \in 1 .. i : k > m /\ id(k) = id(m)) \/ profiles'[id(m)] = value(m)
  <2>1. CASE m = i
    BY <1>1, <2>1
  <2>2. CASE m \in 1 .. (i - 1) /\ id(m) = id(i)
    <3>1. i \in 1 .. i /\ i > m
      BY <2>2, ProfilesType
    <3> QED
      BY <2>2, <3>1
  <2>3. CASE m \in 1 .. (i - 1) /\ id(m) # id(i)
    <3>1. id(m) \in DOMAIN profiles
      BY <1>2, <2>3
    <3>2. profiles'[id(m)] = profiles[id(m)]
      BY <1>1, <2>3, <3>1
    <3> QED
      BY <1>2, <1>4, <2>3, <3>2
  <2> QED
    BY <1>4, <2>1, <2>2, <2>3
<1>7. ProfilesRead(i - 1)'
  BY <1>3, <1>4, <1>5, <1>6 DEF ProfilesRead
<1>8. (i <= Len(source.profiles) + 1)'
  BY <1>1, ProfilesType
<1> QED
  BY <1>1, <1>7, <1>8 DEF Profiling

LEMMA ProfilingStep == Inv /\ Profiling /\ [Next]_vars => Profiling'
<1> SUFFICES ASSUME Inv, Profiling, [Next]_vars PROVE Profiling'
  OBVIOUS
<1>1. CASE FileProfile
  BY <1>1, FileKeeps
<1>2. CASE PoliciesCompiled
  <2>1. /\ pc' = "profiles" /\ i' = 1 /\ source' = source /\ profiles' = <<>>
        /\ Len(source.profiles) \in Nat
    BY <1>2, ProfilesType DEF PoliciesCompiled, Profiling
  <2>2. 1 .. (i' - 1) = {} /\ DOMAIN profiles' = {}
    BY <2>1
  <2>3. ProfilesRead(i - 1)'
    BY <2>2 DEF ProfilesRead
  <2> QED
    BY <2>1, <2>3 DEF Profiling
<1>3. CASE Listen
  <2>1. /\ i <= Len(source.profiles) + 1 /\ i > Len(source.profiles) /\ ProfilesRead(i - 1)
        /\ pc' = "listening" /\ UNCHANGED <<source, profiles>>
    BY <1>3 DEF Listen, Profiling
  <2>2. i - 1 = Len(source.profiles)
    BY <2>1, ProfilesType
  <2>3. ProfilesRead(Len(source.profiles))'
    BY <2>1, <2>2 DEF ProfilesRead
  <2> QED
    BY <2>1, <2>3 DEF Profiling
<1>4. CASE LoadPolicy \/ Loaded \/ AddPrincipal \/ PrincipalsAdded \/ BeginPolicy
           \/ CompileDetector \/ EndPolicy
  <2>1. /\ {pc, pc'} \subseteq {"load", "authenticate", "compile", "detectors"}
        /\ profiles' = profiles
    BY <1>4 DEF LoadPolicy, Loaded, AddPrincipal, PrincipalsAdded, BeginPolicy,
                CompileDetector, EndPolicy
  <2> QED
    BY <2>1 DEF Profiling
<1>5. CASE RefuseToLoad \/ RefusePrincipals \/ RefusePolicy \/ RefuseDetector
           \/ RefuseDuplicate \/ RefusePlatform
  BY <1>5 DEF Profiling, Refuse, RefuseToLoad, RefusePrincipals, RefusePolicy,
              RefuseDetector, RefuseDuplicate, RefusePlatform
<1>6. CASE Terminated \/ UNCHANGED vars
  BY <1>6 DEF Terminated, vars, Profiling, ProfilesRead
<1> QED
  BY <1>1, <1>2, <1>3, <1>4, <1>5, <1>6 DEF Next

\* A detector that went through both normalisations.
LEMMA DetectorThroughBoth ==
    ASSUME NEW s, NEW l, NEW timeout,
           l.kinds = s.kinds, l.timeout = Timeout(s.timeout, 0), Readable(s.timeout)
    PROVE  DetectorOf(l, timeout)
               = [timeout |-> IF s.timeout = Absent THEN timeout ELSE s.timeout,
                  replaces |-> s.kinds \subseteq Replacing]
BY DEF DetectorOf, Timeout, Readable

\* Whatever the configuration file, a service that listens resolves every
\* policy as it was written, with every detector at its place, and of the
\* profiles with one id the last one (config.go:146-175, resolver.go:45-132).
THEOREM PoliciesAreTheirOwn == Spec => []CompiledAsConfigured
<1>1. Init => Compilation /\ Profiling
  <2> SUFFICES ASSUME Init PROVE Compilation /\ Profiling
    OBVIOUS
  <2>1. Inv
    BY InvInit
  <2>2. Len(loaded) = 0 /\ i = 1 /\ pc = "load" /\ profiles = <<>>
    BY DEF Init
  <2> QED
    BY <2>1, <2>2, PoliciesType DEF Compilation, Profiling
<1>2. Inv /\ Compilation /\ Profiling => CompiledAsConfigured
  <2> SUFFICES ASSUME Inv, Compilation, Profiling, pc = "listening"
               PROVE  CompiledAsConfigured
    BY DEF CompiledAsConfigured
  <2>1. ProfilesAreAsConfigured
    <3>1. /\ ProfilesRead(Len(source.profiles))
          /\ DOMAIN source.profiles = 1 .. Len(source.profiles)
      BY ProfilesType DEF Profiling
    <3> QED
      BY <3>1 DEF ProfilesRead, ProfilesAreAsConfigured, Range
  <2> SUFFICES ASSUME NEW n \in DOMAIN source.policies
      PROVE LET s == source.policies[n]
                c == policies[CanonicalID(s)]
            IN  /\ CanonicalID(s) \in DOMAIN policies
                /\ c.action = s.action
                /\ c.mode = (IF s.mode = "" THEN "closed" ELSE s.mode)
                /\ c.timeout = (IF s.timeout = Absent THEN DefaultTimeout ELSE s.timeout)
                /\ Len(c.detectors) = Len(s.detectors)
                /\ \A m \in DOMAIN s.detectors :
                      c.detectors[m] =
                         [timeout |-> IF s.detectors[m].timeout = Absent THEN c.timeout
                                      ELSE s.detectors[m].timeout,
                          replaces |-> s.detectors[m].kinds \subseteq Replacing]
    BY <2>1 DEF CompiledAsConfigured
  <2> DEFINE s == source.policies[n]
             l == loaded[n]
             c == policies[CanonicalID(s)]
  <2>2. n \in 1 .. Len(loaded)
    BY PoliciesType DEF Compilation
  <2>3. LoadsTo(s, l) /\ Filed(Len(loaded))
    BY <2>2 DEF Compilation
  <2>4. CanonicalID(l) = CanonicalID(s)
    BY <2>3 DEF LoadsTo, CanonicalID
  <2>5. CanonicalID(s) \in DOMAIN policies /\ CompilesTo(l, c, Len(l.detectors))
    BY <2>2, <2>3, <2>4 DEF Filed
  <2>6. s.detectors \in Seq(SourceDetector)
    <3>1. s \in SourcePolicy
      BY PoliciesType
    <3> QED
      BY <3>1 DEF SourcePolicy
  <2> HIDE DEF s, l, c
  <2>7. ASSUME NEW m \in DOMAIN s.detectors
        PROVE  c.detectors[m] =
                  [timeout |-> IF s.detectors[m].timeout = Absent THEN c.timeout
                               ELSE s.detectors[m].timeout,
                   replaces |-> s.detectors[m].kinds \subseteq Replacing]
    <3>1. m \in 1 .. Len(l.detectors)
      BY <2>3, <2>6 DEF LoadsTo
    <3>2. c.detectors[m] = DetectorOf(l.detectors[m], c.timeout)
      BY <2>5, <3>1 DEF CompilesTo
    <3>3. /\ l.detectors[m].kinds = s.detectors[m].kinds
          /\ l.detectors[m].timeout = Timeout(s.detectors[m].timeout, 0)
          /\ Readable(s.detectors[m].timeout)
      BY <2>3 DEF LoadsTo
    <3> QED
      BY <3>2, <3>3, DetectorThroughBoth
  <2>8. /\ c.action = s.action
        /\ c.mode = (IF s.mode = "" THEN "closed" ELSE s.mode)
        /\ c.timeout = (IF s.timeout = Absent THEN DefaultTimeout ELSE s.timeout)
        /\ Len(c.detectors) = Len(s.detectors)
    BY <2>3, <2>5 DEF LoadsTo, CompilesTo, EffectiveMode, Timeout
  <2> QED
    BY <2>5, <2>7, <2>8 DEF s, c
<1> QED
  BY <1>1, <1>2, InvInit, InvStep, CompilationStep, ProfilingStep, PTL DEF Spec

-----------------------------------------------------------------------------
(* Exactly the valid configurations. *)

\* The two ways to say what the settings of a kind have to be.
LEMMA SettingsAgree ==
    ASSUME NEW d, NEW kind \in Kind, d.kinds = {kind}, d.settings \in Settings
    PROVE  SettingsPass(d) <=> ValidSettings(kind, d.settings)
<1> DEFINE s == d.settings
<1>1. s.numbers \subseteq Int
  BY DEF Settings
<1>2. /\ s.numbers \subseteq Nat <=> \A v \in s.numbers : v >= 0
      /\ s.numbers \subseteq Nat <=> ~(\E v \in s.numbers : v < 0)
  BY <1>1
<1>3. s.values \subseteq SecretTypes <=> s.values \ SecretTypes = {}
  OBVIOUS
<1>4. s.numbers \subseteq Nat =>
         ((\E limit \in s.numbers : limit > 0) <=> s.numbers \ {0} # {})
  OBVIOUS
<1> HIDE DEF s
<1>5. CASE kind = "regex"
  BY <1>5 DEF SettingsPass, ValidSettings, s
<1>6. CASE kind = "keywords"
  BY <1>6 DEF SettingsPass, ValidSettings
<1>7. CASE kind = "requestLimits"
  <2>1. SettingsPass(d) <=> ValidateRequestLimits(s)
    BY <1>7 DEF SettingsPass, s
  <2>2. ValidSettings(kind, d.settings) <=>
           (\A v \in s.numbers : v >= 0) /\ (s.numbers \ {0} # {} \/ s.values # {})
    BY <1>7 DEF ValidSettings, s
  <2> QED
    BY <1>2, <1>4, <2>1, <2>2 DEF ValidateRequestLimits
<1>8. CASE kind = "allowDeny"
  BY <1>8 DEF SettingsPass, ValidSettings, ValidateAllowDeny, s
<1>9. CASE kind = "jsonSchema"
  BY <1>9 DEF SettingsPass, ValidSettings, s
<1>10. CASE kind = "secrets"
  <2>1. SettingsPass(d) <=> ValidateSecrets(s)
    BY <1>10 DEF SettingsPass, s
  <2>2. ValidSettings(kind, d.settings) <=>
           ~(\E v \in s.numbers : v < 0) /\ s.values \ SecretTypes = {}
    BY <1>10 DEF ValidSettings, s
  <2> QED
    BY <1>2, <1>3, <2>1, <2>2 DEF ValidateSecrets
<1> QED
  BY <1>5, <1>6, <1>7, <1>8, <1>9, <1>10 DEF Kind

\* What the rules say of a timeout is what Load looks at.
LEMMA ReadableIsPositive == \A t : Readable(t) <=> Positive(t)
<1> SUFFICES ASSUME NEW t PROVE Readable(t) <=> Positive(t)
  OBVIOUS
<1>1. t \in Nat \ {0} <=> t \in Nat /\ t > 0
  OBVIOUS
<1> QED
  BY <1>1, Zenon DEF Readable, Positive

\* A policy Load accepts is refused by BeginPolicy for what its rules say of it
\* apart from its deadline and its detectors.
PolicyRules(p) ==
    /\ p.id # "" /\ p.version >= 1 /\ Positive(p.timeout)
    /\ p.action \in Action /\ p.mode \in FailureMode \cup {""}

LEMMA PolicyAgrees ==
    ASSUME NEW s \in SourcePolicy, NEW l, LoadsTo(s, l)
    PROVE  PolicyPasses(l) <=> PolicyRules(s)
<1>1. Positive(s.timeout)
  BY DEF LoadsTo, Timeout, Positive
<1>2. l.timeout >= 0
  BY DEF LoadsTo
<1>3. l.id = s.id /\ l.version = s.version /\ l.action = s.action /\ l.mode = s.mode
  BY DEF LoadsTo
<1> QED
  BY <1>1, <1>2, <1>3 DEF PolicyPasses, PolicyRules

\* NewResolver refuses a detector for what the rules say of it.
LEMMA DetectorAgrees ==
    ASSUME Inv, Compilation, pc = "detectors", j <= Len(Detectors)
    PROVE  LET s == source.policies[i] IN
           /\ j \in DOMAIN s.detectors
           /\ DetectorPasses(Detectors[j]) <=> ValidDetector(s.detectors[j], s)
<1> DEFINE s == source.policies[i]
           l == Detectors[j]
           d == s.detectors[j]
           deadline == IF s.timeout = Absent THEN DefaultTimeout ELSE s.timeout
<1>1. LoadsTo(s, loaded[i]) /\ CompilesTo(loaded[i], building, j - 1)
  BY PoliciesType DEF Compilation, Inv, Indices
<1>2. s \in SourcePolicy /\ i <= Len(loaded)
  BY PoliciesType DEF Compilation, Inv, Indices
<1>3. s.detectors \in Seq(SourceDetector)
  BY <1>2 DEF SourcePolicy
<1>4. j \in DOMAIN s.detectors
  BY <1>1, <1>3, PoliciesType DEF LoadsTo, Detectors
<1>5. d \in SourceDetector
  BY <1>3, <1>4
<1>6. /\ l.id = d.id /\ l.kinds = d.kinds /\ l.settings = d.settings
      /\ l.timeout = Timeout(d.timeout, 0) /\ Readable(d.timeout)
  BY <1>1, <1>4 DEF LoadsTo, Detectors
<1>7. building.timeout = deadline /\ deadline \in Nat \ {0} /\ building.action = s.action
  BY <1>1 DEF LoadsTo, CompilesTo, Timeout
<1> HIDE DEF s, l, d, deadline
<1>8. Positive(d.timeout)
  BY <1>6 DEF Readable, Positive
<1>9. /\ EffectiveTimeout(l) > 0
      /\ EffectiveTimeout(l) <= building.timeout <=> (d.timeout # Absent => d.timeout <= deadline)
  <2>1. CASE d.timeout = Absent
    BY <1>6, <1>7, <2>1 DEF EffectiveTimeout, Timeout
  <2>2. CASE d.timeout # Absent
    BY <1>6, <1>7, <2>2 DEF EffectiveTimeout, Timeout, Readable
  <2> QED
    BY <2>1, <2>2
<1>10. ASSUME NEW kind \in Kind, d.kinds = {kind}
       PROVE  SettingsPass(l) <=> ValidSettings(kind, d.settings)
  <2>1. d.settings \in Settings
    BY <1>5 DEF SourceDetector
  <2> QED
    BY <1>6, <1>10, <2>1, SettingsAgree
<1>11. DetectorPasses(l) <=>
          /\ d.id # "" /\ \E kind \in Kind : d.kinds = {kind}
          /\ s.action = "redact" => d.kinds \subseteq Replacing
          /\ d.timeout # Absent => d.timeout <= deadline
          /\ SettingsPass(l)
  BY <1>6, <1>7, <1>9 DEF DetectorPasses
<1>12. ValidDetector(d, s) <=>
          /\ d.id # ""
          /\ \E kind \in Kind : /\ d.kinds = {kind} /\ ValidSettings(kind, d.settings)
                                /\ s.action = "redact" => kind \in Replacing
          /\ d.timeout # Absent => d.timeout <= deadline
  BY <1>8 DEF ValidDetector, deadline
<1>13. DetectorPasses(l) <=> ValidDetector(d, s)
  BY <1>10, <1>11, <1>12
<1> QED
  BY <1>4, <1>13 DEF s, l, d

\* The first n principals follow the rules, each and all together.
PrincipalsRules(n) ==
    /\ \A m \in 1 .. n : /\ source.principals[m].id \in Names
                         /\ source.principals[m].token \in StrongTokens
                         /\ source.principals[m].tenants \subseteq Names
    /\ \A k, m \in 1 .. n : \/ k = m
                            \/ /\ source.principals[k].id # source.principals[m].id
                               /\ source.principals[k].token # source.principals[m].token

\* The ids of the first n policies, which are those in the resolver.
IDs(n) == {CanonicalID(source.policies[m]) : m \in 1 .. n}

\* The first n policies follow the rules.
PoliciesRules(n) ==
    /\ \A m \in 1 .. n : ValidPolicy(source.policies[m])
    /\ \A k, m \in 1 .. n :
          CanonicalID(source.policies[k]) = CanonicalID(source.policies[m]) => k = m
    /\ DOMAIN policies = IDs(n)

\* So do the policy that is being compiled, and its first detectors.
BuildingRules ==
    /\ PolicyRules(source.policies[i])
    /\ \A m \in 1 .. (j - 1) : ValidDetector(source.policies[i].detectors[m], source.policies[i])

Validity ==
    /\ pc \in {"load", "authenticate"} => policies = <<>>
    /\ pc = "authenticate" => source.auth /\ PrincipalsRules(i - 1)
    /\ pc \in {"compile", "detectors", "profiles", "listening"} /\ source.auth =>
          PrincipalsRules(Len(source.principals))
    /\ pc \in {"compile", "detectors"} => PoliciesRules(i - 1)
    /\ pc = "detectors" => BuildingRules
    /\ pc \in {"profiles", "listening"} => PoliciesRules(Len(source.policies))
    /\ pc = "listening" => source.platform \subseteq DOMAIN policies
    /\ pc = "exited" => ~ValidSource(source)

\* What the rules of a valid file say of one policy, of two, and of a principal.
LEMMA OfPolicies ==
    ASSUME Inv
    PROVE  ValidSource(source) <=>
              /\ \A n \in 1 .. Len(source.policies) : ValidPolicy(source.policies[n])
              /\ \A k, m \in 1 .. Len(source.policies) :
                    CanonicalID(source.policies[k]) = CanonicalID(source.policies[m]) => k = m
              /\ source.platform \subseteq IDs(Len(source.policies))
              /\ source.auth =>
                    source.principals # <<>> /\ PrincipalsRules(Len(source.principals))
<1>1. /\ DOMAIN source.policies = 1 .. Len(source.policies)
      /\ DOMAIN source.principals = 1 .. Len(source.principals)
  BY PoliciesType, PrincipalsType
<1>2. /\ Range(source.policies) = {source.policies[n] : n \in 1 .. Len(source.policies)}
      /\ Range(source.principals) = {source.principals[n] : n \in 1 .. Len(source.principals)}
  BY <1>1 DEF Range
<1>3. {CanonicalID(p) : p \in Range(source.policies)} = IDs(Len(source.policies))
  BY <1>2 DEF IDs
<1>4. Distinct(source.policies, CanonicalID) <=>
         \A k, m \in 1 .. Len(source.policies) :
            CanonicalID(source.policies[k]) = CanonicalID(source.policies[m]) => k = m
  BY <1>1 DEF Distinct
<1>5. ValidPrincipals(source.principals) <=>
         source.principals # <<>> /\ PrincipalsRules(Len(source.principals))
  BY <1>1, <1>2 DEF ValidPrincipals, Distinct, PrincipalsRules
<1> QED
  BY <1>2, <1>3, <1>4, <1>5 DEF ValidSource

\* A refused principal breaks a rule.
LEMMA PrincipalRefused ==
    ASSUME Inv, Registration, Validity, RefusePrincipals
    PROVE  ~ValidSource(source)
<1> DEFINE n == Len(source.principals)
<1>1. ASSUME source.principals # <<>>, PrincipalsRules(n)
      PROVE  FALSE
  <2>1. i \in 1 .. n /\ ~PrincipalPasses(i) /\ pc = "authenticate"
    BY <1>1, PrincipalsType DEF RefusePrincipals
  <2>2. DOMAIN byToken = {source.principals[m].token : m \in 1 .. (i - 1)}
    BY <2>1 DEF Registration, Registered
  <2>3. \A m \in 1 .. (i - 1) : m \in 1 .. n /\ m # i
    BY <2>1, PrincipalsType
  <2> QED
    BY <1>1, <2>1, <2>2, <2>3 DEF PrincipalPasses, PrincipalsRules
<1>2. source.auth
  BY DEF RefusePrincipals, Validity
<1> QED
  BY <1>1, <1>2, OfPolicies

\* A policy that is refused breaks a rule of its own.
LEMMA PolicyRefused ==
    ASSUME Inv, Compilation,
           RefuseToLoad \/ RefusePolicy \/ RefuseDetector
    PROVE  ~ValidSource(source)
<1> SUFFICES i \in 1 .. Len(source.policies) /\ ~ValidPolicy(source.policies[i])
  BY OfPolicies
<1> DEFINE s == source.policies[i]
<1>1. CASE RefuseToLoad
  <2>1. i \in 1 .. Len(source.policies) /\ ~AllReadable(s)
    BY <1>1, PoliciesType DEF RefuseToLoad
  <2>2. s \in SourcePolicy
    BY <2>1, PoliciesType
  <2>3. ValidPolicy(s) => Readable(s.timeout) /\ \A d \in Range(s.detectors) : Readable(d.timeout)
    BY ReadableIsPositive, Zenon DEF ValidPolicy, ValidDetector
  <2>4. ~ValidPolicy(s)
    BY <2>1, <2>3, Zenon DEF AllReadable
  <2> QED
    BY <2>1, <2>4
<1>2. CASE RefusePolicy
  <2>1. i \in 1 .. Len(source.policies) /\ LoadsTo(s, loaded[i]) /\ ~PolicyPasses(loaded[i])
    BY <1>2, PoliciesType DEF RefusePolicy, Compilation
  <2>2. s \in SourcePolicy
    BY <2>1, PoliciesType
  <2>3. ~PolicyRules(s)
    BY <2>1, <2>2, PolicyAgrees
  <2> QED
    BY <2>1, <2>3 DEF ValidPolicy, PolicyRules
<1>3. CASE RefuseDetector
  <2>1. /\ pc = "detectors" /\ j <= Len(Detectors) /\ ~DetectorPasses(Detectors[j])
        /\ i \in 1 .. Len(source.policies)
    BY <1>3, PoliciesType DEF RefuseDetector, Inv, Indices, Compilation
  <2>2. j \in DOMAIN s.detectors /\ ~ValidDetector(s.detectors[j], s)
    BY <2>1, DetectorAgrees
  <2> QED
    BY <2>1, <2>2 DEF ValidPolicy, Range
<1> QED
  BY <1>1, <1>2, <1>3

\* So do two policies with one id, and the platform's when there is none.
LEMMA ReferenceRefused ==
    ASSUME Inv, Compilation, Validity, RefuseDuplicate \/ RefusePlatform
    PROVE  ~ValidSource(source)
<1>1. CASE RefuseDuplicate
  <2>1. /\ pc = "detectors" /\ i \in 1 .. Len(source.policies) /\ LoadsTo(source.policies[i], loaded[i])
        /\ CanonicalID(loaded[i]) \in DOMAIN policies /\ DOMAIN policies = IDs(i - 1)
    BY <1>1, PoliciesType DEF RefuseDuplicate, Known, Compilation, Validity, PoliciesRules,
                              Inv, Indices
  <2>2. CanonicalID(loaded[i]) = CanonicalID(source.policies[i])
    BY <2>1 DEF LoadsTo, CanonicalID
  <2>3. PICK m \in 1 .. (i - 1) : CanonicalID(source.policies[m]) = CanonicalID(source.policies[i])
    BY <2>1, <2>2 DEF IDs
  <2>4. m \in 1 .. Len(source.policies) /\ m # i
    BY <2>1, <2>3, PoliciesType
  <2> QED
    BY <2>1, <2>3, <2>4, OfPolicies
<1>2. CASE RefusePlatform
  <2>1. DOMAIN policies = IDs(Len(source.policies)) /\ ~(source.platform \subseteq DOMAIN policies)
    BY <1>2 DEF RefusePlatform, Validity, PoliciesRules
  <2> QED
    BY <2>1, OfPolicies
<1> QED
  BY <1>1, <1>2

\* Every refusal is for a rule that is broken.
LEMMA RefusedForARule ==
    Inv /\ Registration /\ Compilation /\ Validity /\ Next /\ pc' = "exited" /\ pc # "exited"
        => ~ValidSource(source) /\ source' = source
<1> SUFFICES ASSUME Inv, Registration, Compilation, Validity, Next, pc' = "exited", pc # "exited"
             PROVE  ~ValidSource(source) /\ source' = source
  OBVIOUS
<1>1. RefuseToLoad \/ RefusePrincipals \/ RefusePolicy \/ RefuseDetector
         \/ RefuseDuplicate \/ RefusePlatform
  BY DEF Next, LoadPolicy, Loaded, AddPrincipal, PrincipalsAdded, BeginPolicy, CompileDetector,
         EndPolicy, PoliciesCompiled, FileProfile, Listen, Terminated, vars
<1>2. source' = source
  BY <1>1 DEF Refuse, RefuseToLoad, RefusePrincipals, RefusePolicy, RefuseDetector,
              RefuseDuplicate, RefusePlatform
<1> QED
  BY <1>1, <1>2, PrincipalRefused, PolicyRefused, ReferenceRefused

\* The next principal has an id and a token of its own.
LEMMA PrincipalAccepted ==
    ASSUME Inv, Registration, Validity, AddPrincipal
    PROVE  PrincipalsRules(i)
<1>1. /\ pc = "authenticate" /\ i \in Nat \ {0} /\ PrincipalPasses(i)
      /\ DOMAIN byToken = {source.principals[m].token : m \in 1 .. (i - 1)}
      /\ PrincipalsRules(i - 1)
  BY PrincipalsType DEF AddPrincipal, Registration, Registered, Validity
<1>2. 1 .. i = (1 .. (i - 1)) \cup {i}
  BY <1>1
<1> QED
  BY <1>1, <1>2 DEF PrincipalPasses, PrincipalsRules

\* The next detector follows the rules.
LEMMA DetectorAccepted ==
    ASSUME Inv, Compilation, Validity, CompileDetector
    PROVE  BuildingRules'
<1> DEFINE s == source.policies[i]
<1>1. /\ pc = "detectors" /\ j <= Len(Detectors) /\ j' = j + 1 /\ DetectorPasses(Detectors[j])
      /\ UNCHANGED <<source, i>> /\ j \in Nat \ {0}
  BY PoliciesType DEF CompileDetector
<1>2. ValidDetector(s.detectors[j], s)
  BY <1>1, DetectorAgrees
<1>3. 1 .. (j' - 1) = (1 .. (j - 1)) \cup {j}
  BY <1>1
<1>4. PolicyRules(s) /\ \A m \in 1 .. (j - 1) : ValidDetector(s.detectors[m], s)
  BY <1>1 DEF Validity, BuildingRules
<1>5. source'.policies[i'] = s
  BY <1>1
<1> HIDE DEF s
<1>6. \A m \in 1 .. (j' - 1) : ValidDetector(s.detectors[m], s)
  BY <1>2, <1>3, <1>4
<1> QED
  BY <1>4, <1>5, <1>6 DEF BuildingRules

\* The policy that ends follows them all, and has an id of its own.
LEMMA PolicyAccepted ==
    ASSUME Inv, Compilation, Validity, EndPolicy
    PROVE  PoliciesRules(i - 1)'
<1> DEFINE s == source.policies[i]
           id(m) == CanonicalID(source.policies[m])
<1>1. /\ pc = "detectors" /\ j > Len(Detectors) /\ i' = i + 1 /\ source' = source
      /\ i \in 1 .. Len(loaded) /\ i \in 1 .. Len(source.policies)
      /\ CanonicalID(loaded[i]) \notin DOMAIN policies
      /\ DOMAIN policies' = DOMAIN policies \cup {CanonicalID(loaded[i])}
  BY PoliciesType DEF EndPolicy, Known, Inv, Indices, Compilation
<1>2. /\ LoadsTo(s, loaded[i]) /\ j <= Len(Detectors) + 1
      /\ PoliciesRules(i - 1) /\ BuildingRules
  BY <1>1 DEF Compilation, Validity
<1>3. s \in SourcePolicy /\ loaded[i] \in LoadedPolicy
  BY <1>1, PoliciesType
<1>4. s.detectors \in Seq(SourceDetector) /\ loaded[i].detectors \in Seq(LoadedDetector)
  BY <1>3 DEF SourcePolicy, LoadedPolicy
<1>5. 1 .. (j - 1) = DOMAIN s.detectors
  <2>1. j - 1 = Len(Detectors) /\ Len(Detectors) = Len(s.detectors)
    BY <1>1, <1>2, <1>4, PoliciesType DEF Detectors, LoadsTo
  <2> QED
    BY <1>4, <2>1
<1>6. ValidPolicy(s)
  <2>1. PolicyRules(s) /\ \A m \in DOMAIN s.detectors : ValidDetector(s.detectors[m], s)
    BY <1>2, <1>5 DEF BuildingRules
  <2> HIDE DEF s
  <2> QED
    BY <2>1, Zenon DEF ValidPolicy, PolicyRules, Range
<1>7. CanonicalID(loaded[i]) = id(i)
  BY <1>2 DEF LoadsTo, CanonicalID
<1>8. /\ \A m \in 1 .. (i - 1) : ValidPolicy(source.policies[m])
      /\ \A k, m \in 1 .. (i - 1) : id(k) = id(m) => k = m
      /\ DOMAIN policies = {id(m) : m \in 1 .. (i - 1)}
  BY <1>2 DEF PoliciesRules, IDs
<1>9. 1 .. i = (1 .. (i - 1)) \cup {i} /\ i' - 1 = i
  BY <1>1
<1>10. \A m : CanonicalID(source'.policies[m]) = id(m)
  BY <1>1 DEF CanonicalID
<1> HIDE DEF id
<1>11. \A k, m \in 1 .. i : id(k) = id(m) => k = m
  BY <1>1, <1>7, <1>8, <1>9
<1>12. DOMAIN policies' = {id(m) : m \in 1 .. i}
  BY <1>1, <1>7, <1>8, <1>9
<1>13. \A m \in 1 .. i : ValidPolicy(source.policies[m])
  BY <1>6, <1>8, <1>9
<1> HIDE DEF s
<1>14. \A m \in 1 .. (i' - 1) : ValidPolicy(source'.policies[m])
  BY <1>1, <1>9, <1>13
<1> QED
  BY <1>9, <1>10, <1>11, <1>12, <1>14 DEF PoliciesRules, IDs

LEMMA ValidityStep ==
    Inv /\ Registration /\ Compilation /\ Validity /\ [Next]_vars => Validity'
<1> SUFFICES ASSUME Inv, Registration, Compilation, Validity, [Next]_vars PROVE Validity'
  OBVIOUS
<1>1. CASE Next /\ pc' = "exited" /\ pc # "exited"
  <2>1. ~ValidSource(source) /\ source' = source
    BY <1>1, RefusedForARule
  <2> QED
    BY <1>1, <2>1 DEF Validity
<1>2. CASE AddPrincipal
  <2>1. PrincipalsRules(i) /\ i \in Nat
    BY <1>2, PrincipalAccepted, PrincipalsType
  <2>2. /\ pc = "authenticate" /\ pc' = pc /\ i' = i + 1 /\ i' - 1 = i
        /\ UNCHANGED <<source, policies>>
    BY <1>2, <2>1 DEF AddPrincipal
  <2>3. PrincipalsRules(i - 1)'
    BY <2>1, <2>2 DEF PrincipalsRules
  <2> QED
    BY <2>2, <2>3 DEF Validity
<1>3. CASE CompileDetector
  <2>1. BuildingRules'
    BY <1>3, DetectorAccepted
  <2>2. /\ pc = "detectors" /\ pc' = "detectors" /\ UNCHANGED <<source, i, policies>>
    BY <1>3 DEF CompileDetector
  <2> QED
    BY <2>1, <2>2 DEF Validity, PrincipalsRules, PoliciesRules, IDs
<1>4. CASE EndPolicy
  <2>1. PoliciesRules(i - 1)'
    BY <1>4, PolicyAccepted
  <2>2. pc = "detectors" /\ pc' = "compile" /\ source' = source
    BY <1>4 DEF EndPolicy
  <2> QED
    BY <2>1, <2>2 DEF Validity, PrincipalsRules
<1>5. CASE LoadPolicy
  BY <1>5 DEF LoadPolicy, Validity
<1>6. CASE Loaded
  <2>1. /\ pc = "load" /\ pc' = (IF source.auth THEN "authenticate" ELSE "compile")
        /\ i' = 1 /\ source' = source /\ policies' = <<>> /\ i' - 1 = 0
    BY <1>6 DEF Loaded, Validity
  <2>2. 1 .. 0 = {} /\ DOMAIN policies' = {}
    BY <2>1
  <2>3. PrincipalsRules(i - 1)' /\ PoliciesRules(i - 1)'
    BY <2>1, <2>2 DEF PrincipalsRules, PoliciesRules, IDs
  <2> QED
    BY <2>1, <2>3 DEF Validity
<1>7. CASE PrincipalsAdded
  <2>1. /\ pc = "authenticate" /\ pc' = "compile" /\ i' = 1 /\ i' - 1 = 0 /\ policies' = <<>>
        /\ i > Len(source.principals) /\ i <= Len(source.principals) + 1
        /\ source' = source /\ PrincipalsRules(i - 1)
    BY <1>7 DEF PrincipalsAdded, Validity, Registration
  <2>2. 1 .. 0 = {} /\ DOMAIN policies' = {} /\ i - 1 = Len(source.principals)
    BY <2>1, PrincipalsType
  <2>3. PrincipalsRules(Len(source.principals))' /\ PoliciesRules(i - 1)'
    BY <2>1, <2>2 DEF PrincipalsRules, PoliciesRules, IDs
  <2> QED
    BY <2>1, <2>3 DEF Validity
<1>8. CASE BeginPolicy
  <2>1. /\ pc = "compile" /\ pc' = "detectors" /\ j' = 1 /\ UNCHANGED <<source, i, policies>>
        /\ PolicyPasses(loaded[i]) /\ i \in 1 .. Len(loaded)
    BY <1>8, PoliciesType DEF BeginPolicy
  <2>2. /\ LoadsTo(source.policies[i], loaded[i]) /\ source.policies[i] \in SourcePolicy
    BY <2>1, PoliciesType DEF Compilation
  <2>3. PolicyRules(source.policies[i])
    BY <2>1, <2>2, PolicyAgrees
  <2>4. 1 .. (j' - 1) = {}
    BY <2>1
  <2>5. BuildingRules'
    BY <2>1, <2>3, <2>4 DEF BuildingRules
  <2> QED
    BY <2>1, <2>5 DEF Validity, PrincipalsRules, PoliciesRules, IDs
<1>9. CASE PoliciesCompiled
  <2>1. /\ pc = "compile" /\ pc' = "profiles" /\ i > Len(loaded) /\ i <= Len(loaded) + 1
        /\ Len(loaded) = Len(source.policies) /\ UNCHANGED <<source, policies>>
        /\ PoliciesRules(i - 1)
    BY <1>9 DEF PoliciesCompiled, Compilation, Validity
  <2>2. i - 1 = Len(source.policies)
    BY <2>1, PoliciesType
  <2>3. PoliciesRules(Len(source.policies))'
    BY <2>1, <2>2 DEF PoliciesRules, IDs
  <2> QED
    BY <2>1, <2>3 DEF Validity, PrincipalsRules
<1>10. CASE FileProfile \/ Listen
  <2>1. /\ pc = "profiles" /\ pc' \in {"profiles", "listening"} /\ UNCHANGED <<source, policies>>
        /\ pc' = "listening" => source.platform \subseteq DOMAIN policies
    BY <1>10 DEF FileProfile, Listen
  <2> QED
    BY <2>1 DEF Validity, PrincipalsRules, PoliciesRules, IDs
<1>11. CASE Terminated \/ UNCHANGED vars
  <2>1. UNCHANGED <<source, pc, i, j, policies>>
    BY <1>11 DEF Terminated, vars
  <2>2. (ValidSource(source))' = ValidSource(source)
    BY <2>1
  <2>3. BuildingRules' = BuildingRules
    BY <2>1 DEF BuildingRules
  <2> QED
    BY <2>1, <2>2, <2>3 DEF Validity, PrincipalsRules, PoliciesRules, IDs
<1>12. Next => \/ pc' = "exited"
               \/ LoadPolicy \/ Loaded \/ AddPrincipal \/ PrincipalsAdded \/ BeginPolicy
               \/ CompileDetector \/ EndPolicy \/ PoliciesCompiled \/ FileProfile \/ Listen
               \/ Terminated
  BY DEF Next, RefuseToLoad, RefusePrincipals, RefusePolicy, RefuseDetector,
         RefuseDuplicate, RefusePlatform, Refuse
<1>13. Next /\ pc = "exited" => Terminated
  BY DEF Next, LoadPolicy, Loaded, AddPrincipal, PrincipalsAdded, BeginPolicy, CompileDetector,
         EndPolicy, PoliciesCompiled, FileProfile, Listen, RefuseToLoad, RefusePrincipals,
         RefusePolicy, RefuseDetector, RefuseDuplicate, RefusePlatform
<1> QED
  BY <1>1, <1>2, <1>3, <1>4, <1>5, <1>6, <1>7, <1>8, <1>9, <1>10, <1>11, <1>12, <1>13

\* Whatever the configuration file, the service starts only when it follows
\* every rule, and gives up only when it breaks one, in whichever of the three
\* stages each rule is looked at (config.go:146-175, auth.go:61-98,
\* resolver.go:36-138).
THEOREM OnlyTheValidStart == Spec => []ExactlyTheValidStart
<1>1. Init => Compilation /\ Registration /\ Validity
  <2> SUFFICES ASSUME Init PROVE Compilation /\ Registration /\ Validity
    OBVIOUS
  <2>1. Inv
    BY InvInit
  <2>2. Len(loaded) = 0 /\ i = 1 /\ pc = "load" /\ byToken = <<>> /\ policies = <<>>
    BY DEF Init
  <2> QED
    BY <2>1, <2>2, PoliciesType DEF Compilation, Registration, Validity
<1>2. Inv /\ Registration /\ Compilation /\ Validity => ExactlyTheValidStart
  <2> SUFFICES ASSUME Inv, Registration, Compilation, Validity, pc = "listening"
               PROVE  ValidSource(source)
    BY DEF ExactlyTheValidStart, Validity
  <2>1. /\ PoliciesRules(Len(source.policies)) /\ source.platform \subseteq DOMAIN policies
        /\ source.auth => source.principals # <<>> /\ PrincipalsRules(Len(source.principals))
    BY DEF Validity, Registration
  <2> QED
    BY <2>1, OfPolicies DEF PoliciesRules
<1> QED
  BY <1>1, <1>2, InvInit, InvStep, RegistrationStep, CompilationStep, ValidityStep, PTL DEF Spec
=============================================================================

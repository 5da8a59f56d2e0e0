SPECIFICATION Spec
CONSTANTS
    Absent = Absent
    Garbage = Garbage
    Sources <- MCSources
    Names <- MCNames
    StrongTokens <- MCStrongTokens
    DefaultTimeout <- MCDefaultTimeout
INVARIANTS
    AcceptedIsSound
    CompiledAsConfigured
    CredentialsAreAsConfigured
    ExactlyTheValidStart

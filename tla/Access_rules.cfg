\* Lists of up to three rules of every kind, and every mode, with one request at
\* a time and an account that changes under it.
CONSTANTS
    Tokens <- AllTokens
    Configurations <- AllConfigurations
    Paths <- SomeRequests
    AppPaths <- SomePaths
SPECIFICATION Spec
INVARIANTS TypeOK LongestRuleDecides EnforcedMode AlwaysPublic AlwaysProtected

\* Rules with an empty path among them.
CONSTANTS
    Tokens <- AllTokens
    Configurations <- AllConfigurations
    Paths <- SomeRequests
    AppPaths <- SomePaths
SPECIFICATION Spec
INVARIANT OnlyMatchDecides

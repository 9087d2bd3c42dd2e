\* AuthenticationBaseUrl "/auth/".
CONSTANTS
    Tokens <- AllTokens
    Configurations <- TrailingSlash
    Paths <- SomeRequests
    AppPaths <- SomePaths
SPECIFICATION Spec
INVARIANT AlwaysPublic

CONSTANTS
    Chars <- MCChars
    AdminScope <- MCAdminScope
    MaxScopes = 2
    MaxScopeLen = 2

SPECIFICATION Spec
INVARIANT AdminIffScopeListed

\* Two requests of two users, and stops anywhere.
SPECIFICATION Spec
CONSTANTS
  Requests = {r1, r2}
  Emails = {a, b}
  MaxTokens = 2
  NumFiles = 2
  MaxAttempts = 2
INVARIANTS LateIsUser FreshClaims HandedStored SchemaServed
PROPERTY StrictStays
SYMMETRY Symmetry

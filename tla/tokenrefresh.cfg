CONSTANTS
  Fetches = {f1, f2}
  Retries = 1
  Limit = 2
SPECIFICATION Spec
INVARIANTS TypeOK StaysSignedIn SignedOutStaysOut PromptOnce
PROPERTIES FetchEnds AsksUser

\* One user who enrols and sends the code of the secret on the page.
SPECIFICATION SignInSpec
CONSTANTS
  WebCalls = {w1}
  MaxFactors = 1
INVARIANTS
  AcceptedGoesOn

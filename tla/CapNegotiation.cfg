CONSTANTS
  Caps = {sasl, c1, c2}
  Unknown = {other}
  Sasl = sasl
  MaxRequests = 2
SPECIFICATION FairSpec
INVARIANTS
  TypeOK
  EnabledWereRequested
  AuthenticateOnlyAcked
PROPERTIES
  LoginBeforeEnd
  FreshNegotiationEnds

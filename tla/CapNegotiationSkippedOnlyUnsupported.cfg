CONSTANTS
  Caps = {sasl, c1}
  Unknown = {other}
  Sasl = sasl
  MaxRequests = 2
SPECIFICATION FairSpec
PROPERTY SkippedOnlyUnsupported

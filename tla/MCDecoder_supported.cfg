SPECIFICATION DecSpec
CONSTANTS
  Words <- MCWords
  Rms = {0, 31}
  Mids = {0, 63}
  Rns = {0, 31}
  Rds = {0}
INVARIANT SupportedAsListed

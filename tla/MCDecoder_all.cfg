SPECIFICATION DecSpec
CONSTANTS
  Words <- MCWords
  Rms = {0, 16, 31}
  Mids = {0, 13, 63}
  Rns = {0, 30, 31}
  Rds = {0, 1, 31}
INVARIANTS DecTypeOK BranchesEndBlocks OpcodesDisjoint FaithfulClasses OnlyBranchesBranch

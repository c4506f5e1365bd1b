\* Two runners go up at any time and down while no other is at work.
SPECIFICATION Spec
CONSTANTS
  Runner = {m1, m2}
  DownsAlone = TRUE
SYMMETRY Symmetry
INVARIANTS LedgerMatches NoGaps UpCompletes NeverRefused

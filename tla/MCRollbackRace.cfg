\* Two runners; nothing keeps a "down" and another command apart.
SPECIFICATION Spec
CONSTANTS
  Runner = {m1, m2}
  DownsAlone = FALSE
PROPERTIES RollsBackLast

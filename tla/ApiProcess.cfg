\* One probe, two views of the page, one request a minute; the process stops,
\* but its clients do not.
CONSTANTS
  Env <- MCEnv
  Probe = {p1}
  View = {v1, v2}
  Web = Web
  KeepAlive = {p1, v1}
  Limit = 1
SPECIFICATION FairSpec
INVARIANTS TypeOK PageIsCurrent
PROPERTIES Boots Stops ImplementsDrain

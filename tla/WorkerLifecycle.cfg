\* Two queues, two probes, two signals; the process stops, so it may end.
CONSTANTS
  Queue = {q1, q2}
  Probe = {p1, p2}
  Sig = {SIGTERM, SIGINT}
SPECIFICATION FairSpec
CHECK_DEADLOCK FALSE
INVARIANTS TypeOK EarlyProbesAnswered CleanExit NoWorkerLeftBehind
PROPERTIES Terminates ImplementsDrain

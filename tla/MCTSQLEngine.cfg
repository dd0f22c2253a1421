\* Three times on three keys under every hash, two payloads, three events.
SPECIFICATION Spec
CONSTANTS
  Times = {t1, t2, t3}
  Indices = {0, 1, 2}
  Payloads = {p1, p2}
  MaxEvents = 3
  None = None
INVARIANTS
  ManifoldOrdered
  QueryAnswersLast

CONSTANTS
  Servers = {s1, s2}
  Agents = {a1, a2}
  Tickets = {t1}
  UpdateTargets = {"in_progress", "review", "ready", "done"}
  None = None
SYMMETRY Symmetry
SPECIFICATION Spec
INVARIANT HolderIsClaimant
PROPERTY ClaimNeverStolen
PROPERTY DoneReopenedOnlyExplicitly

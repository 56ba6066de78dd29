SPECIFICATION FairSpec
CONSTANTS
  Users = {u1}
  Tokens = {t1, t2}
  Procs = {p1, p2}
  Faults = {"db", "crash"}
  None = None
INVARIANTS TypeOK NoServeAfterRevoke AdminIsCurrent MaintenanceHolds OneSessionUnlessRaced
PROPERTIES RevokedForGood RequestsEnd

SPECIFICATION Spec
CONSTANTS
  AnyNs = AnyNs
  AnyHost = AnyHost
  NoRule = NoRule
  NoHost = NoHost
  NoSNI = NoSNI
  NoBody = NoBody
  Nothing = Nothing
  Handlers = {h1, h2}
  Conns <- TLSConns
  Requests <- TLSRequests
  Answers <- TLSAnswers
  Policies <- TLSPolicies
  Canon <- MCCanon
  HasCA = TRUE
  MaxBody = 1
  Second = 1
  Width = 8
  TLSPort = 443
  MaxTime = 1
  MaxRequests = 2
SYMMETRY Symmetry
INVARIANTS HitSameHost StoredStorable StoredWhereLookedUp
PROPERTIES SplicedUncacheable

\* Every message may be followed by another: the system does not stop.
CONSTANTS
  Consumer = {c1, c2}
  GrantId = {g1}
  Endpoint = {e1, e2}
  Shard <- MCShard
  Key <- MCKey
  State = {"ACTIVE", "ALLOCATED"}
  Sent <- MCSent
SPECIFICATION Spec
SYMMETRY MCSymmetry
INVARIANTS OwnersKnown MirrorsWhatArrived LookupLeadsToOwner

\* One picker, and another node that may hold two leases at once.
CONSTANTS
  self = self
  other = other
  Nodes = {self, other}
  Pickers = {self}
  MaxLeases <- LeasesOf
  MaxEvents = 2
SPECIFICATION FairSpec
INVARIANTS TypeOK KeptIsRegistered CaughtUp RingHasClients
PROPERTIES GoneNodeLeaves KeptNodeFound

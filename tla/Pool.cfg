CONSTANTS
  Peer = {me, p1, p2}
  Owner = me
  Endpoint = {e1, e2}
SPECIFICATION PoolSpec
INVARIANT InSync
PROPERTY ChannelsKept

\* One consumer, three updates, two faults.
CONSTANTS
  c1 = c1
  Consumers <- MCConsumer
  MaxData = 3
  MaxFaults = 2
SPECIFICATION FairSpec
INVARIANTS
  NoUpdateTwice
  QuietSubscriptionMissesNothing
PROPERTY SubscribeSucceeds
\* consumers may go, and the owner may make nothing more
CHECK_DEADLOCK FALSE

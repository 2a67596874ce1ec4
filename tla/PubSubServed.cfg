\* subscribe() against the note in its code.
CONSTANTS
  c1 = c1
  Consumers <- MCConsumer
  MaxData = 2
  MaxFaults = 1
SPECIFICATION Spec
PROPERTY SubscriberIsServed
\* consumers may go, and the owner may make nothing more
CHECK_DEADLOCK FALSE

SPECIFICATION LiveSpec
CONSTANTS
    None = None
    Packet = {p1, p2, p3}
    Producers = {camera, mic}
    Consumers = {pusher}
    Controllers = {ui}
INVARIANTS TypeOK SleepsOnlyWhenIdle 
PROPERTIES ImplementsFifo StopReleasesConsumer
CHECK_DEADLOCK FALSE

\* ssh_sensor.py: one session can multiplex several channels.
CONSTANTS
    Channels = {"c1", "c2"}
SPECIFICATION Spec
INVARIANT GrantedRequestIsServed
CHECK_DEADLOCK FALSE

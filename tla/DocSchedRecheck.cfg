SPECIFICATION ScheduleSpec
CONSTANTS
    Workers = {w1}
    Scheds = {1, 2}
    Due <- EachMinute
    MaxMinute = 2
    MaxCrashes = 0
    Ops = {"revoke"}
PROPERTY RunsAreRechecked
CHECK_DEADLOCK FALSE

\* Two nodes; ticks of 500 ms: timeout 1000 ms and the 1 s sleep of
\* example_02_failure_detection are 2 ticks.  12 ticks allow four scans and
\* more than three timeouts in a row.
CONSTANTS
    n1 = n1  n2 = n2
    Addrs = {n1, n2}
    Timeouts = {2}
    Period = 2
    MaxTime = 12
SPECIFICATION Spec
INVARIANT FailureCountAtMostOne
INVARIANT SuspectedOnlyAfterTimeout

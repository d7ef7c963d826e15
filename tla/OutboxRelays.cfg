\* Two article rpc processes over one table; the pusher waits for the broker,
\* which may refuse any number of pushes; one crash or failed update.
SPECIFICATION LiveSpec
CONSTANTS
    MaxEvent = 2
    Relay = {r1, r2}
    BatchSize = 1
    MaxRetry = 2
    BufferedPusher = FALSE
    MaxFaults = 1
INVARIANTS TypeOK   RetryOvershoot
PROPERTIES  SettledOrExhausted

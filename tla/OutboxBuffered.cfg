\* The pusher as it is configured: PushWithKey queues in memory.
SPECIFICATION LiveSpec
CONSTANTS
    MaxEvent = 2
    Relay = {r1, r2}
    BatchSize = 2
    MaxRetry = 2
    BufferedPusher = TRUE
    MaxFaults = 1
PROPERTY DeliveredUnlessFault

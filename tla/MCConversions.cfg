SPECIFICATION ReadSpec
CONSTANT Samples <- MCSamples
INVARIANTS UptimeFullHours SensorNearest UsedFitsSize
PROPERTY NeverDeclines
CHECK_DEADLOCK FALSE

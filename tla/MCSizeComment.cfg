SPECIFICATION ReadSpec
CONSTANT Samples <- MCSamples
INVARIANT SizeNearest
CHECK_DEADLOCK FALSE

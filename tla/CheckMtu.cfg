\* A valid message with an MTU.
CONSTANT Buffers <- SomeBuffers
SPECIFICATION Spec
INVARIANT ReadsItsOwnItem
CHECK_DEADLOCK FALSE

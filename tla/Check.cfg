\* Every validator and parser, every check of a data item at its boundaries.
CONSTANT Buffers <- SomeBuffers
SPECIFICATION Spec
INVARIANTS VerdictIsRule ParsesWhatWasChecked ParsedAsChecked
CHECK_DEADLOCK FALSE

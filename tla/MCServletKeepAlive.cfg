CONSTANTS
    Streams <- MCStreams
    BufferSize = 4
SPECIFICATION Spec
INVARIANT KeepAliveIsOwn

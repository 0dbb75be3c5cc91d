SPECIFICATION Spec

INVARIANT ApiNotBlockedByTransport

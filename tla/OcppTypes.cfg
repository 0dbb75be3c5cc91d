SPECIFICATION Spec
INVARIANT RegistryRoundTrip

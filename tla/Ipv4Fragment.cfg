CONSTANTS
  HeaderLens <- MCHeaderLens
  Mtus <- MCMtus
  MaxPayload <- MCMaxPayload
  Usize <- MCUsize
SPECIFICATION Spec
INVARIANT FragmentsReassemble

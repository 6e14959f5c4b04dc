CONSTANTS
  MaxRx <- MCMaxRx
  MaxTx <- MCMaxTx
  MaxEgress <- MCMaxEgress
  Lens <- MCLens

SPECIFICATION Spec

INVARIANT TypeOK
INVARIANT RxConservation
INVARIANT TxInOrder
INVARIANT NoAbort
INVARIANT RxNewestFirst
PROPERTY TxEventuallyFetched

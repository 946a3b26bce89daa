\* What the header says of exact-fingerprint Client configurations.
SPECIFICATION Spec
CONSTANTS
  Callers = {t1, t2}
INVARIANT FingerprintSkipsValidation

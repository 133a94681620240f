SPECIFICATION SubmitSpec
CONSTANTS
  Senders = {c1, c2, c3}
INVARIANT RefusalIsReported

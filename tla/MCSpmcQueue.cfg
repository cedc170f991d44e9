\* Two slots, six publishes of a two-word payload: each slot is overwritten twice,
\* and the reader, with any policy, can be lapped in every phase of its poll.
SPECIFICATION FairSpec
CONSTANTS
  Consumers = {c1}
  Capacity = 2
  Words = {lo, hi}
  MaxSeq = 6
  NONE = NONE
INVARIANTS ReadyIsPublished LapReportIsTrue PublishedIsReadable
PROPERTIES CursorNeverGoesBack ImplementsLog ConsumersCatchUp
CHECK_DEADLOCK FALSE

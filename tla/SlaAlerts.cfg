\* Two alert resources and two listen streams.
CONSTANTS
  u1 = u1
  u2 = u2
  s1 = s1
  s2 = s2
  w1 = w1
  w2 = w2
  None = None
  Undefined = Undefined
  Asked = Asked
  Uris = {u1, u2}
  AlertUris = {u1, u2}
  Streams = {s1, s2}
  Launches = {w1, w2}
  MaxChanges <- MCMaxChanges
  MaxFailures = 1
SPECIFICATION FairSpec
INVARIANTS PollsWhatIsListened RecordedIsSeen
PROPERTIES ChangesAreSeen
\* A server that has closed does nothing more.
CHECK_DEADLOCK FALSE

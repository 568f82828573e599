SPECIFICATION CliSpec
CONSTANTS
  NoPid = NoPid
  Unwritten = Unwritten
  Pids = {p1, p2, p3}
  Stops = {s1}
INVARIANT AtMostOneNode

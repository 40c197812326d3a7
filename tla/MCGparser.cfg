\* Two lines after each other under every table of mount points: supported
\* and unsupported ones inside of each other, one whose name begins another,
\* no supported root, and one mount point more than either table holds.  Lines
\* with missing, repeated, malformed, unknown and too many tokens, and with
\* every pair of paths, targets of links and operations of the sets.
CONSTANTS
  MaxMounts = 3
  Nowhere = Nowhere
  ProcMounts <- MCProcMounts
  Lines <- MCLines
  MaxLines = 2
  MaxTokens = 5
SPECIFICATION Spec
CHECK_DEADLOCK FALSE
INVARIANTS
  PathsApart
  NoUnsupportedMount
  SymlinkResolves
  TimesKeepDistance

CONSTANTS
  Line <- PortLines
  File <- PortFile
  Packet <- PortPackets

SPECIFICATION Spec
INVARIANT VerdictAsTyped
INVARIANT ListingAsTyped
INVARIANT ReportIsTrue

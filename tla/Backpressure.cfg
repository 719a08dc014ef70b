\* The least room with which the two can do: one more message unread, and there is
\* a standoff.
CONSTANTS
  InCap = 3
  OutCap = 4
  Unread = 2
SPECIFICATION FairSpec
INVARIANTS NoStandoffInv NoStandoff
PROPERTIES WritesComplete RoomIsMade
CHECK_DEADLOCK FALSE

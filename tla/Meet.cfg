SPECIFICATION Spec
CONSTANTS
  Spelling <- MCSpelling
  Length <- MCLength
  Address = {4, 5}
  Opens <- MCOpens
  Opaque = {"letters", "small", "unique", "by"}
  Holds <- MCHolds
  Dollar = 2
  AfterDot = 6
  Terms <- All
  Sample <- MCSample
  MaxTerms = 3
INVARIANT TypeOK
INVARIANT MeetIsExact
INVARIANT OrderFree
INVARIANT CoverIsSound
INVARIANT MeetIsBelow

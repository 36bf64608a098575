\* Three sites: elections, crashes and changes of masters.
CONSTANTS
  site1 = site1
  site2 = site2
  site3 = site3
  None = None
  Site = {site1, site2, site3}
  Rank <- TwoAhead
  NVotes = 2
  Plans <- AllPlans
SPECIFICATION Spec
INVARIANTS TypeOK OneWinner WinnerIsMostRecent
PROPERTIES FairBallot
CHECK_DEADLOCK FALSE

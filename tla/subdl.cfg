SPECIFICATION FairSpec
CONSTANTS
  Key <- MCKey
  Lower <- MCLower
  NoText = ""
  Worker = {w1, w2}
  Video = {"show", "film", "sequel", "novel", "nameless"}
  Text <- MCText
  Url <- MCUrl
  Name <- MCName
  Titled <- MCTitled
  Listing <- MCListing
  Pages <- MCPages
  Body <- MCBody
  MaxRetries = 1
  Day = 1
  Reset = {1, 3}
  Horizon = 2
  Fetches = 2
INVARIANTS TypeOK MissJustified BestTaken RightEpisode TitleRecovered
PROPERTIES SuspensionEarned FetchReturns
CHECK_DEADLOCK FALSE

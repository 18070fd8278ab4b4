SPECIFICATION FairSpec
CONSTANTS
  Target = 10
  SeamOverlap = 4
  MaxDuplicate = 3
  Nothing = Nothing
  Punctuation = {"!"}
  MaxAttempts = 3
  Lateness = {0, 2}
  Texts = {"go", "no"}
  Instants = {8, 9, 10, 11, 12}
  MaxWords = 3
  Echo = 5
  Film <- AllFilms
  Chars <- MCChars
  Continues <- MCContinues
  Mark <- MCMark
  Lasts <- Spoken
  MaxLineChars = 4
  Second = 1
INVARIANTS TypeOK ChunksCover NothingLost NothingTwice NoHiddenLoop WellShaped
PROPERTIES DownloadReturns

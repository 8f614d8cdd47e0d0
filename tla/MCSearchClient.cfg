\* A paged search beside the clean-up job.
CONSTANTS
  Docs <- AllDocs
  Old <- OldDocs
  PageSize = 2
  ScrollSize = 2
  Conditions <- Conds
  Query <- ParseFilterArgs
  Meets <- MatchesAll
  MaxPage = 2
SPECIFICATION FairSpec
INVARIANTS
  OnlyOddPagesCrash
  PageIsOfOneSearch
  LeftoverOnlyByConflict
PROPERTIES
  FiltersAnswered
  JobEnds

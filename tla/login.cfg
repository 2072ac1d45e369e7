CONSTANTS
  MaxCalls = 4
  MaxMessages = 4
SPECIFICATION FairSpec
INVARIANTS TypeOK OneConnection SessionKeys FaultsKnown
PROPERTIES TickClosesOwn AnswerTaken

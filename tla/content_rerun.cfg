SPECIFICATION Spec
CONSTANTS
  Decks <- AllDecks
  Sections <- AllSections
  Handwritten <- MCHandwritten
  FoundationsWave <- FoundationTopics
  Waves <- MCWaves
  JargonWaves <- MCJargonWaves
  TeachPrefix <- MCTeachPrefix
  JargonPrefix <- MCJargonPrefix
  LostTopics <- MCLostTopics
  StrayKeys <- MCStrayKeys
  MaxOverwrites = 1

PROPERTIES TermsSurvive

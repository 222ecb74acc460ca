CONSTANTS
  Garbage = Garbage
  Clean = Clean
  Partial = Partial
  Mangled = Mangled
  Cut = Cut
  MaxEntries = 5
SPECIFICATION JournalSpec
INVARIANTS ReadsInOrder OnlyANeighbourIsLost SeenStaysIntact

CONSTANTS
  Garbage = Garbage
  Clean = Clean
  Partial = Partial
  Mangled = Mangled
  Cut = Cut
  MaxEntries = 5
SPECIFICATION JournalSpec
INVARIANT MalformedIsSkipped

\* Every way through a small story with up to two pages over it.
SPECIFICATION Spec
CONSTANTS
  Script <- MCScript
  Start = "title"
  Entry <- MCEntry
  Route = {"hall"}
  SystemActions <- MCSystemActions
  Keys = {"seen"}
  MinValue = 0
  MaxValue = 1
  Reading <- MCReading
  None = None
  MenuAfterEnd = FALSE
  MaxWaits = 4
  MaxFrames = 2
  MaxReads = 2
INVARIANTS
  NoLegalInputFails
  HeldWaitsArePending
  OwnSaveRestores

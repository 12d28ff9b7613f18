\* One stored value that is not the default: a save before the page has read it.
CONSTANTS
  Values = {default, edited}
  Default = default
  Reads = {r1}
  None = None
  MaxEdits = 1
  MaxWrites = 2
SPECIFICATION Spec
PROPERTY UneditedIsKept
CHECK_DEADLOCK FALSE

SPECIFICATION ConfigSpec
CONSTANTS
  Sections = {"web", "plugins"}
  Keys = {"port", "enabled", "dir"}
  Values = {0, 1}
  MaxLines = 2
  MaxArgs = 1
INVARIANT DocumentedTakesEffect

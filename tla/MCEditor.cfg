SPECIFICATION Spec
CONSTANTS
  INDENT = 2
  MaxLen = 9
  Typed <- MCTyped
  Pastes <- MCPastes
  Searches <- MCSearches
  Repl <- MCRepl
  MaxText = 3
INVARIANTS
  FindVisitsCounted
PROPERTIES
  CursorOnCharacter
  PopupFollowsWord

SPECIFICATION Spec
CONSTANTS
  Texts <- Strings
  Numbers <- Codes
  Addresses <- Bases
  MaxText = 6
INVARIANTS
  CursorGoesHome

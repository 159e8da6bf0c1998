SPECIFICATION FairSpec
CONSTANTS
  Texts <- Strings
  Numbers <- Codes
  Addresses <- Bases
  MaxText = 6
INVARIANTS
  TypeOK
  LinePrepared
  WireGetsText
  TextIsSeen
  NumberReadsBack
PROPERTIES
  PrintingEnds

SPECIFICATION Spec
CONSTANTS
  boot_fb_width = 9
  boot_fb_height = 7
  CHAR_BIT = 2
  font_width_bytes = 1
  font_height = 2
  glyph_nr = 34
  glyph_table <- NarrowFont
  DEFAULT_TAB_SIZE = 2
  Characters <- Printed
INVARIANTS
  InBounds
  MarginBlank
PROPERTIES
  ImplementsTerminal

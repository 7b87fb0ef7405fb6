CONSTANTS
  CGA_TEXT_COLUMNS = 2
  CGA_TEXT_ROWS = 3
  Glyphs = {"a", " "}
  Blank = " "
  First = "["
  Last = "."
  MaxPolls = 1
  Byte = 4
SPECIFICATION Spec
INVARIANTS CursorShown PortsAgree ReportShown
PROPERTIES CallReturns ImplementsScreen

SPECIFICATION Spec
CONSTANTS
  Firmwares <- MCFirmwares
  IMAGE_WIDTH = 6
  IMAGE_HEIGHT = 4
  FONT_WIDTH = 2
  FONT_HEIGHT = 2
  MAX_LINE = 6
  DUMMY_LINE = 3
  SHELL_MAX_ARGS = 2
  POINTER_SIZE = 2
  Letters = {"a", "b"}
  Prompts <- MCPrompts
  LoadingText <- MCText
  DoneText <- MCText
  Outputs <- MCOutputs
INVARIANTS
  TypeOK
  StaysInFrame
  ScreenShowsLine
  BlackBehindCursor
  ArgsAreWords

SPECIFICATION Spec
CONSTANTS
  MAX_ARGS = 2
  HexDigits = 1
  CLEAR <- MCClear
  HELP <- MCHelp
  ECHO <- MCEcho
  PEEK <- MCPeek
  HelpText <- MCText
  UsageText <- MCText
  DataText <- MCText
  UnknownText <- MCText
  Readable <- MCReadable
  Memory <- MCMemory
  Columns = 4
  Rows = 3
  BufferSize = 4
  Keys = {8, 10, 32, 48}
  Prompt <- MCPrompt
  LogPrefix <- MCText
  LogText <- MCText
  LogLines = {0, 2}
  EarlyKeys = 1
INVARIANTS
  TypeOK
  CursorOnScreen
  EchoMatches
  PromptStands
CHECK_DEADLOCK FALSE

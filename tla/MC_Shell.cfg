SPECIFICATION TypingSpec
CONSTANTS
  MAX_ARGS = 2
  HexDigits = 2
  CLEAR <- MCClear
  HELP <- MCHelp
  ECHO <- MCEcho
  PEEK <- MCPeek
  HelpText <- MCText
  UsageText <- MCText
  DataText <- MCText
  UnknownText <- MCText
  Readable <- MCReadable
  Memory <- MCMemory
  Alphabet = {32, 9, 48, 97, 120}
  MaxText = 5
  MaxNumber = 300
INVARIANTS
  ParseFindsWords
  HexIsValue
  NumbersReadBack
  CommandIsFirstWord

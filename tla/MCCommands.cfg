CONSTANTS
  YOURFS_SPECS <- MCSpecs
  YourfsLines <- MCYourfsLines
  TOOL_SPECS <- MCToolSpecs
  ToolLines <- MCToolLines
  GoodType <- MCGoodType
  GoodTable <- MCGoodTable
  RedisType <- MCRedisType
  DefaultPool = 4
  MaxLines = 3
SPECIFICATION CommandsSpec
INVARIANTS
  CommandsTypeOK
  
  ServesWhatWasAsked
  NothingLeftOpen
  HonestExit
PROPERTY
  StartsOrExits

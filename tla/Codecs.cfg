SPECIFICATION Spec
CONSTANTS
  Width = 12
  FractionDigits = 2
  HttpLength = 18
  SocketLength = 34
  Kepts = {0, 9, 17}
  TornMost = 1
  Ours <- MCOurs
  Others <- MCOthers
  BufLength = 8
  Radix = 16
  Block = 3
  Encode16 <- MCEncode16
  Decode16 <- MCDecode16
  Secrets <- MCSecrets
  PlainLength = 7
  CipherLength = 9
  Vector <- MCVector
  Texts <- MCTexts
  TextLength = 8
  CodeLength = 4
  SinkLength = 16
  EncodeLength = 4
  DecodeLength = 9
  Shift = 28800
  Values <- MCValues
  Foreign <- MCForeign
  BadTexts <- MCBadTexts
  AnyTexts <- MCAnyTexts
  Bytes <- MCBytes
  Days <- MCDays
  Pieces = {1, 2, 3, 7, 99}
INVARIANTS JsonRight BytesRight NumbersRight CalendarRight HttpRight
CHECK_DEADLOCK FALSE

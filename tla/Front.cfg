SPECIFICATION FrontSpec
CONSTANTS
  Files <- MCFiles
  Units <- MCUnits
  Form <- MCForm
  Syntax <- MCSyntax
  Signatures <- MCSignatures
  ByteBits = 2
  TypeNamed <- MCTypeNamed
INVARIANTS
  TokensRight
  ReadRight
CHECK_DEADLOCK FALSE

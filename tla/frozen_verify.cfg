SPECIFICATION PkgSpec
CONSTANTS
  Order <- DefOrder
  Major <- DefMajor
  Offered <- DefOffered
  Needs <- DefNeeds
  GoNeeds <- DefGoNeeds
  GoMajor <- DefGoMajor
  Inside <- DefInside
  Mislabelled <- DefMislabelled
  Flags <- DefFlags
  MaxCommands = 3
INVARIANT FrozenRepairs
CHECK_DEADLOCK FALSE

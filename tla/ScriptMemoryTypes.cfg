\* A callback of the plugin, a public it calls, a native that one calls, and a
\* public again, with two scopes open in each native.
SPECIFICATION Spec
CONSTANTS
  Hlw = 8
  Stp = 44
  Margin = 4
  Texts <- ShortTexts
  Literals <- ScriptLiterals
  Addresses <- SomeAddresses
  MaxDepth = 4
  MaxScopes = 2
  MaxBlocks = 2
INVARIANT TypeOK
CHECK_DEADLOCK FALSE

SPECIFICATION LinkSpec
CONSTANTS
  Inodes = {i1, i2, i3}
  Targets = {cli, alias, old, other, opaque}
  Cli = cli
  Aliases = {alias}
  Opaque = {opaque}
  MaxKept = 2
  Nothing = Nothing
INVARIANTS RemovesOnlyConfirmed AnswersTell

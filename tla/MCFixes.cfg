SPECIFICATION MCSpec
CONSTANTS
  Literals <- Texts
  Numbers <- Digits
  ComponentOf <- Components
  Widths <- AllWidths
  Comments <- AllComments
  MaxColumns = 24
  Sources <- SomeSources
  Rounds = 24
  MaxPasses = 3
  Anchors = {"&v"}
  SingleQuoted <- QuotedUnits
  JinjaLayout <- JinjaUnits
  Limit = 8
  Broken = {}
  MaxChoices = 3
  MaxEdits = 3
  MaxSiblings = 3
INVARIANTS
  EditsMeanTheirText
  FixesAreSettled
  FormatKeepsText
CHECK_DEADLOCK FALSE

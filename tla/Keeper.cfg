SPECIFICATION FairSpec

CONSTANTS
  Cooldown = 3
  MaxHeight = 8
  MaxInbox = 3

PROPERTIES
  ImplementsCooldown
  CooldownKept
  HeadIsSeen
  Reconnects

CHECK_DEADLOCK FALSE

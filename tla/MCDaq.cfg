\* All three cards. The digital outputs are also written channel by channel, the
\* analog ones also enabled and disabled by themselves.
CONSTANTS
  Cards = {"q8_usb", "q2_usb", "qpid_e"}
  Inputs = {"AI", "encoder"}
  Direct = {"DO"}
  Loose = {"AO"}
SPECIFICATION FairSpec
INVARIANTS
  OpenIsGuarded
  EnabledAloneIsSafe
PROPERTIES
  StartsFromEnableValues
  EndsWithDisableValues
  DeathIsCovered

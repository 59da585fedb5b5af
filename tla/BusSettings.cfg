SPECIFICATION Spec
CONSTANTS
  Value <- Values
  Unset = Unset
  Blank = ""
  Default <- Defaults
  Dir <- Dirs
  RelativeCA = "./ca"
  Bus <- Buses
  Flags <- CommandLines
  Env <- Environments
  OldProfile <- Profiles
  None = None
INVARIANTS ProfileReproduces RegisteredThere PasswordApart
PROPERTIES NeverPoisoned PinnedEndpoint

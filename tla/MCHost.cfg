SPECIFICATION HostSpec
CONSTANTS
  Tokens = {t1, t2}
  Logins = {"acme", "ann"}
  TypeOf <- MCTypeOf
  Host = "linux"
  Variables = {"GITHUB_TOKEN"}
  Written <- MCWritten
  Answers <- MCAnswers
  DefaultMax = 4
  Max = 0
  Installers = {run, doctor}
INVARIANTS InstallsAreWhole RunsWhatWasVerified
PROPERTIES StartsUnaided ComesUp
CHECK_DEADLOCK FALSE

\* Two games and three servers: one in use, one that fails, one that takes over.
CONSTANTS
  Game = {g1, g2}
  NoGame = noGame
  Server = {s1, s2, s3}
  NoServer = noServer
  MaxAttempts = 3
SPECIFICATION Spec
INVARIANTS ServersOwned ProviderAsAnswered SessionServed
PROPERTIES ConnectEnds

SPECIFICATION ImportSpec
CONSTANTS
  MinChunk = 2
  MaxRounds = 4
  IPv4 = {"192.0.2.1", "192.0.2.2", "10.0.0.1"}
  IPv6 = {"2001:db8::1"}
  Private10 = {"10.0.0.1"}
  RuDomains = {"site.ru"}
  Panels <- AllPanels
  Working <- OneWorking
  Options <- SomeOptions
  Uploads <- SomeUploads
  Paddings <- SomePaddings
CHECK_DEADLOCK FALSE
\* One finding at a time: each of these lines fails by itself.
INVARIANT DialersAskBootstrap
\* INVARIANT FirewallWinsInVPN
\* INVARIANT NothingIsLost
\* INVARIANT StrangersAreSkipped
\* INVARIANT PaddingAlwaysFits

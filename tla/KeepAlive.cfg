SPECIFICATION FairLinkSpec
CONSTANTS PingEvery = 3 ReadLimit = 9 WriteLimit = 1 MaxBackoff = 30
INVARIANT LinkIsKept
PROPERTY CutIsNoticed

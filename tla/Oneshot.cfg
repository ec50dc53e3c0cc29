SPECIFICATION FairSpec
CONSTANTS
  Messages = {m1, m2, m3}
  Tokens = {t1, t2, t3}
  NoMsg = NoMsg
  NoToken = NoToken
INVARIANTS NoDataRace NoPanic Delivery TokensSafe
PROPERTY BlockedWakes

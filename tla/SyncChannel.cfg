SPECIFICATION FairSpec
CONSTANTS
  Senders = {1, 2}
  MaxSends = 3
  Capacities = {0, 1, 2}
  MaxTokens = 6
INVARIANTS PacketSafe SlotsNotWasted RendezvousKept
PROPERTIES ImplementsChannel BlockedWakes

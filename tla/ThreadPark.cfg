SPECIFICATION FairSpecPark
CONSTANTS
  Unparkers = {u1, u2}
  Owner = Owner
  Nobody = Nobody
  MaxParks = 3
  MaxUnparks = 4
INVARIANT ParkSound
PROPERTY UnparkReleases

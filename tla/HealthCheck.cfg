SPECIFICATION ServicesSpec
CONSTANT MaxBoots = 2
INVARIANT ConfirmedWhenHealthy

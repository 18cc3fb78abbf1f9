\* Two brands of one name; catalogs of up to two entries.
SPECIFICATION Spec
CONSTANTS
  Brands = {"a", "b", "branded"}
  Aliases = {"s"}
  Limits = {"64k", "1m"}
  NoLimit = NoLimit
  NoModel = NoModel
  Unreadable = Unreadable
  Gateway <- MCGateway
  Sessions <- MCSessions
  MaxModels = 2
  MaxEvents = 3
INVARIANTS TypeOK StartsEnriched
PROPERTIES NeverAnothersLimit

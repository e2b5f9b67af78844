SPECIFICATION Spec
CONSTANTS
  Procs = {1, 2}
  Keys <- MCKeys
  Users = {ann, bob}
  Everyone = Everyone
  Prices = {0, 50, 200}
  Grant = 3
  Codes = {1, 2}
  Reviews = {1, 2}
  Remarks = {1}
  Texts = {"long", "short"}
  Hours = {5}
  IdemKeys = {k1}
  Comments = {1, 2}
  Topics = {1, 2}
  Home = 1
  Names = {"Li", "Wu"}
  Offers <- MCOffers
  Calls = 3
  None = None
  Gone = Gone
  Keep = Keep
  DbFaults = TRUE
  RedisFaults = TRUE
  NsqFaults = TRUE
SYMMETRY Symmetry
INVARIANTS TypeOK SalesBooked CountsAgree FreshAfterWrites
CHECK_DEADLOCK FALSE

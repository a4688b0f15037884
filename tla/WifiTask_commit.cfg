SPECIFICATION FairSpec
CONSTANTS
  Ssids = {"", "home"}
  Keys = {"", "pass"}
  Offers <- MCOffers
  UsbOffers = {}
  Default <- MCDefault
  MaxConns = 1
  MaxEvents = 2
  Faults = {}
PROPERTY CommitLeadsToStation

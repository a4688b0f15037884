SPECIFICATION Spec
CONSTANTS
  Ssids = {"", "home"}
  Keys = {"", "pass"}
  Offers <- MCOffers
  UsbOffers <- MCUsbOffers
  Default <- MCDefault
  MaxConns = 1
  MaxEvents = 2
  Faults = {"power", "enable_ap", "disable_ap", "connect", "bind", "ecc_read", "ecc_write"}
INVARIANTS TypeOK OneRole ServerOnlyInApMode StateFitsMode StoredCredentialsValid

SPECIFICATION FairSpec
CONSTANTS
  Leds <- MCLeds
  StateLeds <- MCStateLeds
  Full = 2
  Buttons = {"BUTTON_1"}
  Ports = {"PA"}
  Sensors <- MCSensors
  Readings <- MCReadings
  Needed <- MCNeeded
  Far <- MCFar
  Words = {"red", "white"}
  Gpios <- MCGpios
  Direct <- MCDirect
  Invocations = {i1, i2}
  Loads <- MCLoads
CHECK_DEADLOCK FALSE
INVARIANTS TypeOK AgreeWhenQuiet LitAsKept ActiveIsComplete
PROPERTIES OneBadReadingHidden RegistrationCompletes SessionRepairs

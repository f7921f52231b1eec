SPECIFICATION Spec
CONSTANTS
  eth0 = eth0  eth1 = eth1  usb0 = usb0
  Interfaces = {eth0, eth1, usb0}
  BuiltIn = {eth0}
  Gadgets <- OneGadget
  Subnets = 2
  MaxMoves = 5
CHECK_DEADLOCK FALSE
INVARIANTS
  RulesOnFile
  NetworksApart
PROPERTIES
  DownClears

SPECIFICATION Spec
CONSTANTS
  w1 = w1
  a1 = a1
  m0 = m0
  s1 = s1
  group = group
  None = None
  Macs <- ThreeMacs
  Group = group
  Wifi <- OneWifi
  Portal = portal
  Mac <- OwnMac
  MeshId = m0
  Bridge = m0
  InFrames <- Talk
  InBeacons <- Station
  InCommands <- Station
  MeshIds <- Default
  Half = 2
  Lifetime = 1
  MaxUses = 2
INVARIANTS TypeOK Consistent Ageing Directed
PROPERTIES StaticKept

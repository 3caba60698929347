SPECIFICATION Spec
CONSTANTS
  a = a  b = b  c = c  x = x
  Node = {a, b, c}
  Ext = {}
  Gateway = {}
  Hears <- Line
  Traffic <- OneWay
  NET_DIAMETER = 3
  RREQ_RETRIES = 1
  MaxRreq = 3
  MaxHop = 3
  MaxTicks = 2
PROPERTY ErrorRemovesRoute

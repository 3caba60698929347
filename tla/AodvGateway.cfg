SPECIFICATION Spec
CONSTANTS
  a = a  b = b  c = c  x = x
  Node = {a, b, c}
  Ext = {x}
  Gateway = {b, c}
  Hears <- All
  Traffic <- Outside
  NET_DIAMETER = 3
  RREQ_RETRIES = 1
  MaxRreq = 2
  MaxHop = 3
  MaxTicks = 1
PROPERTY ExternalRouteFixed

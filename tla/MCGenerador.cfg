SPECIFICATION FairSpec
CONSTANTS
  n = 2
  m = 8
  h = 16
  z = 36
  l = 3
CHECK_DEADLOCK FALSE
INVARIANTS
  DisponibilidadPedida
  HorasDeOficina
  BloquesSinSolape
  VentanaUtil
PROPERTY
  Termina

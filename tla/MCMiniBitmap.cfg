SPECIFICATION FairSpec
CONSTANTS
  Objetos = {1, 2}
  BitsInt = 2
  Cap <- CapConRelleno
  Posiciones <- PosicionesConRelleno
INVARIANTS
  ContadorExacto
  BucleAlineado
PROPERTIES
  CuentaLosUnos
  ConjuntoSpec
  CountTermina

SPECIFICATION Spec
CONSTANTS
  Objetos = {1}
  BitsInt = 2
  Cap <- CapExacta
  Posiciones <- PosicionesExactas
PROPERTY
  CuentaLosUnos

SPECIFICATION Spec
CONSTANTS
  Cuentas <- CuentasChicas
  maxIteraciones = 10
CHECK_DEADLOCK FALSE
INVARIANTS
  FalloConCausa
  PunterosVivos
  SinFugas

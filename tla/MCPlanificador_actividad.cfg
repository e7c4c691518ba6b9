SPECIFICATION Spec
CONSTANT
  Instancias <- InstanciasChicas
CHECK_DEADLOCK FALSE
INVARIANT
  UnaActividadPorBloque

SPECIFICATION FairSpec
CONSTANT
  Instancias <- InstanciasChicas
CHECK_DEADLOCK FALSE
INVARIANTS
  TypeOK
  ArcosCaben
  ParesRecuperados
PROPERTIES
  Termina
  AsignacionSpec

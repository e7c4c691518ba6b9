SPECIFICATION FairSpec
CONSTANT
  Instancias <- InstanciasChicas
CHECK_DEADLOCK FALSE
INVARIANTS
  TypeOK
  VehiculoExclusivo
  UsoMarcado
  VisitaUnaVez
  ViajeEnJornada
  CuartetasCompletas
  DisponibilidadCoherente
  CostoExacto
  CandidatasCompletas
  LecturaFueraSoloTrasFallo
  PersonaAsignadaEnPrimeraJornada
PROPERTIES
  Terminacion
  AgendaSpec

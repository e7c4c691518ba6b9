SPECIFICATION Spec
CONSTANTS
  Horas <- HorasCercanas
  v1 = v1
  v2 = v2
  Vehiculos = {v1, v2}
  SinTexto = SinTexto
  Alfabeto <- OrdenDeTextos
  Minutos = {0, 90}
  MinutosServiu = 0
  MaxViajes = 4
  Archivos <- ArchivosCortos
CHECK_DEADLOCK FALSE
INVARIANTS
  OKSinRetrocesos
  OKSinSolapes
  ErrorConMotivo

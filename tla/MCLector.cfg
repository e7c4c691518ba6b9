SPECIFICATION Spec
CONSTANTS
  n = 2
  m = 1
  k = 2
  h = 2
  l = 2
  z = 60
  viatico = 9
  Textos = {SinTexto, p1, p2, v1, u1, u2, b1, b2, b3, vi1, vi2, t1, t2}
  Archivos <- ArchivosChicos
  Hora <- Horas
  Tiempos = {0, 300}
  Basura = {0, 1}
  SinTexto = SinTexto
  p1 = p1
  p2 = p2
  v1 = v1
  u1 = u1
  u2 = u2
  b1 = b1
  b2 = b2
  b3 = b3
  vi1 = vi1
  vi2 = vi2
  t1 = t1
  t2 = t2
INVARIANTS
  MapasAlDia
  DanoContenido
  CortadaNoPide
  PruebaDetecta
  EntregaInstancia
PROPERTIES
  ConsultasEstables

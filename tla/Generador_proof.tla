--------------------------- MODULE Generador_proof ---------------------------
(***************************************************************************)
(* Proofs about Generador, for every number of people, vehicles, blocks,   *)
(* minutes and visits the program accepts.                                 *)
(***************************************************************************)
EXTENDS Generador, FiniteSetTheorems, TLAPS

-----------------------------------------------------------------------------
(* The clock                                                               *)

(* A time as it is before the adjustments, and as it is after them *)
PorAjustar == Nat \X (9 .. 18) \X (0 .. 239)

DeOficina(t) ==
  /\ t \in Nat \X (9 .. 18) \X (0 .. 59)
  /\ t[2] # 13
  /\ t[2] = 12 => t[3] <= 30

LEMMA AcarreoDeLaHora ==
  ASSUME NEW t \in PorAjustar
  PROVE  /\ Acarreo(t) \in Nat \X (9 .. 19) \X (0 .. 59)
         /\ t[3] < 120 => Minutos(Acarreo(t)) = Minutos(t)
<1>1. t = <<t[1], t[2], t[3]>> /\ t[1] \in Nat /\ t[2] \in 9 .. 18 /\ t[3] \in 0 .. 239
  BY DEF PorAjustar
<1>2. t[3] % 60 \in 0 .. 59 /\ (60 <= t[3] /\ t[3] < 120 => t[3] % 60 = t[3] - 60)
  BY <1>1
<1>3. CASE t[3] >= 60
  <2>1. Acarreo(t) = <<t[1], t[2] + 1, t[3] % 60>>
    BY <1>3 DEF Acarreo
  <2>2. t[2] + 1 \in 9 .. 19
    BY <1>1
  <2> QED BY <1>1, <1>2, <1>3, <2>1, <2>2 DEF Minutos
<1>4. CASE t[3] < 60
  <2>1. Acarreo(t) = t /\ t[3] \in 0 .. 59 /\ t[2] \in 9 .. 19
    BY <1>1, <1>4 DEF Acarreo
  <2> QED BY <1>1, <2>1
<1> QED BY <1>1, <1>3, <1>4

LEMMA ColacionLibre ==
  ASSUME NEW t \in Nat \X (9 .. 19) \X (0 .. 59)
  PROVE  /\ Colacion(t) \in Nat \X (9 .. 19) \X (0 .. 59)
         /\ Colacion(t)[2] # 13
         /\ Colacion(t)[2] = 12 => Colacion(t)[3] <= 30
         /\ Minutos(t) <= Minutos(Colacion(t))
<1>1. t = <<t[1], t[2], t[3]>> /\ t[1] \in Nat /\ t[2] \in 9 .. 19 /\ t[3] \in 0 .. 59
  OBVIOUS
<1>2. CASE (t[2] = 12 /\ t[3] > 30) \/ t[2] = 13
  <2> DEFINE u == <<t[1], t[2] + 1, t[3] + 30>>
  <2>1. Colacion(t) = Acarreo(u)
    BY <1>2 DEF Colacion
  <2>2. u \in PorAjustar /\ u[3] < 120 /\ u[1] = t[1] /\ u[2] = t[2] + 1 /\ u[3] = t[3] + 30
    BY <1>1, <1>2 DEF PorAjustar
  <2>3. Acarreo(u) \in Nat \X (9 .. 19) \X (0 .. 59) /\ Minutos(Acarreo(u)) = Minutos(u)
    BY <2>2, AcarreoDeLaHora
  <2>4. Minutos(u) = Minutos(t) + 90
    BY <1>1, <2>2 DEF Minutos
  <2>5. Acarreo(u)[2] \in {14, 15}
    BY <1>1, <1>2, <2>2 DEF Acarreo
  <2>6. Minutos(t) \in Int
    BY <1>1 DEF Minutos
  <2> HIDE DEF u
  <2> QED BY <2>1, <2>3, <2>4, <2>5, <2>6
<1>3. CASE ~ ((t[2] = 12 /\ t[3] > 30) \/ t[2] = 13)
  <2>1. Colacion(t) = t
    BY <1>3 DEF Colacion
  <2>2. Minutos(t) \in Int
    BY <1>1 DEF Minutos
  <2> QED BY <1>1, <1>3, <2>1, <2>2
<1> QED BY <1>2, <1>3

LEMMA SalidaAlDiaSiguiente ==
  ASSUME NEW t \in Nat \X (9 .. 19) \X (0 .. 59), t[2] # 13, t[2] = 12 => t[3] <= 30
  PROVE  DeOficina(Salida(t)) /\ Minutos(t) <= Minutos(Salida(t))
<1>1. t = <<t[1], t[2], t[3]>> /\ t[1] \in Nat /\ t[2] \in 9 .. 19 /\ t[3] \in 0 .. 59
  OBVIOUS
<1>2. CASE t[2] >= 19
  <2>1. Salida(t) = <<t[1] + 1, 9, 0>>
    BY <1>2 DEF Salida
  <2> QED BY <1>1, <1>2, <2>1 DEF DeOficina, Minutos
<1>3. CASE t[2] < 19
  <2>1. Salida(t) = t /\ t[2] \in 9 .. 18
    BY <1>1, <1>3 DEF Salida
  <2> QED BY <1>1, <2>1 DEF DeOficina, Minutos
<1> QED BY <1>1, <1>2, <1>3

(* Every adjustment moves the clock forward, but the carry of more than    *)
(* one hour.                                                               *)
LEMMA AjustadoDeOficina ==
  ASSUME NEW t \in PorAjustar
  PROVE  /\ DeOficina(Ajustado(t))
         /\ t[3] < 120 => Minutos(t) <= Minutos(Ajustado(t))
<1> DEFINE a == Acarreo(t)
           c == Colacion(a)
<1>1. a \in Nat \X (9 .. 19) \X (0 .. 59) /\ (t[3] < 120 => Minutos(a) = Minutos(t))
  BY AcarreoDeLaHora
<1>2. /\ c \in Nat \X (9 .. 19) \X (0 .. 59) /\ c[2] # 13 /\ (c[2] = 12 => c[3] <= 30)
      /\ Minutos(a) <= Minutos(c)
  BY <1>1, ColacionLibre
<1>3. DeOficina(Salida(c)) /\ Minutos(c) <= Minutos(Salida(c))
  BY <1>2, SalidaAlDiaSiguiente
<1>4. \A u \in Nat \X (9 .. 19) \X (0 .. 59) : Minutos(u) \in Int
  BY DEF Minutos
<1>5. Minutos(a) \in Int /\ Minutos(c) \in Int /\ Minutos(Salida(c)) \in Int
  BY <1>1, <1>2, <1>3, <1>4 DEF DeOficina, Minutos
<1>6. Ajustado(t) = Salida(c)
  BY DEF Ajustado
<1> HIDE DEF a, c
<1> QED BY <1>1, <1>2, <1>3, <1>5, <1>6

-----------------------------------------------------------------------------
(* The window of a visit                                                   *)

LEMMA Resto ==
  ASSUME NEW d \in Nat \ {0}, NEW x \in Nat
  PROVE  /\ x % d \in 0 .. d - 1
         /\ x < d => x % d = x
         /\ d <= x /\ x < 2 * d => x % d = x - d
<1>1. x % d \in 0 .. d - 1 /\ x = d * (x \div d) + (x % d) /\ x \div d \in Nat
  OBVIOUS
<1>2. ASSUME NEW q \in Nat, NEW r \in 0 .. d - 1, x = d * q + r
      PROVE  x % d = r
  BY <1>2
<1>3. ASSUME x < d PROVE x % d = x
  BY <1>3
<1>4. ASSUME d <= x, x < 2 * d PROVE x % d = x - d
  <2>1. x = d * 1 + (x - d) /\ x - d \in 0 .. d - 1
    BY <1>4
  <2> QED BY <2>1, <1>2
<1> QED BY <1>1, <1>3, <1>4

LEMMA VentanaVale ==
  ASSUME NEW ini \in 0 .. Mitad - 1, NEW fin \in Mitad .. 2 * Mitad - 1
  PROVE  LET w == Ventana(ini, fin)
         IN  /\ w[1] \in Posiciones /\ w[2] \in Posiciones
             /\ Mitad <= w[2]
             /\ w[2] - w[1] >= maxBloquesvisita \/ (w[1] = 0 /\ w[2] = h - 1)
<1> DEFINE x    == fin + maxBloquesvisita
           otro == x % h
<1>1. h \in Nat /\ h >= 2 /\ Mitad \in Nat /\ Mitad >= 1 /\ 2 * Mitad <= h
  BY ArgumentosAssumption DEF Mitad
<1>2. maxBloquesvisita \in Nat
  BY ArgumentosAssumption DEF maxBloquesvisita
<1>3. ini \in Nat /\ fin \in Nat /\ ini < Mitad /\ Mitad <= fin /\ fin < h /\ x \in Nat
  BY <1>1, <1>2
<1> HIDE DEF x
<1>4. /\ otro \in 0 .. h - 1
      /\ x < h => otro = x
      /\ h <= x /\ x < 2 * h => otro = x - h
  <2>1. h \in Nat \ {0} /\ x \in Nat
    BY <1>1, <1>3
  <2> QED BY <2>1, Resto, Zenon
<1>5. ASSUME otro - ini >= maxBloquesvisita PROVE Mitad <= otro
  <2>1. CASE x < h
    BY <1>1, <1>2, <1>3, <1>4, <2>1 DEF x
  <2>2. CASE h <= x /\ x < 2 * h
    <3>1. otro = fin + maxBloquesvisita - h
      BY <1>1, <1>2, <1>3, <1>4, <2>2 DEF x
    <3> HIDE DEF otro
    <3> QED BY <1>1, <1>2, <1>3, <1>5, <3>1
  <2>3. CASE 2 * h <= x
    <3>1. maxBloquesvisita > h
      BY <1>1, <1>2, <1>3, <2>3 DEF x
    <3>2. otro \in Int /\ otro < h
      BY <1>1, <1>4
    <3> HIDE DEF otro
    <3> QED BY <1>1, <1>2, <1>3, <1>5, <3>1, <3>2
  <2> QED BY <1>1, <1>2, <1>3, <2>1, <2>2, <2>3
<1>6. Ventana(ini, fin) =
        IF fin - ini >= maxBloquesvisita THEN <<ini, fin>>
        ELSE IF otro - ini >= maxBloquesvisita THEN <<ini, otro>> ELSE <<0, h - 1>>
  BY DEF Ventana, x
<1> HIDE DEF otro
<1>7. CASE fin - ini >= maxBloquesvisita
  BY <1>1, <1>3, <1>6, <1>7 DEF Posiciones
<1>8. CASE ~ (fin - ini >= maxBloquesvisita) /\ otro - ini >= maxBloquesvisita
  BY <1>1, <1>3, <1>4, <1>5, <1>6, <1>8 DEF Posiciones
<1>9. CASE ~ (fin - ini >= maxBloquesvisita) /\ ~ (otro - ini >= maxBloquesvisita)
  <2>1. Ventana(ini, fin) = <<0, h - 1>>
    BY <1>6, <1>9
  <2> QED BY <1>1, <2>1 DEF Posiciones
<1> QED BY <1>7, <1>8, <1>9

-----------------------------------------------------------------------------
(* The invariant: the clock is where the last block left it, so that the   *)
(* next one can be compared with it.                                       *)

Ultimo == bloques[Len(bloques)]

RelojTrasElUltimo ==
  bloques # <<>> => dia = Ultimo[1] /\ hora = Ultimo[2] /\ min = Ultimo[3] + z

IInv ==
  /\ TypeOK
  /\ \A k \in DOMAIN bloques : DeOficina(bloques[k])
  /\ RelojTrasElUltimo
  /\ z <= 60 => BloquesSinSolape
  /\ VentanaUtil

LEMMA Inicio == ASSUME Init PROVE IInv
<1>1. h \in Nat /\ h >= 2 /\ z \in Nat
  BY ArgumentosAssumption
<1>2. TypeOK
  BY <1>1 DEF Init, TypeOK, Posiciones, Ninguna
<1> QED BY <1>2 DEF Init, IInv, RelojTrasElUltimo, BloquesSinSolape, VentanaUtil

LEMMA PasoBloque == ASSUME IInv, EscribirBloque PROVE IInv'
<1> DEFINE t == Ajustado(reloj)
<1>0. /\ z \in 1 .. 180 /\ dia \in Nat /\ hora \in 9 .. 18 /\ min \in 0 .. 239
      /\ z <= 60 => min < 120
  BY ArgumentosAssumption DEF IInv, TypeOK
<1>1. reloj \in PorAjustar /\ (z <= 60 => reloj[3] < 120) /\ reloj[3] = min /\ z \in 1 .. 180
  BY <1>0 DEF PorAjustar, reloj
<1>2. DeOficina(t) /\ (z <= 60 => Minutos(reloj) <= Minutos(t))
  BY <1>1, AjustadoDeOficina
<1>3. /\ bloques' = Append(bloques, t) /\ dia' = t[1] /\ hora' = t[2] /\ min' = t[3] + z
      /\ i' = i + 1 /\ UNCHANGED <<fase, mb, cantSi, visita>>
  BY DEF EscribirBloque
<1> HIDE DEF t
<1>4. bloques \in Seq(Nat \X Nat \X Nat) /\ t \in Nat \X Nat \X Nat
  <2>1. t = <<t[1], t[2], t[3]>> /\ t[1] \in Nat /\ t[2] \in 9 .. 18 /\ t[3] \in 0 .. 59
    BY <1>2 DEF DeOficina
  <2>2. t[2] \in Nat /\ t[3] \in Nat
    BY <2>1
  <2>3. t \in Nat \X Nat \X Nat
    BY <2>1, <2>2
  <2> QED BY <2>3 DEF IInv, TypeOK
<1>5. /\ bloques' \in Seq(Nat \X Nat \X Nat) /\ bloques' # <<>>
      /\ Len(bloques') = Len(bloques) + 1 /\ Len(bloques) \in Nat
      /\ bloques'[Len(bloques) + 1] = t
      /\ \A k \in 1 .. Len(bloques) : bloques'[k] = bloques[k]
      /\ DOMAIN bloques = 1 .. Len(bloques) /\ DOMAIN bloques' = 1 .. Len(bloques) + 1
  BY <1>3, <1>4
<1>6. TypeOK'
  <2>1. t[1] \in Nat /\ t[2] \in 9 .. 18 /\ t[3] \in 0 .. 59
    BY <1>2 DEF DeOficina
  <2>2. i \in Nat
    BY DEF IInv, TypeOK
  <2>3. i' \in Nat
    BY <1>3, <2>2
  <2>4. dia' \in Nat /\ hora' \in 9 .. 18
    BY <1>3, <2>1
  <2>5. min' \in 0 .. 59 + z
    <3>1. \A a \in 0 .. 59, b \in 1 .. 180 : a + b \in 0 .. 59 + b
      OBVIOUS
    <3>2. t[3] + z \in 0 .. 59 + z
      BY <1>0, <2>1, <3>1
    <3> QED BY <1>3, <3>2
  <2> QED BY <1>3, <1>5, <2>3, <2>4, <2>5 DEF IInv, TypeOK
<1>7. (\A k \in DOMAIN bloques : DeOficina(bloques[k]))'
  <2>1. ASSUME NEW k \in DOMAIN bloques'
        PROVE  (k \in DOMAIN bloques /\ bloques'[k] = bloques[k]) \/ bloques'[k] = t
    <3>1. k \in 1 .. Len(bloques) + 1 /\ Len(bloques) \in Nat
      BY <1>5
    <3>2. k \in 1 .. Len(bloques) \/ k = Len(bloques) + 1
      BY <3>1
    <3> QED BY <1>5, <3>2
  <2>2. \A k \in DOMAIN bloques' : DeOficina(bloques'[k])
    BY <1>2, <2>1 DEF IInv
  <2> QED BY <2>2 DEF DeOficina
<1>8. RelojTrasElUltimo'
  BY <1>3, <1>5 DEF RelojTrasElUltimo, Ultimo
<1>9. ASSUME z <= 60 PROVE BloquesSinSolape'
  <2> SUFFICES ASSUME NEW k \in 1 .. Len(bloques)
               PROVE  Minutos(bloques'[k]) + z <= Minutos(bloques'[k + 1])
    <3>1. \A k \in DOMAIN bloques' : k + 1 \in DOMAIN bloques' => k \in 1 .. Len(bloques)
      BY <1>5
    <3> QED BY <3>1 DEF BloquesSinSolape, Minutos
  <2>1. CASE k < Len(bloques)
    <3>1. k \in DOMAIN bloques /\ k + 1 \in DOMAIN bloques
      BY <1>5, <2>1
    <3>2. Minutos(bloques[k]) + z <= Minutos(bloques[k + 1])
      BY <1>9, <3>1 DEF IInv, BloquesSinSolape
    <3>3. bloques'[k] = bloques[k] /\ bloques'[k + 1] = bloques[k + 1]
      BY <1>5, <3>1
    <3> QED BY <3>2, <3>3
  <2>2. CASE k = Len(bloques)
    <3>1. bloques # <<>> /\ bloques'[k] = Ultimo /\ bloques'[k + 1] = t
      <4>1. bloques'[k] = bloques[k] /\ bloques'[k + 1] = t
        BY <1>5, <2>2
      <4>2. 1 <= Len(bloques)
        BY <1>5, <2>2
      <4>3. bloques # <<>>
        BY <4>2
      <4> QED BY <2>2, <4>1, <4>3 DEF Ultimo
    <3>2. Minutos(reloj) = Minutos(Ultimo) + z
      <4>1. dia = Ultimo[1] /\ hora = Ultimo[2] /\ min = Ultimo[3] + z
        BY <3>1 DEF IInv, RelojTrasElUltimo
      <4>2. Len(bloques) \in DOMAIN bloques
        BY <1>5, <2>2
      <4>3. Ultimo \in Nat \X Nat \X Nat
        BY <1>4, <4>2 DEF Ultimo
      <4>4. Ultimo[1] \in Nat /\ Ultimo[2] \in Nat /\ Ultimo[3] \in Nat
        BY <4>3
      <4>5. z \in Nat
        BY <1>1
      <4>6. Minutos(reloj) = ((dia - 1) * 24 + hora) * 60 + min
        BY DEF Minutos, reloj
      <4>7. \A x, y, w \in Nat :
              ((x - 1) * 24 + y) * 60 + (w + z) = (((x - 1) * 24 + y) * 60 + w) + z
        BY <4>5
      <4> QED BY <4>1, <4>4, <4>6, <4>7 DEF Minutos
    <3> QED BY <1>2, <1>9, <3>1, <3>2
  <2>3. Len(bloques) \in Nat
    BY <1>5
  <2>4. k < Len(bloques) \/ k = Len(bloques)
    BY <2>3
  <2> QED BY <2>1, <2>2, <2>4
<1>10. VentanaUtil'
  BY <1>3 DEF IInv, VentanaUtil
<1> QED BY <1>6, <1>7, <1>8, <1>9, <1>10 DEF IInv

LEMMA PasoVisita == ASSUME IInv, EscribirVisita PROVE IInv'
<1>1. PICK ini \in 0 .. Mitad - 1, fin \in Mitad .. 2 * Mitad - 1 :
        visita'.inicio = Ventana(ini, fin)[1] /\ visita'.fin = Ventana(ini, fin)[2]
  BY DEF EscribirVisita
<1>2. i' = i + 1 /\ UNCHANGED <<fase, mb, cantSi, reloj, bloques>>
  BY DEF EscribirVisita
<1>3. /\ visita'.inicio \in Posiciones /\ visita'.fin \in Posiciones
      /\ Mitad <= visita'.fin
      /\ \/ visita'.fin - visita'.inicio >= maxBloquesvisita
         \/ visita'.inicio = 0 /\ visita'.fin = h - 1
  BY <1>1, VentanaVale
<1>4. TypeOK'
  BY <1>2, <1>3 DEF IInv, TypeOK, reloj
<1>5. VentanaUtil'
  BY <1>3 DEF VentanaUtil
<1>6. RelojTrasElUltimo' /\ (z <= 60 => BloquesSinSolape')
  BY <1>2 DEF IInv, RelojTrasElUltimo, Ultimo, BloquesSinSolape, reloj
<1> QED BY <1>2, <1>4, <1>5, <1>6 DEF IInv

(* The other steps move neither the clock nor the blocks nor the visit.    *)
LEMMA PasoResto ==
  ASSUME IInv, UNCHANGED <<reloj, bloques, visita>>,
         TypeOK => fase' \in {"persona", "marcando", "bloques", "visitas", "fin"},
         i' \in Nat, mb' \subseteq Posiciones, cantSi' \in Posiciones
  PROVE  IInv'
<1>1. TypeOK'
  BY DEF IInv, TypeOK, reloj
<1> QED BY <1>1 DEF IInv, RelojTrasElUltimo, Ultimo, BloquesSinSolape, VentanaUtil, reloj

LEMMA Paso == ASSUME IInv, [Next]_vars PROVE IInv'
<1>1. /\ i \in Nat /\ i + 1 \in Nat /\ mb \subseteq Posiciones /\ cantSi \in Posiciones
      /\ fase \in {"persona", "marcando", "bloques", "visitas", "fin"}
      /\ 0 \in Posiciones
  BY ArgumentosAssumption DEF IInv, TypeOK, Posiciones
<1>2. CASE EmpezarPersona
  <2>1. cantSi' \in Posiciones
    BY <1>2, ArgumentosAssumption DEF EmpezarPersona, Mitad, Posiciones
  <2> QED BY <1>1, <1>2, <2>1, PasoResto DEF EmpezarPersona
<1>3. ASSUME NEW b \in Posiciones, MarcarBloques(b) PROVE IInv'
  BY <1>1, <1>3, PasoResto DEF MarcarBloques, Marcados
<1>4. CASE TerminarPersona
  BY <1>1, <1>4, PasoResto DEF TerminarPersona
<1>5. CASE FinPersonas
  BY <1>1, <1>5, PasoResto DEF FinPersonas
<1>6. CASE EscribirBloque
  BY <1>6, PasoBloque
<1>7. CASE FinBloques
  BY <1>1, <1>7, PasoResto DEF FinBloques
<1>8. CASE EscribirVisita
  BY <1>8, PasoVisita
<1>9. CASE FinVisitas
  BY <1>1, <1>9, PasoResto DEF FinVisitas
<1>10. CASE UNCHANGED vars
  BY <1>1, <1>10, PasoResto DEF vars
<1> QED BY <1>2, <1>3, <1>4, <1>5, <1>6, <1>7, <1>8, <1>9, <1>10 DEF Next

-----------------------------------------------------------------------------

(* The clock, the blocks and the windows at every point of a run           *)
(* (generate_input.cpp:154-219).                                           *)
THEOREM Invariante == Spec => []IInv
<1> QED BY Inicio, Paso, PTL DEF Spec

(* No block starts out of hours (generate_input.cpp:171-185).              *)
THEOREM SiempreEnHorasDeOficina == Spec => []HorasDeOficina
<1>1. IInv => HorasDeOficina
  BY DEF IInv, HorasDeOficina, DeOficina
<1> QED BY <1>1, Invariante, PTL

(* With blocks of an hour at most, no block starts before the one before   *)
(* it has ended (generate_input.cpp:167-192).                              *)
THEOREM SinSolape == ASSUME z <= 60 PROVE Spec => []BloquesSinSolape
<1>1. IInv => BloquesSinSolape
  BY DEF IInv
<1> QED BY <1>1, Invariante, PTL

(* Every visit has a window with time for the longest visit, or the whole  *)
(* calendar (generate_input.cpp:209-219).                                  *)
THEOREM VentanasUtiles == Spec => []VentanaUtil
<1>1. IInv => VentanaUtil
  BY DEF IInv
<1> QED BY <1>1, Invariante, PTL

(* The clock never leaves the office hours nor the minutes of an hour and  *)
(* a block, and what is marked and drawn are blocks of the calendar        *)
(* (generate_input.cpp:62-70,154-219).                                     *)
THEOREM TiposDelGenerador == Spec => []TypeOK
<1>1. IInv => TypeOK
  BY DEF IInv
<1> QED BY <1>1, Invariante, PTL

-----------------------------------------------------------------------------
(* The free blocks of a person.  While they are being marked the number    *)
(* drawn is not exceeded by more than one run.                             *)

MarcadosDeMas ==
  /\ fase = "marcando" =>
       Mitad <= cantSi /\ Cardinality(mb) < cantSi + cantbloques2horas
  /\ fase = "persona" /\ i > 0 =>
       /\ Mitad <= cantSi /\ cantSi <= Cardinality(mb)
       /\ Cardinality(mb) < cantSi + cantbloques2horas

LEMMA UnaRachaMas ==
  ASSUME NEW S \in SUBSET Posiciones, NEW b \in Posiciones
  PROVE  /\ Cardinality(S) \in Nat
         /\ Cardinality(S \cup Marcados(b)) \in Nat
         /\ Cardinality(S \cup Marcados(b)) <= Cardinality(S) + cantbloques2horas
<1>1. h \in Nat /\ z \in 1 .. 180 /\ 0 \in Int /\ h - 1 \in Int /\ b \in Int
  BY ArgumentosAssumption DEF Posiciones
<1>2. cantbloques2horas \in Nat
  BY <1>1 DEF cantbloques2horas
<1> DEFINE c == cantbloques2horas
           R == b .. b + c - 1
<1>3. Marcados(b) \subseteq R
  BY <1>1, <1>2 DEF Marcados, Posiciones
<1>4. IsFiniteSet(R) /\ Cardinality(R) = c
  <2> HIDE DEF c
  <2>1. b + c - 1 \in Int /\ (b > b + c - 1 => c = 0) /\ (b + c - 1) - b + 1 = c
    BY <1>1, <1>2 DEF c
  <2> QED BY <1>1, <2>1, FS_Interval
<1>5. IsFiniteSet(Marcados(b)) /\ Cardinality(Marcados(b)) <= c
  BY <1>3, <1>4, FS_Subset
<1>6. IsFiniteSet(S)
  BY <1>1, FS_Interval, FS_Subset DEF Posiciones
<1>7. /\ IsFiniteSet(S \cup Marcados(b))
      /\ Cardinality(S \cup Marcados(b)) =
           Cardinality(S) + Cardinality(Marcados(b)) - Cardinality(S \cap Marcados(b))
  BY <1>5, <1>6, FS_Union
<1>8. IsFiniteSet(S \cap Marcados(b))
  BY <1>6, FS_Intersection
<1>9. /\ Cardinality(S) \in Nat /\ Cardinality(Marcados(b)) \in Nat
      /\ Cardinality(S \cap Marcados(b)) \in Nat
      /\ Cardinality(S \cup Marcados(b)) \in Nat
  BY <1>5, <1>6, <1>7, <1>8, FS_CardinalityType
<1> HIDE DEF c
<1> QED BY <1>2, <1>5, <1>7, <1>9 DEF c

LEMMA MarcadosPaso ==
  ASSUME TypeOK, MarcadosDeMas, [Next]_vars PROVE MarcadosDeMas'
<1>1. /\ Mitad \in Nat /\ Mitad >= 1 /\ cantbloques2horas \in Nat
      /\ i \in Nat /\ cantSi \in Nat /\ mb \in SUBSET Posiciones
      /\ Mitad' = Mitad /\ cantbloques2horas' = cantbloques2horas
  BY ArgumentosAssumption DEF TypeOK, Mitad, cantbloques2horas, Posiciones
<1>2. CASE EmpezarPersona
  <2>1. fase' = "marcando" /\ cantSi' \in Mitad .. 2 * Mitad - 1 /\ mb' = {}
    BY <1>2 DEF EmpezarPersona
  <2>2. Cardinality(mb') = 0
    BY <2>1, FS_EmptySet
  <2> QED BY <1>1, <2>1, <2>2 DEF MarcadosDeMas
<1>3. ASSUME NEW b \in Posiciones, MarcarBloques(b) PROVE MarcadosDeMas'
  <2>1. /\ fase = "marcando" /\ fase' = fase /\ cantSi' = cantSi
        /\ Cardinality(mb) < cantSi /\ mb' = mb \cup Marcados(b)
    BY <1>3 DEF MarcarBloques
  <2>2. /\ Cardinality(mb) \in Nat /\ Cardinality(mb') \in Nat
        /\ Cardinality(mb') <= Cardinality(mb) + cantbloques2horas
    BY <1>1, <2>1, UnaRachaMas
  <2> QED BY <1>1, <2>1, <2>2 DEF MarcadosDeMas
<1>4. CASE TerminarPersona
  BY <1>1, <1>4 DEF TerminarPersona, MarcadosDeMas
<1>5. CASE FinPersonas \/ FinBloques \/ FinVisitas
  BY <1>5 DEF FinPersonas, FinBloques, FinVisitas, MarcadosDeMas
<1>6. CASE EscribirBloque
  BY <1>6 DEF EscribirBloque, MarcadosDeMas
<1>7. CASE EscribirVisita
  BY <1>7 DEF EscribirVisita, MarcadosDeMas
<1>8. CASE UNCHANGED vars
  BY <1>8 DEF vars, MarcadosDeMas, Mitad, cantbloques2horas
<1> QED BY <1>2, <1>3, <1>4, <1>5, <1>6, <1>7, <1>8 DEF Next

(* Each person written has at least half of the blocks free and, but for   *)
(* the last run drawn, no more than was drawn for her                      *)
(* (generate_input.cpp:62-70).                                             *)
THEOREM SiempreDisponibilidadPedida == Spec => []DisponibilidadPedida
<1>1. Init => MarcadosDeMas
  BY DEF Init, MarcadosDeMas
<1>2. IInv /\ MarcadosDeMas /\ [Next]_vars => MarcadosDeMas'
  BY MarcadosPaso DEF IInv
<1>3. MarcadosDeMas => DisponibilidadPedida
  BY DEF MarcadosDeMas, DisponibilidadPedida
<1> QED BY <1>1, <1>2, <1>3, Invariante, PTL DEF Spec

=============================================================================

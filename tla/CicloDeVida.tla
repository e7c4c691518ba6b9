----------------------------- MODULE CicloDeVida -----------------------------
(***************************************************************************)
(* What each program owns in the heap: the planner (SRPlanner_solucionar,  *)
(* class Solver), which holds an instance and a solution with a copy of    *)
(* its own of that instance, and the checker (SRPlanner_checker), which    *)
(* holds an instance and the trips of an output file.                      *)
(*                                                                         *)
(* A block of the heap is named by the object it was reserved for, the     *)
(* vector that points to it and its position there; a bitmap has a block   *)
(* more, its array of bits.  What is computed between construction and     *)
(* destruction is in the other modules.                                    *)
(*                                                                         *)
(* generarVecinos, the start of a local search that the program does not   *)
(* call yet, is here as something it may do before writing its output.     *)
(***************************************************************************)
EXTENDS Integers

CONSTANTS
  Cuentas,        \* [n, m, h, l, t]: people, vehicles, blocks, visits, trips
  maxIteraciones  \* neighbours generarVecinos tries: 10 in the code

ASSUME CuentasAssumption ==
  Cuentas \subseteq [n : Nat, m : Nat, h : Nat, l : Nat, t : Nat]
ASSUME IteracionesAssumption == maxIteraciones \in Nat

VARIABLES
  x,          \* the counts of the files
  programa,   \* "solucionar" or "verificar"
  pc,
  i,          \* neighbours tried, or trips read
  mem,        \* the blocks in use, but for the arrays of bitmaps
  arreglos,   \* the bitmaps whose array of bits has a block in use
  tiene,      \* the blocks each object points to; none before and after its life
  punteroII,  \* the instance a solution points to
  vecinos,    \* the blocks the neighbours kept point to
  doble,      \* history: something was freed that was not in use
  basura      \* history: a pointer that was never set was freed

vars == <<x, programa, pc, i, mem, arreglos, tiene, punteroII, vecinos, doble, basura>>

Objetos == {"ii", "copia", "sol", "vecino", "io"}
Nulo    == "NULL"

(* What a pointer that was never set may hold: nothing, an instance, or    *)
(* something that is not in the heap of the planner.                       *)
Residuos == {Nulo, "ii", "copia", "io"}

Init ==
  /\ x \in Cuentas
  /\ programa \in {"solucionar", "verificar"}
  /\ pc = "inicio"
  /\ i = 0
  /\ mem = {} /\ arreglos = {}
  /\ tiene = [o \in Objetos |-> {}]
  /\ punteroII = [o \in {"sol", "vecino"} |-> Nulo]
  /\ vecinos = {}
  /\ doble = FALSE /\ basura = FALSE

-----------------------------------------------------------------------------
(* Blocks                                                                  *)

Posiciones(o, vectores, cuantos) ==
  {<<o, v, j>> : v \in vectores, j \in 0 .. cuantos - 1}

Celda(o) == {<<o, "objeto", 0>>}

(* The bitmaps of an instance *)
BitmapsDeEntrada(o) ==
  Posiciones(o, {"pers_horasdisp", "pers_afin", "pers_prefvisita"}, x.n)
    \cup Posiciones(o, {"visita_personas", "visita_vehiculos"}, x.l)

(* The bitmaps of a solution, new in the constructor and in the copy *)
BitmapsDeSolucion(o) ==
  Posiciones(o, {"horasUsoVeh"}, x.m) \cup Posiciones(o, {"horasDispPer"}, x.n)

(* copiaInstanceInput copies every bitmap. *)
CopiaDeEntrada_superficial == BitmapsDeEntrada("ii") \cup Celda("copia")

CopiaDeEntrada == BitmapsDeEntrada("copia") \cup Celda("copia")

EsBitmap(d) == d[2] \notin {"objeto", "tr"}

(* The positions of a bitmap; a block that is none counts as one that has. *)
Capacidad(d) ==
  CASE d[2] \in {"pers_horasdisp", "horasUsoVeh", "horasDispPer"} -> x.h
    [] d[2] \in {"pers_afin", "visita_personas", "bm_personas"}   -> x.n
    [] d[2] = "pers_prefvisita"  -> x.l
    [] d[2] = "visita_vehiculos" -> x.m
    [] OTHER -> 1

SinPosiciones(dirs) == {d \in dirs : Capacidad(d) = 0}

(* The constructor of a bitmap reserves its array.  One without positions  *)
(* is deleted first by its own constructor, when the destructor may free   *)
(* what bitmap holds before it is set; the pointer to it stays, and the    *)
(* array, of no integers, may be given the place of the object just freed  *)
(* (enSuLugar) or a block of its own.  What a pointer that was never set   *)
(* frees is not followed: see basura.                                      *)
Reservar(dirs) ==
  \E enSuLugar \in SUBSET SinPosiciones(dirs) :
    /\ mem' = mem \cup (dirs \ SinPosiciones(dirs)) \cup enSuLugar
    /\ arreglos' = arreglos \cup ({d \in dirs : EsBitmap(d)} \ enSuLugar)
    /\ basura' \in {basura, basura \/ SinPosiciones(dirs) # {}}

(* The destructor of a bitmap frees its array only if it has positions.    *)
Devolver(dirs) ==
  /\ mem' = mem \ dirs
  /\ arreglos' = arreglos \ (dirs \ SinPosiciones(dirs))

Liberar(dirs) ==
  /\ Devolver(dirs)
  /\ doble' = (doble \/ ~(dirs \subseteq mem))

-----------------------------------------------------------------------------
(* Both programs: the instance, which the planner keeps in the heap        *)

CargarInstancia ==
  /\ pc = "inicio"
  /\ LET dirs == BitmapsDeEntrada("ii") \cup (IF programa = "solucionar" THEN Celda("ii") ELSE {})
     IN  /\ tiene' = [tiene EXCEPT !["ii"] = dirs]
         /\ Reservar(dirs)
  /\ pc' = "cargada"
  /\ UNCHANGED <<x, programa, i, punteroII, vecinos, doble>>

BorrarInstancia ==
  /\ pc = "escrita"
  /\ Liberar(tiene["ii"])
  /\ tiene' = [tiene EXCEPT !["ii"] = {}]
  /\ pc' = IF programa = "solucionar" THEN "sin_ii" ELSE "fin"
  /\ UNCHANGED <<x, programa, i, punteroII, vecinos, basura>>

-----------------------------------------------------------------------------
(* The planner                                                             *)

(* The constructor of a solution copies the instance it is given. *)
CrearSolucion ==
  /\ programa = "solucionar" /\ pc = "cargada"
  /\ LET propios == BitmapsDeSolucion("sol") \cup Celda("sol")
     IN  /\ tiene' = [tiene EXCEPT !["copia"] = CopiaDeEntrada, !["sol"] = propios]
         /\ Reservar(CopiaDeEntrada \cup propios)
  /\ punteroII' = [punteroII EXCEPT !["sol"] = "copia"]
  /\ pc' = "busqueda"
  /\ UNCHANGED <<x, programa, i, vecinos, doble>>

(* copiaInstanceSolution copies the bitmaps and sets no punteroII: it is   *)
(* whatever was there.                                                     *)
CopiaSolucion ==
  /\ pc = "busqueda" /\ i < maxIteraciones
  /\ tiene' = [tiene EXCEPT !["vecino"] = BitmapsDeSolucion("vecino")]
  /\ Reservar(BitmapsDeSolucion("vecino"))
  /\ \E p \in Residuos : punteroII' = [punteroII EXCEPT !["vecino"] = p]
  /\ i' = i + 1
  /\ pc' = "vecino"
  /\ UNCHANGED <<x, programa, vecinos, doble>>

checker_siempre == TRUE

checker == FALSE

(* A neighbour that is kept is copied with its pointers; the original is   *)
(* destroyed, and with it what its punteroII points to.                    *)
DescartaVecino ==
  /\ pc = "vecino"
  /\ vecinos' = IF checker THEN vecinos \cup tiene["vecino"] ELSE vecinos
  /\ LET p     == punteroII["vecino"]
         ajeno == IF p = Nulo THEN {} ELSE tiene[p]
     IN  /\ Devolver(ajeno \cup tiene["vecino"])
         /\ doble' = (doble \/ ~(ajeno \cup tiene["vecino"] \subseteq mem)
                            \/ (p # Nulo /\ ajeno = {}))
         /\ basura' = (basura \/ p # Nulo)
  /\ tiene' = [tiene EXCEPT !["vecino"] = {}]
  /\ pc' = "busqueda"
  /\ UNCHANGED <<x, programa, i, punteroII>>

(* SolucionPorBusquedaLocal writes nothing: its output has no trips. *)
EscribirSalida ==
  /\ pc = "busqueda"
  /\ pc' = "escrita"
  /\ UNCHANGED <<x, programa, i, mem, arreglos, tiene, punteroII, vecinos, doble, basura>>

BorrarSolucion_segunComentario ==
  /\ pc = "sin_ii"
  /\ Liberar(tiene["sol"])
  /\ tiene' = [tiene EXCEPT !["sol"] = {}, !["copia"] = {}]
  /\ pc' = "fin"
  /\ UNCHANGED <<x, programa, i, punteroII, vecinos, basura>>

(* The destructor of a solution frees the instance it points to, its copy. *)
BorrarSolucion ==
  /\ pc = "sin_ii"
  /\ Liberar(tiene[punteroII["sol"]] \cup tiene["sol"])
  /\ tiene' = [tiene EXCEPT !["sol"] = {}, ![punteroII["sol"]] = {}]
  /\ pc' = "fin"
  /\ UNCHANGED <<x, programa, i, punteroII, vecinos, basura>>

-----------------------------------------------------------------------------
(* The checker                                                             *)

(* The constructor of InstanceOutput makes a bitmap for each trip and      *)
(* hands it over to the trip.                                              *)
LeerViaje ==
  /\ programa = "verificar" /\ pc = "cargada" /\ i < x.t
  /\ LET dirs == {<<"io", "bm_personas", i>>, <<"io", "tr", i>>}
     IN  /\ tiene' = [tiene EXCEPT !["io"] = @ \cup dirs]
         /\ Reservar(dirs)
  /\ i' = i + 1
  /\ UNCHANGED <<x, programa, pc, punteroII, vecinos, doble>>

BorrarSalida ==
  /\ programa = "verificar" /\ pc = "cargada" /\ i >= x.t
  /\ Liberar(tiene["io"])
  /\ tiene' = [tiene EXCEPT !["io"] = {}]
  /\ pc' = "escrita"
  /\ UNCHANGED <<x, programa, i, punteroII, vecinos, basura>>

Next ==
  \/ CargarInstancia \/ CrearSolucion \/ CopiaSolucion \/ DescartaVecino
  \/ EscribirSalida \/ LeerViaje \/ BorrarSalida \/ BorrarInstancia \/ BorrarSolucion

Spec == Init /\ [][Next]_vars

-----------------------------------------------------------------------------
(* Properties                                                              *)

(* No bitmap lacks positions: something of everything is counted. *)
Contado == x.n > 0 /\ x.m > 0 /\ x.h > 0 /\ x.l > 0

Fases == {"inicio", "cargada", "busqueda", "vecino", "escrita", "sin_ii", "fin"}

TypeOK ==
  /\ x \in Cuentas
  /\ programa \in {"solucionar", "verificar"}
  /\ pc \in Fases
  /\ pc \in {"busqueda", "vecino", "sin_ii"} => programa = "solucionar"
  /\ i \in Nat
  /\ programa = "solucionar" => i <= maxIteraciones
  /\ programa = "verificar" => i <= x.t
  /\ tiene = [o \in Objetos |-> tiene[o]]
  /\ punteroII \in [{"sol", "vecino"} -> Residuos]
  /\ doble \in BOOLEAN /\ basura \in BOOLEAN

(* Nothing is freed twice but for one of two reasons: a count of 0 in the  *)
(* file, whose bitmaps the constructor deletes (MiniBitmap.cpp:5-7), or    *)
(* the punteroII that copiaInstanceSolution leaves unset and the           *)
(* destructor frees (SRPlanner.cpp:240-242, :310-326).                     *)
FalloConCausa == doble => basura \/ ~Contado

(* An object that is alive points to blocks in use, its bitmaps to arrays  *)
(* in use, the copy of the instance also after the original is gone        *)
(* (SRPlanner.cpp:31-39), and so do the neighbours that generarVecinos     *)
(* keeps (SRPlanner.cpp:298-300).                                          *)
PunterosVivos ==
  Contado /\ ~basura =>
    \A d \in vecinos \cup UNION {tiene[o] : o \in Objetos} :
      d \in mem /\ (EsBitmap(d) => d \in arreglos)

(* Some object points to each block in use, whenever the program stops,    *)
(* and at the end none is left; but for the arrays of bitmaps without      *)
(* positions, which their destructor skips (MiniBitmap.cpp:13, :19;        *)
(* SRPlanner.cpp:31-39, :235-255, SRP_InstanceInput.cpp:181-205,           *)
(* SRP_InstanceOutput.cpp:65-70).                                          *)
SinFugas ==
  /\ \A d \in mem \cup arreglos :
       (\E o \in Objetos : d \in tiene[o]) \/ (d \notin mem /\ Capacidad(d) = 0)
  /\ pc = "fin" => mem = {} /\ \A d \in arreglos : Capacidad(d) = 0

=============================================================================

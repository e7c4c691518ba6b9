# A verification of the SRP planner

The SRP planner (`src/SRPlanner.cpp` and the files around it) plans the visits
of a housing service: it reads an instance (people, vehicles, blocks of time,
visits), asks a min-cost-flow solver for an assignment of people to visits, and
searches, day by day, a start and a vehicle for each visit. Around it there are
a bitmap class, a generator of instances and a checker of output files. The
program is sequential: what is hard in it is not concurrency but long loops over
several indices that must stay in step, structures that must tell the same
story, caches, boundaries, and steps that fail half way.

These modules translate its code; TLC checks them on small instances and TLAPS
proves the main properties for every instance. Names are those of the source
(Spanish); line numbers refer to `src/`.

## 1. Inventory

| Component | State | Operations | Hard behaviour | Correct when |
|---|---|---|---|---|
| **MiniBitmap** (`MiniBitmap.cpp`) | words, cached counter `cant`, `cap` | `setBit`, `unsetBit`, `access`, `count`, `esSubconjunto`, `copia` | the cached counter; word, bit and mask of the loop of `count` across words; positions out of range and at `cap` | it is a set of positions and `count` answers how many lie between two |
| **InstanceInput** (`SRP_InstanceInput.cpp`) | one vector per field, maps from identifiers to positions | parser (constructor), queries by identifier, `personaPuedeVisitar`, `bloqueContiguoConSiguiente`, deep copy | files cut short, identifiers repeated or not found, a query that inserts, ownership of the copies | rows and queries answer what the file says, and damage in a line stays in its row |
| **Assignment** (`InstanceSolution::MinCostFlow`, `SRPlanner.cpp:333`) | the graph, supplies, flow, pairs read | build, solve, read back | the arcs are counted by one rule and added by another; one numbering for four kinds of nodes; no optimal flow aborts | it answers an assignment of the people each visit asks for |
| **Planner** (constructor of `InstanceSolution`, `SRPlanner.cpp:56`) | assignment, visits done, blocks in use per vehicle, free blocks per person, solution, cost, day, candidates, indices | one pass over the working days; per day collect candidates; per candidate try starts | four nested loops whose indices change inside; an index used on two vectors; reads past a vector; a candidate list stale after a failure | no vehicle, person or visit is booked twice, trips fit in a day, cost and marks match the trips |
| **Checker of the planner** (`SRPlanner.cpp:469`) | `isValid` | sorts the solution and answers | answers false always | it tells good solutions from bad ones |
| **Output and trip checkers** (`SRP_InstanceOutput.cpp`, `SRPlanner_checker.cpp`, `old/checker_output.cpp`) | vector of trips | read, sort (the older one), validate | short files, comparison of neighbours only, the first trips never compared | an OK says of the whole file what it says of neighbours |
| **Generator** (`generate_input.cpp`) | free blocks of a person, a clock, the counts of a visit | write people, vehicles, places, blocks, visits | carries of the clock, windows moved round the calendar, a loop that waits for a random draw | blocks in office hours, in order, without overlap; windows long enough; it ends |
| **Time helpers** (`SRP_Utils.cpp`) | none | `obtenerTime`, `stringTime`, `sumaMinutos` | changes of the clock | adding minutes adds minutes |
| **Life cycle** (`SRPlanner.cpp:21-47`, `217-330`, `SRPlanner_solucionar.cpp`) | owned copies of an instance and a solution | constructors, deep copies, destructors, `generarVecinos` | an unset pointer that is deleted, a constructor that deletes its object, the order of destruction | each structure is freed once, and none is used after |
| **Older tools and drivers** (`old/`, `SRPlanner_test.cpp`) | none of their own | the count of errors of the driver, superseded copies of parser and checker | | the driver notices a damaged file |
| **or-tools** (`include/`, `lib/`) | external | `StarGraph`, `MinCostFlow` | | |

How they interact, all by direct calls in one thread:

```
generate_input --file--> InstanceInput --(queries)--> MinCostFlow --pairs--> planner --> checker
                              |  uses MiniBitmap (count, access)      |  MiniBitmap (setBit,
                              +---------------------------------------+  unsetBit, count, copia)
```

The planner holds three bitmaps per kind (visits done, blocks per vehicle, blocks
per person); `personaPuedeVisitar` and the search both ask `count`. The planner
relies on the counter of `MiniBitmap` being right, on `MinCostFlow` answering as
many pairs per visit as the visit asks for, and on the sort of the assignment.

## 2. Modules

| Module | What it is | Source |
|---|---|---|
| `ConjuntoBits` | abstract: a bitmap is a set of positions | promise of `MiniBitmap` |
| `MiniBitmap` | words, counter, `count` iteration by iteration | `MiniBitmap.cpp` |
| `Instancia` | an instance as a record, and the pure queries | `SRP_InstanceInput.cpp`, `SRP_Utils.cpp`, parts of `SRPlanner.cpp` |
| `Asignacion` | abstract: what `MinCostFlow` promises | its use at `SRPlanner.cpp:61` |
| `GrafoAsignacion` | the graph arc by arc, supplies, solver, extraction | `SRPlanner.cpp:333-436` |
| `AgendaVehiculos` | abstract: reservations of vehicles | promise of the planner |
| `Planificador` | the constructor, one action per loop iteration | `SRPlanner.cpp:56-214`, `469-495` |
| `Generador` | the generator | `generate_input.cpp` |
| `Lector` | the reader of instances, its maps and the queries by identifier | `SRP_InstanceInput.cpp:7-173`, `208-376`, `SRPlanner_test.cpp` |
| `SalidaViajes` | the checker of output files and the older one | `SRP_InstanceOutput.cpp:7-105`, `SRPlanner_checker.cpp`, `old/checker_output.cpp:215-313` |
| `CicloDeVida` | what the planner and the checker reserve, copy and free | `SRPlanner.cpp:21-85`, `236-330`, `SRP_InstanceInput.cpp:181-205`, `415-468`, `MiniBitmap.cpp:4-22` |
| `MCMiniBitmap`, `MCPlanificador`, `MCGrafoAsignacion`, `MCGenerador`, `MCLector`, `MCSalidaViajes`, `MCCicloDeVida` | small instances, and what comments of the code say of it | |
| `MiniBitmap_proof`, `Instancia_proof`, `Planificador_proof`, `GrafoAsignacion_proof`, `Generador_proof`, `Lector_proof`, `CicloDeVida_proof`, `SalidaViajes_proof` | theorems and proofs | |

Composition. `MiniBitmap` implements `ConjuntoBits`, so the modules above it use
sets of positions (`Instancia!Cuenta`). `GrafoAsignacion` implements `Asignacion`,
whose answers are `Flujos` of `Instancia`; the planner's action `MinCostFlow`
takes any of them, sorted. `Planificador` implements `AgendaVehiculos`. `Lector`
delivers what `Instancia` describes: `AInstancia` turns the vectors it has read into
such a record, and `EntregaInstancia` says that it is one.

Correspondence with the code:

* **MiniBitmap.** A word is the set of its bits that are 1; OR, AND and AND NOT
  with a mask of one bit are union, intersection and difference. The early
  returns of `setBit` and `unsetBit` are stuttering steps. `count` is three
  actions: `CountTodo` (the answer from the cached counter), `CountInicio` and,
  per iteration, `CountPaso`, up to `CountFin`. `Lecturas` is what the loop may
  read: past the last word, anything. The width of a word is the constant
  `BitsInt` (32 in the code).
* **Planner.** `pc` is the loop the constructor is in. `IniciarJornada`,
  `ExtenderJornada` and `CerrarJornada` find a working day (lines 91-104);
  `Recolectar` and `FinRecolectar` gather candidates (105-117); `TomarVisita`,
  `SiguienteBloque`, `Asignar` and `DejarVisita` try one candidate (117-199).
  `Asignar` is the whole body that makes a trip: cost, cuartetas, marks of the
  vehicle, of the person and of the visit, and the jump of the loop variable.
  Vectors are sequences, so an index is one more than in the code. The reads
  past the end of `visJornada` (145-146) are undefined behaviour: such a read finds
  any answer, or ends the program (`LecturaFuera`). The read of `insIn[i]` at line
  163, with an index into the candidates, never leaves `insIn`: there are no more
  candidates than pairs (`CandidatasAcotadas`, proved).
  The variable `viajes` is a history variable: the trips made, which the code
  keeps only through its marks.
* **Graph.** One action per arc. Each unit of flow crosses three arcs of unit cost,
  so every feasible flow is optimal and `Solve` answers any. Arcs counted but
  never added read as flow 0.
* **Reader.** One action per line of the file. A line is the sequence of its fields
  and the file ends after any of them. No code looks at the state of a stream, so
  a read past the end leaves its variable as it was: `Campo` is such a read,
  `Leido` one of a variable that earlier fields of the line went through, and `aux`,
  `auxdist` and `auxtime`, declared without a value inside each loop, start with any
  (`Basura`). `getline` at the end of a file whose last line has no break leaves the
  line in place; after a break it leaves none. The queries by identifier that only
  search are operators; the two that use `operator[]`, which inserts, are actions
  (`InicioVentana`, the overload at line 353, which has no caller, and `Destino`, of
  the planner).
* **Checkers of output files.** One action per line read and per comparison; a
  missing line leaves the reader's variables as they were. `programa` says which of the
  two checkers runs: the older one sorts (`Ordenar`, any order `std::sort` may
  leave) and compares with the end of the trip before (`Limite`). `orden` is a history
  variable.
* **Life cycle.** A block of the heap is named by the object, the vector and the
  position that point to it: `mem` are those in use, `tiene` those an object points
  to. Constructors, copies and destructors are an action each; what happens between
  them is in the other modules. `doble` and `basura` are history variables.
* **Generator.** One action per object written; the marking of free blocks is
  one action per draw. `Ajustado` composes the three corrections of the clock in
  the order of the code.

## 3. What the runs check

All configurations use `CHECK_DEADLOCK FALSE` where the program really stops (the
planner, `MinCostFlow`, the generator and the checkers end); being stuck before the end
is caught by the termination properties of the first three. Bitmaps and the
queries of the reader never stop and are checked for deadlock.

The runs check the properties that relate several pieces of state. The types of a
module, the clean bits of a bitmap and the day of the planner (`DiaIdentificado`) are
proved instead (section 5), as parts of the inductive invariants; only the graph, where
the types say that every arc joins two of its nodes, and the planner, where they say
that no trip leaves the calendar, check `TypeOK` in their runs as well.

### `minibitmap`
Two bitmaps of 3 positions and words of 2 bits (the last word half used);
positions below, inside, at and above the range, in either order. These are all
the boundaries there are: inside a word, across words, at the clean bits, at
`cap` and past the array. Checked: the counter is the number of
ones (`ContadorExacto`), word, bit and mask stay in step with the position (`BucleAlineado`), `count` answers the
number of ones between its positions (`CuentaLosUnos`), every count returns
(`CountTermina`), and the words implement a set (`ConjuntoSpec`), which no bit past the
capacity enters. With a capacity
that fills its words `CuentaLosUnos` is false (run `minibitmap_fuera`); what remains
true, `ConjuntoSpec`, is proved for every capacity.

### `grafo_asignacion`
324 instances with 2 or 3 people and 2 visits: with and without people filtered
by `personaPuedeVisitar`, with and without a solution, visits that ask for
nobody, people that may do none or two visits. Arcs fit in the count made
beforehand (`ArcosCaben`), pairs read back are those with flow
(`ParesRecuperados`), it ends (`Termina`), and it implements `Asignacion`.

### `planificador`
768 instances of two people, two vehicles, five blocks and two visits, over one
or two days, and every assignment. The instances are chosen so that a visit
fails on one day and is tried again, a vehicle is not allowed or is busy, a
visit asks for two people of whom one is not free (so reads past the candidates happen),
the journey takes a block or none, and a window opens late.
One day with room for one trip and another with the rest, two vehicles and two
visits are enough for every branch to be taken, which coverage confirms.

* `VehiculoExclusivo`, `UsoMarcado`: no vehicle twice in one block, and its marks
  are its trips'.
* `VisitaUnaVez`: a visit has one trip, whatever entries of it are left among the
  candidates.
* `ViajeEnJornada`: a trip lasts what it needs within one gapless day.
* `CuartetasCompletas`, `DisponibilidadCoherente`, `CostoExacto`: solution, free
  blocks and cost tell the story of the trips.
* `CandidatasCompletas`: no candidate is missed although the collection stops
  early.
* `LecturaFueraSoloTrasFallo`: the read past the candidates happens only
  after an entry of the same visit failed.
* `PersonaAsignadaEnPrimeraJornada`: on the first day the person booked is one the
  assignment sends.
* `Terminacion`: the four loops end. `AgendaSpec`: it implements the agenda.

### `generador`
16 blocks of 36 minutes pass through lunch with a second carry and into a second
day, and are few enough for a window to be kept, moved round the calendar, or
replaced by the whole calendar. Checked: `DisponibilidadPedida`, `HorasDeOficina`,
`BloquesSinSolape`, `VentanaUtil`, `Termina`.
With more than 120 minutes per block `cantbloques2horas` is 0 and the loop of free
blocks never ends: `Termina` holds for blocks of up to 120 minutes only, and the
run uses such a length.

### `lector`
Twelve whole files of two people, a vehicle, two places, two blocks and two visits,
with identifiers repeated or not and with a visit whose block, or place, is in no
line; each is cut after any line, with or without a break, and with any line cut
after any of its fields. Two rows per section are enough for one to be damaged
while its neighbour is whole, and for one identifier to hide another. The first
line is whole, a cut falls between fields, and distances are integers.

* `MapasAlDia`: each map leads every identifier to the last row that bears it and any
  other identifier to position 0, whatever was inserted by queries.
* `DanoContenido`: a row whose line was written whole is the row of that line,
  whatever came before: nothing is carried from one line to the next.
* `CortadaNoPide`: a visit whose line lacks its end asks for nobody, and so is not
  planned; only a file that ends without a break repeats the last visit.
* `PruebaDetecta`: what the driver of `SRPlanner_test.cpp` finds: no errors means that
  no section lacks two lines. One missing line it may not notice.
* `EntregaInstancia`: a whole file gives an `EsInstancia`, and the window by position
  is the one the queries by identifier answer, if no later visit bears the same
  identifier.
* `ConsultasEstables`: no query changes the answer of another, but for a block in no
  line, which a query may put in the map.

### `salida_viajes`
All files of up to three trips, and those of four that begin with a given one, read
as announcing up to four (`MaxViajes`), with all their lines or fewer and with or
without a last break; two vehicles, times two hours apart, journeys of no time or
of an hour and a half. Four trips are the fewest with two comparisons, the first
two trips being compared with nothing. `strptime` leaves `tm_isdst` without a value and
`mktime` reads it, so each time may be read an hour early (`SRP_Utils.cpp:8`).

* `OKSinRetrocesos`: an OK of the checker means no more than that no vehicle goes back
  in time, but for that hour and the first line, along consecutive lines. Trips that
  overlap without going back are not what it looks at.
* `OKSinSolapes`: no overlap counted by the older checker means that no two trips of
  one vehicle, wherever in the file, share more than that hour, except with the
  trip that sorts first.
* `ErrorConMotivo`: an error is reported only for two neighbours of one vehicle that
  are less than an hour from being wrong, a missing line standing for the last one.

`sortByIdVehiculoFecha` (`SRP_InstanceOutput.cpp:79`), which the current checker does not
call, sorts as the older one does; after it the comparison of starts at line 97
could never fail.

### `ciclo_de_vida`
All counts of up to two visits and up to one person, vehicle and block, zeros
included, files of two trips, and the ten neighbours of `generarVecinos`, which has no
caller and is here as something the program may do. A second person, vehicle or
block would add blocks of a kind that two visits already repeat. A bitmap is an object
and its array of bits, reserved and freed by its constructor and destructor. One without
positions is deleted by its own constructor, which then goes on (`MiniBitmap.cpp:5-13`):
its array may be given the place of the object just freed, or a block of its own, and
the destructor, run before its fields are set, may free whatever they hold.

* `FalloConCausa`: a block is freed twice only for one of two reasons: a count of 0,
  whose bitmaps their own constructor deletes (`MiniBitmap.cpp:5`), or the pointer that
  `copiaInstanceSolution` leaves unset and the destructor frees (`SRPlanner.cpp:241`).
* `PunterosVivos`: otherwise every pointer of a live object is to a block in use. It
  holds of the neighbours because `checker` answers false: one it accepted would be
  kept as a copy of pointers (`SRPlanner.cpp:305`).
* `SinFugas`: whenever the program stops some object points to each block in use, and
  at the end none is left, with one exception: the array of a bitmap without positions,
  which its destructor skips because `cap` is 0 (`MiniBitmap.cpp:19`). That is a leak of
  the code, of an array of no integers for each bitmap a count of 0 in the file
  leaves empty; with something of everything there is none. The comment at
  `SRPlanner.cpp:239` says that the solution does not free its instance, "que es de
  solver"; the code frees it, rightly, since line 57 made a copy of its own.

### Where the code disagrees with what it says

| Run | Property | What it shows |
|---|---|---|
| `minibitmap_fuera` | `CuentaLosUnos` | `count(a, cap)` of a bitmap that fills its words reads the word after the last (`MiniBitmap.cpp:119`) |
| `planificador_actividad` | `UnaActividadPorBloque` | a person is booked several times in one block (`SRPlanner.cpp:163`) |
| `planificador_horario` | `HorarioDeclarado` | bookings leave out `deltaBloques` (`SRPlanner.cpp:164`); for the same reason two trips of one vehicle in a day are written in the same blocks |
| `planificador_personas` | `PersonasDeLaVisitaPueden` | after a failure the people looked at are another visit's (`SRPlanner.cpp:146`) |
| `generador_solape` | `BloquesSinSolape` | blocks longer than an hour overlap (`generate_input.cpp:167`) |

More are plain from the code and need no run: `esSubconjunto` is true of any two
bitmaps of one capacity (`MiniBitmap.cpp:101`: `!=` binds tighter than `&`; only a test
calls it), the placement never looks at the window of a visit (`SRPlanner.cpp:138`), the
checker answers false for every solution (`SRPlanner.cpp:494`), the draws of
`generate_input.cpp:231` repeat, so a visit may be given fewer than the three people its
comment promises, the people asked for are capped by the number of vehicles
(`generate_input.cpp:272`), the calendar never leaves its month (`generate_input.cpp:182`),
and the format of a visit's line in the comment at `SRP_InstanceInput.cpp:142` lacks the
place and the number of people.

## 4. Fairness

* `MiniBitmap`: weak fairness of `CountPaso` and `CountFin`. A call runs to its
  return; nothing makes callers call.
* `Planificador`, `GrafoAsignacion`: weak fairness of `Next`. One thread runs the
  constructor (the function) and it has nothing to wait for.
* `Lector`, `SalidaViajes`, `CicloDeVida`: none; all their properties are of safety, their loops go
  once through a count read from a file.
* `Generador`: the same as the planner, and weak fairness of `MarcarBloques(b)` for each block: as
  long as the loop asks for more, `rand() % h` draws each block sooner or later. This
  is an assumption about `rand()`, and only `Termina` uses it.

## 5. What is proved

TLAPS proves the following for every value of the constants (every width of word,
capacity, set of instances, number of blocks...).

**MiniBitmap_proof.** `IInv == TypeOK /\ ContadorExacto /\ RellenoLimpio /\
BucleAlineado` is inductive (`Invariante`). The counter needs no help beyond the
types; that the loop has counted the ones it passed (`Pasados`) needs the clean
bits, because the clamp lets the loop read the position `cap`. From it:
`TiposDelBitmap`, `ContadorFiel`, `RellenoSiempreLimpio`, `BucleSiempreAlineado`; `CuentaExacta`
(`[]`-action property `CuentaLosUnos`, assuming no capacity is a multiple of the word);
and `ImplementaConjunto`, the refinement, for every capacity.

**Planificador_proof.** `IInv` adds to the types the day (`DiaIdentificado`), bounds of
the candidates (`CandidatasAcotadas`) and the marks. That no trip leaves the
calendar (`TypeOK`: `Tipos`) is the point: the guard (line 138) compares times, the
marks are written by position, and it is the gapless day that turns one into the
other (lemma `CabeEnElDia`). Exclusive vehicles then follow from the marks
(`VehiculoLibre`). Theorems: `Invariante`, `Tipos`, `VehiculosExclusivos`,
`MarcasFieles`, `VisitasUnaSolaVez`, `DiaSiempreIdentificado`, `ViajesEnSuJornada`, `DisponibilidadFiel`,
`ImplementaAgenda`.

*The candidates* (same module). Two facts carry them. The assignment is sorted by the
time its visits open, then by visit, so the entries of one visit stand together; and
`Flujos` gives each visit exactly the people it asks for. `Recoleccion`: the candidates
are the pairs passed over so far whose visit is not assigned, hence
`CandidatasSiempreCompletas`. `GenteCompleta`: a visit has all its entries among the
candidates or none, so its first entry finds all its people behind it, hence
`LecturaFueraSoloSiFallo`. On the first day the candidates are a prefix of the
assignment (`MismasEntradas`), and other days begin after a gap (`PrincipioDeDia`), hence
`PersonaBienEnPrimeraJornada`.

*The accounts* (same module). `Contabilidad` (`CuentasAlDia`) joins cost, solution and
trips, and only `Asignar` disturbs it: what it adds to the bag is counted by visit and by
vehicle (`CuentaAnotadas`), the sum of two bags is the sum of their sums (`SumaEnBolsas`),
and the trip is a new one, because a visit has at most one (`SumaDeViajes`). Hence
`CostoDeLosViajes` and `CuartetasDeCadaVisita`.

**Instancia_proof.** The lemmas on sums and counts that planner and graph share. A sum
(`Suma`) is a fold of the community modules: a function of the finite subsets of a set,
defined by `CHOOSE`. The induction theorems of the library take an operator, which no
prover here instantiates; `InduccionFinita` takes a *set* of sets instead: of the sets
outside it there is a smallest one (`Minimo`, by well-foundedness), which is empty or
the union of a set inside and one more element. From it: that the fold exists and is one
(`SumaMas`), and the sums of unions, of constants, of images and of sums; `Maximo` is the
same for the greatest of a set.

**GrafoAsignacion_proof.** `ParesSiempreRecuperados`: whatever flow the solver answers and
however many arcs were counted. It needs no bound on the arcs: those of people are
told from the rest by their tail, and no two arcs are of one pair. The rest needs the graph
exactly. `GInv` (`GrafoInvariante`): its arcs are those of the people, pairs and visits
passed (`Puestos`), each once (`SinHuecos`); the count made beforehand is the sum of the people of
each visit (`Contado`); what is offered at the source is what the visits of closed arcs ask for.
As the pairs with an arc are among the people of the visits, the arcs fit
(`NingunArcoSePierde`), and with them all in place (`Completo`) the answers of the
solver are the assignments: `ElFlujoAsigna` reads, from a feasible flow and the balance
of each node, how many people reach each visit and how many visits each person makes,
and `LaAsignacionFluye` builds a feasible flow from an assignment, so that the program
aborts only when there is none. With them `ImplementaAsignacion`, the refinement of
`Asignacion`, and `GrafoBienTipado`.

**Generador_proof.** The invariant says where the clock stands after each block
(`RelojTrasElUltimo`); `AjustadoDeOficina` says what the three corrections leave of
any time, lemma by lemma in their order. Theorems: `Invariante`,
`SiempreEnHorasDeOficina` (for blocks of up to 180 minutes), `SinSolape` (for up to 60,
the bound that run `generador_solape` shows necessary), `VentanasUtiles`,
`TiposDelGenerador`, and `SiempreDisponibilidadPedida`, from what each draw may mark beyond
those asked for (`MarcadosDeMas`).

**Lector_proof.** The rows read so far determine the line that is read next, and each
row is a function of its line: `TiposDelLector`, `MapasSiempreAlDia`, `DanoSiempreContenido`,
`CortadaNuncaPide`, `ConsultasSiempreEstables`. The last is an action property: an
insertion adds an identifier at position 0 and moves none. `CortadaNuncaPide` follows
the line in hand past the end of the file: it is the last one, or nothing.
`LaPruebaDetecta` rests on what such lines leave in the rows: no identifier, or the one of
the row before (`Huecos`, which needs `Marcas`: the last row of a section and the line in
hand bear the same identifier), so that two rows share it and the map leads one of
them elsewhere. `SiempreEntregaInstancia` reads each field of the instance from a whole
line; it is the only one that needs the numbers of a file to be numbers.

**CicloDeVida_proof.** The invariant (`Duenos`, `Sano`) says which blocks each object may
point to in each phase, that no block is in use to which none points but for
arrays of bitmaps without positions, and, as long as nothing was counted as 0 and no
unset pointer was freed, that those pointed to are all in use, arrays included.
Theorems: `TiposDelCiclo`, `FalloSiempreConCausa`, `PunterosSiempreVivos`,
`SoloSeFuganArreglosVacios`, for every count and length of the search.

**SalidaViajes_proof.** `IInv` says of each trip from which line it was read
(`orden`), of the sorted ones that they are in order, and of the comparisons made so far
that none failed while `solapes` is 0. `OKEsSinRetrocesos` and `OKEsSinSolapes` then
go from neighbours to any two trips along the trips in between. Also
`TiposDeLaSalida`, `Invariante`, `ErrorSiempreConMotivo`.

Assumptions on the constants: `BitsIntAssumption`, `CapAssumption`,
`PosicionesAssumption`, `InstanciasAssumption` (the fields have their types, there is
something to plan, blocks last some minutes, visits take some blocks: nothing is
asked of timestamps or windows), `ArgumentosAssumption` (the
arguments with which the generator does not divide by zero), in `Lector`
`CuentasAssumption` (something of everything), `TextosAssumption` (a variable nothing was
read into holds something), `ArchivosAssumption` (whole files have the fields the first
line counts; what is cut is their copy on disk) and, for `SiempreEntregaInstancia` only,
`ContenidoAssumption` (amounts, blocks a visit takes and times are those
`generate_input.cpp` writes), in `SalidaViajes` `HorasAssumption`, `SinTextoAssumption`,
`AlfabetoAssumption` (strings have an order), `MinutosAssumption`, `MaxViajesAssumption` and
`ArchivosAssumption`, and in `CicloDeVida` `CuentasAssumption` and `IteracionesAssumption`
(natural numbers, zeros included). TLC evaluates each.

**Only model-checked:** the liveness properties `CountTermina`, `Terminacion` and the
`Termina` of the graph and of the generator: fairness and ENABLED are out of the
prover's reach. Of `Terminacion` and of the graph's `Termina` the half that is safety is
proved (`SiempreAvanza`, in each module): every step lowers, in lexicographic order, natural
numbers that say what is left to do, so that no run goes round for ever; that none is
stuck before the end is TLC's. Of the generator there is no such measure: a draw may
repeat. Every safety property a passing run checks, action properties and
refinements included, is also proved, under the assumptions named above.

## 6. Not modelled

* The solver (or-tools) is external: it answers some optimal flow or says there is
  none. The vendored headers and libraries under `include/` and `lib/` are third-party
  code and nearly all the lines of the repository.
* `sumaMinutos` is addition: true when no change of the clock falls in between.
  The times of the blocks are arbitrary, so the hour that `obtenerTime` may be off
  is among the instances.
* Integers are unbounded: no count of the program comes near their width.
* The cost and the distances are floats in the code (`SRPlanner.hpp:44`, accumulated at
  `SRPlanner.cpp:158`) and natural numbers here: their rounding is dropped.
* What a pointer that was never set frees when a bitmap without positions deletes itself
  (`MiniBitmap.cpp:6`): `basura` says that it may have, the block it may have been is not
  followed. A freed place is given again only to the array of that bitmap. `delete` where
  `delete[]` is due (`MiniBitmap.cpp:20`) is taken as freeing the array.
* The queries of a time or a distance between two places by their identifiers
  (`SRP_InstanceInput.cpp:262-297`): the planner reads the matrix itself.
* A cut in the middle of a field of an instance, or in its first line; numbers where
  the code expects a number are numbers.
* The local search (`SolucionPorBusquedaLocal` is empty) and `generarFichero`, which
  prints a message; `evaluator`, which answers a constant.
* `old/load_input.cpp`, an earlier copy of the reader, the tests of the bitmap and
  `old/SRPlanner_mincostf.cpp`, which print.
* The generator's draws that are only written (affinities, costs, distances).
* `esSubconjunto`, whose answer is a constant for two bitmaps of one capacity.

## 7. Plan

Done: bitmap and its set; planner and agenda; graph and assignment; generator; reader;
both checkers of output files; life cycle; the theorems above. What is left has no
code of its own yet:

1. When the local search is written, its moves as actions of a module beside
   `Planificador`, and `CicloDeVida` without its assumption that `checker` refuses all.
2. When `generarFichero` is written, that what it writes of a solution is what
   `SalidaViajes` accepts.

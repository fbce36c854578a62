----------------------- MODULE SchemaMigrationProofs ------------------------
(* SchemaMigration's types and SchemaRepaired, for any number of processes and *)
(* of faults.                                                                  *)
EXTENDS SchemaMigration, TLAPS

Item == Table \cup Column

(* What a start-up still has to do covers what is missing.                     *)
Stages ==
    \A p \in Process :
        /\ pc[p] \in {"create", "index"} =>
             todo[p] \subseteq Table /\ Table \ tables \subseteq todo[p]
        /\ pc[p] = "index" => todo[p] # {} /\ NextOf(p) \in tables
        /\ pc[p] = "migrate" =>
             todo[p] \subseteq Column /\ Column \ columns \subseteq todo[p]
        /\ pc[p] \in {"migrate", "serving"} => tables = Table

(* A table without its index has somebody who is about to make the index, or   *)
(* was cut off before.                                                         *)
IndexPending ==
    cut \/ \A t \in tables \ indexed :
             \E p \in Process : pc[p] = "index" /\ NextOf(p) = t

(* Whoever adds columns adds the first of those missing: what others have      *)
(* added since a process looked comes before all that is still missing.        *)
Stale(p) == todo[p] \cap columns
InOrder ==
    \A p \in Process : pc[p] = "migrate" =>
        \A y \in Stale(p), z \in todo[p] \ columns : Order[y] < Order[z]

(* A process that will not meet a column of somebody else.                     *)
Leader(p) == pc[p] = "migrate" /\ Stale(p) = {}

(* Without a fault, nobody gives up columns that no leader is left to add.     *)
Led ==
    \A p \in Process :
        clean[p] /\ (pc[p] = "serving" \/ (pc[p] = "migrate" /\ Stale(p) # {}))
        => columns = Column \/ \E q \in Process : Leader(q)

IInv == TypeOK /\ Stages /\ IndexPending /\ InOrder /\ Led

-----------------------------------------------------------------------------
LEMMA OrderType ==
    /\ \A x \in Item : Order[x] \in Nat
    /\ \A x, y \in Item : Order[x] = Order[y] => x = y
BY DEF Item, Table, Column, Order

(* First returns the least element.                                            *)
LEMMA FirstIsLeast ==
    ASSUME NEW S \in SUBSET Item, S # {}
    PROVE  /\ First(S) \in S
           /\ \A y \in S : Order[First(S)] <= Order[y]
<1>1. \E x \in S : \A y \in S : Order[x] <= Order[y]
  <2>1. CASE "users" \in S
    BY <2>1 DEF Item, Table, Column, Order
  <2>2. CASE "users" \notin S /\ "credentials" \in S
    BY <2>2 DEF Item, Table, Column, Order
  <2>3. CASE S \cap Table = {} /\ "nickname" \in S
    BY <2>3 DEF Item, Table, Column, Order
  <2>4. CASE S \cap Table = {} /\ "nickname" \notin S /\ "transports" \in S
    BY <2>4 DEF Item, Table, Column, Order
  <2>5. CASE S \cap Table = {} /\ "nickname" \notin S /\ "transports" \notin S
    <3>1. S = {"aaguid"}
      BY <2>5 DEF Item, Table, Column
    <3> QED
      BY <3>1 DEF Order
  <2> QED
    BY <2>1, <2>2, <2>3, <2>4, <2>5 DEF Table
<1> QED
  BY <1>1 DEF First

-----------------------------------------------------------------------------
LEMMA InitHolds ==
    ASSUME Init PROVE IInv
<1>1. TypeOK
  <2>1. faults \in 0 .. MaxFaults
    BY MigrationAssumption DEF Init
  <2>2. tables \in SUBSET Table /\ indexed \in SUBSET tables /\ columns \in SUBSET Column
    BY DEF Init
  <2> QED
    BY <2>1, <2>2 DEF Init, TypeOK
<1> QED
  BY <1>1 DEF Init, IInv, Stages, IndexPending, InOrder, Led

LEMMA InspectKeeps ==
    ASSUME IInv, NEW p \in Process, Inspect(p)
    PROVE  IInv'
<1> USE DEF IInv, Inspect, Goto, schemaVars
<1>1. TypeOK'
  BY DEF TypeOK
<1>2. Stages'
  BY DEF TypeOK, Stages, NextOf
<1>3. IndexPending'
  BY DEF TypeOK, IndexPending, NextOf
<1>4. InOrder'
  BY DEF TypeOK, InOrder, Stale
<1>5. Led'
  BY DEF TypeOK, Led, Leader, Stale
<1> QED
  BY <1>1, <1>2, <1>3, <1>4, <1>5

LEMMA CreateTableKeeps ==
    ASSUME IInv, NEW p \in Process, CreateTable(p)
    PROVE  IInv'
<1> DEFINE x == NextOf(p)
<1> USE DEF IInv, CreateTable, Goto
<1>0. x \in todo[p] /\ todo[p] \subseteq Table
  BY FirstIsLeast DEF TypeOK, Stages, NextOf, Item
<1>1. TypeOK'
  BY <1>0 DEF TypeOK
<1>2. tables \subseteq tables' /\ tables' \subseteq Table
  BY <1>0 DEF TypeOK
<1>3. Stages'
  BY <1>0, <1>2 DEF TypeOK, Stages, NextOf
<1>4. IndexPending'
  BY <1>0 DEF TypeOK, IndexPending, NextOf
<1>5. \A q \in Process : pc[q] \in {"migrate", "serving"} => columns' = columns
  BY <1>0 DEF TypeOK, Stages
<1>6. InOrder'
  BY <1>5 DEF TypeOK, InOrder, Stale
<1>7. Led'
  BY <1>5 DEF TypeOK, Led, Leader, Stale
<1> QED
  BY <1>1, <1>3, <1>4, <1>6, <1>7

LEMMA TableExistsKeeps ==
    ASSUME IInv, NEW p \in Process, TableExists(p)
    PROVE  IInv'
<1> USE DEF IInv, TableExists, Goto, schemaVars
<1>1. TypeOK'
  BY DEF TypeOK
<1>2. Stages'
  BY DEF TypeOK, Stages, NextOf
<1>3. IndexPending'
  BY DEF TypeOK, IndexPending, NextOf
<1>4. InOrder'
  BY DEF TypeOK, InOrder, Stale
<1>5. Led'
  BY DEF TypeOK, Led, Leader, Stale
<1> QED
  BY <1>1, <1>2, <1>3, <1>4, <1>5

LEMMA CreateIndexKeeps ==
    ASSUME IInv, NEW p \in Process, CreateIndex(p)
    PROVE  IInv'
<1> USE DEF IInv, CreateIndex, Goto, Done
<1>1. TypeOK'
  BY DEF TypeOK, Stages
<1>2. Stages'
  BY DEF TypeOK, Stages, NextOf
<1>3. IndexPending'
  BY DEF TypeOK, IndexPending, NextOf
<1>4. InOrder'
  BY DEF TypeOK, InOrder, Stale
<1>5. Led'
  BY DEF TypeOK, Led, Leader, Stale
<1> QED
  BY <1>1, <1>2, <1>3, <1>4, <1>5

LEMMA TableInfoKeeps ==
    ASSUME IInv, NEW p \in Process, TableInfo(p)
    PROVE  IInv'
<1> USE DEF IInv, TableInfo, Goto, schemaVars
<1>1. TypeOK'
  BY DEF TypeOK
<1>2. Stages'
  BY DEF TypeOK, Stages, NextOf
<1>3. IndexPending'
  BY DEF TypeOK, IndexPending, NextOf
<1>4. InOrder'
  BY DEF TypeOK, InOrder, Stale
<1>5. Led'
  BY DEF TypeOK, Led, Leader, Stale
<1> QED
  BY <1>1, <1>2, <1>3, <1>4, <1>5

(* The column added is the first of all that are missing, and whoever adds one *)
(* has met nobody else's column: it leads.                                     *)
LEMMA AddColumnKeeps ==
    ASSUME IInv, NEW p \in Process, AddColumn(p)
    PROVE  IInv'
<1> DEFINE x == NextOf(p)
<1> USE DEF IInv, AddColumn, Done
<1>1. /\ x \in todo[p] /\ x \in Column /\ x \notin columns
      /\ \A y \in todo[p] : Order[x] <= Order[y]
  BY FirstIsLeast DEF TypeOK, Stages, NextOf, Item
<1>2. TypeOK'
  BY <1>1 DEF TypeOK
<1>3. Stages'
  BY <1>1 DEF TypeOK, Stages, NextOf
<1>4. IndexPending'
  BY DEF TypeOK, Stages, IndexPending, NextOf
<1>5. \A z \in Column \ columns : Order[x] <= Order[z]
  BY <1>1 DEF Stages
<1>6. InOrder'
  <2> SUFFICES ASSUME NEW q \in Process, pc'[q] = "migrate",
                      NEW y \in todo'[q] \cap columns', NEW z \in todo'[q] \ columns'
               PROVE  Order[y] < Order[z]
    BY DEF InOrder, Stale
  <2>1. y \in todo[q] /\ z \in todo[q] \ columns /\ z # x /\ todo[q] \subseteq Column
    BY DEF TypeOK, Stages
  <2>2. CASE y = x
    BY <2>1, <2>2, <1>1, <1>5, OrderType DEF Item
  <2>3. CASE y # x
    BY <2>1, <2>3 DEF InOrder, Stale
  <2> QED
    BY <2>2, <2>3
<1>7. Stale(p) = {}
  <2> SUFFICES ASSUME NEW y \in Stale(p) PROVE FALSE
    OBVIOUS
  <2>1. Order[y] < Order[x]
    BY <1>1 DEF InOrder, Stale
  <2>2. y \in todo[p] /\ y \in Item
    BY DEF Stale, TypeOK, Item
  <2> QED
    BY <2>1, <2>2, <1>1, OrderType DEF Item
<1>8. Leader(p)'
  BY <1>1, <1>7 DEF TypeOK, Leader, Stale
<1>9. Led'
  BY <1>8 DEF Led
<1> QED
  BY <1>2, <1>3, <1>4, <1>6, <1>9

(* Who gives up has met somebody else's column, and leaves it to the leader.   *)
LEMMA ColumnExistsKeeps ==
    ASSUME IInv, NEW p \in Process, ColumnExists(p)
    PROVE  IInv'
<1> USE DEF IInv, ColumnExists, Goto, schemaVars
<1>0. Stale(p) # {}
  BY FirstIsLeast DEF TypeOK, NextOf, Item, Stale
<1>1. TypeOK'
  BY DEF TypeOK
<1>2. Stages'
  BY DEF TypeOK, Stages, NextOf
<1>3. IndexPending'
  BY DEF TypeOK, IndexPending, NextOf
<1>4. InOrder'
  BY DEF TypeOK, InOrder, Stale
<1>5. Led'
  BY <1>0 DEF TypeOK, Led, Leader, Stale
<1> QED
  BY <1>1, <1>2, <1>3, <1>4, <1>5

LEMMA ServeKeeps ==
    ASSUME IInv, NEW p \in Process, Serve(p)
    PROVE  IInv'
<1> USE DEF IInv, Serve, Goto, schemaVars
<1>1. TypeOK'
  BY DEF TypeOK
<1>2. Stages'
  BY DEF TypeOK, Stages, NextOf
<1>3. IndexPending'
  BY DEF TypeOK, IndexPending, NextOf
<1>4. InOrder'
  BY DEF TypeOK, InOrder, Stale
<1>5. Led'
  BY DEF TypeOK, Stages, Led
<1> QED
  BY <1>1, <1>2, <1>3, <1>4, <1>5

LEMMA FaultKeeps ==
    ASSUME IInv, NEW p \in Process, Locked(p) \/ Crash(p)
    PROVE  IInv'
<1>0. \/ Fault(p, "down")
      \/ pc[p] = "migrate" /\ Fault(p, "serving")
      \/ pc[p] = "create" /\ todo[p] = {} /\ Fault(p, "serving")
  BY DEF Locked, Crash
<1> USE <1>0 DEF IInv, Fault, Goto, schemaVars
<1>1. TypeOK'
  <2>1. faults' \in 0 .. MaxFaults
    BY MigrationAssumption DEF TypeOK
  <2>2. cut' \in BOOLEAN
    BY Zenon DEF TypeOK
  <2> QED
    BY <2>1, <2>2 DEF TypeOK
<1>2. Stages'
  BY DEF TypeOK, Stages, NextOf
<1>3. IndexPending'
  BY DEF TypeOK, IndexPending, NextOf
<1>4. InOrder'
  BY DEF TypeOK, InOrder, Stale
<1>5. Led'
  BY DEF TypeOK, Led
<1> QED
  BY <1>1, <1>2, <1>3, <1>4, <1>5

LEMMA StartAgainKeeps ==
    ASSUME IInv, NEW p \in Process, StartAgain(p)
    PROVE  IInv'
<1> USE DEF IInv, StartAgain, Goto, schemaVars
<1>1. TypeOK'
  BY DEF TypeOK
<1>2. Stages'
  BY DEF TypeOK, Stages, NextOf
<1>3. IndexPending'
  BY DEF TypeOK, IndexPending, NextOf
<1>4. InOrder'
  BY DEF TypeOK, InOrder, Stale
<1>5. Led'
  BY DEF TypeOK, Led, Leader, Stale
<1> QED
  BY <1>1, <1>2, <1>3, <1>4, <1>5

LEMMA StutterKeeps ==
    ASSUME IInv, UNCHANGED vars
    PROVE  IInv'
BY DEF IInv, vars, schemaVars, TypeOK, Stages, IndexPending, NextOf, InOrder, Stale,
       Led, Leader

(* The invariant holds of every process, at every stage of every start-up.     *)
THEOREM Inductive == Spec => []IInv
<1>1. Init => IInv
  BY InitHolds
<1>2. IInv /\ [Next]_vars => IInv'
  <2> SUFFICES ASSUME IInv, [Next]_vars PROVE IInv'
    OBVIOUS
  <2>1. ASSUME NEW p \in Process, Step(p) PROVE IInv'
    BY <2>1, InspectKeeps, CreateTableKeeps, TableExistsKeeps, CreateIndexKeeps,
       TableInfoKeeps, AddColumnKeeps, ColumnExistsKeeps, ServeKeeps, StartAgainKeeps
    DEF Step
  <2>2. ASSUME NEW p \in Process, Locked(p) \/ Crash(p) PROVE IInv'
    BY <2>2, FaultKeeps
  <2> QED
    BY <2>1, <2>2, StutterKeeps DEF Next
<1> QED
  BY <1>1, <1>2, PTL DEF Spec

-----------------------------------------------------------------------------
(* The schema's and the processes' variables keep their types, an index is     *)
(* never there without its table, and who makes one has a table to make it of. *)
THEOREM TypeCorrect == Spec => []TypeOK
<1>1. IInv => TypeOK
  BY DEF IInv
<1> QED
  BY <1>1, Inductive, PTL

(* init_db repairs in one start-up without a fault whatever earlier ones left, *)
(* whoever else starts at the same time, but for an index that was cut off.    *)
THEOREM SchemaRepairedHolds == Spec => []SchemaRepaired
<1>1. IInv => SchemaRepaired
  <2> SUFFICES ASSUME IInv,
                      NEW p \in Process, pc[p] = "serving", clean[p],
                      \A q \in Process : pc[q] \in {"serving", "down"}
               PROVE  tables = Table /\ columns = Column /\ (cut \/ indexed = Table)
    BY DEF SchemaRepaired
  <2>1. tables = Table
    BY DEF IInv, Stages
  <2>2. columns = Column
    BY DEF IInv, Led, Leader
  <2>3. cut \/ indexed = Table
    BY <2>1 DEF IInv, TypeOK, IndexPending
  <2> QED
    BY <2>1, <2>2, <2>3
<1> QED
  BY <1>1, Inductive, PTL
=============================================================================

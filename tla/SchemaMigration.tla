-------------------------- MODULE SchemaMigration ---------------------------
(* init_db of gateway/storage/database.py, run by every gateway process that   *)
(* starts, here on one SQLite file: create_all, then the columns that older    *)
(* releases lack.  SQLite commits each of these statements by itself, whatever *)
(* engine.begin() promises, so that processes meet half-made schemas of others *)
(* and of their own earlier lives.                                             *)
EXTENDS Naturals

CONSTANTS
    Process,
    MaxFaults       \* bound of the crashes and lock timeouts

ASSUME MigrationAssumption == MaxFaults \in Nat

Table == {"users", "credentials"}
Column == {"nickname", "transports", "aaguid"}  \* of credentials, added later

VARIABLES
    tables, indexed, columns,   \* what the file holds
    pc,
    todo,       \* per process: what its last look at the schema found missing
    clean,      \* per process: nothing has failed anywhere since it started
    cut,        \* some process ended between a table and the table's index
    faults

schemaVars == <<tables, indexed, columns>>
vars == <<schemaVars, pc, todo, clean, cut, faults>>

TypeOK ==
    /\ tables \in SUBSET Table
    /\ indexed \in SUBSET tables
    /\ columns \in SUBSET Column
    /\ pc \in [Process -> {"down", "start", "create", "index", "migrate", "serving"}]
    /\ todo \in [Process -> SUBSET (Table \cup Column)]
    /\ \A p \in Process : pc[p] = "index" => todo[p] \cap tables # {}
    /\ clean \in [Process -> BOOLEAN]
    /\ cut \in BOOLEAN
    /\ faults \in 0 .. MaxFaults

(* No file yet, or that of an older release.                                   *)
Init ==
    /\ \/ tables = {} /\ columns = {}
       \/ tables = Table /\ columns \in SUBSET Column
    /\ indexed = tables
    /\ pc = [p \in Process |-> "start"]
    /\ todo = [p \in Process |-> {}]
    /\ clean = [p \in Process |-> TRUE]
    /\ cut = FALSE
    /\ faults = 0

Order == [users |-> 1, credentials |-> 2, nickname |-> 3, transports |-> 4, aaguid |-> 5]
First(S) == CHOOSE x \in S : \A y \in S : Order[x] <= Order[y]
NextOf(p) == First(todo[p])

Goto(p, stage) == pc' = [pc EXCEPT ![p] = stage]
Done(p, x) == todo' = [todo EXCEPT ![p] = @ \ {x}]

-----------------------------------------------------------------------------
MutInspect(p) == \* checkfirst=False
    /\ pc[p] = "start"
    /\ Goto(p, "create")
    /\ todo' = [todo EXCEPT ![p] = Table]
    /\ UNCHANGED <<schemaVars, clean, cut, faults>>

(* create_all asks for the tables, all of them before it makes the first.      *)
Inspect(p) ==
    /\ pc[p] = "start"
    /\ Goto(p, "create")
    /\ todo' = [todo EXCEPT ![p] = Table \ tables]
    /\ UNCHANGED <<schemaVars, clean, cut, faults>>

MutCreateTable(p) == \* the index is not waited for
    /\ pc[p] = "create"
    /\ todo[p] # {}
    /\ NextOf(p) \notin tables
    /\ tables' = tables \cup {NextOf(p)}
    /\ columns' = IF NextOf(p) = "credentials" THEN Column ELSE columns
    /\ Goto(p, "index")
    /\ Done(p, NextOf(p))
    /\ UNCHANGED <<indexed, clean, cut, faults>>

CreateTable(p) ==
    /\ pc[p] = "create"
    /\ todo[p] # {}
    /\ NextOf(p) \notin tables
    /\ tables' = tables \cup {NextOf(p)}
    /\ columns' = IF NextOf(p) = "credentials" THEN Column ELSE columns
    /\ Goto(p, "index")
    /\ UNCHANGED <<indexed, todo, clean, cut, faults>>

(* Another process was faster: the exception ends the start-up.                *)
TableExists(p) ==
    /\ pc[p] = "create"
    /\ todo[p] # {}
    /\ NextOf(p) \in tables
    /\ Goto(p, "down")
    /\ UNCHANGED <<schemaVars, todo, clean, cut, faults>>

(* The index of a table, for users the unique one of the usernames, is made by *)
(* whoever made the table, and never asked for again.                          *)
CreateIndex(p) ==
    /\ pc[p] = "index"
    /\ indexed' = indexed \cup {NextOf(p)}
    /\ Goto(p, "create")
    /\ Done(p, NextOf(p))
    /\ UNCHANGED <<tables, columns, clean, cut, faults>>

(* PRAGMA table_info(credentials)                                              *)
TableInfo(p) ==
    /\ pc[p] = "create"
    /\ todo[p] = {}
    /\ Goto(p, "migrate")
    /\ todo' = [todo EXCEPT ![p] = Column \ columns]
    /\ UNCHANGED <<schemaVars, clean, cut, faults>>

MutAddColumn(p) == \* elif: one column per start
    /\ pc[p] = "migrate"
    /\ todo[p] # {}
    /\ NextOf(p) \notin columns
    /\ columns' = columns \cup {NextOf(p)}
    /\ todo' = [todo EXCEPT ![p] = {}]
    /\ UNCHANGED <<tables, indexed, pc, clean, cut, faults>>

AddColumn(p) ==
    /\ pc[p] = "migrate"
    /\ todo[p] # {}
    /\ NextOf(p) \notin columns
    /\ columns' = columns \cup {NextOf(p)}
    /\ Done(p, NextOf(p))
    /\ UNCHANGED <<tables, indexed, pc, clean, cut, faults>>

(* The column is there by now: the exception is swallowed, and with it every   *)
(* column that was still to come.                                              *)
ColumnExists(p) ==
    /\ pc[p] = "migrate"
    /\ todo[p] # {}
    /\ NextOf(p) \in columns
    /\ Goto(p, "serving")
    /\ UNCHANGED <<schemaVars, todo, clean, cut, faults>>

Serve(p) ==
    /\ pc[p] = "migrate"
    /\ todo[p] = {}
    /\ Goto(p, "serving")
    /\ UNCHANGED <<schemaVars, todo, clean, cut, faults>>

-----------------------------------------------------------------------------
Fault(p, stage) ==
    /\ faults < MaxFaults
    /\ faults' = faults + 1
    /\ Goto(p, stage)
    /\ clean' = [q \in Process |-> FALSE]
    /\ cut' = (cut \/ pc[p] = "index")
    /\ UNCHANGED <<schemaVars, todo>>

(* "database is locked": fatal for create_all, swallowed by the migration,     *)
(* whose first statement is the PRAGMA that follows the last index.            *)
Locked(p) ==
    LET migrating == pc[p] = "migrate" \/ (pc[p] = "create" /\ todo[p] = {})
    IN  \/ migrating /\ Fault(p, "serving")
        \/ ~migrating /\ pc[p] \in {"start", "create", "index"} /\ Fault(p, "down")

Crash(p) == pc[p] # "down" /\ Fault(p, "down")

(* restart: unless-stopped                                                     *)
StartAgain(p) ==
    /\ pc[p] = "down"
    /\ Goto(p, "start")
    /\ todo' = [todo EXCEPT ![p] = {}]
    /\ clean' = [clean EXCEPT ![p] = TRUE]
    /\ UNCHANGED <<schemaVars, cut, faults>>

Step(p) ==
    \/ Inspect(p) \/ CreateTable(p) \/ TableExists(p) \/ CreateIndex(p)
    \/ TableInfo(p) \/ AddColumn(p) \/ ColumnExists(p) \/ Serve(p)
    \/ StartAgain(p)

Next == \E p \in Process : Step(p) \/ Locked(p) \/ Crash(p)

Spec == Init /\ [][Next]_vars

(* A process that runs goes on, and one that ended is started again.           *)
FairSpec == Spec /\ \A p \in Process : WF_vars(Step(p))

-----------------------------------------------------------------------------
(* One start-up without a fault leaves a whole schema, whatever earlier ones   *)
(* left half-made and whoever starts at the same time: once a process that saw *)
(* no fault serves and no other one is still starting, every table and column  *)
(* is there.  Only an index can be missing, and only if a process ended after  *)
(* its table: that one is never repaired.                                      *)
SchemaRepaired ==
    /\ \E p \in Process : pc[p] = "serving" /\ clean[p]
    /\ \A p \in Process : pc[p] \in {"serving", "down"}
    => /\ tables = Table
       /\ columns = Column
       /\ cut \/ indexed = Table

(* Processes that race for the tables do not stop each other for good: every   *)
(* one of them serves in the end.                                              *)
EventuallyServes == \A p \in Process : <>[](pc[p] = "serving")
=============================================================================

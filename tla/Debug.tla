------------------------------- MODULE Debug -------------------------------
(***************************************************************************)
(* debug.c: the sorted table of the files whose debug messages are wanted. *)
(* add_debug_to inserts a name, __is_debugged looks one up by bisection;   *)
(* a turn of its loop is a step, so that what holds between two turns can  *)
(* be stated.  Names are numbers, since only their order (strcmp) matters. *)
(***************************************************************************)
EXTENDS Integers

CONSTANTS
    MAX_FILES_NUMBER,
    Names,
    NULL           \* an entry never written

ASSUME DebugAssumption == /\ MAX_FILES_NUMBER \in Nat \ {0}
                          /\ Names \subseteq Int /\ NULL \notin Int

VARIABLES
    debugged_files, nb_debugged_files,
    overrun,       \* an element beyond the table was written: anything may follow
    search,        \* the call of __is_debugged: its locals, and where it is
    requested      \* history: the names given to add_debug_to
debugVars == <<debugged_files, nb_debugged_files, overrun, search, requested>>

Idle == [at |-> "idle", name |-> NULL, from |-> 0, to |-> 0, found |-> FALSE]

DebugInit == /\ debugged_files = [k \in 0 .. MAX_FILES_NUMBER - 1 |-> NULL]
             /\ nb_debugged_files = 0 /\ overrun = FALSE
             /\ search = Idle /\ requested = {}

\* Variant: the names are not compared, and a new one comes last.
PlaceLast(i, name) == i = nb_debugged_files

\* Where the first loop stops: at the first name that is not smaller.
Place(i, name) ==
    /\ i \in 0 .. nb_debugged_files
    /\ \A k \in 0 .. i - 1 : debugged_files[k] < name
    /\ i < nb_debugged_files => debugged_files[i] >= name

\* Variant: a name that is dropped is counted.
DropCounted(i) == /\ i >= MAX_FILES_NUMBER
                  /\ nb_debugged_files' = nb_debugged_files + 1
                  /\ UNCHANGED <<debugged_files, overrun>>

\* A full table drops a name that is greater than all of it; before another one
\* it writes the entry after the last.
Drop(i) == /\ i >= MAX_FILES_NUMBER
           /\ UNCHANGED <<debugged_files, nb_debugged_files, overrun>>
Insert(i, name) ==
    /\ i < MAX_FILES_NUMBER /\ nb_debugged_files < MAX_FILES_NUMBER
    /\ debugged_files' = [k \in 0 .. MAX_FILES_NUMBER - 1 |->
           IF k = i THEN name
           ELSE IF k > i /\ k <= nb_debugged_files THEN debugged_files[k - 1]
           ELSE debugged_files[k]]
    /\ nb_debugged_files' = nb_debugged_files + 1
    /\ UNCHANGED overrun
Overrun(i) == /\ i < MAX_FILES_NUMBER /\ nb_debugged_files >= MAX_FILES_NUMBER
              /\ overrun' = TRUE
              /\ UNCHANGED <<debugged_files, nb_debugged_files>>

add_debug_to(name) ==
    /\ ~ overrun /\ search.at = "idle"
    /\ requested' = requested \cup {name}
    /\ \E i \in 0 .. nb_debugged_files :
          Place(i, name) /\ (Drop(i) \/ Insert(i, name) \/ Overrun(i))
    /\ UNCHANGED search

-----------------------------------------------------------------------------
(* __is_debugged.                                                          *)
Found(f) == search' = [search EXCEPT !.at = "done", !.found = f]

is_debugged(name) ==
    /\ ~ overrun /\ search.at = "idle"
    /\ search' = [at |-> "loop", name |-> name, from |-> 0, to |-> nb_debugged_files - 1,
                  found |-> FALSE]
    /\ UNCHANGED <<debugged_files, nb_debugged_files, overrun, requested>>

Bisect ==
    LET middle == (search.from + search.to) \div 2
    IN  /\ search.at = "loop" /\ search.from < search.to
        /\ \/ /\ debugged_files[middle] < search.name
              /\ search' = [search EXCEPT !.from = middle + 1]
           \/ /\ debugged_files[middle] > search.name
              /\ search' = [search EXCEPT !.to = middle - 1]
           \/ /\ debugged_files[middle] = search.name
              /\ Found(TRUE)
        /\ UNCHANGED <<debugged_files, nb_debugged_files, overrun, requested>>

\* Variant: the entry that is left is not compared.
BisectEndEarly ==
    /\ search.at = "loop" /\ search.from >= search.to
    /\ Found(FALSE)
    /\ UNCHANGED <<debugged_files, nb_debugged_files, overrun, requested>>

BisectEnd ==
    /\ search.at = "loop" /\ search.from >= search.to
    /\ Found(search.from = search.to /\ debugged_files[search.from] = search.name)
    /\ UNCHANGED <<debugged_files, nb_debugged_files, overrun, requested>>

\* The message is printed, or not, and the caller goes on.
Return == /\ search.at = "done"
          /\ search' = Idle
          /\ UNCHANGED <<debugged_files, nb_debugged_files, overrun, requested>>

Searching == Bisect \/ BisectEnd \/ Return

DebugNext == Searching \/ \E name \in Names : add_debug_to(name) \/ is_debugged(name)
DebugSpec == DebugInit /\ [][DebugNext]_debugVars

-----------------------------------------------------------------------------
Entries == 0 .. nb_debugged_files - 1

DebugTypeOK ==
    /\ debugged_files \in [0 .. MAX_FILES_NUMBER - 1 -> Names \cup {NULL}]
    /\ nb_debugged_files \in 0 .. MAX_FILES_NUMBER
    /\ overrun \in BOOLEAN
    /\ search \in [at : {"idle", "loop", "done"}, name : Names \cup {NULL},
                   from : Int, to : Int, found : BOOLEAN]
    /\ requested \subseteq Names

(* The table is sorted, so that bisection can work on it, and every turn   *)
(* of the search compares with an entry that was written.                  *)
TableSorted ==
    /\ \A j, k \in Entries : j <= k => debugged_files[j] <= debugged_files[k]
    /\ search.at = "loop" /\ search.from <= search.to =>
           search.from >= 0 /\ search.to < nb_debugged_files

(* __is_debugged tells exactly the files that were given with --debug,     *)
(* however many and in whatever order, twice or not; one is missed only if *)
(* the table was full and the name comes after all of it.                  *)
DebugFound ==
    search.at = "done" =>
        IF search.found THEN search.name \in requested
        ELSE search.name \in requested =>
                 /\ nb_debugged_files = MAX_FILES_NUMBER
                 /\ \A k \in Entries : debugged_files[k] < search.name
=============================================================================

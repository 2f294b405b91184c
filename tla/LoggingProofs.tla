--------------------------- MODULE LoggingProofs ---------------------------
(***************************************************************************)
(* What the options have printed, for every command line, every program    *)
(* and every sequence of packets and exceptions.  First the table of       *)
(* debug.c: what __is_debugged answers, with any calls and then in the     *)
(* whole simulator.  Then the trace: its entries and what the program did  *)
(* stay in step (Good), access by access, call by call, instruction by     *)
(* instruction.  Each loop of the model is a recursive function, which     *)
(* Recursion gives its equations.                                          *)
(***************************************************************************)
EXTENDS Logging, NaturalsInduction, WellFoundedInduction, SequenceTheorems, TLAPS

Present(name) == \E k \in Entries : debugged_files[k] = name

\* Where the name can still be, while the search goes on.
SearchInv ==
    /\ overrun => search.at = "idle"
    /\ search.at # "idle" => search.name \in Names
    /\ search.at = "loop" =>
           /\ search.from >= 0 /\ search.to < nb_debugged_files
           /\ \A k \in Entries : debugged_files[k] = search.name =>
                                     search.from <= k /\ k <= search.to
    /\ search.at = "done" => (search.found <=> Present(search.name))

\* What the table holds.
TableInv ==
    /\ \A k \in Entries : debugged_files[k] \in Names /\ debugged_files[k] \in requested
    /\ \A j, k \in Entries : j <= k => debugged_files[j] <= debugged_files[k]
    /\ \A n \in requested :
           \/ overrun
           \/ Present(n)
           \/ nb_debugged_files = MAX_FILES_NUMBER /\ \A k \in Entries : debugged_files[k] < n

IInv == DebugTypeOK /\ TableInv /\ SearchInv

-----------------------------------------------------------------------------
(* An empty table and no search satisfy the invariant.                     *)
LEMMA DebugInitial == DebugInit => IInv
<1> SUFFICES ASSUME DebugInit PROVE IInv
    OBVIOUS
<1> USE DebugAssumption DEF DebugInit, Idle, DebugAssumption
<1>1. DebugTypeOK
    <2>1. debugged_files \in [0 .. MAX_FILES_NUMBER - 1 -> Names \cup {NULL}]
        OBVIOUS
    <2>2. nb_debugged_files \in 0 .. MAX_FILES_NUMBER
        OBVIOUS
    <2>3. search \in [at : {"idle", "loop", "done"}, name : Names \cup {NULL},
                     from : Int, to : Int, found : BOOLEAN]
        OBVIOUS
    <2>. QED BY <2>1, <2>2, <2>3 DEF DebugTypeOK
<1>2. TableInv
    BY DEF TableInv, Entries
<1>3. SearchInv
    BY DEF SearchInv
<1>. QED BY <1>1, <1>2, <1>3 DEF IInv

(* add_debug_to keeps the table sorted and, where there is room, adds the  *)
(* name to it and loses none.                                              *)
LEMMA InsertKeeps ==
    ASSUME IInv, NEW name \in Names, add_debug_to(name)
    PROVE  IInv'
<1> USE DebugAssumption
<1>1. PICK i \in 0 .. nb_debugged_files :
          Place(i, name) /\ (Drop(i) \/ Insert(i, name) \/ Overrun(i))
    BY DEF add_debug_to
<1>2. /\ requested' = requested \cup {name} /\ search' = search
      /\ ~ overrun /\ search.at = "idle"
    BY DEF add_debug_to
<1>3. /\ nb_debugged_files \in 0 .. MAX_FILES_NUMBER
      /\ debugged_files \in [0 .. MAX_FILES_NUMBER - 1 -> Names \cup {NULL}]
      /\ requested \subseteq Names /\ Names \subseteq Int /\ MAX_FILES_NUMBER \in Nat
    BY DEF IInv, DebugTypeOK
<1>4. \A k \in Entries : debugged_files[k] \in Int /\ debugged_files[k] \in Names
                         /\ debugged_files[k] \in requested
    BY <1>3 DEF IInv, TableInv
<1>5. \A j, k \in Entries : j <= k => debugged_files[j] <= debugged_files[k]
    BY DEF IInv, TableInv
<1>6. SearchInv'
    BY <1>2 DEF SearchInv, IInv
<1>7. CASE Drop(i)
    <2>1. /\ debugged_files' = debugged_files /\ nb_debugged_files' = nb_debugged_files
          /\ overrun' = overrun /\ i = nb_debugged_files /\ i = MAX_FILES_NUMBER
        BY <1>3, <1>7 DEF Drop
    <2>2. DebugTypeOK'
        BY <2>1, <1>2 DEF IInv, DebugTypeOK
    <2>3. \A k \in Entries : debugged_files[k] < name
        BY <1>1, <2>1 DEF Place, Entries
    <2>4. TableInv'
        BY <2>1, <2>3, <1>2 DEF IInv, TableInv, Entries, Present
    <2>. QED BY <2>2, <2>4, <1>6 DEF IInv
<1>8. CASE Overrun(i)
    <2>1. /\ debugged_files' = debugged_files /\ nb_debugged_files' = nb_debugged_files
          /\ overrun' = TRUE
        BY <1>8 DEF Overrun
    <2>2. DebugTypeOK'
        BY <2>1, <1>2 DEF IInv, DebugTypeOK
    <2>4. TableInv'
        BY <2>1, <1>2 DEF IInv, TableInv, Entries
    <2>. QED BY <2>2, <2>4, <1>6 DEF IInv
<1>9. CASE Insert(i, name)
    <2>1. /\ nb_debugged_files < MAX_FILES_NUMBER /\ i < MAX_FILES_NUMBER
          /\ nb_debugged_files' = nb_debugged_files + 1 /\ overrun' = overrun
          /\ debugged_files' \in [0 .. MAX_FILES_NUMBER - 1 -> Names \cup {NULL}]
        BY <1>3, <1>9 DEF Insert
    <2>2. \A k \in 0 .. nb_debugged_files :
              debugged_files'[k] = IF k = i THEN name
                                   ELSE IF k > i THEN debugged_files[k - 1]
                                   ELSE debugged_files[k]
        BY <1>3, <1>9 DEF Insert
    <2>3. Entries' = 0 .. nb_debugged_files
        BY <2>1, <1>3 DEF Entries
    <2>4. DebugTypeOK'
        BY <2>1, <1>2, <1>3 DEF IInv, DebugTypeOK
    <2>5. \A k \in Entries' : debugged_files'[k] \in Names /\ debugged_files'[k] \in requested'
        <3> SUFFICES ASSUME NEW k \in 0 .. nb_debugged_files
                     PROVE  debugged_files'[k] \in Names /\ debugged_files'[k] \in requested'
            BY <2>3
        <3>1. CASE k = i
            BY <3>1, <2>2, <1>2
        <3>2. CASE k > i
            <4>1. k - 1 \in Entries
                BY <3>2, <1>3 DEF Entries
            <4>2. debugged_files'[k] = debugged_files[k - 1]
                BY <3>2, <2>2, <1>3
            <4>. QED BY <4>1, <4>2, <1>2, <1>4
        <3>3. CASE k < i
            <4>1. k \in Entries
                BY <3>3, <1>3 DEF Entries
            <4>2. debugged_files'[k] = debugged_files[k]
                BY <3>3, <2>2, <1>3
            <4>. QED BY <4>1, <4>2, <1>2, <1>4
        <3>. QED BY <3>1, <3>2, <3>3, <1>3
    <2>6. \A j, k \in Entries' : j <= k => debugged_files'[j] <= debugged_files'[k]
        <3> SUFFICES ASSUME NEW j \in 0 .. nb_debugged_files, NEW k \in 0 .. nb_debugged_files,
                            j <= k
                     PROVE  debugged_files'[j] <= debugged_files'[k]
            BY <2>3
        <3>1. name \in Int
            BY <1>3
        <3>2. \A m \in 0 .. i - 1 : debugged_files[m] < name
            BY <1>1 DEF Place
        <3>3. \A m \in Entries : m >= i => name <= debugged_files[m]
            BY <1>1, <1>3, <1>4, <1>5, <3>1 DEF Place, Entries
        \* Where the entries j and k of the new table were before.
        <3> DEFINE was(m) == IF m > i THEN m - 1 ELSE m
        <3>4. /\ j # i => was(j) \in Entries /\ debugged_files'[j] = debugged_files[was(j)]
              /\ k # i => was(k) \in Entries /\ debugged_files'[k] = debugged_files[was(k)]
              /\ j = i => debugged_files'[j] = name
              /\ k = i => debugged_files'[k] = name
            BY <2>2, <1>3 DEF Entries
        <3>5. CASE j # i /\ k # i
            <4>1. was(j) <= was(k)
                BY <3>4, <3>5, <1>3
            <4>. QED BY <4>1, <3>4, <3>5, <1>5
        <3>6. CASE j = i /\ k # i
            <4>1. was(k) >= i
                BY <3>6, <1>3
            <4>. QED BY <4>1, <3>3, <3>4, <3>6
        <3>7. CASE j # i /\ k = i
            <4>1. was(j) \in 0 .. i - 1
                BY <3>4, <3>7, <1>3
            <4>2. debugged_files[was(j)] < name /\ debugged_files[was(j)] \in Int
                BY <4>1, <3>2, <3>4, <3>7, <1>4
            <4>. QED BY <4>2, <3>1, <3>4, <3>7
        <3>8. CASE j = i /\ k = i
            BY <3>8, <3>1, <3>4
        <3>. QED BY <3>5, <3>6, <3>7, <3>8
    <2>7. \A n \in requested : Present(n) => Present(n)'
        <3> SUFFICES ASSUME NEW n \in requested, NEW k \in Entries, debugged_files[k] = n
                     PROVE  \E m \in Entries' : debugged_files'[m] = n
            BY DEF Present
        <3>1. CASE k < i
            <4>1. k \in 0 .. nb_debugged_files /\ ~ (k > i) /\ k # i
                BY <3>1, <1>3 DEF Entries
            <4>2. debugged_files'[k] = n
                BY <4>1, <2>2
            <4>. QED BY <4>1, <4>2, <2>3
        <3>2. CASE k >= i
            <4>1. k + 1 \in 0 .. nb_debugged_files /\ k + 1 > i
                BY <3>2, <1>3 DEF Entries
            <4>2. debugged_files'[k + 1] = n
                BY <4>1, <2>2, <1>3 DEF Entries
            <4>. QED BY <4>1, <4>2, <2>3
        <3>. QED BY <3>1, <3>2, <1>3 DEF Entries
    <2>8. Present(name)'
        BY <2>2, <2>3, <1>3 DEF Present
    <2>9. TableInv'
        BY <2>1, <2>5, <2>6, <2>7, <2>8, <1>2, <1>3 DEF IInv, TableInv
    <2>. QED BY <2>4, <2>9, <1>6 DEF IInv
<1>. QED BY <1>1, <1>7, <1>8, <1>9

(* A step of the search leaves the table alone.                            *)
LEMMA SearchKeepsTable ==
    ASSUME IInv, UNCHANGED <<debugged_files, nb_debugged_files, overrun, requested>>,
           search' \in [at : {"idle", "loop", "done"}, name : Names \cup {NULL},
                        from : Int, to : Int, found : BOOLEAN]
    PROVE  DebugTypeOK' /\ TableInv'
BY DEF IInv, DebugTypeOK, TableInv, Entries, Present

(* A turn of the loop keeps all the places where the name can be.          *)
LEMMA BisectKeeps ==
    ASSUME IInv, Bisect
    PROVE  IInv'
<1> USE DebugAssumption
<1> DEFINE middle == (search.from + search.to) \div 2
<1>1. /\ search \in [at : {"idle", "loop", "done"}, name : Names \cup {NULL},
                     from : Int, to : Int, found : BOOLEAN]
      /\ nb_debugged_files \in 0 .. MAX_FILES_NUMBER /\ Names \subseteq Int
    BY DEF IInv, DebugTypeOK
<1>2. /\ search.at = "loop" /\ search.from < search.to
      /\ UNCHANGED <<debugged_files, nb_debugged_files, overrun, requested>>
    BY DEF Bisect
<1>3. /\ search.from >= 0 /\ search.to < nb_debugged_files /\ search.name \in Names
      /\ ~ overrun
      /\ \A k \in Entries : debugged_files[k] = search.name => search.from <= k /\ k <= search.to
    BY <1>1, <1>2 DEF IInv, SearchInv
<1>4. /\ middle \in Entries /\ middle \in Int
      /\ search.from <= middle /\ middle < search.to
    BY <1>1, <1>2, <1>3 DEF Entries
<1>5. /\ \A k \in Entries : debugged_files[k] \in Int
      /\ \A j, k \in Entries : j <= k => debugged_files[j] <= debugged_files[k]
    BY <1>1 DEF IInv, TableInv
<1> HIDE DEF middle
<1>6. CASE debugged_files[middle] < search.name
           /\ search' = [search EXCEPT !.from = middle + 1]
    <2>1. \A k \in Entries : debugged_files[k] = search.name => middle + 1 <= k
        BY <1>1, <1>3, <1>4, <1>5, <1>6 DEF Entries
    <2>2. SearchInv'
        BY <2>1, <1>1, <1>2, <1>3, <1>4, <1>6 DEF SearchInv, Entries
    <2>3. DebugTypeOK' /\ TableInv'
        BY <1>1, <1>2, <1>4, <1>6, SearchKeepsTable
    <2>. QED BY <2>2, <2>3 DEF IInv
<1>7. CASE debugged_files[middle] > search.name
           /\ search' = [search EXCEPT !.to = middle - 1]
    <2>1. \A k \in Entries : debugged_files[k] = search.name => k <= middle - 1
        BY <1>1, <1>3, <1>4, <1>5, <1>7 DEF Entries
    <2>2. SearchInv'
        BY <2>1, <1>1, <1>2, <1>3, <1>4, <1>7 DEF SearchInv, Entries
    <2>3. DebugTypeOK' /\ TableInv'
        BY <1>1, <1>2, <1>4, <1>7, SearchKeepsTable
    <2>. QED BY <2>2, <2>3 DEF IInv
<1>8. CASE debugged_files[middle] = search.name /\ Found(TRUE)
    <2>1. search' = [search EXCEPT !.at = "done", !.found = TRUE]
        BY <1>8 DEF Found
    <2>2. Present(search.name)
        BY <1>4, <1>8 DEF Present
    <2>3. SearchInv'
        BY <2>1, <2>2, <1>1, <1>2, <1>3 DEF SearchInv, Entries, Present
    <2>4. DebugTypeOK' /\ TableInv'
        BY <1>1, <1>2, <2>1, SearchKeepsTable
    <2>. QED BY <2>3, <2>4 DEF IInv
<1>. QED BY <1>6, <1>7, <1>8 DEF Bisect, middle

(* When at most one place is left, comparing with it tells.                *)
LEMMA BisectEndKeeps ==
    ASSUME IInv, BisectEnd
    PROVE  IInv'
<1> USE DebugAssumption
<1> DEFINE found == search.from = search.to /\ debugged_files[search.from] = search.name
<1>1. /\ search \in [at : {"idle", "loop", "done"}, name : Names \cup {NULL},
                     from : Int, to : Int, found : BOOLEAN]
      /\ nb_debugged_files \in 0 .. MAX_FILES_NUMBER
    BY DEF IInv, DebugTypeOK
<1>2. /\ search.at = "loop" /\ search.from >= search.to
      /\ UNCHANGED <<debugged_files, nb_debugged_files, overrun, requested>>
      /\ search' = [search EXCEPT !.at = "done", !.found = found]
    BY DEF BisectEnd, Found
<1>3. /\ search.from >= 0 /\ search.to < nb_debugged_files /\ search.name \in Names
      /\ ~ overrun
      /\ \A k \in Entries : debugged_files[k] = search.name => search.from <= k /\ k <= search.to
    BY <1>1, <1>2 DEF IInv, SearchInv
<1>4. found <=> Present(search.name)
    <2>1. ASSUME found PROVE Present(search.name)
        BY <2>1, <1>1, <1>3 DEF Present, Entries
    <2>2. ASSUME NEW k \in Entries, debugged_files[k] = search.name PROVE found
        <3>1. k = search.from /\ search.from = search.to
            BY <2>2, <1>1, <1>2, <1>3 DEF Entries
        <3>. QED BY <3>1, <2>2
    <2>. QED BY <2>1, <2>2 DEF Present
<1> HIDE DEF found
<1>5. found \in BOOLEAN
    BY DEF found
<1>6. /\ search'.at = "done" /\ search'.name = search.name /\ search'.found = found
      /\ search' \in [at : {"idle", "loop", "done"}, name : Names \cup {NULL},
                      from : Int, to : Int, found : BOOLEAN]
    BY <1>1, <1>2, <1>5
<1>7. Present(search.name)' <=> Present(search.name)
    BY <1>2, <1>6 DEF Present, Entries
<1>8. SearchInv'
    BY <1>2, <1>3, <1>4, <1>6, <1>7 DEF SearchInv
<1>9. DebugTypeOK' /\ TableInv'
    BY <1>2, <1>6, SearchKeepsTable
<1>. QED BY <1>8, <1>9 DEF IInv

(* Every step keeps the invariant.                                         *)
LEMMA DebugStep == IInv /\ [DebugNext]_debugVars => IInv'
<1> SUFFICES ASSUME IInv, [DebugNext]_debugVars PROVE IInv'
    OBVIOUS
<1> USE DebugAssumption
<1>1. ASSUME NEW name \in Names, add_debug_to(name) PROVE IInv'
    BY <1>1, InsertKeeps
<1>2. ASSUME NEW name \in Names, is_debugged(name) PROVE IInv'
    <2>1. /\ ~ overrun
          /\ search' = [at |-> "loop", name |-> name, from |-> 0,
                        to |-> nb_debugged_files - 1, found |-> FALSE]
          /\ UNCHANGED <<debugged_files, nb_debugged_files, overrun, requested>>
        BY <1>2 DEF is_debugged
    <2>2. nb_debugged_files \in 0 .. MAX_FILES_NUMBER
        BY DEF IInv, DebugTypeOK
    <2>3. SearchInv'
        BY <2>1, <2>2 DEF SearchInv, Entries
    <2>4. DebugTypeOK' /\ TableInv'
        BY <2>1, <2>2, SearchKeepsTable
    <2>. QED BY <2>3, <2>4 DEF IInv
<1>3. CASE Bisect
    BY <1>3, BisectKeeps
<1>4. CASE BisectEnd
    BY <1>4, BisectEndKeeps
<1>5. CASE Return
    <2>1. SearchInv'
        BY <1>5 DEF Return, Idle, SearchInv
    <2>2. DebugTypeOK' /\ TableInv'
        BY <1>5, SearchKeepsTable DEF Return, Idle
    <2>. QED BY <2>1, <2>2 DEF IInv
<1>6. CASE UNCHANGED debugVars
    BY <1>6 DEF debugVars, IInv, DebugTypeOK, TableInv, SearchInv, Entries, Present
<1>. QED BY <1>1, <1>2, <1>3, <1>4, <1>5, <1>6 DEF DebugNext, Searching

(* The invariant holds for every size of the table and any calls.          *)
THEOREM DebugInvariant == DebugSpec => []IInv
BY DebugInitial, DebugStep, PTL DEF DebugSpec

(* The table of debug.c stays sorted, and bisection stays inside it.       *)
THEOREM TableStaysSorted == DebugSpec => []TableSorted
<1>1. IInv => TableSorted
    BY DEF IInv, TableInv, SearchInv, TableSorted
<1>. QED BY <1>1, DebugInvariant, PTL

(* __is_debugged answers whether --debug named the file.                   *)
THEOREM DebugCorrect == DebugSpec => []DebugFound
<1>1. IInv => DebugFound
    <2> SUFFICES ASSUME IInv, search.at = "done"
                 PROVE  IF search.found THEN search.name \in requested
                        ELSE search.name \in requested =>
                                 /\ nb_debugged_files = MAX_FILES_NUMBER
                                 /\ \A k \in Entries : debugged_files[k] < search.name
        BY DEF DebugFound
    <2>1. ~ overrun /\ (search.found <=> Present(search.name))
        BY DEF IInv, SearchInv
    <2>. QED BY <2>1 DEF IInv, TableInv, Present
<1>. QED BY <1>1, DebugInvariant, PTL
-----------------------------------------------------------------------------
\* The options that are left are options of the command line.
OptionsLeft == argv \in Seq(Options)

(* Every step of the simulator is a call or a turn of debug.c, or leaves   *)
(* the table and the search alone.                                         *)
LEMMA StepsAreDebugSteps ==
    ASSUME OptionsLeft, [Next]_vars
    PROVE  [DebugNext]_debugVars
<1>1. ASSUME DebugOption PROVE DebugNext
    <2>1. Head(argv) \in Options /\ Head(argv).opt = "d" /\ add_debug_to(Head(argv).arg)
        BY <1>1 DEF DebugOption, Option, OptionsLeft
    <2>2. Head(argv).arg \in Names
        BY <2>1 DEF Options
    <2>. QED BY <2>1, <2>2 DEF DebugNext
<1>2. ASSUME Debugging PROVE DebugNext
    BY <1>2, LoggingAssumption DEF Debugging, DebugNext, LoggingAssumption
<1>3. ASSUME Look PROVE DebugNext
    BY <1>3 DEF Look, DebugNext
<1>4. ASSUME Help \/ Unknown \/ TraceFile \/ Start PROVE UNCHANGED debugVars
    BY <1>4 DEF Help, Unknown, TraceFile, Start
<1>5. ASSUME NEW opt, NEW flag, TraceFlag(opt, flag) PROVE UNCHANGED debugVars
    BY <1>5 DEF TraceFlag
<1>6. ASSUME ReadRegisters \/ WriteRegisters \/ SingleStep \/ Continue \/ ContStep
             \/ ContStop \/ Exception
      PROVE  UNCHANGED debugVars
    BY <1>6 DEF ReadRegisters, WriteRegisters, SingleStep, Continue, ContStep, ContStop,
                Exception, Quiet
<1>7. ASSUME Ended \/ UNCHANGED vars PROVE UNCHANGED debugVars
    BY <1>7 DEF Ended, vars
<1>. QED BY <1>1, <1>2, <1>3, <1>4, <1>5, <1>6, <1>7 DEF Next

(* main takes options from the front and nothing adds any.                 *)
LEMMA OptionsStay == ASSUME OptionsLeft, [Next]_vars PROVE OptionsLeft'
<1>1. ASSUME NEW opt, Option(opt) PROVE OptionsLeft'
    BY <1>1 DEF Option, OptionsLeft
<1>2. ASSUME UNCHANGED argv PROVE OptionsLeft'
    BY <1>2 DEF OptionsLeft
<1>3. ASSUME Help \/ Unknown \/ TraceFile \/ DebugOption PROVE OptionsLeft'
    BY <1>1, <1>3 DEF Help, Unknown, TraceFile, DebugOption
<1>4. ASSUME NEW opt, NEW flag, TraceFlag(opt, flag) PROVE OptionsLeft'
    BY <1>1, <1>4 DEF TraceFlag
<1>5. ASSUME Start \/ Debugging \/ Look PROVE UNCHANGED argv
    BY <1>5 DEF Start, Debugging, Look
<1>6. ASSUME ReadRegisters \/ WriteRegisters \/ SingleStep \/ Continue \/ ContStep
             \/ ContStop \/ Exception
      PROVE  UNCHANGED argv
    BY <1>6 DEF ReadRegisters, WriteRegisters, SingleStep, Continue, ContStep, ContStop,
                Exception, Quiet
<1>7. ASSUME Ended \/ UNCHANGED vars PROVE UNCHANGED argv
    BY <1>7 DEF Ended, vars
<1>. QED BY <1>2, <1>3, <1>4, <1>5, <1>6, <1>7 DEF Next

(* The simulator uses debug.c as DebugSpec says, whatever else it does.    *)
THEOREM LoggingUsesDebug == Spec => DebugSpec
<1>1. Init => DebugInit /\ OptionsLeft
    BY LoggingAssumption DEF Init, LoggingAssumption, OptionsLeft
<1>. QED BY <1>1, OptionsStay, StepsAreDebugSteps, PTL DEF Spec, DebugSpec

(* In the simulator the table of files to debug stays sorted, and          *)
(* bisection stays inside it.                                              *)
THEOREM LoggingTableSorted == Spec => []TableSorted
BY LoggingUsesDebug, TableStaysSorted, PTL

(* In the simulator __is_debugged answers whether --debug named the file,  *)
(* for every command line and every size of the table.                     *)
THEOREM LoggingDebugFound == Spec => []DebugFound
BY LoggingUsesDebug, DebugCorrect, PTL

-----------------------------------------------------------------------------
(* Induction over the natural numbers, for a set: it follows from the      *)
(* well-foundedness of < on Nat.                                           *)
LEMMA SetInduction ==
    ASSUME NEW T, 0 \in T, \A n \in Nat : n \in T => n + 1 \in T
    PROVE  Nat \subseteq T
<1> DEFINE R == OpToRel(<, Nat)
<1>1. \A x, y \in Nat : x < y => <<x, y>> \in R
    BY DEF OpToRel
<1>2. IsWellFoundedOn(R, Nat)
    BY NatLessThanWellFounded
<1> HIDE DEF R
<1> SUFFICES ASSUME Nat \ T # {} PROVE FALSE
    OBVIOUS
<1>3. PICK x \in Nat \ T : \A y \in Nat \ T : ~ (<<y, x>> \in R)
    <2>1. Nat \ T \subseteq Nat
        OBVIOUS
    <2>. QED BY <1>2, <2>1, WFMin
<1>4. x # 0 /\ x - 1 \in Nat /\ x - 1 < x
    OBVIOUS
<1>5. x - 1 \in T
    BY <1>1, <1>3, <1>4
<1>. QED BY <1>4, <1>5

(* Induction up to a bound.                                                *)
LEMMA BoundedInduction ==
    ASSUME NEW m \in Nat, NEW T, 0 \in T, \A n \in 0 .. m - 1 : n \in T => n + 1 \in T
    PROVE  0 .. m \subseteq T
<1> DEFINE U == {n \in Nat : n \in T \/ n > m}
<1>1. 0 \in U
    OBVIOUS
<1>2. \A n \in Nat : n \in U => n + 1 \in U
    OBVIOUS
<1>3. Nat \subseteq U
    <2> HIDE DEF U
    <2>. QED BY <1>1, <1>2, SetInduction
<1>. QED BY <1>3

\* A function on 0 .. m that starts at a and applies g[i] in step i.
Iterates(m, S, a, g) ==
    \E f \in [0 .. m -> S] : f[0] = a /\ \A i \in 1 .. m : f[i] = g[i][f[i - 1]]

(* The recursive definitions of util.h's shifts and of the loops over      *)
(* register lists have a value: a function can be built one argument at a  *)
(* time.                                                                   *)
LEMMA Recursion ==
    ASSUME NEW m \in Nat, NEW S, NEW a \in S, NEW g \in [1 .. m -> [S -> S]]
    PROVE  Iterates(m, S, a, g)
<1> DEFINE Fits(f, k) == f[0] = a /\ \A i \in 1 .. k : f[i] = g[i][f[i - 1]]
           T == {k \in 0 .. m : \E f \in [0 .. k -> S] : Fits(f, k)}
<1>1. 0 \in T
    <2>1. [i \in 0 .. 0 |-> a] \in [0 .. 0 -> S] /\ Fits([i \in 0 .. 0 |-> a], 0)
        OBVIOUS
    <2>2. 0 \in 0 .. m
        OBVIOUS
    <2>3. \E f \in [0 .. 0 -> S] : Fits(f, 0)
        BY <2>1
    <2>. QED BY <2>2, <2>3
<1>2. ASSUME NEW n \in 0 .. m - 1, n \in T PROVE n + 1 \in T
    <2>1. PICK f \in [0 .. n -> S] : Fits(f, n)
        BY <1>2
    <2> DEFINE h == [i \in 0 .. n + 1 |-> IF i <= n THEN f[i] ELSE g[n + 1][f[n]]]
    <2>2. g[n + 1] \in [S -> S] /\ f[n] \in S
        BY <1>2
    <2>3. h \in [0 .. n + 1 -> S]
        BY <2>2
    <2>4. h[0] = a
        BY <1>2, <2>1
    <2>5. ASSUME NEW i \in 1 .. n + 1 PROVE h[i] = g[i][h[i - 1]]
        <3>1. CASE i = n + 1
            BY <1>2, <3>1
        <3>2. CASE i # n + 1
            <4>1. i \in 1 .. n /\ i - 1 \in 0 .. n
                BY <1>2, <3>2
            <4>2. h[i] = f[i] /\ h[i - 1] = f[i - 1]
                BY <4>1
            <4>. QED BY <2>1, <4>1, <4>2
        <3>. QED BY <3>1, <3>2
    <2>6. Fits(h, n + 1)
        BY <2>4, <2>5
    <2>7. n + 1 \in 0 .. m
        BY <1>2
    <2>. QED BY <2>3, <2>6, <2>7
<1>3. m \in T
    <2>1. 0 .. m \subseteq T
        <3> HIDE DEF T
        <3>. QED BY <1>1, <1>2, BoundedInduction
    <2>. QED BY <2>1
<1>. QED BY <1>3 DEF Iterates

\* A loop whose turn k applies g[k] has the recursive function that describes it.
HasLoop(n, S, a, g) ==
    \E f \in [0 .. n -> S] : f = [k \in 0 .. n |-> IF k = 0 THEN a ELSE g[k][f[k - 1]]]

(* What a loop over a sequence stays in, when each turn applies g[k]: then *)
(* the recursive function that describes the loop has a value.             *)
LEMMA LoopFunction ==
    ASSUME NEW n \in Nat, NEW S, NEW a \in S, NEW g \in [1 .. n -> [S -> S]]
    PROVE  HasLoop(n, S, a, g)
<1>1. PICK f \in [0 .. n -> S] : f[0] = a /\ \A k \in 1 .. n : f[k] = g[k][f[k - 1]]
    <2>1. Iterates(n, S, a, g)
        BY Recursion
    <2>. QED BY <2>1 DEF Iterates
<1>2. ASSUME NEW k \in 0 .. n PROVE f[k] = IF k = 0 THEN a ELSE g[k][f[k - 1]]
    <2>1. k = 0 \/ k \in 1 .. n
        OBVIOUS
    <2>. QED BY <1>1, <2>1
<1>3. f = [k \in 0 .. n |-> f[k]]
    OBVIOUS
<1>4. f = [k \in 0 .. n |-> IF k = 0 THEN a ELSE g[k][f[k - 1]]]
    BY <1>2, <1>3
<1>. QED BY <1>4 DEF HasLoop

(* Every function that satisfies the equations of a loop stays in S.       *)
LEMMA LoopStays ==
    ASSUME NEW n \in Nat, NEW S, NEW b, b[0] \in S,
           \A k \in 1 .. n : b[k - 1] \in S => b[k] \in S
    PROVE  \A k \in 0 .. n : b[k] \in S
<1> DEFINE T == {k \in 0 .. n : b[k] \in S}
<1>1. 0 \in T
    OBVIOUS
<1>2. ASSUME NEW k \in 0 .. n - 1, k \in T PROVE k + 1 \in T
    <2>1. k + 1 \in 1 .. n /\ (k + 1) - 1 = k /\ k + 1 \in 0 .. n
        OBVIOUS
    <2>2. b[k] \in S
        BY <1>2
    <2>3. b[(k + 1) - 1] \in S
        BY <2>1, <2>2
    <2>4. b[k + 1] \in S
        BY <2>1, <2>3
    <2>. QED BY <2>1, <2>4
<1>3. 0 .. n \subseteq T
    <2> HIDE DEF T
    <2>. QED BY <1>1, <1>2, BoundedInduction
<1>. QED BY <1>3

\* The turns b[0], b[1], ... of the loop over the accesses of a call.
AccessTurns(b, t, cycle, acc) ==
    /\ b[0] = t /\ Accesses(t, cycle, acc) = b[Len(acc)]
    /\ \A k \in 1 .. Len(acc) : b[k] = Traced(b[k - 1], cycle, acc[k])

(* The loop over the accesses of a call has turns.                         *)
LEMMA AccessesLoop ==
    ASSUME NEW S, NEW t \in S, NEW cycle, NEW acc, Len(acc) \in Nat,
           \A s \in S : \A k \in 1 .. Len(acc) : Traced(s, cycle, acc[k]) \in S
    PROVE  \E b : AccessTurns(b, t, cycle, acc) /\ \A k \in 0 .. Len(acc) : b[k] \in S
<1> DEFINE n == Len(acc)
           turn(s, k) == Traced(s, cycle, acc[k])
           Eq(f) == f = [k \in 0 .. n |-> IF k = 0 THEN t ELSE turn(f[k - 1], k)]
           b == CHOOSE f : Eq(f)
           g == [k \in 1 .. n |-> [s \in S |-> turn(s, k)]]
<1>1. Accesses(t, cycle, acc) = b[n]
    BY DEF Accesses, ForEach
<1>2. \A s \in S : \A k \in 1 .. n : turn(s, k) \in S
    OBVIOUS
<1> HIDE DEF turn
<1>3. g \in [1 .. n -> [S -> S]]
    BY <1>2
<1>4. \E f : Eq(f)
    <2>1. PICK f \in [0 .. n -> S] : f = [k \in 0 .. n |-> IF k = 0 THEN t ELSE g[k][f[k - 1]]]
        <3> HIDE DEF g
        <3>1. HasLoop(n, S, t, g)
            BY <1>3, LoopFunction
        <3>. QED BY <3>1 DEF HasLoop
    <2>2. ASSUME NEW k \in 1 .. n PROVE g[k][f[k - 1]] = turn(f[k - 1], k)
        <3>1. k - 1 \in 0 .. n
            OBVIOUS
        <3>2. f[k - 1] \in S
            BY <3>1
        <3>. QED BY <3>2
    <2> HIDE DEF g
    <2>3. \A k \in 0 .. n : (IF k = 0 THEN t ELSE g[k][f[k - 1]])
                            = (IF k = 0 THEN t ELSE turn(f[k - 1], k))
        BY <2>2
    <2>4. Eq(f)
        BY <2>1, <2>3
    <2>. QED BY <2>4
<1>5. Eq(b)
    <2> HIDE DEF Eq
    <2>. QED BY <1>4
<1> HIDE DEF b
<1>6. b[0] = t /\ \A k \in 1 .. n : b[k] = turn(b[k - 1], k)
    BY <1>5
<1>7. \A k \in 0 .. n : b[k] \in S
    <2>1. \A k \in 1 .. n : b[k - 1] \in S => b[k] \in S
        BY <1>2, <1>6
    <2>. QED BY <1>6, <2>1, LoopStays
<1>. QED BY <1>1, <1>6, <1>7 DEF AccessTurns, turn

\* The turns of the loop over the calls of an instruction.
CallTurns(b, t, cycle, calls) ==
    /\ b[0] = t /\ PerformAll(t, cycle, calls) = b[Len(calls)]
    /\ \A k \in 1 .. Len(calls) : b[k] = Perform(b[k - 1], cycle, calls[k])

(* The loop over the calls of an instruction has turns.                    *)
LEMMA CallsLoop ==
    ASSUME NEW S, NEW t \in S, NEW cycle, NEW calls, Len(calls) \in Nat,
           \A s \in S : \A k \in 1 .. Len(calls) : Perform(s, cycle, calls[k]) \in S
    PROVE  \E b : CallTurns(b, t, cycle, calls) /\ \A k \in 0 .. Len(calls) : b[k] \in S
<1> DEFINE n == Len(calls)
           turn(s, k) == Perform(s, cycle, calls[k])
           Eq(f) == f = [k \in 0 .. n |-> IF k = 0 THEN t ELSE turn(f[k - 1], k)]
           b == CHOOSE f : Eq(f)
           g == [k \in 1 .. n |-> [s \in S |-> turn(s, k)]]
<1>1. PerformAll(t, cycle, calls) = b[n]
    BY DEF PerformAll, ForEach
<1>2. \A s \in S : \A k \in 1 .. n : turn(s, k) \in S
    OBVIOUS
<1> HIDE DEF turn
<1>3. g \in [1 .. n -> [S -> S]]
    BY <1>2
<1>4. \E f : Eq(f)
    <2>1. PICK f \in [0 .. n -> S] : f = [k \in 0 .. n |-> IF k = 0 THEN t ELSE g[k][f[k - 1]]]
        <3> HIDE DEF g
        <3>1. HasLoop(n, S, t, g)
            BY <1>3, LoopFunction
        <3>. QED BY <3>1 DEF HasLoop
    <2>2. ASSUME NEW k \in 1 .. n PROVE g[k][f[k - 1]] = turn(f[k - 1], k)
        <3>1. k - 1 \in 0 .. n
            OBVIOUS
        <3>2. f[k - 1] \in S
            BY <3>1
        <3>. QED BY <3>2
    <2> HIDE DEF g
    <2>3. \A k \in 0 .. n : (IF k = 0 THEN t ELSE g[k][f[k - 1]])
                            = (IF k = 0 THEN t ELSE turn(f[k - 1], k))
        BY <2>2
    <2>4. Eq(f)
        BY <2>1, <2>3
    <2>. QED BY <2>4
<1>5. Eq(b)
    <2> HIDE DEF Eq
    <2>. QED BY <1>4
<1> HIDE DEF b
<1>6. b[0] = t /\ \A k \in 1 .. n : b[k] = turn(b[k - 1], k)
    BY <1>5
<1>7. \A k \in 0 .. n : b[k] \in S
    <2>1. \A k \in 1 .. n : b[k - 1] \in S => b[k] \in S
        BY <1>2, <1>6
    <2>. QED BY <1>6, <2>1, LoopStays
<1>. QED BY <1>1, <1>6, <1>7 DEF CallTurns, turn

\* The turns of the loop of arm_print_state.
DumpTurns(b, t, cycle) ==
    /\ b[0] = t /\ arm_print_state(t, cycle) = b[Len(Dumped)]
    /\ \A k \in 1 .. Len(Dumped) : b[k] = DumpRead(b[k - 1], cycle, Dumped[k])

(* The loop of arm_print_state has turns.                                  *)
LEMMA DumpLoop ==
    ASSUME NEW S, NEW t \in S, NEW cycle, Len(Dumped) \in Nat,
           \A s \in S : \A k \in 1 .. Len(Dumped) : DumpRead(s, cycle, Dumped[k]) \in S
    PROVE  \E b : DumpTurns(b, t, cycle) /\ \A k \in 0 .. Len(Dumped) : b[k] \in S
<1> DEFINE n == Len(Dumped)
           turn(s, k) == DumpRead(s, cycle, Dumped[k])
           Eq(f) == f = [k \in 0 .. n |-> IF k = 0 THEN t ELSE turn(f[k - 1], k)]
           b == CHOOSE f : Eq(f)
           g == [k \in 1 .. n |-> [s \in S |-> turn(s, k)]]
<1>1. arm_print_state(t, cycle) = b[n]
    BY DEF arm_print_state, ForEach
<1>2. \A s \in S : \A k \in 1 .. n : turn(s, k) \in S
    OBVIOUS
<1> HIDE DEF turn
<1>3. g \in [1 .. n -> [S -> S]]
    BY <1>2
<1>4. \E f : Eq(f)
    <2>1. PICK f \in [0 .. n -> S] : f = [k \in 0 .. n |-> IF k = 0 THEN t ELSE g[k][f[k - 1]]]
        <3> HIDE DEF g
        <3>1. HasLoop(n, S, t, g)
            BY <1>3, LoopFunction
        <3>. QED BY <3>1 DEF HasLoop
    <2>2. ASSUME NEW k \in 1 .. n PROVE g[k][f[k - 1]] = turn(f[k - 1], k)
        <3>1. k - 1 \in 0 .. n
            OBVIOUS
        <3>2. f[k - 1] \in S
            BY <3>1
        <3>. QED BY <3>2
    <2> HIDE DEF g
    <2>3. \A k \in 0 .. n : (IF k = 0 THEN t ELSE g[k][f[k - 1]])
                            = (IF k = 0 THEN t ELSE turn(f[k - 1], k))
        BY <2>2
    <2>4. Eq(f)
        BY <2>1, <2>3
    <2>. QED BY <2>4
<1>5. Eq(b)
    <2> HIDE DEF Eq
    <2>. QED BY <1>4
<1> HIDE DEF b
<1>6. b[0] = t /\ \A k \in 1 .. n : b[k] = turn(b[k - 1], k)
    BY <1>5
<1>7. \A k \in 0 .. n : b[k] \in S
    <2>1. \A k \in 1 .. n : b[k - 1] \in S => b[k] \in S
        BY <1>2, <1>6
    <2>. QED BY <1>6, <2>1, LoopStays
<1>. QED BY <1>1, <1>6, <1>7 DEF DumpTurns, turn

\* What is noted of an access, and of the two parts of a call.
Fact(cycle, at, sum, access) == [access |-> access, cycle |-> cycle, at |-> at, sum |-> sum]
NoteCall(P, cycle, c) ==
    Note(Note(P, cycle, c.at, TRUE, c.inner), cycle, c.at, c.sum, c.accesses)

\* The turns of the loop that notes the accesses of a call.
NoteTurns(b, P, cycle, at, sum, acc) ==
    /\ b[0] = P /\ Note(P, cycle, at, sum, acc) = b[Len(acc)]
    /\ \A k \in 1 .. Len(acc) : b[k] = Append(b[k - 1], Fact(cycle, at, sum, acc[k]))

(* The loop that notes the accesses of a call has turns.                   *)
LEMMA NoteLoop ==
    ASSUME NEW S, NEW P \in S, NEW cycle, NEW at, NEW sum, NEW acc, Len(acc) \in Nat,
           \A s \in S : \A k \in 1 .. Len(acc) : Append(s, Fact(cycle, at, sum, acc[k])) \in S
    PROVE  \E b : NoteTurns(b, P, cycle, at, sum, acc) /\ \A k \in 0 .. Len(acc) : b[k] \in S
<1> DEFINE n == Len(acc)
           turn(s, k) == Append(s, Fact(cycle, at, sum, acc[k]))
           Eq(f) == f = [k \in 0 .. n |-> IF k = 0 THEN P ELSE turn(f[k - 1], k)]
           b == CHOOSE f : Eq(f)
           g == [k \in 1 .. n |-> [s \in S |-> turn(s, k)]]
<1>1. Note(P, cycle, at, sum, acc) = b[n]
    BY DEF Note, Fact, ForEach
<1>2. \A s \in S : \A k \in 1 .. n : turn(s, k) \in S
    OBVIOUS
<1> HIDE DEF turn
<1>3. g \in [1 .. n -> [S -> S]]
    BY <1>2
<1>4. \E f : Eq(f)
    <2>1. PICK f \in [0 .. n -> S] : f = [k \in 0 .. n |-> IF k = 0 THEN P ELSE g[k][f[k - 1]]]
        <3> HIDE DEF g
        <3>1. HasLoop(n, S, P, g)
            BY <1>3, LoopFunction
        <3>. QED BY <3>1 DEF HasLoop
    <2>2. ASSUME NEW k \in 1 .. n PROVE g[k][f[k - 1]] = turn(f[k - 1], k)
        <3>1. k - 1 \in 0 .. n
            OBVIOUS
        <3>2. f[k - 1] \in S
            BY <3>1
        <3>. QED BY <3>2
    <2> HIDE DEF g
    <2>3. \A k \in 0 .. n : (IF k = 0 THEN P ELSE g[k][f[k - 1]])
                            = (IF k = 0 THEN P ELSE turn(f[k - 1], k))
        BY <2>2
    <2>4. Eq(f)
        BY <2>1, <2>3
    <2>. QED BY <2>4
<1>5. Eq(b)
    <2> HIDE DEF Eq
    <2>. QED BY <1>4
<1> HIDE DEF b
<1>6. b[0] = P /\ \A k \in 1 .. n : b[k] = turn(b[k - 1], k)
    BY <1>5
<1>7. \A k \in 0 .. n : b[k] \in S
    <2>1. \A k \in 1 .. n : b[k - 1] \in S => b[k] \in S
        BY <1>2, <1>6
    <2>. QED BY <1>6, <2>1, LoopStays
<1>. QED BY <1>1, <1>6, <1>7 DEF NoteTurns, turn

\* The turns of the loop that notes all calls.
NoteAllTurns(b, P, cycle, calls) ==
    /\ b[0] = P /\ NoteAll(P, cycle, calls) = b[Len(calls)]
    /\ \A k \in 1 .. Len(calls) : b[k] = NoteCall(b[k - 1], cycle, calls[k])

(* The loop that notes all calls has turns.                                *)
LEMMA NoteAllLoop ==
    ASSUME NEW S, NEW P \in S, NEW cycle, NEW calls, Len(calls) \in Nat,
           \A s \in S : \A k \in 1 .. Len(calls) : NoteCall(s, cycle, calls[k]) \in S
    PROVE  \E b : NoteAllTurns(b, P, cycle, calls) /\ \A k \in 0 .. Len(calls) : b[k] \in S
<1> DEFINE n == Len(calls)
           turn(s, k) == NoteCall(s, cycle, calls[k])
           Eq(f) == f = [k \in 0 .. n |-> IF k = 0 THEN P ELSE turn(f[k - 1], k)]
           b == CHOOSE f : Eq(f)
           g == [k \in 1 .. n |-> [s \in S |-> turn(s, k)]]
<1>1. NoteAll(P, cycle, calls) = b[n]
    BY DEF NoteAll, NoteCall, ForEach
<1>2. \A s \in S : \A k \in 1 .. n : turn(s, k) \in S
    OBVIOUS
<1> HIDE DEF turn
<1>3. g \in [1 .. n -> [S -> S]]
    BY <1>2
<1>4. \E f : Eq(f)
    <2>1. PICK f \in [0 .. n -> S] : f = [k \in 0 .. n |-> IF k = 0 THEN P ELSE g[k][f[k - 1]]]
        <3> HIDE DEF g
        <3>1. HasLoop(n, S, P, g)
            BY <1>3, LoopFunction
        <3>. QED BY <3>1 DEF HasLoop
    <2>2. ASSUME NEW k \in 1 .. n PROVE g[k][f[k - 1]] = turn(f[k - 1], k)
        <3>1. k - 1 \in 0 .. n
            OBVIOUS
        <3>2. f[k - 1] \in S
            BY <3>1
        <3>. QED BY <3>2
    <2> HIDE DEF g
    <2>3. \A k \in 0 .. n : (IF k = 0 THEN P ELSE g[k][f[k - 1]])
                            = (IF k = 0 THEN P ELSE turn(f[k - 1], k))
        BY <2>2
    <2>4. Eq(f)
        BY <2>1, <2>3
    <2>. QED BY <2>4
<1>5. Eq(b)
    <2> HIDE DEF Eq
    <2>. QED BY <1>4
<1> HIDE DEF b
<1>6. b[0] = P /\ \A k \in 1 .. n : b[k] = turn(b[k - 1], k)
    BY <1>5
<1>7. \A k \in 0 .. n : b[k] \in S
    <2>1. \A k \in 1 .. n : b[k - 1] \in S => b[k] \in S
        BY <1>2, <1>6
    <2>. QED BY <1>6, <2>1, LoopStays
<1>. QED BY <1>1, <1>6, <1>7 DEF NoteAllTurns, turn

\* One turn of OfKind.
Keep(u, kinds, e) == IF e.access.kind \in kinds THEN Append(u, e) ELSE u

\* The turns of the loop that keeps the entries of some kinds.
KeepTurns(b, q, kinds) ==
    /\ b[0] = <<>> /\ OfKind(q, kinds) = b[Len(q)]
    /\ \A k \in 1 .. Len(q) : b[k] = Keep(b[k - 1], kinds, q[k])

(* The loop that keeps the entries of some kinds has turns.                *)
LEMMA KeepLoop ==
    ASSUME NEW S, <<>> \in S, NEW q, NEW kinds, Len(q) \in Nat,
           \A s \in S : \A k \in 1 .. Len(q) : Keep(s, kinds, q[k]) \in S
    PROVE  \E b : KeepTurns(b, q, kinds) /\ \A k \in 0 .. Len(q) : b[k] \in S
<1> DEFINE n == Len(q)
           turn(s, k) == Keep(s, kinds, q[k])
           Eq(f) == f = [k \in 0 .. n |-> IF k = 0 THEN <<>> ELSE turn(f[k - 1], k)]
           b == CHOOSE f : Eq(f)
           g == [k \in 1 .. n |-> [s \in S |-> turn(s, k)]]
<1>1. OfKind(q, kinds) = b[n]
    BY DEF OfKind, Keep, ForEach
<1>2. \A s \in S : \A k \in 1 .. n : turn(s, k) \in S
    OBVIOUS
<1> HIDE DEF turn
<1>3. g \in [1 .. n -> [S -> S]]
    BY <1>2
<1>4. \E f : Eq(f)
    <2>1. PICK f \in [0 .. n -> S] : f = [k \in 0 .. n |-> IF k = 0 THEN <<>> ELSE g[k][f[k - 1]]]
        <3> HIDE DEF g
        <3>1. HasLoop(n, S, <<>>, g)
            BY <1>3, LoopFunction
        <3>. QED BY <3>1 DEF HasLoop
    <2>2. ASSUME NEW k \in 1 .. n PROVE g[k][f[k - 1]] = turn(f[k - 1], k)
        <3>1. k - 1 \in 0 .. n
            OBVIOUS
        <3>2. f[k - 1] \in S
            BY <3>1
        <3>. QED BY <3>2
    <2> HIDE DEF g
    <2>3. \A k \in 0 .. n : (IF k = 0 THEN <<>> ELSE g[k][f[k - 1]])
                            = (IF k = 0 THEN <<>> ELSE turn(f[k - 1], k))
        BY <2>2
    <2>4. Eq(f)
        BY <2>1, <2>3
    <2>. QED BY <2>4
<1>5. Eq(b)
    <2> HIDE DEF Eq
    <2>. QED BY <1>4
<1> HIDE DEF b
<1>6. b[0] = <<>> /\ \A k \in 1 .. n : b[k] = turn(b[k - 1], k)
    BY <1>5
<1>7. \A k \in 0 .. n : b[k] \in S
    <2>1. \A k \in 1 .. n : b[k - 1] \in S => b[k] \in S
        BY <1>2, <1>6
    <2>. QED BY <1>6, <2>1, LoopStays
<1>. QED BY <1>1, <1>6, <1>7 DEF KeepTurns, turn

(* What OfKind keeps are entries.                                          *)
LEMMA OfKindType ==
    ASSUME NEW E, NEW q \in Seq(E), NEW kinds
    PROVE  OfKind(q, kinds) \in Seq(E)
<1>1. Len(q) \in Nat /\ <<>> \in Seq(E)
    OBVIOUS
<1>2. \A s \in Seq(E) : \A k \in 1 .. Len(q) : Keep(s, kinds, q[k]) \in Seq(E)
    BY DEF Keep
<1>3. PICK b : KeepTurns(b, q, kinds) /\ \A k \in 0 .. Len(q) : b[k] \in Seq(E)
    BY <1>1, <1>2, KeepLoop
<1>4. Len(q) \in 0 .. Len(q)
    BY <1>1
<1>. QED BY <1>3, <1>4 DEF KeepTurns

(* Nothing is kept of nothing.                                             *)
LEMMA OfKindEmpty == ASSUME NEW kinds PROVE OfKind(<<>>, kinds) = <<>>
<1>1. Len(<<>>) = 0 /\ <<>> \in {<<>>}
    OBVIOUS
<1>2. \A s \in {<<>>} : \A k \in 1 .. Len(<<>>) : Keep(s, kinds, <<>>[k]) \in {<<>>}
    BY <1>1
<1>3. PICK b : KeepTurns(b, <<>>, kinds) /\ \A k \in 0 .. Len(<<>>) : b[k] \in {<<>>}
    BY <1>1, <1>2, KeepLoop
<1>. QED BY <1>1, <1>3 DEF KeepTurns

(* The last entry is kept or not, after what is kept of those before it.   *)
LEMMA OfKindAppend ==
    ASSUME NEW E, NEW q \in Seq(E), NEW e \in E, NEW kinds
    PROVE  OfKind(Append(q, e), kinds) = Keep(OfKind(q, kinds), kinds, e)
<1> DEFINE r == Append(q, e)
<1>1. /\ Len(q) \in Nat /\ Len(r) = Len(q) + 1 /\ r[Len(q) + 1] = e /\ r \in Seq(E)
      /\ \A k \in 1 .. Len(q) : r[k] = q[k]
    OBVIOUS
<1> HIDE DEF r
<1>2. \A s \in Seq(E) : \A k \in 1 .. Len(q) : Keep(s, kinds, q[k]) \in Seq(E)
    BY DEF Keep
<1>3. \A s \in Seq(E) : \A k \in 1 .. Len(r) : Keep(s, kinds, r[k]) \in Seq(E)
    BY <1>1 DEF Keep
<1>4. PICK b : KeepTurns(b, q, kinds)
    <2>1. <<>> \in Seq(E)
        OBVIOUS
    <2>. QED BY <1>1, <1>2, <2>1, KeepLoop
<1>5. PICK c : KeepTurns(c, r, kinds)
    <2>1. <<>> \in Seq(E) /\ Len(r) \in Nat
        BY <1>1
    <2>. QED BY <1>3, <2>1, KeepLoop
<1> DEFINE T == {k \in 0 .. Len(q) : b[k] = c[k]}
<1>6. 0 \in T
    BY <1>1, <1>4, <1>5 DEF KeepTurns
<1>7. ASSUME NEW k \in 0 .. Len(q) - 1, k \in T PROVE k + 1 \in T
    <2>1. k + 1 \in 1 .. Len(q) /\ k + 1 \in 1 .. Len(r) /\ (k + 1) - 1 = k /\ b[k] = c[k]
          /\ k + 1 \in 0 .. Len(q)
        BY <1>1, <1>7
    <2>2. b[k + 1] = Keep(b[(k + 1) - 1], kinds, q[k + 1])
        BY <1>4, <2>1 DEF KeepTurns
    <2>3. c[k + 1] = Keep(c[(k + 1) - 1], kinds, r[k + 1])
        BY <1>5, <2>1 DEF KeepTurns
    <2>4. b[k + 1] = c[k + 1]
        BY <1>1, <2>1, <2>2, <2>3
    <2>. QED BY <2>1, <2>4
<1>8. 0 .. Len(q) \subseteq T
    <2> HIDE DEF T
    <2>. QED BY <1>1, <1>6, <1>7, BoundedInduction
<1>9. b[Len(q)] = c[Len(q)] /\ OfKind(q, kinds) = b[Len(q)]
    BY <1>1, <1>4, <1>8 DEF KeepTurns
<1>10. Len(r) \in 1 .. Len(r) /\ Len(r) - 1 = Len(q) /\ r[Len(r)] = e
    BY <1>1
<1>11. c[Len(r)] = Keep(c[Len(r) - 1], kinds, r[Len(r)]) /\ OfKind(r, kinds) = c[Len(r)]
    BY <1>5, <1>10 DEF KeepTurns
<1>. QED BY <1>9, <1>10, <1>11 DEF r

-----------------------------------------------------------------------------
\* The types of what trace.c keeps and of what the program did.
Origins == {"fetch", "other", "none"} \cup {NamedModes[k] : k \in 1 .. Len(NamedModes)}
LogAccesses ==
    [kind : {"memory", "register", "state"}, type : {"READ", "WRITE"}, place : Int, of : Origins]
FileNames == {"none", "stdout"} \cup STRING
LogLines == [access : LogAccesses, cycle : Int, at : Places, seq : BOOLEAN, file : FileNames]
Facts == [access : ProgramAccesses, cycle : Int, at : Places, sum : BOOLEAN]
Traces == [enabled : BOOLEAN, flags : SUBSET Flags, stack : Seq(Places), last_address : Int,
           file : FileNames, output : Seq(LogLines), endFirst : BOOLEAN]

\* An entry tells of an access what it should, as the options ask.
Tells(e, q, t) ==
    /\ e.access = q.access /\ e.cycle = q.cycle /\ e.file = t.file
    /\ "POSITION" \in t.flags => \/ e.at = q.at
                                 \/ q.sum /\ t.endFirst /\ e.at = Nowhere
PairsUp(L, Q, t) == Len(L) = Len(Q) /\ \A k \in 1 .. Len(L) : Tells(L[k], Q[k], t)

\* The marks of a sequence of cells, and the address that the next mark is about.
RightMarks(c) ==
    \A k \in 1 .. Len(c) :
        c[k].seq <=> c[k].access.place = 4 + (IF k = 1 THEN FirstAddress
                                              ELSE c[k - 1].access.place)
LastPlace(c) == IF c = <<>> THEN FirstAddress ELSE c[Len(c)].access.place

\* What holds of the trace and of what was performed while tracing is enabled.
Matched(t, P) == PairsUp(OfKind(t.output, Wanted(t.flags)), OfKind(P, Wanted(t.flags)), t)
Marked(t) == /\ RightMarks(OfKind(t.output, {"memory"}))
             /\ t.last_address = LastPlace(OfKind(t.output, {"memory"}))
Good(t, P) == t \in Traces /\ P \in Seq(Facts) /\ t.enabled = TRUE /\ Matched(t, P) /\ Marked(t)

\* What no access changes, and what the location that is shown may be.
Kept(u, t) == /\ u.stack = t.stack /\ u.flags = t.flags /\ u.file = t.file
              /\ u.enabled = t.enabled /\ u.endFirst = t.endFirst
Shows(t, at, sum) ==
    "POSITION" \in t.flags => \/ trace_print_location(t) = at
                              \/ sum /\ t.endFirst /\ trace_print_location(t) = Nowhere

(* One more entry and the access that it tells of.                         *)
LEMMA PairAppend ==
    ASSUME NEW A, NEW B, NEW L \in Seq(A), NEW Q \in Seq(B), NEW e \in A, NEW q \in B, NEW t,
           PairsUp(L, Q, t), Tells(e, q, t)
    PROVE  PairsUp(Append(L, e), Append(Q, q), t)
<1> DEFINE n == Len(L)
<1>1. /\ n \in Nat /\ Len(Append(L, e)) = n + 1 /\ Len(Append(Q, q)) = n + 1
      /\ Append(L, e)[n + 1] = e /\ Append(Q, q)[n + 1] = q
    BY DEF PairsUp
<1>2. \A k \in 1 .. n : Append(L, e)[k] = L[k] /\ Append(Q, q)[k] = Q[k]
    BY DEF PairsUp
<1>3. \A k \in 1 .. n : Tells(L[k], Q[k], t)
    BY DEF PairsUp
<1> HIDE DEF n
<1>4. ASSUME NEW k \in 1 .. n + 1 PROVE Tells(Append(L, e)[k], Append(Q, q)[k], t)
    <2>1. k \in 1 .. n \/ k = n + 1
        BY <1>1
    <2>. QED BY <1>1, <1>2, <1>3, <2>1
<1>. QED BY <1>1, <1>4 DEF PairsUp

(* One more cell, marked by the address of the last.                       *)
LEMMA MarkAppend ==
    ASSUME NEW A, NEW c \in Seq(A), NEW e \in A, RightMarks(c),
           e.seq <=> e.access.place = LastPlace(c) + 4, LastPlace(c) \in Int
    PROVE  RightMarks(Append(c, e)) /\ LastPlace(Append(c, e)) = e.access.place
<1> DEFINE n == Len(c)
           d == Append(c, e)
<1>1. n \in Nat /\ Len(d) = n + 1 /\ d[n + 1] = e /\ d # <<>> /\ (n = 0 <=> c = <<>>)
    OBVIOUS
<1>2. \A k \in 1 .. n : d[k] = c[k]
    OBVIOUS
<1>3. LastPlace(c) = IF n = 0 THEN FirstAddress ELSE c[n].access.place
    BY <1>1 DEF LastPlace
<1>4. \A k \in 1 .. n : c[k].seq <=> c[k].access.place = 4 + (IF k = 1 THEN FirstAddress
                                              ELSE c[k - 1].access.place)
    BY DEF RightMarks
<1> HIDE DEF n, d
<1>5. ASSUME NEW k \in 1 .. n + 1
      PROVE  d[k].seq <=> d[k].access.place = 4 + (IF k = 1 THEN FirstAddress
                                              ELSE d[k - 1].access.place)
    <2>1. CASE k \in 1 .. n
        <3>1. k # 1 => k - 1 \in 1 .. n
            BY <1>1, <2>1
        <3>2. k # 1 => d[k - 1] = c[k - 1]
            BY <1>2, <3>1
        <3>. QED BY <1>2, <1>4, <2>1, <3>2
    <2>2. CASE k = n + 1
        <3>1. k - 1 = n /\ (k = 1 <=> n = 0) /\ (n # 0 => n \in 1 .. n)
            BY <1>1, <2>2
        <3>2. n # 0 => d[n] = c[n]
            BY <1>2, <3>1
        <3>3. LastPlace(c) = IF k = 1 THEN FirstAddress ELSE d[k - 1].access.place
            BY <1>3, <3>1, <3>2
        <3>4. LastPlace(c) + 4 = 4 + LastPlace(c)
            OBVIOUS
        <3>. QED BY <1>1, <2>2, <3>3, <3>4
    <2>. QED BY <1>1, <2>1, <2>2
<1>6. LastPlace(d) = e.access.place
    BY <1>1 DEF LastPlace
<1>. QED BY <1>1, <1>5, <1>6 DEF RightMarks, d

(* A line that is written.                                                 *)
LEMMA FprintfType ==
    ASSUME NEW t \in Traces, NEW cycle \in Int, NEW a \in LogAccesses, NEW at \in Places,
           NEW seq \in BOOLEAN
    PROVE  /\ Fprintf(t, cycle, a, at, seq) \in Traces
           /\ Kept(Fprintf(t, cycle, a, at, seq), t)
           /\ Fprintf(t, cycle, a, at, seq).last_address = t.last_address
           /\ Fprintf(t, cycle, a, at, seq).output
                  = Append(t.output, [access |-> a, cycle |-> cycle, at |-> at,
                                      seq |-> seq, file |-> t.file])
           /\ [access |-> a, cycle |-> cycle, at |-> at, seq |-> seq, file |-> t.file] \in LogLines
<1> DEFINE e == [access |-> a, cycle |-> cycle, at |-> at, seq |-> seq, file |-> t.file]
<1>1. e \in LogLines
    BY DEF Traces, LogLines
<1>2. t.output \in Seq(LogLines)
    BY DEF Traces
<1> HIDE DEF e
<1>3. Append(t.output, e) \in Seq(LogLines)
    BY <1>1, <1>2
<1>4. Fprintf(t, cycle, a, at, seq) = [t EXCEPT !.output = Append(t.output, e)]
    BY DEF Fprintf, e
<1>5. [t EXCEPT !.output = Append(t.output, e)] \in Traces
    BY <1>3 DEF Traces
<1>6. Kept(Fprintf(t, cycle, a, at, seq), t)
    BY <1>4 DEF Kept, Traces
<1>7. /\ Fprintf(t, cycle, a, at, seq).last_address = t.last_address
      /\ Fprintf(t, cycle, a, at, seq).output = Append(t.output, e)
    BY <1>4 DEF Traces
<1>. QED BY <1>1, <1>4, <1>5, <1>6, <1>7 DEF e

(* The location that is shown is one.                                      *)
LEMMA LocationType == ASSUME NEW t \in Traces PROVE trace_print_location(t) \in Places
<1>1. Nowhere \in Places
    BY DEF Nowhere, Places
<1>2. t.stack \in Seq(Places)
    BY DEF Traces
<1>3. t.stack # <<>> => Last(t.stack) \in Places
    BY <1>2 DEF Last
<1>. QED BY <1>1, <1>3 DEF trace_print_location

\* What one access writes, if it writes something.
Written(t, u, cycle, a) ==
    LET e == [access |-> a, cycle |-> cycle, at |-> trace_print_location(t),
              seq |-> a.kind = "memory" /\ a.place = t.last_address + 4, file |-> t.file]
    IN  /\ u \in Traces /\ Kept(u, t) /\ e \in LogLines
        /\ u.output = Append(t.output, e)
        /\ u.last_address = IF a.kind = "memory" THEN a.place ELSE t.last_address

(* An access is written when its kind is traced, and nothing happens       *)
(* otherwise.                                                              *)
LEMMA TracedWrites ==
    ASSUME NEW t \in Traces, t.enabled = TRUE, NEW cycle \in Int, NEW a \in ProgramAccesses
    PROVE  IF (a.kind = "memory" /\ "MEMORY" \in t.flags)
              \/ (a.kind = "register" /\ "REGISTERS" \in t.flags)
           THEN Written(t, Traced(t, cycle, a), cycle, a)
           ELSE Traced(t, cycle, a) = t
<1> DEFINE at == trace_print_location(t)
           isNext == a.place = t.last_address + 4
<1>1. at \in Places /\ isNext \in BOOLEAN /\ a \in LogAccesses
    BY LocationType DEF ProgramAccesses, LogAccesses, Origins
<1>2. a.kind = "memory" \/ a.kind = "register"
    BY DEF ProgramAccesses
<1>3. CASE a.kind = "memory"
    <2> DEFINE u == Fprintf(t, cycle, a, at, isNext)
    <2>1. /\ u \in Traces /\ Kept(u, t)
          /\ u.output = Append(t.output, [access |-> a, cycle |-> cycle, at |-> at,
                                          seq |-> isNext, file |-> t.file])
          /\ [access |-> a, cycle |-> cycle, at |-> at, seq |-> isNext, file |-> t.file]
                 \in LogLines
        BY <1>1, FprintfType
    <2>2. "MEMORY" \in t.flags => Traced(t, cycle, a) = [u EXCEPT !.last_address = a.place]
        BY <1>3 DEF Traced, trace_memory
    <2>3. "MEMORY" \notin t.flags => Traced(t, cycle, a) = t
        BY <1>3 DEF Traced, trace_memory
    <2>4. a.place \in Int
        BY DEF ProgramAccesses
    <2> HIDE DEF u
    <2>5. /\ [u EXCEPT !.last_address = a.place] \in Traces
          /\ [u EXCEPT !.last_address = a.place].last_address = a.place
          /\ [u EXCEPT !.last_address = a.place].output = u.output
        BY <2>1, <2>4 DEF Traces
    <2>6. Kept([u EXCEPT !.last_address = a.place], t)
        BY <2>1 DEF Traces, Kept
    <2>7. (a.kind = "memory" /\ a.place = t.last_address + 4) = isNext
        BY <1>3
    <2>8. Written(t, [u EXCEPT !.last_address = a.place], cycle, a)
        BY <1>3, <2>1, <2>5, <2>6, <2>7 DEF Written
    <2>. QED BY <1>3, <2>2, <2>3, <2>8
<1>4. CASE a.kind = "register"
    <2> DEFINE u == Fprintf(t, cycle, a, at, FALSE)
    <2>1. /\ u \in Traces /\ Kept(u, t) /\ u.last_address = t.last_address
          /\ u.output = Append(t.output, [access |-> a, cycle |-> cycle, at |-> at,
                                          seq |-> FALSE, file |-> t.file])
          /\ [access |-> a, cycle |-> cycle, at |-> at, seq |-> FALSE, file |-> t.file]
                 \in LogLines
        BY <1>1, FprintfType
    <2>2. "REGISTERS" \in t.flags => Traced(t, cycle, a) = u
        BY <1>4 DEF Traced, trace_register
    <2>3. "REGISTERS" \notin t.flags => Traced(t, cycle, a) = t
        BY <1>4 DEF Traced, trace_register
    <2> HIDE DEF u
    <2>4. (a.kind = "memory" /\ a.place = t.last_address + 4) = FALSE
        BY <1>4
    <2>5. Written(t, u, cycle, a)
        BY <1>4, <2>1, <2>4 DEF Written
    <2>. QED BY <1>4, <2>2, <2>3, <2>5
<1>. QED BY <1>2, <1>3, <1>4

(* What is matched depends on the options and on the file only.            *)
LEMMA KeptPairs ==
    ASSUME NEW L, NEW Q, NEW t, NEW u, Kept(u, t), PairsUp(L, Q, t)
    PROVE  PairsUp(L, Q, u)
BY DEF Kept, PairsUp, Tells

(* An access of the program, traced, keeps the log in step with what was   *)
(* performed.                                                              *)
LEMMA TracedGood ==
    ASSUME NEW t, NEW P, Good(t, P), NEW cycle \in Int, NEW at \in Places, NEW sum \in BOOLEAN,
           Shows(t, at, sum), NEW a \in ProgramAccesses
    PROVE  /\ Good(Traced(t, cycle, a), Append(P, Fact(cycle, at, sum, a)))
           /\ Kept(Traced(t, cycle, a), t)
<1> DEFINE u == Traced(t, cycle, a)
           q == Fact(cycle, at, sum, a)
           W == Wanted(t.flags)
           L == OfKind(t.output, W)
           R == OfKind(P, W)
           C == OfKind(t.output, {"memory"})
           e == [access |-> a, cycle |-> cycle, at |-> trace_print_location(t),
                 seq |-> a.kind = "memory" /\ a.place = t.last_address + 4, file |-> t.file]
<1>1. /\ t \in Traces /\ P \in Seq(Facts) /\ t.enabled = TRUE /\ t.output \in Seq(LogLines)
      /\ t.last_address \in Int
    BY DEF Good, Traces
<1>2. q \in Facts
    BY DEF Facts, Fact
<1>3. Append(P, q) \in Seq(Facts)
    BY <1>1, <1>2
<1>4. L \in Seq(LogLines) /\ R \in Seq(Facts) /\ C \in Seq(LogLines)
    BY <1>1, OfKindType
<1>5. PairsUp(L, R, t) /\ RightMarks(C) /\ t.last_address = LastPlace(C)
    BY DEF Good, Matched, Marked
<1>6. OfKind(Append(P, q), W) = Keep(R, W, q)
    BY <1>1, <1>2, OfKindAppend
<1>7. q.access = a
    BY DEF Fact
<1>8. CASE u = t /\ a.kind \notin W
    <2>1. OfKind(Append(P, q), W) = R
        BY <1>6, <1>7, <1>8 DEF Keep
    <2>2. Matched(u, Append(P, q))
        BY <1>5, <1>8, <2>1 DEF Matched
    <2>. QED BY <1>1, <1>3, <1>8, <2>2 DEF Good, Kept
<1>9. CASE Written(t, u, cycle, a)
    <2>1. /\ u \in Traces /\ Kept(u, t) /\ e \in LogLines /\ u.output = Append(t.output, e)
          /\ u.last_address = IF a.kind = "memory" THEN a.place ELSE t.last_address
        BY <1>9 DEF Written
    <2>2. OfKind(u.output, W) = Keep(L, W, e)
        BY <1>1, <2>1, OfKindAppend
    <2>3. OfKind(u.output, {"memory"}) = Keep(C, {"memory"}, e)
        BY <1>1, <2>1, OfKindAppend
    <2>4. Tells(e, q, t)
        BY DEF Tells, Fact, Shows
    <2>5. PairsUp(Append(L, e), Append(R, q), t)
        <3> HIDE DEF L, R, e, q
        <3>. QED BY <1>2, <1>4, <1>5, <2>1, <2>4, PairAppend
    <2>6. e.access = a
        OBVIOUS
    <2>7. PairsUp(Keep(L, W, e), Keep(R, W, q), t)
        <3> HIDE DEF L, R, e, q
        <3>. QED BY <1>5, <1>7, <2>5, <2>6 DEF Keep
    <2>8. u.flags = t.flags /\ u.enabled = TRUE
        BY <1>1, <2>1 DEF Kept
    <2>9. Matched(u, Append(P, q))
        <3>1. PairsUp(Keep(L, W, e), Keep(R, W, q), u)
            <4> HIDE DEF L, R, e, q
            <4>. QED BY <2>1, <2>7, KeptPairs
        <3>. QED BY <3>1, <2>2, <2>8, <1>6 DEF Matched
    <2>10. Marked(u)
        <3>1. CASE a.kind = "memory"
            <4>1. e.seq <=> e.access.place = LastPlace(C) + 4
                BY <1>5, <3>1
            <4>2. LastPlace(C) \in Int
                BY <1>1, <1>5
            <4>3. Keep(C, {"memory"}, e) = Append(C, e)
                BY <3>1 DEF Keep
            <4>4. RightMarks(Append(C, e)) /\ LastPlace(Append(C, e)) = e.access.place
                <5> HIDE DEF C, e
                <5>. QED BY <1>4, <1>5, <2>1, <4>1, <4>2, MarkAppend
            <4>. QED BY <2>1, <2>3, <3>1, <4>3, <4>4 DEF Marked
        <3>2. CASE a.kind # "memory"
            <4>1. Keep(C, {"memory"}, e) = C
                BY <3>2 DEF Keep
            <4>. QED BY <2>1, <2>3, <3>2, <4>1, <1>5 DEF Marked
        <3>. QED BY <3>1, <3>2
    <2>. QED BY <1>3, <2>1, <2>8, <2>9, <2>10 DEF Good
<1>10. (u = t /\ a.kind \notin W) \/ Written(t, u, cycle, a)
    <2>1. a.kind = "memory" \/ a.kind = "register"
        BY DEF ProgramAccesses
    <2>2. a.kind \in W => \/ a.kind = "memory" /\ "MEMORY" \in t.flags
                          \/ a.kind = "register" /\ "REGISTERS" \in t.flags
        BY <2>1 DEF Wanted
    <2>. QED BY <1>1, <2>2, TracedWrites
<1>. QED BY <1>8, <1>9, <1>10

(* The accesses of a call, traced one after the other, are those that are  *)
(* noted.                                                                  *)
LEMMA AccessesGood ==
    ASSUME NEW t, NEW P, Good(t, P), NEW cycle \in Int, NEW at \in Places, NEW sum \in BOOLEAN,
           Shows(t, at, sum), NEW acc \in Seq(ProgramAccesses)
    PROVE  /\ Good(Accesses(t, cycle, acc), Note(P, cycle, at, sum, acc))
           /\ Kept(Accesses(t, cycle, acc), t)
<1> DEFINE n == Len(acc)
           Enabled == {s \in Traces : s.enabled = TRUE}
<1>1. n \in Nat /\ \A k \in 1 .. n : acc[k] \in ProgramAccesses
    OBVIOUS
<1>2. t \in Enabled /\ P \in Seq(Facts)
    BY DEF Good
<1>3. PICK b : AccessTurns(b, t, cycle, acc)
    <2>1. ASSUME NEW s \in Enabled, NEW k \in 1 .. n PROVE Traced(s, cycle, acc[k]) \in Enabled
        <3>1. Written(s, Traced(s, cycle, acc[k]), cycle, acc[k]) \/ Traced(s, cycle, acc[k]) = s
            BY <1>1, TracedWrites
        <3>. QED BY <3>1 DEF Written, Kept
    <2> HIDE DEF Enabled
    <2>. QED BY <1>1, <1>2, <2>1, AccessesLoop
<1>4. PICK c : NoteTurns(c, P, cycle, at, sum, acc)
    <2>1. ASSUME NEW Q \in Seq(Facts), NEW k \in 1 .. n
          PROVE  Append(Q, Fact(cycle, at, sum, acc[k])) \in Seq(Facts)
        <3>1. Fact(cycle, at, sum, acc[k]) \in Facts
            BY <1>1 DEF Fact, Facts
        <3>. QED BY <3>1
    <2>. QED BY <1>1, <1>2, <2>1, NoteLoop
<1> DEFINE T == {k \in 0 .. n : Good(b[k], c[k]) /\ Kept(b[k], t)}
<1>5. 0 \in T
    BY <1>1, <1>3, <1>4 DEF AccessTurns, NoteTurns, Kept
<1>6. ASSUME NEW k \in 0 .. n - 1, k \in T PROVE k + 1 \in T
    <2>1. k + 1 \in 1 .. n /\ k + 1 \in 0 .. n /\ (k + 1) - 1 = k
        BY <1>1
    <2>2. Good(b[k], c[k]) /\ Kept(b[k], t)
        BY <1>6
    <2>3. b[k + 1] = Traced(b[k], cycle, acc[k + 1])
        BY <1>3, <2>1 DEF AccessTurns
    <2>4. c[k + 1] = Append(c[k], Fact(cycle, at, sum, acc[k + 1]))
        BY <1>4, <2>1 DEF NoteTurns
    <2>5. Shows(b[k], at, sum)
        BY <2>2 DEF Shows, Kept, trace_print_location
    <2>6. acc[k + 1] \in ProgramAccesses
        BY <1>1, <2>1
    <2>7. Good(b[k + 1], c[k + 1]) /\ Kept(b[k + 1], b[k])
        BY <2>2, <2>3, <2>4, <2>5, <2>6, TracedGood
    <2>8. Kept(b[k + 1], t)
        BY <2>2, <2>7 DEF Kept
    <2>. QED BY <2>1, <2>7, <2>8
<1>7. n \in T
    <2>1. 0 .. n \subseteq T
        <3> HIDE DEF T
        <3>. QED BY <1>1, <1>5, <1>6, BoundedInduction
    <2>. QED BY <1>1, <2>1
<1>. QED BY <1>3, <1>4, <1>7 DEF AccessTurns, NoteTurns

(* A location that is pushed or popped leaves the log alone.               *)
LEMMA StackGood ==
    ASSUME NEW t, NEW P, Good(t, P), NEW stack \in Seq(Places)
    PROVE  Good([t EXCEPT !.stack = stack], P)
<1> DEFINE u == [t EXCEPT !.stack = stack]
<1>1. t \in Traces
    BY DEF Good
<1>2. u \in Traces /\ u.output = t.output /\ u.flags = t.flags /\ u.last_address = t.last_address
      /\ u.file = t.file /\ u.endFirst = t.endFirst /\ u.enabled = t.enabled
    BY <1>1 DEF Traces
<1> HIDE DEF u
<1>3. Matched(u, P)
    BY <1>2 DEF Good, Matched, PairsUp, Tells
<1>4. Marked(u)
    BY <1>2 DEF Good, Marked
<1>. QED BY <1>2, <1>3, <1>4 DEF Good, u

\* A trace that differs in its stack only.
Stacked(u, t, stack) == /\ u.stack = stack /\ u.flags = t.flags /\ u.file = t.file
                        /\ u.enabled = t.enabled /\ u.endFirst = t.endFirst

(* LOCATION pushes.                                                        *)
LEMMA StartGood ==
    ASSUME NEW t, NEW P, Good(t, P), NEW at \in Places
    PROVE  /\ Good(trace_start_location(t, at), P)
           /\ Stacked(trace_start_location(t, at), t, Append(t.stack, at))
<1>1. t \in Traces /\ t.enabled = TRUE /\ t.stack \in Seq(Places)
    BY DEF Good, Traces
<1>2. Append(t.stack, at) \in Seq(Places)
    BY <1>1
<1>3. trace_start_location(t, at) = [t EXCEPT !.stack = Append(t.stack, at)]
    BY <1>1 DEF trace_start_location
<1>4. Good([t EXCEPT !.stack = Append(t.stack, at)], P)
    BY <1>2, StackGood
<1>5. Stacked([t EXCEPT !.stack = Append(t.stack, at)], t, Append(t.stack, at))
    BY <1>1 DEF Stacked, Traces
<1>. QED BY <1>3, <1>4, <1>5

(* END_LOCATION pops what LOCATION pushed.                                 *)
LEMMA EndGood ==
    ASSUME NEW t, NEW P, Good(t, P), NEW below \in Seq(Places), NEW at \in Places,
           t.stack = Append(below, at)
    PROVE  Good(trace_end_location(t), P) /\ Stacked(trace_end_location(t), t, below)
<1>1. t \in Traces /\ t.enabled = TRUE
    BY DEF Good
<1>2. Front(t.stack) = below
    BY DEF Front
<1>3. trace_end_location(t) = [t EXCEPT !.stack = below]
    BY <1>1, <1>2 DEF trace_end_location
<1>4. Good([t EXCEPT !.stack = below], P)
    BY StackGood
<1>5. Stacked([t EXCEPT !.stack = below], t, below)
    BY <1>1 DEF Stacked, Traces
<1>. QED BY <1>3, <1>4, <1>5

(* A call without another among its arguments, made outside of any call or *)
(* inside one of the same line.                                            *)
LEMMA AloneGood ==
    ASSUME NEW t, NEW P, Good(t, P), NEW cycle \in Int, NEW at \in Places, NEW sum \in BOOLEAN,
           NEW acc \in Seq(ProgramAccesses), t.stack = <<>> \/ t.stack = <<at>>
    PROVE  /\ Good(PerformAlone(t, cycle, at, sum, acc), Note(P, cycle, at, sum, acc))
           /\ Kept(PerformAlone(t, cycle, at, sum, acc), t)
<1> DEFINE s == trace_start_location(t, at)
<1>1. t.stack \in Seq(Places) /\ Append(t.stack, at) \in Seq(Places)
    BY DEF Good, Traces
<1>2. Good(s, P) /\ Stacked(s, t, Append(t.stack, at))
    BY StartGood
<1> HIDE DEF s
<1>3. CASE sum /\ t.endFirst
    <2> DEFINE u == trace_end_location(s)
    <2>1. Good(u, P) /\ Stacked(u, s, t.stack)
        BY <1>1, <1>2, EndGood DEF Stacked
    <2> HIDE DEF u
    <2>2. Kept(u, t)
        BY <1>2, <2>1 DEF Stacked, Kept
    <2>3. Shows(u, at, sum)
        <3>1. CASE t.stack = <<>>
            BY <1>3, <2>2, <3>1 DEF Shows, Kept, trace_print_location
        <3>2. CASE t.stack = <<at>>
            <4>1. Last(t.stack) = at /\ t.stack # <<>>
                BY <3>2 DEF Last
            <4>. QED BY <4>1, <2>2 DEF Shows, Kept, trace_print_location
        <3>. QED BY <3>1, <3>2
    <2>4. /\ Good(Accesses(u, cycle, acc), Note(P, cycle, at, sum, acc))
          /\ Kept(Accesses(u, cycle, acc), u)
        BY <2>1, <2>3, AccessesGood
    <2>5. PerformAlone(t, cycle, at, sum, acc) = Accesses(u, cycle, acc)
        BY <1>3 DEF PerformAlone, s, u
    <2>. QED BY <2>2, <2>4, <2>5 DEF Kept
<1>4. CASE ~ (sum /\ t.endFirst)
    <2> DEFINE u == Accesses(s, cycle, acc)
    <2>1. Shows(s, at, sum)
        <3>1. s.stack = Append(t.stack, at)
            BY <1>2 DEF Stacked
        <3>2. Last(s.stack) = at /\ s.stack # <<>>
            BY <1>1, <3>1 DEF Last
        <3>. QED BY <3>2 DEF Shows, trace_print_location
    <2>2. Good(u, Note(P, cycle, at, sum, acc)) /\ Kept(u, s)
        BY <1>2, <2>1, AccessesGood
    <2> HIDE DEF u
    <2>3. u.stack = Append(t.stack, at)
        BY <1>2, <2>2 DEF Kept, Stacked
    <2>4. /\ Good(trace_end_location(u), Note(P, cycle, at, sum, acc))
          /\ Stacked(trace_end_location(u), u, t.stack)
        BY <1>1, <2>2, <2>3, EndGood
    <2>5. PerformAlone(t, cycle, at, sum, acc) = trace_end_location(u)
        BY <1>4 DEF PerformAlone, s, u
    <2>6. Kept(trace_end_location(u), t)
        BY <1>2, <2>2, <2>4 DEF Kept, Stacked
    <2>. QED BY <2>4, <2>5, <2>6
<1>. QED BY <1>3, <1>4

(* The fields of a call.                                                   *)
LEMMA CallType ==
    ASSUME NEW c \in Calls
    PROVE  /\ c.at \in Places /\ c.sum \in BOOLEAN /\ c.inner \in Seq(ProgramAccesses)
           /\ c.accesses \in Seq(ProgramAccesses) /\ (c.sum => c.inner = <<>>)
BY DEF Calls

(* Noting no access notes nothing.                                         *)
LEMMA NoteNothing ==
    ASSUME NEW P, NEW cycle, NEW at, NEW sum
    PROVE  Note(P, cycle, at, sum, <<>>) = P
<1>1. Len(<<>>) = 0
    OBVIOUS
<1>2. \A s \in {P} : \A k \in 1 .. Len(<<>>) : Append(s, Fact(cycle, at, sum, <<>>[k])) \in {P}
    BY <1>1
<1>3. P \in {P} /\ Len(<<>>) \in Nat
    BY <1>1
<1>4. PICK b : NoteTurns(b, P, cycle, at, sum, <<>>)
    BY <1>2, <1>3, NoteLoop
<1>. QED BY <1>1, <1>4 DEF NoteTurns

(* What is noted are facts.                                                *)
LEMMA NoteType ==
    ASSUME NEW P \in Seq(Facts), NEW cycle \in Int, NEW at \in Places, NEW sum \in BOOLEAN,
           NEW acc \in Seq(ProgramAccesses)
    PROVE  Note(P, cycle, at, sum, acc) \in Seq(Facts)
<1>1. ASSUME NEW Q \in Seq(Facts), NEW k \in 1 .. Len(acc)
      PROVE  Append(Q, Fact(cycle, at, sum, acc[k])) \in Seq(Facts)
    <2>1. Fact(cycle, at, sum, acc[k]) \in Facts
        BY DEF Fact, Facts
    <2>. QED BY <2>1
<1>2. Len(acc) \in Nat
    OBVIOUS
<1>3. PICK b : /\ NoteTurns(b, P, cycle, at, sum, acc)
               /\ \A k \in 0 .. Len(acc) : b[k] \in Seq(Facts)
    BY <1>1, <1>2, NoteLoop
<1>. QED BY <1>2, <1>3 DEF NoteTurns

(* What is noted of a call are facts.                                      *)
LEMMA NoteCallType ==
    ASSUME NEW P \in Seq(Facts), NEW cycle \in Int, NEW c \in Calls
    PROVE  NoteCall(P, cycle, c) \in Seq(Facts)
<1>1. Note(P, cycle, c.at, TRUE, c.inner) \in Seq(Facts)
    BY CallType, NoteType
<1>. QED BY <1>1, CallType, NoteType DEF NoteCall

(* A call, with the read among its arguments.                              *)
LEMMA PerformGood ==
    ASSUME NEW t, NEW P, Good(t, P), t.stack = <<>>, NEW cycle \in Int, NEW c \in Calls
    PROVE  Good(Perform(t, cycle, c), NoteCall(P, cycle, c)) /\ Kept(Perform(t, cycle, c), t)
<1>0. /\ c.at \in Places /\ c.sum \in BOOLEAN /\ c.inner \in Seq(ProgramAccesses)
      /\ c.accesses \in Seq(ProgramAccesses) /\ (c.sum => c.inner = <<>>)
    BY CallType
<1> DEFINE at == c.at
           Q == Note(P, cycle, at, TRUE, c.inner)
<1>1. CASE c.inner = <<>>
    <2>1. NoteCall(P, cycle, c) = Note(P, cycle, at, c.sum, c.accesses)
        BY <1>1, NoteNothing DEF NoteCall
    <2>2. Perform(t, cycle, c) = PerformAlone(t, cycle, at, c.sum, c.accesses)
        BY <1>1 DEF Perform
    <2>. QED BY <1>0, <2>1, <2>2, AloneGood
<1>2. CASE c.inner # <<>>
    <2> DEFINE s == trace_start_location(t, at)
               r == PerformAlone(s, cycle, at, TRUE, c.inner)
               u == Accesses(r, cycle, c.accesses)
    <2>1. Good(s, P) /\ Stacked(s, t, Append(t.stack, at))
        BY <1>0, StartGood
    <2>2. s.stack = <<at>>
        BY <2>1 DEF Stacked
    <2>3. Good(r, Q) /\ Kept(r, s)
        <3> HIDE DEF s
        <3>. QED BY <1>0, <2>1, <2>2, AloneGood
    <2>4. Shows(r, at, c.sum)
        <3>1. r.stack = <<at>>
            BY <2>2, <2>3 DEF Kept
        <3> HIDE DEF r, at
        <3>2. Last(r.stack) = at /\ r.stack # <<>>
            BY <3>1 DEF Last
        <3>. QED BY <3>2 DEF Shows, trace_print_location
    <2>5. Good(u, Note(Q, cycle, at, c.sum, c.accesses)) /\ Kept(u, r)
        <3> HIDE DEF r, Q
        <3>. QED BY <1>0, <2>3, <2>4, AccessesGood
    <2>6. u.stack = Append(<<>>, at) /\ <<>> \in Seq(Places)
        <3> HIDE DEF u, r, s, at
        <3>1. u.stack = <<at>>
            BY <2>2, <2>3, <2>5 DEF Kept
        <3>. QED BY <3>1
    <2>7. /\ Good(trace_end_location(u), Note(Q, cycle, at, c.sum, c.accesses))
          /\ Stacked(trace_end_location(u), u, <<>>)
        <3> HIDE DEF u, Q
        <3>. QED BY <1>0, <2>5, <2>6, EndGood
    <2>8. Perform(t, cycle, c) = trace_end_location(u)
        BY <1>2 DEF Perform
    <2>9. NoteCall(P, cycle, c) = Note(Q, cycle, at, c.sum, c.accesses)
        BY DEF NoteCall
    <2> HIDE DEF u, Q, r, s
    <2>10. Kept(trace_end_location(u), t)
        BY <2>1, <2>3, <2>5, <2>7 DEF Kept, Stacked
    <2>. QED BY <2>7, <2>8, <2>9, <2>10
<1>. QED BY <1>1, <1>2

(* An instruction.                                                         *)
LEMMA PerformAllGood ==
    ASSUME NEW t, NEW P, Good(t, P), t.stack = <<>>, NEW cycle \in Int, NEW calls \in Seq(Calls)
    PROVE  /\ Good(PerformAll(t, cycle, calls), NoteAll(P, cycle, calls))
           /\ Kept(PerformAll(t, cycle, calls), t)
<1> DEFINE n == Len(calls)
           Pairs == {s \in Traces : s.stack = <<>> /\ \E Q : Good(s, Q)}
<1>1. n \in Nat /\ \A k \in 1 .. n : calls[k] \in Calls
    OBVIOUS
<1>2. t \in Pairs /\ P \in Seq(Facts)
    BY DEF Good
<1>3. PICK b : CallTurns(b, t, cycle, calls)
    <2>1. ASSUME NEW s \in Pairs, NEW k \in 1 .. n PROVE Perform(s, cycle, calls[k]) \in Pairs
        <3>1. PICK Q : Good(s, Q)
            OBVIOUS
        <3>2. /\ Good(Perform(s, cycle, calls[k]), NoteCall(Q, cycle, calls[k]))
              /\ Kept(Perform(s, cycle, calls[k]), s)
            BY <1>1, <3>1, PerformGood
        <3>. QED BY <3>2 DEF Good, Kept
    <2> HIDE DEF Pairs
    <2>. QED BY <1>1, <1>2, <2>1, CallsLoop
<1>4. PICK c : NoteAllTurns(c, P, cycle, calls)
    <2>1. ASSUME NEW Q \in Seq(Facts), NEW k \in 1 .. n
          PROVE  NoteCall(Q, cycle, calls[k]) \in Seq(Facts)
        BY <1>1, NoteCallType
    <2>. QED BY <1>1, <1>2, <2>1, NoteAllLoop
<1> DEFINE T == {k \in 0 .. n : Good(b[k], c[k]) /\ Kept(b[k], t)}
<1>5. 0 \in T
    BY <1>1, <1>3, <1>4 DEF CallTurns, NoteAllTurns, Kept
<1>6. ASSUME NEW k \in 0 .. n - 1, k \in T PROVE k + 1 \in T
    <2>1. k + 1 \in 1 .. n /\ k + 1 \in 0 .. n /\ (k + 1) - 1 = k
        BY <1>1
    <2>2. Good(b[k], c[k]) /\ Kept(b[k], t) /\ b[k].stack = <<>>
        BY <1>6 DEF Kept
    <2>3. b[k + 1] = Perform(b[k], cycle, calls[k + 1])
        BY <1>3, <2>1 DEF CallTurns
    <2>4. c[k + 1] = NoteCall(c[k], cycle, calls[k + 1])
        BY <1>4, <2>1 DEF NoteAllTurns
    <2>5. calls[k + 1] \in Calls
        BY <1>1, <2>1
    <2>6. Good(b[k + 1], c[k + 1]) /\ Kept(b[k + 1], b[k])
        BY <2>2, <2>3, <2>4, <2>5, PerformGood
    <2>7. Kept(b[k + 1], t)
        BY <2>2, <2>6 DEF Kept
    <2>. QED BY <2>1, <2>6, <2>7
<1>7. n \in T
    <2>1. 0 .. n \subseteq T
        <3> HIDE DEF T
        <3>. QED BY <1>1, <1>5, <1>6, BoundedInduction
    <2>. QED BY <1>1, <2>1
<1>. QED BY <1>3, <1>4, <1>7 DEF CallTurns, NoteAllTurns

-----------------------------------------------------------------------------
(* While tracing is disabled an access writes nothing.                     *)
LEMMA DisabledAccesses ==
    ASSUME NEW t, t.enabled = FALSE, NEW cycle, NEW A, NEW acc \in Seq(A)
    PROVE  Accesses(t, cycle, acc) = t
<1>1. \A s \in {t} : \A k \in 1 .. Len(acc) : Traced(s, cycle, acc[k]) \in {t}
    BY DEF Traced, trace_memory, trace_register
<1>2. t \in {t} /\ Len(acc) \in Nat
    OBVIOUS
<1>3. PICK b : AccessTurns(b, t, cycle, acc) /\ \A k \in 0 .. Len(acc) : b[k] \in {t}
    BY <1>1, <1>2, AccessesLoop
<1>. QED BY <1>2, <1>3 DEF AccessTurns

(* Nor does a call, and it leaves the stack of locations alone.            *)
LEMMA DisabledPerform ==
    ASSUME NEW t, t.enabled = FALSE, NEW cycle, NEW c \in Calls
    PROVE  Perform(t, cycle, c) = t
<1>1. c.inner \in Seq(ProgramAccesses) /\ c.accesses \in Seq(ProgramAccesses)
    BY CallType
<1>2. trace_start_location(t, c.at) = t /\ trace_end_location(t) = t
    BY DEF trace_start_location, trace_end_location
<1>3. Accesses(t, cycle, c.inner) = t /\ Accesses(t, cycle, c.accesses) = t
    BY <1>1, DisabledAccesses
<1>4. PerformAlone(t, cycle, c.at, TRUE, c.inner) = t
    BY <1>2, <1>3 DEF PerformAlone
<1>5. PerformAlone(t, cycle, c.at, c.sum, c.accesses) = t
    BY <1>2, <1>3 DEF PerformAlone
<1>. QED BY <1>2, <1>3, <1>4, <1>5 DEF Perform

(* Nor do the calls of an instruction or of a packet.                      *)
LEMMA DisabledPerformAll ==
    ASSUME NEW t, t.enabled = FALSE, NEW cycle, NEW calls \in Seq(Calls)
    PROVE  PerformAll(t, cycle, calls) = t
<1>1. ASSUME NEW s \in {t}, NEW k \in 1 .. Len(calls) PROVE Perform(s, cycle, calls[k]) \in {t}
    <2>1. calls[k] \in Calls /\ s = t
        OBVIOUS
    <2>2. Perform(t, cycle, calls[k]) = t
        BY <2>1, DisabledPerform
    <2>. QED BY <2>1, <2>2
<1>2. t \in {t} /\ Len(calls) \in Nat
    OBVIOUS
<1>3. PICK b : CallTurns(b, t, cycle, calls) /\ \A k \in 0 .. Len(calls) : b[k] \in {t}
    BY <1>1, <1>2, CallsLoop
<1>. QED BY <1>2, <1>3 DEF CallTurns

(* What the debugger accesses between trace_disable and trace_enable is not *)
(* in the trace, nor does it leave anything else behind.                   *)
LEMMA UntracedSame ==
    ASSUME NEW t \in Traces, t.enabled = TRUE, NEW calls \in Seq(Calls)
    PROVE  Untraced(t, calls) = t
<1> DEFINE d == trace_disable(t)
<1>1. d = [t EXCEPT !.enabled = FALSE] /\ d.enabled = FALSE
    BY DEF trace_disable, Traces
<1>2. PerformAll(d, cycle_count, calls) = d
    <2> HIDE DEF d
    <2>. QED BY <1>1, DisabledPerformAll
<1>3. [d EXCEPT !.enabled = TRUE] = t
    BY <1>1 DEF Traces
<1>. QED BY <1>2, <1>3 DEF Untraced, trace_enable

-----------------------------------------------------------------------------
(* The reads of arm_print_state are accesses to registers.                 *)
LEMMA DumpedType ==
    /\ Len(Dumped) \in Nat
    /\ \A k \in 1 .. Len(Dumped) : Dumped[k] \in ProgramAccesses /\ Dumped[k].kind = "register"
<1> DEFINE R == Len(DumpRegisters)
           n == Len(NamedModes) * R + 1
           d(k) == IF k <= R THEN Register("READ", DumpRegisters[k], "USR")
                   ELSE IF k = R + 1 THEN Register("READ", CPSR, "none")
                   ELSE Register("READ", DumpRegisters[1 + ((k - R - 2) % R)], "SYS")
<1>1. DumpRegisters \in Seq(Nat) /\ R \in Nat /\ \A k \in 1 .. R : DumpRegisters[k] \in Nat
    BY LoggingAssumption DEF LoggingAssumption
<1>2. /\ Len(NamedModes) = 7 /\ NamedModes[1] = "USR" /\ NamedModes[7] = "SYS"
    BY DEF NamedModes
<1>3. /\ "none" \in Origins /\ "USR" \in Origins /\ "SYS" \in Origins
    BY <1>2 DEF Origins
<1>4. ASSUME NEW r \in Nat, NEW m \in Origins
      PROVE  Register("READ", r, m) \in ProgramAccesses /\ Register("READ", r, m).kind = "register"
    BY DEF Register, ProgramAccesses, Origins
<1>5. ASSUME NEW k \in 1 .. n PROVE d(k) \in ProgramAccesses /\ d(k).kind = "register"
    <2>1. CASE k <= R
        BY <1>1, <1>3, <1>4, <2>1
    <2>2. CASE k = R + 1
        BY <1>1, <1>3, <1>4, <2>2 DEF CPSR
    <2>3. CASE k > R + 1
        <3>1. R # 0
            BY <1>1, <1>2, <2>3
        <3>2. k - R - 2 \in Nat /\ R \in Nat /\ R > 0
            BY <1>1, <2>3, <3>1
        <3>3. 1 + ((k - R - 2) % R) \in 1 .. R
            BY <3>2
        <3>4. DumpRegisters[1 + ((k - R - 2) % R)] \in Nat
            BY <1>1, <3>3
        <3>. QED BY <1>1, <1>3, <1>4, <2>3, <3>4
    <2>. QED BY <1>1, <2>1, <2>2, <2>3
<1>6. Dumped = [k \in 1 .. n |-> d(k)]
    BY DEF Dumped
<1>7. n \in Nat
    BY <1>1, <1>2
<1> HIDE DEF n, d
<1>8. Dumped \in Seq(ProgramAccesses) /\ Len(Dumped) = n
    <2>1. Dumped \in [1 .. n -> ProgramAccesses]
        BY <1>5, <1>6
    <2>. QED BY <1>6, <1>7, <2>1
<1>. QED BY <1>5, <1>6, <1>7, <1>8

(* With --trace-state, what arm_print_state writes is not about the program. *)
LEMMA DumpReadGood ==
    ASSUME NEW t, NEW P, Good(t, P), "STATE" \in t.flags, NEW cycle \in Int,
           NEW a \in ProgramAccesses, a.kind = "register"
    PROVE  Good(DumpRead(t, cycle, a), P) /\ Kept(DumpRead(t, cycle, a), t)
<1> DEFINE s == Traced(t, cycle, a)
           x == [a EXCEPT !.kind = "state"]
           u == Fprintf(s, cycle, x, Nowhere, FALSE)
           e == [access |-> x, cycle |-> cycle, at |-> Nowhere, seq |-> FALSE, file |-> s.file]
           W == Wanted(t.flags)
<1>1. /\ t \in Traces /\ P \in Seq(Facts) /\ t.enabled = TRUE /\ t.output \in Seq(LogLines)
      /\ PairsUp(OfKind(t.output, W), OfKind(P, W), t) /\ Marked(t)
    BY DEF Good, Matched, Traces
<1>2. "register" \notin W /\ "state" \notin W
    BY DEF Wanted
<1>3. /\ s \in Traces /\ Kept(s, t) /\ s.last_address = t.last_address
      /\ OfKind(s.output, W) = OfKind(t.output, W)
      /\ OfKind(s.output, {"memory"}) = OfKind(t.output, {"memory"})
    <2>1. CASE s = t
        BY <2>1, <1>1 DEF Kept
    <2>2. CASE Written(t, s, cycle, a)
        <3> DEFINE l == [access |-> a, cycle |-> cycle, at |-> trace_print_location(t),
                         seq |-> a.kind = "memory" /\ a.place = t.last_address + 4,
                         file |-> t.file]
        <3>1. /\ s \in Traces /\ Kept(s, t) /\ l \in LogLines /\ s.output = Append(t.output, l)
              /\ s.last_address = t.last_address
            BY <2>2 DEF Written
        <3>2. l.access = a
            OBVIOUS
        <3> HIDE DEF l, s
        <3>3. /\ OfKind(s.output, W) = Keep(OfKind(t.output, W), W, l)
              /\ OfKind(s.output, {"memory"}) = Keep(OfKind(t.output, {"memory"}), {"memory"}, l)
            BY <1>1, <3>1, OfKindAppend
        <3>. QED BY <1>2, <3>1, <3>2, <3>3 DEF Keep
    <2>. QED BY <2>1, <2>2, <1>1, TracedWrites
<1>4. x \in LogAccesses /\ x.kind = "state"
    BY DEF ProgramAccesses, LogAccesses, Origins
<1>5. Nowhere \in Places
    BY DEF Nowhere, Places
<1>6. e.access = x
    OBVIOUS
<1> HIDE DEF s, x
<1>7. /\ u \in Traces /\ Kept(u, s) /\ u.last_address = s.last_address
      /\ u.output = Append(s.output, e) /\ e \in LogLines
    BY <1>3, <1>4, <1>5, FprintfType
<1> HIDE DEF u, e
<1>8. s.output \in Seq(LogLines)
    BY <1>3 DEF Traces
<1>9. /\ OfKind(u.output, W) = Keep(OfKind(s.output, W), W, e)
      /\ OfKind(u.output, {"memory"}) = Keep(OfKind(s.output, {"memory"}), {"memory"}, e)
    BY <1>7, <1>8, OfKindAppend
<1>10. /\ OfKind(u.output, W) = OfKind(t.output, W)
       /\ OfKind(u.output, {"memory"}) = OfKind(t.output, {"memory"})
    BY <1>2, <1>3, <1>4, <1>6, <1>9 DEF Keep
<1>11. Kept(u, t) /\ u.last_address = t.last_address /\ u.flags = t.flags /\ u.enabled = TRUE
    BY <1>1, <1>3, <1>7 DEF Kept
<1>12. Matched(u, P)
    <2>1. PairsUp(OfKind(t.output, W), OfKind(P, W), u)
        BY <1>1, <1>11, KeptPairs
    <2>. QED BY <2>1, <1>10, <1>11 DEF Matched
<1>13. Marked(u)
    BY <1>1, <1>10, <1>11 DEF Marked
<1>14. DumpRead(t, cycle, a) = u
    BY DEF DumpRead, u, s, x
<1>. QED BY <1>1, <1>7, <1>11, <1>12, <1>13, <1>14 DEF Good

(* trace_arm_state leaves the entries about the program as they are.       *)
LEMMA StateGood ==
    ASSUME NEW t, NEW P, Good(t, P), NEW cycle \in Int
    PROVE  Good(trace_arm_state(t, cycle), P) /\ Kept(trace_arm_state(t, cycle), t)
<1>1. CASE "STATE" \notin t.flags
    BY <1>1 DEF trace_arm_state, Kept
<1>2. CASE "STATE" \in t.flags
    <2> DEFINE S == {s \in Traces : Good(s, P) /\ Kept(s, t)}
    <2>1. t \in S
        BY DEF Good, Kept
    <2>2. ASSUME NEW s \in S, NEW k \in 1 .. Len(Dumped) PROVE DumpRead(s, cycle, Dumped[k]) \in S
        <3>1. Good(s, P) /\ Kept(s, t) /\ "STATE" \in s.flags
            BY <1>2 DEF Kept
        <3>2. Good(DumpRead(s, cycle, Dumped[k]), P) /\ Kept(DumpRead(s, cycle, Dumped[k]), s)
            BY <3>1, DumpedType, DumpReadGood
        <3>. QED BY <3>1, <3>2 DEF Good, Kept
    <2>3. PICK b : DumpTurns(b, t, cycle) /\ \A k \in 0 .. Len(Dumped) : b[k] \in S
        <3> HIDE DEF S
        <3>. QED BY <2>1, <2>2, DumpedType, DumpLoop
    <2>4. arm_print_state(t, cycle) \in S
        BY <2>3, DumpedType DEF DumpTurns
    <2>5. trace_arm_state(t, cycle) = arm_print_state(t, cycle)
        BY <1>2 DEF trace_arm_state, Good
    <2>. QED BY <2>4, <2>5
<1>. QED BY <1>1, <1>2

-----------------------------------------------------------------------------
(* The calls that the simulator itself makes, and the fetch.               *)
LEMMA OwnCalls ==
    /\ Reset \in Seq(Calls)
    /\ \A n \in 1 .. 2 : SubSeq(Inspection, 1, n) \in Seq(Calls)
    /\ \A n \in 1 .. 2 : SubSeq(Change, 1, n) \in Seq(Calls)
    /\ pc \in Nat => LookAhead \in Seq(Calls) /\ Fetch \in Calls
<1>1. /\ Len(NamedModes) = 7 /\ NamedModes[1] = "USR" /\ NamedModes[7] = "SYS"
    BY DEF NamedModes
<1>2. /\ "none" \in Origins /\ "USR" \in Origins /\ "SYS" \in Origins /\ "fetch" \in Origins
      /\ "other" \in Origins
    BY <1>1 DEF Origins
<1>3. ASSUME NEW type \in {"READ", "WRITE"}, NEW r \in Nat, NEW m \in Origins
      PROVE  Register(type, r, m) \in ProgramAccesses /\ Cell(type, r, m) \in ProgramAccesses
    BY DEF Register, Cell, ProgramAccesses, Origins
<1>4. PC \in Nat /\ CPSR \in Nat
    BY DEF PC, CPSR
<1>5. ASSUME NEW at \in Places, NEW sum \in BOOLEAN, NEW acc \in Seq(ProgramAccesses)
      PROVE  Call(at, sum, <<>>, acc) \in Calls
    <2>1. <<>> \in Seq(ProgramAccesses)
        OBVIOUS
    <2>2. [at |-> at, sum |-> sum, inner |-> <<>>, accesses |-> acc]
              \in [at : Places, sum : BOOLEAN, inner : Seq(ProgramAccesses),
                   accesses : Seq(ProgramAccesses)]
        BY <2>1
    <2>. QED BY <2>2 DEF Call, Calls
<1>6. ASSUME NEW x \in ProgramAccesses PROVE <<x>> \in Seq(ProgramAccesses)
    OBVIOUS
<1>7. ASSUME NEW c \in Calls, NEW d \in Calls
      PROVE  /\ <<c, d>> \in Seq(Calls)
             /\ \A n \in 1 .. 2 : SubSeq(<<c, d>>, 1, n) \in Seq(Calls)
    <2>1. <<c, d>> \in Seq(Calls) /\ Len(<<c, d>>) = 2
        OBVIOUS
    <2>2. ASSUME NEW n \in 1 .. 2 PROVE SubSeq(<<c, d>>, 1, n) \in Seq(Calls)
        <3> DEFINE q == <<c, d>>
        <3>1. q \in Seq(Calls) /\ n \in 1 .. Len(q) + 1 /\ 1 \in 1 .. Len(q) + 1 /\ n <= Len(q)
            BY <2>1
        <3> HIDE DEF q
        <3>2. SubSeq(q, 1, n) \in Seq(Calls)
            BY <3>1, SubSeqProperties
        <3>. QED BY <3>2 DEF q
    <2>. QED BY <2>1, <2>2
<1>8. \A l \in Nat : /\ <<"arm_exception", l>> \in Places /\ <<"gdb_protocol", l>> \in Places
                     /\ <<"arm_instruction", l>> \in Places
    BY DEF Places
<1>9. ASSUME NEW l \in Nat, NEW sum \in BOOLEAN, NEW type \in {"READ", "WRITE"},
              NEW r \in Nat, NEW m \in Origins
       PROVE  /\ Call(<<"gdb_protocol", l>>, sum, <<>>, <<Register(type, r, m)>>) \in Calls
              /\ Call(<<"arm_exception", l>>, sum, <<>>, <<Register(type, r, m)>>) \in Calls
    <2>1. <<Register(type, r, m)>> \in Seq(ProgramAccesses)
        BY <1>3, <1>6
    <2>. QED BY <2>1, <1>5, <1>8
<1>10. Reset \in Seq(Calls)
    BY <1>2, <1>3, <1>4, <1>5, <1>6, <1>7, <1>8 DEF Reset
<1>11. \A n \in 1 .. 2 : SubSeq(Inspection, 1, n) \in Seq(Calls)
    <2>1. Call(<<"gdb_protocol", 221>>, TRUE, <<>>, <<Register("READ", PC, "SYS")>>) \in Calls
        <3> DEFINE l == 221
        <3>1. l \in Nat
            OBVIOUS
        <3> HIDE DEF l
        <3>2. Call(<<"gdb_protocol", l>>, TRUE, <<>>, <<Register("READ", PC, "SYS")>>) \in Calls
            BY <3>1, <1>2, <1>4, <1>9
        <3>. QED BY <3>2 DEF l
    <2>2. Call(<<"gdb_protocol", 235>>, TRUE, <<>>, <<Register("READ", CPSR, "none")>>) \in Calls
        <3> DEFINE l == 235
        <3>1. l \in Nat
            OBVIOUS
        <3> HIDE DEF l
        <3>2. Call(<<"gdb_protocol", l>>, TRUE, <<>>, <<Register("READ", CPSR, "none")>>) \in Calls
            BY <3>1, <1>2, <1>4, <1>9
        <3>. QED BY <3>2 DEF l
    <2>. QED BY <2>1, <2>2, <1>7 DEF Inspection
<1>12. \A n \in 1 .. 2 : SubSeq(Change, 1, n) \in Seq(Calls)
    <2>1. Call(<<"gdb_protocol", 297>>, FALSE, <<>>, <<Register("WRITE", PC, "SYS")>>) \in Calls
        <3> DEFINE l == 297
        <3>1. l \in Nat
            OBVIOUS
        <3> HIDE DEF l
        <3>2. Call(<<"gdb_protocol", l>>, FALSE, <<>>, <<Register("WRITE", PC, "SYS")>>) \in Calls
            BY <3>1, <1>2, <1>4, <1>9
        <3>. QED BY <3>2 DEF l
    <2>2. Call(<<"gdb_protocol", 322>>, FALSE, <<>>, <<Register("WRITE", CPSR, "none")>>) \in Calls
        <3> DEFINE l == 322
        <3>1. l \in Nat
            OBVIOUS
        <3> HIDE DEF l
        <3>2. Call(<<"gdb_protocol", l>>, FALSE, <<>>, <<Register("WRITE", CPSR, "none")>>)
                  \in Calls
            BY <3>1, <1>2, <1>4, <1>9
        <3>. QED BY <3>2 DEF l
    <2>. QED BY <2>1, <2>2, <1>7 DEF Change
<1>13. ASSUME pc \in Nat PROVE LookAhead \in Seq(Calls)
    BY <1>13, <1>2, <1>3, <1>4, <1>5, <1>6, <1>7, <1>8 DEF LookAhead
<1>14. ASSUME pc \in Nat PROVE Fetch \in Calls
    <2>1. ASSUME NEW x \in ProgramAccesses, NEW y \in ProgramAccesses, NEW z \in ProgramAccesses
          PROVE  <<x, y, z>> \in Seq(ProgramAccesses)
        OBVIOUS
    <2>. QED BY <1>14, <2>1, <1>2, <1>3, <1>4, <1>5, <1>8 DEF Fetch
<1>. QED BY <1>10, <1>11, <1>12, <1>13, <1>14

\* The inductive invariant.  Until main has opened the file nothing is written.
Unopened == /\ trace.output = <<>> /\ performed = <<>> /\ trace.file = "none"
            /\ phase \in {"options", "exit 0", "exit 1"}
Opened == trace.file = trace_file /\ phase \in {"ready", "cont", "exit 0", "exit 1"}
LogInv == /\ OptionsLeft /\ trace_file \in FileNames
          /\ pc \in Nat /\ cycle_count \in -1 .. MaxSteps /\ events \in 0 .. MaxEvents
          /\ Good(trace, performed) /\ trace.stack = <<>>
          /\ Unopened \/ Opened

(* A trace without entries.                                                *)
LEMMA EmptyGood ==
    ASSUME NEW t \in Traces, t.enabled = TRUE, t.output = <<>>, t.last_address = FirstAddress
    PROVE  Good(t, <<>>)
<1>1. Matched(t, <<>>)
    <2>1. OfKind(t.output, Wanted(t.flags)) = <<>> /\ OfKind(<<>>, Wanted(t.flags)) = <<>>
        BY OfKindEmpty
    <2>2. PairsUp(<<>>, <<>>, t)
        BY DEF PairsUp
    <2>. QED BY <2>1, <2>2 DEF Matched
<1>2. Marked(t)
    <2>1. OfKind(t.output, {"memory"}) = <<>>
        BY OfKindEmpty
    <2>2. RightMarks(<<>>) /\ LastPlace(<<>>) = FirstAddress
        BY DEF RightMarks, LastPlace
    <2>. QED BY <2>1, <2>2 DEF Marked
<1>3. <<>> \in Seq(Facts)
    OBVIOUS
<1>. QED BY <1>1, <1>2, <1>3 DEF Good

(* Before the first option nothing is written and nothing is asked for.    *)
LEMMA LogInitial == Init => LogInv
<1> SUFFICES ASSUME Init PROVE LogInv
    OBVIOUS
<1>1. PICK endFirst \in BOOLEAN : trace = trace_init(endFirst)
    BY DEF Init
<1>2. /\ trace \in Traces /\ trace.enabled = TRUE /\ trace.output = <<>>
      /\ trace.last_address = FirstAddress /\ trace.stack = <<>> /\ trace.file = "none"
    <2>1. <<>> \in Seq(Places) /\ <<>> \in Seq(LogLines) /\ {} \in SUBSET Flags
          /\ "none" \in FileNames /\ FirstAddress \in Int
        BY LoggingAssumption DEF LoggingAssumption, FileNames
    <2>. QED BY <1>1, <2>1 DEF trace_init, Traces
<1>3. Good(trace, performed)
    BY <1>2, EmptyGood DEF Init
<1>4. OptionsLeft /\ trace_file \in FileNames /\ Unopened
    BY <1>2, LoggingAssumption DEF Init, LoggingAssumption, OptionsLeft, FileNames, Unopened
<1>5. pc \in Nat /\ cycle_count \in -1 .. MaxSteps /\ events \in 0 .. MaxEvents
    BY LoggingAssumption DEF Init, LoggingAssumption
<1>. QED BY <1>2, <1>3, <1>4, <1>5 DEF LogInv

(* What follows from the trace and the program being in step afterwards.   *)
LEMMA OpenedStays ==
    ASSUME LogInv, NEW t, NEW P, Good(t, P), Kept(t, trace), Opened,
           trace' = t, performed' = P, UNCHANGED <<argv, trace_file>>,
           phase' \in {"ready", "cont", "exit 0", "exit 1"},
           pc' \in Nat, cycle_count' \in -1 .. MaxSteps, events' \in 0 .. MaxEvents
    PROVE  LogInv'
<1>1. Good(trace', performed') /\ trace'.stack = <<>> /\ trace'.file = trace_file'
    BY DEF LogInv, Kept, Opened
<1>2. Good(trace, performed)' /\ (trace.stack = <<>>)' /\ Opened'
    BY <1>1 DEF Opened, Good, Matched, Marked, PairsUp, Tells
<1>. QED BY <1>2 DEF LogInv, OptionsLeft

(* An instruction that is traced keeps the trace in step, whether it ends  *)
(* the process or its state is printed.                                    *)
LEMMA StepKeeps ==
    ASSUME LogInv, phase \in {"ready", "cont"}, UNCHANGED <<argv, trace_file>>,
           NEW body \in Bodies, Step(trace, body)
    PROVE  LogInv'
<1> DEFINE calls == <<Fetch>> \o body.calls
           done == PerformAll(trace, cycle_count + 1, calls)
           P == NoteAll(performed, cycle_count + 1, calls)
<1>1. /\ Good(trace, performed) /\ trace.stack = <<>> /\ Opened /\ pc \in Nat
      /\ cycle_count \in -1 .. MaxSteps /\ events \in 0 .. MaxEvents
    BY DEF LogInv, Unopened
<1>2. body.calls \in Seq(Calls)
    BY LoggingAssumption DEF LoggingAssumption
<1>3. calls \in Seq(Calls)
    <2>1. Fetch \in Calls
        BY <1>1, OwnCalls
    <2>. QED BY <1>2, <2>1
<1>4. cycle_count + 1 \in Int /\ (cycle_count < MaxSteps => cycle_count + 1 \in -1 .. MaxSteps)
    BY <1>1, LoggingAssumption DEF LoggingAssumption
<1> HIDE DEF calls
<1>5. Good(done, P) /\ Kept(done, trace)
    BY <1>1, <1>3, <1>4, PerformAllGood
<1>6. /\ cycle_count < MaxSteps /\ cycle_count' = cycle_count + 1
      /\ pc' = IF body.jump THEN 0 ELSE pc + 4
      /\ performed' = P /\ events' = events
      /\ \/ body.exits /\ trace' = done /\ phase' = "exit 0"
         \/ ~ body.exits /\ trace' = trace_arm_state(done, cycle_count + 1) /\ phase' = phase
    BY DEF Step, calls
<1> HIDE DEF done, P
<1>7. pc' \in Nat /\ cycle_count' \in -1 .. MaxSteps /\ events' \in 0 .. MaxEvents
    <2>1. 0 \in Nat /\ pc + 4 \in Nat
        BY <1>1
    <2>2. pc' \in Nat
        BY <1>6, <2>1
    <2>3. cycle_count' \in -1 .. MaxSteps /\ events' \in 0 .. MaxEvents
        BY <1>1, <1>4, <1>6
    <2>. QED BY <2>2, <2>3
<1>8. CASE trace' = done /\ phase' = "exit 0"
    BY <1>1, <1>5, <1>6, <1>7, <1>8, OpenedStays
<1>9. CASE trace' = trace_arm_state(done, cycle_count + 1) /\ phase' = phase
    <2>1. /\ Good(trace_arm_state(done, cycle_count + 1), P)
          /\ Kept(trace_arm_state(done, cycle_count + 1), done)
        BY <1>4, <1>5, StateGood
    <2>2. Kept(trace_arm_state(done, cycle_count + 1), trace)
        BY <1>5, <2>1 DEF Kept
    <2>. QED BY <1>1, <1>6, <1>7, <1>9, <2>1, <2>2, OpenedStays
<1>. QED BY <1>6, <1>8, <1>9

(* A packet that accesses registers with tracing disabled.                 *)
LEMMA UntracedKeeps ==
    ASSUME LogInv, phase \in {"ready", "cont"}, UNCHANGED <<argv, trace_file, performed>>,
           NEW calls \in Seq(Calls), trace' = Untraced(trace, calls),
           phase' \in {"ready", "cont"},
           pc' \in Nat, cycle_count' \in -1 .. MaxSteps, events' \in 0 .. MaxEvents
    PROVE  LogInv'
<1>1. Good(trace, performed) /\ Opened
    BY DEF LogInv, Unopened
<1>2. Untraced(trace, calls) = trace
    BY <1>1, UntracedSame DEF Good
<1>3. Kept(trace, trace)
    BY DEF Kept
<1>. QED BY <1>1, <1>2, <1>3, OpenedStays

(* Before the file is opened the options only change what is asked for.    *)
LEMMA UnopenedStays ==
    ASSUME LogInv, phase = "options", OptionsLeft', UNCHANGED processor,
           trace' = trace \/ \E flag \in Flags : trace' = trace_add(trace, flag),
           trace_file' \in FileNames, phase' \in {"options", "exit 0", "exit 1"}
    PROVE  LogInv'
<1>1. /\ Good(trace, performed) /\ trace.stack = <<>> /\ Unopened /\ trace \in Traces
      /\ trace.enabled = TRUE
    BY DEF LogInv, Opened, Good
<1>2. trace.last_address = FirstAddress
    <2>1. OfKind(trace.output, {"memory"}) = <<>>
        BY <1>1, OfKindEmpty DEF Unopened
    <2>. QED BY <1>1, <2>1 DEF Good, Marked, LastPlace
<1>3. /\ trace' \in Traces /\ trace'.enabled = TRUE /\ trace'.output = <<>>
      /\ trace'.last_address = FirstAddress /\ trace'.stack = <<>> /\ trace'.file = "none"
    BY <1>1, <1>2 DEF Unopened, trace_add, Traces
<1>4. performed' = <<>> /\ pc' = pc /\ cycle_count' = cycle_count /\ events' = events
    BY <1>1 DEF Unopened, processor
<1>5. Good(trace', <<>>)
    BY <1>3, EmptyGood
<1>6. Good(trace, performed)' /\ (trace.stack = <<>>)' /\ Unopened'
    BY <1>3, <1>4, <1>5 DEF Unopened, Good, Matched, Marked, PairsUp, Tells
<1>. QED BY <1>4, <1>6 DEF LogInv

(* main opens the file and creates the processor, which a reset starts.    *)
LEMMA StartKeeps == ASSUME LogInv, Start PROVE LogInv'
<1> DEFINE t == set_trace_file(trace, trace_file)
           u == PerformAll(t, Garbage, Reset)
           P == NoteAll(performed, Garbage, Reset)
<1>1. /\ Good(trace, performed) /\ trace.stack = <<>> /\ Unopened /\ trace \in Traces
      /\ trace.enabled = TRUE /\ trace_file \in FileNames
    BY DEF LogInv, Opened, Good, Start
<1>2. trace.last_address = FirstAddress /\ performed = <<>>
    <2>1. OfKind(trace.output, {"memory"}) = <<>>
        BY <1>1, OfKindEmpty DEF Unopened
    <2>. QED BY <1>1, <2>1 DEF Good, Marked, LastPlace, Unopened
<1>3. /\ t \in Traces /\ t.enabled = TRUE /\ t.output = <<>> /\ t.last_address = FirstAddress
      /\ t.stack = <<>> /\ t.file = trace_file
    BY <1>1, <1>2 DEF set_trace_file, Traces, Unopened
<1> HIDE DEF t
<1>4. Good(t, performed)
    BY <1>2, <1>3, EmptyGood
<1>5. Good(u, P) /\ Kept(u, t)
    BY <1>3, <1>4, OwnCalls, PerformAllGood DEF Garbage
<1>6. trace' = u /\ performed' = P /\ phase' = "ready" /\ UNCHANGED <<argv, trace_file, events>>
      /\ pc' = 0 /\ cycle_count' = 0
    BY DEF Start, t
<1> HIDE DEF u, P
<1>7. Good(trace, performed)' /\ (trace.stack = <<>>)' /\ Opened'
    BY <1>3, <1>5, <1>6 DEF Kept, Opened, Good, Matched, Marked, PairsUp, Tells
<1>. QED BY <1>6, <1>7, LoggingAssumption DEF LogInv, OptionsLeft, LoggingAssumption

(* Every step of the simulator keeps the trace in step with the program.   *)
LEMMA LogStep == LogInv /\ [Next]_vars => LogInv'
<1> SUFFICES ASSUME LogInv, [Next]_vars PROVE LogInv'
    OBVIOUS
<1>0. /\ OptionsLeft' /\ pc \in Nat /\ cycle_count \in -1 .. MaxSteps /\ events \in 0 .. MaxEvents
      /\ MaxSteps \in Nat /\ MaxEvents \in Nat /\ trace_file \in FileNames
      /\ trace \in Traces /\ trace.enabled = TRUE
    BY OptionsStay, LoggingAssumption DEF LogInv, LoggingAssumption, Good
<1>1. CASE Help \/ Unknown
    BY <1>0, <1>1, UnopenedStays DEF Help, Unknown, Option
<1>2. CASE TraceFile
    <2>1. phase = "options" /\ UNCHANGED <<processor, trace>>
        BY <1>2 DEF TraceFile, Option
    <2>2. Head(argv) \in Options /\ Head(argv).opt = "t"
        <3>1. argv \in Seq(Options)
            BY DEF LogInv, OptionsLeft
        <3>2. argv # <<>> /\ Head(argv).opt = "t"
            BY <1>2 DEF TraceFile, Option
        <3>. QED BY <3>1, <3>2
    <2>3. Head(argv).arg \in FileNames
        BY <2>2 DEF Options, FileNames
    <2>4. trace_file' \in FileNames /\ phase' \in {"options", "exit 1"}
        BY <1>0, <1>2, <2>1, <2>3 DEF TraceFile
    <2>. QED BY <1>0, <2>1, <2>4, UnopenedStays
<1>3. ASSUME NEW opt, NEW flag \in Flags, TraceFlag(opt, flag) PROVE LogInv'
    BY <1>0, <1>3, UnopenedStays DEF TraceFlag, Option
<1>4. CASE DebugOption
    BY <1>0, <1>4, UnopenedStays DEF DebugOption, Option
<1>5. CASE Start
    BY <1>5, StartKeeps
<1>6. CASE ReadRegisters
    <2>1. PICK n \in 1 .. 2 : trace' = Untraced(trace, SubSeq(Inspection, 1, n))
        BY <1>6 DEF ReadRegisters
    <2>2. SubSeq(Inspection, 1, n) \in Seq(Calls)
        BY OwnCalls
    <2>3. /\ phase = "ready" /\ phase' = phase /\ events < MaxEvents /\ events' = events + 1
          /\ UNCHANGED <<argv, trace_file, pc, cycle_count, performed>>
        BY <1>6 DEF ReadRegisters, Quiet
    <2>4. events' \in 0 .. MaxEvents
        BY <1>0, <2>3
    <2>. QED BY <1>0, <2>1, <2>2, <2>3, <2>4, UntracedKeeps
<1>7. CASE WriteRegisters
    <2>1. PICK n \in 1 .. 2 : trace' = Untraced(trace, SubSeq(Change, 1, n))
        BY <1>7 DEF WriteRegisters
    <2>2. SubSeq(Change, 1, n) \in Seq(Calls)
        BY OwnCalls
    <2>3. /\ phase = "ready" /\ phase' = phase /\ events < MaxEvents /\ events' = events + 1
          /\ UNCHANGED <<argv, trace_file, cycle_count, performed>> /\ pc' \in Nat
        BY <1>7, LoggingAssumption DEF WriteRegisters, Quiet, LoggingAssumption
    <2>4. events' \in 0 .. MaxEvents
        BY <1>0, <2>3
    <2>. QED BY <1>0, <2>1, <2>2, <2>3, <2>4, UntracedKeeps
<1>8. CASE Debugging \/ Look \/ Ended \/ UNCHANGED vars
    <2>1. UNCHANGED <<argv, phase, trace_file, trace, pc, cycle_count, performed, events>>
        BY <1>8 DEF Debugging, Look, Ended, vars, processor
    <2>. QED BY <2>1 DEF LogInv, OptionsLeft, Unopened, Opened, Good, Matched, Marked,
                         PairsUp, Tells
<1>9. CASE SingleStep
    <2>1. /\ phase \in {"ready", "cont"} /\ UNCHANGED <<argv, trace_file>>
          /\ \E body \in Bodies : Step(trace, body)
        BY <1>9 DEF SingleStep, Quiet
    <2>. QED BY <2>1, StepKeeps
<1>10. CASE Continue
    <2>1. phase = "ready" /\ phase' = "cont" /\ UNCHANGED <<argv, trace_file, trace, processor>>
        BY <1>10 DEF Continue, Quiet
    <2>. QED BY <2>1 DEF LogInv, OptionsLeft, Unopened, Opened, Good, Matched, Marked,
                         PairsUp, Tells, processor
<1>11. LookAhead \in Seq(Calls)
    BY <1>0, OwnCalls
<1>12. CASE ContStep
    <2>1. Untraced(trace, LookAhead) = trace
        BY <1>0, <1>11, UntracedSame
    <2>2. /\ phase \in {"ready", "cont"} /\ UNCHANGED <<argv, trace_file>>
          /\ \E body \in Bodies : Step(trace, body)
        BY <1>12, <2>1 DEF ContStep, Quiet
    <2>. QED BY <2>2, StepKeeps
<1>13. CASE ContStop
    <2>1. /\ phase = "cont" /\ phase' = "ready" /\ trace' = Untraced(trace, LookAhead)
          /\ UNCHANGED <<argv, trace_file, pc, cycle_count, performed, events>>
        BY <1>13 DEF ContStop, Quiet, processor
    <2>. QED BY <1>0, <1>11, <2>1, UntracedKeeps
<1>14. CASE Exception
    <2>1. /\ phase = "ready" /\ phase' = phase /\ events < MaxEvents /\ events' = events + 1
          /\ UNCHANGED <<argv, trace_file, cycle_count>> /\ pc' = 0
          /\ trace' = PerformAll(trace, cycle_count, Reset)
          /\ performed' = NoteAll(performed, cycle_count, Reset)
        BY <1>14 DEF Exception, Quiet
    <2>2. Good(trace, performed) /\ trace.stack = <<>> /\ Opened
        BY <2>1 DEF LogInv, Unopened
    <2>3. /\ Good(PerformAll(trace, cycle_count, Reset), NoteAll(performed, cycle_count, Reset))
          /\ Kept(PerformAll(trace, cycle_count, Reset), trace)
        BY <1>0, <2>2, OwnCalls, PerformAllGood
    <2>4. events' \in 0 .. MaxEvents /\ pc' \in Nat
        BY <1>0, <2>1
    <2>. QED BY <1>0, <2>1, <2>2, <2>3, <2>4, OpenedStays
<1>15. {"REGISTERS", "MEMORY", "STATE", "POSITION"} \subseteq Flags
    BY DEF Flags
<1>. QED BY <1>1, <1>2, <1>3, <1>4, <1>5, <1>6, <1>7, <1>8, <1>9, <1>10, <1>12, <1>13, <1>14,
            <1>15 DEF Next

(* The inductive invariant of the trace, for every command line, every     *)
(* program and every sequence of packets and exceptions.                   *)
THEOREM LogInvariant == Spec => []LogInv
BY LogInitial, LogStep, PTL DEF Spec

(* The table of debug.c, the variables of trace.c and those of main keep   *)
(* their types.                                                            *)
THEOREM LoggingTypeCorrect == Spec => []TypeOK
<1>1. LogInv /\ IInv => TypeOK
    BY DEF LogInv, IInv, TypeOK, Good, Traces, Unopened, Opened
<1>. QED BY <1>1, LogInvariant, LoggingUsesDebug, DebugInvariant, PTL

(* Every access of the program is in the trace file once, in order and     *)
(* under its cycle, and the debugger's accesses are not.                   *)
THEOREM TraceExact == Spec => []LogExact
<1>1. LogInv => LogExact
    <2> SUFFICES ASSUME LogInv PROVE LogExact
        OBVIOUS
    <2>1. PairsUp(Log, Program, trace)
        BY DEF LogInv, Good, Matched, Log, Program
    <2>2. CASE Unopened
        <3>1. Log = <<>>
            BY <2>2, OfKindEmpty DEF Unopened, Log
        <3>2. Len(Log) = 0
            BY <3>1
        <3>. QED BY <2>1, <3>2 DEF PairsUp, LogExact
    <2>3. CASE Opened
        BY <2>1, <2>3 DEF Opened, PairsUp, Tells, LogExact
    <2>. QED BY <2>2, <2>3 DEF LogInv
<1>. QED BY <1>1, LogInvariant, PTL

(* An access is marked sequential exactly when it follows the previous one *)
(* of the trace.                                                           *)
THEOREM MarksAreRight == Spec => []SequentialMark
<1>1. LogInv => SequentialMark
    BY DEF LogInv, Good, Marked, RightMarks, SequentialMark
<1>. QED BY <1>1, LogInvariant, PTL

(* With --trace-position an entry about the program shows the place of its *)
(* call or none, and shows it where END_LOCATION is evaluated after the    *)
(* access; no location is left on the stack.                               *)
THEOREM PositionsAreRight == Spec => []PositionRight
<1>1. LogInv => PositionRight
    <2> SUFFICES ASSUME LogInv PROVE PositionRight
        OBVIOUS
    <2>1. PairsUp(Log, Program, trace) /\ trace.stack = <<>>
        BY DEF LogInv, Good, Matched, Log, Program
    <2>. QED BY <2>1 DEF PairsUp, Tells, PositionRight
<1>. QED BY <1>1, LogInvariant, PTL
=============================================================================

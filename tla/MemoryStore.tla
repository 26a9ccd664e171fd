---------------------------- MODULE MemoryStore ----------------------------
(***************************************************************************)
(* Units of work over the in-memory backend: UnitOfWork.Execute            *)
(* (application/uow/uow.go) on the transactor with the undo journal        *)
(* (infrastructure/memory/transactor.go, store.go).                        *)
(*                                                                         *)
(* Each write goes to the shared maps at once, under the store's mutex,    *)
(* and no lock is held between writes: units of work interleave.  Commit   *)
(* discards the journal, rollback replays it.  No usecase of the program   *)
(* opens a nested frame, so frames have depth zero here.                   *)
(***************************************************************************)
EXTENDS Naturals, FiniteSets

CONSTANTS
    Units,      \* units of work
    Rows,       \* keys of the store's maps
    Touches,    \* the rows each unit may write
    MaxWrites   \* bound: writes of one unit to one row

ASSUME MemoryStoreAssumption ==
    /\ Touches \in [Units -> SUBSET Rows]
    /\ MaxWrites \in Nat \ {0}
    /\ "none" \notin Units

VARIABLES
    store,      \* what each row holds: the unit that wrote it, and a count of its writes
    journal,    \* per unit, the captured rows and what they held
    phase,      \* "new", "open", "committed" or "aborted"
    audit,      \* units whose activity entries are in the log
    clashed     \* history: two open units have written one row

memoryStoreVars == <<store, journal, phase, audit, clashed>>

\* Nobody wrote the row since the program started.
Initial == [unit |-> "none", n |-> 0]
Written == [unit : Units, n : 1..MaxWrites]

\* The journals a unit can have: a function on the rows it captured.
Journals(u) == UNION {[S -> Written \cup {Initial}] : S \in SUBSET Touches[u]}

MemoryStoreTypeOK ==
    /\ store \in [Rows -> Written \cup {Initial}]
    /\ DOMAIN journal = Units
    /\ \A u \in Units : journal[u] \in Journals(u)
    /\ phase \in [Units -> {"new", "open", "committed", "aborted"}]
    /\ audit \subseteq Units
    /\ clashed \in BOOLEAN

NoJournal == [r \in {} |-> Initial]

MemoryStoreInit ==
    /\ store = [r \in Rows |-> Initial]
    /\ journal = [u \in Units |-> NoJournal]
    /\ phase = [u \in Units |-> "new"]
    /\ audit = {}
    /\ clashed = FALSE

-----------------------------------------------------------------------------
Begin(u) ==
    /\ phase[u] = "new"
    /\ phase' = [phase EXCEPT ![u] = "open"]
    /\ UNCHANGED <<store, journal, audit, clashed>>

\* Mutant: every write is captured anew, so the journal keeps the last.
CaptureLatest(u, r) ==
    [q \in DOMAIN journal[u] \cup {r} |-> IF q = r THEN store[r] ELSE journal[u][q]]

\* Mutant: a row that did not exist is not captured.
CaptureExisting(u, r) ==
    IF store[r] = Initial THEN journal[u]
    ELSE [q \in DOMAIN journal[u] \cup {r} |->
             IF q \in DOMAIN journal[u] THEN journal[u][q] ELSE store[r]]

\* captureMap: what the row held before the unit's first write to it.
Capture(u, r) ==
    [q \in DOMAIN journal[u] \cup {r} |->
        IF q \in DOMAIN journal[u] THEN journal[u][q] ELSE store[r]]

WritesSoFar(u, r) == IF store[r].unit = u THEN store[r].n ELSE 0

\* A repository's Save inside the transaction.
Save(u, r) ==
    /\ phase[u] = "open"
    /\ WritesSoFar(u, r) < MaxWrites
    /\ journal' = [journal EXCEPT ![u] = Capture(u, r)]
    /\ store' = [store EXCEPT ![r] = [unit |-> u, n |-> WritesSoFar(u, r) + 1]]
    /\ clashed' = (clashed \/ \E v \in Units \ {u} : r \in DOMAIN journal[v])
    /\ UNCHANGED <<phase, audit>>

\* The usecase and the end-of-transaction checks succeeded: the pre-commit
\* hook appends the activity entries, and nothing after it can fail.
Commit(u) ==
    /\ phase[u] = "open"
    /\ phase' = [phase EXCEPT ![u] = "committed"]
    /\ audit' = IF DOMAIN journal[u] = {} THEN audit ELSE audit \cup {u}
    /\ journal' = [journal EXCEPT ![u] = NoJournal]
    /\ UNCHANGED <<store, clashed>>

\* Mutant: the whole store goes back to what it was before the unit.
RestoreAll(u) ==
    [r \in Rows |-> IF r \in DOMAIN journal[u] THEN journal[u][r]
                    ELSE IF journal[u] = NoJournal THEN store[r] ELSE Initial]

\* The journal replayed: each captured row gets back what was captured.
Restored(u) ==
    [r \in Rows |-> IF r \in DOMAIN journal[u] THEN journal[u][r] ELSE store[r]]

\* The usecase or a check failed.
Rollback(u) ==
    /\ phase[u] = "open"
    /\ phase' = [phase EXCEPT ![u] = "aborted"]
    /\ store' = Restored(u)
    /\ journal' = [journal EXCEPT ![u] = NoJournal]
    /\ UNCHANGED <<audit, clashed>>

MemoryStoreNext ==
    \E u \in Units :
        \/ Begin(u) \/ Commit(u) \/ Rollback(u)
        \/ \E r \in Touches[u] : Save(u, r)

MemoryStoreSpec == MemoryStoreInit /\ [][MemoryStoreNext]_memoryStoreVars

-----------------------------------------------------------------------------
(* Both promises are conditional on ~clashed: nothing keeps two open units   *)
(* from writing one row, and what the journal restores is then another      *)
(* unit's business.  See the limits in the README.                           *)

\* "A unit of work that writes then fails leaves no partial data": no row
\* holds what an aborted unit wrote, and the audit log names committed ones.
NoPartialData ==
    /\ ~clashed => \A r \in Rows :
          store[r] # Initial => phase[store[r].unit] # "aborted"
    /\ \A u \in audit : phase[u] = "committed"

\* A rollback happens "without disturbing the committed writes of any
\* interleaved transaction": what a committed unit wrote is only ever replaced
\* by the next write of an open one, and comes back if that one fails.
CommittedWritesKept ==
    [][\A r \in Rows :
          /\ ~clashed'
          /\ store[r] # Initial /\ store'[r] # store[r]
          /\ phase[store[r].unit] = "committed"
          => store'[r] # Initial /\ phase'[store'[r].unit] = "open"
             /\ store'[r].unit # store[r].unit
             /\ journal'[store'[r].unit][r] = store[r]]_memoryStoreVars

\* A unit that ended has no journal left to replay.
ClosedJournalsEmpty == \A u \in Units : phase[u] # "open" => journal[u] = NoJournal

\* What makes a replay harmless: until a clash, a row is in one journal only,
\* its last write is that unit's own, what the journal holds of it was
\* committed, and whatever an open unit wrote it can undo.
ReplayHarmless ==
    /\ \A u, v \in Units : u # v => DOMAIN journal[u] \cap DOMAIN journal[v] = {}
    /\ \A u \in Units : \A r \in DOMAIN journal[u] :
          /\ store[r].unit = u
          /\ journal[u][r] # Initial => phase[journal[u][r].unit] = "committed"
    /\ \A r \in Rows : store[r] # Initial =>
          /\ phase[store[r].unit] # "new"
          /\ phase[store[r].unit] = "open" => r \in DOMAIN journal[store[r].unit]

\* The inductive invariant of the undo journal: it keeps enough of captureMap's
\* first-write rule and of the units' interleaving to undo exactly one unit.
UndoInv ==
    /\ MemoryStoreTypeOK
    /\ ClosedJournalsEmpty
    /\ ~clashed => ReplayHarmless
    /\ NoPartialData

=============================================================================

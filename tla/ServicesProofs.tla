--------------------------- MODULE ServicesProofs ---------------------------
(***************************************************************************)
(* Machine-checked proofs about the memory transactor, accounts, the       *)
(* process's teardown, schema migrations, units of work, the GraphQL       *)
(* schema cache, the search projection and computed attributes, for every  *)
(* set of units, accounts, roles, replicas, requests, runners, files,      *)
(* handlers, indexers, entities, lines and quantities and every bound.     *)
(***************************************************************************)
EXTENDS MemoryStore, Accounts, Lifecycle, Migrations, UnitOfWork, GraphQLCache, SearchIndex, Computed, NumberFacts

\* What a row can hold.
Held == Written \cup {Initial}

\* The marker of an unwritten row is no unit's write.
LEMMA InitialIsNoWrite ==
  /\ Initial \notin Written
  /\ \A w \in Held : w # Initial => w.unit \in Units
  /\ \A w \in Held : w.unit \in Units => w # Initial
  BY MemoryStoreAssumption DEF Initial, Written, Held

\* Journals in the form the provers use.
LEMMA JournalShape ==
  ASSUME NEW u \in Units, NEW j
  PROVE  j \in Journals(u) <=>
           /\ j = [r \in DOMAIN j |-> j[r]]
           /\ DOMAIN j \subseteq Touches[u]
           /\ \A r \in DOMAIN j : j[r] \in Held
  BY DEF Journals, Held

\* captureMap keeps a journal well formed, adds the row and forgets nothing.
LEMMA CaptureShape ==
  ASSUME NEW u \in Units, NEW r \in Touches[u], MemoryStoreTypeOK
  PROVE  /\ Capture(u, r) \in Journals(u)
         /\ DOMAIN Capture(u, r) = DOMAIN journal[u] \cup {r}
         /\ \A q \in DOMAIN journal[u] : Capture(u, r)[q] = journal[u][q]
         /\ r \notin DOMAIN journal[u] => Capture(u, r)[r] = store[r]
<1>1. journal[u] \in Journals(u) /\ r \in Rows /\ store[r] \in Held
  BY MemoryStoreAssumption DEF MemoryStoreTypeOK, Held
<1>2. \A q \in DOMAIN journal[u] : journal[u][q] \in Held
  BY <1>1, JournalShape
<1>3. DOMAIN journal[u] \subseteq Touches[u]
  BY <1>1, JournalShape
<1>4. /\ DOMAIN Capture(u, r) = DOMAIN journal[u] \cup {r}
      /\ \A q \in DOMAIN journal[u] : Capture(u, r)[q] = journal[u][q]
      /\ r \notin DOMAIN journal[u] => Capture(u, r)[r] = store[r]
      /\ Capture(u, r) = [q \in DOMAIN Capture(u, r) |-> Capture(u, r)[q]]
  BY DEF Capture
<1>5. \A q \in DOMAIN Capture(u, r) : Capture(u, r)[q] \in Held
  BY <1>1, <1>2, <1>4
<1>6. Capture(u, r) \in Journals(u)
  BY <1>3, <1>4, <1>5, JournalShape
<1> QED
  BY <1>4, <1>6

\* The empty journal is one.
LEMMA NoJournalShape ==
  ASSUME NEW u \in Units
  PROVE  NoJournal \in Journals(u) /\ DOMAIN NoJournal = {}
<1>1. DOMAIN NoJournal = {} /\ NoJournal = [r \in DOMAIN NoJournal |-> NoJournal[r]]
  BY DEF NoJournal
<1> QED
  BY <1>1, JournalShape

\* The empty store satisfies the invariant.
LEMMA UndoInit == MemoryStoreInit => UndoInv
<1> SUFFICES ASSUME MemoryStoreInit PROVE UndoInv
  OBVIOUS
<1>1. MemoryStoreTypeOK
  BY NoJournalShape DEF MemoryStoreInit, MemoryStoreTypeOK
<1>2. ClosedJournalsEmpty
  BY DEF MemoryStoreInit, ClosedJournalsEmpty
<1>3. ReplayHarmless
  BY NoJournalShape DEF MemoryStoreInit, ReplayHarmless
<1>4. NoPartialData
  BY DEF MemoryStoreInit, NoPartialData
<1> QED
  BY <1>1, <1>2, <1>3, <1>4 DEF UndoInv

-----------------------------------------------------------------------------
(* One lemma per action. *)

\* A unit begins with an empty journal and nothing in the store.
LEMMA BeginInv ==
  ASSUME UndoInv, NEW u \in Units, Begin(u)
  PROVE  UndoInv'
<1> USE DEF UndoInv
<1>1. MemoryStoreTypeOK'
  BY DEF MemoryStoreTypeOK, Begin
<1>2. ClosedJournalsEmpty'
  BY DEF MemoryStoreTypeOK, ClosedJournalsEmpty, Begin
<1>3. ASSUME ~clashed' PROVE ReplayHarmless'
  <2>1. ReplayHarmless /\ phase[u] = "new" /\ phase' = [phase EXCEPT ![u] = "open"]
        /\ store' = store /\ journal' = journal
    BY <1>3 DEF Begin
  <2>2. \A v \in Units : \A q \in DOMAIN journal[v] : journal[v][q] \in Held
    BY JournalShape DEF MemoryStoreTypeOK
  <2>3. \A v \in Units : phase[v] \in {"open", "committed"} => phase'[v] = phase[v]
    BY <2>1 DEF MemoryStoreTypeOK
  <2>4. \A v \in Units : \A q \in DOMAIN journal[v] :
          journal[v][q] # Initial => phase'[journal[v][q].unit] = "committed"
    BY <2>1, <2>2, <2>3, InitialIsNoWrite DEF ReplayHarmless
  <2>5. \A q \in Rows : store[q] # Initial => phase'[store[q].unit] = phase[store[q].unit]
    BY <2>1, InitialIsNoWrite DEF ReplayHarmless, MemoryStoreTypeOK, Held
  <2> QED
    BY <2>1, <2>4, <2>5 DEF ReplayHarmless
<1>4. NoPartialData'
  BY DEF MemoryStoreTypeOK, NoPartialData, Begin
<1> QED
  BY <1>1, <1>2, <1>3, <1>4

\* A write captures the row first, so the unit can still be undone alone.
LEMMA SaveInv ==
  ASSUME UndoInv, NEW u \in Units, NEW r \in Touches[u], Save(u, r)
  PROVE  UndoInv'
<1> USE DEF UndoInv
<1> DEFINE new == [unit |-> u, n |-> WritesSoFar(u, r) + 1]
<1>1. /\ r \in Rows /\ store[r] \in Held
      /\ store' = [store EXCEPT ![r] = new]
      /\ journal' = [journal EXCEPT ![u] = Capture(u, r)]
      /\ phase' = phase /\ audit' = audit /\ phase[u] = "open"
      /\ clashed' = (clashed \/ \E v \in Units \ {u} : r \in DOMAIN journal[v])
  BY MemoryStoreAssumption DEF MemoryStoreTypeOK, Save, Held
<1>2. new \in Written
  BY <1>1, MemoryStoreAssumption DEF Save, WritesSoFar, Written, Initial, Held
<1>3. /\ Capture(u, r) \in Journals(u)
      /\ DOMAIN Capture(u, r) = DOMAIN journal[u] \cup {r}
      /\ \A q \in DOMAIN journal[u] : Capture(u, r)[q] = journal[u][q]
      /\ r \notin DOMAIN journal[u] => Capture(u, r)[r] = store[r]
  BY CaptureShape
<1>4. MemoryStoreTypeOK'
  BY <1>1, <1>2, <1>3, InitialIsNoWrite DEF MemoryStoreTypeOK, Journals
<1>5. ClosedJournalsEmpty'
  BY <1>1 DEF ClosedJournalsEmpty, MemoryStoreTypeOK
<1>6. ASSUME ~clashed' PROVE ReplayHarmless'
  <2>1. ~clashed /\ ReplayHarmless /\ \A v \in Units \ {u} : r \notin DOMAIN journal[v]
    BY <1>1, <1>6
  <2>2. \A v, w \in Units : v # w => DOMAIN journal'[v] \cap DOMAIN journal'[w] = {}
    BY <1>1, <1>3, <2>1 DEF ReplayHarmless, MemoryStoreTypeOK
  <2>3. r \notin DOMAIN journal[u] /\ store[r] # Initial
          => phase[store[r].unit] = "committed"
    BY <1>1, <2>1, InitialIsNoWrite DEF MemoryStoreTypeOK, NoPartialData, ReplayHarmless
  <2>4. ASSUME NEW v \in Units, NEW q \in DOMAIN journal'[v]
        PROVE  /\ store'[q].unit = v
               /\ journal'[v][q] # Initial => phase'[journal'[v][q].unit] = "committed"
    <3>1. CASE v = u
      BY <1>1, <1>3, <2>1, <2>3, <3>1 DEF ReplayHarmless, MemoryStoreTypeOK
    <3>2. CASE v # u
      BY <1>1, <1>3, <2>1, <3>2 DEF ReplayHarmless, MemoryStoreTypeOK
    <3> QED
      BY <3>1, <3>2
  <2>5. \A q \in Rows : store'[q] # Initial =>
          /\ phase'[store'[q].unit] # "new"
          /\ phase'[store'[q].unit] = "open" => q \in DOMAIN journal'[store'[q].unit]
    BY <1>1, <1>3, <2>1, InitialIsNoWrite DEF ReplayHarmless, MemoryStoreTypeOK, Held
  <2> QED
    BY <2>2, <2>4, <2>5 DEF ReplayHarmless
<1>7. NoPartialData'
  BY <1>1, InitialIsNoWrite DEF NoPartialData, MemoryStoreTypeOK
<1> QED
  BY <1>4, <1>5, <1>6, <1>7

\* A commit forgets the journal: what it wrote is committed now.
LEMMA CommitInv ==
  ASSUME UndoInv, NEW u \in Units, Commit(u)
  PROVE  UndoInv'
<1> USE DEF UndoInv
<1>1. /\ store' = store /\ clashed' = clashed /\ phase[u] = "open"
      /\ phase' = [phase EXCEPT ![u] = "committed"]
      /\ journal' = [journal EXCEPT ![u] = NoJournal]
      /\ audit' \subseteq audit \cup {u}
  BY DEF Commit
<1>2. MemoryStoreTypeOK'
  BY <1>1, NoJournalShape DEF MemoryStoreTypeOK, Journals
<1>3. ClosedJournalsEmpty'
  BY <1>1 DEF MemoryStoreTypeOK, ClosedJournalsEmpty
<1>4. ~clashed' => ReplayHarmless'
  BY <1>1, NoJournalShape DEF MemoryStoreTypeOK, ReplayHarmless
<1>5. NoPartialData'
  BY <1>1 DEF MemoryStoreTypeOK, NoPartialData
<1> QED
  BY <1>2, <1>3, <1>4, <1>5

\* A rollback puts back what was committed before the unit's first write and
\* touches no row that another open unit has written.
LEMMA RollbackInv ==
  ASSUME UndoInv, NEW u \in Units, Rollback(u)
  PROVE  UndoInv'
<1> USE DEF UndoInv
<1>1. /\ store' = Restored(u) /\ clashed' = clashed /\ phase[u] = "open"
      /\ phase' = [phase EXCEPT ![u] = "aborted"]
      /\ journal' = [journal EXCEPT ![u] = NoJournal]
      /\ audit' = audit
  BY DEF Rollback
<1>2. \A q \in DOMAIN journal[u] : q \in Rows /\ journal[u][q] \in Held
  BY JournalShape, MemoryStoreAssumption DEF MemoryStoreTypeOK
<1>3. \A q \in Rows : store'[q] = IF q \in DOMAIN journal[u] THEN journal[u][q] ELSE store[q]
  BY <1>1 DEF Restored
<1>4. MemoryStoreTypeOK'
  <2>1. store' \in [Rows -> Held]
    BY <1>1, <1>2 DEF Restored, MemoryStoreTypeOK, Held
  <2> QED
    BY <1>1, <2>1, NoJournalShape DEF MemoryStoreTypeOK, Journals, Held
<1>5. ClosedJournalsEmpty'
  BY <1>1 DEF MemoryStoreTypeOK, ClosedJournalsEmpty
<1>6. ASSUME ~clashed' PROVE ReplayHarmless'
  <2>1. ReplayHarmless
    BY <1>1, <1>6
  <2>2. \A v, w \in Units : v # w => DOMAIN journal'[v] \cap DOMAIN journal'[w] = {}
    BY <1>1, <2>1, NoJournalShape DEF ReplayHarmless, MemoryStoreTypeOK
  <2>3. ASSUME NEW v \in Units, NEW q \in DOMAIN journal'[v]
        PROVE  /\ store'[q].unit = v
               /\ journal'[v][q] # Initial => phase'[journal'[v][q].unit] = "committed"
    <3>1. v # u /\ journal'[v] = journal[v] /\ q \in DOMAIN journal[v]
      BY <1>1, NoJournalShape DEF MemoryStoreTypeOK
    <3>2. q \in Rows /\ q \notin DOMAIN journal[u] /\ journal[v][q] \in Held
      BY <2>1, <3>1, JournalShape, MemoryStoreAssumption DEF ReplayHarmless, MemoryStoreTypeOK
    <3> QED
      BY <1>1, <1>3, <2>1, <3>1, <3>2, InitialIsNoWrite DEF ReplayHarmless, MemoryStoreTypeOK
  <2>4. \A q \in Rows : store'[q] # Initial =>
          /\ phase'[store'[q].unit] # "new"
          /\ phase'[store'[q].unit] = "open" => q \in DOMAIN journal'[store'[q].unit]
    BY <1>1, <1>2, <1>3, <2>1, InitialIsNoWrite DEF ReplayHarmless, MemoryStoreTypeOK, Held
  <2> QED
    BY <2>2, <2>3, <2>4 DEF ReplayHarmless
<1>7. NoPartialData'
  BY <1>1, <1>2, <1>3, InitialIsNoWrite DEF MemoryStoreTypeOK, ReplayHarmless, NoPartialData
<1> QED
  BY <1>4, <1>5, <1>6, <1>7

-----------------------------------------------------------------------------
(* The theorems. *)

\* Every step of every unit keeps the invariant.
LEMMA UndoNext == UndoInv /\ [MemoryStoreNext]_memoryStoreVars => UndoInv'
<1> SUFFICES ASSUME UndoInv, [MemoryStoreNext]_memoryStoreVars PROVE UndoInv'
  OBVIOUS
<1>1. CASE UNCHANGED memoryStoreVars
  BY <1>1 DEF memoryStoreVars, UndoInv, MemoryStoreTypeOK, ClosedJournalsEmpty,
              ReplayHarmless, NoPartialData, Journals, Initial, Written, NoJournal
<1>2. CASE MemoryStoreNext
  <2>1. PICK u \in Units : \/ Begin(u) \/ Commit(u) \/ Rollback(u)
                           \/ \E r \in Touches[u] : Save(u, r)
    BY <1>2 DEF MemoryStoreNext
  <2> QED
    BY <2>1, BeginInv, CommitInv, RollbackInv, SaveInv
<1> QED
  BY <1>1, <1>2

\* The undo journal's invariant holds for any units, rows and touched rows.
THEOREM UndoInvariant == MemoryStoreSpec => []UndoInv
<1>1. MemoryStoreInit => UndoInv
  BY UndoInit
<1>2. UndoInv /\ [MemoryStoreNext]_memoryStoreVars => UndoInv'
  BY UndoNext
<1> QED
  BY <1>1, <1>2, PTL DEF MemoryStoreSpec

\* A failed unit of work leaves nothing behind as long as no two open units
\* write one row, and the audit log names committed units only.
THEOREM RollbackLeavesNothing == MemoryStoreSpec => []NoPartialData
<1>1. UndoInv => NoPartialData
  BY DEF UndoInv
<1> QED
  BY <1>1, UndoInvariant, PTL

\* A committed write is replaced only by a later write of an open unit, whose
\* journal keeps it.
THEOREM CommittedWritesStay == MemoryStoreSpec => CommittedWritesKept
<1> DEFINE Kept(r) ==
      /\ ~clashed'
      /\ store[r] # Initial /\ store'[r] # store[r]
      /\ phase[store[r].unit] = "committed"
      => store'[r] # Initial /\ phase'[store'[r].unit] = "open"
         /\ store'[r].unit # store[r].unit
         /\ journal'[store'[r].unit][r] = store[r]
<1>1. UndoInv /\ [MemoryStoreNext]_memoryStoreVars
        => [\A r \in Rows : Kept(r)]_memoryStoreVars
  <2> SUFFICES ASSUME UndoInv, MemoryStoreNext, NEW r \in Rows,
                      ~clashed', store[r] # Initial, store'[r] # store[r],
                      phase[store[r].unit] = "committed"
               PROVE  store'[r] # Initial /\ phase'[store'[r].unit] = "open"
                      /\ store'[r].unit # store[r].unit
                      /\ journal'[store'[r].unit][r] = store[r]
    OBVIOUS
  <2>1. PICK u \in Units : \/ Begin(u) \/ Commit(u) \/ Rollback(u)
                           \/ \E q \in Touches[u] : Save(u, q)
    BY DEF MemoryStoreNext
  <2>2. CASE Begin(u) \/ Commit(u)
    BY <2>2 DEF Begin, Commit
  <2>3. CASE Rollback(u)
    \* the rows it restores are its own, so none of them was committed
    BY <2>3 DEF Rollback, Restored, UndoInv, ReplayHarmless
  <2>4. ASSUME NEW q \in Touches[u], Save(u, q)
        PROVE  store'[r] # Initial /\ phase'[store'[r].unit] = "open"
               /\ store'[r].unit # store[r].unit
               /\ journal'[store'[r].unit][r] = store[r]
    <3>1. q = r /\ phase[u] = "open" /\ phase' = phase /\ store'[r].unit = u
      BY <2>4 DEF Save, UndoInv, MemoryStoreTypeOK
    <3>2. store'[r] # Initial
      BY <3>1, MemoryStoreAssumption DEF Initial
    <3>3. store[r].unit # u /\ ~clashed /\ ReplayHarmless
      BY <2>4, <3>1 DEF Save, UndoInv
    <3>4. r \notin DOMAIN journal[u]
      BY <3>3 DEF ReplayHarmless
    <3>5. journal'[u] = Capture(u, r)
      BY <2>4, <3>1 DEF Save, UndoInv, MemoryStoreTypeOK
    <3>6. journal'[u][r] = store[r]
      BY <2>4, <3>1, <3>4, <3>5, CaptureShape DEF UndoInv
    <3> QED
      BY <3>1, <3>2, <3>3, <3>6
  <2> QED
    BY <2>1, <2>2, <2>3, <2>4
<1> QED
  BY <1>1, UndoInvariant, PTL DEF MemoryStoreSpec, CommittedWritesKept

-----------------------------------------------------------------------------
(* Accounts, roles and the credential cache. *)

\* The types of the provisioning state, the lookups and the cache.
AdminOps == {"none", "evict", "create", "assign", "rotate", "revoke", "open", "close", "upsert", "delete"}
TxOK(t) ==
    /\ t.op \in AdminOps
    /\ t.op \in {"create", "assign"} => t.arg \subseteq RoleNames /\ t.locks = t.arg /\ t.mode = "share"
    /\ t.op \in {"create", "assign", "rotate", "revoke"} => t.id \in AccountIds
    /\ t.op \in {"upsert", "delete"} => t.id \in RoleNames
    /\ t.op = "delete" => t.locks = {t.id} /\ t.mode = "update"
    /\ t.op = "evict" => t.all \in BOOLEAN
LookupOK(l) ==
    \/ l.ph = "none"
    \/ l \in [ph : {"row", "roles", "store"}, tok : Tokens, at : 0..now, names : SUBSET RoleNames, denied : BOOLEAN]
AccountsTypeOK ==
    /\ tenantActive \in BOOLEAN
    /\ account \in [AccountIds -> [st : {"none", "live"}, secret : Nat, active : BOOLEAN, roles : SUBSET RoleNames]]
    /\ role \in [RoleNames -> {"live", "none"}]
    /\ DOMAIN adm = Admins /\ \A p \in Admins : TxOK(adm[p])
    /\ DOMAIN cli = Clients /\ \A c \in Clients : LookupOK(cli[c])
    /\ authCache \in [AuthReplicas -> [Tokens -> [set : BOOLEAN, expires : Nat, denied : BOOLEAN]]]
    /\ now \in 0..MaxAuthTick
    /\ deadSince \in [Tokens -> 0..Never]
    /\ evicted \subseteq AuthReplicas \X Tokens /\ wrong \in BOOLEAN

\* What the locks on roles protect until the commit: the roles a creation or an
\* assignment is about to write are there, and nobody names, or is about to
\* name, the role a deletion is about to remove.
LocksProtectRoles ==
    \A p \in Admins :
        /\ adm[p].op \in {"create", "assign"} => \A n \in adm[p].arg : role[n] = "live"
        /\ adm[p].op = "delete" =>
              /\ \A a \in AccountIds : adm[p].id \notin account[a].roles
              /\ \A q \in Admins : adm[q].op \in {"create", "assign"} => adm[p].id \notin adm[q].arg

\* A lookup past the row, and an entry of the cache, was judged while its token
\* was valid: the token died, if it did, no earlier than the clock was read.
LookupsJudgedAlive ==
    /\ \A k \in Tokens : deadSince[k] # Never => deadSince[k] <= now /\ ~Valid(k)
    /\ \A c \in Clients : cli[c].ph \in {"roles", "store"} =>
          deadSince[cli[c].tok] = Never \/ cli[c].at <= deadSince[cli[c].tok]
EntriesJudgedAlive ==
    \A r \in AuthReplicas : \A k \in Tokens : authCache[r][k].set =>
        /\ authCache[r][k].expires <= now + AuthTTL
        /\ deadSince[k] = Never \/ authCache[r][k].expires <= deadSince[k] + AuthTTL

\* An evicted token is not valid and no lookup that will cache it is under way.
NothingRevives ==
    \A e \in evicted :
        /\ ~Valid(e[2])
        /\ \A c \in Clients : cli[c].ph \in {"roles", "store"} /\ AuthOn[c] = e[1] => cli[c].tok # e[2]

\* The inductive invariant of provisioning and the credential cache.
AccountsStrong ==
    /\ AccountsTypeOK /\ LocksProtectRoles /\ LookupsJudgedAlive /\ EntriesJudgedAlive /\ NothingRevives
    /\ AccountsInv

\* An open transaction holds the locks it asked for, and judged its roles.
LEMMA OpenTxKeeps ==
  ASSUME AccountsStrong, NEW p \in Admins, NEW op \in AdminOps, NEW id, NEW arg, NEW names, NEW mode,
         OpenTx(p, op, id, arg, names, mode),
         TxOK([op |-> op, id |-> id, arg |-> arg, locks |-> names, mode |-> mode]),
         op # "evict",
         op \in {"create", "assign"} => \A n \in arg : role[n] = "live",
         op = "delete" => \A a \in AccountIds : id \notin account[a].roles
  PROVE  AccountsStrong'
<1> DEFINE t == [op |-> op, id |-> id, arg |-> arg, locks |-> names, mode |-> mode]
<1>t. t.op = op /\ t.id = id /\ t.arg = arg /\ t.locks = names /\ t.mode = mode /\ TxOK(t)
  OBVIOUS
<1>1. /\ UNCHANGED <<tenantActive, account, role, cli, authCache, now, deadSince, evicted, wrong>>
      /\ adm' = [adm EXCEPT ![p] = t]
      /\ adm[p].op = "none"
      /\ Lockable(p, names, mode)
  BY DEF OpenTx
<1> HIDE DEF t
<1>2. /\ DOMAIN adm = Admins /\ DOMAIN adm' = Admins
      /\ adm'[p] = t
      /\ \A q \in Admins \ {p} : adm'[q] = adm[q]
      /\ \A q \in Admins : TxOK(adm[q])
  BY <1>1 DEF AccountsStrong, AccountsTypeOK
<1>3. AccountsTypeOK'
  <2>1. \A q \in Admins : TxOK(adm'[q])
    BY <1>2, <1>t
  <2> QED
    BY <1>1, <1>2, <2>1 DEF AccountsStrong, AccountsTypeOK, TxOK, LookupOK, Tokens, Never, AdminOps
<1>4. LocksProtectRoles'
  <2>1. ASSUME NEW q \in Admins, adm'[q].op \in {"create", "assign"}
        PROVE  \A n \in adm'[q].arg : role'[n] = "live"
    BY <1>1, <1>2, <1>t, <2>1 DEF AccountsStrong, LocksProtectRoles
  <2>2. ASSUME NEW q \in Admins, adm'[q].op = "delete", NEW a \in AccountIds
        PROVE  adm'[q].id \notin account'[a].roles
    BY <1>1, <1>2, <1>t, <2>2 DEF AccountsStrong, LocksProtectRoles
  <2>3. ASSUME NEW q \in Admins, adm'[q].op = "delete", NEW u \in Admins, adm'[u].op \in {"create", "assign"}
        PROVE  adm'[q].id \notin adm'[u].arg
    <3>1. CASE q = p
      <4>1. u # p /\ adm'[u] = adm[u] /\ op = "delete" /\ names = {id} /\ mode = "update"
        BY <1>2, <1>t, <2>3, <3>1 DEF TxOK
      <4>2. adm[u].locks = adm[u].arg /\ adm[u].mode = "share" /\ adm[u].op # "none"
        BY <1>2, <4>1, <2>3 DEF TxOK
      <4>3. ~Holds(u, id, {"update", "share"})
        BY <1>1, <4>1 DEF Lockable
      <4> QED
        BY <1>2, <1>t, <3>1, <4>1, <4>2, <4>3 DEF Holds
    <3>2. CASE q # p /\ u = p
      <4>1. adm'[q] = adm[q] /\ op \in {"create", "assign"} /\ names = arg /\ mode = "share"
        BY <1>2, <1>t, <2>3, <3>2 DEF TxOK
      <4>2. adm[q].locks = {adm[q].id} /\ adm[q].mode = "update" /\ adm[q].op # "none"
        BY <1>2, <4>1, <2>3, <3>2 DEF TxOK
      <4>3. \A n \in names : ~Holds(q, n, {"update"})
        BY <1>1, <4>1, <3>2 DEF Lockable
      <4> QED
        BY <1>2, <1>t, <3>2, <4>1, <4>2, <4>3 DEF Holds
    <3>3. CASE q # p /\ u # p
      BY <1>2, <2>3, <3>3 DEF AccountsStrong, LocksProtectRoles
    <3> QED
      BY <3>1, <3>2, <3>3
  <2> QED
    BY <2>1, <2>2, <2>3 DEF LocksProtectRoles
<1>5. LookupsJudgedAlive' /\ EntriesJudgedAlive' /\ NothingRevives' /\ AccountsInv'
  BY <1>1 DEF AccountsStrong, LookupsJudgedAlive, EntriesJudgedAlive, NothingRevives, AccountsInv, Valid, ValidIn,
     NoDanglingRole, TrustIsBounded, StopsHere, Never
<1> QED
  BY <1>3, <1>4, <1>5 DEF AccountsStrong

\* The initial state.
LEMMA AccountsStart == AccountsInit => AccountsStrong
<1> SUFFICES ASSUME AccountsInit PROVE AccountsStrong
  OBVIOUS
<1>1. AccountsTypeOK
  <2>1. TxOK(NoAdm) /\ LookupOK(NoLookup)
    BY DEF TxOK, LookupOK, NoAdm, NoLookup, AdminOps
  <2>2. NoAccount \in [st : {"none", "live"}, secret : Nat, active : BOOLEAN, roles : SUBSET RoleNames]
    BY DEF NoAccount
  <2>3. NoEntry \in [set : BOOLEAN, expires : Nat, denied : BOOLEAN]
    BY DEF NoEntry
  <2>4. now \in 0..MaxAuthTick /\ deadSince \in [Tokens -> 0..Never]
    BY AccountsAssumption DEF AccountsInit, Never
  <2>5. \A p \in Admins : adm[p] = NoAdm
    BY DEF AccountsInit
  <2>6. \A c \in Clients : cli[c] = NoLookup
    BY DEF AccountsInit
  <2>7. DOMAIN adm = Admins /\ DOMAIN cli = Clients
    BY DEF AccountsInit
  <2> QED
    BY <2>1, <2>2, <2>3, <2>4, <2>5, <2>6, <2>7 DEF AccountsInit, AccountsTypeOK
<1>2. LocksProtectRoles /\ LookupsJudgedAlive /\ NothingRevives /\ AccountsInv
  BY DEF AccountsInit, LocksProtectRoles, LookupsJudgedAlive, NothingRevives, AccountsInv, NoDanglingRole,
     TrustIsBounded, StopsHere, NoAccount, NoAdm, NoLookup
<1>3. EntriesJudgedAlive
  BY DEF AccountsInit, EntriesJudgedAlive, NoEntry
<1> QED
  BY <1>1, <1>2, <1>3 DEF AccountsStrong

\* Every operation that opens a transaction.
LEMMA OpeningKeeps ==
  ASSUME AccountsStrong, NEW p \in Admins,
         \/ \E a \in AccountIds : \/ \E S \in SUBSET RoleNames : CreateAccount(p, a, S) \/ AssignRoles(p, a, S)
                                  \/ RotateSecret(p, a) \/ Revoke(p, a)
         \/ \E n \in RoleNames : UpsertRole(p, n) \/ DeleteRole(p, n)
         \/ \E on \in BOOLEAN : SetTenantActive(p, on)
  PROVE  AccountsStrong'
<1>1. ASSUME NEW a \in AccountIds, NEW S \in SUBSET RoleNames, CreateAccount(p, a, S) \/ AssignRoles(p, a, S)
      PROVE  AccountsStrong'
  <2>1. \A n \in S : role[n] = "live"
    BY <1>1 DEF CreateAccount, AssignRoles, CheckRolesExist
  <2>2. PICK op \in {"create", "assign"} : OpenTx(p, op, a, S, S, "share")
    BY <1>1 DEF CreateAccount, AssignRoles, SharedRoles
  <2>3. TxOK([op |-> op, id |-> a, arg |-> S, locks |-> S, mode |-> "share"])
    BY DEF TxOK, AdminOps
  <2> QED
    BY <2>1, <2>2, <2>3, OpenTxKeeps DEF AdminOps
<1>2. ASSUME NEW a \in AccountIds, RotateSecret(p, a) \/ Revoke(p, a)
      PROVE  AccountsStrong'
  <2>2. PICK op \in {"rotate", "revoke"} : OpenTx(p, op, a, {}, {}, "share")
    BY <1>2 DEF RotateSecret, Revoke
  <2>3. TxOK([op |-> op, id |-> a, arg |-> {}, locks |-> {}, mode |-> "share"])
    BY DEF TxOK, AdminOps
  <2> QED
    BY <2>2, <2>3, OpenTxKeeps DEF AdminOps
<1>3. ASSUME NEW n \in RoleNames, UpsertRole(p, n)
      PROVE  AccountsStrong'
  <2>2. PICK S : OpenTx(p, "upsert", n, {}, S, "update")
    BY <1>3 DEF UpsertRole
  <2>3. TxOK([op |-> "upsert", id |-> n, arg |-> {}, locks |-> S, mode |-> "update"])
    BY DEF TxOK, AdminOps
  <2> QED
    BY <2>2, <2>3, OpenTxKeeps DEF AdminOps
<1>4. ASSUME NEW n \in RoleNames, DeleteRole(p, n)
      PROVE  AccountsStrong'
  <2>1. OpenTx(p, "delete", n, {}, {n}, "update") /\ \A a \in AccountIds : n \notin account[a].roles
    BY <1>4 DEF DeleteRole
  <2>3. TxOK([op |-> "delete", id |-> n, arg |-> {}, locks |-> {n}, mode |-> "update"])
    BY DEF TxOK, AdminOps
  <2> QED
    BY <2>1, <2>3, OpenTxKeeps DEF AdminOps
<1>5. ASSUME NEW on \in BOOLEAN, SetTenantActive(p, on)
      PROVE  AccountsStrong'
  <2>2. PICK op \in {"open", "close"} : OpenTx(p, op, "tenant", {}, {}, "share")
    BY <1>5 DEF SetTenantActive
  <2>3. TxOK([op |-> op, id |-> "tenant", arg |-> {}, locks |-> {}, mode |-> "share"])
    BY DEF TxOK, AdminOps
  <2> QED
    BY <2>2, <2>3, OpenTxKeeps DEF AdminOps
<1> QED
  BY <1>1, <1>2, <1>3, <1>4, <1>5

\* What the commit of a transaction writes.
LEMMA NewAccountKeeps ==
  ASSUME AccountsTypeOK, NEW t, TxOK(t)
  PROVE  /\ NewAccount(t) \in [AccountIds -> [st : {"none", "live"}, secret : Nat, active : BOOLEAN, roles : SUBSET RoleNames]]
         /\ \A a \in AccountIds :
               \/ NewAccount(t)[a].roles = account[a].roles
               \/ t.op \in {"create", "assign"} /\ NewAccount(t)[a].roles = t.arg
<1>1. CASE t.op = "create"
  BY <1>1 DEF NewAccount, AccountsTypeOK, TxOK
<1>2. CASE t.op = "assign"
  BY <1>2 DEF NewAccount, AccountsTypeOK, TxOK
<1>3. CASE t.op = "rotate"
  <2>1. t.id \in AccountIds /\ account[t.id].secret \in Nat
    BY <1>3 DEF AccountsTypeOK, TxOK
  <2>2. PICK s \in Nat : s = IF account[t.id].secret < MaxSecret THEN account[t.id].secret + 1 ELSE account[t.id].secret
    BY <2>1, AccountsAssumption
  <2>3. NewAccount(t) = [account EXCEPT ![t.id].secret = s]
    BY <1>3, <2>2 DEF NewAccount
  <2>4. \A a \in AccountIds : account[a] \in [st : {"none", "live"}, secret : Nat, active : BOOLEAN, roles : SUBSET RoleNames]
    BY DEF AccountsTypeOK
  <2>5. [account[t.id] EXCEPT !.secret = s] \in [st : {"none", "live"}, secret : Nat, active : BOOLEAN, roles : SUBSET RoleNames]
    BY <2>1, <2>4
  <2>6. [account[t.id] EXCEPT !.secret = s].roles = account[t.id].roles
    BY <2>1, <2>4
  <2> QED
    BY <2>1, <2>3, <2>4, <2>5, <2>6 DEF AccountsTypeOK
<1>4. CASE t.op = "revoke"
  BY <1>4 DEF NewAccount, AccountsTypeOK, TxOK
<1>5. CASE t.op \notin {"create", "assign", "rotate", "revoke"}
  BY <1>5 DEF NewAccount, AccountsTypeOK
<1> QED
  BY <1>1, <1>2, <1>3, <1>4, <1>5

\* A commit removes no role but the one its deletion names.
LEMMA NewRoleKeeps ==
  ASSUME AccountsTypeOK, NEW t, TxOK(t)
  PROVE  /\ NewRole(t) \in [RoleNames -> {"live", "none"}]
         /\ \A n \in RoleNames : NewRole(t)[n] = "live" \/ NewRole(t)[n] = role[n] \/ (t.op = "delete" /\ n = t.id)
<1>1. CASE t.op = "upsert"
  BY <1>1 DEF NewRole, AccountsTypeOK, TxOK
<1>2. CASE t.op = "delete"
  BY <1>2 DEF NewRole, AccountsTypeOK, TxOK
<1>3. CASE t.op \notin {"upsert", "delete"}
  BY <1>3 DEF NewRole, AccountsTypeOK
<1> QED
  BY <1>1, <1>2, <1>3

\* The commit of a provisioning request keeps the invariant.
LEMMA CommitKeeps ==
  ASSUME AccountsStrong, NEW p \in Admins, CommitAdmin(p)
  PROVE  AccountsStrong'
<1> DEFINE t == adm[p]
<1> DEFINE e0 == [op |-> "evict", id |-> t.id, locks |-> {}, mode |-> "share",
                  all |-> t.op \in {"open", "close", "upsert", "delete"}]
<1>e. e0.op = "evict" /\ TxOK(e0)
  BY DEF TxOK, AdminOps
<1>1. /\ t.op \notin {"none", "evict"}
      /\ account' = NewAccount(t) /\ role' = NewRole(t)
      /\ tenantActive' \in {TRUE, FALSE, tenantActive}
      /\ adm' = [adm EXCEPT ![p] = e0]
      /\ evicted' = {e \in evicted : ~ValidIn(tenantActive', account', e[2])}
      /\ UNCHANGED <<cli, authCache, now, wrong, ops>>
  BY DEF CommitAdmin
<1>d. /\ deadSince' = [k \in Tokens |->
         IF Valid(k) /\ ~ValidIn(tenantActive', account', k) THEN now
         ELSE IF ~Valid(k) /\ ValidIn(tenantActive', account', k) THEN Never
         ELSE deadSince[k]]
  BY DEF CommitAdmin
<1>v. \A k : Valid(k)' <=> ValidIn(tenantActive', account', k)
  BY DEF Valid, ValidIn
<1> HIDE DEF e0
<1>2. /\ DOMAIN adm = Admins /\ DOMAIN adm' = Admins
      /\ adm'[p] = e0
      /\ \A q \in Admins \ {p} : adm'[q] = adm[q]
      /\ \A q \in Admins : TxOK(adm[q])
  BY <1>1 DEF AccountsStrong, AccountsTypeOK
<1>3. /\ account' \in [AccountIds -> [st : {"none", "live"}, secret : Nat, active : BOOLEAN, roles : SUBSET RoleNames]]
      /\ \A a \in AccountIds : \/ account'[a].roles = account[a].roles
                               \/ t.op \in {"create", "assign"} /\ account'[a].roles = t.arg
  BY <1>1, <1>2, NewAccountKeeps DEF AccountsStrong
<1>4. /\ role' \in [RoleNames -> {"live", "none"}]
      /\ \A n \in RoleNames : role'[n] = "live" \/ role'[n] = role[n] \/ (t.op = "delete" /\ n = t.id)
  BY <1>1, <1>2, NewRoleKeeps DEF AccountsStrong
<1>n. now \in Nat /\ now <= MaxAuthTick /\ Never \in Nat /\ now < Never /\ 0..Never \subseteq Nat
  BY AccountsAssumption DEF AccountsStrong, AccountsTypeOK, Never
<1>5. \A k \in Tokens : /\ deadSince'[k] \in {now, Never, deadSince[k]}
                        /\ deadSince'[k] # Never => deadSince'[k] <= now /\ ~Valid(k)'
                        /\ deadSince'[k] \in {deadSince[k], Never} \/ deadSince'[k] = now
                        /\ deadSince[k] \in 0..Never
  BY <1>d, <1>v, <1>n DEF AccountsStrong, LookupsJudgedAlive, AccountsTypeOK
<1>6. AccountsTypeOK'
  <2>1. \A q \in Admins : TxOK(adm'[q])
    BY <1>2, <1>e
  <2>2. deadSince' \in [Tokens -> 0..Never]
    BY <1>d, <1>5, <1>n
  <2>3. tenantActive' \in BOOLEAN
    BY <1>1 DEF AccountsStrong, AccountsTypeOK
  <2>4. \A c \in Clients : LookupOK(cli[c])' 
    BY <1>1 DEF AccountsStrong, AccountsTypeOK, LookupOK, Tokens
  <2>5. \A q \in Admins : TxOK(adm[q])' 
    BY <1>2, <2>1 DEF TxOK, AdminOps
  <2> QED
    BY <1>1, <1>2, <1>3, <1>4, <2>2, <2>3, <2>4, <2>5 DEF AccountsStrong, AccountsTypeOK, Tokens, Never
<1>7. LocksProtectRoles'
  <2>1. ASSUME NEW q \in Admins, adm'[q].op \in {"create", "assign"}, NEW n \in adm'[q].arg
        PROVE  role'[n] = "live"
    <3>1. q # p /\ adm'[q] = adm[q] /\ n \in RoleNames /\ role[n] = "live"
      BY <1>2, <1>e, <2>1 DEF AccountsStrong, LocksProtectRoles, TxOK
    <3>2. ~(t.op = "delete" /\ n = t.id)
      BY <3>1, <2>1, <1>2 DEF AccountsStrong, LocksProtectRoles
    <3> QED
      BY <3>1, <3>2, <1>4
  <2>2. ASSUME NEW q \in Admins, adm'[q].op = "delete", NEW a \in AccountIds
        PROVE  adm'[q].id \notin account'[a].roles
    <3>1. q # p /\ adm'[q] = adm[q]
      BY <1>2, <1>e, <2>2
    <3> QED
      BY <3>1, <2>2, <1>3 DEF AccountsStrong, LocksProtectRoles
  <2>3. ASSUME NEW q \in Admins, adm'[q].op = "delete", NEW u \in Admins, adm'[u].op \in {"create", "assign"}
        PROVE  adm'[q].id \notin adm'[u].arg
    <3>1. q # p /\ adm'[q] = adm[q] /\ u # p /\ adm'[u] = adm[u]
      BY <1>2, <1>e, <2>3
    <3> QED
      BY <3>1, <2>3 DEF AccountsStrong, LocksProtectRoles
  <2> QED
    BY <2>1, <2>2, <2>3 DEF LocksProtectRoles
<1>8. LookupsJudgedAlive'
  <2>1. ASSUME NEW c \in Clients, cli'[c].ph \in {"roles", "store"}
        PROVE  deadSince'[cli'[c].tok] = Never \/ cli'[c].at <= deadSince'[cli'[c].tok]
    <3>1. cli'[c] = cli[c] /\ cli[c].tok \in Tokens /\ cli[c].at \in 0..now
      BY <1>1, <2>1 DEF AccountsStrong, AccountsTypeOK, LookupOK
    <3>2. deadSince[cli[c].tok] = Never \/ cli[c].at <= deadSince[cli[c].tok]
      BY <3>1, <2>1 DEF AccountsStrong, LookupsJudgedAlive
    <3> QED
      BY <3>1, <3>2, <1>5, <1>n
  <2> QED
    BY <2>1, <1>5, <1>1 DEF LookupsJudgedAlive, Tokens, Never
<1>9. EntriesJudgedAlive'
  <2>1. ASSUME NEW r \in AuthReplicas, NEW k \in Tokens, authCache'[r][k].set
        PROVE  /\ authCache'[r][k].expires <= now + AuthTTL
               /\ deadSince'[k] = Never \/ authCache'[r][k].expires <= deadSince'[k] + AuthTTL
    <3>1. authCache'[r][k] = authCache[r][k] /\ authCache[r][k].expires \in Nat
      BY <1>1 DEF AccountsStrong, AccountsTypeOK
    <3>2. /\ authCache[r][k].expires <= now + AuthTTL
          /\ deadSince[k] = Never \/ authCache[r][k].expires <= deadSince[k] + AuthTTL
      BY <3>1, <2>1 DEF AccountsStrong, EntriesJudgedAlive
    <3> QED
      BY <3>1, <3>2, <1>5, <1>n, AccountsAssumption
  <2> QED
    BY <2>1, <1>1 DEF EntriesJudgedAlive, Tokens, Never
<1>10. NothingRevives'
  BY <1>1, <1>v DEF AccountsStrong, NothingRevives
<1>11. AccountsInv'
  <2>1. ASSUME NEW a \in AccountIds, NEW n \in account'[a].roles PROVE role'[n] = "live"
    <3>1. n \in RoleNames
      BY <1>3
    <3>2. CASE account'[a].roles = account[a].roles
      <4>1. role[n] = "live"
        BY <3>2 DEF AccountsStrong, AccountsInv, NoDanglingRole
      <4>2. ~(t.op = "delete" /\ n = t.id)
        BY <3>2 DEF AccountsStrong, LocksProtectRoles
      <4> QED
        BY <3>1, <4>1, <4>2, <1>4
    <3>3. CASE t.op \in {"create", "assign"} /\ account'[a].roles = t.arg
      <4>1. role[n] = "live"
        BY <3>3 DEF AccountsStrong, LocksProtectRoles
      <4> QED
        BY <3>1, <3>3, <4>1, <1>4
    <3> QED
      BY <1>3, <3>2, <3>3
  <2> QED
    BY <2>1, <1>1 DEF AccountsStrong, AccountsInv, NoDanglingRole, TrustIsBounded, StopsHere
<1> QED
  BY <1>6, <1>7, <1>8, <1>9, <1>10, <1>11 DEF AccountsStrong

\* The eviction that follows a commit.
LEMMA EvictKeeps ==
  ASSUME AccountsStrong, NEW p \in Admins, Evict(p)
  PROVE  AccountsStrong'
<1> DEFINE t == adm[p]
<1> DEFINE r == AuthOn[p]
<1>1. /\ t.op = "evict"
      /\ authCache' = [authCache EXCEPT ![r] = [k \in Tokens |-> IF k \in Affected(t) THEN NoEntry ELSE authCache[r][k]]]
      /\ evicted' = evicted \cup {e \in {r} \X Tokens :
                      /\ IF t.all THEN TRUE ELSE e[2][1] = t.id
                      /\ ~Valid(e[2])
                      /\ \A c \in Clients : cli[c].ph # "none" /\ AuthOn[c] = r => cli[c].tok # e[2]}
      /\ adm' = [adm EXCEPT ![p] = NoAdm]
      /\ UNCHANGED <<tenantActive, account, role, cli, now, deadSince, wrong, ops>>
  BY DEF Evict
<1>r. r \in AuthReplicas
  BY AccountsAssumption
<1>2. /\ DOMAIN adm' = Admins
      /\ adm'[p] = NoAdm /\ NoAdm.op = "none" /\ TxOK(NoAdm)
      /\ \A q \in Admins \ {p} : adm'[q] = adm[q]
      /\ \A q \in Admins : TxOK(adm[q])
  BY <1>1 DEF AccountsStrong, AccountsTypeOK, NoAdm, TxOK, AdminOps
<1>3. /\ NoEntry \in [set : BOOLEAN, expires : Nat, denied : BOOLEAN]
      /\ ~NoEntry.set
  BY DEF NoEntry
<1>4. /\ \A x \in AuthReplicas, k \in Tokens :
            \/ authCache'[x][k] = authCache[x][k]
            \/ authCache'[x][k] = NoEntry
      /\ \A k \in Tokens : k \in Affected(t) => authCache'[r][k] = NoEntry
  BY <1>1, <1>r DEF AccountsStrong, AccountsTypeOK
<1>5. \A e \in evicted' : \/ e \in evicted
                         \/ /\ e[1] = r /\ e[2] \in Tokens /\ e[2] \in Affected(t)
                            /\ e \in AuthReplicas \X Tokens
                            /\ ~Valid(e[2])
                            /\ \A c \in Clients : cli[c].ph # "none" /\ AuthOn[c] = r => cli[c].tok # e[2]
  BY <1>1, <1>r DEF Affected
<1>6. AccountsTypeOK'
  <2>1. \A q \in Admins : TxOK(adm[q])'
    BY <1>2 DEF TxOK, AdminOps
  <2>2. \A c \in Clients : LookupOK(cli[c])'
    BY <1>1 DEF AccountsStrong, AccountsTypeOK, LookupOK, Tokens
  <2>3. authCache' \in [AuthReplicas -> [Tokens -> [set : BOOLEAN, expires : Nat, denied : BOOLEAN]]]
    <3> DEFINE new == [k \in Tokens |-> IF k \in Affected(t) THEN NoEntry ELSE authCache[r][k]]
    <3>1. new \in [Tokens -> [set : BOOLEAN, expires : Nat, denied : BOOLEAN]]
      BY <1>3, <1>r DEF AccountsStrong, AccountsTypeOK
    <3> HIDE DEF new
    <3>2. authCache' = [authCache EXCEPT ![r] = new]
      BY <1>1 DEF new
    <3> QED
      BY <3>1, <3>2, <1>r DEF AccountsStrong, AccountsTypeOK
  <2>4. evicted' \subseteq AuthReplicas \X Tokens
    BY <1>5 DEF AccountsStrong, AccountsTypeOK
  <2> QED
    BY <1>1, <1>2, <2>1, <2>2, <2>3, <2>4 DEF AccountsStrong, AccountsTypeOK, Tokens, Never
<1>7. LocksProtectRoles'
  <2>1. \A q \in Admins : adm'[q].op \in {"create", "assign", "delete"} => adm'[q] = adm[q]
    BY <1>2
  <2> QED
    BY <1>1, <2>1 DEF AccountsStrong, LocksProtectRoles
<1>8. LookupsJudgedAlive'
  BY <1>1 DEF AccountsStrong, LookupsJudgedAlive, Valid, ValidIn, Never, Tokens
<1>9. EntriesJudgedAlive'
  BY <1>1, <1>3, <1>4 DEF AccountsStrong, EntriesJudgedAlive, Never, Tokens
<1>10. NothingRevives'
  BY <1>1, <1>5 DEF AccountsStrong, NothingRevives, Valid, ValidIn
<1>11. StopsHere'
  <2>1. ASSUME NEW e \in evicted' PROVE ~authCache'[e[1]][e[2]].set
    <3>1. CASE e \in evicted
      <4>1. e[1] \in AuthReplicas /\ e[2] \in Tokens /\ ~authCache[e[1]][e[2]].set
        BY <3>1 DEF AccountsStrong, AccountsTypeOK, AccountsInv, StopsHere
      <4> QED
        BY <4>1, <1>3, <1>4
    <3>2. CASE e \notin evicted
      BY <3>2, <1>3, <1>4, <1>5
    <3> QED
      BY <3>1, <3>2
  <2> QED
    BY <2>1 DEF StopsHere
<1> QED
  BY <1>1, <1>6, <1>7, <1>8, <1>9, <1>10, <1>11 DEF AccountsStrong, AccountsInv, NoDanglingRole, TrustIsBounded

\* A cached entry that answers was judged less than a time to live ago.
LEMMA FromCacheKeeps ==
  ASSUME AccountsStrong, NEW c \in Clients, NEW k \in Tokens, FromCache(c, k)
  PROVE  AccountsStrong'
<1> DEFINE x == authCache[AuthOn[c]][k]
<1>1. /\ x.set /\ now < x.expires /\ wrong' = (wrong \/ Late(k, now))
      /\ UNCHANGED <<tenantActive, account, role, adm, cli, authCache, now, deadSince, evicted, ops>>
  BY DEF FromCache
<1>2. AuthOn[c] \in AuthReplicas
  BY AccountsAssumption
<1>3. x.expires \in Nat /\ now \in Nat /\ deadSince[k] \in Nat
  BY <1>2, AccountsAssumption DEF AccountsStrong, AccountsTypeOK, Never
<1>4. deadSince[k] = Never \/ x.expires <= deadSince[k] + AuthTTL
  BY <1>1, <1>2 DEF AccountsStrong, EntriesJudgedAlive
<1>5. ~Late(k, now)
  BY <1>1, <1>3, <1>4, AccountsAssumption DEF Late
<1>6. wrong' = FALSE
  BY <1>1, <1>5 DEF AccountsStrong, AccountsInv, TrustIsBounded
<1> QED
  BY <1>1, <1>6 DEF AccountsStrong, AccountsTypeOK, LocksProtectRoles, LookupsJudgedAlive, EntriesJudgedAlive,
     NothingRevives, AccountsInv, NoDanglingRole, TrustIsBounded, StopsHere, Valid, ValidIn, TxOK, LookupOK, Never, Tokens, AdminOps

\* A lookup moves on: what is left to show of the lookup itself.
LEMMA LookupKeeps ==
  ASSUME AccountsStrong, NEW c \in Clients, NEW l, LookupOK(l), cli' = [cli EXCEPT ![c] = l],
         UNCHANGED <<tenantActive, account, role, adm, authCache, now, deadSince, evicted, wrong, ops>>,
         l.ph \in {"roles", "store"} =>
             \/ Valid(l.tok)
             \/ cli[c].ph \in {"roles", "store"} /\ l.tok = cli[c].tok /\ l.at = cli[c].at
  PROVE  AccountsStrong'
<1>1. /\ DOMAIN cli' = Clients /\ cli'[c] = l
      /\ \A d \in Clients \ {c} : cli'[d] = cli[d]
      /\ \A d \in Clients : LookupOK(cli[d])
  BY DEF AccountsStrong, AccountsTypeOK
<1>2. \A d \in Clients : LookupOK(cli[d])'
  BY <1>1 DEF LookupOK, Tokens
<1>3. LookupsJudgedAlive'
  <2>1. ASSUME NEW d \in Clients, cli'[d].ph \in {"roles", "store"}
        PROVE  deadSince[cli'[d].tok] = Never \/ cli'[d].at <= deadSince[cli'[d].tok]
    <3>1. CASE d = c /\ Valid(l.tok)
      BY <1>1, <2>1, <3>1 DEF AccountsStrong, LookupsJudgedAlive, LookupOK
    <3>2. CASE d # c \/ ~Valid(l.tok)
      BY <1>1, <2>1, <3>2 DEF AccountsStrong, LookupsJudgedAlive
    <3> QED
      BY <3>1, <3>2
  <2> QED
    BY <2>1 DEF AccountsStrong, LookupsJudgedAlive, Valid, ValidIn, Never, Tokens
<1>4. NothingRevives'
  <2>1. ASSUME NEW e \in evicted, NEW d \in Clients, cli'[d].ph \in {"roles", "store"}, AuthOn[d] = e[1]
        PROVE  cli'[d].tok # e[2]
    BY <1>1, <2>1 DEF AccountsStrong, NothingRevives
  <2> QED
    BY <2>1 DEF AccountsStrong, NothingRevives, Valid, ValidIn
<1> QED
  BY <1>1, <1>2, <1>3, <1>4 DEF AccountsStrong, AccountsTypeOK, LocksProtectRoles, EntriesJudgedAlive,
     AccountsInv, NoDanglingRole, TrustIsBounded, StopsHere, TxOK, Never, Tokens, AdminOps

\* The steps of a lookup before its answer is stored.
LEMMA LookupStepsKeep ==
  ASSUME AccountsStrong, NEW c \in Clients,
         (\E k \in Tokens : BeginLookup(c, k)) \/ ReadAccountRow(c) \/ ApplyRoles(c)
  PROVE  AccountsStrong'
<1>0. LookupOK(cli[c]) /\ LookupOK(NoLookup) /\ NoLookup.ph = "none" /\ now \in 0..now
  BY DEF AccountsStrong, AccountsTypeOK, LookupOK, NoLookup
<1>1. ASSUME NEW k \in Tokens, BeginLookup(c, k) PROVE AccountsStrong'
  <2> DEFINE l == [ph |-> "row", tok |-> k, at |-> now, names |-> {}, denied |-> FALSE]
  <2>1. LookupOK(l) /\ l.ph = "row"
    BY <1>0 DEF LookupOK
  <2>2. /\ cli' = [cli EXCEPT ![c] = l]
        /\ UNCHANGED <<tenantActive, account, role, adm, authCache, now, deadSince, evicted, wrong, ops>>
    BY <1>1 DEF BeginLookup
  <2> HIDE DEF l
  <2> QED
    BY <2>1, <2>2, LookupKeeps
<1>2. CASE ReadAccountRow(c)
  <2>1. /\ cli[c].ph = "row"
        /\ UNCHANGED <<tenantActive, account, role, adm, authCache, now, deadSince, evicted, wrong, ops>>
    BY <1>2 DEF ReadAccountRow
  <2>2. CASE Valid(cli[c].tok)
    <3> DEFINE l == [cli[c] EXCEPT !.ph = "roles", !.names = account[cli[c].tok[1]].roles]
    <3>1. cli' = [cli EXCEPT ![c] = l]
      BY <1>2, <2>2 DEF ReadAccountRow
    <3>2. account[cli[c].tok[1]].roles \in SUBSET RoleNames
      BY <1>0, <2>1 DEF LookupOK, Tokens, AccountsStrong, AccountsTypeOK
    <3>3. LookupOK(l) /\ l.tok = cli[c].tok
      BY <1>0, <2>1, <3>2 DEF LookupOK
    <3> HIDE DEF l
    <3> QED
      BY <2>1, <2>2, <3>1, <3>3, LookupKeeps
  <2>3. CASE ~Valid(cli[c].tok)
    <3>1. cli' = [cli EXCEPT ![c] = NoLookup]
      BY <1>2, <2>3 DEF ReadAccountRow
    <3> QED
      BY <2>1, <3>1, <1>0, LookupKeeps
  <2> QED
    BY <2>2, <2>3
<1>3. CASE ApplyRoles(c)
  <2>1. /\ cli[c].ph = "roles"
        /\ UNCHANGED <<tenantActive, account, role, adm, authCache, now, deadSince, evicted, wrong, ops>>
    BY <1>3 DEF ApplyRoles
  <2>2. PICK b \in BOOLEAN : b = \E n \in cli[c].names : role[n] # "live"
    OBVIOUS
  <2> DEFINE l == [[cli[c] EXCEPT !.ph = "store"] EXCEPT !.denied = b]
  <2>3. cli' = [cli EXCEPT ![c].ph = "store", ![c].denied = b]
    BY <1>3, <2>2 DEF ApplyRoles
  <2>4. cli' = [cli EXCEPT ![c] = l]
    BY <2>3 DEF AccountsStrong, AccountsTypeOK
  <2>5. LookupOK(l) /\ l.tok = cli[c].tok /\ l.at = cli[c].at /\ l.ph = "store"
    BY <1>0, <2>1 DEF LookupOK
  <2> HIDE DEF l
  <2> QED
    BY <2>1, <2>4, <2>5, LookupKeeps
<1> QED
  BY <1>1, <1>2, <1>3

\* The stored answer expires a time to live after the clock was read.
LEMMA StoreKeeps ==
  ASSUME AccountsStrong, NEW c \in Clients, StoreEntry(c)
  PROVE  AccountsStrong'
<1> DEFINE k == cli[c].tok
<1> DEFINE r == AuthOn[c]
<1> DEFINE x == [set |-> TRUE, expires |-> cli[c].at + AuthTTL, denied |-> cli[c].denied]
<1>1. /\ cli[c].ph = "store"
      /\ authCache' = [authCache EXCEPT ![r][k] = x]
      /\ wrong' = (wrong \/ Late(k, cli[c].at))
      /\ cli' = [cli EXCEPT ![c] = NoLookup]
      /\ UNCHANGED <<tenantActive, account, role, adm, now, deadSince, evicted, ops>>
  BY DEF StoreEntry, Expiry
<1>a. k \in Tokens /\ cli[c].at \in 0..now /\ cli[c].denied \in BOOLEAN /\ now \in 0..MaxAuthTick
  BY <1>1 DEF AccountsStrong, AccountsTypeOK, LookupOK
<1>2. /\ k \in Tokens /\ r \in AuthReplicas /\ cli[c].at \in Nat /\ cli[c].at <= now /\ now \in Nat
      /\ deadSince[k] \in Nat /\ cli[c].denied \in BOOLEAN
  BY <1>a, AccountsAssumption DEF AccountsStrong, AccountsTypeOK, Never
<1>3. deadSince[k] = Never \/ cli[c].at <= deadSince[k]
  BY <1>1 DEF AccountsStrong, LookupsJudgedAlive
<1>4. ~Late(k, cli[c].at)
  BY <1>2, <1>3, AccountsAssumption DEF Late
<1>5. wrong' = FALSE
  BY <1>1, <1>4 DEF AccountsStrong, AccountsInv, TrustIsBounded
<1>6. /\ DOMAIN cli' = Clients /\ cli'[c] = NoLookup /\ NoLookup.ph = "none" /\ LookupOK(NoLookup)
      /\ \A d \in Clients \ {c} : cli'[d] = cli[d]
      /\ \A d \in Clients : LookupOK(cli[d])
  BY <1>1 DEF AccountsStrong, AccountsTypeOK, NoLookup, LookupOK
<1>7. \A d \in Clients : LookupOK(cli[d])'
  BY <1>1, <1>6 DEF LookupOK, Tokens
<1>8. x \in [set : BOOLEAN, expires : Nat, denied : BOOLEAN] /\ x.expires = cli[c].at + AuthTTL
  BY <1>2, AccountsAssumption
<1> HIDE DEF x, k, r
<1>9. /\ authCache' \in [AuthReplicas -> [Tokens -> [set : BOOLEAN, expires : Nat, denied : BOOLEAN]]]
      /\ authCache'[r][k] = x
      /\ \A q \in AuthReplicas, j \in Tokens : q # r \/ j # k => authCache'[q][j] = authCache[q][j]
  BY <1>1, <1>2, <1>8 DEF AccountsStrong, AccountsTypeOK
<1>10. EntriesJudgedAlive'
  <2>1. ASSUME NEW q \in AuthReplicas, NEW j \in Tokens, authCache'[q][j].set
        PROVE  /\ authCache'[q][j].expires <= now + AuthTTL
               /\ deadSince[j] = Never \/ authCache'[q][j].expires <= deadSince[j] + AuthTTL
    <3>1. CASE q = r /\ j = k
      BY <1>2, <1>3, <1>8, <1>9, <3>1, AccountsAssumption
    <3>2. CASE q # r \/ j # k
      BY <1>9, <2>1, <3>2 DEF AccountsStrong, EntriesJudgedAlive
    <3> QED
      BY <3>1, <3>2
  <2> QED
    BY <2>1, <1>1 DEF EntriesJudgedAlive, Tokens, Never
<1>11. NothingRevives'
  BY <1>1, <1>6 DEF AccountsStrong, NothingRevives, Valid, ValidIn
<1>12. StopsHere'
  <2>1. ASSUME NEW e \in evicted PROVE ~authCache'[e[1]][e[2]].set
    <3>1. e[1] \in AuthReplicas /\ e[2] \in Tokens
      BY DEF AccountsStrong, AccountsTypeOK
    <3>2. ~(e[1] = r /\ e[2] = k)
      BY <1>1 DEF AccountsStrong, NothingRevives, r, k
    <3> QED
      BY <3>1, <3>2, <1>9 DEF AccountsStrong, AccountsInv, StopsHere
  <2> QED
    BY <1>1, <2>1 DEF StopsHere
<1>13. AccountsTypeOK'
  BY <1>1, <1>5, <1>6, <1>7, <1>9 DEF AccountsStrong, AccountsTypeOK, TxOK, Never, Tokens, AdminOps
<1>14. LookupsJudgedAlive'
  BY <1>1, <1>6 DEF AccountsStrong, LookupsJudgedAlive, Valid, ValidIn, Never, Tokens
<1> QED
  BY <1>1, <1>5, <1>10, <1>11, <1>12, <1>13, <1>14
  DEF AccountsStrong, LocksProtectRoles, AccountsInv, NoDanglingRole, TrustIsBounded

\* Time passes.
LEMMA TickKeeps ==
  ASSUME AccountsStrong, AuthTick
  PROVE  AccountsStrong'
<1>1. /\ now' = now + 1 /\ now \in Nat /\ now' \in 0..MaxAuthTick
      /\ UNCHANGED <<tenantActive, account, role, adm, cli, authCache, deadSince, evicted, wrong, ops>>
  BY AccountsAssumption DEF AuthTick, AccountsStrong, AccountsTypeOK
<1>2. \A c \in Clients : LookupOK(cli[c])'
  <2>1. 0..now \subseteq 0..now'
    BY <1>1
  <2> QED
    BY <1>1, <2>1 DEF AccountsStrong, AccountsTypeOK, LookupOK, Tokens
<1>3. AccountsTypeOK'
  BY <1>1, <1>2 DEF AccountsStrong, AccountsTypeOK, TxOK, Never, Tokens, AdminOps
<1>4. LookupsJudgedAlive'
  <2>1. \A k \in Tokens : deadSince[k] \in Nat
    BY AccountsAssumption DEF AccountsStrong, AccountsTypeOK, Never
  <2> QED
    BY <1>1, <2>1 DEF AccountsStrong, LookupsJudgedAlive, Valid, ValidIn, Never, Tokens
<1>5. EntriesJudgedAlive'
  <2>1. \A r \in AuthReplicas, k \in Tokens : authCache[r][k].expires \in Nat
    BY DEF AccountsStrong, AccountsTypeOK
  <2> QED
    BY <1>1, <2>1, AccountsAssumption DEF AccountsStrong, EntriesJudgedAlive, Never, Tokens
<1>6. LocksProtectRoles' /\ NothingRevives' /\ AccountsInv'
  BY <1>1 DEF AccountsStrong, LocksProtectRoles, NothingRevives, AccountsInv, NoDanglingRole, TrustIsBounded, StopsHere, Valid, ValidIn
<1> QED
  BY <1>3, <1>4, <1>5, <1>6 DEF AccountsStrong

\* For any operators, clients, replicas, accounts and roles: no account ever
\* names a role that is gone; a credential that stopped being valid is accepted
\* for less than a time to live after that; and on the replica that handled the
\* change nothing is cached for it any more (AccountsInv).
THEOREM AccountsInvariant == AccountsSpec => []AccountsInv
<1>1. AccountsStrong /\ [AccountsNext]_accountVars => AccountsStrong'
  <2> SUFFICES ASSUME AccountsStrong, [AccountsNext]_accountVars PROVE AccountsStrong'
    OBVIOUS
  <2>1. CASE UNCHANGED accountVars
    BY <2>1 DEF accountVars, AccountsStrong, AccountsTypeOK, LocksProtectRoles, LookupsJudgedAlive, EntriesJudgedAlive,
       NothingRevives, AccountsInv, NoDanglingRole, TrustIsBounded, StopsHere, Valid, ValidIn, TxOK, LookupOK, Never, Tokens, AdminOps
  <2>2. CASE AccountsNext
    BY <2>2, OpeningKeeps, CommitKeeps, EvictKeeps, FromCacheKeeps, LookupStepsKeep, StoreKeeps, TickKeeps DEF AccountsNext
  <2> QED
    BY <2>1, <2>2
<1>2. AccountsStrong => AccountsInv
  BY DEF AccountsStrong
<1> QED
  BY <1>1, <1>2, AccountsStart, PTL DEF AccountsSpec

-----------------------------------------------------------------------------
(* The process: what is left when the pool closes. *)

\* The tasks the argument speaks of.
CloseTask(n, p) == [name |-> n, priority |-> p]
HttpTask == CloseTask("http-server", 90)
RelayTask == CloseTask("outbox-relay", 60)
BackgroundTask == CloseTask("background-work", 20)
DatabaseTask == CloseTask("database", 10)

\* The rebuilds under way.
Rebuilding == {r \in ServedRequests : rebuild[r] = "running"}

\* The types of the process's state.
LifecycleTypeOK ==
    /\ serving \in BOOLEAN /\ entered \in BOOLEAN /\ overtime \in BOOLEAN /\ poolOpen \in BOOLEAN
    /\ served \in [ServedRequests -> {"new", "running", "checked", "scheduled", "done"}]
    /\ rebuild \in [ServedRequests -> {"none", "running", "done"}]
    /\ loop \in [Loops -> {"running", "stopped"}]
    /\ left \subseteq Teardown
    /\ signalled \in BOOLEAN
\* The wait group counts the rebuilds under way, and a request starts one at most.
RebuildsCounted ==
    /\ waiting = Cardinality(Rebuilding)
    /\ \A r \in ServedRequests : served[r] \in {"new", "running", "checked"} => rebuild[r] = "none"
\* What the server's task achieves: when it begins nothing new is accepted, and when it
\* returns nothing is running.
ServerStopped ==
    /\ HttpTask \notin left => ~serving
    /\ HttpTask \notin left /\ ~overtime => \A r \in ServedRequests : served[r] \in {"new", "done"}
    /\ entered /\ HttpTask \in left => ~serving
\* Past the relay's task every delivery loop has returned.
LoopsStopped == RelayTask \notin left /\ ~overtime => \A l \in Loops : loop[l] = "stopped"
\* Past the background task nothing is counted, and no request is left to start a rebuild.
BackgroundDrained ==
    BackgroundTask \notin left /\ ~overtime => HttpTask \notin left /\ waiting = 0
\* The pool is closed when the database's task is the only one left.
DatabaseLast == ~poolOpen => left \subseteq {DatabaseTask}
\* The inductive invariant of the process.
LifecycleStrong ==
    LifecycleTypeOK /\ RebuildsCounted /\ ServerStopped /\ LoopsStopped /\ BackgroundDrained /\ DatabaseLast

\* The current task is one that is left, of the highest priority; names are unique.
LEMMA TaskFacts ==
  ASSUME left \subseteq Teardown, left # {}
  PROVE  /\ CurrentTask \in left
         /\ \A u \in left : u.priority <= CurrentTask.priority
         /\ CurrentTask.name = "http-server" <=> CurrentTask = HttpTask
         /\ CurrentTask.name = "outbox-relay" <=> CurrentTask = RelayTask
         /\ CurrentTask.name = "background-work" <=> CurrentTask = BackgroundTask
         /\ CurrentTask.name = "database" <=> CurrentTask = DatabaseTask
<1> DEFINE T(t) == \A u \in left : u.priority <= t.priority
<1>0. \A t \in Teardown : t \in {CloseTask("http-server", 90), CloseTask("outbox-relay", 60), CloseTask("telemetry", 50), CloseTask("pubsub", 40), CloseTask("background-work", 20), CloseTask("database", 10)}
  BY DEF Teardown, CloseTask
<1>1. \E t \in left : T(t)
  <2> DEFINE h(n, p) == CloseTask(n, p) \in left
  <2>1. CASE CloseTask("http-server", 90) \in left
    BY <2>1, <1>0 DEF CloseTask
  <2>2. CASE CloseTask("http-server", 90) \notin left /\ CloseTask("outbox-relay", 60) \in left
    BY <2>2, <1>0 DEF CloseTask
  <2>3. CASE left \subseteq {CloseTask("telemetry", 50), CloseTask("pubsub", 40), CloseTask("background-work", 20), CloseTask("database", 10)} /\ CloseTask("telemetry", 50) \in left
    BY <2>3, <1>0 DEF CloseTask
  <2>4. CASE left \subseteq {CloseTask("pubsub", 40), CloseTask("background-work", 20), CloseTask("database", 10)} /\ CloseTask("pubsub", 40) \in left
    BY <2>4, <1>0 DEF CloseTask
  <2>5. CASE left \subseteq {CloseTask("background-work", 20), CloseTask("database", 10)} /\ CloseTask("background-work", 20) \in left
    BY <2>5, <1>0 DEF CloseTask
  <2>6. CASE left \subseteq {CloseTask("database", 10)}
    BY <2>6, <1>0 DEF CloseTask
  <2> QED
    BY <2>1, <2>2, <2>3, <2>4, <2>5, <2>6, <1>0
<1>2. CurrentTask \in left /\ T(CurrentTask)
  BY <1>1 DEF CurrentTask
<1>3. CurrentTask \in Teardown
  BY <1>2
<1> QED
  BY <1>2, <1>3, <1>0 DEF HttpTask, RelayTask, BackgroundTask, DatabaseTask, CloseTask

\* The background task comes after the server's, the database's after every other.
LEMMA TasksInOrder ==
  ASSUME left \subseteq Teardown, left # {}
  PROVE  /\ CurrentTask = BackgroundTask => HttpTask \notin left
         /\ CurrentTask = DatabaseTask => left \subseteq {DatabaseTask}
         /\ HttpTask # RelayTask /\ HttpTask # BackgroundTask /\ HttpTask # DatabaseTask
         /\ RelayTask # BackgroundTask /\ RelayTask # DatabaseTask /\ BackgroundTask # DatabaseTask
         /\ HttpTask \in left => CurrentTask = HttpTask
<1>0. \A t \in Teardown : t \in {CloseTask("http-server", 90), CloseTask("outbox-relay", 60), CloseTask("telemetry", 50), CloseTask("pubsub", 40), CloseTask("background-work", 20), CloseTask("database", 10)}
  BY DEF Teardown, CloseTask
<1>1. CurrentTask \in left /\ \A u \in left : u.priority <= CurrentTask.priority
  BY TaskFacts
<1>2. BackgroundTask.priority = 20 /\ HttpTask.priority = 90 /\ DatabaseTask.priority = 10
  BY DEF BackgroundTask, HttpTask, DatabaseTask, CloseTask
<1>3. CurrentTask = BackgroundTask => HttpTask \notin left
  BY <1>1, <1>2
<1>4. CurrentTask = DatabaseTask => left \subseteq {DatabaseTask}
  BY <1>1, <1>2, <1>0 DEF CloseTask, DatabaseTask
<1>5. HttpTask \in left => CurrentTask = HttpTask
  BY <1>1, <1>2, <1>0 DEF CloseTask, HttpTask
<1>6. /\ HttpTask # RelayTask /\ HttpTask # BackgroundTask /\ HttpTask # DatabaseTask
      /\ RelayTask # BackgroundTask /\ RelayTask # DatabaseTask /\ BackgroundTask # DatabaseTask
  BY DEF HttpTask, RelayTask, BackgroundTask, DatabaseTask, CloseTask
<1> QED
  BY <1>3, <1>4, <1>5, <1>6

\* Rebuilds are finitely many, so that they can be counted.
LEMMA RebuildingFinite == IsFiniteSet(Rebuilding) /\ IsFiniteSet(Rebuilding')
<1>1. Rebuilding \subseteq ServedRequests /\ Rebuilding' \subseteq ServedRequests
  BY DEF Rebuilding
<1> QED
  BY <1>1, LifecycleAssumption, FS_Subset

\* A process that starts satisfies the invariant.
LEMMA LifecycleStart == LifecycleInit => LifecycleStrong
<1> SUFFICES ASSUME LifecycleInit PROVE LifecycleStrong
  OBVIOUS
<1>1. Rebuilding = {}
  BY DEF LifecycleInit, Rebuilding
<1>2. RebuildsCounted
  BY <1>1, FS_EmptySet DEF RebuildsCounted, LifecycleInit
<1>3. HttpTask \in left /\ RelayTask \in left /\ BackgroundTask \in left
  BY DEF LifecycleInit, HttpTask, RelayTask, BackgroundTask, CloseTask, Teardown
<1> QED
  BY <1>2, <1>3 DEF LifecycleInit, LifecycleStrong, LifecycleTypeOK, ServerStopped, LoopsStopped, BackgroundDrained, DatabaseLast

\* A request that begins, looks at closed or ends keeps the invariant.
LEMMA RequestsKeep ==
  ASSUME LifecycleStrong, NEW r \in ServedRequests,
         Accept(r) \/ CheckClosed(r) \/ EndRequest(r)
  PROVE  LifecycleStrong'
<1>1. /\ UNCHANGED <<serving, rebuild, waiting, loop, signalled, left, entered, overtime, poolOpen>>
      /\ \E x \in {"running", "checked", "scheduled", "done"} : served' = [served EXCEPT ![r] = x]
      /\ serving \/ served[r] \notin {"new", "done"}
  BY DEF Accept, CheckClosed, EndRequest
<1>2. served' \in [ServedRequests -> {"new", "running", "checked", "scheduled", "done"}]
  BY <1>1 DEF LifecycleStrong, LifecycleTypeOK
<1>a. \A q \in ServedRequests : served'[q] \in {"new", "running", "checked"} => served[q] \in {"new", "running", "checked"}
  BY DEF Accept, CheckClosed, EndRequest, LifecycleStrong, LifecycleTypeOK
<1>b. Rebuilding' = Rebuilding
  BY <1>1 DEF Rebuilding
<1>3. RebuildsCounted'
  BY <1>1, <1>a, <1>b DEF LifecycleStrong, RebuildsCounted
<1>4. ServerStopped'
  BY <1>1 DEF LifecycleStrong, ServerStopped
<1> QED
  BY <1>1, <1>2, <1>3, <1>4 DEF LifecycleStrong, LifecycleTypeOK, LoopsStopped, BackgroundDrained, DatabaseLast

\* A rebuild that starts is counted, and its request still runs: the server's task has
\* not returned, unless the deadline passed.
LEMMA StartRebuildingKeeps ==
  ASSUME LifecycleStrong, NEW r \in ServedRequests, StartRebuilding(r)
  PROVE  LifecycleStrong'
<1>1. /\ UNCHANGED <<serving, loop, signalled, left, entered, overtime, poolOpen>>
      /\ served' = [served EXCEPT ![r] = "scheduled"] /\ rebuild' = [rebuild EXCEPT ![r] = "running"]
      /\ waiting' = waiting + 1 /\ served[r] = "checked"
  BY DEF StartRebuilding, AddOne
<1>2. r \notin Rebuilding /\ Rebuilding' = Rebuilding \cup {r}
  BY <1>1 DEF LifecycleStrong, LifecycleTypeOK, RebuildsCounted, Rebuilding
<1>3. Cardinality(Rebuilding') = Cardinality(Rebuilding) + 1
  BY <1>2, RebuildingFinite, FS_AddElement
<1>4. RebuildsCounted'
  BY <1>1, <1>3 DEF LifecycleStrong, LifecycleTypeOK, RebuildsCounted
<1>5. HttpTask \in left \/ overtime
  BY <1>1 DEF LifecycleStrong, ServerStopped
<1>6. LifecycleTypeOK'
  BY <1>1 DEF LifecycleStrong, LifecycleTypeOK
<1>7. ServerStopped' /\ LoopsStopped' /\ BackgroundDrained' /\ DatabaseLast'
  BY <1>1, <1>5 DEF LifecycleStrong, ServerStopped, LoopsStopped, BackgroundDrained, DatabaseLast
<1> QED
  BY <1>4, <1>6, <1>7 DEF LifecycleStrong

\* A rebuild that ends is no longer counted.
LEMMA EndRebuildKeeps ==
  ASSUME LifecycleStrong, NEW r \in ServedRequests, EndRebuild(r)
  PROVE  LifecycleStrong'
<1>1. /\ UNCHANGED <<serving, served, loop, signalled, left, entered, overtime, poolOpen>>
      /\ rebuild' = [rebuild EXCEPT ![r] = "done"] /\ rebuild[r] = "running"
      /\ waiting' = IF waiting = 0 THEN 0 ELSE waiting - 1
  BY DEF EndRebuild
<1>2. r \in Rebuilding /\ Rebuilding' = Rebuilding \ {r}
  BY <1>1 DEF LifecycleStrong, LifecycleTypeOK, Rebuilding
<1>3. Cardinality(Rebuilding') = Cardinality(Rebuilding) - 1 /\ Cardinality(Rebuilding) \in Nat
      /\ Cardinality(Rebuilding') \in Nat
  BY <1>2, RebuildingFinite, FS_RemoveElement, FS_CardinalityType
<1>4. waiting = Cardinality(Rebuilding) /\ waiting' = Cardinality(Rebuilding')
  BY <1>1, <1>3 DEF LifecycleStrong, RebuildsCounted
<1>5. RebuildsCounted'
  BY <1>1, <1>4 DEF LifecycleStrong, LifecycleTypeOK, RebuildsCounted
<1>6. LifecycleTypeOK'
  BY <1>1 DEF LifecycleStrong, LifecycleTypeOK
<1>7. waiting = 0 => waiting' = 0
  BY <1>1
<1>8. ServerStopped' /\ LoopsStopped' /\ BackgroundDrained' /\ DatabaseLast'
  BY <1>1, <1>7 DEF LifecycleStrong, ServerStopped, LoopsStopped, BackgroundDrained, DatabaseLast
<1> QED
  BY <1>5, <1>6, <1>8 DEF LifecycleStrong

\* Loops, the scheduler, the signal, the deadline and Drain keep the invariant.
LEMMA LoopsKeep ==
  ASSUME LifecycleStrong,
         (\E l \in Loops : StopLoop(l)) \/ SchedulerTick \/ SchedulerDone \/ Signal \/ Deadline \/ CloseBackground
         \/ UNCHANGED lifecycleVars
  PROVE  LifecycleStrong'
<1>1. /\ UNCHANGED <<serving, served, rebuild, waiting, left, entered, poolOpen>>
      /\ signalled' = TRUE \/ signalled' = signalled
      /\ overtime' = TRUE \/ overtime' = overtime
  BY DEF StopLoop, SchedulerTick, SchedulerDone, Signal, Deadline, CloseBackground, lifecycleVars
<1>2. loop' = loop \/ \E l \in Loops : loop' = [loop EXCEPT ![l] = "stopped"]
  BY DEF StopLoop, SchedulerTick, SchedulerDone, Signal, Deadline, CloseBackground, lifecycleVars
<1>3. RebuildsCounted'
  BY <1>1 DEF LifecycleStrong, RebuildsCounted, Rebuilding
<1>a. loop' \in [Loops -> {"running", "stopped"}]
  BY <1>2 DEF LifecycleStrong, LifecycleTypeOK
<1>b. signalled' \in BOOLEAN
  BY <1>1 DEF LifecycleStrong, LifecycleTypeOK
<1>c. overtime' \in BOOLEAN
  BY <1>1 DEF LifecycleStrong, LifecycleTypeOK
<1>4. LifecycleTypeOK'
  BY <1>1, <1>a, <1>b, <1>c DEF LifecycleStrong, LifecycleTypeOK
<1>5. LoopsStopped'
  BY <1>1, <1>2 DEF LifecycleStrong, LifecycleTypeOK, LoopsStopped
<1> QED
  BY <1>1, <1>3, <1>4, <1>5 DEF LifecycleStrong, LifecycleTypeOK, ServerStopped, BackgroundDrained, DatabaseLast

\* A task that begins keeps the invariant.
LEMMA EnterTaskKeeps ==
  ASSUME LifecycleStrong, EnterTask
  PROVE  LifecycleStrong'
<1>1. /\ UNCHANGED <<served, rebuild, waiting, loop, signalled, left, overtime>>
      /\ entered' = TRUE /\ signalled /\ left # {}
      /\ serving' = (serving /\ CurrentTask.name # "http-server")
      /\ poolOpen' = (poolOpen /\ CurrentTask.name # "database")
  BY DEF EnterTask, Tearing, Current
<1>2. left \subseteq Teardown
  BY DEF LifecycleStrong, LifecycleTypeOK
<1>3. RebuildsCounted'
  BY <1>1 DEF LifecycleStrong, RebuildsCounted, Rebuilding
<1>4. LifecycleTypeOK'
  BY <1>1 DEF LifecycleStrong, LifecycleTypeOK
<1>5. ServerStopped'
  BY <1>1, <1>2, TaskFacts, TasksInOrder DEF LifecycleStrong, LifecycleTypeOK, ServerStopped
<1>6. LoopsStopped' /\ BackgroundDrained'
  BY <1>1 DEF LifecycleStrong, LoopsStopped, BackgroundDrained
<1>7. DatabaseLast'
  BY <1>1, <1>2, TaskFacts, TasksInOrder DEF LifecycleStrong, LifecycleTypeOK, DatabaseLast
<1> QED
  BY <1>3, <1>4, <1>5, <1>6, <1>7 DEF LifecycleStrong

\* A task that returns has seen what it waits for, unless the deadline passed.
LEMMA LeaveTaskKeeps ==
  ASSUME LifecycleStrong, LeaveTask
  PROVE  LifecycleStrong'
<1> DEFINE t == CurrentTask
<1>1. /\ UNCHANGED <<serving, served, rebuild, waiting, loop, signalled, overtime, poolOpen>>
      /\ entered' = FALSE /\ signalled /\ left # {} /\ entered /\ left' = left \ {t}
      /\ Awaited \/ overtime
  BY DEF LeaveTask, Tearing
<1>2. left \subseteq Teardown
  BY DEF LifecycleStrong, LifecycleTypeOK
<1>3. /\ t.name = "http-server" <=> t = HttpTask
      /\ t.name = "outbox-relay" <=> t = RelayTask
      /\ t.name = "background-work" <=> t = BackgroundTask
  BY <1>1, <1>2, TaskFacts
<1>4. ~overtime => /\ t = HttpTask => \A r \in ServedRequests : served[r] \in {"new", "done"}
                   /\ t = RelayTask => \A l \in Loops : loop[l] = "stopped"
                   /\ t = BackgroundTask => waiting = 0
  BY <1>1, <1>3 DEF Awaited, Current, LoopsReturned
<1>5. /\ t = BackgroundTask => HttpTask \notin left
      /\ HttpTask # BackgroundTask
  BY <1>1, <1>2, TasksInOrder
<1> HIDE DEF t
<1>6. RebuildsCounted'
  BY <1>1 DEF LifecycleStrong, RebuildsCounted, Rebuilding
<1>7. LifecycleTypeOK'
  BY <1>1 DEF LifecycleStrong, LifecycleTypeOK
<1>8. ServerStopped'
  BY <1>1, <1>4 DEF LifecycleStrong, LifecycleTypeOK, ServerStopped
<1>9. LoopsStopped'
  BY <1>1, <1>4 DEF LifecycleStrong, LifecycleTypeOK, LoopsStopped
<1>10. BackgroundDrained'
  BY <1>1, <1>4, <1>5 DEF LifecycleStrong, LifecycleTypeOK, BackgroundDrained
<1>11. DatabaseLast'
  BY <1>1 DEF LifecycleStrong, DatabaseLast
<1> QED
  BY <1>6, <1>7, <1>8, <1>9, <1>10, <1>11 DEF LifecycleStrong

\* Every step of the process keeps the invariant.
LEMMA LifecycleStep == LifecycleStrong /\ [LifecycleNext]_lifecycleVars => LifecycleStrong'
BY RequestsKeep, StartRebuildingKeeps, EndRebuildKeeps, LoopsKeep, EnterTaskKeeps, LeaveTaskKeeps DEF LifecycleNext

\* The invariant says that the pool is closed under nobody.
LEMMA PoolPromise == LifecycleStrong => PoolClosedLast
<1> SUFFICES ASSUME LifecycleStrong, ~poolOpen, ~overtime
             PROVE  /\ \A r \in ServedRequests : served[r] \in {"new", "done"} /\ rebuild[r] # "running"
                    /\ \A l \in Loops : loop[l] = "stopped"
  BY DEF PoolClosedLast
<1>1. left \subseteq {DatabaseTask}
  BY DEF LifecycleStrong, DatabaseLast
<1>2. HttpTask \notin left /\ RelayTask \notin left /\ BackgroundTask \notin left
  BY <1>1 DEF HttpTask, RelayTask, BackgroundTask, DatabaseTask, CloseTask
<1>3. Cardinality(Rebuilding) = 0
  BY <1>2 DEF LifecycleStrong, BackgroundDrained, RebuildsCounted
<1>4. Rebuilding = {}
  BY <1>3, RebuildingFinite, FS_EmptySet
<1> QED
  BY <1>2, <1>4 DEF LifecycleStrong, ServerStopped, LoopsStopped, Rebuilding

\* For any requests and loops: unless the deadline cut the teardown short, no request, no
\* delivery loop and no rebuild is left when Wait closes the pool (PoolClosedLast).
THEOREM PoolClosesLast == LifecycleSpec => []PoolClosedLast
BY LifecycleStart, LifecycleStep, PoolPromise, PTL DEF LifecycleSpec

-----------------------------------------------------------------------------
(***************************************************************************)
(* Schema migrations.                                                      *)
(***************************************************************************)

\* The phases in which a runner is sure of the lease, because no time passes in them, and
\* those a long statement may bring it to after the lease has gone to another.
Firm(w) ==
    \/ w.ph \in {"list", "next", "claim", "body", "reap", "record", "fill", "fillrecord", "finish"}
    \/ w.ph = "stmt" /\ w.stmt = 1
Loose(w) == w.ph = "build" \/ (w.ph = "stmt" /\ w.stmt = 2)

\* The shape of the state.
Phases == {"off", "wait", "failed", "list", "next", "claim", "body", "reap", "stmt", "build", "record", "fill",
           "fillrecord", "finish"}
RunnerRecords == [ph : Phases, todo : SUBSET Versions, stmt : {0, 1, 2}, renewed : Nat, beat : BOOLEAN, since : Nat]
MigrationsTypeOK ==
    /\ applied \subseteq Versions
    /\ claimed \in [Versions -> Runners \cup {"none"}]
    /\ effects \in [Versions -> Nat]
    /\ index \in [Versions -> {"none", "building", "invalid", "valid"}]
    /\ builder \in [Versions -> Runners \cup {"none"}]
    /\ oldIndex \subseteq NoTx
    /\ lease \in [holder : Runners \cup {"none"}, expires : Nat]
    /\ clock \in 0..MaxClock
    /\ runner \in [Runners -> RunnerRecords]
    /\ summary \subseteq History
    /\ dead \in [Runners -> Nat]

\* A runner in state w, as far as the lease, its file and the backfill go.
OnLease(r, w) ==
    /\ w.renewed <= clock /\ w.since <= clock
    /\ Firm(w) => lease.holder = r /\ clock < lease.expires
    /\ Firm(w) \/ Loose(w) =>
          IF lease.holder = r THEN lease.expires = w.renewed + LeaseTTL ELSE clock - w.renewed >= RenewGap
    /\ dead[r] # Forever => w.ph = "off"
\* What kind of file it has in hand.
InHand(w) ==
    /\ w.ph \in {"claim", "body"} => w.todo # {} /\ First(w.todo) \notin NoTx
    /\ w.ph \in {"reap", "stmt", "build", "record"} => w.todo # {} /\ First(w.todo) \in NoTx
    /\ w.ph = "reap" => w.stmt = 1
    /\ w.ph = "stmt" => w.stmt \in {1, 2}
\* What stands of that file's index, its claim and the backfill.
OnFile(r, w) ==
    /\ w.ph = "stmt" /\ w.stmt = 1 => index[First(w.todo)] \in {"none", "valid"}
    /\ (w.ph = "stmt" /\ w.stmt = 2) \/ w.ph = "record" => index[First(w.todo)] = "valid"
    /\ w.ph = "body" => claimed[First(w.todo)] = r
    /\ w.ph = "fillrecord" => summary = History
RunnerFine(r, w) == OnLease(r, w) /\ InHand(w) /\ OnFile(r, w)
RunnersFine == \A r \in Runners : RunnerFine(r, runner[r])

\* No lease reaches further than its TTL, a dead runner's no further than one TTL after its death.
LeaseFine ==
    /\ lease.expires <= clock + LeaseTTL
    /\ \A r \in Runners : dead[r] # Forever =>
          dead[r] <= clock /\ (lease.holder = r => lease.expires <= dead[r] + LeaseTTL)
\* Only a runner in its statement builds an index, only one in its transaction claims a version.
BuildsInHand ==
    \A v \in Versions :
        /\ index[v] = "building" <=> builder[v] # "none"
        /\ builder[v] # "none" => runner[builder[v]].ph = "build" /\ First(runner[builder[v]].todo) = v
ClaimsInHand ==
    \A v \in Versions : claimed[v] # "none" =>
        v \notin applied /\ v \notin NoTx /\ runner[claimed[v]].ph = "body" /\ First(runner[claimed[v]].todo) = v
\* The inductive invariant.
MigrationsStrong ==
    MigrationsTypeOK /\ RunnersFine /\ LeaseFine /\ BuildsInHand /\ ClaimsInHand /\ MigrationsInv

\* The first of a set of files is one of them.
LEMMA FirstFacts ==
  ASSUME NEW S \in SUBSET Versions, S # {}
  PROVE  First(S) \in S
<1>1. S \subseteq Nat
  BY MigrationsAssumption
<1> QED
  BY <1>1, LeastNumber DEF First

\* Nobody runs and nothing is applied at the start.
LEMMA MigrationsStart == MigrationsInit => MigrationsStrong
<1> SUFFICES ASSUME MigrationsInit PROVE MigrationsStrong
  OBVIOUS
<1>1. MigrationsTypeOK
  BY MigrationsAssumption DEF MigrationsInit, MigrationsTypeOK, RunnerRecords, Stopped, Phases, Forever
<1>2. RunnersFine
  <2> SUFFICES ASSUME NEW r \in Runners PROVE RunnerFine(r, Stopped)
    BY DEF RunnersFine, MigrationsInit
  <2> QED
    BY DEF RunnerFine, OnLease, InHand, OnFile, Firm, Loose, Stopped, MigrationsInit
<1>3. LeaseFine
  BY MigrationsAssumption DEF LeaseFine, MigrationsInit
<1>4. BuildsInHand /\ ClaimsInHand
  BY DEF MigrationsInit, BuildsInHand, ClaimsInHand
<1>5. MigrationsInv
  BY MigrationsAssumption DEF MigrationsInit, MigrationsInv, RecordedIsBuilt, DeadLeaseOutlasted, BackfillComplete
<1> QED
  BY <1>1, <1>2, <1>3, <1>4, <1>5 DEF MigrationsStrong

\* What a step of runner r may do to what the others stand on.
LeaseMoves(r) == lease' = lease \/ ((lease.holder = r \/ LeaseFree) /\ lease'.holder \in {r, "none"})
LeaseKept(r) ==
    /\ LeaseMoves(r) /\ lease' \in [holder : Runners \cup {"none"}, expires : Nat]
    /\ lease'.expires <= clock + LeaseTTL
    /\ \A q \in Runners : dead[q] # Forever => (lease'.holder = q => lease'.expires <= dead[q] + LeaseTTL)
FilesMove(r) ==
    /\ \A v \in Versions :
          /\ index[v] = "valid" => index'[v] = "valid"
          /\ index[v] = "none" => index'[v] \in {"none", "valid"} \/ Firm(runner[r])
          /\ claimed'[v] = claimed[v] \/ (claimed[v] \in {r, "none"} /\ claimed'[v] \in {r, "none"})
    /\ summary \subseteq summary' /\ summary' \subseteq History

\* The others keep standing.
LEMMA OthersFine ==
  ASSUME MigrationsStrong, NEW r \in Runners, NEW q \in Runners, q # r, LeaseMoves(r), FilesMove(r),
         clock' = clock, dead'[q] = dead[q], NEW w, w = runner[q]
  PROVE  RunnerFine(q, w)'
<1>1. RunnerFine(q, w) /\ w \in RunnerRecords /\ OnLease(r, runner[r])
  BY DEF MigrationsStrong, RunnersFine, MigrationsTypeOK, RunnerFine
<1>2. /\ q # "none" /\ r # "none" /\ clock \in Nat /\ w.renewed \in Nat
      /\ lease.expires \in Nat /\ LeaseTTL \in Nat /\ RenewGap \in Nat /\ RenewGap <= LeaseTTL
  BY <1>1, MigrationsAssumption DEF MigrationsStrong, MigrationsTypeOK, RunnerRecords
<1>3. OnLease(q, w)'
  <2>1. CASE lease' = lease
    BY <1>1, <2>1 DEF RunnerFine, OnLease, Forever
  <2>2. CASE (lease.holder = r \/ LeaseFree) /\ lease'.holder \in {r, "none"}
    <3>1. ~Firm(w)
      BY <1>1, <1>2, <2>2 DEF RunnerFine, OnLease, LeaseFree
    <3>2. lease'.holder # q
      BY <1>2, <2>2
    <3>3. ASSUME Loose(w) PROVE clock - w.renewed >= RenewGap
      <4>1. CASE lease.holder = q
        BY <4>1, <1>1, <1>2, <2>2, <3>3 DEF RunnerFine, OnLease, LeaseFree
      <4>2. CASE lease.holder # q
        BY <4>2, <1>1, <3>3 DEF RunnerFine, OnLease
      <4> QED
        BY <4>1, <4>2
    <3> QED
      BY <1>1, <3>1, <3>2, <3>3 DEF RunnerFine, OnLease, Forever
  <2> QED
    BY <2>1, <2>2 DEF LeaseMoves
<1>4. InHand(w)'
  BY <1>1 DEF RunnerFine, InHand
<1>5. ASSUME w.ph \in {"claim", "body", "reap", "stmt", "build", "record"} PROVE First(w.todo) \in Versions
  BY <1>1, <1>5, FirstFacts DEF RunnerFine, InHand, RunnerRecords
<1>6. Firm(w) => ~Firm(runner[r])
  BY <1>1 DEF RunnerFine, OnLease
<1>7. OnFile(q, w)'
  <2>1. ASSUME w.ph = "stmt", w.stmt = 1 PROVE index'[First(w.todo)] \in {"none", "valid"}
    BY <2>1, <1>1, <1>5, <1>6 DEF RunnerFine, OnFile, FilesMove, Firm
  <2>2. ASSUME (w.ph = "stmt" /\ w.stmt = 2) \/ w.ph = "record" PROVE index'[First(w.todo)] = "valid"
    BY <2>2, <1>1, <1>5 DEF RunnerFine, OnFile, FilesMove
  <2>3. ASSUME w.ph = "body" PROVE claimed'[First(w.todo)] = q
    BY <2>3, <1>1, <1>2, <1>5 DEF RunnerFine, OnFile, FilesMove
  <2>4. ASSUME w.ph = "fillrecord" PROVE summary' = History
    BY <2>4, <1>1 DEF RunnerFine, OnFile, FilesMove
  <2> QED
    BY <2>1, <2>2, <2>3, <2>4 DEF OnFile
<1> QED
  BY <1>3, <1>4, <1>7 DEF RunnerFine

\* What r itself builds and claims after its step, and what it leaves of the others'.
BuildsMove(r, w) ==
    \A v \in Versions :
        /\ index'[v] = "building" <=> builder'[v] # "none"
        /\ builder'[v] \in {builder[v], r, "none"}
        /\ builder'[v] = r => w.ph = "build" /\ First(w.todo) = v
ClaimsMove(r, w) ==
    \A v \in Versions :
        /\ claimed'[v] \in {claimed[v], r, "none"}
        /\ claimed'[v] = r => v \notin applied' /\ v \notin NoTx /\ w.ph = "body" /\ First(w.todo) = v
        /\ v \in applied' => v \in applied \/ claimed'[v] = "none"

\* A step of runner r to w.
LEMMA RunnerStep ==
  ASSUME MigrationsStrong, NEW r \in Runners, NEW w \in RunnerRecords, runner' = [runner EXCEPT ![r] = w],
         RunnerFine(r, w)', LeaseMoves(r), LeaseFine', FilesMove(r), BuildsMove(r, w), ClaimsMove(r, w),
         applied' \subseteq Versions, effects' \in [Versions -> Nat],
         claimed' \in [Versions -> Runners \cup {"none"}], builder' \in [Versions -> Runners \cup {"none"}],
         index' \in [Versions -> {"none", "building", "invalid", "valid"}], oldIndex' \subseteq NoTx,
         lease' \in [holder : Runners \cup {"none"}, expires : Nat], clock' = clock,
         dead' \in [Runners -> Nat], \A q \in Runners \ {r} : dead'[q] = dead[q], MigrationsInv'
  PROVE  MigrationsStrong'
<1>1. MigrationsTypeOK'
  BY DEF MigrationsStrong, MigrationsTypeOK, FilesMove
<1>2. RunnersFine'
  <2> SUFFICES ASSUME NEW q \in Runners PROVE RunnerFine(q, runner[q])'
    BY DEF RunnersFine
  <2>1. CASE q = r
    <3>1. runner'[q] = w
      BY <2>1 DEF MigrationsStrong, MigrationsTypeOK
    <3> QED
      BY <3>1, <2>1
  <2>2. CASE q # r
    <3>1. PICK u : u = runner[q]
      OBVIOUS
    <3>2. runner'[q] = u
      BY <2>2, <3>1 DEF MigrationsStrong, MigrationsTypeOK
    <3>3. RunnerFine(q, u)'
      BY <2>2, <3>1, OthersFine
    <3> QED
      BY <3>2, <3>3
  <2> QED
    BY <2>1, <2>2
<1>4. BuildsInHand'
  <2> SUFFICES ASSUME NEW v \in Versions, builder'[v] # "none"
               PROVE  runner'[builder'[v]].ph = "build" /\ First(runner'[builder'[v]].todo) = v
    BY DEF BuildsInHand, BuildsMove
  <2>1. CASE builder'[v] = r
    BY <2>1 DEF BuildsMove, MigrationsStrong, MigrationsTypeOK
  <2>2. CASE builder'[v] # r
    BY <2>2 DEF BuildsMove, MigrationsStrong, MigrationsTypeOK, BuildsInHand
  <2> QED
    BY <2>1, <2>2
<1>5. ClaimsInHand'
  <2> SUFFICES ASSUME NEW v \in Versions, claimed'[v] # "none"
               PROVE  /\ v \notin applied' /\ v \notin NoTx
                      /\ runner'[claimed'[v]].ph = "body" /\ First(runner'[claimed'[v]].todo) = v
    BY DEF ClaimsInHand
  <2>1. CASE claimed'[v] = r
    BY <2>1 DEF ClaimsMove, MigrationsStrong, MigrationsTypeOK
  <2>2. CASE claimed'[v] # r
    BY <2>2 DEF ClaimsMove, MigrationsStrong, MigrationsTypeOK, ClaimsInHand
  <2> QED
    BY <2>1, <2>2
<1> QED
  BY <1>1, <1>2, <1>4, <1>5 DEF MigrationsStrong

\* Such a step in which nobody dies.
LEMMA AliveStep ==
  ASSUME MigrationsStrong, NEW r \in Runners, NEW w \in RunnerRecords, runner' = [runner EXCEPT ![r] = w],
         RunnerFine(r, w)', LeaseKept(r), FilesMove(r), BuildsMove(r, w), ClaimsMove(r, w),
         applied' \subseteq Versions, effects' \in [Versions -> Nat],
         claimed' \in [Versions -> Runners \cup {"none"}], builder' \in [Versions -> Runners \cup {"none"}],
         index' \in [Versions -> {"none", "building", "invalid", "valid"}], oldIndex' \subseteq NoTx,
         clock' = clock, dead' = dead, MigrationsInv'
  PROVE  MigrationsStrong'
<1>1. LeaseFine'
  BY DEF MigrationsStrong, LeaseFine, LeaseKept, Forever
<1>2. dead' \in [Runners -> Nat] /\ \A q \in Runners \ {r} : dead'[q] = dead[q]
  BY DEF MigrationsStrong, MigrationsTypeOK
<1> QED
  BY <1>1, <1>2, RunnerStep DEF LeaseKept

\* A step that leaves the schema alone.
LEMMA QuietStep ==
  ASSUME MigrationsStrong, NEW r \in Runners, NEW w \in RunnerRecords, runner' = [runner EXCEPT ![r] = w],
         RunnerFine(r, w)', LeaseKept(r), UNCHANGED Schema0, clock' = clock, dead' = dead,
         summary \subseteq summary', summary' \subseteq History,
         runner[r].ph \notin {"build", "body"},
         ~unjust', filled' => filled \/ summary' = History
  PROVE  MigrationsStrong'
<1>1. UNCHANGED <<applied, claimed, effects, index, builder, oldIndex>>
  BY DEF Schema0
<1>2. \A v \in Versions : builder[v] # r /\ claimed[v] # r
  BY MigrationsAssumption DEF MigrationsStrong, BuildsInHand, ClaimsInHand
<1>3. FilesMove(r)
  BY <1>1 DEF FilesMove
<1>4. BuildsMove(r, w)
  BY <1>1, <1>2 DEF BuildsMove, MigrationsStrong, BuildsInHand
<1>5. ClaimsMove(r, w)
  BY <1>1, <1>2 DEF ClaimsMove
<1>6. MigrationsInv'
  BY <1>1 DEF MigrationsStrong, MigrationsInv, RecordedIsBuilt, DeadLeaseOutlasted, BackfillComplete
<1>7. /\ applied' \subseteq Versions /\ effects' \in [Versions -> Nat]
      /\ claimed' \in [Versions -> Runners \cup {"none"}] /\ builder' \in [Versions -> Runners \cup {"none"}]
      /\ index' \in [Versions -> {"none", "building", "invalid", "valid"}] /\ oldIndex' \subseteq NoTx
  BY <1>1 DEF MigrationsStrong, MigrationsTypeOK
<1> QED
  BY <1>3, <1>4, <1>5, <1>6, <1>7, AliveStep

\* The types around a runner.
LEMMA AroundRunner ==
  ASSUME MigrationsStrong, NEW r \in Runners
  PROVE  /\ runner[r] \in RunnerRecords /\ RunnerFine(r, runner[r])
         /\ clock \in Nat /\ clock <= MaxClock /\ Forever = MaxClock + 1 /\ MaxClock \in Nat
         /\ lease \in [holder : Runners \cup {"none"}, expires : Nat]
         /\ LeaseTTL \in Nat /\ RenewGap \in Nat /\ RenewGap <= LeaseTTL /\ 0 < LeaseTTL
         /\ runner[r].renewed \in Nat /\ runner[r].since \in Nat /\ runner[r].todo \subseteq Versions
         /\ lease.expires \in Nat /\ dead[r] \in Nat
BY MigrationsAssumption DEF MigrationsStrong, MigrationsTypeOK, RunnersFine, RunnerRecords, Forever

\* A lease that stays as it is satisfies what a step has to show of it.
LEMMA LeaseStays ==
  ASSUME MigrationsStrong, NEW r \in Runners, lease' = lease
  PROVE  LeaseKept(r)
BY DEF MigrationsStrong, MigrationsTypeOK, LeaseFine, LeaseKept, LeaseMoves

\* A lease that r takes or renews, being alive.
LEMMA LeaseTaken ==
  ASSUME MigrationsStrong, NEW r \in Runners, lease.holder = r \/ LeaseFree, dead[r] = Forever,
         lease'.holder = r, lease'.expires = clock + LeaseTTL, lease' \in [holder : Runners \cup {"none"}, expires : Nat]
  PROVE  LeaseKept(r)
<1>1. clock + LeaseTTL \in Nat
  BY AroundRunner
<1> QED
  BY <1>1 DEF LeaseKept, LeaseMoves

\* release gives up only what is held.
LEMMA LeaseReleased ==
  ASSUME MigrationsStrong, NEW r \in Runners, lease' = Release(r)
  PROVE  LeaseKept(r)
<1>1. CASE lease.holder = r
  <2>1. lease' = [holder |-> "none", expires |-> clock] /\ clock \in Nat /\ LeaseTTL \in Nat
    BY <1>1, AroundRunner DEF Release
  <2>2. \A q \in Runners : q # "none"
    BY MigrationsAssumption
  <2> QED
    BY <1>1, <2>1, <2>2 DEF LeaseKept, LeaseMoves
<1>2. CASE lease.holder # r
  BY <1>2, LeaseStays DEF Release
<1> QED
  BY <1>1, <1>2

\* renew, between statements, when it does not fail: whoever passes it holds the lease and
\* time is left on it.
LEMMA LeaseRenewed ==
  ASSUME MigrationsStrong, NEW r \in Runners, Firm(runner[r]) \/ Loose(runner[r]), ~LeaseLost(r),
         lease' = RenewedLease(r), clock' = clock
  PROVE  /\ LeaseKept(r)
         /\ lease'.holder = r /\ lease'.expires = RenewedAt(r) + LeaseTTL /\ clock < lease'.expires
         /\ RenewedAt(r) \in Nat /\ RenewedAt(r) <= clock
         /\ dead[r] = Forever
<1> DEFINE w == runner[r]
<1>1. /\ OnLease(r, w) /\ w.renewed \in Nat /\ clock \in Nat /\ LeaseTTL \in Nat /\ RenewGap \in Nat
      /\ RenewGap <= LeaseTTL /\ 0 < LeaseTTL /\ w.renewed <= clock
      /\ lease \in [holder : Runners \cup {"none"}, expires : Nat]
  BY AroundRunner DEF RunnerFine, OnLease
<1>2. dead[r] = Forever
  BY <1>1 DEF OnLease, Firm, Loose
<1>3. lease.holder = r /\ lease.expires = w.renewed + LeaseTTL
  BY <1>1 DEF OnLease, LeaseLost, RenewDue
<1>4. CASE RenewDue(r)
  <2>1. lease' = [lease EXCEPT !.expires = clock + LeaseTTL] /\ RenewedAt(r) = clock
    BY <1>4 DEF RenewedLease, RenewedAt
  <2>2. lease'.holder = r /\ lease'.expires = clock + LeaseTTL /\ lease' \in [holder : Runners \cup {"none"}, expires : Nat]
    BY <2>1, <1>1, <1>3
  <2>3. LeaseKept(r)
    BY <2>2, <1>2, <1>3, LeaseTaken
  <2> QED
    BY <1>1, <1>2, <2>1, <2>2, <2>3
<1>5. CASE ~RenewDue(r)
  <2>1. lease' = lease /\ RenewedAt(r) = w.renewed
    BY <1>5 DEF RenewedLease, RenewedAt
  <2>2. clock < w.renewed + RenewGap
    BY <1>5, <1>1 DEF RenewDue
  <2>3. clock < lease.expires
    BY <2>2, <1>1, <1>3
  <2> QED
    BY <1>1, <1>2, <1>3, <2>1, <2>3, LeaseStays
<1> QED
  BY <1>4, <1>5

\* A runner that boots waits for the lease.
LEMMA BootKeeps ==
  ASSUME MigrationsStrong, NEW r \in Runners, Boot(r)
  PROVE  MigrationsStrong'
<1> DEFINE v == runner[r]
<1> DEFINE u == runner'[r]
<1>1. /\ v.ph = "off" /\ dead[r] = Forever
      /\ runner' = [runner EXCEPT ![r] = [Stopped EXCEPT !.ph = "wait", !.since = clock]]
      /\ UNCHANGED Schema0
      /\ lease' = lease
      /\ UNCHANGED <<clock, summary, filled, dead, unjust>>
  BY DEF Boot, World
<1>2. /\ runner' = [runner EXCEPT ![r] = u] /\ u \in RunnerRecords
      /\ u.ph = "wait" /\ u.todo = {} /\ u.renewed = 0 /\ u.since = clock
  BY <1>1, AroundRunner DEF RunnerRecords, Phases, MigrationsStrong, MigrationsTypeOK, Stopped, Goto
<1>3. PICK w : w = u
  OBVIOUS
<1> HIDE DEF u
<1>4. LeaseKept(r)
  BY <1>1, LeaseStays
<1>5. RunnerFine(r, w)'
  BY <1>1, <1>2, <1>3, AroundRunner DEF RunnerFine, OnLease, InHand, OnFile, Firm, Loose, MigrationsStrong, MigrationsTypeOK
<1>6. ~unjust' /\ summary' \subseteq History
  BY <1>1 DEF MigrationsStrong, MigrationsInv, DeadLeaseOutlasted, MigrationsTypeOK
<1> QED
  BY <1>1, <1>2, <1>3, <1>4, <1>5, <1>6, QuietStep

\* A runner that takes the lease, which was free: whoever was in a long statement finds out.
LEMMA TryAcquireKeeps ==
  ASSUME MigrationsStrong, NEW r \in Runners, TryAcquire(r)
  PROVE  MigrationsStrong'
<1> DEFINE v == runner[r]
<1> DEFINE u == runner'[r]
<1>1. /\ v.ph = "wait" /\ LeaseFree /\ lease' = [holder |-> r, expires |-> clock + LeaseTTL]
      /\ runner' = [runner EXCEPT ![r].ph = "list", ![r].renewed = clock]
      /\ UNCHANGED Schema0 /\ UNCHANGED <<clock, summary, filled, dead, unjust>>
  BY DEF TryAcquire, World
<1>2. /\ runner' = [runner EXCEPT ![r] = u] /\ u \in RunnerRecords
      /\ u.ph = "list" /\ u.todo = v.todo /\ u.renewed = clock /\ u.since = v.since
  BY <1>1, AroundRunner DEF RunnerRecords, Phases, MigrationsStrong, MigrationsTypeOK
<1>3. dead[r] = Forever
  BY <1>1, AroundRunner DEF RunnerFine, OnLease
<1>4. lease'.holder = r /\ lease'.expires = clock + LeaseTTL /\ lease' \in [holder : Runners \cup {"none"}, expires : Nat]
  BY <1>1, AroundRunner
<1>5. PICK w : w = u
  OBVIOUS
<1> HIDE DEF u
<1>6. RunnerFine(r, w)'
  BY <1>1, <1>2, <1>3, <1>4, <1>5, AroundRunner DEF RunnerFine, OnLease, InHand, OnFile, Firm, Loose
<1>7. ~unjust' /\ summary' \subseteq History
  BY <1>1 DEF MigrationsStrong, MigrationsInv, DeadLeaseOutlasted, MigrationsTypeOK
<1>8. LeaseKept(r)
  BY <1>1, <1>3, <1>4, LeaseTaken
<1> QED
  BY <1>1, <1>2, <1>4, <1>5, <1>6, <1>7, <1>8, QuietStep

\* A runner that gives up: a dead holder's lease would have expired by then.
LEMMA GiveUpKeeps ==
  ASSUME MigrationsStrong, NEW r \in Runners, GiveUp(r)
  PROVE  MigrationsStrong'
<1> DEFINE v == runner[r]
<1> DEFINE u == runner'[r]
<1>1. /\ v.ph = "wait" /\ ~LeaseFree /\ OutOfPatience(r)
      /\ runner' = Goto(r, "failed")
      /\ UNCHANGED Schema0
      /\ lease' = lease
      /\ UNCHANGED <<clock, summary, filled, dead>>
      /\ unjust' = (unjust \/ dead[lease.holder] <= v.since)
  BY DEF GiveUp, World
<1>2. /\ runner' = [runner EXCEPT ![r] = u] /\ u \in RunnerRecords
      /\ u.ph = "failed" /\ u.todo = v.todo /\ u.renewed = v.renewed /\ u.since = v.since
  BY <1>1, AroundRunner DEF RunnerRecords, Phases, MigrationsStrong, MigrationsTypeOK, Stopped, Goto
<1>3. PICK w : w = u
  OBVIOUS
<1> HIDE DEF u
<1>4. LeaseKept(r)
  BY <1>1, LeaseStays
<1>5. RunnerFine(r, w)'
  BY <1>1, <1>2, <1>3, AroundRunner DEF RunnerFine, OnLease, InHand, OnFile, Firm, Loose, MigrationsStrong, MigrationsTypeOK
<1>6. ~unjust' /\ summary' \subseteq History
  <2> DEFINE h == lease.holder
  <2>1. h \in Runners /\ clock < lease.expires
    BY <1>1, AroundRunner DEF LeaseFree
  <2>2. /\ clock > v.since + LeaseWait /\ LeaseWait \in Nat /\ LeaseTTL <= LeaseWait
        /\ v.since \in Nat /\ clock \in Nat /\ LeaseTTL \in Nat /\ lease.expires \in Nat /\ clock <= MaxClock
        /\ v.since <= clock /\ MaxClock \in Nat /\ Forever = MaxClock + 1
    BY <1>1, AroundRunner, MigrationsAssumption DEF OutOfPatience, RunnerFine, OnLease
  <2>3. dead[h] \in Nat /\ (dead[h] # Forever => lease.expires <= dead[h] + LeaseTTL)
    BY <2>1 DEF MigrationsStrong, MigrationsTypeOK, LeaseFine
  <2>4. ~(dead[h] <= v.since)
    BY <2>1, <2>2, <2>3
  <2> QED
    BY <1>1, <2>4 DEF MigrationsStrong, MigrationsInv, DeadLeaseOutlasted, MigrationsTypeOK
<1> QED
  BY <1>1, <1>2, <1>3, <1>4, <1>5, <1>6, QuietStep

\* The list of pending files.
LEMMA PendingMigrationsKeeps ==
  ASSUME MigrationsStrong, NEW r \in Runners, PendingMigrations(r)
  PROVE  MigrationsStrong'
<1> DEFINE v == runner[r]
<1> DEFINE u == runner'[r]
<1>1. /\ v.ph = "list"
      /\ runner' = [runner EXCEPT ![r].ph = "next", ![r].todo = Versions \ applied]
      /\ UNCHANGED Schema0
      /\ lease' = lease
      /\ UNCHANGED <<clock, summary, filled, dead, unjust>>
  BY DEF PendingMigrations, World
<1>2. /\ runner' = [runner EXCEPT ![r] = u] /\ u \in RunnerRecords
      /\ u.ph = "next" /\ u.todo = Versions \ applied /\ u.renewed = v.renewed /\ u.since = v.since
  BY <1>1, AroundRunner DEF RunnerRecords, Phases, MigrationsStrong, MigrationsTypeOK, Stopped, Goto
<1>3. PICK w : w = u
  OBVIOUS
<1> HIDE DEF u
<1>4. LeaseKept(r)
  BY <1>1, LeaseStays
<1>5. RunnerFine(r, w)'
  BY <1>1, <1>2, <1>3, AroundRunner DEF RunnerFine, OnLease, InHand, OnFile, Firm, Loose, MigrationsStrong, MigrationsTypeOK
<1>6. ~unjust' /\ summary' \subseteq History
  BY <1>1 DEF MigrationsStrong, MigrationsInv, DeadLeaseOutlasted, MigrationsTypeOK
<1> QED
  BY <1>1, <1>2, <1>3, <1>4, <1>5, <1>6, QuietStep

\* The next file: skipped, or begun under the renewed lease.
LEMMA NextFileKeeps ==
  ASSUME MigrationsStrong, NEW r \in Runners, NextFile(r)
  PROVE  MigrationsStrong'
<1> DEFINE v == runner[r]
<1> DEFINE u == runner'[r]
<1> DEFINE skip == Doing(r) \in NeedsExt /\ ~extension
<1>1. /\ v.ph = "next" /\ v.todo # {} /\ ~LeaseLost(r) /\ lease' = RenewedLease(r)
      /\ UNCHANGED Schema0 /\ UNCHANGED <<clock, summary, filled, dead, unjust>>
      /\ runner' = [runner EXCEPT ![r].renewed = RenewedAt(r), ![r].stmt = 1,
                      ![r].todo = IF skip THEN Rest(r) ELSE @,
                      ![r].ph = IF skip THEN "next" ELSE IF Doing(r) \in NoTx THEN "reap" ELSE "claim"]
  BY DEF NextFile, World
<1>2. /\ LeaseKept(r)
      /\ lease'.holder = r /\ lease'.expires = RenewedAt(r) + LeaseTTL /\ clock < lease'.expires
      /\ RenewedAt(r) \in Nat /\ RenewedAt(r) <= clock
      /\ dead[r] = Forever
  BY <1>1, LeaseRenewed DEF Firm
<1> DEFINE S == IF skip THEN Rest(r) ELSE v.todo
<1> DEFINE p == IF skip THEN "next" ELSE IF Doing(r) \in NoTx THEN "reap" ELSE "claim"
<1>3. S \subseteq Versions /\ p \in {"next", "reap", "claim"}
  BY AroundRunner DEF Rest
<1>4. /\ runner' = [runner EXCEPT ![r] = u] /\ u \in RunnerRecords
      /\ u.ph = p /\ u.todo = S /\ u.renewed = RenewedAt(r) /\ u.since = v.since /\ u.stmt = 1
  <2>1. runner' = [runner EXCEPT ![r].renewed = RenewedAt(r), ![r].stmt = 1, ![r].todo = S, ![r].ph = p]
    BY <1>1, AroundRunner DEF MigrationsStrong, MigrationsTypeOK
  <2>2. PICK a, b, c : a = RenewedAt(r) /\ b = S /\ c = p
    OBVIOUS
  <2>3. a \in Nat /\ b \in SUBSET Versions /\ c \in Phases
    BY <1>2, <1>3, <2>2 DEF Phases
  <2>4. runner \in [Runners -> RunnerRecords] /\ v \in RunnerRecords
    BY AroundRunner DEF MigrationsStrong, MigrationsTypeOK
  <2> HIDE DEF S, p
  <2>5. runner' = [runner EXCEPT ![r].renewed = a, ![r].stmt = 1, ![r].todo = b, ![r].ph = c]
    BY <2>1, <2>2
  <2>6. /\ runner' = [runner EXCEPT ![r] = u] /\ u \in RunnerRecords
        /\ u.ph = c /\ u.todo = b /\ u.renewed = a /\ u.since = v.since /\ u.stmt = 1
    BY <2>3, <2>4, <2>5 DEF RunnerRecords
  <2> QED
    BY <2>2, <2>6
<1>5. p # "next" => S = v.todo /\ (p = "reap" <=> First(S) \in NoTx)
  BY DEF Doing
<1>6. PICK w : w = u
  OBVIOUS
<1> HIDE DEF u, S, p
<1>7. v.since <= clock
  BY AroundRunner DEF RunnerFine, OnLease
<1>8. RunnerFine(r, w)'
  <2>1. OnLease(r, w)'
    BY <1>1, <1>2, <1>4, <1>6, <1>7 DEF OnLease, Forever
  <2>2. InHand(w)' /\ OnFile(r, w)'
    BY <1>1, <1>3, <1>4, <1>5, <1>6 DEF InHand, OnFile
  <2> QED
    BY <2>1, <2>2 DEF RunnerFine
<1>9. ~unjust' /\ summary' \subseteq History
  BY <1>1 DEF MigrationsStrong, MigrationsInv, DeadLeaseOutlasted, MigrationsTypeOK
<1> QED
  BY <1>1, <1>2, <1>4, <1>6, <1>8, <1>9, QuietStep

\* A runner that finds the lease gone stops.
LEMMA LostBetweenKeeps ==
  ASSUME MigrationsStrong, NEW r \in Runners, LostBetween(r)
  PROVE  MigrationsStrong'
<1> DEFINE v == runner[r]
<1> DEFINE u == runner'[r]
<1>1. /\ v.ph \in {"next", "stmt"}
      /\ runner' = Goto(r, "failed")
      /\ UNCHANGED Schema0
      /\ lease' = Release(r)
      /\ UNCHANGED <<clock, summary, filled, dead, unjust>>
  BY DEF LostBetween, Abort, World
<1>2. /\ runner' = [runner EXCEPT ![r] = u] /\ u \in RunnerRecords
      /\ u.ph = "failed" /\ u.todo = v.todo /\ u.renewed = v.renewed /\ u.since = v.since
  BY <1>1, AroundRunner DEF RunnerRecords, Phases, MigrationsStrong, MigrationsTypeOK, Stopped, Goto
<1>3. PICK w : w = u
  OBVIOUS
<1> HIDE DEF u
<1>4. LeaseKept(r)
  BY <1>1, LeaseReleased
<1>5. RunnerFine(r, w)'
  BY <1>1, <1>2, <1>3, AroundRunner DEF RunnerFine, OnLease, InHand, OnFile, Firm, Loose, MigrationsStrong, MigrationsTypeOK
<1>6. ~unjust' /\ summary' \subseteq History
  BY <1>1 DEF MigrationsStrong, MigrationsInv, DeadLeaseOutlasted, MigrationsTypeOK
<1> QED
  BY <1>1, <1>2, <1>3, <1>4, <1>5, <1>6, QuietStep

\* The backfill is looked at.
LEMMA StartBackfillKeeps ==
  ASSUME MigrationsStrong, NEW r \in Runners, StartBackfill(r)
  PROVE  MigrationsStrong'
<1> DEFINE v == runner[r]
<1> DEFINE u == runner'[r]
<1>1. /\ v.ph = "next"
      /\ runner' = Goto(r, IF ~filled /\ BackfillVersion \in applied THEN "fill" ELSE "finish")
      /\ UNCHANGED Schema0
      /\ lease' = lease
      /\ UNCHANGED <<clock, summary, filled, dead, unjust>>
  BY DEF StartBackfill, World
<1>2. /\ runner' = [runner EXCEPT ![r] = u] /\ u \in RunnerRecords
      /\ u.ph \in {"fill", "finish"} /\ u.todo = v.todo /\ u.renewed = v.renewed /\ u.since = v.since
  BY <1>1, AroundRunner DEF RunnerRecords, Phases, MigrationsStrong, MigrationsTypeOK, Stopped, Goto
<1>3. PICK w : w = u
  OBVIOUS
<1> HIDE DEF u
<1>4. LeaseKept(r)
  BY <1>1, LeaseStays
<1>5. RunnerFine(r, w)'
  BY <1>1, <1>2, <1>3, AroundRunner DEF RunnerFine, OnLease, InHand, OnFile, Firm, Loose, MigrationsStrong, MigrationsTypeOK
<1>6. ~unjust' /\ summary' \subseteq History
  BY <1>1 DEF MigrationsStrong, MigrationsInv, DeadLeaseOutlasted, MigrationsTypeOK
<1> QED
  BY <1>1, <1>2, <1>3, <1>4, <1>5, <1>6, QuietStep

\* The record of the backfill: nothing was left when it reached that point.
LEMMA RecordBackfillKeeps ==
  ASSUME MigrationsStrong, NEW r \in Runners, RecordBackfill(r)
  PROVE  MigrationsStrong'
<1> DEFINE v == runner[r]
<1> DEFINE u == runner'[r]
<1>1. /\ v.ph = "fillrecord"
      /\ runner' = Goto(r, "finish")
      /\ UNCHANGED Schema0
      /\ lease' = lease
      /\ UNCHANGED <<clock, summary, dead, unjust>>
  BY DEF RecordBackfill, World
<1>2. /\ runner' = [runner EXCEPT ![r] = u] /\ u \in RunnerRecords
      /\ u.ph = "finish" /\ u.todo = v.todo /\ u.renewed = v.renewed /\ u.since = v.since
  BY <1>1, AroundRunner DEF RunnerRecords, Phases, MigrationsStrong, MigrationsTypeOK, Stopped, Goto
<1>3. PICK w : w = u
  OBVIOUS
<1> HIDE DEF u
<1>4. LeaseKept(r)
  BY <1>1, LeaseStays
<1>7. summary = History
  BY <1>1, AroundRunner DEF RunnerFine, OnFile
<1>5. RunnerFine(r, w)'
  BY <1>1, <1>2, <1>3, AroundRunner DEF RunnerFine, OnLease, InHand, OnFile, Firm, Loose, MigrationsStrong, MigrationsTypeOK
<1>6. ~unjust' /\ summary' \subseteq History
  BY <1>1 DEF MigrationsStrong, MigrationsInv, DeadLeaseOutlasted, MigrationsTypeOK
<1> QED
  BY <1>1, <1>2, <1>3, <1>4, <1>5, <1>6, <1>7, QuietStep

\* The end of a run.
LEMMA FinishRunKeeps ==
  ASSUME MigrationsStrong, NEW r \in Runners, FinishRun(r)
  PROVE  MigrationsStrong'
<1> DEFINE v == runner[r]
<1> DEFINE u == runner'[r]
<1>1. /\ v.ph = "finish"
      /\ runner' = [runner EXCEPT ![r] = Stopped]
      /\ UNCHANGED Schema0
      /\ lease' = Release(r)
      /\ UNCHANGED <<clock, summary, filled, dead, unjust>>
  BY DEF FinishRun, World
<1>2. /\ runner' = [runner EXCEPT ![r] = u] /\ u \in RunnerRecords
      /\ u.ph = "off" /\ u.todo = {} /\ u.renewed = 0 /\ u.since = 0
  BY <1>1, AroundRunner DEF RunnerRecords, Phases, MigrationsStrong, MigrationsTypeOK, Stopped, Goto
<1>3. PICK w : w = u
  OBVIOUS
<1> HIDE DEF u
<1>4. LeaseKept(r)
  BY <1>1, LeaseReleased
<1>5. RunnerFine(r, w)'
  BY <1>1, <1>2, <1>3, AroundRunner DEF RunnerFine, OnLease, InHand, OnFile, Firm, Loose, MigrationsStrong, MigrationsTypeOK
<1>6. ~unjust' /\ summary' \subseteq History
  BY <1>1 DEF MigrationsStrong, MigrationsInv, DeadLeaseOutlasted, MigrationsTypeOK
<1> QED
  BY <1>1, <1>2, <1>3, <1>4, <1>5, <1>6, QuietStep

\* A version that another runner applied is passed over.
LEMMA ClaimTakenKeeps ==
  ASSUME MigrationsStrong, NEW r \in Runners, ClaimVersion(r), Doing(r) \in applied
  PROVE  MigrationsStrong'
<1> DEFINE v == runner[r]
<1> DEFINE u == runner'[r]
<1>1. /\ v.ph = "claim"
      /\ runner' = [runner EXCEPT ![r].ph = "next", ![r].todo = Rest(r)]
      /\ UNCHANGED Schema0
      /\ lease' = lease
      /\ UNCHANGED <<clock, summary, filled, dead, unjust>>
  BY DEF ClaimVersion, Schema0, World
<1>2. /\ runner' = [runner EXCEPT ![r] = u] /\ u \in RunnerRecords
      /\ u.ph = "next" /\ u.todo = Rest(r) /\ u.renewed = v.renewed /\ u.since = v.since
  BY <1>1, AroundRunner DEF RunnerRecords, Phases, MigrationsStrong, MigrationsTypeOK, Rest
<1>3. PICK w : w = u
  OBVIOUS
<1> HIDE DEF u
<1>4. LeaseKept(r)
  BY <1>1, LeaseStays
<1>5. RunnerFine(r, w)'
  BY <1>1, <1>2, <1>3, AroundRunner DEF RunnerFine, OnLease, InHand, OnFile, Firm, Loose, MigrationsStrong, MigrationsTypeOK
<1>6. ~unjust' /\ summary' \subseteq History
  BY <1>1 DEF MigrationsStrong, MigrationsInv, DeadLeaseOutlasted, MigrationsTypeOK
<1> QED
  BY <1>1, <1>2, <1>3, <1>4, <1>5, <1>6, QuietStep

\* A claimed version is in the hands of its runner.
LEMMA ClaimVersionKeeps ==
  ASSUME MigrationsStrong, NEW r \in Runners, ClaimVersion(r), Doing(r) \notin applied
  PROVE  MigrationsStrong'
<1> DEFINE v == runner[r]
<1> DEFINE u == runner'[r]
<1> DEFINE d == Doing(r)
<1>1. /\ v.ph = "claim" /\ claimed[d] = "none" /\ d \notin applied
      /\ runner' = Goto(r, "body")
      /\ claimed' = [claimed EXCEPT ![d] = r]
      /\ UNCHANGED <<applied, effects, index, builder, oldIndex, lease>>
      /\ UNCHANGED <<clock, summary, filled, dead, unjust>>
  BY DEF ClaimVersion, MayClaim, World, Schema0
<1>d. d \in Versions /\ d \in v.todo /\ d = First(v.todo)
  BY <1>1, AroundRunner, FirstFacts DEF RunnerFine, InHand, Doing
<1>2. /\ runner' = [runner EXCEPT ![r] = u] /\ u \in RunnerRecords
      /\ u.ph = "body" /\ u.todo = v.todo /\ u.renewed = v.renewed /\ u.since = v.since
  BY <1>1, AroundRunner DEF RunnerRecords, Phases, MigrationsStrong, MigrationsTypeOK, Stopped, Goto, Rest
<1>3. PICK w : w = u
  OBVIOUS
<1> HIDE DEF u, d
<1>4. LeaseKept(r)
  BY <1>1, LeaseStays
<1>a. /\ r # "none" /\ \A x \in Versions : (builder[x] = r => v.ph = "build" /\ x = d) /\ (claimed[x] = r => v.ph = "body" /\ x = d)
  BY <1>d, MigrationsAssumption DEF MigrationsStrong, BuildsInHand, ClaimsInHand
<1>b. d \notin NoTx
  BY <1>1, <1>d, AroundRunner DEF RunnerFine, InHand
<1>5. RunnerFine(r, w)'
  BY <1>1, <1>2, <1>3, <1>d, AroundRunner DEF RunnerFine, OnLease, InHand, OnFile, Firm, Loose, MigrationsStrong, MigrationsTypeOK
<1>6. FilesMove(r)
  BY <1>1, <1>d, <1>a DEF FilesMove, Firm, MigrationsStrong, MigrationsTypeOK
<1>7. BuildsMove(r, w)
  BY <1>1, <1>2, <1>3, <1>d, <1>a DEF BuildsMove, BuildsInHand, MigrationsStrong, MigrationsTypeOK
<1>8. ClaimsMove(r, w)
  BY <1>1, <1>2, <1>3, <1>d, <1>a, <1>b DEF ClaimsMove, MigrationsStrong, MigrationsTypeOK
<1>t. /\ applied' \subseteq Versions /\ effects' \in [Versions -> Nat]
      /\ claimed' \in [Versions -> Runners \cup {"none"}] /\ builder' \in [Versions -> Runners \cup {"none"}]
      /\ index' \in [Versions -> {"none", "building", "invalid", "valid"}] /\ oldIndex' \subseteq NoTx
  BY <1>1, <1>d DEF MigrationsStrong, MigrationsTypeOK
<1>9. MigrationsInv'
  BY <1>1, <1>d DEF MigrationsStrong, MigrationsTypeOK, MigrationsInv, RecordedIsBuilt, DeadLeaseOutlasted, BackfillComplete
<1> QED
  BY <1>1, <1>2, <1>3, <1>4, <1>5, <1>6, <1>7, <1>8, <1>9, <1>t, AliveStep

\* The commit of a file: its version is recorded with its one effect.
LEMMA CommitFileKeeps ==
  ASSUME MigrationsStrong, NEW r \in Runners, CommitFile(r)
  PROVE  MigrationsStrong'
<1> DEFINE v == runner[r]
<1> DEFINE u == runner'[r]
<1> DEFINE d == Doing(r)
<1>1. /\ v.ph = "body"
      /\ runner' = [runner EXCEPT ![r].ph = "next", ![r].todo = Rest(r)]
      /\ claimed' = [claimed EXCEPT ![d] = "none"]
      /\ effects' = [effects EXCEPT ![d] = @ + 1]
      /\ applied' = applied \cup {d}
      /\ UNCHANGED <<index, builder, oldIndex, lease>>
      /\ UNCHANGED <<clock, summary, filled, dead, unjust>>
  BY DEF CommitFile, World, Schema0
<1>d. d \in Versions /\ d \in v.todo /\ d = First(v.todo)
  BY <1>1, AroundRunner, FirstFacts DEF RunnerFine, InHand, Doing
<1>2. /\ runner' = [runner EXCEPT ![r] = u] /\ u \in RunnerRecords
      /\ u.ph = "next" /\ u.todo = Rest(r) /\ u.renewed = v.renewed /\ u.since = v.since
  BY <1>1, AroundRunner DEF RunnerRecords, Phases, MigrationsStrong, MigrationsTypeOK, Stopped, Goto, Rest
<1>3. PICK w : w = u
  OBVIOUS
<1> HIDE DEF u, d
<1>4. LeaseKept(r)
  BY <1>1, LeaseStays
<1>a. /\ r # "none" /\ \A x \in Versions : (builder[x] = r => v.ph = "build" /\ x = d) /\ (claimed[x] = r => v.ph = "body" /\ x = d)
  BY <1>d, MigrationsAssumption DEF MigrationsStrong, BuildsInHand, ClaimsInHand
<1>b. claimed[d] = r
  BY <1>1, <1>d, AroundRunner DEF RunnerFine, OnFile
<1>c. d \notin applied /\ d \notin NoTx /\ effects[d] = 0
  BY <1>a, <1>b, <1>d DEF MigrationsStrong, ClaimsInHand, MigrationsInv, RecordedIsBuilt
<1>5. RunnerFine(r, w)'
  BY <1>1, <1>2, <1>3, <1>d, AroundRunner DEF RunnerFine, OnLease, InHand, OnFile, Firm, Loose, MigrationsStrong, MigrationsTypeOK
<1>6. FilesMove(r)
  BY <1>1, <1>d, <1>a, <1>b DEF FilesMove, Firm, MigrationsStrong, MigrationsTypeOK
<1>7. BuildsMove(r, w)
  BY <1>1, <1>2, <1>3, <1>d, <1>a DEF BuildsMove, BuildsInHand, MigrationsStrong, MigrationsTypeOK
<1>8. ClaimsMove(r, w)
  BY <1>1, <1>2, <1>3, <1>d, <1>a, <1>b DEF ClaimsMove, MigrationsStrong, MigrationsTypeOK
<1>t. /\ applied' \subseteq Versions /\ effects' \in [Versions -> Nat]
      /\ claimed' \in [Versions -> Runners \cup {"none"}] /\ builder' \in [Versions -> Runners \cup {"none"}]
      /\ index' \in [Versions -> {"none", "building", "invalid", "valid"}] /\ oldIndex' \subseteq NoTx
  BY <1>1, <1>d DEF MigrationsStrong, MigrationsTypeOK
<1>9. MigrationsInv'
  BY <1>1, <1>d, <1>c DEF MigrationsStrong, MigrationsTypeOK, MigrationsInv, RecordedIsBuilt, DeadLeaseOutlasted, BackfillComplete
<1> QED
  BY <1>1, <1>2, <1>3, <1>4, <1>5, <1>6, <1>7, <1>8, <1>9, <1>t, AliveStep

\* A file that fails leaves nothing of it.
LEMMA FileFailsKeeps ==
  ASSUME MigrationsStrong, NEW r \in Runners, FileFails(r)
  PROVE  MigrationsStrong'
<1> DEFINE v == runner[r]
<1> DEFINE u == runner'[r]
<1> DEFINE d == Doing(r)
<1>1. /\ v.ph = "body"
      /\ runner' = Goto(r, "failed")
      /\ lease' = Release(r)
      /\ claimed' = [claimed EXCEPT ![d] = "none"]
      /\ UNCHANGED <<applied, effects, index, builder, oldIndex>>
      /\ UNCHANGED <<clock, summary, filled, dead, unjust>>
  BY DEF FileFails, Abort, World, Schema0
<1>d. d \in Versions /\ d \in v.todo /\ d = First(v.todo)
  BY <1>1, AroundRunner, FirstFacts DEF RunnerFine, InHand, Doing
<1>2. /\ runner' = [runner EXCEPT ![r] = u] /\ u \in RunnerRecords
      /\ u.ph = "failed" /\ u.todo = v.todo /\ u.renewed = v.renewed /\ u.since = v.since
  BY <1>1, AroundRunner DEF RunnerRecords, Phases, MigrationsStrong, MigrationsTypeOK, Stopped, Goto, Rest
<1>3. PICK w : w = u
  OBVIOUS
<1> HIDE DEF u, d
<1>4. LeaseKept(r)
  BY <1>1, LeaseReleased
<1>a. /\ r # "none" /\ \A x \in Versions : (builder[x] = r => v.ph = "build" /\ x = d) /\ (claimed[x] = r => v.ph = "body" /\ x = d)
  BY <1>d, MigrationsAssumption DEF MigrationsStrong, BuildsInHand, ClaimsInHand
<1>b. claimed[d] = r
  BY <1>1, <1>d, AroundRunner DEF RunnerFine, OnFile
<1>5. RunnerFine(r, w)'
  BY <1>1, <1>2, <1>3, <1>d, AroundRunner DEF RunnerFine, OnLease, InHand, OnFile, Firm, Loose, MigrationsStrong, MigrationsTypeOK
<1>6. FilesMove(r)
  BY <1>1, <1>d, <1>a, <1>b DEF FilesMove, Firm, MigrationsStrong, MigrationsTypeOK
<1>7. BuildsMove(r, w)
  BY <1>1, <1>2, <1>3, <1>d, <1>a DEF BuildsMove, BuildsInHand, MigrationsStrong, MigrationsTypeOK
<1>8. ClaimsMove(r, w)
  BY <1>1, <1>2, <1>3, <1>d, <1>a, <1>b DEF ClaimsMove, MigrationsStrong, MigrationsTypeOK
<1>t. /\ applied' \subseteq Versions /\ effects' \in [Versions -> Nat]
      /\ claimed' \in [Versions -> Runners \cup {"none"}] /\ builder' \in [Versions -> Runners \cup {"none"}]
      /\ index' \in [Versions -> {"none", "building", "invalid", "valid"}] /\ oldIndex' \subseteq NoTx
  BY <1>1, <1>d DEF MigrationsStrong, MigrationsTypeOK
<1>9. MigrationsInv'
  BY <1>1, <1>d DEF MigrationsStrong, MigrationsTypeOK, MigrationsInv, RecordedIsBuilt, DeadLeaseOutlasted, BackfillComplete
<1> QED
  BY <1>1, <1>2, <1>3, <1>4, <1>5, <1>6, <1>7, <1>8, <1>9, <1>t, AliveStep

\* Reaping touches no valid index, and nobody else is between its reaping and its build.
LEMMA ReapInvalidKeeps ==
  ASSUME MigrationsStrong, NEW r \in Runners, ReapInvalid(r)
  PROVE  MigrationsStrong'
<1> DEFINE v == runner[r]
<1> DEFINE u == runner'[r]
<1> DEFINE d == Doing(r)
<1>1. /\ v.ph = "reap"
      /\ runner' = Goto(r, "stmt")
      /\ index' = [index EXCEPT ![d] = Reaped(d)]
      /\ builder' = [builder EXCEPT ![d] = IF Reaped(d) = "building" THEN @ ELSE "none"]
      /\ UNCHANGED <<applied, claimed, effects, oldIndex, lease>>
      /\ UNCHANGED <<clock, summary, filled, dead, unjust>>
  BY DEF ReapInvalid, World, Schema0
<1>d. d \in Versions /\ d \in v.todo /\ d = First(v.todo)
  BY <1>1, AroundRunner, FirstFacts DEF RunnerFine, InHand, Doing
<1>2. /\ runner' = [runner EXCEPT ![r] = u] /\ u \in RunnerRecords
      /\ u.ph = "stmt" /\ u.stmt = v.stmt /\ u.todo = v.todo /\ u.renewed = v.renewed /\ u.since = v.since
  BY <1>1, AroundRunner DEF RunnerRecords, Phases, MigrationsStrong, MigrationsTypeOK, Stopped, Goto, Rest
<1>3. PICK w : w = u
  OBVIOUS
<1> HIDE DEF u, d
<1>4. LeaseKept(r)
  BY <1>1, LeaseStays
<1>a. /\ r # "none" /\ \A x \in Versions : (builder[x] = r => v.ph = "build" /\ x = d) /\ (claimed[x] = r => v.ph = "body" /\ x = d)
  BY <1>d, MigrationsAssumption DEF MigrationsStrong, BuildsInHand, ClaimsInHand
<1>b. Reaped(d) \in {"none", "valid"} /\ (index[d] = "valid" => Reaped(d) = "valid") /\ v.stmt = 1
  BY <1>1, <1>d, AroundRunner DEF Reaped, RunnerFine, InHand, MigrationsStrong, MigrationsTypeOK
<1>5. RunnerFine(r, w)'
  BY <1>1, <1>2, <1>3, <1>d, AroundRunner, <1>b DEF RunnerFine, OnLease, InHand, OnFile, Firm, Loose, MigrationsStrong, MigrationsTypeOK
<1>6. FilesMove(r)
  BY <1>1, <1>d, <1>a, <1>b DEF FilesMove, Firm, MigrationsStrong, MigrationsTypeOK
<1>7. BuildsMove(r, w)
  BY <1>1, <1>2, <1>3, <1>d, <1>a, <1>b DEF BuildsMove, BuildsInHand, MigrationsStrong, MigrationsTypeOK
<1>8. ClaimsMove(r, w)
  BY <1>1, <1>2, <1>3, <1>d, <1>a DEF ClaimsMove, MigrationsStrong, MigrationsTypeOK
<1>t. /\ applied' \subseteq Versions /\ effects' \in [Versions -> Nat]
      /\ claimed' \in [Versions -> Runners \cup {"none"}] /\ builder' \in [Versions -> Runners \cup {"none"}]
      /\ index' \in [Versions -> {"none", "building", "invalid", "valid"}] /\ oldIndex' \subseteq NoTx
  BY <1>1, <1>d, <1>b DEF MigrationsStrong, MigrationsTypeOK
<1>9. MigrationsInv'
  BY <1>1, <1>d, <1>b DEF MigrationsStrong, MigrationsTypeOK, MigrationsInv, RecordedIsBuilt, DeadLeaseOutlasted, BackfillComplete
<1> QED
  BY <1>1, <1>2, <1>3, <1>4, <1>5, <1>6, <1>7, <1>8, <1>9, <1>t, AliveStep

\* A build that begins is in the hands of its runner.
LEMMA BeginBuildKeeps ==
  ASSUME MigrationsStrong, NEW r \in Runners, BeginIndex(r), index[Doing(r)] = "none"
  PROVE  MigrationsStrong'
<1> DEFINE v == runner[r]
<1> DEFINE u == runner'[r]
<1> DEFINE d == Doing(r)
<1>1. /\ v.ph = "stmt" /\ v.stmt = 1 /\ ~LeaseLost(r) /\ index[d] = "none"
      /\ lease' = RenewedLease(r)
      /\ runner' = [runner EXCEPT ![r].ph = "build", ![r].renewed = RenewedAt(r), ![r].beat = TRUE]
      /\ index' = [index EXCEPT ![d] = "building"]
      /\ builder' = [builder EXCEPT ![d] = r]
      /\ UNCHANGED <<applied, claimed, effects, oldIndex>>
      /\ UNCHANGED <<clock, summary, filled, dead, unjust>>
  BY DEF BeginIndex, World, Schema0
<1>d. d \in Versions /\ d \in v.todo /\ d = First(v.todo)
  BY <1>1, AroundRunner, FirstFacts DEF RunnerFine, InHand, Doing
<1>b. /\ lease'.holder = r /\ lease'.expires = RenewedAt(r) + LeaseTTL /\ clock < lease'.expires
      /\ RenewedAt(r) \in Nat /\ RenewedAt(r) <= clock /\ dead[r] = Forever
  BY <1>1, LeaseRenewed DEF Firm, Loose
<1>2. /\ runner' = [runner EXCEPT ![r] = u] /\ u \in RunnerRecords
      /\ u.ph = "build" /\ u.todo = v.todo /\ u.renewed = RenewedAt(r) /\ u.since = v.since
  BY <1>1, <1>b, AroundRunner DEF RunnerRecords, Phases, MigrationsStrong, MigrationsTypeOK, Stopped, Goto, Rest
<1>3. PICK w : w = u
  OBVIOUS
<1> HIDE DEF u, d
<1>4. LeaseKept(r)
  BY <1>1, LeaseRenewed DEF Firm, Loose
<1>a. /\ r # "none" /\ \A x \in Versions : (builder[x] = r => v.ph = "build" /\ x = d) /\ (claimed[x] = r => v.ph = "body" /\ x = d)
  BY <1>d, MigrationsAssumption DEF MigrationsStrong, BuildsInHand, ClaimsInHand
<1>5. RunnerFine(r, w)'
  BY <1>1, <1>2, <1>3, <1>d, AroundRunner, <1>b DEF RunnerFine, OnLease, InHand, OnFile, Firm, Loose, MigrationsStrong, MigrationsTypeOK
<1>6. FilesMove(r)
  BY <1>1, <1>d, <1>a DEF FilesMove, Firm, MigrationsStrong, MigrationsTypeOK
<1>7. BuildsMove(r, w)
  BY <1>1, <1>2, <1>3, <1>d, <1>a DEF BuildsMove, BuildsInHand, MigrationsStrong, MigrationsTypeOK
<1>8. ClaimsMove(r, w)
  BY <1>1, <1>2, <1>3, <1>d, <1>a DEF ClaimsMove, MigrationsStrong, MigrationsTypeOK
<1>t. /\ applied' \subseteq Versions /\ effects' \in [Versions -> Nat]
      /\ claimed' \in [Versions -> Runners \cup {"none"}] /\ builder' \in [Versions -> Runners \cup {"none"}]
      /\ index' \in [Versions -> {"none", "building", "invalid", "valid"}] /\ oldIndex' \subseteq NoTx
  BY <1>1, <1>d DEF MigrationsStrong, MigrationsTypeOK
<1>9. MigrationsInv'
  BY <1>1, <1>d DEF MigrationsStrong, MigrationsTypeOK, MigrationsInv, RecordedIsBuilt, DeadLeaseOutlasted, BackfillComplete
<1> QED
  BY <1>1, <1>2, <1>3, <1>4, <1>5, <1>6, <1>7, <1>8, <1>9, <1>t, AliveStep

\* An index that is there is valid: the statement is passed over.
LEMMA SkipBuildKeeps ==
  ASSUME MigrationsStrong, NEW r \in Runners, BeginIndex(r), index[Doing(r)] # "none"
  PROVE  MigrationsStrong'
<1> DEFINE v == runner[r]
<1> DEFINE u == runner'[r]
<1> DEFINE d == Doing(r)
<1>1. /\ v.ph = "stmt" /\ v.stmt = 1 /\ ~LeaseLost(r) /\ index[d] # "none"
      /\ lease' = RenewedLease(r)
      /\ runner' = [runner EXCEPT ![r].stmt = 2, ![r].renewed = RenewedAt(r)]
      /\ UNCHANGED <<applied, claimed, effects, oldIndex, index, builder>>
      /\ UNCHANGED <<clock, summary, filled, dead, unjust>>
  BY DEF BeginIndex, World, Schema0
<1>d. d \in Versions /\ d \in v.todo /\ d = First(v.todo)
  BY <1>1, AroundRunner, FirstFacts DEF RunnerFine, InHand, Doing
<1>b. /\ lease'.holder = r /\ lease'.expires = RenewedAt(r) + LeaseTTL /\ clock < lease'.expires
      /\ RenewedAt(r) \in Nat /\ RenewedAt(r) <= clock /\ dead[r] = Forever
  BY <1>1, LeaseRenewed DEF Firm, Loose
<1>2. /\ runner' = [runner EXCEPT ![r] = u] /\ u \in RunnerRecords
      /\ u.ph = "stmt" /\ u.stmt = 2 /\ u.todo = v.todo /\ u.renewed = RenewedAt(r) /\ u.since = v.since
  BY <1>1, <1>b, AroundRunner DEF RunnerRecords, Phases, MigrationsStrong, MigrationsTypeOK, Stopped, Goto, Rest
<1>3. PICK w : w = u
  OBVIOUS
<1> HIDE DEF u, d
<1>4. LeaseKept(r)
  BY <1>1, LeaseRenewed DEF Firm, Loose
<1>a. /\ r # "none" /\ \A x \in Versions : (builder[x] = r => v.ph = "build" /\ x = d) /\ (claimed[x] = r => v.ph = "body" /\ x = d)
  BY <1>d, MigrationsAssumption DEF MigrationsStrong, BuildsInHand, ClaimsInHand
<1>5. RunnerFine(r, w)'
  BY <1>1, <1>2, <1>3, <1>d, AroundRunner, <1>b DEF RunnerFine, OnLease, InHand, OnFile, Firm, Loose, MigrationsStrong, MigrationsTypeOK
<1>6. FilesMove(r)
  BY <1>1, <1>d, <1>a DEF FilesMove, Firm, MigrationsStrong, MigrationsTypeOK
<1>7. BuildsMove(r, w)
  BY <1>1, <1>2, <1>3, <1>d, <1>a DEF BuildsMove, BuildsInHand, MigrationsStrong, MigrationsTypeOK
<1>8. ClaimsMove(r, w)
  BY <1>1, <1>2, <1>3, <1>d, <1>a DEF ClaimsMove, MigrationsStrong, MigrationsTypeOK
<1>t. /\ applied' \subseteq Versions /\ effects' \in [Versions -> Nat]
      /\ claimed' \in [Versions -> Runners \cup {"none"}] /\ builder' \in [Versions -> Runners \cup {"none"}]
      /\ index' \in [Versions -> {"none", "building", "invalid", "valid"}] /\ oldIndex' \subseteq NoTx
  BY <1>1, <1>d DEF MigrationsStrong, MigrationsTypeOK
<1>9. MigrationsInv'
  BY <1>1, <1>d DEF MigrationsStrong, MigrationsTypeOK, MigrationsInv, RecordedIsBuilt, DeadLeaseOutlasted, BackfillComplete
<1> QED
  BY <1>1, <1>2, <1>3, <1>4, <1>5, <1>6, <1>7, <1>8, <1>9, <1>t, AliveStep

\* A build that ends leaves a valid index.
LEMMA FinishIndexKeeps ==
  ASSUME MigrationsStrong, NEW r \in Runners, FinishIndex(r)
  PROVE  MigrationsStrong'
<1> DEFINE v == runner[r]
<1> DEFINE u == runner'[r]
<1> DEFINE d == Doing(r)
<1>1. /\ v.ph = "build" /\ builder[d] = r
      /\ runner' = [runner EXCEPT ![r].ph = "stmt", ![r].stmt = 2]
      /\ index' = [index EXCEPT ![d] = "valid"]
      /\ builder' = [builder EXCEPT ![d] = "none"]
      /\ UNCHANGED <<applied, claimed, effects, oldIndex, lease>>
      /\ UNCHANGED <<clock, summary, filled, dead, unjust>>
  BY DEF FinishIndex, World, Schema0
<1>d. d \in Versions /\ d \in v.todo /\ d = First(v.todo)
  BY <1>1, AroundRunner, FirstFacts DEF RunnerFine, InHand, Doing
<1>2. /\ runner' = [runner EXCEPT ![r] = u] /\ u \in RunnerRecords
      /\ u.ph = "stmt" /\ u.stmt = 2 /\ u.todo = v.todo /\ u.renewed = v.renewed /\ u.since = v.since
  BY <1>1, AroundRunner DEF RunnerRecords, Phases, MigrationsStrong, MigrationsTypeOK, Stopped, Goto, Rest
<1>3. PICK w : w = u
  OBVIOUS
<1> HIDE DEF u, d
<1>4. LeaseKept(r)
  BY <1>1, LeaseStays
<1>a. /\ r # "none" /\ \A x \in Versions : (builder[x] = r => v.ph = "build" /\ x = d) /\ (claimed[x] = r => v.ph = "body" /\ x = d)
  BY <1>d, MigrationsAssumption DEF MigrationsStrong, BuildsInHand, ClaimsInHand
<1>b. index[d] = "building"
  BY <1>1, <1>d, <1>a DEF MigrationsStrong, BuildsInHand
<1>5. RunnerFine(r, w)'
  BY <1>1, <1>2, <1>3, <1>d, AroundRunner DEF RunnerFine, OnLease, InHand, OnFile, Firm, Loose, MigrationsStrong, MigrationsTypeOK
<1>6. FilesMove(r)
  BY <1>1, <1>d, <1>a, <1>b DEF FilesMove, Firm, MigrationsStrong, MigrationsTypeOK
<1>7. BuildsMove(r, w)
  BY <1>1, <1>2, <1>3, <1>d, <1>a DEF BuildsMove, BuildsInHand, MigrationsStrong, MigrationsTypeOK
<1>8. ClaimsMove(r, w)
  BY <1>1, <1>2, <1>3, <1>d, <1>a DEF ClaimsMove, MigrationsStrong, MigrationsTypeOK
<1>t. /\ applied' \subseteq Versions /\ effects' \in [Versions -> Nat]
      /\ claimed' \in [Versions -> Runners \cup {"none"}] /\ builder' \in [Versions -> Runners \cup {"none"}]
      /\ index' \in [Versions -> {"none", "building", "invalid", "valid"}] /\ oldIndex' \subseteq NoTx
  BY <1>1, <1>d DEF MigrationsStrong, MigrationsTypeOK
<1>9. MigrationsInv'
  BY <1>1, <1>d DEF MigrationsStrong, MigrationsTypeOK, MigrationsInv, RecordedIsBuilt, DeadLeaseOutlasted, BackfillComplete
<1> QED
  BY <1>1, <1>2, <1>3, <1>4, <1>5, <1>6, <1>7, <1>8, <1>9, <1>t, AliveStep

\* A build whose index was dropped ends in an error.
LEMMA BuildUndoneKeeps ==
  ASSUME MigrationsStrong, NEW r \in Runners, BuildUndone(r)
  PROVE  MigrationsStrong'
<1> DEFINE v == runner[r]
<1> DEFINE u == runner'[r]
<1> DEFINE d == Doing(r)
<1>1. /\ v.ph = "build" /\ builder[d] # r
      /\ runner' = Goto(r, "failed")
      /\ lease' = Release(r)
      /\ UNCHANGED <<applied, claimed, effects, oldIndex, index, builder>>
      /\ UNCHANGED <<clock, summary, filled, dead, unjust>>
  BY DEF BuildUndone, Abort, World, Schema0
<1>d. d \in Versions /\ d \in v.todo /\ d = First(v.todo)
  BY <1>1, AroundRunner, FirstFacts DEF RunnerFine, InHand, Doing
<1>2. /\ runner' = [runner EXCEPT ![r] = u] /\ u \in RunnerRecords
      /\ u.ph = "failed" /\ u.todo = v.todo /\ u.renewed = v.renewed /\ u.since = v.since
  BY <1>1, AroundRunner DEF RunnerRecords, Phases, MigrationsStrong, MigrationsTypeOK, Stopped, Goto, Rest
<1>3. PICK w : w = u
  OBVIOUS
<1> HIDE DEF u, d
<1>4. LeaseKept(r)
  BY <1>1, LeaseReleased
<1>a. /\ r # "none" /\ \A x \in Versions : (builder[x] = r => v.ph = "build" /\ x = d) /\ (claimed[x] = r => v.ph = "body" /\ x = d)
  BY <1>d, MigrationsAssumption DEF MigrationsStrong, BuildsInHand, ClaimsInHand
<1>5. RunnerFine(r, w)'
  BY <1>1, <1>2, <1>3, <1>d, AroundRunner DEF RunnerFine, OnLease, InHand, OnFile, Firm, Loose, MigrationsStrong, MigrationsTypeOK
<1>6. FilesMove(r)
  BY <1>1, <1>d, <1>a DEF FilesMove, Firm, MigrationsStrong, MigrationsTypeOK
<1>7. BuildsMove(r, w)
  BY <1>1, <1>2, <1>3, <1>d, <1>a DEF BuildsMove, BuildsInHand, MigrationsStrong, MigrationsTypeOK
<1>8. ClaimsMove(r, w)
  BY <1>1, <1>2, <1>3, <1>d, <1>a DEF ClaimsMove, MigrationsStrong, MigrationsTypeOK
<1>t. /\ applied' \subseteq Versions /\ effects' \in [Versions -> Nat]
      /\ claimed' \in [Versions -> Runners \cup {"none"}] /\ builder' \in [Versions -> Runners \cup {"none"}]
      /\ index' \in [Versions -> {"none", "building", "invalid", "valid"}] /\ oldIndex' \subseteq NoTx
  BY <1>1, <1>d DEF MigrationsStrong, MigrationsTypeOK
<1>9. MigrationsInv'
  BY <1>1, <1>d DEF MigrationsStrong, MigrationsTypeOK, MigrationsInv, RecordedIsBuilt, DeadLeaseOutlasted, BackfillComplete
<1> QED
  BY <1>1, <1>2, <1>3, <1>4, <1>5, <1>6, <1>7, <1>8, <1>9, <1>t, AliveStep

\* A heartbeat that renews.
LEMMA BeatKeeps ==
  ASSUME MigrationsStrong, NEW r \in Runners, Heartbeat(r), lease.holder = r
  PROVE  MigrationsStrong'
<1> DEFINE v == runner[r]
<1> DEFINE u == runner'[r]
<1> DEFINE d == Doing(r)
<1>1. /\ v.ph = "build" /\ lease.holder = r
      /\ lease' = [lease EXCEPT !.expires = clock + LeaseTTL]
      /\ runner' = [runner EXCEPT ![r].renewed = clock, ![r].beat = TRUE]
      /\ UNCHANGED <<applied, claimed, effects, oldIndex, index, builder>>
      /\ UNCHANGED <<clock, summary, filled, dead, unjust>>
  BY DEF Heartbeat, World, Schema0
<1>d. d \in Versions /\ d \in v.todo /\ d = First(v.todo)
  BY <1>1, AroundRunner, FirstFacts DEF RunnerFine, InHand, Doing
<1>b. /\ lease'.holder = r /\ lease'.expires = clock + LeaseTTL /\ dead[r] = Forever
      /\ lease' \in [holder : Runners \cup {"none"}, expires : Nat]
  BY <1>1, AroundRunner DEF RunnerFine, OnLease
<1>2. /\ runner' = [runner EXCEPT ![r] = u] /\ u \in RunnerRecords
      /\ u.ph = "build" /\ u.todo = v.todo /\ u.renewed = clock /\ u.since = v.since
  BY <1>1, AroundRunner DEF RunnerRecords, Phases, MigrationsStrong, MigrationsTypeOK, Stopped, Goto, Rest
<1>3. PICK w : w = u
  OBVIOUS
<1> HIDE DEF u, d
<1>4. LeaseKept(r)
  BY <1>1, <1>b, LeaseTaken
<1>a. /\ r # "none" /\ \A x \in Versions : (builder[x] = r => v.ph = "build" /\ x = d) /\ (claimed[x] = r => v.ph = "body" /\ x = d)
  BY <1>d, MigrationsAssumption DEF MigrationsStrong, BuildsInHand, ClaimsInHand
<1>5. RunnerFine(r, w)'
  BY <1>1, <1>2, <1>3, <1>d, AroundRunner, <1>b DEF RunnerFine, OnLease, InHand, OnFile, Firm, Loose, MigrationsStrong, MigrationsTypeOK
<1>6. FilesMove(r)
  BY <1>1, <1>d, <1>a DEF FilesMove, Firm, MigrationsStrong, MigrationsTypeOK
<1>7. BuildsMove(r, w)
  BY <1>1, <1>2, <1>3, <1>d, <1>a DEF BuildsMove, BuildsInHand, MigrationsStrong, MigrationsTypeOK
<1>8. ClaimsMove(r, w)
  BY <1>1, <1>2, <1>3, <1>d, <1>a DEF ClaimsMove, MigrationsStrong, MigrationsTypeOK
<1>t. /\ applied' \subseteq Versions /\ effects' \in [Versions -> Nat]
      /\ claimed' \in [Versions -> Runners \cup {"none"}] /\ builder' \in [Versions -> Runners \cup {"none"}]
      /\ index' \in [Versions -> {"none", "building", "invalid", "valid"}] /\ oldIndex' \subseteq NoTx
  BY <1>1, <1>d DEF MigrationsStrong, MigrationsTypeOK
<1>9. MigrationsInv'
  BY <1>1, <1>d DEF MigrationsStrong, MigrationsTypeOK, MigrationsInv, RecordedIsBuilt, DeadLeaseOutlasted, BackfillComplete
<1> QED
  BY <1>1, <1>2, <1>3, <1>4, <1>5, <1>6, <1>7, <1>8, <1>9, <1>t, AliveStep

\* A statement that is cancelled leaves its index invalid, if it was still building one.
LEMMA CancelledKeeps ==
  ASSUME MigrationsStrong, NEW r \in Runners, runner[r].ph = "build", Cancelled(r), UNCHANGED <<applied, claimed, effects, oldIndex>>,
         UNCHANGED <<clock, summary, filled, dead, unjust>>
  PROVE  MigrationsStrong'
<1> DEFINE v == runner[r]
<1> DEFINE u == runner'[r]
<1> DEFINE d == Doing(r)
<1>1. /\ v.ph = "build"
      /\ runner' = Goto(r, "failed")
      /\ lease' = Release(r)
      /\ index' = IF builder[d] = r THEN [index EXCEPT ![d] = "invalid"] ELSE index
      /\ builder' = IF builder[d] = r THEN [builder EXCEPT ![d] = "none"] ELSE builder
      /\ UNCHANGED <<applied, claimed, effects, oldIndex>>
      /\ UNCHANGED <<clock, summary, filled, dead, unjust>>
  BY DEF Cancelled, Abort, World, Schema0
<1>d. d \in Versions /\ d \in v.todo /\ d = First(v.todo)
  BY <1>1, AroundRunner, FirstFacts DEF RunnerFine, InHand, Doing
<1>2. /\ runner' = [runner EXCEPT ![r] = u] /\ u \in RunnerRecords
      /\ u.ph = "failed" /\ u.todo = v.todo /\ u.renewed = v.renewed /\ u.since = v.since
  BY <1>1, AroundRunner DEF RunnerRecords, Phases, MigrationsStrong, MigrationsTypeOK, Stopped, Goto, Rest
<1>3. PICK w : w = u
  OBVIOUS
<1> HIDE DEF u, d
<1>4. LeaseKept(r)
  BY <1>1, LeaseReleased
<1>a. /\ r # "none" /\ \A x \in Versions : (builder[x] = r => v.ph = "build" /\ x = d) /\ (claimed[x] = r => v.ph = "body" /\ x = d)
  BY <1>d, MigrationsAssumption DEF MigrationsStrong, BuildsInHand, ClaimsInHand
<1>b. builder[d] = r => index[d] = "building"
  BY <1>1, <1>d, <1>a DEF MigrationsStrong, BuildsInHand
<1>5. RunnerFine(r, w)'
  BY <1>1, <1>2, <1>3, <1>d, AroundRunner DEF RunnerFine, OnLease, InHand, OnFile, Firm, Loose, MigrationsStrong, MigrationsTypeOK
<1>6. FilesMove(r)
  BY <1>1, <1>d, <1>a, <1>b DEF FilesMove, Firm, MigrationsStrong, MigrationsTypeOK
<1>7. BuildsMove(r, w)
  BY <1>1, <1>2, <1>3, <1>d, <1>a DEF BuildsMove, BuildsInHand, MigrationsStrong, MigrationsTypeOK
<1>8. ClaimsMove(r, w)
  BY <1>1, <1>2, <1>3, <1>d, <1>a DEF ClaimsMove, MigrationsStrong, MigrationsTypeOK
<1>t. /\ applied' \subseteq Versions /\ effects' \in [Versions -> Nat]
      /\ claimed' \in [Versions -> Runners \cup {"none"}] /\ builder' \in [Versions -> Runners \cup {"none"}]
      /\ index' \in [Versions -> {"none", "building", "invalid", "valid"}] /\ oldIndex' \subseteq NoTx
  BY <1>1, <1>d DEF MigrationsStrong, MigrationsTypeOK
<1>9. MigrationsInv'
  BY <1>1, <1>d, <1>b DEF MigrationsStrong, MigrationsTypeOK, MigrationsInv, RecordedIsBuilt, DeadLeaseOutlasted, BackfillComplete
<1> QED
  BY <1>1, <1>2, <1>3, <1>4, <1>5, <1>6, <1>7, <1>8, <1>9, <1>t, AliveStep

\* A heartbeat that fails and is tolerated.
LEMMA BeatFailsKeeps ==
  ASSUME MigrationsStrong, NEW r \in Runners, HeartbeatFails(r), clock - runner[r].renewed < LeaseTTL
  PROVE  MigrationsStrong'
<1> DEFINE v == runner[r]
<1> DEFINE u == runner'[r]
<1> DEFINE d == Doing(r)
<1>1. /\ v.ph = "build"
      /\ lease' = lease
      /\ runner' = [runner EXCEPT ![r].beat = TRUE]
      /\ UNCHANGED <<applied, claimed, effects, oldIndex, index, builder>>
      /\ UNCHANGED <<clock, summary, filled, dead, unjust>>
  BY DEF HeartbeatFails, World, Schema0
<1>d. d \in Versions /\ d \in v.todo /\ d = First(v.todo)
  BY <1>1, AroundRunner, FirstFacts DEF RunnerFine, InHand, Doing
<1>2. /\ runner' = [runner EXCEPT ![r] = u] /\ u \in RunnerRecords
      /\ u.ph = "build" /\ u.todo = v.todo /\ u.renewed = v.renewed /\ u.since = v.since
  BY <1>1, AroundRunner DEF RunnerRecords, Phases, MigrationsStrong, MigrationsTypeOK, Stopped, Goto, Rest
<1>3. PICK w : w = u
  OBVIOUS
<1> HIDE DEF u, d
<1>4. LeaseKept(r)
  BY <1>1, LeaseStays
<1>a. /\ r # "none" /\ \A x \in Versions : (builder[x] = r => v.ph = "build" /\ x = d) /\ (claimed[x] = r => v.ph = "body" /\ x = d)
  BY <1>d, MigrationsAssumption DEF MigrationsStrong, BuildsInHand, ClaimsInHand
<1>5. RunnerFine(r, w)'
  BY <1>1, <1>2, <1>3, <1>d, AroundRunner DEF RunnerFine, OnLease, InHand, OnFile, Firm, Loose, MigrationsStrong, MigrationsTypeOK
<1>6. FilesMove(r)
  BY <1>1, <1>d, <1>a DEF FilesMove, Firm, MigrationsStrong, MigrationsTypeOK
<1>7. BuildsMove(r, w)
  BY <1>1, <1>2, <1>3, <1>d, <1>a DEF BuildsMove, BuildsInHand, MigrationsStrong, MigrationsTypeOK
<1>8. ClaimsMove(r, w)
  BY <1>1, <1>2, <1>3, <1>d, <1>a DEF ClaimsMove, MigrationsStrong, MigrationsTypeOK
<1>t. /\ applied' \subseteq Versions /\ effects' \in [Versions -> Nat]
      /\ claimed' \in [Versions -> Runners \cup {"none"}] /\ builder' \in [Versions -> Runners \cup {"none"}]
      /\ index' \in [Versions -> {"none", "building", "invalid", "valid"}] /\ oldIndex' \subseteq NoTx
  BY <1>1, <1>d DEF MigrationsStrong, MigrationsTypeOK
<1>9. MigrationsInv'
  BY <1>1, <1>d DEF MigrationsStrong, MigrationsTypeOK, MigrationsInv, RecordedIsBuilt, DeadLeaseOutlasted, BackfillComplete
<1> QED
  BY <1>1, <1>2, <1>3, <1>4, <1>5, <1>6, <1>7, <1>8, <1>9, <1>t, AliveStep

\* The old index is dropped when the new one is valid.
LEMMA DropOldKeeps ==
  ASSUME MigrationsStrong, NEW r \in Runners, DropOld(r)
  PROVE  MigrationsStrong'
<1> DEFINE v == runner[r]
<1> DEFINE u == runner'[r]
<1> DEFINE d == Doing(r)
<1>1. /\ v.ph = "stmt" /\ v.stmt = 2 /\ ~LeaseLost(r)
      /\ lease' = RenewedLease(r)
      /\ runner' = [runner EXCEPT ![r].ph = "record", ![r].renewed = RenewedAt(r)]
      /\ oldIndex' = oldIndex \ {d}
      /\ UNCHANGED <<applied, claimed, effects, index, builder>>
      /\ UNCHANGED <<clock, summary, filled, dead, unjust>>
  BY DEF DropOld, World, Schema0
<1>d. d \in Versions /\ d \in v.todo /\ d = First(v.todo)
  BY <1>1, AroundRunner, FirstFacts DEF RunnerFine, InHand, Doing
<1>b. /\ lease'.holder = r /\ lease'.expires = RenewedAt(r) + LeaseTTL /\ clock < lease'.expires
      /\ RenewedAt(r) \in Nat /\ RenewedAt(r) <= clock /\ dead[r] = Forever
  BY <1>1, LeaseRenewed DEF Firm, Loose
<1>2. /\ runner' = [runner EXCEPT ![r] = u] /\ u \in RunnerRecords
      /\ u.ph = "record" /\ u.todo = v.todo /\ u.renewed = RenewedAt(r) /\ u.since = v.since
  BY <1>1, <1>b, AroundRunner DEF RunnerRecords, Phases, MigrationsStrong, MigrationsTypeOK, Stopped, Goto, Rest
<1>3. PICK w : w = u
  OBVIOUS
<1> HIDE DEF u, d
<1>4. LeaseKept(r)
  BY <1>1, LeaseRenewed DEF Firm, Loose
<1>a. /\ r # "none" /\ \A x \in Versions : (builder[x] = r => v.ph = "build" /\ x = d) /\ (claimed[x] = r => v.ph = "body" /\ x = d)
  BY <1>d, MigrationsAssumption DEF MigrationsStrong, BuildsInHand, ClaimsInHand
<1>c. index[d] = "valid"
  BY <1>1, <1>d, AroundRunner DEF RunnerFine, OnFile
<1>5. RunnerFine(r, w)'
  BY <1>1, <1>2, <1>3, <1>d, AroundRunner, <1>b DEF RunnerFine, OnLease, InHand, OnFile, Firm, Loose, MigrationsStrong, MigrationsTypeOK
<1>6. FilesMove(r)
  BY <1>1, <1>d, <1>a DEF FilesMove, Firm, MigrationsStrong, MigrationsTypeOK
<1>7. BuildsMove(r, w)
  BY <1>1, <1>2, <1>3, <1>d, <1>a DEF BuildsMove, BuildsInHand, MigrationsStrong, MigrationsTypeOK
<1>8. ClaimsMove(r, w)
  BY <1>1, <1>2, <1>3, <1>d, <1>a DEF ClaimsMove, MigrationsStrong, MigrationsTypeOK
<1>t. /\ applied' \subseteq Versions /\ effects' \in [Versions -> Nat]
      /\ claimed' \in [Versions -> Runners \cup {"none"}] /\ builder' \in [Versions -> Runners \cup {"none"}]
      /\ index' \in [Versions -> {"none", "building", "invalid", "valid"}] /\ oldIndex' \subseteq NoTx
  BY <1>1, <1>d DEF MigrationsStrong, MigrationsTypeOK
<1>9. MigrationsInv'
  BY <1>1, <1>d, <1>c DEF MigrationsStrong, MigrationsTypeOK, MigrationsInv, RecordedIsBuilt, DeadLeaseOutlasted, BackfillComplete
<1> QED
  BY <1>1, <1>2, <1>3, <1>4, <1>5, <1>6, <1>7, <1>8, <1>9, <1>t, AliveStep

\* A file is recorded when its index is valid.
LEMMA RecordMigrationKeeps ==
  ASSUME MigrationsStrong, NEW r \in Runners, RecordMigration(r)
  PROVE  MigrationsStrong'
<1> DEFINE v == runner[r]
<1> DEFINE u == runner'[r]
<1> DEFINE d == Doing(r)
<1>1. /\ v.ph = "record"
      /\ lease' = lease
      /\ runner' = [runner EXCEPT ![r].ph = "next", ![r].todo = Rest(r)]
      /\ applied' = applied \cup {d}
      /\ UNCHANGED <<oldIndex, claimed, effects, index, builder>>
      /\ UNCHANGED <<clock, summary, filled, dead, unjust>>
  BY DEF RecordMigration, World, Schema0
<1>d. d \in Versions /\ d \in v.todo /\ d = First(v.todo)
  BY <1>1, AroundRunner, FirstFacts DEF RunnerFine, InHand, Doing
<1>2. /\ runner' = [runner EXCEPT ![r] = u] /\ u \in RunnerRecords
      /\ u.ph = "next" /\ u.todo = Rest(r) /\ u.renewed = v.renewed /\ u.since = v.since
  BY <1>1, AroundRunner DEF RunnerRecords, Phases, MigrationsStrong, MigrationsTypeOK, Stopped, Goto, Rest
<1>3. PICK w : w = u
  OBVIOUS
<1> HIDE DEF u, d
<1>4. LeaseKept(r)
  BY <1>1, LeaseStays
<1>a. /\ r # "none" /\ \A x \in Versions : (builder[x] = r => v.ph = "build" /\ x = d) /\ (claimed[x] = r => v.ph = "body" /\ x = d)
  BY <1>d, MigrationsAssumption DEF MigrationsStrong, BuildsInHand, ClaimsInHand
<1>c. index[d] = "valid" /\ d \in NoTx
  BY <1>1, <1>d, AroundRunner DEF RunnerFine, OnFile, InHand
<1>e. claimed[d] = "none"
  BY <1>c, <1>d DEF MigrationsStrong, ClaimsInHand
<1>5. RunnerFine(r, w)'
  BY <1>1, <1>2, <1>3, <1>d, AroundRunner DEF RunnerFine, OnLease, InHand, OnFile, Firm, Loose, MigrationsStrong, MigrationsTypeOK
<1>6. FilesMove(r)
  BY <1>1, <1>d, <1>a DEF FilesMove, Firm, MigrationsStrong, MigrationsTypeOK
<1>7. BuildsMove(r, w)
  BY <1>1, <1>2, <1>3, <1>d, <1>a DEF BuildsMove, BuildsInHand, MigrationsStrong, MigrationsTypeOK
<1>8. ClaimsMove(r, w)
  BY <1>1, <1>2, <1>3, <1>d, <1>a, <1>e DEF ClaimsMove, MigrationsStrong, MigrationsTypeOK
<1>t. /\ applied' \subseteq Versions /\ effects' \in [Versions -> Nat]
      /\ claimed' \in [Versions -> Runners \cup {"none"}] /\ builder' \in [Versions -> Runners \cup {"none"}]
      /\ index' \in [Versions -> {"none", "building", "invalid", "valid"}] /\ oldIndex' \subseteq NoTx
  BY <1>1, <1>d DEF MigrationsStrong, MigrationsTypeOK
<1>9. MigrationsInv'
  BY <1>1, <1>d, <1>c DEF MigrationsStrong, MigrationsTypeOK, MigrationsInv, RecordedIsBuilt, DeadLeaseOutlasted, BackfillComplete
<1> QED
  BY <1>1, <1>2, <1>3, <1>4, <1>5, <1>6, <1>7, <1>8, <1>9, <1>t, AliveStep

\* A batch that inserted nothing chose nothing: whatever a live write added, the history is
\* complete then.
LEMMA BackfillStepKeeps ==
  ASSUME MigrationsStrong, NEW r \in Runners, BackfillStep(r)
  PROVE  MigrationsStrong'
<1> DEFINE v == runner[r]
<1> DEFINE u == runner'[r]
<1>1. v.ph = "fill" /\ lease' = lease /\ UNCHANGED Schema0 /\ UNCHANGED <<clock, filled, dead, unjust>>
  BY DEF BackfillStep
<1>2. PICK M \in SUBSET (History \ summary), W \in {{}} \cup {{e} : e \in History \ summary} :
          /\ Cardinality(M) = BackfillBatch \/ M = History \ summary
          /\ summary' = summary \cup M \cup W
          /\ runner' = Goto(r, IF LastBatch(Cardinality(M \ W)) THEN "fillrecord" ELSE "fill")
  BY DEF BackfillStep
<1>3. /\ runner' = [runner EXCEPT ![r] = u] /\ u \in RunnerRecords
      /\ u.ph \in {"fill", "fillrecord"} /\ u.todo = v.todo /\ u.renewed = v.renewed /\ u.since = v.since
      /\ u.ph = "fillrecord" => LastBatch(Cardinality(M \ W))
  BY <1>2, AroundRunner DEF RunnerRecords, Phases, MigrationsStrong, MigrationsTypeOK, Goto
<1>4. W \subseteq History /\ summary \subseteq summary' /\ summary' \subseteq History
  BY <1>2 DEF MigrationsStrong, MigrationsTypeOK
<1>5. ASSUME u.ph = "fillrecord" PROVE summary' = History
  <2>1. Cardinality(M \ W) = 0
    BY <1>3, <1>5 DEF LastBatch
  <2>2. IsFiniteSet(M)
    BY FS_Subset, MigrationsAssumption
  <2>3. IsFiniteSet(M \ W)
    BY <2>2, FS_Subset
  <2>4. M \subseteq W
    BY <2>1, <2>3, FS_EmptySet
  <2>5. Cardinality(W) <= 1
    <3>1. CASE W = {}
      BY <3>1, FS_EmptySet
    <3>2. CASE \E e \in History \ summary : W = {e}
      BY <3>2, FS_Singleton
    <3> QED
      BY <3>1, <3>2
  <2>6. IsFiniteSet(W)
    BY <1>4, FS_Subset, MigrationsAssumption
  <2>7. Cardinality(M) <= Cardinality(W) /\ Cardinality(M) \in Nat /\ Cardinality(W) \in Nat
    BY <2>2, <2>4, <2>6, FS_Subset, FS_CardinalityType
  <2>8. Cardinality(M) # BackfillBatch
    BY <2>5, <2>7, MigrationsAssumption
  <2> QED
    BY <1>2, <1>4, <2>8
<1>6. PICK w : w = u
  OBVIOUS
<1> HIDE DEF u
<1>7. RunnerFine(r, w)'
  BY <1>1, <1>3, <1>5, <1>6, AroundRunner DEF RunnerFine, OnLease, InHand, OnFile, Firm, Loose
<1>8. ~unjust' /\ (filled' => filled)
  BY <1>1 DEF MigrationsStrong, MigrationsInv, DeadLeaseOutlasted
<1> QED
  BY <1>1, <1>3, <1>4, <1>6, <1>7, <1>8, LeaseStays, QuietStep

\* A runner that dies: its transaction is gone, its index is invalid, its lease runs out.
LEMMA RunnerDiesKeeps ==
  ASSUME MigrationsStrong, NEW r \in Runners, RunnerDies(r)
  PROVE  MigrationsStrong'
<1>1. /\ dead[r] = Forever /\ dead' = [dead EXCEPT ![r] = clock]
      /\ runner' = [runner EXCEPT ![r] = Stopped]
      /\ claimed' = [x \in Versions |-> IF claimed[x] = r THEN "none" ELSE claimed[x]]
      /\ index' = [x \in Versions |-> IF builder[x] = r THEN "invalid" ELSE index[x]]
      /\ builder' = [x \in Versions |-> IF builder[x] = r THEN "none" ELSE builder[x]]
      /\ UNCHANGED <<applied, effects, oldIndex, lease, clock, summary, filled, unjust>>
  BY DEF RunnerDies
<1>2. PICK w : w = Stopped
  OBVIOUS
<1>3. w \in RunnerRecords /\ w.ph = "off" /\ w.todo = {} /\ w.renewed = 0 /\ w.since = 0
  BY <1>2 DEF Stopped, RunnerRecords, Phases
<1>4. RunnerFine(r, w)'
  BY <1>1, <1>3, AroundRunner DEF RunnerFine, OnLease, InHand, OnFile, Firm, Loose
<1>5. r # "none" /\ \A x \in Versions : builder[x] = r => index[x] = "building"
  BY MigrationsAssumption DEF MigrationsStrong, BuildsInHand
<1>6. LeaseMoves(r) /\ FilesMove(r)
  BY <1>1, <1>5 DEF LeaseMoves, FilesMove, MigrationsStrong, MigrationsTypeOK
<1>7. BuildsMove(r, w)
  BY <1>1, <1>5 DEF BuildsMove, MigrationsStrong, BuildsInHand
<1>8. ClaimsMove(r, w)
  BY <1>1, <1>5 DEF ClaimsMove
<1>9. /\ applied' \subseteq Versions /\ effects' \in [Versions -> Nat]
      /\ claimed' \in [Versions -> Runners \cup {"none"}] /\ builder' \in [Versions -> Runners \cup {"none"}]
      /\ index' \in [Versions -> {"none", "building", "invalid", "valid"}] /\ oldIndex' \subseteq NoTx
      /\ lease' \in [holder : Runners \cup {"none"}, expires : Nat]
  BY <1>1 DEF MigrationsStrong, MigrationsTypeOK
<1>10. dead' \in [Runners -> Nat] /\ dead'[r] = clock /\ \A q \in Runners \ {r} : dead'[q] = dead[q]
  BY <1>1, AroundRunner DEF MigrationsStrong, MigrationsTypeOK
<1>11. LeaseFine'
  BY <1>1, <1>10, AroundRunner DEF MigrationsStrong, LeaseFine, Forever
<1>12. MigrationsInv'
  <2>1. \A x \in Versions : index[x] = "valid" => index'[x] = "valid"
    BY <1>1, <1>5
  <2>2. NoTx \subseteq Versions
    BY MigrationsAssumption
  <2> QED
    BY <1>1, <2>1, <2>2 DEF MigrationsStrong, MigrationsTypeOK, MigrationsInv, RecordedIsBuilt, DeadLeaseOutlasted, BackfillComplete
<1> QED
  BY <1>1, <1>2, <1>3, <1>4, <1>6, <1>7, <1>8, <1>9, <1>10, <1>11, <1>12, RunnerStep

\* Time passes while nobody is in a firm phase; what was due for renewal stays due.
LEMMA MigrationTickKeeps ==
  ASSUME MigrationsStrong, MigrationTick
  PROVE  MigrationsStrong'
<1>1. /\ clock < MaxClock /\ clock' = clock + 1
      /\ \A r \in Runners : runner[r].ph \in {"off", "wait", "failed", "build"}
      /\ runner' = [r \in Runners |-> IF runner[r].ph = "build" THEN [runner[r] EXCEPT !.beat = FALSE] ELSE runner[r]]
      /\ UNCHANGED <<applied, claimed, effects, index, builder, oldIndex, lease, summary, filled, dead, unjust>>
  BY DEF MigrationTick, Schema0
<1>2. \A r \in Runners : /\ runner'[r] \in RunnerRecords /\ runner'[r].ph = runner[r].ph /\ runner'[r].todo = runner[r].todo
                         /\ runner'[r].renewed = runner[r].renewed /\ runner'[r].since = runner[r].since
  BY <1>1, AroundRunner DEF RunnerRecords
<1>3. clock \in Nat /\ clock <= MaxClock /\ MaxClock \in Nat /\ LeaseTTL \in Nat
  BY MigrationsAssumption DEF MigrationsStrong, MigrationsTypeOK
<1>4. MigrationsTypeOK'
  BY <1>1, <1>2, <1>3 DEF MigrationsStrong, MigrationsTypeOK
<1>5. RunnersFine'
  <2> SUFFICES ASSUME NEW r \in Runners PROVE RunnerFine(r, runner[r])'
    BY DEF RunnersFine
  <2>1. PICK w : w = runner'[r]
    OBVIOUS
  <2>2. PICK v : v = runner[r]
    OBVIOUS
  <2>3. /\ v \in RunnerRecords /\ RunnerFine(r, v) /\ v.renewed \in Nat /\ v.since \in Nat /\ RenewGap \in Nat
        /\ lease.expires \in Nat
    BY <2>2, AroundRunner
  <2>4. /\ w.ph = v.ph /\ w.todo = v.todo /\ w.renewed = v.renewed /\ w.since = v.since
        /\ v.ph \in {"off", "wait", "failed", "build"}
    BY <1>1, <1>2, <2>1, <2>2
  <2>5. OnLease(r, w)'
    BY <1>1, <1>3, <2>3, <2>4 DEF RunnerFine, OnLease, Firm, Loose, Forever
  <2>6. InHand(w)' /\ OnFile(r, w)'
    BY <1>1, <2>3, <2>4 DEF RunnerFine, InHand, OnFile
  <2> QED
    BY <2>1, <2>5, <2>6 DEF RunnerFine
<1>6. LeaseFine'
  <2>1. lease.expires \in Nat /\ \A r \in Runners : dead[r] \in Nat
    BY DEF MigrationsStrong, MigrationsTypeOK
  <2> QED
    BY <1>1, <1>3, <2>1 DEF MigrationsStrong, LeaseFine, Forever
<1>7. BuildsInHand' /\ ClaimsInHand'
  <2>1. \A x \in Versions : builder[x] \in Runners \cup {"none"} /\ claimed[x] \in Runners \cup {"none"}
    BY DEF MigrationsStrong, MigrationsTypeOK
  <2> QED
    BY <1>1, <1>2, <2>1 DEF MigrationsStrong, BuildsInHand, ClaimsInHand
<1>8. MigrationsInv'
  BY <1>1 DEF MigrationsStrong, MigrationsInv, RecordedIsBuilt, DeadLeaseOutlasted, BackfillComplete
<1> QED
  BY <1>4, <1>5, <1>6, <1>7, <1>8 DEF MigrationsStrong

\* A step that changes nothing the invariant speaks of.
LEMMA MigrationsStutter ==
  ASSUME MigrationsStrong, UNCHANGED <<Schema0, lease, clock, runner, summary, filled, dead, unjust>>
  PROVE  MigrationsStrong'
BY DEF Schema0, MigrationsStrong, MigrationsTypeOK, RunnersFine, RunnerFine, OnLease, InHand, OnFile, Firm, Loose, LeaseFine,
       BuildsInHand, ClaimsInHand, MigrationsInv, RecordedIsBuilt, DeadLeaseOutlasted, BackfillComplete, Forever

\* Every step of the migrations keeps the invariant.
LEMMA MigrationsStep == MigrationsStrong /\ [MigrationsNext]_migrationVars => MigrationsStrong'
<1> SUFFICES ASSUME MigrationsStrong, [MigrationsNext]_migrationVars PROVE MigrationsStrong'
  OBVIOUS
<1>1. CASE UNCHANGED migrationVars
  BY <1>1, MigrationsStutter DEF migrationVars, Schema0
<1>2. CASE InstallExtension
  BY <1>2, MigrationsStutter DEF InstallExtension
<1>3. CASE MigrationTick
  BY <1>3, MigrationTickKeeps
<1>4. ASSUME NEW r \in Runners, Heartbeat(r) \/ HeartbeatFails(r) PROVE MigrationsStrong'
  <2>1. runner[r].ph = "build" /\ UNCHANGED <<applied, claimed, effects, oldIndex>> /\ UNCHANGED <<clock, summary, filled, dead, unjust>>
    BY <1>4 DEF Heartbeat, HeartbeatFails, World
  <2>2. CASE Cancelled(r)
    BY <2>1, <2>2, CancelledKeeps
  <2>3. CASE Heartbeat(r) /\ lease.holder = r
    BY <2>3, BeatKeeps
  <2>4. CASE HeartbeatFails(r) /\ clock - runner[r].renewed < LeaseTTL
    BY <2>4, BeatFailsKeeps
  <2> QED
    BY <1>4, <2>2, <2>3, <2>4 DEF Heartbeat, HeartbeatFails
<1>5. ASSUME NEW r \in Runners,
             Boot(r) \/ TryAcquire(r) \/ GiveUp(r) \/ PendingMigrations(r) \/ NextFile(r) \/ LostBetween(r)
             \/ StartBackfill(r) \/ BackfillStep(r) \/ RecordBackfill(r) \/ FinishRun(r) \/ RunnerDies(r)
      PROVE  MigrationsStrong'
  BY <1>5, BootKeeps, TryAcquireKeeps, GiveUpKeeps, PendingMigrationsKeeps, NextFileKeeps, LostBetweenKeeps,
     StartBackfillKeeps, BackfillStepKeeps, RecordBackfillKeeps, FinishRunKeeps, RunnerDiesKeeps
<1>6. ASSUME NEW r \in Runners,
             ClaimVersion(r) \/ CommitFile(r) \/ FileFails(r) \/ ReapInvalid(r) \/ BeginIndex(r) \/ FinishIndex(r)
             \/ BuildUndone(r) \/ DropOld(r) \/ RecordMigration(r)
      PROVE  MigrationsStrong'
  BY <1>6, ClaimTakenKeeps, ClaimVersionKeeps, CommitFileKeeps, FileFailsKeeps, ReapInvalidKeeps, BeginBuildKeeps,
     SkipBuildKeeps, FinishIndexKeeps, BuildUndoneKeeps, DropOldKeeps, RecordMigrationKeeps
<1> QED
  BY <1>1, <1>2, <1>3, <1>4, <1>5, <1>6 DEF MigrationsNext

\* For any runners, files, history and lease times, with a renewal gap within the lease and a
\* wait beyond it: what is recorded is built, once; no index goes before its replacement
\* serves; nobody gives up on a runner that was dead when the wait began; and a backfill
\* recorded as complete is complete (MigrationsInv).
THEOREM MigrationsInvariant == MigrationsSpec => []MigrationsInv
<1>1. MigrationsStrong => MigrationsInv
  BY DEF MigrationsStrong
<1> QED
  BY <1>1, MigrationsStart, MigrationsStep, PTL DEF MigrationsSpec

-----------------------------------------------------------------------------
\* The phases before a unit's commit, and those after it.
Before == {"none", "fn", "outbox", "audit", "commit"}
After == {"project", "projecting", "publish", "publishing", "return"}
UnitRecords ==
    [ph : Before \cup After \cup {"done"}, wrote : Nat, depth : Nat, err : BOOLEAN, gone : BOOLEAN, queue : Seq(Handlers), at : Nat \ {0},
     answer : {"none", "ok", "error", "dead"}]
WorkTypeOK ==
    /\ unit \in [Works -> UnitRecords]
    /\ registered \in Seq(Subscribers)
    /\ seen \in [Handlers -> [Works -> Seq(Nat)]]

\* Projection h has handled the events of w, or has failed.
Followed(w, h) == <<h, w>> \in failed \/ seen[h][w] = EventsOf(w)
\* What is known of a unit in each phase: nothing is durable before the commit, and everything after it; the
\* projections before the position of the dispatch have followed and the others have seen nothing.
AnswerFits(w) ==
    /\ unit[w].ph # "done" <=> unit[w].answer = "none"
    /\ unit[w].ph \in Before => w \notin durable
    /\ unit[w].ph \in After => w \in durable
    /\ unit[w].answer = "ok" => w \in durable
    /\ unit[w].answer = "error" /\ w \notin unclear => w \notin durable
    /\ w \in durable /\ unit[w].wrote > 0 => w \in audited /\ (w \in WithOutbox => w \in queued)
DispatchFits(w) ==
    /\ unit[w].ph \in Before \cup {"project"} => \A h \in Projecting : seen[h][w] = << >>
    /\ unit[w].ph = "projecting" =>
         /\ unit[w].queue = Projections
         /\ \A i \in DOMAIN Projections : IF i < unit[w].at THEN Followed(w, Projections[i]) ELSE seen[Projections[i]][w] = << >>
    /\ unit[w].ph = "publishing" => unit[w].queue \in Seq(Subscribers)
    /\ unit[w].ph \in {"publish", "publishing", "return"} \/ unit[w].answer = "ok" => \A h \in Projecting : Followed(w, h)
\* The inductive invariant of the units of work.
WorkStrong == WorkTypeOK /\ \A w \in Works : AnswerFits(w) /\ DispatchFits(w)

\* A unit with its facts, taken out of the invariant.
LEMMA UnitFacts ==
  ASSUME WorkStrong, NEW w \in Works
  PROVE  /\ unit \in [Works -> UnitRecords] /\ unit[w] \in UnitRecords /\ AnswerFits(w) /\ DispatchFits(w)
         /\ unit[w].wrote \in Nat /\ unit[w].at \in Nat \ {0} /\ unit[w].queue \in Seq(Handlers) /\ unit[w].depth \in Nat
         /\ EventsOf(w) \in Seq(Nat)
<1>1. unit \in [Works -> UnitRecords] /\ unit[w] \in UnitRecords /\ AnswerFits(w) /\ DispatchFits(w)
  BY DEF WorkStrong, WorkTypeOK
<1>2. unit[w].wrote \in Nat /\ unit[w].at \in Nat \ {0} /\ unit[w].queue \in Seq(Handlers) /\ unit[w].depth \in Nat
  BY <1>1 DEF UnitRecords
<1> QED
  BY <1>1, <1>2 DEF EventsOf

\* Nothing but unit w, what is known of it and what was handled of it changes.
OnlyUnit(w) ==
    \A v \in Works \ {w} :
        /\ v \in durable' <=> v \in durable
        /\ v \in queued' <=> v \in queued
        /\ v \in audited' <=> v \in audited
        /\ v \in unclear' <=> v \in unclear
        /\ \A h \in Handlers : seen'[h][v] = seen[h][v] /\ (<<h, v>> \in failed' <=> <<h, v>> \in failed)

\* A step of unit w keeps the invariant if it leaves w's facts true and the other units alone.
LEMMA UnitStep ==
  ASSUME WorkStrong, NEW w \in Works, NEW u \in UnitRecords, unit' = [unit EXCEPT ![w] = u],
         registered' \in Seq(Subscribers), seen' \in [Handlers -> [Works -> Seq(Nat)]], OnlyUnit(w),
         AnswerFits(w)', DispatchFits(w)'
  PROVE  WorkStrong'
<1>1. unit \in [Works -> UnitRecords] /\ unit' \in [Works -> UnitRecords] /\ \A v \in Works \ {w} : unit'[v] = unit[v]
  BY DEF WorkStrong, WorkTypeOK
<1>2. ASSUME NEW v \in Works \ {w} PROVE AnswerFits(v)' /\ DispatchFits(v)'
  <2>1. AnswerFits(v) /\ DispatchFits(v) /\ unit'[v] = unit[v]
    BY <1>1 DEF WorkStrong
  <2>2. AnswerFits(v)'
    BY <2>1 DEF AnswerFits, OnlyUnit
  <2>3. \A h \in Projecting : h \in Handlers
    BY DEF Handlers
  <2>4. \A h \in Projecting : seen'[h][v] = seen[h][v] /\ (Followed(v, h)' <=> Followed(v, h))
    BY <2>1, <2>3 DEF Followed, OnlyUnit, EventsOf
  <2>5. \A i \in DOMAIN Projections : Projections[i] \in Projecting
    BY DEF Projecting
  <2> QED
    BY <2>1, <2>2, <2>4, <2>5 DEF DispatchFits
<1> QED
  BY <1>1, <1>2 DEF WorkStrong, WorkTypeOK

\* A step of w that handles nothing and makes nothing durable.
LEMMA QuietUnitStep ==
  ASSUME WorkStrong, NEW w \in Works, NEW u \in UnitRecords, unit' = [unit EXCEPT ![w] = u], Same,
         u.ph # "done" <=> u.answer = "none",
         u.ph \in Before => unit[w].ph \in Before,
         u.ph \in After => unit[w].ph \in After,
         u.ph = "projecting" => u.queue = unit[w].queue /\ u.at = unit[w].at,
         u.answer # "ok",
         u.answer = "error" => w \notin durable,
         u.wrote # unit[w].wrote => unit[w].ph \in Before /\ u.ph \in Before,
         u.ph = unit[w].ph \/ u.ph \in Before \cup {"done"}
           \/ (unit[w].ph = "publish" /\ u.ph = "publishing") \/ (unit[w].ph = "publishing" /\ u.ph = "return"),
         u.ph = "publishing" => u.queue \in Seq(Subscribers)
  PROVE  WorkStrong'
<1>1. AnswerFits(w) /\ DispatchFits(w) /\ unit'[w] = u
  BY UnitFacts
<1>2. /\ durable' = durable /\ queued' = queued /\ audited' = audited /\ registered' = registered /\ seen' = seen
      /\ failed' = failed /\ unclear' = unclear
  BY DEF Same
<1>3. AnswerFits(w)'
  BY <1>1, <1>2 DEF AnswerFits, Before, After
<1>4. \A h \in Projecting : u.wrote = unit[w].wrote => (Followed(w, h)' <=> Followed(w, h))
  BY <1>1, <1>2 DEF Followed, EventsOf
<1>5. DispatchFits(w)'
  <2>1. u.ph \in Before \cup {"project"} => unit[w].ph \in Before \cup {"project"}
    BY DEF Before, After
  <2>2. \A h \in Projecting : seen'[h][w] = seen[h][w]
    BY <1>2
  <2>3. u.ph \in Before \cup {"project"} => \A h \in Projecting : seen'[h][w] = << >>
    BY <1>1, <2>1, <2>2 DEF DispatchFits
  <2>4. u.ph = "projecting" => unit[w].ph = "projecting" /\ u.wrote = unit[w].wrote
    BY DEF Before
  <2>5. \A i \in DOMAIN Projections : Projections[i] \in Projecting
    BY DEF Projecting
  <2>6. ASSUME u.ph = "projecting"
        PROVE  /\ u.queue = Projections
               /\ \A i \in DOMAIN Projections : IF i < u.at THEN Followed(w, Projections[i])' ELSE seen'[Projections[i]][w] = << >>
    BY <1>1, <1>4, <2>2, <2>4, <2>5, <2>6 DEF DispatchFits
  <2>7. ASSUME u.ph \in {"publish", "publishing", "return"}
        PROVE  \A h \in Projecting : Followed(w, h)'
    <3>1. unit[w].ph \in {"publish", "publishing", "return"} /\ u.wrote = unit[w].wrote
      BY <2>7 DEF Before
    <3> QED
      BY <1>1, <1>4, <3>1 DEF DispatchFits
  <2> QED
    BY <1>1, <2>3, <2>6, <2>7 DEF DispatchFits
<1>6. registered' \in Seq(Subscribers) /\ seen' \in [Handlers -> [Works -> Seq(Nat)]] /\ OnlyUnit(w)
  BY <1>2 DEF WorkStrong, WorkTypeOK, OnlyUnit
<1> QED
  BY <1>3, <1>5, <1>6, UnitStep

\* The steps up to the commit, the departure of a client and the death of the process.
LEMMA EarlyStepsKeep ==
  ASSUME WorkStrong, NEW w \in Works,
         \/ BeginWork(w) \/ ClientGone(w) \/ Collect(w) \/ BeginNested(w) \/ CommitNested(w) \/ RollbackNested(w)
         \/ FailWork(w) \/ CheckWork(w) \/ SinkWrite(w) \/ LogWrite(w) \/ DieInWork(w)
  PROVE  WorkStrong'
<1>1. unit \in [Works -> UnitRecords] /\ unit[w] \in UnitRecords /\ AnswerFits(w)
  BY UnitFacts
<1>2. Same
  BY DEF BeginWork, ClientGone, Collect, BeginNested, CommitNested, RollbackNested, FailWork, CheckWork, SinkWrite, LogWrite, DieInWork
<1>3. CASE BeginWork(w) \/ CheckWork(w) \/ SinkWrite(w) \/ LogWrite(w)
  <2>1. PICK ph \in {"fn", "outbox", "audit", "commit"} : unit' = [unit EXCEPT ![w].ph = ph] /\ unit[w].ph \in Before
    BY <1>3 DEF BeginWork, CheckWork, SinkWrite, LogWrite, Move, Before
  <2>2. PICK u : u = [unit[w] EXCEPT !.ph = ph]
    OBVIOUS
  <2>3. u \in UnitRecords /\ u.ph = ph /\ u.answer = unit[w].answer /\ u.wrote = unit[w].wrote /\ unit' = [unit EXCEPT ![w] = u]
    BY <1>1, <2>1, <2>2 DEF UnitRecords, Before
  <2> QED
    BY <1>1, <1>2, <2>1, <2>3, QuietUnitStep DEF AnswerFits, Before, After
<1>4. CASE ClientGone(w)
  <2>1. PICK u : u = [unit[w] EXCEPT !.gone = TRUE]
    OBVIOUS
  <2>2. /\ u \in UnitRecords /\ u.ph = unit[w].ph /\ u.answer = unit[w].answer /\ u.wrote = unit[w].wrote /\ u.queue = unit[w].queue
        /\ u.at = unit[w].at /\ unit' = [unit EXCEPT ![w] = u] /\ u.ph # "done"
    BY <1>1, <1>4, <2>1 DEF UnitRecords, ClientGone
  <2> QED
    BY <1>1, <1>2, <2>2, UnitFacts, QuietUnitStep DEF AnswerFits, DispatchFits, Before, After
<1>5. CASE Collect(w)
  <2>0. PICK n \in Nat : n = unit[w].wrote + 1
    BY <1>1 DEF UnitRecords
  <2>1. PICK u : u = [unit[w] EXCEPT !.wrote = n]
    OBVIOUS
  <2>2. /\ u \in UnitRecords /\ u.ph = "fn" /\ u.answer = unit[w].answer /\ unit' = [unit EXCEPT ![w] = u] /\ unit[w].ph = "fn"
    BY <1>1, <1>5, <2>0, <2>1 DEF UnitRecords, Collect
  <2> QED
    BY <1>1, <1>2, <2>2, QuietUnitStep DEF AnswerFits, Before, After
<1>6. CASE BeginNested(w)
  <2>1. unit[w].ph = "fn" /\ unit' = [unit EXCEPT ![w].depth = @ + 1]
    BY <1>6 DEF BeginNested
  <2>2. PICK d \in Nat : d = unit[w].depth + 1
    BY <1>1, <2>1 DEF UnitRecords
  <2>3. PICK u : u = [unit[w] EXCEPT !.depth = d]
    OBVIOUS
  <2>4. u \in UnitRecords /\ u.ph = unit[w].ph /\ u.answer = unit[w].answer /\ u.wrote = unit[w].wrote /\ unit' = [unit EXCEPT ![w] = u]
    BY <1>1, <2>1, <2>2, <2>3 DEF UnitRecords
  <2> QED
    BY <1>1, <1>2, <2>1, <2>4, QuietUnitStep DEF AnswerFits, Before, After
<1>9. CASE CommitNested(w)
  <2>1. unit[w].ph = "fn" /\ unit' = [unit EXCEPT ![w].depth = @ - 1] /\ unit[w].depth > 0
    BY <1>9 DEF CommitNested
  <2>2. PICK d \in Nat : d = unit[w].depth - 1
    BY <1>1, <2>1 DEF UnitRecords
  <2>3. PICK u : u = [unit[w] EXCEPT !.depth = d]
    OBVIOUS
  <2>4. u \in UnitRecords /\ u.ph = unit[w].ph /\ u.answer = unit[w].answer /\ u.wrote = unit[w].wrote /\ unit' = [unit EXCEPT ![w] = u]
    BY <1>1, <2>1, <2>2, <2>3 DEF UnitRecords
  <2> QED
    BY <1>1, <1>2, <2>1, <2>4, QuietUnitStep DEF AnswerFits, Before, After
<1>10. CASE RollbackNested(w)
  <2>1. unit[w].ph = "fn" /\ unit' = [unit EXCEPT ![w].depth = @ - 1, ![w].err = TRUE] /\ unit[w].depth > 0
    BY <1>10 DEF RollbackNested
  <2>2. PICK d \in Nat : d = unit[w].depth - 1
    BY <1>1, <2>1 DEF UnitRecords
  <2>3. PICK v : v = [unit[w] EXCEPT !.depth = d]
    OBVIOUS
  <2>4. v \in UnitRecords /\ v.ph = unit[w].ph /\ v.answer = unit[w].answer /\ v.wrote = unit[w].wrote
    BY <1>1, <2>3 DEF UnitRecords
  <2>5. PICK u : u = [v EXCEPT !.err = TRUE]
    OBVIOUS
  <2>6. u \in UnitRecords /\ u.ph = "fn" /\ u.answer = unit[w].answer /\ u.wrote = unit[w].wrote
    BY <2>1, <2>4, <2>5 DEF UnitRecords
  <2>7. u = [unit[w] EXCEPT !.depth = unit[w].depth - 1, !.err = TRUE]
    BY <1>1, <2>2, <2>3, <2>5
  <2>8. unit' = [unit EXCEPT ![w] = u]
    BY <1>1, <2>1, <2>7
  <2>9. unit[w].answer = "none"
    BY <1>1, <2>1 DEF AnswerFits
  <2>10. unit[w].ph \in Before /\ u.ph \in Before /\ u.ph \notin After /\ u.answer = "none"
    BY <2>1, <2>6, <2>9 DEF Before, After
  <2> QED
    BY <1>2, <2>6, <2>8, <2>10, QuietUnitStep
<1>7. CASE FailWork(w)
  <2>1. PICK u : u = [unit[w] EXCEPT !.ph = "done", !.answer = "error"]
    OBVIOUS
  <2>2. /\ u \in UnitRecords /\ u.ph = "done" /\ u.answer = "error" /\ u.wrote = unit[w].wrote /\ unit' = [unit EXCEPT ![w] = u]
        /\ unit[w].ph \in Before
    BY <1>1, <1>7, <2>1 DEF UnitRecords, FailWork, RolledBack, Before
  <2> QED
    BY <1>1, <1>2, <2>2, QuietUnitStep DEF AnswerFits, Before, After
<1>8. CASE DieInWork(w)
  <2>1. PICK u : u = [unit[w] EXCEPT !.ph = "done", !.answer = "dead"]
    OBVIOUS
  <2>2. /\ u \in UnitRecords /\ u.ph = "done" /\ u.answer = "dead" /\ u.wrote = unit[w].wrote /\ unit' = [unit EXCEPT ![w] = u]
    BY <1>1, <1>8, <2>1 DEF UnitRecords, DieInWork
  <2> QED
    BY <1>1, <1>2, <2>2, QuietUnitStep DEF AnswerFits, Before, After
<1> QED
  BY <1>3, <1>4, <1>5, <1>6, <1>7, <1>8, <1>9, <1>10

\* The commit, answered or not.
LEMMA CommitsKeep ==
  ASSUME WorkStrong, NEW w \in Works, CommitWork(w) \/ CommitError(w)
  PROVE  WorkStrong'
<1>1. unit \in [Works -> UnitRecords] /\ unit[w] \in UnitRecords /\ AnswerFits(w) /\ DispatchFits(w) /\ unit[w].ph = "commit" /\ unit[w].wrote \in Nat
  BY UnitFacts DEF CommitWork, CommitError
<1>2. registered' = registered /\ seen' = seen /\ failed' = failed
  BY DEF CommitWork, CommitError
<1>3. OnlyUnit(w)
  BY <1>2 DEF OnlyUnit, CommitWork, CommitError, Landed
<1>4. registered' \in Seq(Subscribers) /\ seen' \in [Handlers -> [Works -> Seq(Nat)]]
  BY <1>2 DEF WorkStrong, WorkTypeOK
<1>5. CASE CommitWork(w)
  <2>1. PICK ph \in {"return", "project"} : ph = (IF unit[w].wrote = 0 THEN "return" ELSE "project")
    OBVIOUS
  <2>2. PICK u : u = [unit[w] EXCEPT !.ph = ph]
    OBVIOUS
  <2>3. /\ u \in UnitRecords /\ u.ph = ph /\ u.answer = unit[w].answer /\ u.wrote = unit[w].wrote /\ unit' = [unit EXCEPT ![w] = u]
    BY <1>1, <1>5, <2>1, <2>2 DEF UnitRecords, CommitWork, Move, After
  <2>4. Landed(w) /\ unclear' = unclear /\ unit'[w] = u
    BY <1>1, <1>5, <2>3 DEF CommitWork
  <2>5. AnswerFits(w)'
    BY <1>1, <2>1, <2>3, <2>4 DEF AnswerFits, Landed, Before, After
  <2>6. \A h \in Projecting : seen[h][w] = << >>
    BY <1>1 DEF DispatchFits, Before
  <2>7. unit[w].wrote = 0 => EventsOf(w)' = << >>
    BY <1>1, <2>3, <2>4 DEF EventsOf
  <2>8. unit[w].wrote = 0 => \A h \in Projecting : Followed(w, h)'
    BY <1>2, <2>6, <2>7 DEF Followed
  <2>9. unit[w].answer = "none"
    BY <1>1 DEF AnswerFits
  <2>10. DispatchFits(w)'
    BY <1>2, <2>1, <2>3, <2>4, <2>6, <2>8, <2>9 DEF DispatchFits, Before
  <2> QED
    BY <1>3, <1>4, <2>3, <2>5, <2>10, UnitStep
<1>6. CASE CommitError(w)
  <2>1. PICK u : u = [unit[w] EXCEPT !.ph = "done", !.answer = "error"]
    OBVIOUS
  <2>2. /\ u \in UnitRecords /\ u.ph = "done" /\ u.answer = "error" /\ u.wrote = unit[w].wrote /\ unit' = [unit EXCEPT ![w] = u]
    BY <1>1, <1>6, <2>1 DEF UnitRecords, CommitError, RolledBack
  <2>3. w \in unclear' /\ (Landed(w) \/ (durable' = durable /\ queued' = queued /\ audited' = audited)) /\ unit'[w] = u
    BY <1>1, <1>6, <2>2 DEF CommitError
  <2>4. AnswerFits(w)'
    BY <1>1, <2>2, <2>3 DEF AnswerFits, Landed, Before, After
  <2>5. DispatchFits(w)'
    BY <2>2, <2>3 DEF DispatchFits, Before
  <2> QED
    BY <1>3, <1>4, <2>2, <2>4, <2>5, UnitStep
<1> QED
  BY <1>5, <1>6

\* A unit at the start or the end of a dispatch.
Turned(r, q, p) == [r EXCEPT !.queue = q, !.at = 1, !.ph = p]
LEMMA DispatchRecord ==
  ASSUME NEW r \in UnitRecords, NEW q \in Seq(Handlers), NEW p \in Before \cup After,
         NEW u, u = Turned(r, q, p)
  PROVE  u \in UnitRecords /\ u.ph = p /\ u.answer = r.answer /\ u.wrote = r.wrote /\ u.queue = q /\ u.at = 1
<1>1. PICK a : a = [r EXCEPT !.queue = q]
  OBVIOUS
<1>2. a \in UnitRecords /\ a.answer = r.answer /\ a.wrote = r.wrote /\ a.queue = q
  BY <1>1 DEF UnitRecords
<1>3. PICK b : b = [a EXCEPT !.at = 1]
  OBVIOUS
<1>4. b \in UnitRecords /\ b.answer = r.answer /\ b.wrote = r.wrote /\ b.queue = q /\ b.at = 1
  BY <1>2, <1>3 DEF UnitRecords
<1>5. u = [b EXCEPT !.ph = p]
  BY <1>1, <1>3 DEF Turned
<1> QED
  BY <1>4, <1>5 DEF UnitRecords

\* The start and the end of a dispatch, and the answer: no handler runs.
LEMMA StartsKeep ==
  ASSUME WorkStrong, NEW w \in Works, StartDispatch(w)
  PROVE  WorkStrong'
<1>1. unit \in [Works -> UnitRecords] /\ unit[w] \in UnitRecords /\ AnswerFits(w) /\ DispatchFits(w)
  BY UnitFacts
<1>2. /\ durable' = durable /\ queued' = queued /\ audited' = audited /\ registered' = registered /\ seen' = seen
      /\ failed' = failed /\ unclear' = unclear
  BY DEF StartDispatch, Same
<1>3. registered \in Seq(Subscribers) /\ seen \in [Handlers -> [Works -> Seq(Nat)]]
  BY DEF WorkStrong, WorkTypeOK
<1>4. registered \in Seq(Handlers) /\ Projections \in Seq(Handlers)
  BY <1>3, UowAssumption DEF Handlers
<1>5. OnlyUnit(w)
  BY <1>2 DEF OnlyUnit
<1>6. unit[w].answer = "none" /\ w \in durable
  BY <1>1 DEF StartDispatch, AnswerFits, After
<1>7. CASE unit[w].ph = "project"
  <2>1. PICK u : u = Turned(unit[w], Projections, "projecting")
    OBVIOUS
  <2>2. u \in UnitRecords /\ u.ph = "projecting" /\ u.answer = "none" /\ u.wrote = unit[w].wrote /\ u.queue = Projections /\ u.at = 1
    <3>1. "projecting" \in Before \cup After /\ "publishing" \in Before \cup After
      BY DEF After
    <3> QED
      BY <1>1, <1>4, <1>6, <2>1, <3>1, DispatchRecord
  <2>3. unit' = [unit EXCEPT ![w] = u] /\ unit'[w] = u
    BY <1>1, <1>7, <2>1 DEF StartDispatch, SnapshotHandlers, Turned
  <2>4. AnswerFits(w)'
    BY <1>1, <1>2, <1>6, <2>2, <2>3 DEF AnswerFits, Before, After
  <2>5. \A i \in DOMAIN Projections : ~(i < 1)
    BY UowAssumption
  <2>6. \A i \in DOMAIN Projections : Projections[i] \in Projecting
    BY DEF Projecting
  <2>7. \A h \in Projecting : seen[h][w] = << >>
    BY <1>1, <1>7 DEF DispatchFits
  <2>8. DispatchFits(w)'
    BY <1>2, <2>2, <2>3, <2>5, <2>6, <2>7 DEF DispatchFits, Before
  <2> QED
    BY <1>2, <1>3, <1>5, <2>2, <2>3, <2>4, <2>8, UnitStep
<1>8. CASE unit[w].ph = "publish"
  <2>1. PICK u : u = Turned(unit[w], registered, "publishing")
    OBVIOUS
  <2>2. u \in UnitRecords /\ u.ph = "publishing" /\ u.answer = "none" /\ u.wrote = unit[w].wrote /\ u.queue = registered
    <3>1. "projecting" \in Before \cup After /\ "publishing" \in Before \cup After
      BY DEF After
    <3> QED
      BY <1>1, <1>4, <1>6, <2>1, <3>1, DispatchRecord
  <2>3. unit' = [unit EXCEPT ![w] = u] /\ unit'[w] = u
    BY <1>1, <1>8, <2>1 DEF StartDispatch, SnapshotHandlers, Turned
  <2>4. AnswerFits(w)'
    BY <1>1, <1>2, <1>6, <2>2, <2>3 DEF AnswerFits, Before, After
  <2>5. \A h \in Projecting : Followed(w, h)'
    BY <1>1, <1>2, <1>8, <2>2, <2>3 DEF DispatchFits, Followed, EventsOf
  <2>6. DispatchFits(w)'
    BY <1>3, <2>2, <2>3, <2>5 DEF DispatchFits, Before
  <2> QED
    BY <1>2, <1>3, <1>5, <2>2, <2>3, <2>4, <2>6, UnitStep
<1> QED
  BY <1>7, <1>8 DEF StartDispatch

\* The end of a dispatch finds every projection followed; the answer after it is ok.
LEMMA EndsKeep ==
  ASSUME WorkStrong, NEW w \in Works, EndDispatch(w) \/ ReturnWork(w)
  PROVE  WorkStrong'
<1>1. /\ unit \in [Works -> UnitRecords] /\ unit[w] \in UnitRecords /\ AnswerFits(w) /\ DispatchFits(w)
      /\ unit[w].at \in Nat \ {0} /\ unit[w].queue \in Seq(Handlers)
  BY UnitFacts
<1>2. /\ durable' = durable /\ queued' = queued /\ audited' = audited /\ registered' = registered /\ seen' = seen
      /\ failed' = failed /\ unclear' = unclear
  BY DEF EndDispatch, ReturnWork, Same
<1>3. registered \in Seq(Subscribers) /\ seen \in [Handlers -> [Works -> Seq(Nat)]]
  BY DEF WorkStrong, WorkTypeOK
<1>5. OnlyUnit(w)
  BY <1>2 DEF OnlyUnit
<1>6. unit[w].answer = "none" /\ w \in durable
  BY <1>1 DEF EndDispatch, ReturnWork, AnswerFits, After
<1>7. \A h \in Projecting : Followed(w, h)
  <2>1. CASE unit[w].ph = "projecting"
    <3>1. unit[w].queue = Projections /\ unit[w].at > Len(Projections)
      BY <1>1, <2>1 DEF DispatchFits, EndDispatch, ReturnWork
    <3>2. \A i \in DOMAIN Projections : i < unit[w].at
      BY <1>1, <3>1
    <3>3. \A i \in DOMAIN Projections : Followed(w, Projections[i])
      BY <1>1, <2>1, <3>2 DEF DispatchFits
    <3> QED
      BY <3>3 DEF Projecting
  <2>2. CASE unit[w].ph \in {"publishing", "return"}
    BY <1>1, <2>2 DEF DispatchFits
  <2> QED
    BY <2>1, <2>2 DEF EndDispatch, ReturnWork
<1>8. CASE EndDispatch(w)
  <2>1. PICK ph \in {"publish", "return"} : ph = IF unit[w].ph = "projecting" /\ w \notin WithOutbox THEN "publish" ELSE "return"
    OBVIOUS
  <2>0. PICK q \in Seq(Handlers) : q = << >>
    <3>1. << >> \in Seq(Handlers)
      OBVIOUS
    <3>2. \A x : x \in Seq(Handlers) => \E q \in Seq(Handlers) : q = x
      OBVIOUS
    <3> QED
      BY <3>1, <3>2, Zenon
  <2>2. PICK u : u = Turned(unit[w], q, ph)
    OBVIOUS
  <2>3. u \in UnitRecords /\ u.ph = ph /\ u.answer = "none" /\ u.wrote = unit[w].wrote
    <3>1. ph \in Before \cup After
      BY DEF After
    <3> QED
      BY <1>1, <1>6, <2>2, <3>1, DispatchRecord
  <2>4. unit' = [unit EXCEPT ![w] = u] /\ unit'[w] = u
    BY <1>1, <1>8, <2>0, <2>1, <2>2 DEF EndDispatch, Turned
  <2>5. AnswerFits(w)'
    BY <1>1, <1>2, <1>6, <2>3, <2>4 DEF AnswerFits, Before, After
  <2>6. \A h \in Projecting : Followed(w, h)'
    BY <1>2, <1>7, <2>3, <2>4 DEF Followed, EventsOf
  <2>7. DispatchFits(w)'
    BY <2>3, <2>4, <2>6 DEF DispatchFits, Before
  <2> QED
    BY <1>2, <1>3, <1>5, <2>3, <2>4, <2>5, <2>7, UnitStep
<1>9. CASE ReturnWork(w)
  <2>2. PICK u : u = [unit[w] EXCEPT !.ph = "done", !.answer = "ok"]
    OBVIOUS
  <2>3. u \in UnitRecords /\ u.ph = "done" /\ u.answer = "ok" /\ u.wrote = unit[w].wrote
    BY <1>1, <2>2 DEF UnitRecords
  <2>4. unit' = [unit EXCEPT ![w] = u] /\ unit'[w] = u
    BY <1>1, <1>9, <2>2 DEF ReturnWork, AnswerOf
  <2>5. AnswerFits(w)'
    BY <1>1, <1>2, <1>6, <2>3, <2>4 DEF AnswerFits, Before, After
  <2>6. \A h \in Projecting : Followed(w, h)'
    BY <1>2, <1>7, <2>3, <2>4 DEF Followed, EventsOf
  <2>7. DispatchFits(w)'
    BY <2>3, <2>4, <2>6 DEF DispatchFits, Before
  <2> QED
    BY <1>2, <1>3, <1>5, <2>3, <2>4, <2>5, <2>7, UnitStep
<1> QED
  BY <1>8, <1>9

\* A handler runs, or fails: the dispatch moves on by one.
LEMMA HandlersKeep ==
  ASSUME WorkStrong, NEW w \in Works, Deliver(w) \/ HandlerFails(w)
  PROVE  WorkStrong'
<1>1. /\ unit \in [Works -> UnitRecords] /\ unit[w] \in UnitRecords /\ AnswerFits(w) /\ DispatchFits(w)
      /\ unit[w].at \in Nat \ {0} /\ unit[w].queue \in Seq(Handlers) /\ EventsOf(w) \in Seq(Nat)
  BY UnitFacts
<1>2. durable' = durable /\ queued' = queued /\ audited' = audited /\ registered' = registered /\ unclear' = unclear
  BY DEF Deliver, HandlerFails
<1>3. registered \in Seq(Subscribers) /\ seen \in [Handlers -> [Works -> Seq(Nat)]]
  BY DEF WorkStrong, WorkTypeOK
<1>4. Delivering(w)
  BY DEF Deliver, HandlerFails
<1>5. PICK i \in Nat \ {0} : i = unit[w].at
  BY <1>1
<1>6. PICK q \in Seq(Handlers) : q = unit[w].queue
  BY <1>1
<1>7. i \in DOMAIN q /\ unit[w].ph \in {"projecting", "publishing"}
  BY <1>4, <1>5, <1>6 DEF Delivering
<1>8. PICK h \in Handlers : h = q[i]
  BY <1>6, <1>7
<1>9. HandlerOf(w) = h
  BY <1>5, <1>6, <1>8 DEF HandlerOf
<1>10. PICK u : u = [unit[w] EXCEPT !.at = i + 1]
  OBVIOUS
<1>11. /\ u \in UnitRecords /\ u.ph = unit[w].ph /\ u.answer = unit[w].answer /\ u.wrote = unit[w].wrote /\ u.queue = q /\ u.at = i + 1
  <2>1. PICK j \in Nat \ {0} : j = i + 1
    BY <1>5
  <2> QED
    BY <1>1, <1>6, <1>10, <2>1 DEF UnitRecords
<1>12. unit' = [unit EXCEPT ![w] = u] /\ unit'[w] = u
  <2>1. unit' = [unit EXCEPT ![w].at = i + 1]
    BY <1>1, <1>5 DEF Deliver, HandlerFails, NextHandler
  <2> QED
    BY <1>1, <1>10, <2>1
<1>13. EventsOf(w)' = EventsOf(w)
  BY <1>11, <1>12 DEF EventsOf
\* What this handler leaves: it has seen the events, or is marked as failed.
<1>14. /\ seen' \in [Handlers -> [Works -> Seq(Nat)]]
       /\ \A g \in Handlers, v \in Works : g # h \/ v # w => seen'[g][v] = seen[g][v] /\ (<<g, v>> \in failed' <=> <<g, v>> \in failed)
       /\ seen[h][w] = << >> => <<h, w>> \in failed' \/ seen'[h][w] = EventsOf(w)
  <2>1. CASE Deliver(w)
    <3>1. seen' = [seen EXCEPT ![h][w] = @ \o EventsOf(w)] /\ failed' = failed
      BY <1>9, <2>1 DEF Deliver
    <3>2. seen[h] \in [Works -> Seq(Nat)] /\ seen[h][w] \in Seq(Nat)
      BY <1>3, <1>8
    <3>3. PICK s \in Seq(Nat) : s = seen[h][w] \o EventsOf(w)
      <4>1. PICK a \in Seq(Nat) : a = seen[h][w]
        BY <3>2
      <4>2. PICK b \in Seq(Nat) : b = EventsOf(w)
        BY <1>1
      <4>3. a \o b \in Seq(Nat)
        OBVIOUS
      <4> QED
        BY <4>1, <4>2, <4>3
    <3>4. seen' = [seen EXCEPT ![h] = [seen[h] EXCEPT ![w] = s]]
      BY <1>3, <1>8, <3>1, <3>3
    <3>5. seen[h][w] = << >> => s = EventsOf(w)
      BY <1>1, <3>3
    <3>6. PICK f \in [Works -> Seq(Nat)] : f = [seen[h] EXCEPT ![w] = s]
      BY <3>2
    <3>7. f[w] = s /\ \A v \in Works : v # w => f[v] = seen[h][v]
      BY <3>2, <3>6
    <3>8. seen' \in [Handlers -> [Works -> Seq(Nat)]] /\ seen'[h] = f /\ \A g \in Handlers : g # h => seen'[g] = seen[g]
      BY <1>3, <1>8, <3>4, <3>6
    <3> QED
      BY <3>1, <3>5, <3>7, <3>8
  <2>2. CASE HandlerFails(w)
    <3>1. seen' = seen /\ failed' = failed \cup {<<h, w>>}
      BY <1>9, <2>2 DEF HandlerFails, HookCancelled
    <3> QED
      BY <1>3, <1>8, <3>1
  <2> QED
    BY <2>1, <2>2
<1>15. OnlyUnit(w)
  BY <1>2, <1>14 DEF OnlyUnit
<1>16. AnswerFits(w)'
  BY <1>1, <1>2, <1>11, <1>12 DEF AnswerFits, Before, After
<1>17. unit[w].answer = "none"
  BY <1>1, <1>7 DEF AnswerFits
<1>18. CASE unit[w].ph = "projecting"
  <2>1. q = Projections /\ h = Projections[i] /\ i \in DOMAIN Projections /\ DOMAIN Projections \subseteq Nat
    BY <1>1, <1>6, <1>7, <1>8, <1>18, UowAssumption DEF DispatchFits
  <2>2. \A j \in DOMAIN Projections : Projections[j] \in Handlers
    BY DEF Projecting, Handlers
  <2>3. ASSUME NEW j \in DOMAIN Projections
        PROVE  IF j < i + 1 THEN Followed(w, Projections[j])' ELSE seen'[Projections[j]][w] = << >>
    <3>1. j \in Nat /\ Projections[j] \in Handlers
      BY <2>1, <2>2
    <3>2. IF j < i THEN Followed(w, Projections[j]) ELSE seen[Projections[j]][w] = << >>
      BY <1>1, <1>5, <1>18 DEF DispatchFits
    <3>3. CASE j = i
      <4>1. seen[h][w] = << >>
        BY <1>5, <2>1, <3>2, <3>3
      <4> QED
        BY <1>5, <1>13, <1>14, <2>1, <3>3, <4>1 DEF Followed
    <3>4. CASE j # i
      <4>1. Projections[j] # h
        BY <2>1, <3>4, UowAssumption
      <4>2. seen'[Projections[j]][w] = seen[Projections[j]][w] /\ (Followed(w, Projections[j])' <=> Followed(w, Projections[j]))
        BY <1>13, <1>14, <3>1, <4>1 DEF Followed
      <4> QED
        BY <1>5, <3>1, <3>2, <3>4, <4>2
    <3> QED
      BY <3>3, <3>4
  <2>4. DispatchFits(w)'
    BY <1>11, <1>12, <1>17, <1>18, <2>1, <2>3 DEF DispatchFits, Before
  <2> QED
    BY <1>2, <1>3, <1>11, <1>12, <1>14, <1>15, <1>16, <2>4, UnitStep
<1>19. CASE unit[w].ph = "publishing"
  <2>1. h \in Subscribers /\ q \in Seq(Subscribers)
    BY <1>1, <1>6, <1>7, <1>8, <1>19 DEF DispatchFits
  <2>2. \A g \in Projecting : g # h /\ g \in Handlers
    BY <2>1, UowAssumption DEF Handlers
  <2>3. \A g \in Projecting : Followed(w, g)'
    BY <1>1, <1>13, <1>14, <1>19, <2>2 DEF DispatchFits, Followed
  <2>4. DispatchFits(w)'
    BY <1>11, <1>12, <1>19, <2>1, <2>3 DEF DispatchFits, Before
  <2> QED
    BY <1>2, <1>3, <1>11, <1>12, <1>14, <1>15, <1>16, <2>4, UnitStep
<1> QED
  BY <1>7, <1>18, <1>19

\* A registration is the business of no unit: the snapshots stay.
LEMMA RegisterKeeps ==
  ASSUME WorkStrong, NEW h \in Subscribers, Register(h)
  PROVE  WorkStrong'
<1>1. /\ unit' = unit /\ durable' = durable /\ queued' = queued /\ audited' = audited /\ seen' = seen
      /\ failed' = failed /\ unclear' = unclear /\ registered' = Append(registered, h)
  BY DEF Register
<1>2. WorkTypeOK'
  BY <1>1 DEF WorkStrong, WorkTypeOK
<1>3. \A w \in Works : AnswerFits(w)'
  BY <1>1 DEF WorkStrong, AnswerFits
<1>4. \A w \in Works : DispatchFits(w)'
  BY <1>1 DEF WorkStrong, DispatchFits, Followed, EventsOf
<1> QED
  BY <1>2, <1>3, <1>4 DEF WorkStrong

\* The unit's facts say what the caller relies on.
LEMMA WorkMeans ==
  ASSUME WorkStrong
  PROVE  WorkInv
<1>1. \A w \in Works : AnswerFits(w) /\ DispatchFits(w)
  BY DEF WorkStrong
<1>2. AnswerIsTrue
  BY <1>1 DEF AnswerIsTrue, AnswerFits
<1>3. ProjectionsFollow
  BY <1>1 DEF ProjectionsFollow, DispatchFits, Followed
<1> QED
  BY <1>2, <1>3 DEF WorkInv

\* The first state.
LEMMA WorkStart ==
  ASSUME UowInit
  PROVE  WorkStrong
<1>1. WorkTypeOK
  <2>1. Fresh \in UnitRecords
    BY DEF Fresh, UnitRecords, Before
  <2> QED
    BY <2>1 DEF UowInit, WorkTypeOK
<1>2. ASSUME NEW w \in Works PROVE AnswerFits(w) /\ DispatchFits(w)
  <2>1. unit[w] = Fresh /\ durable = {} /\ \A h \in Projecting : seen[h][w] = << >>
    BY DEF UowInit, Handlers
  <2>2. AnswerFits(w)
    BY <2>1 DEF AnswerFits, Fresh, Before, After
  <2>3. DispatchFits(w)
    BY <2>1 DEF DispatchFits, Fresh, Before
  <2> QED
    BY <2>2, <2>3
<1> QED
  BY <1>1, <1>2 DEF WorkStrong

\* Every step of the units keeps the invariant.
LEMMA WorkStep ==
  ASSUME WorkStrong, [UowNext]_uowVars
  PROVE  WorkStrong'
<1>1. ASSUME NEW w \in Works,
             \/ BeginWork(w) \/ ClientGone(w) \/ Collect(w) \/ BeginNested(w) \/ CommitNested(w) \/ RollbackNested(w)
             \/ FailWork(w) \/ CheckWork(w) \/ SinkWrite(w) \/ LogWrite(w) \/ DieInWork(w)
      PROVE  WorkStrong'
  BY <1>1, EarlyStepsKeep
<1>2. ASSUME NEW w \in Works, CommitWork(w) \/ CommitError(w) PROVE WorkStrong'
  BY <1>2, CommitsKeep
<1>3. ASSUME NEW w \in Works, StartDispatch(w) PROVE WorkStrong'
  BY <1>3, StartsKeep
<1>4. ASSUME NEW w \in Works, Deliver(w) \/ HandlerFails(w) PROVE WorkStrong'
  BY <1>4, HandlersKeep
<1>5. ASSUME NEW w \in Works, EndDispatch(w) \/ ReturnWork(w) PROVE WorkStrong'
  BY <1>5, EndsKeep
<1>6. ASSUME NEW h \in Subscribers, Register(h) PROVE WorkStrong'
  BY <1>6, RegisterKeeps
<1>7. ASSUME UNCHANGED uowVars PROVE WorkStrong'
  <2>1. /\ unit' = unit /\ durable' = durable /\ queued' = queued /\ audited' = audited /\ seen' = seen
        /\ failed' = failed /\ unclear' = unclear /\ registered' = registered
    BY <1>7 DEF uowVars
  <2>2. WorkTypeOK'
    BY <2>1 DEF WorkStrong, WorkTypeOK
  <2>3. \A w \in Works : AnswerFits(w)'
    BY <2>1 DEF WorkStrong, AnswerFits
  <2>4. \A w \in Works : DispatchFits(w)'
    BY <2>1 DEF WorkStrong, DispatchFits, Followed, EventsOf
  <2> QED
    BY <2>2, <2>3, <2>4 DEF WorkStrong
<1> QED
  BY <1>1, <1>2, <1>3, <1>4, <1>5, <1>6, <1>7 DEF UowNext

\* Every answer of a unit of work is true of what is durable, and every projection has followed it (unit_of_work.go,
\* dispatcher.go): for any number of units, projections, subscribers and failures.
THEOREM WorkInvariant == UowSpec => []WorkInv
<1>1. UowInit => WorkStrong
  BY WorkStart
<1>2. WorkStrong /\ [UowNext]_uowVars => WorkStrong'
  BY WorkStep
<1>3. WorkStrong => WorkInv
  BY WorkMeans
<1> QED
  BY <1>1, <1>2, <1>3, PTL DEF UowSpec

-----------------------------------------------------------------------------
\* The versions recorded tick by tick never decrease, and none is ahead of the present one.
HistoryFits ==
    /\ version \in Nat /\ tick \in 0..MaxTick /\ versionAt \in [0..MaxTick -> Nat]
    /\ \A s, t \in 0..tick : s <= t => versionAt[s] <= versionAt[t]
    /\ \A s \in 0..tick : versionAt[s] <= version
\* A memo knows at least what was there at its stamp.
MemoFits ==
    memo.set => /\ memo.at \in 0..tick /\ memo.version \in Nat
                /\ versionAt[memo.at] <= memo.version /\ memo.version <= version
\* Cache entries that are no newer in name than in content, and hold what every access of their key may read.
Schemas == [version : Nat, fields : SUBSET GqlAttrs]
EntryFits(x) ==
    /\ x.gen \in Nat /\ x.schema \in Schemas /\ x.gen <= x.schema.version
    /\ \A a \in Accesses : AccessSignature(a) = x.key => x.schema.fields = Readable(a)
FitEntries == {x \in [key : {AccessSignature(a) : a \in Accesses}, gen : Nat, schema : Schemas] : EntryFits(x)}
\* What a request in flight knows: its floor lies behind its time, its version is at least the floor.
Pending == [ph : {"version", "memo", "lookup"}, acc : Accesses, at : Nat, floor : Nat, gen : Nat, known : BOOLEAN]
Builts == [ph : {"built"}, schema : Schemas, gen : Nat, acc : Accesses, floor : Nat, known : BOOLEAN]
PendingFits(r) ==
    /\ r \in Pending /\ r.at <= tick /\ r.floor <= versionAt[r.at] /\ r.gen <= version
    /\ r.ph = "memo" => versionAt[r.at] <= r.gen
    /\ r.ph \in {"memo", "lookup"} /\ r.known => r.floor <= r.gen
BuiltFits(r) ==
    r \in Builts /\ r.gen <= r.schema.version /\ r.floor <= r.schema.version /\ r.schema.fields = Readable(r.acc)
RequestFits(r) == r = NoReq \/ PendingFits(r) \/ BuiltFits(r)
\* The inductive invariant of the schema cache.
GqlStrong ==
    /\ HistoryFits /\ MemoFits
    /\ lru \in Seq(FitEntries)
    /\ DOMAIN req = Callers /\ req = [c \in Callers |-> req[c]] /\ \A c \in Callers : RequestFits(req[c])
    /\ answered = [c \in Callers |-> NoAnswer]

\* Two accesses with one signature may read the same.
LEMMA SignatureDecides ==
  ASSUME NEW a \in Accesses, NEW b \in Accesses, AccessSignature(a) = AccessSignature(b)
  PROVE  Readable(a) = Readable(b)
<1>1. a.admin \in BOOLEAN /\ b.admin \in BOOLEAN
  BY GqlAssumption
<1>2. CASE a.admin /\ b.admin
  BY <1>2 DEF Readable
<1>3. CASE ~a.admin /\ ~b.admin
  <2>1. <<"attrs", a.attr, a.default>> = <<"attrs", b.attr, b.default>>
    BY <1>3 DEF AccessSignature
  <2>2. a.attr = b.attr /\ a.default = b.default
    BY <2>1
  <2> QED
    BY <1>3, <2>2 DEF Readable
<1>4. CASE a.admin /\ ~b.admin
  BY <1>4 DEF AccessSignature
<1>5. CASE ~a.admin /\ b.admin
  BY <1>5 DEF AccessSignature
<1> QED
  BY <1>1, <1>2, <1>3, <1>4, <1>5

\* Time and definitions only move forward.
Forward ==
    /\ version' \in Nat /\ version <= version' /\ tick' \in 0..MaxTick /\ tick <= tick'
    /\ \A s \in 0..tick : versionAt'[s] = versionAt[s]

\* What a request knows stays true.
LEMMA RequestStays ==
  ASSUME HistoryFits, Forward, NEW r, RequestFits(r)
  PROVE  RequestFits(r)'
<1>1. CASE r = NoReq
  BY <1>1 DEF RequestFits, NoReq
<1>2. CASE PendingFits(r)
  <2>1. r.at \in Nat /\ r.gen \in Nat /\ r.at \in 0..tick /\ version \in Nat /\ tick \in Nat /\ tick' \in Nat /\ version' \in Nat
    BY <1>2 DEF PendingFits, Pending, HistoryFits, Forward
  <2>2. versionAt'[r.at] = versionAt[r.at] /\ r.at <= tick' /\ r.gen <= version'
    BY <1>2, <2>1 DEF Forward, PendingFits
  <2> QED
    BY <1>2, <2>2 DEF RequestFits, PendingFits
<1>3. CASE BuiltFits(r)
  BY <1>3 DEF RequestFits, BuiltFits
<1> QED
  BY <1>1, <1>2, <1>3 DEF RequestFits

\* A change of definitions, here or elsewhere, and the passing of time.
LEMMA WorldKeeps ==
  ASSUME GqlStrong, DefineHere \/ DefineElsewhere \/ PassTime
  PROVE  GqlStrong'
<1>1. /\ lru' = lru /\ req' = req /\ answered' = answered /\ (memo' = memo \/ memo' = NoMemo)
  BY DEF DefineHere, DefineElsewhere, PassTime
<1>2. version \in Nat /\ tick \in 0..MaxTick /\ versionAt \in [0..MaxTick -> Nat] /\ MaxTick \in Nat /\ tick \in Nat
  BY GqlAssumption DEF GqlStrong, HistoryFits
<1>3. HistoryFits /\ MemoFits
  BY DEF GqlStrong
<1>4. Forward /\ HistoryFits'
  <2>1. CASE DefineHere \/ DefineElsewhere
    BY <1>2, <1>3, <2>1 DEF DefineHere, DefineElsewhere, Forward, HistoryFits
  <2>2. CASE PassTime
    <3>1. /\ tick' = tick + 1 /\ tick + 1 \in 0..MaxTick /\ version' = version /\ versionAt' \in [0..MaxTick -> Nat]
          /\ versionAt'[tick + 1] = version /\ \A s \in 0..tick : versionAt'[s] = versionAt[s]
      BY <1>2, <2>2 DEF PassTime
    <3>2. \A s \in 0..tick' : s \in 0..tick \/ s = tick + 1
      BY <1>2, <3>1
    <3>3. \A s \in 0..tick' : versionAt'[s] <= version'
      BY <1>2, <1>3, <3>1, <3>2 DEF HistoryFits
    <3>4. \A s, t \in 0..tick' : s <= t => versionAt'[s] <= versionAt'[t]
      BY <1>2, <1>3, <3>1, <3>2, <3>3 DEF HistoryFits
    <3> QED
      BY <1>2, <3>1, <3>3, <3>4 DEF Forward, HistoryFits
  <2> QED
    BY <2>1, <2>2
<1>5. MemoFits'
  <2>1. CASE memo' = NoMemo
    BY <2>1 DEF MemoFits, NoMemo
  <2>2. CASE memo' = memo
    <3>1. ASSUME memo.set PROVE memo.at \in 0..tick' /\ versionAt'[memo.at] = versionAt[memo.at] /\ memo.version <= version'
      BY <1>2, <1>3, <1>4, <3>1 DEF MemoFits, Forward
    <3> QED
      BY <1>3, <2>2, <3>1 DEF MemoFits
  <2> QED
    BY <1>1, <2>1, <2>2
<1>6. \A c \in Callers : RequestFits(req[c])'
  <2> SUFFICES ASSUME NEW c \in Callers PROVE RequestFits(req[c])'
    OBVIOUS
  <2>1. PICK r : r = req[c]
    OBVIOUS
  <2>2. RequestFits(r)'
    BY <1>3, <1>4, <2>1, RequestStays DEF GqlStrong
  <2>3. r = req'[c]
    BY <1>1, <2>1
  <2> QED
    BY <2>2, <2>3
<1> QED
  BY <1>1, <1>4, <1>5, <1>6 DEF GqlStrong

\* A request turns into r; the world stays and the caches are good.
LEMMA RequestStep ==
  ASSUME GqlStrong, NEW c \in Callers, NEW r, req' = [req EXCEPT ![c] = r], RequestFits(r),
         UNCHANGED <<version, versionAt, tick>>, MemoFits', lru' \in Seq(FitEntries), answered' = answered
  PROVE  GqlStrong'
<1>1. HistoryFits' /\ HistoryFits /\ Forward
  BY GqlAssumption DEF GqlStrong, HistoryFits, Forward
<1>2. RequestFits(r)'
  BY <1>1, RequestStays
<1>3. ASSUME NEW d \in Callers PROVE RequestFits(req[d])'
  <2>1. PICK q : q = req'[d]
    OBVIOUS
  <2>2. q = r \/ q = req[d]
    BY <2>1 DEF GqlStrong
  <2>3. RequestFits(q)'
    BY <1>1, <1>2, <2>2, RequestStays DEF GqlStrong
  <2> QED
    BY <2>1, <2>3
<1>4. DOMAIN req' = Callers /\ req' = [d \in Callers |-> req'[d]]
  BY DEF GqlStrong
<1> QED
  BY <1>1, <1>3, <1>4 DEF GqlStrong

\* The floor of a request lies behind its time, and behind a memo that is fresh.
LEMMA FloorHolds ==
  ASSUME GqlStrong
  PROVE  /\ Floor(tick) \in Nat /\ Floor(tick) <= versionAt[tick]
         /\ FreshMemo => memo.version \in Nat /\ Floor(tick) <= memo.version /\ memo.version <= version
<1>1. HistoryFits /\ MemoFits /\ MemoTTL \in Nat \ {0} /\ MaxTick \in Nat
  BY GqlAssumption DEF GqlStrong
<1>2. tick \in Nat /\ tick \in 0..tick /\ version \in Nat /\ 0..tick \subseteq 0..MaxTick
  BY <1>1 DEF HistoryFits
<1>3. PICK f \in 0..tick : f = IF tick + 1 < MemoTTL THEN 0 ELSE tick + 1 - MemoTTL
  <2>1. CASE tick + 1 < MemoTTL
    BY <1>2, <2>1
  <2>2. CASE ~(tick + 1 < MemoTTL)
    <3>1. tick + 1 - MemoTTL \in 0..tick
      BY <1>1, <1>2, <2>2
    <3> QED
      BY <2>2, <3>1
  <2> QED
    BY <2>1, <2>2
<1>4. Floor(tick) = versionAt[f] /\ versionAt[f] \in Nat
  BY <1>1, <1>2, <1>3 DEF Floor, HistoryFits
<1>5. versionAt[f] <= versionAt[tick]
  BY <1>1, <1>2, <1>3 DEF HistoryFits
<1>6. ASSUME FreshMemo PROVE memo.version \in Nat /\ Floor(tick) <= memo.version /\ memo.version <= version
  <2>1. memo.at \in 0..tick /\ memo.version \in Nat /\ versionAt[memo.at] <= memo.version /\ memo.version <= version /\ tick - memo.at < MemoTTL
    BY <1>1, <1>6 DEF FreshMemo, MemoFits
  <2>2. f <= memo.at
    BY <1>1, <1>2, <1>3, <2>1
  <2>3. versionAt[f] <= versionAt[memo.at] /\ versionAt[memo.at] \in Nat
    BY <1>1, <1>2, <2>1, <2>2 DEF HistoryFits
  <2> QED
    BY <1>4, <2>1, <2>3
<1> QED
  BY <1>4, <1>5, <1>6

\* A request arrives, asks for the version, and writes the memo.
LEMMA ArrivalKeeps ==
  ASSUME GqlStrong, NEW c \in Callers, NEW a \in Accesses, Execute(c, a)
  PROVE  GqlStrong'
<1>1. UNCHANGED <<version, versionAt, tick>> /\ memo' = memo /\ lru' = lru /\ answered' = answered
  BY DEF Execute
<1>2. tick \in Nat /\ version \in Nat
  BY GqlAssumption DEF GqlStrong, HistoryFits
<1>3. PICK n \in Nat : n = Floor(tick)
  BY FloorHolds
<1>4. CASE FreshMemo
  <2>1. PICK v \in Nat : v = memo.version
    BY <1>4, FloorHolds
  <2>2. PICK r : r = [ph |-> "lookup", acc |-> a, at |-> tick, floor |-> n, gen |-> v, known |-> TRUE]
    OBVIOUS
  <2>3. req' = [req EXCEPT ![c] = r]
    BY <1>3, <1>4, <2>1, <2>2 DEF Execute
  <2>4. r \in Pending /\ r.at = tick /\ r.floor = n /\ r.gen = v /\ r.ph = "lookup"
    BY <1>2, <2>2 DEF Pending
  <2>5. n <= versionAt[tick] /\ n <= v /\ v <= version
    BY <1>3, <1>4, <2>1, FloorHolds
  <2>6. PendingFits(r)
    BY <1>2, <2>4, <2>5 DEF PendingFits
  <2> QED
    BY <1>1, <2>3, <2>6, RequestStep DEF RequestFits, GqlStrong, MemoFits
<1>5. CASE ~FreshMemo
  <2>2. PICK r : r = [ph |-> "version", acc |-> a, at |-> tick, floor |-> n, gen |-> 0, known |-> TRUE]
    OBVIOUS
  <2>3. req' = [req EXCEPT ![c] = r]
    BY <1>3, <1>5, <2>2 DEF Execute
  <2>4. r \in Pending /\ r.at = tick /\ r.floor = n /\ r.gen = 0 /\ r.ph = "version"
    BY <1>2, <2>2 DEF Pending
  <2>5. n <= versionAt[tick]
    BY <1>3, FloorHolds
  <2>6. PendingFits(r)
    BY <1>2, <2>4, <2>5 DEF PendingFits
  <2> QED
    BY <1>1, <2>3, <2>6, RequestStep DEF RequestFits, GqlStrong, MemoFits
<1> QED
  BY <1>4, <1>5

\* A request that is not over and not built is pending.
LEMMA PendingRequest ==
  ASSUME GqlStrong, NEW c \in Callers, req[c].ph \in {"version", "memo", "lookup"}
  PROVE  PendingFits(req[c]) /\ req[c] \in Pending
<1>1. RequestFits(req[c])
  BY DEF GqlStrong
<1>2. req[c] # NoReq
  BY DEF NoReq
<1>3. ~BuiltFits(req[c])
  BY DEF BuiltFits, Builts
<1> QED
  BY <1>1, <1>2, <1>3 DEF RequestFits, PendingFits

\* The version is read, or not, and the memo takes the time of the request, not of the write.
LEMMA VersionKeeps ==
  ASSUME GqlStrong, NEW c \in Callers, ReadVersion(c) \/ VersionUnreadable(c) \/ WriteMemo(c)
  PROVE  GqlStrong'
<1>1. UNCHANGED <<version, versionAt, tick>> /\ lru' = lru /\ answered' = answered /\ lru' \in Seq(FitEntries)
  BY DEF ReadVersion, VersionUnreadable, WriteMemo, GqlStrong
<1>2. tick \in Nat /\ version \in Nat /\ HistoryFits /\ DOMAIN req = Callers /\ req = [d \in Callers |-> req[d]] /\ MemoFits
  BY GqlAssumption DEF GqlStrong, HistoryFits
<1>3. req[c].ph \in {"version", "memo", "lookup"}
  BY DEF ReadVersion, VersionUnreadable, WriteMemo
<1>4. PICK r \in Pending : r = req[c]
  BY <1>3, PendingRequest
<1>5. PendingFits(r)
  BY <1>3, <1>4, PendingRequest
<1>6. r.at \in 0..tick /\ r.floor \in Nat /\ r.gen \in Nat /\ versionAt[r.at] \in Nat /\ r.floor <= versionAt[r.at] /\ versionAt[r.at] <= version
  <2>1. r.at \in Nat /\ r.at <= tick /\ r.floor \in Nat /\ r.gen \in Nat /\ r.floor <= versionAt[r.at]
    BY <1>5 DEF PendingFits, Pending
  <2>2. r.at \in 0..tick /\ r.at \in 0..MaxTick
    BY <1>2, <2>1, GqlAssumption DEF HistoryFits
  <2> QED
    BY <1>2, <2>1, <2>2 DEF HistoryFits
<1>7. CASE ReadVersion(c)
  <2>1. PICK q : q = [r EXCEPT !.ph = "memo", !.gen = version]
    OBVIOUS
  <2>2. req' = [req EXCEPT ![c] = q] /\ memo' = memo
    BY <1>2, <1>4, <1>7, <2>1 DEF ReadVersion
  <2>3. q \in Pending /\ q.at = r.at /\ q.floor = r.floor /\ q.gen = version /\ q.ph = "memo"
    BY <1>2, <1>4, <2>1 DEF Pending
  <2>4. q.at <= tick /\ q.floor <= versionAt[q.at] /\ q.gen <= version /\ versionAt[q.at] <= q.gen /\ q.floor <= q.gen
    BY <1>2, <1>6, <2>3
  <2>5. PendingFits(q)
    BY <2>3, <2>4 DEF PendingFits
  <2> QED
    BY <1>1, <1>2, <2>2, <2>5, RequestStep DEF RequestFits, MemoFits
<1>8. CASE VersionUnreadable(c)
  <2>1. PICK q : q = [r EXCEPT !.ph = "lookup", !.known = FALSE]
    OBVIOUS
  <2>2. req' = [req EXCEPT ![c] = q] /\ memo' = memo
    BY <1>2, <1>4, <1>8, <2>1 DEF VersionUnreadable
  <2>3. q \in Pending /\ q.at = r.at /\ q.floor = r.floor /\ q.gen = r.gen /\ q.ph = "lookup" /\ q.known = FALSE
    BY <1>4, <2>1 DEF Pending
  <2>4. PendingFits(q)
    BY <1>5, <2>3 DEF PendingFits
  <2> QED
    BY <1>1, <1>2, <2>2, <2>4, RequestStep DEF RequestFits, MemoFits
<1>9. CASE WriteMemo(c)
  <2>1. PICK q : q = [r EXCEPT !.ph = "lookup"]
    OBVIOUS
  <2>2. req' = [req EXCEPT ![c] = q] /\ r.ph = "memo"
    BY <1>2, <1>4, <1>9, <2>1 DEF WriteMemo
  <2>3. q \in Pending /\ q.at = r.at /\ q.floor = r.floor /\ q.gen = r.gen /\ q.ph = "lookup" /\ q.known = r.known
    BY <1>4, <2>1 DEF Pending
  <2>4. PendingFits(q)
    BY <1>5, <2>2, <2>3 DEF PendingFits
  <2>5. memo' = [version |-> r.gen, at |-> r.at, set |-> TRUE]
    BY <1>4, <1>9 DEF WriteMemo, Stamp
  <2>6. memo'.at = r.at /\ memo'.version = r.gen
    BY <2>5
  <2>7. MemoFits'
    BY <1>1, <1>5, <1>6, <2>2, <2>6 DEF MemoFits, PendingFits
  <2> QED
    BY <1>1, <2>2, <2>4, <2>7, RequestStep DEF RequestFits
<1> QED
  BY <1>7, <1>8, <1>9

\* Moving an element to the front, or putting one there, leaves a cache of good entries.
LEMMA FrontKeeps ==
  ASSUME lru \in Seq(FitEntries), NEW i \in DOMAIN lru, NEW x \in FitEntries
  PROVE  ToFront(i, x) \in Seq(FitEntries)
<1>1. Len(lru) \in Nat /\ DOMAIN lru = 1..Len(lru) /\ \A j \in 1..Len(lru) : lru[j] \in FitEntries
  OBVIOUS
<1>2. \A j \in 1..Len(lru) : (IF j = 1 THEN x ELSE IF j <= i THEN lru[j - 1] ELSE lru[j]) \in FitEntries
  BY <1>1
<1> QED
  BY <1>1, <1>2 DEF ToFront

\* A cache hit is an entry of its key.
LEMMA GetKeeps ==
  ASSUME lru \in Seq(FitEntries), NEW key, Cached(key)
  PROVE  PositionOf(key) \in DOMAIN lru /\ EntryOf(key) \in FitEntries /\ EntryOf(key).key = key /\ CacheGet(key) \in Seq(FitEntries)
<1>1. PositionOf(key) \in Positions(key)
  BY DEF Cached, PositionOf
<1>2. PICK i \in DOMAIN lru : i = PositionOf(key) /\ lru[i].key = key
  BY <1>1 DEF Positions
<1>3. PICK x \in FitEntries : x = lru[i]
  BY <1>2
<1> QED
  BY <1>2, <1>3, FrontKeeps DEF EntryOf, CacheGet

\* A good entry put at the front, with or without an eviction.
LEMMA PutKeeps ==
  ASSUME lru \in Seq(FitEntries), NEW key, NEW gen, NEW schema,
         [key |-> key, gen |-> gen, schema |-> schema] \in FitEntries
  PROVE  CachePut(key, gen, schema) \in Seq(FitEntries)
<1>1. PICK x \in FitEntries : x = [key |-> key, gen |-> gen, schema |-> schema]
  OBVIOUS
<1>2. CASE Cached(key)
  <2>1. PICK i \in DOMAIN lru : i = PositionOf(key)
    BY <1>2, GetKeeps
  <2>2. CachePut(key, gen, schema) = ToFront(i, x)
    BY <1>1, <1>2, <2>1 DEF CachePut
  <2> QED
    BY <2>2, FrontKeeps
<1>3. CASE ~Cached(key)
  <2>1. PICK n : n = IF CacheCap > 0 /\ Len(lru) >= CacheCap THEN Len(lru) ELSE Len(lru) + 1
    OBVIOUS
  <2>2. Len(lru) \in Nat /\ n \in Nat /\ n <= Len(lru) + 1 /\ \A j \in 1..Len(lru) : lru[j] \in FitEntries
    BY <2>1
  <2>3. \A j \in 1..n : (IF j = 1 THEN x ELSE lru[j - 1]) \in FitEntries
    BY <2>2
  <2>4. CachePut(key, gen, schema) = [j \in 1..n |-> IF j = 1 THEN x ELSE lru[j - 1]]
    BY <1>1, <1>3, <2>1 DEF CachePut
  <2> QED
    BY <2>2, <2>3, <2>4
<1> QED
  BY <1>2, <1>3

\* The request is answered with a schema it was entitled to: nothing is left of it.
LEMMA AnswerStep ==
  ASSUME GqlStrong, NEW c \in Callers, NEW a, a = NoAnswer, req' = [req EXCEPT ![c] = NoReq],
         UNCHANGED <<version, versionAt, tick, memo>>, lru' \in Seq(FitEntries), answered' = [answered EXCEPT ![c] = a]
  PROVE  GqlStrong'
<1>1. answered' = answered
  BY DEF GqlStrong
<1>2. MemoFits' /\ RequestFits(NoReq)
  BY DEF GqlStrong, MemoFits, RequestFits
<1>3. PICK r : r = NoReq
  OBVIOUS
<1> QED
  BY <1>1, <1>2, <1>3, RequestStep

\* A hit at the request's version is at least its floor and was built for its signature.
LEMMA ServeCachedKeeps ==
  ASSUME GqlStrong, NEW c \in Callers, ServeCached(c)
  PROVE  GqlStrong'
<1>1. req[c].ph = "lookup" /\ lru \in Seq(FitEntries)
  BY DEF ServeCached, GqlStrong
<1>2. PICK r \in Pending : r = req[c] /\ PendingFits(r) /\ r.ph = "lookup"
  BY <1>1, PendingRequest
<1>3. PICK key : key = AccessSignature(r.acc)
  OBVIOUS
<1>4. Cached(key) /\ Hit(c, EntryOf(key)) /\ lru' = CacheGet(key) /\ answered' = [answered EXCEPT ![c] = Answer(c, EntryOf(key).schema)]
  BY <1>2, <1>3 DEF ServeCached
<1>5. PICK x \in FitEntries : x = EntryOf(key) /\ x.key = key
  BY <1>1, <1>4, GetKeeps
<1>6. EntryFits(x) /\ r.acc \in Accesses /\ r.floor \in Nat /\ r.gen \in Nat
  BY DEF FitEntries, Pending
<1>7. x.schema.fields = Readable(r.acc) /\ x.gen <= x.schema.version /\ x.gen \in Nat /\ x.schema.version \in Nat
  BY <1>3, <1>5, <1>6 DEF EntryFits, Schemas
<1>8. r.known => x.schema.version >= r.floor
  BY <1>2, <1>4, <1>5, <1>6, <1>7 DEF Hit, PendingFits
<1>9. Answer(c, x.schema) = NoAnswer
  BY <1>2, <1>7, <1>8 DEF Answer, NoAnswer
<1>10. lru' \in Seq(FitEntries)
  BY <1>1, <1>4, GetKeeps
<1>11. PICK a : a = Answer(c, x.schema)
  OBVIOUS
<1>12. answered' = [answered EXCEPT ![c] = a] /\ a = NoAnswer
  BY <1>4, <1>5, <1>9, <1>11
<1>13. req' = [req EXCEPT ![c] = NoReq] /\ UNCHANGED <<version, versionAt, tick, memo>>
  BY DEF ServeCached
<1> QED
  BY <1>10, <1>12, <1>13, AnswerStep

\* A schema built now is no older than the request's version and floor.
LEMMA BuildKeeps ==
  ASSUME GqlStrong, NEW c \in Callers, Build(c)
  PROVE  GqlStrong'
<1>1. req[c].ph = "lookup" /\ lru \in Seq(FitEntries)
  BY DEF Build, GqlStrong
<1>2. PICK r \in Pending : r = req[c] /\ PendingFits(r) /\ r.ph = "lookup"
  BY <1>1, PendingRequest
<1>3. PICK key : key = AccessSignature(r.acc)
  OBVIOUS
<1>4. lru' = (IF Cached(key) THEN CacheGet(key) ELSE lru) /\ UNCHANGED <<version, versionAt, tick, memo>> /\ answered' = answered
  BY <1>2, <1>3 DEF Build
<1>5. lru' \in Seq(FitEntries)
  BY <1>1, <1>4, GetKeeps
<1>6. version \in Nat /\ tick \in Nat /\ HistoryFits /\ MemoFits
  BY GqlAssumption DEF GqlStrong, HistoryFits
<1>7. r.acc \in Accesses /\ r.floor \in Nat /\ r.gen \in Nat /\ r.known \in BOOLEAN /\ r.at \in Nat /\ r.at <= tick
  BY <1>2 DEF Pending, PendingFits
<1>8. r.at \in 0..tick /\ r.at \in 0..MaxTick
  BY <1>6, <1>7, GqlAssumption DEF HistoryFits
<1>9. r.floor <= version /\ r.gen <= version
  <2>1. versionAt[r.at] \in Nat /\ versionAt[r.at] <= version
    BY <1>6, <1>8 DEF HistoryFits
  <2> QED
    BY <1>2, <1>6, <1>7, <2>1 DEF PendingFits
<1>10. PICK s \in Schemas : s = BuildSchema(r.acc) /\ s.version = version /\ s.fields = Readable(r.acc)
  <2>1. Readable(r.acc) \in SUBSET GqlAttrs
    BY DEF Readable
  <2>2. PICK s : s = [version |-> version, fields |-> Readable(r.acc)]
    OBVIOUS
  <2>3. s \in Schemas /\ s.version = version /\ s.fields = Readable(r.acc)
    BY <1>6, <2>1, <2>2 DEF Schemas
  <2> QED
    BY <2>2, <2>3 DEF BuildSchema
<1>11. PICK q : q = [ph |-> "built", schema |-> s, gen |-> r.gen, acc |-> r.acc, floor |-> r.floor, known |-> r.known]
  OBVIOUS
<1>12. q \in Builts /\ q.schema = s /\ q.gen = r.gen /\ q.acc = r.acc /\ q.floor = r.floor
  BY <1>7, <1>11 DEF Builts
<1>13. BuiltFits(q)
  BY <1>9, <1>10, <1>12 DEF BuiltFits
<1>14. req' = [req EXCEPT ![c] = q]
  BY <1>2, <1>10, <1>11 DEF Build
<1>15. MemoFits'
  BY <1>4, <1>6 DEF MemoFits
<1> QED
  BY <1>4, <1>5, <1>13, <1>14, <1>15, RequestStep DEF RequestFits

\* What was built is served, and cached under a version it is not older than.
LEMMA ServeBuiltKeeps ==
  ASSUME GqlStrong, NEW c \in Callers, ServeBuilt(c)
  PROVE  GqlStrong'
<1>1. req[c].ph = "built" /\ lru \in Seq(FitEntries) /\ RequestFits(req[c])
  BY DEF ServeBuilt, GqlStrong
<1>2. PICK r : r = req[c]
  OBVIOUS
<1>3. BuiltFits(r)
  BY <1>1, <1>2 DEF RequestFits, NoReq, PendingFits, Pending
<1>4. /\ r.acc \in Accesses /\ r.gen \in Nat /\ r.floor \in Nat /\ r.schema \in Schemas /\ r.schema.version \in Nat
      /\ r.gen <= r.schema.version /\ r.floor <= r.schema.version /\ r.schema.fields = Readable(r.acc)
  BY <1>3 DEF BuiltFits, Builts, Schemas
<1>5. PICK key : key = AccessSignature(r.acc)
  OBVIOUS
<1>6. PICK g \in Nat : g = r.gen
  BY <1>4
<1>7. PICK s \in Schemas : s = r.schema
  BY <1>4
<1>8. [key |-> key, gen |-> g, schema |-> s] \in FitEntries
  <2>1. PICK x : x = [key |-> key, gen |-> g, schema |-> s]
    OBVIOUS
  <2>2. x \in [key : {AccessSignature(a) : a \in Accesses}, gen : Nat, schema : Schemas] /\ x.key = key /\ x.gen = g /\ x.schema = s
    BY <1>4, <1>5, <2>1
  <2>3. ASSUME NEW a \in Accesses, AccessSignature(a) = x.key PROVE x.schema.fields = Readable(a)
    BY <1>4, <1>5, <1>7, <2>2, <2>3, SignatureDecides
  <2>4. EntryFits(x)
    BY <1>4, <1>6, <1>7, <2>2, <2>3 DEF EntryFits
  <2> QED
    BY <2>1, <2>2, <2>4 DEF FitEntries
<1>9. lru' = CachePut(key, g, s)
  BY <1>2, <1>5, <1>6, <1>7 DEF ServeBuilt
<1>10. lru' \in Seq(FitEntries)
  BY <1>1, <1>8, <1>9, PutKeeps
<1>11. Answer(c, s) = NoAnswer
  BY <1>2, <1>4, <1>7 DEF Answer, NoAnswer
<1>12. PICK a : a = Answer(c, s)
  OBVIOUS
<1>13. answered' = [answered EXCEPT ![c] = a] /\ a = NoAnswer
  BY <1>2, <1>7, <1>11, <1>12 DEF ServeBuilt
<1>14. req' = [req EXCEPT ![c] = NoReq] /\ UNCHANGED <<version, versionAt, tick, memo>>
  BY DEF ServeBuilt
<1> QED
  BY <1>10, <1>13, <1>14, AnswerStep

\* The first state.
LEMMA GqlStart ==
  ASSUME GqlInit
  PROVE  GqlStrong
<1>1. HistoryFits
  BY GqlAssumption DEF GqlInit, HistoryFits
<1>2. MemoFits
  BY DEF GqlInit, MemoFits, NoMemo
<1>3. \A c \in Callers : req[c] = NoReq
  BY DEF GqlInit
<1>4. \A c \in Callers : RequestFits(req[c])
  BY <1>3 DEF RequestFits
<1> QED
  BY <1>1, <1>2, <1>4 DEF GqlStrong, GqlInit

\* Every step of the engine keeps the invariant.
LEMMA GqlStep ==
  ASSUME GqlStrong, [GqlNext]_gqlVars
  PROVE  GqlStrong'
<1>1. ASSUME NEW c \in Callers, NEW a \in Accesses, Execute(c, a) PROVE GqlStrong'
  BY <1>1, ArrivalKeeps
<1>2. ASSUME NEW c \in Callers, ReadVersion(c) \/ VersionUnreadable(c) \/ WriteMemo(c) PROVE GqlStrong'
  BY <1>2, VersionKeeps
<1>3. ASSUME NEW c \in Callers, ServeCached(c) \/ Build(c) \/ ServeBuilt(c) PROVE GqlStrong'
  BY <1>3, ServeCachedKeeps, BuildKeeps, ServeBuiltKeeps
<1>4. ASSUME DefineHere \/ DefineElsewhere \/ PassTime PROVE GqlStrong'
  BY <1>4, WorldKeeps
<1>5. ASSUME UNCHANGED gqlVars PROVE GqlStrong'
  <2>1. UNCHANGED <<version, versionAt, tick, memo, lru, req, answered>>
    BY <1>5 DEF gqlVars
  <2>2. HistoryFits' /\ MemoFits' /\ Forward /\ HistoryFits
    BY <2>1, GqlAssumption DEF GqlStrong, HistoryFits, MemoFits, Forward
  <2>3. ASSUME NEW c \in Callers PROVE RequestFits(req[c])'
    <3>1. PICK r : r = req[c]
      OBVIOUS
    <3>2. RequestFits(r)' /\ r = req'[c]
      BY <2>1, <2>2, <3>1, RequestStays DEF GqlStrong
    <3> QED
      BY <3>2
  <2> QED
    BY <2>1, <2>2, <2>3 DEF GqlStrong
<1> QED
  BY <1>1, <1>2, <1>3, <1>4, <1>5 DEF GqlNext

\* For any callers, accesses, TTL and cache capacity: a schema served is at most MemoTTL old and built for
\* the very permissions of its caller, however requests interleave with definition changes on any replica.
THEOREM SchemaStaysCurrent == GqlSpec => []SchemaIsCurrent
<1>1. GqlStrong => SchemaIsCurrent
  BY DEF GqlStrong, SchemaIsCurrent, NoAnswer
<1> QED
  BY <1>1, GqlStart, GqlStep, PTL DEF GqlSpec

-----------------------------------------------------------------------------
(* The search projection. *)

\* What an entity's document and vectors are to be, of the values it holds.
DocOf(h) == IF h = {} THEN NoDoc ELSE h
VecOf(h) == IF h = {} THEN {} ELSE h \cup {"self"}

\* A task t is past its reading of e; it is going to read e; what it read and has written is current.
FirstIn(S) == CHOOSE e \in S : \A d \in S : e <= d
Flies(t, e) == t.ents # {} /\ FirstIn(t.ents) = e /\ t.ph # "read"
Reads(t, h, e) == (e \in t.ents /\ ~Flies(t, e)) \/ (t.more # 0 /\ e > t.more /\ h # {})
Indexing(t, h, d, v) ==
    /\ t.snap = h
    /\ t.ph \in {"clear", "fill"} => d = DocOf(h)
    /\ t.ph = "fill" => v = {}

\* No two rebuilds of e are under way, and unless e is missed somebody is going to read what it holds now, or has
\* read it and is writing it, or the projection has it.
IndexTasks == [by : {"batch", "reindex"}, ents : SUBSET Indexed, ph : {"read", "doc", "clear", "fill"}, snap : SUBSET Terms, more : Nat]
IsFollowed(T, h, d, v, e, M) ==
    /\ \A p, q \in Indexers : Flies(T[p], e) /\ Flies(T[q], e) => p = q
    /\ \/ e \in M
       \/ \E p \in Indexers : Reads(T[p], h, e)
       \/ \E p \in Indexers : Flies(T[p], e) /\ Indexing(T[p], h, d, v)
       \/ d = DocOf(h) /\ v = VecOf(h) /\ \A p \in Indexers : ~Flies(T[p], e)

\* The inductive invariant of the projection.
SearchStrong ==
    /\ held \in [Indexed -> SUBSET Terms]
    /\ DOMAIN doc = Indexed /\ DOMAIN vec = Indexed
    /\ todo \in [Indexers -> IndexTasks]
    /\ mixed \subseteq Indexed /\ missed \subseteq Indexed
    /\ \A e \in Indexed \ mixed : IsFollowed(todo, held[e], doc[e], vec[e], e, missed)

\* The next entity of a task is one of its entities.
LEMMA FirstIsIn ==
  ASSUME NEW S \in SUBSET Indexed, S # {}
  PROVE  FirstIn(S) \in S
<1>1. S \subseteq Nat
  BY SearchAssumption
<1>2. \E e \in S : \A d \in S : e <= d
  BY <1>1, LeastNumber
<1> QED
  BY <1>2 DEF FirstIn

\* A task replaced by one that has the same to do for e changes nothing for e.
LEMMA SameTask ==
  ASSUME NEW T \in [Indexers -> IndexTasks], NEW p \in Indexers, NEW t \in IndexTasks, NEW e, NEW h, NEW d, NEW v, NEW M,
         IsFollowed(T, h, d, v, e, M),
         Flies(t, e) <=> Flies(T[p], e), Reads(T[p], h, e) => Reads(t, h, e),
         Flies(t, e) => t.snap = T[p].snap /\ t.ph = T[p].ph
  PROVE  IsFollowed([T EXCEPT ![p] = t], h, d, v, e, M)
<1>1. PICK U : U = [T EXCEPT ![p] = t]
  OBVIOUS
<1>2. U[p] = t /\ \A q \in Indexers : q # p => U[q] = T[q]
  BY <1>1
<1>3. \A q \in Indexers : Flies(U[q], e) <=> Flies(T[q], e)
  BY <1>2
<1>4. \A q \in Indexers : Reads(T[q], h, e) => Reads(U[q], h, e)
  BY <1>2
<1>5. ASSUME NEW q \in Indexers, Flies(T[q], e), Indexing(T[q], h, d, v) PROVE Indexing(U[q], h, d, v)
  <2>1. CASE q = p
    <3>1. t.snap = T[p].snap /\ t.ph = T[p].ph
      BY <1>5, <2>1
    <3> QED
      BY <1>2, <1>5, <2>1, <3>1 DEF Indexing
  <2> QED
    BY <1>2, <1>5, <2>1
<1>6. IsFollowed(U, h, d, v, e, M)
  BY <1>3, <1>4, <1>5 DEF IsFollowed
<1> QED
  BY <1>1, <1>6

\* A task that is going to read e covers whatever e holds now; nothing is asked of an entity that is missed.
LEMMA TaskWillRead ==
  ASSUME NEW T \in [Indexers -> IndexTasks], NEW p \in Indexers, NEW t \in IndexTasks, NEW e, NEW g, NEW h, NEW c, NEW w, NEW d, NEW v, NEW M, NEW N,
         IsFollowed(T, g, c, w, e, M), ~Flies(t, e), Reads(t, h, e) \/ e \in N
  PROVE  IsFollowed([T EXCEPT ![p] = t], h, d, v, e, N)
<1>1. PICK U : U = [T EXCEPT ![p] = t]
  OBVIOUS
<1>2. U[p] = t /\ \A q \in Indexers : q # p => U[q] = T[q]
  BY <1>1
<1>3. \A q \in Indexers : Flies(U[q], e) => Flies(T[q], e)
  BY <1>2
<1>4. IsFollowed(U, h, d, v, e, N)
  BY <1>2, <1>3 DEF IsFollowed
<1> QED
  BY <1>1, <1>4

\* A task that has read e while nobody else was writing it.
LEMMA TaskHasRead ==
  ASSUME NEW T \in [Indexers -> IndexTasks], NEW p \in Indexers, NEW t \in IndexTasks, NEW e, NEW h, NEW d, NEW v, NEW M,
         \A q \in Indexers : q # p => ~Flies(T[q], e),
         Flies(t, e), t.snap = h, t.ph = "doc"
  PROVE  IsFollowed([T EXCEPT ![p] = t], h, d, v, e, M)
<1>1. PICK U : U = [T EXCEPT ![p] = t]
  OBVIOUS
<1>2. U[p] = t /\ \A q \in Indexers : q # p => U[q] = T[q]
  BY <1>1
<1>3. \A q \in Indexers : Flies(U[q], e) => q = p
  BY <1>2
<1>4. Indexing(U[p], h, d, v)
  BY <1>2 DEF Indexing
<1>5. IsFollowed(U, h, d, v, e, M)
  BY <1>2, <1>3, <1>4 DEF IsFollowed
<1> QED
  BY <1>1, <1>5

\* A task past its reading of e writes, and goes on or leaves e.
LEMMA TaskWrites ==
  ASSUME NEW T \in [Indexers -> IndexTasks], NEW p \in Indexers, NEW t \in IndexTasks, NEW e, NEW h, NEW d, NEW v, NEW d2, NEW v2, NEW M,
         IsFollowed(T, h, d, v, e, M), Flies(T[p], e),
         Reads(T[p], h, e) => Reads(t, h, e),
         Indexing(T[p], h, d, v) =>
            \/ Flies(t, e) /\ Indexing(t, h, d2, v2)
            \/ ~Flies(t, e) /\ d2 = DocOf(h) /\ v2 = VecOf(h)
  PROVE  IsFollowed([T EXCEPT ![p] = t], h, d2, v2, e, M)
<1>1. PICK U : U = [T EXCEPT ![p] = t]
  OBVIOUS
<1>2. U[p] = t /\ \A q \in Indexers : q # p => U[q] = T[q]
  BY <1>1
<1>3. \A q \in Indexers : Flies(T[q], e) => q = p
  BY DEF IsFollowed
<1>4. \A q \in Indexers : Flies(U[q], e) => q = p
  BY <1>2, <1>3
<1>5. \A q \in Indexers : Reads(T[q], h, e) => Reads(U[q], h, e)
  BY <1>2
<1>6. CASE e \in M \/ \E q \in Indexers : Reads(T[q], h, e)
  BY <1>4, <1>5, <1>6 DEF IsFollowed
<1>7. CASE Indexing(T[p], h, d, v)
  <2>1. CASE Flies(t, e) /\ Indexing(t, h, d2, v2)
    BY <1>2, <1>4, <2>1 DEF IsFollowed
  <2>2. CASE ~Flies(t, e) /\ d2 = DocOf(h) /\ v2 = VecOf(h)
    <3>1. \A q \in Indexers : ~Flies(U[q], e)
      BY <1>2, <1>4, <2>2
    <3> QED
      BY <1>4, <2>2, <3>1 DEF IsFollowed
  <2> QED
    BY <1>7, <2>1, <2>2
<1>8. e \in M \/ (\E q \in Indexers : Reads(T[q], h, e)) \/ Indexing(T[p], h, d, v)
  BY <1>3 DEF IsFollowed
<1> QED
  BY <1>6, <1>7, <1>8

\* The first n of a set of numbers leave nothing out before them, and are all of it unless they are n.
LEMMA FirstPage ==
  ASSUME NEW S \in SUBSET Nat, IsFiniteSet(S), NEW n \in Nat,
         NEW P, P = FirstOf(n, S)
  PROVE  /\ P \subseteq S /\ IsFiniteSet(P) /\ Cardinality(P) \in Nat
         /\ \A x \in P, y \in S : y <= x => y \in P
         /\ P # S => Cardinality(P) >= n
<1> DEFINE Below(x) == {d \in S : d < x}
<1>1. \A x \in S : x \in P <=> Cardinality(Below(x)) < n
  BY DEF FirstOf
<1>2. P \subseteq S /\ IsFiniteSet(P) /\ Cardinality(P) \in Nat
  <2>1. P \subseteq S
    BY DEF FirstOf
  <2> QED
    BY <2>1, FS_Subset, FS_CardinalityType
<1>3. \A x \in S : Below(x) \subseteq S
  OBVIOUS
<1>4. \A x, y \in S : y <= x => Below(y) \subseteq Below(x)
  <2> SUFFICES ASSUME NEW x \in S, NEW y \in S, y <= x, NEW d \in S, d < y PROVE d < x
    OBVIOUS
  <2>1. x \in Nat /\ y \in Nat /\ d \in Nat
    OBVIOUS
  <2> QED
    BY <2>1
<1>5. \A x, d \in S : d < x => d \in Below(x)
  OBVIOUS
<1>6. \A x \in S : \A d \in Below(x) : d \in S /\ d < x
  OBVIOUS
<1> HIDE DEF Below
<1>7. \A x \in S : IsFiniteSet(Below(x)) /\ Cardinality(Below(x)) \in Nat
  BY <1>3, FS_Subset, FS_CardinalityType
<1>8. ASSUME NEW x \in P, NEW y \in S, y <= x PROVE y \in P
  <2>1. x \in S /\ Below(y) \subseteq Below(x)
    BY <1>2, <1>4, <1>8
  <2>2. Cardinality(Below(y)) <= Cardinality(Below(x))
    BY <1>7, <2>1, FS_Subset
  <2>3. Cardinality(Below(x)) < n
    BY <1>1, <2>1
  <2>4. Cardinality(Below(y)) \in Nat /\ Cardinality(Below(x)) \in Nat
    BY <1>7, <2>1
  <2>5. Cardinality(Below(y)) < n
    BY <2>2, <2>3, <2>4
  <2> QED
    BY <1>1, <2>5
<1>9. ASSUME P # S PROVE Cardinality(P) >= n
  <2>1. S \ P \subseteq Nat /\ S \ P # {}
    BY <1>2, <1>9
  <2>2. PICK x \in S \ P : \A y \in S \ P : x <= y
    BY <2>1, LeastNumber
  <2>3. ASSUME NEW d \in Below(x) PROVE d \in P
    <3>1. d \in S /\ d < x /\ x \in Nat /\ d \in Nat
      BY <1>6, <2>2
    <3>2. ~(x <= d)
      BY <3>1
    <3> QED
      BY <2>2, <3>1, <3>2
  <2>4. Cardinality(Below(x)) <= Cardinality(P)
    BY <1>2, <2>3, FS_Subset
  <2>5. ~(Cardinality(Below(x)) < n) /\ Cardinality(Below(x)) \in Nat
    BY <1>1, <1>7, <2>2
  <2> QED
    BY <1>2, <2>4, <2>5
<1> QED
  BY <1>2, <1>8, <1>9

\* A page holds every entity of the listing up to the next cursor, and all the rest when there is none.
LEMMA PageCovers ==
  ASSUME SearchStrong, NEW k \in Nat
  PROVE  /\ ReindexPage(k).ents \subseteq Indexed /\ ReindexPage(k).next \in Nat
         /\ \A e \in Indexed : held[e] # {} /\ e > k =>
               \/ e \in ReindexPage(k).ents
               \/ ReindexPage(k).next # 0 /\ e > ReindexPage(k).next
<1>0. Indexed \subseteq Nat /\ 0 \notin Indexed /\ IsFiniteSet(Indexed) /\ PageSize \in Nat /\ PageSize + 1 \in Nat
  BY SearchAssumption
<1>1. PICK S, P, n : S = ListedAfter(k) /\ P = FirstOf(PageSize + 1, S) /\ n = PageSize + 1
  OBVIOUS
<1>2. S \in SUBSET Nat /\ S \subseteq Indexed /\ IsFiniteSet(S) /\ \A e \in Indexed : held[e] # {} /\ e > k => e \in S
  <2>1. S \subseteq Indexed
    BY <1>1 DEF ListedAfter
  <2> QED
    BY <1>0, <1>1, <2>1, FS_Subset DEF ListedAfter
<1>3. n \in Nat /\ P = FirstOf(n, S)
  BY <1>0, <1>1
<1>4. /\ P \subseteq S /\ IsFiniteSet(P) /\ Cardinality(P) \in Nat
      /\ \A x \in P, y \in S : y <= x => y \in P
      /\ P # S => Cardinality(P) >= n
  BY <1>2, <1>3, FirstPage
<1>5. ReindexPage(k).ents = P /\ ReindexPage(k).next = IF Cardinality(P) > PageSize THEN LastOf(P) ELSE 0
  BY <1>1 DEF ReindexPage
<1>6. ASSUME Cardinality(P) > PageSize PROVE LastOf(P) \in P
  <2>1. P # {}
    BY <1>0, <1>6, FS_EmptySet
  <2>2. \E e \in P : \A d \in P : d <= e
    BY <1>2, <1>4, <2>1, FiniteGreatest
  <2> QED
    BY <2>2 DEF LastOf
<1>7. ASSUME NEW e \in S, e \notin P PROVE LastOf(P) \in P /\ Cardinality(P) > PageSize /\ e > LastOf(P) /\ LastOf(P) # 0
  <2>1. Cardinality(P) > PageSize
    BY <1>0, <1>1, <1>4, <1>7
  <2>2. LastOf(P) \in P /\ LastOf(P) \in Nat /\ e \in Nat /\ LastOf(P) # 0
    BY <1>0, <1>2, <1>4, <1>6, <2>1
  <2>3. ~(e <= LastOf(P))
    BY <1>4, <1>7, <2>2
  <2> QED
    BY <2>1, <2>2, <2>3
<1>8. ReindexPage(k).next \in Nat
  <2>1. CASE Cardinality(P) > PageSize
    BY <1>2, <1>4, <1>5, <1>6, <2>1
  <2> QED
    BY <1>5, <2>1
<1> QED
  BY <1>2, <1>4, <1>5, <1>7, <1>8

-----------------------------------------------------------------------------
(* One lemma per step of a process. *)

\* What is known of a task and its entity before a step.
LEMMA RebuildFacts ==
  ASSUME SearchStrong, NEW p \in Indexers
  PROVE  /\ todo[p] \in IndexTasks /\ At(p) = FirstIn(todo[p].ents) /\ IndexIdle \in IndexTasks
         /\ \A e : ~Flies(IndexIdle, e)
         /\ todo[p].ents # {} => At(p) \in todo[p].ents /\ At(p) \in Indexed
         /\ ~Busy(p) => \A e, h : ~Flies(todo[p], e) /\ ~Reads(todo[p], h, e)
<1>1. todo[p] \in IndexTasks
  BY DEF SearchStrong
<1>2. At(p) = FirstIn(todo[p].ents)
  BY DEF At, FirstIn
<1>3. IndexIdle \in IndexTasks /\ \A e : ~Flies(IndexIdle, e)
  BY DEF IndexIdle, IndexTasks, Flies
<1>4. todo[p].ents # {} => At(p) \in todo[p].ents /\ At(p) \in Indexed
  <2>1. todo[p].ents \in SUBSET Indexed
    BY <1>1 DEF IndexTasks
  <2> QED
    BY <1>2, <2>1, FirstIsIn
<1>5. ~Busy(p) => \A e, h : ~Flies(todo[p], e) /\ ~Reads(todo[p], h, e)
  BY DEF Busy, Flies, Reads
<1> QED
  BY <1>1, <1>2, <1>3, <1>4, <1>5

\* An idle process takes a task: entities it leaves alone keep what they have.
LEMMA IdleTakes ==
  ASSUME SearchStrong, NEW p \in Indexers, ~Busy(p), NEW t \in IndexTasks, NEW e \in Indexed \ mixed, ~Flies(t, e)
  PROVE  IsFollowed([todo EXCEPT ![p] = t], held[e], doc[e], vec[e], e, missed)
<1>1. IsFollowed(todo, held[e], doc[e], vec[e], e, missed) /\ todo \in [Indexers -> IndexTasks]
  BY DEF SearchStrong
<1>2. ~Flies(todo[p], e) /\ ~Reads(todo[p], held[e], e)
  BY RebuildFacts
<1> QED
  BY <1>1, <1>2, SameTask

\* The commit of a write keeps the invariant: its own rebuild is going to read what it wrote.
LEMMA CommitTermsKeeps ==
  ASSUME SearchStrong, NEW p \in Indexers, NEW x \in Indexed, NEW S \in SUBSET Terms, CommitTerms(p, x, S)
  PROVE  SearchStrong'
<1>1. PICK t : t = [IndexIdle EXCEPT !.ents = {x}]
  OBVIOUS
<1>2. /\ ~Busy(p) /\ held' = [held EXCEPT ![x] = S] /\ todo' = [todo EXCEPT ![p] = t]
      /\ UNCHANGED <<doc, vec, mixed, missed>>
  BY <1>1 DEF CommitTerms
<1>3. t \in IndexTasks /\ t.ph = "read" /\ t.ents = {x}
  BY <1>1 DEF IndexIdle, IndexTasks
<1>4. \A e : ~Flies(t, e)
  BY <1>3 DEF Flies
<1>5. \A h : Reads(t, h, x)
  BY <1>3, <1>4 DEF Reads
<1>6. ASSUME NEW e \in Indexed \ mixed PROVE IsFollowed([todo EXCEPT ![p] = t], held'[e], doc[e], vec[e], e, missed)
  <2>0. IsFollowed(todo, held[e], doc[e], vec[e], e, missed) /\ todo \in [Indexers -> IndexTasks]
    BY DEF SearchStrong
  <2>1. CASE e = x
    BY <1>3, <1>4, <1>5, <2>0, <2>1, TaskWillRead
  <2>2. CASE e # x
    <3>1. held'[e] = held[e]
      BY <1>2, <2>2 DEF SearchStrong
    <3> QED
      BY <1>2, <1>3, <1>4, <3>1, IdleTakes
  <2> QED
    BY <2>1, <2>2
<1> QED
  BY <1>2, <1>3, <1>6 DEF SearchStrong

\* The commit of a batch keeps the invariant.
LEMMA HandleBatchKeeps ==
  ASSUME SearchStrong, NEW p \in Indexers, NEW S \in SUBSET Terms, HandleBatch(p, S)
  PROVE  SearchStrong'
<1>1. PICK t : t = [IndexIdle EXCEPT !.ents = Indexed]
  OBVIOUS
<1>2. /\ held' = [e \in Indexed |-> S] /\ todo' = [todo EXCEPT ![p] = t]
      /\ UNCHANGED <<doc, vec, mixed, missed>>
  BY <1>1 DEF HandleBatch
<1>3. t \in IndexTasks /\ t.ph = "read" /\ t.ents = Indexed
  BY <1>1 DEF IndexIdle, IndexTasks
<1>4. \A e : ~Flies(t, e)
  BY <1>3 DEF Flies
<1>5. \A h : \A e \in Indexed : Reads(t, h, e)
  BY <1>3, <1>4 DEF Reads
<1>6. ASSUME NEW e \in Indexed \ mixed PROVE IsFollowed([todo EXCEPT ![p] = t], held'[e], doc[e], vec[e], e, missed)
  <2>0. IsFollowed(todo, held[e], doc[e], vec[e], e, missed) /\ todo \in [Indexers -> IndexTasks]
    BY DEF SearchStrong
  <2> QED
    BY <1>3, <1>4, <1>5, <2>0, TaskWillRead
<1> QED
  BY <1>2, <1>3, <1>6 DEF SearchStrong

\* Whoever finds nobody noted as overlapping is alone past its reading.
LEMMA AloneUnlessMixed ==
  ASSUME SearchStrong, NEW p \in Indexers, NEW x, x \notin Overlapped(p, x)
  PROVE  \A q \in Indexers : q # p => ~Flies(todo[q], x)
<1>1. ASSUME NEW q \in Indexers, q # p PROVE ~(todo[q].ents # {} /\ At(q) = x /\ todo[q].ph # "read")
  BY <1>1 DEF Overlapped
<1> QED
  BY <1>1, RebuildFacts DEF Flies

\* A rebuild's reading keeps the invariant.
LEMMA ReadHeldKeeps ==
  ASSUME SearchStrong, NEW p \in Indexers, ReadHeld(p)
  PROVE  SearchStrong'
<1>1. PICK x, t : x = At(p) /\ t = [todo[p] EXCEPT !.snap = held[x], !.ph = "doc"]
  OBVIOUS
<1>2. /\ todo[p].ents # {} /\ todo[p].ph = "read" /\ mixed' = mixed \cup Overlapped(p, x)
      /\ UNCHANGED <<held, doc, vec, missed>>
  BY <1>1 DEF ReadHeld
<1>3. x \in Indexed /\ todo[p] \in IndexTasks /\ x = FirstIn(todo[p].ents) /\ held[x] \in SUBSET Terms
  BY <1>1, <1>2, RebuildFacts DEF SearchStrong
<1>4. todo' = [todo EXCEPT ![p] = t]
  BY <1>1, <1>3 DEF ReadHeld, IndexTasks, SearchStrong
<1>5. t \in IndexTasks /\ t.ents = todo[p].ents /\ t.more = todo[p].more /\ t.ph = "doc" /\ t.snap = held[x]
  BY <1>1, <1>3 DEF IndexTasks
<1>6. Flies(t, x) /\ \A e : e # x => ~Flies(t, e)
  BY <1>2, <1>3, <1>5 DEF Flies
<1>7. \A e : ~Flies(todo[p], e)
  BY <1>2 DEF Flies
<1>8. \A e, h : e # x /\ Reads(todo[p], h, e) => Reads(t, h, e)
  BY <1>5, <1>6 DEF Reads
<1>9. mixed' \subseteq Indexed /\ mixed \subseteq mixed'
  BY <1>2, <1>3 DEF SearchStrong, Overlapped
<1>10. ASSUME NEW e \in Indexed \ mixed' PROVE IsFollowed([todo EXCEPT ![p] = t], held[e], doc[e], vec[e], e, missed)
  <2>0. IsFollowed(todo, held[e], doc[e], vec[e], e, missed) /\ todo \in [Indexers -> IndexTasks]
    BY <1>9 DEF SearchStrong
  <2>1. CASE e = x
    <3>1. x \notin Overlapped(p, x)
      BY <1>2, <2>1
    <3>2. \A q \in Indexers : q # p => ~Flies(todo[q], x)
      BY <3>1, AloneUnlessMixed
    <3> QED
      BY <1>5, <1>6, <2>0, <2>1, <3>2, TaskHasRead
  <2>2. CASE e # x
    BY <1>5, <1>6, <1>7, <1>8, <2>0, <2>2, SameTask
  <2> QED
    BY <2>1, <2>2
<1> QED
  BY <1>2, <1>4, <1>5, <1>9, <1>10 DEF SearchStrong

\* An erasure keeps the invariant: it has nothing to read.
LEMMA EraseKeeps ==
  ASSUME SearchStrong, NEW p \in Indexers, NEW x \in Indexed, EraseDocument(p, x)
  PROVE  SearchStrong'
<1>1. PICK t : t = [IndexIdle EXCEPT !.ents = {x}, !.ph = "doc"]
  OBVIOUS
<1>2. /\ ~Busy(p) /\ held' = [held EXCEPT ![x] = {}] /\ todo' = [todo EXCEPT ![p] = t]
      /\ mixed' = mixed \cup Overlapped(p, x) /\ UNCHANGED <<doc, vec, missed>>
  BY <1>1 DEF EraseDocument
<1>3. t \in IndexTasks /\ t.ph = "doc" /\ t.ents = {x} /\ t.snap = {}
  BY <1>1 DEF IndexIdle, IndexTasks
<1>4. FirstIn(t.ents) = x
  BY <1>3, FirstIsIn
<1>5. Flies(t, x) /\ \A e : e # x => ~Flies(t, e)
  BY <1>3, <1>4 DEF Flies
<1>6. mixed' \subseteq Indexed /\ mixed \subseteq mixed' /\ held' \in [Indexed -> SUBSET Terms]
  BY <1>2 DEF SearchStrong, Overlapped
<1>7. ASSUME NEW e \in Indexed \ mixed' PROVE IsFollowed([todo EXCEPT ![p] = t], held'[e], doc[e], vec[e], e, missed)
  <2>0. e \in Indexed \ mixed /\ todo \in [Indexers -> IndexTasks]
    BY <1>6 DEF SearchStrong
  <2>1. CASE e = x
    <3>1. x \notin Overlapped(p, x)
      BY <1>2, <2>1
    <3>2. \A q \in Indexers : q # p => ~Flies(todo[q], x)
      BY <3>1, AloneUnlessMixed
    <3>3. t.snap = held'[e]
      BY <1>2, <1>3, <2>1 DEF SearchStrong
    <3> QED
      BY <1>3, <1>5, <2>0, <2>1, <3>2, <3>3, TaskHasRead
  <2>2. CASE e # x
    <3>1. held'[e] = held[e]
      BY <1>2, <2>2 DEF SearchStrong
    <3> QED
      BY <1>2, <1>3, <1>5, <2>0, <2>2, <3>1, IdleTakes
  <2> QED
    BY <2>1, <2>2
<1> QED
  BY <1>2, <1>3, <1>6, <1>7 DEF SearchStrong

\* A write of a rebuild: what it changes of its own entity is all it changes.
LEMMA WriteKeeps ==
  ASSUME SearchStrong, NEW p \in Indexers, todo[p].ents # {}, todo[p].ph # "read", NEW t \in IndexTasks, NEW x, x = At(p),
         todo' = [todo EXCEPT ![p] = t], UNCHANGED <<held, mixed, missed>>,
         DOMAIN doc' = Indexed, DOMAIN vec' = Indexed,
         \A e \in Indexed : e # x => doc'[e] = doc[e] /\ vec'[e] = vec[e],
         t.more = todo[p].more, \A e \in todo[p].ents : e # x => e \in t.ents,
         \A e : Flies(t, e) => e = x,
         Indexing(todo[p], held[x], doc[x], vec[x]) =>
            \/ Flies(t, x) /\ Indexing(t, held[x], doc'[x], vec'[x])
            \/ ~Flies(t, x) /\ doc'[x] = DocOf(held[x]) /\ vec'[x] = VecOf(held[x])
  PROVE  SearchStrong'
<1>1. x \in Indexed /\ Flies(todo[p], x) /\ \A e : Flies(todo[p], e) => e = x
  BY RebuildFacts DEF Flies
<1>2. ASSUME NEW e, NEW h, Reads(todo[p], h, e) PROVE Reads(t, h, e)
  <2>1. CASE e \in todo[p].ents /\ ~Flies(todo[p], e)
    BY <1>1, <2>1 DEF Reads
  <2>2. CASE todo[p].more # 0 /\ e > todo[p].more /\ h # {}
    BY <2>2 DEF Reads
  <2> QED
    BY <1>2, <2>1, <2>2 DEF Reads
<1>3. ASSUME NEW e \in Indexed \ mixed PROVE IsFollowed([todo EXCEPT ![p] = t], held[e], doc'[e], vec'[e], e, missed)
  <2>0. IsFollowed(todo, held[e], doc[e], vec[e], e, missed) /\ todo \in [Indexers -> IndexTasks]
    BY DEF SearchStrong
  <2>1. CASE e = x
    <3>1. PICK d2, v2 : d2 = doc'[x] /\ v2 = vec'[x]
      OBVIOUS
    <3>2. Indexing(todo[p], held[x], doc[x], vec[x]) =>
            \/ Flies(t, x) /\ Indexing(t, held[x], d2, v2)
            \/ ~Flies(t, x) /\ d2 = DocOf(held[x]) /\ v2 = VecOf(held[x])
      BY <3>1
    <3>3. IsFollowed([todo EXCEPT ![p] = t], held[x], d2, v2, x, missed)
      BY <1>1, <1>2, <2>0, <2>1, <3>2, TaskWrites
    <3> QED
      BY <2>1, <3>1, <3>3
  <2>2. CASE e # x
    <3>1. doc'[e] = doc[e] /\ vec'[e] = vec[e]
      BY <2>2
    <3>2. ~Flies(t, e) /\ ~Flies(todo[p], e)
      BY <1>1, <2>2
    <3>3. IsFollowed([todo EXCEPT ![p] = t], held[e], doc[e], vec[e], e, missed)
      BY <1>2, <2>0, <3>2, SameTask
    <3> QED
      BY <3>1, <3>3
  <2> QED
    BY <2>1, <2>2
<1> QED
  BY <1>3 DEF SearchStrong

\* The upsert or removal of the document keeps the invariant.
LEMMA WriteDocKeeps ==
  ASSUME SearchStrong, NEW p \in Indexers, WriteDoc(p)
  PROVE  SearchStrong'
<1>1. PICK x, t : x = At(p) /\ t = [todo[p] EXCEPT !.ph = "clear"]
  OBVIOUS
<1>2. x \in Indexed /\ todo[p] \in IndexTasks /\ x = FirstIn(todo[p].ents) /\ todo[p].ents # {} /\ todo[p].ph = "doc"
  BY <1>1, RebuildFacts DEF WriteDoc
<1>3. t \in IndexTasks /\ t.ents = todo[p].ents /\ t.more = todo[p].more /\ t.ph = "clear" /\ t.snap = todo[p].snap
  BY <1>1, <1>2 DEF IndexTasks
<1>4. todo' = [todo EXCEPT ![p] = t] /\ UNCHANGED <<held, mixed, missed>> /\ vec' = vec
  BY <1>1, <1>2 DEF WriteDoc, IndexTasks, SearchStrong
<1>5. doc' = [doc EXCEPT ![x] = DocOf(todo[p].snap)]
  BY <1>1 DEF WriteDoc, DocOf
<1>6. /\ DOMAIN doc' = Indexed /\ DOMAIN vec' = Indexed /\ doc'[x] = DocOf(todo[p].snap)
      /\ \A e \in Indexed : e # x => doc'[e] = doc[e] /\ vec'[e] = vec[e]
  BY <1>2, <1>4, <1>5 DEF SearchStrong
<1>7. Flies(t, x) /\ \A e : Flies(t, e) => e = x
  BY <1>2, <1>3 DEF Flies
<1>8. Indexing(todo[p], held[x], doc[x], vec[x]) => Indexing(t, held[x], doc'[x], vec'[x])
  BY <1>2, <1>3, <1>6 DEF Indexing
<1>9. todo[p].ents # {} /\ todo[p].ph # "read" /\ \A e \in todo[p].ents : e # x => e \in t.ents
  BY <1>2, <1>3
<1>10. \A e \in Indexed : e # x => doc'[e] = doc[e] /\ vec'[e] = vec[e]
  BY <1>6
<1>11. Indexing(todo[p], held[x], doc[x], vec[x]) =>
          \/ Flies(t, x) /\ Indexing(t, held[x], doc'[x], vec'[x])
          \/ ~Flies(t, x) /\ doc'[x] = DocOf(held[x]) /\ vec'[x] = VecOf(held[x])
  BY <1>7, <1>8
<1>12. x = At(p) /\ UNCHANGED <<held, mixed, missed>> /\ todo' = [todo EXCEPT ![p] = t]
  BY <1>1, <1>4
<1>13. DOMAIN doc' = Indexed /\ DOMAIN vec' = Indexed /\ t \in IndexTasks /\ t.more = todo[p].more
  BY <1>3, <1>6
<1>14. \A e : Flies(t, e) => e = x
  BY <1>7
<1> QED
  BY <1>9, <1>10, <1>11, <1>12, <1>13, <1>14, WriteKeeps

\* The DELETE of the vectors keeps the invariant.
LEMMA ClearVectorsKeeps ==
  ASSUME SearchStrong, NEW p \in Indexers, ClearVectors(p)
  PROVE  SearchStrong'
<1>1. PICK x, t : x = At(p) /\ t = [todo[p] EXCEPT !.ph = "fill"]
  OBVIOUS
<1>2. x \in Indexed /\ todo[p] \in IndexTasks /\ x = FirstIn(todo[p].ents) /\ todo[p].ents # {} /\ todo[p].ph = "clear"
  BY <1>1, RebuildFacts DEF ClearVectors
<1>3. t \in IndexTasks /\ t.ents = todo[p].ents /\ t.more = todo[p].more /\ t.ph = "fill" /\ t.snap = todo[p].snap
  BY <1>1, <1>2 DEF IndexTasks
<1>4. todo' = [todo EXCEPT ![p] = t] /\ UNCHANGED <<held, mixed, missed>> /\ doc' = doc
  BY <1>1, <1>2 DEF ClearVectors, IndexTasks, SearchStrong
<1>5. vec' = [vec EXCEPT ![x] = {}]
  BY <1>1 DEF ClearVectors, ClearedVectors
<1>6. /\ DOMAIN doc' = Indexed /\ DOMAIN vec' = Indexed /\ vec'[x] = {}
      /\ \A e \in Indexed : e # x => doc'[e] = doc[e] /\ vec'[e] = vec[e]
  BY <1>2, <1>4, <1>5 DEF SearchStrong
<1>7. Flies(t, x) /\ \A e : Flies(t, e) => e = x
  BY <1>2, <1>3 DEF Flies
<1>8. Indexing(todo[p], held[x], doc[x], vec[x]) => Indexing(t, held[x], doc'[x], vec'[x])
  BY <1>2, <1>3, <1>4, <1>6 DEF Indexing
<1>9. todo[p].ents # {} /\ todo[p].ph # "read" /\ \A e \in todo[p].ents : e # x => e \in t.ents
  BY <1>2, <1>3
<1>10. \A e \in Indexed : e # x => doc'[e] = doc[e] /\ vec'[e] = vec[e]
  BY <1>6
<1>11. Indexing(todo[p], held[x], doc[x], vec[x]) =>
          \/ Flies(t, x) /\ Indexing(t, held[x], doc'[x], vec'[x])
          \/ ~Flies(t, x) /\ doc'[x] = DocOf(held[x]) /\ vec'[x] = VecOf(held[x])
  BY <1>7, <1>8
<1>12. x = At(p) /\ UNCHANGED <<held, mixed, missed>> /\ todo' = [todo EXCEPT ![p] = t]
  BY <1>1, <1>4
<1>13. DOMAIN doc' = Indexed /\ DOMAIN vec' = Indexed /\ t \in IndexTasks /\ t.more = todo[p].more
  BY <1>3, <1>6
<1>14. \A e : Flies(t, e) => e = x
  BY <1>7
<1> QED
  BY <1>9, <1>10, <1>11, <1>12, <1>13, <1>14, WriteKeeps

\* A process that stops leaves behind only entities that are noted as missed.
LEMMA StopKeeps ==
  ASSUME SearchStrong, NEW p \in Indexers, todo' = [todo EXCEPT ![p] = IndexIdle], missed' = missed \cup LeftBy(p),
         UNCHANGED <<held, mixed>>, DOMAIN doc' = Indexed, DOMAIN vec' = Indexed,
         \A e \in Indexed \ LeftBy(p) : doc'[e] = doc[e] /\ vec'[e] = vec[e]
  PROVE  SearchStrong'
<1>1. todo[p] \in IndexTasks /\ IndexIdle \in IndexTasks /\ \A e : ~Flies(IndexIdle, e)
  BY RebuildFacts
<1>2. LeftBy(p) \subseteq Indexed
  BY <1>1 DEF LeftBy, IndexTasks
<1>3. ASSUME NEW e \in Indexed \ LeftBy(p) PROVE ~Flies(todo[p], e) /\ \A h : ~Reads(todo[p], h, e)
  <2>1. e \notin todo[p].ents /\ todo[p].more = 0
    BY <1>3 DEF LeftBy
  <2>2. todo[p].ents # {} => FirstIn(todo[p].ents) \in todo[p].ents
    BY <1>1, FirstIsIn DEF IndexTasks
  <2> QED
    BY <2>1, <2>2 DEF Flies, Reads
<1>4. ASSUME NEW e \in Indexed \ mixed PROVE IsFollowed([todo EXCEPT ![p] = IndexIdle], held[e], doc'[e], vec'[e], e, missed')
  <2>0. /\ IsFollowed(todo, held[e], doc[e], vec[e], e, missed) /\ todo \in [Indexers -> IndexTasks]
        /\ ~Flies(IndexIdle, e)
    BY <1>1 DEF SearchStrong
  <2>1. CASE e \in missed'
    <3>1. PICK d, v, N : d = doc'[e] /\ v = vec'[e] /\ N = missed' /\ e \in N
      BY <2>1
    <3>2. IsFollowed([todo EXCEPT ![p] = IndexIdle], held[e], d, v, e, N)
      BY <1>1, <2>0, <3>1, TaskWillRead
    <3> QED
      BY <3>1, <3>2
  <2>2. CASE e \notin missed'
    <3>1. e \notin LeftBy(p) /\ e \notin missed
      BY <2>2
    <3>2. ~Flies(todo[p], e) /\ ~Reads(todo[p], held[e], e)
      BY <1>3, <3>1
    <3>3. IsFollowed([todo EXCEPT ![p] = IndexIdle], held[e], doc[e], vec[e], e, missed)
      BY <1>1, <2>0, <3>2, SameTask
    <3>4. IsFollowed([todo EXCEPT ![p] = IndexIdle], held[e], doc[e], vec[e], e, missed')
      BY <2>2, <3>1, <3>3 DEF IsFollowed
    <3> QED
      BY <3>1, <3>4
  <2> QED
    BY <2>1, <2>2
<1>5. missed' \subseteq Indexed
  BY <1>2 DEF SearchStrong
<1> QED
  BY <1>1, <1>4, <1>5 DEF SearchStrong

\* The INSERT of the vectors keeps the invariant, also when it fails.
LEMMA FillVectorsKeeps ==
  ASSUME SearchStrong, NEW p \in Indexers, FillVectors(p)
  PROVE  SearchStrong'
<1>1. PICK x, t, new : /\ x = At(p) /\ new = VecOf(todo[p].snap)
                       /\ t = [IndexIdle EXCEPT !.by = todo[p].by, !.ents = todo[p].ents \ {x}, !.more = todo[p].more]
  OBVIOUS
<1>2. x \in Indexed /\ todo[p] \in IndexTasks /\ x = FirstIn(todo[p].ents) /\ todo[p].ents # {} /\ todo[p].ph = "fill" /\ x \in todo[p].ents
  BY <1>1, RebuildFacts DEF FillVectors
<1>3. t \in IndexTasks /\ t.ents = todo[p].ents \ {x} /\ t.more = todo[p].more /\ t.ph = "read"
  BY <1>1, <1>2 DEF IndexTasks, IndexIdle
<1>4. /\ vec' = [vec EXCEPT ![x] = IF vec[x] \cap new # {} THEN vec[x] ELSE vec[x] \cup new]
      /\ doc' = doc /\ UNCHANGED <<held, mixed>>
      /\ todo' = IF vec[x] \cap new # {} /\ todo[p].by = "reindex" THEN [todo EXCEPT ![p] = IndexIdle] ELSE [todo EXCEPT ![p] = t]
      /\ missed' = IF vec[x] \cap new # {} /\ todo[p].by = "reindex" THEN missed \cup LeftBy(p) ELSE missed
  BY <1>1 DEF FillVectors, NextEntity, VecOf
<1>5. /\ DOMAIN doc' = Indexed /\ DOMAIN vec' = Indexed
      /\ vec'[x] = (IF vec[x] \cap new # {} THEN vec[x] ELSE vec[x] \cup new)
      /\ \A e \in Indexed : e # x => doc'[e] = doc[e] /\ vec'[e] = vec[e]
  BY <1>2, <1>4 DEF SearchStrong
<1>6. CASE vec[x] \cap new # {} /\ todo[p].by = "reindex"
  <2>1. x \in LeftBy(p)
    BY <1>2 DEF LeftBy
  <2>2. \A e \in Indexed \ LeftBy(p) : doc'[e] = doc[e] /\ vec'[e] = vec[e]
    BY <1>5, <2>1
  <2>3. todo' = [todo EXCEPT ![p] = IndexIdle] /\ missed' = missed \cup LeftBy(p)
    BY <1>4, <1>6
  <2> QED
    BY <1>4, <1>5, <2>2, <2>3, StopKeeps
<1>7. CASE ~(vec[x] \cap new # {} /\ todo[p].by = "reindex")
  <2>1. todo' = [todo EXCEPT ![p] = t] /\ UNCHANGED <<held, mixed, missed>>
    BY <1>4, <1>7
  <2>2. \A e : ~Flies(t, e)
    BY <1>3 DEF Flies
  <2>3. ASSUME Indexing(todo[p], held[x], doc[x], vec[x]) PROVE doc'[x] = DocOf(held[x]) /\ vec'[x] = VecOf(held[x])
    <3>1. new = VecOf(held[x]) /\ vec[x] = {} /\ doc[x] = DocOf(held[x])
      BY <1>1, <1>2, <2>3 DEF Indexing
    <3>2. vec'[x] = vec[x] \cup new
      BY <1>5, <3>1
    <3> QED
      BY <1>4, <3>1, <3>2
  <2> QED
    BY <1>1, <1>2, <1>3, <1>5, <2>1, <2>2, <2>3, WriteKeeps
<1> QED
  BY <1>6, <1>7

\* A page of a Reindex keeps the invariant: what it does not rebuild lies behind its cursor or was never missed.
LEMMA SweepKeeps ==
  ASSUME SearchStrong, NEW p \in Indexers, NEW k \in Nat, todo[p].ents = {}, todo[p].more = k,
         todo' = [todo EXCEPT ![p] = Sweeping(ReindexPage(k))],
         UNCHANGED <<held, doc, vec, mixed>>, missed' \subseteq missed,
         \A e \in missed \ missed' : held[e] # {} /\ k = 0
  PROVE  SearchStrong'
<1>1. PICK t, g : g = ReindexPage(k) /\ t = Sweeping(g)
  OBVIOUS
<1>2. /\ g.ents \subseteq Indexed /\ g.next \in Nat
      /\ \A e \in Indexed : held[e] # {} /\ e > k => e \in g.ents \/ (g.next # 0 /\ e > g.next)
  BY <1>1, PageCovers
<1>3. t \in IndexTasks /\ t.ents = g.ents /\ t.more = g.next /\ t.ph = "read"
  BY <1>1, <1>2 DEF Sweeping, IndexIdle, IndexTasks
<1>4. \A e : ~Flies(t, e) /\ ~Flies(todo[p], e)
  BY <1>3 DEF Flies
<1>5. ASSUME NEW e \in Indexed, held[e] # {}, e > k PROVE Reads(t, held[e], e)
  BY <1>2, <1>3, <1>4, <1>5 DEF Reads
<1>6. ASSUME NEW e \in Indexed \ mixed PROVE IsFollowed([todo EXCEPT ![p] = t], held[e], doc[e], vec[e], e, missed')
  <2>0. todo \in [Indexers -> IndexTasks] /\ IsFollowed(todo, held[e], doc[e], vec[e], e, missed) /\ ~Flies(t, e) /\ ~Flies(todo[p], e)
    BY <1>4 DEF SearchStrong
  <2>1. CASE e \in missed
    <3>1. PICK N : N = missed'
      OBVIOUS
    <3>2. Reads(t, held[e], e) \/ e \in N
      <4>1. CASE e \notin missed'
        <5>1. held[e] # {} /\ k = 0 /\ e > k
          BY <2>1, <4>1, SearchAssumption
        <5> QED
          BY <1>5, <5>1
      <4> QED
        BY <3>1, <4>1
    <3>3. IsFollowed([todo EXCEPT ![p] = t], held[e], doc[e], vec[e], e, N)
      BY <1>3, <2>0, <3>2, TaskWillRead
    <3> QED
      BY <3>1, <3>3
  <2>2. CASE e \notin missed
    <3>1. Reads(todo[p], held[e], e) => Reads(t, held[e], e)
      BY <1>5 DEF Reads
    <3>2. IsFollowed([todo EXCEPT ![p] = t], held[e], doc[e], vec[e], e, missed)
      BY <1>3, <2>0, <3>1, SameTask
    <3> QED
      BY <2>2, <3>2 DEF IsFollowed
  <2> QED
    BY <2>1, <2>2
<1>7. missed' \subseteq Indexed
  BY DEF SearchStrong
<1> QED
  BY <1>1, <1>3, <1>6, <1>7 DEF SearchStrong

\* The first page of a Reindex keeps the invariant.
LEMMA ReindexKeeps ==
  ASSUME SearchStrong, NEW p \in Indexers, Reindex(p)
  PROVE  SearchStrong'
<1>1. todo[p].ents = {} /\ todo[p].more = 0 /\ 0 \in Nat
  BY DEF Reindex, Busy
<1>2. todo' = [todo EXCEPT ![p] = Sweeping(ReindexPage(0))] /\ UNCHANGED <<held, doc, vec, mixed>>
  BY DEF Reindex
<1>3. missed' \subseteq missed /\ \A e \in missed \ missed' : held[e] # {} /\ 0 = 0
  BY DEF Reindex
<1> QED
  BY <1>1, <1>2, <1>3, SweepKeeps

\* The next page of a Reindex keeps the invariant.
LEMMA ReindexMoreKeeps ==
  ASSUME SearchStrong, NEW p \in Indexers, ReindexMore(p)
  PROVE  SearchStrong'
<1>1. PICK k : k = todo[p].more
  OBVIOUS
<1>2. todo[p].ents = {} /\ todo[p].more = k /\ k \in Nat
  BY <1>1, RebuildFacts DEF ReindexMore, IndexTasks
<1>3. todo' = [todo EXCEPT ![p] = Sweeping(ReindexPage(k))] /\ UNCHANGED <<held, doc, vec, mixed>>
  BY <1>1 DEF ReindexMore
<1>4. missed' \subseteq missed /\ \A e \in missed \ missed' : held[e] # {} /\ k = 0
  BY DEF ReindexMore
<1> QED
  BY <1>2, <1>3, <1>4, SweepKeeps

\* A death keeps the invariant.
LEMMA IndexerDiesKeeps ==
  ASSUME SearchStrong, NEW p \in Indexers, IndexerDies(p)
  PROVE  SearchStrong'
<1>1. /\ todo' = [todo EXCEPT ![p] = IndexIdle] /\ missed' = missed \cup LeftBy(p)
      /\ UNCHANGED <<held, mixed>> /\ DOMAIN doc' = Indexed /\ DOMAIN vec' = Indexed
      /\ \A e \in Indexed \ LeftBy(p) : doc'[e] = doc[e] /\ vec'[e] = vec[e]
  BY DEF IndexerDies, SearchStrong
<1> QED
  BY <1>1, StopKeeps

\* Nothing is indexed at the start, and nothing is to be.
LEMMA SearchStarts == SearchInit => SearchStrong
<1> SUFFICES ASSUME SearchInit PROVE SearchStrong
  OBVIOUS
<1>1. IndexIdle \in IndexTasks /\ \A e : ~Flies(IndexIdle, e)
  BY DEF IndexIdle, IndexTasks, Flies
<1>2. \A p \in Indexers : todo[p] = IndexIdle
  BY DEF SearchInit
<1>3. ASSUME NEW e \in Indexed PROVE IsFollowed(todo, held[e], doc[e], vec[e], e, missed)
  <2>1. doc[e] = DocOf(held[e]) /\ vec[e] = VecOf(held[e])
    BY DEF SearchInit, DocOf, VecOf
  <2>2. \A p \in Indexers : ~Flies(todo[p], e)
    BY <1>1, <1>2
  <2> QED
    BY <2>1, <2>2 DEF IsFollowed
<1> QED
  BY <1>1, <1>3 DEF SearchStrong, SearchInit

\* Once no rebuild of an entity is left that nobody missed or mixed, its document and its vectors are what it holds: for
\* any processes, entities, values and page size, whoever commits, erases, dies or reindexes in between.
THEOREM IndexFollowsAlways == SearchSpec => []IndexFollows
<1>1. SearchInit => SearchStrong
  BY SearchStarts
<1>2. SearchStrong /\ [SearchNext]_searchVars => SearchStrong'
  <2> SUFFICES ASSUME SearchStrong, [SearchNext]_searchVars PROVE SearchStrong'
    OBVIOUS
  <2>1. CASE UNCHANGED searchVars
    BY <2>1 DEF searchVars, SearchStrong
  <2>2. ASSUME NEW p \in Indexers, NEW e \in Indexed, EraseDocument(p, e) \/ \E S \in SUBSET Terms : CommitTerms(p, e, S)
        PROVE  SearchStrong'
    BY <2>2, EraseKeeps, CommitTermsKeeps
  <2>3. ASSUME NEW p \in Indexers, NEW S \in (SUBSET Terms) \ {{}}, HandleBatch(p, S)
        PROVE  SearchStrong'
    BY <2>3, HandleBatchKeeps
  <2>4. ASSUME NEW p \in Indexers, ReadHeld(p) \/ WriteDoc(p) \/ ClearVectors(p) \/ FillVectors(p)
        PROVE  SearchStrong'
    BY <2>4, ReadHeldKeeps, WriteDocKeeps, ClearVectorsKeeps, FillVectorsKeeps
  <2>5. ASSUME NEW p \in Indexers, Reindex(p) \/ ReindexMore(p) \/ IndexerDies(p)
        PROVE  SearchStrong'
    BY <2>5, ReindexKeeps, ReindexMoreKeeps, IndexerDiesKeeps
  <2> QED
    BY <2>1, <2>2, <2>3, <2>4, <2>5 DEF SearchNext
<1>3. SearchStrong => IndexFollows
  <2> SUFFICES ASSUME SearchStrong, \A p \in Indexers : ~Busy(p), NEW e \in Indexed \ (mixed \cup missed)
               PROVE  doc[e] = DocOf(held[e]) /\ vec[e] = VecOf(held[e])
    BY DEF IndexFollows, DocOf, VecOf
  <2>1. \A p \in Indexers : ~Flies(todo[p], e) /\ ~Reads(todo[p], held[e], e)
    BY RebuildFacts
  <2> QED
    BY <2>1 DEF SearchStrong, IsFollowed
<1> QED
  BY <1>1, <1>2, <1>3, PTL DEF SearchSpec

(* Computed attributes. *)

\* The tasks of a process, and the shape of its job.
TaskRecs ==
    [k : {"re", "stable", "confirm", "cascade"}, e : Entities, d : Nat, try : Nat, fp : Nat]
    \cup [k : {"defined"}, e : {Dish, "none"}, d : Nat, try : Nat, fp : Nat]
IsJob(j) ==
    /\ j = [stack |-> j.stack, ph |-> j.ph, f |-> j.f, val |-> j.val]
    /\ j.stack \in Seq(TaskRecs) /\ j.ph \in {"go", "schema", "read"} /\ j.f \in Nat
    /\ j.ph # "go" => j.stack # << >> /\ Head(j.stack).k \in {"re", "stable"}

IsMap(f, S) == f = [x \in S |-> f[x]]

ComputedTypes ==
    /\ IsMap(qty, Lines) /\ qver \in [Lines -> Nat] /\ IsMap(result, Entities)
    /\ linked \subseteq Lines /\ formula \in Nat
    /\ known \in [Replicas -> [Kinds -> {"yes", "no", "unknown"}]]
    /\ IsMap(job, Procs) /\ \A p \in Procs : IsJob(job[p])
    /\ due \subseteq [rep : Replicas, kind : Kinds]
    /\ raced \in BOOLEAN /\ lost \in BOOLEAN

\* A task that will bring an entity up to date: it recomputes it, announces a
\* definition that has it rebuilt, or recomputes the dish for one of its lines.
Helps(t, e) ==
    \/ t.k \in {"re", "stable"} /\ t.e = e
    \/ t.k = "defined" /\ (t.e = Dish \/ e # Dish)
    \/ t.k = "cascade" /\ e = Dish /\ t.e \in linked

\* A recompute under way still will if what it has read is current.
IsCurrent(j, e) ==
    \/ j.ph = "go"
    \/ j.ph = "schema" /\ (j.f = formula \/ (e = Dish /\ j.f > 0))
    \/ j.ph = "read" /\ j.val = Result(e, formula)

TasksIn(s) == {s[i] : i \in 1..Len(s)}

Serves(j, e) ==
    /\ j.stack # << >>
    /\ \/ \E t \in TasksIn(Tail(j.stack)) : Helps(t, e)
       \/ Helps(Head(j.stack), e) /\ IsCurrent(j, e)

Stale(e) == result[e] # Result(e, formula)
Owed(e) ==
    \/ \E p \in Procs : Serves(job[p], e)
    \/ \E t \in due : t.kind = KindOf(e)

\* A stale result has somebody who will bring it up to date.
StaleIsOwed == ~raced /\ ~lost /\ formula > 0 => \A e \in Entities : Stale(e) => Owed(e)

\* A cache that says no is about to be flushed, once there is a definition.
Announces(j) == \E t \in TasksIn(j.stack) : t.k = "defined" /\ t.e = Dish
CacheFits ==
    ~raced /\ formula > 0 =>
        \A r \in Replicas : \A k \in Kinds : known[r][k] = "no" => \E p \in Procs : RunsOn[p] = r /\ Announces(job[p])

ComputedIInv == ComputedTypes /\ StaleIsOwed /\ CacheFits

(* Stacks. *)

LEMMA StackOn ==
  ASSUME NEW T, NEW u \in Seq(T), NEW s \in Seq(T)
  PROVE  u \o s \in Seq(T) /\ TasksIn(u \o s) = TasksIn(u) \cup TasksIn(s)
<1>1. /\ u \o s \in Seq(T) /\ Len(u \o s) = Len(u) + Len(s) /\ Len(u) \in Nat /\ Len(s) \in Nat
      /\ \A i \in 1..(Len(u) + Len(s)) : (u \o s)[i] = IF i <= Len(u) THEN u[i] ELSE s[i - Len(u)]
  OBVIOUS
<1>2. ASSUME NEW t \in TasksIn(u \o s) PROVE t \in TasksIn(u) \cup TasksIn(s)
  <2>1. PICK i \in 1..(Len(u) + Len(s)) : t = (u \o s)[i]
    BY <1>1 DEF TasksIn
  <2>2. CASE i <= Len(u)
    <3>1. i \in 1..Len(u) /\ t = u[i]
      BY <1>1, <2>1, <2>2
    <3> QED
      BY <3>1 DEF TasksIn
  <2>3. CASE ~(i <= Len(u))
    <3>1. i - Len(u) \in 1..Len(s) /\ t = s[i - Len(u)]
      BY <1>1, <2>1, <2>3
    <3> QED
      BY <3>1 DEF TasksIn
  <2> QED
    BY <2>2, <2>3
<1>3. ASSUME NEW t \in TasksIn(u) PROVE t \in TasksIn(u \o s)
  <2>1. PICK i \in 1..Len(u) : t = u[i]
    BY DEF TasksIn
  <2>2. i \in 1..(Len(u) + Len(s)) /\ (u \o s)[i] = u[i]
    BY <1>1
  <2> QED
    BY <1>1, <2>1, <2>2 DEF TasksIn
<1>4. ASSUME NEW t \in TasksIn(s) PROVE t \in TasksIn(u \o s)
  <2>1. PICK i \in 1..Len(s) : t = s[i]
    BY DEF TasksIn
  <2> DEFINE n == Len(u) + i
  <2>2. n \in 1..(Len(u) + Len(s)) /\ ~(n <= Len(u)) /\ n - Len(u) = i
    BY <1>1
  <2>3. (u \o s)[n] = s[i]
    BY <1>1, <2>2
  <2> QED
    BY <1>1, <2>1, <2>2, <2>3 DEF TasksIn
<1> QED
  BY <1>1, <1>2, <1>3, <1>4

LEMMA StackTop ==
  ASSUME NEW T, NEW s \in Seq(T), s # << >>
  PROVE  /\ Head(s) \in T /\ Tail(s) \in Seq(T) /\ Head(s) \in TasksIn(s)
         /\ TasksIn(s) = {Head(s)} \cup TasksIn(Tail(s))
<1>1. /\ Head(s) = s[1] /\ Tail(s) \in Seq(T) /\ Len(s) \in Nat /\ Len(s) >= 1 /\ Len(Tail(s)) = Len(s) - 1
      /\ \A i \in 1..(Len(s) - 1) : Tail(s)[i] = s[i + 1]
  OBVIOUS
<1>2. Head(s) \in T /\ Head(s) \in TasksIn(s)
  BY <1>1 DEF TasksIn
<1>3. ASSUME NEW t \in TasksIn(s), t # Head(s) PROVE t \in TasksIn(Tail(s))
  <2>1. PICK i \in 1..Len(s) : t = s[i]
    BY DEF TasksIn
  <2> DEFINE n == i - 1
  <2>2. n \in 1..(Len(s) - 1) /\ n + 1 = i
    BY <1>1, <1>3, <2>1
  <2>3. t = Tail(s)[n]
    BY <1>1, <2>1, <2>2
  <2> QED
    BY <1>1, <2>2, <2>3 DEF TasksIn
<1>4. ASSUME NEW t \in TasksIn(Tail(s)) PROVE t \in TasksIn(s)
  <2>1. PICK i \in 1..(Len(s) - 1) : t = s[i + 1]
    BY <1>1 DEF TasksIn
  <2>2. i + 1 \in 1..Len(s)
    BY <1>1
  <2> QED
    BY <2>1, <2>2 DEF TasksIn
<1> QED
  BY <1>1, <1>2, <1>3, <1>4

LEMMA StackPush ==
  ASSUME NEW T, NEW t \in T, NEW s \in Seq(T)
  PROVE  /\ <<t>> \o s \in Seq(T) /\ <<t>> \o s # << >>
         /\ Head(<<t>> \o s) = t /\ Tail(<<t>> \o s) = s
         /\ TasksIn(<<t>> \o s) = {t} \cup TasksIn(s)
<1>1. <<t>> \in Seq(T) /\ <<t>> \o s \in Seq(T) /\ Len(<<t>> \o s) = Len(s) + 1 /\ Len(s) \in Nat
  OBVIOUS
<1>2. /\ <<t>> \o s # << >> /\ Head(<<t>> \o s) = t
  BY <1>1
<1>3. Tail(<<t>> \o s) = s
  <2>1. Tail(<<t>> \o s) \in Seq(T) /\ Len(Tail(<<t>> \o s)) = Len(s)
    BY <1>1, <1>2
  <2>2. \A i \in 1..Len(s) : Tail(<<t>> \o s)[i] = s[i]
    BY <1>1, <1>2
  <2> QED
    BY <2>1, <2>2
<1>4. TasksIn(<<t>> \o s) = {t} \cup TasksIn(s)
  BY <1>1, <1>2, <1>3, StackTop
<1> QED
  BY <1>1, <1>2, <1>3, <1>4

LEMMA StackEmpty ==
  /\ TasksIn(<< >>) = {} /\ \A T : << >> \in Seq(T)
  /\ \A T : \A s \in Seq(T) : << >> \o s = s
  BY DEF TasksIn

\* One task, or two.
LEMMA StackFew ==
  ASSUME NEW T, NEW x \in T, NEW y \in T
  PROVE  /\ <<x>> \in Seq(T) /\ TasksIn(<<x>>) = {x} /\ <<x>> # << >>
         /\ <<x, y>> \in Seq(T) /\ TasksIn(<<x, y>>) = {x, y} /\ <<x, y>> # << >>
  BY DEF TasksIn

LEMMA TwoTasks ==
  \A x \in TaskRecs : \A y \in TaskRecs : <<x, y>> \in Seq(TaskRecs) /\ TasksIn(<<x, y>>) = {x, y}
  BY StackFew

\* A list of tasks for a set of entities.
LEMMA TaskList ==
  ASSUME NEW k \in {"re", "stable"}, NEW S \in SUBSET Entities, NEW d \in Nat
  PROVE  /\ Tasks(k, S, d) \in Seq(TaskRecs)
         /\ TasksIn(Tasks(k, S, d)) = {Task(k, e, d) : e \in S}
<1>1. IsFiniteSet(Entities)
  BY ComputedAssumption, FS_AddElement DEF Entities
<1>2. IsFiniteSet(S) /\ Cardinality(S) \in Nat
  BY <1>1, FS_Subset, FS_CardinalityType
<1> DEFINE n == Cardinality(S)
<1>3. ExistsBijection(1..n, S)
  BY <1>2, FS_CardinalityType
<1>4. \E o : o \in Surjection(1..n, S)
  BY <1>3, Zenon DEF ExistsBijection, Bijection
<1>5. Order(S) \in Surjection(1..n, S)
  BY <1>4, Zenon DEF Order
<1>6. Order(S) \in [1..n -> S] /\ \A e \in S : \E i \in 1..n : Order(S)[i] = e
  BY <1>5, Zenon DEF Surjection
<1>7. \A e \in S : Task(k, e, d) \in TaskRecs
  BY DEF Task, TaskRecs
<1>8. Tasks(k, S, d) = [i \in 1..n |-> Task(k, Order(S)[i], d)]
  BY DEF Tasks
<1>9. /\ Tasks(k, S, d) \in Seq(TaskRecs) /\ Len(Tasks(k, S, d)) = n
      /\ \A i \in 1..n : Tasks(k, S, d)[i] = Task(k, Order(S)[i], d)
  BY <1>2, <1>6, <1>7, <1>8
<1>10. TasksIn(Tasks(k, S, d)) = {Task(k, e, d) : e \in S}
  <2>1. ASSUME NEW t \in TasksIn(Tasks(k, S, d)) PROVE \E e \in S : t = Task(k, e, d)
    BY <1>6, <1>9 DEF TasksIn
  <2>2. ASSUME NEW e \in S PROVE Task(k, e, d) \in TasksIn(Tasks(k, S, d))
    <3>1. PICK i \in 1..n : Order(S)[i] = e
      BY <1>6
    <3> QED
      BY <1>9, <3>1 DEF TasksIn
  <2> QED
    BY <2>1, <2>2
<1> QED
  BY <1>9, <1>10

(* One process moves. *)

\* A job.
JobOf(s, x, n, v) == [stack |-> s, ph |-> x, f |-> n, val |-> v]

LEMMA JobIs ==
  ASSUME NEW s \in Seq(TaskRecs), NEW x \in {"go", "schema", "read"}, NEW n \in Nat, NEW v,
         x # "go" => s # << >> /\ Head(s).k \in {"re", "stable"}
  PROVE  /\ IsJob(JobOf(s, x, n, v)) /\ JobOf(s, x, n, v).stack = s /\ JobOf(s, x, n, v).ph = x
         /\ JobOf(s, x, n, v).f = n /\ JobOf(s, x, n, v).val = v
<1>1. PICK j : j = JobOf(s, x, n, v)
  OBVIOUS
<1>2. j.stack = s /\ j.ph = x /\ j.f = n /\ j.val = v /\ j = [stack |-> s, ph |-> x, f |-> n, val |-> v]
  BY <1>1 DEF JobOf
<1>3. j = [stack |-> j.stack, ph |-> j.ph, f |-> j.f, val |-> j.val]
  BY <1>2
<1>4. IsJob(j)
  BY <1>2, <1>3 DEF IsJob
<1> QED
  BY <1>1, <1>2, <1>4

\* Other fields for a job.
Restaged(o, x, n, s) == [o EXCEPT !.ph = x, !.f = n, !.stack = s]
Valued(o, x, v) == [o EXCEPT !.ph = x, !.val = v]
Stacked(o, s) == [o EXCEPT !.stack = s]

LEMMA JobChanged ==
  ASSUME NEW o, IsJob(o), NEW x, NEW n, NEW s, NEW v
  PROVE  /\ Restaged(o, x, n, s) = JobOf(s, x, n, o.val)
         /\ Valued(o, x, v) = JobOf(o.stack, x, o.f, v)
         /\ Stacked(o, s) = JobOf(s, o.ph, o.f, o.val)
<1>1. PICK s0, x0, n0, v0 : s0 = o.stack /\ x0 = o.ph /\ n0 = o.f /\ v0 = o.val
  OBVIOUS
<1>2. o \in [stack : {s0}, ph : {x0}, f : {n0}, val : {v0}]
  BY <1>1 DEF IsJob
<1>3. [o EXCEPT !.ph = x, !.f = n, !.stack = s] \in [stack : {s}, ph : {x}, f : {n}, val : {v0}]
  BY <1>2
<1>4. [o EXCEPT !.ph = x, !.val = v] \in [stack : {s0}, ph : {x}, f : {n0}, val : {v}]
  BY <1>2
<1>5. [o EXCEPT !.stack = s] \in [stack : {s}, ph : {x0}, f : {n0}, val : {v0}]
  BY <1>2
<1>6. \A s1, x1, n1, v1 : \A r \in [stack : {s1}, ph : {x1}, f : {n1}, val : {v1}] : r = JobOf(s1, x1, n1, v1)
  BY DEF JobOf
<1>7. [o EXCEPT !.ph = x, !.f = n, !.stack = s] = JobOf(s, x, n, v0)
  BY <1>3, <1>6
<1>8. [o EXCEPT !.ph = x, !.val = v] = JobOf(s0, x, n0, v)
  BY <1>4, <1>6
<1>9. [o EXCEPT !.stack = s] = JobOf(s, x0, n0, v0)
  BY <1>5, <1>6
<1> QED
  BY <1>1, <1>7, <1>8, <1>9 DEF Restaged, Valued, Stacked

\* A job's change keeps the map of jobs typed.
LEMMA JobsTyped ==
  ASSUME ComputedTypes, NEW p \in Procs, NEW j, IsJob(j), job' = [job EXCEPT ![p] = j]
  PROVE  /\ IsMap(job, Procs)' /\ \A q \in Procs : IsJob(job'[q])
         /\ job'[p] = j /\ \A q \in Procs : q # p => job'[q] = job[q]
<1>1. IsMap(job, Procs) /\ \A q \in Procs : IsJob(job[q])
  BY DEF ComputedTypes
<1>2. job'[p] = j /\ \A q \in Procs : q # p => job'[q] = job[q]
  BY <1>1 DEF IsMap
<1>3. job' = [q \in Procs |-> job'[q]]
  BY <1>1 DEF IsMap
<1> QED
  BY <1>1, <1>2, <1>3 DEF IsMap

\* An idle process serves nobody.
LEMMA IdleServesNone ==
  ASSUME NEW p, ~Working(p), NEW e
  PROVE  ~Serves(job[p], e) /\ ~Announces(job[p])
<1>1. job[p].stack = << >>
  BY DEF Working
<1> QED
  BY <1>1, StackEmpty DEF Serves, Announces

\* Between two tasks every task of the stack serves.
LEMMA GoServes ==
  ASSUME NEW j, IsJob(j), j.ph = "go", NEW e, NEW t \in TasksIn(j.stack), Helps(t, e)'
  PROVE  Serves(j, e)'
<1>1. j.stack \in Seq(TaskRecs) /\ j.stack # << >>
  BY StackEmpty DEF IsJob
<1>2. TasksIn(j.stack) = {Head(j.stack)} \cup TasksIn(Tail(j.stack))
  BY <1>1, StackTop
<1>3. IsCurrent(j, e)'
  BY DEF IsCurrent
<1> QED
  BY <1>1, <1>2, <1>3 DEF Serves

\* What an entity's result depends on stands still.
Still(e) ==
    /\ formula' = formula /\ Result(e, formula)' = Result(e, formula)
    /\ e # Dish \/ linked' = linked

LEMMA ServesStill ==
  ASSUME NEW j, NEW e, Serves(j, e), Still(e)
  PROVE  Serves(j, e)'
<1>1. \A t : Helps(t, e) => Helps(t, e)'
  BY DEF Helps, Still
<1>2. IsCurrent(j, e) => IsCurrent(j, e)'
  BY DEF IsCurrent, Still
<1> QED
  BY <1>1, <1>2 DEF Serves

\* One process moves, scheduled rebuilds stay: an entity stays owed unless that
\* process alone served it.
LEMMA OwedStays ==
  ASSUME ComputedTypes, NEW p \in Procs, NEW j, IsJob(j), job' = [job EXCEPT ![p] = j], due \subseteq due',
         NEW e, Still(e), Owed(e), Serves(job[p], e) => Owed(e)'
  PROVE  Owed(e)'
<1>1. CASE \E t \in due : t.kind = KindOf(e)
  BY <1>1 DEF Owed, KindOf
<1>2. CASE \E q \in Procs : Serves(job[q], e)
  <2>1. PICK q \in Procs : Serves(job[q], e)
    BY <1>2
  <2>2. CASE q = p
    BY <2>1, <2>2
  <2>3. CASE q # p
    <3>1. job'[q] = job[q]
      BY <2>3, JobsTyped
    <3>2. PICK w : w = job[q]
      OBVIOUS
    <3>3. Serves(w, e)'
      BY <2>1, <3>2, ServesStill
    <3> QED
      BY <3>1, <3>2, <3>3 DEF Owed
  <2> QED
    BY <2>2, <2>3
<1> QED
  BY <1>1, <1>2 DEF Owed

\* The inputs stand still.
InputsStill == UNCHANGED <<qty, result, linked, formula>>

LEMMA InputsStillAll ==
  ASSUME InputsStill, NEW e
  PROVE  Still(e) /\ (Stale(e)' => Stale(e))
<1>1. Result(e, formula)' = Result(e, formula)
  BY DEF InputsStill, Result, EvalRollup, EvalFormula
<1> QED
  BY <1>1 DEF InputsStill, Still, Stale

\* Whom a process served has it, or somebody else, for it still.
KeepsServing(p) == \A e \in Entities : Stale(e) /\ Serves(job[p], e) => Owed(e)'

LEMMA TaskStep ==
  ASSUME ComputedIInv, NEW p \in Procs, NEW j, IsJob(j), job' = [job EXCEPT ![p] = j],
         InputsStill, lost' = lost, raced => raced', due \subseteq due',
         ~raced' /\ ~lost /\ formula > 0 => KeepsServing(p)
  PROVE  StaleIsOwed'
<1> SUFFICES ASSUME ~raced', ~lost', formula' > 0, NEW e \in Entities, Stale(e)' PROVE Owed(e)'
  BY DEF StaleIsOwed
<1>1. ComputedTypes
  BY DEF ComputedIInv
<1>2. Still(e) /\ Stale(e)
  BY InputsStillAll
<1>3. ~raced /\ ~lost /\ formula > 0
  BY DEF InputsStill
<1>4. Owed(e)
  BY <1>2, <1>3 DEF ComputedIInv, StaleIsOwed
<1>5. Serves(job[p], e) => Owed(e)'
  BY <1>2, <1>3 DEF KeepsServing
<1> QED
  BY <1>1, <1>2, <1>4, <1>5, OwedStays

\* No cache turns to no, and the process's own is clear if it drops the announcement.
NoNewNo == \A r \in Replicas : \A k \in Kinds : known'[r][k] = "no" => known[r][k] = "no"
ClearAt(r) == \A k \in Kinds : known'[r][k] # "no"

LEMMA CacheStep ==
  ASSUME ComputedIInv, NEW p \in Procs, NEW j, IsJob(j), job' = [job EXCEPT ![p] = j],
         formula' = formula, raced => raced', ~raced' /\ formula > 0 => NoNewNo,
         Announces(job[p]) => Announces(j) \/ ClearAt(RunsOn[p])
  PROVE  CacheFits'
<1> SUFFICES ASSUME ~raced', formula' > 0, NEW r \in Replicas, NEW k \in Kinds, known'[r][k] = "no"
             PROVE  \E q \in Procs : RunsOn[q] = r /\ Announces(job'[q])
  BY DEF CacheFits, Announces
<1>1. known[r][k] = "no" /\ ~raced /\ formula > 0
  BY DEF NoNewNo
<1>2. PICK q \in Procs : RunsOn[q] = r /\ Announces(job[q])
  BY <1>1 DEF ComputedIInv, CacheFits
<1>3. job'[p] = j /\ (q # p => job'[q] = job[q])
  BY JobsTyped DEF ComputedIInv
<1>4. CASE q = p
  BY <1>2, <1>3, <1>4 DEF ClearAt
<1>5. CASE q # p
  BY <1>2, <1>3, <1>5
<1> QED
  BY <1>4, <1>5

\* A task is done and others take its place.
Popped(p, j, next) ==
    /\ IsJob(j) /\ j.ph = "go" /\ j.stack = next \o Tail(job[p].stack)
    /\ TasksIn(j.stack) = TasksIn(next) \cup TasksIn(Tail(job[p].stack))

LEMMA ContinueIs ==
  ASSUME ComputedTypes, NEW p \in Procs, Working(p), NEW next \in Seq(TaskRecs)
  PROVE  \E j : Popped(p, j, next) /\ Continue(p, next) = [job EXCEPT ![p] = j]
<1>1. job[p].stack \in Seq(TaskRecs) /\ job[p].stack # << >>
  BY DEF ComputedTypes, IsJob, Working
<1>2. Tail(job[p].stack) \in Seq(TaskRecs)
  BY <1>1, StackTop
<1>3. /\ next \o Tail(job[p].stack) \in Seq(TaskRecs)
      /\ TasksIn(next \o Tail(job[p].stack)) = TasksIn(next) \cup TasksIn(Tail(job[p].stack))
  BY <1>2, StackOn
<1>4. PICK s : s = next \o Tail(job[p].stack)
  OBVIOUS
<1> DEFINE j == [Resting EXCEPT !.stack = s]
<1>5. j = JobOf(s, "go", 0, Undefined)
  BY DEF Resting, JobOf
<1>6. IsJob(j) /\ j.stack = s /\ j.ph = "go"
  <2> HIDE DEF j
  <2>1. s \in Seq(TaskRecs) /\ "go" \in {"go", "schema", "read"} /\ 0 \in Nat
    BY <1>3, <1>4
  <2>2. IsJob(JobOf(s, "go", 0, Undefined)) /\ JobOf(s, "go", 0, Undefined).stack = s /\ JobOf(s, "go", 0, Undefined).ph = "go"
    BY <2>1, JobIs
  <2> QED
    BY <1>5, <2>2
<1>7. Continue(p, next) = [job EXCEPT ![p] = j]
  BY <1>4 DEF Continue
<1>8. Popped(p, j, next)
  BY <1>3, <1>4, <1>6 DEF Popped
<1> QED
  BY <1>7, <1>8

\* Whom the process served through a deeper task, it serves still.
LEMMA PopKeeps ==
  ASSUME NEW p \in Procs, NEW j, NEW next, Popped(p, j, next), NEW e, Still(e),
         Serves(job[p], e), ~(Helps(Head(job[p].stack), e) /\ IsCurrent(job[p], e))
  PROVE  Serves(j, e)'
<1>1. PICK t \in TasksIn(Tail(job[p].stack)) : Helps(t, e)
  BY DEF Serves
<1>2. t \in TasksIn(j.stack) /\ IsJob(j) /\ j.ph = "go"
  BY DEF Popped
<1>3. Helps(t, e)'
  BY <1>1 DEF Helps, Still
<1> QED
  BY <1>2, <1>3, GoServes

LEMMA PopAnnounces ==
  ASSUME ComputedTypes, NEW p \in Procs, Working(p), NEW j, NEW next, Popped(p, j, next), Announces(job[p]),
         Head(job[p].stack).k # "defined"
  PROVE  Announces(j)
<1>1. job[p].stack \in Seq(TaskRecs) /\ job[p].stack # << >>
  BY DEF ComputedTypes, IsJob, Working
<1>2. TasksIn(job[p].stack) = {Head(job[p].stack)} \cup TasksIn(Tail(job[p].stack))
  BY <1>1, StackTop
<1> QED
  BY <1>2 DEF Announces, Popped

\* What a step that leaves the inputs alone keeps typed.
LEMMA TypesStep ==
  ASSUME ComputedTypes, NEW p \in Procs, NEW j, IsJob(j), job' = [job EXCEPT ![p] = j],
         InputsStill, qver' = qver, lost' \in BOOLEAN, raced' \in BOOLEAN,
         known' \in [Replicas -> [Kinds -> {"yes", "no", "unknown"}]],
         due' \subseteq [rep : Replicas, kind : Kinds]
  PROVE  ComputedTypes'
  BY JobsTyped DEF ComputedTypes, InputsStill, IsMap

\* Whoever announces a definition serves everybody.
LEMMA AnnouncerServes ==
  ASSUME NEW j, IsJob(j), Announces(j), Head(j.stack).k = "defined" => j.ph = "go", NEW e
  PROVE  Serves(j, e)'
<1>1. j.stack \in Seq(TaskRecs) /\ j.stack # << >>
  BY StackEmpty DEF IsJob, Announces
<1>2. TasksIn(j.stack) = {Head(j.stack)} \cup TasksIn(Tail(j.stack))
  BY <1>1, StackTop
<1>3. PICK t \in TasksIn(j.stack) : t.k = "defined" /\ t.e = Dish
  BY DEF Announces
<1>4. Helps(t, e)'
  BY <1>3 DEF Helps
<1>5. t = Head(j.stack) => IsCurrent(j, e)'
  BY <1>3 DEF IsCurrent
<1> QED
  BY <1>1, <1>2, <1>4, <1>5 DEF Serves

LEMMA OwnServes ==
  ASSUME NEW p \in Procs, NEW j, job'[p] = j, NEW e, Serves(j, e)'
  PROVE  Owed(e)'
  BY DEF Owed

LEMMA JobAt ==
  ASSUME ComputedTypes, NEW p \in Procs
  PROVE  IsJob(job[p]) /\ job[p].stack \in Seq(TaskRecs) /\ RunsOn[p] \in Replicas
  BY ComputedAssumption DEF ComputedTypes, IsJob, Procs

(* The steps. *)

LEMMA HandleDefinitionStep ==
  ASSUME ComputedIInv, NEW p \in Procs, HandleDefinition(p)
  PROVE  ComputedIInv'
<1>1. ComputedTypes /\ << >> \in Seq(TaskRecs) /\ RunsOn[p] \in Replicas
  BY StackEmpty, JobAt DEF ComputedIInv
<1>2. /\ Working(p) /\ Top(p).k = "defined" /\ job' = Continue(p, << >>)
      /\ known' = [known EXCEPT ![RunsOn[p]] = [k \in Kinds |-> "unknown"]]
      /\ due' = due \cup {[rep |-> RunsOn[p], kind |-> k] : k \in {"line"} \cup (IF Top(p).e = Dish THEN {"dish"} ELSE {})}
      /\ UNCHANGED <<qty, qver, result, linked, formula, raced, lost>>
  BY DEF HandleDefinition, Invalidate
<1>3. PICK j : Popped(p, j, << >>) /\ job' = [job EXCEPT ![p] = j]
  BY <1>1, <1>2, ContinueIs
<1>4. IsJob(j) /\ job'[p] = j
  BY <1>1, <1>3, JobsTyped DEF Popped
<1>5. InputsStill
  BY <1>2 DEF InputsStill
<1>6. KeepsServing(p)
  <2> SUFFICES ASSUME NEW e \in Entities, Stale(e), Serves(job[p], e) PROVE Owed(e)'
    BY DEF KeepsServing
  <2>1. CASE e # Dish \/ Top(p).e = Dish
    <3>1. KindOf(e) \in {"line"} \cup (IF Top(p).e = Dish THEN {"dish"} ELSE {})
      BY <2>1 DEF KindOf
    <3>2. [rep |-> RunsOn[p], kind |-> KindOf(e)] \in due'
      BY <1>2, <3>1
    <3> QED
      BY <3>2 DEF Owed, KindOf
  <2>2. CASE e = Dish /\ Top(p).e # Dish
    <3>1. ~Helps(Head(job[p].stack), e)
      BY <1>2, <2>2 DEF Helps, Top
    <3>2. Serves(j, e)'
      BY <1>3, <1>5, <3>1, InputsStillAll, PopKeeps
    <3> QED
      BY <1>4, <3>2, OwnServes
  <2> QED
    BY <2>1, <2>2
<1>7. due \subseteq due'
  BY <1>2
<1>8. StaleIsOwed'
  BY <1>2, <1>3, <1>4, <1>5, <1>6, <1>7, TaskStep
<1>9. known \in [Replicas -> [Kinds -> {"yes", "no", "unknown"}]]
  BY <1>1 DEF ComputedTypes
<1>10. known' \in [Replicas -> [Kinds -> {"yes", "no", "unknown"}]] /\ ClearAt(RunsOn[p]) /\ NoNewNo
  BY <1>1, <1>2, <1>9 DEF ClearAt, NoNewNo
<1>11. CacheFits'
  BY <1>2, <1>3, <1>4, <1>10, CacheStep
<1>12. due' \subseteq [rep : Replicas, kind : Kinds] /\ raced' \in BOOLEAN /\ lost' \in BOOLEAN
  BY <1>1, <1>2 DEF ComputedTypes, Kinds
<1>13. ComputedTypes'
  BY <1>1, <1>2, <1>3, <1>4, <1>5, <1>10, <1>12, TypesStep
<1> QED
  BY <1>8, <1>11, <1>13 DEF ComputedIInv

\* A task ends and leaves others: due and the caches as they were.
LEMMA PopStep ==
  ASSUME ComputedIInv, NEW p \in Procs, Working(p), NEW next \in Seq(TaskRecs), job' = Continue(p, next),
         UNCHANGED <<qty, qver, result, linked, formula, known, due, lost>>,
         raced => raced', raced' \in BOOLEAN, Top(p).k # "defined",
         NEW j, Popped(p, j, next), job' = [job EXCEPT ![p] = j],
         ~raced' /\ ~lost /\ formula > 0 => KeepsServing(p)
  PROVE  ComputedIInv'
<1>1. ComputedTypes
  BY DEF ComputedIInv
<1>2. IsJob(j) /\ job'[p] = j
  BY <1>1, JobsTyped DEF Popped
<1>3. InputsStill
  BY DEF InputsStill
<1>4. StaleIsOwed'
  BY <1>2, <1>3, TaskStep
<1>5. NoNewNo /\ (Announces(job[p]) => Announces(j))
  BY <1>1, PopAnnounces DEF NoNewNo, Top
<1>6. CacheFits'
  BY <1>2, <1>5, CacheStep
<1>7. ComputedTypes'
  BY <1>1, <1>2, <1>3, TypesStep DEF ComputedTypes
<1> QED
  BY <1>4, <1>6, <1>7 DEF ComputedIInv

LEMMA ConfirmStep ==
  ASSUME ComputedIInv, NEW p \in Procs, Confirm(p)
  PROVE  ComputedIInv'
<1>1. ComputedTypes /\ IsJob(job[p]) /\ job[p].stack \in Seq(TaskRecs) /\ raced \in BOOLEAN
  BY JobAt DEF ComputedIInv, ComputedTypes
<1> DEFINE t == Top(p)
<1> DEFINE next == IF Moved(t) /\ t.try < MaxRecomputeAttempts THEN <<[t EXCEPT !.k = "stable", !.try = @ + 1]>> ELSE << >>
<1>2. /\ Working(p) /\ t.k = "confirm" /\ job' = Continue(p, next)
      /\ UNCHANGED <<qty, qver, result, linked, formula, known, due, lost>>
      /\ raced' = (raced \/ (Moved(t) /\ t.try = MaxRecomputeAttempts))
  BY DEF Confirm
<1>3. t \in TaskRecs
  BY <1>1, <1>2, StackTop DEF Working, Top
<1>4. [t EXCEPT !.k = "stable", !.try = @ + 1] \in TaskRecs
  <2>1. PICK u \in [k : {"re", "stable", "confirm", "cascade"}, e : Entities, d : Nat, try : Nat, fp : Nat] : u = t
    BY <1>2, <1>3 DEF TaskRecs
  <2>2. PICK v : v = [u EXCEPT !.k = "stable"]
    OBVIOUS
  <2>3. v \in [k : {"re", "stable", "confirm", "cascade"}, e : Entities, d : Nat, try : Nat, fp : Nat]
    BY <2>2
  <2>4. [v EXCEPT !.try = v.try + 1] \in [k : {"re", "stable", "confirm", "cascade"}, e : Entities, d : Nat, try : Nat, fp : Nat]
    BY <2>3
  <2> QED
    BY <2>1, <2>2, <2>4 DEF TaskRecs
<1>5. next \in Seq(TaskRecs)
  BY <1>4, StackFew, StackEmpty
<1>6. PICK n \in Seq(TaskRecs) : n = next
  BY <1>5
<1> HIDE DEF next
<1>7. PICK j : Popped(p, j, n) /\ job' = [job EXCEPT ![p] = j]
  BY <1>1, <1>2, <1>6, ContinueIs
<1>8. IsJob(j) /\ job'[p] = j
  BY <1>1, <1>7, JobsTyped DEF Popped
<1>9. KeepsServing(p)
  <2> SUFFICES ASSUME NEW e \in Entities, Stale(e), Serves(job[p], e) PROVE Owed(e)'
    BY DEF KeepsServing
  <2>1. ~Helps(Head(job[p].stack), e)
    BY <1>2 DEF Helps, Top
  <2>2. Still(e)
    BY <1>2, InputsStillAll DEF InputsStill
  <2>3. Serves(j, e)'
    BY <1>7, <2>1, <2>2, PopKeeps
  <2> QED
    BY <1>8, <2>3, OwnServes
<1>10. (raced => raced') /\ raced' \in BOOLEAN /\ Top(p).k # "defined" /\ job' = Continue(p, n)
  BY <1>1, <1>2, <1>6
<1> QED
  BY <1>2, <1>7, <1>9, <1>10, PopStep

LEMMA CascadeStep ==
  ASSUME ComputedIInv, NEW p \in Procs, CascadeToNeighbours(p)
  PROVE  ComputedIInv'
<1>1. ComputedTypes /\ IsJob(job[p]) /\ job[p].stack \in Seq(TaskRecs) /\ raced \in BOOLEAN /\ linked \subseteq Lines
  BY JobAt DEF ComputedIInv, ComputedTypes
<1> DEFINE t == Top(p)
<1> DEFINE next == IF t.d >= MaxCascadeDepth THEN << >> ELSE Tasks("re", Neighbours(t.e), t.d + 1)
<1>2. /\ Working(p) /\ t.k = "cascade" /\ job' = Continue(p, next)
      /\ UNCHANGED <<qty, qver, result, linked, formula, known, due, lost>>
      /\ raced' = (raced \/ t.d >= MaxCascadeDepth)
  BY DEF CascadeToNeighbours
<1>3. t \in TaskRecs
  BY <1>1, <1>2, StackTop DEF Working, Top
<1>4. t.d + 1 \in Nat /\ Neighbours(t.e) \in SUBSET Entities
  BY <1>1, <1>2, <1>3 DEF TaskRecs, Neighbours, Entities
<1>5. /\ Tasks("re", Neighbours(t.e), t.d + 1) \in Seq(TaskRecs)
      /\ TasksIn(Tasks("re", Neighbours(t.e), t.d + 1)) = {Task("re", e, t.d + 1) : e \in Neighbours(t.e)}
  BY <1>4, TaskList
<1>6. next \in Seq(TaskRecs)
  BY <1>5, StackEmpty
<1>7. PICK n \in Seq(TaskRecs) : n = next
  BY <1>6
<1>8. ~raced' => TasksIn(n) = {Task("re", e, t.d + 1) : e \in Neighbours(t.e)}
  BY <1>2, <1>5, <1>7
<1> HIDE DEF next
<1>9. PICK j : Popped(p, j, n) /\ job' = [job EXCEPT ![p] = j]
  BY <1>1, <1>2, <1>7, ContinueIs
<1>10. IsJob(j) /\ job'[p] = j
  BY <1>1, <1>9, JobsTyped DEF Popped
<1>11. ASSUME ~raced' PROVE KeepsServing(p)
  <2> SUFFICES ASSUME NEW e \in Entities, Stale(e), Serves(job[p], e) PROVE Owed(e)'
    BY DEF KeepsServing
  <2>1. Still(e)
    BY <1>2, InputsStillAll DEF InputsStill
  <2>2. CASE ~Helps(Head(job[p].stack), e)
    <3>1. Serves(j, e)'
      BY <1>9, <2>1, <2>2, PopKeeps
    <3> QED
      BY <1>10, <3>1, OwnServes
  <2>3. CASE Helps(Head(job[p].stack), e)
    <3>1. e = Dish /\ t.e \in linked
      BY <1>2, <2>3 DEF Helps, Top
    <3>2. Dish \in Neighbours(t.e)
      BY <1>1, <3>1, ComputedAssumption DEF Neighbours
    <3>3. Task("re", Dish, t.d + 1) \in TasksIn(n)
      BY <1>8, <1>11, <3>2
    <3>4. PICK u : u = Task("re", Dish, t.d + 1)
      OBVIOUS
    <3>5. u \in TasksIn(j.stack) /\ j.ph = "go"
      BY <1>9, <3>3, <3>4 DEF Popped
    <3>6. Helps(u, e)'
      BY <3>1, <3>4 DEF Helps, Task
    <3>7. Serves(j, e)'
      BY <1>10, <3>5, <3>6, GoServes
    <3> QED
      BY <1>10, <3>7, OwnServes
  <2> QED
    BY <2>2, <2>3
<1>12. (raced => raced') /\ raced' \in BOOLEAN /\ Top(p).k # "defined" /\ job' = Continue(p, n)
  BY <1>1, <1>2, <1>7
<1> QED
  BY <1>2, <1>9, <1>11, <1>12, PopStep

\* An announced definition has everything rebuilt.
LEMMA AnnouncedOwes ==
  ASSUME NEW q \in Procs, NEW j, IsJob(j), job'[q] = j, Announces(j), NEW e
  PROVE  Owed(e)'
<1>1. Head(j.stack).k = "defined" => j.ph = "go"
  BY DEF IsJob
<1>2. Serves(j, e)'
  BY <1>1, AnnouncerServes
<1> QED
  BY <1>2, OwnServes

LEMMA ReadSchemaStep ==
  ASSUME ComputedIInv, NEW p \in Procs, ReadSchema(p)
  PROVE  ComputedIInv'
<1>1. /\ ComputedTypes /\ IsJob(job[p]) /\ job[p].stack \in Seq(TaskRecs) /\ raced \in BOOLEAN /\ << >> \in Seq(TaskRecs)
      /\ RunsOn[p] \in Replicas /\ qver \in [Lines -> Nat] /\ formula \in Nat /\ lost \in BOOLEAN
  BY JobAt, StackEmpty DEF ComputedIInv, ComputedTypes
<1> DEFINE t == Top(p)
<1>2. /\ Working(p) /\ t.k \in {"re", "stable"} /\ job[p].ph = "go"
      /\ UNCHANGED <<qty, qver, result, linked, formula, known, due, raced, lost>>
  BY DEF ReadSchema
<1>3. t \in TaskRecs /\ t.e \in Entities /\ Tail(job[p].stack) \in Seq(TaskRecs) /\ job[p].stack # << >>
  <2>1. job[p].stack # << >> /\ t \in TaskRecs /\ Tail(job[p].stack) \in Seq(TaskRecs)
    BY <1>1, <1>2, StackTop DEF Working, Top
  <2> QED
    BY <1>2, <2>1 DEF TaskRecs
<1>4. CASE known[RunsOn[p]][KindOf(t.e)] = "no"
  <2>1. job' = Continue(p, << >>)
    BY <1>4 DEF ReadSchema
  <2>2. PICK j : Popped(p, j, << >>) /\ job' = [job EXCEPT ![p] = j]
    BY <1>1, <1>2, <2>1, ContinueIs
  <2>3. IsJob(j) /\ job'[p] = j /\ \A q \in Procs : IsJob(job'[q])
    BY <1>1, <2>2, JobsTyped DEF Popped
  <2>4. ASSUME ~raced', formula > 0 PROVE KeepsServing(p)
    <3> SUFFICES ASSUME NEW e \in Entities PROVE Owed(e)'
      BY DEF KeepsServing
    <3>1. KindOf(t.e) \in Kinds
      BY DEF KindOf, Kinds
    <3>2. PICK q \in Procs : RunsOn[q] = RunsOn[p] /\ Announces(job[q])
      BY <1>1, <1>2, <1>4, <2>4, <3>1 DEF ComputedIInv, CacheFits
    <3>3. CASE q = p
      <4>1. Announces(j)
        BY <1>1, <1>2, <2>2, <3>2, <3>3, PopAnnounces DEF Top
      <4> QED
        BY <2>3, <4>1, AnnouncedOwes
    <3>4. CASE q # p
      <4>1. PICK w : w = job[q]
        OBVIOUS
      <4>2. job'[q] = w /\ IsJob(w)
        BY <1>1, <2>2, <2>3, <3>4, <4>1, JobsTyped
      <4> QED
        BY <3>2, <4>1, <4>2, AnnouncedOwes
    <3> QED
      BY <3>3, <3>4
  <2>5. (raced => raced') /\ raced' \in BOOLEAN /\ Top(p).k # "defined"
    BY <1>1, <1>2
  <2> QED
    BY <1>1, <1>2, <2>1, <2>2, <2>4, <2>5, PopStep
<1>5. CASE known[RunsOn[p]][KindOf(t.e)] # "no"
  <2>1. job' = [job EXCEPT ![p].ph = "schema", ![p].f = formula, ![p].stack = <<Marked(t)>> \o Tail(@)]
    BY <1>5 DEF ReadSchema
  <2>2. PICK m : m = Marked(t)
    OBVIOUS
  <2>3. m \in TaskRecs /\ m.k = t.k /\ m.e = t.e
    <3>1. SourceFingerprint(t.e) \in Nat
      BY <1>1, <1>3 DEF SourceFingerprint, Entities
    <3>2. PICK u \in [k : {"re", "stable", "confirm", "cascade"}, e : Entities, d : Nat, try : Nat, fp : Nat] : u = t
      BY <1>2, <1>3 DEF TaskRecs
    <3>3. PICK n \in Nat : n = SourceFingerprint(t.e)
      BY <3>1
    <3>4. m = u \/ m = [u EXCEPT !.fp = n]
      BY <2>2, <3>2, <3>3 DEF Marked
    <3>5. m \in [k : {"re", "stable", "confirm", "cascade"}, e : Entities, d : Nat, try : Nat, fp : Nat] /\ m.k = u.k /\ m.e = u.e
      BY <3>4
    <3> QED
      BY <3>2, <3>5 DEF TaskRecs
  <2>4. PICK s : s = <<m>> \o Tail(job[p].stack)
    OBVIOUS
  <2>5. /\ s \in Seq(TaskRecs) /\ s # << >> /\ Head(s) = m /\ Tail(s) = Tail(job[p].stack)
        /\ TasksIn(s) = {m} \cup TasksIn(Tail(job[p].stack))
    BY <1>3, <2>3, <2>4, StackPush
  <2>6. PICK v : v = job[p].val
    OBVIOUS
  <2>7. PICK fm \in Nat : fm = formula
    BY <1>1
  <2>8. PICK j : j = JobOf(s, "schema", fm, v)
    OBVIOUS
  <2>9. IsJob(j) /\ j.stack = s /\ j.ph = "schema" /\ j.f = fm
    <3>1. Head(s).k \in {"re", "stable"}
      BY <1>2, <2>3, <2>5
    <3> QED
      BY <2>5, <2>7, <2>8, <3>1, JobIs
  <2>10. job' = [job EXCEPT ![p] = j]
    <3>1. PICK o : o = job[p]
      OBVIOUS
    <3>2. o = [stack |-> o.stack, ph |-> o.ph, f |-> o.f, val |-> o.val]
      BY <1>1, <3>1 DEF IsJob
    <3>3. IsJob(o)
      BY <1>1, <3>1
    <3>4. Restaged(o, "schema", fm, s) = j
      BY <2>6, <2>8, <3>1, <3>3, JobChanged
    <3>5. IsMap(job, Procs)
      BY <1>1 DEF ComputedTypes
    <3>6. job' = [job EXCEPT ![p] = [o EXCEPT !.ph = "schema", !.f = fm, !.stack = s]]
      BY <2>1, <2>2, <2>4, <2>7, <3>1, <3>2, <3>5 DEF IsMap
    <3> QED
      BY <3>4, <3>6 DEF Restaged
  <2>11. job'[p] = j
    BY <1>1, <2>9, <2>10, JobsTyped
  <2>12. KeepsServing(p)
    <3> SUFFICES ASSUME NEW e \in Entities, Serves(job[p], e) PROVE Owed(e)'
      BY DEF KeepsServing
    <3>1. \A x : Helps(x, e) => Helps(x, e)'
      BY <1>2 DEF Helps
    <3>2. IsCurrent(j, e)'
      BY <1>2, <2>7, <2>9 DEF IsCurrent
    <3>3. Helps(Head(job[p].stack), e) => Helps(m, e)
      BY <1>2, <2>3 DEF Helps, Top
    <3>4. Serves(j, e)'
      BY <2>5, <2>9, <3>1, <3>2, <3>3 DEF Serves
    <3> QED
      BY <2>11, <3>4, OwnServes
  <2>13. Announces(job[p]) => Announces(j)
    <3>1. TasksIn(job[p].stack) = {t} \cup TasksIn(Tail(job[p].stack))
      BY <1>1, <1>3, StackTop DEF Top
    <3> QED
      BY <1>2, <2>5, <2>9, <3>1 DEF Announces
  <2>14. InputsStill /\ NoNewNo
    BY <1>2 DEF InputsStill, NoNewNo
  <2>15. StaleIsOwed'
    BY <1>2, <2>9, <2>10, <2>12, <2>14, TaskStep
  <2>16. CacheFits'
    BY <1>2, <2>9, <2>10, <2>13, <2>14, CacheStep
  <2>17. ComputedTypes'
    BY <1>1, <1>2, <2>9, <2>10, <2>14, TypesStep DEF ComputedTypes
  <2> QED
    BY <2>15, <2>16, <2>17 DEF ComputedIInv
<1> QED
  BY <1>4, <1>5

LEMMA ReadInputsStep ==
  ASSUME ComputedIInv, NEW p \in Procs, ReadInputs(p)
  PROVE  ComputedIInv'
<1>1. /\ ComputedTypes /\ IsJob(job[p]) /\ job[p].stack \in Seq(TaskRecs) /\ raced \in BOOLEAN /\ << >> \in Seq(TaskRecs)
      /\ RunsOn[p] \in Replicas /\ formula \in Nat /\ lost \in BOOLEAN
      /\ known \in [Replicas -> [Kinds -> {"yes", "no", "unknown"}]]
  BY JobAt, StackEmpty DEF ComputedIInv, ComputedTypes
<1> DEFINE t == Top(p)
<1>2. /\ Working(p) /\ job[p].ph = "schema"
      /\ known' = [known EXCEPT ![RunsOn[p]][KindOf(t.e)] = IF job[p].f > 0 THEN "yes" ELSE "no"]
      /\ raced' = (raced \/ (job[p].f = 0 /\ formula > 0))
      /\ UNCHANGED <<qty, qver, result, linked, formula, due, lost>>
  BY DEF ReadInputs
<1>3. job[p].f \in Nat /\ t.k \in {"re", "stable"} /\ job[p].stack # << >>
  BY <1>1, <1>2 DEF IsJob, Top
<1>4. known' \in [Replicas -> [Kinds -> {"yes", "no", "unknown"}]] /\ (job[p].f > 0 => NoNewNo)
  <2>1. KindOf(t.e) \in Kinds
    BY DEF KindOf, Kinds
  <2>2. PICK x \in {"yes", "no", "unknown"} : x = IF job[p].f > 0 THEN "yes" ELSE "no"
    OBVIOUS
  <2>3. known' = [known EXCEPT ![RunsOn[p]][KindOf(t.e)] = x]
    BY <1>2, <2>2
  <2>4. known' \in [Replicas -> [Kinds -> {"yes", "no", "unknown"}]]
    BY <1>1, <2>1, <2>3
  <2>5. ASSUME job[p].f > 0 PROVE NoNewNo
    BY <1>1, <2>1, <2>2, <2>3, <2>5 DEF NoNewNo
  <2> QED
    BY <2>4, <2>5
<1>5. InputsStill /\ raced' \in BOOLEAN /\ (raced => raced') /\ due \subseteq due'
  BY <1>1, <1>2 DEF InputsStill
<1>6. CASE job[p].f = 0
  <2>1. job' = Continue(p, << >>)
    BY <1>6 DEF ReadInputs
  <2>2. PICK j : Popped(p, j, << >>) /\ job' = [job EXCEPT ![p] = j]
    BY <1>1, <1>2, <2>1, ContinueIs
  <2>3. IsJob(j)
    BY <2>2 DEF Popped
  <2>4. ~(~raced' /\ formula > 0)
    BY <1>2, <1>6
  <2>5. Announces(job[p]) => Announces(j)
    BY <1>1, <1>2, <1>3, <2>2, PopAnnounces DEF Top
  <2>6. StaleIsOwed'
    BY <1>2, <1>5, <2>2, <2>3, <2>4, TaskStep
  <2>7. CacheFits'
    BY <1>2, <1>5, <2>2, <2>3, <2>4, <2>5, CacheStep
  <2>8. ComputedTypes'
    BY <1>1, <1>2, <1>4, <1>5, <2>2, <2>3, TypesStep DEF ComputedTypes
  <2> QED
    BY <2>6, <2>7, <2>8 DEF ComputedIInv
<1>7. CASE job[p].f > 0
  <2>1. job' = [job EXCEPT ![p].ph = "read", ![p].val = Result(t.e, job[p].f)]
    BY <1>7 DEF ReadInputs
  <2>2. PICK o : o = job[p]
    OBVIOUS
  <2>3. PICK v : v = Result(t.e, job[p].f)
    OBVIOUS
  <2>4. PICK j : j = JobOf(o.stack, "read", o.f, v)
    OBVIOUS
  <2>5. IsJob(j) /\ j.stack = o.stack /\ j.ph = "read" /\ j.f = o.f /\ j.val = v
    BY <1>1, <1>3, <2>2, <2>4, JobIs DEF Top
  <2>6. job' = [job EXCEPT ![p] = j]
    <3>1. o = [stack |-> o.stack, ph |-> o.ph, f |-> o.f, val |-> o.val]
      BY <1>1, <2>2 DEF IsJob
    <3>2. IsJob(o)
      BY <1>1, <2>2
    <3>3. Valued(o, "read", v) = j
      BY <2>4, <3>2, JobChanged
    <3>4. IsMap(job, Procs)
      BY <1>1 DEF ComputedTypes
    <3>5. job' = [job EXCEPT ![p] = [o EXCEPT !.ph = "read", !.val = v]]
      BY <2>1, <2>2, <2>3, <3>1, <3>4 DEF IsMap
    <3> QED
      BY <3>3, <3>5 DEF Valued
  <2>7. job'[p] = j
    BY <1>1, <2>5, <2>6, JobsTyped
  <2>8. KeepsServing(p)
    <3> SUFFICES ASSUME NEW e \in Entities, Serves(job[p], e) PROVE Owed(e)'
      BY DEF KeepsServing
    <3>1. \A x : Helps(x, e) => Helps(x, e)'
      BY <1>2 DEF Helps
    <3>2. ASSUME Helps(Head(job[p].stack), e), IsCurrent(job[p], e) PROVE IsCurrent(j, e)'
      <4>1. t.e = e
        BY <1>3, <3>2 DEF Helps, Top
      <4>2. job[p].f = formula \/ e = Dish
        BY <1>2, <3>2 DEF IsCurrent
      <4>3. v = Result(e, formula)
        BY <2>3, <4>1, <4>2 DEF Result
      <4>4. Result(e, formula)' = Result(e, formula)
        BY <1>5, InputsStillAll DEF Still
      <4> QED
        BY <2>5, <4>3, <4>4 DEF IsCurrent
    <3>3. Serves(j, e)'
      BY <2>2, <2>5, <3>1, <3>2 DEF Serves
    <3> QED
      BY <2>7, <3>3, OwnServes
  <2>9. Announces(job[p]) => Announces(j)
    BY <2>2, <2>5 DEF Announces
  <2>10. StaleIsOwed'
    BY <1>2, <1>5, <2>5, <2>6, <2>8, TaskStep
  <2>11. CacheFits'
    BY <1>2, <1>4, <1>5, <1>7, <2>5, <2>6, <2>9, CacheStep
  <2>12. ComputedTypes'
    BY <1>1, <1>2, <1>4, <1>5, <2>5, <2>6, TypesStep DEF ComputedTypes
  <2> QED
    BY <2>10, <2>11, <2>12 DEF ComputedIInv
<1> QED
  BY <1>3, <1>6, <1>7

\* The rollup depends on the linked lines alone.
LEMMA RollupStill ==
  ASSUME linked' = linked, \A l \in linked : result'[l] = result[l]
  PROVE  EvalRollup' = EvalRollup
<1> DEFINE cs == {l \in linked : result[l] # Undefined}
<1>1. {l \in linked' : result'[l] # Undefined} = cs
  OBVIOUS
<1>2. [l \in cs |-> result'[l]] = [l \in cs |-> result[l]]
  OBVIOUS
<1>3. PICK f : f = [l \in cs |-> result[l]]
  OBVIOUS
<1>4. EvalRollup = IF cs = {} THEN Undefined ELSE SumFunction(f)
  BY <1>3 DEF EvalRollup
<1>5. EvalRollup' = IF cs = {} THEN Undefined ELSE SumFunction(f)
  BY <1>1, <1>2, <1>3 DEF EvalRollup
<1> QED
  BY <1>4, <1>5

LEMMA StoreStep ==
  ASSUME ComputedIInv, NEW p \in Procs, Store(p)
  PROVE  ComputedIInv'
<1>1. /\ ComputedTypes /\ IsJob(job[p]) /\ job[p].stack \in Seq(TaskRecs) /\ raced \in BOOLEAN /\ << >> \in Seq(TaskRecs)
      /\ IsMap(result, Entities) /\ linked \subseteq Lines
  BY JobAt, StackEmpty DEF ComputedIInv, ComputedTypes
<1> DEFINE t == Top(p)
<1> DEFINE conf == IF t.k = "stable" THEN <<[t EXCEPT !.k = "confirm"]>> ELSE << >>
<1> DEFINE next == Nested(p, t.e, t.d) \o conf
<1>2. /\ Working(p) /\ job[p].ph = "read" /\ result' = [result EXCEPT ![t.e] = job[p].val]
      /\ job' = Continue(p, next)
      /\ UNCHANGED <<qty, qver, linked, formula, known, due, raced, lost>>
  BY DEF Store
<1>3. t.k \in {"re", "stable"} /\ job[p].stack # << >>
  BY <1>1, <1>2 DEF IsJob, Top
<1>4. PICK u \in [k : {"re", "stable", "confirm", "cascade"}, e : Entities, d : Nat, try : Nat, fp : Nat] : u = t
  <2>1. t \in TaskRecs
    BY <1>1, <1>3, StackTop DEF Top
  <2> QED
    BY <1>3, <2>1 DEF TaskRecs
<1>5. conf \in Seq(TaskRecs)
  <2>1. [u EXCEPT !.k = "confirm"] \in TaskRecs
    BY DEF TaskRecs
  <2> QED
    BY <1>1, <1>4, <2>1, StackFew
<1> DEFINE re == Task("re", u.e, u.d)
<1> DEFINE cas == Task("cascade", u.e, u.d)
<1>6. re \in TaskRecs /\ cas \in TaskRecs /\ re.k = "re" /\ re.e = u.e /\ cas.k = "cascade" /\ cas.e = u.e
  BY DEF Task, TaskRecs
<1>7. /\ Nested(p, t.e, t.d) \in Seq(TaskRecs)
      /\ job[p].val # result[t.e] => TasksIn(Nested(p, t.e, t.d)) = {re, cas}
  <2>1. Nested(p, t.e, t.d) = IF job[p].val = result[t.e] THEN << >> ELSE <<re, cas>>
    BY <1>4 DEF Nested
  <2> HIDE DEF re, cas
  <2>2. <<re, cas>> \in Seq(TaskRecs) /\ TasksIn(<<re, cas>>) = {re, cas}
    <3>1. re \in TaskRecs /\ cas \in TaskRecs
      BY <1>6
    <3> QED
      BY <3>1, TwoTasks
  <2>3. PICK w : w = <<re, cas>>
    OBVIOUS
  <2>4. w \in Seq(TaskRecs) /\ TasksIn(w) = {re, cas}
    BY <2>2, <2>3
  <2>5. PICK a : a = Nested(p, t.e, t.d)
    OBVIOUS
  <2>6. (job[p].val # result[t.e] => a = w) /\ (job[p].val = result[t.e] => a = << >>)
    BY <2>1, <2>3, <2>5
  <2>7. a \in Seq(TaskRecs) /\ (job[p].val # result[t.e] => TasksIn(a) = {re, cas})
    BY <1>1, <2>4, <2>6
  <2> QED
    BY <2>5, <2>7
<1> HIDE DEF re, cas
<1>8. next \in Seq(TaskRecs) /\ TasksIn(next) = TasksIn(Nested(p, t.e, t.d)) \cup TasksIn(conf)
  <2>1. PICK a \in Seq(TaskRecs), c \in Seq(TaskRecs) : a = Nested(p, t.e, t.d) /\ c = conf
    BY <1>5, <1>7
  <2>2. a \o c \in Seq(TaskRecs) /\ TasksIn(a \o c) = TasksIn(a) \cup TasksIn(c)
    BY StackOn
  <2> QED
    BY <2>1, <2>2
<1>9. PICK n \in Seq(TaskRecs) : n = next
  BY <1>8
<1>10. job[p].val # result[t.e] => re \in TasksIn(n) /\ cas \in TasksIn(n)
  BY <1>7, <1>8, <1>9
<1> HIDE DEF next, conf
<1>11. PICK j : Popped(p, j, n) /\ job' = [job EXCEPT ![p] = j]
  BY <1>1, <1>2, <1>9, ContinueIs
<1>12. IsJob(j) /\ job'[p] = j /\ j.ph = "go"
  BY <1>1, <1>11, JobsTyped DEF Popped
<1>13. CacheFits'
  <2>1. NoNewNo /\ (Announces(job[p]) => Announces(j))
    BY <1>1, <1>2, <1>3, <1>11, PopAnnounces DEF NoNewNo, Top
  <2> QED
    BY <1>2, <1>11, <1>12, <2>1, CacheStep
<1>14. IsMap(result, Entities)' /\ result'[u.e] = job[p].val /\ \A e \in Entities : e # u.e => result'[e] = result[e]
  BY <1>1, <1>2, <1>4 DEF IsMap
<1>15. ComputedTypes'
  BY <1>1, <1>2, <1>11, <1>12, <1>14, JobsTyped DEF ComputedTypes, IsMap
<1>16. \A e : Helps(Head(job[p].stack), e) => e = u.e
  BY <1>3, <1>4 DEF Helps, Top
<1>17. CASE job[p].val = result[t.e]
  <2>1. result' = result
    BY <1>1, <1>2, <1>4, <1>17 DEF IsMap
  <2>2. InputsStill
    BY <1>2, <2>1 DEF InputsStill
  <2>3. KeepsServing(p)
    <3> SUFFICES ASSUME NEW e \in Entities, Stale(e), Serves(job[p], e) PROVE Owed(e)'
      BY DEF KeepsServing
    <3>1. ~(Helps(Head(job[p].stack), e) /\ IsCurrent(job[p], e))
      <4> SUFFICES ASSUME Helps(Head(job[p].stack), e), IsCurrent(job[p], e) PROVE FALSE
        OBVIOUS
      <4>1. e = t.e /\ job[p].val = Result(e, formula)
        BY <1>2, <1>4, <1>16 DEF IsCurrent
      <4> QED
        BY <1>17, <4>1 DEF Stale
    <3>2. Serves(j, e)'
      BY <1>11, <2>2, <3>1, InputsStillAll, PopKeeps
    <3> QED
      BY <1>12, <3>2, OwnServes
  <2>4. StaleIsOwed'
    BY <1>2, <1>11, <1>12, <2>2, <2>3, TaskStep
  <2> QED
    BY <1>13, <1>15, <2>4 DEF ComputedIInv
<1>18. CASE job[p].val # result[t.e]
  <2>1. re \in TasksIn(j.stack) /\ cas \in TasksIn(j.stack)
    BY <1>10, <1>11, <1>18 DEF Popped
  <2>2. ASSUME ~raced', ~lost', formula' > 0, NEW e \in Entities, Stale(e)' PROVE Owed(e)'
    <3>1. CASE e = u.e
      <4>1. Helps(re, e)'
        BY <1>6, <3>1 DEF Helps
      <4>2. Serves(j, e)'
        BY <1>12, <2>1, <4>1, GoServes
      <4> QED
        BY <1>12, <4>2, OwnServes
    <3>2. CASE e # u.e /\ e = Dish /\ u.e \in linked
      <4>1. Helps(cas, e)'
        BY <1>2, <1>6, <3>2 DEF Helps
      <4>2. Serves(j, e)'
        BY <1>12, <2>1, <4>1, GoServes
      <4> QED
        BY <1>12, <4>2, OwnServes
    <3>3. CASE e # u.e /\ ~(e = Dish /\ u.e \in linked)
      <4>1. Result(e, formula)' = Result(e, formula)
        <5>1. CASE e = Dish
          <6>1. \A l \in linked : result'[l] = result[l]
            BY <1>1, <1>14, <3>3, <5>1 DEF Entities
          <6> QED
            BY <1>2, <5>1, <6>1, RollupStill DEF Result
        <5>2. CASE e # Dish
          BY <1>2, <5>2 DEF Result, EvalFormula
        <5> QED
          BY <5>1, <5>2
      <4>2. Still(e)
        BY <1>2, <4>1 DEF Still
      <4>3. Stale(e)
        BY <1>2, <1>14, <2>2, <3>3, <4>1 DEF Stale
      <4>4. Owed(e)
        BY <1>2, <2>2, <4>3 DEF ComputedIInv, StaleIsOwed
      <4>5. Serves(job[p], e) => Owed(e)'
        <5> SUFFICES ASSUME Serves(job[p], e) PROVE Owed(e)'
          OBVIOUS
        <5>1. ~Helps(Head(job[p].stack), e)
          BY <1>16, <3>3
        <5>2. Serves(j, e)'
          BY <1>11, <4>2, <5>1, PopKeeps
        <5> QED
          BY <1>12, <5>2, OwnServes
      <4>6. due \subseteq due'
        BY <1>2
      <4> QED
        BY <1>1, <1>11, <1>12, <4>2, <4>4, <4>5, <4>6, OwedStays
    <3> QED
      BY <3>1, <3>2, <3>3
  <2>3. StaleIsOwed'
    BY <2>2 DEF StaleIsOwed
  <2> QED
    BY <1>13, <1>15, <2>3 DEF ComputedIInv
<1> QED
  BY <1>17, <1>18

(* A request begins its work. *)

LEMMA StartIs ==
  ASSUME ComputedTypes, NEW p \in Procs, ~Working(p), NEW s \in Seq(TaskRecs), job' = [job EXCEPT ![p].stack = s]
  PROVE  \E j : IsJob(j) /\ j.ph = "go" /\ j.stack = s /\ job' = [job EXCEPT ![p] = j]
<1>1. IsJob(job[p]) /\ IsMap(job, Procs)
  BY DEF ComputedTypes
<1>2. job[p].ph = "go" /\ job[p].f \in Nat
  BY <1>1 DEF IsJob, Working
<1>3. PICK o : o = job[p]
  OBVIOUS
<1>4. Stacked(o, s) = JobOf(s, o.ph, o.f, o.val)
  BY <1>1, <1>3, JobChanged
<1>5. PICK j : j = JobOf(s, "go", o.f, o.val)
  OBVIOUS
<1>6. IsJob(j) /\ j.ph = "go" /\ j.stack = s
  BY <1>2, <1>3, <1>5, JobIs
<1>7. job' = [job EXCEPT ![p] = Stacked(o, s)]
  BY <1>1, <1>3 DEF IsMap, Stacked
<1> QED
  BY <1>2, <1>3, <1>4, <1>5, <1>6, <1>7

\* What an idle process does not serve others do.
LEMMA IdleStarts ==
  ASSUME ComputedTypes, NEW p \in Procs, ~Working(p), NEW j, IsJob(j), job' = [job EXCEPT ![p] = j], due \subseteq due',
         NEW e, Still(e), Owed(e)
  PROVE  Owed(e)'
  BY IdleServesNone, OwedStays

LEMMA WriteQtyStep ==
  ASSUME ComputedIInv, NEW p \in Procs, NEW l \in Lines, NEW v, WriteQty(p, l, v)
  PROVE  ComputedIInv'
<1>1. ComputedTypes /\ IsMap(qty, Lines) /\ qver \in [Lines -> Nat]
  BY DEF ComputedIInv, ComputedTypes
<1> DEFINE re == Task("re", l, 0)
<1> DEFINE cas == Task("cascade", l, 0)
<1>2. /\ ~Working(p) /\ qty' = [qty EXCEPT ![l] = v] /\ qver' = [qver EXCEPT ![l] = @ + 1]
      /\ job' = [job EXCEPT ![p].stack = <<re, cas>>]
      /\ UNCHANGED <<result, linked, formula, known, due, raced, lost>>
  BY DEF WriteQty
<1>3. re \in TaskRecs /\ cas \in TaskRecs /\ re.k = "re" /\ re.e = l
  BY DEF Task, TaskRecs, Entities
<1> HIDE DEF re, cas
<1>4. <<re, cas>> \in Seq(TaskRecs) /\ TasksIn(<<re, cas>>) = {re, cas}
  BY <1>3, StackFew
<1>5. PICK j : IsJob(j) /\ j.ph = "go" /\ j.stack = <<re, cas>> /\ job' = [job EXCEPT ![p] = j]
  BY <1>1, <1>2, <1>4, StartIs
<1>6. job'[p] = j
  BY <1>1, <1>5, JobsTyped
<1>7. CacheFits'
  <2>1. NoNewNo /\ ~Announces(job[p])
    BY <1>2, IdleServesNone DEF NoNewNo
  <2> QED
    BY <1>2, <1>5, <2>1, CacheStep
<1>8. IsMap(qty, Lines)' /\ qver' \in [Lines -> Nat] /\ \A x \in Lines : x # l => qty'[x] = qty[x]
  BY <1>1, <1>2 DEF IsMap
<1>9. ComputedTypes'
  BY <1>1, <1>2, <1>5, <1>8, JobsTyped DEF ComputedTypes, IsMap
<1>10. ASSUME ~raced', ~lost', formula' > 0, NEW e \in Entities, Stale(e)' PROVE Owed(e)'
  <2>1. CASE e = l
    <3>1. Helps(re, e)' /\ re \in TasksIn(j.stack)
      BY <1>3, <1>4, <1>5, <2>1 DEF Helps
    <3>2. Serves(j, e)'
      BY <1>5, <3>1, GoServes
    <3> QED
      BY <1>6, <3>2, OwnServes
  <2>2. CASE e # l
    <3>1. Result(e, formula)' = Result(e, formula)
      <4>1. CASE e = Dish
        BY <1>2, <4>1, RollupStill DEF Result
      <4>2. CASE e # Dish
        BY <1>2, <1>8, <2>2, <4>2 DEF Result, EvalFormula, Entities
      <4> QED
        BY <4>1, <4>2
    <3>2. Still(e) /\ Stale(e)
      BY <1>2, <1>10, <3>1 DEF Still, Stale
    <3>3. Owed(e)
      BY <1>2, <1>10, <3>2 DEF ComputedIInv, StaleIsOwed
    <3>4. due \subseteq due'
      BY <1>2
    <3> QED
      BY <1>1, <1>2, <1>5, <3>2, <3>3, <3>4, IdleStarts
  <2> QED
    BY <2>1, <2>2
<1>11. StaleIsOwed'
  BY <1>10 DEF StaleIsOwed
<1> QED
  BY <1>7, <1>9, <1>11 DEF ComputedIInv

LEMMA RelinkStep ==
  ASSUME ComputedIInv, NEW p \in Procs, NEW l \in Lines, Relink(p, l)
  PROVE  ComputedIInv'
<1>1. ComputedTypes /\ linked \subseteq Lines
  BY DEF ComputedIInv, ComputedTypes
<1> DEFINE re == Task("re", Dish, 0)
<1> DEFINE ln == Task("re", l, 0)
<1>2. /\ ~Working(p) /\ linked' = (IF l \in linked THEN linked \ {l} ELSE linked \cup {l})
      /\ job' = [job EXCEPT ![p].stack = <<re, ln>>]
      /\ UNCHANGED <<qty, qver, result, formula, known, due, raced, lost>>
  BY DEF Relink
<1>3. re \in TaskRecs /\ ln \in TaskRecs /\ re.k = "re" /\ re.e = Dish
  BY DEF Task, TaskRecs, Entities
<1> HIDE DEF re, ln
<1>4. <<re, ln>> \in Seq(TaskRecs) /\ TasksIn(<<re, ln>>) = {re, ln}
  BY <1>3, StackFew
<1>5. PICK j : IsJob(j) /\ j.ph = "go" /\ j.stack = <<re, ln>> /\ job' = [job EXCEPT ![p] = j]
  BY <1>1, <1>2, <1>4, StartIs
<1>6. job'[p] = j
  BY <1>1, <1>5, JobsTyped
<1>7. CacheFits'
  <2>1. NoNewNo /\ ~Announces(job[p])
    BY <1>2, IdleServesNone DEF NoNewNo
  <2> QED
    BY <1>2, <1>5, <2>1, CacheStep
<1>8. linked' \subseteq Lines
  BY <1>1, <1>2
<1>9. ComputedTypes'
  BY <1>1, <1>2, <1>5, <1>8, JobsTyped DEF ComputedTypes, IsMap
<1>10. ASSUME ~raced', ~lost', formula' > 0, NEW e \in Entities, Stale(e)' PROVE Owed(e)'
  <2>1. CASE e = Dish
    <3>1. Helps(re, e)' /\ re \in TasksIn(j.stack)
      BY <1>3, <1>4, <1>5, <2>1 DEF Helps
    <3>2. Serves(j, e)'
      BY <1>5, <3>1, GoServes
    <3> QED
      BY <1>6, <3>2, OwnServes
  <2>2. CASE e # Dish
    <3>1. Result(e, formula)' = Result(e, formula)
      BY <1>2, <2>2 DEF Result, EvalFormula
    <3>2. Still(e) /\ Stale(e)
      BY <1>2, <1>10, <2>2, <3>1 DEF Still, Stale
    <3>3. Owed(e)
      BY <1>2, <1>10, <3>2 DEF ComputedIInv, StaleIsOwed
    <3>4. due \subseteq due'
      BY <1>2
    <3> QED
      BY <1>1, <1>2, <1>5, <3>2, <3>3, <3>4, IdleStarts
  <2> QED
    BY <2>1, <2>2
<1>11. StaleIsOwed'
  BY <1>10 DEF StaleIsOwed
<1> QED
  BY <1>7, <1>9, <1>11 DEF ComputedIInv

LEMMA EditFormulaStep ==
  ASSUME ComputedIInv, NEW p \in Procs, EditFormula(p)
  PROVE  ComputedIInv'
<1>1. ComputedTypes /\ formula \in Nat /\ raced \in BOOLEAN /\ RunsOn[p] \in Replicas
  BY JobAt DEF ComputedIInv, ComputedTypes
<1> DEFINE d == Task("defined", IF formula = 0 THEN Dish ELSE "none", 0)
<1>2. /\ ~Working(p) /\ formula' = formula + 1
      /\ job' = [job EXCEPT ![p].stack = <<d>>]
      /\ raced' = (raced \/ \E r \in Replicas \ {RunsOn[p]}, k \in Kinds : known[r][k] = "no")
      /\ UNCHANGED <<qty, qver, result, linked, known, due, lost>>
  BY DEF EditFormula
<1>3. d \in TaskRecs /\ d.k = "defined" /\ (formula = 0 => d.e = Dish)
  BY DEF Task, TaskRecs
<1> HIDE DEF d
<1>4. PICK b \in TaskRecs : b = d
  BY <1>3
<1>5. PICK s \in Seq(TaskRecs) : s = <<b>> /\ TasksIn(s) = {b}
  BY StackFew
<1>6. job' = [job EXCEPT ![p].stack = s]
  BY <1>2, <1>4, <1>5
<1>7. PICK j : IsJob(j) /\ j.ph = "go" /\ j.stack = s /\ job' = [job EXCEPT ![p] = j]
  BY <1>1, <1>2, <1>6, StartIs
<1>8. job'[p] = j /\ \A q \in Procs : q # p => job'[q] = job[q]
  BY <1>1, <1>7, JobsTyped
<1>9. raced' \in BOOLEAN /\ (raced => raced') /\ formula' \in Nat
  BY <1>1, <1>2
<1>10. ComputedTypes'
  BY <1>1, <1>2, <1>7, <1>9, JobsTyped DEF ComputedTypes, IsMap
<1>11. CacheFits'
  <2> SUFFICES ASSUME ~raced', NEW r \in Replicas, NEW k \in Kinds, known'[r][k] = "no"
               PROVE  \E q \in Procs : RunsOn[q] = r /\ Announces(job'[q])
    BY DEF CacheFits, Announces
  <2>1. CASE formula = 0
    <3>1. r = RunsOn[p]
      BY <1>2, <1>1
    <3>2. Announces(j)
      BY <1>3, <1>4, <1>5, <1>7, <2>1 DEF Announces
    <3> QED
      BY <1>8, <3>1, <3>2
  <2>2. CASE formula # 0
    <3>1. formula > 0 /\ ~raced /\ known[r][k] = "no"
      BY <1>1, <1>2, <1>9, <2>2
    <3>2. PICK q \in Procs : RunsOn[q] = r /\ Announces(job[q])
      BY <3>1 DEF ComputedIInv, CacheFits
    <3>3. q # p
      BY <1>2, <3>2, IdleServesNone
    <3> QED
      BY <1>8, <3>2, <3>3
  <2> QED
    BY <2>1, <2>2
<1>12. ASSUME ~raced', ~lost', NEW e \in Entities, Stale(e)' PROVE Owed(e)'
  <2>1. CASE e # Dish \/ formula = 0
    <3>1. Helps(b, e)' /\ b \in TasksIn(j.stack)
      BY <1>3, <1>4, <1>5, <1>7, <2>1 DEF Helps
    <3>2. Serves(j, e)'
      BY <1>7, <3>1, GoServes
    <3> QED
      BY <1>8, <3>2, OwnServes
  <2>2. CASE e = Dish /\ formula # 0
    <3>1. /\ Result(e, formula) = EvalRollup /\ Result(e, formula)' = EvalRollup' /\ EvalRollup' = EvalRollup
      BY <1>2, <2>2, RollupStill DEF Result
    <3>2. Stale(e) /\ formula > 0 /\ ~raced /\ ~lost
      BY <1>1, <1>2, <1>9, <1>12, <2>2, <3>1 DEF Stale
    <3>3. Owed(e)
      BY <3>2 DEF ComputedIInv, StaleIsOwed
    <3>4. CASE \E t \in due : t.kind = KindOf(e)
      BY <1>2, <3>4 DEF Owed, KindOf
    <3>5. CASE \E q \in Procs : Serves(job[q], e)
      <4>1. PICK q \in Procs : Serves(job[q], e)
        BY <3>5
      <4>2. q # p
        BY <1>2, <4>1, IdleServesNone
      <4>3. PICK w : w = job[q]
        OBVIOUS
      <4>4. \A x : Helps(x, e) => Helps(x, e)'
        BY <1>2 DEF Helps
      <4>5. IsCurrent(w, e) => IsCurrent(w, e)'
        BY <1>1, <2>2, <3>1, <3>2 DEF IsCurrent
      <4>6. Serves(w, e)'
        BY <4>1, <4>3, <4>4, <4>5 DEF Serves
      <4>7. job'[q] = w
        BY <1>8, <4>2, <4>3
      <4> QED
        BY <4>6, <4>7, OwnServes
    <3> QED
      BY <3>3, <3>4, <3>5 DEF Owed
  <2> QED
    BY <2>1, <2>2
<1>13. StaleIsOwed'
  BY <1>12 DEF StaleIsOwed
<1> QED
  BY <1>10, <1>11, <1>13 DEF ComputedIInv

\* A stale entity holds something, so that a rebuild lists it.
LEMMA StaleIsMember ==
  ASSUME NEW e \in Entities, Stale(e)
  PROVE  e \in Members(KindOf(e))
<1>1. CASE e = Dish
  BY <1>1 DEF Members, KindOf
<1>2. CASE e # Dish
  <2>1. e \in Lines /\ KindOf(e) = "line"
    BY <1>2 DEF Entities, KindOf
  <2>2. qty[e] # Undefined \/ result[e] # Undefined
    BY <1>2 DEF Stale, Result, EvalFormula
  <2> QED
    BY <2>1, <2>2 DEF Members
<1> QED
  BY <1>1, <1>2

LEMMA MembersTyped ==
  ASSUME NEW k
  PROVE  Members(k) \in SUBSET Entities
  BY DEF Members, Entities

LEMMA StartRebuildStep ==
  ASSUME ComputedIInv, NEW p \in Procs, NEW t \in due, StartRebuild(p, t)
  PROVE  ComputedIInv'
<1>1. /\ ComputedTypes /\ t.rep \in Replicas /\ t.kind \in Kinds /\ formula \in Nat
      /\ known \in [Replicas -> [Kinds -> {"yes", "no", "unknown"}]] /\ due \subseteq [rep : Replicas, kind : Kinds]
  BY DEF ComputedIInv, ComputedTypes
<1> DEFINE has == IF known[t.rep][t.kind] # "unknown" THEN known[t.rep][t.kind] ELSE IF formula > 0 THEN "yes" ELSE "no"
<1>2. /\ ~Working(p) /\ due' = due \ {t} /\ known' = [known EXCEPT ![t.rep][t.kind] = has]
      /\ job' = IF has = "no" THEN job ELSE [job EXCEPT ![p].stack = RebuildTasks(Members(t.kind))]
      /\ UNCHANGED <<qty, qver, result, linked, formula, raced, lost>>
  BY DEF StartRebuild
<1>3. PICK h \in {"yes", "no", "unknown"} : h = has /\ (h = "no" /\ formula > 0 => known[t.rep][t.kind] = "no")
  BY <1>1
<1>4. known' = [known EXCEPT ![t.rep][t.kind] = h]
  BY <1>2, <1>3
<1>5. known' \in [Replicas -> [Kinds -> {"yes", "no", "unknown"}]] /\ (formula > 0 => NoNewNo)
  BY <1>1, <1>3, <1>4 DEF NoNewNo
<1> HIDE DEF has
<1>6. InputsStill /\ due' \subseteq [rep : Replicas, kind : Kinds]
  BY <1>1, <1>2 DEF InputsStill
<1>7. PICK s \in Seq(TaskRecs) : s = RebuildTasks(Members(t.kind)) /\ TasksIn(s) = {Task("stable", e, 0) : e \in Members(t.kind)}
  <2>1. Members(t.kind) \in SUBSET Entities
    BY MembersTyped
  <2> QED
    BY <2>1, TaskList DEF RebuildTasks
<1>8. PICK j : /\ IsJob(j) /\ job' = [job EXCEPT ![p] = j]
               /\ h = "no" \/ (j.ph = "go" /\ j.stack = s)
  <2>1. CASE h = "no"
    <3>1. PICK o : o = job[p]
      OBVIOUS
    <3>2. IsJob(o) /\ IsMap(job, Procs)
      BY <1>1, <3>1 DEF ComputedTypes
    <3>3. job' = [job EXCEPT ![p] = o]
      BY <1>2, <1>3, <2>1, <3>1, <3>2 DEF IsMap
    <3> QED
      BY <2>1, <3>2, <3>3
  <2>2. CASE h # "no"
    <3>1. job' = [job EXCEPT ![p].stack = s]
      BY <1>2, <1>3, <1>7, <2>2
    <3>2. ComputedTypes /\ ~Working(p) /\ s \in Seq(TaskRecs)
      BY <1>1, <1>2
    <3>3. \E j : IsJob(j) /\ j.ph = "go" /\ j.stack = s /\ job' = [job EXCEPT ![p] = j]
      BY <3>1, <3>2, StartIs
    <3> QED
      BY <3>3
  <2> QED
    BY <2>1, <2>2
<1>9. job'[p] = j /\ \A q \in Procs : (q # p => job'[q] = job[q]) /\ IsJob(job'[q])
  BY <1>1, <1>8, JobsTyped
<1>10. ~Announces(job[p]) /\ \A e : ~Serves(job[p], e)
  BY <1>2, IdleServesNone
<1>11. CacheFits'
  BY <1>2, <1>5, <1>8, <1>10, CacheStep
<1>12. ComputedTypes'
  BY <1>1, <1>2, <1>5, <1>6, <1>8, TypesStep DEF ComputedTypes
<1>13. ASSUME ~raced', ~lost', formula' > 0, NEW e \in Entities, Stale(e)' PROVE Owed(e)'
  <2>1. Still(e) /\ Stale(e) /\ ~raced /\ ~lost /\ formula > 0
    BY <1>2, <1>6, <1>13, InputsStillAll
  <2>2. CASE h = "no"
    <3>1. PICK q \in Procs : RunsOn[q] = t.rep /\ Announces(job[q])
      BY <1>1, <1>3, <2>1, <2>2 DEF ComputedIInv, CacheFits
    <3>2. PICK w : w = job[q]
      OBVIOUS
    <3>3. job'[q] = w /\ IsJob(w) /\ Announces(w)
      BY <1>9, <1>10, <3>1, <3>2
    <3> QED
      BY <3>3, AnnouncedOwes
  <2>3. CASE h # "no" /\ KindOf(e) = t.kind
    <3>1. e \in Members(t.kind)
      BY <2>1, <2>3, StaleIsMember
    <3>2. PICK x : x = Task("stable", e, 0)
      OBVIOUS
    <3>3. x \in TasksIn(j.stack) /\ j.ph = "go"
      BY <1>7, <1>8, <2>3, <3>1, <3>2
    <3>4. Helps(x, e)'
      BY <3>2 DEF Helps, Task
    <3>5. Serves(j, e)'
      BY <1>8, <3>3, <3>4, GoServes
    <3> QED
      BY <1>9, <3>5, OwnServes
  <2>4. CASE KindOf(e) # t.kind
    <3>1. Owed(e)
      BY <2>1 DEF ComputedIInv, StaleIsOwed
    <3>2. CASE \E t2 \in due : t2.kind = KindOf(e)
      <4>1. PICK t2 \in due : t2.kind = KindOf(e)
        BY <3>2
      <4>2. t2 \in due'
        BY <1>2, <2>4, <4>1
      <4> QED
        BY <4>1, <4>2 DEF Owed, KindOf
    <3>3. CASE \E q \in Procs : Serves(job[q], e)
      <4>1. PICK q \in Procs : Serves(job[q], e)
        BY <3>3
      <4>2. PICK w : w = job[q]
        OBVIOUS
      <4>3. job'[q] = w
        BY <1>9, <1>10, <4>1, <4>2
      <4>4. Serves(w, e)'
        BY <2>1, <4>1, <4>2, ServesStill
      <4> QED
        BY <4>3, <4>4, OwnServes
    <3> QED
      BY <3>1, <3>2, <3>3 DEF Owed
  <2> QED
    BY <2>2, <2>3, <2>4
<1>14. StaleIsOwed'
  BY <1>13 DEF StaleIsOwed
<1> QED
  BY <1>11, <1>12, <1>14 DEF ComputedIInv

LEMMA RecomputeTenantStep ==
  ASSUME ComputedIInv, NEW p \in Procs, RecomputeTenant(p)
  PROVE  ComputedIInv'
<1>1. ComputedTypes /\ formula \in Nat /\ RunsOn[p] \in Replicas /\ << >> \in Seq(TaskRecs)
  BY JobAt, StackEmpty DEF ComputedIInv, ComputedTypes
<1> DEFINE has(k) == known[RunsOn[p]][k] # "no" /\ formula > 0
<1> DEFINE of(k) == IF has(k) THEN Tasks("re", Members(k), 0) ELSE << >>
<1>2. /\ ~Working(p) /\ job' = [job EXCEPT ![p].stack = of("dish") \o of("line")] /\ lost' = FALSE
      /\ UNCHANGED <<qty, qver, result, linked, formula, known, due, raced>>
  BY DEF RecomputeTenant
<1>3. ASSUME NEW k PROVE /\ of(k) \in Seq(TaskRecs)
                         /\ has(k) => TasksIn(of(k)) = {Task("re", e, 0) : e \in Members(k)}
  <2>1. Tasks("re", Members(k), 0) \in Seq(TaskRecs) /\ TasksIn(Tasks("re", Members(k), 0)) = {Task("re", e, 0) : e \in Members(k)}
    <3>1. Members(k) \in SUBSET Entities
      BY MembersTyped
    <3> QED
      BY <3>1, TaskList
  <2> QED
    BY <1>1, <2>1
<1>4. PICK a \in Seq(TaskRecs), b \in Seq(TaskRecs) : a = of("dish") /\ b = of("line")
  BY <1>3
<1>5. /\ has("dish") => TasksIn(a) = {Task("re", e, 0) : e \in Members("dish")}
      /\ has("line") => TasksIn(b) = {Task("re", e, 0) : e \in Members("line")}
  BY <1>3, <1>4
<1>6. PICK s \in Seq(TaskRecs) : s = a \o b /\ TasksIn(s) = TasksIn(a) \cup TasksIn(b)
  BY StackOn
<1>7. job' = [job EXCEPT ![p].stack = s]
  BY <1>2, <1>4, <1>6
<1> HIDE DEF of
<1>8. PICK j : IsJob(j) /\ j.ph = "go" /\ j.stack = s /\ job' = [job EXCEPT ![p] = j]
  BY <1>1, <1>2, <1>7, StartIs
<1>9. job'[p] = j /\ \A q \in Procs : (q # p => job'[q] = job[q]) /\ IsJob(job'[q])
  BY <1>1, <1>8, JobsTyped
<1>10. ~Announces(job[p])
  BY <1>2, IdleServesNone
<1>11. CacheFits'
  <2>1. NoNewNo
    BY <1>2 DEF NoNewNo
  <2> QED
    BY <1>2, <1>8, <1>10, <2>1, CacheStep
<1>12. InputsStill
  BY <1>2 DEF InputsStill
<1>13. ComputedTypes'
  BY <1>1, <1>2, <1>8, <1>12, TypesStep DEF ComputedTypes
<1>14. ASSUME ~raced', formula' > 0, NEW e \in Entities, Stale(e)' PROVE Owed(e)'
  <2>1. Stale(e) /\ ~raced /\ formula > 0
    BY <1>2, <1>12, <1>14, InputsStillAll
  <2>2. KindOf(e) \in Kinds
    BY DEF KindOf, Kinds
  <2>3. CASE known[RunsOn[p]][KindOf(e)] = "no"
    <3>1. PICK q \in Procs : RunsOn[q] = RunsOn[p] /\ Announces(job[q])
      BY <1>1, <2>1, <2>2, <2>3 DEF ComputedIInv, CacheFits
    <3>2. PICK w : w = job[q]
      OBVIOUS
    <3>3. job'[q] = w /\ IsJob(w) /\ Announces(w)
      BY <1>9, <1>10, <3>1, <3>2
    <3> QED
      BY <3>3, AnnouncedOwes
  <2>4. CASE known[RunsOn[p]][KindOf(e)] # "no"
    <3>1. e \in Members(KindOf(e)) /\ has(KindOf(e))
      BY <2>1, <2>4, StaleIsMember
    <3>2. PICK x : x = Task("re", e, 0)
      OBVIOUS
    <3>3. x \in TasksIn(s)
      <4>1. CASE KindOf(e) = "dish"
        BY <1>5, <1>6, <3>1, <3>2, <4>1
      <4>2. CASE KindOf(e) = "line"
        BY <1>5, <1>6, <3>1, <3>2, <4>2
      <4> QED
        BY <2>2, <4>1, <4>2 DEF Kinds
    <3>4. Helps(x, e)'
      BY <3>2 DEF Helps, Task
    <3>5. Serves(j, e)'
      BY <1>8, <3>3, <3>4, GoServes
    <3> QED
      BY <1>9, <3>5, OwnServes
  <2> QED
    BY <2>3, <2>4
<1>15. StaleIsOwed'
  BY <1>14 DEF StaleIsOwed
<1> QED
  BY <1>11, <1>13, <1>15 DEF ComputedIInv

LEMMA ReplicaDiesStep ==
  ASSUME ComputedIInv, NEW r \in Replicas, ReplicaDies(r)
  PROVE  ComputedIInv'
<1>1. /\ ComputedTypes /\ lost \in BOOLEAN /\ due \subseteq [rep : Replicas, kind : Kinds]
      /\ known \in [Replicas -> [Kinds -> {"yes", "no", "unknown"}]] /\ << >> \in Seq(TaskRecs)
  BY StackEmpty DEF ComputedIInv, ComputedTypes
<1>2. /\ lost' = (lost \/ (\E p \in Procs : RunsOn[p] = r /\ Working(p)) \/ \E t \in due : t.rep = r)
      /\ job' = [p \in Procs |-> IF RunsOn[p] = r THEN Resting ELSE job[p]]
      /\ due' = {t \in due : t.rep # r}
      /\ known' = [known EXCEPT ![r] = [k \in Kinds |-> "unknown"]]
      /\ UNCHANGED <<qty, qver, result, linked, formula, raced>>
  BY DEF ReplicaDies, Invalidate
<1>3. IsJob(Resting)
  <2>1. Resting = JobOf(<< >>, "go", 0, Undefined)
    BY DEF Resting, JobOf
  <2>2. IsJob(JobOf(<< >>, "go", 0, Undefined))
    BY <1>1, JobIs
  <2> QED
    BY <2>1, <2>2
<1>4. \A p \in Procs : job'[p] = IF RunsOn[p] = r THEN Resting ELSE job[p]
  BY <1>2
<1>5. IsMap(job, Procs)' /\ \A p \in Procs : IsJob(job'[p])
  <2>1. \A p \in Procs : IsJob(job[p])
    BY <1>1 DEF ComputedTypes
  <2>2. job' = [p \in Procs |-> job'[p]]
    BY <1>2
  <2> QED
    BY <1>3, <1>4, <2>1, <2>2 DEF IsMap
<1>6. known' \in [Replicas -> [Kinds -> {"yes", "no", "unknown"}]]
  BY <1>1, <1>2
<1>7. due' \subseteq [rep : Replicas, kind : Kinds] /\ lost' \in BOOLEAN
  BY <1>1, <1>2
<1>8. ComputedTypes'
  BY <1>1, <1>2, <1>5, <1>6, <1>7 DEF ComputedTypes, IsMap
<1>9. CacheFits'
  <2> SUFFICES ASSUME ~raced', formula' > 0, NEW x \in Replicas, NEW k \in Kinds, known'[x][k] = "no"
               PROVE  \E q \in Procs : RunsOn[q] = x /\ Announces(job'[q])
    BY DEF CacheFits, Announces
  <2>1. x # r /\ known[x][k] = "no" /\ ~raced /\ formula > 0
    BY <1>1, <1>2
  <2>2. PICK q \in Procs : RunsOn[q] = x /\ Announces(job[q])
    BY <2>1 DEF ComputedIInv, CacheFits
  <2> QED
    BY <1>4, <2>1, <2>2
<1>10. ASSUME ~raced', ~lost', formula' > 0, NEW e \in Entities, Stale(e)' PROVE Owed(e)'
  <2>1. InputsStill
    BY <1>2 DEF InputsStill
  <2>2. Still(e) /\ Stale(e)
    BY <1>10, <2>1, InputsStillAll
  <2>3. /\ ~raced /\ ~lost /\ formula > 0
        /\ \A p \in Procs : RunsOn[p] = r => ~Working(p)
        /\ \A t \in due : t.rep # r
    BY <1>1, <1>2, <1>10
  <2>4. Owed(e)
    BY <2>2, <2>3 DEF ComputedIInv, StaleIsOwed
  <2>5. CASE \E t \in due : t.kind = KindOf(e)
    <3>1. due' = due
      BY <1>2, <2>3
    <3> QED
      BY <2>5, <3>1 DEF Owed, KindOf
  <2>6. CASE \E q \in Procs : Serves(job[q], e)
    <3>1. PICK q \in Procs : Serves(job[q], e)
      BY <2>6
    <3>2. RunsOn[q] # r
      BY <2>3, <3>1, IdleServesNone
    <3>3. PICK w : w = job[q]
      OBVIOUS
    <3>4. job'[q] = w
      BY <1>4, <3>2, <3>3
    <3>5. Serves(w, e)'
      BY <2>2, <3>1, <3>3, ServesStill
    <3> QED
      BY <3>4, <3>5, OwnServes
  <2> QED
    BY <2>4, <2>5, <2>6 DEF Owed
<1>11. StaleIsOwed'
  BY <1>10 DEF StaleIsOwed
<1> QED
  BY <1>8, <1>9, <1>11 DEF ComputedIInv

LEMMA ComputedStutters ==
  ASSUME ComputedIInv, UNCHANGED computedVars
  PROVE  ComputedIInv'
<1>1. /\ qty' = qty /\ qver' = qver /\ result' = result /\ linked' = linked /\ formula' = formula
      /\ known' = known /\ job' = job /\ due' = due /\ raced' = raced /\ lost' = lost
  BY DEF computedVars
<1>2. ComputedTypes'
  <2>1. ComputedTypes
    BY DEF ComputedIInv
  <2>2. \A p \in Procs : IsJob(job'[p])
    BY <1>1, <2>1 DEF ComputedTypes
  <2>3. IsMap(qty', Lines) /\ IsMap(result', Entities) /\ IsMap(job', Procs)
    BY <1>1, <2>1 DEF ComputedTypes
  <2> QED
    BY <1>1, <2>1, <2>2, <2>3 DEF ComputedTypes, IsMap
<1>3. CacheFits'
  BY <1>1 DEF ComputedIInv, CacheFits, Announces
<1>4. ASSUME ~raced', ~lost', formula' > 0, NEW e \in Entities, Stale(e)' PROVE Owed(e)'
  <2>1. InputsStill
    BY <1>1 DEF InputsStill
  <2>2. Still(e) /\ Stale(e)
    BY <1>4, <2>1, InputsStillAll
  <2>3. Owed(e)
    BY <1>1, <1>4, <2>2 DEF ComputedIInv, StaleIsOwed
  <2>4. CASE \E t \in due : t.kind = KindOf(e)
    BY <1>1, <2>4 DEF Owed, KindOf
  <2>5. CASE \E q \in Procs : Serves(job[q], e)
    <3>1. PICK q \in Procs : Serves(job[q], e)
      BY <2>5
    <3>2. PICK w : w = job[q]
      OBVIOUS
    <3>3. job'[q] = w
      BY <1>1, <3>2
    <3>4. Serves(w, e)'
      BY <2>2, <3>1, <3>2, ServesStill
    <3> QED
      BY <3>3, <3>4, OwnServes
  <2> QED
    BY <2>3, <2>4, <2>5 DEF Owed
<1>5. StaleIsOwed'
  BY <1>4 DEF StaleIsOwed
<1> QED
  BY <1>2, <1>3, <1>5 DEF ComputedIInv

LEMMA ComputedStart == ComputedInit => ComputedIInv
<1> SUFFICES ASSUME ComputedInit PROVE ComputedIInv
  OBVIOUS
<1>1. /\ qty = [l \in Lines |-> 1] /\ qver = [l \in Lines |-> 0] /\ result = [e \in Entities |-> Undefined]
      /\ linked = Lines /\ formula = 0 /\ known = [r \in Replicas |-> [k \in Kinds |-> "unknown"]]
      /\ job = [p \in Procs |-> Resting] /\ due = {} /\ raced = FALSE /\ lost = FALSE
  BY DEF ComputedInit
<1>2. IsJob(Resting)
  <2>1. Resting = JobOf(<< >>, "go", 0, Undefined)
    BY DEF Resting, JobOf
  <2>2. IsJob(JobOf(<< >>, "go", 0, Undefined))
    BY StackEmpty, JobIs
  <2> QED
    BY <2>1, <2>2
<1>3. IsMap(qty, Lines) /\ IsMap(result, Entities) /\ IsMap(job, Procs) /\ \A p \in Procs : IsJob(job[p])
  BY <1>1, <1>2 DEF IsMap
<1>4. ComputedTypes
  BY <1>1, <1>3 DEF ComputedTypes
<1> QED
  BY <1>1, <1>4 DEF ComputedIInv, StaleIsOwed, CacheFits

\* When all work is done, every materialized value is what its definition says
\* of the inputs, for any replicas, requests, background rebuilds, lines,
\* quantities and bounds: as long as no cache was left saying that there is no
\* definition, no bound of the code cut a recompute short and no replica died
\* with work left that nobody has recomputed since.
THEOREM ComputedConverges == ComputedSpec => []Converged
<1>1. ComputedIInv /\ [ComputedNext]_computedVars => ComputedIInv'
  <2> SUFFICES ASSUME ComputedIInv, [ComputedNext]_computedVars PROVE ComputedIInv'
    OBVIOUS
  <2>1. Writers2 \subseteq Procs /\ Rebuilders \subseteq Procs
    BY DEF Procs
  <2>2. CASE \E p \in Writers2 : \E l \in Lines : Relink(p, l)
    BY <2>1, <2>2, RelinkStep
  <2>3. CASE \E p \in Writers2 : \E l \in Lines : \E v \in Quantities \cup {Undefined} : WriteQty(p, l, v)
    BY <2>1, <2>3, WriteQtyStep
  <2>4. CASE \E p \in Writers2 : EditFormula(p)
    BY <2>1, <2>4, EditFormulaStep
  <2>5. CASE \E p \in Writers2 : HandleDefinition(p)
    BY <2>1, <2>5, HandleDefinitionStep
  <2>6. CASE \E p \in Writers2 : RecomputeTenant(p)
    BY <2>1, <2>6, RecomputeTenantStep
  <2>7. CASE \E p \in Rebuilders, t \in due : StartRebuild(p, t)
    BY <2>1, <2>7, StartRebuildStep
  <2>8. CASE \E p \in Procs : ReadSchema(p)
    BY <2>8, ReadSchemaStep
  <2>9. CASE \E p \in Procs : ReadInputs(p)
    BY <2>9, ReadInputsStep
  <2>10. CASE \E p \in Procs : Store(p)
    BY <2>10, StoreStep
  <2>11. CASE \E p \in Procs : Confirm(p)
    BY <2>11, ConfirmStep
  <2>12. CASE \E p \in Procs : CascadeToNeighbours(p)
    BY <2>12, CascadeStep
  <2>13. CASE \E r \in Replicas : ReplicaDies(r)
    BY <2>13, ReplicaDiesStep
  <2>14. CASE UNCHANGED computedVars
    BY <2>14, ComputedStutters
  <2> QED
    BY <2>2, <2>3, <2>4, <2>5, <2>6, <2>7, <2>8, <2>9, <2>10, <2>11, <2>12, <2>13, <2>14 DEF ComputedNext
<1>2. ComputedIInv => Converged
  <2> SUFFICES ASSUME ComputedIInv, Quiet, ~raced, ~lost, formula > 0, NEW e \in Entities PROVE result[e] = Result(e, formula)
    BY DEF Converged
  <2>1. \A p \in Procs : ~Serves(job[p], e)
    BY IdleServesNone DEF Quiet
  <2>2. ~Owed(e)
    BY <2>1 DEF Owed, Quiet
  <2> QED
    BY <2>2 DEF ComputedIInv, StaleIsOwed, Stale
<1> QED
  BY <1>1, <1>2, ComputedStart, PTL DEF ComputedSpec
===========================================================================

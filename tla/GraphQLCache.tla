---------------------------- MODULE GraphQLCache ----------------------------
(***************************************************************************)
(* The GraphQL engine of one replica: a memo of the tenant's persisted     *)
(* schema version, trusted for MemoTTL ticks, and a least-recently-used    *)
(* cache of built schemas keyed by the caller's access.  Definitions are   *)
(* changed here (with an event) or on another replica (without one); a row *)
(* trigger bumps the version in the changing transaction.                  *)
(***************************************************************************)
EXTENDS Naturals, Sequences, FiniteSets

CONSTANTS
    Callers,      \* requests in flight
    Accesses,     \* access policies: [admin, default, attr]
    GqlAttrs,     \* attribute names
    MemoTTL, CacheCap,
    MaxTick, MaxVersion

ASSUME GqlAssumption ==
    /\ MemoTTL \in Nat \ {0} /\ CacheCap \in Nat /\ MaxTick \in Nat
    /\ \A a \in Accesses : a.admin \in BOOLEAN

VARIABLES
    version,    \* persisted schema version
    versionAt,  \* history: the version when each tick began
    tick,
    memo,       \* [version, at], or NoMemo
    lru,        \* cache entries, most recently used first: [key, gen, schema]
    req,        \* caller -> request
    answered    \* history: the last schema served to each caller

gqlVars == <<version, versionAt, tick, memo, lru, req, answered>>

NoMemo == [version |-> 0, at |-> 0, set |-> FALSE]
NoReq == [ph |-> "none"]
NoAnswer == [ok |-> TRUE]

\* The least version a caller may be shown: that of MemoTTL ticks ago.
Floor(t) == versionAt[IF t + 1 < MemoTTL THEN 0 ELSE t + 1 - MemoTTL]

\* CanRead.
Readable(a) == IF a.admin THEN GqlAttrs ELSE {n \in GqlAttrs : IF n \in DOMAIN a.attr THEN a.attr[n] ELSE a.default}

\* Bug: a policy without entries signs the same whatever its default.
SignsEntriesOnly(a) == IF a.admin THEN <<"admin">> ELSE <<"attrs", a.attr, a.attr # << >> /\ a.default>>

\* accessSignature: every field of the access, except that an admin's own
\* entries do not matter.
AccessSignature(a) == IF a.admin THEN <<"admin">> ELSE <<"attrs", a.attr, a.default>>

\* buildSchema: types, attributes the caller may read, relationship fields.
BuildSchema(a) == [version |-> version, fields |-> Readable(a)]

-----------------------------------------------------------------------------
\* A definition commits on this replica: the trigger bumps the version; Handle
\* drops the memo, after the commit.
DefineHere ==
    /\ version < MaxVersion
    /\ version' = version + 1
    /\ memo' = NoMemo
    /\ UNCHANGED <<versionAt, tick, lru, req, answered>>
DefineElsewhere ==
    /\ version < MaxVersion
    /\ version' = version + 1
    /\ UNCHANGED <<versionAt, tick, memo, lru, req, answered>>

PassTime ==
    /\ tick < MaxTick
    /\ tick' = tick + 1
    /\ versionAt' = [versionAt EXCEPT ![tick + 1] = version]
    /\ UNCHANGED <<version, memo, lru, req, answered>>

\* Execute: a request arrives and takes its time; a fresh memo answers.
FreshMemo == memo.set /\ tick - memo.at < MemoTTL
Execute(c, a) ==
    /\ req[c].ph = "none"
    /\ req' = [req EXCEPT ![c] =
         [ph |-> IF FreshMemo THEN "lookup" ELSE "version", acc |-> a, at |-> tick, floor |-> Floor(tick),
          gen |-> IF FreshMemo THEN memo.version ELSE 0, known |-> TRUE]]
    /\ UNCHANGED <<version, versionAt, tick, memo, lru, answered>>

\* versionFor: the persisted version is read, or the read fails.
ReadVersion(c) ==
    /\ req[c].ph = "version"
    /\ req' = [req EXCEPT ![c].ph = "memo", ![c].gen = version]
    /\ UNCHANGED <<version, versionAt, tick, memo, lru, answered>>
VersionUnreadable(c) ==
    /\ req[c].ph = "version"
    /\ req' = [req EXCEPT ![c].ph = "lookup", ![c].known = FALSE]
    /\ UNCHANGED <<version, versionAt, tick, memo, lru, answered>>

\* Bug: the memo is stamped when it is written.
StampedNow(c) == tick

\* The memo carries the time at which the request began to read.
Stamp(c) == req[c].at
WriteMemo(c) ==
    /\ req[c].ph = "memo"
    /\ memo' = [version |-> req[c].gen, at |-> Stamp(c), set |-> TRUE]
    /\ req' = [req EXCEPT ![c].ph = "lookup"]
    /\ UNCHANGED <<version, versionAt, tick, lru, answered>>

-----------------------------------------------------------------------------
Positions(key) == {i \in DOMAIN lru : lru[i].key = key}
Cached(key) == Positions(key) # {}
PositionOf(key) == CHOOSE i \in Positions(key) : TRUE
EntryOf(key) == lru[PositionOf(key)]

\* MoveToFront of the element at i, which holds x now.
ToFront(i, x) == [j \in 1..Len(lru) |-> IF j = 1 THEN x ELSE IF j <= i THEN lru[j - 1] ELSE lru[j]]

\* cacheGet: the entry moves to the front.
CacheGet(key) == ToFront(PositionOf(key), EntryOf(key))

\* cachePut: insert or refresh at the front; beyond the cap the oldest goes.
CachePut(key, gen, schema) ==
    LET x == [key |-> key, gen |-> gen, schema |-> schema]
        kept == IF CacheCap > 0 /\ Len(lru) >= CacheCap THEN Len(lru) ELSE Len(lru) + 1
    IN IF Cached(key) THEN ToFront(PositionOf(key), x)
       ELSE [j \in 1..kept |-> IF j = 1 THEN x ELSE lru[j - 1]]

\* What was served, against what the caller was entitled to see.
Answer(c, schema) ==
    [ok |-> (schema.version >= req[c].floor \/ ~req[c].known) /\ schema.fields = Readable(req[c].acc)]

\* Bug: any entry of the key is a hit.
AnyEntry(c, x) == TRUE

\* schemaFor: a hit at the current version, or any entry when the version
\* could not be read.
Hit(c, x) == req[c].known => x.gen = req[c].gen
ServeCached(c) ==
    LET key == AccessSignature(req[c].acc) IN
    /\ req[c].ph = "lookup" /\ Cached(key)
    /\ Hit(c, EntryOf(key))
    /\ lru' = CacheGet(key)
    /\ answered' = [answered EXCEPT ![c] = Answer(c, EntryOf(key).schema)]
    /\ req' = [req EXCEPT ![c] = NoReq]
    /\ UNCHANGED <<version, versionAt, tick, memo>>
Build(c) ==
    LET key == AccessSignature(req[c].acc) IN
    /\ req[c].ph = "lookup"
    /\ Cached(key) => ~Hit(c, EntryOf(key))
    /\ lru' = IF Cached(key) THEN CacheGet(key) ELSE lru
    /\ req' = [req EXCEPT ![c] = [ph |-> "built", schema |-> BuildSchema(req[c].acc), gen |-> req[c].gen,
                                  acc |-> req[c].acc, floor |-> req[c].floor, known |-> req[c].known]]
    /\ UNCHANGED <<version, versionAt, tick, memo, answered>>
ServeBuilt(c) ==
    /\ req[c].ph = "built"
    /\ lru' = CachePut(AccessSignature(req[c].acc), req[c].gen, req[c].schema)
    /\ answered' = [answered EXCEPT ![c] = Answer(c, req[c].schema)]
    /\ req' = [req EXCEPT ![c] = NoReq]
    /\ UNCHANGED <<version, versionAt, tick, memo>>

-----------------------------------------------------------------------------
GqlInit ==
    /\ version = 1 /\ tick = 0
    /\ versionAt = [t \in 0..MaxTick |-> 1]
    /\ memo = NoMemo /\ lru = << >>
    /\ req = [c \in Callers |-> NoReq]
    /\ answered = [c \in Callers |-> NoAnswer]

GqlNext ==
    \/ DefineHere \/ DefineElsewhere \/ PassTime
    \/ \E c \in Callers :
          \/ \E a \in Accesses : Execute(c, a)
          \/ ReadVersion(c) \/ VersionUnreadable(c) \/ WriteMemo(c)
          \/ ServeCached(c) \/ Build(c) \/ ServeBuilt(c)

GqlSpec == GqlInit /\ [][GqlNext]_gqlVars

-----------------------------------------------------------------------------
\* A query is answered with a schema at most MemoTTL old, built for the very
\* permissions of its caller, however requests interleave with definition
\* changes here and elsewhere; only a failed version read may serve an older
\* one.
SchemaIsCurrent == \A c \in Callers : answered[c].ok
=============================================================================

------------------------------- MODULE Views -------------------------------
(***************************************************************************)
(* Saved views: concurrent requests create, replace, patch and delete      *)
(* views.  A request reads the view, merges its fields and writes it back  *)
(* with a compare-and-swap on the version.                                 *)
(***************************************************************************)
EXTENDS Naturals, FiniteSets

CONSTANTS
    ViewEditors,   \* the requests
    ViewIds,
    FirstView,     \* the view that is there already
    ViewNames      \* the names a view may be given

VARIABLES
    views,       \* view -> [name, sort, version]; version 0: there is none.
                 \* sort stands for every field but the name
    viewEdit,    \* editor -> its request: [pc, op, id, set, known, merged,
                 \* base, expect]
    lastSet,     \* view -> field -> the value of its last acknowledged write
    acked,       \* the acknowledged writes: [id, version, by]
    unguarded    \* a patch that named version 0 wrote over an edit it did not see

viewVars == <<views, viewEdit, lastSet, acked, unguarded>>

ViewFields == {"name", "sort"}
NoView == [name |-> "", sort |-> "", version |-> 0]
NoViewEdit == [pc |-> "new", op |-> "", id |-> "", set |-> << >>, known |-> 0, merged |-> NoView, base |-> 0, expect |-> 0]
Finished == [NoViewEdit EXCEPT !.pc = "done"]

-----------------------------------------------------------------------------
\* What a request sets: every field, or some of them.
Settings(e) ==
    {[f \in {"sort"} |-> e]} \cup {[f \in {"name"} |-> n] : n \in ViewNames}
FullSettings(e) == {[f \in ViewFields |-> IF f = "name" THEN n ELSE e] : n \in ViewNames}
Merged(v, s) == [f \in DOMAIN v |-> IF f \in DOMAIN s THEN s[f] ELSE v[f]]

\* A client reads the view it will edit; a patch may later name the version.
Look(e, id) ==
    /\ viewEdit[e].pc = "new"
    /\ viewEdit' = [viewEdit EXCEPT ![e] = [NoViewEdit EXCEPT !.pc = "looked", !.id = id, !.known = views[id].version]]
    /\ UNCHANGED <<views, lastSet, acked, unguarded>>

\* Update: the fields of the request replace the view's.
BeginUpdate(e, s) ==
    /\ viewEdit[e].pc = "looked"
    /\ viewEdit' = [viewEdit EXCEPT ![e].pc = "updating", ![e].op = "update", ![e].set = s, ![e].merged = Merged(NoView, s)]
    /\ UNCHANGED <<views, lastSet, acked, unguarded>>

\* Patch: the fields are merged into the view as it is; the version is the one
\* the caller names, or the one just read.
BeginPatch(e, s, named) ==
    /\ viewEdit[e].pc = "looked"
    /\ LET v == views[viewEdit[e].id]
       IN viewEdit' = IF v.version = 0 THEN [viewEdit EXCEPT ![e] = Finished]
                  ELSE [viewEdit EXCEPT ![e].pc = "updating", ![e].op = "patch", ![e].set = s, ![e].merged = Merged(v, s),
                                    ![e].base = v.version,
                                    ![e].expect = CASE named = "none" -> v.version [] named = "read" -> viewEdit[e].known [] OTHER -> 0]
    /\ UNCHANGED <<views, lastSet, acked, unguarded>>

\* Bug: the version is the one this read finds.
WhatIsStored(expect, stored) == stored

\* update: an expected version of 0 is whatever is stored now.
VersionToMatch(expect, stored) == IF expect > 0 THEN expect ELSE stored

\* update reads the view again.
ReadForUpdate(e) ==
    /\ viewEdit[e].pc = "updating"
    /\ LET v == views[viewEdit[e].id]
       IN viewEdit' = IF v.version = 0 THEN [viewEdit EXCEPT ![e] = Finished]
                  ELSE [viewEdit EXCEPT ![e].pc = "writing", ![e].merged.version = VersionToMatch(viewEdit[e].expect, v.version)]
    /\ UNCHANGED <<views, lastSet, acked, unguarded>>

NameFree(id, n) == \A other \in ViewIds \ {id} : views[other].version = 0 \/ views[other].name # n

\* Bug: the row is written whatever its version.
AnyVersion(stored, want) == stored > 0

\* The condition of the UPDATE.
VersionMatches(stored, want) == stored > 0 /\ stored = want

Acknowledge(e, id, v) ==
    /\ views' = [views EXCEPT ![id] = v]
    /\ lastSet' = [lastSet EXCEPT ![id] = [f \in ViewFields |-> IF f \in DOMAIN viewEdit[e].set THEN viewEdit[e].set[f] ELSE @[f]]]
    /\ acked' = acked \cup {[id |-> id, version |-> v.version, by |-> e]}

\* The store's Update: one statement; a conflict otherwise.
WriteView(e) ==
    LET id == viewEdit[e].id
        new == viewEdit[e].merged
        fits == VersionMatches(views[id].version, new.version) /\ NameFree(id, new.name)
    IN /\ viewEdit[e].pc = "writing"
       /\ viewEdit' = [viewEdit EXCEPT ![e] = Finished]
       /\ IF fits THEN Acknowledge(e, id, [new EXCEPT !.version = views[id].version + 1]) ELSE UNCHANGED <<views, lastSet, acked>>
       /\ unguarded' = (unguarded \/ (fits /\ viewEdit[e].op = "patch" /\ viewEdit[e].expect = 0 /\ viewEdit[e].base # views[id].version))

\* Create: a free name; the first version is 1.
CreateView(e, id, s) ==
    /\ viewEdit[e].pc = "new" /\ views[id].version = 0 /\ \A a \in acked : a.id # id
    /\ viewEdit' = [viewEdit EXCEPT ![e] = Finished]
    /\ IF NameFree(id, s.name)
       THEN /\ views' = [views EXCEPT ![id] = [Merged(NoView, s) EXCEPT !.version = 1]]
            /\ lastSet' = [lastSet EXCEPT ![id] = s]
            /\ acked' = acked \cup {[id |-> id, version |-> 1, by |-> e]}
       ELSE UNCHANGED <<views, lastSet, acked>>
    /\ UNCHANGED unguarded

\* Delete: found, then removed.
BeginDelete(e) ==
    /\ viewEdit[e].pc = "looked"
    /\ viewEdit' = [viewEdit EXCEPT ![e] = IF views[@.id].version = 0 THEN Finished ELSE [@ EXCEPT !.pc = "deleting", !.op = "delete"]]
    /\ UNCHANGED <<views, lastSet, acked, unguarded>>
RemoveView(e) ==
    /\ viewEdit[e].pc = "deleting"
    /\ viewEdit' = [viewEdit EXCEPT ![e] = Finished]
    /\ views' = [views EXCEPT ![viewEdit[e].id] = NoView]
    /\ UNCHANGED <<lastSet, acked, unguarded>>

-----------------------------------------------------------------------------
ViewsInit ==
    /\ views = [id \in ViewIds |-> IF id = FirstView THEN [NoView EXCEPT !.name = CHOOSE n \in ViewNames : TRUE, !.version = 1] ELSE NoView]
    /\ viewEdit = [e \in ViewEditors |-> NoViewEdit]
    /\ lastSet = [id \in ViewIds |-> [f \in ViewFields |-> views[id][f]]]
    /\ acked = {[id |-> FirstView, version |-> 1, by |-> ""]} /\ unguarded = FALSE

ViewsNext ==
    \E e \in ViewEditors :
        \/ \E id \in ViewIds : Look(e, id) \/ \E s \in FullSettings(e) : CreateView(e, id, s)
        \/ \E s \in FullSettings(e) : BeginUpdate(e, s)
        \/ \E s \in Settings(e), named \in {"none", "read", "zero"} : BeginPatch(e, s, named)
        \/ ReadForUpdate(e) \/ WriteView(e) \/ BeginDelete(e) \/ RemoveView(e)

ViewsSpec == ViewsInit /\ [][ViewsNext]_viewVars

-----------------------------------------------------------------------------
\* No acknowledged edit is lost: each field of a view holds what the last
\* acknowledged write that set it gave it, however patches and replacements
\* overlap; a patch that names version 0 is taken as naming none, after the
\* merge, and excepted.
NoEditLost ==
    ~unguarded => \A id \in ViewIds : views[id].version > 0 => \A f \in ViewFields : views[id][f] = lastSet[id][f]

\* A version names one content: no two acknowledged writes of a view made the
\* same version, so a caller that names the version it read cannot write over
\* an edit it did not see.
OneWritePerVersion == \A a, b \in acked : a.id = b.id /\ a.version = b.version => a = b

\* Two views never share a name, through renames and creations at once.
NamesUnique == \A id \in ViewIds : views[id].version > 0 => NameFree(id, views[id].name)

ViewsInv == NoEditLost /\ OneWritePerVersion /\ NamesUnique
=============================================================================

----------------------------- MODULE DataProofs -----------------------------
(***************************************************************************)
(* Machine-checked proofs about Dependencies, Values, Media and Views, for *)
(* every set of attributes, rules, requests, values, cells, keys and views. *)
(***************************************************************************)
EXTENDS Dependencies, Values, Media, Views, NumberFacts

(* Rules between attributes. *)

\* The schema that a set of matched rules gives, without an order: a reference
\* definition for the fold.
Combined(f, M) ==
    [required |-> f \in RequiredFields,
     overridden |-> \E r \in M : r.req # "none",
     demanded |-> \E r \in M : Demands(r),
     blocking |-> \E r \in M : Demands(r) /\ OnWrite(r),
     restricted |-> \E r \in M : r.allow # {},
     allowed |-> {v \in UNION {r.allow : r \in M} : \A r \in M : r.allow # {} => v \in r.allow}]

\* The rules of S whose condition some given fact meets.
Matching(S, given, facts) == {r \in S : MatchesAny(r, given, facts)}

\* One more rule.
LEMMA CombinedNext ==
  ASSUME NEW f, NEW M, NEW r
  PROVE  Narrowed(Combined(f, M), r) = Combined(f, M \cup {r})
<1> DEFINE s == Combined(f, M)
<1> DEFINE t == Combined(f, M \cup {r})
<1> DEFINE al == IF r.allow = {} THEN s.allowed ELSE IF s.restricted THEN s.allowed \cap r.allow ELSE r.allow
<1>1. /\ s.overridden = (\E q \in M : q.req # "none")
      /\ s.demanded = (\E q \in M : Demands(q))
      /\ s.blocking = (\E q \in M : Demands(q) /\ OnWrite(q))
      /\ s.restricted = (\E q \in M : q.allow # {})
      /\ s.allowed = {v \in UNION {q.allow : q \in M} : \A q \in M : q.allow # {} => v \in q.allow}
      /\ s.required = (f \in RequiredFields)
  BY DEF Combined
<1>2. (s.overridden \/ r.req # "none") = (\E q \in M \cup {r} : q.req # "none")
  BY <1>1
<1>3. (s.demanded \/ Demands(r)) = (\E q \in M \cup {r} : Demands(q))
  BY <1>1
<1>4. (s.blocking \/ (Demands(r) /\ OnWrite(r))) = (\E q \in M \cup {r} : Demands(q) /\ OnWrite(q))
  BY <1>1
<1>5. (s.restricted \/ r.allow # {}) = (\E q \in M \cup {r} : q.allow # {})
  BY <1>1
<1>6. al = {v \in UNION {q.allow : q \in M \cup {r}} : \A q \in M \cup {r} : q.allow # {} => v \in q.allow}
  <2>1. CASE r.allow = {}
    BY <1>1, <2>1
  <2>2. CASE r.allow # {} /\ s.restricted
    BY <1>1, <2>2
  <2>3. CASE r.allow # {} /\ ~s.restricted
    BY <1>1, <2>3
  <2> QED
    BY <2>1, <2>2, <2>3
<1>7. Narrowed(s, r) = [required |-> s.required, overridden |-> s.overridden \/ r.req # "none",
                        demanded |-> s.demanded \/ Demands(r), blocking |-> s.blocking \/ (Demands(r) /\ OnWrite(r)),
                        restricted |-> s.restricted \/ r.allow # {}, allowed |-> al]
  <2>1. PICK c1, c2, c3, c4, c5, c6 :
          s = [required |-> c1, overridden |-> c2, demanded |-> c3, blocking |-> c4, restricted |-> c5, allowed |-> c6]
    BY DEF Combined
  <2> HIDE DEF s
  <2>2. PICK d2, d3, d4, d5, d6 :
          /\ d2 = (s.overridden \/ r.req # "none") /\ d3 = (s.demanded \/ Demands(r))
          /\ d4 = (s.blocking \/ (Demands(r) /\ OnWrite(r))) /\ d5 = (s.restricted \/ r.allow # {}) /\ d6 = al
    OBVIOUS
  <2> DEFINE w == [s EXCEPT !.overridden = d2, !.demanded = d3, !.blocking = d4, !.restricted = d5, !.allowed = d6]
  <2>3. Narrowed(s, r) = w
    BY <2>2 DEF Narrowed
  <2>a. w \in [required : {c1}, overridden : {d2}, demanded : {d3}, blocking : {d4}, restricted : {d5}, allowed : {d6}]
    BY <2>1
  <2> HIDE DEF w
  <2>4. w = [required |-> c1, overridden |-> d2, demanded |-> d3, blocking |-> d4, restricted |-> d5, allowed |-> d6]
    BY <2>a
  <2>5. s.required = c1
    BY <2>1
  <2> QED
    BY <2>2, <2>3, <2>4, <2>5
<1> QED
  BY <1>1, <1>2, <1>3, <1>4, <1>5, <1>6, <1>7 DEF Combined

\* What the fold over an order of rules computes.
LEMMA ResolveIs ==
  ASSUME NEW f, NEW order, Len(order) \in Nat, NEW given, NEW facts
  PROVE  LET s == Combined(f, Matching({order[i] : i \in 1..Len(order)}, given, facts)) IN
         Resolve(f, order, given, facts) =
            [required |-> IF s.overridden THEN s.demanded ELSE s.required,
             onWrite |-> s.overridden /\ s.demanded /\ s.blocking,
             restricted |-> s.restricted, allowed |-> s.allowed]
<1> DEFINE L == Len(order)
<1> DEFINE Rest(n) == Matching({order[i] : i \in 1..n}, given, facts)
<1> DEFINE Is(g) == g = [n \in 0..L |-> IF n = 0 THEN OwnSchema(f)
                         ELSE IF MatchesAny(order[n], given, facts) THEN Narrowed(g[n - 1], order[n]) ELSE g[n - 1]]
<1> DEFINE F == CHOOSE g : Is(g)
<1> DEFINE G == [n \in 0..L |-> Combined(f, Rest(n))]
<1>1. Combined(f, Rest(0)) = OwnSchema(f)
  <2>1. Rest(0) = {}
    BY DEF Matching
  <2>2. UNION {r.allow : r \in {}} = {}
    OBVIOUS
  <2> QED
    BY <2>1, <2>2 DEF Combined, OwnSchema
<1>2. ASSUME NEW n \in Nat, n # 0
      PROVE  Combined(f, Rest(n)) = IF MatchesAny(order[n], given, facts) THEN Narrowed(Combined(f, Rest(n - 1)), order[n])
                                    ELSE Combined(f, Rest(n - 1))
  <2>0. 1..n = 1..(n - 1) \cup {n}
    BY <1>2
  <2>1. {order[i] : i \in 1..n} = {order[i] : i \in 1..(n - 1)} \cup {order[n]}
    BY <2>0
  <2>2. Rest(n) = IF MatchesAny(order[n], given, facts) THEN Rest(n - 1) \cup {order[n]} ELSE Rest(n - 1)
    BY <2>1 DEF Matching
  <2>3. PICK M, N, r : M = Rest(n - 1) /\ N = Rest(n) /\ r = order[n]
    OBVIOUS
  <2>4. Combined(f, M \cup {r}) = Narrowed(Combined(f, M), r)
    BY CombinedNext
  <2> HIDE DEF Rest
  <2>5. CASE MatchesAny(order[n], given, facts)
    BY <2>2, <2>3, <2>4, <2>5
  <2>6. CASE ~MatchesAny(order[n], given, facts)
    BY <2>2, <2>6
  <2> QED
    BY <2>5, <2>6
<1> HIDE DEF Rest
<1>3. Is(G)
  <2>1. ASSUME NEW n \in 0..L
        PROVE  G[n] = IF n = 0 THEN OwnSchema(f)
                      ELSE IF MatchesAny(order[n], given, facts) THEN Narrowed(G[n - 1], order[n]) ELSE G[n - 1]
    <3>1. CASE n = 0
      BY <1>1, <3>1
    <3>2. CASE n # 0
      <4>1. n \in Nat /\ n - 1 \in 0..L
        BY <3>2
      <4> QED
        BY <1>2, <3>2, <4>1
    <3> QED
      BY <3>1, <3>2
  <2> QED
    BY <2>1
<1>4. Is(F)
  BY <1>3
<1> HIDE DEF F, G
<1>5. \A n \in 0..L : F[n] = Combined(f, Rest(n))
  <2> DEFINE T == {n \in Nat : n <= L => F[n] = Combined(f, Rest(n))}
  <2>1. 0 \in T
    BY <1>1, <1>4
  <2>2. ASSUME NEW n \in Nat, n \in T PROVE n + 1 \in T
    <3> SUFFICES ASSUME n + 1 <= L PROVE F[n + 1] = Combined(f, Rest(n + 1))
      OBVIOUS
    <3>1. n + 1 \in 0..L /\ n <= L /\ (n + 1) - 1 = n /\ n + 1 # 0 /\ n + 1 \in Nat
      OBVIOUS
    <3>2. F[n] = Combined(f, Rest(n))
      BY <2>2, <3>1
    <3>3. F[n + 1] = IF MatchesAny(order[n + 1], given, facts) THEN Narrowed(F[n], order[n + 1]) ELSE F[n]
      BY <1>4, <3>1
    <3> QED
      BY <3>1, <3>2, <3>3, <1>2
  <2> HIDE DEF T
  <2>3. \A n \in Nat : n \in T
    BY <2>1, <2>2, NumberInduction
  <2> QED
    BY <2>3 DEF T
<1>6. F[L] = Combined(f, Matching({order[i] : i \in 1..L}, given, facts))
  <2>1. L \in 0..L
    OBVIOUS
  <2> HIDE DEF L
  <2> QED
    BY <1>5, <2>1 DEF Rest
<1>7. Resolve(f, order, given, facts) =
            [required |-> IF F[L].overridden THEN F[L].demanded ELSE F[L].required,
             onWrite |-> F[L].overridden /\ F[L].demanded /\ F[L].blocking,
             restricted |-> F[L].restricted, allowed |-> F[L].allowed]
  BY DEF Resolve, F
<1> QED
  BY <1>6, <1>7

\* Every order the store may return a finite set of rules in lists each of
\* them, and there is one.
LEMMA OrdersListAll ==
  ASSUME NEW S, IsFiniteSet(S), NEW o \in Orders(S)
  PROVE  Len(o) \in Nat /\ {o[i] : i \in 1..Len(o)} = S
<1> DEFINE n == Cardinality(S)
<1>1. n \in Nat
  BY FS_CardinalityType
<1>2. o \in [1..n -> S] /\ \A i, j \in 1..n : o[i] = o[j] => i = j
  BY DEF Orders
<1>3. Len(o) = n
  BY <1>1, <1>2
<1>4. o \in Injection(1..n, S)
  BY <1>2 DEF Injection, IsInjective
<1>5. IsFiniteSet(1..n) /\ Cardinality(1..n) = n
  BY <1>1, FS_Interval
<1>6. o \in Surjection(1..n, S)
  BY <1>4, <1>5, FS_Injection
<1> QED
  BY <1>1, <1>2, <1>3, <1>6 DEF Surjection

\* Finitely many rules can be listed, each once.
LEMMA AnOrderExists ==
  ASSUME NEW S, IsFiniteSet(S)
  PROVE  \E o : o \in Orders(S)
<1> DEFINE n == Cardinality(S)
<1>1. n \in Nat /\ ExistsBijection(1..n, S)
  BY FS_CardinalityType
<1>2. PICK g \in Bijection(1..n, S) : TRUE
  BY <1>1 DEF ExistsBijection
<1>3. g \in [1..n -> S] /\ \A i, j \in 1..n : g[i] = g[j] => i = j
  BY <1>2 DEF Bijection, Injection, IsInjective
<1>4. g \in Orders(S)
  BY <1>3 DEF Orders
<1> QED
  BY <1>4

\* The state of the rules and of the requests.  A request under way holds the
\* lock of one attribute, alone; an edit is of a rule on that attribute that
\* nobody else edits; a write was accepted by the rules as they now stand.
RulesTypeOK ==
    /\ rules \in [RuleIds -> RuleRecords \cup {NoRule}]
    /\ DOMAIN held = Fields
    /\ DOMAIN party = Parties
    /\ \A p \in Parties : party[p].op \in {"none", "rule", "write"}
\* An open edit is of one rule nobody else edits, under the lock of its attribute.
EditsGuarded ==
    \A p \in Parties : party[p].op = "rule" =>
        /\ party[p].id \in RuleIds /\ party[p].rec \in RuleRecords
        /\ party[p].locks = {party[p].rec.tgt}
        /\ rules[party[p].id].st = "live" => rules[party[p].id].tgt = party[p].rec.tgt
        /\ \A q \in Parties \ {p} : party[q].op = "rule" => party[q].id # party[p].id
\* Two open requests hold different attributes' locks.
LocksExclusive ==
    \A p \in Parties : \A q \in Parties \ {p} :
        Acting(p) /\ Acting(q) => \A f \in party[p].locks : f \notin party[q].locks
\* A judged write is one the rules as they now stand accept.
WriteAccepted(p) ==
    /\ party[p].locks = {party[p].field}
    /\ Accepts(Resolve(party[p].field, Loaded(party[p].field), party[p].read, party[p].facts), party[p].val)
WritesAccepted == \A p \in Parties : party[p].op = "write" => WriteAccepted(p)
\* The inductive invariant of the rules.
RulesStrong == RulesTypeOK /\ EditsGuarded /\ LocksExclusive /\ WritesAccepted

\* The rules on an attribute are finitely many, and Loaded lists them.
LEMMA LoadedListsAll ==
  ASSUME RulesTypeOK, NEW f
  PROVE  /\ IsFiniteSet(RulesOn(f))
         /\ Loaded(f) \in Orders(RulesOn(f))
<1>1. IsFiniteSet(RealRules({f}))
  BY RulesAssumption, FS_Subset DEF RealRules
<1> DEFINE I == RealRules({f})
<1> DEFINE g == [i \in I |-> rules[i]]
<1>2. g \in Surjection(I, RulesOn(f))
  BY DEF Surjection, RulesOn
<1> HIDE DEF g, I
<1>3. IsFiniteSet(RulesOn(f))
  BY <1>1, <1>2, FS_Surjection DEF I
<1>4. \E o : o \in Orders(RulesOn(f))
  BY <1>3, AnOrderExists
<1> QED
  BY <1>3, <1>4 DEF Loaded

\* For every state of the rules and of the values: the order is immaterial, a
\* block comes from one rule, and the answers do not depend on values the
\* caller may not read.
LEMMA RulesPromise == RulesTypeOK => RulesInv
<1> SUFFICES ASSUME RulesTypeOK PROVE RulesInv
  OBVIOUS
<1>1. ResolveOrderFree
  <2> SUFFICES ASSUME NEW f \in Fields, NEW o \in Orders(RulesOn(f)), NEW facts \in SUBSET Facts
               PROVE  Resolve(f, o, held, facts) = Resolve(f, Loaded(f), held, facts)
    BY DEF ResolveOrderFree
  <2>1. IsFiniteSet(RulesOn(f)) /\ Loaded(f) \in Orders(RulesOn(f))
    BY LoadedListsAll
  <2>2. Len(o) \in Nat /\ {o[i] : i \in 1..Len(o)} = RulesOn(f)
    BY <2>1, OrdersListAll
  <2>3. PICK l : l = Loaded(f)
    OBVIOUS
  <2>4. Len(l) \in Nat /\ {l[i] : i \in 1..Len(l)} = RulesOn(f)
    BY <2>1, <2>3, OrdersListAll
  <2> DEFINE s == Combined(f, Matching(RulesOn(f), held, facts))
  <2> DEFINE ans == [required |-> IF s.overridden THEN s.demanded ELSE s.required,
                     onWrite |-> s.overridden /\ s.demanded /\ s.blocking,
                     restricted |-> s.restricted, allowed |-> s.allowed]
  <2>5. Resolve(f, o, held, facts) = ans
    BY <2>2, ResolveIs
  <2>6. Resolve(f, l, held, facts) = ans
    BY <2>4, ResolveIs
  <2> QED
    BY <2>3, <2>5, <2>6
<1>2. BlockedByOneRule
  <2> SUFFICES ASSUME NEW f \in Fields, NEW facts \in SUBSET Facts, Resolve(f, Loaded(f), held, facts).onWrite
               PROVE  \E i \in RealRules({f}) : rules[i].req = "yes" /\ rules[i].mode = "on_write" /\ MatchesAny(rules[i], held, facts)
    BY DEF BlockedByOneRule
  <2>1. PICK l : l = Loaded(f) /\ Len(l) \in Nat /\ {l[i] : i \in 1..Len(l)} = RulesOn(f)
    <3>1. PICK l : l = Loaded(f)
      OBVIOUS
    <3>2. Len(l) \in Nat /\ {l[i] : i \in 1..Len(l)} = RulesOn(f)
      BY <3>1, LoadedListsAll, OrdersListAll
    <3> QED
      BY <3>1, <3>2
  <2> DEFINE s == Combined(f, Matching(RulesOn(f), held, facts))
  <2> DEFINE block == s.overridden /\ s.demanded /\ s.blocking
  <2>2. Len(l) \in Nat /\ {l[i] : i \in 1..Len(l)} = RulesOn(f)
    BY <2>1
  <2> DEFINE ans == [required |-> IF s.overridden THEN s.demanded ELSE s.required,
                     onWrite |-> s.overridden /\ s.demanded /\ s.blocking,
                     restricted |-> s.restricted, allowed |-> s.allowed]
  <2>3. Resolve(f, l, held, facts) = ans
    BY <2>2, ResolveIs
  <2>4. ans.onWrite = block
    OBVIOUS
  <2>5. block
    <3> HIDE DEF ans, block, s
    <3> QED
      BY <2>1, <2>3, <2>4
  <2>6. s.blocking
    BY <2>5
  <2>7. \E r \in Matching(RulesOn(f), held, facts) : Demands(r) /\ OnWrite(r)
    BY <2>6 DEF Combined
  <2> QED
    BY <2>7 DEF Matching, RulesOn, Demands, OnWrite
<1>3. NoOracle
  <2> SUFFICES ASSUME NEW R \in SUBSET Fields, NEW h \in Fields, h \notin R, NEW other
               PROVE  LET alt == [held EXCEPT ![h] = other] IN
                      /\ \A f \in R : ReportedSchema(f, held, R, {}) = ReportedSchema(f, alt, R, {})
                      /\ Missing(held, R, {}) = Missing(alt, R, {})
    BY DEF NoOracle
  <2> DEFINE alt == [held EXCEPT ![h] = other]
  <2>1. \A f \in R : alt[f] = held[f]
    BY DEF RulesTypeOK
  <2>2. ReadableOnly(alt, R) = ReadableOnly(held, R)
    BY <2>1 DEF ReadableOnly
  <2> HIDE DEF alt
  <2>3. \A f : ReportedSchema(f, held, R, {}) = ReportedSchema(f, alt, R, {})
    BY <2>2 DEF ReportedSchema
  <2>4. Missing(held, R, {}) = Missing(alt, R, {})
    BY <2>1, <2>3 DEF Missing
  <2> QED
    BY <2>3, <2>4 DEF alt
<1> QED
  BY <1>1, <1>2, <1>3 DEF RulesInv

\* The rules on an attribute decide what a write to it is judged by.
LEMMA JudgementKept ==
  ASSUME NEW p \in Parties, WriteAccepted(p), party'[p] = party[p], (RulesOn(party[p].field))' = RulesOn(party[p].field)
  PROVE  WriteAccepted(p)'
<1>1. PICK f : f = party[p].field
  OBVIOUS
<1>2. RulesOn(f)' = RulesOn(f)
  BY <1>1 DEF RulesOn, RealRules
<1>3. Loaded(f)' = Loaded(f)
  BY <1>2 DEF Loaded, Orders
<1>4. PICK l : l = Loaded(f)
  OBVIOUS
<1>5. Accepts(Resolve(f, l, party[p].read, party[p].facts), party[p].val)
  BY <1>1, <1>4 DEF WriteAccepted
<1> QED
  BY <1>1, <1>3, <1>4, <1>5 DEF WriteAccepted, Loaded, RulesOn, RealRules, Orders

\* Everything starts quiet.
LEMMA RulesStart == DepInit => RulesStrong
<1> SUFFICES ASSUME DepInit PROVE RulesStrong
  OBVIOUS
<1>1. \A p \in Parties : party[p].op = "none"
  BY DEF DepInit, Quiet
<1>2. RulesTypeOK
  BY <1>1, RulesAssumption DEF DepInit, RulesTypeOK
<1> QED
  BY <1>1, <1>2 DEF RulesStrong, EditsGuarded, LocksExclusive, WritesAccepted, Acting

\* A request that opens takes the lock of one attribute that nobody holds.
LEMMA OpeningLocks ==
  ASSUME RulesStrong, NEW p \in Parties, NEW x, NEW f, party' = [party EXCEPT ![p] = x], UNCHANGED <<rules, held>>,
         party[p].op = "none", x.op \in {"rule", "write"}, x.locks = {f}, TargetFree(p, f),
         x.op = "rule" => /\ x.id \in RuleIds /\ x.rec \in RuleRecords /\ x.rec.tgt = f
                          /\ rules[x.id].st = "live" => rules[x.id].tgt = f
                          /\ RuleFree(p, x.id),
         x.op = "write" => x.field = f /\ Accepts(Resolve(f, Loaded(f), x.read, x.facts), x.val)
  PROVE  RulesStrong'
<1>1. /\ DOMAIN party' = Parties /\ party'[p] = x
      /\ \A q \in Parties \ {p} : party'[q] = party[q]
  BY DEF RulesStrong, RulesTypeOK
<1>2. RulesTypeOK'
  BY <1>1 DEF RulesStrong, RulesTypeOK, RuleRecords, NoRule
<1>3. EditsGuarded'
  <2> SUFFICES ASSUME NEW q \in Parties, party'[q].op = "rule"
               PROVE  /\ party'[q].id \in RuleIds /\ party'[q].rec \in RuleRecords
                      /\ party'[q].locks = {party'[q].rec.tgt}
                      /\ rules[party'[q].id].st = "live" => rules[party'[q].id].tgt = party'[q].rec.tgt
                      /\ \A u \in Parties \ {q} : party'[u].op = "rule" => party'[u].id # party'[q].id
    BY DEF EditsGuarded, RuleRecords
  <2>1. CASE q = p
    BY <1>1, <2>1 DEF RuleFree
  <2>2. CASE q # p
    BY <1>1, <2>2 DEF RulesStrong, EditsGuarded, RuleFree
  <2> QED
    BY <2>1, <2>2
<1>4. LocksExclusive'
  <2> SUFFICES ASSUME NEW a \in Parties, NEW b \in Parties \ {a}, party'[a].op # "none", party'[b].op # "none"
               PROVE  \A g \in party'[a].locks : g \notin party'[b].locks
    BY DEF LocksExclusive, Acting
  <2>1. CASE a = p
    BY <1>1, <2>1 DEF TargetFree, Acting
  <2>2. CASE b = p
    BY <1>1, <2>2 DEF TargetFree, Acting
  <2>3. CASE a # p /\ b # p
    BY <1>1, <2>3 DEF RulesStrong, LocksExclusive, Acting
  <2> QED
    BY <2>1, <2>2, <2>3
<1>5. WritesAccepted'
  <2> SUFFICES ASSUME NEW q \in Parties, party'[q].op = "write" PROVE WriteAccepted(q)'
    BY DEF WritesAccepted
  <2>1. CASE q = p
    <3>1. PICK l : l = Loaded(f)
      OBVIOUS
    <3>2. party'[q].field = f /\ party'[q].locks = {f}
          /\ Accepts(Resolve(f, l, party'[q].read, party'[q].facts), party'[q].val)
      BY <1>1, <2>1, <3>1
    <3>3. RulesOn(f)' = RulesOn(f)
      BY DEF RulesOn, RealRules
    <3>4. Loaded(f)' = l
      BY <3>1, <3>3 DEF Loaded, Orders
    <3> QED
      BY <3>2, <3>4 DEF WriteAccepted, Loaded, RulesOn, RealRules, Orders
  <2>2. CASE q # p
    <3>1. party'[q] = party[q] /\ WriteAccepted(q)
      BY <1>1, <2>2 DEF RulesStrong, WritesAccepted
    <3>2. (RulesOn(party[q].field))' = RulesOn(party[q].field)
      BY <3>1 DEF RulesOn, RealRules
    <3> QED
      BY <3>1, <3>2, JudgementKept
  <2> QED
    BY <2>1, <2>2
<1> QED
  BY <1>2, <1>3, <1>4, <1>5 DEF RulesStrong

\* An edit of a rule opens under the lock of its attribute and keeps the invariant.
LEMMA EditKeeps ==
  ASSUME RulesStrong, NEW p \in Parties, NEW i \in RuleIds, NEW r \in RuleRecords, EditRule(p, i, r),
         rules[i].st = "live" => rules[i].tgt = r.tgt
  PROVE  RulesStrong'
<1> DEFINE x == [op |-> "rule", id |-> i, rec |-> r, locks |-> {r.tgt}]
<1>1. /\ party' = [party EXCEPT ![p] = x] /\ UNCHANGED <<rules, held>>
      /\ party[p].op = "none" /\ TargetFree(p, r.tgt) /\ RuleFree(p, i)
  BY DEF EditRule, TargetLock, Acting
<1>2. x.op = "rule" /\ x.id = i /\ x.rec = r /\ x.locks = {r.tgt}
  OBVIOUS
<1> HIDE DEF x
<1> QED
  BY <1>1, <1>2, OpeningLocks

\* So do creation, update and archiving, which are edits.
LEMMA EditsKeep ==
  ASSUME RulesStrong, NEW p \in Parties, NEW i \in RuleIds,
         ArchiveRule(p, i) \/ \E r \in Drafts : CreateRule(p, i, r) \/ UpdateRule(p, i, r)
  PROVE  RulesStrong'
<1>1. CASE ArchiveRule(p, i)
  <2>1. rules[i].st = "live" /\ EditRule(p, i, [rules[i] EXCEPT !.st = "archived"])
    BY <1>1 DEF ArchiveRule
  <2>2. rules[i] \in RuleRecords
    BY <2>1 DEF RulesStrong, RulesTypeOK, NoRule
  <2>3. PICK r : r = [rules[i] EXCEPT !.st = "archived"]
    OBVIOUS
  <2>4. r \in RuleRecords /\ r.tgt = rules[i].tgt
    BY <2>2, <2>3 DEF RuleRecords
  <2> QED
    BY <2>1, <2>3, <2>4, EditKeeps
<1>2. ASSUME NEW r \in Drafts, CreateRule(p, i, r) \/ UpdateRule(p, i, r) PROVE RulesStrong'
  <2>1. r \in RuleRecords /\ EditRule(p, i, r) /\ (rules[i].st = "live" => rules[i].tgt = r.tgt)
    BY <1>2, RulesAssumption DEF CreateRule, UpdateRule
  <2> QED
    BY <2>1, EditKeeps
<1> QED
  BY <1>1, <1>2

\* A write that the rules accept under its attribute's lock keeps the invariant.
LEMMA JudgeKeeps ==
  ASSUME RulesStrong, NEW p \in Parties, NEW f, NEW v, NEW facts, JudgeWrite(p, f, v, facts)
  PROVE  RulesStrong'
<1> DEFINE x == [op |-> "write", locks |-> {f}, field |-> f, val |-> v, facts |-> facts, read |-> held]
<1>1. /\ party' = [party EXCEPT ![p] = x] /\ UNCHANGED <<rules, held>>
      /\ party[p].op = "none" /\ TargetFree(p, f)
      /\ Accepts(Resolve(f, Loaded(f), held, facts), v)
  BY DEF JudgeWrite, Acting
<1>2. x.op = "write" /\ x.locks = {f} /\ x.field = f /\ x.val = v /\ x.facts = facts /\ x.read = held
  OBVIOUS
<1> HIDE DEF x
<1>3. Accepts(Resolve(f, Loaded(f), x.read, x.facts), x.val)
  BY <1>1, <1>2
<1> QED
  BY <1>1, <1>2, <1>3, OpeningLocks

\* A request that ends, having changed at most rules on the attribute it held
\* the lock of.
LEMMA EndingKeeps ==
  ASSUME RulesStrong, NEW p \in Parties, party' = [party EXCEPT ![p] = Quiet], party[p].op # "none",
         rules' \in [RuleIds -> RuleRecords \cup {NoRule}], DOMAIN held' = Fields,
         rules' = rules \/ (party[p].op = "rule" /\ rules' = [rules EXCEPT ![party[p].id] = party[p].rec])
  PROVE  RulesStrong'
<1>1. /\ DOMAIN party' = Parties /\ party'[p].op = "none"
      /\ \A q \in Parties \ {p} : party'[q] = party[q]
  BY DEF RulesStrong, RulesTypeOK, Quiet
<1>2. RulesTypeOK'
  BY <1>1 DEF RulesStrong, RulesTypeOK, RuleRecords, NoRule
<1>3. ASSUME NEW q \in Parties, party'[q].op = "rule"
      PROVE  /\ q # p /\ party'[q] = party[q]
             /\ rules'[party[q].id] = rules[party[q].id]
  <2>1. q # p /\ party'[q] = party[q] /\ party[q].op = "rule"
    BY <1>1, <1>3
  <2>2. party[p].op = "rule" => party[p].id # party[q].id
    BY <2>1 DEF RulesStrong, EditsGuarded
  <2> QED
    BY <2>1, <2>2 DEF RulesStrong, RulesTypeOK, EditsGuarded
<1>4. EditsGuarded'
  <2> SUFFICES ASSUME NEW q \in Parties, party'[q].op = "rule"
               PROVE  /\ party'[q].id \in RuleIds /\ party'[q].rec \in RuleRecords
                      /\ party'[q].locks = {party'[q].rec.tgt}
                      /\ rules'[party'[q].id].st = "live" => rules'[party'[q].id].tgt = party'[q].rec.tgt
                      /\ \A u \in Parties \ {q} : party'[u].op = "rule" => party'[u].id # party'[q].id
    BY DEF EditsGuarded, RuleRecords
  <2> QED
    BY <1>3 DEF RulesStrong, EditsGuarded
<1>5. LocksExclusive'
  BY <1>1 DEF RulesStrong, LocksExclusive, Acting
<1>6. WritesAccepted'
  <2> SUFFICES ASSUME NEW q \in Parties, party'[q].op = "write" PROVE WriteAccepted(q)'
    BY DEF WritesAccepted
  <2>1. q # p /\ party'[q] = party[q] /\ party[q].op = "write" /\ WriteAccepted(q)
    BY <1>1 DEF RulesStrong, WritesAccepted
  <2>2. PICK f : f = party[q].field /\ party[q].locks = {f}
    BY <2>1 DEF WriteAccepted
  <2>3. RulesOn(f)' = RulesOn(f)
    <3>1. CASE rules' = rules
      BY <3>1 DEF RulesOn, RealRules
    <3>2. CASE party[p].op = "rule" /\ rules' = [rules EXCEPT ![party[p].id] = party[p].rec]
      <4>1. PICK i \in RuleIds, r \in RuleRecords : i = party[p].id /\ r = party[p].rec
        BY <3>2 DEF RulesStrong, EditsGuarded
      <4>2. /\ party[p].locks = {r.tgt} /\ (rules[i].st = "live" => rules[i].tgt = r.tgt)
        BY <3>2, <4>1 DEF RulesStrong, EditsGuarded
      <4>3. r.tgt # f
        BY <2>1, <2>2, <4>2 DEF RulesStrong, LocksExclusive, Acting
      <4>4. rules'[i] = r /\ \A j \in RuleIds \ {i} : rules'[j] = rules[j]
        BY <3>2, <4>1 DEF RulesStrong, RulesTypeOK
      <4>5. i \notin RealRules({f}) /\ i \notin RealRules({f})'
        BY <4>2, <4>3, <4>4 DEF RealRules
      <4>6. RealRules({f})' = RealRules({f})
        BY <4>4, <4>5 DEF RealRules
      <4>7. \A j \in RealRules({f}) : rules'[j] = rules[j]
        BY <4>4, <4>5 DEF RealRules
      <4> QED
        BY <4>6, <4>7 DEF RulesOn
    <3> QED
      BY <3>1, <3>2
  <2>4. (RulesOn(party[q].field))' = RulesOn(party[q].field)
    BY <2>1, <2>2, <2>3 DEF RulesOn, RealRules
  <2> QED
    BY <2>1, <2>4, JudgementKept
<1> QED
  BY <1>2, <1>4, <1>5, <1>6 DEF RulesStrong

\* A commit or a failure gives the lock up; a rule that changes is on an attribute
\* no judged write depends on.
LEMMA CommitsKeep ==
  ASSUME RulesStrong, NEW p \in Parties, CommitRule(p) \/ CommitWrite(p) \/ GiveUp(p)
  PROVE  RulesStrong'
<1>1. CASE CommitRule(p)
  <2>1. /\ party[p].op = "rule" /\ party' = [party EXCEPT ![p] = Quiet] /\ held' = held
        /\ rules' = [rules EXCEPT ![party[p].id] = party[p].rec]
    BY <1>1 DEF CommitRule
  <2>2. party[p].id \in RuleIds /\ party[p].rec \in RuleRecords
    BY <2>1 DEF RulesStrong, EditsGuarded
  <2>3. rules' \in [RuleIds -> RuleRecords \cup {NoRule}]
    BY <2>1, <2>2 DEF RulesStrong, RulesTypeOK
  <2>4. DOMAIN held' = Fields
    BY <2>1 DEF RulesStrong, RulesTypeOK
  <2> QED
    BY <2>1, <2>3, <2>4, EndingKeeps
<1>2. CASE CommitWrite(p) \/ GiveUp(p)
  <2>1. party[p].op # "none" /\ party' = [party EXCEPT ![p] = Quiet] /\ rules' = rules
    BY <1>2 DEF CommitWrite, GiveUp, Acting
  <2>2. rules' \in [RuleIds -> RuleRecords \cup {NoRule}]
    BY <2>1 DEF RulesStrong, RulesTypeOK
  <2>3. DOMAIN held' = Fields
    BY <1>2 DEF CommitWrite, GiveUp, RulesStrong, RulesTypeOK
  <2> QED
    BY <2>1, <2>2, <2>3, EndingKeeps
<1> QED
  BY <1>1, <1>2

\* Every step of the rules and the gated writes keeps the invariant.
LEMMA RulesStep == RulesStrong /\ [DepNext]_depVars => RulesStrong'
<1> SUFFICES ASSUME RulesStrong, [DepNext]_depVars PROVE RulesStrong'
  OBVIOUS
<1>1. CASE UNCHANGED depVars
  <2>1. UNCHANGED <<rules, held, party>>
    BY <1>1 DEF depVars
  <2>2. WritesAccepted'
    <3> SUFFICES ASSUME NEW q \in Parties, party'[q].op = "write" PROVE WriteAccepted(q)'
      BY DEF WritesAccepted
    <3>1. party'[q] = party[q] /\ WriteAccepted(q)
      BY <2>1 DEF RulesStrong, WritesAccepted
    <3>2. (RulesOn(party[q].field))' = RulesOn(party[q].field)
      BY <2>1 DEF RulesOn, RealRules
    <3> QED
      BY <3>1, <3>2, JudgementKept
  <2>3. RulesTypeOK' /\ LocksExclusive'
    BY <2>1 DEF RulesStrong, RulesTypeOK, LocksExclusive, Acting, RuleRecords, NoRule
  <2>4. EditsGuarded'
    <3> SUFFICES ASSUME NEW q \in Parties, party'[q].op = "rule"
                 PROVE  /\ party'[q].id \in RuleIds /\ party'[q].rec \in RuleRecords
                        /\ party'[q].locks = {party'[q].rec.tgt}
                        /\ rules'[party'[q].id].st = "live" => rules'[party'[q].id].tgt = party'[q].rec.tgt
                        /\ \A u \in Parties \ {q} : party'[u].op = "rule" => party'[u].id # party'[q].id
      BY DEF EditsGuarded, RuleRecords
    <3> QED
      BY <2>1 DEF RulesStrong, EditsGuarded
  <2> QED
    BY <2>2, <2>3, <2>4 DEF RulesStrong
<1>2. CASE DepNext
  BY <1>2, EditsKeep, JudgeKeeps, CommitsKeep DEF DepNext, PartyNext
<1> QED
  BY <1>1, <1>2

\* For any rules, drafts, values and facts, in every reachable state: rules
\* resolve to the same schema in whatever order the store returns them, a write
\* is blocked only by one rule that asks for it, and what a caller is told does
\* not depend on values that caller may not read (RulesInv).
THEOREM RulesInvariant == DepSpec => []RulesInv
<1>1. RulesStrong => RulesInv
  BY RulesPromise DEF RulesStrong
<1> QED
  BY <1>1, RulesStart, RulesStep, PTL DEF DepSpec

\* For any parties: the rules that judged a value are still in force when the
\* value commits (RuleInForce).
THEOREM JudgementsHold == DepSpec => RuleInForce
<1>1. RulesStrong /\ [DepNext]_depVars =>
        [\A p \in Parties : party[p].op = "write" /\ held' # held /\ party'[p].op = "none" =>
          Accepts(Resolve(party[p].field, Loaded(party[p].field), party[p].read, party[p].facts), party[p].val)]_depVars
  BY DEF RulesStrong, WritesAccepted, WriteAccepted
<1> QED
  BY <1>1, RulesStart, RulesStep, PTL DEF DepSpec, RuleInForce

-----------------------------------------------------------------------------
(* The value write path. *)

\* The shapes of rows, of what transactions stage and of the transactions.
RowStates == RowRecords \cup {NoRow}
StagedRows == UNION {[S -> RowRecords] : S \in SUBSET RowIds}
DefRecords == [unique : BOOLEAN, multi : BOOLEAN, archived : BOOLEAN]
RefRecords == [ent : Entities, typ : Types, full : BOOLEAN]
TxRecords ==
    [pc : {"run", "written", "checked"}, call : Calls, todo : SUBSET Nat, ahead : StagedRows, defs : SUBSET Attrs,
     sums : SUBSET (Types \X Entities), writes : StagedRows, refs : SUBSET RefRecords, gone : SUBSET RowIds]
ValuesTypeOK ==
    /\ vrow \in [RowIds -> RowStates]
    /\ vdef \in [Attrs -> DefRecords]
    /\ vtx \in [Writers -> TxRecords \cup {IdleTx}]
    /\ races \in Nat

\* A transaction w by itself: the items left are items of its call, none of an entity before one
\* whose summary it holds, and a summary is held for a row that is staged.
TxShaped(w) ==
    /\ w.todo \subseteq DOMAIN w.call.items
    /\ \A k \in w.sums : \A i \in w.todo : k[2] <= w.call.items[i].ent
    /\ \A k \in w.sums : \E r \in DOMAIN w.writes : w.writes[r].ent = k[2]
\* What a transaction w has staged, over the rows as they are committed: a row keeps its attribute
\* and its entity, and only under the definition's lock does a live one appear or change.
RowStaged(w, r, old) ==
    LET new == w.writes[r] IN
    /\ old.st # "none" => new.attr = old.attr /\ new.ent = old.ent
    /\ new.st = "live" => new.attr \in w.defs \/ (old.st = "live" /\ new.val = old.val)
    /\ <<new.typ, new.ent>> \in w.sums
StagedUnderLocks == \A p \in Writers : Active(p) => TxShaped(vtx[p]) /\ \A r \in DOMAIN vtx[p].writes : RowStaged(vtx[p], r, vrow[r])
\* What RemoveEntity and an import read ahead are rows as they still are, up to value and type.
AheadStays ==
    \A p \in Writers : Active(p) => \A r \in DOMAIN vtx[p].ahead :
        vrow[r].st # "none" /\ vtx[p].ahead[r].attr = vrow[r].attr /\ vtx[p].ahead[r].ent = vrow[r].ent
\* No two transactions hold one row, one definition or one summary.
WritersApart ==
    \A p, q \in Writers : p # q /\ Active(p) /\ Active(q) =>
        /\ DOMAIN vtx[p].writes \cap DOMAIN vtx[q].writes = {}
        /\ vtx[p].defs \cap vtx[q].defs = {}
        /\ vtx[p].sums \cap vtx[q].sums = {}
\* Without a race, one transaction at a time stages rows of an entity.
EntitiesApart ==
    races = 0 => \A p, q \in Writers : p # q /\ Active(p) /\ Active(q) =>
        \A r \in DOMAIN vtx[p].writes, s \in DOMAIN vtx[q].writes : vtx[p].writes[r].ent # vtx[q].writes[s].ent
\* Without a race, an import knows every live row of its entities.
ImportsKnow ==
    races = 0 => \A p \in Writers : Active(p) /\ vtx[p].call.kind = "import" =>
        \A r \in Live(vrow) : vrow[r].ent \in EntitiesOf(vtx[p].call) => r \in DOMAIN vtx[p].ahead
\* The table as each transaction would leave it, and as it is.
ViewOf(w, rows) == [r \in RowIds |-> IF r \in DOMAIN w.writes THEN w.writes[r] ELSE rows[r]]
TableFine(rows, defs, n) == UniqueIn(rows, defs) /\ (n = 0 => OneValueIn(rows, defs) /\ OneAnchorIn(rows))
ViewsFine ==
    /\ TableFine(vrow, vdef, races)
    /\ \A p \in Writers : Active(p) => TableFine(ViewOf(vtx[p], vrow), vdef, races)
\* The inductive invariant of the value table.
ValuesStrong ==
    ValuesTypeOK /\ StagedUnderLocks /\ AheadStays /\ WritersApart /\ EntitiesApart /\ ImportsKnow /\ ViewsFine

\* Rows, in the form the provers use.
LEMMA RowFacts ==
  /\ NoRow.st = "none" /\ NoRow \notin RowRecords
  /\ \A w \in RowRecords : w.st \in {"live", "archived"} /\ w.attr \in Attrs /\ w.ent \in Entities /\ w.typ \in Types /\ w.val \in Vals
  /\ \A w \in RowStates : w.st # "none" <=> w \in RowRecords
<1>1. \A w \in RowRecords : w.st \in {"live", "archived"} /\ w.attr \in Attrs /\ w.ent \in Entities /\ w.typ \in Types /\ w.val \in Vals
  BY DEF RowRecords
<1>2. NoRow.st = "none"
  BY DEF NoRow
<1> QED
  BY <1>1, <1>2 DEF RowStates

\* What is staged, in the form the provers use.
LEMMA StagedFacts ==
  ASSUME NEW f
  PROVE  f \in StagedRows <=> /\ f = [r \in DOMAIN f |-> f[r]] /\ DOMAIN f \subseteq RowIds
                              /\ \A r \in DOMAIN f : f[r] \in RowRecords
BY DEF StagedRows

\* A transaction under way.
LEMMA TxFacts ==
  ASSUME ValuesTypeOK, NEW p \in Writers, Active(p)
  PROVE  /\ vtx[p] \in TxRecords
         /\ vtx[p].writes \in StagedRows /\ vtx[p].ahead \in StagedRows
         /\ vtx[p].call \in Calls /\ vtx[p].call \in CallRecords
         /\ DOMAIN vtx[p].writes \subseteq RowIds /\ \A r \in DOMAIN vtx[p].writes : vtx[p].writes[r] \in RowRecords
<1>1. vtx[p] \in TxRecords
  BY DEF ValuesTypeOK, Active, IdleTx
<1>2. vtx[p].writes \in StagedRows /\ vtx[p].ahead \in StagedRows /\ vtx[p].call \in Calls
  BY <1>1 DEF TxRecords
<1> QED
  BY <1>1, <1>2, StagedFacts, ValuesAssumption

\* What a transaction sees.
LEMMA ViewFacts ==
  ASSUME NEW w, NEW rows \in [RowIds -> RowStates], w.writes \in StagedRows
  PROVE  /\ ViewOf(w, rows) \in [RowIds -> RowStates]
         /\ \A r \in RowIds : ViewOf(w, rows)[r] = IF r \in DOMAIN w.writes THEN w.writes[r] ELSE rows[r]
BY StagedFacts DEF ViewOf, RowStates

\* What the statements of p read is the table as p would leave it.
LEMMA SeenIsView ==
  ASSUME NEW p \in Writers
  PROVE  Seen(p) = ViewOf(vtx[p], vrow)
BY DEF Seen, ViewOf

\* The two promises about values, one attribute at a time.
UniqueAt(rows, a) ==
    \A r, s \in Live(rows) : rows[r].attr = a /\ rows[s].attr = a /\ rows[r].val = rows[s].val => rows[r].ent = rows[s].ent
SingleAt(rows, a) ==
    \A r, s \in Live(rows) : rows[r].attr = a /\ rows[s].attr = a /\ rows[r].ent = rows[s].ent => r = s

\* A set of at most one member, said without counting.
LEMMA AtMostOne ==
  ASSUME NEW S, IsFiniteSet(S)
  PROVE  Cardinality(S) <= 1 <=> \A r, s \in S : r = s
<1>1. Cardinality(S) \in Nat
  BY FS_CardinalityType
<1>2. ASSUME Cardinality(S) <= 1, NEW r \in S, NEW s \in S, r # s PROVE FALSE
  <2>1. IsFiniteSet(S \ {r}) /\ Cardinality(S \ {r}) = Cardinality(S) - 1
    BY FS_RemoveElement
  <2>2. Cardinality(S \ {r}) \in Nat
    BY <2>1, FS_CardinalityType
  <2>3. Cardinality(S \ {r}) = 0
    BY <1>1, <1>2, <2>1, <2>2
  <2>4. S \ {r} = {}
    BY <2>1, <2>3, FS_EmptySet
  <2> QED
    BY <1>2, <2>4
<1>3. ASSUME \A r, s \in S : r = s PROVE Cardinality(S) <= 1
  <2>1. CASE S = {}
    BY <2>1, FS_EmptySet
  <2>2. CASE S # {}
    <3>1. PICK x : x \in S
      BY <2>2
    <3>2. S = {x}
      BY <1>3, <3>1
    <3> QED
      BY <3>2, FS_Singleton
  <2> QED
    BY <2>1, <2>2
<1> QED
  BY <1>2, <1>3

\* A cell has finitely many rows.
LEMMA CellsFinite ==
  ASSUME NEW rows, NEW a, NEW e
  PROVE  IsFiniteSet(LiveCell(rows, a, e))
<1>1. IsFiniteSet(RowIds)
  BY FS_Interval, ValuesAssumption DEF RowIds
<1>2. LiveCell(rows, a, e) \in SUBSET RowIds
  BY DEF LiveCell, Live
<1> QED
  BY <1>1, <1>2, FS_Subset

\* Uniqueness and the single value of a cell, one attribute at a time.
LEMMA ByAttribute ==
  ASSUME NEW rows \in [RowIds -> RowStates], NEW defs
  PROVE  /\ UniqueIn(rows, defs) <=> \A a \in Attrs : defs[a].unique => UniqueAt(rows, a)
         /\ OneValueIn(rows, defs) <=> \A a \in Attrs : ~defs[a].multi => SingleAt(rows, a)
<1>1. \A r \in Live(rows) : rows[r].attr \in Attrs /\ rows[r].ent \in Entities /\ r \in RowIds
  BY RowFacts DEF Live
<1>2. UniqueIn(rows, defs) <=> \A a \in Attrs : defs[a].unique => UniqueAt(rows, a)
  BY <1>1 DEF UniqueIn, UniqueAt
<1>3. \A a, e : Cardinality(LiveCell(rows, a, e)) <= 1 <=> \A r, s \in LiveCell(rows, a, e) : r = s
  BY CellsFinite, AtMostOne
<1>4. OneValueIn(rows, defs) <=> \A a \in Attrs : ~defs[a].multi => SingleAt(rows, a)
  <2>1. ASSUME OneValueIn(rows, defs), NEW a \in Attrs, ~defs[a].multi PROVE SingleAt(rows, a)
    <3> SUFFICES ASSUME NEW r \in Live(rows), NEW s \in Live(rows), rows[r].attr = a, rows[s].attr = a, rows[r].ent = rows[s].ent
                 PROVE  r = s
      BY DEF SingleAt
    <3>1. rows[r].ent \in Entities
      BY <1>1
    <3>2. Cardinality(LiveCell(rows, a, rows[r].ent)) <= 1
      BY <2>1, <3>1 DEF OneValueIn
    <3>3. r \in LiveCell(rows, a, rows[r].ent) /\ s \in LiveCell(rows, a, rows[r].ent)
      BY DEF LiveCell
    <3> QED
      BY <1>3, <3>2, <3>3
  <2>2. ASSUME \A a \in Attrs : ~defs[a].multi => SingleAt(rows, a) PROVE OneValueIn(rows, defs)
    <3> SUFFICES ASSUME NEW a \in Attrs, NEW e \in Entities, ~defs[a].multi
                 PROVE  \A r, s \in LiveCell(rows, a, e) : r = s
      BY <1>3 DEF OneValueIn
    <3> QED
      BY <2>2 DEF SingleAt, LiveCell
  <2> QED
    BY <2>1, <2>2
<1> QED
  BY <1>2, <1>4

\* Rows in which no more is live of an attribute than in others.
Below(low, high, a) ==
    \A r \in Live(low) : low[r].attr = a =>
        r \in Live(high) /\ high[r].attr = a /\ high[r].ent = low[r].ent /\ high[r].val = low[r].val

\* Rows below others keep what those promise.
LEMMA BelowKeeps ==
  ASSUME NEW low, NEW high, NEW a, Below(low, high, a)
  PROVE  (UniqueAt(high, a) => UniqueAt(low, a)) /\ (SingleAt(high, a) => SingleAt(low, a))
BY DEF Below, UniqueAt, SingleAt

\* Whoever does not hold a definition sees no more of it than is committed.
LEMMA OutsideTheLock ==
  ASSUME ValuesStrong, NEW p \in Writers, Active(p), NEW a \in Attrs, a \notin vtx[p].defs
  PROVE  Below(ViewOf(vtx[p], vrow), vrow, a)
<1> DEFINE V == ViewOf(vtx[p], vrow)
<1> SUFFICES ASSUME NEW r \in Live(V), V[r].attr = a
             PROVE  r \in Live(vrow) /\ vrow[r].attr = a /\ vrow[r].ent = V[r].ent /\ vrow[r].val = V[r].val
  BY DEF Below
<1>1. vrow \in [RowIds -> RowStates] /\ vtx[p].writes \in StagedRows /\ r \in RowIds /\ V[r].st = "live"
  BY TxFacts DEF ValuesStrong, ValuesTypeOK, Live
<1>2. V[r] = IF r \in DOMAIN vtx[p].writes THEN vtx[p].writes[r] ELSE vrow[r]
  BY <1>1, ViewFacts
<1>3. CASE r \in DOMAIN vtx[p].writes
  <2>1. RowStaged(vtx[p], r, vrow[r])
    BY <1>3 DEF ValuesStrong, StagedUnderLocks
  <2> HIDE DEF V
  <2>2. vrow[r].st = "live" /\ vrow[r].val = V[r].val /\ vrow[r].attr = V[r].attr /\ vrow[r].ent = V[r].ent
    BY <1>1, <1>2, <1>3, <2>1 DEF RowStaged
  <2> QED
    BY <1>1, <2>2 DEF Live
<1>4. CASE r \notin DOMAIN vtx[p].writes
  <2>1. V[r] = vrow[r]
    BY <1>2, <1>4
  <2> HIDE DEF V
  <2> QED
    BY <1>1, <2>1 DEF Live
<1> QED
  BY <1>3, <1>4

\* The item whose turn it is: one that is left, of the least entity.
LEMMA TurnFacts ==
  ASSUME ValuesStrong, NEW p \in Writers, NextItem(p)
  PROVE  /\ Active(p) /\ Turn(p) \in vtx[p].todo /\ Item(p) \in ItemRecords
         /\ \A i \in vtx[p].todo : vtx[p].call.items[i] \in ItemRecords /\ Item(p).ent <= vtx[p].call.items[i].ent
<1>1. Active(p) /\ vtx[p].todo # {}
  BY DEF NextItem, Active
<1>2. vtx[p].call \in CallRecords
  BY <1>1, TxFacts DEF ValuesStrong
<1> DEFINE its == vtx[p].call.items  todo == vtx[p].todo
<1>3. its \in Seq(ItemRecords) /\ todo \subseteq DOMAIN its
  BY <1>1, <1>2 DEF CallRecords, ValuesStrong, StagedUnderLocks, TxShaped
<1>4. todo \subseteq Nat /\ \A i \in todo : its[i] \in ItemRecords
  BY <1>3
<1>5. \A i \in todo : its[i].ent \in Nat
  BY <1>4, ValuesAssumption DEF ItemRecords, Entities
<1>6. PICK e \in {its[i].ent : i \in todo} : \A n \in {its[i].ent : i \in todo} : e <= n
  <2>1. {its[i].ent : i \in todo} \subseteq Nat /\ {its[i].ent : i \in todo} # {}
    BY <1>1, <1>5
  <2> QED
    BY <2>1, LeastNumber
<1>7. PICK m \in {i \in todo : its[i].ent = e} : \A n \in {i \in todo : its[i].ent = e} : m <= n
  <2>1. {i \in todo : its[i].ent = e} \subseteq Nat /\ {i \in todo : its[i].ent = e} # {}
    BY <1>4, <1>6
  <2> QED
    BY <2>1, LeastNumber
<1>8. m \in todo /\ \A j \in todo : CanonicalOrder(its, m, j)
  <2>1. m \in todo /\ its[m].ent = e
    BY <1>7
  <2>2. ASSUME NEW j \in todo PROVE e <= its[j].ent /\ (its[j].ent = e => m <= j) /\ its[j].ent \in Nat /\ e \in Nat
    BY <1>5, <1>6, <1>7, <2>1
  <2> QED
    BY <2>1, <2>2 DEF CanonicalOrder
<1>9. Turn(p) \in todo /\ \A j \in todo : CanonicalOrder(its, Turn(p), j)
  BY <1>8 DEF Turn
<1>10. Item(p) = its[Turn(p)]
  BY DEF Item
<1> HIDE DEF its, todo
<1>11. \A j \in todo : Item(p).ent <= its[j].ent
  BY <1>5, <1>9, <1>10 DEF CanonicalOrder
<1> QED
  BY <1>1, <1>4, <1>9, <1>10, <1>11 DEF its, todo

\* An initial table: nobody is writing.
LEMMA ValuesStart == ValuesInit => ValuesStrong
<1> SUFFICES ASSUME ValuesInit PROVE ValuesStrong
  OBVIOUS
<1>1. ValuesTypeOK
  BY ValuesAssumption DEF ValuesInit, ValuesTypeOK, RowStates, DefRecords
<1>2. \A p \in Writers : ~Active(p)
  BY DEF ValuesInit, Active, IdleTx
<1>3. TableFine(vrow, vdef, races)
  BY ValuesAssumption DEF ValuesInit, TableFine
<1> QED
  BY <1>1, <1>2, <1>3 DEF ValuesStrong, StagedUnderLocks, AheadStays, WritersApart, EntitiesApart, ImportsKnow, ViewsFine

\* A transaction p that becomes w while the table stays as it is: what it has to keep.
Apart(p, w) ==
    \A q \in Writers \ {p} : Active(q) =>
        /\ DOMAIN w.writes \cap DOMAIN vtx[q].writes = {}
        /\ w.defs \cap vtx[q].defs = {} /\ w.sums \cap vtx[q].sums = {}
Alone(p, w) ==
    \A q \in Writers \ {p} : Active(q) =>
        \A r \in DOMAIN w.writes, s \in DOMAIN vtx[q].writes : w.writes[r].ent # vtx[q].writes[s].ent
Knows(w) == w.call.kind = "import" => \A r \in Live(vrow) : vrow[r].ent \in EntitiesOf(w.call) => r \in DOMAIN w.ahead
StagedWell(w) == TxShaped(w) /\ \A r \in DOMAIN w.writes : RowStaged(w, r, vrow[r])
AheadWell(w) ==
    \A r \in DOMAIN w.ahead : vrow[r].st # "none" /\ w.ahead[r].attr = vrow[r].attr /\ w.ahead[r].ent = vrow[r].ent

\* A transaction that moves on as TxStep asks keeps the inductive invariant.
LEMMA TxStep ==
  ASSUME ValuesStrong, NEW p \in Writers, NEW w \in TxRecords, vtx' = [vtx EXCEPT ![p] = w],
         vrow' = vrow, vdef' = vdef, races' \in Nat, races' = 0 => races = 0,
         StagedWell(w), AheadWell(w), Apart(p, w), races' = 0 => Alone(p, w) /\ Knows(w),
         TableFine(ViewOf(w, vrow), vdef, races')
  PROVE  ValuesStrong'
<1>1. vtx \in [Writers -> TxRecords \cup {IdleTx}] /\ vtx'[p] = w /\ \A q \in Writers \ {p} : vtx'[q] = vtx[q]
  BY DEF ValuesStrong, ValuesTypeOK
<1>2. \A q \in Writers \ {p} : Active(q)' <=> Active(q)
  BY <1>1 DEF Active
<1>3. ValuesTypeOK'
  BY <1>1 DEF ValuesStrong, ValuesTypeOK
<1>4. StagedUnderLocks'
  <2> SUFFICES ASSUME NEW q \in Writers, Active(q)'
               PROVE  TxShaped(vtx'[q]) /\ \A r \in DOMAIN vtx'[q].writes : RowStaged(vtx'[q], r, vrow[r])
    BY DEF StagedUnderLocks
  <2>1. CASE q = p
    BY <1>1, <2>1 DEF StagedWell
  <2>2. CASE q # p
    BY <1>1, <1>2, <2>2 DEF ValuesStrong, StagedUnderLocks
  <2> QED
    BY <2>1, <2>2
<1>5. AheadStays'
  <2> SUFFICES ASSUME NEW q \in Writers, Active(q)' PROVE AheadWell(vtx'[q])
    BY DEF AheadStays, AheadWell
  <2>1. CASE q = p
    BY <1>1, <2>1
  <2>2. CASE q # p
    BY <1>1, <1>2, <2>2 DEF ValuesStrong, AheadStays, AheadWell
  <2> QED
    BY <2>1, <2>2
<1>6. WritersApart'
  BY <1>1, <1>2 DEF ValuesStrong, WritersApart, Apart
<1>7. EntitiesApart'
  BY <1>1, <1>2 DEF ValuesStrong, EntitiesApart, Alone
<1>8. ImportsKnow'
  <2> SUFFICES ASSUME races' = 0, NEW q \in Writers, Active(q)', vtx'[q].call.kind = "import",
                      NEW r \in Live(vrow), vrow[r].ent \in EntitiesOf(vtx'[q].call)
               PROVE  r \in DOMAIN vtx'[q].ahead
    BY DEF ImportsKnow
  <2>1. CASE q = p
    BY <1>1, <2>1 DEF Knows
  <2>2. CASE q # p
    BY <1>1, <1>2, <2>2 DEF ValuesStrong, ImportsKnow
  <2> QED
    BY <2>1, <2>2
<1>9. ViewsFine'
  <2>1. \A rows : TableFine(rows, vdef, races) => TableFine(rows, vdef, races')
    BY DEF TableFine
  <2>2. \A q \in Writers : Active(q)' => TableFine(ViewOf(vtx'[q], vrow), vdef, races')
    BY <1>1, <1>2, <2>1 DEF ValuesStrong, ViewsFine
  <2>3. TableFine(vrow, vdef, races')
    BY <2>1 DEF ValuesStrong, ViewsFine
  <2> QED
    BY <2>2, <2>3 DEF ViewsFine
<1> QED
  BY <1>3, <1>4, <1>5, <1>6, <1>7, <1>8, <1>9 DEF ValuesStrong

\* A rollback gives up all there is of a transaction.
LEMMA RollbackKeeps ==
  ASSUME ValuesStrong, NEW p \in Writers, vtx' = [vtx EXCEPT ![p] = IdleTx],
         vrow' = vrow, vdef' = vdef, races' = races
  PROVE  ValuesStrong'
<1>1. vtx \in [Writers -> TxRecords \cup {IdleTx}] /\ vtx'[p] = IdleTx /\ \A q \in Writers \ {p} : vtx'[q] = vtx[q]
  BY DEF ValuesStrong, ValuesTypeOK
<1>2. ~Active(p)' /\ \A q \in Writers \ {p} : Active(q)' <=> Active(q)
  BY <1>1 DEF Active, IdleTx
<1>3. \A q \in Writers : Active(q)' => Active(q) /\ vtx'[q] = vtx[q]
  BY <1>1, <1>2
<1>4. ValuesTypeOK'
  BY <1>1 DEF ValuesStrong, ValuesTypeOK
<1>5. StagedUnderLocks' /\ AheadStays'
  BY <1>3 DEF ValuesStrong, StagedUnderLocks, AheadStays
<1>6. WritersApart' /\ EntitiesApart'
  BY <1>3 DEF ValuesStrong, WritersApart, EntitiesApart
<1>7. ImportsKnow'
  BY <1>3 DEF ValuesStrong, ImportsKnow
<1>8. ViewsFine'
  BY <1>3 DEF ValuesStrong, ViewsFine
<1> QED
  BY <1>4, <1>5, <1>6, <1>7, <1>8 DEF ValuesStrong

\* A transaction that opens has staged nothing and locked nothing.
LEMMA BeginKeeps ==
  ASSUME ValuesStrong, NEW p \in Writers, NEW c \in Calls, Begin(p, c)
  PROVE  ValuesStrong'
<1>1. PICK w : w = NewTx(c, ItemsOf(c), ReadAhead(c))
  OBVIOUS
<1>2. vtx' = [vtx EXCEPT ![p] = w] /\ vrow' = vrow /\ vdef' = vdef /\ races' = races
  BY <1>1 DEF Begin
<1>3. /\ w.pc = "run" /\ w.call = c /\ w.todo = ItemsOf(c) /\ w.ahead = ReadAhead(c) /\ w.defs = {} /\ w.sums = {}
      /\ w.writes = << >> /\ w.refs = {} /\ w.gone = {}
  BY <1>1 DEF NewTx
<1>4. DOMAIN w.writes = {} /\ w.writes \in StagedRows
  <2>1. << >> \in Seq(RowRecords) /\ Len(<< >>) = 0
    OBVIOUS
  <2>2. << >> \in [1..0 -> RowRecords]
    BY <2>1
  <2>3. 1..0 = {}
    OBVIOUS
  <2>4. << >> \in [{} -> RowRecords]
    BY <2>2, <2>3
  <2> QED
    BY <1>3, <2>4 DEF StagedRows
<1>5. c \in CallRecords /\ DOMAIN c.items \subseteq Nat /\ ItemsOf(c) \subseteq DOMAIN c.items
  BY ValuesAssumption DEF CallRecords, ItemsOf
<1>6. vrow \in [RowIds -> RowStates] /\ races \in Nat
  BY DEF ValuesStrong, ValuesTypeOK
<1>7. ReadAhead(c) \in StagedRows /\ \A r \in DOMAIN ReadAhead(c) : r \in Live(vrow) /\ ReadAhead(c)[r] = vrow[r]
  <2>1. /\ DOMAIN ReadAhead(c) \subseteq Live(vrow) /\ \A r \in DOMAIN ReadAhead(c) : ReadAhead(c)[r] = vrow[r]
        /\ ReadAhead(c) = [r \in DOMAIN ReadAhead(c) |-> ReadAhead(c)[r]]
    BY DEF ReadAhead
  <2>2. \A r \in Live(vrow) : r \in RowIds /\ vrow[r] \in RowRecords
    BY <1>6, RowFacts DEF Live
  <2> QED
    BY <2>1, <2>2, StagedFacts
<1>8. w \in TxRecords
  <2>1. w = [pc |-> "run", call |-> c, todo |-> w.todo, ahead |-> w.ahead, defs |-> {}, sums |-> {},
             writes |-> w.writes, refs |-> {}, gone |-> {}]
    BY <1>1, <1>3 DEF NewTx
  <2>2. w.todo \in SUBSET Nat /\ w.ahead \in StagedRows /\ w.writes \in StagedRows
    BY <1>3, <1>4, <1>5, <1>7
  <2> QED
    BY <2>1, <2>2 DEF TxRecords
<1>9. StagedWell(w) /\ Apart(p, w) /\ Alone(p, w)
  BY <1>3, <1>4, <1>5 DEF StagedWell, TxShaped, Apart, Alone
<1>10. AheadWell(w)
  BY <1>3, <1>7 DEF AheadWell, Live
<1>11. Knows(w)
  <2>1. c.kind = "import" => DOMAIN ReadAhead(c) = {s \in Live(vrow) : vrow[s].ent \in EntitiesOf(c)}
    BY DEF ReadAhead
  <2> QED
    BY <1>3, <2>1 DEF Knows
<1>12. TableFine(ViewOf(w, vrow), vdef, races)
  <2>1. ViewOf(w, vrow) = vrow
    BY <1>4, <1>6 DEF ViewOf
  <2> QED
    BY <2>1 DEF ValuesStrong, ViewsFine
<1> QED
  BY <1>2, <1>6, <1>8, <1>9, <1>10, <1>11, <1>12, TxStep

\* What a transaction under way keeps.
LEMMA OwnFacts ==
  ASSUME ValuesStrong, NEW p \in Writers, Active(p)
  PROVE  /\ StagedWell(vtx[p]) /\ AheadWell(vtx[p]) /\ Apart(p, vtx[p])
         /\ races = 0 => Alone(p, vtx[p]) /\ Knows(vtx[p])
         /\ TableFine(ViewOf(vtx[p], vrow), vdef, races) /\ races \in Nat
<1>1. StagedWell(vtx[p]) /\ AheadWell(vtx[p])
  BY DEF ValuesStrong, StagedUnderLocks, StagedWell, AheadStays, AheadWell
<1>2. Apart(p, vtx[p])
  BY DEF ValuesStrong, WritersApart, Apart
<1>3. races = 0 => Alone(p, vtx[p]) /\ Knows(vtx[p])
  BY DEF ValuesStrong, EntitiesApart, Alone, ImportsKnow, Knows
<1> QED
  BY <1>1, <1>2, <1>3 DEF ValuesStrong, ViewsFine, ValuesTypeOK

\* A step of p that changes neither its rows nor its summaries.
LEMMA QuietTxStep ==
  ASSUME ValuesStrong, NEW p \in Writers, Active(p), NEW w \in TxRecords, vtx' = [vtx EXCEPT ![p] = w],
         vrow' = vrow, vdef' = vdef, races' = races,
         w.call = vtx[p].call, w.todo = vtx[p].todo, w.ahead = vtx[p].ahead, w.sums = vtx[p].sums, w.writes = vtx[p].writes,
         vtx[p].defs \subseteq w.defs,
         \A q \in Writers \ {p} : Active(q) => w.defs \cap vtx[q].defs = {}
  PROVE  ValuesStrong'
<1>1. StagedWell(w) /\ AheadWell(w) /\ Apart(p, w)
  <2>1. TxShaped(w) /\ AheadWell(w) /\ Apart(p, w)
    BY OwnFacts DEF StagedWell, TxShaped, AheadWell, Apart
  <2>2. \A r \in DOMAIN w.writes : RowStaged(w, r, vrow[r])
    BY OwnFacts DEF StagedWell, RowStaged
  <2> QED
    BY <2>1, <2>2 DEF StagedWell
<1>2. races = 0 => Alone(p, w) /\ Knows(w)
  BY OwnFacts DEF Alone, Knows
<1>3. ViewOf(w, vrow) = ViewOf(vtx[p], vrow)
  BY DEF ViewOf
<1> QED
  BY <1>1, <1>2, <1>3, OwnFacts, TxStep

\* lockDefinition: the definition was free.
LEMMA LockDefinitionKeeps ==
  ASSUME ValuesStrong, NEW p \in Writers, LockDefinition(p)
  PROVE  ValuesStrong'
<1>1. Active(p)
  BY DEF LockDefinition, NextItem, Active
<1>2. PICK a : a = Item(p).attr
  OBVIOUS
<1>3. /\ vtx' = [vtx EXCEPT ![p].defs = @ \cup {a}] /\ DefFree(p, a)
      /\ vrow' = vrow /\ vdef' = vdef /\ races' = races
  BY <1>2 DEF LockDefinition
<1>4. a \in Attrs
  <2>1. Turn(p) \in vtx[p].todo
    BY TurnFacts DEF LockDefinition
  <2> QED
    BY <1>2, TurnFacts DEF LockDefinition, ItemRecords
<1>5. PICK w : w = [vtx[p] EXCEPT !.defs = @ \cup {a}]
  OBVIOUS
<1>6. vtx[p] \in TxRecords
  BY <1>1, TxFacts DEF ValuesStrong
<1>7. /\ w \in TxRecords /\ w.defs = vtx[p].defs \cup {a} /\ w.call = vtx[p].call /\ w.todo = vtx[p].todo
      /\ w.ahead = vtx[p].ahead /\ w.sums = vtx[p].sums /\ w.writes = vtx[p].writes
  BY <1>4, <1>5, <1>6 DEF TxRecords
<1>8. vtx' = [vtx EXCEPT ![p] = w]
  BY <1>3, <1>5 DEF ValuesStrong, ValuesTypeOK
<1>9. \A q \in Writers \ {p} : Active(q) => w.defs \cap vtx[q].defs = {}
  BY <1>1, <1>3, <1>7, OwnFacts DEF DefFree, Others, Apart
<1> QED
  BY <1>1, <1>3, <1>7, <1>8, <1>9, QuietTxStep

\* RunChecks stages nothing.
LEMMA RunChecksKeeps ==
  ASSUME ValuesStrong, NEW p \in Writers, RunChecks(p)
  PROVE  ValuesStrong'
<1>1. Active(p)
  BY DEF RunChecks, Done, Active
<1>2. vtx' = [vtx EXCEPT ![p].pc = "checked"] /\ vrow' = vrow /\ vdef' = vdef /\ races' = races
  BY DEF RunChecks
<1>5. PICK w : w = [vtx[p] EXCEPT !.pc = "checked"]
  OBVIOUS
<1>6. vtx[p] \in TxRecords
  BY <1>1, TxFacts DEF ValuesStrong
<1>7. /\ w \in TxRecords /\ w.defs = vtx[p].defs /\ w.call = vtx[p].call /\ w.todo = vtx[p].todo
      /\ w.ahead = vtx[p].ahead /\ w.sums = vtx[p].sums /\ w.writes = vtx[p].writes
  BY <1>5, <1>6 DEF TxRecords
<1>8. vtx' = [vtx EXCEPT ![p] = w]
  BY <1>2, <1>5 DEF ValuesStrong, ValuesTypeOK
<1>9. \A q \in Writers \ {p} : Active(q) => w.defs \cap vtx[q].defs = {}
  BY <1>1, <1>7, OwnFacts DEF Apart
<1> QED
  BY <1>1, <1>2, <1>7, <1>8, <1>9, QuietTxStep

\* What a transaction saw is the table when it commits; the others see the rest of what they saw.
LEMMA CommitKeeps ==
  ASSUME ValuesStrong, NEW p \in Writers, Commit(p)
  PROVE  ValuesStrong'
<1> DEFINE V == ViewOf(vtx[p], vrow)
<1>1. /\ Active(p) /\ vrow' = V /\ vtx' = [vtx EXCEPT ![p] = IdleTx] /\ vdef' = vdef
      /\ Race(Overtakes(p))
  BY DEF Commit, Active, ViewOf
<1>2. /\ races \in Nat /\ vtx \in [Writers -> TxRecords \cup {IdleTx}] /\ vrow \in [RowIds -> RowStates]
      /\ vtx[p].writes \in StagedRows /\ DOMAIN vtx[p].writes \subseteq RowIds
      /\ \A r \in DOMAIN vtx[p].writes : vtx[p].writes[r] \in RowRecords
  BY <1>1, TxFacts DEF ValuesStrong, ValuesTypeOK
<1>3. races' \in Nat /\ (races' = 0 => races = 0 /\ ~Overtakes(p))
  BY <1>1, <1>2 DEF Race
<1>4. vtx'[p] = IdleTx /\ \A q \in Writers \ {p} : vtx'[q] = vtx[q]
  BY <1>1, <1>2
<1>5. \A q \in Writers : Active(q)' => Active(q) /\ q # p /\ vtx'[q] = vtx[q]
  BY <1>4 DEF Active, IdleTx
<1>6. V \in [RowIds -> RowStates] /\ \A r \in RowIds : V[r] = IF r \in DOMAIN vtx[p].writes THEN vtx[p].writes[r] ELSE vrow[r]
  BY <1>2, ViewFacts
<1>7. \A r \in DOMAIN vtx[p].writes : RowStaged(vtx[p], r, vrow[r])
  BY <1>1, OwnFacts DEF StagedWell
<1> HIDE DEF V
<1>8. \A r \in RowIds : vrow[r].st # "none" => V[r].st # "none" /\ V[r].attr = vrow[r].attr /\ V[r].ent = vrow[r].ent
  BY <1>2, <1>6, <1>7, RowFacts DEF RowStaged
<1>9. ValuesTypeOK'
  BY <1>1, <1>2, <1>3, <1>6 DEF ValuesStrong, ValuesTypeOK
<1>10. StagedUnderLocks'
  <2> SUFFICES ASSUME NEW q \in Writers, Active(q)'
               PROVE  TxShaped(vtx[q]) /\ \A r \in DOMAIN vtx[q].writes : RowStaged(vtx[q], r, V[r])
    BY <1>1, <1>5 DEF StagedUnderLocks
  <2>1. Active(q) /\ q # p
    BY <1>5
  <2>2. \A r \in DOMAIN vtx[q].writes : r \in RowIds /\ r \notin DOMAIN vtx[p].writes
    BY <1>1, <2>1, TxFacts DEF ValuesStrong, WritersApart
  <2>3. \A r \in DOMAIN vtx[q].writes : V[r] = vrow[r]
    BY <1>6, <2>2
  <2> QED
    BY <2>1, <2>3, OwnFacts DEF StagedWell
<1>11. AheadStays'
  <2> SUFFICES ASSUME NEW q \in Writers, Active(q)', NEW r \in DOMAIN vtx[q].ahead
               PROVE  V[r].st # "none" /\ vtx[q].ahead[r].attr = V[r].attr /\ vtx[q].ahead[r].ent = V[r].ent
    BY <1>1, <1>5 DEF AheadStays
  <2>1. Active(q) /\ r \in RowIds
    BY <1>5, TxFacts, StagedFacts DEF ValuesStrong
  <2> QED
    BY <1>8, <2>1 DEF ValuesStrong, AheadStays
<1>12. WritersApart'
  BY <1>5 DEF ValuesStrong, WritersApart
<1>13. EntitiesApart'
  BY <1>3, <1>5 DEF ValuesStrong, EntitiesApart
<1>14. ImportsKnow'
  <2> SUFFICES ASSUME races' = 0, NEW q \in Writers, Active(q)', vtx[q].call.kind = "import",
                      NEW r \in Live(V), V[r].ent \in EntitiesOf(vtx[q].call)
               PROVE  r \in DOMAIN vtx[q].ahead
    BY <1>1, <1>5 DEF ImportsKnow
  <2>1. Active(q) /\ q # p /\ r \in RowIds /\ races = 0 /\ ~Overtakes(p)
    BY <1>3, <1>5 DEF Live
  <2>2. r \notin DOMAIN vtx[p].writes
    BY <1>6, <2>1 DEF Overtakes, Others
  <2>3. V[r] = vrow[r] /\ r \in Live(vrow)
    BY <1>6, <2>1, <2>2 DEF Live
  <2> QED
    BY <2>1, <2>3 DEF ValuesStrong, ImportsKnow
<1>15. TableFine(V, vdef, races)
  BY <1>1, OwnFacts DEF V
<1>16. TableFine(V, vdef, races')
  BY <1>3, <1>15 DEF TableFine
<1>17. ASSUME NEW q \in Writers, Active(q)' PROVE TableFine(ViewOf(vtx[q], V), vdef, races')
  <2>1. Active(q) /\ q # p
    BY <1>5, <1>17
  <2> DEFINE O == ViewOf(vtx[q], vrow)  N == ViewOf(vtx[q], V)
  <2>2. vtx[q].writes \in StagedRows /\ \A r \in DOMAIN vtx[q].writes : r \notin DOMAIN vtx[p].writes
    BY <1>1, <2>1, TxFacts DEF ValuesStrong, WritersApart
  <2>3. /\ O \in [RowIds -> RowStates] /\ N \in [RowIds -> RowStates]
        /\ \A r \in RowIds : /\ O[r] = IF r \in DOMAIN vtx[q].writes THEN vtx[q].writes[r] ELSE vrow[r]
                             /\ N[r] = IF r \in DOMAIN vtx[q].writes THEN vtx[q].writes[r] ELSE V[r]
    BY <1>2, <1>6, <2>2, ViewFacts
  <2>4. TableFine(O, vdef, races)
    BY <2>1, OwnFacts
  <2> HIDE DEF O, N
  \* An attribute p has locked is as p saw it; of another, p made nothing new live.
  <2>5. ASSUME NEW a \in Attrs PROVE Below(N, V, a) \/ Below(N, O, a)
    <3>1. CASE a \in vtx[p].defs
      <4>1. a \notin vtx[q].defs
        BY <1>1, <2>1, <3>1 DEF ValuesStrong, WritersApart
      <4>2. Below(O, vrow, a)
        BY <2>1, <4>1, OutsideTheLock DEF O
      <4>3. ASSUME NEW r \in Live(N), N[r].attr = a
            PROVE  r \in Live(V) /\ V[r].attr = a /\ V[r].ent = N[r].ent /\ V[r].val = N[r].val
        <5>1. r \in RowIds /\ N[r].st = "live"
          BY DEF Live
        <5>2. CASE r \in DOMAIN vtx[q].writes
          <6>1. O[r] = N[r] /\ V[r] = vrow[r]
            BY <1>6, <2>2, <2>3, <5>1, <5>2
          <6>2. r \in Live(O)
            BY <5>1, <6>1 DEF Live
          <6> QED
            BY <4>2, <4>3, <5>1, <6>1, <6>2 DEF Below, Live
        <5>3. CASE r \notin DOMAIN vtx[q].writes
          BY <2>3, <4>3, <5>1, <5>3 DEF Live
        <5> QED
          BY <5>2, <5>3
      <4> QED
        BY <4>3 DEF Below
    <3>2. CASE a \notin vtx[p].defs
      <4>1. Below(V, vrow, a)
        BY <1>1, <3>2, OutsideTheLock DEF V
      <4>2. ASSUME NEW r \in Live(N), N[r].attr = a
            PROVE  r \in Live(O) /\ O[r].attr = a /\ O[r].ent = N[r].ent /\ O[r].val = N[r].val
        <5>1. r \in RowIds /\ N[r].st = "live"
          BY DEF Live
        <5>2. CASE r \in DOMAIN vtx[q].writes
          BY <2>3, <4>2, <5>1, <5>2 DEF Live
        <5>3. CASE r \notin DOMAIN vtx[q].writes
          <6>1. N[r] = V[r] /\ O[r] = vrow[r]
            BY <2>3, <5>1, <5>3
          <6>2. r \in Live(V)
            BY <5>1, <6>1 DEF Live
          <6> QED
            BY <4>1, <4>2, <5>1, <6>1, <6>2 DEF Below, Live
        <5> QED
          BY <5>2, <5>3
      <4> QED
        BY <4>2 DEF Below
    <3> QED
      BY <3>1, <3>2
  <2>6. UniqueIn(N, vdef)
    <3>1. \A a \in Attrs : vdef[a].unique => UniqueAt(O, a) /\ UniqueAt(V, a)
      BY <1>6, <1>15, <2>3, <2>4, ByAttribute DEF TableFine
    <3>2. \A a \in Attrs : vdef[a].unique => UniqueAt(N, a)
      BY <2>5, <3>1, BelowKeeps
    <3> QED
      BY <2>3, <3>2, ByAttribute
  <2>7. ASSUME races' = 0 PROVE OneValueIn(N, vdef)
    <3>1. \A a \in Attrs : ~vdef[a].multi => SingleAt(O, a) /\ SingleAt(V, a)
      BY <1>3, <1>6, <1>15, <2>3, <2>4, <2>7, ByAttribute DEF TableFine
    <3>2. \A a \in Attrs : ~vdef[a].multi => SingleAt(N, a)
      BY <2>5, <3>1, BelowKeeps
    <3> QED
      BY <2>3, <3>2, ByAttribute
  <2>8. ASSUME races' = 0 PROVE OneAnchorIn(N)
    <3>1. races = 0 /\ OneAnchorIn(O) /\ OneAnchorIn(V)
      BY <1>3, <1>15, <2>4, <2>8 DEF TableFine
    <3>2. \A r \in DOMAIN vtx[p].writes, s \in DOMAIN vtx[q].writes : vtx[p].writes[r].ent # vtx[q].writes[s].ent
      BY <1>1, <2>1, <3>1 DEF ValuesStrong, EntitiesApart
    <3> SUFFICES ASSUME NEW r \in RowIds, NEW s \in RowIds, N[r].st # "none", N[s].st # "none", N[r].ent = N[s].ent
                 PROVE  N[r].typ = N[s].typ
      BY DEF OneAnchorIn
    <3>3. CASE r \in DOMAIN vtx[p].writes \/ s \in DOMAIN vtx[p].writes
      <4>1. r \notin DOMAIN vtx[q].writes /\ s \notin DOMAIN vtx[q].writes
        BY <1>6, <2>2, <2>3, <3>2, <3>3
      <4>2. N[r] = V[r] /\ N[s] = V[s]
        BY <2>3, <4>1
      <4> QED
        BY <3>1, <4>2 DEF OneAnchorIn
    <3>4. CASE r \notin DOMAIN vtx[p].writes /\ s \notin DOMAIN vtx[p].writes
      <4>1. N[r] = O[r] /\ N[s] = O[s]
        BY <1>6, <2>3, <3>4
      <4> QED
        BY <3>1, <4>1 DEF OneAnchorIn
    <3> QED
      BY <3>3, <3>4
  <2> QED
    BY <2>6, <2>7, <2>8 DEF TableFine, N
<1>18. ViewsFine'
  BY <1>1, <1>5, <1>16, <1>17 DEF ViewsFine
<1> QED
  BY <1>9, <1>10, <1>11, <1>12, <1>13, <1>14, <1>18 DEF ValuesStrong

\* An edit of a definition judges what is committed, and nobody sees more of it.
LEMMA EditDefinitionKeeps ==
  ASSUME ValuesStrong, NEW a \in Attrs, EditDefinition(a)
  PROVE  ValuesStrong'
<1>1. /\ \A q \in Writers : Active(q) => a \notin vtx[q].defs
      /\ vrow' = vrow /\ vtx' = vtx /\ races' = races
  BY DEF EditDefinition
<1>2. vrow \in [RowIds -> RowStates] /\ vdef \in [Attrs -> DefRecords]
  BY DEF ValuesStrong, ValuesTypeOK
<1>3. /\ vdef' \in [Attrs -> DefRecords]
      /\ \A b \in Attrs : vdef'[b].unique => vdef[b].unique \/ (b = a /\ ~HasDuplicates(a))
      /\ \A b \in Attrs : ~vdef'[b].multi => ~vdef[b].multi \/ (b = a /\ ~HasMany(a))
  <2>1. CASE ~HasDuplicates(a) /\ vdef' = [vdef EXCEPT ![a].unique = TRUE]
    BY <1>2, <2>1 DEF DefRecords
  <2>2. CASE ~HasMany(a) /\ vdef' = [vdef EXCEPT ![a].multi = FALSE]
    BY <1>2, <2>2 DEF DefRecords
  <2>3. CASE vdef' = [vdef EXCEPT ![a].archived = TRUE]
    BY <1>2, <2>3 DEF DefRecords
  <2> QED
    BY <2>1, <2>2, <2>3 DEF EditDefinition
<1>4. ~HasDuplicates(a) => UniqueAt(vrow, a)
  BY DEF HasDuplicates, UniqueAt
<1>5. ~HasMany(a) => SingleAt(vrow, a)
  <2> SUFFICES ASSUME ~HasMany(a), NEW r \in Live(vrow), NEW s \in Live(vrow), vrow[r].attr = a, vrow[s].attr = a,
                      vrow[r].ent = vrow[s].ent
               PROVE  r = s
    BY DEF SingleAt
  <2>1. vrow[r].ent \in Entities
    BY <1>2, RowFacts DEF Live
  <2>2. ~(Cardinality(LiveCell(vrow, a, vrow[r].ent)) > 1)
    BY <2>1 DEF HasMany, Entities
  <2>3. IsFiniteSet(LiveCell(vrow, a, vrow[r].ent))
    BY CellsFinite
  <2>4. Cardinality(LiveCell(vrow, a, vrow[r].ent)) \in Nat
    BY <2>3, FS_CardinalityType
  <2>5. Cardinality(LiveCell(vrow, a, vrow[r].ent)) <= 1
    BY <2>2, <2>4
  <2>6. r \in LiveCell(vrow, a, vrow[r].ent) /\ s \in LiveCell(vrow, a, vrow[r].ent)
    BY DEF LiveCell
  <2> QED
    BY <2>3, <2>5, <2>6, AtMostOne
<1>6. ASSUME NEW rows \in [RowIds -> RowStates], TableFine(rows, vdef, races), Below(rows, vrow, a)
      PROVE  TableFine(rows, vdef', races)
  <2>1. \A b \in Attrs : vdef'[b].unique => UniqueAt(rows, b)
    BY <1>3, <1>4, <1>6, ByAttribute, BelowKeeps DEF TableFine
  <2>2. races = 0 => \A b \in Attrs : ~vdef'[b].multi => SingleAt(rows, b)
    BY <1>3, <1>5, <1>6, ByAttribute, BelowKeeps DEF TableFine
  <2> QED
    BY <1>6, <2>1, <2>2, ByAttribute DEF TableFine
<1>7. TableFine(vrow, vdef', races)
  BY <1>2, <1>6 DEF Below, ValuesStrong, ViewsFine
<1>8. ASSUME NEW q \in Writers, Active(q) PROVE TableFine(ViewOf(vtx[q], vrow), vdef', races)
  <2>1. ViewOf(vtx[q], vrow) \in [RowIds -> RowStates]
    BY <1>2, <1>8, TxFacts, ViewFacts DEF ValuesStrong
  <2>2. Below(ViewOf(vtx[q], vrow), vrow, a)
    BY <1>1, <1>8, OutsideTheLock
  <2> QED
    BY <1>6, <1>8, <2>1, <2>2, OwnFacts
<1>9. \A q \in Writers : Active(q)' <=> Active(q)
  BY <1>1 DEF Active
<1>10. ViewsFine'
  BY <1>1, <1>7, <1>8, <1>9 DEF ViewsFine
<1> QED
  BY <1>1, <1>3, <1>9, <1>10 DEF ValuesStrong, ValuesTypeOK, StagedUnderLocks, AheadStays, WritersApart, EntitiesApart, ImportsKnow

\* What a statement of p makes of the rows it sees, for entity e: rows keep their attribute and
\* their entity, and only under the definition's lock does a live one appear or change.
RowMoves(p, new, old, e) ==
    /\ new \in RowRecords /\ new.ent = e
    /\ old.st # "none" => new.attr = old.attr /\ old.ent = e
    /\ new.st = "live" => new.attr \in vtx[p].defs \/ (old.st = "live" /\ new.val = old.val)
Moves(p, W, e) == \A r \in RowIds : W[r] # Seen(p)[r] => RowMoves(p, W[r], Seen(p)[r], e)
\* Whoever else stages rows of e stages them under the type of the rows that change.
SameAnchor(p, W, e) ==
    \A r \in RowIds : W[r] # Seen(p)[r] => \A q \in Others(p) : \A s \in DOMAIN vtx[q].writes :
        vtx[q].writes[s].ent = e => vtx[q].writes[s].typ = W[r].typ

\* The summaries a statement touches are of its entity, those of the changed rows among them.
LEMMA TouchedFacts ==
  ASSUME ValuesStrong, NEW p \in Writers, Active(p), NEW W \in [RowIds -> RowStates], NEW e \in Entities, Moves(p, W, e)
  PROVE  /\ Touched(p, W) \subseteq Types \X Entities /\ \A k \in Touched(p, W) : k[2] = e
         /\ \A r \in RowIds : W[r] # Seen(p)[r] => <<W[r].typ, e>> \in Touched(p, W)
         /\ Touched(p, W) # {} => \E r \in RowIds : W[r] # Seen(p)[r]
<1> DEFINE S == Seen(p)  D == {r \in RowIds : W[r] # S[r]}
<1>1. S \in [RowIds -> RowStates]
  BY TxFacts, ViewFacts, SeenIsView DEF ValuesStrong, ValuesTypeOK
<1>2. Touched(p, W) = SummariesOf(W, D) \cup SummariesOf(S, D)
  BY DEF Touched
<1>3. \A r \in D : /\ W[r] \in RowRecords /\ W[r].st # "none" /\ W[r].ent = e /\ W[r].typ \in Types
                   /\ S[r].st # "none" => S[r].ent = e /\ S[r].typ \in Types
  BY <1>1, RowFacts DEF Moves, RowMoves
<1> HIDE DEF S
<1>4. \A k \in SummariesOf(W, D) \cup SummariesOf(S, D) :
        \E r \in D : (k = <<W[r].typ, e>> /\ W[r].typ \in Types) \/ (k = <<S[r].typ, e>> /\ S[r].typ \in Types)
  BY <1>3 DEF SummariesOf
<1>5. \A r \in D : <<W[r].typ, W[r].ent>> \in SummariesOf(W, D)
  BY <1>3 DEF SummariesOf
<1>6. \A r \in D : <<W[r].typ, e>> \in Touched(p, W)
  BY <1>2, <1>3, <1>5
<1>7. Touched(p, W) \subseteq Types \X Entities /\ \A k \in Touched(p, W) : k[2] = e
  BY <1>2, <1>4
<1>8. Touched(p, W) # {} => D # {}
  BY <1>2, <1>4
<1> QED
  BY <1>6, <1>7, <1>8 DEF S

\* What is staged after the statement.
LEMMA ChangedFacts ==
  ASSUME ValuesStrong, NEW p \in Writers, Active(p), NEW W \in [RowIds -> RowStates], NEW e, Moves(p, W, e)
  PROVE  /\ Changed(p, W) \in StagedRows
         /\ DOMAIN vtx[p].writes \subseteq DOMAIN Changed(p, W)
         /\ \A r \in RowIds : W[r] # Seen(p)[r] => r \in DOMAIN Changed(p, W)
         /\ \A r \in DOMAIN Changed(p, W) :
              /\ r \in RowIds /\ Changed(p, W)[r] = W[r] /\ W[r] \in RowRecords
              /\ W[r] # Seen(p)[r] \/ (r \in DOMAIN vtx[p].writes /\ W[r] = vtx[p].writes[r])
         /\ \A r \in RowIds \ DOMAIN Changed(p, W) : W[r] = vrow[r]
<1> DEFINE D == {s \in RowIds : W[s] # vrow[s] \/ s \in DOMAIN vtx[p].writes}
<1>1. DOMAIN Changed(p, W) = D /\ Changed(p, W) = [r \in D |-> W[r]] /\ \A r \in D : Changed(p, W)[r] = W[r]
  BY DEF Changed
<1>2. /\ DOMAIN vtx[p].writes \subseteq RowIds /\ \A r \in DOMAIN vtx[p].writes : vtx[p].writes[r] \in RowRecords
      /\ vrow \in [RowIds -> RowStates] /\ vtx[p].writes \in StagedRows
  BY TxFacts DEF ValuesStrong, ValuesTypeOK
<1>3. \A r \in RowIds : Seen(p)[r] = IF r \in DOMAIN vtx[p].writes THEN vtx[p].writes[r] ELSE vrow[r]
  BY <1>2, ViewFacts, SeenIsView
<1>4. \A r \in D : W[r] # Seen(p)[r] \/ (r \in DOMAIN vtx[p].writes /\ W[r] = vtx[p].writes[r])
  BY <1>3
<1>5. \A r \in D : W[r] \in RowRecords
  BY <1>2, <1>4 DEF Moves, RowMoves
<1>6. \A r \in RowIds : W[r] # Seen(p)[r] => r \in D
  BY <1>3
<1>7. Changed(p, W) \in StagedRows
  BY <1>1, <1>5, StagedFacts
<1> QED
  BY <1>1, <1>2, <1>4, <1>5, <1>6, <1>7

\* A statement of p on entity e that makes W of what p sees.
LEMMA StageStep ==
  ASSUME ValuesStrong, NEW p \in Writers, Active(p), NEW e \in Entities, NEW W \in [RowIds -> RowStates], Moves(p, W, e),
         RowsFree(p, W), SumFree(p, Touched(p, W)), races' \in Nat, races' = 0 => races = 0 /\ SameAnchor(p, W, e),
         TableFine(W, vdef, races'),
         NEW w \in TxRecords, vtx' = [vtx EXCEPT ![p] = w], vrow' = vrow, vdef' = vdef,
         w.call = vtx[p].call, w.ahead = vtx[p].ahead, w.defs = vtx[p].defs, w.todo \subseteq vtx[p].todo,
         \A i \in w.todo : e <= w.call.items[i].ent,
         w.sums = vtx[p].sums \cup Touched(p, W), w.writes = Changed(p, W)
  PROVE  ValuesStrong'
<1>1. /\ StagedWell(vtx[p]) /\ AheadWell(vtx[p]) /\ Apart(p, vtx[p]) /\ (races = 0 => Alone(p, vtx[p]) /\ Knows(vtx[p]))
  BY OwnFacts
<1>2. /\ DOMAIN vtx[p].writes \subseteq RowIds /\ vtx[p].writes \in StagedRows /\ vrow \in [RowIds -> RowStates]
      /\ \A r \in DOMAIN vtx[p].writes : vtx[p].writes[r] \in RowRecords
  BY TxFacts DEF ValuesStrong, ValuesTypeOK
<1>3. \A r \in RowIds : Seen(p)[r] = IF r \in DOMAIN vtx[p].writes THEN vtx[p].writes[r] ELSE vrow[r]
  BY <1>2, ViewFacts, SeenIsView
<1>4. /\ w.writes \in StagedRows /\ DOMAIN vtx[p].writes \subseteq DOMAIN w.writes
      /\ \A r \in RowIds : W[r] # Seen(p)[r] => r \in DOMAIN w.writes
      /\ \A r \in DOMAIN w.writes :
           /\ r \in RowIds /\ w.writes[r] = W[r] /\ W[r] \in RowRecords
           /\ W[r] # Seen(p)[r] \/ (r \in DOMAIN vtx[p].writes /\ W[r] = vtx[p].writes[r])
      /\ \A r \in RowIds \ DOMAIN w.writes : W[r] = vrow[r]
  BY ChangedFacts
<1>5. /\ \A k \in Touched(p, W) : k[2] = e
      /\ \A r \in RowIds : W[r] # Seen(p)[r] => <<W[r].typ, e>> \in w.sums /\ <<W[r].typ, e>> \in Touched(p, W)
      /\ Touched(p, W) # {} => \E r \in RowIds : W[r] # Seen(p)[r]
  BY TouchedFacts
<1>6. ViewOf(w, vrow) = W
  BY <1>2, <1>4, ViewFacts
<1>7. TxShaped(w)
  <2>1. \A k \in w.sums : \A i \in w.todo : k[2] <= w.call.items[i].ent
    BY <1>1, <1>5 DEF StagedWell, TxShaped
  <2>2. ASSUME NEW k \in w.sums PROVE \E r \in DOMAIN w.writes : w.writes[r].ent = k[2]
    <3>1. CASE k \in vtx[p].sums
      <4>1. PICK r \in DOMAIN vtx[p].writes : vtx[p].writes[r].ent = k[2]
        BY <1>1, <3>1 DEF StagedWell, TxShaped
      <4>2. r \in DOMAIN w.writes /\ w.writes[r] = W[r] /\ r \in RowIds /\ Seen(p)[r] = vtx[p].writes[r]
        BY <1>2, <1>3, <1>4, <4>1
      <4>3. CASE W[r] = Seen(p)[r]
        BY <4>1, <4>2, <4>3
      <4>4. CASE W[r] # Seen(p)[r]
        <5>1. W[r].ent = e /\ Seen(p)[r].ent = e
          BY <1>2, <4>1, <4>2, <4>4, RowFacts DEF Moves, RowMoves
        <5> QED
          BY <4>1, <4>2, <5>1
      <4> QED
        BY <4>3, <4>4
    <3>2. CASE k \in Touched(p, W)
      <4>1. PICK r \in RowIds : W[r] # Seen(p)[r]
        BY <1>5, <3>2
      <4> QED
        BY <1>4, <1>5, <3>2, <4>1 DEF Moves, RowMoves
    <3> QED
      BY <3>1, <3>2
  <2> QED
    BY <1>1, <2>1, <2>2 DEF StagedWell, TxShaped
<1>8. ASSUME NEW r \in DOMAIN w.writes PROVE RowStaged(w, r, vrow[r])
  <2>1. r \in RowIds /\ w.writes[r] = W[r] /\ W[r] \in RowRecords
    BY <1>4
  <2>2. CASE W[r] = Seen(p)[r]
    <3>1. r \in DOMAIN vtx[p].writes /\ W[r] = vtx[p].writes[r]
      BY <1>4, <2>2
    <3>2. RowStaged(vtx[p], r, vrow[r])
      BY <1>1, <3>1 DEF StagedWell
    <3> QED
      BY <2>1, <3>1, <3>2 DEF RowStaged
  <2>3. CASE W[r] # Seen(p)[r]
    <3>1. RowMoves(p, W[r], Seen(p)[r], e) /\ <<W[r].typ, W[r].ent>> \in w.sums
      BY <1>5, <2>1, <2>3 DEF Moves, RowMoves
    <3>2. CASE r \in DOMAIN vtx[p].writes
      <4>1. RowStaged(vtx[p], r, vrow[r]) /\ Seen(p)[r] = vtx[p].writes[r] /\ Seen(p)[r].st # "none"
        BY <1>1, <1>2, <1>3, <2>1, <3>2, RowFacts DEF StagedWell
      <4>2. vrow[r].st # "none" => W[r].attr = vrow[r].attr /\ W[r].ent = vrow[r].ent
        BY <3>1, <4>1 DEF RowStaged, RowMoves
      <4>3. W[r].st = "live" => W[r].attr \in vtx[p].defs \/ (vrow[r].st = "live" /\ W[r].val = vrow[r].val)
        BY <3>1, <4>1 DEF RowStaged, RowMoves
      <4> QED
        BY <2>1, <3>1, <4>2, <4>3 DEF RowStaged
    <3>3. CASE r \notin DOMAIN vtx[p].writes
      <4>1. Seen(p)[r] = vrow[r]
        BY <1>3, <2>1, <3>3
      <4> QED
        BY <2>1, <3>1, <4>1 DEF RowStaged, RowMoves
    <3> QED
      BY <3>2, <3>3
  <2> QED
    BY <2>2, <2>3
<1>9. StagedWell(w) /\ AheadWell(w)
  BY <1>1, <1>7, <1>8 DEF StagedWell, AheadWell
<1>10. Apart(p, w)
  <2> SUFFICES ASSUME NEW q \in Writers \ {p}, Active(q)
               PROVE  /\ DOMAIN w.writes \cap DOMAIN vtx[q].writes = {}
                      /\ w.defs \cap vtx[q].defs = {} /\ w.sums \cap vtx[q].sums = {}
    BY DEF Apart
  <2>1. q \in Others(p)
    BY DEF Others
  <2>2. w.defs \cap vtx[q].defs = {} /\ w.sums \cap vtx[q].sums = {}
    BY <1>1, <2>1 DEF Apart, SumFree
  <2>3. \A r \in DOMAIN vtx[q].writes : W[r] = Seen(p)[r] /\ r \notin DOMAIN vtx[p].writes
    BY <1>1, <2>1 DEF Apart, RowsFree
  <2>4. \A r \in DOMAIN vtx[q].writes : r \notin DOMAIN w.writes
    BY <1>4, <2>3
  <2> QED
    BY <2>2, <2>4
<1>11. ASSUME races' = 0 PROVE Alone(p, w)
  <2> SUFFICES ASSUME NEW q \in Writers \ {p}, Active(q), NEW r \in DOMAIN w.writes, NEW s \in DOMAIN vtx[q].writes,
                      w.writes[r].ent = vtx[q].writes[s].ent
               PROVE  FALSE
    BY DEF Alone
  <2>1. q \in Others(p) /\ races = 0
    BY <1>11 DEF Others
  <2>2. r \in RowIds /\ w.writes[r] = W[r]
    BY <1>4
  <2>3. CASE W[r] = Seen(p)[r]
    <3>1. r \in DOMAIN vtx[p].writes /\ W[r] = vtx[p].writes[r]
      BY <1>4, <2>3
    <3> QED
      BY <1>1, <2>1, <2>2, <3>1 DEF Alone
  <2>4. CASE W[r] # Seen(p)[r]
    <3>1. vtx[q].writes[s].ent = e /\ vtx[q].writes[s].typ = W[r].typ
      BY <1>11, <2>1, <2>2, <2>4 DEF SameAnchor, Moves, RowMoves
    <3>2. <<vtx[q].writes[s].typ, vtx[q].writes[s].ent>> \in vtx[q].sums
      BY <2>1, OwnFacts DEF StagedWell, RowStaged, Others
    <3>3. <<W[r].typ, e>> \in Touched(p, W) /\ <<W[r].typ, e>> \in vtx[q].sums
      BY <1>5, <2>2, <2>4, <3>1, <3>2
    <3> QED
      BY <2>1, <3>3 DEF SumFree
  <2> QED
    BY <2>3, <2>4
<1>12. races' = 0 => Knows(w)
  BY <1>1 DEF Knows
<1> QED
  BY <1>6, <1>9, <1>10, <1>11, <1>12, TxStep

\* A table of which some live rows have been archived.
LEMMA TableShrinks ==
  ASSUME NEW V \in [RowIds -> RowStates], NEW W \in [RowIds -> RowStates], NEW n,
         \A r \in RowIds : /\ W[r].st # "none" => V[r].st # "none" /\ W[r].ent = V[r].ent /\ W[r].typ = V[r].typ
                           /\ W[r].st = "live" => V[r].st = "live" /\ W[r].attr = V[r].attr /\ W[r].val = V[r].val,
         TableFine(V, vdef, n)
  PROVE  TableFine(W, vdef, n)
<1>1. \A a \in Attrs : Below(W, V, a)
  BY DEF Below, Live
<1>2. UniqueIn(W, vdef)
  BY <1>1, ByAttribute, BelowKeeps DEF TableFine
<1>3. n = 0 => OneValueIn(W, vdef)
  BY <1>1, ByAttribute, BelowKeeps DEF TableFine
<1>4. n = 0 => OneAnchorIn(W)
  <2> SUFFICES ASSUME n = 0, NEW r \in RowIds, NEW s \in RowIds, W[r].st # "none", W[s].st # "none", W[r].ent = W[s].ent
               PROVE  W[r].typ = W[s].typ
    BY DEF OneAnchorIn
  <2>1. OneAnchorIn(V) /\ V[r].st # "none" /\ V[s].st # "none" /\ V[r].ent = V[s].ent /\ W[r].typ = V[r].typ /\ W[s].typ = V[s].typ
    BY DEF TableFine
  <2> QED
    BY <2>1 DEF OneAnchorIn
<1> QED
  BY <1>2, <1>3, <1>4 DEF TableFine

\* Without a race, what another transaction stages of an entity has the type of its committed rows.
LEMMA AnchoredAlike ==
  ASSUME ValuesStrong, races = 0, NEW q \in Writers, Active(q), NEW r \in RowIds, r \notin DOMAIN vtx[q].writes,
         vrow[r].st # "none", NEW s \in DOMAIN vtx[q].writes, vtx[q].writes[s].ent = vrow[r].ent
  PROVE  vtx[q].writes[s].typ = vrow[r].typ
<1> DEFINE V == ViewOf(vtx[q], vrow)
<1>1. /\ s \in RowIds /\ vtx[q].writes[s] \in RowRecords /\ vtx[q].writes \in StagedRows /\ vrow \in [RowIds -> RowStates]
  BY TxFacts DEF ValuesStrong, ValuesTypeOK
<1>2. V[r] = vrow[r] /\ V[s] = vtx[q].writes[s]
  BY <1>1, ViewFacts
<1>3. OneAnchorIn(V)
  BY OwnFacts DEF TableFine
<1>4. vtx[q].writes[s].st # "none"
  BY <1>1, RowFacts
<1> HIDE DEF V
<1> QED
  BY <1>1, <1>2, <1>3, <1>4 DEF OneAnchorIn

\* A removal of live rows of one entity.
LEMMA RemovalKeeps ==
  ASSUME ValuesStrong, NEW p \in Writers, Active(p), NEW e \in Entities, NEW T \in SUBSET Live(Seen(p)),
         \A r \in T : Seen(p)[r].ent = e, NEW noted \in BOOLEAN, StageRemoval(p, T, noted),
         \A i \in Behind(p) : e <= vtx[p].call.items[i].ent,
         vrow' = vrow, vdef' = vdef, races' = races
  PROVE  ValuesStrong'
<1> DEFINE S == Seen(p)
<1>1. PICK W : W = Archive(Seen(p), T)
  OBVIOUS
<1>2. PICK ch, tc, td, ph, rf, gn :
        /\ ch = Changed(p, W) /\ tc = vtx[p].sums \cup Touched(p, W) /\ td = Behind(p)
        /\ ph = (IF vtx[p].todo = {} THEN "written" ELSE vtx[p].pc)
        /\ rf = (IF noted THEN vtx[p].refs \cup Noted(W, T) ELSE vtx[p].refs)
        /\ gn = (IF noted THEN vtx[p].gone \cup T ELSE vtx[p].gone)
  OBVIOUS
<1>5. vtx \in [Writers -> TxRecords \cup {IdleTx}] /\ vtx[p] \in TxRecords /\ vrow \in [RowIds -> RowStates]
  BY TxFacts DEF ValuesStrong, ValuesTypeOK
<1>3. /\ RowsFree(p, W) /\ SumFree(p, Touched(p, W))
      /\ vtx' = [vtx EXCEPT ![p].writes = ch, ![p].sums = tc, ![p].todo = td, ![p].pc = ph, ![p].refs = rf, ![p].gone = gn]
  <2>1. /\ RowsFree(p, W) /\ SumFree(p, Touched(p, W))
        /\ vtx' = [vtx EXCEPT ![p].writes = ch, ![p].sums = @ \cup Touched(p, W), ![p].todo = td,
                              ![p].pc = IF vtx[p].todo = {} THEN "written" ELSE @,
                              ![p].refs = IF noted THEN @ \cup Noted(W, T) ELSE @,
                              ![p].gone = IF noted THEN @ \cup T ELSE @]
    BY <1>1, <1>2 DEF StageRemoval
  <2>2. PICK new : new = Noted(W, T)
    OBVIOUS
  <2>3. PICK tw : tw = Touched(p, W)
    OBVIOUS
  <2> QED
    BY <1>2, <2>1, <2>2, <2>3, <1>5
<1>4. PICK w : w = [vtx[p] EXCEPT !.writes = ch, !.sums = tc, !.todo = td, !.pc = ph, !.refs = rf, !.gone = gn]
  OBVIOUS
<1>6. vtx' = [vtx EXCEPT ![p] = w]
  BY <1>3, <1>4, <1>5
<1>7. S \in [RowIds -> RowStates] /\ \A r \in RowIds : S[r] = IF r \in DOMAIN vtx[p].writes THEN vtx[p].writes[r] ELSE vrow[r]
  BY <1>5, TxFacts, ViewFacts, SeenIsView DEF ValuesStrong
<1>8. \A r \in T : r \in RowIds /\ S[r] \in RowRecords /\ S[r].st = "live" /\ S[r].ent = e
  BY <1>7, RowFacts DEF Live
<1> HIDE DEF S
<1>9. /\ \A r \in RowIds \ T : W[r] = S[r]
      /\ \A r \in T : /\ W[r] \in RowRecords /\ W[r].st = "archived" /\ W[r].attr = S[r].attr /\ W[r].ent = S[r].ent
                      /\ W[r].typ = S[r].typ
  <2>1. W = [r \in RowIds |-> IF r \in T THEN [S[r] EXCEPT !.st = "archived"] ELSE S[r]]
    BY <1>1 DEF Archive, S
  <2>2. \A r \in T : W[r] = [S[r] EXCEPT !.st = "archived"]
    BY <1>8, <2>1
  <2>3. \A r \in RowIds \ T : W[r] = S[r]
    BY <2>1
  <2> QED
    BY <1>8, <2>2, <2>3 DEF RowRecords
<1>10. W \in [RowIds -> RowStates]
  <2>1. W = [r \in RowIds |-> W[r]]
    BY <1>1 DEF Archive
  <2>2. \A r \in RowIds : W[r] \in RowStates
    BY <1>7, <1>9 DEF RowStates
  <2> QED
    BY <2>1, <2>2
<1>11. Moves(p, W, e)
  <2> SUFFICES ASSUME NEW r \in RowIds, W[r] # S[r] PROVE RowMoves(p, W[r], S[r], e)
    BY DEF Moves, S
  <2> QED
    BY <1>8, <1>9 DEF RowMoves
<1>12. TableFine(W, vdef, races)
  <2>1. TableFine(S, vdef, races)
    BY OwnFacts, SeenIsView DEF S
  <2>2. \A r \in RowIds : /\ W[r].st # "none" => S[r].st # "none" /\ W[r].ent = S[r].ent /\ W[r].typ = S[r].typ
                          /\ W[r].st = "live" => S[r].st = "live" /\ W[r].attr = S[r].attr /\ W[r].val = S[r].val
    BY <1>8, <1>9
  <2> QED
    BY <1>7, <1>10, <2>1, <2>2, TableShrinks
<1>13. ASSUME races = 0 PROVE SameAnchor(p, W, e)
  <2> SUFFICES ASSUME NEW r \in RowIds, W[r] # S[r], NEW q \in Others(p), NEW s \in DOMAIN vtx[q].writes, vtx[q].writes[s].ent = e
               PROVE  vtx[q].writes[s].typ = W[r].typ
    BY DEF SameAnchor, S
  <2>1. r \in T /\ q \in Writers /\ q # p /\ Active(q)
    BY <1>9 DEF Others
  <2>2. r \notin DOMAIN vtx[p].writes
    BY <1>7, <1>8, <1>13, <2>1, OwnFacts DEF Alone
  <2>3. S[r] = vrow[r] /\ r \notin DOMAIN vtx[q].writes
    BY <1>3, <1>7, <2>1, <2>2 DEF RowsFree, S
  <2> QED
    BY <1>8, <1>9, <1>13, <2>1, <2>3, AnchoredAlike
<1>14. /\ ch \in StagedRows /\ tc \in SUBSET (Types \X Entities) /\ td \in SUBSET Nat /\ td \subseteq vtx[p].todo
       /\ ph \in {"run", "written", "checked"} /\ rf \in SUBSET RefRecords /\ gn \in SUBSET RowIds
  <2>1. ch \in StagedRows /\ Touched(p, W) \subseteq Types \X Entities
    BY <1>2, <1>10, <1>11, ChangedFacts, TouchedFacts
  <2>2. /\ vtx[p].sums \subseteq Types \X Entities /\ vtx[p].todo \subseteq Nat /\ vtx[p].pc \in {"run", "written", "checked"}
        /\ vtx[p].refs \subseteq RefRecords /\ vtx[p].gone \subseteq RowIds
    BY <1>5 DEF TxRecords
  <2>3. \A r \in T : [ent |-> W[r].ent, typ |-> W[r].typ, full |-> TRUE] \in RefRecords
    BY <1>9, RowFacts DEF RefRecords
  <2>5. Noted(W, T) \subseteq RefRecords
    BY <2>3 DEF Noted
  <2>4. rf \in SUBSET RefRecords /\ gn \in SUBSET RowIds
    BY <1>2, <1>8, <2>2, <2>5
  <2> QED
    BY <1>2, <2>1, <2>2, <2>4 DEF Behind
<1>15. /\ w \in TxRecords /\ w.call = vtx[p].call /\ w.ahead = vtx[p].ahead /\ w.defs = vtx[p].defs
       /\ w.todo = td /\ w.sums = tc /\ w.writes = ch
  BY <1>4, <1>5, <1>14 DEF TxRecords
<1>16. races' \in Nat /\ (races' = 0 => races = 0 /\ SameAnchor(p, W, e)) /\ TableFine(W, vdef, races')
  BY <1>12, <1>13 DEF ValuesStrong, ValuesTypeOK
<1>17. /\ w.todo \subseteq vtx[p].todo /\ \A i \in w.todo : e <= w.call.items[i].ent
       /\ w.sums = vtx[p].sums \cup Touched(p, W) /\ w.writes = Changed(p, W)
  BY <1>2, <1>14, <1>15
<1> QED
  BY <1>3, <1>6, <1>10, <1>11, <1>15, <1>16, <1>17, StageStep

\* The three that remove rows of one entity.
LEMMA RemovalsKeep ==
  ASSUME ValuesStrong, NEW p \in Writers, RemoveScoped(p) \/ Remove(p) \/ ArchiveRest(p)
  PROVE  ValuesStrong'
<1>1. Active(p) /\ vrow' = vrow /\ vdef' = vdef /\ races' = races
  BY DEF RemoveScoped, Remove, ArchiveRest, NextItem, Active
<1>2. vtx[p].call \in CallRecords /\ vtx[p].call \in Calls /\ vtx[p].call.ent \in Entities
  BY <1>1, TxFacts DEF ValuesStrong, CallRecords
<1>3. CASE RemoveScoped(p)
  <2>1. NextItem(p) /\ StageRemoval(p, LiveCell(Seen(p), Item(p).attr, Item(p).ent), TRUE)
    BY <1>3 DEF RemoveScoped
  <2>2. PICK T, e : T = LiveCell(Seen(p), Item(p).attr, Item(p).ent) /\ e = Item(p).ent
    OBVIOUS
  <2>3. T \in SUBSET Live(Seen(p)) /\ \A r \in T : Seen(p)[r].ent = e
    BY <2>2 DEF LiveCell
  <2>4. e \in Entities /\ \A i \in Behind(p) : e <= vtx[p].call.items[i].ent
    BY <2>1, <2>2, TurnFacts DEF ItemRecords, Behind
  <2>5. StageRemoval(p, T, TRUE)
    BY <2>1, <2>2
  <2> QED
    BY <1>1, <2>3, <2>4, <2>5, RemovalKeeps
<1>4. vtx[p].todo = {} => Behind(p) = {}
  BY DEF Behind
<1>5. CASE Remove(p)
  <2>1. PICK r \in Live(Seen(p)) : Seen(p)[r].ent = vtx[p].call.ent /\ StageRemoval(p, {r}, TRUE)
    BY <1>5 DEF Remove
  <2>2. vtx[p].call.items = << >> /\ vtx[p].todo \subseteq DOMAIN vtx[p].call.items
    BY <1>1, <1>2, <1>5, ValuesAssumption, OwnFacts DEF Remove, StagedWell, TxShaped
  <2>3. vtx[p].todo = {}
    BY <2>2
  <2> QED
    BY <1>1, <1>2, <1>4, <2>1, <2>3, RemovalKeeps
<1>6. CASE ArchiveRest(p)
  <2>1. PICK T : T = {r \in Live(Seen(p)) : Seen(p)[r].ent = vtx[p].call.ent /\ ~InSnapshot(vtx[p].call, Seen(p)[r])}
    OBVIOUS
  <2>2. StageRemoval(p, T, FALSE) /\ vtx[p].todo = {}
    BY <1>6, <2>1 DEF ArchiveRest
  <2>3. T \in SUBSET Live(Seen(p)) /\ \A r \in T : Seen(p)[r].ent = vtx[p].call.ent
    BY <2>1
  <2> QED
    BY <1>1, <1>2, <1>4, <2>2, <2>3, RemovalKeeps
<1> QED
  BY <1>3, <1>5, <1>6

\* RemoveEntity stages what it listed, archived, under the types the rows have now.
LEMMA RemoveEntityKeeps ==
  ASSUME ValuesStrong, NEW p \in Writers, RemoveEntity(p)
  PROVE  ValuesStrong'
<1>1. Active(p) /\ vrow' = vrow /\ vdef' = vdef /\ races' = races /\ vtx[p].call.kind = "removeEntity"
  BY DEF RemoveEntity, Active
<1>2. PICK ah : ah = vtx[p].ahead
  OBVIOUS
<1>3. PICK rw : rw = [r \in DOMAIN ah |-> [ah[r] EXCEPT !.st = "archived", !.typ = vrow[r].typ]]
  OBVIOUS
<1>4. PICK ks : ks = {<<rw[r].typ, rw[r].ent>> : r \in DOMAIN ah}
  OBVIOUS
<1>5. /\ \A q \in Others(p) : DOMAIN ah \cap DOMAIN vtx[q].writes = {}
      /\ SumFree(p, ks) /\ vtx' = [vtx EXCEPT ![p].writes = rw, ![p].sums = ks, ![p].pc = "written"]
  <2>1. rw = [r \in DOMAIN vtx[p].ahead |-> [vtx[p].ahead[r] EXCEPT !.st = "archived", !.typ = vrow[r].typ]]
    BY <1>2, <1>3
  <2>2. ks = {<<[r_1 \in DOMAIN vtx[p].ahead |-> [vtx[p].ahead[r_1] EXCEPT !.st = "archived", !.typ = vrow[r_1].typ]][r].typ,
                [r_1 \in DOMAIN vtx[p].ahead |-> [vtx[p].ahead[r_1] EXCEPT !.st = "archived", !.typ = vrow[r_1].typ]][r].ent>> : r \in DOMAIN vtx[p].ahead}
    BY <1>2, <1>4, <2>1
  <2> QED
    BY <1>2, <2>1, <2>2 DEF RemoveEntity
<1>6. PICK w : w = [vtx[p] EXCEPT !.writes = rw, !.sums = ks, !.pc = "written"]
  OBVIOUS
<1>7. /\ vtx \in [Writers -> TxRecords \cup {IdleTx}] /\ vtx[p] \in TxRecords /\ vrow \in [RowIds -> RowStates]
      /\ ah \in StagedRows /\ vtx[p].call \in Calls /\ races \in Nat
  BY <1>1, <1>2, TxFacts DEF ValuesStrong, ValuesTypeOK
<1>8. vtx' = [vtx EXCEPT ![p] = w]
  BY <1>5, <1>6, <1>7
<1>9. \A r \in DOMAIN ah : /\ r \in RowIds /\ ah[r] \in RowRecords /\ vrow[r] \in RowRecords /\ vrow[r].st # "none"
                           /\ ah[r].attr = vrow[r].attr /\ ah[r].ent = vrow[r].ent
  BY <1>1, <1>2, <1>7, OwnFacts, StagedFacts, RowFacts DEF AheadWell
<1>10. /\ DOMAIN rw = DOMAIN ah /\ rw = [r \in DOMAIN rw |-> rw[r]]
       /\ \A r \in DOMAIN rw : rw[r] = [ah[r] EXCEPT !.st = "archived", !.typ = vrow[r].typ]
  BY <1>3
<1>11. \A r \in DOMAIN rw : /\ rw[r] \in RowRecords /\ rw[r].st = "archived" /\ rw[r].attr = vrow[r].attr
                            /\ rw[r].ent = vrow[r].ent /\ rw[r].typ = vrow[r].typ
  <2> SUFFICES ASSUME NEW r \in DOMAIN rw
               PROVE  /\ rw[r] \in RowRecords /\ rw[r].st = "archived" /\ rw[r].attr = vrow[r].attr
                      /\ rw[r].ent = vrow[r].ent /\ rw[r].typ = vrow[r].typ
    OBVIOUS
  <2>1. PICK t, x : t = vrow[r].typ /\ x = ah[r]
    OBVIOUS
  <2>2. rw[r] = [x EXCEPT !.st = "archived", !.typ = t] /\ x \in RowRecords /\ t \in Types
        /\ x.attr = vrow[r].attr /\ x.ent = vrow[r].ent
    BY <1>9, <1>10, <2>1, RowFacts
  <2>3. /\ rw[r] \in RowRecords /\ rw[r].st = "archived" /\ rw[r].attr = x.attr
        /\ rw[r].ent = x.ent /\ rw[r].typ = t
    BY <2>2 DEF RowRecords
  <2> QED
    BY <2>1, <2>2, <2>3
<1>12. rw \in StagedRows
  BY <1>9, <1>10, <1>11, StagedFacts
<1>13. ks \in SUBSET (Types \X Entities)
  <2>1. \A r \in DOMAIN rw : rw[r].typ \in Types /\ rw[r].ent \in Entities
    BY <1>11, RowFacts
  <2>2. \A k \in ks : \E r \in DOMAIN rw : k = <<rw[r].typ, rw[r].ent>>
    BY <1>4, <1>10
  <2> QED
    BY <2>1, <2>2
<1>14. /\ w \in TxRecords /\ w.call = vtx[p].call /\ w.ahead = ah /\ w.defs = vtx[p].defs
       /\ w.todo = vtx[p].todo /\ w.sums = ks /\ w.writes = rw
  BY <1>2, <1>6, <1>7, <1>12, <1>13 DEF TxRecords
<1>15. vtx[p].todo = {}
  <2>1. vtx[p].call.items = << >> /\ vtx[p].todo \subseteq DOMAIN vtx[p].call.items
    BY <1>1, <1>7, ValuesAssumption, OwnFacts DEF StagedWell, TxShaped
  <2> QED
    BY <2>1
<1>16. StagedWell(w)
  <2>1. TxShaped(w)
    <3>1. \A k \in ks : \E r \in DOMAIN rw : rw[r].ent = k[2]
      <4>1. \A k \in ks : \E r \in DOMAIN rw : k = <<rw[r].typ, rw[r].ent>>
        BY <1>4, <1>10
      <4> QED
        BY <4>1
    <3> QED
      BY <1>14, <1>15, <3>1 DEF TxShaped
  <2>2. \A r \in DOMAIN w.writes : RowStaged(w, r, vrow[r])
    BY <1>4, <1>10, <1>11, <1>14 DEF RowStaged
  <2> QED
    BY <2>1, <2>2 DEF StagedWell
<1>17. AheadWell(w)
  BY <1>1, <1>2, <1>14, OwnFacts DEF AheadWell
<1>18. Apart(p, w)
  BY <1>1, <1>5, <1>10, <1>14, OwnFacts DEF Apart, Others, SumFree
<1>19. ASSUME races = 0 PROVE Alone(p, w)
  <2> SUFFICES ASSUME NEW q \in Writers \ {p}, Active(q), NEW r \in DOMAIN rw, NEW s \in DOMAIN vtx[q].writes,
                      rw[r].ent = vtx[q].writes[s].ent
               PROVE  FALSE
    BY <1>14 DEF Alone
  <2>1. q \in Others(p) /\ r \notin DOMAIN vtx[q].writes
    BY <1>5, <1>10 DEF Others
  <2>2. vtx[q].writes[s].typ = rw[r].typ
    <3>1. r \in RowIds /\ vrow[r].st # "none" /\ vtx[q].writes[s].ent = vrow[r].ent /\ rw[r].typ = vrow[r].typ
      BY <1>9, <1>10, <1>11
    <3> QED
      BY <1>19, <2>1, <3>1, AnchoredAlike
  <2>3. <<vtx[q].writes[s].typ, vtx[q].writes[s].ent>> \in vtx[q].sums
    BY OwnFacts DEF StagedWell, RowStaged
  <2>4. <<rw[r].typ, rw[r].ent>> \in ks
    BY <1>4, <1>10
  <2> QED
    BY <1>5, <2>1, <2>2, <2>3, <2>4 DEF SumFree
<1>20. Knows(w)
  BY <1>1, <1>14 DEF Knows
<1>21. TableFine(ViewOf(w, vrow), vdef, races)
  <2> DEFINE W == ViewOf(w, vrow)
  <2>1. W \in [RowIds -> RowStates] /\ \A r \in RowIds : W[r] = IF r \in DOMAIN rw THEN rw[r] ELSE vrow[r]
    BY <1>7, <1>12, <1>14, ViewFacts
  <2> HIDE DEF W
  <2>2. \A r \in RowIds : /\ W[r].st # "none" => vrow[r].st # "none" /\ W[r].ent = vrow[r].ent /\ W[r].typ = vrow[r].typ
                          /\ W[r].st = "live" => vrow[r].st = "live" /\ W[r].attr = vrow[r].attr /\ W[r].val = vrow[r].val
    BY <1>9, <1>10, <1>11, <2>1
  <2>3. TableFine(vrow, vdef, races)
    BY DEF ValuesStrong, ViewsFine
  <2>4. TableFine(W, vdef, races)
    BY <1>7, <2>1, <2>2, <2>3, TableShrinks
  <2> QED
    BY <2>4 DEF W
<1> QED
  BY <1>1, <1>7, <1>8, <1>14, <1>16, <1>17, <1>18, <1>19, <1>20, <1>21, TxStep

\* The oldest of some rows is one of them.
LEMMA OldestFacts ==
  ASSUME NEW R \in SUBSET RowIds, R # {}
  PROVE  Oldest(R) \in R
<1>1. R \subseteq Nat
  BY ValuesAssumption DEF RowIds
<1>2. PICK m \in R : \A n \in R : m <= n
  BY <1>1, LeastNumber
<1> QED
  BY <1>2 DEF Oldest

\* The anchor of an entity is the type of its rows.
LEMMA AnchorFacts ==
  ASSUME NEW rows \in [RowIds -> RowStates], NEW e
  PROVE  /\ Anchor(rows, e) \in Types \cup {NoType}
         /\ Anchor(rows, e) = NoType => OfEntity(rows, e) = {}
         /\ OneAnchorIn(rows) => \A r \in OfEntity(rows, e) : rows[r].typ = Anchor(rows, e)
<1>1. CASE OfEntity(rows, e) = {}
  BY <1>1 DEF Anchor
<1>2. CASE OfEntity(rows, e) # {}
  <2>1. OfEntity(rows, e) \in SUBSET RowIds
    BY DEF OfEntity
  <2>2. PICK o : o = Oldest(OfEntity(rows, e))
    OBVIOUS
  <2>3. o \in OfEntity(rows, e) /\ Anchor(rows, e) = rows[o].typ
    BY <1>2, <2>1, <2>2, OldestFacts DEF Anchor
  <2>4. o \in RowIds /\ rows[o].st # "none" /\ rows[o].ent = e /\ rows[o].typ \in Types
    BY <2>3, RowFacts DEF OfEntity
  <2>5. Anchor(rows, e) # NoType
    BY <2>3, <2>4, ValuesAssumption
  <2>6. OneAnchorIn(rows) => \A r \in OfEntity(rows, e) : rows[r].typ = rows[o].typ
    BY <2>4 DEF OneAnchorIn, OfEntity
  <2> QED
    BY <2>3, <2>4, <2>5, <2>6
<1> QED
  BY <1>1, <1>2

\* A set writes under a type.
LEMMA EntityTypeFacts ==
  ASSUME NEW rows \in [RowIds -> RowStates], NEW x \in ItemRecords
  PROVE  EntityType(rows, x) \in Types \cup {NoType}
<1>1. PICK a : a = Anchor(rows, x.ent)
  OBVIOUS
<1>2. a \in Types \cup {NoType} /\ Declaring[x.attr] \in Types /\ x.typ \in Types \cup {NoType}
  BY <1>1, AnchorFacts, ValuesAssumption DEF ItemRecords
<1>3. PICK wanted : wanted = IF x.typ = NoType THEN (IF a = NoType THEN Declaring[x.attr] ELSE a) ELSE x.typ
  OBVIOUS
<1>4. wanted \in Types
  BY <1>2, <1>3
<1>5. EntityType(rows, x) = IF a \in {NoType, wanted} \/ IsAncestorOrSelf(wanted, a) THEN wanted
                            ELSE IF IsAncestorOrSelf(a, wanted) THEN a ELSE NoType
  BY <1>1, <1>3 DEF EntityType
<1> QED
  BY <1>2, <1>4, <1>5

\* Rows as they were, but for the type of those of entity e.
Retyped(M, S, e, t) ==
    \A r \in RowIds : M[r] = S[r] \/
        /\ S[r] \in RowRecords /\ S[r].ent = e /\ M[r] \in RowRecords /\ M[r].st = S[r].st
        /\ M[r].attr = S[r].attr /\ M[r].ent = S[r].ent /\ M[r].val = S[r].val /\ M[r].typ = t

MovedTo(S, e, t) == IF Anchor(S, e) \notin {NoType, t} THEN Reanchored(S, e, t) ELSE S

\* A reanchored entity has all its rows under the type.
LEMMA MovedFacts ==
  ASSUME NEW S \in [RowIds -> RowStates], NEW e, NEW t \in Types, NEW M, M = MovedTo(S, e, t)
  PROVE  /\ M \in [RowIds -> RowStates] /\ Retyped(M, S, e, t)
         /\ OneAnchorIn(S) => \A r \in OfEntity(M, e) : M[r].typ = t
<1>1. CASE Anchor(S, e) \notin {NoType, t}
  <2>1. M = [r \in RowIds |-> IF r \in OfEntity(S, e) THEN [S[r] EXCEPT !.typ = t] ELSE S[r]]
    BY <1>1 DEF MovedTo, Reanchored
  <2>2. \A r \in RowIds \ OfEntity(S, e) : M[r] = S[r]
    BY <2>1
  <2>3. ASSUME NEW r \in OfEntity(S, e)
        PROVE  /\ r \in RowIds /\ S[r] \in RowRecords /\ S[r].ent = e /\ M[r] \in RowRecords /\ M[r].st = S[r].st
               /\ M[r].attr = S[r].attr /\ M[r].ent = S[r].ent /\ M[r].val = S[r].val /\ M[r].typ = t
    <3>1. r \in RowIds /\ S[r] \in RowRecords /\ S[r].ent = e /\ M[r] = [S[r] EXCEPT !.typ = t]
      BY <2>1, RowFacts DEF OfEntity
    <3> QED
      BY <3>1 DEF RowRecords
  <2>4. Retyped(M, S, e, t)
    BY <2>2, <2>3 DEF Retyped
  <2>5. M \in [RowIds -> RowStates]
    <3>1. \A r \in RowIds : M[r] \in RowStates
      BY <2>2, <2>3 DEF RowStates
    <3>2. M = [r \in RowIds |-> M[r]]
      BY <2>1
    <3> QED
      BY <3>1, <3>2
  <2>6. \A r \in OfEntity(M, e) : M[r].typ = t
    <3> SUFFICES ASSUME NEW r \in OfEntity(M, e), r \notin OfEntity(S, e) PROVE FALSE
      BY <2>3
    <3> QED
      BY <2>2 DEF OfEntity
  <2> QED
    BY <2>4, <2>5, <2>6
<1>2. CASE Anchor(S, e) \in {NoType, t}
  <2>1. M = S
    BY <1>2 DEF MovedTo
  <2>2. OneAnchorIn(S) => \A r \in OfEntity(S, e) : S[r].typ = t
    BY <1>2, AnchorFacts
  <2> QED
    BY <2>1, <2>2 DEF Retyped
<1> QED
  BY <1>1, <1>2

\* What an upsert makes of rows M: nothing, a new row where there was none, or another value in the row it found.
SetRow(p, W, M, x, t, at) ==
    /\ \A r \in RowIds : r # at => W[r] = M[r]
    /\ W[at] \in RowRecords /\ W[at].st = "live" /\ W[at].attr = x.attr /\ W[at].ent = x.ent /\ W[at].val = x.val
    /\ \/ M[at].st = "none" /\ W[at].typ = t /\ (~vdef[x.attr].multi => Existing(p, M, x) = {})
       \/ M[at].st = "live" /\ M[at].attr = x.attr /\ M[at].ent = x.ent /\ W[at].typ = M[at].typ

\* An upsert changes one row at most.
LEMMA UpsertFacts ==
  ASSUME NEW p, NEW M \in [RowIds -> RowStates], NEW x \in ItemRecords, NEW t \in Types, NEW W, W = Upserted(p, M, x, t),
         FreshRow(M) # {}
  PROVE  W \in [RowIds -> RowStates] /\ (W = M \/ \E at \in RowIds : SetRow(p, W, M, x, t, at))
<1>1. PICK old : old = Existing(p, M, x)
  OBVIOUS
<1>2. \A r \in old : r \in RowIds /\ M[r] \in RowRecords /\ M[r].st = "live" /\ M[r].attr = x.attr /\ M[r].ent = x.ent
  BY <1>1, RowFacts DEF Existing, LiveCell, Live
<1>3. PICK fr : fr = Oldest(FreshRow(M))
  OBVIOUS
<1>4. fr \in RowIds /\ M[fr].st = "none"
  <2>1. FreshRow(M) \in SUBSET RowIds
    BY DEF FreshRow
  <2>2. fr \in FreshRow(M)
    BY <1>3, <2>1, OldestFacts
  <2> QED
    BY <2>2 DEF FreshRow
<1>5. PICK at : at = IF ~vdef[x.attr].multi /\ old # {} THEN Oldest(old) ELSE fr
  OBVIOUS
<1>6. old # {} => Oldest(old) \in old
  BY <1>2, OldestFacts
<1>7. /\ at \in RowIds
      /\ \/ M[at].st = "none" /\ (~vdef[x.attr].multi => old = {})
         \/ M[at] \in RowRecords /\ M[at].st = "live" /\ M[at].attr = x.attr /\ M[at].ent = x.ent
  BY <1>2, <1>4, <1>5, <1>6
<1>8. \/ W = M
      \/ W = IF M[at].st = "none" THEN [M EXCEPT ![at] = Row(x.attr, x.ent, t, x.val, "live")] ELSE [M EXCEPT ![at].val = x.val]
  BY <1>1, <1>3, <1>5 DEF Upserted
<1>9. CASE W = M
  BY <1>9
<1>10. CASE M[at].st = "none" /\ W = [M EXCEPT ![at] = Row(x.attr, x.ent, t, x.val, "live")]
  <2>1. W[at] = Row(x.attr, x.ent, t, x.val, "live") /\ \A r \in RowIds : r # at => W[r] = M[r]
    BY <1>7, <1>10
  <2>2. /\ W[at] \in RowRecords /\ W[at].st = "live" /\ W[at].attr = x.attr /\ W[at].ent = x.ent /\ W[at].val = x.val
        /\ W[at].typ = t
    BY <2>1 DEF Row, RowRecords, ItemRecords
  <2>3. ~vdef[x.attr].multi => Existing(p, M, x) = {}
    BY <1>1, <1>7, <1>10
  <2>4. SetRow(p, W, M, x, t, at)
    BY <1>10, <2>1, <2>2, <2>3 DEF SetRow
  <2>5. W \in [RowIds -> RowStates]
    BY <1>7, <1>10, <2>1, <2>2 DEF RowStates
  <2> QED
    BY <1>7, <2>4, <2>5
<1>11. CASE M[at].st # "none" /\ W = [M EXCEPT ![at].val = x.val]
  <2>1. W[at] = [M[at] EXCEPT !.val = x.val] /\ \A r \in RowIds : r # at => W[r] = M[r]
    BY <1>7, <1>11
  <2>2. M[at] \in RowRecords /\ M[at].st = "live" /\ M[at].attr = x.attr /\ M[at].ent = x.ent
    BY <1>7, <1>11
  <2>3. /\ W[at] \in RowRecords /\ W[at].st = M[at].st /\ W[at].attr = M[at].attr /\ W[at].ent = M[at].ent
        /\ W[at].val = x.val /\ W[at].typ = M[at].typ
    BY <2>1, <2>2 DEF RowRecords, ItemRecords
  <2>4. SetRow(p, W, M, x, t, at)
    BY <2>1, <2>2, <2>3 DEF SetRow
  <2>5. W \in [RowIds -> RowStates]
    <3>1. \A r \in RowIds : W[r] \in RowStates
      BY <2>1, <2>3 DEF RowStates
    <3>2. W = [r \in RowIds |-> W[r]]
      BY <1>11
    <3> QED
      BY <3>1, <3>2
  <2> QED
    BY <1>7, <2>4, <2>5
<1> QED
  BY <1>8, <1>9, <1>10, <1>11

\* A row after a set of x: as it was up to the type, or holding the value that is set.
SetOrKept(W, S, x, r) ==
    \/ W[r] = S[r]
    \/ /\ S[r] \in RowRecords /\ W[r] \in RowRecords /\ S[r].ent = x.ent /\ W[r].ent = x.ent /\ W[r].attr = S[r].attr
       /\ W[r].st = S[r].st /\ W[r].val = S[r].val
    \/ /\ W[r] \in RowRecords /\ W[r].st = "live" /\ W[r].attr = x.attr /\ W[r].ent = x.ent /\ W[r].val = x.val
       /\ S[r].st = "none" \/ (S[r] \in RowRecords /\ S[r].st = "live" /\ S[r].attr = x.attr /\ S[r].ent = x.ent)

\* What a set leaves behind: rows of its entity that changed alone, all of them under its type,
\* and no new one in a cell that had one.
SetResult(W, S, x, t) ==
    /\ W \in [RowIds -> RowStates] /\ x \in ItemRecords /\ S \in [RowIds -> RowStates] /\ t \in Types
    /\ \A r \in RowIds : SetOrKept(W, S, x, r)
    /\ OneAnchorIn(S) => \A r \in OfEntity(W, x.ent) : W[r].typ = t
    /\ races = 0 /\ ~vdef[x.attr].multi =>
         \A r \in LiveCell(W, x.attr, x.ent) : S[r].st = "none" => LiveCell(S, x.attr, x.ent) = {} /\ LiveCell(W, x.attr, x.ent) = {r}

\* Written, taken apart.
LEMMA SetFacts ==
  ASSUME ValuesStrong, NEW p \in Writers, NextItem(p), NEW x, x = Item(p), NEW S, S = Seen(p), NEW t, t = EntityType(S, x),
         t # NoType, FreshRow(S) # {}, NEW W, W = Written(p, x)
  PROVE  SetResult(W, S, x, t)
<1>1. Active(p) /\ x \in ItemRecords /\ Turn(p) \in vtx[p].todo
  BY TurnFacts
<1>2. vrow \in [RowIds -> RowStates] /\ vtx[p].writes \in StagedRows
  BY <1>1, TxFacts DEF ValuesStrong, ValuesTypeOK
<1>3. S \in [RowIds -> RowStates] /\ \A r \in RowIds : S[r] = IF r \in DOMAIN vtx[p].writes THEN vtx[p].writes[r] ELSE vrow[r]
  BY <1>2, ViewFacts, SeenIsView
<1>4. t \in Types
  BY <1>1, <1>3, EntityTypeFacts
<1>5. PICK M : M = MovedTo(S, x.ent, t)
  OBVIOUS
<1>6. W = Upserted(p, M, x, t)
  BY <1>5 DEF Written, MovedTo
<1>7. M \in [RowIds -> RowStates] /\ Retyped(M, S, x.ent, t) /\ (OneAnchorIn(S) => \A r \in OfEntity(M, x.ent) : M[r].typ = t)
  BY <1>3, <1>4, <1>5, MovedFacts
<1>8. \A r \in RowIds : M[r].st = S[r].st
  BY <1>7 DEF Retyped
<1>9. FreshRow(M) # {}
  BY <1>8 DEF FreshRow
<1>10. W \in [RowIds -> RowStates] /\ (W = M \/ \E at \in RowIds : SetRow(p, W, M, x, t, at))
  BY <1>1, <1>4, <1>6, <1>7, <1>9, UpsertFacts
<1>11. LiveCell(M, x.attr, x.ent) = LiveCell(S, x.attr, x.ent)
  <2>1. \A r \in RowIds : M[r].st = "live" => M[r].attr = S[r].attr /\ M[r].ent = S[r].ent
    BY <1>7 DEF Retyped
  <2> QED
    BY <1>8, <2>1 DEF LiveCell, Live
<1>12. ASSUME races = 0, Existing(p, M, x) = {} PROVE LiveCell(S, x.attr, x.ent) = {}
  <2>1. CASE vtx[p].call.kind # "import"
    BY <1>11, <1>12, <2>1 DEF Existing
  <2>2. CASE vtx[p].call.kind = "import"
    <3> SUFFICES ASSUME NEW r \in LiveCell(S, x.attr, x.ent) PROVE r \in DOMAIN vtx[p].ahead \cup DOMAIN vtx[p].writes
      BY <1>11, <1>12, <2>2 DEF Existing
    <3>1. CASE r \in DOMAIN vtx[p].writes
      BY <3>1
    <3>2. CASE r \notin DOMAIN vtx[p].writes
      <4>1. r \in Live(vrow) /\ vrow[r].ent = x.ent
        BY <1>3, <3>2 DEF LiveCell, Live
      <4>2. x.ent \in EntitiesOf(vtx[p].call)
        <5>1. vtx[p].todo \subseteq DOMAIN vtx[p].call.items
          BY <1>1, OwnFacts DEF StagedWell, TxShaped
        <5> QED
          BY <1>1, <5>1 DEF EntitiesOf, Item
      <4>3. Knows(vtx[p])
        BY <1>1, <1>12, OwnFacts
      <4> QED
        BY <2>2, <4>1, <4>2, <4>3 DEF Knows
    <3> QED
      BY <3>1, <3>2
  <2> QED
    BY <2>1, <2>2
<1>13. CASE W = M
  <2>1. \A r \in RowIds : SetOrKept(W, S, x, r)
    BY <1>7, <1>13 DEF SetOrKept, Retyped
  <2>2. \A r \in LiveCell(W, x.attr, x.ent) : S[r].st # "none"
    BY <1>8, <1>13 DEF LiveCell, Live
  <2> QED
    BY <1>1, <1>3, <1>4, <1>7, <1>13, <2>1, <2>2 DEF SetResult
<1>14. ASSUME NEW at \in RowIds, SetRow(p, W, M, x, t, at)
       PROVE  /\ \A r \in RowIds : SetOrKept(W, S, x, r)
              /\ OneAnchorIn(S) => \A r \in OfEntity(W, x.ent) : W[r].typ = t
              /\ races = 0 /\ ~vdef[x.attr].multi =>
                   \A r \in LiveCell(W, x.attr, x.ent) : S[r].st = "none" => LiveCell(S, x.attr, x.ent) = {} /\ LiveCell(W, x.attr, x.ent) = {r}
  <2>1. \A r \in RowIds : r # at => W[r] = M[r]
    BY <1>14 DEF SetRow
  <2>2. ASSUME NEW r \in RowIds PROVE SetOrKept(W, S, x, r)
    <3>1. CASE r # at
      BY <1>7, <2>1, <3>1 DEF SetOrKept, Retyped
    <3>2. CASE r = at
      <4>1. W[r] \in RowRecords /\ W[r].st = "live" /\ W[r].attr = x.attr /\ W[r].ent = x.ent /\ W[r].val = x.val
        BY <1>14, <3>2 DEF SetRow
      <4>2. S[r].st = "none" \/ (S[r] \in RowRecords /\ S[r].st = "live" /\ S[r].attr = x.attr /\ S[r].ent = x.ent)
        <5>1. CASE M[r].st = "none"
          BY <1>8, <5>1
        <5>2. CASE M[r].st # "none"
          <6>1. M[r].st = "live" /\ M[r].attr = x.attr /\ M[r].ent = x.ent
            BY <1>14, <3>2, <5>2 DEF SetRow
          <6>2. S[r].st = "live" /\ S[r].attr = x.attr /\ S[r].ent = x.ent
            BY <1>7, <6>1 DEF Retyped
          <6> QED
            BY <1>3, <6>2, RowFacts
        <5> QED
          BY <5>1, <5>2
      <4> QED
        BY <4>1, <4>2 DEF SetOrKept
    <3> QED
      BY <3>1, <3>2
  <2>3. ASSUME OneAnchorIn(S), NEW r \in OfEntity(W, x.ent) PROVE W[r].typ = t
    <3>1. r \in RowIds /\ W[r].st # "none" /\ W[r].ent = x.ent
      BY DEF OfEntity
    <3>2. CASE r # at
      BY <1>7, <2>1, <2>3, <3>1, <3>2 DEF OfEntity
    <3>3. CASE r = at /\ M[at].st = "none"
      BY <1>14, <3>3 DEF SetRow
    <3>4. CASE r = at /\ M[at].st # "none"
      <4>1. M[r].st = "live" /\ M[r].ent = x.ent /\ W[r].typ = M[r].typ
        BY <1>14, <3>4 DEF SetRow
      <4> QED
        BY <1>7, <2>3, <3>1, <4>1 DEF OfEntity
    <3> QED
      BY <3>2, <3>3, <3>4
  <2>4. ASSUME races = 0, ~vdef[x.attr].multi, NEW r \in LiveCell(W, x.attr, x.ent), S[r].st = "none"
        PROVE  LiveCell(S, x.attr, x.ent) = {} /\ LiveCell(W, x.attr, x.ent) = {r}
    <3>1. r \in RowIds /\ W[r].st = "live" /\ M[r].st = "none"
      BY <1>8, <2>4 DEF LiveCell, Live
    <3>2. r = at
      BY <2>1, <3>1
    <3>3. Existing(p, M, x) = {}
      BY <1>14, <2>4, <3>1, <3>2 DEF SetRow
    <3>4. LiveCell(S, x.attr, x.ent) = {} /\ LiveCell(M, x.attr, x.ent) = {}
      BY <1>11, <1>12, <2>4, <3>3
    <3>5. \A s \in LiveCell(W, x.attr, x.ent) : s # r => s \in LiveCell(M, x.attr, x.ent)
      BY <2>1, <3>2 DEF LiveCell, Live
    <3> QED
      BY <2>4, <3>4, <3>5
  <2> QED
    BY <2>2, <2>3, <2>4
<1> QED
  BY <1>1, <1>3, <1>4, <1>10, <1>13, <1>14 DEF SetResult

\* A set that found no other entity with its value and, without a race, knew its cell.
LEMMA TableSet ==
  ASSUME NEW S \in [RowIds -> RowStates], NEW W \in [RowIds -> RowStates], NEW x \in ItemRecords, NEW t, NEW n, NEW m,
         \A r \in RowIds : SetOrKept(W, S, x, r), TableFine(S, vdef, n), m = 0 => n = 0,
         vdef[x.attr].unique => ~Collides(S, x),
         OneAnchorIn(S) => \A r \in OfEntity(W, x.ent) : W[r].typ = t,
         n = 0 /\ ~vdef[x.attr].multi =>
              \A r \in LiveCell(W, x.attr, x.ent) : S[r].st = "none" => LiveCell(S, x.attr, x.ent) = {} /\ LiveCell(W, x.attr, x.ent) = {r}
  PROVE  TableFine(W, vdef, m)
<1>1. ASSUME NEW a \in Attrs, a # x.attr PROVE Below(W, S, a)
  <2> SUFFICES ASSUME NEW r \in Live(W), W[r].attr = a
               PROVE  r \in Live(S) /\ S[r].attr = a /\ S[r].ent = W[r].ent /\ S[r].val = W[r].val
    BY DEF Below
  <2>1. r \in RowIds /\ W[r].st = "live" /\ SetOrKept(W, S, x, r)
    BY DEF Live
  <2> QED
    BY <1>1, <2>1 DEF SetOrKept, Live
<1>2. UniqueIn(W, vdef)
  <2> SUFFICES ASSUME NEW a \in Attrs, vdef[a].unique PROVE UniqueAt(W, a)
    BY ByAttribute
  <2>1. UniqueAt(S, a)
    BY ByAttribute DEF TableFine
  <2>2. CASE a # x.attr
    BY <1>1, <2>1, <2>2, BelowKeeps
  <2>3. CASE a = x.attr
    <3> SUFFICES ASSUME NEW r \in Live(W), NEW s \in Live(W), W[r].attr = a, W[s].attr = a, W[r].val = W[s].val
                 PROVE  W[r].ent = W[s].ent
      BY DEF UniqueAt
    <3>1. ASSUME NEW i \in Live(W), W[i].attr = a
          PROVE  \/ W[i].ent = x.ent /\ W[i].val = x.val
                 \/ i \in Live(S) /\ S[i].attr = a /\ S[i].ent = W[i].ent /\ S[i].val = W[i].val
      <4>1. i \in RowIds /\ W[i].st = "live" /\ SetOrKept(W, S, x, i)
        BY DEF Live
      <4> QED
        BY <3>1, <4>1 DEF SetOrKept, Live
    <3>2. ASSUME NEW i \in Live(S), S[i].attr = a, S[i].val = x.val PROVE S[i].ent = x.ent
      BY <2>3, <3>2 DEF Collides
    <3> QED
      BY <2>1, <3>1, <3>2 DEF UniqueAt
  <2> QED
    BY <2>2, <2>3
<1>3. ASSUME n = 0 PROVE OneValueIn(W, vdef)
  <2> SUFFICES ASSUME NEW a \in Attrs, ~vdef[a].multi PROVE SingleAt(W, a)
    BY ByAttribute
  <2>1. SingleAt(S, a)
    BY <1>3, ByAttribute DEF TableFine
  <2>2. CASE a # x.attr
    BY <1>1, <2>1, <2>2, BelowKeeps
  <2>3. CASE a = x.attr
    <3> SUFFICES ASSUME NEW r \in Live(W), NEW s \in Live(W), W[r].attr = a, W[s].attr = a, W[r].ent = W[s].ent
                 PROVE  r = s
      BY DEF SingleAt
    <3>1. ASSUME NEW i \in Live(W), W[i].attr = a
          PROVE  \/ i \in Live(S) /\ S[i].attr = a /\ S[i].ent = W[i].ent
                 \/ i \in LiveCell(W, x.attr, x.ent) /\ S[i].st = "none" /\ W[i].ent = x.ent
      <4>1. i \in RowIds /\ W[i].st = "live" /\ SetOrKept(W, S, x, i)
        BY DEF Live
      <4> QED
        BY <2>3, <3>1, <4>1 DEF SetOrKept, Live, LiveCell
    <3>2. ASSUME NEW i \in Live(W), NEW j \in Live(W), W[j].attr = a, W[j].ent = x.ent, i \in LiveCell(W, x.attr, x.ent), S[i].st = "none"
          PROVE  i = j
      <4>1. j \in LiveCell(W, x.attr, x.ent)
        BY <2>3, <3>2 DEF LiveCell
      <4> QED
        BY <1>3, <2>3, <3>2, <4>1
    <3> QED
      BY <2>1, <3>1, <3>2 DEF SingleAt
  <2> QED
    BY <2>2, <2>3
<1>4. ASSUME n = 0 PROVE OneAnchorIn(W)
  <2> SUFFICES ASSUME NEW r \in RowIds, NEW s \in RowIds, W[r].st # "none", W[s].st # "none", W[r].ent = W[s].ent
               PROVE  W[r].typ = W[s].typ
    BY DEF OneAnchorIn
  <2>1. OneAnchorIn(S)
    BY <1>4 DEF TableFine
  <2>2. CASE W[r].ent = x.ent
    <3>1. r \in OfEntity(W, x.ent) /\ s \in OfEntity(W, x.ent)
      BY <2>2 DEF OfEntity
    <3> QED
      BY <2>1, <3>1
  <2>3. CASE W[r].ent # x.ent
    <3>1. W[r] = S[r] /\ W[s] = S[s]
      BY <2>3 DEF SetOrKept
    <3> QED
      BY <2>1, <3>1 DEF OneAnchorIn
  <2> QED
    BY <2>2, <2>3
<1> QED
  BY <1>2, <1>3, <1>4 DEF TableFine

\* setWithin.
LEMMA SetWithinKeeps ==
  ASSUME ValuesStrong, NEW p \in Writers, SetWithin(p)
  PROVE  ValuesStrong'
<1>1. PICK x, S, e : x = Item(p) /\ S = Seen(p) /\ e = Item(p).ent
  OBVIOUS
<1>2. PICK t : t = EntityType(S, x)
  OBVIOUS
<1>3. PICK W : W = Written(p, x)
  OBVIOUS
<1>4. /\ NextItem(p) /\ x.attr \in vtx[p].defs /\ FreshRow(S) # {} /\ SetAllowed(p, S, x) /\ SumFree(p, Touched(p, W))
      /\ RowsFree(p, W) /\ Race(AnchorRace(p, e, t)) /\ vrow' = vrow /\ vdef' = vdef
      /\ vtx' = [vtx EXCEPT ![p].todo = Behind(p), ![p].writes = Changed(p, W), ![p].sums = @ \cup Touched(p, W),
                            ![p].refs = @ \cup {[ent |-> e, typ |-> t, full |-> FALSE]}]
  BY <1>1, <1>2, <1>3 DEF SetWithin
<1>5. t # NoType /\ (vdef[x.attr].unique => ~Collides(S, x))
  BY <1>2, <1>4 DEF SetAllowed
<1>6. Active(p) /\ x.ent = e /\ \A i \in vtx[p].todo : e <= vtx[p].call.items[i].ent
  BY <1>1, <1>4, TurnFacts
<1>7. /\ W \in [RowIds -> RowStates] /\ x \in ItemRecords /\ S \in [RowIds -> RowStates] /\ t \in Types
      /\ \A r \in RowIds : SetOrKept(W, S, x, r)
      /\ OneAnchorIn(S) => \A r \in OfEntity(W, x.ent) : W[r].typ = t
      /\ races = 0 /\ ~vdef[x.attr].multi =>
           \A r \in LiveCell(W, x.attr, x.ent) : S[r].st = "none" => LiveCell(S, x.attr, x.ent) = {} /\ LiveCell(W, x.attr, x.ent) = {r}
  <2>1. SetResult(W, S, x, t)
    BY <1>1, <1>2, <1>3, <1>4, <1>5, SetFacts
  <2> QED
    BY <2>1 DEF SetResult
<1>8. /\ vtx \in [Writers -> TxRecords \cup {IdleTx}] /\ vtx[p] \in TxRecords /\ races \in Nat /\ e \in Entities
  BY <1>1, <1>6, <1>7, TxFacts DEF ValuesStrong, ValuesTypeOK, ItemRecords
<1>9. PICK b : b = (IF AnchorRace(p, e, t) THEN 1 ELSE 0)
  OBVIOUS
<1>10. races' = races + b /\ b \in {0, 1} /\ (b = 0 => ~AnchorRace(p, e, t))
  BY <1>4, <1>9 DEF Race
<1>11. races' \in Nat /\ (races' = 0 => races = 0 /\ b = 0)
  BY <1>8, <1>10
<1>12. TableFine(S, vdef, races)
  BY <1>1, <1>6, OwnFacts, SeenIsView
<1>13. TableFine(W, vdef, races')
  BY <1>5, <1>7, <1>11, <1>12, TableSet
<1>14. Moves(p, W, e)
  <2> SUFFICES ASSUME NEW r \in RowIds, W[r] # S[r] PROVE RowMoves(p, W[r], S[r], e)
    BY <1>1 DEF Moves
  <2>1. SetOrKept(W, S, x, r)
    BY <1>7
  <2> QED
    BY <1>4, <1>6, <2>1, RowFacts DEF SetOrKept, RowMoves
<1>15. ASSUME races' = 0 PROVE SameAnchor(p, W, e)
  <2> SUFFICES ASSUME NEW r \in RowIds, W[r] # S[r], NEW q \in Others(p), NEW s \in DOMAIN vtx[q].writes, vtx[q].writes[s].ent = e
               PROVE  vtx[q].writes[s].typ = W[r].typ
    BY <1>1 DEF SameAnchor
  <2>1. vtx[q].writes[s].typ = t
    BY <1>10, <1>11, <1>15 DEF AnchorRace
  <2>2. W[r].ent = e /\ W[r].st # "none"
    BY <1>1, <1>14, RowFacts DEF Moves, RowMoves
  <2>3. OneAnchorIn(S) /\ r \in OfEntity(W, e)
    BY <1>11, <1>12, <1>15, <2>2 DEF TableFine, OfEntity
  <2> QED
    BY <1>6, <1>7, <2>1, <2>3
<1>16. PICK ch, tc, td, rf, ref :
         /\ ch = Changed(p, W) /\ tc = vtx[p].sums \cup Touched(p, W) /\ td = Behind(p)
         /\ ref = [ent |-> e, typ |-> t, full |-> FALSE] /\ rf = vtx[p].refs \cup {ref}
  OBVIOUS
<1>17. vtx' = [vtx EXCEPT ![p].todo = td, ![p].writes = ch, ![p].sums = tc, ![p].refs = rf]
  <2>1. PICK tw : tw = Touched(p, W)
    OBVIOUS
  <2> QED
    BY <1>4, <1>8, <1>16, <2>1
<1>18. PICK w : w = [vtx[p] EXCEPT !.todo = td, !.writes = ch, !.sums = tc, !.refs = rf]
  OBVIOUS
<1>19. vtx' = [vtx EXCEPT ![p] = w]
  BY <1>8, <1>17, <1>18
<1>20. /\ ch \in StagedRows /\ tc \in SUBSET (Types \X Entities) /\ td \in SUBSET Nat /\ td \subseteq vtx[p].todo
       /\ rf \in SUBSET RefRecords
  <2>1. ch \in StagedRows /\ Touched(p, W) \subseteq Types \X Entities
    BY <1>6, <1>7, <1>8, <1>14, <1>16, ChangedFacts, TouchedFacts
  <2>2. vtx[p].sums \subseteq Types \X Entities /\ vtx[p].todo \subseteq Nat /\ vtx[p].refs \subseteq RefRecords
    BY <1>8 DEF TxRecords
  <2>3. ref \in RefRecords
    BY <1>7, <1>8, <1>16 DEF RefRecords
  <2> QED
    BY <1>16, <2>1, <2>2, <2>3 DEF Behind
<1>21. /\ w \in TxRecords /\ w.call = vtx[p].call /\ w.ahead = vtx[p].ahead /\ w.defs = vtx[p].defs
       /\ w.todo = td /\ w.sums = tc /\ w.writes = ch
  BY <1>8, <1>18, <1>20 DEF TxRecords
<1>22. /\ w.todo \subseteq vtx[p].todo /\ \A i \in w.todo : e <= w.call.items[i].ent
       /\ w.sums = vtx[p].sums \cup Touched(p, W) /\ w.writes = Changed(p, W)
  BY <1>6, <1>16, <1>20, <1>21
<1>23. races' = 0 => races = 0 /\ SameAnchor(p, W, e)
  BY <1>11, <1>15
<1> QED
  BY <1>4, <1>6, <1>7, <1>8, <1>11, <1>13, <1>14, <1>19, <1>21, <1>22, <1>23, StageStep

\* The summaries a transaction waits for are of the entity whose turn it is.
LEMMA WantsFacts ==
  ASSUME ValuesStrong, NEW p \in Writers, NEW k \in Wants(p)
  PROVE  NextItem(p) /\ k[2] = Item(p).ent
<1>1. /\ NextItem(p) /\ Item(p).attr \in vtx[p].defs /\ FreshRow(Seen(p)) # {} /\ SetAllowed(p, Seen(p), Item(p))
      /\ k \in Touched(p, Written(p, Item(p)))
  BY DEF Wants
<1>2. PICK x, S, e : x = Item(p) /\ S = Seen(p) /\ e = Item(p).ent
  OBVIOUS
<1>3. PICK t : t = EntityType(S, x)
  OBVIOUS
<1>4. PICK W : W = Written(p, x)
  OBVIOUS
<1>5. x.attr \in vtx[p].defs /\ FreshRow(S) # {} /\ t # NoType
  BY <1>1, <1>2, <1>3 DEF SetAllowed
<1>6. SetResult(W, S, x, t)
  BY <1>1, <1>2, <1>3, <1>4, <1>5, SetFacts
<1>7. Active(p) /\ x.ent = e /\ e \in Entities
  BY <1>1, <1>2, TurnFacts DEF ItemRecords
<1>8. Moves(p, W, e)
  <2> SUFFICES ASSUME NEW r \in RowIds, W[r] # S[r] PROVE RowMoves(p, W[r], S[r], e)
    BY <1>2 DEF Moves
  <2>1. SetOrKept(W, S, x, r)
    BY <1>6 DEF SetResult
  <2> QED
    BY <1>5, <1>7, <2>1, RowFacts DEF SetOrKept, RowMoves
<1>9. \A j \in Touched(p, W) : j[2] = e
  BY <1>6, <1>7, <1>8, TouchedFacts DEF SetResult
<1> QED
  BY <1>1, <1>2, <1>4, <1>9

\* Nobody waits for a summary of an entity before those whose summaries he holds.
LEMMA NoCrosswiseWait ==
  ASSUME ValuesStrong
  PROVE  NoSummaryDeadlock
<1> SUFFICES ASSUME races = 0, NEW p \in Writers, NEW q \in Writers, Active(p), Active(q), p # q,
                    NEW k \in Wants(p), k \in vtx[q].sums, NEW l \in Wants(q), l \in vtx[p].sums
             PROVE  FALSE
  BY DEF NoSummaryDeadlock
<1>1. NextItem(p) /\ k[2] = Item(p).ent /\ NextItem(q) /\ l[2] = Item(q).ent
  BY WantsFacts
<1>2. /\ Turn(p) \in vtx[p].todo /\ Item(p) \in ItemRecords /\ Turn(q) \in vtx[q].todo /\ Item(q) \in ItemRecords
      /\ vtx[p].call.items[Turn(p)] = Item(p) /\ vtx[q].call.items[Turn(q)] = Item(q)
  BY <1>1, TurnFacts DEF Item
<1>3. TxShaped(vtx[p]) /\ TxShaped(vtx[q])
  BY DEF ValuesStrong, StagedUnderLocks
<1>4. Item(q).ent <= Item(p).ent /\ Item(p).ent <= Item(q).ent
  BY <1>1, <1>2, <1>3 DEF TxShaped
<1>5. Item(p).ent \in Nat /\ Item(q).ent \in Nat
  BY <1>2, ValuesAssumption DEF ItemRecords, Entities
<1>6. k[2] = l[2]
  BY <1>1, <1>4, <1>5
<1>7. PICK r \in DOMAIN vtx[p].writes : vtx[p].writes[r].ent = l[2]
  BY <1>3 DEF TxShaped
<1>8. PICK s \in DOMAIN vtx[q].writes : vtx[q].writes[s].ent = k[2]
  BY <1>3 DEF TxShaped
<1> QED
  BY <1>6, <1>7, <1>8 DEF ValuesStrong, EntitiesApart

\* Every step keeps the inductive invariant.
LEMMA ValuesStep == ValuesStrong /\ [ValuesNext]_valueVars => ValuesStrong'
<1> SUFFICES ASSUME ValuesStrong, [ValuesNext]_valueVars PROVE ValuesStrong'
  OBVIOUS
<1>1. ASSUME NEW p \in Writers, WriterNext(p) PROVE ValuesStrong'
  <2>1. ASSUME NEW c \in Calls, Begin(p, c) PROVE ValuesStrong'
    BY <2>1, BeginKeeps
  <2>2. CASE LockDefinition(p)
    BY <2>2, LockDefinitionKeeps
  <2>3. CASE SetWithin(p)
    BY <2>3, SetWithinKeeps
  <2>4. CASE RemoveScoped(p) \/ Remove(p) \/ ArchiveRest(p)
    BY <2>4, RemovalsKeep
  <2>5. CASE RemoveEntity(p)
    BY <2>5, RemoveEntityKeeps
  <2>6. CASE RunChecks(p)
    BY <2>6, RunChecksKeeps
  <2>7. CASE Commit(p)
    BY <2>7, CommitKeeps
  <2>8. CASE Rollback(p)
    BY <2>8, RollbackKeeps DEF Rollback
  <2> QED
    BY <1>1, <2>1, <2>2, <2>3, <2>4, <2>5, <2>6, <2>7, <2>8 DEF WriterNext
<1>2. ASSUME NEW a \in Attrs, EditDefinition(a) PROVE ValuesStrong'
  BY <1>2, EditDefinitionKeeps
<1>3. CASE UNCHANGED valueVars
  <2>1. vrow' = vrow /\ vdef' = vdef /\ vtx' = vtx /\ races' = races
    BY <1>3 DEF valueVars
  <2> QED
    BY <2>1 DEF ValuesStrong, ValuesTypeOK, StagedUnderLocks, AheadStays, WritersApart, EntitiesApart, ImportsKnow, ViewsFine, Active
<1> QED
  BY <1>1, <1>2, <1>3 DEF ValuesNext

\* However the writers interleave, a unique value has one holder; and without an overlap through an
\* unlocked read a single-valued cell has one live row, the rows of an entity stand under one type
\* and no two transactions wait for each other's summaries.
THEOREM ValuesInvariant == ValuesSpec => []ValuesInv
<1>1. ValuesStrong => ValuesInv
  <2> SUFFICES ASSUME ValuesStrong PROVE ValuesInv
    OBVIOUS
  <2>1. UniqueHeld /\ OneValuePerCell /\ OneAnchor
    BY DEF ValuesStrong, ViewsFine, TableFine, UniqueHeld, OneValuePerCell, OneAnchor
  <2> QED
    BY <2>1, NoCrosswiseWait DEF ValuesInv
<1> QED
  BY <1>1, ValuesStart, ValuesStep, PTL DEF ValuesSpec

-----------------------------------------------------------------------------
(* What single calls promise. *)

\* Whether a transaction w has staged a row of entity e.
WritesOn(w, e) == \E s \in DOMAIN w.writes : w.writes[s].ent = e
\* Of the rows of e that w staged over the committed ones: all it did was to remove and to note it;
\* what it changed is archived.
OnlyRemoved(w, rows, e) ==
    \A s \in DOMAIN w.writes : w.writes[s].ent = e =>
        /\ rows[s].st # "none" /\ w.writes[s].val = rows[s].val /\ w.writes[s].typ = rows[s].typ
        /\ rows[s].st = "live" <=> w.writes[s].st = "live" \/ s \in w.gone
OnlyArchived(w, rows, e) ==
    \A s \in DOMAIN w.writes : w.writes[s].ent = e /\ w.writes[s].st = "live" => w.writes[s] = rows[s]
\* The gate judges e by a note under the type e has, and as a removal only where there was no more.
Judged(w, rows, e, ref) ==
    /\ ref.ent = e /\ (ref.full => OnlyRemoved(w, rows, e))
    /\ \A s \in OfEntity(ViewOf(w, rows), e) : ViewOf(w, rows)[s].typ = ref.typ
Answered(w, rows, e) ==
    \/ ~WritesOn(w, e)
    \/ \E ref \in w.refs : Judged(w, rows, e, ref)
    \/ w.call.kind = "snapshot" /\ OnlyArchived(w, rows, e)
\* GateRefuses, of the rows a transaction sees and those it removed.
Refused(rows, gone, ref) ==
    LET mine == {r \in LiveOf(rows, ref.ent) : rows[r].typ = ref.typ}
        was == mine \cup {r \in gone : rows[r].ent = ref.ent}
    IN /\ mine # {}
       /\ \E rule \in Unmet(rows, mine) : ref.full => rule \notin Unmet(rows, was)
\* What was checked stays so for the entities the transaction has staged rows of.
Passed(w, rows) == w.pc = "checked" => \A ref \in w.refs : WritesOn(w, ref.ent) => ~Refused(ViewOf(w, rows), w.gone, ref)
GateFits(w, rows) ==
    w.gone \subseteq DOMAIN w.writes /\ Passed(w, rows) /\ \A e \in Entities : Answered(w, rows, e)
\* ApplyDefaults has empty cells before it, and has changed no value behind it.
DefaultsFit(w, rows) ==
    /\ \A i \in w.todo : LiveCell(rows, w.call.items[i].attr, w.call.items[i].ent) = {}
    /\ \A r \in DOMAIN w.writes : rows[r].st = "live" => w.writes[r].st = "live" /\ w.writes[r].val = rows[r].val
\* ApplySnapshot writes one entity, and in the end its live rows are those of the snapshot.
RestoreFits(w, rows) ==
    /\ \A ref \in w.refs : ~ref.full
    /\ \A s \in DOMAIN w.writes : w.writes[s].ent = w.call.ent
    /\ w.pc # "run" /\ DOMAIN w.writes # {} =>
          \A r \in LiveOf(ViewOf(w, rows), w.call.ent) : InSnapshot(w.call, ViewOf(w, rows)[r])
CallFits(w, rows) ==
    /\ w.call.kind # "removeEntity" => GateFits(w, rows)
    /\ w.call.kind = "defaults" => DefaultsFit(w, rows)
    /\ w.call.kind = "snapshot" => RestoreFits(w, rows)
CallsFit == races = 0 => \A p \in Writers : Active(p) => CallFits(vtx[p], vrow)

\* A transaction that moves on while the table stays as it is.
LEMMA FitStep ==
  ASSUME ValuesStrong, CallsFit, NEW p \in Writers, NEW w, vtx' = [vtx EXCEPT ![p] = w], vrow' = vrow,
         races' = 0 => races = 0, races' = 0 => CallFits(w, vrow)
  PROVE  CallsFit'
<1>1. vtx'[p] = w /\ \A q \in Writers \ {p} : vtx'[q] = vtx[q]
  BY DEF ValuesStrong, ValuesTypeOK
<1>2. \A q \in Writers \ {p} : Active(q)' <=> Active(q)
  BY <1>1 DEF Active
<1> QED
  BY <1>1, <1>2 DEF CallsFit

\* Only these parts of a transaction matter.
LEMMA SameFits ==
  ASSUME NEW v, NEW w, NEW rows, w.call = v.call, w.todo = v.todo, w.writes = v.writes, w.refs = v.refs, w.gone = v.gone,
         CallFits(v, rows), w.pc = v.pc
  PROVE  CallFits(w, rows)
<1>1. ViewOf(w, rows) = ViewOf(v, rows)
  BY DEF ViewOf
<1>2. \A e : WritesOn(w, e) <=> WritesOn(v, e)
  BY DEF WritesOn
<1>3. \A e : Answered(v, rows, e) => Answered(w, rows, e)
  BY <1>1, <1>2 DEF Answered, Judged, OnlyRemoved, OnlyArchived
<1>4. Passed(v, rows) => Passed(w, rows)
  BY <1>1, <1>2 DEF Passed
<1>5. GateFits(v, rows) => GateFits(w, rows)
  BY <1>3, <1>4 DEF GateFits
<1>6. DefaultsFit(v, rows) => DefaultsFit(w, rows)
  BY DEF DefaultsFit
<1>7. RestoreFits(v, rows) => RestoreFits(w, rows)
  BY <1>1 DEF RestoreFits
<1> QED
  BY <1>5, <1>6, <1>7 DEF CallFits

\* A call begins with nothing staged; ApplyDefaults keeps the empty cells alone.
LEMMA BeginFits ==
  ASSUME ValuesStrong, CallsFit, NEW p \in Writers, NEW c \in Calls, Begin(p, c)
  PROVE  CallsFit'
<1>1. PICK w : w = NewTx(c, ItemsOf(c), ReadAhead(c))
  OBVIOUS
<1>2. vtx' = [vtx EXCEPT ![p] = w] /\ vrow' = vrow /\ races' = races
  BY <1>1 DEF Begin
<1>3. w.pc = "run" /\ w.call = c /\ w.todo = ItemsOf(c) /\ w.writes = << >> /\ w.refs = {} /\ w.gone = {}
  BY <1>1 DEF NewTx
<1>4. DOMAIN w.writes = {}
  BY <1>3
<1>5. GateFits(w, vrow)
  BY <1>3, <1>4 DEF GateFits, Passed, Answered, WritesOn
<1>6. c.kind = "defaults" => DefaultsFit(w, vrow)
  BY <1>3, <1>4 DEF DefaultsFit, ItemsOf
<1>7. RestoreFits(w, vrow)
  BY <1>3, <1>4 DEF RestoreFits
<1>8. CallFits(w, vrow)
  BY <1>3, <1>5, <1>6, <1>7 DEF CallFits
<1> QED
  BY <1>2, <1>8, FitStep

\* lockDefinition.
LEMMA LockDefinitionFits ==
  ASSUME ValuesStrong, CallsFit, NEW p \in Writers, LockDefinition(p)
  PROVE  CallsFit'
<1>1. Active(p)
  BY DEF LockDefinition, NextItem, Active
<1>2. PICK a : a = Item(p).attr
  OBVIOUS
<1>3. vtx' = [vtx EXCEPT ![p].defs = @ \cup {a}] /\ vrow' = vrow /\ races' = races
  BY <1>2 DEF LockDefinition
<1>5. PICK w : w = [vtx[p] EXCEPT !.defs = @ \cup {a}]
  OBVIOUS
<1>6. vtx[p] \in TxRecords
  BY <1>1, TxFacts DEF ValuesStrong
<1>7. /\ w.call = vtx[p].call /\ w.todo = vtx[p].todo /\ w.writes = vtx[p].writes
      /\ w.refs = vtx[p].refs /\ w.gone = vtx[p].gone /\ w.pc = vtx[p].pc
  BY <1>5, <1>6 DEF TxRecords
<1>8. vtx' = [vtx EXCEPT ![p] = w]
  BY <1>3, <1>5 DEF ValuesStrong, ValuesTypeOK
<1>9. races = 0 => CallFits(w, vrow)
  <2>1. races = 0 => CallFits(vtx[p], vrow)
    BY <1>1 DEF CallsFit
  <2> QED
    BY <1>7, <2>1, SameFits
<1> QED
  BY <1>3, <1>8, <1>9, FitStep

\* RunChecks: the gate has judged every note, and a restore has archived the rest.
LEMMA RunChecksFits ==
  ASSUME ValuesStrong, CallsFit, NEW p \in Writers, RunChecks(p)
  PROVE  CallsFit'
<1>1. Active(p) /\ Done(p)
  BY DEF RunChecks, Done, Active
<1>2. /\ vtx' = [vtx EXCEPT ![p].pc = "checked"] /\ vrow' = vrow /\ races' = races
      /\ \A ref \in vtx[p].refs : ~GateRefuses(p, ref)
  BY DEF RunChecks
<1>3. PICK w : w = [vtx[p] EXCEPT !.pc = "checked"]
  OBVIOUS
<1>4. vtx[p] \in TxRecords
  BY <1>1, TxFacts DEF ValuesStrong
<1>5. /\ w.call = vtx[p].call /\ w.todo = vtx[p].todo /\ w.writes = vtx[p].writes
      /\ w.refs = vtx[p].refs /\ w.gone = vtx[p].gone /\ w.pc = "checked"
  BY <1>3, <1>4 DEF TxRecords
<1>6. vtx' = [vtx EXCEPT ![p] = w]
  BY <1>2, <1>3 DEF ValuesStrong, ValuesTypeOK
<1>7. ASSUME races = 0 PROVE CallFits(w, vrow)
  <2>1. CallFits(vtx[p], vrow)
    BY <1>1, <1>7 DEF CallsFit
  <2>2. ViewOf(w, vrow) = ViewOf(vtx[p], vrow) /\ Seen(p) = ViewOf(vtx[p], vrow)
    BY <1>5, SeenIsView DEF ViewOf
  <2>3. \A ref \in vtx[p].refs : ~Refused(Seen(p), vtx[p].gone, ref)
    BY <1>2 DEF GateRefuses, Refused
  <2>4. Passed(w, vrow)
    BY <1>5, <2>2, <2>3 DEF Passed
  <2>5. \A e : WritesOn(w, e) <=> WritesOn(vtx[p], e)
    BY <1>5 DEF WritesOn
  <2>6. \A e : Answered(vtx[p], vrow, e) => Answered(w, vrow, e)
    BY <1>5, <2>2, <2>5 DEF Answered, Judged, OnlyRemoved, OnlyArchived
  <2>7. w.call.kind # "removeEntity" => GateFits(w, vrow)
    BY <1>5, <2>1, <2>4, <2>6 DEF CallFits, GateFits
  <2>8. w.call.kind = "defaults" => DefaultsFit(w, vrow)
    BY <1>5, <2>1 DEF CallFits, DefaultsFit
  <2>9. ASSUME w.call.kind = "snapshot" PROVE RestoreFits(w, vrow)
    <3>1. vtx[p].pc = "written"
      BY <1>1, <1>5, <2>9 DEF Done
    <3> QED
      BY <1>5, <2>1, <2>2, <2>9, <3>1 DEF CallFits, RestoreFits
  <2> QED
    BY <2>7, <2>8, <2>9 DEF CallFits
<1> QED
  BY <1>2, <1>6, <1>7, FitStep

\* RemoveEntity notes nothing and is not judged.
LEMMA RemoveEntityFits ==
  ASSUME ValuesStrong, CallsFit, NEW p \in Writers, RemoveEntity(p)
  PROVE  CallsFit'
<1>1. Active(p) /\ vrow' = vrow /\ races' = races /\ vtx[p].call.kind = "removeEntity"
  BY DEF RemoveEntity, Active
<1>2. vtx \in [Writers -> TxRecords \cup {IdleTx}] /\ vtx[p] \in TxRecords
  BY <1>1, TxFacts DEF ValuesStrong, ValuesTypeOK
<1>3. PICK rw, ks : vtx' = [vtx EXCEPT ![p].writes = rw, ![p].sums = ks, ![p].pc = "written"]
  BY DEF RemoveEntity
<1>4. PICK w : w = [vtx[p] EXCEPT !.writes = rw, !.sums = ks, !.pc = "written"]
  OBVIOUS
<1>5. vtx' = [vtx EXCEPT ![p] = w]
  BY <1>2, <1>3, <1>4
<1>6. w.call.kind = "removeEntity"
  BY <1>1, <1>2, <1>4 DEF TxRecords
<1>7. CallFits(w, vrow)
  BY <1>6 DEF CallFits
<1> QED
  BY <1>1, <1>5, <1>7, FitStep

\* What a statement on entity e does to the transaction: of v, that sees S, it makes w, that sees W.
StagesOn(v, w, S, W, e) ==
    /\ DOMAIN v.writes \subseteq DOMAIN w.writes /\ DOMAIN w.writes \subseteq RowIds
    /\ \A r \in DOMAIN w.writes : /\ w.writes[r] = W[r] /\ W[r] \in RowRecords
                                  /\ W[r] # S[r] \/ (r \in DOMAIN v.writes /\ v.writes[r] = W[r])
    /\ \A r \in RowIds : W[r] # S[r] => r \in DOMAIN w.writes /\ W[r].ent = e /\ (S[r].st # "none" => S[r].ent = e)

\* What the gate will judge of another entity stays as it is.
LEMMA AnsweredElsewhere ==
  ASSUME NEW v, NEW w, NEW rows, NEW S, NEW W, NEW e, NEW d, d # e, StagesOn(v, w, S, W, e),
         S \in [RowIds -> RowStates], W \in [RowIds -> RowStates], S = ViewOf(v, rows), W = ViewOf(w, rows),
         v.refs \subseteq w.refs, w.call = v.call, v.gone \subseteq w.gone,
         \A s \in w.gone \ v.gone : W[s].ent = e, Answered(v, rows, d)
  PROVE  Answered(w, rows, d)
<1>1. \A s \in DOMAIN w.writes : w.writes[s].ent = d => s \in DOMAIN v.writes /\ v.writes[s] = w.writes[s]
  BY DEF StagesOn
<1>2. CASE ~WritesOn(v, d)
  BY <1>1, <1>2 DEF Answered, WritesOn
<1>3. ASSUME NEW ref \in v.refs, Judged(v, rows, d, ref) PROVE Answered(w, rows, d)
  <2>1. ASSUME OnlyRemoved(v, rows, d) PROVE OnlyRemoved(w, rows, d)
    <3> SUFFICES ASSUME NEW s \in DOMAIN w.writes, w.writes[s].ent = d
                 PROVE  /\ rows[s].st # "none" /\ w.writes[s].val = rows[s].val /\ w.writes[s].typ = rows[s].typ
                        /\ rows[s].st = "live" <=> w.writes[s].st = "live" \/ s \in w.gone
      BY DEF OnlyRemoved
    <3>1. s \in DOMAIN v.writes /\ v.writes[s] = w.writes[s] /\ v.writes[s].ent = d /\ W[s].ent = d
      BY <1>1 DEF StagesOn
    <3>2. s \in w.gone <=> s \in v.gone
      BY <3>1
    <3> QED
      BY <2>1, <3>1, <3>2 DEF OnlyRemoved
  <2>2. ASSUME NEW s \in OfEntity(W, d) PROVE s \in OfEntity(S, d) /\ W[s] = S[s]
    <3>1. s \in RowIds /\ W[s].st # "none" /\ W[s].ent = d
      BY DEF OfEntity
    <3>2. W[s] = S[s]
      BY <3>1 DEF StagesOn
    <3> QED
      BY <3>1, <3>2 DEF OfEntity
  <2>3. ref.ent = d /\ (ref.full => OnlyRemoved(v, rows, d)) /\ \A s \in OfEntity(S, d) : S[s].typ = ref.typ
    BY <1>3 DEF Judged
  <2>4. \A s \in OfEntity(W, d) : W[s].typ = ref.typ
    BY <2>2, <2>3
  <2>5. Judged(w, rows, d, ref)
    BY <2>1, <2>3, <2>4 DEF Judged
  <2> QED
    BY <2>5 DEF Answered
<1>4. CASE v.call.kind = "snapshot" /\ OnlyArchived(v, rows, d)
  <2>1. OnlyArchived(w, rows, d)
    BY <1>1, <1>4 DEF OnlyArchived
  <2> QED
    BY <1>4, <2>1 DEF Answered
<1> QED
  BY <1>2, <1>3, <1>4 DEF Answered

\* What a removal of rows T leaves of them.
Removes(S, W, T) ==
    /\ \A r \in RowIds \ T : W[r] = S[r]
    /\ \A r \in T : /\ S[r] \in RowRecords /\ S[r].st = "live" /\ W[r] \in RowRecords /\ W[r].st = "archived"
                    /\ W[r].attr = S[r].attr /\ W[r].ent = S[r].ent /\ W[r].val = S[r].val /\ W[r].typ = S[r].typ

\* A removal that is noted.
LEMMA RemovalAnswered ==
  ASSUME NEW v, NEW w, NEW rows, NEW S, NEW W, NEW e, NEW T \in SUBSET RowIds, StagesOn(v, w, S, W, e),
         S \in [RowIds -> RowStates], W \in [RowIds -> RowStates], S = ViewOf(v, rows), W = ViewOf(w, rows), OneAnchorIn(W),
         v.refs \subseteq w.refs, w.gone = v.gone \cup T, v.call.kind # "snapshot",
         Removes(S, W, T), \A r \in T : S[r].ent = e, Noted(W, T) \subseteq w.refs, Answered(v, rows, e)
  PROVE  Answered(w, rows, e)
<1>5. /\ \A r \in RowIds \ T : W[r] = S[r]
      /\ \A r \in T : /\ S[r].st = "live" /\ S[r].ent = e /\ W[r].st = "archived" /\ W[r].ent = e /\ W[r].val = S[r].val
                      /\ W[r].typ = S[r].typ
  BY DEF Removes
<1>6. \A r \in T : [ent |-> e, typ |-> W[r].typ, full |-> TRUE] \in w.refs
  BY <1>5 DEF Noted
<1>0. \A r \in RowIds : /\ S[r] = IF r \in DOMAIN v.writes THEN v.writes[r] ELSE rows[r]
                        /\ W[r] = IF r \in DOMAIN w.writes THEN w.writes[r] ELSE rows[r]
  BY DEF ViewOf
<1>1. \A s \in DOMAIN w.writes : s \in RowIds /\ w.writes[s] = W[s] /\ (s \notin T => s \in DOMAIN v.writes /\ v.writes[s] = W[s])
  BY <1>5 DEF StagesOn
<1>2. ASSUME OnlyRemoved(v, rows, e) PROVE OnlyRemoved(w, rows, e)
  <2> SUFFICES ASSUME NEW s \in DOMAIN w.writes, w.writes[s].ent = e
               PROVE  /\ rows[s].st # "none" /\ w.writes[s].val = rows[s].val /\ w.writes[s].typ = rows[s].typ
                      /\ rows[s].st = "live" <=> w.writes[s].st = "live" \/ s \in w.gone
    BY DEF OnlyRemoved
  <2>1. CASE s \notin T
    BY <1>1, <1>2, <2>1 DEF OnlyRemoved
  <2>2. CASE s \in T
    <3>1. S[s].st = "live" /\ S[s].ent = e /\ w.writes[s].st = "archived" /\ w.writes[s].val = S[s].val /\ w.writes[s].typ = S[s].typ /\ s \in w.gone
      BY <1>1, <1>5, <2>2
    <3>2. rows[s].st = "live" /\ rows[s].val = S[s].val /\ rows[s].typ = S[s].typ
      <4>1. CASE s \in DOMAIN v.writes
        <5>1. v.writes[s] = S[s]
          BY <1>0, <1>1, <4>1
        <5> QED
          BY <1>2, <3>1, <4>1, <5>1 DEF OnlyRemoved
      <4>2. CASE s \notin DOMAIN v.writes
        BY <1>0, <1>1, <3>1, <4>2
      <4> QED
        BY <4>1, <4>2
    <3> QED
      BY <3>1, <3>2
  <2> QED
    BY <2>1, <2>2
<1>3. ASSUME NEW ref \in v.refs, Judged(v, rows, e, ref) PROVE Answered(w, rows, e)
  <2>1. ref.ent = e /\ (ref.full => OnlyRemoved(v, rows, e)) /\ \A s \in OfEntity(S, e) : S[s].typ = ref.typ
    BY <1>3 DEF Judged
  <2>2. ASSUME NEW s \in OfEntity(W, e) PROVE W[s].typ = ref.typ
    <3>1. s \in RowIds /\ W[s].st # "none" /\ W[s].ent = e
      BY DEF OfEntity
    <3>2. s \in OfEntity(S, e) /\ W[s].typ = S[s].typ
      BY <1>5, <3>1 DEF OfEntity
    <3> QED
      BY <2>1, <3>2
  <2>3. Judged(w, rows, e, ref)
    BY <1>2, <2>1, <2>2 DEF Judged
  <2> QED
    BY <2>3 DEF Answered
<1>4. CASE ~WritesOn(v, e)
  <2> SUFFICES ASSUME NEW s \in DOMAIN w.writes, w.writes[s].ent = e PROVE Answered(w, rows, e)
    BY DEF Answered, WritesOn
  <2>1. s \in T /\ s \in RowIds /\ W[s].st # "none" /\ W[s].ent = e
    BY <1>1, <1>4, <1>5 DEF WritesOn
  <2>2. PICK ref : ref = [ent |-> e, typ |-> W[s].typ, full |-> TRUE]
    OBVIOUS
  <2>3. ref \in w.refs /\ ref.ent = e /\ ref.typ = W[s].typ
    BY <1>6, <2>1, <2>2
  <2>4. OnlyRemoved(v, rows, e)
    BY <1>4 DEF WritesOn, OnlyRemoved
  <2>5. \A r \in OfEntity(W, e) : W[r].typ = ref.typ
    BY <2>1, <2>3 DEF OneAnchorIn, OfEntity
  <2>6. Judged(w, rows, e, ref)
    BY <1>2, <2>3, <2>4, <2>5 DEF Judged
  <2> QED
    BY <2>3, <2>6 DEF Answered
<1> QED
  BY <1>3, <1>4 DEF Answered

\* The rest that a restore archives.
LEMMA RestAnswered ==
  ASSUME NEW v, NEW w, NEW rows, NEW S, NEW W, NEW e, NEW T \in SUBSET RowIds, StagesOn(v, w, S, W, e),
         S \in [RowIds -> RowStates], W \in [RowIds -> RowStates], S = ViewOf(v, rows), W = ViewOf(w, rows),
         w.refs = v.refs, w.call = v.call, v.call.kind = "snapshot", \A ref \in v.refs : ~ref.full,
         \A r \in RowIds \ T : W[r] = S[r],
         \A r \in T : S[r].st = "live" /\ S[r].ent = e /\ W[r].st = "archived" /\ W[r].ent = e /\ W[r].typ = S[r].typ,
         Answered(v, rows, e)
  PROVE  Answered(w, rows, e)
<1>1. \A s \in DOMAIN w.writes : s \in RowIds /\ w.writes[s] = W[s] /\ (s \notin T => s \in DOMAIN v.writes /\ v.writes[s] = W[s])
  BY DEF StagesOn
<1>2. ASSUME NEW ref \in v.refs, Judged(v, rows, e, ref) PROVE Answered(w, rows, e)
  <2>1. ref.ent = e /\ ~ref.full /\ \A s \in OfEntity(S, e) : S[s].typ = ref.typ
    BY <1>2 DEF Judged
  <2>2. ASSUME NEW s \in OfEntity(W, e) PROVE W[s].typ = ref.typ
    <3>1. s \in RowIds /\ W[s].st # "none" /\ W[s].ent = e
      BY DEF OfEntity
    <3>2. s \in OfEntity(S, e) /\ W[s].typ = S[s].typ
      BY <3>1 DEF OfEntity
    <3> QED
      BY <2>1, <3>2
  <2>3. Judged(w, rows, e, ref)
    BY <2>1, <2>2 DEF Judged
  <2> QED
    BY <2>3 DEF Answered
<1>3. ASSUME OnlyArchived(v, rows, e) PROVE Answered(w, rows, e)
  <2>1. OnlyArchived(w, rows, e)
    <3> SUFFICES ASSUME NEW s \in DOMAIN w.writes, w.writes[s].ent = e, w.writes[s].st = "live" PROVE w.writes[s] = rows[s]
      BY DEF OnlyArchived
    <3>1. s \notin T
      BY <1>1
    <3> QED
      BY <1>1, <1>3, <3>1 DEF OnlyArchived
  <2> QED
    BY <2>1 DEF Answered
<1>4. ~WritesOn(v, e) => OnlyArchived(v, rows, e)
  BY DEF WritesOn, OnlyArchived
<1> QED
  BY <1>2, <1>3, <1>4 DEF Answered

\* What p stages, in these terms.
LEMMA StagesFacts ==
  ASSUME ValuesStrong, NEW p \in Writers, Active(p), NEW e, NEW W \in [RowIds -> RowStates], Moves(p, W, e),
         NEW w, w.writes = Changed(p, W)
  PROVE  /\ StagesOn(vtx[p], w, Seen(p), W, e) /\ W = ViewOf(w, vrow) /\ Seen(p) = ViewOf(vtx[p], vrow)
         /\ Seen(p) \in [RowIds -> RowStates] /\ vrow \in [RowIds -> RowStates]
         /\ \A r \in RowIds : Seen(p)[r] = IF r \in DOMAIN vtx[p].writes THEN vtx[p].writes[r] ELSE vrow[r]
<1>1. /\ w.writes \in StagedRows /\ DOMAIN vtx[p].writes \subseteq DOMAIN w.writes
      /\ \A r \in RowIds : W[r] # Seen(p)[r] => r \in DOMAIN w.writes
      /\ \A r \in DOMAIN w.writes :
           /\ r \in RowIds /\ w.writes[r] = W[r] /\ W[r] \in RowRecords
           /\ W[r] # Seen(p)[r] \/ (r \in DOMAIN vtx[p].writes /\ W[r] = vtx[p].writes[r])
      /\ \A r \in RowIds \ DOMAIN w.writes : W[r] = vrow[r]
  BY ChangedFacts
<1>2. vrow \in [RowIds -> RowStates] /\ vtx[p].writes \in StagedRows
  BY TxFacts DEF ValuesStrong, ValuesTypeOK
<1>3. Seen(p) = ViewOf(vtx[p], vrow)
  BY SeenIsView
<1>4. W = ViewOf(w, vrow)
  BY <1>1, <1>2, ViewFacts
<1>5. \A r \in RowIds : W[r] # Seen(p)[r] => W[r].ent = e /\ (Seen(p)[r].st # "none" => Seen(p)[r].ent = e)
  BY DEF Moves, RowMoves
<1>6. StagesOn(vtx[p], w, Seen(p), W, e)
  BY <1>1, <1>5 DEF StagesOn
<1> QED
  BY <1>2, <1>3, <1>4, <1>6, ViewFacts

\* setWithin: its note stands for the entity, a default fills an empty cell, a restore sets its own entity.
LEMMA SetWithinFits ==
  ASSUME ValuesStrong, CallsFit, NEW p \in Writers, SetWithin(p)
  PROVE  CallsFit'
<1>1. PICK x, S, e : x = Item(p) /\ S = Seen(p) /\ e = Item(p).ent
  OBVIOUS
<1>2. PICK t : t = EntityType(S, x)
  OBVIOUS
<1>3. PICK W : W = Written(p, x)
  OBVIOUS
<1>4. /\ NextItem(p) /\ x.op = "set" /\ x.attr \in vtx[p].defs /\ FreshRow(S) # {} /\ SetAllowed(p, S, x)
      /\ Race(AnchorRace(p, e, t)) /\ vrow' = vrow
      /\ vtx' = [vtx EXCEPT ![p].todo = Behind(p), ![p].writes = Changed(p, W), ![p].sums = @ \cup Touched(p, W),
                            ![p].refs = @ \cup {[ent |-> e, typ |-> t, full |-> FALSE]}]
  BY <1>1, <1>2, <1>3 DEF SetWithin
<1>5. t # NoType
  BY <1>2, <1>4 DEF SetAllowed
<1>6. Active(p) /\ x.ent = e /\ vtx[p].pc = "run" /\ Turn(p) \in vtx[p].todo /\ vtx[p].call.items[Turn(p)] = x
  BY <1>1, <1>4, TurnFacts DEF NextItem, Item
<1>7. /\ W \in [RowIds -> RowStates] /\ x \in ItemRecords /\ S \in [RowIds -> RowStates] /\ t \in Types
      /\ \A r \in RowIds : SetOrKept(W, S, x, r)
      /\ OneAnchorIn(S) => \A r \in OfEntity(W, x.ent) : W[r].typ = t
  <2>1. SetResult(W, S, x, t)
    BY <1>1, <1>2, <1>3, <1>4, <1>5, SetFacts
  <2> QED
    BY <2>1 DEF SetResult
<1>8. /\ vtx \in [Writers -> TxRecords \cup {IdleTx}] /\ vtx[p] \in TxRecords /\ races \in Nat /\ vtx[p].call \in Calls
      /\ vrow \in [RowIds -> RowStates]
  BY <1>6, TxFacts DEF ValuesStrong, ValuesTypeOK
<1>9. races' = 0 => races = 0
  BY <1>4, <1>8 DEF Race
<1>10. Moves(p, W, e)
  <2> SUFFICES ASSUME NEW r \in RowIds, W[r] # S[r] PROVE RowMoves(p, W[r], S[r], e)
    BY <1>1 DEF Moves
  <2>1. SetOrKept(W, S, x, r)
    BY <1>7
  <2> QED
    BY <1>4, <1>6, <2>1, RowFacts DEF SetOrKept, RowMoves
<1>11. PICK ch, tc, td, rf, ref :
         /\ ch = Changed(p, W) /\ tc = vtx[p].sums \cup Touched(p, W) /\ td = Behind(p)
         /\ ref = [ent |-> e, typ |-> t, full |-> FALSE] /\ rf = vtx[p].refs \cup {ref}
  OBVIOUS
<1>12. vtx' = [vtx EXCEPT ![p].todo = td, ![p].writes = ch, ![p].sums = tc, ![p].refs = rf]
  <2>1. PICK tw : tw = Touched(p, W)
    OBVIOUS
  <2> QED
    BY <1>4, <1>8, <1>11, <2>1
<1>13. PICK w : w = [vtx[p] EXCEPT !.todo = td, !.writes = ch, !.sums = tc, !.refs = rf]
  OBVIOUS
<1>14. vtx' = [vtx EXCEPT ![p] = w]
  BY <1>8, <1>12, <1>13
<1>15. /\ w.call = vtx[p].call /\ w.todo = td /\ w.writes = ch /\ w.refs = rf /\ w.gone = vtx[p].gone /\ w.pc = "run"
  BY <1>6, <1>8, <1>13 DEF TxRecords
<1>16. /\ StagesOn(vtx[p], w, S, W, e) /\ W = ViewOf(w, vrow) /\ S = ViewOf(vtx[p], vrow)
       /\ \A r \in RowIds : S[r] = IF r \in DOMAIN vtx[p].writes THEN vtx[p].writes[r] ELSE vrow[r]
  <2>1. w.writes = Changed(p, W)
    BY <1>11, <1>15
  <2> QED
    BY <1>1, <1>6, <1>7, <1>10, <2>1, StagesFacts
<1>17. \A r \in DOMAIN w.writes : /\ r \in RowIds /\ w.writes[r] = W[r] /\ W[r] \in RowRecords
                                  /\ W[r] # S[r] \/ (r \in DOMAIN vtx[p].writes /\ vtx[p].writes[r] = W[r])
  BY <1>16 DEF StagesOn
<1>18. ref \in w.refs /\ ref.ent = e /\ ref.typ = t /\ ~ref.full /\ vtx[p].refs \subseteq w.refs
  BY <1>11, <1>15
<1>19. ASSUME races = 0 PROVE CallFits(w, vrow)
  <2>1. CallFits(vtx[p], vrow)
    BY <1>6, <1>19 DEF CallsFit
  <2>2. OneAnchorIn(S)
    BY <1>6, <1>16, <1>19, OwnFacts DEF TableFine
  <2>3. Judged(w, vrow, e, ref)
    BY <1>6, <1>7, <1>16, <1>18, <2>2 DEF Judged
  <2>4. ASSUME w.call.kind # "removeEntity" PROVE GateFits(w, vrow)
    <3>1. GateFits(vtx[p], vrow)
      BY <1>15, <2>1, <2>4 DEF CallFits
    <3>2. w.gone \subseteq DOMAIN w.writes
      BY <1>15, <1>16, <3>1 DEF GateFits, StagesOn
    <3>3. Passed(w, vrow)
      BY <1>15 DEF Passed
    <3>4. ASSUME NEW d \in Entities PROVE Answered(w, vrow, d)
      <4>1. CASE d = e
        BY <1>18, <2>3, <4>1 DEF Answered
      <4>2. CASE d # e
        <5>1. Answered(vtx[p], vrow, d)
          BY <3>1 DEF GateFits
        <5>2. w.call = vtx[p].call /\ vtx[p].gone \subseteq w.gone /\ w.gone \ vtx[p].gone = {}
          BY <1>15
        <5> QED
          BY <1>7, <1>16, <1>18, <4>2, <5>1, <5>2, AnsweredElsewhere
      <4> QED
        BY <4>1, <4>2
    <3> QED
      BY <3>2, <3>3, <3>4 DEF GateFits
  <2>5. ASSUME w.call.kind = "defaults" PROVE DefaultsFit(w, vrow)
    <3>1. DefaultsFit(vtx[p], vrow)
      BY <1>15, <2>1, <2>5 DEF CallFits
    <3>2. \A i \in w.todo : LiveCell(vrow, w.call.items[i].attr, w.call.items[i].ent) = {}
      BY <1>11, <1>15, <3>1 DEF DefaultsFit, Behind
    <3>3. LiveCell(vrow, x.attr, x.ent) = {}
      BY <1>6, <3>1 DEF DefaultsFit
    <3>4. ASSUME NEW r \in DOMAIN w.writes, vrow[r].st = "live"
          PROVE  w.writes[r].st = "live" /\ w.writes[r].val = vrow[r].val
      <4>1. r \in RowIds /\ SetOrKept(W, S, x, r)
        BY <1>7, <1>17
      <4>2. S[r].st = "live" /\ S[r].val = vrow[r].val /\ S[r].attr = vrow[r].attr /\ S[r].ent = vrow[r].ent
        <5>1. CASE r \in DOMAIN vtx[p].writes
          <6>1. vtx[p].writes[r].st = "live" /\ vtx[p].writes[r].val = vrow[r].val
            BY <3>1, <3>4, <5>1 DEF DefaultsFit
          <6>2. vtx[p].writes[r].attr = vrow[r].attr /\ vtx[p].writes[r].ent = vrow[r].ent
            BY <1>6, <3>4, <5>1, OwnFacts DEF StagedWell, RowStaged
          <6> QED
            BY <1>16, <4>1, <5>1, <6>1, <6>2
        <5>2. CASE r \notin DOMAIN vtx[p].writes
          BY <1>16, <3>4, <4>1, <5>2
        <5> QED
          BY <5>1, <5>2
      <4>3. ~(S[r].attr = x.attr /\ S[r].ent = x.ent)
        BY <3>3, <3>4, <4>1, <4>2 DEF LiveCell, Live
      <4>4. W[r].st = S[r].st /\ W[r].val = S[r].val
        BY <4>1, <4>2, <4>3 DEF SetOrKept
      <4> QED
        BY <1>17, <4>2, <4>4
    <3> QED
      BY <3>2, <3>4 DEF DefaultsFit
  <2>6. ASSUME w.call.kind = "snapshot" PROVE RestoreFits(w, vrow)
    <3>1. RestoreFits(vtx[p], vrow)
      BY <1>15, <2>1, <2>6 DEF CallFits
    <3>2. x.ent = w.call.ent
      <4>1. Turn(p) \in DOMAIN vtx[p].call.items
        BY <1>6, OwnFacts DEF StagedWell, TxShaped
      <4> QED
        BY <1>6, <1>8, <1>15, <2>6, <4>1, ValuesAssumption
    <3>3. \A s \in DOMAIN w.writes : w.writes[s].ent = w.call.ent
      BY <1>6, <1>15, <1>16, <1>17, <3>1, <3>2 DEF RestoreFits, StagesOn
    <3>4. \A n \in w.refs : ~n.full
      BY <1>11, <1>15, <1>18, <3>1 DEF RestoreFits
    <3> QED
      BY <1>15, <3>3, <3>4 DEF RestoreFits
  <2> QED
    BY <2>4, <2>5, <2>6 DEF CallFits
<1> QED
  BY <1>4, <1>9, <1>14, <1>19, FitStep

\* What it makes of transaction v, that sees S: transaction w, that sees W.
RemovalOf(v, w, S, W, T, e, noted) ==
    /\ W \in [RowIds -> RowStates] /\ S \in [RowIds -> RowStates] /\ Removes(S, W, T) /\ StagesOn(v, w, S, W, e)
    /\ w.call = v.call /\ w.pc = (IF v.todo = {} THEN "written" ELSE v.pc)
    /\ w.refs = (IF noted THEN v.refs \cup Noted(W, T) ELSE v.refs)
    /\ w.gone = (IF noted THEN v.gone \cup T ELSE v.gone)

\* StageRemoval, taken apart.
LEMMA RemovalFacts ==
  ASSUME ValuesStrong, NEW p \in Writers, Active(p), NEW e \in Entities, NEW T \in SUBSET Live(Seen(p)),
         \A r \in T : Seen(p)[r].ent = e, NEW noted \in BOOLEAN, StageRemoval(p, T, noted)
  PROVE  \E w, W : /\ vtx' = [vtx EXCEPT ![p] = w] /\ RemovalOf(vtx[p], w, Seen(p), W, T, e, noted)
                   /\ W = ViewOf(w, vrow) /\ Seen(p) = ViewOf(vtx[p], vrow)
<1> DEFINE S == Seen(p)
<1>1. PICK W : W = Archive(Seen(p), T)
  OBVIOUS
<1>2. PICK ch, tc, td, ph, rf, gn :
        /\ ch = Changed(p, W) /\ tc = vtx[p].sums \cup Touched(p, W) /\ td = Behind(p)
        /\ ph = (IF vtx[p].todo = {} THEN "written" ELSE vtx[p].pc)
        /\ rf = (IF noted THEN vtx[p].refs \cup Noted(W, T) ELSE vtx[p].refs)
        /\ gn = (IF noted THEN vtx[p].gone \cup T ELSE vtx[p].gone)
  OBVIOUS
<1>3. vtx \in [Writers -> TxRecords \cup {IdleTx}] /\ vtx[p] \in TxRecords /\ vrow \in [RowIds -> RowStates]
  BY TxFacts DEF ValuesStrong, ValuesTypeOK
<1>4. vtx' = [vtx EXCEPT ![p].writes = ch, ![p].sums = tc, ![p].todo = td, ![p].pc = ph, ![p].refs = rf, ![p].gone = gn]
  <2>1. vtx' = [vtx EXCEPT ![p].writes = ch, ![p].sums = @ \cup Touched(p, W), ![p].todo = td,
                           ![p].pc = IF vtx[p].todo = {} THEN "written" ELSE @,
                           ![p].refs = IF noted THEN @ \cup Noted(W, T) ELSE @,
                           ![p].gone = IF noted THEN @ \cup T ELSE @]
    BY <1>1, <1>2 DEF StageRemoval
  <2>2. PICK new : new = Noted(W, T)
    OBVIOUS
  <2>3. PICK tw : tw = Touched(p, W)
    OBVIOUS
  <2> QED
    BY <1>2, <1>3, <2>1, <2>2, <2>3
<1>5. PICK w : w = [vtx[p] EXCEPT !.writes = ch, !.sums = tc, !.todo = td, !.pc = ph, !.refs = rf, !.gone = gn]
  OBVIOUS
<1>6. vtx' = [vtx EXCEPT ![p] = w]
  BY <1>3, <1>4, <1>5
<1>7. w.call = vtx[p].call /\ w.writes = ch /\ w.pc = ph /\ w.refs = rf /\ w.gone = gn
  BY <1>3, <1>5 DEF TxRecords
<1>8. S \in [RowIds -> RowStates]
  BY <1>3, TxFacts, ViewFacts, SeenIsView DEF ValuesStrong
<1>9. \A r \in T : r \in RowIds /\ S[r] \in RowRecords /\ S[r].st = "live" /\ S[r].ent = e
  BY <1>8, RowFacts DEF Live
<1> HIDE DEF S
<1>10. Removes(S, W, T)
  <2>1. W = [r \in RowIds |-> IF r \in T THEN [S[r] EXCEPT !.st = "archived"] ELSE S[r]]
    BY <1>1 DEF Archive, S
  <2>2. \A r \in T : W[r] = [S[r] EXCEPT !.st = "archived"]
    BY <1>9, <2>1
  <2>3. \A r \in RowIds \ T : W[r] = S[r]
    BY <2>1
  <2>4. ASSUME NEW r \in T
        PROVE  /\ W[r] \in RowRecords /\ W[r].st = "archived" /\ W[r].attr = S[r].attr /\ W[r].ent = S[r].ent
               /\ W[r].val = S[r].val /\ W[r].typ = S[r].typ
    BY <1>9, <2>2 DEF RowRecords
  <2> QED
    BY <1>9, <2>3, <2>4 DEF Removes
<1>11. W \in [RowIds -> RowStates]
  <2>1. W = [r \in RowIds |-> W[r]]
    BY <1>1 DEF Archive
  <2>2. \A r \in RowIds : W[r] \in RowStates
    BY <1>8, <1>10 DEF RowStates, Removes
  <2> QED
    BY <2>1, <2>2
<1>12. Moves(p, W, e)
  <2> SUFFICES ASSUME NEW r \in RowIds, W[r] # S[r] PROVE RowMoves(p, W[r], S[r], e)
    BY DEF Moves, S
  <2> QED
    BY <1>9, <1>10 DEF RowMoves, Removes
<1>13. StagesOn(vtx[p], w, S, W, e) /\ W = ViewOf(w, vrow) /\ S = ViewOf(vtx[p], vrow)
  <2>1. w.writes = Changed(p, W)
    BY <1>2, <1>7
  <2> QED
    BY <1>11, <1>12, <2>1, StagesFacts DEF S
<1>14. RemovalOf(vtx[p], w, S, W, T, e, noted)
  BY <1>2, <1>7, <1>8, <1>10, <1>11, <1>13 DEF RemovalOf
<1> QED
  BY <1>6, <1>13, <1>14 DEF S

\* The removals that are noted for the gate.
LEMMA NotedRemovalFits ==
  ASSUME ValuesStrong, CallsFit, NEW p \in Writers, Active(p), vtx[p].pc = "run", NEW e \in Entities,
         NEW T \in SUBSET Live(Seen(p)), \A r \in T : Seen(p)[r].ent = e, StageRemoval(p, T, TRUE),
         vtx[p].call.kind \notin {"defaults", "snapshot"}, ValuesStrong', vrow' = vrow, races' = races
  PROVE  CallsFit'
<1>8. \A noted \in BOOLEAN : StageRemoval(p, T, noted) =>
        \E w, W : /\ vtx' = [vtx EXCEPT ![p] = w] /\ RemovalOf(vtx[p], w, Seen(p), W, T, e, noted)
                  /\ W = ViewOf(w, vrow) /\ Seen(p) = ViewOf(vtx[p], vrow)
  BY RemovalFacts
<1>1. PICK w, W : /\ vtx' = [vtx EXCEPT ![p] = w] /\ RemovalOf(vtx[p], w, Seen(p), W, T, e, TRUE)
                  /\ W = ViewOf(w, vrow) /\ Seen(p) = ViewOf(vtx[p], vrow)
  BY <1>8
<1>2. PICK S, v : S = Seen(p) /\ v = vtx[p]
  OBVIOUS
<1>3. /\ w.pc # "checked" /\ w.refs = v.refs \cup Noted(W, T) /\ w.gone = v.gone \cup T /\ w.call = v.call
      /\ v.refs \subseteq w.refs /\ v.gone \subseteq w.gone /\ S = ViewOf(v, vrow) /\ S \in [RowIds -> RowStates]
      /\ StagesOn(v, w, S, W, e) /\ Removes(S, W, T) /\ W \in [RowIds -> RowStates] /\ W = ViewOf(w, vrow)
  BY <1>1, <1>2 DEF RemovalOf
<1>4. T \in SUBSET RowIds /\ \A r \in T : S[r].ent = e
  BY <1>2 DEF Live
<1>5. \A r \in T : /\ S[r].st = "live" /\ S[r].ent = e /\ W[r].st = "archived" /\ W[r].ent = e /\ W[r].val = S[r].val
                   /\ W[r].typ = S[r].typ
  BY <1>3, <1>4 DEF Removes
<1>7. ASSUME races = 0 PROVE CallFits(w, vrow)
  <2>1. CallFits(v, vrow)
    BY <1>2, <1>7 DEF CallsFit
  <2>2. OneAnchorIn(W)
    <3>1. vtx'[p] = w /\ Active(p)'
      <4>1. vtx'[p] = w
        BY <1>1 DEF ValuesStrong, ValuesTypeOK
      <4>2. w.pc # "idle"
        BY <1>1 DEF RemovalOf
      <4> QED
        BY <4>1, <4>2 DEF Active
    <3>2. TableFine(ViewOf(vtx'[p], vrow'), vdef', races')
      BY <3>1 DEF ValuesStrong, ViewsFine
    <3> QED
      BY <1>3, <1>7, <3>1, <3>2 DEF TableFine
  <2>3. ASSUME w.call.kind # "removeEntity" PROVE GateFits(w, vrow)
    <3>1. GateFits(v, vrow)
      BY <1>3, <2>1, <2>3 DEF CallFits
    <3>2. w.gone \subseteq DOMAIN w.writes
      <4>1. \A r \in T : W[r] # S[r]
        BY <1>5
      <4> QED
        BY <1>3, <1>4, <3>1, <4>1 DEF GateFits, StagesOn
    <3>3. Passed(w, vrow)
      BY <1>3 DEF Passed
    <3>4. ASSUME NEW d \in Entities PROVE Answered(w, vrow, d)
      <4>1. Answered(v, vrow, d)
        BY <3>1 DEF GateFits
      <4>2. CASE d = e
        <5>1. Noted(W, T) \subseteq w.refs /\ Removes(S, W, T)
          BY <1>3
        <5>2. v.call.kind # "snapshot"
          BY <1>2
        <5>4. Answered(v, vrow, e)
          BY <4>1, <4>2
        <5>5. /\ W \in [RowIds -> RowStates] /\ W = ViewOf(w, vrow) /\ S \in [RowIds -> RowStates] /\ S = ViewOf(v, vrow)
              /\ StagesOn(v, w, S, W, e) /\ v.refs \subseteq w.refs /\ w.gone = v.gone \cup T
          BY <1>3
        <5>6. Answered(w, vrow, e)
          BY <1>4, <2>2, <5>1, <5>2, <5>4, <5>5, RemovalAnswered
        <5> QED
          BY <4>2, <5>6
      <4>3. CASE d # e
        <5>1. \A s \in w.gone \ v.gone : W[s].ent = e
          BY <1>3, <1>5
        <5> QED
          BY <1>3, <4>1, <4>3, <5>1, AnsweredElsewhere
      <4> QED
        BY <4>2, <4>3
    <3> QED
      BY <3>2, <3>3, <3>4 DEF GateFits
  <2> QED
    BY <1>2, <1>3, <2>3 DEF CallFits
<1> QED
  BY <1>1, <1>7, FitStep

\* A restore archives what its snapshot does not hold.
LEMMA ArchiveRestFits ==
  ASSUME ValuesStrong, CallsFit, NEW p \in Writers, ArchiveRest(p)
  PROVE  CallsFit'
<1>1. /\ Active(p) /\ vrow' = vrow /\ races' = races /\ vtx[p].pc = "run" /\ vtx[p].call.kind = "snapshot" /\ vtx[p].todo = {}
  BY DEF ArchiveRest, Active
<1>2. PICK T, e : T = {r \in Live(Seen(p)) : Seen(p)[r].ent = vtx[p].call.ent /\ ~InSnapshot(vtx[p].call, Seen(p)[r])} /\ e = vtx[p].call.ent
  OBVIOUS
<1>3. StageRemoval(p, T, FALSE)
  BY <1>2 DEF ArchiveRest
<1>4. e \in Entities /\ T \in SUBSET Live(Seen(p)) /\ \A r \in T : Seen(p)[r].ent = e
  BY <1>1, <1>2, TxFacts DEF ValuesStrong, CallRecords
<1>5. PICK w, W : /\ vtx' = [vtx EXCEPT ![p] = w] /\ RemovalOf(vtx[p], w, Seen(p), W, T, e, FALSE)
                  /\ W = ViewOf(w, vrow) /\ Seen(p) = ViewOf(vtx[p], vrow)
  BY <1>1, <1>3, <1>4, RemovalFacts
<1>6. PICK S, v : S = Seen(p) /\ v = vtx[p]
  OBVIOUS
<1>7. /\ w.pc = "written" /\ w.refs = v.refs /\ w.gone = v.gone /\ w.call = v.call /\ v.call.kind = "snapshot"
      /\ S = ViewOf(v, vrow) /\ S \in [RowIds -> RowStates] /\ StagesOn(v, w, S, W, e) /\ Removes(S, W, T)
      /\ e = w.call.ent /\ W \in [RowIds -> RowStates] /\ W = ViewOf(w, vrow)
  BY <1>1, <1>2, <1>5, <1>6 DEF RemovalOf
<1>8. T \in SUBSET RowIds /\ \A r \in T : S[r].ent = e
  BY <1>4, <1>6 DEF Live
<1>9. ASSUME races = 0 PROVE CallFits(w, vrow)
  <2>1. GateFits(v, vrow) /\ RestoreFits(v, vrow)
    BY <1>1, <1>6, <1>9 DEF CallsFit, CallFits
  <2>2. w.gone \subseteq DOMAIN w.writes
    BY <1>7, <2>1 DEF GateFits, StagesOn
  <2>3. Passed(w, vrow)
    BY <1>7 DEF Passed
  <2>4. ASSUME NEW d \in Entities PROVE Answered(w, vrow, d)
    <3>1. Answered(v, vrow, d)
      BY <2>1 DEF GateFits
    <3>2. CASE d = e
      <4>1. \A r \in RowIds \ T : W[r] = S[r]
        BY <1>7 DEF Removes
      <4>2. \A r \in T : S[r].st = "live" /\ S[r].ent = e /\ W[r].st = "archived" /\ W[r].ent = e /\ W[r].typ = S[r].typ
        BY <1>7, <1>8 DEF Removes
      <4>3. \A ref \in v.refs : ~ref.full
        BY <2>1 DEF RestoreFits
      <4>4. Answered(v, vrow, e)
        BY <3>1, <3>2
      <4>5. /\ W \in [RowIds -> RowStates] /\ W = ViewOf(w, vrow) /\ S \in [RowIds -> RowStates] /\ S = ViewOf(v, vrow)
            /\ StagesOn(v, w, S, W, e) /\ w.refs = v.refs /\ w.call = v.call /\ v.call.kind = "snapshot"
        BY <1>7
      <4>6. Answered(w, vrow, e)
        BY <1>8, <4>1, <4>2, <4>3, <4>4, <4>5, RestAnswered
      <4> QED
        BY <3>2, <4>6
    <3>3. CASE d # e
      <4>1. v.refs \subseteq w.refs /\ v.gone \subseteq w.gone /\ \A s \in w.gone \ v.gone : W[s].ent = e
        BY <1>7
      <4> QED
        BY <1>7, <3>1, <3>3, <4>1, AnsweredElsewhere
    <3> QED
      BY <3>2, <3>3
  <2>5. GateFits(w, vrow)
    BY <2>2, <2>3, <2>4 DEF GateFits
  <2>6. RestoreFits(w, vrow)
    <3>1. \A s \in DOMAIN w.writes : w.writes[s].ent = w.call.ent
      BY <1>7, <2>1 DEF RestoreFits, StagesOn
    <3>2. ASSUME NEW r \in LiveOf(W, e) PROVE InSnapshot(w.call, W[r])
      <4>1. r \in RowIds /\ W[r].st = "live" /\ W[r].ent = e
        BY DEF LiveOf, Live
      <4>2. r \notin T /\ W[r] = S[r]
        BY <1>7, <4>1 DEF Removes
      <4>3. r \in Live(Seen(p)) /\ Seen(p)[r].ent = e
        BY <1>6, <4>1, <4>2 DEF Live
      <4>4. InSnapshot(vtx[p].call, Seen(p)[r])
        BY <1>2, <4>2, <4>3
      <4> QED
        BY <1>6, <1>7, <4>2, <4>4
    <3> QED
      BY <1>7, <2>1, <3>1, <3>2 DEF RestoreFits
  <2> QED
    BY <1>7, <2>5, <2>6 DEF CallFits
<1> QED
  BY <1>1, <1>5, <1>9, FitStep

\* removeScopedWithin and Remove.
LEMMA RemovalsFit ==
  ASSUME ValuesStrong, CallsFit, NEW p \in Writers, RemoveScoped(p) \/ Remove(p)
  PROVE  CallsFit'
<1>1. Active(p) /\ vtx[p].pc = "run" /\ vrow' = vrow /\ races' = races
  BY DEF RemoveScoped, Remove, NextItem, Active
<1>2. ValuesStrong'
  BY RemovalsKeep
<1>3. vtx[p].call \in CallRecords /\ vtx[p].call \in Calls /\ vtx[p].call.ent \in Entities
  BY <1>1, TxFacts DEF ValuesStrong, CallRecords
<1>4. CASE RemoveScoped(p)
  <2>1. NextItem(p) /\ Item(p).op = "remove" /\ StageRemoval(p, LiveCell(Seen(p), Item(p).attr, Item(p).ent), TRUE)
    BY <1>4 DEF RemoveScoped
  <2>2. PICK T, e : T = LiveCell(Seen(p), Item(p).attr, Item(p).ent) /\ e = Item(p).ent
    OBVIOUS
  <2>3. T \in SUBSET Live(Seen(p)) /\ \A r \in T : Seen(p)[r].ent = e
    BY <2>2 DEF LiveCell
  <2>4. e \in Entities
    BY <2>1, <2>2, TurnFacts DEF ItemRecords
  <2>5. StageRemoval(p, T, TRUE)
    BY <2>1, <2>2
  <2>6. vtx[p].call.kind \notin {"defaults", "snapshot"}
    <3>1. Turn(p) \in DOMAIN vtx[p].call.items /\ vtx[p].call.items[Turn(p)].op = "remove"
      BY <1>1, <2>1, TurnFacts, OwnFacts DEF StagedWell, TxShaped, Item
    <3> QED
      BY <1>3, <3>1, ValuesAssumption
  <2> QED
    BY <1>1, <1>2, <2>3, <2>4, <2>5, <2>6, NotedRemovalFits
<1>5. CASE Remove(p)
  <2>1. vtx[p].call.kind = "remove"
    BY <1>5 DEF Remove
  <2>2. PICK r \in Live(Seen(p)) : Seen(p)[r].ent = vtx[p].call.ent /\ StageRemoval(p, {r}, TRUE)
    BY <1>5 DEF Remove
  <2>3. PICK T : T = {r}
    OBVIOUS
  <2>4. T \in SUBSET Live(Seen(p)) /\ (\A s \in T : Seen(p)[s].ent = vtx[p].call.ent) /\ StageRemoval(p, T, TRUE)
    BY <2>2, <2>3
  <2>5. vtx[p].call.kind \notin {"defaults", "snapshot"}
    BY <2>1
  <2> QED
    BY <1>1, <1>2, <1>3, <2>4, <2>5, NotedRemovalFits
<1> QED
  BY <1>4, <1>5

\* Tables that are the same as to entity e.
SameOf(O, N, e) ==
    \A r \in RowIds : O[r] = N[r] \/ /\ O[r].st # "none" => O[r].ent # e
                                     /\ N[r].st # "none" => N[r].ent # e

\* The gate judges them alike.
LEMMA SameOfFacts ==
  ASSUME NEW O, NEW N, NEW e, SameOf(O, N, e)
  PROVE  /\ OfEntity(N, e) = OfEntity(O, e) /\ LiveOf(N, e) = LiveOf(O, e)
         /\ \A r \in OfEntity(O, e) \cup LiveOf(O, e) : N[r] = O[r]
BY DEF SameOf, OfEntity, LiveOf, Live

\* What the gate refuses of a table it refuses of every table that is the same for the entity.
LEMMA SameRefused ==
  ASSUME NEW O, NEW N, NEW gone, NEW ref, SameOf(O, N, ref.ent), \A r \in gone : O[r] = N[r], Refused(N, gone, ref)
  PROVE  Refused(O, gone, ref)
<1>1. LiveOf(N, ref.ent) = LiveOf(O, ref.ent) /\ \A r \in LiveOf(O, ref.ent) : N[r] = O[r]
  BY SameOfFacts
<1>2. PICK mine, was : /\ mine = {r \in LiveOf(N, ref.ent) : N[r].typ = ref.typ}
                       /\ was = mine \cup {r \in gone : N[r].ent = ref.ent}
  OBVIOUS
<1>3. mine = {r \in LiveOf(O, ref.ent) : O[r].typ = ref.typ} /\ was = mine \cup {r \in gone : O[r].ent = ref.ent}
  BY <1>1, <1>2
<1>4. \A r \in was : N[r] = O[r]
  BY <1>1, <1>2
<1>5. mine \subseteq was
  BY <1>2
<1>6. Unmet(N, mine) = Unmet(O, mine) /\ Unmet(N, was) = Unmet(O, was)
  BY <1>4, <1>5 DEF Unmet
<1>7. mine # {} /\ \E rule \in Unmet(N, mine) : ref.full => rule \notin Unmet(N, was)
  BY <1>2 DEF Refused
<1>8. mine # {} /\ \E rule \in Unmet(O, mine) : ref.full => rule \notin Unmet(O, was)
  BY <1>6, <1>7
<1> QED
  BY <1>3, <1>8 DEF Refused

\* A commit leaves the others what they rely on.
LEMMA CommitFits ==
  ASSUME ValuesStrong, CallsFit, NEW p \in Writers, Commit(p)
  PROVE  CallsFit'
<1> DEFINE V == ViewOf(vtx[p], vrow)
<1>1. Active(p) /\ vrow' = V /\ vtx' = [vtx EXCEPT ![p] = IdleTx] /\ Race(Overtakes(p))
  BY DEF Commit, Active, ViewOf
<1>2. /\ races \in Nat /\ vtx \in [Writers -> TxRecords \cup {IdleTx}] /\ vrow \in [RowIds -> RowStates]
      /\ vtx[p].writes \in StagedRows /\ DOMAIN vtx[p].writes \subseteq RowIds
      /\ \A r \in DOMAIN vtx[p].writes : vtx[p].writes[r] \in RowRecords
  BY <1>1, TxFacts DEF ValuesStrong, ValuesTypeOK
<1>3. races' = 0 => races = 0 /\ ~Overtakes(p)
  BY <1>1, <1>2 DEF Race
<1>4. vtx'[p] = IdleTx /\ \A q \in Writers \ {p} : vtx'[q] = vtx[q]
  BY <1>1, <1>2
<1>5. \A q \in Writers : Active(q)' => Active(q) /\ q # p /\ vtx'[q] = vtx[q]
  BY <1>4 DEF Active, IdleTx
<1>6. V \in [RowIds -> RowStates] /\ \A r \in RowIds : V[r] = IF r \in DOMAIN vtx[p].writes THEN vtx[p].writes[r] ELSE vrow[r]
  BY <1>2, ViewFacts
<1>7. \A r \in DOMAIN vtx[p].writes : RowStaged(vtx[p], r, vrow[r])
  BY <1>1, OwnFacts DEF StagedWell
<1> HIDE DEF V
<1> SUFFICES ASSUME races' = 0, NEW q \in Writers, Active(q)' PROVE CallFits(vtx[q], V)
  BY <1>1, <1>5 DEF CallsFit
<1>8. Active(q) /\ q # p /\ races = 0 /\ ~Overtakes(p)
  BY <1>3, <1>5
<1>9. PICK u : u = vtx[q]
  OBVIOUS
<1>10. CallFits(u, vrow)
  BY <1>8, <1>9 DEF CallsFit
<1>11. /\ u.writes \in StagedRows /\ DOMAIN u.writes \subseteq RowIds /\ u.todo \subseteq DOMAIN u.call.items
       /\ DOMAIN u.writes \cap DOMAIN vtx[p].writes = {}
       /\ \A r \in DOMAIN vtx[p].writes, s \in DOMAIN u.writes : vtx[p].writes[r].ent # u.writes[s].ent
  <2>1. u.writes \in StagedRows /\ DOMAIN u.writes \subseteq RowIds
    BY <1>8, <1>9, TxFacts DEF ValuesStrong
  <2>2. u.todo \subseteq DOMAIN u.call.items
    BY <1>8, <1>9, OwnFacts DEF StagedWell, TxShaped
  <2>3. DOMAIN u.writes \cap DOMAIN vtx[p].writes = {}
    BY <1>1, <1>8, <1>9 DEF ValuesStrong, WritersApart
  <2>4. \A r \in DOMAIN vtx[p].writes, s \in DOMAIN u.writes : vtx[p].writes[r].ent # u.writes[s].ent
    BY <1>1, <1>8, <1>9 DEF ValuesStrong, EntitiesApart
  <2> QED
    BY <2>1, <2>2, <2>3, <2>4
<1>12. PICK O, N : O = ViewOf(u, vrow) /\ N = ViewOf(u, V)
  OBVIOUS
<1>13. \A r \in RowIds : /\ O[r] = IF r \in DOMAIN u.writes THEN u.writes[r] ELSE vrow[r]
                         /\ N[r] = IF r \in DOMAIN u.writes THEN u.writes[r] ELSE V[r]
  BY <1>2, <1>6, <1>11, <1>12, ViewFacts
<1>14. \A s \in DOMAIN u.writes : V[s] = vrow[s] /\ O[s] = N[s]
  BY <1>6, <1>11, <1>13
<1>15. ASSUME NEW d, WritesOn(u, d) PROVE SameOf(O, N, d)
  <2> SUFFICES ASSUME NEW r \in RowIds, O[r] # N[r] PROVE (O[r].st # "none" => O[r].ent # d) /\ (N[r].st # "none" => N[r].ent # d)
    BY DEF SameOf
  <2>1. PICK s \in DOMAIN u.writes : u.writes[s].ent = d
    BY <1>15 DEF WritesOn
  <2>2. r \in DOMAIN vtx[p].writes /\ r \notin DOMAIN u.writes
    BY <1>6, <1>13
  <2>3. O[r] = vrow[r] /\ N[r] = vtx[p].writes[r] /\ N[r].ent # d
    BY <1>6, <1>11, <1>13, <2>1, <2>2
  <2>4. vrow[r].st # "none" => N[r].ent = vrow[r].ent
    BY <1>7, <2>2, <2>3 DEF RowStaged
  <2> QED
    BY <2>3, <2>4
<1>16. ASSUME u.call.kind # "removeEntity" PROVE GateFits(u, V)
  <2>1. GateFits(u, vrow)
    BY <1>10, <1>16 DEF CallFits
  <2>2. Passed(u, V)
    <3> SUFFICES ASSUME u.pc = "checked", NEW ref \in u.refs, WritesOn(u, ref.ent), Refused(N, u.gone, ref) PROVE FALSE
      BY <1>12 DEF Passed
    <3>1. \A r \in u.gone : O[r] = N[r]
      BY <1>14, <2>1 DEF GateFits
    <3>2. SameOf(O, N, ref.ent)
      BY <1>15
    <3>3. Refused(O, u.gone, ref)
      BY <3>1, <3>2, SameRefused
    <3> QED
      BY <1>12, <2>1, <3>3 DEF GateFits, Passed
  <2>3. ASSUME NEW d \in Entities PROVE Answered(u, V, d)
    <3>1. Answered(u, vrow, d)
      BY <2>1 DEF GateFits
    <3>2. CASE ~WritesOn(u, d)
      BY <3>2 DEF Answered
    <3>3. ASSUME WritesOn(u, d), NEW ref \in u.refs, Judged(u, vrow, d, ref) PROVE Judged(u, V, d, ref)
      <4>1. OnlyRemoved(u, vrow, d) => OnlyRemoved(u, V, d)
        BY <1>14 DEF OnlyRemoved
      <4>2. SameOf(O, N, d)
        BY <1>15, <3>3
      <4>3. OfEntity(N, d) = OfEntity(O, d) /\ \A r \in OfEntity(O, d) : N[r] = O[r]
        BY <4>2, SameOfFacts
      <4>4. ref.ent = d /\ (ref.full => OnlyRemoved(u, vrow, d)) /\ \A s \in OfEntity(O, d) : O[s].typ = ref.typ
        BY <1>12, <3>3 DEF Judged
      <4>5. \A s \in OfEntity(N, d) : N[s].typ = ref.typ
        BY <4>3, <4>4
      <4> QED
        BY <1>12, <4>1, <4>4, <4>5 DEF Judged
    <3>4. OnlyArchived(u, vrow, d) => OnlyArchived(u, V, d)
      BY <1>14 DEF OnlyArchived
    <3> QED
      BY <3>1, <3>2, <3>3, <3>4 DEF Answered
  <2> QED
    BY <2>1, <2>2, <2>3 DEF GateFits
<1>17. ASSUME u.call.kind = "defaults" PROVE DefaultsFit(u, V)
  <2>1. DefaultsFit(u, vrow)
    BY <1>10, <1>17 DEF CallFits
  <2>2. ASSUME NEW i \in u.todo, NEW r \in LiveCell(V, u.call.items[i].attr, u.call.items[i].ent) PROVE FALSE
    <3>1. r \in RowIds /\ V[r].st = "live" /\ V[r].attr = u.call.items[i].attr /\ V[r].ent = u.call.items[i].ent
      BY DEF LiveCell, Live
    <3>2. u.call.items[i].ent \in EntitiesOf(u.call)
      BY <1>11 DEF EntitiesOf
    <3>3. r \notin DOMAIN vtx[p].writes
      BY <1>6, <1>8, <1>9, <1>17, <3>1, <3>2 DEF Overtakes, Others
    <3>4. V[r] = vrow[r]
      BY <1>6, <3>1, <3>3
    <3>5. r \in LiveCell(vrow, u.call.items[i].attr, u.call.items[i].ent)
      BY <3>1, <3>4 DEF LiveCell, Live
    <3> QED
      BY <2>1, <3>5 DEF DefaultsFit
  <2>3. \A i \in u.todo : LiveCell(V, u.call.items[i].attr, u.call.items[i].ent) = {}
    BY <2>2
  <2>4. \A r \in DOMAIN u.writes : V[r].st = "live" => u.writes[r].st = "live" /\ u.writes[r].val = V[r].val
    BY <1>14, <2>1 DEF DefaultsFit
  <2> QED
    BY <2>3, <2>4 DEF DefaultsFit
<1>18. ASSUME u.call.kind = "snapshot" PROVE RestoreFits(u, V)
  <2>1. RestoreFits(u, vrow)
    BY <1>10, <1>18 DEF CallFits
  <2>2. ASSUME u.pc # "run", DOMAIN u.writes # {}, NEW r \in LiveOf(N, u.call.ent) PROVE InSnapshot(u.call, N[r])
    <3>1. WritesOn(u, u.call.ent)
      BY <2>1, <2>2 DEF WritesOn, RestoreFits
    <3>2. LiveOf(N, u.call.ent) = LiveOf(O, u.call.ent) /\ \A s \in LiveOf(O, u.call.ent) : N[s] = O[s]
      BY <1>15, <3>1, SameOfFacts
    <3>3. \A s \in LiveOf(O, u.call.ent) : InSnapshot(u.call, O[s])
      BY <1>12, <2>1, <2>2 DEF RestoreFits
    <3> QED
      BY <2>2, <3>2, <3>3
  <2> QED
    BY <1>12, <2>1, <2>2 DEF RestoreFits
<1> QED
  BY <1>9, <1>16, <1>17, <1>18 DEF CallFits

\* Every step keeps what the calls rely on.
LEMMA CallsFitStep == ValuesStrong /\ CallsFit /\ [ValuesNext]_valueVars => CallsFit'
<1> SUFFICES ASSUME ValuesStrong, CallsFit, [ValuesNext]_valueVars PROVE CallsFit'
  OBVIOUS
<1>1. ASSUME NEW p \in Writers, WriterNext(p) PROVE CallsFit'
  <2>1. ASSUME NEW c \in Calls, Begin(p, c) PROVE CallsFit'
    BY <2>1, BeginFits
  <2>2. CASE LockDefinition(p)
    BY <2>2, LockDefinitionFits
  <2>3. CASE SetWithin(p)
    BY <2>3, SetWithinFits
  <2>4. CASE RemoveScoped(p) \/ Remove(p)
    BY <2>4, RemovalsFit
  <2>5. CASE RemoveEntity(p)
    BY <2>5, RemoveEntityFits
  <2>6. CASE ArchiveRest(p)
    BY <2>6, ArchiveRestFits
  <2>7. CASE RunChecks(p)
    BY <2>7, RunChecksFits
  <2>8. CASE Commit(p)
    BY <2>8, CommitFits
  <2>9. CASE Rollback(p)
    <3>1. vtx' = [vtx EXCEPT ![p] = IdleTx] /\ vrow' = vrow /\ races' = races
      BY <2>9 DEF Rollback
    <3>2. vtx'[p] = IdleTx /\ \A q \in Writers \ {p} : vtx'[q] = vtx[q]
      BY <3>1 DEF ValuesStrong, ValuesTypeOK
    <3>3. \A q \in Writers : Active(q)' => Active(q) /\ vtx'[q] = vtx[q]
      BY <3>2 DEF Active, IdleTx
    <3> QED
      BY <3>1, <3>3 DEF CallsFit
  <2> QED
    BY <1>1, <2>1, <2>2, <2>3, <2>4, <2>5, <2>6, <2>7, <2>8, <2>9 DEF WriterNext
<1>2. ASSUME NEW a \in Attrs, EditDefinition(a) PROVE CallsFit'
  <2>1. vrow' = vrow /\ vtx' = vtx /\ races' = races
    BY <1>2 DEF EditDefinition
  <2> QED
    BY <2>1 DEF CallsFit, Active
<1>3. CASE UNCHANGED valueVars
  <2>1. vrow' = vrow /\ vtx' = vtx /\ races' = races
    BY <1>3 DEF valueVars
  <2> QED
    BY <2>1 DEF CallsFit, Active
<1> QED
  BY <1>1, <1>2, <1>3 DEF ValuesNext

\* What lives of an entity, with the rows a transaction removed.
BackOf(V, gone, e) == LiveOf(V, e) \cup {r \in gone : V[r].ent = e}

\* Where a transaction did no more than remove, the rows it leaves with those it removed are those there were.
LEMMA RemovedBack ==
  ASSUME NEW w, NEW rows \in [RowIds -> RowStates], NEW V \in [RowIds -> RowStates], NEW e, w.gone \subseteq DOMAIN w.writes,
         DOMAIN w.writes \subseteq RowIds, OnlyRemoved(w, rows, e),
         \A r \in RowIds : V[r] = IF r \in DOMAIN w.writes THEN w.writes[r] ELSE rows[r],
         \A r \in DOMAIN w.writes : w.writes[r] \in RowRecords /\ RowStaged(w, r, rows[r])
  PROVE  /\ Unmet(V, BackOf(V, w.gone, e)) = Unmet(rows, LiveOf(rows, e))
         /\ \A r \in RowIds : V[r].st = "live" /\ V[r].ent = e => V[r] = rows[r]
<1>1. ASSUME NEW r \in DOMAIN w.writes, w.writes[r].ent = e
      PROVE  /\ V[r] = w.writes[r] /\ rows[r] \in RowRecords /\ V[r] \in RowRecords
             /\ V[r].attr = rows[r].attr /\ V[r].ent = rows[r].ent /\ V[r].val = rows[r].val /\ V[r].typ = rows[r].typ
             /\ rows[r].st = "live" <=> V[r].st = "live" \/ r \in w.gone
  <2>1. r \in RowIds /\ V[r] = w.writes[r] /\ V[r] \in RowRecords
    OBVIOUS
  <2>2. /\ rows[r].st # "none" /\ V[r].val = rows[r].val /\ V[r].typ = rows[r].typ
        /\ rows[r].st = "live" <=> V[r].st = "live" \/ r \in w.gone
    BY <1>1, <2>1 DEF OnlyRemoved
  <2>3. rows[r] \in RowRecords
    BY <2>1, <2>2, RowFacts
  <2>4. V[r].attr = rows[r].attr /\ V[r].ent = rows[r].ent
    BY <2>1, <2>2 DEF RowStaged
  <2> QED
    BY <2>1, <2>2, <2>3, <2>4
<1>2. ASSUME NEW r \in RowIds, r \notin DOMAIN w.writes PROVE V[r] = rows[r] /\ r \notin w.gone
  BY <1>2
<1>3. ASSUME NEW r \in DOMAIN w.writes, rows[r].st # "none" PROVE w.writes[r].ent = rows[r].ent
  BY <1>3 DEF RowStaged
<1>4. PICK was : was = BackOf(V, w.gone, e)
  OBVIOUS
<1>5. ASSUME NEW r \in RowIds PROVE r \in was <=> r \in LiveOf(rows, e)
  <2>1. CASE r \in DOMAIN w.writes /\ w.writes[r].ent = e
    BY <1>1, <1>4, <2>1 DEF LiveOf, Live, BackOf
  <2>2. CASE r \in DOMAIN w.writes /\ w.writes[r].ent # e
    BY <1>3, <1>4, <2>2 DEF LiveOf, Live, BackOf
  <2>3. CASE r \notin DOMAIN w.writes
    BY <1>2, <1>4, <2>3 DEF LiveOf, Live, BackOf
  <2> QED
    BY <2>1, <2>2, <2>3
<1>6. was = LiveOf(rows, e)
  <2>1. was \subseteq RowIds /\ LiveOf(rows, e) \subseteq RowIds
    BY <1>4 DEF LiveOf, Live, BackOf
  <2> QED
    BY <1>5, <2>1
<1>7. ASSUME NEW r \in was PROVE V[r].attr = rows[r].attr /\ V[r].val = rows[r].val
  <2>1. r \in RowIds /\ V[r].ent = e
    BY <1>4 DEF LiveOf, Live, BackOf
  <2>2. CASE r \in DOMAIN w.writes
    BY <1>1, <2>1, <2>2
  <2>3. CASE r \notin DOMAIN w.writes
    BY <1>2, <2>1, <2>3
  <2> QED
    BY <2>2, <2>3
<1>8. Unmet(V, was) = Unmet(rows, was)
  BY <1>7 DEF Unmet
<1>9. ASSUME NEW r \in RowIds, V[r].st = "live", V[r].ent = e PROVE V[r] = rows[r]
  <2>1. CASE r \in DOMAIN w.writes
    <3>1. /\ rows[r] \in RowRecords /\ V[r] \in RowRecords /\ rows[r].st = V[r].st
          /\ V[r].attr = rows[r].attr /\ V[r].ent = rows[r].ent /\ V[r].val = rows[r].val /\ V[r].typ = rows[r].typ
      BY <1>1, <1>9, <2>1
    <3> QED
      BY <3>1 DEF RowRecords
  <2>2. CASE r \notin DOMAIN w.writes
    BY <1>2, <2>2
  <2> QED
    BY <2>1, <2>2
<1> QED
  BY <1>4, <1>6, <1>8, <1>9

\* A gate that passed under the type all live rows have.
LEMMA PassedGate ==
  ASSUME NEW V, NEW gone, NEW ref, NEW e, ref.ent = e, ~Refused(V, gone, ref), LiveOf(V, e) # {},
         \A r \in LiveOf(V, e) : V[r].typ = ref.typ
  PROVE  /\ ref.full => Unmet(V, LiveOf(V, e)) \subseteq Unmet(V, BackOf(V, gone, e))
         /\ ~ref.full => Unmet(V, LiveOf(V, e)) = {}
<1>1. {r \in LiveOf(V, e) : V[r].typ = ref.typ} = LiveOf(V, e)
  OBVIOUS
<1> QED
  BY <1>1 DEF Refused, BackOf

\* GateKept, of what is changed of one entity.
SetIn(rows, V, e) == \E r \in RowIds : V[r] # rows[r] /\ V[r].ent = e /\ V[r].st = "live"
NotedIn(w, V, e) == \E ref \in w.refs : ref.ent = e /\ \E r \in LiveOf(V, e) : V[r].typ = ref.typ
GateSays(rows, V, e) ==
    IF SetIn(rows, V, e) THEN Unmet(V, LiveOf(V, e)) = {} ELSE Unmet(V, LiveOf(V, e)) \subseteq Unmet(rows, LiveOf(rows, e))

\* A commit that passed its gate leaves the entity with no demand that it
\* brought: GateKept for one entity.
LEMMA GateAtCommit ==
  ASSUME ValuesStrong, CallsFit, NEW p \in Writers, Active(p), vtx[p].pc = "checked", races = 0, NEW V, V = ViewOf(vtx[p], vrow),
         vtx[p].call.kind # "removeEntity", NEW e \in Entities, NEW c \in RowIds, V[c] # vrow[c], V[c].ent = e,
         vtx[p].call.kind = "snapshot" =>
            SetIn(vrow, V, e) \/ NotedIn(vtx[p], V, e)
  PROVE  GateSays(vrow, V, e)
<1>1. PICK w : w = vtx[p]
  OBVIOUS
<1>2. /\ vrow \in [RowIds -> RowStates] /\ w.writes \in StagedRows /\ DOMAIN w.writes \subseteq RowIds
      /\ \A r \in DOMAIN w.writes : w.writes[r] \in RowRecords /\ RowStaged(w, r, vrow[r])
  <2>1. \A r \in DOMAIN w.writes : RowStaged(w, r, vrow[r])
    BY <1>1, OwnFacts DEF StagedWell
  <2> QED
    BY <1>1, <2>1, TxFacts DEF ValuesStrong, ValuesTypeOK
<1>3. V \in [RowIds -> RowStates] /\ \A r \in RowIds : V[r] = IF r \in DOMAIN w.writes THEN w.writes[r] ELSE vrow[r]
  BY <1>1, <1>2, ViewFacts
<1>4. OneAnchorIn(V)
  BY OwnFacts DEF TableFine
<1>5. /\ GateFits(w, vrow) /\ w.pc = "checked" /\ (w.call.kind = "snapshot" => \A ref \in w.refs : ~ref.full)
  BY <1>1 DEF CallsFit, CallFits, RestoreFits
<1>6. WritesOn(w, e)
  BY <1>3 DEF WritesOn
<1>7. \A ref \in w.refs : ref.ent = e => ~Refused(V, w.gone, ref)
  BY <1>1, <1>5, <1>6 DEF GateFits, Passed
<1>8. CASE LiveOf(V, e) = {}
  BY <1>8 DEF Unmet, GateSays
<1>9. ASSUME LiveOf(V, e) # {}, NEW ref \in w.refs, Judged(w, vrow, e, ref)
      PROVE  GateSays(vrow, V, e)
  <2>1. ref.ent = e /\ (ref.full => OnlyRemoved(w, vrow, e)) /\ \A r \in OfEntity(V, e) : V[r].typ = ref.typ
    BY <1>1, <1>9 DEF Judged
  <2>2. \A r \in LiveOf(V, e) : V[r].typ = ref.typ
    BY <2>1 DEF LiveOf, Live, OfEntity
  <2>3. /\ ref.full => Unmet(V, LiveOf(V, e)) \subseteq Unmet(V, BackOf(V, w.gone, e))
        /\ ~ref.full => Unmet(V, LiveOf(V, e)) = {}
    <3>1. ref.ent = e /\ ~Refused(V, w.gone, ref)
      BY <1>7, <1>9, <2>1
    <3> QED
      BY <1>9, <2>2, <3>1, PassedGate
  <2>4. CASE ~ref.full
    BY <2>3, <2>4 DEF GateSays
  <2>5. CASE ref.full
    <3>1. w.gone \subseteq DOMAIN w.writes /\ OnlyRemoved(w, vrow, e)
      BY <1>5, <2>1, <2>5 DEF GateFits
    <3>2. /\ Unmet(V, BackOf(V, w.gone, e)) = Unmet(vrow, LiveOf(vrow, e))
          /\ \A r \in RowIds : V[r].st = "live" /\ V[r].ent = e => V[r] = vrow[r]
      BY <1>2, <1>3, <3>1, RemovedBack
    <3>3. ~SetIn(vrow, V, e)
      BY <3>2 DEF SetIn
    <3> QED
      BY <2>3, <2>5, <3>2, <3>3 DEF GateSays
  <2> QED
    BY <2>4, <2>5
<1>10. ASSUME LiveOf(V, e) # {}, w.call.kind = "snapshot", OnlyArchived(w, vrow, e) PROVE Unmet(V, LiveOf(V, e)) = {}
  <2>1. ~SetIn(vrow, V, e)
    BY <1>3, <1>10 DEF SetIn, OnlyArchived
  <2>2. PICK ref \in w.refs : ref.ent = e /\ \E r \in LiveOf(V, e) : V[r].typ = ref.typ
    BY <1>1, <1>10, <2>1 DEF NotedIn
  <2>3. \A r \in LiveOf(V, e) : V[r].typ = ref.typ
    BY <1>4, <2>2 DEF OneAnchorIn, LiveOf, Live
  <2>4. ~ref.full /\ ~Refused(V, w.gone, ref)
    BY <1>5, <1>7, <1>10, <2>2
  <2> QED
    BY <1>10, <2>2, <2>3, <2>4, PassedGate
<1>11. Answered(w, vrow, e)
  BY <1>5 DEF GateFits
<1> QED
  BY <1>6, <1>8, <1>9, <1>10, <1>11 DEF Answered, GateSays

\* What a step that finishes the call of p is.
LEMMA FinishesFacts ==
  ASSUME ValuesStrong, [ValuesNext]_valueVars, NEW p \in Writers, Finishes(p), races' = 0
  PROVE  Active(p) /\ vtx[p].pc = "checked" /\ races = 0 /\ vrow' = ViewOf(vtx[p], vrow)
<1>1. vtx[p].pc = "checked" /\ vtx'[p].pc = "idle" /\ vrow' # vrow
  BY DEF Finishes
<1>2. ASSUME NEW q \in Writers, Commit(q) PROVE q = p
  <2>1. vtx' = [vtx EXCEPT ![q] = IdleTx] /\ vtx \in [Writers -> TxRecords \cup {IdleTx}]
    BY <1>2 DEF Commit, ValuesStrong, ValuesTypeOK
  <2>2. q # p => vtx'[p] = vtx[p]
    BY <2>1
  <2> QED
    BY <1>1, <2>2
<1>3. PICK q \in Writers : Commit(q)
  BY <1>1 DEF ValuesNext, WriterNext, Begin, LockDefinition, SetWithin, RemoveScoped, Remove, RemoveEntity, ArchiveRest, RunChecks,
              Rollback, EditDefinition, valueVars
<1>4. Commit(p)
  BY <1>2, <1>3
<1>5. races \in Nat
  BY DEF ValuesStrong, ValuesTypeOK
<1>6. races = 0
  BY <1>4, <1>5 DEF Commit, Race
<1> QED
  BY <1>1, <1>4, <1>6 DEF Commit, Active, ViewOf

\* What a single call promises: a commit leaves no rule unmet where it set values and makes none unmet
\* where it removed them, defaults never change a live value, and a restore leaves nothing its snapshot
\* does not hold.
THEOREM ValueCallsHold == ValuesSpec => ValueCalls
<1>1. ValuesInit => CallsFit
  BY DEF ValuesInit, CallsFit, Active, IdleTx
<1>2. ASSUME ValuesStrong, CallsFit, [ValuesNext]_valueVars, NEW p \in Writers, NEW e \in Entities,
             NEW changed, changed = {r \in RowIds : vrow'[r] # vrow[r] /\ vrow'[r].ent = e},
             NEW set, set = (\E r \in changed : vrow'[r].st = "live"),
             NEW noted, noted = (\E ref \in vtx[p].refs : ref.ent = e /\ \E r \in LiveOf(vrow', e) : vrow'[r].typ = ref.typ),
             Finishes(p), vtx[p].call.kind # "removeEntity", races' = 0,
             changed # {}, vtx[p].call.kind = "snapshot" => set \/ noted
      PROVE  Unmet(vrow', LiveOf(vrow', e)) \subseteq (IF set THEN {} ELSE Unmet(vrow, LiveOf(vrow, e)))
  <2>1. Active(p) /\ vtx[p].pc = "checked" /\ races = 0 /\ vrow' = ViewOf(vtx[p], vrow)
    BY <1>2, FinishesFacts
  <2>2. PICK V : V = vrow'
    OBVIOUS
  <2>3. PICK c \in RowIds : V[c] # vrow[c] /\ V[c].ent = e
    BY <1>2, <2>2
  <2>4. set <=> SetIn(vrow, V, e)
    BY <1>2, <2>2 DEF SetIn
  <2>5. vtx[p].call.kind = "snapshot" =>
            SetIn(vrow, V, e) \/ NotedIn(vtx[p], V, e)
    BY <1>2, <2>2, <2>4 DEF NotedIn
  <2>6. GateSays(vrow, V, e)
    <3>1. V = ViewOf(vtx[p], vrow) /\ ValuesStrong /\ CallsFit /\ vtx[p].call.kind # "removeEntity"
      BY <1>2, <2>1, <2>2
    <3> QED
      BY <2>1, <2>3, <2>5, <3>1, GateAtCommit
  <2> QED
    BY <2>2, <2>4, <2>6 DEF GateSays
<1>3. ASSUME ValuesStrong, CallsFit, [ValuesNext]_valueVars, NEW p \in Writers, Finishes(p), vtx[p].call.kind = "defaults", races' = 0,
             NEW r \in Live(vrow)
      PROVE  vrow'[r].val = vrow[r].val /\ vrow'[r].st = "live"
  <2>1. Active(p) /\ races = 0 /\ vrow' = ViewOf(vtx[p], vrow)
    BY <1>3, FinishesFacts
  <2>2. DefaultsFit(vtx[p], vrow)
    BY <1>3, <2>1 DEF CallsFit, CallFits
  <2>3. r \in RowIds /\ vrow[r].st = "live"
    BY <1>3 DEF Live
  <2> QED
    BY <2>1, <2>2, <2>3 DEF ViewOf, DefaultsFit
<1>4. ASSUME ValuesStrong, CallsFit, [ValuesNext]_valueVars, NEW p \in Writers, Finishes(p), vtx[p].call.kind = "snapshot", races' = 0,
             NEW r \in LiveOf(vrow', vtx[p].call.ent)
      PROVE  \E i \in DOMAIN vtx[p].call.items :
                vtx[p].call.items[i].attr = vrow'[r].attr /\ vtx[p].call.items[i].val = vrow'[r].val
  <2>1. Active(p) /\ vtx[p].pc = "checked" /\ races = 0 /\ vrow' = ViewOf(vtx[p], vrow) /\ vrow' # vrow
    BY <1>4, FinishesFacts DEF Finishes
  <2>2. RestoreFits(vtx[p], vrow)
    BY <1>4, <2>1 DEF CallsFit, CallFits
  <2>3. DOMAIN vtx[p].writes # {}
    <3>1. vrow = [s \in RowIds |-> vrow[s]]
      BY <1>4 DEF ValuesStrong, ValuesTypeOK
    <3> QED
      BY <2>1, <3>1 DEF ViewOf
  <2>4. InSnapshot(vtx[p].call, vrow'[r])
    BY <1>4, <2>1, <2>2, <2>3 DEF RestoreFits
  <2> QED
    BY <2>4 DEF InSnapshot
<1>5. ValuesStrong /\ CallsFit /\ [ValuesNext]_valueVars =>
        [\A p \in Writers, e \in Entities :
          LET changed == {r \in RowIds : vrow'[r] # vrow[r] /\ vrow'[r].ent = e}
              set == \E r \in changed : vrow'[r].st = "live"
              noted == \E ref \in vtx[p].refs : ref.ent = e /\ \E r \in LiveOf(vrow', e) : vrow'[r].typ = ref.typ
          IN /\ Finishes(p) /\ vtx[p].call.kind # "removeEntity" /\ races' = 0
             /\ changed # {} /\ (vtx[p].call.kind = "snapshot" => set \/ noted)
             => Unmet(vrow', LiveOf(vrow', e)) \subseteq (IF set THEN {} ELSE Unmet(vrow, LiveOf(vrow, e)))]_valueVars
  BY <1>2
<1>6. ValuesStrong /\ CallsFit /\ [ValuesNext]_valueVars =>
        [\A p \in Writers : Finishes(p) /\ vtx[p].call.kind = "defaults" /\ races' = 0 =>
          \A r \in Live(vrow) : vrow'[r].val = vrow[r].val /\ vrow'[r].st = "live"]_valueVars
  BY <1>3
<1>7. ValuesStrong /\ CallsFit /\ [ValuesNext]_valueVars =>
        [\A p \in Writers : Finishes(p) /\ vtx[p].call.kind = "snapshot" /\ races' = 0 =>
          \A r \in LiveOf(vrow', vtx[p].call.ent) :
              \E i \in DOMAIN vtx[p].call.items :
                  vtx[p].call.items[i].attr = vrow'[r].attr /\ vtx[p].call.items[i].val = vrow'[r].val]_valueVars
  BY <1>4
<1> QED
  BY <1>1, <1>5, <1>6, <1>7, ValuesStart, ValuesStep, CallsFitStep, PTL DEF ValuesSpec, ValueCalls, GateKept, DefaultsOnlyFill, RestoreIsExact

-----------------------------------------------------------------------------
(* Media. *)

\* The inductive invariant of media.  Records of requests:
Staged == UNION {[S -> MediaStates] : S \in SUBSET MediaRows}
ReqRecords ==
    [pc : {"set", "owned", "write", "commit", "save", "hooks", "count", "collect", "receipt", "orphan"},
     kind : {"upload", "adopt", "remove", "removeEntity", "purge"}, cell : Cells, key : Keys,
     attr : SUBSET {AttrOf[c] : c \in Cells}, lock : SUBSET Keys, writes : Staged, hooks : SUBSET (Keys \X MediaRows),
     listed : Staged, keys : SUBSET Keys, erased : SUBSET Keys, purged : SUBSET Keys, retained : SUBSET Keys,
     failed : SUBSET Keys]
MediaTypeOK ==
    /\ mrow \in [MediaRows -> MediaStates] /\ blobs \subseteq Keys /\ minted \subseteq Keys
    /\ mreq \in [Requests -> ReqRecords \cup {IdleReq}]

\* What a request does with a key: its own new one, one it adopts, a row it is
\* about to commit, bytes it has yet to account for, any mention at all.
Uploads(w, k) == w.pc \in {"set", "write", "commit", "orphan"} /\ w.kind = "upload" /\ w.key = k
Adopts(w, k) == w.pc \in {"write", "commit"} /\ w.kind = "adopt" /\ w.key = k
Stages(w, r, k) == w.pc = "commit" /\ r \in DOMAIN w.writes /\ w.writes[r].st = "live" /\ w.writes[r].key = k
AnswersFor(w, k) ==
    \/ Uploads(w, k)
    \/ w.pc \in {"count", "collect"} /\ k \in w.keys
    \/ w.pc = "hooks" /\ \E h \in w.hooks : h[1] = k
Mentions(w, k) ==
    /\ w.pc # "idle"
    /\ \/ \E h \in w.hooks : h[1] = k
       \/ k \in w.keys \cup w.purged
       \/ \E r \in DOMAIN w.writes : w.writes[r].st # "none" /\ w.writes[r].key = k
       \/ \E r \in DOMAIN w.listed : w.listed[r].st # "none" /\ w.listed[r].key = k
       \/ w.pc = "owned" /\ w.key = k
       \/ Adopts(w, k) \/ Uploads(w, k)

\* A request by itself, at each of its steps.
Shaped(w) ==
    w.pc # "idle" =>
    /\ w.pc # "commit" => DOMAIN w.writes = {}
    /\ w.pc \notin {"commit", "hooks"} => w.hooks = {}
    /\ IF w.kind = "purge" THEN w.hooks = {} /\ w.pc \in {"commit", "count", "collect", "receipt"}
       ELSE w.keys = {} /\ w.purged = {} /\ w.pc \notin {"count", "collect", "receipt"}
    /\ w.pc \in {"set", "write"} => w.kind \in {"upload", "adopt"}
    /\ w.pc = "owned" => w.kind = "adopt"
    /\ w.pc = "orphan" => w.kind = "upload"
    /\ w.pc = "save" => w.kind = "removeEntity" /\ \A r \in DOMAIN w.listed : w.listed[r].st = "live"
    /\ w.pc \in {"write", "commit"} /\ w.kind = "adopt" => w.lock = {w.key}
    /\ w.pc \in {"commit", "count"} /\ w.kind = "purge" => w.lock = {} /\ w.erased \subseteq w.keys
    /\ w.pc \in {"collect", "receipt"} => w.lock \subseteq w.keys /\ w.erased \subseteq w.keys \cup w.purged \cup w.retained \cup w.failed
    /\ w.pc = "receipt" => w.keys = {}
    /\ w.pc = "commit" => \A h \in w.hooks : h[2] \in DOMAIN w.writes /\ ~Stages(w, h[2], h[1])
    /\ \A r \in DOMAIN w.writes : w.writes[r].st = "live" => w.kind \in {"upload", "adopt"} /\ w.writes[r].key = w.key
    /\ w.pc = "commit" /\ w.kind = "upload" => \E r \in DOMAIN w.writes : Stages(w, r, w.key)

RequestsShaped == \A p \in Requests : Shaped(mreq[p])
\* No two requests hold one row or one key.
LocksApart ==
    \A p, q \in Requests : p # q /\ Busy(p) /\ Busy(q) =>
        /\ DOMAIN mreq[p].writes \cap DOMAIN mreq[q].writes = {}
        /\ mreq[p].lock \cap mreq[q].lock = {}
\* A key that is stored, named by a row or mentioned by a request was minted.
KeysMinted ==
    /\ blobs \subseteq minted
    /\ \A r \in MediaRows : mrow[r].st # "none" => mrow[r].key \in minted
    /\ \A p \in Requests, k \in Keys : Mentions(mreq[p], k) => k \in minted
\* The key of an upload under way is known to its request alone.
UploadsFresh ==
    \A p \in Requests, k \in Keys : Uploads(mreq[p], k) =>
        /\ \A r \in MediaRows : mrow[r].st # "none" => mrow[r].key # k
        /\ \A q \in Requests : q # p => ~Mentions(mreq[q], k)
        /\ \A h \in mreq[p].hooks : h[1] # k
\* The bytes an upload or an adoption is about to commit are there.
BytesThere ==
    \A p \in Requests, k \in Keys :
        /\ Uploads(mreq[p], k) /\ mreq[p].pc # "orphan" => k \in blobs
        /\ Adopts(mreq[p], k) /\ "readopted" \notin windows => k \in blobs
\* A queued collection is of a key its row no longer holds.
HooksPast ==
    "readopted" \notin windows =>
        \A p \in Requests : Busy(p) => \A h \in mreq[p].hooks :
            /\ mreq[p].pc = "hooks" => ~ (mrow[h[2]].st = "live" /\ mrow[h[2]].key = h[1])
            /\ \A q \in Requests : q # p => ~Stages(mreq[q], h[2], h[1])
\* A commit that takes a live row's key away collects it.
OverwritesCovered ==
    windows = {} =>
        \A p \in Requests : mreq[p].pc = "commit" => \A r \in DOMAIN mreq[p].writes : mrow[r].st = "live" =>
            \/ Stages(mreq[p], r, mrow[r].key)
            \/ <<mrow[r].key, r>> \in mreq[p].hooks
            \/ mreq[p].kind = "purge" /\ mrow[r].key \in mreq[p].keys
\* Bytes that no live row names are leaked or somebody answers for them.
BlobsAnswered ==
    windows = {} => \A k \in blobs :
        \/ \E r \in MediaRows : mrow[r].st = "live" /\ mrow[r].key = k
        \/ k \in leaked
        \/ \E p \in Requests : AnswersFor(mreq[p], k)
\* Keys an erasure reports as purged are gone.
PurgedGone == \A p \in Requests : Busy(p) => mreq[p].purged \cap blobs = {}
\* The inductive invariant of media.
MediaStrong ==
    /\ MediaTypeOK /\ RequestsShaped /\ LocksApart /\ KeysMinted /\ UploadsFresh /\ BytesThere /\ LiveHasBlob
    /\ HooksPast /\ OverwritesCovered /\ BlobsAnswered /\ PurgedGone

\* A request made over: the fields a step sets, the others as they were.
Remade(v, pc, attr, lock, writes, hooks, keys, purged, retained, failed) ==
    [pc : {pc}, kind : {v.kind}, cell : {v.cell}, key : {v.key}, attr : {attr}, lock : {lock}, writes : {writes},
     hooks : {hooks}, listed : {v.listed}, keys : {keys}, erased : {v.erased}, purged : {purged},
     retained : {retained}, failed : {failed}]

\* A step of request p to w that leaves the rows alone: what it must respect.
StepsTo(p, w) ==
    /\ mreq' = [mreq EXCEPT ![p] = w] /\ mrow' = mrow
    /\ blobs' \subseteq Keys /\ minted' \subseteq Keys /\ blobs' \subseteq minted'
    /\ minted \subseteq minted' /\ windows \subseteq windows' /\ leaked \subseteq leaked'
\* It takes no lock of another.
StepLocks(p, w) ==
    w.pc # "idle" => \A q \in Requests : q # p /\ Busy(q) =>
        DOMAIN w.writes \cap DOMAIN mreq[q].writes = {} /\ w.lock \cap mreq[q].lock = {}
\* It mentions only keys it knew, new keys, or keys of rows.
StepKeys(p, w) ==
    \A k \in Keys :
        /\ Mentions(w, k) =>
              /\ k \in minted'
              /\ \/ Mentions(mreq[p], k) \/ k \notin minted
                 \/ \E r \in MediaRows : mrow[r].st # "none" /\ mrow[r].key = k
        /\ Uploads(w, k) => (Uploads(mreq[p], k) \/ k \notin minted) /\ \A h \in w.hooks : h[1] # k
\* It removes no bytes another is about to commit.
StepBytes(p, w) ==
    /\ \A k \in Keys : /\ Uploads(w, k) /\ w.pc # "orphan" => k \in blobs'
                       /\ Adopts(w, k) /\ "readopted" \notin windows' => k \in blobs'
    /\ \A k \in blobs \ blobs' :
          /\ \A q \in Requests : q # p => ~Uploads(mreq[q], k) /\ ~Adopts(mreq[q], k)
          /\ "readopted" \notin windows' => \A r \in MediaRows : ~ (mrow[r].st = "live" /\ mrow[r].key = k)
    /\ \A k \in blobs' \ blobs : k \notin minted
    /\ w.pc # "idle" => w.purged \cap blobs' = {}
\* It queues no collection of a key a row still holds.
StepHooks(p, w) ==
    "readopted" \notin windows' =>
        /\ w.pc # "idle" => \A h \in w.hooks :
              /\ w.pc = "hooks" => ~ (mrow[h[2]].st = "live" /\ mrow[h[2]].key = h[1])
              /\ \A q \in Requests : q # p => ~Stages(mreq[q], h[2], h[1])
        /\ \A q \in Requests : q # p /\ Busy(q) => \A h \in mreq[q].hooks : ~Stages(w, h[2], h[1])
\* It answers for what it answered for, or the key is leaked or live.
StepCovers(p, w) ==
    windows' = {} =>
        /\ w.pc = "commit" => \A r \in DOMAIN w.writes : mrow[r].st = "live" =>
              \/ Stages(w, r, mrow[r].key)
              \/ <<mrow[r].key, r>> \in w.hooks
              \/ w.kind = "purge" /\ mrow[r].key \in w.keys
        /\ \A k \in blobs' : k \notin blobs \/ AnswersFor(mreq[p], k) =>
              \/ AnswersFor(w, k) \/ k \in leaked'
              \/ \E r \in MediaRows : mrow[r].st = "live" /\ mrow[r].key = k

\* Staged rows are rows.
LEMMA StagedMedia ==
  /\ << >> \in Staged /\ DOMAIN << >> = {}
  /\ \A f \in Staged : DOMAIN f \subseteq MediaRows /\ \A r \in DOMAIN f : f[r] \in MediaStates
  /\ \A S \in SUBSET MediaRows : \A f \in [S -> MediaStates] : f \in Staged
<1>1. << >> \in [{} -> MediaStates] /\ DOMAIN << >> = {}
  OBVIOUS
<1>2. << >> \in Staged
  BY <1>1 DEF Staged
<1> QED
  BY <1>1, <1>2 DEF Staged

\* The count of references is positive when there is one.
LEMMA RefCounts ==
  ASSUME NEW rows, NEW k, NEW excl
  PROVE  /\ RefCount(rows, k, excl) > 0 <=> \E r \in MediaRows : rows[r].st = "live" /\ rows[r].key = k /\ r # excl
         /\ RefCount(rows, k, excl) = 0 <=> ~ (RefCount(rows, k, excl) > 0)
<1> DEFINE S == {r \in LiveRows(rows) : rows[r].key = k /\ r # excl}
<1>1. IsFiniteSet(MediaRows)
  BY FS_Interval, MediaAssumption DEF MediaRows
<1>2. S \subseteq MediaRows /\ \A r : r \in S <=> r \in MediaRows /\ rows[r].st = "live" /\ rows[r].key = k /\ r # excl
  BY DEF LiveRows
<1>3. IsFiniteSet(S)
  BY <1>1, <1>2, FS_Subset
<1>4. RefCount(rows, k, excl) = Cardinality(S)
  BY DEF RefCount
<1> HIDE DEF S
<1>5. Cardinality(S) \in Nat /\ (Cardinality(S) = 0 <=> S = {})
  BY <1>3, FS_CardinalityType, FS_EmptySet
<1> QED
  BY <1>2, <1>4, <1>5

\* A step that respects all that keeps the invariant.
LEMMA RequestStep ==
  ASSUME MediaStrong, NEW p \in Requests, NEW w \in ReqRecords \cup {IdleReq}, Shaped(w),
         StepsTo(p, w), StepLocks(p, w), StepKeys(p, w), StepBytes(p, w), StepHooks(p, w), StepCovers(p, w)
  PROVE  MediaStrong'
<1> USE DEF MediaStrong
<1>1. mreq'[p] = w /\ \A q \in Requests : q # p => mreq'[q] = mreq[q]
  BY DEF StepsTo, MediaTypeOK
<1>2. mrow' = mrow /\ minted \subseteq minted' /\ windows \subseteq windows' /\ leaked \subseteq leaked' /\ blobs' \subseteq minted'
  BY DEF StepsTo
<1>3. MediaTypeOK'
  <2>1. mreq' \in [Requests -> ReqRecords \cup {IdleReq}]
    BY DEF StepsTo, MediaTypeOK
  <2> QED
    BY <2>1 DEF StepsTo, MediaTypeOK
<1>4. RequestsShaped'
  <2> SUFFICES ASSUME NEW q \in Requests PROVE Shaped(mreq'[q])
    BY DEF RequestsShaped, Shaped, Stages
  <2> QED
    BY <1>1 DEF RequestsShaped
<1>5. LocksApart'
  <2> SUFFICES ASSUME NEW a \in Requests, NEW b \in Requests, a # b, mreq'[a].pc # "idle", mreq'[b].pc # "idle"
               PROVE  DOMAIN mreq'[a].writes \cap DOMAIN mreq'[b].writes = {} /\ mreq'[a].lock \cap mreq'[b].lock = {}
    BY DEF LocksApart, Busy
  <2>1. CASE a # p /\ b # p
    BY <1>1, <2>1 DEF LocksApart, Busy
  <2>2. CASE a = p
    BY <1>1, <2>2 DEF StepLocks, Busy
  <2>3. CASE b = p
    BY <1>1, <2>3 DEF StepLocks, Busy
  <2> QED
    BY <2>1, <2>2, <2>3
<1>6. \A q \in Requests, k \in Keys : Mentions(mreq[q], k) => k \in minted
  BY DEF KeysMinted
<1>7. \A v, k : Uploads(v, k) \/ Adopts(v, k) => Mentions(v, k)
  BY DEF Uploads, Adopts, Mentions
<1>8. KeysMinted'
  <2>1. \A q \in Requests, k \in Keys : Mentions(mreq'[q], k) => k \in minted'
    BY <1>1, <1>2, <1>6 DEF StepKeys
  <2> QED
    BY <1>2, <2>1 DEF KeysMinted, Mentions, Adopts, Uploads
<1>9. UploadsFresh'
  <2> SUFFICES ASSUME NEW a \in Requests, NEW k \in Keys, Uploads(mreq'[a], k)
               PROVE  /\ \A r \in MediaRows : mrow[r].st # "none" => mrow[r].key # k
                      /\ \A b \in Requests : b # a => ~Mentions(mreq'[b], k)
                      /\ \A h \in mreq'[a].hooks : h[1] # k
    BY <1>2 DEF UploadsFresh, Mentions, Adopts, Uploads
  <2>1. CASE a = p
    <3>1. \A h \in mreq'[a].hooks : h[1] # k
      BY <1>1, <2>1 DEF StepKeys
    <3>2. Uploads(mreq[p], k) \/ k \notin minted
      BY <1>1, <2>1 DEF StepKeys
    <3>3. \A r \in MediaRows : mrow[r].st # "none" => mrow[r].key # k
      BY <3>2 DEF UploadsFresh, KeysMinted
    <3>4. \A b \in Requests : b # p => ~Mentions(mreq[b], k)
      BY <1>6, <3>2 DEF UploadsFresh
    <3> QED
      BY <1>1, <2>1, <3>1, <3>3, <3>4
  <2>2. CASE a # p
    <3>1. Uploads(mreq[a], k) /\ mreq'[a] = mreq[a]
      BY <1>1, <2>2
    <3>2. /\ \A r \in MediaRows : mrow[r].st # "none" => mrow[r].key # k
          /\ \A b \in Requests : b # a => ~Mentions(mreq[b], k)
          /\ \A h \in mreq[a].hooks : h[1] # k
      BY <3>1 DEF UploadsFresh
    <3>3. k \in minted
      BY <1>6, <1>7, <3>1
    <3>4. ~Mentions(w, k)
      BY <2>2, <3>2, <3>3 DEF StepKeys
    <3> QED
      BY <1>1, <3>1, <3>2, <3>4
  <2> QED
    BY <2>1, <2>2
<1>10. \A k \in blobs : k \in Keys
  BY DEF MediaTypeOK
<1>11. BytesThere'
  <2> SUFFICES ASSUME NEW a \in Requests, NEW k \in Keys
               PROVE  /\ Uploads(mreq'[a], k) /\ mreq'[a].pc # "orphan" => k \in blobs'
                      /\ Adopts(mreq'[a], k) /\ "readopted" \notin windows' => k \in blobs'
    BY DEF BytesThere, Adopts, Uploads
  <2>1. CASE a = p
    BY <1>1, <2>1 DEF StepBytes
  <2>2. CASE a # p
    BY <1>1, <1>2, <2>2 DEF StepBytes, BytesThere
  <2> QED
    BY <2>1, <2>2
<1>12. LiveHasBlob'
  BY <1>2 DEF StepBytes, LiveHasBlob, LiveRows
<1>13. HooksPast'
  <2> SUFFICES ASSUME "readopted" \notin windows', NEW a \in Requests, mreq'[a].pc # "idle", NEW h \in mreq'[a].hooks
               PROVE  /\ mreq'[a].pc = "hooks" => ~ (mrow[h[2]].st = "live" /\ mrow[h[2]].key = h[1])
                      /\ \A q \in Requests : q # a => ~Stages(mreq'[q], h[2], h[1])
    BY <1>2 DEF HooksPast, Busy, Stages
  <2>1. CASE a = p
    BY <1>1, <2>1 DEF StepHooks
  <2>2. CASE a # p
    BY <1>1, <1>2, <2>2 DEF StepHooks, HooksPast, Busy
  <2> QED
    BY <2>1, <2>2
<1>14. OverwritesCovered'
  <2> SUFFICES ASSUME windows' = {}, NEW a \in Requests, mreq'[a].pc = "commit", NEW r \in DOMAIN mreq'[a].writes, mrow[r].st = "live"
               PROVE  \/ Stages(mreq'[a], r, mrow[r].key)
                      \/ <<mrow[r].key, r>> \in mreq'[a].hooks
                      \/ mreq'[a].kind = "purge" /\ mrow[r].key \in mreq'[a].keys
    BY <1>2 DEF OverwritesCovered, Stages
  <2>1. CASE a = p
    BY <1>1, <2>1 DEF StepCovers
  <2>2. CASE a # p
    BY <1>1, <1>2, <2>2 DEF OverwritesCovered
  <2> QED
    BY <2>1, <2>2
<1>15. BlobsAnswered'
  <2> SUFFICES ASSUME windows' = {}, NEW k \in blobs'
               PROVE  \/ \E r \in MediaRows : mrow[r].st = "live" /\ mrow[r].key = k
                      \/ k \in leaked'
                      \/ \E q \in Requests : AnswersFor(mreq'[q], k)
    BY <1>2 DEF BlobsAnswered, AnswersFor, Uploads
  <2>1. CASE k \notin blobs \/ AnswersFor(mreq[p], k)
    BY <1>1, <2>1 DEF StepCovers
  <2>2. CASE k \in blobs /\ ~AnswersFor(mreq[p], k)
    BY <1>1, <1>2, <2>2 DEF BlobsAnswered
  <2> QED
    BY <2>1, <2>2
<1>16. PurgedGone'
  <2> SUFFICES ASSUME NEW a \in Requests, mreq'[a].pc # "idle", NEW k \in mreq'[a].purged, k \in blobs' PROVE FALSE
    BY DEF PurgedGone, Busy
  <2>1. CASE a = p
    BY <1>1, <2>1 DEF StepBytes
  <2>2. CASE a # p
    <3>1. k \in mreq[a].purged /\ mreq[a].pc # "idle"
      BY <1>1, <2>2
    <3>2. k \notin blobs
      BY <3>1 DEF PurgedGone, Busy
    <3>3. k \in Keys /\ Mentions(mreq[a], k)
      BY <3>1, <1>3 DEF Mentions, MediaTypeOK
    <3> QED
      BY <1>6, <3>2, <3>3 DEF StepBytes
  <2> QED
    BY <2>1, <2>2
<1> QED
  BY <1>3, <1>4, <1>5, <1>8, <1>9, <1>11, <1>12, <1>13, <1>14, <1>15, <1>16

\* A busy request is a whole record, an idle one mentions nothing.
LEMMA RequestRecords ==
  ASSUME MediaTypeOK, NEW p \in Requests
  PROVE  /\ Busy(p) => mreq[p] \in ReqRecords
         /\ ~Busy(p) => mreq[p] = IdleReq
<1>1. \A w \in ReqRecords : w.pc # "idle"
  BY DEF ReqRecords
<1>2. IdleReq.pc = "idle"
  BY DEF IdleReq
<1> QED
  BY <1>1, <1>2 DEF MediaTypeOK, Busy

\* A request that is not under way mentions no key and stages no row.
LEMMA IdleFacts ==
  /\ IdleReq.pc = "idle" /\ Shaped(IdleReq)
  /\ \A k : ~Mentions(IdleReq, k) /\ ~Uploads(IdleReq, k) /\ ~Adopts(IdleReq, k) /\ ~AnswersFor(IdleReq, k)
  /\ \A r, k : ~Stages(IdleReq, r, k)
BY DEF IdleReq, Shaped, Mentions, Uploads, Adopts, AnswersFor, Stages

\* A new request, before it takes a lock or stages a row.
LEMMA NewRequest ==
  ASSUME NEW kind \in {"upload", "adopt", "remove", "removeEntity", "purge"},
         NEW pc \in {"set", "owned", "write", "commit", "save", "hooks", "count", "collect", "receipt", "orphan"},
         NEW c \in Cells, NEW k \in Keys, NEW w, w = Req(kind, pc, c, k)
  PROVE  /\ w \in ReqRecords
         /\ w.pc = pc /\ w.kind = kind /\ w.cell = c /\ w.key = k /\ w.lock = {} /\ w.hooks = {} /\ w.keys = {}
         /\ w.erased = {} /\ w.purged = {} /\ DOMAIN w.writes = {} /\ DOMAIN w.listed = {}
<1>1. << >> \in Staged /\ DOMAIN << >> = {}
  BY StagedMedia
<1>2. w \in [pc : {pc}, kind : {kind}, cell : {c}, key : {k}, attr : {{}}, lock : {{}}, writes : {<< >>}, hooks : {{}},
             listed : {<< >>}, keys : {{}}, erased : {{}}, purged : {{}}, retained : {{}}, failed : {{}}]
  BY DEF Req
<1> QED
  BY <1>1, <1>2 DEF ReqRecords

\* An upload begins with bytes under a key nobody has seen.
LEMMA UploadMediaKeeps ==
  ASSUME MediaStrong, NEW p \in Requests, NEW c \in Cells, NEW k \in Keys, UploadMedia(p, c, k)
  PROVE  MediaStrong'
<1>1. PICK w : w = Req("upload", "set", c, k)
  OBVIOUS
<1>2. /\ w \in ReqRecords /\ w.pc = "set" /\ w.kind = "upload" /\ w.key = k /\ w.lock = {} /\ w.hooks = {} /\ w.keys = {}
      /\ w.purged = {} /\ DOMAIN w.writes = {} /\ DOMAIN w.listed = {}
  BY <1>1, NewRequest
<1>3. mreq[p] = IdleReq
  BY RequestRecords DEF MediaStrong, UploadMedia
<1>4. Shaped(w)
  BY <1>2 DEF Shaped
<1>5. \A x : (Mentions(w, x) <=> x = k) /\ (Uploads(w, x) <=> x = k) /\ ~Adopts(w, x) /\ (AnswersFor(w, x) <=> x = k)
  BY <1>2 DEF Mentions, Uploads, Adopts, AnswersFor
<1>6. /\ k \notin minted /\ minted' = minted \cup {k} /\ blobs' = blobs \cup {k}
      /\ mreq' = [mreq EXCEPT ![p] = w] /\ UNCHANGED <<mrow, leaked, windows>>
  BY <1>1 DEF UploadMedia
<1>7. StepsTo(p, w)
  BY <1>6 DEF StepsTo, MediaStrong, MediaTypeOK, KeysMinted
<1>8. StepLocks(p, w)
  BY <1>2 DEF StepLocks
<1>9. StepKeys(p, w)
  BY <1>2, <1>5, <1>6 DEF StepKeys
<1>10. StepBytes(p, w)
  BY <1>2, <1>5, <1>6 DEF StepBytes
<1>11. StepHooks(p, w)
  BY <1>2 DEF StepHooks, Stages
<1>12. StepCovers(p, w)
  BY <1>2, <1>3, <1>5, <1>6, IdleFacts DEF StepCovers
<1> QED
  BY <1>2, <1>4, <1>7, <1>8, <1>9, <1>10, <1>11, <1>12, RequestStep

\* A reference is only a name until its key is looked up.
LEMMA SetReferenceKeeps ==
  ASSUME MediaStrong, NEW p \in Requests, NEW c \in Cells, NEW k \in Keys, SetReference(p, c, k)
  PROVE  MediaStrong'
<1>1. PICK w : w = Req("adopt", "set", c, k)
  OBVIOUS
<1>2. /\ w \in ReqRecords /\ w.pc = "set" /\ w.kind = "adopt" /\ w.lock = {} /\ w.hooks = {} /\ w.keys = {}
      /\ w.purged = {} /\ DOMAIN w.writes = {} /\ DOMAIN w.listed = {}
  BY <1>1, NewRequest
<1>3. mreq[p] = IdleReq
  BY RequestRecords DEF MediaStrong, SetReference
<1>4. Shaped(w)
  BY <1>2 DEF Shaped
<1>5. \A x : ~Mentions(w, x) /\ ~Uploads(w, x) /\ ~Adopts(w, x)
  BY <1>2 DEF Mentions, Uploads, Adopts
<1>6. mreq' = [mreq EXCEPT ![p] = w] /\ UNCHANGED <<mrow, blobs, minted, leaked, windows>>
  BY <1>1 DEF SetReference
<1>7. StepsTo(p, w)
  BY <1>6 DEF StepsTo, MediaStrong, MediaTypeOK, KeysMinted
<1>8. StepLocks(p, w) /\ StepKeys(p, w)
  BY <1>2, <1>5 DEF StepLocks, StepKeys
<1>9. StepBytes(p, w)
  BY <1>2, <1>5, <1>6 DEF StepBytes
<1>10. StepHooks(p, w) /\ StepCovers(p, w)
  BY <1>2, <1>3, <1>6, IdleFacts DEF StepHooks, StepCovers, Stages
<1> QED
  BY <1>2, <1>4, <1>7, <1>8, <1>9, <1>10, RequestStep

\* A request made over has the fields it was given.
LEMMA RemadeParts ==
  ASSUME NEW v \in ReqRecords, NEW pc, NEW attr, NEW lock, NEW writes, NEW hooks, NEW keys, NEW purged, NEW retained, NEW failed,
         NEW w \in Remade(v, pc, attr, lock, writes, hooks, keys, purged, retained, failed)
  PROVE  /\ w.pc = pc /\ w.kind = v.kind /\ w.cell = v.cell /\ w.key = v.key /\ w.attr = attr /\ w.lock = lock
         /\ w.writes = writes /\ w.hooks = hooks /\ w.listed = v.listed /\ w.keys = keys /\ w.erased = v.erased
         /\ w.purged = purged /\ w.retained = retained /\ w.failed = failed
         /\ (pc \in {"set", "owned", "write", "commit", "save", "hooks", "count", "collect", "receipt", "orphan"}
             /\ attr \subseteq {AttrOf[c] : c \in Cells} /\ lock \subseteq Keys /\ writes \in Staged
             /\ hooks \subseteq Keys \X MediaRows /\ keys \subseteq Keys /\ purged \subseteq Keys /\ retained \subseteq Keys
             /\ failed \subseteq Keys) => w \in ReqRecords
BY DEF Remade, ReqRecords

\* The fields of a busy request.
LEMMA RequestFields ==
  ASSUME NEW v \in ReqRecords
  PROVE  /\ v.pc \in {"set", "owned", "write", "commit", "save", "hooks", "count", "collect", "receipt", "orphan"}
         /\ v.cell \in Cells /\ v.key \in Keys /\ v.attr \subseteq {AttrOf[c] : c \in Cells} /\ v.lock \subseteq Keys
         /\ v.writes \in Staged /\ v.listed \in Staged /\ v.hooks \subseteq Keys \X MediaRows /\ v.keys \subseteq Keys
         /\ v.erased \subseteq Keys /\ v.purged \subseteq Keys /\ v.retained \subseteq Keys /\ v.failed \subseteq Keys
BY DEF ReqRecords

\* The locked definition; an adopted key is one some row has.
LEMMA LockAttrKeeps ==
  ASSUME MediaStrong, NEW p \in Requests, LockAttr(p)
  PROVE  MediaStrong'
<1> DEFINE v == mreq[p]
<1> DEFINE to == IF v.kind = "adopt" THEN "owned" ELSE "write"
<1> DEFINE u == [[v EXCEPT !.attr = {AttrOf[v.cell]}] EXCEPT !.pc = to]
<1>1. v \in ReqRecords /\ v.pc = "set"
  BY RequestRecords DEF MediaStrong, LockAttr, Busy
<1>2. u \in Remade(v, to, {AttrOf[v.cell]}, v.lock, v.writes, v.hooks, v.keys, v.purged, v.retained, v.failed)
  BY <1>1 DEF ReqRecords, Remade
<1>3. mreq' = [mreq EXCEPT ![p] = u] /\ UNCHANGED <<mrow, blobs, leaked, minted, windows>>
  BY DEF LockAttr, MediaStrong, MediaTypeOK
<1>4. PICK w : w = u
  OBVIOUS
<1> HIDE DEF u
<1>5. /\ w.pc = to /\ w.kind = v.kind /\ w.key = v.key /\ w.lock = v.lock /\ w.writes = v.writes /\ w.hooks = v.hooks
      /\ w.listed = v.listed /\ w.keys = v.keys /\ w.erased = v.erased /\ w.purged = v.purged
  BY <1>1, <1>2, <1>4, RemadeParts
<1>6. w \in ReqRecords
  <2>1. to \in {"owned", "write"} /\ v.cell \in Cells /\ v.lock \subseteq Keys /\ v.writes \in Staged
    BY <1>1 DEF ReqRecords
  <2>2. /\ v.hooks \subseteq Keys \X MediaRows /\ v.keys \subseteq Keys /\ v.purged \subseteq Keys
        /\ v.retained \subseteq Keys /\ v.failed \subseteq Keys
    BY <1>1 DEF ReqRecords
  <2>3. {AttrOf[v.cell]} \subseteq {AttrOf[c] : c \in Cells}
    BY <2>1
  <2> QED
    BY <1>1, <1>2, <1>4, <2>1, <2>2, <2>3, RemadeParts
<1>7. Shaped(v)
  BY DEF MediaStrong, RequestsShaped
<1>8. DOMAIN v.writes = {} /\ v.hooks = {} /\ v.keys = {} /\ v.purged = {} /\ v.kind \in {"upload", "adopt"}
  BY <1>1, <1>7 DEF Shaped
<1>9. Shaped(w)
  BY <1>5, <1>8 DEF Shaped
<1>10. \A x : (Uploads(w, x) <=> Uploads(v, x)) /\ ~Adopts(w, x)
  BY <1>1, <1>5, <1>8 DEF Uploads, Adopts
<1>11. \A x : Mentions(w, x) => Mentions(v, x) \/ (v.kind = "adopt" /\ x = v.key)
  BY <1>1, <1>5, <1>8, <1>10 DEF Mentions
<1>12. v.kind = "adopt" => \E r \in MediaRows : mrow[r].st # "none" /\ mrow[r].key = v.key
  BY DEF LockAttr, Owned
<1>13. \A x \in Keys : Mentions(v, x) => x \in minted
  BY DEF MediaStrong, KeysMinted
<1>14. StepsTo(p, w)
  BY <1>3, <1>4 DEF StepsTo, MediaStrong, MediaTypeOK, KeysMinted
<1>15. StepLocks(p, w)
  <2>1. \A q \in Requests : q # p /\ Busy(q) => v.lock \cap mreq[q].lock = {}
    BY <1>1 DEF MediaStrong, LocksApart, Busy
  <2> QED
    BY <1>5, <1>8, <2>1 DEF StepLocks
<1>16. StepKeys(p, w)
  BY <1>3, <1>5, <1>8, <1>10, <1>11, <1>12, <1>13 DEF StepKeys, MediaStrong, KeysMinted
<1>17. StepBytes(p, w)
  <2>1. \A x \in Keys : Uploads(v, x) => x \in blobs
    BY <1>1 DEF MediaStrong, BytesThere
  <2> QED
    BY <1>3, <1>5, <1>8, <1>10, <2>1 DEF StepBytes
<1>18. StepHooks(p, w)
  BY <1>5, <1>8 DEF StepHooks, Stages
<1>19. StepCovers(p, w)
  <2>1. \A x : AnswersFor(v, x) => AnswersFor(w, x)
    BY <1>1, <1>5, <1>8, <1>10 DEF AnswersFor
  <2> QED
    BY <1>3, <1>5, <2>1 DEF StepCovers
<1> QED
  BY <1>6, <1>9, <1>14, <1>15, <1>16, <1>17, <1>18, <1>19, RequestStep

\* An adoption holds the key's lock and has seen its bytes.
LEMMA AdoptMediaValueKeeps ==
  ASSUME MediaStrong, NEW p \in Requests, AdoptMediaValue(p)
  PROVE  MediaStrong'
<1> DEFINE v == mreq[p]
<1> DEFINE u == [[v EXCEPT !.lock = {v.key}] EXCEPT !.pc = "write"]
<1>1. v \in ReqRecords /\ v.pc = "owned"
  BY RequestRecords DEF MediaStrong, AdoptMediaValue, Busy
<1>2. u \in Remade(v, "write", v.attr, {v.key}, v.writes, v.hooks, v.keys, v.purged, v.retained, v.failed)
  BY <1>1 DEF ReqRecords, Remade
<1>3. mreq' = [mreq EXCEPT ![p] = u] /\ UNCHANGED <<mrow, blobs, leaked, minted, windows>>
  BY DEF AdoptMediaValue, MediaStrong, MediaTypeOK
<1>4. PICK w : w = u
  OBVIOUS
<1> HIDE DEF u
<1>5. /\ w.pc = "write" /\ w.kind = v.kind /\ w.key = v.key /\ w.lock = {v.key} /\ w.writes = v.writes /\ w.hooks = v.hooks
      /\ w.listed = v.listed /\ w.keys = v.keys /\ w.erased = v.erased /\ w.purged = v.purged
  BY <1>1, <1>2, <1>4, RemadeParts
<1>6. w \in ReqRecords
  <2>1. {v.key} \subseteq Keys
    BY <1>1, RequestFields
  <2> QED
    BY <1>1, <1>2, <1>4, <2>1, RemadeParts, RequestFields
<1>7. Shaped(v)
  BY DEF MediaStrong, RequestsShaped
<1>8. DOMAIN v.writes = {} /\ v.hooks = {} /\ v.keys = {} /\ v.purged = {} /\ v.kind = "adopt"
  BY <1>1, <1>7 DEF Shaped
<1>9. Shaped(w)
  BY <1>5, <1>8 DEF Shaped
<1>10. \A x : ~Uploads(w, x) /\ (Adopts(w, x) => x = v.key)
  BY <1>5, <1>8 DEF Uploads, Adopts
<1>11. \A x : Mentions(w, x) => Mentions(v, x)
  BY <1>1, <1>5, <1>8, <1>10 DEF Mentions
<1>12. "readopted" \notin windows => v.key \in blobs
  BY RefCounts DEF AdoptMediaValue, MediaStrong, LiveHasBlob, LiveRows
<1>13. StepsTo(p, w)
  BY <1>3, <1>4 DEF StepsTo, MediaStrong, MediaTypeOK, KeysMinted
<1>14. StepLocks(p, w)
  BY <1>5, <1>8 DEF StepLocks, AdoptMediaValue, KeyFree, Peers
<1>15. StepKeys(p, w)
  BY <1>3, <1>10, <1>11 DEF StepKeys, MediaStrong, KeysMinted
<1>16. StepBytes(p, w)
  BY <1>3, <1>5, <1>8, <1>10, <1>12 DEF StepBytes
<1>17. StepHooks(p, w)
  BY <1>5, <1>8 DEF StepHooks, Stages
<1>18. StepCovers(p, w)
  <2>1. \A x : ~AnswersFor(v, x)
    BY <1>1, <1>8 DEF AnswersFor, Uploads
  <2> QED
    BY <1>3, <1>5, <2>1 DEF StepCovers
<1> QED
  BY <1>6, <1>9, <1>13, <1>14, <1>15, <1>16, <1>17, <1>18, RequestStep

\* The first of some rows is one of them.
LEMMA FirstRow ==
  ASSUME NEW S, S \subseteq MediaRows, S # {}
  PROVE  First(S) \in S
<1>1. S \subseteq Nat
  BY MediaAssumption DEF MediaRows
<1>2. \E m \in S : \A n \in S : m <= n
  BY <1>1, LeastNumber
<1> QED
  BY <1>2 DEF First

\* The upsert: the overwritten key is collected, the new one was held back.
LEMMA SetMediaKeeps ==
  ASSUME MediaStrong, NEW p \in Requests, SetMedia(p)
  PROVE  MediaStrong'
<1> DEFINE v == mreq[p]
<1> DEFINE own == {x \in LiveRows(View(p)) : View(p)[x].cell = v.cell}
<1> DEFINE row == IF own = {} THEN First(Vacant) ELSE First(own)
<1> DEFINE k == v.key
<1> DEFINE same == own # {} /\ mrow[row].key = k
<1> DEFINE W == IF same THEN << >> ELSE Only(row, MRow("live", v.cell, k))
<1> DEFINE H == IF same \/ own = {} THEN {} ELSE Collection(row, mrow[row].key)
<1> DEFINE u == [[[v EXCEPT !.pc = "commit"] EXCEPT !.writes = W] EXCEPT !.hooks = H]
<1>1. v \in ReqRecords /\ v.pc = "write"
  BY RequestRecords DEF MediaStrong, SetMedia, Busy
<1>2. /\ own # {} \/ Vacant # {}
      /\ RowFree(p, row)
      /\ windows' = IF ~same /\ Readopts(row, k) THEN windows \cup {"readopted"} ELSE windows
      /\ UNCHANGED <<mrow, blobs, minted, leaked>>
  BY DEF SetMedia
<1>3. mreq' = [mreq EXCEPT ![p] = u]
  BY DEF SetMedia, MediaStrong, MediaTypeOK
<1>4. u \in Remade(v, "commit", v.attr, v.lock, W, H, v.keys, v.purged, v.retained, v.failed)
  <2> HIDE DEF W, H
  <2> QED
    BY <1>1 DEF ReqRecords, Remade
<1>5. Shaped(v) /\ \A x \in Keys : Mentions(v, x) => x \in minted
  BY DEF MediaStrong, RequestsShaped, KeysMinted
<1>6. DOMAIN v.writes = {} /\ v.hooks = {} /\ v.keys = {} /\ v.purged = {} /\ v.kind \in {"upload", "adopt"}
  BY <1>1, <1>5 DEF Shaped
<1>7. own = {x \in MediaRows : mrow[x].st = "live" /\ mrow[x].cell = v.cell}
  BY <1>6 DEF View, LiveRows
<1>8. row \in MediaRows /\ (own # {} => mrow[row].st = "live") /\ (own = {} => mrow[row].st = "none")
  <2>1. own \subseteq MediaRows /\ Vacant \subseteq MediaRows
    BY <1>7 DEF Vacant
  <2>2. own # {} => row \in own
    <3> HIDE DEF own
    <3> QED
      BY <2>1, FirstRow
  <2>3. own = {} => row \in Vacant
    <3> HIDE DEF own
    <3> QED
      BY <1>2, <2>1, FirstRow
  <2> QED
    BY <1>7, <2>1, <2>2, <2>3 DEF Vacant
<1> HIDE DEF own, row
<1>9. k \in Keys /\ v.cell \in Cells
  BY <1>1, RequestFields
<1>10. own # {} => mrow[row].key \in Keys
  BY <1>8 DEF MediaStrong, MediaTypeOK, MediaStates, NoMedia
<1>11. /\ W \in Staged
       /\ same => DOMAIN W = {}
       /\ ~same => DOMAIN W = {row} /\ W[row].st = "live" /\ W[row].key = k
  <2>1. CASE same
    BY <2>1, StagedMedia
  <2>2. CASE ~same
    <3>1. W = [x \in {row} |-> MRow("live", v.cell, k)] /\ {row} \in SUBSET MediaRows
      BY <1>8, <2>2 DEF Only
    <3>2. MRow("live", v.cell, k) \in MediaStates
      BY <1>9 DEF MRow, MediaStates
    <3>3. W \in [{row} -> MediaStates]
      BY <3>1, <3>2
    <3>4. W[row].st = "live" /\ W[row].key = k /\ DOMAIN W = {row}
      BY <3>1 DEF MRow
    <3> QED
      BY <2>2, <3>1, <3>3, <3>4, StagedMedia
  <2> QED
    BY <2>1, <2>2
<1>12. /\ H \subseteq Keys \X MediaRows
       /\ \A h \in H : own # {} /\ ~same /\ h[1] = mrow[row].key /\ h[2] = row
       /\ own # {} /\ ~same => <<mrow[row].key, row>> \in H
  BY <1>8, <1>10 DEF Collection
<1>13. PICK w : w = u
  OBVIOUS
<1>14. PICK ww, hh : ww = W /\ hh = H
  OBVIOUS
<1>15. PICK b \in BOOLEAN : b <=> same
  OBVIOUS
<1>16. b => own # {} /\ mrow[row].key = k
  BY <1>15
<1>17. ~b /\ own # {} => mrow[row].key # k
  BY <1>15
<1> HIDE DEF u, W, H, same
<1>18. /\ w.pc = "commit" /\ w.kind = v.kind /\ w.key = k /\ w.lock = v.lock /\ w.writes = ww /\ w.hooks = hh
       /\ w.listed = v.listed /\ w.keys = {} /\ w.erased = v.erased /\ w.purged = {}
  BY <1>1, <1>4, <1>6, <1>13, <1>14, RemadeParts
<1>19. w \in ReqRecords
  BY <1>1, <1>4, <1>11, <1>12, <1>13, RemadeParts, RequestFields
<1>20. /\ b => DOMAIN ww = {}
       /\ ~b => DOMAIN ww = {row} /\ ww[row].st = "live" /\ ww[row].key = k
       /\ \A h \in hh : own # {} /\ ~b /\ h[1] = mrow[row].key /\ h[2] = row
       /\ own # {} /\ ~b => <<mrow[row].key, row>> \in hh
  BY <1>11, <1>12, <1>14, <1>15
<1>21. \A x : (Uploads(w, x) <=> Uploads(v, x)) /\ (Adopts(w, x) <=> Adopts(v, x))
  BY <1>1, <1>18 DEF Uploads, Adopts
<1>22. v.kind = "upload" => ~b /\ (own # {} => mrow[row].key # k) /\ Uploads(v, k)
  <2> SUFFICES ASSUME v.kind = "upload" PROVE ~b /\ (own # {} => mrow[row].key # k) /\ Uploads(v, k)
    OBVIOUS
  <2>1. Uploads(v, k)
    BY <1>1 DEF Uploads
  <2>2. \A x \in MediaRows : mrow[x].st # "none" => mrow[x].key # k
    BY <1>9, <2>1 DEF MediaStrong, UploadsFresh
  <2> QED
    BY <1>8, <1>16, <2>1, <2>2
<1>23. \A x, y : Stages(w, x, y) => ~b /\ x = row /\ y = k
  BY <1>18, <1>20 DEF Stages
<1>24. v.kind = "adopt" => v.lock = {k}
  BY <1>1, <1>5 DEF Shaped
<1>25. Shaped(w)
  <2>1. \A h \in hh : h[2] \in DOMAIN ww /\ ~Stages(w, h[2], h[1])
    BY <1>17, <1>20, <1>23
  <2>2. \A x \in DOMAIN ww : ww[x].st = "live" => ww[x].key = k
    BY <1>20
  <2>3. v.kind = "upload" => \E x \in DOMAIN ww : Stages(w, x, k)
    BY <1>18, <1>20, <1>22 DEF Stages
  <2> QED
    BY <1>6, <1>18, <1>24, <2>1, <2>2, <2>3 DEF Shaped
<1>26. \A x : Mentions(w, x) => Mentions(v, x) \/ (own # {} /\ x = mrow[row].key)
  <2> SUFFICES ASSUME NEW x, Mentions(w, x) PROVE Mentions(v, x) \/ (own # {} /\ x = mrow[row].key)
    OBVIOUS
  <2>1. Uploads(v, k) \/ Adopts(v, k)
    BY <1>1, <1>6 DEF Uploads, Adopts
  <2>2. Mentions(v, k)
    BY <1>1, <2>1 DEF Mentions
  <2>3. CASE \E h \in hh : h[1] = x
    BY <1>20, <2>3
  <2>4. CASE \E y \in DOMAIN ww : ww[y].st # "none" /\ ww[y].key = x
    <3>1. x = k
      BY <1>20, <2>4
    <3> QED
      BY <2>2, <3>1
  <2>5. CASE \E y \in DOMAIN w.listed : w.listed[y].st # "none" /\ w.listed[y].key = x
    BY <1>1, <1>18, <2>5 DEF Mentions
  <2>6. CASE Uploads(w, x) \/ Adopts(w, x)
    BY <1>1, <1>21, <2>6 DEF Mentions
  <2> QED
    BY <1>18, <2>3, <2>4, <2>5, <2>6 DEF Mentions
<1>27. StepsTo(p, w)
  BY <1>2, <1>3, <1>13 DEF StepsTo, MediaStrong, MediaTypeOK, KeysMinted
<1>28. StepLocks(p, w)
  <2>1. \A q \in Requests : q # p /\ Busy(q) => v.lock \cap mreq[q].lock = {}
    BY <1>1 DEF MediaStrong, LocksApart, Busy
  <2>2. \A q \in Requests : q # p /\ Busy(q) => row \notin DOMAIN mreq[q].writes
    BY <1>2 DEF RowFree, Peers
  <2> QED
    BY <1>18, <1>20, <2>1, <2>2 DEF StepLocks
<1>29. StepKeys(p, w)
  <2>1. \A x \in Keys : Mentions(w, x) => x \in minted' /\ (Mentions(v, x) \/ \E r \in MediaRows : mrow[r].st # "none" /\ mrow[r].key = x)
    BY <1>2, <1>5, <1>8, <1>26 DEF MediaStrong, KeysMinted
  <2>2. \A x \in Keys : Uploads(w, x) => Uploads(v, x) /\ \A h \in w.hooks : h[1] # x
    BY <1>18, <1>20, <1>21, <1>22 DEF Uploads
  <2> QED
    BY <2>1, <2>2 DEF StepKeys
<1>30. StepBytes(p, w)
  <2>1. windows \subseteq windows'
    BY <1>2
  <2>2. \A x \in Keys : (Uploads(v, x) => x \in blobs) /\ (Adopts(v, x) /\ "readopted" \notin windows => x \in blobs)
    BY <1>1 DEF MediaStrong, BytesThere
  <2> QED
    BY <1>2, <1>18, <1>21, <2>1, <2>2 DEF StepBytes
<1>31. StepHooks(p, w)
  <2> SUFFICES ASSUME "readopted" \notin windows'
               PROVE  /\ \A h \in w.hooks : \A q \in Requests : q # p => ~Stages(mreq[q], h[2], h[1])
                      /\ \A q \in Requests : q # p /\ Busy(q) => \A h \in mreq[q].hooks : ~Stages(w, h[2], h[1])
    BY <1>18 DEF StepHooks
  <2>1. \A q \in Requests : q # p /\ Busy(q) => row \notin DOMAIN mreq[q].writes
    BY <1>2 DEF RowFree, Peers
  <2>2. \A h \in w.hooks : \A q \in Requests : q # p => ~Stages(mreq[q], h[2], h[1])
    BY <1>18, <1>20, <2>1 DEF Stages, Busy
  <2>3. ASSUME NEW q \in Requests, q # p, Busy(q), NEW h \in mreq[q].hooks, Stages(w, h[2], h[1]) PROVE FALSE
    <3>1. h[2] = row /\ h[1] = k /\ ~b
      BY <1>23, <2>3
    <3>2. mreq[q].hooks \subseteq Keys \X MediaRows
      BY <2>3, RequestRecords, RequestFields DEF MediaStrong
    <3>3. h = <<k, row>>
      BY <3>1, <3>2
    <3>4. Readopts(row, k)
      BY <2>3, <3>3 DEF Readopts
    <3> QED
      BY <1>2, <1>15, <3>1, <3>4
  <2> QED
    BY <2>2, <2>3
<1>32. StepCovers(p, w)
  <2>1. \A x \in DOMAIN w.writes : mrow[x].st = "live" => <<mrow[x].key, x>> \in w.hooks
    BY <1>8, <1>18, <1>20
  <2>2. \A x : AnswersFor(v, x) => AnswersFor(w, x)
    BY <1>1, <1>21 DEF AnswersFor
  <2> QED
    BY <1>2, <2>1, <2>2 DEF StepCovers
<1> QED
  BY <1>19, <1>25, <1>27, <1>28, <1>29, <1>30, <1>31, <1>32, RequestStep

\* A removal archives a live row and collects its key.
LEMMA RemoveValueKeeps ==
  ASSUME MediaStrong, NEW p \in Requests, NEW r \in MediaRows, RemoveValue(p, r)
  PROVE  MediaStrong'
<1> DEFINE k == mrow[r].key
<1> DEFINE W == Only(r, [mrow[r] EXCEPT !.st = "archived"])
<1> DEFINE u == [Req("remove", "commit", mrow[r].cell, k) EXCEPT !.writes = W, !.hooks = Collection(r, k)]
<1>1. mrow[r] \in [st : {"live", "archived"}, cell : Cells, key : Keys] /\ mrow[r].st = "live"
  BY DEF RemoveValue, MediaStrong, MediaTypeOK, MediaStates, NoMedia
<1>2. mreq[p] = IdleReq
  BY RequestRecords DEF MediaStrong, RemoveValue
<1>3. /\ mreq' = [mreq EXCEPT ![p] = u] /\ RowFree(p, r)
      /\ UNCHANGED <<mrow, blobs, minted, leaked, windows>>
  BY DEF RemoveValue
<1>4. W \in Staged /\ DOMAIN W = {r} /\ W[r].st = "archived" /\ W[r].key = k
  <2>1. W = [x \in {r} |-> [mrow[r] EXCEPT !.st = "archived"]] /\ {r} \in SUBSET MediaRows
    BY DEF Only
  <2>2. [mrow[r] EXCEPT !.st = "archived"] \in [st : {"archived"}, cell : Cells, key : {k}]
    BY <1>1
  <2>3. [mrow[r] EXCEPT !.st = "archived"] \in MediaStates
    BY <1>1 DEF MediaStates
  <2>4. W \in [{r} -> MediaStates] /\ W[r] = [mrow[r] EXCEPT !.st = "archived"] /\ DOMAIN W = {r}
    BY <2>1, <2>3
  <2> QED
    BY <2>1, <2>2, <2>4, StagedMedia
<1>5. PICK ww : ww = W
  OBVIOUS
<1> HIDE DEF W
<1>6. u \in [pc : {"commit"}, kind : {"remove"}, cell : {mrow[r].cell}, key : {k}, attr : {{}}, lock : {{}}, writes : {ww},
             hooks : {{<<k, r>>}}, listed : {<< >>}, keys : {{}}, erased : {{}}, purged : {{}}, retained : {{}}, failed : {{}}]
  BY <1>5 DEF Req, Collection
<1>7. PICK w : w = u
  OBVIOUS
<1> HIDE DEF u
<1>8. /\ w.pc = "commit" /\ w.kind = "remove" /\ w.lock = {} /\ w.writes = ww /\ w.hooks = {<<k, r>>}
      /\ w.listed = << >> /\ w.keys = {} /\ w.erased = {} /\ w.purged = {}
  BY <1>6, <1>7
<1>9. w \in ReqRecords
  <2>1. << >> \in Staged /\ ww \in Staged /\ mrow[r].cell \in Cells /\ k \in Keys /\ {<<k, r>>} \subseteq Keys \X MediaRows
    BY <1>1, <1>4, <1>5, StagedMedia
  <2> QED
    BY <1>6, <1>7, <2>1 DEF ReqRecords
<1>10. DOMAIN ww = {r} /\ ww[r].st = "archived" /\ ww[r].key = k /\ DOMAIN w.listed = {}
  BY <1>4, <1>5, <1>8, StagedMedia
<1>11. \A x, y : ~Stages(w, x, y)
  BY <1>8, <1>10 DEF Stages
<1>12. Shaped(w)
  BY <1>8, <1>10, <1>11 DEF Shaped
<1>13. \A x : ~Uploads(w, x) /\ ~Adopts(w, x) /\ (Mentions(w, x) => x = k)
  BY <1>8, <1>10 DEF Uploads, Adopts, Mentions
<1>14. StepsTo(p, w)
  BY <1>3, <1>7 DEF StepsTo, MediaStrong, MediaTypeOK, KeysMinted
<1>15. \A q \in Requests : q # p /\ Busy(q) => r \notin DOMAIN mreq[q].writes
  BY <1>3 DEF RowFree, Peers
<1>16. StepLocks(p, w)
  BY <1>8, <1>10, <1>15 DEF StepLocks
<1>17. StepKeys(p, w)
  BY <1>1, <1>3, <1>13 DEF StepKeys, MediaStrong, KeysMinted
<1>18. StepBytes(p, w)
  BY <1>3, <1>8, <1>13 DEF StepBytes
<1>19. StepHooks(p, w)
  BY <1>8, <1>11, <1>15 DEF StepHooks, Stages, Busy
<1>20. StepCovers(p, w)
  BY <1>2, <1>3, <1>8, <1>10, IdleFacts DEF StepCovers
<1> QED
  BY <1>9, <1>12, <1>14, <1>16, <1>17, <1>18, <1>19, <1>20, RequestStep

\* The listing of an entity holds copies of live rows.
LEMMA ListEntityKeeps ==
  ASSUME MediaStrong, NEW p \in Requests, NEW c \in Cells, ListEntity(p, c)
  PROVE  MediaStrong'
<1> DEFINE S == {r \in RowsOf(mrow, EntityOf[c]) : mrow[r].st = "live"}
<1> DEFINE L == [r \in S |-> mrow[r]]
<1> DEFINE u == [Req("removeEntity", "save", c, mrow[First(S)].key) EXCEPT !.listed = L]
<1>1. S \subseteq MediaRows /\ S # {} /\ \A r \in S : mrow[r].st = "live"
  BY DEF ListEntity, RowsOf
<1>2. mreq[p] = IdleReq
  BY RequestRecords DEF MediaStrong, ListEntity
<1>3. mreq' = [mreq EXCEPT ![p] = u] /\ UNCHANGED <<mrow, blobs, minted, leaked, windows>>
  BY DEF ListEntity
<1> HIDE DEF S
<1>4. L \in Staged /\ DOMAIN L = S /\ \A r \in S : L[r] = mrow[r]
  <2>1. L \in [S -> MediaStates]
    BY <1>1 DEF MediaStrong, MediaTypeOK
  <2> QED
    BY <1>1, <2>1, StagedMedia
<1>5. PICK key \in Keys : key = mrow[First(S)].key
  <2>1. First(S) \in S
    BY <1>1, FirstRow
  <2> QED
    BY <1>1, <2>1 DEF MediaStrong, MediaTypeOK, MediaStates, NoMedia
<1>6. PICK ll : ll = L
  OBVIOUS
<1> HIDE DEF L
<1>7. u \in [pc : {"save"}, kind : {"removeEntity"}, cell : {c}, key : {key}, attr : {{}}, lock : {{}}, writes : {<< >>},
             hooks : {{}}, listed : {ll}, keys : {{}}, erased : {{}}, purged : {{}}, retained : {{}}, failed : {{}}]
  BY <1>5, <1>6 DEF Req
<1>8. PICK w : w = u
  OBVIOUS
<1> HIDE DEF u
<1>9. /\ w.pc = "save" /\ w.kind = "removeEntity" /\ w.lock = {} /\ w.writes = << >> /\ w.hooks = {}
      /\ w.listed = ll /\ w.keys = {} /\ w.erased = {} /\ w.purged = {}
  BY <1>7, <1>8
<1>10. w \in ReqRecords
  <2>1. << >> \in Staged /\ ll \in Staged
    BY <1>4, <1>6, StagedMedia
  <2> QED
    BY <1>7, <1>8, <2>1 DEF ReqRecords
<1>11. DOMAIN w.writes = {} /\ DOMAIN ll = S /\ \A r \in S : ll[r] = mrow[r]
  BY <1>4, <1>6, <1>9, StagedMedia
<1>12. Shaped(w)
  BY <1>1, <1>9, <1>11 DEF Shaped
<1>13. \A x : ~Uploads(w, x) /\ ~Adopts(w, x) /\ (Mentions(w, x) => \E r \in S : mrow[r].key = x)
  BY <1>9, <1>11 DEF Uploads, Adopts, Mentions
<1>14. StepsTo(p, w)
  BY <1>3, <1>8 DEF StepsTo, MediaStrong, MediaTypeOK, KeysMinted
<1>15. StepLocks(p, w)
  BY <1>9, <1>11 DEF StepLocks
<1>16. StepKeys(p, w)
  BY <1>1, <1>3, <1>13 DEF StepKeys, MediaStrong, KeysMinted
<1>17. StepBytes(p, w)
  BY <1>3, <1>9, <1>13 DEF StepBytes
<1>18. StepHooks(p, w) /\ StepCovers(p, w)
  BY <1>2, <1>3, <1>9, IdleFacts DEF StepHooks, StepCovers, Stages
<1> QED
  BY <1>10, <1>12, <1>14, <1>15, <1>16, <1>17, <1>18, RequestStep

\* The save writes the listed rows back as archived and collects their keys.
LEMMA SaveListedKeeps ==
  ASSUME MediaStrong, NEW p \in Requests, SaveListed(p)
  PROVE  MediaStrong'
<1> DEFINE v == mreq[p]
<1> DEFINE L == v.listed
<1> DEFINE W == [r \in DOMAIN L |-> [L[r] EXCEPT !.st = "archived"]]
<1> DEFINE H == UNION {Collection(r, L[r].key) : r \in DOMAIN L}
<1> DEFINE u == [[[v EXCEPT !.pc = "commit"] EXCEPT !.writes = W] EXCEPT !.hooks = H]
<1>1. v \in ReqRecords /\ v.pc = "save"
  BY RequestRecords DEF MediaStrong, SaveListed, Busy
<1>2. /\ \A r \in DOMAIN L : RowFree(p, r)
      /\ windows' = IF \E r \in DOMAIN L : mrow[r] # L[r] THEN windows \cup {"stale"} ELSE windows
      /\ UNCHANGED <<mrow, blobs, minted, leaked>>
  BY DEF SaveListed
<1>3. mreq' = [mreq EXCEPT ![p] = u]
  BY DEF SaveListed, MediaStrong, MediaTypeOK
<1>4. u \in Remade(v, "commit", v.attr, v.lock, W, H, v.keys, v.purged, v.retained, v.failed)
  <2> HIDE DEF W, H
  <2> QED
    BY <1>1 DEF ReqRecords, Remade
<1>5. Shaped(v) /\ \A x \in Keys : Mentions(v, x) => x \in minted
  BY DEF MediaStrong, RequestsShaped, KeysMinted
<1>6. /\ DOMAIN v.writes = {} /\ v.hooks = {} /\ v.keys = {} /\ v.purged = {} /\ v.kind = "removeEntity"
      /\ \A r \in DOMAIN L : L[r].st = "live"
  BY <1>1, <1>5 DEF Shaped
<1>7. DOMAIN L \subseteq MediaRows /\ \A r \in DOMAIN L : L[r] \in [st : {"live", "archived"}, cell : Cells, key : Keys]
  <2>1. L \in Staged
    BY <1>1, RequestFields
  <2>2. DOMAIN L \subseteq MediaRows /\ \A r \in DOMAIN L : L[r] \in MediaStates
    BY <2>1, StagedMedia
  <2> QED
    BY <1>6, <2>2 DEF MediaStates, NoMedia
<1>8. PICK T : T = DOMAIN L
  OBVIOUS
<1>9. W \in Staged /\ DOMAIN W = T /\ \A r \in T : W[r].st = "archived" /\ W[r].key = L[r].key
  <2>1. \A r \in T : [L[r] EXCEPT !.st = "archived"] \in [st : {"archived"}, cell : Cells, key : {L[r].key}]
    BY <1>7, <1>8
  <2>2. \A r \in T : [L[r] EXCEPT !.st = "archived"] \in MediaStates
    BY <1>7, <1>8 DEF MediaStates
  <2>3. W \in [T -> MediaStates] /\ DOMAIN W = T /\ \A r \in T : W[r] = [L[r] EXCEPT !.st = "archived"]
    BY <1>8, <2>2
  <2> QED
    BY <1>7, <1>8, <2>1, <2>3, StagedMedia
<1>10. \A h : h \in H <=> \E r \in T : h = <<L[r].key, r>>
  BY <1>8 DEF Collection
<1>11. H \subseteq Keys \X MediaRows
  BY <1>7, <1>8, <1>10
<1>12. PICK w, ww, hh : w = u /\ ww = W /\ hh = H
  OBVIOUS
<1> HIDE DEF u, W, H
<1>13. /\ w.pc = "commit" /\ w.kind = "removeEntity" /\ w.lock = v.lock /\ w.writes = ww /\ w.hooks = hh
       /\ w.listed = L /\ w.keys = {} /\ w.erased = v.erased /\ w.purged = {}
  BY <1>1, <1>4, <1>6, <1>12, RemadeParts
<1>14. w \in ReqRecords
  BY <1>1, <1>4, <1>9, <1>11, <1>12, RemadeParts, RequestFields
<1>15. \A x, y : ~Stages(w, x, y)
  BY <1>9, <1>12, <1>13 DEF Stages
<1>16. \A h \in hh : h[2] \in T /\ \E r \in T : h[1] = L[r].key
  BY <1>10, <1>12
<1>17. Shaped(w)
  BY <1>9, <1>12, <1>13, <1>15, <1>16 DEF Shaped
<1>18. \A x : ~Uploads(w, x) /\ ~Adopts(w, x)
  BY <1>13 DEF Uploads, Adopts
<1>19. \A x : Mentions(w, x) => Mentions(v, x)
  <2> SUFFICES ASSUME NEW x, Mentions(w, x) PROVE Mentions(v, x)
    OBVIOUS
  <2>1. \E r \in T : L[r].key = x
    BY <1>8, <1>9, <1>12, <1>13, <1>16, <1>18 DEF Mentions
  <2> QED
    BY <1>1, <1>6, <1>8, <2>1 DEF Mentions
<1>20. StepsTo(p, w)
  BY <1>2, <1>3, <1>12 DEF StepsTo, MediaStrong, MediaTypeOK, KeysMinted
<1>21. \A q \in Requests : q # p /\ Busy(q) => \A r \in T : r \notin DOMAIN mreq[q].writes
  BY <1>2, <1>8 DEF RowFree, Peers
<1>22. StepLocks(p, w)
  <2>1. \A q \in Requests : q # p /\ Busy(q) => v.lock \cap mreq[q].lock = {}
    BY <1>1 DEF MediaStrong, LocksApart, Busy
  <2> QED
    BY <1>9, <1>12, <1>13, <1>21, <2>1 DEF StepLocks
<1>23. StepKeys(p, w)
  BY <1>2, <1>5, <1>18, <1>19 DEF StepKeys
<1>24. StepBytes(p, w)
  BY <1>2, <1>13, <1>18 DEF StepBytes
<1>25. StepHooks(p, w)
  BY <1>13, <1>15, <1>16, <1>21 DEF StepHooks, Stages, Busy
<1>26. StepCovers(p, w)
  <2>1. \A x : ~AnswersFor(v, x)
    BY <1>1, <1>6 DEF AnswersFor, Uploads
  <2>2. windows' = {} => \A r \in T : mrow[r] = L[r]
    BY <1>2, <1>8
  <2>3. windows' = {} => \A r \in T : <<mrow[r].key, r>> \in hh
    BY <1>10, <1>12, <2>2
  <2> QED
    BY <1>2, <1>9, <1>12, <1>13, <2>1, <2>3 DEF StepCovers
<1> QED
  BY <1>14, <1>17, <1>20, <1>22, <1>23, <1>24, <1>25, <1>26, RequestStep

\* An erasure stages the deletion of every row and keeps their keys.
LEMMA PurgeEntityKeeps ==
  ASSUME MediaStrong, NEW p \in Requests, NEW c \in Cells, PurgeEntity(p, c)
  PROVE  MediaStrong'
<1> DEFINE S == RowsOf(mrow, EntityOf[c])
<1> DEFINE W == [r \in S |-> NoMedia]
<1> DEFINE K == {mrow[r].key : r \in S}
<1> DEFINE u == [Req("purge", "commit", c, mrow[First(S)].key) EXCEPT !.writes = W, !.keys = K, !.erased = K]
<1>1. S \subseteq MediaRows /\ S # {} /\ \A r \in S : mrow[r].st # "none"
  BY DEF PurgeEntity, RowsOf
<1>2. mreq[p] = IdleReq
  BY RequestRecords DEF MediaStrong, PurgeEntity
<1>3. /\ mreq' = [mreq EXCEPT ![p] = u] /\ UNCHANGED <<mrow, blobs, minted, leaked, windows>>
      /\ \A r \in S : RowFree(p, r)
  BY DEF PurgeEntity
<1> HIDE DEF S
<1>4. W \in Staged /\ DOMAIN W = S /\ \A r \in S : W[r] = NoMedia
  <2>1. W \in [S -> MediaStates]
    BY DEF MediaStates
  <2> QED
    BY <1>1, <2>1, StagedMedia
<1>5. \A r \in S : mrow[r].key \in Keys
  BY <1>1 DEF MediaStrong, MediaTypeOK, MediaStates, NoMedia
<1>6. PICK key \in Keys : key = mrow[First(S)].key
  <2>1. First(S) \in S
    BY <1>1, FirstRow
  <2> QED
    BY <1>5, <2>1
<1>7. K \subseteq Keys /\ \A x : x \in K <=> \E r \in S : mrow[r].key = x
  BY <1>5
<1>8. PICK ww, kk : ww = W /\ kk = K
  OBVIOUS
<1> HIDE DEF W, K
<1>9. u \in [pc : {"commit"}, kind : {"purge"}, cell : {c}, key : {key}, attr : {{}}, lock : {{}}, writes : {ww},
             hooks : {{}}, listed : {<< >>}, keys : {kk}, erased : {kk}, purged : {{}}, retained : {{}}, failed : {{}}]
  BY <1>6, <1>8 DEF Req
<1>10. PICK w : w = u
  OBVIOUS
<1> HIDE DEF u
<1>11. /\ w.pc = "commit" /\ w.kind = "purge" /\ w.lock = {} /\ w.writes = ww /\ w.hooks = {}
       /\ w.listed = << >> /\ w.keys = kk /\ w.erased = kk /\ w.purged = {}
  BY <1>9, <1>10
<1>12. w \in ReqRecords
  <2>1. << >> \in Staged /\ ww \in Staged /\ kk \subseteq Keys
    BY <1>4, <1>7, <1>8, StagedMedia
  <2> QED
    BY <1>9, <1>10, <2>1 DEF ReqRecords
<1>13. DOMAIN w.listed = {} /\ DOMAIN ww = S /\ \A r \in S : ww[r].st = "none"
  BY <1>4, <1>8, <1>11, StagedMedia DEF NoMedia
<1>14. \A x, y : ~Stages(w, x, y)
  BY <1>11, <1>13 DEF Stages
<1>15. Shaped(w)
  BY <1>11, <1>13, <1>14 DEF Shaped
<1>16. \A x : ~Uploads(w, x) /\ ~Adopts(w, x) /\ (Mentions(w, x) => \E r \in S : mrow[r].key = x)
  BY <1>7, <1>8, <1>11, <1>13 DEF Uploads, Adopts, Mentions
<1>17. StepsTo(p, w)
  BY <1>3, <1>10 DEF StepsTo, MediaStrong, MediaTypeOK, KeysMinted
<1>18. StepLocks(p, w)
  BY <1>3, <1>11, <1>13 DEF StepLocks, RowFree, Peers
<1>19. StepKeys(p, w)
  BY <1>1, <1>3, <1>16 DEF StepKeys, MediaStrong, KeysMinted
<1>20. StepBytes(p, w)
  BY <1>3, <1>11, <1>16 DEF StepBytes
<1>21. StepHooks(p, w)
  BY <1>11, <1>14 DEF StepHooks
<1>22. StepCovers(p, w)
  BY <1>2, <1>3, <1>7, <1>8, <1>11, <1>13, IdleFacts DEF StepCovers
<1> QED
  BY <1>12, <1>15, <1>17, <1>18, <1>19, <1>20, <1>21, <1>22, RequestStep

\* A request that ends leaves its bytes accounted for.
LEMMA RequestEnds ==
  ASSUME MediaStrong, NEW p \in Requests, mreq' = Idle(p), mrow' = mrow, minted' = minted, windows' = windows,
         blobs' \subseteq blobs, leaked \subseteq leaked',
         \A k \in blobs \ blobs' : /\ \A q \in Requests : q # p => ~Uploads(mreq[q], k) /\ ~Adopts(mreq[q], k)
                                  /\ \A r \in MediaRows : ~ (mrow[r].st = "live" /\ mrow[r].key = k),
         \A k \in blobs' : AnswersFor(mreq[p], k) => k \in leaked'
  PROVE  MediaStrong'
<1>1. PICK w : w = IdleReq
  OBVIOUS
<1>2. /\ w.pc = "idle" /\ Shaped(w)
      /\ \A k : ~Mentions(w, k) /\ ~Uploads(w, k) /\ ~Adopts(w, k)
      /\ \A r, k : ~Stages(w, r, k)
  BY <1>1, IdleFacts
<1>3. StepsTo(p, w)
  BY <1>1 DEF StepsTo, MediaStrong, MediaTypeOK, KeysMinted, Idle
<1>4. StepLocks(p, w) /\ StepKeys(p, w)
  BY <1>2 DEF StepLocks, StepKeys
<1>5. StepBytes(p, w)
  BY <1>2 DEF StepBytes
<1>6. StepHooks(p, w)
  BY <1>2 DEF StepHooks
<1>7. StepCovers(p, w)
  BY <1>2 DEF StepCovers
<1> QED
  BY <1>1, <1>2, <1>3, <1>4, <1>5, <1>6, <1>7, RequestStep

\* Ends without touching the store.
LEMMA RefuseMediaKeeps ==
  ASSUME MediaStrong, NEW p \in Requests, RefuseMedia(p)
  PROVE  MediaStrong'
<1> DEFINE v == mreq[p]
<1>1. v \in ReqRecords /\ v.pc \in {"set", "owned", "write", "commit", "save"}
  BY RequestRecords DEF MediaStrong, RefuseMedia, Busy
<1>2. UNCHANGED <<mrow, blobs, leaked, minted, windows>>
  BY DEF RefuseMedia
<1>3. Shaped(v) /\ \A x \in Keys : Mentions(v, x) => x \in minted
  BY DEF MediaStrong, RequestsShaped, KeysMinted
<1>4. CASE v.kind = "upload"
  <2>1. PICK w : w = Req("upload", "orphan", v.cell, v.key)
    OBVIOUS
  <2>2. /\ w \in ReqRecords /\ w.pc = "orphan" /\ w.kind = "upload" /\ w.key = v.key /\ w.lock = {} /\ w.hooks = {} /\ w.keys = {}
        /\ w.purged = {} /\ DOMAIN w.writes = {} /\ DOMAIN w.listed = {}
    BY <1>1, <2>1, RequestFields, NewRequest
  <2>3. mreq' = [mreq EXCEPT ![p] = w]
    BY <1>4, <2>1 DEF RefuseMedia
  <2>4. v.pc \in {"set", "write", "commit"}
    BY <1>1, <1>3, <1>4 DEF Shaped
  <2>5. Shaped(w)
    BY <2>2 DEF Shaped
  <2>6. \A x : (Uploads(w, x) <=> x = v.key) /\ (Uploads(v, x) <=> x = v.key) /\ ~Adopts(w, x) /\ (Mentions(w, x) => x = v.key)
    BY <1>4, <2>2, <2>4 DEF Uploads, Adopts, Mentions
  <2>7. Mentions(v, v.key)
    BY <2>4, <2>6 DEF Mentions
  <2>8. \A x : AnswersFor(v, x) => AnswersFor(w, x)
    BY <2>4, <2>6 DEF AnswersFor
  <2>9. StepsTo(p, w)
    BY <1>2, <2>3 DEF StepsTo, MediaStrong, MediaTypeOK, KeysMinted
  <2>10. StepLocks(p, w)
    BY <2>2 DEF StepLocks
  <2>11. StepKeys(p, w)
    BY <1>2, <1>3, <2>2, <2>6, <2>7 DEF StepKeys
  <2>12. StepBytes(p, w)
    BY <1>2, <2>2, <2>6 DEF StepBytes
  <2>13. StepHooks(p, w) /\ StepCovers(p, w)
    BY <1>2, <2>2, <2>8 DEF StepHooks, StepCovers, Stages
  <2> QED
    BY <2>2, <2>5, <2>9, <2>10, <2>11, <2>12, <2>13, RequestStep
<1>5. CASE v.kind # "upload"
  <2>1. \A x : ~AnswersFor(v, x)
    BY <1>1, <1>5 DEF AnswersFor, Uploads
  <2>2. mreq' = Idle(p)
    BY <1>5 DEF RefuseMedia
  <2> QED
    BY <1>2, <2>1, <2>2, RequestEnds
<1> QED
  BY <1>4, <1>5

\* Nobody else knows the key of a refused upload.
LEMMA DeleteOrphanedUploadKeeps ==
  ASSUME MediaStrong, NEW p \in Requests, DeleteOrphanedUpload(p)
  PROVE  MediaStrong'
<1> DEFINE v == mreq[p]
<1>1. v \in ReqRecords /\ v.pc = "orphan"
  BY RequestRecords DEF MediaStrong, DeleteOrphanedUpload, Busy
<1>2. mreq' = Idle(p) /\ UNCHANGED <<mrow, minted, windows>>
  BY DEF DeleteOrphanedUpload
<1>3. v.key \in Keys /\ Shaped(v)
  BY <1>1, RequestFields DEF MediaStrong, RequestsShaped
<1>4. /\ blobs' \subseteq blobs /\ leaked \subseteq leaked'
      /\ \A k \in blobs \ blobs' : k = v.key
      /\ v.key \in blobs' => v.key \in leaked'
  BY DEF DeleteOrphanedUpload, Deletes, DeleteFails
<1>5. \A x : AnswersFor(v, x) => x = v.key
  BY <1>1 DEF AnswersFor, Uploads
<1>6. ASSUME NEW k \in blobs \ blobs'
      PROVE  /\ \A q \in Requests : q # p => ~Uploads(mreq[q], k) /\ ~Adopts(mreq[q], k)
             /\ \A r \in MediaRows : ~ (mrow[r].st = "live" /\ mrow[r].key = k)
  <2>1. k = v.key /\ k \in Keys
    BY <1>3, <1>4
  <2>2. v.kind = "upload" \/ v.kind # "upload"
    OBVIOUS
  <2>3. CASE v.kind = "upload"
    <3>1. Uploads(v, k)
      BY <1>1, <2>1, <2>3 DEF Uploads
    <3>2. /\ \A r \in MediaRows : mrow[r].st # "none" => mrow[r].key # k
          /\ \A q \in Requests : q # p => ~Mentions(mreq[q], k)
      BY <2>1, <3>1 DEF MediaStrong, UploadsFresh
    <3>3. \A q \in Requests : Uploads(mreq[q], k) \/ Adopts(mreq[q], k) => Mentions(mreq[q], k)
      BY DEF Mentions, Uploads, Adopts
    <3> QED
      BY <3>2, <3>3
  <2>4. CASE v.kind # "upload"
    BY <1>1, <1>3, <2>4 DEF Shaped
  <2> QED
    BY <2>2, <2>3, <2>4
<1> QED
  BY <1>2, <1>4, <1>5, <1>6, RequestEnds

\* A request that ended, or died.
LEMMA HooksDoneKeeps ==
  ASSUME MediaStrong, NEW p \in Requests, HooksDone(p) \/ AnswerPurge(p)
  PROVE  MediaStrong'
<1>1. mreq' = Idle(p) /\ UNCHANGED <<mrow, blobs, leaked, minted, windows>>
  BY DEF HooksDone, AnswerPurge
<1>2. \A x : ~AnswersFor(mreq[p], x)
  BY DEF HooksDone, AnswerPurge, AnswersFor, Uploads
<1> QED
  BY <1>1, <1>2, RequestEnds

\* A crash drops the request; what it had yet to collect is counted as leaked.
LEMMA CrashMediaKeeps ==
  ASSUME MediaStrong, NEW p \in Requests, CrashMedia(p)
  PROVE  MediaStrong'
<1> DEFINE v == mreq[p]
<1>1. mreq' = Idle(p) /\ UNCHANGED <<mrow, blobs, minted, windows>> /\ leaked \subseteq leaked'
  BY DEF CrashMedia
<1>2. v.pc = "hooks" => \A h \in v.hooks : h[1] \in leaked'
  BY DEF CrashMedia
<1>3. ASSUME v.pc \in {"count", "collect"} PROVE v.keys \subseteq leaked'
  <2>1. v.pc # "hooks" /\ v.kind # "upload"
    BY <1>3 DEF MediaStrong, RequestsShaped, Shaped
  <2> QED
    BY <1>3, <2>1 DEF CrashMedia
<1>4. ASSUME v.pc \in {"set", "write", "commit", "orphan"}, v.kind = "upload" PROVE v.key \in leaked'
  <2>1. v.pc # "hooks" /\ v.pc \notin {"count", "collect"}
    BY <1>4
  <2>2. leaked' = leaked \cup {v.key}
    BY <1>4, <2>1 DEF CrashMedia
  <2> QED
    BY <2>2
<1>5. \A x : AnswersFor(v, x) => x \in leaked'
  BY <1>2, <1>3, <1>4 DEF AnswersFor, Uploads
<1> QED
  BY <1>1, <1>5, RequestEnds

\* Under the lock of a key one has mentioned, nobody uploads or adopts it.
LEMMA LockedDeletion ==
  ASSUME MediaStrong, NEW p \in Requests, Busy(p), NEW k \in Keys, k \in mreq[p].lock, Mentions(mreq[p], k)
  PROVE  \A q \in Requests : q # p => ~Uploads(mreq[q], k) /\ ~Adopts(mreq[q], k)
<1> SUFFICES ASSUME NEW q \in Requests, q # p PROVE ~Uploads(mreq[q], k) /\ ~Adopts(mreq[q], k)
  OBVIOUS
<1>1. ~Uploads(mreq[q], k)
  BY DEF MediaStrong, UploadsFresh
<1>2. ASSUME Adopts(mreq[q], k) PROVE FALSE
  <2>1. mreq[q].lock = {k} /\ Busy(q)
    BY <1>2 DEF MediaStrong, RequestsShaped, Shaped, Adopts, Busy
  <2> QED
    BY <2>1 DEF MediaStrong, LocksApart
<1> QED
  BY <1>1, <1>2

\* A collection takes the lock of a free key.
LEMMA HookLockKeeps ==
  ASSUME MediaStrong, NEW p \in Requests, NEW h \in mreq[p].hooks, HookLock(p, h)
  PROVE  MediaStrong'
<1> DEFINE v == mreq[p]
<1> DEFINE u == [v EXCEPT !.lock = {h[1]}]
<1>1. v \in ReqRecords /\ v.pc = "hooks"
  BY RequestRecords DEF MediaStrong, HookLock, Busy
<1>2. u \in Remade(v, v.pc, v.attr, {h[1]}, v.writes, v.hooks, v.keys, v.purged, v.retained, v.failed)
  BY <1>1 DEF ReqRecords, Remade
<1>3. mreq' = [mreq EXCEPT ![p] = u] /\ UNCHANGED <<mrow, blobs, leaked, minted, windows>> /\ KeyFree(p, h[1])
  BY DEF HookLock, MediaStrong, MediaTypeOK
<1>4. PICK w : w = u
  OBVIOUS
<1> HIDE DEF u
<1>5. /\ w.pc = "hooks" /\ w.kind = v.kind /\ w.key = v.key /\ w.lock = {h[1]} /\ w.writes = v.writes /\ w.hooks = v.hooks
      /\ w.listed = v.listed /\ w.keys = v.keys /\ w.erased = v.erased /\ w.purged = v.purged
  BY <1>1, <1>2, <1>4, RemadeParts
<1>6. w \in ReqRecords
  <2>1. {h[1]} \subseteq Keys
    BY <1>1, RequestFields
  <2> QED
    BY <1>1, <1>2, <1>4, <2>1, RemadeParts, RequestFields
<1>7. Shaped(v) /\ \A x \in Keys : Mentions(v, x) => x \in minted
  BY DEF MediaStrong, RequestsShaped, KeysMinted
<1>8. DOMAIN v.writes = {} /\ v.keys = {} /\ v.purged = {} /\ v.kind # "purge"
  BY <1>1, <1>7 DEF Shaped
<1>9. Shaped(w)
  BY <1>5, <1>8 DEF Shaped
<1>10. \A x : ~Uploads(w, x) /\ ~Adopts(w, x) /\ (Mentions(w, x) => Mentions(v, x)) /\ (AnswersFor(v, x) => AnswersFor(w, x))
  BY <1>1, <1>5, <1>8 DEF Uploads, Adopts, Mentions, AnswersFor
<1>11. StepsTo(p, w)
  BY <1>3, <1>4 DEF StepsTo, MediaStrong, MediaTypeOK, KeysMinted
<1>12. StepLocks(p, w)
  BY <1>3, <1>5, <1>8 DEF StepLocks, KeyFree, Peers
<1>13. StepKeys(p, w)
  BY <1>3, <1>7, <1>10 DEF StepKeys
<1>14. StepBytes(p, w)
  BY <1>3, <1>5, <1>8, <1>10 DEF StepBytes
<1>15. StepHooks(p, w)
  BY <1>1, <1>3, <1>5 DEF StepHooks, Stages, MediaStrong, HooksPast, Busy
<1>16. StepCovers(p, w)
  BY <1>3, <1>5, <1>10 DEF StepCovers
<1> QED
  BY <1>6, <1>9, <1>11, <1>12, <1>13, <1>14, <1>15, <1>16, RequestStep

\* A recount that finds no row lets the bytes go.
LEMMA GcMediaKeyKeeps ==
  ASSUME MediaStrong, NEW p \in Requests, NEW h \in mreq[p].hooks, GcMediaKey(p, h)
  PROVE  MediaStrong'
<1> DEFINE v == mreq[p]
<1> DEFINE u == [[v EXCEPT !.hooks = v.hooks \ {h}] EXCEPT !.lock = {}]
<1>1. v \in ReqRecords /\ v.pc = "hooks" /\ v.lock = {h[1]}
  BY RequestRecords DEF MediaStrong, GcMediaKey, Busy
<1>2. u \in Remade(v, v.pc, v.attr, {}, v.writes, v.hooks \ {h}, v.keys, v.purged, v.retained, v.failed)
  BY <1>1 DEF ReqRecords, Remade
<1>3. mreq' = [mreq EXCEPT ![p] = u] /\ UNCHANGED <<mrow, minted, windows>>
  BY DEF GcMediaKey, MediaStrong, MediaTypeOK
<1>4. PICK w : w = u
  OBVIOUS
<1> HIDE DEF u
<1>5. /\ w.pc = "hooks" /\ w.kind = v.kind /\ w.key = v.key /\ w.lock = {} /\ w.writes = v.writes /\ w.hooks = v.hooks \ {h}
      /\ w.listed = v.listed /\ w.keys = v.keys /\ w.erased = v.erased /\ w.purged = v.purged
  BY <1>1, <1>2, <1>4, RemadeParts
<1>6. w \in ReqRecords
  <2>1. v.hooks \ {h} \subseteq Keys \X MediaRows
    BY <1>1, RequestFields
  <2> QED
    BY <1>1, <1>2, <1>4, <2>1, RemadeParts, RequestFields
<1>7. Shaped(v) /\ \A x \in Keys : Mentions(v, x) => x \in minted
  BY DEF MediaStrong, RequestsShaped, KeysMinted
<1>8. DOMAIN v.writes = {} /\ v.keys = {} /\ v.purged = {} /\ v.kind # "purge"
  BY <1>1, <1>7 DEF Shaped
<1>9. Shaped(w)
  BY <1>5, <1>8 DEF Shaped
<1>10. \A x : ~Uploads(w, x) /\ ~Adopts(w, x) /\ (Mentions(w, x) => Mentions(v, x)) /\ (AnswersFor(v, x) => AnswersFor(w, x) \/ x = h[1])
  BY <1>1, <1>5, <1>8 DEF Uploads, Adopts, Mentions, AnswersFor
<1>11. h[1] \in Keys /\ h[2] \in MediaRows /\ Mentions(v, h[1]) /\ Busy(p)
  BY <1>1, RequestFields DEF Mentions, Busy
<1>12. /\ blobs' \subseteq blobs /\ leaked \subseteq leaked'
       /\ \A x \in blobs \ blobs' : x = h[1] /\ \A r \in MediaRows : mrow[r].st = "live" /\ mrow[r].key = h[1] => r = h[2]
       /\ h[1] \in blobs' => h[1] \in leaked' \/ \E r \in MediaRows : mrow[r].st = "live" /\ mrow[r].key = h[1]
  <2>1. CASE RefCount(mrow, h[1], h[2]) > 0
    <3>1. UNCHANGED <<blobs, leaked>>
      BY <2>1 DEF GcMediaKey, Collects
    <3> QED
      BY <2>1, <3>1, RefCounts
  <2>2. CASE ~ (RefCount(mrow, h[1], h[2]) > 0)
    <3>1. Deletes(h[1]) \/ DeleteFails(h[1])
      BY <2>2 DEF GcMediaKey, Collects
    <3>2. \A r \in MediaRows : mrow[r].st = "live" /\ mrow[r].key = h[1] => r = h[2]
      BY <2>2, RefCounts
    <3> QED
      BY <3>1, <3>2 DEF Deletes, DeleteFails
  <2> QED
    BY <2>1, <2>2
<1>13. "readopted" \notin windows => \A x \in v.hooks : ~ (mrow[x[2]].st = "live" /\ mrow[x[2]].key = x[1])
  BY <1>1, <1>11 DEF MediaStrong, HooksPast
<1>14. StepsTo(p, w)
  BY <1>3, <1>4, <1>12 DEF StepsTo, MediaStrong, MediaTypeOK, KeysMinted
<1>15. StepLocks(p, w)
  BY <1>5, <1>8 DEF StepLocks
<1>16. StepKeys(p, w)
  BY <1>3, <1>7, <1>10 DEF StepKeys
<1>17. StepBytes(p, w)
  <2>1. \A q \in Requests : q # p => ~Uploads(mreq[q], h[1]) /\ ~Adopts(mreq[q], h[1])
    BY <1>1, <1>11, LockedDeletion
  <2>2. ASSUME NEW x \in blobs \ blobs', "readopted" \notin windows', NEW r \in MediaRows
        PROVE  ~ (mrow[r].st = "live" /\ mrow[r].key = x)
    BY <1>3, <1>12, <1>13, <2>2
  <2> QED
    BY <1>3, <1>5, <1>8, <1>10, <1>12, <2>1, <2>2 DEF StepBytes
<1>18. StepHooks(p, w)
  BY <1>1, <1>3, <1>5, <1>13 DEF StepHooks, Stages, MediaStrong, HooksPast, Busy
<1>19. StepCovers(p, w)
  BY <1>3, <1>5, <1>10, <1>12 DEF StepCovers
<1> QED
  BY <1>6, <1>9, <1>14, <1>15, <1>16, <1>17, <1>18, <1>19, RequestStep

\* A step of an erasure's collection, with what it did to the store.
LEMMA ErasureStep ==
  ASSUME MediaStrong, NEW p \in Requests, mreq[p].pc \in {"count", "collect"}, NEW w \in ReqRecords,
         mreq' = [mreq EXCEPT ![p] = w], UNCHANGED <<mrow, minted, windows>>,
         blobs' \subseteq blobs, leaked \subseteq leaked',
         w.pc \in {"collect", "receipt"}, w.kind = mreq[p].kind, DOMAIN w.writes = {}, w.hooks = {}, w.listed = mreq[p].listed,
         w.keys \subseteq mreq[p].keys, w.erased \subseteq w.keys \cup w.purged \cup w.retained \cup w.failed,
         w.lock \subseteq w.keys, w.pc = "receipt" => w.keys = {},
         w.purged \subseteq mreq[p].purged \cup mreq[p].keys, w.purged \cap blobs' = {},
         \A q \in Requests : q # p /\ Busy(q) => w.lock \cap mreq[q].lock = {},
         \A k \in blobs \ blobs' : /\ k \in mreq[p].lock /\ k \in mreq[p].keys
                                   /\ \A r \in MediaRows : ~ (mrow[r].st = "live" /\ mrow[r].key = k),
         \A k \in blobs' : k \in mreq[p].keys =>
            (k \in w.keys /\ w.pc = "collect") \/ k \in leaked' \/ \E r \in MediaRows : mrow[r].st = "live" /\ mrow[r].key = k
  PROVE  MediaStrong'
<1> DEFINE v == mreq[p]
<1>1. v \in ReqRecords /\ Busy(p)
  BY RequestRecords DEF MediaStrong, Busy
<1>2. Shaped(v) /\ \A x \in Keys : Mentions(v, x) => x \in minted
  BY DEF MediaStrong, RequestsShaped, KeysMinted
<1>3. v.kind = "purge" /\ v.hooks = {} /\ DOMAIN v.writes = {}
  BY <1>2 DEF Shaped
<1>4. Shaped(w)
  BY <1>3 DEF Shaped
<1>5. \A x : ~Uploads(w, x) /\ ~Adopts(w, x)
  BY DEF Uploads, Adopts
<1>6. \A x : Mentions(w, x) => Mentions(v, x)
  BY <1>5 DEF Mentions
<1>7. \A x : AnswersFor(v, x) => x \in v.keys
  BY <1>3 DEF AnswersFor, Uploads
<1>8. StepsTo(p, w)
  BY DEF StepsTo, MediaStrong, MediaTypeOK, KeysMinted
<1>9. StepLocks(p, w)
  BY DEF StepLocks
<1>10. StepKeys(p, w)
  BY <1>2, <1>5, <1>6 DEF StepKeys
<1>11. StepBytes(p, w)
  <2>1. ASSUME NEW k \in blobs \ blobs', NEW q \in Requests, q # p PROVE ~Uploads(mreq[q], k) /\ ~Adopts(mreq[q], k)
    <3>1. k \in v.lock /\ k \in v.keys /\ k \in Keys
      BY <2>1, <1>1, RequestFields
    <3>2. Mentions(v, k)
      BY <1>1, <3>1 DEF Mentions, Busy
    <3> QED
      BY <1>1, <2>1, <3>1, <3>2, LockedDeletion
  <2> QED
    BY <1>5, <2>1 DEF StepBytes
<1>12. StepHooks(p, w)
  BY DEF StepHooks, Stages
<1>13. StepCovers(p, w)
  <2>1. \A k \in blobs' : AnswersFor(v, k) =>
          AnswersFor(w, k) \/ k \in leaked' \/ \E r \in MediaRows : mrow[r].st = "live" /\ mrow[r].key = k
    BY <1>7 DEF AnswersFor
  <2> QED
    BY <2>1 DEF StepCovers
<1> QED
  BY <1>4, <1>8, <1>9, <1>10, <1>11, <1>12, <1>13, RequestStep

\* The unlocked count keeps what is referenced; when it fails, every key of
\* the chunk is reported as failed.
LEMMA GcBlobChunkKeeps ==
  ASSUME MediaStrong, NEW p \in Requests, GcBlobChunk(p)
  PROVE  MediaStrong'
<1> DEFINE v == mreq[p]
<1>1. v \in ReqRecords /\ v.pc = "count" /\ UNCHANGED <<mrow, blobs, minted, windows>>
  BY RequestRecords DEF MediaStrong, GcBlobChunk, Busy
<1>2. Shaped(v) /\ v.purged \cap blobs = {}
  BY <1>1 DEF MediaStrong, RequestsShaped, PurgedGone, Busy
<1>3. DOMAIN v.writes = {} /\ v.hooks = {} /\ v.lock = {} /\ v.erased \subseteq v.keys /\ v.keys \subseteq Keys
  BY <1>1, <1>2, RequestFields DEF Shaped
<1> DEFINE kept == {k \in v.keys : RefCount(mrow, k, NoExclusion) > 0}
<1> DEFINE counted == [[[v EXCEPT !.pc = "collect"] EXCEPT !.retained = kept] EXCEPT !.keys = v.keys \ kept]
<1> DEFINE failing == [[[v EXCEPT !.pc = "receipt"] EXCEPT !.failed = v.keys] EXCEPT !.keys = {}]
<1>4. CASE mreq' = [mreq EXCEPT ![p] = counted] /\ UNCHANGED leaked
  <2>1. \A k \in kept : \E r \in MediaRows : mrow[r].st = "live" /\ mrow[r].key = k
    BY RefCounts
  <2>2. PICK kk : kk = kept
    OBVIOUS
  <2>3. kk \subseteq v.keys /\ kk \subseteq Keys /\ v.keys \ kk \subseteq Keys
    BY <1>3, <2>2
  <2> HIDE DEF kept
  <2>4. counted \in Remade(v, "collect", v.attr, v.lock, v.writes, v.hooks, v.keys \ kk, v.purged, kk, v.failed)
    BY <1>1, <2>2 DEF ReqRecords, Remade
  <2>5. PICK w : w = counted
    OBVIOUS
  <2> HIDE DEF counted
  <2>6. /\ w.pc = "collect" /\ w.kind = v.kind /\ w.lock = {} /\ w.writes = v.writes /\ w.hooks = {} /\ w.listed = v.listed
        /\ w.keys = v.keys \ kk /\ w.erased = v.erased /\ w.purged = v.purged /\ w.retained = kk
    BY <1>1, <1>3, <2>4, <2>5, RemadeParts
  <2>7. w \in ReqRecords
    BY <1>1, <2>3, <2>4, <2>5, RemadeParts, RequestFields
  <2>8. mreq' = [mreq EXCEPT ![p] = w]
    BY <1>4, <2>5
  <2>9. w.erased \subseteq w.keys \cup w.purged \cup w.retained \cup w.failed
    BY <1>3, <2>6
  <2>10. \A k \in blobs' : k \in v.keys =>
            (k \in w.keys /\ w.pc = "collect") \/ k \in leaked' \/ \E r \in MediaRows : mrow[r].st = "live" /\ mrow[r].key = k
    BY <2>1, <2>2, <2>6
  <2>11. /\ blobs' \subseteq blobs /\ leaked \subseteq leaked' /\ w.pc \in {"collect", "receipt"} /\ DOMAIN w.writes = {}
         /\ w.keys \subseteq v.keys /\ w.lock \subseteq w.keys /\ (w.pc = "receipt" => w.keys = {})
         /\ w.purged \subseteq v.purged \cup v.keys /\ w.purged \cap blobs' = {}
         /\ \A q \in Requests : q # p /\ Busy(q) => w.lock \cap mreq[q].lock = {}
    BY <1>1, <1>2, <1>3, <1>4, <2>6
  <2>12. \A k \in blobs \ blobs' : FALSE
    BY <1>1
  <2> QED
    BY <1>1, <2>6, <2>7, <2>8, <2>9, <2>10, <2>11, <2>12, ErasureStep
<1>5. CASE mreq' = [mreq EXCEPT ![p] = failing] /\ leaked' = leaked \cup (v.keys \cap blobs)
  <2>4. failing \in Remade(v, "receipt", v.attr, v.lock, v.writes, v.hooks, {}, v.purged, v.retained, v.keys)
    BY <1>1 DEF ReqRecords, Remade
  <2>5. PICK w : w = failing
    OBVIOUS
  <2> HIDE DEF failing
  <2>6. /\ w.pc = "receipt" /\ w.kind = v.kind /\ w.lock = {} /\ w.writes = v.writes /\ w.hooks = {} /\ w.listed = v.listed
        /\ w.keys = {} /\ w.erased = v.erased /\ w.purged = v.purged /\ w.failed = v.keys
    BY <1>1, <1>3, <2>4, <2>5, RemadeParts
  <2>7. w \in ReqRecords
    BY <1>1, <1>3, <2>4, <2>5, RemadeParts, RequestFields
  <2>8. mreq' = [mreq EXCEPT ![p] = w]
    BY <1>5, <2>5
  <2>9. w.erased \subseteq w.keys \cup w.purged \cup w.retained \cup w.failed
    BY <1>3, <2>6
  <2>10. \A k \in blobs' : k \in v.keys => k \in leaked'
    BY <1>1, <1>5
  <2>11. /\ blobs' \subseteq blobs /\ leaked \subseteq leaked' /\ w.pc \in {"collect", "receipt"} /\ DOMAIN w.writes = {}
         /\ w.keys \subseteq v.keys /\ w.lock \subseteq w.keys /\ (w.pc = "receipt" => w.keys = {})
         /\ w.purged \subseteq v.purged \cup v.keys /\ w.purged \cap blobs' = {}
         /\ \A q \in Requests : q # p /\ Busy(q) => w.lock \cap mreq[q].lock = {}
    BY <1>1, <1>2, <1>3, <1>5, <2>6
  <2>12. \A k \in blobs \ blobs' : FALSE
    BY <1>1
  <2> QED
    BY <1>1, <2>6, <2>7, <2>8, <2>9, <2>10, <2>11, <2>12, ErasureStep
<1>6. \/ mreq' = [mreq EXCEPT ![p] = counted] /\ UNCHANGED leaked
      \/ mreq' = [mreq EXCEPT ![p] = failing] /\ leaked' = leaked \cup (v.keys \cap blobs)
  BY DEF GcBlobChunk, MediaStrong, MediaTypeOK
<1> QED
  BY <1>4, <1>5, <1>6

\* An erasure takes the lock of one of its keys.
LEMMA PurgeLockKeeps ==
  ASSUME MediaStrong, NEW p \in Requests, NEW k \in mreq[p].keys, PurgeLock(p, k)
  PROVE  MediaStrong'
<1> DEFINE v == mreq[p]
<1> DEFINE u == [v EXCEPT !.lock = {k}]
<1>1. v \in ReqRecords /\ v.pc = "collect" /\ UNCHANGED <<mrow, blobs, leaked, minted, windows>> /\ KeyFree(p, k)
  BY RequestRecords DEF MediaStrong, PurgeLock, Busy
<1>2. Shaped(v) /\ v.purged \cap blobs = {}
  BY <1>1 DEF MediaStrong, RequestsShaped, PurgedGone, Busy
<1>3. /\ DOMAIN v.writes = {} /\ v.hooks = {} /\ v.keys \subseteq Keys
      /\ v.erased \subseteq v.keys \cup v.purged \cup v.retained \cup v.failed
  BY <1>1, <1>2, RequestFields DEF Shaped
<1>4. u \in Remade(v, v.pc, v.attr, {k}, v.writes, v.hooks, v.keys, v.purged, v.retained, v.failed)
  BY <1>1 DEF ReqRecords, Remade
<1>5. mreq' = [mreq EXCEPT ![p] = u]
  BY DEF PurgeLock, MediaStrong, MediaTypeOK
<1>6. PICK w : w = u
  OBVIOUS
<1> HIDE DEF u
<1>7. /\ w.pc = "collect" /\ w.kind = v.kind /\ w.lock = {k} /\ w.writes = v.writes /\ w.hooks = {} /\ w.listed = v.listed
      /\ w.keys = v.keys /\ w.erased = v.erased /\ w.purged = v.purged /\ w.retained = v.retained /\ w.failed = v.failed
  BY <1>1, <1>3, <1>4, <1>6, RemadeParts
<1>8. w \in ReqRecords
  <2>1. {k} \subseteq Keys
    BY <1>3
  <2> QED
    BY <1>1, <1>4, <1>6, <2>1, RemadeParts, RequestFields
<1>9. \A q \in Requests : q # p /\ Busy(q) => w.lock \cap mreq[q].lock = {}
  BY <1>1, <1>7 DEF KeyFree, Peers
<1>10. w.lock \subseteq w.keys /\ w.erased \subseteq w.keys \cup w.purged \cup w.retained \cup w.failed
  BY <1>3, <1>7
<1> QED
  BY <1>1, <1>2, <1>3, <1>5, <1>6, <1>7, <1>8, <1>9, <1>10, ErasureStep

\* One key of an erasure, recounted and deleted under its lock.
LEMMA GcBlobKeyKeeps ==
  ASSUME MediaStrong, NEW p \in Requests, GcBlobKey(p)
  PROVE  MediaStrong'
<1> DEFINE v == mreq[p]
<1>1. v \in ReqRecords /\ v.pc = "collect" /\ UNCHANGED <<mrow, minted, windows>> /\ v.lock # {}
  BY RequestRecords DEF MediaStrong, GcBlobKey, Busy
<1>2. Shaped(v) /\ v.purged \cap blobs = {}
  BY <1>1 DEF MediaStrong, RequestsShaped, PurgedGone, Busy
<1>3. /\ DOMAIN v.writes = {} /\ v.hooks = {} /\ v.keys \subseteq Keys /\ v.lock \subseteq v.keys
      /\ v.erased \subseteq v.keys \cup v.purged \cup v.retained \cup v.failed
  BY <1>1, <1>2, RequestFields DEF Shaped
<1>4. PICK k : k = CHOOSE x \in v.lock : TRUE
  OBVIOUS
<1>5. k \in v.lock /\ k \in v.keys /\ k \in Keys
  BY <1>1, <1>3, <1>4
<1> DEFINE live == \E r \in MediaRows : mrow[r].st = "live" /\ mrow[r].key = k
<1>6. PICK o \in {"retained", "purged", "failed"} :
         /\ mreq' = Reported(p, k, o)
         /\ \/ o = "retained" /\ live /\ UNCHANGED <<blobs, leaked>>
            \/ o = "purged" /\ ~live /\ Deletes(k)
            \/ o = "failed" /\ ~live /\ DeleteFails(k)
  <2>1. \/ RefCount(mrow, k, NoExclusion) > 0 /\ mreq' = Reported(p, k, "retained") /\ UNCHANGED <<blobs, leaked>>
        \/ RefCount(mrow, k, NoExclusion) = 0 /\ Deletes(k) /\ mreq' = Reported(p, k, "purged")
        \/ RefCount(mrow, k, NoExclusion) = 0 /\ DeleteFails(k) /\ mreq' = Reported(p, k, "failed")
    BY <1>4 DEF GcBlobKey
  <2>2. (RefCount(mrow, k, NoExclusion) > 0 => live) /\ (RefCount(mrow, k, NoExclusion) = 0 => ~live)
    <3>1. MediaRows \subseteq Nat \ {0}
      BY MediaAssumption DEF MediaRows
    <3> QED
      BY <3>1, RefCounts DEF NoExclusion
  <2> HIDE DEF live
  <2> QED
    BY <2>1, <2>2
<1> DEFINE P == IF o = "purged" THEN v.purged \cup {k} ELSE v.purged
<1> DEFINE R == IF o = "retained" THEN v.retained \cup {k} ELSE v.retained
<1> DEFINE F == IF o = "failed" THEN v.failed \cup {k} ELSE v.failed
<1> DEFINE u == [[[[[v EXCEPT !.lock = {}] EXCEPT !.keys = v.keys \ {k}] EXCEPT !.purged = P] EXCEPT !.retained = R] EXCEPT !.failed = F]
<1>7. mreq' = [mreq EXCEPT ![p] = u]
  <2>1. mreq' = [mreq EXCEPT ![p] = [mreq[p] EXCEPT !.lock = {}, !.keys = @ \ {k},
                 !.purged = IF o = "purged" THEN @ \cup {k} ELSE @,
                 !.retained = IF o = "retained" THEN @ \cup {k} ELSE @,
                 !.failed = IF o = "failed" THEN @ \cup {k} ELSE @]]
    BY <1>6 DEF Reported, MediaStrong, MediaTypeOK
  <2> QED
    BY <1>1, <2>1 DEF ReqRecords
<1>8. P \subseteq Keys /\ R \subseteq Keys /\ F \subseteq Keys /\ v.keys \ {k} \subseteq Keys
  BY <1>1, <1>5, RequestFields
<1>9. /\ P \subseteq v.purged \cup {k} /\ v.purged \subseteq P /\ v.retained \subseteq R /\ v.failed \subseteq F
      /\ k \in P \cup R \cup F /\ (k \in P => k \in v.purged \/ o = "purged")
  BY <1>6
<1>10. PICK pp, rr, ff : pp = P /\ rr = R /\ ff = F
  OBVIOUS
<1> HIDE DEF P, R, F
<1>11. u \in Remade(v, v.pc, v.attr, {}, v.writes, v.hooks, v.keys \ {k}, pp, rr, ff)
  BY <1>1, <1>10 DEF ReqRecords, Remade
<1>12. PICK w : w = u
  OBVIOUS
<1> HIDE DEF u
<1>13. /\ w.pc = "collect" /\ w.kind = v.kind /\ w.lock = {} /\ w.writes = v.writes /\ w.hooks = {} /\ w.listed = v.listed
       /\ w.keys = v.keys \ {k} /\ w.erased = v.erased /\ w.purged = pp /\ w.retained = rr /\ w.failed = ff
  BY <1>1, <1>3, <1>11, <1>12, RemadeParts
<1>14. w \in ReqRecords
  <2>1. pp \subseteq Keys /\ rr \subseteq Keys /\ ff \subseteq Keys /\ v.keys \ {k} \subseteq Keys /\ {} \subseteq Keys
    BY <1>8, <1>10
  <2> QED
    BY <1>1, <1>11, <1>12, <2>1, RemadeParts, RequestFields
<1>15. /\ blobs' \subseteq blobs /\ leaked \subseteq leaked'
       /\ \A x \in blobs \ blobs' : x = k /\ ~live
       /\ k \in blobs' => live \/ k \in leaked'
       /\ o = "purged" => k \notin blobs'
  BY <1>6 DEF Deletes, DeleteFails
<1>16. w.erased \subseteq w.keys \cup w.purged \cup w.retained \cup w.failed
  BY <1>3, <1>9, <1>10, <1>13
<1>17. w.purged \cap blobs' = {} /\ w.purged \subseteq v.purged \cup v.keys
  BY <1>2, <1>5, <1>9, <1>10, <1>13, <1>15
<1>18. \A x \in blobs' : x \in v.keys =>
            (x \in w.keys /\ w.pc = "collect") \/ x \in leaked' \/ \E r \in MediaRows : mrow[r].st = "live" /\ mrow[r].key = x
  BY <1>13, <1>15
<1>19. \A x \in blobs \ blobs' : /\ x \in v.lock /\ x \in v.keys
                                 /\ \A r \in MediaRows : ~ (mrow[r].st = "live" /\ mrow[r].key = x)
  BY <1>5, <1>15
<1>20. mreq' = [mreq EXCEPT ![p] = w]
  BY <1>7, <1>12
<1> HIDE DEF live
<1>21. /\ blobs' \subseteq blobs /\ leaked \subseteq leaked' /\ w.pc \in {"collect", "receipt"} /\ DOMAIN w.writes = {}
       /\ w.keys \subseteq v.keys /\ w.lock \subseteq w.keys /\ (w.pc = "receipt" => w.keys = {})
       /\ w.purged \subseteq v.purged \cup v.keys /\ w.purged \cap blobs' = {}
       /\ \A q \in Requests : q # p /\ Busy(q) => w.lock \cap mreq[q].lock = {}
  BY <1>3, <1>13, <1>15, <1>17
<1> QED
  BY <1>1, <1>13, <1>14, <1>16, <1>18, <1>19, <1>20, <1>21, ErasureStep

\* An erasure with no key left writes its receipt.
LEMMA PurgeDoneKeeps ==
  ASSUME MediaStrong, NEW p \in Requests, PurgeDone(p)
  PROVE  MediaStrong'
<1> DEFINE v == mreq[p]
<1> DEFINE u == [v EXCEPT !.pc = "receipt"]
<1>1. v \in ReqRecords /\ v.pc = "collect" /\ v.keys = {} /\ UNCHANGED <<mrow, blobs, leaked, minted, windows>>
  BY RequestRecords DEF MediaStrong, PurgeDone, Busy
<1>2. Shaped(v) /\ v.purged \cap blobs = {}
  BY <1>1 DEF MediaStrong, RequestsShaped, PurgedGone, Busy
<1>3. /\ DOMAIN v.writes = {} /\ v.hooks = {} /\ v.lock = {}
      /\ v.erased \subseteq v.keys \cup v.purged \cup v.retained \cup v.failed
  BY <1>1, <1>2, RequestFields DEF Shaped
<1>4. u \in Remade(v, "receipt", v.attr, v.lock, v.writes, v.hooks, v.keys, v.purged, v.retained, v.failed)
  BY <1>1 DEF ReqRecords, Remade
<1>5. mreq' = [mreq EXCEPT ![p] = u]
  BY DEF PurgeDone, MediaStrong, MediaTypeOK
<1>6. PICK w : w = u
  OBVIOUS
<1> HIDE DEF u
<1>7. /\ w.pc = "receipt" /\ w.kind = v.kind /\ w.lock = {} /\ w.writes = v.writes /\ w.hooks = {} /\ w.listed = v.listed
      /\ w.keys = v.keys /\ w.erased = v.erased /\ w.purged = v.purged /\ w.retained = v.retained /\ w.failed = v.failed
  BY <1>1, <1>3, <1>4, <1>6, RemadeParts
<1>8. w \in ReqRecords
  BY <1>1, <1>4, <1>6, RemadeParts, RequestFields
<1>9. w.erased \subseteq w.keys \cup w.purged \cup w.retained \cup w.failed
  BY <1>3, <1>7
<1> QED
  BY <1>1, <1>2, <1>3, <1>5, <1>6, <1>7, <1>8, <1>9, ErasureStep

\* The commit: the staged rows appear, the hooks or the erasure's collection
\* take over the keys they replaced.
LEMMA CommitMediaKeeps ==
  ASSUME MediaStrong, NEW p \in Requests, CommitMedia(p)
  PROVE  MediaStrong'
<1> USE DEF MediaStrong
<1> DEFINE v == mreq[p]
<1> DEFINE to == IF v.kind = "purge" THEN "count" ELSE "hooks"
<1> DEFINE u == [[[[v EXCEPT !.pc = to] EXCEPT !.writes = << >>] EXCEPT !.attr = {}] EXCEPT !.lock = {}]
<1>1. v \in ReqRecords /\ v.pc = "commit" /\ Busy(p) /\ UNCHANGED <<blobs, leaked, minted, windows>>
  BY RequestRecords DEF CommitMedia, Busy
<1>2. mreq' = [mreq EXCEPT ![p] = u] /\ mrow' = View(p)
  BY DEF CommitMedia, MediaTypeOK
<1>3. u \in Remade(v, to, {}, {}, << >>, v.hooks, v.keys, v.purged, v.retained, v.failed)
  BY <1>1 DEF ReqRecords, Remade
<1>4. PICK w : w = u
  OBVIOUS
<1> HIDE DEF u
<1>5. /\ w.pc = to /\ w.kind = v.kind /\ w.lock = {} /\ w.writes = << >> /\ w.hooks = v.hooks /\ w.listed = v.listed
      /\ w.keys = v.keys /\ w.erased = v.erased /\ w.purged = v.purged
  BY <1>1, <1>3, <1>4, RemadeParts
<1>6. w \in ReqRecords
  <2>1. << >> \in Staged /\ to \in {"count", "hooks"}
    BY StagedMedia
  <2> QED
    BY <1>1, <1>3, <1>4, <2>1, RemadeParts, RequestFields
<1>7. DOMAIN w.writes = {}
  BY <1>5, StagedMedia
<1>8. mreq'[p] = w /\ \A q \in Requests : q # p => mreq'[q] = mreq[q]
  BY <1>2, <1>4 DEF MediaTypeOK
<1>9. DOMAIN v.writes \subseteq MediaRows /\ \A r \in DOMAIN v.writes : v.writes[r] \in MediaStates
  BY <1>1, RequestFields, StagedMedia
<1>10. /\ \A r \in MediaRows : r \in DOMAIN v.writes => mrow'[r] = v.writes[r]
       /\ \A r \in MediaRows : r \notin DOMAIN v.writes => mrow'[r] = mrow[r]
  BY <1>2 DEF View
<1>11. MediaTypeOK'
  <2>1. mreq' \in [Requests -> ReqRecords \cup {IdleReq}]
    BY <1>2, <1>4, <1>6 DEF MediaTypeOK
  <2>2. mrow' \in [MediaRows -> MediaStates]
    BY <1>2, <1>9 DEF View, MediaTypeOK
  <2> QED
    BY <1>1, <2>1, <2>2 DEF MediaTypeOK
<1>12. Shaped(v) /\ \A x \in Keys : Mentions(v, x) => x \in minted
  BY DEF RequestsShaped, KeysMinted
<1>13. RequestsShaped'
  <2>1. Shaped(w)
    BY <1>1, <1>5, <1>7, <1>12 DEF Shaped
  <2> SUFFICES ASSUME NEW q \in Requests PROVE Shaped(mreq'[q])
    BY DEF RequestsShaped, Shaped, Stages
  <2> QED
    BY <1>8, <2>1 DEF RequestsShaped
<1>14. LocksApart'
  <2> SUFFICES ASSUME NEW a \in Requests, NEW b \in Requests, a # b, mreq'[a].pc # "idle", mreq'[b].pc # "idle"
               PROVE  DOMAIN mreq'[a].writes \cap DOMAIN mreq'[b].writes = {} /\ mreq'[a].lock \cap mreq'[b].lock = {}
    BY DEF LocksApart, Busy
  <2> QED
    BY <1>5, <1>7, <1>8 DEF LocksApart, Busy
<1>15. \A x : ~Uploads(w, x) /\ ~Adopts(w, x)
  BY <1>5 DEF Uploads, Adopts
<1>16. \A x : Mentions(w, x) => Mentions(v, x)
  BY <1>1, <1>5, <1>7, <1>15 DEF Mentions
<1>17. \A r \in DOMAIN v.writes : v.writes[r].st # "none" => v.writes[r].key \in Keys /\ Mentions(v, v.writes[r].key)
  <2>1. \A r \in DOMAIN v.writes : v.writes[r].st # "none" => v.writes[r].key \in Keys
    BY <1>9 DEF MediaStates, NoMedia
  <2> QED
    BY <1>1, <2>1 DEF Mentions
<1>18. KeysMinted'
  <2>1. \A q \in Requests, k \in Keys : Mentions(mreq'[q], k) => k \in minted
    BY <1>8, <1>16 DEF KeysMinted
  <2>2. \A r \in MediaRows : mrow'[r].st # "none" => mrow'[r].key \in minted
    BY <1>10, <1>12, <1>17 DEF KeysMinted
  <2> QED
    BY <1>1, <2>1, <2>2 DEF KeysMinted, Mentions, Adopts, Uploads
<1>19. UploadsFresh'
  <2> SUFFICES ASSUME NEW a \in Requests, NEW k \in Keys, Uploads(mreq'[a], k)
               PROVE  /\ \A r \in MediaRows : mrow'[r].st # "none" => mrow'[r].key # k
                      /\ \A b \in Requests : b # a => ~Mentions(mreq'[b], k)
                      /\ \A h \in mreq'[a].hooks : h[1] # k
    BY DEF UploadsFresh, Mentions, Adopts, Uploads
  <2>1. a # p /\ mreq'[a] = mreq[a] /\ Uploads(mreq[a], k)
    BY <1>8, <1>15
  <2>2. /\ \A r \in MediaRows : mrow[r].st # "none" => mrow[r].key # k
        /\ \A b \in Requests : b # a => ~Mentions(mreq[b], k)
        /\ \A h \in mreq[a].hooks : h[1] # k
    BY <2>1 DEF UploadsFresh
  <2>3. \A r \in MediaRows : mrow'[r].st # "none" => mrow'[r].key # k
    BY <1>10, <1>17, <2>1, <2>2
  <2>4. \A b \in Requests : b # a => ~Mentions(mreq'[b], k)
    BY <1>8, <1>16, <2>1, <2>2
  <2> QED
    BY <2>1, <2>2, <2>3, <2>4
<1>20. BytesThere'
  <2> SUFFICES ASSUME NEW a \in Requests, NEW k \in Keys
               PROVE  /\ Uploads(mreq'[a], k) /\ mreq'[a].pc # "orphan" => k \in blobs
                      /\ Adopts(mreq'[a], k) /\ "readopted" \notin windows => k \in blobs
    BY <1>1 DEF BytesThere, Adopts, Uploads
  <2> QED
    BY <1>8, <1>15 DEF BytesThere
<1>21. LiveHasBlob'
  <2> SUFFICES ASSUME "readopted" \notin windows, NEW r \in MediaRows, mrow'[r].st = "live" PROVE mrow'[r].key \in blobs
    BY <1>1 DEF LiveHasBlob, LiveRows
  <2>1. CASE r \notin DOMAIN v.writes
    BY <1>10, <2>1 DEF LiveHasBlob, LiveRows
  <2>2. CASE r \in DOMAIN v.writes
    <3>1. v.writes[r].st = "live" /\ mrow'[r].key = v.writes[r].key
      BY <1>10, <2>2
    <3>2. v.kind \in {"upload", "adopt"} /\ v.writes[r].key = v.key /\ v.key \in Keys
      BY <1>1, <1>12, <2>2, <3>1, RequestFields DEF Shaped
    <3>3. Uploads(v, v.key) \/ Adopts(v, v.key)
      BY <1>1, <3>2 DEF Uploads, Adopts
    <3> QED
      BY <1>1, <3>1, <3>2, <3>3 DEF BytesThere
  <2> QED
    BY <2>1, <2>2
<1>22. \A x, y : ~Stages(w, x, y)
  BY <1>5 DEF Stages
<1>23. HooksPast'
  <2> SUFFICES ASSUME "readopted" \notin windows, NEW a \in Requests, mreq'[a].pc # "idle", NEW h \in mreq'[a].hooks
               PROVE  /\ mreq'[a].pc = "hooks" => ~ (mrow'[h[2]].st = "live" /\ mrow'[h[2]].key = h[1])
                      /\ \A q \in Requests : q # a => ~Stages(mreq'[q], h[2], h[1])
    BY <1>1 DEF HooksPast, Busy, Stages
  <2>1. mreq'[a].hooks = mreq[a].hooks /\ mreq[a].pc # "idle" /\ h[2] \in MediaRows
    <3>1. mreq'[a].hooks = mreq[a].hooks /\ mreq[a].pc # "idle"
      BY <1>1, <1>5, <1>8
    <3>2. mreq[a].hooks \subseteq Keys \X MediaRows
      BY <3>1, RequestRecords, RequestFields DEF Busy
    <3> QED
      BY <3>1, <3>2
  <2>2. \A q \in Requests : q # a => ~Stages(mreq[q], h[2], h[1])
    BY <2>1 DEF HooksPast, Busy
  <2>3. \A q \in Requests : q # a => ~Stages(mreq'[q], h[2], h[1])
    BY <1>8, <1>22, <2>2
  <2>4. ~Stages(v, h[2], h[1])
    <3>1. CASE a = p
      BY <1>1, <1>12, <2>1, <3>1 DEF Shaped
    <3>2. CASE a # p
      BY <2>2, <3>2
    <3> QED
      BY <3>1, <3>2
  <2>5. CASE h[2] \in DOMAIN v.writes
    BY <1>1, <1>10, <2>1, <2>3, <2>4, <2>5 DEF Stages
  <2>6. CASE h[2] \notin DOMAIN v.writes
    <3>1. a # p
      BY <1>1, <1>12, <2>1, <2>6 DEF Shaped
    <3>2. mreq'[a] = mreq[a] /\ mrow'[h[2]] = mrow[h[2]]
      BY <1>8, <1>10, <2>1, <2>6, <3>1
    <3> QED
      BY <2>1, <2>3, <3>2 DEF HooksPast, Busy
  <2> QED
    BY <2>5, <2>6
<1>24. OverwritesCovered'
  <2> SUFFICES ASSUME windows = {}, NEW a \in Requests, mreq'[a].pc = "commit", NEW r \in DOMAIN mreq'[a].writes, mrow'[r].st = "live"
               PROVE  \/ Stages(mreq'[a], r, mrow'[r].key)
                      \/ <<mrow'[r].key, r>> \in mreq'[a].hooks
                      \/ mreq'[a].kind = "purge" /\ mrow'[r].key \in mreq'[a].keys
    BY <1>1 DEF OverwritesCovered, Stages
  <2>1. a # p /\ mreq'[a] = mreq[a]
    BY <1>5, <1>8
  <2>2. r \notin DOMAIN v.writes /\ r \in MediaRows
    <3>1. Busy(a) /\ mreq[a].writes \in Staged
      BY <2>1, RequestRecords, RequestFields DEF Busy
    <3> QED
      BY <1>1, <2>1, <3>1, StagedMedia DEF LocksApart
  <2>3. mrow'[r] = mrow[r]
    BY <1>10, <2>2
  <2> QED
    BY <2>1, <2>3 DEF OverwritesCovered
<1>25. BlobsAnswered'
  <2> SUFFICES ASSUME windows = {}, NEW k \in blobs
               PROVE  \/ \E r \in MediaRows : mrow'[r].st = "live" /\ mrow'[r].key = k
                      \/ k \in leaked
                      \/ \E q \in Requests : AnswersFor(mreq'[q], k)
    BY <1>1 DEF BlobsAnswered, AnswersFor, Uploads
  <2>1. \/ \E r \in MediaRows : mrow[r].st = "live" /\ mrow[r].key = k
        \/ k \in leaked
        \/ \E q \in Requests : AnswersFor(mreq[q], k)
    BY DEF BlobsAnswered
  <2>2. ASSUME NEW r \in MediaRows, Stages(v, r, k) PROVE \E s \in MediaRows : mrow'[s].st = "live" /\ mrow'[s].key = k
    BY <1>10, <2>2 DEF Stages
  <2>3. CASE \E r \in MediaRows : mrow[r].st = "live" /\ mrow[r].key = k
    <3>1. PICK r \in MediaRows : mrow[r].st = "live" /\ mrow[r].key = k
      BY <2>3
    <3>2. CASE r \notin DOMAIN v.writes
      BY <1>10, <3>1, <3>2
    <3>3. CASE r \in DOMAIN v.writes
      <4>1. \/ Stages(v, r, k)
            \/ <<k, r>> \in v.hooks
            \/ v.kind = "purge" /\ k \in v.keys
        BY <1>1, <3>1, <3>3 DEF OverwritesCovered
      <4>2. CASE <<k, r>> \in v.hooks
        <5>1. w.pc = "hooks"
          BY <1>1, <1>5, <1>12, <4>2 DEF Shaped
        <5>2. \E h \in w.hooks : h[1] = k
          BY <1>5, <4>2
        <5>3. AnswersFor(w, k)
          BY <5>1, <5>2 DEF AnswersFor
        <5> QED
          BY <1>8, <5>3
      <4>3. CASE v.kind = "purge" /\ k \in v.keys
        <5>1. AnswersFor(w, k)
          BY <1>5, <4>3 DEF AnswersFor
        <5> QED
          BY <1>8, <5>1
      <4> QED
        BY <2>2, <4>1, <4>2, <4>3
    <3> QED
      BY <3>2, <3>3
  <2>4. CASE \E q \in Requests : AnswersFor(mreq[q], k)
    <3>1. PICK q \in Requests : AnswersFor(mreq[q], k)
      BY <2>4
    <3>2. CASE q # p
      BY <1>8, <3>1, <3>2
    <3>3. CASE q = p
      <4>1. Uploads(v, k)
        BY <1>1, <3>1, <3>3 DEF AnswersFor
      <4>2. \E r \in DOMAIN v.writes : Stages(v, r, k)
        BY <1>1, <1>12, <4>1 DEF Shaped, Uploads
      <4> QED
        BY <1>9, <2>2, <4>2
    <3> QED
      BY <3>2, <3>3
  <2> QED
    BY <2>1, <2>3, <2>4
<1>26. PurgedGone'
  <2> SUFFICES ASSUME NEW a \in Requests, mreq'[a].pc # "idle" PROVE mreq'[a].purged \cap blobs = {}
    BY <1>1 DEF PurgedGone, Busy
  <2> QED
    BY <1>1, <1>5, <1>8 DEF PurgedGone, Busy
<1> QED
  BY <1>11, <1>13, <1>14, <1>18, <1>19, <1>20, <1>21, <1>23, <1>24, <1>25, <1>26

\* At first every stored key has its live row.
LEMMA MediaBegins ==
  ASSUME MediaInit
  PROVE  MediaStrong
<1> USE DEF MediaInit
<1>1. \A p \in Requests : mreq[p] = IdleReq
  OBVIOUS
<1>2. \A r \in MediaRows : Media0[r] \in MediaStates
  BY MediaAssumption
<1>3. \A r \in MediaRows : Media0[r].st # "none" => Media0[r].key \in Keys /\ Media0[r].key \in minted
  BY <1>2 DEF MediaStates, NoMedia
<1>4. \A k : k \in blobs <=> \E r \in MediaRows : mrow[r].st = "live" /\ mrow[r].key = k
  BY MediaAssumption DEF LiveRows
<1>5. minted \subseteq Keys
  BY <1>3
<1>6. MediaTypeOK
  BY <1>3, <1>4, <1>5, MediaAssumption DEF MediaTypeOK
<1>7. RequestsShaped /\ LocksApart /\ UploadsFresh /\ BytesThere /\ HooksPast /\ OverwritesCovered /\ PurgedGone
  <2>1. IdleReq.pc = "idle" /\ \A p \in Requests : ~Busy(p)
    BY <1>1, IdleFacts DEF Busy
  <2> QED
    BY <1>1, <2>1, IdleFacts DEF RequestsShaped, LocksApart, UploadsFresh, BytesThere, HooksPast, OverwritesCovered, PurgedGone
<1>8. KeysMinted
  BY <1>1, <1>3, <1>4, IdleFacts DEF KeysMinted
<1>9. LiveHasBlob /\ BlobsAnswered
  BY <1>4 DEF LiveHasBlob, LiveRows, BlobsAnswered
<1> QED
  BY <1>6, <1>7, <1>8, <1>9 DEF MediaStrong

\* What the invariant says to a reader.
LEMMA MediaStrongImplies ==
  ASSUME MediaStrong
  PROVE  MediaInv
<1> USE DEF MediaStrong
<1>1. NoLostBlob
  <2> SUFFICES ASSUME windows = {}, NEW k \in blobs PROVE Tracked(k)
    BY DEF NoLostBlob
  <2>1. ASSUME NEW p \in Requests, AnswersFor(mreq[p], k) PROVE Tracked(k)
    <3>1. Busy(p)
      BY <2>1 DEF AnswersFor, Uploads, Busy
    <3>2. \/ mreq[p].kind = "upload" /\ mreq[p].key = k
          \/ k \in mreq[p].keys
          \/ \E h \in mreq[p].hooks : h[1] = k
      BY <2>1 DEF AnswersFor, Uploads
    <3> QED
      BY <3>1, <3>2 DEF Tracked
  <2>2. CASE \E r \in MediaRows : mrow[r].st = "live" /\ mrow[r].key = k
    BY <2>2 DEF Tracked, LiveRows
  <2>3. CASE k \in leaked
    BY <2>3 DEF Tracked
  <2> QED
    BY <2>1, <2>2, <2>3 DEF BlobsAnswered
<1>2. HonestReceipt
  <2> SUFFICES ASSUME NEW p \in Requests, Busy(p), mreq[p].pc = "receipt"
               PROVE  /\ mreq[p].purged \cap blobs = {}
                      /\ mreq[p].erased \subseteq mreq[p].purged \cup mreq[p].retained \cup mreq[p].failed
    BY DEF HonestReceipt
  <2>1. mreq[p].purged \cap blobs = {}
    BY DEF PurgedGone
  <2>2. mreq[p].keys = {} /\ mreq[p].erased \subseteq mreq[p].keys \cup mreq[p].purged \cup mreq[p].retained \cup mreq[p].failed
    BY DEF RequestsShaped, Shaped
  <2> QED
    BY <2>1, <2>2
<1> QED
  BY <1>1, <1>2 DEF MediaInv

\* However uploads, adoptions, removals, erasures, their collections and
\* crashes interleave: a live value has its bytes, no bytes are forgotten, and
\* the receipt of an erasure is honest.
THEOREM MediaInvariant == MediaSpec => []MediaInv
<1>1. MediaInit => MediaStrong
  BY MediaBegins
<1>2. MediaStrong /\ [MediaNext]_mediaVars => MediaStrong'
  <2> SUFFICES ASSUME MediaStrong, [MediaNext]_mediaVars PROVE MediaStrong'
    OBVIOUS
  <2>1. CASE UNCHANGED mediaVars
    BY <2>1 DEF mediaVars, MediaStrong, MediaTypeOK, RequestsShaped, LocksApart, KeysMinted, UploadsFresh, BytesThere, LiveHasBlob,
       HooksPast, OverwritesCovered, BlobsAnswered, PurgedGone, Busy, Shaped, Stages, Mentions, Uploads, Adopts, AnswersFor, LiveRows
  <2>2. CASE MediaNext
    <3>1. PICK p \in Requests : MediaRequest(p) \/ (Busy(p) /\ MediaCollection(p)) \/ CrashMedia(p)
      BY <2>2 DEF MediaNext
    <3>2. CASE MediaRequest(p)
      BY <3>2, UploadMediaKeeps, SetReferenceKeeps, RemoveValueKeeps, ListEntityKeeps, PurgeEntityKeeps, LockAttrKeeps,
         AdoptMediaValueKeeps, SetMediaKeeps, SaveListedKeeps, CommitMediaKeeps, RefuseMediaKeeps, DeleteOrphanedUploadKeeps
         DEF MediaRequest
    <3>3. CASE MediaCollection(p)
      BY <3>3, HookLockKeeps, GcMediaKeyKeeps, HooksDoneKeeps, PurgeLockKeeps, GcBlobChunkKeeps, GcBlobKeyKeeps, PurgeDoneKeeps
         DEF MediaCollection
    <3> QED
      BY <3>1, <3>2, <3>3, CrashMediaKeeps
  <2> QED
    BY <2>1, <2>2
<1>3. MediaStrong => MediaInv
  BY MediaStrongImplies
<1> QED
  BY <1>1, <1>2, <1>3, PTL DEF MediaSpec

(* Saved views. *)

\* What a field of a view may hold, and the records of the component.
ViewTexts == ViewNames \cup ViewEditors \cup {"", CHOOSE n \in ViewNames : TRUE}
ViewRecords == [name : ViewTexts, sort : ViewTexts, version : Nat]
SettingSets == {<< >>} \cup UNION {[D -> ViewTexts] : D \in SUBSET ViewFields}
EditRecords ==
    [pc : {"new", "looked", "updating", "writing", "deleting", "done"}, op : {"", "update", "patch", "delete"},
     id : ViewIds \cup {""}, set : SettingSets, known : Nat, merged : ViewRecords, base : Nat, expect : Nat]

ViewsTypes ==
    /\ views \in [ViewIds -> ViewRecords]
    /\ viewEdit \in [ViewEditors -> EditRecords]
    /\ lastSet \in [ViewIds -> [ViewFields -> ViewTexts]]
    /\ unguarded \in BOOLEAN

Acknowledged(id) == \E a \in acked : a.id = id

\* A view that is there was acknowledged, and its version is the last one.
VersionsRise ==
    /\ \A a \in acked : a.version \in Nat
    /\ \A id \in ViewIds : views[id].version > 0 =>
          /\ Acknowledged(id)
          /\ \A a \in acked : a.id = id => a.version <= views[id].version

\* The version a client saw is part of its view's past.
SeenIsPast(r) ==
    r.pc \notin {"new", "done"} =>
        /\ r.id \in ViewIds
        /\ r.known > 0 => Acknowledged(r.id)
        /\ views[r.id].version > 0 => r.known <= views[r.id].version

\* A request between its first read and its write.
Editing(r) == r.pc \in {"updating", "writing"}

\* A replacement holds every field of the request.
ReplacementWhole(r) ==
    Editing(r) /\ r.op = "update" =>
        \A f \in ViewFields : f \in DOMAIN r.set /\ r.merged[f] = r.set[f]

\* A patch holds the fields it sets and, while the view is the version it was
\* merged into, the others of the view; that version never comes back.
PatchCurrent(r) ==
    Editing(r) /\ r.op = "patch" =>
        /\ Acknowledged(r.id) /\ r.base > 0 /\ r.expect <= r.base
        /\ views[r.id].version > 0 => r.base <= views[r.id].version
        /\ \A f \in ViewFields : f \in DOMAIN r.set => r.merged[f] = r.set[f]
        /\ views[r.id].version = r.base =>
              \A f \in ViewFields : f \notin DOMAIN r.set => r.merged[f] = views[r.id][f]
        /\ r.pc = "writing" /\ r.expect > 0 => r.merged.version = r.expect

EditSound(r) ==
    /\ Editing(r) => r.op \in {"update", "patch"}
    /\ SeenIsPast(r) /\ ReplacementWhole(r) /\ PatchCurrent(r)

EditsSound == \A e \in ViewEditors : EditSound(viewEdit[e])

ViewsIInv == ViewsTypes /\ VersionsRise /\ EditsSound /\ ViewsInv

\* A merge keeps the version and takes each field from the request or the view.
LEMMA MergedView ==
  ASSUME NEW v \in ViewRecords, NEW s \in SettingSets
  PROVE  /\ Merged(v, s) \in ViewRecords
         /\ Merged(v, s).version = v.version
         /\ \A f \in ViewFields : Merged(v, s)[f] = IF f \in DOMAIN s THEN s[f] ELSE v[f]
<1>1. DOMAIN v = {"name", "sort", "version"}
  BY DEF ViewRecords
<1>2. \A f \in DOMAIN s : f \in ViewFields /\ s[f] \in ViewTexts
  BY DEF SettingSets
<1>3. "version" \notin DOMAIN s
  BY <1>2 DEF ViewFields
<1> DEFINE m == [f \in {"name", "sort", "version"} |-> IF f \in DOMAIN s THEN s[f] ELSE v[f]]
<1>4. Merged(v, s) = m
  BY <1>1 DEF Merged
<1>5. m.version = v.version /\ \A f \in ViewFields : m[f] = IF f \in DOMAIN s THEN s[f] ELSE v[f]
  BY <1>3 DEF ViewFields
<1>6. m.name \in ViewTexts /\ m.sort \in ViewTexts /\ m.version \in Nat
  BY <1>2, <1>3 DEF ViewRecords
<1>7. m = [name |-> m.name, sort |-> m.sort, version |-> m.version]
  OBVIOUS
<1>8. m \in ViewRecords
  BY <1>6, <1>7 DEF ViewRecords
<1> QED
  BY <1>4, <1>5, <1>8

\* What a request may set.
LEMMA SettingsTyped ==
  ASSUME NEW e \in ViewEditors
  PROVE  /\ Settings(e) \subseteq SettingSets
         /\ \A s \in FullSettings(e) : s \in SettingSets /\ DOMAIN s = ViewFields /\ s \in [ViewFields -> ViewTexts]
<1>1. ASSUME NEW s \in FullSettings(e) PROVE s \in [ViewFields -> ViewTexts]
  BY DEF FullSettings, ViewTexts
<1>2. \A s \in [ViewFields -> ViewTexts] : s \in SettingSets
  BY DEF SettingSets
<1>3. ASSUME NEW s \in Settings(e) PROVE s \in SettingSets
  <2>1. CASE s = [f \in {"sort"} |-> e]
    <3>1. s \in [{"sort"} -> ViewTexts] /\ {"sort"} \in SUBSET ViewFields
      BY <2>1 DEF ViewTexts, ViewFields
    <3> QED
      BY <3>1 DEF SettingSets
  <2>2. CASE \E n \in ViewNames : s = [f \in {"name"} |-> n]
    <3>1. s \in [{"name"} -> ViewTexts] /\ {"name"} \in SUBSET ViewFields
      BY <2>2 DEF ViewTexts, ViewFields
    <3> QED
      BY <3>1 DEF SettingSets
  <2> QED
    BY <2>1, <2>2 DEF Settings
<1> QED
  BY <1>1, <1>2, <1>3

\* A request without work is typed and sound.
LEMMA IdleEdits ==
  /\ NoView \in ViewRecords
  /\ NoViewEdit \in EditRecords /\ EditSound(NoViewEdit)
  /\ Finished \in EditRecords /\ EditSound(Finished)
<1>1. NoView \in ViewRecords
  BY DEF NoView, ViewRecords, ViewTexts
<1>2. << >> \in SettingSets
  BY DEF SettingSets
<1>3. NoViewEdit \in EditRecords /\ NoViewEdit.pc = "new"
  BY <1>1, <1>2 DEF NoViewEdit, EditRecords
<1>4. Finished \in EditRecords /\ Finished.pc = "done"
  BY <1>3 DEF Finished, EditRecords
<1> QED
  BY <1>1, <1>3, <1>4 DEF EditSound, SeenIsPast, ReplacementWhole, PatchCurrent, Editing

\* A request that only reads moves on by itself.
LEMMA ReadingStep ==
  ASSUME ViewsIInv, NEW e \in ViewEditors, NEW r \in EditRecords, EditSound(r),
         viewEdit' = [viewEdit EXCEPT ![e] = r], UNCHANGED <<views, lastSet, acked, unguarded>>
  PROVE  ViewsIInv'
<1>1. viewEdit \in [ViewEditors -> EditRecords]
  BY DEF ViewsIInv, ViewsTypes
<1>2. ViewsTypes'
  BY <1>1 DEF ViewsIInv, ViewsTypes
<1>3. VersionsRise'
  BY DEF ViewsIInv, VersionsRise, Acknowledged
<1>4. ASSUME NEW g \in ViewEditors PROVE EditSound(viewEdit[g])'
  <2>1. PICK q : q = viewEdit'[g]
    OBVIOUS
  <2>2. EditSound(q)
    BY <1>1, <2>1 DEF ViewsIInv, EditsSound
  <2>3. EditSound(q)'
    BY <2>2 DEF EditSound, SeenIsPast, ReplacementWhole, PatchCurrent, Editing, Acknowledged
  <2> QED
    BY <2>1, <2>3
<1>5. EditsSound'
  BY <1>4 DEF EditsSound
<1>6. ViewsInv'
  BY DEF ViewsIInv, ViewsInv, NoEditLost, OneWritePerVersion, NamesUnique, NameFree
<1> QED
  BY <1>2, <1>3, <1>5, <1>6 DEF ViewsIInv

\* A view goes, rises to its next version, or is the first of its id.
Succeeds(id, v) ==
    \/ v.version = 0
    \/ views[id].version > 0 /\ v.version = views[id].version + 1
    \/ ~Acknowledged(id) /\ v.version = 1

\* What the other requests hold stays sound when a view is written.
LEMMA EditStaysSound ==
  ASSUME ViewsIInv, NEW id \in ViewIds, NEW v \in ViewRecords, Succeeds(id, v),
         views' = [views EXCEPT ![id] = v], acked \subseteq acked',
         NEW r \in EditRecords, EditSound(r)
  PROVE  EditSound(r)'
<1>1. /\ views \in [ViewIds -> ViewRecords]
      /\ \A i \in ViewIds : views[i].version \in Nat /\ (views[i].version > 0 => Acknowledged(i))
  BY DEF ViewsIInv, ViewsTypes, ViewRecords, VersionsRise
<1>2. /\ v.version \in Nat /\ r.known \in Nat /\ r.base \in Nat
      /\ views'[id] = v /\ \A i \in ViewIds \ {id} : views'[i] = views[i]
  BY <1>1 DEF ViewRecords, EditRecords
<1>3. \A i : Acknowledged(i) => Acknowledged(i)'
  BY DEF Acknowledged
<1>4. SeenIsPast(r)'
  <2> SUFFICES ASSUME r.pc \notin {"new", "done"}
      PROVE  /\ r.id \in ViewIds
             /\ r.known > 0 => Acknowledged(r.id)'
             /\ views'[r.id].version > 0 => r.known <= views'[r.id].version
    BY DEF SeenIsPast
  <2>1. r.id \in ViewIds /\ (r.known > 0 => Acknowledged(r.id)) /\ (views[r.id].version > 0 => r.known <= views[r.id].version)
    BY DEF EditSound, SeenIsPast
  <2>2. CASE r.id # id
    BY <1>2, <1>3, <2>1, <2>2
  <2>3. CASE r.id = id
    <3>1. v.version > 0 => r.known <= v.version
      BY <1>1, <1>2, <2>1, <2>3 DEF Succeeds
    <3> QED
      BY <1>2, <1>3, <2>1, <2>3, <3>1
  <2> QED
    BY <2>2, <2>3
<1>5. PatchCurrent(r)'
  <2> SUFFICES ASSUME Editing(r), r.op = "patch"
      PROVE  /\ Acknowledged(r.id)' /\ r.base > 0 /\ r.expect <= r.base
             /\ views'[r.id].version > 0 => r.base <= views'[r.id].version
             /\ \A f \in ViewFields : f \in DOMAIN r.set => r.merged[f] = r.set[f]
             /\ views'[r.id].version = r.base =>
                   \A f \in ViewFields : f \notin DOMAIN r.set => r.merged[f] = views'[r.id][f]
             /\ r.pc = "writing" /\ r.expect > 0 => r.merged.version = r.expect
    BY DEF PatchCurrent, Editing
  <2>1. /\ Acknowledged(r.id) /\ r.base > 0 /\ r.expect <= r.base
        /\ views[r.id].version > 0 => r.base <= views[r.id].version
        /\ \A f \in ViewFields : f \in DOMAIN r.set => r.merged[f] = r.set[f]
        /\ views[r.id].version = r.base =>
              \A f \in ViewFields : f \notin DOMAIN r.set => r.merged[f] = views[r.id][f]
        /\ r.pc = "writing" /\ r.expect > 0 => r.merged.version = r.expect
    BY DEF EditSound, PatchCurrent
  <2>2. r.id \in ViewIds
    BY DEF EditSound, SeenIsPast, Editing
  <2>3. CASE r.id # id
    BY <1>2, <1>3, <2>1, <2>2, <2>3
  <2>4. CASE r.id = id
    <3>1. v.version = 0 \/ r.base < v.version
      BY <1>1, <1>2, <2>1, <2>4 DEF Succeeds
    <3>2. v.version # r.base /\ (v.version > 0 => r.base <= v.version)
      BY <1>2, <2>1, <3>1
    <3> QED
      BY <1>2, <1>3, <2>1, <2>4, <3>2
  <2> QED
    BY <2>3, <2>4
<1> QED
  BY <1>4, <1>5 DEF EditSound, ReplacementWhole, Editing

\* A write or a removal: the request ends, the others stay sound.
LEMMA EditsStaySound ==
  ASSUME ViewsIInv, NEW e \in ViewEditors, NEW id \in ViewIds, NEW v \in ViewRecords, Succeeds(id, v),
         views' = [views EXCEPT ![id] = v], acked \subseteq acked',
         viewEdit' = [viewEdit EXCEPT ![e] = Finished]
  PROVE  EditsSound' /\ viewEdit' \in [ViewEditors -> EditRecords] /\ views' \in [ViewIds -> ViewRecords]
<1>1. viewEdit \in [ViewEditors -> EditRecords] /\ views \in [ViewIds -> ViewRecords]
  BY DEF ViewsIInv, ViewsTypes
<1>2. viewEdit' \in [ViewEditors -> EditRecords] /\ views' \in [ViewIds -> ViewRecords]
  BY <1>1, IdleEdits
<1>3. ASSUME NEW g \in ViewEditors PROVE EditSound(viewEdit[g])'
  <2>1. PICK q : q = viewEdit'[g]
    OBVIOUS
  <2>2. q \in EditRecords /\ EditSound(q)
    BY <1>1, <2>1, IdleEdits DEF ViewsIInv, EditsSound
  <2>3. EditSound(q)'
    BY <2>2, EditStaysSound
  <2> QED
    BY <2>1, <2>3
<1> QED
  BY <1>2, <1>3 DEF EditsSound

\* An acknowledged write: the version is new, the name is free, and the fields
\* are those that were last set, or the exception is noted.
LEMMA WritingStep ==
  ASSUME ViewsIInv, NEW e \in ViewEditors, NEW id \in ViewIds, NEW v \in ViewRecords, NEW ls \in [ViewFields -> ViewTexts],
         v.version > 0, Succeeds(id, v), NameFree(id, v.name),
         views' = [views EXCEPT ![id] = v], lastSet' = [lastSet EXCEPT ![id] = ls],
         acked' = acked \cup {[id |-> id, version |-> v.version, by |-> e]},
         viewEdit' = [viewEdit EXCEPT ![e] = Finished],
         unguarded' \in BOOLEAN, unguarded => unguarded',
         ~unguarded' => \A f \in ViewFields : v[f] = ls[f]
  PROVE  ViewsIInv'
<1>1. /\ views \in [ViewIds -> ViewRecords] /\ lastSet \in [ViewIds -> [ViewFields -> ViewTexts]]
      /\ \A i \in ViewIds : views[i].version \in Nat
      /\ \A a \in acked : a.version \in Nat
      /\ \A i \in ViewIds : views[i].version > 0 => \A a \in acked : a.id = i => a.version <= views[i].version
      /\ \A i \in ViewIds : views[i].version > 0 => Acknowledged(i)
  BY DEF ViewsIInv, ViewsTypes, ViewRecords, VersionsRise
<1>2. /\ v.version \in Nat
      /\ views'[id] = v /\ \A i \in ViewIds \ {id} : views'[i] = views[i]
      /\ lastSet'[id] = ls /\ \A i \in ViewIds \ {id} : lastSet'[i] = lastSet[i]
  BY <1>1 DEF ViewRecords
<1>3. EditsSound' /\ viewEdit' \in [ViewEditors -> EditRecords] /\ views' \in [ViewIds -> ViewRecords]
  BY EditsStaySound
<1>4. ViewsTypes'
  BY <1>1, <1>3 DEF ViewsTypes
<1> DEFINE new == [id |-> id, version |-> v.version, by |-> e]
<1>5. new.id = id /\ new.version = v.version /\ new \in acked'
  OBVIOUS
<1>6. \A a \in acked : a.id = id => a.version < v.version
  <2>1. CASE views[id].version > 0 /\ v.version = views[id].version + 1
    BY <1>1, <2>1
  <2>2. CASE ~Acknowledged(id)
    BY <2>2 DEF Acknowledged
  <2> QED
    BY <1>2, <2>1, <2>2 DEF Succeeds
<1>7. \A a \in acked' : a \in acked \/ a = new
  OBVIOUS
<1> HIDE DEF new
<1>8. VersionsRise'
  <2>1. \A a \in acked' : a.version \in Nat
    BY <1>1, <1>2, <1>5, <1>7
  <2>2. ASSUME NEW i \in ViewIds, views'[i].version > 0
        PROVE  Acknowledged(i)' /\ \A a \in acked' : a.id = i => a.version <= views'[i].version
    <3>1. CASE i = id
      BY <1>1, <1>2, <1>5, <1>6, <1>7, <3>1 DEF Acknowledged
    <3>2. CASE i # id
      <4>1. views'[i] = views[i] /\ Acknowledged(i)
        BY <1>1, <1>2, <2>2, <3>2
      <4> QED
        BY <1>1, <1>2, <1>5, <1>7, <2>2, <3>2, <4>1 DEF Acknowledged
    <3> QED
      BY <3>1, <3>2
  <2> QED
    BY <2>1, <2>2 DEF VersionsRise
<1>9. OneWritePerVersion'
  <2>1. \A a, b \in acked : a.id = b.id /\ a.version = b.version => a = b
    BY DEF ViewsIInv, ViewsInv, OneWritePerVersion
  <2>2. \A a \in acked : a.id = id => a.version # v.version
    BY <1>1, <1>2, <1>6
  <2>3. \A a, b \in acked' : a.id = b.id /\ a.version = b.version => a = b
    BY <1>5, <1>7, <2>1, <2>2
  <2> QED
    BY <2>3 DEF OneWritePerVersion
<1>10. NamesUnique'
  <2> SUFFICES ASSUME NEW i \in ViewIds, views'[i].version > 0, NEW other \in ViewIds \ {i},
                      views'[other].version # 0, views'[other].name = views'[i].name
               PROVE  FALSE
    BY DEF NamesUnique, NameFree
  <2>1. \A o \in ViewIds \ {id} : views[o].version = 0 \/ views[o].name # v.name
    BY DEF NameFree
  <2>2. CASE i # id /\ other # id
    <3>1. views[i].version > 0 /\ views[other].version # 0 /\ views[other].name = views[i].name
      BY <1>2, <2>2
    <3> QED
      BY <3>1 DEF ViewsIInv, ViewsInv, NamesUnique, NameFree
  <2>3. CASE i = id
    BY <1>2, <2>1, <2>3
  <2>4. CASE other = id
    BY <1>1, <1>2, <2>1, <2>4
  <2> QED
    BY <2>2, <2>3, <2>4
<1>11. NoEditLost'
  <2> SUFFICES ASSUME ~unguarded', NEW i \in ViewIds, views'[i].version > 0, NEW f \in ViewFields
               PROVE  views'[i][f] = lastSet'[i][f]
    BY DEF NoEditLost
  <2>1. CASE i = id
    BY <1>2, <2>1
  <2>2. CASE i # id
    BY <1>2, <2>2 DEF ViewsIInv, ViewsInv, NoEditLost
  <2> QED
    BY <2>1, <2>2
<1> QED
  BY <1>3, <1>4, <1>8, <1>9, <1>10, <1>11 DEF ViewsIInv, ViewsInv

\* A request's own update of some of its fields.
LEMMA ReadingActions ==
  ASSUME ViewsIInv, NEW e \in ViewEditors,
         \/ \E id \in ViewIds : Look(e, id)
         \/ \E s \in FullSettings(e) : BeginUpdate(e, s)
         \/ \E s \in Settings(e), named \in {"none", "read", "zero"} : BeginPatch(e, s, named)
         \/ ReadForUpdate(e) \/ BeginDelete(e)
  PROVE  ViewsIInv'
<1>1. /\ viewEdit \in [ViewEditors -> EditRecords] /\ viewEdit[e] \in EditRecords
      /\ views \in [ViewIds -> ViewRecords] /\ EditSound(viewEdit[e])
      /\ \A i \in ViewIds : views[i].version \in Nat /\ (views[i].version > 0 => Acknowledged(i))
  BY DEF ViewsIInv, ViewsTypes, EditsSound, ViewRecords, VersionsRise
<1> DEFINE old == viewEdit[e]
<1>2. UNCHANGED <<views, lastSet, acked, unguarded>>
  BY DEF Look, BeginUpdate, BeginPatch, ReadForUpdate, BeginDelete
<1>3. \A r \in EditRecords : EditSound(r) /\ viewEdit' = [viewEdit EXCEPT ![e] = r] => ViewsIInv'
  BY <1>2, ReadingStep
<1>4. CASE \E id \in ViewIds : Look(e, id)
  <2>1. PICK id \in ViewIds : Look(e, id)
    BY <1>4
  <2> DEFINE r == [NoViewEdit EXCEPT !.pc = "looked", !.id = id, !.known = views[id].version]
  <2>2. r \in EditRecords /\ r.pc = "looked" /\ r.id = id /\ r.known = views[id].version
    BY <1>1, IdleEdits DEF EditRecords
  <2>3. EditSound(r)
    <3> HIDE DEF r
    <3>1. SeenIsPast(r)
      BY <1>1, <2>2 DEF SeenIsPast
    <3> QED
      BY <2>2, <3>1 DEF EditSound, ReplacementWhole, PatchCurrent, Editing
  <2>4. viewEdit' = [viewEdit EXCEPT ![e] = r]
    BY <2>1 DEF Look
  <2> QED
    BY <1>3, <2>2, <2>3, <2>4
<1>5. CASE \E s \in FullSettings(e) : BeginUpdate(e, s)
  <2>1. PICK s \in FullSettings(e) : BeginUpdate(e, s)
    BY <1>5
  <2>2. s \in SettingSets /\ DOMAIN s = ViewFields
    BY SettingsTyped
  <2> DEFINE m == Merged(NoView, s)
  <2>3. m \in ViewRecords /\ \A f \in ViewFields : m[f] = s[f]
    BY <2>2, IdleEdits, MergedView
  <2> HIDE DEF m
  <2> DEFINE r == [old EXCEPT !.pc = "updating", !.op = "update", !.set = s, !.merged = m]
  <2>4. /\ r \in EditRecords /\ r.pc = "updating" /\ r.op = "update" /\ r.set = s /\ r.merged = m
        /\ r.id = old.id /\ r.known = old.known
    BY <1>1, <2>2, <2>3 DEF EditRecords
  <2>5. viewEdit' = [viewEdit EXCEPT ![e] = r] /\ old.pc = "looked"
    BY <1>1, <2>1 DEF BeginUpdate, m
  <2>6. EditSound(r)
    <3> HIDE DEF r
    <3>1. SeenIsPast(r)
      BY <1>1, <2>4, <2>5 DEF EditSound, SeenIsPast
    <3> QED
      BY <2>2, <2>3, <2>4, <3>1 DEF EditSound, ReplacementWhole, PatchCurrent, Editing
  <2> QED
    BY <1>3, <2>4, <2>5, <2>6
<1>6. CASE \E s \in Settings(e), named \in {"none", "read", "zero"} : BeginPatch(e, s, named)
  <2>1. PICK s \in Settings(e), named \in {"none", "read", "zero"} : BeginPatch(e, s, named)
    BY <1>6
  <2>2. s \in SettingSets
    BY SettingsTyped
  <2>3. old.pc = "looked"
    BY <2>1 DEF BeginPatch
  <2>4. old.id \in ViewIds /\ old.known \in Nat
    BY <1>1, <2>3 DEF EditSound, SeenIsPast, EditRecords
  <2> DEFINE v == views[old.id]
  <2>5. CASE v.version = 0
    BY <1>3, <2>1, <2>5, IdleEdits DEF BeginPatch
  <2>6. CASE v.version # 0
    <3> DEFINE m == Merged(v, s)
    <3> DEFINE x == CASE named = "none" -> v.version [] named = "read" -> old.known [] OTHER -> 0
    <3>1. v \in ViewRecords /\ v.version \in Nat /\ v.version > 0 /\ Acknowledged(old.id)
      BY <1>1, <2>4, <2>6
    <3>2. m \in ViewRecords /\ \A f \in ViewFields : m[f] = IF f \in DOMAIN s THEN s[f] ELSE v[f]
      BY <2>2, <3>1, MergedView
    <3>3. old.known <= v.version
      BY <1>1, <2>3, <3>1 DEF EditSound, SeenIsPast
    <3>4. x \in Nat /\ x <= v.version
      <4>1. CASE named = "none"
        BY <3>1, <4>1
      <4>2. CASE named = "read"
        BY <2>4, <3>3, <4>2
      <4>3. CASE named = "zero"
        BY <3>1, <4>3
      <4> QED
        BY <4>1, <4>2, <4>3
    <3> DEFINE r == [old EXCEPT !.pc = "updating", !.op = "patch", !.set = s, !.merged = m, !.base = v.version, !.expect = x]
    <3>5. viewEdit' = [viewEdit EXCEPT ![e] = r]
      BY <1>1, <2>1, <2>6 DEF BeginPatch
    <3> HIDE DEF m, x
    <3>6. /\ r \in EditRecords /\ r.pc = "updating" /\ r.op = "patch" /\ r.set = s /\ r.merged = m
          /\ r.id = old.id /\ r.known = old.known /\ r.base = v.version /\ r.expect = x
      BY <1>1, <2>2, <3>1, <3>2, <3>4 DEF EditRecords
    <3>7. EditSound(r)
      <4> HIDE DEF r
      <4>1. SeenIsPast(r)
        BY <1>1, <2>3, <3>6 DEF EditSound, SeenIsPast
      <4>2. PatchCurrent(r)
        BY <3>1, <3>2, <3>4, <3>6 DEF PatchCurrent
      <4> QED
        BY <3>6, <4>1, <4>2 DEF EditSound, ReplacementWhole, Editing
    <3> QED
      BY <1>3, <3>5, <3>6, <3>7
  <2> QED
    BY <2>5, <2>6
<1>7. CASE ReadForUpdate(e)
  <2>1. old.pc = "updating"
    BY <1>7 DEF ReadForUpdate
  <2>2. old.id \in ViewIds /\ old.expect \in Nat /\ old.merged \in ViewRecords
    BY <1>1, <2>1 DEF EditSound, SeenIsPast, EditRecords
  <2> DEFINE v == views[old.id]
  <2>3. CASE v.version = 0
    BY <1>3, <1>7, <2>3, IdleEdits DEF ReadForUpdate
  <2>4. CASE v.version # 0
    <3> DEFINE x == VersionToMatch(old.expect, v.version)
    <3>1. x \in Nat /\ (old.expect > 0 => x = old.expect)
      BY <1>1, <2>2 DEF VersionToMatch
    <3> DEFINE r == [old EXCEPT !.pc = "writing", !.merged.version = x]
    <3>2. viewEdit' = [viewEdit EXCEPT ![e] = r]
      BY <1>1, <1>7, <2>4 DEF ReadForUpdate
    <3> HIDE DEF x
    <3>3. /\ r \in EditRecords /\ r.pc = "writing" /\ r.op = old.op /\ r.set = old.set
          /\ r.merged.version = x /\ r.merged.name = old.merged.name /\ r.merged.sort = old.merged.sort
          /\ r.id = old.id /\ r.known = old.known /\ r.base = old.base /\ r.expect = old.expect
      BY <1>1, <2>2, <3>1 DEF EditRecords, ViewRecords
    <3>4. EditSound(r)
      <4> HIDE DEF r
      <4>1. SeenIsPast(r)
        BY <1>1, <2>1, <3>3 DEF EditSound, SeenIsPast
      <4>2. \A f \in ViewFields : r.merged[f] = old.merged[f]
        BY <3>3 DEF ViewFields
      <4>3. ReplacementWhole(r)
        BY <1>1, <2>1, <3>3, <4>2 DEF EditSound, ReplacementWhole, Editing
      <4>4. PatchCurrent(r)
        BY <1>1, <2>1, <3>1, <3>3, <4>2 DEF EditSound, PatchCurrent, Editing
      <4>5. r.op \in {"update", "patch"}
        BY <1>1, <2>1, <3>3 DEF EditSound, Editing
      <4> QED
        BY <4>1, <4>3, <4>4, <4>5 DEF EditSound
    <3> QED
      BY <1>3, <3>2, <3>3, <3>4
  <2> QED
    BY <2>3, <2>4
<1>8. CASE BeginDelete(e)
  <2>1. old.pc = "looked"
    BY <1>8 DEF BeginDelete
  <2>2. CASE views[old.id].version = 0
    BY <1>1, <1>3, <1>8, <2>2, IdleEdits DEF BeginDelete
  <2>3. CASE views[old.id].version # 0
    <3> DEFINE r == [old EXCEPT !.pc = "deleting", !.op = "delete"]
    <3>1. viewEdit' = [viewEdit EXCEPT ![e] = r]
      BY <1>1, <1>8, <2>3 DEF BeginDelete
    <3>2. r \in EditRecords /\ r.pc = "deleting" /\ r.id = old.id /\ r.known = old.known
      BY <1>1 DEF EditRecords
    <3>3. EditSound(r)
      <4> HIDE DEF r
      <4>1. SeenIsPast(r)
        BY <1>1, <2>1, <3>2 DEF EditSound, SeenIsPast
      <4> QED
        BY <3>2, <4>1 DEF EditSound, ReplacementWhole, PatchCurrent, Editing
    <3> QED
      BY <1>3, <3>1, <3>2, <3>3
  <2> QED
    BY <2>2, <2>3
<1> QED
  BY <1>4, <1>5, <1>6, <1>7, <1>8

\* The compare-and-swap of an edit.
LEMMA WriteViewStep ==
  ASSUME ViewsIInv, NEW e \in ViewEditors, WriteView(e)
  PROVE  ViewsIInv'
<1> DEFINE old == viewEdit[e]
<1> DEFINE id == old.id
<1> DEFINE new == old.merged
<1> DEFINE fits == VersionMatches(views[id].version, new.version) /\ NameFree(id, new.name)
<1> DEFINE note == fits /\ old.op = "patch" /\ old.expect = 0 /\ old.base # views[id].version
<1>1. /\ old.pc = "writing" /\ viewEdit' = [viewEdit EXCEPT ![e] = Finished]
      /\ unguarded' = (unguarded \/ note)
      /\ IF fits THEN Acknowledge(e, id, [new EXCEPT !.version = views[id].version + 1]) ELSE UNCHANGED <<views, lastSet, acked>>
  BY DEF WriteView
<1>2. /\ old \in EditRecords /\ EditSound(old)
      /\ views \in [ViewIds -> ViewRecords] /\ lastSet \in [ViewIds -> [ViewFields -> ViewTexts]] /\ unguarded \in BOOLEAN
      /\ \A i \in ViewIds : views[i].version \in Nat
  BY DEF ViewsIInv, ViewsTypes, EditsSound, ViewRecords
<1>3. /\ id \in ViewIds /\ new \in ViewRecords /\ old.expect \in Nat /\ old.base \in Nat /\ old.set \in SettingSets
      /\ new.version \in Nat /\ old.op \in {"update", "patch"}
  BY <1>1, <1>2 DEF EditSound, SeenIsPast, EditRecords, Editing, ViewRecords
<1>4. CASE ~fits
  <2>1. UNCHANGED <<views, lastSet, acked, unguarded>>
    <3> HIDE DEF fits
    <3>1. unguarded' = unguarded
      BY <1>1, <1>2, <1>4
    <3> QED
      BY <1>1, <1>4, <3>1
  <2> QED
    BY <1>1, <2>1, IdleEdits, ReadingStep
<1>5. CASE fits
  <2> DEFINE v == [new EXCEPT !.version = views[id].version + 1]
  <2> DEFINE ls == [f \in ViewFields |-> IF f \in DOMAIN old.set THEN old.set[f] ELSE lastSet[id][f]]
  <2>1. /\ views' = [views EXCEPT ![id] = v]
        /\ lastSet' = [lastSet EXCEPT ![id] = ls]
        /\ acked' = acked \cup {[id |-> id, version |-> v.version, by |-> e]}
    <3>1. Acknowledge(e, id, v)
      BY <1>1, <1>5
    <3>2. lastSet' = [lastSet EXCEPT ![id] = [f \in ViewFields |-> IF f \in DOMAIN old.set THEN old.set[f] ELSE @[f]]]
      BY <3>1 DEF Acknowledge
    <3> QED
      BY <1>2, <1>3, <3>1, <3>2 DEF Acknowledge
  <2>2. views[id].version > 0 /\ views[id].version = new.version /\ NameFree(id, new.name)
    BY <1>5 DEF VersionMatches
  <2>3. v \in ViewRecords /\ v.version = views[id].version + 1 /\ v.name = new.name /\ v.sort = new.sort
    BY <1>2, <1>3 DEF ViewRecords
  <2>4. ls \in [ViewFields -> ViewTexts]
    <3>1. \A f \in DOMAIN old.set : old.set[f] \in ViewTexts
      BY <1>3 DEF SettingSets
    <3> QED
      BY <1>2, <1>3, <3>1
  <2>5. unguarded' \in BOOLEAN /\ (unguarded => unguarded')
    BY <1>1, <1>2
  <2>6. \A f \in ViewFields : v[f] = new[f]
    BY <2>3 DEF ViewFields
  <2>7. ASSUME ~unguarded', NEW f \in ViewFields PROVE v[f] = ls[f]
    <3>1. CASE old.op = "update"
      BY <1>1, <1>2, <2>6, <3>1 DEF EditSound, ReplacementWhole, Editing
    <3>2. CASE old.op = "patch"
      <4>1. /\ old.base > 0 /\ old.expect <= old.base
            /\ views[id].version > 0 => old.base <= views[id].version
            /\ \A g \in ViewFields : g \in DOMAIN old.set => new[g] = old.set[g]
            /\ views[id].version = old.base => \A g \in ViewFields : g \notin DOMAIN old.set => new[g] = views[id][g]
            /\ old.expect > 0 => new.version = old.expect
        BY <1>1, <1>2, <3>2 DEF EditSound, PatchCurrent, Editing
      <4>2. views[id].version = old.base
        <5>1. CASE old.expect = 0
          <6>1. ~note
            BY <1>1, <1>2, <2>7
          <6> QED
            BY <1>5, <3>2, <5>1, <6>1
        <5>2. CASE old.expect > 0
          <6>1. views[id].version \in Nat /\ old.base \in Nat /\ views[id].version > 0
            BY <1>2, <1>3, <2>2
          <6>2. views[id].version = old.expect
            BY <2>2, <4>1, <5>2
          <6>3. old.base <= views[id].version /\ views[id].version <= old.base
            BY <4>1, <6>1, <6>2
          <6> QED
            BY <6>1, <6>3
        <5> QED
          BY <1>3, <5>1, <5>2
      <4>3. views[id][f] = lastSet[id][f]
        <5>1. ~unguarded
          BY <2>5, <2>7
        <5> QED
          BY <1>3, <2>2, <5>1 DEF ViewsIInv, ViewsInv, NoEditLost
      <4> QED
        BY <2>6, <4>1, <4>2, <4>3
    <3> QED
      BY <1>3, <3>1, <3>2
  <2>8. Succeeds(id, v) /\ v.version > 0 /\ NameFree(id, v.name)
    BY <1>2, <1>3, <2>2, <2>3 DEF Succeeds
  <2>9. PICK w : w = v
    OBVIOUS
  <2>10. PICK i : i = id
    OBVIOUS
  <2>11. PICK l : l = ls
    OBVIOUS
  <2> HIDE DEF v, ls, id
  <2>12. /\ i \in ViewIds /\ w \in ViewRecords /\ l \in [ViewFields -> ViewTexts]
         /\ w.version > 0 /\ Succeeds(i, w) /\ NameFree(i, w.name)
         /\ views' = [views EXCEPT ![i] = w] /\ lastSet' = [lastSet EXCEPT ![i] = l]
         /\ acked' = acked \cup {[id |-> i, version |-> w.version, by |-> e]}
         /\ ~unguarded' => \A f \in ViewFields : w[f] = l[f]
    BY <1>3, <2>1, <2>3, <2>4, <2>7, <2>8, <2>9, <2>10, <2>11
  <2> QED
    BY <1>1, <2>5, <2>12, WritingStep
<1> QED
  BY <1>4, <1>5

\* A creation with a free name, or one that is refused.
LEMMA CreateViewStep ==
  ASSUME ViewsIInv, NEW e \in ViewEditors, NEW id \in ViewIds, NEW s \in FullSettings(e), CreateView(e, id, s)
  PROVE  ViewsIInv'
<1>1. /\ views[id].version = 0 /\ ~Acknowledged(id)
      /\ viewEdit' = [viewEdit EXCEPT ![e] = Finished] /\ unguarded' = unguarded
  BY DEF CreateView, Acknowledged
<1>2. s \in SettingSets /\ DOMAIN s = ViewFields /\ s \in [ViewFields -> ViewTexts]
  BY SettingsTyped
<1>3. unguarded \in BOOLEAN
  BY DEF ViewsIInv, ViewsTypes
<1>4. CASE ~NameFree(id, s.name)
  <2>1. UNCHANGED <<views, lastSet, acked, unguarded>>
    BY <1>4 DEF CreateView
  <2> QED
    BY <1>1, <2>1, IdleEdits, ReadingStep
<1>5. CASE NameFree(id, s.name)
  <2> DEFINE m == Merged(NoView, s)
  <2>1. m \in ViewRecords /\ \A f \in ViewFields : m[f] = s[f]
    BY <1>2, IdleEdits, MergedView
  <2> DEFINE v == [m EXCEPT !.version = 1]
  <2>2. views' = [views EXCEPT ![id] = v] /\ lastSet' = [lastSet EXCEPT ![id] = s]
        /\ acked' = acked \cup {[id |-> id, version |-> 1, by |-> e]}
    BY <1>5 DEF CreateView
  <2> HIDE DEF m
  <2>3. v \in ViewRecords /\ v.version = 1 /\ v.name = m.name /\ v.sort = m.sort
    BY <2>1 DEF ViewRecords
  <2>4. \A f \in ViewFields : v[f] = s[f]
    BY <2>1, <2>3 DEF ViewFields
  <2>5. v.name = s.name
    BY <2>4 DEF ViewFields
  <2>6. PICK w : w = v
    OBVIOUS
  <2> HIDE DEF v
  <2>7. /\ w \in ViewRecords /\ w.version > 0 /\ Succeeds(id, w) /\ NameFree(id, w.name)
        /\ views' = [views EXCEPT ![id] = w]
        /\ acked' = acked \cup {[id |-> id, version |-> w.version, by |-> e]}
        /\ \A f \in ViewFields : w[f] = s[f]
    BY <1>1, <1>5, <2>2, <2>3, <2>4, <2>5, <2>6 DEF Succeeds
  <2> QED
    BY <1>1, <1>2, <1>3, <2>2, <2>7, WritingStep
<1> QED
  BY <1>4, <1>5

\* A removal.
LEMMA RemoveViewStep ==
  ASSUME ViewsIInv, NEW e \in ViewEditors, RemoveView(e)
  PROVE  ViewsIInv'
<1>1. viewEdit[e].id \in ViewIds
  BY DEF ViewsIInv, EditsSound, EditSound, SeenIsPast, RemoveView
<1>2. PICK id : id = viewEdit[e].id
  OBVIOUS
<1>3. /\ id \in ViewIds /\ views' = [views EXCEPT ![id] = NoView] /\ UNCHANGED <<lastSet, acked, unguarded>>
      /\ viewEdit' = [viewEdit EXCEPT ![e] = Finished] /\ NoView \in ViewRecords /\ NoView.version = 0
  BY <1>1, <1>2, IdleEdits DEF RemoveView, NoView
<1>4. views \in [ViewIds -> ViewRecords]
  BY DEF ViewsIInv, ViewsTypes
<1>5. Succeeds(id, NoView)
  BY <1>3 DEF Succeeds
<1>6. EditsSound' /\ viewEdit' \in [ViewEditors -> EditRecords] /\ views' \in [ViewIds -> ViewRecords]
  BY <1>3, <1>5, EditsStaySound
<1>7. ViewsTypes'
  BY <1>3, <1>6 DEF ViewsIInv, ViewsTypes
<1>8. views'[id].version = 0 /\ \A i \in ViewIds \ {id} : views'[i] = views[i]
  BY <1>3, <1>4
<1>9. VersionsRise'
  BY <1>3, <1>8 DEF ViewsIInv, VersionsRise, Acknowledged
<1>10. NoEditLost' /\ OneWritePerVersion'
  BY <1>3, <1>8 DEF ViewsIInv, ViewsInv, NoEditLost, OneWritePerVersion
<1>11. NamesUnique'
  BY <1>8 DEF ViewsIInv, ViewsInv, NamesUnique, NameFree
<1> QED
  BY <1>6, <1>7, <1>9, <1>10, <1>11 DEF ViewsIInv, ViewsInv

\* The first view is the only one, and nobody edits it.
LEMMA ViewsStart == ViewsInit => ViewsIInv
<1> SUFFICES ASSUME ViewsInit PROVE ViewsIInv
  OBVIOUS
<1> DEFINE first == [NoView EXCEPT !.name = CHOOSE n \in ViewNames : TRUE, !.version = 1]
<1>1. /\ views = [id \in ViewIds |-> IF id = FirstView THEN first ELSE NoView]
      /\ viewEdit = [e \in ViewEditors |-> NoViewEdit]
      /\ lastSet = [id \in ViewIds |-> [f \in ViewFields |-> views[id][f]]]
      /\ acked = {[id |-> FirstView, version |-> 1, by |-> ""]} /\ unguarded = FALSE
  BY DEF ViewsInit
<1>2. first \in ViewRecords /\ first.version = 1 /\ NoView \in ViewRecords /\ NoView.version = 0
  BY DEF ViewRecords, NoView, ViewTexts
<1> HIDE DEF first
<1>3. views \in [ViewIds -> ViewRecords]
  BY <1>1, <1>2
<1>4. \A id \in ViewIds, f \in ViewFields : views[id][f] \in ViewTexts
  BY <1>3 DEF ViewRecords, ViewFields
<1>5. ViewsTypes
  BY <1>1, <1>3, <1>4, IdleEdits DEF ViewsTypes
<1>6. ASSUME NEW id \in ViewIds, views[id].version > 0 PROVE id = FirstView /\ views[id].version = 1
  <2>1. views[id] = IF id = FirstView THEN first ELSE NoView
    BY <1>1
  <2>2. ~(NoView.version > 0)
    BY <1>2
  <2> QED
    BY <1>2, <1>6, <2>1, <2>2
<1>7. ASSUME NEW a \in acked PROVE a.id = FirstView /\ a.version = 1
  <2>1. a = [id |-> FirstView, version |-> 1, by |-> ""]
    BY <1>1
  <2> QED
    BY <2>1
<1>8. Acknowledged(FirstView)
  BY <1>1 DEF Acknowledged
<1>9. VersionsRise
  BY <1>6, <1>7, <1>8 DEF VersionsRise
<1>10. EditsSound
  BY <1>1, IdleEdits DEF EditsSound
<1>11. NoEditLost /\ OneWritePerVersion
  BY <1>1 DEF NoEditLost, OneWritePerVersion
<1>12. \A id \in ViewIds : views[id].version \in Nat
  BY <1>3 DEF ViewRecords
<1>13. NamesUnique
  BY <1>6, <1>12 DEF NamesUnique, NameFree
<1> QED
  BY <1>5, <1>9, <1>10, <1>11, <1>13 DEF ViewsIInv, ViewsInv

\* Saved views: no acknowledged edit is lost, no two acknowledged writes make
\* one version of a view and no two views share a name, for every set of
\* concurrent requests, views and names.
THEOREM ViewsInvariant == ViewsSpec => []ViewsInv
<1>1. ViewsIInv /\ [ViewsNext]_viewVars => ViewsIInv'
  <2> SUFFICES ASSUME ViewsIInv, [ViewsNext]_viewVars PROVE ViewsIInv'
    OBVIOUS
  <2>1. CASE ViewsNext
    <3>1. PICK e \in ViewEditors :
            \/ \E id \in ViewIds : Look(e, id) \/ \E s \in FullSettings(e) : CreateView(e, id, s)
            \/ \E s \in FullSettings(e) : BeginUpdate(e, s)
            \/ \E s \in Settings(e), named \in {"none", "read", "zero"} : BeginPatch(e, s, named)
            \/ ReadForUpdate(e) \/ WriteView(e) \/ BeginDelete(e) \/ RemoveView(e)
      BY <2>1 DEF ViewsNext
    <3>2. CASE \E id \in ViewIds, s \in FullSettings(e) : CreateView(e, id, s)
      BY <3>2, CreateViewStep
    <3>3. CASE WriteView(e)
      BY <3>3, WriteViewStep
    <3>4. CASE RemoveView(e)
      BY <3>4, RemoveViewStep
    <3>5. CASE \/ \E id \in ViewIds : Look(e, id)
               \/ \E s \in FullSettings(e) : BeginUpdate(e, s)
               \/ \E s \in Settings(e), named \in {"none", "read", "zero"} : BeginPatch(e, s, named)
               \/ ReadForUpdate(e) \/ BeginDelete(e)
      BY <3>5, ReadingActions
    <3> QED
      BY <3>1, <3>2, <3>3, <3>4, <3>5
  <2>2. CASE UNCHANGED viewVars
    BY <2>2 DEF viewVars, ViewsIInv, ViewsTypes, VersionsRise, EditsSound, EditSound, SeenIsPast, ReplacementWhole,
                PatchCurrent, Editing, Acknowledged, ViewsInv, NoEditLost, OneWritePerVersion, NamesUnique, NameFree
  <2> QED
    BY <2>1, <2>2
<1>2. ViewsIInv => ViewsInv
  BY DEF ViewsIInv
<1> QED
  BY <1>1, <1>2, ViewsStart, PTL DEF ViewsSpec
=============================================================================

--------------------------- MODULE PaperLimitsProofs ---------------------------
(***************************************************************************)
(* Theorems about the limits of PaperManifest: what the loop over the      *)
(* risk decisions of a cycle computes, and why the exposure cap and the    *)
(* limit of direct buys hold whatever manifests, fills and cycles do.      *)
(*                                                                         *)
(* The loop is a recursive function over the places of the report list.    *)
(* What it computes is proved with the least place at which a claim would  *)
(* fail: LeastNumber takes the place of an induction rule.                 *)
(***************************************************************************)
EXTENDS PaperManifestProofs, FiniteSetTheorems

-------------------------------------------------------------------------------
(* Numbers and finite sets. *)

\* A set of numbers that is not empty has a least element.
LEMMA LeastNumber ==
  ASSUME NEW T \in SUBSET Nat, T # {}
  PROVE  \E n \in T : \A m \in T : n <= m
<1> DEFINE R == OpToRel(<, Nat)
<1>1. IsWellFoundedOn(R, Nat)
  BY Zenon, NatLessThanWellFounded
<1>2. \A m, n \in Nat : m < n => <<m, n>> \in R
  BY Zenon DEF OpToRel
<1> HIDE DEF R
<1>3. PICK n \in T : \A m \in T : <<m, n>> \notin R
  BY <1>1, WFMin, Zenon
<1>4. \A m \in T : ~(m < n)
  BY <1>2, <1>3, Zenon
<1>5. \A m \in T : n <= m
  BY <1>4
<1> QED
  BY <1>5

\* A set whose elements are numbered apart within 1 .. n has at most n elements.
LEMMA Numbered ==
  ASSUME NEW S, NEW n \in Nat, NEW f \in [S -> 1 .. n],
         \A a, b \in S : f[a] = f[b] => a = b
  PROVE  IsFiniteSet(S) /\ Cardinality(S) \in Nat /\ Cardinality(S) <= n
<1>1. f \in Injection(S, 1 .. n)
  BY DEF Injection, IsInjective
<1>2. IsFiniteSet(1 .. n) /\ Cardinality(1 .. n) = n
  BY FS_Interval
<1>3. IsFiniteSet(S) /\ Cardinality(S) <= Cardinality(1 .. n)
  BY <1>1, <1>2, FS_Injection
<1> QED
  BY <1>2, <1>3, FS_CardinalityType

\* A part of a finite set that misses an element is smaller.
LEMMA PartIsSmaller ==
  ASSUME NEW S, IsFiniteSet(S), NEW T \in SUBSET S
  PROVE  /\ IsFiniteSet(T)
         /\ Cardinality(T) \in Nat /\ Cardinality(S) \in Nat
         /\ Cardinality(T) <= Cardinality(S)
         /\ T # S => Cardinality(T) < Cardinality(S)
  BY FS_Subset, FS_CardinalityType

\* A union has at most as many elements as its parts together.
LEMMA UnionIsSmall ==
  ASSUME NEW S, NEW T, IsFiniteSet(S), IsFiniteSet(T)
  PROVE  /\ IsFiniteSet(S \cup T) /\ Cardinality(S \cup T) \in Nat
         /\ Cardinality(S \cup T) <= Cardinality(S) + Cardinality(T)
<1>1. /\ IsFiniteSet(S \cup T)
      /\ Cardinality(S \cup T) = Cardinality(S) + Cardinality(T) - Cardinality(S \cap T)
  BY FS_Union
<1>2. /\ Cardinality(S) \in Nat /\ Cardinality(T) \in Nat
      /\ Cardinality(S \cap T) \in Nat /\ Cardinality(S \cup T) \in Nat
  BY <1>1, FS_Intersection, FS_CardinalityType
<1> QED
  BY <1>1, <1>2

-------------------------------------------------------------------------------
(* The reports of a cycle. *)

Places == 1 .. Len(Reports[cycle])
Key(n) == [cycle |-> cycle, place |-> n]

\* The keys of a cycle are its places, and finitely many.
LEMMA CycleKeysAre ==
  ASSUME cycle \in Cycles
  PROVE  /\ \A n \in Places : Key(n) \in CycleKeys
         /\ \A k \in CycleKeys : k.place \in Places /\ k = Key(k.place)
         /\ Len(Reports[cycle]) \in Nat
         /\ IsFiniteSet(CycleKeys)
<1>0. Len(Reports[cycle]) \in Nat /\ DOMAIN Reports[cycle] = Places
  BY ReportsAssumption DEF Places
<1>1. \A n \in Places : Key(n) \in CycleKeys
  BY <1>0 DEF Key, CycleKeys, Keys
<1>2. ASSUME NEW k \in CycleKeys
      PROVE  k.place \in Places /\ k = Key(k.place)
  <2>1. PICK c \in Cycles : k \in {[cycle |-> c, place |-> n] : n \in DOMAIN Reports[c]}
    BY DEF CycleKeys, Keys
  <2>2. PICK n \in DOMAIN Reports[c] : k = [cycle |-> c, place |-> n]
    BY <2>1
  <2>3. c = cycle
    BY <2>2 DEF CycleKeys
  <2> QED
    BY <1>0, <2>2, <2>3 DEF Key
<1>3. IsFiniteSet(CycleKeys)
  <2> DEFINE f == [k \in CycleKeys |-> k.place]
  <2>1. f \in [CycleKeys -> 1 .. Len(Reports[cycle])]
    BY <1>2 DEF Places
  <2>2. \A k, l \in CycleKeys : f[k] = f[l] => k = l
    BY <1>2
  <2> HIDE DEF f
  <2> QED
    BY <1>0, <2>1, <2>2, Numbered
<1> QED
  BY <1>0, <1>1, <1>2, <1>3

\* The same for the clean BUY reports of any cycle.
LEMMA CleanBuysFinite ==
  ASSUME NEW c \in Cycles
  PROVE  /\ IsFiniteSet(CleanBuys(c))
         /\ \A k \in CleanBuys(c) : k.place \in Nat /\ k.cycle = c
         /\ \A k, l \in CleanBuys(c) : k.place = l.place => k = l
<1>0. Len(Reports[c]) \in Nat /\ DOMAIN Reports[c] = 1 .. Len(Reports[c])
  BY ReportsAssumption
<1>1. ASSUME NEW k \in CleanBuys(c)
      PROVE  k.place \in 1 .. Len(Reports[c]) /\ k = [cycle |-> c, place |-> k.place]
  <2>1. PICK d \in Cycles : k \in {[cycle |-> d, place |-> n] : n \in DOMAIN Reports[d]}
    BY DEF CleanBuys, Keys
  <2>2. PICK n \in DOMAIN Reports[d] : k = [cycle |-> d, place |-> n]
    BY <2>1
  <2>3. c = d
    BY <2>2 DEF CleanBuys
  <2> QED
    BY <1>0, <2>2, <2>3
<1> DEFINE f == [k \in CleanBuys(c) |-> k.place]
<1>2. f \in [CleanBuys(c) -> 1 .. Len(Reports[c])]
  BY <1>1
<1>3. \A k, l \in CleanBuys(c) : k.place = l.place => k = l
  BY <1>1
<1>4. \A k, l \in CleanBuys(c) : f[k] = f[l] => k = l
  BY <1>3
<1> HIDE DEF f
<1>5. IsFiniteSet(CleanBuys(c))
  BY <1>0, <1>2, <1>4, Numbered
<1> QED
  BY <1>0, <1>1, <1>3, <1>5

-------------------------------------------------------------------------------
(* What the loop over the risk decisions computes. *)

\* One turn of the loop, given the indexes of the places before.
Turn(x, f, n) ==
    IF n = 1 THEN 0
    ELSE f[n - 1] + IF Allowed(x, Key(n - 1), f[n - 1]) THEN 1 ELSE 0

\* The loop can be run to the end of the list.
LEMMA IndexExists ==
  ASSUME NEW x, cycle \in Cycles
  PROVE  \E f : f = [n \in Places |-> Turn(x, f, n)]
<1> DEFINE N == Len(Reports[cycle])
           Runs(n) == \E f \in [1 .. n -> Nat] : \A p \in 1 .. n : f[p] = Turn(x, f, p)
           Failed == {n \in Nat : n <= N /\ ~Runs(n)}
<1>0. N \in Nat
  BY CycleKeysAre
<1>1. Runs(0)
  <2>1. [p \in 1 .. 0 |-> 0] \in [1 .. 0 -> Nat] /\ \A p \in 1 .. 0 : FALSE
    OBVIOUS
  <2> QED
    BY <2>1
<1>2. ASSUME NEW n \in Nat, n # 0, Runs(n - 1)
      PROVE  Runs(n)
  <2>1. PICK f \in [1 .. n - 1 -> Nat] : \A p \in 1 .. n - 1 : f[p] = Turn(x, f, p)
    BY <1>2
  <2> DEFINE v == Turn(x, f, n)
             g == [p \in 1 .. n |-> IF p = n THEN v ELSE f[p]]
  <2>2. v \in Nat
    <3>1. CASE n = 1
      BY <3>1 DEF Turn
    <3>2. CASE n # 1
      <4>1. f[n - 1] \in Nat
        BY <1>2, <3>2
      <4> QED
        BY <3>2, <4>1 DEF Turn
    <3> QED
      BY <3>1, <3>2
  <2> HIDE DEF v
  <2>3. g \in [1 .. n -> Nat]
    BY <1>2, <2>2
  <2>4. ASSUME NEW p \in 1 .. n
        PROVE  g[p] = Turn(x, g, p)
    <3>1. p # 1 => g[p - 1] = f[p - 1]
      BY <1>2
    <3>2. Turn(x, g, p) = Turn(x, f, p)
      BY <3>1 DEF Turn
    <3>3. CASE p = n
      BY <3>2, <3>3 DEF v
    <3>4. CASE p # n
      <4>1. p \in 1 .. n - 1 /\ g[p] = f[p]
        BY <1>2, <3>4
      <4> QED
        BY <2>1, <3>2, <4>1
    <3> QED
      BY <3>3, <3>4
  <2> QED
    BY <2>3, <2>4
<1> HIDE DEF Runs
<1>3. Failed = {}
  <2> SUFFICES ASSUME Failed # {}
               PROVE  FALSE
    OBVIOUS
  <2>1. PICK n \in Failed : \A m \in Failed : n <= m
    BY LeastNumber
  <2>2. n # 0
    BY <1>1
  <2>3. n - 1 \in Nat /\ n - 1 \notin Failed
    BY <2>1, <2>2
  <2>4. Runs(n - 1)
    BY <1>0, <2>3
  <2> QED
    BY <1>2, <2>2, <2>4
<1>4. Runs(N)
  BY <1>0, <1>3
<1>5. PICK f \in [1 .. N -> Nat] : \A p \in 1 .. N : f[p] = Turn(x, f, p)
  BY <1>4 DEF Runs
<1>6. f = [n \in Places |-> Turn(x, f, n)]
  BY <1>5 DEF Places
<1> QED
  BY <1>6

\* The loop's definition is its recursion, and its values are numbers.
LEMMA AheadIs ==
  ASSUME NEW x, cycle \in Cycles
  PROVE  /\ Ahead(x) \in [Places -> Nat]
         /\ \A n \in Places : Ahead(x)[n] = Turn(x, Ahead(x), n)
<1> DEFINE f == Ahead(x)
<1>1. f = CHOOSE g : g = [n \in Places |-> Turn(x, g, n)]
  BY DEF Ahead, Turn, Places, Key
<1>2. f = [n \in Places |-> Turn(x, f, n)]
  BY <1>1, IndexExists
<1> HIDE DEF f
<1>3. \A n \in Places : f[n] = Turn(x, f, n)
  BY <1>2
<1> DEFINE Failed == {n \in Places : f[n] \notin Nat}
<1>4. Failed = {}
  <2> SUFFICES ASSUME Failed # {}
               PROVE  FALSE
    OBVIOUS
  <2>0. Len(Reports[cycle]) \in Nat
    BY CycleKeysAre
  <2>1. PICK n \in Failed : \A m \in Failed : n <= m
    <3>1. Failed \in SUBSET Nat
      BY DEF Places
    <3> QED
      BY <3>1, LeastNumber
  <2>2. n # 1
    BY <1>3 DEF Turn
  <2>3. n - 1 \in Places /\ n - 1 \notin Failed
    BY <2>0, <2>1, <2>2 DEF Places
  <2>4. f[n - 1] \in Nat
    BY <2>3
  <2> QED
    BY <1>3, <2>2, <2>4 DEF Turn
<1>5. f \in [Places -> Nat]
  BY <1>2, <1>4
<1> QED
  BY <1>3, <1>5 DEF f

\* The rows decided ALLOW, and those of them before a place.
AllowedKeys(x) == {k \in CycleKeys : Allowed(x, k, Ahead(x)[k.place])}
AllowedBefore(x, n) == {k \in AllowedKeys(x) : k.place < n}

\* opening_trade_index is the number of ALLOW rows before.
LEMMA AheadCounts ==
  ASSUME NEW x, cycle \in Cycles, NEW n \in Places
  PROVE  Ahead(x)[n] = Cardinality(AllowedBefore(x, n))
<1> DEFINE f == Ahead(x)
           Failed == {p \in Places : f[p] # Cardinality(AllowedBefore(x, p))}
<1>0. Len(Reports[cycle]) \in Nat
  BY CycleKeysAre
<1>1. \A p \in Places : f[p] = Turn(x, f, p) /\ f[p] \in Nat
  BY AheadIs
<1> HIDE DEF f
<1>2. SUFFICES ASSUME Failed # {}
               PROVE  FALSE
  BY DEF f
<1>3. PICK p \in Failed : \A q \in Failed : p <= q
  <2>1. Failed \in SUBSET Nat
    BY DEF Places
  <2> QED
    BY <1>2, <2>1, LeastNumber
<1>4. CASE p = 1
  <2>1. AllowedBefore(x, p) = {}
    BY <1>4, CycleKeysAre DEF AllowedBefore, AllowedKeys, Places
  <2> QED
    BY <1>1, <1>3, <1>4, <2>1, FS_EmptySet DEF Turn
<1>5. CASE p # 1
  <2> DEFINE q == p - 1
             A == AllowedBefore(x, q)
  <2>1. q \in Places /\ q \notin Failed
    BY <1>0, <1>3, <1>5 DEF Places
  <2>2. f[q] = Cardinality(A) /\ f[q] \in Nat
    BY <1>1, <2>1
  <2>3. IsFiniteSet(A)
    BY CycleKeysAre, PartIsSmaller DEF AllowedBefore, AllowedKeys
  <2>4. Key(q) \in CycleKeys /\ Key(q).place = q /\ Key(q) \notin A
    BY <2>1, CycleKeysAre DEF Key, AllowedBefore, Places
  <2>5. AllowedBefore(x, p) = A \cup {k \in AllowedKeys(x) : k.place = q}
    BY <1>0, <1>3, CycleKeysAre DEF AllowedBefore, AllowedKeys, Places
  <2>6. f[p] = f[q] + IF Allowed(x, Key(q), f[q]) THEN 1 ELSE 0
    BY <1>1, <1>3, <1>5 DEF Turn
  <2>7. CASE Allowed(x, Key(q), f[q])
    <3>1. {k \in AllowedKeys(x) : k.place = q} = {Key(q)}
      BY <2>4, <2>7, CycleKeysAre DEF AllowedKeys, f
    <3>2. Cardinality(AllowedBefore(x, p)) = Cardinality(A) + 1
      BY <2>3, <2>4, <2>5, <3>1, FS_AddElement
    <3> QED
      BY <1>3, <2>2, <2>6, <2>7, <3>2
  <2>8. CASE ~Allowed(x, Key(q), f[q])
    <3>1. {k \in AllowedKeys(x) : k.place = q} = {}
      BY <2>8, CycleKeysAre DEF AllowedKeys, f
    <3> QED
      BY <1>3, <2>2, <2>5, <2>6, <2>8, <3>1
  <2> QED
    BY <2>7, <2>8
<1> QED
  BY <1>4, <1>5

\* What is allowed before a place, and its number; a row that is allowed makes
\* the index larger at every later place.
LEMMA AheadGrows ==
  ASSUME NEW x, cycle \in Cycles
  PROVE  /\ \A n \in Places : /\ IsFiniteSet(AllowedBefore(x, n))
                              /\ Ahead(x)[n] = Cardinality(AllowedBefore(x, n))
                              /\ Ahead(x)[n] \in Nat
         /\ \A m, n \in Places : m <= n => Ahead(x)[m] <= Ahead(x)[n]
         /\ \A k \in AllowedKeys(x) : \A n \in Places :
                k.place < n => Ahead(x)[k.place] < Ahead(x)[n]
<1>1. \A n \in Places : /\ IsFiniteSet(AllowedBefore(x, n))
                        /\ Ahead(x)[n] = Cardinality(AllowedBefore(x, n))
                        /\ Ahead(x)[n] \in Nat
  BY AheadIs, AheadCounts, CycleKeysAre, PartIsSmaller DEF AllowedBefore, AllowedKeys
<1>2. \A m, n \in Places : m <= n => AllowedBefore(x, m) \in SUBSET AllowedBefore(x, n)
  BY CycleKeysAre DEF AllowedBefore, AllowedKeys, Places
<1>3. \A m, n \in Places : m <= n => Ahead(x)[m] <= Ahead(x)[n]
  BY <1>1, <1>2, PartIsSmaller
<1>4. ASSUME NEW k \in AllowedKeys(x), NEW n \in Places, k.place < n
      PROVE  Ahead(x)[k.place] < Ahead(x)[n]
  <2>1. k.place \in Places
    BY CycleKeysAre DEF AllowedKeys
  <2>2. k \in AllowedBefore(x, n) /\ k \notin AllowedBefore(x, k.place)
    BY <1>4, <2>1 DEF AllowedBefore, Places
  <2>3. AllowedBefore(x, k.place) \in SUBSET AllowedBefore(x, n)
    BY <1>2, <1>4, <2>1 DEF Places
  <2> QED
    BY <1>1, <2>1, <2>2, <2>3, PartIsSmaller
<1> QED
  BY <1>1, <1>3, <1>4

\* The clean openings of a cycle with healthy sources, and those up to a report.
CleanOpenings(x) ==
    {k \in CycleKeys : Opens(x, k) /\ ~ReportOf(k).caution /\ HealthySources(x, k)}
OpeningsUpTo(x, k) == {l \in CleanOpenings(x) : l.place <= k.place}

Fits(x, n) == n <= policy.maxNew /\ Counted(x) + n <= policy.cap

\* A preview of well typed state.
Previewed(x) ==
    /\ cycle \in Cycles /\ policy \in Policy
    /\ IsFiniteSet(x.positions) /\ IsFiniteSet(x.orders)
    /\ x.terms \in Term

\* What a preview counts, and its limits, are numbers.
LEMMA PreviewNumbers ==
  ASSUME NEW x, Previewed(x)
  PROVE  Counted(x) \in Nat /\ policy.cap \in Nat /\ policy.maxNew \in Nat
<1>1. Cardinality(x.positions) \in Nat /\ Cardinality(x.orders) \in Nat
  BY FS_CardinalityType DEF Previewed
<1>2. policy.cap \in Nat /\ policy.maxNew \in Nat
  BY DEF Previewed, Policy
<1> QED
  BY <1>1, <1>2 DEF Counted

\* A report's sources pass the check when they are healthy, whatever the
\* sources of the other reports; and the check has no other outcomes.
LEMMA SourcesPass ==
  ASSUME NEW x, Previewed(x), NEW k \in CycleKeys
  PROVE  /\ SourceCheck(x, k) = "PASS" <=> HealthySources(x, k)
         /\ SourceCheck(x, k) \in {"PASS", "WARN", "BLOCK"}
<1>1. ReportOf(k) \in Report
  <2>1. PICK c \in Cycles : k \in {[cycle |-> c, place |-> n] : n \in DOMAIN Reports[c]}
    BY DEF CycleKeys, Keys
  <2>2. PICK n \in DOMAIN Reports[c] : k = [cycle |-> c, place |-> n]
    BY <2>1
  <2>3. Reports[c] \in Seq(Report)
    BY ReportsAssumption
  <2> QED
    BY <2>2, <2>3 DEF ReportOf
<1> DEFINE used == ReportOf(k).sources
           health == x.terms.health
           present == {s \in Sources : health[s] # "absent"}
           relevant == IF used = {} THEN present ELSE used \cap present
           degraded == \E s \in relevant : health[s] = "degraded"
<1>2. used \subseteq Sources
  BY <1>1 DEF Report
<1>3. \A s \in Sources : health[s] \in {"healthy", "degraded", "absent"}
  BY DEF Previewed, Term, Health
<1>4. SourceCheck(x, k) =
         IF relevant = {} \/ ~(used \subseteq present) THEN "BLOCK"
         ELSE IF degraded THEN "WARN" ELSE "PASS"
  BY DEF SourceCheck
<1>5. HealthySources(x, k) <=>
         IF used # {} THEN \A s \in used : health[s] = "healthy"
         ELSE /\ \E s \in Sources : health[s] = "healthy"
              /\ \A s \in Sources : health[s] # "degraded"
  BY DEF HealthySources
<1> HIDE DEF used, health
<1>6. relevant # {} /\ used \subseteq present /\ ~degraded <=> HealthySources(x, k)
  <2>1. CASE used = {}
    BY <1>3, <1>5, <2>1
  <2>2. CASE used # {}
    BY <1>2, <1>3, <1>5, <2>2
  <2> QED
    BY <2>1, <2>2
<1> HIDE DEF relevant, present, degraded
<1> QED
  BY <1>4, <1>6

\* A report with an ALLOW row: its place in the list, and what was checked.
LEMMA AllowedIs ==
  ASSUME NEW x, Previewed(x), NEW k \in AllowedKeys(x)
  PROVE  /\ k \in CleanOpenings(x) /\ k.place \in Places
         /\ Ahead(x)[k.place] \in Nat
         /\ Fits(x, Ahead(x)[k.place] + 1)
<1>1. k \in CycleKeys /\ k.place \in Places /\ Ahead(x)[k.place] \in Nat
  BY CycleKeysAre, AheadGrows DEF AllowedKeys, Previewed
<1>2. /\ Opens(x, k) /\ SourceCheck(x, k) # "BLOCK"
      /\ Ahead(x)[k.place] < policy.maxNew
      /\ Counted(x) + Ahead(x)[k.place] + 1 <= policy.cap
      /\ ~Warned(IntentOf(x, k))
  BY DEF AllowedKeys, Allowed, NotBlocked
<1>3. ~ReportOf(k).caution /\ SourceCheck(x, k) # "WARN"
  BY <1>2 DEF Warned, IntentOf
<1>4. HealthySources(x, k)
  BY <1>1, <1>2, <1>3, SourcesPass
<1>5. Fits(x, Ahead(x)[k.place] + 1)
  BY <1>1, <1>2, PreviewNumbers DEF Fits
<1> QED
  BY <1>1, <1>2, <1>3, <1>4, <1>5 DEF CleanOpenings

\* Every clean opening before an ALLOW row is ALLOW too, so its index is the
\* number of clean openings before it.
LEMMA NoneOvertakes ==
  ASSUME NEW x, Previewed(x), NEW k \in AllowedKeys(x)
  PROVE  /\ OpeningsUpTo(x, k) = AllowedBefore(x, k.place) \cup {k}
         /\ IsFiniteSet(OpeningsUpTo(x, k))
         /\ Cardinality(OpeningsUpTo(x, k)) = Ahead(x)[k.place] + 1
<1>0. /\ k \in CleanOpenings(x) /\ k.place \in Places
      /\ Ahead(x)[k.place] \in Nat /\ Fits(x, Ahead(x)[k.place] + 1)
      /\ cycle \in Cycles
  BY AllowedIs DEF Previewed
<1>1. ASSUME NEW l \in CleanOpenings(x), l.place < k.place
      PROVE  l \in AllowedKeys(x)
  <2>1. l \in CycleKeys /\ l.place \in Places
    BY <1>0, CycleKeysAre DEF CleanOpenings
  <2>2. Ahead(x)[l.place] \in Nat /\ Ahead(x)[l.place] <= Ahead(x)[k.place]
    BY <1>0, <1>1, <2>1, AheadGrows DEF Places
  <2>3. /\ Ahead(x)[l.place] < policy.maxNew
        /\ Counted(x) + Ahead(x)[l.place] + 1 <= policy.cap
    BY <1>0, <2>2, PreviewNumbers DEF Fits
  <2>4. /\ ~Warned(IntentOf(x, l)) /\ Opens(x, l)
        /\ SourceCheck(x, l) # "BLOCK"
    BY <2>1, SourcesPass DEF Warned, IntentOf, CleanOpenings
  <2> QED
    BY <1>0, <2>1, <2>3, <2>4 DEF AllowedKeys, Allowed, NotBlocked
<1>2. \A l \in CleanOpenings(x) : l.place <= k.place => l.place < k.place \/ l = k
  BY <1>0, CycleKeysAre DEF CleanOpenings, Places
<1>3. OpeningsUpTo(x, k) = AllowedBefore(x, k.place) \cup {k}
  <2>1. AllowedKeys(x) \subseteq CleanOpenings(x)
    BY AllowedIs
  <2>2. \A l \in CleanOpenings(x) : l.place \in Places
    BY <1>0, CycleKeysAre DEF CleanOpenings
  <2>3. k.place <= k.place
    BY <1>0 DEF Places
  <2>4. \A l \in CleanOpenings(x) : l.place < k.place => l.place <= k.place
    BY <1>0, <2>2 DEF Places
  <2> QED
    BY <1>0, <1>1, <1>2, <2>1, <2>3, <2>4 DEF OpeningsUpTo, AllowedBefore
<1>4. k \notin AllowedBefore(x, k.place)
  BY <1>0 DEF AllowedBefore, Places
<1> QED
  BY <1>0, <1>3, <1>4, AheadGrows, FS_AddElement

\* The ALLOW rows are the first clean openings with healthy sources, as many as
\* the limits leave room for.
LEMMA AllowedAreTheFirst ==
  ASSUME NEW x, Previewed(x)
  PROVE  AllowedKeys(x) =
            {k \in CleanOpenings(x) : Fits(x, Cardinality(OpeningsUpTo(x, k)))}
<1>0. cycle \in Cycles
  BY DEF Previewed
<1>1. ASSUME NEW k \in AllowedKeys(x)
      PROVE  k \in CleanOpenings(x) /\ Fits(x, Cardinality(OpeningsUpTo(x, k)))
  BY AllowedIs, NoneOvertakes
<1>2. ASSUME NEW k \in CleanOpenings(x), Fits(x, Cardinality(OpeningsUpTo(x, k)))
      PROVE  k \in AllowedKeys(x)
  <2>1. k \in CycleKeys /\ k.place \in Places
    BY <1>0, CycleKeysAre DEF CleanOpenings
  <2> DEFINE A == AllowedBefore(x, k.place)
             C == OpeningsUpTo(x, k)
  <2>2. A \subseteq C /\ k \in C /\ k \notin A
    BY <1>0, <2>1, AllowedIs, CycleKeysAre DEF AllowedBefore, OpeningsUpTo, Places
  <2>3. C \in SUBSET CycleKeys
    BY DEF OpeningsUpTo, CleanOpenings
  <2> HIDE DEF A, C
  <2>4. IsFiniteSet(C)
    BY <1>0, <2>3, CycleKeysAre, PartIsSmaller
  <2>5. Cardinality(A) < Cardinality(C) /\ Cardinality(A) \in Nat /\ Cardinality(C) \in Nat
    BY <2>2, <2>4, PartIsSmaller
  <2>6. Ahead(x)[k.place] = Cardinality(A)
    BY <1>0, <2>1, AheadGrows DEF A
  <2>7. /\ Ahead(x)[k.place] < policy.maxNew
        /\ Counted(x) + Ahead(x)[k.place] + 1 <= policy.cap
    BY <1>2, <2>5, <2>6, PreviewNumbers DEF Fits, C
  <2>8. /\ ~Warned(IntentOf(x, k)) /\ Opens(x, k)
        /\ SourceCheck(x, k) # "BLOCK"
    BY <2>1, SourcesPass DEF Warned, IntentOf, CleanOpenings
  <2> QED
    BY <2>1, <2>7, <2>8 DEF AllowedKeys, Allowed, NotBlocked
<1> QED
  BY <1>1, <1>2

\* With a planned row, all that a preview accounts for fits under the cap.
LEMMA KnownFits ==
  ASSUME NEW x, Previewed(x), Plan(x) # {}
  PROVE  LET known == x.positions \cup x.orders \cup Plan(x)
         IN  IsFiniteSet(known) /\ Cardinality(known) <= policy.cap
<1>0. /\ Counted(x) \in Nat /\ policy.cap \in Nat /\ cycle \in Cycles
      /\ IsFiniteSet(x.positions) /\ IsFiniteSet(x.orders)
  BY PreviewNumbers DEF Previewed
<1>1. Plan(x) = {IntentOf(x, k) : k \in AllowedKeys(x)}
  BY DEF Plan, AllowedKeys
<1> DEFINE room == policy.cap - Counted(x)
           f == [i \in Plan(x) |-> Ahead(x)[i.key.place] + 1]
<1>2. \A i \in Plan(x) : i.key \in AllowedKeys(x) /\ i = IntentOf(x, i.key)
  BY <1>1 DEF IntentOf
<1>3. ASSUME NEW k \in AllowedKeys(x)
      PROVE  room \in Nat /\ Ahead(x)[k.place] + 1 \in 1 .. room
  <2>1. Ahead(x)[k.place] \in Nat /\ Fits(x, Ahead(x)[k.place] + 1)
    BY AllowedIs
  <2> QED
    BY <1>0, <2>1 DEF Fits
<1>4. room \in Nat
  BY <1>2, <1>3
<1>5. f \in [Plan(x) -> 1 .. room]
  BY <1>2, <1>3
<1>6. ASSUME NEW i \in Plan(x), NEW j \in Plan(x), f[i] = f[j]
      PROVE  i = j
  <2>1. /\ i.key \in AllowedKeys(x) /\ i.key.place \in Places /\ i.key = Key(i.key.place)
        /\ j.key \in AllowedKeys(x) /\ j.key.place \in Places /\ j.key = Key(j.key.place)
    BY <1>0, <1>2, CycleKeysAre DEF AllowedKeys
  <2>2. Ahead(x)[i.key.place] = Ahead(x)[j.key.place]
    BY <1>0, <1>6, <2>1, AheadGrows
  <2>3. ~(i.key.place < j.key.place) /\ ~(j.key.place < i.key.place)
    BY <1>0, <2>1, <2>2, AheadGrows
  <2>4. i.key = j.key
    BY <2>1, <2>3 DEF Places
  <2> QED
    BY <1>2, <2>4
<1> HIDE DEF f, room
<1>7. /\ IsFiniteSet(Plan(x)) /\ Cardinality(Plan(x)) \in Nat
      /\ Cardinality(Plan(x)) <= room
  BY <1>4, <1>5, <1>6, Numbered
<1> DEFINE seen == x.positions \cup x.orders
<1>8. IsFiniteSet(seen) /\ Cardinality(seen) \in Nat /\ Cardinality(seen) <= Counted(x)
  BY <1>0, UnionIsSmall DEF Counted
<1> HIDE DEF seen
<1>9. /\ IsFiniteSet(seen \cup Plan(x)) /\ Cardinality(seen \cup Plan(x)) \in Nat
      /\ Cardinality(seen \cup Plan(x)) <= Cardinality(seen) + Cardinality(Plan(x))
  BY <1>7, <1>8, UnionIsSmall
<1>10. Cardinality(seen \cup Plan(x)) <= policy.cap
  BY <1>0, <1>7, <1>8, <1>9 DEF room
<1> QED
  BY <1>9, <1>10 DEF seen

\* Every row a preview offers: unless it was decided WARN it is accounted for
\* under the cap, and a BUY is among the first clean BUY reports of its cycle
\* that were never doubted, this preview's doubts included.
LEMMA OfferedIsCovered ==
  ASSUME NEW x, Previewed(x), NEW i \in ReadyRows(x), ~Warned(i)
  PROVE  /\ Covered(x.positions \cup x.orders \cup Plan(x), i)
         /\ ReportOf(i.key).action = "BUY" =>
                \A D : {k \in CleanBuys(cycle) : ~HealthySources(x, k)} \subseteq D =>
                    Cardinality(BuysUpTo(i.key) \ D) <= policy.maxNew
<1>0. cycle \in Cycles /\ policy.maxNew \in Nat
  BY PreviewNumbers DEF Previewed
<1>1. PICK k \in CycleKeys : /\ i = IntentOf(x, k)
                             /\ NotBlocked(x, k, Ahead(x)[k.place])
  BY DEF ReadyRows
<1>3. k \in AllowedKeys(x) /\ i.key = k
  BY <1>1 DEF AllowedKeys, Allowed, IntentOf
<1>4. i \in Plan(x)
  BY <1>1, <1>3 DEF Plan, AllowedKeys
<1>5. Covered(x.positions \cup x.orders \cup Plan(x), i)
  BY <1>4, KnownFits DEF Covered
<1>6. ASSUME NEW D, {l \in CleanBuys(cycle) : ~HealthySources(x, l)} \subseteq D
      PROVE  Cardinality(BuysUpTo(k) \ D) <= policy.maxNew
  <2>1. k.cycle = cycle
    BY DEF CycleKeys
  <2>2. \A l \in CleanBuys(cycle) \ D : l \in CleanOpenings(x)
    BY <1>6 DEF CleanBuys, CleanOpenings, CycleKeys, Opens
  <2>3. BuysUpTo(k) \ D \in SUBSET OpeningsUpTo(x, k)
    BY <2>1, <2>2 DEF BuysUpTo, OpeningsUpTo
  <2>4. /\ IsFiniteSet(OpeningsUpTo(x, k))
        /\ Cardinality(OpeningsUpTo(x, k)) <= policy.maxNew
    BY <1>3, NoneOvertakes, AllowedIs DEF Fits
  <2>5. /\ Cardinality(BuysUpTo(k) \ D) \in Nat
        /\ Cardinality(OpeningsUpTo(x, k)) \in Nat
        /\ Cardinality(BuysUpTo(k) \ D) <= Cardinality(OpeningsUpTo(x, k))
    BY <2>3, <2>4, PartIsSmaller
  <2> QED
    BY <1>0, <2>4, <2>5
<1> QED
  BY <1>3, <1>5, <1>6

-------------------------------------------------------------------------------
(* The invariant of the limits. *)

\* It holds initially.
LEMMA LimitsInit == TypeOK /\ Init => LimitsInv
<1> SUFFICES ASSUME TypeOK, Init
             PROVE  LimitsInv
  OBVIOUS
<1>1. PlacedNow = {} /\ Exposed \ Excused = {} /\ wire = {}
  BY DEF Init, PlacedNow, Exposed, HeldNow, OpenNow
<1>2. \A m \in Manifests : /\ ctx[m].positions = {} /\ ctx[m].orders = {}
                           /\ ctx[m].enabled = {}
  BY DEF Init, EmptyContext
<1>3. policy.cap \in Nat
  BY PoliciesAssumption DEF TypeOK, Policy
<1> QED
  BY <1>1, <1>2, <1>3, FS_EmptySet DEF LimitsInv, SnapshotsFinite, OfferedFits, RequestsFit

\* A report once doubted stays so, and the first BUYs stay the first.
LEMMA FirstBuyStays ==
  ASSUME TypeOK, UNCHANGED policy, doubted \subseteq doubted',
         NEW i, i \in Intents, FirstBuy(i)
  PROVE  FirstBuy(i)'
<1> SUFFICES ASSUME ReportOf(i.key).action = "BUY", ~Warned(i)
             PROVE  AmongFirst(i.key)'
  BY DEF FirstBuy
<1> DEFINE k == i.key
<1>1. k \in Keys /\ k.cycle \in Cycles
  BY DEF Intents, Keys
<1>2. IsFiniteSet(CleanBuys(k.cycle)) /\ policy.maxNew \in Nat
  BY <1>1, CleanBuysFinite, PoliciesAssumption DEF TypeOK, Policy
<1>3. /\ BuysUpTo(k) \ doubted \in SUBSET CleanBuys(k.cycle)
      /\ BuysUpTo(k) \ doubted' \in SUBSET (BuysUpTo(k) \ doubted)
  BY DEF BuysUpTo
<1>4. IsFiniteSet(BuysUpTo(k) \ doubted)
  BY <1>2, <1>3, PartIsSmaller
<1>5. /\ Cardinality(BuysUpTo(k) \ doubted') \in Nat
      /\ Cardinality(BuysUpTo(k) \ doubted) \in Nat
      /\ Cardinality(BuysUpTo(k) \ doubted') <= Cardinality(BuysUpTo(k) \ doubted)
  BY <1>3, <1>4, PartIsSmaller
<1>6. Cardinality(BuysUpTo(k) \ doubted) <= policy.maxNew
  BY DEF FirstBuy, AmongFirst
<1> QED
  BY <1>2, <1>5, <1>6 DEF AmongFirst

\* A step that moves no order keeps it when the locals it leaves behind, and
\* the request it sends, keep to it.
LEMMA LimitsFrame ==
  ASSUME TypeOK, LimitsInv, NEW m \in Manifests,
         UNCHANGED <<policy, status, blind>>, doubted \subseteq doubted',
         \A n \in Manifests \ {m} : ctx'[n] = ctx[n],
         IsFiniteSet(ctx'[m].positions), IsFiniteSet(ctx'[m].orders),
         \A i \in ctx'[m].enabled : Covered(ctx'[m].known, i) /\ FirstBuy(i)',
         \A w \in wire' : w \in wire \/ (Covered(w.known, w.intent) /\ FirstBuy(w.intent)')
  PROVE  LimitsInv'
<1> USE DEF LimitsInv
<1>1. \A known, i : Covered(known, i)' <=> Covered(known, i)
  BY DEF Covered
<1>2. \A i \in Intents : FirstBuy(i) => FirstBuy(i)'
  BY FirstBuyStays
<1>3. PlacedNow' = PlacedNow /\ Exposed' = Exposed /\ Excused' = Excused
  BY DEF PlacedNow, Exposed, HeldNow, OpenNow, Excused
<1>4. SnapshotsFinite'
  BY DEF SnapshotsFinite
<1>5. OfferedFits'
  <2> SUFFICES ASSUME NEW n \in Manifests, NEW i \in ctx'[n].enabled
               PROVE  Covered(ctx[n].known, i)' /\ FirstBuy(i)'
    BY DEF OfferedFits
  <2>1. CASE n = m
    BY <2>1 DEF Covered
  <2>2. CASE n # m
    <3>1. i \in ctx[n].enabled /\ ctx'[n] = ctx[n] /\ i \in Intents
      BY <2>2 DEF TypeOK, Context
    <3>2. Covered(ctx[n].known, i) /\ FirstBuy(i)
      BY <3>1 DEF OfferedFits
    <3> QED
      BY <1>2, <3>1, <3>2 DEF Covered
  <2> QED
    BY <2>1, <2>2
<1>6. RequestsFit'
  <2> SUFFICES ASSUME NEW w \in wire'
               PROVE  Covered(w.known, w.intent)' /\ FirstBuy(w.intent)'
    BY DEF RequestsFit
  <2>1. CASE w \in wire
    <3>1. w.intent \in Intents /\ Covered(w.known, w.intent) /\ FirstBuy(w.intent)
      BY <2>1 DEF TypeOK, Message, RequestsFit
    <3> QED
      BY <1>1, <1>2, <3>1
  <2>2. CASE w \notin wire
    BY <1>1, <2>2
  <2> QED
    BY <2>1, <2>2
<1>7. \A i \in PlacedNow' : FirstBuy(i)'
  BY <1>2, <1>3 DEF PlacedNow
<1> QED
  BY <1>3, <1>4, <1>5, <1>6, <1>7

\* The broker takes an order: it is excused, or the account with it is within
\* what its context accounts for.
LEMMA LimitsTake ==
  ASSUME TypeOK, LimitsInv, NEW w \in wire, BrokerTake(w)
  PROVE  LimitsInv'
<1> DEFINE i == w.intent
           Carried == Exposed \ Excused
<1>0. i \in Intents /\ policy.cap \in Nat
  BY PoliciesAssumption DEF TypeOK, Message, Policy
<1>1. /\ UNCHANGED <<policy, doubted, ctx>> /\ wire' \subseteq wire
      /\ \A j \in Intents : status'[j] = IF j = i THEN "open" ELSE status[j]
      /\ blind' = IF Exposed \subseteq w.known THEN blind ELSE blind \cup {i}
  BY <1>0 DEF BrokerTake, inputVars, TypeOK
<1>2. Covered(w.known, i) /\ FirstBuy(i)
  BY DEF LimitsInv, RequestsFit
<1> HIDE DEF i
<1>3. \A known, j : Covered(known, j)' <=> Covered(known, j)
  BY <1>1 DEF Covered
<1>4. \A j : FirstBuy(j)' <=> FirstBuy(j)
  BY <1>1 DEF FirstBuy, AmongFirst
<1>5. Exposed' = Exposed \cup {i} /\ PlacedNow' = PlacedNow \cup {i}
  BY <1>0, <1>1 DEF Exposed, HeldNow, OpenNow, PlacedNow
<1>6. IsFiniteSet(PlacedNow')
  BY <1>5, FS_AddElement DEF LimitsInv
<1>7. Cardinality(Exposed' \ Excused') <= policy'.cap
  <2>1. CASE Warned(i) \/ i \in blind'
    <3>1. i \in Excused' /\ Excused \subseteq Excused'
      BY <1>0, <1>1, <2>1 DEF Excused
    <3>2. Exposed' \ Excused' \in SUBSET Carried
      BY <1>5, <3>1
    <3>3. IsFiniteSet(Carried)
      <4>1. Carried \in SUBSET PlacedNow
        BY DEF Exposed, HeldNow, OpenNow, PlacedNow
      <4> QED
        BY <4>1, PartIsSmaller DEF LimitsInv
    <3>4. /\ Cardinality(Exposed' \ Excused') \in Nat /\ Cardinality(Carried) \in Nat
          /\ Cardinality(Exposed' \ Excused') <= Cardinality(Carried)
      BY <3>2, <3>3, PartIsSmaller
    <3> QED
      BY <1>0, <1>1, <3>4 DEF LimitsInv
  <2>2. CASE ~Warned(i) /\ i \notin blind'
    <3>1. /\ i \in w.known /\ IsFiniteSet(w.known) /\ Cardinality(w.known) <= policy.cap
          /\ Exposed \subseteq w.known
      BY <1>1, <1>2, <2>2 DEF Covered
    <3>2. Exposed' \ Excused' \in SUBSET w.known
      BY <1>5, <3>1
    <3>3. /\ Cardinality(Exposed' \ Excused') \in Nat /\ Cardinality(w.known) \in Nat
          /\ Cardinality(Exposed' \ Excused') <= Cardinality(w.known)
      BY <3>1, <3>2, PartIsSmaller
    <3> QED
      BY <1>0, <1>1, <3>1, <3>3
  <2> QED
    BY <2>1, <2>2
<1>8. SnapshotsFinite' /\ OfferedFits' /\ RequestsFit'
  BY <1>1, <1>3, <1>4 DEF LimitsInv, SnapshotsFinite, OfferedFits, RequestsFit
<1>9. \A j \in PlacedNow' : FirstBuy(j)'
  BY <1>2, <1>4, <1>5 DEF LimitsInv
<1> QED
  BY <1>6, <1>7, <1>8, <1>9 DEF LimitsInv

\* An order that fills, is canceled or is sold adds nothing.
LEMMA LimitsMove ==
  ASSUME TypeOK, LimitsInv, NEW i \in Intents, BrokerMove(i)
  PROVE  LimitsInv'
<1>0. policy.cap \in Nat
  BY PoliciesAssumption DEF TypeOK, Policy
<1>1. UNCHANGED <<policy, doubted, ctx, wire, blind>>
  BY DEF BrokerMove, inputVars
<1>2. \A j \in Intents : /\ status'[j] = "none" <=> status[j] = "none"
                         /\ status'[j] \in {"open", "held"} => status[j] \in {"open", "held"}
  BY DEF BrokerMove, TypeOK
<1>3. PlacedNow' = PlacedNow
  BY <1>2 DEF PlacedNow
<1>4. Excused' = Excused /\ Exposed' \subseteq Exposed
  BY <1>1, <1>2 DEF Excused, Exposed, HeldNow, OpenNow
<1>5. Exposed \ Excused \in SUBSET PlacedNow
  BY DEF Exposed, HeldNow, OpenNow, PlacedNow
<1>6. Exposed' \ Excused' \in SUBSET (Exposed \ Excused)
  BY <1>4
<1>7. /\ Cardinality(Exposed \ Excused) \in Nat
      /\ Cardinality(Exposed' \ Excused') \in Nat
      /\ Cardinality(Exposed' \ Excused') <= Cardinality(Exposed \ Excused)
  BY <1>5, <1>6, PartIsSmaller DEF LimitsInv
<1>8. Cardinality(Exposed' \ Excused') <= policy'.cap
  BY <1>0, <1>1, <1>7 DEF LimitsInv
<1>9. /\ \A known, j : Covered(known, j)' <=> Covered(known, j)
      /\ \A j : FirstBuy(j)' <=> FirstBuy(j)
  BY <1>1 DEF Covered, FirstBuy, AmongFirst
<1>10. SnapshotsFinite' /\ OfferedFits' /\ RequestsFit'
  BY <1>1, <1>9 DEF LimitsInv, SnapshotsFinite, OfferedFits, RequestsFit
<1> QED
  BY <1>3, <1>8, <1>9, <1>10 DEF LimitsInv

\* A snapshot is part of the account as it is.
LEMMA LimitsSnapshot ==
  ASSUME TypeOK, LimitsInv, NEW m \in Manifests, ReadPositions(m) \/ ReadOrders(m)
  PROVE  LimitsInv'
<1>1. /\ UNCHANGED <<policy, doubted, status, blind, wire>>
      /\ \A n \in Manifests \ {m} : ctx'[n] = ctx[n]
  BY DEF ReadPositions, ReadOrders, inputVars, brokerVars, TypeOK
<1>2. /\ ctx'[m].known = ctx[m].known /\ ctx'[m].enabled = ctx[m].enabled
      /\ ctx'[m].positions \in {ctx[m].positions, HeldNow}
      /\ ctx'[m].orders \in {ctx[m].orders, OpenNow}
  BY DEF ReadPositions, ReadOrders, TypeOK, Context
<1>3. HeldNow \in SUBSET PlacedNow /\ OpenNow \in SUBSET PlacedNow
  BY DEF HeldNow, OpenNow, PlacedNow
<1>4. IsFiniteSet(ctx'[m].positions) /\ IsFiniteSet(ctx'[m].orders)
  BY <1>2, <1>3, PartIsSmaller DEF LimitsInv, SnapshotsFinite
<1>5. \A i \in ctx'[m].enabled : Covered(ctx'[m].known, i) /\ FirstBuy(i)'
  BY <1>1, <1>2 DEF LimitsInv, OfferedFits, FirstBuy, AmongFirst
<1> QED
  BY <1>1, <1>4, <1>5, LimitsFrame

\* What is built from a snapshot of this manifest is well typed.
LEMMA BuiltIsPreviewed ==
  ASSUME TypeOK, SnapshotsFinite, NEW m \in Manifests, NEW terms \in Terms, NEW cleared
  PROVE  Previewed(Built(m, terms, cleared))
<1>1. policy \in Policy /\ terms \in Term /\ cycle \in Cycles
  BY PoliciesAssumption, TermsAssumption DEF TypeOK
<1> QED
  BY <1>1 DEF Previewed, Built, SnapshotsFinite

\* A preview offers what the limits leave room for.
LEMMA LimitsPreview ==
  ASSUME TypeOK, LimitsInv, NEW m \in Manifests, BuildPreview(m)
  PROVE  LimitsInv'
<1>1. /\ UNCHANGED <<policy, status, blind, wire>>
      /\ \A n \in Manifests \ {m} : ctx'[n] = ctx[n]
  BY DEF BuildPreview, inputVars, brokerVars, TypeOK
<1>2. PICK terms \in Terms, cleared \in SUBSET WatchKeys :
         /\ ctx' = [ctx EXCEPT ![m] = [EmptyContext EXCEPT
            !.known = Built(m, terms, cleared).positions
                      \cup Built(m, terms, cleared).orders
                      \cup Plan(Built(m, terms, cleared)),
            !.enabled = ReadyRows(Built(m, terms, cleared))]]
         /\ doubted' = doubted \cup
               {k \in CleanBuys(cycle) : ~HealthySources(Built(m, terms, cleared), k)}
  BY DEF BuildPreview
<1> DEFINE x == Built(m, terms, cleared)
           known == x.positions \cup x.orders \cup Plan(x)
           enabled == ReadyRows(x)
<1>3. Previewed(x)
  BY BuiltIsPreviewed DEF LimitsInv
<1>4. ASSUME NEW i \in enabled
      PROVE  Covered(known, i) /\ FirstBuy(i)'
  <2> SUFFICES ASSUME ~Warned(i)
               PROVE  Covered(known, i) /\ FirstBuy(i)'
    BY DEF Covered, FirstBuy
  <2>1. {k \in CleanBuys(cycle) : ~HealthySources(x, k)} \subseteq doubted'
    BY <1>2
  <2> HIDE DEF x
  <2>2. /\ Covered(known, i)
        /\ ReportOf(i.key).action = "BUY" =>
               Cardinality(BuysUpTo(i.key) \ doubted') <= policy.maxNew
    BY <1>3, <2>1, OfferedIsCovered
  <2> QED
    BY <1>1, <2>2 DEF FirstBuy, AmongFirst
<1> HIDE DEF known, enabled
<1>5. ctx' = [ctx EXCEPT ![m] = [EmptyContext EXCEPT !.known = known, !.enabled = enabled]]
  BY <1>2 DEF known, enabled
<1>6. /\ ctx'[m].known = known /\ ctx'[m].enabled = enabled
      /\ ctx'[m].positions = {} /\ ctx'[m].orders = {}
  BY <1>5 DEF TypeOK, EmptyContext
<1>7. doubted \subseteq doubted'
  BY <1>2
<1> QED
  BY <1>1, <1>4, <1>6, <1>7, FS_EmptySet, LimitsFrame

\* The other steps of a manifest keep its context or drop it, and send only
\* what it offers.
LEMMA LimitsRows ==
  ASSUME TypeOK, LimitsInv, NEW m \in Manifests,
         \/ AbortManifest(m) \/ RefuseRow(m) \/ SendRow(m) \/ HearAccepted(m)
         \/ HearFailure(m) \/ FinishManifest(m) \/ Die(m)
  PROVE  LimitsInv'
<1>1. /\ UNCHANGED <<policy, doubted, status, blind>>
      /\ \A n \in Manifests \ {m} : ctx'[n] = ctx[n]
  <2>1. CASE AbortManifest(m) \/ RefuseRow(m) \/ SendRow(m) \/ FinishManifest(m) \/ Die(m)
    BY <2>1 DEF AbortManifest, RefuseRow, SendRow, FinishManifest, Die, inputVars,
                brokerVars, TypeOK
  <2>2. CASE HearAccepted(m) \/ HearFailure(m)
    BY <2>2 DEF HearAccepted, HearFailure, RowDone, inputVars, brokerVars, TypeOK
  <2> QED
    BY <2>1, <2>2
<1>2. \/ /\ ctx'[m].known = ctx[m].known /\ ctx'[m].enabled = ctx[m].enabled
         /\ ctx'[m].positions = ctx[m].positions /\ ctx'[m].orders = ctx[m].orders
      \/ ctx'[m].enabled = {} /\ ctx'[m].positions = {} /\ ctx'[m].orders = {}
  <2> USE DEF TypeOK, Context
  <2>1. CASE AbortManifest(m) \/ FinishManifest(m) \/ Die(m)
    <3>1. CASE AbortManifest(m) \/ Die(m)
      <4>1. ctx' = [ctx EXCEPT ![m] = EmptyContext]
        BY <3>1 DEF AbortManifest, Die
      <4> QED
        BY <4>1 DEF EmptyContext
    <3>2. CASE FinishManifest(m)
      <4>1. PICK accepted, unheard :
               ctx' = [ctx EXCEPT ![m] = [EmptyContext EXCEPT !.accepted = accepted,
                                                              !.unheard = unheard]]
        BY <3>2 DEF FinishManifest
      <4> QED
        BY <4>1 DEF EmptyContext
    <3> QED
      BY <2>1, <3>1, <3>2
  <2>2. CASE RefuseRow(m)
    BY <2>2 DEF RefuseRow
  <2>3. CASE SendRow(m)
    <3>1. PICK i \in ctx[m].enabled : ctx' = [ctx EXCEPT ![m].count = @ + 1, ![m].row = i]
      BY <2>3 DEF SendRow
    <3> QED
      BY <3>1
  <2>4. CASE HearAccepted(m) \/ HearFailure(m)
    <3>1. PICK accepted, rejected, unheard, pending :
             RowDone(m, accepted, rejected, unheard, pending)
      BY <2>4 DEF HearAccepted, HearFailure
    <3> QED
      BY <3>1 DEF RowDone
  <2> QED
    BY <2>1, <2>2, <2>3, <2>4
<1>3. IsFiniteSet(ctx'[m].positions) /\ IsFiniteSet(ctx'[m].orders)
  BY <1>2, FS_EmptySet DEF LimitsInv, SnapshotsFinite
<1>4. \A i \in ctx'[m].enabled : Covered(ctx'[m].known, i) /\ FirstBuy(i)'
  BY <1>1, <1>2 DEF LimitsInv, OfferedFits, FirstBuy, AmongFirst
<1>5. \A w \in wire' : w \in wire \/ (Covered(w.known, w.intent) /\ FirstBuy(w.intent)')
  <2>1. CASE SendRow(m)
    BY <1>1, <2>1 DEF SendRow, LimitsInv, OfferedFits, FirstBuy, AmongFirst
  <2>2. CASE ~SendRow(m)
    BY <2>2 DEF AbortManifest, RefuseRow, FinishManifest, Die, HearAccepted, HearFailure
  <2> QED
    BY <2>1, <2>2
<1> QED
  BY <1>1, <1>3, <1>4, <1>5, LimitsFrame

\* A step that touches neither orders nor manifests.
LEMMA LimitsWorld ==
  ASSUME LimitsInv, UNCHANGED <<policy, doubted, status, blind, ctx>>, wire' \subseteq wire
  PROVE  LimitsInv'
<1> USE DEF LimitsInv
<1>1. /\ \A known, i : Covered(known, i)' <=> Covered(known, i)
      /\ \A i : FirstBuy(i)' <=> FirstBuy(i)
  BY DEF Covered, FirstBuy, AmongFirst
<1>2. PlacedNow' = PlacedNow /\ Exposed' = Exposed /\ Excused' = Excused
  BY DEF PlacedNow, Exposed, HeldNow, OpenNow, Excused
<1>3. SnapshotsFinite' /\ OfferedFits' /\ RequestsFit'
  BY <1>1 DEF SnapshotsFinite, OfferedFits, RequestsFit
<1> QED
  BY <1>1, <1>2, <1>3

\* Every step preserves the invariant of the limits.
LEMMA LimitsStep ==
  ASSUME TypeOK, LimitsInv, [Next]_vars
  PROVE  LimitsInv'
<1>1. CASE Refresh \/ UNCHANGED vars
  BY <1>1, LimitsWorld DEF Refresh, vars, inputVars, brokerVars
<1>2. CASE Broker
  <2>1. ASSUME NEW w \in wire, BrokerRefuse(w)
        PROVE  LimitsInv'
    BY <2>1, LimitsWorld DEF BrokerRefuse, inputVars, brokerVars
  <2> QED
    BY <1>2, <2>1, LimitsTake, LimitsMove DEF Broker
<1>3. ASSUME NEW m \in Manifests, Handle(m) \/ Die(m)
      PROVE  LimitsInv'
  BY <1>3, LimitsSnapshot, LimitsPreview, LimitsRows DEF Handle
<1> QED
  BY <1>1, <1>2, <1>3 DEF Next

\* The invariant of the limits holds in every state.
THEOREM LimitsHold == Spec => []LimitsInv
  BY LimitsInit, LimitsStep, TypeCorrect, PTL DEF Spec

-------------------------------------------------------------------------------
(* What the limits promise. *)

\* The gross exposure cap of the policy: for any reports, previews, manifests
\* and fills, only orders decided WARN and blind ones exceed it.
THEOREM ExposureIsCapped == Spec => []GrossExposureCapped
<1>1. TypeOK /\ LimitsInv => GrossExposureCapped
  <2> SUFFICES ASSUME TypeOK, LimitsInv
               PROVE  GrossExposureCapped
    OBVIOUS
  <2>1. policy.cap \in Nat
    BY PoliciesAssumption DEF TypeOK, Policy
  <2>2. Exposed \in SUBSET PlacedNow
    BY DEF Exposed, HeldNow, OpenNow, PlacedNow
  <2>3. IsFiniteSet(Exposed)
    BY <2>2, PartIsSmaller DEF LimitsInv
  <2>4. /\ Cardinality(Exposed \ Excused) = Cardinality(Exposed) - Cardinality(Exposed \cap Excused)
        /\ Cardinality(Exposed) \in Nat /\ Cardinality(Exposed \cap Excused) \in Nat
    BY <2>3, FS_Difference, FS_Intersection, FS_CardinalityType
  <2>5. Cardinality(Exposed \ Excused) <= policy.cap
    BY DEF LimitsInv
  <2> QED
    BY <2>1, <2>4, <2>5 DEF GrossExposureCapped
<1> QED
  BY <1>1, TypeCorrect, LimitsHold, PTL

\* The clean BUY reports that were never doubted and that previews may decide
\* ALLOW are no more than max_new_positions_per_cycle.
LEMMA FewAreFirst ==
  ASSUME NEW c \in Cycles, policy.maxNew \in Nat
  PROVE  LET first == {k \in CleanBuys(c) \ doubted : AmongFirst(k)}
         IN  IsFiniteSet(first) /\ Cardinality(first) <= policy.maxNew
<1> DEFINE Up(k) == BuysUpTo(k) \ doubted
           first == {k \in CleanBuys(c) \ doubted : AmongFirst(k)}
           f == [k \in first |-> Cardinality(Up(k))]
<1>1. ASSUME NEW k \in first
      PROVE  /\ IsFiniteSet(Up(k)) /\ k \in Up(k)
             /\ Up(k) = {l \in CleanBuys(c) \ doubted : l.place <= k.place}
             /\ Cardinality(Up(k)) \in 1 .. policy.maxNew
  <2>1. k.cycle = c /\ k.place \in Nat /\ IsFiniteSet(CleanBuys(c))
    BY CleanBuysFinite
  <2>2. Up(k) = {l \in CleanBuys(c) \ doubted : l.place <= k.place}
    BY <2>1 DEF BuysUpTo
  <2>3. k \in Up(k) /\ Up(k) \in SUBSET CleanBuys(c)
    BY <2>1, <2>2
  <2>4. IsFiniteSet(Up(k)) /\ Cardinality(Up(k)) \in Nat
    BY <2>1, <2>3, PartIsSmaller
  <2>5. Cardinality(Up(k)) # 0
    BY <2>3, <2>4, FS_EmptySet
  <2>6. Cardinality(Up(k)) <= policy.maxNew
    BY DEF AmongFirst
  <2> QED
    BY <2>2, <2>3, <2>4, <2>5, <2>6
<1>2. f \in [first -> 1 .. policy.maxNew]
  BY <1>1
<1>3. ASSUME NEW k \in first, NEW l \in first, k.place < l.place
      PROVE  f[k] < f[l]
  <2>1. k.place \in Nat /\ l.place \in Nat /\ \A j \in CleanBuys(c) : j.place \in Nat
    BY CleanBuysFinite
  <2>2. /\ Up(k) = {j \in CleanBuys(c) \ doubted : j.place <= k.place}
        /\ Up(l) = {j \in CleanBuys(c) \ doubted : j.place <= l.place}
        /\ l \in Up(l) /\ IsFiniteSet(Up(l))
    BY <1>1
  <2> HIDE DEF Up
  <2>3. Up(k) \in SUBSET Up(l)
    BY <1>3, <2>1, <2>2
  <2>4. l \notin Up(k)
    BY <1>3, <2>1, <2>2
  <2>5. Cardinality(Up(k)) < Cardinality(Up(l))
    BY <2>2, <2>3, <2>4, PartIsSmaller
  <2> QED
    BY <2>5
<1>4. ASSUME NEW k \in first, NEW l \in first, f[k] = f[l]
      PROVE  k = l
  <2>1. k.place \in Nat /\ l.place \in Nat /\ f[k] \in Nat /\ f[l] \in Nat
    BY <1>2, CleanBuysFinite
  <2>2. k.place = l.place
    BY <1>3, <1>4, <2>1
  <2> QED
    BY <2>2, CleanBuysFinite
<1> HIDE DEF first, f
<1> QED
  BY <1>2, <1>4, Numbered DEF first

\* max_new_positions_per_cycle holds for the direct buys of a cycle over all
\* its previews, not only within one, and is exceeded by no more than the reports
\* that some preview found without healthy sources.
THEOREM DirectBuysAreFew == Spec => []DirectBuysPerCycle
<1>1. TypeOK /\ LimitsInv => DirectBuysPerCycle
  <2> SUFFICES ASSUME TypeOK, LimitsInv, NEW c \in Cycles
               PROVE  Cardinality(DirectBuys(c) \ doubted) <= policy.maxNew
    BY DEF DirectBuysPerCycle
  <2>1. policy.maxNew \in Nat
    BY PoliciesAssumption DEF TypeOK, Policy
  <2> DEFINE first == {k \in CleanBuys(c) \ doubted : AmongFirst(k)}
  <2>2. ASSUME NEW i \in Intents, i.key.cycle = c, ReportOf(i.key).action = "BUY",
               ~Warned(i), status[i] # "none", i.key \notin doubted
        PROVE  i.key \in first
    <3>1. i.key \in Keys /\ ~ReportOf(i.key).caution
      BY <2>2 DEF Intents, Warned
    <3>2. AmongFirst(i.key)
      BY <2>2 DEF LimitsInv, PlacedNow, FirstBuy
    <3> QED
      BY <2>2, <3>1, <3>2 DEF CleanBuys
  <2>3. DirectBuys(c) \ doubted \in SUBSET first
    BY <2>2 DEF DirectBuys
  <2>4. IsFiniteSet(first) /\ Cardinality(first) <= policy.maxNew
    BY <2>1, FewAreFirst
  <2> HIDE DEF first
  <2>5. /\ Cardinality(DirectBuys(c) \ doubted) \in Nat /\ Cardinality(first) \in Nat
        /\ Cardinality(DirectBuys(c) \ doubted) <= Cardinality(first)
    BY <2>3, <2>4, PartIsSmaller
  <2> QED
    BY <2>1, <2>4, <2>5
<1> QED
  BY <1>1, TypeCorrect, LimitsHold, PTL

\* The loop over the risk decisions computes what it should, for every list of
\* reports and every health of the sources they use: the ALLOW rows are the first
\* clean openings with healthy sources that fit.
THEOREM PlanIsFirst == Spec => []PlanIsFirstThatFit
<1>1. TypeOK /\ LimitsInv => PlanIsFirstThatFit
  <2> SUFFICES ASSUME TypeOK, LimitsInv, NEW m \in Manifests,
                      NEW terms \in Terms, NEW cleared \in SUBSET WatchKeys
               PROVE  LET x == Built(m, terms, cleared)
                          clean == {k \in CycleKeys : /\ Opens(x, k) /\ ~ReportOf(k).caution
                                                      /\ HealthySources(x, k)}
                          upTo(k) == {l \in clean : l.place <= k.place}
                          fits(n) == n <= policy.maxNew /\ Counted(x) + n <= policy.cap
                      IN  Plan(x) =
                          {IntentOf(x, k) : k \in {l \in clean : fits(Cardinality(upTo(l)))}}
    BY DEF PlanIsFirstThatFit
  <2> DEFINE x == Built(m, terms, cleared)
  <2>1. Previewed(x)
    BY BuiltIsPreviewed DEF LimitsInv
  <2> HIDE DEF x
  <2>2. Plan(x) = {IntentOf(x, k) : k \in AllowedKeys(x)}
    BY DEF Plan, AllowedKeys
  <2>3. AllowedKeys(x) =
           {k \in CleanOpenings(x) : Fits(x, Cardinality(OpeningsUpTo(x, k)))}
    BY <2>1, AllowedAreTheFirst
  <2> QED
    BY <2>2, <2>3 DEF CleanOpenings, OpeningsUpTo, Fits, x
<1> QED
  BY <1>1, TypeCorrect, LimitsHold, PTL
===============================================================================

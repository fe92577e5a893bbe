--------------------------- MODULE PlannerProofs ---------------------------
(***************************************************************************)
(* Theorems about Planner.                                                  *)
(***************************************************************************)
EXTENDS Planner, FiniteSetTheorems, SequenceTheorems, WellFoundedInduction, TLAPS

(***************************************************************************)
(* Finite sets, and what is least in them.                                  *)
(***************************************************************************)
LEMMA LeastNatural ==
  ASSUME NEW T \in SUBSET Nat, T # {}
  PROVE  Min(T) \in T /\ \A y \in T : Min(T) <= y
  <1> DEFINE less == {pair \in Nat \X Nat : pair[1] < pair[2]}
  <1>1. IsWellFoundedOn(less, Nat)
    BY NatLessThanWellFounded, Zenon DEF OpToRel
  <1>2. PICK x \in T : \A y \in T : <<y, x>> \notin less
    BY <1>1, WFMin, Zenon
  <1>3. ASSUME NEW y \in T PROVE x <= y
    <2>1. x \in Nat /\ y \in Nat /\ ~(<<y, x>> \in less)
      BY <1>2
    <2>2. ~(y < x)
      BY <2>1
    <2> QED
      BY <2>1, <2>2
  <1> QED
    BY <1>3 DEF Min

\* A finite set has a member at which a function is least.
LEMMA FiniteLeast ==
  ASSUME NEW S, IsFiniteSet(S), S # {}, NEW f \in [S -> Int]
  PROVE  \E x \in S : \A y \in S : f[x] <= f[y]
  <1> DEFINE below(x) == {y \in S : f[y] < f[x]}
             counts == {Cardinality(below(x)) : x \in S}
  <1>1. \A x \in S : IsFiniteSet(below(x)) /\ Cardinality(below(x)) \in Nat
    BY FS_Subset, FS_CardinalityType
  <1>2. PICK x \in S : Min(counts) = Cardinality(below(x))
    <2>1. counts \in SUBSET Nat /\ counts # {}
      BY <1>1
    <2>2. Min(counts) \in counts
      <3> HIDE DEF counts
      <3> QED
        BY <2>1, LeastNatural
    <2> QED
      BY <2>2
  <1>3. \A y \in S : Cardinality(below(x)) <= Cardinality(below(y))
    <2>1. counts \in SUBSET Nat /\ counts # {}
      BY <1>1
    <2>2. \A n \in counts : Min(counts) <= n
      <3> HIDE DEF counts
      <3> QED
        BY <2>1, LeastNatural
    <2> QED
      BY <2>2, <1>2
  <1>4. ASSUME NEW y \in S, f[y] < f[x] PROVE FALSE
    <2>1. below(y) \subseteq below(x) /\ y \in below(x) /\ y \notin below(y)
      BY <1>4
    <2>2. /\ Cardinality(below(y)) <= Cardinality(below(x))
          /\ Cardinality(below(x)) = Cardinality(below(y)) => below(x) = below(y)
      BY <2>1, <1>1, FS_Subset
    <2>3. Cardinality(below(x)) # Cardinality(below(y))
      BY <2>1, <2>2, Zenon
    <2>4. Cardinality(below(x)) <= Cardinality(below(y))
      BY <1>3
    <2>5. Cardinality(below(x)) \in Nat /\ Cardinality(below(y)) \in Nat
      BY <1>1
    <2> HIDE DEF below
    <2> QED
      BY <2>2, <2>3, <2>4, <2>5
  <1> QED
    <2>1. \A y \in S : f[x] \in Int /\ f[y] \in Int /\ ~(f[y] < f[x])
      BY <1>4
    <2> QED
      BY <2>1

\* What a function makes of a finite set is finite.
LEMMA FiniteImage ==
  ASSUME NEW S, IsFiniteSet(S), NEW f, DOMAIN f = S
  PROVE  IsFiniteSet({f[x] : x \in S})
  <1> DEFINE T == {f[x] : x \in S}
             g == [x \in S |-> f[x]]
  <1>1. g \in Surjection(S, T)
    BY DEF Surjection
  <1> QED
    BY <1>1, FS_Surjection

(***************************************************************************)
(* Sorting by distinct keys of one length puts everything somewhere, and      *)
(* nothing else.                                                            *)
(***************************************************************************)
LEMMA LowerOrders ==
  ASSUME NEW N \in Nat, NEW k \in [1..N -> Int], NEW l \in [1..N -> Int],
         NEW m \in [1..N -> Int]
  PROVE  /\ ~Lower(k, k)
         /\ Lower(k, l) /\ Lower(l, m) => Lower(k, m)
         /\ k = l \/ Lower(k, l) \/ Lower(l, k)
  <1>1. ~Lower(k, k)
    BY DEF Lower
  <1>2. ASSUME Lower(k, l), Lower(l, m) PROVE Lower(k, m)
    <2>1. PICK a \in 1..N : k[a] < l[a] /\ \A i \in 1..(a - 1) : k[i] = l[i]
      BY <1>2 DEF Lower
    <2>2. PICK b \in 1..N : l[b] < m[b] /\ \A i \in 1..(b - 1) : l[i] = m[i]
      BY <1>2 DEF Lower
    <2>3. CASE a <= b
      <3>1. k[a] < m[a] /\ \A i \in 1..(a - 1) : k[i] = m[i]
        BY <2>1, <2>2, <2>3
      <3> QED
        BY <3>1 DEF Lower
    <2>4. CASE b < a
      <3>1. k[b] < m[b] /\ \A i \in 1..(b - 1) : k[i] = m[i]
        BY <2>1, <2>2, <2>4
      <3> QED
        BY <3>1 DEF Lower
    <2> QED
      BY <2>3, <2>4
  <1>3. ASSUME k # l PROVE Lower(k, l) \/ Lower(l, k)
    <2> DEFINE apart == {i \in 1..N : k[i] # l[i]}
    <2>1. apart \in SUBSET Nat /\ apart # {}
      BY <1>3
    <2>2. PICK a \in apart : \A i \in apart : a <= i
      <3> HIDE DEF apart
      <3> QED
        BY <2>1, LeastNatural
    <2>3. a \in 1..N /\ k[a] # l[a] /\ \A i \in 1..(a - 1) : k[i] = l[i]
      BY <2>2
    <2>4. k[a] < l[a] \/ l[a] < k[a]
      BY <2>3
    <2> QED
      BY <2>3, <2>4 DEF Lower
  <1> QED
    BY <1>1, <1>2, <1>3

LEMMA SortedLists ==
  ASSUME NEW N \in Nat, NEW key, IsFiniteSet(DOMAIN key),
         \A o \in DOMAIN key : key[o] \in [1..N -> Int],
         \A o, u \in DOMAIN key : key[o] = key[u] => o = u
  PROVE  /\ Sorted(key) \in [1..Cardinality(DOMAIN key) -> DOMAIN key]
         /\ \A o \in DOMAIN key : \E n \in 1..Cardinality(DOMAIN key) : Sorted(key)[n] = o
  <1> DEFINE S == DOMAIN key
             C == Cardinality(S)
             before(o) == {u \in S : Lower(key[u], key[o])}
             place == [o \in S |-> Cardinality(before(o)) + 1]
  <1>1. C \in Nat
    BY FS_CardinalityType
  <1>0. /\ \A o \in S : ~Lower(key[o], key[o])
        /\ \A o, u, w \in S : Lower(key[o], key[u]) /\ Lower(key[u], key[w])
                              => Lower(key[o], key[w])
        /\ \A o, u \in S : o = u \/ Lower(key[o], key[u]) \/ Lower(key[u], key[o])
    <2>1. \A o \in S : key[o] \in [1..N -> Int]
      OBVIOUS
    <2>2. ASSUME NEW o \in S, NEW u \in S, NEW w \in S
          PROVE  /\ ~Lower(key[o], key[o])
                 /\ Lower(key[o], key[u]) /\ Lower(key[u], key[w]) => Lower(key[o], key[w])
                 /\ key[o] = key[u] \/ Lower(key[o], key[u]) \/ Lower(key[u], key[o])
      BY <2>1, LowerOrders
    <2> QED
      BY <2>2
  <1>2. ASSUME NEW o \in S
        PROVE  IsFiniteSet(before(o)) /\ Cardinality(before(o)) \in Nat /\ place[o] \in 1..C
    <2>1. IsFiniteSet(before(o)) /\ Cardinality(before(o)) \in Nat
          /\ Cardinality(before(o)) <= C /\ (C = Cardinality(before(o)) => S = before(o))
      BY FS_Subset, FS_CardinalityType
    <2>2. o \notin before(o)
      BY <1>0
    <2> QED
      BY <2>1, <2>2, <1>1
  <1>3. ASSUME NEW o \in S, NEW u \in S, Lower(key[o], key[u])
        PROVE  place[o] < place[u]
    <2>1. before(o) \subseteq before(u)
      BY <1>0, <1>3
    <2>2. o \in before(u) /\ o \notin before(o)
      BY <1>0, <1>3
    <2>3. /\ Cardinality(before(o)) <= Cardinality(before(u))
          /\ Cardinality(before(u)) = Cardinality(before(o)) => before(u) = before(o)
      BY <2>1, <1>2, FS_Subset
    <2>4. Cardinality(before(u)) # Cardinality(before(o))
      BY <2>2, <2>3, Zenon
    <2>5. Cardinality(before(u)) \in Nat /\ Cardinality(before(o)) \in Nat
      BY <1>2
    <2>6. place[o] = Cardinality(before(o)) + 1 /\ place[u] = Cardinality(before(u)) + 1
      OBVIOUS
    <2> HIDE DEF before, place
    <2> QED
      BY <2>3, <2>4, <2>5, <2>6
  <1>4. \A o, u \in S : place[o] = place[u] => o = u
    <2> SUFFICES ASSUME NEW o \in S, NEW u \in S, place[o] = place[u] PROVE o = u
      OBVIOUS
    <2>1. place[o] \in 1..C /\ place[u] \in 1..C
      BY <1>2, Zenon
    <2>2. place[o] \in Int /\ place[u] \in Int
      <3> HIDE DEF C, place
      <3> QED
        BY <1>1, <2>1
    <2>3. ~(place[o] < place[u]) /\ ~(place[u] < place[o])
      <3> HIDE DEF place
      <3> QED
        BY <2>2
    <2>4. ~Lower(key[o], key[u]) /\ ~Lower(key[u], key[o])
      BY <1>3, <2>3
    <2> QED
      BY <1>0, <2>4
  <1>5. place \in Surjection(S, 1..C)
    <2>1. place \in Injection(S, 1..C)
      <3>1. place \in [S -> 1..C]
        BY <1>2
      <3> HIDE DEF place
      <3> QED
        BY <3>1, <1>4 DEF Injection, IsInjective
    <2>2. IsFiniteSet(1..C) /\ Cardinality(1..C) = C
      BY <1>1, FS_Interval
    <2> QED
      BY <2>1, <2>2, FS_Injection
  <1>6. Sorted(key) = [n \in 1..C |-> CHOOSE o \in S : place[o] = n]
    BY Zenon DEF Sorted
  <1>7. ASSUME NEW n \in 1..C
        PROVE  Sorted(key)[n] \in S /\ place[Sorted(key)[n]] = n
    <2>1. \E o \in S : place[o] = n
      BY <1>5 DEF Surjection
    <2> HIDE DEF place
    <2> QED
      BY <2>1, <1>6
  <1>8. ASSUME NEW o \in S PROVE Sorted(key)[place[o]] = o
    BY <1>2, <1>4, <1>7
  <1> QED
    BY <1>2, <1>6, <1>7, <1>8

(***************************************************************************)
(* Languages and settings.                                                  *)
(***************************************************************************)
LEMMA Spelled ==
  ASSUME NEW lang \in Language
  PROVE  NormLang(lang) \in Language /\ NormLang(NormLang(lang)) = NormLang(lang)
  BY PlannerAssumption DEF NormLang, Language

LEMMA Answered ==
  ASSUME NEW lang \in Origin \cup {Untold}
  PROVE  lang \in Language /\ NormLang(lang) = lang
  BY PlannerAssumption DEF NormLang, Language

LEMMA StockFields ==
  ASSUME NEW n \in DOMAIN Stock
  PROVE  Stock[n][1] \in Codec /\ Stock[n][2] \in Nat
  <1>1. Stock[1] = <<"aac", 160>>
    BY DEF Stock
  <1>2. Stock[2] = <<"aac", 320>>
    BY DEF Stock
  <1>3. Stock[6] = <<"ac3", 640>>
    BY DEF Stock
  <1>4. Stock[7] = <<"aac", 704>>
    BY DEF Stock
  <1>5. Stock[8] = <<"aac", 768>>
    BY DEF Stock
  <1>6. "aac" \in Codec /\ "ac3" \in Codec
    BY PlannerAssumption
  <1>7. n \in {1, 2, 6, 7, 8}
    BY DEF Stock
  <1> QED
    BY <1>1, <1>2, <1>3, <1>4, <1>5, <1>6, <1>7

LEMMA EntryFields ==
  ASSUME NEW e, e[1] \in Nat, SpecFits(SplitEntry(e)),
         Len(e) = 3 => e[2] \in Codec /\ e[3] \in Nat
  PROVE  LET row == SplitEntry(e)
         IN /\ row.channels = e[1]
            /\ row.action = "downmix" => row.codec \in Codec /\ row.rate \in Nat
  <1>0. \A action, made : LET row == LayoutRow(e[1], action, made)
                          IN /\ row.channels = e[1] /\ row.action = action
                             /\ row.codec = made[1] /\ row.rate = made[2]
    BY DEF LayoutRow
  <1>1. CASE Len(e) = 1 /\ e[1] \in DOMAIN Stock
    <2>1. SplitEntry(e) = LayoutRow(e[1], "downmix", Stock[e[1]])
      BY <1>1 DEF SplitEntry
    <2> QED
      BY <1>0, <1>1, <2>1, StockFields
  <1>2. CASE ~(Len(e) = 1 /\ e[1] \in DOMAIN Stock) /\ Len(e) # 3
    <2> DEFINE none == <<"", 0>>
    <2>1. none[1] = ""
      OBVIOUS
    <2>2. PICK action : SplitEntry(e) = LayoutRow(e[1], action, none)
      BY <1>2 DEF SplitEntry
    <2> HIDE DEF none
    <2>3. /\ LayoutRow(e[1], action, none).codec = ""
          /\ LayoutRow(e[1], action, none).channels = e[1]
      BY <2>1 DEF LayoutRow
    <2>4. SplitEntry(e).codec = "" /\ SplitEntry(e).channels = e[1]
      BY <2>2, <2>3
    <2> QED
      BY <2>4 DEF SpecFits
  <1>3. CASE ~(Len(e) = 1 /\ e[1] \in DOMAIN Stock) /\ Len(e) = 3
    <2>1. SplitEntry(e) = LayoutRow(e[1], "downmix", <<e[2], e[3]>>)
      BY <1>3 DEF SplitEntry
    <2> QED
      BY <1>0, <1>3, <2>1
  <1> QED
    BY <1>1, <1>2, <1>3

\* What a settings page accepts makes every layout once, at a size and a rate.
LEMMA AcceptedPolicy ==
  ASSUME NEW rules \in Accepted
  PROVE  /\ \A r \in Rule : rules.modes[r] \in Modes
         /\ DOMAIN rules.layouts \subseteq Nat /\ IsFiniteSet(DOMAIN rules.layouts)
         /\ IsFiniteSet(DOMAIN rules.languages) /\ DOMAIN rules.languages \subseteq Nat
         /\ \A n \in DOMAIN rules.layouts :
              LET row == rules.layouts[n]
              IN /\ row.channels \in Nat
                 /\ row.action = "downmix" => row.codec \in Codec /\ row.rate \in Nat
         /\ \A i, k \in DOMAIN rules.layouts :
              rules.layouts[i].channels = rules.layouts[k].channels => i = k
  <1>1. PICK d \in Draft : Valid(d) /\ rules = FromConfig(d)
    BY DEF Accepted
  <1>2. /\ DOMAIN d = {"modes", "layouts", "languages", "scope", "below", "above", "exts",
                       "skip_hardlinks"}
        /\ DOMAIN d.layouts = 1..Len(d.layouts) /\ d.languages \in Seq(Seq(STRING))
        /\ \A n \in DOMAIN d.layouts :
             /\ DOMAIN d.layouts[n] = 1..Len(d.layouts[n]) /\ d.layouts[n][1] \in Nat
             /\ Len(d.layouts[n]) = 3 => d.layouts[n][2] \in Codec /\ d.layouts[n][3] \in Nat
    BY PlannerAssumption
  <1>3. /\ rules.modes = ResolvedModes(d.modes)
        /\ rules.layouts = ResolvedLayouts(d.layouts)
        /\ rules.languages = ResolvedLangs(d.languages)
    BY <1>1, <1>2 DEF FromConfig
  <1>4. LayoutsFit(d)
    BY <1>1 DEF Valid
  <1>5. \A n \in DOMAIN d.layouts : Usable(d.layouts[n])
    BY <1>4 DEF LayoutsFit
  <1>6. DOMAIN rules.layouts = DOMAIN d.layouts
        /\ \A n \in DOMAIN d.layouts : rules.layouts[n] = SplitEntry(d.layouts[n])
    BY <1>3, <1>5 DEF ResolvedLayouts
  <1>7. \A n \in DOMAIN d.layouts :
          LET row == SplitEntry(d.layouts[n])
          IN /\ row.channels = d.layouts[n][1]
             /\ row.action = "downmix" => row.codec \in Codec /\ row.rate \in Nat
    <2> SUFFICES ASSUME NEW n \in DOMAIN d.layouts
                 PROVE  LET row == SplitEntry(d.layouts[n])
                        IN /\ row.channels = d.layouts[n][1]
                           /\ row.action = "downmix" => row.codec \in Codec /\ row.rate \in Nat
      OBVIOUS
    <2>1. SpecFits(SplitEntry(d.layouts[n]))
      BY <1>5 DEF Usable
    <2> QED
      BY <1>2, <2>1, EntryFields
  <1>8. \A i, k \in DOMAIN d.layouts : d.layouts[i][1] = d.layouts[k][1] => i = k
    BY <1>4 DEF LayoutsFit
  <1>9. \A r \in Rule : rules.modes[r] \in Modes
    <2>1. \A r \in Rule : RULES[r] \in Modes
      BY DEF Rule, RULES, Modes
    <2> QED
      BY <1>3, <2>1 DEF ResolvedModes
  <1>10. DOMAIN rules.languages \subseteq 1..Len(d.languages) /\ Len(d.languages) \in Nat
    BY <1>2, <1>3 DEF ResolvedLangs
  <1>11. IsFiniteSet(DOMAIN rules.languages) /\ DOMAIN rules.languages \subseteq Nat
    <2>1. IsFiniteSet(1..Len(d.languages)) /\ 1..Len(d.languages) \subseteq Nat
      BY <1>10, FS_Interval
    <2> QED
      BY <1>10, <2>1, FS_Subset
  <1>12. Len(d.layouts) \in Nat
    BY <1>2 DEF Len
  <1>13. IsFiniteSet(DOMAIN rules.layouts) /\ DOMAIN rules.layouts \subseteq Nat
    BY <1>2, <1>6, <1>12, FS_Interval
  <1>14. \A n \in DOMAIN rules.layouts :
           LET row == rules.layouts[n]
           IN /\ row.channels = d.layouts[n][1]
              /\ row.action = "downmix" => row.codec \in Codec /\ row.rate \in Nat
    BY <1>6, <1>7
  <1>15. /\ \A n \in DOMAIN rules.layouts :
              LET row == rules.layouts[n]
              IN /\ row.channels \in Nat
                 /\ row.action = "downmix" => row.codec \in Codec /\ row.rate \in Nat
         /\ \A i, k \in DOMAIN rules.layouts :
              rules.layouts[i].channels = rules.layouts[k].channels => i = k
    BY <1>2, <1>6, <1>8, <1>14
  <1> QED
    BY <1>9, <1>11, <1>13, <1>15

LEMMA DownmixedRows ==
  ASSUME NEW rules \in Accepted
  PROVE  /\ IsFiniteSet(Downmixed(rules))
         /\ \A row \in Downmixed(rules) :
              /\ row.channels \in Nat /\ row.codec \in Codec /\ row.rate \in Nat
              /\ LayoutAt(rules, row.channels) = row
  <1> DEFINE at == {n \in DOMAIN rules.layouts : rules.layouts[n].action = "downmix"}
             f == [n \in at |-> rules.layouts[n]]
  <1>1. Downmixed(rules) = {f[n] : n \in at}
    BY DEF Downmixed, Rows
  <1>2. IsFiniteSet(Downmixed(rules))
    <2>1. IsFiniteSet(at)
      BY AcceptedPolicy, FS_Subset
    <2>2. DOMAIN f = at
      OBVIOUS
    <2>3. IsFiniteSet({f[n] : n \in at})
      <3> HIDE DEF f, at
      <3> QED
        BY <2>1, <2>2, FiniteImage
    <2> QED
      BY <1>1, <2>3
  <1>3. \A row \in Downmixed(rules) : row.channels \in Nat /\ row.codec \in Codec
                                      /\ row.rate \in Nat
    BY AcceptedPolicy DEF Downmixed, Rows
  <1>4. ASSUME NEW row \in Downmixed(rules), NEW other \in Downmixed(rules),
               row.channels = other.channels
        PROVE  row = other
    <2>1. PICK i \in DOMAIN rules.layouts : rules.layouts[i] = row
      BY DEF Downmixed, Rows
    <2>2. PICK k \in DOMAIN rules.layouts : rules.layouts[k] = other
      BY DEF Downmixed, Rows
    <2>3. i = k
      BY <1>4, <2>1, <2>2, AcceptedPolicy
    <2> QED
      BY <2>1, <2>2, <2>3
  <1>5. \A row \in Downmixed(rules) : LayoutAt(rules, row.channels) = row
    BY <1>4 DEF LayoutAt
  <1> QED
    BY <1>2, <1>3, <1>5

(***************************************************************************)
(* A pass, and the tracks each rule hands on to the next.                     *)
(***************************************************************************)
Pass(p) ==
  /\ p.streams \in Seq(Probed) /\ p.ext \in Muxers
  /\ p.policy \in Accepted /\ p.original \in Origin \cup {Untold}
  /\ p.langs = Resolve(p.policy, p.original)

LEMMA PassesOver ==
  ASSUME NEW f \in File, NEW rules \in Accepted, NEW lang \in Origin \cup {Untold}, NEW acting
  PROVE  LET p == PassOver(f, rules, lang, acting)
         IN /\ Pass(p) /\ p.streams = f.streams /\ p.ext = f.ext /\ p.policy = rules
            /\ p.original = lang /\ p.acting = acting /\ p.langs = Resolve(rules, lang)
  BY DEF PassOver, Pass, File

LEMMA AudioInSteps ==
  ASSUME NEW p
  PROVE  LET a == Audio(p)
         IN /\ a.named = InLanguage(p, "audio")
            /\ a.spoken = WithoutCommentary(p, a.named)
            /\ a.worth = a.spoken \ StandIns(p, a.spoken)
            /\ a.stale = Stale(p, a.worth) /\ a.kept = a.worth \ a.stale
            /\ a.fat = Oversized(p, a.kept)
            /\ a.mixes = Downmixes(p, a.kept, Speaking(p, a.stale) \ {Untold})
            /\ a.made = a.mixes
                 \cup {<<LayoutAt(p.policy, p.streams[i].channels), i>> : i \in a.fat}
            /\ a.staying = WithoutRemoved(p, a.kept, a.made)
            /\ a.copied = a.staying \ a.fat /\ a.tag = OriginalToTag(p, a.staying)
  <1> DEFINE named == InLanguage(p, "audio")
             spoken == WithoutCommentary(p, named)
             worth == spoken \ StandIns(p, spoken)
             stale == Stale(p, worth)
             kept == worth \ stale
             fat == Oversized(p, kept)
             mixes == Downmixes(p, kept, Speaking(p, stale) \ {Untold})
             made == mixes \cup {<<LayoutAt(p.policy, p.streams[i].channels), i>> : i \in fat}
             staying == WithoutRemoved(p, kept, made)
             a == [named |-> named, spoken |-> spoken, worth |-> worth, stale |-> stale,
                   kept |-> kept, fat |-> fat, mixes |-> mixes, made |-> made,
                   staying |-> staying, copied |-> staying \ fat,
                   tag |-> OriginalToTag(p, staying)]
  <1>1. Audio(p) = a
    BY DEF Audio
  <1>2. /\ a.named = named /\ a.spoken = spoken /\ a.worth = worth /\ a.stale = stale
        /\ a.kept = kept /\ a.fat = fat /\ a.mixes = mixes /\ a.made = made
        /\ a.staying = staying /\ a.copied = staying \ fat
        /\ a.tag = OriginalToTag(p, staying)
    <2> HIDE DEF named, spoken, worth, stale, kept, fat, mixes, made, staying
    <2> QED
      OBVIOUS
  <1> HIDE DEF a
  <1> QED
    BY <1>1, <1>2

\* Every rule keeps some of what the one before it kept.
LEMMA AudioSets ==
  ASSUME NEW p, Pass(p)
  PROVE  LET a == Audio(p)
         IN /\ IsFiniteSet(DOMAIN p.streams) /\ DOMAIN p.streams \subseteq Nat
            /\ \A i \in DOMAIN p.streams : p.streams[i] \in Probed
            /\ a.named \subseteq AllOf(p, "audio") /\ AllOf(p, "audio") \subseteq DOMAIN p.streams
            /\ a.spoken \subseteq a.named /\ a.worth \subseteq a.spoken
            /\ a.stale \subseteq a.worth /\ a.kept \subseteq a.worth /\ a.fat \subseteq a.kept
            /\ a.staying \subseteq a.kept /\ a.copied \subseteq a.staying
            /\ a.tag \subseteq a.staying
  <1> DEFINE a == Audio(p)
  <1>1. IsFiniteSet(DOMAIN p.streams) /\ DOMAIN p.streams \subseteq Nat
        /\ \A i \in DOMAIN p.streams : p.streams[i] \in Probed
    <2>1. p.streams \in Seq(Probed)
      BY DEF Pass
    <2>2. Len(p.streams) \in Nat /\ DOMAIN p.streams = 1..Len(p.streams)
      BY <2>1
    <2>3. \A i \in 1..Len(p.streams) : p.streams[i] \in Probed
      BY <2>1, LenProperties
    <2>4. 1..Len(p.streams) \subseteq Nat /\ IsFiniteSet(1..Len(p.streams))
      BY <2>2, FS_Interval
    <2> QED
      BY <2>2, <2>3, <2>4
  <1>2. a.named \subseteq AllOf(p, "audio") /\ AllOf(p, "audio") \subseteq DOMAIN p.streams
    <2>1. a.named = InLanguage(p, "audio")
      BY AudioInSteps
    <2>2. AllOf(p, "audio") \subseteq DOMAIN p.streams
      BY DEF AllOf
    <2> QED
      BY <2>1, <2>2 DEF InLanguage
  <1>3. a.spoken \subseteq a.named
    BY AudioInSteps DEF WithoutCommentary
  <1>4. a.worth \subseteq a.spoken /\ a.stale \subseteq a.worth /\ a.kept \subseteq a.worth
    BY AudioInSteps DEF Stale
  <1>5. a.fat \subseteq a.kept
    BY AudioInSteps DEF Oversized
  <1>6. a.staying \subseteq a.kept
    BY AudioInSteps DEF WithoutRemoved
  <1>7. a.copied \subseteq a.staying /\ a.tag \subseteq a.staying
    BY AudioInSteps DEF OriginalToTag
  <1> QED
    BY <1>1, <1>2, <1>3, <1>4, <1>5, <1>6, <1>7

LEMMA PreferenceType ==
  ASSUME NEW p, Pass(p), NEW lang
  PROVE  Preference(p, lang) \in Nat
  <1>1. IsFiniteSet(DOMAIN p.langs)
    <2>1. DOMAIN p.langs \subseteq DOMAIN p.policy.languages
      BY DEF Pass, Resolve
    <2>2. IsFiniteSet(DOMAIN p.policy.languages)
      BY AcceptedPolicy DEF Pass
    <2> QED
      BY <2>1, <2>2, FS_Subset
  <1> QED
    BY <1>1, FS_Subset, FS_CardinalityType DEF Preference

\* There is always a best source.
LEMMA BestIsOne ==
  ASSUME NEW p, Pass(p), NEW tracks, tracks \subseteq DOMAIN p.streams, tracks # {}
  PROVE  Best(p, tracks) \in tracks
  <1> DEFINE pref == [i \in tracks |-> Preference(p, Tongue(p.streams[i]))]
             first == {i \in tracks : \A k \in tracks : pref[i] <= pref[k]}
             smaller == [i \in first |-> 0 - p.streams[i].channels]
             biggest == {i \in first : \A k \in first :
                           p.streams[k].channels <= p.streams[i].channels}
  <1>1. IsFiniteSet(tracks) /\ tracks \subseteq Nat
        /\ \A i \in tracks : p.streams[i].channels \in Nat
    BY AudioSets, FS_Subset DEF Probed
  <1>2. pref \in [tracks -> Int]
    BY PreferenceType
  <1>3. first # {}
    <2> HIDE DEF pref
    <2> QED
      BY <1>1, <1>2, FiniteLeast
  <1>4. IsFiniteSet(first) /\ first \subseteq tracks
    BY <1>1, FS_Subset
  <1>5. smaller \in [first -> Int]
    BY <1>1
  <1>6. PICK x \in first : \A y \in first : smaller[x] <= smaller[y]
    <2> HIDE DEF first, smaller
    <2> QED
      BY <1>3, <1>4, <1>5, FiniteLeast
  <1>7. x \in biggest
    <2> SUFFICES ASSUME NEW k \in first
                 PROVE  p.streams[k].channels <= p.streams[x].channels
      OBVIOUS
    <2>1. smaller[x] <= smaller[k] /\ x \in tracks /\ k \in tracks
      BY <1>6
    <2>2. smaller[x] = 0 - p.streams[x].channels /\ smaller[k] = 0 - p.streams[k].channels
      OBVIOUS
    <2> QED
      BY <1>1, <2>1, <2>2
  <1>8. Min(biggest) \in biggest
    <2>1. biggest \in SUBSET Nat /\ biggest # {}
      BY <1>1, <1>7
    <2> HIDE DEF biggest
    <2> QED
      BY <2>1, LeastNatural
  <1>9. Best(p, tracks) = Min(biggest)
    BY DEF Best
  <1> QED
    BY <1>8, <1>9

\* A downmix is a layout's, from a track that has more channels.
LEMMA MixesComeFrom ==
  ASSUME NEW p, Pass(p), NEW kept, kept \subseteq DOMAIN p.streams, NEW owed,
         NEW m \in Downmixes(p, kept, owed)
  PROVE  \E row \in Downmixed(p.policy) : \E i \in Sources(p, kept, row.channels) : m = <<row, i>>
  <1>1. CASE \E row \in Downmixed(p.policy) : \E lang :
               LET From == {i \in Sources(p, kept, row.channels) : Tongue(p.streams[i]) = lang}
               IN From # {} /\ m = <<row, Best(p, From)>>
    <2>0. PICK row \in Downmixed(p.policy) : \E lang :
               LET From == {i \in Sources(p, kept, row.channels) : Tongue(p.streams[i]) = lang}
               IN From # {} /\ m = <<row, Best(p, From)>>
      BY <1>1
    <2>1. PICK lang :
               LET From == {i \in Sources(p, kept, row.channels) : Tongue(p.streams[i]) = lang}
               IN From # {} /\ m = <<row, Best(p, From)>>
      BY <2>0
    <2> DEFINE From == {i \in Sources(p, kept, row.channels) : Tongue(p.streams[i]) = lang}
    <2>2. From \subseteq Sources(p, kept, row.channels) /\ From \subseteq DOMAIN p.streams
      BY DEF Sources
    <2>3. From # {} /\ m = <<row, Best(p, From)>>
      BY <2>1
    <2> HIDE DEF From
    <2>4. Best(p, From) \in From
      BY <2>2, <2>3, BestIsOne
    <2> QED
      BY <2>2, <2>3, <2>4
  <1>2. CASE \E row \in Downmixed(p.policy) :
               Sources(p, kept, row.channels) # {}
               /\ m = <<row, Best(p, Sources(p, kept, row.channels))>>
    <2>1. PICK row \in Downmixed(p.policy) :
               Sources(p, kept, row.channels) # {}
               /\ m = <<row, Best(p, Sources(p, kept, row.channels))>>
      BY <1>2
    <2>2. Sources(p, kept, row.channels) \subseteq DOMAIN p.streams
      BY DEF Sources
    <2>3. Best(p, Sources(p, kept, row.channels)) \in Sources(p, kept, row.channels)
      BY <2>1, <2>2, BestIsOne
    <2> QED
      BY <2>1, <2>3
  <1> DEFINE langs == Wanted(p) \cup owed
             From(row, lang) == {i \in Sources(p, kept, row.channels) :
                                   Tongue(p.streams[i]) = lang}
             Fillable(row) == {lang \in langs : <<row.channels, lang>> \notin Heard(p, kept)
                                                /\ From(row, lang) # {}}
             StandsIn(row) == /\ Fillable(row) = {}
                              /\ ~\E h \in Heard(p, kept) : h[1] = row.channels
                              /\ Sources(p, kept, row.channels) # {}
  <1>3. \/ \E row \in Downmixed(p.policy) :
              m \in {<<row, Best(p, From(row, lang))>> : lang \in Fillable(row)}
        \/ \E row \in {r \in Downmixed(p.policy) : StandsIn(r)} :
              m = <<row, Best(p, Sources(p, kept, row.channels))>>
    <2> DEFINE filled(row) == {<<row, Best(p, From(row, lang))>> : lang \in Fillable(row)}
               standing == {<<row, Best(p, Sources(p, kept, row.channels))>>
                            : row \in {r \in Downmixed(p.policy) : StandsIn(r)}}
    <2>1. Downmixes(p, kept, owed) = standing \cup UNION {filled(row) : row \in Downmixed(p.policy)}
      BY DEF Downmixes
    <2>2. (\E row \in Downmixed(p.policy) : m \in filled(row)) \/ m \in standing
      <3> HIDE DEF filled, standing
      <3> QED
        BY <2>1
    <2> QED
      BY <2>2
  <1>4. CASE \E row \in Downmixed(p.policy) :
               m \in {<<row, Best(p, From(row, lang))>> : lang \in Fillable(row)}
    <2>0. PICK row \in Downmixed(p.policy) :
            m \in {<<row, Best(p, From(row, lang))>> : lang \in Fillable(row)}
      BY <1>4
    <2>1. PICK lang \in Fillable(row) : m = <<row, Best(p, From(row, lang))>>
      BY <2>0
    <2>2. From(row, lang) # {}
      OBVIOUS
    <2> QED
      BY <1>1, <2>1, <2>2
  <1>5. CASE \E row \in {r \in Downmixed(p.policy) : StandsIn(r)} :
               m = <<row, Best(p, Sources(p, kept, row.channels))>>
    BY <1>2, <1>5
  <1> QED
    BY <1>3, <1>4, <1>5

LEMMA MadeFrom ==
  ASSUME NEW p, Pass(p)
  PROVE  LET a == Audio(p)
         IN /\ IsFiniteSet(a.made)
            /\ \A m \in a.made : \E row \in Downmixed(p.policy), i \in a.kept : m = <<row, i>>
            /\ \A m \in a.mixes :
                 \E row \in Downmixed(p.policy) : \E i \in Sources(p, a.kept, row.channels) :
                   m = <<row, i>>
  <1> DEFINE a == Audio(p)
             again == {<<LayoutAt(p.policy, p.streams[i].channels), i>> : i \in a.fat}
  <1>1. a.kept \subseteq DOMAIN p.streams
    BY AudioSets
  <1>2. ASSUME NEW m \in a.mixes
        PROVE  \E row \in Downmixed(p.policy) : \E i \in Sources(p, a.kept, row.channels) :
                 m = <<row, i>>
    <2>1. m \in Downmixes(p, a.kept, Speaking(p, a.stale) \ {Untold})
      BY AudioInSteps
    <2> QED
      BY <1>1, <2>1, MixesComeFrom
  <1>3. ASSUME NEW m \in again
        PROVE  \E row \in Downmixed(p.policy), i \in a.kept : m = <<row, i>>
    <2>1. PICK i \in a.fat : m = <<LayoutAt(p.policy, p.streams[i].channels), i>>
      OBVIOUS
    <2>2. p.streams[i].channels \in Rebuilt(p)
      <3>1. i \in Oversized(p, a.kept)
        BY AudioInSteps
      <3> QED
        BY <3>1 DEF Oversized
    <2>3. PICK row \in Downmixed(p.policy) : row.channels = p.streams[i].channels
      BY <2>2 DEF Rebuilt, SizesOf
    <2>4. LayoutAt(p.policy, row.channels) = row
      BY DownmixedRows DEF Pass
    <2>5. i \in a.kept
      BY AudioSets
    <2> QED
      BY <2>1, <2>3, <2>4, <2>5
  <1>4. \A m \in a.mixes : \E row \in Downmixed(p.policy), i \in a.kept : m = <<row, i>>
    BY <1>2 DEF Sources
  <1>5. a.made = a.mixes \cup again
    BY AudioInSteps
  <1> HIDE DEF a, again
  <1>6. \A m \in a.made : \E row \in Downmixed(p.policy), i \in a.kept : m = <<row, i>>
    BY <1>3, <1>4, <1>5
  <1>7. IsFiniteSet(a.made)
    <2>1. IsFiniteSet(Downmixed(p.policy)) /\ IsFiniteSet(a.kept)
      <3>1. IsFiniteSet(Downmixed(p.policy))
        BY DownmixedRows DEF Pass
      <3>2. IsFiniteSet(DOMAIN p.streams)
        BY AudioSets
      <3> QED
        BY <1>1, <3>1, <3>2, FS_Subset
    <2>2. IsFiniteSet(Downmixed(p.policy) \X a.kept)
      BY <2>1, FS_Product
    <2>3. a.made \subseteq Downmixed(p.policy) \X a.kept
      BY <1>6
    <2> QED
      BY <2>2, <2>3, FS_Subset
  <1> QED
    BY <1>2, <1>6, <1>7 DEF a

(***************************************************************************)
(* What a pass writes, and its order.                                        *)
(***************************************************************************)
LEMMA EncodedTyped ==
  ASSUME NEW p, Pass(p), NEW a, NEW row \in Downmixed(p.policy), NEW i \in DOMAIN p.streams
  PROVE  LET s == Encoded(p, a, row, i)
         IN s \in Probed /\ s.kind = "audio" /\ s.channels = row.channels
            /\ s.lang \in {p.original, Tongue(p.streams[i])} /\ s.role = "plain"
  <1> DEFINE s == Encoded(p, a, row, i)
             rate == IF KeepsTags(OutExt(p)) THEN 0 ELSE row.rate
             made == IF KeepsTags(OutExt(p)) THEN Settings(row) ELSE <<>>
             lang == IF i \in a.tag THEN p.original ELSE Tongue(p.streams[i])
  <1>1. row.channels \in Nat /\ row.codec \in Codec /\ row.rate \in Nat
    BY DownmixedRows DEF Pass
  <1>2. Tongue(p.streams[i]) \in Language /\ p.original \in Language
    <2>1. p.streams[i].lang \in Language
      BY AudioSets DEF Probed
    <2> QED
      BY <2>1, Spelled, Answered DEF Tongue, Pass
  <1>3. lang \in Language /\ lang \in {p.original, Tongue(p.streams[i])}
    BY <1>2
  <1>4. rate \in Nat
    BY <1>1
  <1>5. made \in {<<>>} \cup (Codec \X Nat)
    BY <1>1 DEF Settings
  <1>6. Untold \in Language
    BY DEF Language
  <1>7. s = [kind |-> "audio", channels |-> row.channels, codec |-> row.codec, lang |-> lang,
             rate |-> rate, made |-> made, role |-> "plain", names |-> Untold, released |-> FALSE]
    BY DEF Encoded
  <1> HIDE DEF s, rate, made, lang
  <1>8. "audio" \in StreamKind /\ "plain" \in StreamRole
    BY DEF StreamKind, StreamRole
  <1>9. s \in Probed
    BY <1>1, <1>3, <1>4, <1>5, <1>6, <1>7, <1>8 DEF Probed
  <1> QED
    BY <1>3, <1>7, <1>9 DEF s

LEMMA CopyTyped ==
  ASSUME NEW p, Pass(p), NEW a, NEW i \in DOMAIN p.streams
  PROVE  LET c == Copy(p, a, i)
             s == p.streams[i]
         IN /\ c \in Probed /\ c.kind = s.kind /\ c.channels = s.channels
            /\ c.lang = IF i \in a.tag THEN p.original ELSE s.lang
            /\ c.role = s.role \/ (i \in Stripped(p) /\ c.role = "plain")
  <1> DEFINE c == Copy(p, a, i)
             s == p.streams[i]
             lang == IF i \in a.tag THEN p.original ELSE s.lang
             released == s.released /\ i \notin Cleared(p, a)
             names == IF i \in Cleared(p, a) THEN Untold ELSE s.names
             codec == IF Converting(p) /\ s.codec = "mov_text" THEN "srt" ELSE s.codec
             role == IF i \in Stripped(p) THEN "plain" ELSE s.role
  <1>1. s \in Probed
    BY AudioSets
  <1>2. s = [kind |-> s.kind, channels |-> s.channels, codec |-> s.codec, lang |-> s.lang,
             rate |-> s.rate, made |-> s.made, role |-> s.role, names |-> s.names,
             released |-> s.released]
    BY <1>1 DEF Probed
  <1>3. /\ s.kind \in StreamKind /\ s.channels \in Nat /\ s.codec \in Codec /\ s.lang \in Language
        /\ s.rate \in Nat /\ s.made \in {<<>>} \cup (Codec \X Nat) /\ s.role \in StreamRole
        /\ s.names \in Language /\ s.released \in BOOLEAN
    BY <1>1 DEF Probed
  <1>4. c = [s EXCEPT !.lang = lang, !.released = released, !.names = names, !.codec = codec,
                      !.role = role]
    BY DEF Copy
  <1>5. p.original \in Language /\ Untold \in Language /\ "srt" \in Codec
        /\ "plain" \in StreamRole
    <2>1. p.original \in Language
      BY Answered DEF Pass
    <2> QED
      BY <2>1, PlannerAssumption DEF Language, StreamRole
  <1>6. /\ lang \in Language /\ released \in BOOLEAN /\ names \in Language
        /\ codec \in Codec /\ role \in StreamRole
    BY <1>3, <1>5
  <1>7. role = s.role \/ (i \in Stripped(p) /\ role = "plain")
    OBVIOUS
  <1>8. lang = IF i \in a.tag THEN p.original ELSE s.lang
    OBVIOUS
  <1> HIDE DEF c, lang, released, names, codec, role, s
  <1>9. c = [kind |-> s.kind, channels |-> s.channels, codec |-> codec, lang |-> lang,
             rate |-> s.rate, made |-> s.made, role |-> role, names |-> names,
             released |-> released]
    BY <1>2, <1>4
  <1>10. c \in Probed
    BY <1>3, <1>6, <1>9 DEF Probed
  <1> QED
    BY <1>7, <1>8, <1>9, <1>10 DEF c, s

\* An output is a copy of a stream, or a layout's track made from one.
LEMMA OutputForms ==
  ASSUME NEW p, Pass(p), NEW o \in Outputs(p, Audio(p))
  PROVE  LET a == Audio(p)
         IN /\ o.src \in DOMAIN p.streams /\ o.stream \in Probed
            /\ \/ o = [src |-> o.src, encode |-> FALSE, stream |-> Copy(p, a, o.src)]
               \/ \E row \in Downmixed(p.policy) :
                    /\ o = [src |-> o.src, encode |-> TRUE, stream |-> Encoded(p, a, row, o.src)]
                    /\ o.stream.kind = "audio" /\ o.stream.channels = row.channels
  <1> DEFINE a == Audio(p)
             from == Videos(p) \cup a.copied \cup Subtitles(p) \cup Trailing(p)
  <1>1. from \subseteq DOMAIN p.streams /\ a.kept \subseteq DOMAIN p.streams
    <2>1. a.copied \subseteq DOMAIN p.streams /\ a.kept \subseteq DOMAIN p.streams
      BY AudioSets
    <2>2. Videos(p) \cup Subtitles(p) \cup Trailing(p) \subseteq DOMAIN p.streams
      BY DEF Videos, Subtitles, Trailing, InLanguage, AllOf
    <2> QED
      BY <2>1, <2>2
  <1>2. CASE \E i \in from : o = [src |-> i, encode |-> FALSE, stream |-> Copy(p, a, i)]
    <2>1. PICK i \in from : o = [src |-> i, encode |-> FALSE, stream |-> Copy(p, a, i)]
      BY <1>2
    <2>2. o.src = i /\ o.stream = Copy(p, a, i)
      BY <2>1
    <2>3. o.stream \in Probed
      BY <1>1, <2>2, CopyTyped
    <2> HIDE DEF a, from
    <2> QED
      BY <1>1, <2>1, <2>2, <2>3 DEF a
  <1>3. CASE \E m \in a.made :
               o = [src |-> m[2], encode |-> TRUE, stream |-> Encoded(p, a, m[1], m[2])]
    <2>1. PICK m \in a.made :
            o = [src |-> m[2], encode |-> TRUE, stream |-> Encoded(p, a, m[1], m[2])]
      BY <1>3
    <2>2. PICK row \in Downmixed(p.policy), i \in a.kept : m = <<row, i>>
      BY MadeFrom
    <2>3. m[1] = row /\ m[2] = i
      BY <2>2
    <2>4. o.src = i /\ o.stream = Encoded(p, a, row, i)
          /\ o = [src |-> i, encode |-> TRUE, stream |-> Encoded(p, a, row, i)]
      BY <2>1, <2>3
    <2>5. i \in DOMAIN p.streams
      BY <1>1
    <2>6. /\ o.stream \in Probed /\ o.stream.kind = "audio"
          /\ o.stream.channels = row.channels
      BY <2>4, <2>5, EncodedTyped
    <2> HIDE DEF a, from
    <2> QED
      BY <2>4, <2>5, <2>6 DEF a
  <1> QED
    BY <1>2, <1>3 DEF Outputs

LEMMA OutputsFinite ==
  ASSUME NEW p, Pass(p)
  PROVE  IsFiniteSet(Outputs(p, Audio(p)))
  <1> DEFINE a == Audio(p)
             from == Videos(p) \cup a.copied \cup Subtitles(p) \cup Trailing(p)
             copies == [i \in from |-> [src |-> i, encode |-> FALSE, stream |-> Copy(p, a, i)]]
             tracks == [m \in a.made |->
                          [src |-> m[2], encode |-> TRUE, stream |-> Encoded(p, a, m[1], m[2])]]
  <1>1. IsFiniteSet(from)
    <2>1. IsFiniteSet(DOMAIN p.streams) /\ a.copied \subseteq DOMAIN p.streams
      BY AudioSets
    <2>2. from \subseteq DOMAIN p.streams
      BY <2>1 DEF Videos, Subtitles, Trailing, InLanguage, AllOf
    <2> QED
      BY <2>1, <2>2, FS_Subset
  <1>2. IsFiniteSet(a.made)
    BY MadeFrom
  <1>3. Outputs(p, a) = {copies[i] : i \in from} \cup {tracks[m] : m \in a.made}
    BY DEF Outputs
  <1>4. DOMAIN copies = from /\ DOMAIN tracks = a.made
    OBVIOUS
  <1> HIDE DEF from, copies, tracks, a
  <1>5. IsFiniteSet({copies[i] : i \in from})
    BY <1>1, <1>4, FiniteImage
  <1>6. IsFiniteSet({tracks[m] : m \in a.made})
    BY <1>2, <1>4, FiniteImage
  <1> QED
    BY <1>3, <1>5, <1>6, FS_Union DEF a

LEMMA RankTells ==
  ASSUME NEW p, Pass(p), NEW c \in Nat, NEW d \in Nat
  PROVE  /\ Rank(p, c) \in [1..3 -> Int]
         /\ Rank(p, c) = Rank(p, d) => c = d
  <1> DEFINE at(k) == {n \in DOMAIN p.policy.layouts : p.policy.layouts[n].channels = k}
  <1>1. \A k : at(k) \in SUBSET Nat
    BY AcceptedPolicy DEF Pass
  <1>2. \A k : at(k) # {} => Min(at(k)) \in Nat /\ p.policy.layouts[Min(at(k))].channels = k
    <2> SUFFICES ASSUME NEW k, at(k) # {}
                 PROVE  Min(at(k)) \in Nat /\ p.policy.layouts[Min(at(k))].channels = k
      OBVIOUS
    <2>1. Min(at(k)) \in at(k)
      <3> HIDE DEF at
      <3> QED
        BY <1>1, LeastNatural
    <2> QED
      BY <1>1, <2>1
  <1>3. \A k : Rank(p, k) = IF at(k) # {} THEN <<0, Min(at(k)), 0>>
                            ELSE <<1, IF k < 2 THEN 1 ELSE 0, k>>
    BY DEF Rank
  <1> HIDE DEF at
  <1>4. \A k \in Nat : /\ at(k) # {} => Rank(p, k) = <<0, Min(at(k)), 0>>
                       /\ at(k) = {} => \E mono \in {0, 1} : Rank(p, k) = <<1, mono, k>>
    BY <1>3
  <1>5. \A x, y, z \in Int : /\ <<x, y, z>> \in [1..3 -> Int] /\ <<x, y, z>>[1] = x
                             /\ <<x, y, z>>[2] = y /\ <<x, y, z>>[3] = z
    OBVIOUS
  <1>6. \A k \in Nat : /\ Rank(p, k) \in [1..3 -> Int]
                       /\ at(k) # {} => Rank(p, k)[1] = 0 /\ Rank(p, k)[2] = Min(at(k))
                       /\ at(k) = {} => Rank(p, k)[1] = 1 /\ Rank(p, k)[3] = k
    <2> SUFFICES ASSUME NEW k \in Nat
                 PROVE  /\ Rank(p, k) \in [1..3 -> Int]
                        /\ at(k) # {} => Rank(p, k)[1] = 0 /\ Rank(p, k)[2] = Min(at(k))
                        /\ at(k) = {} => Rank(p, k)[1] = 1 /\ Rank(p, k)[3] = k
      OBVIOUS
    <2>1. CASE at(k) # {}
      <3>1. Min(at(k)) \in Int /\ Rank(p, k) = <<0, Min(at(k)), 0>>
        BY <1>2, <1>4, <2>1
      <3> QED
        BY <1>5, <2>1, <3>1
    <2>2. CASE at(k) = {}
      <3>1. PICK mono \in {0, 1} : Rank(p, k) = <<1, mono, k>>
        BY <1>4, <2>2
      <3> QED
        BY <1>5, <2>2, <3>1
    <2> QED
      BY <2>1, <2>2
  <1>7. ASSUME Rank(p, c) = Rank(p, d) PROVE c = d
    <2>1. at(c) = {} <=> at(d) = {}
      BY <1>6, <1>7
    <2>2. CASE at(c) # {}
      <3>1. Min(at(c)) = Min(at(d))
        BY <1>6, <1>7, <2>1, <2>2
      <3> QED
        BY <1>2, <2>1, <2>2, <3>1
    <2>3. CASE at(c) = {}
      BY <1>6, <1>7, <2>1, <2>3
    <2> QED
      BY <2>2, <2>3
  <1> QED
    BY <1>6, <1>7

\* Keys are put together of tuples.
LEMMA KeysJoined ==
  ASSUME NEW h \in Seq(Int), NEW r \in [1..3 -> Int], NEW t \in Seq(Int),
         Len(h) \in {1, 2}, Len(t) = 2
  PROVE  LET k == h \o r
             l == (h \o r) \o t
         IN /\ Len(h) = 1 => /\ l \in [1..6 -> Int] /\ l[1] = h[1]
                            /\ l[2] = r[1] /\ l[3] = r[2] /\ l[4] = r[3]
                            /\ l[5] = t[1] /\ l[6] = t[2]
            /\ Len(h) = 2 => /\ k \in [1..5 -> Int] /\ k[1] = h[1] /\ k[2] = h[2]
                            /\ k[3] = r[1] /\ k[4] = r[2] /\ k[5] = r[3]
  <1>1. r \in Seq(Int) /\ Len(r) = 3
    <2>1. r \in Seq(Int)
      BY SeqDef
    <2> QED
      BY <2>1, LenProperties
  <1> DEFINE k == h \o r
             l == k \o t
  <1>2. /\ k \in Seq(Int) /\ Len(k) = Len(h) + Len(r)
        /\ \A i \in 1..Len(h) + Len(r) : k[i] = IF i <= Len(h) THEN h[i] ELSE r[i - Len(h)]
    BY <1>1, ConcatProperties, Zenon
  <1> HIDE DEF k
  <1>3. /\ l \in Seq(Int) /\ Len(l) = Len(k) + Len(t)
        /\ \A i \in 1..Len(k) + Len(t) : l[i] = IF i <= Len(k) THEN k[i] ELSE t[i - Len(k)]
    <2>1. k \in Seq(Int)
      BY <1>2
    <2> QED
      BY <2>1, ConcatProperties, ZenonT(30)
  <1> HIDE DEF l
  <1>4. k \in [1..Len(k) -> Int] /\ l \in [1..Len(l) -> Int]
    BY <1>2, <1>3, LenProperties
  <1>5. ASSUME Len(h) = 2
        PROVE  k \in [1..5 -> Int] /\ k[1] = h[1] /\ k[2] = h[2] /\ k[3] = r[1] /\ k[4] = r[2]
               /\ k[5] = r[3]
    BY <1>1, <1>2, <1>4, <1>5
  <1>6. ASSUME Len(h) = 1
        PROVE  l \in [1..6 -> Int] /\ l[1] = h[1] /\ l[2] = r[1] /\ l[3] = r[2] /\ l[4] = r[3]
               /\ l[5] = t[1] /\ l[6] = t[2]
    <2>1. Len(k) = 4 /\ Len(l) = 6
      BY <1>1, <1>2, <1>3, <1>6
    <2>2. k[1] = h[1] /\ k[2] = r[1] /\ k[3] = r[2] /\ k[4] = r[3]
      BY <1>1, <1>2, <1>6
    <2>3. l[1] = k[1] /\ l[2] = k[2] /\ l[3] = k[3] /\ l[4] = k[4] /\ l[5] = t[1] /\ l[6] = t[2]
      BY <1>3, <2>1
    <2> QED
      BY <1>4, <2>1, <2>2, <2>3
  <1> QED
    BY <1>5, <1>6 DEF k, l

\* The keys of two outputs differ.
LEMMA PositionsTell ==
  ASSUME NEW p, Pass(p), NEW o \in Outputs(p, Audio(p)), NEW u \in Outputs(p, Audio(p))
  PROVE  /\ Position(p, o) \in [1..6 -> Int] /\ InputPosition(p, o) \in [1..5 -> Int]
         /\ Position(p, o) = Position(p, u) => o = u
         /\ InputPosition(p, o) = InputPosition(p, u) => o = u
  <1> DEFINE outs == Outputs(p, Audio(p))
             encoded(w) == IF w.encode THEN 1 ELSE 0
  <1>1. \A w \in outs : /\ w.src \in Nat /\ w.stream \in Probed /\ w.stream.channels \in Nat
                        /\ AudioRank(p, w) \in [1..3 -> Int] /\ Copied(w) \in Int
                        /\ Section(w.stream.kind) \in Int /\ encoded(w) \in Int
    <2> SUFFICES ASSUME NEW w \in outs
                 PROVE  /\ w.src \in Nat /\ w.stream \in Probed /\ w.stream.channels \in Nat
                        /\ AudioRank(p, w) \in [1..3 -> Int] /\ Copied(w) \in Int
                        /\ Section(w.stream.kind) \in Int /\ encoded(w) \in Int
      OBVIOUS
    <2>1. w.src \in Nat /\ w.stream \in Probed
      BY OutputForms, AudioSets
    <2>2. w.stream.channels \in Nat
      BY <2>1 DEF Probed
    <2>3. AudioRank(p, w) \in [1..3 -> Int]
      <3>1. <<0, 0, 0>> \in [1..3 -> Int]
        OBVIOUS
      <3> QED
        BY <2>2, <3>1, RankTells DEF AudioRank
    <2>4. Copied(w) \in Int /\ Section(w.stream.kind) \in Int /\ encoded(w) \in Int
      BY DEF Copied, Section
    <2> QED
      BY <2>1, <2>2, <2>3, <2>4
  <1>2. \A w \in outs :
          LET k == Position(p, w)
              r == AudioRank(p, w)
          IN /\ k \in [1..6 -> Int] /\ k[1] = Section(w.stream.kind) /\ k[2] = r[1]
             /\ k[3] = r[2] /\ k[4] = r[3] /\ k[5] = Copied(w) /\ k[6] = w.src
    <2> TAKE w \in outs
    <2> DEFINE r == AudioRank(p, w)
               h == <<Section(w.stream.kind)>>
               t == <<Copied(w), w.src>>
    <2>1. r \in [1..3 -> Int]
      BY <1>1
    <2>2. h \in Seq(Int) /\ Len(h) = 1 /\ h[1] = Section(w.stream.kind)
      BY <1>1
    <2>3. t \in Seq(Int) /\ Len(t) = 2 /\ t[1] = Copied(w) /\ t[2] = w.src
      BY <1>1
    <2>4. Position(p, w) = (h \o r) \o t
      BY DEF Position
    <2> HIDE DEF r, h, t
    <2> DEFINE k == (h \o r) \o t
    <2>5. /\ k \in [1..6 -> Int] /\ k[1] = h[1] /\ k[2] = r[1] /\ k[3] = r[2] /\ k[4] = r[3]
          /\ k[5] = t[1] /\ k[6] = t[2]
      BY <2>1, <2>2, <2>3, KeysJoined
    <2> HIDE DEF k
    <2>6. /\ k \in [1..6 -> Int] /\ k[1] = Section(w.stream.kind) /\ k[2] = r[1]
          /\ k[3] = r[2] /\ k[4] = r[3] /\ k[5] = Copied(w) /\ k[6] = w.src
      BY <2>2, <2>3, <2>5
    <2> QED
      BY <2>4, <2>6 DEF k, r
  <1>3. \A w \in outs :
          LET k == InputPosition(p, w)
              r == AudioRank(p, w)
          IN /\ k \in [1..5 -> Int] /\ k[1] = w.src /\ k[2] = encoded(w) /\ k[3] = r[1]
             /\ k[4] = r[2] /\ k[5] = r[3]
    <2> TAKE w \in outs
    <2> DEFINE r == AudioRank(p, w)
               h == <<w.src, encoded(w)>>
    <2>1. r \in [1..3 -> Int]
      BY <1>1
    <2>2. h \in Seq(Int) /\ Len(h) = 2 /\ h[1] = w.src /\ h[2] = encoded(w)
      BY <1>1
    <2>3. InputPosition(p, w) = h \o r
      BY DEF InputPosition
    <2> HIDE DEF r, h
    <2> DEFINE k == h \o r
    <2>4. /\ k \in [1..5 -> Int] /\ k[1] = h[1] /\ k[2] = h[2] /\ k[3] = r[1] /\ k[4] = r[2]
          /\ k[5] = r[3]
      BY <2>1, <2>2, KeysJoined
    <2> HIDE DEF k
    <2>5. /\ k \in [1..5 -> Int] /\ k[1] = w.src /\ k[2] = encoded(w) /\ k[3] = r[1]
          /\ k[4] = r[2] /\ k[5] = r[3]
      BY <2>2, <2>4
    <2> QED
      BY <2>3, <2>5 DEF k, r
  <1>4. \A q, r \in [1..3 -> Int] : q[1] = r[1] /\ q[2] = r[2] /\ q[3] = r[3] => q = r
    <2> SUFFICES ASSUME NEW q \in [1..3 -> Int], NEW r \in [1..3 -> Int],
                        q[1] = r[1], q[2] = r[2], q[3] = r[3]
                 PROVE  \A n \in 1..3 : q[n] = r[n]
      OBVIOUS
    <2>1. \A n \in 1..3 : n = 1 \/ n = 2 \/ n = 3
      OBVIOUS
    <2> QED
      BY <2>1
  <1>5. ASSUME o.src = u.src, o.encode <=> u.encode, AudioRank(p, o) = AudioRank(p, u)
        PROVE  o = u
    <2>1. CASE o.encode
      <3>1. PICK row \in Downmixed(p.policy) :
               /\ o = [src |-> o.src, encode |-> TRUE,
                       stream |-> Encoded(p, Audio(p), row, o.src)]
               /\ o.stream.kind = "audio" /\ o.stream.channels = row.channels
        BY <2>1, OutputForms
      <3>2. PICK other \in Downmixed(p.policy) :
               /\ u = [src |-> u.src, encode |-> TRUE,
                       stream |-> Encoded(p, Audio(p), other, u.src)]
               /\ u.stream.kind = "audio" /\ u.stream.channels = other.channels
        BY <1>5, <2>1, OutputForms
      <3>3. row.channels = other.channels
        BY <1>1, <1>5, <3>1, <3>2, RankTells DEF AudioRank
      <3>4. row = other
        BY <3>3, DownmixedRows DEF Pass
      <3> QED
        BY <1>5, <3>1, <3>2, <3>4
    <2>2. CASE ~o.encode
      <3>1. o = [src |-> o.src, encode |-> FALSE, stream |-> Copy(p, Audio(p), o.src)]
        BY <2>2, OutputForms
      <3>2. u = [src |-> u.src, encode |-> FALSE, stream |-> Copy(p, Audio(p), u.src)]
        BY <1>5, <2>2, OutputForms
      <3> QED
        BY <1>5, <3>1, <3>2
    <2> QED
      BY <2>1, <2>2
  <1>6. ASSUME Position(p, o) = Position(p, u) PROVE o = u
    <2>1. /\ Section(o.stream.kind) = Section(u.stream.kind) /\ Copied(o) = Copied(u)
          /\ o.src = u.src /\ AudioRank(p, o) = AudioRank(p, u)
      BY <1>1, <1>2, <1>4, <1>6
    <2>2. \A w \in outs : Section(w.stream.kind) = 1 <=> w.stream.kind = "audio"
      BY DEF Section
    <2>3. \A w \in outs : w.encode => w.stream.kind = "audio"
      BY OutputForms
    <2>4. \A w \in outs : w.encode <=> w.stream.kind = "audio" /\ Copied(w) = 0
      BY <2>3 DEF Copied
    <2>5. o.encode <=> u.encode
      BY <2>1, <2>2, <2>4
    <2> QED
      BY <1>5, <2>1, <2>5
  <1>7. ASSUME InputPosition(p, o) = InputPosition(p, u) PROVE o = u
    <2>1. o.src = u.src /\ encoded(o) = encoded(u) /\ AudioRank(p, o) = AudioRank(p, u)
      BY <1>1, <1>3, <1>4, <1>7
    <2> QED
      BY <1>5, <2>1
  <1> QED
    BY <1>2, <1>3, <1>6, <1>7

\* The file a rewrite leaves has every output of its pass, once, and nothing else.
LEMMA OutputsListed ==
  ASSUME NEW p, Pass(p)
  PROVE  LET outs == Outputs(p, Audio(p))
             n == Cardinality(outs)
         IN /\ n \in Nat
            /\ \A list \in {Ordered(p, outs), Unordered(p, outs)} :
                 list \in [1..n -> outs] /\ \A o \in outs : \E k \in 1..n : list[k] = o
  <1> DEFINE outs == Outputs(p, Audio(p))
             byRank == [o \in outs |-> Position(p, o)]
             byInput == [o \in outs |-> InputPosition(p, o)]
  <1>1. IsFiniteSet(outs) /\ Cardinality(outs) \in Nat
    BY OutputsFinite, FS_CardinalityType
  <1>2. /\ DOMAIN byRank = outs /\ \A o \in outs : byRank[o] \in [1..6 -> Int]
        /\ \A o, u \in outs : byRank[o] = byRank[u] => o = u
    BY PositionsTell
  <1>3. /\ DOMAIN byInput = outs /\ \A o \in outs : byInput[o] \in [1..5 -> Int]
        /\ \A o, u \in outs : byInput[o] = byInput[u] => o = u
    BY PositionsTell
  <1>4. Ordered(p, outs) = Sorted(byRank) /\ Unordered(p, outs) = Sorted(byInput)
    BY DEF Ordered, Unordered
  <1> HIDE DEF outs, byRank, byInput
  <1>5. /\ Sorted(byRank) \in [1..Cardinality(outs) -> outs]
        /\ \A o \in outs : \E k \in 1..Cardinality(outs) : Sorted(byRank)[k] = o
    <2>1. IsFiniteSet(DOMAIN byRank) /\ 6 \in Nat
      BY <1>1, <1>2
    <2> QED
      BY <1>2, <2>1, SortedLists
  <1>6. /\ Sorted(byInput) \in [1..Cardinality(outs) -> outs]
        /\ \A o \in outs : \E k \in 1..Cardinality(outs) : Sorted(byInput)[k] = o
    <2>1. IsFiniteSet(DOMAIN byInput) /\ 5 \in Nat
      BY <1>1, <1>3
    <2> QED
      BY <1>3, <2>1, SortedLists
  <1> QED
    BY <1>1, <1>4, <1>5, <1>6 DEF outs

LEMMA PassTyped ==
  ASSUME NEW f \in File, NEW rules \in Accepted, NEW lang \in Origin \cup {Untold}
  PROVE  LET p == Whole(f, rules, lang)
             d == Deciding(f, rules, lang)
         IN /\ Pass(p) /\ p.streams = f.streams /\ p.ext = f.ext /\ p.policy = rules
            /\ p.original = lang /\ p.langs = Resolve(rules, lang)
            /\ p.acting = RulesIn(rules, {"always", "alongside"})
            /\ Pass(d) /\ d.streams = f.streams /\ d.ext = f.ext /\ d.policy = rules
            /\ d.original = lang /\ d.langs = Resolve(rules, lang)
            /\ d.acting = RulesIn(rules, {"always"})
  BY PassesOver DEF Whole, Deciding

\* A rewritten file is a file; its streams are the outputs of the pass.
LEMMA RewrittenFile ==
  ASSUME NEW f \in File, NEW rules \in Accepted, NEW lang \in Origin \cup {Untold}
  PROVE  LET p == Whole(f, rules, lang)
             g == Rewritten(f, rules, lang)
         IN /\ g \in File
            /\ \A o \in Outputs(p, Audio(p)) : \E n \in DOMAIN g.streams : g.streams[n] = o.stream
  <1> DEFINE p == Whole(f, rules, lang)
             outs == Outputs(p, Audio(p))
             list == IF Acts(p, "order") THEN Ordered(p, outs) ELSE Unordered(p, outs)
             g == Rewritten(f, rules, lang)
             size == Cardinality(outs)
             streams == [n \in DOMAIN list |-> list[n].stream]
  <1>1. Pass(p)
    BY PassTyped
  <1>2. size \in Nat /\ list \in [1..size -> outs] /\ \A o \in outs : \E k \in 1..size : list[k] = o
    BY <1>1, OutputsListed
  <1>3. \A o \in outs : o.stream \in Probed
    BY <1>1, OutputForms
  <1>4. OutExt(p) \in Muxers
    BY <1>1 DEF OutExt, Muxers, Pass
  <1>5. g = [streams |-> streams, ext |-> OutExt(p),
             tagged |-> f.tagged /\ ~Acts(p, "release_tags"), linked |-> FALSE]
    BY DEF Rewritten
  <1>6. f.tagged \in BOOLEAN
    BY DEF File
  <1> HIDE DEF p, outs, list, g, size
  <1>7. DOMAIN list = 1..size /\ streams \in [1..size -> Probed]
    BY <1>2, <1>3
  <1>8. streams \in Seq(Probed)
    <2> HIDE DEF streams
    <2> QED
      BY <1>2, <1>7, SeqDef
  <1>9. \A o \in outs : \E n \in DOMAIN streams : streams[n] = o.stream
    BY <1>2, <1>7
  <1> HIDE DEF streams
  <1>10. g \in File
    BY <1>4, <1>5, <1>6, <1>8 DEF File
  <1>11. g.streams = streams
    BY <1>5
  <1> QED
    BY <1>9, <1>10, <1>11 DEF p, g, outs

\* A tag written into the header changes one track's language.
LEMMA TaggedFile ==
  ASSUME NEW f \in File, NEW lang \in Origin \cup {Untold}, NEW i \in DOMAIN f.streams
  PROVE  LET g == Tagged(f, lang, i)
         IN /\ g \in File /\ DOMAIN g.streams = DOMAIN f.streams
            /\ \A k \in DOMAIN f.streams :
                 g.streams[k] = IF k = i THEN [f.streams[i] EXCEPT !.lang = lang] ELSE f.streams[k]
  <1> DEFINE g == Tagged(f, lang, i)
             t == [f.streams[i] EXCEPT !.lang = lang]
  <1>1. f.streams \in Seq(Probed) /\ i \in 1..Len(f.streams) /\ DOMAIN f.streams = 1..Len(f.streams)
    BY LenProperties DEF File
  <1>2. f.streams[i] \in Probed
    BY <1>1, ElementOfSeq
  <1>3. t \in Probed
    BY <1>2, Answered DEF Probed
  <1>4. g = [f EXCEPT !.streams = [f.streams EXCEPT ![i] = t]]
    BY DEF Tagged
  <1> HIDE DEF t, g
  <1> DEFINE s == [f.streams EXCEPT ![i] = t]
  <1>5. /\ s \in Seq(Probed) /\ Len(s) = Len(f.streams)
        /\ \A k \in 1..Len(f.streams) : s[k] = IF k = i THEN t ELSE f.streams[k]
    BY <1>1, <1>3, ExceptSeq, Zenon
  <1>6. DOMAIN s = 1..Len(f.streams)
    BY <1>1
  <1> HIDE DEF s
  <1>7. g \in File /\ g.streams = s
    BY <1>4, <1>5 DEF File, s
  <1> QED
    BY <1>1, <1>5, <1>6, <1>7 DEF g, t

\* Every variable of Planner keeps its type: a rewrite makes a file of one.
THEOREM PlannerTypeCorrect == PlannerSpec => []PlannerTypeOK
  <1>1. PlannerInit => PlannerTypeOK
    BY PlannerAssumption DEF PlannerInit, PlannerTypeOK
  <1>2. PlannerTypeOK /\ [PlannerNext]_plannerVars => PlannerTypeOK'
    <2> SUFFICES ASSUME PlannerTypeOK, [PlannerNext]_plannerVars
                 PROVE  PlannerTypeOK'
      OBVIOUS
    <2>1. CASE Apply
      <3> DEFINE edit == InPlace(film, policy, original)
      <3>1. film' \in File
        <4>1. CASE edit = {}
          BY <2>1, <4>1, RewrittenFile DEF Apply, PlannerTypeOK
        <4>2. CASE edit # {}
          <5>1. (CHOOSE i \in edit : TRUE) \in edit
            BY <4>2
          <5>2. edit \subseteq DOMAIN film.streams
            BY PassTyped, AudioSets DEF InPlace, PlannerTypeOK
          <5> QED
            BY <2>1, <4>2, <5>1, <5>2, TaggedFile DEF Apply, PlannerTypeOK
        <4> QED
          BY <4>1, <4>2
      <3> QED
        BY <2>1, <3>1 DEF Apply, PlannerTypeOK
    <2>2. CASE SaveSettings
      BY <2>2, PlannerAssumption DEF SaveSettings, PlannerTypeOK
    <2>3. CASE Answer
      BY <2>3, PlannerAssumption DEF Answer, PlannerTypeOK
    <2>4. CASE UNCHANGED plannerVars
      BY <2>4 DEF plannerVars, PlannerTypeOK
    <2> QED
      BY <2>1, <2>2, <2>3, <2>4 DEF PlannerNext
  <1> QED
    BY <1>1, <1>2, PTL DEF PlannerSpec

(***************************************************************************)
(* What a settled file has: a pass that finds nothing to add made no downmix *)
(* a plain track of the language could fill.                                *)
(***************************************************************************)
LEMMA PlainTracksAreSpoken ==
  ASSUME NEW p, Pass(p), NEW i \in AllOf(p, "audio"), ~Commentary(p.streams[i]),
         Tongue(p.streams[i]) \in Named(p) \cup {Untold}
  PROVE  i \in Audio(p).spoken
  <1>1. i \in Audio(p).named
    BY AudioInSteps DEF InLanguage
  <1>2. Audio(p).spoken = WithoutCommentary(p, Audio(p).named)
    BY AudioInSteps
  <1> QED
    BY <1>1, <1>2 DEF WithoutCommentary

LEMMA UnservedIsAdded ==
  ASSUME NEW f, NEW p, Pass(p), p.streams = f.streams,
         NEW row \in Downmixed(p.policy), NEW lang \in Wanted(p),
         Audio(p).worth = Audio(p).spoken,
         ~Has(f, lang, row.channels),
         NEW k \in Answers(f, lang, row.channels), k \notin Audio(p).stale,
         \A i \in Audio(p).stale : p.streams[i].channels = row.channels
                                   => Tongue(p.streams[i]) \notin {Untold, lang}
  PROVE  row.channels \in Added(p, Audio(p).mixes, Audio(p).stale)
  <1> DEFINE a == Audio(p)
             from == {i \in Sources(p, a.kept, row.channels) : Tongue(p.streams[i]) = lang}
             m == <<row, Best(p, from)>>
             dropped(tongue) == {i \in a.stale : p.streams[i].channels = row.channels
                                                 /\ Tongue(p.streams[i]) = tongue}
             ofSize == {mix \in a.mixes : mix[1].channels = row.channels}
             alone == {mix \in ofSize : \/ Tongue(p.streams[mix[2]]) = Untold
                                        \/ dropped(Tongue(p.streams[mix[2]])) = {}}
  <1>1. /\ k \in AllOf(p, "audio") /\ ~Commentary(p.streams[k]) /\ Tongue(p.streams[k]) = lang
        /\ p.streams[k].channels >= row.channels /\ p.streams[k].channels # row.channels
    BY DEF Answers, Has, Plain, AllOf
  <1>2. p.streams[k].channels \in Nat /\ row.channels \in Nat
    <2>1. p.streams[k] \in Probed
      BY <1>1, AudioSets
    <2> QED
      BY <2>1, DownmixedRows DEF Probed, Pass
  <1>3. k \in a.kept
    <2>1. lang \in Named(p)
      BY DEF Wanted, Named, Rows
    <2>2. k \in a.spoken
      BY <1>1, <2>1, PlainTracksAreSpoken
    <2> QED
      BY <2>2, AudioInSteps
  <1>4. k \in from
    BY <1>1, <1>2, <1>3 DEF Sources
  <1>5. <<row.channels, lang>> \notin Heard(p, a.kept)
    <2> SUFFICES ASSUME NEW i \in a.kept, ~Commentary(p.streams[i]),
                        <<p.streams[i].channels, Tongue(p.streams[i])>> = <<row.channels, lang>>
                 PROVE  FALSE
      BY DEF Heard
    <2>1. p.streams[i].channels = row.channels /\ Tongue(p.streams[i]) = lang
      OBVIOUS
    <2>2. i \in DOMAIN f.streams /\ f.streams[i].kind = "audio"
      BY AudioSets DEF AllOf
    <2>3. i \in Answers(f, lang, row.channels)
      BY <1>2, <2>1, <2>2 DEF Answers, Plain
    <2> QED
      BY <2>1, <2>3 DEF Has
  <1>6. m \in a.mixes
    <2> DEFINE owed == Speaking(p, a.stale) \ {Untold}
               langs == Wanted(p) \cup owed
               From(r, l) == {i \in Sources(p, a.kept, r.channels) : Tongue(p.streams[i]) = l}
               Fillable(r) == {l \in langs : <<r.channels, l>> \notin Heard(p, a.kept)
                                             /\ From(r, l) # {}}
               filled(r) == {<<r, Best(p, From(r, l))>> : l \in Fillable(r)}
    <2>1. a.mixes = Downmixes(p, a.kept, owed)
      BY AudioInSteps
    <2>2. PICK standing : Downmixes(p, a.kept, owed)
                          = standing \cup UNION {filled(r) : r \in Downmixed(p.policy)}
      BY DEF Downmixes
    <2>3. lang \in Fillable(row)
      BY <1>4, <1>5
    <2>4. m \in filled(row)
      BY <2>3
    <2> HIDE DEF filled, m, owed, a
    <2> QED
      BY <2>1, <2>2, <2>4
  <1>7. Best(p, from) \in from
    <2>1. from \subseteq DOMAIN p.streams
      BY AudioSets DEF Sources
    <2> HIDE DEF from
    <2> QED
      BY <1>4, <2>1, BestIsOne
  <1>8. Tongue(p.streams[Best(p, from)]) = lang
    BY <1>7
  <1>9. m[1] = row /\ m[2] = Best(p, from)
    OBVIOUS
  <1>10. dropped(lang) = {} /\ dropped(Untold) = {}
    OBVIOUS
  <1>11. m \in alone
    <2> HIDE DEF m, from, dropped, a
    <2> QED
      BY <1>6, <1>8, <1>9, <1>10
  <1>12. IsFiniteSet(alone)
    <2>1. IsFiniteSet(a.made) /\ a.mixes \subseteq a.made
      BY MadeFrom, AudioInSteps
    <2>2. alone \subseteq a.made
      BY <2>1
    <2> HIDE DEF alone, a
    <2> QED
      BY <2>1, <2>2, FS_Subset
  <1>13. Cardinality(alone) > Cardinality(dropped(Untold))
    <2>1. Cardinality(dropped(Untold)) = 0
      BY <1>10, FS_EmptySet
    <2>2. Cardinality(alone) \in Nat /\ Cardinality(alone) # 0
      <3> HIDE DEF alone, m
      <3> QED
        BY <1>11, <1>12, FS_EmptySet, FS_CardinalityType
    <2> QED
      BY <2>1, <2>2
  <1>14. row.channels \in SizesOf({mix[1] : mix \in a.mixes})
    <2> HIDE DEF m, a
    <2> QED
      BY <1>6, <1>9 DEF SizesOf
  <1> QED
    BY <1>13, <1>14 DEF Added

\* What is stale is what an acting regenerate rule judges.
LEMMA StaleNeedsRule ==
  ASSUME NEW p, Pass(p), Audio(p).stale # {}
  PROVE  Acts(p, "regenerate")
  <1>1. PICK i \in Audio(p).stale : TRUE
    OBVIOUS
  <1>2. i \in Stale(p, Audio(p).worth)
    BY AudioInSteps
  <1>3. p.streams[i].channels \in Rebuilt(p)
    BY <1>2 DEF Stale
  <1> QED
    BY <1>3 DEF Rebuilt

\* A pass with tracks to judge that orders nothing of its own has nothing to add.
LEMMA QuietPass ==
  ASSUME NEW p, Pass(p), Videos(p) # {}, Audio(p).named # {},
         "downmix" \notin Fired(p, Audio(p))
  PROVE  LET a == Audio(p)
         IN /\ a.worth = a.spoken /\ Added(p, a.mixes, a.stale) = {}
            /\ Acts(p, "regenerate") /\ a.stale # {} => "regenerate" \in Fired(p, a)
  <1> DEFINE a == Audio(p)
  <1>1. Fired(p, a) = FiredBySource(p) \cup FiredByTracks(p, a) \cup FiredByRows(p, a)
    BY DEF Fired
  <1>2. "downmix" \notin FiredByRows(p, a)
    BY <1>1
  <1>3. a.worth = a.spoken /\ Added(p, a.mixes, a.stale) = {}
    BY <1>2 DEF FiredByRows
  <1>4. ASSUME Acts(p, "regenerate"), a.stale # {} PROVE "regenerate" \in FiredByTracks(p, a)
    BY <1>4 DEF FiredByTracks, Acts
  <1> QED
    BY <1>1, <1>3, <1>4

LEMMA RowsAreNoRules ==
  ASSUME NEW rules, NEW modes
  PROVE  RulesIn(rules, modes) \subseteq Rule /\ "downmix" \notin Rule /\ "regenerate" \in Rule
  BY DEF RulesIn, Rule, RULES

LEMMA SettledIsServed ==
  ASSUME PlannerTypeOK
  PROVE  SettledFilesAreServed
  <1> DEFINE p == Whole(film, policy, original)
             d == Deciding(film, policy, original)
             a == Audio(p)
             e == Audio(d)
  <1>1. /\ Pass(p) /\ p.streams = film.streams /\ p.policy = policy
        /\ p.langs = Resolve(policy, original)
        /\ p.acting = RulesIn(policy, {"always", "alongside"})
        /\ Pass(d) /\ d.streams = film.streams /\ d.policy = policy
        /\ d.langs = Resolve(policy, original) /\ d.acting = RulesIn(policy, {"always"})
    BY PassTyped DEF PlannerTypeOK
  <1> SUFFICES ASSUME Settled(film, policy, original),
                      NEW row \in Downmixed(policy), NEW lang \in Wanted(p),
                      Answers(film, lang, row.channels) # {},
                      ~Has(film, lang, row.channels)
               PROVE  Withheld(p, film, lang, row.channels)
    BY DEF SettledFilesAreServed
  <1>2. Wanted(d) = Wanted(p) /\ lang \in Wanted(d)
    BY <1>1 DEF Wanted
  <1>3. ~Refused(film, policy) /\ Skip(p, a) = "" /\ ~Needed(film, policy, original)
    BY DEF Settled
  <1>4. Videos(p) # {} /\ a.named # {}
    BY <1>3 DEF Skip
  <1>5. Videos(d) # {} /\ e.named # {}
    <2>1. d.acting \subseteq p.acting
      BY <1>1 DEF RulesIn
    <2>2. Videos(p) \subseteq Videos(d)
      BY <1>1, <2>1 DEF Videos, Acts
    <2>3. InLanguage(p, "audio") \subseteq InLanguage(d, "audio")
      BY <1>1, <2>1 DEF InLanguage, AllOf, Acts, Named
    <2>4. a.named = InLanguage(p, "audio") /\ e.named = InLanguage(d, "audio")
      BY AudioInSteps
    <2> QED
      BY <1>4, <2>2, <2>3, <2>4
  <1>6. Fired(d, e) = {} \/ Reasons(p, a) = {}
    BY <1>3 DEF Needed
  <1>7. PICK k \in Answers(film, lang, row.channels) : TRUE
    OBVIOUS
  <1>8. Fired(d, e) # {}
    <2> SUFFICES ASSUME Fired(d, e) = {} PROVE FALSE
      OBVIOUS
    <2>1. e.worth = e.spoken /\ Added(d, e.mixes, e.stale) = {}
          /\ (Acts(d, "regenerate") /\ e.stale # {} => "regenerate" \in Fired(d, e))
      BY <1>1, <1>5, QuietPass
    <2>2. e.stale = {}
      BY <1>1, <2>1, StaleNeedsRule
    <2>3. row.channels \in Added(d, e.mixes, e.stale)
      BY <1>1, <1>2, <1>7, <2>1, <2>2, UnservedIsAdded
    <2> QED
      BY <2>1, <2>3
  <1>9. Reasons(p, a) = {}
    BY <1>6, <1>8
  <1>10. Fired(p, a) \subseteq RulesIn(policy, {"alongside"})
    BY <1>1, <1>9 DEF Reasons
  <1>11. "downmix" \notin Fired(p, a)
    BY <1>10, RowsAreNoRules
  <1>12. /\ a.worth = a.spoken /\ Added(p, a.mixes, a.stale) = {}
         /\ Acts(p, "regenerate") /\ a.stale # {} => "regenerate" \in Fired(p, a)
    BY <1>1, <1>4, <1>11, QuietPass
  <1>13. CASE a.stale = {}
    <2>1. row.channels \in Added(p, a.mixes, a.stale)
      BY <1>1, <1>7, <1>12, <1>13, UnservedIsAdded
    <2> QED
      BY <1>12, <2>1
  <1>14. CASE a.stale # {}
    <2>1. policy.modes["regenerate"] = "alongside"
      <3>1. "regenerate" \in RulesIn(policy, {"alongside"})
        BY <1>1, <1>10, <1>12, <1>14, StaleNeedsRule
      <3> QED
        BY <3>1 DEF RulesIn
    <2> SUFFICES ASSUME ~(Answers(film, lang, row.channels) \subseteq a.stale),
                        \A i \in a.stale : film.streams[i].channels = row.channels
                                           => Tongue(film.streams[i]) \notin {Untold, lang}
                 PROVE  FALSE
      BY <1>1, <2>1 DEF Withheld
    <2>2. PICK j \in Answers(film, lang, row.channels) : j \notin a.stale
      OBVIOUS
    <2>3. row.channels \in Added(p, a.mixes, a.stale)
      BY <1>1, <1>12, <2>2, UnservedIsAdded
    <2> QED
      BY <1>12, <2>3
  <1> QED
    BY <1>13, <1>14

\* A file the rules leave alone has every layout in every wanted language that something
\* bigger could fill, or a riding regenerate rule withholds it, whatever the settings,
\* the file and the answer are (planner._apply_rules, _choose_downmixes, _record).
THEOREM SettledFilesAlwaysServed == PlannerSpec => []SettledFilesAreServed
  BY PlannerTypeCorrect, SettledIsServed, PTL

(***************************************************************************)
(* What a rewrite leaves to hear.                                            *)
(***************************************************************************)
\* Some track is left after the stale are dropped: whatever drops one needs another
\* that stays.
LEMMA SomethingKept ==
  ASSUME NEW p, Pass(p), Audio(p).named # {}
  PROVE  Audio(p).kept # {} /\ (Audio(p).copied # {} \/ Audio(p).made # {})
  <1> DEFINE a == Audio(p)
  <1>1. a.spoken # {}
    BY AudioInSteps DEF WithoutCommentary
  <1>2. a.worth # {}
    <2> SUFFICES ASSUME a.worth = {} PROVE FALSE
      OBVIOUS
    <2>1. PICK i \in a.spoken : i \in StandIns(p, a.spoken)
      BY <1>1, AudioInSteps
    <2>2. Served(p, a.spoken, p.streams[i].channels)
      BY <2>1 DEF StandIns
    <2>3. PICK lang \in Wanted(p) : \/ <<p.streams[i].channels, lang>> \in Heard(p, a.spoken)
                                    \/ lang \in Speaking(p, Sources(p, a.spoken, p.streams[i].channels))
      BY <2>2 DEF Served
    <2>4. PICK k \in a.spoken : Tongue(p.streams[k]) = lang
      BY <2>3 DEF Heard, Speaking, Sources
    <2>5. k \notin StandIns(p, a.spoken)
      BY <2>4 DEF StandIns
    <2> QED
      BY <2>4, <2>5, AudioInSteps
  <1>3. a.kept # {}
    <2> DEFINE smaller == [i \in a.worth |-> 0 - p.streams[i].channels]
    <2>1. IsFiniteSet(a.worth) /\ \A i \in a.worth : p.streams[i].channels \in Nat
      BY AudioSets, FS_Subset DEF Probed
    <2>2. smaller \in [a.worth -> Int]
      BY <2>1
    <2>3. PICK i \in a.worth : \A k \in a.worth : smaller[i] <= smaller[k]
      <3> HIDE DEF smaller, a
      <3> QED
        BY <1>2, <2>1, <2>2, FiniteLeast
    <2>4. \A k \in a.worth : ~(p.streams[k].channels > p.streams[i].channels)
      <3> TAKE k \in a.worth
      <3>1. smaller[i] <= smaller[k]
        BY <2>3
      <3>2. smaller[i] = 0 - p.streams[i].channels /\ smaller[k] = 0 - p.streams[k].channels
        OBVIOUS
      <3> QED
        BY <2>1, <3>1, <3>2
    <2>5. i \notin Stale(p, a.worth)
      BY <2>4 DEF Stale, Sources
    <2>6. a.kept = a.worth \ Stale(p, a.worth)
      BY AudioInSteps
    <2> QED
      BY <2>3, <2>5, <2>6
  <1>4. ASSUME a.made = {} PROVE a.copied # {}
    <2>1. a.fat = {}
      <3> DEFINE again == {<<LayoutAt(p.policy, p.streams[i].channels), i>> : i \in a.fat}
      <3>1. a.made = a.mixes \cup again
        BY AudioInSteps
      <3>2. again = {}
        BY <1>4, <3>1
      <3> QED
        BY <3>2
    <2>2. a.staying # {}
      BY <1>3, <1>4, AudioInSteps DEF WithoutRemoved
    <2> QED
      BY <2>1, <2>2, AudioInSteps
  <1> QED
    BY <1>3, <1>4

\* A track no setting puts up for removal is copied.
LEMMA UnexpendableIsCopied ==
  ASSUME PlannerTypeOK, NEW i \in Plain(film), ~Expendable(film.streams[i]),
         Tongue(film.streams[i]) \in Named(Whole(film, policy, original)) \cup {Untold}
  PROVE  i \in Audio(Whole(film, policy, original)).copied
  <1> DEFINE p == Whole(film, policy, original)
             a == Audio(p)
             s == film.streams[i]
  <1>1. /\ Pass(p) /\ p.streams = film.streams /\ p.policy = policy
        /\ p.acting = RulesIn(policy, {"always", "alongside"})
    BY PassTyped DEF PlannerTypeOK
  <1>2. ~Generated(s) /\ s.channels \notin SizesOf(Rows(policy.layouts, "remove"))
        /\ ~(/\ policy.modes["regenerate"] # "never" /\ policy.scope = "all"
             /\ s.channels \in SizesOf(Downmixed(policy)))
    BY DEF Expendable, Generated
  <1>3. ~(s.channels \in Rebuilt(p) /\ p.policy.scope = "all")
    <2> SUFFICES ASSUME s.channels \in Rebuilt(p), policy.scope = "all" PROVE FALSE
      BY <1>1
    <2>1. Acts(p, "regenerate") /\ s.channels \in SizesOf(Downmixed(policy))
      BY <1>1 DEF Rebuilt
    <2>2. policy.modes["regenerate"] # "never"
      BY <1>1, <2>1 DEF Acts, RulesIn
    <2> QED
      BY <1>2, <2>1, <2>2
  <1>4. i \in a.spoken
    <2>1. i \in AllOf(p, "audio") /\ ~Commentary(p.streams[i])
      BY <1>1 DEF Plain, AllOf
    <2> QED
      BY <1>1, <2>1, PlainTracksAreSpoken
  <1>5. i \in a.worth
    <2>1. i \notin StandIns(p, a.spoken)
      BY <1>1, <1>2 DEF StandIns
    <2> QED
      BY <1>4, <2>1, AudioInSteps
  <1>6. i \in a.kept
    <2>1. i \notin Stale(p, a.worth)
      BY <1>1, <1>2, <1>3 DEF Stale
    <2> QED
      BY <1>5, <2>1, AudioInSteps
  <1>7. i \notin a.fat
    <2>1. i \notin Oversized(p, a.kept)
      BY <1>1, <1>2, <1>3 DEF Oversized
    <2> QED
      BY <2>1, AudioInSteps
  <1>8. i \in a.staying
    <2>1. a.staying = WithoutRemoved(p, a.kept, a.made)
      BY AudioInSteps
    <2> QED
      BY <1>1, <1>2, <1>6, <2>1 DEF WithoutRemoved
  <1> QED
    BY <1>7, <1>8, AudioInSteps

\* What a tag or a rewrite leaves of a track that stays: its own language, or the
\* title's where it had none.
LEMMA OriginalIsItself ==
  ASSUME PlannerTypeOK
  PROVE  NormLang(original) = original
  BY Answered DEF PlannerTypeOK

LEMMA RewriteKeepsHeard ==
  ASSUME PlannerTypeOK, Audio(Whole(film, policy, original)).named # {},
         NEW g, g = Rewritten(film, policy, original)
  PROVE  /\ \E n \in DOMAIN g.streams : g.streams[n].kind = "audio"
         /\ \A i \in Plain(film) :
              i \in Audio(Whole(film, policy, original)).copied =>
                LET t == Tongue(film.streams[i])
                IN t \in HeardIn(g) \/ (t = Untold /\ original \in HeardIn(g))
  <1> DEFINE p == Whole(film, policy, original)
             a == Audio(p)
             outs == Outputs(p, a)
             copied(i) == [src |-> i, encode |-> FALSE, stream |-> Copy(p, a, i)]
  <1>1. Pass(p) /\ p.streams = film.streams /\ p.original = original
    BY PassTyped DEF PlannerTypeOK
  <1>2. \A o \in outs : \E n \in DOMAIN g.streams : g.streams[n] = o.stream
    BY RewrittenFile DEF PlannerTypeOK
  <1>3. \A i \in a.copied : copied(i) \in outs /\ copied(i).stream = Copy(p, a, i)
    BY DEF Outputs
  <1>4. \A i \in a.copied : i \in DOMAIN p.streams /\ p.streams[i].kind = "audio"
    <2>1. a.copied \subseteq AllOf(p, "audio")
      BY <1>1, AudioSets
    <2> QED
      BY <2>1 DEF AllOf
  <1>5. \A i \in a.copied : /\ Copy(p, a, i).kind = "audio"
                            /\ Copy(p, a, i).lang = IF i \in a.tag THEN original
                                                    ELSE film.streams[i].lang
                            /\ \/ Copy(p, a, i).role = film.streams[i].role
                               \/ Copy(p, a, i).role = "plain"
    <2> TAKE i \in a.copied
    <2> QED
      BY <1>1, <1>4, CopyTyped
  <1>6. \E n \in DOMAIN g.streams : g.streams[n].kind = "audio"
    <2>1. a.copied # {} \/ a.made # {}
      BY <1>1, SomethingKept
    <2>2. CASE a.copied # {}
      BY <1>2, <1>3, <1>5, <2>2
    <2>3. CASE a.made # {}
      <3>1. PICK m \in a.made : TRUE
        BY <2>3
      <3> DEFINE o == [src |-> m[2], encode |-> TRUE, stream |-> Encoded(p, a, m[1], m[2])]
      <3>2. o \in outs /\ o.stream = Encoded(p, a, m[1], m[2])
        BY DEF Outputs
      <3>3. o.stream.kind = "audio"
        BY <3>2 DEF Encoded
      <3> HIDE DEF o
      <3> QED
        BY <1>2, <3>2, <3>3
    <2> QED
      BY <2>1, <2>2, <2>3
  <1>7. ASSUME NEW i \in Plain(film), i \in a.copied
        PROVE  LET t == Tongue(film.streams[i])
               IN t \in HeardIn(g) \/ (t = Untold /\ original \in HeardIn(g))
    <2>1. PICK n \in DOMAIN g.streams : g.streams[n] = Copy(p, a, i)
      BY <1>2, <1>3, <1>7
    <2>2. n \in Plain(g)
      <3>1. film.streams[i].role # "commentary"
        BY DEF Plain, Commentary
      <3> QED
        BY <1>5, <1>7, <2>1, <3>1 DEF Plain, Commentary
    <2>3. Tongue(g.streams[n]) \in HeardIn(g)
      BY <2>2 DEF HeardIn
    <2>4. CASE i \in a.tag
      <3>1. Tongue(g.streams[n]) = original
        BY <1>5, <1>7, <2>1, <2>4, OriginalIsItself DEF Tongue
      <3>2. Tongue(film.streams[i]) = Untold
        <4>1. i \in OriginalToTag(p, a.staying)
          BY <2>4, AudioInSteps
        <4> QED
          BY <1>1, <4>1 DEF OriginalToTag
      <3> QED
        BY <2>3, <3>1, <3>2
    <2>5. CASE i \notin a.tag
      <3>1. Tongue(g.streams[n]) = Tongue(film.streams[i])
        BY <1>5, <1>7, <2>1, <2>5 DEF Tongue
      <3> QED
        BY <2>3, <3>1
    <2> QED
      BY <2>4, <2>5
  <1> QED
    BY <1>6, <1>7

LEMMA TagKeepsHeard ==
  ASSUME PlannerTypeOK, NEW k \in InPlace(film, policy, original),
         NEW g, g = Tagged(film, original, k)
  PROVE  /\ \E n \in DOMAIN g.streams : g.streams[n].kind = "audio"
         /\ \A i \in Plain(film) :
              LET t == Tongue(film.streams[i])
              IN t \in HeardIn(g) \/ (t = Untold /\ original \in HeardIn(g))
  <1> DEFINE p == Whole(film, policy, original)
             a == Audio(p)
  <1>1. Pass(p) /\ p.streams = film.streams
    BY PassTyped DEF PlannerTypeOK
  <1>2. k \in a.tag
    BY DEF InPlace
  <1>3. k \in AllOf(p, "audio") /\ Tongue(film.streams[k]) = Untold
    <2>1. k \in OriginalToTag(p, a.staying)
      BY <1>2, AudioInSteps
    <2> QED
      BY <1>1, <2>1 DEF OriginalToTag
  <1>4. k \in DOMAIN film.streams /\ film.streams[k].kind = "audio" /\ film.streams[k] \in Probed
    BY <1>1, <1>3, AudioSets DEF AllOf
  <1>5. /\ DOMAIN g.streams = DOMAIN film.streams
        /\ \A i \in DOMAIN film.streams :
             g.streams[i] = IF i = k THEN [film.streams[k] EXCEPT !.lang = original]
                            ELSE film.streams[i]
    BY <1>4, TaggedFile DEF PlannerTypeOK
  <1>6. /\ g.streams[k].kind = "audio" /\ g.streams[k].role = film.streams[k].role
        /\ g.streams[k].lang = original
    <2>1. g.streams[k] = [film.streams[k] EXCEPT !.lang = original]
      BY <1>4, <1>5
    <2> QED
      BY <1>4, <2>1 DEF Probed
  <1>7. ASSUME NEW i \in Plain(film)
        PROVE  LET t == Tongue(film.streams[i])
               IN t \in HeardIn(g) \/ (t = Untold /\ original \in HeardIn(g))
    <2>1. i \in DOMAIN film.streams
      BY DEF Plain
    <2>2. i \in Plain(g)
      BY <1>5, <1>6, <2>1 DEF Plain, Commentary
    <2>3. Tongue(g.streams[i]) \in HeardIn(g)
      BY <2>2 DEF HeardIn
    <2>4. CASE i = k
      BY <1>3, <1>6, <2>3, <2>4, OriginalIsItself DEF Tongue
    <2>5. CASE i # k
      BY <1>5, <2>1, <2>3, <2>5
    <2> QED
      BY <2>4, <2>5
  <1> QED
    BY <1>4, <1>5, <1>6, <1>7

\* No rewrite leaves a file silent, and none takes a language an owner listed, or an
\* untagged track, out of it, but for tracks of a size they told it to remove or to make
\* again (planner._apply_rules, _drop_stand_ins, _drop_layouts).
THEOREM ListedLanguagesAlwaysHeard == PlannerSpec => ListedLanguagesStayHeard
  <1>1. PlannerTypeOK /\ [PlannerNext]_plannerVars =>
          [film' # film =>
             /\ \E i \in DOMAIN film'.streams : film'.streams[i].kind = "audio"
             /\ \A i \in Plain(film) :
                  LET s == film.streams[i]
                  IN Tongue(s) \in {Untold} \cup {row.name : row \in Range(Resolve(policy, original))}
                     /\ ~Expendable(s)
                     => \/ Tongue(s) \in HeardIn(film')
                        \/ Tongue(s) = Untold /\ original \in HeardIn(film')]_plannerVars
    <2> SUFFICES ASSUME PlannerTypeOK, PlannerNext, film' # film
                 PROVE  /\ \E i \in DOMAIN film'.streams : film'.streams[i].kind = "audio"
                        /\ \A i \in Plain(film) :
                             Tongue(film.streams[i])
                               \in {Untold} \cup {row.name : row \in Range(Resolve(policy, original))}
                             /\ ~Expendable(film.streams[i])
                             => \/ Tongue(film.streams[i]) \in HeardIn(film')
                                \/ Tongue(film.streams[i]) = Untold /\ original \in HeardIn(film')
      BY DEF plannerVars
    <2> DEFINE p == Whole(film, policy, original)
               a == Audio(p)
               edit == InPlace(film, policy, original)
    <2>1. Apply
      BY DEF PlannerNext, SaveSettings, Answer
    <2>2. a.named # {}
      BY <2>1 DEF Apply, Needed, Skip
    <2>3. {row.name : row \in Range(Resolve(policy, original))} = Named(p)
      BY PassTyped DEF PlannerTypeOK, Named, Range
    <2>4. CASE edit = {}
      <3>1. film' = Rewritten(film, policy, original)
        BY <2>1, <2>4 DEF Apply
      <3> QED
        BY <2>2, <2>3, <3>1, RewriteKeepsHeard, UnexpendableIsCopied
    <2>5. CASE edit # {}
      <3>1. PICK k \in edit : film' = Tagged(film, original, k)
        BY <2>1, <2>5 DEF Apply
      <3> QED
        BY <3>1, TagKeepsHeard
    <2> QED
      BY <2>4, <2>5
  <1> QED
    BY <1>1, PlannerTypeCorrect, PTL DEF PlannerSpec, ListedLanguagesStayHeard
=====

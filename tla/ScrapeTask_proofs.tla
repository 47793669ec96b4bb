------------------------- MODULE ScrapeTask_proofs -------------------------
(***************************************************************************)
(* A scrape task for every schedule, source, network and number of         *)
(* workers: the schedule spreads the countries over the day, a run stores  *)
(* what it can reach and tells what it stored, a marker is missing only    *)
(* when a save from an older map dropped it; the geocoding cache for any   *)
(* number of processes, cameras and queries: one fetch of a query at a     *)
(* time in a process, no stream lost to a lock in a first loop, and who    *)
(* may overwrite a stored place; and the four sides together are well      *)
(* typed.                                                                  *)
(***************************************************************************)
EXTENDS MCScrapeTask, Excerpts_proofs

-----------------------------------------------------------------------------
\* The beat schedule

Schedule(daily, byCountry, configured, base, step, overrides) ==
    LET entries == Entries(daily, byCountry, configured, base, step, overrides)
        fits == \A i \in DOMAIN entries : OfClock(entries[i].slot)
    IN [state |-> IF fits THEN "loaded" ELSE "refused",
        daily |-> daily, byCountry |-> byCountry, configured |-> configured,
        step |-> step, overrides |-> overrides,
        entries |-> IF fits THEN entries ELSE <<>>]

BeatInv ==
    \/ beat = NoBeat
    \/ \E daily, byCountry \in BOOLEAN, configured \in Configured, base \in BaseHours,
          step \in Steps, overrides \in Overridden :
             beat = Schedule(daily, byCountry, configured, base, step, overrides)

LEMMA BeatInvariant == BeatSpec => []BeatInv
<1>1. BeatInit => BeatInv
  BY DEF BeatInit, BeatInv
<1>2. BeatInv /\ [BeatNext]_beat => BeatInv'
  <2> SUFFICES ASSUME BeatInv, [BeatNext]_beat PROVE BeatInv'
    OBVIOUS
  <2>1. CASE BeatNext
    <3>1. PICK daily \in BOOLEAN, byCountry \in BOOLEAN, configured \in Configured,
               base \in BaseHours, step \in Steps, overrides \in Overridden :
                   LoadBeat(daily, byCountry, configured, base, step, overrides)
      BY <2>1 DEF BeatNext
    <3>2. beat' = Schedule(daily, byCountry, configured, base, step, overrides)
      BY <3>1 DEF LoadBeat, Schedule
    <3> QED BY <3>2 DEF BeatInv
  <2>2. CASE UNCHANGED beat
    BY <2>2 DEF BeatInv
  <2> QED BY <2>1, <2>2
<1> QED BY <1>1, <1>2, PTL DEF BeatSpec

\* Every member of a sequence has a first place.
LEMMA EveryFirst ==
  ASSUME NEW S, NEW s \in Seq(S), NEW i \in DOMAIN s
  PROVE  \E k \in FirstPlaces(s) : s[k] = s[i]
<1> DEFINE same == {k \in DOMAIN s : s[k] = s[i]}
<1>1. /\ DOMAIN s = 1..Len(s) /\ Len(s) \in Nat /\ IsFiniteSet(1..Len(s))
  BY FS_Interval
<1>2. same \in SUBSET Nat /\ IsFiniteSet(same) /\ i \in same
  BY <1>1, FS_Subset
<1> HIDE DEF same
<1>3. 1 \in 1..Cardinality(same)
  <2>1. Cardinality(same) \in Nat /\ Rank(same, i) \in 1..Cardinality(same)
    BY <1>2, RankFacts
  <2> QED BY <2>1
<1>4. PICK k \in same : Rank(same, k) = 1
  BY <1>2, <1>3, RankFacts
<1>5. \A l \in same : ~(l < k)
  <2>1. \A l \in same : /\ Rank(same, l) \in 1..Cardinality(same)
                        /\ l < k => Rank(same, l) < Rank(same, k)
    BY <1>2, RankFacts
  <2>2. \A n \in 1..Cardinality(same) : ~(n < 1)
    BY <1>2, RankFacts
  <2> QED BY <1>4, <2>1, <2>2
<1>6. \A l \in 1..(k - 1) : l \in DOMAIN s /\ l < k
  BY <1>1, <1>4 DEF same
<1> QED BY <1>4, <1>5, <1>6 DEF same, FirstPlaces

\* The countries that get an entry: the configured ones, each once.
LEMMA CodesFacts ==
  ASSUME NEW configured \in Seq(Nat)
  PROVE  /\ Codes(configured) \in Seq(Nat)
         /\ IsInjective(Codes(configured))
         /\ ToSet(Codes(configured)) = {configured[i] : i \in DOMAIN configured} \ {0}
<1>1. PICK places \in SUBSET DOMAIN configured :
          places = {i \in FirstPlaces(configured) : configured[i] # 0}
  BY DEF FirstPlaces
<1>2. PICK codes : codes = Codes(configured) /\ codes = Excerpt(configured, places)
  BY <1>1 DEF Codes
<1>3. codes \in Seq(Nat) /\ ListsPlaces(codes, configured, places)
  BY <1>2, ExcerptFacts
<1>4. IsInjective(codes)
  <2>1. ASSUME NEW i \in DOMAIN codes, NEW j \in DOMAIN codes, i < j PROVE codes[i] # codes[j]
    <3>1. PICK k \in places, l \in places : k < l /\ configured[k] = codes[i] /\ configured[l] = codes[j]
      BY <1>3, <2>1 DEF ListsPlaces
    <3>2. k \in 1..(l - 1) /\ l \in FirstPlaces(configured)
      BY <1>1, <3>1
    <3> QED BY <3>1, <3>2 DEF FirstPlaces
  <2>2. \A i, j \in DOMAIN codes : i # j => i < j \/ j < i
    BY <1>3
  <2> QED BY <2>1, <2>2 DEF IsInjective
<1>5. {configured[i] : i \in places} = {configured[i] : i \in DOMAIN configured} \ {0}
  <2>1. \A i \in DOMAIN configured : \E k \in FirstPlaces(configured) : configured[k] = configured[i]
    BY EveryFirst
  <2> QED BY <1>1, <2>1
<1> QED BY <1>2, <1>3, <1>4, <1>5 DEF ListsPlaces

LEMMA StepOf ==
  ASSUME NEW step \in Int
  PROVE  \E m \in Nat \ {0} : m = Max({1, step}) /\ (m = step \/ (m = 1 /\ step <= 1))
<1> DEFINE m == IF step <= 1 THEN 1 ELSE step
<1>1. m \in {1, step} /\ \A y \in {1, step} : m >= y
  OBVIOUS
<1>2. Max({1, step}) \in {1, step} /\ \A y \in {1, step} : Max({1, step}) >= y
  BY <1>1 DEF Max
<1>3. Max({1, step}) = m
  <2>1. \A x, y \in Int : x >= y /\ y >= x => x = y
    OBVIOUS
  <2> QED BY <1>1, <1>2, <2>1
<1> QED BY <1>3

\* Less than a day of slots apart, no two places have one slot.
LEMMA SlotsApart ==
  ASSUME NEW base \in Int, NEW step \in Int, NEW x \in Nat, NEW y \in Nat, x < y, y < x + 12 * 24
  PROVE  DefaultSlot(x, base, step) # DefaultSlot(y, base, step)
<1>1. PICK m \in Nat \ {0} : m = Max({1, step})
  BY StepOf
<1>2. PICK r \in Nat, t \in Nat : r = x % 12 /\ t = y % 12
  OBVIOUS
<1>3. PICK q \in Nat, u \in Nat : q = x \div 12 /\ u = y \div 12 /\ x = 12 * q + r /\ y = 12 * u + t
  BY <1>2
<1>4. /\ DefaultSlot(x, base, step) = <<(base + q) % 24, r * m>>
      /\ DefaultSlot(y, base, step) = <<(base + u) % 24, t * m>>
  BY <1>1, <1>2, <1>3 DEF DefaultSlot
<1>5. ASSUME r * m = t * m, (base + q) % 24 = (base + u) % 24 PROVE FALSE
  <2>1. r = t
    <3>1. r * m \in Nat /\ t * m \in Nat /\ (r * m <= t * m => r <= t) /\ (t * m <= r * m => t <= r)
      BY Times
    <3> QED BY <1>5, <3>1
  <2>2. q < u /\ u < q + 24
    BY <1>3, <2>1
  <2>3. PICK a \in Int, b \in Int : /\ base + q = 24 * a + ((base + q) % 24)
                                   /\ base + u = 24 * b + ((base + u) % 24)
    <3>1. \A z \in Int : z = 24 * (z \div 24) + (z % 24) /\ z \div 24 \in Int
      OBVIOUS
    <3>2. base + q \in Int /\ base + u \in Int
      OBVIOUS
    <3> QED BY <3>1, <3>2
  <2>4. (base + q) % 24 \in Int
    OBVIOUS
  <2>5. u - q = 24 * (b - a)
    BY <1>5, <2>3, <2>4
  <2> QED BY <2>2, <2>5
<1> QED BY <1>4, <1>5

\* A slot that crontab refuses is late in an hour of many entries.
LEMMA SlotRefused ==
  ASSUME NEW overrides \in Overridden, NEW at \in Nat, NEW country, NEW base \in Int, NEW step \in Int,
         ~OfClock(SlotOf(at, country, base, step, overrides))
  PROVE  step > 5 /\ at > 59 \div step
<1>1. \A z \in Int : z % 24 \in 0..23 /\ z % 60 \in 0..59
  OBVIOUS
<1>2. ~Given(overrides, country)
  <2> SUFFICES ASSUME Given(overrides, country) PROVE FALSE
    OBVIOUS
  <2>1. overrides[country] \in Int \X Int
    BY BeatAssumption DEF Given
  <2>2. PICK h \in Int, n \in Int : overrides[country] = <<h, n>>
    BY <2>1
  <2>3. SlotOf(at, country, base, step, overrides) = <<h % 24, n % 60>>
    BY <2>2 DEF SlotOf
  <2> QED BY <1>1, <2>3 DEF OfClock
<1>3. PICK m \in Nat \ {0} : m = Max({1, step}) /\ (m = step \/ (m = 1 /\ step <= 1))
  BY StepOf
<1>4. PICK r \in Nat : r = at % 12 /\ r <= 11 /\ r <= at
  OBVIOUS
<1>5. PICK minute \in Nat : minute = r * m
  BY Times
<1>6. ~(minute <= 59)
  <2>1. SlotOf(at, country, base, step, overrides) = <<(base + at \div 12) % 24, minute>>
    BY <1>2, <1>3, <1>4, <1>5 DEF SlotOf, DefaultSlot
  <2>2. base + at \div 12 \in Int
    OBVIOUS
  <2>3. (base + at \div 12) % 24 \in 0..23
    BY <1>1, <2>2
  <2> QED BY <2>1, <2>3 DEF OfClock
<1>7. m > 5
  <2> SUFFICES ASSUME m <= 5 PROVE FALSE
    BY <1>3
  <2>1. m * r <= 5 * r /\ m * r = r * m
    <3>1. m * r <= 5 * r
      <4>1. CASE r = 0
        BY <4>1
      <4>2. CASE r # 0
        BY <4>2, Times
      <4> QED BY <4>1, <4>2
    <3> QED BY <3>1
  <2> QED BY <1>4, <1>5, <1>6, <2>1
<1>8. m = step
  BY <1>3, <1>7
<1>9. 59 \div m \in Nat /\ (r <= 59 \div m <=> r * m <= 59)
  BY Quotient
<1> QED BY <1>4, <1>5, <1>6, <1>7, <1>8, <1>9

\* The entries of the countries, in their order.
Planned(codes, base, step, overrides) ==
    [i \in DOMAIN codes |->
        Entry("whatsupcams", codes[i], SlotOf(i - 1, codes[i], base, step, overrides))]

\* The entries of n countries come behind h others.
PlannedBehind(entries, h, n, codes, base, step, overrides) ==
    /\ DOMAIN codes = 1..n /\ Len(codes) = n /\ DOMAIN entries = 1..(h + n)
    /\ \A i \in 1..h : entries[i] = Entry("insecam", 0, <<3, 0>>)
    /\ \A i \in 1..n : entries[h + i] =
          Entry("whatsupcams", codes[i], SlotOf(i - 1, codes[i], base, step, overrides))

\* The entries when each country has one: that for Insecam may come first.
LEMMA ByCountry ==
  ASSUME NEW codes \in Seq(Nat), NEW base, NEW step, NEW overrides,
         NEW head, head = <<>> \/ head = <<Entry("insecam", 0, <<3, 0>>)>>,
         NEW entries, entries = head \o <<>> \o Planned(codes, base, step, overrides)
  PROVE  \E h \in 0..1, n \in Nat :
            PlannedBehind(entries, h, n, codes, base, step, overrides)
<1>1. PICK n \in Nat : n = Len(codes) /\ DOMAIN codes = 1..n
  OBVIOUS
<1>2. PICK planned : planned = Planned(codes, base, step, overrides)
  OBVIOUS
<1>3. planned = [i \in 1..n |->
          Entry("whatsupcams", codes[i], SlotOf(i - 1, codes[i], base, step, overrides))]
  BY <1>1, <1>2 DEF Planned
<1>e. PICK E : \A i \in 1..n :
          Entry("whatsupcams", codes[i], SlotOf(i - 1, codes[i], base, step, overrides)) \in E
  <2>1. \A i \in 1..n : planned[i] \in {planned[j] : j \in 1..n}
    OBVIOUS
  <2> QED BY <1>3, <2>1
<1>4. planned \in Seq(E) /\ Len(planned) = n /\ DOMAIN planned = 1..n
  BY <1>3, <1>e
<1>6. entries = head \o <<>> \o planned
  BY <1>2
<1>7. CASE head # <<>>
  <2>1. PICK first : first = Entry("insecam", 0, <<3, 0>>) /\ head = <<first>>
    BY <1>7
  <2>2. entries = <<first>> \o planned
    <3>1. <<first>> \o <<>> = <<first>>
      OBVIOUS
    <3> QED BY <1>6, <2>1, <3>1
  <2>3. /\ DOMAIN entries = 1..(1 + n) /\ entries[1] = first
        /\ \A i \in 1..n : entries[1 + i] = planned[i]
    <3>1. PICK T : planned \in Seq(T) /\ <<first>> \in Seq(T)
      <4>1. E \subseteq E \cup {first} /\ first \in E \cup {first}
        OBVIOUS
      <4>2. planned \in Seq(E \cup {first})
        BY <1>4, <4>1, SeqMonotonic
      <4>3. <<first>> \in Seq(E \cup {first})
        BY <4>1
      <4> QED BY <4>2, <4>3
    <3>2. /\ Len(<<first>>) = 1 /\ <<first>>[1] = first
          /\ Len(<<first>> \o planned) = 1 + n
          /\ \A i \in 1..(1 + n) :
                (<<first>> \o planned)[i] = IF i <= 1 THEN <<first>>[i] ELSE planned[i - 1]
          /\ <<first>> \o planned \in Seq(T)
      BY <1>4, <3>1, ConcatProperties
    <3>3. DOMAIN (<<first>> \o planned) = 1..(1 + n)
      BY <3>2
    <3>4. 1 \in 1..(1 + n) /\ \A i \in 1..n : 1 + i \in 1..(1 + n) /\ ~(1 + i <= 1) /\ (1 + i) - 1 = i
      OBVIOUS
    <3>5. /\ (<<first>> \o planned)[1] = first
          /\ \A i \in 1..n : (<<first>> \o planned)[1 + i] = planned[i]
      BY <3>2, <3>4
    <3> QED BY <2>2, <3>3, <3>5
  <2>4. \A i \in 1..1 : i = 1
    OBVIOUS
  <2>5. 1 \in 0..1
    OBVIOUS
  <2>6. /\ \A i \in 1..1 : entries[i] = Entry("insecam", 0, <<3, 0>>)
        /\ \A i \in 1..n : entries[1 + i] =
              Entry("whatsupcams", codes[i], SlotOf(i - 1, codes[i], base, step, overrides))
    BY <1>3, <2>1, <2>3, <2>4
  <2>7. PlannedBehind(entries, 1, n, codes, base, step, overrides)
    BY <1>1, <2>3, <2>6 DEF PlannedBehind
  <2> QED BY <2>5, <2>7
<1>8. CASE head = <<>>
  <2>1. entries = planned
    <3>1. head = <<>> /\ <<>> \o <<>> = <<>>
      BY <1>8
    <3>2. <<>> \o planned = planned
      BY <1>4, ConcatEmptySeq
    <3> QED BY <1>6, <3>1, <3>2
  <2>2. /\ 0 \in 0..1 /\ 0 + n = n /\ \A i \in 1..n : 0 + i = i
        /\ 1..0 = {}
    OBVIOUS
  <2>3. /\ DOMAIN entries = 1..(0 + n)
        /\ \A i \in 1..0 : entries[i] = Entry("insecam", 0, <<3, 0>>)
        /\ \A i \in 1..n : entries[0 + i] =
              Entry("whatsupcams", codes[i], SlotOf(i - 1, codes[i], base, step, overrides))
    BY <1>3, <1>4, <2>1, <2>2
  <2>4. PlannedBehind(entries, 0, n, codes, base, step, overrides)
    BY <1>1, <2>3 DEF PlannedBehind
  <2> QED BY <2>2, <2>4
<1> QED BY <1>7, <1>8

LEMMA TwoEntries ==
  ASSUME NEW a, NEW b
  PROVE  /\ DOMAIN (<<a>> \o <<b>> \o <<>>) = {1, 2}
         /\ (<<a>> \o <<b>> \o <<>>)[1] = a /\ (<<a>> \o <<b>> \o <<>>)[2] = b
<1>1. <<a>> \in Seq({a, b}) /\ <<b>> \in Seq({a, b}) /\ Len(<<a>>) = 1 /\ Len(<<b>>) = 1
      /\ <<a>>[1] = a /\ <<b>>[1] = b
  OBVIOUS
<1>2. PICK s : s = <<a>> \o <<b>>
  OBVIOUS
<1>3. /\ s \in Seq({a, b}) /\ Len(s) = 1 + 1
      /\ \A i \in 1..(1 + 1) : s[i] = IF i <= 1 THEN <<a>>[i] ELSE <<b>>[i - 1]
  BY <1>1, <1>2, ConcatProperties
<1>4. DOMAIN s = {1, 2} /\ s[1] = a /\ s[2] = b
  <2>1. /\ 1..(1 + 1) = {1, 2} /\ 1 <= 1 /\ ~(2 <= 1) /\ 2 - 1 = 1
    OBVIOUS
  <2>2. DOMAIN s = 1..(1 + 1)
    BY <1>3
  <2> QED BY <1>1, <1>3, <2>1, <2>2
<1>5. s \o <<>> = s
  BY <1>3, ConcatEmptySeq
<1> QED BY <1>2, <1>4, <1>5
LEMMA ScheduleApart ==
  ASSUME NEW daily, NEW byCountry, NEW configured \in Configured,
         NEW base \in BaseHours, NEW step \in Steps, NEW overrides \in Overridden,
         beat = Schedule(daily, byCountry, configured, base, step, overrides)
  PROVE  CountriesApart
<1> DEFINE wuc == {i \in DOMAIN beat.entries : beat.entries[i].source = "whatsupcams"}
           placed == {i \in wuc : ~Given(beat.overrides, beat.entries[i].country)}
           wanted == {beat.configured[i] : i \in DOMAIN beat.configured} \ {0}
<1>1. configured \in Seq(Nat) /\ base \in Int /\ step \in Int
  BY BeatAssumption
<1>2. PICK entries : entries = Entries(daily, byCountry, configured, base, step, overrides)
  OBVIOUS
<1>3. PICK fits \in BOOLEAN : fits = \A i \in DOMAIN entries : OfClock(entries[i].slot)
  OBVIOUS
<1>4. /\ beat.state = (IF fits THEN "loaded" ELSE "refused")
      /\ beat.entries = IF fits THEN entries ELSE <<>>
      /\ beat.daily = daily /\ beat.byCountry = byCountry /\ beat.configured = configured
      /\ beat.step = step /\ beat.overrides = overrides
  <2>1. beat = [state |-> IF fits THEN "loaded" ELSE "refused",
                daily |-> daily, byCountry |-> byCountry, configured |-> configured,
                step |-> step, overrides |-> overrides,
                entries |-> IF fits THEN entries ELSE <<>>]
    BY <1>2, <1>3 DEF Schedule
  <2> QED BY <2>1
<1>5. PICK codes : codes = Codes(configured)
  OBVIOUS
<1>6. /\ codes \in Seq(Nat) /\ IsInjective(codes)
      /\ ToSet(codes) = {configured[i] : i \in DOMAIN configured} \ {0}
  BY <1>1, <1>5, CodesFacts
<1>7. \A s, c, t : /\ Entry(s, c, t).source = s /\ Entry(s, c, t).country = c /\ Entry(s, c, t).slot = t
  BY DEF Entry
<1>8. OfClock(<<3, 0>>) /\ OfClock(<<4, 0>>)
  BY DEF OfClock
<1>9. ASSUME byCountry
      PROVE  /\ beat.state = "loaded" =>
                   /\ {beat.entries[i].country : i \in wuc} = wanted
                   /\ \A i, j \in wuc : i # j => beat.entries[i].country # beat.entries[j].country
                   /\ \A i, j \in placed :
                         i < j /\ j < i + 12 * 24 => beat.entries[i].slot # beat.entries[j].slot
             /\ beat.state = "refused" =>
                   Len(Codes(beat.configured)) > 59 \div beat.step + 1 /\ beat.step > 5
  <2>1. PICK h \in 0..1, n \in Nat :
               /\ DOMAIN codes = 1..n /\ Len(codes) = n /\ DOMAIN entries = 1..(h + n)
               /\ \A i \in 1..h : entries[i] = Entry("insecam", 0, <<3, 0>>)
               /\ \A i \in 1..n : entries[h + i] =
                     Entry("whatsupcams", codes[i], SlotOf(i - 1, codes[i], base, step, overrides))
    <3>1. PICK head : /\ (head = <<>> \/ head = <<Entry("insecam", 0, <<3, 0>>)>>)
                      /\ entries = head \o <<>> \o Planned(codes, base, step, overrides)
      BY <1>2, <1>5, <1>9 DEF Entries, Planned
    <3>2. codes \in Seq(Nat)
      BY <1>6
    <3>3. PICK h \in 0..1, n \in Nat : PlannedBehind(entries, h, n, codes, base, step, overrides)
      BY <3>1, <3>2, ByCountry
    <3> QED BY <3>3 DEF PlannedBehind
  <2>2. \A i \in 1..h : entries[i].source = "insecam" /\ entries[i].slot = <<3, 0>>
    BY <1>7, <2>1
  <2>3. \A i \in 1..n :
            /\ entries[h + i].source = "whatsupcams" /\ entries[h + i].country = codes[i]
            /\ entries[h + i].slot = SlotOf(i - 1, codes[i], base, step, overrides)
    <3> TAKE i \in 1..n
    <3>1. PICK slot : slot = SlotOf(i - 1, codes[i], base, step, overrides)
      OBVIOUS
    <3>2. entries[h + i] = Entry("whatsupcams", codes[i], slot)
      BY <2>1, <3>1
    <3> QED BY <1>7, <3>1, <3>2
  <2>4. \A i \in 1..(h + n) : i \in 1..h \/ (i - h \in 1..n /\ h + (i - h) = i)
    OBVIOUS
  <2>5. \A i \in 1..n : h + i \in 1..(h + n)
    OBVIOUS
  <2>6. ASSUME beat.state = "loaded"
        PROVE  /\ {beat.entries[i].country : i \in wuc} = wanted
               /\ \A i, j \in wuc : i # j => beat.entries[i].country # beat.entries[j].country
               /\ \A i, j \in placed :
                      i < j /\ j < i + 12 * 24 => beat.entries[i].slot # beat.entries[j].slot
    <3>1. beat.entries = entries
      BY <1>4, <2>6
    <3>2. PICK W : W = wuc /\ W = {i \in DOMAIN entries : entries[i].source = "whatsupcams"}
      BY <3>1
    <3>3. \A i \in W : /\ i \in Int /\ i - h \in 1..n /\ h + (i - h) = i
                       /\ entries[i].country = codes[i - h]
                       /\ entries[i].slot = SlotOf(i - h - 1, codes[i - h], base, step, overrides)
      <4> TAKE i \in W
      <4>1. i \in 1..(h + n) /\ entries[i].source = "whatsupcams"
        BY <2>1, <3>2
      <4>2. i \notin 1..h
        BY <2>2, <4>1
      <4>3. PICK k \in 1..n : k = i - h /\ h + k = i
        BY <2>4, <4>1, <4>2
      <4>4. /\ entries[i].country = codes[k]
            /\ entries[i].slot = SlotOf(k - 1, codes[k], base, step, overrides)
        BY <2>3, <4>3
      <4> QED BY <4>1, <4>3, <4>4
    <3>4. \A k \in 1..n : h + k \in W /\ entries[h + k].country = codes[k]
      BY <2>1, <2>3, <2>5, <3>2
    <3>5. {entries[i].country : i \in W} = {codes[k] : k \in 1..n}
      <4>1. {entries[i].country : i \in W} \subseteq {codes[k] : k \in 1..n}
        BY <3>3
      <4>2. {codes[k] : k \in 1..n} \subseteq {entries[i].country : i \in W}
        BY <3>4
      <4> QED BY <4>1, <4>2
    <3>6. {codes[k] : k \in 1..n} = wanted
      <4>1. ToSet(codes) = {codes[k] : k \in 1..n}
        BY <2>1 DEF ToSet
      <4>2. wanted = {configured[i] : i \in DOMAIN configured} \ {0}
        BY <1>4
      <4> HIDE DEF wanted
      <4> QED BY <1>6, <4>1, <4>2
    <3>7. ASSUME NEW i \in W, NEW j \in W, i # j PROVE entries[i].country # entries[j].country
      <4>1. PICK k \in 1..n, l \in 1..n :
                /\ k = i - h /\ l = j - h /\ k # l
                /\ entries[i].country = codes[k] /\ entries[j].country = codes[l]
        BY <3>3, <3>7
      <4> QED BY <1>6, <2>1, <4>1 DEF IsInjective
    <3>8. ASSUME NEW i \in placed, NEW j \in placed, i < j, j < i + 12 * 24
          PROVE  entries[i].slot # entries[j].slot
      <4>1. /\ i \in W /\ j \in W
            /\ ~Given(overrides, entries[i].country) /\ ~Given(overrides, entries[j].country)
        BY <1>4, <3>1, <3>2
      <4>2. PICK x \in Nat, y \in Nat : x = i - h - 1 /\ y = j - h - 1 /\ x < y /\ y < x + 12 * 24
        <5>1. i \in Int /\ j \in Int /\ i - h \in 1..n /\ j - h \in 1..n /\ h \in Int
          BY <3>3, <4>1
        <5>2. i - h - 1 \in Nat /\ j - h - 1 \in Nat /\ i - h - 1 < j - h - 1
              /\ j - h - 1 < (i - h - 1) + 12 * 24
          BY <3>8, <5>1
        <5> QED BY <5>2
      <4>3. /\ entries[i].slot = DefaultSlot(x, base, step)
            /\ entries[j].slot = DefaultSlot(y, base, step)
        BY <3>3, <4>1, <4>2 DEF SlotOf
      <4> QED BY <1>1, <4>2, <4>3, SlotsApart
    <3> HIDE DEF wanted
    <3> QED BY <3>1, <3>2, <3>5, <3>6, <3>7, <3>8
  <2>7. ASSUME beat.state = "refused"
        PROVE  Len(Codes(beat.configured)) > 59 \div beat.step + 1 /\ beat.step > 5
    <3>1. PICK i \in DOMAIN entries : ~OfClock(entries[i].slot)
      BY <1>3, <1>4, <2>7
    <3>2. i \notin 1..h
      BY <1>8, <2>2, <3>1
    <3>3. PICK k \in 1..n : i = h + k
      BY <2>1, <2>4, <3>1, <3>2
    <3>4. PICK at \in Nat : at = k - 1
      OBVIOUS
    <3>5. ~OfClock(SlotOf(at, codes[k], base, step, overrides))
      BY <2>3, <3>1, <3>3, <3>4
    <3>6. step > 5 /\ at > 59 \div step
      BY <1>1, <3>5, SlotRefused
    <3>7. 59 \div step \in Int
      BY <1>1, <3>6
    <3>8. n > 59 \div step + 1
      BY <3>4, <3>6, <3>7
    <3> QED BY <1>4, <1>5, <2>1, <3>6, <3>8
  <2> HIDE DEF wuc, placed, wanted
  <2> QED BY <2>6, <2>7
<1>10. ASSUME ~byCountry
       PROVE  /\ beat.state = "loaded" =>
                    /\ {beat.entries[i].country : i \in wuc} = IF beat.daily THEN {0} ELSE {}
                    /\ \A i, j \in wuc : i = j
              /\ beat.state # "refused"
  <2>1. entries = (IF daily THEN <<Entry("insecam", 0, <<3, 0>>)>> ELSE <<>>)
                  \o (IF daily THEN <<Entry("whatsupcams", 0, <<4, 0>>)>> ELSE <<>>) \o <<>>
    BY <1>2, <1>10 DEF Entries
  <2>2. CASE daily
    <3>1. /\ DOMAIN entries = {1, 2} /\ entries[1] = Entry("insecam", 0, <<3, 0>>)
          /\ entries[2] = Entry("whatsupcams", 0, <<4, 0>>)
      BY <2>1, <2>2, TwoEntries
    <3>2. /\ entries[1].source = "insecam" /\ entries[1].slot = <<3, 0>>
          /\ entries[2].source = "whatsupcams" /\ entries[2].slot = <<4, 0>> /\ entries[2].country = 0
      BY <1>7, <3>1
    <3>3. fits
      BY <1>3, <1>8, <3>1, <3>2
    <3>4. beat.entries = entries /\ beat.state = "loaded"
      BY <1>4, <3>3
    <3>5. wuc = {2}
      BY <3>1, <3>2, <3>4
    <3> QED BY <1>4, <2>2, <3>2, <3>4, <3>5
  <2>3. CASE ~daily
    <3>1. entries = <<>>
      BY <2>1, <2>3
    <3>2. fits
      BY <1>3, <3>1
    <3>3. beat.entries = <<>> /\ beat.state = "loaded"
      BY <1>4, <3>1, <3>2
    <3>4. wuc = {}
      BY <3>3
    <3> QED BY <1>4, <2>3, <3>3, <3>4
  <2> QED BY <2>2, <2>3
<1>11. CountriesApart <=>
          /\ beat.state = "loaded" =>
                /\ {beat.entries[i].country : i \in wuc} =
                      IF beat.byCountry THEN wanted ELSE IF beat.daily THEN {0} ELSE {}
                /\ \A i, j \in wuc : i # j => beat.entries[i].country # beat.entries[j].country
                /\ \A i, j \in placed :
                      i < j /\ j < i + 12 * 24 => beat.entries[i].slot # beat.entries[j].slot
          /\ beat.state = "refused" =>
                beat.byCountry /\ Len(Codes(beat.configured)) > 59 \div beat.step + 1 /\ beat.step > 5
  BY DEF CountriesApart
<1>12. CASE byCountry
  <2> HIDE DEF wuc, placed, wanted
  <2> QED BY <1>4, <1>9, <1>11, <1>12
<1>13. CASE ~byCountry
  <2>1. ASSUME beat.state = "loaded", NEW i \in placed, NEW j \in placed PROVE ~(i < j)
    <3>1. i = j
      BY <1>10, <1>13, <2>1
    <3>2. i \in wuc /\ i \in DOMAIN beat.entries
      OBVIOUS
    <3>3. i \in Int
      <4>1. DOMAIN beat.entries \subseteq {1, 2}
        <5>1. /\ daily => entries = <<Entry("insecam", 0, <<3, 0>>)>>
                                    \o <<Entry("whatsupcams", 0, <<4, 0>>)>> \o <<>>
              /\ ~daily => entries = <<>> \o <<>> \o <<>>
          BY <1>2, <1>13 DEF Entries
        <5>2. <<>> \o <<>> \o <<>> = <<>> /\ DOMAIN <<>> = {}
          OBVIOUS
        <5>3. DOMAIN entries \subseteq {1, 2}
          BY <5>1, <5>2, TwoEntries
        <5> QED BY <1>4, <5>2, <5>3
      <4> QED BY <3>2, <4>1
    <3> QED BY <3>1, <3>3
  <2>2. placed \subseteq wuc
    OBVIOUS
  <2> HIDE DEF wuc, placed, wanted
  <2> QED BY <1>4, <1>10, <1>11, <1>13, <2>1
<1> QED BY <1>12, <1>13

\* A schedule that is loaded scrapes every configured country once a day, no two
\* countries that were not given a slot start together within a day's worth of
\* slots, and only a step above five minutes with enough countries is refused
\* (celery.py:24-51 and 72-97, config.py:115-124).
THEOREM SpreadOverTheDay == BeatSpec => []CountriesApart
<1>1. BeatInv => CountriesApart
  <2> SUFFICES ASSUME BeatInv PROVE CountriesApart
    OBVIOUS
  <2>1. CASE beat = NoBeat
    BY <2>1 DEF NoBeat, CountriesApart
  <2>2. CASE beat # NoBeat
    BY <2>2, ScheduleApart DEF BeatInv
  <2> QED BY <2>1, <2>2
<1> QED BY BeatInvariant, <1>1, PTL
-----------------------------------------------------------------------------
\* What a run collects: the invariant

Runs ==
    [source : Sources \cup {"none"}, phase : {"none", "list", "flush", "done", "failed"},
     start : Nat, page : Nat, failed : 0..Attempts - 1, limit : Nat, ids : Seq(Cams)]

CollectTypes ==
    /\ site \in Seq(Cams) /\ IsInjective(site)
    /\ listing \in Seq(Cams) /\ batch \in Seq(Cams) /\ stored \in Seq(Cams)
    /\ run \in Runs /\ told \in [processed : Nat, stored : Nat]
    /\ shifts \in 0..MaxShifts /\ lost \in BOOLEAN /\ refused \in BOOLEAN

\* What was listed was processed or waits; nothing was lost of it while nothing
\* was given up.
Handed ==
    \E handed \in Seq(Cams) :
        /\ listing = handed \o batch /\ Len(handed) = told.processed
        /\ ~lost => stored = handed

\* The counters are behind the catalogue by one batch at most, of a failed run.
CountsOK ==
    /\ told.stored <= told.processed
    /\ told.stored <= Len(stored) /\ Len(stored) <= told.stored + BatchSize
    /\ run.phase # "failed" => told.stored = Len(stored)

AccountOK ==
    /\ Handed /\ CountsOK
    /\ run.phase = "none" => listing = <<>>
    /\ run.phase = "done" => batch = <<>>

\* How far a run has come.
PagesOK ==
    /\ run.phase # "none" => run.source \in {"INSECAM", "WINDY", "WHATSUPCAMS"}
    /\ run.phase = "none" => run = NoRun /\ ~refused
    /\ run.source = "INSECAM" =>
          /\ run.start = 0
          /\ run.phase = "list" => run.page < MaxPages /\ (run.page = 0 <=> listing = <<>>)
          /\ run.phase \in {"flush", "done"} => listing # <<>>
    /\ run.source = "WINDY" /\ run.phase = "list" => run.page <= PagesUntilOffsetLimit(run.start)
    /\ refused => run.limit < OffsetLimit

Playable == Live \cup LiveInDetail

\* The places a run can reach, and those it has passed while it lists.
Within ==
    CASE run.source = "INSECAM" -> {k \in DOMAIN site : k <= MaxPages * PerPage}
      [] run.source = "WINDY" ->
            {k \in DOMAIN site : /\ run.start * PerPage < k
                                 /\ k <= (run.start + PagesUntilOffsetLimit(run.start)) * PerPage
                                 /\ site[k] \in Playable}
      [] OTHER -> DOMAIN site

Passed ==
    CASE run.source = "INSECAM" -> {k \in DOMAIN site : k <= run.page * PerPage}
      [] run.source = "WINDY" ->
            {k \in DOMAIN site : /\ run.start * PerPage < k
                                 /\ k <= (run.start + run.page) * PerPage
                                 /\ site[k] \in Playable}
      [] OTHER -> {k \in DOMAIN site : run.page > 0 /\ k <= (run.page - 1) * PerPage}

\* Over a source that stands still, when nothing was given up.
QuietOK ==
    shifts = 0 /\ ~lost =>
        /\ run.phase = "list" => ListsPlaces(listing, site, Passed)
        /\ run.phase \in {"flush", "done"} => ListsPlaces(listing, site, Within)
        /\ run.phase = "list" /\ run.source = "WHATSUPCAMS" /\ run.page > 0 => run.ids = site

CollectInv == CollectTypes /\ AccountOK /\ PagesOK /\ InsecamListsOnce /\ QuietOK
-----------------------------------------------------------------------------
\* Lists of places

LEMMA ConcatPlaces ==
  ASSUME NEW S, NEW s \in Seq(S), NEW l \in Seq(S), NEW t \in Seq(S),
         NEW P \in SUBSET Nat, NEW Q \in SUBSET Nat,
         ListsPlaces(l, s, P), ListsPlaces(t, s, Q),
         \A p \in P, q \in Q : p < q
  PROVE  ListsPlaces(l \o t, s, P \cup Q)
<1> DEFINE c == l \o t
<1>1. /\ c \in Seq(S) /\ DOMAIN c = 1..(Len(l) + Len(t)) /\ Len(l) \in Nat /\ Len(t) \in Nat
      /\ DOMAIN l = 1..Len(l) /\ DOMAIN t = 1..Len(t)
      /\ \A i \in DOMAIN c : c[i] = IF i <= Len(l) THEN l[i] ELSE t[i - Len(l)]
  OBVIOUS
<1> HIDE DEF c
<1>2. \A i \in DOMAIN c : i <= Len(l) => i \in DOMAIN l /\ c[i] = l[i]
  BY <1>1
<1>3. \A i \in DOMAIN c : ~(i <= Len(l)) => i - Len(l) \in DOMAIN t /\ c[i] = t[i - Len(l)]
  BY <1>1
<1>4. /\ \A i \in DOMAIN l : i \in DOMAIN c /\ c[i] = l[i]
      /\ \A i \in DOMAIN t : i + Len(l) \in DOMAIN c /\ c[i + Len(l)] = t[i]
  <2>1. \A i \in DOMAIN l : i \in DOMAIN c /\ i <= Len(l)
    BY <1>1
  <2>2. \A i \in DOMAIN t :
           i + Len(l) \in DOMAIN c /\ ~(i + Len(l) <= Len(l)) /\ (i + Len(l)) - Len(l) = i
    BY <1>1
  <2> QED BY <1>2, <1>3, <2>1, <2>2
<1>5. ToSet(c) = {s[k] : k \in P \cup Q}
  <2>1. ToSet(c) = ToSet(l) \cup ToSet(t)
    BY <1>2, <1>3, <1>4 DEF ToSet
  <2> QED BY <2>1 DEF ListsPlaces
<1>6. ASSUME NEW i \in DOMAIN c, NEW j \in DOMAIN c, i < j
      PROVE  \E k, m \in P \cup Q : k < m /\ s[k] = c[i] /\ s[m] = c[j]
  <2>1. CASE i <= Len(l) /\ j <= Len(l)
    BY <1>2, <1>6, <2>1 DEF ListsPlaces
  <2>2. CASE ~(i <= Len(l)) /\ ~(j <= Len(l))
    <3>1. i - Len(l) < j - Len(l)
      BY <1>1, <1>6
    <3> QED BY <1>3, <2>2, <3>1 DEF ListsPlaces
  <2>3. CASE i <= Len(l) /\ ~(j <= Len(l))
    <3>1. c[i] \in ToSet(l) /\ c[j] \in ToSet(t)
      BY <1>2, <1>3, <2>3 DEF ToSet
    <3>2. PICK k \in P, m \in Q : s[k] = c[i] /\ s[m] = c[j]
      BY <3>1 DEF ListsPlaces
    <3> QED BY <3>2
  <2> QED
    <3>1. i <= Len(l) \/ ~(j <= Len(l))
      BY <1>1, <1>6
    <3> QED BY <3>1, <2>1, <2>2, <2>3
<1> QED BY <1>5, <1>6 DEF ListsPlaces, c

\* A page has the next places.
LEMMA SliceFacts ==
  ASSUME NEW S, NEW s \in Seq(S), NEW offset \in Nat
  PROVE  /\ Slice(s, offset) \in Seq(S)
         /\ \A i \in DOMAIN Slice(s, offset) :
               i \in 1..PerPage /\ offset + i \in DOMAIN s /\ Slice(s, offset)[i] = s[offset + i]
         /\ \A k \in DOMAIN s :
               offset < k /\ k <= offset + PerPage => k - offset \in DOMAIN Slice(s, offset)
         /\ Slice(s, offset) = <<>> <=> Len(s) <= offset
         /\ Len(Slice(s, offset)) < PerPage => Len(s) < offset + PerPage
<1> DEFINE n == IF offset + PerPage < Len(s) THEN offset + PerPage ELSE Len(s)
           t == SubSeq(s, offset + 1, n)
<1>1. PICK p \in Nat, z \in Nat : p = PerPage /\ z = Len(s) /\ p # 0
  BY CollectorsAssumption
<1>0. DOMAIN s = 1..z /\ \A i \in 1..z : s[i] \in S
  BY <1>1
<1>2. n = IF offset + p < z THEN offset + p ELSE z
  BY <1>1
<1> HIDE DEF n
<1>3. n \in Nat /\ n <= z /\ n <= offset + p /\ (n = z \/ n = offset + p)
  BY <1>2
<1>4. \A i \in (offset + 1)..n : s[i] \in S
  BY <1>0, <1>3
<1>5. /\ t \in Seq(S)
      /\ Len(t) = IF offset + 1 <= n THEN n - (offset + 1) + 1 ELSE 0
      /\ \A i \in 1..(n - (offset + 1) + 1) : t[i] = s[(offset + 1) + i - 1]
  <2>1. offset + 1 \in Int /\ n \in Int
    BY <1>3
  <2> HIDE DEF t
  <2>2. /\ SubSeq(s, offset + 1, n) \in Seq(S)
        /\ Len(SubSeq(s, offset + 1, n)) = IF offset + 1 <= n THEN n - (offset + 1) + 1 ELSE 0
        /\ \A i \in 1..(n - (offset + 1) + 1) : SubSeq(s, offset + 1, n)[i] = s[(offset + 1) + i - 1]
    BY <2>1, <1>4, SubSeqProperties
  <2> QED BY <2>2 DEF t
<1> HIDE DEF t
<1>a. PICK m \in Nat : /\ m = Len(t) /\ DOMAIN t = 1..m /\ (t = <<>> <=> m = 0)
                       /\ m = IF offset < n THEN n - offset ELSE 0
  <2>1. Len(t) \in Nat /\ DOMAIN t = 1..Len(t) /\ (t = <<>> <=> Len(t) = 0)
    BY <1>5
  <2>2. /\ offset + 1 <= n <=> offset < n
        /\ n - (offset + 1) + 1 = n - offset
    BY <1>3
  <2> QED BY <1>5, <2>1, <2>2
<1>6. \A i \in DOMAIN t : i \in 1..PerPage /\ offset + i \in DOMAIN s /\ t[i] = s[offset + i]
  <2> TAKE i \in DOMAIN t
  <2>1. /\ i \in 1..(n - (offset + 1) + 1) /\ (offset + 1) + i - 1 = offset + i
        /\ i \in 1..p /\ offset + i \in 1..z
    BY <1>3, <1>a
  <2> QED BY <1>0, <1>1, <1>5, <2>1
<1>7. \A k \in DOMAIN s : offset < k /\ k <= offset + PerPage => k - offset \in DOMAIN t
  <2>1. \A k \in 1..z : offset < k /\ k <= offset + p => k - offset \in 1..m
    BY <1>3, <1>a
  <2> QED BY <1>0, <1>1, <1>a, <2>1
<1>8. t = <<>> <=> Len(s) <= offset
  <2>1. m = 0 <=> z <= offset
    BY <1>1, <1>3, <1>a
  <2> QED BY <1>1, <1>a, <2>1
<1>9. Len(t) < PerPage => Len(s) < offset + PerPage
  <2>1. m < p => z < offset + p
    BY <1>3, <1>a
  <2> QED BY <1>1, <1>a, <2>1
<1>10. t = Slice(s, offset)
  BY DEF t, n, Slice
<1> QED BY <1>5, <1>6, <1>7, <1>8, <1>9, <1>10

\* The next places of s of a page.
Page(s, offset) == {k \in DOMAIN s : offset < k /\ k <= offset + PerPage}

LEMMA PagePlaces ==
  ASSUME NEW S, NEW s \in Seq(S), NEW offset \in Nat,
         NEW places \in SUBSET DOMAIN Slice(s, offset),
         NEW Q, Q = {k \in Page(s, offset) : k - offset \in places}
  PROVE  /\ Excerpt(Slice(s, offset), places) \in Seq(S)
         /\ ListsPlaces(Excerpt(Slice(s, offset), places), s, Q)
<1>0. PICK t : t = Slice(s, offset)
  OBVIOUS
<1>1. /\ t \in Seq(S)
      /\ \A i \in DOMAIN t :
             i \in 1..PerPage /\ offset + i \in DOMAIN s /\ t[i] = s[offset + i]
  BY <1>0, SliceFacts
<1>2. places \in SUBSET DOMAIN t
  BY <1>0
<1>e. PICK e : e = Excerpt(t, places)
  OBVIOUS
<1>3. e \in Seq(S) /\ ListsPlaces(e, t, places)
  BY <1>1, <1>2, <1>e, ExcerptFacts
<1>4. DOMAIN s \in SUBSET Nat /\ PerPage \in Nat
  BY CollectorsAssumption
<1>5. \A i \in places : i \in Nat /\ offset + i \in Q /\ t[i] = s[offset + i]
  <2> TAKE i \in places
  <2>1. i \in 1..PerPage /\ offset + i \in DOMAIN s /\ t[i] = s[offset + i]
    BY <1>1, <1>2
  <2>2. (offset + i) - offset = i /\ offset < offset + i /\ offset + i <= offset + PerPage
    BY <1>4, <2>1
  <2> QED BY <2>1, <2>2 DEF Page
<1>6. \A k \in Q : k - offset \in places /\ t[k - offset] = s[k]
  <2> TAKE k \in Q
  <2>1. k - offset \in places /\ k \in Nat
    BY <1>4 DEF Page
  <2>2. t[k - offset] = s[offset + (k - offset)] /\ offset + (k - offset) = k
    BY <1>5, <2>1
  <2> QED BY <2>1, <2>2
<1>7. ToSet(e) = {s[k] : k \in Q}
  <2>1. {t[i] : i \in places} = {s[k] : k \in Q}
    BY <1>5, <1>6
  <2> QED BY <1>3, <2>1 DEF ListsPlaces
<1>8. ASSUME NEW i \in DOMAIN e, NEW j \in DOMAIN e, i < j
      PROVE  \E k, l \in Q : k < l /\ s[k] = e[i] /\ s[l] = e[j]
  <2>1. PICK k \in places, l \in places : k < l /\ e[i] = t[k] /\ e[j] = t[l]
    BY <1>3, <1>8 DEF ListsPlaces
  <2>2. PICK x \in Q, y \in Q : x = offset + k /\ y = offset + l /\ t[k] = s[x] /\ t[l] = s[y]
    BY <1>5
  <2>3. x < y
    BY <1>5, <2>1, <2>2
  <2>4. s[x] = e[i] /\ s[y] = e[j]
    BY <2>1, <2>2
  <2> WITNESS x \in Q, y \in Q
  <2> QED BY <2>3, <2>4
<1>9. ListsPlaces(e, s, Q)
  BY <1>7, <1>8 DEF ListsPlaces
<1> QED BY <1>0, <1>e, <1>3, <1>9
-----------------------------------------------------------------------------
\* Pages

LEMMA Numbers ==
  /\ PerPage \in Nat \ {0} /\ BatchSize \in Nat \ {0} /\ MaxPages \in Nat \ {0}
  /\ Attempts \in Nat \ {0} /\ OffsetLimit \in Nat /\ MaxShifts \in Nat
  /\ StartPages \subseteq Nat /\ ApiLimits \subseteq Nat
BY CollectorsAssumption

\* Windy asks for the pages whose offset is within the limit, as many as a run may.
LEMMA PagesUntil ==
  ASSUME NEW start \in Nat
  PROVE  /\ PagesUntilOffsetLimit(start) \in Nat
         /\ \A q \in Nat : start <= q =>
               (q < start + PagesUntilOffsetLimit(start)
                <=> q * PerPage <= OffsetLimit /\ q < start + MaxPages)
<1> DEFINE p == PerPage
           u == PagesUntilOffsetLimit(start)
           d == (OffsetLimit - start * p) \div p
<1>1. p \in Nat \ {0} /\ OffsetLimit \in Nat /\ MaxPages \in Nat \ {0} /\ start * p \in Nat
  BY Numbers, Times
<1>2. u = IF start * p > OffsetLimit THEN 0 ELSE IF MaxPages < d + 1 THEN MaxPages ELSE d + 1
  BY DEF PagesUntilOffsetLimit
<1> HIDE DEF p, u
<1>3. CASE start * p > OffsetLimit
  <2>1. \A q \in Nat : start <= q => ~(q * p <= OffsetLimit)
    <3> TAKE q \in Nat
    <3> HAVE start <= q
    <3>1. start * p <= q * p /\ q * p \in Nat
      BY <1>1, Times
    <3> QED BY <1>1, <1>3, <3>1
  <2>2. u = 0
    BY <1>2, <1>3
  <2> QED BY <2>1, <2>2 DEF p, u
<1>4. CASE ~(start * p > OffsetLimit)
  <2>1. OffsetLimit - start * p \in Nat
    BY <1>1, <1>4
  <2>2. d \in Nat /\ \A m \in Nat : m <= d <=> m * p <= OffsetLimit - start * p
    BY <1>1, <2>1, Quotient
  <2> HIDE DEF d
  <2>3. u \in Nat /\ u = IF MaxPages < d + 1 THEN MaxPages ELSE d + 1
    BY <1>1, <1>2, <1>4, <2>2
  <2>4. ASSUME NEW q \in Nat, start <= q
        PROVE  q < start + u <=> q * p <= OffsetLimit /\ q < start + MaxPages
    <3>1. PICK m \in Nat : q = start + m
      <4>1. q - start \in Nat /\ q = start + (q - start)
        BY <2>4
      <4> QED BY <4>1
    <3>2. q * p = start * p + m * p /\ m * p \in Nat
      BY <1>1, <3>1, Times
    <3>3. q * p <= OffsetLimit <=> m <= d
      BY <1>1, <2>2, <3>2
    <3>4. q < start + u <=> m < u
      BY <2>3, <3>1
    <3>5. q < start + MaxPages <=> m < MaxPages
      BY <1>1, <3>1
    <3>6. m < u <=> m <= d /\ m < MaxPages
      BY <1>1, <2>2, <2>3
    <3> QED BY <3>3, <3>4, <3>5, <3>6
  <2> QED BY <2>3, <2>4 DEF p, u
<1> QED BY <1>3, <1>4

\* What a run can reach are the cameras at the places within its reach.
LEMMA ReachableWithin ==
  ASSUME CollectTypes
  PROVE  Reachable = {site[k] : k \in Within}
<1>1. CASE run.source = "INSECAM"
  BY <1>1 DEF Reachable, Within
<1>2. CASE run.source = "WINDY"
  <2> DEFINE start == run.start
             u == PagesUntilOffsetLimit(start)
  <2>1. start \in Nat /\ u \in Nat /\ PerPage \in Nat \ {0} /\ MaxPages \in Nat
    BY PagesUntil, Numbers DEF CollectTypes, Runs
  <2>2. ASSUME NEW k \in DOMAIN site
        PROVE  (start * PerPage < k /\ k <= (start + u) * PerPage)
               <=> /\ OffsetOf(k) >= start * PerPage
                   /\ OffsetOf(k) <= OffsetLimit
                   /\ OffsetOf(k) < (start + MaxPages) * PerPage
    <3> DEFINE q == (k - 1) \div PerPage
    <3>1. k \in Nat \ {0} /\ k - 1 \in Nat
      BY DEF CollectTypes
    <3>2. q \in Nat /\ \A m \in Nat : m <= q <=> m * PerPage <= k - 1
      BY <2>1, <3>1, Quotient
    <3>3. OffsetOf(k) = q * PerPage
      BY DEF OffsetOf
    <3> HIDE DEF q, u
    <3>4. start * PerPage < k <=> start <= q
      <4>1. start * PerPage \in Nat
        BY <2>1, Times
      <4> QED BY <2>1, <3>1, <3>2, <4>1
    <3>5. k <= (start + u) * PerPage <=> q < start + u
      <4>1. (start + u) * PerPage \in Nat /\ start + u \in Nat
        BY <2>1, Times
      <4>2. start + u <= q <=> (start + u) * PerPage <= k - 1
        BY <3>2, <4>1
      <4> QED BY <3>1, <3>2, <4>1, <4>2
    <3>6. OffsetOf(k) >= start * PerPage <=> start <= q
      <4>1. start * PerPage \in Nat /\ q * PerPage \in Nat
        BY <2>1, <3>2, Times
      <4>2. start <= q <=> start * PerPage <= q * PerPage
        BY <2>1, <3>2, Times
      <4> QED BY <3>3, <4>1, <4>2
    <3>7. OffsetOf(k) < (start + MaxPages) * PerPage <=> q < start + MaxPages
      <4>0. start + MaxPages \in Nat
        BY <2>1
      <4>1. (start + MaxPages) * PerPage \in Nat /\ q * PerPage \in Nat
        BY <2>1, <3>2, <4>0, Times
      <4>2. start + MaxPages <= q <=> (start + MaxPages) * PerPage <= q * PerPage
        BY <2>1, <3>2, <4>0, Times
      <4> QED BY <3>2, <3>3, <4>0, <4>1, <4>2
    <3>8. start <= q => (q < start + u <=> q * PerPage <= OffsetLimit /\ q < start + MaxPages)
      BY <2>1, <3>2, PagesUntil DEF u
    <3> QED BY <3>3, <3>4, <3>5, <3>6, <3>7, <3>8
  <2>3. Reachable = {site[i] : i \in {k \in DOMAIN site :
                /\ OffsetOf(k) >= start * PerPage
                /\ OffsetOf(k) <= OffsetLimit
                /\ OffsetOf(k) < (start + MaxPages) * PerPage}} \cap Playable
    BY <1>2 DEF Reachable, Playable
  <2>4. Within = {k \in DOMAIN site : /\ start * PerPage < k /\ k <= (start + u) * PerPage
                                      /\ site[k] \in Playable}
    BY <1>2 DEF Within
  <2> HIDE DEF u, start
  <2> QED BY <2>2, <2>3, <2>4
<1>3. CASE run.source \notin {"INSECAM", "WINDY"}
  BY <1>3 DEF Reachable, Within, ToSet
<1> QED BY <1>1, <1>2, <1>3
-----------------------------------------------------------------------------
\* Every step keeps the invariant

Phases == {"none", "list", "flush", "done", "failed"}

LEMMA EmptyLists ==
  ASSUME NEW s
  PROVE  ListsPlaces(<<>>, s, {})
BY DEF ListsPlaces, ToSet

LEMMA CollectInitial == CollectInit => CollectInv
<1> SUFFICES ASSUME CollectInit PROVE CollectInv
  OBVIOUS
<1>1. site \in Seq(Cams) /\ IsInjective(site) /\ MaxShifts \in Nat /\ Attempts \in Nat \ {0}
  BY CollectorsAssumption DEF CollectInit
<1>2. NoRun \in Runs
  BY <1>1 DEF NoRun, Runs
<1>3. /\ run = NoRun /\ listing = <<>> /\ batch = <<>> /\ stored = <<>>
      /\ told = [processed |-> 0, stored |-> 0]
      /\ shifts = 0 /\ lost = FALSE /\ refused = FALSE
  BY DEF CollectInit
<1>4. run.source = "none" /\ run.phase = "none"
  BY <1>3 DEF NoRun
<1>5. CollectTypes
  <2>1. <<>> \in Seq(Cams) /\ shifts \in 0..MaxShifts
    BY <1>1, <1>3
  <2> QED BY <1>1, <1>2, <1>3, <2>1 DEF CollectTypes
<1>6. AccountOK
  <2>1. PICK none \in Seq(Cams) : none = <<>> /\ Len(none) = 0 /\ none \o none = none
    <3>1. <<>> \in Seq(Cams) /\ Len(<<>>) = 0 /\ <<>> \o <<>> = <<>>
      OBVIOUS
    <3> QED BY <3>1
  <2>2. Handed
    <3>1. listing = none \o batch /\ Len(none) = told.processed /\ stored = none
      BY <1>3, <2>1
    <3> QED BY <2>1, <3>1 DEF Handed
  <2>3. CountsOK
    BY <1>3, <2>1, Numbers DEF CountsOK
  <2> QED BY <1>3, <1>4, <2>2, <2>3 DEF AccountOK
<1>7. PagesOK
  BY <1>3, <1>4 DEF PagesOK
<1>8. InsecamListsOnce /\ QuietOK
  BY <1>4 DEF InsecamListsOnce, QuietOK
<1> QED BY <1>5, <1>6, <1>7, <1>8 DEF CollectInv

LEMMA BeginKeeps ==
  ASSUME CollectInv, NEW source \in Sources, NEW start \in StartPages, NEW limit \in ApiLimits,
         BeginRun(source, start, limit)
  PROVE  CollectInv'
<1>0. CollectTypes /\ AccountOK /\ PagesOK
  BY DEF CollectInv
<1>1. /\ source \in {"INSECAM", "WINDY", "WHATSUPCAMS"} /\ start \in Nat /\ limit \in Nat
      /\ 0 \in 0..Attempts - 1
  BY CollectorsAssumption, Numbers
<1>2. /\ run'.source = source /\ run'.phase = "list" /\ run'.start = start /\ run'.page = 0
      /\ run'.failed = 0 /\ run'.limit = limit /\ run'.ids = <<>> /\ run' \in Runs
      /\ source # "WINDY" => start = 0
  <2>1. run' = [source |-> source, phase |-> "list", start |-> start, page |-> 0, failed |-> 0,
                limit |-> limit, ids |-> <<>>]
    BY DEF BeginRun, NoRun
  <2>2. <<>> \in Seq(Cams) /\ 0 \in Nat
    OBVIOUS
  <2>3. run' \in Runs
    BY <1>1, <2>1, <2>2 DEF Runs
  <2>4. source # "WINDY" => start = 0
    BY DEF BeginRun
  <2>5. /\ run'.source = source /\ run'.phase = "list" /\ run'.start = start /\ run'.page = 0
        /\ run'.failed = 0 /\ run'.limit = limit /\ run'.ids = <<>>
    BY <2>1
  <2> QED BY <2>3, <2>4, <2>5
<1>3. UNCHANGED <<site, listing, batch, stored, told, shifts, lost, refused>>
  BY DEF BeginRun
<1>4. listing = <<>> /\ ~refused /\ run.phase = "none"
  BY <1>0 DEF BeginRun, AccountOK, PagesOK
<1>6. CollectTypes'
  BY <1>0, <1>2, <1>3 DEF CollectTypes
<1>7. AccountOK'
  BY <1>0, <1>2, <1>3, <1>4 DEF AccountOK, Handed, CountsOK
<1>8. PagesOK'
  <2>1. 0 < MaxPages /\ PagesUntilOffsetLimit(start) \in Nat
    BY <1>1, Numbers, PagesUntil
  <2>2. 0 <= PagesUntilOffsetLimit(start)
    BY <2>1
  <2> QED BY <1>1, <1>2, <1>3, <1>4, <2>1, <2>2 DEF PagesOK, PagesUntilOffsetLimit
<1>9. InsecamListsOnce'
  BY <1>3, <1>4 DEF InsecamListsOnce, IsInjective
<1>10. QuietOK'
  <2>1. PerPage \in Nat /\ start * PerPage \in Nat /\ 0 * PerPage = 0 /\ start + 0 = start
    BY <1>1, Numbers, Times
  <2>2. DOMAIN site \in SUBSET (Nat \ {0})
    BY <1>0 DEF CollectTypes
  <2>3. Passed' = {}
    BY <1>1, <1>2, <1>3, <2>1, <2>2 DEF Passed
  <2>4. ListsPlaces(listing, site, Passed')
    BY <1>4, <2>3, EmptyLists
  <2> QED BY <1>2, <1>3, <2>4 DEF QuietOK
<1> QED BY <1>6, <1>7, <1>8, <1>9, <1>10 DEF CollectInv

LEMMA JoinedLists ==
  ASSUME NEW S, NEW a \in Seq(S), NEW b \in Seq(S), NEW m \in Nat, NEW n \in Nat,
         Len(a) = m, Len(b) = n
  PROVE  /\ a \o b \in Seq(S) /\ DOMAIN (a \o b) = 1..(m + n)
         /\ \A i \in 1..(m + n) : (a \o b)[i] = IF i <= m THEN a[i] ELSE b[i - m]
OBVIOUS

LEMMA WithoutOne ==
  ASSUME NEW S, NEW s \in Seq(S), IsInjective(s), NEW i \in DOMAIN s
  PROVE  RemoveAt(s, i) \in Seq(S) /\ IsInjective(RemoveAt(s, i))
<1> DEFINE t == RemoveAt(s, i)
<1>1. PICK z \in Nat : z = Len(s) /\ DOMAIN s = 1..z /\ i \in 1..z /\ \A k \in 1..z : s[k] \in S
  OBVIOUS
<1>2. PICK a : a = SubSeq(s, 1, i - 1)
  OBVIOUS
<1>a. a \in Seq(S) /\ Len(a) = i - 1 /\ \A k \in 1..(i - 1) : a[k] = s[k]
  <2>1. 1 \in Int /\ i - 1 \in Int /\ \A k \in 1..(i - 1) : s[k] \in S
    BY <1>1
  <2>2. /\ SubSeq(s, 1, i - 1) \in Seq(S)
        /\ Len(SubSeq(s, 1, i - 1)) = IF 1 <= i - 1 THEN (i - 1) - 1 + 1 ELSE 0
        /\ \A k \in 1..((i - 1) - 1 + 1) : SubSeq(s, 1, i - 1)[k] = s[1 + k - 1]
    BY <2>1, SubSeqProperties
  <2>3. /\ (IF 1 <= i - 1 THEN (i - 1) - 1 + 1 ELSE 0) = i - 1 /\ (i - 1) - 1 + 1 = i - 1
        /\ \A k \in 1..(i - 1) : 1 + k - 1 = k
    BY <1>1
  <2> QED BY <1>2, <2>2, <2>3
<1>3. PICK b : b = SubSeq(s, i + 1, z)
  OBVIOUS
<1>b. b \in Seq(S) /\ Len(b) = z - i /\ \A k \in 1..(z - i) : b[k] = s[i + k]
  <2>1. i + 1 \in Int /\ z \in Int /\ \A k \in (i + 1)..z : s[k] \in S
    BY <1>1
  <2>2. /\ SubSeq(s, i + 1, z) \in Seq(S)
        /\ Len(SubSeq(s, i + 1, z)) = IF i + 1 <= z THEN z - (i + 1) + 1 ELSE 0
        /\ \A k \in 1..(z - (i + 1) + 1) : SubSeq(s, i + 1, z)[k] = s[(i + 1) + k - 1]
    BY <2>1, SubSeqProperties
  <2>3. /\ (IF i + 1 <= z THEN z - (i + 1) + 1 ELSE 0) = z - i
        /\ z - (i + 1) + 1 = z - i
        /\ \A k \in 1..(z - i) : (i + 1) + k - 1 = i + k
    BY <1>1
  <2> QED BY <1>3, <2>2, <2>3
<1>4. t = a \o b
  BY <1>1, <1>2, <1>3 DEF RemoveAt
<1> HIDE DEF t
<1>d. PICK m \in Nat, n \in Nat : m = i - 1 /\ n = z - i /\ m + n = z - 1
  <2>1. i - 1 \in Nat /\ z - i \in Nat /\ (i - 1) + (z - i) = z - 1
    BY <1>1
  <2> QED BY <2>1
<1>e. /\ a \o b \in Seq(S) /\ DOMAIN (a \o b) = 1..(m + n)
      /\ \A k \in 1..(m + n) : (a \o b)[k] = IF k <= m THEN a[k] ELSE b[k - m]
  <2>1. Len(a) = m /\ Len(b) = n /\ a \in Seq(S) /\ b \in Seq(S)
    BY <1>a, <1>b, <1>d
  <2> QED BY <2>1
<1>5. t \in Seq(S) /\ DOMAIN t = 1..(z - 1)
  BY <1>4, <1>d, <1>e
<1>c. \A k \in 1..(z - 1) : t[k] = IF k <= i - 1 THEN a[k] ELSE b[k - (i - 1)]
  BY <1>4, <1>d, <1>e
<1>6. \A k \in 1..(z - 1) : t[k] = IF k < i THEN s[k] ELSE s[k + 1]
  <2> TAKE k \in 1..(z - 1)
  <2>1. CASE k < i
    <3>1. k \in 1..(i - 1) /\ k <= i - 1
      BY <1>1, <2>1
    <3> QED BY <1>a, <1>c, <2>1, <3>1
  <2>2. CASE ~(k < i)
    <3>1. k - (i - 1) \in 1..(z - i) /\ i + (k - (i - 1)) = k + 1 /\ ~(k <= i - 1)
      BY <1>1, <2>2
    <3>2. t[k] = b[k - (i - 1)]
      BY <1>c, <3>1
    <3> QED BY <1>b, <2>2, <3>1, <3>2
  <2> QED BY <2>1, <2>2
<1>7. ASSUME NEW k \in DOMAIN t, NEW l \in DOMAIN t, t[k] = t[l] PROVE k = l
  <2> DEFINE f(x) == IF x < i THEN x ELSE x + 1
  <2>1. f(k) \in 1..z /\ f(l) \in 1..z /\ (f(k) = f(l) => k = l)
    BY <1>1, <1>5
  <2>2. t[k] = s[f(k)] /\ t[l] = s[f(l)]
    BY <1>5, <1>6
  <2>3. f(k) = f(l)
    BY <1>1, <1>7, <2>1, <2>2 DEF IsInjective
  <2> QED BY <2>1, <2>3
<1> QED BY <1>5, <1>7 DEF IsInjective, t

\* Lists without a common member.
LEMMA InjectiveConcat ==
  ASSUME NEW S, NEW a \in Seq(S), NEW b \in Seq(S), IsInjective(a), IsInjective(b),
         \A i \in DOMAIN a, j \in DOMAIN b : a[i] # b[j]
  PROVE  IsInjective(a \o b)
<1> DEFINE c == a \o b
<1>1. PICK m \in Nat, n \in Nat : m = Len(a) /\ n = Len(b) /\ DOMAIN a = 1..m /\ DOMAIN b = 1..n
  OBVIOUS
<1>2. /\ DOMAIN c = 1..(m + n)
      /\ \A i \in 1..(m + n) : c[i] = IF i <= m THEN a[i] ELSE b[i - m]
  BY <1>1, JoinedLists
<1> HIDE DEF c
<1>3. ASSUME NEW i \in 1..(m + n), NEW j \in 1..(m + n), c[i] = c[j] PROVE i = j
  <2>1. CASE i <= m /\ j <= m
    <3>1. i \in 1..m /\ j \in 1..m
      BY <2>1
    <3> QED BY <1>1, <1>2, <1>3, <2>1, <3>1 DEF IsInjective
  <2>2. CASE ~(i <= m) /\ ~(j <= m)
    <3>1. i - m \in 1..n /\ j - m \in 1..n /\ (i - m = j - m => i = j)
      BY <2>2
    <3>2. b[i - m] = b[j - m]
      BY <1>2, <1>3, <2>2
    <3>3. i - m = j - m
      BY <1>1, <3>1, <3>2 DEF IsInjective
    <3> QED BY <3>1, <3>3
  <2>3. CASE i <= m /\ ~(j <= m)
    <3>1. i \in 1..m /\ j - m \in 1..n
      BY <2>3
    <3> QED BY <1>1, <1>2, <1>3, <2>3, <3>1
  <2>4. CASE ~(i <= m) /\ j <= m
    <3>1. j \in 1..m /\ i - m \in 1..n
      BY <2>4
    <3> QED BY <1>1, <1>2, <1>3, <2>4, <3>1
  <2> QED BY <2>1, <2>2, <2>3, <2>4
<1> QED BY <1>2, <1>3 DEF IsInjective, c

LEMMA ShiftKeeps ==
  ASSUME CollectInv, Shift
  PROVE  CollectInv'
<1>0. CollectTypes /\ AccountOK /\ PagesOK /\ InsecamListsOnce
  BY DEF CollectInv
<1>1. UNCHANGED <<run, listing, batch, stored, told, lost, refused>>
  BY DEF Shift
<1>2. shifts' \in 0..MaxShifts /\ shifts' # 0
  <2>1. shifts \in 0..MaxShifts /\ shifts < MaxShifts /\ shifts' = shifts + 1 /\ MaxShifts \in Nat
    BY <1>0, Numbers DEF Shift, CollectTypes
  <2> QED BY <2>1
<1>3. site \in Seq(Cams) /\ IsInjective(site)
  BY <1>0 DEF CollectTypes
<1>4. site' \in Seq(Cams) /\ IsInjective(site')
  <2>1. CASE \E i \in DOMAIN site : site' = RemoveAt(site, i)
    BY <1>3, <2>1, WithoutOne
  <2>2. CASE \E c \in Cams \ ToSet(site) : site' = <<c>> \o site
    <3>1. PICK c \in Cams \ ToSet(site) : site' = <<c>> \o site
      BY <2>2
    <3>2. PICK one \in Seq(Cams) : one = <<c>> /\ DOMAIN one = {1} /\ one[1] = c
      <4>1. <<c>> \in Seq(Cams) /\ DOMAIN <<c>> = {1} /\ <<c>>[1] = c
        OBVIOUS
      <4> QED BY <4>1
    <3>3. IsInjective(one)
      BY <3>2 DEF IsInjective
    <3>4. \A i \in DOMAIN one, j \in DOMAIN site : one[i] # site[j]
      BY <3>1, <3>2 DEF ToSet
    <3>5. one \o site \in Seq(Cams) /\ IsInjective(one \o site)
      BY <1>3, <3>3, <3>4, InjectiveConcat
    <3> QED BY <3>1, <3>2, <3>5
  <2> QED BY <2>1, <2>2 DEF Shift
<1>5. CollectTypes'
  BY <1>0, <1>1, <1>2, <1>4 DEF CollectTypes
<1>6. AccountOK' /\ InsecamListsOnce'
  BY <1>0, <1>1 DEF AccountOK, Handed, CountsOK, InsecamListsOnce
<1>7. PagesOK'
  BY <1>0, <1>1 DEF PagesOK, PagesUntilOffsetLimit, NoRun
<1>8. QuietOK'
  BY <1>2 DEF QuietOK
<1> QED BY <1>5, <1>6, <1>7, <1>8 DEF CollectInv
-----------------------------------------------------------------------------
\* Insecam

\* The pages so far have no member of the new part of a page.
LEMMA FreshFacts ==
  ASSUME NEW items \in Seq(Cams), listing \in Seq(Cams), IsInjective(listing)
  PROVE  /\ Fresh(items) \in Seq(Cams)
         /\ listing \o Fresh(items) \in Seq(Cams) /\ IsInjective(listing \o Fresh(items))
         /\ listing = <<>> /\ items # <<>> => Fresh(items) # <<>>
<1>1. PICK places \in SUBSET DOMAIN items :
          places = {i \in FirstPlaces(items) : items[i] \notin ToSet(listing)}
  BY DEF FirstPlaces
<1>2. PICK fresh : fresh = Fresh(items) /\ fresh = Excerpt(items, places)
  BY <1>1 DEF Fresh
<1>3. /\ fresh \in Seq(Cams) /\ ListsPlaces(fresh, items, places)
      /\ fresh = <<>> <=> places = {}
  BY <1>2, ExcerptFacts
<1>4. IsInjective(fresh)
  <2>1. ASSUME NEW i \in DOMAIN fresh, NEW j \in DOMAIN fresh, i < j PROVE fresh[i] # fresh[j]
    <3>1. PICK k \in places, l \in places : k < l /\ items[k] = fresh[i] /\ items[l] = fresh[j]
      BY <1>3, <2>1 DEF ListsPlaces
    <3>2. k \in 1..(l - 1) /\ l \in FirstPlaces(items)
      BY <1>1, <3>1
    <3> QED BY <3>1, <3>2 DEF FirstPlaces
  <2>2. \A i, j \in DOMAIN fresh : i # j => i < j \/ j < i
    BY <1>3
  <2> QED BY <2>1, <2>2 DEF IsInjective
<1>5. \A i \in DOMAIN listing, j \in DOMAIN fresh : listing[i] # fresh[j]
  <2>1. ToSet(fresh) = {items[k] : k \in places}
    BY <1>3 DEF ListsPlaces
  <2> QED BY <1>1, <2>1 DEF ToSet
<1>6. listing \o fresh \in Seq(Cams) /\ IsInjective(listing \o fresh)
  BY <1>3, <1>4, <1>5, InjectiveConcat
<1>7. listing = <<>> /\ items # <<>> => places # {}
  <2> SUFFICES ASSUME listing = <<>>, items # <<>> PROVE 1 \in places
    OBVIOUS
  <2>1. 1 \in DOMAIN items /\ 1..(1 - 1) = {}
    OBVIOUS
  <2> QED BY <1>1, <2>1 DEF FirstPlaces, ToSet
<1> QED BY <1>2, <1>3, <1>6, <1>7

\* Over an Insecam listing that stands still, a page within it is new and a page
\* past its end is not.
LEMMA QuietPage ==
  ASSUME CollectTypes, NEW n \in Nat,
         ListsPlaces(listing, site, {k \in DOMAIN site : k <= n * PerPage})
  PROVE  /\ n * PerPage < Len(site) =>
               /\ Fresh(InsecamPage(n)) # <<>> /\ InsecamPage(n) # <<>>
               /\ ListsPlaces(listing \o Fresh(InsecamPage(n)), site,
                              {k \in DOMAIN site : k <= (n + 1) * PerPage})
         /\ Len(site) <= n * PerPage => Fresh(InsecamPage(n)) = <<>>
<1> DEFINE offset == n * PerPage
           Old == {k \in DOMAIN site : k <= offset}
<1>1. /\ site \in Seq(Cams) /\ IsInjective(site) /\ listing \in Seq(Cams)
      /\ DOMAIN site = 1..Len(site) /\ Len(site) \in Nat
  BY DEF CollectTypes
<1>2. PerPage \in Nat /\ offset \in Nat /\ (n + 1) * PerPage = offset + PerPage
  BY Numbers, Times
<1>3. ToSet(listing) = {site[k] : k \in Old} /\ ListsPlaces(listing, site, Old)
  BY DEF ListsPlaces
<1>4. CASE offset < Len(site)
  <2>1. PICK items : items = Slice(site, offset) /\ items = InsecamPage(n)
    BY <1>4 DEF InsecamPage
  <2>2. /\ items \in Seq(Cams)
        /\ \A i \in DOMAIN items :
              i \in 1..PerPage /\ offset + i \in DOMAIN site /\ items[i] = site[offset + i]
        /\ \A k \in DOMAIN site : offset < k /\ k <= offset + PerPage => k - offset \in DOMAIN items
    BY <1>1, <1>2, <2>1, SliceFacts
  <2>3. FirstPlaces(items) = DOMAIN items
    <3>1. ASSUME NEW i \in DOMAIN items, NEW k \in 1..(i - 1) PROVE items[k] # items[i]
      <4>1. k \in DOMAIN items /\ i \in Nat /\ offset + k # offset + i
        BY <1>2, <2>2
      <4>2. /\ offset + k \in DOMAIN site /\ offset + i \in DOMAIN site
            /\ items[k] = site[offset + k] /\ items[i] = site[offset + i]
        BY <2>2, <4>1
      <4> QED BY <1>1, <4>1, <4>2 DEF IsInjective
    <3> QED BY <3>1 DEF FirstPlaces
  <2>4. \A i \in DOMAIN items : items[i] \notin ToSet(listing)
    <3> TAKE i \in DOMAIN items
    <3>1. offset + i \in DOMAIN site /\ items[i] = site[offset + i] /\ i \in 1..PerPage
      BY <2>2
    <3>2. offset + i \notin Old
      BY <1>2, <3>1
    <3>3. \A k \in Old : k \in DOMAIN site /\ site[k] # site[offset + i]
      BY <1>1, <3>1, <3>2 DEF IsInjective
    <3> QED BY <1>3, <3>1, <3>3
  <2>5. PICK places : places = DOMAIN Slice(site, offset) /\ places = DOMAIN items
    BY <2>1
  <2>6. Fresh(items) = Excerpt(Slice(site, offset), places)
    <3>1. {i \in FirstPlaces(items) : items[i] \notin ToSet(listing)} = places
      BY <2>3, <2>4, <2>5
    <3> QED BY <2>1, <3>1 DEF Fresh
  <2>7. Page(site, offset) = {k \in Page(site, offset) : k - offset \in places}
    <3>1. \A k \in Page(site, offset) : k - offset \in places
      BY <2>2, <2>5 DEF Page
    <3> QED BY <3>1
  <2>8. PICK fresh : fresh = Fresh(items) /\ fresh = Excerpt(Slice(site, offset), places)
    BY <2>6
  <2>9. places \in SUBSET DOMAIN Slice(site, offset)
    BY <2>5
  <2> HIDE DEF offset
  <2>10. fresh \in Seq(Cams) /\ ListsPlaces(fresh, site, Page(site, offset))
    <3>1. PICK Q : Q = Page(site, offset) /\ Q = {k \in Page(site, offset) : k - offset \in places}
      BY <2>7
    <3>2. /\ Excerpt(Slice(site, offset), places) \in Seq(Cams)
          /\ ListsPlaces(Excerpt(Slice(site, offset), places), site, Q)
      BY <1>1, <1>2, <2>9, <3>1, PagePlaces
    <3> QED BY <2>8, <3>1, <3>2
  <2>11. /\ Old \in SUBSET Nat /\ Page(site, offset) \in SUBSET Nat
         /\ \A p \in Old, q \in Page(site, offset) : p < q
         /\ Old \cup Page(site, offset) = {k \in DOMAIN site : k <= offset + PerPage}
    BY <1>1, <1>2 DEF Page
  <2>12. ListsPlaces(listing \o fresh, site, Old \cup Page(site, offset))
    <3> HIDE DEF Old
    <3> QED BY <1>1, <1>3, <2>10, <2>11, ConcatPlaces
  <2>13. ListsPlaces(listing \o Fresh(InsecamPage(n)), site,
                     {k \in DOMAIN site : k <= (n + 1) * PerPage})
    BY <1>2, <2>1, <2>8, <2>11, <2>12
  <2>14. ~(Len(site) <= offset)
    BY <1>1, <1>2, <1>4
  <2>15. Fresh(items) # <<>> /\ items # <<>>
    <3>1. items # <<>>
      BY <1>1, <1>2, <2>1, <2>14, SliceFacts
    <3>2. 1 \in places
      BY <2>2, <2>5, <3>1
    <3>3. Slice(site, offset) \in Seq(Cams)
      BY <2>1, <2>2
    <3>4. Excerpt(Slice(site, offset), places) # <<>>
      BY <2>9, <3>2, <3>3, ExcerptFacts
    <3> QED BY <2>6, <3>1, <3>4
  <2> QED BY <2>1, <2>13, <2>14, <2>15 DEF offset
<1>5. CASE Len(site) <= offset
  <2>0. ~(offset < Len(site))
    BY <1>1, <1>2, <1>5
  <2>1. PICK items : items = Slice(site, 0) /\ items = InsecamPage(n)
    BY <2>0 DEF InsecamPage
  <2>2. /\ items \in Seq(Cams)
        /\ \A i \in DOMAIN items : 0 + i \in DOMAIN site /\ items[i] = site[0 + i]
    <3>1. PICK zero \in Nat : zero = 0
      OBVIOUS
    <3>2. /\ Slice(site, zero) \in Seq(Cams)
          /\ \A i \in DOMAIN Slice(site, zero) :
                 zero + i \in DOMAIN site /\ Slice(site, zero)[i] = site[zero + i]
      BY <1>1, SliceFacts
    <3> QED BY <2>1, <3>1, <3>2
  <2>3. \A i \in DOMAIN items : items[i] \in ToSet(listing)
    <3> TAKE i \in DOMAIN items
    <3>1. PICK k : k = 0 + i /\ k \in DOMAIN site /\ items[i] = site[k]
      BY <2>2
    <3>2. k \in Old
      BY <1>1, <1>2, <1>5, <3>1
    <3> QED BY <1>3, <3>1, <3>2
  <2>4. PICK places \in SUBSET DOMAIN items :
            places = {} /\ places = {i \in FirstPlaces(items) : items[i] \notin ToSet(listing)}
    BY <2>3 DEF FirstPlaces
  <2>5. Excerpt(items, places) = <<>>
    BY <2>2, <2>4, ExcerptFacts
  <2>6. Fresh(InsecamPage(n)) = <<>>
    BY <2>1, <2>4, <2>5 DEF Fresh
  <2> QED BY <2>0, <2>6
<1>6. offset < Len(site) \/ Len(site) <= offset
  BY <1>1, <1>2
<1> QED BY <1>4, <1>5, <1>6

LEMMA TakeFacts ==
  ASSUME CollectTypes, AccountOK, NEW cams \in Seq(Cams), Take(cams), UNCHANGED <<stored, told>>,
         lost => lost', run.phase # "failed", run'.phase # "none"
  PROVE  /\ listing' \in Seq(Cams) /\ batch' \in Seq(Cams)
         /\ listing' = listing \o cams
         /\ listing # <<>> => listing' # <<>>
         /\ cams # <<>> => listing' # <<>>
         /\ run'.phase # "done" => AccountOK'
<1>1. listing' = listing \o cams /\ batch' = batch \o cams /\ stored' = stored /\ told' = told
  BY DEF Take
<1>2. listing \in Seq(Cams) /\ batch \in Seq(Cams)
  BY DEF CollectTypes
<1>3. PICK handed \in Seq(Cams) :
          /\ listing = handed \o batch /\ Len(handed) = told.processed
          /\ ~lost => stored = handed
  BY DEF AccountOK, Handed
<1>4. listing' = handed \o batch'
  <2>1. (handed \o batch) \o cams = handed \o (batch \o cams)
    BY <1>2, ConcatAssociative
  <2> QED BY <1>1, <1>3, <2>1
<1>5. Handed'
  BY <1>1, <1>3, <1>4 DEF Handed
<1>6. CountsOK'
  BY <1>1 DEF AccountOK, CountsOK
<1>7. /\ listing # <<>> => listing \o cams # <<>>
      /\ cams # <<>> => listing \o cams # <<>>
      /\ listing \o cams \in Seq(Cams) /\ batch \o cams \in Seq(Cams)
  BY <1>2
<1> QED BY <1>1, <1>5, <1>6, <1>7 DEF AccountOK

LEMMA ListPageKeeps ==
  ASSUME CollectInv, ListPage
  PROVE  CollectInv'
<1>0. CollectTypes /\ AccountOK /\ PagesOK /\ InsecamListsOnce /\ QuietOK
  BY DEF CollectInv
<1>1. UNCHANGED <<site, stored, told, shifts, lost, refused>>
  BY DEF ListPage
<1>2. /\ run \in Runs /\ run.source = "INSECAM" /\ run.phase = "list" /\ run.start = 0
      /\ run.page < MaxPages /\ (run.page = 0 <=> listing = <<>>)
      /\ run.page \in Nat
  BY <1>0 DEF ListPage, Listing, CollectTypes, PagesOK, Runs
<1>3. /\ site \in Seq(Cams) /\ listing \in Seq(Cams) /\ IsInjective(listing)
      /\ Len(site) \in Nat /\ DOMAIN site = 1..Len(site)
  BY <1>0, <1>2 DEF CollectTypes, InsecamListsOnce
<1>4. PICK items : items = InsecamPage(run.page)
  OBVIOUS
<1>5. items \in Seq(Cams)
  <2>1. run.page * PerPage \in Nat /\ 0 \in Nat
    BY <1>2, Numbers, Times
  <2>2. Slice(site, run.page * PerPage) \in Seq(Cams) /\ Slice(site, 0) \in Seq(Cams)
    BY <1>3, <2>1, SliceFacts
  <2> QED BY <1>4, <2>2 DEF InsecamPage
<1>6. PICK fresh : fresh = Fresh(items)
  OBVIOUS
<1>7. /\ fresh \in Seq(Cams) /\ IsInjective(listing \o fresh)
      /\ listing = <<>> /\ items # <<>> => fresh # <<>>
  BY <1>3, <1>5, <1>6, FreshFacts
<1>8. Take(fresh) /\ AfterInsecamPage(items)
  BY <1>4, <1>6 DEF ListPage
<1>10. \/ /\ items = <<>> /\ run.page = 0 /\ run' = [run EXCEPT !.phase = "failed"]
       \/ /\ (items = <<>> \/ fresh = <<>>)
          /\ run.page # 0 /\ listing # <<>> /\ run' = [run EXCEPT !.phase = "flush"]
       \/ /\ items # <<>> /\ fresh # <<>>
          /\ run' = [run EXCEPT !.page = @ + 1, !.failed = 0,
                                !.phase = IF run.page + 1 = MaxPages THEN "flush" ELSE "list"]
  BY <1>2, <1>6, <1>7, <1>8 DEF AfterInsecamPage, Enter, NextOf
<1>11. /\ run' \in Runs /\ run'.source = "INSECAM" /\ run'.start = 0
       /\ run'.limit = run.limit /\ run'.phase \in {"list", "flush", "failed"}
       /\ \/ run'.phase = "failed"
          \/ /\ (items = <<>> \/ fresh = <<>>)
             /\ run.page # 0 /\ listing # <<>> /\ run'.phase = "flush"
          \/ /\ fresh # <<>> /\ run'.page = run.page + 1
             /\ run'.phase = IF run.page + 1 = MaxPages THEN "flush" ELSE "list"
  <2>1. run.page + 1 \in Nat /\ 0 \in 0..Attempts - 1
    BY <1>2, Numbers
  <2> QED BY <1>2, <1>10, <2>1 DEF Runs
<1>9. /\ listing' \in Seq(Cams) /\ batch' \in Seq(Cams) /\ listing' = listing \o fresh
      /\ listing # <<>> => listing' # <<>>
      /\ fresh # <<>> => listing' # <<>>
      /\ AccountOK'
  BY <1>0, <1>1, <1>2, <1>7, <1>8, <1>11, TakeFacts
<1>12. CollectTypes'
  BY <1>0, <1>1, <1>9, <1>11 DEF CollectTypes
<1>13. AccountOK'
  BY <1>9
<1>14. PagesOK'
  <2>1. /\ run.page + 1 # 0
        /\ run.page + 1 = MaxPages \/ run.page + 1 < MaxPages
    BY <1>2, Numbers
  <2>2. /\ run'.phase = "list" => run'.page < MaxPages /\ (run'.page = 0 <=> listing' = <<>>)
        /\ run'.phase \in {"flush", "done"} => listing' # <<>>
    BY <1>9, <1>11, <2>1
  <2>3. refused' => run'.limit < OffsetLimit
    BY <1>0, <1>1, <1>11 DEF PagesOK
  <2> QED BY <1>11, <2>2, <2>3 DEF PagesOK
<1>15. InsecamListsOnce'
  BY <1>7, <1>9 DEF InsecamListsOnce
<1>16. QuietOK'
  <2> SUFFICES ASSUME shifts = 0, ~lost PROVE QuietOK'
    BY <1>1 DEF QuietOK
  <2>1. ListsPlaces(listing, site, {k \in DOMAIN site : k <= run.page * PerPage})
    BY <1>0, <1>2 DEF QuietOK, Passed
  <2>2. /\ run.page * PerPage < Len(site) =>
               /\ fresh # <<>> /\ items # <<>>
               /\ ListsPlaces(listing', site, {k \in DOMAIN site : k <= (run.page + 1) * PerPage})
        /\ Len(site) <= run.page * PerPage => fresh = <<>>
    BY <1>0, <1>2, <1>4, <1>6, <1>9, <2>1, QuietPage
  <2>3. PICK offset \in Nat, far \in Nat :
             /\ offset = run.page * PerPage /\ far = MaxPages * PerPage /\ offset <= far
    BY <1>2, Numbers, Times
  <2>4. run'.phase = "flush" => Within' = {k \in DOMAIN site : k <= far}
    BY <1>1, <1>11, <2>3 DEF Within
  <2>5. CASE fresh # <<>> /\ items # <<>>
    <3>0. offset < Len(site)
      BY <1>3, <2>2, <2>3, <2>5
    <3>1. ListsPlaces(listing', site, {k \in DOMAIN site : k <= (run.page + 1) * PerPage})
      BY <2>2, <2>3, <3>0
    <3>2. run'.phase = "list" => Passed' = {k \in DOMAIN site : k <= (run.page + 1) * PerPage}
      BY <1>1, <1>11, <2>5 DEF Passed
    <3>3. run'.phase = "flush" => Within' = {k \in DOMAIN site : k <= (run.page + 1) * PerPage}
      BY <1>11, <2>3, <2>4, <2>5
    <3> QED BY <1>1, <1>11, <3>1, <3>2, <3>3 DEF QuietOK
  <2>6. CASE ~(fresh # <<>> /\ items # <<>>)
    <3>1. ~(offset < Len(site)) /\ Len(site) <= offset
      BY <1>3, <2>2, <2>3, <2>6
    <3>2. fresh = <<>>
      BY <2>2, <2>3, <3>1
    <3>5. listing' = listing
      BY <1>3, <1>9, <3>2, ConcatEmptySeq
    <3>3. {k \in DOMAIN site : k <= offset} = {k \in DOMAIN site : k <= far}
      BY <1>3, <2>3, <3>1
    <3>4. run'.phase \in {"flush", "failed"}
      BY <1>11, <3>2
    <3> QED BY <1>1, <1>11, <2>1, <2>3, <2>4, <3>3, <3>4, <3>5 DEF QuietOK
  <2> QED BY <2>5, <2>6
<1> QED BY <1>12, <1>13, <1>14, <1>15, <1>16 DEF CollectInv
-----------------------------------------------------------------------------
\* Windy and WhatsUpCams

\* What is kept of a page, behind what was kept of the pages before.
LEMMA KeptPlaces ==
  ASSUME NEW s \in Seq(Cams), NEW offset \in Nat, NEW cams
  PROVE  /\ Keep(Slice(s, offset), cams) \in Seq(Cams)
         /\ \A list \in Seq(Cams), P \in SUBSET (1..offset) :
               ListsPlaces(list, s, P) =>
                  ListsPlaces(list \o Keep(Slice(s, offset), cams), s,
                              P \cup {k \in Page(s, offset) : s[k] \in cams})
<1>0. PICK t : t = Slice(s, offset)
  OBVIOUS
<1>1. /\ t \in Seq(Cams)
      /\ \A i \in DOMAIN t : i \in 1..PerPage /\ offset + i \in DOMAIN s /\ t[i] = s[offset + i]
      /\ \A k \in DOMAIN s : offset < k /\ k <= offset + PerPage => k - offset \in DOMAIN t
  BY <1>0, SliceFacts
<1>2. PICK places \in SUBSET DOMAIN t : places = {i \in DOMAIN t : t[i] \in cams}
  OBVIOUS
<1>3. PICK Q : Q = {k \in Page(s, offset) : s[k] \in cams}
  OBVIOUS
<1>4. Q = {k \in Page(s, offset) : k - offset \in places}
  <2> SUFFICES ASSUME NEW k \in Page(s, offset) PROVE s[k] \in cams <=> k - offset \in places
    BY <1>3
  <2>1. k \in Nat /\ k \in DOMAIN s /\ k - offset \in DOMAIN t /\ offset + (k - offset) = k
    BY <1>1 DEF Page
  <2>2. t[k - offset] = s[k]
    BY <1>1, <2>1
  <2> QED BY <1>2, <2>1, <2>2
<1>5. PICK kept : kept = Keep(t, cams) /\ kept = Excerpt(Slice(s, offset), places)
  BY <1>0, <1>2 DEF Keep
<1>6. kept \in Seq(Cams) /\ ListsPlaces(kept, s, Q)
  <2>1. places \in SUBSET DOMAIN Slice(s, offset)
    BY <1>0
  <2>2. /\ Excerpt(Slice(s, offset), places) \in Seq(Cams)
        /\ ListsPlaces(Excerpt(Slice(s, offset), places), s, Q)
    BY <1>4, <2>1, PagePlaces
  <2> QED BY <1>5, <2>2
<1>7. ASSUME NEW list \in Seq(Cams), NEW P \in SUBSET (1..offset), ListsPlaces(list, s, P)
      PROVE  ListsPlaces(list \o kept, s, P \cup Q)
  <2>1. P \in SUBSET Nat /\ Q \in SUBSET Nat /\ \A p \in P, q \in Q : p < q
    BY <1>3 DEF Page
  <2> QED BY <1>6, <1>7, <2>1, ConcatPlaces
<1> QED BY <1>0, <1>3, <1>5, <1>6, <1>7

LEMMA Offsets ==
  ASSUME NEW a \in Nat, NEW x \in Nat, NEW y \in Nat, x <= y, NEW p \in Nat \ {0}
  PROVE  /\ a * p \in Nat /\ (a + x) * p \in Nat /\ (a + y) * p \in Nat
         /\ (a + (x + 1)) * p = (a + x) * p + p
         /\ a * p <= (a + x) * p /\ (a + x) * p <= (a + y) * p
         /\ x < y => (a + x) * p + p <= (a + y) * p
<1>1. PICK b \in Nat, c \in Nat, d \in Nat :
          b = a + x /\ c = a + y /\ d = a + (x + 1) /\ d = b + 1 /\ a <= b /\ b <= c
          /\ (x < y => d <= c)
  <2>1. a + x \in Nat /\ a + y \in Nat /\ a + (x + 1) \in Nat /\ a + (x + 1) = (a + x) + 1
        /\ a <= a + x /\ a + x <= a + y /\ (x < y => a + (x + 1) <= a + y)
    OBVIOUS
  <2> QED BY <2>1
<1>2. /\ a * p \in Nat /\ b * p \in Nat /\ c * p \in Nat /\ a * p <= b * p /\ b * p <= c * p
      /\ d * p = b * p + p /\ (d <= c => d * p <= c * p)
  BY <1>1, Times
<1> QED BY <1>1, <1>2

LEMMA WindyKeeps ==
  ASSUME CollectInv, WindyPage
  PROVE  CollectInv'
<1>0. CollectTypes /\ AccountOK /\ PagesOK /\ InsecamListsOnce /\ QuietOK
  BY DEF CollectInv
<1>1. UNCHANGED <<site, stored, told, shifts>>
  BY DEF WindyPage
<1>p. PICK pages \in Nat : pages = PagesUntilOffsetLimit(run.start)
  BY <1>0, PagesUntil DEF CollectTypes, Runs
<1>2. /\ run \in Runs /\ run.source = "WINDY" /\ run.phase = "list"
      /\ run.page <= pages /\ run.page \in Nat /\ run.start \in Nat /\ run.limit \in Nat
  BY <1>0, <1>p DEF WindyPage, Listing, CollectTypes, PagesOK, Runs
<1>3. /\ site \in Seq(Cams) /\ listing \in Seq(Cams) /\ batch \in Seq(Cams)
      /\ Len(site) \in Nat /\ DOMAIN site = 1..Len(site) /\ lost \in BOOLEAN
  BY <1>0 DEF CollectTypes
<1>4. PICK first \in Nat, offset \in Nat, end \in Nat, p \in Nat \ {0} :
          /\ p = PerPage /\ first = run.start * p /\ offset = (run.start + run.page) * p
          /\ end = (run.start + pages) * p /\ offset <= end
          /\ (run.start + (run.page + 1)) * p = offset + p
          /\ first <= offset
          /\ run.page < pages => offset + p <= end
  <2>1. PICK p \in Nat \ {0} : p = PerPage
    BY Numbers
  <2>2. PICK a \in Nat, x \in Nat : a = run.start /\ x = run.page /\ x <= pages
    BY <1>2
  <2>3. /\ a * p \in Nat /\ (a + x) * p \in Nat /\ (a + pages) * p \in Nat
        /\ (a + (x + 1)) * p = (a + x) * p + p
        /\ a * p <= (a + x) * p /\ (a + x) * p <= (a + pages) * p
        /\ x < pages => (a + x) * p + p <= (a + pages) * p
    BY <2>2, Offsets
  <2> QED BY <2>1, <2>2, <2>3
<1>5. Within = {k \in DOMAIN site : first < k /\ k <= end /\ site[k] \in Playable}
  BY <1>p, <1>2, <1>4 DEF Within
<1>6. Passed = {k \in DOMAIN site : first < k /\ k <= offset /\ site[k] \in Playable}
  BY <1>2, <1>4 DEF Passed
<1>7. Offset = offset
  BY <1>4 DEF Offset
<1>8. ASSUME run.page >= PagesUntilOffsetLimit(run.start) PROVE CollectInv'
  <2>1. run' = [run EXCEPT !.phase = "flush"] /\ UNCHANGED <<listing, batch, lost, refused>>
    BY <1>8 DEF WindyPage, Enter
  <2>2. /\ run' \in Runs /\ run'.source = "WINDY" /\ run'.phase = "flush" /\ run'.start = run.start
        /\ run'.limit = run.limit
    BY <1>2, <2>1 DEF Runs
  <2>3. CollectTypes' /\ AccountOK' /\ PagesOK' /\ InsecamListsOnce'
    <3>1. CollectTypes'
      BY <1>0, <1>1, <2>1, <2>2 DEF CollectTypes
    <3>2. AccountOK'
      BY <1>0, <1>1, <1>2, <2>1, <2>2 DEF AccountOK, Handed, CountsOK
    <3>3. PagesOK'
      BY <1>0, <2>1, <2>2 DEF PagesOK
    <3> QED BY <2>2, <3>1, <3>2, <3>3 DEF InsecamListsOnce
  <2>4. Within' = Within
    BY <1>1, <1>2, <2>2 DEF Within, PagesUntilOffsetLimit
  <2>5. Within = Passed
    <3>1. offset = end
      <4>1. run.page = pages
        BY <1>p, <1>2, <1>8
      <4> QED BY <1>4, <4>1
    <3> QED BY <1>5, <1>6, <3>1
  <2>6. QuietOK'
    BY <1>0, <1>1, <1>2, <2>1, <2>2, <2>4, <2>5 DEF QuietOK
  <2> QED BY <2>3, <2>6 DEF CollectInv
<1>9. ASSUME ~(run.page >= PagesUntilOffsetLimit(run.start)), Offset > run.limit PROVE CollectInv'
  <2>1. /\ run' = [run EXCEPT !.phase = "flush"] /\ lost' = TRUE /\ refused' = TRUE
        /\ UNCHANGED <<listing, batch>>
    BY <1>9 DEF WindyPage, Enter
  <2>2. /\ run' \in Runs /\ run'.source = "WINDY" /\ run'.phase = "flush" /\ run'.start = run.start
        /\ run'.limit = run.limit
    BY <1>2, <2>1 DEF Runs
  <2>3. run.limit < OffsetLimit
    <3>1. run.start + run.page \in Nat /\ run.start <= run.start + run.page
          /\ run.start + run.page < run.start + pages
      BY <1>p, <1>2, <1>9
    <3>2. (run.start + run.page) * PerPage <= OffsetLimit
      BY <1>p, <1>2, <3>1, PagesUntil
    <3>3. offset <= OffsetLimit /\ OffsetLimit \in Nat
      BY <1>4, <3>2, Numbers
    <3> QED BY <1>2, <1>7, <1>9, <3>3
  <2>4. CollectTypes'
    BY <1>0, <1>1, <2>1, <2>2 DEF CollectTypes
  <2>5. AccountOK'
    BY <1>0, <1>1, <1>2, <2>1, <2>2 DEF AccountOK, Handed, CountsOK
  <2>6. PagesOK'
    BY <2>1, <2>2, <2>3 DEF PagesOK
  <2>7. InsecamListsOnce' /\ QuietOK'
    BY <2>1, <2>2 DEF InsecamListsOnce, QuietOK
  <2> QED BY <2>4, <2>5, <2>6, <2>7 DEF CollectInv
<1>10. ASSUME ~(run.page >= PagesUntilOffsetLimit(run.start)), ~(Offset > run.limit) PROVE CollectInv'
  <2>1. PICK items : items = Slice(site, Offset)
    OBVIOUS
  <2>2. PICK found \in SUBSET Asked(items) :
            /\ Take(Playing(items, found))
            /\ lost' = (lost \/ found # Asked(items))
            /\ IF Len(items) < PerPage THEN Enter("flush")
               ELSE run' = [run EXCEPT !.page = @ + 1, !.failed = 0]
            /\ UNCHANGED refused
    BY <1>10, <2>1 DEF WindyPage
  <2>3. PICK cams : cams = Live \cup (found \cap LiveInDetail)
    OBVIOUS
  <2>4. PICK kept \in Seq(Cams) : kept = Playing(items, found) /\ kept = Keep(Slice(site, offset), cams)
    <3>1. Keep(Slice(site, offset), cams) \in Seq(Cams)
      BY <1>3, KeptPlaces
    <3> QED BY <1>7, <2>1, <2>3, <3>1 DEF Playing
  <2>6. /\ run' \in Runs /\ run'.source = "WINDY" /\ run'.start = run.start
        /\ run'.limit = run.limit /\ run'.phase \in {"list", "flush"}
        /\ run'.phase = "list" => run'.page = run.page + 1 /\ ~(Len(items) < PerPage)
        /\ run'.phase = "flush" => Len(items) < PerPage
    <3>1. run.page + 1 \in Nat /\ 0 \in 0..Attempts - 1
      BY <1>2, Numbers
    <3>2. CASE Len(items) < PerPage
      <4>1. run' = [run EXCEPT !.phase = "flush"]
        BY <2>2, <3>2 DEF Enter
      <4> QED BY <1>2, <3>2, <4>1 DEF Runs
    <3>3. CASE ~(Len(items) < PerPage)
      <4>1. run' = [run EXCEPT !.page = @ + 1, !.failed = 0]
        BY <2>2, <3>3
      <4> QED BY <1>2, <3>1, <3>3, <4>1 DEF Runs
    <3> QED BY <3>2, <3>3
  <2>5. /\ listing' \in Seq(Cams) /\ batch' \in Seq(Cams) /\ listing' = listing \o kept
        /\ AccountOK'
    BY <1>0, <1>1, <1>2, <2>2, <2>4, <2>6, TakeFacts
  <2>7. CollectTypes'
    <3>1. lost' \in BOOLEAN
      BY <2>2
    <3> QED BY <1>0, <1>1, <2>2, <2>5, <2>6, <3>1 DEF CollectTypes
  <2>8. AccountOK'
    BY <2>5
  <2>9. PagesOK'
    <3>1. run.page + 1 <= pages
      BY <1>p, <1>2, <1>10
    <3>2. PagesUntilOffsetLimit(run'.start) = pages
      BY <1>p, <2>6
    <3>3. PagesUntilOffsetLimit(run.start)' = PagesUntilOffsetLimit(run'.start)
      BY DEF PagesUntilOffsetLimit
    <3>4. refused' => run'.limit < OffsetLimit
      BY <1>0, <2>2, <2>6 DEF PagesOK
    <3> QED BY <2>6, <3>1, <3>2, <3>3, <3>4 DEF PagesOK
  <2>10. InsecamListsOnce'
    BY <2>6 DEF InsecamListsOnce
  <2>11. QuietOK'
    <3> SUFFICES ASSUME shifts = 0, ~lost, found = Asked(items) PROVE QuietOK'
      BY <1>1, <2>2 DEF QuietOK
    <3>1. ListsPlaces(listing, site, Passed)
      BY <1>0, <1>2 DEF QuietOK
    <3>2. Passed \in SUBSET (1..offset)
      BY <1>3, <1>6
    <3>3. ListsPlaces(listing', site, Passed \cup {k \in Page(site, offset) : site[k] \in cams})
      <4>1. \A list \in Seq(Cams), P \in SUBSET (1..offset) :
               ListsPlaces(list, site, P) =>
                  ListsPlaces(list \o kept, site, P \cup {k \in Page(site, offset) : site[k] \in cams})
        BY <1>3, <2>4, KeptPlaces
      <4> QED BY <1>3, <2>5, <3>1, <3>2, <4>1
    <3>4. \A k \in Page(site, offset) : site[k] \in cams <=> site[k] \in Playable
      <4> TAKE k \in Page(site, offset)
      <4>0. items = Slice(site, offset)
        BY <1>7, <2>1
      <4>1. /\ k - offset \in DOMAIN items /\ offset + (k - offset) = k
            /\ \A i \in DOMAIN items : items[i] = site[offset + i]
        <5>1. /\ \A i \in DOMAIN Slice(site, offset) : Slice(site, offset)[i] = site[offset + i]
              /\ \A l \in DOMAIN site :
                    offset < l /\ l <= offset + PerPage => l - offset \in DOMAIN Slice(site, offset)
          BY <1>3, SliceFacts
        <5>2. k \in DOMAIN site /\ k \in Nat /\ offset < k /\ k <= offset + PerPage
          BY <1>3 DEF Page
        <5> QED BY <4>0, <5>1, <5>2
      <4>2. site[k] \in ToSet(items)
        BY <4>1 DEF ToSet
      <4> QED BY <2>3, <4>2 DEF Asked, Playable
    <3>5. Passed \cup {k \in Page(site, offset) : site[k] \in cams}
              = {k \in DOMAIN site : first < k /\ k <= offset + p /\ site[k] \in Playable}
      BY <1>3, <1>4, <1>6, <3>4 DEF Page
    <3>6. run'.phase = "list" =>
              Passed' = {k \in DOMAIN site : first < k /\ k <= offset + p /\ site[k] \in Playable}
      <4> SUFFICES ASSUME run'.phase = "list" PROVE
              Passed' = {k \in DOMAIN site : first < k /\ k <= offset + p /\ site[k] \in Playable}
        OBVIOUS
      <4>1. run'.start * PerPage = first /\ (run'.start + run'.page) * PerPage = offset + p
        BY <1>4, <2>6
      <4> QED BY <1>1, <2>6, <4>1 DEF Passed, Playable
    <3>7. run'.phase = "flush" =>
              Within' = {k \in DOMAIN site : first < k /\ k <= offset + p /\ site[k] \in Playable}
      <4> SUFFICES ASSUME run'.phase = "flush" PROVE
              Within' = {k \in DOMAIN site : first < k /\ k <= offset + p /\ site[k] \in Playable}
        OBVIOUS
      <4>1. Within' = Within
        BY <1>1, <1>2, <2>6 DEF Within, Playable, PagesUntilOffsetLimit
      <4>2. Len(site) < offset + p
        BY <1>3, <1>4, <1>7, <2>1, <2>6, SliceFacts
      <4>3. offset + p <= end
        BY <1>p, <1>2, <1>4, <1>10
      <4>4. \A k \in DOMAIN site : k <= end <=> k <= offset + p
        BY <1>3, <4>2, <4>3
      <4> QED BY <1>5, <4>1, <4>4
    <3> QED BY <1>1, <2>6, <3>3, <3>5, <3>6, <3>7 DEF QuietOK
  <2> QED BY <2>7, <2>8, <2>9, <2>10, <2>11 DEF CollectInv
<1> QED BY <1>8, <1>9, <1>10

LEMMA StreamsKeep ==
  ASSUME CollectInv, ListStreams
  PROVE  CollectInv'
<1>0. CollectTypes /\ AccountOK /\ PagesOK /\ QuietOK
  BY DEF CollectInv
<1>1. UNCHANGED <<site, listing, batch, stored, told, shifts, lost, refused>>
  BY DEF ListStreams
<1>2. /\ run \in Runs /\ run.source = "WHATSUPCAMS" /\ run.phase = "list" /\ run.page = 0
      /\ site \in Seq(Cams)
  BY <1>0 DEF ListStreams, Listing, CollectTypes
<1>3. /\ run' \in Runs /\ run'.source = "WHATSUPCAMS" /\ run'.limit = run.limit /\ run'.page = 1
      /\ run'.ids = site /\ run'.phase = IF site = <<>> THEN "flush" ELSE "list"
  BY <1>2 DEF ListStreams, Runs
<1>4. CollectTypes'
  BY <1>0, <1>1, <1>3 DEF CollectTypes
<1>5. AccountOK'
  BY <1>0, <1>1, <1>2, <1>3 DEF AccountOK, Handed, CountsOK
<1>6. PagesOK'
  BY <1>0, <1>1, <1>3 DEF PagesOK
<1>7. InsecamListsOnce'
  BY <1>3 DEF InsecamListsOnce
<1>8. QuietOK'
  <2>1. DOMAIN site \in SUBSET (Nat \ {0}) /\ (1 - 1) * PerPage = 0
    BY <1>2, Numbers, Times
  <2>2. Passed = {} /\ Passed' = {}
    BY <1>1, <1>2, <1>3, <2>1 DEF Passed
  <2>3. site = <<>> => Within' = {}
    BY <1>1, <1>3 DEF Within
  <2> QED BY <1>0, <1>1, <1>2, <1>3, <2>2, <2>3 DEF QuietOK
<1> QED BY <1>4, <1>5, <1>6, <1>7, <1>8 DEF CollectInv

LEMMA ChunkKeeps ==
  ASSUME CollectInv, ResolveChunk
  PROVE  CollectInv'
<1>0. CollectTypes /\ AccountOK /\ PagesOK /\ QuietOK
  BY DEF CollectInv
<1>1. UNCHANGED <<site, stored, told, shifts, refused>>
  BY DEF ResolveChunk
<1>2. /\ run \in Runs /\ run.source = "WHATSUPCAMS" /\ run.phase = "list"
      /\ run.page \in Nat /\ run.page > 0 /\ run.ids \in Seq(Cams)
      /\ site \in Seq(Cams) /\ listing \in Seq(Cams)
      /\ Len(site) \in Nat /\ DOMAIN site = 1..Len(site) /\ lost \in BOOLEAN
  BY <1>0 DEF ResolveChunk, Listing, CollectTypes, Runs
<1>3. PICK offset \in Nat, p \in Nat : /\ p = PerPage /\ offset = (run.page - 1) * p
                                       /\ run.page * p = offset + p
  <2>1. PICK n \in Nat, p \in Nat \ {0} : n = run.page - 1 /\ run.page = n + 1 /\ p = PerPage
    BY <1>2, Numbers
  <2>2. n * p \in Nat /\ (n + 1) * p = n * p + p
    BY Times
  <2> QED BY <2>1, <2>2
<1>4. PICK chunk : chunk = Slice(run.ids, offset)
  OBVIOUS
<1>5. PICK raised \in SUBSET ToSet(chunk) :
          Take(Keep(chunk, Cams \ raised)) /\ lost' = (lost \/ raised # {})
  BY <1>3, <1>4 DEF ResolveChunk
<1>6. PICK kept \in Seq(Cams) : kept = Keep(chunk, Cams \ raised)
  <2>1. Keep(Slice(run.ids, offset), Cams \ raised) \in Seq(Cams)
    BY <1>2, KeptPlaces
  <2> QED BY <1>4, <2>1
<1>8. /\ run' \in Runs /\ run'.source = "WHATSUPCAMS" /\ run'.limit = run.limit
      /\ run'.page = run.page + 1 /\ run'.ids = run.ids
      /\ run'.phase = IF run.page * PerPage >= Len(run.ids) THEN "flush" ELSE "list"
  <2>1. run.page + 1 \in Nat
    BY <1>2
  <2>2. PICK next \in {"flush", "list"} :
            /\ run' = [run EXCEPT !.page = @ + 1, !.phase = next]
            /\ next = IF run.page * PerPage >= Len(run.ids) THEN "flush" ELSE "list"
    BY DEF ResolveChunk
  <2> QED BY <1>2, <2>1, <2>2 DEF Runs
<1>7. /\ listing' \in Seq(Cams) /\ batch' \in Seq(Cams) /\ listing' = listing \o kept
      /\ AccountOK'
  BY <1>0, <1>1, <1>2, <1>5, <1>6, <1>8, TakeFacts
<1>9. CollectTypes'
  <2>1. lost' \in BOOLEAN
    BY <1>5
  <2> QED BY <1>0, <1>1, <1>7, <1>8, <2>1 DEF CollectTypes
<1>10. AccountOK'
  BY <1>7
<1>11. PagesOK'
  BY <1>0, <1>1, <1>8 DEF PagesOK
<1>12. InsecamListsOnce'
  BY <1>8 DEF InsecamListsOnce
<1>13. QuietOK'
  <2> SUFFICES ASSUME shifts = 0, ~lost, raised = {} PROVE QuietOK'
    BY <1>1, <1>5 DEF QuietOK
  <2>1. run.ids = site /\ ListsPlaces(listing, site, Passed)
    BY <1>0, <1>2 DEF QuietOK
  <2>2. Passed = {k \in DOMAIN site : k <= offset}
    BY <1>2, <1>3 DEF Passed
  <2>3. ListsPlaces(listing', site, Passed \cup {k \in Page(site, offset) : site[k] \in Cams})
    <3>1. kept = Keep(Slice(site, offset), Cams)
      BY <1>4, <1>6, <2>1
    <3>2. \A list \in Seq(Cams), P \in SUBSET (1..offset) :
             ListsPlaces(list, site, P) =>
                ListsPlaces(list \o kept, site, P \cup {k \in Page(site, offset) : site[k] \in Cams})
      BY <1>2, <3>1, KeptPlaces
    <3>3. Passed \in SUBSET (1..offset)
      BY <1>2, <2>2
    <3> QED BY <1>2, <1>7, <2>1, <3>2, <3>3
  <2>4. Passed \cup {k \in Page(site, offset) : site[k] \in Cams}
            = {k \in DOMAIN site : k <= offset + p}
    BY <1>2, <1>3, <2>2 DEF Page
  <2>5. Passed' = {k \in DOMAIN site : k <= offset + p}
    <3>1. run'.page > 0 /\ (run'.page - 1) * PerPage = offset + p
      <4>1. run.page + 1 > 0 /\ (run.page + 1) - 1 = run.page
        BY <1>2
      <4> QED BY <1>3, <1>8, <4>1
    <3> QED BY <1>1, <1>8, <3>1 DEF Passed
  <2>6. run'.phase = "flush" => Within' = {k \in DOMAIN site : k <= offset + p}
    <3> SUFFICES ASSUME run'.phase = "flush" PROVE Within' = {k \in DOMAIN site : k <= offset + p}
      OBVIOUS
    <3>1. offset + p >= Len(site)
      BY <1>3, <1>8, <2>1
    <3>2. Within' = DOMAIN site
      BY <1>1, <1>8 DEF Within
    <3> QED BY <1>2, <3>1, <3>2
  <2> QED BY <1>1, <1>8, <2>1, <2>3, <2>4, <2>5, <2>6 DEF QuietOK
<1> QED BY <1>9, <1>10, <1>11, <1>12, <1>13 DEF CollectInv
-----------------------------------------------------------------------------
\* Failures, storing and the end

LEMMA FailureKeeps ==
  ASSUME CollectInv, RequestFails
  PROVE  CollectInv'
<1>0. CollectTypes /\ AccountOK /\ PagesOK /\ InsecamListsOnce /\ QuietOK
  BY DEF CollectInv
<1>1. UNCHANGED <<site, listing, batch, stored, told, shifts, refused>>
  BY DEF RequestFails
<1>2. /\ run \in Runs /\ run.phase = "list" /\ run.source \in {"INSECAM", "WINDY", "WHATSUPCAMS"}
      /\ run.page \in Nat /\ run.failed \in 0..Attempts - 1
  BY <1>0 DEF RequestFails, Listing, CollectTypes, Runs
<1>3. ASSUME run.failed + 1 < Attempts PROVE CollectInv'
  <2>1. run' = [run EXCEPT !.failed = run.failed + 1] /\ UNCHANGED lost
    BY <1>3 DEF RequestFails
  <2>2. run.failed + 1 \in 0..Attempts - 1
    BY <1>2, <1>3, Numbers
  <2>3. /\ run' \in Runs /\ run'.source = run.source /\ run'.phase = run.phase
        /\ run'.start = run.start /\ run'.page = run.page /\ run'.limit = run.limit /\ run'.ids = run.ids
    BY <1>2, <2>1, <2>2 DEF Runs
  <2>4. CollectTypes'
    BY <1>0, <1>1, <2>1, <2>3 DEF CollectTypes
  <2>5. AccountOK' /\ InsecamListsOnce'
    BY <1>0, <1>1, <2>1, <2>3 DEF AccountOK, Handed, CountsOK, InsecamListsOnce
  <2>6. PagesOK'
    <3>1. PagesUntilOffsetLimit(run.start)' = PagesUntilOffsetLimit(run.start)
      BY <2>3 DEF PagesUntilOffsetLimit
    <3> QED BY <1>0, <1>1, <1>2, <2>3, <3>1 DEF PagesOK
  <2>7. QuietOK'
    <3>1. Passed' = Passed
      BY <1>1, <2>3 DEF Passed, Playable
    <3> QED BY <1>0, <1>1, <1>2, <2>1, <2>3, <3>1 DEF QuietOK
  <2> QED BY <2>4, <2>5, <2>6, <2>7 DEF CollectInv
<1>4. ASSUME ~(run.failed + 1 < Attempts) PROVE CollectInv'
  <2>1. PICK end \in {"failed", "flush"} :
            /\ run' = [run EXCEPT !.phase = end]
            /\ run.source = "INSECAM" /\ end = "flush" => run.page # 0
    BY <1>4 DEF RequestFails, GiveUp, Enter
  <2>2. lost' = TRUE
    BY <1>4 DEF RequestFails
  <2>3. /\ run' \in Runs /\ run'.source = run.source /\ run'.phase = end
        /\ run'.start = run.start /\ run'.page = run.page /\ run'.limit = run.limit
    BY <1>2, <2>1 DEF Runs
  <2>4. CollectTypes'
    BY <1>0, <1>1, <2>2, <2>3 DEF CollectTypes
  <2>5. AccountOK'
    BY <1>0, <1>1, <1>2, <2>1, <2>2, <2>3 DEF AccountOK, Handed, CountsOK
  <2>6. PagesOK'
    BY <1>0, <1>1, <1>2, <2>1, <2>3 DEF PagesOK
  <2>7. InsecamListsOnce' /\ QuietOK'
    BY <1>0, <1>1, <2>2, <2>3 DEF InsecamListsOnce, QuietOK
  <2> QED BY <2>4, <2>5, <2>6, <2>7 DEF CollectInv
<1> QED BY <1>3, <1>4

\* The cameras that go to the catalogue next, and those of them it took.
LEMMA NextBatchFacts ==
  ASSUME CollectTypes
  PROVE  \E n \in Nat, head \in Seq(Cams), rest \in Seq(Cams) :
            /\ n = Len(NextBatch) /\ n <= BatchSize /\ head = NextBatch /\ batch = head \o rest
            /\ rest = SubSeq(batch, n + 1, Len(batch))
<1>1. batch \in Seq(Cams)
  BY DEF CollectTypes
<1>2. PICK z \in Nat, size \in Nat : z = Len(batch) /\ size = BatchSize
  BY <1>1, Numbers
<1>3. PICK n \in Nat : n = (IF ~Due THEN 0 ELSE IF z < size THEN z ELSE size) /\ n <= z /\ n <= size
  <2>1. /\ (IF ~Due THEN 0 ELSE IF z < size THEN z ELSE size) \in Nat
        /\ (IF ~Due THEN 0 ELSE IF z < size THEN z ELSE size) <= z
        /\ (IF ~Due THEN 0 ELSE IF z < size THEN z ELSE size) <= size
    <3> HIDE DEF Due
    <3> QED OBVIOUS
  <2> QED BY <2>1
<1>4. /\ \A i \in 1..n : batch[i] \in Cams
      /\ \A i \in (n + 1)..z : batch[i] \in Cams
  <2>1. \A i \in 1..z : batch[i] \in Cams
    BY <1>1, <1>2
  <2> QED BY <1>3, <2>1
<1>5. PICK head \in Seq(Cams), rest \in Seq(Cams) :
          /\ head = SubSeq(batch, 1, n) /\ rest = SubSeq(batch, n + 1, z) /\ Len(head) = n
  <2>1. /\ SubSeq(batch, 1, n) \in Seq(Cams) /\ SubSeq(batch, n + 1, z) \in Seq(Cams)
        /\ Len(SubSeq(batch, 1, n)) = IF 1 <= n THEN n - 1 + 1 ELSE 0
    BY <1>4, SubSeqProperties
  <2>2. (IF 1 <= n THEN n - 1 + 1 ELSE 0) = n
    OBVIOUS
  <2> QED BY <2>1, <2>2
<1>6. batch = head \o rest
  <2>1. SubSeq(batch, 1, n) \o SubSeq(batch, n + 1, z) = SubSeq(batch, 1, z)
    <3>1. z \in n..Len(batch) /\ 1 \in 1..Len(batch) + 1 /\ n \in 1 - 1..Len(batch)
      BY <1>2, <1>3
    <3> QED BY <1>1, <3>1, ConcatAdjacentSubSeq
  <2>2. SubSeq(batch, 1, z) = batch
    BY <1>1, <1>2, SubSeqFull
  <2> QED BY <1>5, <2>1, <2>2
<1>7. head = NextBatch
  <2>1. CASE Due
    BY <1>2, <1>3, <1>5, <2>1 DEF NextBatch
  <2>2. CASE ~Due
    <3>1. Len(head) = 0
      BY <1>3, <1>5, <2>2
    <3>2. head = <<>>
      BY <3>1
    <3> QED BY <2>2, <3>2 DEF NextBatch
  <2> QED BY <2>1, <2>2
<1> QED BY <1>2, <1>3, <1>5, <1>6, <1>7

LEMMA UpsertedFacts ==
  ASSUME CollectTypes, NEW kept \in SUBSET (1..Len(NextBatch)), Upserted(kept)
  PROVE  /\ stored' \in Seq(Cams) /\ Cardinality(kept) \in Nat
         /\ Len(stored') = Len(stored) + Cardinality(kept)
         /\ Cardinality(kept) <= Len(NextBatch) /\ Cardinality(kept) <= BatchSize
         /\ kept = 1..Len(NextBatch) => stored' = stored \o NextBatch
<1>1. PICK n \in Nat, head \in Seq(Cams) : n = Len(NextBatch) /\ n <= BatchSize /\ head = NextBatch
  BY NextBatchFacts
<1>2. /\ DOMAIN head = 1..n /\ IsFiniteSet(1..n) /\ Cardinality(1..n) = n
      /\ kept \in SUBSET DOMAIN head
  BY <1>1, UpTo
<1>3. PICK part \in Seq(Cams) :
          /\ part = Excerpt(NextBatch, kept) /\ Len(part) = Cardinality(kept)
          /\ kept = 1..n => part = NextBatch
  <2>1. Excerpt(head, kept) \in Seq(Cams) /\ Len(Excerpt(head, kept)) = Cardinality(kept)
    BY <1>2, ExcerptFacts
  <2>2. kept = 1..n => Excerpt(head, kept) = head
    BY <1>2, ExcerptWhole
  <2> QED BY <1>1, <2>1, <2>2
<1>4. Cardinality(kept) \in Nat /\ Cardinality(kept) <= n
  BY <1>1, <1>2, FS_Subset, FS_CardinalityType
<1>5. stored' = stored \o part /\ stored \in Seq(Cams)
  BY <1>3 DEF Upserted, CollectTypes
<1>6. stored' \in Seq(Cams) /\ Len(stored') = Len(stored) + Cardinality(kept)
  BY <1>3, <1>5
<1>7. Cardinality(kept) <= BatchSize
  <2>1. PICK k \in Nat, size \in Nat : k = Cardinality(kept) /\ size = BatchSize
    BY <1>4, Numbers
  <2> QED BY <1>1, <1>4, <2>1
<1> QED BY <1>1, <1>3, <1>4, <1>5, <1>6, <1>7

LEMMA FlushKeeps ==
  ASSUME CollectInv, FlushBatch
  PROVE  CollectInv'
<1>0. CollectTypes /\ AccountOK /\ PagesOK /\ InsecamListsOnce /\ QuietOK
  BY DEF CollectInv
<1>1. UNCHANGED <<site, run, listing, shifts, refused>> /\ run.phase \in {"list", "flush"}
  BY DEF FlushBatch
<1>2. PICK n \in Nat, head \in Seq(Cams), rest \in Seq(Cams) :
          /\ n = Len(NextBatch) /\ head = NextBatch /\ batch = head \o rest
          /\ rest = SubSeq(batch, n + 1, Len(batch))
  BY <1>0, NextBatchFacts
<1>3. PICK kept \in SUBSET (1..n) :
          /\ Upserted(kept)
          /\ told' = Counted(n, kept)
          /\ lost' = (lost \/ kept # 1..n)
          /\ batch' = rest
  BY <1>2 DEF FlushBatch
<1>4. PICK k \in Nat : /\ k = Cardinality(kept) /\ k <= n
                       /\ stored' \in Seq(Cams) /\ Len(stored') = Len(stored) + k
                       /\ kept = 1..n => stored' = stored \o head
  BY <1>0, <1>2, <1>3, UpsertedFacts
<1>5. PICK processed \in Nat, counted \in Nat, size \in Nat :
          told = [processed |-> processed, stored |-> counted] /\ size = BatchSize
  BY <1>0, Numbers DEF CollectTypes
<1>6. told' = [processed |-> processed + n, stored |-> counted + k]
  BY <1>3, <1>4, <1>5 DEF Counted
<1>7. PICK m \in Nat : m = Len(stored) /\ m = counted
  <2>1. Len(stored) \in Nat
    BY <1>0 DEF CollectTypes
  <2> QED BY <1>0, <1>1, <1>5, <2>1 DEF AccountOK, CountsOK
<1>8. Handed'
  <2>1. PICK handed \in Seq(Cams) :
            /\ listing = handed \o batch /\ Len(handed) = processed
            /\ ~lost => stored = handed
    BY <1>0, <1>5 DEF AccountOK, Handed
  <2>2. (handed \o head) \o rest = handed \o (head \o rest)
    BY ConcatAssociative
  <2>3. PICK more \in Seq(Cams) : more = handed \o head /\ Len(more) = processed + n
    <3>1. handed \o head \in Seq(Cams) /\ Len(handed \o head) = Len(handed) + Len(head)
      OBVIOUS
    <3> QED BY <1>2, <2>1, <3>1
  <2>4. listing' = more \o batch'
    BY <1>1, <1>2, <1>3, <2>1, <2>2, <2>3
  <2>5. ~lost' => stored' = more
    BY <1>3, <1>4, <2>1, <2>3
  <2> QED BY <1>6, <2>3, <2>4, <2>5 DEF Handed
<1>9. CountsOK'
  <2>1. counted <= processed
    BY <1>0, <1>5 DEF AccountOK, CountsOK
  <2>2. Len(stored') = counted + k /\ counted + k <= processed + n /\ counted + k <= counted + k + size
    BY <1>4, <1>7, <2>1
  <2> QED BY <1>5, <1>6, <2>2 DEF CountsOK
<1>10. CollectTypes'
  <2>1. told' \in [processed : Nat, stored : Nat] /\ lost' \in BOOLEAN
    BY <1>3, <1>6
  <2> QED BY <1>0, <1>1, <1>2, <1>3, <1>4, <2>1 DEF CollectTypes
<1>11. AccountOK'
  BY <1>1, <1>8, <1>9 DEF AccountOK
<1>12. PagesOK' /\ InsecamListsOnce'
  BY <1>0, <1>1 DEF PagesOK, InsecamListsOnce, PagesUntilOffsetLimit, NoRun
<1>13. QuietOK'
  BY <1>0, <1>1, <1>3 DEF QuietOK, Passed, Within, Playable, PagesUntilOffsetLimit
<1> QED BY <1>10, <1>11, <1>12, <1>13 DEF CollectInv

LEMMA RaisesKeeps ==
  ASSUME CollectInv, RunRaises
  PROVE  CollectInv'
<1>0. CollectTypes /\ AccountOK /\ PagesOK /\ InsecamListsOnce
  BY DEF CollectInv
<1>1. /\ UNCHANGED <<site, listing, batch, told, shifts, refused>> /\ lost' = TRUE
      /\ run' = [run EXCEPT !.phase = "failed"] /\ run.phase \in {"list", "flush"} /\ run \in Runs
  BY <1>0 DEF RunRaises, Enter, CollectTypes
<1>2. /\ run' \in Runs /\ run'.source = run.source /\ run'.phase = "failed" /\ run'.start = run.start
      /\ run'.limit = run.limit
  BY <1>1 DEF Runs
<1>3. PICK kept \in SUBSET (1..Len(NextBatch)) : Upserted(kept)
  BY DEF RunRaises
<1>4. PICK k \in Nat, size \in Nat :
          /\ k <= size /\ size = BatchSize
          /\ stored' \in Seq(Cams) /\ Len(stored') = Len(stored) + k
  BY <1>0, <1>3, UpsertedFacts, Numbers
<1>5. CollectTypes'
  BY <1>0, <1>1, <1>2, <1>4 DEF CollectTypes
<1>6. AccountOK'
  <2>1. PICK processed \in Nat, counted \in Nat :
            told = [processed |-> processed, stored |-> counted] /\ counted <= processed
    BY <1>0 DEF CollectTypes, AccountOK, CountsOK
  <2>2. PICK m \in Nat : m = Len(stored) /\ m = counted
    <3>1. Len(stored) \in Nat
      BY <1>0 DEF CollectTypes
    <3> QED BY <1>0, <1>1, <2>1, <3>1 DEF AccountOK, CountsOK
  <2>3. counted <= counted + k /\ counted + k <= counted + size
    BY <1>4
  <2>4. CountsOK'
    BY <1>1, <1>2, <1>4, <2>1, <2>2, <2>3 DEF CountsOK
  <2>5. Handed'
    BY <1>0, <1>1 DEF AccountOK, Handed
  <2> QED BY <1>2, <2>4, <2>5 DEF AccountOK
<1>7. PagesOK'
  BY <1>0, <1>1, <1>2 DEF PagesOK
<1>8. InsecamListsOnce' /\ QuietOK'
  BY <1>0, <1>1, <1>2 DEF InsecamListsOnce, QuietOK
<1> QED BY <1>5, <1>6, <1>7, <1>8 DEF CollectInv

LEMMA EndKeeps ==
  ASSUME CollectInv, EndRun
  PROVE  CollectInv'
<1>0. CollectTypes /\ AccountOK /\ PagesOK /\ InsecamListsOnce /\ QuietOK
  BY DEF CollectInv
<1>1. /\ UNCHANGED <<site, listing, batch, stored, told, shifts, lost, refused>>
      /\ run' = [run EXCEPT !.phase = "done"]
      /\ run.phase = "flush" /\ batch = <<>> /\ run \in Runs
  BY <1>0 DEF EndRun, Enter, Due, CollectTypes
<1>2. /\ run' \in Runs /\ run'.source = run.source /\ run'.phase = "done" /\ run'.start = run.start
      /\ run'.limit = run.limit
  BY <1>1 DEF Runs
<1>3. CollectTypes'
  BY <1>0, <1>1, <1>2 DEF CollectTypes
<1>4. AccountOK'
  BY <1>0, <1>1, <1>2 DEF AccountOK, Handed, CountsOK
<1>5. PagesOK' /\ InsecamListsOnce'
  BY <1>0, <1>1, <1>2 DEF PagesOK, InsecamListsOnce
<1>6. QuietOK'
  <2>1. Within' = Within
    BY <1>1, <1>2 DEF Within, Playable, PagesUntilOffsetLimit
  <2> QED BY <1>0, <1>1, <1>2, <2>1 DEF QuietOK
<1> QED BY <1>3, <1>4, <1>5, <1>6 DEF CollectInv

LEMMA CollectStutter ==
  ASSUME CollectInv, UNCHANGED collectVars
  PROVE  CollectInv'
<1>1. UNCHANGED <<site, run, listing, batch, stored, told, shifts, lost, refused>>
  BY DEF collectVars
<1>2. CollectTypes' /\ AccountOK' /\ InsecamListsOnce'
  BY <1>1 DEF CollectInv, CollectTypes, AccountOK, Handed, CountsOK, InsecamListsOnce
<1>3. PagesOK'
  BY <1>1 DEF CollectInv, PagesOK, PagesUntilOffsetLimit, NoRun
<1>4. QuietOK'
  BY <1>1 DEF CollectInv, QuietOK, Passed, Within, Playable, PagesUntilOffsetLimit
<1> QED BY <1>2, <1>3, <1>4 DEF CollectInv

\* The invariant holds in every state of a run.
THEOREM CollectInvariant == CollectSpec => []CollectInv
<1>1. CollectInv /\ [CollectNext]_collectVars => CollectInv'
  <2> SUFFICES ASSUME CollectInv, [CollectNext]_collectVars PROVE CollectInv'
    OBVIOUS
  <2>1. ASSUME NEW source \in Sources, NEW start \in StartPages, NEW limit \in ApiLimits,
               BeginRun(source, start, limit)
        PROVE  CollectInv'
    BY <2>1, BeginKeeps
  <2>2. CASE ListPage
    BY <2>2, ListPageKeeps
  <2>3. CASE WindyPage
    BY <2>3, WindyKeeps
  <2>4. CASE ListStreams
    BY <2>4, StreamsKeep
  <2>5. CASE ResolveChunk
    BY <2>5, ChunkKeeps
  <2>6. CASE FlushBatch
    BY <2>6, FlushKeeps
  <2>7. CASE EndRun
    BY <2>7, EndKeeps
  <2>8. CASE RequestFails
    BY <2>8, FailureKeeps
  <2>9. CASE Shift
    BY <2>9, ShiftKeeps
  <2>10. CASE RunRaises
    BY <2>10, RaisesKeeps
  <2>11. CASE UNCHANGED collectVars
    BY <2>11, CollectStutter
  <2> QED
    BY <2>1, <2>2, <2>3, <2>4, <2>5, <2>6, <2>7, <2>8, <2>9, <2>10, <2>11 DEF CollectNext, CollectStep
<1> QED
  BY CollectInitial, <1>1, PTL DEF CollectSpec

\* Over a source that stands still, when nothing was given up, a run stores
\* exactly the cameras within its reach, each once and in their order
\* (insecam.py:215-246, windy.py:275-280 and 468-511, whatsupcams.py:407-415,
\* services.py:229-307).
THEOREM StoresAll == CollectSpec => []QuietRunStoresAll
<1>1. CollectInv => QuietRunStoresAll
  <2> SUFFICES ASSUME CollectInv PROVE QuietRunStoresAll
    OBVIOUS
  <2>1. CollectTypes /\ AccountOK /\ PagesOK /\ QuietOK
    BY DEF CollectInv
  <2>2. refused => run.limit < OffsetLimit
    BY <2>1 DEF PagesOK
  <2>3. ASSUME run.phase = "done", shifts = 0, ~lost
        PROVE  /\ ToSet(stored) = Reachable
               /\ \A i, j \in DOMAIN stored : i < j => \E k, l \in DOMAIN site :
                      k < l /\ site[k] = stored[i] /\ site[l] = stored[j]
    <3>1. listing = stored
      <4>1. listing = stored \o batch /\ batch = <<>> /\ stored \in Seq(Cams)
        BY <2>1, <2>3 DEF AccountOK, Handed, CollectTypes
      <4> QED BY <4>1, ConcatEmptySeq
    <3>2. ListsPlaces(stored, site, Within)
      BY <2>1, <2>3, <3>1 DEF QuietOK
    <3>3. Reachable = {site[k] : k \in Within}
      BY <2>1, ReachableWithin
    <3>4. Within \in SUBSET DOMAIN site
      BY DEF Within
    <3> QED BY <3>2, <3>3, <3>4 DEF ListsPlaces
  <2> QED BY <2>2, <2>3 DEF QuietRunStoresAll
<1> QED
  BY CollectInvariant, <1>1, PTL

\* However an Insecam listing shifts between two pages, and whatever fails, no
\* camera is listed twice (insecam.py:225-230).
THEOREM ListsOnce == CollectSpec => []InsecamListsOnce
<1>1. CollectInv => InsecamListsOnce
  BY DEF CollectInv
<1> QED
  BY CollectInvariant, <1>1, PTL

\* Whichever upserts and requests fail, the counters of a run are what the
\* catalogue took, and a run that ends has processed all it listed; a failed run
\* is at most one batch ahead of its counters (services.py:229-312, 324-342).
THEOREM CountersTold == CollectSpec => []RunsTellWhatTheyStored
<1>1. CollectInv => RunsTellWhatTheyStored
  <2> SUFFICES ASSUME CollectInv PROVE RunsTellWhatTheyStored
    OBVIOUS
  <2>1. AccountOK /\ PagesOK /\ CollectTypes
    BY DEF CollectInv
  <2>2. told.processed + Len(batch) = Len(listing)
    <3>1. PICK handed \in Seq(Cams) : listing = handed \o batch /\ Len(handed) = told.processed
      BY <2>1 DEF AccountOK, Handed
    <3>2. batch \in Seq(Cams)
      BY <2>1 DEF CollectTypes
    <3>3. Len(handed \o batch) = Len(handed) + Len(batch)
      BY <3>2
    <3> QED BY <3>1, <3>3
  <2>3. run.phase = "done" => batch = <<>> /\ (run.source = "INSECAM" => listing # <<>>)
    BY <2>1 DEF AccountOK, PagesOK
  <2>4. CountsOK
    BY <2>1 DEF AccountOK
  <2> QED BY <2>2, <2>3, <2>4 DEF RunsTellWhatTheyStored, CountsOK
<1> QED
  BY CollectInvariant, <1>1, PTL
-----------------------------------------------------------------------------
\* The markers of running tasks

TaskSteps == {"starting", "entered", "body", "leaving", "finishing"}

Maps == [Ids -> 0..starts]

Tasks == {NoTask} \cup [at : TaskSteps, id : Ids, run : 1..starts, map : Maps]

Saves == {NotSaving} \cup [at : {"saving"}, loaded : Maps, map : Maps]

MarkersOK ==
    /\ activity \in Maps /\ expired \subseteq 1..starts
    /\ overwritten \subseteq Ids /\ shared \subseteq Ids
    /\ starts \in 0..MaxStarts
    /\ act \in [Processes -> Tasks]
    /\ page \in [Pages -> Saves]

\* Two runs of one task share its marker, so that the end of one may take it
\* from the other: such a marker is in the history.
SharedOK ==
    \A v, w \in Processes, id \in Ids :
        v # w /\ Running(v, id) /\ Running(w, id) => id \in shared

\* A page saves the map it has loaded without markers that had expired.
PurgedOK ==
    \A v \in Pages, id \in Ids :
        page[v].at = "saving" =>
            page[v].map[id] = page[v].loaded[id] \/ page[v].loaded[id] \in expired

ActInv == MarkersOK /\ SharedOK /\ PurgedOK /\ RunningTasksShown

\* Apart from SaveStart, a step makes no task run.
NoneStarts ==
    \A w \in Processes, id \in Ids :
        Running(w, id)' => Running(w, id) /\ act'[w].run = act[w].run

-----------------------------------------------------------------------------
\* Initially nothing runs.
LEMMA ActInitInv == ActInit => ActInv
<1> SUFFICES ASSUME ActInit PROVE ActInv
    OBVIOUS
<1>1. MarkersOK
    <2>1. starts = 0 /\ starts \in 0..MaxStarts /\ NoMarkers \in Maps
        BY ActAssumption DEF ActInit, NoMarkers, Maps
    <2> QED
        BY <2>1 DEF ActInit, MarkersOK, Tasks, Saves
<1>2. \A w \in Processes, id \in Ids : ~Running(w, id)
    BY DEF ActInit, Running, NoTask
<1>3. PurgedOK
    BY DEF ActInit, PurgedOK, NotSaving
<1> QED
    BY <1>1, <1>2, <1>3 DEF ActInv, SharedOK, RunningTasksShown

\* Every step keeps the types.
LEMMA MarkersStep == ActInv /\ [ActNext]_actVars => MarkersOK'
<1> SUFFICES ASSUME ActInv, [ActNext]_actVars PROVE MarkersOK'
    OBVIOUS
<1>1. /\ activity \in Maps /\ expired \subseteq 1..starts
      /\ overwritten \subseteq Ids /\ shared \subseteq Ids
      /\ starts \in 0..MaxStarts
      /\ act \in [Processes -> Tasks] /\ page \in [Pages -> Saves]
    BY DEF ActInv, MarkersOK
<1>a. \A w \in Processes : act[w].at # "idle" =>
          act[w].id \in Ids /\ act[w].run \in 1..starts /\ act[w].map \in Maps
    BY <1>1 DEF Tasks, NoTask
<1>b. NoTask \in Tasks /\ NotSaving \in Saves /\ NoMarkers \in Maps
    BY <1>1, ActAssumption DEF Tasks, Saves, NoMarkers, Maps
<1>c. \A step \in TaskSteps, id \in Ids, n \in 1..starts, map \in Maps : At(step, id, n, map) \in Tasks
    BY DEF At, Tasks
<1>d. starts' = starts => Maps' = Maps /\ Tasks' = Tasks /\ Saves' = Saves
    BY DEF Maps, Tasks, Saves
<1>2. ASSUME NEW w \in Processes, NEW id \in Ids, LoadForStart(w, id) PROVE MarkersOK'
    <2>1. /\ starts' = starts + 1 /\ starts' \in 0..MaxStarts
          /\ 0..starts \subseteq 0..starts' /\ 1..starts \subseteq 1..starts' /\ starts + 1 \in 1..starts'
        BY <1>1, <1>2, ActAssumption DEF LoadForStart
    <2>2. Maps \subseteq Maps'
        BY <2>1 DEF Maps
    <2>3. Tasks \subseteq Tasks' /\ Saves \subseteq Saves'
        BY <2>1, <2>2 DEF Tasks, Saves
    <2>4. At("starting", id, starts + 1, activity) \in Tasks'
        BY <1>1, <2>1, <2>2 DEF At, Tasks, TaskSteps
    <2>5. act' \in [Processes -> Tasks'] /\ page' \in [Pages -> Saves']
        BY <1>1, <1>2, <2>3, <2>4 DEF LoadForStart
    <2> QED
        BY <1>1, <1>2, <2>1, <2>2, <2>5 DEF LoadForStart, MarkersOK
<1>3. ASSUME NEW w \in Processes, SaveStart(w) PROVE MarkersOK'
    <2>1. PICK id \in Ids, n \in 1..starts, map \in Maps : id = act[w].id /\ n = act[w].run /\ map = act[w].map
        BY <1>3, <1>a DEF SaveStart
    <2>2. WithMarker(map, id, n) \in Maps
        BY <1>1, <2>1 DEF WithMarker, Maps
    <2>3. At("entered", id, n, NoMarkers) \in Tasks
        BY <1>b, <1>c, <2>1 DEF TaskSteps
    <2>4. /\ activity' = WithMarker(map, id, n)
          /\ act' = [act EXCEPT ![w] = At("entered", id, n, NoMarkers)]
          /\ overwritten' \subseteq Ids /\ shared' \subseteq Ids
          /\ UNCHANGED <<expired, page, starts>>
        BY <1>1, <1>3, <2>1 DEF SaveStart, ChangedSince
    <2> QED
        BY <1>1, <1>d, <2>2, <2>3, <2>4 DEF MarkersOK
<1>4. ASSUME NEW w \in Processes, EnterBody(w) \/ LeaveBody(w) PROVE MarkersOK'
    <2>1. PICK step \in TaskSteps : act' = [act EXCEPT ![w].at = step]
        BY <1>4 DEF EnterBody, LeaveBody, TaskSteps
    <2>2. act[w] \in [at : TaskSteps, id : Ids, run : 1..starts, map : Maps]
        BY <1>1, <1>4 DEF EnterBody, LeaveBody, Tasks, NoTask
    <2>3. [act[w] EXCEPT !.at = step] \in Tasks
        BY <2>2 DEF Tasks
    <2> QED
        BY <1>1, <1>4, <1>d, <2>1, <2>3 DEF EnterBody, LeaveBody, MarkersOK
<1>6. ASSUME NEW w \in Processes, LoadForFinish(w) PROVE MarkersOK'
    <2>1. act[w].id \in Ids /\ act[w].run \in 1..starts
        BY <1>6, <1>a DEF LoadForFinish
    <2>2. At("finishing", act[w].id, act[w].run, activity) \in Tasks
        BY <1>1, <1>c, <2>1 DEF TaskSteps
    <2> QED
        BY <1>1, <1>6, <1>b, <1>d, <2>2 DEF LoadForFinish, MarkersOK
<1>7. ASSUME NEW w \in Processes, SaveFinish(w) PROVE MarkersOK'
    <2>1. PICK id \in Ids, map \in Maps : id = act[w].id /\ map = act[w].map
        BY <1>7, <1>a DEF SaveFinish
    <2>2. Without(map, id) \in Maps
        BY <1>1, <2>1 DEF Without, Maps
    <2> QED
        BY <1>1, <1>7, <1>b, <1>d, <2>1, <2>2 DEF SaveFinish, SaveMap, ChangedSince, MarkersOK
<1>8. ASSUME NEW w \in Processes, KillTask(w) PROVE MarkersOK'
    BY <1>1, <1>8, <1>b, <1>d DEF KillTask, MarkersOK
<1>9. ASSUME NEW v \in Pages, LoadSummary(v) PROVE MarkersOK'
    <2>1. Purged(activity) \in Maps
        BY <1>1 DEF Purged, Maps
    <2>2. Saving(activity, Purged(activity)) \in Saves
        BY <1>1, <2>1 DEF Saving, Saves
    <2> QED
        BY <1>1, <1>9, <1>d, <2>2 DEF LoadSummary, MarkersOK
<1>10. ASSUME NEW v \in Pages, SaveSummary(v) PROVE MarkersOK'
    <2>1. page[v].map \in Maps
        BY <1>1, <1>10 DEF SaveSummary, Saves, NotSaving
    <2> QED
        BY <1>1, <1>10, <1>b, <1>d, <2>1 DEF SaveSummary, SaveMap, ChangedSince, MarkersOK
<1>11. ASSUME NEW id \in Ids, MarkerExpires(id) PROVE MarkersOK'
    <2>1. activity[id] \in 1..starts
        <3>1. activity[id] \in 0..starts /\ activity[id] # 0
            BY <1>1, <1>11 DEF Maps, MarkerExpires
        <3> QED
            BY <1>1, <3>1
    <2> QED
        BY <1>1, <1>11, <1>d, <2>1 DEF MarkerExpires, MarkersOK
<1>12. CASE UNCHANGED actVars
    BY <1>1, <1>12, <1>d DEF actVars, MarkersOK
<1> QED
    BY <1>2, <1>3, <1>4, <1>6, <1>7, <1>8, <1>9, <1>10, <1>11, <1>12
       DEF ActNext, ActStep, PageStep

\* What a page is about to save differs from what it has loaded in expired
\* markers only.
LEMMA PurgedStep == ActInv /\ [ActNext]_actVars => PurgedOK'
<1> SUFFICES ASSUME ActInv, [ActNext]_actVars PROVE PurgedOK'
    OBVIOUS
<1>1. PurgedOK /\ page \in [Pages -> Saves]
    BY DEF ActInv, MarkersOK
<1>2. ASSUME page' = page, expired \subseteq expired' PROVE PurgedOK'
    BY <1>1, <1>2 DEF PurgedOK
<1>3. ASSUME NEW v \in Pages, LoadSummary(v) PROVE PurgedOK'
    <2>1. page' = [page EXCEPT ![v] = Saving(activity, Purged(activity))] /\ expired' = expired
        BY <1>3 DEF LoadSummary
    <2>2. \A id \in Ids : Purged(activity)[id] = activity[id] \/ activity[id] \in expired
        BY DEF Purged
    <2> QED
        BY <1>1, <2>1, <2>2 DEF PurgedOK, Saving
<1>4. ASSUME NEW v \in Pages, SaveSummary(v) PROVE PurgedOK'
    <2>1. page' = [page EXCEPT ![v] = NotSaving] /\ expired' = expired
        BY <1>4 DEF SaveSummary
    <2> QED
        BY <1>1, <2>1 DEF PurgedOK, NotSaving
<1>5. ASSUME NEW w \in Processes,
             ActStep(w) \/ EnterBody(w) \/ LeaveBody(w) \/ KillTask(w)
      PROVE  page' = page /\ expired' = expired
    BY <1>5 DEF ActStep, LoadForStart, SaveStart, EnterBody, LeaveBody, LoadForFinish, SaveFinish, KillTask
<1>6. ASSUME NEW id \in Ids, MarkerExpires(id) PROVE page' = page /\ expired \subseteq expired'
    BY <1>6 DEF MarkerExpires
<1>7. UNCHANGED actVars => page' = page /\ expired' = expired
    BY DEF actVars
<1> QED
    BY <1>2, <1>3, <1>4, <1>5, <1>6, <1>7 DEF ActNext, PageStep

\* A step that starts no task and leaves the history keeps SharedOK.
LEMMA SharedKept == SharedOK /\ NoneStarts /\ shared' = shared => SharedOK'
    BY DEF SharedOK, NoneStarts

\* ... and RunningTasksShown, when it saves no map.
LEMMA ShownKept ==
    ASSUME RunningTasksShown, NoneStarts, activity' = activity, overwritten' = overwritten,
           shared' = shared, expired \subseteq expired'
    PROVE  RunningTasksShown'
    BY DEF RunningTasksShown, NoneStarts

\* A save changes what it means to change; whatever else it changes is in the
\* history.
LEMMA ShownAfterSave ==
    ASSUME RunningTasksShown, NoneStarts, NEW loaded, NEW map,
           SaveMap(map, loaded), shared' = shared, expired' = expired,
           \A w \in Processes, id \in Ids \ shared :
               Running(w, id)' => map[id] = loaded[id] \/ loaded[id] \in expired
    PROVE  RunningTasksShown'
    BY DEF RunningTasksShown, NoneStarts, SaveMap, ChangedSince

\* Every step keeps the invariant.
LEMMA ActStepInv == ActInv /\ [ActNext]_actVars => ActInv'
<1> SUFFICES ASSUME ActInv, [ActNext]_actVars PROVE ActInv'
    OBVIOUS
<1>1. MarkersOK /\ SharedOK /\ PurgedOK /\ RunningTasksShown /\ MarkersOK' /\ PurgedOK'
    BY MarkersStep, PurgedStep DEF ActInv
<1> SUFFICES SharedOK' /\ RunningTasksShown'
    BY <1>1 DEF ActInv
<1>types. act \in [Processes -> Tasks]
    BY <1>1 DEF MarkersOK
<1>maps. \A w \in Processes : act[w].at # "idle" =>
             act[w].id \in Ids /\ act[w].run \in 1..starts /\ act[w].map \in Maps
    BY <1>types DEF Tasks, NoTask
<1>2. ASSUME NEW w \in Processes, NEW id \in Ids, LoadForStart(w, id)
      PROVE  SharedOK' /\ RunningTasksShown'
    <2>1. NoneStarts
        BY <1>2, <1>types DEF LoadForStart, NoneStarts, Running, At
    <2> QED
        BY <1>1, <1>2, <2>1, SharedKept, ShownKept DEF LoadForStart
<1>3. ASSUME NEW w \in Processes, SaveStart(w) PROVE SharedOK' /\ RunningTasksShown'
    <2> DEFINE others == {v \in Processes : Running(v, act[w].id)}
    <2>0. PICK own \in Ids, n \in 1..starts, map \in Maps :
              own = act[w].id /\ n = act[w].run /\ map = act[w].map
        BY <1>3, <1>maps DEF SaveStart
    <2>1. act'[w] = At("entered", own, n, NoMarkers) /\ \A v \in Processes \ {w} : act'[v] = act[v]
        BY <1>3, <1>types, <2>0 DEF SaveStart
    <2>2. /\ \A v \in Processes, id \in Ids :
                 Running(v, id)' <=> (IF v = w THEN id = own ELSE Running(v, id))
          /\ act'[w].run = n
        BY <2>1 DEF Running, At
    <2>3. w \notin others
        BY <1>3 DEF SaveStart, Running
    <2>4. /\ activity' = [map EXCEPT ![own] = n]
          /\ overwritten' = (overwritten \cup ChangedSince(map)) \ {own}
          /\ expired' = expired
          /\ shared' = IF others = {} THEN shared \ {own} ELSE shared \cup {own}
        BY <1>3, <2>0 DEF SaveStart, WithMarker
    <2>5. SharedOK'
        <3> SUFFICES ASSUME NEW v \in Processes, NEW u \in Processes, NEW id \in Ids,
                            v # u, Running(v, id)', Running(u, id)'
                     PROVE  id \in shared'
            BY DEF SharedOK
        <3>1. CASE id = own
            <4>1. \E x \in {u, v} : x # w /\ Running(x, own)
                BY <3>1, <2>2
            <4> QED
                BY <4>1, <2>0, <2>4, <3>1
        <3>2. CASE id # own
            BY <3>2, <2>2, <2>4, <1>1 DEF SharedOK
        <3> QED
            BY <3>1, <3>2
    <2>6. RunningTasksShown'
        <3> SUFFICES ASSUME NEW v \in Processes, NEW id \in Ids,
                            id \notin overwritten', id \notin shared', Running(v, id)'
                     PROVE  activity'[id] = act'[v].run \/ act'[v].run \in expired'
            BY DEF RunningTasksShown
        <3>0. \A i \in Ids : activity'[i] = IF i = own THEN n ELSE map[i]
            BY <2>4 DEF Maps
        <3>1. CASE id = own
            <4>1. v = w
                BY <2>0, <2>2, <2>4, <3>1
            <4> QED
                BY <2>2, <3>0, <3>1, <4>1
        <3>2. CASE id # own
            <4>1. v # w /\ Running(v, id) /\ act'[v] = act[v] /\ id \notin shared
                BY <2>1, <2>2, <2>4, <3>2
            <4>2. id \notin overwritten /\ activity[id] = map[id]
                BY <2>4, <3>2 DEF ChangedSince
            <4> QED
                BY <1>1, <2>4, <3>0, <3>2, <4>1, <4>2 DEF RunningTasksShown
        <3> QED
            BY <3>1, <3>2
    <2> QED
        BY <2>5, <2>6
<1>4. ASSUME NEW w \in Processes, EnterBody(w) \/ LeaveBody(w) PROVE SharedOK' /\ RunningTasksShown'
    <2>1. NoneStarts
        BY <1>4, <1>types DEF EnterBody, LeaveBody, NoneStarts, Running, Tasks, NoTask
    <2> QED
        BY <1>1, <1>4, <2>1, SharedKept, ShownKept DEF EnterBody, LeaveBody
<1>5. ASSUME NEW w \in Processes, LoadForFinish(w) \/ KillTask(w) PROVE SharedOK' /\ RunningTasksShown'
    <2>1. NoneStarts
        BY <1>5, <1>types DEF LoadForFinish, KillTask, NoneStarts, Running, NoTask, At
    <2> QED
        BY <1>1, <1>5, <2>1, SharedKept, ShownKept DEF LoadForFinish, KillTask
<1>6. ASSUME NEW w \in Processes, SaveFinish(w) PROVE SharedOK' /\ RunningTasksShown'
    <2>0. PICK own \in Ids, map \in Maps : own = act[w].id /\ map = act[w].map
        BY <1>6, <1>maps DEF SaveFinish
    <2>1. act'[w] = NoTask /\ \A v \in Processes \ {w} : act'[v] = act[v]
        BY <1>6, <1>types DEF SaveFinish
    <2>2. \A v \in Processes, id \in Ids : Running(v, id)' <=> v # w /\ Running(v, id)
        BY <2>1 DEF Running, NoTask
    <2>3. Running(w, own)
        BY <1>6, <2>0 DEF SaveFinish, Running
    <2>4. \A v \in Processes, id \in Ids \ shared :
              Running(v, id)' => Without(map, own)[id] = map[id]
        <3>1. \A id \in Ids : id # own => Without(map, own)[id] = map[id]
            BY DEF Without, Maps
        <3> QED
            BY <1>1, <2>2, <2>3, <3>1 DEF SharedOK
    <2>5. NoneStarts
        BY <2>1, <2>2 DEF NoneStarts
    <2>6. SaveMap(Without(map, own), map) /\ shared' = shared /\ expired' = expired
        BY <1>6, <2>0 DEF SaveFinish
    <2> QED
        BY <1>1, <2>4, <2>5, <2>6, SharedKept, ShownAfterSave
<1>7. ASSUME NEW v \in Pages, LoadSummary(v) PROVE SharedOK' /\ RunningTasksShown'
    <2>1. NoneStarts
        BY <1>7 DEF LoadSummary, NoneStarts, Running
    <2> QED
        BY <1>1, <1>7, <2>1, SharedKept, ShownKept DEF LoadSummary
<1>8. ASSUME NEW v \in Pages, SaveSummary(v) PROVE SharedOK' /\ RunningTasksShown'
    <2>1. NoneStarts
        BY <1>8 DEF SaveSummary, NoneStarts, Running
    <2>2. \A w \in Processes, id \in Ids \ shared :
              Running(w, id)' =>
                  page[v].map[id] = page[v].loaded[id] \/ page[v].loaded[id] \in expired
        BY <1>1, <1>8 DEF SaveSummary, PurgedOK
    <2>3. SaveMap(page[v].map, page[v].loaded) /\ shared' = shared /\ expired' = expired
        BY <1>8 DEF SaveSummary
    <2> QED
        BY <1>1, <2>1, <2>2, <2>3, SharedKept, ShownAfterSave
<1>9. CASE UNCHANGED actVars
    <2>1. NoneStarts
        BY <1>9 DEF actVars, NoneStarts, Running
    <2> QED
        BY <1>1, <1>9, <2>1, SharedKept, ShownKept DEF actVars
<1>10. ASSUME NEW id \in Ids, MarkerExpires(id) PROVE SharedOK' /\ RunningTasksShown'
    <2>1. NoneStarts
        BY <1>10 DEF MarkerExpires, NoneStarts, Running
    <2> QED
        BY <1>1, <1>10, <2>1, SharedKept, ShownKept DEF MarkerExpires
<1> QED
    BY <1>2, <1>3, <1>4, <1>5, <1>6, <1>7, <1>8, <1>9, <1>10 DEF ActNext, ActStep, PageStep

\* The invariant holds of every behaviour.
LEMMA ActInvariant == ActSpec => []ActInv
<1> QED
    BY ActInitInv, ActStepInv, PTL DEF ActSpec

\* The markers are well typed (celery_activity.py:19-74).
THEOREM MarkersTypeCorrect == ActSpec => []ActTypeOK
<1>1. ActInv => ActTypeOK
    BY DEF ActInv, MarkersOK, ActTypeOK, Tasks, TaskSteps, Saves, NotSaving, Maps
<1> QED
    BY <1>1, ActInvariant, PTL

\* For any number of workers, pages and runs: no start, end or page load takes
\* the marker of a running task out of a map it has just read, other than one
\* that had expired (celery_activity.py:54-74 and 134-137).
THEOREM ShownCorrect == ActSpec => []RunningTasksShown
<1>1. ActInv => RunningTasksShown
    BY DEF ActInv
<1> QED
    BY <1>1, ActInvariant, PTL
-----------------------------------------------------------------------------
\* The geocoding cache

Ats == {"off", "lookup", "touch", "lock", "wait", "recheck", "retouch", "fetch", "store",
        "resolved", "lost"}

Results == {"hit", "miss", None}

Locks == [holder : Cameras \cup {None}, waiters : Seq(Cameras), bound : Nat]

Coroutines == [at : Ats, todo : Seq(Queries), result : Results, key : Nat]

TypesOK ==
    /\ row \in [Queries -> Results] /\ key \in [Queries -> Nat]
    /\ lock \in [Workers -> [Queries -> Locks]]
    /\ task \in [Workers -> {"none", "scrape", "refresh"}]
    /\ loop \in [Workers -> Nat]
    /\ co \in [Workers -> [Cameras -> Coroutines]]
    /\ place \in [Cameras -> {"found", "unknown"}]
    /\ begun \in 0..MaxTasks /\ kills \in 0..MaxKills
    /\ blank \subseteq Queries
    /\ overtaken \subseteq Workers \X Cameras /\ hurt \subseteq Workers \X Cameras

\* A coroutine has queries to try until it has an answer or is lost, and stores
\* what was answered or read.
TodoOK ==
    \A p \in Workers, c \in Cameras :
        /\ co[p][c].todo = <<>> <=> co[p][c].at \in {"off", "resolved", "lost"}
        /\ co[p][c].at \in {"touch", "retouch", "store"} => co[p][c].result # None

\* A coroutine runs inside a task only.
TaskOK == \A p \in Workers : task[p] = "none" => \A c \in Cameras : co[p][c].at = "off"

\* A lock is bound to a loop there has been, and no other loses a stream.
LoopOK ==
    /\ \A p \in Workers : loop[p] <= begun
    /\ \A p \in Workers, q \in Queries : lock[p][q].bound <= loop[p]
    /\ FirstLoopLocksLoseNone

\* Every key was given after a task had begun, and a coroutine that is about to
\* save the hits of a row it has read finds that row, unless it is hurt.
KeyOK ==
    /\ \A q \in Queries : key[q] <= begun
    /\ \A p \in Workers, c \in Cameras :
          /\ co[p][c].key <= begun
          /\ (/\ co[p][c].at \in {"touch", "retouch"}
              /\ row[Query(p, c)] = None \/ key[Query(p, c)] # co[p][c].key) => <<p, c>> \in hurt

\* A coroutine past the lock of its query holds it, one that waits for a lock
\* is in its line once.
HolderOK ==
    \A p \in Workers, c \in Cameras :
        co[p][c].at \in {"recheck", "retouch", "fetch", "store"} => lock[p][Query(p, c)].holder = c

LineOK ==
    \A p \in Workers, q \in Queries :
        /\ \A i \in DOMAIN lock[p][q].waiters :
              /\ co[p][lock[p][q].waiters[i]].at = "wait"
              /\ Query(p, lock[p][q].waiters[i]) = q
        /\ \A i, j \in DOMAIN lock[p][q].waiters :
              lock[p][q].waiters[i] = lock[p][q].waiters[j] => i = j

\* A row that exists while a coroutine fetches its query was written by another
\* process.
OvertakenOK ==
    \A p \in Workers, c \in Cameras :
        co[p][c].at \in {"fetch", "store"} /\ row[Query(p, c)] # None => <<p, c>> \in overtaken

\* Every miss there is goes back to the geocoder, and a coroutine has left a
\* query behind only after a miss.
MissOK(p, c) ==
    /\ co[p][c].at \in {"touch", "retouch", "store"} /\ co[p][c].result = "miss" => Query(p, c) \in blank
    /\ co[p][c].at \notin {"off", "lost", "resolved"} =>
          Elements(Candidates[c]) \subseteq blank \cup Elements(co[p][c].todo)
    /\ co[p][c].at = "resolved" /\ co[p][c].result # "hit" => Elements(Candidates[c]) \subseteq blank

BlankOK ==
    /\ \A q \in Queries : row[q] = "miss" => q \in blank
    /\ \A p \in Workers, c \in Cameras : MissOK(p, c)

GeoInv ==
    /\ TypesOK /\ TodoOK /\ TaskOK /\ LoopOK /\ KeyOK
    /\ HolderOK /\ LineOK /\ OvertakenOK /\ BlankOK

-----------------------------------------------------------------------------
\* What Head, Tail and Append do to a sequence and its elements.
LEMMA HeadTail ==
    ASSUME NEW S, NEW s \in Seq(S), s # <<>>
    PROVE  /\ Head(s) \in S /\ Tail(s) \in Seq(S)
           /\ Elements(s) = {Head(s)} \cup Elements(Tail(s))
           /\ 1 \in DOMAIN s /\ Head(s) = s[1]
           /\ \A i \in DOMAIN Tail(s) : i + 1 \in DOMAIN s /\ Tail(s)[i] = s[i + 1] /\ i \in Nat /\ i # 0
<1>1. Head(s) \in S /\ Tail(s) \in Seq(S) /\ Len(s) \in Nat /\ Len(s) > 0 /\ Head(s) = s[1]
    OBVIOUS
<1>2. DOMAIN Tail(s) = 1..(Len(s) - 1) /\ DOMAIN s = 1..Len(s)
    BY <1>1
<1>3. \A i \in DOMAIN Tail(s) : Tail(s)[i] = s[i + 1]
    BY <1>1, <1>2
<1>4. Elements(s) \subseteq {Head(s)} \cup Elements(Tail(s))
    <2> SUFFICES ASSUME NEW i \in 1..Len(s) PROVE s[i] \in {Head(s)} \cup Elements(Tail(s))
        BY <1>2 DEF Elements
    <2>1. CASE i = 1
        BY <2>1, <1>1
    <2>2. CASE i # 1
        <3>1. i - 1 \in DOMAIN Tail(s) /\ (i - 1) + 1 = i
            BY <2>2, <1>1, <1>2
        <3> QED
            BY <3>1, <1>3 DEF Elements
    <2> QED
        BY <2>1, <2>2
<1>5. {Head(s)} \cup Elements(Tail(s)) \subseteq Elements(s)
    <2>1. Head(s) \in Elements(s)
        BY <1>1, <1>2 DEF Elements
    <2>2. ASSUME NEW i \in DOMAIN Tail(s) PROVE Tail(s)[i] \in Elements(s)
        <3>1. i + 1 \in DOMAIN s
            BY <1>1, <1>2
        <3> QED
            BY <3>1, <1>3 DEF Elements
    <2> QED
        BY <2>1, <2>2 DEF Elements
<1> QED
    BY <1>1, <1>2, <1>3, <1>4, <1>5

\* A coroutine between start and answer has a query.
LEMMA QueryOK ==
    ASSUME GeoInv, NEW p \in Workers, NEW c \in Cameras,
           co[p][c].at \notin {"off", "resolved", "lost"}
    PROVE  Query(p, c) \in Queries /\ co[p][c].todo # <<>>
<1>1. co[p][c].todo \in Seq(Queries) /\ co[p][c].todo # <<>>
    BY DEF GeoInv, TypesOK, TodoOK, Coroutines
<1> QED
    BY <1>1, HeadTail DEF Query

\* Who stands in a line waits for its query; nobody stands there twice.
LEMMA WaiterOK ==
    ASSUME GeoInv, NEW r \in Workers, NEW q \in Queries, NEW i \in DOMAIN lock[r][q].waiters
    PROVE  /\ lock[r][q].waiters[i] \in Cameras
           /\ co[r][lock[r][q].waiters[i]].at = "wait"
           /\ Head(co[r][lock[r][q].waiters[i]].todo) = q
<1>1. lock[r][q] \in Locks
    BY DEF GeoInv, TypesOK
<1>2. lock[r][q].waiters \in Seq(Cameras)
    BY <1>1 DEF Locks
<1>3. lock[r][q].waiters[i] \in Cameras
    BY <1>2
<1>4. LineOK
    BY DEF GeoInv
<1> QED
    BY <1>3, <1>4 DEF LineOK, Query

LEMMA LineDistinct ==
    ASSUME GeoInv, NEW r \in Workers, NEW q \in Queries,
           NEW i \in DOMAIN lock[r][q].waiters, NEW j \in DOMAIN lock[r][q].waiters,
           lock[r][q].waiters[i] = lock[r][q].waiters[j]
    PROVE  i = j
<1>1. LineOK
    BY DEF GeoInv
<1> QED
    BY <1>1 DEF LineOK

\* A step in which nobody who waits moves keeps the lines.
LEMMA LineStays ==
    ASSUME GeoInv, lock' = lock,
           \A r \in Workers, c \in Cameras : co[r][c].at = "wait" => co'[r][c] = co[r][c]
    PROVE  LineOK'
<1> SUFFICES ASSUME NEW r \in Workers, NEW q \in Queries
             PROVE  /\ \A i \in DOMAIN lock'[r][q].waiters :
                          /\ co'[r][lock'[r][q].waiters[i]].at = "wait"
                          /\ Head(co'[r][lock'[r][q].waiters[i]].todo) = q
                    /\ \A i, j \in DOMAIN lock'[r][q].waiters :
                          lock'[r][q].waiters[i] = lock'[r][q].waiters[j] => i = j
    BY DEF LineOK, Query
<1>1. ASSUME NEW i \in DOMAIN lock[r][q].waiters
      PROVE  /\ co'[r][lock[r][q].waiters[i]].at = "wait"
             /\ Head(co'[r][lock[r][q].waiters[i]].todo) = q
    <2> DEFINE d == lock[r][q].waiters[i]
    <2>1. d \in Cameras /\ co[r][d].at = "wait" /\ Head(co[r][d].todo) = q
        BY WaiterOK
    <2> HIDE DEF d
    <2>2. co'[r][d] = co[r][d]
        BY <2>1
    <2>3. co'[r][d].at = "wait" /\ Head(co'[r][d].todo) = q
        BY <2>1, <2>2
    <2> QED
        BY <2>3 DEF d
<1>2. \A i, j \in DOMAIN lock[r][q].waiters : lock[r][q].waiters[i] = lock[r][q].waiters[j] => i = j
    BY LineDistinct
<1>3. lock' = lock
    OBVIOUS
<1> QED
    BY <1>1, <1>2, <1>3

\* Initially no coroutine runs and no row is stored.
LEMMA GeoInitInv == GeoInit => GeoInv
<1> SUFFICES ASSUME GeoInit PROVE GeoInv
    OBVIOUS
<1> USE GeoAssumption DEF GeoInit
<1>1. FreeLock \in Locks /\ Off \in Coroutines
    BY DEF FreeLock, Off, Locks, Coroutines, Ats, Results
<1>2. TypesOK
    BY <1>1 DEF TypesOK, Results
<1>3. TodoOK /\ TaskOK /\ LoopOK /\ KeyOK /\ HolderOK /\ OvertakenOK
    BY DEF TodoOK, TaskOK, LoopOK, KeyOK, HolderOK, OvertakenOK, FirstLoopLocksLoseNone, Off, FreeLock
<1>4. LineOK
    BY DEF LineOK, FreeLock
<1>5. BlankOK
    BY DEF BlankOK, MissOK, Off
<1> QED
    BY <1>2, <1>3, <1>4, <1>5 DEF GeoInv

-----------------------------------------------------------------------------
\* A coroutine that moves on by itself: nobody's lock, row or task changes.
LEMMA SoloMove ==
    ASSUME GeoInv, NEW p \in Workers, NEW c \in Cameras, NEW rec \in Coroutines,
           Step(p, c, rec), UNCHANGED <<row, key, lock, task, loop, begun, kills>>,
           co[p][c].at \notin {"off", "wait"},
           place' \in [Cameras -> {"found", "unknown"}],
           blank \subseteq blank', blank' \subseteq Queries,
           overtaken \ {<<p, c>>} \subseteq overtaken', overtaken' \subseteq Workers \X Cameras,
           hurt \ {<<p, c>>} \subseteq hurt', hurt' \subseteq Workers \X Cameras,
           rec.key <= begun,
           rec.todo = <<>> <=> rec.at \in {"off", "resolved", "lost"},
           rec.at = "lost" => loop[p] > 1 \/ <<p, c>> \in hurt',
           rec.at \in {"touch", "retouch", "store"} => rec.result # None,
           (/\ rec.at \in {"touch", "retouch"}
            /\ row[Head(rec.todo)] = None \/ key[Head(rec.todo)] # rec.key) => <<p, c>> \in hurt',
           rec.at \in {"recheck", "retouch", "fetch", "store"} => lock[p][Head(rec.todo)].holder = c,
           rec.at \in {"fetch", "store"} /\ row[Head(rec.todo)] # None => <<p, c>> \in overtaken',
           MissOK(p, c)'
    PROVE  GeoInv'
<1>1. /\ co' \in [Workers -> [Cameras -> Coroutines]]
      /\ co'[p][c] = rec
      /\ \A r \in Workers, d \in Cameras : r # p \/ d # c => co'[r][d] = co[r][d]
    BY DEF Step, GeoInv, TypesOK
<1>2. TypesOK'
    BY <1>1 DEF GeoInv, TypesOK
<1>3. TodoOK' /\ TaskOK' /\ LoopOK'
    <2>1. TodoOK'
        BY <1>1 DEF GeoInv, TodoOK
    <2>2. TaskOK'
        BY <1>1 DEF GeoInv, TaskOK
    <2>3. LoopOK'
        BY <1>1 DEF GeoInv, LoopOK, FirstLoopLocksLoseNone
    <2> QED
        BY <2>1, <2>2, <2>3
<1>8. KeyOK'
    BY <1>1 DEF GeoInv, KeyOK, Query
<1>4. HolderOK'
    BY <1>1 DEF GeoInv, HolderOK, Query
<1>5. LineOK'
    BY <1>1, LineStays
<1>6. OvertakenOK'
    BY <1>1 DEF GeoInv, OvertakenOK, Query
<1>7. BlankOK'
    <2> SUFFICES ASSUME NEW r \in Workers, NEW d \in Cameras PROVE MissOK(r, d)'
        BY DEF GeoInv, BlankOK
    <2>1. CASE r = p /\ d = c
        BY <2>1
    <2>2. CASE r # p \/ d # c
        <3>1. MissOK(r, d) /\ co'[r][d] = co[r][d]
            BY <2>2, <1>1 DEF GeoInv, BlankOK
        <3> QED
            BY <3>1 DEF MissOK, Query
    <2> QED
        BY <2>1, <2>2
<1> QED
    BY <1>2, <1>3, <1>4, <1>5, <1>6, <1>7, <1>8 DEF GeoInv

\* A coroutine that is off, and one that goes on from there.
LEMMA OffOK ==
    /\ Off \in Coroutines /\ Off.at = "off" /\ Off.todo = <<>> /\ Off.result = None /\ Off.key = 0
BY DEF Off, Coroutines, Ats, Results

LEMMA GoesOn ==
    ASSUME NEW k \in Coroutines, NEW at \in Ats
    PROVE  LET m == [k EXCEPT !.at = at]
           IN m \in Coroutines /\ m.at = at /\ m.todo = k.todo /\ m.result = k.result /\ m.key = k.key
BY DEF Coroutines

\* What the call for a query returns, hit or miss, keeps the search in order.
LEMMA ReturnedOK ==
    ASSUME GeoInv, NEW p \in Workers, NEW c \in Cameras, NEW answer \in {"hit", "miss"},
           co[p][c].at \in {"touch", "retouch", "store"},
           answer = "miss" => Query(p, c) \in blank
    PROVE  LET rec == Returned(p, c, answer)
           IN /\ rec \in Coroutines /\ rec.key = 0
              /\ rec.at \in {"resolved", "lookup"}
              /\ rec.todo = <<>> <=> rec.at = "resolved"
              /\ rec.at = "lookup" => Elements(Candidates[c]) \subseteq blank \cup Elements(rec.todo)
              /\ rec.at = "resolved" /\ rec.result # "hit" => Elements(Candidates[c]) \subseteq blank
<1>1. /\ co[p][c].todo \in Seq(Queries) /\ co[p][c].todo # <<>>
      /\ Elements(Candidates[c]) \subseteq blank \cup Elements(co[p][c].todo)
    BY DEF GeoInv, TypesOK, Coroutines, TodoOK, BlankOK, MissOK
<1>2. /\ Tail(co[p][c].todo) \in Seq(Queries)
      /\ Elements(co[p][c].todo) = {Query(p, c)} \cup Elements(Tail(co[p][c].todo))
    BY <1>1, HeadTail DEF Query
<1>6. /\ "resolved" \in Ats /\ "lookup" \in Ats /\ answer \in Results
      /\ Tail(co[p][c].todo) \in Seq(Queries)
    BY <1>2 DEF Ats, Results
<1>3. CASE answer = "hit"
    <2> DEFINE m == [Off EXCEPT !.at = "resolved", !.result = answer]
    <2>1. /\ m \in Coroutines /\ m.at = "resolved" /\ m.todo = <<>> /\ m.result = answer /\ m.key = 0
        BY <1>6, OffOK DEF Coroutines
    <2>2. Returned(p, c, answer) = m
        BY <1>3 DEF Returned
    <2> HIDE DEF m
    <2> QED
        BY <1>3, <2>1, <2>2
<1>4. CASE answer = "miss" /\ Tail(co[p][c].todo) = <<>>
    <2>1. Elements(Tail(co[p][c].todo)) = {}
        BY <1>4 DEF Elements
    <2>2. Elements(Candidates[c]) \subseteq blank
        BY <1>1, <1>2, <1>4, <2>1
    <2> DEFINE m == [Off EXCEPT !.at = "resolved", !.result = answer]
    <2>3. /\ m \in Coroutines /\ m.at = "resolved" /\ m.todo = <<>> /\ m.result = answer /\ m.key = 0
        BY <1>6, OffOK DEF Coroutines
    <2>4. Returned(p, c, answer) = m
        BY <1>4 DEF Returned
    <2> HIDE DEF m
    <2> QED
        BY <2>2, <2>3, <2>4
<1>5. CASE answer = "miss" /\ Tail(co[p][c].todo) # <<>>
    <2>1. Elements(Candidates[c]) \subseteq blank \cup Elements(Tail(co[p][c].todo))
        BY <1>1, <1>2, <1>5
    <2> DEFINE m == [Off EXCEPT !.at = "lookup", !.todo = Tail(co[p][c].todo)]
    <2>2. /\ m \in Coroutines /\ m.at = "lookup" /\ m.todo = Tail(co[p][c].todo) /\ m.key = 0
        BY <1>6, OffOK DEF Coroutines
    <2>3. Returned(p, c, answer) = m
        BY <1>5 DEF Returned
    <2> HIDE DEF m
    <2> QED
        BY <1>5, <2>1, <2>2, <2>3
<1> QED
    BY <1>3, <1>4, <1>5

\* A row has been read and its hits are about to be saved.
LEMMA ReadInv ==
    ASSUME GeoInv, NEW p \in Workers, NEW c \in Cameras, NEW at \in {"touch", "retouch"},
           co[p][c].at = IF at = "touch" THEN "lookup" ELSE "recheck",
           row[Query(p, c)] # None, Step(p, c, Read(p, c, at)),
           UNCHANGED <<row, key, lock, task, loop, place, begun, kills, blank, overtaken, hurt>>
    PROVE  GeoInv'
<1> DEFINE q == Query(p, c)
           rec == Read(p, c, at)
<1>1. co[p][c] \in Coroutines /\ MissOK(p, c) /\ co[p][c].todo # <<>>
    BY DEF GeoInv, TypesOK, TodoOK, BlankOK
<1>2. q \in Queries
    BY QueryOK
<1>3. /\ row[q] \in {"hit", "miss"} /\ (row[q] = "miss" => q \in blank)
      /\ key[q] \in Nat /\ key[q] <= begun
    BY <1>2 DEF GeoInv, TypesOK, BlankOK, KeyOK, Results
<1>4. /\ rec \in Coroutines /\ rec.at = at /\ rec.todo = co[p][c].todo
      /\ rec.result = row[q] /\ rec.key = key[q]
    BY <1>1, <1>3 DEF Read, Coroutines, Ats, Results
<1>5. Step(p, c, rec)
    OBVIOUS
<1> HIDE DEF rec
<1>6. co'[p][c] = rec
    BY <1>5 DEF Step, GeoInv, TypesOK
<1>7. Head(rec.todo) = q
    BY <1>4 DEF Query
<1>8. MissOK(p, c)'
    BY <1>1, <1>3, <1>4, <1>6, <1>7 DEF MissOK, Query
<1>9. at = "retouch" => lock[p][q].holder = c
    BY DEF GeoInv, HolderOK
<1>10. /\ place \in [Cameras -> {"found", "unknown"}] /\ blank \subseteq Queries
       /\ overtaken \subseteq Workers \X Cameras /\ hurt \subseteq Workers \X Cameras
    BY DEF GeoInv, TypesOK
<1>11. UNCHANGED <<row, key, lock, task, loop, begun, kills>> /\ co[p][c].at \notin {"off", "wait"}
    OBVIOUS
<1>12. /\ place' = place /\ blank' = blank /\ overtaken' = overtaken /\ hurt' = hurt
       /\ row[q] # None
    OBVIOUS
<1> HIDE DEF q
<1> QED
    BY <1>1, <1>3, <1>4, <1>5, <1>7, <1>8, <1>9, <1>10, <1>11, <1>12, SoloMove

\* geocode_query looks the query up.
LEMMA LookupInv ==
    ASSUME GeoInv, NEW p \in Workers, NEW c \in Cameras, Lookup(p, c)
    PROVE  GeoInv'
<1> DEFINE q == Query(p, c)
<1>1. co[p][c] \in Coroutines /\ co[p][c].at = "lookup" /\ MissOK(p, c) /\ co[p][c].key <= begun
    BY DEF GeoInv, TypesOK, BlankOK, KeyOK, Lookup
<1>2. UNCHANGED <<row, key, lock, task, loop, place, begun, kills, blank, overtaken, hurt>>
    BY DEF Lookup
<1>3. CASE row[q] = None
    <2> DEFINE rec == [co[p][c] EXCEPT !.at = "lock"]
    <2>1. rec \in Coroutines /\ rec.at = "lock" /\ rec.todo = co[p][c].todo /\ rec.key = co[p][c].key
        BY <1>1 DEF Coroutines, Ats
    <2>2. Step(p, c, rec)
        BY <1>3 DEF Lookup
    <2>3. co'[p][c] = rec
        BY <2>2 DEF Step, GeoInv, TypesOK
    <2>4. MissOK(p, c)'
        BY <1>1, <1>2, <2>1, <2>3 DEF MissOK
    <2>5. /\ co[p][c].todo # <<>> /\ place \in [Cameras -> {"found", "unknown"}] /\ blank \subseteq Queries
          /\ overtaken \subseteq Workers \X Cameras /\ hurt \subseteq Workers \X Cameras
        BY <1>1 DEF GeoInv, TodoOK, TypesOK
    <2> QED
        BY <1>1, <1>2, <2>1, <2>2, <2>4, <2>5, SoloMove
<1>4. CASE row[q] # None
    <2>1. Step(p, c, Read(p, c, "touch"))
        BY <1>4 DEF Lookup
    <2> QED
        BY <1>1, <1>2, <1>4, <2>1, ReadInv
<1> QED
    BY <1>3, <1>4

\* A lock with one more in its line.
LEMMA WaitingLock ==
    ASSUME NEW l \in Locks, NEW c \in Cameras, NEW n \in Nat
    PROVE  LET m == [l EXCEPT !.waiters = Append(@, c), !.bound = n]
           IN m \in Locks /\ m.bound <= n /\ m.holder = l.holder /\ m.waiters = Append(l.waiters, c)
<1> DEFINE w == Append(l.waiters, c)
<1>1. w \in Seq(Cameras)
    BY DEF Locks
<1> HIDE DEF w
<1>2. LET m == [l EXCEPT !.waiters = w, !.bound = n]
      IN m \in Locks /\ m.bound = n /\ m.holder = l.holder /\ m.waiters = w
    BY <1>1 DEF Locks
<1>3. n <= n
    OBVIOUS
<1>4. LET m == [l EXCEPT !.waiters = w, !.bound = n]
      IN m \in Locks /\ m.bound <= n /\ m.holder = l.holder /\ m.waiters = w
    BY <1>2, <1>3
<1> QED
    BY <1>4 DEF w

\* A coroutine that is lost.
LEMMA LostOK ==
    ASSUME GeoInv
    PROVE  Lost \in Coroutines /\ Lost.at = "lost" /\ Lost.todo = <<>> /\ Lost.key <= begun
<1>1. Lost \in Coroutines /\ Lost.at = "lost" /\ Lost.todo = <<>> /\ Lost.key = 0
    <2>1. "lost" \in Ats
        BY DEF Ats
    <2> QED
        BY <2>1, OffOK DEF Lost, Coroutines
<1>2. begun \in Nat
    BY GeoAssumption DEF GeoInv, TypesOK
<1> HIDE DEF Lost
<1> QED
    BY <1>1, <1>2

\* A free lock is taken, a taken one waited for; a lock of an earlier loop
\* loses the stream.
LEMMA AcquireInv ==
    ASSUME GeoInv, NEW p \in Workers, NEW c \in Cameras, Acquire(p, c)
    PROVE  GeoInv'
<1> DEFINE q == Query(p, c)
           l == lock[p][q]
<1>1. co[p][c] \in Coroutines /\ co[p][c].at = "lock" /\ co[p][c].todo # <<>> /\ MissOK(p, c)
    BY DEF GeoInv, TypesOK, TodoOK, BlankOK, Acquire
<1>2. q \in Queries /\ l \in Locks
    BY <1>1, HeadTail DEF Query, GeoInv, TypesOK, Coroutines
<1>3. UNCHANGED <<row, key, task, loop, place, begun, kills, blank, overtaken, hurt>>
    BY DEF Acquire
<1>4. CASE Taken(l) /\ ~MayWait(p, l)
    <2> DEFINE rec == Lost
    <2>1. rec \in Coroutines /\ rec.at = "lost" /\ rec.todo = <<>> /\ rec.key <= begun
        BY LostOK
    <2>2. Step(p, c, rec) /\ lock' = lock
        BY <1>4 DEF Acquire
    <2>3. loop[p] > 1
        BY <1>2, <1>4 DEF MayWait, GeoInv, LoopOK, TypesOK, Locks
    <2>4. co'[p][c] = rec
        BY <2>2 DEF Step, GeoInv, TypesOK
    <2>5. MissOK(p, c)'
        BY <2>1, <2>4 DEF MissOK
    <2>6. /\ place \in [Cameras -> {"found", "unknown"}] /\ blank \subseteq Queries
          /\ overtaken \subseteq Workers \X Cameras /\ hurt \subseteq Workers \X Cameras
        BY DEF GeoInv, TypesOK
    <2> HIDE DEF rec
    <2> QED
        BY <1>1, <1>3, <2>1, <2>2, <2>3, <2>5, <2>6, SoloMove
<1>5. ASSUME NEW at \in {"recheck", "wait"}, NEW m \in Locks,
             lock' = [lock EXCEPT ![p][q] = m], Step(p, c, [co[p][c] EXCEPT !.at = at]),
             m.bound <= loop[p],
             at = "recheck" => m.holder = c /\ m.waiters = l.waiters /\ l.holder = None,
             at = "wait" => m.holder = l.holder /\ m.waiters = Append(l.waiters, c)
      PROVE  GeoInv'
    <2>1. /\ co' \in [Workers -> [Cameras -> Coroutines]]
          /\ co'[p][c].at = at /\ co'[p][c].todo = co[p][c].todo /\ co'[p][c].result = co[p][c].result
          /\ co'[p][c].key = co[p][c].key
          /\ \A r \in Workers, d \in Cameras : r # p \/ d # c => co'[r][d] = co[r][d]
        BY <1>1, <1>5 DEF Step, GeoInv, TypesOK, Coroutines, Ats
    <2>2. /\ lock' \in [Workers -> [Queries -> Locks]]
          /\ lock'[p][q] = m
          /\ \A r \in Workers, s \in Queries : r # p \/ s # q => lock'[r][s] = lock[r][s]
        BY <1>2, <1>5 DEF GeoInv, TypesOK
    <2>3. TypesOK'
        BY <1>3, <2>1, <2>2 DEF GeoInv, TypesOK
    <2>4. TodoOK' /\ TaskOK' /\ LoopOK'
        <3>1. TodoOK'
            BY <1>1, <1>3, <2>1 DEF GeoInv, TodoOK
        <3>2. TaskOK'
            BY <1>1, <1>3, <2>1 DEF GeoInv, TaskOK
        <3>3. LoopOK'
            <4>1. \A r \in Workers, s \in Queries : lock'[r][s].bound <= loop'[r]
                BY <1>3, <1>5, <2>2 DEF GeoInv, LoopOK
            <4>2. FirstLoopLocksLoseNone'
                BY <1>3, <1>5, <2>1 DEF GeoInv, LoopOK, FirstLoopLocksLoseNone
            <4> QED
                BY <1>3, <4>1, <4>2 DEF GeoInv, LoopOK
        <3> QED
            BY <3>1, <3>2, <3>3
    <2>9. KeyOK'
        BY <1>3, <1>5, <2>1 DEF GeoInv, KeyOK, Query
    <2>5. HolderOK'
        <3> SUFFICES ASSUME NEW r \in Workers, NEW d \in Cameras,
                            co'[r][d].at \in {"recheck", "retouch", "fetch", "store"}
                     PROVE  lock'[r][Query(r, d)'].holder = d
            BY DEF HolderOK
        <3>1. CASE r = p /\ d = c
            BY <3>1, <1>5, <2>1, <2>2 DEF Query
        <3>2. CASE r # p \/ d # c
            <4>1. co'[r][d] = co[r][d] /\ lock[r][Query(r, d)].holder = d /\ Query(r, d)' = Query(r, d)
                BY <3>2, <2>1 DEF GeoInv, HolderOK, Query
            <4>2. Query(r, d) \in Queries
                BY <4>1, QueryOK
            <4>3. None \notin Cameras
                BY GeoAssumption
            <4> QED
                BY <4>1, <4>2, <4>3, <1>5, <2>2
        <3> QED
            BY <3>1, <3>2
    <2>6. LineOK'
        <3> SUFFICES ASSUME NEW r \in Workers, NEW s \in Queries
                     PROVE  /\ \A i \in DOMAIN lock'[r][s].waiters :
                                  /\ co'[r][lock'[r][s].waiters[i]].at = "wait"
                                  /\ Head(co'[r][lock'[r][s].waiters[i]].todo) = s
                            /\ \A i, j \in DOMAIN lock'[r][s].waiters :
                                  lock'[r][s].waiters[i] = lock'[r][s].waiters[j] => i = j
            BY DEF LineOK, Query
        <3>1. ASSUME NEW i \in DOMAIN lock[r][s].waiters
              PROVE  /\ co'[r][lock[r][s].waiters[i]].at = "wait"
                     /\ Head(co'[r][lock[r][s].waiters[i]].todo) = s
                     /\ r = p => lock[r][s].waiters[i] # c
            <4> DEFINE d == lock[r][s].waiters[i]
            <4>1. d \in Cameras
                BY WaiterOK
            <4>2. co[r][d].at = "wait" /\ Head(co[r][d].todo) = s
                BY WaiterOK
            <4> HIDE DEF d
            <4>3. (r = p => d # c) /\ co'[r][d] = co[r][d]
                BY <4>1, <4>2, <1>1, <2>1
            <4>4. co'[r][d].at = "wait" /\ Head(co'[r][d].todo) = s /\ (r = p => d # c)
                BY <4>2, <4>3
            <4> QED
                BY <4>4 DEF d
        <3>0. \A i, j \in DOMAIN lock[r][s].waiters : lock[r][s].waiters[i] = lock[r][s].waiters[j] => i = j
            BY LineDistinct
        <3>2. CASE lock'[r][s].waiters = lock[r][s].waiters
            BY <3>0, <3>1, <3>2
        <3>3. CASE lock'[r][s].waiters # lock[r][s].waiters
            <4>1. r = p /\ s = q /\ at = "wait" /\ lock'[r][s].waiters = Append(lock[r][s].waiters, c)
                BY <3>3, <2>2, <1>5
            <4>2. lock[r][s].waiters \in Seq(Cameras)
                BY DEF GeoInv, TypesOK, Locks
            <4>3. \A i \in DOMAIN lock'[r][s].waiters :
                     \/ i \in DOMAIN lock[r][s].waiters /\ lock'[r][s].waiters[i] = lock[r][s].waiters[i]
                     \/ i = Len(lock[r][s].waiters) + 1 /\ lock'[r][s].waiters[i] = c
                BY <4>1, <4>2
            <4>4. Head(co'[p][c].todo) = q
                BY <2>1 DEF Query
            <4>5. ASSUME NEW i \in DOMAIN lock'[r][s].waiters
                  PROVE  /\ co'[r][lock'[r][s].waiters[i]].at = "wait"
                         /\ Head(co'[r][lock'[r][s].waiters[i]].todo) = s
                <5>1. CASE i \in DOMAIN lock[r][s].waiters /\ lock'[r][s].waiters[i] = lock[r][s].waiters[i]
                    BY <5>1, <3>1
                <5>2. CASE lock'[r][s].waiters[i] = c
                    BY <5>2, <4>1, <4>4, <2>1
                <5> QED
                    BY <5>1, <5>2, <4>3
            <4>6. ASSUME NEW i \in DOMAIN lock'[r][s].waiters, NEW j \in DOMAIN lock'[r][s].waiters,
                         lock'[r][s].waiters[i] = lock'[r][s].waiters[j]
                  PROVE  i = j
                <5>1. \A k \in DOMAIN lock[r][s].waiters : lock[r][s].waiters[k] # c
                    BY <3>1, <4>1
                <5>2. CASE i \in DOMAIN lock[r][s].waiters /\ lock'[r][s].waiters[i] = lock[r][s].waiters[i]
                    BY <5>1, <5>2, <4>3, <4>6, <3>0
                <5>3. CASE i = Len(lock[r][s].waiters) + 1 /\ lock'[r][s].waiters[i] = c
                    BY <5>1, <5>3, <4>3, <4>6
                <5> QED
                    BY <5>2, <5>3, <4>3
            <4> QED
                BY <4>5, <4>6
        <3> QED
            BY <3>2, <3>3
    <2>7. OvertakenOK'
        BY <1>3, <1>5, <2>1 DEF GeoInv, OvertakenOK, Query
    <2>8. BlankOK'
        <3> SUFFICES ASSUME NEW r \in Workers, NEW d \in Cameras PROVE MissOK(r, d)'
            BY <1>3 DEF GeoInv, BlankOK
        <3>1. MissOK(r, d)
            BY DEF GeoInv, BlankOK
        <3> QED
            BY <3>1, <1>1, <1>3, <2>1 DEF MissOK, Query
    <2> QED
        BY <2>3, <2>4, <2>5, <2>6, <2>7, <2>8, <2>9 DEF GeoInv
<1>6. CASE ~Taken(l)
    <2> DEFINE m == [l EXCEPT !.holder = c]
    <2>1. m \in Locks /\ m.bound <= loop[p] /\ m.holder = c /\ m.waiters = l.waiters /\ l.holder = None
        BY <1>2, <1>6 DEF Locks, Taken, GeoInv, LoopOK
    <2>2. lock' = [lock EXCEPT ![p][q] = m] /\ Step(p, c, [co[p][c] EXCEPT !.at = "recheck"])
        BY <1>2, <1>6 DEF Acquire, GeoInv, TypesOK
    <2> QED
        BY <2>1, <2>2, <1>5
<1>7. CASE Taken(l) /\ MayWait(p, l)
    <2> DEFINE m == [l EXCEPT !.waiters = Append(@, c), !.bound = loop[p]]
    <2>1. m \in Locks /\ m.bound <= loop[p] /\ m.holder = l.holder /\ m.waiters = Append(l.waiters, c)
        <3>1. loop[p] \in Nat
            BY DEF GeoInv, TypesOK
        <3> QED
            BY <1>2, <3>1, WaitingLock
    <2>2. lock' = [lock EXCEPT ![p][q] = m] /\ Step(p, c, [co[p][c] EXCEPT !.at = "wait"])
        BY <1>2, <1>7 DEF Acquire, GeoInv, TypesOK
    <2> QED
        BY <2>1, <2>2, <1>5
<1> QED
    BY <1>4, <1>6, <1>7

\* A lock that is left.
LEMMA FreedLock ==
    ASSUME NEW l \in Locks
    PROVE  LET m == [l EXCEPT !.holder = None]
           IN m \in Locks /\ m.holder = None /\ m.waiters = l.waiters /\ m.bound = l.bound
BY DEF Locks

\* What ReleaseAnd does: the coroutine has its answer, and the next in line, if
\* there is one, has the lock.
HandedOn(p, c, next) ==
    /\ lock'[p][Query(p, c)].holder = next
    /\ \A r \in Workers, s \in Queries :
          /\ lock'[r][s].bound = lock[r][s].bound
          /\ r # p \/ s # Query(p, c) => lock'[r][s] = lock[r][s]
    /\ next = None => lock[p][Query(p, c)].waiters = <<>> /\ lock'[p][Query(p, c)].waiters = <<>>
    /\ next # None =>
          /\ lock[p][Query(p, c)].waiters # <<>>
          /\ next = lock[p][Query(p, c)].waiters[1]
          /\ lock'[p][Query(p, c)].waiters = Tail(lock[p][Query(p, c)].waiters)
          /\ co[p][next].at = "wait" /\ Query(p, next) = Query(p, c)
          /\ co'[p][next] = [co[p][next] EXCEPT !.at = "recheck"]
    /\ \A r \in Workers, d \in Cameras :
          r # p \/ d \notin {c, next} => co'[r][d] = co[r][d]

LEMMA ReleaseFrame ==
    ASSUME GeoInv, NEW p \in Workers, NEW c \in Cameras, NEW rec \in Coroutines,
           co[p][c].at \in {"recheck", "retouch", "store"}, ReleaseAnd(p, c, rec)
    PROVE  /\ lock' \in [Workers -> [Queries -> Locks]]
           /\ co' \in [Workers -> [Cameras -> Coroutines]]
           /\ co'[p][c] = rec
           /\ \E next \in Cameras \cup {None} : HandedOn(p, c, next)
<1> DEFINE q == Query(p, c)
           l == lock[p][q]
           line == l.waiters
<1>1. /\ q \in Queries /\ lock \in [Workers -> [Queries -> Locks]]
      /\ co \in [Workers -> [Cameras -> Coroutines]]
    BY QueryOK DEF GeoInv, TypesOK
<1>2. l \in Locks /\ line \in Seq(Cameras) /\ None \notin Cameras
    BY <1>1, GeoAssumption DEF Locks
<1>3. CASE line = <<>>
    <2> DEFINE m == [l EXCEPT !.holder = None]
    <2>1. lock' = [lock EXCEPT ![p][q] = m] /\ co' = [co EXCEPT ![p][c] = rec]
        BY <1>1, <1>3 DEF ReleaseAnd, Step
    <2>2. m \in Locks /\ m.holder = None /\ m.waiters = line /\ m.bound = l.bound
        BY <1>2, FreedLock
    <2> HIDE DEF q, m
    <2>3. lock' \in [Workers -> [Queries -> Locks]] /\ co' \in [Workers -> [Cameras -> Coroutines]]
        BY <1>1, <2>1, <2>2
    <2>4. lock'[p][q] = m /\ \A r \in Workers, s \in Queries : r # p \/ s # q => lock'[r][s] = lock[r][s]
        BY <1>1, <2>1
    <2>5. \A r \in Workers, s \in Queries : lock'[r][s].bound = lock[r][s].bound
        BY <2>2, <2>4
    <2>6. /\ co'[p][c] = rec
          /\ \A r \in Workers, d \in Cameras : r # p \/ d \notin {c, None} => co'[r][d] = co[r][d]
        BY <1>1, <2>1
    <2>7. HandedOn(p, c, None)
        BY <1>3, <2>2, <2>4, <2>5, <2>6 DEF q, HandedOn
    <2> QED
        BY <2>3, <2>6, <2>7
<1>4. CASE line # <<>>
    <2> DEFINE h == Head(line)
               m == [l EXCEPT !.holder = h, !.waiters = Tail(line)]
               k == [co[p][h] EXCEPT !.at = "recheck"]
    <2>1. /\ lock' = [lock EXCEPT ![p][q].holder = h, ![p][q].waiters = Tail(line)]
          /\ co' = [co EXCEPT ![p][c] = rec, ![p][h].at = "recheck"]
        BY <1>4 DEF ReleaseAnd
    <2>2. h \in Cameras /\ h # None /\ Tail(line) \in Seq(Cameras) /\ h = line[1] /\ 1 \in DOMAIN line
        BY <1>2, <1>4, HeadTail
    <2>3. co[p][h].at = "wait" /\ Query(p, h) = q /\ h # c
        BY <1>1, <2>2 DEF GeoInv, LineOK
    <2>4. m \in Locks /\ m.holder = h /\ m.waiters = Tail(line) /\ m.bound = l.bound
        <3> DEFINE w == Tail(line)
        <3>1. l \in Locks /\ w \in Seq(Cameras) /\ h \in Cameras \cup {None}
            BY <1>2, <2>2
        <3> HIDE DEF l, h, w
        <3>2. LET n == [l EXCEPT !.holder = h, !.waiters = w]
              IN n \in Locks /\ n.holder = h /\ n.waiters = w /\ n.bound = l.bound
            BY <3>1 DEF Locks
        <3> QED
            BY <3>2 DEF w
    <2>5. k \in Coroutines
        <3>1. co[p][h] \in Coroutines /\ "recheck" \in Ats
            BY <1>1, <2>2 DEF Ats
        <3> QED
            BY <3>1, GoesOn
    <2>6. lock' = [lock EXCEPT ![p][q] = m]
        BY <1>1, <2>1
    <2>7. co' = [co EXCEPT ![p][c] = rec, ![p][h] = k]
        BY <1>1, <2>1, <2>3
    <2>12. k = [co[p][h] EXCEPT !.at = "recheck"]
        OBVIOUS
    <2> HIDE DEF q, l, line, h, m, k
    <2>8. lock' \in [Workers -> [Queries -> Locks]] /\ lock'[p][q] = m
          /\ \A r \in Workers, s \in Queries : r # p \/ s # q => lock'[r][s] = lock[r][s]
        BY <1>1, <2>4, <2>6
    <2>9. /\ co' \in [Workers -> [Cameras -> Coroutines]]
          /\ co'[p][c] = rec /\ co'[p][h] = k
          /\ \A r \in Workers, d \in Cameras : r # p \/ d \notin {c, h} => co'[r][d] = co[r][d]
        BY <1>1, <2>2, <2>3, <2>5, <2>7
    <2>10. \A r \in Workers, s \in Queries : lock'[r][s].bound = lock[r][s].bound
        BY <2>4, <2>8 DEF l
    <2>11. HandedOn(p, c, h)
        BY <1>4, <2>2, <2>3, <2>4, <2>8, <2>9, <2>10, <2>12 DEF q, l, line, HandedOn
    <2> QED
        BY <2>2, <2>8, <2>9, <2>11
<1> QED
    BY <1>3, <1>4

\* A coroutine that answers or is lost and leaves its lock, with rows it may have
\* written.
LEMMA AnsweredInv ==
    ASSUME GeoInv, NEW p \in Workers, NEW c \in Cameras, NEW rec \in Coroutines,
           co[p][c].at \in {"recheck", "retouch", "store"}, rec.at \in {"resolved", "lookup", "lost"},
           ReleaseAnd(p, c, rec), UNCHANGED <<key, task, loop, place, begun, kills, blank>>,
           rec.todo = <<>> <=> rec.at \in {"resolved", "lost"}, rec.key <= begun,
           rec.at = "lookup" => Elements(Candidates[c]) \subseteq blank \cup Elements(rec.todo),
           rec.at = "resolved" /\ rec.result # "hit" => Elements(Candidates[c]) \subseteq blank,
           rec.at = "lost" => <<p, c>> \in hurt',
           row' \in [Queries -> Results],
           overtaken' \subseteq Workers \X Cameras,
           hurt \subseteq hurt', hurt' \subseteq Workers \X Cameras,
           \A q \in Queries : row'[q] = "miss" => q \in blank,
           \A q \in Queries : row'[q] = None => row[q] = None,
           \A r \in Workers, d \in Cameras :
              (/\ r # p \/ d # c
               /\ co[r][d].at \in {"fetch", "store"}
               /\ row'[Query(r, d)] # None) => <<r, d>> \in overtaken'
    PROVE  GeoInv'
<1> DEFINE q == Query(p, c)
<1>1. /\ lock' \in [Workers -> [Queries -> Locks]]
      /\ co' \in [Workers -> [Cameras -> Coroutines]]
      /\ co'[p][c] = rec
      /\ \E next \in Cameras \cup {None} : HandedOn(p, c, next)
    BY ReleaseFrame
<1>2. PICK next \in Cameras \cup {None} : HandedOn(p, c, next)
    BY <1>1
<1>3. q \in Queries /\ None \notin Cameras /\ co[p][c].todo # <<>> /\ task[p] # "none"
    BY QueryOK, GeoAssumption DEF GeoInv, TaskOK
<1>4. next \in Cameras => co[p][next].at = "wait" /\ next # c /\ Query(p, next) = q
    BY <1>2, <1>3 DEF HandedOn
<1>5. \A r \in Workers, d \in Cameras :
         \/ r = p /\ d = c /\ co'[r][d] = rec
         \/ /\ r = p /\ d = next /\ d # c /\ co[r][d].at = "wait" /\ Query(r, d) = q
            /\ co'[r][d].at = "recheck" /\ co'[r][d].todo = co[r][d].todo
            /\ co'[r][d].result = co[r][d].result /\ co'[r][d].key = co[r][d].key
         \/ (r # p \/ d \notin {c, next}) /\ co'[r][d] = co[r][d]
    <2> SUFFICES ASSUME NEW r \in Workers, NEW d \in Cameras, r = p, d = next
                 PROVE  /\ d # c /\ co[r][d].at = "wait" /\ Query(r, d) = q
                        /\ co'[r][d].at = "recheck" /\ co'[r][d].todo = co[r][d].todo
                        /\ co'[r][d].result = co[r][d].result /\ co'[r][d].key = co[r][d].key
        BY <1>1, <1>2 DEF HandedOn
    <2>1. co'[p][d] = [co[p][d] EXCEPT !.at = "recheck"] /\ co[p][d] \in Coroutines
        BY <1>2, <1>3 DEF HandedOn, GeoInv, TypesOK
    <2>2. /\ co'[p][d].at = "recheck" /\ co'[p][d].todo = co[p][d].todo
          /\ co'[p][d].result = co[p][d].result /\ co'[p][d].key = co[p][d].key
        BY <2>1 DEF Coroutines
    <2> QED
        BY <2>2, <1>4
<1>6. TypesOK'
    BY <1>1 DEF GeoInv, TypesOK
<1>7. TodoOK'
    BY <1>5 DEF GeoInv, TodoOK
<1>8. TaskOK'
    BY <1>3, <1>5 DEF GeoInv, TaskOK
<1>9. LoopOK'
    <2>1. \A r \in Workers, s \in Queries : lock'[r][s].bound <= loop'[r]
        BY <1>2 DEF HandedOn, GeoInv, LoopOK
    <2>2. FirstLoopLocksLoseNone'
        BY <1>5 DEF GeoInv, LoopOK, FirstLoopLocksLoseNone
    <2> QED
        BY <2>1, <2>2 DEF GeoInv, LoopOK
<1>14. KeyOK'
    <2> SUFFICES ASSUME NEW r \in Workers, NEW d \in Cameras
                 PROVE  /\ co'[r][d].key <= begun
                        /\ (/\ co'[r][d].at \in {"touch", "retouch"}
                            /\ \/ row'[Head(co'[r][d].todo)] = None
                               \/ key[Head(co'[r][d].todo)] # co'[r][d].key) => <<r, d>> \in hurt'
        BY DEF GeoInv, KeyOK, Query
    <2>1. co'[r][d].key <= begun
        BY <1>5 DEF GeoInv, KeyOK
    <2>2. CASE co'[r][d].at \in {"touch", "retouch"}
        <3>1. co'[r][d] = co[r][d]
            BY <2>2, <1>5
        <3>2. Query(r, d) \in Queries /\ Query(r, d) = Head(co'[r][d].todo)
            BY <2>2, <3>1, QueryOK DEF Query
        <3> QED
            BY <2>1, <2>2, <3>1, <3>2 DEF GeoInv, KeyOK
    <2> QED
        BY <2>1, <2>2
<1>10. HolderOK'
    <2> SUFFICES ASSUME NEW r \in Workers, NEW d \in Cameras,
                        co'[r][d].at \in {"recheck", "retouch", "fetch", "store"}
                 PROVE  lock'[r][Head(co'[r][d].todo)].holder = d
        BY DEF HolderOK, Query
    <2>1. CASE r = p /\ d = next
        BY <2>1, <1>2, <1>4, <1>5 DEF HandedOn, Query
    <2>2. CASE (r # p \/ d \notin {c, next}) /\ co'[r][d] = co[r][d]
        <3>1. lock[r][Query(r, d)].holder = d /\ Query(r, d) \in Queries
            BY <2>2, QueryOK DEF GeoInv, HolderOK
        <3>2. r # p \/ Query(r, d) # q
            BY <3>1, <2>2 DEF GeoInv, HolderOK
        <3>3. lock'[r][Query(r, d)] = lock[r][Query(r, d)]
            BY <3>1, <3>2, <1>2 DEF HandedOn
        <3>4. Head(co'[r][d].todo) = Query(r, d)
            BY <2>2 DEF Query
        <3> QED
            BY <3>1, <3>3, <3>4
    <2> QED
        BY <2>1, <2>2, <1>5
<1>11. LineOK'
    <2> SUFFICES ASSUME NEW r \in Workers, NEW s \in Queries
                 PROVE  /\ \A i \in DOMAIN lock'[r][s].waiters :
                              /\ co'[r][lock'[r][s].waiters[i]].at = "wait"
                              /\ Head(co'[r][lock'[r][s].waiters[i]].todo) = s
                        /\ \A i, j \in DOMAIN lock'[r][s].waiters :
                              lock'[r][s].waiters[i] = lock'[r][s].waiters[j] => i = j
        BY DEF LineOK, Query
    <2> DEFINE w == lock[r][s].waiters
    <2>1. w \in Seq(Cameras)
        BY DEF GeoInv, TypesOK, Locks
    <2>2. \A i \in DOMAIN w : w[i] \in Cameras /\ co[r][w[i]].at = "wait" /\ Head(co[r][w[i]].todo) = s
        BY WaiterOK
    <2>3. \A i, j \in DOMAIN w : w[i] = w[j] => i = j
        BY LineDistinct
    <2>4. \A i \in DOMAIN w : (r # p \/ w[i] # next) =>
             co'[r][w[i]].at = "wait" /\ Head(co'[r][w[i]].todo) = s
        <3> SUFFICES ASSUME NEW i \in DOMAIN w, r # p \/ w[i] # next
                     PROVE  co'[r][w[i]].at = "wait" /\ Head(co'[r][w[i]].todo) = s
            OBVIOUS
        <3> DEFINE d == w[i]
        <3>1. d \in Cameras /\ co[r][d].at = "wait" /\ Head(co[r][d].todo) = s /\ (r # p \/ d # next)
            BY <2>2
        <3> HIDE DEF d
        <3>2. co'[r][d] = co[r][d]
            BY <3>1, <1>5
        <3>3. co'[r][d].at = "wait" /\ Head(co'[r][d].todo) = s
            BY <3>1, <3>2
        <3> QED
            BY <3>3 DEF d
    <2>5. CASE r # p \/ s # q
        <3>1. lock'[r][s].waiters = w
            BY <2>5, <1>2 DEF HandedOn
        <3>2. \A i \in DOMAIN w : r # p \/ w[i] # next
            BY <2>2, <2>5, <1>4 DEF Query
        <3> QED
            BY <3>1, <3>2, <2>3, <2>4
    <2>6. CASE r = p /\ s = q /\ next = None
        <3>1. lock'[r][s].waiters = <<>>
            BY <2>6, <1>2 DEF HandedOn
        <3> QED
            BY <3>1
    <2>7. CASE r = p /\ s = q /\ next # None
        <3>1. w # <<>> /\ next = w[1] /\ lock'[r][s].waiters = Tail(w)
            BY <2>7, <1>2 DEF HandedOn
        <3>2. /\ 1 \in DOMAIN w
              /\ \A i \in DOMAIN Tail(w) :
                    i + 1 \in DOMAIN w /\ Tail(w)[i] = w[i + 1] /\ i \in Nat /\ i # 0
            BY <2>1, <3>1, HeadTail
        <3>3. \A i \in DOMAIN Tail(w) : w[i + 1] # next /\ i + 1 \in DOMAIN w /\ Tail(w)[i] = w[i + 1]
            <4> SUFFICES ASSUME NEW i \in DOMAIN Tail(w) PROVE w[i + 1] # w[1]
                BY <3>1, <3>2
            <4>1. i + 1 # 1
                BY <3>2
            <4> QED
                BY <4>1, <3>2, <2>3
        <3> HIDE DEF w
        <3>4. \A i \in DOMAIN Tail(w) : co'[r][Tail(w)[i]].at = "wait" /\ Head(co'[r][Tail(w)[i]].todo) = s
            BY <3>3, <2>4
        <3>5. \A i, j \in DOMAIN Tail(w) : Tail(w)[i] = Tail(w)[j] => i = j
            <4> SUFFICES ASSUME NEW i \in DOMAIN Tail(w), NEW j \in DOMAIN Tail(w), Tail(w)[i] = Tail(w)[j]
                         PROVE  i = j
                OBVIOUS
            <4>1. i + 1 = j + 1
                BY <3>3, <2>3
            <4>2. i \in Nat /\ j \in Nat
                BY <3>2
            <4> QED
                BY <4>1, <4>2
        <3> QED
            BY <3>1, <3>4, <3>5
    <2> QED
        BY <1>2, <2>5, <2>6, <2>7
<1>12. OvertakenOK'
    <2> SUFFICES ASSUME NEW r \in Workers, NEW d \in Cameras,
                        co'[r][d].at \in {"fetch", "store"}, row'[Head(co'[r][d].todo)] # None
                 PROVE  <<r, d>> \in overtaken'
        BY DEF OvertakenOK, Query
    <2>1. (r # p \/ d # c) /\ co'[r][d] = co[r][d]
        BY <1>5
    <2> QED
        BY <2>1 DEF Query
<1>13. BlankOK'
    <2> SUFFICES ASSUME NEW r \in Workers, NEW d \in Cameras PROVE MissOK(r, d)'
        BY DEF GeoInv, BlankOK
    <2>1. CASE r = p /\ d = c
        BY <2>1, <1>1 DEF MissOK
    <2>2. CASE r # p \/ d # c
        <3>1. MissOK(r, d)
            BY DEF GeoInv, BlankOK
        <3> QED
            BY <3>1, <2>2, <1>5 DEF MissOK, Query
    <2> QED
        BY <2>1, <2>2
<1> QED
    BY <1>6, <1>7, <1>8, <1>9, <1>10, <1>11, <1>12, <1>13, <1>14 DEF GeoInv

\* The second lookup, under the lock.
LEMMA RecheckInv ==
    ASSUME GeoInv, NEW p \in Workers, NEW c \in Cameras, Recheck(p, c)
    PROVE  GeoInv'
<1> DEFINE q == Query(p, c)
<1>1. /\ co[p][c] \in Coroutines /\ co[p][c].at = "recheck" /\ MissOK(p, c)
      /\ co[p][c].todo # <<>> /\ co[p][c].key <= begun
    BY DEF GeoInv, TypesOK, BlankOK, TodoOK, KeyOK, Recheck
<1>2. q \in Queries /\ lock[p][q].holder = c
    BY <1>1, QueryOK DEF GeoInv, HolderOK
<1>3. UNCHANGED <<row, key, lock, task, loop, place, begun, kills, blank, overtaken, hurt>>
    BY DEF Recheck
<1>4. /\ place \in [Cameras -> {"found", "unknown"}] /\ blank \subseteq Queries
      /\ overtaken \subseteq Workers \X Cameras /\ hurt \subseteq Workers \X Cameras
    BY DEF GeoInv, TypesOK
<1>5. CASE row[q] = None
    <2> DEFINE rec == [co[p][c] EXCEPT !.at = "fetch"]
    <2>1. rec \in Coroutines /\ rec.at = "fetch" /\ rec.todo = co[p][c].todo /\ rec.key = co[p][c].key
        BY <1>1 DEF Coroutines, Ats
    <2>2. Step(p, c, rec)
        BY <1>5 DEF Recheck
    <2>3. co'[p][c] = rec
        BY <2>2 DEF Step, GeoInv, TypesOK
    <2>4. MissOK(p, c)'
        BY <1>1, <1>3, <2>1, <2>3 DEF MissOK
    <2>5. lock[p][Head(rec.todo)].holder = c /\ row[Head(rec.todo)] = None
        BY <1>2, <1>5, <2>1 DEF Query
    <2> HIDE DEF rec
    <2> QED
        BY <1>1, <1>3, <1>4, <2>1, <2>2, <2>4, <2>5, SoloMove
<1>6. CASE row[q] # None
    <2>1. Step(p, c, Read(p, c, "retouch"))
        BY <1>6 DEF Recheck
    <2> QED
        BY <1>1, <1>3, <1>6, <2>1, ReadInv
<1> QED
    BY <1>5, <1>6

\* geocode_query ends: its coroutine goes on with rec, and the rows stay.
LEMMA LeaveInv ==
    ASSUME GeoInv, NEW p \in Workers, NEW c \in Cameras, NEW rec \in Coroutines, Leave(p, c, rec),
           co[p][c].at \in {"lookup", "touch", "recheck", "retouch", "store"},
           UNCHANGED <<row, key, task, loop, place, begun, kills, blank>>,
           overtaken \ {<<p, c>>} \subseteq overtaken', overtaken' \subseteq Workers \X Cameras,
           hurt \subseteq hurt', hurt' \subseteq Workers \X Cameras,
           rec.at \in {"resolved", "lookup", "lost"}, rec.key <= begun,
           rec.todo = <<>> <=> rec.at \in {"resolved", "lost"},
           rec.at = "lost" => <<p, c>> \in hurt',
           rec.at = "lookup" => Elements(Candidates[c]) \subseteq blank \cup Elements(rec.todo),
           rec.at = "resolved" /\ rec.result # "hit" => Elements(Candidates[c]) \subseteq blank
    PROVE  GeoInv'
<1>1. /\ row \in [Queries -> Results] /\ \A q \in Queries : row[q] = "miss" => q \in blank
      /\ place \in [Cameras -> {"found", "unknown"}] /\ blank \subseteq Queries
    BY DEF GeoInv, TypesOK, BlankOK
<1>2. CASE co[p][c].at \in {"recheck", "retouch", "store"}
    <2>1. ReleaseAnd(p, c, rec)
        BY <1>2 DEF Leave
    <2>2. \A r \in Workers, d \in Cameras :
             (/\ r # p \/ d # c
              /\ co[r][d].at \in {"fetch", "store"}
              /\ row'[Query(r, d)] # None) => <<r, d>> \in overtaken'
        BY DEF GeoInv, OvertakenOK
    <2>3. /\ row' \in [Queries -> Results] /\ \A q \in Queries : row'[q] = "miss" => q \in blank
          /\ \A q \in Queries : row'[q] = None => row[q] = None
        BY <1>1
    <2> QED
        BY <1>2, <2>1, <2>2, <2>3, AnsweredInv
<1>3. CASE co[p][c].at \in {"lookup", "touch"}
    <2>1. Step(p, c, rec) /\ lock' = lock
        BY <1>3 DEF Leave
    <2>2. co'[p][c] = rec
        BY <2>1 DEF Step, GeoInv, TypesOK
    <2>3. MissOK(p, c)'
        BY <2>2 DEF MissOK
    <2> QED
        BY <1>1, <1>3, <2>1, <2>3, SoloMove
<1> QED
    BY <1>2, <1>3

\* The hits are saved, unless the row was deleted since it was read.
LEMMA SaveHitsInv ==
    ASSUME GeoInv, NEW p \in Workers, NEW c \in Cameras, SaveHits(p, c)
    PROVE  GeoInv'
<1> DEFINE q == Query(p, c)
           there == row[q] # None /\ key[q] = co[p][c].key
           answer == co[p][c].result
           back == Returned(p, c, answer)
<1>1. co[p][c] \in Coroutines /\ co[p][c].at \in {"touch", "retouch"} /\ MissOK(p, c)
    BY DEF GeoInv, TypesOK, BlankOK, SaveHits
<1>2. /\ Leave(p, c, IF there THEN back ELSE Lost)
      /\ UNCHANGED <<row, key, task, loop, place, begun, kills, blank, overtaken, hurt>>
    BY DEF SaveHits
<1>3. answer \in {"hit", "miss"} /\ (answer = "miss" => q \in blank)
    BY <1>1 DEF MissOK, GeoInv, TodoOK, Coroutines, Results
<1>4. overtaken \subseteq Workers \X Cameras /\ hurt \subseteq Workers \X Cameras /\ begun \in Nat
    BY GeoAssumption DEF GeoInv, TypesOK
<1>5. CASE there
    <2>1. /\ back \in Coroutines /\ back.at \in {"resolved", "lookup"} /\ back.key = 0
          /\ back.todo = <<>> <=> back.at = "resolved"
          /\ back.at = "lookup" => Elements(Candidates[c]) \subseteq blank \cup Elements(back.todo)
          /\ back.at = "resolved" /\ back.result # "hit" => Elements(Candidates[c]) \subseteq blank
        BY <1>1, <1>3, ReturnedOK
    <2>2. Leave(p, c, back)
        BY <1>2, <1>5
    <2> HIDE DEF back
    <2>3. back.key <= begun
        BY <1>4, <2>1
    <2> QED
        BY <1>1, <1>2, <1>4, <2>1, <2>2, <2>3, LeaveInv
<1>6. CASE ~there
    <2>1. <<p, c>> \in hurt
        BY <1>1, <1>6 DEF GeoInv, KeyOK
    <2>2. Leave(p, c, Lost)
        BY <1>2, <1>6
    <2> QED
        BY <1>1, <1>2, <1>4, <2>1, <2>2, LostOK, LeaveInv
<1> QED
    BY <1>5, <1>6

\* The database fails.
LEMMA DatabaseRaisesInv ==
    ASSUME GeoInv, NEW p \in Workers, NEW c \in Cameras, DatabaseRaises(p, c)
    PROVE  GeoInv'
<1>1. /\ co[p][c].at \in {"lookup", "touch", "recheck", "retouch", "store"} /\ Leave(p, c, Lost)
      /\ hurt' = hurt \cup {<<p, c>>} /\ overtaken' = overtaken \ {<<p, c>>}
      /\ UNCHANGED <<row, key, task, loop, place, begun, kills, blank>>
    BY DEF DatabaseRaises
<1>2. overtaken' \subseteq Workers \X Cameras /\ hurt' \subseteq Workers \X Cameras
    BY <1>1 DEF GeoInv, TypesOK
<1> QED
    BY <1>1, <1>2, LostOK, LeaveInv

\* The geocoder answers.
LEMMA FetchInv ==
    ASSUME GeoInv, NEW p \in Workers, NEW c \in Cameras, Fetch(p, c)
    PROVE  GeoInv'
<1>1. /\ co[p][c] \in Coroutines /\ co[p][c].at = "fetch" /\ MissOK(p, c)
      /\ co[p][c].todo # <<>> /\ co[p][c].key <= begun
    BY DEF GeoInv, TypesOK, BlankOK, TodoOK, KeyOK, Fetch
<1>2. Query(p, c) \in Queries /\ lock[p][Query(p, c)].holder = c
    BY <1>1, QueryOK DEF GeoInv, HolderOK
<1>3. UNCHANGED <<row, key, lock, task, loop, place, begun, kills, overtaken, hurt>>
    BY DEF Fetch
<1>4. PICK answer \in {"hit", "miss"} :
        /\ Step(p, c, [co[p][c] EXCEPT !.at = "store", !.result = answer])
        /\ blank' = IF answer = "miss" THEN blank \cup {Query(p, c)} ELSE blank
    BY DEF Fetch
<1> DEFINE rec == [co[p][c] EXCEPT !.at = "store", !.result = answer]
<1>5. /\ rec \in Coroutines /\ rec.at = "store" /\ rec.todo = co[p][c].todo
      /\ rec.result = answer /\ rec.key = co[p][c].key
    BY <1>1 DEF Coroutines, Ats, Results
<1>6. Step(p, c, rec)
    BY <1>4
<1>7. co'[p][c] = rec
    BY <1>6 DEF Step, GeoInv, TypesOK
<1> HIDE DEF rec
<1>8. /\ blank \subseteq blank' /\ blank' \subseteq Queries /\ place \in [Cameras -> {"found", "unknown"}]
      /\ overtaken \subseteq Workers \X Cameras /\ hurt \subseteq Workers \X Cameras
    BY <1>2, <1>4 DEF GeoInv, TypesOK
<1>9. MissOK(p, c)'
    BY <1>1, <1>4, <1>5, <1>7, <1>8 DEF MissOK, Query
<1>10. /\ lock[p][Head(rec.todo)].holder = c
       /\ row[Head(rec.todo)] # None => <<p, c>> \in overtaken
    BY <1>1, <1>2, <1>5 DEF Query, GeoInv, OvertakenOK
<1> QED
    BY <1>1, <1>3, <1>5, <1>6, <1>8, <1>9, <1>10, GeoAssumption, SoloMove

\* The answer is stored and the lock left.
LEMMA StoreInv ==
    ASSUME GeoInv, NEW p \in Workers, NEW c \in Cameras, Store(p, c)
    PROVE  GeoInv'
<1> DEFINE q == Query(p, c)
           answer == co[p][c].result
           rec == Returned(p, c, answer)
<1>1. co[p][c] \in Coroutines /\ co[p][c].at = "store" /\ MissOK(p, c)
    BY DEF GeoInv, TypesOK, BlankOK, Store
<1>2. q \in Queries /\ lock[p][q].holder = c
    BY <1>1, QueryOK DEF GeoInv, HolderOK
<1>3. /\ row' = [row EXCEPT ![q] = answer]
      /\ ReleaseAnd(p, c, rec)
      /\ overtaken' = (overtaken \ {<<p, c>>}) \cup Overtaken(p, {q})
      /\ UNCHANGED <<key, task, loop, place, begun, kills, blank, hurt>>
    BY DEF Store
<1>4. answer \in {"hit", "miss"} /\ (answer = "miss" => q \in blank)
    BY <1>1 DEF MissOK, GeoInv, TodoOK, Coroutines, Results
<1>5. /\ rec \in Coroutines /\ rec.at \in {"resolved", "lookup"} /\ rec.key = 0
      /\ rec.todo = <<>> <=> rec.at = "resolved"
      /\ rec.at = "lookup" => Elements(Candidates[c]) \subseteq blank \cup Elements(rec.todo)
      /\ rec.at = "resolved" /\ rec.result # "hit" => Elements(Candidates[c]) \subseteq blank
    BY <1>1, <1>4, ReturnedOK
<1>6. /\ row' \in [Queries -> Results] /\ \A s \in Queries : row'[s] = "miss" => s \in blank
      /\ \A s \in Queries : row'[s] = None => row[s] = None
    BY <1>2, <1>3, <1>4, GeoAssumption DEF GeoInv, TypesOK, BlankOK, Results
<1>7. overtaken' \subseteq Workers \X Cameras /\ hurt \subseteq Workers \X Cameras /\ begun \in Nat
    BY <1>3, GeoAssumption DEF GeoInv, TypesOK, Overtaken, Others
<1>8. ASSUME NEW r \in Workers, NEW d \in Cameras, r # p \/ d # c,
             co[r][d].at \in {"fetch", "store"}, row'[Query(r, d)] # None
      PROVE  <<r, d>> \in overtaken'
    <2>1. Query(r, d) \in Queries /\ lock[r][Query(r, d)].holder = d
        BY <1>8, QueryOK DEF GeoInv, HolderOK
    <2>2. CASE Query(r, d) # q
        <3>1. <<r, d>> \in overtaken
            BY <1>2, <1>3, <1>8, <2>1, <2>2 DEF GeoInv, OvertakenOK, TypesOK
        <3> QED
            BY <3>1, <1>3, <1>8
    <2>3. CASE Query(r, d) = q
        <3>1. r # p
            BY <2>1, <2>3, <1>2, <1>8
        <3>2. <<r, d>> \in Overtaken(p, {q})
            BY <3>1, <2>3, <1>8 DEF Overtaken, Others
        <3> QED
            BY <3>2, <1>3
    <2> QED
        BY <2>2, <2>3
<1>9. \A r \in Workers, d \in Cameras :
         (/\ r # p \/ d # c
          /\ co[r][d].at \in {"fetch", "store"}
          /\ row'[Query(r, d)] # None) => <<r, d>> \in overtaken'
    BY <1>8
<1> HIDE DEF rec, q, answer
<1>10. rec.key <= begun
    BY <1>5, <1>7
<1>11. hurt \subseteq hurt' /\ hurt' \subseteq Workers \X Cameras
    BY <1>3, <1>7
<1> QED
    BY <1>1, <1>3, <1>5, <1>6, <1>7, <1>9, <1>10, <1>11, AnsweredInv

\* The answer reaches the camera.
LEMMA StorePlaceInv ==
    ASSUME GeoInv, NEW p \in Workers, NEW c \in Cameras, StorePlace(p, c) \/ Skip(p, c)
    PROVE  GeoInv'
<1>1. /\ co[p][c].at \in {"resolved", "lost"}
      /\ Step(p, c, Off) /\ UNCHANGED <<row, key, lock, task, loop, begun, kills, blank, overtaken>>
    BY DEF StorePlace, Skip
<1>2. /\ place' \in [Cameras -> {"found", "unknown"}] /\ blank \subseteq Queries
      /\ overtaken \subseteq Workers \X Cameras
      /\ hurt \ {<<p, c>>} \subseteq hurt' /\ hurt' \subseteq Workers \X Cameras
    BY DEF GeoInv, TypesOK, StorePlace, Skip
<1>3. Off \in Coroutines /\ Off.at = "off" /\ Off.todo = <<>> /\ Off.key = 0
    BY DEF Off, Coroutines, Ats, Results
<1>4. co'[p][c] = Off
    BY <1>1 DEF Step, GeoInv, TypesOK
<1>5. MissOK(p, c)'
    BY <1>3, <1>4 DEF MissOK
<1> HIDE DEF Off
<1>6. Off.key <= begun
    BY <1>3, GeoAssumption DEF GeoInv, TypesOK
<1> QED
    BY <1>1, <1>2, <1>3, <1>5, <1>6, SoloMove

-----------------------------------------------------------------------------
\* A coroutine that starts.
LEMMA ResolvingOK ==
    ASSUME NEW c \in Cameras
    PROVE  LET k == Resolving(c)
           IN /\ k \in Coroutines /\ k.at = "lookup" /\ k.todo = Candidates[c]
              /\ k.todo # <<>> /\ k.key = 0
<1>1. "lookup" \in Ats /\ None \in Results /\ Candidates[c] \in Seq(Queries) /\ Candidates[c] # <<>>
    BY GeoAssumption DEF Ats, Results
<1> QED
    BY <1>1, OffOK DEF Resolving, Coroutines

\* A task begins or ends while no coroutine of the process runs: rows are at
\* most deleted.
LEMMA TaskMove ==
    ASSUME GeoInv, NEW p \in Workers, \A c \in Cameras : co[p][c].at = "off",
           co' \in [Workers -> [Cameras -> Coroutines]],
           \A r \in Workers, c \in Cameras :
              co'[r][c] = co[r][c] \/ (r = p /\ co'[r][c] = Resolving(c)),
           task' \in [Workers -> {"none", "scrape", "refresh"}],
           \A r \in Workers : r # p => task'[r] = task[r],
           task'[p] = "none" => co' = co,
           loop' \in [Workers -> Nat], begun' \in 0..MaxTasks,
           \A r \in Workers : loop[r] <= loop'[r] /\ loop'[r] <= begun',
           begun <= begun', row' \in [Queries -> Results], key' \in [Queries -> Nat],
           \A q \in Queries : row'[q] \in {row[q], None} /\ key'[q] <= begun',
           overtaken \subseteq overtaken', overtaken' \subseteq Workers \X Cameras,
           hurt \subseteq hurt', hurt' \subseteq Workers \X Cameras,
           \A r \in Workers, c \in Cameras :
              (/\ co[r][c].at \in {"touch", "retouch"}
               /\ row'[Query(r, c)] = None \/ key'[Query(r, c)] # co[r][c].key) => <<r, c>> \in hurt',
           UNCHANGED <<lock, place, kills, blank>>
    PROVE  GeoInv'
<1>1. \A c \in Cameras :
         LET k == Resolving(c)
         IN k.at = "lookup" /\ k.todo = Candidates[c] /\ k.todo # <<>> /\ k.key = 0
    BY ResolvingOK
<1>2. \A r \in Workers, c \in Cameras :
         co'[r][c] = co[r][c] \/ (r = p /\ co'[r][c].at = "lookup" /\ co[r][c].at = "off")
    BY <1>1
<1>3. TypesOK'
    BY DEF GeoInv, TypesOK
<1>4. TodoOK'
    <2> SUFFICES ASSUME NEW r \in Workers, NEW c \in Cameras
                 PROVE  /\ co'[r][c].todo = <<>> <=> co'[r][c].at \in {"off", "resolved", "lost"}
                        /\ co'[r][c].at \in {"touch", "retouch", "store"} => co'[r][c].result # None
        BY DEF TodoOK
    <2>1. CASE co'[r][c] = co[r][c]
        BY <2>1 DEF GeoInv, TodoOK
    <2>2. CASE co'[r][c] = Resolving(c)
        BY <2>2, <1>1
    <2> QED
        BY <2>1, <2>2
<1>5. TaskOK'
    BY <1>2 DEF GeoInv, TaskOK
<1>6. LoopOK'
    <2>1. \A r \in Workers : loop[r] \in Nat /\ loop'[r] \in Nat
        BY DEF GeoInv, TypesOK
    <2>2. \A r \in Workers, q \in Queries : lock'[r][q].bound <= loop'[r]
        <3> SUFFICES ASSUME NEW r \in Workers, NEW q \in Queries PROVE lock[r][q].bound <= loop'[r]
            OBVIOUS
        <3>1. lock[r][q].bound \in Nat /\ lock[r][q].bound <= loop[r] /\ loop[r] <= loop'[r]
            BY DEF GeoInv, TypesOK, LoopOK, Locks
        <3> QED
            BY <3>1, <2>1
    <2>3. FirstLoopLocksLoseNone'
        <3> SUFFICES ASSUME NEW r \in Workers, NEW c \in Cameras, co'[r][c].at = "lost"
                     PROVE  loop'[r] > 1 \/ <<r, c>> \in hurt'
            BY DEF FirstLoopLocksLoseNone
        <3>1. co[r][c].at = "lost"
            BY <1>2
        <3>2. (loop[r] > 1 \/ <<r, c>> \in hurt) /\ loop[r] <= loop'[r]
            BY <3>1 DEF GeoInv, LoopOK, FirstLoopLocksLoseNone
        <3> QED
            BY <3>2, <2>1
    <2> QED
        BY <2>2, <2>3 DEF LoopOK
<1>11. KeyOK'
    <2> SUFFICES ASSUME NEW r \in Workers, NEW c \in Cameras
                 PROVE  /\ co'[r][c].key <= begun'
                        /\ (/\ co'[r][c].at \in {"touch", "retouch"}
                            /\ \/ row'[Head(co'[r][c].todo)] = None
                               \/ key'[Head(co'[r][c].todo)] # co'[r][c].key) => <<r, c>> \in hurt'
        BY DEF KeyOK, Query
    <2>4. co[r][c] \in Coroutines
        BY DEF GeoInv, TypesOK
    <2>5. begun \in 0..MaxTasks /\ co[r][c].key <= begun /\ co[r][c].key \in Nat
        BY <2>4 DEF GeoInv, TypesOK, KeyOK, Coroutines
    <2>1. begun \in Nat /\ begun' \in Nat /\ co[r][c].key \in Nat /\ co[r][c].key <= begun
        BY <2>5, GeoAssumption
    <2>2. CASE co'[r][c] = co[r][c]
        <3>1. co'[r][c].key <= begun'
            BY <2>1, <2>2
        <3> QED
            BY <2>2, <3>1 DEF Query
    <2>3. CASE co'[r][c] = Resolving(c)
        BY <2>1, <2>3, <1>1
    <2> QED
        BY <2>2, <2>3
<1>7. HolderOK'
    <2> SUFFICES ASSUME NEW r \in Workers, NEW c \in Cameras,
                        co'[r][c].at \in {"recheck", "retouch", "fetch", "store"}
                 PROVE  lock'[r][Head(co'[r][c].todo)].holder = c
        BY DEF HolderOK, Query
    <2>1. co'[r][c] = co[r][c]
        BY <1>2
    <2> QED
        BY <2>1 DEF GeoInv, HolderOK, Query
<1>8. LineOK'
    BY <1>2, LineStays
<1>9. OvertakenOK'
    <2> SUFFICES ASSUME NEW r \in Workers, NEW c \in Cameras,
                        co'[r][c].at \in {"fetch", "store"}, row'[Head(co'[r][c].todo)] # None
                 PROVE  <<r, c>> \in overtaken'
        BY DEF OvertakenOK, Query
    <2>1. co'[r][c] = co[r][c]
        BY <1>2
    <2>2. Query(r, c) \in Queries
        BY <2>1, QueryOK
    <2>3. row[Query(r, c)] # None
        BY <2>1, <2>2 DEF Query
    <2> QED
        BY <2>1, <2>3 DEF GeoInv, OvertakenOK
<1>10. BlankOK'
    <2>1. \A q \in Queries : row'[q] = "miss" => q \in blank'
        BY GeoAssumption DEF GeoInv, BlankOK
    <2>2. ASSUME NEW r \in Workers, NEW c \in Cameras PROVE MissOK(r, c)'
        <3>1. CASE co'[r][c] = co[r][c]
            <4>1. MissOK(r, c)
                BY DEF GeoInv, BlankOK
            <4> QED
                BY <4>1, <3>1 DEF MissOK, Query
        <3>2. CASE co'[r][c] = Resolving(c)
            BY <3>2, <1>1 DEF MissOK
        <3> QED
            BY <3>1, <3>2
    <2> QED
        BY <2>1, <2>2 DEF BlankOK
<1> QED
    BY <1>3, <1>4, <1>5, <1>6, <1>7, <1>8, <1>9, <1>10, <1>11 DEF GeoInv


\* A scrape resolves all its streams at once.
LEMMA BeginScrapeInv ==
    ASSUME GeoInv, NEW p \in Workers, BeginScrape(p)
    PROVE  GeoInv'
<1> USE DEF BeginScrape
<1>1. \A c \in Cameras : co[p][c].at = "off"
    BY DEF GeoInv, TaskOK
<1>2. /\ row \in [Queries -> Results] /\ task \in [Workers -> {"none", "scrape", "refresh"}]
      /\ loop \in [Workers -> Nat] /\ co \in [Workers -> [Cameras -> Coroutines]]
      /\ begun \in 0..MaxTasks /\ begun \in Nat /\ kills \in Nat
      /\ overtaken \subseteq Workers \X Cameras /\ hurt \subseteq Workers \X Cameras
      /\ key \in [Queries -> Nat] /\ \A q \in Queries : key[q] <= begun
      /\ \A r \in Workers : loop[r] <= begun
    BY GeoAssumption DEF GeoInv, TypesOK, LoopOK, KeyOK
<1>3. /\ co' \in [Workers -> [Cameras -> Coroutines]]
      /\ \A r \in Workers, c \in Cameras :
            co'[r][c] = co[r][c] \/ (r = p /\ co'[r][c] = Resolving(c))
    BY <1>2, ResolvingOK
<1>4. /\ task' \in [Workers -> {"none", "scrape", "refresh"}] /\ task'[p] = "scrape"
      /\ \A r \in Workers : r # p => task'[r] = task[r]
    BY <1>2
<1>5. /\ loop' \in [Workers -> Nat] /\ begun' \in 0..MaxTasks
      /\ \A r \in Workers : loop[r] <= loop'[r] /\ loop'[r] <= begun'
      /\ begun <= begun' /\ \A q \in Queries : key'[q] <= begun'
    BY <1>2, GeoAssumption
<1>6. \A r \in Workers, c \in Cameras :
         (/\ co[r][c].at \in {"touch", "retouch"}
          /\ row'[Query(r, c)] = None \/ key'[Query(r, c)] # co[r][c].key) => <<r, c>> \in hurt'
    BY DEF GeoInv, KeyOK
<1> QED
    BY <1>1, <1>2, <1>3, <1>4, <1>5, <1>6, TaskMove

\* A refresh deletes the rows of its camera first.
LEMMA BeginRefreshInv ==
    ASSUME GeoInv, NEW p \in Workers, NEW e \in Cameras, BeginRefresh(p, e)
    PROVE  GeoInv'
<1> USE DEF BeginRefresh
<1>1. \A c \in Cameras : co[p][c].at = "off"
    BY DEF GeoInv, TaskOK
<1>2. /\ row \in [Queries -> Results] /\ task \in [Workers -> {"none", "scrape", "refresh"}]
      /\ loop \in [Workers -> Nat] /\ co \in [Workers -> [Cameras -> Coroutines]]
      /\ begun \in 0..MaxTasks /\ begun \in Nat /\ kills \in Nat
      /\ overtaken \subseteq Workers \X Cameras /\ hurt \subseteq Workers \X Cameras
      /\ key \in [Queries -> Nat] /\ \A q \in Queries : key[q] <= begun
      /\ \A r \in Workers : loop[r] <= begun
    BY GeoAssumption DEF GeoInv, TypesOK, LoopOK, KeyOK
<1>3. /\ co' \in [Workers -> [Cameras -> Coroutines]]
      /\ \A r \in Workers, c \in Cameras :
            co'[r][c] = co[r][c] \/ (r = p /\ co'[r][c] = Resolving(c))
    BY <1>2, ResolvingOK
<1>4. /\ task' \in [Workers -> {"none", "scrape", "refresh"}] /\ task'[p] = "refresh"
      /\ \A r \in Workers : r # p => task'[r] = task[r]
    BY <1>2
<1>5. /\ loop' \in [Workers -> Nat] /\ begun' \in 0..MaxTasks
      /\ \A r \in Workers : loop[r] <= loop'[r] /\ loop'[r] <= begun'
    BY <1>2, GeoAssumption
<1> DEFINE qs == Elements(Candidates[e])
           deleted == {q \in qs : row[q] # None}
<1>6. /\ row' = [q \in Queries |-> IF q \in qs THEN None ELSE row[q]]
      /\ key' = [q \in Queries |-> IF q \in deleted THEN key[q] + 1 ELSE key[q]]
      /\ overtaken' = overtaken \cup Overtaken(p, qs)
      /\ hurt' = hurt \cup Others(p, {"touch", "retouch"}, deleted)
      /\ begun' = begun + 1
    OBVIOUS
<1>7. /\ row' \in [Queries -> Results] /\ key' \in [Queries -> Nat] /\ begun <= begun'
      /\ \A q \in Queries : row'[q] \in {row[q], None} /\ key'[q] <= begun'
    BY <1>2, <1>6 DEF Results
<1>8. /\ overtaken \subseteq overtaken' /\ overtaken' \subseteq Workers \X Cameras
      /\ hurt \subseteq hurt' /\ hurt' \subseteq Workers \X Cameras
    BY <1>2, <1>6 DEF Overtaken, Others
<1>9. ASSUME NEW r \in Workers, NEW c \in Cameras, co[r][c].at \in {"touch", "retouch"},
             row'[Query(r, c)] = None \/ key'[Query(r, c)] # co[r][c].key
      PROVE  <<r, c>> \in hurt'
    <2> DEFINE q == Query(r, c)
    <2>1. q \in Queries /\ r # p
        BY <1>1, <1>9, QueryOK
    <2>2. CASE q \in deleted
        <3>1. <<r, c>> \in Others(p, {"touch", "retouch"}, deleted)
            BY <1>9, <2>1, <2>2 DEF Others
        <3> QED
            BY <3>1, <1>6
    <2>3. CASE q \notin deleted
        <3>1. row[q] = None \/ key[q] # co[r][c].key
            BY <1>6, <1>9, <2>1, <2>3
        <3> QED
            BY <3>1, <1>6, <1>9 DEF GeoInv, KeyOK
    <2> QED
        BY <2>2, <2>3
<1>10. \A r \in Workers, c \in Cameras :
         (/\ co[r][c].at \in {"touch", "retouch"}
          /\ row'[Query(r, c)] = None \/ key'[Query(r, c)] # co[r][c].key) => <<r, c>> \in hurt'
    BY <1>9
<1> HIDE DEF qs, deleted
<1> QED
    BY <1>1, <1>2, <1>3, <1>4, <1>5, <1>7, <1>8, <1>10, TaskMove

\* A task whose coroutines are done ends.
LEMMA EndTaskInv ==
    ASSUME GeoInv, NEW p \in Workers, EndTask(p)
    PROVE  GeoInv'
<1> USE DEF EndTask
<1>1. \A c \in Cameras : co[p][c].at = "off"
    BY DEF Off
<1>2. /\ row \in [Queries -> Results] /\ task \in [Workers -> {"none", "scrape", "refresh"}]
      /\ loop \in [Workers -> Nat] /\ co \in [Workers -> [Cameras -> Coroutines]]
      /\ begun \in 0..MaxTasks /\ begun \in Nat /\ kills \in Nat
      /\ overtaken \subseteq Workers \X Cameras /\ hurt \subseteq Workers \X Cameras
      /\ key \in [Queries -> Nat] /\ \A q \in Queries : key[q] <= begun
      /\ \A r \in Workers : loop[r] <= begun
    BY GeoAssumption DEF GeoInv, TypesOK, LoopOK, KeyOK
<1>3. /\ task' \in [Workers -> {"none", "scrape", "refresh"}]
      /\ \A r \in Workers : r # p => task'[r] = task[r]
    BY <1>2
<1>4. /\ \A r \in Workers : loop[r] <= loop'[r] /\ loop'[r] <= begun'
      /\ begun <= begun' /\ \A q \in Queries : key'[q] <= begun'
    BY <1>2
<1>5. \A r \in Workers, c \in Cameras :
         (/\ co[r][c].at \in {"touch", "retouch"}
          /\ row'[Query(r, c)] = None \/ key'[Query(r, c)] # co[r][c].key) => <<r, c>> \in hurt'
    BY DEF GeoInv, KeyOK
<1> QED
    BY <1>1, <1>2, <1>3, <1>4, <1>5, TaskMove

\* A killed process leaves rows, and nothing else.
LEMMA KillInv ==
    ASSUME GeoInv, NEW p \in Workers, Kill(p)
    PROVE  GeoInv'
<1> USE DEF Kill
<1>1. /\ task \in [Workers -> {"none", "scrape", "refresh"}]
      /\ lock \in [Workers -> [Queries -> Locks]]
      /\ loop \in [Workers -> Nat] /\ co \in [Workers -> [Cameras -> Coroutines]]
      /\ begun \in Nat /\ kills \in 0..MaxKills
    BY GeoAssumption DEF GeoInv, TypesOK
<1>2. /\ Off \in Coroutines /\ Off.at = "off" /\ Off.todo = <<>> /\ Off.key = 0
      /\ FreeLock \in Locks /\ FreeLock.bound = 0 /\ FreeLock.waiters = <<>>
    BY DEF Off, FreeLock, Coroutines, Ats, Results, Locks
<1>3. /\ co' \in [Workers -> [Cameras -> Coroutines]]
      /\ \A r \in Workers, c \in Cameras : IF r = p THEN co'[r][c] = Off ELSE co'[r][c] = co[r][c]
      /\ lock' \in [Workers -> [Queries -> Locks]]
      /\ \A r \in Workers, q \in Queries :
            IF r = p THEN lock'[r][q] = FreeLock ELSE lock'[r][q] = lock[r][q]
      /\ task' \in [Workers -> {"none", "scrape", "refresh"}]
      /\ loop' \in [Workers -> Nat]
      /\ \A r \in Workers : IF r = p THEN loop'[r] = 0 ELSE task'[r] = task[r] /\ loop'[r] = loop[r]
      /\ kills' \in 0..MaxKills
      /\ \A r \in Workers, c \in Cameras :
            /\ r # p /\ <<r, c>> \in overtaken => <<r, c>> \in overtaken'
            /\ r # p /\ <<r, c>> \in hurt => <<r, c>> \in hurt'
    BY <1>1, <1>2, GeoAssumption
<1>4. TypesOK'
    BY <1>3 DEF GeoInv, TypesOK
<1>5. TodoOK'
    BY <1>2, <1>3 DEF GeoInv, TodoOK
<1>6. TaskOK'
    BY <1>2, <1>3 DEF GeoInv, TaskOK
<1>7. LoopOK'
    <2>1. \A r \in Workers : loop'[r] <= begun'
        BY <1>1, <1>3 DEF GeoInv, LoopOK
    <2>2. \A r \in Workers, q \in Queries : lock'[r][q].bound <= loop'[r]
        BY <1>2, <1>3 DEF GeoInv, LoopOK
    <2>3. FirstLoopLocksLoseNone'
        BY <1>2, <1>3 DEF GeoInv, LoopOK, FirstLoopLocksLoseNone
    <2> QED
        BY <2>1, <2>2, <2>3 DEF LoopOK
<1>12. KeyOK'
    BY <1>1, <1>2, <1>3 DEF GeoInv, KeyOK, Query
<1>8. HolderOK'
    <2> SUFFICES ASSUME NEW r \in Workers, NEW c \in Cameras,
                        co'[r][c].at \in {"recheck", "retouch", "fetch", "store"}
                 PROVE  lock'[r][Head(co'[r][c].todo)].holder = c
        BY DEF HolderOK, Query
    <2>1. r # p /\ co'[r][c] = co[r][c]
        BY <1>2, <1>3
    <2>2. Query(r, c) \in Queries /\ lock[r][Query(r, c)].holder = c
        BY <2>1, QueryOK DEF GeoInv, HolderOK
    <2> QED
        BY <2>1, <2>2, <1>3 DEF Query
<1>9. LineOK'
    <2> SUFFICES ASSUME NEW r \in Workers, NEW q \in Queries
                 PROVE  /\ \A i \in DOMAIN lock'[r][q].waiters :
                              /\ co'[r][lock'[r][q].waiters[i]].at = "wait"
                              /\ Head(co'[r][lock'[r][q].waiters[i]].todo) = q
                        /\ \A i, j \in DOMAIN lock'[r][q].waiters :
                              lock'[r][q].waiters[i] = lock'[r][q].waiters[j] => i = j
        BY DEF LineOK, Query
    <2>1. CASE r = p
        BY <2>1, <1>2, <1>3
    <2>2. CASE r # p
        <3>1. ASSUME NEW i \in DOMAIN lock[r][q].waiters
              PROVE  /\ co'[r][lock[r][q].waiters[i]].at = "wait"
                     /\ Head(co'[r][lock[r][q].waiters[i]].todo) = q
            <4> DEFINE d == lock[r][q].waiters[i]
            <4>1. d \in Cameras /\ co[r][d].at = "wait" /\ Head(co[r][d].todo) = q
                BY WaiterOK
            <4> HIDE DEF d
            <4>2. co'[r][d] = co[r][d]
                BY <1>3, <2>2, <4>1
            <4>3. co'[r][d].at = "wait" /\ Head(co'[r][d].todo) = q
                BY <4>1, <4>2
            <4> QED
                BY <4>3 DEF d
        <3>2. \A i, j \in DOMAIN lock[r][q].waiters : lock[r][q].waiters[i] = lock[r][q].waiters[j] => i = j
            BY LineDistinct
        <3>3. lock'[r][q] = lock[r][q]
            BY <1>3, <2>2
        <3> QED
            BY <3>1, <3>2, <3>3
    <2> QED
        BY <2>1, <2>2
<1>10. OvertakenOK'
    <2> SUFFICES ASSUME NEW r \in Workers, NEW c \in Cameras,
                        co'[r][c].at \in {"fetch", "store"}, row'[Head(co'[r][c].todo)] # None
                 PROVE  <<r, c>> \in overtaken'
        BY DEF OvertakenOK, Query
    <2>1. r # p /\ co'[r][c] = co[r][c]
        BY <1>2, <1>3
    <2>2. <<r, c>> \in overtaken
        BY <2>1 DEF GeoInv, OvertakenOK, Query
    <2> QED
        BY <2>1, <2>2, <1>3
<1>11. BlankOK'
    <2> SUFFICES ASSUME NEW r \in Workers, NEW c \in Cameras PROVE MissOK(r, c)'
        BY DEF GeoInv, BlankOK
    <2>1. MissOK(r, c)
        BY DEF GeoInv, BlankOK
    <2> QED
        BY <2>1, <1>2, <1>3 DEF MissOK, Query
<1> QED
    BY <1>4, <1>5, <1>6, <1>7, <1>8, <1>9, <1>10, <1>11, <1>12 DEF GeoInv

-----------------------------------------------------------------------------
\* Every step keeps the invariant.
LEMMA GeoNextInv == GeoInv /\ [GeoNext]_geoVars => GeoInv'
<1> SUFFICES ASSUME GeoInv, [GeoNext]_geoVars PROVE GeoInv'
    OBVIOUS
<1>1. ASSUME NEW p \in Workers, NEW c \in Cameras, CoStep(p, c) PROVE GeoInv'
    <2>1. CASE Lookup(p, c) \/ Acquire(p, c)
        BY <2>1, LookupInv, AcquireInv
    <2>2. CASE Recheck(p, c) \/ Fetch(p, c)
        BY <2>2, RecheckInv, FetchInv
    <2>4. CASE SaveHits(p, c)
        BY <2>4, SaveHitsInv
    <2>3. CASE Store(p, c) \/ StorePlace(p, c) \/ Skip(p, c)
        BY <2>3, StoreInv, StorePlaceInv
    <2> QED
        BY <1>1, <2>1, <2>2, <2>3, <2>4 DEF CoStep
<1>2. CASE UNCHANGED geoVars
    <2> USE <1>2 DEF geoVars, GeoInv
    <2>1. TypesOK'
        BY DEF TypesOK
    <2>2. TodoOK' /\ TaskOK'
        BY DEF TodoOK, TaskOK
    <2>3. LoopOK'
        BY DEF LoopOK, FirstLoopLocksLoseNone
    <2>4. LineOK'
        BY DEF LineOK, Query
    <2>5. KeyOK' /\ HolderOK' /\ OvertakenOK'
        BY DEF KeyOK, HolderOK, OvertakenOK, Query
    <2>6. BlankOK'
        BY DEF BlankOK, MissOK, Query
    <2> QED
        BY <2>1, <2>2, <2>3, <2>4, <2>5, <2>6
<1>3. CASE GeoNext
    BY <1>1, <1>3, BeginScrapeInv, BeginRefreshInv, EndTaskInv, KillInv, DatabaseRaisesInv DEF GeoNext
<1> QED
    BY <1>2, <1>3

LEMMA GeoSafety == GeoSpec => []GeoInv
<1>1. GeoInit => GeoInv
    BY GeoInitInv
<1>2. GeoInv /\ [GeoNext]_geoVars => GeoInv'
    BY GeoNextInv
<1> QED
    BY <1>1, <1>2, PTL DEF GeoSpec

\* The invariant implies the type invariant of the module.
LEMMA GeoInvType == GeoInv => GeoTypeOK
<1> SUFFICES ASSUME GeoInv PROVE GeoTypeOK
    OBVIOUS
<1>1. /\ row \in [Queries -> {"hit", "miss", None}]
      /\ task \in [Workers -> {"none", "scrape", "refresh"}]
      /\ place \in [Cameras -> {"found", "unknown"}]
      /\ begun \in 0..MaxTasks /\ kills \in 0..MaxKills
      /\ blank \subseteq Queries /\ overtaken \cup hurt \subseteq Workers \X Cameras
    BY DEF GeoInv, TypesOK, Results
<1>2. loop \in [Workers -> Nat] /\ \A p \in Workers : loop[p] <= begun
    BY DEF GeoInv, TypesOK, LoopOK
<1>3. loop \in [Workers -> 0..begun]
    <2>1. \A p \in Workers : loop[p] \in 0..begun
        BY <1>1, <1>2, GeoAssumption
    <2> QED
        BY <1>2, <2>1
<1>6. key \in [Queries -> 0..begun]
    <2>1. key \in [Queries -> Nat] /\ \A q \in Queries : key[q] <= begun
        BY DEF GeoInv, TypesOK, KeyOK
    <2>2. \A q \in Queries : key[q] \in 0..begun
        BY <1>1, <2>1, GeoAssumption
    <2> QED
        BY <2>1, <2>2
<1>7. ASSUME NEW p \in Workers, NEW c \in Cameras PROVE co[p][c].key \in 0..begun
    <2>1. co[p][c].key \in Nat /\ co[p][c].key <= begun
        BY DEF GeoInv, TypesOK, KeyOK, Coroutines
    <2> QED
        BY <1>1, <2>1, GeoAssumption
<1>4. ASSUME NEW p \in Workers, NEW q \in Queries
      PROVE  /\ lock[p][q].holder \in Cameras \cup {None}
             /\ Elements(lock[p][q].waiters) \subseteq Cameras
             /\ lock[p][q].bound \in 0..loop[p]
    <2> DEFINE l == lock[p][q]
    <2>1. l \in Locks /\ l.bound <= loop[p]
        BY DEF GeoInv, TypesOK, LoopOK
    <2> HIDE DEF l
    <2>2. l.holder \in Cameras \cup {None} /\ l.waiters \in Seq(Cameras) /\ l.bound \in 0..loop[p]
        BY <1>2, <2>1 DEF Locks
    <2>3. Elements(l.waiters) \subseteq Cameras
        BY <2>2 DEF Elements
    <2> QED
        BY <2>2, <2>3 DEF l
<1>5. \A p \in Workers, c \in Cameras :
         /\ co[p][c].at \in {"off", "lookup", "touch", "lock", "wait", "recheck", "retouch",
                             "fetch", "store", "resolved", "lost"}
         /\ co[p][c].result \in {"hit", "miss", None}
         /\ co[p][c].todo = <<>> <=> co[p][c].at \in {"off", "resolved", "lost"}
    BY DEF GeoInv, TypesOK, TodoOK, Coroutines, Ats, Results
<1> QED
    BY <1>1, <1>3, <1>4, <1>5, <1>6, <1>7 DEF GeoTypeOK

\* The cache is typed: a lock never belongs to a loop that has not begun, and a
\* coroutine has queries left exactly until it has an answer or is lost.
THEOREM GeoTypeCorrect == GeoSpec => []GeoTypeOK
BY GeoSafety, GeoInvType, PTL

\* Two coroutines of one process are never past the lock of one query, so the
\* geocoder is asked once for what two streams share; and what it is asked for
\* has no row yet, or one that another process stored meanwhile
\* (geolocation.py:126-138).
THEOREM OneFetchCorrect == GeoSpec => []OneFetchPerProcess
<1>1. GeoInv => OneFetchPerProcess
    BY DEF GeoInv, HolderOK, OvertakenOK, OneFetchPerProcess
<1> QED
    BY <1>1, GeoSafety, PTL

\* In the first loop of a process a stream is lost only when its database access
\* raised or its row was deleted between the read and the save of its hits; only
\* a lock that an earlier loop left behind loses one otherwise
\* (geolocation.py:20, 44-59, 130).
THEOREM FirstLoopCorrect == GeoSpec => []FirstLoopLocksLoseNone
<1>1. GeoInv => FirstLoopLocksLoseNone
    BY DEF GeoInv, LoopOK
<1> QED
    BY <1>1, GeoSafety, PTL

\* A stored place becomes a miss only under a fetch that another process
\* overtook.
THEOREM OverwrittenOnlyAcross == GeoSpec => PlaceOverwrittenOnlyAcross
<1> DEFINE Overwrites ==
        \A q \in Queries :
           (row[q] = "hit" /\ row'[q] = "miss") =>
               \E o \in overtaken : co[o[1]][o[2]].at = "store" /\ Query(o[1], o[2]) = q
<1>1. GeoInv /\ [GeoNext]_geoVars => Overwrites
    <2> SUFFICES ASSUME GeoInv, [GeoNext]_geoVars, NEW q \in Queries, row[q] = "hit", row'[q] = "miss"
                 PROVE  \E o \in overtaken : co[o[1]][o[2]].at = "store" /\ Query(o[1], o[2]) = q
        OBVIOUS
    <2>0. row' # row
        OBVIOUS
    <2>1. PICK p \in Workers : \/ \E c \in Cameras : BeginRefresh(p, c)
                               \/ \E c \in Cameras : Store(p, c)
        <3>1. \A p \in Workers : BeginScrape(p) \/ EndTask(p) \/ Kill(p) => row' = row
            BY DEF BeginScrape, EndTask, Kill
        <3>2. \A p \in Workers, c \in Cameras : Lookup(p, c) \/ Recheck(p, c) => row' = row
            BY DEF Lookup, Recheck
        <3>6. \A p \in Workers, c \in Cameras : SaveHits(p, c) \/ DatabaseRaises(p, c) => row' = row
            BY DEF SaveHits, DatabaseRaises
        <3>5. \A p \in Workers, c \in Cameras : Acquire(p, c) => row' = row
            BY DEF Acquire
        <3>3. \A p \in Workers, c \in Cameras : Fetch(p, c) \/ StorePlace(p, c) \/ Skip(p, c) => row' = row
            BY DEF Fetch, StorePlace, Skip
        <3>4. GeoNext
            BY <2>0 DEF geoVars
        <3> QED
            BY <2>0, <3>1, <3>2, <3>3, <3>4, <3>5, <3>6 DEF GeoNext, CoStep
    <2>2. ~\E c \in Cameras : BeginRefresh(p, c)
        BY GeoAssumption DEF BeginRefresh
    <2>3. PICK c \in Cameras : Store(p, c)
        BY <2>1, <2>2
    <2>4. co[p][c].at = "store" /\ row' = [row EXCEPT ![Query(p, c)] = co[p][c].result]
        BY <2>3 DEF Store
    <2>5. Query(p, c) = q
        BY <2>4 DEF GeoInv, TypesOK
    <2>6. <<p, c>> \in overtaken
        BY <2>4, <2>5, GeoAssumption DEF GeoInv, OvertakenOK
    <2> QED
        BY <2>4, <2>5, <2>6
<1>2. GeoInv /\ [GeoNext]_geoVars => [Overwrites]_geoVars
    BY <1>1
<1> QED
    BY <1>2, GeoSafety, PTL DEF GeoSpec, PlaceOverwrittenOnlyAcross

\* Coordinates are cleared only when the geocoder gave no place for any
\* candidate.
THEOREM PlaceLostCorrect == GeoSpec => PlaceLostOnlyByGeocoder
<1> DEFINE Clears ==
        \A c \in Cameras :
           (place[c] = "found" /\ place'[c] = "unknown") => Elements(Candidates[c]) \subseteq blank
<1>1. GeoInv /\ [GeoNext]_geoVars => Clears
    <2> SUFFICES ASSUME GeoInv, [GeoNext]_geoVars, NEW c \in Cameras,
                        place[c] = "found", place'[c] = "unknown"
                 PROVE  Elements(Candidates[c]) \subseteq blank
        OBVIOUS
    <2>0. place' # place
        OBVIOUS
    <2>1. PICK p \in Workers, d \in Cameras : StorePlace(p, d)
        <3>1. \A p \in Workers : BeginScrape(p) \/ EndTask(p) \/ Kill(p) => place' = place
            BY DEF BeginScrape, EndTask, Kill
        <3>2. \A p \in Workers, d \in Cameras : BeginRefresh(p, d) \/ Lookup(p, d) \/ Acquire(p, d) => place' = place
            BY DEF BeginRefresh, Lookup, Acquire
        <3>3. \A p \in Workers, d \in Cameras : Recheck(p, d) \/ Fetch(p, d) => place' = place
            BY DEF Recheck, Fetch
        <3>6. \A p \in Workers, d \in Cameras : SaveHits(p, d) \/ DatabaseRaises(p, d) => place' = place
            BY DEF SaveHits, DatabaseRaises
        <3>4. \A p \in Workers, d \in Cameras : Store(p, d) \/ Skip(p, d) => place' = place
            BY DEF Store, Skip
        <3>5. GeoNext
            BY <2>0 DEF geoVars
        <3> QED
            BY <2>0, <3>1, <3>2, <3>3, <3>4, <3>5, <3>6 DEF GeoNext, CoStep
    <2>2. /\ co[p][d].at = "resolved"
          /\ place' = [place EXCEPT ![d] = IF co[p][d].result = "hit" THEN "found" ELSE "unknown"]
        BY <2>1 DEF StorePlace
    <2>3. d = c /\ co[p][c].result # "hit"
        BY <2>2 DEF GeoInv, TypesOK
    <2> QED
        BY <2>2, <2>3 DEF GeoInv, BlankOK, MissOK
<1>2. GeoInv /\ [GeoNext]_geoVars => [Clears]_geoVars
    BY <1>1
<1> QED
    BY <1>2, GeoSafety, PTL DEF GeoSpec, PlaceLostOnlyByGeocoder
-----------------------------------------------------------------------------
\* The four sides together

\* Each side behaves as it does on its own.
LEMMA SidesAlone == Spec => BeatSpec /\ CollectSpec /\ GeoSpec /\ ActSpec
<1>1. Init => BeatInit /\ CollectInit /\ GeoInit /\ ActInit
  BY DEF Init
<1>2. [Next]_<<beat, collectVars, geoVars, actVars>> =>
        [BeatNext]_beat /\ [CollectNext]_collectVars /\ [GeoNext]_geoVars /\ [ActNext]_actVars
  BY DEF Next, ScheduleAlone, CollectAlone, LookUpAlone, MarkAlone
<1> QED BY <1>1, <1>2, PTL DEF Spec, BeatSpec, CollectSpec, GeoSpec, ActSpec

\* Every side of a scrape task is well typed: the schedule, what a run collects,
\* the places it looks up and the markers (celery.py:22-97, services.py:229-307,
\* geolocation.py:20-202, celery_activity.py:19-74).
THEOREM WellTyped == Spec => []TypeOK
<1>1. BeatInv => beat.state \in {"none", "loaded", "refused"}
  BY DEF BeatInv, Schedule, NoBeat
<1>2. CollectInv => CollectTypeOK
  <2> SUFFICES ASSUME CollectTypes PROVE CollectTypeOK
    BY DEF CollectInv
  <2>1. run \in Runs
    BY DEF CollectTypes
  <2>2. /\ run.phase \in {"none", "list", "flush", "done", "failed"}
        /\ run.failed \in 0..Attempts - 1 /\ run.page \in Nat
    BY <2>1 DEF Runs
  <2> QED BY <2>2 DEF CollectTypes, CollectTypeOK
<1> QED
  BY SidesAlone, BeatInvariant, CollectInvariant, GeoTypeCorrect, MarkersTypeCorrect, <1>1, <1>2, PTL
     DEF TypeOK
=============================================================================

------------------------ MODULE CacheGenerations_proofs ------------------------
(***************************************************************************)
(* The versioned cache for any number of readers, writers, views and       *)
(* writes: no entry a call can hit is older than a write that is over, and *)
(* the cache implements FreshReads.                                        *)
(***************************************************************************)
EXTENDS CacheGenerations, FiniteSetTheorems, TLAPS

Elements(s) == {s[i] : i \in DOMAIN s}

Distinct(s) == \A i, j \in DOMAIN s : s[i] = s[j] => i = j

Places(v) == DOMAIN ReadsOf[v]

Promised(v, i) == <<v, ReadsOf[v][i]>> \in Covered

Trusted == {v \in Views : DomainOf[v] \notin regressed}

Current(v) == GetGeneration(DomainOf[v])

Asking(r) == readers[r].at \in {"lookup", "read", "store"}

Calls ==
    [at : {"lookup", "read", "store", "answered"}, view : Views, key : Generations,
     floor : Seq(Nat), read : Seq(Nat)]

Writing == [at : {"bump", "first"}, kind : WriteKinds, todo : Seq(Domains), version : Nat]

TypesOK ==
    /\ db \in [Tables -> Nat] /\ announced \in [Tables -> Nat]
    /\ generation \in [Domains -> Generations \cup {None}]
    /\ entries \in [Views -> [Generations -> Seq(Nat) \cup {None}]]
    /\ readers \in [Readers -> {IdleReader} \cup Calls]
    /\ writers \in [Writers -> {IdleWriter} \cup Writing]
    /\ writes \in 0..MaxWrites /\ faults \in 0..MaxFaults
    /\ regressed \subseteq Domains

\* A call has read the tables of its view up to its place.
SizesOK ==
    /\ \A r \in Readers :
          readers[r].at # "idle" =>
              /\ Len(readers[r].floor) = Len(ReadsOf[readers[r].view])
              /\ readers[r].at = "lookup" => readers[r].read = <<>>
              /\ readers[r].at = "read" => Len(readers[r].read) < Len(ReadsOf[readers[r].view])
              /\ readers[r].at \in {"store", "answered"} =>
                    Len(readers[r].read) = Len(ReadsOf[readers[r].view])
    /\ \A v \in Views, g \in Generations :
          entries[v][g] # None => Len(entries[v][g]) = Len(ReadsOf[v])

\* What was read, announced or asked for has been committed.
SeenOK ==
    /\ \A t \in Tables : announced[t] <= db[t]
    /\ \A r \in Readers :
          readers[r].at # "idle" =>
              /\ \A i \in DOMAIN readers[r].read : readers[r].read[i] <= db[ReadsOf[readers[r].view][i]]
              /\ \A i \in Places(readers[r].view) :
                    /\ readers[r].floor[i] <= announced[ReadsOf[readers[r].view][i]]
                    /\ ~Promised(readers[r].view, i) => readers[r].floor[i] = 0
    /\ \A v \in Views, g \in Generations :
          entries[v][g] # None => \A i \in Places(v) : entries[v][g][i] <= db[ReadsOf[v][i]]
    /\ \A w \in Writers : writers[w].at # "idle" => writers[w].version <= db[TableOf[writers[w].kind]]

\* A write bumps a domain once, and has one to bump when it stores a first generation.
TodoOK ==
    \A w \in Writers :
        writers[w].at # "idle" =>
            /\ Distinct(writers[w].todo)
            /\ writers[w].at = "first" => writers[w].todo # <<>>

\* Writes that still have to bump d, and those that still have to commit to t.
Pending(d) == {w \in Writers : writers[w].at # "idle" /\ d \in Elements(writers[w].todo)}

InFlight(t) ==
    {w \in Writers : writers[w].at # "idle" /\ InTransaction(writers[w].kind)
                     /\ TableOf[writers[w].kind] = t}

\* Generations and versions are bounded by the writes begun.
BudgetOK ==
    /\ \A d \in Domains : GetGeneration(d) + Cardinality(Pending(d)) <= writes
    /\ \A t \in Tables : db[t] + Cardinality(InFlight(t)) <= writes

\* As long as a domain has not gone backwards no key has a later generation.
KeysOK ==
    /\ \A v \in Trusted, g \in Generations : g > Current(v) => entries[v][g] = None
    /\ \A r \in Readers : Asking(r) /\ readers[r].view \in Trusted => readers[r].key <= Current(readers[r].view)

\* Whatever the stored entries and the calls of others hold for key g of view
\* v is not older than n in place i.
Since(stored, calling, v, i, g, n) ==
    /\ stored[v][g] # None => n <= stored[v][g][i]
    /\ \A r \in Readers :
          (/\ calling[r].at \in {"lookup", "read", "store"}
           /\ calling[r].view = v /\ calling[r].key = g
           /\ i \in DOMAIN calling[r].read) => n <= calling[r].read[i]

FreshOK ==
    \A v \in Trusted : \A i \in Places(v) :
        Promised(v, i) => Since(entries, readers, v, i, Current(v), announced[ReadsOf[v][i]])

\* A write on its own still has to bump the domain, or all that was read for
\* the current key was read after it.
WritersOK ==
    \A w \in Writers, v \in Trusted : \A i \in Places(v) :
        (/\ writers[w].at # "idle" /\ ~InTransaction(writers[w].kind)
         /\ Promised(v, i) /\ ReadsOf[v][i] = TableOf[writers[w].kind])
        => \/ DomainOf[v] \in Elements(writers[w].todo)
           \/ Since(entries, readers, v, i, Current(v), writers[w].version)

\* A write that is about to store 1 found no generation: whatever was read for a
\* later key was read after it.
FirstOK ==
    \A w \in Writers, v \in Trusted : \A i \in Places(v) :
        (/\ writers[w].at = "first" /\ Head(writers[w].todo) = DomainOf[v]
         /\ Promised(v, i) /\ ReadsOf[v][i] = TableOf[writers[w].kind])
        => \A g \in Generations \ {0} : Since(entries, readers, v, i, g, writers[w].version)

\* What was read for the key of a call is not older than the call may get.
CallsOK ==
    \A r \in Readers :
        Asking(r) /\ readers[r].view \in Trusted =>
            \A i \in Places(readers[r].view) :
                Promised(readers[r].view, i) =>
                    Since(entries, readers, readers[r].view, i, readers[r].key, readers[r].floor[i])

CacheInv ==
    /\ TypesOK /\ SizesOK /\ SeenOK /\ TodoOK /\ BudgetOK
    /\ KeysOK /\ FreshOK /\ WritersOK /\ FirstOK /\ CallsOK
-----------------------------------------------------------------------------
\* Elements of sequences.
LEMMA ConcatFacts ==
    ASSUME NEW S, NEW s \in Seq(S), NEW t \in Seq(S)
    PROVE  /\ s \o t \in Seq(S)
           /\ Elements(s \o t) = Elements(s) \cup Elements(t)
           /\ Distinct(s) /\ Distinct(t) /\ Elements(s) \cap Elements(t) = {} => Distinct(s \o t)
<1>1. /\ s \o t \in Seq(S)
      /\ Len(s) \in Nat /\ Len(t) \in Nat
      /\ DOMAIN s = 1..Len(s) /\ DOMAIN t = 1..Len(t) /\ DOMAIN (s \o t) = 1..(Len(s) + Len(t))
    OBVIOUS
<1>2. \A i \in 1..Len(s) : (s \o t)[i] = s[i]
    OBVIOUS
<1>3. \A i \in 1..(Len(s) + Len(t)) : i > Len(s) => (s \o t)[i] = t[i - Len(s)] /\ i - Len(s) \in DOMAIN t
    OBVIOUS
<1>4. Elements(s \o t) \subseteq Elements(s) \cup Elements(t)
    BY <1>1, <1>2, <1>3 DEF Elements
<1>5. Elements(s) \subseteq Elements(s \o t)
    BY <1>1, <1>2 DEF Elements
<1>6. ASSUME NEW i \in 1..Len(t) PROVE t[i] \in Elements(s \o t)
    <2>1. i + Len(s) \in 1..(Len(s) + Len(t)) /\ i + Len(s) > Len(s) /\ (i + Len(s)) - Len(s) = i
        BY <1>1
    <2>2. (s \o t)[i + Len(s)] = t[i]
        BY <2>1, <1>3
    <2> QED
        BY <2>1, <2>2, <1>1 DEF Elements
<1>7. ASSUME Distinct(s), Distinct(t), Elements(s) \cap Elements(t) = {},
             NEW i \in 1..(Len(s) + Len(t)), NEW j \in 1..(Len(s) + Len(t)), (s \o t)[i] = (s \o t)[j]
      PROVE  i = j
    <2>1. i <= Len(s) => (s \o t)[i] = s[i] /\ i \in DOMAIN s /\ s[i] \in Elements(s)
        BY <1>1, <1>2 DEF Elements
    <2>2. j <= Len(s) => (s \o t)[j] = s[j] /\ j \in DOMAIN s /\ s[j] \in Elements(s)
        BY <1>1, <1>2 DEF Elements
    <2>3. i > Len(s) => (s \o t)[i] = t[i - Len(s)] /\ i - Len(s) \in DOMAIN t /\ t[i - Len(s)] \in Elements(t)
        BY <1>1, <1>3 DEF Elements
    <2>4. j > Len(s) => (s \o t)[j] = t[j - Len(s)] /\ j - Len(s) \in DOMAIN t /\ t[j - Len(s)] \in Elements(t)
        BY <1>1, <1>3 DEF Elements
    <2>5. CASE i <= Len(s) /\ j <= Len(s)
        BY <2>1, <2>2, <2>5, <1>7 DEF Distinct
    <2>6. CASE i > Len(s) /\ j > Len(s)
        <3>1. i - Len(s) = j - Len(s)
            BY <2>3, <2>4, <2>6, <1>7 DEF Distinct
        <3> QED
            BY <3>1, <1>1
    <2>7. CASE i <= Len(s) /\ j > Len(s)
        BY <2>1, <2>4, <2>7, <1>7
    <2>8. CASE i > Len(s) /\ j <= Len(s)
        BY <2>2, <2>3, <2>8, <1>7
    <2> QED
        BY <2>5, <2>6, <2>7, <2>8, <1>1
<1>8. Elements(t) \subseteq Elements(s \o t)
    BY <1>1, <1>6 DEF Elements
<1>9. Distinct(s) /\ Distinct(t) /\ Elements(s) \cap Elements(t) = {} => Distinct(s \o t)
    BY <1>1, <1>7 DEF Distinct
<1> QED
    BY <1>1, <1>4, <1>5, <1>8, <1>9

LEMMA TodoFacts ==
    ASSUME NEW S, NEW s \in Seq(S), s # <<>>
    PROVE  /\ Head(s) \in S /\ Tail(s) \in Seq(S)
           /\ Elements(s) = {Head(s)} \cup Elements(Tail(s))
           /\ Distinct(s) => Distinct(Tail(s)) /\ Head(s) \notin Elements(Tail(s))
<1>1. /\ Head(s) \in S /\ Tail(s) \in Seq(S) /\ Len(s) \in Nat /\ Len(s) > 0 /\ Head(s) = s[1]
      /\ DOMAIN Tail(s) = 1..(Len(s) - 1) /\ DOMAIN s = 1..Len(s)
    OBVIOUS
<1>2. \A i \in DOMAIN Tail(s) : Tail(s)[i] = s[i + 1] /\ i + 1 \in DOMAIN s /\ i + 1 # 1
    BY <1>1
<1>3. Elements(s) \subseteq {Head(s)} \cup Elements(Tail(s))
    <2> SUFFICES ASSUME NEW i \in 1..Len(s) PROVE s[i] \in {Head(s)} \cup Elements(Tail(s))
        BY <1>1 DEF Elements
    <2>1. CASE i = 1
        BY <2>1, <1>1
    <2>2. CASE i # 1
        <3>1. i - 1 \in DOMAIN Tail(s) /\ (i - 1) + 1 = i
            BY <2>2, <1>1
        <3> QED
            BY <3>1, <1>2 DEF Elements
    <2> QED
        BY <2>1, <2>2
<1>4. {Head(s)} \cup Elements(Tail(s)) \subseteq Elements(s)
    <2>1. 1 \in DOMAIN s
        BY <1>1
    <2> QED
        BY <1>1, <1>2, <2>1 DEF Elements
<1>5. ASSUME Distinct(s) PROVE Distinct(Tail(s)) /\ Head(s) \notin Elements(Tail(s))
    <2>1. ASSUME NEW i \in DOMAIN Tail(s), NEW j \in DOMAIN Tail(s), Tail(s)[i] = Tail(s)[j] PROVE i = j
        <3>1. i + 1 = j + 1
            BY <1>2, <1>5, <2>1 DEF Distinct
        <3> QED
            BY <3>1, <1>1
    <2>2. ASSUME NEW i \in DOMAIN Tail(s), Tail(s)[i] = Head(s) PROVE FALSE
        <3>1. 1 \in DOMAIN s /\ s[i + 1] = s[1]
            BY <1>1, <1>2, <2>2
        <3> QED
            BY <3>1, <1>2, <1>5 DEF Distinct
    <2> QED
        BY <2>1, <2>2 DEF Distinct, Elements
<1> QED
    BY <1>1, <1>3, <1>4, <1>5

-----------------------------------------------------------------------------
\* What the tables of the views, kinds and domains say.
LEMMA ViewFacts ==
    ASSUME NEW v \in Views
    PROVE  /\ ReadsOf[v] \in Seq(Tables) /\ Len(ReadsOf[v]) \in Nat \ {0}
           /\ Places(v) = 1..Len(ReadsOf[v])
           /\ DomainOf[v] \in Domains
           /\ \A i \in Places(v) : ReadsOf[v][i] \in Tables /\ (Promised(v, i) => v # "streams")
<1>1. v \in {"list", "markers", "dashboard", "countries", "streams"}
    BY CacheAssumption
<1>2. /\ ReadsOf["list"] = <<"camera">> /\ ReadsOf["markers"] = <<"camera", "instance">>
      /\ ReadsOf["dashboard"] = <<"camera", "job">> /\ ReadsOf["countries"] = <<"instance">>
      /\ ReadsOf["streams"] = <<"upstream">>
    BY DEF ReadsOf
<1>3. \A t \in {"camera", "job", "instance", "upstream"} : <<t>> \in Seq(Tables) /\ Len(<<t>>) = 1
    BY DEF Tables
<1>4. \A t, u \in {"camera", "job", "instance", "upstream"} : <<t, u>> \in Seq(Tables) /\ Len(<<t, u>>) = 2
    BY DEF Tables
<1>5. ReadsOf[v] \in Seq(Tables) /\ Len(ReadsOf[v]) \in Nat \ {0}
    <2>1. CASE v = "list"
        BY <2>1, <1>2, <1>3
    <2>2. CASE v = "markers"
        BY <2>2, <1>2, <1>4
    <2>3. CASE v = "dashboard"
        BY <2>3, <1>2, <1>4
    <2>4. CASE v = "countries"
        BY <2>4, <1>2, <1>3
    <2>5. CASE v = "streams"
        BY <2>5, <1>2, <1>3
    <2> QED
        BY <1>1, <2>1, <2>2, <2>3, <2>4, <2>5
<1>6. DOMAIN ReadsOf[v] = 1..Len(ReadsOf[v])
    BY <1>5
<1>7. ASSUME NEW i \in Places(v) PROVE ReadsOf[v][i] \in Tables /\ (Promised(v, i) => v # "streams")
    <2>1. ReadsOf[v][i] \in Tables
        BY <1>5, <1>6 DEF Places
    <2>2. CASE v = "streams"
        <3>1. \A t : <<"streams", t>> \notin Covered
            BY DEF Covered
        <3> QED
            BY <2>1, <2>2, <3>1 DEF Promised
    <2> QED
        BY <2>1, <2>2
<1> QED
    BY <1>5, <1>6, <1>7 DEF Places, Domains

LEMMA ObservedFacts ==
    ASSUME NEW a, NEW b, NEW c, NEW e, a # b, a # c, b # c, a # e, b # e, c # e
    PROVE  /\ Observed(a) \o Observed(b) \o Observed(c) \in Seq(Domains)
           /\ Distinct(Observed(a) \o Observed(b) \o Observed(c))
           /\ Elements(Observed(a) \o Observed(b) \o Observed(c)) = {a, b, c} \cap Domains
           /\ Observed(a) \o Observed(b) \o Observed(c) \o Observed(e) \in Seq(Domains)
           /\ Distinct(Observed(a) \o Observed(b) \o Observed(c) \o Observed(e))
           /\ Elements(Observed(a) \o Observed(b) \o Observed(c) \o Observed(e)) = {a, b, c, e} \cap Domains
<1> DEFINE s == Observed(a) \o Observed(b)
           t == s \o Observed(c)
<1>1. \A d : /\ Observed(d) \in Seq(Domains) /\ Distinct(Observed(d))
             /\ Elements(Observed(d)) = {d} \cap Domains
    BY DEF Observed, Distinct, Elements
<1>2. s \in Seq(Domains) /\ Distinct(s) /\ Elements(s) = {a, b} \cap Domains
    <2>1. Elements(Observed(a)) \cap Elements(Observed(b)) = {}
        BY <1>1
    <2> QED
        BY <1>1, <2>1, ConcatFacts
<1> HIDE DEF s
<1>3. t \in Seq(Domains) /\ Distinct(t) /\ Elements(t) = {a, b, c} \cap Domains
    <2>1. Elements(s) \cap Elements(Observed(c)) = {}
        BY <1>1, <1>2
    <2> QED
        BY <1>1, <1>2, <2>1, ConcatFacts
<1> HIDE DEF t
<1>4. /\ t \o Observed(e) \in Seq(Domains) /\ Distinct(t \o Observed(e))
      /\ Elements(t \o Observed(e)) = {a, b, c, e} \cap Domains
    <2>1. Elements(t) \cap Elements(Observed(e)) = {}
        BY <1>1, <1>3
    <2> QED
        BY <1>1, <1>3, <2>1, ConcatFacts
<1> QED
    BY <1>3, <1>4 DEF s, t

LEMMA KindFacts ==
    ASSUME NEW kind \in WriteKinds
    PROVE  /\ TableOf[kind] \in Tables
           /\ BumpsOf(kind) \in Seq(Domains)
           /\ Distinct(BumpsOf(kind))
           /\ Signalled(kind) /\ ~InTransaction(kind) =>
                 \A v \in Views : \A i \in Places(v) :
                     Promised(v, i) /\ ReadsOf[v][i] = TableOf[kind]
                     => DomainOf[v] \in Elements(BumpsOf(kind))
<1>1. kind \in {"status", "upsert", "duplicates", "job", "location", "outside"}
    BY CacheAssumption
<1>2. TableOf[kind] \in Tables
    BY <1>1 DEF TableOf, Tables
<1>3. /\ InvalidateCameras \in Seq(Domains) /\ Distinct(InvalidateCameras)
      /\ Elements(InvalidateCameras) = {"cameras", "filters", "stats", "dashboard"} \cap Domains
    <2> DEFINE a == "cameras"  b == "filters"  c == "stats"  e == "dashboard"
    <2>1. a # b /\ a # c /\ b # c /\ a # e /\ b # e /\ c # e
        OBVIOUS
    <2> HIDE DEF a, b, c, e
    <2>2. LET s == Observed(a) \o Observed(b) \o Observed(c) \o Observed(e)
          IN s \in Seq(Domains) /\ Distinct(s) /\ Elements(s) = {a, b, c, e} \cap Domains
        BY <2>1, ObservedFacts
    <2> QED
        BY <2>2, Zenon DEF InvalidateCameras, a, b, c, e
<1>4. /\ InvalidateScrapeJobs \in Seq(Domains) /\ Distinct(InvalidateScrapeJobs)
      /\ Elements(InvalidateScrapeJobs) = {"scrape_jobs", "dashboard", "stats"} \cap Domains
    <2> DEFINE a == "scrape_jobs"  b == "dashboard"  c == "stats"  e == "cameras"
    <2>1. a # b /\ a # c /\ b # c /\ a # e /\ b # e /\ c # e
        OBVIOUS
    <2> HIDE DEF a, b, c, e
    <2>2. LET s == Observed(a) \o Observed(b) \o Observed(c)
          IN /\ s \in Seq(Domains) /\ Distinct(s) /\ Elements(s) = {a, b, c} \cap Domains
             /\ s \o Observed(e) \in Seq(Domains)
        BY <2>1, ObservedFacts
    <2> QED
        BY <2>2, Zenon DEF InvalidateScrapeJobs, a, b, c
<1>5. /\ InvalidateGo2RTC \in Seq(Domains) /\ Distinct(InvalidateGo2RTC)
      /\ Elements(InvalidateGo2RTC) = {"go2rtc", "filters", "dashboard", "stats"} \cap Domains
    <2> DEFINE a == "go2rtc"  b == "filters"  c == "dashboard"  e == "stats"
    <2>1. a # b /\ a # c /\ b # c /\ a # e /\ b # e /\ c # e
        OBVIOUS
    <2> HIDE DEF a, b, c, e
    <2>2. LET s == Observed(a) \o Observed(b) \o Observed(c) \o Observed(e)
          IN s \in Seq(Domains) /\ Distinct(s) /\ Elements(s) = {a, b, c, e} \cap Domains
        BY <2>1, ObservedFacts
    <2> QED
        BY <2>2, Zenon DEF InvalidateGo2RTC, a, b, c, e
<1>6. /\ kind \in {"status", "upsert"} => BumpsOf(kind) = InvalidateCameras
      /\ kind = "job" => BumpsOf(kind) = InvalidateScrapeJobs
      /\ kind = "location" => BumpsOf(kind) = InvalidateGo2RTC
      /\ kind \in {"duplicates", "outside"} => BumpsOf(kind) = <<>>
    BY DEF BumpsOf
<1>7. BumpsOf(kind) \in Seq(Domains) /\ Distinct(BumpsOf(kind))
    <2>1. CASE kind \in {"status", "upsert"}
        BY <2>1, <1>3, <1>6, Zenon
    <2>2. CASE kind = "job"
        BY <2>2, <1>4, <1>6, Zenon
    <2>3. CASE kind = "location"
        BY <2>3, <1>5, <1>6, Zenon
    <2>4. CASE kind \in {"duplicates", "outside"}
        <3>1. BumpsOf(kind) = <<>>
            BY <2>4, <1>6, Zenon
        <3> QED
            BY <3>1 DEF Distinct
    <2> QED
        BY <1>1, <2>1, <2>2, <2>3, <2>4, Zenon
<1>8. ASSUME Signalled(kind), ~InTransaction(kind), NEW v \in Views, NEW i \in Places(v),
              Promised(v, i), ReadsOf[v][i] = TableOf[kind]
       PROVE  DomainOf[v] \in Elements(BumpsOf(kind))
    <2>1. DomainOf[v] \in Domains
        BY ViewFacts
    <2>2. <<v, TableOf[kind]>> \in
              {<<"list", "camera">>, <<"markers", "camera">>, <<"countries", "instance">>,
               <<"dashboard", "camera">>, <<"dashboard", "job">>}
        BY <1>8 DEF Promised, Covered
    <2>3. kind \in {"status", "job", "location"}
        BY <1>8 DEF Signalled, InTransaction
    <2>4. CASE kind = "status"
        <3>1. v \in {"list", "markers", "dashboard"}
            BY <2>2, <2>4 DEF TableOf
        <3>2. DomainOf[v] \in {"cameras", "filters", "stats", "dashboard"}
            BY <3>1 DEF DomainOf
        <3>3. Elements(BumpsOf(kind)) = {"cameras", "filters", "stats", "dashboard"} \cap Domains
            BY <2>4, <1>3, <1>6, Zenon
        <3> QED
            BY <2>1, <3>2, <3>3, Zenon
    <2>5. CASE kind = "job"
        <3>1. v = "dashboard"
            BY <2>2, <2>5 DEF TableOf
        <3>2. DomainOf[v] \in {"scrape_jobs", "dashboard", "stats"}
            BY <3>1 DEF DomainOf
        <3>3. Elements(BumpsOf(kind)) = {"scrape_jobs", "dashboard", "stats"} \cap Domains
            BY <2>5, <1>4, <1>6, Zenon
        <3> QED
            BY <2>1, <3>2, <3>3, Zenon
    <2>6. CASE kind = "location"
        <3>1. v = "countries"
            BY <2>2, <2>6 DEF TableOf
        <3>2. DomainOf[v] \in {"go2rtc", "filters", "dashboard", "stats"}
            BY <3>1 DEF DomainOf
        <3>3. Elements(BumpsOf(kind)) = {"go2rtc", "filters", "dashboard", "stats"} \cap Domains
            BY <2>6, <1>5, <1>6, Zenon
        <3> QED
            BY <2>1, <3>2, <3>3, Zenon
    <2> QED
        BY <2>3, <2>4, <2>5, <2>6
<1> QED
    BY <1>2, <1>7, <1>8
-----------------------------------------------------------------------------
\* Calls, writes and generations in a state.
LEMMA CallFacts ==
    ASSUME TypesOK, NEW r \in Readers
    PROVE  /\ readers[r].at # "idle" => readers[r] \in Calls /\ readers[r].view \in Views
           /\ readers[r].at = "idle" => readers[r] = IdleReader
           /\ readers[r].at \in {"idle", "lookup", "read", "store", "answered"}
<1>1. readers[r] \in {IdleReader} \cup Calls
    BY DEF TypesOK
<1>2. IdleReader.at = "idle"
    BY DEF IdleReader
<1>3. \A c \in Calls : c.at \in {"lookup", "read", "store", "answered"} /\ c.view \in Views
    BY DEF Calls
<1> QED
    BY <1>1, <1>2, <1>3

LEMMA WriteFacts ==
    ASSUME TypesOK, NEW w \in Writers
    PROVE  /\ writers[w].at # "idle" =>
                 /\ writers[w] \in Writing /\ writers[w].kind \in WriteKinds
                 /\ writers[w].todo \in Seq(Domains) /\ writers[w].version \in Nat
                 /\ TableOf[writers[w].kind] \in Tables
           /\ writers[w].at = "idle" => writers[w] = IdleWriter
           /\ writers[w].at \in {"idle", "bump", "first"}
<1>1. writers[w] \in {IdleWriter} \cup Writing
    BY DEF TypesOK
<1>2. IdleWriter.at = "idle"
    BY DEF IdleWriter
<1>3. \A x \in Writing : /\ x.at \in {"bump", "first"} /\ x.kind \in WriteKinds
                          /\ x.todo \in Seq(Domains) /\ x.version \in Nat
    BY DEF Writing
<1> QED
    BY <1>1, <1>2, <1>3, KindFacts

LEMMA CallChange ==
    ASSUME NEW c \in Calls, NEW a \in {"lookup", "read", "store", "answered"}, NEW x \in Seq(Nat)
    PROVE  /\ [c EXCEPT !.at = a] \in Calls
           /\ [c EXCEPT !.at = a, !.read = x] \in Calls
           /\ [c EXCEPT !.at = a] = [c EXCEPT !.at = a, !.read = c.read]
    BY DEF Calls

LEMMA WriteChange ==
    ASSUME NEW x \in Writing, NEW a \in {"bump", "first"}, x.todo # <<>>
    PROVE  /\ [x EXCEPT !.at = a] \in Writing
           /\ [x EXCEPT !.at = a, !.todo = Tail(@)] \in Writing
<1>1. Tail(x.todo) \in Seq(Domains)
    BY TodoFacts DEF Writing
<1> QED
    BY <1>1 DEF Writing

LEMMA CurrentFacts ==
    ASSUME TypesOK
    PROVE  /\ \A d \in Domains : GetGeneration(d) \in Generations /\ GetGeneration(d) \in Nat
           /\ \A v \in Views : Current(v) \in Generations /\ Current(v) \in Nat
           /\ \A g \in Generations : g \in Nat /\ g <= MaxWrites
<1>1. \A g \in Generations : g \in Nat /\ g <= MaxWrites
    BY CacheAssumption DEF Generations
<1>2. 0 \in Generations
    BY CacheAssumption DEF Generations
<1>3. \A d \in Domains : GetGeneration(d) \in Generations
    BY <1>2 DEF GetGeneration, TypesOK
<1> QED
    BY <1>1, <1>3, ViewFacts DEF Current

\* The places of a view are those of what is read and asked for it.
LEMMA PlaceFacts ==
    ASSUME TypesOK, SizesOK
    PROVE  /\ \A r \in Readers :
                 readers[r].at # "idle" =>
                     /\ DOMAIN readers[r].floor = Places(readers[r].view)
                     /\ DOMAIN readers[r].read \subseteq Places(readers[r].view)
                     /\ readers[r].at \in {"store", "answered"} =>
                            DOMAIN readers[r].read = Places(readers[r].view)
           /\ \A v \in Views, g \in Generations :
                 entries[v][g] # None => entries[v][g] \in Seq(Nat) /\ DOMAIN entries[v][g] = Places(v)
<1>1. ASSUME NEW r \in Readers, readers[r].at # "idle"
      PROVE  /\ DOMAIN readers[r].floor = Places(readers[r].view)
             /\ DOMAIN readers[r].read \subseteq Places(readers[r].view)
             /\ readers[r].at \in {"store", "answered"} =>
                    DOMAIN readers[r].read = Places(readers[r].view)
    <2>1. readers[r] \in Calls /\ readers[r].view \in Views
        BY <1>1, CallFacts
    <2>2. readers[r].floor \in Seq(Nat) /\ readers[r].read \in Seq(Nat)
        BY <2>1 DEF Calls
    <2>3. Places(readers[r].view) = 1..Len(ReadsOf[readers[r].view]) /\ Len(ReadsOf[readers[r].view]) \in Nat \ {0}
        BY <2>1, ViewFacts
    <2>4. /\ DOMAIN readers[r].floor = 1..Len(readers[r].floor)
          /\ DOMAIN readers[r].read = 1..Len(readers[r].read) /\ Len(readers[r].read) \in Nat
        BY <2>2
    <2>5. Len(readers[r].read) <= Len(ReadsOf[readers[r].view])
        <3>1. Len(<<>>) = 0
            OBVIOUS
        <3> QED
            BY <1>1, <2>3, <2>4, <3>1, CallFacts DEF SizesOK
    <2>6. /\ Len(readers[r].floor) = Len(ReadsOf[readers[r].view])
          /\ readers[r].at \in {"store", "answered"} =>
                Len(readers[r].read) = Len(ReadsOf[readers[r].view])
        BY <1>1 DEF SizesOK
    <2> QED
        BY <2>3, <2>4, <2>5, <2>6
<1>2. ASSUME NEW v \in Views, NEW g \in Generations, entries[v][g] # None
      PROVE  entries[v][g] \in Seq(Nat) /\ DOMAIN entries[v][g] = Places(v)
    <2>1. entries[v][g] \in Seq(Nat)
        BY <1>2 DEF TypesOK
    <2> QED
        BY <1>2, <2>1, ViewFacts DEF SizesOK
<1> QED
    BY <1>1, <1>2

LEMMA CacheInitial == Init => CacheInv
<1> SUFFICES ASSUME Init PROVE CacheInv
    OBVIOUS
<1>1. MaxWrites \in Nat /\ MaxFaults \in Nat /\ None \notin Nat /\ IsFiniteSet(Writers) /\ 0 \in Generations
    BY CacheAssumption DEF Generations
<1>2. \A r \in Readers : readers[r].at = "idle"
    BY DEF Init, IdleReader
<1>3. \A w \in Writers : writers[w].at = "idle"
    BY DEF Init, IdleWriter
<1>4. \A d \in Domains : GetGeneration(d) = 0
    BY DEF Init, GetGeneration
<1>5. TypesOK
    BY <1>1 DEF Init, TypesOK
<1>6. SizesOK /\ TodoOK /\ KeysOK /\ WritersOK /\ FirstOK /\ CallsOK
    BY <1>2, <1>3 DEF Init, SizesOK, TodoOK, KeysOK, WritersOK, FirstOK, CallsOK, Trusted, Asking
<1>7. SeenOK
    BY <1>2, <1>3 DEF Init, SeenOK
<1>8. BudgetOK
    <2>1. /\ \A d \in Domains : Pending(d) = {}
          /\ \A t \in Tables : InFlight(t) = {}
        BY <1>3 DEF Pending, InFlight
    <2>2. Cardinality({}) = 0
        BY FS_EmptySet
    <2>3. /\ \A d \in Domains : Cardinality(Pending(d)) = 0
          /\ \A t \in Tables : Cardinality(InFlight(t)) = 0
        BY <2>1, <2>2, Zenon
    <2>4. writes = 0 /\ \A t \in Tables : db[t] = 0
        BY DEF Init
    <2> QED
        BY <1>4, <2>3, <2>4 DEF BudgetOK
<1>9. FreshOK
    BY <1>2, CurrentFacts, <1>5 DEF Init, FreshOK, Since, Trusted
<1> QED
    BY <1>5, <1>6, <1>7, <1>8, <1>9 DEF CacheInv

\* What is kept when a call moves or a value expires: the values held for a key
\* are old ones, or what was read for it, or as committed.
LEMMA ReaderMove ==
    ASSUME CacheInv,
           UNCHANGED <<db, generation, writers, writes, faults, announced, regressed>>,
           TypesOK', SizesOK', SeenOK', KeysOK',
           \A v \in Views : \A i \in Places(v) : \A g \in Generations, n \in Nat :
               (/\ Promised(v, i) /\ n <= db[ReadsOf[v][i]]
                /\ Since(entries, readers, v, i, g, n)) => Since(entries', readers', v, i, g, n),
           \A r \in Readers :
               Asking(r)' =>
                   \/ /\ Asking(r) /\ readers'[r].view = readers[r].view
                      /\ readers'[r].key = readers[r].key /\ readers'[r].floor = readers[r].floor
                   \/ /\ readers'[r].view \in Views
                      /\ readers'[r].key = Current(readers'[r].view)
                      /\ readers'[r].floor = FloorNow(readers'[r].view)
    PROVE  CacheInv'
<1>1. /\ TypesOK /\ SizesOK /\ SeenOK /\ TodoOK /\ BudgetOK
      /\ KeysOK /\ FreshOK /\ WritersOK /\ FirstOK /\ CallsOK
    BY DEF CacheInv
<1>2. /\ Trusted' = Trusted /\ \A v \in Views : Current(v)' = Current(v)
      /\ announced' = announced /\ writers' = writers /\ db' = db
    BY DEF Trusted, Current, GetGeneration
<1>3. TodoOK' /\ BudgetOK'
    BY <1>1 DEF TodoOK, BudgetOK, Pending, InFlight, GetGeneration
<1>4. Trusted \subseteq Views
    BY DEF Trusted
<1>5. ASSUME NEW v \in Views, NEW i \in Places(v), NEW g \in Generations, NEW n \in Nat,
             Promised(v, i), n <= db[ReadsOf[v][i]], Since(entries, readers, v, i, g, n)
      PROVE  Since(entries', readers', v, i, g, n)
    BY <1>5
<1>6. \A v \in Views : \A i \in Places(v) :
          announced[ReadsOf[v][i]] \in Nat /\ announced[ReadsOf[v][i]] <= db[ReadsOf[v][i]]
    BY <1>1, ViewFacts DEF TypesOK, SeenOK
<1>7. \A w \in Writers : writers[w].at # "idle" =>
          writers[w].version \in Nat /\ writers[w].version <= db[TableOf[writers[w].kind]]
    BY <1>1, WriteFacts DEF SeenOK
<1>8. \A v \in Views : Current(v) \in Generations
    BY <1>1, CurrentFacts
<1>9. FreshOK'
    <2> SUFFICES ASSUME NEW v \in Trusted, NEW i \in Places(v), Promised(v, i)
                 PROVE  Since(entries', readers', v, i, Current(v), announced[ReadsOf[v][i]])
        BY <1>2, <1>4 DEF FreshOK
    <2>1. Since(entries, readers, v, i, Current(v), announced[ReadsOf[v][i]])
        BY <1>1 DEF FreshOK
    <2> QED
        BY <1>4, <1>5, <1>6, <1>8, <2>1
<1>10. WritersOK'
    <2> SUFFICES ASSUME NEW w \in Writers, NEW v \in Trusted, NEW i \in Places(v),
                        writers[w].at # "idle", ~InTransaction(writers[w].kind),
                        Promised(v, i), ReadsOf[v][i] = TableOf[writers[w].kind],
                        DomainOf[v] \notin Elements(writers[w].todo)
                 PROVE  Since(entries', readers', v, i, Current(v), writers[w].version)
        BY <1>2, <1>4 DEF WritersOK
    <2>1. Since(entries, readers, v, i, Current(v), writers[w].version)
        BY <1>1 DEF WritersOK
    <2> QED
        BY <1>4, <1>5, <1>7, <1>8, <2>1
<1>11. FirstOK'
    <2> SUFFICES ASSUME NEW w \in Writers, NEW v \in Trusted, NEW i \in Places(v),
                        writers[w].at = "first", Head(writers[w].todo) = DomainOf[v],
                        Promised(v, i), ReadsOf[v][i] = TableOf[writers[w].kind],
                        NEW g \in Generations \ {0}
                 PROVE  Since(entries', readers', v, i, g, writers[w].version)
        BY <1>2, <1>4 DEF FirstOK
    <2>1. Since(entries, readers, v, i, g, writers[w].version)
        BY <1>1 DEF FirstOK
    <2> QED
        BY <1>4, <1>5, <1>7, <2>1
<1>12. CallsOK'
    <2> SUFFICES ASSUME NEW r \in Readers, Asking(r)', readers'[r].view \in Trusted,
                        NEW i \in Places(readers'[r].view), Promised(readers'[r].view, i)
                 PROVE  Since(entries', readers', readers'[r].view, i, readers'[r].key, readers'[r].floor[i])
        BY <1>2 DEF CallsOK, Promised, Places
    <2>1. CASE /\ Asking(r) /\ readers'[r].view = readers[r].view
               /\ readers'[r].key = readers[r].key /\ readers'[r].floor = readers[r].floor
        <3>1. Since(entries, readers, readers[r].view, i, readers[r].key, readers[r].floor[i])
            BY <1>1, <2>1 DEF CallsOK
        <3>2. readers[r].at # "idle" /\ readers[r] \in Calls
            BY <1>1, <2>1, CallFacts DEF Asking
        <3>3. readers[r].key \in Generations /\ readers[r].floor \in Seq(Nat)
            BY <3>2 DEF Calls
        <3>4. readers[r].floor[i] \in Nat
            BY <1>1, <2>1, <3>2, <3>3, PlaceFacts
        <3>5. readers[r].floor[i] <= db[ReadsOf[readers[r].view][i]]
            <4>1. readers[r].floor[i] <= announced[ReadsOf[readers[r].view][i]]
                BY <1>1, <2>1, <3>2 DEF SeenOK
            <4>2. readers[r].view \in Views
                BY <1>4, <2>1
            <4>3. db[ReadsOf[readers[r].view][i]] \in Nat
                BY <1>1, <2>1, <4>2, ViewFacts DEF TypesOK
            <4> QED
                BY <2>1, <1>6, <3>4, <4>1, <4>2, <4>3
        <3> QED
            BY <1>4, <1>5, <2>1, <3>1, <3>3, <3>4, <3>5
    <2>2. CASE /\ readers'[r].view \in Views
               /\ readers'[r].key = Current(readers'[r].view)
               /\ readers'[r].floor = FloorNow(readers'[r].view)
        <3>1. readers'[r].floor[i] = announced[ReadsOf[readers'[r].view][i]]
            BY <2>2 DEF FloorNow, Promised, Places
        <3> QED
            BY <1>2, <1>9, <2>2, <3>1 DEF FreshOK, Places, Promised
    <2> QED
        BY <2>1, <2>2
<1> QED
    BY <1>1, <1>3, <1>9, <1>10, <1>11, <1>12 DEF CacheInv

LEMMA BeginKeeps ==
    ASSUME CacheInv, NEW r \in Readers, NEW v \in Views, NEW force \in BOOLEAN, Begin(r, v, force)
    PROVE  CacheInv'
<1> DEFINE a == IF force THEN "read" ELSE "lookup"
           call == Call(v, Current(v), FloorNow(v), a)
<1>1. /\ TypesOK /\ SizesOK /\ SeenOK /\ KeysOK
    BY DEF CacheInv
<1>2. /\ UNCHANGED <<db, generation, entries, writers, writes, faults, announced, regressed>>
      /\ readers' = [readers EXCEPT ![r] = call]
    BY DEF Begin, Current
<1>3. /\ call.at \in {"lookup", "read"} /\ call.view = v /\ call.key = Current(v)
      /\ call.floor = FloorNow(v) /\ call.read = <<>>
    BY DEF Call
<1>4. /\ readers'[r] = call
      /\ \A x \in Readers \ {r} : readers'[x] = readers[x]
    BY <1>1, <1>2 DEF TypesOK
<1>5. /\ FloorNow(v) \in Seq(Nat) /\ Len(FloorNow(v)) = Len(ReadsOf[v])
      /\ \A i \in Places(v) : /\ FloorNow(v)[i] <= announced[ReadsOf[v][i]]
                              /\ ~Promised(v, i) => FloorNow(v)[i] = 0
    <2>1. /\ Places(v) = 1..Len(ReadsOf[v]) /\ Len(ReadsOf[v]) \in Nat
          /\ \A i \in Places(v) : ReadsOf[v][i] \in Tables
        BY ViewFacts
    <2>2. \A i \in Places(v) : announced[ReadsOf[v][i]] \in Nat
        BY <1>1, <2>1 DEF TypesOK
    <2>3. /\ DOMAIN FloorNow(v) = Places(v)
          /\ \A i \in Places(v) :
                FloorNow(v)[i] = IF Promised(v, i) THEN announced[ReadsOf[v][i]] ELSE 0
        BY DEF FloorNow, Places, Promised
    <2>4. \A i \in Places(v) : FloorNow(v)[i] \in Nat
        BY <2>2, <2>3
    <2>5. FloorNow(v) \in [1..Len(ReadsOf[v]) -> Nat]
        BY <2>1, <2>3, <2>4 DEF FloorNow, Places
    <2>6. FloorNow(v) \in Seq(Nat)
        BY <2>1, <2>5
    <2>7. Len(FloorNow(v)) = Len(ReadsOf[v])
        BY <2>1, <2>5, <2>6
    <2> QED
        BY <2>2, <2>3, <2>6, <2>7
<1> HIDE DEF call
<1>6. Current(v) \in Generations
    BY <1>1, CurrentFacts
<1>7. call \in Calls
    BY <1>3, <1>5, <1>6 DEF call, Call, Calls
<1>8. TypesOK'
    BY <1>1, <1>2, <1>7 DEF TypesOK
<1>9. SizesOK'
    <2>1. Len(<<>>) = 0 /\ Len(ReadsOf[v]) \in Nat \ {0}
        BY ViewFacts
    <2>2. /\ Len(call.floor) = Len(ReadsOf[call.view])
          /\ call.at \in {"lookup", "read"} /\ call.read = <<>>
          /\ Len(call.read) < Len(ReadsOf[call.view])
        BY <1>3, <1>5, <2>1
    <2> QED
        BY <1>1, <1>2, <1>4, <2>2 DEF SizesOK
<1>10. SeenOK'
    <2>1. \A i \in DOMAIN call.read : FALSE
        BY <1>3
    <2>2. \A i \in Places(call.view) :
              /\ call.floor[i] <= announced[ReadsOf[call.view][i]]
              /\ ~Promised(call.view, i) => call.floor[i] = 0
        BY <1>3, <1>5
    <2> QED
        BY <1>1, <1>2, <1>4, <2>1, <2>2 DEF SeenOK, Promised
<1>11. /\ Trusted' = Trusted /\ \A x \in Views : Current(x)' = Current(x)
    BY <1>2 DEF Trusted, Current, GetGeneration
<1>12. Trusted \subseteq Views
    BY DEF Trusted
<1>13. KeysOK'
    <2>1. call.key <= Current(call.view)
        BY <1>3, <1>6, CurrentFacts, <1>1
    <2> QED
        BY <1>1, <1>2, <1>3, <1>4, <1>11, <1>12, <2>1 DEF KeysOK, Asking
<1>14. ASSUME NEW x \in Views, NEW i \in Places(x), NEW g \in Generations, NEW n \in Nat,
              Since(entries, readers, x, i, g, n)
       PROVE  Since(entries', readers', x, i, g, n)
    BY <1>2, <1>3, <1>4, <1>14 DEF Since
<1>15. ASSUME NEW x \in Readers, Asking(x)'
       PROVE  \/ /\ Asking(x) /\ readers'[x].view = readers[x].view
                 /\ readers'[x].key = readers[x].key /\ readers'[x].floor = readers[x].floor
              \/ /\ readers'[x].view \in Views
                 /\ readers'[x].key = Current(readers'[x].view)
                 /\ readers'[x].floor = FloorNow(readers'[x].view)
    BY <1>3, <1>4, <1>15 DEF Asking
<1> QED
    BY <1>2, <1>8, <1>9, <1>10, <1>13, <1>14, <1>15, ReaderMove

\* A call goes on with its view, key and floor: it has read x, old values or what
\* is committed, and stores no more than what it had read.
Moves(r, a, x) ==
    /\ readers' = [readers EXCEPT ![r] = [readers[r] EXCEPT !.at = a, !.read = x]]
    /\ UNCHANGED <<db, generation, writers, writes, faults, announced, regressed>>
    /\ a = "read" => Len(x) < Len(ReadsOf[readers[r].view])
    /\ a # "read" => Len(x) = Len(ReadsOf[readers[r].view])
    /\ \A i \in DOMAIN x : x[i] <= db[ReadsOf[readers[r].view][i]]
    /\ a # "answered" =>
          /\ Asking(r)
          /\ \A i \in DOMAIN x :
                \/ i \in DOMAIN readers[r].read /\ x[i] = readers[r].read[i]
                \/ x[i] = db[ReadsOf[readers[r].view][i]]

StoresRead(r) ==
    /\ entries' \in [Views -> [Generations -> Seq(Nat) \cup {None}]]
    /\ \A v \in Views, g \in Generations :
          entries'[v][g] # None =>
              \/ entries'[v][g] = entries[v][g]
              \/ /\ v = readers[r].view /\ entries'[v][g] = readers[r].read
                 /\ readers[r].at = "store"
                 /\ g = IF v = "streams" THEN Current(v) ELSE readers[r].key

LEMMA CallMoves ==
    ASSUME CacheInv, NEW r \in Readers, readers[r].at # "idle",
           NEW a \in {"read", "store", "answered"}, NEW x \in Seq(Nat),
           Moves(r, a, x), StoresRead(r)
    PROVE  CacheInv'
<1> DEFINE v0 == readers[r].view
           call == [readers[r] EXCEPT !.at = a, !.read = x]
<1>1. /\ TypesOK /\ SizesOK /\ SeenOK /\ KeysOK
    BY DEF CacheInv
<1>2. readers[r] \in Calls /\ v0 \in Views /\ readers[r].key \in Generations
    BY <1>1, CallFacts DEF Calls
<1>3. /\ call \in Calls /\ call.at = a /\ call.read = x /\ call.view = v0
      /\ call.key = readers[r].key /\ call.floor = readers[r].floor
    BY <1>2, CallChange DEF Calls
<1>4. /\ readers' = [readers EXCEPT ![r] = call]
      /\ entries' \in [Views -> [Generations -> Seq(Nat) \cup {None}]]
      /\ UNCHANGED <<db, generation, writers, writes, faults, announced, regressed>>
    BY DEF Moves, StoresRead
<1> HIDE DEF call
<1>5. /\ readers'[r] = call
      /\ \A y \in Readers \ {r} : readers'[y] = readers[y]
    BY <1>1, <1>4 DEF TypesOK
<1>6. TypesOK'
    BY <1>1, <1>3, <1>4 DEF TypesOK
<1>6a. \A v \in Views, g \in Generations :
           entries'[v][g] # None =>
               \/ entries'[v][g] = entries[v][g]
               \/ /\ v = v0 /\ entries'[v][g] = readers[r].read
                  /\ readers[r].at = "store"
                  /\ g = IF v = "streams" THEN Current(v) ELSE readers[r].key
    BY DEF StoresRead
<1>7. ASSUME NEW v \in Views, NEW g \in Generations, entries'[v][g] # None
      PROVE  /\ Len(entries'[v][g]) = Len(ReadsOf[v])
             /\ \A i \in Places(v) : entries'[v][g][i] <= db[ReadsOf[v][i]]
    <2>1. CASE entries'[v][g] = entries[v][g]
        BY <1>1, <1>7, <2>1 DEF SizesOK, SeenOK
    <2>2. CASE v = v0 /\ entries'[v][g] = readers[r].read /\ readers[r].at = "store"
        <3>1. Len(readers[r].read) = Len(ReadsOf[v0])
            BY <1>1, <2>2 DEF SizesOK
        <3>2. DOMAIN readers[r].read = Places(v0)
            BY <1>1, <2>2, PlaceFacts
        <3> QED
            BY <1>1, <2>2, <3>1, <3>2 DEF SeenOK
    <2> QED
        BY <1>7, <1>6a, <2>1, <2>2
<1>8. SizesOK'
    <2>1. Len(call.floor) = Len(ReadsOf[call.view])
        BY <1>1, <1>3 DEF SizesOK
    <2>2. /\ call.at \in {"read", "store", "answered"}
          /\ call.at = "read" => Len(call.read) < Len(ReadsOf[call.view])
          /\ call.at \in {"store", "answered"} => Len(call.read) = Len(ReadsOf[call.view])
        BY <1>3 DEF Moves
    <2>3. \A y \in Readers :
              readers'[y].at # "idle" =>
                  /\ Len(readers'[y].floor) = Len(ReadsOf[readers'[y].view])
                  /\ readers'[y].at = "lookup" => readers'[y].read = <<>>
                  /\ readers'[y].at = "read" => Len(readers'[y].read) < Len(ReadsOf[readers'[y].view])
                  /\ readers'[y].at \in {"store", "answered"} =>
                        Len(readers'[y].read) = Len(ReadsOf[readers'[y].view])
        BY <1>1, <1>5, <2>1, <2>2 DEF SizesOK
    <2> QED
        BY <1>7, <2>3 DEF SizesOK
<1>9. SeenOK'
    <2>1. /\ \A i \in DOMAIN call.read : call.read[i] <= db[ReadsOf[call.view][i]]
          /\ \A i \in Places(call.view) :
                /\ call.floor[i] <= announced[ReadsOf[call.view][i]]
                /\ ~Promised(call.view, i) => call.floor[i] = 0
        BY <1>1, <1>3 DEF SeenOK, Moves
    <2>2. \A y \in Readers :
              readers'[y].at # "idle" =>
                  /\ \A i \in DOMAIN readers'[y].read : readers'[y].read[i] <= db[ReadsOf[readers'[y].view][i]]
                  /\ \A i \in Places(readers'[y].view) :
                        /\ readers'[y].floor[i] <= announced[ReadsOf[readers'[y].view][i]]
                        /\ ~Promised(readers'[y].view, i) => readers'[y].floor[i] = 0
        BY <1>1, <1>4, <1>5, <2>1 DEF SeenOK
    <2> QED
        BY <1>1, <1>4, <1>7, <2>2 DEF SeenOK, Promised, Places
<1>10. /\ Trusted' = Trusted /\ \A y \in Views : Current(y)' = Current(y)
    BY <1>4 DEF Trusted, Current, GetGeneration
<1>11. Trusted \subseteq Views /\ \A y \in Views : Current(y) \in Nat
    BY <1>1, CurrentFacts DEF Trusted
<1>12. Asking(r)' => Asking(r)
    BY <1>3, <1>5 DEF Asking, Moves
<1>13. KeysOK'
    <2>1. ASSUME NEW v \in Trusted, NEW g \in Generations, g > Current(v), entries'[v][g] # None
          PROVE  FALSE
        <3>1. entries[v][g] = None
            BY <1>1, <2>1 DEF KeysOK
        <3>2. v = v0 /\ readers[r].at = "store" /\ g = IF v = "streams" THEN Current(v) ELSE readers[r].key
            BY <1>11, <1>6a, <2>1, <3>1
        <3>3. readers[r].key <= Current(v)
            BY <1>1, <3>2 DEF KeysOK, Asking
        <3> QED
            BY <1>2, <1>11, <2>1, <3>2, <3>3, CurrentFacts, <1>1
    <2>2. \A y \in Readers :
              Asking(y)' /\ readers'[y].view \in Trusted => readers'[y].key <= Current(readers'[y].view)
        BY <1>1, <1>3, <1>5, <1>12 DEF KeysOK, Asking
    <2> QED
        BY <1>10, <1>11, <2>1, <2>2 DEF KeysOK
<1>14. ASSUME NEW v \in Views, NEW i \in Places(v), NEW g \in Generations, NEW n \in Nat,
              Promised(v, i), n <= db[ReadsOf[v][i]], Since(entries, readers, v, i, g, n)
       PROVE  Since(entries', readers', v, i, g, n)
    <2>1. v # "streams"
        BY <1>14, ViewFacts
    <2>2. ASSUME entries'[v][g] # None PROVE n <= entries'[v][g][i]
        <3>1. CASE entries'[v][g] = entries[v][g]
            BY <1>14, <2>2, <3>1 DEF Since
        <3>2. CASE v = v0 /\ entries'[v][g] = readers[r].read /\ readers[r].at = "store" /\ g = readers[r].key
            <4>1. i \in DOMAIN readers[r].read
                BY <1>1, <3>2, PlaceFacts
            <4> QED
                BY <1>14, <3>2, <4>1 DEF Since
        <3> QED
            BY <1>6a, <2>1, <2>2, <3>1, <3>2
    <2>3. ASSUME NEW y \in Readers, readers'[y].at \in {"lookup", "read", "store"},
                 readers'[y].view = v, readers'[y].key = g, i \in DOMAIN readers'[y].read
          PROVE  n <= readers'[y].read[i]
        <3>1. CASE y # r
            BY <1>5, <1>14, <2>3, <3>1 DEF Since
        <3>2. CASE y = r
            <4>1. a # "answered" /\ v = v0 /\ g = readers[r].key /\ i \in DOMAIN x /\ readers'[y].read = x
                BY <1>3, <1>5, <2>3, <3>2
            <4>2. readers[r].at \in {"lookup", "read", "store"}
                BY <4>1 DEF Asking, Moves
            <4>3. CASE i \in DOMAIN readers[r].read /\ x[i] = readers[r].read[i]
                BY <1>14, <4>1, <4>2, <4>3 DEF Since
            <4>4. CASE x[i] = db[ReadsOf[v0][i]]
                BY <1>14, <4>1, <4>4
            <4> QED
                BY <4>1, <4>3, <4>4 DEF Moves
        <3> QED
            BY <3>1, <3>2
    <2> QED
        BY <2>2, <2>3 DEF Since
<1>15. ASSUME NEW y \in Readers, Asking(y)'
       PROVE  /\ Asking(y) /\ readers'[y].view = readers[y].view
              /\ readers'[y].key = readers[y].key /\ readers'[y].floor = readers[y].floor
    BY <1>3, <1>5, <1>12, <1>15 DEF Asking
<1> QED
    BY <1>4, <1>6, <1>8, <1>9, <1>13, <1>14, <1>15, ReaderMove

LEMMA LookupKeeps ==
    ASSUME CacheInv, NEW r \in Readers, Lookup(r)
    PROVE  CacheInv'
<1> DEFINE cached == entries[readers[r].view][readers[r].key]
<1>1. /\ TypesOK /\ SizesOK /\ SeenOK
    BY DEF CacheInv
<1>2. readers[r].at = "lookup" /\ Asking(r) /\ readers[r] \in Calls /\ readers[r].view \in Views
    BY <1>1, CallFacts DEF Lookup, Asking
<1>3. /\ readers[r].key \in Generations /\ readers[r].read = <<>> /\ readers[r].read \in Seq(Nat)
      /\ Len(ReadsOf[readers[r].view]) \in Nat \ {0} /\ Len(<<>>) = 0
    BY <1>1, <1>2, ViewFacts DEF Calls, SizesOK
<1>4. /\ UNCHANGED <<db, generation, writers, writes, faults, announced, regressed>>
      /\ entries' = entries
    BY DEF Lookup
<1>5. StoresRead(r)
    BY <1>1, <1>4 DEF StoresRead, TypesOK
<1>6. CASE cached = None
    <2> DEFINE x == readers[r].read
    <2>1. readers' = [readers EXCEPT ![r].at = "read"] /\ readers \in [Readers -> {IdleReader} \cup Calls]
        BY <1>1, <1>6 DEF Lookup, TypesOK
    <2>2. [readers[r] EXCEPT !.at = "read"] = [readers[r] EXCEPT !.at = "read", !.read = x]
        BY <1>2, CallChange
    <2>3. readers' = [readers EXCEPT ![r] = [readers[r] EXCEPT !.at = "read", !.read = x]]
        BY <2>1, <2>2
    <2>4. Len(x) < Len(ReadsOf[readers[r].view]) /\ DOMAIN x = {}
        BY <1>3
    <2>5. Moves(r, "read", x)
        BY <1>2, <1>4, <2>3, <2>4 DEF Moves
    <2> QED
        BY <1>2, <1>3, <1>5, <2>5, CallMoves
<1>7. CASE cached # None
    <2>1. readers' = [readers EXCEPT ![r] = [readers[r] EXCEPT !.at = "answered", !.read = cached]]
        BY <1>1, <1>2, <1>3, <1>7 DEF Lookup, Answer, TypesOK, Calls
    <2>2. /\ cached \in Seq(Nat) /\ Len(cached) = Len(ReadsOf[readers[r].view])
          /\ \A i \in DOMAIN cached : cached[i] <= db[ReadsOf[readers[r].view][i]]
        BY <1>1, <1>2, <1>3, <1>7, PlaceFacts DEF SizesOK, SeenOK
    <2> HIDE DEF cached
    <2>3. Moves(r, "answered", cached)
        BY <1>4, <2>1, <2>2 DEF Moves
    <2> QED
        BY <1>2, <1>5, <2>2, <2>3, CallMoves
<1> QED
    BY <1>6, <1>7

LEMMA ReadKeeps ==
    ASSUME CacheInv, NEW r \in Readers, Read(r)
    PROVE  CacheInv'
<1> DEFINE old == readers[r].read
           n == db[ReadsOf[readers[r].view][Len(old) + 1]]
           x == Append(old, n)
           a == IF Len(x) = Len(ReadsOf[readers[r].view]) THEN "store" ELSE "read"
<1>1. /\ TypesOK /\ SizesOK /\ SeenOK
    BY DEF CacheInv
<1>2. /\ readers[r].at = "read" /\ Asking(r) /\ readers[r] \in Calls /\ readers[r].view \in Views
      /\ old \in Seq(Nat)
    BY <1>1, CallFacts DEF Read, Asking, Calls
<1>3. /\ Len(old) \in Nat /\ Len(ReadsOf[readers[r].view]) \in Nat
      /\ Len(old) < Len(ReadsOf[readers[r].view])
    BY <1>1, <1>2, ViewFacts DEF SizesOK
<1>4. n \in Nat
    <2>1. Len(old) + 1 \in Places(readers[r].view)
        BY <1>2, <1>3, ViewFacts
    <2> QED
        BY <1>1, <1>2, <2>1, ViewFacts DEF TypesOK
<1>5. /\ UNCHANGED <<db, generation, writers, writes, faults, announced, regressed>>
      /\ entries' = entries
    BY DEF Read
<1>6. readers' = [readers EXCEPT ![r] = [readers[r] EXCEPT !.at = a, !.read = x]]
    BY <1>1, <1>2 DEF Read, TypesOK, Calls
<1> HIDE DEF n
<1>7. /\ x \in Seq(Nat) /\ Len(x) = Len(old) + 1 /\ DOMAIN x = 1..(Len(old) + 1) /\ DOMAIN old = 1..Len(old)
      /\ \A i \in DOMAIN old : x[i] = old[i]
      /\ x[Len(old) + 1] = n
    BY <1>2, <1>4
<1>8. \A i \in DOMAIN x : (i \in DOMAIN old /\ x[i] = old[i]) \/ x[i] = db[ReadsOf[readers[r].view][i]]
    BY <1>3, <1>7 DEF n
<1>9. \A i \in DOMAIN x : x[i] <= db[ReadsOf[readers[r].view][i]]
    <2>1. \A i \in DOMAIN old : old[i] <= db[ReadsOf[readers[r].view][i]]
        BY <1>1, <1>2 DEF SeenOK
    <2>2. \A i \in DOMAIN x : i = Len(old) + 1 \/ i \in DOMAIN old
        BY <1>3, <1>7
    <2>3. n <= db[ReadsOf[readers[r].view][Len(old) + 1]]
        BY <1>4 DEF n
    <2> QED
        BY <1>7, <2>1, <2>2, <2>3
<1>10. /\ a \in {"read", "store", "answered"}
       /\ a = "read" => Len(x) < Len(ReadsOf[readers[r].view])
       /\ a # "read" => Len(x) = Len(ReadsOf[readers[r].view])
    BY <1>3, <1>7
<1> HIDE DEF x, a
<1>11. Moves(r, a, x)
    BY <1>2, <1>5, <1>6, <1>8, <1>9, <1>10 DEF Moves
<1>12. StoresRead(r)
    BY <1>1, <1>5 DEF StoresRead, TypesOK
<1>13. x \in Seq(Nat) /\ readers[r].at # "idle"
    BY <1>2, <1>7
<1> QED
    BY <1>10, <1>11, <1>12, <1>13, CallMoves

LEMMA StoreKeeps ==
    ASSUME CacheInv, NEW r \in Readers, Store(r)
    PROVE  CacheInv'
<1> DEFINE v0 == readers[r].view
           k == StoreKey(readers[r])
           x == readers[r].read
<1>1. /\ TypesOK /\ SizesOK /\ SeenOK
    BY DEF CacheInv
<1>2. /\ readers[r].at = "store" /\ readers[r] \in Calls /\ v0 \in Views
      /\ x \in Seq(Nat) /\ readers[r].key \in Generations
    BY <1>1, CallFacts DEF Store, Calls
<1>3. /\ UNCHANGED <<db, generation, writers, writes, faults, announced, regressed>>
      /\ entries' = [entries EXCEPT ![v0][k] = x]
    BY DEF Store
<1>4. k = IF v0 = "streams" THEN Current(v0) ELSE readers[r].key
    BY DEF StoreKey, Current, DomainOf
<1>5. k \in Generations
    BY <1>1, <1>2, <1>4, CurrentFacts
<1>6. readers' = [readers EXCEPT ![r] = [readers[r] EXCEPT !.at = "answered", !.read = x]]
    BY <1>1, <1>2 DEF Store, Answer, TypesOK, Calls
<1>7. /\ Len(x) = Len(ReadsOf[v0])
      /\ \A i \in DOMAIN x : x[i] <= db[ReadsOf[v0][i]]
    BY <1>1, <1>2 DEF SizesOK, SeenOK
<1> HIDE DEF k, x
<1>8. /\ entries' \in [Views -> [Generations -> Seq(Nat) \cup {None}]]
      /\ \A v \in Views, g \in Generations :
            entries'[v][g] = IF v = v0 /\ g = k THEN x ELSE entries[v][g]
    BY <1>1, <1>2, <1>3, <1>5 DEF TypesOK
<1>9. StoresRead(r)
    BY <1>2, <1>4, <1>8 DEF StoresRead, x
<1>10. Moves(r, "answered", x)
    BY <1>3, <1>6, <1>7 DEF Moves
<1> QED
    BY <1>2, <1>9, <1>10, CallMoves

LEMMA FetchFailsKeeps ==
    ASSUME CacheInv, NEW r \in Readers, FetchFails(r)
    PROVE  CacheInv'
<1>1. /\ TypesOK /\ SizesOK /\ SeenOK /\ KeysOK
    BY DEF CacheInv
<1>2. /\ readers' = [readers EXCEPT ![r] = IdleReader]
      /\ UNCHANGED <<db, generation, entries, writers, writes, faults, announced, regressed>>
    BY DEF FetchFails
<1>3. /\ readers'[r] = IdleReader /\ readers'[r].at = "idle"
      /\ \A x \in Readers \ {r} : readers'[x] = readers[x]
    BY <1>1, <1>2 DEF TypesOK, IdleReader
<1>4. TypesOK'
    BY <1>1, <1>2 DEF TypesOK
<1>5. SizesOK'
    BY <1>1, <1>2, <1>3 DEF SizesOK
<1>6. SeenOK'
    BY <1>1, <1>2, <1>3 DEF SeenOK, Promised
<1>7. /\ Trusted' = Trusted /\ \A v \in Views : Current(v)' = Current(v)
      /\ Trusted \subseteq Views
    BY <1>2 DEF Trusted, Current, GetGeneration
<1>8. \A x \in Readers :
          Asking(x)' => /\ Asking(x) /\ readers'[x].view = readers[x].view
                        /\ readers'[x].key = readers[x].key /\ readers'[x].floor = readers[x].floor
    BY <1>3 DEF Asking
<1>9. KeysOK'
    BY <1>1, <1>2, <1>7, <1>8 DEF KeysOK
<1>10. ASSUME NEW v \in Views, NEW i \in Places(v), NEW g \in Generations, NEW n \in Nat,
              Since(entries, readers, v, i, g, n)
       PROVE  Since(entries', readers', v, i, g, n)
    BY <1>2, <1>3, <1>10 DEF Since
<1> QED
    BY <1>2, <1>4, <1>5, <1>6, <1>8, <1>9, <1>10, ReaderMove

LEMMA ExpireKeeps ==
    ASSUME CacheInv, NEW v0 \in Views, NEW g0 \in Generations, Expire(v0, g0)
    PROVE  CacheInv'
<1>1. /\ TypesOK /\ SizesOK /\ SeenOK /\ KeysOK
    BY DEF CacheInv
<1>2. /\ entries' = [entries EXCEPT ![v0][g0] = None]
      /\ UNCHANGED <<db, generation, readers, writers, writes, faults, announced, regressed>>
    BY DEF Expire
<1>3. /\ entries' \in [Views -> [Generations -> Seq(Nat) \cup {None}]]
      /\ \A v \in Views, g \in Generations : entries'[v][g] = None \/ entries'[v][g] = entries[v][g]
    BY <1>1, <1>2 DEF TypesOK
<1>4. TypesOK'
    BY <1>1, <1>2, <1>3 DEF TypesOK
<1>5. SizesOK'
    BY <1>1, <1>2, <1>3 DEF SizesOK
<1>6. SeenOK'
    BY <1>1, <1>2, <1>3 DEF SeenOK, Promised, Places
<1>7. /\ Trusted' = Trusted /\ \A v \in Views : Current(v)' = Current(v)
      /\ Trusted \subseteq Views
    BY <1>2 DEF Trusted, Current, GetGeneration
<1>8. KeysOK'
    BY <1>1, <1>2, <1>3, <1>7 DEF KeysOK, Asking
<1>9. ASSUME NEW v \in Views, NEW i \in Places(v), NEW g \in Generations, NEW n \in Nat,
             Since(entries, readers, v, i, g, n)
      PROVE  Since(entries', readers', v, i, g, n)
    BY <1>2, <1>3, <1>9 DEF Since
<1>10. \A x \in Readers : Asking(x)' => Asking(x)
    BY <1>2 DEF Asking
<1> QED
    BY <1>2, <1>4, <1>5, <1>6, <1>8, <1>9, <1>10, ReaderMove
-----------------------------------------------------------------------------
\* Sets of writers are counted.
LEMMA CountFacts ==
    ASSUME NEW S \in SUBSET Writers
    PROVE  /\ IsFiniteSet(S) /\ Cardinality(S) \in Nat
           /\ \A T \in SUBSET S : Cardinality(T) <= Cardinality(S)
           /\ \A w \in S : Cardinality(S \ {w}) = Cardinality(S) - 1
           /\ \A w \in Writers \ S : Cardinality(S \cup {w}) = Cardinality(S) + 1
<1>1. IsFiniteSet(S)
    BY CacheAssumption, FS_Subset
<1>2. Cardinality(S) \in Nat
    BY <1>1, FS_CardinalityType
<1>3. \A T \in SUBSET S : Cardinality(T) <= Cardinality(S)
    BY <1>1, FS_Subset
<1>4. \A w \in S : Cardinality(S \ {w}) = Cardinality(S) - 1
    BY <1>1, FS_RemoveElement
<1>5. \A w \in Writers \ S : Cardinality(S \cup {w}) = Cardinality(S) + 1
    BY <1>1, FS_AddElement
<1> QED
    BY <1>1, <1>2, <1>3, <1>4, <1>5

\* A database that grows stays above what was seen of it.
LEMMA DatabaseGrows ==
    ASSUME TypesOK, SizesOK, SeenOK,
           \A u \in Tables : db[u] \in Nat /\ db'[u] \in Nat /\ db[u] <= db'[u],
           UNCHANGED <<entries, readers, announced>>,
           \A x \in Writers :
               writers'[x].at # "idle" =>
                   \/ writers'[x] = writers[x]
                   \/ writers'[x].version <= db'[TableOf[writers'[x].kind]]
    PROVE  SeenOK'
<1>1. \A u \in Tables : announced'[u] \in Nat /\ announced'[u] <= db'[u]
    BY DEF SeenOK, TypesOK
<1>2. ASSUME NEW r \in Readers, readers[r].at # "idle", NEW i \in DOMAIN readers[r].read
      PROVE  readers[r].read[i] <= db'[ReadsOf[readers[r].view][i]]
    <2>1. readers[r].view \in Views /\ readers[r].read \in Seq(Nat)
        BY <1>2, CallFacts DEF Calls
    <2>2. readers[r].read[i] \in Nat /\ i \in Places(readers[r].view)
        BY <1>2, <2>1, PlaceFacts
    <2>3. ReadsOf[readers[r].view][i] \in Tables
        BY <2>1, <2>2, ViewFacts
    <2>4. readers[r].read[i] <= db[ReadsOf[readers[r].view][i]]
        BY <1>2 DEF SeenOK
    <2> QED
        BY <2>2, <2>3, <2>4
<1>3. ASSUME NEW v \in Views, NEW g \in Generations, entries[v][g] # None, NEW i \in Places(v)
      PROVE  entries[v][g][i] <= db'[ReadsOf[v][i]]
    <2>1. entries[v][g][i] \in Nat
        BY <1>3, PlaceFacts
    <2>2. entries[v][g][i] <= db[ReadsOf[v][i]] /\ ReadsOf[v][i] \in Tables
        BY <1>3, ViewFacts DEF SeenOK
    <2> QED
        BY <2>1, <2>2
<1>4. ASSUME NEW x \in Writers, writers'[x].at # "idle"
      PROVE  writers'[x].version <= db'[TableOf[writers'[x].kind]]
    <2> SUFFICES ASSUME writers'[x] = writers[x] PROVE writers'[x].version <= db'[TableOf[writers'[x].kind]]
        BY <1>4
    <2>1. writers[x].at # "idle"
        BY <1>4
    <2>2. writers[x].version \in Nat /\ TableOf[writers[x].kind] \in Tables
        BY <2>1, WriteFacts
    <2>3. writers[x].version <= db[TableOf[writers[x].kind]]
        BY <2>1 DEF SeenOK
    <2> QED
        BY <2>2, <2>3
<1> QED
    BY <1>1, <1>2, <1>3, <1>4 DEF SeenOK, Promised, Places

LEMMA SaveKeeps ==
    ASSUME CacheInv, NEW w \in Writers, NEW kind \in WriteKinds, Save(w, kind)
    PROVE  CacheInv'
<1> DEFINE t == TableOf[kind]
           new == Write(kind, "bump", BumpsOf(kind), db'[t])
<1>1. /\ TypesOK /\ SizesOK /\ SeenOK /\ TodoOK /\ BudgetOK
      /\ KeysOK /\ FreshOK /\ WritersOK /\ FirstOK /\ CallsOK
    BY DEF CacheInv
<1>2. /\ writers[w].at = "idle" /\ writes < MaxWrites /\ writes' = writes + 1
      /\ db' = IF InTransaction(kind) THEN db ELSE [db EXCEPT ![t] = @ + 1]
      /\ writers' = IF Signalled(kind) THEN [writers EXCEPT ![w] = new] ELSE writers
      /\ UNCHANGED <<generation, entries, readers, faults, announced, regressed>>
    BY DEF Save, Committed
<1>3. /\ t \in Tables /\ BumpsOf(kind) \in Seq(Domains) /\ Distinct(BumpsOf(kind))
      /\ MaxWrites \in Nat /\ writes \in Nat
    BY <1>1, KindFacts, CacheAssumption DEF TypesOK
<1>4. /\ db' \in [Tables -> Nat]
      /\ \A u \in Tables : db[u] \in Nat /\ db[u] <= db'[u] /\ db'[u] <= db[u] + 1
      /\ InTransaction(kind) => db' = db
    BY <1>1, <1>2, <1>3 DEF TypesOK
<1>5. new.at = "bump" /\ new.kind = kind /\ new.todo = BumpsOf(kind) /\ new.version = db'[t]
    BY DEF Write
<1>6. new \in Writing
    BY <1>3, <1>4 DEF Write, Writing
<1> HIDE DEF new
<1>7. \A x \in Writers :
          writers'[x].at # "idle" =>
              \/ x = w /\ writers'[x] = new /\ Signalled(kind)
              \/ x # w /\ writers'[x] = writers[x]
    <2>1. writers \in [Writers -> {IdleWriter} \cup Writing]
        BY <1>1 DEF TypesOK
    <2>2. CASE Signalled(kind)
        <3>1. writers' = [writers EXCEPT ![w] = new]
            BY <1>2, <2>2
        <3> QED
            BY <2>1, <2>2, <3>1
    <2>3. CASE ~Signalled(kind)
        <3>1. writers' = writers
            BY <1>2, <2>3
        <3> QED
            BY <1>2, <3>1
    <2> QED
        BY <2>2, <2>3
<1>8. /\ Trusted' = Trusted /\ \A v \in Views : Current(v)' = Current(v)
      /\ \A d \in Domains : GetGeneration(d)' = GetGeneration(d)
      /\ Trusted \subseteq Views
    BY <1>2 DEF Trusted, Current, GetGeneration
<1>9. TypesOK'
    BY <1>1, <1>2, <1>3, <1>4, <1>6 DEF TypesOK
<1>10. SizesOK' /\ KeysOK' /\ FreshOK' /\ CallsOK'
    BY <1>1, <1>2, <1>8 DEF SizesOK, KeysOK, FreshOK, CallsOK, Asking, Promised, Places
<1>11. SeenOK'
    <2>1. ASSUME NEW x \in Writers, writers'[x].at # "idle", writers'[x] # writers[x]
          PROVE  writers'[x].version <= db'[TableOf[writers'[x].kind]]
        BY <1>3, <1>4, <1>5, <1>7, <2>1
    <2>2. \A u \in Tables : db[u] \in Nat /\ db'[u] \in Nat /\ db[u] <= db'[u]
        BY <1>4
    <2> QED
        BY <1>1, <1>2, <2>1, <2>2, DatabaseGrows
<1>12. TodoOK'
    BY <1>1, <1>3, <1>5, <1>7 DEF TodoOK
<1>13. BudgetOK'
    <2>1. ASSUME NEW d \in Domains PROVE GetGeneration(d) + Cardinality(Pending(d)') <= writes + 1
        <3>1. Pending(d) \in SUBSET Writers /\ w \notin Pending(d)
            BY <1>2 DEF Pending
        <3>2. Pending(d)' \in SUBSET (Pending(d) \cup {w})
            BY <1>7 DEF Pending
        <3>3. Cardinality(Pending(d) \cup {w}) = Cardinality(Pending(d)) + 1 /\ Cardinality(Pending(d)) \in Nat
            BY <3>1, CountFacts
        <3>4. /\ Cardinality(Pending(d)') <= Cardinality(Pending(d) \cup {w})
              /\ Cardinality(Pending(d)') \in Nat
            <4>1. Pending(d) \cup {w} \in SUBSET Writers /\ Pending(d)' \in SUBSET Writers
                BY <3>1, <3>2
            <4> QED
                BY <3>2, <4>1, CountFacts
        <3>5. GetGeneration(d) + Cardinality(Pending(d)) <= writes
            BY <1>1 DEF BudgetOK
        <3> QED
            BY <1>1, <1>3, <3>3, <3>4, <3>5, CurrentFacts
    <2>2. ASSUME NEW u \in Tables PROVE db'[u] + Cardinality(InFlight(u)') <= writes + 1
        <3>1. InFlight(u) \in SUBSET Writers /\ w \notin InFlight(u)
            BY <1>2 DEF InFlight
        <3>2. db[u] + Cardinality(InFlight(u)) <= writes /\ Cardinality(InFlight(u)) \in Nat
            BY <1>1, <3>1, CountFacts DEF BudgetOK
        <3>3. CASE InTransaction(kind)
            <4>1. InFlight(u)' \in SUBSET (InFlight(u) \cup {w})
                BY <1>7 DEF InFlight
            <4>2. InFlight(u) \cup {w} \in SUBSET Writers /\ InFlight(u)' \in SUBSET Writers
                BY <3>1, <4>1
            <4>3. /\ Cardinality(InFlight(u)') <= Cardinality(InFlight(u)) + 1
                  /\ Cardinality(InFlight(u)') \in Nat
                BY <3>1, <4>1, <4>2, CountFacts
            <4> QED
                BY <1>3, <1>4, <3>2, <3>3, <4>3
        <3>4. CASE ~InTransaction(kind)
            <4>1. InFlight(u)' \in SUBSET InFlight(u)
                BY <1>5, <1>7, <3>4 DEF InFlight
            <4>2. Cardinality(InFlight(u)') <= Cardinality(InFlight(u)) /\ Cardinality(InFlight(u)') \in Nat
                BY <3>1, <4>1, CountFacts
            <4> QED
                BY <1>3, <1>4, <3>2, <4>2
        <3> QED
            BY <3>3, <3>4
    <2> QED
        BY <1>2, <1>8, <2>1, <2>2 DEF BudgetOK
<1>14. WritersOK'
    <2> SUFFICES ASSUME NEW x \in Writers, NEW v \in Trusted, NEW i \in Places(v),
                        writers'[x].at # "idle", ~InTransaction(writers'[x].kind),
                        Promised(v, i), ReadsOf[v][i] = TableOf[writers'[x].kind]
                 PROVE  \/ DomainOf[v] \in Elements(writers'[x].todo)
                        \/ Since(entries, readers, v, i, Current(v), writers'[x].version)
        BY <1>2, <1>8 DEF WritersOK, Promised, Places
    <2>1. CASE x = w /\ writers'[x] = new /\ Signalled(kind)
        BY <1>5, <1>8, <2>1, KindFacts
    <2>2. CASE writers'[x] = writers[x]
        BY <1>1, <2>2 DEF WritersOK
    <2> QED
        BY <1>7, <2>1, <2>2
<1>15. FirstOK'
    <2> SUFFICES ASSUME NEW x \in Writers, NEW v \in Trusted, NEW i \in Places(v),
                        writers'[x].at = "first", Head(writers'[x].todo) = DomainOf[v],
                        Promised(v, i), ReadsOf[v][i] = TableOf[writers'[x].kind]
                 PROVE  \A g \in Generations \ {0} : Since(entries, readers, v, i, g, writers'[x].version)
        BY <1>2, <1>8 DEF FirstOK, Promised, Places
    <2>1. writers'[x] = writers[x]
        BY <1>5, <1>7
    <2> QED
        BY <1>1, <2>1 DEF FirstOK
<1> QED
    BY <1>9, <1>10, <1>11, <1>12, <1>13, <1>14, <1>15 DEF CacheInv

\* A write stores the next generation of a domain, or 1 when it found none.
LEMMA BumpKeeps ==
    ASSUME CacheInv, NEW w \in Writers, writers[w].at # "idle", writers[w].todo # <<>>,
           NEW n \in Nat \ {0}, n <= GetGeneration(Head(writers[w].todo)) + 1,
           writers[w].at = "first" \/ n > GetGeneration(Head(writers[w].todo)),
           Stored(Head(writers[w].todo), n), Bumped(w),
           UNCHANGED <<db, entries, readers, writes, faults, announced>>
    PROVE  CacheInv'
<1> DEFINE todo == writers[w].todo
           d == Head(todo)
           new == [writers[w] EXCEPT !.at = "bump", !.todo = Tail(@)]
<1>1. /\ TypesOK /\ SizesOK /\ SeenOK /\ TodoOK /\ BudgetOK
      /\ KeysOK /\ FreshOK /\ WritersOK /\ FirstOK /\ CallsOK
    BY DEF CacheInv
<1>2. /\ writers[w] \in Writing /\ todo \in Seq(Domains) /\ Distinct(todo)
      /\ writers[w].kind \in WriteKinds /\ writers[w].version \in Nat
    BY <1>1, WriteFacts DEF TodoOK
<1>3. /\ d \in Domains /\ Tail(todo) \in Seq(Domains) /\ Elements(todo) = {d} \cup Elements(Tail(todo))
      /\ Distinct(Tail(todo)) /\ d \notin Elements(Tail(todo))
    BY <1>2, TodoFacts
<1>4. /\ new \in Writing /\ new.at = "bump" /\ new.todo = Tail(todo)
      /\ new.kind = writers[w].kind /\ new.version = writers[w].version
    BY <1>2, WriteChange DEF Writing
<1>5. writers' = [writers EXCEPT ![w] = new]
    BY <1>1, <1>2 DEF Bumped, TypesOK, Writing
<1> HIDE DEF new
<1>6. /\ writers'[w] = new
      /\ \A x \in Writers \ {w} : writers'[x] = writers[x]
    BY <1>1, <1>5 DEF TypesOK
<1>7. GetGeneration(d) \in Nat /\ Cardinality(Pending(d)) \in Nat /\ Cardinality(Pending(d)) >= 1
    <2>1. w \in Pending(d) /\ Pending(d) \in SUBSET Writers
        BY <1>3 DEF Pending
    <2>2. Cardinality(Pending(d)) \in Nat /\ Cardinality(Pending(d) \ {w}) = Cardinality(Pending(d)) - 1
        BY <2>1, CountFacts
    <2>3. Cardinality(Pending(d) \ {w}) \in Nat
        <3>1. Pending(d) \ {w} \in SUBSET Writers
            BY <2>1
        <3> QED
            BY <3>1, CountFacts
    <2> QED
        BY <1>1, <1>3, <2>2, <2>3, CurrentFacts
<1>8. n \in Generations /\ writes \in Nat /\ MaxWrites \in Nat /\ writes <= MaxWrites
    <2>1. GetGeneration(d) + Cardinality(Pending(d)) <= writes
        BY <1>1, <1>3 DEF BudgetOK
    <2>2. writes \in Nat /\ writes <= MaxWrites /\ MaxWrites \in Nat
        BY <1>1, CacheAssumption DEF TypesOK
    <2> QED
        BY <1>7, <2>1, <2>2 DEF Generations
<1>9. /\ generation' = [generation EXCEPT ![d] = n]
      /\ regressed' = IF n < GetGeneration(d) THEN regressed \cup {d} ELSE regressed
    BY DEF Stored
<1>10. n # None
    BY CacheAssumption
<1>11. \A e \in Domains : GetGeneration(e)' = IF e = d THEN n ELSE GetGeneration(e)
    BY <1>1, <1>3, <1>9, <1>10 DEF GetGeneration, TypesOK
<1>12. TypesOK'
    BY <1>1, <1>3, <1>4, <1>5, <1>8, <1>9 DEF TypesOK
<1>13. SizesOK'
    BY <1>1 DEF SizesOK
<1>14. SeenOK'
    BY <1>1, <1>2, <1>4, <1>6 DEF SeenOK, Promised, Places
<1>15. TodoOK'
    BY <1>1, <1>3, <1>4, <1>6 DEF TodoOK
<1>16. BudgetOK'
    <2>1. ASSUME NEW e \in Domains PROVE GetGeneration(e)' + Cardinality(Pending(e)') <= writes
        <3>1. Pending(e) \in SUBSET Writers /\ GetGeneration(e) + Cardinality(Pending(e)) <= writes
            BY <1>1 DEF Pending, BudgetOK
        <3>2. CASE e = d
            <4>1. Pending(e)' = Pending(e) \ {w} /\ w \in Pending(e)
                BY <1>3, <1>4, <1>6, <3>2 DEF Pending
            <4>2. Cardinality(Pending(e)') = Cardinality(Pending(e)) - 1
                BY <3>1, <4>1, CountFacts
            <4> QED
                BY <1>7, <1>8, <1>11, <3>1, <3>2, <4>2
        <3>3. CASE e # d
            <4>1. Pending(e)' = Pending(e)
                BY <1>3, <1>4, <1>6, <3>3 DEF Pending
            <4> QED
                BY <1>11, <3>1, <3>3, <4>1
        <3> QED
            BY <3>2, <3>3
    <2>2. ASSUME NEW t \in Tables PROVE db[t] + Cardinality(InFlight(t)') <= writes
        <3>1. InFlight(t)' = InFlight(t)
            BY <1>4, <1>6 DEF InFlight
        <3> QED
            BY <1>1, <3>1 DEF BudgetOK
    <2> QED
        BY <2>1, <2>2 DEF BudgetOK
\* A view whose domain is still trusted has a new key, or keeps the key of 1.
<1>17. /\ Trusted' \subseteq Trusted /\ Trusted \subseteq Views
       /\ \A v \in Trusted' :
             /\ DomainOf[v] \in Domains
             /\ DomainOf[v] = d => Current(v)' = n /\ n >= Current(v)
             /\ DomainOf[v] # d => Current(v)' = Current(v)
             /\ Current(v) \in Nat /\ Current(v)' \in Generations
    <2>1. Trusted' \subseteq Trusted /\ Trusted \subseteq Views
        BY <1>9 DEF Trusted
    <2>2. ASSUME NEW v \in Trusted'
          PROVE  /\ DomainOf[v] \in Domains
                 /\ DomainOf[v] = d => n >= Current(v)
                 /\ Current(v)' = IF DomainOf[v] = d THEN n ELSE Current(v)
                 /\ Current(v) \in Nat /\ Current(v)' \in Generations
        <3>1. DomainOf[v] \in Domains /\ Current(v) \in Nat /\ v \in Views
            BY <1>1, <2>1, CurrentFacts, ViewFacts
        <3>2. Current(v)' = IF DomainOf[v] = d THEN n ELSE Current(v)
            BY <1>11, <3>1 DEF Current
        <3>3. DomainOf[v] = d => n >= Current(v)
            BY <1>7, <1>9 DEF Current, Trusted
        <3> QED
            BY <1>1, <1>8, <3>1, <3>2, <3>3, CurrentFacts
    <2> QED
        BY <2>1, <2>2
<1>18. KeysOK'
    <2>1. \A v \in Trusted' : Current(v)' >= Current(v) /\ Current(v) \in Nat /\ Current(v)' \in Nat
        BY <1>8, <1>17, CurrentFacts, <1>1
    <2>2. \A g \in Generations : g \in Nat
        BY <1>1, CurrentFacts
    <2>3. ASSUME NEW v \in Trusted', NEW g \in Generations, g > Current(v)'
          PROVE  entries[v][g] = None
        BY <1>1, <1>17, <2>1, <2>2, <2>3 DEF KeysOK
    <2>4. ASSUME NEW r \in Readers, Asking(r), readers[r].view \in Trusted'
          PROVE  readers[r].key <= Current(readers[r].view)'
        <3>1. readers[r].key <= Current(readers[r].view)
            BY <1>1, <1>17, <2>4 DEF KeysOK
        <3>2. readers[r].key \in Nat
            BY <1>1, <2>2, <2>4, CallFacts DEF Asking, Calls
        <3> QED
            BY <2>1, <2>4, <3>1, <3>2
    <2> QED
        BY <2>3, <2>4 DEF KeysOK, Asking, Trusted, Current
\* Nothing has been read for a new key.
<1>19. ASSUME NEW v \in Trusted', DomainOf[v] = d, n > Current(v), NEW i \in Places(v), NEW m
       PROVE  Since(entries, readers, v, i, Current(v)', m)
    <2>1. entries[v][n] = None /\ Current(v)' = n
        BY <1>1, <1>8, <1>17, <1>19 DEF KeysOK
    <2>2. ASSUME NEW r \in Readers, Asking(r), readers[r].view = v, readers[r].key = n PROVE FALSE
        BY <1>1, <1>17, <1>19, <2>2 DEF KeysOK
    <2> QED
        BY <2>1, <2>2 DEF Since, Asking
<1>20. FreshOK'
    <2> SUFFICES ASSUME NEW v \in Trusted', NEW i \in Places(v), Promised(v, i)
                 PROVE  Since(entries, readers, v, i, Current(v)', announced[ReadsOf[v][i]])
        BY DEF FreshOK, Places, Promised
    <2>1. CASE DomainOf[v] = d /\ n > Current(v)
        BY <1>19, <2>1
    <2>2. CASE DomainOf[v] # d \/ n = Current(v)
        BY <1>1, <1>17, <2>2 DEF FreshOK
    <2> QED
        BY <1>17, <2>1, <2>2
<1>21. WritersOK'
    <2> SUFFICES ASSUME NEW x \in Writers, NEW v \in Trusted', NEW i \in Places(v),
                        writers'[x].at # "idle", ~InTransaction(writers'[x].kind),
                        Promised(v, i), ReadsOf[v][i] = TableOf[writers'[x].kind],
                        DomainOf[v] \notin Elements(writers'[x].todo)
                 PROVE  Since(entries, readers, v, i, Current(v)', writers'[x].version)
        BY DEF WritersOK, Places, Promised
    <2>1. CASE DomainOf[v] = d /\ n > Current(v)
        BY <1>19, <2>1
    <2>2. CASE x = w /\ DomainOf[v] = d /\ n = Current(v)
        <3>1. writers[w].at = "first"
            BY <2>2, <1>7 DEF Current
        <3>2. n \in Generations \ {0}
            BY <1>8
        <3>3. Since(entries, readers, v, i, n, writers[w].version)
            BY <1>1, <1>4, <1>6, <1>17, <2>2, <3>1, <3>2 DEF FirstOK
        <3> QED
            BY <1>4, <1>6, <1>17, <2>2, <3>3
    <2>3. CASE x # w /\ (DomainOf[v] # d \/ n = Current(v))
        BY <1>1, <1>6, <1>17, <2>3 DEF WritersOK
    <2>4. CASE x = w /\ DomainOf[v] # d
        <3>1. DomainOf[v] \notin Elements(todo)
            BY <1>3, <1>4, <1>6, <2>4
        <3> QED
            BY <1>1, <1>4, <1>6, <1>17, <2>4, <3>1 DEF WritersOK
    <2> QED
        BY <1>17, <2>1, <2>2, <2>3, <2>4
<1>22. FirstOK'
    <2> SUFFICES ASSUME NEW x \in Writers, NEW v \in Trusted', NEW i \in Places(v),
                        writers'[x].at = "first", Head(writers'[x].todo) = DomainOf[v],
                        Promised(v, i), ReadsOf[v][i] = TableOf[writers'[x].kind],
                        NEW g \in Generations \ {0}
                 PROVE  Since(entries, readers, v, i, g, writers'[x].version)
        BY DEF FirstOK, Places, Promised
    <2>1. x # w
        BY <1>4, <1>6
    <2> QED
        BY <1>1, <1>6, <1>17, <2>1 DEF FirstOK
<1>23. CallsOK'
    <2>1. ASSUME NEW r \in Readers, Asking(r), readers[r].view \in Trusted',
                 NEW i \in Places(readers[r].view), Promised(readers[r].view, i)
          PROVE  Since(entries, readers, readers[r].view, i, readers[r].key, readers[r].floor[i])
        BY <1>1, <1>17, <2>1 DEF CallsOK
    <2> QED
        BY <2>1 DEF CallsOK, Asking, Places, Promised
<1> QED
    BY <1>12, <1>13, <1>14, <1>15, <1>16, <1>18, <1>20, <1>21, <1>22, <1>23 DEF CacheInv

LEMMA IncrKeeps ==
    ASSUME CacheInv, NEW w \in Writers, Incr(w)
    PROVE  CacheInv'
<1> DEFINE d == Head(writers[w].todo)
           new == [writers[w] EXCEPT !.at = "first"]
<1>1. /\ TypesOK /\ SizesOK /\ SeenOK /\ TodoOK /\ BudgetOK
      /\ KeysOK /\ FreshOK /\ WritersOK /\ FirstOK /\ CallsOK
    BY DEF CacheInv
<1>2. /\ writers[w].at # "idle" /\ writers[w].todo # <<>>
      /\ UNCHANGED <<db, entries, readers, writes, faults, announced>>
    BY DEF Incr
<1>3. /\ writers[w] \in Writing /\ writers[w].todo \in Seq(Domains) /\ d \in Domains
      /\ writers[w].kind \in WriteKinds /\ writers[w].version \in Nat
    BY <1>1, <1>2, WriteFacts, TodoFacts
<1>4. CASE generation[d] # None
    <2>1. generation[d] \in Nat /\ GetGeneration(d) = generation[d]
        BY <1>1, <1>3, <1>4, CurrentFacts DEF GetGeneration
    <2>2. PICK n \in Nat \ {0} : n = generation[d] + 1
        BY <2>1
    <2>3. Stored(d, n) /\ Bumped(w)
        BY <1>4, <2>2 DEF Incr
    <2>4. n <= GetGeneration(d) + 1 /\ n > GetGeneration(d)
        BY <2>1, <2>2
    <2> QED
        BY <1>2, <2>3, <2>4, BumpKeeps
<1>5. CASE generation[d] = None
    <2>1. /\ writers' = [writers EXCEPT ![w].at = "first"]
          /\ UNCHANGED <<db, generation, entries, readers, writes, faults, announced, regressed>>
        BY <1>2, <1>5 DEF Incr
    <2>2. writers' = [writers EXCEPT ![w] = new]
        BY <1>1, <2>1 DEF TypesOK
    <2>3. /\ new \in Writing /\ new.at = "first" /\ new.todo = writers[w].todo
          /\ new.kind = writers[w].kind /\ new.version = writers[w].version
        BY <1>2, <1>3, WriteChange DEF Writing
    <2> HIDE DEF new
    <2>4. /\ writers'[w] = new
          /\ \A x \in Writers \ {w} : writers'[x] = writers[x]
        BY <1>1, <2>2 DEF TypesOK
    <2>5. \A x \in Writers :
              /\ writers'[x].at # "idle" <=> writers[x].at # "idle"
              /\ writers'[x].at # "idle" =>
                    /\ writers'[x].todo = writers[x].todo /\ writers'[x].kind = writers[x].kind
                    /\ writers'[x].version = writers[x].version
        BY <1>2, <2>3, <2>4
    <2>6. /\ Trusted' = Trusted /\ \A v \in Views : Current(v)' = Current(v)
          /\ \A e \in Domains : GetGeneration(e)' = GetGeneration(e)
          /\ Trusted \subseteq Views
        BY <2>1 DEF Trusted, Current, GetGeneration
    <2>7. TypesOK'
        BY <1>1, <2>1, <2>2, <2>3 DEF TypesOK
    <2>8. SizesOK' /\ KeysOK' /\ FreshOK' /\ CallsOK'
        BY <1>1, <2>1, <2>6 DEF SizesOK, KeysOK, FreshOK, CallsOK, Asking, Promised, Places
    <2>9. SeenOK'
        BY <1>1, <2>1, <2>5 DEF SeenOK, Promised, Places
    <2>10. TodoOK'
        BY <1>1, <1>2, <2>3, <2>4, <2>5 DEF TodoOK
    <2>11. BudgetOK'
        <3>1. /\ \A e \in Domains : Pending(e)' = Pending(e)
              /\ \A t \in Tables : InFlight(t)' = InFlight(t)
            BY <2>5 DEF Pending, InFlight
        <3> QED
            BY <1>1, <2>1, <2>6, <3>1 DEF BudgetOK
    <2>12. WritersOK'
        <3> SUFFICES ASSUME NEW x \in Writers, NEW v \in Trusted, NEW i \in Places(v),
                            writers'[x].at # "idle", ~InTransaction(writers'[x].kind),
                            Promised(v, i), ReadsOf[v][i] = TableOf[writers'[x].kind],
                            DomainOf[v] \notin Elements(writers'[x].todo)
                     PROVE  Since(entries, readers, v, i, Current(v), writers'[x].version)
            BY <2>1, <2>6 DEF WritersOK, Places, Promised
        <3> QED
            BY <1>1, <2>5 DEF WritersOK
    <2>13. FirstOK'
        <3> SUFFICES ASSUME NEW x \in Writers, NEW v \in Trusted, NEW i \in Places(v),
                            writers'[x].at = "first", Head(writers'[x].todo) = DomainOf[v],
                            Promised(v, i), ReadsOf[v][i] = TableOf[writers'[x].kind],
                            NEW g \in Generations \ {0}
                     PROVE  Since(entries, readers, v, i, g, writers'[x].version)
            BY <2>1, <2>6 DEF FirstOK, Places, Promised
        <3>1. CASE x = w
            <4>1. Current(v) = 0 /\ g \in Nat /\ g > 0
                <5>1. DomainOf[v] = d
                    BY <2>3, <2>4, <3>1
                <5>2. g \in Nat
                    BY <1>1, CurrentFacts
                <5> QED
                    BY <1>5, <5>1, <5>2 DEF Current, GetGeneration
            <4>2. entries[v][g] = None
                BY <1>1, <4>1 DEF KeysOK
            <4>3. ASSUME NEW r \in Readers, Asking(r), readers[r].view = v, readers[r].key = g PROVE FALSE
                BY <1>1, <4>1, <4>3 DEF KeysOK
            <4> QED
                BY <4>2, <4>3 DEF Since, Asking
        <3>2. CASE x # w
            BY <1>1, <2>4, <3>2 DEF FirstOK
        <3> QED
            BY <3>1, <3>2
    <2> QED
        BY <2>7, <2>8, <2>9, <2>10, <2>11, <2>12, <2>13 DEF CacheInv
<1> QED
    BY <1>4, <1>5

LEMMA SetFirstKeeps ==
    ASSUME CacheInv, NEW w \in Writers, SetFirst(w)
    PROVE  CacheInv'
<1>1. TypesOK /\ TodoOK
    BY DEF CacheInv
<1>2. /\ writers[w].at = "first" /\ Stored(Head(writers[w].todo), 1) /\ Bumped(w)
      /\ UNCHANGED <<db, entries, readers, writes, faults, announced>>
    BY DEF SetFirst
<1>3. writers[w].at # "idle" /\ writers[w].todo # <<>>
    BY <1>1, <1>2 DEF TodoOK
<1>4. GetGeneration(Head(writers[w].todo)) \in Nat
    BY <1>1, <1>3, WriteFacts, TodoFacts, CurrentFacts
<1>5. 1 \in Nat \ {0} /\ 1 <= GetGeneration(Head(writers[w].todo)) + 1
    BY <1>4
<1> QED
    BY <1>2, <1>3, <1>5, BumpKeeps

\* A write is over: nothing counts it any more.
LEMMA WriterLeaves ==
    ASSUME TypesOK, TodoOK, BudgetOK, FirstOK, WritersOK, NEW w \in Writers,
           writers' = [writers EXCEPT ![w] = IdleWriter],
           UNCHANGED <<generation, entries, readers, writes, regressed>>
    PROVE  /\ writers'[w] = IdleWriter /\ writers'[w].at = "idle"
           /\ \A x \in Writers : writers'[x].at # "idle" => x # w /\ writers'[x] = writers[x]
           /\ writers' \in [Writers -> {IdleWriter} \cup Writing]
           /\ Trusted' = Trusted /\ Trusted \subseteq Views
           /\ \A v \in Views : Current(v)' = Current(v)
           /\ \A d \in Domains : GetGeneration(d)' + Cardinality(Pending(d)') <= writes'
           /\ TodoOK' /\ FirstOK' /\ WritersOK'
<1>1. writers \in [Writers -> {IdleWriter} \cup Writing]
    BY DEF TypesOK
<1>2. writers'[w] = IdleWriter /\ writers'[w].at = "idle"
    BY <1>1 DEF IdleWriter
<1>3. \A x \in Writers : writers'[x].at # "idle" => x # w /\ writers'[x] = writers[x]
    BY <1>1, <1>2
<1>4. writers' \in [Writers -> {IdleWriter} \cup Writing]
    BY <1>1
<1>5. /\ Trusted' = Trusted /\ Trusted \subseteq Views
      /\ \A v \in Views : Current(v)' = Current(v)
    BY DEF Trusted, Current, GetGeneration
<1>6. ASSUME NEW d \in Domains
      PROVE  GetGeneration(d)' + Cardinality(Pending(d)') <= writes'
    <2>1. Pending(d)' \in SUBSET Pending(d) /\ Pending(d) \in SUBSET Writers /\ Pending(d)' \in SUBSET Writers
        BY <1>3 DEF Pending
    <2>2. /\ Cardinality(Pending(d)') <= Cardinality(Pending(d))
          /\ Cardinality(Pending(d)) \in Nat /\ Cardinality(Pending(d)') \in Nat
        BY <2>1, CountFacts
    <2>3. GetGeneration(d)' = GetGeneration(d) /\ GetGeneration(d) \in Nat /\ writes' = writes /\ writes \in Nat
        BY CurrentFacts, CacheAssumption DEF GetGeneration, TypesOK
    <2> QED
        BY <2>2, <2>3 DEF BudgetOK
<1>7. TodoOK'
    BY <1>3 DEF TodoOK
<1>8. FirstOK'
    <2> SUFFICES ASSUME NEW x \in Writers, NEW v \in Trusted, NEW i \in Places(v),
                        writers'[x].at = "first", Head(writers'[x].todo) = DomainOf[v],
                        Promised(v, i), ReadsOf[v][i] = TableOf[writers'[x].kind],
                        NEW g \in Generations \ {0}
                 PROVE  Since(entries, readers, v, i, g, writers'[x].version)
        BY <1>5 DEF FirstOK, Places, Promised
    <2> QED
        BY <1>3 DEF FirstOK
<1>9. WritersOK'
    <2> SUFFICES ASSUME NEW x \in Writers, NEW v \in Trusted, NEW i \in Places(v),
                        writers'[x].at # "idle", ~InTransaction(writers'[x].kind),
                        Promised(v, i), ReadsOf[v][i] = TableOf[writers'[x].kind],
                        DomainOf[v] \notin Elements(writers'[x].todo)
                 PROVE  Since(entries, readers, v, i, Current(v), writers'[x].version)
        BY <1>5 DEF WritersOK, Places, Promised
    <2> QED
        BY <1>3 DEF WritersOK
<1> QED
    BY <1>2, <1>3, <1>4, <1>5, <1>6, <1>7, <1>8, <1>9

LEMMA EndWriteKeeps ==
    ASSUME CacheInv, NEW w \in Writers, EndWrite(w)
    PROVE  CacheInv'
<1> DEFINE t == TableOf[writers[w].kind]
           n == writers[w].version
<1>1. /\ TypesOK /\ SizesOK /\ SeenOK /\ TodoOK /\ BudgetOK
      /\ KeysOK /\ FreshOK /\ WritersOK /\ FirstOK /\ CallsOK
    BY DEF CacheInv
<1>2. /\ writers[w].at # "idle" /\ writers[w].todo = <<>> /\ ~InTransaction(writers[w].kind)
      /\ announced' = IF announced[t] < n THEN [announced EXCEPT ![t] = n] ELSE announced
      /\ writers' = [writers EXCEPT ![w] = IdleWriter]
      /\ UNCHANGED <<db, generation, entries, readers, writes, faults, regressed>>
    BY DEF EndWrite, SignalsSent
<1>3. t \in Tables /\ n \in Nat /\ n <= db[t]
    BY <1>1, <1>2, WriteFacts DEF SeenOK
<1>4. /\ announced' \in [Tables -> Nat]
      /\ \A u \in Tables :
            /\ announced[u] \in Nat /\ announced[u] <= announced'[u] /\ announced'[u] <= db[u]
            /\ announced'[u] = announced[u] \/ (u = t /\ announced'[u] = n)
    <2>1. \A u \in Tables : announced[u] \in Nat /\ announced[u] <= db[u] /\ db[u] \in Nat
        BY <1>1 DEF TypesOK, SeenOK
    <2>2. announced \in [Tables -> Nat]
        BY <1>1 DEF TypesOK
    <2> QED
        BY <1>2, <1>3, <2>1, <2>2
<1> HIDE DEF t, n
<1>5. /\ writers'[w].at = "idle"
      /\ \A x \in Writers : writers'[x].at # "idle" => x # w /\ writers'[x] = writers[x]
      /\ writers' \in [Writers -> {IdleWriter} \cup Writing]
      /\ Trusted' = Trusted /\ Trusted \subseteq Views
      /\ \A v \in Views : Current(v)' = Current(v)
      /\ \A d \in Domains : GetGeneration(d)' + Cardinality(Pending(d)') <= writes'
      /\ TodoOK' /\ FirstOK' /\ WritersOK'
    BY <1>1, <1>2, WriterLeaves
<1>6. TypesOK'
    BY <1>1, <1>2, <1>4, <1>5 DEF TypesOK
<1>7. SizesOK' /\ KeysOK' /\ CallsOK'
    BY <1>1, <1>2, <1>5 DEF SizesOK, KeysOK, CallsOK, Asking, Promised, Places
<1>8. SeenOK'
    <2>1. ASSUME NEW r \in Readers, readers[r].at # "idle", NEW i \in Places(readers[r].view)
          PROVE  readers[r].floor[i] <= announced'[ReadsOf[readers[r].view][i]]
        <3>1. readers[r].view \in Views /\ readers[r].floor \in Seq(Nat)
            BY <1>1, <2>1, CallFacts DEF Calls
        <3>2. readers[r].floor[i] \in Nat
            BY <1>1, <2>1, <3>1, PlaceFacts
        <3>3. readers[r].floor[i] <= announced[ReadsOf[readers[r].view][i]] /\ ReadsOf[readers[r].view][i] \in Tables
            BY <1>1, <2>1, <3>1, ViewFacts DEF SeenOK
        <3> QED
            BY <1>4, <3>2, <3>3
    <2>2. \A x \in Writers : writers'[x].at # "idle" => writers'[x].version <= db[TableOf[writers'[x].kind]]
        BY <1>1, <1>5 DEF SeenOK
    <2> QED
        BY <1>1, <1>2, <1>4, <2>1, <2>2 DEF SeenOK, Promised, Places
<1>9. BudgetOK'
    <2>1. ASSUME NEW u \in Tables PROVE db[u] + Cardinality(InFlight(u)') <= writes
        <3>1. InFlight(u)' = InFlight(u)
            BY <1>1, <1>2, <1>5 DEF InFlight, TypesOK
        <3> QED
            BY <1>1, <3>1 DEF BudgetOK
    <2> QED
        BY <1>2, <1>5, <2>1 DEF BudgetOK
<1>10. FreshOK'
    <2> SUFFICES ASSUME NEW v \in Trusted, NEW i \in Places(v), Promised(v, i)
                 PROVE  Since(entries, readers, v, i, Current(v), announced'[ReadsOf[v][i]])
        BY <1>2, <1>5 DEF FreshOK, Places, Promised
    <2>1. ReadsOf[v][i] \in Tables
        BY <1>5, ViewFacts
    <2>2. CASE announced'[ReadsOf[v][i]] = announced[ReadsOf[v][i]]
        BY <1>1, <2>2 DEF FreshOK
    <2>3. CASE ReadsOf[v][i] = t /\ announced'[ReadsOf[v][i]] = n
        <3>1. DomainOf[v] \notin Elements(writers[w].todo)
            BY <1>2 DEF Elements
        <3> QED
            BY <1>1, <1>2, <2>3, <3>1 DEF WritersOK, t, n
    <2> QED
        BY <1>4, <2>1, <2>2, <2>3
<1> QED
    BY <1>5, <1>6, <1>7, <1>8, <1>9, <1>10 DEF CacheInv

\* Views are trusted less and values are lost, nothing else.
LEMMA TrustedLess ==
    ASSUME KeysOK, FreshOK, WritersOK, FirstOK, CallsOK,
           Trusted' \subseteq Trusted, Trusted \subseteq Views,
           \A v \in Trusted' : Current(v)' = Current(v) /\ Current(v) \in Generations,
           \A v \in Views, g \in Generations : entries'[v][g] \in {None, entries[v][g]},
           \A r \in Readers : Asking(r) => readers[r].key \in Generations,
           UNCHANGED <<readers, writers, announced>>
    PROVE  KeysOK' /\ FreshOK' /\ WritersOK' /\ FirstOK' /\ CallsOK'
<1>1. ASSUME NEW v \in Views, NEW i, NEW g \in Generations, NEW n, Since(entries, readers, v, i, g, n)
      PROVE  Since(entries', readers, v, i, g, n)
    BY <1>1 DEF Since
<1>2. KeysOK'
    <2>1. ASSUME NEW v \in Trusted', NEW g \in Generations, g > Current(v)'
          PROVE  entries'[v][g] = None
        BY <2>1 DEF KeysOK
    <2>2. ASSUME NEW r \in Readers, Asking(r), readers[r].view \in Trusted'
          PROVE  readers[r].key <= Current(readers[r].view)'
        BY <2>2 DEF KeysOK
    <2> QED
        BY <2>1, <2>2 DEF KeysOK, Asking, Trusted, Current
<1>3. FreshOK'
    <2> SUFFICES ASSUME NEW v \in Trusted', NEW i \in Places(v), Promised(v, i)
                 PROVE  Since(entries', readers, v, i, Current(v)', announced[ReadsOf[v][i]])
        BY DEF FreshOK, Places, Promised
    <2>1. Since(entries, readers, v, i, Current(v), announced[ReadsOf[v][i]])
        BY DEF FreshOK
    <2> QED
        BY <1>1, <2>1
<1>4. WritersOK'
    <2> SUFFICES ASSUME NEW w \in Writers, NEW v \in Trusted', NEW i \in Places(v),
                        writers[w].at # "idle", ~InTransaction(writers[w].kind),
                        Promised(v, i), ReadsOf[v][i] = TableOf[writers[w].kind],
                        DomainOf[v] \notin Elements(writers[w].todo)
                 PROVE  Since(entries', readers, v, i, Current(v)', writers[w].version)
        BY DEF WritersOK, Places, Promised
    <2>1. Since(entries, readers, v, i, Current(v), writers[w].version)
        BY DEF WritersOK
    <2> QED
        BY <1>1, <2>1
<1>5. FirstOK'
    <2> SUFFICES ASSUME NEW w \in Writers, NEW v \in Trusted', NEW i \in Places(v),
                        writers[w].at = "first", Head(writers[w].todo) = DomainOf[v],
                        Promised(v, i), ReadsOf[v][i] = TableOf[writers[w].kind],
                        NEW g \in Generations \ {0}
                 PROVE  Since(entries', readers, v, i, g, writers[w].version)
        BY DEF FirstOK, Places, Promised
    <2>1. Since(entries, readers, v, i, g, writers[w].version)
        BY DEF FirstOK
    <2> QED
        BY <1>1, <2>1
<1>6. CallsOK'
    <2> SUFFICES ASSUME NEW r \in Readers, Asking(r), readers[r].view \in Trusted',
                        NEW i \in Places(readers[r].view), Promised(readers[r].view, i)
                 PROVE  Since(entries', readers, readers[r].view, i, readers[r].key, readers[r].floor[i])
        BY DEF CallsOK, Asking, Places, Promised
    <2>1. Since(entries, readers, readers[r].view, i, readers[r].key, readers[r].floor[i])
        BY DEF CallsOK
    <2> QED
        BY <1>1, <2>1
<1> QED
    BY <1>2, <1>3, <1>4, <1>5, <1>6

LEMMA EndTransactionKeeps ==
    ASSUME CacheInv, NEW w \in Writers, NEW commit \in BOOLEAN, EndTransaction(w, commit)
    PROVE  CacheInv'
<1> DEFINE t == TableOf[writers[w].kind]
<1>1. /\ TypesOK /\ SizesOK /\ SeenOK /\ TodoOK /\ BudgetOK
      /\ KeysOK /\ FreshOK /\ WritersOK /\ FirstOK /\ CallsOK
    BY DEF CacheInv
<1>2. /\ writers[w].at # "idle" /\ InTransaction(writers[w].kind)
      /\ db' = IF commit THEN [db EXCEPT ![t] = @ + 1] ELSE db
      /\ writers' = [writers EXCEPT ![w] = IdleWriter]
      /\ UNCHANGED <<generation, entries, readers, writes, faults, announced, regressed>>
    BY DEF EndTransaction, SignalsSent, Committed
<1>3. t \in Tables
    BY <1>1, <1>2, WriteFacts
<1>4. /\ db' \in [Tables -> Nat]
      /\ \A u \in Tables : /\ db[u] \in Nat /\ db'[u] \in Nat /\ db[u] <= db'[u]
                           /\ db'[u] <= IF u = t THEN db[u] + 1 ELSE db[u]
    BY <1>1, <1>2, <1>3 DEF TypesOK
<1> HIDE DEF t
<1>5. /\ writers'[w].at = "idle"
      /\ \A x \in Writers : writers'[x].at # "idle" => x # w /\ writers'[x] = writers[x]
      /\ writers' \in [Writers -> {IdleWriter} \cup Writing]
      /\ Trusted' = Trusted /\ Trusted \subseteq Views
      /\ \A v \in Views : Current(v)' = Current(v)
      /\ \A d \in Domains : GetGeneration(d)' + Cardinality(Pending(d)') <= writes'
      /\ TodoOK' /\ FirstOK' /\ WritersOK'
    BY <1>1, <1>2, WriterLeaves
<1>6. TypesOK'
    BY <1>1, <1>2, <1>4, <1>5 DEF TypesOK
<1>7. SizesOK' /\ KeysOK' /\ CallsOK' /\ FreshOK'
    BY <1>1, <1>2, <1>5 DEF SizesOK, KeysOK, CallsOK, FreshOK, Asking, Promised, Places
<1>8. SeenOK'
    BY <1>1, <1>2, <1>4, <1>5, DatabaseGrows
<1>9. BudgetOK'
    <2>1. ASSUME NEW u \in Tables PROVE db'[u] + Cardinality(InFlight(u)') <= writes
        <3>1. InFlight(u) \in SUBSET Writers /\ db[u] + Cardinality(InFlight(u)) <= writes /\ writes \in Nat
            BY <1>1, CacheAssumption DEF InFlight, BudgetOK, TypesOK
        <3>2. Cardinality(InFlight(u)) \in Nat
            BY <3>1, CountFacts
        <3>3. CASE u = t
            <4>1. w \in InFlight(u) /\ InFlight(u)' \in SUBSET (InFlight(u) \ {w})
                BY <1>2, <1>5, <3>3 DEF InFlight, t
            <4>2. InFlight(u) \ {w} \in SUBSET Writers /\ InFlight(u)' \in SUBSET Writers
                BY <3>1, <4>1
            <4>3. /\ Cardinality(InFlight(u)') <= Cardinality(InFlight(u) \ {w})
                  /\ Cardinality(InFlight(u)') \in Nat
                BY <4>1, <4>2, CountFacts
            <4>4. Cardinality(InFlight(u) \ {w}) = Cardinality(InFlight(u)) - 1
                BY <3>1, <4>1, CountFacts
            <4> QED
                BY <1>4, <3>1, <3>2, <3>3, <4>3, <4>4
        <3>4. CASE u # t
            <4>1. InFlight(u)' \in SUBSET InFlight(u)
                BY <1>5 DEF InFlight
            <4>2. Cardinality(InFlight(u)') <= Cardinality(InFlight(u)) /\ Cardinality(InFlight(u)') \in Nat
                BY <3>1, <4>1, CountFacts
            <4> QED
                BY <1>4, <3>1, <3>2, <3>4, <4>2
        <3> QED
            BY <3>3, <3>4
    <2> QED
        BY <1>2, <1>5, <2>1 DEF BudgetOK
<1> QED
    BY <1>5, <1>6, <1>7, <1>8, <1>9 DEF CacheInv
-----------------------------------------------------------------------------
\* A domain that loses its generation is not trusted any more.
LEMMA EvictKeeps ==
    ASSUME CacheInv, NEW d \in Domains, Evict(d)
    PROVE  CacheInv'
<1>1. /\ TypesOK /\ SizesOK /\ SeenOK /\ TodoOK /\ BudgetOK
      /\ KeysOK /\ FreshOK /\ WritersOK /\ FirstOK /\ CallsOK
    BY DEF CacheInv
<1>2. /\ faults < MaxFaults /\ faults' = faults + 1
      /\ generation' = [generation EXCEPT ![d] = None]
      /\ regressed' = regressed \cup {d}
      /\ UNCHANGED <<db, entries, readers, writers, writes, announced>>
    BY DEF Evict
<1>3. /\ Trusted' \subseteq Trusted /\ Trusted \subseteq Views
      /\ \A v \in Trusted' : Current(v)' = Current(v)
    BY <1>1, <1>2, ViewFacts DEF Trusted, Current, GetGeneration, TypesOK
<1>4. TypesOK'
    BY <1>1, <1>2, CacheAssumption DEF TypesOK
<1>5. SizesOK' /\ SeenOK' /\ TodoOK'
    BY <1>1, <1>2 DEF SizesOK, SeenOK, TodoOK, Promised, Places
<1>6. BudgetOK'
    <2>1. ASSUME NEW e \in Domains PROVE GetGeneration(e)' + Cardinality(Pending(e)') <= writes
        <3>1. Pending(e)' = Pending(e) /\ Pending(e) \in SUBSET Writers
            BY <1>2 DEF Pending
        <3>2. GetGeneration(e)' <= GetGeneration(e) /\ GetGeneration(e)' \in Nat /\ GetGeneration(e) \in Nat
            BY <1>1, <1>2, CurrentFacts DEF GetGeneration, TypesOK
        <3>3. Cardinality(Pending(e)) \in Nat
            BY <3>1, CountFacts
        <3>4. GetGeneration(e) + Cardinality(Pending(e)) <= writes /\ writes \in Nat
            BY <1>1, CacheAssumption DEF BudgetOK, TypesOK
        <3> QED
            BY <3>1, <3>2, <3>3, <3>4
    <2> QED
        BY <1>1, <1>2, <2>1 DEF BudgetOK, InFlight
<1>7. KeysOK' /\ FreshOK' /\ WritersOK' /\ FirstOK' /\ CallsOK'
    <2>1. \A v \in Views, g \in Generations : entries'[v][g] \in {None, entries[v][g]}
        BY <1>2
    <2>2. \A r \in Readers : Asking(r) => readers[r].key \in Generations
        BY <1>1, CallFacts DEF Asking, Calls
    <2>3. \A v \in Trusted' : Current(v)' = Current(v) /\ Current(v) \in Generations
        BY <1>1, <1>3, CurrentFacts
    <2> QED
        BY <1>1, <1>2, <1>3, <2>1, <2>2, <2>3, TrustedLess
<1> QED
    BY <1>4, <1>5, <1>6, <1>7 DEF CacheInv

LEMMA RestartKeeps ==
    ASSUME CacheInv, Restart
    PROVE  CacheInv'
<1>1. /\ TypesOK /\ SizesOK /\ SeenOK /\ TodoOK /\ BudgetOK
      /\ KeysOK /\ FreshOK /\ WritersOK /\ FirstOK /\ CallsOK
    BY DEF CacheInv
<1>2. /\ faults < MaxFaults /\ faults' = faults + 1
      /\ generation' = [d \in Domains |-> None]
      /\ entries' = [v \in Views |-> [g \in Generations |-> None]]
      /\ regressed' = regressed \cup {d \in Domains : generation[d] # None}
      /\ UNCHANGED <<db, readers, writers, writes, announced>>
    BY DEF Restart
<1>3. /\ Trusted' \subseteq Trusted /\ Trusted \subseteq Views
      /\ \A v \in Trusted' : Current(v)' = Current(v)
    BY <1>1, <1>2, ViewFacts DEF Trusted, Current, GetGeneration, TypesOK
<1>4. TypesOK'
    BY <1>1, <1>2, CacheAssumption DEF TypesOK
<1>5. SizesOK' /\ SeenOK' /\ TodoOK'
    BY <1>1, <1>2 DEF SizesOK, SeenOK, TodoOK, Promised, Places
<1>6. BudgetOK'
    <2>1. ASSUME NEW e \in Domains PROVE GetGeneration(e)' + Cardinality(Pending(e)') <= writes
        <3>1. Pending(e)' = Pending(e) /\ Pending(e) \in SUBSET Writers
            BY <1>2 DEF Pending
        <3>2. GetGeneration(e)' = 0 /\ GetGeneration(e) \in Nat
            BY <1>1, <1>2, CurrentFacts DEF GetGeneration
        <3>3. Cardinality(Pending(e)) \in Nat
            BY <3>1, CountFacts
        <3>4. GetGeneration(e) + Cardinality(Pending(e)) <= writes /\ writes \in Nat
            BY <1>1, CacheAssumption DEF BudgetOK, TypesOK
        <3> QED
            BY <3>1, <3>2, <3>3, <3>4
    <2> QED
        BY <1>1, <1>2, <2>1 DEF BudgetOK, InFlight
<1>7. KeysOK' /\ FreshOK' /\ WritersOK' /\ FirstOK' /\ CallsOK'
    <2>1. \A v \in Views, g \in Generations : entries'[v][g] \in {None, entries[v][g]}
        BY <1>2
    <2>2. \A r \in Readers : Asking(r) => readers[r].key \in Generations
        BY <1>1, CallFacts DEF Asking, Calls
    <2>3. \A v \in Trusted' : Current(v)' = Current(v) /\ Current(v) \in Generations
        BY <1>1, <1>3, CurrentFacts
    <2> QED
        BY <1>1, <1>2, <1>3, <2>1, <2>2, <2>3, TrustedLess
<1> QED
    BY <1>4, <1>5, <1>6, <1>7 DEF CacheInv
-----------------------------------------------------------------------------
LEMMA CacheStep == CacheInv /\ [Next]_vars => CacheInv'
<1> SUFFICES ASSUME CacheInv, [Next]_vars PROVE CacheInv'
    OBVIOUS
<1>1. ASSUME NEW r \in Readers, NEW v \in Views, NEW force \in BOOLEAN, Begin(r, v, force) PROVE CacheInv'
    BY <1>1, BeginKeeps
<1>2. ASSUME NEW r \in Readers, Lookup(r) PROVE CacheInv'
    BY <1>2, LookupKeeps
<1>3. ASSUME NEW r \in Readers, Read(r) PROVE CacheInv'
    BY <1>3, ReadKeeps
<1>4. ASSUME NEW r \in Readers, Store(r) PROVE CacheInv'
    BY <1>4, StoreKeeps
<1>5. ASSUME NEW r \in Readers, FetchFails(r) PROVE CacheInv'
    BY <1>5, FetchFailsKeeps
<1>6. ASSUME NEW w \in Writers, NEW kind \in WriteKinds, Save(w, kind) PROVE CacheInv'
    BY <1>6, SaveKeeps
<1>7. ASSUME NEW w \in Writers, Incr(w) PROVE CacheInv'
    BY <1>7, IncrKeeps
<1>8. ASSUME NEW w \in Writers, SetFirst(w) PROVE CacheInv'
    BY <1>8, SetFirstKeeps
<1>9. ASSUME NEW w \in Writers, EndWrite(w) PROVE CacheInv'
    BY <1>9, EndWriteKeeps
<1>10. ASSUME NEW w \in Writers, NEW commit \in BOOLEAN, EndTransaction(w, commit) PROVE CacheInv'
    BY <1>10, EndTransactionKeeps
<1>11. ASSUME NEW v \in Views, NEW g \in Generations, Expire(v, g) PROVE CacheInv'
    BY <1>11, ExpireKeeps
<1>12. ASSUME NEW d \in Domains, Evict(d) PROVE CacheInv'
    BY <1>12, EvictKeeps
<1>13. CASE Restart
    BY <1>13, RestartKeeps
<1>14. CASE UNCHANGED vars
    BY <1>14 DEF vars, CacheInv, TypesOK, SizesOK, SeenOK, TodoOK, BudgetOK, KeysOK, FreshOK, WritersOK,
        FirstOK, CallsOK, Trusted, Current, GetGeneration, Pending, InFlight, Asking, Promised, Places
<1> QED
    BY <1>1, <1>2, <1>3, <1>4, <1>5, <1>6, <1>7, <1>8, <1>9, <1>10, <1>11, <1>12, <1>13, <1>14 DEF Next

LEMMA CacheInvariant == Spec => []CacheInv
<1>1. Init => CacheInv
    BY CacheInitial
<1>2. CacheInv /\ [Next]_vars => CacheInv'
    BY CacheStep
<1> QED
    BY <1>1, <1>2, PTL DEF Spec

\* The bounds of the model hold in every state: no version and no generation
\* grows past the number of writes, however many domains a write bumps.
THEOREM CacheTypeCorrect == Spec => []TypeOK
<1>1. ASSUME CacheInv PROVE TypeOK
    <2>1. TypesOK /\ SizesOK /\ SeenOK /\ TodoOK /\ BudgetOK
        BY <1>1 DEF CacheInv
    <2>2. MaxWrites \in Nat /\ writes \in Nat /\ writes <= MaxWrites
        BY <2>1, CacheAssumption DEF TypesOK
    <2>3. \A t \in Tables : db[t] \in Nat /\ db[t] <= MaxWrites
        <3> TAKE t \in Tables
        <3>1. InFlight(t) \in SUBSET Writers
            BY DEF InFlight
        <3>2. Cardinality(InFlight(t)) \in Nat
            BY <3>1, CountFacts
        <3> QED
            BY <2>1, <2>2, <3>2 DEF BudgetOK, TypesOK
    <2>4. \A t \in Tables : announced[t] \in Nat /\ announced[t] <= MaxWrites
        BY <2>1, <2>2, <2>3 DEF TypesOK, SeenOK
    <2>5. db \in [Tables -> 0..MaxWrites] /\ announced \in [Tables -> 0..MaxWrites]
        BY <2>1, <2>2, <2>3, <2>4 DEF TypesOK
    <2>6. ASSUME NEW v \in Views, NEW s \in Seq(Nat), DOMAIN s = Places(v),
                 \A i \in Places(v) : s[i] <= db[ReadsOf[v][i]]
          PROVE  s \in Values(v)
        <3>1. \A i \in Places(v) : s[i] \in 0..MaxWrites
            BY <2>2, <2>3, <2>6, ViewFacts
        <3>2. s = [i \in Places(v) |-> s[i]]
            BY <2>6
        <3> QED
            BY <3>1, <3>2 DEF Values, Places
    <2>7. \A v \in Views, g \in Generations : entries[v][g] \in Values(v) \cup {None}
        BY <2>1, <2>6, PlaceFacts DEF SeenOK
    <2>8. ASSUME NEW r \in Readers, readers[r].at # "idle"
          PROVE  /\ readers[r].at \in {"lookup", "read", "store", "answered"}
                 /\ readers[r].view \in Views
                 /\ readers[r].key \in Generations
                 /\ readers[r].floor \in Values(readers[r].view)
                 /\ Len(readers[r].read) <= Len(ReadsOf[readers[r].view])
        <3>1. readers[r] \in Calls /\ readers[r].view \in Views /\ readers[r].at \in {"lookup", "read", "store", "answered"}
            BY <2>1, <2>8, CallFacts
        <3>2. readers[r].key \in Generations /\ readers[r].floor \in Seq(Nat) /\ readers[r].read \in Seq(Nat)
            BY <3>1 DEF Calls
        <3>3. DOMAIN readers[r].floor = Places(readers[r].view)
            BY <2>1, <2>8, PlaceFacts
        <3>4. \A i \in Places(readers[r].view) : readers[r].floor[i] <= db[ReadsOf[readers[r].view][i]]
            <4> TAKE i \in Places(readers[r].view)
            <4>1. ReadsOf[readers[r].view][i] \in Tables
                BY <3>1, ViewFacts
            <4>2. readers[r].floor[i] <= announced[ReadsOf[readers[r].view][i]] /\ readers[r].floor[i] \in Nat
                BY <2>1, <2>8, <3>2, <3>3 DEF SeenOK
            <4> QED
                BY <2>1, <2>3, <2>4, <4>1, <4>2 DEF SeenOK
        <3>5. readers[r].floor \in Values(readers[r].view)
            BY <2>6, <3>1, <3>2, <3>3, <3>4
        <3>6. Len(readers[r].read) <= Len(ReadsOf[readers[r].view])
            <4>1. Len(<<>>) = 0 /\ Len(ReadsOf[readers[r].view]) \in Nat /\ Len(readers[r].read) \in Nat
                BY <3>1, <3>2, ViewFacts
            <4> QED
                BY <2>1, <2>8, <3>1, <4>1 DEF SizesOK
        <3> QED
            BY <3>1, <3>2, <3>5, <3>6
    <2>9. ASSUME NEW w \in Writers, writers[w].at # "idle"
          PROVE  /\ writers[w].at \in {"bump", "first"} /\ writers[w].kind \in WriteKinds
                 /\ writers[w].version \in 0..MaxWrites
                 /\ writers[w].at = "first" => writers[w].todo # <<>>
        <3>1. writers[w].version \in Nat /\ TableOf[writers[w].kind] \in Tables
            BY <2>1, <2>9, WriteFacts
        <3>2. writers[w].version <= db[TableOf[writers[w].kind]]
            BY <2>1, <2>9 DEF SeenOK
        <3> QED
            BY <2>1, <2>2, <2>3, <2>9, <3>1, <3>2, WriteFacts DEF TodoOK
    <2>10. \A r \in Readers : readers[r].at = "idle" => readers[r] = IdleReader
        BY <2>1, CallFacts
    <2>11. \A w \in Writers : writers[w].at = "idle" => writers[w] = IdleWriter
        BY <2>1, WriteFacts
    <2>12. /\ generation \in [Domains -> Generations \cup {None}]
           /\ writes \in 0..MaxWrites /\ faults \in 0..MaxFaults /\ regressed \subseteq Domains
        BY <2>1 DEF TypesOK
    <2> QED
        BY <2>5, <2>7, <2>8, <2>9, <2>10, <2>11, <2>12 DEF TypeOK
<1> QED
    BY <1>1, CacheInvariant, PTL

\* However reads, stores, bumps and expiries are interleaved, no value a call
\* can hit is older than a write that is over, as long as the generation of the
\* view has not gone backwards (LiveEntriesFresh).
THEOREM FreshCorrect == Spec => []LiveEntriesFresh
<1>1. ASSUME CacheInv PROVE LiveEntriesFresh
    <2>1. TypesOK /\ SizesOK /\ FreshOK
        BY <1>1 DEF CacheInv
    <2> SUFFICES ASSUME NEW v \in Views, entries[v][Current(v)] # None, DomainOf[v] \notin regressed,
                        NEW i \in DOMAIN entries[v][Current(v)]
                 PROVE  FloorNow(v)[i] <= entries[v][Current(v)][i]
        BY DEF LiveEntriesFresh, Current
    <2>2. /\ Current(v) \in Generations /\ i \in Places(v)
          /\ entries[v][Current(v)] \in Seq(Nat) /\ entries[v][Current(v)][i] \in Nat
        BY <2>1, CurrentFacts, PlaceFacts
    <2>3. FloorNow(v)[i] = IF Promised(v, i) THEN announced[ReadsOf[v][i]] ELSE 0
        BY <2>2 DEF FloorNow, Promised, Places
    <2>4. Promised(v, i) => announced[ReadsOf[v][i]] <= entries[v][Current(v)][i]
        BY <2>1, <2>2 DEF FreshOK, Since, Trusted
    <2> QED
        BY <2>2, <2>3, <2>4
<1> QED
    BY <1>1, CacheInvariant, PTL
-----------------------------------------------------------------------------
\* What FreshReads sees of a call.
Bar == [r \in Readers |-> CallOf(r)]

LEMMA CallOfFacts ==
    ASSUME TypesOK, NEW r \in Readers
    PROVE  /\ readers[r].at = "idle" => CallOf(r) = Promise!NoCall
           /\ readers[r].at = "answered" => CallOf(r) = Promise!Answered(readers[r].view, readers[r].read)
           /\ Asking(r) => CallOf(r) = Promise!Asked(readers[r].view, readers[r].floor)
           /\ readers[r].at \in {"idle", "answered"} \/ Asking(r)
    BY CallFacts DEF CallOf, Asking, Promise!NoCall, Promise!Answered, Promise!Asked

\* A call that moves changes its own entry.
LEMMA BarChanges ==
    ASSUME TypesOK, NEW r \in Readers, \A x \in Readers \ {r} : readers'[x] = readers[x]
    PROVE  /\ Bar' = [Bar EXCEPT ![r] = CallOf(r)']
           /\ Bar[r] = CallOf(r)
           /\ CallOf(r)' = CallOf(r) => Bar' = Bar
<1>1. \A x \in Readers \ {r} : CallOf(x)' = CallOf(x)
    BY DEF CallOf
<1>2. Bar' = [x \in Readers |-> CallOf(x)']
    BY DEF Bar
<1> QED
    BY <1>1, <1>2 DEF Bar

\* An answer lies between the floor of the call and what is committed.
LEMMA AnswerAllowed ==
    ASSUME CacheInv, NEW r \in Readers, Asking(r), NEW s \in Seq(Nat),
           DOMAIN s = Places(readers[r].view),
           \A i \in DOMAIN s : s[i] <= db[ReadsOf[readers[r].view][i]],
           readers[r].view \in Trusted =>
               \A i \in DOMAIN s : Promised(readers[r].view, i) => readers[r].floor[i] <= s[i],
           \A x \in Readers \ {r} : readers'[x] = readers[x],
           CallOf(r)' = Promise!Answered(readers[r].view, s),
           UNCHANGED <<db, announced, regressed>>
    PROVE  Promise!Answer(r)
<1> DEFINE v == readers[r].view
<1>1. /\ TypesOK /\ SizesOK /\ SeenOK
    BY DEF CacheInv
<1>2. /\ v \in Views /\ readers[r].floor \in Seq(Nat) /\ readers[r].at # "idle"
      /\ CallOf(r) = Promise!Asked(v, readers[r].floor)
    BY <1>1, CallFacts, CallOfFacts DEF Asking, Calls
<1>3. /\ Bar[r] = CallOf(r) /\ Bar[r].at = "asked" /\ Bar[r].view = v /\ Bar[r].floor = readers[r].floor
      /\ Bar' = [Bar EXCEPT ![r] = Promise!Answered(v, s)]
    BY <1>1, <1>2, BarChanges DEF Promise!Asked
<1>4. DOMAIN [x \in Views |-> ReadsOf[x]][v] = Places(v) /\ [x \in Views |-> ReadsOf[x]][v] = ReadsOf[v]
    BY <1>2 DEF Places
<1>5. s \in [Places(v) -> UNION {0..db[t] : t \in Tables}]
    <2>1. \A i \in Places(v) : s[i] \in UNION {0..db[t] : t \in Tables}
        <3> TAKE i \in Places(v)
        <3>1. ReadsOf[v][i] \in Tables /\ s[i] \in 0..db[ReadsOf[v][i]]
            BY <1>1, <1>2, ViewFacts DEF TypesOK
        <3> QED
            BY <3>1
    <2>2. s = [i \in Places(v) |-> s[i]]
        OBVIOUS
    <2> QED
        BY <2>1, <2>2
<1>6. \A i \in DOMAIN s : v \in Trusted => readers[r].floor[i] <= s[i]
    <2> TAKE i \in DOMAIN s
    <2>1. CASE Promised(v, i)
        BY <2>1
    <2>2. CASE ~Promised(v, i)
        <3>1. readers[r].floor[i] = 0 /\ s[i] \in Nat
            BY <1>1, <1>2, <2>2 DEF SeenOK
        <3> QED
            BY <3>1
    <2> QED
        BY <2>1, <2>2
<1> HIDE DEF v
<1>7. /\ \A i \in DOMAIN s : s[i] <= db[[x \in Views |-> ReadsOf[x]][v][i]]
      /\ v \in {x \in Views : DomainOf[x] \notin regressed} => \A i \in DOMAIN s : Bar[r].floor[i] <= s[i]
      /\ Bar' = [Bar EXCEPT ![r] = Promise!Answered(v, s)]
      /\ s \in [DOMAIN [x \in Views |-> ReadsOf[x]][v] -> UNION {0..db[t] : t \in Tables}]
    BY <1>2, <1>3, <1>4, <1>5, <1>6 DEF Trusted, v
<1>8. UNCHANGED <<db, announced, {x \in Views : DomainOf[x] \notin regressed}>>
    OBVIOUS
<1> QED
    BY <1>3, <1>7, <1>8 DEF Promise!Answer, Bar

\* The step keeps everything FreshReads sees, or less is trusted after it.
LEMMA Unseen ==
    ASSUME UNCHANGED <<db, announced, readers>>, Trusted' \subseteq Trusted
    PROVE  Promise!Lapse \/ UNCHANGED Promise!freshVars
<1>1. Bar' = Bar
    BY DEF Bar, CallOf
<1>2. CASE Trusted' = Trusted
    BY <1>1, <1>2 DEF Promise!freshVars, Bar, Trusted
<1>3. CASE Trusted' # Trusted
    <2>1. Trusted \ Trusted' \in (SUBSET Trusted) \ {{}}
        BY <1>3
    <2>2. Trusted' = Trusted \ (Trusted \ Trusted')
        OBVIOUS
    <2> QED
        BY <1>1, <2>1, <2>2 DEF Promise!Lapse, Bar, Trusted
<1> QED
    BY <1>2, <1>3

LEMMA PromiseInitial == Init => Promise!Init
<1> SUFFICES ASSUME Init PROVE Promise!Init
    OBVIOUS
<1>1. \A r \in Readers : CallOf(r) = Promise!NoCall
    BY DEF Init, IdleReader, CallOf, Promise!NoCall
<1>2. DOMAIN [v \in Views |-> ReadsOf[v]] = Views
    OBVIOUS
<1> QED
    BY <1>1, <1>2 DEF Init, Promise!Init, Promise!View

LEMMA PromiseStep == CacheInv /\ [Next]_vars => [Promise!Next]_(Promise!freshVars)
<1> SUFFICES ASSUME CacheInv, [Next]_vars PROVE Promise!Next \/ UNCHANGED Promise!freshVars
    OBVIOUS
<1>0. /\ TypesOK /\ SizesOK /\ SeenOK /\ TodoOK /\ KeysOK /\ CallsOK
    BY DEF CacheInv
<1>1. ASSUME NEW r \in Readers, NEW v \in Views, NEW force \in BOOLEAN, Begin(r, v, force)
      PROVE  Promise!Ask(r, v)
    <2>1. /\ readers[r].at \in {"idle", "answered"}
          /\ readers' = [readers EXCEPT ![r] =
                Call(v, Current(v), FloorNow(v), IF force THEN "read" ELSE "lookup")]
          /\ UNCHANGED <<db, announced, regressed>>
        BY <1>1 DEF Begin, Current
    <2>2. /\ readers'[r] = Call(v, Current(v), FloorNow(v), IF force THEN "read" ELSE "lookup")
          /\ \A x \in Readers \ {r} : readers'[x] = readers[x]
        BY <1>0, <2>1 DEF TypesOK
    <2>3. CallOf(r)' = Promise!Asked(v, FloorNow(v))
        BY <2>2 DEF CallOf, Call, Promise!Asked
    <2>4. Bar' = [Bar EXCEPT ![r] = Promise!Asked(v, FloorNow(v))] /\ Bar[r].at # "asked"
        BY <1>0, <2>1, <2>2, <2>3, BarChanges, CallOfFacts DEF Promise!NoCall, Promise!Answered
    <2>5. Promise!FloorOf(v) = FloorNow(v)
        BY DEF Promise!FloorOf, FloorNow
    <2> QED
        BY <2>1, <2>4, <2>5 DEF Promise!Ask, Bar
<1>2. ASSUME NEW r \in Readers, Lookup(r)
      PROVE  Promise!Answer(r) \/ UNCHANGED Promise!freshVars
    <2> DEFINE v == readers[r].view
               cached == entries[v][readers[r].key]
    <2>1. /\ readers[r].at = "lookup" /\ Asking(r) /\ readers[r] \in Calls /\ v \in Views
          /\ UNCHANGED <<db, announced, regressed>>
        BY <1>0, <1>2, CallFacts DEF Lookup, Asking
    <2>2. readers[r].key \in Generations
        BY <2>1 DEF Calls
    <2>3. CASE cached = None
        <3>1. readers' = [readers EXCEPT ![r].at = "read"]
            BY <1>2, <2>3 DEF Lookup
        <3>2. /\ readers'[r].at = "read" /\ readers'[r].view = v /\ readers'[r].floor = readers[r].floor
              /\ \A x \in Readers \ {r} : readers'[x] = readers[x]
            BY <1>0, <2>1, <3>1 DEF TypesOK, Calls
        <3>3. CallOf(r)' = CallOf(r)
            BY <2>1, <3>2 DEF CallOf
        <3> QED
            BY <1>0, <2>1, <3>2, <3>3, BarChanges DEF Promise!freshVars, Bar
    <2>4. CASE cached # None
        <3>1. readers' = [readers EXCEPT ![r].at = "answered", ![r].read = cached]
            BY <1>2, <2>4 DEF Lookup, Answer
        <3>2. /\ readers'[r].at = "answered" /\ readers'[r].view = v /\ readers'[r].read = cached
              /\ \A x \in Readers \ {r} : readers'[x] = readers[x]
            BY <1>0, <2>1, <3>1 DEF TypesOK, Calls
        <3>3. CallOf(r)' = Promise!Answered(v, cached)
            BY <3>2 DEF CallOf, Promise!Answered
        <3>4. /\ cached \in Seq(Nat) /\ DOMAIN cached = Places(v)
              /\ \A i \in DOMAIN cached : cached[i] <= db[ReadsOf[v][i]]
            BY <1>0, <2>1, <2>2, <2>4, PlaceFacts DEF SeenOK
        <3>5. v \in Trusted => \A i \in DOMAIN cached : Promised(v, i) => readers[r].floor[i] <= cached[i]
            BY <1>0, <2>1, <2>4, <3>4 DEF CallsOK, Since
        <3> HIDE DEF cached
        <3> QED
            BY <2>1, <3>2, <3>3, <3>4, <3>5, AnswerAllowed
    <2> QED
        BY <2>3, <2>4
<1>3. ASSUME NEW r \in Readers, Read(r)
      PROVE  UNCHANGED Promise!freshVars
    <2>1. /\ readers[r].at = "read" /\ readers[r] \in Calls
          /\ UNCHANGED <<db, announced, regressed>>
        BY <1>0, <1>3, CallFacts DEF Read
    <2>2. /\ readers'[r].at \in {"read", "store"} /\ readers'[r].view = readers[r].view
          /\ readers'[r].floor = readers[r].floor
          /\ \A x \in Readers \ {r} : readers'[x] = readers[x]
        BY <1>0, <1>3, <2>1 DEF Read, TypesOK, Calls
    <2>3. CallOf(r)' = CallOf(r)
        BY <2>1, <2>2 DEF CallOf
    <2> QED
        BY <1>0, <2>1, <2>2, <2>3, BarChanges DEF Promise!freshVars, Bar
<1>4. ASSUME NEW r \in Readers, Store(r)
      PROVE  Promise!Answer(r)
    <2> DEFINE v == readers[r].view
               s == readers[r].read
    <2>1. /\ readers[r].at = "store" /\ Asking(r) /\ readers[r] \in Calls /\ v \in Views
          /\ UNCHANGED <<db, announced, regressed>>
        BY <1>0, <1>4, CallFacts DEF Store, Asking
    <2>2. readers' = [readers EXCEPT ![r].at = "answered", ![r].read = s]
        BY <1>4 DEF Store, Answer
    <2>3. /\ readers'[r].at = "answered" /\ readers'[r].view = v /\ readers'[r].read = s
          /\ \A x \in Readers \ {r} : readers'[x] = readers[x]
        BY <1>0, <2>1, <2>2 DEF TypesOK, Calls
    <2>4. CallOf(r)' = Promise!Answered(v, s)
        BY <2>3 DEF CallOf, Promise!Answered
    <2>5. s \in Seq(Nat)
        BY <2>1 DEF Calls
    <2>6. DOMAIN s = Places(v) /\ \A i \in DOMAIN s : s[i] <= db[ReadsOf[v][i]]
        BY <1>0, <2>1, PlaceFacts DEF SeenOK
    <2>7. v \in Trusted => \A i \in DOMAIN s : Promised(v, i) => readers[r].floor[i] <= s[i]
        BY <1>0, <2>1, <2>6 DEF CallsOK, Since
    <2> QED
        BY <2>1, <2>3, <2>4, <2>5, <2>6, <2>7, AnswerAllowed
<1>5. ASSUME NEW r \in Readers, FetchFails(r)
      PROVE  Promise!Leave(r)
    <2>1. /\ readers[r].at = "read" /\ Asking(r) /\ readers' = [readers EXCEPT ![r] = IdleReader]
          /\ UNCHANGED <<db, announced, regressed>>
        BY <1>5 DEF FetchFails, Asking
    <2>2. readers'[r] = IdleReader /\ \A x \in Readers \ {r} : readers'[x] = readers[x]
        BY <1>0, <2>1 DEF TypesOK
    <2>3. CallOf(r)' = Promise!NoCall
        BY <2>2 DEF CallOf, IdleReader, Promise!NoCall
    <2>4. Bar' = [Bar EXCEPT ![r] = Promise!NoCall] /\ Bar[r].at # "none"
        BY <1>0, <2>1, <2>2, <2>3, BarChanges, CallOfFacts DEF Promise!Asked
    <2> QED
        BY <2>1, <2>4 DEF Promise!Leave, Bar
<1>6. ASSUME NEW t \in Tables, db' = [db EXCEPT ![t] = @ + 1], UNCHANGED <<announced, regressed, readers>>
      PROVE  Promise!Commit(t)
    BY <1>6 DEF Promise!Commit, CallOf
<1>7. ASSUME NEW w \in Writers, NEW kind \in WriteKinds, Save(w, kind)
      PROVE  Promise!Next \/ UNCHANGED Promise!freshVars
    <2>1. UNCHANGED <<announced, regressed, readers>> /\ TableOf[kind] \in Tables
        BY <1>7, KindFacts DEF Save
    <2>2. CASE InTransaction(kind)
        BY <1>7, <2>1, <2>2, Unseen DEF Save, Trusted, Promise!Next
    <2>3. CASE ~InTransaction(kind)
        BY <1>6, <1>7, <2>1, <2>3 DEF Save, Committed, Promise!Next
    <2> QED
        BY <2>2, <2>3
<1>8. ASSUME UNCHANGED <<db, announced, readers>>, Trusted' \subseteq Trusted
      PROVE  Promise!Next \/ UNCHANGED Promise!freshVars
    BY <1>8, Unseen DEF Promise!Next
<1>9. ASSUME NEW w \in Writers, Incr(w) PROVE Promise!Next \/ UNCHANGED Promise!freshVars
    BY <1>8, <1>9 DEF Incr, Stored, Trusted
<1>10. ASSUME NEW w \in Writers, SetFirst(w) PROVE Promise!Next \/ UNCHANGED Promise!freshVars
    BY <1>8, <1>10 DEF SetFirst, Stored, Trusted
<1>6a. ASSUME NEW t \in Tables, Promise!Announce(t) PROVE Promise!Next
    BY <1>6a DEF Promise!Next
<1>11. ASSUME NEW w \in Writers, EndWrite(w) PROVE Promise!Next \/ UNCHANGED Promise!freshVars
    <2> DEFINE n == writers[w].version
    <2>0. writers[w].at # "idle" /\ TableOf[writers[w].kind] \in Tables
        BY <1>0, <1>11, WriteFacts DEF EndWrite, SignalsSent
    <2> PICK t \in Tables : t = TableOf[writers[w].kind]
        BY <2>0
    <2>1. /\ announced' = IF announced[t] < n THEN [announced EXCEPT ![t] = n] ELSE announced
          /\ UNCHANGED <<db, regressed, readers>> /\ writers[w].at # "idle"
        BY <1>11 DEF EndWrite, SignalsSent
    <2>2. n \in Nat /\ n <= db[t] /\ announced[t] \in Nat /\ db[t] \in Nat
        BY <1>0, <2>1, WriteFacts DEF SeenOK, TypesOK
    <2> HIDE DEF n
    <2>3. CASE announced[t] < n
        <3>1. n \in (announced[t] + 1)..db[t]
            BY <2>2, <2>3
        <3>2. Trusted' \in SUBSET Trusted /\ Bar' = Bar
            BY <2>1 DEF Trusted, Bar, CallOf
        <3>3. announced' = [announced EXCEPT ![t] = n]
            BY <2>1, <2>3
        <3>4. Promise!Announce(t)
            BY <2>1, <3>1, <3>2, <3>3 DEF Promise!Announce, Trusted, Bar
        <3> QED
            BY <1>6a, <3>4
    <2>4. CASE ~(announced[t] < n)
        BY <1>8, <2>1, <2>4 DEF Trusted
    <2> QED
        BY <2>3, <2>4
<1>12. ASSUME NEW w \in Writers, NEW commit \in BOOLEAN, EndTransaction(w, commit)
       PROVE  Promise!Next \/ UNCHANGED Promise!freshVars
    <2>1. UNCHANGED <<announced, regressed, readers>> /\ TableOf[writers[w].kind] \in Tables
        BY <1>0, <1>12, WriteFacts DEF EndTransaction, SignalsSent
    <2>2. CASE commit
        BY <1>6, <1>12, <2>1, <2>2 DEF EndTransaction, Committed, Promise!Next
    <2>3. CASE ~commit
        BY <1>8, <1>12, <2>1, <2>3 DEF EndTransaction, Trusted
    <2> QED
        BY <2>2, <2>3
<1>13. ASSUME NEW v \in Views, NEW g \in Generations, Expire(v, g)
       PROVE  Promise!Next \/ UNCHANGED Promise!freshVars
    BY <1>8, <1>13 DEF Expire, Trusted
<1>14. ASSUME NEW d \in Domains, Evict(d) PROVE Promise!Next \/ UNCHANGED Promise!freshVars
    BY <1>8, <1>14 DEF Evict, Trusted
<1>15. CASE Restart
    BY <1>8, <1>15 DEF Restart, Trusted
<1>16. CASE UNCHANGED vars
    BY <1>8, <1>16 DEF vars, Trusted
<1>17. Promise!View = Views
    BY DEF Promise!View
<1>18. ASSUME NEW r \in Readers, (\E v \in Views : Promise!Ask(r, v)) \/ Promise!Answer(r) \/ Promise!Leave(r)
       PROVE  Promise!Next
    BY <1>17, <1>18 DEF Promise!Next
<1> QED
    BY <1>1, <1>2, <1>3, <1>4, <1>5, <1>7, <1>9, <1>10, <1>11, <1>12, <1>13, <1>14, <1>15, <1>16, <1>18 DEF Next

\* The cache implements FreshReads: every answer was committed, and as long as
\* the generation of a view has not gone backwards no answer is older than the
\* writes that were over when the call began (ImplementsFreshReads).
THEOREM Refinement == Spec => ImplementsFreshReads
<1>1. Init => Promise!Init
    BY PromiseInitial
<1>2. CacheInv /\ [Next]_vars => [Promise!Next]_(Promise!freshVars)
    BY PromiseStep
<1> QED
    BY <1>1, <1>2, CacheInvariant, PTL DEF Spec, ImplementsFreshReads, Promise!Spec
=============================================================================

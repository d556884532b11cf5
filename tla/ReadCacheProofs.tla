---------------------------- MODULE ReadCacheProofs ----------------------------
(***************************************************************************)
(* The cached reads for every catalogue, lifetime, number of servers,      *)
(* seedings and reads: type correctness, that nobody loses the tenant, how *)
(* long half a catalogue is given out, and what a reset leaves in a cache. *)
(***************************************************************************)
EXTENDS ReadCache, SeedingProofs

-----------------------------------------------------------------------------
(* Type correctness                                                        *)

ReadersFit ==
    \A r \in Readers : at[r] \in UnderWay => on[r] \in Servers /\ asked[r] \in Queries

ReadVarsOK ==
    /\ clock \in 0..MaxClock
    /\ cache \in [Servers -> [Queries -> Entries]]
    /\ at \in [Readers -> {"idle", "company", "read", "needServices", "needStylists",
                           "fill", "done", "notFound", "failed"}]
    /\ on \in [Readers -> Servers \cup {"none"}]
    /\ asked \in [Readers -> Queries \cup {NoQuery}]
    /\ services \in [Readers -> SUBSET SeedKeys["services"]]
    /\ stylists \in [Readers -> SUBSET SeedKeys["stylists"]]
    /\ answer \in [Readers -> Rows]
    /\ hadCompany \in [Readers -> BOOLEAN]
    /\ cleared \in [Servers -> {"no", "busy", "quiet"}]
    /\ mixedAt \in 0..MaxClock
    /\ ReadersFit

LEMMA RowsAreTyped ==
    ASSUME NEW q \in Queries, NEW svcs \in SUBSET SeedKeys["services"],
           NEW stys \in SUBSET SeedKeys["stylists"]
    PROVE  View(q, svcs, stys) \in Rows
<1> USE QueriesAssumption DEF Names, Rows
<1>1. BusinessRows(svcs) \in Rows
  BY DEF BusinessRows
<1>2. ServiceRows(q.filter, svcs, stys) \in Rows
  BY DEF ServiceRows
<1>3. StylistRows(q.filter, svcs, stys) \in Rows
  BY DEF StylistRows
<1>4. q.view \in Views
  OBVIOUS
<1> QED
  BY <1>1, <1>2, <1>3, <1>4 DEF View, Views

\* The documents of a fixed collection are those of db/seed.ts.
LEMMA ThereIsTyped ==
    ASSUME SeedTypeOK
    PROVE  /\ There("services") \subseteq SeedKeys["services"]
           /\ There("stylists") \subseteq SeedKeys["stylists"]
<1>1. ASSUME NEW d \in docs, d.coll \in {"services", "stylists"}
      PROVE  d.key \in SeedKeys[d.coll]
  <2>1. d \in Docs /\ d \notin ClientDocs
    BY <1>1, SeedKeysAssumption DEF SeedTypeOK
  <2>2. PICK w \in Seeders \cup {Earlier}, c \in Stored : d \in SeedDocs(w, c)
    BY <2>1 DEF Docs, SeedOf
  <2> QED
    BY <2>2 DEF SeedDocs
<1> QED
  BY <1>1 DEF There

LEMMA EntriesAreTyped ==
    ASSUME NEW rows \in Rows, NEW e \in Nat
    PROVE  [rows |-> rows, expires |-> e, there |-> TRUE] \in Entries /\ NoEntry \in Entries
BY DEF Entries

LEMMA EntryRows ==
    ASSUME NEW e \in Entries
    PROVE  e.rows \in Rows /\ e.expires \in Nat
<1>1. NoEntry.rows \in Rows /\ NoEntry.expires \in Nat
  BY DEF NoEntry, Rows
<1>2. CASE e \in [rows: Rows, expires: Nat, there: {TRUE}]
  BY <1>2
<1> QED
  BY <1>1, <1>2 DEF Entries

LEMMA ReadTypeInit == ReadInit => ReadVarsOK
<1>1. NoEntry \in Entries /\ {} \in Rows
  BY DEF Entries, Rows
<1> QED
  BY <1>1, QueriesAssumption DEF ReadInit, ReadVarsOK, ReadersFit, UnderWay

\* The variables of the handlers, whatever ends or is cut off.
GiveVarsOK ==
    /\ at' \in [Readers -> {"idle", "company", "read", "needServices", "needStylists",
                            "fill", "done", "notFound", "failed"}]
    /\ answer' \in [Readers -> Rows]
    /\ on' \in [Readers -> Servers \cup {"none"}]
    /\ services' \in [Readers -> SUBSET SeedKeys["services"]]
    /\ stylists' \in [Readers -> SUBSET SeedKeys["stylists"]]
    /\ hadCompany' \in [Readers -> BOOLEAN]

LEMMA GiveIsTyped ==
    ASSUME ReadVarsOK, NEW r \in Readers, NEW how \in {"done", "notFound", "failed"},
           NEW rows \in Rows, Give(r, how, rows)
    PROVE  /\ GiveVarsOK
           /\ at'[r] \notin UnderWay
           /\ \A v \in Readers \ {r} : at'[v] = at[v] /\ on'[v] = on[v]
BY DEF ReadVarsOK, Give, GiveVarsOK, UnderWay

\* What one step of a handler changes.
HandlerOK ==
    /\ GiveVarsOK
    /\ cache' \in [Servers -> [Queries -> Entries]]
    /\ asked' \in [Readers -> Queries \cup {NoQuery}]
    /\ ReadersFit'

LEMMA GetIsTyped ==
    ASSUME ReadVarsOK, NEW r \in Readers, NEW s \in Servers, NEW q \in Queries, Get(r, s, q)
    PROVE  HandlerOK
<1> USE DEF ReadVarsOK
<1>1. asked' = [asked EXCEPT ![r] = q]
  BY DEF Get
<1>2. CASE Live(cache[s][q]) /\ Give(r, "done", cache[s][q].rows) /\ UNCHANGED cache
  <2>0. cache[s][q] \in Entries
    OBVIOUS
  <2>1. cache[s][q].rows \in Rows
    BY <2>0, EntryRows
  <2>2. /\ GiveVarsOK /\ at'[r] \notin UnderWay
        /\ \A v \in Readers \ {r} : at'[v] = at[v] /\ on'[v] = on[v]
    BY <1>2, <2>1, GiveIsTyped
  <2>3. ReadersFit'
    BY <1>1, <2>2 DEF ReadersFit
  <2> QED
    BY <1>1, <1>2, <2>2, <2>3 DEF HandlerOK
<1>3. CASE /\ cache' = [cache EXCEPT ![s][q] = NoEntry]
           /\ at' = [at EXCEPT ![r] = "company"]
           /\ on' = [on EXCEPT ![r] = s]
           /\ hadCompany' = [hadCompany EXCEPT ![r] = HasCompany]
           /\ UNCHANGED <<services, stylists, answer>>
  <2>1. NoEntry \in Entries /\ HasCompany \in BOOLEAN
    BY DEF Entries, HasCompany
  <2>2. cache' \in [Servers -> [Queries -> Entries]]
    BY <1>3, <2>1
  <2>3. hadCompany' \in [Readers -> BOOLEAN]
    BY <1>3, <2>1
  <2>4. GiveVarsOK
    BY <1>3, <2>3 DEF GiveVarsOK
  <2>5. asked' \in [Readers -> Queries \cup {NoQuery}]
    BY <1>1
  <2>6. ReadersFit'
    BY <1>1, <1>3 DEF ReadersFit, UnderWay
  <2> QED
    BY <2>2, <2>4, <2>5, <2>6 DEF HandlerOK
<1> QED
  BY <1>2, <1>3 DEF Get

LEMMA HandlerIsTyped ==
    ASSUME SeedTypeOK, ReadVarsOK, NEW r \in Readers, ReaderStep(r)
    PROVE  HandlerOK
<1> USE DEF ReadVarsOK
<1>0. {} \in Rows
  BY DEF Rows
<1>1. CASE \E s \in Servers, q \in Queries : Get(r, s, q)
  BY <1>1, GetIsTyped
<1>2. CASE RequireCompany(r)
  <2>1. CASE Give(r, "notFound", {})
    BY <1>2, <2>1, <1>0, GiveIsTyped DEF RequireCompany, HandlerOK, ReadersFit
  <2>2. CASE ~Give(r, "notFound", {})
    BY <1>2, <2>2 DEF RequireCompany, HandlerOK, GiveVarsOK, ReadersFit, UnderWay
  <2> QED
    BY <2>1, <2>2
<1>3. CASE QueryServices(r)
  BY <1>3, ThereIsTyped DEF QueryServices, HandlerOK, GiveVarsOK, ReadersFit, UnderWay
<1>4. CASE QueryStylists(r)
  BY <1>4, ThereIsTyped DEF QueryStylists, HandlerOK, GiveVarsOK, ReadersFit, UnderWay
<1>5. CASE Fill(r)
  <2>1. on[r] \in Servers /\ asked[r] \in Queries
    BY <1>5 DEF Fill, ReadersFit, UnderWay
  <2>2. View(asked[r], services[r], stylists[r]) \in Rows
    BY <2>1, RowsAreTyped
  <2>3. clock + Lifetime \in Nat
    BY QueriesAssumption
  <2>4. cache' \in [Servers -> [Queries -> Entries]]
    BY <1>5, <2>1, <2>2, <2>3, EntriesAreTyped DEF Fill
  <2> QED
    BY <1>5, <2>2, <2>4, GiveIsTyped DEF Fill, HandlerOK, ReadersFit
<1>6. CASE QueryFails(r)
  BY <1>6, <1>0, GiveIsTyped DEF QueryFails, HandlerOK, ReadersFit
<1> QED
  BY <1>1, <1>2, <1>3, <1>4, <1>5, <1>6 DEF ReaderStep

LEMMA DropsAreTyped ==
    ASSUME ReadVarsOK, NEW dropping \in SUBSET Servers, DropsEntries(dropping)
    PROVE  /\ cache' \in [Servers -> [Queries -> Entries]]
           /\ \A s \in Servers : cache'[s] = cache[s] \/ cache'[s] = [q \in Queries |-> NoEntry]
BY DEF ReadVarsOK, DropsEntries, cacheInvalidateCompany, Empty, Entries

LEMMA SeedingBesideIsTyped ==
    ASSUME ReadVarsOK, SeedingBeside
    PROVE  /\ GiveVarsOK
           /\ cache' \in [Servers -> [Queries -> Entries]]
           /\ asked' = asked /\ clock' = clock
           /\ cleared' \in [Servers -> {"no", "busy", "quiet"}]
           /\ ReadersFit'
<1> USE DEF ReadVarsOK
<1>1. cache' \in [Servers -> [Queries -> Entries]]
  BY DropsAreTyped DEF SeedingBeside
<1>2. at' = [r \in Readers |-> IF r \in CutOff THEN "failed" ELSE at[r]]
  BY DEF SeedingBeside, Without
<1>3. on' = [r \in Readers |-> IF r \in CutOff THEN "none" ELSE on[r]]
  BY DEF SeedingBeside, Without
<1>4. services' = [r \in Readers |-> IF r \in CutOff THEN {} ELSE services[r]]
  BY DEF SeedingBeside, Without
<1>5. stylists' = [r \in Readers |-> IF r \in CutOff THEN {} ELSE stylists[r]]
  BY DEF SeedingBeside, Without
<1>6. hadCompany' = [r \in Readers |-> IF r \in CutOff THEN FALSE ELSE hadCompany[r]]
  BY DEF SeedingBeside, Without
<1>7. answer' = answer /\ asked' = asked /\ clock' = clock
  BY DEF SeedingBeside
<1>8. hadCompany' \in [Readers -> BOOLEAN]
  BY <1>6
<1>9. /\ at' \in [Readers -> {"idle", "company", "read", "needServices", "needStylists",
                              "fill", "done", "notFound", "failed"}]
      /\ on' \in [Readers -> Servers \cup {"none"}]
      /\ services' \in [Readers -> SUBSET SeedKeys["services"]]
      /\ stylists' \in [Readers -> SUBSET SeedKeys["stylists"]]
      /\ answer' \in [Readers -> Rows]
  BY <1>2, <1>3, <1>4, <1>5, <1>7
<1>10. GiveVarsOK
  BY <1>8, <1>9 DEF GiveVarsOK
<1>11. ReadersFit'
  BY <1>2, <1>3, <1>7 DEF ReadersFit, UnderWay
<1>12. cleared' \in [Servers -> {"no", "busy", "quiet"}]
  BY DEF SeedingBeside, Cleared
<1> QED
  BY <1>1, <1>7, <1>10, <1>11, <1>12

LEMMA BesideKeepsReaders ==
    ASSUME ReadVarsOK, UNCHANGED readerState
    PROVE  GiveVarsOK /\ ReadersFit' /\ asked' = asked
BY DEF ReadVarsOK, GiveVarsOK, readerState, ReadersFit

LEMMA ReadTypeStep ==
    ASSUME SeedTypeOK, ReadVarsOK, [ReadNext]_allVars
    PROVE  ReadVarsOK'
<1>0. CASE UNCHANGED allVars
  BY <1>0 DEF allVars, readVars, readHistory, ReadVarsOK, ReadersFit
<1>1. ASSUME GiveVarsOK, ReadersFit', cleared' \in [Servers -> {"no", "busy", "quiet"}],
             cache' \in [Servers -> [Queries -> Entries]],
             asked' \in [Readers -> Queries \cup {NoQuery}],
             clock' \in 0..MaxClock, mixedAt' \in {clock', mixedAt}
      PROVE  ReadVarsOK'
  BY <1>1 DEF GiveVarsOK, ReadVarsOK
<1>2. ASSUME ReadNext PROVE mixedAt' \in {clock', mixedAt}
  BY <1>2 DEF ReadNext
<1>3. CASE ReadNext /\ SeedingBeside
  BY <1>1, <1>2, <1>3, SeedingBesideIsTyped DEF ReadVarsOK
<1>4. CASE ReadNext /\ ClientBeside
  <2>1. cache' \in [Servers -> [Queries -> Entries]]
    BY <1>4, DropsAreTyped DEF ClientBeside
  <2>2. clock' = clock /\ cleared' = cleared /\ UNCHANGED readerState
    BY <1>4 DEF ClientBeside
  <2> QED
    BY <1>1, <1>2, <1>4, <2>1, <2>2, BesideKeepsReaders DEF ReadVarsOK
<1>5. CASE ReadNext /\ ReadBeside
  BY <1>1, <1>2, <1>5, HandlerIsTyped DEF ReadVarsOK, ReadBeside, HandlerOK
<1>6. CASE ReadNext /\ Tick
  <2>1. /\ cache' = cache /\ cleared' = cleared /\ clock' \in 0..MaxClock
        /\ UNCHANGED readerState
    BY <1>6, QueriesAssumption DEF Tick, ReadVarsOK
  <2> QED
    BY <1>1, <1>2, <1>6, <2>1, BesideKeepsReaders DEF ReadVarsOK
<1> QED
  BY <1>0, <1>3, <1>4, <1>5, <1>6 DEF ReadNext

\* A step of the reads is a step of the seeding, or leaves its variables alone.
LEMMA SeedingGoesOn ==
    ASSUME [ReadNext]_allVars
    PROVE  [SeedNext]_seedVars
<1>1. CASE SeedingBeside
  BY <1>1 DEF SeedingBeside, SeedNext
<1>2. CASE ClientBeside
  BY <1>2 DEF ClientBeside, SeedNext
<1>3. CASE ReadBeside \/ Tick \/ UNCHANGED allVars
  BY <1>3 DEF ReadBeside, Tick, allVars, seedVars
<1> QED
  BY <1>1, <1>2, <1>3 DEF ReadNext

\* Cached answers and those given out list services and stylists of the seed
\* and nothing else, and every handler under way knows its server and query.
THEOREM ReadTypeCorrect == ReadSpec => []ReadTypeOK
<1>1. ReadInit => SeedTypeOK /\ ReadVarsOK
  BY ReadTypeInit, SeedTypeInit DEF ReadInit
<1>2. SeedTypeOK /\ ReadVarsOK /\ [ReadNext]_allVars => (SeedTypeOK /\ ReadVarsOK)'
  BY ReadTypeStep, SeedTypeStep, SeedingGoesOn
<1>3. SeedTypeOK /\ ReadVarsOK => ReadTypeOK
  BY DEF ReadTypeOK, ReadVarsOK
<1> QED
  BY <1>1, <1>2, <1>3, PTL DEF ReadSpec

-----------------------------------------------------------------------------
(* The tenant is never lost                                                *)

CompanySeen == \A r \in Readers : hadCompany[r] => HasCompany

\* What any step does to one read: nothing, a step of its handler, or its end
\* with its server.
LEMMA ReadStepKinds ==
    ASSUME ReadVarsOK, [ReadNext]_allVars, NEW r \in Readers
    PROVE  \/ /\ at'[r] = at[r] /\ on'[r] = on[r] /\ asked'[r] = asked[r]
              /\ services'[r] = services[r] /\ stylists'[r] = stylists[r]
              /\ answer'[r] = answer[r] /\ hadCompany'[r] = hadCompany[r]
           \/ ReaderStep(r) /\ UNCHANGED <<clock, seedVars>>
           \/ at'[r] = "failed" /\ hadCompany'[r] = FALSE
<1> USE DEF ReadVarsOK
<1>1. CASE SeedingBeside
  BY <1>1 DEF SeedingBeside, Without
<1>2. CASE ClientBeside \/ Tick \/ UNCHANGED allVars
  BY <1>2 DEF ClientBeside, Tick, readerState, allVars, readVars, readHistory
<1>3. CASE ReadBeside
  <2>1. PICK v \in Readers : ReaderStep(v)
    BY <1>3 DEF ReadBeside
  <2>2. ASSUME v # r
        PROVE  /\ at'[r] = at[r] /\ on'[r] = on[r] /\ asked'[r] = asked[r]
               /\ services'[r] = services[r] /\ stylists'[r] = stylists[r]
               /\ answer'[r] = answer[r] /\ hadCompany'[r] = hadCompany[r]
    <3>1. CASE \E s \in Servers, q \in Queries : Get(v, s, q)
      BY <2>2, <3>1 DEF Get, Give
    <3>2. CASE RequireCompany(v) \/ QueryFails(v) \/ Fill(v)
      BY <2>2, <3>2 DEF RequireCompany, QueryFails, Fill, Give
    <3>3. CASE QueryServices(v) \/ QueryStylists(v)
      BY <2>2, <3>3 DEF QueryServices, QueryStylists
    <3> QED
      BY <2>1, <3>1, <3>2, <3>3 DEF ReaderStep
  <2> QED
    BY <1>3, <2>1, <2>2 DEF ReadBeside
<1> QED
  BY <1>1, <1>2, <1>3 DEF ReadNext

LEMMA CompanySeenStep ==
    ASSUME SeedInv, ReadVarsOK, CompanySeen, [ReadNext]_allVars
    PROVE  CompanySeen'
<1> SUFFICES ASSUME NEW r \in Readers, hadCompany'[r] PROVE HasCompany'
  BY DEF CompanySeen
<1>1. HasCompany => HasCompany'
  BY SeedingGoesOn, CompanyStays DEF SeedInv
<1>2. ASSUME ReaderStep(r) PROVE HasCompany
  <2> USE DEF ReadVarsOK
  <2>1. CASE \E s \in Servers, q \in Queries : Get(r, s, q)
    BY <2>1 DEF Get, Give
  <2>2. CASE RequireCompany(r) \/ QueryFails(r) \/ Fill(r)
    BY <2>2 DEF RequireCompany, QueryFails, Fill, Give, CompanySeen
  <2>3. CASE QueryServices(r) \/ QueryStylists(r)
    BY <2>3 DEF QueryServices, QueryStylists, CompanySeen
  <2> QED
    BY <1>2, <2>1, <2>2, <2>3 DEF ReaderStep
<1> QED
  BY <1>1, <1>2, ReadStepKinds DEF CompanySeen

\* Who answers and how: "not found" comes from requireCompany, rows from the
\* cache or from the end of a handler.
LEMMA WhoAnswers ==
    ASSUME ReadVarsOK, [ReadNext]_allVars, NEW r \in Readers
    PROVE  /\ Answers(r, "notFound") => RequireCompany(r) /\ ~HasCompany
           /\ Answers(r, "done") =>
                 \/ Fill(r)
                 \/ \E s \in Servers, q \in Queries :
                       Get(r, s, q) /\ Live(cache[s][q]) /\ answer'[r] = cache[s][q].rows
<1> USE DEF ReadVarsOK
<1>1. ASSUME at'[r] \in {"notFound", "done"}, at'[r] # at[r] PROVE ReaderStep(r)
  BY <1>1, ReadStepKinds
<1>2. CASE \E s \in Servers, q \in Queries : Get(r, s, q)
  <2>1. PICK s \in Servers, q \in Queries : Get(r, s, q)
    BY <1>2
  <2>2. CASE Live(cache[s][q]) /\ Give(r, "done", cache[s][q].rows)
    BY <2>1, <2>2 DEF Give, Answers
  <2>3. CASE at' = [at EXCEPT ![r] = "company"]
    BY <2>3 DEF Answers
  <2> QED
    BY <2>1, <2>2, <2>3 DEF Get
<1>3. CASE RequireCompany(r)
  BY <1>3 DEF RequireCompany, Give, Answers
<1>4. CASE QueryServices(r) \/ QueryStylists(r)
  BY <1>4 DEF QueryServices, QueryStylists, Answers
<1>5. CASE Fill(r)
  BY <1>5 DEF Fill, Give, Answers
<1>6. CASE QueryFails(r)
  BY <1>6 DEF QueryFails, Give, Answers
<1> QED
  BY <1>1, <1>2, <1>3, <1>4, <1>5, <1>6 DEF ReaderStep, Answers

\* Who came to GET /business, /services or /stylists when the company was there
\* is not told that it does not exist, whatever is seeded and reset meanwhile.
THEOREM CompanyStaysForReaders == ReadSpec => CompanyIsNeverLost
<1> DEFINE Inv == SeedInv /\ ReadVarsOK /\ CompanySeen
<1>1. ReadInit => Inv
  <2>1. ReadInit => SeedInv /\ ReadVarsOK
    BY ReadTypeInit, SeedInvInit DEF ReadInit
  <2>2. ReadInit => CompanySeen
    BY DEF ReadInit, CompanySeen
  <2> QED
    BY <2>1, <2>2
<1>2. Inv /\ [ReadNext]_allVars => Inv'
  <2> SUFFICES ASSUME Inv, [ReadNext]_allVars PROVE Inv'
    OBVIOUS
  <2>1. SeedInv'
    BY SeedInvStep, SeedingGoesOn
  <2>2. ReadVarsOK'
    BY ReadTypeStep DEF SeedInv
  <2> QED
    BY <2>1, <2>2, CompanySeenStep
<1>3. Inv /\ [ReadNext]_allVars =>
        [\A r \in Readers : Answers(r, "notFound") => ~hadCompany[r]]_allVars
  BY WhoAnswers DEF CompanySeen
<1> QED
  BY <1>1, <1>2, <1>3, PTL DEF ReadSpec, CompanyIsNeverLost

-----------------------------------------------------------------------------
(* Half a catalogue lasts one lifetime                                     *)

\* The data, or a read under way, is not whole only if it was so just now; an
\* entry that is not whole dates from then.
MixFits ==
    /\ Mixed => mixedAt = clock
    /\ mixedAt <= clock
    /\ \A s \in Servers, q \in Queries :
          cache[s][q].there /\ cache[s][q].rows # Whole(q) =>
              cache[s][q].expires <= mixedAt + Lifetime

LEMMA PartialRows ==
    ASSUME ReadVarsOK, NEW r \in Readers, at[r] = "fill",
           View(asked[r], services[r], stylists[r]) # Whole(asked[r])
    PROVE  Partial(r) /\ Mixed
<1>1. asked[r] \in Queries /\ asked[r].view \in Views
  BY QueriesAssumption DEF ReadVarsOK, ReadersFit, UnderWay
<1>2. CASE asked[r].view = "business"
  BY <1>2 DEF View, Whole, Partial, Mixed
<1>3. CASE asked[r].view # "business"
  BY <1>3 DEF Whole, Partial, Mixed
<1> QED
  BY <1>2, <1>3

LEMMA FillEffect ==
    ASSUME ReadVarsOK, NEW r \in Readers, Fill(r)
    PROVE  /\ answer'[r] = View(asked[r], services[r], stylists[r])
           /\ on[r] \in Servers /\ asked[r] \in Queries /\ asked' = asked
           /\ cache'[on[r]][asked[r]].rows = answer'[r]
           /\ cache'[on[r]][asked[r]].expires = clock + Lifetime
           /\ \A s \in Servers, q \in Queries :
                 s # on[r] \/ q # asked[r] => cache'[s][q] = cache[s][q]
<1>1. on[r] \in Servers /\ asked[r] \in Queries
  BY DEF Fill, ReadVarsOK, ReadersFit, UnderWay
<1> QED
  BY <1>1 DEF Fill, Give, ReadVarsOK

\* An entry is dropped, kept or filled.
LEMMA EntryKinds ==
    ASSUME ReadVarsOK, [ReadNext]_allVars, NEW s \in Servers, NEW q \in Queries
    PROVE  \/ cache'[s][q] = cache[s][q]
           \/ cache'[s][q] = NoEntry
           \/ \E r \in Readers : /\ Fill(r) /\ on[r] = s /\ asked[r] = q
                                 /\ UNCHANGED <<clock, seedVars>>
<1> USE DEF ReadVarsOK
<1>1. CASE SeedingBeside
  BY <1>1, DropsAreTyped DEF SeedingBeside
<1>2. CASE ClientBeside
  BY <1>2, DropsAreTyped DEF ClientBeside
<1>3. CASE Tick \/ UNCHANGED allVars
  BY <1>3 DEF Tick, allVars, readVars
<1>4. CASE ReadBeside
  <2>1. PICK r \in Readers : ReaderStep(r)
    BY <1>4 DEF ReadBeside
  <2>2. CASE \E t \in Servers, p \in Queries : Get(r, t, p)
    BY <2>2 DEF Get
  <2>3. CASE RequireCompany(r) \/ QueryServices(r) \/ QueryStylists(r) \/ QueryFails(r)
    BY <2>3 DEF RequireCompany, QueryServices, QueryStylists, QueryFails
  <2>4. CASE Fill(r)
    BY <1>4, <2>4, FillEffect DEF ReadBeside
  <2> QED
    BY <2>1, <2>2, <2>3, <2>4 DEF ReaderStep
<1> QED
  BY <1>1, <1>2, <1>3, <1>4 DEF ReadNext

LEMMA MixFitsStep ==
    ASSUME ReadVarsOK, ReadVarsOK', MixFits, [ReadNext]_allVars
    PROVE  MixFits'
<1> USE QueriesAssumption
<1>0. clock \in Nat /\ clock' \in Nat /\ mixedAt \in Nat /\ mixedAt' \in Nat
  BY DEF ReadVarsOK
<1>1. clock <= clock'
  <2>1. CASE Tick
    BY <1>0, <2>1 DEF Tick
  <2>2. CASE SeedingBeside \/ ClientBeside \/ ReadBeside \/ UNCHANGED allVars
    <3>1. clock' = clock
      BY <2>2 DEF SeedingBeside, ClientBeside, ReadBeside, allVars, readVars
    <3> QED
      BY <1>0, <3>1
  <2> QED
    BY <2>1, <2>2 DEF ReadNext
<1>2. CASE UNCHANGED allVars
  <2>1. Mixed' = Mixed
    BY <1>2 DEF allVars, readVars, seedVars, Mixed, WholeData, There, Partial
  <2> QED
    BY <1>2, <2>1 DEF MixFits, allVars, readVars, readHistory
<1>3. CASE ReadNext
  <2>1. mixedAt' = IF Mixed' THEN clock' ELSE mixedAt
    BY <1>3 DEF ReadNext
  <2>2. mixedAt <= mixedAt' /\ mixedAt' <= clock' /\ (Mixed' => mixedAt' = clock')
    BY <1>0, <1>1, <2>1 DEF MixFits
  <2>3. ASSUME NEW s \in Servers, NEW q \in Queries,
               cache'[s][q].there, cache'[s][q].rows # Whole(q)
        PROVE  cache'[s][q].expires <= mixedAt' + Lifetime
    <3>1. CASE cache'[s][q] = cache[s][q]
      <4>1. cache[s][q] \in Entries /\ cache[s][q].there
        BY <2>3, <3>1 DEF ReadVarsOK
      <4>2. cache[s][q].expires \in Nat
        BY <4>1, EntryRows
      <4>3. cache[s][q].expires <= mixedAt + Lifetime
        BY <2>3, <3>1 DEF MixFits
      <4> QED
        BY <1>0, <2>2, <3>1, <4>2, <4>3
    <3>2. CASE cache'[s][q] = NoEntry
      BY <2>3, <3>2 DEF NoEntry
    <3>3. CASE \E r \in Readers : /\ Fill(r) /\ on[r] = s /\ asked[r] = q
                                  /\ UNCHANGED <<clock, seedVars>>
      <4>1. PICK r \in Readers : Fill(r) /\ on[r] = s /\ asked[r] = q
        BY <3>3
      <4>2. Mixed
        BY <2>3, <4>1, FillEffect, PartialRows DEF Fill
      <4>3. mixedAt = clock
        BY <4>2 DEF MixFits
      <4> QED
        BY <1>0, <2>2, <4>1, <4>3, FillEffect
    <3> QED
      BY <3>1, <3>2, <3>3, EntryKinds
  <2> QED
    BY <2>2, <2>3 DEF MixFits, Whole
<1> QED
  BY <1>2, <1>3

LEMMA PartialAnswerIsRecent ==
    ASSUME ReadVarsOK, MixFits, [ReadNext]_allVars, NEW r \in Readers,
           Answers(r, "done"), answer'[r] # Whole(asked'[r])
    PROVE  clock <= mixedAt + Lifetime
<1> USE QueriesAssumption
<1>0. clock \in Nat /\ mixedAt \in Nat
  BY DEF ReadVarsOK
<1>1. CASE Fill(r)
  <2>1. Mixed
    BY <1>1, FillEffect, PartialRows DEF Fill
  <2> QED
    BY <1>0, <2>1 DEF MixFits
<1>2. CASE \E s \in Servers, q \in Queries :
               Get(r, s, q) /\ Live(cache[s][q]) /\ answer'[r] = cache[s][q].rows
  <2>1. PICK s \in Servers, q \in Queries :
            Get(r, s, q) /\ Live(cache[s][q]) /\ answer'[r] = cache[s][q].rows
    BY <1>2
  <2>2. asked'[r] = q
    BY <2>1 DEF Get, ReadVarsOK
  <2>3. cache[s][q].there /\ cache[s][q].expires >= clock
    BY <2>1 DEF Live
  <2>4. cache[s][q].expires <= mixedAt + Lifetime
    BY <2>1, <2>2, <2>3 DEF MixFits
  <2>5. cache[s][q] \in Entries
    BY DEF ReadVarsOK
  <2>6. cache[s][q].expires \in Nat
    BY <2>5, EntryRows
  <2> QED
    BY <1>0, <2>3, <2>4, <2>6
<1> QED
  BY <1>1, <1>2, WhoAnswers

\* On every server, half a catalogue is given out for at most one lifetime
\* (ttlMs of lib/cache.ts) after the data, or a read of it, was last not whole.
THEOREM PartialAnswersExpire == ReadSpec => PartialAnswersEnd
<1> DEFINE Inv == SeedTypeOK /\ ReadVarsOK /\ MixFits
<1>1. ReadInit => Inv
  <2>1. ReadInit => SeedTypeOK /\ ReadVarsOK
    BY ReadTypeInit, SeedTypeInit DEF ReadInit
  <2>2. ReadInit => MixFits
    BY DEF ReadInit, MixFits, NoEntry
  <2> QED
    BY <2>1, <2>2
<1>2. Inv /\ [ReadNext]_allVars => Inv'
  BY ReadTypeStep, SeedTypeStep, SeedingGoesOn, MixFitsStep
<1>3. Inv /\ [ReadNext]_allVars =>
        [\A r \in Readers : Answers(r, "done") /\ answer'[r] # Whole(asked'[r]) =>
             clock <= mixedAt + Lifetime]_allVars
  BY PartialAnswerIsRecent
<1> QED
  BY <1>1, <1>2, <1>3, PTL DEF ReadSpec, PartialAnswersEnd
-----------------------------------------------------------------------------
(* What a reset leaves in the cache                                        *)

\* The last seeder ended well and met nobody.
LastIsWhole == latest \in Seeders /\ phase[latest] = "ok" /\ met[latest] = {}

\* A server whose last reset ended in quiet keeps whole listings, and its reads
\* under way have missed nothing.
ResetFits ==
    \A s \in Servers : cleared[s] = "quiet" =>
        /\ LastIsWhole
        /\ KeepsWhole(s)
        /\ \A r \in Readers : at[r] \in UnderWay /\ on[r] = s => ~Partial(r)

LEMMA LastLeavesAll ==
    ASSUME LoneInv, LastIsWhole
    PROVE  WholeData
<1> DEFINE w == latest
<1>1. {d \in docs : d.by # "client"} = SeedOf(w)
  BY LoneIsWhole DEF LoneSeedIsWhole, LastIsWhole
<1>2. docs \subseteq Docs
  BY DEF LoneInv, SeedInv, SeedTypeOK
<1>3. ASSUME NEW c \in {"services", "stylists"}
      PROVE  There(c) = SeedKeys[c]
  <2>1. c \in Stored /\ c \in FixedIds
    BY StagesAre DEF FixedIds
  <2>2. ASSUME NEW k \in SeedKeys[c] PROVE k \in There(c)
    <3>1. [coll |-> c, key |-> k, by |-> "seed"] \in SeedDocs(w, c)
      BY <2>1 DEF SeedDocs
    <3>2. [coll |-> c, key |-> k, by |-> "seed"] \in docs
      BY <1>1, <2>1, <3>1 DEF SeedOf
    <3>3. QED
      BY <3>2 DEF There
  <2>3. ASSUME NEW d \in docs, d.coll = c PROVE d.key \in SeedKeys[c]
    <3>1. d \in Docs /\ d \notin ClientDocs
      BY <1>2, <2>3, SeedKeysAssumption
    <3>2. PICK v \in Seeders \cup {Earlier}, e \in Stored : d \in SeedDocs(v, e)
      BY <3>1 DEF Docs, SeedOf
    <3>3. QED
      BY <2>3, <3>2 DEF SeedDocs
  <2> QED
    BY <2>2, <2>3 DEF There
<1> QED
  BY <1>3 DEF WholeData

\* What a step does to a seeder that ended well: nothing, but another may begin.
LEMMA OkStays ==
    ASSUME SeedInv, [SeedNext]_seedVars, NEW w \in Seeders, phase'[w] = "ok" \/ phase[w] = "ok",
           phase[w] = "ok" => StageFits(w)
    PROVE  \/ latest' # w
           \/ phase'[w] = "ok" /\ met'[w] = met[w]
<1> USE DEF SeedInv
<1>1. ASSUME NEW v \in Seeders, BeginStep(v) PROVE latest' # w
  <2>1. latest' = v
    BY <1>1 DEF BeginStep, Boot, PostAdminSeed, NpmRunSeed, Begin
  <2>2. v # w
    BY <1>1, BeginEffect
  <2>3. QED
    BY <2>1, <2>2
<1>2. phase[w] = "ok" => ~AtWork(w)
  BY StagesAre DEF StageFits, AtWork, Running
<1>3. ASSUME NEW v \in Seeders, FailStep(v) PROVE phase'[w] = "ok" /\ met'[w] = met[w]
  BY <1>2, <1>3, FailEffect DEF Stops
<1>4. ASSUME NEW v \in Seeders, IsSeeded(v) PROVE phase'[w] = "ok" /\ met'[w] = met[w]
  BY <1>4, SeededEffect
<1>5. ASSUME NEW v \in Seeders, Advance(v) PROVE phase'[w] = "ok" /\ met'[w] = met[w]
  BY <1>5, AdvanceEffect, StagesAre
<1>6. ASSUME NEW v \in Seeders,
             (\E c \in Collections : List(v, c)) \/ \E op \in pending[v] : Operate(v, op)
      PROVE  phase'[w] = "ok" /\ met'[w] = met[w]
  BY <1>6, ListEffect, OperateEffect
<1>7. ASSUME NEW s \in Servers, Crash(s) PROVE phase'[w] = "ok" /\ met'[w] = met[w]
  BY <1>2, <1>7, CrashEffect
<1>8. CASE IdleStep
  BY <1>8, IdleEffect
<1> QED
  BY <1>1, <1>3, <1>4, <1>5, <1>6, <1>7, <1>8, StepKinds

\* A server becomes quiet with the end of a reset, and stays so while no seeding
\* begins.
LEMMA QuietKinds ==
    ASSUME ReadVarsOK, [ReadNext]_allVars, NEW s \in Servers, cleared'[s] = "quiet"
    PROVE  \/ /\ SeedingBeside /\ Quiet(s) /\ DropsCache(s)
              /\ latest \in Seeders /\ EndsWell(latest) /\ met[latest] = {}
           \/ cleared[s] = "quiet" /\ latest' = latest
<1>1. CASE SeedingBeside
  BY <1>1 DEF SeedingBeside, Cleared, DropsCache
<1>2. CASE ClientBeside
  BY <1>2 DEF ClientBeside, ClientStores, seedHistory
<1>3. CASE ReadBeside \/ Tick \/ UNCHANGED allVars
  BY <1>3 DEF ReadBeside, Tick, allVars, seedVars, readHistory
<1> QED
  BY <1>1, <1>2, <1>3 DEF ReadNext

\* One step of a read of whole data that has missed nothing misses nothing.
LEMMA WholeReads ==
    ASSUME ReadVarsOK, WholeData, NEW r \in Readers, ReaderStep(r), NEW s \in Servers,
           at'[r] \in UnderWay, on'[r] = s,
           at[r] \in UnderWay /\ on[r] = s => ~Partial(r)
    PROVE  ~Partial(r)'
<1> USE DEF ReadVarsOK
<1>1. CASE \E t \in Servers, q \in Queries : Get(r, t, q)
  BY <1>1 DEF Get, Give, UnderWay, Partial
<1>2. CASE RequireCompany(r)
  BY <1>2 DEF RequireCompany, Give, UnderWay, Partial
<1>3. CASE QueryServices(r)
  BY <1>3 DEF QueryServices, UnderWay, Partial, WholeData
<1>4. CASE QueryStylists(r)
  BY <1>4 DEF QueryStylists, UnderWay, Partial, WholeData
<1>5. CASE Fill(r) \/ QueryFails(r)
  BY <1>5 DEF Fill, QueryFails, Give, UnderWay
<1> QED
  BY <1>1, <1>2, <1>3, <1>4, <1>5 DEF ReaderStep

LEMMA ResetFitsStep ==
    ASSUME LoneInv, ReadVarsOK, ResetFits, [ReadNext]_allVars
    PROVE  ResetFits'
<1> SUFFICES ASSUME NEW s \in Servers, cleared'[s] = "quiet"
             PROVE  /\ LastIsWhole'
                    /\ KeepsWhole(s)'
                    /\ \A r \in Readers : at'[r] \in UnderWay /\ on'[r] = s => ~Partial(r)'
  BY DEF ResetFits, UnderWay
<1> USE DEF ReadVarsOK
<1>0. \A w \in Seeders : StageFits(w)
  BY DEF LoneInv
<1>1. CASE /\ SeedingBeside /\ Quiet(s) /\ DropsCache(s)
           /\ latest \in Seeders /\ EndsWell(latest) /\ met[latest] = {}
  <2>1. latest' = latest
    BY <1>1, SeedingGoesOn, BeginningsStay, BeginEffect DEF EndsWell, LoneInv, SeedInv
  <2>2. LastIsWhole'
    BY <1>0, <1>1, <2>1, SeedingGoesOn, OkStays DEF EndsWell, LoneInv, LastIsWhole
  <2>3. KeepsWhole(s)'
    BY <1>1 DEF SeedingBeside, DropsEntries, cacheInvalidateCompany, Empty, NoEntry, KeepsWhole
  <2>4. \A r \in Readers : at'[r] \in UnderWay => on'[r] # s
    BY <1>1 DEF SeedingBeside, Without, Quiet, UnderWay
  <2> QED
    BY <2>2, <2>3, <2>4
<1>2. CASE cleared[s] = "quiet" /\ latest' = latest
  <2>1. LastIsWhole /\ KeepsWhole(s) /\ WholeData
    BY <1>2, LastLeavesAll DEF ResetFits
  <2>2. LastIsWhole'
    BY <1>0, <1>2, <2>1, SeedingGoesOn, OkStays DEF LoneInv, LastIsWhole
  <2>3. ASSUME NEW q \in Queries, cache'[s][q].there
        PROVE  cache'[s][q].rows = Whole(q)
    <3>1. CASE cache'[s][q] = cache[s][q]
      BY <2>1, <2>3, <3>1 DEF KeepsWhole
    <3>2. CASE cache'[s][q] = NoEntry
      BY <2>3, <3>2 DEF NoEntry
    <3>3. ASSUME NEW r \in Readers, Fill(r), on[r] = s, asked[r] = q
          PROVE  cache'[s][q].rows = Whole(q)
      <4>1. at[r] = "fill" /\ ~Partial(r)
        BY <1>2, <3>3 DEF Fill, UnderWay, ResetFits
      <4>2. QED
        BY <3>3, <4>1, FillEffect, PartialRows
    <3> QED
      BY <3>1, <3>2, <3>3, EntryKinds
  <2>4. KeepsWhole(s)'
    BY <2>3 DEF KeepsWhole, Whole
  <2>5. ASSUME NEW r \in Readers, at'[r] \in UnderWay, on'[r] = s
        PROVE  ~Partial(r)'
    <3>1. at[r] \in UnderWay /\ on[r] = s => ~Partial(r)
      BY <1>2 DEF ResetFits
    <3>2. CASE ReaderStep(r)
      BY <2>1, <2>5, <3>1, <3>2, WholeReads
    <3>3. CASE /\ at'[r] = at[r] /\ on'[r] = on[r] /\ asked'[r] = asked[r]
               /\ services'[r] = services[r] /\ stylists'[r] = stylists[r]
      BY <2>5, <3>1, <3>3 DEF Partial
    <3>4. at'[r] # "failed"
      BY <2>5 DEF UnderWay
    <3> QED
      BY <3>2, <3>3, <3>4, ReadStepKinds
  <2> QED
    BY <2>2, <2>4, <2>5
<1> QED
  BY <1>1, <1>2, QuietKinds

\* After a reset with no other seeding beside it and no read under way on its
\* server when it ended, the cache of that server keeps nothing but whole
\* listings until the next seeding begins.
THEOREM ResetsAreSeen == ReadSpec => []ResetIsSeen
<1> DEFINE Inv == LoneInv /\ ReadVarsOK /\ ResetFits
<1>1. ReadInit => Inv
  <2>1. ReadInit => LoneInv /\ ReadVarsOK
    BY ReadTypeInit, LoneInvInit DEF ReadInit
  <2>2. ReadInit => ResetFits
    BY DEF ReadInit, ResetFits
  <2> QED
    BY <2>1, <2>2
<1>2. Inv /\ [ReadNext]_allVars => Inv'
  <2> SUFFICES ASSUME Inv, [ReadNext]_allVars PROVE Inv'
    OBVIOUS
  <2>1. LoneInv'
    BY LoneInvStep, SeedingGoesOn
  <2>2. ReadVarsOK'
    BY ReadTypeStep DEF LoneInv, SeedInv
  <2>3. ResetFits'
    BY ResetFitsStep
  <2> QED
    BY <2>1, <2>2, <2>3
<1>3. Inv => ResetIsSeen
  BY DEF ResetFits, ResetIsSeen
<1> QED
  BY <1>1, <1>2, <1>3, PTL DEF ReadSpec
=============================================================================

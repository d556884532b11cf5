------------------------------- MODULE ReadCache -------------------------------
(***************************************************************************)
(* GET /business, /services and /stylists (controllers/read.controller.ts) *)
(* with the cache each server keeps of their answers (lib/cache.ts), while *)
(* the data they read is seeded and reset.                                 *)
(*                                                                         *)
(* Every read is a process on one server.  Of an answer the model keeps    *)
(* which services and stylists it lists and whom it joins with whom.       *)
(***************************************************************************)
EXTENDS Seeding

CONSTANTS
    Readers,        \* the read requests
    Lifetime,       \* ttlMs
    MaxClock,       \* bound: the clock stops here
    Queries,        \* what is asked
    Performs,       \* stylist -> the services in serviceIds
    Bookable,       \* services with bookableByPhone
    WalkIn          \* services with walkInAllowed

Views == {"business", "services", "stylists"}

ASSUME QueriesAssumption ==
    /\ Queries \subseteq [view: Views, filter: {"all", "bookable"} \cup SeedKeys["services"]]
    /\ Lifetime \in Nat /\ MaxClock \in Nat
    /\ \A p \in SeedKeys["stylists"] :
          p \in DOMAIN Performs /\ Performs[p] \subseteq SeedKeys["services"]

NoEntry == [rows |-> {}, expires |-> 0, there |-> FALSE]
NoQuery == [view |-> "none", filter |-> "all"]

VARIABLES
    clock,
    cache,      \* server -> query -> entry: the Map of lib/cache.ts
    at,         \* reader -> the await it is at
    on,         \* reader -> its server
    asked,      \* reader -> its query
    services,   \* reader -> the services it read
    stylists,   \* reader -> the stylists it read
    answer,     \* reader -> the rows it was given
    hadCompany, \* history: reader -> was the company there when it came
    cleared,    \* history: server -> whether a reset here was the last seeding
                \* and had none beside it; "quiet" if no read was under way here
                \* when it ended, else "busy"
    mixedAt     \* history: when the data, or a read of it, was last not whole

readVars == <<clock, cache, at, on, asked, services, stylists, answer>>
readHistory == <<hadCompany, cleared, mixedAt>>
readerState == <<at, on, asked, services, stylists, answer, hadCompany>>
allVars == <<seedVars, readVars, readHistory>>

\* What the three views make of the services and stylists they read.
BusinessRows(svcs) == {<<s, {}>> : s \in svcs \cap WalkIn}

ServiceRows(filter, svcs, stys) ==
    {<<s, {p \in stys : s \in Performs[p]}>> :
        s \in IF filter = "bookable" THEN svcs \cap Bookable ELSE svcs}

StylistRows(filter, svcs, stys) ==
    {<<p, Performs[p] \cap svcs>> :
        p \in {p \in stys : filter = "all" \/ filter \in Performs[p]}}

View(q, svcs, stys) ==
    CASE q.view = "business" -> BusinessRows(svcs)
      [] q.view = "services" -> ServiceRows(q.filter, svcs, stys)
      [] q.view = "stylists" -> StylistRows(q.filter, svcs, stys)

Whole(q) == View(q, SeedKeys["services"], SeedKeys["stylists"])

Names == SeedKeys["services"] \cup SeedKeys["stylists"]
Rows == SUBSET (Names \X SUBSET Names)
Entries == [rows: Rows, expires: Nat, there: {TRUE}] \cup {NoEntry}

ReadTypeOK ==
    /\ SeedTypeOK
    /\ clock \in 0..MaxClock
    /\ cache \in [Servers -> [Queries -> Entries]]
    /\ at \in [Readers -> {"idle", "company", "read", "needServices", "needStylists",
                           "fill", "done", "notFound", "failed"}]
    /\ on \in [Readers -> Servers \cup {"none"}]
    /\ asked \in [Readers -> Queries \cup {NoQuery}]
    /\ services \in [Readers -> SUBSET SeedKeys["services"]]
    /\ stylists \in [Readers -> SUBSET SeedKeys["stylists"]]
    /\ answer \in [Readers -> Rows]
    /\ hadCompany \in [Readers -> BOOLEAN]
    /\ cleared \in [Servers -> {"no", "busy", "quiet"}]
    /\ mixedAt \in 0..MaxClock

ReadInit ==
    /\ SeedInit
    /\ clock = 0
    /\ cache = [s \in Servers |-> [q \in Queries |-> NoEntry]]
    /\ at = [r \in Readers |-> "idle"]
    /\ on = [r \in Readers |-> "none"]
    /\ asked = [r \in Readers |-> NoQuery]
    /\ services = [r \in Readers |-> {}]
    /\ stylists = [r \in Readers |-> {}]
    /\ answer = [r \in Readers |-> {}]
    /\ hadCompany = [r \in Readers |-> FALSE]
    /\ cleared = [s \in Servers |-> "no"]
    /\ mixedAt = 0

-----------------------------------------------------------------------------
(* lib/cache.ts                                                            *)

\* A faulty Live: an entry never gets old.
EverLive(e) == e.there

Live(e) == e.there /\ e.expires >= clock

Empty == [q \in Queries |-> NoEntry]

\* A faulty cacheInvalidateCompany: it drops the keys without a filter only.
InvalidatePlain(kept) == [q \in Queries |-> IF q.filter = "all" THEN NoEntry ELSE kept[q]]

cacheInvalidateCompany(kept) == Empty

-----------------------------------------------------------------------------
(* The read handlers                                                       *)

UnderWay == {"company", "read", "needServices", "needStylists", "fill"}

\* The response is sent; of the handler nothing is left.
Give(r, how, rows) ==
    /\ at' = [at EXCEPT ![r] = how]
    /\ answer' = [answer EXCEPT ![r] = rows]
    /\ on' = [on EXCEPT ![r] = "none"]
    /\ services' = [services EXCEPT ![r] = {}]
    /\ stylists' = [stylists EXCEPT ![r] = {}]
    /\ hadCompany' = [hadCompany EXCEPT ![r] = FALSE]

\* A hit is answered at once; an entry that is too old is dropped.
Get(r, s, q) ==
    /\ at[r] = "idle" /\ server[s] = "up"
    /\ asked' = [asked EXCEPT ![r] = q]
    /\ \/ /\ Live(cache[s][q])
          /\ Give(r, "done", cache[s][q].rows)
          /\ UNCHANGED cache
       \/ /\ ~Live(cache[s][q])
          /\ cache' = [cache EXCEPT ![s][q] = NoEntry]
          /\ at' = [at EXCEPT ![r] = "company"]
          /\ on' = [on EXCEPT ![r] = s]
          /\ hadCompany' = [hadCompany EXCEPT ![r] = HasCompany]
          /\ UNCHANGED <<services, stylists, answer>>

RequireCompany(r) ==
    /\ at[r] = "company"
    /\ \/ /\ ~HasCompany
          /\ Give(r, "notFound", {})
       \/ /\ HasCompany
          /\ at' = [at EXCEPT ![r] = IF asked[r].view = "business" THEN "needServices"
                                     ELSE "read"]
          /\ UNCHANGED <<on, services, stylists, answer, hadCompany>>
    /\ UNCHANGED <<cache, asked>>

\* A faulty There: the query is not told which collection.
EveryKey(c) == {d.key : d \in docs}

There(c) == {d.key : d \in {e \in docs : e.coll = c}}

\* The two queries of a listing run side by side.
QueryServices(r) ==
    /\ at[r] \in {"read", "needServices"}
    /\ services' = [services EXCEPT ![r] = There("services")]
    /\ at' = [at EXCEPT ![r] = IF at[r] = "read" THEN "needStylists" ELSE "fill"]
    /\ UNCHANGED <<cache, on, asked, stylists, answer, hadCompany>>

QueryStylists(r) ==
    /\ at[r] \in {"read", "needStylists"}
    /\ stylists' = [stylists EXCEPT ![r] = There("stylists")]
    /\ at' = [at EXCEPT ![r] = IF at[r] = "read" THEN "needServices" ELSE "fill"]
    /\ UNCHANGED <<cache, on, asked, services, answer, hadCompany>>

\* cacheSet and the response.
Fill(r) ==
    /\ at[r] = "fill"
    /\ LET rows == View(asked[r], services[r], stylists[r]) IN
        /\ cache' = [cache EXCEPT ![on[r]][asked[r]] =
                        [rows |-> rows, expires |-> clock + Lifetime, there |-> TRUE]]
        /\ Give(r, "done", rows)
    /\ UNCHANGED asked

\* A query fails: answer 500.
QueryFails(r) ==
    /\ at[r] \in UnderWay \ {"fill"}
    /\ Give(r, "failed", {})
    /\ UNCHANGED <<cache, asked>>

ReaderStep(r) ==
    \/ \E s \in Servers, q \in Queries : Get(r, s, q)
    \/ RequireCompany(r) \/ QueryServices(r) \/ QueryStylists(r) \/ Fill(r)
    \/ QueryFails(r)

-----------------------------------------------------------------------------
(* The system                                                              *)

EndsWell(w) == phase[w] # "ok" /\ phase'[w] = "ok"

\* postAdminSeed drops its server's entries when the seed is done; a server
\* that dies has none.
DropsCache(s) ==
    \/ \E w \in Seeders : EndsWell(w) /\ mode[w] = "reset" /\ home[w] = s
    \/ server[s] # "down" /\ server'[s] = "down"

DropsEntries(dropping) ==
    cache' = [s \in Servers |-> IF s \in dropping THEN cacheInvalidateCompany(cache[s])
                                ELSE cache[s]]

\* Reads of a server that dies get no answer.
CutOff == {r \in Readers : /\ at[r] \in UnderWay
                           /\ server[on[r]] # "down" /\ server'[on[r]] = "down"}

Quiet(s) == \A r \in Readers : at[r] \in UnderWay => on[r] # s

Cleared == [s \in Servers |->
    IF \E w \in Seeders : /\ EndsWell(w) /\ mode[w] = "reset" /\ home[w] = s
                          /\ met[w] = {} /\ latest = w
    THEN IF Quiet(s) THEN "quiet" ELSE "busy"
    ELSE IF latest' = latest THEN cleared[s] ELSE "no"]

Without(f, none) == [r \in Readers |-> IF r \in CutOff THEN none ELSE f[r]]

SeedingBeside ==
    /\ SeedStep
    /\ DropsEntries({s \in Servers : DropsCache(s)})
    /\ at' = Without(at, "failed") /\ on' = Without(on, "none")
    /\ services' = Without(services, {}) /\ stylists' = Without(stylists, {})
    /\ hadCompany' = Without(hadCompany, FALSE)
    /\ cleared' = Cleared
    /\ UNCHANGED <<clock, asked, answer>>

\* addBlock drops its server's entries too.
ClientBeside ==
    /\ \E s \in Servers, d \in ClientDocs :
        /\ ClientStores(s, d)
        /\ DropsEntries(IF d.coll = "blocks" THEN {s} ELSE {})
    /\ UNCHANGED <<clock, readerState, cleared>>

ReadBeside ==
    /\ \E r \in Readers : ReaderStep(r)
    /\ UNCHANGED <<clock, cleared, seedVars>>

Tick ==
    /\ clock < MaxClock
    /\ clock' = clock + 1
    /\ UNCHANGED <<seedVars, cache, readerState, cleared>>

WholeData == There("services") = SeedKeys["services"]
             /\ There("stylists") = SeedKeys["stylists"]

\* A read under way that has missed some of the catalogue.
Partial(r) ==
    \/ at[r] \in {"needStylists", "fill"} /\ services[r] # SeedKeys["services"]
    \/ at[r] \in {"needServices", "fill"} /\ asked[r].view # "business"
       /\ stylists[r] # SeedKeys["stylists"]

Mixed == ~WholeData \/ \E r \in Readers : Partial(r)

ReadNext ==
    /\ SeedingBeside \/ ClientBeside \/ ReadBeside \/ Tick
    /\ mixedAt' = IF Mixed' THEN clock' ELSE mixedAt

ReadSpec == ReadInit /\ [][ReadNext]_allVars

-----------------------------------------------------------------------------
(* What readers may rely on                                                *)

Answers(r, how) == at[r] # how /\ at'[r] = how

\* A reset takes everything away for a while, but never the tenant: who came
\* when the company was there is not told that it does not exist.
CompanyIsNeverLost ==
    [][\A r \in Readers : Answers(r, "notFound") => ~hadCompany[r]]_allVars

\* On whatever server: once the data is whole and nobody is left who read it
\* when it was not, half a catalogue is given out for one lifetime and no
\* longer.
PartialAnswersEnd ==
    [][\A r \in Readers : Answers(r, "done") /\ answer'[r] # Whole(asked'[r]) =>
           clock <= mixedAt + Lifetime]_allVars

\* After a reset with no other seeding beside it and no read under way on its
\* server, that server keeps nothing but whole listings until the next seeding
\* begins, whatever reads, crashes and failures there are.
KeepsWhole(s) == \A q \in Queries : cache[s][q].there => cache[s][q].rows = Whole(q)

ResetIsSeen == \A s \in Servers : cleared[s] = "quiet" => KeepsWhole(s)

\* lib/cache.ts: "Invalidated on admin writes."  The same without a word about
\* reads under way.
ResetInvalidates == \A s \in Servers : cleared[s] # "no" => KeepsWhole(s)
=============================================================================

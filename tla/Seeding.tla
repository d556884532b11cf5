-------------------------------- MODULE Seeding --------------------------------
(***************************************************************************)
(* How the salon's data gets there: seedSalon (db/seed.ts), run by the     *)
(* first boot of a server (index.ts), by POST /admin/seed, and by          *)
(* `npm run seed`, over one database and several servers.                  *)
(*                                                                         *)
(* Of a document only its identity is kept.  Companies, services and       *)
(* stylists have fixed ids, so another seed writes the same documents;     *)
(* bookings and blocks get fresh ids, so it writes others.  Each document  *)
(* is written and deleted in a call of its own, and what Promise.all       *)
(* started goes on when one of its calls has failed.                       *)
(***************************************************************************)
EXTENDS Naturals, FiniteSets

CONSTANTS
    Servers,        \* the server processes
    Seeders,        \* the runs of seedSalon, whoever starts them
    SeedKeys,       \* collection -> the entries of db/seed.ts
    ClientDocs,     \* what the other endpoints may store
    FoundSeeded,    \* may the database hold an earlier seed at the start
    SeedOnStart,    \* what SEED_ON_START may say
    MaxFailures,    \* bound: how many database calls may fail
    MaxCrashes      \* bound: how many servers may die

Stages == <<"companies", "services", "stylists", "bookings", "blocks">>
Stored == {Stages[i] : i \in DOMAIN Stages}
Collections == Stored \cup {"messages"}
FixedIds == {"companies", "services", "stylists"}

\* An earlier seed, complete and over.
Earlier == "earlier"

SeedDocs(w, c) == {[coll |-> c, key |-> k, by |-> IF c \in FixedIds THEN "seed" ELSE w] :
                       k \in SeedKeys[c]}
SeedOf(w) == UNION {SeedDocs(w, c) : c \in Stored}
Docs == ClientDocs \cup UNION {SeedOf(w) : w \in Seeders \cup {Earlier}}

Operations == [act: {"delete", "set"}, doc: Docs]
Shell == "shell"
Homes == Servers \cup {Shell}

ASSUME SeedKeysAssumption ==
    /\ \A c \in Stored : c \in DOMAIN SeedKeys
    /\ SeedKeys["companies"] # {}
    /\ "seed" \notin Seeders /\ "client" \notin Seeders /\ Earlier \notin Seeders
    /\ FoundSeeded \subseteq BOOLEAN /\ SeedOnStart \subseteq BOOLEAN
    /\ \A d \in ClientDocs : /\ d.by = "client"
                             /\ d.coll \in {"bookings", "blocks", "messages"}
    /\ Shell \notin Servers
    /\ MaxFailures \in Nat /\ MaxCrashes \in Nat

VARIABLES
    docs,       \* the database
    server,     \* server -> down, booting or up
    phase,      \* seeder -> the stage it is at
    home,       \* seeder -> the process it runs in
    mode,       \* seeder -> boot, reset or script
    unlisted,   \* seeder -> collections whose documents it has yet to list
    pending,    \* seeder -> its operations under way
    used,       \* ids already given to documents of clients
    failures, crashes,
    met,        \* history: seeder -> the seeders that were at work with it
    latest,     \* history: the seeder that began last
    before      \* history: the documents there when it began

seedVars == <<docs, server, phase, home, mode, unlisted, pending, used,
              failures, crashes, met, latest, before>>
seedHistory == <<met, latest, before>>

SeedTypeOK ==
    /\ docs \subseteq Docs
    /\ server \in [Servers -> {"down", "booting", "up"}]
    /\ phase \in [Seeders -> {"idle", "check", "reset", "ok", "skipped", "failed"} \cup Stored]
    /\ home \in [Seeders -> Homes]
    /\ mode \in [Seeders -> {"none", "boot", "reset", "script"}]
    /\ unlisted \in [Seeders -> SUBSET Collections]
    /\ pending \in [Seeders -> SUBSET Operations]
    /\ used \subseteq ClientDocs
    /\ failures \in 0..MaxFailures /\ crashes \in 0..MaxCrashes
    /\ met \in [Seeders -> SUBSET Seeders]
    /\ latest \in Seeders \cup {"none"}
    /\ before \subseteq Docs

SeedInit ==
    /\ \E found \in FoundSeeded : docs = IF found THEN SeedOf(Earlier) ELSE {}
    /\ used = {} /\ before = {}
    /\ server = [s \in Servers |-> "down"]
    /\ phase = [w \in Seeders |-> "idle"]
    /\ home = [w \in Seeders |-> Shell]
    /\ mode = [w \in Seeders |-> "none"]
    /\ unlisted = [w \in Seeders |-> {}]
    /\ pending = [w \in Seeders |-> {}]
    /\ failures = 0 /\ crashes = 0
    /\ met = [w \in Seeders |-> {}] /\ latest = "none"

-----------------------------------------------------------------------------
(* Starting                                                                *)

Running(w) == phase[w] \in {"check", "reset"} \cup Stored
AtWork(w) == Running(w) \/ unlisted[w] # {} \/ pending[w] # {}
Busy == {w \in Seeders : AtWork(w)}

HasCompany == \E d \in docs : d.coll = "companies"

\* Faulty forms of ResetCollections.
AllButBookings == Collections \ {"companies", "bookings"}
AllCollections == Collections
WithKeys == (Collections \ {"companies"}) \cup {"idempotencyKeys"}

ResetCollections == Collections \ {"companies"}

\* The seeder w starts in process h.
Begin(w, h, as, at) ==
    /\ phase[w] = "idle"
    /\ phase' = [phase EXCEPT ![w] = at]
    /\ home' = [home EXCEPT ![w] = h]
    /\ mode' = [mode EXCEPT ![w] = as]
    /\ unlisted' = [unlisted EXCEPT ![w] = IF at = "reset" THEN ResetCollections ELSE {}]
    /\ met' = [v \in Seeders |-> IF v = w THEN Busy
                                 ELSE IF v \in Busy THEN met[v] \cup {w} ELSE met[v]]
    /\ latest' = w /\ before' = docs
    /\ UNCHANGED <<docs, pending, used, failures, crashes>>

Boot(w, s) ==
    /\ TRUE \in SeedOnStart /\ server[s] = "down"
    /\ server' = [server EXCEPT ![s] = "booting"]
    /\ Begin(w, s, "boot", "check")

BootUnseeded(s) ==
    /\ FALSE \in SeedOnStart /\ server[s] = "down"
    /\ server' = [server EXCEPT ![s] = "up"]
    /\ UNCHANGED <<docs, phase, home, mode, unlisted, pending, used, failures, crashes,
                   seedHistory>>

PostAdminSeed(w, s) ==
    /\ server[s] = "up"
    /\ Begin(w, s, "reset", "reset")
    /\ UNCHANGED server

NpmRunSeed(w) ==
    /\ Begin(w, Shell, "script", "reset")
    /\ UNCHANGED server

-----------------------------------------------------------------------------
(* isSeeded and seedSalon                                                  *)

Sets(w, c) == {[act |-> "set", doc |-> d] : d \in SeedDocs(w, c)}

IsSeeded(w) ==
    /\ phase[w] = "check"
    /\ \/ /\ HasCompany
          /\ phase' = [phase EXCEPT ![w] = "skipped"]
          /\ server' = [server EXCEPT ![home[w]] = "up"]
          /\ UNCHANGED pending
       \/ /\ ~HasCompany
          /\ phase' = [phase EXCEPT ![w] = "companies"]
          /\ pending' = [pending EXCEPT ![w] = Sets(w, "companies")]
          /\ UNCHANGED server
    /\ UNCHANGED <<docs, home, mode, unlisted, used, failures, crashes, seedHistory>>

\* deleteWhereCompany lists one collection and deletes what it found.
List(w, c) ==
    /\ c \in unlisted[w]
    /\ unlisted' = [unlisted EXCEPT ![w] = @ \ {c}]
    /\ pending' = [pending EXCEPT ![w] = @ \cup
                      {[act |-> "delete", doc |-> d] : d \in {e \in docs : e.coll = c}}]
    /\ UNCHANGED <<docs, server, phase, home, mode, used, failures, crashes, seedHistory>>

Performed(op) == IF op.act = "set" THEN docs \cup {op.doc} ELSE docs \ {op.doc}

Operate(w, op) ==
    /\ op \in pending[w]
    /\ docs' = Performed(op)
    /\ pending' = [pending EXCEPT ![w] = @ \ {op}]
    /\ UNCHANGED <<server, phase, home, mode, unlisted, used, failures, crashes, seedHistory>>

\* A faulty Settled: deletes are not waited for.
AllListed(w) == unlisted[w] = {} /\ \A op \in pending[w] : op.act = "delete"

Settled(w) == unlisted[w] = {} /\ pending[w] = {}

Following(stage) == IF stage = "reset" THEN "companies"
                    ELSE LET i == CHOOSE n \in 1..5 : Stages[n] = stage IN
                         IF i = 5 THEN "ok" ELSE Stages[i + 1]

\* All calls of a stage have succeeded: on to the next, or the end.
Advance(w) ==
    /\ phase[w] \in {"reset"} \cup Stored
    /\ Settled(w)
    /\ LET next == Following(phase[w]) IN
        /\ phase' = [phase EXCEPT ![w] = next]
        /\ \/ /\ next # "ok"
              /\ pending' = [pending EXCEPT ![w] = @ \cup Sets(w, next)]
              /\ UNCHANGED server
           \/ /\ next = "ok"
              /\ server' = IF mode[w] = "boot" THEN [server EXCEPT ![home[w]] = "up"]
                           ELSE server
              /\ UNCHANGED pending
    /\ UNCHANGED <<docs, home, mode, unlisted, used, failures, crashes, seedHistory>>

-----------------------------------------------------------------------------
(* Failing                                                                 *)

\* A rejected call ends the run.  A boot and the script end their process; a
\* reset answers 500, and the calls started with the failed one go on.
Reject(w, list, ops) ==
    /\ failures < MaxFailures
    /\ failures' = failures + 1
    /\ phase' = [phase EXCEPT ![w] = "failed"]
    /\ LET goesOn == mode[w] = "reset" IN
        /\ unlisted' = [unlisted EXCEPT ![w] = IF goesOn THEN list ELSE {}]
        /\ pending' = [pending EXCEPT ![w] = IF goesOn THEN ops ELSE {}]
        /\ server' = IF mode[w] = "boot" THEN [server EXCEPT ![home[w]] = "down"] ELSE server
    /\ UNCHANGED <<home, mode, used, crashes, seedHistory>>

CheckFails(w) ==
    /\ phase[w] = "check"
    /\ Reject(w, {}, {})
    /\ UNCHANGED docs

ListFails(w, c) ==
    /\ c \in unlisted[w]
    /\ Reject(w, unlisted[w] \ {c}, pending[w])
    /\ UNCHANGED docs

\* The call had no effect, or its effect was not acknowledged.
OperationFails(w, op) ==
    /\ op \in pending[w]
    /\ Reject(w, unlisted[w], pending[w] \ {op})
    /\ docs' \in {docs, Performed(op)}

Crash(s) ==
    /\ server[s] # "down" /\ crashes < MaxCrashes
    /\ crashes' = crashes + 1
    /\ server' = [server EXCEPT ![s] = "down"]
    /\ LET Dies(w) == home[w] = s /\ AtWork(w) IN
        /\ phase' = [w \in Seeders |-> IF Dies(w) THEN "failed" ELSE phase[w]]
        /\ unlisted' = [w \in Seeders |-> IF Dies(w) THEN {} ELSE unlisted[w]]
        /\ pending' = [w \in Seeders |-> IF Dies(w) THEN {} ELSE pending[w]]
    /\ UNCHANGED <<docs, home, mode, used, failures, seedHistory>>

\* Another endpoint stores a document under a fresh id.
ClientStores(s, d) ==
    /\ server[s] = "up" /\ HasCompany
    /\ d \in ClientDocs \ used
    /\ docs' = docs \cup {d}
    /\ used' = used \cup {d}
    /\ UNCHANGED <<server, phase, home, mode, unlisted, pending, failures, crashes, seedHistory>>

SeederStep(w) ==
    \/ \E s \in Servers : Boot(w, s) \/ PostAdminSeed(w, s)
    \/ NpmRunSeed(w)
    \/ IsSeeded(w) \/ Advance(w) \/ CheckFails(w)
    \/ \E c \in Collections : List(w, c) \/ ListFails(w, c)
    \/ \E op \in pending[w] : Operate(w, op) \/ OperationFails(w, op)

SeedStep ==
    \/ \E w \in Seeders : SeederStep(w)
    \/ \E s \in Servers : BootUnseeded(s) \/ Crash(s)

SeedNext == SeedStep \/ \E s \in Servers, d \in ClientDocs : ClientStores(s, d)

SeedSpec == SeedInit /\ [][SeedNext]_seedVars

-----------------------------------------------------------------------------
(* What seeding promises                                                   *)

\* Bookings and blocks of two seeds stand side by side, every appointment
\* twice, only if the two were at work together: a restart after a crash adds
\* none, and a reset removes all there were.
SeedsDoNotMix ==
    \A d, e \in docs :
        d.by \in Seeders /\ e.by \in Seeders \cup {Earlier} /\ d.by # e.by =>
            e.by \in met[d.by]

\* A seed that ends well, had nobody beside it and was the last one leaves
\* exactly its data, and of what clients had stored before a reset nothing.
LoneSeedIsWhole ==
    \A w \in Seeders : phase[w] = "ok" /\ met[w] = {} /\ latest = w =>
        /\ {d \in docs : d.by # "client"} = SeedOf(w)
        /\ mode[w] # "boot" => docs \cap before \cap ClientDocs = {}

\* README: on first boot the database is empty, so the app seeds the salon.
\* Once a server is up and nobody is seeding, the catalogue is there.
UpMeansSeeded ==
    (\E s \in Servers : server[s] = "up") /\ Busy = {} =>
        \A c \in {"services", "stylists"} : \A k \in SeedKeys[c] :
            \E d \in docs : d.coll = c /\ d.key = k
=============================================================================

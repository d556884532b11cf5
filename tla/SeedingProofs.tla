----------------------------- MODULE SeedingProofs -----------------------------
(***************************************************************************)
(* Seeding for every number of servers and seeders, all seed data, and any *)
(* number of failures and crashes: type correctness, that the data of two  *)
(* seeds is only ever mixed by seeders that were at work together, that a  *)
(* seed with none beside it leaves exactly its data, and that without      *)
(* faults no two seeds can leave the salon without its catalogue.          *)
(***************************************************************************)
EXTENDS Seeding, TLAPS

-----------------------------------------------------------------------------
(* Type correctness                                                        *)

LEMMA StagesAre ==
    /\ Stored = {"companies", "services", "stylists", "bookings", "blocks"}
    /\ DOMAIN Stages = 1..5
    /\ \A stage \in {"reset"} \cup Stored :
          /\ Following(stage) \in Stored \cup {"ok"}
          /\ Following(stage) = "companies" => stage = "reset"
          /\ Following(stage) = "ok" => stage = "blocks"
<1>1. DOMAIN Stages = 1..5 /\ Stored = {"companies", "services", "stylists", "bookings", "blocks"}
  BY DEF Stored, Stages
<1>2. /\ Stages[1] = "companies" /\ Stages[2] = "services" /\ Stages[3] = "stylists"
      /\ Stages[4] = "bookings" /\ Stages[5] = "blocks"
  BY DEF Stages
<1>3. ASSUME NEW stage \in Stored
      PROVE  \E n \in 1..5 : /\ Stages[n] = stage
                             /\ n = CHOOSE m \in 1..5 : Stages[m] = stage
  <2>1. \E m \in 1..5 : Stages[m] = stage
    BY <1>1, <1>2
  <2> QED
    BY <2>1
<1>4. ASSUME NEW stage \in Stored
      PROVE  /\ Following(stage) \in Stored \cup {"ok"}
             /\ Following(stage) # "companies"
             /\ Following(stage) = "ok" => stage = "blocks"
  <2>1. PICK n \in 1..5 : Stages[n] = stage /\ n = CHOOSE m \in 1..5 : Stages[m] = stage
    BY <1>3
  <2>2. Following(stage) = IF n = 5 THEN "ok" ELSE Stages[n + 1]
    BY <2>1, <1>1 DEF Following
  <2> QED
    BY <2>1, <2>2, <1>1, <1>2
<1> QED
  BY <1>1, <1>4 DEF Following

LEMMA SetsAreOperations ==
    ASSUME NEW w \in Seeders, NEW c \in Stored
    PROVE  /\ Sets(w, c) \subseteq Operations
           /\ \A op \in Sets(w, c) : /\ op.act = "set" /\ op.doc.coll = c
                                     /\ op.doc.by \in {w, "seed"}
BY DEF Sets, SeedDocs, SeedOf, Docs, Operations

LEMMA CompanyIsSet ==
    ASSUME NEW w \in Seeders
    PROVE  \E op \in Sets(w, "companies") : op.act = "set" /\ op.doc.coll = "companies"
<1>1. PICK k \in SeedKeys["companies"] : TRUE
  BY SeedKeysAssumption
<1> DEFINE d == [coll |-> "companies", key |-> k, by |-> "seed"]
<1>2. d \in SeedDocs(w, "companies")
  BY <1>1 DEF SeedDocs, FixedIds
<1>3. [act |-> "set", doc |-> d] \in Sets(w, "companies")
  BY <1>2 DEF Sets
<1> QED
  BY <1>3

LEMMA DeletesAreOperations ==
    ASSUME SeedTypeOK, NEW c
    PROVE  {[act |-> "delete", doc |-> d] : d \in {e \in docs : e.coll = c}} \subseteq Operations
BY DEF SeedTypeOK, Operations

LEMMA OperationFields ==
    ASSUME NEW op \in Operations
    PROVE  op.act \in {"delete", "set"} /\ op.doc \in Docs
BY DEF Operations

LEMMA PerformedIsTyped ==
    ASSUME SeedTypeOK, NEW w \in Seeders, NEW op \in pending[w]
    PROVE  op \in Operations /\ Performed(op) \subseteq Docs
BY OperationFields DEF SeedTypeOK, Performed

LEMMA RejectIsTyped ==
    ASSUME SeedTypeOK, NEW w \in Seeders,
           NEW list \in SUBSET Collections, NEW ops \in SUBSET Operations,
           Reject(w, list, ops), docs' \subseteq Docs
    PROVE  SeedTypeOK'
<1>1. failures' \in 0..MaxFailures
  BY SeedKeysAssumption DEF SeedTypeOK, Reject
<1>2. /\ phase' \in [Seeders -> {"idle", "check", "reset", "ok", "skipped", "failed"} \cup Stored]
      /\ unlisted' \in [Seeders -> SUBSET Collections]
      /\ pending' \in [Seeders -> SUBSET Operations]
  BY DEF SeedTypeOK, Reject
<1>3. server' \in [Servers -> {"down", "booting", "up"}]
  BY DEF SeedTypeOK, Reject
<1>4. UNCHANGED <<home, mode, used, crashes, met, latest, before>>
  BY DEF Reject, seedHistory
<1> QED
  BY <1>1, <1>2, <1>3, <1>4 DEF SeedTypeOK

LEMMA BeginIsTyped ==
    ASSUME SeedTypeOK, NEW w \in Seeders, NEW h \in Homes,
           NEW as \in {"boot", "reset", "script"}, NEW at \in {"check", "reset"},
           Begin(w, h, as, at), server' \in [Servers -> {"down", "booting", "up"}]
    PROVE  SeedTypeOK'
<1>1. Busy \subseteq Seeders /\ ResetCollections \subseteq Collections
  BY DEF Busy, ResetCollections
<1> QED
  BY <1>1 DEF SeedTypeOK, Begin

LEMMA SeedTypeInit == SeedInit => SeedTypeOK
<1> SUFFICES ASSUME SeedInit PROVE SeedTypeOK
  OBVIOUS
<1>1. docs \subseteq Docs
  BY DEF SeedInit, Docs
<1> QED
  BY <1>1, SeedKeysAssumption DEF SeedInit, SeedTypeOK, Homes

LEMMA SeedTypeStep == SeedTypeOK /\ [SeedNext]_seedVars => SeedTypeOK'
<1> SUFFICES ASSUME SeedTypeOK, [SeedNext]_seedVars PROVE SeedTypeOK'
  OBVIOUS
<1> USE SeedKeysAssumption
<1>1. ASSUME NEW w \in Seeders, NEW s \in Servers, Boot(w, s) PROVE SeedTypeOK'
  BY <1>1, BeginIsTyped DEF Boot, SeedTypeOK, Homes
<1>2. ASSUME NEW w \in Seeders, NEW s \in Servers, PostAdminSeed(w, s) PROVE SeedTypeOK'
  BY <1>2, BeginIsTyped DEF PostAdminSeed, SeedTypeOK, Homes
<1>3. ASSUME NEW w \in Seeders, NpmRunSeed(w) PROVE SeedTypeOK'
  BY <1>3, BeginIsTyped DEF NpmRunSeed, SeedTypeOK, Homes
<1>4. ASSUME NEW w \in Seeders, IsSeeded(w) PROVE SeedTypeOK'
  BY <1>4, StagesAre, SetsAreOperations DEF IsSeeded, SeedTypeOK, seedHistory
<1>5. ASSUME NEW w \in Seeders, Advance(w) PROVE SeedTypeOK'
  BY <1>5, StagesAre, SetsAreOperations DEF Advance, SeedTypeOK, seedHistory
<1>6. ASSUME NEW w \in Seeders, CheckFails(w) PROVE SeedTypeOK'
  BY <1>6, RejectIsTyped DEF CheckFails, SeedTypeOK
<1>7. ASSUME NEW w \in Seeders, NEW c \in Collections, List(w, c) PROVE SeedTypeOK'
  BY <1>7, DeletesAreOperations DEF List, SeedTypeOK, seedHistory
<1>8. ASSUME NEW w \in Seeders, NEW c \in Collections, ListFails(w, c) PROVE SeedTypeOK'
  <2>1. unlisted[w] \ {c} \in SUBSET Collections /\ pending[w] \in SUBSET Operations
    BY DEF SeedTypeOK
  <2> QED
    BY <1>8, <2>1, RejectIsTyped DEF ListFails, SeedTypeOK
<1>9. ASSUME NEW w \in Seeders, NEW op \in pending[w], Operate(w, op) PROVE SeedTypeOK'
  <2>1. docs' \subseteq Docs
    BY <1>9, PerformedIsTyped DEF Operate
  <2> QED
    BY <1>9, <2>1 DEF Operate, SeedTypeOK, seedHistory
<1>10. ASSUME NEW w \in Seeders, NEW op \in pending[w], OperationFails(w, op) PROVE SeedTypeOK'
  <2>1. unlisted[w] \in SUBSET Collections /\ pending[w] \ {op} \in SUBSET Operations
    BY DEF SeedTypeOK
  <2>2. docs' \subseteq Docs
    BY <1>10, PerformedIsTyped DEF OperationFails, SeedTypeOK
  <2> QED
    BY <1>10, <2>1, <2>2, RejectIsTyped DEF OperationFails
<1>11. ASSUME NEW s \in Servers, BootUnseeded(s) PROVE SeedTypeOK'
  BY <1>11 DEF BootUnseeded, SeedTypeOK, seedHistory
<1>12. ASSUME NEW s \in Servers, Crash(s) PROVE SeedTypeOK'
  BY <1>12 DEF Crash, SeedTypeOK, seedHistory
<1>13. ASSUME NEW s \in Servers, NEW d \in ClientDocs, ClientStores(s, d) PROVE SeedTypeOK'
  BY <1>13 DEF ClientStores, SeedTypeOK, seedHistory, Docs
<1>14. CASE UNCHANGED seedVars
  BY <1>14 DEF seedVars, SeedTypeOK
<1> QED
  BY <1>1, <1>2, <1>3, <1>4, <1>5, <1>6, <1>7, <1>8, <1>9, <1>10, <1>11, <1>12, <1>13, <1>14
     DEF SeedNext, SeedStep, SeederStep

\* Every variable keeps its type, whatever fails and whoever seeds: what
\* seedSalon (db/seed.ts) writes and deletes are documents of the six
\* collections and of nothing else.
THEOREM SeedTypeCorrect == SeedSpec => []SeedTypeOK
BY SeedTypeInit, SeedTypeStep, PTL DEF SeedSpec

-----------------------------------------------------------------------------
(* Who meets whom, and what each may write                                 *)

\* Meetings are mutual, who is not yet at work has nothing to do, and those at
\* work have met.
MeetingsFit ==
    /\ \A w \in Seeders : phase[w] = "idle" => ~AtWork(w)
    /\ \A v, w \in Seeders : v \in met[w] => w \in met[v] /\ phase[v] # "idle"
    /\ \A v, w \in Seeders : v # w /\ AtWork(v) /\ AtWork(w) => v \in met[w]

\* A seeder writes under its own name or the fixed ids, and deletes no company.
WritesFit ==
    \A w \in Seeders :
        /\ "companies" \notin unlisted[w]
        /\ \A op \in pending[w] :
              /\ op.act = "set" => op.doc.by \in {w, "seed"}
              /\ op.act = "delete" => op.doc.coll # "companies"

Origins == Seeders \cup {Earlier}

\* The company is written before anything else.
CompanyFirst ==
    /\ \A d \in docs : d.by \in Origins => HasCompany
    /\ \A w \in Seeders :
          /\ phase[w] \in Stored \ {"companies"} => HasCompany
          /\ \A op \in pending[w] : op.act = "set" /\ op.doc.coll # "companies" => HasCompany
          /\ phase[w] = "companies" =>
                \/ HasCompany
                \/ \E op \in pending[w] : op.act = "set" /\ op.doc.coll = "companies"

\* What another seed left, which w has not met.
Foreign(w) == {d \in docs : d.by \in Origins \ ({w} \cup met[w])}

Writing(w) == phase[w] \in Stored \/ \E op \in pending[w] : op.act = "set"

\* A reset lists or deletes what it did not meet, before it writes.
ForeignGoes ==
    \A w \in Seeders :
        /\ phase[w] = "reset" =>
              \A d \in Foreign(w) : \/ d.coll \in unlisted[w]
                                    \/ [act |-> "delete", doc |-> d] \in pending[w]
        /\ Writing(w) => Foreign(w) = {}

\* Nothing bears the name of a seeder that has not begun.
NamesFit == \A d \in docs : d.by \in Seeders => phase[d.by] # "idle"

SeedInv == /\ SeedTypeOK /\ MeetingsFit /\ WritesFit /\ CompanyFirst
           /\ ForeignGoes /\ NamesFit /\ SeedsDoNotMix

\* The steps, sorted by what the invariant needs to know of them.
BeginStep(w) ==
    \/ \E s \in Servers : Boot(w, s) \/ PostAdminSeed(w, s)
    \/ NpmRunSeed(w)

FailStep(w) ==
    \/ CheckFails(w)
    \/ \E c \in Collections : ListFails(w, c)
    \/ \E op \in pending[w] : OperationFails(w, op)

IdleStep ==
    \/ \E s \in Servers : BootUnseeded(s) \/ \E d \in ClientDocs : ClientStores(s, d)
    \/ UNCHANGED seedVars

LEMMA StepKinds ==
    ASSUME [SeedNext]_seedVars
    PROVE  \/ \E w \in Seeders :
                \/ BeginStep(w) \/ FailStep(w) \/ IsSeeded(w) \/ Advance(w)
                \/ \E c \in Collections : List(w, c)
                \/ \E op \in pending[w] : Operate(w, op)
           \/ \E s \in Servers : Crash(s)
           \/ IdleStep
BY DEF SeedNext, SeedStep, SeederStep, BeginStep, FailStep, IdleStep

LEMMA BeginStepIs ==
    ASSUME SeedTypeOK, NEW w \in Seeders, BeginStep(w)
    PROVE  \E h \in Homes, as \in {"boot", "reset", "script"}, at \in {"check", "reset"} :
               Begin(w, h, as, at)
BY DEF BeginStep, Boot, PostAdminSeed, NpmRunSeed, Homes

LEMMA BeginEffect ==
    ASSUME SeedTypeOK, NEW w \in Seeders, BeginStep(w)
    PROVE  /\ phase[w] = "idle" /\ phase'[w] \in {"check", "reset"}
           /\ unlisted'[w] = IF phase'[w] = "reset" THEN ResetCollections ELSE {}
           /\ \A v \in Seeders \ {w} : phase'[v] = phase[v] /\ unlisted'[v] = unlisted[v]
           /\ met' = [v \in Seeders |-> IF v = w THEN Busy
                                        ELSE IF v \in Busy THEN met[v] \cup {w} ELSE met[v]]
           /\ UNCHANGED <<docs, pending>>
<1>1. PICK h \in Homes, as \in {"boot", "reset", "script"}, at \in {"check", "reset"} :
          Begin(w, h, as, at)
  BY BeginStepIs
<1> QED
  BY <1>1 DEF Begin, SeedTypeOK

\* What a failure leaves of w, and of the others.
Stops(w) ==
    /\ phase'[w] = "failed"
    /\ unlisted'[w] \subseteq unlisted[w] /\ pending'[w] \subseteq pending[w]
    /\ \A v \in Seeders \ {w} : /\ phase'[v] = phase[v] /\ unlisted'[v] = unlisted[v]
                                /\ pending'[v] = pending[v]
    /\ met' = met

LEMMA RejectStops ==
    ASSUME SeedTypeOK, NEW w \in Seeders, NEW list, NEW ops,
           list \subseteq unlisted[w], ops \subseteq pending[w], Reject(w, list, ops)
    PROVE  Stops(w)
<1>1. /\ phase' = [phase EXCEPT ![w] = "failed"]
      /\ unlisted' = [unlisted EXCEPT ![w] = IF mode[w] = "reset" THEN list ELSE {}]
      /\ pending' = [pending EXCEPT ![w] = IF mode[w] = "reset" THEN ops ELSE {}]
      /\ met' = met
  BY DEF Reject, seedHistory
<1>2. phase \in [Seeders -> {"idle", "check", "reset", "ok", "skipped", "failed"} \cup Stored]
  BY DEF SeedTypeOK
<1>3. unlisted \in [Seeders -> SUBSET Collections] /\ pending \in [Seeders -> SUBSET Operations]
  BY DEF SeedTypeOK
<1> QED
  BY <1>1, <1>2, <1>3 DEF Stops

LEMMA FailEffect ==
    ASSUME SeedTypeOK, NEW w \in Seeders, FailStep(w)
    PROVE  /\ AtWork(w) /\ Stops(w)
           /\ docs' = docs \/ \E op \in pending[w] : docs' = Performed(op)
<1>1. CASE CheckFails(w)
  BY <1>1, RejectStops DEF CheckFails, AtWork, Running
<1>2. ASSUME NEW c \in Collections, ListFails(w, c)
      PROVE  AtWork(w) /\ Stops(w) /\ docs' = docs
  BY <1>2, RejectStops DEF ListFails, AtWork
<1>3. ASSUME NEW op \in pending[w], OperationFails(w, op)
      PROVE  AtWork(w) /\ Stops(w) /\ docs' \in {docs, Performed(op)}
  BY <1>3, RejectStops DEF OperationFails, AtWork
<1> QED
  BY <1>1, <1>2, <1>3 DEF FailStep

LEMMA SeededEffect ==
    ASSUME SeedTypeOK, NEW w \in Seeders, IsSeeded(w)
    PROVE  /\ \/ HasCompany /\ phase'[w] = "skipped" /\ pending' = pending
              \/ /\ ~HasCompany /\ phase'[w] = "companies"
                 /\ pending'[w] = Sets(w, "companies")
           /\ phase[w] = "check"
           /\ \A v \in Seeders \ {w} : phase'[v] = phase[v] /\ pending'[v] = pending[v]
           /\ UNCHANGED <<docs, unlisted, met>>
BY DEF IsSeeded, SeedTypeOK, seedHistory

LEMMA AdvanceEffect ==
    ASSUME SeedTypeOK, NEW w \in Seeders, Advance(w)
    PROVE  /\ phase[w] \in {"reset"} \cup Stored
           /\ unlisted[w] = {} /\ pending[w] = {}
           /\ phase'[w] = Following(phase[w])
           /\ \/ phase'[w] \in Stored /\ pending'[w] = Sets(w, phase'[w])
              \/ phase'[w] = "ok" /\ pending'[w] = {}
           /\ \A v \in Seeders \ {w} : phase'[v] = phase[v] /\ pending'[v] = pending[v]
           /\ UNCHANGED <<docs, unlisted, met>>
<1>1. phase[w] \in {"reset"} \cup Stored /\ Settled(w)
  BY DEF Advance
<1>2. Following(phase[w]) \in Stored \cup {"ok"}
  BY <1>1, StagesAre
<1>3. phase' = [phase EXCEPT ![w] = Following(phase[w])]
  BY DEF Advance
<1>4. \/ /\ Following(phase[w]) # "ok"
         /\ pending' = [pending EXCEPT ![w] = @ \cup Sets(w, Following(phase[w]))]
      \/ Following(phase[w]) = "ok" /\ pending' = pending
  BY DEF Advance
<1>5. UNCHANGED <<docs, unlisted, met>>
  BY DEF Advance, seedHistory
<1> QED
  BY <1>1, <1>2, <1>3, <1>4, <1>5 DEF SeedTypeOK, Settled

LEMMA ListEffect ==
    ASSUME SeedTypeOK, NEW w \in Seeders, NEW c \in Collections, List(w, c)
    PROVE  /\ c \in unlisted[w] /\ unlisted'[w] = unlisted[w] \ {c}
           /\ pending'[w] = pending[w] \cup
                 {[act |-> "delete", doc |-> d] : d \in {e \in docs : e.coll = c}}
           /\ \A v \in Seeders \ {w} : unlisted'[v] = unlisted[v] /\ pending'[v] = pending[v]
           /\ UNCHANGED <<docs, phase, met>>
BY DEF List, SeedTypeOK, seedHistory

LEMMA OperateEffect ==
    ASSUME SeedTypeOK, NEW w \in Seeders, NEW op \in pending[w], Operate(w, op)
    PROVE  /\ docs' = Performed(op) /\ pending'[w] = pending[w] \ {op}
           /\ \A v \in Seeders \ {w} : pending'[v] = pending[v]
           /\ UNCHANGED <<phase, unlisted, met>>
BY DEF Operate, SeedTypeOK, seedHistory

LEMMA CrashEffect ==
    ASSUME SeedTypeOK, NEW s \in Servers, Crash(s)
    PROVE  /\ \A w \in Seeders :
                \/ /\ phase'[w] = "failed" /\ unlisted'[w] = {} /\ pending'[w] = {}
                   /\ AtWork(w)
                \/ phase'[w] = phase[w] /\ unlisted'[w] = unlisted[w] /\ pending'[w] = pending[w]
           /\ UNCHANGED <<docs, met>>
BY DEF Crash, SeedTypeOK, seedHistory

LEMMA IdleEffect ==
    ASSUME SeedTypeOK, IdleStep
    PROVE  /\ UNCHANGED <<phase, unlisted, pending, met>>
           /\ docs' = docs \/ \E d \in ClientDocs : docs' = docs \cup {d}
BY DEF IdleStep, BootUnseeded, ClientStores, seedVars, seedHistory

-----------------------------------------------------------------------------
(* Consequences of every step                                              *)

LEMMA MetGrows ==
    ASSUME SeedTypeOK, [SeedNext]_seedVars, NEW w \in Seeders
    PROVE  /\ phase[w] # "idle" => met[w] \subseteq met'[w] /\ phase'[w] # "idle"
<1>1. CASE \E v \in Seeders : BeginStep(v)
  BY <1>1, BeginEffect
<1>2. CASE \E v \in Seeders : FailStep(v)
  BY <1>2, FailEffect DEF Stops
<1>3. CASE \E v \in Seeders : IsSeeded(v)
  BY <1>3, SeededEffect
<1>4. CASE \E v \in Seeders : Advance(v)
  BY <1>4, AdvanceEffect, StagesAre
<1>5. CASE \E v \in Seeders, c \in Collections : List(v, c)
  BY <1>5, ListEffect
<1>6. CASE \E v \in Seeders : \E op \in pending[v] : Operate(v, op)
  BY <1>6, OperateEffect
<1>7. CASE \E s \in Servers : Crash(s)
  BY <1>7, CrashEffect
<1>8. CASE IdleStep
  BY <1>8, IdleEffect
<1> QED
  BY <1>1, <1>2, <1>3, <1>4, <1>5, <1>6, <1>7, <1>8, StepKinds

\* A document that was not there before is a client's, or a seeder's that
\* had a write of it under way.
LEMMA DocsGrow ==
    ASSUME SeedTypeOK, [SeedNext]_seedVars, NEW d \in docs', d \notin docs
    PROVE  \/ d \in ClientDocs
           \/ \E w \in Seeders : \E op \in pending[w] : op.act = "set" /\ op.doc = d
<1> DEFINE Written == \E w \in Seeders : \E op \in pending[w] : op.act = "set" /\ op.doc = d
<1>0. ASSUME NEW w \in Seeders, NEW op \in pending[w], docs' = Performed(op) PROVE Written
  BY <1>0 DEF Performed
<1>1. CASE \E v \in Seeders : BeginStep(v)
  BY <1>1, BeginEffect
<1>2. CASE \E v \in Seeders : FailStep(v)
  BY <1>2, <1>0, FailEffect
<1>3. CASE \E v \in Seeders : IsSeeded(v)
  BY <1>3, SeededEffect
<1>4. CASE \E v \in Seeders : Advance(v)
  BY <1>4, AdvanceEffect
<1>5. CASE \E v \in Seeders, c \in Collections : List(v, c)
  BY <1>5, ListEffect
<1>6. CASE \E v \in Seeders : \E op \in pending[v] : Operate(v, op)
  BY <1>6, <1>0, OperateEffect
<1>7. CASE \E s \in Servers : Crash(s)
  BY <1>7, CrashEffect
<1>8. CASE IdleStep
  BY <1>8, IdleEffect
<1> QED
  BY <1>1, <1>2, <1>3, <1>4, <1>5, <1>6, <1>7, <1>8, StepKinds

\* A document goes only when a delete of it was under way.
LEMMA DocsGo ==
    ASSUME SeedTypeOK, [SeedNext]_seedVars, NEW d \in docs, d \notin docs'
    PROVE  \E w \in Seeders : \E op \in pending[w] : op.act = "delete" /\ op.doc = d
<1> DEFINE Deleted == \E w \in Seeders : \E op \in pending[w] : op.act = "delete" /\ op.doc = d
<1>0. ASSUME NEW w \in Seeders, NEW op \in pending[w], docs' = Performed(op) PROVE Deleted
  <2>1. op.act \in {"delete", "set"}
    BY OperationFields DEF SeedTypeOK
  <2> QED
    BY <1>0, <2>1 DEF Performed
<1>1. CASE \E v \in Seeders : BeginStep(v)
  BY <1>1, BeginEffect
<1>2. CASE \E v \in Seeders : FailStep(v)
  BY <1>2, <1>0, FailEffect
<1>3. CASE \E v \in Seeders : IsSeeded(v)
  BY <1>3, SeededEffect
<1>4. CASE \E v \in Seeders : Advance(v)
  BY <1>4, AdvanceEffect
<1>5. CASE \E v \in Seeders, c \in Collections : List(v, c)
  BY <1>5, ListEffect
<1>6. CASE \E v \in Seeders : \E op \in pending[v] : Operate(v, op)
  BY <1>6, <1>0, OperateEffect
<1>7. CASE \E s \in Servers : Crash(s)
  BY <1>7, CrashEffect
<1>8. CASE IdleStep
  BY <1>8, IdleEffect
<1> QED
  BY <1>1, <1>2, <1>3, <1>4, <1>5, <1>6, <1>7, <1>8, StepKinds

\* The company is never deleted.
LEMMA CompanyStays ==
    ASSUME SeedTypeOK, WritesFit, [SeedNext]_seedVars, HasCompany
    PROVE  HasCompany'
BY DocsGo DEF HasCompany, WritesFit

\* Only appointments and blocks bear the name of their seed.
LEMMA OriginFacts ==
    /\ \A d \in Docs : d.by \in Origins => d.coll \in {"bookings", "blocks"}
    /\ \A d \in ClientDocs : d.by \notin Origins
    /\ "seed" \notin Origins
<1> USE SeedKeysAssumption DEF Origins, Earlier
<1>1. ASSUME NEW d \in Docs, d.by \in Origins
      PROVE  d.coll \in {"bookings", "blocks"}
  <2>1. d \notin ClientDocs
    BY <1>1
  <2>2. PICK w \in Seeders \cup {Earlier}, c \in Stored : d \in SeedDocs(w, c)
    BY <2>1 DEF Docs, SeedOf
  <2>3. d.coll = c /\ d.by = IF c \in FixedIds THEN "seed" ELSE w
    BY <2>2 DEF SeedDocs
  <2> QED
    BY <1>1, <2>3, StagesAre DEF FixedIds
<1> QED
  BY <1>1

-----------------------------------------------------------------------------
(* The invariant is kept, part by part                                     *)

LEMMA NamesKept ==
    ASSUME SeedInv, [SeedNext]_seedVars
    PROVE  NamesFit'
<1> SUFFICES ASSUME NEW d \in docs', d.by \in Seeders
             PROVE  phase'[d.by] # "idle"
  BY DEF NamesFit
<1>1. CASE d \in docs
  BY <1>1, MetGrows DEF SeedInv, NamesFit
<1>2. CASE d \notin docs
  <2>1. PICK w \in Seeders : \E op \in pending[w] : op.act = "set" /\ op.doc = d
    BY <1>2, DocsGrow, OriginFacts DEF SeedInv, Origins
  <2>2. d.by = w
    BY <2>1, OriginFacts DEF SeedInv, WritesFit, Origins
  <2>3. phase[w] # "idle"
    BY <2>1 DEF SeedInv, MeetingsFit, AtWork
  <2> QED
    BY <2>2, <2>3, MetGrows DEF SeedInv
<1> QED
  BY <1>1, <1>2

LEMMA MixKept ==
    ASSUME SeedInv, [SeedNext]_seedVars
    PROVE  SeedsDoNotMix'
<1> SUFFICES ASSUME NEW d \in docs', NEW e \in docs',
                    d.by \in Seeders, e.by \in Origins, d.by # e.by
             PROVE  e.by \in met'[d.by]
  BY DEF SeedsDoNotMix, Origins
<1>0. ASSUME NEW n \in docs', n \notin docs, n.by \in Origins
      PROVE  n.by \in Seeders /\ Writing(n.by) /\ phase[n.by] # "idle"
  <2>1. PICK w \in Seeders : \E op \in pending[w] : op.act = "set" /\ op.doc = n
    BY <1>0, DocsGrow, OriginFacts DEF SeedInv
  <2>2. n.by = w
    BY <1>0, <2>1, OriginFacts DEF SeedInv, WritesFit
  <2> QED
    BY <2>1, <2>2 DEF Writing, SeedInv, MeetingsFit, AtWork
<1>1. phase[d.by] # "idle"
  BY <1>0 DEF SeedInv, NamesFit, Origins
<1>2. SUFFICES e.by \in met[d.by]
  BY <1>1, MetGrows DEF SeedInv
<1>3. CASE d \in docs /\ e \in docs
  BY <1>3 DEF SeedInv, SeedsDoNotMix, Origins
<1>4. CASE d \notin docs /\ e \in docs
  <2>1. Foreign(d.by) = {}
    BY <1>4, <1>0 DEF SeedInv, ForeignGoes, Origins
  <2> QED
    BY <1>4, <2>1 DEF Foreign
<1>5. CASE d \in docs /\ e \notin docs
  <2>1. e.by \in Seeders /\ Foreign(e.by) = {}
    BY <1>5, <1>0 DEF SeedInv, ForeignGoes
  <2>2. d.by \in met[e.by]
    BY <1>5, <2>1 DEF Foreign, Origins
  <2> QED
    BY <2>1, <2>2 DEF SeedInv, MeetingsFit
<1>6. CASE d \notin docs /\ e \notin docs
  <2>1. PICK v \in Seeders : \E op \in pending[v] : op.act = "set" /\ op.doc = d
    BY <1>6, DocsGrow, OriginFacts DEF SeedInv, Origins
  <2>2. PICK w \in Seeders : \E op \in pending[w] : op.act = "set" /\ op.doc = e
    BY <1>6, DocsGrow, OriginFacts DEF SeedInv, Origins
  <2>3. d.by = v /\ e.by = w
    BY <2>1, <2>2, OriginFacts DEF SeedInv, WritesFit, Origins
  <2> QED
    BY <2>1, <2>2, <2>3 DEF SeedInv, MeetingsFit, AtWork
<1> QED
  BY <1>3, <1>4, <1>5, <1>6

LEMMA MeetingsKept ==
    ASSUME SeedInv, [SeedNext]_seedVars
    PROVE  MeetingsFit'
<1> USE DEF SeedInv
<1>0. ASSUME met' = met,
             \A w \in Seeders : /\ AtWork(w)' => AtWork(w)
                                /\ phase'[w] = "idle" => phase[w] = "idle"
      PROVE  MeetingsFit'
  BY <1>0 DEF MeetingsFit
<1>1. ASSUME NEW w \in Seeders, BeginStep(w) PROVE MeetingsFit'
  <2>1. \A v \in Seeders \ {w} : AtWork(v)' = AtWork(v)
    BY <1>1, BeginEffect DEF AtWork, Running
  <2>2. ~AtWork(w) /\ w \notin Busy
    BY <1>1, BeginEffect DEF MeetingsFit, Busy
  <2>3. \A v \in Seeders : w \notin met[v] /\ (v \in Busy => phase[v] # "idle")
    BY <1>1, BeginEffect DEF MeetingsFit, Busy
  <2>4. \A u, v \in Seeders : v \in met'[u] => u \in met'[v] /\ phase'[v] # "idle"
    BY <1>1, <2>2, <2>3, BeginEffect DEF MeetingsFit
  <2>5. \A u, v \in Seeders : u # v /\ AtWork(u)' /\ AtWork(v)' => u \in met'[v]
    BY <1>1, <2>1, BeginEffect DEF MeetingsFit, Busy
  <2>6. \A v \in Seeders : phase'[v] = "idle" => ~AtWork(v)'
    BY <1>1, <2>1, BeginEffect DEF MeetingsFit
  <2> QED
    BY <2>4, <2>5, <2>6 DEF MeetingsFit
<1>2. ASSUME NEW w \in Seeders, FailStep(w) PROVE MeetingsFit'
  BY <1>0, <1>2, FailEffect DEF Stops, AtWork, Running, MeetingsFit, SeedTypeOK
<1>3. ASSUME NEW w \in Seeders, IsSeeded(w) PROVE MeetingsFit'
  BY <1>0, <1>3, SeededEffect DEF AtWork, Running, MeetingsFit
<1>4. ASSUME NEW w \in Seeders, Advance(w) PROVE MeetingsFit'
  BY <1>0, <1>4, AdvanceEffect, StagesAre DEF AtWork, Running, MeetingsFit
<1>5. ASSUME NEW w \in Seeders, NEW c \in Collections, List(w, c) PROVE MeetingsFit'
  BY <1>0, <1>5, ListEffect DEF AtWork, Running, MeetingsFit
<1>6. ASSUME NEW w \in Seeders, NEW op \in pending[w], Operate(w, op) PROVE MeetingsFit'
  BY <1>0, <1>6, OperateEffect DEF AtWork, Running, MeetingsFit
<1>7. ASSUME NEW s \in Servers, Crash(s) PROVE MeetingsFit'
  BY <1>0, <1>7, CrashEffect DEF AtWork, Running, MeetingsFit
<1>8. CASE IdleStep
  BY <1>0, <1>8, IdleEffect DEF AtWork, Running, MeetingsFit
<1> QED
  BY <1>1, <1>2, <1>3, <1>4, <1>5, <1>6, <1>7, <1>8, StepKinds

LEMMA WritesKept ==
    ASSUME SeedInv, [SeedNext]_seedVars
    PROVE  WritesFit'
<1> USE DEF SeedInv
<1>0. ASSUME \A w \in Seeders : /\ unlisted'[w] \subseteq unlisted[w]
                                /\ pending'[w] \subseteq pending[w]
      PROVE  WritesFit'
  BY <1>0 DEF WritesFit
<1>1. ASSUME NEW w \in Seeders, BeginStep(w) PROVE WritesFit'
  BY <1>1, BeginEffect DEF WritesFit, ResetCollections
<1>2. ASSUME NEW w \in Seeders, FailStep(w) PROVE WritesFit'
  BY <1>0, <1>2, FailEffect DEF Stops
<1>3. ASSUME NEW w \in Seeders, IsSeeded(w) PROVE WritesFit'
  <2>1. \A op \in Sets(w, "companies") : op.act = "set" /\ op.doc.by \in {w, "seed"}
    BY SetsAreOperations, StagesAre
  <2> QED
    BY <1>3, <2>1, SeededEffect DEF WritesFit
<1>4. ASSUME NEW w \in Seeders, Advance(w) PROVE WritesFit'
  <2>1. \A op \in pending'[w] : op.act = "set" /\ op.doc.by \in {w, "seed"}
    BY <1>4, AdvanceEffect, SetsAreOperations
  <2> QED
    BY <1>4, <2>1, AdvanceEffect DEF WritesFit
<1>5. ASSUME NEW w \in Seeders, NEW c \in Collections, List(w, c) PROVE WritesFit'
  <2>1. c # "companies"
    BY <1>5, ListEffect DEF WritesFit
  <2>2. \A op \in {[act |-> "delete", doc |-> d] : d \in {e \in docs : e.coll = c}} :
            op.act = "delete" /\ op.doc.coll = c
    OBVIOUS
  <2> QED
    BY <1>5, <2>1, <2>2, ListEffect DEF WritesFit
<1>6. ASSUME NEW w \in Seeders, NEW op \in pending[w], Operate(w, op) PROVE WritesFit'
  BY <1>0, <1>6, OperateEffect
<1>7. ASSUME NEW s \in Servers, Crash(s) PROVE WritesFit'
  BY <1>0, <1>7, CrashEffect
<1>8. CASE IdleStep
  BY <1>0, <1>8, IdleEffect
<1> QED
  BY <1>1, <1>2, <1>3, <1>4, <1>5, <1>6, <1>7, <1>8, StepKinds

\* What a seeder at a stage has written or is about to.
CompanyAhead(w) ==
    /\ phase[w] \in Stored \ {"companies"} => HasCompany
    /\ \A op \in pending[w] : op.act = "set" /\ op.doc.coll # "companies" => HasCompany
    /\ phase[w] = "companies" =>
          HasCompany \/ \E op \in pending[w] : op.act = "set" /\ op.doc.coll = "companies"

LEMMA CompanyKept ==
    ASSUME SeedInv, [SeedNext]_seedVars
    PROVE  CompanyFirst'
<1> USE DEF SeedInv
<1>1. \A w \in Seeders : CompanyAhead(w)
  BY DEF CompanyFirst, CompanyAhead
<1>2. HasCompany => HasCompany'
  BY CompanyStays
<1>3. ASSUME NEW d \in docs', d.by \in Origins PROVE HasCompany'
  <2>1. CASE d \in docs
    BY <1>2, <1>3, <2>1 DEF CompanyFirst
  <2>2. CASE d \notin docs
    <3>1. PICK w \in Seeders : \E op \in pending[w] : op.act = "set" /\ op.doc = d
      BY <1>3, <2>2, DocsGrow, OriginFacts
    <3>2. d.coll # "companies"
      BY <1>3, <3>1, OriginFacts, OperationFields DEF SeedTypeOK
    <3> QED
      BY <1>1, <1>2, <3>1, <3>2 DEF CompanyAhead
  <2> QED
    BY <2>1, <2>2
<1>4. ASSUME NEW w \in Seeders,
             \/ phase'[w] = phase[w] /\ pending'[w] = pending[w]
             \/ phase'[w] \notin Stored /\ pending'[w] \subseteq pending[w]
      PROVE  CompanyAhead(w)'
  BY <1>1, <1>2, <1>4, StagesAre DEF CompanyAhead
<1>5. ASSUME NEW v \in Seeders PROVE CompanyAhead(v)'
  <2>1. ASSUME NEW w \in Seeders, BeginStep(w) PROVE CompanyAhead(v)'
    BY <1>4, <2>1, BeginEffect, StagesAre
  <2>2. ASSUME NEW w \in Seeders, FailStep(w) PROVE CompanyAhead(v)'
    BY <1>4, <2>2, FailEffect, StagesAre DEF Stops
  <2>3. ASSUME NEW w \in Seeders, IsSeeded(w) PROVE CompanyAhead(v)'
    <3>2. \E op \in Sets(w, "companies") : op.act = "set" /\ op.doc.coll = "companies"
      BY CompanyIsSet
    <3>3. \A op \in Sets(w, "companies") : op.doc.coll = "companies"
      BY SetsAreOperations, StagesAre
    <3>4. CASE v = w /\ phase'[w] = "companies"
      BY <2>3, <3>2, <3>3, <3>4, SeededEffect, StagesAre DEF CompanyAhead
    <3> QED
      BY <1>4, <2>3, <3>4, SeededEffect, StagesAre
  <2>4. ASSUME NEW w \in Seeders, Advance(w) PROVE CompanyAhead(v)'
    <3>1. CASE v = w /\ phase'[w] = "companies"
      <4>2. \E op \in Sets(w, "companies") : op.act = "set" /\ op.doc.coll = "companies"
        BY CompanyIsSet
      <4>3. \A op \in Sets(w, "companies") : op.doc.coll = "companies"
        BY SetsAreOperations, StagesAre
      <4> QED
        BY <2>4, <3>1, <4>2, <4>3, AdvanceEffect, StagesAre DEF CompanyAhead
    <3>2. CASE v = w /\ phase'[w] # "companies"
      <4>1. phase[w] \in Stored
        BY <2>4, <3>2, AdvanceEffect, StagesAre DEF Following
      <4>2. HasCompany
        BY <1>1, <2>4, <4>1, AdvanceEffect DEF CompanyAhead
      <4> QED
        BY <1>2, <3>2, <4>2 DEF CompanyAhead
    <3> QED
      BY <1>4, <2>4, <3>1, <3>2, AdvanceEffect
  <2>5. ASSUME NEW w \in Seeders, NEW c \in Collections, List(w, c) PROVE CompanyAhead(v)'
    <3>1. \A op \in pending'[v] : op \in pending[v] \/ op.act = "delete"
      BY <2>5, ListEffect
    <3>2. phase'[v] = phase[v] /\ pending[v] \subseteq pending'[v]
      BY <2>5, ListEffect
    <3> QED
      BY <1>1, <1>2, <3>1, <3>2 DEF CompanyAhead
  <2>6. ASSUME NEW w \in Seeders, NEW op \in pending[w], Operate(w, op) PROVE CompanyAhead(v)'
    <3>1. phase'[v] = phase[v] /\ pending'[v] \subseteq pending[v]
      BY <2>6, OperateEffect
    <3>2. \A o \in pending[v] : o \in pending'[v] \/ o = op
      BY <2>6, OperateEffect
    <3>3. op.act = "set" /\ op.doc.coll = "companies" => HasCompany'
      BY <2>6, OperateEffect DEF Performed, HasCompany
    <3> QED
      BY <1>1, <1>2, <3>1, <3>2, <3>3 DEF CompanyAhead
  <2>7. ASSUME NEW s \in Servers, Crash(s) PROVE CompanyAhead(v)'
    BY <1>4, <2>7, CrashEffect, StagesAre
  <2>8. CASE IdleStep
    BY <1>4, <2>8, IdleEffect
  <2> QED
    BY <2>1, <2>2, <2>3, <2>4, <2>5, <2>6, <2>7, <2>8, StepKinds
<1> QED
  BY <1>3, <1>5 DEF CompanyFirst, CompanyAhead

ForeignHandled(w) ==
    /\ phase[w] = "reset" =>
          \A d \in Foreign(w) : \/ d.coll \in unlisted[w]
                                \/ [act |-> "delete", doc |-> d] \in pending[w]
    /\ Writing(w) => Foreign(w) = {}

\* While w is at work only those it has met add to the data.
LEMMA ForeignShrinks ==
    ASSUME SeedInv, [SeedNext]_seedVars, NEW w \in Seeders, AtWork(w)
    PROVE  Foreign(w)' \subseteq Foreign(w)
<1> SUFFICES ASSUME NEW d \in docs', d.by \in Origins, d.by # w, d.by \notin met'[w]
             PROVE  d \in docs /\ d.by \notin met[w]
  BY DEF Foreign
<1>1. d.by \notin met[w]
  BY MetGrows DEF SeedInv, MeetingsFit
<1>2. ASSUME d \notin docs PROVE FALSE
  <2>1. PICK v \in Seeders : \E op \in pending[v] : op.act = "set" /\ op.doc = d
    BY <1>2, DocsGrow, OriginFacts DEF SeedInv
  <2>2. d.by = v
    BY <2>1, OriginFacts DEF SeedInv, WritesFit
  <2> QED
    BY <1>1, <2>1, <2>2 DEF SeedInv, MeetingsFit, AtWork
<1> QED
  BY <1>1, <1>2

LEMMA ForeignKept ==
    ASSUME SeedInv, [SeedNext]_seedVars
    PROVE  ForeignGoes'
<1> USE DEF SeedInv
<1> SUFFICES ASSUME NEW v \in Seeders PROVE ForeignHandled(v)'
  BY DEF ForeignGoes, ForeignHandled
<1>1. ForeignHandled(v)
  BY DEF ForeignGoes, ForeignHandled
<1>2. /\ phase[v] = "reset" => AtWork(v)
      /\ Writing(v) => AtWork(v)
  BY DEF AtWork, Running, Writing
<1>3. ASSUME phase'[v] = phase[v], unlisted'[v] = unlisted[v], pending'[v] = pending[v]
      PROVE  ForeignHandled(v)'
  <2>1. Writing(v)' = Writing(v)
    BY <1>3 DEF Writing
  <2> QED
    BY <1>1, <1>2, <1>3, <2>1, ForeignShrinks DEF ForeignHandled
<1>4. ASSUME phase'[v] \notin {"reset"} \cup Stored, pending'[v] \subseteq pending[v]
      PROVE  ForeignHandled(v)'
  <2>1. Writing(v)' => Writing(v)
    BY <1>4 DEF Writing
  <2> QED
    BY <1>1, <1>2, <1>4, <2>1, ForeignShrinks DEF ForeignHandled
<1>5. ASSUME phase'[v] \in Stored, AtWork(v), Foreign(v) = {}
      PROVE  ForeignHandled(v)'
  BY <1>5, ForeignShrinks, StagesAre DEF ForeignHandled
<1>6. ASSUME NEW w \in Seeders, BeginStep(w) PROVE ForeignHandled(v)'
  <2>1. CASE v # w
    BY <1>3, <1>6, <2>1, BeginEffect
  <2>2. CASE v = w
    <3>1. pending'[v] = {} /\ phase'[v] \notin Stored
      BY <1>6, <2>2, BeginEffect, StagesAre DEF MeetingsFit, AtWork
    <3>2. ~Writing(v)'
      BY <3>1 DEF Writing
    <3>3. \A d \in Foreign(v)' : d.coll \in {"bookings", "blocks"}
      BY <1>6, BeginEffect, OriginFacts DEF Foreign, SeedTypeOK
    <3>4. phase'[v] = "reset" => \A d \in Foreign(v)' : d.coll \in unlisted'[v]
      BY <1>6, <2>2, <3>3, BeginEffect, StagesAre DEF ResetCollections, Collections
    <3> QED
      BY <3>2, <3>4 DEF ForeignHandled
  <2> QED
    BY <2>1, <2>2
<1>7. ASSUME NEW w \in Seeders, FailStep(w) PROVE ForeignHandled(v)'
  BY <1>3, <1>4, <1>7, FailEffect, StagesAre DEF Stops
<1>8. ASSUME NEW w \in Seeders, IsSeeded(w) PROVE ForeignHandled(v)'
  <2>1. CASE v = w /\ phase'[w] = "companies"
    <3>1. ~HasCompany /\ AtWork(v)
      BY <1>8, <2>1, SeededEffect DEF AtWork, Running
    <3>2. Foreign(v) = {}
      BY <3>1 DEF CompanyFirst, Foreign
    <3> QED
      BY <1>5, <2>1, <3>1, <3>2, StagesAre
  <2> QED
    BY <1>3, <1>4, <1>8, <2>1, SeededEffect, StagesAre
<1>9. ASSUME NEW w \in Seeders, Advance(w) PROVE ForeignHandled(v)'
  <2>1. CASE v = w /\ phase'[w] \in Stored
    <3>1. AtWork(v) /\ Foreign(v) = {}
      BY <1>1, <1>9, <2>1, AdvanceEffect DEF ForeignHandled, Writing, AtWork, Running
    <3> QED
      BY <1>5, <2>1, <3>1
  <2>2. CASE v = w /\ phase'[w] = "ok"
    BY <1>4, <1>9, <2>2, AdvanceEffect, StagesAre
  <2> QED
    BY <1>3, <1>9, <2>1, <2>2, AdvanceEffect
<1>10. ASSUME NEW w \in Seeders, NEW c \in Collections, List(w, c) PROVE ForeignHandled(v)'
  <2>1. CASE v = w
    <3>1. Writing(v)' => Writing(v)
      BY <1>10, <2>1, ListEffect DEF Writing
    <3>2. \A d \in docs : d.coll = c => [act |-> "delete", doc |-> d] \in pending'[v]
      BY <1>10, <2>1, ListEffect
    <3>3. Foreign(v)' \subseteq docs /\ phase'[v] = phase[v]
      BY <1>10, ListEffect DEF Foreign
    <3>4. pending[v] \subseteq pending'[v] /\ unlisted'[v] = unlisted[v] \ {c}
      BY <1>10, <2>1, ListEffect
    <3> QED
      BY <1>1, <1>2, <3>1, <3>2, <3>3, <3>4, ForeignShrinks DEF ForeignHandled
  <2> QED
    BY <1>3, <1>10, <2>1, ListEffect
<1>11. ASSUME NEW w \in Seeders, NEW op \in pending[w], Operate(w, op) PROVE ForeignHandled(v)'
  <2>1. CASE v = w
    <3>1. Writing(v)' => Writing(v)
      BY <1>11, <2>1, OperateEffect DEF Writing
    <3>2. \A d : op = [act |-> "delete", doc |-> d] => d \notin docs'
      BY <1>11, OperateEffect DEF Performed
    <3>3. Foreign(v)' \subseteq docs' /\ phase'[v] = phase[v] /\ unlisted'[v] = unlisted[v]
      BY <1>11, OperateEffect DEF Foreign
    <3>4. pending'[v] = pending[v] \ {op}
      BY <1>11, <2>1, OperateEffect
    <3> QED
      BY <1>1, <1>2, <3>1, <3>2, <3>3, <3>4, ForeignShrinks DEF ForeignHandled
  <2> QED
    BY <1>3, <1>11, <2>1, OperateEffect
<1>12. ASSUME NEW s \in Servers, Crash(s) PROVE ForeignHandled(v)'
  BY <1>3, <1>4, <1>12, CrashEffect, StagesAre
<1>13. CASE IdleStep
  BY <1>3, <1>13, IdleEffect
<1> QED
  BY <1>6, <1>7, <1>8, <1>9, <1>10, <1>11, <1>12, <1>13, StepKinds

LEMMA SeedInvInit == SeedInit => SeedInv
<1> SUFFICES ASSUME SeedInit PROVE SeedInv
  OBVIOUS
<1>1. \A d \in docs : d \in SeedOf(Earlier)
  BY DEF SeedInit
<1>2. \A d \in docs : d.by \notin Seeders
  BY <1>1, SeedKeysAssumption DEF SeedOf, SeedDocs
<1>3. ASSUME NEW d \in docs PROVE HasCompany
  <2>1. docs = SeedOf(Earlier)
    BY <1>3 DEF SeedInit
  <2>2. PICK k \in SeedKeys["companies"] : TRUE
    BY SeedKeysAssumption
  <2>3. [coll |-> "companies", key |-> k, by |-> "seed"] \in SeedDocs(Earlier, "companies")
    BY <2>2 DEF SeedDocs, FixedIds
  <2>4. [coll |-> "companies", key |-> k, by |-> "seed"] \in docs
    BY <2>1, <2>3, StagesAre DEF SeedOf
  <2> QED
    BY <2>4 DEF HasCompany
<1>4. SeedTypeOK
  BY SeedTypeInit
<1>5. MeetingsFit /\ WritesFit
  BY StagesAre DEF SeedInit, MeetingsFit, WritesFit, AtWork, Running
<1>6. CompanyFirst
  BY <1>3, StagesAre DEF SeedInit, CompanyFirst
<1>7. ForeignGoes
  BY StagesAre DEF SeedInit, ForeignGoes, Writing
<1>8. NamesFit /\ SeedsDoNotMix
  BY <1>2 DEF NamesFit, SeedsDoNotMix
<1> QED
  BY <1>4, <1>5, <1>6, <1>7, <1>8 DEF SeedInv

LEMMA SeedInvStep == SeedInv /\ [SeedNext]_seedVars => SeedInv'
<1> SUFFICES ASSUME SeedInv, [SeedNext]_seedVars PROVE SeedInv'
  OBVIOUS
<1>1. SeedTypeOK'
  BY SeedTypeStep DEF SeedInv
<1> QED
  BY <1>1, MeetingsKept, WritesKept, CompanyKept, ForeignKept, NamesKept, MixKept DEF SeedInv

\* Appointments and blocks of two runs of seedSalon (db/seed.ts) stand side by
\* side only if the two were at work together, however many servers boot, reset,
\* fail and die, in whatever order.
THEOREM SeedsApart == SeedSpec => []SeedsDoNotMix
<1>1. SeedInv => SeedsDoNotMix
  BY DEF SeedInv
<1> QED
  BY <1>1, SeedInvInit, SeedInvStep, PTL DEF SeedSpec

-----------------------------------------------------------------------------
(* A seed with none beside it                                              *)

\* w began last, and met nobody.
Alone(w) == latest = w /\ met[w] = {} /\ phase[w] # "idle"

\* What a seeder at some stage has written already.
Behind(stage) == CASE stage = "companies" -> {}
                   [] stage = "services" -> {"companies"}
                   [] stage = "stylists" -> {"companies", "services"}
                   [] stage = "bookings" -> {"companies", "services", "stylists"}
                   [] stage = "blocks" -> {"companies", "services", "stylists", "bookings"}
                   [] stage = "ok" -> Stored

\* The operations of a stage are its own.
StageFits(w) ==
    /\ phase[w] \in Stored => unlisted[w] = {} /\ pending[w] \subseteq Sets(w, phase[w])
    /\ phase[w] \in {"ok", "check"} => unlisted[w] = {} /\ pending[w] = {}
    /\ phase[w] = "check" => mode[w] = "boot"

\* Fresh ids are fresh.
UsedFits == docs \cap ClientDocs \subseteq used /\ before \cap ClientDocs \subseteq used

WrittenSoFar(w) ==
    /\ phase[w] \in Stored \cup {"ok"} => \A c \in Behind(phase[w]) : SeedDocs(w, c) \subseteq docs
    /\ phase[w] \in Stored =>
          \A d \in SeedDocs(w, phase[w]) : d \in docs \/ [act |-> "set", doc |-> d] \in pending[w]

Left(w) == docs \cap before \cap ClientDocs

ClientsGo(w) ==
    mode[w] # "boot" =>
        /\ phase[w] = "reset" =>
              \A d \in Left(w) : \/ d.coll \in unlisted[w]
                                 \/ [act |-> "delete", doc |-> d] \in pending[w]
        /\ phase[w] \in Stored \cup {"ok"} => Left(w) = {}

AloneFits(w) ==
    Alone(w) =>
        /\ \A v \in Seeders \ {w} : ~AtWork(v)
        /\ WrittenSoFar(w)
        /\ phase[w] \in Stored \cup {"ok"} => Foreign(w) = {}
        /\ ClientsGo(w)

LoneInv == SeedInv /\ UsedFits /\ \A w \in Seeders : StageFits(w) /\ AloneFits(w)

LEMMA FollowingIs ==
    /\ Following("reset") = "companies" /\ Following("companies") = "services"
    /\ Following("services") = "stylists" /\ Following("stylists") = "bookings"
    /\ Following("bookings") = "blocks" /\ Following("blocks") = "ok"
<1>1. /\ Stages[1] = "companies" /\ Stages[2] = "services" /\ Stages[3] = "stylists"
      /\ Stages[4] = "bookings" /\ Stages[5] = "blocks"
  BY DEF Stages
<1>2. ASSUME NEW n \in 1..5
      PROVE  Following(Stages[n]) = IF n = 5 THEN "ok" ELSE Stages[n + 1]
  <2>1. n = CHOOSE m \in 1..5 : Stages[m] = Stages[n]
    <3>1. \A m \in 1..5 : Stages[m] = Stages[n] => m = n
      BY <1>1
    <3>2. QED
      BY <3>1
  <2>2. Stages[n] # "reset"
    BY <1>1
  <2>3. QED
    BY <2>1, <2>2 DEF Following
<1>3. QED
  BY <1>1, <1>2 DEF Following

LEMMA BehindGrows ==
    ASSUME NEW stage \in {"reset"} \cup Stored
    PROVE  /\ Behind(Following(stage)) = IF stage = "reset" THEN {} ELSE Behind(stage) \cup {stage}
           /\ Behind(stage) \subseteq Stored \/ stage = "reset"
BY FollowingIs, StagesAre DEF Behind

\* Beginning aside, nobody rewrites when and how a seeder began.
LEMMA BeginningsStay ==
    ASSUME SeedInv, [SeedNext]_seedVars, NEW w \in Seeders
    PROVE  \/ BeginStep(w)
           \/ \E v \in Seeders \ {w} : BeginStep(v) /\ latest' = v
           \/ /\ latest' = latest /\ before' = before /\ mode' = mode
              /\ phase[w] = "idle" => phase'[w] = "idle"
<1> USE DEF SeedInv
<1>1. ASSUME NEW v \in Seeders, BeginStep(v) PROVE latest' = v
  BY <1>1 DEF BeginStep, Boot, PostAdminSeed, NpmRunSeed, Begin
<1>2. ASSUME NEW v \in Seeders, FailStep(v)
      PROVE  latest' = latest /\ before' = before /\ mode' = mode /\ (phase[w] = "idle" => phase'[w] = "idle")
  <2>1. UNCHANGED <<latest, before, mode>>
    BY <1>2 DEF FailStep, CheckFails, ListFails, OperationFails, Reject, seedHistory
  <2>2. phase[v] # "idle"
    BY <1>2, FailEffect DEF MeetingsFit
  <2>3. QED
    BY <1>2, <2>1, <2>2, FailEffect DEF Stops
<1>3. ASSUME NEW v \in Seeders, IsSeeded(v) \/ Advance(v)
      PROVE  latest' = latest /\ before' = before /\ mode' = mode /\ (phase[w] = "idle" => phase'[w] = "idle")
  <2>1. UNCHANGED <<latest, before, mode>>
    BY <1>3 DEF IsSeeded, Advance, seedHistory
  <2>2. QED
    BY <1>3, <2>1, SeededEffect, AdvanceEffect, StagesAre
<1>4. ASSUME NEW v \in Seeders,
             (\E c \in Collections : List(v, c)) \/ \E op \in pending[v] : Operate(v, op)
      PROVE  UNCHANGED <<latest, before, mode, phase>>
  BY <1>4 DEF List, Operate, seedHistory
<1>5. ASSUME NEW s \in Servers, Crash(s)
      PROVE  latest' = latest /\ before' = before /\ mode' = mode /\ (phase[w] = "idle" => phase'[w] = "idle")
  <2>1. UNCHANGED <<latest, before, mode>>
    BY <1>5 DEF Crash, seedHistory
  <2>2. QED
    BY <1>5, <2>1, CrashEffect DEF MeetingsFit
<1>6. CASE IdleStep
  BY <1>6 DEF IdleStep, BootUnseeded, ClientStores, seedHistory, seedVars
<1> QED
  BY <1>1, <1>2, <1>3, <1>4, <1>5, <1>6, StepKinds

LEMMA AloneBefore ==
    ASSUME SeedInv, [SeedNext]_seedVars, NEW w \in Seeders, Alone(w)'
    PROVE  BeginStep(w) \/ (Alone(w) /\ before' = before /\ mode' = mode)
<1>1. CASE \E v \in Seeders \ {w} : latest' = v
  BY <1>1 DEF Alone
<1>2. CASE /\ latest' = latest /\ before' = before /\ mode' = mode
           /\ phase[w] = "idle" => phase'[w] = "idle"
  BY <1>2, MetGrows DEF Alone, SeedInv
<1> QED
  BY <1>1, <1>2, BeginningsStay

\* A client's document comes with a fresh id, and a seeder writes none.
LEMMA ClientDocsAreStored ==
    ASSUME SeedInv, [SeedNext]_seedVars, NEW d \in docs' \cap ClientDocs, d \notin docs
    PROVE  d \notin used /\ d \in used' /\ latest' = latest
<1> USE DEF SeedInv
<1>1. ASSUME NEW w \in Seeders, NEW op \in pending[w], op.act = "set" PROVE op.doc # d
  <2>1. op.doc.by \in {w, "seed"}
    BY <1>1 DEF WritesFit
  <2>2. d.by = "client" /\ "seed" # "client" /\ w # "client"
    BY SeedKeysAssumption
  <2>3. QED
    BY <2>1, <2>2
<1>2. ASSUME NEW w \in Seeders, NEW op \in pending[w], docs' = Performed(op) PROVE FALSE
  BY <1>1, <1>2 DEF Performed
<1>3. ASSUME NEW w \in Seeders,
             \/ BeginStep(w) \/ FailStep(w) \/ IsSeeded(w) \/ Advance(w)
             \/ \E c \in Collections : List(w, c)
             \/ \E op \in pending[w] : Operate(w, op)
      PROVE  FALSE
  BY <1>2, <1>3, BeginEffect, FailEffect, SeededEffect, AdvanceEffect, ListEffect, OperateEffect
<1>4. ASSUME NEW s \in Servers, Crash(s) PROVE FALSE
  BY <1>4, CrashEffect
<1>5. CASE IdleStep
  <2>1. PICK s \in Servers, e \in ClientDocs : ClientStores(s, e)
    BY <1>5 DEF IdleStep, BootUnseeded, seedVars
  <2>2. QED
    BY <2>1 DEF ClientStores, seedHistory
<1> QED
  BY <1>3, <1>4, <1>5, StepKinds

LEMMA UsedKept ==
    ASSUME SeedInv, UsedFits, [SeedNext]_seedVars
    PROVE  UsedFits'
<1>1. used \subseteq used'
  BY DEF SeedNext, SeedStep, SeederStep, Boot, PostAdminSeed, NpmRunSeed, Begin, IsSeeded, Advance,
     CheckFails, List, ListFails, Operate, OperationFails, Reject, BootUnseeded, Crash, ClientStores,
     seedVars
<1>2. docs' \cap ClientDocs \subseteq used'
  BY <1>1, ClientDocsAreStored DEF UsedFits
<1>3. before' \cap ClientDocs \subseteq used'
  <2>1. before' \in {before, docs}
    BY DEF SeedNext, SeedStep, SeederStep, Boot, PostAdminSeed, NpmRunSeed, Begin, IsSeeded, Advance,
       CheckFails, List, ListFails, Operate, OperationFails, Reject, BootUnseeded, Crash,
       ClientStores, seedVars, seedHistory
  <2>2. QED
    BY <1>1, <2>1 DEF UsedFits
<1> QED
  BY <1>2, <1>3 DEF UsedFits

LEMMA StageKept ==
    ASSUME SeedInv, [SeedNext]_seedVars, NEW w \in Seeders, StageFits(w)
    PROVE  StageFits(w)'
<1> USE DEF SeedInv
<1>1. ASSUME phase'[w] = phase[w], mode'[w] = mode[w],
             unlisted'[w] \subseteq unlisted[w], pending'[w] \subseteq pending[w]
      PROVE  StageFits(w)'
  BY <1>1 DEF StageFits, Sets
<1>2. ASSUME NEW v \in Seeders \ {w}, BeginStep(v) PROVE StageFits(w)'
  <2>1. mode'[w] = mode[w]
    BY <1>2 DEF BeginStep, Boot, PostAdminSeed, NpmRunSeed, Begin, SeedTypeOK
  <2>2. QED
    BY <1>1, <1>2, <2>1, BeginEffect
<1>3. CASE BeginStep(w)
  <2>1. phase'[w] = "check" => mode'[w] = "boot"
    BY <1>3 DEF BeginStep, Boot, PostAdminSeed, NpmRunSeed, Begin, SeedTypeOK
  <2>2. phase'[w] \in {"check", "reset"} /\ pending' = pending /\ pending[w] = {}
    BY <1>3, BeginEffect DEF MeetingsFit, AtWork
  <2>3. phase'[w] = "check" => unlisted'[w] = {}
    BY <1>3, BeginEffect
  <2>4. QED
    BY <2>1, <2>2, <2>3, StagesAre DEF StageFits
<1>4. CASE ~BeginStep(w) /\ \A v \in Seeders \ {w} : ~BeginStep(v)
  <2>1. mode' = mode
    BY <1>4, BeginningsStay
  <2>2. ASSUME NEW v \in Seeders, FailStep(v) PROVE StageFits(w)'
    <3>1. CASE v = w
      <4>1. phase'[w] = "failed"
        BY <2>2, <3>1, FailEffect DEF Stops
      <4>2. QED
        BY <4>1, StagesAre DEF StageFits
    <3>2. CASE v # w
      BY <1>1, <2>1, <2>2, <3>2, FailEffect DEF Stops
    <3> QED
      BY <3>1, <3>2
  <2>3. ASSUME NEW v \in Seeders, IsSeeded(v) PROVE StageFits(w)'
    <3>1. CASE v = w
      BY <2>3, <3>1, SeededEffect, StagesAre DEF StageFits
    <3>2. CASE v # w
      BY <1>1, <2>1, <2>3, <3>2, SeededEffect
    <3> QED
      BY <3>1, <3>2
  <2>4. ASSUME NEW v \in Seeders, Advance(v) PROVE StageFits(w)'
    <3>1. CASE v = w
      BY <2>4, <3>1, AdvanceEffect, StagesAre DEF StageFits
    <3>2. CASE v # w
      BY <1>1, <2>1, <2>4, <3>2, AdvanceEffect
    <3> QED
      BY <3>1, <3>2
  <2>5. ASSUME NEW v \in Seeders, NEW c \in Collections, List(v, c) PROVE StageFits(w)'
    <3>1. CASE v = w
      <4>1. phase'[w] = phase[w] /\ unlisted[w] # {}
        BY <2>5, <3>1, ListEffect
      <4>2. QED
        BY <4>1 DEF StageFits
    <3>2. CASE v # w
      BY <1>1, <2>1, <2>5, <3>2, ListEffect
    <3> QED
      BY <3>1, <3>2
  <2>6. ASSUME NEW v \in Seeders, NEW op \in pending[v], Operate(v, op) PROVE StageFits(w)'
    <3>1. pending'[w] \subseteq pending[w]
      BY <2>6, OperateEffect
    <3>2. QED
      BY <1>1, <2>1, <2>6, <3>1, OperateEffect
  <2>7. ASSUME NEW s \in Servers, Crash(s) PROVE StageFits(w)'
    <3>1. CASE phase'[w] = "failed"
      BY <3>1, StagesAre DEF StageFits
    <3>2. CASE phase'[w] # "failed"
      BY <1>1, <2>1, <2>7, <3>2, CrashEffect
    <3> QED
      BY <3>1, <3>2
  <2>8. CASE IdleStep
    BY <1>1, <2>1, <2>8, IdleEffect
  <2> QED
    BY <1>4, <2>2, <2>3, <2>4, <2>5, <2>6, <2>7, <2>8, StepKinds
<1> QED
  BY <1>2, <1>3, <1>4

\* What the steps of others leave alone while w is alone.
LEMMA AloneIsAlone ==
    ASSUME LoneInv, [SeedNext]_seedVars, NEW w \in Seeders, Alone(w)', ~BeginStep(w)
    PROVE  /\ Alone(w) /\ before' = before /\ mode' = mode
           /\ \A v \in Seeders \ {w} : ~AtWork(v) /\ ~AtWork(v)'
           /\ \A v \in Seeders : \A op \in pending[v] : v = w
<1> USE DEF LoneInv, SeedInv
<1>1. Alone(w) /\ before' = before /\ mode' = mode
  BY AloneBefore
<1>2. \A v \in Seeders \ {w} : ~AtWork(v)
  BY <1>1 DEF AloneFits
<1>3. ASSUME NEW v \in Seeders \ {w}, AtWork(v)' PROVE FALSE
  <2>1. ~BeginStep(v)
    <3>1. BeginStep(v) => latest' = v
      BY DEF BeginStep, Boot, PostAdminSeed, NpmRunSeed, Begin
    <3>2. QED
      BY <3>1 DEF Alone
  <2>2. phase[v] \notin {"check", "reset"} \cup Stored /\ unlisted[v] = {} /\ pending[v] = {}
    BY <1>2 DEF AtWork, Running
  <2>3. phase'[v] = phase[v] /\ unlisted'[v] = unlisted[v] /\ pending'[v] = pending[v]
    <3>1. ASSUME NEW u \in Seeders \ {v}, BeginStep(u) \/ FailStep(u) \/ IsSeeded(u) \/ Advance(u)
                   \/ (\E c \in Collections : List(u, c)) \/ \E op \in pending[u] : Operate(u, op)
          PROVE  phase'[v] = phase[v] /\ unlisted'[v] = unlisted[v] /\ pending'[v] = pending[v]
      BY <3>1, BeginEffect, FailEffect, SeededEffect, AdvanceEffect, ListEffect, OperateEffect DEF Stops
    <3>2. ~FailStep(v) /\ ~IsSeeded(v) /\ ~Advance(v) /\ ~(\E c \in Collections : List(v, c))
            /\ ~\E op \in pending[v] : Operate(v, op)
      BY <1>2, <2>2, FailEffect, SeededEffect, AdvanceEffect, ListEffect
    <3>3. ASSUME NEW s \in Servers, Crash(s)
          PROVE  phase'[v] = phase[v] /\ unlisted'[v] = unlisted[v] /\ pending'[v] = pending[v]
      BY <1>2, <3>3, CrashEffect
    <3>4. QED
      BY <2>1, <3>1, <3>2, <3>3, IdleEffect, StepKinds
  <2>4. QED
    BY <1>3, <2>2, <2>3 DEF AtWork, Running
<1>4. \A v \in Seeders : \A op \in pending[v] : v = w
  BY <1>2 DEF AtWork
<1> QED
  BY <1>1, <1>2, <1>3, <1>4

\* Nobody seeds beside w.
Unaccompanied(w) == \A v \in Seeders \ {w} : ~AtWork(v)

AloneStep(w) ==
    /\ WrittenSoFar(w)
    /\ phase[w] \in Stored \cup {"ok"} => Foreign(w) = {}
    /\ ClientsGo(w)

LEMMA BeginsAlone ==
    ASSUME LoneInv, [SeedNext]_seedVars, NEW w \in Seeders, Alone(w)', BeginStep(w)
    PROVE  Unaccompanied(w)' /\ AloneStep(w)'
<1> USE DEF LoneInv, SeedInv
<1>1. phase'[w] \in {"check", "reset"} /\ docs' = docs
  BY BeginEffect
<1>2. Unaccompanied(w)'
  <2>1. Busy = {}
    BY BeginEffect DEF Alone, SeedTypeOK
  <2>2. \A v \in Seeders \ {w} : phase'[v] = phase[v] /\ unlisted'[v] = unlisted[v]
                               /\ pending'[v] = pending[v]
    BY BeginEffect
  <2>3. QED
    BY <2>1, <2>2 DEF Unaccompanied, Busy, AtWork, Running
<1>3. WrittenSoFar(w)' /\ phase'[w] \notin Stored \cup {"ok"}
  BY <1>1, StagesAre DEF WrittenSoFar
<1>4. ClientsGo(w)'
  <2>1. phase'[w] = "reset" => \A d \in ClientDocs : d.coll \in unlisted'[w]
    BY BeginEffect, SeedKeysAssumption, StagesAre DEF ResetCollections, Collections
  <2>2. QED
    BY <1>3, <2>1 DEF ClientsGo, Left
<1>5. QED
  BY <1>2, <1>3, <1>4 DEF AloneStep

\* A step that changes neither stage nor operations, and of the documents only
\* what a client adds.
LEMMA NothingForAlone ==
    ASSUME LoneInv, [SeedNext]_seedVars, NEW w \in Seeders, AloneFits(w), Alone(w), Alone(w)',
           before' = before, mode' = mode,
           phase'[w] = phase[w], unlisted'[w] = unlisted[w], pending'[w] = pending[w],
           docs \subseteq docs', docs' \ docs \subseteq ClientDocs
    PROVE  AloneStep(w)'
<1> USE DEF LoneInv, SeedInv, AloneFits
<1>1. WrittenSoFar(w)'
  BY DEF WrittenSoFar, SeedDocs
<1>2. Foreign(w)' \subseteq Foreign(w)
  BY OriginFacts DEF Foreign, Alone
<1>3. Left(w)' = Left(w)
  BY ClientDocsAreStored DEF Left, UsedFits
<1>4. ClientsGo(w)'
  BY <1>3 DEF ClientsGo
<1>5. QED
  BY <1>1, <1>2, <1>4 DEF AloneStep

LEMMA AdvancesAlone ==
    ASSUME LoneInv, [SeedNext]_seedVars, NEW w \in Seeders, Alone(w), Alone(w)',
           before' = before, mode' = mode, Advance(w)
    PROVE  AloneStep(w)'
<1> USE DEF LoneInv, SeedInv, AloneFits
<1>1. /\ phase[w] \in {"reset"} \cup Stored /\ unlisted[w] = {} /\ pending[w] = {}
      /\ phase'[w] = Following(phase[w]) /\ docs' = docs
      /\ phase'[w] \in Stored => pending'[w] = Sets(w, phase'[w])
      /\ phase'[w] \in Stored \cup {"ok"}
  BY AdvanceEffect, StagesAre
<1>2. WrittenSoFar(w)'
  <2>1. phase[w] # "reset" => \A c \in Behind(phase[w]) \cup {phase[w]} : SeedDocs(w, c) \subseteq docs
    BY <1>1 DEF WrittenSoFar
  <2>2. \A c \in Behind(phase'[w]) : SeedDocs(w, c) \subseteq docs
    BY <1>1, <2>1, BehindGrows
  <2>3. phase'[w] \in Stored =>
          \A d \in SeedDocs(w, phase'[w]) : [act |-> "set", doc |-> d] \in pending'[w]
    BY <1>1 DEF Sets
  <2>4. QED
    BY <1>1, <2>2, <2>3 DEF WrittenSoFar, SeedDocs
<1>3. Foreign(w)' = {}
  <2>1. CASE phase'[w] \in Stored
    BY <2>1, SeedInvStep DEF ForeignGoes, Writing
  <2>2. CASE phase'[w] = "ok"
    <3>1. phase[w] = "blocks"
      BY <1>1, <2>2, StagesAre
    <3>2. QED
      BY <1>1, <3>1, StagesAre DEF Foreign, Alone
  <2>3. QED
    BY <1>1, <2>1, <2>2
<1>4. ClientsGo(w)'
  <2>1. mode[w] # "boot" => Left(w) = {}
    BY <1>1 DEF ClientsGo
  <2>2. Left(w)' = Left(w)
    BY <1>1 DEF Left
  <2>3. QED
    BY <1>1, <2>1, <2>2, StagesAre DEF ClientsGo
<1>5. QED
  BY <1>2, <1>3, <1>4 DEF AloneStep

LEMMA OperatesAlone ==
    ASSUME LoneInv, [SeedNext]_seedVars, NEW w \in Seeders, Alone(w), Alone(w)',
           before' = before, mode' = mode, NEW op \in pending[w], Operate(w, op)
    PROVE  AloneStep(w)'
<1> USE DEF LoneInv, SeedInv, AloneFits
<1>1. /\ docs' = Performed(op) /\ pending'[w] = pending[w] \ {op}
      /\ phase'[w] = phase[w] /\ unlisted'[w] = unlisted[w] /\ phase[w] # "ok"
  BY OperateEffect DEF StageFits
<1>2. op.act \in {"set", "delete"}
  BY OperationFields DEF SeedTypeOK
<1>3. WrittenSoFar(w)'
  <2> SUFFICES ASSUME phase[w] \in Stored PROVE WrittenSoFar(w)'
    BY <1>1 DEF WrittenSoFar
  <2>1. op \in Sets(w, phase[w])
    BY DEF StageFits
  <2>2. docs' = docs \cup {op.doc}
    BY <1>1, <2>1, SetsAreOperations DEF Performed
  <2>3. \A d : op = [act |-> "set", doc |-> d] => d \in docs'
    BY <2>2
  <2>4. QED
    BY <1>1, <2>2, <2>3 DEF WrittenSoFar, SeedDocs
<1>4. phase'[w] \in Stored \cup {"ok"} => Foreign(w)' = {}
  BY <1>1, SeedInvStep DEF ForeignGoes, Writing
<1>5. ClientsGo(w)'
  <2>1. Left(w)' \subseteq Left(w)
    BY <1>1, <1>2, ClientDocsAreStored DEF Left, UsedFits
  <2>2. \A d \in Left(w)' : op # [act |-> "delete", doc |-> d]
    BY <1>1 DEF Performed, Left
  <2>3. QED
    BY <1>1, <2>1, <2>2 DEF ClientsGo
<1>6. QED
  BY <1>3, <1>4, <1>5 DEF AloneStep

LEMMA ListsAlone ==
    ASSUME LoneInv, [SeedNext]_seedVars, NEW w \in Seeders, Alone(w), Alone(w)',
           before' = before, mode' = mode, NEW c \in Collections, List(w, c)
    PROVE  AloneStep(w)'
<1> USE DEF LoneInv, SeedInv, AloneFits
<1>1. /\ phase'[w] = phase[w] /\ phase[w] \notin Stored \cup {"ok"} /\ docs' = docs
      /\ unlisted'[w] = unlisted[w] \ {c}
      /\ pending'[w] = pending[w] \cup
              {[act |-> "delete", doc |-> d] : d \in {e \in docs : e.coll = c}}
  BY ListEffect DEF StageFits
<1>2. Left(w)' = Left(w) /\ Left(w) \subseteq docs
  BY <1>1 DEF Left
<1>3. \A d \in Left(w) : d.coll = c => [act |-> "delete", doc |-> d] \in pending'[w]
  BY <1>1, <1>2
<1>4. ClientsGo(w)'
  BY <1>1, <1>2, <1>3 DEF ClientsGo
<1>5. QED
  BY <1>1, <1>4 DEF AloneStep, WrittenSoFar

LEMMA AloneKept ==
    ASSUME LoneInv, [SeedNext]_seedVars, NEW w \in Seeders
    PROVE  AloneFits(w)'
<1> SUFFICES ASSUME Alone(w)', ~BeginStep(w) PROVE Unaccompanied(w)' /\ AloneStep(w)'
  BY BeginsAlone DEF AloneFits, Unaccompanied, AloneStep
<1>1. /\ Alone(w) /\ before' = before /\ mode' = mode /\ AloneFits(w)
      /\ \A v \in Seeders \ {w} : ~AtWork(v)
      /\ Unaccompanied(w)'
  BY AloneIsAlone DEF LoneInv, Unaccompanied
<1>2. ASSUME phase'[w] \notin Stored \cup {"ok", "reset"} PROVE AloneStep(w)'
  BY <1>2 DEF AloneStep, WrittenSoFar, ClientsGo
<1>3. SeedTypeOK
  BY DEF LoneInv, SeedInv
<1>4. ASSUME NEW v \in Seeders, BeginStep(v) PROVE FALSE
  <2>1. latest' = v
    BY <1>4 DEF BeginStep, Boot, PostAdminSeed, NpmRunSeed, Begin
  <2>2. QED
    BY <1>4, <2>1 DEF Alone
<1>5. ASSUME NEW v \in Seeders, FailStep(v) PROVE AloneStep(w)'
  <2>1. v = w /\ phase'[w] = "failed"
    BY <1>1, <1>3, <1>5, FailEffect DEF Stops
  <2>2. QED
    BY <1>2, <2>1, StagesAre
<1>6. ASSUME NEW v \in Seeders, IsSeeded(v) PROVE AloneStep(w)'
  <2>1. v = w
    BY <1>1, <1>6 DEF IsSeeded, AtWork, Running
  <2>2. CASE phase'[w] = "skipped"
    BY <1>2, <2>2, StagesAre
  <2>3. CASE phase'[w] = "companies" /\ pending'[w] = Sets(w, "companies")
    <3>1. WrittenSoFar(w)'
      BY <2>3, StagesAre DEF WrittenSoFar, Behind, Sets, SeedDocs
    <3>2. Foreign(w)' = {}
      BY <2>3, SeedInvStep, StagesAre DEF LoneInv, SeedInv, ForeignGoes, Writing
    <3>3. mode'[w] = "boot"
      BY <1>1, <1>6, <2>1 DEF LoneInv, StageFits, IsSeeded
    <3>4. QED
      BY <3>1, <3>2, <3>3 DEF AloneStep, ClientsGo
  <2>4. QED
    BY <1>3, <1>6, <2>1, <2>2, <2>3, SeededEffect
<1>7. ASSUME NEW v \in Seeders, Advance(v) PROVE AloneStep(w)'
  <2>1. v = w
    BY <1>1, <1>7 DEF Advance, AtWork, Running
  <2>2. QED
    BY <1>1, <1>7, <2>1, AdvancesAlone
<1>8. ASSUME NEW v \in Seeders, NEW c \in Collections, List(v, c) PROVE AloneStep(w)'
  <2>1. v = w
    BY <1>1, <1>8 DEF List, AtWork
  <2>2. QED
    BY <1>1, <1>8, <2>1, ListsAlone
<1>9. ASSUME NEW v \in Seeders, NEW op \in pending[v], Operate(v, op) PROVE AloneStep(w)'
  <2>1. v = w
    BY <1>1, <1>9 DEF AtWork
  <2>2. QED
    BY <1>1, <1>9, <2>1, OperatesAlone
<1>10. ASSUME NEW s \in Servers, Crash(s) PROVE AloneStep(w)'
  <2>1. CASE phase'[w] = "failed"
    BY <1>2, <2>1, StagesAre
  <2>2. CASE phase'[w] # "failed"
    BY <1>1, <1>3, <1>10, <2>2, CrashEffect, NothingForAlone
  <2>3. QED
    BY <2>1, <2>2
<1>11. CASE IdleStep
  BY <1>1, <1>3, <1>11, IdleEffect, NothingForAlone
<1> QED
  BY <1>1, <1>4, <1>5, <1>6, <1>7, <1>8, <1>9, <1>10, <1>11, StepKinds

LEMMA LoneInvInit == SeedInit => LoneInv
<1> SUFFICES ASSUME SeedInit PROVE LoneInv
  OBVIOUS
<1>1. UsedFits
  <2>1. \A d \in docs : d.by \in {"seed", Earlier}
    BY DEF SeedInit, SeedOf, SeedDocs
  <2>2. \A d \in ClientDocs : d.by = "client"
    BY SeedKeysAssumption
  <2>3. QED
    BY <2>1, <2>2 DEF SeedInit, UsedFits, Earlier
<1>2. \A w \in Seeders : StageFits(w) /\ AloneFits(w)
  BY StagesAre DEF SeedInit, StageFits, AloneFits, Alone
<1> QED
  BY <1>1, <1>2, SeedInvInit DEF LoneInv

LEMMA LoneInvStep == LoneInv /\ [SeedNext]_seedVars => LoneInv'
BY SeedInvStep, UsedKept, StageKept, AloneKept DEF LoneInv

LEMMA AlwaysLone == SeedSpec => []LoneInv
BY LoneInvInit, LoneInvStep, PTL DEF SeedSpec

LEMMA LoneIsWhole == LoneInv => LoneSeedIsWhole
<1> SUFFICES ASSUME LoneInv, NEW w \in Seeders, phase[w] = "ok", met[w] = {}, latest = w
             PROVE  /\ {d \in docs : d.by # "client"} = SeedOf(w)
                    /\ mode[w] # "boot" => docs \cap before \cap ClientDocs = {}
  BY DEF LoneSeedIsWhole
<1> USE DEF LoneInv, SeedInv
<1>1. Alone(w) /\ AloneFits(w)
  BY DEF Alone
<1>2. SeedOf(w) \subseteq docs
  BY <1>1 DEF AloneFits, WrittenSoFar, Behind, SeedOf
<1>3. \A d \in SeedOf(w) : d.by # "client"
  BY SeedKeysAssumption DEF SeedOf, SeedDocs
<1>4. ASSUME NEW d \in docs, d.by # "client" PROVE d \in SeedOf(w)
  <2>1. d \notin ClientDocs /\ d \in Docs
    BY <1>4, SeedKeysAssumption DEF SeedTypeOK
  <2>2. PICK v \in Seeders \cup {Earlier}, c \in Stored : d \in SeedDocs(v, c)
    BY <2>1 DEF Docs, SeedOf
  <2>3. PICK k \in SeedKeys[c] :
            d = [coll |-> c, key |-> k, by |-> IF c \in FixedIds THEN "seed" ELSE v]
    BY <2>2 DEF SeedDocs
  <2>4. CASE c \in FixedIds
    BY <2>3, <2>4 DEF SeedOf, SeedDocs
  <2>5. CASE c \notin FixedIds
    <3>1. d.by = v
      BY <2>3, <2>5
    <3>2. Foreign(w) = {}
      BY <1>1 DEF AloneFits
    <3>3. v = w
      BY <3>1, <3>2 DEF Foreign, Origins
    <3>4. QED
      BY <2>2, <3>3 DEF SeedOf
  <2>6. QED
    BY <2>4, <2>5
<1>5. mode[w] # "boot" => Left(w) = {}
  BY <1>1 DEF AloneFits, ClientsGo
<1>6. QED
  BY <1>2, <1>3, <1>4, <1>5 DEF Left

\* A run of seedSalon that ends well, with no other beside it and none after it,
\* leaves its data and nothing else of any seed; a reset leaves nothing of what
\* clients had stored before it began.
THEOREM LoneSeeds == SeedSpec => []LoneSeedIsWhole
BY AlwaysLone, LoneIsWhole, PTL

-----------------------------------------------------------------------------
(* Seeding without faults                                                  *)

NoFaults == MaxFailures = 0 /\ MaxCrashes = 0 /\ FALSE \notin SeedOnStart

\* The services and stylists of the seed data.
Catalogue == UNION {{[coll |-> c, key |-> k, by |-> "seed"] : k \in SeedKeys[c]} :
                        c \in {"services", "stylists"}}

\* The stages before the catalogue's collection c is written.
StagesBefore(c) == IF c = "services" THEN {"reset", "companies"}
                   ELSE {"reset", "companies", "services"}

WillWrite(w, d) == phase[w] \in StagesBefore(d.coll) \/ [act |-> "set", doc |-> d] \in pending[w]

\* A server is up over a company only, and where there is a company, whatever is
\* missing of the catalogue is going to be written by somebody.
CatalogueComes ==
    /\ \A w \in Seeders : phase[w] # "failed" /\ (phase[w] = "skipped" => ~AtWork(w))
    /\ \A s \in Servers : server[s] = "up" => HasCompany
    /\ HasCompany => \A d \in Catalogue : d \in docs \/ \E w \in Seeders : WillWrite(w, d)

LEMMA CatalogueFacts ==
    ASSUME NEW d \in Catalogue
    PROVE  /\ d.coll \in {"services", "stylists"} /\ d.by = "seed"
           /\ d \in SeedOf(Earlier) /\ \A w : d \in SeedDocs(w, d.coll)
<1>1. PICK c \in {"services", "stylists"} :
          \E k \in SeedKeys[c] : d = [coll |-> c, key |-> k, by |-> "seed"]
  BY DEF Catalogue
<1>2. d.coll = c /\ d.by = "seed"
  BY <1>1
<1>3. c \in FixedIds /\ c \in Stored
  BY StagesAre DEF FixedIds
<1>4. \A w : d \in SeedDocs(w, c)
  BY <1>1, <1>3 DEF SeedDocs
<1>5. QED
  BY <1>2, <1>3, <1>4 DEF SeedOf

\* Without faults nothing fails, and nobody crashes or skips the seed.
LEMMA FaultlessKinds ==
    ASSUME NoFaults, SeedTypeOK, [SeedNext]_seedVars
    PROVE  \/ \E w \in Seeders :
                \/ BeginStep(w) \/ IsSeeded(w) \/ Advance(w)
                \/ \E c \in Collections : List(w, c)
                \/ \E op \in pending[w] : Operate(w, op)
           \/ \E s \in Servers, d \in ClientDocs : ClientStores(s, d)
           \/ UNCHANGED seedVars
<1>1. failures = 0 /\ crashes = 0
  BY DEF NoFaults, SeedTypeOK
<1>2. ASSUME NEW w \in Seeders, NEW list, NEW ops, Reject(w, list, ops) PROVE FALSE
  BY <1>1, <1>2 DEF Reject, NoFaults
<1>3. ASSUME NEW w \in Seeders, FailStep(w) PROVE FALSE
  BY <1>2, <1>3 DEF FailStep, CheckFails, ListFails, OperationFails
<1>4. ASSUME NEW s \in Servers, Crash(s) PROVE FALSE
  BY <1>1, <1>4 DEF Crash, NoFaults
<1>5. ASSUME NEW s \in Servers, BootUnseeded(s) PROVE FALSE
  BY <1>5 DEF BootUnseeded, NoFaults
<1>6. QED
  BY <1>3, <1>4, <1>5, StepKinds DEF IdleStep

\* What a seeder has under way belongs to its stage.
LEMMA WhatIsUnderWay ==
    ASSUME LoneInv, CatalogueComes, NEW w \in Seeders, NEW op \in pending[w]
    PROVE  \/ phase[w] = "reset"
           \/ phase[w] \in Stored /\ op.act = "set" /\ op.doc.coll = phase[w]
<1> USE DEF LoneInv, SeedInv
<1>1. phase[w] \in {"idle", "check", "reset", "ok", "skipped", "failed"} \cup Stored
  BY DEF SeedTypeOK
<1>2. phase[w] # "idle" /\ phase[w] \notin {"ok", "check", "skipped", "failed"}
  BY DEF MeetingsFit, AtWork, StageFits, CatalogueComes
<1>3. phase[w] \in Stored => op.act = "set" /\ op.doc.coll = phase[w]
  BY SetsAreOperations DEF StageFits
<1>4. QED
  BY <1>1, <1>2, <1>3

LEMMA CatalogueStep ==
    ASSUME NoFaults, LoneInv, CatalogueComes, [SeedNext]_seedVars
    PROVE  CatalogueComes'
<1> USE DEF LoneInv, SeedInv
<1>1. HasCompany => HasCompany'
  BY CompanyStays
<1>2. ASSUME NEW w \in Seeders, BeginStep(w) PROVE CatalogueComes'
  <2>1. /\ phase[w] = "idle" /\ phase'[w] \in {"check", "reset"}
        /\ \A v \in Seeders \ {w} : phase'[v] = phase[v]
        /\ \A v \in Seeders \ {w} : unlisted'[v] = unlisted[v]
        /\ docs' = docs /\ pending' = pending
    BY <1>2, BeginEffect
  <2>2. \A s \in Servers : server'[s] = "up" => server[s] = "up"
    BY <1>2 DEF BeginStep, Boot, PostAdminSeed, NpmRunSeed, SeedTypeOK
  <2>3. \A v \in Seeders, d \in Catalogue : WillWrite(v, d) => WillWrite(v, d)'
    BY <2>1, CatalogueFacts DEF WillWrite, StagesBefore
  <2>4. HasCompany' <=> HasCompany
    BY <2>1 DEF HasCompany
  <2>5. \A v \in Seeders : phase'[v] # "failed" /\ (phase'[v] = "skipped" => ~AtWork(v)')
    BY <2>1 DEF CatalogueComes, AtWork, Running
  <2>6. QED
    BY <2>1, <2>2, <2>3, <2>4, <2>5 DEF CatalogueComes
<1>3. ASSUME NEW w \in Seeders, IsSeeded(w) PROVE CatalogueComes'
  <2>1. /\ \/ HasCompany /\ phase'[w] = "skipped" /\ pending' = pending
           \/ ~HasCompany /\ phase'[w] = "companies"
        /\ phase[w] = "check"
        /\ \A v \in Seeders \ {w} : phase'[v] = phase[v] /\ pending'[v] = pending[v]
        /\ docs' = docs /\ unlisted' = unlisted
    BY <1>3, SeededEffect
  <2>2. \A s \in Servers : server'[s] = "up" => server[s] = "up" \/ HasCompany
    BY <1>3 DEF IsSeeded, SeedTypeOK
  <2>3. pending[w] = {} /\ unlisted[w] = {}
    BY <2>1 DEF StageFits
  <2>4. \A v \in Seeders, d \in Catalogue : WillWrite(v, d) => WillWrite(v, d)'
    BY <2>1, <2>3, CatalogueFacts DEF WillWrite, StagesBefore
  <2>5. HasCompany' <=> HasCompany
    BY <2>1 DEF HasCompany
  <2>6. \A v \in Seeders : phase'[v] # "failed" /\ (phase'[v] = "skipped" => ~AtWork(v)')
    BY <2>1, <2>3, StagesAre DEF CatalogueComes, AtWork, Running
  <2>7. QED
    BY <2>1, <2>2, <2>4, <2>5, <2>6 DEF CatalogueComes
<1>4. ASSUME NEW w \in Seeders, Advance(w) PROVE CatalogueComes'
  <2>1. /\ phase[w] \in {"reset"} \cup Stored /\ pending[w] = {}
        /\ phase'[w] = Following(phase[w])
        /\ \/ phase'[w] \in Stored /\ pending'[w] = Sets(w, phase'[w])
           \/ phase'[w] = "ok" /\ pending'[w] = {}
        /\ \A v \in Seeders \ {w} : phase'[v] = phase[v] /\ pending'[v] = pending[v]
        /\ docs' = docs /\ unlisted' = unlisted
    BY <1>4, AdvanceEffect
  <2>2. ASSUME NEW s \in Servers, server'[s] = "up" PROVE HasCompany
    <3>1. CASE server[s] = "up"
      BY <3>1 DEF CatalogueComes
    <3>2. CASE server[s] # "up"
      <4>1. Following(phase[w]) = "ok"
        BY <1>4, <2>2, <3>2 DEF Advance
      <4>2. phase[w] = "blocks"
        BY <2>1, <4>1, StagesAre
      <4>3. QED
        BY <4>2, StagesAre DEF CompanyFirst
    <3>3. QED
      BY <3>1, <3>2
  <2>3. ASSUME NEW v \in Seeders, NEW d \in Catalogue, WillWrite(v, d) PROVE WillWrite(v, d)'
    <3>1. CASE v # w
      BY <2>1, <2>3, <3>1 DEF WillWrite
    <3>2. CASE v = w
      <4>1. phase[w] \in StagesBefore(d.coll)
        BY <2>1, <2>3, <3>2 DEF WillWrite
      <4>2. Following(phase[w]) \in StagesBefore(d.coll) \cup {d.coll}
        BY <4>1, CatalogueFacts, FollowingIs DEF StagesBefore
      <4>3. CASE phase'[w] = d.coll
        <5>1. pending'[w] = Sets(w, d.coll)
          BY <2>1, <4>3, CatalogueFacts
        <5>2. QED
          BY <3>2, <5>1, CatalogueFacts DEF Sets, WillWrite
      <4>4. QED
        BY <2>1, <3>2, <4>2, <4>3 DEF WillWrite
    <3>3. QED
      BY <3>1, <3>2
  <2>4. HasCompany' <=> HasCompany
    BY <2>1 DEF HasCompany
  <2>5. \A v \in Seeders : phase'[v] # "failed" /\ (phase'[v] = "skipped" => ~AtWork(v)')
    BY <2>1, StagesAre DEF CatalogueComes, AtWork, Running
  <2>6. QED
    BY <2>1, <2>2, <2>3, <2>4, <2>5 DEF CatalogueComes
<1>5. ASSUME NEW w \in Seeders, NEW c \in Collections, List(w, c) PROVE CatalogueComes'
  <2>1. /\ c \in unlisted[w] /\ pending[w] \subseteq pending'[w]
        /\ \A v \in Seeders \ {w} : pending'[v] = pending[v]
        /\ docs' = docs /\ phase' = phase /\ server' = server
    BY <1>5, ListEffect DEF List
  <2>2. phase[w] # "skipped"
    BY <2>1 DEF CatalogueComes, AtWork
  <2>3. \A v \in Seeders, d \in Catalogue : WillWrite(v, d) => WillWrite(v, d)'
    BY <2>1 DEF WillWrite
  <2>4. HasCompany' <=> HasCompany
    BY <2>1 DEF HasCompany
  <2>5. \A v \in Seeders : phase'[v] # "failed" /\ (phase'[v] = "skipped" => ~AtWork(v)')
    BY <1>5, <2>1, <2>2, ListEffect DEF CatalogueComes, AtWork, Running
  <2>6. QED
    BY <2>1, <2>3, <2>4, <2>5 DEF CatalogueComes
<1>6. ASSUME NEW w \in Seeders, NEW op \in pending[w], Operate(w, op) PROVE CatalogueComes'
  <2>1. /\ docs' = Performed(op) /\ pending'[w] = pending[w] \ {op}
        /\ \A v \in Seeders \ {w} : pending'[v] = pending[v]
        /\ phase' = phase /\ server' = server /\ unlisted' = unlisted
    BY <1>6, OperateEffect DEF Operate
  <2>2. phase[w] = "reset" \/ (phase[w] \in Stored /\ op.act = "set" /\ op.doc.coll = phase[w])
    BY WhatIsUnderWay
  <2>3. op \in Operations /\ op.act \in {"set", "delete"}
    BY OperationFields DEF SeedTypeOK
  <2>4. ASSUME NEW d \in Catalogue, HasCompany'
        PROVE  d \in docs' \/ \E v \in Seeders : WillWrite(v, d)'
    <3>1. CASE phase[w] = "reset"
      <4>1. WillWrite(w, d)'
        BY <2>1, <3>1 DEF WillWrite, StagesBefore
      <4>2. QED
        BY <4>1
    <3>2. CASE phase[w] = "companies"
      <4>1. WillWrite(w, d)'
        BY <2>1, <3>2 DEF WillWrite, StagesBefore
      <4>2. QED
        BY <4>1
    <3>3. CASE phase[w] \in Stored \ {"companies"}
      <4>1. op.act = "set" /\ docs' = docs \cup {op.doc}
        BY <2>1, <2>2, <3>3, StagesAre DEF Performed
      <4>2. HasCompany
        BY <3>3 DEF CompanyFirst
      <4>3. CASE d \in docs
        BY <4>1, <4>3
      <4>4. ASSUME NEW v \in Seeders, WillWrite(v, d)
            PROVE  WillWrite(v, d)' \/ d \in docs'
        <5>1. [act |-> "set", doc |-> d] = op => d \in docs'
          BY <4>1
        <5>2. QED
          BY <2>1, <4>4, <5>1 DEF WillWrite
      <4>5. QED
        BY <4>2, <4>3, <4>4 DEF CatalogueComes
    <3>4. QED
      BY <2>2, <3>1, <3>2, <3>3
  <2>5. \A v \in Seeders : phase'[v] # "failed" /\ (phase'[v] = "skipped" => ~AtWork(v)')
    BY <2>1 DEF CatalogueComes, AtWork, Running
  <2>6. QED
    BY <1>1, <2>1, <2>4, <2>5 DEF CatalogueComes
<1>7. ASSUME NEW s \in Servers, NEW x \in ClientDocs, ClientStores(s, x) PROVE CatalogueComes'
  <2>1. /\ HasCompany /\ docs' = docs \cup {x}
        /\ phase' = phase /\ pending' = pending /\ server' = server /\ unlisted' = unlisted
    BY <1>7 DEF ClientStores
  <2>2. \A v \in Seeders, d \in Catalogue : WillWrite(v, d) => WillWrite(v, d)'
    BY <2>1 DEF WillWrite
  <2>3. QED
    BY <1>1, <2>1, <2>2 DEF CatalogueComes, AtWork, Running
<1>8. CASE UNCHANGED seedVars
  BY <1>8 DEF CatalogueComes, WillWrite, HasCompany, AtWork, Running, seedVars
<1>9. QED
  BY <1>2, <1>3, <1>4, <1>5, <1>6, <1>7, <1>8, FaultlessKinds

\* However many servers boot and reset the data at the same time: as long as none
\* crashes, no call fails and nobody boots without seeding, the catalogue is there
\* once a server is up and nobody is seeding.  Seeds beside each other cannot lose
\* a service; a fault alone can.
THEOREM SeededWithoutFaults ==
    ASSUME NoFaults
    PROVE  SeedSpec => []UpMeansSeeded
<1>1. SeedInit => CatalogueComes
  <2> SUFFICES ASSUME SeedInit PROVE CatalogueComes
    OBVIOUS
  <2>1. PICK found \in FoundSeeded : docs = IF found THEN SeedOf(Earlier) ELSE {}
    BY DEF SeedInit
  <2>2. HasCompany => docs = SeedOf(Earlier)
    BY <2>1 DEF HasCompany
  <2>3. HasCompany => \A d \in Catalogue : d \in docs
    BY <2>2, CatalogueFacts
  <2>4. QED
    BY <2>3 DEF SeedInit, CatalogueComes
<1>2. LoneInv /\ CatalogueComes /\ [SeedNext]_seedVars => CatalogueComes'
  BY CatalogueStep
<1>3. LoneInv /\ CatalogueComes => UpMeansSeeded
  <2> SUFFICES ASSUME LoneInv, CatalogueComes, NEW s \in Servers, server[s] = "up", Busy = {},
                      NEW c \in {"services", "stylists"}, NEW k \in SeedKeys[c]
               PROVE  \E d \in docs : d.coll = c /\ d.key = k
    BY DEF UpMeansSeeded
  <2> DEFINE d == [coll |-> c, key |-> k, by |-> "seed"]
  <2>1. d \in Catalogue
    BY DEF Catalogue
  <2>2. ASSUME NEW w \in Seeders PROVE ~WillWrite(w, d)
    BY StagesAre DEF Busy, AtWork, Running, WillWrite, StagesBefore
  <2>3. d \in docs
    BY <2>1, <2>2 DEF CatalogueComes
  <2>4. QED
    BY <2>3
<1>4. QED
  BY <1>1, <1>2, <1>3, AlwaysLone, PTL DEF SeedSpec
=============================================================================

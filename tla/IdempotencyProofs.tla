-------------------------- MODULE IdempotencyProofs --------------------------
(***************************************************************************)
(* The guarantees of Idempotency for any number of attempts, servers, keys *)
(* and failures.                                                           *)
(***************************************************************************)
EXTENDS Idempotency, TLAPS

\* Who has a request, and which phases belong to a request with a key.
AsksFit ==
    \A a \in Attempts :
        /\ pc[a] = "idle" <=> ask[a] = NoAsk
        /\ pc[a] \in {"lookup", "expire", "write"} => HasKey(a)
        /\ pc[a] \in {"idle", "lookup", "expire", "handle"} => reply[a].kind = "none"

\* Whose handler has acted: it may still be at it, running its transaction
\* again.
ActedFits ==
    \A a \in Attempts :
        /\ pc[a] \in {"idle", "lookup", "expire"} => a \notin acted
        /\ pc[a] \in {"save", "write", "respond"} => a \in acted /\ reply[a].kind = "none"

\* Only attempts that are over count as prior, and they stay over.
PriorOver == \A b \in Attempts : \A a \in prior[b] : Over(a)

\* No record of a document is older than the oldest of its records, and it is
\* gone only after the key expired.
Lifetimes ==
    \A d \in Docs :
        /\ firstSaved[d] <= clock
        /\ records[d] # NoRecord => /\ firstSaved[d] # -1
                                   /\ firstSaved[d] <= records[d].savedAt
        /\ records[d] = NoRecord /\ firstSaved[d] # -1 => clock - firstSaved[d] > TTL

Expired(a) == firstSaved[DocId(a)] # -1 /\ lookedAt[a] - firstSaved[DocId(a)] > TTL

ExpiringIsOld ==
    \A a \in Attempts :
        /\ lookedAt[a] <= clock
        /\ pc[a] = "expire" => Expired(a)

\* Whoever was served under a key, the key was saved.
ServedWasSaved ==
    \A a \in Attempts :
        HasKey(a) /\ (pc[a] = "respond" \/ Served(a)) => firstSaved[DocId(a)] # -1

\* What ServedIsNotRepeated says of an attempt that is still on its way.
RunsOnlyExpired ==
    \A a, b \in Attempts :
        /\ SameKey(a, b) /\ Served(a) /\ a \in prior[b]
        /\ pc[b] \in {"handle", "save", "write", "respond"} \/ b \in acted
        => lookedAt[b] - firstSaved[DocId(a)] > TTL

\* b's result is stored: it acted, and its client hears that result, or a
\* 500, or nothing.
Author(b) ==
    /\ b \in acted
    /\ pc[b] \in {"respond", "done", "lost"}
    /\ reply[b].kind \in {"none", "fresh", "error"}

\* A record tells of its author, and so does a replay.
RecordsTrue ==
    \A d \in Docs : records[d] # NoRecord =>
        Author(records[d].by) /\ HasKey(records[d].by) /\ DocId(records[d].by) = d

ReplaysTrue ==
    \A a \in Attempts : reply[a].kind = "replay" =>
        Author(reply[a].from) /\ SameKey(a, reply[a].from)

Inv == /\ TypeOK /\ AsksFit /\ ActedFits /\ PriorOver /\ Lifetimes
       /\ ExpiringIsOld /\ ServedWasSaved /\ RunsOnlyExpired
       /\ RecordsTrue /\ ReplaysTrue

-----------------------------------------------------------------------------
(* Typing                                                                  *)

\* A request with a key is one of the requests there are, for a document
\* there is.
LEMMA DocIdTyped ==
  ASSUME TypeOK, NEW a \in Attempts, HasKey(a)
  PROVE  ask[a] \in Asks /\ ask[a] # NoAsk /\ DocId(a) \in Docs
<1>1. ask[a] \in Asks
  BY DEF TypeOK, HasKey, NoAsk
<1>2. QED
  BY <1>1, AsksAssumption DEF HasKey, DocId, Docs, NoAsk, Endpoints

LEMMA NewRecordTyped ==
  ASSUME TypeOK, NEW a \in Attempts
  PROVE  NewRecord(a) \in Record /\ NewRecord(a) # NoRecord
BY AsksAssumption, BoundsAssumption DEF TypeOK, NewRecord, Record, NoRecord

LEMMA TypeStep ==
  ASSUME TypeOK, AsksFit, [Next]_vars
  PROVE  TypeOK'
<1> USE BoundsAssumption DEF TypeOK, Phases, Reply
<1>1. ASSUME NEW a \in Attempts, Arrive(a) PROVE TypeOK'
  BY <1>1 DEF Arrive, Goto
<1>2. ASSUME NEW a \in Attempts, LookUp(a) PROVE TypeOK'
  <2>1. HasKey(a) /\ DocId(a) \in Docs
    BY <1>2, DocIdTyped DEF LookUp, AsksFit
  <2>2. lookedAt' \in [Attempts -> 0..MaxClock]
    BY <1>2 DEF LookUp
  <2>3. CASE records[DocId(a)] = NoRecord
    BY <1>2, <2>1, <2>2, <2>3 DEF LookUp, Goto
  <2>4. CASE records[DocId(a)] # NoRecord
    <3>1. records[DocId(a)] \in Record
      BY <2>1, <2>4
    <3>2. reply' \in [Attempts -> Reply]
      BY <1>2, <2>4, <3>1 DEF LookUp, Hears, Record, NoRecord
    <3>3. pc' \in [Attempts -> Phases]
      BY <1>2, <2>4 DEF LookUp, Goto
    <3>4. QED
      BY <1>2, <2>2, <3>2, <3>3 DEF LookUp
  <2>5. QED
    BY <2>3, <2>4
<1>3. ASSUME NEW a \in Attempts, Expire(a) PROVE TypeOK'
  BY <1>3 DEF Expire, Goto, history
<1>4. ASSUME NEW a \in Attempts, MiddlewareFails(a) PROVE TypeOK'
  BY <1>4 DEF MiddlewareFails, Fails, Dies, history
<1>5. ASSUME NEW a \in Attempts, HandlerActs(a) PROVE TypeOK'
  <2>1. acted' \subseteq Attempts /\ pc' \in [Attempts -> Phases]
    BY <1>5 DEF HandlerActs, Goto
  <2>2. reply' \in [Attempts -> Reply] /\ failures' \in 0..MaxFailures
    BY <1>5 DEF HandlerActs, Hears, Fails
  <2>3. QED
    BY <1>5, <2>1, <2>2 DEF HandlerActs, history
<1>15. ASSUME NEW a \in Attempts, HandlerRefuses(a) \/ HandlerFails(a) PROVE TypeOK'
  BY <1>15 DEF HandlerRefuses, HandlerFails, Goto, Hears, Fails, history
<1>6. ASSUME NEW a \in Attempts, Store(a), UNCHANGED clock
      PROVE /\ records' \in [Docs -> Record \cup {NoRecord}]
            /\ \A d \in Docs : records'[d] # NoRecord => records'[d].savedAt <= clock
            /\ firstSaved' \in [Docs -> {-1} \cup 0..MaxClock]
  BY <1>6, NewRecordTyped DEF Store, NewRecord
<1>7. ASSUME NEW a \in Attempts, Save(a) PROVE TypeOK'
  <2>1. pc' \in [Attempts -> Phases] /\ clock \in 0..MaxClock
    BY <1>7 DEF Save, Goto
  <2>2. stamp' \in [Attempts -> 0..MaxClock]
    BY <1>7, <2>1 DEF Save
  <2>3. \A b \in Attempts : stamp'[b] <= clock
    BY <1>7, <2>1 DEF Save
  <2>4. QED
    BY <1>7, <2>1, <2>2, <2>3 DEF Save, history
<1>14. ASSUME NEW a \in Attempts, WriteRecord(a) PROVE TypeOK'
  BY <1>14, <1>6 DEF WriteRecord, Goto
<1>8. ASSUME NEW a \in Attempts, SaveFails(a) PROVE TypeOK'
  <2>1. CASE Store(a)
    BY <1>8, <1>6, <2>1 DEF SaveFails, Goto, Hears, Fails
  <2>2. CASE UNCHANGED <<records, firstSaved>>
    BY <1>8, <2>2 DEF SaveFails, Goto, Hears, Fails
  <2>3. QED
    BY <1>8, <2>1, <2>2 DEF SaveFails
<1>9. ASSUME NEW a \in Attempts, Respond(a) PROVE TypeOK'
  BY <1>9 DEF Respond, Goto, Hears, history
<1>10. ASSUME NEW s \in Servers, Crash(s) PROVE TypeOK'
  BY <1>10 DEF Crash, Dies, history
<1>11. CASE Tick
  <2>1. clock' \in 0..MaxClock /\ clock < clock'
    BY <1>11 DEF Tick
  <2>2. ASSUME NEW d \in Docs, records'[d] # NoRecord PROVE records'[d].savedAt <= clock'
    <3>1. records[d] \in Record /\ records[d].savedAt <= clock /\ records' = records
      BY <1>11, <2>2 DEF Tick
    <3>2. QED
      BY <2>1, <3>1 DEF Record
  <2>3. \A a \in Attempts : stamp'[a] <= clock'
    BY <1>11, <2>1 DEF Tick
  <2>4. QED
    BY <1>11, <2>1, <2>2, <2>3 DEF Tick, history
<1>12. CASE UNCHANGED vars
  BY <1>12 DEF vars, history
<1>13. QED
  BY <1>1, <1>2, <1>3, <1>4, <1>5, <1>7, <1>8, <1>9, <1>10, <1>11, <1>12,
     <1>14, <1>15 DEF Next, Step

-----------------------------------------------------------------------------
(* Which attempt is where                                                  *)

LEMMA AsksStep ==
  ASSUME TypeOK, AsksFit, [Next]_vars
  PROVE  AsksFit'
<1> USE DEF AsksFit, TypeOK
<1>1. ASSUME NEW a \in Attempts, Arrive(a) PROVE AsksFit'
  <2>1. PICK q \in Asks : /\ ask' = [ask EXCEPT ![a] = q]
                          /\ Goto(a, IF q.key = NoKey THEN "handle" ELSE "lookup")
    BY <1>1 DEF Arrive
  <2>2. q # NoAsk
    BY AsksAssumption DEF NoAsk, Endpoints
  <2>3. QED
    BY <1>1, <2>1, <2>2 DEF Arrive, Goto, HasKey
<1>2. ASSUME NEW a \in Attempts, LookUp(a) PROVE AsksFit'
  BY <1>2 DEF LookUp, Goto, Hears, HasKey
<1>3. ASSUME NEW a \in Attempts, Expire(a) \/ HandlerActs(a) \/ HandlerRefuses(a) \/ HandlerFails(a)
      PROVE AsksFit'
  BY <1>3 DEF Expire, HandlerActs, HandlerRefuses, HandlerFails, Goto, Hears, HasKey
<1>4. ASSUME NEW a \in Attempts, Save(a) \/ WriteRecord(a) \/ SaveFails(a) \/ Respond(a) PROVE AsksFit'
  BY <1>4 DEF Save, WriteRecord, SaveFails, Respond, Goto, Hears, HasKey
<1>5. ASSUME NEW s \in Servers, Dies(s), UNCHANGED <<ask, reply>> PROVE AsksFit'
  BY <1>5 DEF Dies, InFlight, HasKey
<1>6. CASE Tick \/ UNCHANGED vars
  BY <1>6 DEF Tick, vars, HasKey
<1>7. QED
  BY <1>1, <1>2, <1>3, <1>4, <1>5, <1>6 DEF Next, Step, Crash, MiddlewareFails

LEMMA ActedStep ==
  ASSUME TypeOK, AsksFit, ActedFits, [Next]_vars
  PROVE  ActedFits'
<1> USE DEF ActedFits, TypeOK, AsksFit
<1>1. ASSUME NEW a \in Attempts, Arrive(a) PROVE ActedFits'
  BY <1>1 DEF Arrive, Goto
<1>2. ASSUME NEW a \in Attempts, LookUp(a) PROVE ActedFits'
  BY <1>2 DEF LookUp, Goto, Hears
<1>3. ASSUME NEW a \in Attempts, Expire(a) \/ HandlerActs(a) \/ HandlerRefuses(a) \/ HandlerFails(a)
      PROVE ActedFits'
  BY <1>3 DEF Expire, HandlerActs, HandlerRefuses, HandlerFails, Goto, Hears
<1>4. ASSUME NEW a \in Attempts, Save(a) \/ WriteRecord(a) \/ SaveFails(a) \/ Respond(a) PROVE ActedFits'
  BY <1>4 DEF Save, WriteRecord, SaveFails, Respond, Goto, Hears
<1>5. ASSUME NEW s \in Servers, Dies(s), UNCHANGED <<acted, reply>> PROVE ActedFits'
  BY <1>5 DEF Dies, InFlight
<1>6. CASE Tick \/ UNCHANGED vars
  BY <1>6 DEF Tick, vars
<1>7. QED
  BY <1>1, <1>2, <1>3, <1>4, <1>5, <1>6 DEF Next, Step, Crash, MiddlewareFails

\* What a step leaves alone: an attempt that is over keeps its phase, its
\* request and its reply; a request never changes once there.
LEMMA OverStays ==
  ASSUME TypeOK, AsksFit, [Next]_vars, NEW a \in Attempts
  PROVE  /\ Over(a) => pc'[a] = pc[a] /\ reply'[a] = reply[a]
         /\ pc[a] # "idle" => /\ ask'[a] = ask[a] /\ pc'[a] # "idle"
                              /\ prior'[a] = prior[a]
<1> USE DEF TypeOK, AsksFit, Over
<1>1. ASSUME NEW b \in Attempts, Arrive(b) \/ LookUp(b) \/ Expire(b)
      PROVE  /\ Over(a) => pc'[a] = pc[a] /\ reply'[a] = reply[a]
             /\ pc[a] # "idle" => /\ ask'[a] = ask[a] /\ pc'[a] # "idle"
                                  /\ prior'[a] = prior[a]
  BY <1>1 DEF Arrive, LookUp, Expire, Goto, Hears, history
<1>2. ASSUME NEW b \in Attempts, \/ HandlerActs(b) \/ HandlerRefuses(b) \/ HandlerFails(b)
                                 \/ Save(b) \/ WriteRecord(b) \/ SaveFails(b)
                                 \/ Respond(b)
      PROVE  /\ Over(a) => pc'[a] = pc[a] /\ reply'[a] = reply[a]
             /\ pc[a] # "idle" => /\ ask'[a] = ask[a] /\ pc'[a] # "idle"
                                  /\ prior'[a] = prior[a]
  BY <1>2 DEF HandlerActs, HandlerRefuses, HandlerFails, Save, WriteRecord, SaveFails, Respond,
     Goto, Hears, history
<1>3. ASSUME NEW s \in Servers, Dies(s), UNCHANGED <<ask, reply, history>>
      PROVE  /\ Over(a) => pc'[a] = pc[a] /\ reply'[a] = reply[a]
             /\ pc[a] # "idle" => /\ ask'[a] = ask[a] /\ pc'[a] # "idle"
                                  /\ prior'[a] = prior[a]
  BY <1>3 DEF Dies, InFlight, history
<1>4. CASE Tick \/ UNCHANGED vars
  BY <1>4 DEF Tick, vars, history
<1>5. QED
  BY <1>1, <1>2, <1>3, <1>4 DEF Next, Step, Crash, MiddlewareFails

LEMMA PriorStep ==
  ASSUME TypeOK, AsksFit, PriorOver, [Next]_vars
  PROVE  PriorOver'
<1> SUFFICES ASSUME NEW b \in Attempts, NEW a \in prior'[b]
             PROVE  a \in Attempts /\ Over(a)'
  BY DEF PriorOver
<1>1. a \in prior[b] \/ (Over(a) /\ a \in Attempts)
  <2>1. ASSUME NEW c \in Attempts, Arrive(c) PROVE a \in prior[b] \/ (Over(a) /\ a \in Attempts)
    BY <2>1 DEF Arrive, TypeOK
  <2>2. CASE prior' = prior
    BY <2>2
  <2>3. QED
    BY <2>1, <2>2 DEF Next, Step, Crash, MiddlewareFails, LookUp, Expire, HandlerActs,
       HandlerRefuses, HandlerFails, Save, WriteRecord, SaveFails, Respond, Tick, vars, history
<1>2. a \in Attempts /\ Over(a)
  BY <1>1 DEF PriorOver, TypeOK
<1>3. QED
  BY <1>2, OverStays DEF Over

-----------------------------------------------------------------------------
(* Lifetimes of the stored records                                         *)

\* The first hour of a document only moves back.
LEMMA FirstSavedFalls ==
  ASSUME TypeOK, [Next]_vars, NEW d \in Docs, firstSaved[d] # -1
  PROVE  /\ firstSaved'[d] # -1 /\ firstSaved'[d] <= firstSaved[d]
         /\ firstSaved[d] \in Int /\ firstSaved'[d] \in Int
<1> USE BoundsAssumption DEF TypeOK
<1>1. ASSUME NEW a \in Attempts, Store(a)
      PROVE  /\ firstSaved'[d] # -1 /\ firstSaved'[d] <= firstSaved[d]
             /\ firstSaved'[d] \in Int
  <2>1. /\ stamp[a] \in Int /\ stamp[a] # -1 /\ firstSaved[d] \in Int
        /\ firstSaved'[d] = firstSaved[d] \/ (firstSaved'[d] = stamp[a] /\ stamp[a] < firstSaved[d])
    BY <1>1 DEF Store
  <2>2. QED
    BY <2>1
<1>2. QED
  BY <1>1 DEF Next, Step, Arrive, Crash, MiddlewareFails, LookUp, Expire, HandlerActs,
     HandlerRefuses, HandlerFails, Save, WriteRecord, SaveFails, Respond, Tick, vars, history

\* What storing does to the documents.
LEMMA StoreEffect ==
  ASSUME TypeOK, NEW a \in Attempts, Store(a), NEW d \in Docs
  PROVE  \/ records'[d] = records[d] /\ firstSaved'[d] = firstSaved[d]
         \/ /\ d = DocId(a)
            /\ records'[d] = NewRecord(a) /\ records'[d] # NoRecord
            /\ firstSaved'[d] = IF firstSaved[d] = -1 \/ stamp[a] < firstSaved[d]
                                  THEN stamp[a] ELSE firstSaved[d]
BY NewRecordTyped DEF Store, TypeOK

LEMMA LifetimesStep ==
  ASSUME TypeOK, AsksFit, Lifetimes, ExpiringIsOld, [Next]_vars
  PROVE  Lifetimes'
<1>1. ASSUME NEW a \in Attempts, Store(a), UNCHANGED clock PROVE Lifetimes'
  <2> SUFFICES ASSUME NEW d \in Docs
               PROVE  /\ firstSaved'[d] <= clock'
                      /\ records'[d] # NoRecord => /\ firstSaved'[d] # -1
                                                  /\ firstSaved'[d] <= records'[d].savedAt
                      /\ records'[d] = NoRecord /\ firstSaved'[d] # -1
                         => clock' - firstSaved'[d] > TTL
    BY DEF Lifetimes
  <2>1. CASE records'[d] = records[d] /\ firstSaved'[d] = firstSaved[d]
    BY <1>1, <2>1 DEF Lifetimes
  <2>2. CASE /\ records'[d] = NewRecord(a) /\ records'[d] # NoRecord
             /\ firstSaved'[d] = IF firstSaved[d] = -1 \/ stamp[a] < firstSaved[d]
                                   THEN stamp[a] ELSE firstSaved[d]
    <3>1. /\ stamp[a] \in Int /\ stamp[a] # -1 /\ stamp[a] <= clock /\ clock \in Int
          /\ firstSaved[d] \in Int /\ firstSaved[d] <= clock
      BY BoundsAssumption DEF Lifetimes, TypeOK
    <3>2. firstSaved'[d] <= clock /\ firstSaved'[d] # -1 /\ firstSaved'[d] <= stamp[a]
      BY <2>2, <3>1
    <3>3. QED
      BY <1>1, <2>2, <3>2 DEF NewRecord
  <2>3. QED
    BY <1>1, <2>1, <2>2, StoreEffect
<1>2. ASSUME NEW a \in Attempts, Expire(a) PROVE Lifetimes'
  <2>1. HasKey(a) /\ DocId(a) \in Docs /\ Expired(a)
    BY <1>2, DocIdTyped DEF Expire, AsksFit, ExpiringIsOld
  <2>2. clock - firstSaved[DocId(a)] > TTL
    BY <2>1, BoundsAssumption DEF Expired, ExpiringIsOld, TypeOK
  <2>3. QED
    BY <1>2, <2>1, <2>2 DEF Expire, Lifetimes, TypeOK, history
<1>3. CASE Tick
  BY <1>3, BoundsAssumption DEF Tick, Lifetimes, TypeOK, history
<1>4. CASE UNCHANGED <<clock, records, firstSaved>>
  BY <1>4 DEF Lifetimes
<1>5. QED
  BY <1>1, <1>2, <1>3, <1>4 DEF Next, Step, Arrive, Crash, MiddlewareFails, LookUp,
     HandlerActs, HandlerRefuses, HandlerFails, Save, WriteRecord, SaveFails, Respond, vars, history

LEMMA ExpiringStep ==
  ASSUME TypeOK, AsksFit, Lifetimes, ExpiringIsOld, [Next]_vars
  PROVE  ExpiringIsOld'
<1> SUFFICES ASSUME NEW b \in Attempts
             PROVE  lookedAt'[b] <= clock' /\ (pc'[b] = "expire" => Expired(b)')
  BY DEF ExpiringIsOld
<1>1. lookedAt[b] <= clock /\ (pc[b] = "expire" => Expired(b))
  BY DEF ExpiringIsOld
<1>2. CASE LookUp(b)
  <2>1. HasKey(b) /\ DocId(b) \in Docs /\ DocId(b)' = DocId(b)
    BY <1>2, DocIdTyped DEF LookUp, AsksFit, DocId
  <2>2. lookedAt'[b] = clock /\ clock' = clock /\ firstSaved' = firstSaved
    BY <1>2 DEF LookUp, TypeOK
  <2>3. ASSUME pc'[b] = "expire" PROVE Expired(b)'
    <3>1. records[DocId(b)] # NoRecord /\ ~Fresh(records[DocId(b)])
      BY <1>2, <2>3 DEF LookUp, Goto, TypeOK
    <3>2. records[DocId(b)] \in Record
      BY <2>1, <3>1 DEF TypeOK
    <3>3. /\ firstSaved[DocId(b)] # -1 /\ firstSaved[DocId(b)] <= records[DocId(b)].savedAt
          /\ firstSaved[DocId(b)] \in Int
      BY <2>1, <3>1, BoundsAssumption DEF Lifetimes, TypeOK
    <3>4. clock - records[DocId(b)].savedAt > TTL
      BY <3>1, <3>2, BoundsAssumption DEF Fresh, Record, TypeOK
    <3>5. QED
      BY <2>1, <2>2, <3>2, <3>3, <3>4, BoundsAssumption DEF Expired, Record, TypeOK
  <2>4. QED
    BY <2>2, <2>3 DEF TypeOK
<1>3. ASSUME ~LookUp(b) PROVE lookedAt'[b] = lookedAt[b] /\ clock <= clock'
  <2>1. ASSUME NEW a \in Attempts, LookUp(a), a # b
        PROVE  lookedAt'[b] = lookedAt[b] /\ clock <= clock'
    BY <2>1 DEF LookUp, TypeOK
  <2>2. CASE Tick
    BY <2>2 DEF Tick, TypeOK, history
  <2>3. CASE UNCHANGED <<clock, lookedAt>>
    BY <2>3 DEF TypeOK
  <2>4. QED
    BY <1>3, <2>1, <2>2, <2>3 DEF Next, Step, Arrive, Crash, MiddlewareFails, Expire,
       HandlerActs, HandlerRefuses, HandlerFails, Save, WriteRecord, SaveFails, Respond, vars, history
<1>4. ASSUME ~LookUp(b), pc'[b] = "expire" PROVE pc[b] = "expire"
  BY <1>4 DEF Next, Step, Arrive, Crash, MiddlewareFails, LookUp, Expire, HandlerActs,
     HandlerRefuses, HandlerFails, Save, WriteRecord, SaveFails, Respond, Tick, vars, Goto, Dies, TypeOK
<1>5. ASSUME ~LookUp(b), pc'[b] = "expire" PROVE Expired(b)'
  <2>1. pc[b] = "expire" /\ Expired(b) /\ HasKey(b) /\ DocId(b) \in Docs
    BY <1>1, <1>4, <1>5, DocIdTyped DEF AsksFit
  <2>2. /\ DocId(b)' = DocId(b) /\ firstSaved'[DocId(b)] # -1
        /\ firstSaved'[DocId(b)] <= firstSaved[DocId(b)]
        /\ firstSaved[DocId(b)] \in Int /\ firstSaved'[DocId(b)] \in Int
    BY <2>1, OverStays, FirstSavedFalls DEF DocId, Expired
  <2>3. lookedAt[b] \in Int /\ TTL \in Int /\ lookedAt'[b] = lookedAt[b]
    BY <1>3, <1>5, BoundsAssumption DEF TypeOK
  <2>4. QED
    BY <2>1, <2>2, <2>3 DEF Expired
<1>6. ASSUME ~LookUp(b) PROVE lookedAt'[b] <= clock'
  <2>1. clock \in Int /\ clock' \in Int /\ lookedAt[b] \in Int
    BY TypeStep, BoundsAssumption DEF TypeOK
  <2>2. QED
    BY <1>1, <1>3, <1>6, <2>1
<1>7. QED
  BY <1>2, <1>5, <1>6

-----------------------------------------------------------------------------
(* No second effect for a client that was served                           *)

LEMMA ServedStep ==
  ASSUME TypeOK, AsksFit, Lifetimes, ServedWasSaved, [Next]_vars
  PROVE  ServedWasSaved'
<1> SUFFICES ASSUME NEW a \in Attempts, HasKey(a)', (pc[a] = "respond" \/ Served(a))'
             PROVE  (firstSaved[DocId(a)] # -1)'
  BY DEF ServedWasSaved
<1> DEFINE Known == HasKey(a) /\ (pc[a] = "respond" \/ Served(a))
<1>1. CASE Known
  <2>1. firstSaved[DocId(a)] # -1 /\ DocId(a) \in Docs /\ pc[a] # "idle"
    BY <1>1, DocIdTyped DEF ServedWasSaved, AsksFit, Served
  <2>2. DocId(a)' = DocId(a)
    BY <2>1, OverStays DEF DocId
  <2>3. QED
    BY <2>1, <2>2, FirstSavedFalls
<1>2. CASE LookUp(a) /\ ~Known
  <2>1. HasKey(a) /\ DocId(a) \in Docs /\ DocId(a)' = DocId(a)
    BY <1>2, DocIdTyped DEF LookUp, AsksFit, DocId
  <2>2. records[DocId(a)] # NoRecord
    BY <1>2, <2>1 DEF LookUp, Goto, Served, TypeOK
  <2>3. QED
    BY <1>2, <2>1, <2>2 DEF LookUp, Lifetimes
<1>3. CASE WriteRecord(a) /\ ~Known
  <2>1. HasKey(a) /\ DocId(a) \in Docs /\ DocId(a)' = DocId(a)
    BY <1>3, DocIdTyped DEF WriteRecord, AsksFit, DocId
  <2>2. stamp[a] \in Int /\ stamp[a] # -1
    BY BoundsAssumption DEF TypeOK
  <2>3. \/ firstSaved'[DocId(a)] = stamp[a]
        \/ firstSaved[DocId(a)] # -1 /\ firstSaved'[DocId(a)] = firstSaved[DocId(a)]
    BY <1>3, <2>1 DEF WriteRecord, Store, TypeOK
  <2>4. QED
    BY <2>1, <2>2, <2>3
<1>4. CASE ~Known /\ ~LookUp(a) /\ ~WriteRecord(a)
  <2>1. ASSUME HasKey(a) PROVE FALSE
    <3>1. pc[a] # "respond" /\ ~Served(a)
      BY <1>4, <2>1
    <3>2. pc'[a] # "respond"
      BY <1>4, <2>1, <3>1 DEF Next, Step, Arrive, Crash, MiddlewareFails, LookUp, Expire,
         HandlerActs, HandlerRefuses, HandlerFails, Save, WriteRecord, SaveFails, Respond, Tick, vars,
         Goto, Dies, TypeOK
    <3>3. reply'[a] = reply[a] \/ reply'[a].kind \in {"refused", "error"}
      BY <1>4, <3>1 DEF Next, Step, Arrive, Crash, MiddlewareFails, LookUp, Expire,
         HandlerActs, HandlerRefuses, HandlerFails, Save, WriteRecord, SaveFails, Respond, Tick, vars,
         Hears, TypeOK
    <3>4. QED
      BY <3>1, <3>2, <3>3 DEF Served
  <2>2. ASSUME ~HasKey(a) PROVE FALSE
    <3>1. ASSUME pc[a] # "idle" PROVE FALSE
      BY <2>2, <3>1, OverStays DEF HasKey
    <3>2. ASSUME pc[a] = "idle" PROVE FALSE
      <4>1. pc'[a] # "respond"
        BY <3>2 DEF Next, Step, Arrive, Crash, MiddlewareFails, LookUp, Expire,
           HandlerActs, HandlerRefuses, HandlerFails, Save, WriteRecord, SaveFails, Respond, Tick, vars,
           Goto, Dies, TypeOK
      <4>2. reply'[a] = reply[a] /\ reply[a].kind = "none"
        BY <3>2 DEF Next, Step, Arrive, Crash, MiddlewareFails, LookUp, Expire,
           HandlerActs, HandlerRefuses, HandlerFails, Save, WriteRecord, SaveFails, Respond, Tick, vars,
           Hears, TypeOK, AsksFit
      <4>3. QED
        BY <4>1, <4>2 DEF Served
    <3>3. QED
      BY <3>1, <3>2
  <2>3. QED
    BY <2>1, <2>2
<1>5. QED
  BY <1>1, <1>2, <1>3, <1>4

LEMMA RunsStep ==
  ASSUME TypeOK, AsksFit, ActedFits, PriorOver, Lifetimes, ExpiringIsOld,
         ServedWasSaved, RunsOnlyExpired, [Next]_vars
  PROVE  RunsOnlyExpired'
<1> DEFINE Runs(b) == pc[b] \in {"handle", "save", "write", "respond"} \/ b \in acted
<1> SUFFICES ASSUME NEW a \in Attempts, NEW b \in Attempts,
                    SameKey(a, b)', Served(a)', a \in prior'[b], Runs(b)'
             PROVE  (lookedAt[b] - firstSaved[DocId(a)] > TTL)'
  BY DEF RunsOnlyExpired
<1>1. pc[b] # "idle"
  <2>1. ASSUME pc[b] = "idle", ~Arrive(b) PROVE FALSE
    BY <2>1 DEF Next, Step, Arrive, Crash, MiddlewareFails, LookUp, Expire, HandlerActs,
       HandlerRefuses, HandlerFails, Save, WriteRecord, SaveFails, Respond, Tick, vars, Goto, Dies,
       InFlight, TypeOK, ActedFits, history
  <2>2. ASSUME Arrive(b) PROVE FALSE
    <3>1. b \notin acted'
      BY <2>2 DEF Arrive, ActedFits
    <3>2. pc'[b] = "handle" /\ ask'[b].key = NoKey
      BY <2>2, <3>1 DEF Arrive, Goto, TypeOK
    <3>3. QED
      BY <3>2 DEF SameKey, DocId, HasKey
  <2>3. QED
    BY <2>1, <2>2
<1>2. a \in prior[b] /\ ask'[b] = ask[b]
  BY <1>1, OverStays
<1>3. Over(a) /\ pc[a] # "idle"
  BY <1>2 DEF PriorOver, Over
<1>4. Served(a) /\ SameKey(a, b) /\ HasKey(a) /\ DocId(a)' = DocId(a)
  BY <1>2, <1>3, OverStays DEF Served, SameKey, HasKey, DocId
<1>5. /\ DocId(a) \in Docs /\ firstSaved[DocId(a)] # -1
      /\ firstSaved'[DocId(a)] <= firstSaved[DocId(a)]
      /\ firstSaved[DocId(a)] \in Int /\ firstSaved'[DocId(a)] \in Int
  BY <1>4, DocIdTyped, FirstSavedFalls DEF ServedWasSaved
<1>11. lookedAt[b] \in Int /\ clock \in Int /\ TTL \in Int
  BY BoundsAssumption DEF TypeOK
<1>6. CASE LookUp(b)
  <2>1. lookedAt'[b] = clock /\ b \notin acted'
    BY <1>6 DEF LookUp, TypeOK, ActedFits
  <2>2. pc'[b] = "handle"
    BY <1>6, <2>1 DEF LookUp, Goto, TypeOK
  <2>3. records[DocId(a)] = NoRecord
    BY <1>4, <1>6, <2>2 DEF LookUp, Goto, TypeOK, SameKey
  <2>4. clock - firstSaved[DocId(a)] > TTL
    BY <1>5, <2>3 DEF Lifetimes
  <2>5. QED
    BY <1>4, <1>5, <1>11, <2>1, <2>4
<1>7. ASSUME ~LookUp(b) PROVE lookedAt'[b] = lookedAt[b]
  <2>1. ASSUME NEW c \in Attempts, LookUp(c), c # b PROVE lookedAt'[b] = lookedAt[b]
    BY <2>1 DEF LookUp, TypeOK
  <2>2. QED
    BY <1>7, <2>1 DEF Next, Step, Arrive, Crash, MiddlewareFails, Expire, HandlerActs,
       HandlerRefuses, HandlerFails, Save, WriteRecord, SaveFails, Respond, Tick, vars, history
<1>8. CASE Expire(b)
  <2>1. Expired(b) /\ DocId(b) = DocId(a) /\ ~LookUp(b)
    BY <1>4, <1>8 DEF Expire, ExpiringIsOld, SameKey, LookUp
  <2>2. QED
    BY <1>4, <1>5, <1>7, <1>11, <2>1 DEF Expired
<1>9. CASE ~LookUp(b) /\ ~Expire(b)
  <2>1. Runs(b)
    BY <1>1, <1>9 DEF Next, Step, Arrive, Crash, MiddlewareFails, LookUp, Expire,
       HandlerActs, HandlerRefuses, HandlerFails, Save, WriteRecord, SaveFails, Respond, Tick, vars,
       Goto, Dies, TypeOK, history
  <2>2. lookedAt[b] - firstSaved[DocId(a)] > TTL
    BY <1>2, <1>4, <2>1 DEF RunsOnlyExpired
  <2>3. QED
    BY <1>4, <1>5, <1>7, <1>9, <1>11, <2>2
<1>10. QED
  BY <1>6, <1>8, <1>9

-----------------------------------------------------------------------------
(* What is stored and replayed                                             *)

LEMMA AuthorStays ==
  ASSUME TypeOK, AsksFit, [Next]_vars, NEW b \in Attempts, Author(b)
  PROVE  Author(b)' /\ ask'[b] = ask[b]
<1>1. ask'[b] = ask[b]
  BY OverStays DEF Author
<1>2. CASE Over(b)
  <2>1. pc'[b] = pc[b] /\ reply'[b] = reply[b]
    BY <1>2, OverStays
  <2>2. b \in acted'
    BY DEF Next, Step, Arrive, Crash, MiddlewareFails, LookUp, Expire, HandlerActs,
       HandlerRefuses, HandlerFails, Save, WriteRecord, SaveFails, Respond, Tick, vars, Author
  <2>3. QED
    BY <1>1, <2>1, <2>2 DEF Author
<1>3. CASE pc[b] = "respond"
  BY <1>1, <1>3 DEF Next, Step, Arrive, Crash, MiddlewareFails, LookUp, Expire, HandlerActs,
     HandlerRefuses, HandlerFails, Save, WriteRecord, SaveFails, Respond, Tick, vars, Author, Goto,
     Hears, Dies, TypeOK
<1>4. QED
  BY <1>2, <1>3 DEF Over, Author

LEMMA RecordsStep ==
  ASSUME TypeOK, AsksFit, ActedFits, RecordsTrue, [Next]_vars
  PROVE  RecordsTrue'
<1>1. TypeOK'
  BY TypeStep
<1> SUFFICES ASSUME NEW d \in Docs, NEW b \in Attempts, records'[d] # NoRecord,
                    b = records'[d].by
             PROVE  Author(b)' /\ HasKey(b)' /\ DocId(b)' = d
  BY <1>1 DEF RecordsTrue, TypeOK, Record
<1>2. CASE records'[d] = records[d]
  <2>1. Author(b) /\ HasKey(b) /\ DocId(b) = d
    BY <1>2 DEF RecordsTrue
  <2>2. QED
    BY <2>1, AuthorStays DEF HasKey, DocId
<1>3. ASSUME NEW a \in Attempts, WriteRecord(a) \/ SaveFails(a), Store(a),
             records'[d] # records[d]
      PROVE  Author(b)' /\ HasKey(b)' /\ DocId(b)' = d
  <2>1. pc[a] = "write" /\ a \in acted /\ reply[a].kind = "none"
    BY <1>3 DEF WriteRecord, SaveFails, ActedFits
  <2>2. HasKey(a) /\ d = DocId(a) /\ records'[d] = NewRecord(a)
    BY <1>3, <2>1, StoreEffect DEF AsksFit
  <2>3. b = a
    BY <2>2 DEF NewRecord
  <2>4. Author(a)'
    BY <1>3, <2>1 DEF WriteRecord, SaveFails, Author, Goto, Hears, TypeOK
  <2>5. ask' = ask
    BY <1>3 DEF WriteRecord, SaveFails
  <2>6. QED
    BY <2>2, <2>3, <2>4, <2>5 DEF HasKey, DocId
<1>4. ASSUME NEW a \in Attempts, Expire(a) PROVE records'[d] = records[d]
  BY <1>4 DEF Expire, TypeOK
<1>5. QED
  BY <1>2, <1>3, <1>4 DEF Next, Step, Arrive, Crash, MiddlewareFails, LookUp, HandlerActs,
     HandlerRefuses, HandlerFails, Save, WriteRecord, SaveFails, Respond, Tick, vars

LEMMA ReplaysStep ==
  ASSUME TypeOK, AsksFit, ActedFits, RecordsTrue, ReplaysTrue, [Next]_vars
  PROVE  ReplaysTrue'
<1>1. TypeOK'
  BY TypeStep
<1> SUFFICES ASSUME NEW a \in Attempts, NEW b \in Attempts, reply'[a].kind = "replay",
                    b = reply'[a].from
             PROVE  Author(b)' /\ SameKey(a, b)'
  BY <1>1 DEF ReplaysTrue, TypeOK, Reply
<1>2. CASE reply'[a] = reply[a]
  <2>1. Author(b) /\ SameKey(a, b)
    BY <1>2 DEF ReplaysTrue
  <2>2. pc[a] # "idle"
    BY <1>2 DEF AsksFit
  <2>3. QED
    BY <2>1, <2>2, AuthorStays, OverStays DEF SameKey, HasKey, DocId
<1>3. CASE reply'[a] # reply[a]
  <2>1. LookUp(a)
    <3>1. ASSUME ~LookUp(a) PROVE FALSE
      BY <1>3, <3>1 DEF Next, Step, Arrive, Crash, MiddlewareFails, LookUp, Expire,
         HandlerActs, HandlerRefuses, HandlerFails, Save, WriteRecord, SaveFails, Respond, Tick, vars,
         Hears, TypeOK
    <3>2. QED
      BY <3>1
  <2>2. HasKey(a) /\ DocId(a) \in Docs /\ ask' = ask
    BY <2>1, DocIdTyped DEF LookUp, AsksFit
  <2>3. records[DocId(a)] # NoRecord /\ b = records[DocId(a)].by
    BY <1>3, <2>1 DEF LookUp, Hears, TypeOK
  <2>4. Author(b) /\ HasKey(b) /\ DocId(b) = DocId(a)
    BY <2>2, <2>3 DEF RecordsTrue
  <2>5. ask[b] # NoAsk
    BY <2>4, DocIdTyped
  <2>6. QED
    BY <2>2, <2>4, <2>5, AuthorStays DEF SameKey, HasKey, DocId
<1>4. QED
  BY <1>2, <1>3

-----------------------------------------------------------------------------
(* Fresh records are deleted in races only                                 *)

\* Whoever is about to delete a document that holds a fresh record came before
\* the author of that record was over.
DeletersCameFirst ==
    \A a \in Attempts :
        /\ pc[a] = "expire"
        /\ records[DocId(a)] # NoRecord /\ Fresh(records[DocId(a)])
        => records[DocId(a)].by \notin prior[a]

LEMMA DeletersStep ==
  ASSUME TypeOK, AsksFit, PriorOver, DeletersCameFirst, [Next]_vars
  PROVE  DeletersCameFirst'
<1> SUFFICES ASSUME NEW a \in Attempts, pc'[a] = "expire",
                    (records[DocId(a)] # NoRecord)', Fresh(records[DocId(a)])'
             PROVE  (records[DocId(a)].by \notin prior[a])'
  BY DEF DeletersCameFirst
<1> DEFINE d == DocId(a)
<1>1. CASE LookUp(a)
  <2>1. d' = d /\ records' = records /\ clock' = clock
    BY <1>1 DEF LookUp, DocId
  <2>2. ~Fresh(records[d])
    BY <1>1, <2>1 DEF LookUp, Goto, TypeOK
  <2>3. QED
    BY <2>1, <2>2 DEF Fresh
<1>2. CASE ~LookUp(a)
  <2>1. pc[a] = "expire"
    BY <1>2 DEF Next, Step, Arrive, Crash, MiddlewareFails, LookUp, Expire, HandlerActs,
       HandlerRefuses, HandlerFails, Save, WriteRecord, SaveFails, Respond, Tick, vars, Goto, Dies, TypeOK
  <2>2. HasKey(a) /\ d \in Docs
    BY <2>1, DocIdTyped DEF AsksFit
  <2>3. d' = d
    BY <2>1, OverStays DEF DocId
  <2>4. prior'[a] = prior[a]
    BY <2>1 DEF Next, Step, Arrive, Crash, MiddlewareFails, LookUp, Expire, HandlerActs,
       HandlerRefuses, HandlerFails, Save, WriteRecord, SaveFails, Respond, Tick, vars, history, TypeOK
  <2>5. CASE records'[d] = records[d]
    <3>1. clock <= clock' /\ clock \in Int /\ clock' \in Int
      <4>1. clock \in Int /\ clock' \in Int
        BY TypeStep, BoundsAssumption DEF TypeOK
      <4>2. CASE Tick
        BY <4>1, <4>2 DEF Tick
      <4>3. CASE clock' = clock
        BY <4>1, <4>3
      <4>4. QED
        BY <4>2, <4>3 DEF Next, Step, Arrive, Crash, MiddlewareFails, LookUp, Expire,
           HandlerActs, HandlerRefuses, HandlerFails, Save, WriteRecord, SaveFails, Respond, vars
    <3>2. records[d] # NoRecord /\ records[d] \in Record
      BY <2>2, <2>3, <2>5 DEF TypeOK
    <3>3. Fresh(records[d])
      <4>1. clock' - records[d].savedAt <= TTL /\ records[d].savedAt \in Nat
        BY <2>3, <2>5, <3>2 DEF Fresh, Record
      <4>2. QED
        BY <3>1, <4>1, BoundsAssumption DEF Fresh
    <3>4. QED
      BY <2>1, <2>3, <2>4, <2>5, <3>2, <3>3 DEF DeletersCameFirst
  <2>6. CASE records'[d] # records[d]
    <3>1. PICK b \in Attempts : pc[b] = "write" /\ Store(b)
      <4>1. ASSUME NEW b \in Attempts, Expire(b) PROVE FALSE
        <5>1. HasKey(b) /\ DocId(b) \in Docs
          BY <4>1, DocIdTyped DEF Expire, AsksFit
        <5>2. records'[d] = IF d = DocId(b) THEN NoRecord ELSE records[d]
          BY <2>2, <4>1, <5>1 DEF Expire, TypeOK
        <5>3. QED
          BY <2>3, <2>6, <5>2
      <4>2. QED
        BY <2>6, <4>1 DEF Next, Step, Arrive, Crash, MiddlewareFails, LookUp, HandlerActs,
           HandlerRefuses, HandlerFails, Save, WriteRecord, SaveFails, Respond, Tick, vars
    <3>2. records'[d] = NewRecord(b)
      BY <2>2, <2>3, <2>6, <3>1 DEF Store, TypeOK
    <3>3. records'[d].by = b
      BY <3>2 DEF NewRecord
    <3>4. b \notin prior[a]
      BY <3>1 DEF PriorOver, Over
    <3>5. QED
      BY <2>3, <2>4, <3>3, <3>4
  <2>7. QED
    BY <2>5, <2>6
<1>3. QED
  BY <1>1, <1>2

-----------------------------------------------------------------------------
(* The theorems                                                            *)

LEMMA InitInv == ASSUME Init PROVE Inv
<1> USE BoundsAssumption DEF Init
<1>1. TypeOK
  BY DEF TypeOK, Phases, Reply
<1>2. AsksFit /\ ActedFits /\ PriorOver
  BY DEF AsksFit, ActedFits, PriorOver
<1>3. Lifetimes /\ ExpiringIsOld
  BY DEF Lifetimes, ExpiringIsOld
<1>4. ServedWasSaved /\ RunsOnlyExpired /\ RecordsTrue /\ ReplaysTrue
  BY DEF ServedWasSaved, RunsOnlyExpired, RecordsTrue, ReplaysTrue, Served
<1>5. QED
  BY <1>1, <1>2, <1>3, <1>4 DEF Inv

LEMMA InvStep == ASSUME Inv, [Next]_vars PROVE Inv'
BY TypeStep, AsksStep, ActedStep, PriorStep, LifetimesStep, ExpiringStep, ServedStep,
   RunsStep, RecordsStep, ReplaysStep DEF Inv

LEMMA InvAlways == Spec => []Inv
BY InitInv, InvStep, PTL DEF Spec

\* Every variable keeps its type, and no record is from the future.
THEOREM IdempotencyTyped == Spec => []TypeOK
<1>1. Inv => TypeOK
  BY DEF Inv
<1>2. QED
  BY <1>1, InvAlways, PTL

\* A client that was served and repeats the call is not acted upon again
\* before the key expires, whatever crashes, fails or runs at the same time.
THEOREM ServedOnce == Spec => []ServedIsNotRepeated
<1>1. Inv => ServedIsNotRepeated
  BY DEF Inv, RunsOnlyExpired, ServedIsNotRepeated
<1>2. QED
  BY <1>1, InvAlways, PTL

\* What is replayed happened, and its author never heard a refusal.
THEOREM ReplaysAreTrue == Spec => []ReplayTellsWhatHappened
<1>1. Inv => ReplayTellsWhatHappened
  BY DEF Inv, ReplaysTrue, ReplayTellsWhatHappened, Author
<1>2. QED
  BY <1>1, InvAlways, PTL

LEMMA DeletersAlways == Spec => []DeletersCameFirst
<1>1. Init => DeletersCameFirst
  BY DEF Init, DeletersCameFirst
<1>2. Inv /\ DeletersCameFirst /\ [Next]_vars => DeletersCameFirst'
  BY DeletersStep DEF Inv
<1>3. QED
  BY <1>1, <1>2, InvAlways, PTL DEF Spec

\* A record that has not expired is deleted only by an attempt that had found
\* an older one expired, and that came before the author of this one was over.
THEOREM FreshRecordsGoInRacesOnly == Spec => FreshRecordsGoInRaces
<1> DEFINE Races ==
        \A d \in Docs :
            records[d] # NoRecord /\ Fresh(records[d]) /\ records'[d] = NoRecord =>
                \E a \in Attempts : /\ pc[a] = "expire" /\ DocId(a) = d
                                   /\ lookedAt[a] - firstSaved[d] > TTL
                                   /\ records[d].by \notin prior[a]
<1>1. Inv /\ DeletersCameFirst /\ [Next]_vars => Races
  <2> SUFFICES ASSUME Inv, DeletersCameFirst, [Next]_vars, NEW d \in Docs,
                      records[d] # NoRecord, Fresh(records[d]), records'[d] = NoRecord
               PROVE  \E a \in Attempts : /\ pc[a] = "expire" /\ DocId(a) = d
                                         /\ lookedAt[a] - firstSaved[d] > TTL
                                         /\ records[d].by \notin prior[a]
    OBVIOUS
  <2>1. ASSUME NEW b \in Attempts, Store(b) PROVE FALSE
    <3>1. records'[d] = records[d] \/ records'[d] = NewRecord(b)
      BY <2>1 DEF Store, Inv, TypeOK
    <3>2. QED
      BY <3>1, NewRecordTyped DEF NewRecord, NoRecord
  <2>2. PICK a \in Attempts : Expire(a)
    BY <2>1 DEF Next, Step, Arrive, Crash, MiddlewareFails, LookUp, HandlerActs,
       HandlerRefuses, HandlerFails, Save, WriteRecord, SaveFails, Respond, Tick, vars
  <2>3. pc[a] = "expire" /\ DocId(a) = d
    <3>1. HasKey(a) /\ DocId(a) \in Docs
      BY <2>2, DocIdTyped DEF Expire, Inv, AsksFit
    <3>2. records'[d] = IF d = DocId(a) THEN NoRecord ELSE records[d]
      BY <2>2, <3>1 DEF Expire, Inv, TypeOK
    <3>3. QED
      BY <2>2, <3>2 DEF Expire
  <2>4. lookedAt[a] - firstSaved[d] > TTL
    BY <2>3 DEF Inv, ExpiringIsOld, Expired
  <2>5. QED
    BY <2>3, <2>4 DEF DeletersCameFirst
<1>2. Inv /\ DeletersCameFirst /\ [Next]_vars => [Races]_vars
  BY <1>1
<1>3. Spec => [][Races]_vars
  BY <1>2, InvAlways, DeletersAlways, PTL DEF Spec
<1>4. QED
  BY <1>3 DEF FreshRecordsGoInRaces
=============================================================================

----------------------------- MODULE Idempotency -----------------------------
(***************************************************************************)
(* The replay of POSTs by Idempotency-Key (middleware/idempotency.ts)      *)
(* around a handler that does its work and then saves its result.          *)
(*                                                                         *)
(* Every HTTP attempt is a process that runs on one of the servers; a      *)
(* retry is another attempt that carries the same key.  The handler is     *)
(* seen from outside: it acts in one step, or refuses, or fails.  That a   *)
(* handler which refuses leaves nothing behind, but for a create whose     *)
(* transaction was run again after its write, is RefusalLeavesNoTrace of   *)
(* BookingProperties.  Of its state one thing is kept: a slot that one     *)
(* create took is refused to the next.                                     *)
(***************************************************************************)
EXTENDS Integers

CONSTANTS
    Attempts,       \* every POST any client ever sends
    Servers,        \* the server instances over the one database
    Keys, NoKey,    \* Idempotency-Key headers, and their absence
    Subjects,       \* what is asked for: a slot, a booking, a message
    Asks,           \* the requests clients may send
    TTL,            \* TTL_HOURS
    MaxClock,       \* bound: the clock stops here
    MaxFailures,    \* bound: how many database calls may fail
    MaxCrashes      \* bound: how many servers may crash by themselves

Endpoints == {"create_booking", "cancel_booking", "reschedule_booking",
              "create_message", "send_confirmation"}

ASSUME AsksAssumption ==
    /\ NoKey \notin Keys /\ "nobody" \notin Attempts
    /\ Asks \subseteq [endpoint: Endpoints, key: Keys \cup {NoKey}, subject: Subjects]
ASSUME BoundsAssumption ==
    /\ TTL \in Nat /\ MaxClock \in Nat /\ MaxFailures \in Nat /\ MaxCrashes \in Nat

\* docId: one document per endpoint and key; the booking of the path is not in it.
Docs == Endpoints \X Keys
NoAsk == [endpoint |-> "none", key |-> NoKey]
NoRecord == [by |-> "nobody"]
Record == [by: Attempts, savedAt: Nat]

Phases == {"idle", "lookup", "expire", "handle", "save", "write", "respond",
           "done", "lost"}

\* What the client hears: its own result, a stored one and whose it is, an
\* ApiError, a 500.
Reply == [kind: {"none", "fresh", "replay", "refused", "error"}, from: Attempts]

VARIABLES
    clock,      \* in hours
    records,    \* the idempotencyKeys collection
    pc,         \* attempt -> phase; "lost": its server is gone
    ask,        \* attempt -> request
    home,       \* attempt -> server
    stamp,      \* attempt -> createdAt of the record it writes
    acted,      \* the attempts whose handler took effect
    reply,      \* attempt -> what the client heard
    failures, crashes,
    prior,      \* history: attempt -> the attempts over when it arrived
    lookedAt,   \* history: attempt -> the hour it looked its key up
    firstSaved  \* history: document -> the earliest createdAt of its records, or -1

history == <<prior, lookedAt, firstSaved>>
vars == <<clock, records, pc, ask, home, stamp, acted, reply, failures, crashes,
          history>>

TypeOK ==
    /\ clock \in 0..MaxClock
    /\ records \in [Docs -> Record \cup {NoRecord}]
    /\ \A d \in Docs : records[d] # NoRecord => records[d].savedAt <= clock
    /\ pc \in [Attempts -> Phases]
    /\ ask \in [Attempts -> Asks \cup {NoAsk}]
    /\ home \in [Attempts -> Servers]
    /\ stamp \in [Attempts -> 0..MaxClock]
    /\ \A a \in Attempts : stamp[a] <= clock
    /\ acted \subseteq Attempts
    /\ reply \in [Attempts -> Reply]
    /\ failures \in 0..MaxFailures
    /\ crashes \in 0..MaxCrashes
    /\ prior \in [Attempts -> SUBSET Attempts]
    /\ lookedAt \in [Attempts -> 0..MaxClock]
    /\ firstSaved \in [Docs -> {-1} \cup 0..MaxClock]

Init ==
    /\ clock = 0
    /\ records = [d \in Docs |-> NoRecord]
    /\ pc = [a \in Attempts |-> "idle"]
    /\ ask = [a \in Attempts |-> NoAsk]
    /\ home \in [Attempts -> Servers]
    /\ stamp = [a \in Attempts |-> 0]
    /\ acted = {}
    /\ reply = [a \in Attempts |-> [kind |-> "none", from |-> a]]
    /\ failures = 0 /\ crashes = 0
    /\ prior = [a \in Attempts |-> {}]
    /\ lookedAt = [a \in Attempts |-> 0]
    /\ firstSaved = [d \in Docs |-> -1]

-----------------------------------------------------------------------------
HasKey(a) == ask[a].key # NoKey
DocId(a) == <<ask[a].endpoint, ask[a].key>>

Goto(a, phase) == pc' = [pc EXCEPT ![a] = phase]
Hears(a, kind, from) == reply' = [reply EXCEPT ![a] = [kind |-> kind, from |-> from]]
Over(a) == pc[a] \in {"done", "lost"}
InFlight(s) == {a \in Attempts : home[a] = s /\ pc[a] # "idle" /\ ~Over(a)}

\* A database call fails; `failures` counts them.
Fails == failures < MaxFailures /\ failures' = failures + 1

\* The process ends and with it every attempt it was serving; it is started
\* again, and nothing of it was kept in memory.
Dies(s) == pc' = [a \in Attempts |-> IF a \in InFlight(s) THEN "lost" ELSE pc[a]]

Arrive(a) ==
    /\ pc[a] = "idle"
    /\ \E q \in Asks :
        /\ ask' = [ask EXCEPT ![a] = q]
        /\ Goto(a, IF q.key = NoKey THEN "handle" ELSE "lookup")
    /\ prior' = [prior EXCEPT ![a] = {b \in Attempts : Over(b)}]
    /\ UNCHANGED <<clock, records, home, stamp, acted, reply, failures, crashes,
                   lookedAt, firstSaved>>

\* A faulty Fresh: a record of exactly TTL hours is thrown away.
FreshBelow(rec) == clock - rec.savedAt < TTL

Fresh(rec) == clock - rec.savedAt <= TTL

\* A faulty LookUp: it does not return after a replay.
LookUpOnwards(a) ==
    /\ pc[a] = "lookup"
    /\ lookedAt' = [lookedAt EXCEPT ![a] = clock]
    /\ LET rec == records[DocId(a)] IN
        \/ rec = NoRecord /\ Goto(a, "handle") /\ UNCHANGED reply
        \/ /\ rec # NoRecord /\ Goto(a, "expire")
           /\ IF Fresh(rec) THEN Hears(a, "replay", rec.by) ELSE UNCHANGED reply
    /\ UNCHANGED <<clock, records, ask, home, stamp, acted, failures, crashes,
                   prior, firstSaved>>

\* ref.get and what follows it up to the next await.
LookUp(a) ==
    /\ pc[a] = "lookup"
    /\ lookedAt' = [lookedAt EXCEPT ![a] = clock]
    /\ LET rec == records[DocId(a)] IN
        \/ rec = NoRecord /\ Goto(a, "handle") /\ UNCHANGED reply
        \/ /\ rec # NoRecord /\ Fresh(rec)
           /\ Goto(a, "done") /\ Hears(a, "replay", rec.by)
        \/ rec # NoRecord /\ ~Fresh(rec) /\ Goto(a, "expire") /\ UNCHANGED reply
    /\ UNCHANGED <<clock, records, ask, home, stamp, acted, failures, crashes,
                   prior, firstSaved>>

\* ref.delete: whatever the document holds by now.
Expire(a) ==
    /\ pc[a] = "expire"
    /\ records' = [records EXCEPT ![DocId(a)] = NoRecord]
    /\ Goto(a, "handle")
    /\ UNCHANGED <<clock, ask, home, stamp, acted, reply, failures, crashes, history>>

\* The middleware's promise is nobody's: express 4 drops it, and an unhandled
\* rejection ends the Node process with everything it was serving.
MiddlewareFails(a) ==
    /\ pc[a] \in {"lookup", "expire"}
    /\ Fails /\ Dies(home[a])
    /\ UNCHANGED <<clock, records, ask, home, stamp, acted, reply, crashes, history>>

-----------------------------------------------------------------------------
(* The handler between next() and saveIdempotent                           *)

\* The slot a create asks for belongs to another create already.
Taken(a) ==
    /\ ask[a].endpoint = "create_booking"
    /\ \E b \in acted \ {a} : /\ ask[b].endpoint = "create_booking"
                              /\ ask[b].subject = ask[a].subject

\* The effect lands.  Its acknowledgement may be lost: a 500, nothing saved.
\* Or the database client runs the transaction of a create again: it meets its
\* own booking and refuses, or books again what somebody cancelled meanwhile.
HandlerActs(a) ==
    /\ pc[a] = "handle" /\ ~Taken(a)
    /\ acted' = acted \cup {a}
    /\ \/ Goto(a, "save") /\ UNCHANGED <<reply, failures>>
       \/ Fails /\ Goto(a, "done") /\ Hears(a, "error", a)
       \/ ask[a].endpoint = "create_booking" /\ Fails /\ UNCHANGED <<pc, reply>>
    /\ UNCHANGED <<clock, records, ask, home, stamp, crashes, history>>

\* A faulty HandlerRefuses: it goes on to save.
RefuseAndSave(a) ==
    /\ pc[a] = "handle" /\ ask[a].endpoint # "create_message"
    /\ Goto(a, "save") /\ Hears(a, "refused", a)
    /\ UNCHANGED <<clock, records, ask, home, stamp, acted, failures, crashes, history>>

\* The handler throws an ApiError: saveIdempotent is never reached.  A message
\* is taken from everybody.
HandlerRefuses(a) ==
    /\ pc[a] = "handle" /\ ask[a].endpoint # "create_message"
    /\ Goto(a, "done") /\ Hears(a, "refused", a)
    /\ UNCHANGED <<clock, records, ask, home, stamp, acted, failures, crashes, history>>

\* A faulty HandlerFails: the rejection reaches nobody, as without asyncHandler.
FailUnheard(a) ==
    /\ pc[a] = "handle"
    /\ Fails /\ Goto(a, "unheard")
    /\ UNCHANGED <<clock, records, ask, home, stamp, acted, reply, crashes, history>>

HandlerFails(a) ==
    /\ pc[a] = "handle"
    /\ Fails /\ Goto(a, "done") /\ Hears(a, "error", a)
    /\ UNCHANGED <<clock, records, ask, home, stamp, acted, crashes, history>>

-----------------------------------------------------------------------------
(* saveIdempotent and the response                                         *)

\* The handler is back and calls saveIdempotent, which reads the clock and
\* then waits for the write.  Without a key it does nothing.
Save(a) ==
    /\ pc[a] = "save"
    /\ \/ ~HasKey(a) /\ Goto(a, "respond") /\ UNCHANGED stamp
       \/ HasKey(a) /\ Goto(a, "write") /\ stamp' = [stamp EXCEPT ![a] = clock]
    /\ UNCHANGED <<clock, records, ask, home, acted, reply, failures, crashes, history>>

\* A faulty NewRecord: it notes when the record expires.
ExpiringRecord(a) == [by |-> a, savedAt |-> stamp[a] + TTL]

NewRecord(a) == [by |-> a, savedAt |-> stamp[a]]

\* The record lands, over whatever another attempt wrote under the key.
Store(a) ==
    /\ records' = [records EXCEPT ![DocId(a)] = NewRecord(a)]
    /\ firstSaved' = [firstSaved EXCEPT ![DocId(a)] =
                         IF @ = -1 \/ stamp[a] < @ THEN stamp[a] ELSE @]

WriteRecord(a) ==
    /\ pc[a] = "write"
    /\ Store(a)
    /\ Goto(a, "respond")
    /\ UNCHANGED <<clock, ask, home, stamp, acted, reply, failures, crashes,
                   prior, lookedAt>>

Respond(a) ==
    /\ pc[a] = "respond"
    /\ Goto(a, "done") /\ Hears(a, "fresh", a)
    /\ UNCHANGED <<clock, records, ask, home, stamp, acted, failures, crashes, history>>

\* Saving fails, with or without effect: the client of a handler that did its
\* work hears a 500.
SaveFails(a) ==
    /\ pc[a] = "write"
    /\ Fails
    /\ Store(a) \/ UNCHANGED <<records, firstSaved>>
    /\ Goto(a, "done") /\ Hears(a, "error", a)
    /\ UNCHANGED <<clock, ask, home, stamp, acted, crashes, prior, lookedAt>>

-----------------------------------------------------------------------------
Crash(s) ==
    /\ crashes < MaxCrashes /\ InFlight(s) # {}
    /\ crashes' = crashes + 1
    /\ Dies(s)
    /\ UNCHANGED <<clock, records, ask, home, stamp, acted, reply, failures, history>>

Tick ==
    /\ clock < MaxClock
    /\ clock' = clock + 1
    /\ UNCHANGED <<records, pc, ask, home, stamp, acted, reply, failures, crashes, history>>

Step(a) == \/ LookUp(a) \/ Expire(a) \/ HandlerActs(a) \/ HandlerRefuses(a)
           \/ HandlerFails(a) \/ Save(a) \/ WriteRecord(a) \/ SaveFails(a)
           \/ Respond(a)

Next ==
    \/ \E a \in Attempts : Arrive(a) \/ Step(a) \/ MiddlewareFails(a)
    \/ \E s \in Servers : Crash(s)
    \/ Tick

Spec == Init /\ [][Next]_vars

\* Every await settles and the event loop runs what is ready.
FairSpec == Spec /\ \A a \in Attempts : WF_vars(Step(a))

-----------------------------------------------------------------------------
(* What the middleware provides                                            *)

SameKey(a, b) == HasKey(a) /\ ask[b] # NoAsk /\ DocId(a) = DocId(b)
Served(a) == reply[a].kind \in {"fresh", "replay"}

\* A client that was given a result, its own or a replayed one, and repeats
\* the call with the same key is not acted upon again, unless the key has
\* expired: TTL hours have passed since the earliest time in a record of it.
\* Concurrent attempts, crashes, failed and late saves notwithstanding.
ServedIsNotRepeated ==
    \A a, b \in Attempts :
        /\ SameKey(a, b) /\ Served(a) /\ a \in prior[b]
        /\ b \in acted
        => lookedAt[b] - firstSaved[DocId(a)] > TTL

\* A replayed result tells of something that happened for that endpoint and
\* key, and its author's client never heard anything that contradicts it: it
\* heard the same, or a 500, or nothing.  No refusal is ever replayed.
ReplayTellsWhatHappened ==
    \A a \in Attempts : reply[a].kind = "replay" =>
        LET b == reply[a].from IN
        /\ b \in acted /\ SameKey(a, b)
        /\ reply[b].kind \in {"none", "fresh", "error"}

\* A record that has not expired is deleted in a race only: by an attempt that
\* found an older one expired, and that came before the author of this one was
\* answered.  Whoever comes after an answer leaves its record alone.
FreshRecordsGoInRaces ==
    [][\A d \in Docs :
          records[d] # NoRecord /\ Fresh(records[d]) /\ records'[d] = NoRecord =>
              \E a \in Attempts : /\ pc[a] = "expire" /\ DocId(a) = d
                                 /\ lookedAt[a] - firstSaved[d] > TTL
                                 /\ records[d].by \notin prior[a]]_vars

\* Every attempt is answered unless its server dies.
EveryAttemptSettles ==
    \A a \in Attempts : (pc[a] # "idle") ~> Over(a)

-----------------------------------------------------------------------------
(* What the documents say, and the code does not do                        *)

\* One key, one effect: POSTs are said to be idempotent by the header.
OneEffectPerKey ==
    \A a, b \in acted : a # b => ~SameKey(a, b)

\* A retry, sent after the first attempt was over, gets the original result
\* and not an error about its own first attempt.
RetryIsNotRefused ==
    \A a, b \in Attempts :
        /\ SameKey(a, b) /\ ask[a] = ask[b]
        /\ a \in acted /\ a \in prior[b]
        /\ lookedAt[b] - lookedAt[a] <= TTL
        => reply[b].kind # "refused"

\* Whoever hears that the booking of its request was cancelled can rely on it.
CancelledWhenToldSo ==
    \A a \in Attempts :
        ask[a].endpoint = "cancel_booking" /\ Served(a) =>
            \E b \in acted : ask[b].endpoint = "cancel_booking"
                             /\ ask[b].subject = ask[a].subject

\* A failing database call is answered by the error handler; no attempt is
\* lost while no server crashes by itself.
FailuresAreAnswered == (\E a \in Attempts : pc[a] = "lost") => crashes > 0

\* The first result of a key is replayed until it expires: a record is never
\* deleted within TTL hours of being saved.
FreshRecordsStay ==
    [][\A d \in Docs :
          records[d] # NoRecord /\ Fresh(records[d]) => records'[d] # NoRecord]_vars
=============================================================================

---------------------------- MODULE MCIdempotency ----------------------------
(***************************************************************************)
(* Small instances of Idempotency: three attempts, two servers, two keys.  *)
(***************************************************************************)
EXTENDS Idempotency, TLC

CONSTANTS a1, a2, a3, s1, s2, k1, k2, x, y

Ask(endpoint, key, subject) == [endpoint |-> endpoint, key |-> key, subject |-> subject]

\* Creates of one slot, cancels of two bookings, a message, with and without key.
MCAsks == {Ask("create_booking", k1, x), Ask("create_booking", k2, x),
           Ask("cancel_booking", k1, x), Ask("cancel_booking", k1, y),
           Ask("create_message", k1, x), Ask("create_message", NoKey, x)}

\* Two keys for one slot, and one key on two endpoints.
RetryAsks == {Ask("create_booking", k1, x), Ask("create_booking", k2, x),
              Ask("create_message", k1, x)}

OneMessage == {Ask("create_message", k1, x)}
OneCreate == {Ask("create_booking", k1, x)}
TwoCancels == {Ask("cancel_booking", k1, x), Ask("cancel_booking", k1, y)}

AttemptSymmetry == Permutations(Attempts)
AnySymmetry == Permutations(Attempts) \cup Permutations(Servers)
=============================================================================

------------------------------ MODULE MCReadCache ------------------------------
(***************************************************************************)
(* One service and its stylist to seed, one block of a client.             *)
(***************************************************************************)
EXTENDS ReadCache, TLC

CONSTANTS w1, s1, r1, r2, salon, haircut, priya, note

MCSeedKeys ==
    "companies" :> {salon} @@ "services" :> {haircut} @@ "stylists" :> {priya} @@
    "bookings" :> {} @@ "blocks" :> {}
MCPerforms == priya :> {haircut}
MCClientDocs == {[coll |-> "blocks", key |-> note, by |-> "client"]}

MCQueries == {[view |-> "services", filter |-> "bookable"],
              [view |-> "business", filter |-> "all"]}

ReadCacheSymmetry == Permutations(Readers)
=============================================================================

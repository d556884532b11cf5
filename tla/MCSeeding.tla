------------------------------- MODULE MCSeeding -------------------------------
(***************************************************************************)
(* One service and one appointment to seed, one message of a client.       *)
(***************************************************************************)
EXTENDS Seeding, TLC

CONSTANTS w1, w2, s1, s2, salon, haircut, appointment, note

MCSeedKeys ==
    "companies" :> {salon} @@ "services" :> {haircut} @@ "stylists" :> {} @@
    "bookings" :> {appointment} @@ "blocks" :> {}

MCClientDocs == {[coll |-> "messages", key |-> note, by |-> "client"]}

SeedSymmetry == Permutations(Seeders) \cup Permutations(Servers)
=============================================================================

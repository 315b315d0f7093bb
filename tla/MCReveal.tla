------------------------------ MODULE MCReveal ------------------------------
(* Small instances of Reveal for TLC. u1 and u2 are colleagues, u3 works    *)
(* for another organization that uses the same talent pools.                *)
EXTENDS Reveal, TLC

CONSTANTS u1, u2, u3, p1, p2,
          Casts         \* who runs at a time: each a set of processes

MCOwner == [p \in Projects |-> IF p = p1 THEN u1 ELSE CHOOSE u \in Users : u # u1]
MCOrg == [u \in Users |-> IF u = u3 THEN "org2" ELSE "org1"]

\* Calls of the same action are interchangeable (safety runs only).
MCSymmetry == Permutations(Requests)

VARIABLE cast

\* In each behaviour the processes of one cast run and the others stay idle: two calls
\* that race, or a call while the cron cleans up or an application comes in.
CastInit == RevealInit /\ cast \in Casts

CastSpec ==
    /\ CastInit
    /\ [][/\ RevealNext
          /\ \A q \in Requests \ cast : request'[q] = Idle
          /\ \A i \in Ingesters \ cast : ingest'[i] = Idle
          /\ \A c \in Cleaners \ cast : cleanup'[c] = Idle
          /\ UNCHANGED cast]_<<vars, cast>>
=============================================================================

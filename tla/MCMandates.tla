----------------------------- MODULE MCMandates -----------------------------
(***************************************************************************)
(* Mandates on small instances: two daily mandates that share an id and    *)
(* state different caps, an intent mandate, and one mandate for each check *)
(* that can refuse before the budget is looked at.                         *)
(***************************************************************************)
EXTENDS Mandates, TLC

CONSTANTS idA, idB, idC, t1, t2

Mandate(kind, id, cap, expiry, scope, confirmOver, signed) ==
    [kind |-> kind, budget |-> id, cap |-> cap, expiry |-> expiry,
     scope |-> scope, confirmOver |-> confirmOver, signed |-> signed]

Daily    == Mandate("daily",  idA, 1, 9, {t1, t2}, None, TRUE)
Larger   == Mandate("daily",  idA, 2, 9, {t1}, 1, TRUE)
Intent   == Mandate("intent", idB, 2, 1, {t1, t2}, None, TRUE)
Foreign  == Mandate("intent", idC, 2, 9, {}, None, TRUE)
Unsigned == Mandate("daily",  idA, 9, 9, {t1}, None, FALSE)

AllMandates == {Daily, Larger, Intent, Foreign, Unsigned}

\* Requests are interchangeable.
Symmetry == Permutations(Requests)
=============================================================================

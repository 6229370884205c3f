------------------------------ MODULE MCAppStore ------------------------------
EXTENDS AppStore, TLC

CONSTANTS a, b, k2, a1, a2

\* App b depends on a.  Release 2 brings a permission of the core and one of a.
MCOwner == (k2 :> Core) @@ (a1 :> a) @@ (a2 :> a)
MCSince == (k2 :> 2) @@ (a1 :> 1) @@ (a2 :> 2)
MCDefault == (k2 :> "none") @@ (a1 :> "own") @@ (a2 :> "all")
MCOrder == (a :> {a}) @@ (b :> {a, b})

\* States TLC does not go on from: what is edited by hand has a default.
Bound == \A t \in Tenant, p \in Perm : Default[p] = "none" => hand[t][p] = None

\* Releases only go up, and there are no two at once.
Upgrades == \A q \in Process : pc[q] # "down" => rel[q] = newest

Symmetry == Permutations(Process)
=============================================================================

--------------------------- MODULE MCOAuthTokens ---------------------------
(* A small tenant for TLC: see the .cfg file for the sizes. *)
EXTENDS OAuthTokens, TLC

Symmetry ==
    Permutations(Code) \cup Permutations(Token) \cup Permutations(Family)
        \cup Permutations(Request)

(* States TLC does not go on from: a request waits for a code or a token and
   none is left to draw, or a confidential client asks a user for consent
   (here it only acts for itself, and on other clients' tokens), no client is
   left, or the tenant is suspended and a member gone, each of which shows alone
   what a refusal does. *)
Bound ==
    /\ clients # {}
    /\ suspended => members = User
    /\ \A r \in Request :
        /\ pc[r] \in {"consent", "code"} =>
               /\ job[r].client \notin Confidential
               /\ \E k \in Code : codes[k] = "new"
        /\ pc[r] \in {"access", "refresh"} =>
               \E t \in Token : tokens[t] = "new"
=============================================================================

--------------------------- MODULE RefreshLineage ---------------------------
(***************************************************************************)
(* What refresh rotation promises, without requests, statements or clocks. *)
(* Each family is opened once, has at most one current refresh token at a  *)
(* time, never takes back a token that has been spent, and once closed     *)
(* stays closed.  OAuthTokens implements it.                               *)
(***************************************************************************)

CONSTANTS Family, Token, None

VARIABLES
    phase,    \* "new", "open" or "closed"
    current,  \* the refresh token that can be exchanged, or None
    spent     \* the refresh tokens that no longer can

vars == <<phase, current, spent>>

Init ==
    /\ phase = [f \in Family |-> "new"]
    /\ current = [f \in Family |-> None]
    /\ spent = [f \in Family |-> {}]

Same(f) == phase'[f] = phase[f] /\ current'[f] = current[f] /\ spent'[f] = spent[f]

Open(f) ==
    /\ phase[f] = "new" /\ phase'[f] = "open"
    /\ current'[f] = None /\ spent'[f] = {}

Hand(f) ==
    /\ phase[f] = "open" /\ phase'[f] = "open"
    /\ current[f] = None /\ current'[f] \in Token \ spent[f]
    /\ spent'[f] = spent[f]

\* The current token is exchanged, revoked or expires, and with it maybe the family.
Spend(f) ==
    /\ phase[f] = "open" /\ phase'[f] \in {"open", "closed"}
    /\ current[f] # None /\ current'[f] = None
    /\ spent'[f] = spent[f] \cup {current[f]}

Close(f) ==
    /\ phase[f] = "open" /\ phase'[f] = "closed"
    /\ current[f] = None /\ current'[f] = None
    /\ spent'[f] = spent[f]

\* One statement can touch many families (a client is deleted with all of its own).
Next == \A f \in Family : Same(f) \/ Open(f) \/ Hand(f) \/ Spend(f) \/ Close(f)

Spec == Init /\ [][Next]_vars
=============================================================================

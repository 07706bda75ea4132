----------------------------- MODULE PlayPromise -----------------------------
(****************************************************************************)
(* What the requests for announcements promise: a scheduled time of an      *)
(* announcement is asked for, and then heard or given up; one that was      *)
(* given up may be asked for again; one that was heard never is.            *)
(****************************************************************************)
EXTENDS FiniteSets

CONSTANT Times     \* pairs of an announcement and a scheduled time

VARIABLES pending, heard
vars == <<pending, heard>>

TypeOK == pending \subseteq Times /\ heard \subseteq Times

Init == pending = {} /\ heard = {}

Ask ==
  /\ pending' \in SUBSET Times
  /\ pending \subseteq pending'
  /\ (pending' \ pending) \cap heard = {}
  /\ UNCHANGED heard

GiveUp ==
  /\ pending' \in SUBSET pending
  /\ UNCHANGED heard

Hear(s) ==
  /\ s \in pending \ heard
  /\ pending' = pending \ {s}
  /\ heard' = heard \cup {s}

Next == Ask \/ GiveUp \/ \E s \in Times : Hear(s)

Spec == Init /\ [][Next]_vars
=============================================================================

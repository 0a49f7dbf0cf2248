---------------------------------- MODULE SignIns ----------------------------------
(***************************************************************************)
(* What refresh tokens promise: a sign-in begins with a token, a token is  *)
(* used once, for the next one of its sign-in, and a token that was used   *)
(* or ended, like a sign-in that has ended, never works again.             *)
(***************************************************************************)
VARIABLES living,  \* the pairs of a sign-in and a token of it that works
          spent    \* the pairs whose token works no more

vars == <<living, spent>>

Init == living = {} /\ spent = {}

New(token) == \A q \in living \cup spent : q[2] # token

Begin ==
  \E p \in living' \ living :
    /\ New(p[2]) /\ \A q \in living \cup spent : q[1] # p[1]
    /\ living' = living \cup {p}
    /\ UNCHANGED spent

Use ==
  \E p \in living, q \in living' \ living :
    /\ New(q[2]) /\ q[1] = p[1]
    /\ living' = (living \ {p}) \cup {q}
    /\ spent' = spent \cup {p}

End ==
  \E p \in living :
    /\ living' = living \ {p}
    /\ spent' = spent \cup {p}

Next == Begin \/ Use \/ End

Spec == Init /\ [][Next]_vars
=============================================================================

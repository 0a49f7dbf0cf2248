---------------------------- MODULE SessionsProperties ----------------------------
(***************************************************************************)
(* What requests that overlap must keep true.                              *)
(***************************************************************************)
EXTENDS Sessions

(***************************************************************************)
(* Every variable has a value the code can give it; what replaces a        *)
(* session is a later one, and a session is locked by the request that     *)
(* rotates it.                                                             *)
(***************************************************************************)
TypeOK ==
  /\ \A a \in accounts : \E profile \in Profile :
       a.subject = profile.subject /\ a.email = profile.email
  /\ Len(sessions) <= MaxSessions
  /\ \A i \in DOMAIN sessions :
       /\ sessions[i].signIn \in 1..i
       /\ sessions[i].replacedBy \in {0} \cup (i + 1)..Len(sessions)
       /\ sessions[i].replacedBy # 0 => sessions[i].revoked
  /\ locked = {request[r].session : r \in {x \in Request : At(x, "rotate")}}
  /\ cookie \in 0..Len(sessions)
  /\ faults \in 0..MaxFaults

Living(i) == i # NoCookie /\ ~sessions[i].revoked

(***************************************************************************)
(* The refresh sessions are the tokens of SignIns, however many requests   *)
(* rotate and revoke them at once: a used token never works again, nor     *)
(* does any of a sign-in that has ended, and a token is used for one other.*)
(***************************************************************************)
Tokens(revoked) ==
  {<<sessions[i].signIn, i>> : i \in {j \in DOMAIN sessions : sessions[j].revoked = revoked}}

Chains == INSTANCE SignIns WITH living <- Tokens(FALSE), spent <- Tokens(TRUE)

TokensAreUsedOnce == Chains!Spec

(***************************************************************************)
(* A Google account, and an email, belongs to one user, though two first   *)
(* sign-ins overlap.                                                       *)
(***************************************************************************)
OneUserPerIdentity ==
  \A a, b \in accounts : a.subject = b.subject \/ a.email = b.email => a = b

(***************************************************************************)
(* Until somebody signs out, or an answer is lost, a browser that has      *)
(* signed in stays so: its cookie works or one that does is on its way,    *)
(* though a tab that refreshes too late is refused.                        *)
(***************************************************************************)
StaysSignedIn ==
  sessions # <<>> /\ ~signedOut /\ faults = 0 =>
    \/ Living(cookie)
    \/ \E r \in Request : At(r, "answer") /\ Living(request[r].cookie)
=============================================================================

--------------------------------- MODULE Sessions ---------------------------------
(***************************************************************************)
(* Signing in with Google, and the refresh sessions that keep a browser    *)
(* signed in (services.py, routers/auth.py, models.py): any number of      *)
(* requests at once, of the tabs of a browser, which share its cookie.     *)
(*                                                                         *)
(* A request is a transaction of PostgreSQL, read committed: a step is a   *)
(* query, or what is written and its commit.  A row that is selected for   *)
(* update is locked until the end of the transaction; only an update or    *)
(* another such select waits for it.  Expiry, roles and the status of a    *)
(* user are left out.                                                      *)
(*                                                                         *)
(* Of FastAPI this takes: an answer made of an HTTPException has none of   *)
(* the headers the handler has set, so a refused refresh leaves the cookie *)
(* alone although the code clears it.                                      *)
(*                                                                         *)
(* An operator F_Xyz that stands before F is F with a bug a programmer     *)
(* might have written; the README says which property each one breaks.     *)
(***************************************************************************)
EXTENDS Integers, Sequences, FiniteSets

CONSTANTS Request,      \* bound: the requests that may be under way
          Profile,      \* what Google may say: records of a subject and an email
          MaxSessions,  \* bound: the refresh sessions of a behaviour
          MaxFaults     \* bound: the answers that may be lost

ASSUME SessionsAssumption ==
  /\ \A profile \in Profile : DOMAIN profile = {"subject", "email"}
  /\ MaxSessions \in Nat
  /\ MaxFaults \in Nat

NoCookie == 0

VARIABLES
  accounts,   \* auth_identities, with the users they belong to
  sessions,   \* refresh_sessions: the sign-in each goes back to, whether it
              \* is revoked and, if so, what has replaced it
  locked,     \* the sessions selected for update
  request,    \* for each request, its next step and what it is about
  cookie,     \* the session whose token the browser's cookie holds
  signedOut,  \* some tab has asked to sign out
  faults      \* how many answers have been lost

vars == <<accounts, sessions, locked, request, cookie, signedOut, faults>>

\* A request has a profile, a session, or an answer for the cookie.
Idle == [step |-> "idle"]
Signing(step, profile) == [step |-> step, profile |-> profile]
Using(step, i) == [step |-> step, session |-> i]
Answering(i) == [step |-> "answer", cookie |-> i]

Go(r, next) == request' = [request EXCEPT ![r] = next]
At(r, step) == request[r].step = step

Init ==
  /\ accounts = {} /\ sessions = <<>> /\ locked = {}
  /\ request = [r \in Request |-> Idle]
  /\ cookie = NoCookie
  /\ signedOut = FALSE /\ faults = 0

-----------------------------------------------------------------------------
(***************************************************************************)
(* Signing in: google_callback and authenticate_google_user.               *)
(***************************************************************************)
GoogleCallback(r) ==
  /\ At(r, "idle")
  /\ \E profile \in Profile : Go(r, Signing("findSubject", profile))
  /\ UNCHANGED <<accounts, sessions, locked, cookie, signedOut, faults>>

\* _identity_by_provider
FindSubject(r) ==
  LET profile == request[r].profile IN
  /\ At(r, "findSubject")
  /\ Go(r, IF \E a \in accounts : a.subject = profile.subject
           THEN Signing("signIn", profile) ELSE Signing("findEmail", profile))
  /\ UNCHANGED <<accounts, sessions, locked, cookie, signedOut, faults>>

\* The select of the collision.
FindEmail(r) ==
  LET profile == request[r].profile IN
  /\ At(r, "findEmail")
  /\ Go(r, IF \E a \in accounts : a.email = profile.email
           THEN Idle ELSE Signing("register", profile))
  /\ UNCHANGED <<accounts, sessions, locked, cookie, signedOut, faults>>

\* _new_session, the first of a sign-in.
NewSession(r) ==
  LET n == Len(sessions) + 1 IN
  /\ n <= MaxSessions
  /\ sessions' = Append(sessions, [signIn |-> n, revoked |-> FALSE, replacedBy |-> 0])
  /\ Go(r, Answering(n))

SignIn(r) ==
  /\ At(r, "signIn")
  /\ NewSession(r)
  /\ UNCHANGED <<accounts, locked, cookie, signedOut, faults>>

\* The unique constraints on the subject and on the email.
Taken_BySubject(profile) == \E a \in accounts : a.subject = profile.subject

Taken(profile) ==
  \E a \in accounts : a.subject = profile.subject \/ a.email = profile.email

Register(r) ==
  LET profile == request[r].profile IN
  /\ At(r, "register")
  /\ IF Taken(profile)
     THEN Go(r, Idle) /\ UNCHANGED <<accounts, sessions>>
     ELSE /\ accounts' = accounts \cup
               {[user |-> Cardinality(accounts) + 1,
                 subject |-> profile.subject, email |-> profile.email]}
          /\ NewSession(r)
  /\ UNCHANGED <<locked, cookie, signedOut, faults>>

-----------------------------------------------------------------------------
(***************************************************************************)
(* refresh and rotate_refresh_session.                                     *)
(***************************************************************************)
Refresh(r) ==
  /\ At(r, "idle")
  /\ cookie # NoCookie
  /\ Go(r, Using("lock", cookie))
  /\ UNCHANGED <<accounts, sessions, locked, cookie, signedOut, faults>>

\* The select for update, and its check.
Lock_NotForUpdate(r) ==
  LET i == request[r].session IN
  /\ At(r, "lock")
  /\ Go(r, IF sessions[i].revoked THEN Idle ELSE Using("rotate", i))
  /\ UNCHANGED <<accounts, sessions, locked, cookie, signedOut, faults>>

Lock_ClearsTheCookie(r) ==
  LET i == request[r].session IN
  /\ At(r, "lock")
  /\ i \notin locked
  /\ IF sessions[i].revoked
     THEN Go(r, Answering(NoCookie)) /\ UNCHANGED locked
     ELSE Go(r, Using("rotate", i)) /\ locked' = locked \cup {i}
  /\ UNCHANGED <<accounts, sessions, cookie, signedOut, faults>>

Lock(r) ==
  LET i == request[r].session IN
  /\ At(r, "lock")
  /\ i \notin locked
  /\ IF sessions[i].revoked
     THEN Go(r, Idle) /\ UNCHANGED locked
     ELSE Go(r, Using("rotate", i)) /\ locked' = locked \cup {i}
  /\ UNCHANGED <<accounts, sessions, cookie, signedOut, faults>>

\* The replacement, and the commit.
Replaced(i, n) ==
  [signIn |-> sessions[i].signIn, revoked |-> TRUE, replacedBy |-> n]

Rotate(r) ==
  LET i == request[r].session
      n == Len(sessions) + 1
  IN
  /\ At(r, "rotate")
  /\ n <= MaxSessions
  /\ sessions' =
       Append([sessions EXCEPT ![i] = Replaced(i, n)],
              [signIn |-> sessions[i].signIn, revoked |-> FALSE, replacedBy |-> 0])
  /\ locked' = locked \ {i}
  /\ Go(r, Answering(n))
  /\ UNCHANGED <<accounts, cookie, signedOut, faults>>

-----------------------------------------------------------------------------
(***************************************************************************)
(* logout and revoke_refresh_session.                                      *)
(***************************************************************************)
Logout(r) ==
  /\ At(r, "idle")
  /\ signedOut' = TRUE
  /\ Go(r, IF cookie = NoCookie THEN Answering(NoCookie) ELSE Using("read", cookie))
  /\ UNCHANGED <<accounts, sessions, locked, cookie, faults>>

\* A plain select, which waits for nobody.
ReadSession(r) ==
  LET i == request[r].session IN
  /\ At(r, "read")
  /\ Go(r, IF sessions[i].revoked THEN Answering(NoCookie) ELSE Using("revoke", i))
  /\ UNCHANGED <<accounts, sessions, locked, cookie, signedOut, faults>>

Revoke(r) ==
  LET i == request[r].session IN
  /\ At(r, "revoke")
  /\ i \notin locked
  /\ sessions' = [sessions EXCEPT ![i].revoked = TRUE]
  /\ Go(r, Answering(NoCookie))
  /\ UNCHANGED <<accounts, locked, cookie, signedOut, faults>>

-----------------------------------------------------------------------------
(***************************************************************************)
(* The browser gets an answer, or does not.                                *)
(***************************************************************************)
Answer(r) ==
  /\ At(r, "answer")
  /\ cookie' = request[r].cookie
  /\ Go(r, Idle)
  /\ UNCHANGED <<accounts, sessions, locked, signedOut, faults>>

LoseAnswer(r) ==
  /\ At(r, "answer")
  /\ faults < MaxFaults
  /\ faults' = faults + 1
  /\ Go(r, Idle)
  /\ UNCHANGED <<accounts, sessions, locked, cookie, signedOut>>

Next ==
  \E r \in Request :
    \/ GoogleCallback(r) \/ FindSubject(r) \/ FindEmail(r) \/ SignIn(r) \/ Register(r)
    \/ Refresh(r) \/ Lock(r) \/ Rotate(r)
    \/ Logout(r) \/ ReadSession(r) \/ Revoke(r)
    \/ Answer(r) \/ LoseAnswer(r)

Spec == Init /\ [][Next]_vars
=============================================================================

----------------------------- MODULE SessionsProofs -----------------------------
(***************************************************************************)
(* Proofs about Sessions, for any number of requests, profiles, sessions   *)
(* and lost answers.                                                       *)
(***************************************************************************)
EXTENDS SessionsProperties, TLAPS

Session == [signIn : Nat, revoked : BOOLEAN, replacedBy : Nat]

\* A request that is about a session.
Uses(r) == request[r].step \in {"lock", "rotate", "read", "revoke"}

Signs(r) == request[r].step \in {"findSubject", "findEmail", "signIn", "register"}

Shape ==
  /\ sessions \in Seq(Session)
  /\ DOMAIN request = Request
  /\ \A r \in Request :
       /\ Uses(r) => request[r].session \in DOMAIN sessions
       /\ At(r, "answer") => request[r].cookie \in 0..Len(sessions)
       /\ Signs(r) => request[r].profile \in Profile

\* A session that is being rotated still works, and one request rotates it.
Rotating ==
  \A r \in Request : At(r, "rotate") =>
    /\ ~sessions[request[r].session].revoked
    /\ \A q \in Request : At(q, "rotate") /\ request[q].session = request[r].session => q = r

\* Nobody has used the token an answer brings before the answer arrives.
Carries(r, n) == At(r, "answer") /\ request[r].cookie = n

Fresh ==
  \A r \in Request, n \in DOMAIN sessions : Carries(r, n) =>
    /\ ~sessions[n].revoked
    /\ cookie # n
    /\ \A q \in Request : Uses(q) => request[q].session # n
    /\ \A q \in Request : Carries(q, n) => q = r

\* Only who signs out takes the cookie away.
Staying ==
  ~signedOut => \A r \in Request :
    ~At(r, "read") /\ ~At(r, "revoke") /\ ~Carries(r, NoCookie)

(***************************************************************************)
(* A sign-in has one refresh token at most that works, however many tabs   *)
(* refresh at once: a token that has been used is worth nothing.           *)
(***************************************************************************)
OneLivingTokenPerSignIn ==
  \A i, j \in DOMAIN sessions :
    Living(i) /\ Living(j) /\ sessions[i].signIn = sessions[j].signIn => i = j

(***************************************************************************)
(* The inductive invariant.                                                *)
(***************************************************************************)
Inv ==
  /\ TypeOK /\ Shape /\ Rotating /\ Fresh /\ Staying
  /\ OneLivingTokenPerSignIn /\ OneUserPerIdentity /\ StaysSignedIn

-----------------------------------------------------------------------------
(***************************************************************************)
(* The steps that change the sessions: a sign-in adds one, a rotation      *)
(* replaces one, a logout revokes one.                                     *)
(***************************************************************************)
Same(i) == sessions'[i] = sessions[i]

LEMMA Adding ==
  ASSUME Shape, NEW r \in Request, NewSession(r)
  PROVE  /\ sessions' \in Seq(Session) /\ Len(sessions') = Len(sessions) + 1
         /\ DOMAIN sessions' = DOMAIN sessions \cup {Len(sessions) + 1}
         /\ Len(sessions) + 1 \notin DOMAIN sessions
         /\ \A i \in DOMAIN sessions : Same(i)
         /\ sessions'[Len(sessions) + 1] =
              [signIn |-> Len(sessions) + 1, revoked |-> FALSE, replacedBy |-> 0]
         /\ ~sessions'[Len(sessions) + 1].revoked
         /\ Len(sessions) + 1 <= MaxSessions
         /\ Go(r, Answering(Len(sessions) + 1))
<1> DEFINE n == Len(sessions) + 1
           new == [signIn |-> n, revoked |-> FALSE, replacedBy |-> 0]
<1>1. sessions \in Seq(Session) /\ n \in Nat /\ new \in Session
  BY DEF Shape, Session
<1>2. sessions' = Append(sessions, new) /\ n <= MaxSessions /\ Go(r, Answering(n))
  BY DEF NewSession
<1> HIDE DEF new
<1>3. sessions' \in Seq(Session) /\ Len(sessions') = n /\ sessions'[n] = new
        /\ \A i \in 1..Len(sessions) : sessions'[i] = sessions[i]
  BY <1>1, <1>2
<1>4. DOMAIN sessions' = 1..n /\ DOMAIN sessions = 1..Len(sessions) /\ Len(sessions) \in Nat
  BY <1>1, <1>3
<1> QED
  BY <1>2, <1>3, <1>4 DEF new, Same

LEMMA Replacing ==
  ASSUME Shape, TypeOK, NEW r \in Request, Rotate(r)
  PROVE  LET i == request[r].session IN
         /\ sessions' \in Seq(Session) /\ Len(sessions') = Len(sessions) + 1
         /\ DOMAIN sessions' = DOMAIN sessions \cup {Len(sessions) + 1}
         /\ Len(sessions) + 1 \notin DOMAIN sessions
         /\ i \in DOMAIN sessions
         /\ \A j \in DOMAIN sessions \ {i} : Same(j)
         /\ sessions'[i] = [signIn |-> sessions[i].signIn, revoked |-> TRUE,
                            replacedBy |-> Len(sessions) + 1]
         /\ sessions'[Len(sessions) + 1] =
              [signIn |-> sessions[i].signIn, revoked |-> FALSE, replacedBy |-> 0]
         /\ ~sessions'[Len(sessions) + 1].revoked
         /\ Len(sessions) + 1 <= MaxSessions
<1> DEFINE n == Len(sessions) + 1
           i == request[r].session
           new == [signIn |-> sessions[i].signIn, revoked |-> FALSE, replacedBy |-> 0]
           old == Replaced(i, n)
           s == [sessions EXCEPT ![i] = old]
<1>1. sessions \in Seq(Session) /\ n \in Nat /\ i \in DOMAIN sessions /\ sessions[i] \in Session
  BY DEF Shape, Rotate, At, Uses
<1>2. new \in Session /\ old \in Session
  BY <1>1 DEF Session, Replaced
<1>4. sessions' = Append(s, new) /\ n <= MaxSessions
  BY DEF Rotate
<1>5. s \in Seq(Session) /\ Len(s) = Len(sessions) /\ s[i] = old
        /\ \A j \in DOMAIN sessions \ {i} : s[j] = sessions[j]
  <2> HIDE DEF old, i
  <2> QED
    BY <1>1, <1>2
<1> HIDE DEF new, old, s, i
<1>6. sessions' \in Seq(Session) /\ Len(sessions') = n /\ sessions'[n] = new
        /\ \A j \in 1..Len(s) : sessions'[j] = s[j]
  BY <1>1, <1>2, <1>4, <1>5
<1>7. DOMAIN sessions' = 1..n /\ DOMAIN sessions = 1..Len(sessions) /\ Len(sessions) \in Nat
  BY <1>1, <1>6
<1>8. n \notin DOMAIN sessions /\ DOMAIN sessions' = DOMAIN sessions \cup {n}
  BY <1>7
<1>9. sessions'[i] = old /\ \A j \in DOMAIN sessions \ {i} : Same(j)
  BY <1>1, <1>5, <1>6, <1>7 DEF Same
<1> QED
  BY <1>1, <1>4, <1>6, <1>8, <1>9 DEF new, old, i, Replaced

LEMMA Revoking ==
  ASSUME Shape, NEW r \in Request, Revoke(r)
  PROVE  LET i == request[r].session IN
         /\ sessions' \in Seq(Session) /\ Len(sessions') = Len(sessions)
         /\ DOMAIN sessions' = DOMAIN sessions
         /\ i \in DOMAIN sessions /\ i \notin locked
         /\ \A j \in DOMAIN sessions \ {i} : Same(j)
         /\ sessions'[i] = [sessions[i] EXCEPT !.revoked = TRUE]
<1> DEFINE i == request[r].session
           old == [sessions[i] EXCEPT !.revoked = TRUE]
<1>1. sessions \in Seq(Session) /\ i \in DOMAIN sessions /\ sessions[i] \in Session
  BY DEF Shape, Revoke, At, Uses
<1>2. old \in Session /\ i \notin locked /\ sessions' = [sessions EXCEPT ![i] = old]
  BY <1>1 DEF Session, Revoke
<1> HIDE DEF old, i
<1>3. sessions' \in Seq(Session) /\ Len(sessions') = Len(sessions) /\ sessions'[i] = old
        /\ \A j \in DOMAIN sessions \ {i} : sessions'[j] = sessions[j]
  BY <1>1, <1>2
<1>4. DOMAIN sessions' = DOMAIN sessions
  BY <1>1, <1>3
<1> QED
  BY <1>1, <1>2, <1>3, <1>4 DEF Same, old, i

-----------------------------------------------------------------------------
(***************************************************************************)
(* The initial state, and the shape of the variables.                      *)
(***************************************************************************)
LEMMA InitInv == Init => Inv
<1> SUFFICES ASSUME Init PROVE Inv
  OBVIOUS
<1>1. TypeOK
  BY SessionsAssumption DEF Init, TypeOK, Idle, At, NoCookie
<1>2. Shape
  BY DEF Init, Shape, Idle, At, Uses, Signs
<1>3. Rotating /\ Fresh /\ Staying
  BY DEF Init, Rotating, Fresh, Staying, Idle, At, Carries
<1>4. OneLivingTokenPerSignIn /\ OneUserPerIdentity /\ StaysSignedIn
  BY DEF Init, OneLivingTokenPerSignIn, OneUserPerIdentity, StaysSignedIn
<1> QED
  BY <1>1, <1>2, <1>3, <1>4 DEF Inv

\* The steps that only read, by what they do to the request.
Reads(r) ==
  \/ GoogleCallback(r) \/ FindSubject(r) \/ FindEmail(r)
  \/ Refresh(r) \/ Lock(r) \/ Logout(r) \/ ReadSession(r)
  \/ Answer(r) \/ LoseAnswer(r)

LEMMA ReadsKeep ==
  ASSUME NEW r \in Request, Reads(r)
  PROVE  sessions' = sessions /\ accounts' = accounts
BY DEF Reads, GoogleCallback, FindSubject, FindEmail, Refresh, Lock, Logout, ReadSession,
       Answer, LoseAnswer

\* A request that has an answer for the cookie.
LEMMA ShapeAnswering ==
  ASSUME Shape, NEW r \in Request, NEW n \in Nat, Go(r, Answering(n)),
         sessions' \in Seq(Session), DOMAIN sessions \subseteq DOMAIN sessions',
         Len(sessions) <= Len(sessions'), n <= Len(sessions')
  PROVE  Shape'
<1>1. /\ DOMAIN request' = Request /\ request'[r] = Answering(n)
      /\ \A q \in Request \ {r} : request'[q] = request[q]
  BY DEF Shape, Go
<1>2. \A q \in Request \ {r} :
        /\ Uses(q)' => request'[q].session \in DOMAIN sessions'
        /\ At(q, "answer")' => request'[q].cookie \in 0..Len(sessions')
        /\ Signs(q)' => request'[q].profile \in Profile
  <2> SUFFICES ASSUME NEW q \in Request \ {r}
               PROVE  /\ Uses(q) => request[q].session \in DOMAIN sessions'
                      /\ At(q, "answer") => request[q].cookie \in 0..Len(sessions')
                      /\ Signs(q) => request[q].profile \in Profile
    BY <1>1 DEF Uses, At, Signs
  <2>1. Len(sessions) \in Nat /\ Len(sessions') \in Nat
    BY DEF Shape
  <2> QED
    BY <2>1 DEF Shape
<1>3. /\ ~Uses(r)' /\ ~Signs(r)' /\ At(r, "answer")' /\ request'[r].cookie = n
  BY <1>1 DEF Answering, Uses, Signs, At
<1>4. n \in 0..Len(sessions')
  OBVIOUS
<1> QED
  BY <1>1, <1>2, <1>3, <1>4 DEF Shape

LEMMA ShapeStep == Inv /\ [Next]_vars => Shape'
<1> SUFFICES ASSUME Inv, [Next]_vars PROVE Shape'
  OBVIOUS
<1>0. TypeOK /\ Shape
  BY DEF Inv
<1>1. ASSUME NEW r \in Request, Reads(r) PROVE Shape'
  <2> USE <1>0, ReadsKeep DEF Shape, Go, At, Uses, Signs
  <2>1. CASE GoogleCallback(r) \/ FindSubject(r) \/ FindEmail(r)
    BY <1>1, <2>1 DEF GoogleCallback, FindSubject, FindEmail, Signing, Idle
  <2>2. CASE Refresh(r)
    <3>1. cookie \in DOMAIN sessions
      BY <2>2 DEF Refresh, TypeOK, NoCookie
    <3> QED
      BY <2>2, <3>1 DEF Refresh, Using
  <2>3. CASE Logout(r)
    <3>1. cookie # NoCookie => cookie \in DOMAIN sessions
      BY DEF TypeOK, NoCookie
    <3> QED
      BY <2>3, <3>1 DEF Logout, Using, Answering, NoCookie
  <2>4. CASE Lock(r)
    BY <2>4 DEF Lock, Using, Idle
  <2>5. CASE ReadSession(r)
    BY <2>5 DEF ReadSession, Using, Answering, NoCookie
  <2>6. CASE Answer(r) \/ LoseAnswer(r)
    BY <1>1, <2>6 DEF Answer, LoseAnswer, Idle
  <2> QED
    BY <1>1, <2>1, <2>2, <2>3, <2>4, <2>5, <2>6 DEF Reads
<1>2. ASSUME NEW r \in Request, NewSession(r) PROVE Shape'
  <2>1. Len(sessions) \in Nat
    BY <1>0 DEF Shape
  <2> QED
    BY <1>0, <1>2, <2>1, Adding, ShapeAnswering
<1>3. ASSUME NEW r \in Request, SignIn(r) PROVE Shape'
  BY <1>2, <1>3 DEF SignIn
<1>4. ASSUME NEW r \in Request, Register(r) PROVE Shape'
  <2>1. CASE NewSession(r)
    BY <1>2, <2>1
  <2>2. CASE Go(r, Idle) /\ sessions' = sessions
    BY <1>0, <2>2 DEF Shape, Go, At, Uses, Signs, Idle
  <2> QED
    BY <1>4, <2>1, <2>2 DEF Register
<1>5. ASSUME NEW r \in Request, Rotate(r) PROVE Shape'
  <2>1. Go(r, Answering(Len(sessions) + 1))
    BY <1>5 DEF Rotate
  <2>2. Len(sessions) \in Nat
    BY <1>0 DEF Shape
  <2> QED
    <3>1. /\ sessions' \in Seq(Session) /\ DOMAIN sessions \subseteq DOMAIN sessions'
          /\ Len(sessions') = Len(sessions) + 1
      BY <1>0, <1>5, Replacing
    <3>2. Len(sessions) + 1 \in Nat /\ Len(sessions) <= Len(sessions')
            /\ Len(sessions) + 1 <= Len(sessions')
      BY <2>2, <3>1
    <3> QED
      BY <1>0, <2>1, <3>1, <3>2, ShapeAnswering
<1>6. ASSUME NEW r \in Request, Revoke(r) PROVE Shape'
  <2>1. Go(r, Answering(NoCookie))
    BY <1>6 DEF Revoke
  <2>2. Len(sessions) \in Nat /\ NoCookie \in Nat /\ NoCookie <= Len(sessions)
    BY <1>0 DEF Shape, NoCookie
  <2> QED
    <3>1. /\ sessions' \in Seq(Session) /\ DOMAIN sessions \subseteq DOMAIN sessions'
          /\ Len(sessions') = Len(sessions)
      BY <1>0, <1>6, Revoking
    <3>2. Len(sessions) <= Len(sessions') /\ NoCookie <= Len(sessions')
      BY <2>2, <3>1
    <3> QED
      BY <1>0, <2>1, <2>2, <3>1, <3>2, ShapeAnswering
<1>7. CASE UNCHANGED vars
  BY <1>0, <1>7 DEF vars, Shape, At, Uses, Signs
<1> QED
  BY <1>1, <1>3, <1>4, <1>5, <1>6, <1>7 DEF Next, Reads

-----------------------------------------------------------------------------
(***************************************************************************)
(* Who rotates a session.                                                  *)
(***************************************************************************)
Turns(r) == \A q \in Request \ {r} : request'[q] = request[q]

LEMMA Turning ==
  ASSUME Shape, NEW r \in Request, NEW next, Go(r, next)
  PROVE  request'[r] = next /\ Turns(r)
BY DEF Shape, Go, Turns

LEMMA LookingUp ==
  ASSUME Inv, NEW r \in Request, GoogleCallback(r) \/ FindSubject(r) \/ FindEmail(r)
  PROVE  ~At(r, "answer")' /\ ~At(r, "rotate")' /\ ~Uses(r)'
<1>1. \A step, profile : Signing(step, profile).step = step
  BY DEF Signing
<1>2. request'[r].step \in {"findSubject", "findEmail", "signIn", "register", "idle"}
  <2>1. CASE GoogleCallback(r)
    <3>1. PICK profile \in Profile : Go(r, Signing("findSubject", profile))
      BY <2>1 DEF GoogleCallback
    <3>2. request'[r] = Signing("findSubject", profile)
      BY <3>1, Turning DEF Inv
    <3> QED
      BY <1>1, <3>2
  <2>2. CASE FindSubject(r)
    <3>1. \/ Go(r, Signing("signIn", request[r].profile))
          \/ Go(r, Signing("findEmail", request[r].profile))
      BY <2>2 DEF FindSubject
    <3>2. \/ request'[r] = Signing("signIn", request[r].profile)
          \/ request'[r] = Signing("findEmail", request[r].profile)
      BY <3>1, Turning DEF Inv
    <3> QED
      BY <1>1, <3>2
  <2>3. CASE FindEmail(r)
    <3>1. Go(r, Idle) \/ Go(r, Signing("register", request[r].profile))
      BY <2>3 DEF FindEmail
    <3>2. request'[r] = Idle \/ request'[r] = Signing("register", request[r].profile)
      BY <3>1, Turning DEF Inv
    <3> QED
      BY <1>1, <3>2 DEF Idle
  <2> QED
    BY <2>1, <2>2, <2>3
<1> QED
  BY <1>2 DEF At, Uses

LEMMA AllTurn == ASSUME Inv, NEW r \in Request, Reads(r) PROVE Turns(r)
BY Turning DEF Inv, Reads, GoogleCallback, FindSubject, FindEmail, Refresh, Lock, Logout,
               ReadSession, Answer, LoseAnswer

\* A request that leaves, or does not come to, its rotation, while the
\* sessions of the others stay.
LEMMA RotatingKept ==
  ASSUME Inv, NEW r \in Request, Turns(r), request'[r].step # "rotate",
         \A q \in Request \ {r} : At(q, "rotate") => Same(request[q].session)
  PROVE  Rotating'
BY DEF Inv, Rotating, At, Same, Turns

LEMMA RotatingStep == Inv /\ [Next]_vars => Rotating'
<1> SUFFICES ASSUME Inv, [Next]_vars PROVE Rotating'
  OBVIOUS
<1>0. \A q \in Request : At(q, "rotate") => request[q].session \in DOMAIN sessions
                                            /\ request[q].session \in locked
  BY DEF Inv, Shape, Uses, At, TypeOK
<1>1. ASSUME NEW r \in Request, Reads(r), ~Lock(r) PROVE Rotating'
  <2>1. CASE GoogleCallback(r) \/ FindSubject(r) \/ FindEmail(r)
    <3>1. request'[r].step # "rotate"
      BY <2>1, LookingUp DEF At
    <3> QED
      BY <1>1, <3>1, AllTurn, ReadsKeep, RotatingKept DEF Same
  <2>2. CASE Refresh(r) \/ Logout(r) \/ ReadSession(r) \/ Answer(r) \/ LoseAnswer(r)
    <3>1. request'[r].step # "rotate"
      BY <2>2, Turning DEF Inv, Refresh, Logout, ReadSession, Answer, LoseAnswer,
                           Using, Answering, Idle
    <3> QED
      BY <1>1, <3>1, AllTurn, ReadsKeep, RotatingKept DEF Same
  <2> QED
    BY <1>1, <2>1, <2>2 DEF Reads
<1>2. ASSUME NEW r \in Request, Lock(r) PROVE Rotating'
  <2> DEFINE i == request[r].session
  <2>1. sessions' = sessions /\ i \notin locked
    BY <1>2 DEF Lock
  <2>2. CASE Go(r, Idle)
    BY <2>1, <2>2, RotatingKept, Turning DEF Inv, Same, Idle
  <2>3. CASE Go(r, Using("rotate", i)) /\ ~sessions[i].revoked
    <3>1. /\ request'[r] = Using("rotate", i)
          /\ \A q \in Request \ {r} : request'[q] = request[q]
      BY <2>3 DEF Inv, Shape, Go
    <3>2. At(r, "rotate")' /\ request'[r].session = i
      BY <3>1 DEF Using, At
    <3> QED
      BY <1>0, <2>1, <2>3, <3>1, <3>2 DEF Inv, Rotating, At
  <2> QED
    BY <1>2, <2>2, <2>3 DEF Lock
<1>3. ASSUME NEW r \in Request, NewSession(r) PROVE Rotating'
  BY <1>0, <1>3, Adding, RotatingKept, Turning DEF Inv, Answering
<1>4. ASSUME NEW r \in Request, SignIn(r) PROVE Rotating'
  BY <1>3, <1>4 DEF SignIn
<1>5. ASSUME NEW r \in Request, Register(r) PROVE Rotating'
  BY <1>3, <1>5, RotatingKept, Turning DEF Inv, Register, Idle, Same
<1>6. ASSUME NEW r \in Request, Rotate(r) PROVE Rotating'
  <2>1. Go(r, Answering(Len(sessions) + 1)) /\ At(r, "rotate")
    BY <1>6 DEF Rotate
  <2>2. \A q \in Request \ {r} : At(q, "rotate") => request[q].session # request[r].session
    BY <2>1 DEF Inv, Rotating
  <2>3. \A j \in DOMAIN sessions \ {request[r].session} : Same(j)
    BY <1>6, Replacing DEF Inv
  <2> QED
    BY <1>0, <2>1, <2>2, <2>3, RotatingKept, Turning DEF Inv, Answering
<1>7. ASSUME NEW r \in Request, Revoke(r) PROVE Rotating'
  <2>1. Go(r, Answering(NoCookie))
    BY <1>7 DEF Revoke
  <2>2. /\ request[r].session \notin locked
        /\ \A j \in DOMAIN sessions \ {request[r].session} : Same(j)
    BY <1>7, Revoking DEF Inv
  <2> QED
    BY <1>0, <2>1, <2>2, RotatingKept, Turning DEF Inv, Answering
<1>8. CASE UNCHANGED vars
  BY <1>8 DEF vars, Inv, Rotating, At
<1> QED
  BY <1>1, <1>2, <1>4, <1>5, <1>6, <1>7, <1>8 DEF Next, Reads

-----------------------------------------------------------------------------
(***************************************************************************)
(* The tokens that are on their way.                                       *)
(***************************************************************************)
\* A request that brings no new token: what the others bring is as it was.
LEMMA FreshKept ==
  ASSUME Inv, NEW r \in Request, Turns(r),
         At(r, "answer")' => request'[r].cookie = NoCookie,
         Uses(r)' => \/ request'[r].session = cookie
                     \/ Uses(r) /\ request'[r].session = request[r].session,
         DOMAIN sessions' = DOMAIN sessions,
         \A j \in DOMAIN sessions : Same(j) \/ (Uses(r) /\ j = request[r].session),
         cookie' = cookie \/ (At(r, "answer") /\ cookie' = request[r].cookie)
  PROVE  Fresh'
<1>1. \A q \in Request \ {r} : request'[q] = request[q]
  BY DEF Turns
<1>2. NoCookie \notin DOMAIN sessions
  BY DEF Inv, Shape, NoCookie
<1> SUFFICES ASSUME NEW q \in Request, NEW n \in DOMAIN sessions, Carries(q, n)'
             PROVE  /\ ~sessions'[n].revoked
                    /\ cookie' # n
                    /\ \A x \in Request : Uses(x)' => request'[x].session # n
                    /\ \A x \in Request : Carries(x, n)' => x = q
  BY DEF Fresh
<1>3. q # r /\ Carries(q, n)
  BY <1>1, <1>2 DEF Carries, At
<1>4. /\ ~sessions[n].revoked /\ cookie # n
      /\ \A x \in Request : Uses(x) => request[x].session # n
      /\ \A x \in Request : Carries(x, n) => x = q
  BY <1>3 DEF Inv, Fresh
<1>5. ~sessions'[n].revoked
  BY <1>4 DEF Same
<1>6. cookie' # n
  BY <1>3, <1>4 DEF Carries
<1>7. ASSUME NEW x \in Request, Uses(x)' PROVE request'[x].session # n
  BY <1>1, <1>4, <1>7 DEF Uses
<1>8. ASSUME NEW x \in Request, Carries(x, n)' PROVE x = q
  BY <1>1, <1>2, <1>4, <1>8 DEF Carries, At
<1> QED
  BY <1>5, <1>6, <1>7, <1>8

\* A request that brings a new one.
LEMMA FreshAdded ==
  ASSUME Inv, NEW r \in Request, Go(r, Answering(Len(sessions) + 1)),
         DOMAIN sessions' = DOMAIN sessions \cup {Len(sessions) + 1},
         Len(sessions) + 1 \notin DOMAIN sessions,
         ~sessions'[Len(sessions) + 1].revoked,
         \A j \in DOMAIN sessions : Same(j) \/ (Uses(r) /\ j = request[r].session),
         cookie' = cookie
  PROVE  Fresh'
<1>0. PICK k : k = Len(sessions) + 1
  OBVIOUS
<1>1. /\ request'[r] = Answering(k) /\ \A q \in Request \ {r} : request'[q] = request[q]
  BY <1>0 DEF Inv, Shape, Go
<1>2. At(r, "answer")' /\ request'[r].cookie = k /\ ~Uses(r)'
  BY <1>1 DEF Answering, At, Uses
<1>3. Len(sessions) \in Nat /\ cookie # k
  BY <1>0 DEF Inv, TypeOK, Shape
<1>4. ASSUME NEW x \in Request \ {r}
      PROVE  ~Carries(x, k)' /\ (Uses(x)' => request'[x].session # k)
  <2>1. /\ At(x, "answer") => request[x].cookie \in 0..Len(sessions)
        /\ Uses(x) => request[x].session \in DOMAIN sessions
    BY DEF Inv, Shape
  <2>2. request'[x] = request[x]
    BY <1>1
  <2>3. ~(Uses(x) /\ request[x].session = k)
    BY <1>0, <2>1
  <2>4. ~(At(x, "answer") /\ request[x].cookie = k)
    BY <1>0, <1>3, <2>1
  <2> QED
    BY <2>2, <2>3, <2>4 DEF Carries, At, Uses
<1>5. ASSUME NEW q \in Request, Carries(q, k)'
      PROVE  /\ ~sessions'[k].revoked
             /\ cookie' # k
             /\ \A x \in Request : Uses(x)' => request'[x].session # k
             /\ \A x \in Request : Carries(x, k)' => x = q
  BY <1>0, <1>2, <1>3, <1>4, <1>5
<1>6. ASSUME NEW q \in Request, NEW n \in DOMAIN sessions, Carries(q, n)'
      PROVE  /\ ~sessions'[n].revoked
             /\ cookie' # n
             /\ \A x \in Request : Uses(x)' => request'[x].session # n
             /\ \A x \in Request : Carries(x, n)' => x = q
  <2>1. n # k
    BY <1>0
  <2>2. q # r /\ Carries(q, n)
    BY <1>1, <1>2, <1>6, <2>1 DEF Carries, At
  <2>3. /\ ~sessions[n].revoked /\ cookie # n
        /\ \A x \in Request : Uses(x) => request[x].session # n
        /\ \A x \in Request : Carries(x, n) => x = q
    BY <2>2 DEF Inv, Fresh
  <2>4. ~sessions'[n].revoked
    BY <2>3 DEF Same
  <2>5. ASSUME NEW x \in Request, Uses(x)' PROVE request'[x].session # n
    BY <1>1, <1>2, <2>3, <2>5 DEF Uses
  <2>6. ASSUME NEW x \in Request, Carries(x, n)' PROVE x = q
    BY <1>1, <1>2, <2>1, <2>3, <2>6 DEF Carries, At
  <2> QED
    BY <2>3, <2>4, <2>5, <2>6
<1> QED
  BY <1>0, <1>5, <1>6 DEF Fresh

LEMMA FreshStep == Inv /\ [Next]_vars => Fresh'
<1> SUFFICES ASSUME Inv, [Next]_vars PROVE Fresh'
  OBVIOUS
<1>1. ASSUME NEW r \in Request, Reads(r) PROVE Fresh'
  <2>1. sessions' = sessions
    BY <1>1, ReadsKeep
  <2>2. Turns(r)
    BY <1>1, AllTurn
  <2>3. CASE GoogleCallback(r) \/ FindSubject(r) \/ FindEmail(r)
    <3>1. ~At(r, "answer")' /\ ~Uses(r)'
      BY <2>3, LookingUp
    <3>2. cookie' = cookie
      BY <2>3 DEF GoogleCallback, FindSubject, FindEmail
    <3> QED
      BY <2>1, <2>2, <3>1, <3>2, FreshKept DEF Same
  <2>4. CASE Refresh(r) \/ Logout(r)
    <3>1. /\ At(r, "answer")' => request'[r].cookie = NoCookie
          /\ Uses(r)' => request'[r].session = cookie
      BY <2>4, Turning DEF Inv, Refresh, Logout, Using, Answering, At, Uses
    <3>2. cookie' = cookie
      BY <2>4 DEF Refresh, Logout
    <3> QED
      BY <2>1, <2>2, <3>1, <3>2, FreshKept DEF Same
  <2>5. CASE Lock(r) \/ ReadSession(r)
    <3>1. /\ At(r, "answer")' => request'[r].cookie = NoCookie
          /\ Uses(r)' => Uses(r) /\ request'[r].session = request[r].session
      BY <2>5, Turning DEF Inv, Lock, ReadSession, Using, Answering, Idle, At, Uses
    <3>2. cookie' = cookie
      BY <2>5 DEF Lock, ReadSession
    <3> QED
      BY <2>1, <2>2, <3>1, <3>2, FreshKept DEF Same
  <2>6. CASE Answer(r) \/ LoseAnswer(r)
    <3>1. /\ ~At(r, "answer")' /\ ~Uses(r)'
          /\ cookie' = cookie \/ (At(r, "answer") /\ cookie' = request[r].cookie)
      BY <2>6, Turning DEF Inv, Answer, LoseAnswer, Idle, At, Uses
    <3> QED
      BY <2>1, <2>2, <3>1, FreshKept DEF Same
  <2> QED
    BY <1>1, <2>3, <2>4, <2>5, <2>6 DEF Reads
<1>2. ASSUME NEW r \in Request, NewSession(r), cookie' = cookie PROVE Fresh'
  <2>1. /\ Go(r, Answering(Len(sessions) + 1))
        /\ DOMAIN sessions' = DOMAIN sessions \cup {Len(sessions) + 1}
        /\ Len(sessions) + 1 \notin DOMAIN sessions
        /\ ~sessions'[Len(sessions) + 1].revoked
        /\ \A j \in DOMAIN sessions : Same(j)
    BY <1>2, Adding DEF Inv
  <2> QED
    BY <1>2, <2>1, FreshAdded
<1>3. ASSUME NEW r \in Request, SignIn(r) PROVE Fresh'
  BY <1>2, <1>3 DEF SignIn
<1>4. ASSUME NEW r \in Request, Register(r) PROVE Fresh'
  <2>1. CASE NewSession(r)
    BY <1>2, <1>4, <2>1 DEF Register
  <2>2. CASE Go(r, Idle) /\ sessions' = sessions
    <3>1. cookie' = cookie
      BY <1>4 DEF Register
    <3> QED
      BY <2>2, <3>1, FreshKept, Turning DEF Inv, Idle, Same, At, Uses
  <2> QED
    BY <1>4, <2>1, <2>2 DEF Register
<1>5. ASSUME NEW r \in Request, Rotate(r) PROVE Fresh'
  <2>1. Go(r, Answering(Len(sessions) + 1)) /\ Uses(r) /\ cookie' = cookie
    BY <1>5 DEF Rotate, At, Uses
  <2>2. /\ DOMAIN sessions' = DOMAIN sessions \cup {Len(sessions) + 1}
        /\ Len(sessions) + 1 \notin DOMAIN sessions
        /\ ~sessions'[Len(sessions) + 1].revoked
        /\ \A j \in DOMAIN sessions \ {request[r].session} : Same(j)
    <3>1. Shape /\ TypeOK
      BY DEF Inv
    <3> QED
      BY <1>5, <3>1, Replacing
  <2> QED
    BY <2>1, <2>2, FreshAdded
<1>6. ASSUME NEW r \in Request, Revoke(r) PROVE Fresh'
  <2>1. Go(r, Answering(NoCookie)) /\ Uses(r) /\ cookie' = cookie
    BY <1>6 DEF Revoke, At, Uses
  <2>2. /\ DOMAIN sessions' = DOMAIN sessions
        /\ \A j \in DOMAIN sessions \ {request[r].session} : Same(j)
    BY <1>6, Revoking DEF Inv
  <2> QED
    BY <2>1, <2>2, FreshKept, Turning DEF Inv, Answering, At, Uses
<1>7. CASE UNCHANGED vars
  BY <1>7 DEF vars, Inv, Fresh, Carries, At, Uses
<1> QED
  BY <1>1, <1>3, <1>4, <1>5, <1>6, <1>7 DEF Next, Reads

-----------------------------------------------------------------------------
(***************************************************************************)
(* Who takes the cookie away.                                              *)
(***************************************************************************)
\* A request that does not sign out, and brings no empty cookie.
LEMMA StayingKept ==
  ASSUME Inv, NEW r \in Request, Turns(r), signedOut' = signedOut,
         ~signedOut => ~At(r, "read")' /\ ~At(r, "revoke")' /\ ~Carries(r, NoCookie)'
  PROVE  Staying'
BY DEF Inv, Staying, Turns, At, Carries, NoCookie

LEMMA StayingStep == Inv /\ [Next]_vars => Staying'
<1> SUFFICES ASSUME Inv, [Next]_vars PROVE Staying'
  OBVIOUS
<1>0. Shape
  BY DEF Inv
<1>1. ASSUME NEW r \in Request, GoogleCallback(r) \/ FindSubject(r) \/ FindEmail(r)
      PROVE  Staying'
  <2>1. ~At(r, "answer")' /\ ~Uses(r)' /\ signedOut' = signedOut
    BY <1>1, LookingUp DEF GoogleCallback, FindSubject, FindEmail
  <2> QED
    BY <1>1, <2>1, AllTurn, StayingKept DEF Reads, At, Uses, Carries
<1>2. ASSUME NEW r \in Request, Refresh(r) \/ Lock(r) \/ Answer(r) \/ LoseAnswer(r)
      PROVE  Staying'
  <2>1. request'[r].step \in {"lock", "rotate", "idle"} /\ signedOut' = signedOut
    BY <1>0, <1>2, Turning DEF Refresh, Lock, Answer, LoseAnswer, Using, Idle
  <2> QED
    BY <1>2, <2>1, AllTurn, StayingKept DEF Reads, At, Carries
<1>3. ASSUME NEW r \in Request, Logout(r) PROVE Staying'
  BY <1>3 DEF Logout, Staying
<1>4. ASSUME NEW r \in Request, ReadSession(r) \/ Revoke(r) PROVE Staying'
  BY <1>4 DEF ReadSession, Revoke, Inv, Staying
<1>5. ASSUME NEW r \in Request, NEW n \in Nat \ {0}, Go(r, Answering(n)),
             signedOut' = signedOut
      PROVE  Staying'
  <2>1. request'[r] = Answering(n) /\ Turns(r)
    BY <1>0, <1>5, Turning
  <2>2. request'[r].step = "answer" /\ request'[r].cookie = n
    BY <2>1 DEF Answering
  <2> QED
    BY <1>5, <2>1, <2>2, StayingKept DEF At, Carries, NoCookie
<1>6. Len(sessions) + 1 \in Nat \ {0}
  BY <1>0 DEF Shape
<1>7. ASSUME NEW r \in Request, SignIn(r) \/ Rotate(r) PROVE Staying'
  BY <1>5, <1>6, <1>7 DEF SignIn, NewSession, Rotate
<1>8. ASSUME NEW r \in Request, Register(r) PROVE Staying'
  <2>1. CASE NewSession(r)
    BY <1>5, <1>6, <1>8, <2>1 DEF Register, NewSession
  <2>2. CASE Go(r, Idle)
    BY <1>0, <1>8, <2>2, Turning, StayingKept DEF Register, Idle, At, Carries
  <2> QED
    BY <1>8, <2>1, <2>2 DEF Register
<1>9. CASE UNCHANGED vars
  BY <1>9 DEF vars, Inv, Staying, At, Carries, NoCookie
<1> QED
  BY <1>1, <1>2, <1>3, <1>4, <1>7, <1>8, <1>9 DEF Next

-----------------------------------------------------------------------------
(***************************************************************************)
(* The users and their identities.                                         *)
(***************************************************************************)
Known == \A a \in accounts : \E profile \in Profile :
           a.subject = profile.subject /\ a.email = profile.email

LEMMA AccountsStep == Inv /\ [Next]_vars => Known' /\ OneUserPerIdentity'
<1> SUFFICES ASSUME Inv, [Next]_vars PROVE Known' /\ OneUserPerIdentity'
  OBVIOUS
<1>0. Known /\ OneUserPerIdentity
  BY DEF Inv, TypeOK, Known
<1>1. CASE accounts' = accounts
  BY <1>0, <1>1 DEF Known, OneUserPerIdentity
<1>2. ASSUME NEW r \in Request, Register(r) PROVE Known' /\ OneUserPerIdentity'
  <2> DEFINE profile == request[r].profile
             new == [user |-> Cardinality(accounts) + 1,
                     subject |-> profile.subject, email |-> profile.email]
  <2>1. profile \in Profile
    BY <1>2 DEF Inv, Shape, Signs, Register, At
  <2>2. new.subject = profile.subject /\ new.email = profile.email
    OBVIOUS
  <2>3. accounts' = accounts \/ (~Taken(profile) /\ accounts' = accounts \cup {new})
    BY <1>2 DEF Register
  <2> HIDE DEF new, profile
  <2> QED
    BY <1>0, <1>1, <2>1, <2>2, <2>3 DEF Taken, Known, OneUserPerIdentity
<1>3. ASSUME NEW r \in Request, SignIn(r) \/ Rotate(r) \/ Revoke(r) PROVE accounts' = accounts
  BY <1>3 DEF SignIn, Rotate, Revoke
<1>4. ASSUME NEW r \in Request, Reads(r) PROVE accounts' = accounts
  BY <1>4, ReadsKeep
<1>5. CASE UNCHANGED vars
  BY <1>1, <1>5 DEF vars
<1> QED
  BY <1>1, <1>2, <1>3, <1>4, <1>5 DEF Next, Reads

-----------------------------------------------------------------------------
(***************************************************************************)
(* The sessions.                                                           *)
(***************************************************************************)
Chained ==
  /\ Len(sessions) <= MaxSessions
  /\ \A i \in DOMAIN sessions :
       /\ sessions[i].signIn \in 1..i
       /\ sessions[i].replacedBy \in {0} \cup (i + 1)..Len(sessions)
       /\ sessions[i].replacedBy # 0 => sessions[i].revoked

LEMMA SessionsStep == Inv /\ [Next]_vars => Chained' /\ OneLivingTokenPerSignIn'
<1> SUFFICES ASSUME Inv, [Next]_vars PROVE Chained' /\ OneLivingTokenPerSignIn'
  OBVIOUS
<1>0. Chained /\ OneLivingTokenPerSignIn /\ Shape /\ TypeOK /\ Len(sessions) \in Nat
        /\ DOMAIN sessions = 1..Len(sessions) /\ MaxSessions \in Nat
  BY SessionsAssumption DEF Inv, TypeOK, Chained, Shape
<1>1. CASE sessions' = sessions
  BY <1>0, <1>1 DEF Chained, OneLivingTokenPerSignIn, Living
<1>2. ASSUME NEW r \in Request, NewSession(r) PROVE Chained' /\ OneLivingTokenPerSignIn'
  <2>1. PICK n : n = Len(sessions) + 1
    OBVIOUS
  <2>2. /\ Len(sessions') = n /\ DOMAIN sessions' = DOMAIN sessions \cup {n}
        /\ n \notin DOMAIN sessions /\ n <= MaxSessions
        /\ \A i \in DOMAIN sessions : sessions'[i] = sessions[i]
        /\ sessions'[n].signIn = n /\ sessions'[n].replacedBy = 0
        /\ ~sessions'[n].revoked
    <3>1. /\ Len(sessions') = Len(sessions) + 1
          /\ DOMAIN sessions' = DOMAIN sessions \cup {Len(sessions) + 1}
          /\ Len(sessions) + 1 \notin DOMAIN sessions /\ Len(sessions) + 1 <= MaxSessions
          /\ \A i \in DOMAIN sessions : Same(i)
          /\ sessions'[Len(sessions) + 1] =
               [signIn |-> Len(sessions) + 1, revoked |-> FALSE, replacedBy |-> 0]
      BY <1>0, <1>2, Adding
    <3>2. sessions'[n] = [signIn |-> n, revoked |-> FALSE, replacedBy |-> 0]
      BY <2>1, <3>1
    <3> QED
      BY <2>1, <3>1, <3>2 DEF Same
  <2>3. Chained'
    BY <1>0, <2>1, <2>2 DEF Chained
  <2>4. \A i \in DOMAIN sessions : sessions[i].signIn # n
    BY <1>0, <2>1 DEF Chained
  <2>5. OneLivingTokenPerSignIn'
    BY <1>0, <2>2, <2>4 DEF OneLivingTokenPerSignIn, Living
  <2> QED
    BY <2>3, <2>5
<1>3. ASSUME NEW r \in Request, Rotate(r) PROVE Chained' /\ OneLivingTokenPerSignIn'
  <2>1. PICK n, i : n = Len(sessions) + 1 /\ i = request[r].session
    OBVIOUS
  <2>2. /\ Len(sessions') = n /\ DOMAIN sessions' = DOMAIN sessions \cup {n}
        /\ n \notin DOMAIN sessions /\ n <= MaxSessions /\ i \in DOMAIN sessions
        /\ \A j \in DOMAIN sessions \ {i} : sessions'[j] = sessions[j]
    <3>1. /\ Len(sessions') = Len(sessions) + 1
          /\ DOMAIN sessions' = DOMAIN sessions \cup {Len(sessions) + 1}
          /\ Len(sessions) + 1 \notin DOMAIN sessions /\ Len(sessions) + 1 <= MaxSessions
          /\ request[r].session \in DOMAIN sessions
          /\ \A j \in DOMAIN sessions \ {request[r].session} : Same(j)
      BY <1>0, <1>3, Replacing
    <3> QED
      BY <2>1, <3>1 DEF Same
  <2>3. /\ sessions'[i] = [signIn |-> sessions[i].signIn, revoked |-> TRUE, replacedBy |-> n]
        /\ sessions'[n] = [signIn |-> sessions[i].signIn, revoked |-> FALSE,
                           replacedBy |-> 0]
    BY <1>0, <1>3, <2>1, Replacing
  <2>4. /\ sessions'[i].signIn = sessions[i].signIn /\ sessions'[i].revoked
        /\ sessions'[i].replacedBy = n
        /\ sessions'[n].signIn = sessions[i].signIn /\ ~sessions'[n].revoked
        /\ sessions'[n].replacedBy = 0
    BY <2>3
  <2>5. Chained'
    BY <1>0, <2>1, <2>2, <2>4 DEF Chained
  <2>6. ~sessions[i].revoked
    BY <1>3, <2>1 DEF Inv, Rotating, Rotate
  <2>7. \A j \in DOMAIN sessions \ {i} :
          sessions[j].signIn = sessions[i].signIn => sessions[j].revoked
    BY <1>0, <2>2, <2>6 DEF OneLivingTokenPerSignIn, Living, NoCookie
  <2>8. OneLivingTokenPerSignIn'
    BY <1>0, <2>2, <2>4, <2>7 DEF OneLivingTokenPerSignIn, Living, NoCookie
  <2> QED
    BY <2>5, <2>8
<1>4. ASSUME NEW r \in Request, Revoke(r) PROVE Chained' /\ OneLivingTokenPerSignIn'
  <2>1. PICK i : i = request[r].session
    OBVIOUS
  <2>2. /\ Len(sessions') = Len(sessions) /\ DOMAIN sessions' = DOMAIN sessions
        /\ i \in DOMAIN sessions
        /\ \A j \in DOMAIN sessions \ {i} : sessions'[j] = sessions[j]
        /\ sessions'[i] = [sessions[i] EXCEPT !.revoked = TRUE]
    BY <1>0, <1>4, <2>1, Revoking DEF Same
  <2>3. sessions[i] \in Session
    BY <1>0, <2>2 DEF Shape
  <2>4. /\ sessions'[i].signIn = sessions[i].signIn /\ sessions'[i].revoked
        /\ sessions'[i].replacedBy = sessions[i].replacedBy
    BY <2>2, <2>3 DEF Session
  <2> QED
    BY <1>0, <2>2, <2>4 DEF Chained, OneLivingTokenPerSignIn, Living
<1>5. ASSUME NEW r \in Request, SignIn(r) \/ Register(r) PROVE NewSession(r) \/ sessions' = sessions
  BY <1>5 DEF SignIn, Register
<1>6. ASSUME NEW r \in Request, Reads(r) PROVE sessions' = sessions
  BY <1>6, ReadsKeep
<1>7. CASE UNCHANGED vars
  BY <1>1, <1>7 DEF vars
<1> QED
  BY <1>1, <1>2, <1>3, <1>4, <1>5, <1>6, <1>7 DEF Next, Reads

-----------------------------------------------------------------------------
(***************************************************************************)
(* The locks, and the cookie.                                              *)
(***************************************************************************)
Locks == locked = {request[r].session : r \in {x \in Request : At(x, "rotate")}}

LEMMA LocksKept ==
  ASSUME Inv, NEW r \in Request, Turns(r), locked' = locked,
         ~At(r, "rotate"), ~At(r, "rotate")'
  PROVE  Locks'
<1>1. {x \in Request : At(x, "rotate")'} = {x \in Request : At(x, "rotate")}
  BY DEF At, Turns
<1>2. \A x \in {y \in Request : At(y, "rotate")} : request'[x] = request[x]
  BY DEF Turns
<1> QED
  BY <1>1, <1>2 DEF Inv, TypeOK, Locks

LEMMA LocksStep == Inv /\ [Next]_vars => Locks'
<1> SUFFICES ASSUME Inv, [Next]_vars PROVE Locks'
  OBVIOUS
<1>0. Shape /\ Locks
  BY DEF Inv, TypeOK, Locks
<1>1. ASSUME NEW r \in Request, GoogleCallback(r) \/ FindSubject(r) \/ FindEmail(r)
      PROVE  Locks'
  <2>1. locked' = locked /\ ~At(r, "rotate") /\ ~At(r, "rotate")'
    BY <1>1, LookingUp DEF GoogleCallback, FindSubject, FindEmail, At
  <2> QED
    BY <1>1, <2>1, AllTurn, LocksKept DEF Reads
<1>2. ASSUME NEW r \in Request,
             Refresh(r) \/ Logout(r) \/ ReadSession(r) \/ Answer(r) \/ LoseAnswer(r)
      PROVE  Locks'
  <2>1. request'[r].step \in {"lock", "read", "revoke", "answer", "idle"}
    BY <1>0, <1>2, Turning DEF Refresh, Logout, ReadSession, Answer, LoseAnswer, Using,
                               Answering, Idle
  <2>2. locked' = locked /\ ~At(r, "rotate")
    BY <1>2 DEF Refresh, Logout, ReadSession, Answer, LoseAnswer, At
  <2> QED
    BY <1>2, <2>1, <2>2, AllTurn, LocksKept DEF Reads, At
<1>3. ASSUME NEW r \in Request, Lock(r) PROVE Locks'
  <2>1. Turns(r) /\ ~At(r, "rotate")
    BY <1>3, AllTurn DEF Reads, Lock, At
  <2>2. CASE Go(r, Idle) /\ locked' = locked
    <3>1. ~At(r, "rotate")'
      BY <1>0, <2>2, Turning DEF Idle, At
    <3> QED
      BY <2>1, <2>2, <3>1, LocksKept
  <2>3. CASE Go(r, Using("rotate", request[r].session))
               /\ locked' = locked \cup {request[r].session}
    <3>1. request'[r] = Using("rotate", request[r].session)
      BY <1>0, <2>3, Turning
    <3>2. At(r, "rotate")' /\ request'[r].session = request[r].session
      BY <3>1 DEF Using, At
    <3>3. {x \in Request : At(x, "rotate")'} = {x \in Request : At(x, "rotate")} \cup {r}
      BY <2>1, <3>2 DEF At, Turns
    <3>4. \A x \in {y \in Request : At(y, "rotate")} : request'[x] = request[x]
      BY <2>1 DEF Turns
    <3> QED
      BY <1>0, <2>3, <3>2, <3>3, <3>4 DEF Locks
  <2> QED
    BY <1>3, <2>2, <2>3 DEF Lock
<1>4. ASSUME NEW r \in Request, Rotate(r) PROVE Locks'
  <2>1. /\ locked' = locked \ {request[r].session} /\ At(r, "rotate")
        /\ Go(r, Answering(Len(sessions) + 1))
    BY <1>4 DEF Rotate
  <2>2. Turns(r) /\ ~At(r, "rotate")'
    BY <1>0, <2>1, Turning DEF Answering, At
  <2>3. {x \in Request : At(x, "rotate")'} = {x \in Request : At(x, "rotate")} \ {r}
    BY <2>2 DEF At, Turns
  <2>4. \A x \in {y \in Request : At(y, "rotate")} \ {r} :
          request'[x] = request[x] /\ request[x].session # request[r].session
    BY <2>1, <2>2 DEF Turns, Inv, Rotating
  <2> QED
    BY <1>0, <2>1, <2>3, <2>4 DEF Locks
<1>5. ASSUME NEW r \in Request, NEW n, Go(r, Answering(n)) \/ Go(r, Idle), locked' = locked,
             ~At(r, "rotate")
      PROVE  Locks'
  <2>1. Turns(r) /\ ~At(r, "rotate")'
    BY <1>0, <1>5, Turning DEF Answering, Idle, At
  <2> QED
    BY <1>5, <2>1, LocksKept
<1>6. ASSUME NEW r \in Request, SignIn(r) \/ Register(r) \/ Revoke(r) PROVE Locks'
  BY <1>5, <1>6 DEF SignIn, Register, NewSession, Revoke, At
<1>7. CASE UNCHANGED vars
  BY <1>0, <1>7 DEF vars, Locks, At
<1> QED
  BY <1>1, <1>2, <1>3, <1>4, <1>6, <1>7 DEF Next

\* The sessions are never fewer.
LEMMA SessionsGrow == Inv /\ [Next]_vars => Len(sessions) <= Len(sessions')
<1> SUFFICES ASSUME Inv, [Next]_vars PROVE Len(sessions) <= Len(sessions')
  OBVIOUS
<1>0. Shape /\ TypeOK /\ Len(sessions) \in Nat
  BY DEF Inv, Shape
<1>1. ASSUME NEW r \in Request, NewSession(r) PROVE Len(sessions') = Len(sessions) + 1
  BY <1>0, <1>1, Adding
<1>2. ASSUME NEW r \in Request, Rotate(r) PROVE Len(sessions') = Len(sessions) + 1
  BY <1>0, <1>2, Replacing
<1>3. ASSUME NEW r \in Request, Revoke(r) PROVE Len(sessions') = Len(sessions)
  BY <1>0, <1>3, Revoking
<1>4. ASSUME NEW r \in Request, SignIn(r) \/ Register(r)
      PROVE  NewSession(r) \/ sessions' = sessions
  BY <1>4 DEF SignIn, Register
<1>5. ASSUME NEW r \in Request, Reads(r) PROVE sessions' = sessions
  BY <1>5, ReadsKeep
<1>6. CASE UNCHANGED vars
  BY <1>0, <1>6 DEF vars
<1> QED
  BY <1>0, <1>1, <1>2, <1>3, <1>4, <1>5, <1>6 DEF Next, Reads

LEMMA CookieStep ==
  Inv /\ [Next]_vars => cookie' \in 0..Len(sessions') /\ faults' \in 0..MaxFaults
<1> SUFFICES ASSUME Inv, [Next]_vars
             PROVE  cookie' \in 0..Len(sessions') /\ faults' \in 0..MaxFaults
  OBVIOUS
<1>0. /\ cookie \in 0..Len(sessions) /\ faults \in 0..MaxFaults /\ MaxFaults \in Nat
      /\ Len(sessions) \in Nat /\ Len(sessions') \in Nat /\ Len(sessions) <= Len(sessions')
  BY SessionsGrow, ShapeStep, SessionsAssumption DEF Inv, TypeOK, Shape
<1>1. \A i \in 0..Len(sessions) : i \in 0..Len(sessions')
  BY <1>0
<1>2. CASE cookie' = cookie /\ faults' = faults
  BY <1>0, <1>1, <1>2
<1>3. ASSUME NEW r \in Request, Answer(r)
      PROVE  cookie' \in 0..Len(sessions') /\ faults' \in 0..MaxFaults
  BY <1>0, <1>1, <1>3 DEF Answer, Inv, Shape
<1>4. ASSUME NEW r \in Request, LoseAnswer(r)
      PROVE  cookie' \in 0..Len(sessions') /\ faults' \in 0..MaxFaults
  BY <1>0, <1>1, <1>4 DEF LoseAnswer
<1>5. ASSUME NEW r \in Request,
             \/ GoogleCallback(r) \/ FindSubject(r) \/ FindEmail(r) \/ SignIn(r)
             \/ Register(r) \/ Refresh(r) \/ Lock(r) \/ Rotate(r) \/ Logout(r)
             \/ ReadSession(r) \/ Revoke(r)
      PROVE  cookie' = cookie /\ faults' = faults
  BY <1>5 DEF GoogleCallback, FindSubject, FindEmail, SignIn, Register, Refresh, Lock,
              Rotate, Logout, ReadSession, Revoke
<1>6. CASE UNCHANGED vars
  BY <1>2, <1>6 DEF vars
<1> QED
  BY <1>2, <1>3, <1>4, <1>5, <1>6 DEF Next

LEMMA TypeStep == Inv /\ [Next]_vars => TypeOK'
BY AccountsStep, SessionsStep, LocksStep, CookieStep DEF TypeOK, Known, Chained, Locks

-----------------------------------------------------------------------------
(***************************************************************************)
(* The browser stays signed in.                                            *)
(***************************************************************************)
\* A request that had no answer changes neither the cookie nor an answer.
LEMMA StaysKept ==
  ASSUME Inv, NEW r \in Request, Turns(r), ~At(r, "answer"),
         sessions' = sessions, cookie' = cookie, faults' = faults,
         signedOut' = signedOut
  PROVE  StaysSignedIn'
<1> SUFFICES ASSUME sessions # <<>>, ~signedOut, faults = 0
             PROVE  \/ Living(cookie)
                    \/ \E q \in Request : At(q, "answer")' /\ Living(request'[q].cookie)
  BY DEF StaysSignedIn, Living
<1>1. CASE Living(cookie)
  BY <1>1
<1>2. CASE \E q \in Request : At(q, "answer") /\ Living(request[q].cookie)
  <2>1. PICK q \in Request : At(q, "answer") /\ Living(request[q].cookie)
    BY <1>2
  <2>2. request'[q] = request[q]
    BY <2>1 DEF Turns
  <2> QED
    BY <2>1, <2>2 DEF At
<1> QED
  BY <1>1, <1>2 DEF Inv, StaysSignedIn

\* An answer that brings a session that works.
LEMMA StaysAnswering ==
  ASSUME Shape, NEW r \in Request, NEW n \in Nat \ {0}, Go(r, Answering(n)),
         ~sessions'[n].revoked
  PROVE  StaysSignedIn'
<1>1. request'[r] = Answering(n)
  BY Turning
<1>2. request'[r].step = "answer" /\ request'[r].cookie = n
  BY <1>1 DEF Answering
<1> QED
  BY <1>2 DEF StaysSignedIn, At, Living, NoCookie

LEMMA StaysStep == Inv /\ [Next]_vars => StaysSignedIn'
<1> SUFFICES ASSUME Inv, [Next]_vars PROVE StaysSignedIn'
  OBVIOUS
<1>0. Shape /\ TypeOK /\ Len(sessions) + 1 \in Nat \ {0}
  BY DEF Inv, Shape
<1>1. ASSUME NEW r \in Request, Reads(r), ~Answer(r), ~LoseAnswer(r), ~Logout(r)
      PROVE  StaysSignedIn'
  <2>1. ~At(r, "answer") /\ cookie' = cookie /\ faults' = faults /\ signedOut' = signedOut
    BY <1>1 DEF Reads, GoogleCallback, FindSubject, FindEmail, Refresh, Lock, ReadSession, At
  <2> QED
    BY <1>1, <2>1, ReadsKeep, AllTurn, StaysKept
<1>2. ASSUME NEW r \in Request, Logout(r) PROVE StaysSignedIn'
  BY <1>2 DEF Logout, StaysSignedIn
<1>3. ASSUME NEW r \in Request, LoseAnswer(r) PROVE StaysSignedIn'
  <2>1. faults' # 0
    BY <1>0, <1>3, SessionsAssumption DEF LoseAnswer, TypeOK
  <2> QED
    BY <2>1 DEF StaysSignedIn
<1>4. ASSUME NEW r \in Request, Answer(r) PROVE StaysSignedIn'
  <2> SUFFICES ASSUME ~signedOut PROVE Living(cookie)'
    BY <1>4 DEF Answer, StaysSignedIn
  <2>1. cookie' = request[r].cookie /\ At(r, "answer") /\ sessions' = sessions
    BY <1>4 DEF Answer
  <2>2. request[r].cookie \in 0..Len(sessions) /\ request[r].cookie # NoCookie
    BY <2>1 DEF Inv, Shape, Staying, Carries
  <2>3. request[r].cookie \in DOMAIN sessions
    BY <2>2 DEF Inv, Shape, NoCookie
  <2>4. ~sessions[request[r].cookie].revoked
    BY <2>1, <2>3 DEF Inv, Fresh, Carries
  <2> QED
    BY <2>1, <2>2, <2>4 DEF Living
<1>5. ASSUME NEW r \in Request, NewSession(r) PROVE StaysSignedIn'
  <2>1. Go(r, Answering(Len(sessions) + 1)) /\ ~sessions'[Len(sessions) + 1].revoked
    BY <1>0, <1>5, Adding
  <2> QED
    BY <1>0, <2>1, StaysAnswering
<1>6. ASSUME NEW r \in Request, SignIn(r) PROVE StaysSignedIn'
  BY <1>5, <1>6 DEF SignIn
<1>7. ASSUME NEW r \in Request, Register(r) PROVE StaysSignedIn'
  <2>1. CASE NewSession(r)
    BY <1>5, <2>1
  <2>2. CASE Go(r, Idle) /\ sessions' = sessions
    <3>1. /\ Turns(r) /\ ~At(r, "answer") /\ cookie' = cookie /\ faults' = faults
          /\ signedOut' = signedOut
      BY <1>0, <1>7, <2>2, Turning DEF Register, At
    <3> QED
      BY <2>2, <3>1, StaysKept
  <2> QED
    BY <1>7, <2>1, <2>2 DEF Register
<1>8. ASSUME NEW r \in Request, Rotate(r) PROVE StaysSignedIn'
  <2>1. Go(r, Answering(Len(sessions) + 1)) /\ ~sessions'[Len(sessions) + 1].revoked
    BY <1>0, <1>8, Replacing DEF Rotate
  <2> QED
    BY <1>0, <2>1, StaysAnswering
<1>9. ASSUME NEW r \in Request, Revoke(r) PROVE StaysSignedIn'
  <2>1. signedOut'
    BY <1>9 DEF Revoke, Inv, Staying
  <2> QED
    BY <2>1 DEF StaysSignedIn
<1>10. CASE UNCHANGED vars
  BY <1>10 DEF vars, Inv, StaysSignedIn, Living, At
<1> QED
  BY <1>1, <1>2, <1>3, <1>4, <1>6, <1>7, <1>8, <1>9, <1>10 DEF Next, Reads

\* Every step keeps the invariant.
LEMMA InvStep == Inv /\ [Next]_vars => Inv'
BY TypeStep, ShapeStep, RotatingStep, FreshStep, StayingStep, SessionsStep, AccountsStep,
   StaysStep DEF Inv

LEMMA Invariant == Spec => []Inv
BY InitInv, InvStep, PTL DEF Spec

-----------------------------------------------------------------------------
(***************************************************************************)
(* Every variable has a value the code can give it.                        *)
(***************************************************************************)
THEOREM TypeCorrect == Spec => []TypeOK
<1>1. Inv => TypeOK
  BY DEF Inv
<1> QED
  BY <1>1, Invariant, PTL

(***************************************************************************)
(* However many requests refresh at once, one refresh token of a sign-in   *)
(* works.                                                                  *)
(***************************************************************************)
THEOREM OneToken == Spec => []OneLivingTokenPerSignIn
<1>1. Inv => OneLivingTokenPerSignIn
  BY DEF Inv
<1> QED
  BY <1>1, Invariant, PTL

(***************************************************************************)
(* However many first sign-ins overlap, a Google account or an email has   *)
(* one user.                                                               *)
(***************************************************************************)
THEOREM OneUser == Spec => []OneUserPerIdentity
<1>1. Inv => OneUserPerIdentity
  BY DEF Inv
<1> QED
  BY <1>1, Invariant, PTL

(***************************************************************************)
(* Nobody is signed out by refreshing in several tabs.                     *)
(***************************************************************************)
THEOREM NobodyIsSignedOut == Spec => []StaysSignedIn
<1>1. Inv => StaysSignedIn
  BY DEF Inv
<1> QED
  BY <1>1, Invariant, PTL

-----------------------------------------------------------------------------
(***************************************************************************)
(* The chains of tokens.                                                   *)
(***************************************************************************)
\* A token by its session.
Token(all, i) == <<all[i].signIn, i>>

LEMMA TokensAre ==
  ASSUME Shape, NEW revoked \in BOOLEAN, NEW p
  PROVE  p \in Tokens(revoked) <=>
           \E i \in DOMAIN sessions : sessions[i].revoked = revoked /\ p = Token(sessions, i)
BY DEF Tokens, Token

LEMMA TokensPrime ==
  ASSUME Shape', NEW revoked \in BOOLEAN, NEW p
  PROVE  p \in Tokens(revoked)' <=>
           \E i \in DOMAIN sessions' : sessions'[i].revoked = revoked /\ p = Token(sessions', i)
BY DEF Tokens, Token

\* A number that no session has is a new token.
LEMMA NewToken ==
  ASSUME Shape, NEW n, n \notin DOMAIN sessions
  PROVE  Chains!New(n)
<1>1. ASSUME NEW q \in Tokens(FALSE) \cup Tokens(TRUE) PROVE q[2] # n
  <2>1. PICK i \in DOMAIN sessions : q = Token(sessions, i)
    BY TokensAre
  <2> QED
    BY <2>1 DEF Token
<1> QED
  BY <1>1 DEF Chains!New

LEMMA TokensAdded ==
  ASSUME Inv, Shape', NEW r \in Request, NewSession(r)
  PROVE  Chains!Begin
<1> DEFINE n == Len(sessions) + 1
           new == <<n, n>>
<1>1. /\ DOMAIN sessions' = DOMAIN sessions \cup {n} /\ n \notin DOMAIN sessions
      /\ \A i \in DOMAIN sessions : Same(i)
      /\ sessions'[n].signIn = n /\ sessions'[n].revoked = FALSE
      /\ n \in Nat /\ Shape
  <2>1. Shape /\ Len(sessions) \in Nat
    BY DEF Inv, Shape
  <2>2. sessions'[n] = [signIn |-> n, revoked |-> FALSE, replacedBy |-> 0]
    BY <2>1, Adding
  <2>3. /\ DOMAIN sessions' = DOMAIN sessions \cup {n} /\ n \notin DOMAIN sessions
        /\ \A i \in DOMAIN sessions : Same(i)
    BY <2>1, Adding
  <2>4. sessions'[n].signIn = n /\ sessions'[n].revoked = FALSE
    BY <2>2
  <2> QED
    BY <2>1, <2>3, <2>4
<1>2. \A i \in DOMAIN sessions : Token(sessions', i) = Token(sessions, i) /\ sessions[i].signIn # n
  <2>1. \A i \in DOMAIN sessions : i \in 1..Len(sessions) /\ sessions[i].signIn \in 1..i
    BY <1>1 DEF Shape, Inv, TypeOK
  <2>2. Len(sessions) \in Nat
    BY <1>1 DEF Shape
  <2>3. \A i \in DOMAIN sessions : sessions[i].signIn # n
    BY <2>1, <2>2
  <2> QED
    BY <1>1, <2>3 DEF Token, Same
<1>3. Token(sessions', n) = new
  BY <1>1 DEF Token
<1> HIDE DEF n, new
<1>4. Tokens(FALSE)' = Tokens(FALSE) \cup {new} /\ Tokens(TRUE)' = Tokens(TRUE)
  <2>1. ASSUME NEW p, NEW revoked \in BOOLEAN
        PROVE  /\ p \in Tokens(revoked)' <=>
                    \E i \in DOMAIN sessions' :
                      sessions'[i].revoked = revoked /\ p = Token(sessions', i)
               /\ p \in Tokens(revoked) <=>
                    \E i \in DOMAIN sessions :
                      sessions[i].revoked = revoked /\ p = Token(sessions, i)
    BY <1>1, TokensAre, TokensPrime
  <2>2. \A i \in DOMAIN sessions : sessions'[i].revoked = sessions[i].revoked
    BY <1>1 DEF Same
  <2>3. ASSUME NEW p PROVE p \in Tokens(FALSE)' <=> p \in Tokens(FALSE) \/ p = new
    <3>1. p \in Tokens(FALSE)' <=>
            \E i \in DOMAIN sessions \cup {n} :
              sessions'[i].revoked = FALSE /\ p = Token(sessions', i)
      BY <1>1, <2>1
    <3>2. p \in Tokens(FALSE)' <=>
            \/ \E i \in DOMAIN sessions :
                 sessions'[i].revoked = FALSE /\ p = Token(sessions', i)
            \/ sessions'[n].revoked = FALSE /\ p = new
      BY <1>3, <3>1
    <3>3. p \in Tokens(FALSE) <=>
            \E i \in DOMAIN sessions :
              sessions'[i].revoked = FALSE /\ p = Token(sessions', i)
      <4>1. p \in Tokens(FALSE) <=>
              \E i \in DOMAIN sessions :
                sessions[i].revoked = FALSE /\ p = Token(sessions, i)
        BY <2>1
      <4>2. \A i \in DOMAIN sessions : Token(sessions', i) = Token(sessions, i)
        BY <1>2
      <4> QED
        BY <2>2, <4>1, <4>2
    <3> QED
      BY <1>1, <3>2, <3>3
  <2>4. ASSUME NEW p PROVE p \in Tokens(TRUE)' <=> p \in Tokens(TRUE)
    <3>1. p \in Tokens(TRUE)' <=>
            \E i \in DOMAIN sessions \cup {n} :
              sessions'[i].revoked = TRUE /\ p = Token(sessions', i)
      BY <1>1, <2>1
    <3>2. p \in Tokens(TRUE)' <=>
            \/ \E i \in DOMAIN sessions :
                 sessions'[i].revoked = TRUE /\ p = Token(sessions', i)
            \/ sessions'[n].revoked = TRUE /\ p = new
      BY <1>3, <3>1
    <3>3. p \in Tokens(TRUE) <=>
            \E i \in DOMAIN sessions :
              sessions'[i].revoked = TRUE /\ p = Token(sessions', i)
      <4>1. p \in Tokens(TRUE) <=>
              \E i \in DOMAIN sessions :
                sessions[i].revoked = TRUE /\ p = Token(sessions, i)
        BY <2>1
      <4>2. \A i \in DOMAIN sessions : Token(sessions', i) = Token(sessions, i)
        BY <1>2
      <4> QED
        BY <2>2, <4>1, <4>2
    <3> QED
      BY <1>1, <3>2, <3>3
  <2> QED
    BY <2>3, <2>4
<1>5. \A q \in Tokens(FALSE) \cup Tokens(TRUE) : q[1] # n
  <2> SUFFICES ASSUME NEW q \in Tokens(FALSE) \cup Tokens(TRUE) PROVE q[1] # n
    OBVIOUS
  <2>1. PICK i \in DOMAIN sessions : q = Token(sessions, i)
    BY <1>1, TokensAre
  <2> QED
    BY <1>2, <2>1 DEF Token
<1>6. Chains!New(n) /\ new[1] = n /\ new[2] = n
  BY <1>1, NewToken DEF new
<1>7. new \notin Tokens(FALSE)
  BY <1>5, <1>6
<1>8. new \in Tokens(FALSE)' \ Tokens(FALSE)
  BY <1>4, <1>7
<1> QED
  BY <1>4, <1>5, <1>6, <1>8 DEF Chains!Begin

LEMMA TokenUsed ==
  ASSUME Inv, Shape', NEW r \in Request, Rotate(r)
  PROVE  Chains!Use
<1> DEFINE n == Len(sessions) + 1
           i == request[r].session
           new == <<sessions[i].signIn, n>>
<1>1. /\ DOMAIN sessions' = DOMAIN sessions \cup {n} /\ n \notin DOMAIN sessions
      /\ i \in DOMAIN sessions
      /\ \A j \in DOMAIN sessions \ {i} : Same(j)
      /\ sessions'[i].signIn = sessions[i].signIn /\ sessions'[i].revoked = TRUE
      /\ sessions'[n].signIn = sessions[i].signIn /\ sessions'[n].revoked = FALSE
      /\ Shape
  <2>1. /\ sessions'[i] = [signIn |-> sessions[i].signIn, revoked |-> TRUE, replacedBy |-> n]
        /\ sessions'[n] = [signIn |-> sessions[i].signIn, revoked |-> FALSE, replacedBy |-> 0]
    BY Replacing DEF Inv
  <2>2. /\ DOMAIN sessions' = DOMAIN sessions \cup {n} /\ n \notin DOMAIN sessions
        /\ i \in DOMAIN sessions
        /\ \A j \in DOMAIN sessions \ {i} : Same(j)
    BY Replacing DEF Inv
  <2> HIDE DEF i, n
  <2> QED
    BY <2>1, <2>2 DEF Inv
<1>2. sessions[i].revoked = FALSE
  BY <1>1 DEF Inv, Rotating, Rotate, Shape, Session
<1>3. /\ Token(sessions', n) = new
      /\ \A j \in DOMAIN sessions : Token(sessions', j) = Token(sessions, j)
  BY <1>1 DEF Token, Same
<1>4. \A j, k \in DOMAIN sessions : Token(sessions, j) = Token(sessions, k) => j = k
  BY DEF Token
<1> HIDE DEF n, i
<1>5. new[1] = Token(sessions, i)[1] /\ new[2] = n
  BY DEF Token
<1> HIDE DEF new
<1>6. Token(sessions, i) \in Tokens(FALSE)
  BY <1>1, <1>2, TokensAre
<1>7. Chains!New(n)
  BY <1>1, NewToken
<1>8. new \notin Tokens(FALSE) /\ new \notin Tokens(TRUE)
  BY <1>5, <1>7 DEF Chains!New
<1>9. Tokens(FALSE)' = (Tokens(FALSE) \ {Token(sessions, i)}) \cup {new}
  <2>1. ASSUME NEW p, p \in Tokens(FALSE)'
        PROVE  p = new \/ (p \in Tokens(FALSE) /\ p # Token(sessions, i))
    <3>1. PICK j \in DOMAIN sessions' : sessions'[j].revoked = FALSE /\ p = Token(sessions', j)
      BY <2>1, TokensPrime
    <3>2. CASE j = n
      BY <1>3, <3>1, <3>2
    <3>3. CASE j # n
      <4>1. j \in DOMAIN sessions \ {i} /\ sessions[j].revoked = FALSE /\ p = Token(sessions, j)
        BY <1>1, <1>3, <3>1, <3>3 DEF Same
      <4> QED
        BY <1>1, <1>4, <4>1, TokensAre
    <3> QED
      BY <3>2, <3>3
  <2>2. ASSUME NEW p \in Tokens(FALSE), p # Token(sessions, i) PROVE p \in Tokens(FALSE)'
    <3>1. PICK j \in DOMAIN sessions : sessions[j].revoked = FALSE /\ p = Token(sessions, j)
      BY <1>1, <2>2, TokensAre
    <3>2. j # i /\ sessions'[j].revoked = FALSE /\ p = Token(sessions', j) /\ j \in DOMAIN sessions'
      BY <1>1, <1>3, <2>2, <3>1 DEF Same
    <3> QED
      BY <3>2, TokensPrime
  <2>3. new \in Tokens(FALSE)'
    BY <1>1, <1>3, TokensPrime
  <2> QED
    BY <2>1, <2>2, <2>3
<1>10. Tokens(TRUE)' = Tokens(TRUE) \cup {Token(sessions, i)}
  <2>1. ASSUME NEW p, p \in Tokens(TRUE)' PROVE p \in Tokens(TRUE) \/ p = Token(sessions, i)
    <3>1. PICK j \in DOMAIN sessions' : sessions'[j].revoked = TRUE /\ p = Token(sessions', j)
      BY <2>1, TokensPrime
    <3>2. j \in DOMAIN sessions /\ p = Token(sessions, j)
      BY <1>1, <1>3, <3>1
    <3> QED
      BY <1>1, <3>1, <3>2, TokensAre DEF Same
  <2>2. ASSUME NEW p \in Tokens(TRUE) PROVE p \in Tokens(TRUE)'
    <3>1. PICK j \in DOMAIN sessions : sessions[j].revoked = TRUE /\ p = Token(sessions, j)
      BY <1>1, <2>2, TokensAre
    <3>2. sessions'[j].revoked = TRUE /\ p = Token(sessions', j) /\ j \in DOMAIN sessions'
      BY <1>1, <1>3, <3>1 DEF Same
    <3> QED
      BY <3>2, TokensPrime
  <2>3. Token(sessions, i) \in Tokens(TRUE)'
    BY <1>1, <1>3, TokensPrime
  <2> QED
    BY <2>1, <2>2, <2>3
<1>11. new \in Tokens(FALSE)' \ Tokens(FALSE)
  BY <1>8, <1>9
<1> QED
  BY <1>5, <1>6, <1>7, <1>9, <1>10, <1>11 DEF Chains!Use

\* A logout ends its session, or finds it rotated.
LEMMA TokenEnded ==
  ASSUME Inv, Shape', NEW r \in Request, Revoke(r)
  PROVE  Chains!End \/ UNCHANGED <<Tokens(FALSE), Tokens(TRUE)>>
<1> DEFINE i == request[r].session
<1>1. /\ DOMAIN sessions' = DOMAIN sessions /\ i \in DOMAIN sessions
      /\ \A j \in DOMAIN sessions \ {i} : Same(j)
      /\ sessions'[i].signIn = sessions[i].signIn /\ sessions'[i].revoked = TRUE
      /\ Shape
  <2>1. /\ DOMAIN sessions' = DOMAIN sessions /\ i \in DOMAIN sessions
        /\ \A j \in DOMAIN sessions \ {i} : Same(j)
        /\ sessions'[i] = [sessions[i] EXCEPT !.revoked = TRUE]
    BY Revoking DEF Inv
  <2> HIDE DEF i
  <2>2. sessions[i] \in Session
    BY <2>1 DEF Inv, Shape
  <2> QED
    BY <2>1, <2>2 DEF Inv, Session
<1>2. \A j \in DOMAIN sessions : Token(sessions', j) = Token(sessions, j)
  BY <1>1 DEF Token, Same
<1>3. \A j, k \in DOMAIN sessions : Token(sessions, j) = Token(sessions, k) => j = k
  BY DEF Token
<1> HIDE DEF i
<1>4. sessions[i].revoked \in BOOLEAN
  <2>1. sessions[i] \in Session
    BY <1>1 DEF Shape
  <2> QED
    BY <2>1 DEF Session
<1>5. CASE sessions[i].revoked = TRUE
  <2>1. \A j \in DOMAIN sessions : sessions'[j].revoked = sessions[j].revoked
    BY <1>1, <1>5 DEF Same
  <2>2. \A revoked \in BOOLEAN : \A p : p \in Tokens(revoked)' <=> p \in Tokens(revoked)
    BY <1>1, <1>2, <2>1, TokensAre, TokensPrime
  <2>3. Tokens(FALSE)' = Tokens(FALSE) /\ Tokens(TRUE)' = Tokens(TRUE)
    BY <2>2
  <2> QED
    BY <2>3
<1>6. CASE sessions[i].revoked = FALSE
  <2>1. Token(sessions, i) \in Tokens(FALSE)
    BY <1>1, <1>6, TokensAre
  <2>2. ASSUME NEW p PROVE p \in Tokens(FALSE)' <=> p \in Tokens(FALSE) /\ p # Token(sessions, i)
    <3>1. p \in Tokens(FALSE)' <=>
            \E j \in DOMAIN sessions : sessions'[j].revoked = FALSE /\ p = Token(sessions, j)
      <4>1. p \in Tokens(FALSE)' <=>
              \E j \in DOMAIN sessions' :
                sessions'[j].revoked = FALSE /\ p = Token(sessions', j)
        BY TokensPrime
      <4> QED
        BY <1>1, <1>2, <4>1
    <3>2. p \in Tokens(FALSE) <=>
            \E j \in DOMAIN sessions : sessions[j].revoked = FALSE /\ p = Token(sessions, j)
      BY <1>1, TokensAre
    <3>3. \A j \in DOMAIN sessions :
            sessions'[j].revoked = FALSE <=> sessions[j].revoked = FALSE /\ j # i
      BY <1>1 DEF Same
    <3> QED
      BY <1>1, <1>3, <3>1, <3>2, <3>3
  <2>3. ASSUME NEW p PROVE p \in Tokens(TRUE)' <=> p \in Tokens(TRUE) \/ p = Token(sessions, i)
    <3>1. p \in Tokens(TRUE)' <=>
            \E j \in DOMAIN sessions : sessions'[j].revoked = TRUE /\ p = Token(sessions, j)
      <4>1. p \in Tokens(TRUE)' <=>
              \E j \in DOMAIN sessions' :
                sessions'[j].revoked = TRUE /\ p = Token(sessions', j)
        BY TokensPrime
      <4> QED
        BY <1>1, <1>2, <4>1
    <3>2. p \in Tokens(TRUE) <=>
            \E j \in DOMAIN sessions : sessions[j].revoked = TRUE /\ p = Token(sessions, j)
      BY <1>1, TokensAre
    <3>3. \A j \in DOMAIN sessions :
            sessions'[j].revoked = TRUE <=> sessions[j].revoked = TRUE \/ j = i
      BY <1>1 DEF Same
    <3> QED
      BY <1>1, <3>1, <3>2, <3>3
  <2>4. /\ Tokens(FALSE)' = Tokens(FALSE) \ {Token(sessions, i)}
        /\ Tokens(TRUE)' = Tokens(TRUE) \cup {Token(sessions, i)}
    BY <2>2, <2>3
  <2> QED
    BY <2>1, <2>4 DEF Chains!End
<1> QED
  BY <1>4, <1>5, <1>6

LEMMA ChainsStep ==
  Inv /\ [Next]_vars => [Chains!Next]_(Chains!vars)
<1> SUFFICES ASSUME Inv, [Next]_vars
             PROVE  Chains!Next \/ UNCHANGED <<Tokens(FALSE), Tokens(TRUE)>>
  BY DEF Chains!vars
<1>0. Shape'
  BY ShapeStep
<1>1. ASSUME sessions' = sessions PROVE UNCHANGED <<Tokens(FALSE), Tokens(TRUE)>>
  BY <1>1 DEF Tokens
<1>2. ASSUME NEW r \in Request, Reads(r) PROVE sessions' = sessions
  BY <1>2, ReadsKeep
<1>3. ASSUME NEW r \in Request, SignIn(r) PROVE Chains!Next
  BY <1>0, <1>3, TokensAdded DEF SignIn, Chains!Next
<1>4. ASSUME NEW r \in Request, Register(r) PROVE Chains!Next \/ sessions' = sessions
  BY <1>0, <1>4, TokensAdded DEF Register, Chains!Next
<1>5. ASSUME NEW r \in Request, Rotate(r) PROVE Chains!Next
  BY <1>0, <1>5, TokenUsed DEF Chains!Next
<1>6. ASSUME NEW r \in Request, Revoke(r)
      PROVE  Chains!Next \/ UNCHANGED <<Tokens(FALSE), Tokens(TRUE)>>
  BY <1>0, <1>6, TokenEnded DEF Chains!Next
<1>7. CASE UNCHANGED vars
  BY <1>1, <1>7 DEF vars
<1> QED
  BY <1>1, <1>2, <1>3, <1>4, <1>5, <1>6, <1>7 DEF Next, Reads

(***************************************************************************)
(* The sessions implement SignIns: whatever requests overlap, a used token *)
(* never works again, nor does any of a sign-in that has ended.            *)
(***************************************************************************)
THEOREM UsedOnce == Spec => TokensAreUsedOnce
<1>1. Init => Chains!Init
  BY DEF Init, Chains!Init, Tokens
<1> QED
  BY <1>1, ChainsStep, Invariant, PTL DEF Spec, TokensAreUsedOnce, Chains!Spec
=============================================================================

--------------------------- MODULE SessionsProofs ---------------------------
(***************************************************************************)
(* Theorems of Sessions, for every number of accounts, clients, attempts,  *)
(* requests and restarts, and every length of a challenge or a session.    *)
(*                                                                         *)
(* The argument: a nonce is issued once and lives in one place.  It is in  *)
(* a row of the table until a verification consumes the row, before the    *)
(* call waits for anything; from then on it is with that verification or   *)
(* with the session it opened, and no row has it again.                    *)
(***************************************************************************)
EXTENDS Sessions, TLAPS

ChallengeType == [acct : Accounts, nonce : 1..MaxChallenges, until : Nat]

AttemptType == [client : Clients, acct : Accounts, nonce : 1..MaxChallenges, until : Nat,
                signer : Accounts, try : 1..MaxTries]

VerifyingType == [client : Clients, acct : Accounts, nonce : 1..MaxChallenges, until : Nat,
                  signer : Accounts, try : 1..MaxTries, at : Nat]

RequestType == [token : TokenType, route : Routes, command : Commands, account : Accounts,
                at : Nat]

\* What a client keeps in each state of its sign-in.
Challenged == [pc : {"challenged"}, ch : ChallengeType]
Signed == [pc : {"signed"}, ch : ChallengeType, signer : Accounts, try : 0..MaxTries - 1]
Waiting == [pc : {"waiting"}, ch : ChallengeType, signer : Accounts, try : 1..MaxTries]
SignedIn == [pc : {"in"}, token : sessions]

ClientType == [pc : {"out"}] \cup Challenged \cup Signed \cup Waiting \cup SignedIn

Types ==
  /\ now \in 0..MaxTime /\ issued \in 0..MaxChallenges
  /\ challenges \subseteq ChallengeType
  /\ wire \subseteq AttemptType
  /\ verifying \subseteq VerifyingType
  /\ sessions \subseteq TokenType
  /\ pending \subseteq RequestType
  /\ client \in [Clients -> ClientType]

\* Where a nonce is: in one row, with one verification or with one session.
NoncePlaces ==
  /\ \A c \in challenges : c.nonce <= issued
  /\ \A c1, c2 \in challenges : c1.acct = c2.acct \/ c1.nonce = c2.nonce => c1 = c2
  /\ \A v \in verifying : v.nonce <= issued /\ \A c \in challenges : c.nonce # v.nonce
  /\ \A v1, v2 \in verifying : v1.nonce = v2.nonce => v1 = v2
  /\ \A s \in sessions : /\ s.nonce <= issued
                         /\ \A c \in challenges : c.nonce # s.nonce
                         /\ \A v \in verifying : v.nonce # s.nonce
  /\ OneSessionPerChallenge

\* A call passed the test of its timestamps with the time it will sign into the token.
Bounds ==
  /\ \A v \in verifying : v.at < v.until
  /\ SessionBounded

\* A request holds a session that was valid when it arrived; its body is still unread.
RequestsAuthenticated ==
  /\ \A q \in pending : q.token \in sessions /\ q.at <= q.token.exp
  /\ JobsAreAuthorized

IInv == Types /\ NoncePlaces /\ Bounds /\ RequestsAuthenticated

-----------------------------------------------------------------------------
(***************************************************************************)
(* What the operators build                                                *)
(***************************************************************************)
LEMMA ClientIsIn ==
  ASSUME NEW s \in ClientType
  PROVE  /\ s.pc \in {"out", "challenged", "signed", "waiting", "in"}
         /\ s.pc = "challenged" => s \in Challenged
         /\ s.pc = "signed" => s \in Signed
         /\ s.pc = "waiting" => s \in Waiting
         /\ s.pc = "in" => s \in SignedIn
BY DEF ClientType, Challenged, Signed, Waiting, SignedIn

LEMMA AttemptIsTyped ==
  ASSUME IInv, NEW c \in Clients, client[c].pc = "signed"
  PROVE  Attempt(c) \in AttemptType
<1>1. client[c] \in Signed
  BY ClientIsIn DEF IInv, Types
<1>2. client[c].try + 1 \in 1..MaxTries
  BY <1>1, ConstantsAssumption DEF Signed
<1> QED
  BY <1>1, <1>2 DEF Attempt, AttemptType, ChallengeType, Signed

\* A verification is read with the time of the clock, which bounds what it may sign.
LEMMA ReadIsTyped ==
  ASSUME IInv, NEW v \in AttemptType
  PROVE  /\ Read(v) \in VerifyingType
         /\ Read(v).nonce = v.nonce /\ Read(v).at = now /\ Read(v).until = v.until
BY ConstantsAssumption DEF IInv, Types, AttemptType, VerifyingType, Read

LEMMA TokenIsTyped ==
  ASSUME NEW v \in VerifyingType
  PROVE  /\ Token(v) \in TokenType
         /\ Token(v).nonce = v.nonce /\ Token(v).signer = v.signer /\ Token(v).acct = v.acct
         /\ v.at < v.until => Token(v).exp < Token(v).until + SessionLife
BY ConstantsAssumption DEF VerifyingType, TokenType, Token

\* A client that waits goes back to its signed challenge, if attempts are left.
LEMMA SignedAgain ==
  ASSUME IInv, NEW c \in Clients, client[c].pc = "waiting", client[c].try < MaxTries
  PROVE  [client EXCEPT ![c].pc = "signed"] \in [Clients -> ClientType]
<1> DEFINE s == [client[c] EXCEPT !.pc = "signed"]
<1>1. client[c] \in Waiting
  BY ClientIsIn DEF IInv, Types
<1>2. s = [pc |-> "signed", ch |-> client[c].ch, signer |-> client[c].signer, try |-> client[c].try]
  BY <1>1 DEF Waiting
<1>3. s \in Signed
  BY <1>1, <1>2, ConstantsAssumption DEF Waiting, Signed
<1> QED
  BY <1>3 DEF IInv, Types, ClientType

LEMMA OutAgain ==
  ASSUME IInv, NEW c \in Clients
  PROVE  [client EXCEPT ![c] = Out] \in [Clients -> ClientType]
BY DEF IInv, Types, ClientType, Out

\* A failed attempt leaves its client where it was, ready to try again, or out.
LEMMA RetriedIsTyped ==
  ASSUME IInv, NEW v \in AttemptType \cup VerifyingType
  PROVE  Retried(v) \in [Clients -> ClientType]
<1>1. v.client \in Clients
  BY DEF AttemptType, VerifyingType
<1>2. client \in [Clients -> ClientType]
  BY DEF IInv, Types
<1> QED
  BY <1>1, <1>2, SignedAgain, OutAgain DEF Retried, Waits

-----------------------------------------------------------------------------
(***************************************************************************)
(* The invariant                                                           *)
(***************************************************************************)
LEMMA InitInv == ASSUME Init PROVE IInv
<1>1. Types
  BY ConstantsAssumption DEF Init, Types, ClientType, Out
<1>2. NoncePlaces
  BY DEF Init, NoncePlaces, OneSessionPerChallenge
<1> QED
  BY <1>1, <1>2 DEF Init, IInv, Bounds, SessionBounded, RequestsAuthenticated, JobsAreAuthorized

\* What no table is changed by keeps the invariant, if the client is typed.
LEMMA ClientStep ==
  ASSUME IInv, client' \in [Clients -> ClientType],
         UNCHANGED <<now, challenges, issued, verifying, sessions, pending, jobs>>,
         wire' \subseteq AttemptType
  PROVE  IInv'
<1>1. ClientType' = ClientType
  BY DEF ClientType, Challenged, Signed, Waiting, SignedIn
<1>2. Types'
  BY <1>1 DEF IInv, Types
<1> QED
  BY <1>2 DEF IInv, NoncePlaces, Bounds, RequestsAuthenticated, OneSessionPerChallenge,
              SessionBounded, JobsAreAuthorized

\* A new row has a nonce that is nowhere yet.
LEMMA GetChallengeStep ==
  ASSUME IInv, NEW c \in Clients, GetChallenge(c)
  PROVE  IInv'
<1> DEFINE ch == Challenge(Owner[c], issued + 1)
<1>1. ch \in ChallengeType /\ ch.acct = Owner[c] /\ ch.nonce = issued + 1
  BY ConstantsAssumption DEF IInv, Types, GetChallenge, Challenge, ChallengeType
<1>2. /\ challenges' = {x \in challenges : x.acct # Owner[c]} \cup {ch}
      /\ issued' = issued + 1 /\ issued' \in 0..MaxChallenges
      /\ client' = [client EXCEPT ![c] = [pc |-> "challenged", ch |-> ch]]
      /\ UNCHANGED <<now, wire, verifying, sessions, pending, jobs>>
  BY <1>1, ConstantsAssumption DEF IInv, Types, GetChallenge, PutChallenge
<1> HIDE DEF ch
<1>3. Types'
  <2>1. ClientType' = ClientType /\ [pc |-> "challenged", ch |-> ch] \in ClientType
    BY <1>1, <1>2 DEF ClientType, Challenged, Signed, Waiting, SignedIn
  <2>2. client' \in [Clients -> ClientType]
    BY <1>2, <2>1 DEF IInv, Types
  <2> QED
    BY <1>1, <1>2, <2>1, <2>2 DEF IInv, Types
<1>4. NoncePlaces'
  <2>1. \A x \in challenges' : x = ch \/ (x \in challenges /\ x.acct # ch.acct)
    BY <1>1, <1>2
  <2>2. /\ \A x \in challenges : x.nonce \in Int /\ x.nonce <= issued
        /\ \A v \in verifying : v.nonce \in Int /\ v.nonce <= issued
        /\ \A t \in sessions : t.nonce \in Int /\ t.nonce <= issued
        /\ issued \in Int
    BY DEF IInv, Types, NoncePlaces, ChallengeType, VerifyingType, TokenType
  <2>3. \A x \in challenges' : x.nonce \in Int /\ x.nonce <= issued'
    BY <1>1, <1>2, <2>1, <2>2
  <2>4. \A x, y \in challenges' : x.acct = y.acct \/ x.nonce = y.nonce => x = y
    BY <1>1, <2>1, <2>2 DEF IInv, NoncePlaces
  <2>5. /\ \A v \in verifying : \A x \in challenges' : x.nonce # v.nonce
        /\ \A t \in sessions : \A x \in challenges' : x.nonce # t.nonce
    BY <1>1, <2>1, <2>2 DEF IInv, NoncePlaces
  <2> QED
    BY <1>2, <2>2, <2>3, <2>4, <2>5 DEF IInv, NoncePlaces, OneSessionPerChallenge
<1> QED
  BY <1>2, <1>3, <1>4 DEF IInv, Bounds, RequestsAuthenticated, SessionBounded, JobsAreAuthorized

\* A verification that consumes its row takes the nonce with it.
LEMMA ReceiveStep ==
  ASSUME IInv, NEW v \in wire, Receive(v)
  PROVE  IInv'
<1>0. v \in AttemptType
  BY DEF IInv, Types
<1>1. CASE ~(InTime(v) /\ Consumable(v))
  BY <1>0, <1>1, RetriedIsTyped, ClientStep DEF Receive, IInv, Types
<1>2. CASE InTime(v) /\ Consumable(v)
  <2>1. PICK ch \in challenges : ch.acct = v.acct /\ ch.nonce = v.nonce
    BY <1>2 DEF Consumable
  <2>2. /\ challenges' = {x \in challenges : x.acct # v.acct}
        /\ verifying' = verifying \cup {Read(v)}
        /\ wire' \subseteq wire
        /\ UNCHANGED <<now, issued, client, sessions, pending, jobs>>
    BY <1>2 DEF Receive, Consumed
  <2>3. /\ Read(v) \in VerifyingType /\ Read(v).nonce = ch.nonce
        /\ Read(v).at < Read(v).until
    BY <1>0, <1>2, <2>1, ReadIsTyped DEF InTime
  <2>4. Types'
    <3>1. ClientType' = ClientType
      BY <2>2 DEF ClientType, Challenged, Signed, Waiting, SignedIn
    <3> QED
      BY <2>2, <2>3, <3>1 DEF IInv, Types
  <2>5. \A x \in challenges' : x \in challenges /\ x.nonce # ch.nonce
    BY <2>1, <2>2 DEF IInv, NoncePlaces
  <2>6. NoncePlaces'
    <3>1. \A w \in verifying' : w \in verifying \/ (w = Read(v) /\ w.nonce = ch.nonce)
      BY <2>2, <2>3
    <3>2. \A w1, w2 \in verifying' : w1.nonce = w2.nonce => w1 = w2
      BY <2>1, <3>1 DEF IInv, NoncePlaces
    <3>3. \A w \in verifying' : w.nonce <= issued /\ \A x \in challenges' : x.nonce # w.nonce
      BY <2>1, <2>5, <3>1 DEF IInv, NoncePlaces
    <3>4. \A t \in sessions : \A w \in verifying' : w.nonce # t.nonce
      BY <2>1, <3>1 DEF IInv, NoncePlaces
    <3> QED
      BY <2>2, <2>5, <3>2, <3>3, <3>4 DEF IInv, NoncePlaces, OneSessionPerChallenge
  <2>7. Bounds'
    <3>1. \A w \in verifying' : w \in verifying \/ w = Read(v)
      BY <2>2
    <3>2. \A w \in verifying' : w.at < w.until
      BY <2>3, <3>1 DEF IInv, Bounds
    <3> QED
      BY <2>2, <3>2 DEF IInv, Bounds, SessionBounded
  <2> QED
    BY <2>2, <2>4, <2>6, <2>7 DEF IInv, RequestsAuthenticated, JobsAreAuthorized
<1> QED
  BY <1>1, <1>2

\* The session that a verification opens takes its nonce over.
LEMMA VerifyStep ==
  ASSUME IInv, NEW v \in verifying, Verify(v)
  PROVE  IInv'
<1>0. v \in VerifyingType /\ v.client \in Clients
  BY DEF IInv, Types, VerifyingType
<1>1. /\ verifying' = verifying \ {v}
      /\ UNCHANGED <<now, challenges, issued, wire, pending, jobs>>
  BY DEF Verify
<1>2. CASE v.signer # v.acct
  <2>1. client' \in [Clients -> ClientType] /\ sessions' = sessions
    BY <1>0, <1>2, RetriedIsTyped DEF Verify
  <2>2. ClientType' = ClientType
    BY <2>1 DEF ClientType, Challenged, Signed, Waiting, SignedIn
  <2>3. Types'
    BY <1>1, <2>1, <2>2 DEF IInv, Types
  <2> QED
    BY <1>1, <2>1, <2>3 DEF IInv, NoncePlaces, Bounds, RequestsAuthenticated,
                            OneSessionPerChallenge, SessionBounded, JobsAreAuthorized
<1>3. CASE v.signer = v.acct
  <2>1. sessions' = sessions \cup {Token(v)}
    BY <1>3 DEF Verify
  <2>2. /\ Token(v) \in TokenType /\ Token(v).nonce = v.nonce
        /\ Token(v).signer = Token(v).acct
        /\ Token(v).exp < Token(v).until + SessionLife
    BY <1>0, <1>3, TokenIsTyped DEF IInv, Bounds
  <2>3. \A t \in sessions' : t \in sessions \/ (t = Token(v) /\ t.nonce = v.nonce)
    BY <2>1, <2>2
  <2>4. Types'
    <3>1. ClientType \subseteq ClientType'
      BY <2>1 DEF ClientType, Challenged, Signed, Waiting, SignedIn
    <3>2. [pc |-> "in", token |-> Token(v)] \in ClientType'
      BY <2>1 DEF ClientType, SignedIn
    <3>3. client' \in [Clients -> ClientType']
      BY <1>0, <1>3, <3>1, <3>2 DEF Verify, IInv, Types
    <3> QED
      BY <1>1, <2>1, <2>2, <3>3 DEF IInv, Types
  <2>5. NoncePlaces'
    <3>1. \A t \in sessions' : /\ t.nonce <= issued
                               /\ \A c \in challenges : c.nonce # t.nonce
                               /\ \A w \in verifying' : w.nonce # t.nonce
      BY <1>1, <2>3 DEF IInv, NoncePlaces
    <3>2. OneSessionPerChallenge'
      BY <2>3 DEF IInv, NoncePlaces, OneSessionPerChallenge
    <3> QED
      BY <1>1, <3>1, <3>2 DEF IInv, NoncePlaces
  <2>6. Bounds'
    <3>1. SessionBounded'
      BY <2>2, <2>3 DEF IInv, Bounds, SessionBounded
    <3> QED
      BY <1>1, <3>1 DEF IInv, Bounds
  <2>7. RequestsAuthenticated'
    BY <1>1, <2>1 DEF IInv, RequestsAuthenticated, JobsAreAuthorized
  <2> QED
    BY <2>4, <2>5, <2>6, <2>7 DEF IInv
<1> QED
  BY <1>2, <1>3

\* A step that only moves a request, with the session it was authenticated by.
LEMMA RequestMoves ==
  ASSUME IInv, pending' \subseteq RequestType,
         \A q \in pending' : q.token \in sessions /\ q.at <= q.token.exp,
         \A q \in jobs' : q \in jobs \/ (q \in pending /\ Accepted(q)),
         UNCHANGED <<now, challenges, issued, client, wire, verifying, sessions>>
  PROVE  IInv'
<1>1. Types'
  BY DEF IInv, Types, ClientType, Challenged, Signed, Waiting, SignedIn
<1>2. RequestsAuthenticated'
  BY DEF IInv, RequestsAuthenticated, JobsAreAuthorized, Accepted
<1> QED
  BY <1>1, <1>2 DEF IInv, NoncePlaces, Bounds, OneSessionPerChallenge, SessionBounded

LEMMA RequestStep ==
  ASSUME IInv, NEW c \in Clients, NEW r \in Routes, NEW d \in Commands, NEW a \in Accounts,
         Request(c, r, d, a)
  PROVE  IInv'
<1> DEFINE q == [token |-> client[c].token, route |-> r, command |-> d, account |-> a, at |-> now]
<1>1. client[c] \in SignedIn
  BY ClientIsIn DEF Request, IInv, Types
<1>2. client[c].token \in sessions /\ client[c].token \in TokenType
  BY <1>1 DEF SignedIn, IInv, Types
<1>3. now \in Nat /\ now <= client[c].token.exp
  BY <1>2, ConstantsAssumption DEF Request, IInv, Types, TokenType
<1>4. q \in RequestType /\ q.token \in sessions /\ q.at <= q.token.exp
  BY <1>2, <1>3 DEF RequestType
<1>5. pending' = pending \cup {q} /\ jobs' = jobs
  BY DEF Request
<1> QED
  BY <1>4, <1>5, RequestMoves DEF Request, IInv, Types, RequestsAuthenticated

\* The calls in progress are lost, and nothing that was consumed comes back.
LEMMA RestartStep == ASSUME IInv, Restart PROVE IInv'
<1>1. Types'
  BY DEF Restart, IInv, Types, ClientType, Challenged, Signed, Waiting, SignedIn
<1> QED
  BY <1>1 DEF Restart, IInv, NoncePlaces, Bounds, RequestsAuthenticated, OneSessionPerChallenge,
              SessionBounded, JobsAreAuthorized

LEMMA InvStep == ASSUME IInv, [Next]_vars PROVE IInv'
<1> USE DEF IInv, Types
<1>1. ASSUME NEW c \in Clients, GetChallenge(c) PROVE IInv'
  BY <1>1, GetChallengeStep
<1>2. ASSUME NEW c \in Clients, Send(c) PROVE IInv'
  <2>1. client[c] \in Signed
    BY <1>2, ClientIsIn DEF Send
  <2>2. client' = [client EXCEPT ![c] = [pc |-> "waiting", ch |-> client[c].ch,
                                         signer |-> client[c].signer, try |-> client[c].try + 1]]
    BY <1>2, <2>1 DEF Send, Signed
  <2>3. client'[c] \in Waiting
    BY <2>1, <2>2, ConstantsAssumption DEF Signed, Waiting
  <2>4. client' \in [Clients -> ClientType]
    BY <2>2, <2>3 DEF ClientType
  <2>5. wire' \subseteq AttemptType
    BY <1>2, AttemptIsTyped DEF Send
  <2> QED
    BY <1>2, <2>4, <2>5, ClientStep DEF Send
<1>3. ASSUME NEW c \in Clients, GiveUp(c) PROVE IInv'
  <2>1. client' \in [Clients -> ClientType]
    BY <1>3, SignedAgain, OutAgain DEF GiveUp
  <2> QED
    BY <1>3, <2>1, ClientStep DEF GiveUp
<1>4. ASSUME NEW c \in Clients, Refused(c) PROVE IInv'
  <2>1. client' \in [Clients -> ClientType]
    BY <1>4, OutAgain DEF Refused
  <2> QED
    BY <1>4, <2>1, ClientStep DEF Refused
<1>5. ASSUME NEW c \in Clients, NEW a \in Accounts, Sign(c, a) PROVE IInv'
  <2>1. client[c] \in Challenged
    BY <1>5, ClientIsIn DEF Sign
  <2>2. [pc |-> "signed", ch |-> client[c].ch, signer |-> a, try |-> 0] \in Signed
    BY <2>1, ConstantsAssumption DEF Challenged, Signed
  <2>3. client' \in [Clients -> ClientType]
    BY <1>5, <2>2 DEF Sign, ClientType
  <2> QED
    BY <1>5, <2>3, ClientStep DEF Sign
<1>6. ASSUME NEW c \in Clients, NEW r \in Routes, NEW d \in Commands, NEW a \in Accounts,
             Request(c, r, d, a)
      PROVE  IInv'
  BY <1>6, RequestStep
<1>7. ASSUME NEW v \in wire, Receive(v) PROVE IInv'
  BY <1>7, ReceiveStep
<1>8. ASSUME NEW v \in verifying, Verify(v) PROVE IInv'
  BY <1>8, VerifyStep
<1>9. ASSUME NEW q \in pending, Enqueue(q) \/ NotReady(q) PROVE IInv'
  BY <1>9, RequestMoves DEF Enqueue, NotReady, RequestsAuthenticated
<1>10. CASE Restart
  BY <1>10, RestartStep
<1>11. CASE Tick
  <2>1. Types'
    BY <1>11, ConstantsAssumption DEF Tick, ClientType, Challenged, Signed, Waiting, SignedIn
  <2> QED
    BY <1>11, <2>1 DEF Tick, NoncePlaces, Bounds, RequestsAuthenticated, OneSessionPerChallenge,
                       SessionBounded, JobsAreAuthorized
<1>12. CASE UNCHANGED vars
  <2>1. Types'
    BY <1>12 DEF vars, ClientType, Challenged, Signed, Waiting, SignedIn
  <2> QED
    BY <1>12, <2>1 DEF vars, NoncePlaces, Bounds, RequestsAuthenticated, OneSessionPerChallenge,
                       SessionBounded, JobsAreAuthorized
<1> QED
  BY <1>1, <1>2, <1>3, <1>4, <1>5, <1>6, <1>7, <1>8, <1>9, <1>10, <1>11, <1>12 DEF Next

LEMMA Invariant == Spec => []IInv
<1>1. Init => IInv
  BY InitInv
<1>2. IInv /\ [Next]_vars => IInv'
  BY InvStep
<1> QED
  BY <1>1, <1>2, PTL DEF Spec

-----------------------------------------------------------------------------
(***************************************************************************)
(* The theorems                                                            *)
(***************************************************************************)
LEMMA InvImpliesSignIn == ASSUME IInv PROVE SignInInvariant
<1>1. \A c \in Clients : client[c].pc \in {"out", "challenged", "signed", "waiting", "in"}
  BY ClientIsIn DEF IInv, Types
<1>2. TypeOK
  BY <1>1 DEF IInv, Types, NoncePlaces, TypeOK
<1> QED
  BY <1>2 DEF IInv, NoncePlaces, Bounds, SignInInvariant

\* Whatever is sent twice, lost, overtaken or cut off by a restart, a challenge opens
\* one session at most, of the account that signed, for one session's life at most
\* after the challenge's (createSession, consumeChallenge, sign).
THEOREM SignInIsSafe == Spec => []SignInInvariant
<1>1. IInv => SignInInvariant
  BY InvImpliesSignIn
<1> QED
  BY <1>1, Invariant, PTL

\* A job is for the account of a session that was valid when its request arrived, with
\* a command of its route, though the handler waits in between (authenticated).
THEOREM EnqueuedIsAuthorized == Spec => []JobsAreAuthorized
<1>1. IInv => JobsAreAuthorized
  BY DEF IInv, RequestsAuthenticated
<1> QED
  BY <1>1, Invariant, PTL
=============================================================================

------------------------------ MODULE Sessions ------------------------------
(***************************************************************************)
(* The relayer's API: the sign-in challenge, the session token, and the    *)
(* direct requests made with it.                                           *)
(*                                                                         *)
(* Challenges are rows of the database, one for an address; tokens are     *)
(* signed and kept nowhere.  createSession reads the clock and consumes    *)
(* the challenge before it waits for the signature's verification; a       *)
(* direct request is authenticated before it waits for the machine's       *)
(* readiness.  A client may send its verification again when no answer     *)
(* comes (scripts/seed-lender.mjs), and the relayer may restart.           *)
(***************************************************************************)
EXTENDS Integers, FiniteSets

CONSTANTS
  Accounts,
  Clients,        \* tabs and scripts
  Owner,          \* the account each of them signs in for
  Commands,       \* direct commands
  Allowed,        \* the commands of each route
  ChallengeLife,  \* 300 seconds, in ticks
  SessionLife,    \* 1800 seconds, in ticks
  MaxTries,       \* attempts of one verification
  MaxTime,        \* bound on the clock
  MaxChallenges,  \* bound on challenges
  MaxRequests,    \* bound on the requests under way and the jobs
  MaxRestarts     \* bound on restarts of the relayer

Routes == DOMAIN Allowed

ASSUME ConstantsAssumption ==
  /\ \A c \in Clients : Owner[c] \in Accounts
  /\ \A r \in Routes : Allowed[r] \subseteq Commands
  /\ {ChallengeLife, SessionLife, MaxTries} \subseteq Nat \ {0}
  /\ {MaxTime, MaxChallenges, MaxRequests, MaxRestarts} \subseteq Nat

VARIABLES
  now,
  challenges,  \* the rows of the table: at most one for an address
  issued,      \* how many challenges were issued
  client,      \* where each client is in its sign-in
  wire,        \* verifications that were sent and have not arrived
  verifying,   \* verifications between the challenge and the signature
  sessions,    \* the tokens that were signed
  pending,     \* direct requests between authentication and readiness
  jobs,        \* what was enqueued
  restarts

vars == <<now, challenges, issued, client, wire, verifying, sessions, pending,
          jobs, restarts>>

-----------------------------------------------------------------------------
Challenge(a, n) == [acct |-> a, nonce |-> n, until |-> now + ChallengeLife]

\* putChallenge: the row of an address is overwritten.
PutChallenge(ch) == {c \in challenges : c.acct # ch.acct} \cup {ch}

\* consumeChallenge looks at the row of the address.
Consumable(v) == \E c \in challenges :
                   /\ c.acct = v.acct /\ c.nonce = v.nonce /\ c.until >= now

\* createSession's test of the timestamps it is given: that of the expiry.  They are the
\* challenge's here; the client sends them, and createSession also refuses an issue in
\* the future and a life other than five minutes.
InTime(v) == v.until > now

\* Faulty: the row is left for the sweep of expired ones.
FaultyConsumed(v) == challenges

Consumed(v) == {c \in challenges : c.acct # v.acct}

\* sign: the life of a token starts when createSession read the clock.
Token(v) == [acct |-> v.acct, nonce |-> v.nonce, try |-> v.try, signer |-> v.signer,
             until |-> v.until, exp |-> v.at + SessionLife]

\* The body's account is the session's, and the route has the command.
\* Faulty: the account of the body is taken as it is.
FaultyAccepted(q) == q.command \in Allowed[q.route]

Accepted(q) ==
  /\ q.account = q.token.acct
  /\ q.command \in Allowed[q.route]

Out == [pc |-> "out"]

-----------------------------------------------------------------------------
Init ==
  /\ now = 0 /\ issued = 0 /\ restarts = 0
  /\ challenges = {} /\ wire = {} /\ verifying = {}
  /\ sessions = {} /\ pending = {} /\ jobs = {}
  /\ client = [c \in Clients |-> Out]

\* POST /auth/challenge
GetChallenge(c) ==
  /\ client[c].pc = "out" /\ issued < MaxChallenges
  /\ issued' = issued + 1
  /\ LET ch == Challenge(Owner[c], issued + 1)
     IN /\ challenges' = PutChallenge(ch)
        /\ client' = [client EXCEPT ![c] = [pc |-> "challenged", ch |-> ch]]
  /\ UNCHANGED <<now, wire, verifying, sessions, pending, jobs, restarts>>

\* The wallet signs with the account it has selected.
Sign(c, a) ==
  /\ client[c].pc = "challenged"
  /\ client' = [client EXCEPT ![c] = [pc |-> "signed", ch |-> client[c].ch,
                                      signer |-> a, try |-> 0]]
  /\ UNCHANGED <<now, challenges, issued, wire, verifying, sessions, pending, jobs, restarts>>

\* What client c sends: its challenge, signed, for the first time or again.
Attempt(c) == [client |-> c, acct |-> client[c].ch.acct, nonce |-> client[c].ch.nonce,
               until |-> client[c].ch.until, signer |-> client[c].signer,
               try |-> client[c].try + 1]

\* POST /auth/verify
Send(c) ==
  /\ client[c].pc = "signed"
  /\ client' = [client EXCEPT ![c].pc = "waiting", ![c].try = @ + 1]
  /\ wire' = wire \cup {Attempt(c)}
  /\ UNCHANGED <<now, challenges, issued, verifying, sessions, pending, jobs, restarts>>

\* An attempt fails, at the server or on the way: the client tries again or gives up.
Waits(v) == client[v.client].pc = "waiting" /\ client[v.client].try = v.try
Retried(v) ==
  IF ~Waits(v) THEN client
  ELSE IF v.try < MaxTries THEN [client EXCEPT ![v.client].pc = "signed"]
  ELSE [client EXCEPT ![v.client] = Out]

\* The call is lost, or the client stops waiting for its answer.
GiveUp(c) ==
  /\ client[c].pc = "waiting"
  /\ client' = IF client[c].try < MaxTries
               THEN [client EXCEPT ![c].pc = "signed"] ELSE [client EXCEPT ![c] = Out]
  /\ UNCHANGED <<now, challenges, issued, wire, verifying, sessions, pending, jobs, restarts>>

\* What createSession keeps of v across its await: v, and its one reading of the clock.
Read(v) == [client |-> v.client, acct |-> v.acct, nonce |-> v.nonce, until |-> v.until,
            signer |-> v.signer, try |-> v.try, at |-> now]

\* createSession up to its await.
Receive(v) ==
  /\ v \in wire
  /\ wire' = wire \ {v}
  /\ IF InTime(v) /\ Consumable(v)
     THEN /\ challenges' = Consumed(v)
          /\ verifying' = verifying \cup {Read(v)}
          /\ UNCHANGED client
     ELSE /\ client' = Retried(v)
          /\ UNCHANGED <<challenges, verifying>>
  /\ UNCHANGED <<now, issued, sessions, pending, jobs, restarts>>

\* createSession after its await.
Verify(v) ==
  /\ v \in verifying
  /\ verifying' = verifying \ {v}
  /\ IF v.signer = v.acct
     THEN /\ sessions' = sessions \cup {Token(v)}
          /\ client' = IF Waits(v)
                       THEN [client EXCEPT ![v.client] = [pc |-> "in", token |-> Token(v)]]
                       ELSE client
     ELSE client' = Retried(v) /\ UNCHANGED sessions
  /\ UNCHANGED <<now, challenges, issued, wire, pending, jobs, restarts>>

\* authenticated, and the body of a direct request, which names any account.
Request(c, route, command, a) ==
  /\ client[c].pc = "in"
  /\ client[c].token.exp >= now
  /\ Cardinality(pending \cup jobs) < MaxRequests
  /\ pending' = pending \cup {[token |-> client[c].token, route |-> route,
                               command |-> command, account |-> a, at |-> now]}
  /\ UNCHANGED <<now, challenges, issued, client, wire, verifying, sessions, jobs, restarts>>

\* A token that has expired is refused: the client signs in again.
Refused(c) ==
  /\ client[c].pc = "in" /\ client[c].token.exp < now
  /\ client' = [client EXCEPT ![c] = Out]
  /\ UNCHANGED <<now, challenges, issued, wire, verifying, sessions, pending, jobs, restarts>>

\* assertFccReady has answered, whatever it answered: the handler goes on or not.
Enqueue(q) ==
  /\ q \in pending
  /\ pending' = pending \ {q}
  /\ jobs' = IF Accepted(q) THEN jobs \cup {q} ELSE jobs
  /\ UNCHANGED <<now, challenges, issued, client, wire, verifying, sessions, restarts>>

NotReady(q) ==
  /\ q \in pending
  /\ pending' = pending \ {q}
  /\ UNCHANGED <<now, challenges, issued, client, wire, verifying, sessions, jobs, restarts>>

\* Calls in progress are lost; the rows and the secret stay.
Restart ==
  /\ restarts < MaxRestarts
  /\ restarts' = restarts + 1
  /\ wire' = {} /\ verifying' = {} /\ pending' = {}
  /\ UNCHANGED <<now, challenges, issued, client, sessions, jobs>>

Tick ==
  /\ now < MaxTime
  /\ now' = now + 1
  /\ UNCHANGED <<challenges, issued, client, wire, verifying, sessions, pending, jobs, restarts>>

Next ==
  \/ \E c \in Clients :
       \/ GetChallenge(c) \/ Send(c) \/ GiveUp(c) \/ Refused(c)
       \/ \E a \in Accounts : Sign(c, a)
       \/ \E r \in Routes, d \in Commands, a \in Accounts : Request(c, r, d, a)
  \/ \E v \in wire : Receive(v)
  \/ \E v \in verifying : Verify(v)
  \/ \E q \in pending : Enqueue(q) \/ NotReady(q)
  \/ Restart \/ Tick

Spec == Init /\ [][Next]_vars

-----------------------------------------------------------------------------
TokenType == [acct : Accounts, nonce : 1..MaxChallenges, try : 1..MaxTries,
              signer : Accounts, until : Nat, exp : Nat]

\* The variables have their types; an address has one challenge at most.
TypeOK ==
  /\ now \in 0..MaxTime
  /\ \A c \in Clients : client[c].pc \in {"out", "challenged", "signed", "waiting", "in"}
  /\ \A c1, c2 \in challenges : c1.acct = c2.acct => c1 = c2
  /\ sessions \subseteq TokenType

\* A challenge opens one session at most: a verification that is sent twice, or
\* whose answer was lost, finds the challenge consumed, even while the signature of
\* the first is being verified (createSession, consumeChallenge).
OneSessionPerChallenge ==
  \A s1, s2 \in sessions : s1.nonce = s2.nonce => s1 = s2

\* A session is of the account that signed, and it ends at most one session's life
\* after the end of its challenge's, however long the call took (sign).
SessionBounded ==
  \A s \in sessions : s.signer = s.acct /\ s.exp < s.until + SessionLife

\* What a sign-in leaves behind, whoever interferes with it: typed tables, one session
\* for a challenge, and none for another account or a longer time (createSession).
SignInInvariant == TypeOK /\ OneSessionPerChallenge /\ SessionBounded

\* A job is enqueued for the account of a session that was valid when the request
\* arrived, with a command of its route, whatever happened between (authenticated).
JobsAreAuthorized ==
  \A q \in jobs : /\ q.token \in sessions
                  /\ q.account = q.token.acct
                  /\ q.at <= q.token.exp
                  /\ q.command \in Allowed[q.route]

=============================================================================

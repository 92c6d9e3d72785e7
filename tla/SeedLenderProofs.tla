--------------------------- MODULE SeedLenderProofs ---------------------------
(***************************************************************************)
(* Theorems of SeedLender, for any operators, balances and deposit sizes.  *)
(*                                                                         *)
(* The argument: a command that was sent by a run of the script is         *)
(* committed at its nonce or never.  A lender's mandate that may still be  *)
(* set (it is in flight with the account's nonce) means that the account   *)
(* has no active mandate and has the funds, because both change only with  *)
(* the nonce.  So a run that has seen a mandate, or has seen no funds,     *)
(* knows that none is on its way (NoLive), and what it cancels stays       *)
(* cancelled until it sets one itself.  Loans are the same, with the       *)
(* borrower's command in place of the mandate.                             *)
(***************************************************************************)
EXTENDS SeedLender, FiniteSetTheorems, TLAPS

-----------------------------------------------------------------------------
(***************************************************************************)
(* Types and the inductive invariant                                       *)
(***************************************************************************)
Tranches == {T \in SUBSET [mandate : Nat, principal : Nat] : IsFiniteSet(T)}
QuoteType == [amount : Nat, requested : Nat \ {0}, tranches : Tranches, fxrp : Nat,
              collateral : Nat]
LoanType == [id : Nat, principal : Nat, collateral : Nat, tranches : Tranches]
AccountType == [open : BOOLEAN, nonce : Nat, usdt0 : Nat, fxrp : Nat, loan : LoanType \cup {None}]
MandateType == [owner : Accounts, left : Nat, active : BOOLEAN]
Money == [usdt0 : Nat, fxrp : Nat]
BeforeType == [wallet : Nat] \cup [wallet : Nat, fxrp : Nat, amount : Nat] \cup {None}
RunType == [flags : SUBSET Options, who : Accounts, view : Views \cup {None}, todo : SUBSET Nat,
            next : Places, own : Nat, before : BeforeType, quote : QuoteType \cup {None}]
Kinds == {"OPEN", "DEPOSIT", "SET", "CANCEL", "BORROW", "REPAY", "WITHDRAW"}

Typed ==
  /\ operator \in Operator /\ faults \in Nat /\ serial \in Nat
  /\ acct \in [Accounts -> AccountType]
  /\ DOMAIN mandates \subseteq 1..serial /\ mandates \in [DOMAIN mandates -> MandateType]
  /\ wallet \in [Accounts -> Money]
  /\ run \in RunType /\ run.own <= serial
  /\ pc \in Places /\ answer \in {"none", "confirmed", "failed"}

\* A command names what its kind is about.
WellFormed(o) ==
  /\ o.kind \in Kinds
  /\ o.kind = "DEPOSIT" => o.arg.asset \in {"usdt0", "fxrp"} /\ o.arg.amount \in Nat
  /\ o.kind = "SET" => o.by = "lender" /\ o.arg \in Nat \ {0}
  /\ o.kind \in {"REPAY", "WITHDRAW"} => o.arg \in Nat
  /\ o.kind = "BORROW" => o.by = "borrower" /\ o.arg \in QuoteType

\* A command is signed with a nonce the account had.
Sensible(o) ==
  /\ o.id \in 1..serial /\ o.by \in Accounts /\ WellFormed(o)
  /\ o.nonce \in Nat /\ o.nonce <= acct[o.by].nonce

\* Each command is in one place, and the script's own while it waits.
Commands ==
  /\ \A o \in inflight : Sensible(o) /\ (unsettled # None => o.id # unsettled.id)
  /\ \A o, p \in inflight : o.id = p.id => o = p
  /\ unsettled # None => /\ Sensible(unsettled)
                         /\ unsettled.id = run.own => pc = "wait" /\ answer = "none"
  /\ \A o \in inflight : o.id = run.own => /\ pc = "wait" /\ answer = "none"
                                           /\ run.next = "cancel" => /\ o.kind = "CANCEL"
                                                                     /\ o.by = "lender"

\* What the script does next, or once it has an answer and the account.
Between == {"account", "view", "wait"}
Stage == IF pc \in Between THEN run.next ELSE pc
LenderPlaces == {"lender", "cancel", "fund", "lend", "set", "lent"}
BorrowerPlaces == {"borrower", "loan", "clear", "repay", "closed", "withdrawn", "quote", "accept",
                   "borrowed"}

Roles ==
  /\ pc \in Between => run.next \in (LenderPlaces \cup BorrowerPlaces) \ {"fund", "accept"}
  /\ Stage \in LenderPlaces => run.who = "lender"
  /\ Stage \in BorrowerPlaces => run.who = "borrower"
  /\ pc \notin Between \cup {"idle", "done"} => run.view \in Views
  /\ Stage \notin {"idle", "done", "lender", "borrower"} => run.view \in Views
  /\ pc = "account" => run.view = None

Unopened == \A a \in Accounts : ~acct[a].open => acct[a].nonce = 0

\* What a view says is true until the nonce moves; only deposits and repayments do
\* not move it.
ViewTrue ==
  run.view # None =>
    /\ run.view.nonce <= acct[run.who].nonce
    /\ run.view.nonce = acct[run.who].nonce =>
         /\ run.who = "lender" => run.view.active = ActiveOf("lender")
         /\ run.view.usdt0 <= acct[run.who].usdt0
         /\ run.view.loan = (acct[run.who].loan # None)

\* What may still be set, or borrowed, is the first mandate, or the only loan.
LiveSets ==
  \A o \in inflight : o.kind = "SET" /\ o.nonce = acct.lender.nonce
    => ActiveOf("lender") = {} /\ o.arg <= acct.lender.usdt0
LiveBorrows ==
  \A o \in inflight : o.kind = "BORROW" /\ o.nonce = acct.borrower.nonce
    => acct.borrower.loan = None
OneActive == \A m, n \in ActiveOf("lender") : m = n

\* No command of this kind can be committed any more.
NoLive(kind) == \A o \in inflight : o.kind = kind => o.nonce < run.view.nonce

Waiting == pc = "view" \/ (pc = "wait" /\ answer # "failed")
OwnArgs == {o.arg : o \in {p \in inflight : p.id = run.own}}

\* The lender's side: what the run has seen or cancelled is all there is.
LendersSide ==
  /\ pc \in {"lender", "cancel", "fund"} /\ (run.view.active # {} \/ run.view.usdt0 = 0)
     => NoLive("SET") /\ ActiveOf("lender") \subseteq run.view.active
  /\ pc = "cancel" => /\ run.view.active \subseteq run.todo
                      /\ run.todo # {} => NoLive("SET") /\ ActiveOf("lender") \subseteq run.todo
  /\ pc \in {"fund", "lend"} => run.view.active = {}
  /\ Waiting /\ run.next = "cancel"
     => NoLive("SET") /\ ActiveOf("lender") \subseteq run.todo \cup OwnArgs
  /\ Waiting /\ run.next = "lend" => NoLive("SET") /\ ActiveOf("lender") = {}

\* The borrower's side: once a loan was seen, no other will be opened.
BorrowersSide ==
  /\ pc \in {"borrower", "loan"} /\ run.view.loan => NoLive("BORROW")
  /\ Stage \in {"clear", "repay", "closed", "withdrawn"} => NoLive("BORROW")
  /\ pc = "closed" /\ ~run.view.loan => acct.borrower.loan = None
  /\ Stage = "withdrawn" => acct.borrower.loan = None
  /\ pc = "accept" => ~run.view.loan /\ run.quote \in QuoteType

\* Without an interruption, the script's command is the only one that moves a nonce.
Uninterrupted ==
  faults = 0 =>
    /\ \A o \in inflight : o.id = run.own \/ o.kind = "DEPOSIT"
    /\ \A o \in inflight : o.id = run.own => o.nonce = acct[o.by].nonce
    /\ pc \notin Between \cup {"idle", "done"} => run.view.nonce = acct[run.who].nonce

IInv ==
  /\ Typed /\ Commands /\ Roles /\ Unopened
  /\ ViewTrue /\ LiveSets /\ LiveBorrows /\ OneActive
  /\ LendersSide /\ BorrowersSide /\ Uninterrupted

-----------------------------------------------------------------------------
(***************************************************************************)
(* Sums and quotes                                                         *)
(***************************************************************************)
LEMMA TotalType ==
  ASSUME NEW f, NEW S, IsFiniteSet(S), \A i \in S : f[i] \in Nat
  PROVE  Total(f, S) \in Nat
<1> DEFINE cells == {{i} \X (1..f[i]) : i \in S}
           cell == [i \in S |-> {i} \X (1..f[i])]
<1>1. \A i \in S : IsFiniteSet({i} \X (1..f[i]))
  <2> SUFFICES ASSUME NEW i \in S PROVE IsFiniteSet({i} \X (1..f[i]))
    OBVIOUS
  <2>1. IsFiniteSet({i})
    BY FS_Singleton
  <2>2. IsFiniteSet(1..f[i])
    BY FS_Interval
  <2> QED
    BY <2>1, <2>2, FS_Product
<1>2. cell \in Surjection(S, cells)
  BY DEF Surjection
<1>3. IsFiniteSet(cells)
  BY <1>2, FS_Surjection
<1>4. IsFiniteSet(UNION cells)
  BY <1>1, <1>3, FS_UNION
<1> QED
  BY <1>4, FS_CardinalityType DEF Total

LEMMA TotalOne ==
  ASSUME NEW f, NEW x, f[x] \in Nat
  PROVE  Total(f, {x}) = f[x]
<1>1. UNION {{i} \X (1..f[i]) : i \in {x}} = {x} \X (1..f[x])
  OBVIOUS
<1>2. Cardinality({x} \X (1..f[x])) = 1 * f[x]
  <2>1. Cardinality(1..f[x]) = f[x] /\ IsFiniteSet(1..f[x])
    BY FS_Interval
  <2>2. Cardinality({x}) = 1 /\ IsFiniteSet({x})
    BY FS_Singleton
  <2>3. Cardinality({x} \X (1..f[x])) = Cardinality({x}) * Cardinality(1..f[x])
    BY <2>1, <2>2, FS_Product
  <2> QED
    BY <2>1, <2>2, <2>3
<1> QED
  BY <1>1, <1>2 DEF Total

LEMMA TotalEmpty == \A f : Total(f, {}) = 0
BY FS_EmptySet DEF Total

LEMMA Smaller == \A a, b \in Int : Min({a, b}) = (IF a <= b THEN a ELSE b)
BY DEF Min

LEMMA Larger == \A a, b \in Int : Max({a, b}) = (IF a <= b THEN b ELSE a)
BY DEF Max

LEMMA FundedType ==
  ASSUME NEW T \in Tranches
  PROVE  Funded(T) \in Nat
<1> DEFINE f == [t \in T |-> t.principal]
<1>1. IsFiniteSet(T) /\ \A i \in T : f[i] \in Nat
  BY DEF Tranches
<1> HIDE DEF f
<1>2. Total(f, T) \in Nat
  BY <1>1, TotalType
<1> QED
  BY <1>2 DEF f, Funded

\* What a part of the tranches adds up to.
LEMMA PartOfTranches ==
  ASSUME NEW T \in Tranches, NEW U \in SUBSET T
  PROVE  U \in Tranches /\ Funded(U) \in Nat
<1>1. U \in Tranches
  BY FS_Subset DEF Tranches
<1> QED
  BY <1>1, FundedType

LEMMA MandatesFinite ==
  ASSUME Typed
  PROVE  /\ IsFiniteSet(Eligible) /\ Eligible \subseteq Nat
         /\ \A m \in Eligible : Left(m) \in Nat
<1>1. IsFiniteSet(1..serial)
  BY FS_Interval DEF Typed
<1>2. Eligible \subseteq 1..serial /\ 1..serial \subseteq Nat
  BY DEF Typed, Eligible
<1>3. \A m \in Eligible : Left(m) \in Nat
  BY DEF Typed, Eligible, Left, MandateType
<1> QED
  BY <1>1, <1>2, <1>3, FS_Subset

LEMMA TakeFits ==
  ASSUME Typed, NEW m \in Eligible, NEW amount \in Nat
  PROVE  Take(m, amount) \in Nat /\ Take(m, amount) <= Left(m)
<1> DEFINE f == [n \in Eligible |-> Left(n)]
           S == {n \in Eligible : n < m}
           before == Total(f, S)
<1>1. IsFiniteSet(S) /\ \A i \in S : f[i] \in Nat
  BY MandatesFinite, FS_Subset
<1>2. Left(m) \in Nat
  BY MandatesFinite
<1>3. before \in Nat
  <2> HIDE DEF f, S
  <2> QED
    BY <1>1, TotalType
<1>4. Take(m, amount) = Max({0, Min({Left(m), amount - before})})
  BY DEF Take
<1> HIDE DEF before
<1>5. Min({Left(m), amount - before}) = IF Left(m) <= amount - before THEN Left(m) ELSE amount - before
  BY <1>2, <1>3, Smaller
<1>6. Min({Left(m), amount - before}) \in Int /\ Min({Left(m), amount - before}) <= Left(m)
  BY <1>2, <1>3, <1>5
<1> QED
  BY <1>2, <1>4, <1>6, Larger

\* A quote's tranches are the mandates' parts, one of each at most.
QuoteTranches(amount) == {t \in [mandate : Eligible, principal : 1..amount] :
                            t.principal = Take(t.mandate, amount)}

LEMMA TranchesTyped ==
  ASSUME Typed, NEW amount \in Nat
  PROVE  QuoteTranches(amount) \in Tranches
<1> DEFINE D == [mandate : Eligible, principal : 1..amount]
           P == Eligible \X (1..amount)
           pair == [p \in P |-> [mandate |-> p[1], principal |-> p[2]]]
<1>1. IsFiniteSet(P)
  <2>1. IsFiniteSet(1..amount)
    BY FS_Interval
  <2> QED
    BY <2>1, MandatesFinite, FS_Product
<1>2. pair \in Surjection(P, D)
  <2>1. \A p \in P : pair[p] \in D
    OBVIOUS
  <2>2. \A d \in D : \E p \in P : pair[p] = d
    <3> SUFFICES ASSUME NEW d \in D PROVE \E p \in P : pair[p] = d
      OBVIOUS
    <3>1. <<d.mandate, d.principal>> \in P /\ pair[<<d.mandate, d.principal>>] = d
      OBVIOUS
    <3> QED
      BY <3>1
  <2> QED
    BY <2>1, <2>2 DEF Surjection
<1>3. IsFiniteSet(D)
  <2> HIDE DEF D, P, pair
  <2> QED
    BY <1>1, <1>2, FS_Surjection
<1>4. IsFiniteSet(QuoteTranches(amount))
  BY <1>3, FS_Subset DEF QuoteTranches
<1>5. QuoteTranches(amount) \subseteq [mandate : Nat, principal : Nat]
  BY MandatesFinite DEF QuoteTranches
<1> QED
  BY <1>4, <1>5 DEF Tranches

LEMMA PrincipalFits ==
  ASSUME Typed, NEW amount \in Nat, NEW m \in DOMAIN mandates
  PROVE  /\ Principal(QuoteTranches(amount), m) \in Nat
         /\ Principal(QuoteTranches(amount), m) <= mandates[m].left
<1> DEFINE T == {t \in QuoteTranches(amount) : t.mandate = m}
           f == [t \in T |-> t.principal]
<1>1. mandates[m].left \in Nat
  BY DEF Typed, MandateType
<1>2. Principal(QuoteTranches(amount), m) = Total(f, T)
  BY DEF Principal, Funded
<1>3. CASE T = {}
  <2>1. Total(f, T) = 0
    <3> HIDE DEF f
    <3> QED
      BY <1>3, TotalEmpty
  <2> QED
    BY <1>1, <1>2, <2>1
<1>4. CASE T # {}
  <2>1. PICK t : t \in T
    BY <1>4
  <2>2. t.mandate = m /\ m \in Eligible /\ t.principal = Take(m, amount)
    BY <2>1 DEF QuoteTranches
  <2>3. T = {t}
    <3> SUFFICES ASSUME NEW u \in T PROVE u = t
      BY <2>1
    <3>1. u.mandate = m /\ u.principal = Take(m, amount)
      BY DEF QuoteTranches
    <3>2. u \in [mandate : Eligible, principal : 1..amount] /\ t \in [mandate : Eligible, principal : 1..amount]
      BY <2>1 DEF QuoteTranches
    <3> QED
      BY <2>2, <3>1, <3>2
  <2>4. f[t] = Take(m, amount)
    BY <2>1, <2>2
  <2>5. Take(m, amount) \in Nat /\ Take(m, amount) <= Left(m)
    BY <2>2, TakeFits
  <2>6. Total(f, {t}) = Take(m, amount)
    <3> HIDE DEF f
    <3> QED
      BY <2>4, <2>5, TotalOne
  <2> HIDE DEF f, T
  <2> QED
    BY <1>2, <2>3, <2>5, <2>6 DEF Left
<1> QED
  BY <1>3, <1>4

LEMMA QuoteTyped ==
  ASSUME Typed, NEW amount \in Nat \ {0}, NEW collateral \in Nat
  PROVE  /\ QuoteOf(amount, collateral) \in QuoteType
         /\ QuoteOf(amount, collateral).tranches = QuoteTranches(amount)
<1>1. PICK T : T = QuoteTranches(amount)
  OBVIOUS
<1>2. T \in Tranches
  BY <1>1, TranchesTyped
<1>3. PICK n : n = Funded(T)
  OBVIOUS
<1>4. n \in Nat
  BY <1>2, <1>3, FundedType
<1>5. QuoteOf(amount, collateral) =
        [amount |-> n, requested |-> amount, tranches |-> T, fxrp |-> collateral,
         collateral |-> (collateral * n + amount - 1) \div amount]
  BY <1>1, <1>3 DEF QuoteOf, QuoteTranches
<1>6. (collateral * n + amount - 1) \div amount \in Nat
  <2>1. PICK c \in Nat : c = collateral * n
    BY <1>4
  <2>2. (c + amount - 1) \div amount \in Nat
    OBVIOUS
  <2> QED
    BY <2>1, <2>2
<1> QED
  BY <1>1, <1>2, <1>4, <1>5, <1>6 DEF QuoteType

-----------------------------------------------------------------------------
(***************************************************************************)
(* What committing a command does                                          *)
(***************************************************************************)
\* The command's own account: typed, and loans only begin by borrowing.
OwnAccount(o, x) ==
  /\ x \in AccountType
  /\ x.open /\ x.nonce = NextNonce(o)
  /\ o.kind = "DEPOSIT" => x.usdt0 >= acct[o.by].usdt0 /\ x.loan = acct[o.by].loan
  /\ x.loan # None => acct[o.by].loan # None \/ o.kind = "BORROW"

LEMMA AppliedIs ==
  ASSUME Typed, NEW o, Sensible(o), Possible(o)
  PROVE  OwnAccount(o, Applied(o))
<1> DEFINE old == acct[o.by]
<1>1. old \in AccountType /\ o.by \in Accounts /\ o.kind \in Kinds
  BY DEF Typed, Sensible, WellFormed
<1>2. NextNonce(o) \in Nat
  BY <1>1 DEF NextNonce, AccountType
<1>3. PICK n \in Nat : n = NextNonce(o)
  BY <1>2
<1>4. PICK b \in Nat, x \in Nat, l \in LoanType \cup {None} :
        /\ old.usdt0 = b /\ old.fxrp = x /\ old.loan = l
        /\ old = [open |-> old.open, nonce |-> old.nonce, usdt0 |-> b, fxrp |-> x, loan |-> l]
  BY <1>1 DEF AccountType
<1>5. PICK a : a = [old EXCEPT !.open = TRUE, !.nonce = n]
  OBVIOUS
<1>6. a = [open |-> TRUE, nonce |-> n, usdt0 |-> b, fxrp |-> x, loan |-> l]
  BY <1>4, <1>5
<1>7. CASE o.kind = "OPEN"
  <2>1. Applied(o) = a
    BY <1>3, <1>5, <1>7 DEF Applied
  <2> QED
    BY <1>3, <1>4, <1>6, <1>7, <2>1 DEF OwnAccount, AccountType
<1>8. CASE o.kind = "DEPOSIT"
  <2>1. Applied(o) = [a EXCEPT ![o.arg.asset] = @ + o.arg.amount]
    BY <1>3, <1>5, <1>8 DEF Applied
  <2>2. o.arg.asset \in {"usdt0", "fxrp"}
    BY <1>8 DEF Sensible, WellFormed
  <2>3. PICK k \in Nat : k = o.arg.amount
    BY <1>8 DEF Sensible, WellFormed
  <2>4. CASE o.arg.asset = "usdt0"
    <3>1. Applied(o) = [a EXCEPT !.usdt0 = @ + k]
      BY <2>1, <2>3, <2>4
    <3>2. Applied(o) = [open |-> TRUE, nonce |-> n, usdt0 |-> b + k, fxrp |-> x, loan |-> l]
      BY <1>6, <3>1
    <3> QED
      BY <1>3, <1>4, <1>8, <2>3, <3>2 DEF OwnAccount, AccountType
  <2>5. CASE o.arg.asset = "fxrp"
    <3>1. Applied(o) = [a EXCEPT !.fxrp = @ + k]
      BY <2>1, <2>3, <2>5
    <3>2. Applied(o) = [open |-> TRUE, nonce |-> n, usdt0 |-> b, fxrp |-> x + k, loan |-> l]
      BY <1>6, <3>1
    <3> QED
      BY <1>3, <1>4, <1>8, <2>3, <3>2 DEF OwnAccount, AccountType
  <2> QED
    BY <2>2, <2>4, <2>5
<1>9. CASE o.kind = "SET"
  <2>1. PICK k \in Nat : k = o.arg
    BY <1>9 DEF Sensible, WellFormed
  <2>2. k <= b
    BY <1>4, <1>9, <2>1 DEF Possible
  <2>3. Applied(o) = [a EXCEPT !.usdt0 = @ - k]
    BY <1>3, <1>5, <1>9, <2>1 DEF Applied
  <2>4. Applied(o) = [open |-> TRUE, nonce |-> n, usdt0 |-> b - k, fxrp |-> x, loan |-> l]
    BY <1>6, <2>3
  <2> QED
    BY <1>3, <1>4, <1>9, <2>2, <2>4 DEF OwnAccount, AccountType
<1>10. CASE o.kind = "CANCEL"
  <2>1. o.arg \in DOMAIN mandates
    BY <1>10 DEF Possible, ActiveOf
  <2>2. PICK k \in Nat : k = mandates[o.arg].left
    BY <2>1 DEF Typed, MandateType
  <2>3. Applied(o) = [a EXCEPT !.usdt0 = @ + k]
    BY <1>3, <1>5, <1>10, <2>2 DEF Applied
  <2>4. Applied(o) = [open |-> TRUE, nonce |-> n, usdt0 |-> b + k, fxrp |-> x, loan |-> l]
    BY <1>6, <2>3
  <2> QED
    BY <1>3, <1>4, <1>10, <2>2, <2>4 DEF OwnAccount, AccountType
<1>11. CASE o.kind = "WITHDRAW"
  <2>1. PICK k \in Nat : k = o.arg
    BY <1>11 DEF Sensible, WellFormed
  <2>2. k <= x
    BY <1>4, <1>11, <2>1 DEF Possible
  <2>3. Applied(o) = [a EXCEPT !.fxrp = @ - k]
    BY <1>3, <1>5, <1>11, <2>1 DEF Applied
  <2>4. Applied(o) = [open |-> TRUE, nonce |-> n, usdt0 |-> b, fxrp |-> x - k, loan |-> l]
    BY <1>6, <2>3
  <2> QED
    BY <1>3, <1>4, <1>11, <2>2, <2>4 DEF OwnAccount, AccountType
<1>12. CASE o.kind = "BORROW"
  <2>1. o.arg \in QuoteType
    BY <1>12 DEF Sensible, WellFormed
  <2>2. PICK k \in Nat : k = o.arg.collateral
    BY <2>1 DEF QuoteType
  <2>3. k <= x
    BY <1>4, <1>12, <2>2 DEF Possible
  <2>4. PICK d : d = [id |-> o.id, principal |-> o.arg.amount, collateral |-> k,
                      tranches |-> o.arg.tranches]
    OBVIOUS
  <2>5. d \in LoanType
    <3>1. o.id \in Nat
      BY <1>12 DEF Sensible, WellFormed
    <3>2. o.arg.amount \in Nat /\ o.arg.tranches \in Tranches
      BY <2>1 DEF QuoteType
    <3> QED
      BY <2>4, <3>1, <3>2 DEF LoanType
  <2>6. Applied(o) = [a EXCEPT !.fxrp = @ - k, !.loan = d]
    BY <1>3, <1>5, <1>12, <2>2, <2>4 DEF Applied
  <2>7. Applied(o) = [open |-> TRUE, nonce |-> n, usdt0 |-> b, fxrp |-> x - k, loan |-> d]
    BY <1>6, <2>6
  <2> QED
    BY <1>3, <1>4, <1>12, <2>3, <2>5, <2>7 DEF OwnAccount, AccountType
<1>13. CASE o.kind = "REPAY"
  <2>1. l # None /\ l.principal <= Min({o.arg, b})
    BY <1>4, <1>13 DEF Possible
  <2>2. l.principal \in Nat /\ l.collateral \in Nat
    BY <1>4, <2>1 DEF LoanType
  <2>3. l.principal <= b
    <3>1. o.arg \in Nat
      BY <1>13 DEF Sensible, WellFormed
    <3> QED
      BY <1>4, <2>1, <2>2, <3>1, Smaller
  <2>4. PICK k \in Nat, c \in Nat : k = l.principal /\ c = l.collateral
    BY <2>2
  <2>5. a.loan.principal = k /\ a.loan.collateral = c
    BY <1>6, <2>4
  <2>6. Applied(o) = [a EXCEPT !.usdt0 = @ - k, !.fxrp = @ + c, !.loan = None]
    BY <1>3, <1>5, <1>13, <2>5 DEF Applied
  <2>7. Applied(o) = [open |-> TRUE, nonce |-> n, usdt0 |-> b - k, fxrp |-> x + c, loan |-> None]
    BY <1>6, <2>6
  <2> QED
    BY <1>3, <1>4, <1>13, <2>3, <2>4, <2>7 DEF OwnAccount, AccountType
<1> QED
  BY <1>1, <1>7, <1>8, <1>9, <1>10, <1>11, <1>12, <1>13 DEF Kinds

\* The accounts: a repayment gives the lenders what it cannot give to their mandates.
AccountsMoved(o) ==
  /\ acct' \in [Accounts -> AccountType]
  /\ acct'[o.by].open /\ acct'[o.by].nonce = NextNonce(o)
  /\ \A a \in Accounts \ {o.by} : /\ acct'[a].nonce = acct[a].nonce
                                  /\ acct'[a].open = acct[a].open
  /\ \A a \in Accounts : a # o.by \/ o.kind = "DEPOSIT" =>
       acct'[a].loan = acct[a].loan /\ acct'[a].usdt0 >= acct[a].usdt0
  /\ \A a \in Accounts :
       acct'[a].loan # None => acct[a].loan # None \/ (a = o.by /\ o.kind = "BORROW")

LEMMA AccountsStep ==
  ASSUME Typed, NEW o, Sensible(o), Possible(o), acct' = AccountsAfter(o)
  PROVE  AccountsMoved(o)
<1>1. o.by \in Accounts /\ acct \in [Accounts -> AccountType]
  BY DEF Typed, Sensible, WellFormed
<1>2. PICK x : x = Applied(o)
  OBVIOUS
<1>3. OwnAccount(o, x)
  BY <1>2, AppliedIs
<1>4. PICK own : own = [acct EXCEPT ![o.by] = x]
  OBVIOUS
<1>5. /\ own \in [Accounts -> AccountType] /\ own[o.by] = x
      /\ \A a \in Accounts \ {o.by} : own[a] = acct[a]
  BY <1>1, <1>3, <1>4 DEF OwnAccount
<1>6. CASE o.kind # "REPAY"
  <2>1. acct' = own
    BY <1>2, <1>4, <1>6 DEF AccountsAfter
  <2>2. \A a \in Accounts : acct[a].usdt0 \in Nat
    BY <1>1 DEF AccountType
  <2> QED
    BY <1>1, <1>3, <1>5, <2>1, <2>2 DEF OwnAccount, AccountsMoved
<1>7. CASE o.kind = "REPAY"
  <2>1. acct[o.by].loan \in LoanType
    BY <1>1, <1>7 DEF Possible, AccountType
  <2>2. PICK T \in Tranches : T = acct[o.by].loan.tranches
    BY <2>1 DEF LoanType
  <2>3. \A a \in Accounts : Returned(T, a) \in Nat
    BY PartOfTranches DEF Returned
  <2>4. acct' = [a \in Accounts |-> [own[a] EXCEPT !.usdt0 = @ + Returned(T, a)]]
    BY <1>2, <1>4, <1>7, <2>2 DEF AccountsAfter
  <2>5. ASSUME NEW a \in Accounts
        PROVE  /\ acct'[a] \in AccountType
               /\ acct'[a].nonce = own[a].nonce /\ acct'[a].open = own[a].open
               /\ acct'[a].loan = own[a].loan /\ acct'[a].usdt0 >= own[a].usdt0
    <3>1. PICK y \in AccountType : y = own[a]
      BY <1>5
    <3>2. PICK r \in Nat : r = Returned(T, a)
      BY <2>3
    <3>3. acct'[a] = [y EXCEPT !.usdt0 = @ + r]
      BY <2>4, <3>1, <3>2
    <3> QED
      BY <3>1, <3>2, <3>3 DEF AccountType
  <2>6. acct' \in [Accounts -> AccountType]
    BY <2>4, <2>5
  <2>7. \A a \in Accounts : own[a].usdt0 \in Nat /\ acct'[a].usdt0 \in Nat
    BY <1>5, <2>6 DEF AccountType
  <2> QED
    BY <1>1, <1>3, <1>5, <1>7, <2>5, <2>6, <2>7 DEF OwnAccount, AccountsMoved
<1> QED
  BY <1>6, <1>7

\* The lender's active mandates: one begins when it is set, and ends when it is cancelled.
MandatesMoved(o) ==
  /\ DOMAIN mandates' \subseteq 1..serial /\ mandates' \in [DOMAIN mandates' -> MandateType]
  /\ ActiveOf("lender")' \subseteq ActiveOf("lender") \cup (IF o.kind = "SET" THEN {o.id} ELSE {})
  /\ o.kind = "CANCEL" => o.arg \notin ActiveOf("lender")'
  /\ o.by = "borrower" \/ o.kind = "DEPOSIT" => ActiveOf("lender")' = ActiveOf("lender")

LEMMA MandatesStep ==
  ASSUME Typed, NEW o, Sensible(o), Possible(o), mandates' = MandatesAfter(o)
  PROVE  MandatesMoved(o)
<1> DEFINE D == DOMAIN mandates
<1>1. o.by \in Accounts /\ o.kind \in Kinds /\ o.id \in 1..serial
  BY DEF Sensible, WellFormed
<1>2. D \subseteq 1..serial /\ mandates \in [D -> MandateType]
  BY DEF Typed
<1>3. CASE o.kind = "SET"
  <2>1. o.by = "lender" /\ o.arg \in Nat
    BY <1>3 DEF Sensible, WellFormed
  <2>2. PICK d : d = [owner |-> o.by, left |-> o.arg, active |-> TRUE]
    OBVIOUS
  <2>3. d \in MandateType /\ d.owner = "lender"
    BY <2>1, <2>2 DEF MandateType, Accounts
  <2>4. mandates' = [m \in D \cup {o.id} |-> IF m = o.id THEN d ELSE mandates[m]]
    BY <1>3, <2>2 DEF MandatesAfter
  <2>5. DOMAIN mandates' = D \cup {o.id} /\ mandates' \in [D \cup {o.id} -> MandateType]
    BY <1>2, <2>3, <2>4
  <2>6. ActiveOf("lender")' \subseteq ActiveOf("lender") \cup {o.id}
    BY <2>4, <2>5 DEF ActiveOf
  <2> QED
    BY <1>1, <1>2, <1>3, <2>1, <2>5, <2>6 DEF MandatesMoved
<1>4. CASE o.kind = "CANCEL"
  <2>1. o.arg \in D /\ mandates[o.arg].owner = o.by
    BY <1>4 DEF Possible, ActiveOf
  <2>2. PICK d \in MandateType : d = mandates[o.arg]
    BY <1>2, <2>1
  <2>3. PICK e : e = [d EXCEPT !.left = 0, !.active = FALSE]
    OBVIOUS
  <2>4. e = [owner |-> o.by, left |-> 0, active |-> FALSE]
    BY <2>1, <2>2, <2>3 DEF MandateType
  <2>5. e \in MandateType
    BY <1>1, <2>4 DEF MandateType
  <2>6. mandates' = [mandates EXCEPT ![o.arg] = e]
    BY <1>4, <2>1, <2>2, <2>3 DEF MandatesAfter
  <2>7. /\ DOMAIN mandates' = D /\ mandates' \in [D -> MandateType]
        /\ mandates'[o.arg] = e /\ \A m \in D \ {o.arg} : mandates'[m] = mandates[m]
    BY <1>2, <2>1, <2>5, <2>6
  <2>8. ActiveOf("lender")' = ActiveOf("lender") \ {o.arg}
    BY <2>4, <2>7 DEF ActiveOf
  <2>9. o.by = "borrower" => o.arg \notin ActiveOf("lender")
    BY <2>1 DEF ActiveOf
  <2> QED
    BY <1>2, <1>4, <2>7, <2>8, <2>9 DEF MandatesMoved
<1>5. ASSUME DOMAIN mandates' = D, mandates' \in [D -> MandateType],
             \A m \in D : /\ mandates'[m].owner = mandates[m].owner
                          /\ mandates'[m].active = mandates[m].active,
             o.kind \notin {"SET", "CANCEL"}
      PROVE  MandatesMoved(o)
  <2>1. ActiveOf("lender")' = ActiveOf("lender")
    BY <1>5 DEF ActiveOf
  <2> QED
    BY <1>2, <1>5, <2>1 DEF MandatesMoved
<1>6. CASE o.kind = "BORROW"
  <2>1. o.arg \in QuoteType /\ o.arg = QuoteOf(o.arg.requested, o.arg.fxrp)
    BY <1>6 DEF Sensible, WellFormed, Possible
  <2>2. PICK n \in Nat \ {0}, c \in Nat : n = o.arg.requested /\ c = o.arg.fxrp
    BY <2>1 DEF QuoteType
  <2>3. o.arg.tranches = QuoteTranches(n)
    <3>1. QuoteOf(n, c).tranches = QuoteTranches(n)
      BY QuoteTyped
    <3> QED
      BY <2>1, <2>2, <3>1
  <2>4. mandates' = [m \in D |-> [mandates[m] EXCEPT !.left = @ - Principal(QuoteTranches(n), m)]]
    BY <1>6, <2>3 DEF MandatesAfter
  <2>5. ASSUME NEW m \in D
        PROVE  /\ mandates'[m] \in MandateType
               /\ mandates'[m].owner = mandates[m].owner
               /\ mandates'[m].active = mandates[m].active
    <3>1. PICK k \in Nat : k = Principal(QuoteTranches(n), m) /\ k <= mandates[m].left
      BY PrincipalFits
    <3>2. PICK d \in MandateType : d = mandates[m]
      BY <1>2
    <3>3. mandates'[m] = [d EXCEPT !.left = @ - k]
      BY <2>4, <3>1, <3>2
    <3> QED
      BY <3>1, <3>2, <3>3 DEF MandateType
  <2>6. DOMAIN mandates' = D /\ mandates' \in [D -> MandateType]
    BY <2>4, <2>5
  <2> QED
    BY <1>5, <1>6, <2>5, <2>6
<1>7. CASE o.kind = "REPAY"
  <2>1. acct[o.by].loan \in LoanType
    BY <1>1, <1>7 DEF Possible, Typed, AccountType
  <2>2. PICK T \in Tranches : T = acct[o.by].loan.tranches
    BY <2>1 DEF LoanType
  <2>3. mandates' = [m \in D |-> IF mandates[m].active
                                 THEN [mandates[m] EXCEPT !.left = @ + Principal(T, m)]
                                 ELSE mandates[m]]
    BY <1>7, <2>2 DEF MandatesAfter
  <2>4. ASSUME NEW m \in D
        PROVE  /\ mandates'[m] \in MandateType
               /\ mandates'[m].owner = mandates[m].owner
               /\ mandates'[m].active = mandates[m].active
    <3>1. PICK k \in Nat : k = Principal(T, m)
      BY PartOfTranches DEF Principal
    <3>2. PICK d \in MandateType : d = mandates[m]
      BY <1>2
    <3>3. mandates'[m] = d \/ mandates'[m] = [d EXCEPT !.left = @ + k]
      BY <2>3, <3>1, <3>2
    <3> QED
      BY <3>1, <3>2, <3>3 DEF MandateType
  <2>5. DOMAIN mandates' = D /\ mandates' \in [D -> MandateType]
    BY <2>3, <2>4
  <2> QED
    BY <1>5, <1>7, <2>4, <2>5
<1>8. CASE o.kind \in {"OPEN", "DEPOSIT", "WITHDRAW"}
  <2>1. mandates' = mandates
    BY <1>8 DEF MandatesAfter
  <2> QED
    BY <1>2, <1>5, <1>8, <2>1
<1> QED
  BY <1>1, <1>3, <1>4, <1>6, <1>7, <1>8 DEF Kinds

-----------------------------------------------------------------------------
(***************************************************************************)
(* Steps of the service                                                    *)
(***************************************************************************)
LEMMA SensibleStays ==
  ASSUME Typed, NEW o, Sensible(o), serial' \in Nat, serial' >= serial,
         \A a \in Accounts : acct'[a].nonce \in Nat /\ acct'[a].nonce >= acct[a].nonce
  PROVE  Sensible(o)'
<1>1. acct[o.by].nonce \in Nat /\ serial \in Nat
  BY DEF Typed, Sensible, WellFormed, AccountType
<1> QED
  BY <1>1 DEF Sensible, WellFormed

\* A nonce moves by one, with the account's own commands.
LEMMA NoncesMove ==
  ASSUME Typed, NEW o, Sensible(o), AccountsMoved(o)
  PROVE  /\ \A a \in Accounts : /\ acct[a].nonce \in Nat /\ acct'[a].nonce \in Nat
                                /\ acct'[a].nonce >= acct[a].nonce
                                /\ acct[a].usdt0 \in Nat /\ acct'[a].usdt0 \in Nat
         /\ \A a \in Accounts : a # o.by \/ o.kind = "DEPOSIT" => acct'[a].nonce = acct[a].nonce
         /\ o.kind # "DEPOSIT" => acct'[o.by].nonce > acct[o.by].nonce
<1>1. o.by \in Accounts
  BY DEF Sensible, WellFormed
<1>2. \A a \in Accounts : /\ acct[a].nonce \in Nat /\ acct'[a].nonce \in Nat
                          /\ acct[a].usdt0 \in Nat /\ acct'[a].usdt0 \in Nat
  BY DEF Typed, AccountsMoved, AccountType
<1>3. acct'[o.by].nonce = IF o.kind = "DEPOSIT" THEN acct[o.by].nonce ELSE acct[o.by].nonce + 1
  BY <1>1, <1>2 DEF AccountsMoved, NextNonce
<1> QED
  BY <1>1, <1>2, <1>3 DEF AccountsMoved

\* A command of a kind that is not live is not committed.
LEMMA NotLive ==
  ASSUME IInv, NEW o \in inflight, Current(o), NEW kind, o.kind = kind,
         kind \notin {"DEPOSIT", "WITHDRAW"}, NoLive(kind), o.by = run.who, run.view \in Views
  PROVE  FALSE
<1>1. Sensible(o) /\ o.nonce < run.view.nonce /\ o.nonce = acct[o.by].nonce
  BY DEF IInv, Commands, NoLive, Current
<1>2. run.view.nonce <= acct[o.by].nonce
  BY ConstantsAssumption DEF IInv, ViewTrue
<1>3. o.nonce \in Nat /\ run.view.nonce \in Nat
  BY <1>1 DEF Sensible, WellFormed, Views
<1> QED
  BY <1>1, <1>2, <1>3

LEMMA CommitStep ==
  ASSUME IInv, NEW o \in inflight, Commit(o)
  PROVE  IInv'
<1>1. /\ Current(o) /\ Possible(o)
      /\ inflight' = inflight \ {o} /\ unsettled' = o /\ unsettled = None
      /\ UNCHANGED <<wallet, pc, run, answer, serial, operator, faults>>
  BY DEF Commit, bounds
<1>2. Typed /\ Sensible(o) /\ \A p \in inflight : Sensible(p)
  BY DEF IInv, Commands
<1>3. AccountsMoved(o)
  BY <1>1, <1>2, AccountsStep DEF Commit
<1>4. MandatesMoved(o)
  BY <1>1, <1>2, MandatesStep DEF Commit
<1>5. /\ \A a \in Accounts : /\ acct[a].nonce \in Nat /\ acct'[a].nonce \in Nat
                             /\ acct'[a].nonce >= acct[a].nonce
                             /\ acct[a].usdt0 \in Nat /\ acct'[a].usdt0 \in Nat
      /\ \A a \in Accounts : a # o.by \/ o.kind = "DEPOSIT" => acct'[a].nonce = acct[a].nonce
      /\ o.kind # "DEPOSIT" => acct'[o.by].nonce > acct[o.by].nonce
  BY <1>2, <1>3, NoncesMove
<1>6. o.by \in Accounts /\ run.who \in Accounts /\ o.kind \in Kinds
  BY <1>2 DEF Sensible, WellFormed, Typed, RunType
<1>7. Typed'
  BY <1>1, <1>2, <1>3, <1>4 DEF Typed, AccountsMoved, MandatesMoved
<1>8. \A p \in inflight : Sensible(p)'
  BY <1>1, <1>2, <1>5, SensibleStays DEF Typed
<1>9. Commands'
  BY <1>1, <1>8 DEF IInv, Commands
<1>10. Roles' /\ Unopened'
  <2>1. Roles'
    BY <1>1 DEF IInv, Roles, Stage
  <2>2. Unopened'
    BY <1>3, <1>6 DEF IInv, Unopened, AccountsMoved
  <2> QED
    BY <2>1, <2>2
<1>11. ViewTrue'
  <2> SUFFICES ASSUME run.view # None
               PROVE  /\ run.view.nonce <= acct'[run.who].nonce
                      /\ run.view.nonce = acct'[run.who].nonce =>
                           /\ run.who = "lender" => run.view.active = ActiveOf("lender")'
                           /\ run.view.usdt0 <= acct'[run.who].usdt0
                           /\ run.view.loan = (acct'[run.who].loan # None)
    BY <1>1 DEF ViewTrue
  <2>1. run.view.nonce \in Nat /\ run.view.usdt0 \in Nat
    BY <1>2 DEF Typed, RunType, Views
  <2>2. /\ run.view.nonce <= acct[run.who].nonce
        /\ run.view.nonce = acct[run.who].nonce =>
             /\ run.who = "lender" => run.view.active = ActiveOf("lender")
             /\ run.view.usdt0 <= acct[run.who].usdt0
             /\ run.view.loan = (acct[run.who].loan # None)
    BY DEF IInv, ViewTrue
  <2>3. CASE o.by = run.who /\ o.kind # "DEPOSIT"
    BY <1>5, <1>6, <2>1, <2>2, <2>3
  <2>4. CASE o.by # run.who \/ o.kind = "DEPOSIT"
    <3>1. /\ acct'[run.who].nonce = acct[run.who].nonce
          /\ acct'[run.who].loan = acct[run.who].loan
          /\ acct'[run.who].usdt0 >= acct[run.who].usdt0
      BY <1>3, <1>5, <1>6, <2>4 DEF AccountsMoved
    <3>2. run.who = "lender" => ActiveOf("lender")' = ActiveOf("lender")
      BY <1>4, <1>6, <2>4 DEF MandatesMoved, Accounts
    <3> QED
      BY <1>5, <1>6, <2>1, <2>2, <3>1, <3>2
  <2> QED
    BY <2>3, <2>4
<1>12. LiveSets'
  <2> SUFFICES ASSUME NEW p \in inflight, p.kind = "SET", p.nonce = acct'["lender"].nonce
               PROVE  ActiveOf("lender")' = {} /\ p.arg <= acct'["lender"].usdt0
    BY <1>1 DEF LiveSets
  <2>1. p.by = "lender" /\ p.nonce \in Nat /\ p.nonce <= acct["lender"].nonce /\ p.arg \in Nat
    BY <1>2 DEF Sensible, WellFormed
  <2>2. o.by # "lender" \/ o.kind = "DEPOSIT"
    BY <1>5, <2>1 DEF Accounts
  <2>3. ActiveOf("lender")' = ActiveOf("lender")
    BY <1>4, <1>6, <2>2 DEF MandatesMoved, Accounts
  <2>4. acct'["lender"].nonce = acct["lender"].nonce /\ acct'["lender"].usdt0 >= acct["lender"].usdt0
    BY <1>3, <1>5, <2>2 DEF AccountsMoved, Accounts
  <2>5. ActiveOf("lender") = {} /\ p.arg <= acct["lender"].usdt0
    BY <2>4 DEF IInv, LiveSets
  <2> QED
    BY <1>5, <2>1, <2>3, <2>4, <2>5 DEF Accounts
<1>13. LiveBorrows'
  <2> SUFFICES ASSUME NEW p \in inflight, p.kind = "BORROW", p.nonce = acct'["borrower"].nonce
               PROVE  acct'["borrower"].loan = None
    BY <1>1 DEF LiveBorrows
  <2>1. p.by = "borrower" /\ p.nonce \in Nat /\ p.nonce <= acct["borrower"].nonce
    BY <1>2 DEF Sensible, WellFormed
  <2>2. o.by # "borrower" \/ o.kind = "DEPOSIT"
    BY <1>5, <2>1 DEF Accounts
  <2>3. /\ acct'["borrower"].nonce = acct["borrower"].nonce
        /\ acct'["borrower"].loan = acct["borrower"].loan
    BY <1>3, <1>5, <2>2 DEF AccountsMoved, Accounts
  <2> QED
    BY <2>3 DEF IInv, LiveBorrows
<1>14. OneActive'
  <2>1. CASE o.kind = "SET"
    <3>1. o.nonce = acct["lender"].nonce
      BY <1>1, <1>2, <2>1 DEF Current, Sensible, WellFormed
    <3>2. ActiveOf("lender") = {}
      BY <2>1, <3>1 DEF IInv, LiveSets
    <3>3. ActiveOf("lender")' \subseteq {o.id}
      BY <1>4, <2>1, <3>2 DEF MandatesMoved
    <3> QED
      BY <3>3 DEF OneActive
  <2>2. CASE o.kind # "SET"
    <3>1. ActiveOf("lender")' \subseteq ActiveOf("lender")
      BY <1>4, <2>2 DEF MandatesMoved
    <3>2. \A m, n \in ActiveOf("lender") : m = n
      BY DEF IInv, OneActive
    <3> QED
      BY <3>1, <3>2 DEF OneActive
  <2> QED
    BY <2>1, <2>2
<1>15. LendersSide'
  <2>1. NoLive("SET")' = (\A p \in inflight \ {o} : p.kind = "SET" => p.nonce < run.view.nonce)
    BY <1>1 DEF NoLive
  <2>2. ASSUME NoLive("SET"), run.who = "lender", run.view \in Views
        PROVE  NoLive("SET")' /\ ActiveOf("lender")' \subseteq ActiveOf("lender")
    <3>1. o.kind # "SET"
      BY <1>1, <1>2, <2>2, NotLive DEF Sensible, WellFormed
    <3> QED
      BY <1>4, <2>1, <2>2, <3>1 DEF MandatesMoved, NoLive
  <2>3. \A x \in OwnArgs : x \in OwnArgs' \/ (o.id = run.own /\ x = o.arg)
    BY <1>1 DEF OwnArgs
  <2>4. o.id = run.own /\ run.next = "cancel" => o.arg \notin ActiveOf("lender")'
    BY <1>4 DEF IInv, Commands, MandatesMoved
  <2>5. Waiting' = Waiting
    BY <1>1 DEF Waiting
  <2>6. pc \in {"lender", "cancel", "fund"} \/ (Waiting /\ run.next \in {"cancel", "lend"})
        => run.who = "lender" /\ run.view \in Views
    BY DEF IInv, Roles, Stage, Between, LenderPlaces, Waiting
  <2>7. ASSUME pc \in {"lender", "cancel", "fund"}, run.view.active # {} \/ run.view.usdt0 = 0
        PROVE  NoLive("SET")' /\ ActiveOf("lender")' \subseteq run.view.active
    <3>1. NoLive("SET") /\ ActiveOf("lender") \subseteq run.view.active
      BY <2>7 DEF IInv, LendersSide
    <3> QED
      BY <2>2, <2>6, <2>7, <3>1
  <2>8. ASSUME pc = "cancel", run.todo # {}
        PROVE  NoLive("SET")' /\ ActiveOf("lender")' \subseteq run.todo
    <3>1. NoLive("SET") /\ ActiveOf("lender") \subseteq run.todo
      BY <2>8 DEF IInv, LendersSide
    <3> QED
      BY <2>2, <2>6, <2>8, <3>1
  <2>9. ASSUME Waiting, run.next = "cancel"
        PROVE  NoLive("SET")' /\ ActiveOf("lender")' \subseteq run.todo \cup OwnArgs'
    <3>1. NoLive("SET") /\ ActiveOf("lender") \subseteq run.todo \cup OwnArgs
      BY <2>9 DEF IInv, LendersSide
    <3>2. NoLive("SET")' /\ ActiveOf("lender")' \subseteq ActiveOf("lender")
      BY <2>2, <2>6, <2>9, <3>1
    <3> QED
      BY <2>3, <2>4, <2>9, <3>1, <3>2
  <2>10. ASSUME Waiting, run.next = "lend"
         PROVE  NoLive("SET")' /\ ActiveOf("lender")' = {}
    <3>1. NoLive("SET") /\ ActiveOf("lender") = {}
      BY <2>10 DEF IInv, LendersSide
    <3> QED
      BY <2>2, <2>6, <2>10, <3>1
  <2> QED
    BY <1>1, <2>5, <2>7, <2>8, <2>9, <2>10 DEF IInv, LendersSide
<1>16. BorrowersSide'
  <2>1. ASSUME NoLive("BORROW"), run.who = "borrower", run.view \in Views
        PROVE  /\ NoLive("BORROW")'
               /\ acct["borrower"].loan = None => acct'["borrower"].loan = None
    <3>1. o.kind # "BORROW"
      BY <1>1, <1>2, <2>1, NotLive DEF Sensible, WellFormed
    <3>2. NoLive("BORROW")'
      BY <1>1, <2>1 DEF NoLive
    <3> QED
      BY <1>3, <3>1, <3>2 DEF AccountsMoved, Accounts
  <2>2. pc \in {"borrower", "loan"} \/ Stage \in {"clear", "repay", "closed", "withdrawn"}
        => run.who = "borrower" /\ run.view \in Views
    BY DEF IInv, Roles, Stage, Between, BorrowerPlaces
  <2>3. pc \in {"borrower", "loan"} /\ run.view.loan => NoLive("BORROW")'
    BY <2>1, <2>2 DEF IInv, BorrowersSide
  <2>4. Stage \in {"clear", "repay", "closed", "withdrawn"} => NoLive("BORROW")'
    BY <2>1, <2>2 DEF IInv, BorrowersSide
  <2>5. pc = "closed" /\ ~run.view.loan => acct'["borrower"].loan = None
    <3>1. pc = "closed" => Stage = "closed"
      BY DEF Stage, Between
    <3> QED
      BY <2>1, <2>2, <3>1 DEF IInv, BorrowersSide
  <2>6. Stage = "withdrawn" => acct'["borrower"].loan = None
    BY <2>1, <2>2 DEF IInv, BorrowersSide
  <2>7. Stage' = Stage
    BY <1>1 DEF Stage
  <2> QED
    BY <1>1, <2>3, <2>4, <2>5, <2>6, <2>7 DEF IInv, BorrowersSide
<1>17. Uninterrupted'
  <2> SUFFICES ASSUME faults = 0
               PROVE  /\ \A p \in inflight \ {o} : p.id = run.own \/ p.kind = "DEPOSIT"
                      /\ \A p \in inflight \ {o} : p.id = run.own => p.nonce = acct'[p.by].nonce
                      /\ pc \notin Between \cup {"idle", "done"} =>
                           run.view.nonce = acct'[run.who].nonce
    BY <1>1 DEF Uninterrupted
  <2>1. /\ \A p \in inflight : p.id = run.own \/ p.kind = "DEPOSIT"
        /\ \A p \in inflight : p.id = run.own => p.nonce = acct[p.by].nonce
        /\ pc \notin Between \cup {"idle", "done"} => run.view.nonce = acct[run.who].nonce
    BY DEF IInv, Uninterrupted
  <2>2. ASSUME NEW p \in inflight \ {o}, p.id = run.own PROVE p.nonce = acct'[p.by].nonce
    <3>1. o.id # run.own
      BY <2>2 DEF IInv, Commands
    <3>2. o.kind = "DEPOSIT" /\ p.by \in Accounts
      BY <1>2, <2>1, <3>1 DEF Sensible, WellFormed
    <3> QED
      BY <1>5, <2>1, <2>2, <3>2
  <2>3. pc \notin Between \cup {"idle", "done"} => o.kind = "DEPOSIT"
    BY <2>1 DEF IInv, Commands, Between
  <2> QED
    BY <1>5, <1>6, <2>1, <2>2, <2>3
<1> QED
  BY <1>7, <1>9, <1>10, <1>11, <1>12, <1>13, <1>14, <1>15, <1>16, <1>17 DEF IInv

\* Steps that leave the enclave's accounts and mandates as they are.
Quiet == UNCHANGED <<acct, mandates>>

LEMMA QuietStep ==
  ASSUME IInv, Quiet
  PROVE  /\ Unopened' /\ OneActive' /\ ActiveOf("lender")' = ActiveOf("lender")
         /\ \A a \in Accounts : acct[a].nonce \in Nat /\ acct'[a].nonce = acct[a].nonce
         /\ serial' \in Nat /\ serial' >= serial => \A o : Sensible(o) => Sensible(o)'
<1>1. Unopened' /\ OneActive' /\ ActiveOf("lender")' = ActiveOf("lender")
  BY DEF IInv, Quiet, Unopened, OneActive, ActiveOf
<1>2. \A a \in Accounts : acct[a].nonce \in Nat /\ acct'[a].nonce = acct[a].nonce
  BY DEF IInv, Typed, AccountType, Quiet
<1>3. ASSUME serial' \in Nat, serial' >= serial, NEW o, Sensible(o) PROVE Sensible(o)'
  BY <1>2, <1>3, SensibleStays DEF IInv
<1> QED
  BY <1>1, <1>2, <1>3

\* A command ends without being committed.
Dropped(o) ==
  /\ inflight' = inflight \ {o}
  /\ answer' = IF pc = "wait" /\ run.own = o.id THEN "failed" ELSE answer
  /\ faults' \in {faults, faults + 1}
  /\ UNCHANGED <<acct, mandates, wallet, unsettled, pc, run, serial, operator>>

LEMMA DropStep ==
  ASSUME IInv, NEW o \in inflight, Dropped(o)
  PROVE  IInv'
<1>1. Quiet
  BY DEF Dropped, Quiet
<1>2. /\ Unopened' /\ OneActive' /\ ActiveOf("lender")' = ActiveOf("lender")
      /\ \A p : Sensible(p) => Sensible(p)'
  BY <1>1, QuietStep DEF Dropped, IInv, Typed
<1>3. Typed'
  BY DEF IInv, Typed, Dropped
<1>4. Commands'
  <2>1. \A p \in inflight' : p.id = run.own => pc = "wait" /\ answer' = "none"
    BY DEF IInv, Commands, Dropped
  <2>2. unsettled # None /\ unsettled.id = run.own => pc = "wait" /\ answer' = "none"
    BY DEF IInv, Commands, Dropped
  <2> QED
    BY <1>2, <2>1, <2>2 DEF IInv, Commands, Dropped
<1>5. Roles' /\ ViewTrue' /\ LiveSets' /\ LiveBorrows'
  <2>1. Roles'
    BY DEF IInv, Roles, Stage, Dropped
  <2>2. ViewTrue'
    BY <1>2 DEF IInv, ViewTrue, Dropped
  <2>3. LiveSets' /\ LiveBorrows'
    BY <1>2 DEF IInv, LiveSets, LiveBorrows, Dropped
  <2> QED
    BY <2>1, <2>2, <2>3
<1>6. /\ NoLive("SET") => NoLive("SET")'
      /\ NoLive("BORROW") => NoLive("BORROW")'
  BY DEF NoLive, Dropped
<1>7. LendersSide'
  <2>1. Waiting' => Waiting
    BY DEF Waiting, Dropped
  <2>2. Waiting' => o.id # run.own
    BY DEF IInv, Commands, Waiting, Dropped
  <2>3. o.id # run.own => OwnArgs' = OwnArgs
    BY DEF OwnArgs, Dropped
  <2> QED
    BY <1>2, <1>6, <2>1, <2>2, <2>3 DEF IInv, LendersSide, Dropped
<1>8. BorrowersSide'
  BY <1>6 DEF IInv, BorrowersSide, Stage, Dropped
<1>9. Uninterrupted'
  <2>1. faults' = 0 => faults = 0
    BY DEF IInv, Typed, Dropped
  <2> QED
    BY <2>1 DEF IInv, Uninterrupted, Dropped
<1> QED
  BY <1>2, <1>3, <1>4, <1>5, <1>7, <1>8, <1>9 DEF IInv

LEMMA RefuseStep ==
  ASSUME IInv, NEW o \in inflight, Refuse(o) \/ Lose(o)
  PROVE  IInv'
<1>1. Dropped(o)
  BY DEF Refuse, Lose, Report, ledger, bounds, Dropped
<1> QED
  BY <1>1, DropStep

LEMMA SettleStep ==
  ASSUME IInv, Settle
  PROVE  IInv'
<1>1. /\ unsettled # None /\ unsettled' = None
      /\ answer' = IF pc = "wait" /\ run.own = unsettled.id THEN "confirmed" ELSE answer
      /\ UNCHANGED <<acct, mandates, inflight, pc, run, serial, operator, faults>>
  BY DEF Settle, Report, ledger, bounds
<1>2. Quiet
  BY <1>1 DEF Quiet
<1>3. /\ Unopened' /\ OneActive' /\ ActiveOf("lender")' = ActiveOf("lender")
      /\ \A p : Sensible(p) => Sensible(p)'
  BY <1>1, <1>2, QuietStep DEF IInv, Typed
<1>4. wallet' \in [Accounts -> Money]
  <2>1. /\ wallet \in [Accounts -> Money] /\ unsettled.by \in Accounts
        /\ unsettled.kind = "WITHDRAW" => unsettled.arg \in Nat
        /\ unsettled.kind = "BORROW" => unsettled.arg \in QuoteType
    BY <1>1 DEF IInv, Typed, Commands, Sensible, WellFormed
  <2>2. PICK w \in Money : w = wallet[unsettled.by]
    BY <2>1
  <2>3. CASE unsettled.kind = "WITHDRAW"
    <3>1. PICK k \in Nat : k = unsettled.arg
      BY <2>1, <2>3
    <3>2. PICK v : v = [w EXCEPT !.fxrp = @ + k]
      OBVIOUS
    <3>3. v \in Money
      BY <3>2 DEF Money
    <3>4. wallet' = [wallet EXCEPT ![unsettled.by] = v]
      BY <2>1, <2>2, <2>3, <3>1, <3>2 DEF Settle
    <3> QED
      BY <2>1, <3>3, <3>4
  <2>4. CASE unsettled.kind = "BORROW"
    <3>1. PICK k \in Nat : k = unsettled.arg.amount
      BY <2>1, <2>4 DEF QuoteType
    <3>2. PICK v : v = [w EXCEPT !.usdt0 = @ + k]
      OBVIOUS
    <3>3. v \in Money
      BY <3>2 DEF Money
    <3>4. wallet' = [wallet EXCEPT ![unsettled.by] = v]
      BY <2>1, <2>2, <2>4, <3>1, <3>2 DEF Settle
    <3> QED
      BY <2>1, <3>3, <3>4
  <2>5. CASE unsettled.kind \notin {"WITHDRAW", "BORROW"}
    BY <2>1, <2>5 DEF Settle
  <2> QED
    BY <2>3, <2>4, <2>5
<1>5. Typed'
  BY <1>1, <1>4 DEF IInv, Typed
<1>6. Commands'
  BY <1>1, <1>3 DEF IInv, Commands
<1>7. Roles' /\ ViewTrue' /\ LiveSets' /\ LiveBorrows'
  <2>1. Roles'
    BY <1>1 DEF IInv, Roles, Stage
  <2>2. ViewTrue'
    BY <1>1, <1>3 DEF IInv, ViewTrue
  <2>3. LiveSets' /\ LiveBorrows'
    BY <1>1, <1>3 DEF IInv, LiveSets, LiveBorrows
  <2> QED
    BY <2>1, <2>2, <2>3
<1>8. NoLive("SET")' = NoLive("SET") /\ NoLive("BORROW")' = NoLive("BORROW")
  BY <1>1 DEF NoLive
<1>9. LendersSide'
  <2>1. Waiting' => Waiting
    BY <1>1 DEF IInv, Commands, Waiting
  <2>2. OwnArgs' = OwnArgs
    BY <1>1 DEF OwnArgs
  <2> QED
    BY <1>1, <1>3, <1>8, <2>1, <2>2 DEF IInv, LendersSide
<1>10. BorrowersSide'
  BY <1>1, <1>8 DEF IInv, BorrowersSide, Stage
<1>11. Uninterrupted'
  BY <1>1 DEF IInv, Uninterrupted
<1> QED
  BY <1>3, <1>5, <1>6, <1>7, <1>9, <1>10, <1>11 DEF IInv

LEMMA DepositByHandStep ==
  ASSUME IInv, DepositByHand
  PROVE  IInv'
<1>1. PICK c : c = [id |-> serial + 1, kind |-> "DEPOSIT", by |-> "borrower", nonce |-> 0,
                    arg |-> [asset |-> "usdt0", amount |-> 1]]
  OBVIOUS
<1>2. /\ inflight' = inflight \cup {c} /\ serial' = serial + 1
      /\ wallet.borrower.usdt0 > 0 /\ wallet' = [wallet EXCEPT !.borrower.usdt0 = @ - 1]
      /\ UNCHANGED <<acct, mandates, unsettled, pc, run, answer, operator, faults>>
  BY <1>1 DEF DepositByHand, ledger
<1>3. serial \in Nat /\ run.own <= serial /\ run.own \in Nat
  BY DEF IInv, Typed, RunType
<1>4. Quiet
  BY <1>2 DEF Quiet
<1>5. /\ Unopened' /\ OneActive' /\ ActiveOf("lender")' = ActiveOf("lender")
      /\ \A a \in Accounts : acct[a].nonce \in Nat /\ acct'[a].nonce = acct[a].nonce
      /\ \A p : Sensible(p) => Sensible(p)'
  BY <1>2, <1>3, <1>4, QuietStep
<1>6. wallet' \in [Accounts -> Money]
  <2>1. wallet \in [Accounts -> Money]
    BY DEF IInv, Typed
  <2>2. PICK w \in Money : w = wallet["borrower"]
    BY <2>1 DEF Accounts
  <2>3. PICK v : v = [w EXCEPT !.usdt0 = @ - 1]
    OBVIOUS
  <2>4. v \in Money
    BY <1>2, <2>2, <2>3 DEF Money
  <2>5. wallet' = [wallet EXCEPT !["borrower"] = v]
    BY <1>2, <2>1, <2>2, <2>3
  <2> QED
    BY <2>1, <2>4, <2>5
<1>7. Typed'
  <2>1. 1..serial \subseteq 1..serial'
    BY <1>2, <1>3
  <2> QED
    BY <1>2, <1>3, <1>6, <2>1 DEF IInv, Typed
<1>8. c.id = serial + 1 /\ c.kind = "DEPOSIT" /\ c.by = "borrower" /\ c.nonce = 0
  BY <1>1
<1>9. Sensible(c)'
  <2>1. c.arg.asset = "usdt0" /\ c.arg.amount = 1
    BY <1>1
  <2>2. c.id \in 1..serial'
    BY <1>2, <1>3, <1>8
  <2> QED
    BY <1>5, <1>8, <2>1, <2>2 DEF Sensible, WellFormed, Kinds, Accounts
<1>10. /\ c.id # run.own /\ (unsettled # None => unsettled.id # c.id)
       /\ \A p \in inflight : p.id # c.id
  BY <1>3, <1>8 DEF IInv, Commands, Sensible, WellFormed
<1>11. Commands'
  <2>1. \A o \in inflight' : Sensible(o)' /\ (unsettled' # None => o.id # unsettled'.id)
    BY <1>2, <1>5, <1>9, <1>10 DEF IInv, Commands
  <2>2. \A o, p \in inflight' : o.id = p.id => o = p
    BY <1>2, <1>10 DEF IInv, Commands
  <2>3. \A o \in inflight' : o.id = run.own => o \in inflight
    BY <1>2, <1>10
  <2> QED
    BY <1>2, <1>5, <2>1, <2>2, <2>3 DEF IInv, Commands
<1>12. Roles' /\ ViewTrue' /\ LiveSets' /\ LiveBorrows'
  <2>1. Roles'
    BY <1>2 DEF IInv, Roles, Stage
  <2>2. ViewTrue'
    BY <1>2, <1>5 DEF IInv, ViewTrue
  <2>3. LiveSets' /\ LiveBorrows'
    BY <1>2, <1>5, <1>8 DEF IInv, LiveSets, LiveBorrows
  <2> QED
    BY <2>1, <2>2, <2>3
<1>13. NoLive("SET")' = NoLive("SET") /\ NoLive("BORROW")' = NoLive("BORROW")
  BY <1>2, <1>8 DEF NoLive
<1>14. LendersSide'
  <2>1. Waiting' = Waiting
    BY <1>2 DEF Waiting
  <2>2. OwnArgs' = OwnArgs
    <3>1. c.id # run.own
      BY <1>3, <1>8
    <3> QED
      BY <1>2, <3>1 DEF OwnArgs
  <2> QED
    BY <1>2, <1>5, <1>13, <2>1, <2>2 DEF IInv, LendersSide
<1>15. BorrowersSide'
  BY <1>2, <1>13 DEF IInv, BorrowersSide, Stage
<1>16. Uninterrupted'
  <2>1. c.id # run.own
    BY <1>3, <1>8
  <2> QED
    BY <1>2, <1>8, <2>1 DEF IInv, Uninterrupted
<1> QED
  BY <1>5, <1>7, <1>11, <1>12, <1>14, <1>15, <1>16 DEF IInv

-----------------------------------------------------------------------------
(***************************************************************************)
(* Steps of the script that send a command                                 *)
(***************************************************************************)
Sent(c) ==
  /\ pc # "wait" /\ pc' = "wait" /\ answer' = "none"
  /\ c.id = serial + 1 /\ c.by = run.who /\ WellFormed(c)
  /\ run.view = None => c.nonce = 0
  /\ run.view # None => c.nonce = run.view.nonce
  /\ inflight' = inflight \cup {c} /\ serial' = serial + 1
  /\ run' \in RunType /\ run'.own = serial + 1 /\ run'.who = run.who /\ run'.view = run.view
  /\ wallet' \in [Accounts -> Money]
  /\ UNCHANGED <<acct, mandates, unsettled, operator, faults>>

\* What the sender knows, by where it goes with the answer.
Knows(c) ==
  /\ \/ run.who = "lender" /\ run'.next \in LenderPlaces
     \/ run.who = "borrower" /\ run'.next \in BorrowerPlaces
  /\ run'.next \notin {"fund", "accept"}
  /\ run'.next \in {"lender", "borrower"} \/ run.view \in Views
  /\ run'.next = "cancel" => /\ c.kind = "CANCEL" /\ NoLive("SET")
                             /\ ActiveOf("lender") \subseteq run'.todo \cup {c.arg}
  /\ run'.next = "lend" => c.kind # "SET" /\ NoLive("SET") /\ ActiveOf("lender") = {}
  /\ run'.next \in {"clear", "repay", "closed", "withdrawn"} => c.kind # "BORROW" /\ NoLive("BORROW")
  /\ run'.next = "withdrawn" => acct["borrower"].loan = None
  /\ c.kind = "SET" /\ c.nonce = acct["lender"].nonce =>
       ActiveOf("lender") = {} /\ c.arg <= acct["lender"].usdt0
  /\ c.kind = "BORROW" /\ c.nonce = acct["borrower"].nonce => acct["borrower"].loan = None
  /\ faults = 0 => c.nonce = acct[run.who].nonce

LEMMA SendStep ==
  ASSUME IInv, NEW c, Sent(c), Knows(c)
  PROVE  IInv'
<1>1. Quiet
  BY DEF Sent, Quiet
<1>2. serial \in Nat /\ run.own <= serial /\ run.own \in Nat /\ run.who \in Accounts /\ faults \in Nat
  BY DEF IInv, Typed, RunType
<1>3. serial' \in Nat /\ serial' >= serial /\ serial' = serial + 1
  BY <1>2 DEF Sent
<1>4. /\ Unopened' /\ OneActive' /\ ActiveOf("lender")' = ActiveOf("lender")
      /\ \A a \in Accounts : acct[a].nonce \in Nat /\ acct'[a].nonce = acct[a].nonce
      /\ \A p : Sensible(p) => Sensible(p)'
  BY <1>1, <1>3, QuietStep
<1>5. Typed'
  <2>1. 1..serial \subseteq 1..serial'
    BY <1>2, <1>3
  <2>2. run' \in RunType /\ run'.own <= serial' /\ pc' \in Places
    BY <1>2, <1>3 DEF Sent, Places
  <2> QED
    BY <1>3, <2>1, <2>2 DEF IInv, Typed, Sent
<1>6. Sensible(c)'
  <2>1. c.id \in 1..serial' /\ c.by \in Accounts /\ WellFormed(c)
    BY <1>2, <1>3 DEF Sent
  <2>2. c.nonce \in Nat /\ c.nonce <= acct[c.by].nonce
    <3>1. CASE run.view = None
      BY <1>2, <1>4, <3>1 DEF Sent
    <3>2. CASE run.view # None
      <4>1. run.view.nonce \in Nat
        BY <3>2 DEF IInv, Typed, RunType, Views
      <4> QED
        BY <3>2, <4>1 DEF Sent, IInv, ViewTrue
    <3> QED
      BY <3>1, <3>2
  <2> QED
    BY <1>4, <2>1, <2>2 DEF Sensible, WellFormed
<1>7. /\ \A p \in inflight : p.id # c.id /\ p.id # run.own
      /\ unsettled # None => unsettled.id # c.id /\ unsettled.id # run.own
  <2>1. \A p \in inflight : p.id \in 1..serial /\ p.id # run.own
    BY DEF IInv, Commands, Sensible, Sent
  <2>2. unsettled # None => unsettled.id \in 1..serial /\ unsettled.id # run.own
    BY DEF IInv, Commands, Sensible, Sent
  <2>3. c.id = serial + 1
    BY DEF Sent
  <2> QED
    BY <1>2, <2>1, <2>2, <2>3
<1>8. Commands'
  <2>1. \A o \in inflight' : Sensible(o)' /\ (unsettled' # None => o.id # unsettled'.id)
    BY <1>4, <1>6, <1>7 DEF IInv, Commands, Sent
  <2>2. \A o, p \in inflight' : o.id = p.id => o = p
    BY <1>7 DEF IInv, Commands, Sent
  <2>3. \A o \in inflight' : o.id = run'.own => o = c
    BY <1>7 DEF Sent
  <2>4. run'.next = "cancel" => c.kind = "CANCEL" /\ c.by = "lender"
    BY DEF Sent, Knows, BorrowerPlaces
  <2>5. unsettled' # None => Sensible(unsettled)' /\ unsettled'.id # run'.own
    BY <1>4, <1>7 DEF IInv, Commands, Sent
  <2> QED
    BY <2>1, <2>2, <2>3, <2>4, <2>5 DEF Commands, Sent
<1>9. Roles'
  <2>1. pc' = "wait" /\ Stage' = run'.next
    BY DEF Stage, Between, Sent
  <2>2. run'.next \in (LenderPlaces \cup BorrowerPlaces) \ {"fund", "accept"}
    BY DEF Knows
  <2> QED
    BY <2>1, <2>2 DEF Roles, Sent, Knows, Between, LenderPlaces, BorrowerPlaces
<1>10. ViewTrue'
  BY <1>4 DEF IInv, ViewTrue, Sent
<1>11. LiveSets' /\ LiveBorrows'
  BY <1>4 DEF IInv, LiveSets, LiveBorrows, Sent, Knows
<1>12. /\ NoLive("SET") /\ c.kind # "SET" => NoLive("SET")'
       /\ NoLive("BORROW") /\ c.kind # "BORROW" => NoLive("BORROW")'
  BY DEF NoLive, Sent
<1>13. LendersSide'
  <2>1. c.arg \in OwnArgs'
    BY DEF OwnArgs, Sent
  <2>2. run'.next = "cancel" => c.kind # "SET"
    BY DEF Knows
  <2> QED
    BY <1>4, <1>12, <2>1, <2>2 DEF LendersSide, Sent, Knows, Waiting
<1>14. BorrowersSide'
  <2>1. pc' = "wait" /\ Stage' = run'.next
    BY DEF Stage, Between, Sent
  <2>2. acct' = acct
    BY DEF Sent
  <2> QED
    BY <1>12, <2>1, <2>2 DEF BorrowersSide, Knows
<1>15. Uninterrupted'
  <2>1. pc' = "wait" /\ faults' = faults /\ c.id = run'.own /\ c.by = run.who
    BY DEF Sent
  <2>2. faults = 0 => \A o \in inflight : o.kind = "DEPOSIT"
    BY <1>7 DEF IInv, Uninterrupted
  <2>3. \A o \in inflight' : o \in inflight \/ o = c
    BY DEF Sent
  <2>4. \A o \in inflight : o.id # run'.own
    BY <1>7, <2>1
  <2>5. faults = 0 => c.nonce = acct'[c.by].nonce
    BY <2>1 DEF Knows, Sent
  <2> QED
    BY <2>1, <2>2, <2>3, <2>4, <2>5 DEF Uninterrupted, Between
<1> QED
  BY <1>4, <1>5, <1>8, <1>9, <1>10, <1>11, <1>13, <1>14, <1>15 DEF IInv

RunWith(todo, next, own, before, quote) ==
  [flags |-> run.flags, who |-> run.who, view |-> run.view, todo |-> todo, next |-> next,
   own |-> own, before |-> before, quote |-> quote]

LEMMA RunWithIs ==
  ASSUME Typed, NEW t \in SUBSET Nat, NEW n \in Places, NEW k \in Nat, NEW b \in BeforeType,
         NEW u \in QuoteType \cup {None}, NEW r, r = RunWith(t, n, k, b, u)
  PROVE  /\ r \in RunType /\ r.who = run.who /\ r.view = run.view /\ r.own = k
         /\ r.todo = t /\ r.next = n /\ r.quote = u
BY DEF Typed, RunType, RunWith

LEMMA RunFields ==
  ASSUME Typed
  PROVE  /\ run = RunWith(run.todo, run.next, run.own, run.before, run.quote)
         /\ run.todo \in SUBSET Nat /\ run.own \in Nat /\ run.before \in BeforeType
         /\ run.next \in Places /\ run.quote \in QuoteType \cup {None} /\ run.who \in Accounts
         /\ serial \in Nat /\ serial + 1 \in Nat
BY DEF Typed, RunType, RunWith

\* Sending a command: what it is signed with, and the step Send takes.
LEMMA SendIs ==
  ASSUME IInv, NEW kind, NEW arg, NEW r, Send(kind, arg, r), pc # "wait",
         NEW t \in SUBSET Nat, NEW n \in Places, NEW b \in BeforeType,
         [r EXCEPT !.own = serial + 1] = RunWith(t, n, serial + 1, b, run.quote),
         wallet' \in [Accounts -> Money],
         \A c : c.kind = kind /\ c.arg = arg /\ c.by = run.who => WellFormed(c)
  PROVE  \E c : /\ Sent(c) /\ c.kind = kind /\ c.arg = arg
                /\ run'.todo = t /\ run'.next = n
<1>1. PICK c : c = Command(kind, arg)
  OBVIOUS
<1>2. /\ c.id = serial + 1 /\ c.kind = kind /\ c.by = run.who /\ c.arg = arg
      /\ run.view = None => c.nonce = 0
      /\ run.view # None => c.nonce = run.view.nonce
  BY <1>1 DEF Command
<1>3. Typed
  BY DEF IInv
<1>4. /\ run' \in RunType /\ run'.who = run.who /\ run'.view = run.view /\ run'.own = serial + 1
      /\ run'.todo = t /\ run'.next = n
  <2>1. run' = RunWith(t, n, serial + 1, b, run.quote)
    BY DEF Send
  <2>2. serial + 1 \in Nat /\ run.quote \in QuoteType \cup {None}
    BY <1>3, RunFields
  <2> QED
    BY <1>3, <2>1, <2>2, RunWithIs
<1>5. /\ inflight' = inflight \cup {c} /\ serial' = serial + 1 /\ answer' = "none" /\ pc' = "wait"
      /\ UNCHANGED <<acct, mandates, unsettled, operator, faults>>
  BY <1>1 DEF Send, ledger, bounds
<1>6. WellFormed(c)
  BY <1>2
<1> QED
  BY <1>2, <1>4, <1>5, <1>6 DEF Sent

LEMMA CreateAccountStep ==
  ASSUME IInv, CreateAccount
  PROVE  IInv'
<1>1. pc = "account" /\ ~acct[run.who].open /\ Send("OPEN", None, run) /\ wallet' = wallet
  BY DEF CreateAccount
<1>2. /\ run = RunWith(run.todo, run.next, run.own, run.before, run.quote)
      /\ run.todo \in SUBSET Nat /\ run.own \in Nat /\ run.before \in BeforeType
      /\ run.next \in Places /\ run.who \in Accounts
      /\ wallet \in [Accounts -> Money]
  BY RunFields DEF IInv, Typed
<1>3. [run EXCEPT !.own = serial + 1] =
        RunWith(run.todo, run.next, serial + 1, run.before, run.quote)
  BY <1>2 DEF RunWith
<1>4. \A c : c.kind = "OPEN" /\ c.arg = None /\ c.by = run.who => WellFormed(c)
  BY DEF WellFormed, Kinds
<1>5. PICK c : /\ Sent(c) /\ c.kind = "OPEN"
               /\ run'.todo = run.todo /\ run'.next = run.next
  BY <1>1, <1>2, <1>3, <1>4, SendIs
<1>6. run.view = None /\ run.next \in {"lender", "borrower"}
  BY <1>1, ConstantsAssumption DEF IInv, Roles, Stage, Between, LenderPlaces, BorrowerPlaces
<1>7. acct[run.who].nonce = 0
  BY <1>1, <1>2 DEF IInv, Unopened
<1>8. /\ run.next = "lender" => run.who = "lender"
      /\ run.next = "borrower" => run.who = "borrower"
  BY <1>1 DEF IInv, Roles, Stage, Between, LenderPlaces, BorrowerPlaces
<1>9. Knows(c)
  BY <1>5, <1>6, <1>7, <1>8 DEF Knows, Sent, LenderPlaces, BorrowerPlaces
<1> QED
  BY <1>5, <1>9, SendStep

\* The lender's and the borrower's places.
LEMMA AtLender ==
  ASSUME IInv, pc \in LenderPlaces
  PROVE  run.who = "lender" /\ run.view \in Views /\ run.view # None
BY ConstantsAssumption DEF IInv, Roles, Stage, Between, LenderPlaces

LEMMA AtBorrower ==
  ASSUME IInv, pc \in BorrowerPlaces
  PROVE  run.who = "borrower" /\ run.view \in Views /\ run.view # None /\ Stage = pc
BY ConstantsAssumption DEF IInv, Roles, Stage, Between, BorrowerPlaces

\* Where the script decides, the view has the account's nonce unless it was interrupted.
LEMMA FreshNonce ==
  ASSUME IInv, pc \in LenderPlaces \cup BorrowerPlaces, faults = 0
  PROVE  run.view.nonce = acct[run.who].nonce
BY DEF IInv, Uninterrupted, Between, LenderPlaces, BorrowerPlaces

LEMMA CancelStep ==
  ASSUME IInv, NEW p, NEW after, CancelNext(p, after), run.todo # {},
         p = "cancel" \/ p = "clear"
  PROVE  IInv'
<1>1. PICK m : m = Min(run.todo)
  OBVIOUS
<1>2. PICK t : t = run.todo \ {m}
  OBVIOUS
<1>0. PICK r : r = [run EXCEPT !.todo = t, !.next = p]
  OBVIOUS
<1>3. pc = p /\ wallet' = wallet /\ Send("CANCEL", m, r)
  BY <1>0, <1>1, <1>2 DEF CancelNext
<1>4. /\ run = RunWith(run.todo, run.next, run.own, run.before, run.quote)
      /\ t \in SUBSET Nat /\ run.before \in BeforeType
      /\ wallet \in [Accounts -> Money] /\ p \in Places
  BY <1>2, RunFields DEF IInv, Typed, Places
<1>5. [r EXCEPT !.own = serial + 1] = RunWith(t, p, serial + 1, run.before, run.quote)
  <2>1. r = RunWith(t, p, run.own, run.before, run.quote)
    BY <1>0, <1>4 DEF RunWith
  <2> QED
    BY <2>1 DEF RunWith
<1>6. \A c : c.kind = "CANCEL" /\ c.arg = m /\ c.by = run.who => WellFormed(c)
  BY DEF WellFormed, Kinds
<1>7. PICK c : Sent(c) /\ c.kind = "CANCEL" /\ c.arg = m /\ run'.todo = t /\ run'.next = p
  <2>1. wallet' \in [Accounts -> Money] /\ pc # "wait"
    BY <1>3, <1>4
  <2> QED
    BY <1>3, <1>4, <1>5, <1>6, <2>1, SendIs
<1>8. pc \in LenderPlaces \cup BorrowerPlaces
  BY <1>3 DEF LenderPlaces, BorrowerPlaces
<1>9. run.view \in Views /\ run.view # None
  BY <1>8, AtLender, AtBorrower
<1>10. faults = 0 => c.nonce = acct[run.who].nonce
  BY <1>7, <1>8, <1>9, FreshNonce DEF Sent
<1>11. CASE p = "cancel"
  <2>1. run.who = "lender"
    BY <1>3, <1>11, AtLender DEF LenderPlaces
  <2>2. NoLive("SET") /\ ActiveOf("lender") \subseteq run.todo
    BY <1>3, <1>11 DEF IInv, LendersSide
  <2>3. ActiveOf("lender") \subseteq t \cup {m}
    BY <1>2, <2>2
  <2> QED
    BY <1>7, <1>9, <1>10, <1>11, <2>1, <2>2, <2>3, SendStep DEF Knows, LenderPlaces
<1>12. CASE p = "clear"
  <2>1. run.who = "borrower" /\ Stage = "clear"
    BY <1>3, <1>12, AtBorrower DEF BorrowerPlaces
  <2>2. NoLive("BORROW")
    BY <2>1 DEF IInv, BorrowersSide
  <2> QED
    BY <1>7, <1>9, <1>10, <1>12, <2>1, <2>2, SendStep DEF Knows, BorrowerPlaces
<1> QED
  BY <1>11, <1>12

\* Most senders change nothing but where they go next.
LEMMA SendNext ==
  ASSUME IInv, NEW kind, NEW arg, NEW n \in Places, Send(kind, arg, [run EXCEPT !.next = n]),
         pc # "wait", wallet' \in [Accounts -> Money],
         \A c : c.kind = kind /\ c.arg = arg /\ c.by = run.who => WellFormed(c)
  PROVE  \E c : Sent(c) /\ c.kind = kind /\ c.arg = arg /\ run'.next = n
<1>1. /\ run = RunWith(run.todo, run.next, run.own, run.before, run.quote)
      /\ run.todo \in SUBSET Nat /\ run.before \in BeforeType
  BY RunFields DEF IInv
<1>2. PICK r : r = [run EXCEPT !.next = n]
  OBVIOUS
<1>3. r = RunWith(run.todo, n, run.own, run.before, run.quote)
  BY <1>1, <1>2 DEF RunWith
<1>4. [r EXCEPT !.own = serial + 1] = RunWith(run.todo, n, serial + 1, run.before, run.quote)
  BY <1>3 DEF RunWith
<1>5. Send(kind, arg, r)
  BY <1>2
<1>6. \E c : Sent(c) /\ c.kind = kind /\ c.arg = arg /\ run'.todo = run.todo /\ run'.next = n
  BY <1>1, <1>4, <1>5, SendIs
<1> QED
  BY <1>6

LEMMA DepositSends ==
  ASSUME IInv, pc # "wait", NEW asset \in {"usdt0", "fxrp"}, NEW amount \in Nat,
         NEW n \in Places, Deposit(asset, amount, n),
         asset = "usdt0" => amount <= wallet[run.who].usdt0,
         asset = "fxrp" => amount <= wallet[run.who].fxrp
  PROVE  \E c : Sent(c) /\ c.kind = "DEPOSIT" /\ run'.next = n
<1>1. wallet \in [Accounts -> Money] /\ run.who \in Accounts
  BY DEF IInv, Typed, RunType
<1>2. PICK w \in Money : w = wallet[run.who]
  BY <1>1
<1>3. wallet' = [wallet EXCEPT ![run.who][asset] = @ - amount]
  BY DEF Deposit
<1>4. wallet' \in [Accounts -> Money]
  <2>1. CASE asset = "usdt0"
    <3>1. PICK v : v = [w EXCEPT !.usdt0 = @ - amount]
      OBVIOUS
    <3>2. v \in Money
      BY <1>2, <2>1, <3>1 DEF Money
    <3>3. wallet' = [wallet EXCEPT ![run.who] = v]
      BY <1>1, <1>2, <1>3, <2>1, <3>1
    <3> QED
      BY <1>1, <3>2, <3>3
  <2>2. CASE asset = "fxrp"
    <3>1. PICK v : v = [w EXCEPT !.fxrp = @ - amount]
      OBVIOUS
    <3>2. v \in Money
      BY <1>2, <2>2, <3>1 DEF Money
    <3>3. wallet' = [wallet EXCEPT ![run.who] = v]
      BY <1>1, <1>2, <1>3, <2>2, <3>1
    <3> QED
      BY <1>1, <3>2, <3>3
  <2> QED
    BY <2>1, <2>2
<1>5. PICK arg : arg = [asset |-> asset, amount |-> amount]
  OBVIOUS
<1>6. Send("DEPOSIT", arg, [run EXCEPT !.next = n])
  BY <1>5 DEF Deposit
<1>7. arg.asset \in {"usdt0", "fxrp"} /\ arg.amount \in Nat
  BY <1>5
<1>8. \A c : c.kind = "DEPOSIT" /\ c.arg = arg /\ c.by = run.who => WellFormed(c)
  BY <1>7 DEF WellFormed, Kinds
<1>9. \E c : Sent(c) /\ c.kind = "DEPOSIT" /\ c.arg = arg /\ run'.next = n
  BY <1>4, <1>6, <1>8, SendNext
<1> QED
  BY <1>9

LEMMA FundSends ==
  ASSUME IInv, pc = "fund", run.view.usdt0 = 0,
         NEW amount, amount = Min({DepositSize, wallet.lender.usdt0}), Deposit("usdt0", amount, "lend")
  PROVE  IInv'
<1>1. run.who = "lender" /\ run.view \in Views /\ run.view # None
  BY AtLender DEF LenderPlaces
<1>2. wallet["lender"].usdt0 \in Nat /\ DepositSize \in Nat
  BY ConstantsAssumption DEF IInv, Typed, Money, Accounts
<1>3. amount \in Nat /\ amount <= wallet["lender"].usdt0
  BY <1>2, Smaller
<1>4. PICK c : Sent(c) /\ c.kind = "DEPOSIT" /\ run'.next = "lend"
  <2>1. "lend" \in Places
    BY DEF Places
  <2> QED
    BY <1>1, <1>3, <2>1, DepositSends
<1>5. NoLive("SET") /\ ActiveOf("lender") = {}
  BY DEF IInv, LendersSide
<1>6. faults = 0 => c.nonce = acct[run.who].nonce
  BY <1>1, <1>4, FreshNonce DEF Sent, LenderPlaces
<1>7. Knows(c)
  BY <1>1, <1>4, <1>5, <1>6 DEF Knows, LenderPlaces
<1> QED
  BY <1>4, <1>7, SendStep

LEMMA CollateralSends ==
  ASSUME IInv, pc = "borrower", Deposit("fxrp", wallet.borrower.fxrp, "loan")
  PROVE  IInv'
<1>1. run.who = "borrower" /\ run.view \in Views /\ run.view # None
  BY AtBorrower DEF BorrowerPlaces
<1>2. PICK amount \in Nat : amount = wallet["borrower"].fxrp
  BY DEF IInv, Typed, Money, Accounts
<1>3. PICK c : Sent(c) /\ c.kind = "DEPOSIT" /\ run'.next = "loan"
  <2>1. "loan" \in Places /\ Deposit("fxrp", amount, "loan")
    BY <1>2 DEF Places
  <2> QED
    BY <1>1, <1>2, <2>1, DepositSends
<1>4. faults = 0 => c.nonce = acct[run.who].nonce
  BY <1>1, <1>3, FreshNonce DEF Sent, BorrowerPlaces
<1>5. Knows(c)
  BY <1>1, <1>3, <1>4 DEF Knows, BorrowerPlaces
<1> QED
  BY <1>3, <1>5, SendStep

LEMMA LendSends ==
  ASSUME IInv, pc = "lend", run.view.usdt0 # 0, wallet' = wallet,
         Send("SET", run.view.usdt0, [run EXCEPT !.next = "set"])
  PROVE  IInv'
<1>1. run.who = "lender" /\ run.view \in Views /\ run.view # None
  BY AtLender DEF LenderPlaces
<1>2. PICK k \in Nat \ {0} : k = run.view.usdt0
  BY <1>1 DEF Views
<1>3. pc # "wait"
  OBVIOUS
<1>4. PICK c : Sent(c) /\ c.kind = "SET" /\ c.arg = k /\ run'.next = "set"
  <2>1. "set" \in Places /\ Send("SET", k, [run EXCEPT !.next = "set"])
    BY <1>2 DEF Places
  <2>2. \A c : c.kind = "SET" /\ c.arg = k /\ c.by = run.who => WellFormed(c)
    BY <1>1 DEF WellFormed, Kinds
  <2>3. wallet' \in [Accounts -> Money]
    BY DEF IInv, Typed
  <2> QED
    BY <1>3, <2>1, <2>2, <2>3, SendNext
<1>5. c.nonce = acct["lender"].nonce => ActiveOf("lender") = {} /\ c.arg <= acct["lender"].usdt0
  <2>1. run.view.active = {}
    BY DEF IInv, LendersSide
  <2> QED
    BY <1>1, <1>2, <1>4, <2>1 DEF IInv, ViewTrue, Sent
<1>6. faults = 0 => c.nonce = acct[run.who].nonce
  BY <1>1, <1>4, FreshNonce DEF Sent, LenderPlaces
<1>7. Knows(c)
  BY <1>1, <1>4, <1>5, <1>6 DEF Knows, LenderPlaces
<1> QED
  BY <1>4, <1>7, SendStep

LEMMA RepaymentSends ==
  ASSUME IInv, pc = "repay", wallet' = wallet,
         Send("REPAY", run.view.usdt0, [run EXCEPT !.next = "closed"])
  PROVE  IInv'
<1>1. run.who = "borrower" /\ run.view \in Views /\ run.view # None /\ Stage = "repay"
  BY AtBorrower DEF BorrowerPlaces
<1>2. PICK k \in Nat : k = run.view.usdt0
  BY <1>1 DEF Views
<1>3. pc # "wait"
  OBVIOUS
<1>4. PICK c : Sent(c) /\ c.kind = "REPAY" /\ c.arg = k /\ run'.next = "closed"
  <2>1. "closed" \in Places /\ Send("REPAY", k, [run EXCEPT !.next = "closed"])
    BY <1>2 DEF Places
  <2>2. \A c : c.kind = "REPAY" /\ c.arg = k /\ c.by = run.who => WellFormed(c)
    BY <1>2 DEF WellFormed, Kinds
  <2>3. wallet' \in [Accounts -> Money]
    BY DEF IInv, Typed
  <2> QED
    BY <1>3, <2>1, <2>2, <2>3, SendNext
<1>5. NoLive("BORROW")
  BY <1>1 DEF IInv, BorrowersSide
<1>6. faults = 0 => c.nonce = acct[run.who].nonce
  BY <1>1, <1>4, FreshNonce DEF Sent, BorrowerPlaces
<1>7. Knows(c)
  BY <1>1, <1>4, <1>5, <1>6 DEF Knows, BorrowerPlaces
<1> QED
  BY <1>4, <1>7, SendStep

LEMMA WithdrawalSends ==
  ASSUME IInv, RequestWithdrawal, pc' # "idle"
  PROVE  IInv'
<1>1. run.who = "borrower" /\ run.view \in Views /\ run.view # None /\ Stage = "closed"
  BY AtBorrower DEF BorrowerPlaces, RequestWithdrawal
<1>2. PICK k : k = Min({WithdrawSize, run.view.fxrp})
  OBVIOUS
<1>3. k \in Nat
  BY <1>1, <1>2, Smaller, ConstantsAssumption DEF Views
<1>4. PICK b : b = [wallet |-> wallet.borrower.fxrp, fxrp |-> run.view.fxrp, amount |-> k]
  OBVIOUS
<1>5. PICK r : r = [run EXCEPT !.next = "withdrawn", !.before = b]
  OBVIOUS
<1>6. pc = "closed" /\ ~run.view.loan /\ Send("WITHDRAW", k, r) /\ wallet' = wallet
  BY <1>2, <1>4, <1>5 DEF RequestWithdrawal, Throw
<1>7. b \in BeforeType
  BY <1>1, <1>3, <1>4 DEF BeforeType, Views, IInv, Typed, Money, Accounts
<1>8. [r EXCEPT !.own = serial + 1] = RunWith(run.todo, "withdrawn", serial + 1, b, run.quote)
  <2>1. run = RunWith(run.todo, run.next, run.own, run.before, run.quote)
    BY RunFields DEF IInv
  <2>2. r = RunWith(run.todo, "withdrawn", run.own, b, run.quote)
    BY <1>5, <2>1 DEF RunWith
  <2> QED
    BY <2>2 DEF RunWith
<1>9. PICK c : Sent(c) /\ c.kind = "WITHDRAW" /\ c.arg = k /\ run'.next = "withdrawn"
  <2>1. "withdrawn" \in Places /\ run.todo \in SUBSET Nat /\ pc # "wait"
    BY <1>6, RunFields DEF Places, IInv
  <2>2. \A c : c.kind = "WITHDRAW" /\ c.arg = k /\ c.by = run.who => WellFormed(c)
    BY <1>3 DEF WellFormed, Kinds
  <2>3. wallet' \in [Accounts -> Money]
    BY <1>6 DEF IInv, Typed
  <2> QED
    BY <1>6, <1>7, <1>8, <2>1, <2>2, <2>3, SendIs
<1>10. NoLive("BORROW") /\ acct["borrower"].loan = None
  BY <1>1, <1>6 DEF IInv, BorrowersSide
<1>11. faults = 0 => c.nonce = acct[run.who].nonce
  BY <1>1, <1>6, <1>9, FreshNonce DEF Sent, BorrowerPlaces
<1>12. Knows(c)
  BY <1>1, <1>9, <1>10, <1>11 DEF Knows, BorrowerPlaces
<1> QED
  BY <1>9, <1>12, SendStep

LEMMA RequestBorrowStep ==
  ASSUME IInv, RequestBorrow
  PROVE  IInv'
<1>1. pc = "accept" /\ wallet' = wallet
  BY DEF RequestBorrow
<1>2. run.who = "borrower" /\ run.view \in Views /\ run.view # None
  BY <1>1, AtBorrower DEF BorrowerPlaces
<1>3. ~run.view.loan /\ run.quote \in QuoteType
  BY <1>1 DEF IInv, BorrowersSide
<1>4. PICK b : b = [wallet |-> wallet.borrower.usdt0]
  OBVIOUS
<1>5. PICK r : r = [run EXCEPT !.next = "borrowed", !.before = b]
  OBVIOUS
<1>6. Send("BORROW", run.quote, r)
  BY <1>4, <1>5 DEF RequestBorrow
<1>7. b \in BeforeType
  BY <1>4 DEF BeforeType, IInv, Typed, Money, Accounts
<1>8. [r EXCEPT !.own = serial + 1] = RunWith(run.todo, "borrowed", serial + 1, b, run.quote)
  <2>1. run = RunWith(run.todo, run.next, run.own, run.before, run.quote)
    BY RunFields DEF IInv
  <2>2. r = RunWith(run.todo, "borrowed", run.own, b, run.quote)
    BY <1>5, <2>1 DEF RunWith
  <2> QED
    BY <2>2 DEF RunWith
<1>9. PICK c : Sent(c) /\ c.kind = "BORROW" /\ run'.next = "borrowed"
  <2>1. "borrowed" \in Places /\ run.todo \in SUBSET Nat /\ pc # "wait"
    BY <1>1, RunFields DEF Places, IInv
  <2>2. \A c : c.kind = "BORROW" /\ c.arg = run.quote /\ c.by = run.who => WellFormed(c)
    BY <1>2, <1>3 DEF WellFormed, Kinds
  <2>3. wallet' \in [Accounts -> Money]
    BY <1>1 DEF IInv, Typed
  <2>4. \E c : /\ Sent(c) /\ c.kind = "BORROW" /\ c.arg = run.quote
               /\ run'.todo = run.todo /\ run'.next = "borrowed"
    BY <1>6, <1>7, <1>8, <2>1, <2>2, <2>3, SendIs
  <2> QED
    BY <2>4
<1>10. c.nonce = acct["borrower"].nonce => acct["borrower"].loan = None
  BY <1>2, <1>3, <1>9 DEF IInv, ViewTrue, Sent
<1>11. faults = 0 => c.nonce = acct[run.who].nonce
  BY <1>1, <1>2, <1>9, FreshNonce DEF Sent, BorrowerPlaces
<1>12. Knows(c)
  BY <1>2, <1>9, <1>10, <1>11 DEF Knows, BorrowerPlaces
<1> QED
  BY <1>9, <1>12, SendStep

-----------------------------------------------------------------------------
(***************************************************************************)
(* The other steps of the script                                           *)
(***************************************************************************)
LEMMA NothingLost ==
  ASSUME IInv, UNCHANGED <<acct, mandates, inflight, unsettled, serial>>
  PROVE  /\ Unopened' /\ OneActive' /\ LiveSets' /\ LiveBorrows'
         /\ ActiveOf("lender")' = ActiveOf("lender")
         /\ \A o : Sensible(o) => Sensible(o)'
<1>1. Quiet /\ serial' = serial /\ serial \in Nat
  BY DEF Quiet, IInv, Typed
<1>2. /\ Unopened' /\ OneActive' /\ ActiveOf("lender")' = ActiveOf("lender")
      /\ \A o : Sensible(o) => Sensible(o)'
  BY <1>1, QuietStep
<1>3. LiveSets' /\ LiveBorrows'
  BY <1>2 DEF IInv, LiveSets, LiveBorrows
<1> QED
  BY <1>2, <1>3

\* The script goes from one decision to the next, with what it has seen.
Moved ==
  /\ pc \in LenderPlaces \cup BorrowerPlaces
  /\ run' \in RunType /\ run'.own = run.own /\ run'.who = run.who /\ run'.view = run.view
  /\ UNCHANGED <<acct, mandates, inflight, unsettled, wallet, answer, serial, operator, faults>>

MayGo ==
  /\ \/ pc \in LenderPlaces /\ pc' \in LenderPlaces
     \/ pc \in BorrowerPlaces /\ pc' \in BorrowerPlaces
  /\ pc' \in {"lender", "cancel", "fund"} => pc \in {"lender", "cancel", "fund"}
  /\ pc' = "cancel" => /\ run.view.active \subseteq run'.todo
                       /\ run'.todo # {} => NoLive("SET") /\ ActiveOf("lender") \subseteq run'.todo
  /\ pc' \in {"fund", "lend"} => run.view.active = {}
  /\ pc' \in {"borrower", "loan"} /\ run.view.loan => NoLive("BORROW")
  /\ pc' \in {"clear", "repay"} => NoLive("BORROW")
  /\ pc' \notin {"closed", "withdrawn"}
  /\ pc' = "accept" => ~run.view.loan /\ run'.quote \in QuoteType

LEMMA MoveStep ==
  ASSUME IInv, Moved, MayGo
  PROVE  IInv'
<1>1. /\ Unopened' /\ OneActive' /\ LiveSets' /\ LiveBorrows'
      /\ ActiveOf("lender")' = ActiveOf("lender") /\ \A o : Sensible(o) => Sensible(o)'
  BY NothingLost DEF Moved
<1>2. pc \notin Between \cup {"idle", "done"} /\ pc' \notin Between \cup {"idle", "done"}
  BY DEF Moved, MayGo, Between, LenderPlaces, BorrowerPlaces
<1>3. Typed'
  BY DEF IInv, Typed, Moved, MayGo, Places, LenderPlaces, BorrowerPlaces
<1>4. Commands'
  <2>1. \A o \in inflight : o.id # run.own
    BY <1>2 DEF IInv, Commands, Between
  <2>2. unsettled # None => unsettled.id # run.own
    BY <1>2 DEF IInv, Commands, Between
  <2> QED
    BY <1>1, <2>1, <2>2 DEF IInv, Commands, Moved
<1>5. Roles'
  <2>1. Stage' = pc' /\ Stage = pc
    BY <1>2 DEF Stage
  <2> QED
    BY <1>2, <2>1 DEF IInv, Roles, Moved, MayGo, Between, LenderPlaces, BorrowerPlaces
<1>6. ViewTrue'
  BY <1>1 DEF IInv, ViewTrue, Moved
<1>7. NoLive("SET")' = NoLive("SET") /\ NoLive("BORROW")' = NoLive("BORROW")
  BY DEF NoLive, Moved
<1>8. LendersSide'
  <2>1. ~Waiting'
    BY <1>2 DEF Waiting, Between
  <2> QED
    BY <1>1, <1>7, <2>1 DEF IInv, LendersSide, Moved, MayGo
<1>9. BorrowersSide'
  <2>1. Stage' = pc'
    BY <1>2 DEF Stage
  <2> QED
    BY <1>7, <2>1 DEF BorrowersSide, Moved, MayGo
<1>10. Uninterrupted'
  BY <1>2 DEF IInv, Uninterrupted, Moved
<1> QED
  BY <1>1, <1>3, <1>4, <1>5, <1>6, <1>8, <1>9, <1>10 DEF IInv

\* A run ends, or begins: what is in flight is the account's own business from now on.
Renewed ==
  /\ \/ pc' \in {"idle", "done"}
     \/ pc' = "account" /\ run'.next \in {"lender", "borrower"} /\ run'.who = run'.next
  /\ run' \in RunType /\ run'.own = 0 /\ run'.view = None
  /\ faults' \in {faults, faults + 1}
  /\ faults' = 0 => pc # "wait" \/ answer = "failed"
  /\ UNCHANGED <<acct, mandates, inflight, unsettled, wallet, answer, serial, operator>>

LEMMA RenewStep ==
  ASSUME IInv, Renewed
  PROVE  IInv'
<1>1. /\ Unopened' /\ OneActive' /\ LiveSets' /\ LiveBorrows'
      /\ ActiveOf("lender")' = ActiveOf("lender") /\ \A o : Sensible(o) => Sensible(o)'
  BY NothingLost DEF Renewed
<1>2. Typed'
  BY DEF IInv, Typed, Renewed, Places
<1>3. /\ \A o \in inflight : o.id # 0
      /\ unsettled # None => unsettled.id # 0
  <2>1. serial \in Nat /\ 0 \notin 1..serial
    BY DEF IInv, Typed
  <2> QED
    BY <2>1 DEF IInv, Commands, Sensible
<1>4. Commands'
  BY <1>1, <1>3 DEF IInv, Commands, Renewed
<1>5. Roles'
  BY ConstantsAssumption DEF Roles, Renewed, Stage, Between, LenderPlaces, BorrowerPlaces
<1>6. ViewTrue'
  BY DEF ViewTrue, Renewed
<1>7. Stage' \in {"idle", "done", "lender", "borrower"} /\ pc' \in {"idle", "done", "account"}
  BY DEF Stage, Between, Renewed
<1>8. LendersSide' /\ BorrowersSide'
  BY <1>7 DEF LendersSide, BorrowersSide, Waiting
<1>9. Uninterrupted'
  <2> SUFFICES ASSUME faults' = 0 PROVE \A o \in inflight : o.kind = "DEPOSIT"
    BY <1>3, <1>7 DEF Uninterrupted, Renewed, Between
  <2>1. faults = 0
    BY DEF IInv, Typed, Renewed
  <2>2. \A o \in inflight : o.id # run.own
    BY DEF IInv, Commands, Renewed
  <2> QED
    BY <2>1, <2>2 DEF IInv, Uninterrupted
<1> QED
  BY <1>1, <1>2, <1>4, <1>5, <1>6, <1>8, <1>9 DEF IInv

LEMMA BlankIs == Blank \in RunType /\ Blank.own = 0 /\ Blank.view = None
BY DEF Blank, RunType, BeforeType, Accounts, Options, Places

LEMMA EndStep ==
  ASSUME IInv, pc # "wait" \/ answer = "failed", pc' \in {"idle", "done"}, run' = Blank,
         UNCHANGED <<service, wallet, answer, serial, bounds>>
  PROVE  IInv'
<1>1. Renewed
  BY BlankIs DEF Renewed, service, bounds
<1> QED
  BY <1>1, RenewStep

LEMMA StopStep ==
  ASSUME IInv, Stop
  PROVE  IInv'
<1>1. faults' = faults + 1 /\ faults' # 0
  BY DEF Stop, IInv, Typed
<1>2. Renewed
  BY <1>1, BlankIs DEF Stop, Renewed, service
<1> QED
  BY <1>2, RenewStep

LEMMA BeginStep ==
  ASSUME IInv, NEW flags \in operator.runs \cup {{}}, Begin(flags)
  PROVE  IInv'
<1>1. flags \in SUBSET Options
  BY DEF IInv, Typed, Operator
<1>2. run' = [Blank EXCEPT !.flags = flags, !.next = "lender"]
  BY DEF Begin
<1>3. run' \in RunType /\ run'.own = 0 /\ run'.view = None /\ run'.who = "lender" /\ run'.next = "lender"
  BY <1>1, <1>2 DEF Blank, RunType, BeforeType, Accounts, Places
<1>4. Renewed
  BY <1>3 DEF Renewed, Begin, service
<1> QED
  BY <1>4, RenewStep

LEMMA LentStep ==
  ASSUME IInv, Lent
  PROVE  IInv'
<1>1. CASE operator.borrower
  <2>1. PICK f \in SUBSET Options : f = run.flags
    BY DEF IInv, Typed, RunType
  <2>2. run' = [Blank EXCEPT !.flags = f, !.who = "borrower", !.next = "borrower"] /\ pc' = "account"
    BY <1>1, <2>1 DEF Lent
  <2>3. /\ run' \in RunType /\ run'.own = 0 /\ run'.view = None
        /\ run'.who = "borrower" /\ run'.next = "borrower"
    BY <2>2 DEF Blank, RunType, BeforeType, Accounts, Places
  <2>4. Renewed
    BY <2>2, <2>3 DEF Renewed, Lent, service, bounds
  <2> QED
    BY <2>4, RenewStep
<1>2. CASE ~operator.borrower
  BY <1>2, EndStep DEF Lent
<1> QED
  BY <1>1, <1>2

\* The answer to a command, and the account after it.
LEMMA AnsweredStep ==
  ASSUME IInv, Answered
  PROVE  IInv'
<1>1. /\ pc = "wait" /\ answer = "confirmed" /\ pc' = "view"
      /\ UNCHANGED <<acct, mandates, inflight, unsettled, wallet, run, answer, serial, operator, faults>>
  BY DEF Answered, GoTo, service, bounds
<1>2. /\ Unopened' /\ OneActive' /\ LiveSets' /\ LiveBorrows'
      /\ ActiveOf("lender")' = ActiveOf("lender") /\ \A o : Sensible(o) => Sensible(o)'
  BY <1>1, NothingLost
<1>3. Typed'
  BY <1>1 DEF IInv, Typed, Places
<1>4. Commands'
  BY <1>1, <1>2 DEF IInv, Commands
<1>5. Stage' = Stage /\ Waiting
  BY <1>1 DEF Stage, Between, Waiting
<1>6. Roles'
  BY <1>1, <1>5 DEF IInv, Roles, Between
<1>7. ViewTrue'
  BY <1>1, <1>2 DEF IInv, ViewTrue
<1>8. /\ NoLive("SET")' = NoLive("SET") /\ NoLive("BORROW")' = NoLive("BORROW")
      /\ OwnArgs' = OwnArgs
  BY <1>1 DEF NoLive, OwnArgs
<1>9. LendersSide'
  BY <1>1, <1>2, <1>5, <1>8 DEF IInv, LendersSide
<1>10. BorrowersSide'
  BY <1>1, <1>5, <1>8 DEF IInv, BorrowersSide
<1>11. Uninterrupted'
  BY <1>1 DEF IInv, Uninterrupted, Between
<1> QED
  BY <1>2, <1>3, <1>4, <1>6, <1>7, <1>9, <1>10, <1>11 DEF IInv

\* An account's view is one, and no command of a later nonce is in flight.
LEMMA ViewIs ==
  ASSUME IInv, NEW a \in Accounts, NEW v, v = View(a)
  PROVE  /\ v \in Views /\ v # None
         /\ v.nonce = acct[a].nonce /\ v.usdt0 = acct[a].usdt0
         /\ v.loan = (acct[a].loan # None) /\ v.active = ActiveOf(a)
<1>1. acct[a] \in AccountType /\ ActiveOf(a) \subseteq Nat
  BY DEF IInv, Typed, ActiveOf
<1>2. v = [nonce |-> acct[a].nonce, usdt0 |-> acct[a].usdt0, fxrp |-> acct[a].fxrp,
           loan |-> acct[a].loan # None, active |-> ActiveOf(a)]
  BY DEF View
<1>3. v \in Views
  BY <1>1, <1>2 DEF Views, AccountType
<1> QED
  BY <1>2, <1>3, ConstantsAssumption

LEMMA ReadViewStep ==
  ASSUME IInv, ReadView
  PROVE  IInv'
<1>1. /\ pc \in {"account", "view"} /\ pc' = run.next
      /\ UNCHANGED <<acct, mandates, inflight, unsettled, wallet, answer, serial, operator, faults>>
  BY DEF ReadView, service, bounds
<1>2. PICK who \in Accounts : who = run.who
  BY DEF IInv, Typed, RunType
<1>3. PICK v : v = View(who)
  OBVIOUS
<1>4. /\ v \in Views /\ v # None
      /\ v.nonce = acct[who].nonce /\ v.usdt0 = acct[who].usdt0
      /\ v.loan = (acct[who].loan # None) /\ v.active = ActiveOf(who)
  BY <1>3, ViewIs
<1>5. run' = [run EXCEPT !.view = v]
  BY <1>2, <1>3 DEF ReadView
<1>6. /\ run' \in RunType /\ run'.view = v /\ run'.who = who /\ run'.own = run.own
      /\ run'.next = run.next /\ run'.todo = run.todo
  BY <1>2, <1>4, <1>5 DEF IInv, Typed, RunType
<1>7. /\ Unopened' /\ OneActive' /\ LiveSets' /\ LiveBorrows'
      /\ ActiveOf("lender")' = ActiveOf("lender") /\ \A o : Sensible(o) => Sensible(o)'
  BY <1>1, NothingLost
<1>8. pc' \in LenderPlaces \cup BorrowerPlaces /\ Stage = pc' /\ Stage' = pc'
  BY <1>1 DEF IInv, Roles, Stage, Between, LenderPlaces, BorrowerPlaces
<1>9. Typed'
  BY <1>1, <1>6, <1>8 DEF IInv, Typed, Places, LenderPlaces, BorrowerPlaces
<1>10. \A o \in inflight : o.id # run.own /\ (unsettled # None => unsettled.id # run.own)
  BY <1>1 DEF IInv, Commands
<1>11. Commands'
  BY <1>1, <1>6, <1>7, <1>10 DEF IInv, Commands
<1>12. Roles'
  BY <1>1, <1>2, <1>4, <1>6, <1>8 DEF IInv, Roles, Between, LenderPlaces, BorrowerPlaces
<1>13. ViewTrue'
  <2>1. acct[who].nonce \in Nat /\ acct[who].usdt0 \in Nat
    BY DEF IInv, Typed, AccountType
  <2> QED
    BY <1>1, <1>4, <1>6, <1>7, <2>1 DEF ViewTrue
<1>14. who = "lender" => (v.active # {} \/ v.usdt0 = 0 => NoLive("SET")')
  <2> SUFFICES ASSUME who = "lender", v.active # {} \/ v.usdt0 = 0,
                      NEW o \in inflight, o.kind = "SET"
               PROVE  o.nonce < v.nonce
    BY <1>1, <1>6 DEF NoLive
  <2>1. o.nonce \in Nat /\ o.nonce <= acct["lender"].nonce /\ o.arg \in Nat \ {0}
    BY DEF IInv, Commands, Sensible, WellFormed
  <2>2. o.nonce # acct["lender"].nonce
    BY <1>4, <2>1 DEF IInv, LiveSets
  <2>3. acct["lender"].nonce \in Nat
    BY DEF IInv, Typed, AccountType, Accounts
  <2> QED
    BY <1>4, <2>1, <2>2, <2>3
<1>15. who = "borrower" /\ v.loan => NoLive("BORROW")'
  <2> SUFFICES ASSUME who = "borrower", v.loan, NEW o \in inflight, o.kind = "BORROW"
               PROVE  o.nonce < v.nonce
    BY <1>1, <1>6 DEF NoLive
  <2>1. o.nonce \in Nat /\ o.nonce <= acct["borrower"].nonce
    BY DEF IInv, Commands, Sensible, WellFormed
  <2>2. o.nonce # acct["borrower"].nonce
    BY <1>4 DEF IInv, LiveBorrows
  <2>3. acct["borrower"].nonce \in Nat
    BY DEF IInv, Typed, AccountType, Accounts
  <2> QED
    BY <1>4, <2>1, <2>2, <2>3
<1>16. ASSUME NEW k, NoLive(k), run.view \in Views PROVE NoLive(k)'
  <2>1. run.view.nonce <= v.nonce /\ run.view.nonce \in Nat /\ v.nonce \in Nat
    BY <1>2, <1>4, <1>16, ConstantsAssumption DEF IInv, ViewTrue, Views
  <2>2. \A o \in inflight : o.nonce \in Nat
    BY DEF IInv, Commands, Sensible
  <2> QED
    BY <1>1, <1>6, <1>16, <2>1, <2>2 DEF NoLive
<1>17. LendersSide'
  <2>1. ~Waiting'
    BY <1>8 DEF Waiting, LenderPlaces, BorrowerPlaces
  <2>2. OwnArgs = {}
    BY <1>10 DEF OwnArgs
  <2>3. pc' \in {"lender", "cancel", "fund", "lend"} => who = "lender"
    BY <1>2, <1>8 DEF IInv, Roles, LenderPlaces
  <2>4. pc' \in {"cancel", "lend"} => pc = "view" /\ run.view \in Views
    BY <1>1, <1>8, ConstantsAssumption DEF IInv, Roles
  <2>5. pc' = "cancel" => NoLive("SET") /\ ActiveOf("lender") \subseteq run.todo
    BY <1>1, <2>2, <2>4 DEF IInv, LendersSide, Waiting
  <2>6. pc' = "lend" => NoLive("SET") /\ ActiveOf("lender") = {}
    BY <1>1, <2>4 DEF IInv, LendersSide, Waiting
  <2>7. pc' # "fund"
    BY <1>1, <1>8 DEF IInv, Roles, Between
  <2> QED
    BY <1>4, <1>6, <1>7, <1>14, <1>16, <2>1, <2>3, <2>4, <2>5, <2>6, <2>7 DEF LendersSide
<1>18. BorrowersSide'
  <2>1. pc' \in BorrowerPlaces => who = "borrower"
    BY <1>2, <1>8 DEF IInv, Roles
  <2>2. pc' \in {"clear", "repay", "closed", "withdrawn"} => NoLive("BORROW") /\ run.view \in Views
    BY <1>8, ConstantsAssumption DEF IInv, BorrowersSide, Roles
  <2>3. pc' = "withdrawn" => acct["borrower"].loan = None
    BY <1>8 DEF IInv, BorrowersSide
  <2>4. pc' # "accept"
    BY <1>1, <1>8 DEF IInv, Roles, Between
  <2> QED
    BY <1>1, <1>4, <1>6, <1>8, <1>15, <1>16, <2>1, <2>2, <2>3, <2>4 DEF BorrowersSide, BorrowerPlaces
<1>19. Uninterrupted'
  BY <1>1, <1>4, <1>6 DEF IInv, Uninterrupted
<1> QED
  BY <1>7, <1>9, <1>11, <1>12, <1>13, <1>17, <1>18, <1>19 DEF IInv

\* A decision that leaves what the run holds as it is.
LEMMA GoToStep ==
  ASSUME IInv, NEW p, GoTo(p), pc \in LenderPlaces \cup BorrowerPlaces,
         \/ p = "lent" /\ pc \in LenderPlaces
         \/ p \in {"fund", "lend"} /\ pc \in {"cancel", "fund"} /\ run.view.active = {}
         \/ p = "loan" /\ pc = "borrower"
         \/ p = "quote" /\ pc \in BorrowerPlaces
         \/ p = "repay" /\ pc = "clear"
  PROVE  IInv'
<1>1. pc' = p /\ UNCHANGED <<acct, mandates, inflight, unsettled, wallet, run, answer, serial,
                             operator, faults>>
  BY DEF GoTo, service, bounds
<1>2. Moved
  BY <1>1 DEF Moved, IInv, Typed
<1>3. pc = "clear" => NoLive("BORROW")
  BY DEF IInv, BorrowersSide, Stage, Between
<1>4. pc = "borrower" /\ run.view.loan => NoLive("BORROW")
  BY DEF IInv, BorrowersSide
<1>5. MayGo
  BY <1>1, <1>3, <1>4 DEF MayGo, LenderPlaces, BorrowerPlaces
<1> QED
  BY <1>2, <1>5, MoveStep

\* A run ends, with an error or with what it set out to do.
LEMMA ThrowStep ==
  ASSUME IInv, Throw \/ Done, pc # "wait" \/ answer = "failed"
  PROVE  IInv'
BY EndStep DEF Throw, Done

LEMMA StartLenderStep ==
  ASSUME IInv, StartLender
  PROVE  IInv'
<1>1. pc = "lender" /\ run.view \in Views
  BY AtLender DEF StartLender, LenderPlaces
<1>2. CASE run.view.active # {} /\ "reset" \notin run.flags
  <2>1. GoTo("lent")
    BY <1>2 DEF StartLender, GoTo
  <2> QED
    BY <1>1, <2>1, GoToStep DEF LenderPlaces
<1>3. CASE ~(run.view.active # {} /\ "reset" \notin run.flags)
  <2>1. PICK t \in SUBSET Nat : t = run.view.active
    BY <1>1 DEF Views
  <2>2. run' = [run EXCEPT !.todo = t] /\ pc' = "cancel"
    BY <1>3, <2>1 DEF StartLender
  <2>3. /\ run = RunWith(run.todo, run.next, run.own, run.before, run.quote)
        /\ run.own \in Nat /\ run.before \in BeforeType
        /\ run.next \in Places /\ run.quote \in QuoteType \cup {None}
    BY RunFields DEF IInv
  <2>4. run' = RunWith(t, run.next, run.own, run.before, run.quote)
    BY <2>2, <2>3 DEF RunWith
  <2>5. /\ run' \in RunType /\ run'.who = run.who /\ run'.view = run.view
        /\ run'.own = run.own /\ run'.todo = t
    BY <2>3, <2>4, RunWithIs DEF IInv
  <2>6. UNCHANGED <<acct, mandates, inflight, unsettled, wallet, answer, serial, operator, faults>>
    BY DEF StartLender, service, bounds
  <2>7. Moved
    BY <1>1, <2>5, <2>6 DEF Moved, LenderPlaces
  <2>8. t # {} => NoLive("SET") /\ ActiveOf("lender") \subseteq t
    BY <1>1, <2>1 DEF IInv, LendersSide
  <2>9. MayGo
    BY <1>1, <2>1, <2>2, <2>5, <2>8 DEF MayGo, LenderPlaces
  <2> QED
    BY <2>7, <2>9, MoveStep
<1> QED
  BY <1>2, <1>3

LEMMA CancelLenderMandatesStep ==
  ASSUME IInv, CancelLenderMandates
  PROVE  IInv'
<1>1. CancelNext("cancel", "fund") /\ pc = "cancel"
  BY DEF CancelLenderMandates, CancelNext
<1>2. CASE run.todo = {}
  <2>1. run.view.active = {}
    BY <1>1, <1>2 DEF IInv, LendersSide
  <2>2. GoTo("fund")
    BY <1>1, <1>2 DEF CancelNext
  <2> QED
    BY <1>1, <2>1, <2>2, GoToStep DEF LenderPlaces
<1> QED
  BY <1>1, <1>2, CancelStep

LEMMA CancelBorrowerMandatesStep ==
  ASSUME IInv, CancelBorrowerMandates
  PROVE  IInv'
<1>1. CancelNext("clear", "repay") /\ pc = "clear"
  BY DEF CancelBorrowerMandates, CancelNext
<1>2. CASE run.todo = {}
  <2>1. GoTo("repay")
    BY <1>1, <1>2 DEF CancelNext
  <2> QED
    BY <1>1, <2>1, GoToStep DEF BorrowerPlaces
<1> QED
  BY <1>1, <1>2, CancelStep

LEMMA FundStep ==
  ASSUME IInv, Fund
  PROVE  IInv'
<1>1. pc = "fund" /\ run.view \in Views
  BY AtLender DEF Fund, LenderPlaces
<1>2. CASE run.view.usdt0 > 0
  <2>1. GoTo("lend")
    BY <1>2 DEF Fund
  <2>2. run.view.active = {}
    BY <1>1 DEF IInv, LendersSide
  <2> QED
    BY <1>1, <2>1, <2>2, GoToStep DEF LenderPlaces
<1>3. CASE ~(run.view.usdt0 > 0)
  <2>1. PICK amount : amount = Min({DepositSize, wallet.lender.usdt0})
    OBVIOUS
  <2>2. Throw \/ Deposit("usdt0", amount, "lend")
    BY <1>3, <2>1 DEF Fund
  <2>3. run.view.usdt0 = 0
    BY <1>1, <1>3 DEF Views
  <2> QED
    BY <1>1, <2>1, <2>2, <2>3, ThrowStep, FundSends
<1> QED
  BY <1>2, <1>3

LEMMA LendStep ==
  ASSUME IInv, Lend
  PROVE  IInv'
<1>1. pc = "lend"
  BY DEF Lend
<1>2. CASE run.view.usdt0 = 0
  BY <1>1, <1>2, ThrowStep DEF Lend
<1>3. CASE run.view.usdt0 # 0
  BY <1>1, <1>3, LendSends DEF Lend
<1> QED
  BY <1>2, <1>3

LEMMA MandateSetStep ==
  ASSUME IInv, MandateSet
  PROVE  IInv'
<1>1. pc = "set" /\ (GoTo("lent") \/ Throw)
  BY DEF MandateSet
<1> QED
  BY <1>1, ThrowStep, GoToStep DEF LenderPlaces

LEMMA DepositCollateralStep ==
  ASSUME IInv, DepositCollateral
  PROVE  IInv'
<1>1. /\ pc = "borrower"
      /\ GoTo("loan") \/ Throw \/ Deposit("fxrp", wallet.borrower.fxrp, "loan")
  BY DEF DepositCollateral
<1> QED
  BY <1>1, ThrowStep, GoToStep, CollateralSends DEF BorrowerPlaces

LEMMA CloseOrQuoteStep ==
  ASSUME IInv, CloseOrQuote
  PROVE  IInv'
<1>1. pc = "loan" /\ run.view \in Views
  BY AtBorrower DEF CloseOrQuote, BorrowerPlaces
<1>2. CASE "close" \in run.flags /\ run.view.loan
  <2>1. PICK t \in SUBSET Nat : t = run.view.active
    BY <1>1 DEF Views
  <2>2. run' = [run EXCEPT !.todo = t] /\ pc' = "clear"
    BY <1>2, <2>1 DEF CloseOrQuote
  <2>3. /\ run = RunWith(run.todo, run.next, run.own, run.before, run.quote)
        /\ run.own \in Nat /\ run.before \in BeforeType
        /\ run.next \in Places /\ run.quote \in QuoteType \cup {None}
    BY RunFields DEF IInv
  <2>4. run' = RunWith(t, run.next, run.own, run.before, run.quote)
    BY <2>2, <2>3 DEF RunWith
  <2>5. run' \in RunType /\ run'.who = run.who /\ run'.view = run.view /\ run'.own = run.own
    BY <2>3, <2>4, RunWithIs DEF IInv
  <2>6. UNCHANGED <<acct, mandates, inflight, unsettled, wallet, answer, serial, operator, faults>>
    BY DEF CloseOrQuote, service, bounds
  <2>7. Moved
    BY <1>1, <2>5, <2>6 DEF Moved, BorrowerPlaces
  <2>8. NoLive("BORROW")
    BY <1>1, <1>2 DEF IInv, BorrowersSide
  <2>9. MayGo
    BY <1>1, <2>2, <2>8 DEF MayGo, BorrowerPlaces
  <2> QED
    BY <2>7, <2>9, MoveStep
<1>3. CASE ~("close" \in run.flags /\ run.view.loan)
  <2>1. GoTo("quote")
    BY <1>3 DEF CloseOrQuote, GoTo
  <2> QED
    BY <1>1, <2>1, GoToStep DEF BorrowerPlaces
<1> QED
  BY <1>2, <1>3

LEMMA ApplyRepaymentStep ==
  ASSUME IInv, ApplyRepayment
  PROVE  IInv'
<1>1. pc = "repay"
  BY DEF ApplyRepayment
<1>2. CASE run.view.usdt0 = 0
  BY <1>1, <1>2, ThrowStep DEF ApplyRepayment
<1>3. CASE run.view.usdt0 # 0
  BY <1>1, <1>3, RepaymentSends DEF ApplyRepayment
<1> QED
  BY <1>2, <1>3

LEMMA RequestWithdrawalStep ==
  ASSUME IInv, RequestWithdrawal
  PROVE  IInv'
<1>1. pc = "closed"
  BY DEF RequestWithdrawal
<1>2. CASE run.view.loan \/ Min({WithdrawSize, run.view.fxrp}) = 0
  BY <1>1, <1>2, ThrowStep DEF RequestWithdrawal
<1>3. CASE ~(run.view.loan \/ Min({WithdrawSize, run.view.fxrp}) = 0)
  <2>1. pc' = "wait"
    BY <1>3 DEF RequestWithdrawal, Send
  <2> QED
    BY <2>1, WithdrawalSends
<1> QED
  BY <1>2, <1>3

LEMMA VerifyQuoteStep ==
  ASSUME IInv, VerifyQuote
  PROVE  IInv'
<1>1. pc = "quote" /\ run.view \in Views
  BY AtBorrower DEF VerifyQuote, BorrowerPlaces
<1>2. PICK amount : amount = Min({BorrowSize, run.view.fxrp})
  OBVIOUS
<1>3. PICK q : q = QuoteOf(amount, run.view.fxrp)
  OBVIOUS
<1>4. \/ Throw \/ Done
      \/ /\ pc' = "accept" /\ run' = [run EXCEPT !.quote = q]
         /\ run.view.fxrp # 0 /\ ~run.view.loan
         /\ UNCHANGED <<service, wallet, answer, serial, bounds>>
  BY <1>2, <1>3 DEF VerifyQuote
<1>5. CASE Throw \/ Done
  BY <1>1, <1>5, ThrowStep
<1>6. CASE /\ pc' = "accept" /\ run' = [run EXCEPT !.quote = q]
           /\ run.view.fxrp # 0 /\ ~run.view.loan
           /\ UNCHANGED <<service, wallet, answer, serial, bounds>>
  <2>1. run.view.fxrp \in Nat \ {0}
    BY <1>1, <1>6 DEF Views
  <2>2. amount \in Nat \ {0}
    BY <1>2, <2>1, Smaller, ConstantsAssumption
  <2>3. q \in QuoteType
    BY <1>3, <2>1, <2>2, QuoteTyped DEF IInv
  <2>4. /\ run = RunWith(run.todo, run.next, run.own, run.before, run.quote)
        /\ run.todo \in SUBSET Nat /\ run.own \in Nat /\ run.before \in BeforeType
        /\ run.next \in Places
    BY RunFields DEF IInv
  <2>5. run' = RunWith(run.todo, run.next, run.own, run.before, q)
    BY <1>6, <2>4 DEF RunWith
  <2>6. /\ run' \in RunType /\ run'.who = run.who /\ run'.view = run.view /\ run'.own = run.own
        /\ run'.quote = q
    BY <2>3, <2>4, <2>5, RunWithIs DEF IInv
  <2>7. Moved
    BY <1>1, <1>6, <2>6 DEF Moved, service, bounds, BorrowerPlaces
  <2>8. MayGo
    BY <1>1, <1>6, <2>3, <2>6 DEF MayGo, BorrowerPlaces
  <2> QED
    BY <2>7, <2>8, MoveStep
<1> QED
  BY <1>4, <1>5, <1>6

\* A step of the script, whichever it takes.
LEMMA ScriptStep ==
  ASSUME IInv, Script
  PROVE  IInv'
<1>1. CASE Answered \/ ReadView \/ CreateAccount \/ Lent \/ RequestBorrow
  BY <1>1, AnsweredStep, ReadViewStep, CreateAccountStep, LentStep, RequestBorrowStep
<1>2. CASE JobFailed
  BY <1>2, ThrowStep DEF JobFailed
<1>3. CASE Withdrawn
  BY <1>3, ThrowStep DEF Withdrawn
<1>4. CASE Borrowed
  BY <1>4, ThrowStep DEF Borrowed
<1>5. CASE StartLender \/ CancelLenderMandates \/ Fund \/ Lend \/ MandateSet
  BY <1>5, StartLenderStep, CancelLenderMandatesStep, FundStep, LendStep, MandateSetStep
<1>6. CASE DepositCollateral \/ CloseOrQuote \/ CancelBorrowerMandates \/ ApplyRepayment
  BY <1>6, DepositCollateralStep, CloseOrQuoteStep, CancelBorrowerMandatesStep, ApplyRepaymentStep
<1>7. CASE RequestWithdrawal \/ VerifyQuote
  BY <1>7, RequestWithdrawalStep, VerifyQuoteStep
<1> QED
  BY <1>1, <1>2, <1>3, <1>4, <1>5, <1>6, <1>7 DEF Script

-----------------------------------------------------------------------------
(***************************************************************************)
(* The theorems                                                            *)
(***************************************************************************)
LEMMA InitStep == Init => IInv
<1> SUFFICES ASSUME Init PROVE IInv
  OBVIOUS
<1>1. operator \in Operator /\ operator.mandates \in Nat /\ operator.wallet \in [Accounts -> Money]
  BY ConstantsAssumption DEF Init, Operator, Money
<1>2. ActiveOf("lender") = {}
  BY DEF Init, ActiveOf
<1>3. Typed
  <2>1. acct \in [Accounts -> AccountType]
    <3>1. \A a \in Accounts :
            [open |-> a = "borrower" /\ operator.mandates > 0, nonce |-> 0,
             usdt0 |-> 0, fxrp |-> 0, loan |-> None] \in AccountType
      BY DEF AccountType
    <3> QED
      BY <3>1 DEF Init
  <2>2. DOMAIN mandates \subseteq 1..serial /\ mandates \in [DOMAIN mandates -> MandateType]
    BY DEF Init, MandateType, Accounts
  <2>3. run \in RunType /\ run.own = 0
    BY BlankIs DEF Init
  <2> QED
    BY <1>1, <2>1, <2>2, <2>3 DEF Typed, Init, Places
<1>4. Commands /\ Unopened /\ ViewTrue /\ LiveSets /\ LiveBorrows
  BY BlankIs DEF Init, Commands, Unopened, ViewTrue, LiveSets, LiveBorrows
<1>5. Roles
  BY DEF Init, Roles, Stage, Between, LenderPlaces, BorrowerPlaces
<1>6. OneActive
  BY <1>2 DEF OneActive
<1>7. LendersSide /\ BorrowersSide /\ Uninterrupted
  BY DEF Init, LendersSide, BorrowersSide, Uninterrupted, Waiting, Stage, Between
<1> QED
  BY <1>3, <1>4, <1>5, <1>6, <1>7 DEF IInv

LEMMA NextStep == IInv /\ [Next]_vars => IInv'
<1> SUFFICES ASSUME IInv, [Next]_vars PROVE IInv'
  OBVIOUS
<1>1. CASE Script
  BY <1>1, ScriptStep
<1>2. ASSUME NEW flags \in operator.runs \cup {{}}, Begin(flags) PROVE IInv'
  BY <1>2, BeginStep
<1>3. CASE Stop
  BY <1>3, StopStep
<1>4. ASSUME NEW o \in inflight, Commit(o) \/ Refuse(o) \/ Lose(o) PROVE IInv'
  BY <1>4, CommitStep, RefuseStep
<1>5. CASE Settle
  BY <1>5, SettleStep
<1>6. CASE DepositByHand
  BY <1>6, DepositByHandStep
<1>7. CASE UNCHANGED vars
  <2>1. /\ UNCHANGED <<acct, mandates, wallet, inflight, unsettled, pc, run, answer, serial,
                       operator, faults>>
    BY <1>7 DEF vars
  <2>2. /\ Unopened' /\ OneActive' /\ LiveSets' /\ LiveBorrows'
        /\ ActiveOf("lender")' = ActiveOf("lender") /\ \A o : Sensible(o) => Sensible(o)'
    BY <2>1, NothingLost
  <2>3. Typed' /\ Roles'
    BY <2>1 DEF IInv, Typed, Roles, Stage
  <2>4. Commands' /\ ViewTrue'
    BY <2>1, <2>2 DEF IInv, Commands, ViewTrue
  <2>5. /\ NoLive("SET")' = NoLive("SET") /\ NoLive("BORROW")' = NoLive("BORROW")
        /\ OwnArgs' = OwnArgs /\ Waiting' = Waiting /\ Stage' = Stage
    BY <2>1 DEF NoLive, OwnArgs, Waiting, Stage
  <2>6. LendersSide' /\ BorrowersSide'
    <3>1. LendersSide'
      BY <2>1, <2>2, <2>5 DEF IInv, LendersSide
    <3>2. BorrowersSide'
      BY <2>1, <2>5 DEF IInv, BorrowersSide
    <3> QED
      BY <3>1, <3>2
  <2>7. Uninterrupted'
    BY <2>1 DEF IInv, Uninterrupted
  <2> QED
    BY <2>2, <2>3, <2>4, <2>6, <2>7 DEF IInv
<1> QED
  BY <1>1, <1>2, <1>3, <1>4, <1>5, <1>6, <1>7 DEF Next

\* What the argument keeps: the inductive invariant holds in every reachable state.
THEOREM Invariance == Spec => []IInv
BY InitStep, NextStep, PTL DEF Spec

\* What the runs of seed-lender.mjs send by sendDirect and deposit fits together in
\* whatever order the relayer brings it to the enclave, and however often the script is
\* stopped or gives up a wait: balances, mandates and wallets stay in range, the lender
\* has one active mandate at most, and until an interruption the nonces are right.
THEOREM CommandsAreSafe == Spec => []CommandsInvariant
<1> SUFFICES ASSUME IInv PROVE CommandsInvariant
  BY Invariance, PTL
<1>1. TypeOK
  <2>1. \A a \in Accounts : /\ acct[a].nonce \in Nat /\ acct[a].usdt0 \in Nat /\ acct[a].fxrp \in Nat
                            /\ wallet[a].usdt0 \in Nat /\ wallet[a].fxrp \in Nat
    BY DEF IInv, Typed, AccountType, Money
  <2>2. \A m \in DOMAIN mandates : mandates[m].left \in Nat
    BY DEF IInv, Typed, MandateType
  <2>3. \A o \in inflight : o.id \in 1..serial
    BY DEF IInv, Commands, Sensible
  <2>4. pc \in Places /\ run.next \in Places /\ run.own \in 0..serial
    BY DEF IInv, Typed, RunType
  <2>5. pc \notin {"idle", "done", "account", "wait", "view"} => run.view # None
    BY ConstantsAssumption DEF IInv, Roles, Between
  <2> QED
    BY <2>1, <2>2, <2>3, <2>4, <2>5 DEF TypeOK, IInv, Typed
<1>2. OneMandate
  <2>1. CASE ActiveOf("lender") = {}
    BY <2>1, FS_EmptySet DEF OneMandate
  <2>2. CASE ActiveOf("lender") # {}
    <3>1. PICK m : m \in ActiveOf("lender")
      BY <2>2
    <3>2. ActiveOf("lender") = {m}
      BY <3>1 DEF IInv, OneActive
    <3>3. Cardinality({m}) = 1
      BY FS_Singleton
    <3>4. Cardinality(ActiveOf("lender")) = 1
      BY <3>2, <3>3
    <3> QED
      BY <3>4 DEF OneMandate
  <2> QED
    BY <2>1, <2>2
<1>3. NoncesAgree
  BY DEF IInv, Uninterrupted, NoncesAgree
<1> QED
  BY <1>1, <1>2, <1>3 DEF CommandsInvariant

\* When a run of seed-lender.mjs with --close ends, having reported the collateral as
\* withdrawn, no borrow request of an earlier run has opened a loan behind its back: the
\* nonce the run has seen is past every one that is still in flight.
THEOREM CloseIsReportedTruly == Spec => CloseReported
<1>1. ASSUME IInv, pc = "withdrawn" PROVE acct.borrower.loan = None
  BY <1>1 DEF IInv, BorrowersSide, Stage, Between
<1>2. IInv => [pc = "withdrawn" /\ pc' = "done" => acct.borrower.loan = None]_vars
  BY <1>1
<1> QED
  BY <1>2, Invariance, PTL DEF CloseReported
=============================================================================

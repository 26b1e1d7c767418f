--------------------------- MODULE AccountsProofs ---------------------------
(* What the promise of Accounts is worth to a user, whatever the prices,   *)
(* quantities and numbers of users, orders and sessions are.  Accounts has *)
(* no assumptions, and none are needed.                                    *)
EXTENDS Accounts, TLAPS

AccountsInv == TypeOK /\ Kept

Bills == [user : Users \cup {None}, template : Templates \cup {None}, quantity : Quantities \cup {0}]

LEMMA MoveKeeps ==
  ASSUME AccountsInv, NEW u \in Users, NEW delta, Move(u, delta)
  PROVE  /\ balance' \in [Users -> Int] /\ ledger' \in [Users -> Int]
         /\ \A v \in Users \ {u} : balance'[v] = balance[v] /\ ledger'[v] = ledger[v]
         /\ u \notin contested => balance'[u] = ledger'[u]
<1>1. ledger'[u] = ledger[u] + delta /\ \A v \in Users \ {u} : ledger'[v] = ledger[v]
  BY DEF Move, AccountsInv, TypeOK
<1> QED BY <1>1 DEF Move, AccountsInv, Kept

LEMMA DepositKeeps ==
  ASSUME AccountsInv, NEW u \in Users, Deposit(u), UNCHANGED <<bill, contested>>,
         paid' = paid, metered' = metered, settled' \subseteq Sessions
  PROVE  AccountsInv'
<1> DEFINE n == ledger'[u] - ledger[u]
<1>1. n >= 0 /\ Move(u, n) BY DEF Deposit
<1>2. /\ balance' \in [Users -> Int] /\ ledger' \in [Users -> Int]
      /\ \A v \in Users \ {u} : balance'[v] = balance[v] /\ ledger'[v] = ledger[v]
      /\ u \notin contested => balance'[u] = ledger'[u]
  BY <1>1, MoveKeeps
<1>3. u \notin contested => balance[u] = ledger[u] /\ balance'[u] >= balance[u]
  BY <1>1, <1>2 DEF AccountsInv, Kept, TypeOK
<1>4. TypeOK' BY <1>2 DEF AccountsInv, TypeOK
<1>5. ASSUME NEW v \in Users \ contested PROVE balance'[v] = ledger'[v] /\ (balance'[v] < 0 => v \in metered)
  BY <1>2, <1>3 DEF AccountsInv, Kept, TypeOK
<1>6. Kept' BY <1>5 DEF AccountsInv, Kept, NoBill
<1> QED BY <1>4, <1>6 DEF AccountsInv

LEMMA PurchaseKeeps ==
  ASSUME AccountsInv, NEW o \in Orders, NEW u \in Users, Purchase(o, u),
         paid' = paid \cup {o}, UNCHANGED <<bill, settled, metered, contested>>
  PROVE  AccountsInv'
<1>1. bill[o] # NoBill /\ Move(u, - Cost(o)) /\ (u \notin contested => balance'[u] >= 0)
  BY DEF Purchase, Charge
<1>2. /\ balance' \in [Users -> Int] /\ ledger' \in [Users -> Int]
      /\ \A v \in Users \ {u} : balance'[v] = balance[v] /\ ledger'[v] = ledger[v]
      /\ u \notin contested => balance'[u] = ledger'[u]
  BY <1>1, MoveKeeps
<1>3. TypeOK' BY <1>2 DEF AccountsInv, TypeOK
<1>4. ASSUME NEW v \in Users \ contested PROVE balance'[v] = ledger'[v] /\ (balance'[v] < 0 => v \in metered)
  BY <1>1, <1>2 DEF AccountsInv, Kept, TypeOK
<1>5. Kept' BY <1>1, <1>4 DEF AccountsInv, Kept, NoBill
<1> QED BY <1>3, <1>5 DEF AccountsInv

LEMMA UseKeeps ==
  ASSUME AccountsInv, NEW o \in Orders, NEW u \in Users, Use(o, u)
  PROVE  AccountsInv'
<1>1. Move(u, - Price[bill[o].template]) /\ metered' = metered \cup {u} BY DEF Use, Charge
<1>2. /\ balance' \in [Users -> Int] /\ ledger' \in [Users -> Int]
      /\ \A v \in Users \ {u} : balance'[v] = balance[v] /\ ledger'[v] = ledger[v]
      /\ u \notin contested => balance'[u] = ledger'[u]
  BY <1>1, MoveKeeps
<1>3. TypeOK' BY <1>2 DEF AccountsInv, TypeOK, Use
<1>4. ASSUME NEW v \in Users \ contested PROVE balance'[v] = ledger'[v] /\ (balance'[v] < 0 => v \in metered')
  BY <1>1, <1>2 DEF AccountsInv, Kept, TypeOK
<1>5. Kept' BY <1>4 DEF AccountsInv, Kept, NoBill, Use
<1> QED BY <1>3, <1>5 DEF AccountsInv

LEMMA PlaceKeeps ==
  ASSUME AccountsInv, NEW o \in Orders, NEW u \in Users, NEW t \in Templates, NEW q \in Quantities,
         Place(o, u, t, q)
  PROVE  AccountsInv'
<1> DEFINE b == [user |-> u, template |-> t, quantity |-> q]
<1>1. b \in Bills BY DEF Bills
<1>2. bill \in [Orders -> Bills] BY DEF AccountsInv, TypeOK, Bills
<1>3. bill[o] = NoBill /\ bill' = [bill EXCEPT ![o] = b] BY DEF Place
<1> HIDE DEF b
<1>4. bill' \in [Orders -> Bills] BY <1>1, <1>2, <1>3
<1>5. o \notin paid BY <1>3 DEF AccountsInv, Kept
<1>6. \A x \in paid : bill'[x] = bill[x] BY <1>2, <1>3, <1>5 DEF AccountsInv, TypeOK
<1>7. TypeOK' BY <1>4 DEF Place, AccountsInv, TypeOK, Bills
<1>8. Kept' BY <1>6 DEF Place, AccountsInv, Kept, NoBill
<1> QED BY <1>7, <1>8 DEF AccountsInv

LEMMA InitHolds == Init => AccountsInv
<1> SUFFICES ASSUME Init PROVE AccountsInv OBVIOUS
<1>1. NoBill \in Bills BY DEF NoBill, Bills
<1>2. bill \in [Orders -> Bills] BY <1>1 DEF Init
<1>3. TypeOK BY <1>2 DEF Init, TypeOK, Bills
<1>4. Kept BY DEF Init, Kept
<1> QED BY <1>3, <1>4 DEF AccountsInv

LEMMA StepHolds == AccountsInv /\ [Next]_vars => AccountsInv'
<1> SUFFICES ASSUME AccountsInv, [Next]_vars PROVE AccountsInv' OBVIOUS
<1>1. ASSUME NEW u \in Users, NEW o \in Orders, NEW t \in Templates, NEW q \in Quantities, Place(o, u, t, q)
      PROVE  AccountsInv'
  BY <1>1, PlaceKeeps
<1>2. ASSUME NEW u \in Users, Recharge(u) PROVE AccountsInv'
  BY <1>2, DepositKeeps DEF Recharge, AccountsInv, TypeOK
<1>3. ASSUME NEW u \in Users, NEW s \in Sessions, Settle(s, u) PROVE AccountsInv'
  BY <1>3, DepositKeeps DEF Settle, AccountsInv, TypeOK
<1>4. ASSUME NEW u \in Users, NEW o \in Orders, Pay(o, u) PROVE AccountsInv'
  BY <1>4, PurchaseKeeps DEF Pay
<1>5. ASSUME NEW u \in Users, NEW o \in Orders, Renew(o, u) PROVE AccountsInv'
  <2>1. paid' = paid \cup {o} BY <1>5 DEF Renew
  <2> QED BY <1>5, <2>1, PurchaseKeeps DEF Renew
<1>6. ASSUME NEW u \in Users, NEW o \in Orders, Use(o, u) PROVE AccountsInv' BY <1>6, UseKeeps
<1>7. ASSUME NEW u \in Users, Contend(u) PROVE AccountsInv'
  BY <1>7 DEF Contend, AccountsInv, TypeOK, Kept, NoBill
<1>8. CASE UNCHANGED vars BY <1>8 DEF vars, AccountsInv, TypeOK, Kept, NoBill
<1> QED BY <1>1, <1>2, <1>3, <1>4, <1>5, <1>6, <1>7, <1>8 DEF Next

-----------------------------------------------------------------------------

\* service.py: the wallet of a user who never sends two requests at once shows what
\* its transactions add up to, and only metered usage overdraws it, though the same
\* steps may set the balance of a contested user to anything.
THEOREM AccountsInvariant == Spec => []AccountsInv
BY InitHolds, StepHolds, PTL DEF Spec

\* stripe_provider.py: where there are no direct charges, money comes in with a
\* checkout session that has not been credited before, and with nothing else.
THEOREM BySessionTheorem == ~ Direct /\ Spec => BySession
<1>1. ASSUME ~ Direct, [Next]_vars
      PROVE  [\A u \in Users : credited'[u] # credited[u]
                => \E s \in Sessions \ settled : settled' = settled \cup {s}]_vars
  BY <1>1 DEF Next, Place, Recharge, Settle, Pay, Renew, Use, Purchase, Charge, Contend, vars
<1>2. Spec /\ ~ Direct => [][\A u \in Users : credited'[u] # credited[u]
                => \E s \in Sessions \ settled : settled' = settled \cup {s}]_vars
  <2>1. CASE Direct BY <2>1, PTL
  <2>2. CASE ~ Direct BY <1>1, <2>2, PTL DEF Spec
  <2> QED BY <2>1, <2>2
<1> QED BY <1>2 DEF BySession
=============================================================================

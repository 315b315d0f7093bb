------------------------------ MODULE Credits ------------------------------
(***************************************************************************)
(* The credit account of a recruiter: src/lib/credits.ts and the admin     *)
(* actions of src/app/admin/users/actions.ts.                              *)
(*                                                                         *)
(* A User row carries two buckets, creditsBalance (subscription credits,   *)
(* reset each billing period) and purchasedCredits (packs, which roll      *)
(* over), and every change of a bucket appends a CreditTransaction row.    *)
(* Only the running sum of the deltas of a user's rows is kept here,       *)
(* together with the set of idempotency keys the rows carry: that is all   *)
(* that the code ever asks of the ledger.                                  *)
(*                                                                         *)
(* The operators SpendCreditOn, GrantCredits, ... are the bodies of the    *)
(* database transactions; Reveal and StripeWebhook call them inside their  *)
(* own, larger transactions.                                               *)
(***************************************************************************)
EXTENDS Integers, TLAPS

CONSTANTS
  Users,      \* the ids of User rows
  Keys,       \* idempotency keys ("purchase:<session>", "refund:<session>")
  NoKey,      \* a grant without idempotencyKey
  OpeningBalances, \* what a bucket may hold when the model starts
  MaxCredits  \* bound of the model on one bucket

ASSUME CreditsAssumption ==
  OpeningBalances \subseteq Nat /\ MaxCredits \in Nat /\ NoKey \notin Keys

VARIABLES
  users,            \* the User rows that exist
  creditsBalance,   \* User.creditsBalance
  purchasedCredits, \* User.purchasedCredits
  ledger,           \* SUM(CreditTransaction.delta) of the user
  idempotencyKeys   \* <<user, key>> of the rows with an idempotencyKey

creditVars == <<users, creditsBalance, purchasedCredits, ledger, idempotencyKeys>>

CreditTypeOK ==
  /\ users \subseteq Users
  /\ creditsBalance \in [Users -> Nat]
  /\ purchasedCredits \in [Users -> Nat]
  /\ ledger \in [Users -> Int]
  /\ idempotencyKeys \subseteq Users \X Keys

AvailableCredits(u) == creditsBalance[u] + purchasedCredits[u]

\* Accounts with some history that the ledger explains; a new User row has
\* both buckets at 0 and no ledger row.
CreditInit ==
  /\ users = Users
  /\ creditsBalance \in [Users -> OpeningBalances]
  /\ purchasedCredits \in [Users -> OpeningBalances]
  /\ ledger = [u \in Users |-> AvailableCredits(u)]
  /\ idempotencyKeys = {}

-----------------------------------------------------------------------------
KeyUsed(key) == \E u \in Users : <<u, key>> \in idempotencyKeys

\* Both conditional updates found a row; otherwise spendCreditOn throws
\* (InsufficientCreditsError, or "User not found") and the caller rolls back.
CanSpend(u) == u \in users /\ AvailableCredits(u) >= 1

\* As if the pack bucket were tried first.
SpendPackFirst(u) ==
  /\ CanSpend(u)
  /\ IF purchasedCredits[u] >= 1
     THEN /\ purchasedCredits' = [purchasedCredits EXCEPT ![u] = @ - 1]
          /\ UNCHANGED creditsBalance
     ELSE /\ creditsBalance' = [creditsBalance EXCEPT ![u] = @ - 1]
          /\ UNCHANGED purchasedCredits
  /\ ledger' = [ledger EXCEPT ![u] = @ - 1]
  /\ UNCHANGED <<users, idempotencyKeys>>

\* Subscription credits first, purchased credits only when there are none.
SpendCreditOn(u) ==
  /\ CanSpend(u)
  /\ IF creditsBalance[u] >= 1
     THEN /\ creditsBalance' = [creditsBalance EXCEPT ![u] = @ - 1]
          /\ UNCHANGED purchasedCredits
     ELSE /\ purchasedCredits' = [purchasedCredits EXCEPT ![u] = @ - 1]
          /\ UNCHANGED creditsBalance
  /\ ledger' = [ledger EXCEPT ![u] = @ - 1]
  /\ UNCHANGED <<users, idempotencyKeys>>

\* As if the caller forgot to pass the idempotency key.
GrantUnkeyed(u, amount, target, key) ==
  /\ u \in users
  /\ purchasedCredits' = [purchasedCredits EXCEPT ![u] = @ + amount]
  /\ ledger' = [ledger EXCEPT ![u] = @ + amount]
  /\ UNCHANGED <<users, creditsBalance, idempotencyKeys>>

\* The ledger row is inserted before the bucket is raised, so a key that was
\* used before aborts the transaction and the grant is a no-op.
GrantCredits(u, amount, target, key) ==
  /\ u \in users
  /\ amount >= 1
  /\ IF KeyUsed(key)
     THEN UNCHANGED creditVars
     ELSE /\ IF target = "purchased"
             THEN /\ purchasedCredits' = [purchasedCredits EXCEPT ![u] = @ + amount]
                  /\ UNCHANGED creditsBalance
             ELSE /\ creditsBalance' = [creditsBalance EXCEPT ![u] = @ + amount]
                  /\ UNCHANGED purchasedCredits
          /\ ledger' = [ledger EXCEPT ![u] = @ + amount]
          /\ idempotencyKeys' = idempotencyKeys \cup ({u} \X ({key} \ {NoKey}))
          /\ UNCHANGED users

\* A negative admin adjustment removes at most what the bucket holds.
RemoveCredits(u, want) ==
  LET removed == IF want <= creditsBalance[u] THEN want ELSE creditsBalance[u]
  IN  /\ u \in users
      /\ creditsBalance' = [creditsBalance EXCEPT ![u] = @ - removed]
      /\ ledger' = [ledger EXCEPT ![u] = @ - removed]
      /\ UNCHANGED <<users, purchasedCredits, idempotencyKeys>>

\* As if the ledger recorded the new balance instead of the difference.
ResetUnbalanced(u, newBalance) ==
  /\ creditsBalance' = [creditsBalance EXCEPT ![u] = newBalance]
  /\ ledger' = [ledger EXCEPT ![u] = @ + newBalance]
  /\ UNCHANGED <<users, purchasedCredits, idempotencyKeys>>

\* The bucket is set, not incremented (renewal and cancellation): the delta
\* the ledger records is computed from the balance read in the transaction.
ResetSubscriptionCredits(u, newBalance) ==
  /\ creditsBalance' = [creditsBalance EXCEPT ![u] = newBalance]
  /\ ledger' = [ledger EXCEPT ![u] = @ + (newBalance - creditsBalance[u])]
  /\ UNCHANGED <<users, purchasedCredits, idempotencyKeys>>

\* Deleting the User row cascades to its CreditTransaction rows.
DropAccount(u) ==
  /\ users' = users \ {u}
  /\ creditsBalance' = [creditsBalance EXCEPT ![u] = 0]
  /\ purchasedCredits' = [purchasedCredits EXCEPT ![u] = 0]
  /\ ledger' = [ledger EXCEPT ![u] = 0]
  /\ idempotencyKeys' = {row \in idempotencyKeys : row[1] # u}

-----------------------------------------------------------------------------
(* The admin pages: adjustCreditsAction and refundCreditsAction.           *)

AdjustUp(u, amount) ==
  /\ creditsBalance[u] + amount <= MaxCredits
  /\ GrantCredits(u, amount, "subscription", NoKey)

AdjustDown(u, amount) == RemoveCredits(u, amount)

\* With a session id the refund is keyed on it; without one it is unkeyed.
Refund(u, amount, key) ==
  /\ purchasedCredits[u] + amount <= MaxCredits
  /\ GrantCredits(u, amount, "purchased", key)

AdminStep ==
  \E u \in users, amount \in 1..MaxCredits :
    \/ AdjustUp(u, amount)
    \/ AdjustDown(u, amount)
    \/ \E key \in Keys \cup {NoKey} : Refund(u, amount, key)

-----------------------------------------------------------------------------
(* The accounts on their own: every transaction that the rest of the       *)
(* program runs on them, in any order.                                     *)
CreditNext ==
  \/ AdminStep
  \/ \E u \in users :
       \/ SpendCreditOn(u)
       \/ \E balance \in 0..MaxCredits : ResetSubscriptionCredits(u, balance)
       \/ DropAccount(u)

CreditSpec == CreditInit /\ [][CreditNext]_creditVars

(* Every change of a bucket is matched by a ledger row: the sum of the     *)
(* deltas of a user is what the user can spend. The ledger page rebuilds   *)
(* running balances from it (getCreditLedger), and the clean-up cron names *)
(* a drift as the failure to look for (cleanup/route.ts:112-118).          *)
LedgerReconciles == \A u \in Users : ledger[u] = AvailableCredits(u)

\* Credits that were bought roll over: only a spend takes one, only when the
\* subscription bucket is empty, and no renewal, cancellation or adjustment
\* touches them (credits.ts:47-50, schema.prisma:122-125).
PackCreditsKept ==
  [][\A u \in Users \cap users' : purchasedCredits'[u] < purchasedCredits[u] =>
       /\ purchasedCredits'[u] = purchasedCredits[u] - 1
       /\ creditsBalance[u] = 0 /\ creditsBalance'[u] = 0]_creditVars

-----------------------------------------------------------------------------
(* Theorems about the credit account. The lemmas say what each transaction *)
(* body does to an account; Reveal and StripeWebhook run the same bodies,  *)
(* so their proofs cite them.                                              *)
CreditInv == CreditTypeOK /\ LedgerReconciles

\* A new database and a new account reconcile.
LEMMA InitInv == CreditInit => CreditInv
<1> SUFFICES ASSUME CreditInit PROVE CreditInv
  OBVIOUS
<1>1. /\ creditsBalance \in [Users -> Nat]
      /\ purchasedCredits \in [Users -> Nat]
  BY CreditsAssumption DEF CreditInit
<1>2. CreditTypeOK
  BY <1>1 DEF CreditInit, CreditTypeOK, AvailableCredits
<1>3. LedgerReconciles
  BY DEF CreditInit, LedgerReconciles
<1> QED BY <1>2, <1>3 DEF CreditInv

\* spendCreditOn takes one credit from one bucket and records one row.
LEMMA SpendInv ==
  ASSUME CreditInv, NEW u \in Users, SpendCreditOn(u)
  PROVE  CreditInv'
<1>1. CreditTypeOK'
  BY DEF CreditInv, CreditTypeOK, SpendCreditOn, CanSpend, AvailableCredits
<1>2. LedgerReconciles'
  BY DEF CreditInv, CreditTypeOK, LedgerReconciles, SpendCreditOn, CanSpend, AvailableCredits
<1> QED BY <1>1, <1>2 DEF CreditInv

\* grantCredits, with or without an idempotency key.
LEMMA GrantInv ==
  ASSUME CreditInv, NEW u \in Users, NEW amount \in Nat, NEW target,
         NEW key \in Keys \cup {NoKey}, GrantCredits(u, amount, target, key)
  PROVE  CreditInv'
<1>1. CASE KeyUsed(key)
  BY <1>1 DEF CreditInv, CreditTypeOK, LedgerReconciles, AvailableCredits, GrantCredits,
              creditVars
<1>2. CASE ~ KeyUsed(key)
  <2>1. idempotencyKeys' \subseteq Users \X Keys
    BY <1>2 DEF CreditInv, CreditTypeOK, GrantCredits
  <2>2. CreditTypeOK'
    BY <1>2, <2>1 DEF CreditInv, CreditTypeOK, GrantCredits
  <2>3. LedgerReconciles'
    BY <1>2 DEF CreditInv, CreditTypeOK, LedgerReconciles, AvailableCredits, GrantCredits
  <2> QED BY <2>2, <2>3 DEF CreditInv
<1> QED BY <1>1, <1>2

\* A removal never takes more than the bucket holds.
LEMMA RemoveInv ==
  ASSUME CreditInv, NEW u \in Users, NEW want \in Nat, RemoveCredits(u, want)
  PROVE  CreditInv'
  BY DEF CreditInv, CreditTypeOK, LedgerReconciles, AvailableCredits, RemoveCredits

\* The recorded difference is the one between the two balances.
LEMMA ResetInv ==
  ASSUME CreditInv, NEW u \in Users, NEW newBalance \in Nat,
         ResetSubscriptionCredits(u, newBalance)
  PROVE  CreditInv'
  BY DEF CreditInv, CreditTypeOK, LedgerReconciles, AvailableCredits,
         ResetSubscriptionCredits

\* The cascade removes account and ledger together.
LEMMA DropInv ==
  ASSUME CreditInv, NEW u \in Users, DropAccount(u)
  PROVE  CreditInv'
  BY DEF CreditInv, CreditTypeOK, LedgerReconciles, AvailableCredits, DropAccount

\* The invariant depends on the account alone.
LEMMA StutterInv == CreditInv /\ UNCHANGED creditVars => CreditInv'
  BY DEF CreditInv, CreditTypeOK, LedgerReconciles, AvailableCredits, creditVars

LEMMA AdminInv == CreditInv /\ AdminStep => CreditInv'
<1> SUFFICES ASSUME CreditInv,
                    NEW u \in users, NEW amount \in 1..MaxCredits,
                    \/ AdjustUp(u, amount)
                    \/ AdjustDown(u, amount)
                    \/ \E key \in Keys \cup {NoKey} : Refund(u, amount, key)
             PROVE  CreditInv'
  BY DEF AdminStep
<1>1. u \in Users /\ amount \in Nat
  BY CreditsAssumption DEF CreditInv, CreditTypeOK
<1>2. CASE AdjustUp(u, amount)
  BY <1>1, <1>2, GrantInv DEF AdjustUp
<1>3. CASE AdjustDown(u, amount)
  BY <1>1, <1>3, RemoveInv DEF AdjustDown
<1>4. CASE \E key \in Keys \cup {NoKey} : Refund(u, amount, key)
  BY <1>1, <1>4, GrantInv DEF Refund
<1> QED BY <1>2, <1>3, <1>4

LEMMA NextInv == CreditInv /\ [CreditNext]_creditVars => CreditInv'
<1> SUFFICES ASSUME CreditInv, [CreditNext]_creditVars PROVE CreditInv'
  OBVIOUS
<1>1. users \subseteq Users /\ 0..MaxCredits \subseteq Nat
  BY CreditsAssumption DEF CreditInv, CreditTypeOK
<1>2. CASE AdminStep
  BY <1>2, AdminInv
<1>3. CASE \E u \in users : SpendCreditOn(u)
  BY <1>1, <1>3, SpendInv
<1>4. CASE \E u \in users, balance \in 0..MaxCredits : ResetSubscriptionCredits(u, balance)
  BY <1>1, <1>4, ResetInv
<1>5. CASE \E u \in users : DropAccount(u)
  BY <1>1, <1>5, DropInv
<1>6. CASE UNCHANGED creditVars
  BY <1>6, StutterInv
<1> QED BY <1>2, <1>3, <1>4, <1>5, <1>6 DEF CreditNext

\* Neither bucket is ever negative (spendCreditOn's conditional updates), and
\* idempotency keys belong to ledger rows of known users.
THEOREM CreditTypeCorrect == CreditSpec => []CreditTypeOK
<1>1. CreditInv => CreditTypeOK
  BY DEF CreditInv
<1> QED BY InitInv, NextInv, <1>1, PTL DEF CreditSpec

\* The ledger explains the balance, whatever the order of spends, grants,
\* adjustments, renewals and deletions and however many users there are.
THEOREM LedgerAlwaysReconciles == CreditSpec => []LedgerReconciles
<1>1. CreditInv => LedgerReconciles
  BY DEF CreditInv
<1> QED BY InitInv, NextInv, <1>1, PTL DEF CreditSpec

-----------------------------------------------------------------------------
PackStep ==
  \A u \in Users \cap users' : purchasedCredits'[u] < purchasedCredits[u] =>
       /\ purchasedCredits'[u] = purchasedCredits[u] - 1
       /\ creditsBalance[u] = 0 /\ creditsBalance'[u] = 0

LEMMA GrantKeepsPacks ==
  ASSUME CreditInv, NEW u \in Users, NEW amount \in Nat, NEW target, NEW key,
         GrantCredits(u, amount, target, key)
  PROVE  PackStep
<1>1. CASE KeyUsed(key)
  BY <1>1 DEF CreditInv, CreditTypeOK, GrantCredits, creditVars, PackStep
<1>2. CASE ~ KeyUsed(key)
  BY <1>2 DEF CreditInv, CreditTypeOK, GrantCredits, PackStep
<1> QED BY <1>1, <1>2

\* Bought credits are only ever spent, one at a time and after the
\* subscription credits.
THEOREM PackCreditsAlwaysKept == CreditSpec => PackCreditsKept
<1>1. CreditInv /\ [CreditNext]_creditVars => [PackStep]_creditVars
  <2> SUFFICES ASSUME CreditInv, CreditNext PROVE PackStep
    OBVIOUS
  <2>1. users \subseteq Users /\ 1..MaxCredits \subseteq Nat
    BY CreditsAssumption DEF CreditInv, CreditTypeOK
  <2>2. CASE \E u \in users, amount \in 1..MaxCredits : AdjustUp(u, amount)
    BY <2>1, <2>2, GrantKeepsPacks DEF AdjustUp
  <2>3. CASE \E u \in users, amount \in 1..MaxCredits : AdjustDown(u, amount)
    BY <2>1, <2>3 DEF AdjustDown, RemoveCredits, CreditInv, CreditTypeOK, PackStep
  <2>4. CASE \E u \in users, amount \in 1..MaxCredits, key \in Keys \cup {NoKey} :
               Refund(u, amount, key)
    BY <2>1, <2>4, GrantKeepsPacks DEF Refund
  <2>5. CASE \E u \in users : SpendCreditOn(u)
    BY <2>1, <2>5 DEF SpendCreditOn, CanSpend, AvailableCredits, CreditInv, CreditTypeOK,
                      PackStep
  <2>6. CASE \E u \in users, balance \in 0..MaxCredits : ResetSubscriptionCredits(u, balance)
    BY <2>1, <2>6 DEF ResetSubscriptionCredits, CreditInv, CreditTypeOK, PackStep
  <2>7. CASE \E u \in users : DropAccount(u)
    BY <2>1, <2>7 DEF DropAccount, CreditInv, CreditTypeOK, PackStep
  <2> QED BY <2>2, <2>3, <2>4, <2>5, <2>6, <2>7 DEF CreditNext, AdminStep
<1> QED BY InitInv, NextInv, <1>1, PTL DEF CreditSpec, PackCreditsKept, PackStep
=============================================================================

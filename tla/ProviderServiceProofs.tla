----------------------- MODULE ProviderServiceProofs -----------------------
(***************************************************************************)
(* Proofs about ExternalCalls and about ProviderService, which drives it:  *)
(* for every set of calls and accounts, every cap, and every set of        *)
(* threads and providers, every price and every crash.                     *)
(*                                                                         *)
(* First the ledger and its budget, for any client.  The invariant has two *)
(* halves that do not need each other: the books (account, ceiling,        *)
(* overrun), and the calls with their attempts.  That the totals are the   *)
(* sums of the rows is a third, over both.  Nothing here uses more than    *)
(* the ledger's own assumption CallsAssumption.                            *)
(*                                                                         *)
(* Then the provider: it buys calls the way ExternalCalls says a client    *)
(* may (and so everything proved of that holds of it), it leaves no        *)
(* reservation standing, it charges what its attempts cost but for answers *)
(* without a price, and its fence holds.  Its invariant has five parts:    *)
(* which attempt each thread holds, what the attempts hold reserved, what  *)
(* they cost, whom the fence names, and what was answered.                 *)
(***************************************************************************)
EXTENDS ProviderService, FoldLemmas, SequenceTheorems, FiniteSetTheorems, TLAPS

-----------------------------------------------------------------------------
(* The external-call ledger and the budget, whatever their clients do.     *)

BooksInv ==
  /\ account \in [Resources -> Account]
  /\ ceiling \in [Resources -> Nat]
  /\ overrun \in [Resources -> Nat]
  /\ \A r \in Resources : account[r].cap <= ceiling[r]
  /\ WithinCeiling

CallsTyped ==
  /\ call \in [Calls -> Call]
  /\ attempts \in [Calls -> Seq(Attempt)]

CallsInv ==
  /\ CallsTyped
  /\ OneInFlight
  /\ BoughtOnce
  /\ LiveIsSecured

-----------------------------------------------------------------------------
(* The books.                                                              *)

(* A charge is a natural number for each account, and so is its excess.    *)
LEMMA ChargeTyped ==
  ASSUME NEW c \in Calls, NEW u \in [Resources -> Nat], NEW r \in Resources
  PROVE  /\ Charge(c, u)[r] \in Nat
         /\ Excess(c, u, r) \in Nat
         /\ Charge(c, u)[r] <= Worst[c][r] + Excess(c, u, r)
         /\ Worst[c][r] \in Nat
<1>1. Worst[c][r] \in Nat /\ u[r] \in Nat
  BY CallsAssumption
<1>2. Charge(c, u)[r] = IF Worst[c][r] > 0 THEN u[r] ELSE 0
  BY DEF Charge
<1>3. QED
  BY <1>1, <1>2 DEF Excess

(* Settling charges at most what was reserved and the overrun it reports.  *)
LEMMA ResolveKeepsBooks ==
  ASSUME BooksInv, NEW c \in Calls, NEW u \in [Resources -> Nat],
         Resolve(c, u), UNCHANGED ceiling
  PROVE  BooksInv'
<1>1. ASSUME NEW r \in Resources
      PROVE  /\ account'[r] \in Account
             /\ overrun'[r] \in Nat
             /\ account'[r].cap <= ceiling'[r]
             /\ account'[r].reserved + account'[r].settled <= ceiling'[r] + overrun'[r]
  <2> DEFINE ch == Charge(c, u)[r]
             ex == Excess(c, u, r)
             w  == Worst[c][r]
  <2>1. ch \in Nat /\ ex \in Nat /\ w \in Nat /\ ch <= w + ex
    BY ChargeTyped
  <2>2. /\ account[r] \in Account /\ ceiling[r] \in Nat /\ overrun[r] \in Nat
        /\ account[r].cap <= ceiling[r]
        /\ account[r].reserved + account[r].settled <= ceiling[r] + overrun[r]
    BY DEF BooksInv, WithinCeiling
  <2>3. /\ account'[r] = [account[r] EXCEPT !.reserved = @ - w, !.settled = @ + ch]
        /\ overrun'[r] = overrun[r] + ex
        /\ ceiling'[r] = ceiling[r]
    BY DEF Resolve
  <2> HIDE DEF ch, ex, w
  <2>4. /\ account'[r].reserved = account[r].reserved - w
        /\ account'[r].settled = account[r].settled + ch
        /\ account'[r].cap = account[r].cap
    BY <2>2, <2>3 DEF Account
  <2>5. account[r].reserved \in Int /\ account[r].settled \in Nat
    BY <2>2 DEF Account
  <2>6. account[r].reserved - w \in Int /\ account[r].settled + ch \in Nat
    BY <2>1, <2>5
  <2>7. account'[r] \in Account
    BY <2>2, <2>3, <2>6 DEF Account
  <2>8. QED
    BY <2>1, <2>2, <2>3, <2>4, <2>5, <2>7
<1>2. account' \in [Resources -> Account] /\ overrun' \in [Resources -> Nat]
  BY <1>1 DEF Resolve
<1>3. QED
  BY <1>1, <1>2 DEF BooksInv, WithinCeiling

(* A reservation is only made where it fits under the cap.                 *)
LEMMA ReserveKeepsBooks ==
  ASSUME BooksInv, NEW c \in Calls, Affordable(c), UNCHANGED <<ceiling, overrun>>,
         account' = [r \in Resources |-> [account[r] EXCEPT !.reserved = @ + Worst[c][r]]]
  PROVE  BooksInv'
<1>1. ASSUME NEW r \in Resources
      PROVE  /\ account'[r] \in Account
             /\ account'[r].cap <= ceiling'[r]
             /\ account'[r].reserved + account'[r].settled <= ceiling'[r] + overrun'[r]
  <2>1. Worst[c][r] \in Nat
    BY CallsAssumption
  <2>2. /\ account[r] \in Account /\ ceiling[r] \in Nat /\ overrun[r] \in Nat
        /\ account[r].cap <= ceiling[r]
        /\ account[r].reserved + account[r].settled <= ceiling[r] + overrun[r]
    BY DEF BooksInv, WithinCeiling
  <2>3. account'[r] = [account[r] EXCEPT !.reserved = @ + Worst[c][r]]
    OBVIOUS
  <2>4. /\ account'[r].reserved = account[r].reserved + Worst[c][r]
        /\ account'[r].settled = account[r].settled
        /\ account'[r].cap = account[r].cap
        /\ account'[r] \in Account
    BY <2>1, <2>2, <2>3 DEF Account
  <2>5. account[r].reserved \in Int /\ account[r].settled \in Nat /\ account[r].cap \in Nat
    BY <2>2 DEF Account
  <2>6. Worst[c][r] > 0 =>
          Worst[c][r] <= account[r].cap - account[r].reserved - account[r].settled
    BY DEF Affordable
  <2>7. QED
    BY <2>1, <2>2, <2>4, <2>5, <2>6
<1>2. account' \in [Resources -> Account]
  BY <1>1
<1>3. QED
  BY <1>1, <1>2 DEF BooksInv, WithinCeiling

(* ensure_account tightens a cap, authorize_cap_raise widens it with the   *)
(* ceiling: neither moves money.                                           *)
LEMMA CapChangeKeepsBooks ==
  ASSUME BooksInv, NEW r \in Resources, NEW cap \in Caps,
         EnsureAccount(r, cap) \/ AuthorizeCapRaise(r, cap)
  PROVE  BooksInv'
<1>1. cap \in Nat
  BY CallsAssumption
<1>2. /\ account' = [account EXCEPT ![r].cap = cap]
      /\ overrun' = overrun
      /\ ceiling' \in [Resources -> Nat]
      /\ \A s \in Resources : ceiling[s] <= ceiling'[s]
      /\ cap <= ceiling'[r]
  <2>1. CASE EnsureAccount(r, cap)
    <3>1. ceiling' = ceiling /\ account[r] \in Account /\ account[r].cap <= ceiling[r]
      BY <2>1 DEF EnsureAccount, BooksInv
    <3>2. ceiling \in [Resources -> Nat] /\ account[r].cap \in Nat /\ cap < account[r].cap
      BY <2>1, <3>1 DEF EnsureAccount, BooksInv, Account
    <3>3. \A s \in Resources : ceiling[s] \in Nat
      BY <3>2
    <3>4. QED
      BY <1>1, <2>1, <3>1, <3>2, <3>3 DEF EnsureAccount
  <2>2. CASE AuthorizeCapRaise(r, cap)
    BY <1>1, <2>2 DEF AuthorizeCapRaise, BooksInv
  <2>3. QED
    BY <2>1, <2>2
<1>3. ASSUME NEW s \in Resources
      PROVE  /\ account'[s] \in Account
             /\ account'[s].cap <= ceiling'[s]
             /\ account'[s].reserved = account[s].reserved
             /\ account'[s].settled = account[s].settled
  <2>1. account[s] \in Account /\ account[s].cap <= ceiling[s] /\ ceiling[s] \in Nat
    BY DEF BooksInv
  <2>2. account'[s] = IF s = r THEN [account[s] EXCEPT !.cap = cap] ELSE account[s]
    BY <1>2 DEF BooksInv
  <2>3. ceiling'[s] \in Nat
    BY <1>2
  <2>4. CASE s = r
    BY <1>1, <1>2, <2>1, <2>2, <2>4 DEF Account
  <2>5. CASE s # r
    <3>1. account[s].cap \in Nat
      BY <2>1 DEF Account
    <3>2. QED
      BY <1>2, <2>1, <2>2, <2>3, <2>5, <3>1
  <2>6. QED
    BY <2>4, <2>5
<1>4. ASSUME NEW s \in Resources
      PROVE  account'[s].reserved + account'[s].settled <= ceiling'[s] + overrun'[s]
  <2>1. /\ account[s].reserved + account[s].settled <= ceiling[s] + overrun[s]
        /\ account[s].reserved \in Int /\ account[s].settled \in Nat
        /\ ceiling[s] \in Nat /\ overrun[s] \in Nat
    BY DEF BooksInv, WithinCeiling, Account
  <2>2. ceiling'[s] \in Nat /\ ceiling[s] <= ceiling'[s] /\ overrun'[s] = overrun[s]
    BY <1>2
  <2>3. QED
    BY <1>3, <2>1, <2>2
<1>5. account' \in [Resources -> Account]
  BY <1>2, <1>3 DEF BooksInv
<1>6. QED
  BY <1>2, <1>3, <1>4, <1>5 DEF BooksInv, WithinCeiling

-----------------------------------------------------------------------------
(* The calls.                                                              *)

(* Replacing one attempt of one call leaves every other attempt alone.     *)
LEMMA SetAttemptFacts ==
  ASSUME CallsTyped,
         NEW c \in Calls, NEW n \in Ordinals(c), NEW a \in Attempt,
         SetAttempt(c, n, a)
  PROVE  /\ attempts' \in [Calls -> Seq(Attempt)]
         /\ \A d \in Calls : Len(attempts'[d]) = Len(attempts[d])
         /\ \A d \in Calls : \A m \in Ordinals(d) :
              attempts'[d][m] = IF d = c /\ m = n THEN a ELSE attempts[d][m]
<1> DEFINE s == attempts[c]
           t == [s EXCEPT ![n] = a]
<1>1. s \in Seq(Attempt) /\ n \in 1..Len(s)
  BY DEF CallsTyped, Ordinals
<1>2. /\ t \in Seq(Attempt)
      /\ Len(t) = Len(s)
      /\ \A m \in 1..Len(s) : t[m] = IF m = n THEN a ELSE s[m]
  BY <1>1, ExceptSeq
<1>3. attempts' = [attempts EXCEPT ![c] = t]
  BY DEF SetAttempt
<1>4. \A d \in Calls : attempts'[d] = IF d = c THEN t ELSE attempts[d]
  BY <1>3 DEF CallsTyped
<1> HIDE DEF t
<1>5. attempts' \in [Calls -> Seq(Attempt)]
  BY <1>2, <1>3 DEF CallsTyped
<1>6. QED
  BY <1>2, <1>4, <1>5 DEF Ordinals

(* An attempt of a typed ledger is a typed record.                         *)
LEMMA AttemptTyped ==
  ASSUME CallsTyped, NEW c \in Calls, NEW n \in Ordinals(c)
  PROVE  attempts[c][n] \in Attempt
<1>1. attempts[c] \in Seq(Attempt)
  BY DEF CallsTyped
<1>2. QED
  BY <1>1, ElementOfSeq DEF Ordinals

(* What a step may make of a live attempt: its state and its money still   *)
(* agree, and COMMITTED is written together with the call.                 *)
Fits(c, n, a) ==
  /\ attempts[c][n].state \in Live
  /\ a.state \in AttemptState
  /\ Secured(a)
  /\ IF a.state = "COMMITTED"
     THEN call' = [call EXCEPT ![c] = [state |-> "COMMITTED", accepted |-> n]]
     ELSE call' = call

(* A fitting step keeps the call bought at most once: before it the call   *)
(* had a live attempt, so none was bought, and it was the only live one.   *)
LEMMA FitsPreserves ==
  ASSUME CallsInv, NEW c \in Calls, NEW n \in Ordinals(c), NEW a \in Attempt,
         SetAttempt(c, n, a), Fits(c, n, a)
  PROVE  CallsInv'
<1>1. CallsTyped
  BY DEF CallsInv
<1>2. /\ attempts' \in [Calls -> Seq(Attempt)]
      /\ \A d \in Calls : Len(attempts'[d]) = Len(attempts[d])
      /\ \A d \in Calls : \A m \in Ordinals(d) :
           attempts'[d][m] = IF d = c /\ m = n THEN a ELSE attempts[d][m]
  BY <1>1, SetAttemptFacts
<1>3. \A d \in Calls : Ordinals(d)' = Ordinals(d)
  BY <1>2 DEF Ordinals
<1>4. n \in LiveOf(c) /\ Bought(c) = {} /\ \A m \in LiveOf(c) : m = n
  <2>1. n \in LiveOf(c)
    BY DEF Fits, LiveOf
  <2>2. Bought(c) = {}
    BY <2>1 DEF CallsInv, BoughtOnce
  <2>3. QED
    BY <2>1, <2>2 DEF CallsInv, OneInFlight
<1>5. \A d \in Calls : d # c => LiveOf(d)' = LiveOf(d) /\ Bought(d)' = Bought(d)
  BY <1>2, <1>3 DEF LiveOf, Bought
<1>6. LiveOf(c)' = IF a.state \in Live THEN {n} ELSE {}
  <2>1. \A m \in Ordinals(c)' : m \in LiveOf(c)' <=> m = n /\ a.state \in Live
    BY <1>2, <1>3, <1>4 DEF LiveOf
  <2>2. LiveOf(c)' \subseteq Ordinals(c)' /\ n \in Ordinals(c)'
    BY <1>3 DEF LiveOf
  <2>3. QED
    BY <2>1, <2>2
<1>7. Bought(c)' = IF a.state = "COMMITTED" THEN {n} ELSE {}
  <2>1. \A m \in Ordinals(c)' : m \in Bought(c)' <=> m = n /\ a.state = "COMMITTED"
    BY <1>2, <1>3, <1>4 DEF Bought
  <2>2. Bought(c)' \subseteq Ordinals(c)' /\ n \in Ordinals(c)'
    BY <1>3 DEF Bought
  <2>3. QED
    BY <2>1, <2>2
<1>8. CallsTyped' /\ \A d \in Calls : d # c => call'[d] = call[d]
  <2>1. n \in Nat
    BY DEF Ordinals
  <2>2. [state |-> "COMMITTED", accepted |-> n] \in Call
    BY <2>1 DEF Call
  <2>3. call' \in [Calls -> Call] /\ \A d \in Calls : d # c => call'[d] = call[d]
    BY <1>1, <2>2 DEF Fits, CallsTyped
  <2>4. QED
    BY <1>2, <2>3 DEF CallsTyped
<1>9. OneInFlight'
  BY <1>5, <1>6 DEF OneInFlight, CallsInv
<1>10. BoughtOnce'
  <2>1. ASSUME NEW d \in Calls, d # c
        PROVE  /\ \A m, k \in Bought(d)' : m = k
               /\ Bought(d)' # {} => LiveOf(d)' = {}
               /\ call'[d].state = "COMMITTED" <=> Bought(d)' # {}
               /\ call'[d].state = "COMMITTED" => call'[d].accepted \in Bought(d)'
    BY <1>5, <1>8, <2>1 DEF CallsInv, BoughtOnce
  <2>2. CASE a.state = "COMMITTED"
    <3>1. call'[c].state = "COMMITTED" /\ call'[c].accepted = n
      BY <1>1, <2>2 DEF Fits, CallsTyped
    <3>2. Bought(c)' = {n} /\ LiveOf(c)' = {}
      BY <1>6, <1>7, <2>2 DEF Live
    <3>3. QED
      BY <2>1, <3>1, <3>2 DEF BoughtOnce
  <2>3. CASE a.state # "COMMITTED"
    <3>1. call'[c].state # "COMMITTED"
      BY <1>4, <2>3 DEF Fits, CallsInv, BoughtOnce
    <3>2. Bought(c)' = {}
      BY <1>7, <2>3
    <3>3. QED
      BY <2>1, <3>1, <3>2 DEF BoughtOnce
  <2>4. QED
    BY <2>2, <2>3
<1>11. LiveIsSecured'
  <2>1. \A d \in Calls : \A m \in Ordinals(d) : Secured(attempts'[d][m])
    BY <1>2 DEF CallsInv, LiveIsSecured, Fits
  <2>2. QED
    BY <1>3, <2>1 DEF LiveIsSecured, Secured
<1>12. QED
  BY <1>8, <1>9, <1>10, <1>11 DEF CallsInv

(* Moving a live attempt on to a live state leaves its money as it is.     *)
LEMMA MoveFits ==
  ASSUME CallsInv, NEW c \in Calls, NEW n \in Ordinals(c),
         NEW to \in SentStates, NEW p \in Responses \cup {NoResponse}, Move(c, n, to, p)
  PROVE  CallsInv'
<1> DEFINE old == attempts[c][n]
           new == [old EXCEPT !.state = to, !.response = p]
<1>1. old \in Attempt /\ old.state \in Live /\ Secured(old)
  BY AttemptTyped DEF CallsInv, LiveIsSecured, Move, CanMove
<1>2. old.state # "INTENT"
  BY DEF Move, CanMove, LegalAttempt, SentStates, Failed
<1>3. new \in Attempt /\ new.state = to /\ new.money = old.money /\ new.charged = old.charged
  BY <1>1 DEF Attempt, SentStates, AttemptState, Live
<1>4. SetAttempt(c, n, new) /\ call' = call
  BY DEF Move
<1> HIDE DEF new
<1>5. Secured(new)
  BY <1>1, <1>2, <1>3 DEF Secured, Live, SentStates
<1>6. Fits(c, n, new)
  BY <1>1, <1>3, <1>4, <1>5 DEF Fits, Attempt, SentStates
<1>7. QED
  BY <1>3, <1>4, <1>6, FitsPreserves

(* Ending an attempt settles its reservation, if one stands.               *)
LEMMA SettleFits ==
  ASSUME CallsInv, NEW c \in Calls, NEW n \in Ordinals(c),
         NEW to \in Failed \cup {"COMMITTED"}, NEW u \in [Resources -> Nat],
         SettleAndAdvance(c, n, to, u)
  PROVE  CallsInv'
<1> DEFINE old == attempts[c][n]
           settled == [old EXCEPT !.state = to, !.money = "SETTLED", !.charged = Charge(c, u)]
           plain == [old EXCEPT !.state = to]
<1>1. old \in Attempt /\ old.state \in Live /\ Secured(old)
  BY AttemptTyped DEF CallsInv, LiveIsSecured, SettleAndAdvance, CanMove
<1>2. call' = IF to = "COMMITTED"
              THEN [call EXCEPT ![c] = [state |-> "COMMITTED", accepted |-> n]] ELSE call
  BY DEF SettleAndAdvance, SetCall
<1>3. CASE old.money = "RESERVED"
  <2>1. Charge(c, u) \in [Resources -> Nat]
    BY CallsAssumption DEF Charge
  <2>2. /\ settled \in Attempt /\ settled.state = to /\ settled.money = "SETTLED"
    BY <1>1, <2>1 DEF Attempt, AttemptState
  <2>3. SetAttempt(c, n, settled)
    BY <1>3 DEF SettleAndAdvance
  <2> HIDE DEF settled
  <2>4. Secured(settled)
    BY <2>2 DEF Secured, Live, Failed
  <2>5. Fits(c, n, settled)
    BY <1>1, <1>2, <2>2, <2>4 DEF Fits, Attempt
  <2>6. QED
    BY <2>2, <2>3, <2>5, FitsPreserves
<1>4. CASE old.money # "RESERVED"
  <2>1. old.state = "INTENT"
    BY <1>1, <1>4 DEF Secured
  <2>2. to = "FAILED_FINAL"
    BY <2>1 DEF SettleAndAdvance, CanMove, LegalAttempt, Failed
  <2>3. plain \in Attempt /\ plain.state = to /\ plain.money = old.money
        /\ plain.charged = old.charged
    BY <1>1 DEF Attempt, AttemptState
  <2>4. SetAttempt(c, n, plain)
    BY <1>4 DEF SettleAndAdvance
  <2> HIDE DEF plain
  <2>5. Secured(plain)
    BY <1>1, <1>4, <2>2, <2>3 DEF Secured, Live
  <2>6. Fits(c, n, plain)
    BY <1>1, <1>2, <2>2, <2>3, <2>5 DEF Fits, Attempt
  <2>7. QED
    BY <2>3, <2>4, <2>6, FitsPreserves
<1>5. QED
  BY <1>3, <1>4

(* An attempt's first step gives it a reservation.                         *)
LEMMA ReserveFits ==
  ASSUME CallsInv, NEW c \in Calls, NEW n \in Ordinals(c), Reserve(c, n)
  PROVE  CallsInv'
<1> DEFINE old == attempts[c][n]
           granted == [old EXCEPT !.state = "BUDGET_RESERVED", !.money = "RESERVED"]
<1>1. old \in Attempt /\ old.state \in Live /\ Secured(old)
  BY AttemptTyped DEF CallsInv, LiveIsSecured, Reserve, CanMove
<1>2. old.state = "INTENT" /\ call' = call
  BY DEF Reserve, CanMove, LegalAttempt, Live, Failed
<1>3. granted \in Attempt /\ granted.state = "BUDGET_RESERVED" /\ granted.money = "RESERVED"
      /\ granted.charged = old.charged
  BY <1>1 DEF Attempt, AttemptState, Live
<1>4. SetAttempt(c, n, granted)
  BY DEF Reserve
<1> HIDE DEF granted
<1>5. Secured(granted)
  BY <1>1, <1>2, <1>3 DEF Secured, Live
<1>6. Fits(c, n, granted)
  BY <1>1, <1>2, <1>3, <1>5 DEF Fits, Attempt
<1>7. QED
  BY <1>3, <1>4, <1>6, FitsPreserves

(* An end that resolves nothing leaves the money as it is.                 *)
LEMMA EndUnresolvedFits ==
  ASSUME CallsInv, NEW c \in Calls, NEW n \in Ordinals(c),
         NEW to \in Failed, EndUnresolved(c, n, to)
  PROVE  CallsInv'
<1> DEFINE old == attempts[c][n]
           new == [old EXCEPT !.state = to]
<1>1. old \in Attempt /\ old.state \in Live /\ Secured(old)
  BY AttemptTyped DEF CallsInv, LiveIsSecured, EndUnresolved, CanMove
<1>2. new \in Attempt /\ new.state = to /\ new.money = old.money /\ new.charged = old.charged
  BY <1>1 DEF Attempt, AttemptState
<1>3. SetAttempt(c, n, new) /\ call' = call
  BY DEF EndUnresolved
<1> HIDE DEF new
<1>4. Secured(new)
  BY <1>1, <1>2 DEF Secured, Live, Failed
<1>5. Fits(c, n, new)
  BY <1>1, <1>2, <1>3, <1>4 DEF Fits, Attempt, Failed
<1>6. QED
  BY <1>2, <1>3, <1>5, FitsPreserves

(* A new attempt: the call is open, so none was bought and none is live.   *)
LEMMA BeginPreserves ==
  ASSUME CallsInv, NEW c \in Calls, BeginAttempt(c)
  PROVE  CallsInv'
<1> DEFINE new == [state |-> "INTENT", money |-> "none",
                   charged |-> [r \in Resources |-> 0], response |-> NoResponse]
           last == Len(attempts[c]) + 1
<1>1. /\ CallsTyped /\ attempts[c] \in Seq(Attempt) /\ call' = call
      /\ new \in Attempt /\ new.state = "INTENT" /\ Secured(new)
  BY DEF CallsInv, CallsTyped, BeginAttempt, Attempt, AttemptState, Live, Secured, Nothing
<1>2. attempts' = [attempts EXCEPT ![c] = Append(attempts[c], new)]
  BY DEF BeginAttempt
<1> HIDE DEF new
<1>3. /\ Append(attempts[c], new) \in Seq(Attempt)
      /\ Len(Append(attempts[c], new)) = last
      /\ \A m \in 1..Len(attempts[c]) : Append(attempts[c], new)[m] = attempts[c][m]
      /\ Append(attempts[c], new)[last] = new
  BY <1>1, AppendProperties
<1>4. Len(attempts[c]) \in Nat
  BY <1>1, LenProperties
<1>5. /\ attempts' \in [Calls -> Seq(Attempt)]
      /\ attempts'[c] = Append(attempts[c], new)
      /\ \A d \in Calls : d # c => attempts'[d] = attempts[d]
  BY <1>1, <1>2, <1>3 DEF CallsTyped
<1>6. Ordinals(c)' = Ordinals(c) \cup {last} /\ last \notin Ordinals(c)
  BY <1>3, <1>4, <1>5 DEF Ordinals
<1>7. \A d \in Calls : d # c => /\ Ordinals(d)' = Ordinals(d)
                                /\ LiveOf(d)' = LiveOf(d)
                                /\ Bought(d)' = Bought(d)
  BY <1>5 DEF Ordinals, LiveOf, Bought
<1>8. LiveOf(c) = {} /\ call[c].state = "OPEN" /\ Bought(c) = {}
  BY DEF BeginAttempt, CanBegin, CallsInv, BoughtOnce
<1>9. \A m \in Ordinals(c) : attempts'[c][m] = attempts[c][m]
  BY <1>3, <1>5 DEF Ordinals
<1>10. attempts'[c][last] = new
  BY <1>3, <1>5
<1>11. LiveOf(c)' = {last} /\ Bought(c)' = {}
  <2>1. \A m \in Ordinals(c) : attempts'[c][m].state \notin Live
                              /\ attempts'[c][m].state # "COMMITTED"
    BY <1>8, <1>9 DEF LiveOf, Bought
  <2>2. attempts'[c][last].state \in Live /\ attempts'[c][last].state # "COMMITTED"
    BY <1>1, <1>10 DEF Live
  <2>3. QED
    BY <1>6, <2>1, <2>2 DEF LiveOf, Bought
<1>12. OneInFlight' /\ BoughtOnce'
  BY <1>1, <1>7, <1>8, <1>11 DEF CallsInv, OneInFlight, BoughtOnce
<1>13. LiveIsSecured'
  <2>1. \A m \in Ordinals(c)' : Secured(attempts'[c][m])
    BY <1>1, <1>6, <1>9, <1>10 DEF CallsInv, LiveIsSecured
  <2>2. \A d \in Calls : d # c => \A m \in Ordinals(d)' : Secured(attempts'[d][m])
    BY <1>5, <1>7 DEF CallsInv, LiveIsSecured
  <2>3. QED
    BY <2>1, <2>2 DEF LiveIsSecured, Secured
<1>14. QED
  BY <1>1, <1>5, <1>12, <1>13 DEF CallsInv, CallsTyped

(* Opening and closing a call: it is not bought before or after.           *)
LEMMA CallStepPreserves ==
  ASSUME CallsInv, NEW c \in Calls, OpenCall(c) \/ CloseCall(c)
  PROVE  CallsInv'
<1>1. CallsTyped
  BY DEF CallsInv
<1>2. /\ attempts' = attempts
      /\ call' \in [Calls -> Call]
      /\ \A d \in Calls : \/ call'[d] = call[d]
                          \/ call[d].state # "COMMITTED" /\ call'[d].state # "COMMITTED"
  <2>1. PICK to \in {"OPEN", "ABANDONED"} :
          call' = call \/ (call' = [call EXCEPT ![c].state = to] /\ call[c].state # "COMMITTED")
    BY DEF OpenCall, CloseCall
  <2>2. attempts' = attempts
    BY DEF OpenCall, CloseCall
  <2>3. call \in [Calls -> Call] /\ call[c] \in Call
    BY <1>1 DEF CallsTyped
  <2>4. [call[c] EXCEPT !.state = to] \in Call /\ [call[c] EXCEPT !.state = to].state = to
    BY <2>3 DEF Call
  <2>5. QED
    BY <2>1, <2>2, <2>3, <2>4
<1>3. BoughtOnce'
  BY <1>2 DEF CallsInv, BoughtOnce, Bought, LiveOf, Ordinals
<1>4. OneInFlight' /\ LiveIsSecured'
  BY <1>2 DEF CallsInv, OneInFlight, LiveIsSecured, LiveOf, Ordinals, Secured
<1>5. QED
  BY <1>1, <1>2, <1>3, <1>4 DEF CallsInv, CallsTyped

-----------------------------------------------------------------------------
Inv == BooksInv /\ CallsInv

(* Every step of an attempt keeps both halves.                             *)
LEMMA AttemptStepPreserves ==
  ASSUME Inv, NEW c \in Calls, NEW n \in Ordinals(c), AttemptStep(c, n)
  PROVE  Inv'
<1>1. ASSUME NEW to, NEW p, Move(c, n, to, p)
      PROVE  BooksInv'
  BY <1>1 DEF Move, Inv, BooksInv, WithinCeiling
<1>2. ASSUME NEW to, NEW u \in [Resources -> Nat], SettleAndAdvance(c, n, to, u)
      PROVE  BooksInv'
  <2>1. CASE Resolve(c, u)
    BY <1>2, <2>1, ResolveKeepsBooks DEF Inv, SettleAndAdvance
  <2>2. CASE UNCHANGED <<account, overrun>>
    BY <1>2, <2>2 DEF Inv, SettleAndAdvance, BooksInv, WithinCeiling
  <2>3. QED
    BY <1>2, <2>1, <2>2 DEF SettleAndAdvance
<1>3. CASE Reserve(c, n)
  BY <1>3, ReserveFits, ReserveKeepsBooks DEF Reserve, Inv
<1>11. ASSUME NEW to \in Failed, EndUnresolved(c, n, to)
       PROVE  Inv'
  BY <1>11, EndUnresolvedFits DEF EndUnresolved, Inv, BooksInv, WithinCeiling
<1>4. CASE MarkSent(c, n)
  BY <1>1, <1>4, MoveFits DEF MarkSent, Inv, SentStates
<1>5. CASE Validate(c, n)
  <2>1. attempts[c][n].response \in Responses \cup {NoResponse}
    BY AttemptTyped DEF Inv, CallsInv, Attempt
  <2>2. QED
    BY <1>1, <1>5, <2>1, MoveFits DEF Validate, Inv, SentStates
<1>6. ASSUME NEW p \in Responses, StoreResponse(c, n, p)
      PROVE  Inv'
  BY <1>1, <1>6, MoveFits DEF StoreResponse, Inv, SentStates
<1>7. ASSUME NEW u \in Actuals, Commit(c, n, u) \/ FailAfterResponse(c, n, u)
      PROVE  Inv'
  <2>1. u \in [Resources -> Nat]
    BY CallsAssumption
  <2>2. QED
    BY <1>2, <1>7, <2>1, SettleFits DEF Commit, FailAfterResponse, Inv, Failed
<1>8. CASE FailBeforeSend(c, n)
  <2>1. Nothing \in [Resources -> Nat]
    BY DEF Nothing
  <2>2. QED
    BY <1>2, <1>8, <2>1, SettleFits DEF FailBeforeSend, Inv, Failed
<1>9. CASE FailUnknown(c, n)
  <2>1. Worst[c] \in [Resources -> Nat]
    BY CallsAssumption
  <2>2. QED
    BY <1>2, <1>9, <2>1, SettleFits DEF FailUnknown, Inv, Failed
<1>10. QED
  BY <1>3, <1>4, <1>5, <1>6, <1>7, <1>8, <1>9, <1>11 DEF AttemptStep

(* Every step of any client keeps the invariant.                           *)
LEMMA StepPreserves ==
  ASSUME Inv, [Next]_callVars
  PROVE  Inv'
<1>1. ASSUME NEW r \in Resources, NEW cap \in Caps,
             EnsureAccount(r, cap) \/ AuthorizeCapRaise(r, cap)
      PROVE  Inv'
  <2>1. BooksInv'
    BY <1>1, CapChangeKeepsBooks DEF Inv
  <2>2. UNCHANGED <<call, attempts>>
    BY <1>1 DEF EnsureAccount, AuthorizeCapRaise
  <2>3. LiveIsSecured'
    BY <2>2 DEF Inv, CallsInv, LiveIsSecured, Ordinals, Secured
  <2>4. CallsInv'
    BY <2>2, <2>3 DEF Inv, CallsInv, CallsTyped, OneInFlight, BoughtOnce, LiveOf, Bought, Ordinals
  <2>5. QED
    BY <2>1, <2>4 DEF Inv
<1>2. ASSUME NEW c \in Calls, OpenCall(c) \/ CloseCall(c)
      PROVE  Inv'
  <2>1. UNCHANGED <<account, ceiling, overrun>>
    BY <1>2 DEF OpenCall, CloseCall
  <2>2. QED
    BY <1>2, <2>1, CallStepPreserves DEF Inv, BooksInv, WithinCeiling
<1>3. ASSUME NEW c \in Calls, BeginAttempt(c)
      PROVE  Inv'
  <2>1. UNCHANGED <<account, ceiling, overrun>>
    BY <1>3 DEF BeginAttempt
  <2>2. QED
    BY <1>3, <2>1, BeginPreserves DEF Inv, BooksInv, WithinCeiling
<1>4. ASSUME NEW c \in Calls, NEW n \in Ordinals(c), AttemptStep(c, n)
      PROVE  Inv'
  BY <1>4, AttemptStepPreserves
<1>5. CASE UNCHANGED callVars
  <2>1. BooksInv'
    BY <1>5 DEF callVars, Inv, BooksInv, WithinCeiling
  <2>2. CallsInv'
    BY <1>5 DEF callVars, Inv, CallsInv, CallsTyped, OneInFlight, BoughtOnce,
                LiveIsSecured, LiveOf, Bought, Ordinals, Secured
  <2>3. QED
    BY <2>1, <2>2 DEF Inv
<1>6. QED
  BY <1>1, <1>2, <1>3, <1>4, <1>5 DEF Next

(* Empty books and no calls satisfy it.                                    *)
LEMMA InitInv == Init => Inv
<1> SUFFICES ASSUME Init
             PROVE  Inv
  OBVIOUS
<1>1. \A r \in Resources : Cap[r] \in Nat
  BY CallsAssumption
<1>2. \A r \in Resources : account[r] = [cap |-> Cap[r], reserved |-> 0, settled |-> 0]
  BY DEF Init
<1>3. account \in [Resources -> Account]
  BY <1>1 DEF Init, Account
<1>4. \A r \in Resources : /\ account[r].cap <= ceiling[r]
                           /\ account[r].reserved + account[r].settled <= ceiling[r] + overrun[r]
  BY <1>1, <1>2 DEF Init
<1>5. BooksInv
  BY <1>3, <1>4, CallsAssumption DEF Init, BooksInv, WithinCeiling
<1>6. CallsTyped
  BY EmptySeq DEF Init, CallsTyped, Call
<1>7. \A c \in Calls : Ordinals(c) = {} /\ call[c].state = "ABSENT"
  <2>1. \A c \in Calls : attempts[c] = << >> /\ call[c].state = "ABSENT"
    BY DEF Init
  <2>2. Len(<< >>) = 0
    OBVIOUS
  <2>3. 1..0 = {}
    OBVIOUS
  <2>4. QED
    BY <2>1, <2>2, <2>3 DEF Ordinals
<1>8. OneInFlight /\ BoughtOnce /\ LiveIsSecured
  BY <1>7 DEF OneInFlight, BoughtOnce, LiveIsSecured, LiveOf, Bought
<1>9. QED
  BY <1>5, <1>6, <1>8 DEF Inv, CallsInv

(* The invariant holds always.                                             *)
LEMMA Invariance == CallsSpec => []Inv
<1>1. Inv /\ [Next]_callVars => Inv'
  BY StepPreserves
<1>2. QED
  BY <1>1, InitInv, PTL DEF CallsSpec

-----------------------------------------------------------------------------
(* The rows of the three tables keep their types.                          *)
THEOREM CallsTypeCorrect == CallsSpec => []CallsTypeOK
<1>1. Inv => CallsTypeOK
  BY DEF Inv, BooksInv, CallsInv, CallsTyped, CallsTypeOK
<1>2. QED
  BY <1>1, Invariance, PTL

(* No interleaving of clients buys a logical call twice, or has it bought  *)
(* with an attempt still in flight.                                        *)
THEOREM CallsAreBoughtOnce == CallsSpec => []BoughtOnce
<1>1. Inv => BoughtOnce
  BY DEF Inv, CallsInv
<1>2. QED
  BY <1>1, Invariance, PTL

(* No interleaving has two attempts of one call in flight.                 *)
THEOREM OneAttemptInFlight == CallsSpec => []OneInFlight
<1>1. Inv => OneInFlight
  BY DEF Inv, CallsInv
<1>2. QED
  BY <1>1, Invariance, PTL

(* Nothing is in flight without a reservation, nothing is bought without   *)
(* being charged, and nothing is charged before it is over, whatever a     *)
(* client leaves unresolved (external_call_ledger.py:351-360, 491-513).    *)
THEOREM NothingInFlightUnsecured == CallsSpec => []LiveIsSecured
<1>1. Inv => LiveIsSecured
  BY DEF Inv, CallsInv
<1>2. QED
  BY <1>1, Invariance, PTL

(* Spending stays within the largest authorised cap plus the overruns that *)
(* settle has reported, whatever the caps, the calls and their usages.     *)
THEOREM SpendingIsCeiled == CallsSpec => []WithinCeiling
<1>1. Inv => WithinCeiling
  BY DEF Inv, BooksInv
<1>2. QED
  BY <1>1, Invariance, PTL

-----------------------------------------------------------------------------
(* The books balance.  A step changes the attempts by one at most, and so  *)
(* each of the two sums by what that one holds, or was charged, less what  *)
(* it did before: the lemmas on sums say so, and it is what the step does  *)
(* to the account.                                                         *)
HeldBy(c, a, r) == IF a.money = "RESERVED" THEN Worst[c][r] ELSE 0
HeldSum(r)      == SumFunctionOnSet(HeldOf(r), AttemptsOfAll)
ChargedSum(r)   == SumFunctionOnSet(ChargedOf(r), AttemptsOfAll)

BalanceInv ==
  /\ account \in [Resources -> Account]
  /\ CallsInv
  /\ \A c \in Calls : Len(attempts[c]) <= MaxAttempts
  /\ IsFiniteSet(AttemptsOfAll)
  /\ BooksBalance

(* What the attempts hold and were charged are natural numbers.            *)
LEMMA SummandsTyped ==
  ASSUME CallsTyped, NEW r \in Resources, NEW x \in AttemptsOfAll
  PROVE  /\ x[1] \in Calls /\ x[2] \in Ordinals(x[1]) /\ x = <<x[1], x[2]>>
         /\ HeldOf(r)[x] = HeldBy(x[1], attempts[x[1]][x[2]], r)
         /\ ChargedOf(r)[x] = attempts[x[1]][x[2]].charged[r]
         /\ HeldOf(r)[x] \in Nat
         /\ ChargedOf(r)[x] \in Nat
<1>1. x[1] \in Calls /\ x[2] \in Ordinals(x[1]) /\ x = <<x[1], x[2]>>
  BY DEF AttemptsOfAll
<1>2. attempts[x[1]][x[2]] \in Attempt
  BY <1>1, AttemptTyped
<1>3. HeldOf(r)[x] = HeldBy(x[1], attempts[x[1]][x[2]], r)
  BY DEF HeldOf, HeldBy
<1>4. ChargedOf(r)[x] = attempts[x[1]][x[2]].charged[r]
  BY DEF ChargedOf
<1>5. Worst[x[1]][r] \in Nat
  BY <1>1, CallsAssumption
<1>6. attempts[x[1]][x[2]].charged[r] \in Nat
  BY <1>2 DEF Attempt
<1>7. QED
  BY <1>1, <1>3, <1>4, <1>5, <1>6 DEF HeldBy

(* Replacing an attempt leaves the attempts the same in number.            *)
LEMMA SetAttemptKeeps ==
  ASSUME CallsTyped, NEW c \in Calls, NEW n \in Ordinals(c), NEW a \in Attempt,
         SetAttempt(c, n, a)
  PROVE  /\ \A d \in Calls : Len(attempts'[d]) = Len(attempts[d])
         /\ AttemptsOfAll' = AttemptsOfAll
<1>1. \A d \in Calls : Len(attempts'[d]) = Len(attempts[d])
  BY SetAttemptFacts
<1>2. \A d \in Calls : Ordinals(d)' = Ordinals(d)
  BY <1>1 DEF Ordinals
<1>3. QED
  BY <1>1, <1>2 DEF AttemptsOfAll

(* It changes each sum by the difference it makes.                         *)
LEMMA SetAttemptBalance ==
  ASSUME BalanceInv, NEW c \in Calls, NEW n \in Ordinals(c), NEW a \in Attempt,
         SetAttempt(c, n, a), NEW r \in Resources
  PROVE  /\ HeldSum(r)' = HeldSum(r) + HeldBy(c, a, r) - HeldBy(c, attempts[c][n], r)
         /\ ChargedSum(r)' = ChargedSum(r) + a.charged[r] - attempts[c][n].charged[r]
<1>1. CallsTyped
  BY DEF BalanceInv, CallsInv
<1>2. AttemptsOfAll' = AttemptsOfAll
  BY <1>1, SetAttemptKeeps
<1>3. \A d \in Calls : \A m \in Ordinals(d) :
        attempts'[d][m] = IF d = c /\ m = n THEN a ELSE attempts[d][m]
  BY <1>1, SetAttemptFacts
<1> DEFINE y == <<c, n>>
           All == AttemptsOfAll
           w == HeldOf(r)
           v == HeldOf(r)'
           f == ChargedOf(r)
           g == ChargedOf(r)'
<1>4. y \in All
  <2>1. Len(attempts[c]) <= MaxAttempts /\ attempts[c] \in Seq(Attempt)
    BY <1>1 DEF BalanceInv, CallsTyped
  <2>2. n \in 1..MaxAttempts
    BY <2>1, LenProperties, CallsAssumption DEF Ordinals
  <2>3. QED
    BY <2>2 DEF AttemptsOfAll
<1>5. ASSUME NEW x \in All
      PROVE  /\ x[1] \in Calls /\ x[2] \in Ordinals(x[1])
             /\ x[1] = c /\ x[2] = n => x = y
             /\ w[x] = HeldBy(x[1], attempts[x[1]][x[2]], r) /\ w[x] \in Nat
             /\ f[x] = attempts[x[1]][x[2]].charged[r] /\ f[x] \in Nat
  BY <1>1, SummandsTyped
<1>6. ASSUME NEW x \in All
      PROVE  /\ v[x] = HeldBy(x[1], attempts'[x[1]][x[2]], r)
             /\ g[x] = attempts'[x[1]][x[2]].charged[r]
  BY <1>2 DEF HeldOf, HeldBy, ChargedOf
<1>7. y[1] = c /\ y[2] = n /\ attempts'[c][n] = a
  BY <1>3
<1>8. HeldBy(c, a, r) \in Nat /\ a.charged[r] \in Nat
  <2>1. Worst[c][r] \in Nat
    BY CallsAssumption
  <2>2. a.charged[r] \in Nat
    BY DEF Attempt
  <2>3. QED
    BY <2>1, <2>2 DEF HeldBy
<1>9. IsFiniteSet(All)
  BY DEF BalanceInv
<1> HIDE DEF y, All, w, v, f, g
<1>10. /\ v[y] = HeldBy(c, a, r) /\ w[y] = HeldBy(c, attempts[c][n], r)
       /\ g[y] = a.charged[r] /\ f[y] = attempts[c][n].charged[r]
  BY <1>4, <1>5, <1>6, <1>7
<1>11. \A x \in All \ {y} : w[x] = v[x] /\ f[x] = g[x]
  <2>1. ASSUME NEW x \in All, x # y
        PROVE  attempts'[x[1]][x[2]] = attempts[x[1]][x[2]]
    BY <1>3, <1>5, <2>1
  <2>2. QED
    BY <1>5, <1>6, <2>1
<1>12. \A x \in All : w[x] \in Int /\ v[x] \in Int /\ f[x] \in Int /\ g[x] \in Int
  <2>1. \A x \in All : w[x] \in Nat /\ f[x] \in Nat
    BY <1>5
  <2>2. v[y] \in Nat /\ g[y] \in Nat
    BY <1>8, <1>10
  <2>3. QED
    BY <1>11, <2>1, <2>2
<1>13. SumFunctionOnSet(v, All) = SumFunctionOnSet(w, All) + v[y] - w[y]
  BY <1>4, <1>9, <1>11, <1>12, SumChange
<1>14. SumFunctionOnSet(g, All) = SumFunctionOnSet(f, All) + g[y] - f[y]
  BY <1>4, <1>9, <1>11, <1>12, SumChange
<1>15. /\ HeldSum(r)' = SumFunctionOnSet(v, All)
       /\ ChargedSum(r)' = SumFunctionOnSet(g, All)
  BY <1>2 DEF HeldSum, ChargedSum, v, g, All
<1>16. /\ HeldSum(r) = SumFunctionOnSet(w, All)
       /\ ChargedSum(r) = SumFunctionOnSet(f, All)
  BY DEF HeldSum, ChargedSum, w, f, All
<1>17. QED
  BY <1>10, <1>13, <1>14, <1>15, <1>16

(* The books balance after a step that changes an attempt and the account  *)
(* by the same amounts.                                                    *)
LEMMA BalanceBySet ==
  ASSUME BalanceInv, Inv',
         NEW c \in Calls, NEW n \in Ordinals(c), NEW a \in Attempt, SetAttempt(c, n, a),
         \A r \in Resources :
           /\ account'[r].reserved =
                account[r].reserved + HeldBy(c, a, r) - HeldBy(c, attempts[c][n], r)
           /\ account'[r].settled =
                account[r].settled + a.charged[r] - attempts[c][n].charged[r]
  PROVE  BalanceInv'
<1>1. ASSUME NEW r \in Resources
      PROVE  account'[r].reserved = HeldSum(r)' /\ account'[r].settled = ChargedSum(r)'
  <2>1. account[r].reserved = HeldSum(r) /\ account[r].settled = ChargedSum(r)
    BY DEF BalanceInv, BooksBalance, HeldSum, ChargedSum
  <2>2. /\ HeldSum(r)' = HeldSum(r) + HeldBy(c, a, r) - HeldBy(c, attempts[c][n], r)
        /\ ChargedSum(r)' = ChargedSum(r) + a.charged[r] - attempts[c][n].charged[r]
    BY SetAttemptBalance
  <2>3. QED
    BY <2>1, <2>2
<1>2. BooksBalance'
  BY <1>1 DEF BooksBalance, HeldSum, ChargedSum
<1>3. /\ \A d \in Calls : Len(attempts'[d]) = Len(attempts[d])
      /\ AttemptsOfAll' = AttemptsOfAll
  BY SetAttemptKeeps DEF BalanceInv, CallsInv
<1>4. QED
  BY <1>2, <1>3 DEF BalanceInv, Inv, BooksInv

(* An account that keeps its totals, and attempts that stay as they are.   *)
LEMMA BalanceUnmoved ==
  ASSUME BalanceInv, Inv', UNCHANGED attempts,
         \A r \in Resources : /\ account'[r].reserved = account[r].reserved
                              /\ account'[r].settled = account[r].settled
  PROVE  BalanceInv'
<1>1. AttemptsOfAll' = AttemptsOfAll
  BY DEF AttemptsOfAll, Ordinals
<1>2. \A r \in Resources : HeldOf(r)' = HeldOf(r) /\ ChargedOf(r)' = ChargedOf(r)
  BY <1>1 DEF HeldOf, ChargedOf
<1>3. BooksBalance'
  BY <1>1, <1>2 DEF BalanceInv, BooksBalance
<1>4. QED
  BY <1>1, <1>3 DEF BalanceInv, Inv, BooksInv

(* A reservation is added to the account and to its attempt.               *)
LEMMA ReserveBalance ==
  ASSUME BalanceInv, Inv', NEW c \in Calls, NEW n \in Ordinals(c), Reserve(c, n)
  PROVE  BalanceInv'
<1> DEFINE old == attempts[c][n]
           a == [old EXCEPT !.state = "BUDGET_RESERVED", !.money = "RESERVED"]
<1>1. old \in Attempt /\ old.state = "INTENT" /\ old.money # "RESERVED"
  <2>1. old \in Attempt /\ Secured(old) /\ old.state \in Live
    BY AttemptTyped DEF BalanceInv, CallsInv, LiveIsSecured, Reserve, CanMove
  <2>2. old.state = "INTENT"
    BY <2>1 DEF Reserve, CanMove, LegalAttempt, Live, Failed
  <2>3. QED
    BY <2>1, <2>2 DEF Secured
<1>2. a \in Attempt /\ a.money = "RESERVED" /\ a.charged = old.charged
  BY <1>1 DEF Attempt, AttemptState, Live
<1>3. SetAttempt(c, n, a)
  BY DEF Reserve
<1> HIDE DEF a
<1>4. ASSUME NEW r \in Resources
      PROVE  /\ account'[r].reserved = account[r].reserved + HeldBy(c, a, r) - HeldBy(c, old, r)
             /\ account'[r].settled = account[r].settled + a.charged[r] - old.charged[r]
  <2>1. HeldBy(c, a, r) = Worst[c][r] /\ HeldBy(c, old, r) = 0
    BY <1>1, <1>2 DEF HeldBy
  <2>2. Worst[c][r] \in Nat /\ old.charged[r] \in Nat /\ a.charged[r] = old.charged[r]
    BY <1>1, <1>2, CallsAssumption DEF Attempt
  <2>3. account[r] \in Account
    BY DEF BalanceInv
  <2>4. account'[r] = [account[r] EXCEPT !.reserved = @ + Worst[c][r]]
    BY DEF Reserve
  <2>5. /\ account'[r].reserved = account[r].reserved + Worst[c][r]
        /\ account'[r].settled = account[r].settled
        /\ account[r].reserved \in Int /\ account[r].settled \in Int
    BY <2>3, <2>4 DEF Account
  <2>6. QED
    BY <2>1, <2>2, <2>5
<1>5. QED
  BY <1>2, <1>3, <1>4, BalanceBySet

(* A settlement takes the reservation off the account, and charges the     *)
(* account and the attempt alike; an attempt without one has neither.      *)
LEMMA SettleBalance ==
  ASSUME BalanceInv, Inv', NEW c \in Calls, NEW n \in Ordinals(c),
         NEW to \in Failed \cup {"COMMITTED"}, NEW u \in [Resources -> Nat],
         SettleAndAdvance(c, n, to, u)
  PROVE  BalanceInv'
<1> DEFINE old == attempts[c][n]
           settled == [old EXCEPT !.state = to, !.money = "SETTLED", !.charged = Charge(c, u)]
           plain == [old EXCEPT !.state = to]
<1>1. old \in Attempt /\ Secured(old) /\ old.state \in Live
  BY AttemptTyped DEF BalanceInv, CallsInv, LiveIsSecured, SettleAndAdvance, CanMove
<1>2. CASE old.money = "RESERVED"
  <2>1. Charge(c, u) \in [Resources -> Nat]
    BY CallsAssumption DEF Charge
  <2>2. settled \in Attempt /\ settled.money = "SETTLED" /\ settled.charged = Charge(c, u)
    BY <1>1, <2>1 DEF Attempt, AttemptState
  <2>3. SetAttempt(c, n, settled)
    BY <1>2 DEF SettleAndAdvance
  <2> HIDE DEF settled
  <2>4. Resolve(c, u)
    BY <1>2 DEF SettleAndAdvance
  <2>5. old.charged = Nothing
    BY <1>1, <1>2 DEF Secured
  <2>6. ASSUME NEW r \in Resources
        PROVE  /\ account'[r].reserved =
                    account[r].reserved + HeldBy(c, settled, r) - HeldBy(c, old, r)
               /\ account'[r].settled =
                    account[r].settled + settled.charged[r] - old.charged[r]
    <3>1. HeldBy(c, settled, r) = 0 /\ HeldBy(c, old, r) = Worst[c][r]
      BY <1>2, <2>2 DEF HeldBy
    <3>2. /\ Worst[c][r] \in Nat /\ old.charged[r] = 0
          /\ settled.charged[r] = Charge(c, u)[r] /\ Charge(c, u)[r] \in Nat
      BY <2>1, <2>2, <2>5, CallsAssumption DEF Nothing
    <3>3. account[r] \in Account
      BY DEF BalanceInv
    <3> DEFINE ch == Charge(c, u)[r]
    <3>4. account'[r] = [account[r] EXCEPT !.reserved = @ - Worst[c][r], !.settled = @ + ch]
      BY <2>4 DEF Resolve
    <3> HIDE DEF ch
    <3>5. /\ account'[r].reserved = account[r].reserved - Worst[c][r]
          /\ account'[r].settled = account[r].settled + ch
          /\ account[r].reserved \in Int /\ account[r].settled \in Int
      BY <3>3, <3>4 DEF Account
    <3>6. QED
      BY <3>1, <3>2, <3>5 DEF ch
  <2>7. QED
    BY <2>2, <2>3, <2>6, BalanceBySet
<1>3. CASE old.money # "RESERVED"
  <2>1. plain \in Attempt /\ plain.money = old.money /\ plain.charged = old.charged
    BY <1>1 DEF Attempt, AttemptState
  <2>2. SetAttempt(c, n, plain) /\ account' = account
    BY <1>3 DEF SettleAndAdvance
  <2> HIDE DEF plain
  <2>3. ASSUME NEW r \in Resources
        PROVE  /\ account'[r].reserved =
                    account[r].reserved + HeldBy(c, plain, r) - HeldBy(c, old, r)
               /\ account'[r].settled = account[r].settled + plain.charged[r] - old.charged[r]
    <3>1. HeldBy(c, plain, r) = 0 /\ HeldBy(c, old, r) = 0
      BY <1>3, <2>1 DEF HeldBy
    <3>2. plain.charged[r] = old.charged[r] /\ old.charged[r] \in Nat
      BY <1>1, <2>1 DEF Attempt
    <3>3. account[r].reserved \in Int /\ account[r].settled \in Int
      BY DEF BalanceInv, Account
    <3>4. QED
      BY <2>2, <3>1, <3>2, <3>3
  <2>4. QED
    BY <2>1, <2>2, <2>3, BalanceBySet
<1>4. QED
  BY <1>2, <1>3

(* A move, or an end that resolves nothing, leaves the money where it is.  *)
LEMMA PlainBalance ==
  ASSUME BalanceInv, Inv', NEW c \in Calls, NEW n \in Ordinals(c), NEW a \in Attempt,
         SetAttempt(c, n, a), UNCHANGED account,
         a.money = attempts[c][n].money, a.charged = attempts[c][n].charged
  PROVE  BalanceInv'
<1>1. ASSUME NEW r \in Resources
      PROVE  /\ account'[r].reserved =
                  account[r].reserved + HeldBy(c, a, r) - HeldBy(c, attempts[c][n], r)
             /\ account'[r].settled =
                  account[r].settled + a.charged[r] - attempts[c][n].charged[r]
  <2>1. HeldBy(c, a, r) = HeldBy(c, attempts[c][n], r) /\ HeldBy(c, a, r) \in Nat
    BY CallsAssumption DEF HeldBy
  <2>2. a.charged[r] = attempts[c][n].charged[r] /\ a.charged[r] \in Nat
    BY DEF Attempt
  <2>3. account[r].reserved \in Int /\ account[r].settled \in Int
    BY DEF BalanceInv, Account
  <2>4. QED
    BY <2>1, <2>2, <2>3
<1>2. QED
  BY <1>1, BalanceBySet

(* A new attempt adds to neither sum.                                      *)
LEMMA BeginBalance ==
  ASSUME BalanceInv, Inv', NEW c \in Calls, BeginAttempt(c)
  PROVE  BalanceInv'
<1> DEFINE new == [state |-> "INTENT", money |-> "none",
                   charged |-> [r \in Resources |-> 0], response |-> NoResponse]
           last == Len(attempts[c]) + 1
           y == <<c, last>>
           All == AttemptsOfAll
<1>1. CallsTyped /\ attempts[c] \in Seq(Attempt)
  BY DEF BalanceInv, CallsInv, CallsTyped
<1>2. attempts' = [attempts EXCEPT ![c] = Append(attempts[c], new)]
  BY DEF BeginAttempt
<1>3. new \in Attempt /\ new.money = "none" /\ \A r \in Resources : new.charged[r] = 0
  BY DEF Attempt, AttemptState, Live
<1> HIDE DEF new
<1>4. /\ Len(Append(attempts[c], new)) = last
      /\ \A m \in 1..Len(attempts[c]) : Append(attempts[c], new)[m] = attempts[c][m]
      /\ Append(attempts[c], new)[last] = new
  BY <1>1, <1>3, AppendProperties
<1>5. Len(attempts[c]) \in Nat /\ last <= MaxAttempts
  BY <1>1, LenProperties, CallsAssumption DEF BeginAttempt
<1>6. /\ attempts'[c] = Append(attempts[c], new)
      /\ \A d \in Calls : d # c => attempts'[d] = attempts[d]
  BY <1>1, <1>2 DEF CallsTyped
<1>7. /\ Ordinals(c)' = Ordinals(c) \cup {last} /\ last \notin Ordinals(c)
      /\ \A d \in Calls : d # c => Ordinals(d)' = Ordinals(d)
  BY <1>4, <1>5, <1>6 DEF Ordinals
<1>8. AttemptsOfAll' = All \cup {y} /\ y \notin All
  <2>1. last \in 1..MaxAttempts
    BY <1>5, CallsAssumption
  <2>2. ASSUME NEW x \in Calls \X (1..MaxAttempts)
        PROVE  x[2] \in Ordinals(x[1])' <=> x[2] \in Ordinals(x[1]) \/ x = y
    <3>1. x[1] \in Calls /\ x = <<x[1], x[2]>>
      BY <2>2
    <3>2. CASE x[1] = c
      BY <1>7, <3>1, <3>2
    <3>3. CASE x[1] # c
      BY <1>7, <3>1, <3>3
    <3>4. QED
      BY <3>2, <3>3
  <2>3. y \in Calls \X (1..MaxAttempts) /\ y[1] = c /\ y[2] = last
    BY <2>1
  <2> HIDE DEF y, last
  <2>4. \A x : x \in AttemptsOfAll' <=> x \in All \/ x = y
    BY <2>2, <2>3 DEF AttemptsOfAll
  <2>5. y \notin All
    BY <1>7, <2>3 DEF AttemptsOfAll
  <2>6. QED
    BY <2>4, <2>5
<1>9. IsFiniteSet(All) /\ IsFiniteSet(AttemptsOfAll')
  BY <1>8, FS_AddElement DEF BalanceInv
<1>10. ASSUME NEW r \in Resources
       PROVE  HeldSum(r)' = HeldSum(r) /\ ChargedSum(r)' = ChargedSum(r)
  <2> DEFINE w == HeldOf(r)
             v == HeldOf(r)'
             f == ChargedOf(r)
             g == ChargedOf(r)'
  <2>1. ASSUME NEW x \in All
        PROVE  /\ w[x] = HeldBy(x[1], attempts[x[1]][x[2]], r) /\ w[x] \in Nat
               /\ f[x] = attempts[x[1]][x[2]].charged[r] /\ f[x] \in Nat
               /\ attempts'[x[1]][x[2]] = attempts[x[1]][x[2]]
    <3>1. x[1] \in Calls /\ x[2] \in Ordinals(x[1])
      BY <1>1, SummandsTyped
    <3>2. attempts'[x[1]][x[2]] = attempts[x[1]][x[2]]
      BY <1>4, <1>6, <3>1 DEF Ordinals
    <3>3. QED
      BY <1>1, <3>2, SummandsTyped
  <2>2. ASSUME NEW x \in AttemptsOfAll'
        PROVE  /\ v[x] = HeldBy(x[1], attempts'[x[1]][x[2]], r)
               /\ g[x] = attempts'[x[1]][x[2]].charged[r]
    BY DEF HeldOf, HeldBy, ChargedOf
  <2>3. y[1] = c /\ y[2] = last /\ attempts'[c][last] = new
    BY <1>4, <1>6
  <2> HIDE DEF y, All, w, v, f, g, last
  <2>4. v[y] = 0 /\ g[y] = 0
    <3>1. v[y] = HeldBy(c, new, r) /\ g[y] = new.charged[r]
      BY <1>8, <2>2, <2>3
    <3>2. QED
      BY <1>3, <3>1 DEF HeldBy
  <2>5. IntegersOn(w, All) /\ AlikeOn(w, v, All)
    BY <1>8, <2>1, <2>2 DEF IntegersOn, AlikeOn
  <2>6. IntegersOn(f, All) /\ AlikeOn(f, g, All)
    BY <1>8, <2>1, <2>2 DEF IntegersOn, AlikeOn
  <2>7. SumFunctionOnSet(v, All \cup {y}) = SumFunctionOnSet(w, All) + v[y]
    <3>1. IsFiniteSet(All) /\ y \notin All /\ v[y] \in Int
      BY <1>8, <1>9, <2>4
    <3>2. QED
      BY <2>5, <3>1, SumAdd
  <2>8. SumFunctionOnSet(g, All \cup {y}) = SumFunctionOnSet(f, All) + g[y]
    <3>1. IsFiniteSet(All) /\ y \notin All /\ g[y] \in Int
      BY <1>8, <1>9, <2>4
    <3>2. QED
      BY <2>6, <3>1, SumAdd
  <2>9. SumFunctionOnSet(w, All) \in Int /\ SumFunctionOnSet(f, All) \in Int
    BY <1>9, <2>5, <2>6, SumTyped DEF IntegersOn
  <2>10. /\ HeldSum(r)' = SumFunctionOnSet(v, All \cup {y})
         /\ ChargedSum(r)' = SumFunctionOnSet(g, All \cup {y})
    BY <1>8 DEF HeldSum, ChargedSum, v, g
  <2>11. /\ HeldSum(r) = SumFunctionOnSet(w, All)
         /\ ChargedSum(r) = SumFunctionOnSet(f, All)
    BY DEF HeldSum, ChargedSum, w, f, All
  <2>12. QED
    BY <2>4, <2>7, <2>8, <2>9, <2>10, <2>11
<1>11. BooksBalance'
  <2>1. account' = account
    BY DEF BeginAttempt
  <2>2. QED
    BY <1>10, <2>1 DEF BalanceInv, BooksBalance, HeldSum, ChargedSum
<1>12. \A d \in Calls : Len(attempts'[d]) <= MaxAttempts
  BY <1>4, <1>5, <1>6 DEF BalanceInv
<1>13. QED
  BY <1>9, <1>11, <1>12 DEF BalanceInv, Inv, BooksInv

(* Every step of an attempt.                                               *)
LEMMA AttemptStepBalances ==
  ASSUME BalanceInv, Inv', NEW c \in Calls, NEW n \in Ordinals(c), AttemptStep(c, n)
  PROVE  BalanceInv'
<1> DEFINE old == attempts[c][n]
<1>1. old \in Attempt
  BY AttemptTyped DEF BalanceInv, CallsInv
<1>2. ASSUME NEW to \in AttemptState, NEW p \in Responses \cup {NoResponse}, Move(c, n, to, p)
      PROVE  BalanceInv'
  <2> DEFINE new == [old EXCEPT !.state = to, !.response = p]
  <2>1. new \in Attempt /\ new.money = old.money /\ new.charged = old.charged
    BY <1>1 DEF Attempt
  <2>2. SetAttempt(c, n, new) /\ UNCHANGED account
    BY <1>2 DEF Move
  <2> HIDE DEF new
  <2>3. QED
    BY <2>1, <2>2, PlainBalance
<1>3. CASE Reserve(c, n)
  BY <1>3, ReserveBalance
<1>4. ASSUME NEW to \in Failed, EndUnresolved(c, n, to)
      PROVE  BalanceInv'
  <2> DEFINE new == [old EXCEPT !.state = to]
  <2>1. new \in Attempt /\ new.money = old.money /\ new.charged = old.charged
    BY <1>1 DEF Attempt, AttemptState
  <2>2. SetAttempt(c, n, new) /\ UNCHANGED account
    BY <1>4 DEF EndUnresolved
  <2> HIDE DEF new
  <2>3. QED
    BY <2>1, <2>2, PlainBalance
<1>5. CASE MarkSent(c, n)
  BY <1>2, <1>5 DEF MarkSent, AttemptState, Live
<1>6. CASE Validate(c, n)
  <2>1. old.response \in Responses \cup {NoResponse}
    BY <1>1 DEF Attempt
  <2>2. QED
    BY <1>2, <1>6, <2>1 DEF Validate, AttemptState, Live
<1>7. ASSUME NEW p \in Responses, StoreResponse(c, n, p)
      PROVE  BalanceInv'
  BY <1>2, <1>7 DEF StoreResponse, AttemptState, Live
<1>8. ASSUME NEW u \in Actuals, Commit(c, n, u) \/ FailAfterResponse(c, n, u)
      PROVE  BalanceInv'
  <2>1. u \in [Resources -> Nat]
    BY CallsAssumption
  <2>2. QED
    BY <1>8, <2>1, SettleBalance DEF Commit, FailAfterResponse, Failed
<1>9. CASE FailBeforeSend(c, n)
  <2>1. Nothing \in [Resources -> Nat]
    BY DEF Nothing
  <2>2. QED
    BY <1>9, <2>1, SettleBalance DEF FailBeforeSend, Failed
<1>10. CASE FailUnknown(c, n)
  <2>1. Worst[c] \in [Resources -> Nat]
    BY CallsAssumption
  <2>2. QED
    BY <1>10, <2>1, SettleBalance DEF FailUnknown, Failed
<1>11. QED
  BY <1>3, <1>4, <1>5, <1>6, <1>7, <1>8, <1>9, <1>10 DEF AttemptStep

LEMMA StepBalances ==
  ASSUME Inv', BalanceInv, [Next]_callVars
  PROVE  BalanceInv'
<1>1. ASSUME NEW r \in Resources, NEW cap \in Caps,
             EnsureAccount(r, cap) \/ AuthorizeCapRaise(r, cap)
      PROVE  BalanceInv'
  <2>1. account' = [account EXCEPT ![r].cap = cap] /\ UNCHANGED attempts
    BY <1>1 DEF EnsureAccount, AuthorizeCapRaise
  <2>2. ASSUME NEW s \in Resources
        PROVE  account'[s].reserved = account[s].reserved /\ account'[s].settled = account[s].settled
    <3>1. account[s] \in Account
      BY DEF BalanceInv
    <3>2. account'[s] = IF s = r THEN [account[s] EXCEPT !.cap = cap] ELSE account[s]
      BY <2>1 DEF BalanceInv
    <3>3. QED
      BY <3>1, <3>2 DEF Account
  <2>3. QED
    BY <2>1, <2>2, BalanceUnmoved
<1>2. ASSUME NEW c \in Calls, OpenCall(c) \/ CloseCall(c)
      PROVE  BalanceInv'
  BY <1>2, BalanceUnmoved DEF OpenCall, CloseCall
<1>3. CASE UNCHANGED callVars
  BY <1>3, BalanceUnmoved DEF callVars
<1>4. QED
  BY <1>1, <1>2, <1>3, BeginBalance, AttemptStepBalances DEF Next

(* Without attempts both sums are of nothing.                              *)
LEMMA InitBalances == Init => BalanceInv
<1> SUFFICES ASSUME Init
             PROVE  BalanceInv
  OBVIOUS
<1>1. Inv
  BY InitInv
<1>2. \A c \in Calls : attempts[c] = << >> /\ Len(attempts[c]) = 0
  BY DEF Init
<1>3. AttemptsOfAll = {}
  <2>1. \A c \in Calls : Ordinals(c) = {}
    BY <1>2 DEF Ordinals
  <2>2. QED
    BY <2>1 DEF AttemptsOfAll
<1>4. \A r \in Resources : account[r].reserved = 0 /\ account[r].settled = 0
  BY DEF Init
<1>5. BooksBalance
  BY <1>3, <1>4, SumEmpty DEF BooksBalance
<1>6. IsFiniteSet(AttemptsOfAll)
  BY <1>3, FS_EmptySet
<1>7. \A c \in Calls : Len(attempts[c]) <= MaxAttempts
  BY <1>2, CallsAssumption
<1>8. QED
  BY <1>1, <1>5, <1>6, <1>7 DEF BalanceInv, Inv, BooksInv

LEMMA BalanceInvariance == CallsSpec => []BalanceInv
<1>1. BalanceInv /\ Inv' /\ [Next]_callVars => BalanceInv'
  BY StepBalances
<1>2. QED
  BY <1>1, InitBalances, Invariance, PTL DEF CallsSpec

(* Whatever the clients do, the totals the accounts keep are what their    *)
(* reservations and settlements come to.                                   *)
THEOREM TheBooksBalance == CallsSpec => []BooksBalance
<1>1. BalanceInv => BooksBalance
  BY DEF BalanceInv
<1>2. QED
  BY <1>1, BalanceInvariance, PTL

(* What budget.py:21-23 asks of every account, at all times: no more is    *)
(* ever released than was reserved.                                        *)
THEOREM NothingIsReleasedTwice == CallsSpec => [](\A r \in Resources : account[r].reserved >= 0)
<1>1. BalanceInv => \A r \in Resources : account[r].reserved >= 0
  <2> SUFFICES ASSUME BalanceInv, NEW r \in Resources
               PROVE  account[r].reserved >= 0
    OBVIOUS
  <2>1. \A x \in AttemptsOfAll : HeldOf(r)[x] \in Nat
    BY SummandsTyped DEF BalanceInv, CallsInv
  <2>2. IsFiniteSet(AttemptsOfAll)
    BY DEF BalanceInv
  <2>3. SumFunctionOnSet(HeldOf(r), AttemptsOfAll) \in Nat
    BY <2>1, <2>2, SumNatural
  <2>4. QED
    BY <2>3 DEF BalanceInv, BooksBalance
<1>2. QED
  BY <1>1, BalanceInvariance, PTL

-----------------------------------------------------------------------------
(* The provider service.                                                   *)

\* the steps between the beginning and the end of an attempt
Working == {"reserve", "refused", "send", "upstream", "settle", "validate", "commit"}

\* the state of the attempt before each of them
StateAt == [reserve |-> "INTENT", refused |-> "INTENT", send |-> "BUDGET_RESERVED", upstream |-> "SENT",
            settle |-> "SENT", validate |-> "RESPONSE_STORED", commit |-> "VALIDATED"]

Busy(t) == thread[t].pc \in Working

\* thread t serves its attempt, and holds the reply its next step reads
Holds(t) ==
  /\ thread[t].n \in Ordinals(thread[t].call)
  /\ attempts[thread[t].call][thread[t].n].state = StateAt[thread[t].pc]
  /\ thread[t].pc \in {"settle", "validate", "commit"} => thread[t].reply \in Replies(thread[t].call)
  /\ thread[t].pc \in {"validate", "commit"} =>
       /\ thread[t].reply.status = "ok"
       /\ thread[t].reply.body \in Responses
       /\ attempts[thread[t].call][thread[t].n].response = thread[t].reply.body

ThreadInv ==
  /\ thread \in [Threads -> Thread]
  /\ \A t \in Threads : thread[t].pc # "idle" => thread[t].call \in Calls
  /\ \A t \in Threads : Busy(t) => Holds(t)
  /\ \A t, u \in Threads : Busy(t) /\ Busy(u) /\ thread[t].call = thread[u].call => t = u
  /\ ~serving => \A t \in Threads : thread[t] = Idle

\* attempt n of c is not over, or was charged what it cost, or was answered without a price
KeptAt(c, n) ==
  attempts[c][n].state \notin Live =>
    attempts[c][n].charged["usd"] >= heard[c][n].usd \/ Unpriced(c, heard[c][n])

HeardInv ==
  /\ heard \in [Calls -> [1..MaxAttempts -> Reply]]
  /\ \A c \in Calls : Len(attempts[c]) <= MaxAttempts
  /\ \A c \in Calls : \A n \in 1..MaxAttempts :
       /\ heard[c][n].usd \in Costs \cup {0}
       /\ n > Len(attempts[c]) => heard[c][n].usd = 0
  /\ \A c \in Calls : \A n \in Ordinals(c) :
       /\ attempts[c][n].state \in {"INTENT", "BUDGET_RESERVED"} => heard[c][n].usd = 0
       /\ KeptAt(c, n)
  /\ \A t \in Threads :
       thread[t].pc \in {"settle", "validate", "commit"} =>
         heard[thread[t].call][thread[t].n] = thread[t].reply

\* a request to p that neither read of the fence will stop, not sent yet
Escapes(t, p) ==
  /\ prov[thread[t].call] = p
  /\ \/ thread[t].pc \in {"open", "replay", "begin", "reserve", "send"}
     \/ thread[t].pc = "fence2" /\ latest["provider_consecutive_failures"] # p

Pending(p) == {t \in Threads : Escapes(t, p)}

FenceInv ==
  /\ latest \in [Kinds -> Providers \cup {None}]
  /\ fenced \subseteq Providers
  /\ spare \in [Providers -> Int]
  /\ \A k \in Kinds : latest[k] \in fenced \cup {None}
  /\ fenced # {} => \E k \in Kinds : latest[k] # None
  /\ \A p \in fenced : fenced = {p} => Cardinality(Pending(p)) <= spare[p]

(* Every 200 of a call carries the one response its bought attempt froze:  *)
(* a replay answers what the buyer answered (provider_server.py:527-547).  *)
AnswersAreFrozen ==
  \A a \in answers : /\ a[1] \in Calls
                     /\ call[a[1]].state = "COMMITTED"
                     /\ a[2] = CommittedResponse(a[1])

ServiceInv == Inv /\ ThreadInv

\* what an answered call may cost is foreseen by its worst case
PricesAreCovered == \A c \in Calls : \A u \in Costs : u <= Worst[c]["usd"]

-----------------------------------------------------------------------------
(* What a step does to the attempts.                                       *)

\* attempt n of c moves to the state to, with that response and charge
Moves(c, n, to, p, u) ==
  /\ attempts' \in [Calls -> Seq(Attempt)]
  /\ \A d \in Calls : Len(attempts'[d]) = Len(attempts[d])
  /\ \A d \in Calls : \A m \in Ordinals(d) :
       d # c \/ m # n => attempts'[d][m] = attempts[d][m]
  /\ attempts'[c][n].state = to
  /\ attempts'[c][n].response = p
  /\ attempts'[c][n].charged = u

(* Replacing an attempt by one with these fields is such a move.           *)
LEMMA SetMoves ==
  ASSUME CallsTyped, NEW c \in Calls, NEW n \in Ordinals(c), NEW a \in Attempt,
         SetAttempt(c, n, a)
  PROVE  Moves(c, n, a.state, a.response, a.charged)
BY SetAttemptFacts DEF Moves

(* The methods that only advance the state.                                *)
LEMMA MoveMoves ==
  ASSUME CallsTyped, NEW c \in Calls, NEW n \in Ordinals(c),
         NEW to \in AttemptState, NEW p \in Responses \cup {NoResponse}, Move(c, n, to, p)
  PROVE  /\ Moves(c, n, to, p, attempts[c][n].charged)
         /\ attempts[c][n].state \in Live /\ to \in LegalAttempt[attempts[c][n].state]
         /\ UNCHANGED <<account, call, ceiling, overrun>>
<1> DEFINE old == attempts[c][n]
           new == [old EXCEPT !.state = to, !.response = p]
<1>1. old \in Attempt
  BY AttemptTyped
<1>2. /\ new \in Attempt
      /\ new.state = to /\ new.response = p /\ new.charged = old.charged
  BY <1>1 DEF Attempt
<1>3. SetAttempt(c, n, new)
  BY DEF Move
<1> HIDE DEF new
<1>4. Moves(c, n, to, p, attempts[c][n].charged)
  BY <1>2, <1>3, SetMoves
<1>5. QED
  BY <1>4 DEF Move, CanMove

(* A reservation, and the end of an attempt that resolves nothing.         *)
LEMMA ReserveMoves ==
  ASSUME CallsTyped, NEW c \in Calls, NEW n \in Ordinals(c), Reserve(c, n)
  PROVE  /\ Moves(c, n, "BUDGET_RESERVED", attempts[c][n].response, attempts[c][n].charged)
         /\ call' = call
<1> DEFINE old == attempts[c][n]
           new == [old EXCEPT !.state = "BUDGET_RESERVED", !.money = "RESERVED"]
<1>1. old \in Attempt
  BY AttemptTyped
<1>2. /\ new \in Attempt /\ new.state = "BUDGET_RESERVED"
      /\ new.response = old.response /\ new.charged = old.charged
  BY <1>1 DEF Attempt, AttemptState, Live
<1>3. SetAttempt(c, n, new)
  BY DEF Reserve
<1> HIDE DEF new
<1>4. QED
  BY <1>2, <1>3, SetMoves DEF Reserve

LEMMA EndMoves ==
  ASSUME CallsTyped, NEW c \in Calls, NEW n \in Ordinals(c),
         NEW to \in Failed, EndUnresolved(c, n, to)
  PROVE  /\ Moves(c, n, to, attempts[c][n].response, attempts[c][n].charged)
         /\ UNCHANGED <<account, call>>
<1> DEFINE old == attempts[c][n]
           new == [old EXCEPT !.state = to]
<1>1. old \in Attempt
  BY AttemptTyped
<1>2. /\ new \in Attempt /\ new.state = to
      /\ new.response = old.response /\ new.charged = old.charged
  BY <1>1 DEF Attempt, AttemptState
<1>3. SetAttempt(c, n, new)
  BY DEF EndUnresolved
<1> HIDE DEF new
<1>4. QED
  BY <1>2, <1>3, SetMoves DEF EndUnresolved

(* A settlement charges what it resolves; an attempt that holds no money   *)
(* was never sent, and is not charged.                                     *)
LEMMA SettleMoves ==
  ASSUME CallsInv, NEW c \in Calls, NEW n \in Ordinals(c),
         NEW to \in {"COMMITTED"} \cup Failed, NEW u \in [Resources -> Nat],
         SettleAndAdvance(c, n, to, u)
  PROVE  /\ attempts[c][n].state \in Live /\ to \in LegalAttempt[attempts[c][n].state]
         /\ Moves(c, n, to, attempts[c][n].response,
                  IF attempts[c][n].state = "INTENT" THEN Nothing ELSE Charge(c, u))
         /\ call' = IF to = "COMMITTED"
                    THEN [call EXCEPT ![c] = [state |-> "COMMITTED", accepted |-> n]]
                    ELSE call
<1> DEFINE old == attempts[c][n]
           settled == [old EXCEPT !.state = to, !.money = "SETTLED", !.charged = Charge(c, u)]
           plain == [old EXCEPT !.state = to]
<1>1. /\ CallsTyped /\ old \in Attempt /\ Secured(old)
      /\ old.state \in Live /\ to \in LegalAttempt[old.state]
  BY AttemptTyped DEF CallsInv, LiveIsSecured, SettleAndAdvance, CanMove
<1>2. call' = IF to = "COMMITTED"
              THEN [call EXCEPT ![c] = [state |-> "COMMITTED", accepted |-> n]] ELSE call
  BY DEF SettleAndAdvance, SetCall
<1>3. to \in AttemptState
  BY DEF AttemptState
<1>4. CASE old.money = "RESERVED"
  <2>1. Charge(c, u) \in [Resources -> Nat]
    BY CallsAssumption DEF Charge
  <2>2. /\ settled \in Attempt /\ settled.state = to
        /\ settled.response = old.response /\ settled.charged = Charge(c, u)
    BY <1>1, <1>3, <2>1 DEF Attempt
  <2>3. SetAttempt(c, n, settled)
    BY <1>4 DEF SettleAndAdvance
  <2> HIDE DEF settled
  <2>4. Moves(c, n, to, old.response, Charge(c, u))
    BY <1>1, <2>2, <2>3, SetMoves
  <2>5. old.state # "INTENT"
    BY <1>1, <1>4 DEF Secured
  <2>6. QED
    BY <1>1, <1>2, <2>4, <2>5
<1>5. CASE old.money # "RESERVED"
  <2>1. old.state = "INTENT" /\ old.charged = Nothing
    BY <1>1, <1>5 DEF Secured, Attempt
  <2>2. plain \in Attempt /\ plain.state = to
        /\ plain.response = old.response /\ plain.charged = old.charged
    BY <1>1, <1>3 DEF Attempt
  <2>3. SetAttempt(c, n, plain)
    BY <1>5 DEF SettleAndAdvance
  <2> HIDE DEF plain
  <2>4. Moves(c, n, to, old.response, Nothing)
    BY <1>1, <2>1, <2>2, <2>3, SetMoves
  <2>5. QED
    BY <1>1, <1>2, <2>1, <2>4
<1>6. QED
  BY <1>4, <1>5

(* A new attempt is the last of its call.                                  *)
LEMMA BeginAppends ==
  ASSUME CallsTyped, NEW c \in Calls, BeginAttempt(c)
  PROVE  LET last == Len(attempts[c]) + 1
         IN  /\ attempts' \in [Calls -> Seq(Attempt)]
             /\ \A d \in Calls : d # c => attempts'[d] = attempts[d]
             /\ Len(attempts'[c]) = last /\ last \in Nat /\ last \in 1..MaxAttempts
             /\ \A m \in Ordinals(c) : attempts'[c][m] = attempts[c][m]
             /\ attempts'[c][last].state = "INTENT"
             /\ LiveOf(c) = {} /\ call' = call
<1> DEFINE new == [state |-> "INTENT", money |-> "none",
                   charged |-> [r \in Resources |-> 0], response |-> NoResponse]
           last == Len(attempts[c]) + 1
<1>1. attempts[c] \in Seq(Attempt) /\ new \in Attempt /\ new.state = "INTENT"
  BY DEF CallsTyped, Attempt, AttemptState, Live
<1>2. attempts' = [attempts EXCEPT ![c] = Append(attempts[c], new)]
  BY DEF BeginAttempt
<1> HIDE DEF new
<1>3. /\ Append(attempts[c], new) \in Seq(Attempt)
      /\ Len(Append(attempts[c], new)) = last
      /\ \A m \in 1..Len(attempts[c]) : Append(attempts[c], new)[m] = attempts[c][m]
      /\ Append(attempts[c], new)[last] = new
  BY <1>1, AppendProperties
<1>4. Len(attempts[c]) \in Nat /\ Len(attempts[c]) < MaxAttempts /\ MaxAttempts \in Nat
  BY <1>1, LenProperties, CallsAssumption DEF BeginAttempt
<1>5. /\ attempts' \in [Calls -> Seq(Attempt)]
      /\ attempts'[c] = Append(attempts[c], new)
      /\ \A d \in Calls : d # c => attempts'[d] = attempts[d]
  BY <1>2, <1>3 DEF CallsTyped
<1>6. last \in 1..MaxAttempts /\ last \in Nat
  BY <1>4
<1>7. QED
  BY <1>1, <1>3, <1>5, <1>6 DEF BeginAttempt, CanBegin, Ordinals

-----------------------------------------------------------------------------
(* What a step does to the threads.                                        *)

ThreadsTyped == thread \in [Threads -> Thread]

\* only thread t moves
Only(t) ==
  /\ thread' \in [Threads -> Thread]
  /\ \A u \in Threads \ {t} : thread'[u] = thread[u]

(* Going to a step keeps the call, the ordinal and the reply.              *)
LEMMA GotoFacts ==
  ASSUME ThreadsTyped, NEW t \in Threads, NEW pc \in Steps, Goto(t, pc)
  PROVE  /\ Only(t)
         /\ thread'[t].pc = pc /\ thread'[t].call = thread[t].call
         /\ thread'[t].n = thread[t].n /\ thread'[t].reply = thread[t].reply
<1> DEFINE x == [thread[t] EXCEPT !.pc = pc]
<1>1. thread[t] \in Thread
  BY DEF ThreadsTyped
<1>2. /\ x \in Thread /\ x.pc = pc /\ x.call = thread[t].call
      /\ x.n = thread[t].n /\ x.reply = thread[t].reply
  BY <1>1 DEF Thread
<1>3. thread' = [thread EXCEPT ![t] = x]
  BY DEF Goto
<1> HIDE DEF x
<1>4. QED
  BY <1>2, <1>3 DEF ThreadsTyped, Only

(* The idle thread is typed.                                               *)
LEMMA IdleTyped == Idle \in Thread /\ NoReply \in Reply
<1>1. NoReply \in Reply
  BY DEF NoReply, Reply
<1>2. QED
  BY <1>1 DEF Idle, Thread, Steps

(* A thread that answers or refuses is idle again.                         *)
LEMMA IdleFacts ==
  ASSUME ThreadsTyped, NEW t \in Threads, thread' = [thread EXCEPT ![t] = Idle]
  PROVE  Only(t) /\ thread'[t] = Idle /\ thread'[t].pc = "idle"
BY IdleTyped DEF ThreadsTyped, Only, Idle

(* A request arrives with nothing but its call.                            *)
LEMMA ArriveFacts ==
  ASSUME ThreadsTyped, NEW t \in Threads, NEW c \in Calls, Arrive(t, c)
  PROVE  Only(t) /\ thread'[t].pc = "fence" /\ thread'[t].call = c
<1> DEFINE x == [Idle EXCEPT !.pc = "fence", !.call = c]
<1>1. x \in Thread /\ x.pc = "fence" /\ x.call = c
  BY IdleTyped DEF Idle, Thread, Steps
<1>2. thread' = [thread EXCEPT ![t] = x]
  BY DEF Arrive
<1> HIDE DEF x
<1>3. QED
  BY <1>1, <1>2 DEF ThreadsTyped, Only

(* A begun attempt is held by its ordinal.                                 *)
LEMMA BeginFacts ==
  ASSUME ThreadsTyped, NEW t \in Threads, NEW n \in Nat,
         thread' = [thread EXCEPT ![t].pc = "reserve", ![t].n = n]
  PROVE  /\ Only(t)
         /\ thread'[t].pc = "reserve" /\ thread'[t].call = thread[t].call
         /\ thread'[t].n = n
<1> DEFINE x == [thread[t] EXCEPT !.pc = "reserve", !.n = n]
<1>1. thread[t] \in Thread
  BY DEF ThreadsTyped
<1>2. x \in Thread /\ x.pc = "reserve" /\ x.call = thread[t].call /\ x.n = n
  BY <1>1 DEF Thread, Steps
<1>3. thread' = [thread EXCEPT ![t] = x]
  BY <1>1 DEF ThreadsTyped, Thread
<1> HIDE DEF x
<1>4. QED
  BY <1>2, <1>3 DEF ThreadsTyped, Only

(* Whatever the upstream makes of a call is a reply at one of the costs.   *)
LEMMA RepliesTyped ==
  ASSUME NEW c \in Calls, NEW r \in Replies(c)
  PROVE  r \in Reply /\ r.usd \in Costs
<1>1. Costs \subseteq Nat
  BY ServiceAssumption
<1>2. {FALSE, c \notin Searches} \subseteq BOOLEAN
  OBVIOUS
<1>3. QED
  BY <1>1, <1>2 DEF Replies, Reply

(* The upstream's reply is kept by the thread that asked.                  *)
LEMMA UpstreamFacts ==
  ASSUME ThreadsTyped, NEW t \in Threads, NEW r \in Reply,
         thread' = [thread EXCEPT ![t].pc = "settle", ![t].reply = r]
  PROVE  /\ Only(t)
         /\ thread'[t].pc = "settle" /\ thread'[t].call = thread[t].call
         /\ thread'[t].n = thread[t].n /\ thread'[t].reply = r
<1> DEFINE x == [thread[t] EXCEPT !.pc = "settle", !.reply = r]
<1>1. thread[t] \in Thread
  BY DEF ThreadsTyped
<1>2. /\ x \in Thread /\ x.pc = "settle" /\ x.call = thread[t].call
      /\ x.n = thread[t].n /\ x.reply = r
  BY <1>1 DEF Thread, Steps
<1>3. thread' = [thread EXCEPT ![t] = x]
  BY <1>1 DEF ThreadsTyped, Thread
<1> HIDE DEF x
<1>4. QED
  BY <1>2, <1>3 DEF ThreadsTyped, Only

-----------------------------------------------------------------------------
(* The threads and their attempts.                                         *)

(* A thread that holds an attempt holds the live one of its call.          *)
LEMMA HolderIsLive ==
  ASSUME ThreadInv, NEW t \in Threads, Busy(t)
  PROVE  /\ thread[t].call \in Calls
         /\ thread[t].n \in Ordinals(thread[t].call)
         /\ thread[t].n \in LiveOf(thread[t].call)
<1>1. Holds(t) /\ thread[t].pc \in Working /\ thread[t].call \in Calls
  BY DEF ThreadInv, Busy, Working
<1>2. StateAt[thread[t].pc] \in Live
  BY <1>1 DEF StateAt, Working, Live
<1>3. QED
  BY <1>1, <1>2 DEF Holds, LiveOf

(* A step of a thread outside an attempt, or on the way out of one, that   *)
(* leaves the attempts alone.                                              *)
LEMMA FreeStep ==
  ASSUME ThreadInv, NEW t \in Threads, Only(t), UNCHANGED <<attempts, serving>>,
         thread[t].pc # "idle" \/ serving,
         thread'[t].pc \notin Working,
         thread'[t].pc # "idle" => thread'[t].call \in Calls
  PROVE  ThreadInv'
<1>1. \A u \in Threads : u # t => thread'[u] = thread[u]
  BY DEF Only
<1>2. thread' \in [Threads -> Thread]
  BY DEF Only
<1>3. \A u \in Threads : Busy(u)' => u # t /\ Busy(u)
  BY <1>1 DEF Busy
<1>4. \A u \in Threads : Busy(u)' => Holds(u)'
  BY <1>1, <1>3 DEF ThreadInv, Holds, Ordinals
<1>5. \A u, v \in Threads : Busy(u)' /\ Busy(v)' /\ thread'[u].call = thread'[v].call => u = v
  BY <1>1, <1>3 DEF ThreadInv
<1>6. serving'
  BY DEF ThreadInv, Idle
<1>7. QED
  BY <1>1, <1>2, <1>4, <1>5, <1>6 DEF ThreadInv

(* A step of a thread on the attempt it holds: no other thread holds an    *)
(* attempt of the call, so what the others hold is as it was.              *)
LEMMA HolderStep ==
  ASSUME ThreadInv, NEW t \in Threads, Only(t), Busy(t), UNCHANGED serving,
         NEW to, NEW p, NEW u, Moves(thread[t].call, thread[t].n, to, p, u),
         thread'[t].pc # "idle" => thread'[t].call = thread[t].call,
         thread'[t].pc \in Working =>
           /\ thread'[t].n = thread[t].n
           /\ to = StateAt[thread'[t].pc]
           /\ thread'[t].pc \in {"settle", "validate", "commit"} =>
                thread'[t].reply \in Replies(thread[t].call)
           /\ thread'[t].pc \in {"validate", "commit"} =>
                /\ thread'[t].reply.status = "ok"
                /\ thread'[t].reply.body \in Responses
                /\ p = thread'[t].reply.body
  PROVE  ThreadInv'
<1> DEFINE c == thread[t].call
           n == thread[t].n
<1>1. c \in Calls /\ n \in Ordinals(c)
  BY HolderIsLive
<1>2. /\ thread' \in [Threads -> Thread]
      /\ \A v \in Threads : v # t => thread'[v] = thread[v]
  BY DEF Only
<1>3. \A d \in Calls : Ordinals(d)' = Ordinals(d)
  BY DEF Moves, Ordinals
<1>4. \A v \in Threads : thread'[v].pc # "idle" => thread'[v].call \in Calls
  BY <1>1, <1>2 DEF ThreadInv
<1>5. ASSUME NEW v \in Threads, v # t, Busy(v)'
      PROVE  Busy(v) /\ thread[v].call # c /\ Holds(v)'
  <2>1. thread'[v] = thread[v] /\ Busy(v)
    BY <1>2, <1>5 DEF Busy
  <2>2. thread[v].call # c /\ Holds(v)
    BY <1>5, <2>1 DEF ThreadInv
  <2>3. thread[v].call \in Calls /\ thread[v].n \in Ordinals(thread[v].call)
    BY <2>1, HolderIsLive
  <2>4. attempts'[thread[v].call][thread[v].n] = attempts[thread[v].call][thread[v].n]
    BY <2>2, <2>3 DEF Moves
  <2>5. QED
    BY <1>3, <2>1, <2>2, <2>3, <2>4 DEF Holds
<1>6. ASSUME Busy(t)'
      PROVE  Holds(t)'
  <2>1. /\ thread'[t].pc \in Working /\ thread'[t].pc # "idle"
        /\ thread'[t].call = c /\ thread'[t].n = n
    BY <1>6 DEF Busy, Working
  <2>2. attempts'[c][n].state = to /\ attempts'[c][n].response = p
    BY DEF Moves
  <2>3. QED
    BY <1>1, <1>3, <2>1, <2>2 DEF Holds
<1>7. \A v \in Threads : Busy(v)' => Holds(v)'
  BY <1>5, <1>6
<1>8. ASSUME NEW v \in Threads, NEW w \in Threads, Busy(v)', Busy(w)',
             thread'[v].call = thread'[w].call
      PROVE  v = w
  <2>1. Busy(t)' => thread'[t].call = c
    BY DEF Busy, Working
  <2>2. CASE v = t \/ w = t
    BY <1>2, <1>5, <1>8, <2>1, <2>2
  <2>3. CASE v # t /\ w # t
    BY <1>2, <1>5, <1>8, <2>3 DEF ThreadInv
  <2>4. QED
    BY <2>2, <2>3
<1>9. serving'
  <2>1. thread[t] # Idle
    BY DEF Busy, Idle, Working
  <2>2. QED
    BY <2>1 DEF ThreadInv
<1>10. QED
  BY <1>2, <1>4, <1>7, <1>8, <1>9 DEF ThreadInv

(* A step of a thread that begins an attempt: no attempt of the call was   *)
(* live, so no other thread held one.                                      *)
LEMMA BeginStep ==
  ASSUME ThreadInv, CallsTyped, NEW t \in Threads, NEW c \in Calls, Serves(t, c, "begin"),
         BeginAttempt(c), UNCHANGED serving,
         thread' = [thread EXCEPT ![t].pc = "reserve", ![t].n = Len(attempts[c]) + 1]
  PROVE  ThreadInv'
<1> DEFINE last == Len(attempts[c]) + 1
<1>1. /\ \A d \in Calls : d # c => attempts'[d] = attempts[d]
      /\ Len(attempts'[c]) = last /\ last \in Nat /\ last \in 1..MaxAttempts
      /\ \A m \in Ordinals(c) : attempts'[c][m] = attempts[c][m]
      /\ attempts'[c][last].state = "INTENT"
      /\ LiveOf(c) = {}
  BY BeginAppends
<1>2. ThreadsTyped
  BY DEF ThreadInv, ThreadsTyped
<1>3. /\ Only(t)
      /\ thread'[t].pc = "reserve" /\ thread'[t].call = c /\ thread'[t].n = last
  BY <1>1, <1>2, BeginFacts DEF Serves
<1> HIDE DEF last
<1>4. /\ thread' \in [Threads -> Thread]
      /\ \A v \in Threads : v # t => thread'[v] = thread[v]
  BY <1>3 DEF Only
<1>5. ASSUME NEW v \in Threads, v # t, Busy(v)'
      PROVE  Busy(v) /\ thread[v].call # c /\ Holds(v)'
  <2>1. thread'[v] = thread[v] /\ Busy(v)
    BY <1>4, <1>5 DEF Busy
  <2>2. thread[v].call \in Calls /\ thread[v].call # c
    BY <1>1, <2>1, HolderIsLive
  <2>3. attempts'[thread[v].call] = attempts[thread[v].call]
    BY <1>1, <2>2
  <2>4. Holds(v) /\ Ordinals(thread[v].call)' = Ordinals(thread[v].call)
    BY <2>1, <2>3 DEF ThreadInv, Ordinals
  <2>5. QED
    BY <2>1, <2>2, <2>3, <2>4 DEF Holds
<1>6. last \in Ordinals(c)'
  BY <1>1 DEF Ordinals
<1>7. Holds(t)'
  BY <1>1, <1>3, <1>6 DEF Holds, StateAt
<1>8. \A v, w \in Threads : Busy(v)' /\ Busy(w)' /\ thread'[v].call = thread'[w].call => v = w
  BY <1>3, <1>4, <1>5 DEF ThreadInv
<1>9. \A v \in Threads : thread'[v].pc # "idle" => thread'[v].call \in Calls
  BY <1>3, <1>4 DEF ThreadInv
<1>10. serving'
  BY DEF ThreadInv, Serves, Idle
<1>11. QED
  BY <1>4, <1>5, <1>7, <1>8, <1>9, <1>10 DEF ThreadInv

-----------------------------------------------------------------------------
(* The steps of a thread on its attempt: each is a step of ExternalCalls,  *)
(* it moves the attempt as stated, and it keeps the threads' invariant.    *)

(* A thread that serves such a step holds the attempt.                     *)
LEMMA ServesHeld ==
  ASSUME ServiceInv, NEW t \in Threads, NEW c \in Calls, NEW pc \in Working, Serves(t, c, pc)
  PROVE  /\ Busy(t) /\ Holds(t) /\ thread[t].call = c /\ thread[t].pc = pc
         /\ thread[t].n \in Ordinals(c)
         /\ attempts[c][thread[t].n] \in Attempt
         /\ attempts[c][thread[t].n].state = StateAt[pc]
         /\ ThreadsTyped /\ CallsTyped /\ CallsInv /\ ThreadInv
<1>1. Busy(t) /\ thread[t].call = c /\ thread[t].pc = pc
  BY DEF Serves, Busy
<1>2. ThreadInv /\ CallsInv /\ CallsTyped /\ ThreadsTyped
  BY DEF ServiceInv, Inv, CallsInv, ThreadInv, ThreadsTyped
<1>3. Holds(t) /\ thread[t].n \in Ordinals(c)
  BY <1>1, <1>2, HolderIsLive DEF ThreadInv
<1>4. attempts[c][thread[t].n] \in Attempt
  BY <1>2, <1>3, AttemptTyped
<1>5. QED
  BY <1>1, <1>2, <1>3, <1>4 DEF Holds

(* What a route charges is a usage an attempt may be settled at.           *)
LEMMA ChargesTyped ==
  ASSUME NEW c \in Calls, NEW r \in Replies(c)
  PROVE  /\ FailureCharge(c, r) \in Actuals /\ FailureCharge(c, r) \in [Resources -> Nat]
         /\ SuccessCharge(c, r) \in Actuals /\ SuccessCharge(c, r) \in [Resources -> Nat]
<1>1. \A u \in Costs \cup {0} \cup {Worst[d]["usd"] : d \in Calls} : Charged(u) \in Actuals
  BY ServiceAssumption DEF Charged
<1>2. r.usd \in Costs /\ Reported(r) \in Costs \cup {0}
  BY RepliesTyped DEF Reported
<1>3. FailureCharge(c, r) \in Actuals /\ SuccessCharge(c, r) \in Actuals
  BY <1>1, <1>2 DEF FailureCharge, SuccessCharge
<1>4. QED
  BY <1>3, CallsAssumption

(* reserve_in, or BudgetExceeded: then the thread keeps what it holds.     *)
LEMMA ReserveCallStep ==
  ASSUME ServiceInv, NEW t \in Threads, NEW c \in Calls, ReserveCall(t, c)
  PROVE  /\ ThreadInv' /\ Only(t)
         /\ AttemptStep(c, thread[t].n) \/ UNCHANGED callVars
         /\ call' = call
         /\ thread'[t].pc \in {"send", "refused"} /\ thread'[t].call = c
         /\ \E to \in {"BUDGET_RESERVED", "INTENT"} :
              Moves(c, thread[t].n, to, attempts[c][thread[t].n].response,
                    attempts[c][thread[t].n].charged)
<1> DEFINE n == thread[t].n
           p == attempts[c][n].response
           u == attempts[c][n].charged
<1>1. /\ Busy(t) /\ thread[t].call = c /\ n \in Ordinals(c)
      /\ attempts[c][n].state = "INTENT"
      /\ ThreadsTyped /\ CallsTyped /\ ThreadInv
  BY ServesHeld DEF ReserveCall, Working, StateAt
<1>2. UNCHANGED serving
  BY DEF ReserveCall, ledgerOnly
<1>3. CASE Reserve(c, n) /\ Goto(t, "send")
  <2>1. Moves(c, n, "BUDGET_RESERVED", p, u) /\ call' = call
    BY <1>1, <1>3, ReserveMoves
  <2>2. /\ Only(t) /\ thread'[t].pc = "send"
        /\ thread'[t].call = c /\ thread'[t].n = n
    BY <1>1, <1>3, GotoFacts DEF Steps
  <2>3. ThreadInv'
    BY <1>1, <1>2, <2>1, <2>2, HolderStep DEF StateAt
  <2>4. QED
    BY <1>3, <2>1, <2>2, <2>3 DEF AttemptStep
<1>4. CASE Goto(t, "refused") /\ UNCHANGED callVars
  <2>1. Moves(c, n, "INTENT", p, u) /\ call' = call
    BY <1>1, <1>4 DEF Moves, callVars, CallsTyped
  <2>2. /\ Only(t) /\ thread'[t].pc = "refused"
        /\ thread'[t].call = c /\ thread'[t].n = n
    BY <1>1, <1>4, GotoFacts DEF Steps
  <2>3. ThreadInv'
    BY <1>1, <1>2, <2>1, <2>2, HolderStep DEF StateAt
  <2>4. QED
    BY <1>4, <2>1, <2>2, <2>3
<1>5. QED
  BY <1>3, <1>4 DEF ReserveCall

(* The end of a refused attempt, which holds no reservation.               *)
LEMMA CloseRefusedStep ==
  ASSUME ServiceInv, NEW t \in Threads, NEW c \in Calls, CloseRefused(t, c)
  PROVE  /\ ThreadInv' /\ Only(t)
         /\ AttemptStep(c, thread[t].n)
         /\ call' = call
         /\ thread'[t].pc = "idle"
         /\ Moves(c, thread[t].n, "FAILED_FINAL", attempts[c][thread[t].n].response,
                  attempts[c][thread[t].n].charged)
<1> DEFINE n == thread[t].n
           p == attempts[c][n].response
           u == attempts[c][n].charged
<1>1. /\ Busy(t) /\ thread[t].call = c /\ n \in Ordinals(c)
      /\ ThreadsTyped /\ CallsTyped /\ ThreadInv
  BY ServesHeld DEF CloseRefused, Working
<1>2. EndUnresolved(c, n, "FAILED_FINAL") /\ Refuse(t) /\ UNCHANGED serving
  BY DEF CloseRefused, ledgerOnly
<1>3. Moves(c, n, "FAILED_FINAL", p, u) /\ call' = call
  BY <1>1, <1>2, EndMoves DEF Failed
<1>4. Only(t) /\ thread'[t].pc = "idle"
  BY <1>1, <1>2, IdleFacts DEF Refuse
<1>5. ThreadInv'
  BY <1>1, <1>2, <1>3, <1>4, HolderStep DEF Working
<1>6. AttemptStep(c, n)
  BY <1>2 DEF AttemptStep, Failed
<1>7. QED
  BY <1>3, <1>4, <1>5, <1>6

(* mark_sent.                                                              *)
LEMMA SendStep ==
  ASSUME ServiceInv, NEW t \in Threads, NEW c \in Calls, Send(t, c)
  PROVE  /\ ThreadInv' /\ Only(t)
         /\ AttemptStep(c, thread[t].n)
         /\ call' = call
         /\ thread'[t].pc = "upstream"
         /\ Moves(c, thread[t].n, "SENT", NoResponse, attempts[c][thread[t].n].charged)
<1> DEFINE n == thread[t].n
<1>1. /\ Busy(t) /\ thread[t].call = c /\ n \in Ordinals(c)
      /\ ThreadsTyped /\ CallsTyped /\ ThreadInv
  BY ServesHeld DEF Send, Working
<1>2. Move(c, n, "SENT", NoResponse)
  BY DEF Send, MarkSent
<1>3. Moves(c, n, "SENT", NoResponse, attempts[c][n].charged) /\ call' = call
  BY <1>1, <1>2, MoveMoves DEF AttemptState, Live
<1>4. /\ Only(t) /\ thread'[t].pc = "upstream"
      /\ thread'[t].call = c /\ thread'[t].n = n
  BY <1>1, GotoFacts DEF Send, Steps
<1>5. ThreadInv'
  BY <1>1, <1>3, <1>4, HolderStep DEF StateAt, Send
<1>6. QED
  BY <1>2, <1>3, <1>4, <1>5 DEF AttemptStep, MarkSent

(* The upstream answers; the attempt stays SENT.                           *)
LEMMA UpstreamStep ==
  ASSUME ServiceInv, NEW t \in Threads, NEW c \in Calls, Upstream(t, c)
  PROVE  /\ ThreadInv' /\ Only(t)
         /\ UNCHANGED callVars
         /\ thread'[t].pc = "settle" /\ thread'[t].call = c /\ thread'[t].n = thread[t].n
         /\ thread'[t].reply \in Replies(c)
         /\ heard' = [heard EXCEPT ![c][thread[t].n] = thread'[t].reply]
<1> DEFINE n == thread[t].n
           a == attempts[c][n]
<1>1. /\ Busy(t) /\ thread[t].call = c /\ n \in Ordinals(c)
      /\ a.state = "SENT" /\ ThreadsTyped /\ CallsTyped /\ ThreadInv
  BY ServesHeld DEF Upstream, Working, StateAt
<1>2. PICK r \in Replies(c) :
        /\ thread' = [thread EXCEPT ![t].pc = "settle", ![t].reply = r]
        /\ heard' = [heard EXCEPT ![c][n] = r]
  BY DEF Upstream
<1>3. UNCHANGED <<callVars, serving>>
  BY DEF Upstream, ledgerOnly
<1>4. r \in Reply
  BY RepliesTyped
<1>5. /\ Only(t)
      /\ thread'[t].pc = "settle" /\ thread'[t].call = c
      /\ thread'[t].n = n /\ thread'[t].reply = r
  BY <1>1, <1>2, <1>4, UpstreamFacts
<1>6. Moves(c, n, "SENT", a.response, a.charged)
  BY <1>1, <1>3 DEF Moves, callVars, CallsTyped
<1>7. ThreadInv'
  BY <1>1, <1>3, <1>5, <1>6, HolderStep DEF StateAt
<1>8. QED
  BY <1>2, <1>3, <1>5, <1>7

(* What a thread may do with the reply it holds: fail the attempt, at a    *)
(* usage that covers silence or is what the route charges.                 *)
LEMMA FailStep ==
  ASSUME ServiceInv, NEW t \in Threads, NEW c \in Calls,
         Silent(t, c) \/ HttpError(t, c) \/ TooLarge(t, c)
  PROVE  /\ ThreadInv' /\ Only(t)
         /\ AttemptStep(c, thread[t].n)
         /\ call' = call
         /\ thread'[t].pc \in {"note", "idle"}
         /\ \E to \in Failed : \E u \in [Resources -> Nat] :
              /\ Moves(c, thread[t].n, to, attempts[c][thread[t].n].response, Charge(c, u))
              /\ u = IF Silent(t, c) THEN Worst[c] ELSE FailureCharge(c, thread[t].reply)
<1> DEFINE n == thread[t].n
           p == attempts[c][n].response
           r == thread[t].reply
           u == IF Silent(t, c) THEN Worst[c] ELSE FailureCharge(c, r)
<1>1. Serves(t, c, "settle") /\ UNCHANGED serving
  BY DEF Silent, HttpError, TooLarge, Sent, ledgerOnly
<1>2. /\ Busy(t) /\ Holds(t) /\ thread[t].call = c /\ n \in Ordinals(c)
      /\ attempts[c][n].state = "SENT" /\ thread[t].pc = "settle"
      /\ ThreadsTyped /\ CallsInv /\ ThreadInv
  BY <1>1, ServesHeld DEF Working, StateAt
<1>3. r \in Replies(c)
  BY <1>2 DEF Holds
<1>4. FailureCharge(c, r) \in Actuals /\ FailureCharge(c, r) \in [Resources -> Nat]
  BY <1>3, ChargesTyped
<1>5. u \in [Resources -> Nat]
  BY <1>4, CallsAssumption
<1>6. PICK to \in Failed : SettleAndAdvance(c, n, to, u)
  BY DEF Silent, HttpError, TooLarge, Sent, FailUnknown, FailAfterResponse, Failed
<1>7. AttemptStep(c, n)
  BY <1>4 DEF AttemptStep, Silent, HttpError, TooLarge
<1>8. Only(t) /\ thread'[t].pc \in {"note", "idle"} /\ thread'[t].call \in {c, Idle.call}
      /\ (thread'[t].pc # "idle" => thread'[t].call = c)
  <2>1. CASE Goto(t, "note")
    BY <1>2, <2>1, GotoFacts DEF Steps
  <2>2. CASE Refuse(t)
    BY <1>2, <2>2, IdleFacts DEF Refuse
  <2>3. QED
    BY <2>1, <2>2 DEF Silent, HttpError, TooLarge
<1>9. u = IF Silent(t, c) THEN Worst[c] ELSE FailureCharge(c, thread[t].reply)
  OBVIOUS
<1> HIDE DEF u
<1>10. Moves(c, n, to, p, Charge(c, u)) /\ call' = call
  <2>1. to # "COMMITTED"
    BY <1>6 DEF Failed
  <2>2. QED
    BY <1>2, <1>5, <1>6, <2>1, SettleMoves
<1>11. ThreadInv'
  BY <1>1, <1>2, <1>8, <1>10, HolderStep DEF Working
<1>12. QED
  BY <1>5, <1>6, <1>7, <1>8, <1>9, <1>10, <1>11

(* store_response.                                                         *)
LEMMA FreezeStep ==
  ASSUME ServiceInv, NEW t \in Threads, NEW c \in Calls, Freeze(t, c)
  PROVE  /\ ThreadInv' /\ Only(t)
         /\ AttemptStep(c, thread[t].n)
         /\ call' = call
         /\ thread'[t].pc = "validate" /\ thread'[t].call = c /\ thread'[t].n = thread[t].n
         /\ thread'[t].reply = thread[t].reply
         /\ Moves(c, thread[t].n, "RESPONSE_STORED", thread[t].reply.body,
                  attempts[c][thread[t].n].charged)
<1> DEFINE n == thread[t].n
           r == thread[t].reply
<1>1. /\ Serves(t, c, "settle") /\ UNCHANGED serving
      /\ r.status = "ok" /\ r.body # NoResponse
      /\ Move(c, n, "RESPONSE_STORED", r.body) /\ Goto(t, "validate")
  BY DEF Freeze, Sent, StoreResponse
<1>2. /\ Busy(t) /\ Holds(t) /\ thread[t].call = c /\ thread[t].pc = "settle"
      /\ n \in Ordinals(c) /\ ThreadsTyped /\ CallsTyped /\ ThreadInv
  BY <1>1, ServesHeld DEF Working
<1>3. r \in Replies(c) /\ r.body \in Responses
  <2>1. r \in Replies(c)
    BY <1>2 DEF Holds
  <2>2. r \in Reply
    BY <2>1, RepliesTyped
  <2>3. QED
    BY <1>1, <2>1, <2>2 DEF Reply
<1>4. Moves(c, n, "RESPONSE_STORED", r.body, attempts[c][n].charged) /\ call' = call
  BY <1>1, <1>2, <1>3, MoveMoves DEF AttemptState, Live
<1>5. /\ Only(t) /\ thread'[t].pc = "validate" /\ thread'[t].call = c
      /\ thread'[t].n = n /\ thread'[t].reply = r
  BY <1>1, <1>2, GotoFacts DEF Steps
<1>6. AttemptStep(c, n)
  BY <1>1, <1>3 DEF AttemptStep, StoreResponse
<1>7. ThreadInv'
  BY <1>1, <1>2, <1>3, <1>4, <1>5, HolderStep DEF StateAt
<1>8. QED
  BY <1>4, <1>5, <1>6, <1>7

(* validate.                                                               *)
LEMMA ValidateStep ==
  ASSUME ServiceInv, NEW t \in Threads, NEW c \in Calls, ValidateCall(t, c)
  PROVE  /\ ThreadInv' /\ Only(t)
         /\ AttemptStep(c, thread[t].n)
         /\ call' = call
         /\ thread'[t].pc = "commit" /\ thread'[t].call = c /\ thread'[t].n = thread[t].n
         /\ thread'[t].reply = thread[t].reply
         /\ Moves(c, thread[t].n, "VALIDATED", thread[t].reply.body,
                  attempts[c][thread[t].n].charged)
<1> DEFINE n == thread[t].n
           r == thread[t].reply
<1>1. /\ Serves(t, c, "validate") /\ UNCHANGED serving
      /\ Move(c, n, "VALIDATED", attempts[c][n].response) /\ Goto(t, "commit")
  BY DEF ValidateCall, Validate, ledgerOnly
<1>2. /\ Busy(t) /\ Holds(t) /\ thread[t].call = c /\ thread[t].pc = "validate"
      /\ n \in Ordinals(c) /\ ThreadsTyped /\ CallsTyped /\ ThreadInv
  BY <1>1, ServesHeld DEF Working
<1>3. /\ r \in Replies(c) /\ r.status = "ok" /\ r.body \in Responses
      /\ attempts[c][n].response = r.body
  BY <1>2 DEF Holds
<1>4. Moves(c, n, "VALIDATED", r.body, attempts[c][n].charged) /\ call' = call
  BY <1>1, <1>2, <1>3, MoveMoves DEF AttemptState, Live
<1>5. /\ Only(t) /\ thread'[t].pc = "commit" /\ thread'[t].call = c
      /\ thread'[t].n = n /\ thread'[t].reply = r
  BY <1>1, <1>2, GotoFacts DEF Steps
<1>6. AttemptStep(c, n)
  BY <1>1 DEF AttemptStep, Validate
<1>7. ThreadInv'
  BY <1>1, <1>2, <1>3, <1>4, <1>5, HolderStep DEF StateAt
<1>8. QED
  BY <1>4, <1>5, <1>6, <1>7

(* commit_accepted, and the answer.                                        *)
LEMMA CommitStep ==
  ASSUME ServiceInv, NEW t \in Threads, NEW c \in Calls, CommitCall(t, c)
  PROVE  /\ ThreadInv' /\ Only(t)
         /\ AttemptStep(c, thread[t].n)
         /\ call' = [call EXCEPT ![c] = [state |-> "COMMITTED", accepted |-> thread[t].n]]
         /\ thread'[t] = Idle
         /\ thread[t].reply \in Replies(c) /\ thread[t].reply.status = "ok"
         /\ thread[t].reply.body \in Responses
         /\ answers' = answers \cup {<<c, thread[t].reply.body>>}
         /\ Moves(c, thread[t].n, "COMMITTED", thread[t].reply.body,
                  Charge(c, SuccessCharge(c, thread[t].reply)))
<1> DEFINE n == thread[t].n
           r == thread[t].reply
           u == SuccessCharge(c, r)
<1>1. /\ Serves(t, c, "commit") /\ UNCHANGED serving
      /\ SettleAndAdvance(c, n, "COMMITTED", u)
      /\ thread' = [thread EXCEPT ![t] = Idle]
      /\ answers' = answers \cup {<<c, r.body>>}
  BY DEF CommitCall, Commit, Reply200, ledgerOnly
<1>2. /\ Busy(t) /\ Holds(t) /\ thread[t].call = c /\ thread[t].pc = "commit"
      /\ attempts[c][n].state = "VALIDATED"
      /\ n \in Ordinals(c) /\ ThreadsTyped /\ CallsInv /\ ThreadInv
  BY <1>1, ServesHeld DEF Working, StateAt
<1>3. /\ r \in Replies(c) /\ r.status = "ok" /\ r.body \in Responses
      /\ attempts[c][n].response = r.body
  BY <1>2 DEF Holds
<1>4. u \in Actuals /\ u \in [Resources -> Nat]
  BY <1>3, ChargesTyped
<1>5. AttemptStep(c, n)
  BY <1>1, <1>4 DEF AttemptStep, Commit
<1>6. Only(t) /\ thread'[t] = Idle /\ thread'[t].pc = "idle"
  BY <1>1, <1>2, IdleFacts
<1> HIDE DEF u
<1>7. /\ Moves(c, n, "COMMITTED", r.body, Charge(c, u))
      /\ call' = [call EXCEPT ![c] = [state |-> "COMMITTED", accepted |-> n]]
  BY <1>1, <1>2, <1>3, <1>4, SettleMoves
<1>8. ThreadInv'
  BY <1>1, <1>2, <1>6, <1>7, HolderStep DEF Working
<1>9. QED
  BY <1>1, <1>3, <1>5, <1>6, <1>7, <1>8 DEF u

(* The steps of a thread that touch no attempt: before it begins one,      *)
(* after it failed one, and when the reply could not be read.              *)
Outside(t, c) ==
  \/ Arrive(t, c) \/ CheckUnauthorized(t, c) \/ CheckFailures(t, c)
  \/ Open(t, c) \/ Replay(t, c)
  \/ Begin(t, c) /\ ~BeginAttempt(c)
  \/ BeginOnCommitted(t, c) \/ NoteFailure(t, c) \/ RecordFatal(t, c) \/ Raise(t, c)

(* Such a step opens the call or leaves the ledger as it is.               *)
LEMMA OutsideStep ==
  ASSUME ServiceInv, NEW t \in Threads, NEW c \in Calls, Outside(t, c)
  PROVE  /\ ThreadInv' /\ Only(t)
         /\ attempts' = attempts
         /\ OpenCall(c) \/ UNCHANGED callVars
         /\ thread'[t].pc \in {"fence", "fence2", "open", "replay", "begin", "record", "idle"}
         /\ thread'[t].pc # "idle" => thread'[t].call = c
<1>1. ThreadInv /\ ThreadsTyped
  BY DEF ServiceInv, ThreadInv, ThreadsTyped
<1>2. UNCHANGED serving
  BY DEF Outside, Arrive, CheckUnauthorized, CheckFailures, CheckFence, Open, Replay, Begin,
         BeginOnCommitted, NoteFailure, RecordFatal, Raise, ledgerOnly
<1>3. OpenCall(c) \/ UNCHANGED callVars
  BY DEF Outside, Arrive, CheckUnauthorized, CheckFailures, CheckFence, Open, Replay, Begin,
         BeginOnCommitted, NoteFailure, RecordFatal, Raise
<1>4. attempts' = attempts
  BY <1>3 DEF OpenCall, callVars
<1>5. CASE Arrive(t, c)
  <2>1. Only(t) /\ thread'[t].pc = "fence" /\ thread'[t].call = c
    BY <1>1, <1>5, ArriveFacts
  <2>2. serving
    BY <1>5 DEF Arrive
  <2>3. ThreadInv'
    BY <1>1, <1>2, <1>4, <2>1, <2>2, FreeStep DEF Working
  <2>4. QED
    BY <1>3, <1>4, <2>1, <2>3
<1>6. CASE ~Arrive(t, c)
  <2>1. thread[t].pc # "idle" /\ thread[t].call = c
    BY <1>6 DEF Outside, CheckUnauthorized, CheckFailures, CheckFence, Open, Replay, Begin,
                BeginOnCommitted, NoteFailure, RecordFatal, Raise, Serves, Sent
  <2>2. \/ \E pc \in {"fence2", "open", "replay", "begin", "record"} : Goto(t, pc)
        \/ thread' = [thread EXCEPT ![t] = Idle]
    BY <1>6 DEF Outside, CheckUnauthorized, CheckFailures, CheckFence, Open, Replay, Begin,
                BeginOnCommitted, NoteFailure, RecordFatal, Raise, Refuse, Reply200
  <2>3. /\ Only(t)
        /\ thread'[t].pc \in {"fence2", "open", "replay", "begin", "record", "idle"}
        /\ thread'[t].pc # "idle" => thread'[t].call = c
    <3>1. ASSUME NEW pc \in {"fence2", "open", "replay", "begin", "record"}, Goto(t, pc)
          PROVE  Only(t) /\ thread'[t].pc = pc /\ thread'[t].call = c
      BY <1>1, <2>1, <3>1, GotoFacts DEF Steps
    <3>2. CASE thread' = [thread EXCEPT ![t] = Idle]
      BY <1>1, <3>2, IdleFacts
    <3>3. QED
      BY <2>2, <3>1, <3>2
  <2>4. ThreadInv'
    BY <1>1, <1>2, <1>4, <2>1, <2>3, FreeStep DEF Working
  <2>5. QED
    BY <1>3, <1>4, <2>3, <2>4
<1>7. QED
  BY <1>5, <1>6

\* the steps of a thread that holds an attempt
Inside(t, c) ==
  \/ ReserveCall(t, c) \/ CloseRefused(t, c) \/ Send(t, c) \/ Upstream(t, c)
  \/ Silent(t, c) \/ HttpError(t, c) \/ TooLarge(t, c)
  \/ Freeze(t, c) \/ ValidateCall(t, c) \/ CommitCall(t, c)

(* A thread's step is outside an attempt, begins one or is on one.         *)
LEMMA ThreadSteps ==
  ASSUME NEW t \in Threads, NEW c \in Calls, Arrive(t, c) \/ ThreadStep(t, c)
  PROVE  \/ Outside(t, c)
         \/ Begin(t, c) /\ BeginAttempt(c)
         \/ Inside(t, c)
BY DEF ThreadStep, Outside, Inside

(* A step of reconcile_on_start ends a live attempt.                       *)
LEMMA ReconcileStep ==
  ASSUME ServiceInv, Reconcile
  PROVE  /\ ThreadInv'
         /\ \E c \in Calls : \E n \in LiveOf(c) :
              /\ AttemptStep(c, n) /\ call' = call
              /\ \E to \in Failed : \E u \in {Worst[c], Nothing} :
                   /\ Moves(c, n, to, attempts[c][n].response,
                            IF attempts[c][n].state = "INTENT" THEN Nothing ELSE Charge(c, u))
                   /\ attempts[c][n].state \in SentStates => u = Worst[c]
<1>1. UNCHANGED serviceVars /\ ~serving
  BY DEF Reconcile
<1>2. ThreadInv /\ CallsInv
  BY DEF ServiceInv, Inv
<1>3. ThreadInv'
  BY <1>1, <1>2 DEF ThreadInv, serviceVars, Busy, Idle, Working
<1>4. PICK c \in Calls : \E n \in LiveOf(c) : Reconciled(c, n)
  BY DEF Reconcile
<1>5. PICK n \in LiveOf(c) : Reconciled(c, n)
  BY <1>4
<1>6. n \in Ordinals(c)
  BY DEF LiveOf
<1>7. AttemptStep(c, n)
  BY <1>5 DEF Reconciled, AttemptStep
<1>8. PICK to \in Failed, u \in {Worst[c], Nothing} :
        /\ SettleAndAdvance(c, n, to, u)
        /\ attempts[c][n].state \in SentStates => u = Worst[c]
  BY <1>5 DEF Reconciled, FailUnknown, FailBeforeSend, Failed
<1>9. u \in [Resources -> Nat] /\ to # "COMMITTED"
  BY <1>8, CallsAssumption DEF Nothing, Failed
<1>10. /\ Moves(c, n, to, attempts[c][n].response,
                IF attempts[c][n].state = "INTENT" THEN Nothing ELSE Charge(c, u))
       /\ call' = call
  BY <1>2, <1>6, <1>8, <1>9, SettleMoves
<1>11. QED
  BY <1>3, <1>7, <1>8, <1>10

(* Every step of the provider is a step of a client of the ledger, or      *)
(* leaves the ledger alone; and it keeps the threads' invariant.           *)
LEMMA StepImplements ==
  ASSUME ServiceInv, [ServiceNext]_vars
  PROVE  [Next]_callVars /\ ThreadInv'
<1>1. ASSUME NEW t \in Threads, NEW c \in Calls, Outside(t, c)
      PROVE  [Next]_callVars /\ ThreadInv'
  BY <1>1, OutsideStep DEF Next
<1>2. ASSUME NEW t \in Threads, NEW c \in Calls, Begin(t, c), BeginAttempt(c)
      PROVE  [Next]_callVars /\ ThreadInv'
  <2>1. Next
    BY <1>2 DEF Next
  <2>2. Serves(t, c, "begin") /\ UNCHANGED serving
    BY <1>2 DEF Begin, ledgerOnly
  <2>3. thread' = [thread EXCEPT ![t].pc = "reserve", ![t].n = Len(attempts[c]) + 1]
    <3>1. CallsTyped
      BY DEF ServiceInv, Inv, CallsInv
    <3>2. attempts' # attempts
      <4>1. Len(attempts'[c]) = Len(attempts[c]) + 1 /\ Len(attempts[c]) + 1 \in Nat
        BY <1>2, <3>1, BeginAppends
      <4>2. attempts[c] \in Seq(Attempt)
        BY <3>1 DEF CallsTyped
      <4>3. Len(attempts[c]) \in Nat
        BY <4>2, LenProperties
      <4>4. QED
        BY <4>1, <4>3
    <3>3. QED
      BY <1>2, <3>2 DEF Begin, callVars
  <2>4. ThreadInv'
    BY <1>2, <2>2, <2>3, BeginStep DEF ServiceInv, Inv, CallsInv
  <2>5. QED
    BY <2>1, <2>4
<1>3. ASSUME NEW t \in Threads, NEW c \in Calls, Inside(t, c)
      PROVE  [Next]_callVars /\ ThreadInv'
  <2>1. CASE Upstream(t, c)
    BY <2>1, UpstreamStep
  <2>2. CASE ~Upstream(t, c)
    <3>1. (AttemptStep(c, thread[t].n) \/ UNCHANGED callVars) /\ ThreadInv'
      BY <1>3, <2>2, ReserveCallStep, CloseRefusedStep, SendStep, FailStep, FreezeStep,
         ValidateStep, CommitStep DEF Inside
    <3>2. thread[t].n \in Ordinals(c)
      BY <1>3, ServesHeld DEF Inside, ReserveCall, CloseRefused, Send, Upstream, Silent, HttpError, TooLarge,
                              Freeze, ValidateCall, CommitCall, Sent, Working
    <3>3. QED
      BY <3>1, <3>2 DEF Next
  <2>3. QED
    BY <2>1, <2>2
<1>4. CASE Crash
  <2>1. \A t \in Threads : thread'[t] = Idle
    BY <1>4 DEF Crash
  <2>2. thread' \in [Threads -> Thread]
    BY <1>4, IdleTyped DEF Crash
  <2>3. QED
    BY <1>4, <2>1, <2>2 DEF Crash, ThreadInv, Busy, Idle, Working
<1>5. CASE Reconcile
  <2>1. ThreadInv' /\ \E c \in Calls : \E n \in LiveOf(c) : AttemptStep(c, n)
    BY <1>5, ReconcileStep
  <2>2. QED
    BY <2>1 DEF Next, LiveOf
<1>6. CASE Serve
  <2>1. ThreadInv
    BY DEF ServiceInv
  <2>2. QED
    BY <1>6, <2>1 DEF Serve, ThreadInv, Busy, Idle, Working, callVars
<1>7. CASE UNCHANGED vars
  <2>1. ThreadInv /\ UNCHANGED <<callVars, attempts, thread, serving>>
    BY <1>7 DEF ServiceInv, vars, serviceVars, callVars
  <2>2. QED
    BY <2>1 DEF ThreadInv, Busy, Holds, Ordinals
<1>8. QED
  BY <1>1, <1>2, <1>3, <1>4, <1>5, <1>6, <1>7, ThreadSteps DEF ServiceNext

(* A provider that has bought nothing and serves nobody.                   *)
LEMMA ServiceInitInv == ServiceInit => ServiceInv
<1> SUFFICES ASSUME ServiceInit
             PROVE  ServiceInv
  OBVIOUS
<1>1. Inv
  BY InitInv DEF ServiceInit
<1>2. \A t \in Threads : thread[t] = Idle
  BY DEF ServiceInit
<1>3. thread \in [Threads -> Thread]
  BY IdleTyped DEF ServiceInit
<1>4. QED
  BY <1>1, <1>2, <1>3 DEF ServiceInv, ThreadInv, Busy, Idle, Working

(* The ledger and the threads keep their invariants together.              *)
LEMMA ServiceStep == ServiceInv /\ [ServiceNext]_vars => ServiceInv'
BY StepImplements, StepPreserves DEF ServiceInv

(* They hold always.                                                       *)
LEMMA ServiceInvariance == ServiceSpec => []ServiceInv
BY ServiceInitInv, ServiceStep, PTL DEF ServiceSpec

(* The provider is a client of the ledger: what it does to the accounts,   *)
(* the calls and their attempts is what ExternalCalls allows, whatever its *)
(* threads interleave and wherever it crashes.                             *)
THEOREM ServiceBuysAsTheLedgerSays == ServiceSpec => CallsSpec
<1>1. ServiceInit => Init
  BY DEF ServiceInit
<1>2. ServiceInv /\ [ServiceNext]_vars => [Next]_callVars
  BY StepImplements
<1>3. QED
  BY <1>1, <1>2, ServiceInvariance, PTL DEF ServiceSpec, CallsSpec

(* So no interleaving of the provider's threads, and no restart, buys a    *)
(* call twice or has two attempts of it in flight, and money follows the   *)
(* state of each attempt: the ledger's theorems, of the provider.          *)
THEOREM ServiceBuysOnce == ServiceSpec => [](BoughtOnce /\ OneInFlight /\ LiveIsSecured)
<1>1. ServiceInv => BoughtOnce /\ OneInFlight /\ LiveIsSecured
  BY DEF ServiceInv, Inv, CallsInv
<1>2. QED
  BY <1>1, ServiceInvariance, PTL

(* And so do its books: no thread cut short and no restart leaves a total  *)
(* that its reservations and settlements do not come to.                   *)
THEOREM ServiceBooksBalance == ServiceSpec => []BooksBalance
  BY ServiceBuysAsTheLedgerSays, TheBooksBalance, PTL

-----------------------------------------------------------------------------
(* The reservations the provider leaves.                                   *)

(* Replacing an attempt by a settled one leaves nothing standing.          *)
LEMMA SettledKept ==
  ASSUME CallsInv, NothingLeftStanding, NEW c \in Calls, NEW n \in Ordinals(c),
         NEW a \in Attempt, SetAttempt(c, n, a), Settled(a)
  PROVE  NothingLeftStanding'
<1>1. CallsTyped
  BY DEF CallsInv
<1>2. /\ \A d \in Calls : Len(attempts'[d]) = Len(attempts[d])
      /\ \A d \in Calls : \A m \in Ordinals(d) :
           attempts'[d][m] = IF d = c /\ m = n THEN a ELSE attempts[d][m]
  BY <1>1, SetAttemptFacts
<1>3. \A d \in Calls : \A m \in Ordinals(d) : Settled(attempts'[d][m])
  BY <1>2 DEF NothingLeftStanding
<1>4. \A d \in Calls : Ordinals(d)' = Ordinals(d)
  BY <1>2 DEF Ordinals
<1>5. QED
  BY <1>3, <1>4 DEF NothingLeftStanding, Settled

(* The methods that advance the state of an attempt with a reservation.    *)
LEMMA MoveLeavesNothing ==
  ASSUME CallsInv, NothingLeftStanding, NEW c \in Calls, NEW n \in Ordinals(c),
         NEW to \in SentStates, NEW p \in Responses \cup {NoResponse}, Move(c, n, to, p)
  PROVE  NothingLeftStanding'
<1> DEFINE old == attempts[c][n]
           new == [old EXCEPT !.state = to, !.response = p]
<1>1. old \in Attempt
  BY AttemptTyped DEF CallsInv
<1>2. new \in Attempt /\ new.state = to
  BY <1>1 DEF Attempt, AttemptState, Live, SentStates
<1>3. SetAttempt(c, n, new)
  BY DEF Move
<1> HIDE DEF new
<1>4. Settled(new)
  BY <1>2 DEF Settled, Live, SentStates
<1>5. QED
  BY <1>2, <1>3, <1>4, SettledKept

(* A reservation is made for an attempt on its way out.                    *)
LEMMA ReserveLeavesNothing ==
  ASSUME CallsInv, NothingLeftStanding, NEW c \in Calls, NEW n \in Ordinals(c), Reserve(c, n)
  PROVE  NothingLeftStanding'
<1> DEFINE new == [attempts[c][n] EXCEPT !.state = "BUDGET_RESERVED", !.money = "RESERVED"]
<1>1. attempts[c][n] \in Attempt
  BY AttemptTyped DEF CallsInv
<1>2. new \in Attempt /\ new.state = "BUDGET_RESERVED"
  BY <1>1 DEF Attempt, AttemptState, Live
<1>3. SetAttempt(c, n, new)
  BY DEF Reserve
<1> HIDE DEF new
<1>4. Settled(new)
  BY <1>2 DEF Settled, Live
<1>5. QED
  BY <1>2, <1>3, <1>4, SettledKept

(* An end that resolves nothing, of an attempt that holds nothing.         *)
LEMMA RefusedLeavesNothing ==
  ASSUME CallsInv, NothingLeftStanding, NEW c \in Calls, NEW n \in Ordinals(c),
         attempts[c][n].state = "INTENT", EndUnresolved(c, n, "FAILED_FINAL")
  PROVE  NothingLeftStanding'
<1> DEFINE new == [attempts[c][n] EXCEPT !.state = "FAILED_FINAL"]
<1>1. attempts[c][n] \in Attempt /\ attempts[c][n].money = "none"
  BY AttemptTyped DEF CallsInv, LiveIsSecured, Secured
<1>2. new \in Attempt /\ new.state = "FAILED_FINAL" /\ new.money = "none"
  BY <1>1 DEF Attempt, AttemptState, Failed
<1>3. SetAttempt(c, n, new)
  BY DEF EndUnresolved
<1> HIDE DEF new
<1>4. Settled(new)
  BY <1>2 DEF Settled
<1>5. QED
  BY <1>2, <1>3, <1>4, SettledKept

(* An end that resolves what stands.                                       *)
LEMMA SettleLeavesNothing ==
  ASSUME CallsInv, NothingLeftStanding, NEW c \in Calls, NEW n \in Ordinals(c),
         NEW to \in Failed \cup {"COMMITTED"}, NEW u \in [Resources -> Nat],
         SettleAndAdvance(c, n, to, u)
  PROVE  NothingLeftStanding'
<1> DEFINE old == attempts[c][n]
           settled == [old EXCEPT !.state = to, !.money = "SETTLED", !.charged = Charge(c, u)]
           plain == [old EXCEPT !.state = to]
<1>1. old \in Attempt /\ old.state \in Live /\ Secured(old)
  BY AttemptTyped DEF CallsInv, LiveIsSecured, SettleAndAdvance, CanMove
<1>2. CASE old.money = "RESERVED"
  <2>1. Charge(c, u) \in [Resources -> Nat]
    BY CallsAssumption DEF Charge
  <2>2. settled \in Attempt /\ settled.money = "SETTLED"
    BY <1>1, <2>1 DEF Attempt, AttemptState
  <2>3. SetAttempt(c, n, settled)
    BY <1>2 DEF SettleAndAdvance
  <2> HIDE DEF settled
  <2>4. Settled(settled)
    BY <2>2 DEF Settled
  <2>5. QED
    BY <2>2, <2>3, <2>4, SettledKept
<1>3. CASE old.money # "RESERVED"
  <2>1. old.state = "INTENT" /\ old.money = "none"
    BY <1>1, <1>3 DEF Secured
  <2>2. to = "FAILED_FINAL"
    BY <2>1 DEF SettleAndAdvance, CanMove, LegalAttempt, Failed
  <2>3. plain \in Attempt /\ plain.state = to /\ plain.money = "none"
    BY <1>1, <2>1 DEF Attempt, AttemptState
  <2>4. SetAttempt(c, n, plain)
    BY <1>3 DEF SettleAndAdvance
  <2> HIDE DEF plain
  <2>5. Settled(plain)
    BY <2>2, <2>3 DEF Settled
  <2>6. QED
    BY <2>3, <2>4, <2>5, SettledKept
<1>4. QED
  BY <1>2, <1>3

(* No step of the provider leaves a reservation behind.                    *)
LEMMA StandingStep ==
  ASSUME ServiceInv, NothingLeftStanding, [ServiceNext]_vars
  PROVE  NothingLeftStanding'
<1>1. CallsInv /\ CallsTyped
  BY DEF ServiceInv, Inv, CallsInv
<1>2. ASSUME attempts' = attempts
      PROVE  NothingLeftStanding'
  BY <1>2 DEF NothingLeftStanding, Ordinals
<1>3. ASSUME NEW t \in Threads, NEW c \in Calls, Begin(t, c), BeginAttempt(c)
      PROVE  NothingLeftStanding'
  <2> DEFINE new == [state |-> "INTENT", money |-> "none",
                     charged |-> [r \in Resources |-> 0], response |-> NoResponse]
             last == Len(attempts[c]) + 1
  <2>1. /\ attempts[c] \in Seq(Attempt) /\ new \in Attempt
        /\ new.state = "INTENT" /\ new.money = "none"
    BY <1>1 DEF CallsTyped, Attempt, AttemptState, Live
  <2>2. attempts' = [attempts EXCEPT ![c] = Append(attempts[c], new)]
    BY <1>3 DEF BeginAttempt
  <2> HIDE DEF new
  <2>3. /\ Len(Append(attempts[c], new)) = last
        /\ \A m \in 1..Len(attempts[c]) : Append(attempts[c], new)[m] = attempts[c][m]
        /\ Append(attempts[c], new)[last] = new
    BY <2>1, AppendProperties
  <2>4. Len(attempts[c]) \in Nat
    BY <2>1, LenProperties
  <2>5. /\ attempts'[c] = Append(attempts[c], new)
        /\ \A d \in Calls : d # c => attempts'[d] = attempts[d]
    BY <1>1, <2>2 DEF CallsTyped
  <2>6. \A m \in Ordinals(c)' : m \in Ordinals(c) \/ m = last
    BY <2>3, <2>4, <2>5 DEF Ordinals
  <2>7. Settled(new)
    BY <2>1 DEF Settled
  <2>8. \A m \in Ordinals(c)' : Settled(attempts'[c][m])
    BY <2>3, <2>5, <2>6, <2>7 DEF NothingLeftStanding, Ordinals
  <2>9. \A d \in Calls : d # c => \A m \in Ordinals(d)' : Settled(attempts'[d][m])
    BY <2>5 DEF NothingLeftStanding, Ordinals
  <2>10. QED
    BY <2>8, <2>9 DEF NothingLeftStanding, Settled
<1>4. ASSUME NEW t \in Threads, NEW c \in Calls, Inside(t, c)
      PROVE  NothingLeftStanding'
  <2> DEFINE n == thread[t].n
  <2>1. \E pc \in Working : Serves(t, c, pc)
    BY <1>4 DEF Inside, ReserveCall, CloseRefused, Send, Upstream, Silent, HttpError, TooLarge,
                Freeze, ValidateCall, CommitCall, Sent, Working
  <2>2. n \in Ordinals(c) /\ attempts[c][n] \in Attempt
    BY <2>1, ServesHeld
  <2>3. CASE ReserveCall(t, c)
    BY <1>1, <1>2, <2>2, <2>3, ReserveLeavesNothing DEF ReserveCall, callVars
  <2>4. CASE CloseRefused(t, c)
    <3>1. attempts[c][n].state = "INTENT"
      BY <2>4, ServesHeld DEF CloseRefused, Working, StateAt
    <3>2. QED
      BY <1>1, <2>2, <2>4, <3>1, RefusedLeavesNothing DEF CloseRefused
  <2>5. CASE Send(t, c) \/ Freeze(t, c) \/ ValidateCall(t, c)
    <3>1. \E to \in SentStates, p \in Responses \cup {NoResponse} : Move(c, n, to, p)
      <4>1. CASE Send(t, c)
        BY <4>1 DEF Send, MarkSent, SentStates
      <4>2. CASE Freeze(t, c)
        <5>1. Serves(t, c, "settle")
          BY <4>2 DEF Freeze, Sent
        <5>2. thread[t].reply \in Replies(c)
          BY <5>1, ServesHeld DEF Holds, Working
        <5>3. thread[t].reply.body \in Responses \cup {NoResponse}
          BY <5>2, RepliesTyped DEF Reply
        <5>4. QED
          BY <4>2, <5>3 DEF Freeze, StoreResponse, SentStates
      <4>3. CASE ValidateCall(t, c)
        BY <2>2, <4>3 DEF ValidateCall, Validate, Attempt, SentStates
      <4>4. QED
        BY <2>5, <4>1, <4>2, <4>3
    <3>2. QED
      BY <1>1, <2>2, <3>1, MoveLeavesNothing
  <2>6. CASE Upstream(t, c)
    BY <1>2, <2>6 DEF Upstream, callVars
  <2>7. CASE Silent(t, c) \/ HttpError(t, c) \/ TooLarge(t, c) \/ CommitCall(t, c)
    <3>1. \E to \in Failed \cup {"COMMITTED"}, u \in [Resources -> Nat] : SettleAndAdvance(c, n, to, u)
      <4>1. CASE Silent(t, c)
        BY <4>1, CallsAssumption DEF Silent, FailUnknown, Failed
      <4>2. CASE ~Silent(t, c)
        <5>1. thread[t].reply \in Replies(c)
          <6>1. Serves(t, c, "settle") \/ Serves(t, c, "commit")
            BY <2>7, <4>2 DEF HttpError, TooLarge, CommitCall, Sent
          <6>2. QED
            BY <6>1, ServesHeld DEF Holds, Working
        <5>2. /\ FailureCharge(c, thread[t].reply) \in [Resources -> Nat]
              /\ SuccessCharge(c, thread[t].reply) \in [Resources -> Nat]
          BY <5>1, ChargesTyped
        <5>3. QED
          BY <2>7, <4>2, <5>2 DEF HttpError, TooLarge, CommitCall, FailAfterResponse, Commit, Failed
      <4>3. QED
        BY <4>1, <4>2
    <3>2. QED
      BY <1>1, <2>2, <3>1, SettleLeavesNothing
  <2>8. QED
    BY <1>4, <2>3, <2>4, <2>5, <2>6, <2>7 DEF Inside
<1>5. CASE Reconcile
  <2>1. PICK c \in Calls : \E n \in LiveOf(c) : Reconciled(c, n)
    BY <1>5 DEF Reconcile
  <2>2. PICK n \in LiveOf(c) : Reconciled(c, n)
    BY <2>1
  <2>3. \E to \in Failed, u \in [Resources -> Nat] : SettleAndAdvance(c, n, to, u)
    BY <2>2, CallsAssumption DEF Reconciled, FailUnknown, FailBeforeSend, Failed, Nothing
  <2>4. QED
    BY <1>1, <2>3, SettleLeavesNothing DEF LiveOf
<1>6. ASSUME NEW t \in Threads, NEW c \in Calls, Outside(t, c)
      PROVE  NothingLeftStanding'
  BY <1>2, <1>6, OutsideStep
<1>7. CASE Crash \/ Serve \/ UNCHANGED vars
  BY <1>2, <1>7 DEF Crash, Serve, vars, callVars
<1>8. QED
  BY <1>3, <1>4, <1>5, <1>6, <1>7, ThreadSteps DEF ServiceNext

(* Although the ledger would let a client end an attempt and leave its     *)
(* reservation standing, the provider never does: not when a reservation   *)
(* is refused, not when a thread is cut short, not at a restart.           *)
THEOREM ServiceLeavesNothingStanding == ServiceSpec => []NothingLeftStanding
<1>1. ServiceInv /\ NothingLeftStanding /\ [ServiceNext]_vars => NothingLeftStanding'
  BY StandingStep
<1>2. ServiceInit => NothingLeftStanding
  BY DEF ServiceInit, Init, NothingLeftStanding, Ordinals
<1>3. QED
  BY <1>1, <1>2, ServiceInvariance, PTL DEF ServiceSpec

-----------------------------------------------------------------------------
(* What the attempts cost, and what they were charged.                     *)

Answering == {"settle", "validate", "commit"}

(* A thread that goes on with its reply keeps the attempt it is about.     *)
LEMMA AnsweringKept ==
  ASSUME HeardInv, NEW t \in Threads, Only(t), heard' = heard,
         thread'[t].pc \in Answering =>
           /\ thread[t].pc \in Answering
           /\ thread'[t].call = thread[t].call /\ thread'[t].n = thread[t].n
           /\ thread'[t].reply = thread[t].reply
  PROVE  \A v \in Threads : thread'[v].pc \in Answering =>
           heard'[thread'[v].call][thread'[v].n] = thread'[v].reply
<1>1. \A v \in Threads : v # t => thread'[v] = thread[v]
  BY DEF Only
<1>2. \A v \in Threads : thread[v].pc \in Answering =>
        heard[thread[v].call][thread[v].n] = thread[v].reply
  BY DEF HeardInv, Answering
<1>3. QED
  BY <1>1, <1>2

(* A move of an attempt, to a state that explains what it was charged.     *)
LEMMA HeardMove ==
  ASSUME HeardInv, CallsTyped, NEW c \in Calls, NEW n \in Ordinals(c), heard' = heard,
         NEW to, NEW p, NEW u, Moves(c, n, to, p, u),
         to \in {"INTENT", "BUDGET_RESERVED"} => heard[c][n].usd = 0,
         to \notin Live => u["usd"] >= heard[c][n].usd \/ Unpriced(c, heard[c][n]),
         \A v \in Threads : thread'[v].pc \in Answering =>
           heard'[thread'[v].call][thread'[v].n] = thread'[v].reply
  PROVE  HeardInv'
<1>1. \A d \in Calls : Ordinals(d)' = Ordinals(d) /\ Len(attempts'[d]) = Len(attempts[d])
  BY DEF Moves, Ordinals
<1>2. ASSUME NEW d \in Calls, NEW m \in Ordinals(d)
      PROVE  /\ attempts'[d][m].state \in {"INTENT", "BUDGET_RESERVED"} => heard[d][m].usd = 0
             /\ KeptAt(d, m)'
  <2>1. CASE d = c /\ m = n
    BY <2>1 DEF Moves, KeptAt
  <2>2. CASE d # c \/ m # n
    BY <2>2 DEF Moves, HeardInv, KeptAt
  <2>3. QED
    BY <2>1, <2>2
<1>3. QED
  BY <1>1, <1>2 DEF HeardInv, Answering

(* An attempt's bill is a number that was paid or nothing.                 *)
LEMMA HeardTyped ==
  ASSUME HeardInv, CallsTyped, NEW c \in Calls, NEW n \in Ordinals(c)
  PROVE  n \in 1..MaxAttempts /\ heard[c][n] \in Reply /\ heard[c][n].usd \in Costs \cup {0}
<1>1. attempts[c] \in Seq(Attempt) /\ Len(attempts[c]) <= MaxAttempts /\ n \in 1..Len(attempts[c])
  BY DEF CallsTyped, HeardInv, Ordinals
<1>2. Len(attempts[c]) \in Nat /\ MaxAttempts \in Nat
  BY <1>1, LenProperties, CallsAssumption
<1>3. n \in 1..MaxAttempts
  BY <1>1, <1>2
<1>4. QED
  BY <1>3 DEF HeardInv

(* The worst case covers any cost.                                         *)
LEMMA WorstCovers ==
  ASSUME PricesAreCovered, NEW c \in Calls, NEW b \in Costs \cup {0}
  PROVE  Charge(c, Worst[c])["usd"] >= b
<1>1. Worst[c]["usd"] \in Nat /\ b \in Nat /\ b <= Worst[c]["usd"] /\ "usd" \in Resources
  BY CallsAssumption, ServiceAssumption DEF PricesAreCovered
<1>2. Charge(c, Worst[c])["usd"] = IF Worst[c]["usd"] > 0 THEN Worst[c]["usd"] ELSE 0
  BY <1>1 DEF Charge
<1>3. QED
  BY <1>1, <1>2

(* So does what a route charges for an answer, if it put a price on it.    *)
LEMMA RoutesCover ==
  ASSUME PricesAreCovered, NEW c \in Calls, NEW r \in Replies(c)
  PROVE  /\ r.status = "ok" =>
              Charge(c, SuccessCharge(c, r))["usd"] >= r.usd \/ Unpriced(c, r)
         /\ r.status = "ok" /\ r.body = NoResponse =>
              Charge(c, FailureCharge(c, r))["usd"] >= r.usd \/ Unpriced(c, r)
         /\ r.status \in {"error", "unauthorized"} =>
              Charge(c, FailureCharge(c, r))["usd"] >= r.usd \/ Unpriced(c, r)
<1>1. "usd" \in Resources /\ Worst[c]["usd"] \in Nat
  BY CallsAssumption, ServiceAssumption
<1>2. r.usd \in Nat /\ r.usd <= Worst[c]["usd"]
  BY RepliesTyped, ServiceAssumption DEF PricesAreCovered
<1>3. ASSUME NEW u \in Nat
      PROVE  Charge(c, Charged(u))["usd"] = IF Worst[c]["usd"] > 0 THEN u ELSE 0
  BY <1>1 DEF Charge, Charged
<1>4. Charge(c, Charged(r.usd))["usd"] >= r.usd /\ Charge(c, Charged(Worst[c]["usd"]))["usd"] >= r.usd
  BY <1>1, <1>2, <1>3
<1>5. r.reported => Reported(r) = r.usd
  BY DEF Reported
<1>6. CASE c \in Searches
  BY <1>4, <1>5, <1>6 DEF SuccessCharge, Unpriced
<1>7. CASE c \notin Searches
  BY <1>4, <1>5, <1>7 DEF SuccessCharge, FailureCharge, Unpriced
<1>8. QED
  BY <1>6, <1>7

(* Every step of the provider keeps the costs.                             *)
LEMMA HeardStep ==
  ASSUME ServiceInv, HeardInv, PricesAreCovered, [ServiceNext]_vars
  PROVE  HeardInv'
<1>1. CallsTyped /\ CallsInv /\ ThreadInv
  BY DEF ServiceInv, Inv, CallsInv
<1>2. ASSUME NEW t \in Threads, NEW c \in Calls, Outside(t, c)
      PROVE  HeardInv'
  <2>1. /\ Only(t) /\ attempts' = attempts /\ thread'[t].pc \notin Answering
    BY <1>2, OutsideStep DEF ServiceInv, Answering
  <2>2. heard' = heard
    BY <1>2 DEF Outside, Arrive, CheckUnauthorized, CheckFailures, CheckFence, Open, Replay, Begin,
                BeginOnCommitted, NoteFailure, RecordFatal, Raise, histories
  <2>3. \A v \in Threads : thread'[v].pc \in Answering =>
          heard'[thread'[v].call][thread'[v].n] = thread'[v].reply
    BY <2>1, <2>2, AnsweringKept
  <2>4. QED
    BY <2>1, <2>2, <2>3 DEF HeardInv, KeptAt, Ordinals, Answering
<1>3. ASSUME NEW t \in Threads, NEW c \in Calls, Begin(t, c), BeginAttempt(c)
      PROVE  HeardInv'
  <2> DEFINE last == Len(attempts[c]) + 1
  <2>1. /\ \A d \in Calls : d # c => attempts'[d] = attempts[d]
        /\ Len(attempts'[c]) = last /\ last \in Nat /\ last \in 1..MaxAttempts
        /\ \A m \in Ordinals(c) : attempts'[c][m] = attempts[c][m]
        /\ attempts'[c][last].state = "INTENT"
    BY <1>1, <1>3, BeginAppends
  <2>2. heard' = heard
    BY <1>3 DEF Begin
  <2>3. attempts[c] \in Seq(Attempt) /\ Len(attempts[c]) \in Nat
    <3>1. attempts[c] \in Seq(Attempt)
      BY <1>1 DEF CallsTyped
    <3>2. QED
      BY <3>1, LenProperties
  <2>4. /\ Ordinals(c)' = Ordinals(c) \cup {last} /\ last > Len(attempts[c])
        /\ \A m \in Nat : m > last => m > Len(attempts[c])
    BY <2>1, <2>3 DEF Ordinals
  <2>5. last <= MaxAttempts
    BY <2>1
  <2> HIDE DEF last
  <2>6. heard[c][last].usd = 0
    BY <2>1, <2>4 DEF HeardInv
  <2>7. \A d \in Calls : Len(attempts'[d]) <= MaxAttempts
    BY <2>1, <2>5 DEF HeardInv
  <2>8. ASSUME NEW d \in Calls, NEW m \in 1..MaxAttempts, m > Len(attempts'[d])
        PROVE  heard[d][m].usd = 0
    <3>1. m \in Nat
      OBVIOUS
    <3>2. m > Len(attempts[d])
      BY <2>1, <2>4, <2>8, <3>1
    <3>3. QED
      BY <3>2 DEF HeardInv
  <2>9. ASSUME NEW d \in Calls, NEW m \in Ordinals(d)'
        PROVE  /\ attempts'[d][m].state \in {"INTENT", "BUDGET_RESERVED"} => heard[d][m].usd = 0
               /\ KeptAt(d, m)'
    <3>1. CASE d = c /\ m = last
      BY <2>1, <2>2, <2>6, <3>1 DEF KeptAt, Live
    <3>2. CASE d = c /\ m \in Ordinals(c)
      BY <2>1, <2>2, <3>2 DEF HeardInv, KeptAt
    <3>3. CASE d # c
      <4>1. attempts'[d] = attempts[d] /\ m \in Ordinals(d)
        BY <2>1, <3>3 DEF Ordinals
      <4>2. QED
        BY <2>2, <4>1 DEF HeardInv, KeptAt
    <3>4. QED
      BY <2>4, <3>1, <3>2, <3>3
  <2>11. \A v \in Threads : thread'[v].pc \in Answering =>
           heard'[thread'[v].call][thread'[v].n] = thread'[v].reply
    <3>1. ThreadsTyped
      BY <1>1 DEF ThreadInv, ThreadsTyped
    <3>2. Only(t) /\ thread'[t].pc \notin Answering
      <4>1. CASE thread' = [thread EXCEPT ![t].pc = "reserve", ![t].n = last]
        BY <2>1, <3>1, <4>1, BeginFacts DEF Answering
      <4>2. CASE Refuse(t)
        BY <3>1, <4>2, IdleFacts DEF Refuse, Answering
      <4>3. QED
        BY <1>3, <4>1, <4>2 DEF Begin, last
    <3>3. QED
      BY <2>2, <3>2, AnsweringKept
  <2>12. QED
    BY <2>2, <2>7, <2>8, <2>9, <2>11 DEF HeardInv, Answering
<1>4. ASSUME NEW t \in Threads, NEW c \in Calls, Upstream(t, c)
      PROVE  HeardInv'
  <2> DEFINE n == thread[t].n
             r == thread'[t].reply
  <2>1. /\ Only(t) /\ attempts' = attempts
        /\ thread'[t].pc = "settle" /\ thread'[t].call = c /\ thread'[t].n = n
        /\ r \in Replies(c)
        /\ heard' = [heard EXCEPT ![c][n] = r]
    BY <1>4, UpstreamStep DEF callVars
  <2>2. /\ n \in Ordinals(c) /\ Busy(t) /\ thread[t].call = c
        /\ attempts[c][n].state = "SENT"
    BY <1>4, ServesHeld DEF Upstream, Working, StateAt
  <2>3. r \in Reply /\ r.usd \in Costs
    BY <2>1, RepliesTyped
  <2>4. n \in 1..MaxAttempts
    BY <1>1, <2>2, HeardTyped
  <2>5. /\ heard' \in [Calls -> [1..MaxAttempts -> Reply]]
        /\ heard'[c][n] = r
        /\ \A d \in Calls, m \in 1..MaxAttempts : d # c \/ m # n => heard'[d][m] = heard[d][m]
    <3> DEFINE f == [heard[c] EXCEPT ![n] = r]
    <3>1. heard[c] \in [1..MaxAttempts -> Reply] /\ heard' = [heard EXCEPT ![c] = f]
      BY <2>1 DEF HeardInv
    <3> HIDE DEF n, r
    <3>2. /\ f \in [1..MaxAttempts -> Reply] /\ f[n] = r
          /\ \A m \in 1..MaxAttempts : m # n => f[m] = heard[c][m]
      BY <2>3, <2>4, <3>1
    <3> HIDE DEF f
    <3>3. QED
      BY <3>1, <3>2 DEF HeardInv
  <2> HIDE DEF n, r
  <2>6. \A d \in Calls : \A m \in Ordinals(d) : m \in 1..MaxAttempts
    BY <1>1, HeardTyped
  <2>7. attempts[c][n].state \notin {"INTENT", "BUDGET_RESERVED"} /\ attempts[c][n].state \in Live
    BY <2>2 DEF Live
  <2>8. ASSUME NEW d \in Calls, NEW m \in Ordinals(d)
        PROVE  /\ attempts'[d][m].state \in {"INTENT", "BUDGET_RESERVED"} => heard'[d][m].usd = 0
               /\ KeptAt(d, m)'
    <3>1. CASE d = c /\ m = n
      BY <2>1, <2>7, <3>1 DEF KeptAt
    <3>2. CASE d # c \/ m # n
      <4>1. heard'[d][m] = heard[d][m]
        BY <2>5, <2>6, <3>2
      <4>2. QED
        BY <2>1, <4>1 DEF HeardInv, KeptAt
    <3>3. QED
      BY <3>1, <3>2
  <2>9. ASSUME NEW d \in Calls, NEW m \in 1..MaxAttempts
        PROVE  /\ heard'[d][m].usd \in Costs \cup {0}
               /\ m > Len(attempts[d]) => heard'[d][m].usd = 0
    <3>1. CASE d = c /\ m = n
      <4>1. attempts[c] \in Seq(Attempt)
        BY <1>1 DEF CallsTyped
      <4>2. Len(attempts[c]) \in Nat /\ n \in 1..Len(attempts[c])
        BY <2>2, <4>1, LenProperties DEF Ordinals
      <4>3. QED
        BY <2>3, <2>5, <3>1, <4>2
    <3>2. CASE d # c \/ m # n
      BY <2>5, <3>2 DEF HeardInv
    <3>3. QED
      BY <3>1, <3>2
  <2>10. ASSUME NEW v \in Threads, thread'[v].pc \in Answering
         PROVE  heard'[thread'[v].call][thread'[v].n] = thread'[v].reply
    <3>1. CASE v = t
      BY <2>1, <2>5, <3>1 DEF r
    <3>2. CASE v # t
      <4>1. thread'[v] = thread[v] /\ Busy(v)
        BY <2>1, <2>10, <3>2 DEF Only, Busy, Answering, Working
      <4>2. thread[v].call # c /\ thread[v].call \in Calls /\ thread[v].n \in Ordinals(thread[v].call)
        BY <1>1, <2>2, <3>2, <4>1, HolderIsLive DEF ThreadInv
      <4>3. heard'[thread[v].call][thread[v].n] = heard[thread[v].call][thread[v].n]
        BY <2>5, <2>6, <4>2
      <4>4. QED
        BY <2>10, <4>1, <4>3 DEF HeardInv, Answering
    <3>3. QED
      BY <3>1, <3>2
  <2>11. QED
    BY <2>1, <2>5, <2>8, <2>9, <2>10 DEF HeardInv, Ordinals, Answering
<1>5. ASSUME NEW t \in Threads, NEW c \in Calls, ReserveCall(t, c) \/ CloseRefused(t, c) \/ Send(t, c)
      PROVE  HeardInv'
  <2> DEFINE n == thread[t].n
             u == attempts[c][n].charged
  <2>1. /\ n \in Ordinals(c) /\ attempts[c][n].state \in {"INTENT", "BUDGET_RESERVED"}
    BY <1>5, ServesHeld DEF ReserveCall, CloseRefused, Send, Working, StateAt
  <2>2. heard[c][n].usd = 0
    BY <2>1 DEF HeardInv
  <2>3. u["usd"] \in Nat
    <3>1. attempts[c][n] \in Attempt /\ "usd" \in Resources
      BY <1>1, <2>1, AttemptTyped, ServiceAssumption
    <3>2. QED
      BY <3>1 DEF Attempt
  <2>4. heard' = heard
    BY <1>5 DEF ReserveCall, CloseRefused, Send
  <2>5. /\ Only(t) /\ thread'[t].pc \notin Answering
        /\ \E to, p : Moves(c, n, to, p, u)
    BY <1>5, ReserveCallStep, CloseRefusedStep, SendStep DEF Answering
  <2>6. PICK to, p : Moves(c, n, to, p, u)
    BY <2>5
  <2>7. \A v \in Threads : thread'[v].pc \in Answering =>
          heard'[thread'[v].call][thread'[v].n] = thread'[v].reply
    BY <2>4, <2>5, AnsweringKept
  <2> HIDE DEF n, u
  <2>8. QED
    BY <1>1, <2>1, <2>2, <2>3, <2>4, <2>6, <2>7, HeardMove
<1>6. ASSUME NEW t \in Threads, NEW c \in Calls,
             Silent(t, c) \/ HttpError(t, c) \/ TooLarge(t, c)
      PROVE  HeardInv'
  <2> DEFINE n == thread[t].n
             r == thread[t].reply
             p == attempts[c][n].response
  <2>1. PICK to \in Failed, u \in [Resources -> Nat] :
          /\ Moves(c, n, to, p, Charge(c, u))
          /\ u = IF Silent(t, c) THEN Worst[c] ELSE FailureCharge(c, r)
    BY <1>6, FailStep
  <2>2. Only(t) /\ thread'[t].pc \in {"note", "idle"}
    BY <1>6, FailStep
  <2>3. /\ n \in Ordinals(c) /\ Holds(t) /\ thread[t].call = c /\ thread[t].pc = "settle"
        /\ attempts[c][n].state = "SENT"
    BY <1>6, ServesHeld DEF Silent, HttpError, TooLarge, Sent, Working, StateAt
  <2>4. r \in Replies(c)
    BY <2>3 DEF Holds
  <2>5. heard' = heard
    BY <1>6 DEF Silent, HttpError, TooLarge, histories
  <2>6. heard[c][n] = r
    BY <2>3 DEF HeardInv
  <2>7. Charge(c, u)["usd"] >= heard[c][n].usd \/ Unpriced(c, heard[c][n])
    <3>1. CASE Silent(t, c)
      <4>1. heard[c][n].usd \in Costs \cup {0}
        BY <1>1, <2>3, HeardTyped
      <4>2. QED
        BY <2>1, <3>1, <4>1, WorstCovers
    <3>2. CASE ~Silent(t, c)
      <4>1. \/ r.status \in {"error", "unauthorized"}
            \/ r.status = "ok" /\ r.body = NoResponse
        BY <1>6, <3>2 DEF HttpError, TooLarge, Sent
      <4>2. Charge(c, FailureCharge(c, r))["usd"] >= r.usd \/ Unpriced(c, r)
        BY <2>4, <4>1, RoutesCover
      <4>3. QED
        BY <2>1, <2>6, <3>2, <4>2
    <3>3. QED
      BY <3>1, <3>2
  <2>8. to \notin {"INTENT", "BUDGET_RESERVED"} /\ to \notin SentStates
    BY <2>1 DEF Failed, SentStates
  <2>9. \A v \in Threads : thread'[v].pc \in Answering =>
          heard'[thread'[v].call][thread'[v].n] = thread'[v].reply
    BY <2>2, <2>5, AnsweringKept DEF Answering
  <2> HIDE DEF n, p, r
  <2>10. QED
    BY <1>1, <2>1, <2>3, <2>5, <2>7, <2>8, <2>9, HeardMove
<1>7. ASSUME NEW t \in Threads, NEW c \in Calls, Freeze(t, c) \/ ValidateCall(t, c)
      PROVE  HeardInv'
  <2> DEFINE n == thread[t].n
             p == thread[t].reply.body
             u == attempts[c][n].charged
  <2>1. /\ n \in Ordinals(c) /\ thread[t].call = c /\ thread[t].pc \in Answering
        /\ attempts[c][n].state \in SentStates
    BY <1>7, ServesHeld DEF Freeze, ValidateCall, Sent, Working, StateAt, Answering, SentStates
  <2>3. /\ Only(t) /\ thread'[t].call = c /\ thread'[t].n = n
        /\ thread'[t].reply = thread[t].reply
        /\ \E to \in {"RESPONSE_STORED", "VALIDATED"} : Moves(c, n, to, p, u)
    BY <1>7, FreezeStep, ValidateStep
  <2>4. PICK to \in {"RESPONSE_STORED", "VALIDATED"} : Moves(c, n, to, p, u)
    BY <2>3
  <2>5. heard' = heard
    BY <1>7 DEF Freeze, ValidateCall, histories
  <2>6. \A v \in Threads : thread'[v].pc \in Answering =>
          heard'[thread'[v].call][thread'[v].n] = thread'[v].reply
    BY <2>1, <2>3, <2>5, AnsweringKept
  <2>7. to \notin {"INTENT", "BUDGET_RESERVED"} /\ to \in Live
    BY DEF Live
  <2> HIDE DEF n, p, u
  <2>8. QED
    BY <1>1, <2>1, <2>4, <2>5, <2>6, <2>7, HeardMove
<1>8. ASSUME NEW t \in Threads, NEW c \in Calls, CommitCall(t, c)
      PROVE  HeardInv'
  <2> DEFINE n == thread[t].n
             r == thread[t].reply
             p == r.body
             u == Charge(c, SuccessCharge(c, r))
  <2>1. /\ Only(t) /\ thread'[t] = Idle
        /\ r \in Replies(c) /\ r.status = "ok"
        /\ Moves(c, n, "COMMITTED", p, u)
    BY <1>8, CommitStep
  <2>2. n \in Ordinals(c) /\ thread[t].call = c /\ thread[t].pc = "commit"
    BY <1>8, ServesHeld DEF CommitCall, Working
  <2>3. heard' = heard
    BY <1>8 DEF CommitCall
  <2>4. u["usd"] >= heard[c][n].usd \/ Unpriced(c, heard[c][n])
    <3>1. heard[c][n] = r
      BY <2>2 DEF HeardInv
    <3>2. u["usd"] >= r.usd \/ Unpriced(c, r)
      BY <2>1, RoutesCover
    <3>3. QED
      BY <3>1, <3>2
  <2>5. \A v \in Threads : thread'[v].pc \in Answering =>
          heard'[thread'[v].call][thread'[v].n] = thread'[v].reply
    BY <2>1, <2>3, AnsweringKept DEF Idle, Answering
  <2>6. "COMMITTED" \notin {"INTENT", "BUDGET_RESERVED"} /\ "COMMITTED" \notin SentStates
    BY DEF SentStates
  <2> HIDE DEF n, p, u
  <2>7. QED
    BY <1>1, <2>1, <2>2, <2>3, <2>4, <2>5, <2>6, HeardMove
<1>9. CASE Reconcile
  <2>1. PICK c \in Calls : \E n \in LiveOf(c) : \E to \in Failed : \E u \in {Worst[c], Nothing} :
          /\ Moves(c, n, to, attempts[c][n].response,
                   IF attempts[c][n].state = "INTENT" THEN Nothing ELSE Charge(c, u))
          /\ attempts[c][n].state \in SentStates => u = Worst[c]
    BY <1>9, ReconcileStep
  <2>2. PICK n \in LiveOf(c), to \in Failed, u \in {Worst[c], Nothing} :
          /\ Moves(c, n, to, attempts[c][n].response,
                   IF attempts[c][n].state = "INTENT" THEN Nothing ELSE Charge(c, u))
          /\ attempts[c][n].state \in SentStates => u = Worst[c]
    BY <2>1
  <2> DEFINE charge == IF attempts[c][n].state = "INTENT" THEN Nothing ELSE Charge(c, u)
             p == attempts[c][n].response
  <2>3. n \in Ordinals(c) /\ attempts[c][n].state \in Live
    BY DEF LiveOf
  <2>4. heard' = heard /\ thread' = thread
    BY <1>9 DEF Reconcile, serviceVars
  <2>5. charge["usd"] >= heard[c][n].usd
    <3>1. CASE attempts[c][n].state \in SentStates
      <4>1. heard[c][n].usd \in Costs \cup {0}
        BY <1>1, <2>3, HeardTyped
      <4>2. charge = Charge(c, Worst[c])
        BY <2>2, <3>1 DEF SentStates
      <4>3. QED
        BY <4>1, <4>2, WorstCovers
    <3>2. CASE attempts[c][n].state \notin SentStates
      <4>1. heard[c][n].usd = 0
        BY <2>3, <3>2 DEF HeardInv, Live, SentStates
      <4>2. charge["usd"] \in Nat
        <5>1. Worst[c] \in [Resources -> Nat] /\ Nothing \in [Resources -> Nat]
              /\ "usd" \in Resources
          BY CallsAssumption, ServiceAssumption DEF Nothing
        <5>2. u \in [Resources -> Nat]
          BY <2>2, <5>1
        <5>3. Charge(c, u)["usd"] \in Nat /\ Nothing["usd"] \in Nat
          BY <5>1, <5>2, ChargeTyped
        <5>4. QED
          BY <5>3
      <4>3. QED
        BY <4>1, <4>2
    <3>3. QED
      BY <3>1, <3>2
  <2>6. to \notin {"INTENT", "BUDGET_RESERVED"} /\ to \notin SentStates
    BY <2>2 DEF Failed, SentStates
  <2>7. \A v \in Threads : thread'[v].pc \in Answering =>
          heard'[thread'[v].call][thread'[v].n] = thread'[v].reply
    BY <2>4 DEF HeardInv, Answering
  <2>8. Moves(c, n, to, p, charge)
    BY <2>2
  <2> HIDE DEF p, charge
  <2>9. QED
    BY <1>1, <2>3, <2>4, <2>5, <2>6, <2>7, <2>8, HeardMove
<1>10. CASE Crash \/ Serve \/ UNCHANGED vars
  <2>1. /\ UNCHANGED <<attempts, heard>>
        /\ thread' = thread \/ \A v \in Threads : thread'[v] = Idle
    BY <1>10 DEF Crash, Serve, vars, callVars, serviceVars, histories
  <2>2. \A v \in Threads : thread'[v].pc \in Answering =>
          heard'[thread'[v].call][thread'[v].n] = thread'[v].reply
    BY <2>1 DEF HeardInv, Answering, Idle
  <2>3. QED
    BY <2>1, <2>2 DEF HeardInv, KeptAt, Ordinals, Answering
<1>11. QED
  BY <1>2, <1>3, <1>4, <1>5, <1>6, <1>7, <1>8, <1>9, <1>10, ThreadSteps
     DEF ServiceNext, Inside

(* Nothing bought, nothing heard.                                          *)
LEMMA HeardInit == ServiceInit => HeardInv
<1> SUFFICES ASSUME ServiceInit
             PROVE  HeardInv
  OBVIOUS
<1>1. /\ \A c \in Calls : attempts[c] = << >>
      /\ heard = [c \in Calls |-> [n \in 1..MaxAttempts |-> NoReply]]
      /\ \A t \in Threads : thread[t] = Idle
  BY DEF ServiceInit, Init
<1>2. \A c \in Calls : Len(attempts[c]) = 0 /\ Ordinals(c) = {}
  <2>1. Len(<< >>) = 0
    OBVIOUS
  <2>2. 1..0 = {}
    OBVIOUS
  <2>3. QED
    BY <1>1, <2>1, <2>2 DEF Ordinals
<1>3. MaxAttempts \in Nat /\ NoReply \in Reply /\ NoReply.usd = 0
  BY CallsAssumption, IdleTyped DEF NoReply
<1>4. QED
  BY <1>1, <1>2, <1>3 DEF HeardInv, Idle

(* The parts of the invariant say it.                                      *)
LEMMA HeardMeansKept ==
  ASSUME CallsTyped, HeardInv
  PROVE  CostsAreKept
<1>1. ASSUME NEW a \in Undercounted
      PROVE  Unpriced(a[1], heard[a[1]][a[2]])
  <2>1. /\ a[1] \in Calls /\ a[2] \in Ordinals(a[1])
        /\ attempts[a[1]][a[2]].state \notin Live
        /\ attempts[a[1]][a[2]].charged["usd"] < heard[a[1]][a[2]].usd
    BY DEF Undercounted
  <2>2. attempts[a[1]][a[2]] \in Attempt /\ heard[a[1]][a[2]] \in Reply /\ "usd" \in Resources
    BY <2>1, AttemptTyped, HeardTyped, ServiceAssumption
  <2>3. attempts[a[1]][a[2]].charged["usd"] \in Nat /\ heard[a[1]][a[2]].usd \in Nat
    BY <2>2 DEF Attempt, Reply
  <2>4. ~(attempts[a[1]][a[2]].charged["usd"] >= heard[a[1]][a[2]].usd)
    BY <2>1, <2>3
  <2>5. QED
    BY <2>1, <2>4 DEF HeardInv, KeptAt
<1>2. QED
  BY <1>1 DEF CostsAreKept

(* Where a worst case is one, an attempt ends charged less than it cost    *)
(* only if its answer was read and carried no price: never by silence, by  *)
(* a malformed answer, by a thread cut short or by a restart.              *)
THEOREM ServiceKeepsTheCosts ==
  ASSUME PricesAreCovered
  PROVE  ServiceSpec => []CostsAreKept
<1>1. ServiceInv /\ HeardInv /\ [ServiceNext]_vars => HeardInv'
  BY HeardStep
<1>2. ServiceInv /\ HeardInv => CostsAreKept
  BY HeardMeansKept DEF ServiceInv, Inv, CallsInv
<1>3. QED
  BY <1>1, <1>2, HeardInit, ServiceInvariance, PTL DEF ServiceSpec

-----------------------------------------------------------------------------
(* The fence.                                                              *)

\* the steps between the last read of the fence and the sending
Early == {"open", "replay", "begin", "reserve", "send"}

(* The requests past the reads are finitely many.                          *)
LEMMA PastReadFinite ==
  ASSUME NEW p, NEW k
  PROVE  IsFiniteSet(PastRead(p, k)) /\ Cardinality(PastRead(p, k)) \in Nat
<1>1. IsFiniteSet(Threads) /\ PastRead(p, k) \subseteq Threads
  BY ServiceAssumption DEF PastRead
<1>2. IsFiniteSet(PastRead(p, k))
  BY <1>1, FS_Subset
<1>3. QED
  BY <1>2, FS_CardinalityType

(* So are those that no read will stop.                                    *)
LEMMA PendingFinite ==
  ASSUME NEW p
  PROVE  IsFiniteSet(Pending(p)) /\ Cardinality(Pending(p)) \in Nat
<1>1. IsFiniteSet(Threads) /\ Pending(p) \subseteq Threads
  BY ServiceAssumption DEF Pending
<1>2. IsFiniteSet(Pending(p))
  BY <1>1, FS_Subset
<1>3. QED
  BY <1>2, FS_CardinalityType

(* A step that adds nobody no read will stop, and does not touch the       *)
(* fence, keeps it.                                                        *)
LEMMA FenceKept ==
  ASSUME FenceInv, UNCHANGED <<latest, fenced, spare>>,
         \A p \in fenced : fenced = {p} => Pending(p)' \subseteq Pending(p)
  PROVE  FenceInv'
<1>1. ASSUME NEW p \in fenced', fenced' = {p}
      PROVE  Cardinality(Pending(p)') <= spare'[p]
  <2>1. p \in fenced /\ fenced = {p} /\ Pending(p)' \subseteq Pending(p)
    BY <1>1
  <2>2. Cardinality(Pending(p)) <= spare[p] /\ spare[p] \in Int
    BY <2>1 DEF FenceInv
  <2>3. IsFiniteSet(Pending(p)) /\ Cardinality(Pending(p)) \in Nat
    BY PendingFinite
  <2>4. IsFiniteSet(Pending(p)') /\ Cardinality(Pending(p)') <= Cardinality(Pending(p))
    BY <2>1, <2>3, FS_Subset
  <2>5. Cardinality(Pending(p)') \in Nat
    BY <2>4, FS_CardinalityType
  <2>6. QED
    BY <2>2, <2>3, <2>4, <2>5
<1>2. QED
  BY <1>1 DEF FenceInv

(* A thread that did not just pass the reads adds nobody.                  *)
LEMMA NobodyPasses ==
  ASSUME NEW t \in Threads, NEW p, Only(t), latest' = latest, thread'[t].pc # "fence2",
         thread'[t].pc \in Early => thread[t].pc \in Early /\ thread'[t].call = thread[t].call
  PROVE  Pending(p)' \subseteq Pending(p)
<1>1. \A u \in Threads : u # t => thread'[u] = thread[u]
  BY DEF Only
<1>2. ASSUME NEW u \in Threads, Escapes(u, p)'
      PROVE  Escapes(u, p)
  BY <1>1, <1>2 DEF Escapes, Early
<1>3. QED
  BY <1>2 DEF Pending

(* One read of the fence: a request of the one fenced provider that gets   *)
(* past the first meets the incident at the second.                        *)
LEMMA FenceChecked ==
  ASSUME ServiceInv, FenceInv, NEW t \in Threads, NEW c \in Calls,
         CheckUnauthorized(t, c) \/ CheckFailures(t, c)
  PROVE  FenceInv'
<1>1. UNCHANGED <<latest, fenced, spare>>
  BY DEF CheckUnauthorized, CheckFailures, CheckFence, histories
<1>2. ThreadsTyped
  BY DEF ServiceInv, ThreadInv, ThreadsTyped
<1>3. Only(t) /\ thread[t].call = c
  BY OutsideStep DEF Outside, CheckUnauthorized, CheckFailures, Serves
<1>4. ASSUME NEW p \in fenced, fenced = {p}
      PROVE  Pending(p)' \subseteq Pending(p)
  <2>1. \A u \in Threads : u # t => thread'[u] = thread[u]
    BY <1>3 DEF Only
  <2>2. Escapes(t, p)' => Escapes(t, p)
    <3>1. CASE Refuse(t)
      BY <1>2, <3>1, IdleFacts DEF Refuse, Escapes, Early
    <3>2. CASE latest["provider_unauthorized"] # prov[c] /\ Goto(t, "fence2")
      <4>1. thread'[t].pc = "fence2" /\ thread'[t].call = c
        BY <1>2, <1>3, <3>2, GotoFacts DEF Steps
      <4>2. PICK k \in Kinds : latest[k] = p
        BY <1>4 DEF FenceInv
      <4>3. prov[c] = p => latest["provider_consecutive_failures"] = p
        BY <3>2, <4>2 DEF Kinds
      <4>4. QED
        BY <1>1, <4>1, <4>3 DEF Escapes
    <3>3. CASE /\ thread[t].pc = "fence2" /\ latest["provider_consecutive_failures"] # prov[c]
               /\ Goto(t, "open")
      <4>1. thread'[t].call = c
        BY <1>2, <1>3, <3>3, GotoFacts DEF Steps
      <4>2. QED
        BY <1>3, <3>3, <4>1 DEF Escapes
    <3>4. QED
      BY <3>1, <3>2, <3>3 DEF CheckUnauthorized, CheckFailures, CheckFence, Names, Serves
  <2>3. QED
    BY <1>1, <2>1, <2>2 DEF Pending, Escapes
<1>5. QED
  BY <1>1, <1>4, FenceKept

(* A thread's other steps outside an attempt pass nobody.                  *)
LEMMA FenceOutside ==
  ASSUME ServiceInv, FenceInv, NEW t \in Threads, NEW c \in Calls, Outside(t, c),
         ~RecordFatal(t, c), ~CheckUnauthorized(t, c), ~CheckFailures(t, c)
  PROVE  FenceInv'
<1>1. UNCHANGED <<latest, fenced, spare>>
  BY DEF Outside, Arrive, Open, Replay, Begin, BeginOnCommitted, NoteFailure, Raise,
         ledgerOnly, histories
<1>2. Only(t) /\ (thread'[t].pc # "idle" => thread'[t].call = c)
  BY OutsideStep
<1>3. ThreadsTyped
  BY DEF ServiceInv, ThreadInv, ThreadsTyped
<1>4. /\ thread'[t].pc # "fence2"
      /\ thread'[t].pc \in Early => thread[t].pc \in Early /\ thread[t].call = c
  <2>1. CASE Open(t, c)
    <3>1. thread'[t].pc = "replay"
      BY <1>3, <2>1, GotoFacts DEF Open, Steps
    <3>2. QED
      BY <2>1, <3>1 DEF Open, Serves, Early
  <2>2. CASE Replay(t, c)
    <3>1. thread'[t].pc = "begin" \/ thread'[t].pc = "idle"
      BY <1>3, <2>2, GotoFacts, IdleFacts DEF Replay, Reply200, Steps
    <3>2. QED
      BY <2>2, <3>1 DEF Replay, Serves, Early
  <2>3. CASE (Begin(t, c) /\ ~BeginAttempt(c)) \/ BeginOnCommitted(t, c)
    <3>1. thread'[t].pc = "idle"
      BY <1>3, <2>3, IdleFacts DEF Begin, BeginOnCommitted, Refuse
    <3>2. QED
      BY <3>1 DEF Early
  <2>4. CASE Arrive(t, c)
    BY <1>3, <2>4, ArriveFacts DEF Early
  <2>5. CASE NoteFailure(t, c)
    <3>1. Goto(t, "record") \/ Refuse(t)
      BY <2>5 DEF NoteFailure
    <3>2. QED
      BY <1>3, <3>1, GotoFacts, IdleFacts DEF Refuse, Steps, Early
  <2>6. CASE Raise(t, c)
    BY <1>3, <2>6, IdleFacts DEF Raise, Refuse, Early
  <2>7. QED
    BY <2>1, <2>2, <2>3, <2>4, <2>5, <2>6 DEF Outside
<1>5. \A p : Pending(p)' \subseteq Pending(p)
  BY <1>1, <1>2, <1>4, NobodyPasses DEF Early
<1>6. QED
  BY <1>1, <1>5, FenceKept

(* The incident: the requests past its read by now are the spare ones.     *)
LEMMA FenceRecorded ==
  ASSUME ServiceInv, FenceInv, NEW t \in Threads, NEW c \in Calls, RecordFatal(t, c)
  PROVE  FenceInv'
<1> DEFINE p == prov[c]
           k == KindOf(thread[t].reply)
<1>1. p \in Providers /\ k \in Kinds /\ None \notin Providers
  BY ServiceAssumption DEF Kinds, KindOf
<1>2. /\ latest' = [latest EXCEPT ![k] = p]
      /\ fenced' = fenced \cup {p}
      /\ spare' = [spare EXCEPT ![p] = IF p \in fenced THEN spare[p] ELSE Cardinality(PastRead(p, k))]
      /\ thread[t].pc = "record" /\ Refuse(t)
  BY DEF RecordFatal, Serves
<1>3. ThreadsTyped
  BY DEF ServiceInv, ThreadInv, ThreadsTyped
<1>4. Only(t) /\ thread'[t].pc = "idle"
  BY <1>2, <1>3, IdleFacts DEF Refuse
<1>5. \A u \in Threads : u # t => thread'[u] = thread[u]
  BY <1>4 DEF Only
<1> HIDE DEF k, p
<1>6. /\ latest' \in [Kinds -> Providers \cup {None}] /\ latest'[k] = p
      /\ \A j \in Kinds : latest'[j] \in fenced' \cup {None}
      /\ \A j \in Kinds : latest'[j] = p \/ latest'[j] = latest[j]
  BY <1>1, <1>2 DEF FenceInv
<1>7. Pending(p)' \subseteq Pending(p)
  <2>1. "provider_consecutive_failures" \in Kinds
    BY DEF Kinds
  <2>2. \A u \in Threads : Escapes(u, p)' => Escapes(u, p)
    BY <1>4, <1>5, <1>6, <2>1 DEF Escapes, Early
  <2>3. QED
    BY <2>2 DEF Pending
<1>8. Pending(p)' \subseteq PastRead(p, k)
  <2>1. k = "provider_unauthorized" \/ k = "provider_consecutive_failures"
    BY <1>1 DEF Kinds
  <2>2. k = "provider_consecutive_failures" => latest'["provider_consecutive_failures"] = p
    BY <1>6
  <2>3. \A u \in Threads : Escapes(u, p)' => u \in PastRead(p, k)
    BY <1>4, <1>5, <2>1, <2>2 DEF Escapes, PastRead, Early
  <2>4. QED
    BY <2>3 DEF Pending
<1>9. IsFiniteSet(PastRead(p, k)) /\ Cardinality(PastRead(p, k)) \in Nat
  BY PastReadFinite
<1>10. p # None
  BY <1>1
<1>11. spare' \in [Providers -> Int] /\ fenced' \subseteq Providers
  BY <1>1, <1>2, <1>9 DEF FenceInv
<1>12. ASSUME NEW q \in fenced', fenced' = {q}
       PROVE  Cardinality(Pending(q)') <= spare'[q]
  <2>1. q = p
    BY <1>2, <1>12
  <2>2. CASE p \in fenced
    <3>1. fenced = {p} /\ spare'[p] = spare[p] /\ spare[p] \in Int
      BY <1>1, <1>2, <1>12, <2>1, <2>2 DEF FenceInv
    <3>2. Cardinality(Pending(p)) <= spare[p]
      BY <2>2, <3>1 DEF FenceInv
    <3>3. IsFiniteSet(Pending(p)) /\ Cardinality(Pending(p)) \in Nat
      BY PendingFinite
    <3>4. Cardinality(Pending(p)') <= Cardinality(Pending(p)) /\ Cardinality(Pending(p)') \in Nat
      BY <1>7, <3>3, FS_Subset, FS_CardinalityType
    <3>5. QED
      BY <2>1, <3>1, <3>2, <3>3, <3>4
  <2>3. CASE p \notin fenced
    <3>1. spare'[p] = Cardinality(PastRead(p, k))
      BY <1>1, <1>2, <2>3 DEF FenceInv
    <3>2. Cardinality(Pending(p)') <= Cardinality(PastRead(p, k))
      BY <1>8, <1>9, FS_Subset
    <3>3. QED
      BY <2>1, <3>1, <3>2
  <2>4. QED
    BY <2>2, <2>3
<1>13. QED
  BY <1>1, <1>6, <1>10, <1>11, <1>12 DEF FenceInv

(* A request sent is one fewer that no read will stop.                     *)
LEMMA FenceSent ==
  ASSUME ServiceInv, FenceInv, NEW t \in Threads, NEW c \in Calls, Send(t, c)
  PROVE  FenceInv'
<1> DEFINE p == prov[c]
           one == IF p \in fenced THEN 1 ELSE 0
<1>1. p \in Providers /\ one \in 0..1
  BY ServiceAssumption
<1>2. /\ UNCHANGED <<latest, fenced>>
      /\ spare' = [spare EXCEPT ![p] = spare[p] - one]
      /\ thread[t].pc = "send" /\ thread[t].call = c
  BY DEF Send, Serves
<1>3. Only(t) /\ thread'[t].pc = "upstream"
  BY SendStep
<1>4. t \in Pending(p) /\ Pending(p)' = Pending(p) \ {t}
  <2>1. \A u \in Threads : u # t => (Escapes(u, p)' <=> Escapes(u, p))
    BY <1>2, <1>3 DEF Only, Escapes
  <2>2. Escapes(t, p) /\ ~Escapes(t, p)'
    BY <1>2, <1>3 DEF Escapes, Early
  <2>3. QED
    BY <2>1, <2>2 DEF Pending
<1>5. IsFiniteSet(Pending(p)) /\ Cardinality(Pending(p)) \in Nat
  BY PendingFinite
<1>6. Cardinality(Pending(p)') = Cardinality(Pending(p)) - 1
  BY <1>4, <1>5, FS_RemoveElement
<1> HIDE DEF one
<1>7. spare[p] \in Int /\ spare[p] - one \in Int
  BY <1>1 DEF FenceInv
<1> HIDE DEF p
<1>8. spare' \in [Providers -> Int] /\ spare'[p] = spare[p] - one
  BY <1>1, <1>2, <1>7 DEF FenceInv
<1>9. ASSUME NEW q \in fenced', fenced' = {q}
      PROVE  Cardinality(Pending(q)') <= spare'[q]
  <2>1. q \in fenced /\ fenced = {q} /\ q \in Providers
    BY <1>2, <1>9 DEF FenceInv
  <2>2. Cardinality(Pending(q)) <= spare[q] /\ spare[q] \in Int
    BY <2>1 DEF FenceInv
  <2>3. CASE q = p
    <3>1. one = 1
      BY <2>1, <2>3 DEF one, p
    <3>2. QED
      BY <1>5, <1>6, <1>8, <2>2, <2>3, <3>1
  <2>4. CASE q # p
    <3>1. spare'[q] = spare[q]
      BY <1>2, <2>1, <2>4 DEF FenceInv
    <3>2. Pending(q)' \subseteq Pending(q)
      BY <1>2, <1>3, NobodyPasses DEF Early
    <3>3. IsFiniteSet(Pending(q)) /\ Cardinality(Pending(q)) \in Nat
      BY PendingFinite
    <3>4. Cardinality(Pending(q)') <= Cardinality(Pending(q)) /\ Cardinality(Pending(q)') \in Nat
      BY <3>2, <3>3, FS_Subset, FS_CardinalityType
    <3>5. QED
      BY <2>2, <3>1, <3>3, <3>4
  <2>5. QED
    BY <2>3, <2>4
<1>10. QED
  BY <1>2, <1>8, <1>9 DEF FenceInv

(* Every step of the provider keeps the fence.                             *)
LEMMA FenceStep ==
  ASSUME ServiceInv, FenceInv, [ServiceNext]_vars
  PROVE  FenceInv'
<1>1. ThreadsTyped
  BY DEF ServiceInv, ThreadInv, ThreadsTyped
<1>2. ASSUME NEW t \in Threads, NEW c \in Calls, Outside(t, c)
      PROVE  FenceInv'
  BY <1>2, FenceOutside, FenceRecorded, FenceChecked
<1>3. ASSUME NEW t \in Threads, NEW c \in Calls, Begin(t, c)
      PROVE  FenceInv'
  <2>1. /\ thread[t].pc = "begin" /\ thread[t].call = c
        /\ UNCHANGED <<latest, fenced, spare>>
    BY <1>3 DEF Begin, Serves, ledgerOnly
  <2>2. Only(t) /\ thread'[t].pc # "fence2" /\ (thread'[t].pc \in Early => thread'[t].call = c)
    <3>1. CASE thread' = [thread EXCEPT ![t].pc = "reserve", ![t].n = Len(attempts[c]) + 1]
      <4>1. attempts[c] \in Seq(Attempt)
        BY DEF ServiceInv, Inv, CallsInv, CallsTyped
      <4>2. Len(attempts[c]) + 1 \in Nat
        BY <4>1, LenProperties
      <4>3. QED
        BY <1>1, <2>1, <3>1, <4>2, BeginFacts
    <3>2. CASE Refuse(t)
      BY <1>1, <3>2, IdleFacts DEF Refuse, Idle, Early
    <3>3. QED
      BY <1>3, <3>1, <3>2 DEF Begin
  <2>3. \A p \in fenced : Pending(p)' \subseteq Pending(p)
    BY <2>1, <2>2, NobodyPasses DEF Early
  <2>4. QED
    BY <2>1, <2>3, FenceKept
<1>4. ASSUME NEW t \in Threads, NEW c \in Calls, Inside(t, c), ~Send(t, c)
      PROVE  FenceInv'
  <2>1. UNCHANGED <<latest, fenced, spare>>
    BY <1>4 DEF Inside, ReserveCall, CloseRefused, Upstream, Silent, HttpError, TooLarge, Freeze,
                ValidateCall, CommitCall, ledgerOnly, histories
  <2>2. Only(t)
    BY <1>4, ReserveCallStep, CloseRefusedStep, UpstreamStep, FailStep, FreezeStep, ValidateStep,
       CommitStep DEF Inside
  <2>3. CASE ReserveCall(t, c)
    <3>1. /\ thread[t].pc \in Early /\ thread[t].call = c
          /\ thread'[t].pc \in {"send", "refused"} /\ thread'[t].call = c
      BY <2>3, ReserveCallStep DEF ReserveCall, Serves, Early
    <3>2. QED
      BY <2>1, <2>2, <3>1, NobodyPasses, FenceKept
  <2>4. CASE ~ReserveCall(t, c)
    <3>1. thread'[t].pc \notin Early \cup {"fence2"}
      <4>1. CASE Upstream(t, c)
        BY <4>1, UpstreamStep DEF Early
      <4>2. CASE Silent(t, c) \/ HttpError(t, c) \/ TooLarge(t, c)
        BY <4>2, FailStep DEF Early
      <4>3. CASE Freeze(t, c) \/ ValidateCall(t, c)
        BY <4>3, FreezeStep, ValidateStep DEF Early
      <4>4. CASE CommitCall(t, c) \/ CloseRefused(t, c)
        BY <4>4, CommitStep, CloseRefusedStep DEF Idle, Early
      <4>5. QED
        BY <1>4, <2>4, <4>1, <4>2, <4>3, <4>4 DEF Inside
    <3>2. QED
      BY <2>1, <2>2, <3>1, NobodyPasses, FenceKept
  <2>5. QED
    BY <2>3, <2>4
<1>5. CASE Crash
  <2>1. /\ UNCHANGED <<latest, fenced>>
        /\ \A v \in Threads : thread'[v] = Idle
        /\ spare' = [p \in Providers |-> 0]
    BY <1>5 DEF Crash
  <2>2. \A p : Pending(p)' = {}
    BY <2>1 DEF Pending, Escapes, Idle
  <2>3. \A p : Cardinality(Pending(p)') = 0
    BY <2>2, FS_EmptySet
  <2>4. QED
    BY <2>1, <2>3 DEF FenceInv
<1>6. CASE Reconcile \/ Serve \/ UNCHANGED vars
  <2>1. UNCHANGED <<latest, fenced, spare, thread>>
    BY <1>6 DEF Reconcile, Serve, vars, serviceVars, histories
  <2>2. QED
    BY <2>1, FenceKept DEF Pending, Escapes
<1>7. QED
  BY <1>2, <1>3, <1>4, <1>5, <1>6, FenceSent, ThreadSteps DEF ServiceNext

(* Nobody is fenced.                                                       *)
LEMMA FenceInit == ServiceInit => FenceInv
BY DEF ServiceInit, FenceInv

(* While the incidents name one provider, no request is sent to it but     *)
(* those that were past the check when it was first fenced, and none after *)
(* a restart.                                                              *)
THEOREM ServiceFenceHolds == ServiceSpec => []FenceHoldsForOne
<1>1. ServiceInv /\ FenceInv /\ [ServiceNext]_vars => FenceInv'
  BY FenceStep
<1>2. FenceInv => FenceHoldsForOne
  <2> SUFFICES ASSUME FenceInv, NEW p \in fenced, fenced = {p}
               PROVE  spare[p] >= 0
    BY DEF FenceHoldsForOne
  <2>1. Cardinality(Pending(p)) <= spare[p] /\ spare[p] \in Int
    BY DEF FenceInv
  <2>2. Cardinality(Pending(p)) \in Nat
    BY PendingFinite
  <2>3. QED
    BY <2>1, <2>2
<1>3. QED
  BY <1>1, <1>2, FenceInit, ServiceInvariance, PTL DEF ServiceSpec

-----------------------------------------------------------------------------
(* The answers.                                                            *)

(* What a step leaves of a bought call.                                    *)
LEMMA BoughtStays ==
  ASSUME CallsInv, NEW c \in Calls, call[c].state = "COMMITTED",
         NEW d \in Calls, NEW n \in LiveOf(d), NEW to, NEW p, NEW u, Moves(d, n, to, p, u)
  PROVE  d # c /\ CommittedResponse(c) \in Responses \cup {NoResponse}
         /\ attempts'[c][call[c].accepted] = attempts[c][call[c].accepted]
<1>1. call[c].accepted \in Bought(c) /\ LiveOf(c) = {}
  BY DEF CallsInv, BoughtOnce
<1>2. d # c
  BY <1>1
<1>3. call[c].accepted \in Ordinals(c)
  BY <1>1 DEF Bought
<1>4. attempts[c][call[c].accepted] \in Attempt
  BY <1>3, AttemptTyped DEF CallsInv
<1>5. QED
  BY <1>2, <1>3, <1>4 DEF Moves, CommittedResponse, Attempt

(* Every 200 keeps carrying the frozen response of its call.               *)
LEMMA AnswersStep ==
  ASSUME ServiceInv, AnswersAreFrozen, [ServiceNext]_vars
  PROVE  AnswersAreFrozen'
<1>1. CallsInv /\ CallsTyped /\ ThreadInv
  BY DEF ServiceInv, Inv, CallsInv
<1>2. ASSUME UNCHANGED attempts, \A d \in Calls : call[d].state = "COMMITTED" => call'[d] = call[d]
      PROVE  \A a \in answers : /\ a[1] \in Calls
                                /\ call'[a[1]].state = "COMMITTED"
                                /\ a[2] = CommittedResponse(a[1])'
  BY <1>2 DEF AnswersAreFrozen, CommittedResponse
<1>3. ASSUME NEW c \in Calls, NEW n \in LiveOf(c), NEW to, NEW p, NEW u, Moves(c, n, to, p, u),
             \A d \in Calls : d # c => call'[d] = call[d]
      PROVE  \A a \in answers : /\ a[1] \in Calls
                                /\ call'[a[1]].state = "COMMITTED"
                                /\ a[2] = CommittedResponse(a[1])'
  <2> SUFFICES ASSUME NEW a \in answers
               PROVE  /\ a[1] \in Calls
                      /\ call'[a[1]].state = "COMMITTED"
                      /\ a[2] = CommittedResponse(a[1])'
    OBVIOUS
  <2>1. /\ a[1] \in Calls /\ call[a[1]].state = "COMMITTED"
        /\ a[2] = CommittedResponse(a[1])
    BY DEF AnswersAreFrozen
  <2>2. /\ c # a[1]
        /\ attempts'[a[1]][call[a[1]].accepted] = attempts[a[1]][call[a[1]].accepted]
    BY <1>1, <1>3, <2>1, BoughtStays
  <2>3. QED
    BY <1>3, <2>1, <2>2 DEF CommittedResponse
<1>4. ASSUME NEW t \in Threads, NEW c \in Calls, Outside(t, c)
      PROVE  AnswersAreFrozen'
  <2>1. attempts' = attempts /\ (OpenCall(c) \/ UNCHANGED callVars)
    BY <1>4, OutsideStep
  <2>2. \A d \in Calls : call[d].state = "COMMITTED" => call'[d] = call[d]
    BY <1>1, <2>1 DEF OpenCall, callVars, CallsTyped
  <2>3. \/ answers' = answers
        \/ /\ call[c].state = "COMMITTED"
           /\ answers' = answers \cup {<<c, CommittedResponse(c)>>}
    BY <1>4 DEF Outside, Arrive, CheckUnauthorized, CheckFailures, CheckFence, Open, Replay, Begin,
                BeginOnCommitted, NoteFailure, RecordFatal, Raise, histories, Reply200
  <2>4. call[c].state = "COMMITTED" =>
          call'[c].state = "COMMITTED" /\ CommittedResponse(c)' = CommittedResponse(c)
    BY <2>1, <2>2 DEF CommittedResponse
  <2>5. QED
    BY <1>2, <2>1, <2>2, <2>3, <2>4 DEF AnswersAreFrozen
<1>5. ASSUME NEW t \in Threads, NEW c \in Calls, Begin(t, c), BeginAttempt(c)
      PROVE  AnswersAreFrozen'
  <2>1. /\ \A d \in Calls : d # c => attempts'[d] = attempts[d]
        /\ \A m \in Ordinals(c) : attempts'[c][m] = attempts[c][m]
        /\ call' = call
    BY <1>1, <1>5, BeginAppends
  <2>2. \A d \in Calls : call[d].state = "COMMITTED" => d # c
    BY <1>5 DEF BeginAttempt, CanBegin
  <2>3. answers' = answers
    BY <1>5 DEF Begin
  <2>4. QED
    BY <2>1, <2>2, <2>3 DEF AnswersAreFrozen, CommittedResponse
<1>6. ASSUME NEW t \in Threads, NEW c \in Calls, Inside(t, c), ~CommitCall(t, c), ~Upstream(t, c)
      PROVE  AnswersAreFrozen'
  <2>1. call' = call /\ \E to, p, u : Moves(c, thread[t].n, to, p, u)
    BY <1>6, ReserveCallStep, CloseRefusedStep, SendStep, FailStep, FreezeStep, ValidateStep
       DEF Inside
  <2>2. PICK to, p, u : Moves(c, thread[t].n, to, p, u)
    BY <2>1
  <2>3. thread[t].n \in LiveOf(c)
    <3>1. Busy(t) /\ thread[t].call = c
      BY <1>6 DEF Inside, ReserveCall, CloseRefused, Send, Silent, HttpError, TooLarge, Freeze,
                  ValidateCall, Serves, Sent, Busy, Working
    <3>2. QED
      BY <1>1, <3>1, HolderIsLive
  <2>4. answers' = answers
    BY <1>6 DEF Inside, ReserveCall, CloseRefused, Send, Silent, HttpError, TooLarge, Freeze,
                ValidateCall, histories
  <2>5. QED
    BY <1>3, <2>1, <2>2, <2>3, <2>4 DEF AnswersAreFrozen
<1>7. ASSUME NEW t \in Threads, NEW c \in Calls, CommitCall(t, c)
      PROVE  AnswersAreFrozen'
  <2> DEFINE n == thread[t].n
             p == thread[t].reply.body
             u == Charge(c, SuccessCharge(c, thread[t].reply))
  <2>1. /\ call' = [call EXCEPT ![c] = [state |-> "COMMITTED", accepted |-> n]]
        /\ answers' = answers \cup {<<c, p>>}
        /\ Moves(c, n, "COMMITTED", p, u)
    BY <1>7, CommitStep
  <2>2. n \in LiveOf(c)
    <3>1. Busy(t) /\ thread[t].call = c
      BY <1>7 DEF CommitCall, Serves, Busy, Working
    <3>2. QED
      BY <1>1, <3>1, HolderIsLive
  <2> HIDE DEF n, p, u
  <2>3. /\ \A d \in Calls : d # c => call'[d] = call[d]
        /\ call'[c] = [state |-> "COMMITTED", accepted |-> n]
    BY <1>1, <2>1 DEF CallsTyped
  <2>4. call'[c].state = "COMMITTED" /\ CommittedResponse(c)' = p
    BY <2>1, <2>3 DEF CommittedResponse, Moves
  <2>5. QED
    BY <1>3, <2>1, <2>2, <2>3, <2>4 DEF AnswersAreFrozen
<1>8. ASSUME NEW t \in Threads, NEW c \in Calls, Upstream(t, c)
      PROVE  AnswersAreFrozen'
  <2>1. UNCHANGED <<call, attempts>>
    BY <1>8, UpstreamStep DEF callVars
  <2>2. answers' = answers
    BY <1>8 DEF Upstream
  <2>3. QED
    BY <2>1, <2>2 DEF AnswersAreFrozen, CommittedResponse
<1>9. CASE Reconcile
  <2>1. PICK c \in Calls : \E n \in LiveOf(c) : call' = call /\ \E to, p, u : Moves(c, n, to, p, u)
    BY <1>9, ReconcileStep
  <2>2. PICK n \in LiveOf(c) : call' = call /\ \E to, p, u : Moves(c, n, to, p, u)
    BY <2>1
  <2>3. PICK to, p, u : Moves(c, n, to, p, u)
    BY <2>2
  <2>4. answers' = answers
    BY <1>9 DEF Reconcile, serviceVars
  <2>5. QED
    BY <1>3, <2>2, <2>3, <2>4 DEF AnswersAreFrozen
<1>10. CASE Crash \/ Serve \/ UNCHANGED vars
  <2>1. UNCHANGED <<call, attempts, answers>>
    BY <1>10 DEF Crash, Serve, vars, callVars, serviceVars, histories
  <2>2. QED
    BY <2>1 DEF AnswersAreFrozen, CommittedResponse
<1>11. QED
  BY <1>4, <1>5, <1>6, <1>7, <1>8, <1>9, <1>10, ThreadSteps DEF ServiceNext

(* Whatever is replayed, by whatever thread, before or after a restart:    *)
(* every 200 for a call carries the same response, the frozen one.         *)
THEOREM ServiceAnswersWhatItFroze == ServiceSpec => []AnswersAreFrozen
<1>1. ServiceInv /\ AnswersAreFrozen /\ [ServiceNext]_vars => AnswersAreFrozen'
  BY AnswersStep
<1>2. ServiceInit => AnswersAreFrozen
  BY DEF ServiceInit, AnswersAreFrozen
<1>3. QED
  BY <1>1, <1>2, ServiceInvariance, PTL DEF ServiceSpec

-----------------------------------------------------------------------------
(* The types.                                                              *)

\* what the other invariants do not say of the types, or say of covered
\* prices only
RestTyped ==
  /\ serving \in BOOLEAN
  /\ failures \in [Providers -> Nat]
  /\ crashes \in 0..MaxCrashes
  /\ heard \in [Calls -> [1..MaxAttempts -> Reply]]
  /\ \A c \in Calls : Len(attempts[c]) <= MaxAttempts
  /\ answers \subseteq Calls \X (Responses \cup {NoResponse})

(* No step changes the number of attempts of a call but its beginning one. *)
LEMMA AttemptsBounded ==
  ASSUME ServiceInv, RestTyped, [ServiceNext]_vars
  PROVE  \A c \in Calls : Len(attempts'[c]) <= MaxAttempts
<1>1. CallsTyped
  BY DEF ServiceInv, Inv, CallsInv
<1>2. ASSUME NEW t \in Threads, NEW c \in Calls, Outside(t, c)
      PROVE  attempts' = attempts
  BY <1>2, OutsideStep
<1>3. ASSUME NEW t \in Threads, NEW c \in Calls, Inside(t, c)
      PROVE  \A d \in Calls : Len(attempts'[d]) = Len(attempts[d])
  <2>1. CASE Upstream(t, c)
    BY <2>1, UpstreamStep DEF callVars
  <2>2. CASE ~Upstream(t, c)
    <3>1. \E to, p, u : Moves(c, thread[t].n, to, p, u)
      BY <1>3, <2>2, ReserveCallStep, CloseRefusedStep, SendStep, FailStep, FreezeStep,
         ValidateStep, CommitStep
         DEF Inside
    <3>2. QED
      BY <3>1 DEF Moves
  <2>3. QED
    BY <2>1, <2>2
<1>4. ASSUME NEW c \in Calls, BeginAttempt(c)
      PROVE  \A d \in Calls : Len(attempts'[d]) <= MaxAttempts
  <2>1. /\ \A d \in Calls : d # c => attempts'[d] = attempts[d]
        /\ Len(attempts'[c]) \in 1..MaxAttempts
    BY <1>1, <1>4, BeginAppends
  <2>2. Len(attempts'[c]) <= MaxAttempts
    BY <2>1, CallsAssumption
  <2>3. QED
    BY <2>1, <2>2 DEF RestTyped
<1>5. CASE Reconcile
  <2>1. \E c \in Calls : \E n \in LiveOf(c) : \E to, p, u : Moves(c, n, to, p, u)
    BY <1>5, ReconcileStep
  <2>2. \A d \in Calls : Len(attempts'[d]) = Len(attempts[d])
    BY <2>1 DEF Moves
  <2>3. QED
    BY <2>2 DEF RestTyped
<1>6. CASE Crash \/ Serve \/ UNCHANGED vars
  BY <1>6 DEF Crash, Serve, vars, callVars, RestTyped
<1>7. QED
  BY <1>2, <1>3, <1>4, <1>5, <1>6, ThreadSteps DEF ServiceNext, RestTyped

\* what a thread's step does to the counts, the bills and the answers
Frame(t, c) ==
  /\ UNCHANGED <<serving, crashes>>
  /\ \/ failures' = failures
     \/ failures' = [failures EXCEPT ![prov[c]] = 0]
     \/ failures' = [failures EXCEPT ![prov[c]] = @ + 1]
  /\ heard' = heard \/ Upstream(t, c)
  /\ \/ answers' = answers
     \/ call[c].state = "COMMITTED" /\ answers' = answers \cup {<<c, CommittedResponse(c)>>}
     \/ CommitCall(t, c) /\ answers' = answers \cup {<<c, thread[t].reply.body>>}

(* Every step of a thread is within that frame.                            *)
LEMMA ThreadFrame ==
  ASSUME NEW t \in Threads, NEW c \in Calls, Arrive(t, c) \/ ThreadStep(t, c)
  PROVE  Frame(t, c)
<1>1. CASE Arrive(t, c) \/ CheckUnauthorized(t, c) \/ CheckFailures(t, c)
  BY <1>1 DEF Frame, Arrive, CheckUnauthorized, CheckFailures, CheckFence, histories
<1>2. CASE Open(t, c) \/ Replay(t, c)
  BY <1>2 DEF Frame, Open, Replay, Reply200, ledgerOnly
<1>3. CASE Begin(t, c) \/ BeginOnCommitted(t, c)
  BY <1>3 DEF Frame, Begin, BeginOnCommitted, ledgerOnly
<1>4. CASE ReserveCall(t, c) \/ CloseRefused(t, c) \/ Send(t, c) \/ Upstream(t, c)
  BY <1>4 DEF Frame, ReserveCall, CloseRefused, Send, Upstream, ledgerOnly
<1>5. CASE Silent(t, c) \/ HttpError(t, c)
  <2>1. UNCHANGED <<serving, failures, crashes, heard, answers>>
    BY <1>5 DEF Silent, HttpError, ledgerOnly
  <2>2. QED
    BY <2>1 DEF Frame
<1>6. CASE NoteFailure(t, c) \/ RecordFatal(t, c)
  BY <1>6 DEF Frame, NoteFailure, RecordFatal, histories
<1>7. CASE TooLarge(t, c) \/ Freeze(t, c)
  BY <1>7 DEF Frame, TooLarge, Freeze, histories
<1>8. CASE ValidateCall(t, c)
  BY <1>8 DEF Frame, ValidateCall, ledgerOnly
<1>9. CASE CommitCall(t, c)
  BY <1>9 DEF Frame, CommitCall, Reply200, ledgerOnly
<1>10. CASE Raise(t, c)
  BY <1>10 DEF Frame, Raise, histories
<1>11. QED
  BY <1>1, <1>2, <1>3, <1>4, <1>5, <1>6, <1>7, <1>8, <1>9, <1>10 DEF ThreadStep

(* A bill is written where an attempt is, and the counters count.          *)
LEMMA RestStep ==
  ASSUME ServiceInv, RestTyped, [ServiceNext]_vars
  PROVE  RestTyped'
<1>1. CASE \E t \in Threads, c \in Calls : Arrive(t, c) \/ ThreadStep(t, c)
  <2>1. PICK t \in Threads, c \in Calls : Arrive(t, c) \/ ThreadStep(t, c)
    BY <1>1
  <2>2. Frame(t, c)
    BY <2>1, ThreadFrame
  <2>3. serving' \in BOOLEAN /\ crashes' \in 0..MaxCrashes
    BY <2>2 DEF Frame, RestTyped
  <2>4. failures' \in [Providers -> Nat]
    <3>1. prov[c] \in Providers
      BY ServiceAssumption
    <3>2. failures \in [Providers -> Nat] /\ failures[prov[c]] + 1 \in Nat
      BY <3>1 DEF RestTyped
    <3>3. QED
      BY <2>2, <3>1, <3>2 DEF Frame
  <2>5. heard' \in [Calls -> [1..MaxAttempts -> Reply]]
    <3>1. CASE Upstream(t, c)
      <4> DEFINE n == thread[t].n
                 b == thread'[t].reply
                 f == [heard[c] EXCEPT ![n] = b]
      <4>1. heard' = [heard EXCEPT ![c][n] = b] /\ thread'[t].reply \in Replies(c)
        BY <3>1, UpstreamStep
      <4>2. b \in Reply
        BY <4>1, RepliesTyped
      <4>3. n \in 1..MaxAttempts
        <5>1. n \in Ordinals(c) /\ CallsTyped
          BY <3>1, ServesHeld DEF Upstream, Working
        <5>2. attempts[c] \in Seq(Attempt) /\ Len(attempts[c]) <= MaxAttempts
          BY <5>1 DEF CallsTyped, RestTyped
        <5>3. Len(attempts[c]) \in Nat /\ MaxAttempts \in Nat
          BY <5>2, LenProperties, CallsAssumption
        <5>4. QED
          BY <5>1, <5>2, <5>3 DEF Ordinals
      <4> HIDE DEF n, b
      <4>4. heard' = [heard EXCEPT ![c] = f] /\ heard[c] \in [1..MaxAttempts -> Reply]
        BY <4>1 DEF RestTyped
      <4>5. f \in [1..MaxAttempts -> Reply]
        BY <4>2, <4>3, <4>4
      <4> HIDE DEF f
      <4>6. QED
        BY <4>4, <4>5 DEF RestTyped
    <3>2. CASE heard' = heard
      BY <3>2 DEF RestTyped
    <3>3. QED
      BY <2>2, <3>1, <3>2 DEF Frame
  <2>6. answers' \subseteq Calls \X (Responses \cup {NoResponse})
    <3>1. ASSUME call[c].state = "COMMITTED"
          PROVE  CommittedResponse(c) \in Responses \cup {NoResponse}
      <4>1. CallsInv /\ CallsTyped
        BY DEF ServiceInv, Inv, CallsInv
      <4>2. call[c].accepted \in Ordinals(c)
        BY <3>1, <4>1 DEF CallsInv, BoughtOnce, Bought
      <4>3. attempts[c][call[c].accepted] \in Attempt
        BY <4>1, <4>2, AttemptTyped
      <4>4. QED
        BY <4>3 DEF CommittedResponse, Attempt
    <3>2. CommitCall(t, c) => thread[t].reply.body \in Responses
      BY CommitStep
    <3>3. PICK p \in Responses \cup {NoResponse} :
            answers' = answers \/ answers' = answers \cup {<<c, p>>}
      BY <2>2, <3>1, <3>2 DEF Frame
    <3>4. QED
      BY <3>3 DEF RestTyped
  <2>7. QED
    BY <2>3, <2>4, <2>5, <2>6, AttemptsBounded DEF RestTyped
<1>2. CASE Crash
  <2>1. crashes' \in 0..MaxCrashes
    <3>1. MaxCrashes \in Nat
      BY ServiceAssumption
    <3>2. QED
      BY <1>2, <3>1 DEF Crash, RestTyped
  <2>2. QED
    BY <1>2, <2>1, AttemptsBounded DEF Crash, RestTyped
<1>3. CASE Reconcile \/ Serve \/ UNCHANGED vars
  <2>1. UNCHANGED <<failures, crashes, heard, answers>> /\ (serving' = serving \/ serving' = TRUE)
    BY <1>3 DEF Reconcile, Serve, histories, vars, serviceVars
  <2>2. QED
    BY <2>1, AttemptsBounded DEF RestTyped
<1>4. QED
  BY <1>1, <1>2, <1>3 DEF ServiceNext

(* The provider's types, for any prices.                                   *)
THEOREM ServiceTypeCorrect == ServiceSpec => []TypeOK
<1>1. ServiceInv /\ RestTyped /\ [ServiceNext]_vars => RestTyped'
  BY RestStep
<1>2. ServiceInit => RestTyped
  <2> SUFFICES ASSUME ServiceInit
               PROVE  RestTyped
    OBVIOUS
  <2>1. \A c \in Calls : attempts[c] = << >>
    BY DEF ServiceInit, Init
  <2>2. Len(<< >>) = 0
    OBVIOUS
  <2>3. MaxAttempts \in Nat /\ MaxCrashes \in Nat
    BY CallsAssumption, ServiceAssumption
  <2>4. \A c \in Calls : Len(attempts[c]) <= MaxAttempts
    <3>1. 0 <= MaxAttempts
      BY <2>3
    <3>2. QED
      BY <2>1, <2>2, <3>1
  <2>5. QED
    BY <2>3, <2>4, IdleTyped DEF ServiceInit, RestTyped
<1>3. ServiceInv /\ RestTyped /\ FenceInv => TypeOK
  <2>1. ServiceInv => CallsTypeOK
    BY DEF ServiceInv, Inv, BooksInv, CallsInv, CallsTyped, CallsTypeOK
  <2>2. QED
    BY <2>1 DEF ServiceInv, ThreadInv, RestTyped, FenceInv, TypeOK
<1>4. ServiceInv /\ FenceInv /\ [ServiceNext]_vars => FenceInv'
  BY FenceStep
<1>5. QED
  BY <1>1, <1>2, <1>3, <1>4, FenceInit, ServiceInvariance, PTL DEF ServiceSpec
=============================================================================

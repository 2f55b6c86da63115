---------------------------- MODULE ExternalCalls ---------------------------
(***************************************************************************)
(* Paid calls and the budget that admits them:                             *)
(* src/shapeflow/providers/external_call_ledger.py over                    *)
(* src/shapeflow/experiment/budget.py.  A logical call is bought at most   *)
(* once; each physical attempt holds its own reservation; the state of an  *)
(* attempt and the money that explains it move in one transaction, which   *)
(* is one action here.  A method that raises rolls back: no step.          *)
(*                                                                         *)
(* Next lets any client call any method on any attempt in any order.       *)
(***************************************************************************)
EXTENDS Integers, Sequences, Functions

CONSTANTS Calls,        \* the logical calls (provider, op class, key, work key)
          Resources,    \* the budget accounts
          Worst,        \* Worst[c][r]: what an attempt of c reserves of r
          Cap,          \* Cap[r]: the cap the account was opened with
          Caps,         \* the caps it may later be given
          Actuals,      \* the usages an attempt may be settled at
          Responses,    \* the response bodies that can be stored
          NoResponse,
          MaxAttempts   \* bound: attempts of one call

ASSUME CallsAssumption ==
  /\ Worst \in [Calls -> [Resources -> Nat]]
  /\ Cap \in [Resources -> Nat]
  /\ Caps \subseteq Nat
  /\ Actuals \subseteq [Resources -> Nat]
  /\ NoResponse \notin Responses
  /\ MaxAttempts \in Nat

VARIABLES account,   \* account[r]: the row of budget_accounts
          call,      \* call[c]: the row of external_calls; accepted is the
                     \* ordinal of committed_attempt_id, 0 for none
          attempts,  \* attempts[c]: rows of external_call_attempts, with
                     \* their rows of budget_reservations
          ceiling,   \* history: the largest cap r has ever been given
          overrun    \* history: what settlements charged beyond reservations

callVars == <<account, call, attempts, ceiling, overrun>>

Live         == {"INTENT", "BUDGET_RESERVED", "SENT", "RESPONSE_STORED", "VALIDATED"}
SentStates   == {"SENT", "RESPONSE_STORED", "VALIDATED"}
Failed       == {"FAILED_FINAL", "FAILED_UNKNOWN"}
AttemptState == Live \cup Failed \cup {"COMMITTED"}

Account == [cap : Nat, reserved : Int, settled : Nat]
Call    == [state : {"ABSENT", "OPEN", "COMMITTED", "ABANDONED"}, accepted : Nat]
\* money: no reservation rows, RESERVED rows, or SETTLED rows
Attempt == [state : AttemptState, money : {"none", "RESERVED", "SETTLED"},
            charged : [Resources -> Nat], response : Responses \cup {NoResponse}]

CallsTypeOK ==
  /\ account \in [Resources -> Account]
  /\ call \in [Calls -> Call]
  /\ attempts \in [Calls -> Seq(Attempt)]
  /\ ceiling \in [Resources -> Nat]
  /\ overrun \in [Resources -> Nat]

Ordinals(c) == 1..Len(attempts[c])
LiveOf(c)   == {n \in Ordinals(c) : attempts[c][n].state \in Live}
Bought(c)   == {n \in Ordinals(c) : attempts[c][n].state = "COMMITTED"}

\* the frozen response of a committed call, for a replay
CommittedResponse(c) == attempts[c][call[c].accepted].response

-----------------------------------------------------------------------------
(* _LEGAL_ATTEMPT, and the compare-and-swap of _advance_in.                *)

LegalAttempt ==
  [ INTENT          |-> {"BUDGET_RESERVED", "FAILED_FINAL"},
    BUDGET_RESERVED |-> {"SENT"} \cup Failed,
    SENT            |-> {"RESPONSE_STORED"} \cup Failed,
    RESPONSE_STORED |-> {"VALIDATED"} \cup Failed,
    VALIDATED       |-> {"COMMITTED"} \cup Failed ]

CanMove(c, n, to) ==
  /\ attempts[c][n].state \in Live
  /\ to \in LegalAttempt[attempts[c][n].state]

SetAttempt(c, n, a) == attempts' = [attempts EXCEPT ![c] = [@ EXCEPT ![n] = a]]

\* COMMITTED closes the call, whatever state the call is in
SetCall(c, n, to) ==
  call' = IF to = "COMMITTED" THEN [call EXCEPT ![c] = [state |-> to, accepted |-> n]] ELSE call

Init ==
  /\ account = [r \in Resources |-> [cap |-> Cap[r], reserved |-> 0, settled |-> 0]]
  /\ call = [c \in Calls |-> [state |-> "ABSENT", accepted |-> 0]]
  /\ attempts = [c \in Calls |-> << >>]
  /\ ceiling = Cap
  /\ overrun = [r \in Resources |-> 0]

-----------------------------------------------------------------------------
(* budget.py                                                               *)

\* ensure_account on an existing row: it may only tighten
EnsureAccount(r, cap) ==
  /\ cap < account[r].cap
  /\ account' = [account EXCEPT ![r].cap = cap]
  /\ UNCHANGED <<call, attempts, ceiling, overrun>>

AuthorizeCapRaise(r, cap) ==
  /\ cap > account[r].cap
  /\ account' = [account EXCEPT ![r].cap = cap]
  /\ ceiling' = [ceiling EXCEPT ![r] = IF cap > @ THEN cap ELSE @]
  /\ UNCHANGED <<call, attempts, overrun>>

\* Mutant: standing reservations are not counted against the cap
AffordableUnreserved(c) ==
  \A r \in Resources : Worst[c][r] > 0 => Worst[c][r] <= account[r].cap - account[r].settled

\* reserve_in: every resource asked for must fit in its headroom
Affordable(c) ==
  \A r \in Resources :
    Worst[c][r] > 0 => Worst[c][r] <= account[r].cap - account[r].reserved - account[r].settled

\* _resolve_in: the live reservation of attempt a, settled at actual(r)
Charge(c, actual) == [r \in Resources |-> IF Worst[c][r] > 0 THEN actual[r] ELSE 0]

Excess(c, actual, r) ==
  IF Charge(c, actual)[r] > Worst[c][r] THEN Charge(c, actual)[r] - Worst[c][r] ELSE 0

\* Mutant: the reservation is settled but never released
ResolveUnreleased(c, actual) ==
  /\ account' = [r \in Resources |-> [account[r] EXCEPT !.settled = @ + Charge(c, actual)[r]]]
  /\ overrun' = [r \in Resources |-> overrun[r] + Excess(c, actual, r)]

Resolve(c, actual) ==
  /\ account' = [r \in Resources |->
        [account[r] EXCEPT !.reserved = @ - Worst[c][r], !.settled = @ + Charge(c, actual)[r]]]
  /\ overrun' = [r \in Resources |-> overrun[r] + Excess(c, actual, r)]

-----------------------------------------------------------------------------
(* external_call_ledger.py                                                 *)

\* INSERT OR IGNORE
OpenCall(c) ==
  /\ call' = IF call[c].state = "ABSENT" THEN [call EXCEPT ![c].state = "OPEN"] ELSE call
  /\ UNCHANGED <<account, attempts, ceiling, overrun>>

\* Mutants: no test of the call's state; no test for a live attempt
BeginOnAnyCall(c) == call[c].state # "ABSENT" /\ LiveOf(c) = {}
BeginBesideLive(c) == call[c].state = "OPEN"

CanBegin(c) == call[c].state = "OPEN" /\ LiveOf(c) = {}

BeginAttempt(c) ==
  /\ CanBegin(c)
  /\ Len(attempts[c]) < MaxAttempts
  /\ attempts' = [attempts EXCEPT ![c] =
       Append(@, [state |-> "INTENT", money |-> "none",
                  charged |-> [r \in Resources |-> 0], response |-> NoResponse])]
  /\ UNCHANGED <<account, call, ceiling, overrun>>

\* does not ask whether an attempt is live
CloseCall(c) ==
  /\ call[c].state = "OPEN"
  /\ call' = [call EXCEPT ![c].state = "ABANDONED"]
  /\ UNCHANGED <<account, attempts, ceiling, overrun>>

Reserve(c, n) ==
  /\ CanMove(c, n, "BUDGET_RESERVED")
  /\ Affordable(c)
  /\ account' = [r \in Resources |-> [account[r] EXCEPT !.reserved = @ + Worst[c][r]]]
  /\ SetAttempt(c, n, [attempts[c][n] EXCEPT !.state = "BUDGET_RESERVED", !.money = "RESERVED"])
  /\ UNCHANGED <<call, ceiling, overrun>>

\* An end that resolves nothing.  Two methods make it: a fail_* told of no group, and reserve after
\* BudgetExceeded, whose first transaction is rolled back (no step) and whose second ends the
\* attempt in whatever live state it is by then, a reservation of its own or not.
EndUnresolved(c, n, to) ==
  /\ to \in Failed
  /\ CanMove(c, n, to)
  /\ SetAttempt(c, n, [attempts[c][n] EXCEPT !.state = to])
  /\ UNCHANGED <<account, call, ceiling, overrun>>

Move(c, n, to, response) ==
  /\ CanMove(c, n, to)
  /\ SetAttempt(c, n, [attempts[c][n] EXCEPT !.state = to, !.response = response])
  /\ UNCHANGED <<account, call, ceiling, overrun>>

MarkSent(c, n)                == Move(c, n, "SENT", NoResponse)
StoreResponse(c, n, response) == Move(c, n, "RESPONSE_STORED", response)
Validate(c, n)                == Move(c, n, "VALIDATED", attempts[c][n].response)

\* _settle_and_advance told of the attempt's group: the reservation, if it still stands, and the state
SettleAndAdvance(c, n, to, actual) ==
  /\ CanMove(c, n, to)
  /\ SetCall(c, n, to)
  /\ \/ /\ attempts[c][n].money = "RESERVED"
        /\ Resolve(c, actual)
        /\ SetAttempt(c, n, [attempts[c][n] EXCEPT
                               !.state = to, !.money = "SETTLED", !.charged = Charge(c, actual)])
     \/ /\ attempts[c][n].money # "RESERVED"
        /\ SetAttempt(c, n, [attempts[c][n] EXCEPT !.state = to])
        /\ UNCHANGED <<account, overrun>>
  /\ UNCHANGED ceiling

Nothing == [r \in Resources |-> 0]

Commit(c, n, actual)            == SettleAndAdvance(c, n, "COMMITTED", actual)
FailBeforeSend(c, n)            == SettleAndAdvance(c, n, "FAILED_FINAL", Nothing)
FailUnknown(c, n)               == SettleAndAdvance(c, n, "FAILED_UNKNOWN", Worst[c])
FailAfterResponse(c, n, actual) == SettleAndAdvance(c, n, "FAILED_FINAL", actual)

-----------------------------------------------------------------------------
AttemptStep(c, n) ==
  \/ Reserve(c, n) \/ MarkSent(c, n) \/ Validate(c, n)
  \/ \E to \in Failed : EndUnresolved(c, n, to)
  \/ \E p \in Responses : StoreResponse(c, n, p)
  \/ \E u \in Actuals : Commit(c, n, u) \/ FailAfterResponse(c, n, u)
  \/ FailBeforeSend(c, n) \/ FailUnknown(c, n)

Next ==
  \/ \E r \in Resources, cap \in Caps : EnsureAccount(r, cap) \/ AuthorizeCapRaise(r, cap)
  \/ \E c \in Calls : \/ OpenCall(c) \/ BeginAttempt(c) \/ CloseCall(c)
                      \/ \E n \in Ordinals(c) : AttemptStep(c, n)

CallsSpec == Init /\ [][Next]_callVars

-----------------------------------------------------------------------------
(* A logical call is bought at most once, whatever its clients interleave  *)
(* (external_call_ledger.py:9-13), and once it is bought nothing of it is  *)
(* in flight and the accepted attempt is the one a replay reads.           *)
BoughtOnce ==
  \A c \in Calls :
    /\ \A m, n \in Bought(c) : m = n
    /\ Bought(c) # {} => LiveOf(c) = {}
    /\ call[c].state = "COMMITTED" <=> Bought(c) # {}
    /\ call[c].state = "COMMITTED" => call[c].accepted \in Bought(c)

(* At most one attempt of a call is in flight: a second dispatch beside it *)
(* would be an unaccounted second charge.                                  *)
OneInFlight == \A c \in Calls : \A m, n \in LiveOf(c) : m = n

(* What is in flight is paid for: nothing is sent without a reservation,   *)
(* no purchase is left unsettled, and no charge is made before the end.    *)
(* An end that resolves nothing leaves the reservation standing, and what  *)
(* it holds is never spent again: that is the client's to avoid.           *)
Secured(a) ==
  /\ a.state = "INTENT" => a.money = "none"
  /\ a.state \in Live \ {"INTENT"} => a.money = "RESERVED"
  /\ a.state = "COMMITTED" => a.money = "SETTLED"
  /\ a.money = "SETTLED" => a.state \notin Live
  /\ a.money # "SETTLED" => a.charged = Nothing

LiveIsSecured == \A c \in Calls : \A n \in Ordinals(c) : Secured(attempts[c][n])

(* Spending and standing reservations never pass the largest cap that was  *)
(* ever authorised by more than the overruns settle has reported.          *)
WithinCeiling ==
  \A r \in Resources :
    account[r].reserved + account[r].settled <= ceiling[r] + overrun[r]

\* every attempt there is, and what each puts into an account
AttemptsOfAll == {a \in Calls \X (1..MaxAttempts) : a[2] \in Ordinals(a[1])}
HeldOf(r) == [a \in AttemptsOfAll |->
                IF attempts[a[1]][a[2]].money = "RESERVED" THEN Worst[a[1]][r] ELSE 0]
ChargedOf(r) == [a \in AttemptsOfAll |-> attempts[a[1]][a[2]].charged[r]]

(* The books balance: what an account holds reserved is what the standing  *)
(* reservations hold, and what it has settled is what the attempts were    *)
(* charged; no charge is lost or made twice (budget.py 268-300, 375-420:   *)
(* the totals are kept beside the rows, never computed from them).         *)
BooksBalance ==
  \A r \in Resources :
    /\ account[r].reserved = SumFunctionOnSet(HeldOf(r), AttemptsOfAll)
    /\ account[r].settled = SumFunctionOnSet(ChargedOf(r), AttemptsOfAll)
=============================================================================

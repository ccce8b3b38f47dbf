------------------------------- MODULE Accounts -------------------------------
(***************************************************************************)
(* The account tables and their clients: POST /api/user/balance/withdraw   *)
(* registers a transaction and approves it, a pool worker registers an     *)
(* accrual and approves it, GET /api/user/balance reads.                   *)
(*                                                                         *)
(* Grain.  One action is one SQL statement.  ApproveTransaction runs its   *)
(* statements on one PostgreSQL transaction under READ COMMITTED: its      *)
(* writes are seen by others from Commit on, and the rows it has locked or *)
(* written stay locked until then.  Everything else commits by itself; the *)
(* one UPDATE of several rows locks them one after the other.              *)
(*                                                                         *)
(* A client stands for one call and owns one transaction row, as ids are   *)
(* fresh uuids.  Sums are asked for in thousandths of a point and kept in  *)
(* hundredths.  The database, its locks and its errors are modelled from   *)
(* how the repository uses them.                                           *)
(***************************************************************************)
EXTENDS Integers, SequencesExt

CONSTANTS
  Users,
  Withdrawals,     \* calls of the withdrawal handler
  Accruals,        \* tasks of the worker pool, from cancelPlanned on
  Readers,         \* calls of the balance handler
  Owner,           \* client -> user
  OrderNum,        \* withdrawal or accrual -> order number
  Asked,           \* withdrawal or accrual -> thousandths of a point
  Opened,          \* users whose registration has also inserted the account row
  MaxFailures,     \* bound: statements that end in an error (deadlocks not counted), and crashes
  None             \* absent row, no lock, no answer

Clients == Withdrawals \cup Accruals

ASSUME AccountsAssumption ==
  /\ Withdrawals \cap Accruals = {} /\ Opened \subseteq Users
  /\ Owner \in [Clients \cup Readers -> Users]
  /\ Asked \in [Clients -> Nat] /\ \A c \in Withdrawals : Asked[c] > 0
  /\ MaxFailures \in Nat
  /\ None \notin Int /\ None \notin Clients

\* The table has finitely many rows to add up.
ASSUME RowsAssumption == IsFiniteSet(Clients)

VARIABLES
  account,     \* table "account", committed: user -> current_balance, None without row
  status,      \* table "transaction", committed: client -> status, None without row
  rowLock,     \* transaction row (named after its client) -> client that has locked it
  scan,        \* client -> rows its cancellation has still to lock, in this order
  accLock,     \* user -> client whose ApproveTransaction has locked the account row
  pending,     \* client -> current_balance it has written and not committed, or None
  verdict,     \* client -> status it has written and not committed, or None
  pc,          \* client -> the statement it does next
  answer,      \* client -> HTTP code, or None
  reader,      \* balance reader -> statement, what it has read
  seen,        \* history: balances that were true during the reader's call
  failures

\* The columns are numeric(16, 2): a sum is rounded as it is written, and the
\* withdrawal that ApproveTransaction reads back is the rounded one.
Amount == [c \in Clients |-> (Asked[c] + 5) \div 10]

approval == <<rowLock, scan, accLock, pending, verdict>>
reading  == <<reader, seen>>
vars     == <<account, status, approval, pc, answer, reading, failures>>

\* Refused is CANCELED with the comment "insufficient funds".
Refused  == "REFUSED"
Statuses == {"PLANNED", "PROCESSED", "CANCELED", Refused}

ASSUME NoneAssumption == None \notin Statuses

InApprove == {"ensureAccount", "lockAccount", "debit", "credit", "settle", "commit"}
\* Inside a transaction, the UPDATE of several rows being one of its own.
InTransaction == InApprove \cup {"cancelRows"}
ClientPCs ==
  {"cancelPlanned", "register", "lockRow"} \cup InTransaction \cup {"done", "aborted"}

\* Committed sums over the rows with status PROCESSED.
PaidBy(u, kind) == {c \in kind : status[c] = "PROCESSED" /\ Owner[c] = u}
Sum(S) == MapThenSumSet(LAMBDA c : Amount[c], S)
Withdrawn(u) == Sum(PaidBy(u, Withdrawals))
History(u)   == Sum(PaidBy(u, Accruals)) - Withdrawn(u)

\* The true balance of a user: current points, points withdrawn.
Current(u) == IF account[u] = None THEN 0 ELSE account[u]
Truth(u)   == <<Current(u), Withdrawn(u)>>

ReaderRecord(at, c, w) == [pc |-> at, current |-> c, withdrawn |-> w]

Init ==
  /\ account = [u \in Users |-> IF u \in Opened THEN 0 ELSE None]
  /\ status = [c \in Clients |-> None]
  /\ rowLock = [c \in Clients |-> None]
  /\ scan = [c \in Clients |-> <<>>]
  /\ accLock = [u \in Users |-> None]
  /\ pending = [c \in Clients |-> None]
  /\ verdict = [c \in Clients |-> None]
  /\ pc = [c \in Clients |-> IF c \in Accruals THEN "cancelPlanned" ELSE "register"]
  /\ answer = [c \in Clients |-> None]
  /\ reader = [r \in Readers |-> ReaderRecord("readCurrent", None, None)]
  /\ seen = [r \in Readers |-> {}]
  /\ failures = 0

-----------------------------------------------------------------------------
(* What every statement shares.                                            *)

Goto(c, p) == pc' = [pc EXCEPT ![c] = p]

\* The handler answers and the call ends; a worker has nobody to answer.
Reply(c, code) ==
  /\ Goto(c, "done")
  /\ answer' = IF c \in Withdrawals THEN [answer EXCEPT ![c] = code] ELSE answer

\* COMMIT or ROLLBACK: the locks and the uncommitted writes of c are gone.
KeepLocks(c) == accLock              \* faulty variant: no deferred Rollback
Release(c) == [u \in Users |-> IF accLock[u] = c THEN None ELSE accLock[u]]

EndTransaction(c) ==
  /\ rowLock' = [d \in Clients |-> IF rowLock[d] = c THEN None ELSE rowLock[d]]
  /\ scan' = [scan EXCEPT ![c] = <<>>]
  /\ accLock' = Release(c)
  /\ pending' = [pending EXCEPT ![c] = None]
  /\ verdict' = [verdict EXCEPT ![c] = None]

\* A statement ends in an error: the connection, or the request's context.
Fail(c) ==
  /\ failures < MaxFailures /\ failures' = failures + 1
  /\ EndTransaction(c)
  /\ Reply(c, 500)
  /\ UNCHANGED <<account, status, reading>>

\* A statement that was applied: c goes on, or has lost the reply and gives up.
Proceed(c, p) ==
  \/ Goto(c, p) /\ UNCHANGED <<answer, failures>>
  \/ failures < MaxFailures /\ failures' = failures + 1 /\ Reply(c, 500)

\* The rows the next statement of c locks; an INSERT ... ON CONFLICT DO NOTHING
\* waits only for another transaction that is inserting the same row.
RowsWanted(c) ==
  IF pc[c] = "cancelRows" /\ scan[c] # <<>> THEN {Head(scan[c])}
  ELSE IF pc[c] \in {"lockRow", "settle"} THEN {c} ELSE {}
NeedsAccount(c) ==
  \/ pc[c] \in {"lockAccount", "debit", "credit"}
  \/ pc[c] = "ensureAccount" /\ account[Owner[c]] = None

\* The clients whose locks it waits for, and whether PostgreSQL lets it in.
WaitsFor(c) ==
  {d \in Clients \ {c} :
     \/ \E r \in RowsWanted(c) : rowLock[r] = d
     \/ NeedsAccount(c) /\ accLock[Owner[c]] = d}
Granted(c) == WaitsFor(c) = {}

LockTx(c, r) == rowLock' = [rowLock EXCEPT ![r] = c]
Lock(c, u) == accLock' = [accLock EXCEPT ![u] = c]

\* c is in a cycle of waits (a client waits for at most one other).
Deadlocked(c) ==
  /\ ~Granted(c)
  /\ \E S \in SUBSET Clients :
       /\ c \in S
       /\ \A d \in S : WaitsFor(d) \cap S # {} /\ \E e \in S : d \in WaitsFor(e)

\* PostgreSQL ends one statement of the cycle with an error, whichever has
\* noticed the deadlock first.
DeadlockError(c) ==
  /\ Deadlocked(c)
  /\ EndTransaction(c)
  /\ Reply(c, 500)
  /\ UNCHANGED <<account, status, reading, failures>>

\* The balance c sees inside its transaction.
Visible(c) == IF pending[c] # None THEN pending[c] ELSE account[Owner[c]]

-----------------------------------------------------------------------------
(* Statements that commit by themselves.                                   *)

\* Rows CancelPlannedTransactionsByOrder selects: withdrawals for the same
\* number are among them.
\* Faulty variant: the status is not looked at.
AnyStatus(c, d) == status[d] # None /\ Owner[d] = Owner[c] /\ OrderNum[d] = OrderNum[c]
Selected(c, d) ==
  /\ Owner[d] = Owner[c] /\ OrderNum[d] = OrderNum[c]
  /\ status[d] = "PLANNED"

\* One UPDATE of several rows.  It finds the rows in its snapshot, in an order
\* that is the plan's ...
CancelScan(c) ==
  /\ pc[c] = "cancelPlanned"
  /\ \E rows \in SetToSeqs({d \in Clients : Selected(c, d)}) :
       scan' = [scan EXCEPT ![c] = rows]
  /\ Goto(c, "cancelRows")
  /\ UNCHANGED <<account, status, rowLock, accLock, pending, verdict, answer, reading, failures>>

\* ... locks one after the other, and keeps what it has locked while it waits ...
CancelRow(c) ==
  /\ pc[c] = "cancelRows" /\ scan[c] # <<>> /\ Granted(c)
  /\ LockTx(c, Head(scan[c]))
  /\ scan' = [scan EXCEPT ![c] = Tail(@)]
  /\ UNCHANGED <<account, status, accLock, pending, verdict, pc, answer, reading, failures>>

\* ... and cancels those that it still selects once they are locked.
CancelCommit(c) ==
  /\ pc[c] = "cancelRows" /\ scan[c] = <<>>
  /\ status' = [d \in Clients |->
                  IF rowLock[d] = c /\ Selected(c, d) THEN "CANCELED" ELSE status[d]]
  /\ EndTransaction(c)
  /\ Proceed(c, "register")
  /\ UNCHANGED <<account, reading>>

CancelPlannedTransactionsByOrder(c) == CancelScan(c) \/ CancelRow(c) \/ CancelCommit(c)

RegisterTransaction(c) ==
  /\ pc[c] = "register"
  /\ status' = [status EXCEPT ![c] = "PLANNED"]
  /\ Proceed(c, "lockRow")
  /\ UNCHANGED <<account, approval, reading>>

\* failOrder: the accrual system has refused the order, or could not be asked.
CancelTransaction(c) ==
  /\ pc[c] = "lockRow" /\ c \in Accruals /\ Granted(c)
  /\ status' = [status EXCEPT ![c] = "CANCELED"]
  /\ Proceed(c, "done")
  /\ UNCHANGED <<account, approval, reading>>

-----------------------------------------------------------------------------
(* ApproveTransaction, statement by statement.                             *)

\* SELECT ... FROM "transaction" ... FOR UPDATE.  Faulty variant: without it.
ReadRow(c) ==
  /\ pc[c] = "lockRow"
  /\ Goto(c, "ensureAccount")
  /\ UNCHANGED <<account, status, approval, answer, reading, failures>>
LockRow(c) ==
  /\ pc[c] = "lockRow" /\ Granted(c)
  /\ LockTx(c, c)
  /\ Goto(c, "ensureAccount")
  /\ UNCHANGED <<account, status, scan, accLock, pending, verdict, answer, reading, failures>>

\* plannedWithdraw > 0 looks at the column, accrual > 0 at the argument.
Branch(c) == IF c \in Withdrawals /\ Amount[c] > 0 THEN "lockAccount"
             ELSE IF c \in Accruals /\ Asked[c] > 0 THEN "credit" ELSE "settle"

\* INSERT INTO "account" ... ON CONFLICT DO NOTHING.
EnsureAccount(c) ==
  LET u == Owner[c]
  IN /\ pc[c] = "ensureAccount" /\ Granted(c)
     /\ IF account[u] = None
        THEN /\ Lock(c, u)
             /\ pending' = [pending EXCEPT ![c] = 0]
        ELSE UNCHANGED <<accLock, pending>>
     /\ Goto(c, Branch(c))
     /\ verdict' = IF Branch(c) = "settle"
                   THEN [verdict EXCEPT ![c] = "PROCESSED"] ELSE verdict
     /\ UNCHANGED <<account, status, rowLock, scan, answer, reading, failures>>

\* SELECT "current_balance" ... FOR UPDATE.  Faulty variant: without FOR UPDATE.
ReadAccount(c) ==
  /\ pc[c] = "lockAccount"
  /\ Goto(c, "debit")
  /\ UNCHANGED <<account, status, approval, answer, reading, failures>>
LockAccount(c) ==
  /\ pc[c] = "lockAccount" /\ Granted(c)
  /\ Lock(c, Owner[c])
  /\ Goto(c, "debit")
  /\ UNCHANGED <<account, status, rowLock, scan, pending, verdict, answer, reading, failures>>

\* UPDATE ... SET current_balance - $2 WHERE current_balance >= $2: a row that
\* does not match is not locked by it.
AlwaysSuffices(c) == TRUE           \* faulty variant: no condition
Suffices(c) == Visible(c) >= Amount[c]

Debit(c) ==
  /\ pc[c] = "debit" /\ Granted(c)
  /\ IF Suffices(c)
     THEN /\ Lock(c, Owner[c])
          /\ pending' = [pending EXCEPT ![c] = Visible(c) - Amount[c]]
          /\ verdict' = [verdict EXCEPT ![c] = "PROCESSED"]
     ELSE /\ verdict' = [verdict EXCEPT ![c] = Refused]
          /\ UNCHANGED <<accLock, pending>>
  /\ Goto(c, "settle")
  /\ UNCHANGED <<account, status, rowLock, scan, answer, reading, failures>>

\* INSERT INTO "account" ... ON CONFLICT DO UPDATE SET current_balance + ...
CreditReplaces(c) == Amount[c]      \* faulty variant: SET current_balance = EXCLUDED
Credited(c) == Visible(c) + Amount[c]

Credit(c) ==
  /\ pc[c] = "credit" /\ Granted(c)
  /\ Lock(c, Owner[c])
  /\ pending' = [pending EXCEPT ![c] = Credited(c)]
  /\ verdict' = [verdict EXCEPT ![c] = "PROCESSED"]
  /\ Goto(c, "settle")
  /\ UNCHANGED <<account, status, rowLock, scan, answer, reading, failures>>

\* UPDATE "transaction" SET status: verdict, on the row that is locked already.
Settle(c) ==
  /\ pc[c] = "settle" /\ Granted(c)
  /\ LockTx(c, c)
  /\ Goto(c, "commit")
  /\ UNCHANGED <<account, status, scan, accLock, pending, verdict, answer, reading, failures>>

\* Every balance reader in the middle of its call sees the new truth pass by.
Observe == seen' = [r \in Readers |->
  IF reader[r].pc \in {"readHistory", "readWithdrawn"}
  THEN seen[r] \cup {Truth(Owner[r])'} ELSE seen[r]]

AnswerOf(c) == IF verdict[c] = Refused THEN 402 ELSE 200

\* Faulty variant: the refusal returns before tx.Commit.
InstallPaid(c) ==
  /\ account' = IF pending[c] = None THEN account
                ELSE [account EXCEPT ![Owner[c]] = pending[c]]
  /\ status' = IF verdict[c] = Refused THEN status
               ELSE [status EXCEPT ![c] = verdict[c]]
Install(c) ==
  /\ account' = IF pending[c] = None THEN account
                ELSE [account EXCEPT ![Owner[c]] = pending[c]]
  /\ status' = [status EXCEPT ![c] = verdict[c]]

Commit(c) ==
  /\ pc[c] = "commit"
  /\ Install(c)
  /\ EndTransaction(c)
  /\ \/ Reply(c, AnswerOf(c)) /\ UNCHANGED failures
     \/ failures < MaxFailures /\ failures' = failures + 1 /\ Reply(c, 500)
  /\ Observe
  /\ UNCHANGED reader

-----------------------------------------------------------------------------
(* GetBalance: two or three statements, each on its own snapshot.          *)

ReadCurrent(r) ==
  LET u == Owner[r]
  IN /\ reader[r].pc = "readCurrent"
     /\ reader' = [reader EXCEPT ![r] =
          IF Current(u) = 0 THEN ReaderRecord("readHistory", None, None)
                            ELSE ReaderRecord("readWithdrawn", Current(u), None)]
     /\ seen' = [seen EXCEPT ![r] = {Truth(u)}]
     /\ UNCHANGED <<account, status, approval, pc, answer, failures>>

\* No account row, or an empty one: the sum over the processed transactions.
\* Faulty variant: sums accruals in any status.
HistoryAny(u) == Sum({c \in Accruals : status[c] # None /\ Owner[c] = u}) - Withdrawn(u)
HistorySum(u) == History(u)

ReadHistory(r) ==
  /\ reader[r].pc = "readHistory"
  /\ reader' = [reader EXCEPT ![r] =
                  ReaderRecord("readWithdrawn", HistorySum(Owner[r]), None)]
  /\ UNCHANGED <<account, status, approval, pc, answer, seen, failures>>

\* accrued == current + withdrawn, and the handler answers accrued - withdrawn.
ReadWithdrawn(r) ==
  /\ reader[r].pc = "readWithdrawn"
  /\ reader' = [reader EXCEPT ![r] =
                  ReaderRecord("done", reader[r].current, Withdrawn(Owner[r]))]
  /\ UNCHANGED <<account, status, approval, pc, answer, seen, failures>>

-----------------------------------------------------------------------------
(* GET /api/user/withdrawals: one SELECT, a view of the committed rows.    *)
ListWithdrawals(u) == {c \in PaidBy(u, Withdrawals) : Amount[c] > 0}

-----------------------------------------------------------------------------
\* The process dies: PostgreSQL rolls back what it had not committed.
Crash ==
  /\ failures < MaxFailures /\ failures' = failures + 1
  /\ pc' = [c \in Clients |-> IF pc[c] = "done" THEN "done" ELSE "aborted"]
  /\ rowLock' = [c \in Clients |-> None] /\ scan' = [c \in Clients |-> <<>>]
  /\ accLock' = [u \in Users |-> None]
  /\ pending' = [c \in Clients |-> None] /\ verdict' = [c \in Clients |-> None]
  /\ reader' = [r \in Readers |-> IF reader[r].pc = "done" THEN reader[r]
                                  ELSE ReaderRecord("aborted", None, None)]
  /\ UNCHANGED <<account, status, answer, seen>>

ApproveTransaction(c) ==
  \/ LockRow(c) \/ EnsureAccount(c) \/ LockAccount(c) \/ Debit(c)
  \/ Credit(c) \/ Settle(c) \/ Commit(c)

ClientStep(c) ==
  \/ CancelPlannedTransactionsByOrder(c) \/ RegisterTransaction(c)
  \/ ApproveTransaction(c) \/ CancelTransaction(c)
  \/ DeadlockError(c)
  \/ pc[c] \notin {"done", "aborted"} /\ Fail(c)

GetBalance(r) == ReadCurrent(r) \/ ReadHistory(r) \/ ReadWithdrawn(r)

Next ==
  \/ \E c \in Clients : ClientStep(c)
  \/ \E r \in Readers : GetBalance(r)
  \/ Crash

Spec == Init /\ [][Next]_vars

\* Goroutines are scheduled, PostgreSQL grants a lock that is free and notices
\* a deadlock.
InTurn(c) ==
  ApproveTransaction(c) \/ CancelPlannedTransactionsByOrder(c) \/ DeadlockError(c)
LockFairness == \A c \in Clients : WF_vars(InTurn(c))
LiveSpec == Spec /\ LockFairness
-----------------------------------------------------------------------------
(* Properties.                                                             *)

\* Rows, locks and answers have the shapes of their SQL and Go types; a lock
\* belongs to a transaction that is open.
TypeOK ==
  /\ account \in [Users -> Int \cup {None}]
  /\ status \in [Clients -> Statuses \cup {None}]
  /\ rowLock \in [Clients -> {c \in Clients : pc[c] \in InTransaction} \cup {None}]
  /\ scan \in [Clients -> Seq(Clients)]
  /\ accLock \in [Users -> {c \in Clients : pc[c] \in InApprove} \cup {None}]
  /\ pending \in [Clients -> Int \cup {None}]
  /\ verdict \in [Clients -> {"PROCESSED", Refused, None}]
  /\ pc \in [Clients -> ClientPCs]
  /\ answer \in [Clients -> {200, 402, 500, None}]
  /\ failures \in 0..MaxFailures

\* The table has no CHECK on current_balance, so concurrent withdrawals must
\* not overdraw: the condition of the UPDATE and the lock it is tested under.
NeverOverdrawn == \A u \in Users : account[u] # None => account[u] >= 0

\* The balance that is kept and the balance the history adds up to agree after
\* every commit, so GetBalance may use either.
BalanceIsHistory == \A u \in Users : Current(u) = History(u)

\* 200 and 402 tell what happened to the points; only 500 leaves it open.  A
\* withdrawal answered 200 is in the user's list from then on, unless it asked
\* for less than half a hundredth of a point; one answered 402 never is.
AnswerTellsOutcome ==
  \A c \in Withdrawals :
    /\ answer[c] = 200 => status[c] = "PROCESSED"
    /\ answer[c] = 200 /\ Asked[c] >= 5 => c \in ListWithdrawals(Owner[c])
    /\ answer[c] = 402 => status[c] = Refused /\ c \notin ListWithdrawals(Owner[c])

\* A worker that cancels the planned rows of its order never revokes a
\* withdrawal for the same number that was decided, nor does anyone else.  (The
\* runs check ImplementsAccount, which implies it.)
DecidedIsFinal ==
  [][\A c \in Clients : status[c] \in {"PROCESSED", Refused} => status'[c] = status[c]]_vars

\* Each figure GetBalance answers was the true one at some moment of the call.
FiguresWereTrue ==
  \A r \in Readers : reader[r].pc = "done" =>
    /\ \E t \in seen[r] : t[1] = reader[r].current
    /\ \E t \in seen[r] : t[2] = reader[r].withdrawn

\* No statement waits for a call that is over.  An open ApproveTransaction waits
\* only for the holder of its account row, who waits for nobody, so none is ever
\* the victim of a deadlock: PostgreSQL breaks those of cancellations, two of
\* which may lock the same rows in different orders, and nothing else.
LocksAreOrdered ==
  \A c \in Clients :
    /\ \A d \in WaitsFor(c) :
         /\ pc[d] \in InTransaction
         /\ pc[c] \in InApprove => pc[d] \in InApprove /\ Granted(d)
    /\ Deadlocked(c) => pc[c] = "cancelRows"

\* Every ApproveTransaction and every cancellation that has begun comes back: no
\* set of calls waits for one another's locks for ever.  (A call begins each of
\* them once, so in the end none is open.)
TransactionsEnd ==
  <>[](\A c \in Clients : pc[c] \notin {"lockRow"} \cup InTransaction)

\* The tables implement the account that SPECIFICATION.md promises.
Outcome(c) == CASE status[c] = "PROCESSED" -> "paid"
                [] status[c] = Refused -> "refused"
                [] OTHER -> "open"

Account == INSTANCE LoyaltyAccount WITH
  points <- [u \in Users |-> Current(u)], outcome <- [c \in Clients |-> Outcome(c)]

ImplementsAccount == Account!ASpec
=============================================================================

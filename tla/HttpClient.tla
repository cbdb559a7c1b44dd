----------------------------- MODULE HttpClient -----------------------------
(***************************************************************************)
(* HttpClient::perform: up to three attempts at one request, each with its *)
(* own log entry.  Connect failures are retried at once, 429 and 5xx after *)
(* 200ms and 400ms, and a transfer that used up its total timeout is not.  *)
(*                                                                         *)
(* Time is in units of 100ms.  An attempt's log entry measures its elapsed *)
(* time by the wall clock, which may be set back meanwhile, or forward     *)
(* (negative), by one of the amounts in SetBack.                           *)
(***************************************************************************)
EXTENDS Integers, Sequences

CONSTANTS ConnectTimeout, \* config_.connect_timeout (10 in Aws)
          ReadTimeout,    \* config_.read_timeout (10 in Aws)
          Durations,      \* bound: how long a transfer takes
          SetBack         \* how far the wall clock is set back in an attempt

TotalTimeout == ConnectTimeout + ReadTimeout

ASSUME HttpAssumption ==
    /\ ConnectTimeout \in Nat
    /\ ReadTimeout \in Nat \ {0}
    /\ Durations \subseteq 0 .. TotalTimeout
    /\ SetBack \subseteq Int

\* Status codes of each kind the code tells apart.
Codes == {200, 404, 429, 503}

VARIABLES pc,      \* "idle", or "attempt" while a request is under way
          attempt, \* attempt_number
          spent,   \* how long the request has taken so far
          log,     \* the entries logged for it
          status   \* what it returned

vars == <<pc, attempt, spent, log, status>>

Init ==
    /\ pc = "idle"
    /\ attempt = 0
    /\ spent = 0
    /\ log = <<>>
    /\ status = 0

is_retryable_error(code) == code = 429 \/ code \div 100 = 5

\* A transfer: how it ends and when.  CURLE_OPERATION_TIMEDOUT is the connect
\* timeout or the total one.
Failures ==
    [error : {"connection_error"}, took : {d \in Durations : d <= ConnectTimeout}]
    \cup [error : {"timeout"}, took : {ConnectTimeout, TotalTimeout}]
    \cup [error : {"unknown"}, took : Durations]
Answers == [code : Codes, took : Durations]

\* What entry.log() records at the end of an attempt.
Entry(final, code, error) ==
    [attempt |-> attempt, final |-> final, status |-> code, error |-> error]
Logs(final, code, error) == log' = Append(log, Entry(final, code, error))

ErrorOf(code) == IF code \div 100 = 2 THEN "success" ELSE "http_error"

\* absl::Now() - entry.start() < total_timeout && attempt_number < 2
MayRetryAnyAttempt(elapsed) == elapsed < TotalTimeout
MayRetry(elapsed) == elapsed < TotalTimeout /\ attempt < 2

\* uint32_t(200) << attempt_number, for the two attempts that are retried.
Backoff == IF attempt = 0 THEN 2 ELSE 4

Request ==
    /\ pc = "idle"
    /\ pc' = "attempt"
    /\ attempt' = 0
    /\ spent' = 0
    /\ log' = <<>>
    /\ status' = 0

Finish(code, entryCode, error) ==
    /\ pc' = "idle"
    /\ status' = code
    /\ Logs(TRUE, entryCode, error)
    /\ UNCHANGED attempt

\* The entry of a retried attempt is logged as not final.
TryAgainLogsFinal(entryCode, error) ==
    /\ attempt' = attempt + 1
    /\ Logs(TRUE, entryCode, error)
    /\ UNCHANGED <<pc, status>>
TryAgain(entryCode, error) ==
    /\ attempt' = attempt + 1
    /\ Logs(FALSE, entryCode, error)
    /\ UNCHANGED <<pc, status>>

TransferFails ==
    /\ pc = "attempt"
    /\ \E f \in Failures, back \in SetBack :
          /\ spent' = spent + f.took
          /\ IF MayRetry(f.took - back)
             THEN TryAgain(-1, f.error)
             ELSE Finish(400, -1, f.error)

RetryableAnswer ==
    /\ pc = "attempt"
    /\ attempt < 2
    /\ \E a \in Answers :
          /\ is_retryable_error(a.code)
          /\ spent' = spent + a.took + Backoff
          /\ TryAgain(a.code, ErrorOf(a.code))

Answer ==
    /\ pc = "attempt"
    /\ \E a \in Answers :
          /\ ~(is_retryable_error(a.code) /\ attempt < 2)
          /\ spent' = spent + a.took
          /\ Finish(a.code, a.code, ErrorOf(a.code))

Next == Request \/ TransferFails \/ RetryableAnswer \/ Answer

Spec == Init /\ [][Next]_vars

-----------------------------------------------------------------------------
(***************************************************************************)
(* Every variable has its type, and the attempts are numbered as they are  *)
(* logged.                                                                 *)
(***************************************************************************)
TypeOK ==
    /\ pc \in {"idle", "attempt"}
    /\ attempt \in 0 .. 2
    /\ spent \in Nat
    /\ log \in Seq([attempt : 0 .. 2, final : BOOLEAN, status : Codes \cup {-1},
                    error : {"connection_error", "timeout", "unknown",
                             "success", "http_error"}])
    /\ \A i \in DOMAIN log : log[i].attempt = i - 1
    /\ status \in Codes \cup {0, 400}

(***************************************************************************)
(* A request is counted once by whoever counts final entries: its last     *)
(* entry is final and no other is (log_entry.h:70-74).                     *)
(***************************************************************************)
OneFinalEntry ==
    /\ \A i \in DOMAIN log : log[i].final <=> pc = "idle" /\ i = Len(log)
    /\ pc = "attempt" => Len(log) = attempt

(***************************************************************************)
(* A request holds the collecting thread for three timeouts and the two    *)
(* pauses between attempts at most, a kill of the agent notwithstanding    *)
(* and however the wall clock is set.     Whether to try again after a    *)
(* timeout is decided by that clock (http_client.cpp:217-223): set back,   *)
(* it has the client repeat the read timeouts it means not to.             *)
(***************************************************************************)
TimeBounded == spent <= 3 * TotalTimeout + 2 + 4
=============================================================================

--------------------------- MODULE RequestProofs ----------------------------
(***************************************************************************)
(* Proofs about HttpClient::perform and about the AWS collector, for every *)
(* pair of timeouts: the collector's requests are HttpClient's, so what is *)
(* proved of a request bounds the age of its token.                        *)
(***************************************************************************)
EXTENDS Aws, TLAPS

\* How long the attempts made so far, and the pauses after them, may take.
Allowance(n) ==
    CASE n = 0 -> 0
      [] n = 1 -> TotalTimeout + 2
      [] OTHER -> 2 * TotalTimeout + 6

(***************************************************************************)
(* The inductive invariant: attempts are counted, and each took at most    *)
(* its timeout and its pause.                                              *)
(***************************************************************************)
Paced ==
    /\ pc \in {"idle", "attempt"}
    /\ attempt \in {0, 1, 2}
    /\ spent \in Nat
    /\ pc = "attempt" => spent <= Allowance(attempt)
    /\ pc = "idle" => spent <= 3 * TotalTimeout + 6

LEMMA TimeoutsNatural == TotalTimeout \in Nat
  BY HttpAssumption DEF HttpAssumption, TotalTimeout

LEMMA DurationsBounded == \A d \in Durations : d \in Nat /\ d <= TotalTimeout
<1>1. Durations \subseteq 0 .. TotalTimeout
  BY HttpAssumption DEF HttpAssumption
<1> QED
  BY <1>1, TimeoutsNatural

LEMMA FailureTook ==
  ASSUME NEW f \in Failures
  PROVE  f.took \in Nat /\ f.took <= TotalTimeout
<1>1. ConnectTimeout \in Nat /\ ConnectTimeout <= TotalTimeout
  BY HttpAssumption DEF HttpAssumption, TotalTimeout
<1>2. f.took \in Durations \cup {ConnectTimeout, TotalTimeout}
  BY DEF Failures
<1> QED
  BY <1>1, <1>2, TimeoutsNatural, DurationsBounded

LEMMA AnswerTook ==
  ASSUME NEW a \in Answers
  PROVE  a.took \in Nat /\ a.took <= TotalTimeout
  BY DurationsBounded DEF Answers

LEMMA PacedStep == Paced /\ [Next]_vars => Paced'
<1> SUFFICES ASSUME Paced, [Next]_vars PROVE Paced'
  OBVIOUS
<1> DEFINE T == TotalTimeout
<1>0. T \in Nat /\ T' = T
  BY TimeoutsNatural DEF TotalTimeout
<1>a. /\ Allowance(0) = 0
      /\ Allowance(1) = T + 2
      /\ Allowance(2) = 2 * T + 6
  BY <1>0 DEF Allowance
<1>c. pc' = "attempt" /\ attempt' \in {0, 1, 2} => Allowance(attempt)' =
         IF attempt' = 0 THEN 0 ELSE IF attempt' = 1 THEN T + 2 ELSE 2 * T + 6
  BY <1>0 DEF Allowance, TotalTimeout
<1> HIDE DEF T
<1>1. CASE Request
  BY <1>0, <1>1, <1>c DEF Request, Paced
<1>2. CASE TransferFails
  <2>1. PICK f \in Failures, back \in SetBack :
          /\ spent' = spent + f.took
          /\ IF MayRetry(f.took - back)
             THEN TryAgain(-1, f.error)
             ELSE Finish(400, -1, f.error)
    BY <1>2 DEF TransferFails
  <2>2. f.took \in Nat /\ f.took <= T
    BY FailureTook DEF T
  <2>3. pc = "attempt"
    BY <1>2 DEF TransferFails
  <2>4. CASE MayRetry(f.took - back)
    <3>1. attempt' = attempt + 1 /\ pc' = pc /\ attempt < 2
      BY <2>1, <2>4 DEF TryAgain, MayRetry
    <3> QED
      BY <1>0, <1>a, <1>c, <2>1, <2>2, <2>3, <3>1 DEF Paced
  <2>5. CASE ~MayRetry(f.took - back)
    <3>1. attempt' = attempt /\ pc' = "idle"
      BY <2>1, <2>5 DEF Finish
    <3> QED
      BY <1>0, <1>a, <2>1, <2>2, <2>3, <3>1 DEF Paced, T
  <2> QED
    BY <2>4, <2>5
<1>3. CASE RetryableAnswer
  <2>1. PICK a \in Answers :
          /\ spent' = spent + a.took + Backoff
          /\ TryAgain(a.code, ErrorOf(a.code))
    BY <1>3 DEF RetryableAnswer
  <2>2. a.took \in Nat /\ a.took <= T
    BY AnswerTook DEF T
  <2>3. pc = "attempt" /\ attempt < 2 /\ attempt' = attempt + 1 /\ pc' = pc
    BY <1>3, <2>1 DEF RetryableAnswer, TryAgain
  <2> QED
    BY <1>0, <1>a, <1>c, <2>1, <2>2, <2>3 DEF Paced, Backoff
<1>4. CASE Answer
  <2>1. PICK a \in Answers :
          /\ spent' = spent + a.took
          /\ Finish(a.code, a.code, ErrorOf(a.code))
    BY <1>4 DEF Answer
  <2>2. a.took \in Nat /\ a.took <= T
    BY AnswerTook DEF T
  <2>3. pc = "attempt" /\ attempt' = attempt /\ pc' = "idle"
    BY <1>4, <2>1 DEF Answer, Finish
  <2> QED
    BY <1>0, <1>a, <2>1, <2>2, <2>3 DEF Paced, T
<1>5. CASE UNCHANGED vars
  BY <1>0, <1>5, <1>a, <1>c DEF vars, Paced, T
<1> QED
  BY <1>1, <1>2, <1>3, <1>4, <1>5 DEF Next

(***************************************************************************)
(* A request holds the collecting thread for three timeouts and the two    *)
(* pauses at most.                                                         *)
(***************************************************************************)
THEOREM RequestTimeBounded == Spec => []TimeBounded
<1>1. Init => Paced
  BY TimeoutsNatural DEF Init, Paced, Allowance
<1>2. Paced => TimeBounded
  <2> SUFFICES ASSUME Paced PROVE TimeBounded
    OBVIOUS
  <2>1. TotalTimeout \in Nat
    BY TimeoutsNatural
  <2>2. \A n \in {0, 1, 2} : Allowance(n) <= 3 * TotalTimeout + 6
    BY <2>1 DEF Allowance
  <2> QED
    BY <2>1, <2>2 DEF Paced, TimeBounded, Allowance
<1> QED
  BY <1>1, <1>2, PacedStep, PTL DEF Spec

-----------------------------------------------------------------------------
\* What an entry says of its attempt.
Entries == [attempt : Int, final : BOOLEAN, status : Int,
            error : {"connection_error", "timeout", "unknown", "success",
                     "http_error"}]

(***************************************************************************)
(* The log is a sequence of entries whose last one is final exactly when   *)
(* the request is over, and none before it.                                *)
(***************************************************************************)
Logged ==
    /\ pc \in {"idle", "attempt"}
    /\ attempt \in Nat
    /\ log \in Seq(Entries)
    /\ OneFinalEntry

\* Appending an entry: it is the last one, and the others stay.
LEMMA AppendEntry ==
  ASSUME Logged, NEW e \in Entries, log' = Append(log, e)
  PROVE  /\ log' \in Seq(Entries)
         /\ Len(log') = Len(log) + 1
         /\ log'[Len(log')] = e
         /\ \A i \in DOMAIN log : log'[i] = log[i]
         /\ DOMAIN log' = DOMAIN log \cup {Len(log')}
  BY DEF Logged

LEMMA LoggedFinal ==
  ASSUME Logged
  PROVE  \A i \in DOMAIN log : log[i].final \in BOOLEAN
<1>1. \A i \in DOMAIN log : log[i] \in Entries
  BY DEF Logged
<1> QED
  BY <1>1 DEF Entries

LEMMA EntryIsEntry ==
  ASSUME Logged, NEW final \in BOOLEAN, NEW code \in Int,
         NEW error \in {"connection_error", "timeout", "unknown", "success",
                        "http_error"}
  PROVE  Entry(final, code, error) \in Entries
  BY DEF Logged, Entry, Entries

LEMMA TryAgainLogged ==
  ASSUME Logged, pc = "attempt", NEW code \in Int,
         NEW error \in {"connection_error", "timeout", "unknown", "success",
                        "http_error"},
         TryAgain(code, error)
  PROVE  Logged' /\ log'[Len(log')].error = error
<1> DEFINE e == Entry(FALSE, code, error)
<1>1. e \in Entries
  BY EntryIsEntry
<1>2. log' = Append(log, e)
  BY DEF TryAgain, Logs
<1>3. e.final = FALSE /\ e.error = error
  BY DEF Entry
<1> HIDE DEF e
<1>4. /\ log' \in Seq(Entries)
      /\ Len(log') = Len(log) + 1
      /\ log'[Len(log')] = e
      /\ \A i \in DOMAIN log : log'[i] = log[i]
      /\ DOMAIN log' = DOMAIN log \cup {Len(log')}
  BY <1>1, <1>2, AppendEntry
<1>5. pc' = "attempt" /\ attempt' = attempt + 1
  BY DEF TryAgain
<1>6. \A i \in DOMAIN log : log[i].final = FALSE
  <2>1. \A i \in DOMAIN log : log[i].final \in BOOLEAN
    BY LoggedFinal
  <2> QED
    BY <2>1 DEF Logged, OneFinalEntry
<1>7. Len(log) = attempt /\ attempt \in Nat
  BY DEF Logged, OneFinalEntry
<1>8. \A i \in DOMAIN log' : log'[i].final = FALSE
  BY <1>3, <1>4, <1>6
<1> QED
  BY <1>3, <1>4, <1>5, <1>7, <1>8 DEF Logged, OneFinalEntry

LEMMA FinishLogged ==
  ASSUME Logged, pc = "attempt", NEW answer, NEW code \in Int,
         NEW error \in {"connection_error", "timeout", "unknown", "success",
                        "http_error"},
         Finish(answer, code, error)
  PROVE  Logged'
<1> DEFINE e == Entry(TRUE, code, error)
<1>1. e \in Entries
  BY EntryIsEntry
<1>2. log' = Append(log, e)
  BY DEF Finish, Logs
<1>3. e.final = TRUE
  BY DEF Entry
<1> HIDE DEF e
<1>4. /\ log' \in Seq(Entries)
      /\ Len(log') = Len(log) + 1
      /\ log'[Len(log')] = e
      /\ \A i \in DOMAIN log : log'[i] = log[i]
      /\ DOMAIN log' = DOMAIN log \cup {Len(log')}
  BY <1>1, <1>2, AppendEntry
<1>5. pc' = "idle" /\ attempt' = attempt
  BY DEF Finish
<1>6. \A i \in DOMAIN log : log[i].final = FALSE /\ i # Len(log')
  <2>1. \A i \in DOMAIN log : log[i].final \in BOOLEAN /\ i <= Len(log)
    BY LoggedFinal DEF Logged
  <2>2. Len(log) \in Nat
    BY DEF Logged
  <2> QED
    BY <1>4, <2>1, <2>2 DEF Logged, OneFinalEntry
<1>7. \A i \in DOMAIN log' : log'[i].final <=> i = Len(log')
  BY <1>3, <1>4, <1>6
<1> QED
  BY <1>4, <1>5, <1>7 DEF Logged, OneFinalEntry

LEMMA LoggedStep == Logged /\ [Next]_vars => Logged'
<1> SUFFICES ASSUME Logged, [Next]_vars PROVE Logged'
  OBVIOUS
<1>1. CASE Request
  BY <1>1 DEF Request, Logged, OneFinalEntry
<1>2. CASE TransferFails
  <2>1. PICK f \in Failures, back \in SetBack :
             TryAgain(-1, f.error) \/ Finish(400, -1, f.error)
    BY <1>2 DEF TransferFails
  <2>2. f.error \in {"connection_error", "timeout", "unknown"}
    BY DEF Failures
  <2>3. pc = "attempt" /\ -1 \in Int
    BY <1>2 DEF TransferFails
  <2> QED
    BY <2>1, <2>2, <2>3, TryAgainLogged, FinishLogged
<1>3. CASE RetryableAnswer
  <2>1. PICK a \in Answers : TryAgain(a.code, ErrorOf(a.code))
    BY <1>3 DEF RetryableAnswer
  <2>2. a.code \in Int /\ ErrorOf(a.code) \in {"success", "http_error"}
    BY DEF Answers, Codes, ErrorOf
  <2>3. pc = "attempt"
    BY <1>3 DEF RetryableAnswer
  <2> QED
    BY <2>1, <2>2, <2>3, TryAgainLogged
<1>4. CASE Answer
  <2>1. PICK a \in Answers : Finish(a.code, a.code, ErrorOf(a.code))
    BY <1>4 DEF Answer
  <2>2. a.code \in Int /\ ErrorOf(a.code) \in {"success", "http_error"}
    BY DEF Answers, Codes, ErrorOf
  <2>3. pc = "attempt"
    BY <1>4 DEF Answer
  <2> QED
    BY <2>1, <2>2, <2>3, FinishLogged
<1>5. CASE UNCHANGED vars
  BY <1>5 DEF vars, Logged, OneFinalEntry
<1> QED
  BY <1>1, <1>2, <1>3, <1>4, <1>5 DEF Next

LEMMA InitLogged == Init => Logged
  BY DEF Init, Logged, OneFinalEntry, Entries

(***************************************************************************)
(* Whoever counts final entries counts every request once.                 *)
(***************************************************************************)
THEOREM RequestsCountedOnce == Spec => []OneFinalEntry
<1>1. Logged => OneFinalEntry
  BY DEF Logged
<1> QED
  BY <1>1, InitLogged, LoggedStep, PTL DEF Spec

-----------------------------------------------------------------------------
(* The AWS collector.                                                      *)

LEMMA StepImplementsHttp == [AwsNext]_awsVars => [Next]_vars
<1> SUFFICES ASSUME [AwsNext]_awsVars PROVE Next \/ UNCHANGED vars
  OBVIOUS
<1>1. CASE Outage \/ ChangeProfile
  BY <1>1 DEF Outage, ChangeProfile
<1>2. CASE Transfer
  BY <1>2 DEF Transfer, Next
<1>3. CASE StartCollect \/ GetToken \/ GetProfile
  BY <1>3 DEF StartCollect, GetToken, GetProfile, Ask, Next
<1>4. CASE TokenFails \/ ProfileFails \/ CredentialsFail \/ GetCredentials
  BY <1>4 DEF TokenFails, ProfileFails, CredentialsFail, GetCredentials, End
<1>5. CASE UNCHANGED awsVars
  BY <1>5 DEF awsVars
<1> QED
  BY <1>1, <1>2, <1>3, <1>4, <1>5 DEF AwsNext, Collect

(***************************************************************************)
(* Every request the collector makes is one of HttpClient::perform, one    *)
(* after the other (aws.h:80-105): what is proved of HttpClient holds of   *)
(* the collector.                                                          *)
(***************************************************************************)
THEOREM AwsImplementsHttp == AwsSpec => Spec
<1>1. AwsInit => Init
  BY DEF AwsInit
<1> QED
  BY <1>1, StepImplementsHttp, PTL DEF AwsSpec, Spec

-----------------------------------------------------------------------------
(***************************************************************************)
(* The inductive invariant: the token is at most as old as the last        *)
(* attempt of its own request, the profile's request and the time spent on *)
(* the request under way can make it.                                      *)
(***************************************************************************)
Aged ==
    /\ token \in Int
    /\ stage = "profile" => token <= TotalTimeout + spent
    /\ stage = "credentials" => token <= 4 * TotalTimeout + 6 + spent

LEMMA AgesTogether ==
  ASSUME NEW t \in Nat, NEW old \in Nat, NEW new \in Nat, NEW age \in Int
  PROVE  /\ -1 <= t + new /\ -1 <= 4 * t + 6 + new
         /\ age <= t + old => age + (new - old) <= t + new
         /\ age <= 4 * t + 6 + old => age + (new - old) <= 4 * t + 6 + new
  OBVIOUS

LEMMA AgedStep == Paced /\ Aged /\ [AwsNext]_awsVars => Aged'
<1> SUFFICES ASSUME Paced, Aged, [AwsNext]_awsVars PROVE Aged'
  OBVIOUS
<1> DEFINE T == TotalTimeout
<1>0. T \in Nat
  BY TimeoutsNatural
<1>d. TotalTimeout' = TotalTimeout
  BY DEF TotalTimeout
<1>a. spent \in Nat /\ spent' \in Nat
  <2>1. Paced'
    BY StepImplementsHttp, PacedStep
  <2> QED BY <2>1 DEF Paced
<1>b. pc = "idle" => spent <= 3 * T + 6
  BY DEF Paced
<1> HIDE DEF T
<1>c. /\ token \in Int
      /\ stage = "profile" => token <= T + spent
      /\ stage = "credentials" => token <= 4 * T + 6 + spent
  BY DEF Aged, T
<1> SUFFICES /\ token' \in Int
             /\ stage' = "profile" => token' <= T + spent'
             /\ stage' = "credentials" => token' <= 4 * T + 6 + spent'
  BY <1>d DEF Aged, T
<1>1. CASE Outage \/ ChangeProfile
  BY <1>1, <1>c DEF Outage, ChangeProfile, vars
<1>2. CASE Transfer
  <2>1. stage' = stage /\ token' = IF token = -1 THEN -1 ELSE token + (spent' - spent)
    BY <1>2 DEF Transfer
  <2>2. CASE token = -1
    <3>1. token' = -1
      BY <2>1, <2>2
    <3>2. -1 <= T + spent' /\ -1 <= 4 * T + 6 + spent'
      BY <1>0, <1>a, <1>c, AgesTogether, Zenon
    <3>3. -1 \in Int
      OBVIOUS
    <3> QED BY <3>1, <3>2, <3>3, Zenon
  <2>3. CASE token # -1
    <3>1. token' = token + (spent' - spent)
      BY <2>1, <2>3
    <3>2. token' \in Int
      BY <3>1, <1>a, <1>c
    <3>3. token <= T + spent => token' <= T + spent'
      BY <3>1, <1>0, <1>a, <1>c, AgesTogether
    <3>4. token <= 4 * T + 6 + spent => token' <= 4 * T + 6 + spent'
      BY <3>1, <1>0, <1>a, <1>c, AgesTogether
    <3> QED BY <2>1, <3>2, <3>3, <3>4, <1>c, Zenon
  <2> QED BY <2>2, <2>3
<1>3. CASE StartCollect
  BY <1>3, <1>c DEF StartCollect, Ask
<1>4. CASE GetToken
  <2>1. token' \in {0, T} /\ spent' = 0
    BY <1>4 DEF GetToken, Ask, Request, T
  <2> QED BY <2>1, <1>0
<1>5. CASE GetProfile
  <2>1. /\ stage = "profile" /\ pc = "idle" /\ token' = token
        /\ spent' = 0 /\ stage' = "credentials"
    BY <1>5 DEF GetProfile, Answered, Ask, Request
  <2> QED BY <2>1, <1>0, <1>a, <1>b, <1>c
<1>6. CASE TokenFails \/ ProfileFails \/ CredentialsFail \/ GetCredentials
  <2>1. stage' = "idle" /\ token' = token
    BY <1>6 DEF TokenFails, ProfileFails, CredentialsFail, GetCredentials, End
  <2> QED BY <2>1, <1>c
<1>7. CASE UNCHANGED awsVars
  BY <1>7, <1>c DEF awsVars, vars
<1> QED
  BY <1>1, <1>2, <1>3, <1>4, <1>5, <1>6, <1>7 DEF AwsNext, Collect

(***************************************************************************)
(* The token of a collect outlives every attempt of its requests if it is  *)
(* good for seven timeouts and the pauses of two requests: with the        *)
(* timeouts of aws.h:65 that is 15.2 of its 60 seconds (aws.h:79).         *)
(***************************************************************************)
THEOREM TokenLasts ==
  ASSUME 7 * TotalTimeout + 12 <= TokenTtl
  PROVE  AwsSpec => []TokenOutlivesCollect
<1>1. AwsInit => Paced /\ Aged
  <2> SUFFICES ASSUME AwsInit PROVE Paced /\ Aged
    OBVIOUS
  <2>1. Paced
    <3>1. pc = "idle" /\ attempt = 0 /\ spent = 0
      BY DEF AwsInit, Init
    <3> QED BY <3>1, TimeoutsNatural DEF Paced
  <2>2. Aged
    <3>1. stage = "idle" /\ token = -1
      BY DEF AwsInit
    <3> QED BY <3>1 DEF Aged
  <2> QED BY <2>1, <2>2
<1>2. Paced /\ Aged /\ [AwsNext]_awsVars => (Paced /\ Aged)'
  BY StepImplementsHttp, PacedStep, AgedStep
<1>3. Paced /\ Aged => TokenOutlivesCollect
  <2> SUFFICES ASSUME Paced, Aged, stage \in {"profile", "credentials"}, pc = "attempt"
               PROVE  token + TotalTimeout <= TokenTtl
    BY DEF TokenOutlivesCollect
  <2>1. TotalTimeout \in Nat /\ TokenTtl \in Nat
    BY TimeoutsNatural, AwsAssumption DEF AwsAssumption
  <2>2. spent \in Nat /\ spent <= 2 * TotalTimeout + 6
    BY <2>1 DEF Paced, Allowance
  <2>3. token \in Int /\ token <= 4 * TotalTimeout + 6 + spent
    BY <2>1, <2>2 DEF Aged
  <2> QED BY <2>1, <2>2, <2>3
<1> QED
  BY <1>1, <1>2, <1>3, PTL DEF AwsSpec
=============================================================================

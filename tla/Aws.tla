-------------------------------- MODULE Aws ---------------------------------
(***************************************************************************)
(* The AWS collector, on top of HttpClient: once a minute it gets a        *)
(* session token from the instance metadata service, the name of the       *)
(* instance profile (until it knows one, which it keeps), and the          *)
(* profile's credentials, of which it publishes how long they last.  Each  *)
(* of the requests is one of HttpClient, with its retries and pauses.      *)
(*                                                                         *)
(* Time is HttpClient's, in units of 100ms, and kept as the age of the     *)
(* token only.  The agent runs where there are credentials (executor_ is   *)
(* ec2 or titus).                                                          *)
(***************************************************************************)
EXTENDS HttpClient

CONSTANTS TokenTtl,    \* how long a token is good: 600
          Profiles,    \* names of instance profiles
          MaxChanges   \* bound: changes of the instance's profile

ASSUME AwsAssumption ==
    /\ {TokenTtl, MaxChanges} \subseteq Nat
    /\ Profiles # {} /\ "" \notin Profiles

VARIABLES stage,     \* what collect has asked for, or "idle"
          token,     \* age of the token collect holds, -1 for none
          credsUrl,  \* creds_url_: a profile, or "" while it is empty
          profile,   \* the instance's profile
          serving,   \* whether the metadata service works
          changes,   \* how often the profile changed
          outcome    \* of the collect that ended last, until the next starts

service == <<profile, serving, changes>>
awsVars == <<vars, stage, token, credsUrl, service, outcome>>

Outcomes == {"none", "skipped", "refreshError", "noExpiration",
             "expired", "05min", "30min", "60min", "hours"}

\* Documents the credentials request may return: not JSON or not an object,
\* without an expiration, or with one, some minutes from now.
MinutesLeft == {-1, 0, 5, 6, 30, 31, 60, 61}
Documents == [kind : {"malformed", "noExpiration", "expires"}, minutes : MinutesLeft]

AwsInit ==
    /\ Init
    /\ stage = "idle"
    /\ token = -1
    /\ credsUrl = ""
    /\ profile \in Profiles
    /\ serving \in BOOLEAN
    /\ changes = 0
    /\ outcome = "none"

-----------------------------------------------------------------------------
\* The instance and its metadata service.
Outage ==
    /\ serving' = ~serving
    /\ UNCHANGED <<vars, stage, token, credsUrl, profile, changes, outcome>>

ChangeProfile ==
    /\ changes < MaxChanges
    /\ profile' \in Profiles \ {profile}
    /\ changes' = changes + 1
    /\ UNCHANGED <<vars, stage, token, credsUrl, serving, outcome>>

\* Whether a working service has an answer to the request: tokens are for
\* everyone, the rest for holders of a token that is still good, and the
\* credentials those of the instance's own profile.
Granted ==
    CASE stage = "token"   -> TRUE
      [] stage = "profile" -> token <= TokenTtl
      [] OTHER             -> token <= TokenTtl /\ credsUrl = profile

\* An attempt ends as the service makes it end.
Transfer ==
    /\ stage # "idle"
    /\ TransferFails \/ RetryableAnswer \/ Answer
    /\ LET code == log'[Len(log')].status
       IN  IF serving THEN code = IF Granted THEN 200 ELSE 404 ELSE code # 200
    /\ token' = IF token = -1 THEN -1 ELSE token + (spent' - spent)
    /\ UNCHANGED <<stage, credsUrl, service, outcome>>

-----------------------------------------------------------------------------
\* What update_stats_from makes of a document.
Bucket(minutes) ==
    CASE minutes < 0   -> "expired"
      [] minutes <= 5  -> "05min"
      [] minutes <= 30 -> "30min"
      [] minutes <= 60 -> "60min"
      [] OTHER         -> "hours"
StatsOf(document) ==
    CASE document.kind = "malformed"    -> "refreshError"
      [] document.kind = "noExpiration" -> "noExpiration"
      [] OTHER                          -> Bucket(document.minutes)

Ask(what) == Request /\ stage' = what
Answered(what) == stage = what /\ pc = "idle"
End(result) == stage' = "idle" /\ outcome' = result /\ UNCHANGED <<vars, token>>

\* Which request follows the token.
AfterTokenAlways == "credentials"
AfterToken == IF credsUrl = "" THEN "profile" ELSE "credentials"

\* collect() begins by asking for a token, whatever an earlier one held.
StartCollectWithOldToken ==
    /\ stage = "idle"
    /\ IF token = -1 THEN Ask("token") /\ UNCHANGED token
       ELSE Ask(AfterToken) /\ token' = TokenTtl + 1
    /\ outcome' = "none"
    /\ UNCHANGED <<credsUrl, service>>
StartCollect ==
    /\ stage = "idle"
    /\ Ask("token")
    /\ token' = -1
    /\ outcome' = "none"
    /\ UNCHANGED <<credsUrl, service>>

TokenFails ==
    /\ Answered("token")
    /\ status # 200
    /\ End("skipped")
    /\ UNCHANGED <<credsUrl, service>>

\* The token was issued some time during the last attempt.
GetToken ==
    /\ Answered("token")
    /\ status = 200
    /\ token' \in {0, TotalTimeout}
    /\ Ask(AfterToken)
    /\ UNCHANGED <<credsUrl, service, outcome>>

ProfileFails ==
    /\ Answered("profile")
    /\ status # 200
    /\ End("skipped")
    /\ UNCHANGED <<credsUrl, service>>

\* The name of the profile is what the answer says, and kept for good.
GetProfile ==
    /\ Answered("profile")
    /\ status = 200
    /\ credsUrl' = profile
    /\ Ask("credentials")
    /\ UNCHANGED <<token, service, outcome>>

CredentialsFail ==
    /\ Answered("credentials")
    /\ status # 200
    /\ End("refreshError")
    /\ UNCHANGED <<credsUrl, service>>

GetCredentials ==
    /\ Answered("credentials")
    /\ status = 200
    /\ \E document \in Documents : End(StatsOf(document))
    /\ UNCHANGED <<credsUrl, service>>

Collect == StartCollect \/ Transfer \/ TokenFails \/ GetToken \/ ProfileFails
           \/ GetProfile \/ CredentialsFail \/ GetCredentials

AwsNext == Outage \/ ChangeProfile \/ Collect

AwsSpec == AwsInit /\ [][AwsNext]_awsVars

\* The loop collects every minute, and a transfer ends with an answer or with
\* its timeouts.
FairAwsSpec == AwsSpec /\ WF_awsVars(Collect)

-----------------------------------------------------------------------------
\* Every variable has its type, and a request is sent with what it needs.
AwsTypeOK ==
    /\ TypeOK
    /\ stage \in {"idle", "token", "profile", "credentials"}
    /\ token \in -1 .. TokenTtl
    /\ stage = "token" => token = -1
    /\ stage \in {"profile", "credentials"} => token # -1
    /\ credsUrl \in Profiles \cup {""}
    /\ stage = "credentials" => credsUrl # ""
    /\ profile \in Profiles
    /\ serving \in BOOLEAN
    /\ changes \in 0 .. MaxChanges
    /\ outcome \in Outcomes

(***************************************************************************)
(* The token of a collect is good until its last request is answered,      *)
(* however slow the requests are and however often they are tried again,   *)
(* read timeouts that a clock set back has them repeat included            *)
(* (http_client.cpp:217-223): whatever attempt is under way, the token     *)
(* outlives it.                                                            *)
(***************************************************************************)
TokenOutlivesCollect ==
    stage \in {"profile", "credentials"} /\ pc = "attempt" =>
        token + TotalTimeout <= TokenTtl

(***************************************************************************)
(* The collector recovers from every outage: when the metadata service     *)
(* stays up, collects get to the credentials again and again, and none is  *)
(* skipped or refused any more, unless the profile has changed since its   *)
(* name was learned: creds_url_ is never asked for again.                  *)
(***************************************************************************)
RecoversFromOutages ==
    <>[](serving /\ credsUrl \in {"", profile}) =>
        /\ []<>Answered("credentials")
        /\ <>[](Answered("credentials") => status = 200)
        /\ <>[](outcome # "skipped")
=============================================================================

--------------------------------- MODULE Ntp ---------------------------------
(***************************************************************************)
(* Ntp, from chrony: once a minute the agent runs "chronyc tracking", for  *)
(* the server that chrony follows, and then "chronyc sources", for the     *)
(* time since each server's last sample.  Samples arrive and the server    *)
(* changes all the while; either command may say nothing, or something     *)
(* else.  The agent reckons with the wall clock, which chrony steps.       *)
(***************************************************************************)
EXTENDS Integers

CONSTANTS Servers,
          Offsets,      \* how far the wall clock may be from the time
          MaxNtpTime,   \* bound: ticks
          MaxLag        \* ticks at most from an answer of "chronyc sources" to
                        \* its use, of a timeout of a second

ASSUME NtpAssumption ==
    /\ Offsets \subseteq Int
    /\ MaxNtpTime \in Nat \ {0} /\ MaxLag \in Nat

VARIABLES ntpTime,
          wallOffset,     \* of the wall clock
          sampled,        \* when the last sample of each server arrived
          current,        \* the server chrony follows, or NoServer
          command,        \* "none", "tracking", "sources", "parsed", or "ended"
          currentServer,  \* current_server, as chrony_stats finds it
          lastRx,         \* the lines of sources: the age of each one's sample
          answered,       \* when sources answered, and the samples then, history
          lastSampleTime, \* lastSampleTime_
          basis,          \* the sample it was found from, a history variable
          lastSampleAge   \* the gauge, in this gather

ntpVars == <<ntpTime, wallOffset, sampled, current, command, currentServer, lastRx, answered,
             lastSampleTime, basis, lastSampleAge>>

NoServer == "none"
Never == -1
Text == -1      \* in a line, for what stoll does not take at all, ...
TooLong == -2   \* ... and for a number out of its range
NoAge == [set |-> FALSE]
NoLines == [s \in {} |-> 0]
Start == 1      \* of the agent

\* Clock::now().
WallClock == ntpTime + wallOffset

NtpInit ==
    /\ ntpTime = Start
    /\ wallOffset \in Offsets
    /\ sampled \in [Servers -> {Never, 0}]
    /\ current = NoServer
    /\ command = "none"
    /\ currentServer = NoServer
    /\ lastRx = NoLines
    /\ answered = [at |-> 0, sampled |-> sampled]
    /\ lastSampleTime = WallClock
    /\ basis = [at |-> ntpTime, offset |-> wallOffset]
    /\ lastSampleAge = NoAge

-----------------------------------------------------------------------------
(* Time and chrony. *)

ntpAgent == <<command, currentServer, lastRx, answered, lastSampleTime, basis, lastSampleAge>>

NtpTick ==
    /\ ntpTime < MaxNtpTime
    /\ command \in {"sources", "parsed"} => ntpTime < answered.at + MaxLag
    /\ ntpTime' = ntpTime + 1
    /\ UNCHANGED <<wallOffset, sampled, current, ntpAgent>>

StepClock ==
    /\ wallOffset' \in Offsets \ {wallOffset}
    /\ UNCHANGED <<ntpTime, sampled, current, ntpAgent>>

NtpSample(s) ==
    /\ sampled' = [sampled EXCEPT ![s] = ntpTime]
    /\ UNCHANGED <<ntpTime, wallOffset, current, ntpAgent>>

Follow(s) ==
    /\ s # NoServer => sampled[s] # Never
    /\ current' = s
    /\ UNCHANGED <<ntpTime, wallOffset, sampled, ntpAgent>>

-----------------------------------------------------------------------------
(* collect, while chronyc can be executed. *)

chrony == <<ntpTime, wallOffset, sampled, current>>

\* Without two fields there is no current server.
Tracking ==
    /\ command = "none"
    /\ command' = "tracking"
    /\ currentServer' \in {current, NoServer}
    /\ lastSampleAge' = NoAge
    /\ UNCHANGED <<chrony, lastRx, answered, lastSampleTime, basis>>

\* A line for each server, with the age of the sample it has had; or none.
Sources ==
    /\ command = "tracking"
    /\ command' = "sources"
    /\ answered' = [at |-> ntpTime, sampled |-> sampled]
    /\ LET heard == {s \in Servers : sampled[s] # Never}
           ages == [s \in heard |-> ntpTime - sampled[s]]
       IN  lastRx' \in {ages, NoLines} \cup {[s \in heard |-> odd] : odd \in {Text, TooLong}}
    /\ UNCHANGED <<chrony, currentServer, lastSampleTime, basis, lastSampleAge>>

\* What the line of the current server says, when there is one.
Says(kinds) == currentServer \in DOMAIN lastRx /\ lastRx[currentServer] \in kinds

\* lastSampleTime_ after the loop of chrony_stats over the lines.
ParsedAnyServer ==
    IF \E s \in DOMAIN lastRx : lastRx[s] \in Nat
    THEN WallClock - lastRx[CHOOSE s \in DOMAIN lastRx : lastRx[s] \in Nat] ELSE lastSampleTime
Parsed == IF Says(Nat) THEN WallClock - lastRx[currentServer] ELSE lastSampleTime

\* The loop, which catches what Text makes stoll throw.
ParseSources ==
    /\ command = "sources"
    /\ ~Says({TooLong})
    /\ command' = "parsed"
    /\ lastSampleTime' = Parsed
    /\ basis' = IF Says(Nat)
                THEN [at |-> answered.sampled[currentServer], offset |-> wallOffset] ELSE basis
    /\ currentServer' = NoServer
    /\ lastRx' = NoLines
    /\ UNCHANGED <<chrony, answered, lastSampleAge>>

\* std::out_of_range is not caught and chrony_stats is noexcept: the agent ends.
OutOfRange ==
    /\ command = "sources"
    /\ Says({TooLong})
    /\ command' = "ended"
    /\ UNCHANGED <<chrony, currentServer, lastRx, answered, lastSampleTime, basis, lastSampleAge>>

\* The end of chrony_stats.
SetSampleAge ==
    /\ command = "parsed"
    /\ command' = "none"
    /\ lastSampleAge' = [set |-> TRUE, age |-> WallClock - lastSampleTime,
                         at |-> ntpTime, offset |-> wallOffset]
    /\ UNCHANGED <<chrony, currentServer, lastRx, answered, lastSampleTime, basis>>

\* The agent is started again, after an end of any kind.
RestartNtp ==
    /\ command' = "none"
    /\ currentServer' = NoServer
    /\ lastRx' = NoLines
    /\ lastSampleTime' = WallClock
    /\ basis' = [at |-> ntpTime, offset |-> wallOffset]
    /\ lastSampleAge' = NoAge
    /\ UNCHANGED <<chrony, answered>>

NtpNext ==
    \/ NtpTick \/ StepClock
    \/ \E s \in Servers : NtpSample(s)
    \/ \E s \in Servers \cup {NoServer} : Follow(s)
    \/ Tracking \/ Sources \/ ParseSources \/ OutOfRange \/ SetSampleAge \/ RestartNtp

NtpSpec == NtpInit /\ [][NtpNext]_ntpVars

-----------------------------------------------------------------------------
NtpTypeOK ==
    /\ {ntpTime, answered.at, basis.at} \subseteq 0 .. MaxNtpTime
    /\ {wallOffset, basis.offset} \subseteq Offsets
    /\ {sampled, answered.sampled} \subseteq [Servers -> {Never} \cup 0 .. MaxNtpTime]
    /\ {current, currentServer} \subseteq Servers \cup {NoServer}
    /\ command \in {"none", "tracking", "sources", "parsed", "ended"}
    /\ DOMAIN lastRx \subseteq Servers
    /\ lastSampleTime \in Int

(***************************************************************************)
(* ntp.cpp:54-84, "sys.time.lastSampleAge": what is published is the age   *)
(* of the sample that the server tracking named had when sources answered, *)
(* or, for want of such an answer, of the last one that was found so, or   *)
(* of the agent: less the time the answer took to be used, and plus what   *)
(* the wall clock was stepped by since.  It stays so whichever command     *)
(* fails, whatever a line says in place of a number, whenever the server   *)
(* changes, and whenever the agent ends.                                   *)
(***************************************************************************)
AgeHonest ==
    lastSampleAge.set =>
       LET age == lastSampleAge.at - basis.at
           stepped == lastSampleAge.offset - basis.offset
       IN  lastSampleAge.age - stepped \in age - MaxLag .. age
=============================================================================

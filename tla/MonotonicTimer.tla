--------------------------- MODULE MonotonicTimer ---------------------------
(***************************************************************************)
(* MonotonicTimer: the requests of a device and the time spent on them, as *)
(* two counters of the kernel that are read one after the other and        *)
(* published as what they grew by.  The device may be replaced by one of   *)
(* the same name, whose counters start from 0, and which then has the      *)
(* timer of the first (disk.cpp:265-284).                                  *)
(***************************************************************************)
EXTENDS Integers

CONSTANTS MaxRequests,  \* bound: requests of one device, and time spent on them
          MaxReplaced   \* bound: devices after the first

ASSUME TimerAssumption == {MaxRequests, MaxReplaced} \subseteq Nat

VARIABLES device,       \* the kernel's counters
          replaced,     \* devices after the first, a history variable
          created,      \* whether there is a timer
          prev,         \* prev_count and prev_time
          unpublished   \* since the timer was created, a history variable

timerVars == <<device, replaced, created, prev, unpublished>>

Plus(r, c, t) == [count |-> r.count + c, time |-> r.time + t]
NoRequests == [count |-> 0, time |-> 0]

\* The agent starts when the device has been in use, or not.
TimerInit ==
    /\ device \in [count : 0 .. MaxRequests, time : 0 .. MaxRequests]
    /\ replaced = 0
    /\ created = FALSE
    /\ prev = NoRequests
    /\ unpublished = NoRequests

\* Requests complete; their time may be visible before or after their count.
Complete ==
    /\ \E c \in 0 .. MaxRequests - device.count, t \in 0 .. MaxRequests - device.time :
          /\ device' = Plus(device, c, t)
          /\ unpublished' = IF created THEN Plus(unpublished, c, t) ELSE unpublished
    /\ UNCHANGED <<replaced, created, prev>>

Replace ==
    /\ replaced < MaxReplaced
    /\ replaced' = replaced + 1
    /\ device' = NoRequests
    /\ UNCHANGED <<created, prev, unpublished>>

\* What an update adds to the two counters.
AddedEvenFirst ==
    IF device.count > prev.count /\ device.time >= prev.time
    THEN Plus(device, -prev.count, -prev.time) ELSE NoRequests
Added ==
    IF prev.count > 0 /\ device.count > prev.count /\ device.time >= prev.time
    THEN Plus(device, -prev.count, -prev.time) ELSE NoRequests

\* diskio_stats, of one device and direction: the timer is made if there is none.
Update ==
    /\ created' = TRUE
    /\ prev' = device
    /\ unpublished' = Plus(unpublished, -Added.count, -Added.time)
    /\ UNCHANGED <<device, replaced>>

TimerNext == Complete \/ Replace \/ Update

TimerSpec == TimerInit /\ [][TimerNext]_timerVars

-----------------------------------------------------------------------------
TimerTypeOK ==
    /\ {device, prev} \subseteq [count : Nat, time : Nat]
    /\ replaced \in Nat
    /\ created \in BOOLEAN
    /\ unpublished \in [count : Int, time : Int]

(***************************************************************************)
(* monotonic_timer.cpp:15-30: a timer never publishes a request, or time,  *)
(* that did not happen since it was created: not what the device counted   *)
(* before, not when a device is replaced by one whose counters are lower   *)
(* or higher, and not when a count and its time are read apart.            *)
(***************************************************************************)
TimersNeverInvent == unpublished.count >= 0 /\ unpublished.time >= 0
=============================================================================

------------------------------ MODULE RateLimit ------------------------------
(***************************************************************************)
(* The limit on connections per source address: a fixed window with a      *)
(* counter, opened by the first connection that finds none or an old one.  *)
(* Windows that are over are dropped only when the table has grown large.  *)
(* One loop accepts connections, so calls of `allow` come one by one.      *)
(***************************************************************************)
EXTENDS Naturals, FiniteSets

CONSTANTS
  Sources,   \* source addresses
  Limits,    \* limits an agent may be configured with; 0 for none
  Window,    \* length of a window
  SweepOver, \* size of the table above which old windows are dropped
  MaxClock   \* bound: moments

ASSUME RateOK ==
  /\ Limits \subseteq Nat /\ Window \in Nat \ {0} /\ SweepOver \in Nat /\ MaxClock \in Nat

VARIABLES
  limit,    \* connections per window
  clock,
  window,   \* per source with an entry: when its window began, and its counter
  let       \* history: per source, how many connections were let in at each moment

rateVars == <<limit, clock, window, let>>

Clock == 0..MaxClock
Active(w) == clock - w.since < Window

\* Mutant: the table is emptied.
SweptBare == <<>>

Swept == [s \in {s \in DOMAIN window : Active(window[s])} |-> window[s]]

\* Mutant: a window that has run out is left open.
OpenedStale(table, s) ==
  IF s \in DOMAIN table /\ table[s].since + Window >= clock THEN table[s] ELSE [since |-> clock, count |-> 0]

\* Mutant: the end of a new window is kept instead of its beginning.
OpenedEnd(table, s) ==
  IF s \in DOMAIN table /\ Active(table[s]) THEN table[s] ELSE [since |-> clock + Window, count |-> 0]

\* The window a connection counts in: the one that is there, or a new one.
Opened(table, s) ==
  IF s \in DOMAIN table /\ Active(table[s]) THEN table[s] ELSE [since |-> clock, count |-> 0]

LetsIn(w) == w.count + 1 <= limit

Allow(s) ==
  /\ limit # 0
  /\ LET table == IF Cardinality(DOMAIN window) > SweepOver THEN Swept ELSE window
         w == Opened(table, s)
     IN /\ window' = [t \in DOMAIN table \cup {s} |->
                        IF t = s THEN [w EXCEPT !.count = @ + 1] ELSE table[t]]
        /\ w.count <= limit  \* bound: one refusal per window, more are alike
        /\ let' = IF LetsIn(w) THEN [let EXCEPT ![s][clock] = @ + 1] ELSE let
  /\ UNCHANGED <<limit, clock>>

AllowUnlimited(s) ==
  /\ limit = 0 /\ let[s][clock] < 1 \* bound: connections per moment without a limit
  /\ let' = [let EXCEPT ![s][clock] = @ + 1]
  /\ UNCHANGED <<limit, clock, window>>

TimePasses ==
  /\ clock < MaxClock /\ clock' = clock + 1
  /\ UNCHANGED <<limit, window, let>>

RateInit == limit \in Limits /\ clock = 0 /\ window = <<>> /\ let = [s \in Sources |-> [t \in Clock |-> 0]]
RateNext == TimePasses \/ \E s \in Sources : Allow(s) \/ AllowUnlimited(s)
RateSpec == RateInit /\ [][RateNext]_rateVars

-----------------------------------------------------------------------------
\* Properties

\* How many of the connections h were let in before the moment n.
LetInBefore(h, n) ==
  LET sum[m \in 0..MaxClock + 1] == IF m = 0 THEN 0 ELSE sum[m - 1] + h[m - 1] IN sum[n]

LetInDuring(s, from, to) == LetInBefore(let[s], to + 1) - LetInBefore(let[s], from)

\* "At most max per window": around the end of a window a source gets at most
\* twice the limit in the time of one window, whatever entries the table drops in
\* between (RateLimiter::allow).
AtMostTwice ==
  limit # 0 =>
    \A s \in Sources, from \in Clock : \A to \in from..MaxClock :
      to < from + Window => LetInDuring(s, from, to) <= 2 * limit

\* A source is turned away only when its limit was let in during the time of one
\* window up to now: nobody else's connections, and no old window, count.
RefusedOnlyOver ==
  [][\A s \in DOMAIN window' :
       (s \in DOMAIN window => window'[s] # window[s]) /\ let' = let =>
         \E t \in 0..clock : t + Window > clock /\ LetInDuring(s, t, clock) >= limit]_rateVars

\* The limit holds up to a factor of two, and shuts nobody out who is under it.
LimitKept == []AtMostTwice /\ RefusedOnlyOver
==============================================================================

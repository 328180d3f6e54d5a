------------------------------- MODULE Egress --------------------------------
(***************************************************************************)
(* The host's public addresses, asked of several services at once over v4  *)
(* and over v6.  Each family has Timeout from the start; once one family   *)
(* has an address, the other has Grace more.  A lookup, a connection and a *)
(* reading of one service are one step: a usable address of the family, or *)
(* a failure, at any time or never.                                        *)
(***************************************************************************)
EXTENDS Naturals

CONSTANTS
  Services,  \* SOURCES
  Addresses, \* usable addresses services may report
  Nothing,   \* no address
  Timeout,   \* TIMEOUT, in ticks
  Grace      \* GRACE

ASSUME EgressOK ==
  /\ Nothing \notin Addresses /\ "racing" \notin Addresses \cup {Nothing}
  /\ Timeout \in Nat \ {0} /\ Grace \in Nat \ {0}

Families == {"v4", "v6"}
Other(f) == IF f = "v4" THEN "v6" ELSE "v4"

VARIABLES
  ticks,     \* time since the question
  service,   \* per family and service: "asked", "failed" or "answered"
  family,    \* per family: "racing", or its result
  hitAt,     \* when the first family was done, if it had an address
  probed     \* the answer was given

egressVars == <<ticks, service, family, hitAt, probed>>

Done(f) == family[f] # "racing"
Hit(f) == family[f] \in Addresses
NoHit == Timeout + 1

\* Mutant: the grace starts when the first family is done, address or not.
GraceOnDone(f) == Done(Other(f)) /\ ticks >= Grace

\* The other family was first, with an address, and the grace is over.
GraceOver(f) == hitAt # NoHit /\ Hit(Other(f)) /\ ticks >= hitAt + Grace

\* Mutant: the services are waited for without a limit.
EndsByGrace(f) == GraceOver(f)

FamilyOver(f) == ticks >= Timeout \/ GraceOver(f)

\* The first address of a family is its result; a service after it is not heard.
ServiceAnswers(f, s) ==
  /\ ~probed /\ ~Done(f) /\ service[f][s] = "asked"
  /\ \E a \in Addresses : family' = [family EXCEPT ![f] = a]
  /\ service' = [service EXCEPT ![f][s] = "answered"]
  /\ hitAt' = IF Done(Other(f)) THEN hitAt ELSE ticks
  /\ UNCHANGED <<ticks, probed>>

\* A family in which all have failed has no address.
ServiceFails(f, s) ==
  /\ ~probed /\ ~Done(f) /\ service[f][s] = "asked"
  /\ service' = [service EXCEPT ![f][s] = "failed"]
  /\ family' = IF \A t \in Services : service'[f][t] = "failed"
               THEN [family EXCEPT ![f] = Nothing] ELSE family
  /\ UNCHANGED <<ticks, hitAt, probed>>

\* The time of the family, or the grace, is over.
FamilyEnds(f) ==
  /\ ~probed /\ ~Done(f) /\ FamilyOver(f)
  /\ family' = [family EXCEPT ![f] = Nothing]
  /\ UNCHANGED <<ticks, service, hitAt, probed>>

Report ==
  /\ ~probed /\ (\A f \in Families : Done(f)) /\ probed' = TRUE
  /\ UNCHANGED <<ticks, service, family, hitAt>>

\* What is due is done before time goes on.
Tick ==
  /\ ~probed /\ ~(\A f \in Families : Done(f))
  /\ \A f \in Families : ~Done(f) => ~FamilyOver(f)
  /\ ticks' = ticks + 1
  /\ UNCHANGED <<service, family, hitAt, probed>>

EgressInit ==
  /\ ticks = 0 /\ service = [f \in Families |-> [s \in Services |-> "asked"]]
  /\ family = [f \in Families |-> "racing"] /\ hitAt = NoHit /\ probed = FALSE

EgressNext ==
  \/ \E f \in Families : FamilyEnds(f) \/ \E s \in Services : ServiceAnswers(f, s) \/ ServiceFails(f, s)
  \/ Report \/ Tick

EgressSpec == EgressInit /\ [][EgressNext]_egressVars

-----------------------------------------------------------------------------
\* Properties

\* A question is answered within Timeout, also when every service of both
\* families hangs.
EgressInTime == ticks <= Timeout

\* A family is reported without an address only if all its services failed, its
\* Timeout is over, or the other family had an address and left it its Grace: a
\* family that fails early does not cut the other short (late).
NotCutShort ==
  \A f \in Families :
    family[f] = Nothing =>
      \/ \A s \in Services : service[f][s] = "failed"
      \/ ticks >= Timeout
      \/ Hit(Other(f)) /\ ticks >= hitAt + Grace

\* A lookup is over in time and gives each family the time it has.
LookupSound == EgressInTime /\ NotCutShort
==============================================================================

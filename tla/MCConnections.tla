---------------------------- MODULE MCConnections ----------------------------
\* What a connection meets on its way in.  The parts share no state, so they are
\* checked side by side: a behaviour is one of a single part, the others rest.
EXTENDS Sessions, NoiseFraming, RateLimit, SshPeer, Egress

VARIABLE part

all == <<part, vars, noiseVars, rateVars, peerVars, egressVars>>

Parts == {"sessions", "framing", "rate", "peer", "egress"}

\* At rest a part has one initial state: no client, no limit, one place to come from.
Rests ==
  /\ part # "framing" => client = [knows |-> FALSE, reads |-> FALSE, odd |-> FALSE]
  /\ part # "rate" => limit = 0
  /\ part # "peer" => \A s \in sockets : s.table = "tcp" /\ s.port = "other" /\ s.remote = Home

AllInit == part \in Parts /\ Init /\ NoiseInit /\ RateInit /\ PeerInit /\ EgressInit /\ Rests

AllNext ==
  /\ part' = part
  /\ \/ part = "sessions" /\ Next /\ UNCHANGED <<noiseVars, rateVars, peerVars, egressVars>>
     \/ part = "framing" /\ NoiseNext /\ UNCHANGED <<vars, rateVars, peerVars, egressVars>>
     \/ part = "rate" /\ RateNext /\ UNCHANGED <<vars, noiseVars, peerVars, egressVars>>
     \/ part = "peer" /\ PeerNext /\ UNCHANGED <<vars, noiseVars, rateVars, egressVars>>
     \/ part = "egress" /\ EgressNext /\ UNCHANGED <<vars, noiseVars, rateVars, peerVars>>

\* Nothing of Sessions' fairness is enabled where it rests; the time limits of a
\* resting connection are not to fire.
AllFairness ==
  /\ Fairness
  /\ WF_noiseVars(part = "framing" /\ HandshakeTimesOut) /\ WF_noiseVars(part = "framing" /\ IdleTimesOut)
  /\ WF_noiseVars(Recv) /\ WF_noiseVars(SendFrame) /\ WF_noiseVars(ClientReads)

AllSpec == AllInit /\ [][AllNext]_all /\ AllFairness
==============================================================================

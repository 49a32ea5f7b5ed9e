---------------------------- MODULE MCSshSession ----------------------------
(* Instances of SshSession for TLC. *)
EXTENDS SshSession, TLC

CONSTANTS s1, s2, s3, bastion, target, k1, k2

\* One session through a bastion.
BastionRoute == (s1 :> <<bastion, target>>)

\* One session without a bastion.
DirectRoute == (s1 :> <<target>>)

\* Three sessions to the same host.
SharedRoutes == [s \in {s1, s2, s3} |-> <<target>>]

NothingKnown == {}
OneSlot == [ch \in Channels |-> 1]

(* The behaviours of Spec in which nothing but host keys is at stake: no     *)
(* close, no failing connection, no typed input, no tunnel.                  *)
VerifyNext ==
  \E s \in Sessions :
    \/ Connect(s)
    \/ Prepare(s)
    \/ HandshakeStep(s)
    \/ SetupTimeout(s)
    \/ TakeHostAnswer(s)
    \/ AuthSucceeds(s)
    \/ AuthRefused(s)
    \/ EndStep(s)
    \/ \E r \in DOMAIN asked, d \in {"reject", "trust_once", "trust_and_save"} :
         AnswerHostKey(s, r, d)

VerifySpec == Init /\ [][VerifyNext]_vars

SessionSymmetry == Permutations({s1, s2, s3})
=============================================================================

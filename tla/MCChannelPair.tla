---------------------------- MODULE MCChannelPair ----------------------------
(***************************************************************************)
(* ChannelPair on small instances; the configurations select the features. *)
(***************************************************************************)
EXTENDS ChannelPair, TLC

CONSTANTS s1, s2

BothHaveFive == [n \in Node |-> 5]

\* B has nothing in the channel.
OnlyAHasFive == [n \in Node |-> IF n = "A" THEN 5 ELSE 0]

APays == [s \in Secrets |-> "A"]

BPays == [s \in Secrets |-> "B"]

OnePaysTheOther == [s \in Secrets |-> IF s = s1 THEN "A" ELSE "B"]

NoTimeout == {{}}

\* The default timeout, or the shortest a reveal timeout of 1 allows.
AnyTimeout == {{}, {2}}

=============================================================================

--------------------------- MODULE OrderedStream ----------------------------
(***************************************************************************)
(* What a pair of bridges promises to the two games: each direction        *)
(* delivers chunks in the order in which they were sent, each at most      *)
(* once.  Chunks may be lost.                                              *)
(***************************************************************************)
EXTENDS Integers, Sequences

VARIABLES
  sent,  \* sent[e]: how many chunks e has sent
  got    \* got[e]: the chunks that e has received

Ends == {"host", "join"}
Peer(e) == IF e = "host" THEN "join" ELSE "host"

Increasing(s) == \A i, j \in 1..Len(s) : i < j => s[i] < s[j]

Init ==
  /\ sent = [e \in Ends |-> 0]
  /\ got = [e \in Ends |-> <<>>]

Send(e) ==
  /\ sent' = [sent EXCEPT ![e] = @ + 1]
  /\ UNCHANGED got

\* e receives some of the chunks that were sent after the last one it has.
Deliver(e) ==
  /\ UNCHANGED sent
  /\ got' = [got EXCEPT ![e] = got'[e]]
  /\ Len(got[e]) <= Len(got'[e])
  /\ \A i \in 1..Len(got[e]) : got'[e][i] = got[e][i]
  /\ Increasing(got'[e])
  /\ \A i \in 1..Len(got'[e]) : got'[e][i] \in 1..sent[Peer(e)]

Next == \E e \in Ends : Send(e) \/ Deliver(e)

Spec == Init /\ [][Next]_<<sent, got>>
=============================================================================

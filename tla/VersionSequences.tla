--------------------------- MODULE VersionSequences ---------------------------
(***************************************************************************)
(* Lemmas about the sequences of versions in the models of the             *)
(* reconcilers: the cache shows the first version, the last one is the     *)
(* latest.                                                                 *)
(***************************************************************************)
EXTENDS SequenceTheorems, TLAPS

\* The tail of a sequence of several elements ends like the sequence.
LEMMA TailKeepsLast ==
    ASSUME NEW S, NEW q \in Seq(S), q # <<>>, Len(q) # 1
    PROVE  Tail(q) \in Seq(S) /\ Tail(q) # <<>> /\ Tail(q)[Len(Tail(q))] = q[Len(q)]
<1>1. Len(q) \in Nat /\ Len(q) > 1
  <2>1. Len(q) \in Nat /\ Len(q) # 0
    BY EmptySeq
  <2>2. \A k \in Nat : k # 0 /\ k # 1 => k > 1
    OBVIOUS
  <2> QED
    BY <2>1, <2>2, Zenon
<1>2. /\ Tail(q) \in Seq(S) /\ Len(Tail(q)) = Len(q) - 1
      /\ \A i \in 1..Len(Tail(q)) : Tail(q)[i] = q[i + 1]
  BY HeadTailProperties
<1>3. Len(Tail(q)) \in 1..Len(Tail(q)) /\ Len(Tail(q)) + 1 = Len(q)
  BY <1>1, <1>2
<1> QED
  BY <1>1, <1>2, <1>3, EmptySeq

\* A new version comes last and leaves the first one where it is.
LEMMA AppendIsLast ==
    ASSUME NEW S, NEW q \in Seq(S), q # <<>>, NEW v \in S
    PROVE  /\ Append(q, v) \in Seq(S) /\ Append(q, v) # <<>>
           /\ Head(Append(q, v)) = Head(q)
           /\ Append(q, v)[Len(Append(q, v))] = v
OBVIOUS
=============================================================================

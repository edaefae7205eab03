----------------------------- MODULE ListLemmas -----------------------------
(* Facts about short sequences that the proofs of the servers share.       *)
EXTENDS Naturals, Sequences, SequenceTheorems, TLAPS

\* A one-element list grows to two.
LEMMA AppendSecond ==
  ASSUME NEW S, NEW u \in S, NEW v \in S
  PROVE  Append(<<u>>, v) = <<u, v>>
PROOF
  <1> DEFINE s == Append(<<u>>, v)
             t == <<u, v>>
  <1>1. s \in Seq(S) /\ t \in Seq(S)
    OBVIOUS
  <1>2. Len(s) = 2 /\ s[1] = u /\ s[2] = v
    BY <1>1
  <1>3. Len(t) = 2 /\ t[1] = u /\ t[2] = v
    OBVIOUS
  <1> HIDE DEF s, t
  <1>4. \A i \in 1 .. Len(s) : s[i] = t[i]
    <2>1. \A i \in 1 .. 2 : i = 1 \/ i = 2
      OBVIOUS
    <2>2. QED
      BY <1>2, <1>3, <2>1
  <1>5. s = t
    BY <1>1, <1>2, <1>3, <1>4, SeqEqual
  <1>6. QED
    BY <1>5 DEF s, t

\* Two players in two lists, in any split.
LEMMA ConcatPair ==
  ASSUME NEW S, NEW u \in S, NEW v \in S
  PROVE  /\ << >> \o <<u, v>> = <<u, v>>
         /\ <<u>> \o <<v>> = <<u, v>>
         /\ <<u, v>> \o << >> = <<u, v>>
PROOF
  <1>1. <<u>> \in Seq(S) /\ <<u, v>> \in Seq(S)
    OBVIOUS
  <1>2. <<u>> \o <<v>> = Append(<<u>>, v)
    BY <1>1, AppendIsConcat
  <1>3. QED
    BY <1>1, <1>2, AppendSecond, ConcatEmptySeq
=============================================================================

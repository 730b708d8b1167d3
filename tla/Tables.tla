---------------------------------- MODULE Tables ----------------------------------
(***************************************************************************)
(* Tables: sequences of rows of which nothing is known but their number.   *)
(***************************************************************************)
EXTENDS Integers, SequenceTheorems, TLAPS

Rows(s) == s \in Seq({s[i] : i \in DOMAIN s})

\* Appending a row keeps the others where they are.
LEMMA AppendRow ==
  ASSUME NEW s, Rows(s), NEW x
  PROVE  /\ Rows(Append(s, x))
         /\ Len(s) \in Nat /\ DOMAIN s = 1..Len(s)
         /\ Len(Append(s, x)) = Len(s) + 1 /\ DOMAIN Append(s, x) = 1..(Len(s) + 1)
         /\ \A i \in DOMAIN s : Append(s, x)[i] = s[i]
         /\ Append(s, x)[Len(s) + 1] = x
  <1> DEFINE T == {s[i] : i \in DOMAIN s} \cup {x}
  <1>1. Len(s) \in Nat /\ DOMAIN s = 1..Len(s)
    BY DEF Rows
  <1>2. s \in Seq(T)
    BY SeqMonotonic DEF Rows
  <1>3. x \in T
    OBVIOUS
  <1> HIDE DEF T
  <1>4. /\ Append(s, x) \in Seq(T)
        /\ Len(Append(s, x)) = Len(s) + 1 /\ DOMAIN Append(s, x) = 1..(Len(s) + 1)
        /\ \A i \in DOMAIN s : Append(s, x)[i] = s[i]
        /\ Append(s, x)[Len(s) + 1] = x
    BY <1>1, <1>2, <1>3
  <1>5. Rows(Append(s, x))
    <2> DEFINE t == Append(s, x)
               U == {t[j] : j \in DOMAIN t}
    <2>1. t \in Seq(T) /\ Len(t) \in Nat /\ DOMAIN t = 1..Len(t)
      BY <1>1, <1>4
    <2>2. \A i \in 1..Len(t) : t[i] \in U
      BY <2>1
    <2> HIDE DEF t, U
    <2>3. t \in [1..Len(t) -> U]
      BY <2>1, <2>2
    <2>4. t \in Seq(U)
      BY <2>1, <2>3
    <2>5. QED
      BY <2>4 DEF Rows, t, U
  <1>6. QED
    BY <1>1, <1>4, <1>5

\* Writing a row keeps the number of rows and the other ones.
LEMMA UpdateRow ==
  ASSUME NEW s, Rows(s), NEW i \in DOMAIN s, NEW x
  PROVE  /\ Rows([s EXCEPT ![i] = x])
         /\ Len([s EXCEPT ![i] = x]) = Len(s) /\ DOMAIN [s EXCEPT ![i] = x] = DOMAIN s
         /\ \A j \in DOMAIN s : [s EXCEPT ![i] = x][j] = IF j = i THEN x ELSE s[j]
  <1> DEFINE t == [s EXCEPT ![i] = x]
             T == {t[j] : j \in DOMAIN t}
  <1>1. Len(s) \in Nat /\ DOMAIN s = 1..Len(s) /\ s = [j \in 1..Len(s) |-> s[j]]
    BY DEF Rows
  <1>2. DOMAIN t = DOMAIN s /\ \A j \in DOMAIN s : t[j] = IF j = i THEN x ELSE s[j]
    BY <1>1
  <1>3. t = [j \in 1..Len(s) |-> t[j]]
    BY <1>1
  <1> HIDE DEF t
  <1>4. \A j \in 1..Len(s) : t[j] \in T
    BY <1>1, <1>2
  <1> HIDE DEF T
  <1>5. t \in [1..Len(s) -> T]
    BY <1>3, <1>4
  <1>6. t \in Seq(T) /\ Len(t) = Len(s)
    BY <1>1, <1>5
  <1>7. QED
    BY <1>2, <1>6 DEF Rows, t, T

\* A table made row by row from another.
LEMMA MapRows ==
  ASSUME NEW s, Len(s) \in Nat, DOMAIN s = 1..Len(s), NEW t, t = [n \in DOMAIN s |-> t[n]]
  PROVE  Rows(t) /\ DOMAIN t = DOMAIN s /\ Len(t) = Len(s)
  <1>1. Len(s) \in Nat /\ DOMAIN s = 1..Len(s)
    OBVIOUS
  <1> DEFINE U == {t[i] : i \in DOMAIN t}
  <1>2. t \in [1..Len(s) -> U]
    BY <1>1
  <1> HIDE DEF U
  <1>3. t \in Seq(U) /\ Len(t) = Len(s)
    BY <1>1, <1>2
  <1>4. QED
    BY <1>1, <1>2, <1>3 DEF Rows, U
===================================================================================

------------------------ MODULE ThreadVariablesProofs ------------------------
(***************************************************************************)
(* The unlocked copy of ThreadVariables is right for any set of threads,   *)
(* any first size of the vector and any number of variables.               *)
(*                                                                         *)
(* The reader takes no lock, so the argument is about what it loads: every *)
(* cursor it may have loaded is at most the present one, the vector it     *)
(* loads afterwards has an element for everything below that cursor, and   *)
(* at most one of these, the last, is not stored yet.  That one is a hole  *)
(* until its store; a copy made before has the unbound marker in it, and   *)
(* every other element a thread copies is an initial value.                *)
(***************************************************************************)
EXTENDS ThreadVariables, TLAPS

\* What the allocating thread has stored, and what it has not.
AllocationInv ==
  /\ defined <= cursor /\ cursor <= Len(Current)
  /\ \A t \in Thread : pc[t] = "storing" =>
       /\ index[t] < Len(Current) /\ index[t] < MaxVariables
       /\ cursor = index[t] + (IF "cursor" \in unstored THEN 0 ELSE 1)
       /\ "element" \notin unstored => Current[index[t] + 1] = index[t]

\* What a thread that expands its vector has loaded.
ExpansionInv ==
  \A t \in Thread :
    /\ limit[t] <= cursor
    /\ pc[t] \in {"loaded", "copying"} =>
         Len(tlv[t]) <= index[t] /\ index[t] < limit[t]
    /\ pc[t] = "copying" =>
         source[t] <= Len(vectors) /\ limit[t] <= Len(vectors[source[t]])

\* A TEB that is no root holds nothing.
RootsInv == \A t \in Thread : /\ t \in roots <=> pc[t] # "absent"
                              /\ pc[t] = "absent" => tlv[t] = <<>>

RangeInv == TypeOK /\ AllocationInv /\ ExpansionInv /\ RootsInv

\* The element of the last variable below the cursor, when the cursor has been
\* stored before it.
Hole(i) == unstored = {"element"} /\ i = cursor

\* The shared vector has the initial values below the cursor, except in the hole,
\* and nothing above it but the element of the variable being allocated; a loaded
\* vector is filled as far as it will be copied, unless it is the current one,
\* which has the hole.
SharedInv ==
  /\ unstored # {} => lock \in Thread
  /\ \A i \in 1 .. cursor : Current[i] = IF Hole(i) THEN Unbound ELSE i - 1
  /\ \A i \in cursor + 1 .. Len(Current) :
       Current[i] = Unbound \/ (unstored = {"cursor"} /\ i = cursor + 1)
  /\ \A t \in Thread : pc[t] = "copying" =>
       \A i \in 1 .. limit[t] : IF Hole(i) THEN source[t] = Len(vectors)
                                           ELSE vectors[source[t]][i] = i - 1

\* Only what is present is assigned or was copied early.
OwnInv == /\ \A a \in assigned \cup early : a[2] < Len(tlv[a[1]])
          /\ InitialValuesSeen

ValuesInv == SharedInv /\ OwnInv

-----------------------------------------------------------------------------
(* Vectors.                                                                *)

\* A grown vector has the old elements and room for one more.
LEMMA GrownVector ==
  ASSUME NEW v \in Seq(Value \cup {Unbound})
  PROVE  /\ Grown(v) \in Seq(Value \cup {Unbound})
         /\ Len(Grown(v)) > Len(v)
         /\ \A i \in 1 .. Len(v) : Grown(v)[i] = v[i]
         /\ \A i \in Len(v) + 1 .. Len(Grown(v)) : Grown(v)[i] = Unbound
<1> DEFINE half == (3 * Len(v)) \div 2
           size == IF half >= MinimumSize THEN half ELSE MinimumSize
<1>1. Len(v) \in Nat /\ MinimumSize \in Nat /\ MinimumSize >= 2
  BY VariablesAssumption
<1>2. half \in Nat /\ (Len(v) >= 2 => half > Len(v))
  BY <1>1
<1>3. size \in Nat /\ size > Len(v)
  BY <1>1, <1>2
<1>4. Grown(v) = [i \in 1 .. size |-> IF i <= Len(v) THEN v[i] ELSE Unbound]
  BY DEF Grown
<1> HIDE DEF size
<1>5. \A i \in 1 .. size : (IF i <= Len(v) THEN v[i] ELSE Unbound) \in Value \cup {Unbound}
  BY <1>1, <1>3
<1> QED
  BY <1>1, <1>3, <1>4, <1>5

\* What a step may do to the vectors: a vector that a thread may have loaded keeps
\* its length, and an element changes only to the initial value of its variable.
VectorsKept ==
  /\ vectors' \in Seq(Seq(Value \cup {Unbound})) /\ vectors' # <<>>
  /\ Len(vectors) <= Len(vectors') /\ Len(Current) <= Len(Current')
  /\ \A k \in 1 .. Len(vectors) : Len(vectors'[k]) = Len(vectors[k])
  /\ \A k \in 1 .. Len(vectors) : \A i \in 1 .. Len(vectors[k]) :
       vectors'[k][i] \in {vectors[k][i], i - 1}
  /\ \A i \in 1 .. Len(Current) : Current'[i] \in {Current[i], i - 1}

LEMMA CurrentType == TypeOK => /\ Current \in Seq(Value \cup {Unbound})
                               /\ Len(vectors) \in Nat \ {0}
                               /\ Len(Current) \in Nat
  BY DEF TypeOK, Current

LEMMA Numbers == TypeOK => /\ cursor \in Nat /\ defined \in Nat /\ MaxVariables \in Nat
                           /\ \A t \in Thread : /\ index[t] \in Nat /\ limit[t] \in Nat
                                                /\ source[t] \in Nat \ {0}
                                                /\ Len(tlv[t]) \in Nat
  BY VariablesAssumption DEF TypeOK

LEMMA AllocateVectors ==
  ASSUME RangeInv, NEW t \in Thread, Allocate(t)
  PROVE  /\ VectorsKept /\ cursor < Len(Current')
         /\ \A k \in 1 .. Len(vectors) : vectors'[k] = vectors[k]
         /\ \A i \in 1 .. Len(Current) : Current'[i] = Current[i]
         /\ \A i \in Len(Current) + 1 .. Len(Current') : Current'[i] = Unbound
<1>1. TypeOK /\ AllocationInv /\ cursor \in Nat
  BY Numbers DEF RangeInv
<1>2. CASE cursor + 1 > Len(Current)
  <2>1. vectors' = Append(vectors, Grown(Current))
    BY <1>2 DEF Allocate
  <2>2. /\ Grown(Current) \in Seq(Value \cup {Unbound})
        /\ Len(Grown(Current)) > Len(Current)
        /\ \A i \in 1 .. Len(Current) : Grown(Current)[i] = Current[i]
        /\ \A i \in Len(Current) + 1 .. Len(Grown(Current)) : Grown(Current)[i] = Unbound
    BY <1>1, CurrentType, GrownVector
  <2>3. /\ vectors' \in Seq(Seq(Value \cup {Unbound}))
        /\ Len(vectors') = Len(vectors) + 1
        /\ \A k \in 1 .. Len(vectors) : vectors'[k] = vectors[k]
        /\ vectors'[Len(vectors')] = Grown(Current)
    BY <1>1, <2>1, <2>2 DEF TypeOK
  <2>4. Current' = Grown(Current)
    BY <2>3 DEF Current
  <2>5. vectors' # <<>> /\ Len(vectors) \in Nat /\ Len(Current) \in Nat
    BY <1>1, <2>3, CurrentType
  <2>6. \A k \in 1 .. Len(vectors) : \A i \in 1 .. Len(vectors[k]) :
          vectors'[k][i] \in {vectors[k][i], i - 1}
    BY <2>3
  <2>7. \A i \in 1 .. Len(Current) : Current'[i] \in {Current[i], i - 1}
    BY <2>2, <2>4
  <2>8. Len(Current) <= Len(Current') /\ cursor < Len(Current')
    BY <1>1, <1>2, <2>2, <2>4, <2>5 DEF AllocationInv
  <2>9. VectorsKept
    BY <2>3, <2>5, <2>6, <2>7, <2>8 DEF VectorsKept
  <2> QED
    BY <2>2, <2>3, <2>4, <2>8, <2>9
<1>3. CASE ~(cursor + 1 > Len(Current))
  <2>1. vectors' = vectors /\ Current' = Current
    BY <1>3 DEF Allocate, Current
  <2>2. cursor < Len(Current)
    BY <1>1, <1>3, CurrentType
  <2> QED
    BY <1>1, <2>1, <2>2, CurrentType DEF VectorsKept, TypeOK
<1> QED
  BY <1>2, <1>3

LEMMA StoreVectors ==
  ASSUME RangeInv, NEW t \in Thread, StoreElement(t)
  PROVE  /\ VectorsKept
         /\ Len(Current') = Len(Current)
         /\ Current'[index[t] + 1] = index[t]
         /\ \A i \in 1 .. Len(Current) : i # index[t] + 1 => Current'[i] = Current[i]
         /\ Len(vectors') = Len(vectors)
         /\ \A k \in 1 .. Len(vectors) : k # Len(vectors) => vectors'[k] = vectors[k]
<1> DEFINE n == Len(vectors)
           j == index[t] + 1
<1>1. /\ vectors \in Seq(Seq(Value \cup {Unbound})) /\ n \in Nat \ {0}
      /\ Current \in Seq(Value \cup {Unbound}) /\ Current = vectors[n]
      /\ index[t] \in Nat /\ index[t] \in Value /\ j \in 1 .. Len(Current)
  <2>1. /\ TypeOK /\ index[t] \in Nat /\ MaxVariables \in Nat
        /\ index[t] < Len(Current) /\ index[t] < MaxVariables
    BY Numbers DEF RangeInv, AllocationInv, StoreElement
  <2>2. index[t] \in Value
    BY <2>1 DEF Value
  <2>3. index[t] + 1 \in 1 .. Len(Current)
    BY <2>1, CurrentType
  <2>4. vectors \in Seq(Seq(Value \cup {Unbound})) /\ Current = vectors[n]
    BY <2>1 DEF TypeOK, Current
  <2> QED
    BY <2>1, <2>2, <2>3, <2>4, CurrentType
<1> DEFINE w == [Current EXCEPT ![j] = index[t]]
<1>2. vectors' = [vectors EXCEPT ![n] = w]
  BY <1>1 DEF StoreElement
<1>3. /\ w \in Seq(Value \cup {Unbound}) /\ Len(w) = Len(Current) /\ w[j] = j - 1
      /\ \A i \in 1 .. Len(Current) : w[i] \in {Current[i], i - 1}
      /\ \A i \in 1 .. Len(Current) : i # j => w[i] = Current[i]
  BY <1>1, SMTT(30)
<1> HIDE DEF w, n
<1>4. /\ vectors' \in Seq(Seq(Value \cup {Unbound})) /\ Len(vectors') = n
      /\ vectors'[n] = w /\ \A k \in 1 .. n : k # n => vectors'[k] = vectors[k]
  BY <1>1, <1>2, <1>3 DEF n
<1>5. Current' = w
  BY <1>4 DEF Current
<1>6. \A k \in 1 .. n : Len(vectors'[k]) = Len(vectors[k])
  BY <1>1, <1>3, <1>4
<1>7. \A k \in 1 .. n : \A i \in 1 .. Len(vectors[k]) :
        vectors'[k][i] \in {vectors[k][i], i - 1}
  BY <1>1, <1>3, <1>4
<1>8. vectors' # <<>> /\ n <= Len(vectors') /\ Len(Current) \in Nat
  BY <1>1, <1>4
<1>9. VectorsKept
  BY <1>1, <1>3, <1>4, <1>5, <1>6, <1>7, <1>8, SMTT(30) DEF VectorsKept, n
<1> QED
  BY <1>1, <1>3, <1>4, <1>5, <1>9 DEF n

LEMMA NextVectors == RangeInv /\ [Next]_vars => VectorsKept
<1> SUFFICES ASSUME RangeInv, [Next]_vars PROVE VectorsKept
  OBVIOUS
<1>1. CASE vectors' = vectors
  <2>1. Current' = Current
    BY <1>1 DEF Current
  <2> QED
    BY <1>1, <2>1, CurrentType DEF VectorsKept, RangeInv, TypeOK
<1>2. CASE vectors' # vectors
  <2>1. PICK t \in Thread : Allocate(t) \/ StoreElement(t)
    BY <1>2 DEF Next, vars, Start, Finish, StoreCursor, Allocated, LoadVector, Expand,
                Access, Missing, Assign
  <2> QED
    BY <2>1, AllocateVectors, StoreVectors
<1> QED
  BY <1>1, <1>2

-----------------------------------------------------------------------------
(* The ranges.                                                             *)

\* What a thread copies: its own elements and those of the vector it loaded.
LEMMA ExpandedVector ==
  ASSUME RangeInv, NEW t \in Thread, pc[t] = "copying"
  PROVE  /\ Expanded(t) \in Seq(Value \cup {Unbound} \cup Thread)
         /\ Len(Expanded(t)) = limit[t]
         /\ Len(tlv[t]) < limit[t]
         /\ \A i \in 1 .. limit[t] :
              Expanded(t)[i] = IF i <= Len(tlv[t]) THEN tlv[t][i] ELSE vectors[source[t]][i]
<1> DEFINE V == Value \cup {Unbound} \cup Thread
           v == vectors[source[t]]
<1>1. /\ limit[t] \in Nat /\ index[t] \in Nat /\ Len(tlv[t]) \in Nat
      /\ source[t] \in 1 .. Len(vectors) /\ limit[t] <= Len(v)
      /\ Len(tlv[t]) <= index[t] /\ index[t] < limit[t]
  BY Numbers, CurrentType DEF RangeInv, ExpansionInv
<1>2. v \in Seq(Value \cup {Unbound}) /\ tlv[t] \in Seq(V)
  BY <1>1 DEF RangeInv, TypeOK
<1>3. \A i \in 1 .. limit[t] : (IF i <= Len(tlv[t]) THEN tlv[t][i] ELSE v[i]) \in V
  BY <1>1, <1>2
<1>4. Expanded(t) = [i \in 1 .. limit[t] |-> IF i <= Len(tlv[t]) THEN tlv[t][i] ELSE v[i]]
  BY DEF Expanded
<1> HIDE DEF V, v
<1>5. Expanded(t) \in Seq(V) /\ Len(Expanded(t)) = limit[t]
  BY <1>1, <1>3, <1>4, SMTT(30)
<1>6. \A i \in 1 .. limit[t] :
          Expanded(t)[i] = IF i <= Len(tlv[t]) THEN tlv[t][i] ELSE v[i]
  BY <1>4
<1> QED
  BY <1>1, <1>5, <1>6 DEF V, v

LEMMA TypeStep == RangeInv /\ [Next]_vars => TypeOK'
<1> SUFFICES ASSUME RangeInv, [Next]_vars PROVE TypeOK'
  OBVIOUS
<1>1. TypeOK /\ vectors' \in Seq(Seq(Value \cup {Unbound})) /\ vectors' # <<>>
  BY NextVectors DEF RangeInv, VectorsKept
<1>2. CASE UNCHANGED vars
  BY <1>1, <1>2 DEF TypeOK, vars
<1>3. ASSUME NEW t \in Thread, Start(t) \/ Finish(t)
      PROVE  TypeOK'
  <2> DEFINE S == Seq(Value \cup {Unbound} \cup Thread)
  <2>1. tlv' \in [Thread -> S]
    <3>1. <<>> \in S /\ tlv \in [Thread -> S]
      BY <1>1 DEF TypeOK
    <3>2. tlv' = tlv \/ tlv' = [tlv EXCEPT ![t] = <<>>]
      BY <1>3 DEF Start, Finish
    <3> HIDE DEF S
    <3> QED
      BY <3>1, <3>2
  <2>2. /\ roots' \subseteq Thread
        /\ assigned' \subseteq Thread \X Value /\ early' \subseteq Thread \X Value
        /\ pc' \in [Thread -> Place]
    BY <1>1, <1>3 DEF TypeOK, Start, Finish, Place
  <2>3. /\ \A u \in Thread : pc'[u] = "storing" <=> pc[u] = "storing"
        /\ UNCHANGED <<vectors, cursor, lock, defined, unstored, index, limit, source>>
    BY <1>1, <1>3 DEF TypeOK, Start, Finish
  <2> QED
    BY <1>1, <2>1, <2>2, <2>3 DEF TypeOK
<1>4. ASSUME NEW t \in Thread, Allocate(t)
      PROVE  TypeOK'
  BY <1>1, <1>4, VariablesAssumption DEF TypeOK, Allocate, Place
<1>5. ASSUME NEW t \in Thread, StoreElement(t)
      PROVE  TypeOK'
  BY <1>1, <1>5 DEF TypeOK, StoreElement
<1>6. ASSUME NEW t \in Thread, StoreCursor(t)
      PROVE  TypeOK'
  <2>1. cursor' \in 0 .. MaxVariables
    BY <1>6, Numbers DEF RangeInv, AllocationInv, StoreCursor
  <2> QED
    BY <1>1, <1>6, <2>1 DEF TypeOK, StoreCursor
<1>7. ASSUME NEW t \in Thread, Allocated(t)
      PROVE  TypeOK'
  <2>1. defined' \in 0 .. MaxVariables
    BY <1>7, Numbers DEF RangeInv, AllocationInv, Allocated
  <2>2. /\ pc' \in [Thread -> Place] /\ lock' = NoThread
        /\ index' \in [Thread -> 0 .. MaxVariables] /\ limit' \in [Thread -> 0 .. MaxVariables]
    BY <1>1, <1>7, VariablesAssumption DEF TypeOK, Allocated, Place
  <2>3. \A u \in Thread : pc'[u] # "storing"
    BY <1>1, <1>7, VariablesAssumption DEF TypeOK, Allocated
  <2>4. UNCHANGED <<cursor, tlv, roots, source, assigned, early>> /\ unstored' \subseteq {"element", "cursor"}
    BY <1>1, <1>7 DEF TypeOK, Allocated
  <2> QED
    BY <1>1, <2>1, <2>2, <2>3, <2>4, VariablesAssumption DEF TypeOK
<1>8. ASSUME NEW t \in Thread, LoadVector(t)
      PROVE  TypeOK'
  BY <1>1, <1>8, CurrentType DEF TypeOK, LoadVector, Place
<1>9. ASSUME NEW t \in Thread, Expand(t)
      PROVE  TypeOK'
  <2>1. Expanded(t) \in Seq(Value \cup {Unbound} \cup Thread)
    BY <1>9, ExpandedVector DEF Expand
  <2> DEFINE S == Seq(Value \cup {Unbound} \cup Thread)
  <2>2. tlv' \in [Thread -> S] /\ pc' \in [Thread -> Place] /\ source' \in [Thread -> Nat \ {0}]
    <3>1. tlv \in [Thread -> S] /\ Expanded(t) \in S
      BY <1>1, <2>1 DEF TypeOK
    <3> HIDE DEF S
    <3>2. tlv' \in [Thread -> S]
      BY <1>9, <3>1 DEF Expand
    <3> QED
      BY <1>1, <1>9, <3>2 DEF TypeOK, Expand, Place
  <2>3. index' \in [Thread -> 0 .. MaxVariables] /\ limit' \in [Thread -> 0 .. MaxVariables]
    BY <1>1, <1>9, VariablesAssumption DEF TypeOK, Expand
  <2>4. /\ \A u \in Thread : pc'[u] = "storing" <=> pc[u] = "storing"
        /\ UNCHANGED <<vectors, cursor, lock, defined, roots, unstored, assigned>>
    BY <1>1, <1>9 DEF TypeOK, Expand
  <2>5. early' \subseteq Thread \X Value
    <3>1. /\ limit[t] \in 0 .. MaxVariables /\ MaxVariables \in Nat /\ Len(tlv[t]) \in Nat
          /\ early' = early \cup Caught(t) /\ early \subseteq Thread \X Value
      BY <1>1, <1>9, Numbers DEF TypeOK, Expand
    <3>2. \A k \in Len(tlv[t]) .. limit[t] - 1 : k \in Value
      BY <3>1 DEF Value
    <3>3. Caught(t) \subseteq Thread \X Value
      BY <3>2 DEF Caught
    <3> QED
      BY <3>1, <3>3
  <2> QED
    BY <1>1, <2>2, <2>3, <2>4, <2>5 DEF TypeOK
<1>10. ASSUME NEW t \in Thread, NEW i \in 0 .. defined - 1, Missing(t, i)
       PROVE  TypeOK'
  <2>1. i \in 0 .. MaxVariables
    <3>1. defined \in 0 .. MaxVariables /\ MaxVariables \in Nat
      BY <1>1, VariablesAssumption DEF TypeOK
    <3> QED
      BY <3>1
  <2> QED
    BY <1>1, <1>10, <2>1 DEF TypeOK, Missing, Place
<1>11. ASSUME NEW t \in Thread, NEW i \in 0 .. defined - 1, Assign(t, i)
       PROVE  TypeOK'
  <2>1. i \in Value /\ i + 1 \in 1 .. Len(tlv[t])
    <3>1. /\ defined \in 0 .. MaxVariables /\ MaxVariables \in Nat
          /\ i < Len(tlv[t]) /\ Len(tlv[t]) \in Nat
      BY <1>1, <1>11, VariablesAssumption DEF TypeOK, Assign, Present
    <3> QED
      BY <3>1 DEF Value
  <2>2. [tlv[t] EXCEPT ![i + 1] = t] \in Seq(Value \cup {Unbound} \cup Thread)
    BY <1>1, <2>1 DEF TypeOK
  <2>3. tlv' = [tlv EXCEPT ![t] = [tlv[t] EXCEPT ![i + 1] = t]]
    BY <1>1, <1>11 DEF TypeOK, Assign
  <2> DEFINE S == Seq(Value \cup {Unbound} \cup Thread)
  <2>4. tlv' \in [Thread -> S]
    <3>1. tlv \in [Thread -> S] /\ [tlv[t] EXCEPT ![i + 1] = t] \in S
      BY <1>1, <2>2 DEF TypeOK
    <3> HIDE DEF S
    <3> QED
      BY <2>3, <3>1
  <2>5. assigned' \subseteq Thread \X Value
    BY <1>1, <1>11, <2>1 DEF TypeOK, Assign
  <2>6. UNCHANGED <<vectors, cursor, lock, defined, roots, pc, unstored, index, limit, source, early>>
    BY <1>11 DEF Assign
  <2> QED
    BY <1>1, <2>4, <2>5, <2>6 DEF TypeOK
<1> QED
  BY <1>2, <1>3, <1>4, <1>5, <1>6, <1>7, <1>8, <1>9, <1>10, <1>11 DEF Next, Access

LEMMA AllocationStep == RangeInv /\ [Next]_vars => AllocationInv'
<1> SUFFICES ASSUME RangeInv, [Next]_vars PROVE AllocationInv'
  OBVIOUS
<1>1. /\ TypeOK /\ TypeOK' /\ AllocationInv
      /\ cursor \in Nat /\ defined \in Nat /\ \A t \in Thread : index[t] \in Nat
      /\ Len(Current) \in Nat /\ Len(Current') \in Nat /\ Len(Current) <= Len(Current')
  <2>1. TypeOK'
    BY TypeStep
  <2>2. TypeOK' => Len(Current') \in Nat
    BY DEF TypeOK, Current
  <2> QED
    BY <2>1, <2>2, Numbers, CurrentType, NextVectors DEF RangeInv, VectorsKept
<1>2. CASE UNCHANGED vars
  BY <1>1, <1>2 DEF AllocationInv, vars, Current
<1>3. ASSUME NEW t \in Thread,
             \/ Start(t) \/ Finish(t) \/ LoadVector(t) \/ Expand(t)
             \/ \E i \in 0 .. defined - 1 : Access(t, i)
      PROVE  AllocationInv'
  <2>1. /\ UNCHANGED <<vectors, cursor, defined, unstored>>
        /\ \A u \in Thread : pc'[u] = "storing" => pc[u] = "storing" /\ index'[u] = index[u]
    BY <1>1, <1>3 DEF Start, Finish, LoadVector, Expand, Access, Missing, Assign, TypeOK
  <2>2. Current' = Current
    BY <2>1 DEF Current
  <2> QED
    BY <1>1, <2>1, <2>2 DEF AllocationInv
<1>4. ASSUME NEW t \in Thread, Allocate(t)
      PROVE  AllocationInv'
  <2>1. /\ cursor < Len(Current') /\ cursor < MaxVariables
        /\ unstored' = {"element", "cursor"} /\ UNCHANGED <<cursor, defined>>
    BY <1>4, AllocateVectors DEF Allocate
  <2>2. \A u \in Thread : pc'[u] = "storing" => u = t
    BY <1>1, <1>4, VariablesAssumption DEF Allocate, TypeOK
  <2>3. index'[t] = cursor
    BY <1>1, <1>4 DEF Allocate, TypeOK
  <2> QED
    BY <1>1, <2>1, <2>2, <2>3 DEF AllocationInv
<1>5. ASSUME NEW t \in Thread, StoreElement(t)
      PROVE  AllocationInv'
  <2>1. Len(Current') = Len(Current) /\ Current'[index[t] + 1] = index[t]
    BY <1>5, StoreVectors
  <2>2. \A u \in Thread : pc[u] = "storing" => u = t
    BY <1>1, <1>5 DEF StoreElement, TypeOK
  <2> QED
    BY <1>1, <1>5, <2>1, <2>2 DEF AllocationInv, StoreElement
<1>6. ASSUME NEW t \in Thread, StoreCursor(t)
      PROVE  AllocationInv'
  <2>1. \A u \in Thread : pc[u] = "storing" => u = t
    BY <1>1, <1>6 DEF StoreCursor, TypeOK
  <2>2. /\ Current' = Current /\ cursor = index[t] /\ index[t] < Len(Current)
        /\ index[t] < MaxVariables /\ cursor' = index[t] + 1
        /\ "element" \notin unstored => Current[index[t] + 1] = index[t]
    BY <1>1, <1>6 DEF AllocationInv, StoreCursor, Current
  <2> QED
    BY <1>1, <1>6, <2>1, <2>2 DEF AllocationInv, StoreCursor
<1>7. ASSUME NEW t \in Thread, Allocated(t)
      PROVE  AllocationInv'
  <2>1. \A u \in Thread : pc'[u] # "storing"
    BY <1>1, <1>7, VariablesAssumption DEF Allocated, TypeOK
  <2>2. Current' = Current /\ cursor' = cursor /\ defined' = cursor
    BY <1>1, <1>7 DEF AllocationInv, Allocated, Current
  <2> QED
    BY <1>1, <2>1, <2>2 DEF AllocationInv
<1> QED
  BY <1>2, <1>3, <1>4, <1>5, <1>6, <1>7 DEF Next

LEMMA ExpansionStep == RangeInv /\ [Next]_vars => ExpansionInv'
<1> SUFFICES ASSUME RangeInv, [Next]_vars, NEW u \in Thread
             PROVE  /\ limit'[u] <= cursor'
                    /\ pc'[u] \in {"loaded", "copying"} =>
                         Len(tlv'[u]) <= index'[u] /\ index'[u] < limit'[u]
                    /\ pc'[u] = "copying" =>
                         source'[u] <= Len(vectors') /\ limit'[u] <= Len(vectors'[source'[u]])
  BY DEF ExpansionInv
<1>1. /\ TypeOK /\ TypeOK' /\ AllocationInv /\ cursor \in Nat /\ defined \in Nat
      /\ Len(tlv[u]) \in Nat /\ limit[u] \in Nat /\ source[u] \in Nat \ {0} /\ index[u] \in Nat
  BY TypeStep, Numbers DEF RangeInv
<1>2. /\ limit[u] <= cursor
      /\ pc[u] \in {"loaded", "copying"} => Len(tlv[u]) <= index[u] /\ index[u] < limit[u]
      /\ pc[u] = "copying" => source[u] <= Len(vectors) /\ limit[u] <= Len(vectors[source[u]])
  BY DEF RangeInv, ExpansionInv
<1>3. /\ Len(vectors) \in Nat /\ Len(vectors') \in Nat /\ Len(vectors) <= Len(vectors')
      /\ \A k \in 1 .. Len(vectors) : Len(vectors'[k]) = Len(vectors[k])
  BY <1>1, CurrentType, NextVectors DEF VectorsKept
\* A step of another thread, or of u outside the expansion, at most moves the cursor on.
<1>4. ASSUME cursor <= cursor', cursor' \in Nat, limit'[u] = limit[u],
             \/ pc'[u] \notin {"loaded", "copying"}
             \/ pc'[u] = pc[u] /\ tlv'[u] = tlv[u] /\ index'[u] = index[u] /\ source'[u] = source[u]
      PROVE  /\ limit'[u] <= cursor'
             /\ pc'[u] \in {"loaded", "copying"} =>
                  Len(tlv'[u]) <= index'[u] /\ index'[u] < limit'[u]
             /\ pc'[u] = "copying" =>
                  source'[u] <= Len(vectors') /\ limit'[u] <= Len(vectors'[source'[u]])
  BY <1>1, <1>2, <1>3, <1>4
<1>5. CASE UNCHANGED vars
  BY <1>1, <1>4, <1>5 DEF vars
<1>6. ASSUME NEW t \in Thread,
             \/ Start(t) \/ Finish(t) \/ Allocate(t) \/ StoreElement(t) \/ Allocated(t)
             \/ \E i \in 0 .. defined - 1 : Assign(t, i)
      PROVE  /\ cursor' = cursor /\ limit'[u] = limit[u]
             /\ \/ pc'[u] \notin {"loaded", "copying"}
                \/ /\ pc'[u] = pc[u] /\ tlv'[u] = tlv[u]
                   /\ index'[u] = index[u] /\ source'[u] = source[u]
  BY <1>1, <1>6 DEF TypeOK, Start, Finish, Allocate, StoreElement, Allocated, Assign
<1>7. ASSUME NEW t \in Thread, StoreCursor(t)
      PROVE  /\ cursor <= cursor' /\ cursor' \in Nat
             /\ UNCHANGED <<pc, tlv, index, limit, source>>
  BY <1>1, <1>7, Numbers DEF StoreCursor, AllocationInv
<1>8. ASSUME NEW t \in Thread, LoadVector(t) \/ Expand(t), u # t
      PROVE  /\ cursor' = cursor /\ limit'[u] = limit[u] /\ tlv'[u] = tlv[u]
             /\ pc'[u] = pc[u] /\ index'[u] = index[u] /\ source'[u] = source[u]
  BY <1>1, <1>8 DEF TypeOK, LoadVector, Expand
<1>9. ASSUME NEW t \in Thread, NEW i \in 0 .. defined - 1, Missing(t, i), u # t
      PROVE  /\ cursor' = cursor /\ limit'[u] = limit[u] /\ tlv'[u] = tlv[u]
             /\ pc'[u] = pc[u] /\ index'[u] = index[u] /\ source'[u] = source[u]
  BY <1>1, <1>9 DEF TypeOK, Missing
\* The steps of u itself.
<1>10. ASSUME NEW i \in 0 .. defined - 1, Missing(u, i)
       PROVE  /\ limit'[u] = cursor /\ cursor' = cursor /\ pc'[u] = "loaded"
              /\ Len(tlv'[u]) <= index'[u] /\ index'[u] < limit'[u]
  <2>1. index'[u] = i /\ limit'[u] = cursor /\ pc'[u] = "loaded" /\ UNCHANGED <<tlv, cursor>>
    BY <1>1, <1>10 DEF TypeOK, Missing
  <2> QED
    BY <1>1, <1>10, <2>1 DEF Missing, Present, AllocationInv
<1>11. ASSUME LoadVector(u)
       PROVE  /\ limit'[u] = limit[u] /\ cursor' = cursor /\ source'[u] = Len(vectors)
              /\ Len(tlv'[u]) <= index'[u] /\ index'[u] < limit'[u]
              /\ limit'[u] <= Len(vectors'[source'[u]]) /\ source'[u] <= Len(vectors')
  <2>1. /\ source'[u] = Len(vectors) /\ pc[u] = "loaded"
        /\ UNCHANGED <<vectors, tlv, cursor, index, limit>>
    BY <1>1, <1>11 DEF TypeOK, LoadVector
  <2>2. cursor <= Len(vectors[Len(vectors)]) /\ Len(vectors[Len(vectors)]) \in Nat
    BY <1>1, CurrentType DEF AllocationInv, Current
  <2> QED
    BY <1>1, <1>2, <1>3, <2>1, <2>2
<1>12. ASSUME Expand(u)
       PROVE  limit'[u] = 0 /\ pc'[u] = "program" /\ cursor' = cursor
  BY <1>1, <1>12 DEF TypeOK, Expand
<1> QED
  <2>1. CASE \E t \in Thread :
                \/ Start(t) \/ Finish(t) \/ Allocate(t) \/ StoreElement(t) \/ Allocated(t)
                \/ \E i \in 0 .. defined - 1 : Assign(t, i)
    BY <2>1, <1>1, <1>4, <1>6
  <2>2. CASE \E t \in Thread : StoreCursor(t)
    BY <2>2, <1>1, <1>4, <1>7
  <2>3. CASE \E t \in Thread : LoadVector(t)
    BY <2>3, <1>1, <1>2, <1>4, <1>8, <1>11
  <2>4. CASE \E t \in Thread : Expand(t)
    BY <2>4, <1>1, <1>4, <1>8, <1>12
  <2>5. CASE \E t \in Thread : \E i \in 0 .. defined - 1 : Missing(t, i)
    BY <2>5, <1>1, <1>4, <1>9, <1>10
  <2> QED
    BY <1>5, <2>1, <2>2, <2>3, <2>4, <2>5 DEF Next, Access

LEMMA RootsStep == RangeInv /\ [Next]_vars => RootsInv'
<1> SUFFICES ASSUME RangeInv, [Next]_vars PROVE RootsInv'
  OBVIOUS
<1>1. TypeOK /\ RootsInv
  BY DEF RangeInv
<1>2. CASE UNCHANGED vars
  BY <1>1, <1>2 DEF RootsInv, vars
<1>3. ASSUME NEW t \in Thread, Start(t) \/ Finish(t)
      PROVE  RootsInv'
  BY <1>1, <1>3 DEF RootsInv, TypeOK, Start, Finish
<1>4. ASSUME NEW t \in Thread,
             \/ Allocate(t) \/ StoreElement(t) \/ StoreCursor(t) \/ Allocated(t)
             \/ LoadVector(t) \/ Expand(t) \/ \E i \in 0 .. defined - 1 : Access(t, i)
      PROVE  RootsInv'
  <2>1. /\ roots' = roots /\ pc[t] # "absent" /\ pc'[t] # "absent"
        /\ \A u \in Thread \ {t} : pc'[u] = pc[u] /\ tlv'[u] = tlv[u]
    BY <1>1, <1>4 DEF TypeOK, Allocate, StoreElement, StoreCursor, Allocated, LoadVector,
                      Expand, Access, Missing, Assign
  <2> QED
    BY <1>1, <2>1 DEF RootsInv
<1> QED
  BY <1>2, <1>3, <1>4 DEF Next

LEMMA InitRange == Init => RangeInv
<1> SUFFICES ASSUME Init PROVE RangeInv
  OBVIOUS
<1>1. /\ <<>> \in Seq(Value \cup {Unbound}) /\ << <<>> >> # <<>>
      /\ << <<>> >> \in Seq(Seq(Value \cup {Unbound}))
      /\ <<>> \in Seq(Value \cup {Unbound} \cup Thread)
  OBVIOUS
<1>2. TypeOK
  BY <1>1, VariablesAssumption DEF Init, TypeOK, Place
<1>3. Current = <<>>
  BY DEF Init, Current
<1> QED
  BY <1>2, <1>3 DEF RangeInv, Init, AllocationInv, ExpansionInv, RootsInv

LEMMA NextRange == RangeInv /\ [Next]_vars => RangeInv'
  BY TypeStep, AllocationStep, ExpansionStep, RootsStep DEF RangeInv

\* The type invariant: in particular the lock tlv_initializations_lock is held exactly
\* by the thread inside primitive_allocate_thread_variable.
THEOREM TypeCorrect == Spec => []TypeOK
<1>1. RangeInv => TypeOK
  BY DEF RangeInv
<1> QED
  BY <1>1, InitRange, NextRange, PTL DEF Spec

\* No access of a thread runs over the end of a vector, although a thread that
\* expands its own loads the cursor and the vector without the lock, one after the
\* other, while another grows the vector: in either order of the two stores.
THEOREM AccessesStayInRange == Spec => []AccessesInRange
<1>1. RangeInv => AccessesInRange
  BY DEF RangeInv, AllocationInv, ExpansionInv, AccessesInRange
<1> QED
  BY <1>1, InitRange, NextRange, PTL DEF Spec

\* The vector of a thread lives as long as the thread: its TEB is a root of the
\* collector from before the first expansion until the vector is dropped.
THEOREM VectorsAreRooted == Spec => []VectorsRooted
<1>1. RangeInv => VectorsRooted
  BY DEF RangeInv, RootsInv, VectorsRooted
<1> QED
  BY <1>1, InitRange, NextRange, PTL DEF Spec

-----------------------------------------------------------------------------
(* The values.                                                             *)

LEMMA InitValues == Init => ValuesInv
<1> SUFFICES ASSUME Init PROVE ValuesInv
  OBVIOUS
<1>1. InitialValuesSeen
  BY DEF Init, InitialValuesSeen
<1>2. Current = <<>>
  BY DEF Init, Current
<1> QED
  BY <1>1, <1>2 DEF Init, ValuesInv, SharedInv, OwnInv

\* Where the lock is held there is one allocation under way, and what it has stored
\* says where the cursor is.
LEMMA Holder ==
  ASSUME RangeInv, NEW t \in Thread, lock = t \/ pc[t] = "storing"
  PROVE  /\ lock = t /\ pc[t] = "storing" /\ \A u \in Thread : pc[u] = "storing" => u = t
         /\ index[t] < Len(Current) /\ index[t] \in Nat
         /\ cursor = index[t] + (IF "cursor" \in unstored THEN 0 ELSE 1)
         /\ "element" \notin unstored => Current[index[t] + 1] = index[t]
  BY Numbers DEF RangeInv, AllocationInv, TypeOK

\* A step that leaves the shared state alone and lets nobody start to copy.
LEMMA QuietShared ==
  ASSUME RangeInv, SharedInv, UNCHANGED <<vectors, cursor, lock, unstored>>,
         \A u \in Thread : pc'[u] = "copying" =>
           pc[u] = "copying" /\ limit'[u] = limit[u] /\ source'[u] = source[u]
  PROVE  SharedInv'
<1>1. Current' = Current /\ \A i : Hole(i)' <=> Hole(i)
  BY DEF Current, Hole
<1> QED
  BY <1>1 DEF SharedInv

LEMMA AllocateShared ==
  ASSUME RangeInv, SharedInv, NEW t \in Thread, Allocate(t)
  PROVE  SharedInv'
<1>1. /\ TypeOK /\ AllocationInv /\ cursor \in Nat /\ Len(Current) \in Nat
      /\ \A u \in Thread : limit[u] \in Nat /\ source[u] \in Nat \ {0}
  BY Numbers, CurrentType DEF RangeInv
<1>2. unstored = {} /\ unstored' = {"element", "cursor"} /\ cursor' = cursor /\ lock' = t
  BY VariablesAssumption DEF SharedInv, Allocate
<1>3. (\A i : ~Hole(i)) /\ (\A i : ~Hole(i)')
  BY <1>2 DEF Hole
<1>4. /\ \A k \in 1 .. Len(vectors) : vectors'[k] = vectors[k]
      /\ \A i \in 1 .. Len(Current) : Current'[i] = Current[i]
      /\ \A i \in Len(Current) + 1 .. Len(Current') : Current'[i] = Unbound
      /\ Len(Current) <= Len(Current') /\ Len(Current') \in Nat
  <2>1. TypeOK' => Len(Current') \in Nat
    BY DEF TypeOK, Current
  <2>2. TypeOK'
    BY TypeStep DEF Next
  <2> QED
    BY <2>1, <2>2, AllocateVectors DEF VectorsKept
<1>5. \A i \in 1 .. cursor' : Current'[i] = i - 1
  BY <1>1, <1>2, <1>3, <1>4 DEF SharedInv, AllocationInv
<1>6. \A i \in cursor' + 1 .. Len(Current') : Current'[i] = Unbound
  <2> SUFFICES ASSUME NEW i \in cursor + 1 .. Len(Current') PROVE Current'[i] = Unbound
    BY <1>2
  <2>1. CASE i <= Len(Current)
    BY <1>1, <1>2, <1>4, <2>1 DEF SharedInv
  <2>2. CASE i > Len(Current)
    BY <1>1, <1>4, <2>2
  <2> QED
    BY <1>1, <2>1, <2>2
<1>7. ASSUME NEW u \in Thread, pc'[u] = "copying", NEW i \in 1 .. limit'[u]
      PROVE  vectors'[source'[u]][i] = i - 1
  <2>1. pc[u] = "copying" /\ limit'[u] = limit[u] /\ source'[u] = source[u]
    BY <1>1, <1>7 DEF Allocate, TypeOK
  <2>2. source[u] \in 1 .. Len(vectors)
    BY <1>1, <2>1, CurrentType DEF RangeInv, ExpansionInv
  <2> QED
    BY <1>3, <1>4, <1>7, <2>1, <2>2 DEF SharedInv
<1> QED
  BY <1>2, <1>3, <1>5, <1>6, <1>7 DEF SharedInv

LEMMA StoreElementShared ==
  ASSUME RangeInv, SharedInv, NEW t \in Thread, StoreElement(t)
  PROVE  SharedInv'
<1> DEFINE j == index[t] + 1
<1>1. /\ TypeOK /\ cursor \in Nat /\ Len(Current) \in Nat /\ cursor <= Len(Current)
      /\ \A u \in Thread : limit[u] \in Nat /\ source[u] \in Nat \ {0} /\ limit[u] <= cursor
  BY Numbers, CurrentType DEF RangeInv, AllocationInv, ExpansionInv
<1>2. /\ lock = t /\ j \in Nat /\ "element" \in unstored
      /\ cursor = IF "cursor" \in unstored THEN j - 1 ELSE j
  BY Holder DEF StoreElement
<1>3. /\ Current'[j] = j - 1 /\ Len(Current') = Len(Current)
      /\ \A i \in 1 .. Len(Current) : i # j => Current'[i] = Current[i]
      /\ Len(vectors') = Len(vectors)
      /\ \A k \in 1 .. Len(vectors) : k # Len(vectors) => vectors'[k] = vectors[k]
  <2>1. index[t] \in Nat
    BY <1>1, Numbers
  <2> QED
    BY <2>1, StoreVectors, SMTT(30)
<1>4. /\ unstored' = unstored \ {"element"} /\ unstored \subseteq {"element", "cursor"}
      /\ UNCHANGED <<cursor, lock, pc, limit, source>>
  BY <1>1 DEF StoreElement, TypeOK
<1>5. /\ \A i : ~Hole(i)'
      /\ \A i : Hole(i) => i = j
      /\ "cursor" \notin unstored => \A i : Hole(i) <=> i = j
      /\ "cursor" \in unstored => unstored' = {"cursor"}
  BY <1>2, <1>4 DEF Hole
<1> HIDE DEF j
<1>6. \A i \in 1 .. cursor : Current'[i] = i - 1
  <2> SUFFICES ASSUME NEW i \in 1 .. cursor PROVE Current'[i] = i - 1
    OBVIOUS
  <2>1. CASE i = j
    BY <1>3, <2>1
  <2>2. CASE i # j
    BY <1>1, <1>3, <1>5, <2>2 DEF SharedInv
  <2> QED
    BY <2>1, <2>2
<1>7. ASSUME NEW i \in cursor + 1 .. Len(Current)
      PROVE  Current'[i] = Unbound \/ (unstored' = {"cursor"} /\ i = cursor + 1)
  <2>1. i \in 1 .. Len(Current)
    BY <1>1
  <2>2. CASE i = j
    BY <1>1, <1>2, <1>5, <2>2
  <2>3. CASE i # j
    BY <1>2, <1>3, <2>1, <2>3 DEF SharedInv
  <2> QED
    BY <2>2, <2>3
<1>8. ASSUME NEW u \in Thread, pc[u] = "copying", NEW i \in 1 .. limit[u]
      PROVE  vectors'[source[u]][i] = i - 1
  <2>1. source[u] \in 1 .. Len(vectors)
    BY <1>1, <1>8, CurrentType DEF RangeInv, ExpansionInv
  <2>2. CASE source[u] = Len(vectors)
    BY <1>1, <1>3, <1>6, <2>2 DEF Current
  <2>3. CASE source[u] # Len(vectors)
    BY <1>3, <1>8, <2>1, <2>3 DEF SharedInv
  <2> QED
    BY <2>2, <2>3
<1>9. \A i \in 1 .. cursor' : Current'[i] = IF Hole(i)' THEN Unbound ELSE i - 1
  BY <1>4, <1>5, <1>6
<1>10. \A i \in cursor' + 1 .. Len(Current') :
         Current'[i] = Unbound \/ (unstored' = {"cursor"} /\ i = cursor' + 1)
  BY <1>3, <1>4, <1>7
<1> QED
  BY <1>2, <1>4, <1>5, <1>8, <1>9, <1>10 DEF SharedInv

LEMMA StoreCursorShared ==
  ASSUME RangeInv, SharedInv, NEW t \in Thread, StoreCursor(t)
  PROVE  SharedInv'
<1>1. /\ TypeOK /\ cursor \in Nat /\ Len(Current) \in Nat
      /\ \A u \in Thread : limit[u] \in Nat /\ limit[u] <= cursor
  BY Numbers, CurrentType DEF RangeInv, ExpansionInv
<1>2. /\ lock = t /\ cursor = index[t] /\ cursor < Len(Current) /\ "cursor" \in unstored
      /\ "element" \notin unstored => Current[cursor + 1] = cursor
  BY Holder DEF StoreCursor
<1>3. /\ unstored' = unstored \ {"cursor"} /\ unstored \subseteq {"element", "cursor"}
      /\ cursor' = cursor + 1 /\ UNCHANGED <<vectors, lock, pc, limit, source>>
      /\ Current' = Current
  BY <1>1, <1>2 DEF StoreCursor, TypeOK, Current
<1>4. /\ \A i : ~Hole(i)
      /\ \A i : Hole(i)' <=> "element" \in unstored /\ i = cursor + 1
      /\ "element" \in unstored => unstored # {"cursor"}
      /\ unstored' # {"cursor"}
  <2>1. /\ unstored # {"element"} /\ ("element" \in unstored => unstored # {"cursor"})
        /\ unstored' # {"cursor"} /\ (unstored' = {"element"} <=> "element" \in unstored)
    <3>1. CASE "element" \in unstored
      <4>1. unstored = {"element", "cursor"}
        BY <1>2, <1>3, <3>1
      <4>2. unstored' = {"element"}
        BY <1>3, <4>1
      <4> QED
        BY <1>2, <3>1, <4>2
    <3>2. CASE "element" \notin unstored
      BY <1>2, <1>3, <3>2
    <3> QED
      BY <3>1, <3>2
  <2> QED
    BY <1>3, <2>1 DEF Hole
<1>5. ASSUME NEW i \in 1 .. cursor + 1
      PROVE  Current[i] = IF Hole(i)' THEN Unbound ELSE i - 1
  <2>1. CASE i = cursor + 1
    <3>1. CASE "element" \in unstored
      BY <1>1, <1>2, <1>4, <2>1, <3>1 DEF SharedInv
    <3>2. CASE "element" \notin unstored
      BY <1>1, <1>2, <1>4, <2>1, <3>2
    <3> QED
      BY <3>1, <3>2
  <2>2. CASE i \in 1 .. cursor
    BY <1>1, <1>4, <2>2 DEF SharedInv
  <2> QED
    BY <1>1, <2>1, <2>2
<1>6. \A i \in cursor' + 1 .. Len(Current) : Current[i] = Unbound
  BY <1>1, <1>3 DEF SharedInv
<1>7. ASSUME NEW u \in Thread, pc[u] = "copying", NEW i \in 1 .. limit[u]
      PROVE  vectors[source[u]][i] = i - 1 /\ ~Hole(i)'
  BY <1>1, <1>4, <1>7 DEF SharedInv
<1> QED
  BY <1>2, <1>3, <1>5, <1>6, <1>7 DEF SharedInv

LEMMA AllocatedShared ==
  ASSUME RangeInv, SharedInv, NEW t \in Thread, Allocated(t)
  PROVE  SharedInv'
<1>1. /\ unstored = {} /\ unstored' = {} /\ UNCHANGED <<vectors, cursor, limit, source>>
      /\ Current' = Current
  BY DEF Allocated, Current
<1>2. \A u \in Thread : pc'[u] = "copying" => pc[u] = "copying"
  BY DEF Allocated, RangeInv, TypeOK
<1>3. \A i : Hole(i)' <=> Hole(i)
  BY <1>1 DEF Hole
<1> QED
  BY <1>1, <1>2, <1>3 DEF SharedInv

LEMMA LoadShared ==
  ASSUME RangeInv, SharedInv, NEW t \in Thread, LoadVector(t)
  PROVE  SharedInv'
<1>1. /\ TypeOK /\ cursor \in Nat /\ limit[t] \in Nat /\ limit[t] <= cursor
  BY Numbers DEF RangeInv, ExpansionInv
<1>2. /\ UNCHANGED <<vectors, cursor, lock, unstored, limit>> /\ Current' = Current
      /\ source'[t] = Len(vectors)
      /\ \A u \in Thread \ {t} : /\ pc'[u] = "copying" => pc[u] = "copying"
                                  /\ source'[u] = source[u]
  BY <1>1 DEF LoadVector, Current, TypeOK
<1>3. \A i : Hole(i)' <=> Hole(i)
  BY <1>2 DEF Hole
<1>4. \A i \in 1 .. limit[t] : IF Hole(i) THEN source'[t] = Len(vectors)
                                          ELSE vectors[source'[t]][i] = i - 1
  BY <1>1, <1>2 DEF SharedInv, Current
<1> QED
  BY <1>2, <1>3, <1>4 DEF SharedInv

\* The shared vectors stay filled, with at most the one hole.
LEMMA SharedStep ==
  ASSUME RangeInv, SharedInv, [Next]_vars
  PROVE  SharedInv'
<1>1. CASE UNCHANGED vars
  BY <1>1, QuietShared DEF vars
<1>2. ASSUME NEW t \in Thread,
             \/ Start(t) \/ Finish(t) \/ Expand(t) \/ \E i \in 0 .. defined - 1 : Access(t, i)
      PROVE  SharedInv'
  <2>1. /\ UNCHANGED <<vectors, cursor, lock, unstored>>
        /\ \A u \in Thread : pc'[u] = "copying" => /\ pc[u] = "copying"
                                                   /\ source'[u] = source[u]
                                                   /\ limit'[u] = limit[u]
    BY <1>2 DEF RangeInv, TypeOK, Start, Finish, Expand, Access, Missing, Assign
  <2> QED
    BY <2>1, QuietShared
<1> QED
  BY <1>1, <1>2, AllocateShared, StoreElementShared, StoreCursorShared, AllocatedShared,
     LoadShared DEF Next

\* What one thread has: its own value where it assigned, the unbound marker where it
\* copied early, the initial value elsewhere.
Seen(t, v, a, e) ==
  \A i \in 0 .. Len(v) - 1 :
    v[i + 1] = IF <<t, i>> \in a THEN t ELSE IF <<t, i>> \in e THEN Unbound ELSE i

LEMMA OwnStep ==
  ASSUME RangeInv, ValuesInv, [Next]_vars, NEW u \in Thread
  PROVE  /\ Seen(u, tlv'[u], assigned', early')
         /\ \A i \in Value : <<u, i>> \in assigned' \cup early' => i < Len(tlv'[u])
<1>1. /\ TypeOK /\ Len(tlv[u]) \in Nat /\ Seen(u, tlv[u], assigned, early)
      /\ \A i \in Value : <<u, i>> \in assigned \cup early => i < Len(tlv[u])
  <2>1. \A i \in Value : <<u, i>> \in assigned \cup early => i < Len(tlv[u])
    BY DEF ValuesInv, OwnInv
  <2> QED
    BY <2>1, Numbers DEF RangeInv, ValuesInv, OwnInv, InitialValuesSeen, Seen
<1>2. ASSUME tlv'[u] = tlv[u],
             \A i \in Nat : /\ <<u, i>> \in assigned' <=> <<u, i>> \in assigned
                            /\ <<u, i>> \in early' <=> <<u, i>> \in early
      PROVE  /\ Seen(u, tlv'[u], assigned', early')
             /\ \A i \in Value : <<u, i>> \in assigned' \cup early' => i < Len(tlv'[u])
  <2>1. \A i \in 0 .. Len(tlv[u]) - 1 : i \in Nat
    OBVIOUS
  <2>2. \A i \in Value : i \in Nat
    BY VariablesAssumption DEF Value
  <2> QED
    BY <1>1, <1>2, <2>1, <2>2 DEF Seen
<1>3. CASE tlv'[u] = tlv[u] /\ assigned' = assigned /\ early' = early
  BY <1>2, <1>3
<1>4. ASSUME NEW t \in Thread, t # u,
             Finish(t) \/ Expand(t) \/ \E i \in 0 .. defined - 1 : Assign(t, i)
      PROVE  /\ tlv'[u] = tlv[u]
             /\ \A i \in Nat : /\ <<u, i>> \in assigned' <=> <<u, i>> \in assigned
                               /\ <<u, i>> \in early' <=> <<u, i>> \in early
  BY <1>1, <1>4 DEF TypeOK, Finish, Expand, Assign, Caught
<1>5. CASE Finish(u)
  <2>1. tlv'[u] = <<>> /\ \A i \in Value : <<u, i>> \notin assigned' \cup early'
    BY <1>1, <1>5 DEF TypeOK, Finish
  <2> QED
    BY <2>1 DEF Seen
<1>6. CASE Expand(u)
  <2>1. /\ pc[u] = "copying" /\ assigned' = assigned /\ tlv'[u] = Expanded(u)
        /\ early' = early \cup Caught(u)
    BY <1>1, <1>6 DEF TypeOK, Expand
  <2>2. /\ Len(Expanded(u)) = limit[u] /\ Len(tlv[u]) < limit[u] /\ limit[u] \in Nat
        /\ \A i \in 1 .. limit[u] :
             Expanded(u)[i] = IF i <= Len(tlv[u]) THEN tlv[u][i] ELSE vectors[source[u]][i]
    BY <1>1, <2>1, ExpandedVector, Numbers
  <2>3. /\ cursor \in Nat /\ limit[u] <= cursor /\ limit[u] <= MaxVariables /\ MaxVariables \in Nat
    <3>1. limit[u] \in 0 .. MaxVariables /\ MaxVariables \in Nat
      BY <1>1, VariablesAssumption DEF TypeOK
    <3>2. limit[u] <= cursor /\ cursor \in Nat
      BY <1>1, Numbers DEF RangeInv, ExpansionInv
    <3> QED
      BY <3>1, <3>2
  <2>4. \A i \in 0 .. limit[u] - 1 : i >= Len(tlv[u]) => <<u, i>> \notin assigned \cup early
    BY <1>1, <2>3 DEF TypeOK, Value
  <2>5. \A i \in Len(tlv[u]) .. limit[u] - 1 : <<u, i>> \in Caught(u) <=> Hole(i + 1)
    <3>1. CASE unstored = {"element"}
      <4>1. lock \in Thread
        BY <3>1 DEF ValuesInv, SharedInv
      <4>2. cursor = index[lock] + 1 /\ index[lock] \in Nat
        BY <3>1, <4>1, Holder
      <4> QED
        BY <1>1, <2>2, <3>1, <4>2 DEF Caught, Hole
    <3>2. CASE unstored # {"element"}
      BY <3>2 DEF Caught, Hole
    <3> QED
      BY <3>1, <3>2
  <2>6. \A i \in 0 .. limit[u] - 1 : <<u, i>> \in Caught(u) => i >= Len(tlv[u])
    BY <1>1 DEF Caught
  <2>7. \A i \in 1 .. limit[u] : vectors[source[u]][i] = IF Hole(i) THEN Unbound ELSE i - 1
    <3> SUFFICES ASSUME NEW i \in 1 .. limit[u]
                 PROVE  vectors[source[u]][i] = IF Hole(i) THEN Unbound ELSE i - 1
      OBVIOUS
    <3>1. i \in 1 .. cursor
      BY <2>2, <2>3
    <3> QED
      BY <2>1, <3>1 DEF ValuesInv, SharedInv, Current
  <2>8. ASSUME NEW i \in 0 .. limit[u] - 1
        PROVE  Expanded(u)[i + 1] = IF <<u, i>> \in assigned THEN u
                                    ELSE IF <<u, i>> \in early' THEN Unbound ELSE i
    <3>1. CASE i < Len(tlv[u])
      <4>1. <<u, i>> \in early' <=> <<u, i>> \in early
        BY <1>1, <2>1, <2>6, <3>1
      <4> QED
        BY <1>1, <2>2, <3>1, <4>1 DEF Seen
    <3>2. CASE i >= Len(tlv[u])
      <4>1. <<u, i>> \notin assigned /\ (<<u, i>> \in early' <=> Hole(i + 1))
        BY <1>1, <2>1, <2>2, <2>4, <2>5, <3>2
      <4>2. Expanded(u)[i + 1] = IF Hole(i + 1) THEN Unbound ELSE i
        BY <1>1, <2>2, <2>7, <3>2
      <4> QED
        BY <4>1, <4>2
    <3> QED
      BY <1>1, <2>2, <3>1, <3>2
  <2>9. \A i \in Value : <<u, i>> \in assigned' \cup early' => i < Len(tlv'[u])
    <3>1. \A i \in Value : <<u, i>> \in Caught(u) => i < limit[u]
      BY <1>1, <2>2 DEF Caught
    <3> QED
      BY <1>1, <2>1, <2>2, <3>1, VariablesAssumption DEF Value
  <2> QED
    BY <2>1, <2>2, <2>8, <2>9 DEF Seen
<1>7. ASSUME NEW i \in 0 .. defined - 1, Assign(u, i)
      PROVE  /\ Seen(u, tlv'[u], assigned', early')
             /\ \A k \in Value : <<u, k>> \in assigned' \cup early' => k < Len(tlv'[u])
  <2>1. /\ i < Len(tlv[u]) /\ i \in Nat /\ assigned' = assigned \cup {<<u, i>>}
        /\ early' = early
        /\ tlv[u] \in Seq(Value \cup {Unbound} \cup Thread)
        /\ tlv'[u] = [tlv[u] EXCEPT ![i + 1] = u]
    BY <1>1, <1>7, Numbers DEF TypeOK, Assign, Present
  <2>2. /\ Len(tlv'[u]) = Len(tlv[u]) /\ tlv'[u][i + 1] = u
        /\ \A k \in 0 .. Len(tlv[u]) - 1 : k # i => tlv'[u][k + 1] = tlv[u][k + 1]
    BY <1>1, <2>1
  <2> QED
    BY <1>1, <2>1, <2>2 DEF Seen
<1> QED
  <2>1. CASE UNCHANGED <<tlv, assigned, early>>
    BY <2>1, <1>3
  <2>2. CASE ~UNCHANGED <<tlv, assigned, early>>
    <3>1. PICK t \in Thread : Finish(t) \/ Expand(t) \/ \E i \in 0 .. defined - 1 : Assign(t, i)
      BY <2>2 DEF Next, vars, Start, Allocate, StoreElement, StoreCursor, Allocated,
                  LoadVector, Access, Missing
    <3>2. CASE t # u
      BY <3>1, <3>2, <1>2, <1>4
    <3>3. CASE t = u
      BY <3>1, <3>3, <1>5, <1>6, <1>7
    <3> QED
      BY <3>2, <3>3
  <2> QED
    BY <2>1, <2>2

LEMMA NextValues == RangeInv /\ ValuesInv /\ [Next]_vars => ValuesInv'
<1> SUFFICES ASSUME RangeInv, ValuesInv, [Next]_vars PROVE ValuesInv'
  OBVIOUS
<1>1. InitialValuesSeen'
  BY OwnStep DEF InitialValuesSeen, Seen
<1>2. \A a \in (assigned \cup early)' : a[2] < Len(tlv'[a[1]])
  <2>1. \A u \in Thread : \A i \in Value : <<u, i>> \in (assigned \cup early)' => i < Len(tlv'[u])
    BY OwnStep
  <2>2. (assigned \cup early)' \subseteq Thread \X Value
    BY TypeStep DEF TypeOK
  <2> QED
    BY <2>1, <2>2
<1>3. SharedInv'
  BY SharedStep DEF ValuesInv
<1> QED
  BY <1>1, <1>2, <1>3 DEF ValuesInv, OwnInv

\* In either order of the two stores: a thread has what it assigned, and of a variable
\* it has not assigned the initial value, except one it copied between the store of the
\* cursor and that of the element, of which it has the unbound marker.
THEOREM InitialValuesAreSeen == Spec => []InitialValuesSeen
<1>1. ValuesInv => InitialValuesSeen
  BY DEF ValuesInv, OwnInv
<1>2. RangeInv /\ ValuesInv /\ [Next]_vars => RangeInv' /\ ValuesInv'
  BY NextRange, NextValues
<1> QED
  BY <1>1, <1>2, InitRange, InitValues, PTL DEF Spec

=============================================================================

---------------------------- MODULE CppCrtProofs ----------------------------
(***************************************************************************)
(* Proofs about CppCrt, for every Growth and every number of handlers.     *)
(*                                                                         *)
(* The invariant: max_atexit is the length of the table unless memory ran  *)
(* out; after that the table is full and max_atexit is larger until the    *)
(* program stops, so no table is copied with a wrong length.               *)
(***************************************************************************)
EXTENDS CppCrt, SequenceTheorems, TLAPS

\* max_atexit against the table it stands for.
TableSize ==
  /\ ~starved => pc # "crashed" /\ max_atexit = (IF atexits = <<>> THEN -1 ELSE Len(atexits))
  /\ starved /\ pc # "crashed" => num_atexit = Len(atexits) /\ num_atexit < max_atexit

\* The promised handlers are in the table, and no others below num_atexit.
Entries ==
  /\ num_atexit = Len(promised)
  /\ num_atexit <= calls
  /\ \A k \in 1..num_atexit : k <= Len(atexits) /\ atexits[k] = promised[k]

\* _g_finit has called the handlers above i, out of those that are due.
Progress ==
  /\ pc \in {"ctors", "main"} => due = <<>> /\ ran = <<>>
  /\ Len(due) <= num_atexit
  /\ \A k \in 1..Len(due) : due[k] = promised[Len(due) + 1 - k]
  /\ Len(ran) <= Len(due)
  /\ \A k \in 1..Len(ran) : ran[k] = due[k]
  /\ pc = "exit" => Len(due) = Len(ran) + i + 1
  /\ pc = "over" => Len(ran) = Len(due)

Inv == TypeOK /\ TableSize /\ Entries /\ Progress

LEMMA InitInv == Init => Inv
<1> SUFFICES ASSUME Init PROVE Inv
  OBVIOUS
<1> USE CrtAssumption DEF Init
<1>1. TypeOK
  <2>1. <<>> \in Seq(0..MaxHandlers) /\ <<>> \in Seq(1..MaxHandlers)
    BY EmptySeq
  <2>2. 0 \in 0..MaxHandlers /\ 0 \in -1..MaxHandlers /\ -1 \in Int
    OBVIOUS
  <2> QED
    BY <2>1, <2>2 DEF TypeOK
<1>2. TableSize
  BY DEF TableSize
<1>3. Entries
  BY DEF Entries
<1>4. Progress
  BY DEF Progress
<1> QED
  BY <1>1, <1>2, <1>3, <1>4 DEF Inv

\* What a store into a sequence changes.
LEMMA OneEntry ==
  ASSUME NEW table \in Seq(0..MaxHandlers), NEW n \in 1..Len(table),
         NEW e \in 0..MaxHandlers
  PROVE  /\ [table EXCEPT ![n] = e] \in Seq(0..MaxHandlers)
         /\ Len([table EXCEPT ![n] = e]) = Len(table)
         /\ \A k \in 1..Len(table) :
              [table EXCEPT ![n] = e][k] = IF k = n THEN e ELSE table[k]
BY ExceptSeq

\* A table that holds what is promised takes one more handler, or the program
\* writes outside it.
LEMMA StoreKeeps ==
  ASSUME Inv, pc \in {"ctors", "main", "exit"}, calls < MaxHandlers,
         NEW table \in Seq(0..MaxHandlers),
         num_atexit <= Len(table),
         \A k \in 1..num_atexit : table[k] = atexits[k],
         calls' = calls + 1, Store(table, calls'),
         UNCHANGED <<i, due, ran, starved>>, max_atexit' \in Int
  PROVE  TypeOK' /\ Entries' /\ Progress'
<1> USE CrtAssumption DEF Inv, TypeOK
<1>1. CASE num_atexit < Len(table)
  <2>1. /\ atexits' = [table EXCEPT ![num_atexit + 1] = calls']
        /\ num_atexit' = num_atexit + 1
        /\ promised' = Append(promised, calls')
        /\ pc' = pc
    BY <1>1 DEF Store
  <2>2. calls' \in 1..MaxHandlers
    OBVIOUS
  <2>3. /\ atexits' \in Seq(0..MaxHandlers) /\ Len(atexits') = Len(table)
        /\ \A k \in 1..Len(table) :
             atexits'[k] = IF k = num_atexit + 1 THEN calls' ELSE table[k]
    <3>1. num_atexit + 1 \in 1..Len(table) /\ calls' \in 0..MaxHandlers
      BY <1>1, <2>2
    <3>2. atexits' = [table EXCEPT ![num_atexit + 1] = calls']
      BY <2>1
    <3>3. table \in Seq(0..MaxHandlers)
      OBVIOUS
    <3> HIDE DEF Inv, TypeOK
    <3> QED
      BY ONLY <3>1, <3>2, <3>3, OneEntry
  <2>4. /\ promised' \in Seq(1..MaxHandlers)
        /\ Len(promised') = Len(promised) + 1
        /\ \A k \in 1..Len(promised) : promised'[k] = promised[k]
        /\ promised'[Len(promised) + 1] = calls'
    BY <2>1, <2>2
  <2>5. TypeOK'
    BY <2>1, <2>2, <2>3, <2>4 DEF Entries
  <2>6. Entries'
    <3>1. num_atexit' = Len(promised') /\ num_atexit' <= calls'
      BY <2>1, <2>4 DEF Entries
    <3>2. ASSUME NEW k \in 1..num_atexit'
          PROVE  k <= Len(atexits') /\ atexits'[k] = promised'[k]
      <4>1. CASE k = num_atexit + 1
        BY <1>1, <2>1, <2>3, <2>4, <4>1 DEF Entries
      <4>2. CASE k \in 1..num_atexit
        BY <2>1, <2>3, <2>4, <4>2 DEF Entries
      <4>3. k = num_atexit + 1 \/ k \in 1..num_atexit
        <5>1. num_atexit \in Nat /\ num_atexit' = num_atexit + 1
          BY <2>1
        <5> HIDE DEF Inv, TypeOK
        <5> QED
          BY <3>2, <5>1
      <4> QED
        BY <4>1, <4>2, <4>3
    <3> QED
      BY <3>1, <3>2 DEF Entries
  <2>7. Progress'
    <3>1. ASSUME NEW k \in 1..Len(due')
          PROVE  due'[k] = promised'[Len(due') + 1 - k]
      <4>1. Len(due) + 1 - k \in 1..Len(promised)
        BY <3>1 DEF Progress, Entries
      <4> QED
        BY <2>4, <3>1, <4>1 DEF Progress
    <3>2. Len(due') <= num_atexit'
      BY <2>1 DEF Progress
    <3> HIDE DEF Inv, TypeOK
    <3> QED
      BY <2>1, <3>1, <3>2 DEF Progress, Inv
  <2> QED
    BY <2>5, <2>6, <2>7
<1>2. CASE ~(num_atexit < Len(table))
  <2>1. pc' = "crashed" /\ UNCHANGED <<atexits, num_atexit, promised>>
    BY <1>2 DEF Store
  <2> QED
    BY <2>1 DEF Entries, Progress
<1> QED
  BY <1>1, <1>2

\* The copy is a table of the new length that starts with the old entries.
LEMMA CopiedKeeps ==
  ASSUME TypeOK, NEW new \in Int, new > 0, new - Growth <= Len(atexits),
         num_atexit <= new - Growth \/ num_atexit = 0
  PROVE  /\ Copied(new) \in Seq(0..MaxHandlers)
         /\ Len(Copied(new)) = new
         /\ \A k \in 1..num_atexit : Copied(new)[k] = atexits[k]
<1> USE CrtAssumption
<1>1. Len(atexits) \in Nat /\ num_atexit \in Nat
  BY DEF TypeOK
<1>2. ASSUME NEW k \in 1..new
      PROVE  Copied(new)[k] \in 0..MaxHandlers
  <2>1. Copied(new)[k] = IF k <= new - Growth THEN atexits[k] ELSE 0
    BY DEF Copied
  <2>2. \A j \in 1..Len(atexits) : atexits[j] \in 0..MaxHandlers
    BY DEF TypeOK
  <2>3. k <= new - Growth => k \in 1..Len(atexits)
    BY <1>1
  <2>4. 0 \in 0..MaxHandlers
    OBVIOUS
  <2> QED
    BY <2>1, <2>2, <2>3, <2>4
<1>3. Copied(new) \in [1..new -> 0..MaxHandlers]
  BY <1>2 DEF Copied
<1>4. Copied(new) \in Seq(0..MaxHandlers) /\ Len(Copied(new)) = new
  BY <1>3
<1>5. ASSUME NEW k \in 1..num_atexit
      PROVE  Copied(new)[k] = atexits[k]
  <2>1. k \in 1..new /\ k <= new - Growth
    BY <1>1
  <2> QED
    BY <2>1 DEF Copied
<1> QED
  BY <1>4, <1>5

LEMMA RegisterInv == Inv /\ atexit => Inv'
<1> SUFFICES ASSUME Inv, atexit PROVE Inv'
  OBVIOUS
<1> USE CrtAssumption
<1>1. /\ pc \in {"ctors", "main", "exit"} /\ calls < MaxHandlers
      /\ calls' = calls + 1 /\ UNCHANGED <<i, due, ran>>
  BY DEF atexit
<1>2. CASE ~Full
  <2>1. Store(atexits, calls') /\ UNCHANGED <<max_atexit, starved>>
    BY <1>2 DEF atexit
  <2>2. num_atexit <= Len(atexits)
    BY DEF Inv, TypeOK, Entries
  <2>3. TypeOK' /\ Entries' /\ Progress'
    BY <1>1, <2>1, <2>2, StoreKeeps DEF Inv, TypeOK
  <2>4. TableSize'
    <3>1. CASE num_atexit < Len(atexits)
      <4>1. /\ num_atexit' = num_atexit + 1 /\ pc' = pc /\ Len(atexits') = Len(atexits)
            /\ atexits' # <<>> /\ atexits # <<>>
        BY <2>1, <3>1 DEF Store, Inv, TypeOK
      <4>2. ~starved
        BY <1>1, <3>1 DEF TableSize, Inv, TypeOK
      <4> QED
        BY <2>1, <4>1, <4>2 DEF TableSize, Inv
    <3>2. CASE ~(num_atexit < Len(atexits))
      <4>1. pc' = "crashed" /\ UNCHANGED atexits
        BY <2>1, <3>2 DEF Store
      <4>2. starved
        BY <1>1, <1>2, <2>2, <3>2 DEF Full, TableSize, Inv, TypeOK
      <4> QED
        BY <2>1, <4>1, <4>2 DEF TableSize
    <3> QED
      BY <3>1, <3>2
  <2> QED
    BY <2>3, <2>4 DEF Inv
<1>3. CASE Full
  <2>1. Grow
    BY <1>3 DEF atexit
  <2>2. ~starved /\ max_atexit = (IF atexits = <<>> THEN -1 ELSE Len(atexits))
    BY <1>1, <1>3 DEF Full, TableSize, Inv, TypeOK
  <2>3. num_atexit = Len(atexits) /\ max_atexit' = max_atexit + Growth
    <3>1. /\ num_atexit \in Nat /\ Len(atexits) \in Nat
          /\ atexits = <<>> => Len(atexits) = 0
      BY DEF Inv, TypeOK
    <3>2. num_atexit <= Len(atexits)
      <4>1. num_atexit # 0 => num_atexit \in 1..num_atexit
        BY <3>1
      <4> QED
        BY <3>1, <4>1 DEF Inv, Entries
    <3>3. num_atexit >= max_atexit /\ max_atexit' = max_atexit + Growth
      BY <1>3, <2>1 DEF Full, Grow
    <3> QED
      BY <2>2, <3>1, <3>2, <3>3
  <2>4. CASE Store(Copied(max_atexit'), calls') /\ UNCHANGED starved
    <3> DEFINE table == Copied(max_atexit')
    <3>1. /\ table \in Seq(0..MaxHandlers)
          /\ Len(table) = max_atexit'
          /\ max_atexit' \in Int /\ max_atexit' > 0
          /\ num_atexit < max_atexit'
          /\ \A k \in 1..num_atexit : table[k] = atexits[k]
      <4>1. /\ max_atexit' \in Int /\ max_atexit' > 0
            /\ num_atexit < max_atexit'
            /\ num_atexit <= max_atexit' - Growth \/ num_atexit = 0
            /\ max_atexit' - Growth <= Len(atexits)
        <5>1. Len(atexits) \in Nat /\ (atexits = <<>> => Len(atexits) = 0)
          BY DEF Inv, TypeOK
        <5> QED
          BY <2>2, <2>3, <5>1
      <4> QED
        BY <4>1, CopiedKeeps DEF Inv
    <3>2. TypeOK' /\ Entries' /\ Progress'
      <4> HIDE DEF table
      <4>1. num_atexit <= Len(table) /\ max_atexit' \in Int /\ Store(table, calls')
        BY <2>4, <3>1 DEF table, Inv, TypeOK
      <4> QED
        BY <1>1, <2>4, <3>1, <4>1, StoreKeeps
    <3>3. TableSize'
      <4>1. pc' = pc /\ atexits' = [table EXCEPT ![num_atexit + 1] = calls']
        BY <2>4, <3>1 DEF Store, Inv, TypeOK
      <4>2. Len(atexits') = max_atexit' /\ atexits' # <<>>
        BY <3>1, <4>1
      <4> QED
        BY <2>2, <2>4, <1>1, <4>1, <4>2 DEF TableSize
    <3> QED
      BY <3>2, <3>3 DEF Inv
  <2>5. CASE starved' = TRUE /\ UNCHANGED <<atexits, num_atexit, promised, pc>>
    <3>1. num_atexit = Len(atexits) /\ num_atexit < max_atexit'
      <4>1. Len(atexits) \in Nat /\ (atexits = <<>> => Len(atexits) = 0)
        BY DEF Inv, TypeOK
      <4> QED
        BY <2>2, <2>3, <4>1
    <3>2. TypeOK'
      BY <1>1, <2>3, <2>5 DEF Inv, TypeOK
    <3>3. TableSize' /\ Entries' /\ Progress'
      BY <1>1, <2>5, <3>1 DEF TableSize, Entries, Progress, Inv, TypeOK
    <3> QED
      BY <3>2, <3>3 DEF Inv
  <2> QED
    BY <2>1, <2>4, <2>5 DEF Grow
<1> QED
  BY <1>2, <1>3

LEMMA ExitInv == Inv /\ Exit => Inv'
<1> SUFFICES ASSUME Inv, Exit PROVE Inv'
  OBVIOUS
<1> USE CrtAssumption DEF Exit
<1>1. /\ due' \in Seq(1..MaxHandlers)
      /\ Len(due') = Len(promised)
      /\ \A k \in 1..Len(due') : due'[k] = promised[Len(due') + 1 - k]
  BY DEF Reverse, Inv, TypeOK
<1>2. TypeOK'
  BY <1>1 DEF Inv, TypeOK
<1>3. TableSize' /\ Entries'
  BY DEF TableSize, Entries, Inv
<1>4. Progress'
  BY <1>1 DEF Progress, Entries, Inv, TypeOK
<1> QED
  BY <1>2, <1>3, <1>4 DEF Inv

LEMMA CallInv == Inv /\ CallHandler => Inv'
<1> SUFFICES ASSUME Inv, CallHandler PROVE Inv'
  OBVIOUS
<1> USE CrtAssumption DEF CallHandler, NextIndex
<1>1. /\ i + 1 \in 1..Len(due) /\ i + 1 \in 1..num_atexit
      /\ Len(due) - i = Len(ran) + 1
  <2>1. Len(due) \in Nat /\ Len(ran) \in Nat /\ num_atexit \in Nat /\ i \in Int
    BY DEF Inv, TypeOK
  <2>2. Len(due) <= num_atexit /\ Len(due) = Len(ran) + i + 1 /\ i >= 0
    BY DEF Inv, Progress
  <2> QED
    BY <2>1, <2>2
<1>2. /\ i < Len(atexits)
      /\ atexits[i + 1] = promised[i + 1]
      /\ promised[i + 1] \in 1..MaxHandlers
      /\ promised[i + 1] = due[Len(ran) + 1]
  <2>1. i + 1 \in 1..Len(promised)
    BY <1>1 DEF Entries, Inv
  <2>2. /\ Len(ran) + 1 \in 1..Len(due)
        /\ Len(due) + 1 - (Len(ran) + 1) = i + 1
    <3>1. Len(due) \in Nat /\ Len(ran) \in Nat /\ i \in Int
      BY DEF Inv, TypeOK
    <3> QED
      BY <1>1, <3>1
  <2>3. due[Len(ran) + 1] = promised[i + 1]
    BY <2>2 DEF Progress, Inv
  <2>4. i < Len(atexits) /\ atexits[i + 1] = promised[i + 1]
    BY <1>1 DEF Entries, Inv, TypeOK
  <2>5. promised[i + 1] \in 1..MaxHandlers
    BY <2>1 DEF Inv, TypeOK
  <2> QED
    BY <2>3, <2>4, <2>5
<1>3. ran' = Append(ran, due[Len(ran) + 1]) /\ pc' = "exit" /\ i' = i - 1
  BY <1>2
<1>4. TypeOK'
  BY <1>2, <1>3 DEF Inv, TypeOK
<1>5. TableSize' /\ Entries'
  BY <1>3 DEF TableSize, Entries, Inv
<1>6. Progress'
  <2>1. /\ Len(ran') = Len(ran) + 1
        /\ \A k \in 1..Len(ran) : ran'[k] = ran[k]
        /\ ran'[Len(ran) + 1] = due[Len(ran) + 1]
    BY <1>2, <1>3 DEF Inv, TypeOK
  <2>2. Len(due) \in Nat /\ Len(ran) \in Nat /\ i \in Int
    BY DEF Inv, TypeOK
  <2>3. Len(ran') <= Len(due) /\ Len(due) = Len(ran') + i' + 1
    BY <1>1, <1>3, <2>1, <2>2
  <2>4. \A k \in 1..Len(ran') : ran'[k] = due[k]
    BY <2>1, <2>2 DEF Progress, Inv
  <2> QED
    BY <1>3, <2>3, <2>4 DEF Progress, Inv
<1> QED
  BY <1>4, <1>5, <1>6 DEF Inv

LEMMA StepInv == Inv /\ [Next]_vars => Inv'
<1> SUFFICES ASSUME Inv, [Next]_vars PROVE Inv'
  OBVIOUS
<1>1. CASE atexit
  BY <1>1, RegisterInv
<1>2. CASE Main
  BY <1>2 DEF Main, Inv, TypeOK, TableSize, Entries, Progress
<1>3. CASE Exit
  BY <1>3, ExitInv
<1>4. CASE CallHandler
  BY <1>4, CallInv
<1>5. CASE Over
  BY <1>5 DEF Over, Inv, TypeOK, TableSize, Entries, Progress
<1>6. CASE UNCHANGED vars
  BY <1>6 DEF vars, Inv, TypeOK, TableSize, Entries, Progress
<1> QED
  BY <1>1, <1>2, <1>3, <1>4, <1>5, <1>6 DEF Next

LEMMA AlwaysInv == Spec => []Inv
  BY InitInv, StepInv, PTL DEF Spec

\* The variables keep their types, however many handlers register.
THEOREM CrtTypeCorrect == Spec => []TypeOK
  BY AlwaysInv, PTL DEF Inv

\* atexit's table grows in time and keeps every handler it promised
\* (crt0data.cpp:80-92), for every growth of more than one entry.
THEOREM CrtTableHolds == Spec => []TableHolds
<1>1. Inv => TableHolds
  BY DEF Inv, TableSize, Entries, TableHolds
<1> QED
  BY <1>1, AlwaysInv, PTL

\* _g_finit runs what was registered when exit began, once each and last first
\* (crt0data.cpp:97-103), whatever its handlers register.
THEOREM CrtLastFirst == Spec => []LastFirst
<1>1. Inv => LastFirst
  BY DEF Inv, Progress, LastFirst
<1> QED
  BY <1>1, AlwaysInv, PTL
=============================================================================

---------------------------- MODULE SocketProofs ----------------------------
(***************************************************************************)
(* Proofs about Socket, for any number of descriptors, blocks of memory    *)
(* and calls, and whatever numbers an error status becomes when Socket     *)
(* returns it as an int.                                                   *)
(***************************************************************************)
EXTENDS Socket, FiniteSetTheorems, SequenceTheorems, TLAPS

Types ==
  /\ TypeOK
  /\ op \in {"none", "socket", "connect", "send", "recv", "close"}
  /\ opened \subseteq Fds
  /\ earned \in [Memory -> SUBSET Token] /\ overlapped \subseteq Memory

\* What each call may rely on about its socket.
CallInv ==
  /\ pc # "idle" => mem[this] = "live"
  /\ pc \in {"request", "report"} => op \in {"connect", "send", "recv"}
  /\ pc \in {"report", "child", "events", "free"} => proto[this]
  /\ pc \in {"child", "events", "free"} => op = "close"
  /\ pc \in {"events", "free"} => child[this] = "destroyed"

\* A struct, its child, its events and the tokens in the stack come and go in
\* this order.
HeapInv == \A s \in Memory :
  /\ mem[s] # "live" => child[s] \in {"none", "destroyed"}
  /\ mem[s] = "none" => child[s] = "none"
  /\ proto[s] => mem[s] = "live" /\ child[s] # "none"
  /\ proto[s] => events[s] = Token \/ (this = s /\ pc = "free")
  /\ queue[s] # {} => proto[s] /\ child[s] \notin {"none", "closed", "destroyed"}
  /\ child[s] = "destroyed" => mem[s] = "freed" \/ (this = s /\ pc \in {"events", "free"})

\* Socketfd and the live structs correspond one to one.
TableInv ==
  /\ \A i, j \in Fds : Socketfd[i] = Socketfd[j] /\ Socketfd[i] # NULL => i = j
  /\ \A i \in Fds : Socketfd[i] # NULL => mem[Socketfd[i]] = "live"
  /\ \A s \in Memory : mem[s] = "live" => \E i \in Fds : Socketfd[i] = s

\* The descriptors that Socket opened are those of sockets that are not being
\* closed; a call goes wrong only with another.
FdsInv ==
  /\ \A fd \in opened :
       /\ Socketfd[fd] # NULL /\ proto[Socketfd[fd]]
       /\ pc \in {"child", "events", "free"} => Socketfd[fd] # this
  /\ fault => fds # opened

\* A token's status is EFI_SUCCESS only if it was earned.
EarnedInv ==
  /\ \A s \in Memory : proto[s] =>
       \A t \in {"send", "recv"} : tstatus[s][t] = "success" => t \in earned[s]
  /\ pc = "idle" /\ op \in {"send", "recv"} /\ ret = "success" =>
       this \in Memory /\ op \in earned[this]

\* A Send that the stack has not taken the data of, or is about to be given.
Coming(s) == pc = "request" /\ op = "send" /\ this = s /\ proto[s]
Fresh(s) == Coming(s) \/ ("send" \in queue[s] /\ ~taken[s])

\* The data in m_TransData is the latest of its socket.
OrderInv ==
  /\ \A s \in Memory : txData[s] <= sends /\ (taken[s] => "send" \in queue[s])
  /\ \A s \in Memory \ overlapped :
       /\ Increasing(peer[s])
       /\ \A k \in DOMAIN peer[s] : peer[s][k] <= txData[s]
       /\ Fresh(s) => \A k \in DOMAIN peer[s] : peer[s][k] < txData[s]
       /\ Coming(s) => "send" \notin queue[s]

Inv == /\ Types /\ CallInv /\ HeapInv /\ TableInv /\ FdsInv /\ EarnedInv
       /\ OrderInv

-----------------------------------------------------------------------------
LEMMA InitInv == Init => Inv
<1> SUFFICES ASSUME Init PROVE Inv
  OBVIOUS
<1> USE SocketAssumption DEF Init
<1>1. Types
  <2>1. <<>> \in Seq(0..MaxSends)
    BY EmptySeq
  <2>2. 0 \in 0..MaxSends
    OBVIOUS
  <2> QED
    BY <2>1, <2>2 DEF Types, TypeOK, Token
<1>2. CallInv /\ HeapInv /\ FdsInv /\ EarnedInv
  BY DEF CallInv, HeapInv, FdsInv, EarnedInv
<1>3. TableInv
  BY DEF TableInv
<1>4. OrderInv
  BY DEF OrderInv, Increasing, Fresh, Coming
<1> QED
  BY <1>1, <1>2, <1>3, <1>4 DEF Inv

-----------------------------------------------------------------------------
(* The network stack *)

\* A step of the stack changes a socket that has a child and a token in the
\* stack; the table and the call under way stay as they are.
LEMMA StackFrame ==
  ASSUME Inv, NEW s \in Memory, NEW t \in queue[s],
         NEW st \in {"success", "aborted"}, Complete(s, t, st),
         child' \in [Memory -> {"none", "closed", "configured", "connecting",
                                "connected", "disconnecting", "destroyed"}],
         \A r \in Memory : child'[r] # child[r] =>
           r = s /\ child[s] \in {"connecting", "connected", "disconnecting"}
                 /\ child'[s] \in {"configured", "connected"},
         taken' \in [Memory -> BOOLEAN],
         \A r \in Memory : taken'[r] = (taken[r] /\ "send" \in queue'[r]),
         UNCHANGED <<sockVars, txData, peer, callVars, sends, fault, overlapped>>
  PROVE  Inv'
<1> USE DEF sockVars, callVars, fdVars, Complete
<1>1. t \in Token /\ queue' \in [Memory -> SUBSET Token]
      /\ \A r \in Memory : queue'[r] \subseteq queue[r]
  BY DEF Inv, Types, TypeOK
<1>2. /\ proto[s] /\ mem[s] = "live" /\ child[s] \notin {"none", "closed", "destroyed"}
      /\ \A r \in Memory : child'[r] = "destroyed" <=> child[r] = "destroyed"
      /\ \A r \in Memory : child'[r] = "none" <=> child[r] = "none"
      /\ \A r \in Memory : child'[r] = "closed" => child[r] = "closed"
  BY DEF Inv, HeapInv
<1>3. Types'
  BY <1>1 DEF Inv, Types, TypeOK, Token
<1>4. CallInv' /\ TableInv' /\ FdsInv'
  BY <1>2 DEF Inv, Types, TypeOK, CallInv, TableInv, FdsInv
<1>5. HeapInv'
  BY <1>1, <1>2 DEF Inv, HeapInv
<1>6. EarnedInv'
  <2>1. \A r \in Memory : earned[r] \subseteq earned'[r]
    BY DEF Inv, Types
  <2>2. \A r \in Memory, u \in {"send", "recv"} :
          tstatus'[r][u] = "success" => tstatus[r][u] = "success" \/ u \in earned'[r]
    <3>1. \A r \in Memory, u \in Token :
            tstatus'[r][u] = IF r = s /\ u = t THEN st ELSE tstatus[r][u]
      BY <1>1 DEF Inv, Types, TypeOK
    <3>2. st = "success" /\ t \in {"send", "recv"} => t \in earned'[s]
      BY DEF Inv, Types
    <3> QED
      BY <3>1, <3>2 DEF Token
  <2> QED
    BY <2>1, <2>2 DEF Inv, EarnedInv
<1>7. OrderInv'
  BY <1>1 DEF Inv, Types, TypeOK, OrderInv, Fresh, Coming
<1> QED
  BY <1>3, <1>4, <1>5, <1>6, <1>7 DEF Inv

LEMMA TakeDataInv ==
  ASSUME Inv, NEW s \in Memory, TakeData(s)
  PROVE  Inv'
<1> USE SocketAssumption DEF TakeData, sockVars, callVars, fdVars
<1>1. /\ peer[s] \in Seq(0..MaxSends) /\ txData[s] \in 0..MaxSends
      /\ peer'[s] = Append(peer[s], txData[s])
      /\ \A r \in Memory \ {s} : peer'[r] = peer[r] /\ taken'[r] = taken[r]
      /\ taken'[s] = TRUE
  BY DEF Inv, Types, TypeOK
<1>2. Types'
  <2>1. peer'[s] \in Seq(0..MaxSends)
    <3>1. \A q \in Seq(0..MaxSends), x \in 0..MaxSends : Append(q, x) \in Seq(0..MaxSends)
      OBVIOUS
    <3> QED
      BY <1>1, <3>1, Zenon
  <2>2. peer' \in [Memory -> Seq(0..MaxSends)]
    BY <2>1 DEF Inv, Types, TypeOK
  <2> QED
    BY <2>2 DEF Inv, Types, TypeOK
<1>3. CallInv' /\ HeapInv' /\ TableInv' /\ FdsInv' /\ EarnedInv'
  BY DEF Inv, CallInv, HeapInv, TableInv, FdsInv, EarnedInv
<1>4. OrderInv'
  <2>1. ASSUME s \notin overlapped
        PROVE  /\ Increasing(peer'[s])
               /\ \A k \in DOMAIN peer'[s] : peer'[s][k] <= txData[s]
               /\ ~Coming(s)
    <3>1. /\ \A k \in 1..Len(peer[s]) : peer[s][k] < txData[s]
          /\ \A i, j \in 1..Len(peer[s]) : i < j => peer[s][i] < peer[s][j]
          /\ ~Coming(s)
      BY <1>1, <2>1 DEF Inv, OrderInv, Fresh, Increasing
    <3>2. /\ DOMAIN peer'[s] = 1..(Len(peer[s]) + 1)
          /\ \A k \in 1..Len(peer[s]) : peer'[s][k] = peer[s][k]
          /\ peer'[s][Len(peer[s]) + 1] = txData[s]
          /\ \A k \in 1..Len(peer[s]) : peer[s][k] \in 0..MaxSends
      BY <1>1
    <3>3. Len(peer[s]) \in Nat
      BY <1>1
    <3>4. ASSUME NEW i \in DOMAIN peer'[s], NEW j \in DOMAIN peer'[s], i < j
          PROVE  peer'[s][i] < peer'[s][j]
      <4>1. i \in 1..Len(peer[s]) /\ (j \in 1..Len(peer[s]) \/ j = Len(peer[s]) + 1)
        BY <3>2, <3>3, <3>4
      <4> QED
        BY <3>1, <3>2, <3>4, <4>1
    <3>5. ASSUME NEW k \in DOMAIN peer'[s]
          PROVE  peer'[s][k] <= txData[s]
      <4>1. k \in 1..Len(peer[s]) \/ k = Len(peer[s]) + 1
        BY <3>2, <3>3, <3>5
      <4>2. CASE k \in 1..Len(peer[s])
        BY <1>1, <3>1, <3>2, <4>2
      <4>3. CASE k = Len(peer[s]) + 1
        BY <1>1, <3>2, <4>3
      <4> QED
        BY <4>1, <4>2, <4>3
    <3> QED
      BY <3>1, <3>4, <3>5 DEF Increasing
  <2> QED
    BY <1>1, <2>1 DEF Inv, OrderInv, Fresh, Coming
<1> QED
  BY <1>2, <1>3, <1>4 DEF Inv

LEMMA StackInv == Inv /\ Stack => Inv'
<1> SUFFICES ASSUME Inv, NEW s \in Memory,
                    \/ Established(s) \/ Broken(s) \/ TakeData(s)
                    \/ Acknowledged(s) \/ Received(s) \/ Closed(s)
             PROVE  Inv'
  BY DEF Stack
<1> USE DEF Inv, Types, TypeOK
<1>0. /\ \A r \in Memory : taken[r] \in BOOLEAN /\ (taken[r] => "send" \in queue[r])
      /\ \A t \in queue[s] : t \in Token
  BY DEF OrderInv
<1>1. CASE Established(s)
  <2>1. Complete(s, "connect", "success") /\ "connect" \in queue[s]
    BY <1>1 DEF Established
  <2>2. /\ child' \in [Memory -> {"none", "closed", "configured", "connecting",
                                "connected", "disconnecting", "destroyed"}]
        /\ \A r \in Memory : child'[r] # child[r] =>
             r = s /\ child[s] \in {"connecting", "connected", "disconnecting"}
                   /\ child'[s] \in {"configured", "connected"}
    BY <1>1 DEF Established
  <2>3. /\ taken' \in [Memory -> BOOLEAN]
        /\ \A r \in Memory : taken'[r] = (taken[r] /\ "send" \in queue'[r])
    BY <1>0, <1>1 DEF Established, Complete
  <2> QED
    BY <1>1, <2>1, <2>2, <2>3, StackFrame DEF Established
<1>2. CASE Broken(s)
  <2>1. PICK t \in queue[s] : Complete(s, t, "aborted")
    BY <1>2 DEF Broken
  <2>2. /\ child' \in [Memory -> {"none", "closed", "configured", "connecting",
                                "connected", "disconnecting", "destroyed"}]
        /\ \A r \in Memory : child'[r] # child[r] =>
             r = s /\ child[s] \in {"connecting", "connected", "disconnecting"}
                   /\ child'[s] \in {"configured", "connected"}
    BY <1>2 DEF Broken
  <2>3. /\ taken' \in [Memory -> BOOLEAN]
        /\ \A r \in Memory : taken'[r] = (taken[r] /\ "send" \in queue'[r])
    BY <1>0, <1>2, <2>1 DEF Broken, Complete
  <2> QED
    BY <1>2, <2>1, <2>2, <2>3, StackFrame DEF Broken
<1>3. CASE TakeData(s)
  BY <1>3, TakeDataInv
<1>4. CASE Acknowledged(s)
  <2>1. Complete(s, "send", "success") /\ "send" \in queue[s]
    BY <1>4 DEF Acknowledged
  <2>2. /\ taken' \in [Memory -> BOOLEAN]
        /\ \A r \in Memory : taken'[r] = (taken[r] /\ "send" \in queue'[r])
    BY <1>0, <1>4 DEF Acknowledged, Complete
  <2> QED
    BY <1>4, <2>1, <2>2, StackFrame DEF Acknowledged
<1>5. CASE Received(s)
  <2>1. PICK st \in {"success", "aborted"} : Complete(s, "recv", st)
    BY <1>5 DEF Received
  <2>2. /\ taken' \in [Memory -> BOOLEAN]
        /\ \A r \in Memory : taken'[r] = (taken[r] /\ "send" \in queue'[r])
    BY <1>0, <1>5, <2>1 DEF Received, Complete
  <2> QED
    BY <1>5, <2>1, <2>2, StackFrame DEF Received
<1>6. CASE Closed(s)
  <2>1. Complete(s, "close", "success") /\ "close" \in queue[s]
    BY <1>6 DEF Closed
  <2>2. /\ taken' \in [Memory -> BOOLEAN]
        /\ \A r \in Memory : taken'[r] = (taken[r] /\ "send" \in queue'[r])
    BY <1>0, <1>6 DEF Closed, Complete
  <2> QED
    BY <1>6, <2>1, <2>2, StackFrame DEF Closed
<1> QED
  BY <1>1, <1>2, <1>3, <1>4, <1>5, <1>6

-----------------------------------------------------------------------------
(* The calls *)

\* The three ways through Socket and Initialize that take a slot.
LEMMA SlotTaken ==
  ASSUME Inv, pc = "idle", ~fault,
         NEW i \in Fds, NEW s \in Memory, NEW all \in BOOLEAN,
         FreeSlot(i), mem[s] = "none",
         mem' = [mem EXCEPT ![s] = "live"],
         Socketfd' = [Socketfd EXCEPT ![i] = s],
         \/ child' = child /\ ~all
         \/ child' = [child EXCEPT ![s] = "closed"],
         all => /\ proto' = [proto EXCEPT ![s] = TRUE]
                /\ events' = [events EXCEPT ![s] = Token]
                /\ tstatus' = [tstatus EXCEPT ![s] = [t \in Token |-> "aborted"]]
                /\ opened' = opened \union {i} /\ i \in fds',
         ~all => UNCHANGED <<proto, events, tstatus, opened>>,
         fds \subseteq fds', fds' \subseteq Fds \union ErrorFds \union {-1},
         op' = "socket", this' = NULL,
         UNCHANGED <<txData, queue, taken, peer, pc, sends, fault, earned, overlapped>>
  PROVE  Inv'
<1> USE SocketAssumption
<1>1. Socketfd[i] = NULL /\ i \notin opened
  BY DEF FreeSlot, Inv, FdsInv
<1>2. ~proto[s] /\ queue[s] = {} /\ child[s] = "none" /\ s # NULL
  BY DEF Inv, Types, TypeOK, HeapInv
<1>3. \A j \in Fds : Socketfd[j] # s
  BY <1>2 DEF Inv, TableInv
<1>4. \A j \in Fds : Socketfd'[j] = IF j = i THEN s ELSE Socketfd[j]
  BY DEF Inv, Types, TypeOK
<1>5. /\ \A r \in Memory : mem'[r] = IF r = s THEN "live" ELSE mem[r]
      /\ \A r \in Memory \ {s} : child'[r] = child[r] /\ proto'[r] = proto[r]
                           /\ events'[r] = events[r] /\ tstatus'[r] = tstatus[r]
      /\ proto'[s] = all /\ child'[s] \in {"none", "closed"}
      /\ all => /\ child'[s] = "closed" /\ events'[s] = Token
                /\ \A t \in Token : tstatus'[s][t] = "aborted"
  <2>1. \A r \in Memory : mem'[r] = IF r = s THEN "live" ELSE mem[r]
    BY DEF Inv, Types, TypeOK
  <2>2. CASE all
    BY <1>2, <2>1, <2>2 DEF Inv, Types, TypeOK
  <2>3. CASE ~all
    BY <1>2, <2>1, <2>3 DEF Inv, Types, TypeOK
  <2> QED
    BY <2>2, <2>3
<1>6. Types'
  <2>1. /\ Socketfd' \in [Fds -> Memory \union {NULL}]
        /\ mem' \in [Memory -> {"none", "live", "freed"}]
        /\ child' \in [Memory -> {"none", "closed", "configured", "connecting",
                                  "connected", "disconnecting", "destroyed"}]
    BY DEF Inv, Types, TypeOK
  <2>2. /\ tstatus' \in [Memory -> [Token -> {"success", "aborted"}]]
        /\ proto' \in [Memory -> BOOLEAN] /\ events' \in [Memory -> SUBSET Token]
        /\ opened' \subseteq Fds /\ opened' \subseteq fds'
    <3>1. CASE all
      <4>1. [t \in Token |-> "aborted"] \in [Token -> {"success", "aborted"}]
        OBVIOUS
      <4>2. tstatus' \in [Memory -> [Token -> {"success", "aborted"}]]
        BY <3>1, <4>1 DEF Inv, Types, TypeOK
      <4>3. proto' \in [Memory -> BOOLEAN] /\ events' \in [Memory -> SUBSET Token]
        <5>1. /\ proto \in [Memory -> BOOLEAN] /\ events \in [Memory -> SUBSET Token]
              /\ proto' = [proto EXCEPT ![s] = TRUE]
              /\ events' = [events EXCEPT ![s] = Token]
          BY <3>1 DEF Inv, Types, TypeOK
        <5>2. Token \in SUBSET Token
          OBVIOUS
        <5>3. proto' \in [Memory -> BOOLEAN]
          BY <5>1, Zenon
        <5> QED
          BY <5>1, <5>2, <5>3
      <4>4. opened' \subseteq Fds /\ opened' \subseteq fds'
        BY <3>1 DEF Inv, Types, TypeOK
      <4> QED
        BY <4>2, <4>3, <4>4
    <3>2. CASE ~all
      BY <3>2 DEF Inv, Types, TypeOK
    <3> QED
      BY <3>1, <3>2
  <2> QED
    BY <2>1, <2>2 DEF Inv, Types, TypeOK
<1>7. CallInv'
  BY DEF Inv, CallInv
<1>8. HeapInv'
  BY <1>2, <1>5 DEF Inv, HeapInv
<1>9. TableInv'
  BY <1>1, <1>2, <1>3, <1>4, <1>5 DEF Inv, Types, TypeOK, TableInv
<1>10. FdsInv'
  <2>1. ASSUME NEW fd \in opened'
        PROVE  Socketfd'[fd] # NULL /\ proto'[Socketfd'[fd]]
    <3>1. CASE fd \in opened
      <4>1. fd \in Fds /\ Socketfd[fd] # NULL /\ proto[Socketfd[fd]] /\ fd # i
        BY <1>1, <3>1 DEF Inv, Types, FdsInv
      <4>2. Socketfd[fd] \in Memory \ {s}
        BY <1>3, <4>1 DEF Inv, Types, TypeOK
      <4> QED
        BY <1>4, <1>5, <4>1, <4>2
    <3>2. CASE all /\ fd = i
      BY <1>2, <1>4, <1>5, <3>2
    <3> QED
      BY <2>1, <3>1, <3>2
  <2> QED
    BY <2>1 DEF FdsInv
<1>11. EarnedInv'
  BY <1>5 DEF Inv, EarnedInv, Token
<1>12. OrderInv'
  BY DEF Inv, OrderInv, Fresh, Coming
<1> QED
  BY <1>6, <1>7, <1>8, <1>9, <1>10, <1>11, <1>12 DEF Inv

LEMMA NewSocketInv ==
  ASSUME Inv, NewSocket
  PROVE  Inv'
<1>0. /\ pc = "idle" /\ ~fault /\ pc' = pc /\ op' = "socket" /\ this' = NULL
      /\ fds' = fds \union {ret'}
      /\ UNCHANGED <<txData, queue, taken, peer, pc, sends, fault, earned, overlapped>>
  BY DEF NewSocket
<1>1. CASE /\ ret' = -1 \/ ret' \in Fds
           /\ UNCHANGED <<sockVars, tstatus, child, opened>>
  <2>1. Types'
    BY <1>0, <1>1 DEF Inv, Types, TypeOK, sockVars
  <2>2. CallInv' /\ HeapInv' /\ TableInv' /\ FdsInv' /\ EarnedInv'
    BY <1>0, <1>1 DEF Inv, CallInv, HeapInv, TableInv, FdsInv, EarnedInv, sockVars
  <2>3. OrderInv'
    BY <1>0, <1>1 DEF Inv, OrderInv, Fresh, Coming
  <2> QED
    BY <2>1, <2>2, <2>3 DEF Inv
<1>2. CASE ~( /\ ret' = -1 \/ ret' \in Fds
              /\ UNCHANGED <<sockVars, tstatus, child, opened>>)
  <2>1. PICK i \in Fds, s \in Memory, got \in {"nothing", "child", "all"} :
          /\ FreeSlot(i) /\ mem[s] = "none"
          /\ mem' = [mem EXCEPT ![s] = "live"]
          /\ Socketfd' = [Socketfd EXCEPT ![i] = s]
          /\ child' = [child EXCEPT ![s] = IF got = "nothing" THEN @ ELSE "closed"]
          /\ IF got = "all"
             THEN /\ proto' = [proto EXCEPT ![s] = TRUE]
                  /\ events' = [events EXCEPT ![s] = Token]
                  /\ tstatus' = [tstatus EXCEPT ![s] = [t \in Token |-> FirstStatus]]
                  /\ ret' = i
                  /\ opened' = opened \union {i}
             ELSE /\ ret' \in ErrorFds
                  /\ UNCHANGED <<proto, events, tstatus, opened>>
    BY <1>2 DEF NewSocket
  <2>2. fds \subseteq Fds \union ErrorFds \union {-1}
    BY DEF Inv, Types, TypeOK
  <2>3. CASE got = "all"
    <3>1. /\ proto' = [proto EXCEPT ![s] = TRUE]
          /\ events' = [events EXCEPT ![s] = Token]
          /\ tstatus' = [tstatus EXCEPT ![s] = [t \in Token |-> "aborted"]]
          /\ opened' = opened \union {i} /\ i \in fds'
          /\ child' = [child EXCEPT ![s] = "closed"]
          /\ fds \subseteq fds' /\ fds' \subseteq Fds \union ErrorFds \union {-1}
      BY <1>0, <2>1, <2>2, <2>3 DEF FirstStatus
    <3> QED
      BY <1>0, <2>1, <3>1, SlotTaken
  <2>4. CASE got # "all"
    <3>1. /\ UNCHANGED <<proto, events, tstatus, opened>>
          /\ fds \subseteq fds' /\ fds' \subseteq Fds \union ErrorFds \union {-1}
      BY <1>0, <2>1, <2>2, <2>4
    <3>2. child' = child \/ child' = [child EXCEPT ![s] = "closed"]
      BY <2>1 DEF Inv, Types, TypeOK
    <3> QED
      BY <1>0, <2>1, <3>1, <3>2, SlotTaken
  <2> QED
    BY <2>3, <2>4
<1> QED
  BY <1>1, <1>2

\* A call that finds a socket has a live struct; Close finds a whole socket.
LEMMA BeginFacts ==
  ASSUME Inv, NEW o, NEW fd, NEW next, Begin(o, fd, next), ~fault'
  PROVE  /\ pc = "idle" /\ op' = o /\ pc' = next /\ fault' = fault
         /\ fd \in fds /\ fd \in Fds
         /\ this' = Socketfd[fd] /\ this' \in Memory /\ mem[this'] = "live"
         /\ o = "close" => proto[this'] /\ ret' = Answer(this', o)
         /\ o # "close" => ret' = "none"
<1>1. /\ pc = "idle" /\ fd \in fds /\ fd \in Fds /\ Socketfd[fd] # NULL
      /\ o = "close" => proto[Socketfd[fd]]
      /\ this' = Socketfd[fd] /\ pc' = next /\ op' = o /\ fault' = fault
      /\ ret' = IF o = "close" THEN Answer(Socketfd[fd], o) ELSE "none"
  BY DEF Begin
<1>2. Socketfd[fd] \in Memory /\ mem[Socketfd[fd]] = "live"
  BY <1>1 DEF Inv, Types, TypeOK, TableInv
<1> QED
  BY <1>1, <1>2

\* A call goes wrong only with a number that is not an open descriptor.
LEMMA FaultInv ==
  ASSUME Inv, NEW o \in {"connect", "send", "recv", "close"}, NEW fd \in fds,
         NEW next, Begin(o, fd, next), fault',
         sends' \in 0..MaxSends, sends <= sends',
         UNCHANGED <<sockVars, tstatus, txData, stackVars, fdVars, earned, overlapped>>
  PROVE  Inv'
<1> USE SocketAssumption DEF sockVars, stackVars, fdVars
<1>1. /\ pc = "idle" /\ pc' = pc /\ this' = this /\ ret' = "none" /\ op' = o
      /\ ~(/\ fd \in Fds /\ Socketfd[fd] # NULL
           /\ o = "close" => proto[Socketfd[fd]])
  BY DEF Begin
<1>2. fd \notin opened
  BY <1>1 DEF Inv, Types, FdsInv
<1>3. Types'
  BY <1>1 DEF Inv, Types, TypeOK
<1>4. CallInv' /\ HeapInv' /\ TableInv' /\ EarnedInv'
  BY <1>1 DEF Inv, CallInv, HeapInv, TableInv, EarnedInv
<1>5. FdsInv'
  BY <1>1, <1>2 DEF Inv, FdsInv
<1>6. OrderInv'
  <2>1. \A s \in Memory : txData[s] \in Int /\ sends \in Int /\ sends' \in Int
    BY DEF Inv, Types, TypeOK
  <2>2. \A s \in Memory : txData[s] <= sends'
    BY <2>1 DEF Inv, OrderInv
  <2>3. \A s \in Memory : ~Coming(s)' /\ (Fresh(s)' => Fresh(s))
    BY <1>1 DEF Fresh, Coming
  <2> QED
    BY <2>2, <2>3 DEF Inv, OrderInv
<1> QED
  BY <1>3, <1>4, <1>5, <1>6 DEF Inv

LEMMA ConnectInv ==
  ASSUME Inv, NEW fd \in fds, Connect(fd) \/ ConfigureFails(fd)
  PROVE  Inv'
<1>0. /\ Begin("connect", fd, "request")
      /\ UNCHANGED <<sockVars, tstatus, txData, queue, taken, peer, fdVars, sends,
                     earned, overlapped>>
      /\ \/ child' = child
         \/ ~fault' /\ proto[this'] /\ child[this'] = "closed"
            /\ child' = [child EXCEPT ![this'] = "configured"]
  BY DEF Connect, ConfigureFails, stackVars
<1>1. CASE fault'
  <2>1. sends' \in 0..MaxSends /\ sends <= sends'
    BY <1>0 DEF Inv, Types, TypeOK
  <2>2. UNCHANGED <<sockVars, tstatus, txData, stackVars, fdVars, earned, overlapped>>
    BY <1>0, <1>1 DEF stackVars
  <2> QED
    BY <1>0, <1>1, <2>1, <2>2, FaultInv
<1>2. CASE ~fault'
  <2> USE DEF sockVars, fdVars
  <2>1. /\ pc = "idle" /\ op' = "connect" /\ pc' = "request" /\ fault' = fault
        /\ this' \in Memory /\ mem[this'] = "live"
    BY <1>0, <1>2, BeginFacts
  <2>2. /\ child' \in [Memory -> {"none", "closed", "configured", "connecting",
                                  "connected", "disconnecting", "destroyed"}]
        /\ \A s \in Memory : child'[s] # child[s] =>
             mem[s] = "live" /\ child[s] = "closed" /\ child'[s] = "configured"
    BY <1>0, <2>1 DEF Inv, Types, TypeOK
  <2>3. Types'
    BY <1>0, <2>1, <2>2 DEF Inv, Types, TypeOK
  <2>4. CallInv' /\ HeapInv'
    BY <1>0, <2>1, <2>2 DEF Inv, CallInv, HeapInv
  <2>5. TableInv' /\ FdsInv' /\ EarnedInv'
    BY <1>0, <2>1 DEF Inv, TableInv, FdsInv, EarnedInv
  <2>6. OrderInv'
    BY <1>0, <2>1 DEF Inv, OrderInv, Fresh, Coming
  <2> QED
    BY <2>3, <2>4, <2>5, <2>6 DEF Inv
<1> QED
  BY <1>1, <1>2

LEMMA SendInv ==
  ASSUME Inv, NEW fd \in fds, Send(fd)
  PROVE  Inv'
<1>0. /\ Begin("send", fd, "request")
      /\ sends' = sends + 1 /\ sends' \in 0..MaxSends /\ sends <= sends'
      /\ UNCHANGED <<sockVars, tstatus, stackVars, fdVars, earned>>
  BY SocketAssumption DEF Send, Inv, Types, TypeOK
<1>1. CASE fault'
  <2>1. UNCHANGED <<txData, overlapped>>
    BY <1>1 DEF Send
  <2> QED
    BY <1>0, <1>1, <2>1, FaultInv
<1> USE DEF sockVars, stackVars, fdVars
<1>2. ASSUME ~fault'
      PROVE  /\ pc = "idle" /\ op' = "send" /\ pc' = "request" /\ fault' = fault
             /\ this' \in Memory /\ mem[this'] = "live"
  BY <1>0, <1>2, BeginFacts
<1>3. ASSUME ~fault', txData' \in [Memory -> 0..MaxSends], overlapped' \subseteq Memory
      PROVE  Types' /\ CallInv' /\ HeapInv' /\ TableInv' /\ FdsInv' /\ EarnedInv'
  <2>1. Types'
    BY <1>0, <1>2, <1>3 DEF Inv, Types, TypeOK
  <2>2. CallInv' /\ HeapInv' /\ TableInv' /\ FdsInv' /\ EarnedInv'
    BY <1>0, <1>2, <1>3 DEF Inv, CallInv, HeapInv, TableInv, FdsInv, EarnedInv
  <2> QED
    BY <2>1, <2>2
<1>4. \A s \in Memory : txData[s] \in Nat /\ sends \in Nat /\ txData[s] <= sends
  BY DEF Inv, Types, TypeOK, OrderInv
<1>5. CASE ~fault' /\ ~proto[this']
  <2>1. UNCHANGED <<txData, overlapped>>
    BY <1>5 DEF Send
  <2>2. txData' \in [Memory -> 0..MaxSends] /\ overlapped' \subseteq Memory
    BY <2>1 DEF Inv, Types, TypeOK
  <2>3. OrderInv'
    <3>1. \A s \in Memory : ~Coming(s)' /\ (Fresh(s)' => Fresh(s))
      BY <1>0, <1>2, <1>5 DEF Fresh, Coming
    <3>2. \A s \in Memory : txData[s] <= sends'
      BY <1>0, <1>4
    <3> QED
      BY <1>0, <2>1, <3>1, <3>2 DEF Inv, OrderInv
  <2> QED
    BY <1>3, <1>5, <2>2, <2>3 DEF Inv
<1>6. CASE ~fault' /\ proto[this']
  <2>1. /\ txData' = [txData EXCEPT ![this'] = sends + 1]
        /\ overlapped' = IF "send" \in queue[this']
                         THEN overlapped \union {this'} ELSE overlapped
        /\ peer' = peer
    BY <1>6 DEF Send, Fill
  <2>2. txData' \in [Memory -> 0..MaxSends] /\ overlapped' \subseteq Memory
    BY <1>0, <1>2, <1>6, <2>1 DEF Inv, Types, TypeOK
  <2>3. OrderInv'
    <3>1. \A s \in Memory : txData'[s] = IF s = this' THEN sends + 1 ELSE txData[s]
      BY <2>1 DEF Inv, Types, TypeOK
    <3>2. \A s \in Memory : txData[s] \in Nat /\ sends \in Nat /\ txData[s] <= sends
      BY DEF Inv, Types, TypeOK, OrderInv
    <3>3. \A s \in Memory : txData'[s] <= sends' /\ (taken'[s] => "send" \in queue'[s])
      BY <1>0, <2>1, <3>1, <3>2 DEF Inv, OrderInv
    <3>4. ASSUME NEW s \in Memory \ overlapped'
          PROVE  /\ Increasing(peer'[s])
                 /\ \A k \in DOMAIN peer'[s] : peer'[s][k] <= txData'[s]
                 /\ Fresh(s)' => \A k \in DOMAIN peer'[s] : peer'[s][k] < txData'[s]
                 /\ Coming(s)' => "send" \notin queue'[s]
      <4>0. s \notin overlapped /\ peer' = peer
        BY <2>1
      <4>1. \A k \in DOMAIN peer[s] : peer[s][k] \in Nat /\ peer[s][k] <= txData[s]
        <5>1. peer[s] \in Seq(0..MaxSends)
          BY DEF Inv, Types, TypeOK
        <5>2. \A k \in DOMAIN peer[s] : peer[s][k] \in 0..MaxSends
          <6>1. DOMAIN peer[s] = 1..Len(peer[s])
            BY <5>1
          <6> QED
            BY <5>1, <6>1, ElementOfSeq
        <5> QED
          BY <4>0, <5>2 DEF Inv, OrderInv
      <4>2. Increasing(peer'[s])
        BY <4>0 DEF Inv, OrderInv
      <4>3. CASE s = this'
        <5>1. "send" \notin queue[s]
          BY <2>1, <3>4, <4>3
        <5>2. \A k \in DOMAIN peer[s] : peer[s][k] < sends + 1
          BY <3>2, <4>1
        <5>3. txData'[s] = sends + 1
          BY <3>1, <4>3
        <5>4. \A k \in DOMAIN peer'[s] : peer'[s][k] < txData'[s] /\ peer'[s][k] <= txData'[s]
          BY <4>0, <4>1, <5>2, <5>3, <3>2
        <5> QED
          BY <1>0, <4>2, <5>1, <5>4 DEF Fresh, Coming
      <4>4. CASE s # this'
        <5>1. txData'[s] = txData[s] /\ ~Coming(s)' /\ (Fresh(s)' => Fresh(s))
          BY <1>0, <1>2, <3>1, <4>4 DEF Fresh, Coming
        <5> QED
          BY <4>0, <4>1, <4>2, <5>1 DEF Inv, OrderInv
      <4> QED
        BY <4>3, <4>4
    <3> QED
      BY <3>3, <3>4 DEF OrderInv
  <2> QED
    BY <1>3, <1>6, <2>2, <2>3 DEF Inv
<1> QED
  BY <1>1, <1>5, <1>6

LEMMA RecvInv ==
  ASSUME Inv, NEW fd \in fds, Recv(fd)
  PROVE  Inv'
<1>0. /\ Begin("recv", fd, "request")
      /\ UNCHANGED <<sockVars, tstatus, txData, stackVars, fdVars, sends, earned,
                     overlapped>>
  BY DEF Recv
<1>1. CASE fault'
  <2>1. sends' \in 0..MaxSends /\ sends <= sends'
    BY <1>0 DEF Inv, Types, TypeOK
  <2> QED
    BY <1>0, <1>1, <2>1, FaultInv
<1>2. CASE ~fault'
  <2> USE DEF sockVars, stackVars, fdVars
  <2>1. /\ pc = "idle" /\ op' = "recv" /\ pc' = "request" /\ fault' = fault
        /\ this' \in Memory /\ mem[this'] = "live"
    BY <1>0, <1>2, BeginFacts
  <2>2. Types'
    BY <1>0, <2>1 DEF Inv, Types, TypeOK
  <2>3. CallInv' /\ HeapInv' /\ TableInv' /\ FdsInv' /\ EarnedInv'
    BY <1>0, <2>1 DEF Inv, CallInv, HeapInv, TableInv, FdsInv, EarnedInv
  <2>4. OrderInv'
    BY <1>0, <2>1 DEF Inv, OrderInv, Fresh, Coming
  <2> QED
    BY <2>2, <2>3, <2>4 DEF Inv
<1> QED
  BY <1>1, <1>2

LEMMA RequestInv ==
  ASSUME Inv, Request
  PROVE  Inv'
<1> DEFINE a == IF proto[this] THEN Answer(this, op) ELSE "not_found"
<1>1. /\ pc = "request" /\ this \in Memory /\ mem[this] = "live"
      /\ op \in {"connect", "send", "recv"} /\ op \in Token
      /\ UNCHANGED <<Socketfd, mem, events, proto, tstatus, txData, taken, peer, op,
                     this, fds, opened, sends, fault, earned, overlapped>>
  BY DEF Inv, Types, TypeOK, CallInv, Request, Return, sockVars, Token, fdVars
<1>2. CASE a = "success"
  <2>1. /\ queue' = [queue EXCEPT ![this] = @ \union {op}]
        /\ child' = [child EXCEPT ![this] = IF op = "connect" THEN "connecting" ELSE @]
        /\ pc' = "report"
    BY <1>2 DEF Request
  <2>2. /\ proto[this] /\ op \in events[this] /\ op \notin queue[this]
        /\ child[this] \in {"configured", "connected"}
    BY <1>1, <1>2 DEF Answer
  <2>3. Types'
    BY <1>1, <2>1 DEF Inv, Types, TypeOK
  <2>4. /\ \A s \in Memory \ {this} : child'[s] = child[s] /\ queue'[s] = queue[s]
        /\ child'[this] \in {"connecting", "configured", "connected"}
        /\ queue'[this] = queue[this] \union {op}
    BY <1>1, <2>1, <2>2 DEF Inv, Types, TypeOK
  <2>5. CallInv'
    BY <1>1, <2>1, <2>2 DEF Inv, CallInv
  <2>6. HeapInv'
    <3>1. ASSUME NEW s \in Memory
          PROVE  /\ mem[s] # "live" => child'[s] \in {"none", "destroyed"}
                 /\ mem[s] = "none" => child'[s] = "none"
                 /\ proto[s] => mem[s] = "live" /\ child'[s] # "none"
                 /\ proto[s] => events[s] = Token
                 /\ queue'[s] # {} => proto[s] /\ child'[s] \notin {"none", "closed", "destroyed"}
                 /\ child'[s] = "destroyed" => mem[s] = "freed"
      BY <1>1, <2>2, <2>4 DEF Inv, HeapInv
    <3> QED
      BY <1>1, <3>1 DEF HeapInv
  <2>7. TableInv' /\ FdsInv' /\ EarnedInv'
    BY <1>1, <2>1 DEF Inv, TableInv, FdsInv, EarnedInv
  <2>8. OrderInv'
    <3>1. \A s \in Memory : /\ ~Coming(s)' /\ (Fresh(s)' => Fresh(s))
                            /\ ("send" \in queue[s] => "send" \in queue'[s])
      BY <1>1, <2>1, <2>2, <2>4 DEF Fresh, Coming
    <3> QED
      BY <1>1, <3>1 DEF Inv, OrderInv
  <2> QED
    BY <2>3, <2>5, <2>6, <2>7, <2>8 DEF Inv
<1>3. CASE a # "success"
  <2>1. queue' = queue /\ child' = child /\ pc' = "idle" /\ ret' # "success"
    BY <1>3 DEF Request, Return
  <2>2. Types'
    BY <1>1, <2>1 DEF Inv, Types, TypeOK
  <2>3. CallInv' /\ HeapInv' /\ TableInv' /\ FdsInv' /\ EarnedInv'
    BY <1>1, <2>1 DEF Inv, CallInv, HeapInv, TableInv, FdsInv, EarnedInv
  <2>4. OrderInv'
    BY <1>1, <2>1 DEF Inv, OrderInv, Fresh, Coming
  <2> QED
    BY <2>2, <2>3, <2>4 DEF Inv
<1> QED
  BY <1>2, <1>3

LEMMA ReportInv ==
  ASSUME Inv, Report
  PROVE  Inv'
<1>1. /\ pc = "report" /\ pc' = "idle" /\ this \in Memory /\ proto[this]
      /\ ret' = IF op = "connect" THEN "invalid" ELSE tstatus[this][op]
      /\ UNCHANGED <<Socketfd, mem, events, proto, tstatus, txData, child, queue,
                     taken, peer, op, this, fds, opened, sends, fault, earned, overlapped>>
  BY DEF Inv, Types, TypeOK, CallInv, Report, Return, sockVars, stackVars, fdVars
<1>2. Types'
  BY <1>1 DEF Inv, Types, TypeOK
<1>3. CallInv' /\ HeapInv' /\ TableInv' /\ FdsInv'
  BY <1>1 DEF Inv, CallInv, HeapInv, TableInv, FdsInv
<1>4. EarnedInv'
  BY <1>1 DEF Inv, EarnedInv
<1>5. OrderInv'
  BY <1>1 DEF Inv, OrderInv, Fresh, Coming
<1> QED
  BY <1>2, <1>3, <1>4, <1>5 DEF Inv

-----------------------------------------------------------------------------
(* Close and Destroy *)

\* Close that finds a whole socket.
LEMMA CloseWhole ==
  ASSUME Inv, NEW fd \in fds, Close(fd), ~fault'
  PROVE  Inv'
<1>1. /\ pc = "idle" /\ op' = "close" /\ pc' = "child" /\ fault' = fault
      /\ fd \in Fds /\ this' = Socketfd[fd]
      /\ this' \in Memory /\ mem[this'] = "live" /\ proto[this']
      /\ ret' = Answer(this', "close")
  BY BeginFacts DEF Close, After
<1>2. /\ fds' = fds \ {fd} /\ opened' = opened \ {fd}
      /\ UNCHANGED <<Socketfd, mem, events, proto, tstatus, txData, taken, peer,
                     sends, earned, overlapped>>
  BY DEF Close, sockVars
<1>3. child[this'] \notin {"none", "destroyed"}
  BY <1>1 DEF Inv, HeapInv
<1>4. /\ queue' \in [Memory -> SUBSET Token]
      /\ child' \in [Memory -> {"none", "closed", "configured", "connecting",
                                "connected", "disconnecting", "destroyed"}]
      /\ \A s \in Memory \ {this'} : child'[s] = child[s] /\ queue'[s] = queue[s]
      /\ queue'[this'] \in {queue[this'], queue[this'] \union {"close"}}
      /\ child'[this'] \in {child[this'], "disconnecting"}
      /\ queue'[this'] = queue[this'] \/ child'[this'] = "disconnecting"
  <2>1. CASE ret' = "success"
    <3>1. /\ queue' = [queue EXCEPT ![this'] = @ \union {"close"}]
          /\ child' = [child EXCEPT ![this'] = "disconnecting"]
      BY <2>1 DEF Close
    <3> QED
      BY <1>1, <3>1 DEF Inv, Types, TypeOK, Token
  <2>2. CASE ret' # "success"
    BY <2>2 DEF Close, Inv, Types, TypeOK
  <2> QED
    BY <2>1, <2>2
<1>5. Types'
  BY <1>1, <1>2, <1>4 DEF Inv, Types, TypeOK
<1>6. CallInv'
  BY <1>1, <1>2 DEF Inv, CallInv
<1>7. HeapInv'
  <2>1. ASSUME NEW s \in Memory
        PROVE  /\ mem[s] # "live" => child'[s] \in {"none", "destroyed"}
               /\ mem[s] = "none" => child'[s] = "none"
               /\ proto[s] => mem[s] = "live" /\ child'[s] # "none"
               /\ proto[s] => events[s] = Token
               /\ queue'[s] # {} => proto[s] /\ child'[s] \notin {"none", "closed", "destroyed"}
               /\ child'[s] = "destroyed" => mem[s] = "freed"
    <3>1. CASE s = this'
      BY <1>1, <1>3, <1>4, <3>1 DEF Inv, HeapInv
    <3>2. CASE s # this'
      BY <1>1, <1>4, <3>2 DEF Inv, HeapInv
    <3> QED
      BY <3>1, <3>2
  <2> QED
    BY <1>2, <2>1 DEF HeapInv
<1>8. TableInv' /\ EarnedInv'
  BY <1>1, <1>2 DEF Inv, TableInv, EarnedInv
<1>9. FdsInv'
  BY <1>1, <1>2 DEF Inv, Types, FdsInv, TableInv
<1>10. OrderInv'
  <2>1. \A s \in Memory : /\ ~Coming(s)' /\ (Fresh(s)' => Fresh(s))
                          /\ ("send" \in queue[s] => "send" \in queue'[s])
    BY <1>1, <1>2, <1>4 DEF Fresh, Coming
  <2> QED
    BY <1>2, <2>1 DEF Inv, OrderInv
<1> QED
  BY <1>5, <1>6, <1>7, <1>8, <1>9, <1>10 DEF Inv

LEMMA CloseInv ==
  ASSUME Inv, NEW fd \in fds, Close(fd)
  PROVE  Inv'
<1>1. CASE fault'
  <2>1. /\ Begin("close", fd, After["close"]) /\ ret' # "success"
        /\ UNCHANGED <<sockVars, tstatus, txData, taken, peer, fdVars, sends, earned,
                       overlapped>>
    BY <1>1 DEF Close, Begin, Inv, FdsInv
  <2>2. UNCHANGED <<sockVars, tstatus, txData, stackVars, fdVars, earned, overlapped>>
    BY <2>1 DEF Close, stackVars
  <2>3. sends' \in 0..MaxSends /\ sends <= sends'
    BY <2>1 DEF Inv, Types, TypeOK
  <2> QED
    BY <1>1, <2>1, <2>2, <2>3, FaultInv
<1> QED
  BY <1>1, CloseWhole

LEMMA DestroyChildInv ==
  ASSUME Inv, DestroyChild
  PROVE  Inv'
<1>1. /\ pc = "child" /\ pc' = "events" /\ this \in Memory
      /\ mem[this] = "live" /\ proto[this] /\ op = "close"
      /\ UNCHANGED <<Socketfd, mem, events, proto, txData, peer, op, this, fds, opened,
                     sends, fault, earned, overlapped>>
  BY DEF DestroyChild, After, sockVars, fdVars, Inv, Types, TypeOK, CallInv
<1>2. /\ child' = [child EXCEPT ![this] = "destroyed"]
      /\ queue' = [queue EXCEPT ![this] = {}]
      /\ taken' = [taken EXCEPT ![this] = FALSE]
  BY DEF DestroyChild
<1>3. /\ tstatus' \in [Memory -> [Token -> {"success", "aborted"}]]
      /\ \A s \in Memory, t \in Token : tstatus'[s][t] = "success" => tstatus[s][t] = "success"
  <2>1. tstatus' = [tstatus EXCEPT ![this] =
          [t \in Token |-> IF t \in queue[this] THEN "aborted" ELSE tstatus[this][t]]]
    BY DEF DestroyChild
  <2>2. [t \in Token |-> IF t \in queue[this] THEN "aborted" ELSE tstatus[this][t]]
          \in [Token -> {"success", "aborted"}]
    BY <1>1 DEF Inv, Types, TypeOK
  <2> QED
    BY <1>1, <2>1, <2>2 DEF Inv, Types, TypeOK
<1>4. /\ \A s \in Memory : queue'[s] \subseteq queue[s]
      /\ \A s \in Memory \ {this} : child'[s] = child[s] /\ queue'[s] = queue[s]
                                    /\ taken'[s] = taken[s]
      /\ queue'[this] = {} /\ child'[this] = "destroyed" /\ taken'[this] = FALSE
  BY <1>1, <1>2 DEF Inv, Types, TypeOK
<1>5. Types'
  <2>1. /\ child' \in [Memory -> {"none", "closed", "configured", "connecting",
                                  "connected", "disconnecting", "destroyed"}]
        /\ queue' \in [Memory -> SUBSET Token]
        /\ taken' \in [Memory -> BOOLEAN]
    BY <1>1, <1>2 DEF Inv, Types, TypeOK
  <2> QED
    BY <1>1, <1>3, <2>1 DEF Inv, Types, TypeOK
<1>6. CallInv'
  BY <1>1, <1>4 DEF Inv, CallInv
<1>7. HeapInv'
  BY <1>1, <1>4 DEF Inv, HeapInv
<1>8. TableInv' /\ FdsInv'
  BY <1>1 DEF Inv, TableInv, FdsInv
<1>9. EarnedInv'
  BY <1>1, <1>3 DEF Inv, EarnedInv, Token
<1>10. OrderInv'
  <2>1. \A s \in Memory : /\ ~Coming(s)' /\ (Fresh(s)' => Fresh(s))
                          /\ (taken'[s] => "send" \in queue'[s])
    BY <1>1, <1>4 DEF Fresh, Coming, Inv, OrderInv
  <2> QED
    BY <1>1, <2>1 DEF Inv, OrderInv
<1> QED
  BY <1>5, <1>6, <1>7, <1>8, <1>9, <1>10 DEF Inv

LEMMA CloseEventsInv ==
  ASSUME Inv, CloseEvents
  PROVE  Inv'
<1>1. /\ pc = "events" /\ pc' = "free" /\ this \in Memory
      /\ mem[this] = "live" /\ proto[this] /\ op = "close"
      /\ child[this] = "destroyed"
      /\ events' = [events EXCEPT ![this] = @ \intersect {"close"}]
      /\ UNCHANGED <<Socketfd, mem, proto, tstatus, txData, child, queue, taken,
                     peer, op, this, ret, fds, opened, sends, fault, earned, overlapped>>
  BY DEF CloseEvents, After, stackVars, fdVars, Inv, Types, TypeOK, CallInv
<1>2. Types'
  BY <1>1 DEF Inv, Types, TypeOK
<1>3. CallInv' /\ TableInv' /\ FdsInv' /\ EarnedInv'
  BY <1>1 DEF Inv, CallInv, TableInv, FdsInv, EarnedInv
<1>4. HeapInv'
  <2>1. \A s \in Memory \ {this} : events'[s] = events[s]
    BY <1>1 DEF Inv, Types, TypeOK
  <2> QED
    BY <1>1, <2>1 DEF Inv, HeapInv
<1>5. OrderInv'
  BY <1>1 DEF Inv, OrderInv, Fresh, Coming
<1> QED
  BY <1>2, <1>3, <1>4, <1>5 DEF Inv

LEMMA FreeSocketInv ==
  ASSUME Inv, FreeSocket
  PROVE  Inv'
<1> USE SocketAssumption
<1>1. /\ pc = "free" /\ pc' = "idle" /\ this' = NULL /\ this \in Memory
      /\ op = "close" /\ child[this] = "destroyed" /\ queue[this] = {} /\ this # NULL
      /\ UNCHANGED <<child, queue, taken, op, ret, fds, opened, sends, fault>>
  BY DEF FreeSocket, Inv, Types, TypeOK, CallInv, HeapInv, fdVars
<1>2. /\ \A s \in Memory \ {this} :
           /\ mem'[s] = mem[s] /\ proto'[s] = proto[s] /\ events'[s] = events[s]
           /\ tstatus'[s] = tstatus[s] /\ txData'[s] = txData[s]
           /\ peer'[s] = peer[s] /\ earned'[s] = earned[s]
      /\ mem'[this] = "freed" /\ proto'[this] = FALSE /\ txData'[this] = 0
      /\ peer'[this] = <<>>
      /\ \A i \in Fds : Socketfd'[i] = IF Socketfd[i] = this THEN NULL ELSE Socketfd[i]
      /\ overlapped' = overlapped \ {this}
  BY <1>1 DEF FreeSocket, Inv, Types, TypeOK
<1>3. Types'
  <2>1. [t \in Token |-> "success"] \in [Token -> {"success", "aborted"}]
    OBVIOUS
  <2>2. tstatus' \in [Memory -> [Token -> {"success", "aborted"}]]
    BY <1>1, <2>1 DEF FreeSocket, Inv, Types, TypeOK
  <2>3. peer' \in [Memory -> Seq(0..MaxSends)]
    <3>1. <<>> \in Seq(0..MaxSends)
      BY EmptySeq
    <3>2. /\ peer \in [Memory -> Seq(0..MaxSends)]
          /\ peer' = [peer EXCEPT ![this] = <<>>]
      BY DEF FreeSocket, Inv, Types, TypeOK
    <3> QED
      BY <3>1, <3>2, Zenon
  <2>4. /\ proto' \in [Memory -> BOOLEAN] /\ events' \in [Memory -> SUBSET Token]
        /\ earned' \in [Memory -> SUBSET Token]
        /\ Socketfd' \in [Fds -> Memory \union {NULL}]
        /\ mem' \in [Memory -> {"none", "live", "freed"}]
    <3>1. /\ events' \in [Memory -> SUBSET Token]
          /\ earned' \in [Memory -> SUBSET Token]
          /\ Socketfd' \in [Fds -> Memory \union {NULL}]
          /\ mem' \in [Memory -> {"none", "live", "freed"}]
      BY <1>1 DEF FreeSocket, Inv, Types, TypeOK
    <3>2. proto \in [Memory -> BOOLEAN] /\ proto' = [proto EXCEPT ![this] = FALSE]
      BY DEF FreeSocket, Inv, Types, TypeOK
    <3>3. proto' \in [Memory -> BOOLEAN]
      BY <3>2, Zenon
    <3> QED
      BY <3>1, <3>3
  <2>5. txData' \in [Memory -> 0..MaxSends]
    <3>1. 0 \in 0..MaxSends
      OBVIOUS
    <3>2. txData \in [Memory -> 0..MaxSends] /\ txData' = [txData EXCEPT ![this] = 0]
      BY DEF FreeSocket, Inv, Types, TypeOK
    <3> QED
      BY <3>1, <3>2, Zenon
  <2> QED
    BY <1>1, <1>2, <2>2, <2>3, <2>4, <2>5 DEF Inv, Types, TypeOK
<1>4. CallInv'
  BY <1>1 DEF CallInv
<1>5. HeapInv'
  BY <1>1, <1>2 DEF Inv, HeapInv
<1>6. TableInv'
  <2>1. \A i \in Fds : /\ Socketfd'[i] # NULL => Socketfd'[i] = Socketfd[i]
                       /\ Socketfd[i] # this => Socketfd'[i] = Socketfd[i]
                       /\ Socketfd'[i] # this
                       /\ Socketfd[i] # NULL => Socketfd[i] \in Memory
    <3>1. this # NULL
      BY <1>1
    <3>2. \A i \in Fds : Socketfd'[i] = IF Socketfd[i] = this THEN NULL ELSE Socketfd[i]
      BY <1>2
    <3>3. \A i \in Fds : Socketfd[i] # NULL => Socketfd[i] \in Memory
      BY DEF Inv, Types, TypeOK
    <3> QED
      BY <3>1, <3>2, <3>3, Zenon
  <2>2. ASSUME NEW i \in Fds, NEW j \in Fds,
               Socketfd'[i] = Socketfd'[j], Socketfd'[i] # NULL
        PROVE  i = j
    <3>1. Socketfd'[i] = Socketfd[i] /\ Socketfd'[j] = Socketfd[j]
      BY <2>1, <2>2
    <3>2. Socketfd[i] = Socketfd[j] /\ Socketfd[i] # NULL
      BY <2>2, <3>1
    <3> QED
      BY <3>2 DEF Inv, TableInv
  <2>3. ASSUME NEW i \in Fds, Socketfd'[i] # NULL
        PROVE  mem'[Socketfd'[i]] = "live"
    <3>1. /\ Socketfd'[i] = Socketfd[i] /\ Socketfd[i] # NULL
          /\ Socketfd[i] \in Memory /\ Socketfd[i] # this
      <4>1. Socketfd'[i] = Socketfd[i] /\ Socketfd'[i] # this
        BY <2>1, <2>3
      <4> QED
        BY <2>1, <2>3, <4>1
    <3>2. mem[Socketfd[i]] = "live"
      BY <3>1 DEF Inv, TableInv
    <3>3. mem'[Socketfd[i]] = mem[Socketfd[i]]
      BY <1>2, <3>1
    <3> QED
      BY <3>1, <3>2, <3>3
  <2>4. ASSUME NEW s \in Memory, mem'[s] = "live"
        PROVE  \E i \in Fds : Socketfd'[i] = s
    <3>1. s # this /\ mem[s] = "live"
      BY <1>2, <2>4
    <3>2. PICK i \in Fds : Socketfd[i] = s
      BY <3>1 DEF Inv, TableInv
    <3>3. Socketfd'[i] = s
      BY <2>1, <3>1, <3>2
    <3> QED
      BY <3>3
  <2> QED
    BY <2>2, <2>3, <2>4 DEF TableInv
<1>7. FdsInv'
  <2>1. ASSUME NEW fd \in opened
        PROVE  Socketfd'[fd] # NULL /\ proto'[Socketfd'[fd]]
    <3>1. /\ fd \in Fds /\ Socketfd[fd] # NULL /\ proto[Socketfd[fd]]
          /\ Socketfd[fd] \in Memory \ {this}
      BY <1>1 DEF Inv, Types, TypeOK, FdsInv
    <3> QED
      BY <1>2, <3>1
  <2> QED
    BY <1>1, <2>1 DEF Inv, FdsInv
<1>8. EarnedInv'
  BY <1>1, <1>2 DEF Inv, EarnedInv
<1>9. OrderInv'
  <2>1. \A s \in Memory : txData'[s] <= sends' /\ (taken'[s] => "send" \in queue'[s])
    <3>1. 0 <= sends
      BY DEF Inv, Types, TypeOK
    <3> QED
      BY <1>1, <1>2, <3>1 DEF Inv, OrderInv
  <2>2. ASSUME NEW s \in Memory \ overlapped'
        PROVE  /\ Increasing(peer'[s])
               /\ \A k \in DOMAIN peer'[s] : peer'[s][k] <= txData'[s]
               /\ Fresh(s)' => \A k \in DOMAIN peer'[s] : peer'[s][k] < txData'[s]
               /\ Coming(s)' => "send" \notin queue'[s]
    <3>1. CASE s = this
      BY <1>1, <1>2, <3>1 DEF Increasing, Fresh, Coming
    <3>2. CASE s # this
      <4>1. s \in Memory \ overlapped /\ ~Coming(s)' /\ (Fresh(s)' => Fresh(s))
        BY <1>1, <1>2, <2>2, <3>2 DEF Fresh, Coming
      <4> QED
        BY <1>1, <1>2, <3>2, <4>1 DEF Inv, OrderInv
    <3> QED
      BY <3>1, <3>2
  <2> QED
    BY <2>1, <2>2 DEF OrderInv
<1> QED
  BY <1>3, <1>4, <1>5, <1>6, <1>7, <1>8, <1>9 DEF Inv

-----------------------------------------------------------------------------
LEMMA StepInv ==
  ASSUME Inv, [Next]_vars
  PROVE  Inv'
<1>1. CASE NewSocket
  BY <1>1, NewSocketInv
<1>2. ASSUME NEW fd \in fds, Connect(fd) \/ ConfigureFails(fd)
      PROVE  Inv'
  BY <1>2, ConnectInv
<1>3. ASSUME NEW fd \in fds, Send(fd)
      PROVE  Inv'
  BY <1>3, SendInv
<1>4. ASSUME NEW fd \in fds, Recv(fd)
      PROVE  Inv'
  BY <1>4, RecvInv
<1>5. ASSUME NEW fd \in fds, Close(fd)
      PROVE  Inv'
  BY <1>5, CloseInv
<1>6. CASE Request
  BY <1>6, RequestInv
<1>7. CASE Report
  BY <1>7, ReportInv
<1>8. CASE DestroyChild
  BY <1>8, DestroyChildInv
<1>9. CASE CloseEvents
  BY <1>9, CloseEventsInv
<1>10. CASE FreeSocket
  BY <1>10, FreeSocketInv
<1>11. CASE Stack
  BY <1>11, StackInv
<1>12. CASE UNCHANGED vars
  <2> USE <1>12 DEF vars, sockVars, stackVars, callVars, fdVars
  <2>1. Types'
    BY DEF Inv, Types, TypeOK
  <2>2. CallInv' /\ HeapInv' /\ TableInv' /\ FdsInv' /\ EarnedInv'
    BY DEF Inv, CallInv, HeapInv, TableInv, FdsInv, EarnedInv
  <2>3. OrderInv'
    BY DEF Inv, OrderInv, Fresh, Coming
  <2> QED
    BY <2>1, <2>2, <2>3 DEF Inv
<1> QED
  BY <1>1, <1>2, <1>3, <1>4, <1>5, <1>6, <1>7, <1>8, <1>9, <1>10, <1>11, <1>12
     DEF Next, Program

LEMMA AlwaysInv == Spec => []Inv
<1>1. Init => Inv
  BY InitInv
<1>2. Inv /\ [Next]_vars => Inv'
  BY StepInv
<1> QED
  BY <1>1, <1>2, PTL DEF Spec

-----------------------------------------------------------------------------
(* The properties of the runs *)

\* Every state of the sockets and of the stack is one that the code can name
\* (TypeOK), however many sockets, blocks and Sends there are.
THEOREM SocketTypeCorrect == Spec => []TypeOK
<1>1. Inv => TypeOK
  BY DEF Inv, Types
<1> QED
  BY <1>1, AlwaysInv, PTL

\* What the stack holds when it completes a token is still there: struct,
\* event and child (Close, Destroy).
THEOREM SocketTokensLive == Spec => []TokensLive
<1>1. ASSUME Inv PROVE TokensLive
  <2>1. ASSUME NEW s \in Memory, queue[s] # {}
        PROVE  /\ mem[s] = "live" /\ queue[s] \subseteq events[s]
               /\ child[s] \notin {"none", "closed", "destroyed"}
    <3>1. /\ proto[s] /\ mem[s] = "live"
          /\ child[s] \notin {"none", "closed", "destroyed"}
      BY <1>1, <2>1 DEF Inv, HeapInv
    <3>2. events[s] = Token
      BY <1>1, <3>1 DEF Inv, HeapInv, CallInv
    <3> QED
      BY <1>1, <3>1, <3>2 DEF Inv, Types, TypeOK
  <2> QED
    BY <2>1 DEF TokensLive
<1> QED
  BY <1>1, AlwaysInv, PTL

\* Every struct and child is in exactly one slot of Socketfd, whatever step of
\* Socket failed (Socket, Initialize, Destroy).
THEOREM SocketTableOwns == Spec => []TableOwns
<1>1. ASSUME Inv PROVE TableOwns
  <2>1. ASSUME NEW s \in Memory, mem[s] = "live" \/ child[s] \notin {"none", "destroyed"}
        PROVE  Cardinality({i \in Fds : Socketfd[i] = s}) = 1
    <3>1. mem[s] = "live" /\ s # NULL
      BY <1>1, <2>1, SocketAssumption DEF Inv, HeapInv
    <3>2. PICK i \in Fds : Socketfd[i] = s
      BY <1>1, <3>1 DEF Inv, TableInv
    <3>3. {j \in Fds : Socketfd[j] = s} = {i}
      BY <1>1, <3>1, <3>2 DEF Inv, TableInv
    <3> QED
      BY <3>3, FS_Singleton
  <2> QED
    BY <2>1 DEF TableOwns
<1> QED
  BY <1>1, AlwaysInv, PTL

\* A descriptor that Socket returned for a whole socket works until Close takes
\* it back, and a call goes wrong only if the program has something else that
\* Socket returned: whatever an error status looks like as an int.
THEOREM SocketDescriptorsWork == Spec => []DescriptorsWork
<1>1. ASSUME Inv PROVE DescriptorsWork
  BY <1>1 DEF Inv, Types, TableInv, FdsInv, DescriptorsWork
<1> QED
  BY <1>1, AlwaysInv, PTL

\* Send and Recv return EFI_SUCCESS only if one of the socket's sends, or
\* receives, succeeded.
THEOREM SocketSuccessIsEarned == Spec => []SuccessIsEarned
<1>1. ASSUME Inv PROVE SuccessIsEarned
  BY <1>1 DEF Inv, EarnedInv, SuccessIsEarned
<1> QED
  BY <1>1, AlwaysInv, PTL

\* The data of each Send arrives at most once and in order, on a socket that is
\* never given the next before the last has left the stack.
THEOREM SocketSentOnce == Spec => []SentOnceUnlessOverlapped
<1>1. ASSUME Inv PROVE SentOnceUnlessOverlapped
  BY <1>1 DEF Inv, OrderInv, SentOnceUnlessOverlapped
<1> QED
  BY <1>1, AlwaysInv, PTL
=============================================================================
